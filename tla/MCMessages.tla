----------------------------- MODULE MCMessages -----------------------------
(* Messages for TLC: the limits of the code scaled down, with the order     *)
(* KeepNoTtl < Month < KeepAll and a TTL shorter than a month.              *)
EXTENDS Messages

SomeTtls == {-1, 0, 2}
=============================================================================
