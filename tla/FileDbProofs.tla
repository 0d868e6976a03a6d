---------------------------- MODULE FileDbProofs ----------------------------
(***************************************************************************)
(* Proofs about FileDb, for every set of sessions and inodes, every bound  *)
(* and every number of faults.  The argument rests on the inductive        *)
(* invariant IInv of FileDb: TypeOK alone is not inductive, because the    *)
(* version a commit acknowledges is read through a descriptor that only    *)
(* FdInv shows to be open, and AckedSurvives is not, because dropping a    *)
(* name is safe only where SeenInv and NamesInv say what the other names   *)
(* hold.                                                                   *)
(***************************************************************************)
EXTENDS FileDb, TLAPS

\* The vocabulary of the invariant: sets of steps and abbreviations, all of
\* them expanded everywhere below.
USE SentinelAssumption, KindsAssumption, BoundAssumption
    DEF IInv, Goto, histVars, fsVars, fdVars, SafeMain, SafeBak, BackedUp,
        Holds, HoldsEX, HoldsSH, Reading, Written, Decoded, ReadFd, WriteFd,
        AfterOpen, LockedSteps, OpenSteps, BackupSteps, CommitSteps,
        FetchSteps, Steps, AllKinds, Names, Empty, Partial, Complete

\* The initial states satisfy the invariant: no file at all, or one complete
\* main file that nobody has open.
LEMMA InitInv == Init => IInv
<1> SUFFICES ASSUME Init
             PROVE  IInv
  OBVIOUS
<1>1. TypeOK /\ StartedInv
  BY DEF Init, TypeOK, StartedInv
<1>2. SpinInv /\ FdInv /\ KindInv
  BY DEF Init, SpinInv, FdInv, KindInv
<1>3. SeenInv /\ WriteInv
  BY DEF Init, SeenInv, WriteInv
<1>4. NamesInv /\ SurvivalInv
  BY DEF Init, NamesInv, SurvivalInv
<1> QED
  BY <1>1, <1>2, <1>3, <1>4

\* Every step of every session, a fault too, preserves the invariant.
LEMMA NextInv == IInv /\ [Next]_vars => IInv'
<1> SUFFICES ASSUME IInv, [Next]_vars
             PROVE  IInv'
  OBVIOUS
<1>1. ASSUME NEW s \in Session, NEW k \in Kinds, Start(s, k)
      PROVE  IInv'
  BY <1>1 DEF Start, TypeOK, StartedInv, SpinInv, FdInv, KindInv, SeenInv,
     WriteInv, NewVersion, NamesInv, SurvivalInv
<1>2. ASSUME NEW s \in Session, LockSpin(s)
      PROVE  IInv'
  BY <1>2 DEF LockSpin, TypeOK, StartedInv, SpinInv, FdInv, KindInv, SeenInv,
     WriteInv, NewVersion, NamesInv, SurvivalInv
<1>3. ASSUME NEW s \in Session, OpenTmp(s)
      PROVE  IInv'
  <2>1. /\ TypeOK' /\ StartedInv' /\ SpinInv' /\ FdInv' /\ KindInv'
       /\ NamesInv' /\ SurvivalInv'
    BY <1>3 DEF OpenTmp, OpenOrCreate, InUse, TypeOK, StartedInv, SpinInv,
       FdInv, KindInv, NamesInv, SurvivalInv
  <2>2. SeenInv'
    BY <1>3 DEF OpenTmp, OpenOrCreate, InUse, TypeOK, SeenInv, SpinInv
  <2>3. WriteInv'
    BY <1>3 DEF OpenTmp, OpenOrCreate, InUse, TypeOK, WriteInv, NewVersion,
       SpinInv
  <2> QED
    BY <2>1, <2>2, <2>3
<1>4. ASSUME NEW s \in Session, LockTmp(s)
      PROVE  IInv'
  <2>1. /\ StartedInv' /\ SpinInv' /\ FdInv' /\ KindInv' /\ SeenInv'
       /\ WriteInv' /\ NamesInv'
    BY <1>4 DEF LockTmp, TypeOK, StartedInv, SpinInv, FdInv, KindInv, SeenInv,
       WriteInv, NewVersion, NamesInv
  <2>2. TypeOK'
    BY <1>4 DEF LockTmp, TypeOK, SpinInv, FdInv
  <2>3. SurvivalInv'
    BY <1>4 DEF LockTmp, TypeOK, SurvivalInv, SpinInv, FdInv, KindInv, SeenInv,
       NamesInv
  <2> QED
    BY <2>1, <2>2, <2>3
<1>5. ASSUME NEW s \in Session, OpenMain(s)
      PROVE  IInv'
  <2>1. /\ TypeOK' /\ StartedInv' /\ SpinInv' /\ FdInv' /\ KindInv'
       /\ NamesInv' /\ SurvivalInv'
    BY <1>5 DEF OpenMain, OpenOrCreate, InUse, TypeOK, StartedInv, SpinInv,
       FdInv, KindInv, NamesInv, SurvivalInv
  <2>2. SeenInv'
    BY <1>5 DEF OpenMain, OpenOrCreate, InUse, TypeOK, SeenInv, SpinInv
  <2>3. WriteInv'
    BY <1>5 DEF OpenMain, OpenOrCreate, InUse, TypeOK, WriteInv, NewVersion,
       SpinInv
  <2> QED
    BY <2>1, <2>2, <2>3
<1>6. ASSUME NEW s \in Session, LockMain(s)
      PROVE  IInv'
  BY <1>6 DEF LockMain, TypeOK, StartedInv, SpinInv, FdInv, KindInv, SeenInv,
     WriteInv, NewVersion, NamesInv, SurvivalInv
<1>7. ASSUME NEW s \in Session, Decode(s)
      PROVE  IInv'
  <2>1. /\ StartedInv' /\ SpinInv' /\ FdInv' /\ KindInv' /\ WriteInv'
       /\ NamesInv' /\ SurvivalInv'
    BY <1>7 DEF Decode, TypeOK, StartedInv, SpinInv, FdInv, KindInv, WriteInv,
       NewVersion, NamesInv, SurvivalInv
  <2>2. TypeOK'
    BY <1>7 DEF Decode, TypeOK, SpinInv, FdInv
  <2>3. SeenInv'
    BY <1>7 DEF Decode, TypeOK, SeenInv, SpinInv, FdInv, KindInv, NamesInv
  <2> QED
    BY <2>1, <2>2, <2>3
<1>8. ASSUME NEW s \in Session, DropBak(s)
      PROVE  IInv'
  <2>1. /\ TypeOK' /\ StartedInv' /\ SpinInv' /\ FdInv' /\ KindInv'
       /\ WriteInv' /\ NamesInv'
    BY <1>8 DEF DropBak, TypeOK, StartedInv, SpinInv, FdInv, KindInv, WriteInv,
       NewVersion, NamesInv
  <2>2. SeenInv'
    BY <1>8 DEF DropBak, TypeOK, SeenInv, SpinInv
  <2>3. SurvivalInv'
    BY <1>8 DEF DropBak, TypeOK, SurvivalInv, SpinInv, FdInv, KindInv, SeenInv
  <2> QED
    BY <2>1, <2>2, <2>3
<1>9. ASSUME NEW s \in Session, LinkBak(s)
      PROVE  IInv'
  <2>1. /\ TypeOK' /\ StartedInv' /\ SpinInv' /\ FdInv' /\ KindInv'
       /\ WriteInv'
    BY <1>9 DEF LinkBak, TypeOK, StartedInv, SpinInv, FdInv, KindInv, WriteInv,
       NewVersion
  <2>2. SeenInv'
    BY <1>9 DEF LinkBak, TypeOK, SeenInv, SpinInv, FdInv
  <2>3. NamesInv'
    BY <1>9 DEF LinkBak, TypeOK, NamesInv, SpinInv, FdInv
  <2>4. SurvivalInv'
    BY <1>9 DEF LinkBak, TypeOK, SurvivalInv, SpinInv, FdInv, KindInv, SeenInv
  <2> QED
    BY <2>1, <2>2, <2>3, <2>4
<1>10. ASSUME NEW s \in Session, Work(s)
       PROVE  IInv'
  BY <1>10 DEF Work, TypeOK, StartedInv, SpinInv, FdInv, KindInv, SeenInv,
     WriteInv, NewVersion, NamesInv, SurvivalInv
<1>11. ASSUME NEW s \in Session, EncodeBegin(s)
       PROVE  IInv'
  <2>1. /\ StartedInv' /\ SpinInv' /\ FdInv' /\ KindInv' /\ NamesInv'
    BY <1>11 DEF EncodeBegin, TypeOK, StartedInv, SpinInv, FdInv, KindInv,
       NamesInv
  <2>2. TypeOK'
    BY <1>11 DEF EncodeBegin, TypeOK, SpinInv, FdInv
  <2>3. SeenInv'
    BY <1>11 DEF EncodeBegin, TypeOK, SeenInv, SpinInv, FdInv
  <2>4. WriteInv'
    BY <1>11 DEF EncodeBegin, TypeOK, WriteInv, NewVersion, SpinInv
  <2>5. SurvivalInv'
    BY <1>11 DEF EncodeBegin, TypeOK, SurvivalInv, SpinInv, FdInv, KindInv,
       SeenInv, NamesInv
  <2> QED
    BY <2>1, <2>2, <2>3, <2>4, <2>5
<1>12. ASSUME NEW s \in Session, EncodeEnd(s)
       PROVE  IInv'
  <2>1. /\ StartedInv' /\ SpinInv' /\ FdInv' /\ KindInv'
    BY <1>12 DEF EncodeEnd, TypeOK, StartedInv, SpinInv, FdInv, KindInv
  <2>2. TypeOK'
    BY <1>12 DEF EncodeEnd, TypeOK, SpinInv, FdInv, KindInv, SeenInv, WriteInv,
       NewVersion
  <2>3. SeenInv'
    BY <1>12 DEF EncodeEnd, TypeOK, SeenInv, SpinInv, FdInv
  <2>4. WriteInv'
    BY <1>12 DEF EncodeEnd, TypeOK, WriteInv, NewVersion, SpinInv, FdInv
  <2>5. NamesInv'
    BY <1>12 DEF EncodeEnd, TypeOK, NamesInv, SpinInv, FdInv
  <2>6. SurvivalInv'
    BY <1>12 DEF EncodeEnd, TypeOK, SurvivalInv, SpinInv, FdInv, KindInv,
       SeenInv, NamesInv
  <2> QED
    BY <2>1, <2>2, <2>3, <2>4, <2>5, <2>6
<1>13. ASSUME NEW s \in Session, DropMain(s)
       PROVE  IInv'
  <2>1. /\ TypeOK' /\ StartedInv' /\ SpinInv' /\ KindInv' /\ SeenInv'
       /\ NamesInv'
    BY <1>13 DEF DropMain, TypeOK, StartedInv, SpinInv, KindInv, SeenInv,
       NamesInv
  <2>2. FdInv'
    BY <1>13 DEF DropMain, TypeOK, FdInv, SpinInv
  <2>3. WriteInv'
    BY <1>13 DEF DropMain, TypeOK, WriteInv, NewVersion, SpinInv
  <2>4. SurvivalInv'
    BY <1>13 DEF DropMain, TypeOK, SurvivalInv, SpinInv, FdInv, KindInv,
       SeenInv, WriteInv, NewVersion, NamesInv, StartedInv
  <2> QED
    BY <2>1, <2>2, <2>3, <2>4
<1>14. ASSUME NEW s \in Session, LinkMain(s)
       PROVE  IInv'
  <2>1. /\ TypeOK' /\ StartedInv' /\ SpinInv' /\ KindInv' /\ SeenInv'
       /\ NamesInv'
    BY <1>14 DEF LinkMain, TypeOK, StartedInv, SpinInv, KindInv, SeenInv,
       NamesInv
  <2>2. FdInv'
    BY <1>14 DEF LinkMain, TypeOK, FdInv, SpinInv
  <2>3. WriteInv'
    BY <1>14 DEF LinkMain, TypeOK, WriteInv, NewVersion, SpinInv
  <2>4. SurvivalInv'
    BY <1>14 DEF LinkMain, TypeOK, SurvivalInv, SpinInv, FdInv, WriteInv
  <2> QED
    BY <2>1, <2>2, <2>3, <2>4
<1>15. ASSUME NEW s \in Session, DropTmp(s)
       PROVE  IInv'
  <2>1. /\ StartedInv' /\ SpinInv' /\ KindInv'
    BY <1>15 DEF DropTmp, TypeOK, StartedInv, SpinInv, KindInv
  <2>2. TypeOK'
    BY <1>15 DEF DropTmp, TypeOK, SpinInv, FdInv, KindInv, SeenInv, WriteInv,
       NewVersion
  <2>3. FdInv'
    BY <1>15 DEF DropTmp, TypeOK, FdInv, SpinInv
  <2>4. SeenInv'
    BY <1>15 DEF DropTmp, TypeOK, SeenInv, SpinInv
  <2>5. WriteInv'
    BY <1>15 DEF DropTmp, TypeOK, WriteInv, NewVersion, SpinInv
  <2>6. NamesInv'
    BY <1>15 DEF DropTmp, TypeOK, NamesInv, SpinInv, FdInv, WriteInv
  <2>7. SurvivalInv'
    BY <1>15 DEF DropTmp, TypeOK, SurvivalInv, SpinInv, FdInv, WriteInv
  <2> QED
    BY <2>1, <2>2, <2>3, <2>4, <2>5, <2>6, <2>7
<1>16. ASSUME NEW s \in Session, Release(s), faults' \in 0 .. MaxFaults
       PROVE  IInv'
  BY <1>16 DEF Release, TypeOK, StartedInv, SpinInv, FdInv, KindInv, SeenInv,
     WriteInv, NewVersion, NamesInv, SurvivalInv
<1>17. ASSUME NEW s \in Session, FetchOpen(s)
       PROVE  IInv'
  BY <1>17 DEF FetchOpen, TypeOK, StartedInv, SpinInv, FdInv, KindInv, SeenInv,
     WriteInv, NewVersion, NamesInv, SurvivalInv
<1>18. ASSUME NEW s \in Session, FetchLock(s)
       PROVE  IInv'
  BY <1>18 DEF FetchLock, TypeOK, StartedInv, SpinInv, FdInv, KindInv, SeenInv,
     WriteInv, NewVersion, NamesInv, SurvivalInv
<1>19. ASSUME NEW s \in Session, FetchRead(s)
       PROVE  IInv'
  BY <1>19 DEF FetchRead, TypeOK, StartedInv, SpinInv, FdInv, KindInv, SeenInv,
     WriteInv, NewVersion, NamesInv, SurvivalInv
<1>20. ASSUME NEW s \in Session, OpenFails(s)
       PROVE  IInv'
  BY <1>20 DEF OpenFails, Fault, TypeOK, StartedInv, SpinInv, FdInv, KindInv,
     SeenInv, WriteInv, NewVersion, NamesInv, SurvivalInv
<1>21. ASSUME NEW s \in Session, CallFails(s)
       PROVE  IInv'
  BY <1>21 DEF CallFails, Fault, TypeOK, StartedInv, SpinInv, FdInv, KindInv,
     SeenInv, WriteInv, NewVersion, NamesInv, SurvivalInv
<1>22. ASSUME NEW s \in Session, SessionStep(s)
      PROVE  IInv'
  <2>1. CASE OpenStep(s)
    BY <2>1, <1>2, <1>3, <1>4, <1>5, <1>6 DEF OpenStep
  <2>2. CASE ReadStep(s)
    BY <2>2, <1>7, <1>8, <1>9, <1>10 DEF ReadStep
  <2>3. CASE CommitStep(s)
    BY <2>3, <1>11, <1>12, <1>13, <1>14, <1>15 DEF CommitStep
  <2>4. CASE FetchStep(s)
    BY <2>4, <1>17, <1>18, <1>19 DEF FetchStep
  <2>5. CASE Close(s) \/ FinalizerPanic(s)
    <3>1. Release(s) /\ faults' \in 0 .. MaxFaults
      BY <2>5 DEF Close, FinalizerPanic, TypeOK
    <3> QED
      BY <3>1, <1>16
  <2> QED
    BY <1>22, <2>1, <2>2, <2>3, <2>4, <2>5 DEF SessionStep
<1>23. ASSUME NEW s \in Session, FaultStep(s)
      PROVE  IInv'
  <2>1. CASE Crash(s)
    <3>1. Release(s) /\ faults' \in 0 .. MaxFaults
      BY <2>1 DEF Crash, Fault, TypeOK
    <3> QED
      BY <3>1, <1>16
  <2> QED
    BY <1>23, <2>1, <1>20, <1>21 DEF FaultStep
<1>24. CASE UNCHANGED vars
  BY <1>24 DEF vars, TypeOK, StartedInv, SpinInv, FdInv, KindInv, SeenInv,
     WriteInv, NewVersion, NamesInv, SurvivalInv
<1> QED
  BY <1>1, <1>22, <1>23, <1>24 DEF Next

\* The invariant holds in every reachable state.
THEOREM Invariance == Spec => []IInv
BY InitInv, NextInv, PTL DEF Spec

\* Type correctness (all variables of the protocol).
THEOREM TypeCorrect == Spec => []TypeOK
<1>1. IInv => TypeOK
  OBVIOUS
<1> QED
  BY <1>1, Invariance, PTL

\* The spinlock file excludes sessions from each other whatever calls fail and
\* whichever processes die (LockSpin, Release, OpenFails).
THEOREM MutualExclusion == Spec => []SessionsExclusive
<1>1. IInv => SessionsExclusive
  BY DEF SpinInv, SessionsExclusive
<1> QED
  BY <1>1, Invariance, PTL

\* No acknowledged version of brigade.json is lost: at every instant, between
\* any two system calls of Backup and Commit and after any crash or failure,
\* main or the backup is a complete file that holds it.
THEOREM Recoverable == Spec => []AckedSurvives
<1>1. IInv => AckedSurvives
  BY DEF SurvivalInv, AckedSurvives
<1> QED
  BY <1>1, Invariance, PTL

-----------------------------------------------------------------------------
(* The refinement: sessions that edit or read brigade.json see AtomicDocument. *)

\* A session begins or ends: the abstract session ends, if it had read.
LEMMA ReleaseFinishes ==
    ASSUME NEW s \in Session, TypeOK, Release(s)
    PROVE  [Doc!Next]_(Doc!docVars)
<1>1. CASE seen[s] = 0
  <2>1. seen' = seen /\ acked' = acked
    BY <1>1 DEF TypeOK, Release
  <2> QED
    BY <2>1 DEF Doc!docVars
<1>2. CASE seen[s] # 0
  <2>1. Doc!Finish(s)
    BY <1>2 DEF TypeOK, Release, Doc!Finish
  <2> QED
    BY <2>1 DEF Doc!Next
<1> QED
  BY <1>1, <1>2

\* Decoding reads the acknowledged version, because main is not a second name
\* of the temporary file once both locks are granted.
LEMMA DecodeReads ==
    ASSUME NEW s \in Session, IInv, Decode(s)
    PROVE  [Doc!Next]_(Doc!docVars)
<1>1. CASE UNCHANGED seen
  BY <1>1 DEF Decode, Doc!docVars
<1>2. CASE ~UNCHANGED seen
  <2>1. /\ Complete(content[rfd[s]])
        /\ seen' = [seen EXCEPT ![s] = content[rfd[s]]]
        /\ pc[s] = "decode" /\ acked' = acked
    BY <1>2 DEF Decode
  <2>2. rfd[s] = dir["main"] /\ dir["main"] \notin {NoInode, dir["tmp"]}
    BY <2>1 DEF FdInv
  <2>3. content[rfd[s]] = acked
    BY <2>1, <2>2 DEF NamesInv
  <2>4. seen[s] = 0
    BY <2>1 DEF KindInv
  <2>5. Doc!Read(s)
    BY <2>1, <2>3, <2>4 DEF Doc!Read
  <2> QED
    BY <2>5 DEF Doc!Next
<1> QED
  BY <1>1, <1>2

\* The last step of Commit replaces the version its session read.
LEMMA DropTmpUpdates ==
    ASSUME NEW s \in Session, Kinds \subseteq {"edit", "read"}, IInv, DropTmp(s)
    PROVE  [Doc!Next]_(Doc!docVars)
<1>1. pc[s] = "dropTmp" /\ acked' = content[wfd[s]] /\ UNCHANGED seen
  BY DEF DropTmp
<1>2. kind[s] = "edit"
  BY <1>1 DEF KindInv, StartedInv
<1>3. content[wfd[s]] = seen[s] + 1 /\ seen[s] = acked /\ seen[s] > 0
  BY <1>1, <1>2 DEF WriteInv, SeenInv, NewVersion
<1>4. Doc!Update(s)
  BY <1>1, <1>3 DEF Doc!Update
<1> QED
  BY <1>4 DEF Doc!Next

\* While brigade.json is only edited and read (it exists already), the file
\* protocol implements the atomic document whatever fails: a session reads the
\* last acknowledged version, and a commit replaces the version it has read.
THEOREM Atomicity ==
    ASSUME Kinds \subseteq {"edit", "read"}
    PROVE  Spec => ImplementsAtomicDocument
<1>1. Init => Doc!Init
  BY DEF Init, Doc!Init
<1>2. IInv /\ [Next]_vars => [Doc!Next]_(Doc!docVars)
  <2> SUFFICES ASSUME IInv, [Next]_vars
               PROVE  [Doc!Next]_(Doc!docVars)
    OBVIOUS
  <2>1. ASSUME NEW s \in Session, NEW k \in Kinds, Start(s, k)
        PROVE  [Doc!Next]_(Doc!docVars)
    BY <2>1 DEF Start, Doc!docVars
  <2>2. ASSUME NEW s \in Session, SessionStep(s)
        PROVE  [Doc!Next]_(Doc!docVars)
    <3>1. CASE OpenStep(s) \/ FetchStep(s)
      BY <3>1 DEF OpenStep, FetchStep, LockSpin, OpenTmp, LockTmp, OpenMain,
         LockMain, FetchOpen, FetchLock, FetchRead, Doc!docVars
    <3>2. CASE ReadStep(s)
      BY <3>2, DecodeReads DEF ReadStep, DropBak, LinkBak, Work, Doc!docVars
    <3>3. CASE CommitStep(s)
      BY <3>3, DropTmpUpdates DEF CommitStep, EncodeBegin, EncodeEnd, DropMain,
         LinkMain, Doc!docVars
    <3>4. CASE Close(s) \/ FinalizerPanic(s)
      BY <3>4, ReleaseFinishes DEF Close, FinalizerPanic
    <3> QED
      BY <2>2, <3>1, <3>2, <3>3, <3>4 DEF SessionStep
  <2>3. ASSUME NEW s \in Session, FaultStep(s)
        PROVE  [Doc!Next]_(Doc!docVars)
    BY <2>3, ReleaseFinishes DEF FaultStep, Crash, OpenFails, CallFails, Doc!docVars
  <2>4. CASE UNCHANGED vars
    BY <2>4 DEF vars, Doc!docVars
  <2> QED
    BY <2>1, <2>2, <2>3, <2>4 DEF Next
<1> QED
  BY <1>1, <1>2, Invariance, PTL DEF Spec, ImplementsAtomicDocument, Doc!Spec

-----------------------------------------------------------------------------
(* Readers without the spinlock: fetchstats and stats.json.                *)

\* FetchInv is kept by every step, given IInv, while nobody creates.
LEMMA FetchInvStep ==
    ASSUME "create" \notin Kinds, IInv, FetchInv, [Next]_vars
    PROVE  FetchInv'
<1> USE DEF FetchInv, Fresh, TypeOK
<1>1. ASSUME NEW s \in Session, NEW k \in Kinds, Start(s, k)
      PROVE  FetchInv'
  BY <1>1 DEF Start
<1>2. ASSUME NEW s \in Session, LockSpin(s)
      PROVE  FetchInv'
  BY <1>2 DEF LockSpin
<1>3. ASSUME NEW s \in Session, OpenTmp(s)
      PROVE  FetchInv'
  BY <1>3 DEF OpenTmp, OpenOrCreate, InUse
<1>4. ASSUME NEW s \in Session, LockTmp(s)
      PROVE  FetchInv'
  BY <1>4 DEF LockTmp, FdInv
<1>5. ASSUME NEW s \in Session, OpenMain(s)
      PROVE  FetchInv'
  BY <1>5 DEF OpenMain, OpenOrCreate, InUse, FdInv
<1>6. ASSUME NEW s \in Session, LockMain(s) \/ Decode(s) \/ Work(s)
      PROVE  FetchInv'
  BY <1>6 DEF LockMain, Decode, Work
<1>7. ASSUME NEW s \in Session, DropBak(s) \/ LinkBak(s)
      PROVE  FetchInv'
  BY <1>7 DEF DropBak, LinkBak
<1>8. ASSUME NEW s \in Session, EncodeBegin(s) \/ EncodeEnd(s)
      PROVE  FetchInv'
  <2>1. /\ wfd[s] = dir["tmp"] /\ wfd[s] \in Inode
        /\ wfd[s] # dir["main"]
    BY <1>8 DEF EncodeBegin, EncodeEnd, FdInv
  <2>2. \A i \in Inode \ {wfd[s]} : content'[i] = content[i]
    BY <1>8 DEF EncodeBegin, EncodeEnd
  <2>3. /\ UNCHANGED <<dir, rfd, floor, acked>>
        /\ \A t \in Session : pc'[t] \in {"fetchLock", "fetchRead"} => pc'[t] = pc[t]
    BY <1>8 DEF EncodeBegin, EncodeEnd
  <2> QED
    BY <2>1, <2>2, <2>3
<1>9. ASSUME NEW s \in Session, DropMain(s)
      PROVE  FetchInv'
  <2>1. dir["tmp"] # dir["main"]
    BY <1>9 DEF DropMain, FdInv
  <2> QED
    BY <1>9, <2>1 DEF DropMain
<1>10. ASSUME NEW s \in Session, pc[s] \in Written
       PROVE  content[wfd[s]] = acked + 1
  <2>1. kind[s] \in {"edit", "put"}
    BY <1>10 DEF KindInv, StartedInv
  <2>2. kind[s] = "edit" => seen[s] = acked
    BY <1>10 DEF SeenInv
  <2>3. content[wfd[s]] = NewVersion(s)
    BY <1>10 DEF WriteInv
  <2> QED
    BY <2>1, <2>2, <2>3 DEF NewVersion
<1>11. ASSUME NEW s \in Session, LinkMain(s)
       PROVE  FetchInv'
  BY <1>10, <1>11 DEF LinkMain, FdInv
<1>12. ASSUME NEW s \in Session, DropTmp(s)
       PROVE  FetchInv'
  <2>1. dir["main"] = wfd[s] /\ content[wfd[s]] = acked + 1
    BY <1>10, <1>12 DEF DropTmp, WriteInv, FdInv
  <2> QED
    BY <1>12, <2>1 DEF DropTmp
<1>13. ASSUME NEW s \in Session, Release(s)
       PROVE  FetchInv'
  BY <1>13 DEF Release
<1>14. ASSUME NEW s \in Session, FetchOpen(s) \/ FetchLock(s) \/ FetchRead(s)
       PROVE  FetchInv'
  BY <1>14 DEF FetchOpen, FetchLock, FetchRead
<1>15. ASSUME NEW s \in Session, OpenFails(s) \/ CallFails(s)
       PROVE  FetchInv'
  BY <1>15 DEF OpenFails, CallFails
<1>16. CASE UNCHANGED vars
  BY <1>16 DEF vars
<1>17. ASSUME NEW s \in Session, SessionStep(s)
       PROVE  FetchInv'
  BY <1>17, <1>2, <1>3, <1>4, <1>5, <1>6, <1>7, <1>8, <1>9, <1>11, <1>12, <1>13, <1>14
     DEF SessionStep, OpenStep, ReadStep, CommitStep, FetchStep, Close, FinalizerPanic
<1> QED
  BY <1>1, <1>13, <1>15, <1>16, <1>17 DEF Next, FaultStep, Crash

\* fetchstats reads stats.json without the spinlock, and never a torn document,
\* nor one older than the last that was published when it opened the file;
\* whatever crashes or fails, as long as no session of createbrigade writes a
\* first version over what is there.
THEOREM ReadersAreServed ==
    ASSUME "create" \notin Kinds
    PROVE  Spec => []FetchConsistent
<1>1. Init => FetchInv
  BY DEF Init, FetchInv, Fresh
<1>2. IInv /\ FetchInv /\ [Next]_vars => FetchInv'
  BY FetchInvStep
<1>3. FetchInv => FetchConsistent
  BY DEF FetchInv, Fresh, FetchConsistent
<1> QED
  BY <1>1, <1>2, <1>3, Invariance, PTL DEF Spec

=============================================================================
