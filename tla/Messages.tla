------------------------------- MODULE Messages -------------------------------
(***************************************************************************)
(* The brigadier's message list, kept in the field "messages" of           *)
(* brigade.json (internal/messages/service).  Every request is one session *)
(* of BrigadeStorage (module FileDb: exclusive, all or nothing), which     *)
(* first collects the garbage in the list, then does its own work, then    *)
(* commits.  A request that fails, or whose collection panics, commits     *)
(* nothing: net/http recovers the panic and the deferred Close releases.   *)
(*                                                                         *)
(* A message is its identity, its creation time, its time to live (0 is    *)
(* "no TTL") and whether it was read; title, text and priority only serve  *)
(* the view that GetMessages computes from the list and stores nowhere.    *)
(***************************************************************************)
EXTENDS Integers, SequencesExt

CONSTANTS KeepNoTtl,    \* messages without TTL that are kept   (10 in the code)
          KeepAll,      \* messages that are kept               (100 in the code)
          Month,        \* age at which one without TTL is dropped (30 days)
          Ttls,         \* times to live the DC asks for: 0 for none, and any
                        \* other duration the server can parse, negative ones too
          MaxClock,     \* bound of the exploration: time
          MaxMessages   \* bound of the exploration: messages ever created

ASSUME MessagesAssumption ==
  /\ {KeepNoTtl, KeepAll, Month, MaxMessages} \subseteq Nat \ {0}
  /\ Ttls \subseteq Int
  /\ MaxClock \in Nat

VARIABLES messages,     \* Brigade.Messages, as committed
          created,      \* how many messages were ever created (the last UUID)
          clock         \* time.Now()

vars == <<messages, created, clock>>

Message == [id : 1..MaxMessages, born : 0..MaxClock, ttl : Ttls, read : BOOLEAN]

Init == messages = <<>> /\ created = 0 /\ clock = 0

-----------------------------------------------------------------------------
(* cleanupMessages: four filters, one after the other.                      *)

Ids(ms) == {ms[i].id : i \in DOMAIN ms}

NoTtl(m) == m.ttl = 0
Expired(m) == ~NoTtl(m) /\ m.born + m.ttl <= clock
TooOld(m) == NoTtl(m) /\ m.born <= clock - Month

(* Func.Filter: the messages at the positions of P, in their order.         *)
Kept(ms, P) ==
  LET kept[n \in 0..Len(ms)] ==
        IF n = 0 THEN <<>>
        ELSE IF n \in P THEN Append(kept[n - 1], ms[n]) ELSE kept[n - 1]
  IN kept[Len(ms)]

Unexpired(ms) == Kept(ms, {i \in DOMAIN ms : ~Expired(ms[i])})
NotTooOld(ms) == Kept(ms, {i \in DOMAIN ms : ~TooOld(ms[i])})

NoTtlAt(ms) == {i \in DOMAIN ms : NoTtl(ms[i])}

(* idxs: for every start of a search up to the last message without TTL,   *)
(* how far AFTER that start the next one is.                                *)
Offsets(ms) ==
  [k \in 1..(IF NoTtlAt(ms) = {} THEN 0 ELSE Max(NoTtlAt(ms))) |->
     Min({i \in NoTtlAt(ms) : i >= k}) - k]

(* A plausible bug: one message without TTL too many is kept.               *)
ToRemoveOneLess(ms) ==
  Reverse(SubSeq(Offsets(ms), 1, Len(Offsets(ms)) - KeepNoTtl - 1))

(* toRemove: all but the last KeepNoTtl offsets, the last of them first.    *)
ToRemove(ms) ==
  Reverse(SubSeq(Offsets(ms), 1, Len(Offsets(ms)) - KeepNoTtl))

(* messages[idx+1:] is out of range when idx is past what is left.          *)
TrimPanics(ms) ==
  \E k \in DOMAIN ToRemove(ms) : ToRemove(ms)[k] > Len(ms) - k

(* A plausible bug: the last message is moved into the hole.                *)
TrimNoTtlSwaps(ms) ==
  LET idxs == ToRemove(ms)
      left[k \in 0..Len(idxs)] ==
        IF k = 0 THEN ms
        ELSE Front([left[k - 1] EXCEPT ![idxs[k] + 1] = Last(left[k - 1])])
  IN left[Len(idxs)]

(* Offsets are used as positions, counted from 0.                           *)
TrimNoTtl(ms) ==
  LET idxs == ToRemove(ms)
      left[k \in 0..Len(idxs)] ==
        IF k = 0 THEN ms ELSE RemoveAt(left[k - 1], idxs[k] + 1)
  IN left[Len(idxs)]

LastN(ms) == IF Len(ms) < KeepAll THEN ms ELSE SubSeq(ms, Len(ms) - KeepAll + 1, Len(ms))

CleanupPanics == TrimPanics(Unexpired(messages))

(* A plausible bug: the age of a message without TTL is never looked at.    *)
CleanupAgeless == LastN(TrimNoTtl(Unexpired(messages)))

Cleanup == LastN(NotTooOld(TrimNoTtl(Unexpired(messages))))

-----------------------------------------------------------------------------
(* Service.transaction: the list that fn makes of Cleanup is committed.  A   *)
(* transaction that panics, fails or is refused leaves everything as it was.*)
Transaction(result) == ~CleanupPanics /\ messages' = result

CreateMessage ==
  /\ created < MaxMessages
  /\ \E ttl \in Ttls :
       Transaction(Append(Cleanup,
         [id |-> created + 1, born |-> clock, ttl |-> ttl, read |-> FALSE]))
  /\ created' = created + 1
  /\ UNCHANGED clock

(* Reading the list commits its collection.                                 *)
GetMessages ==
  /\ Transaction(Cleanup)
  /\ UNCHANGED <<created, clock>>

(* A plausible bug: the flag is toggled instead of set.                     *)
MarkAsReadToggles ==
  /\ ~CleanupPanics
  /\ \E id \in 1..created :
       Transaction([i \in DOMAIN Cleanup |->
         [Cleanup[i] EXCEPT !.read = (@ # (Cleanup[i].id = id))]])
  /\ UNCHANGED <<created, clock>>

(* The id must still be there after the collection: ErrNotFound otherwise.  *)
MarkAsRead ==
  /\ ~CleanupPanics
  /\ \E id \in Ids(Cleanup) :
       Transaction([i \in DOMAIN Cleanup |->
         [Cleanup[i] EXCEPT !.read = @ \/ Cleanup[i].id = id]])
  /\ UNCHANGED <<created, clock>>

Tick ==
  /\ clock < MaxClock
  /\ clock' = clock + 1
  /\ UNCHANGED <<messages, created>>

Next == CreateMessage \/ GetMessages \/ MarkAsRead \/ Tick

Spec == Init /\ [][Next]_vars

-----------------------------------------------------------------------------
(* What MESSAGES.md promises of the collection: expired messages and those  *)
(* without TTL older than a month go, the KeepNoTtl most recent messages    *)
(* without TTL stay, and of all that are left the KeepAll most recent.      *)
Promised(ms) ==
  LET recent(m) == Cardinality({i \in NoTtlAt(ms) : ms[i].id > m.id}) < KeepNoTtl
      keep(m) == ~Expired(m) /\ ~TooOld(m) /\ (NoTtl(m) => recent(m))
  IN LastN(Kept(ms, {i \in DOMAIN ms : keep(ms[i])}))

(* The layout the unit tests of the collection use: first the messages      *)
(* without TTL, then the others.                                            *)
Grouped(ms) == \A i \in NoTtlAt(ms) : 1..i \subseteq NoTtlAt(ms)

-----------------------------------------------------------------------------
(* Types, and the list in the order of creation: the trimming by position   *)
(* and lastN both read "the most recent" off the position in the list.      *)
TypeOK ==
  /\ messages \in Seq(Message)
  /\ \A i, j \in DOMAIN messages :
       i < j => messages[i].id < messages[j].id /\ messages[i].born <= messages[j].born
  /\ created \in 0..MaxMessages /\ clock \in 0..MaxClock

(* What is known of every list: nothing in it is newer than the last        *)
(* message, and only that one can be without TTL behind the first KeepNoTtl *)
(* messages.  For when it is, and there are more, the trimming by position  *)
(* cuts the whole list down to KeepNoTtl, or panics.                        *)
ListInv ==
  /\ \A i \in DOMAIN messages : messages[i].id <= created /\ messages[i].born <= clock
  /\ \A i \in NoTtlAt(messages) : i <= KeepNoTtl \/ i = Len(messages)

IInv == TypeOK /\ ListInv

(* MESSAGES.md: the garbage collection follows its rules.  The code does    *)
(* not: it uses offsets as positions, so that with a message with TTL       *)
(* before some without it drops others, or runs off the end of the list.    *)
CollectedAsPromised == ~CleanupPanics /\ Cleanup = Promised(messages)

(* On the layouts the tests try, cleanupMessages does what MESSAGES.md      *)
(* promises, at every time and for every mix of ages: the four filters,     *)
(* applied one after the other, do not undo each other's work.              *)
GroupedAsPromised ==
  Grouped(Unexpired(messages)) => CollectedAsPromised

(* The new message of a request, when the DC gave it a negative TTL: it is  *)
(* put on the list as it is, and the next request collects it.              *)
BornExpired(m) == m.id > created /\ m.ttl < 0

(* Whatever the layout, a committed list holds no message that is too old   *)
(* or has expired, but for a new one born expired, and no more than the     *)
(* limits allow (the new one extra).                                        *)
LimitsHold ==
  [][messages' # messages =>
       /\ \A i \in DOMAIN messages' :
            /\ ~TooOld(messages'[i])
            /\ Expired(messages'[i]) => BornExpired(messages'[i])
       /\ Len(messages') <= KeepAll + 1
       /\ Cardinality(NoTtlAt(messages')) <= KeepNoTtl + 1]_vars

(* A message once read is never shown as unread, and none comes back after  *)
(* it was collected: no request writes back a list it read earlier.         *)
NothingComesBack ==
  [][/\ \A id \in Ids(messages') : id \in Ids(messages) \/ id > created
     /\ \A i \in DOMAIN messages, j \in DOMAIN messages' :
          messages[i].id = messages'[j].id /\ messages[i].read => messages'[j].read]_vars

=============================================================================
