------------------------------- MODULE FileDb -------------------------------
(***************************************************************************)
(* kdlib.FileDb: a JSON document kept in a directory as three names, the   *)
(* main file, name.tmp (being written) and name.bak (the last version read *)
(* with success), guarded by flock(2) on a separate spinlock file.  Every  *)
(* change of the brigade (brigade.json) and of the published statistics    *)
(* (stats.json) is one session of this protocol.                           *)
(*                                                                         *)
(* Names refer to inodes, because flock and O_TRUNC act on the inode: the  *)
(* interesting states are those in which two names share one.  A document  *)
(* is its version number; Empty is a file of no bytes and Partial one in   *)
(* the middle of a write.                                                  *)
(***************************************************************************)
EXTENDS Integers, FiniteSets

CONSTANTS
    Session,      \* the goroutines and processes that open the document
    NoSession,
    Inode,        \* the inodes of the directory
    NoInode,
    Kinds,        \* the kinds of session that may start
    MaxVersion,   \* bound: no edit and no put begins beyond this version
    MaxFaults     \* bound: crashes and failed system calls

AllKinds == {"create", "edit", "read", "put", "fetch"}

ASSUME SentinelAssumption == NoSession \notin Session /\ NoInode \notin Inode
ASSUME KindsAssumption    == Kinds \subseteq AllKinds
ASSUME BoundAssumption    == MaxVersion \in Nat \ {0} /\ MaxFaults \in Nat

Names == {"main", "tmp", "bak"}

Empty   == 0
Partial == -1
Complete(c) == c > 0

VARIABLES
    dir,      \* dir[n]: the inode a name refers to
    content,  \* content[i]: what the inode holds
    spin,     \* the session that holds the flock on the spinlock file
    pc,       \* the next step of each session
    kind,     \* the kind of each session, "none" while idle
    rfd,      \* rfd[s]: the inode open for reading (FileDb.r)
    wfd,      \* wfd[s]: the inode open for writing (FileDb.w)
    seen,     \* seen[s]: the version decoded, 0 when none was
    acked,    \* history: the last version whose Commit returned nil
    floor,    \* history: floor[s], the value of acked when a fetch opened main
    faults    \* how many faults have happened

fsVars   == <<dir, content>>
fdVars   == <<rfd, wfd>>
histVars == <<acked, floor, faults>>
vars == <<dir, content, spin, pc, kind, rfd, wfd, seen, acked, floor, faults>>

(* Steps during which a session has the spinlock.                          *)
OpenSteps   == {"openTmp", "lockTmp", "openMain", "lockMain"}
BackupSteps == {"dropBak", "linkBak"}
CommitSteps == {"dropMain", "linkMain", "dropTmp"}
LockedSteps == OpenSteps \cup {"decode"} \cup BackupSteps \cup
               {"work", "encode", "encoding"} \cup CommitSteps \cup {"leaked"}
FetchSteps  == {"fetchOpen", "fetchLock", "fetchRead"}
Steps == {"idle", "lockSpin", "close"} \cup LockedSteps \cup FetchSteps

Goto(s, step) == pc' = [pc EXCEPT ![s] = step]

InUse(i) == \/ \E n \in Names : dir[n] = i
            \/ \E s \in Session : rfd[s] = i \/ wfd[s] = i

(* flock: a descriptor holds its lock from the step after it was opened.   *)
HoldsEX(s, i) == wfd[s] = i /\ pc[s] # "lockTmp"
HoldsSH(s, i) == rfd[s] = i /\ pc[s] \notin {"lockMain", "fetchLock"}

-----------------------------------------------------------------------------

\* No brigade yet, or one that createbrigade has written and closed.
Init ==
    /\ \/ /\ dir = [n \in Names |-> NoInode]
          /\ content = [i \in Inode |-> Empty]
          /\ acked = 0
       \/ \E i \in Inode :
             /\ dir = [n \in Names |-> IF n = "main" THEN i ELSE NoInode]
             /\ content = [j \in Inode |-> IF j = i THEN 1 ELSE Empty]
             /\ acked = 1
    /\ spin = NoSession
    /\ pc = [s \in Session |-> "idle"]
    /\ kind = [s \in Session |-> "none"]
    /\ rfd = [s \in Session |-> NoInode]
    /\ wfd = [s \in Session |-> NoInode]
    /\ seen = [s \in Session |-> 0]
    /\ floor = [s \in Session |-> 0]
    /\ faults = 0

\* A caller asks for a session: openWithoutReading, openBrigadeWithReading
\* (to edit, or only to read), openStats, or fetchstats' readStatsFile.
Start(s, k) ==
    /\ pc[s] = "idle"
    /\ k = "put" => acked < MaxVersion     \* bound only
    /\ kind' = [kind EXCEPT ![s] = k]
    /\ Goto(s, IF k = "fetch" THEN "fetchOpen" ELSE "lockSpin")
    /\ UNCHANGED <<fsVars, spin, fdVars, seen, histVars>>

\* Mutant: a lock per process, that two goroutines get at once.
LockSpinShared(s) ==
    /\ pc[s] = "lockSpin"
    /\ spin' = s
    /\ Goto(s, "openTmp")
    /\ UNCHANGED <<fsVars, kind, fdVars, seen, histVars>>

\* lockedfile.MutexAt(spinlock).Lock(): a new descriptor, so the lock excludes
\* goroutines of one process as well as processes.
LockSpin(s) ==
    /\ pc[s] = "lockSpin"
    /\ spin = NoSession
    /\ spin' = s
    /\ Goto(s, "openTmp")
    /\ UNCHANGED <<fsVars, kind, fdVars, seen, histVars>>

\* open(2) with O_CREATE of a name: the inode it refers to, or a new empty one.
OpenOrCreate(n, i) ==
    \/ /\ dir[n] # NoInode
       /\ i = dir[n]
       /\ UNCHANGED fsVars
    \/ /\ dir[n] = NoInode
       /\ ~InUse(i)
       /\ dir' = [dir EXCEPT ![n] = i]
       /\ content' = [content EXCEPT ![i] = Empty]

OpenTmp(s) ==
    /\ pc[s] = "openTmp"
    /\ \E i \in Inode :
          /\ OpenOrCreate("tmp", i)
          /\ wfd' = [wfd EXCEPT ![s] = i]
    /\ Goto(s, "lockTmp")
    /\ UNCHANGED <<spin, kind, rfd, seen, histVars>>

\* openFile: LOCK_EX first, Truncate(0) once it is granted.
LockTmp(s) ==
    /\ pc[s] = "lockTmp"
    /\ \A t \in Session : ~HoldsEX(t, wfd[s]) /\ ~HoldsSH(t, wfd[s])
    /\ content' = [content EXCEPT ![wfd[s]] = Empty]
    /\ Goto(s, "openMain")
    /\ UNCHANGED <<dir, spin, kind, fdVars, seen, histVars>>

OpenMain(s) ==
    /\ pc[s] = "openMain"
    /\ \E i \in Inode :
          /\ OpenOrCreate("main", i)
          /\ rfd' = [rfd EXCEPT ![s] = i]
    /\ Goto(s, "lockMain")
    /\ UNCHANGED <<spin, kind, wfd, seen, histVars>>

\* LOCK_SH, refused while any descriptor, this session's own FileDb.w too,
\* holds the inode exclusively.  openStats does not decode.
LockMain(s) ==
    /\ pc[s] = "lockMain"
    /\ \A t \in Session : ~HoldsEX(t, rfd[s])
    /\ Goto(s, IF kind[s] = "put" THEN "encode" ELSE "decode")
    /\ UNCHANGED <<fsVars, spin, kind, fdVars, seen, histVars>>

\* Mutant: a document that is not complete is waited for, with the lock held.
DecodeRetries(s) ==
    LET c == content[rfd[s]] IN
    /\ pc[s] = "decode"
    /\ \/ /\ kind[s] = "create"
          /\ Goto(s, IF c = Empty THEN "encode" ELSE "close")
          /\ UNCHANGED seen
       \/ /\ kind[s] \in {"edit", "read"}
          /\ Complete(c)
          /\ seen' = [seen EXCEPT ![s] = c]
          /\ Goto(s, "dropBak")
       \/ /\ kind[s] \in {"edit", "read"}
          /\ ~Complete(c)
          /\ UNCHANGED <<pc, seen>>
    /\ UNCHANGED <<fsVars, spin, kind, fdVars, histVars>>

\* openBrigadeWithReading decodes a whole document or gives up;
\* openBrigadeWithoutReading wants io.EOF and nothing else.
Decode(s) ==
    LET c == content[rfd[s]] IN
    /\ pc[s] = "decode"
    /\ \/ /\ kind[s] = "create"
          /\ Goto(s, IF c = Empty THEN "encode" ELSE "close")
          /\ UNCHANGED seen
       \/ /\ kind[s] \in {"edit", "read"}
          /\ Complete(c)
          /\ seen' = [seen EXCEPT ![s] = c]
          /\ Goto(s, "dropBak")
       \/ /\ kind[s] \in {"edit", "read"}
          /\ ~Complete(c)
          /\ Goto(s, "close")
          /\ UNCHANGED seen
    /\ UNCHANGED <<fsVars, spin, kind, fdVars, histVars>>

\* Backup, first half: Stat and Remove of the old backup.
DropBak(s) ==
    /\ pc[s] = "dropBak"
    /\ dir' = [dir EXCEPT !["bak"] = NoInode]
    /\ Goto(s, "linkBak")
    /\ UNCHANGED <<content, spin, kind, fdVars, seen, histVars>>

\* Mutant: the backup is dropped and never linked again.
LinkBakSkipped(s) ==
    /\ pc[s] = "linkBak"
    /\ Goto(s, "work")
    /\ UNCHANGED <<fsVars, spin, kind, fdVars, seen, histVars>>

\* Backup, second half: Link(main, bak).
LinkBak(s) ==
    /\ pc[s] = "linkBak"
    /\ dir' = [dir EXCEPT !["bak"] = dir["main"]]
    /\ Goto(s, "work")
    /\ UNCHANGED <<content, spin, kind, fdVars, seen, histVars>>

\* The caller's own work on the decoded document: it commits a change, or it
\* only looked at it or returns an error, and the deferred Close runs.
Work(s) ==
    /\ pc[s] = "work"
    /\ \/ kind[s] = "edit" /\ seen[s] < MaxVersion /\ Goto(s, "encode")
       \/ Goto(s, "close")
    /\ UNCHANGED <<fsVars, spin, kind, fdVars, seen, histVars>>

\* Mutant: the error of Encode is ignored and the torn file committed.
EncodeTorn(s) ==
    /\ pc[s] = "encode"
    /\ content' = [content EXCEPT ![wfd[s]] = Partial]
    /\ Goto(s, "dropMain")
    /\ UNCHANGED <<dir, spin, kind, fdVars, seen, histVars>>

\* Encoder.Encode writes to FileDb.w: a write in progress, then all of it.
EncodeBegin(s) ==
    /\ pc[s] = "encode"
    /\ content' = [content EXCEPT ![wfd[s]] = Partial]
    /\ Goto(s, "encoding")
    /\ UNCHANGED <<dir, spin, kind, fdVars, seen, histVars>>

\* The version a session writes: the first, the next after the one it has read,
\* or (stats.json is not read) the next after the last one published.
NewVersion(s) == IF kind[s] = "create" THEN 1
                 ELSE IF kind[s] = "edit" THEN seen[s] + 1 ELSE acked + 1

EncodeEnd(s) ==
    /\ pc[s] = "encoding"
    /\ content' = [content EXCEPT ![wfd[s]] = NewVersion(s)]
    /\ Goto(s, "dropMain")
    /\ UNCHANGED <<dir, spin, kind, fdVars, seen, histVars>>

\* Commit: Sync, then Remove(main) ...
DropMain(s) ==
    /\ pc[s] = "dropMain"
    /\ dir' = [dir EXCEPT !["main"] = NoInode]
    /\ Goto(s, "linkMain")
    /\ UNCHANGED <<content, spin, kind, fdVars, seen, histVars>>

\* ... then Link(tmp, main) ...
LinkMain(s) ==
    /\ pc[s] = "linkMain"
    /\ dir' = [dir EXCEPT !["main"] = dir["tmp"]]
    /\ Goto(s, "dropTmp")
    /\ UNCHANGED <<content, spin, kind, fdVars, seen, histVars>>

\* ... then Remove(tmp), after which Commit returns nil.
DropTmp(s) ==
    /\ pc[s] = "dropTmp"
    /\ dir' = [dir EXCEPT !["tmp"] = NoInode]
    /\ acked' = content[wfd[s]]
    /\ Goto(s, "close")
    /\ UNCHANGED <<content, spin, kind, fdVars, seen, floor, faults>>

\* Everything a session holds is let go of.
Release(s) ==
    /\ spin' = IF spin = s THEN NoSession ELSE spin
    /\ Goto(s, "idle")
    /\ kind' = [kind EXCEPT ![s] = "none"]
    /\ rfd' = [rfd EXCEPT ![s] = NoInode]
    /\ wfd' = [wfd EXCEPT ![s] = NoInode]
    /\ seen' = [seen EXCEPT ![s] = 0]
    /\ floor' = [floor EXCEPT ![s] = 0]
    /\ UNCHANGED <<fsVars, acked>>

\* FileDb.Close: r, w, spinlock.
Close(s) ==
    /\ pc[s] = "close"
    /\ Release(s)
    /\ UNCHANGED faults

-----------------------------------------------------------------------------
(* fetchstats reads stats.json without the spinlock.                       *)

FetchOpen(s) ==
    /\ pc[s] = "fetchOpen"
    /\ \/ /\ dir["main"] = NoInode     \* ENOENT: the brigade is skipped
          /\ Goto(s, "close")
          /\ UNCHANGED <<rfd, floor>>
       \/ /\ dir["main"] # NoInode
          /\ rfd' = [rfd EXCEPT ![s] = dir["main"]]
          /\ floor' = [floor EXCEPT ![s] = acked]
          /\ Goto(s, "fetchLock")
    /\ UNCHANGED <<fsVars, spin, kind, wfd, seen, acked, faults>>

FetchLock(s) ==
    /\ pc[s] = "fetchLock"
    /\ \A t \in Session : ~HoldsEX(t, rfd[s])
    /\ Goto(s, "fetchRead")
    /\ UNCHANGED <<fsVars, spin, kind, fdVars, seen, histVars>>

FetchRead(s) ==
    /\ pc[s] = "fetchRead"
    /\ Goto(s, "close")
    /\ UNCHANGED <<fsVars, spin, kind, fdVars, seen, histVars>>

-----------------------------------------------------------------------------
(* Faults.                                                                 *)

Fault == faults < MaxFaults /\ faults' = faults + 1

\* The process dies: the kernel closes its descriptors and drops its locks.
Crash(s) ==
    /\ pc[s] # "idle"
    /\ Fault
    /\ Release(s)

\* A system call of OpenFileDb fails: it returns without unlocking, and what it
\* has opened stays open and locked.  The descriptor whose lock failed is closed.
OpenFails(s) ==
    /\ pc[s] \in OpenSteps
    /\ Fault
    /\ Goto(s, "leaked")
    /\ rfd' = [rfd EXCEPT ![s] = NoInode]
    /\ wfd' = [wfd EXCEPT ![s] = IF pc[s] = "lockTmp" THEN NoInode ELSE @]
    /\ UNCHANGED <<fsVars, spin, kind, seen, acked, floor>>

\* The garbage collector finds the leaked lockedfile.File: its finalizer panics.
FinalizerPanic(s) ==
    /\ pc[s] = "leaked"
    /\ Release(s)
    /\ UNCHANGED faults

\* A system call fails after the open: the error is returned through the
\* deferred Close.  A failed write leaves what it had written.
CallFails(s) ==
    /\ pc[s] \in {"decode", "encoding"} \cup BackupSteps \cup CommitSteps \cup
                 FetchSteps
    /\ Fault
    /\ Goto(s, "close")
    /\ UNCHANGED <<fsVars, spin, kind, fdVars, seen, acked, floor>>

-----------------------------------------------------------------------------

OpenStep(s) == LockSpin(s) \/ OpenTmp(s) \/ LockTmp(s) \/ OpenMain(s) \/ LockMain(s)
ReadStep(s) == Decode(s) \/ DropBak(s) \/ LinkBak(s) \/ Work(s)
CommitStep(s) == \/ EncodeBegin(s) \/ EncodeEnd(s)
                 \/ DropMain(s) \/ LinkMain(s) \/ DropTmp(s)
FetchStep(s) == FetchOpen(s) \/ FetchLock(s) \/ FetchRead(s)

\* What a session that has started does of its own accord.
SessionStep(s) == \/ OpenStep(s) \/ ReadStep(s) \/ CommitStep(s) \/ Close(s)
                  \/ FetchStep(s) \/ FinalizerPanic(s)

FaultStep(s) == Crash(s) \/ OpenFails(s) \/ CallFails(s)

Next == \E s \in Session :
           \/ \E k \in Kinds : Start(s, k)
           \/ SessionStep(s)
           \/ FaultStep(s)

Spec == Init /\ [][Next]_vars

\* A running goroutine or process keeps running; flock grants a free lock to
\* some waiter, to which one is not promised.
FairSpec == Spec /\ \A s \in Session : WF_vars(SessionStep(s))

-----------------------------------------------------------------------------
(* Properties.                                                             *)

\* Every variable keeps its type.
TypeOK ==
    /\ dir \in [Names -> Inode \cup {NoInode}]
    /\ content \in [Inode -> Int]
    /\ spin \in Session \cup {NoSession}
    /\ pc \in [Session -> Steps]
    /\ kind \in [Session -> AllKinds \cup {"none"}]
    /\ rfd \in [Session -> Inode \cup {NoInode}]
    /\ wfd \in [Session -> Inode \cup {NoInode}]
    /\ seen \in [Session -> Nat]
    /\ acked \in Nat
    /\ floor \in [Session -> Nat]
    /\ faults \in 0 .. MaxFaults

\* Two sessions are never between Lock and Close of the spinlock at once,
\* whichever calls failed and whichever processes died before.
SessionsExclusive ==
    \A s, t \in Session :
        pc[s] \in LockedSteps /\ pc[t] \in LockedSteps => s = t

Holds(n, v) == dir[n] # NoInode /\ content[dir[n]] = v

\* The document database backs up what it reads before it replaces it: the
\* kinds of session brigade.json is opened with.
BackedUp == Kinds \subseteq {"create", "edit", "read"}

\* Whatever crashes, and whichever call fails, the last acknowledged version is
\* still a complete file, main or backup: an operator can restore it by hand.
AckedSurvives ==
    BackedUp /\ acked > 0 => Holds("main", acked) \/ Holds("bak", acked)

\* A fetch that has its lock reads a file nobody is writing: a document no older
\* than the last one acknowledged when it opened the file, or an empty file.
FetchConsistent ==
    \A s \in Session :
        pc[s] = "fetchRead" => \/ content[rfd[s]] = Empty
                               \/ content[rfd[s]] > 0 /\ content[rfd[s]] >= floor[s]

\* A session's view of the document as the abstract specification counts it.
Doc == INSTANCE AtomicDocument WITH doc <- acked, view <- seen

\* Sessions on brigade.json read the last acknowledged version and replace
\* exactly the version they read: no update is lost, none is seen early.
ImplementsAtomicDocument == Doc!Spec

\* While no call fails and nothing dies, a spinlock that was taken is let go.
SpinReleased == \A s \in Session : spin = s ~> spin # s

-----------------------------------------------------------------------------
(* The inductive invariant behind SessionsExclusive, AckedSurvives and the *)
(* refinement.  Fd, Spin and Kind steps relate a session's step to what it *)
(* holds; the rest relates the names, the inodes and acked.                *)

AfterOpen == BackupSteps \cup {"decode", "work", "encode", "encoding", "dropMain"}
WriteFd   == AfterOpen \cup {"lockTmp", "openMain", "lockMain", "linkMain", "dropTmp"}
ReadFd    == AfterOpen \cup {"lockMain", "linkMain", "dropTmp"}
Decoded   == BackupSteps \cup {"work"}
Written   == {"dropMain", "linkMain", "dropTmp"}
Reading(s) == kind[s] \in {"edit", "read"}

\* The spinlock is held by the one session that has anything of the FileDb open.
SpinInv ==
    \A s \in Session :
        /\ pc[s] \in LockedSteps => spin = s
        /\ wfd[s] # NoInode => spin = s

\* Which descriptors are open at which step.
FdInv ==
    \A s \in Session :
        /\ pc[s] \in WriteFd => wfd[s] = dir["tmp"] /\ wfd[s] \in Inode
        /\ pc[s] \in {"idle", "lockSpin", "openTmp"} \cup FetchSteps => wfd[s] = NoInode
        /\ pc[s] \in ReadFd => rfd[s] \in Inode
        /\ pc[s] \in AfterOpen \cup {"lockMain"} => rfd[s] = dir["main"]
        /\ pc[s] \in AfterOpen => rfd[s] # wfd[s]

\* Which kinds of session reach which step, and what they have seen there.
KindInv ==
    \A s \in Session :
        /\ pc[s] \in OpenSteps \cup {"lockSpin"} => kind[s] \in AllKinds \ {"fetch"}
        /\ pc[s] = "decode" => kind[s] \in {"create", "edit", "read"}
        /\ pc[s] \in Decoded => Reading(s)
        /\ pc[s] \in Written \cup {"encode", "encoding"} => kind[s] \in {"create", "edit", "put"}
        /\ pc[s] \in OpenSteps \cup FetchSteps \cup {"idle", "lockSpin", "decode"} => seen[s] = 0

\* What a session that will replace main knows of it.
SeenInv ==
    \A s \in Session :
        /\ /\ pc[s] \in AfterOpen \ {"decode"}
           /\ Reading(s)
           => content[rfd[s]] = seen[s]
        /\ /\ pc[s] \in {"work", "encode", "encoding", "dropMain"}
           /\ Reading(s)
           => dir["bak"] = rfd[s]
        /\ /\ pc[s] \in Decoded \cup Written \cup {"encode", "encoding"}
           /\ Reading(s)
           => seen[s] = acked /\ seen[s] > 0
        /\ /\ pc[s] \in {"encode", "encoding", "dropMain"}
           /\ kind[s] = "create"
           => content[rfd[s]] = Empty

\* What is in the temporary file once it is complete.
WriteInv ==
    \A s \in Session :
        /\ pc[s] \in Written => content[wfd[s]] = NewVersion(s)
        /\ pc[s] = "linkMain" => dir["main"] = NoInode
        /\ pc[s] = "dropTmp" => dir["main"] = dir["tmp"]

\* Main is the acknowledged version, is not complete, or is still a second name
\* of the temporary file; the backup never is.
NamesInv ==
    /\ dir["bak"] # NoInode => dir["bak"] # dir["tmp"]
    /\ /\ dir["main"] \notin {NoInode, dir["tmp"]}
       /\ content[dir["main"]] > 0
       => content[dir["main"]] = acked

SafeMain == dir["main"] \notin {NoInode, dir["tmp"]} /\ content[dir["main"]] = acked
SafeBak  == Holds("bak", acked)

SurvivalInv == BackedUp /\ acked > 0 => SafeMain \/ SafeBak

\* The kinds of the running sessions are among those that may start.
StartedInv == \A s \in Session : kind[s] \in Kinds \cup {"none"}

\* All of it holds in every reachable state; each part is used by the others.
IInv == /\ TypeOK /\ StartedInv /\ SpinInv /\ FdInv /\ KindInv
        /\ SeenInv /\ WriteInv /\ NamesInv /\ SurvivalInv

\* What a reader without the spinlock may find: main is empty or no older than
\* the acknowledged version, and a file that a fetch has open is not written
\* again, because it is the temporary one only while it is main too.
Fresh(i, v) == content[i] = Empty \/ (content[i] > 0 /\ content[i] >= v)

FetchInv ==
    /\ dir["main"] # NoInode => Fresh(dir["main"], acked)
    /\ \A s \in Session :
          pc[s] \in {"fetchLock", "fetchRead"} =>
              /\ rfd[s] \in Inode
              /\ Fresh(rfd[s], floor[s])
              /\ rfd[s] = dir["tmp"] => rfd[s] = dir["main"]

=============================================================================
