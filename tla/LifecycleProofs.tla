--------------------------- MODULE LifecycleProofs ---------------------------
(***************************************************************************)
(* TLAPS proofs about Lifecycle, for any brigades, scripts, addresses and  *)
(* budgets: what the scripts leave on the machine when they fail, are      *)
(* killed, or run over the remains of others.                              *)
(*                                                                         *)
(* While no two scripts have been past the lock at once, a script that is  *)
(* at work is the only one (Alone), so that what it has seen to in one     *)
(* step still holds in the next.  Knows says what that is, step by step;   *)
(* with it each property of the machine is kept by every step.             *)
(***************************************************************************)
EXTENDS Lifecycle, TLAPS

(* A file that is not a whole document says nothing.                       *)
Blank == {Absent, Empty}

(* Calls are as the callers make them, and at the steps of their script.   *)
RealJob == [kind : AllJobs, b : Brigades, addr : Addresses \cup {"none"}, n : Key,
            todo : SUBSET Brigades]

JobInv ==
    \A s \in Scripts :
        /\ pc[s] # "idle" => job[s] \in RealJob
        /\ pc[s] # "idle" /\ job[s].kind \in Addressed => job[s].addr \in Addresses
        /\ pc[s] = "double" => job[s].kind \in CreateKinds \cup {"repair"}
        /\ pc[s] \in {"user", "make", "man", "start", "sign"} => job[s].kind \in CreateKinds

FileInv == \A b \in Brigades : Whole(b) \/ file[b] \in Blank

(* A script that goes on to destroy a brigade whose file says VIP was      *)
(* misled when it read the file, or the brigade was promoted since.        *)
MisledInv ==
    /\ misled \in [Scripts -> SUBSET Mistakes]
    /\ \A t \in Scripts :
          pc[t] \in {"delete", "userdel"} /\ file[job[t].b].vip => misled[t] # {}

(* One script at work.                                                     *)
Alone == \A s, t \in Scripts : Busy(s) /\ Busy(t) => s = t

(* Every interface is that of a file, or of one that was lost.             *)
Accounted(b) == ifaces[b] \subseteq forgotten[b] \cup (IF Whole(b) THEN {file[b].key} ELSE {})

(* No brigade but b has the address a, or one that the text a is found in, *)
(* unless disabling it failed.                                             *)
OnlyAt(b, a) ==
    \A d \in Brigades \ {b} : Whole(d) /\ <<a, file[d].addr>> \in Matches => "spared" \in scars[d]

(* What a script knows of its brigade at each step.                        *)
Knows(s) ==
    LET b == job[s].b IN
    /\ pc[s] = "double" /\ job[s].kind \in CreateKinds => ~created[b]
    /\ pc[s] \in {"user", "make", "man", "start", "sign"} =>
            ~created[b] /\ OnlyAt(b, job[s].addr)
    /\ pc[s] \in {"man", "start", "sign"} => home[b]
    /\ pc[s] \in {"user", "make"} =>
            (Whole(b) /\ <<job[s].addr, file[b].addr>> \in Matches => "spared" \in scars[b])
    /\ pc[s] \in {"man", "start", "sign"} =>
            Whole(b) /\ file[b].key \in ifaces[b] /\ file[b].addr = job[s].addr
    /\ pc[s] \in {"start", "sign"} => file[b].manned \/ "unmanned" \in scars[b]
    /\ pc[s] = "sign" =>
            "started" \in unit[b] /\ ("enabled" \in unit[b] \/ "unenabled" \in scars[b])
    /\ pc[s] \in {"remove", "delete", "userdel"} =>
            "ending" \in scars[b] /\ (unit[b] # {} => "running" \in scars[b])
    /\ pc[s] = "userdel" => ifaces[b] \subseteq forgotten[b]
    /\ pc[s] \in {"stop", "remove", "delete", "userdel"} /\ job[s].kind = "destroy" => ~marker[b]
    /\ pc[s] = "switch" /\ job[s].kind = "vipOn" => marker[b]
    /\ pc[s] \in {"next", "replay"} =>
            \A d \in Brigades \ {b} :
                Live(d) /\ <<job[s].addr, file[d].addr>> \in Matches =>
                    d \in job[s].todo \/ "spared" \in scars[d]

(* The properties of the machine, for one brigade or two.                  *)
WholeIfCreated(b) ==
    created[b] =>
        /\ home[b]
        /\ (Whole(b) /\ file[b].key \in ifaces[b]) \/ scars[b] \cap {"moved", "ending"} # {}
        /\ file[b].manned \/ scars[b] \cap {"moved", "unmanned"} # {}
        /\ "started" \in unit[b] \/ scars[b] \cap {"moved", "spared", "ending"} # {}
        /\ "enabled" \in unit[b] \/ scars[b] \cap {"moved", "spared", "ending", "unenabled"} # {}

Apart(b, c) ==
    b # c /\ Live(b) /\ Live(c) /\ file[b].addr = file[c].addr =>
        "spared" \in scars[b] \cup scars[c]

MarkedIfVip(b) == file[b].vip => marker[b] \/ "bornVip" \in scars[b]

NothingWithoutHome(b) ==
    ~home[b] =>
        /\ file[b] = Absent /\ ~created[b] /\ ~marker[b]
        /\ unit[b] # {} => "running" \in scars[b]

Sound(b) == WholeIfCreated(b) /\ MarkedIfVip(b) /\ NothingWithoutHome(b) /\ Accounted(b)

Orderly ==
    /\ Alone
    /\ \A s \in Scripts : Knows(s)
    /\ \A b \in Brigades : Sound(b)
    /\ \A b, c \in Brigades : Apart(b, c)

IInv == TypeOK /\ JobInv /\ FileInv /\ MisledInv /\ LockAttended /\ (~overlapped => Orderly)

-----------------------------------------------------------------------------
(* Steps, sorted by what they do.                                          *)

CheckStep(s) ==
    \/ CreateChecks(s) \/ DestroyChecks(s) \/ ReplaceChecks(s) \/ RepairChecks(s)
    \/ RepairLists(s) \/ RepairEnds(s)

(* Tools that refuse or fail: they may leave an empty file.                *)
FailingStep(s) ==
    \/ MakeFails(s) \/ ManFails(s) \/ UnvipFails(s) \/ RemoveFails(s) \/ DeleteFails(s)
    \/ ReplaceFails(s) \/ SwitchFails(s) \/ RepairFails(s)

WorkingStep(s) ==
    \/ CreateDisables(s) \/ CreateUser(s) \/ MakeBrigade(s) \/ ManBrigade(s)
    \/ StartUnit(s) \/ SignCreated(s)
    \/ Unvip(s) \/ StopUnit(s) \/ RemoveBrigade(s) \/ DeleteInterface(s) \/ DeleteUser(s)
    \/ ReplaceBrigadier(s) \/ VipChecks(s) \/ SwitchVip(s)
    \/ RepairDisables(s) \/ RepairReplays(s)

AnyStep(s) == CheckStep(s) \/ FailingStep(s) \/ WorkingStep(s)

LEMMA NextCases ==
    ASSUME [Next]_vars
    PROVE  \/ \E s \in Scripts : Call(s) \/ TouchLock(s) \/ Kill(s) \/ AnyStep(s)
           \/ \E b \in Brigades : KeydeskOpens(b)
           \/ MaintenanceBegins \/ MaintenanceEnds
           \/ UNCHANGED vars
  BY DEF Next, ScriptStep, CreateStep, DestroyStep, OtherStep, CheckStep, FailingStep,
     WorkingStep, AnyStep

(* A script at work goes on to another step of its work, or exits.         *)
Onward == Steps \ {"idle", "touch"}

Moves(s) ==
    /\ Busy(s)
    /\ Exit(s) \/ \E p \in Onward : \/ Goto(s, p)
                                    \/ \E todo \in SUBSET Brigades : Todo(s, todo, p)
    /\ Fault \/ NoFault
    /\ UNCHANGED <<maintenance, overlapped, killed>>

LEMMA Disabling ==
    ASSUME NEW doubles, DisableSome(doubles)
    PROVE  /\ Fault \/ NoFault
           /\ UNCHANGED <<home, created, marker, overlapped, killed, misled>>
  BY DEF DisableSome, Disable

LEMMA AnyStepMoves ==
    ASSUME JobInv, NEW s \in Scripts, AnyStep(s) PROVE Moves(s)
  <1> USE DEF Moves, Busy, At, Onward, Steps, history
  <1>1. CASE CreateChecks(s)
    BY <1>1 DEF CreateChecks
  <1>2. CASE DestroyChecks(s)
    BY <1>2 DEF DestroyChecks
  <1>3. CASE ReplaceChecks(s)
    BY <1>3 DEF ReplaceChecks
  <1>4. CASE RepairChecks(s)
    BY <1>4 DEF RepairChecks
  <1>5. CASE CreateDisables(s)
    BY <1>5, Disabling DEF CreateDisables
  <1>6. CASE CreateUser(s)
    BY <1>6 DEF CreateUser
  <1>7. CASE MakeBrigade(s)
    BY <1>7 DEF MakeBrigade
  <1>8. CASE ManBrigade(s)
    BY <1>8 DEF ManBrigade
  <1>9. CASE StartUnit(s)
    BY <1>9 DEF StartUnit
  <1>10. CASE SignCreated(s)
    BY <1>10 DEF SignCreated
  <1>11. CASE Unvip(s)
    BY <1>11 DEF Unvip
  <1>12. CASE StopUnit(s)
    BY <1>12 DEF StopUnit
  <1>13. CASE RemoveBrigade(s)
    BY <1>13 DEF RemoveBrigade
  <1>14. CASE DeleteUser(s)
    BY <1>14 DEF DeleteUser
  <1>15. CASE ReplaceBrigadier(s)
    BY <1>15 DEF ReplaceBrigadier
  <1>16. CASE VipChecks(s)
    BY <1>16 DEF VipChecks
  <1>17. CASE SwitchVip(s)
    BY <1>17 DEF SwitchVip
  <1>18. CASE RepairDisables(s)
    <2>1. PICK d \in job[s].todo : DisableSome({d}) /\ Todo(s, job[s].todo \ {d}, "replay")
      BY <1>18 DEF RepairDisables
    <2>2. job[s].todo \in SUBSET Brigades
      BY <1>18 DEF RepairDisables, JobInv, RealJob
    <2>3. \E todo \in SUBSET Brigades : Todo(s, todo, "replay")
      BY <2>1, <2>2
    <2> QED
      BY <1>18, <2>1, <2>3, Disabling DEF RepairDisables
  <1>19. CASE RepairReplays(s)
    BY <1>19 DEF RepairReplays
  <1>20. CASE FailingStep(s)
    BY <1>20 DEF FailingStep, MakeFails, ManFails, UnvipFails, RemoveFails, DeleteFails,
       ReplaceFails, SwitchFails, RepairFails, ToolFails
  <1>21. CASE DeleteInterface(s)
    BY <1>21 DEF DeleteInterface
  <1>22. CASE RepairLists(s)
    <2>1. \E todo \in SUBSET Brigades : Todo(s, todo, "next")
      BY <1>22 DEF RepairLists, Doubles
    <2> QED
      BY <1>22, <2>1 DEF RepairLists
  <1>23. CASE RepairEnds(s)
    BY <1>23 DEF RepairEnds
  <1> QED
    BY <1>1, <1>2, <1>3, <1>4, <1>5, <1>6, <1>7, <1>8, <1>9, <1>10, <1>11,
       <1>12, <1>13, <1>14, <1>15, <1>16, <1>17, <1>18, <1>19, <1>20, <1>21, <1>22, <1>23 DEF
       AnyStep, CheckStep, WorkingStep

(* A repair that lists the doubles, or takes one off its list, is the only *)
(* one to write what it was called with.                                   *)
LEMMA StepGoes ==
    ASSUME NEW s \in Scripts, AnyStep(s), ~RepairLists(s), ~RepairDisables(s), ~Exit(s)
    PROVE  \E p \in Onward : Goto(s, p)
  <1>1. ~FailingStep(s)
    BY DEF FailingStep, MakeFails, ManFails, UnvipFails, RemoveFails, DeleteFails,
       ReplaceFails, SwitchFails, RepairFails, ToolFails
  <1>2. CASE CheckStep(s)
    BY <1>2 DEF CheckStep, CreateChecks, DestroyChecks, ReplaceChecks, RepairChecks,
       RepairEnds, Onward, Steps
  <1>3. CASE WorkingStep(s)
    BY <1>3 DEF WorkingStep, CreateDisables, CreateUser, MakeBrigade, ManBrigade,
       StartUnit, SignCreated, Unvip, StopUnit, RemoveBrigade, DeleteInterface, DeleteUser,
       ReplaceBrigadier, VipChecks, SwitchVip, RepairReplays, Onward, Steps
  <1> QED
    BY <1>1, <1>2, <1>3 DEF AnyStep

(* What a tool that fails does to the file.                                *)
LEMMA FailingStepOpens ==
    ASSUME NEW s \in Scripts, FailingStep(s)
    PROVE  /\ file' = [file EXCEPT ![job[s].b] = Opened(job[s].b)]
           /\ Exit(s)
           /\ UNCHANGED <<home, created, marker, unit, ifaces, maintenance, history>>
  BY DEF FailingStep, MakeFails, ManFails, UnvipFails, RemoveFails, DeleteFails,
     ReplaceFails, SwitchFails, RepairFails, ToolFails

LEMMA CheckStepQuiet ==
    ASSUME NEW s \in Scripts, CheckStep(s)
    PROVE  UNCHANGED <<machine, history>>
  BY DEF CheckStep, CreateChecks, DestroyChecks, ReplaceChecks, RepairChecks, RepairLists,
     RepairEnds

-----------------------------------------------------------------------------
(* Documents, and how tools write them.                                    *)

LEMMA ZeroKey == 0 \in Key
  BY BoundsAssumption DEF Key

LEMMA Blanks ==
    /\ Absent \in Document /\ Empty \in Document
    /\ ~Absent.vip /\ ~Empty.vip /\ ~Absent.manned /\ ~Empty.manned
    /\ Absent.state = "none" /\ Empty.state = "empty"
  BY ZeroKey DEF Document, Absent, Empty

Files == file \in [Brigades -> Document]

LEMMA VipWritten ==
    ASSUME Files, NEW b \in Brigades, NEW on \in BOOLEAN, file' = [file EXCEPT ![b].vip = on]
    PROVE  /\ Files'
           /\ \A d \in Brigades \ {b} : file'[d] = file[d]
           /\ file'[b].vip = on
           /\ file'[b].state = file[b].state /\ file'[b].addr = file[b].addr
           /\ file'[b].manned = file[b].manned /\ file'[b].key = file[b].key
  BY DEF Files, Document

LEMMA BrigadierWritten ==
    ASSUME Files, NEW b \in Brigades, file' = [file EXCEPT ![b].manned = TRUE]
    PROVE  /\ Files'
           /\ \A d \in Brigades \ {b} : file'[d] = file[d]
           /\ file'[b].manned
           /\ file'[b].state = file[b].state /\ file'[b].addr = file[b].addr
           /\ file'[b].vip = file[b].vip /\ file'[b].key = file[b].key
  BY DEF Files, Document

LEMMA FileOpened ==
    ASSUME Files, NEW b \in Brigades, file' = [file EXCEPT ![b] = Opened(b)]
    PROVE  /\ Files'
           /\ \A d \in Brigades \ {b} : file'[d] = file[d]
           /\ \/ file'[b] = file[b]
              \/ file[b].state = "none" /\ home[b] /\ file'[b] = Empty
  BY Blanks DEF Files, Opened

LEMMA DocumentMade ==
    ASSUME NEW s \in Scripts, job[s] \in RealJob
    PROVE  /\ NewDocument(s) \in Document
           /\ NewDocument(s).state = "whole" /\ NewDocument(s).addr = job[s].addr
           /\ NewDocument(s).vip = (job[s].kind = "createVip")
           /\ NewDocument(s).key = job[s].n
  BY DEF RealJob, NewDocument, Document, Is

LEMMA Scars ==
    /\ {} \subseteq Scar /\ {"moved"} \subseteq Scar /\ {"spared"} \subseteq Scar
    /\ {"unmanned"} \subseteq Scar /\ {"bornVip"} \subseteq Scar
    /\ {"ending"} \subseteq Scar /\ {"ending", "running"} \subseteq Scar
    /\ {"unenabled"} \subseteq Scar
  BY DEF Scar

LEMMA Worker ==
    ASSUME JobInv, NEW s \in Scripts, Busy(s)
    PROVE  job[s] \in RealJob /\ job[s].b \in Brigades /\ job[s].n \in Key
  BY DEF JobInv, Busy, RealJob

-----------------------------------------------------------------------------
(* Types, of the scripts and of the machine.                               *)

ScriptTypes ==
    /\ lock \in BOOLEAN /\ maintenance \in BOOLEAN
    /\ pc \in [Scripts -> Steps]
    /\ job \in [Scripts -> Job]
    /\ started \in 0 .. MaxJobs /\ faults \in 0 .. MaxFaults /\ outages \in 0 .. MaxOutages
    /\ overlapped \in BOOLEAN /\ killed \in BOOLEAN

MachineTypes ==
    /\ home \in [Brigades -> BOOLEAN]
    /\ created \in [Brigades -> BOOLEAN]
    /\ marker \in [Brigades -> BOOLEAN]
    /\ unit \in [Brigades -> SUBSET Flags]
    /\ Files
    /\ ifaces \in [Brigades -> SUBSET Key]
    /\ scars \in [Brigades -> SUBSET Scar]
    /\ forgotten \in [Brigades -> SUBSET Key]

LEMMA TypeParts ==
    TypeOK <=> ScriptTypes /\ MachineTypes /\ misled \in [Scripts -> SUBSET Mistakes]
  BY DEF TypeOK, ScriptTypes, MachineTypes, Files

LEMMA InitIInv == Init => IInv
  <1> SUFFICES ASSUME Init PROVE IInv
    OBVIOUS
  <1> USE DEF Init
  <1>1. ScriptTypes
    <2>1. pc \in [Scripts -> Steps]
      BY DEF Steps
    <2>2. job \in [Scripts -> Job]
      BY DEF Job
    <2>3. started \in 0 .. MaxJobs /\ faults \in 0 .. MaxFaults /\ outages \in 0 .. MaxOutages
      BY BoundsAssumption
    <2> QED
      BY <2>1, <2>2, <2>3 DEF ScriptTypes
  <1>2. MachineTypes
    BY Blanks DEF MachineTypes, Files
  <1>3. JobInv /\ FileInv /\ MisledInv /\ LockAttended
    BY DEF JobInv, FileInv, MisledInv, LockAttended, Blank
  <1>4. Orderly
    BY Blanks DEF Orderly, Alone, Knows, Sound, WholeIfCreated, Apart, MarkedIfVip,
       NothingWithoutHome, Accounted, Busy, Live, Whole
  <1> QED
    BY <1>1, <1>2, <1>3, <1>4, TypeParts DEF IInv

LEMMA ScriptTypesStep == ScriptTypes /\ JobInv /\ [Next]_vars => ScriptTypes'
  <1> SUFFICES ASSUME ScriptTypes, JobInv, [Next]_vars PROVE ScriptTypes'
    OBVIOUS
  <1> USE BoundsAssumption DEF ScriptTypes, budgets, history, Fault, NoFault
  <1>1. ASSUME NEW s \in Scripts, Call(s) PROVE ScriptTypes'
    <2>1. pc' \in [Scripts -> Steps]
      BY <1>1 DEF Call, Steps
    <2>2. job' \in [Scripts -> Job]
      <3>1. PICK k \in Jobs, b \in Brigades :
              \E a \in IF k \in Addressed THEN Addresses ELSE {"none"} :
                job' = [job EXCEPT ![s] = [kind |-> k, b |-> b, addr |-> a, n |-> started + 1,
                                           todo |-> {}]]
        BY <1>1 DEF Call
      <3>2. PICK a \in Addresses \cup {"none"} :
              job' = [job EXCEPT ![s] = [kind |-> k, b |-> b, addr |-> a, n |-> started + 1,
                                         todo |-> {}]]
        BY <3>1
      <3>3. [kind |-> k, b |-> b, addr |-> a, n |-> started + 1, todo |-> {}] \in Job
        BY <1>1 DEF Call, Job, Key
      <3> QED
        BY <3>2, <3>3
    <2> QED
      BY <1>1, <2>1, <2>2 DEF Call
  <1>2. ASSUME NEW s \in Scripts, TouchLock(s) PROVE ScriptTypes'
    BY <1>2 DEF TouchLock, Steps
  <1>3. ASSUME NEW s \in Scripts, Kill(s) PROVE ScriptTypes'
    BY <1>3 DEF Kill, Gone, Steps, Job
  <1>4. ASSUME NEW s \in Scripts, AnyStep(s) PROVE ScriptTypes'
    <2>1. Moves(s)
      BY <1>4, AnyStepMoves
    <2>2. pc' \in [Scripts -> Steps]
      BY <2>1 DEF Moves, Exit, Gone, Goto, Todo, Onward, Steps
    <2>3. job' \in [Scripts -> Job] /\ lock' \in BOOLEAN
      <3>1. job[s] \in RealJob
        BY <2>1, Worker DEF Moves
      <3>2. \A todo \in SUBSET Brigades : [job[s] EXCEPT !.todo = todo] \in Job
        BY <3>1 DEF RealJob, Job
      <3>3. CASE \E todo \in SUBSET Brigades, p \in Onward : Todo(s, todo, p)
        BY <3>2, <3>3 DEF Todo
      <3> QED
        BY <2>1, <3>3 DEF Moves, Exit, Gone, Goto, Job
    <2> QED
      BY <2>1, <2>2, <2>3 DEF Moves
  <1>5. ASSUME NEW b \in Brigades, KeydeskOpens(b) PROVE ScriptTypes'
    BY <1>5 DEF KeydeskOpens
  <1>6. CASE MaintenanceBegins
    BY <1>6 DEF MaintenanceBegins
  <1>7. CASE MaintenanceEnds
    BY <1>7 DEF MaintenanceEnds
  <1>8. CASE UNCHANGED vars
    BY <1>8 DEF vars
  <1> QED
    BY NextCases, <1>1, <1>2, <1>3, <1>4, <1>5, <1>6, <1>7, <1>8

LEMMA DisablingTypes ==
    ASSUME MachineTypes, NEW doubles \in SUBSET Brigades, DisableSome(doubles), UNCHANGED ifaces
    PROVE  MachineTypes'
  <1> PICK away \in SUBSET doubles, left \in [doubles -> SUBSET Flags] :
        Disable(doubles, left, away)
    BY DEF DisableSome
  <1> USE DEF Disable, MachineTypes, Files
  <1>1. file' \in [Brigades -> Document]
    BY Blanks
  <1>2. unit' \in [Brigades -> SUBSET Flags]
    OBVIOUS
  <1>3. scars' \in [Brigades -> SUBSET Scar]
    BY Scars
  <1>4. forgotten' \in [Brigades -> SUBSET Key]
    BY DEF Document
  <1> QED
    BY <1>1, <1>2, <1>3, <1>4

LEMMA MachineTypesStep == MachineTypes /\ JobInv /\ [Next]_vars => MachineTypes'
  <1> SUFFICES ASSUME MachineTypes, JobInv, [Next]_vars PROVE MachineTypes'
    OBVIOUS
  <1> USE DEF machine, history
  <1>1. ASSUME NEW s \in Scripts, AnyStep(s) PROVE MachineTypes'
    <2> DEFINE b == job[s].b
    <2> b \in Brigades /\ job[s].n \in Key /\ job[s] \in RealJob
      BY <1>1, AnyStepMoves, Worker DEF Moves
    <2>1. CASE CheckStep(s)
      BY <2>1, CheckStepQuiet DEF MachineTypes, Files
    <2>2. CASE FailingStep(s)
      <3>1. Files'
        BY <2>2, FailingStepOpens, FileOpened DEF MachineTypes
      <3> QED
        BY <2>2, <3>1, FailingStepOpens DEF MachineTypes
    <2>3. CASE CreateDisables(s)
      BY <2>3, DisablingTypes DEF CreateDisables, Doubles
    <2>4. CASE RepairDisables(s)
      <3>1. job[s].todo \subseteq Brigades
        BY DEF RealJob
      <3> QED
        BY <2>4, <3>1, DisablingTypes DEF RepairDisables
    <2>5. CASE MakeBrigade(s)
      <3>1. Files'
        BY <2>5, DocumentMade, FileOpened DEF MakeBrigade, MachineTypes, Files
      <3>2. scars' \in [Brigades -> SUBSET Scar]
        BY <2>5, Scars DEF MakeBrigade, MachineTypes
      <3>3. ifaces' \in [Brigades -> SUBSET Key] /\ forgotten' \in [Brigades -> SUBSET Key]
        BY <2>5 DEF MakeBrigade, MachineTypes
      <3>4. UNCHANGED <<home, created, marker, unit>>
        BY <2>5 DEF MakeBrigade
      <3> QED
        BY <3>1, <3>2, <3>3, <3>4 DEF MachineTypes
    <2>6. CASE ManBrigade(s)
      <3>1. Files'
        BY <2>6, BrigadierWritten DEF ManBrigade, MachineTypes, Files
      <3>2. scars' \in [Brigades -> SUBSET Scar]
        BY <2>6, Scars DEF ManBrigade, Scarred, MachineTypes
      <3> QED
        BY <2>6, <3>1, <3>2 DEF ManBrigade, MachineTypes
    <2>7. CASE Unvip(s)
      <3>1. Files'
        BY <2>7, VipWritten DEF Unvip, MachineTypes
      <3> QED
        BY <2>7, <3>1 DEF Unvip, MachineTypes
    <2>8. CASE SwitchVip(s)
      <3>1. Is(s, {"vipOn"}) \in BOOLEAN
        BY DEF Is
      <3>2. file' = [file EXCEPT ![b].vip = Is(s, {"vipOn"})]
        BY <2>8 DEF SwitchVip
      <3>3. Files'
        BY <3>1, <3>2, VipWritten DEF MachineTypes
      <3> QED
        BY <2>8, <3>1, <3>3 DEF SwitchVip, MachineTypes
    <2>9. CASE ReplaceBrigadier(s)
      <3>1. Files'
        BY <2>9, BrigadierWritten DEF ReplaceBrigadier, MachineTypes, Files
      <3> QED
        BY <2>9, <3>1 DEF ReplaceBrigadier, MachineTypes
    <2>10. CASE StopUnit(s)
      <3>1. scars' \in [Brigades -> SUBSET Scar]
        BY <2>10, Scars DEF StopUnit, Scarred, MachineTypes
      <3>2. unit' \in [Brigades -> SUBSET Flags]
        BY <2>10 DEF StopUnit, MachineTypes
      <3>3. UNCHANGED <<home, created, marker, file, ifaces, forgotten>>
        BY <2>10 DEF StopUnit
      <3> QED
        BY <3>1, <3>2, <3>3 DEF MachineTypes, Files
    <2>11. CASE DeleteUser(s)
      <3>1. file' \in [Brigades -> Document]
        BY <2>11, Blanks DEF DeleteUser, MachineTypes, Files
      <3>2. scars' \in [Brigades -> SUBSET Scar]
        BY <2>11 DEF DeleteUser, MachineTypes
      <3>3. /\ home' \in [Brigades -> BOOLEAN]
            /\ created' \in [Brigades -> BOOLEAN]
            /\ marker' \in [Brigades -> BOOLEAN]
        BY <2>11 DEF DeleteUser, MachineTypes
      <3>4. UNCHANGED <<unit, ifaces, forgotten>>
        BY <2>11 DEF DeleteUser
      <3> QED
        BY <3>1, <3>2, <3>3, <3>4 DEF MachineTypes, Files
    <2>12. CASE RepairReplays(s)
      <3>1. file[b].key \in Key
        BY DEF MachineTypes, Files, Document
      <3> QED
        BY <2>12, <3>1 DEF RepairReplays, MachineTypes, Files
    <2>13. CASE RemoveBrigade(s) \/ DeleteInterface(s)
      BY <2>13 DEF RemoveBrigade, DeleteInterface, MachineTypes, Files
    <2>14. CASE VipChecks(s)
      BY <2>14 DEF VipChecks, MachineTypes, Files, Is
    <2>15. CASE CreateUser(s) \/ SignCreated(s)
      BY <2>15 DEF CreateUser, SignCreated, MachineTypes, Files
    <2>16. CASE StartUnit(s)
      BY <2>16, Scars DEF StartUnit, Scarred, MachineTypes, Files
    <2> QED
      BY <1>1, <2>1, <2>2, <2>3, <2>4, <2>5, <2>6, <2>7, <2>8, <2>9, <2>10,
         <2>11, <2>12, <2>13, <2>14, <2>15, <2>16
         DEF AnyStep, WorkingStep
  <1>2. ASSUME NEW b \in Brigades, KeydeskOpens(b) PROVE MachineTypes'
    BY <1>2, Blanks DEF KeydeskOpens, MachineTypes, Files
  <1>3. ASSUME NEW s \in Scripts, Call(s) \/ TouchLock(s) \/ Kill(s) PROVE MachineTypes'
    BY <1>3 DEF Call, TouchLock, Kill, MachineTypes, Files
  <1>4. CASE MaintenanceBegins \/ MaintenanceEnds
    BY <1>4 DEF MaintenanceBegins, MaintenanceEnds, MachineTypes, Files
  <1>5. CASE UNCHANGED vars
    BY <1>5 DEF vars, MachineTypes, Files
  <1> QED
    BY NextCases, <1>1, <1>2, <1>3, <1>4, <1>5

-----------------------------------------------------------------------------
(* What does not depend on the lock.                                       *)

LEMMA JobInvStep == JobInv /\ ScriptTypes /\ [Next]_vars => JobInv'
  <1> SUFFICES ASSUME JobInv, ScriptTypes, [Next]_vars PROVE JobInv'
    OBVIOUS
  <1> USE DEF JobInv
  <1>1. ASSUME NEW s \in Scripts, Call(s) PROVE JobInv'
    <2>1. PICK k \in Jobs, b \in Brigades :
            \E a \in IF k \in Addressed THEN Addresses ELSE {"none"} :
              job' = [job EXCEPT ![s] = [kind |-> k, b |-> b, addr |-> a, n |-> started + 1,
                                         todo |-> {}]]
      BY <1>1 DEF Call
    <2>2. PICK a \in Addresses \cup {"none"} :
            /\ k \in Addressed => a \in Addresses
            /\ job' = [job EXCEPT ![s] = [kind |-> k, b |-> b, addr |-> a, n |-> started + 1,
                                          todo |-> {}]]
      BY <2>1
    <2>3. /\ job'[s] \in RealJob
          /\ job'[s].kind \in Addressed => job'[s].addr \in Addresses
      BY <1>1, <2>2, BoundsAssumption DEF Call, RealJob, Key, ScriptTypes
    <2>4. \A t \in Scripts \ {s} : job'[t] = job[t] /\ pc'[t] = pc[t]
      BY <1>1, <2>2 DEF Call, ScriptTypes
    <2>5. pc'[s] = "touch"
      BY <1>1 DEF Call, ScriptTypes
    <2> QED
      BY <2>3, <2>4, <2>5
  <1>2. ASSUME NEW s \in Scripts, TouchLock(s) PROVE JobInv'
    BY <1>2 DEF TouchLock, At, ScriptTypes
  <1>3. ASSUME NEW s \in Scripts, Kill(s) PROVE JobInv'
    BY <1>3 DEF Kill, Gone, ScriptTypes
  <1>4. ASSUME NEW s \in Scripts, AnyStep(s) PROVE JobInv'
    <2>1. CASE Exit(s)
      BY <2>1 DEF Exit, Gone, ScriptTypes
    <2>3. CASE RepairLists(s) \/ RepairDisables(s)
      <3>1. PICK todo \in SUBSET Brigades, p \in {"next", "replay"} : Todo(s, todo, p)
        <4>1. CASE RepairLists(s)
          BY <4>1 DEF RepairLists, Doubles
        <4>2. CASE RepairDisables(s)
          <5>1. job[s].todo \in SUBSET Brigades
            BY <4>2 DEF RepairDisables, At, RealJob
          <5> QED
            BY <4>2, <5>1 DEF RepairDisables
        <4> QED
          BY <2>3, <4>1, <4>2
      <3>2. job[s] \in RealJob
        BY <1>4, AnyStepMoves, Worker DEF Moves
      <3>3. /\ [job[s] EXCEPT !.todo = todo] \in RealJob
            /\ [job[s] EXCEPT !.todo = todo].kind = job[s].kind
            /\ [job[s] EXCEPT !.todo = todo].addr = job[s].addr
        BY <3>2 DEF RealJob
      <3>4. /\ pc' = [pc EXCEPT ![s] = p]
            /\ job' = [job EXCEPT ![s] = [job[s] EXCEPT !.todo = todo]]
        BY <3>1 DEF Todo
      <3>5. pc[s] # "idle"
        BY <2>3 DEF RepairLists, RepairDisables, At
      <3> QED
        BY <3>3, <3>4, <3>5 DEF ScriptTypes
    <2>2. CASE ~Exit(s) /\ ~RepairLists(s) /\ ~RepairDisables(s)
      <3>1. PICK p \in Onward : Goto(s, p)
        BY <1>4, <2>2, StepGoes
      <3>2. /\ job' = job
            /\ pc' = [pc EXCEPT ![s] = p]
            /\ pc[s] \notin {"idle", "touch"}
        BY <1>4, <3>1, AnyStepMoves DEF Goto, Moves, Busy
      <3>3. /\ pc'[s] = "double" => job[s].kind \in CreateKinds \cup {"repair"}
            /\ pc'[s] \in {"user", "make", "man", "start", "sign"} => job[s].kind \in CreateKinds
        <4>1. CASE CheckStep(s)
          BY <2>2, <4>1 DEF CheckStep, CreateChecks, DestroyChecks, ReplaceChecks,
             RepairChecks, RepairEnds, Goto, At, Is, CreateKinds, ScriptTypes
        <4>2. CASE FailingStep(s)
          BY <2>2, <4>2, FailingStepOpens
        <4>3. CASE \/ CreateDisables(s) \/ CreateUser(s) \/ MakeBrigade(s) \/ ManBrigade(s)
                   \/ StartUnit(s)
          BY <2>2, <4>3 DEF CreateDisables, CreateUser, MakeBrigade, ManBrigade,
             StartUnit, Goto, At, Is, ScriptTypes
        <4>4. CASE \/ Unvip(s) \/ StopUnit(s) \/ RemoveBrigade(s) \/ DeleteInterface(s)
                   \/ VipChecks(s) \/ RepairReplays(s)
          BY <2>2, <4>4 DEF Unvip, StopUnit, RemoveBrigade, DeleteInterface, VipChecks,
             RepairReplays, Goto, ScriptTypes
        <4>5. CASE SignCreated(s) \/ DeleteUser(s) \/ ReplaceBrigadier(s) \/ SwitchVip(s)
          BY <2>2, <4>5 DEF SignCreated, DeleteUser, ReplaceBrigadier, SwitchVip
        <4> QED
          BY <1>4, <2>2, <4>1, <4>2, <4>3, <4>4, <4>5 DEF AnyStep, WorkingStep
      <3> QED
        BY <3>2, <3>3 DEF ScriptTypes
    <2> QED
      BY <2>1, <2>2, <2>3
  <1>5. ASSUME NEW b \in Brigades, KeydeskOpens(b) PROVE JobInv'
    BY <1>5 DEF KeydeskOpens
  <1>6. CASE MaintenanceBegins \/ MaintenanceEnds \/ UNCHANGED vars
    BY <1>6 DEF MaintenanceBegins, MaintenanceEnds, vars
  <1> QED
    BY NextCases, <1>1, <1>2, <1>3, <1>4, <1>5, <1>6

LEMMA AttendedStep == LockAttended /\ ScriptTypes /\ JobInv /\ [Next]_vars => LockAttended'
  <1> SUFFICES ASSUME LockAttended, ScriptTypes, JobInv, [Next]_vars PROVE LockAttended'
    OBVIOUS
  <1> USE DEF LockAttended, ScriptTypes, Busy
  <1>1. ASSUME NEW s \in Scripts, Call(s) PROVE LockAttended'
    BY <1>1 DEF Call
  <1>2. ASSUME NEW s \in Scripts, TouchLock(s) PROVE LockAttended'
    BY <1>2 DEF TouchLock
  <1>3. ASSUME NEW s \in Scripts, Kill(s) PROVE LockAttended'
    BY <1>3 DEF Kill
  <1>4. ASSUME NEW s \in Scripts, AnyStep(s) PROVE LockAttended'
    BY <1>4, AnyStepMoves DEF Moves, Exit, Goto, Todo, Onward
  <1>5. ASSUME NEW b \in Brigades, KeydeskOpens(b) PROVE LockAttended'
    BY <1>5 DEF KeydeskOpens, history
  <1>6. CASE MaintenanceBegins \/ MaintenanceEnds \/ UNCHANGED vars
    BY <1>6 DEF MaintenanceBegins, MaintenanceEnds, vars, history
  <1> QED
    BY NextCases, <1>1, <1>2, <1>3, <1>4, <1>5, <1>6

-----------------------------------------------------------------------------
(* One script at work: what its steps do to the machine.                   *)

Same(d) ==
    /\ home'[d] = home[d] /\ created'[d] = created[d] /\ marker'[d] = marker[d]
    /\ unit'[d] = unit[d] /\ file'[d] = file[d] /\ ifaces'[d] = ifaces[d]
    /\ scars'[d] = scars[d] /\ forgotten'[d] = forgotten[d]

(* Nothing comes to life at d, and an excuse it has stays.                 *)
Tame(d) ==
    Live(d)' =>
        /\ Live(d)
        /\ file'[d].addr = file[d].addr
        /\ "spared" \in scars[d] => "spared" \in scars'[d]

Coherent == ScriptTypes /\ MachineTypes /\ JobInv /\ FileInv /\ Orderly

LEMMA SameSound ==
    ASSUME NEW d, Same(d), Sound(d) PROVE Sound(d)'
  BY DEF Same, Sound, WholeIfCreated, MarkedIfVip, NothingWithoutHome, Accounted, Whole

LEMMA SameTame == ASSUME NEW d, Same(d) PROVE Tame(d)
  BY DEF Same, Tame, Live, Whole

LEMMA AloneStep ==
    ASSUME Coherent, NEW s \in Scripts, Moves(s)
    PROVE  Alone' /\ \A t \in Scripts \ {s} : Knows(t)'
  <1>1. \A t \in Scripts \ {s} : pc'[t] = pc[t] /\ ~Busy(t)
    BY DEF Coherent, Orderly, Alone, Moves, Exit, Gone, Goto, Todo, ScriptTypes
  <1>2. \A t \in Scripts \ {s} : pc'[t] \in {"idle", "touch"}
    BY <1>1 DEF Busy
  <1> QED
    BY <1>2 DEF Alone, Busy, Knows

(* Whatever a step does to the script's own brigade, the other brigades    *)
(* are as they were.                                                       *)
LEMMA OthersSame ==
    ASSUME Coherent, NEW s \in Scripts, AnyStep(s), ~CreateDisables(s), ~RepairDisables(s)
    PROVE  \A d \in Brigades \ {job[s].b} : Same(d)
  <1> TAKE d \in Brigades \ {job[s].b}
  <1> job[s].b \in Brigades /\ job[s] \in RealJob
    BY AnyStepMoves, Worker DEF Moves, Coherent
  <1> USE DEF Same, machine, history, Coherent, MachineTypes, Files
  <1>1. CASE CheckStep(s)
    BY <1>1, CheckStepQuiet
  <1>2. CASE FailingStep(s)
    BY <1>2, FailingStepOpens
  <1>3. CASE CreateUser(s) \/ StartUnit(s) \/ SignCreated(s)
    BY <1>3 DEF CreateUser, StartUnit, SignCreated, Scarred
  <1>4. CASE MakeBrigade(s)
    BY <1>4 DEF MakeBrigade
  <1>5. CASE ManBrigade(s) \/ ReplaceBrigadier(s)
    BY <1>5 DEF ManBrigade, ReplaceBrigadier, Scarred
  <1>6. CASE Unvip(s)
    BY <1>6 DEF Unvip
  <1>7. CASE StopUnit(s) \/ RemoveBrigade(s) \/ DeleteInterface(s)
    BY <1>7 DEF StopUnit, RemoveBrigade, DeleteInterface, Scarred
  <1>8. CASE DeleteUser(s)
    BY <1>8 DEF DeleteUser
  <1>9. CASE VipChecks(s) \/ SwitchVip(s)
    BY <1>9 DEF VipChecks, SwitchVip
  <1>10. CASE RepairReplays(s)
    BY <1>10 DEF RepairReplays
  <1> QED
    BY <1>1, <1>2, <1>3, <1>4, <1>5, <1>6, <1>7, <1>8, <1>9, <1>10 DEF AnyStep,
       WorkingStep

(* So that only the script's own brigade has to be looked at: either       *)
(* nothing comes to life there, or nobody else is at its address.          *)
LEMMA OneBrigade ==
    ASSUME Coherent, NEW s \in Scripts, Moves(s), NEW b \in Brigades,
           \A d \in Brigades \ {b} : Same(d),
           Knows(s)', Sound(b)',
           \/ Tame(b)
           \/ \E a \in Addresses : file'[b].addr = a /\ OnlyAt(b, a)'
    PROVE  Orderly'
  <1>1. ASSUME NEW d \in Brigades PROVE Sound(d)'
    <2>1. CASE d = b
      BY <2>1
    <2>2. CASE d # b
      BY <2>2, SameSound DEF Coherent, Orderly
    <2> QED
      BY <2>1, <2>2
  <1>2. \A d \in Brigades \ {b} : Tame(d)
    BY SameTame
  <1>3. ASSUME NEW c \in Brigades, NEW d \in Brigades PROVE Apart(c, d)'
    <2>1. CASE Tame(c) /\ Tame(d)
      BY <2>1 DEF Coherent, Orderly, Apart, Tame
    <2>2. CASE ~Tame(c) \/ ~Tame(d)
      <3>1. PICK a \in Addresses : file'[b].addr = a /\ OnlyAt(b, a)'
        BY <1>2, <2>2
      <3>2. <<a, a>> \in Matches
        BY MatchesAssumption
      <3>3. c = b \/ d = b
        BY <1>2, <2>2
      <3> QED
        BY <3>1, <3>2, <3>3 DEF OnlyAt, Apart, Live
    <2> QED
      BY <2>1, <2>2
  <1> QED
    BY <1>1, <1>3, AloneStep DEF Orderly

LEMMA ExitKnows == ASSUME ScriptTypes, NEW s \in Scripts, Exit(s) PROVE Knows(s)'
  BY DEF ScriptTypes, Exit, Gone, Knows

LEMMA StepOrderly ==
    ASSUME Coherent, NEW s \in Scripts, AnyStep(s), ~CreateDisables(s), ~RepairDisables(s)
    PROVE  Orderly'
  <1> JobInv
    BY DEF Coherent
  <1>1. PICK b \in Brigades : b = job[s].b
    BY AnyStepMoves, Worker DEF Moves, Coherent
  <1>2. job[s] \in RealJob
    BY AnyStepMoves, Worker DEF Moves, Coherent
  <1> DEFINE Goal == /\ Knows(s)' /\ Sound(b)'
                     /\ \/ Tame(b)
                        \/ \E a \in Addresses : file'[b].addr = a /\ OnlyAt(b, a)'
  <1>3. Knows(s) /\ Sound(b) /\ (Whole(b) \/ file[b] \in Blank)
    BY DEF Coherent, Orderly, FileInv
  <1>4. \A d \in Brigades \ {b} : Same(d)
    BY <1>1, OthersSame
  <1> SUFFICES Goal
    BY <1>1, <1>4, AnyStepMoves, OneBrigade
  <1>5. file[b] \in Document
    BY DEF Coherent, MachineTypes, Files
  <1> USE DEF ScriptTypes, MachineTypes
  <1>6. CASE CheckStep(s)
    <2>1. Same(b)
      BY <1>1, <1>6, CheckStepQuiet DEF Same, machine, history
    <2>2. Knows(s)'
      <3>1. CASE CreateChecks(s)
        BY <1>1, <3>1, ExitKnows DEF Coherent, CreateChecks, Goto, At, Knows, machine
      <3>2. CASE DestroyChecks(s)
        <4>1. CASE Goto(s, "unvip")
          BY <4>1 DEF Coherent, Goto, Knows
        <4>2. CASE Goto(s, "stop")
          <5>1. pc[s] = "check" /\ UNCHANGED marker /\ job[s].kind \in DestroyKinds
            BY <3>2 DEF DestroyChecks, At, Is, machine
          <5>2. pc'[s] # "unvip"
            BY <4>2 DEF Coherent, Goto
          <5>3. ~(Forced(s) /\ marker[b])
            BY <1>1, <3>2, <5>1, <5>2 DEF DestroyChecks, Goto, Coherent, Exit, Gone, Forced, Is
          <5>4. job[s].kind = "destroy" => ~marker[b]
            <6>1. ~(~Forced(s) /\ (maintenance \/ marker[b]))
              BY <1>1, <3>2, <4>2, <5>1 DEF DestroyChecks, Goto, Coherent, Exit, Gone
            <6> QED
              BY <6>1 DEF Forced, Is
          <5> QED
            BY <1>1, <4>2, <5>1, <5>4 DEF Coherent, Goto, Knows
        <4> QED
          BY <1>1, <3>2, <4>1, <4>2, ExitKnows DEF Coherent, DestroyChecks
      <3>3. CASE ReplaceChecks(s)
        BY <1>1, <3>3, ExitKnows DEF Coherent, ReplaceChecks, Goto, At, Knows
      <3>4. CASE RepairChecks(s)
        BY <1>1, <3>4, ExitKnows DEF Coherent, RepairChecks, Goto, At, Is, CreateKinds,
           Knows
      <3>5. CASE RepairEnds(s)
        BY <3>5, ExitKnows DEF Coherent, RepairEnds
      <3>6. CASE RepairLists(s)
        <4>1. /\ pc'[s] = "next"
              /\ job' = [job EXCEPT ![s].todo = Doubles(s, Brigades \ {b})]
              /\ UNCHANGED <<unit, file, scars>>
          BY <1>1, <3>6 DEF Coherent, RepairLists, Todo, machine, history
        <4>2. /\ job'[s].b = b /\ job'[s].addr = job[s].addr
              /\ job'[s].todo = Doubles(s, Brigades \ {b})
          BY <1>1, <1>2, <4>1 DEF Coherent, RealJob
        <4>3. \A d \in Brigades \ {b} :
                 Live(d)' /\ <<job[s].addr, file'[d].addr>> \in Matches =>
                     d \in Doubles(s, Brigades \ {b})
          BY <4>1 DEF Doubles, Live, Whole
        <4> QED
          BY <4>1, <4>2, <4>3 DEF Knows
      <3> QED
        BY <1>6, <3>1, <3>2, <3>3, <3>4, <3>5, <3>6 DEF CheckStep
    <2> QED
      BY <1>3, <2>1, <2>2, SameSound, SameTame
  <1>7. CASE FailingStep(s)
    <2>1. /\ Files'
          /\ file'[b] = file[b] \/ (file[b].state = "none" /\ home[b] /\ file'[b] = Empty)
      BY <1>1, <1>7, FailingStepOpens, FileOpened DEF Coherent
    <2>2. /\ home'[b] = home[b] /\ created'[b] = created[b] /\ marker'[b] = marker[b]
          /\ unit'[b] = unit[b] /\ ifaces'[b] = ifaces[b] /\ scars'[b] = scars[b]
          /\ forgotten'[b] = forgotten[b]
      BY <1>7, FailingStepOpens DEF history
    <2>3. Knows(s)'
      BY <1>7, FailingStepOpens, ExitKnows DEF Coherent
    <2>4. CASE file'[b] = file[b]
      BY <1>3, <2>2, <2>3, <2>4, SameSound, SameTame DEF Same
    <2>5. CASE file[b].state = "none" /\ home[b] /\ file'[b] = Empty
      BY <1>3, <2>2, <2>3, <2>5, Blanks DEF Sound, WholeIfCreated, MarkedIfVip,
         NothingWithoutHome, Accounted, Tame, Live, Whole, Blank
    <2> QED
      BY <2>1, <2>4, <2>5
  <1>8. CASE CreateUser(s)
    <2>1. Knows(s)'
      <3>1. CASE Goto(s, "make")
        BY <1>1, <1>3, <1>8, <3>1 DEF Coherent, CreateUser, Goto, At, Knows, OnlyAt,
           Whole, history
      <3> QED
        BY <1>8, <3>1, ExitKnows DEF Coherent, CreateUser
    <2>4. home'[b] \/ home'[b] = home[b]
      BY <1>1, <1>8 DEF Coherent, CreateUser
    <2>2. Sound(b)'
      BY <1>1, <1>3, <1>8, <2>4 DEF Coherent, CreateUser, Sound, WholeIfCreated, MarkedIfVip,
         NothingWithoutHome, Accounted, Whole, history
    <2>3. Tame(b)
      BY <1>8 DEF CreateUser, Tame, Live, Whole, history
    <2> QED
      BY <2>1, <2>2, <2>3
  <1>9. CASE MakeBrigade(s)
    <2> USE <1>9
    <2>1. ~Whole(b) /\ home[b] /\ ~created[b] /\ OnlyAt(b, job[s].addr) /\ job[s].addr \in Addresses
      BY <1>1, <1>3 DEF Coherent, MakeBrigade, At, Knows, JobInv, CreateKinds, Addressed
    <2>2. /\ home'[b] /\ ~created'[b] /\ marker'[b] = marker[b] /\ unit'[b] = unit[b]
          /\ ifaces'[b] = ifaces[b] \cup {job[s].n}
      BY <1>1, <2>1 DEF Coherent, MakeBrigade
    <2>3. CASE Goto(s, "man")
      <3>1. /\ file'[b] = NewDocument(s)
            /\ scars'[b] = IF Is(s, {"createVip"}) THEN {"bornVip"} ELSE {}
            /\ forgotten' = forgotten
        BY <1>1, <2>3 DEF Coherent, MakeBrigade, Goto, Exit, Gone, Files
      <3>2. /\ Whole(b)' /\ file'[b].addr = job[s].addr
            /\ file'[b].vip => "bornVip" \in scars'[b]
            /\ file'[b].key = job[s].n
        BY <1>2, <3>1, DocumentMade DEF Whole, Is
      <3>3. OnlyAt(b, job[s].addr)'
        BY <1>4, <2>1, <2>3 DEF OnlyAt, Same, Whole, Goto
      <3>4. Knows(s)'
        BY <1>1, <2>1, <2>2, <2>3, <3>2, <3>3 DEF Coherent, Knows, Goto
      <3>5. Sound(b)'
        BY <1>3, <2>1, <2>2, <3>1, <3>2 DEF Sound, WholeIfCreated, MarkedIfVip,
           NothingWithoutHome, Accounted
      <3> QED
        BY <2>1, <2>3, <3>2, <3>3, <3>4, <3>5 DEF Goto
    <2>4. CASE Exit(s)
      <3>1. /\ file' = [file EXCEPT ![b] = Opened(b)]
            /\ scars' = scars
            /\ forgotten'[b] = forgotten[b] \cup {job[s].n}
        BY <1>1, <2>4 DEF Coherent, MakeBrigade, Goto, Exit, Gone
      <3>2. file'[b] = file[b] \/ (file[b].state = "none" /\ file'[b] = Empty)
        BY <3>1, FileOpened DEF Coherent
      <3>3. ~Whole(b)' /\ (file'[b].vip => file[b].vip)
        BY <2>1, <3>2, Blanks DEF Whole
      <3>4. Sound(b)'
        BY <1>3, <2>1, <2>2, <3>1, <3>3 DEF Sound, WholeIfCreated, MarkedIfVip,
           NothingWithoutHome, Accounted
      <3> QED
        BY <2>4, <3>3, <3>4, ExitKnows DEF Coherent, Tame, Live
    <2> QED
      BY <2>3, <2>4 DEF MakeBrigade
  <1>10. CASE ManBrigade(s)
    <2> USE <1>10
    <2>1. /\ Goto(s, "start")
          /\ ~created[b] /\ OnlyAt(b, job[s].addr) /\ home[b]
          /\ Whole(b) /\ file[b].key \in ifaces[b] /\ file[b].addr = job[s].addr
      BY <1>1, <1>3 DEF ManBrigade, At, Knows
    <2>2. /\ home'[b] /\ ~created'[b] /\ marker'[b] = marker[b] /\ unit'[b] = unit[b]
          /\ ifaces'[b] = ifaces[b] /\ forgotten'[b] = forgotten[b]
      BY <2>1 DEF ManBrigade
    <2>3. /\ file'[b].state = file[b].state /\ file'[b].addr = file[b].addr
          /\ file'[b].vip = file[b].vip /\ file'[b].key = file[b].key
          /\ file'[b].manned \/ "unmanned" \in scars'[b]
          /\ scars[b] \subseteq scars'[b]
      BY <1>1, BrigadierWritten DEF Coherent, ManBrigade, Scarred
    <2>4. Knows(s)'
      <3>1. OnlyAt(b, job[s].addr)'
        BY <1>4, <2>1 DEF OnlyAt, Same, Whole, Goto
      <3> QED
        BY <1>1, <2>1, <2>2, <2>3, <3>1 DEF Coherent, Knows, Goto, Whole
    <2>5. Sound(b)'
      BY <1>3, <2>1, <2>2, <2>3 DEF Sound, WholeIfCreated, MarkedIfVip,
         NothingWithoutHome, Accounted, Whole
    <2>6. Tame(b)
      BY <2>2, <2>3 DEF Tame, Live, Whole
    <2> QED
      BY <2>4, <2>5, <2>6
  <1>11. CASE StartUnit(s)
    <2> USE <1>11
    <2>1. /\ ~created[b] /\ OnlyAt(b, job[s].addr) /\ home[b]
          /\ Whole(b) /\ file[b].key \in ifaces[b] /\ file[b].addr = job[s].addr
          /\ file[b].manned \/ "unmanned" \in scars[b]
          /\ job[s].addr \in Addresses
      BY <1>1, <1>3 DEF Coherent, StartUnit, At, Knows, JobInv, CreateKinds, Addressed
    <2>2. /\ UNCHANGED <<home, created, marker, file, ifaces, forgotten>>
          /\ scars[b] \subseteq scars'[b]
      BY DEF Coherent, StartUnit, Scarred
    <2>3. Sound(b)'
      BY <1>3, <2>1, <2>2 DEF Sound, WholeIfCreated, MarkedIfVip, NothingWithoutHome,
         Accounted, Whole
    <2>6. PICK a \in Addresses : a = job[s].addr
      BY <2>1
    <2>5. OnlyAt(b, a)'
      <3>1. \A d \in Brigades \ {b} : file'[d] = file[d] /\ scars'[d] = scars[d]
        BY <1>4 DEF Same
      <3> QED
        BY <2>1, <2>6, <3>1 DEF OnlyAt, Whole
    <2>4. Knows(s)'
      <3>1. PICK done \in SUBSET Flags :
              /\ unit' = [unit EXCEPT ![b] = @ \cup done]
              /\ IF "started" \in done THEN Goto(s, "sign") ELSE Exit(s)
              /\ IF done = {"started"} THEN Scarred(b, "unenabled") ELSE UNCHANGED scars
        BY <1>1 DEF StartUnit
      <3>2. CASE "started" \in done
        <4>1. /\ job' = job /\ pc'[s] = "sign"
              /\ "started" \in unit'[b]
          BY <3>1, <3>2 DEF Coherent, Goto
        <4>2. "enabled" \in unit'[b] \/ "unenabled" \in scars'[b]
          <5>1. CASE "enabled" \in done
            BY <3>1, <5>1 DEF Coherent
          <5>2. CASE "enabled" \notin done
            <6>1. done = {"started"}
              BY <3>2, <5>2 DEF Flags
            <6> QED
              BY <3>1, <6>1 DEF Coherent, Scarred
          <5> QED
            BY <5>1, <5>2
        <4> QED
          BY <1>1, <2>1, <2>2, <2>5, <2>6, <4>1, <4>2 DEF Knows, Whole
      <3> QED
        BY <3>1, <3>2, ExitKnows DEF Coherent
    <2>7. file'[b].addr = job[s].addr
      BY <2>1, <2>2
    <2> QED
      BY <2>3, <2>4, <2>5, <2>6, <2>7
  <1>12. CASE SignCreated(s)
    <2> USE <1>12
    <2>1. Knows(s)'
      BY ExitKnows DEF Coherent, SignCreated
    <2>2. /\ UNCHANGED <<home, marker, file, unit, ifaces, scars, forgotten>>
          /\ created'[b] = home[b]
      BY <1>1 DEF Coherent, SignCreated, history
    <2>3. /\ home[b] /\ Whole(b) /\ file[b].key \in ifaces[b]
          /\ file[b].manned \/ "unmanned" \in scars[b]
          /\ "started" \in unit[b] /\ ("enabled" \in unit[b] \/ "unenabled" \in scars[b])
      BY <1>1, <1>3 DEF SignCreated, At, Knows
    <2>4. Sound(b)' /\ Tame(b)
      BY <1>3, <2>2, <2>3 DEF Sound, WholeIfCreated, MarkedIfVip, NothingWithoutHome,
         Accounted, Whole, Tame, Live
    <2> QED
      BY <2>1, <2>4
  <1>13. CASE Unvip(s)
    <2> USE <1>13
    <2>1. /\ file'[b].state = file[b].state /\ file'[b].addr = file[b].addr
          /\ ~file'[b].vip /\ file'[b].key = file[b].key /\ file'[b].manned = file[b].manned
      BY <1>1, VipWritten DEF Coherent, Unvip
    <2>2. /\ UNCHANGED <<home, created, unit, ifaces, scars, forgotten>>
          /\ marker'[b] => marker[b]
      BY <1>1 DEF Coherent, Unvip, history
    <2>3. Whole(b) /\ home[b]
      BY <1>1, <1>3, Blanks DEF Unvip, Sound, NothingWithoutHome, Whole
    <2>4. Sound(b)' /\ Tame(b)
      BY <1>3, <2>1, <2>2, <2>3 DEF Sound, WholeIfCreated, MarkedIfVip,
         NothingWithoutHome, Accounted, Whole, Tame, Live
    <2>5. Knows(s)'
      <3>1. CASE marker' = [marker EXCEPT ![b] = FALSE] /\ Goto(s, "stop")
        BY <1>1, <3>1 DEF Coherent, Goto, Knows
      <3> QED
        BY <1>1, <3>1, ExitKnows DEF Coherent, Unvip
    <2> QED
      BY <2>4, <2>5
  <1>14. CASE StopUnit(s)
    <2> USE <1>14
    <2>1. /\ UNCHANGED <<home, created, marker, file, ifaces, forgotten>>
          /\ unit'[b] \subseteq unit[b] /\ (unit'[b] # {} => "running" \in scars'[b])
          /\ scars[b] \subseteq scars'[b] /\ "ending" \in scars'[b]
      BY <1>1 DEF Coherent, StopUnit, Scarred
    <2>2. Sound(b)' /\ Tame(b)
      BY <1>3, <2>1 DEF Sound, WholeIfCreated, MarkedIfVip, NothingWithoutHome,
         Accounted, Whole, Tame, Live
    <2>3. Knows(s)'
      <3>1. Goto(s, "remove") /\ (job[s].kind = "destroy" => ~marker[b])
        BY <1>1, <1>3 DEF StopUnit, At, Knows
      <3> QED
        BY <1>1, <2>1, <3>1 DEF Coherent, Goto, Knows
    <2> QED
      BY <2>2, <2>3
  <1>15. CASE RemoveBrigade(s)
    <2> USE <1>15
    <2>1. UNCHANGED <<home, created, marker, file, unit, ifaces, scars, forgotten>>
      BY DEF RemoveBrigade, machine
    <2>2. /\ "ending" \in scars[b] /\ (unit[b] # {} => "running" \in scars[b])
          /\ job[s].kind = "destroy" => ~marker[b]
      BY <1>1, <1>3 DEF RemoveBrigade, At, Knows
    <2>3. Sound(b)' /\ Tame(b)
      BY <1>3, <2>1, SameSound, SameTame DEF Same
    <2>4. CASE Goto(s, "userdel")
      <3>1. ~Whole(b)
        BY <1>1, <2>4 DEF Coherent, RemoveBrigade, Goto
      <3>2. ifaces[b] \subseteq forgotten[b]
        BY <1>3, <3>1 DEF Sound, Accounted
      <3> QED
        BY <1>1, <2>1, <2>2, <2>3, <2>4, <3>2 DEF Coherent, Goto, Knows
    <2>5. CASE Goto(s, "delete")
      BY <1>1, <2>1, <2>2, <2>3, <2>5 DEF Coherent, Goto, Knows
    <2> QED
      BY <2>4, <2>5 DEF RemoveBrigade
  <1>21. CASE DeleteInterface(s)
    <2> USE <1>21
    <2>1. /\ UNCHANGED <<home, created, marker, file, unit, scars, forgotten>>
          /\ ifaces'[b] = ifaces[b] \ {file[b].key}
          /\ Whole(b)
      BY <1>1 DEF Coherent, DeleteInterface, history
    <2>2. /\ "ending" \in scars[b] /\ (unit[b] # {} => "running" \in scars[b])
          /\ job[s].kind = "destroy" => ~marker[b]
      BY <1>1, <1>3 DEF DeleteInterface, At, Knows
    <2>3. Sound(b)' /\ Tame(b)
      BY <1>3, <2>1, <2>2 DEF Sound, WholeIfCreated, MarkedIfVip, NothingWithoutHome,
         Accounted, Whole, Tame, Live
    <2>4. CASE Goto(s, "userdel")
      <3>1. ifaces'[b] \subseteq forgotten[b]
        BY <1>3, <2>1 DEF Sound, Accounted
      <3> QED
        BY <1>1, <2>1, <2>2, <2>3, <2>4, <3>1 DEF Coherent, Goto, Knows
    <2>5. CASE Exit(s)
      BY <2>3, <2>5, ExitKnows DEF Coherent
    <2> QED
      BY <2>4, <2>5 DEF DeleteInterface
  <1>16. CASE DeleteUser(s)
    <2> USE <1>16
    <2>1. Knows(s)'
      BY ExitKnows DEF Coherent, DeleteUser
    <2>2. UNCHANGED <<unit, ifaces, forgotten>>
      BY DEF DeleteUser
    <2>3. CASE UNCHANGED <<home, created, marker, file, scars>>
      BY <1>3, <2>1, <2>2, <2>3, SameSound, SameTame DEF Same
    <2>4. CASE ~UNCHANGED <<home, created, marker, file, scars>>
      <3>1. /\ ~home'[b] /\ ~created'[b] /\ ~marker'[b] /\ file'[b] = Absent
            /\ scars'[b] = scars[b] \cap {"running"}
        BY <1>1, <2>4 DEF Coherent, DeleteUser, Files
      <3>2. ifaces[b] \subseteq forgotten[b] /\ (unit[b] # {} => "running" \in scars[b])
        BY <1>1, <1>3 DEF DeleteUser, At, Knows
      <3> QED
        BY <2>1, <2>2, <3>1, <3>2, Blanks DEF Sound, WholeIfCreated, MarkedIfVip,
           NothingWithoutHome, Accounted, Whole, Tame, Live
    <2> QED
      BY <2>3, <2>4
  <1>17. CASE ReplaceBrigadier(s)
    <2> USE <1>17
    <2>1. Knows(s)'
      BY ExitKnows DEF Coherent, ReplaceBrigadier
    <2>2. UNCHANGED <<home, created, marker, unit, ifaces, forgotten>>
      BY DEF ReplaceBrigadier
    <2>3. CASE UNCHANGED <<file, scars>>
      BY <1>3, <2>1, <2>2, <2>3, SameSound, SameTame DEF Same
    <2>4. CASE ~UNCHANGED <<file, scars>>
      <3>1. /\ file'[b].state = file[b].state /\ file'[b].addr = file[b].addr
            /\ file'[b].vip = file[b].vip /\ file'[b].key = file[b].key /\ file'[b].manned
            /\ scars'[b] = scars[b] \ {"unmanned"}
        BY <1>1, <2>4, BrigadierWritten DEF Coherent, ReplaceBrigadier
      <3>2. Whole(b) /\ home[b]
        BY <1>1, <1>3, Blanks DEF ReplaceBrigadier, Sound, NothingWithoutHome, Whole
      <3> QED
        BY <1>3, <2>1, <2>2, <3>1, <3>2 DEF Sound, WholeIfCreated, MarkedIfVip,
           NothingWithoutHome, Accounted, Whole, Tame, Live
    <2> QED
      BY <2>3, <2>4
  <1>18. CASE VipChecks(s)
    <2> USE <1>18
    <2>1. UNCHANGED <<home, created, file, unit, ifaces, scars, forgotten>>
      BY DEF VipChecks, history
    <2>2. CASE Goto(s, "switch")
      <3>1. /\ home[b]
            /\ marker[b] => marker'[b]
            /\ job[s].kind = "vipOn" => marker'[b]
        BY <1>1, <2>2 DEF Coherent, VipChecks, Goto, Exit, Gone, Is
      <3>2. Knows(s)'
        BY <1>1, <2>2, <3>1 DEF Coherent, Goto, Knows
      <3> QED
        BY <1>3, <2>1, <3>1, <3>2 DEF Sound, WholeIfCreated, MarkedIfVip,
           NothingWithoutHome, Accounted, Whole, Tame, Live
    <2>3. CASE Exit(s) /\ UNCHANGED marker
      BY <1>3, <2>1, <2>3, ExitKnows, SameSound, SameTame DEF Coherent, Same
    <2> QED
      BY <2>2, <2>3 DEF VipChecks
  <1>19. CASE SwitchVip(s)
    <2> USE <1>19
    <2>1. Knows(s)'
      BY ExitKnows DEF Coherent, SwitchVip
    <2>2. Is(s, {"vipOn"}) \in BOOLEAN
      BY DEF Is
    <2>3. file' = [file EXCEPT ![b].vip = Is(s, {"vipOn"})]
      BY <1>1 DEF SwitchVip
    <2>4. /\ file'[b].state = file[b].state /\ file'[b].addr = file[b].addr
          /\ file'[b].key = file[b].key /\ file'[b].manned = file[b].manned
          /\ file'[b].vip <=> job[s].kind = "vipOn"
      BY <2>2, <2>3, VipWritten DEF Coherent, Is
    <2>5. UNCHANGED <<home, created, unit, ifaces, scars, forgotten>>
      BY DEF SwitchVip
    <2>6. /\ job[s].kind = "vipOn" => marker'[b]
          /\ Whole(b) /\ home[b]
      BY <1>1, <1>3, Blanks DEF Coherent, SwitchVip, At, Is, Knows, Sound,
         NothingWithoutHome, Whole
    <2>7. Sound(b)' /\ Tame(b)
      BY <1>3, <2>4, <2>5, <2>6 DEF Sound, WholeIfCreated, MarkedIfVip,
         NothingWithoutHome, Accounted, Whole, Tame, Live
    <2> QED
      BY <2>1, <2>7
  <1>20. CASE RepairReplays(s)
    <2> USE <1>20
    <2>2. /\ UNCHANGED <<home, created, marker, file, unit, scars, forgotten>>
          /\ ifaces'[b] = ifaces[b] \cup {file[b].key}
          /\ Whole(b)
      BY <1>1 DEF Coherent, RepairReplays, history
    <2>1. Knows(s)'
      <3>1. pc[s] = "replay" /\ pc'[s] = "next" /\ job' = job
        BY DEF Coherent, RepairReplays, At, Goto
      <3> QED
        BY <1>1, <1>3, <2>2, <3>1 DEF Knows, Live, Whole
    <2>3. Sound(b)' /\ Tame(b)
      BY <1>3, <2>2 DEF Sound, WholeIfCreated, MarkedIfVip, NothingWithoutHome,
         Accounted, Whole, Tame, Live
    <2> QED
      BY <2>1, <2>3
  <1> QED
    BY <1>6, <1>7, <1>8, <1>9, <1>10, <1>11, <1>12, <1>13, <1>14, <1>15,
       <1>16, <1>17, <1>18,
       <1>19, <1>20, <1>21 DEF AnyStep, WorkingStep

(* The brigades that look like the script's are moved aside and stopped,   *)
(* or one of the two has failed and they are spared.                       *)
LEMMA DisablingEffect ==
    ASSUME MachineTypes, NEW doubles \in SUBSET Brigades, DisableSome(doubles), NEW d \in Brigades
    PROVE  /\ home'[d] = home[d] /\ created'[d] = created[d] /\ marker'[d] = marker[d]
           /\ \/ file'[d] = file[d] /\ forgotten'[d] = forgotten[d]
              \/ /\ file'[d] = Absent
                 /\ forgotten'[d] = forgotten[d] \cup {file[d].key}
                 /\ "moved" \in scars'[d]
           /\ scars[d] \subseteq scars'[d]
           /\ unit'[d] \subseteq unit[d]
           /\ unit[d] = unit'[d] \/ "moved" \in scars'[d] \/ "spared" \in scars'[d]
           /\ d \in doubles => file'[d] = Absent \/ "spared" \in scars'[d]
  <1> PICK away \in SUBSET doubles, left \in [doubles -> SUBSET Flags] :
        /\ \A b \in doubles : left[b] \subseteq unit[b]
        /\ Disable(doubles, left, away)
    BY DEF DisableSome
  <1>1. /\ UNCHANGED <<home, created, marker>>
        /\ unit'[d] = IF d \in doubles THEN left[d] ELSE unit[d]
        /\ file'[d] = IF d \in away THEN Absent ELSE file[d]
        /\ forgotten'[d] = IF d \in away THEN forgotten[d] \cup {file[d].key} ELSE forgotten[d]
        /\ scars'[d] = scars[d] \cup (IF d \in away THEN {"moved"} ELSE {})
                                \cup (IF d \in doubles /\ (d \notin away \/ left[d] # {})
                                      THEN {"spared"} ELSE {})
    BY DEF Disable, MachineTypes
  <1>3. \/ file'[d] = file[d] /\ forgotten'[d] = forgotten[d]
        \/ /\ file'[d] = Absent
           /\ forgotten'[d] = forgotten[d] \cup {file[d].key}
           /\ "moved" \in scars'[d]
    BY <1>1
  <1>4. /\ unit'[d] \subseteq unit[d]
        /\ unit[d] = unit'[d] \/ "moved" \in scars'[d] \/ "spared" \in scars'[d]
    <2>1. CASE d \notin doubles
      BY <1>1, <2>1
    <2>2. CASE d \in doubles /\ left[d] # {}
      BY <1>1, <2>2
    <2>3. CASE d \in doubles /\ left[d] = {}
      <3>1. d \in away => "moved" \in scars'[d]
        BY <1>1
      <3>2. d \notin away => "spared" \in scars'[d]
        BY <1>1, <2>3
      <3> QED
        BY <1>1, <2>3, <3>1, <3>2
    <2> QED
      BY <2>1, <2>2, <2>3
  <1>5. d \in doubles => file'[d] = Absent \/ "spared" \in scars'[d]
    BY <1>1
  <1> QED
    BY <1>1, <1>3, <1>4, <1>5

LEMMA DisablingOrderly ==
    ASSUME Coherent, NEW s \in Scripts, CreateDisables(s) \/ RepairDisables(s) PROVE Orderly'
  <1>1. Moves(s)
    BY AnyStepMoves DEF AnyStep, WorkingStep, Coherent
  <1>2. PICK b \in Brigades : b = job[s].b /\ job[s] \in RealJob
    BY <1>1, Worker DEF Moves, Coherent
  <1>3. PICK doubles \in SUBSET Brigades :
          /\ DisableSome(doubles)
          /\ CreateDisables(s) => doubles = Doubles(s, Brigades)
          /\ RepairDisables(s) => \E d \in doubles :
               doubles = {d} /\ Todo(s, job[s].todo \ {d}, "replay")
    <2>1. CASE CreateDisables(s)
      <3>1. ~RepairDisables(s)
        BY <2>1 DEF CreateDisables, RepairDisables, At
      <3> QED
        BY <2>1, <3>1 DEF CreateDisables, Doubles
    <2>2. CASE RepairDisables(s)
      <3>1. ~CreateDisables(s)
        BY <2>2 DEF CreateDisables, RepairDisables, At
      <3>2. job[s].todo \subseteq Brigades
        BY <1>2 DEF RealJob
      <3> QED
        BY <2>2, <3>1, <3>2 DEF RepairDisables
    <2> QED
      BY <2>1, <2>2
  <1>4. UNCHANGED ifaces
    BY DEF CreateDisables, RepairDisables
  <1>5. ASSUME NEW d \in Brigades PROVE Sound(d)' /\ Tame(d)
    <2>1. Sound(d)
      BY DEF Coherent, Orderly
    <2>2. Sound(d)'
      BY <1>3, <1>4, <2>1, DisablingEffect, Blanks DEF Coherent, Sound, WholeIfCreated,
         MarkedIfVip, NothingWithoutHome, Accounted, Whole
    <2>3. Tame(d)
      BY <1>3, DisablingEffect, Blanks DEF Coherent, Tame, Live, Whole
    <2> QED
      BY <2>2, <2>3
  <1>6. \A c, d \in Brigades : Apart(c, d)'
    BY <1>5 DEF Coherent, Orderly, Apart, Tame
  <1>7. Knows(s)'
    <2>1. CASE CreateDisables(s)
      <3>1. ~created[b]
        BY <1>2, <2>1 DEF Coherent, Orderly, Knows, CreateDisables, At, Is
      <3>2. pc'[s] = "user" /\ job' = job
        BY <2>1 DEF Coherent, ScriptTypes, CreateDisables, Goto
      <3>3. ASSUME NEW d \in Brigades, Whole(d)', <<job[s].addr, file'[d].addr>> \in Matches
            PROVE  "spared" \in scars'[d]
        <4>1. file'[d] = file[d] /\ Whole(d)
          BY <1>3, <3>3, DisablingEffect, Blanks DEF Coherent, Whole
        <4>2. d \in doubles
          BY <1>3, <2>1, <3>3, <4>1 DEF Doubles
        <4>3. file'[d] # Absent
          BY <3>3, Blanks DEF Whole
        <4> QED
          BY <1>3, <2>1, <4>2, <4>3, DisablingEffect DEF Coherent
      <3>4. ~created'[b]
        BY <1>3, <3>1, DisablingEffect DEF Coherent
      <3> QED
        BY <1>2, <3>2, <3>3, <3>4 DEF Knows, OnlyAt
    <2>2. CASE RepairDisables(s)
      <3>1. PICK d \in Brigades : doubles = {d} /\ Todo(s, job[s].todo \ {d}, "replay")
        BY <1>3, <2>2
      <3>2. /\ pc[s] = "next" /\ pc'[s] = "replay"
            /\ job'[s].b = b /\ job'[s].addr = job[s].addr /\ job'[s].todo = job[s].todo \ {d}
        BY <1>2, <2>2, <3>1 DEF Coherent, ScriptTypes, RepairDisables, At, Todo, RealJob
      <3>3. ASSUME NEW e \in Brigades \ {b}, Live(e)', <<job[s].addr, file'[e].addr>> \in Matches
            PROVE  e \in job[s].todo \ {d} \/ "spared" \in scars'[e]
        <4>1. Whole(e)' /\ file'[e] # Absent
          BY <3>3, Blanks DEF Live, Whole
        <4>2. /\ file'[e] = file[e] /\ Live(e)
              /\ scars[e] \subseteq scars'[e]
              /\ e = d => "spared" \in scars'[e]
          BY <1>3, <3>1, <3>3, <4>1, DisablingEffect DEF Coherent, Live, Whole
        <4>3. e \in job[s].todo \/ "spared" \in scars[e]
          BY <1>2, <3>2, <3>3, <4>2 DEF Coherent, Orderly, Knows
        <4> QED
          BY <4>2, <4>3
      <3> QED
        BY <3>2, <3>3 DEF Knows
    <2> QED
      BY <2>1, <2>2
  <1> QED
    BY <1>1, <1>5, <1>6, <1>7, AloneStep DEF Orderly

-----------------------------------------------------------------------------
(* All steps.                                                              *)

LEMMA FileInvStep == FileInv /\ MachineTypes /\ JobInv /\ [Next]_vars => FileInv'
  <1> SUFFICES ASSUME FileInv, MachineTypes, JobInv, [Next]_vars PROVE FileInv'
    OBVIOUS
  <1> USE DEF FileInv
  <1>1. ASSUME UNCHANGED file PROVE FileInv'
    BY <1>1 DEF Whole
  <1>2. ASSUME NEW b \in Brigades, \A d \in Brigades \ {b} : file'[d] = file[d],
               Whole(b)' \/ file'[b] \in Blank
        PROVE  FileInv'
    BY <1>2 DEF Whole
  <1>3. ASSUME NEW s \in Scripts, AnyStep(s) PROVE FileInv'
    <2>1. PICK b \in Brigades : b = job[s].b /\ job[s] \in RealJob
      BY <1>3, AnyStepMoves, Worker DEF Moves
    <2> USE DEF MachineTypes
    <2>2. CASE CheckStep(s)
      BY <1>1, <2>2, CheckStepQuiet DEF machine
    <2>3. CASE FailingStep(s)
      BY <1>2, <2>1, <2>3, FailingStepOpens, FileOpened DEF Blank, Whole
    <2>4. CASE CreateDisables(s) \/ RepairDisables(s)
      <3>1. PICK doubles \in SUBSET Brigades : DisableSome(doubles)
        <4>1. CASE CreateDisables(s)
          BY <4>1 DEF CreateDisables, Doubles
        <4>2. CASE RepairDisables(s)
          <5>1. job[s].todo \subseteq Brigades
            BY <2>1 DEF RealJob
          <5> QED
            BY <4>2, <5>1 DEF RepairDisables
        <4> QED
          BY <2>4, <4>1, <4>2
      <3>2. \A d \in Brigades : file'[d] = file[d] \/ file'[d] = Absent
        BY <3>1, DisablingEffect
      <3> QED
        BY <3>2 DEF Blank, Whole
    <2>5. CASE MakeBrigade(s)
      <3>1. CASE file' = [file EXCEPT ![b] = Opened(b)]
        BY <1>2, <2>1, <3>1, FileOpened DEF Blank, Whole
      <3>2. CASE file' = [file EXCEPT ![b] = NewDocument(s)]
        BY <1>2, <2>1, <3>2, DocumentMade DEF Files, Whole
      <3> QED
        BY <2>1, <2>5, <3>1, <3>2 DEF MakeBrigade
    <2>6. CASE ManBrigade(s) \/ ReplaceBrigadier(s)
      <3>1. UNCHANGED file \/ (Whole(b) /\ file' = [file EXCEPT ![b].manned = TRUE])
        BY <2>1, <2>6 DEF ManBrigade, ReplaceBrigadier
      <3> QED
        BY <1>1, <1>2, <3>1, BrigadierWritten DEF Whole
    <2>7. CASE Unvip(s)
      <3>1. Whole(b) /\ file' = [file EXCEPT ![b].vip = FALSE]
        BY <2>1, <2>7 DEF Unvip
      <3> QED
        BY <1>2, <3>1, VipWritten DEF Whole
    <2>8. CASE SwitchVip(s)
      <3>1. Whole(b) /\ file' = [file EXCEPT ![b].vip = Is(s, {"vipOn"})]
        BY <2>1, <2>8 DEF SwitchVip
      <3>2. Is(s, {"vipOn"}) \in BOOLEAN
        BY DEF Is
      <3> QED
        BY <1>2, <3>1, <3>2, VipWritten DEF Whole
    <2>9. CASE DeleteUser(s)
      <3>1. UNCHANGED file \/ file' = [file EXCEPT ![b] = Absent]
        BY <2>1, <2>9 DEF DeleteUser
      <3> QED
        BY <1>1, <1>2, <3>1 DEF Files, Blank
    <2>10. CASE CreateUser(s) \/ StartUnit(s) \/ SignCreated(s) \/ StopUnit(s)
      BY <1>1, <2>10 DEF CreateUser, StartUnit, SignCreated, StopUnit
    <2>11. CASE RemoveBrigade(s) \/ DeleteInterface(s) \/ VipChecks(s) \/ RepairReplays(s)
      BY <1>1, <2>11 DEF RemoveBrigade, DeleteInterface, VipChecks, RepairReplays, machine
    <2> QED
      BY <1>3, <2>2, <2>3, <2>4, <2>5, <2>6, <2>7, <2>8, <2>9, <2>10, <2>11 DEF AnyStep,
         WorkingStep
  <1>4. ASSUME NEW s \in Scripts, Call(s) \/ TouchLock(s) \/ Kill(s) PROVE FileInv'
    BY <1>1, <1>4 DEF Call, TouchLock, Kill, machine
  <1>5. ASSUME NEW b \in Brigades, KeydeskOpens(b) PROVE FileInv'
    BY <1>2, <1>5 DEF KeydeskOpens, MachineTypes, Files, Blank
  <1>6. CASE MaintenanceBegins \/ MaintenanceEnds \/ UNCHANGED vars
    BY <1>1, <1>6 DEF MaintenanceBegins, MaintenanceEnds, vars, machine
  <1> QED
    BY NextCases, <1>3, <1>4, <1>5, <1>6

(* A brigade becomes VIP by a tool that records whom that has misled, and  *)
(* a script goes on to destroy one that is VIP only when it was misled.    *)
LEMMA MisledInvStep ==
    MisledInv /\ FileInv /\ ScriptTypes /\ MachineTypes /\ JobInv /\ [Next]_vars => MisledInv'
  <1> SUFFICES ASSUME MisledInv, FileInv, ScriptTypes, MachineTypes, JobInv, [Next]_vars
               PROVE  MisledInv'
    OBVIOUS
  <1> DEFINE Sees(t) == pc[t] \in {"delete", "userdel"} /\ file[job[t].b].vip
  <1>1. ASSUME UNCHANGED misled, \A t \in Scripts : Sees(t)' => Sees(t)
        PROVE  MisledInv'
    BY <1>1 DEF MisledInv
  <1>2. ASSUME NEW b \in Brigades, Promoted(b), \A d \in Brigades \ {b} : file'[d] = file[d],
               NEW s \in Scripts, Exit(s) \/ \E p \in {"man"} : Goto(s, p)
        PROVE  MisledInv'
    <2>1. misled' \in [Scripts -> SUBSET Mistakes]
      BY <1>2 DEF MisledInv, Promoted, Mistakes
    <2>2. ASSUME NEW t \in Scripts, Sees(t)' PROVE misled'[t] # {}
      <3>1. pc'[t] = pc[t] /\ job'[t] = job[t] /\ pc[t] \in {"delete", "userdel"}
        BY <1>2, <2>2 DEF Exit, Gone, Goto, ScriptTypes
      <3>2. job[t].b \in Brigades
        BY <3>1 DEF JobInv, RealJob
      <3>3. CASE job[t].b = b
        BY <1>2, <3>1, <3>3 DEF Promoted, Destroying
      <3>4. CASE job[t].b # b
        BY <1>2, <2>2, <3>1, <3>2, <3>4 DEF Promoted, MisledInv
      <3> QED
        BY <3>3, <3>4
    <2> QED
      BY <2>1, <2>2 DEF MisledInv
  <1>3. ASSUME \A t \in Scripts : pc'[t] = pc[t] /\ job'[t] = job[t],
               \A d \in Brigades : file'[d].vip => file[d].vip, UNCHANGED misled
        PROVE  MisledInv'
    <2>1. \A t \in Scripts : pc[t] \in {"delete", "userdel"} => job[t].b \in Brigades
      BY DEF JobInv, RealJob
    <2> QED
      BY <1>1, <1>3, <2>1
  <1>4. ASSUME NEW s \in Scripts, Moves(s), UNCHANGED misled,
               \A d \in Brigades : file'[d].vip => file[d].vip,
               pc'[s] \in {"delete", "userdel"} =>
                   pc[s] \in {"delete", "userdel"} \/ ~file'[job[s].b].vip
        PROVE  MisledInv'
    <2>1. ASSUME NEW t \in Scripts, Sees(t)' PROVE Sees(t)
      <3>1. t # s => pc'[t] = pc[t] /\ job'[t] = job[t]
        BY <1>4 DEF Moves, Exit, Gone, Goto, Todo, ScriptTypes
      <3>2. job'[s].b = job[s].b \/ pc'[s] = "idle"
        BY <1>4, Worker DEF Moves, Exit, Gone, Goto, Todo, ScriptTypes, RealJob
      <3>3. pc[t] # "idle" => job[t].b \in Brigades
        BY DEF JobInv, RealJob
      <3>4. pc[s] # "idle"
        BY <1>4 DEF Moves, Busy
      <3>5. CASE t = s
        BY <1>4, <2>1, <3>2, <3>3, <3>4, <3>5
      <3>6. CASE t # s
        BY <1>4, <2>1, <3>1, <3>3, <3>6
      <3> QED
        BY <3>5, <3>6
    <2> QED
      BY <1>1, <1>4, <2>1
  <1>5. ASSUME NEW s \in Scripts, AnyStep(s) PROVE MisledInv'
    <2> DEFINE Onto == pc'[s] \in {"delete", "userdel"}
    <2>1. Moves(s)
      BY <1>5, AnyStepMoves
    <2>2. PICK b \in Brigades : b = job[s].b /\ job[s] \in RealJob
      BY <2>1, Worker DEF Moves
    <2>3. Exit(s) => ~Onto
      BY DEF Exit, Gone, ScriptTypes
    <2>4. \A p : Goto(s, p) => pc'[s] = p
      BY DEF Goto, ScriptTypes
    <2>5. CASE CheckStep(s)
      <3>1. ~Onto
        BY <2>3, <2>4, <2>5 DEF CheckStep, CreateChecks, DestroyChecks, ReplaceChecks,
           RepairChecks, RepairLists, RepairEnds, Todo, ScriptTypes
      <3> QED
        BY <1>4, <2>1, <2>5, <3>1, CheckStepQuiet DEF machine, history
    <2>6. CASE FailingStep(s)
      <3>1. \A d \in Brigades : file'[d].vip => file[d].vip
        BY <2>2, <2>6, FailingStepOpens, FileOpened, Blanks DEF MachineTypes
      <3> QED
        BY <1>4, <2>1, <2>3, <2>6, <3>1, FailingStepOpens DEF history
    <2>7. CASE CreateDisables(s) \/ RepairDisables(s)
      <3>1. PICK doubles \in SUBSET Brigades : DisableSome(doubles)
        <4>1. CASE CreateDisables(s)
          BY <4>1 DEF CreateDisables, Doubles
        <4>2. CASE RepairDisables(s)
          <5>1. job[s].todo \subseteq Brigades
            BY <2>2 DEF RealJob
          <5> QED
            BY <4>2, <5>1 DEF RepairDisables
        <4> QED
          BY <2>7, <4>1, <4>2
      <3>2. \A d \in Brigades : file'[d].vip => file[d].vip
        BY <3>1, DisablingEffect, Blanks
      <3>3. ~Onto
        BY <2>4, <2>7 DEF CreateDisables, RepairDisables, Todo, ScriptTypes
      <3> QED
        BY <1>4, <2>1, <3>1, <3>2, <3>3, Disabling
    <2>8. CASE MakeBrigade(s)
      <3>1. CASE Exit(s)
        <4>1. UNCHANGED misled /\ file' = [file EXCEPT ![b] = Opened(b)]
          BY <2>2, <2>8, <3>1 DEF MakeBrigade, Exit, Gone, Goto, ScriptTypes
        <4>2. \A d \in Brigades : file'[d].vip => file[d].vip
          BY <4>1, FileOpened, Blanks DEF MachineTypes
        <4> QED
          BY <1>4, <2>1, <2>3, <3>1, <4>1, <4>2
      <3>2. CASE Goto(s, "man")
        <4>1. /\ file' = [file EXCEPT ![b] = NewDocument(s)]
              /\ IF Is(s, {"createVip"}) THEN Promoted(b) ELSE UNCHANGED misled
          BY <2>2, <2>8, <3>2 DEF MakeBrigade, Exit, Gone, Goto, ScriptTypes
        <4>2. \A d \in Brigades \ {b} : file'[d] = file[d]
          BY <4>1 DEF MachineTypes, Files
        <4>3. CASE Is(s, {"createVip"})
          BY <1>2, <3>2, <4>1, <4>2, <4>3
        <4>4. CASE ~Is(s, {"createVip"})
          <5>1. ~file'[b].vip
            BY <2>2, <4>1, <4>4, DocumentMade DEF MachineTypes, Files, Is
          <5>2. \A d \in Brigades : file'[d].vip => file[d].vip
            BY <4>2, <5>1
          <5> QED
            BY <1>4, <2>1, <2>4, <3>2, <4>1, <4>4, <5>2
        <4> QED
          BY <4>3, <4>4
      <3> QED
        BY <2>8, <3>1, <3>2 DEF MakeBrigade
    <2>9. CASE ManBrigade(s) \/ ReplaceBrigadier(s)
      <3>1. UNCHANGED file \/ file' = [file EXCEPT ![b].manned = TRUE]
        BY <2>2, <2>9 DEF ManBrigade, ReplaceBrigadier
      <3>2. \A d \in Brigades : file'[d].vip => file[d].vip
        BY <3>1, BrigadierWritten DEF MachineTypes
      <3>3. UNCHANGED misled /\ ~Onto
        BY <2>3, <2>4, <2>9 DEF ManBrigade, ReplaceBrigadier
      <3> QED
        BY <1>4, <2>1, <3>2, <3>3
    <2>10. CASE Unvip(s)
      <3>1. \A d \in Brigades : file'[d].vip => file[d].vip
        BY <2>2, <2>10, VipWritten DEF Unvip, MachineTypes
      <3>2. UNCHANGED misled /\ ~Onto
        BY <2>3, <2>4, <2>10 DEF Unvip, history
      <3> QED
        BY <1>4, <2>1, <3>1, <3>2
    <2>11. CASE SwitchVip(s)
      <3>1. /\ file' = [file EXCEPT ![b].vip = Is(s, {"vipOn"})]
            /\ Is(s, {"vipOn"}) \in BOOLEAN
            /\ Exit(s)
            /\ IF Is(s, {"vipOn"}) THEN Promoted(b) ELSE UNCHANGED misled
        BY <2>2, <2>11 DEF SwitchVip, Is
      <3>2. /\ \A d \in Brigades \ {b} : file'[d] = file[d]
            /\ file'[b].vip = Is(s, {"vipOn"})
        BY <3>1, VipWritten DEF MachineTypes
      <3>3. CASE Is(s, {"vipOn"})
        BY <1>2, <3>1, <3>2, <3>3
      <3>4. CASE ~Is(s, {"vipOn"})
        <4>1. \A d \in Brigades : file'[d].vip => file[d].vip
          BY <3>2, <3>4
        <4> QED
          BY <1>4, <2>1, <2>3, <3>1, <3>4, <4>1
      <3> QED
        BY <3>3, <3>4
    <2>12. CASE RemoveBrigade(s)
      <3>1. UNCHANGED file
        BY <2>12 DEF RemoveBrigade, machine
      <3>2. CASE UNCHANGED misled
        <4>1. ~file[b].vip \/ "misread" \in misled'[s]
          <5>1. CASE ~Whole(b)
            BY <5>1, Blanks DEF FileInv, Blank
          <5> QED
            BY <2>2, <2>12, <5>1 DEF RemoveBrigade, MisledInv
        <4>2. CASE ~file[b].vip
          BY <1>4, <2>1, <2>2, <3>1, <3>2, <4>2
        <4>3. CASE "misread" \in misled'[s]
          <5>1. ASSUME NEW t \in Scripts, Sees(t)' PROVE misled'[t] # {}
            <6>1. t # s => pc'[t] = pc[t] /\ job'[t] = job[t]
              BY <2>1 DEF Moves, Exit, Gone, Goto, Todo, ScriptTypes
            <6> QED
              BY <3>1, <3>2, <4>3, <5>1, <6>1 DEF MisledInv
          <5> QED
            BY <3>2, <5>1 DEF MisledInv
        <4> QED
          BY <4>1, <4>2, <4>3
      <3>3. CASE misled' = [misled EXCEPT ![s] = @ \cup {"misread"}]
        <4>1. ASSUME NEW t \in Scripts, Sees(t)' PROVE misled'[t] # {}
          <5>1. t # s => pc'[t] = pc[t] /\ job'[t] = job[t]
            BY <2>1 DEF Moves, Exit, Gone, Goto, Todo, ScriptTypes
          <5> QED
            BY <3>1, <3>3, <4>1, <5>1 DEF MisledInv
        <4>2. misled' \in [Scripts -> SUBSET Mistakes]
          BY <3>3 DEF MisledInv, Mistakes
        <4> QED
          BY <4>1, <4>2 DEF MisledInv
      <3> QED
        BY <2>12, <3>2, <3>3 DEF RemoveBrigade
    <2>13. CASE DeleteInterface(s)
      <3>1. UNCHANGED <<file, misled>> /\ pc[s] = "delete"
        BY <2>13 DEF DeleteInterface, history, At
      <3> QED
        BY <1>4, <2>1, <3>1
    <2>14. CASE DeleteUser(s)
      <3>1. UNCHANGED misled /\ (UNCHANGED file \/ file' = [file EXCEPT ![b] = Absent])
        BY <2>2, <2>14 DEF DeleteUser
      <3>2. \A d \in Brigades : file'[d].vip => file[d].vip
        BY <3>1, Blanks DEF MachineTypes, Files
      <3>3. ~Onto
        BY <2>3, <2>14 DEF DeleteUser
      <3> QED
        BY <1>4, <2>1, <3>1, <3>2, <3>3
    <2>15. CASE CreateUser(s) \/ StartUnit(s) \/ SignCreated(s) \/ StopUnit(s)
      <3>1. UNCHANGED <<file, misled>> /\ ~Onto
        BY <2>3, <2>4, <2>15 DEF CreateUser, StartUnit, SignCreated, StopUnit, history
      <3> QED
        BY <1>4, <2>1, <3>1
    <2>16. CASE VipChecks(s) \/ RepairReplays(s)
      <3>1. UNCHANGED <<file, misled>> /\ ~Onto
        BY <2>3, <2>4, <2>16 DEF VipChecks, RepairReplays, history
      <3> QED
        BY <1>4, <2>1, <3>1
    <2> QED
      BY <1>5, <2>5, <2>6, <2>7, <2>8, <2>9, <2>10, <2>11, <2>12, <2>13, <2>14, <2>15, <2>16
         DEF AnyStep, WorkingStep
  <1>6. ASSUME NEW s \in Scripts, Call(s) PROVE MisledInv'
    <2>1. /\ misled' = [misled EXCEPT ![s] = {}]
          /\ UNCHANGED file
          /\ pc'[s] = "touch"
          /\ \A t \in Scripts \ {s} : pc'[t] = pc[t] /\ job'[t] = job[t]
      BY <1>6 DEF Call, machine, ScriptTypes
    <2> QED
      BY <2>1 DEF MisledInv
  <1>7. ASSUME NEW s \in Scripts, TouchLock(s) \/ Kill(s) PROVE MisledInv'
    <2>1. /\ UNCHANGED <<file, misled>>
          /\ pc'[s] \in {"check", "idle"}
          /\ \A t \in Scripts \ {s} : pc'[t] = pc[t] /\ job'[t] = job[t]
      BY <1>7 DEF TouchLock, Kill, Gone, machine, ScriptTypes
    <2> QED
      BY <2>1 DEF MisledInv
  <1>8. ASSUME NEW b \in Brigades, KeydeskOpens(b) PROVE MisledInv'
    <2>1. UNCHANGED <<pc, job, misled>> /\ \A d \in Brigades : file'[d].vip => file[d].vip
      BY <1>8, Blanks DEF KeydeskOpens, history, MachineTypes, Files
    <2> QED
      BY <1>3, <2>1
  <1>9. CASE MaintenanceBegins \/ MaintenanceEnds \/ UNCHANGED vars
    <2>1. UNCHANGED <<pc, job, misled, file>>
      BY <1>9 DEF MaintenanceBegins, MaintenanceEnds, history, machine, vars
    <2> QED
      BY <1>3, <2>1
  <1> QED
    BY NextCases, <1>5, <1>6, <1>7, <1>8, <1>9

(* Nothing is seen to be done on the machine.                              *)
LEMMA QuietOrderly ==
    ASSUME Orderly, UNCHANGED <<machine, scars, forgotten>>, Alone', \A s \in Scripts : Knows(s)'
    PROVE  Orderly'
  <1>1. \A b \in Brigades : Same(b)
    BY DEF Same, machine
  <1> QED
    BY <1>1, SameSound, SameTame DEF Orderly, Apart, Tame

LEMMA OrderlyStep ==
    (Coherent /\ [Next]_vars /\ ~overlapped') => Orderly'
  <1> SUFFICES ASSUME Coherent, [Next]_vars, ~overlapped' PROVE Orderly'
    OBVIOUS
  <1> USE DEF Coherent
  <1>1. ASSUME NEW s \in Scripts, Call(s) PROVE Orderly'
    <2>1. /\ \A t \in Scripts \ {s} : pc'[t] = pc[t] /\ job'[t] = job[t]
          /\ pc'[s] = "touch"
          /\ UNCHANGED <<machine, scars, forgotten>>
      BY <1>1 DEF Call, ScriptTypes
    <2>2. Alone'
      BY <2>1 DEF Orderly, Alone, Busy
    <2>3. ASSUME NEW t \in Scripts PROVE Knows(t)'
      BY <2>1 DEF Orderly, Knows, OnlyAt, Live, Whole, machine
    <2> QED
      BY <2>1, <2>2, <2>3, QuietOrderly
  <1>2. ASSUME NEW s \in Scripts, TouchLock(s) PROVE Orderly'
    <2>1. /\ \A t \in Scripts : ~Busy(t)
          /\ \A t \in Scripts \ {s} : pc'[t] = pc[t]
          /\ pc'[s] = "check"
          /\ UNCHANGED <<machine, scars, forgotten>>
      BY <1>2 DEF TouchLock, ScriptTypes
    <2>2. Alone'
      BY <2>1 DEF Alone, Busy
    <2>3. ASSUME NEW t \in Scripts PROVE Knows(t)'
      <3>1. pc'[t] \in {"idle", "touch", "check"}
        BY <2>1 DEF Busy
      <3> QED
        BY <3>1 DEF Knows
    <2> QED
      BY <2>1, <2>2, <2>3, QuietOrderly
  <1>3. ASSUME NEW s \in Scripts, Kill(s) PROVE Orderly'
    <2>1. /\ \A t \in Scripts \ {s} : pc'[t] = pc[t] /\ ~Busy(t)
          /\ pc'[s] = "idle"
          /\ UNCHANGED <<machine, scars, forgotten>>
      BY <1>3 DEF Kill, Gone, ScriptTypes, Orderly, Alone
    <2>2. \A t \in Scripts : pc'[t] \in {"idle", "touch"}
      BY <2>1 DEF Busy
    <2>3. Alone' /\ \A t \in Scripts : Knows(t)'
      BY <2>2 DEF Alone, Busy, Knows
    <2> QED
      BY <2>1, <2>3, QuietOrderly
  <1>4. ASSUME NEW s \in Scripts, AnyStep(s) PROVE Orderly'
    BY <1>4, StepOrderly, DisablingOrderly
  <1>5. ASSUME NEW b \in Brigades, KeydeskOpens(b) PROVE Orderly'
    <2>1. /\ UNCHANGED <<pc, job, home, created, marker, unit, ifaces, scars, forgotten>>
          /\ \A d \in Brigades \ {b} : file'[d] = file[d]
          /\ file[b].state = "none" /\ file'[b] = Empty /\ home[b]
      BY <1>5 DEF KeydeskOpens, MachineTypes, Files, history
    <2>2. ~Whole(b) /\ ~Whole(b)' /\ ~file'[b].vip
      BY <2>1, Blanks DEF Whole
    <2>3. \A d \in Brigades \ {b} : Same(d)
      BY <2>1 DEF Same
    <2>4. ~file[b].manned
      BY <2>2, Blanks DEF FileInv, Blank
    <2>5. Sound(b)'
      BY <2>1, <2>2, <2>4 DEF Orderly, Sound, WholeIfCreated, MarkedIfVip,
         NothingWithoutHome, Accounted
    <2>6. \A d \in Brigades : Sound(d)' /\ Tame(d)
      BY <2>2, <2>3, <2>5, SameSound, SameTame DEF Orderly, Tame, Live
    <2>7. ASSUME NEW s \in Scripts PROVE Knows(s)'
      <3>1. \A d \in Brigades : /\ Whole(d)' <=> Whole(d)
                                /\ Whole(d)' => file'[d] = file[d]
        BY <2>1, <2>2 DEF Whole
      <3>2. ASSUME NEW d, NEW a, OnlyAt(d, a) PROVE OnlyAt(d, a)'
        BY <2>1, <3>1, <3>2 DEF OnlyAt
      <3>3. pc[s] # "idle" => job[s].b \in Brigades
        BY DEF JobInv, RealJob
      <3>4. Knows(s)
        BY DEF Orderly
      <3>7. \A d \in Brigades : Live(d)' => Live(d) /\ file'[d] = file[d]
        BY <2>1, <3>1 DEF Live
      <3>5. CASE job[s].b = b
        BY <2>1, <2>2, <2>4, <3>2, <3>3, <3>4, <3>5, <3>7 DEF Knows
      <3>6. CASE job[s].b # b
        BY <2>1, <3>1, <3>2, <3>3, <3>4, <3>6, <3>7 DEF Knows
      <3> QED
        BY <3>5, <3>6
    <2> QED
      BY <2>1, <2>6, <2>7 DEF Orderly, Alone, Busy, Apart, Tame
  <1>6. CASE MaintenanceBegins \/ MaintenanceEnds \/ UNCHANGED vars
    <2>1. UNCHANGED <<pc, job, machine, scars, forgotten>>
      BY <1>6 DEF MaintenanceBegins, MaintenanceEnds, history, vars
    <2>2. Alone' /\ \A s \in Scripts : Knows(s)'
      BY <2>1 DEF Orderly, Alone, Busy, Knows, OnlyAt, Live, Whole, machine
    <2> QED
      BY <2>1, <2>2, QuietOrderly
  <1> QED
    BY NextCases, <1>1, <1>2, <1>3, <1>4, <1>5, <1>6

-----------------------------------------------------------------------------
(* The theorems.                                                           *)

LEMMA OverlapStays == ASSUME JobInv, [Next]_vars, ~overlapped' PROVE ~overlapped
  <1>1. ASSUME NEW s \in Scripts, AnyStep(s) PROVE ~overlapped
    BY <1>1, AnyStepMoves DEF Moves
  <1>2. ASSUME NEW s \in Scripts, Call(s) \/ TouchLock(s) \/ Kill(s) PROVE ~overlapped
    BY <1>2 DEF Call, TouchLock, Kill, history
  <1>3. ASSUME NEW b \in Brigades, KeydeskOpens(b) PROVE ~overlapped
    BY <1>3 DEF KeydeskOpens, history
  <1>4. CASE MaintenanceBegins \/ MaintenanceEnds \/ UNCHANGED vars
    BY <1>4 DEF MaintenanceBegins, MaintenanceEnds, history, vars
  <1> QED
    BY NextCases, <1>1, <1>2, <1>3, <1>4

LEMMA IInvStep == IInv /\ [Next]_vars => IInv'
  <1> SUFFICES ASSUME IInv, [Next]_vars PROVE IInv'
    OBVIOUS
  <1> USE DEF IInv
  <1>1. ScriptTypes /\ MachineTypes
    BY TypeParts
  <1>2. ScriptTypes' /\ MachineTypes'
    BY <1>1, ScriptTypesStep, MachineTypesStep
  <1>4. JobInv' /\ FileInv' /\ MisledInv' /\ LockAttended'
    BY <1>1, JobInvStep, FileInvStep, MisledInvStep, AttendedStep
  <1>3. TypeOK'
    BY <1>2, <1>4 DEF TypeOK, ScriptTypes, MachineTypes, Files, MisledInv
  <1>5. ~overlapped' => Orderly'
    BY <1>1, OverlapStays, OrderlyStep DEF Coherent
  <1> QED
    BY <1>3, <1>4, <1>5

(* IInv is an invariant of the scripts' life.                              *)
THEOREM Invariance == Spec => []IInv
  BY InitIInv, IInvStep, PTL DEF Spec

(* Every variable keeps its type.                                          *)
THEOREM TypeCorrect == Spec => []TypeOK
  <1>1. IInv => TypeOK
    BY DEF IInv
  <1> QED
    BY Invariance, <1>1, PTL

(* The lock that a script waits for will be let go of, unless a script was *)
(* killed.                                                                 *)
THEOREM LockIsAttended == Spec => []LockAttended
  <1>1. IInv => LockAttended
    BY DEF IInv
  <1> QED
    BY Invariance, <1>1, PTL

(* What create_brigade.sh marks as created is whole, or one of the scars   *)
(* says why it is not.                                                     *)
THEOREM CreatedIsWhole == Spec => []CreatedWhole
  <1>1. IInv => CreatedWhole
    BY DEF IInv, Orderly, Sound, WholeIfCreated, CreatedWhole
  <1> QED
    BY Invariance, <1>1, PTL

(* No two live brigades share an endpoint address, unless disabling one    *)
(* of them failed.                                                         *)
THEOREM AddressesApart == Spec => []OneLivePerAddress
  <1>1. IInv => OneLivePerAddress
    BY DEF IInv, Orderly, Apart, OneLivePerAddress
  <1> QED
    BY Invariance, <1>1, PTL

(* createbrigade is not refused for what an earlier attempt for the same   *)
(* address left behind.                                                    *)
THEOREM AttemptsCanBeRepeated == Spec => []CreationRepeatable
  <1>1. IInv => CreationRepeatable
    BY DEF IInv, Orderly, Knows, CreationRepeatable, At
  <1> QED
    BY Invariance, <1>1, PTL

(* A brigade whose file says VIP has the marker, or was born VIP.          *)
THEOREM VipIsMarked == Spec => []VipMarked
  <1>1. IInv => VipMarked
    BY DEF IInv, Orderly, Sound, MarkedIfVip, VipMarked
  <1> QED
    BY Invariance, <1>1, PTL

(* Without a home nothing is left of a brigade but what failed to stop and *)
(* the interfaces whose file was lost.                                     *)
THEOREM DestroyedIsGone == Spec => []NothingLeft
  <1>1. IInv => NothingLeft
    <2> SUFFICES ASSUME IInv, NEW b \in Brigades, ~home[b], ~overlapped
                 PROVE  /\ file[b] = Absent /\ ~created[b] /\ ~marker[b]
                        /\ unit[b] # {} => "running" \in scars[b]
                        /\ ifaces[b] \subseteq forgotten[b]
      BY DEF NothingLeft
    <2>1. NothingWithoutHome(b) /\ Accounted(b)
      BY DEF IInv, Orderly, Sound
    <2>2. ~Whole(b)
      BY <2>1, Blanks DEF NothingWithoutHome, Whole
    <2> QED
      BY <2>1, <2>2 DEF NothingWithoutHome, Accounted
  <1> QED
    BY Invariance, <1>1, PTL

(* A repair that has come to its end has disabled every double it found,   *)
(* or has failed to.                                                       *)
THEOREM RepairsAreComplete == Spec => []RepairComplete
  <1>1. IInv => RepairComplete
    BY DEF IInv, Orderly, Knows, RepairComplete, At
  <1> QED
    BY Invariance, <1>1, PTL

(* Without -force no brigade is destroyed while its file says VIP, but for *)
(* the two gaps that destroybrigade leaves: the brigade was made VIP after *)
(* the file had been read, or it could not be read and had no marker.      *)
THEOREM VipIsProtected == Spec => VipProtected
  <1> DEFINE Protected ==
        \A s \in Scripts :
          LET b == job[s].b IN
          At(s, "userdel") /\ Is(s, {"destroy"}) /\ file[b].vip /\ home[b] /\ pc'[s] = "idle" =>
              \/ home'[b]
              \/ "promoted" \in misled[s]
              \/ "misread" \in misled[s] /\ ("bornVip" \in scars[b] \/ overlapped)
  <1>1. IInv => Protected
    <2> SUFFICES ASSUME IInv, NEW s \in Scripts, pc[s] = "userdel", job[s].kind = "destroy",
                        file[job[s].b].vip, "promoted" \notin misled[s], ~overlapped
                 PROVE  "misread" \in misled[s] /\ "bornVip" \in scars[job[s].b]
      <3>1. ASSUME IInv, NEW s \in Scripts, pc[s] = "userdel", job[s].kind = "destroy",
                   file[job[s].b].vip, "promoted" \notin misled[s]
            PROVE  "misread" \in misled[s]
        <4>1. misled[s] # {} /\ misled[s] \subseteq Mistakes
          BY <3>1 DEF IInv, MisledInv
        <4> QED
          BY <3>1, <4>1 DEF Mistakes
      <3> QED
        BY <3>1 DEF At, Is
    <2>1. misled[s] # {} /\ misled[s] \subseteq Mistakes
      BY DEF IInv, MisledInv
    <2>2. job[s].b \in Brigades
      BY DEF IInv, JobInv, RealJob
    <2>3. ~marker[job[s].b]
      BY DEF IInv, Orderly, Knows
    <2>4. MarkedIfVip(job[s].b)
      BY <2>2 DEF IInv, Orderly, Sound
    <2> QED
      BY <2>1, <2>3, <2>4 DEF Mistakes, MarkedIfVip
  <1>2. IInv /\ [Next]_vars => [Protected]_vars
    BY <1>1
  <1> QED
    BY Invariance, <1>2, PTL DEF Spec, VipProtected

=============================================================================
