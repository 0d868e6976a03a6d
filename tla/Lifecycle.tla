------------------------------ MODULE Lifecycle ------------------------------
(***************************************************************************)
(* The life of brigades on one machine, as the shell scripts under cmd/    *)
(* make it: create_brigade.sh, destroy_brigade.sh, replace_brigadier.sh,   *)
(* turnon_vip.sh and repair_brigade.sh, with the tools they run.           *)
(*                                                                         *)
(* A script waits for a lock file, touches it, works in steps, each of     *)
(* which may fail, and removes the file when it exits.  What a brigade is  *)
(* on the machine is spread over several places: a home directory with     *)
(* two markers, brigade.json, a systemd unit, an interface at the          *)
(* endpoint.  The question is what is left of it when scripts fail, are    *)
(* killed, overlap, or run over the remains of others.                     *)
(***************************************************************************)
EXTENDS Naturals, FiniteSets

CONSTANTS
    Brigades,       \* identifiers of brigades
    Scripts,        \* processes that run scripts, one at a time each
    Addresses,      \* endpoint addresses
    Matches,        \* <<p, a>>: the text of address p is found in that of a
    Jobs,           \* the kinds of script that are run
    MaxJobs,        \* bound: scripts started, and none after two have overlapped
    MaxFaults,      \* bound: steps that fail and scripts that are killed
    MaxOutages      \* bound: periods of maintenance that begin

AllJobs == {"create", "createVip", "destroy", "forceDestroy", "replace",
            "vipOn", "vipOff", "repair"}

ASSUME MatchesAssumption ==
    /\ Matches \subseteq Addresses \X Addresses
    /\ \A a \in Addresses : <<a, a>> \in Matches

ASSUME BoundsAssumption ==
    /\ Jobs \subseteq AllJobs
    /\ MaxJobs \in Nat /\ MaxFaults \in Nat /\ MaxOutages \in Nat

VARIABLES
    lock,           \* /tmp/vgbrigade.spinlock exists
    pc,             \* where each script is
    job,            \* what it was called with
    home,           \* the system user and its home directory
    created,        \* ~/created is not empty
    marker,         \* ~/.vip exists
    file,           \* ~/brigade.json
    unit,           \* whether vgkeydesk@<id>.service is enabled and is started
    ifaces,         \* external: the interfaces the endpoint has for a brigade
    maintenance     \* /.maintenance holds a time to come

VARIABLES           \* history and budgets
    started,        \* scripts started so far
    faults,         \* failed steps and kills so far
    outages,        \* periods of maintenance so far
    overlapped,     \* two scripts have been past the lock at once
    killed,         \* a script was killed
    scars,          \* what has befallen a brigade and explains its state
    misled,         \* what has befallen a script's look at whether its brigade is VIP
    forgotten       \* interfaces no brigade.json tells of any more

machine == <<home, created, marker, file, unit, ifaces>>
history == <<overlapped, killed, scars, misled, forgotten>>
budgets == <<started, faults, outages>>
vars == <<lock, pc, job, machine, maintenance, history, budgets>>

-----------------------------------------------------------------------------
(* brigade.json, as far as the scripts look into it.                       *)

Key == 0 .. MaxJobs         \* the interface key: the number of the script that made it

Document == [state : {"none", "empty", "whole"}, addr : Addresses \cup {"none"},
             vip : BOOLEAN, manned : BOOLEAN, key : Key]

Absent == [state |-> "none", addr |-> "none", vip |-> FALSE, manned |-> FALSE, key |-> 0]
Empty == [Absent EXCEPT !.state = "empty"]

Whole(b) == file[b].state = "whole"

(* A tool that opens the database creates the file when there is none.     *)
Opened(b) == IF file[b].state = "none" /\ home[b] THEN Empty ELSE file[b]

(* What explains a state that is not as it should be: its file was taken   *)
(* away by another brigade's script; it should have been, but a step of    *)
(* that failed; it was made during maintenance; it was made VIP by         *)
(* createbrigade; a destroy has begun; its unit could not be stopped; its  *)
(* unit could not be enabled.                                              *)
Scar == {"moved", "spared", "unmanned", "bornVip", "ending", "running", "unenabled"}

(* The two things systemctl is asked of a unit, each on its own.           *)
Flags == {"enabled", "started"}

(* destroybrigade could not read whether its brigade is VIP; the brigade   *)
(* was made VIP after it had read that.                                    *)
Mistakes == {"misread", "promoted"}

-----------------------------------------------------------------------------
(* Scripts.                                                                *)

Steps == {"idle", "touch", "check", "double", "user", "make", "man", "start",
          "sign", "unvip", "stop", "remove", "delete", "userdel", "replace", "switch",
          "next", "replay"}

NoJob == [kind |-> "none"]

(* todo: the doubles a repair has listed and not come to yet.              *)
Job == [kind : AllJobs, b : Brigades, addr : Addresses \cup {"none"}, n : Key,
        todo : SUBSET Brigades] \cup {NoJob}

Busy(s) == pc[s] \notin {"idle", "touch"}

At(s, step) == pc[s] = step
Is(s, kinds) == job[s].kind \in kinds
Goto(s, step) == pc' = [pc EXCEPT ![s] = step] /\ UNCHANGED <<lock, job>>

Gone(s) == pc' = [pc EXCEPT ![s] = "idle"] /\ job' = [job EXCEPT ![s] = NoJob]

(* Mutant: exit without the trap.                                          *)
ExitUntrapped(s) == Gone(s) /\ UNCHANGED lock

(* The EXIT trap removes the lock, whoever touched it.                     *)
Exit(s) == Gone(s) /\ lock' = FALSE

Fault == faults < MaxFaults /\ faults' = faults + 1 /\ UNCHANGED <<started, outages>>
NoFault == UNCHANGED budgets

Scarred(b, scar) == scars' = [scars EXCEPT ![b] = @ \cup {scar}]

(* Scripts that have read that b is not VIP, and go on to destroy it.      *)
Destroying(b) == {t \in Scripts : pc[t] \in {"delete", "userdel"} /\ job[t].b = b}

Promoted(b) ==
    misled' = [t \in Scripts |->
                  IF t \in Destroying(b) THEN misled[t] \cup {"promoted"} ELSE misled[t]]

Init ==
    /\ lock = FALSE
    /\ pc = [s \in Scripts |-> "idle"]
    /\ job = [s \in Scripts |-> NoJob]
    /\ home = [b \in Brigades |-> FALSE]
    /\ created = [b \in Brigades |-> FALSE]
    /\ marker = [b \in Brigades |-> FALSE]
    /\ file = [b \in Brigades |-> Absent]
    /\ unit = [b \in Brigades |-> {}]
    /\ ifaces = [b \in Brigades |-> {}]
    /\ maintenance = FALSE
    /\ started = 0 /\ faults = 0 /\ outages = 0
    /\ overlapped = FALSE
    /\ killed = FALSE
    /\ scars = [b \in Brigades |-> {}]
    /\ misled = [s \in Scripts |-> {}]
    /\ forgotten = [b \in Brigades |-> {}]

Addressed == {"create", "createVip", "repair"}     \* called with an address

(* A script that waits changes nothing: it is called when it finds no lock. *)
(* while [ -f lock ]; do sleep 0.1; done                                    *)
Call(s) ==
    /\ At(s, "idle")
    /\ ~lock
    /\ started < MaxJobs /\ ~overlapped
    /\ started' = started + 1
    /\ \E k \in Jobs, b \in Brigades :
       \E a \in IF k \in Addressed THEN Addresses ELSE {"none"} :
          job' = [job EXCEPT ![s] =
                     [kind |-> k, b |-> b, addr |-> a, n |-> started + 1, todo |-> {}]]
    /\ pc' = [pc EXCEPT ![s] = "touch"]
    /\ misled' = [misled EXCEPT ![s] = {}]
    /\ UNCHANGED <<lock, machine, maintenance, overlapped, killed, scars, forgotten,
                   faults, outages>>

(* touch lock: succeeds whether or not another has touched it meanwhile.   *)
TouchLock(s) ==
    /\ At(s, "touch")
    /\ lock' = TRUE
    /\ pc' = [pc EXCEPT ![s] = "check"]
    /\ overlapped' = (overlapped \/ \E t \in Scripts : Busy(t))
    /\ NoFault /\ UNCHANGED <<job, machine, maintenance, killed, scars, misled, forgotten>>

-----------------------------------------------------------------------------
(* Disabling the brigades whose endpoint address looks like a given one:   *)
(* stop the unit, disable it, move the file aside; errors are ignored.     *)

Doubles(s, others) ==
    {d \in others : Whole(d) /\ <<job[s].addr, file[d].addr>> \in Matches}

(* left: what remains of their units; away: those whose file was moved.    *)
Disable(doubles, left, away) ==
    /\ unit' = [b \in Brigades |-> IF b \in doubles THEN left[b] ELSE unit[b]]
    /\ file' = [b \in Brigades |-> IF b \in away THEN Absent ELSE file[b]]
    /\ forgotten' = [b \in Brigades |->
                        IF b \in away THEN forgotten[b] \cup {file[b].key} ELSE forgotten[b]]
    /\ scars' = [b \in Brigades |->
                    scars[b] \cup (IF b \in away THEN {"moved"} ELSE {})
                             \cup (IF b \in doubles /\ (b \notin away \/ left[b] # {})
                                   THEN {"spared"} ELSE {})]
    /\ IF \A b \in doubles : b \in away /\ left[b] = {} THEN NoFault ELSE Fault
    /\ UNCHANGED <<home, created, marker, overlapped, killed, misled>>

DisableSome(doubles) ==
    \E away \in SUBSET doubles, left \in [doubles -> SUBSET Flags] :
        /\ \A b \in doubles : left[b] \subseteq unit[b]
        /\ Disable(doubles, left, away)

-----------------------------------------------------------------------------
(* create_brigade.sh                                                       *)

CreateKinds == {"create", "createVip"}

CreateChecks(s) ==
    /\ At(s, "check") /\ Is(s, CreateKinds)
    /\ IF created[job[s].b] \/ maintenance THEN Exit(s) ELSE Goto(s, "double")
    /\ NoFault /\ UNCHANGED <<machine, maintenance, history>>

(* Mutant: doubles are looked for when the brigade is repaired only.       *)
CreateDisablesNone(s) ==
    /\ At(s, "double") /\ Is(s, CreateKinds)
    /\ Goto(s, "user") /\ NoFault
    /\ UNCHANGED <<machine, maintenance, history>>

(* Mutant: it skips its own file, as repair_brigade.sh does.               *)
CreateDisablesOthers(s) ==
    /\ At(s, "double") /\ Is(s, CreateKinds)
    /\ DisableSome(Doubles(s, Brigades \ {job[s].b}))
    /\ Goto(s, "user")
    /\ UNCHANGED <<ifaces, maintenance>>

(* Its own file, left by an attempt that failed, is among the doubles.     *)
CreateDisables(s) ==
    /\ At(s, "double") /\ Is(s, CreateKinds)
    /\ DisableSome(Doubles(s, Brigades))
    /\ Goto(s, "user")
    /\ UNCHANGED <<ifaces, maintenance>>

(* useradd, which fails when the user exists, and three directories, of    *)
(* which the home is the first: only the status of the last one counts.    *)
CreateUser(s) ==
    LET b == job[s].b IN
    /\ At(s, "user")
    /\ \/ home' = [home EXCEPT ![b] = TRUE] /\ Goto(s, "make") /\ NoFault
       \/ /\ \E made \in {home[b], TRUE} : home' = [home EXCEPT ![b] = made]
          /\ Goto(s, "make") \/ Exit(s)
          /\ Fault
    /\ UNCHANGED <<created, marker, file, unit, ifaces, maintenance, history>>

NewDocument(s) ==
    [state |-> "whole", addr |-> job[s].addr, vip |-> Is(s, {"createVip"}),
     manned |-> FALSE, key |-> job[s].n]

(* createbrigade: the interface is added, then the file is committed.      *)
MakeBrigade(s) ==
    LET b == job[s].b IN
    /\ At(s, "make")
    /\ ~Whole(b) /\ home[b]
    /\ ifaces' = [ifaces EXCEPT ![b] = @ \cup {job[s].n}]
    /\ \/ /\ file' = [file EXCEPT ![b] = NewDocument(s)]
          /\ scars' = [scars EXCEPT ![b] = IF Is(s, {"createVip"}) THEN {"bornVip"} ELSE {}]
          /\ IF Is(s, {"createVip"}) THEN Promoted(b) ELSE UNCHANGED misled
          /\ Goto(s, "man") /\ NoFault /\ UNCHANGED forgotten
       \/ /\ file' = [file EXCEPT ![b] = Opened(b)]
          /\ forgotten' = [forgotten EXCEPT ![b] = @ \cup {job[s].n}]
          /\ Exit(s) /\ Fault /\ UNCHANGED <<scars, misled>>
    /\ UNCHANGED <<home, created, marker, unit, maintenance, overlapped, killed>>

(* A tool that refuses or fails: the brigade exists, its user does not, ... *)
ToolFails(s, refused) ==
    LET b == job[s].b IN
    /\ file' = [file EXCEPT ![b] = Opened(b)]
    /\ IF refused THEN NoFault ELSE Fault
    /\ Exit(s)
    /\ UNCHANGED <<home, created, marker, unit, ifaces, maintenance, history>>

MakeFails(s) ==
    /\ At(s, "make")
    /\ ToolFails(s, Whole(job[s].b) \/ ~home[job[s].b])

(* keydesk -name: answers 503 under maintenance, and exits with 0.         *)
ManBrigade(s) ==
    LET b == job[s].b IN
    /\ At(s, "man")
    /\ Whole(b)
    /\ IF maintenance
       THEN Scarred(b, "unmanned") /\ UNCHANGED file
       ELSE file' = [file EXCEPT ![b].manned = TRUE] /\ UNCHANGED scars
    /\ Goto(s, "start") /\ NoFault
    /\ UNCHANGED <<home, created, marker, unit, ifaces, maintenance, overlapped, killed, misled,
                   forgotten>>

(* Mutant: its status is not looked at.                                    *)
ManFailsUnseen(s) ==
    /\ At(s, "man")
    /\ Goto(s, "start") /\ Fault
    /\ UNCHANGED <<machine, maintenance, history>>

ManFails(s) == At(s, "man") /\ ToolFails(s, ~Whole(job[s].b))

(* { enable; start; } || fatal: only the status of start counts.           *)
StartUnit(s) ==
    LET b == job[s].b IN
    /\ At(s, "start")
    /\ \E done \in SUBSET Flags :
          /\ unit' = [unit EXCEPT ![b] = @ \cup done]
          /\ IF "started" \in done THEN Goto(s, "sign") ELSE Exit(s)
          /\ IF done = {"started"} THEN Scarred(b, "unenabled") ELSE UNCHANGED scars
          /\ IF done = Flags THEN NoFault ELSE Fault
    /\ UNCHANGED <<home, created, marker, file, ifaces, maintenance, overlapped, killed, misled,
                   forgotten>>

SignCreated(s) ==
    /\ At(s, "sign")
    /\ created' = [created EXCEPT ![job[s].b] = home[job[s].b]]
    /\ Exit(s) /\ NoFault
    /\ UNCHANGED <<home, marker, file, unit, ifaces, maintenance, history>>

-----------------------------------------------------------------------------
(* destroy_brigade.sh                                                      *)

DestroyKinds == {"destroy", "forceDestroy"}
Forced(s) == Is(s, {"forceDestroy"})

DestroyChecks(s) ==
    LET b == job[s].b IN
    /\ At(s, "check") /\ Is(s, DestroyKinds)
    /\ CASE ~Forced(s) /\ (maintenance \/ marker[b]) -> Exit(s)
         [] Forced(s) /\ marker[b] -> Goto(s, "unvip")
         [] OTHER -> Goto(s, "stop")
    /\ NoFault /\ UNCHANGED <<machine, maintenance, history>>

(* turnon-vip -off commits, then the marker is removed.                    *)
Unvip(s) ==
    LET b == job[s].b IN
    /\ At(s, "unvip")
    /\ Whole(b)
    /\ file' = [file EXCEPT ![b].vip = FALSE]
    /\ \/ marker' = [marker EXCEPT ![b] = FALSE] /\ Goto(s, "stop") /\ NoFault
       \/ UNCHANGED marker /\ Exit(s) /\ Fault
    /\ UNCHANGED <<home, created, unit, ifaces, maintenance, history>>

UnvipFails(s) == At(s, "unvip") /\ ToolFails(s, ~Whole(job[s].b))

(* A unit that cannot be stopped or disabled does not end the script.      *)
StopUnit(s) ==
    LET b == job[s].b IN
    /\ At(s, "stop")
    /\ \E left \in SUBSET unit[b] :
          /\ unit' = [unit EXCEPT ![b] = left]
          /\ IF left = {}
             THEN Scarred(b, "ending") /\ NoFault
             ELSE scars' = [scars EXCEPT ![b] = @ \cup {"ending", "running"}] /\ Fault
    /\ Goto(s, "remove")
    /\ UNCHANGED <<home, created, marker, file, ifaces, maintenance, overlapped, killed, misled,
                   forgotten>>

(* Mutant: whether the brigade is VIP is left to the marker.               *)
RemoveBrigadeVip(s) ==
    /\ At(s, "remove")
    /\ IF Whole(job[s].b) THEN Goto(s, "delete") ELSE Goto(s, "userdel")
    /\ NoFault /\ UNCHANGED <<machine, maintenance, history>>

(* destroybrigade, which is not run when there is nothing in the file.     *)
(* Whether the brigade is VIP is read in a session of its own, which takes *)
(* a failure for no.                                                       *)
RemoveBrigade(s) ==
    LET b == job[s].b IN
    /\ At(s, "remove")
    /\ \/ ~Whole(b) /\ Goto(s, "userdel") /\ NoFault /\ UNCHANGED misled
       \/ Whole(b) /\ ~file[b].vip /\ Goto(s, "delete") /\ NoFault /\ UNCHANGED misled
       \/ /\ file[b].vip /\ Goto(s, "delete") /\ Fault
          /\ misled' = [misled EXCEPT ![s] = @ \cup {"misread"}]
    /\ UNCHANGED <<machine, maintenance, overlapped, killed, scars, forgotten>>

(* A VIP brigade is refused, forced or not.                                *)
RemoveFails(s) == At(s, "remove") /\ Whole(job[s].b) /\ ToolFails(s, file[job[s].b].vip)

(* Mutant: the script goes on when the interface could not be deleted.     *)
DeleteInterfaceUnseen(s) ==
    /\ At(s, "delete")
    /\ Goto(s, "userdel") /\ Fault
    /\ UNCHANGED <<machine, maintenance, history>>

(* In the next session the interface is deleted, which may come to be      *)
(* known as a failure.                                                     *)
DeleteInterface(s) ==
    LET b == job[s].b IN
    /\ At(s, "delete")
    /\ Whole(b)
    /\ ifaces' = [ifaces EXCEPT ![b] = @ \ {file[b].key}]
    /\ \/ Goto(s, "userdel") /\ NoFault
       \/ Exit(s) /\ Fault
    /\ UNCHANGED <<home, created, marker, file, unit, maintenance, history>>

DeleteFails(s) == At(s, "delete") /\ ToolFails(s, ~Whole(job[s].b))

DeleteUser(s) ==
    LET b == job[s].b IN
    /\ At(s, "userdel")
    /\ \/ /\ home' = [home EXCEPT ![b] = FALSE]
          /\ created' = [created EXCEPT ![b] = FALSE]
          /\ marker' = [marker EXCEPT ![b] = FALSE]
          /\ file' = [file EXCEPT ![b] = Absent]
          /\ scars' = [scars EXCEPT ![b] = @ \cap {"running"}]
          /\ NoFault
       \/ UNCHANGED <<home, created, marker, file, scars>> /\ Fault
    /\ Exit(s)
    /\ UNCHANGED <<unit, ifaces, maintenance, overlapped, killed, misled, forgotten>>

-----------------------------------------------------------------------------
(* replace_brigadier.sh: keydesk -r, which under maintenance does nothing  *)
(* and exits with 0.                                                       *)

ReplaceChecks(s) ==
    /\ At(s, "check") /\ Is(s, {"replace"})
    /\ IF maintenance \/ ~created[job[s].b] THEN Exit(s) ELSE Goto(s, "replace")
    /\ NoFault /\ UNCHANGED <<machine, maintenance, history>>

ReplaceBrigadier(s) ==
    LET b == job[s].b IN
    /\ At(s, "replace")
    /\ Whole(b)
    /\ IF maintenance
       THEN UNCHANGED <<file, scars>>
       ELSE /\ file' = [file EXCEPT ![b].manned = TRUE]
            /\ scars' = [scars EXCEPT ![b] = @ \ {"unmanned"}]
    /\ Exit(s) /\ NoFault
    /\ UNCHANGED <<home, created, marker, unit, ifaces, maintenance, overlapped, killed, misled,
                   forgotten>>

ReplaceFails(s) == At(s, "replace") /\ ToolFails(s, ~Whole(job[s].b))

-----------------------------------------------------------------------------
(* turnon_vip.sh: the marker is set before the file and removed after it.  *)

VipKinds == {"vipOn", "vipOff"}

(* Mutant: the marker is not set before the file.                          *)
VipChecksUnmarked(s) ==
    /\ At(s, "check") /\ Is(s, VipKinds)
    /\ IF home[job[s].b] THEN Goto(s, "switch") ELSE Exit(s)
    /\ NoFault /\ UNCHANGED <<machine, maintenance, history>>

VipChecks(s) ==
    LET b == job[s].b IN
    /\ At(s, "check") /\ Is(s, VipKinds)
    /\ IF home[b]
       THEN /\ marker' = [marker EXCEPT ![b] = @ \/ Is(s, {"vipOn"})]
            /\ Goto(s, "switch")
       ELSE UNCHANGED marker /\ Exit(s)
    /\ NoFault /\ UNCHANGED <<home, created, file, unit, ifaces, maintenance, history>>

SwitchVip(s) ==
    LET b == job[s].b
        on == Is(s, {"vipOn"})
    IN
    /\ At(s, "switch")
    /\ Whole(b)
    /\ file' = [file EXCEPT ![b].vip = on]
    /\ \/ marker' = [marker EXCEPT ![b] = @ /\ on] /\ NoFault
       \/ UNCHANGED marker /\ Fault
    /\ IF on THEN Promoted(b) ELSE UNCHANGED misled
    /\ Exit(s)
    /\ UNCHANGED <<home, created, unit, ifaces, maintenance, overlapped, killed, scars, forgotten>>

SwitchFails(s) == At(s, "switch") /\ ToolFails(s, ~Whole(job[s].b))

-----------------------------------------------------------------------------
(* repair_brigade.sh -r: disables the doubles of a brigade that exists,    *)
(* one after the other, and after each has the endpoint told everything    *)
(* about the brigade; when that fails, the doubles after it stay.          *)

RepairChecks(s) ==
    LET b == job[s].b IN
    /\ At(s, "check") /\ Is(s, {"repair"})
    /\ IF created[b] /\ Whole(b) THEN Goto(s, "double") ELSE Exit(s)
    /\ NoFault /\ UNCHANGED <<machine, maintenance, history>>

Todo(s, doubles, step) ==
    /\ job' = [job EXCEPT ![s].todo = doubles]
    /\ pc' = [pc EXCEPT ![s] = step]
    /\ UNCHANGED lock

(* Mutant: only brigades that are marked created are looked at.            *)
RepairListsCreated(s) ==
    /\ At(s, "double") /\ Is(s, {"repair"})
    /\ Todo(s, Doubles(s, {d \in Brigades \ {job[s].b} : created[d]}), "next")
    /\ NoFault /\ UNCHANGED <<machine, maintenance, history>>

RepairLists(s) ==
    /\ At(s, "double") /\ Is(s, {"repair"})
    /\ Todo(s, Doubles(s, Brigades \ {job[s].b}), "next")
    /\ NoFault /\ UNCHANGED <<machine, maintenance, history>>

RepairDisables(s) ==
    /\ At(s, "next")
    /\ \E d \in job[s].todo : DisableSome({d}) /\ Todo(s, job[s].todo \ {d}, "replay")
    /\ UNCHANGED <<ifaces, maintenance>>

RepairReplays(s) ==
    LET b == job[s].b IN
    /\ At(s, "replay")
    /\ Whole(b)
    /\ ifaces' = [ifaces EXCEPT ![b] = @ \cup {file[b].key}]
    /\ Goto(s, "next") /\ NoFault
    /\ UNCHANGED <<home, created, marker, file, unit, maintenance, history>>

RepairEnds(s) ==
    /\ At(s, "next") /\ job[s].todo = {}
    /\ Exit(s)
    /\ NoFault /\ UNCHANGED <<machine, maintenance, history>>

RepairFails(s) == At(s, "replay") /\ ToolFails(s, ~Whole(job[s].b))

-----------------------------------------------------------------------------
(* Around the scripts.                                                     *)

(* A signal kills the shell: the trap does not run and the lock stays.     *)
Kill(s) ==
    /\ Busy(s)
    /\ Gone(s)
    /\ killed' = TRUE
    /\ Fault
    /\ UNCHANGED <<lock, machine, maintenance, overlapped, scars, misled, forgotten>>

(* A unit that starts, again or with the machine, opens its database, and  *)
(* creates it if need be.                                                  *)
KeydeskOpens(b) ==
    /\ unit[b] # {} /\ home[b]
    /\ file[b].state = "none"
    /\ file' = [file EXCEPT ![b] = Empty]
    /\ NoFault
    /\ UNCHANGED <<lock, pc, job, home, created, marker, unit, ifaces, maintenance, history>>

MaintenanceBegins ==
    /\ ~maintenance /\ outages < MaxOutages
    /\ maintenance' = TRUE
    /\ outages' = outages + 1
    /\ UNCHANGED <<lock, pc, job, machine, history, started, faults>>

MaintenanceEnds ==
    /\ maintenance
    /\ maintenance' = FALSE
    /\ NoFault /\ UNCHANGED <<lock, pc, job, machine, history>>

-----------------------------------------------------------------------------
CreateStep(s) ==
    \/ CreateChecks(s) \/ CreateDisables(s) \/ CreateUser(s) \/ MakeBrigade(s) \/ MakeFails(s)
    \/ ManBrigade(s) \/ ManFails(s) \/ StartUnit(s) \/ SignCreated(s)

DestroyStep(s) ==
    \/ DestroyChecks(s) \/ Unvip(s) \/ UnvipFails(s) \/ StopUnit(s)
    \/ RemoveBrigade(s) \/ RemoveFails(s) \/ DeleteInterface(s) \/ DeleteFails(s)
    \/ DeleteUser(s)

OtherStep(s) ==
    \/ ReplaceChecks(s) \/ ReplaceBrigadier(s) \/ ReplaceFails(s)
    \/ VipChecks(s) \/ SwitchVip(s) \/ SwitchFails(s)
    \/ RepairChecks(s) \/ RepairLists(s) \/ RepairDisables(s) \/ RepairReplays(s)
    \/ RepairFails(s) \/ RepairEnds(s)

ScriptStep(s) == TouchLock(s) \/ CreateStep(s) \/ DestroyStep(s) \/ OtherStep(s)

Next ==
    \/ \E s \in Scripts : Call(s) \/ ScriptStep(s) \/ Kill(s)
    \/ \E b \in Brigades : KeydeskOpens(b)
    \/ MaintenanceBegins \/ MaintenanceEnds

Spec == Init /\ [][Next]_vars
-----------------------------------------------------------------------------
(* Properties.  Two scripts past the lock at once (overlapped) excuse      *)
(* everything; the scars excuse one brigade each.                          *)

(* Every variable keeps its type.                                          *)
TypeOK ==
    /\ lock \in BOOLEAN /\ maintenance \in BOOLEAN
    /\ pc \in [Scripts -> Steps]
    /\ job \in [Scripts -> Job]
    /\ home \in [Brigades -> BOOLEAN]
    /\ created \in [Brigades -> BOOLEAN]
    /\ marker \in [Brigades -> BOOLEAN]
    /\ unit \in [Brigades -> SUBSET Flags]
    /\ file \in [Brigades -> Document]
    /\ ifaces \in [Brigades -> SUBSET Key]
    /\ started \in 0 .. MaxJobs /\ faults \in 0 .. MaxFaults /\ outages \in 0 .. MaxOutages
    /\ overlapped \in BOOLEAN /\ killed \in BOOLEAN
    /\ scars \in [Brigades -> SUBSET Scar]
    /\ misled \in [Scripts -> SUBSET Mistakes]
    /\ forgotten \in [Brigades -> SUBSET Key]

(* The marker `created` is only there when the whole brigade is: its user, *)
(* its file with a brigadier, its interface, its unit started and enabled; *)
(* unless it has been disabled as a double, a destroy has begun,           *)
(* maintenance began while it was made, which leaves it without a          *)
(* brigadier, or its unit could not be enabled, which nobody looks at.     *)
CreatedWhole ==
    \A b \in Brigades :
        created[b] /\ ~overlapped =>
            /\ home[b]
            /\ (Whole(b) /\ file[b].key \in ifaces[b]) \/ scars[b] \cap {"moved", "ending"} # {}
            /\ file[b].manned \/ scars[b] \cap {"moved", "unmanned"} # {}
            /\ "started" \in unit[b] \/ scars[b] \cap {"moved", "spared", "ending"} # {}
            /\ "enabled" \in unit[b] \/ scars[b] \cap {"moved", "spared", "ending", "unenabled"} # {}

(* No two brigades serve one endpoint address, or will when the machine    *)
(* starts, unless disabling one of them failed.                            *)
Live(b) == Whole(b) /\ unit[b] # {}

OneLivePerAddress ==
    \A b, c \in Brigades :
        b # c /\ Live(b) /\ Live(c) /\ file[b].addr = file[c].addr /\ ~overlapped =>
            "spared" \in scars[b] \cup scars[c]

(* What is left of an attempt that failed never makes createbrigade refuse *)
(* the next one, if that asks for the same endpoint address.               *)
CreationRepeatable ==
    \A s \in Scripts :
        At(s, "make") /\ Whole(job[s].b) /\ ~overlapped =>
            \/ "spared" \in scars[job[s].b]
            \/ <<job[s].addr, file[job[s].b].addr>> \notin Matches

(* What a repair has come to the end of: no other brigade serves an        *)
(* address that looks like its own, unless disabling it failed.            *)
RepairComplete ==
    \A s \in Scripts :
        At(s, "next") /\ job[s].todo = {} /\ ~overlapped =>
            \A d \in Brigades \ {job[s].b} :
                Live(d) /\ <<job[s].addr, file[d].addr>> \in Matches => "spared" \in scars[d]

(* A file that says VIP comes with the marker the scripts look at, unless  *)
(* createbrigade made it so.                                               *)
VipMarked ==
    \A b \in Brigades :
        file[b].vip /\ ~overlapped => marker[b] \/ "bornVip" \in scars[b]

(* Where a brigade has no home, nothing of it is left: no unit (but one    *)
(* that could not be stopped), and no interface but those whose file was   *)
(* lost before.                                                            *)
NothingLeft ==
    \A b \in Brigades :
        ~home[b] /\ ~overlapped =>
            /\ file[b] = Absent /\ ~created[b] /\ ~marker[b]
            /\ unit[b] # {} => "running" \in scars[b]
            /\ ifaces[b] \subseteq forgotten[b]

(* Without -force, a brigade whose file says VIP is not destroyed, even if *)
(* scripts overlap: both the marker and the file protect it.  What remains *)
(* is a brigade made VIP after destroybrigade had read that it was not,    *)
(* and one that it could not read, which the marker protects unless the    *)
(* brigade never had one.                                                  *)
VipProtected ==
    [][\A s \in Scripts :
          LET b == job[s].b IN
          At(s, "userdel") /\ Is(s, {"destroy"}) /\ file[b].vip /\ home[b] /\ pc'[s] = "idle" =>
              \/ home'[b]
              \/ "promoted" \in misled[s]
              \/ "misread" \in misled[s] /\ ("bornVip" \in scars[b] \/ overlapped)]_vars

(* The lock that a script waits for is that of a script still at work,     *)
(* which will let go of it; unless one was killed.                         *)
LockAttended == lock => killed \/ \E s \in Scripts : Busy(s)

=============================================================================
