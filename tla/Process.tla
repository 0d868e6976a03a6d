------------------------------- MODULE Process -------------------------------
(***************************************************************************)
(* A keydesk process: the tasks that cmd/keydesk gives to pkg/runner, the  *)
(* requests they serve, the collection of statistics, and how all of it    *)
(* ends on a signal.                                                       *)
(*                                                                         *)
(* Stop cancels the context of the tasks, upon which the Shutdown of each  *)
(* is called with that context, and waits for all of them to return.  The  *)
(* servers' Shutdown takes a cancelled context for leave to give up at     *)
(* once; that of the statistics waits until the collector is between two   *)
(* collections.  The Func and the Shutdown of the shuffler's server, two   *)
(* goroutines, share one variable err, and nothing orders their accesses.  *)
(***************************************************************************)
EXTENDS Naturals, FiniteSets

CONSTANTS
    Servers,        \* the servers that are configured
    Requests,       \* clients, with a request at a time each
    MaxCommits,     \* bound: commits to brigade.json
    MaxFaults,      \* bound: listeners, collections and commits that fail, kills
    MaxStarts       \* bound: processes, one after another

AllServers == {"http", "https", "messages", "shuffler"}

ASSUME ProcessAssumption ==
    /\ Servers \subseteq AllServers
    /\ {"none", "stat"} \cap Requests = {}
    /\ MaxCommits \in Nat /\ MaxFaults \in Nat /\ MaxStarts \in Nat \ {0}

VARIABLES
    main,           \* where the goroutine of main is
    func,           \* what the Func of each server does
    shut,           \* how far the Shutdown of each task is
    err,            \* the variable err of the shuffler's block
    reported,       \* tasks whose Shutdown returned an error to the runner
    status,         \* the exit status
    stat,           \* where the collector is
    req,            \* where each client's request is, and at which server
    lock,           \* who has a session on brigade.json
    db,             \* version of brigade.json
    collected,      \* version of the last one that a collection committed
    pub             \* version that stats.json was made from

VARIABLES           \* history and budgets
    raced,          \* Shutdown has read an err that Func had written
    missed,         \* a collection was not published, and none was since
    faults,         \* failures so far
    starts          \* processes so far

tasks == <<func, shut, err, reported>>
files == <<db, collected, pub>>
history == <<raced, missed>>
budgets == <<faults, starts>>
vars == <<main, tasks, status, stat, req, lock, files, history, budgets>>

Tasks == Servers \cup {"stat"}

(* Its Func and its Shutdown assign to one err; the others' are their own. *)
Sharing == Servers \cap {"shuffler"}

(* Whose client for the endpoint has no timeout for a call.                *)
Patient == Servers \cap {"shuffler"}

NoRequest == [at |-> "none", stage |-> "none"]
Request == {NoRequest} \cup [at : Servers, stage : {"open", "working", "hung", "committed"}]

Alive == main # "exit"
Stopping == main \in {"stop", "check"}

Started ==
    /\ main = "wait"
    /\ func = [s \in Servers |-> "serving"]
    /\ shut = [t \in Tasks |-> "wait"]
    /\ err = "nil"
    /\ reported = {}
    /\ status = "none"
    /\ stat = "select"
    /\ req = [q \in Requests |-> NoRequest]
    /\ lock = "none"
    /\ raced = FALSE

Init ==
    /\ Started
    /\ db = 0 /\ collected = 0 /\ pub = 0
    /\ missed = FALSE
    /\ faults = 0
    /\ starts = 1

Fault == faults < MaxFaults /\ faults' = faults + 1 /\ UNCHANGED starts
NoFault == UNCHANGED budgets

-----------------------------------------------------------------------------
(* Requests.  Each is one session; a server that is closed takes no more.  *)

Step(q, stage) == req' = [req EXCEPT ![q].stage = stage]

Arrive(q) ==
    /\ Alive
    /\ req[q] = NoRequest
    /\ \E s \in Servers :
        /\ func[s] = "serving" /\ shut[s] = "wait"
        /\ req' = [req EXCEPT ![q] = [at |-> s, stage |-> "open"]]
    /\ UNCHANGED <<main, tasks, status, stat, lock, files, history, budgets>>

OpenSession(q) ==
    /\ Alive
    /\ req[q].stage = "open"
    /\ lock = "none"
    /\ lock' = q
    /\ Step(q, "working")
    /\ UNCHANGED <<main, tasks, status, stat, files, history, budgets>>

(* The endpoint accepts the connection and does not answer.  The session    *)
(* stays open until it does, or for ever.                                  *)
CallHangs(q) ==
    /\ Alive
    /\ req[q].stage = "working" /\ req[q].at \in Patient
    /\ Step(q, "hung")
    /\ Fault
    /\ UNCHANGED <<main, tasks, status, stat, lock, files, history>>

CallReturns(q) ==
    /\ Alive
    /\ req[q].stage = "hung"
    /\ Step(q, "working")
    /\ UNCHANGED <<main, tasks, status, stat, lock, files, history, budgets>>

CommitSession(q) ==
    /\ Alive
    /\ req[q].stage = "working"
    /\ lock' = "none"
    /\ \/ db < MaxCommits /\ db' = db + 1
       \/ UNCHANGED db
    /\ Step(q, "committed")
    /\ UNCHANGED <<main, tasks, status, stat, collected, pub, history, budgets>>

Answer(q) ==
    /\ Alive
    /\ req[q].stage = "committed"
    /\ req' = [req EXCEPT ![q] = NoRequest]
    /\ UNCHANGED <<main, tasks, status, stat, lock, files, history, budgets>>

-----------------------------------------------------------------------------
(* CollectingData and GetStats: a commit of brigade.json, then one of      *)
(* stats.json.                                                             *)

StatAt(now, then) == Alive /\ stat = now /\ stat' = then

Timer ==
    /\ StatAt("select", "open")
    /\ db < MaxCommits
    /\ UNCHANGED <<main, tasks, status, req, lock, files, history, budgets>>

OpenStats ==
    /\ StatAt("open", "working")
    /\ lock = "none"
    /\ lock' = "stat"
    /\ UNCHANGED <<main, tasks, status, req, files, history, budgets>>

CommitStats ==
    /\ StatAt("working", "publish")
    /\ lock' = "none"
    /\ IF db < MaxCommits THEN db' = db + 1 ELSE UNCHANGED db
    /\ collected' = db'
    /\ UNCHANGED <<main, tasks, status, req, pub, history, budgets>>

Publish ==
    /\ StatAt("publish", "select")
    /\ pub' = collected
    /\ missed' = FALSE
    /\ UNCHANGED <<main, tasks, status, req, lock, db, collected, raced, budgets>>

(* Mutant: the collector ends when a collection fails.                     *)
CollectFailsForGood ==
    /\ StatAt("working", "ended")
    /\ lock' = "none"
    /\ Fault
    /\ UNCHANGED <<main, tasks, status, req, files, history>>

(* The endpoint or the commit: the error is printed and time goes on.      *)
CollectFails ==
    /\ StatAt("working", "select")
    /\ lock' = "none"
    /\ Fault
    /\ UNCHANGED <<main, tasks, status, req, files, history>>

PublishFails ==
    /\ StatAt("publish", "select")
    /\ missed' = TRUE
    /\ Fault
    /\ UNCHANGED <<main, tasks, status, req, lock, files, raced>>

-----------------------------------------------------------------------------
(* The tasks.                                                              *)

(* A server's Func returns early: the runner prints it, and nobody stops.  *)
ServeFails(s) ==
    /\ Alive
    /\ func[s] = "serving" /\ shut[s] = "wait"
    /\ func' = [func EXCEPT ![s] = "ended"]
    /\ err' = IF s \in Sharing THEN "other" ELSE err
    /\ Fault
    /\ UNCHANGED <<main, shut, reported, status, stat, req, lock, files, history>>

(* It returns ErrServerClosed once Shutdown has closed the listener.       *)
ServeEnds(s) ==
    /\ Alive
    /\ func[s] = "serving" /\ shut[s] # "wait"
    /\ func' = [func EXCEPT ![s] = "ended"]
    /\ err' = IF s \in Sharing THEN "other" ELSE err
    /\ NoFault
    /\ UNCHANGED <<main, shut, reported, status, stat, req, lock, files, history>>

Shut(t, now, then) == Alive /\ shut[t] = now /\ shut' = [shut EXCEPT ![t] = then]

(* http.Server.Shutdown closes the listener, ...                           *)
ShutdownBegins(s) ==
    /\ Stopping
    /\ Shut(s, "wait", "closing")
    /\ NoFault
    /\ UNCHANGED <<main, func, err, reported, status, stat, req, lock, files, history>>

(* ... and with connections at work and a context already cancelled gives  *)
(* up; the runner takes context.Canceled for no error.                     *)
Busy(s) == \E q \in Requests : req[q].at = s

(* Mutant: the runner reports context.Canceled too.                        *)
CanceledToo(e) == e # "nil"

Reportable(e) == e \notin {"nil", "canceled"}

Outcome(s) == IF Busy(s) THEN "canceled" ELSE "nil"

ShutdownReturns(s) ==
    /\ s \notin Sharing
    /\ Shut(s, "closing", "done")
    /\ reported' = reported \cup (IF Reportable(Outcome(s)) THEN {s} ELSE {})
    /\ NoFault
    /\ UNCHANGED <<main, func, err, status, stat, req, lock, files, history>>

(* if err = echoSrv.Shutdown(ctx); err != nil { return err }               *)
ShutdownAssigns(s) ==
    /\ s \in Sharing
    /\ Shut(s, "closing", "assigned")
    /\ err' = Outcome(s)
    /\ NoFault
    /\ UNCHANGED <<main, func, reported, status, stat, req, lock, files, history>>

ShutdownReads(s) ==
    /\ Shut(s, "assigned", "done")
    /\ reported' = reported \cup (IF Reportable(err) THEN {s} ELSE {})
    /\ raced' = (raced \/ err = "other")
    /\ NoFault
    /\ UNCHANGED <<main, func, err, status, stat, req, lock, files, missed>>

(* Mutant: statDone has a buffer.                                          *)
StatDoneBuffered ==
    /\ Stopping
    /\ Shut("stat", "wait", "done")
    /\ NoFault
    /\ UNCHANGED <<main, func, err, reported, status, stat, req, lock, files, history>>

(* statDone has no buffer: the send meets the collector at its select.     *)
StatDone ==
    /\ Stopping
    /\ Shut("stat", "wait", "done")
    /\ StatAt("select", "ended")
    /\ NoFault
    /\ UNCHANGED <<main, func, err, reported, status, req, lock, files, history>>

-----------------------------------------------------------------------------
(* main.                                                                   *)

Signal ==
    /\ main = "wait"
    /\ main' = "stop"
    /\ UNCHANGED <<tasks, status, stat, req, lock, files, history, budgets>>

(* Stop returns when every Shutdown has, with what they reported, ...       *)
Stop ==
    /\ main = "stop"
    /\ \A t \in Tasks : shut[t] = "done"
    /\ main' = "check"
    /\ UNCHANGED <<tasks, status, stat, req, lock, files, history, budgets>>

(* ... upon which main quits.  Whatever still runs is cut.                 *)
Exit ==
    /\ main = "check"
    /\ main' = "exit"
    /\ status' = IF reported = {} THEN "ok" ELSE "failed"
    /\ lock' = "none"
    /\ UNCHANGED <<tasks, stat, req, files, history, budgets>>

Kill ==
    /\ Alive
    /\ main' = "exit"
    /\ status' = "killed"
    /\ lock' = "none"
    /\ missed' = (missed \/ stat = "publish")
    /\ Fault
    /\ UNCHANGED <<tasks, stat, req, files, raced>>

Restart ==
    /\ main = "exit"
    /\ starts < MaxStarts
    /\ starts' = starts + 1
    /\ main' = "wait"
    /\ func' = [s \in Servers |-> "serving"]
    /\ shut' = [t \in Tasks |-> "wait"]
    /\ err' = "nil" /\ reported' = {} /\ status' = "none"
    /\ stat' = "select"
    /\ req' = [q \in Requests |-> NoRequest]
    /\ raced' = FALSE
    /\ UNCHANGED <<lock, files, missed, faults>>

-----------------------------------------------------------------------------
RequestStep(q) == OpenSession(q) \/ CommitSession(q) \/ Answer(q)

Collect == OpenStats \/ CommitStats \/ Publish \/ CollectFails \/ PublishFails

ServerStep(s) ==
    \/ ServeEnds(s) \/ ShutdownBegins(s) \/ ShutdownReturns(s)
    \/ ShutdownAssigns(s) \/ ShutdownReads(s)

Next ==
    \/ \E q \in Requests : Arrive(q) \/ RequestStep(q) \/ CallHangs(q) \/ CallReturns(q)
    \/ Timer \/ Collect \/ StatDone
    \/ \E s \in Servers : ServeFails(s) \/ ServerStep(s)
    \/ Signal \/ Stop \/ Exit \/ Kill \/ Restart

(* The goroutines of a live process go on, and a send meets its receiver.  *)
(* Requests, signals and the timer come when they come; a timer that has   *)
(* fired does not fire again for five minutes, for which MaxCommits stands. *)
(* A call of the shuffler's that hangs need never return (CallReturns).    *)
Fairness ==
    /\ \A q \in Requests : WF_vars(RequestStep(q))
    /\ WF_vars(Collect) /\ WF_vars(StatDone)
    /\ \A s \in Servers : WF_vars(ServerStep(s))
    /\ WF_vars(Stop) /\ WF_vars(Exit)

FairSpec == Init /\ [][Next]_vars /\ Fairness

-----------------------------------------------------------------------------
(* Properties.                                                             *)

Inside(q) == req[q].stage \in {"working", "hung"}

(* Every variable keeps its type; whoever has the database locked is at    *)
(* work in it.                                                             *)
TypeOK ==
    /\ main \in {"wait", "stop", "check", "exit"}
    /\ func \in [Servers -> {"serving", "ended"}]
    /\ shut \in [Tasks -> {"wait", "closing", "assigned", "done"}]
    /\ err \in {"nil", "canceled", "other"}
    /\ reported \subseteq Servers
    /\ status \in {"none", "ok", "failed", "killed"}
    /\ stat \in {"select", "open", "working", "publish", "ended"}
    /\ req \in [Requests -> Request]
    /\ db \in 0 .. MaxCommits /\ collected \in 0 .. db /\ pub \in 0 .. collected
    /\ raced \in BOOLEAN /\ missed \in BOOLEAN
    /\ faults \in 0 .. MaxFaults /\ starts \in 1 .. MaxStarts
    /\ Alive => lock = IF stat = "working" THEN "stat"
                       ELSE IF \E q \in Requests : Inside(q)
                       THEN CHOOSE q \in Requests : Inside(q)
                       ELSE "none"

(* What a collection has committed to brigade.json is published, unless    *)
(* the collection is about to, could not, or was killed before it could: a *)
(* stop on a signal never cuts it between its two commits.                 *)
StatsPublished == pub = collected \/ missed \/ (Alive /\ stat = "publish")

(* The exit status tells of a failure only if a shutdown really failed, or *)
(* if the shuffler's Shutdown read an err that its Func had written.       *)
NoFalseAlarm == status = "failed" => raced

(* The collector waits for a session whose call to the endpoint hangs.     *)
Hung == Alive /\ stat = "open" /\ \E q \in Requests : req[q].stage = "hung"

(* A signal ends the process, whatever is being served or collected, unless *)
(* a call of the shuffler's hangs for ever, with the collector behind it.   *)
StopEnds == (main = "stop" ~> main = "exit") \/ <>[]Hung

=============================================================================
