---------------------------- MODULE ProcessProofs ----------------------------
(***************************************************************************)
(* TLAPS proofs about Process, for any servers and clients: its types, the *)
(* publication of statistics, and what the exit status says.  StatsInv and *)
(* AlarmInv are what makes StatsPublished and NoFalseAlarm inductive: the  *)
(* Shutdown of the statistics is done only when the collector has ended,   *)
(* and a Shutdown reports an error only if it has read another's.          *)
(***************************************************************************)
EXTENDS Process, TLAPS

(* What each variable may be.                                              *)
Types ==
    /\ main \in {"wait", "stop", "check", "exit"}
    /\ func \in [Servers -> {"serving", "ended"}]
    /\ shut \in [Tasks -> {"wait", "closing", "assigned", "done"}]
    /\ err \in {"nil", "canceled", "other"}
    /\ reported \subseteq Servers
    /\ status \in {"none", "ok", "failed", "killed"}
    /\ stat \in {"select", "open", "working", "publish", "ended"}
    /\ req \in [Requests -> Request]
    /\ raced \in BOOLEAN /\ missed \in BOOLEAN
    /\ faults \in 0 .. MaxFaults /\ starts \in 1 .. MaxStarts

(* The versions: stats.json is made from what was collected.               *)
Versions == db \in 0 .. MaxCommits /\ collected \in 0 .. db /\ pub \in 0 .. collected

(* Who has the database locked, of those that could.                       *)
LockInv ==
    /\ lock \in Requests \cup {"none", "stat"}
    /\ ~Alive => lock = "none"
    /\ Alive => /\ lock = "stat" <=> stat = "working"
                /\ \A q \in Requests : lock = q <=> Inside(q)

(* main goes on when every Shutdown is done, that of the statistics when   *)
(* the collector has ended.                                                *)
StatsInv ==
    /\ Alive /\ shut["stat"] = "done" => stat = "ended"
    /\ main = "check" => shut["stat"] = "done"
    /\ StatsPublished

(* An error is reported only to a runner whose shuffler has raced.         *)
AlarmInv ==
    /\ reported # {} => raced
    /\ NoFalseAlarm

IInv == Types /\ Versions /\ LockInv /\ StatsInv /\ AlarmInv

-----------------------------------------------------------------------------
(* The parts of IInv, each kept by every step.                             *)

LEMMA NextCases ==
    ASSUME [Next]_vars
    PROVE  \/ \E q \in Requests : \/ Arrive(q) \/ OpenSession(q) \/ CommitSession(q) \/ Answer(q)
                                  \/ CallHangs(q) \/ CallReturns(q)
           \/ Timer \/ OpenStats \/ CommitStats \/ Publish \/ CollectFails \/ PublishFails
           \/ StatDone
           \/ \E s \in Servers : \/ ServeFails(s) \/ ServeEnds(s) \/ ShutdownBegins(s)
                                 \/ ShutdownReturns(s) \/ ShutdownAssigns(s) \/ ShutdownReads(s)
           \/ Signal \/ Stop \/ Exit \/ Kill \/ Restart
           \/ UNCHANGED vars
  BY DEF Next, RequestStep, Collect, ServerStep

LEMMA InitIInv == Init => IInv
  <1> SUFFICES ASSUME Init PROVE IInv
    OBVIOUS
  <1> USE ProcessAssumption DEF Init, Started
  <1>1. Types
    <2>1. req \in [Requests -> Request]
      BY DEF Request
    <2>2. starts \in 1 .. MaxStarts /\ faults \in 0 .. MaxFaults
      OBVIOUS
    <2>3. func \in [Servers -> {"serving", "ended"}]
      OBVIOUS
    <2>4. shut \in [Tasks -> {"wait", "closing", "assigned", "done"}]
      OBVIOUS
    <2> QED
      BY <2>1, <2>2, <2>3, <2>4 DEF Types
  <1>2. Versions
    BY DEF Versions
  <1>3. LockInv
    BY DEF LockInv, Inside, NoRequest, Alive
  <1>4. StatsInv
    BY DEF StatsInv, StatsPublished, Tasks
  <1>5. AlarmInv
    BY DEF AlarmInv, NoFalseAlarm
  <1> QED
    BY <1>1, <1>2, <1>3, <1>4, <1>5 DEF IInv

(* The types.                                                              *)
LEMMA TypesStep == IInv /\ [Next]_vars => Types'
  <1> SUFFICES ASSUME IInv, [Next]_vars PROVE Types'
    OBVIOUS
  <1> USE ProcessAssumption
     DEF IInv, Types, tasks, files, history, budgets, Fault, NoFault, Step,
         Shut, StatAt, Request, NoRequest, Tasks
  <1>1. ASSUME NEW q \in Requests, Arrive(q) PROVE Types'
    BY <1>1 DEF Arrive
  <1>2. ASSUME NEW q \in Requests, OpenSession(q) PROVE Types'
    BY <1>2 DEF OpenSession
  <1>3. ASSUME NEW q \in Requests, CommitSession(q) PROVE Types'
    BY <1>3 DEF CommitSession
  <1>4. ASSUME NEW q \in Requests, Answer(q) PROVE Types'
    BY <1>4 DEF Answer
  <1>5. CASE Timer
    BY <1>5 DEF Timer
  <1>6. CASE OpenStats
    BY <1>6 DEF OpenStats
  <1>7. CASE CommitStats
    BY <1>7 DEF CommitStats
  <1>8. CASE Publish
    BY <1>8 DEF Publish
  <1>9. CASE CollectFails
    BY <1>9 DEF CollectFails
  <1>10. CASE PublishFails
    BY <1>10 DEF PublishFails
  <1>11. CASE StatDone
    BY <1>11 DEF StatDone
  <1>12. ASSUME NEW s \in Servers, ServeFails(s) PROVE Types'
    BY <1>12 DEF ServeFails
  <1>13. ASSUME NEW s \in Servers, ServeEnds(s) PROVE Types'
    BY <1>13 DEF ServeEnds
  <1>14. ASSUME NEW s \in Servers, ShutdownBegins(s) PROVE Types'
    BY <1>14 DEF ShutdownBegins
  <1>15. ASSUME NEW s \in Servers, ShutdownReturns(s) PROVE Types'
    BY <1>15 DEF ShutdownReturns
  <1>16. ASSUME NEW s \in Servers, ShutdownAssigns(s) PROVE Types'
    BY <1>16 DEF ShutdownAssigns, Outcome
  <1>17. ASSUME NEW s \in Servers, ShutdownReads(s) PROVE Types'
    BY <1>17 DEF ShutdownReads
  <1>18. CASE Signal
    BY <1>18 DEF Signal
  <1>19. CASE Stop
    BY <1>19 DEF Stop
  <1>20. CASE Exit
    BY <1>20 DEF Exit
  <1>21. CASE Kill
    BY <1>21 DEF Kill
  <1>22. CASE Restart
    <2>1. req' \in [Requests -> Request]
      BY <1>22 DEF Restart
    <2>2. starts' \in 1 .. MaxStarts
      BY <1>22 DEF Restart
    <2>3. func' \in [Servers -> {"serving", "ended"}]
      BY <1>22 DEF Restart
    <2>4. shut' \in [Tasks -> {"wait", "closing", "assigned", "done"}]
      BY <1>22 DEF Restart
    <2> QED
      BY <1>22, <2>1, <2>2, <2>3, <2>4 DEF Restart
  <1>23. CASE UNCHANGED vars
    BY <1>23 DEF vars
  <1>24. ASSUME NEW q \in Requests, CallHangs(q) PROVE Types'
    BY <1>24 DEF CallHangs
  <1>25. ASSUME NEW q \in Requests, CallReturns(q) PROVE Types'
    BY <1>25 DEF CallReturns
  <1> QED
    BY NextCases, <1>1, <1>2, <1>3, <1>4, <1>5, <1>6, <1>7, <1>8, <1>9, <1>10,
       <1>11, <1>12,
       <1>13, <1>14, <1>15, <1>16, <1>17, <1>18, <1>19, <1>20, <1>21, <1>22, <1>23,
       <1>24, <1>25

(* The versions only grow, in their order.                                 *)
LEMMA VersionsStep == IInv /\ [Next]_vars => Versions'
  <1> SUFFICES ASSUME IInv, [Next]_vars PROVE Versions'
    OBVIOUS
  <1> USE ProcessAssumption
     DEF IInv, Types, Versions, tasks, files, history, budgets, Fault,
         NoFault, Shut, StatAt
  <1>1. ASSUME NEW q \in Requests, Arrive(q) PROVE Versions'
    BY <1>1 DEF Arrive
  <1>2. ASSUME NEW q \in Requests, OpenSession(q) PROVE Versions'
    BY <1>2 DEF OpenSession
  <1>3. ASSUME NEW q \in Requests, CommitSession(q) PROVE Versions'
    BY <1>3 DEF CommitSession
  <1>4. ASSUME NEW q \in Requests, Answer(q) PROVE Versions'
    BY <1>4 DEF Answer
  <1>5. CASE Timer
    BY <1>5 DEF Timer
  <1>6. CASE OpenStats
    BY <1>6 DEF OpenStats
  <1>7. CASE CommitStats
    BY <1>7 DEF CommitStats
  <1>8. CASE Publish
    BY <1>8 DEF Publish
  <1>9. CASE CollectFails
    BY <1>9 DEF CollectFails
  <1>10. CASE PublishFails
    BY <1>10 DEF PublishFails
  <1>11. CASE StatDone
    BY <1>11 DEF StatDone
  <1>12. ASSUME NEW s \in Servers, ServeFails(s) PROVE Versions'
    BY <1>12 DEF ServeFails
  <1>13. ASSUME NEW s \in Servers, ServeEnds(s) PROVE Versions'
    BY <1>13 DEF ServeEnds
  <1>14. ASSUME NEW s \in Servers, ShutdownBegins(s) PROVE Versions'
    BY <1>14 DEF ShutdownBegins
  <1>15. ASSUME NEW s \in Servers, ShutdownReturns(s) PROVE Versions'
    BY <1>15 DEF ShutdownReturns
  <1>16. ASSUME NEW s \in Servers, ShutdownAssigns(s) PROVE Versions'
    BY <1>16 DEF ShutdownAssigns
  <1>17. ASSUME NEW s \in Servers, ShutdownReads(s) PROVE Versions'
    BY <1>17 DEF ShutdownReads
  <1>18. CASE Signal
    BY <1>18 DEF Signal
  <1>19. CASE Stop
    BY <1>19 DEF Stop
  <1>20. CASE Exit
    BY <1>20 DEF Exit
  <1>21. CASE Kill
    BY <1>21 DEF Kill
  <1>22. CASE Restart
    BY <1>22 DEF Restart
  <1>23. CASE UNCHANGED vars
    BY <1>23 DEF vars
  <1>24. ASSUME NEW q \in Requests, CallHangs(q) PROVE Versions'
    BY <1>24 DEF CallHangs
  <1>25. ASSUME NEW q \in Requests, CallReturns(q) PROVE Versions'
    BY <1>25 DEF CallReturns
  <1> QED
    BY NextCases, <1>1, <1>2, <1>3, <1>4, <1>5, <1>6, <1>7, <1>8, <1>9, <1>10,
       <1>11, <1>12,
       <1>13, <1>14, <1>15, <1>16, <1>17, <1>18, <1>19, <1>20, <1>21, <1>22, <1>23,
       <1>24, <1>25

(* One session at a time: a client's or the collector's.                   *)
LEMMA LockStep == IInv /\ [Next]_vars => LockInv'
  <1> SUFFICES ASSUME IInv, [Next]_vars PROVE LockInv'
    OBVIOUS
  <1> USE ProcessAssumption
     DEF IInv, Types, LockInv, Inside, Alive, tasks, files, history, budgets, Fault,
         NoFault, Step, Shut, StatAt, Request, NoRequest
  <1>1. ASSUME NEW q \in Requests, Arrive(q) PROVE LockInv'
    BY <1>1 DEF Arrive
  <1>2. ASSUME NEW q \in Requests, OpenSession(q) PROVE LockInv'
    BY <1>2 DEF OpenSession
  <1>3. ASSUME NEW q \in Requests, CommitSession(q) PROVE LockInv'
    BY <1>3 DEF CommitSession
  <1>4. ASSUME NEW q \in Requests, Answer(q) PROVE LockInv'
    BY <1>4 DEF Answer
  <1>5. CASE Timer
    BY <1>5 DEF Timer
  <1>6. CASE OpenStats
    BY <1>6 DEF OpenStats
  <1>7. CASE CommitStats
    BY <1>7 DEF CommitStats
  <1>8. CASE Publish
    BY <1>8 DEF Publish
  <1>9. CASE CollectFails
    BY <1>9 DEF CollectFails
  <1>10. CASE PublishFails
    BY <1>10 DEF PublishFails
  <1>11. CASE StatDone
    BY <1>11 DEF StatDone
  <1>12. ASSUME NEW s \in Servers, ServeFails(s) PROVE LockInv'
    BY <1>12 DEF ServeFails
  <1>13. ASSUME NEW s \in Servers, ServeEnds(s) PROVE LockInv'
    BY <1>13 DEF ServeEnds
  <1>14. ASSUME NEW s \in Servers, ShutdownBegins(s) PROVE LockInv'
    BY <1>14 DEF ShutdownBegins
  <1>15. ASSUME NEW s \in Servers, ShutdownReturns(s) PROVE LockInv'
    BY <1>15 DEF ShutdownReturns
  <1>16. ASSUME NEW s \in Servers, ShutdownAssigns(s) PROVE LockInv'
    BY <1>16 DEF ShutdownAssigns
  <1>17. ASSUME NEW s \in Servers, ShutdownReads(s) PROVE LockInv'
    BY <1>17 DEF ShutdownReads
  <1>18. CASE Signal
    BY <1>18 DEF Signal
  <1>19. CASE Stop
    BY <1>19 DEF Stop
  <1>20. CASE Exit
    BY <1>20 DEF Exit
  <1>21. CASE Kill
    BY <1>21 DEF Kill
  <1>22. CASE Restart
    BY <1>22 DEF Restart
  <1>23. CASE UNCHANGED vars
    BY <1>23 DEF vars
  <1>24. ASSUME NEW q \in Requests, CallHangs(q) PROVE LockInv'
    BY <1>24 DEF CallHangs
  <1>25. ASSUME NEW q \in Requests, CallReturns(q) PROVE LockInv'
    BY <1>25 DEF CallReturns
  <1> QED
    BY NextCases, <1>1, <1>2, <1>3, <1>4, <1>5, <1>6, <1>7, <1>8, <1>9, <1>10,
       <1>11, <1>12,
       <1>13, <1>14, <1>15, <1>16, <1>17, <1>18, <1>19, <1>20, <1>21, <1>22, <1>23,
       <1>24, <1>25

(* The collector ends between two collections.                             *)
LEMMA StatsStep == IInv /\ [Next]_vars => StatsInv'
  <1> SUFFICES ASSUME IInv, [Next]_vars PROVE StatsInv'
    OBVIOUS
  <1> USE ProcessAssumption
     DEF IInv, Types, StatsInv, StatsPublished, Alive, tasks, files, history,
         budgets, Fault, NoFault, Shut, StatAt, Tasks, AllServers
  <1>1. ASSUME NEW q \in Requests, Arrive(q) PROVE StatsInv'
    BY <1>1 DEF Arrive
  <1>2. ASSUME NEW q \in Requests, OpenSession(q) PROVE StatsInv'
    BY <1>2 DEF OpenSession
  <1>3. ASSUME NEW q \in Requests, CommitSession(q) PROVE StatsInv'
    BY <1>3 DEF CommitSession
  <1>4. ASSUME NEW q \in Requests, Answer(q) PROVE StatsInv'
    BY <1>4 DEF Answer
  <1>5. CASE Timer
    BY <1>5 DEF Timer
  <1>6. CASE OpenStats
    BY <1>6 DEF OpenStats
  <1>7. CASE CommitStats
    BY <1>7 DEF CommitStats
  <1>8. CASE Publish
    BY <1>8 DEF Publish
  <1>9. CASE CollectFails
    BY <1>9 DEF CollectFails
  <1>10. CASE PublishFails
    BY <1>10 DEF PublishFails
  <1>11. CASE StatDone
    BY <1>11 DEF StatDone
  <1>12. ASSUME NEW s \in Servers, ServeFails(s) PROVE StatsInv'
    BY <1>12 DEF ServeFails
  <1>13. ASSUME NEW s \in Servers, ServeEnds(s) PROVE StatsInv'
    BY <1>13 DEF ServeEnds
  <1>14. ASSUME NEW s \in Servers, ShutdownBegins(s) PROVE StatsInv'
    BY <1>14 DEF ShutdownBegins
  <1>15. ASSUME NEW s \in Servers, ShutdownReturns(s) PROVE StatsInv'
    BY <1>15 DEF ShutdownReturns
  <1>16. ASSUME NEW s \in Servers, ShutdownAssigns(s) PROVE StatsInv'
    BY <1>16 DEF ShutdownAssigns
  <1>17. ASSUME NEW s \in Servers, ShutdownReads(s) PROVE StatsInv'
    BY <1>17 DEF ShutdownReads
  <1>18. CASE Signal
    BY <1>18 DEF Signal
  <1>19. CASE Stop
    BY <1>19 DEF Stop
  <1>20. CASE Exit
    BY <1>20 DEF Exit
  <1>21. CASE Kill
    BY <1>21 DEF Kill
  <1>22. CASE Restart
    BY <1>22 DEF Restart
  <1>23. CASE UNCHANGED vars
    BY <1>23 DEF vars
  <1>24. ASSUME NEW q \in Requests, CallHangs(q) PROVE StatsInv'
    BY <1>24 DEF CallHangs
  <1>25. ASSUME NEW q \in Requests, CallReturns(q) PROVE StatsInv'
    BY <1>25 DEF CallReturns
  <1> QED
    BY NextCases, <1>1, <1>2, <1>3, <1>4, <1>5, <1>6, <1>7, <1>8, <1>9, <1>10,
       <1>11, <1>12,
       <1>13, <1>14, <1>15, <1>16, <1>17, <1>18, <1>19, <1>20, <1>21, <1>22, <1>23,
       <1>24, <1>25

(* What is reported, and why.                                              *)
LEMMA AlarmStep == IInv /\ [Next]_vars => AlarmInv'
  <1> SUFFICES ASSUME IInv, [Next]_vars PROVE AlarmInv'
    OBVIOUS
  <1> USE ProcessAssumption
     DEF IInv, Types, AlarmInv, NoFalseAlarm, tasks, files, history, budgets,
         Fault, NoFault, Shut, StatAt
  <1>1. ASSUME NEW q \in Requests, Arrive(q) PROVE AlarmInv'
    BY <1>1 DEF Arrive
  <1>2. ASSUME NEW q \in Requests, OpenSession(q) PROVE AlarmInv'
    BY <1>2 DEF OpenSession
  <1>3. ASSUME NEW q \in Requests, CommitSession(q) PROVE AlarmInv'
    BY <1>3 DEF CommitSession
  <1>4. ASSUME NEW q \in Requests, Answer(q) PROVE AlarmInv'
    BY <1>4 DEF Answer
  <1>5. CASE Timer
    BY <1>5 DEF Timer
  <1>6. CASE OpenStats
    BY <1>6 DEF OpenStats
  <1>7. CASE CommitStats
    BY <1>7 DEF CommitStats
  <1>8. CASE Publish
    BY <1>8 DEF Publish
  <1>9. CASE CollectFails
    BY <1>9 DEF CollectFails
  <1>10. CASE PublishFails
    BY <1>10 DEF PublishFails
  <1>11. CASE StatDone
    BY <1>11 DEF StatDone
  <1>12. ASSUME NEW s \in Servers, ServeFails(s) PROVE AlarmInv'
    BY <1>12 DEF ServeFails
  <1>13. ASSUME NEW s \in Servers, ServeEnds(s) PROVE AlarmInv'
    BY <1>13 DEF ServeEnds
  <1>14. ASSUME NEW s \in Servers, ShutdownBegins(s) PROVE AlarmInv'
    BY <1>14 DEF ShutdownBegins
  <1>15. ASSUME NEW s \in Servers, ShutdownReturns(s) PROVE AlarmInv'
    BY <1>15 DEF ShutdownReturns, Outcome, Reportable
  <1>16. ASSUME NEW s \in Servers, ShutdownAssigns(s) PROVE AlarmInv'
    BY <1>16 DEF ShutdownAssigns
  <1>17. ASSUME NEW s \in Servers, ShutdownReads(s) PROVE AlarmInv'
    BY <1>17 DEF ShutdownReads, Outcome, Reportable
  <1>18. CASE Signal
    BY <1>18 DEF Signal
  <1>19. CASE Stop
    BY <1>19 DEF Stop
  <1>20. CASE Exit
    BY <1>20 DEF Exit
  <1>21. CASE Kill
    BY <1>21 DEF Kill
  <1>22. CASE Restart
    BY <1>22 DEF Restart
  <1>23. CASE UNCHANGED vars
    BY <1>23 DEF vars
  <1>24. ASSUME NEW q \in Requests, CallHangs(q) PROVE AlarmInv'
    BY <1>24 DEF CallHangs
  <1>25. ASSUME NEW q \in Requests, CallReturns(q) PROVE AlarmInv'
    BY <1>25 DEF CallReturns
  <1> QED
    BY NextCases, <1>1, <1>2, <1>3, <1>4, <1>5, <1>6, <1>7, <1>8, <1>9, <1>10,
       <1>11, <1>12,
       <1>13, <1>14, <1>15, <1>16, <1>17, <1>18, <1>19, <1>20, <1>21, <1>22, <1>23,
       <1>24, <1>25

-----------------------------------------------------------------------------
(* The theorems.                                                           *)

(* IInv is an invariant of keydesk's process.                              *)
THEOREM Invariance == FairSpec => []IInv
  <1>1. IInv /\ [Next]_vars => IInv'
    BY TypesStep, VersionsStep, LockStep, StatsStep, AlarmStep DEF IInv
  <1> QED
    BY InitIInv, <1>1, PTL DEF FairSpec

(* Every variable of the process keeps its type, and whoever has           *)
(* brigade.json locked is at work in it.                                   *)
THEOREM TypeCorrect == FairSpec => []TypeOK
  <1>1. IInv => TypeOK
    <2> SUFFICES ASSUME IInv PROVE TypeOK
      OBVIOUS
    <2>1. ASSUME Alive
          PROVE  lock = IF stat = "working" THEN "stat"
                        ELSE IF \E q \in Requests : Inside(q)
                        THEN CHOOSE q \in Requests : Inside(q)
                        ELSE "none"
      BY <2>1 DEF IInv, LockInv
    <2> QED
      BY <2>1 DEF IInv, Types, Versions, TypeOK
  <1> QED
    BY Invariance, <1>1, PTL

(* What a collection has committed to brigade.json is published, unless    *)
(* the collection is about to, could not, or was killed before it could:   *)
(* the send on statDone never cuts a collection between its commits.       *)
THEOREM CollectionsArePublished == FairSpec => []StatsPublished
  <1>1. IInv => StatsPublished
    BY DEF IInv, StatsInv
  <1> QED
    BY Invariance, <1>1, PTL

(* keydesk exits with a failure only if the shuffler's Shutdown has read   *)
(* the err that its Func had written.                                      *)
THEOREM AlarmsAreTrue == FairSpec => []NoFalseAlarm
  <1>1. IInv => NoFalseAlarm
    BY DEF IInv, AlarmInv
  <1> QED
    BY Invariance, <1>1, PTL

=============================================================================
