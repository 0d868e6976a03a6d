------------------------------- MODULE Traffic -------------------------------
(***************************************************************************)
(* The traffic counters of a brigade (keydesk/storage/stats.go).  Every    *)
(* collection is one session of module FileDb: it asks the endpoint for    *)
(* the cumulative counters of its peers, adds the growth since the last    *)
(* collection to the counters of each user, of all his protocols and of    *)
(* the brigade, and takes it off his monthly quota.                        *)
(*                                                                         *)
(* Time is the number of a day of module Calendar.  Received and sent      *)
(* traffic are one number.                                                 *)
(***************************************************************************)
EXTENDS Calendar

CONSTANTS
    User,
    Protocol,        \* WireGuard, IPSec, ...: each with counters of its own
    Limit,           \* MonthlyQuotaRemaining
    MaxDay,          \* bound: the last day
    MaxCollections,  \* bound: collections
    MaxTraffic,      \* bound: units of traffic
    MaxMishaps       \* bound: a user deleted, a peer restarted, the clock set back

ASSUME BrigadeAssumption == IsFiniteSet(User) /\ IsFiniteSet(Protocol)
ASSUME QuotaAssumption == Limit \in Nat
ASSUME BoundAssumption == {MaxDay, MaxCollections, MaxTraffic, MaxMishaps} \subseteq Nat

-----------------------------------------------------------------------------
(* DateSummaryNetCounters.                                                 *)

Fields == {"total", "yearly", "monthly", "weekly", "daily", "prevDay"}
Counters == [{"update"} \cup Fields -> Int]

NoCounters == [f \in {"update"} \cup Fields |-> IF f = "update" THEN Never ELSE 0]

Inc(c, fields, x) == [f \in DOMAIN c |-> IF f \in fields THEN c[f] + x ELSE c[f]]

\* Mutant: a new day is taken for the day after the last collection.
SwitchedDaily(c, t) == [c EXCEPT !.prevDay = c.daily, !.daily = 0]

\* incDateSwitchRelated: what is left of the counters on a day that is not that of
\* the last collection.
Switched(c, t) ==
    LET longGap  == Year(t) \notin {Year(c.update), Year(c.update) + 1}
        newMonth == Month(c.update) # Month(t)
        next     == AddMonth(c.update)
        monthGap == newMonth /\ ~SameMonth(next, t)
        lost     == longGap \/ monthGap
    IN [c EXCEPT
          !.yearly  = IF Year(c.update) = Year(t) THEN @ ELSE 0,
          !.monthly = IF newMonth \/ longGap THEN 0 ELSE @,
          !.weekly  = IF Week(c.update) = Week(t) THEN @ ELSE 0,
          !.prevDay = IF Day(c.update) = Day(t) THEN IF lost THEN 0 ELSE @
                      ELSE IF c.update + 1 = t /\ ~lost THEN c.daily ELSE 0,
          !.daily   = 0]

\* Mutant: a counter without traffic is left as it is.
CountedIfAny(c, t, x) ==
    IF t < c.update \/ x = 0 THEN c
    ELSE IF c.update = Never THEN [Inc(c, {"total"}, x) EXCEPT !.update = t]
    ELSE [Inc(IF c.update = t THEN c ELSE Switched(c, t), Fields \ {"prevDay"}, x)
            EXCEPT !.update = t]

\* incDateSwitchRelated.  The first time, only the total counts.
Counted(c, t, x) ==
    IF t < c.update THEN c
    ELSE IF c.update = Never THEN [Inc(c, {"total"}, x) EXCEPT !.update = t]
    ELSE [Inc(IF c.update = t THEN c ELSE Switched(c, t), Fields \ {"prevDay"}, x)
            EXCEPT !.update = t]

-----------------------------------------------------------------------------

VARIABLES
    clock,      \* the day it is
    users,      \* the users of the brigade
    meter,      \* external: meter[u][p], the endpoint's counter of a peer
    seen,       \* seen[u][p]: the endpoint's counter at the last collection
    count,      \* count[u][p]: the counters of a user's protocol
    userTotal,  \* userTotal[u]: Quotas.CountersTotal
    brigade,    \* TotalTraffic of the brigade
    remaining,  \* remaining[u]: LimitMonthlyRemaining
    resetOn,    \* resetOn[u]: LimitMonthlyResetOn
    passed,     \* history: passed[u][p], all the traffic of a peer
    log,        \* history: log[t], what the brigade counted on day t
    days,       \* history: the days of the collections the brigade counted
    collections, mishaps

endpointVars == <<meter, passed>>
quotaVars == <<seen, count, userTotal, remaining, resetOn>>
histVars == <<log, days>>
vars == <<clock, users, endpointVars, quotaVars, brigade, histVars,
          collections, mishaps>>

Mishap(kind) ==
    /\ kind \notin mishaps /\ Cardinality(mishaps) < MaxMishaps
    /\ mishaps' = mishaps \cup {kind}

ForAll(x) == [u \in User |-> [p \in Protocol |-> x]]

Init ==
    /\ clock = 0 /\ users = {}
    /\ meter = ForAll(0) /\ passed = ForAll(0)
    /\ seen = ForAll(0) /\ count = ForAll(NoCounters)
    /\ userTotal = [u \in User |-> NoCounters] /\ brigade = NoCounters
    /\ remaining = [u \in User |-> 0] /\ resetOn = [u \in User |-> 0]
    /\ log = [t \in 0 .. MaxDay |-> 0] /\ days = {}
    /\ collections = 0 /\ mishaps = {}

\* A user starts with counters that were never updated and a whole quota.
CreateUser(u) ==
    /\ u \notin users
    /\ users' = users \cup {u}
    /\ remaining' = [remaining EXCEPT ![u] = Limit]
    /\ resetOn' = [resetOn EXCEPT ![u] = NextMonthlyResetOn(clock)]
    /\ UNCHANGED <<clock, endpointVars, seen, count, userTotal, brigade, histVars,
                   collections, mishaps>>

\* The user's record is gone, and his peers with their counters.
DeleteUser(u) ==
    /\ u \in users /\ Mishap("deleted")
    /\ users' = users \ {u}
    /\ meter' = [meter EXCEPT ![u] = [p \in Protocol |-> 0]]
    /\ passed' = [passed EXCEPT ![u] = [p \in Protocol |-> 0]]
    /\ seen' = [seen EXCEPT ![u] = [p \in Protocol |-> 0]]
    /\ count' = [count EXCEPT ![u] = [p \in Protocol |-> NoCounters]]
    /\ userTotal' = [userTotal EXCEPT ![u] = NoCounters]
    /\ remaining' = [remaining EXCEPT ![u] = 0]
    /\ resetOn' = [resetOn EXCEPT ![u] = 0]
    /\ UNCHANGED <<clock, brigade, histVars, collections>>

Traffic == SumOver(User, [u \in User |-> SumOver(Protocol, passed[u])])

\* external: traffic of a peer.
Pass(u, p) ==
    /\ u \in users /\ Traffic < MaxTraffic
    /\ meter' = [meter EXCEPT ![u][p] = @ + 1]
    /\ passed' = [passed EXCEPT ![u][p] = @ + 1]
    /\ UNCHANGED <<clock, users, quotaVars, brigade, histVars, collections, mishaps>>

\* external: a peer that is deleted and added again counts from 0.
Restart(u) ==
    /\ u \in users /\ Mishap("restarted")
    /\ meter' = [meter EXCEPT ![u] = [p \in Protocol |-> 0]]
    /\ UNCHANGED <<clock, users, passed, quotaVars, brigade, histVars, collections>>

\* external: any number of days go by; the clock may also be set back.
Advance ==
    /\ \E t \in clock + 1 .. MaxDay : clock' = t
    /\ UNCHANGED <<users, endpointVars, quotaVars, brigade, histVars, collections, mishaps>>

ClockBack ==
    /\ Mishap("set back")
    /\ \E t \in 0 .. clock - 1 : clock' = t
    /\ UNCHANGED <<users, endpointVars, quotaVars, brigade, histVars, collections>>

-----------------------------------------------------------------------------
(* getStatsQuota and mergeStats.                                           *)

\* Mutant: the difference is taken without looking at its sign.
GrowthUnsigned(u, p) ==
    IF seen[u][p] <= meter[u][p] THEN meter[u][p] - seen[u][p] ELSE seen[u][p] - meter[u][p]

\* What handleTrafficStat takes for the growth of a counter.
Growth(u, p) == IF seen[u][p] <= meter[u][p] THEN meter[u][p] - seen[u][p] ELSE meter[u][p]

\* Mutant: what was spent before a reset is not taken off the new quota.
RemainingUncharged(u, spent) ==
    IF resetOn[u] <= clock THEN Limit
    ELSE IF remaining[u] >= spent THEN remaining[u] - spent ELSE 0

\* Mutant: a quota that is exceeded goes below zero.
RemainingUnderflows(u, spent) ==
    (IF resetOn[u] <= clock THEN Limit ELSE remaining[u]) - spent

\* LimitMonthlyRemaining; collections at the very moment of a reset are left out.
Remaining(u, spent) ==
    LET quota == IF resetOn[u] <= clock THEN Limit ELSE remaining[u] IN
    IF quota >= spent THEN quota - spent ELSE 0

\* listed: the peers' protocols in the endpoint's answer.
Collect(listed) ==
    LET growth(u, p) == IF <<u, p>> \in listed THEN Growth(u, p) ELSE 0
        spent(u) == SumOver(Protocol, [p \in Protocol |-> growth(u, p)])
        sum == SumOver(users, [u \in users |-> spent(u)])
    IN
    /\ collections < MaxCollections
    /\ count' = [u \in User |-> [p \in Protocol |->
                   IF u \in users THEN Counted(count[u][p], clock, growth(u, p)) ELSE count[u][p]]]
    /\ seen' = [u \in User |-> [p \in Protocol |->
                  IF <<u, p>> \in listed THEN meter[u][p] ELSE seen[u][p]]]
    /\ userTotal' = [u \in User |->
                       IF u \in users THEN Counted(userTotal[u], clock, spent(u)) ELSE userTotal[u]]
    /\ remaining' = [u \in User |-> IF u \in users THEN Remaining(u, spent(u)) ELSE remaining[u]]
    /\ resetOn' = [u \in User |-> IF u \in users /\ resetOn[u] <= clock
                                  THEN NextMonthlyResetOn(clock) ELSE resetOn[u]]
    /\ brigade' = Counted(brigade, clock, sum)
    /\ IF clock < brigade.update THEN UNCHANGED histVars
       ELSE /\ days' = days \cup {clock}
            /\ log' = IF brigade.update = Never THEN log ELSE [log EXCEPT ![clock] = @ + sum]
    /\ collections' = collections + 1
    /\ UNCHANGED <<clock, users, endpointVars, mishaps>>

Next ==
    \/ \E u \in User : CreateUser(u) \/ DeleteUser(u) \/ Restart(u)
    \/ \E u \in User, p \in Protocol : Pass(u, p)
    \/ Advance \/ ClockBack
    \/ \E listed \in SUBSET (users \X Protocol) : Collect(listed)

Spec == Init /\ [][Next]_vars

-----------------------------------------------------------------------------
(* Properties.                                                             *)

\* Every variable keeps its type.
TypeOK ==
    /\ clock \in 0 .. MaxDay /\ users \subseteq User
    /\ meter \in [User -> [Protocol -> Nat]] /\ passed \in [User -> [Protocol -> Nat]]
    /\ seen \in [User -> [Protocol -> Nat]]
    /\ count \in [User -> [Protocol -> Counters]]
    /\ userTotal \in [User -> Counters] /\ brigade \in Counters
    /\ remaining \in [User -> 0 .. Limit] /\ resetOn \in [User -> Nat]
    /\ log \in [0 .. MaxDay -> Nat] /\ days \subseteq 0 .. MaxDay
    /\ collections \in 0 .. MaxCollections
    /\ mishaps \subseteq {"deleted", "restarted", "set back"}

\* Traffic is never counted twice, whatever restarts and whatever the endpoint
\* leaves out of an answer; as long as nothing restarts and no clock is set back
\* all of it is counted that was seen.
CountedOnce ==
    \A u \in users, p \in Protocol :
        /\ count[u][p].total <= passed[u][p]
        /\ mishaps \subseteq {"deleted"} => count[u][p].total = seen[u][p]

\* The counters of a user are the sums of those of his protocols, period by
\* period, although each switches its periods by itself.
UserSums ==
    \A u \in users, f \in Fields :
        userTotal[u][f] = SumOver(Protocol, [p \in Protocol |-> count[u][p][f]])

NoClockSetBack == "set back" \notin mishaps

\* The brigade has counted, in every period, at least what its users have.  A clock
\* set back breaks it: a user created then is counted, the brigade is not.
BrigadeSums ==
    NoClockSetBack =>
        \A f \in Fields : SumOver(users, [u \in users |-> userTotal[u][f]]) <= brigade[f]

\* The counters of protocols, users and brigade add up, although each switches its
\* periods by its own time of update.
CountersAddUp == UserSums /\ BrigadeSums

Logged(T) == SumOver(T, log)

\* A counter of a period holds what was counted in the period of the last
\* collection, however long the time between two collections, but for a month when
\* the last collection was in the same month of the year before.
PeriodsExact ==
    LET u == brigade.update IN
    u # Never =>
      /\ brigade.daily  = log[u]
      /\ brigade.weekly = Logged({t \in 0 .. MaxDay : SameWeek(t, u)})
      /\ brigade.yearly = Logged({t \in 0 .. MaxDay : SameYear(t, u)})
      /\ (\A t \in days : Month(t) = Month(u) => Year(t) = Year(u))
            => brigade.monthly = Logged({t \in 0 .. MaxDay : SameMonth(t, u)})

\* The day of the last collection before that of the last one.
DayBefore == Max({t \in days : t < brigade.update})

Yesterday == IF brigade.update > 0 THEN log[brigade.update - 1] ELSE 0

\* prevDay is the traffic of yesterday: but not after the end of a month that is
\* longer than the next one, and not when the last day of a collection has the same
\* number in another month.
YesterdayKnown ==
    /\ brigade.update # Never
    /\ \E t \in days : t < brigade.update
    /\ Day(DayBefore) # Day(brigade.update)
    /\ Month(AddMonth(DayBefore)) = Month(NextMonthlyResetOn(DayBefore))
    => brigade.prevDay = Yesterday

\* The quota of a month is charged with no less than the month's traffic.
QuotaCharged ==
    NoClockSetBack /\ (\A t, s \in days : Month(t) = Month(s) => Year(t) = Year(s))
      => \A u \in users : Limit - userTotal[u].monthly >= remaining[u] \/ remaining[u] = 0

=============================================================================
