------------------------------ MODULE Activity ------------------------------
(***************************************************************************)
(* The activity of users in the statistics (keydesk/storage/stats.go), and *)
(* the counters of past months (keydesk/storage/types.go).  A collection   *)
(* asks the endpoint when it has last seen each peer and where, and marks  *)
(* for each protocol, and for the user, the last activity of the day, the  *)
(* week, the month and the year; it counts the users who were active, and  *)
(* keeps the networks they came from.  The counters go to a stack with an  *)
(* entry for every month, which the dashboard shows.                       *)
(*                                                                         *)
(* The endpoint is another host and has a clock of its own.  Time is the   *)
(* number of a day of module Calendar.                                     *)
(***************************************************************************)
EXTENDS Calendar

CONSTANTS
    User,
    Protocol,
    Network,         \* the networks users come from
    NoNetwork,
    MaxInactive,     \* MaxUserInctivityPeriod, in days
    EndpointsTTL,    \* in days
    MaxDay,          \* bound: the last day
    MaxCollections,  \* bound: collections
    MaxUses,         \* bound: activities of peers
    MaxMishaps       \* bound: a user deleted, a peer restarted, a clock set back

ASSUME ActivityAssumption ==
    /\ IsFiniteSet(User) /\ IsFiniteSet(Protocol) /\ Protocol # {}
    /\ NoNetwork \notin Network
    /\ {MaxInactive, EndpointsTTL, MaxDay, MaxCollections, MaxUses, MaxMishaps} \subseteq Nat

-----------------------------------------------------------------------------
(* LastActivityPoints.                                                     *)

Periods == {"yearly", "monthly", "weekly", "daily"}
Points == {"update", "total", "prevMonthly"} \cup Periods
Time == 0 .. MaxDay
Marks == [Points -> Time \cup {Never}]

NoMarks == [f \in Points |-> Never]

Same(f, t, s) == CASE f = "yearly"  -> SameYear(t, s)
                   [] f = "monthly" -> SameMonth(t, s)
                   [] f = "weekly"  -> SameWeek(t, s)
                   [] OTHER         -> t = s

\* Follows from CalendarAssumption: CalendarIsRight of module TrafficProofs.
ASSUME PeriodAssumption == CalendarGoesOn(Time)

\* The mark of period f: the last activity when that is in the period of now and
\* not older than the mark, and else what is left of the mark.
Marked(f, m, now, last) ==
    IF Same(f, last, now) /\ (last = now \/ last > m[f] \/ f = "weekly") THEN last
    ELSE IF m[f] # Never /\ Same(f, m[f], now) THEN m[f] ELSE Never

\* The mark of the month before, on a day that is not that of the last activity.
MarkedBefore(m, now) ==
    LET inPrev(t) == t # Never /\ SameMonth(t, SubMonth(now)) IN
    IF inPrev(m.monthly) /\ Month(m.monthly) # Month(now) THEN m.monthly
    ELSE IF inPrev(m.prevMonthly) THEN m.prevMonthly ELSE Never

\* Mutant: what the endpoint does not know is taken for no activity.
MarkForgets(now, seen, m) ==
    IF now < m.update THEN m
    ELSE [f \in Points |->
            CASE f = "update"      -> now
              [] f = "total"       -> seen
              [] f = "prevMonthly" -> IF seen = now THEN m[f] ELSE MarkedBefore(m, now)
              [] OTHER             -> Marked(f, m, now, seen)]

\* Mutant: without news of the peer the marks stay as they are.
MarkSleeps(now, seen, m) ==
    IF now < m.update THEN m
    ELSE IF seen = Never THEN [m EXCEPT !.update = now]
    ELSE [f \in Points |->
            CASE f = "update"      -> now
              [] f = "total"       -> seen
              [] f = "prevMonthly" -> IF seen = now THEN m[f] ELSE MarkedBefore(m, now)
              [] OTHER             -> Marked(f, m, now, seen)]

\* lastActivityMark.  A peer the endpoint has not seen since it restarted keeps its
\* last activity; without any the marks stay empty.
Mark(now, seen, m) ==
    LET last == IF seen = Never THEN m.total ELSE seen IN
    IF now < m.update THEN m
    ELSE IF last = Never THEN [m EXCEPT !.update = now]
    ELSE [f \in Points |->
            CASE f = "update"      -> now
              [] f = "total"       -> last
              [] f = "prevMonthly" -> IF last = now THEN m[f] ELSE MarkedBefore(m, now)
              [] OTHER             -> Marked(f, m, now, last)]

-----------------------------------------------------------------------------
(* StatsCountersStack: an entry for each month of a year.                  *)

StackSize == Cardinality(Months)
Stack == 1 .. StackSize

Entries == [time : Time \cup {Never}, active : Nat, traffic : Nat]
NoEntry == [time |-> Never, active |-> 0, traffic |-> 0]

\* Mutant: the new entry goes on from the last one.
PutCarriesOn(s, now, active, traffic) ==
    LET last == s[StackSize].time
        shifted == IF last # Never /\ ~SameMonth(last, now)
                   THEN [i \in Stack |-> IF i = StackSize THEN s[i] ELSE s[i + 1]]
                   ELSE s
    IN [shifted EXCEPT ![StackSize] =
          [time |-> now, active |-> active, traffic |-> @.traffic + traffic]]

\* Put: a new month shifts the stack.
Put(s, now, active, traffic) ==
    LET last == s[StackSize].time
        shifted == IF last # Never /\ ~SameMonth(last, now)
                   THEN [i \in Stack |-> IF i = StackSize THEN NoEntry ELSE s[i + 1]]
                   ELSE s
    IN [shifted EXCEPT ![StackSize] =
          [time |-> now, active |-> active, traffic |-> @.traffic + traffic]]

\* The months GetUsersStats shows: an entry that is not used has the month after
\* that of the one before, and the first that after the last.
MonthsShown(s) ==
    LET monthOf(i) == IF s[i].time = Never THEN 1 ELSE Month(s[i].time)
        shown[i \in 0 .. StackSize] ==
            IF i = 0 THEN monthOf(StackSize)
            ELSE IF s[i].time = Never THEN (shown[i - 1] % StackSize) + 1
            ELSE monthOf(i)
    IN [i \in Stack |-> shown[i]]

-----------------------------------------------------------------------------

VARIABLES
    clock,      \* the day it is on the brigade's host
    there,      \* external: the day it is on the endpoint
    users,
    lastSeen,   \* external: lastSeen[u][p], when the endpoint last saw a peer
    place,      \* external: place[u][p], the network where it saw it
    marks,      \* marks[u][p]: LastWgActivity, LastIPSecActivity, ...
    userMarks,  \* userMarks[u]: LastActivity
    newest,     \* LastActivity of the brigade
    networks,   \* Endpoints: networks[n], or Never when n is not listed
    stack,      \* StatsCountersStack
    log,        \* history: log[t], the traffic collected in the month that starts on day t
    visited,    \* history: visited[n], the last activity from a network
    collections, uses, mishaps

endpointVars == <<there, lastSeen, place, visited>>
markVars == <<marks, userMarks, newest>>
statVars == <<networks, stack, log>>
boundVars == <<collections, uses, mishaps>>
vars == <<clock, users, endpointVars, markVars, statVars, boundVars>>

Mishap(kind) ==
    /\ kind \notin mishaps /\ Cardinality(mishaps) < MaxMishaps
    /\ mishaps' = mishaps \cup {kind}

PerPeer(x) == [u \in User |-> [p \in Protocol |-> x]]

Init ==
    /\ clock = 0 /\ there = 0 /\ users = {}
    /\ lastSeen = PerPeer(Never) /\ place = PerPeer(NoNetwork)
    /\ marks = PerPeer(NoMarks) /\ userMarks = [u \in User |-> NoMarks]
    /\ newest = Never
    /\ networks = [n \in Network |-> Never] /\ visited = [n \in Network |-> Never]
    /\ stack = [i \in Stack |-> NoEntry] /\ log = [t \in Time |-> 0]
    /\ collections = 0 /\ uses = 0 /\ mishaps = {}

CreateUser(u) ==
    /\ u \notin users
    /\ users' = users \cup {u}
    /\ UNCHANGED <<clock, endpointVars, markVars, statVars, boundVars>>

\* The user's record is gone, and his peers; his networks stay for their time.
DeleteUser(u) ==
    /\ u \in users /\ Mishap("deleted")
    /\ users' = users \ {u}
    /\ lastSeen' = [lastSeen EXCEPT ![u] = [p \in Protocol |-> Never]]
    /\ place' = [place EXCEPT ![u] = [p \in Protocol |-> NoNetwork]]
    /\ marks' = [marks EXCEPT ![u] = [p \in Protocol |-> NoMarks]]
    /\ userMarks' = [userMarks EXCEPT ![u] = NoMarks]
    /\ UNCHANGED <<clock, there, visited, newest, statVars, collections, uses>>

\* external: a user is active.
Use(u, p, n) ==
    /\ u \in users /\ uses < MaxUses /\ <<lastSeen[u][p], place[u][p]>> # <<there, n>>
    /\ lastSeen' = [lastSeen EXCEPT ![u][p] = there]
    /\ place' = [place EXCEPT ![u][p] = n]
    /\ visited' = [visited EXCEPT ![n] = Max({@, there})]
    /\ uses' = uses + 1
    /\ UNCHANGED <<clock, there, users, markVars, statVars, collections, mishaps>>

\* external: a peer that is added again has never been seen.
Restart(u) ==
    /\ u \in users /\ Mishap("restarted")
    /\ lastSeen' = [lastSeen EXCEPT ![u] = [p \in Protocol |-> Never]]
    /\ place' = [place EXCEPT ![u] = [p \in Protocol |-> NoNetwork]]
    /\ UNCHANGED <<clock, there, visited, users, markVars, statVars, collections, uses>>

\* external: any number of days go by on both hosts.
Advance ==
    /\ \E d \in 1 .. MaxDay :
          /\ clock' = clock + d /\ clock' <= MaxDay
          /\ there' = there + d /\ there' <= MaxDay
    /\ UNCHANGED <<users, lastSeen, place, visited, markVars, statVars, boundVars>>

\* external: the clock of one of the hosts is set.
SetClock ==
    \/ /\ Mishap("host") /\ \E t \in Time : clock' = t
       /\ UNCHANGED <<users, endpointVars, markVars, statVars, collections, uses>>
    \/ /\ Mishap("endpoint") /\ \E t \in Time : there' = t
       /\ UNCHANGED <<clock, users, lastSeen, place, visited, markVars, statVars,
                      collections, uses>>

\* Mutant: the networks are swept before the answer is looked at.
ListedSweptFirst(seen, from) ==
    [n \in Network |->
       LET kept == IF networks[n] < clock - EndpointsTTL THEN Never ELSE networks[n]
       IN Max({kept} \cup {seen[q] : q \in {r \in DOMAIN seen : from[r] = n}})]

\* The networks in an answer, and those before whose time is not over.
Listed(seen, from) ==
    [n \in Network |->
       LET last == Max({networks[n]} \cup {seen[q] : q \in {r \in DOMAIN seen : from[r] = n}})
       IN IF last < clock - EndpointsTTL THEN Never ELSE last]

Active(t) == t # Never /\ t > clock - MaxInactive

\* mergeStats.  The endpoint's answer may lack peers; each it has brings a unit of
\* traffic.
Collect(listed) ==
    LET traffic == Cardinality(listed)
        seen == [q \in users \X Protocol |->
                   IF q \in listed THEN lastSeen[q[1]][q[2]] ELSE Never]
        from == [q \in users \X Protocol |->
                   IF q \in listed THEN place[q[1]][q[2]] ELSE NoNetwork]
        last(u) == Max({userMarks[u].total} \cup {seen[<<u, p>>] : p \in Protocol})
    IN
    /\ collections < MaxCollections
    /\ marks' = [u \in User |-> [p \in Protocol |->
                   IF u \in users THEN Mark(clock, seen[<<u, p>>], marks[u][p]) ELSE marks[u][p]]]
    /\ userMarks' = [u \in User |->
                       IF u \in users THEN Mark(clock, last(u), userMarks[u]) ELSE userMarks[u]]
    /\ newest' = Max({newest} \cup {last(u) : u \in users})
    /\ networks' = Listed(seen, from)
    /\ stack' = Put(stack, there, Cardinality({u \in users : Active(userMarks'[u].total)}), traffic)
    /\ log' = [log EXCEPT ![MonthStart(there)] = @ + traffic]
    /\ collections' = collections + 1
    /\ UNCHANGED <<clock, users, endpointVars, uses, mishaps>>

Next ==
    \/ \E u \in User : CreateUser(u) \/ DeleteUser(u) \/ Restart(u)
    \/ \E u \in User, p \in Protocol, n \in Network : Use(u, p, n)
    \/ Advance \/ SetClock
    \/ \E listed \in SUBSET (users \X Protocol) : Collect(listed)

Spec == Init /\ [][Next]_vars

-----------------------------------------------------------------------------
(* Properties.                                                             *)

AllMarks(u) == {userMarks[u]} \cup {marks[u][p] : p \in Protocol}

NothingLeft ==
    \A u \in User \ users : /\ AllMarks(u) = {NoMarks}
                            /\ \A p \in Protocol : lastSeen[u][p] = Never

\* Every variable keeps its type, and nothing is left of a user who is gone.
TypeOK ==
    /\ {clock, there} \subseteq Time /\ users \subseteq User
    /\ lastSeen \in [User -> [Protocol -> Time \cup {Never}]]
    /\ place \in [User -> [Protocol -> Network \cup {NoNetwork}]]
    /\ marks \in [User -> [Protocol -> Marks]] /\ userMarks \in [User -> Marks]
    /\ newest \in Time \cup {Never}
    /\ {networks, visited} \subseteq [Network -> Time \cup {Never}]
    /\ stack \in [Stack -> Entries] /\ log \in [Time -> Nat]
    /\ collections \in 0 .. MaxCollections /\ uses \in 0 .. MaxUses
    /\ mishaps \subseteq {"deleted", "restarted", "host", "endpoint"}
    /\ NothingLeft

\* No clock was set.
Straight == {"host", "endpoint"} \cap mishaps = {}

\* The marks of periods are in the period of the last collection.
InPeriod(m) == \A f \in Periods : m[f] # Never => Same(f, m[f], m.update)

\* They are the last activity when that is in the period, and else empty.
Exact(m) ==
    \A f \in Periods : m[f] = IF m.total # Never /\ Same(f, m.total, m.update)
                             THEN m.total ELSE Never

\* Whatever the endpoint forgets or leaves out, and however long the time between
\* two collections, the mark of a period is in the period of the last collection;
\* and it is the last activity whenever that is in it, but when a clock was set.
\* So a user is shown as inactive if and only if he was not seen this month.
MarksExact ==
    \A u \in users : \A m \in AllMarks(u) : InPeriod(m) /\ (Straight => Exact(m))

\* The brigade's last activity is no older than any user's, and a user's no older
\* than that of any of his protocols, although each is marked by itself; and it is
\* that of one of them, but when a clock was set.
ActivityAddsUp ==
    \A u \in users :
        LET totals == {marks[u][p].total : p \in Protocol} IN
        /\ newest >= userMarks[u].total
        /\ \A t \in totals : userMarks[u].total >= t
        /\ Straight => userMarks[u].total \in totals

\* A user's last activity is never forgotten or dated back.
NothingForgotten ==
    [][\A u \in users \cap users' :
          /\ userMarks'[u].total >= userMarks[u].total
          /\ Straight' => \A p \in Protocol : marks'[u][p].total >= marks[u][p].total]_vars

\* A collection counts the users that were active with any of their protocols.
CountsActive ==
    collections' # collections /\ Straight =>
        stack'[StackSize].active =
           Cardinality({u \in users : \E p \in Protocol : Active(marks'[u][p].total)})

ActiveCounted == [][CountsActive]_vars

\* What collections rely on: while no clock was set both hosts have the same time,
\* nothing is of tomorrow, and what the endpoint knows is not older than the marks.
\* A user's marks are always updated together, and are empty without any activity.
ClockInv ==
    /\ \A u \in User : \A p \in Protocol : marks[u][p].update = userMarks[u].update
    /\ \A u \in User : \A m \in AllMarks(u) :
          m.total = Never => \A f \in Periods : m[f] = Never
    /\ Straight =>
          /\ there = clock
          /\ \A u \in User : \A m \in AllMarks(u) : m.update <= clock /\ m.total <= clock
          /\ \A u \in User : \A p \in Protocol :
                lastSeen[u][p] # Never => marks[u][p].total <= lastSeen[u][p]
                                          /\ lastSeen[u][p] <= clock

\* The endpoint's clock was not set.
EndpointStraight == "endpoint" \notin mishaps

\* The entries of the stack are of different months, in order, without a hole, and
\* each has the traffic of its month, unless the endpoint's clock was set.
StackExact ==
    EndpointStraight =>
        \A i \in Stack : stack[i].time # Never =>
            /\ stack[i].traffic = log[MonthStart(stack[i].time)]
            /\ \A j \in i + 1 .. StackSize :
                  /\ stack[j].time # Never
                  /\ MonthStart(stack[i].time) < MonthStart(stack[j].time)

\* When no month was missed, the dashboard shows the months of a year in order.
MonthsInOrder ==
    (\A i \in 1 .. StackSize - 1 : stack[i].time # Never =>
        SameMonth(stack[i + 1].time, NextMonthlyResetOn(stack[i].time)))
    => \A i \in 1 .. StackSize - 1 :
          MonthsShown(stack)[i + 1] = (MonthsShown(stack)[i] % StackSize) + 1

\* The counters of past months are those of their months, and are shown as such.
PastMonthsRight == StackExact /\ MonthsInOrder

\* What Put relies on: an entry that is not used is empty and has no used one before
\* it and, unless the endpoint's clock was set, no entry is of tomorrow and nothing
\* was collected after the month of the last.
StackInv ==
    /\ \A i \in Stack :
          IF stack[i].time = Never THEN stack[i] = NoEntry
          ELSE \A j \in i + 1 .. StackSize : stack[j].time # Never
    /\ EndpointStraight =>
          LET last == stack[StackSize].time IN
          /\ \A i \in Stack : stack[i].time <= there
          /\ \A m \in Time : last = Never \/ MonthStart(last) < m => log[m] = 0

\* The networks are listed, and known to the endpoint, with times when somebody was
\* active there.
NetworkInv ==
    /\ \A n \in Network : networks[n] <= visited[n]
    /\ \A u \in User : \A p \in Protocol : lastSeen[u][p] # Never =>
          place[u][p] \in Network /\ lastSeen[u][p] <= visited[place[u][p]]

IInv == /\ TypeOK /\ ClockInv /\ MarksExact /\ ActivityAddsUp
        /\ StackExact /\ StackInv /\ NetworkInv

\* A network is listed only with a time when somebody was active there, and it is not
\* kept beyond its time.
NetworksVisited ==
    [][collections' # collections =>
          \A n \in Network : networks'[n] # Never =>
              clock - EndpointsTTL <= networks'[n] /\ networks'[n] <= visited[n]]_vars

=============================================================================
