--------------------------- MODULE ActivityProofs ---------------------------
(***************************************************************************)
(* TLAPS proofs about Activity, for any users, protocols and networks, any *)
(* calendar whose periods have no gaps, and any bounds.                    *)
(***************************************************************************)
EXTENDS Activity, FiniteSetTheorems, WellFoundedInduction, TLAPS

Instant == Time \cup {Never}

-----------------------------------------------------------------------------
(* What the operators do.                                                  *)

\* A set of times that is not empty has a maximum.
LEMMA MaxOfTimes ==
    ASSUME NEW S, S \subseteq Instant, S # {}
    PROVE  /\ Max(S) \in S
           /\ \A t \in S : t <= Max(S)
<1> DEFINE Less == OpToRel(<, Nat)
           T == {MaxDay - t : t \in S}
<1>1. MaxDay \in Nat
  BY ActivityAssumption
<1>2. T \subseteq Nat /\ T # {}
  <2>1. \A t \in S : MaxDay - t \in Nat
    BY <1>1 DEF Instant, Time, Never
  <2>2. PICK t \in S : TRUE
    OBVIOUS
  <2>3. MaxDay - t \in T
    BY <2>2
  <2> QED
    BY <2>1, <2>3
<1>3. IsWellFoundedOn(Less, Nat)
  BY NatLessThanWellFounded
<1>4. PICK x \in T : \A y \in T : <<y, x>> \notin Less
  <2> HIDE DEF Less, T
  <2> QED
    BY <1>2, <1>3, WFMin
<1>5. \A y \in T : ~(y < x)
  BY <1>2, <1>4 DEF OpToRel
<1>6. PICK m \in S : x = MaxDay - m
  BY <1>4
<1>7. \A t \in S : m >= t
  BY <1>1, <1>5, <1>6 DEF Instant, Time, Never
<1>8. Max(S) \in S /\ \A t \in S : Max(S) >= t
  BY <1>7 DEF Max
<1> QED
  BY <1>1, <1>8 DEF Instant, Time, Never

\* What lastActivityMark makes of marks when it does anything: the last activity
\* is that of the endpoint's answer or the one before.
LEMMA MarkIsTyped ==
    ASSUME NEW m \in Marks, NEW now \in Time, NEW seen \in Instant
    PROVE  /\ Mark(now, seen, m) \in Marks
           /\ now < m.update => Mark(now, seen, m) = m
           /\ ~(now < m.update) =>
                 /\ Mark(now, seen, m).update = now
                 /\ Mark(now, seen, m).total = IF seen = Never THEN m.total ELSE seen
<1>1. m.monthly \in Instant /\ m.prevMonthly \in Instant
  BY DEF Marks, Points, Periods, Instant
<1>2. MarkedBefore(m, now) \in Instant
  BY <1>1 DEF MarkedBefore, Instant
<1>3. ASSUME NEW last \in Instant, NEW f \in Periods
      PROVE  Marked(f, m, now, last) \in Instant
  BY <1>3 DEF Marked, Marks, Points, Periods, Instant
<1> QED
  BY <1>1, <1>2, <1>3 DEF Mark, Marks, Points, Periods, Instant

\* A day between two days of a period is in it.
LEMMA PeriodHasNoGap ==
    \A f \in Periods, r, s, t \in Time : r <= s /\ s <= t /\ Same(f, r, t) => Same(f, s, t)
<1> SUFFICES ASSUME NEW f \in Periods, NEW r \in Time, NEW s \in Time, NEW t \in Time,
                    r <= s, s <= t, Same(f, r, t)
             PROVE  Same(f, s, t)
  OBVIOUS
<1>1. /\ SameYear(r, t) => SameYear(s, t)
      /\ SameMonth(r, t) => SameMonth(s, t)
      /\ SameWeek(r, t) => SameWeek(s, t)
  BY PeriodAssumption DEF CalendarGoesOn
<1>2. r = t => s = t
  BY ActivityAssumption DEF Time
<1> QED
  BY <1>1, <1>2 DEF Same, Periods

\* What the stack needs of the calendar.
LEMMA MonthFacts ==
    /\ \A t \in Time : /\ Month(t) \in Stack /\ MonthStart(t) \in Time /\ t <= t
                       /\ Month(NextMonthlyResetOn(t)) = (Month(t) % StackSize) + 1
    /\ \A s, t \in Time : s <= t => IF SameMonth(s, t) THEN MonthStart(s) = MonthStart(t)
                                   ELSE MonthStart(s) < MonthStart(t)
    /\ \A s, t : SameMonth(s, t) => MonthStart(s) = MonthStart(t)
    /\ StackSize \in Nat /\ StackSize >= 2 /\ StackSize \in Stack
<1>1. Cardinality(Months) \in Nat /\ Cardinality(Months) >= 2
      /\ Months = 1 .. Cardinality(Months)
  BY CalendarAssumption
<1>2. \A t \in Time : /\ Month(t) \in Months /\ MonthStart(t) \in 0 .. t
                      /\ Month(NextMonthlyResetOn(t)) = (Month(t) % Cardinality(Months)) + 1
  BY PeriodAssumption DEF CalendarGoesOn
<1>3. \A s, t \in Time : s <= t /\ ~SameMonth(s, t) => MonthStart(s) < MonthStart(t)
  BY PeriodAssumption DEF CalendarGoesOn
<1>4. \A s, t : SameMonth(s, t) => MonthStart(s) = MonthStart(t)
  BY DEF SameMonth, MonthStart
<1>5. ASSUME NEW t \in Time
      PROVE  MonthStart(t) \in Time /\ t <= t
  <2>1. MonthStart(t) \in 0 .. t /\ t \in 0 .. MaxDay /\ MaxDay \in Nat
    BY <1>2, ActivityAssumption DEF Time
  <2> QED
    BY <2>1 DEF Time
<1>6. Cardinality(Months) = StackSize /\ Months = Stack
  BY <1>1 DEF Stack, StackSize
<1>7. StackSize \in Nat /\ StackSize >= 2 /\ StackSize \in Stack
  BY <1>1, <1>6
<1>8. ASSUME NEW s \in Time, NEW t \in Time, s <= t
      PROVE  IF SameMonth(s, t) THEN MonthStart(s) = MonthStart(t)
             ELSE MonthStart(s) < MonthStart(t)
  BY <1>3, <1>4, <1>8
<1>9. \A t \in Time : Month(NextMonthlyResetOn(t)) = (Month(t) % StackSize) + 1
  BY <1>2, <1>6
<1>10. \A t \in Time : Month(t) \in Stack
  BY <1>2, <1>6
<1>11. \A t \in Time : /\ Month(t) \in Stack /\ MonthStart(t) \in Time /\ t <= t
                       /\ Month(NextMonthlyResetOn(t)) = (Month(t) % StackSize) + 1
  BY <1>5, <1>9, <1>10
<1>12. \A s, t \in Time : s <= t => IF SameMonth(s, t) THEN MonthStart(s) = MonthStart(t)
                                   ELSE MonthStart(s) < MonthStart(t)
  BY <1>8
<1> QED
  BY <1>4, <1>7, <1>11, <1>12

\* Every mark of a period stays in the period of the update.
LEMMA MarkInPeriod ==
    ASSUME NEW m \in Marks, NEW now \in Time, NEW seen \in Instant, InPeriod(m),
           m.total = Never => \A f \in Periods : m[f] = Never
    PROVE  InPeriod(Mark(now, seen, m))
<1> DEFINE last == IF seen = Never THEN m.total ELSE seen
<1>1. CASE now < m.update
  BY <1>1, MarkIsTyped
<1>2. CASE ~(now < m.update) /\ last = Never
  BY <1>2 DEF Mark, InPeriod, Marks, Points, Periods
<1>3. CASE ~(now < m.update) /\ last # Never
  <2>1. \A f \in Periods : Mark(now, seen, m)[f] = Marked(f, m, now, last)
    BY <1>3 DEF Mark, Points, Periods
  <2>2. Mark(now, seen, m).update = now
    BY <1>3, MarkIsTyped
  <2> QED
    BY <2>1, <2>2 DEF Marked, InPeriod
<1> QED
  BY <1>1, <1>2, <1>3

\* Marks stay exact when nothing is dated back or of tomorrow.
LEMMA MarkIsExact ==
    ASSUME NEW m \in Marks, NEW now \in Time, NEW seen \in Instant, Exact(m),
           m.update <= now, m.total <= now,
           seen # Never => m.total <= seen /\ seen <= now
    PROVE  Exact(Mark(now, seen, m))
<1> DEFINE last == IF seen = Never THEN m.total ELSE seen
<1>1. /\ last \in Instant /\ m.total \in Instant /\ m.update \in Instant
      /\ m.total <= last /\ last <= now
  BY DEF Marks, Points, Periods, Instant, Time, Never
<1>2. ~(now < m.update)
  BY <1>1 DEF Instant, Time, Never
<1>3. CASE last = Never
  BY <1>2, <1>3 DEF Mark, Exact, Marks, Points, Periods
<1>4. CASE last # Never
  <2>1. \A f \in Periods : Mark(now, seen, m)[f] = Marked(f, m, now, last)
    BY <1>2, <1>4 DEF Mark, Points, Periods
  <2>2. Mark(now, seen, m).update = now /\ Mark(now, seen, m).total = last
    BY <1>2, MarkIsTyped
  <2>3. ASSUME NEW f \in Periods, Same(f, last, now)
        PROVE  Marked(f, m, now, last) = last
    <3>1. m[f] = Never \/ m[f] = m.total
      BY DEF Exact
    <3>2. last > m[f] \/ m[f] = last
      BY <1>1, <1>4, <3>1 DEF Instant, Time, Never
    <3> QED
      BY <1>4, <2>3, <3>2 DEF Marked
  <2>4. ASSUME NEW f \in Periods, ~Same(f, last, now)
        PROVE  Marked(f, m, now, last) = Never
    <3>1. CASE m[f] = Never
      BY <2>4, <3>1 DEF Marked
    <3>2. CASE m[f] # Never
      <4>1. m[f] = m.total /\ m.total # Never
        BY <3>2 DEF Exact
      <4>2. ~Same(f, m.total, now)
        BY <1>1, <1>4, <2>4, <4>1, PeriodHasNoGap DEF Instant
      <4> QED
        BY <2>4, <4>1, <4>2 DEF Marked
    <3> QED
      BY <3>1, <3>2
  <2> QED
    BY <1>4, <2>1, <2>2, <2>3, <2>4 DEF Exact
<1> QED
  BY <1>3, <1>4

-----------------------------------------------------------------------------
(* Types.                                                                  *)

\* At the start there are no users, no marks and an empty stack.
LEMMA TypeInit == Init => TypeOK
  BY ActivityAssumption
  DEF Init, TypeOK, PerPeer, NoMarks, Marks, Points, Periods, Stack, NoEntry, Entries,
      Time, AllMarks, NothingLeft

\* The times in an answer of the endpoint, and what a user's last activity is then.
Seen(listed) ==
    [q \in users \X Protocol |-> IF q \in listed THEN lastSeen[q[1]][q[2]] ELSE Never]

Last(listed, u) == Max({userMarks[u].total} \cup {Seen(listed)[<<u, p>>] : p \in Protocol})

\* A user's last activity is no older than what it was and what was seen of his protocols,
\* and is one of these.
LEMMA LastIsMax ==
    ASSUME TypeOK, NEW listed \in SUBSET (users \X Protocol), NEW u \in users
    PROVE  /\ \A p \in Protocol : Seen(listed)[<<u, p>>] \in Instant
           /\ \A p \in Protocol : Seen(listed)[<<u, p>>] \in {Never, lastSeen[u][p]}
           /\ Last(listed, u) \in Instant
           /\ \/ Last(listed, u) = userMarks[u].total
              \/ \E p \in Protocol : Last(listed, u) = Seen(listed)[<<u, p>>]
           /\ userMarks[u].total <= Last(listed, u)
           /\ \A p \in Protocol : Seen(listed)[<<u, p>>] <= Last(listed, u)
<1> DEFINE S == {userMarks[u].total} \cup {Seen(listed)[<<u, p>>] : p \in Protocol}
<1>1. u \in User
  BY DEF TypeOK
<1>2. \A p \in Protocol : /\ Seen(listed)[<<u, p>>] \in {Never, lastSeen[u][p]}
                          /\ lastSeen[u][p] \in Instant
  BY <1>1 DEF Seen, TypeOK, Instant
<1>3. userMarks[u].total \in Instant
  BY <1>1 DEF TypeOK, Marks, Points, Instant
<1>4. S \subseteq Instant /\ S # {}
  BY <1>2, <1>3 DEF Instant
<1>5. Max(S) \in S /\ \A t \in S : t <= Max(S)
  BY <1>4, MaxOfTimes
<1> QED
  BY <1>2, <1>4, <1>5 DEF Last, Instant

\* What a collection does to a user's marks.
LEMMA CollectMarks ==
    ASSUME TypeOK, NEW listed \in SUBSET (users \X Protocol), Collect(listed)
    PROVE  /\ \A u \in users :
                /\ userMarks'[u] = Mark(clock, Last(listed, u), userMarks[u])
                /\ \A p \in Protocol :
                      marks'[u][p] = Mark(clock, Seen(listed)[<<u, p>>], marks[u][p])
           /\ \A u \in User \ users :
                userMarks'[u] = userMarks[u] /\ marks'[u] = marks[u]
           /\ userMarks' = [u \in User |-> userMarks'[u]]
           /\ marks' = [u \in User |-> [p \in Protocol |-> marks'[u][p]]]
           /\ newest' = Max({newest} \cup {Last(listed, u) : u \in users})
           /\ UNCHANGED <<clock, users, endpointVars, uses, mishaps>>
<1>1. /\ marks' = [u \in User |-> [p \in Protocol |->
                IF u \in users THEN Mark(clock, Seen(listed)[<<u, p>>], marks[u][p])
                ELSE marks[u][p]]]
      /\ userMarks' = [u \in User |->
                IF u \in users THEN Mark(clock, Last(listed, u), userMarks[u])
                ELSE userMarks[u]]
      /\ newest' = Max({newest} \cup {Last(listed, u) : u \in users})
      /\ UNCHANGED <<clock, users, endpointVars, uses, mishaps>>
  BY DEF Collect, Seen, Last
<1>2. users \subseteq User /\ marks \in [User -> [Protocol -> Marks]]
  BY DEF TypeOK
<1> QED
  BY <1>1, <1>2

\* A collection keeps the types.
LEMMA CollectTypes ==
    ASSUME TypeOK, NEW listed \in SUBSET (users \X Protocol), Collect(listed)
    PROVE  TypeOK'
<1>1. marks' \in [User -> [Protocol -> Marks]] /\ userMarks' \in [User -> Marks]
  <2>1. \A u \in User : /\ userMarks[u] \in Marks
                        /\ \A p \in Protocol : marks[u][p] \in Marks
    BY DEF TypeOK
  <2>2. clock \in Time /\ users \subseteq User
    BY DEF TypeOK
  <2>3. ASSUME NEW u \in users
        PROVE  /\ Mark(clock, Last(listed, u), userMarks[u]) \in Marks
               /\ \A p \in Protocol :
                     Mark(clock, Seen(listed)[<<u, p>>], marks[u][p]) \in Marks
    <3>1. /\ Last(listed, u) \in Instant
          /\ \A p \in Protocol : Seen(listed)[<<u, p>>] \in Instant
      BY LastIsMax
    <3>2. \A m \in Marks, seen \in Instant : Mark(clock, seen, m) \in Marks
      BY <2>2, MarkIsTyped
    <3>3. u \in User
      BY <2>2
    <3> QED
      BY <2>1, <3>1, <3>2, <3>3
  <2>4. \A u \in User : /\ userMarks'[u] \in Marks
                        /\ \A p \in Protocol : marks'[u][p] \in Marks
    <3>1. \A u \in users : /\ userMarks'[u] \in Marks
                          /\ \A p \in Protocol : marks'[u][p] \in Marks
      BY <2>3, CollectMarks
    <3>2. \A u \in User \ users : userMarks'[u] = userMarks[u] /\ marks'[u] = marks[u]
      BY CollectMarks
    <3> QED
      BY <2>1, <3>1, <3>2
  <2>5. /\ userMarks' = [u \in User |-> userMarks'[u]]
        /\ marks' = [u \in User |-> [p \in Protocol |-> marks'[u][p]]]
    BY CollectMarks
  <2> QED
    BY <2>4, <2>5
<1>2. newest' \in Instant
  <2> DEFINE S == {newest} \cup {Last(listed, u) : u \in users}
  <2>1. S \subseteq Instant /\ S # {}
    <3>1. \A u \in users : Last(listed, u) \in Instant
      BY LastIsMax
    <3>2. newest \in Instant
      BY DEF TypeOK, Instant
    <3> QED
      BY <3>1, <3>2
  <2>2. Max(S) \in Instant
    BY <2>1, MaxOfTimes
  <2> QED
    BY <2>2, CollectMarks
<1>3. networks' \in [Network -> Instant]
  <2> DEFINE from == [q \in users \X Protocol |->
                        IF q \in listed THEN place[q[1]][q[2]] ELSE NoNetwork]
             S(n) == {networks[n]} \cup
                       {Seen(listed)[q] : q \in {r \in DOMAIN Seen(listed) : from[r] = n}}
  <2>1. ASSUME NEW n \in Network
        PROVE  Max(S(n)) \in Instant
    <3>1. \A q \in DOMAIN Seen(listed) : Seen(listed)[q] \in Instant
      BY DEF Seen, TypeOK, Instant
    <3>2. networks[n] \in Instant
      BY DEF TypeOK, Instant
    <3>3. S(n) \subseteq Instant /\ S(n) # {}
      BY <3>1, <3>2
    <3> HIDE DEF S
    <3> QED
      BY <3>3, MaxOfTimes
  <2>2. networks' = Listed(Seen(listed), from)
    BY DEF Collect, Seen
  <2> QED
    BY <2>1, <2>2 DEF Listed, Instant
<1>4. Cardinality(listed) \in Nat
  <2>1. users \subseteq User
    BY DEF TypeOK
  <2>2. IsFiniteSet(users) /\ IsFiniteSet(Protocol)
    BY <2>1, ActivityAssumption, FS_Subset
  <2>3. IsFiniteSet(users \X Protocol)
    BY <2>2, FS_Product
  <2> QED
    BY <2>3, FS_Subset, FS_CardinalityType
<1>5. \A S : S \subseteq users => Cardinality(S) \in Nat
  BY ActivityAssumption, FS_Subset, FS_CardinalityType DEF TypeOK
<1>6. stack' \in [Stack -> Entries] /\ log' \in [Time -> Nat]
  <2> DEFINE A == {u \in users : Active(userMarks'[u].total)}
  <2>1. /\ stack' = Put(stack, there, Cardinality(A), Cardinality(listed))
        /\ log' = [log EXCEPT ![MonthStart(there)] = @ + Cardinality(listed)]
    BY DEF Collect
  <2>2. Cardinality(A) \in Nat /\ there \in Time
    BY <1>5 DEF TypeOK
  <2>3. StackSize \in Stack /\ \A i \in Stack : i # StackSize => i + 1 \in Stack
    BY CalendarAssumption DEF Stack, StackSize
  <2> HIDE DEF A
  <2>4. Put(stack, there, Cardinality(A), Cardinality(listed)) \in [Stack -> Entries]
    BY <1>4, <2>2, <2>3 DEF TypeOK, Put, Entries, NoEntry
  <2>5. MonthStart(there) \in Time /\ log \in [Time -> Nat]
    BY <2>2, MonthFacts DEF TypeOK
  <2>6. log' \in [Time -> Nat]
    BY <1>4, <2>1, <2>5
  <2> QED
    BY <2>1, <2>4, <2>6
<1>7. \A u \in User \ users : AllMarks(u)' = AllMarks(u)
  <2>1. \A u \in User \ users : userMarks'[u] = userMarks[u] /\ marks'[u] = marks[u]
    BY CollectMarks
  <2> QED
    BY <2>1 DEF AllMarks
<1>8. /\ collections' \in 0 .. MaxCollections
      /\ UNCHANGED <<clock, there, users, lastSeen, place, visited, uses, mishaps>>
  BY ActivityAssumption DEF Collect, TypeOK, endpointVars
<1> QED
  BY <1>1, <1>2, <1>3, <1>6, <1>7, <1>8 DEF TypeOK, NothingLeft, Instant

\* Every other step keeps the types as well.
LEMMA TypeStep ==
    ASSUME TypeOK, [Next]_vars
    PROVE  TypeOK'
<1> USE ActivityAssumption DEF Instant
<1>1. ASSUME UNCHANGED <<marks, userMarks>>, users \subseteq users',
             \A u \in User \ users' : lastSeen'[u] \in {lastSeen[u], [p \in Protocol |-> Never]}
      PROVE  NothingLeft'
  <2>1. \A u \in User : AllMarks(u)' = AllMarks(u)
    BY <1>1 DEF AllMarks
  <2> QED
    BY <1>1, <2>1 DEF TypeOK, NothingLeft
<1>2. ASSUME NEW u \in User, CreateUser(u)
      PROVE  TypeOK'
  <2>1. NothingLeft'
    BY <1>1, <1>2 DEF CreateUser, endpointVars, markVars
  <2> QED
    BY <1>2, <2>1 DEF CreateUser, TypeOK, endpointVars, markVars, statVars, boundVars
<1>3. ASSUME NEW u \in User, DeleteUser(u)
      PROVE  TypeOK'
  <2>1. NoMarks \in Marks
    BY DEF NoMarks, Marks, Points
  <2>2. ASSUME NEW w \in User \ users'
        PROVE  AllMarks(w)' = {NoMarks} /\ \A p \in Protocol : lastSeen'[w][p] = Never
    <3>1. CASE w = u
      <4>1. userMarks'[u] = NoMarks /\ \A p \in Protocol : marks'[u][p] = NoMarks
        BY <1>3 DEF DeleteUser, TypeOK
      <4> QED
        BY <1>3, <3>1, <4>1 DEF DeleteUser, TypeOK, AllMarks
    <3>2. CASE w # u
      <4>1. userMarks'[w] = userMarks[w] /\ marks'[w] = marks[w] /\ lastSeen'[w] = lastSeen[w]
        BY <1>3, <3>2 DEF DeleteUser, TypeOK
      <4>2. w \in User \ users
        BY <1>3, <3>2 DEF DeleteUser
      <4>3. AllMarks(w)' = AllMarks(w)
        BY <4>1 DEF AllMarks
      <4> QED
        BY <4>1, <4>2, <4>3 DEF TypeOK, NothingLeft
    <3> QED
      BY <3>1, <3>2
  <2>3. mishaps' \subseteq {"deleted", "restarted", "host", "endpoint"}
    BY <1>3 DEF DeleteUser, Mishap, TypeOK
  <2>4. NothingLeft'
    BY <2>2 DEF NothingLeft
  <2> QED
    BY <1>3, <2>1, <2>3, <2>4 DEF DeleteUser, TypeOK, statVars
<1>4. ASSUME NEW u \in User, Restart(u)
      PROVE  TypeOK'
  <2>1. NothingLeft'
    BY <1>1, <1>4 DEF Restart, markVars, TypeOK
  <2> QED
    BY <1>4, <2>1 DEF Restart, Mishap, TypeOK, markVars, statVars
<1>5. ASSUME NEW u \in User, NEW p \in Protocol, NEW n \in Network, Use(u, p, n)
      PROVE  TypeOK'
  <2>1. Max({visited[n], there}) \in Instant
    <3>1. {visited[n], there} \subseteq Instant
      BY DEF TypeOK
    <3> QED
      BY <3>1, MaxOfTimes
  <2>2. visited' \in [Network -> Instant]
    BY <1>5, <2>1 DEF Use, TypeOK
  <2>3. NothingLeft'
    BY <1>1, <1>5 DEF Use, markVars, TypeOK
  <2> QED
    BY <1>5, <2>2, <2>3 DEF Use, TypeOK, markVars, statVars
<1>6. ASSUME Advance \/ SetClock
      PROVE  TypeOK'
  <2>1. clock' \in Time /\ there' \in Time
    BY <1>6 DEF Advance, SetClock, TypeOK, Time, endpointVars
  <2>2. mishaps' \subseteq {"deleted", "restarted", "host", "endpoint"}
    BY <1>6 DEF Advance, SetClock, Mishap, TypeOK, boundVars
  <2>3. UNCHANGED <<users, lastSeen, place, visited, markVars, statVars, collections, uses>>
    BY <1>6 DEF Advance, SetClock, boundVars, endpointVars
  <2>4. NothingLeft'
    BY <1>1, <2>3 DEF markVars
  <2> QED
    BY <2>1, <2>2, <2>3, <2>4 DEF TypeOK, markVars, statVars
<1>7. CASE UNCHANGED vars
  <2>1. NothingLeft'
    BY <1>1, <1>7 DEF vars, endpointVars, markVars
  <2> QED
    BY <1>7, <2>1 DEF vars, endpointVars, markVars, statVars, boundVars, TypeOK
<1> QED
  BY <1>2, <1>3, <1>4, <1>5, <1>6, <1>7, CollectTypes DEF Next

-----------------------------------------------------------------------------
(* The collection.                                                         *)

\* What a collection finds of a user, and what it makes of his marks.
LEMMA CollectUser ==
    ASSUME TypeOK, ClockInv, NEW listed \in SUBSET (users \X Protocol), Collect(listed),
           NEW u \in users
    PROVE  /\ u \in User /\ clock \in Time
           /\ userMarks[u] \in Marks /\ Last(listed, u) \in Instant
           /\ userMarks'[u] = Mark(clock, Last(listed, u), userMarks[u])
           /\ userMarks[u].total <= Last(listed, u)
           /\ Straight => Last(listed, u) <= clock
           /\ \A p \in Protocol :
                 /\ marks[u][p] \in Marks /\ Seen(listed)[<<u, p>>] \in Instant
                 /\ marks'[u][p] = Mark(clock, Seen(listed)[<<u, p>>], marks[u][p])
                 /\ Seen(listed)[<<u, p>>] <= Last(listed, u)
                 /\ Straight /\ Seen(listed)[<<u, p>>] # Never =>
                       /\ marks[u][p].total <= Seen(listed)[<<u, p>>]
                       /\ Seen(listed)[<<u, p>>] <= clock
<1>1. /\ u \in User /\ clock \in Time
      /\ userMarks[u] \in Marks /\ \A p \in Protocol : marks[u][p] \in Marks
  BY DEF TypeOK
<1>2. /\ Last(listed, u) \in Instant /\ userMarks[u].total <= Last(listed, u)
      /\ \/ Last(listed, u) = userMarks[u].total
         \/ \E p \in Protocol : Last(listed, u) = Seen(listed)[<<u, p>>]
      /\ \A p \in Protocol : /\ Seen(listed)[<<u, p>>] \in Instant
                            /\ Seen(listed)[<<u, p>>] \in {Never, lastSeen[u][p]}
                            /\ Seen(listed)[<<u, p>>] <= Last(listed, u)
  BY LastIsMax
<1>3. ASSUME Straight, NEW p \in Protocol, Seen(listed)[<<u, p>>] # Never
      PROVE  /\ marks[u][p].total <= Seen(listed)[<<u, p>>]
             /\ Seen(listed)[<<u, p>>] <= clock
  BY <1>1, <1>2, <1>3 DEF ClockInv
<1>4. Straight => userMarks[u].total <= clock
  BY <1>1 DEF ClockInv, AllMarks
<1>5. Straight => Last(listed, u) <= clock
  <2>1. Never <= clock
    BY <1>1 DEF Time, Never
  <2>2. \A p \in Protocol : Straight => Seen(listed)[<<u, p>>] <= clock
    BY <1>3, <2>1
  <2> QED
    BY <1>2, <1>4, <2>2
<1>6. /\ userMarks'[u] = Mark(clock, Last(listed, u), userMarks[u])
      /\ \A p \in Protocol :
            marks'[u][p] = Mark(clock, Seen(listed)[<<u, p>>], marks[u][p])
  BY CollectMarks
<1> QED
  BY <1>1, <1>2, <1>3, <1>5, <1>6

\* A collection keeps the marks of periods exact.
LEMMA CollectExact ==
    ASSUME IInv, NEW listed \in SUBSET (users \X Protocol), Collect(listed)
    PROVE  MarksExact'
<1>1. UNCHANGED <<clock, users, mishaps>>
  BY CollectMarks DEF IInv
<1>2. ASSUME NEW u \in users, NEW m \in AllMarks(u)
      PROVE  /\ InPeriod(m) /\ (Straight => Exact(m))
             /\ m.total = Never => \A f \in Periods : m[f] = Never
             /\ Straight => m.update <= clock /\ m.total <= clock
  BY <1>2 DEF IInv, MarksExact, ClockInv, TypeOK
<1>3. ASSUME NEW u \in users, NEW m \in AllMarks(u), m \in Marks, NEW seen \in Instant,
             Straight /\ seen # Never => m.total <= seen /\ seen <= clock
      PROVE  InPeriod(Mark(clock, seen, m)) /\ (Straight => Exact(Mark(clock, seen, m)))
  <2>1. clock \in Time
    BY DEF IInv, TypeOK
  <2> QED
    BY <1>2, <1>3, <2>1, MarkInPeriod, MarkIsExact
<1>4. ASSUME NEW u \in users, NEW m \in AllMarks(u)'
      PROVE  InPeriod(m) /\ (Straight => Exact(m))
  <2>1. CASE m = userMarks'[u]
    <3>1. userMarks[u] \in AllMarks(u)
      BY DEF AllMarks
    <3> QED
      BY <1>3, <2>1, <3>1, CollectUser DEF IInv
  <2>2. ASSUME NEW p \in Protocol, m = marks'[u][p]
        PROVE  InPeriod(m) /\ (Straight => Exact(m))
    <3>1. marks[u][p] \in AllMarks(u)
      BY DEF AllMarks
    <3> QED
      BY <1>3, <2>2, <3>1, CollectUser DEF IInv
  <2> QED
    BY <1>4, <2>1, <2>2 DEF AllMarks
<1> QED
  BY <1>1, <1>4 DEF MarksExact, Straight

\* A collection marks no activity of tomorrow, or older than what the endpoint knows.
LEMMA CollectClock ==
    ASSUME IInv, NEW listed \in SUBSET (users \X Protocol), Collect(listed)
    PROVE  ClockInv'
<1>1. UNCHANGED <<clock, there, users, lastSeen, mishaps>>
  BY CollectMarks DEF IInv, endpointVars
<1>2. ASSUME NEW u \in User \ users
      PROVE  AllMarks(u)' = AllMarks(u) /\ userMarks'[u] = userMarks[u] /\ marks'[u] = marks[u]
  <2>1. userMarks'[u] = userMarks[u] /\ marks'[u] = marks[u]
    BY <1>2, CollectMarks DEF IInv
  <2> QED
    BY <2>1 DEF AllMarks
<1>3. ASSUME NEW m \in Marks, NEW seen \in Instant, clock \in Time,
             m.total = Never => \A f \in Periods : m[f] = Never
      PROVE  LET n == Mark(clock, seen, m) IN
             /\ n.total = Never => \A f \in Periods : n[f] = Never
             /\ n.update = IF clock < m.update THEN m.update ELSE clock
             /\ m.update <= clock => n.total = IF seen = Never THEN m.total ELSE seen
  <2>1. m.update \in Instant
    BY DEF Marks, Points, Instant
  <2>2. m.update <= clock => ~(clock < m.update)
    BY <1>3, <2>1 DEF Instant, Time, Never
  <2>3. CASE clock < m.update
    BY <1>3, <2>2, <2>3, MarkIsTyped
  <2>4. CASE ~(clock < m.update)
    <3>1. /\ Mark(clock, seen, m).update = clock
          /\ Mark(clock, seen, m).total = IF seen = Never THEN m.total ELSE seen
      BY <1>3, <2>4, MarkIsTyped
    <3>2. CASE seen = Never /\ m.total = Never
      BY <1>3, <2>4, <3>1, <3>2 DEF Mark, Marks, Points, Periods
    <3>3. CASE ~(seen = Never /\ m.total = Never)
      BY <2>4, <3>1, <3>3
    <3> QED
      BY <3>2, <3>3
  <2> QED
    BY <2>3, <2>4
<1>4. ASSUME NEW u \in users
      PROVE  /\ \A p \in Protocol : marks'[u][p].update = userMarks'[u].update
             /\ \A m \in AllMarks(u)' : /\ m.total = Never => \A f \in Periods : m[f] = Never
                                        /\ Straight => m.update <= clock /\ m.total <= clock
             /\ Straight => \A p \in Protocol :
                   lastSeen[u][p] # Never => marks'[u][p].total <= lastSeen[u][p]
  <2>1. /\ \A p \in Protocol : marks[u][p].update = userMarks[u].update
        /\ \A m \in AllMarks(u) : /\ m.total = Never => \A f \in Periods : m[f] = Never
                                  /\ Straight => m.update <= clock /\ m.total <= clock
        /\ Straight => \A p \in Protocol :
              lastSeen[u][p] # Never => marks[u][p].total <= lastSeen[u][p]
    BY DEF IInv, ClockInv, TypeOK
  <2>2. userMarks[u] \in AllMarks(u) /\ \A p \in Protocol : marks[u][p] \in AllMarks(u)
    BY DEF AllMarks
  <2>3. /\ userMarks'[u].total = Never => \A f \in Periods : userMarks'[u][f] = Never
        /\ userMarks'[u].update = IF clock < userMarks[u].update THEN userMarks[u].update ELSE clock
        /\ Straight => userMarks'[u].update <= clock /\ userMarks'[u].total <= clock
    BY <1>3, <2>1, <2>2, CollectUser DEF IInv, Time, Never, Instant
  <2>4. ASSUME NEW p \in Protocol
        PROVE  /\ marks'[u][p].total = Never => \A f \in Periods : marks'[u][p][f] = Never
               /\ marks'[u][p].update = IF clock < marks[u][p].update THEN marks[u][p].update ELSE clock
               /\ Straight => marks'[u][p].update <= clock /\ marks'[u][p].total <= clock
               /\ Straight /\ lastSeen[u][p] # Never => marks'[u][p].total <= lastSeen[u][p]
    <3> DEFINE seen == Seen(listed)[<<u, p>>]
    <3>1. /\ marks[u][p] \in Marks /\ seen \in Instant /\ clock \in Time
          /\ marks'[u][p] = Mark(clock, seen, marks[u][p])
          /\ Straight /\ seen # Never => marks[u][p].total <= seen /\ seen <= clock
      BY CollectUser DEF IInv
    <3>2. seen \in {Never, lastSeen[u][p]}
      BY LastIsMax DEF IInv
    <3>3. /\ marks[u][p].total = Never => \A f \in Periods : marks[u][p][f] = Never
          /\ Straight => marks[u][p].update <= clock /\ marks[u][p].total <= clock
          /\ Straight /\ lastSeen[u][p] # Never => marks[u][p].total <= lastSeen[u][p]
      BY <2>1, <2>2
    <3> HIDE DEF seen
    <3>4. /\ marks'[u][p].total = Never => \A f \in Periods : marks'[u][p][f] = Never
          /\ marks'[u][p].update = IF clock < marks[u][p].update THEN marks[u][p].update ELSE clock
          /\ marks[u][p].update <= clock =>
                marks'[u][p].total = IF seen = Never THEN marks[u][p].total ELSE seen
      BY <1>3, <3>1, <3>3
    <3>5. Straight => marks'[u][p].update <= clock /\ marks'[u][p].total <= clock
      BY <3>1, <3>3, <3>4 DEF Time
    <3>6. ASSUME Straight, lastSeen[u][p] # Never
          PROVE  marks'[u][p].total <= lastSeen[u][p]
      <4>1. CASE seen = Never
        BY <3>3, <3>4, <3>6, <4>1
      <4>2. CASE seen # Never
        <5>1. seen = lastSeen[u][p] /\ marks'[u][p].total = seen
          BY <3>2, <3>3, <3>4, <3>6, <4>2
        <5> QED
          BY <3>1, <5>1 DEF Instant, Time, Never
      <4> QED
        BY <4>1, <4>2
    <3> QED
      BY <3>4, <3>5, <3>6
  <2> QED
    BY <2>1, <2>3, <2>4 DEF AllMarks
<1> QED
  <2>1. Straight' = Straight
    BY <1>1 DEF Straight
  <2>2. ASSUME NEW u \in User
        PROVE  /\ \A p \in Protocol : marks'[u][p].update = userMarks'[u].update
               /\ \A m \in AllMarks(u)' : /\ m.total = Never => \A f \in Periods : m[f] = Never
                                          /\ Straight => m.update <= clock /\ m.total <= clock
               /\ Straight => \A p \in Protocol :
                     lastSeen[u][p] # Never => marks'[u][p].total <= lastSeen[u][p]
    <3>1. CASE u \in users
      BY <1>4, <3>1
    <3>2. CASE u \notin users
      BY <1>2, <3>2 DEF IInv, ClockInv
    <3> QED
      BY <3>1, <3>2
  <2>3. Straight => /\ there = clock
                    /\ \A u \in User : \A p \in Protocol :
                          lastSeen[u][p] # Never => lastSeen[u][p] <= clock
    BY DEF IInv, ClockInv
  <2> QED
    BY <1>1, <2>1, <2>2, <2>3 DEF ClockInv

\* The last activities after a collection.
LEMMA CollectTotals ==
    ASSUME IInv, NEW listed \in SUBSET (users \X Protocol), Collect(listed), NEW u \in users
    PROVE  /\ userMarks[u].total \in Instant /\ \A p \in Protocol : marks[u][p].total \in Instant
           /\ userMarks'[u].total = IF clock < userMarks[u].update THEN userMarks[u].total
                                    ELSE Last(listed, u)
           /\ \A p \in Protocol :
                 marks'[u][p].total = IF clock < userMarks[u].update \/ Seen(listed)[<<u, p>>] = Never
                                      THEN marks[u][p].total ELSE Seen(listed)[<<u, p>>]
<1>1. /\ u \in User /\ clock \in Time
      /\ userMarks[u] \in Marks /\ Last(listed, u) \in Instant
      /\ userMarks'[u] = Mark(clock, Last(listed, u), userMarks[u])
      /\ userMarks[u].total <= Last(listed, u)
      /\ \A p \in Protocol :
            /\ marks[u][p] \in Marks /\ Seen(listed)[<<u, p>>] \in Instant
            /\ marks'[u][p] = Mark(clock, Seen(listed)[<<u, p>>], marks[u][p])
  BY CollectUser DEF IInv
<1>2. \A m \in Marks : m.total \in Instant
  BY DEF Marks, Points, Instant
<1>3. \A m \in Marks, seen \in Instant :
         Mark(clock, seen, m).total = IF clock < m.update \/ seen = Never THEN m.total ELSE seen
  BY <1>1, MarkIsTyped
<1>4. \A p \in Protocol : marks[u][p].update = userMarks[u].update
  BY <1>1 DEF IInv, ClockInv
<1>5. Last(listed, u) = Never => userMarks[u].total = Never
  <2>1. userMarks[u].total \in Instant
    BY <1>1, <1>2
  <2> QED
    BY <1>1, <2>1 DEF Instant, Time, Never
<1>6. userMarks[u].total \in Instant /\ \A p \in Protocol : marks[u][p].total \in Instant
  BY <1>1, <1>2
<1>7. userMarks'[u].total = IF clock < userMarks[u].update THEN userMarks[u].total
                            ELSE Last(listed, u)
  <2>1. userMarks'[u].total =
           IF clock < userMarks[u].update \/ Last(listed, u) = Never THEN userMarks[u].total
           ELSE Last(listed, u)
    BY <1>1, <1>3
  <2> QED
    BY <2>1, <1>5
<1>8. ASSUME NEW p \in Protocol
      PROVE  marks'[u][p].total = IF clock < userMarks[u].update \/ Seen(listed)[<<u, p>>] = Never
                                  THEN marks[u][p].total ELSE Seen(listed)[<<u, p>>]
  <2>1. /\ marks[u][p] \in Marks /\ Seen(listed)[<<u, p>>] \in Instant
        /\ marks'[u][p] = Mark(clock, Seen(listed)[<<u, p>>], marks[u][p])
    BY <1>1
  <2>2. Mark(clock, Seen(listed)[<<u, p>>], marks[u][p]).total =
           IF clock < marks[u][p].update \/ Seen(listed)[<<u, p>>] = Never
           THEN marks[u][p].total ELSE Seen(listed)[<<u, p>>]
    BY <1>3, <2>1
  <2>3. marks[u][p].update = userMarks[u].update
    BY <1>4
  <2> QED
    BY <2>1, <2>2, <2>3
<1> QED
  BY <1>6, <1>7, <1>8

\* A collection keeps the activities adding up, though it marks each by itself.
LEMMA CollectAddsUp ==
    ASSUME IInv, NEW listed \in SUBSET (users \X Protocol), Collect(listed)
    PROVE  ActivityAddsUp'
<1>1. users' = users /\ mishaps' = mishaps
  BY CollectMarks DEF IInv
<1>2. newest' >= newest /\ \A u \in users : newest' >= Last(listed, u)
  <2> DEFINE S == {newest} \cup {Last(listed, u) : u \in users}
  <2>1. \A u \in users : Last(listed, u) \in Instant
    BY LastIsMax DEF IInv
  <2>2. newest \in Instant
    BY DEF IInv, TypeOK, Instant
  <2>3. S \subseteq Instant /\ S # {}
    BY <2>1, <2>2
  <2>4. Max(S) \in Instant /\ \A t \in S : t <= Max(S)
    BY <2>3, MaxOfTimes
  <2>5. newest' = Max(S)
    BY CollectMarks DEF IInv
  <2> HIDE DEF S
  <2>6. newest \in S /\ \A u \in users : Last(listed, u) \in S
    BY DEF S
  <2> QED
    BY <2>1, <2>2, <2>4, <2>5, <2>6 DEF Instant, Time, Never
<1>3. ASSUME NEW u \in users
      PROVE  /\ newest' >= userMarks'[u].total
             /\ \A p \in Protocol : userMarks'[u].total >= marks'[u][p].total
             /\ Straight => \E p \in Protocol : userMarks'[u].total = marks'[u][p].total
  <2>1. /\ userMarks[u].total \in Instant /\ Last(listed, u) \in Instant
        /\ userMarks[u].total <= Last(listed, u)
        /\ Straight => ~(clock < userMarks[u].update)
    <3>1. Straight => userMarks[u].update <= clock
      BY DEF IInv, ClockInv, AllMarks, TypeOK
    <3>2. userMarks[u].update \in Instant /\ clock \in Instant
      BY DEF IInv, TypeOK, Marks, Points, Instant
    <3> QED
      BY <3>1, <3>2, CollectTotals, LastIsMax DEF IInv, Instant, Time, Never
  <2>2. /\ newest >= userMarks[u].total
        /\ \A p \in Protocol : userMarks[u].total >= marks[u][p].total
        /\ Straight => \E p \in Protocol : userMarks[u].total = marks[u][p].total
    BY DEF IInv, ActivityAddsUp
  <2>3. newest' >= userMarks'[u].total
    <3>1. newest \in Instant /\ newest' \in Instant
      BY CollectTypes DEF IInv, TypeOK, Instant
    <3>2. userMarks'[u].total \in {userMarks[u].total, Last(listed, u)}
      BY CollectTotals
    <3>3. newest' >= newest /\ newest' >= Last(listed, u) /\ newest >= userMarks[u].total
      BY <1>2, <2>2
    <3>4. newest' >= userMarks[u].total
      BY <2>1, <3>1, <3>3 DEF Instant, Time, Never
    <3> QED
      BY <3>2, <3>3, <3>4
  <2>4. ASSUME NEW p \in Protocol
        PROVE  userMarks'[u].total >= marks'[u][p].total
    <3>1. Seen(listed)[<<u, p>>] \in Instant /\ Seen(listed)[<<u, p>>] <= Last(listed, u)
      BY LastIsMax DEF IInv
    <3>2. marks[u][p].total \in Instant
      BY CollectTotals
    <3> QED
      BY <2>1, <2>2, <3>1, <3>2, CollectTotals DEF Instant, Time, Never
  <2>5. ASSUME Straight, Last(listed, u) = userMarks[u].total
        PROVE  \E p \in Protocol : userMarks'[u].total = marks'[u][p].total
    <3>1. PICK p \in Protocol : userMarks[u].total = marks[u][p].total
      BY <2>2, <2>5
    <3>2. /\ Seen(listed)[<<u, p>>] \in Instant /\ Seen(listed)[<<u, p>>] <= Last(listed, u)
          /\ Seen(listed)[<<u, p>>] # Never => marks[u][p].total <= Seen(listed)[<<u, p>>]
      BY <2>5, CollectUser DEF IInv
    <3>3. Seen(listed)[<<u, p>>] # Never => Seen(listed)[<<u, p>>] = userMarks[u].total
      BY <2>1, <2>5, <3>1, <3>2 DEF Instant, Time, Never
    <3> QED
      BY <2>1, <2>5, <3>1, <3>3, CollectTotals
  <2>6. ASSUME Straight, NEW p \in Protocol, Last(listed, u) = Seen(listed)[<<u, p>>],
               Last(listed, u) # Never
        PROVE  userMarks'[u].total = marks'[u][p].total
    BY <2>1, <2>6, CollectTotals
  <2>7. Last(listed, u) = Never => Last(listed, u) = userMarks[u].total
    BY <2>1 DEF Instant, Time, Never
  <2>8. Straight => \E p \in Protocol : userMarks'[u].total = marks'[u][p].total
    <3>1. \/ Last(listed, u) = userMarks[u].total
          \/ \E p \in Protocol : Last(listed, u) = Seen(listed)[<<u, p>>]
      BY LastIsMax DEF IInv
    <3> QED
      BY <2>5, <2>6, <2>7, <3>1
  <2> QED
    BY <2>3, <2>4, <2>8
<1>4. Straight' = Straight
  BY <1>1 DEF Straight
<1> QED
  BY <1>1, <1>3, <1>4 DEF ActivityAddsUp

-----------------------------------------------------------------------------
(* The other steps.                                                        *)

\* They keep the marks of users who stay, and leave no marks of the others.
Kept ==
    /\ \A u \in User :
          \/ userMarks'[u] = userMarks[u] /\ marks'[u] = marks[u]
          \/ userMarks'[u] = NoMarks /\ marks'[u] = [p \in Protocol |-> NoMarks]
    /\ \A u \in users' \cap users : userMarks'[u] = userMarks[u] /\ marks'[u] = marks[u]
    /\ \A u \in users' \ users :
          /\ userMarks'[u] = userMarks[u] /\ marks'[u] = marks[u]
          /\ AllMarks(u) = {NoMarks}
    /\ newest' = newest
    /\ Straight' => Straight

\* A step that is no collection.
Other ==
    \/ \E u \in User : CreateUser(u) \/ DeleteUser(u) \/ Restart(u)
    \/ \E u \in User, p \in Protocol, n \in Network : Use(u, p, n)
    \/ Advance \/ SetClock
    \/ UNCHANGED vars

\* Empty marks.
LEMMA NoMarksFields ==
    /\ NoMarks.total = Never /\ NoMarks.update = Never
    /\ \A f \in Periods : NoMarks[f] = Never
  BY DEF NoMarks, Points

\* The other steps change no marks but those of a user who goes.
LEMMA OtherKept ==
    ASSUME TypeOK, Other
    PROVE  Kept
<1>1. \A u \in User \ users : AllMarks(u) = {NoMarks}
  BY DEF TypeOK, NothingLeft
<1>2. ASSUME UNCHANGED <<marks, userMarks, newest>>, users' \subseteq User,
             mishaps \subseteq mishaps'
      PROVE  Kept
  BY <1>1, <1>2 DEF Kept, Straight
<1>3. ASSUME NEW u \in User, DeleteUser(u)
      PROVE  Kept
  <2>1. mishaps \subseteq mishaps' /\ newest' = newest /\ users' = users \ {u}
    BY <1>3 DEF DeleteUser, Mishap
  <2>2. userMarks'[u] = NoMarks /\ marks'[u] = [p \in Protocol |-> NoMarks]
    BY <1>3 DEF DeleteUser, TypeOK
  <2>3. \A w \in User \ {u} : userMarks'[w] = userMarks[w] /\ marks'[w] = marks[w]
    BY <1>3 DEF DeleteUser, TypeOK
  <2>4. users' \subseteq users /\ users' \subseteq User \ {u}
    BY <2>1 DEF TypeOK
  <2>5. Straight' => Straight
    BY <2>1 DEF Straight
  <2> QED
    BY <2>1, <2>2, <2>3, <2>4, <2>5 DEF Kept
<1>4. ASSUME NEW u \in User, CreateUser(u) \/ Restart(u)
      PROVE  Kept
  BY <1>2, <1>4 DEF CreateUser, Restart, Mishap, markVars, boundVars, TypeOK
<1>5. ASSUME NEW u \in User, NEW p \in Protocol, NEW n \in Network, Use(u, p, n)
      PROVE  Kept
  BY <1>2, <1>5 DEF Use, markVars, TypeOK
<1>6. ASSUME Advance \/ SetClock \/ UNCHANGED vars
      PROVE  Kept
  BY <1>2, <1>6 DEF Advance, SetClock, Mishap, vars, markVars, boundVars, TypeOK
<1> QED
  BY <1>3, <1>4, <1>5, <1>6 DEF Other

\* So the marks stay exact and add up.
LEMMA OtherMarks ==
    ASSUME IInv, Other
    PROVE  MarksExact' /\ ActivityAddsUp'
<1>1. Kept
  BY OtherKept DEF IInv
<1>2. \A u \in users' : userMarks'[u] = userMarks[u] /\ marks'[u] = marks[u]
  BY <1>1 DEF Kept
<1>3. \A u \in users' : AllMarks(u)' = AllMarks(u)
  BY <1>2 DEF AllMarks
<1>4. InPeriod(NoMarks) /\ Exact(NoMarks)
  BY NoMarksFields DEF InPeriod, Exact
<1>5. MarksExact'
  <2>1. ASSUME NEW u \in users', NEW m \in AllMarks(u)
        PROVE  InPeriod(m) /\ (Straight => Exact(m))
    BY <1>1, <1>4, <2>1 DEF IInv, MarksExact, Kept
  <2> QED
    BY <1>1, <1>3, <2>1 DEF MarksExact, Kept
<1>6. ASSUME NEW u \in users' \ users
      PROVE  userMarks[u].total = Never /\ \A p \in Protocol : marks[u][p].total = Never
  BY <1>1, <1>6, NoMarksFields DEF Kept, AllMarks
<1>7. newest >= Never /\ Never >= Never
  BY DEF IInv, TypeOK, Time, Never
<1>8. PICK p \in Protocol : TRUE
  BY ActivityAssumption
<1>9. ASSUME NEW u \in users'
      PROVE  /\ newest >= userMarks[u].total
             /\ \A q \in Protocol : userMarks[u].total >= marks[u][q].total
             /\ Straight => \E q \in Protocol : userMarks[u].total = marks[u][q].total
  <2>1. CASE u \in users
    BY <2>1 DEF IInv, ActivityAddsUp
  <2>2. CASE u \notin users
    BY <1>6, <1>7, <1>8, <2>2
  <2> QED
    BY <2>1, <2>2
<1>10. ActivityAddsUp'
  BY <1>1, <1>2, <1>9 DEF ActivityAddsUp, Kept
<1> QED
  BY <1>5, <1>10

\* While no clock is set the two clocks go on together; a peer is seen now, or as
\* before, or not any more.
LEMMA OtherTime ==
    ASSUME TypeOK, Other, there = clock, Straight'
    PROVE  /\ there' = clock' /\ clock <= clock'
           /\ \A u \in User, p \in Protocol : lastSeen'[u][p] \in {lastSeen[u][p], clock, Never}
<1>1. clock \in Time /\ clock <= clock
  BY DEF TypeOK, Time
<1>2. ASSUME NEW u \in User, CreateUser(u)
      PROVE  UNCHANGED <<clock, there, lastSeen>>
  BY <1>2 DEF CreateUser, endpointVars
<1>3. ASSUME NEW u \in User, DeleteUser(u) \/ Restart(u)
      PROVE  /\ UNCHANGED <<clock, there>>
             /\ \A w \in User, p \in Protocol : lastSeen'[w][p] \in {lastSeen[w][p], Never}
  BY <1>3 DEF DeleteUser, Restart, TypeOK
<1>4. ASSUME NEW u \in User, NEW p \in Protocol, NEW n \in Network, Use(u, p, n)
      PROVE  /\ UNCHANGED <<clock, there>>
             /\ \A w \in User, q \in Protocol : lastSeen'[w][q] \in {lastSeen[w][q], there}
  BY <1>4 DEF Use, TypeOK
<1>5. ASSUME Advance
      PROVE  there' = clock' /\ clock <= clock' /\ lastSeen' = lastSeen
  BY <1>1, <1>5, ActivityAssumption DEF Advance, Time
<1>6. ~SetClock
  BY DEF SetClock, Mishap, Straight
<1>7. ASSUME UNCHANGED vars
      PROVE  UNCHANGED <<clock, there, lastSeen>>
  BY <1>7 DEF vars, endpointVars
<1> QED
  BY <1>1, <1>2, <1>3, <1>4, <1>5, <1>6, <1>7 DEF Other

\* The time of both hosts goes on, and nothing is seen but now.
LEMMA OtherClock ==
    ASSUME IInv, Other
    PROVE  ClockInv'
<1>1. Kept /\ TypeOK'
  BY OtherKept, TypeStep DEF IInv, Other, Next
<1>2. ASSUME NEW u \in User
      PROVE  \/ AllMarks(u)' = AllMarks(u)
             \/ AllMarks(u)' = {NoMarks}
  <2>1. CASE userMarks'[u] = userMarks[u] /\ marks'[u] = marks[u]
    BY <2>1 DEF AllMarks
  <2>2. CASE userMarks'[u] = NoMarks /\ marks'[u] = [p \in Protocol |-> NoMarks]
    BY <2>2 DEF AllMarks
  <2> QED
    BY <1>1, <2>1, <2>2 DEF Kept
<1>3. \A u \in User : \A p \in Protocol : marks'[u][p].update = userMarks'[u].update
  <2>1. ASSUME NEW u \in User, NEW p \in Protocol
        PROVE  marks'[u][p].update = userMarks'[u].update
    <3>1. CASE userMarks'[u] = userMarks[u] /\ marks'[u] = marks[u]
      BY <3>1 DEF IInv, ClockInv
    <3>2. CASE userMarks'[u] = NoMarks /\ marks'[u] = [q \in Protocol |-> NoMarks]
      BY <3>2
    <3> QED
      BY <1>1, <3>1, <3>2 DEF Kept
  <2> QED
    BY <2>1
<1>4. \A u \in User : \A m \in AllMarks(u)' :
         m.total = Never => \A f \in Periods : m[f] = Never
  BY <1>2, NoMarksFields DEF IInv, ClockInv
<1>5. ASSUME Straight'
      PROVE  /\ there' = clock'
             /\ \A u \in User : \A m \in AllMarks(u)' : m.update <= clock' /\ m.total <= clock'
             /\ \A u \in User : \A p \in Protocol :
                   lastSeen'[u][p] # Never => marks'[u][p].total <= lastSeen'[u][p]
                                             /\ lastSeen'[u][p] <= clock'
  <2>1. /\ there = clock
        /\ \A u \in User : \A m \in AllMarks(u) : m.update <= clock /\ m.total <= clock
        /\ \A u \in User : \A p \in Protocol :
              lastSeen[u][p] # Never => marks[u][p].total <= lastSeen[u][p]
                                        /\ lastSeen[u][p] <= clock
    BY <1>1, <1>5 DEF Kept, IInv, ClockInv
  <2>2. /\ there' = clock' /\ clock <= clock'
        /\ \A u \in User, p \in Protocol : lastSeen'[u][p] \in {lastSeen[u][p], clock, Never}
    BY <1>5, <2>1, OtherTime DEF IInv
  <2>3. /\ clock \in Instant /\ clock' \in Instant
        /\ \A t \in Instant : t <= clock => t <= clock'
        /\ \A t \in Instant : Never <= t
    BY <1>1, <2>2, ActivityAssumption DEF IInv, TypeOK, Instant, Time, Never
  <2>4. \A m \in Marks : m.update \in Instant /\ m.total \in Instant
    BY DEF Marks, Points, Instant
  <2>5. \A u \in User : AllMarks(u) \subseteq Marks
    BY DEF AllMarks, IInv, TypeOK
  <2>6. ASSUME NEW u \in User, NEW m \in AllMarks(u)'
        PROVE  m.update <= clock' /\ m.total <= clock'
    <3>1. CASE m \in AllMarks(u)
      BY <2>1, <2>3, <2>4, <2>5, <3>1
    <3>2. CASE m = NoMarks
      BY <2>3, <3>2, NoMarksFields
    <3> QED
      BY <1>2, <2>6, <3>1, <3>2
  <2>7. ASSUME NEW u \in User, NEW p \in Protocol, lastSeen'[u][p] # Never
        PROVE  marks'[u][p].total <= lastSeen'[u][p] /\ lastSeen'[u][p] <= clock'
    <3>1. lastSeen[u][p] \in Instant
      BY DEF IInv, TypeOK, Instant
    <3>2. marks[u][p] \in AllMarks(u) /\ marks[u][p].total <= clock
      BY <2>1 DEF AllMarks
    <3>3. lastSeen'[u][p] \in {lastSeen[u][p], clock}
      BY <2>2, <2>7
    <3>4. /\ marks[u][p].total <= lastSeen'[u][p] /\ lastSeen'[u][p] <= clock'
          /\ lastSeen'[u][p] \in Instant
      BY <2>1, <2>2, <2>3, <2>7, <3>1, <3>2, <3>3
    <3>5. CASE marks'[u] = marks[u]
      BY <3>4, <3>5
    <3>6. CASE marks'[u] = [q \in Protocol |-> NoMarks]
      BY <2>3, <3>4, <3>6, NoMarksFields
    <3> QED
      BY <1>1, <3>4, <3>5, <3>6 DEF Kept
  <2> QED
    BY <2>2, <2>6, <2>7
<1> QED
  BY <1>3, <1>4, <1>5 DEF ClockInv

-----------------------------------------------------------------------------
(* The stack of months.                                                    *)

\* A collection adds its traffic to the last entry of the stack when that is of the
\* same month, and else to a new one.
MonthGoesOn(more) ==
    /\ stack[StackSize].time = Never \/ SameMonth(stack[StackSize].time, there)
    /\ stack'[StackSize].traffic = stack[StackSize].traffic + more
    /\ \A i \in 1 .. StackSize - 1 : stack'[i] = stack[i]

MonthIsNew(more) ==
    /\ stack[StackSize].time # Never /\ ~SameMonth(stack[StackSize].time, there)
    /\ stack'[StackSize].traffic = more
    /\ \A i \in 1 .. StackSize - 1 : stack'[i] = stack[i + 1]

\* What a collection does to the stack and to the history.
LEMMA CollectStack ==
    ASSUME TypeOK, NEW listed \in SUBSET (users \X Protocol), Collect(listed)
    PROVE  /\ stack'[StackSize].time = there
           /\ \E more \in Nat : /\ log' = [log EXCEPT ![MonthStart(there)] = @ + more]
                                /\ MonthGoesOn(more) \/ MonthIsNew(more)
<1> DEFINE active == Cardinality({u \in users : Active(userMarks'[u].total)})
           more == Cardinality(listed)
<1>1. /\ stack' = Put(stack, there, active, more)
      /\ log' = [log EXCEPT ![MonthStart(there)] = @ + more]
  BY DEF Collect
<1>2. more \in Nat
  <2>1. users \subseteq User
    BY DEF TypeOK
  <2>2. IsFiniteSet(users) /\ IsFiniteSet(Protocol)
    BY <2>1, ActivityAssumption, FS_Subset
  <2>3. IsFiniteSet(users \X Protocol)
    BY <2>2, FS_Product
  <2> QED
    BY <2>3, FS_Subset, FS_CardinalityType
<1> HIDE DEF active, more
<1>3. /\ StackSize \in Nat /\ StackSize >= 2 /\ Stack = 1 .. StackSize
      /\ stack \in [Stack -> Entries]
  BY MonthFacts DEF Stack, TypeOK
<1>4. CASE stack[StackSize].time = Never \/ SameMonth(stack[StackSize].time, there)
  <2>1. stack' = [stack EXCEPT ![StackSize] =
                    [time |-> there, active |-> active, traffic |-> @.traffic + more]]
    BY <1>1, <1>4 DEF Put
  <2>2. stack'[StackSize].time = there /\ MonthGoesOn(more)
    BY <1>3, <1>4, <2>1 DEF MonthGoesOn
  <2> QED
    BY <1>1, <1>2, <2>2
<1>5. CASE stack[StackSize].time # Never /\ ~SameMonth(stack[StackSize].time, there)
  <2> DEFINE shifted == [i \in Stack |-> IF i = StackSize THEN NoEntry ELSE stack[i + 1]]
  <2>1. stack' = [shifted EXCEPT ![StackSize] =
                    [time |-> there, active |-> active, traffic |-> @.traffic + more]]
    BY <1>1, <1>5 DEF Put
  <2>2. shifted[StackSize].traffic = 0 /\ \A i \in 1 .. StackSize - 1 : shifted[i] = stack[i + 1]
    BY <1>3 DEF NoEntry
  <2>3. stack'[StackSize].time = there /\ MonthIsNew(more)
    <3>1. /\ stack'[StackSize].time = there
          /\ stack'[StackSize].traffic = shifted[StackSize].traffic + more
          /\ \A i \in 1 .. StackSize - 1 : stack'[i] = shifted[i]
      BY <1>3, <2>1
    <3> HIDE DEF shifted
    <3> QED
      BY <1>2, <1>5, <2>2, <3>1 DEF MonthIsNew
  <2> QED
    BY <1>1, <1>2, <2>3
<1> QED
  BY <1>4, <1>5

\* The unused entries stay at the beginning, and empty.
LEMMA CollectUsed ==
    ASSUME IInv, NEW listed \in SUBSET (users \X Protocol), Collect(listed), NEW i \in Stack
    PROVE  IF stack'[i].time = Never THEN stack'[i] = NoEntry
           ELSE \A j \in i + 1 .. StackSize : stack'[j].time # Never
<1>1. /\ StackSize \in Nat /\ StackSize >= 2 /\ Stack = 1 .. StackSize
      /\ there # Never
  BY MonthFacts, ActivityAssumption DEF Stack, IInv, TypeOK, Time, Never
<1>2. stack'[StackSize].time = there
  BY CollectStack DEF IInv
<1>3. PICK more \in Nat : MonthGoesOn(more) \/ MonthIsNew(more)
  BY CollectStack DEF IInv
<1>4. \A k \in 1 .. StackSize :
         IF stack[k].time = Never THEN stack[k] = NoEntry
         ELSE \A j \in k + 1 .. StackSize : stack[j].time # Never
  BY <1>1 DEF IInv, StackInv
<1>5. CASE i = StackSize
  BY <1>1, <1>2, <1>5
<1>6. CASE i \in 1 .. StackSize - 1 /\ MonthGoesOn(more)
  <2>1. /\ stack'[i] = stack[i]
        /\ \A j \in i + 1 .. StackSize : stack'[j].time = there \/ stack'[j] = stack[j]
    BY <1>1, <1>2, <1>6 DEF MonthGoesOn
  <2>2. i \in 1 .. StackSize
    BY <1>1
  <2> QED
    BY <1>1, <1>4, <2>1, <2>2
<1>7. CASE i \in 1 .. StackSize - 1 /\ MonthIsNew(more)
  <2>1. /\ stack'[i] = stack[i + 1] /\ i + 1 \in 1 .. StackSize
        /\ \A j \in i + 1 .. StackSize :
              \/ stack'[j].time = there
              \/ stack'[j] = stack[j + 1] /\ j + 1 \in (i + 1) + 1 .. StackSize
    BY <1>1, <1>2, <1>7 DEF MonthIsNew
  <2> QED
    BY <1>1, <1>4, <2>1
<1> QED
  BY <1>1, <1>3, <1>5, <1>6, <1>7

\* While the endpoint's clock is not set, the months go up to that of the last entry, and
\* a new month is later than all of them.
LEMMA CollectMonths ==
    ASSUME IInv, NEW listed \in SUBSET (users \X Protocol), Collect(listed), EndpointStraight
    PROVE  /\ \A i \in Stack : stack'[i].time # Never =>
                 /\ stack'[i].traffic = log'[MonthStart(stack'[i].time)]
                 /\ \A j \in i + 1 .. StackSize :
                       MonthStart(stack'[i].time) < MonthStart(stack'[j].time)
           /\ \A i \in Stack : stack'[i].time <= there
           /\ \A m \in Time : MonthStart(there) < m => log'[m] = 0
<1> DEFINE K == StackSize
           last == stack[K].time
           start == MonthStart(there)
           S(i) == MonthStart(stack[i].time)
<1>1. K \in Nat /\ K >= 2 /\ Stack = 1 .. K /\ K \in Stack
  BY MonthFacts DEF Stack
<1>2. /\ there \in Time /\ there <= there /\ start \in Time /\ there # Never
      /\ \A t \in Time : t \in Int
  <2>1. there \in Time
    BY DEF IInv, TypeOK
  <2>2. Never \notin Time /\ Time \subseteq Int
    BY ActivityAssumption DEF Time, Never
  <2> QED
    BY <2>1, <2>2, MonthFacts
<1>3. stack'[K].time = there
  BY CollectStack DEF IInv
<1>4. PICK more \in Nat : /\ log' = [log EXCEPT ![start] = @ + more]
                          /\ MonthGoesOn(more) \/ MonthIsNew(more)
  BY CollectStack DEF IInv
<1>5. /\ \A i \in 1 .. K : stack[i].time # Never => stack[i].time \in Time /\ S(i) \in Time
      /\ \A i \in 1 .. K : stack[i].traffic \in Nat
      /\ \A m \in Time : log[m] \in Nat
  <2>1. stack \in [1 .. K -> Entries] /\ log \in [Time -> Nat]
    BY <1>1 DEF IInv, TypeOK
  <2>2. \A i \in 1 .. K : stack[i].time # Never => stack[i].time \in Time
    BY <2>1 DEF Entries
  <2>3. \A i \in 1 .. K : stack[i].traffic \in Nat
    BY <2>1 DEF Entries
  <2> QED
    BY <2>1, <2>2, <2>3, MonthFacts
<1>6. /\ \A i \in 1 .. K : stack[i].time # Never =>
            /\ stack[i].traffic = log[S(i)]
            /\ \A j \in i + 1 .. K : stack[j].time # Never /\ S(i) < S(j)
      /\ \A i \in 1 .. K : stack[i].time <= there
      /\ \A m \in Time : last = Never \/ S(K) < m => log[m] = 0
      /\ last = Never => stack[K].traffic = 0
  BY <1>1 DEF IInv, StackExact, StackInv, NoEntry
<1>7. /\ log'[start] = log[start] + more
      /\ \A m \in Time : m # start => log'[m] = log[m]
  BY <1>2, <1>4 DEF IInv, TypeOK
<1>8. last # Never => IF SameMonth(last, there) THEN S(K) = start ELSE S(K) < start
  BY <1>1, <1>2, <1>5, <1>6, MonthFacts
<1>9. last = stack[K].time /\ (last # Never => S(K) \in Time)
  BY <1>1, <1>5
<1>10. \A i \in 1 .. K - 1 : i \in 1 .. K /\ K \in i + 1 .. K /\ i + 1 \in 1 .. K
  BY <1>1
<1>11. /\ MonthGoesOn(more) =>
             /\ last = Never \/ SameMonth(last, there)
             /\ stack'[K].traffic = stack[K].traffic + more
             /\ \A i \in 1 .. K - 1 : stack'[i] = stack[i]
       /\ MonthIsNew(more) =>
             /\ last # Never /\ ~SameMonth(last, there)
             /\ stack'[K].traffic = more
             /\ \A i \in 1 .. K - 1 : stack'[i] = stack[i + 1]
       /\ start = MonthStart(there)
       /\ \A i : S(i) = MonthStart(stack[i].time)
  BY DEF MonthGoesOn, MonthIsNew
<1> HIDE DEF K, last, start, S
<1>12. \A m \in Time : start < m => log'[m] = 0
  <2> SUFFICES ASSUME NEW m \in Time, start < m
               PROVE  log'[m] = 0
    OBVIOUS
  <2>1. m # start /\ (last # Never => S(K) < m)
    <3>1. last # Never => S(K) = start \/ S(K) < start
      BY <1>8
    <3> QED
      BY <1>2, <1>9, <3>1
  <2> QED
    BY <1>2, <1>6, <1>7, <2>1
\* The last entry has the traffic of its month.
<1>13. stack'[K].traffic = log'[start]
  <2>1. CASE MonthGoesOn(more)
    <3>1. stack[K].traffic = log[start]
      BY <1>1, <1>2, <1>6, <1>8, <1>9, <1>11, <2>1
    <3> QED
      BY <1>7, <1>11, <2>1, <3>1
  <2>2. CASE MonthIsNew(more)
    <3>1. log[start] = 0
      BY <1>2, <1>6, <1>8, <1>11, <2>2
    <3> QED
      BY <1>7, <1>11, <2>2, <3>1
  <2> QED
    BY <1>4, <2>1, <2>2
\* The other entries keep that of theirs, which are earlier months.
<1>14. ASSUME NEW i \in 1 .. K - 1, stack'[i].time # Never
       PROVE  /\ MonthStart(stack'[i].time) \in Time /\ MonthStart(stack'[i].time) < start
              /\ stack'[i].traffic = log'[MonthStart(stack'[i].time)]
  <2>1. CASE MonthGoesOn(more)
    <3>1. stack'[i] = stack[i] /\ i \in 1 .. K /\ K \in i + 1 .. K
      BY <1>10, <1>11, <2>1
    <3>2. stack[i].traffic = log[S(i)] /\ last # Never /\ S(i) < S(K) /\ S(i) \in Time
      BY <1>5, <1>6, <1>9, <1>14, <3>1
    <3>3. S(K) = start /\ S(i) # start
      BY <1>2, <1>8, <1>11, <2>1, <3>2
    <3>4. stack'[i].traffic = log'[S(i)]
      BY <1>7, <3>1, <3>2, <3>3
    <3> QED
      BY <1>11, <3>1, <3>2, <3>3, <3>4
  <2>2. CASE MonthIsNew(more)
    <3>1. stack'[i] = stack[i + 1] /\ i + 1 \in 1 .. K
      BY <1>10, <1>11, <2>2
    <3>2. /\ stack[i + 1].traffic = log[S(i + 1)] /\ S(i + 1) \in Time
          /\ i + 1 = K \/ S(i + 1) < S(K)
      <4>1. i + 1 = K \/ K \in (i + 1) + 1 .. K
        BY <1>1
      <4> QED
        BY <1>5, <1>6, <1>14, <3>1, <4>1
    <3>3. S(K) < start /\ S(K) \in Time
      BY <1>8, <1>9, <1>11, <2>2
    <3>4. S(i + 1) < start /\ S(i + 1) # start
      BY <1>2, <3>2, <3>3
    <3>5. stack'[i].traffic = log'[S(i + 1)]
      BY <1>7, <3>1, <3>2, <3>4
    <3> QED
      BY <1>11, <3>1, <3>2, <3>4, <3>5
  <2> QED
    BY <1>4, <2>1, <2>2
<1>15. ASSUME NEW i \in 1 .. K - 1, stack'[i].time # Never, NEW j \in i + 1 .. K
       PROVE  MonthStart(stack'[i].time) < MonthStart(stack'[j].time)
  <2>1. CASE j = K
    BY <1>3, <1>11, <1>14, <1>15, <2>1
  <2>2. CASE j # K /\ MonthGoesOn(more)
    <3>1. j \in 1 .. K - 1 /\ i \in 1 .. K
      BY <1>1, <2>2
    <3>2. stack'[i] = stack[i] /\ stack'[j] = stack[j]
      BY <1>11, <2>2, <3>1
    <3> QED
      BY <1>6, <1>11, <1>15, <3>1, <3>2
  <2>3. CASE j # K /\ MonthIsNew(more)
    <3>1. j \in 1 .. K - 1 /\ i + 1 \in 1 .. K /\ j + 1 \in (i + 1) + 1 .. K
      BY <1>1, <2>3
    <3>2. stack'[i] = stack[i + 1] /\ stack'[j] = stack[j + 1]
      BY <1>11, <2>3, <3>1
    <3> QED
      BY <1>6, <1>11, <1>15, <3>1, <3>2
  <2> QED
    BY <1>4, <2>1, <2>2, <2>3
<1>16. \A i \in 1 .. K : stack'[i].time <= there
  BY <1>1, <1>2, <1>3, <1>4, <1>6, <1>10, <1>11
<1> QED
  <2> SUFFICES ASSUME NEW i \in 1 .. K, stack'[i].time # Never
               PROVE  /\ stack'[i].traffic = log'[MonthStart(stack'[i].time)]
                      /\ \A j \in i + 1 .. K :
                            MonthStart(stack'[i].time) < MonthStart(stack'[j].time)
    BY <1>1, <1>11, <1>12, <1>16 DEF K
  <2>1. CASE i = K
    BY <1>1, <1>3, <1>11, <1>13, <2>1
  <2>2. CASE i # K
    <3>1. i \in 1 .. K - 1
      BY <1>1, <2>2
    <3> QED
      BY <1>14, <1>15, <3>1
  <2> QED
    BY <2>1, <2>2

\* A collection keeps the stack right.
LEMMA CollectStackInv ==
    ASSUME IInv, NEW listed \in SUBSET (users \X Protocol), Collect(listed)
    PROVE  StackExact' /\ StackInv'
<1>1. /\ UNCHANGED <<there, mishaps>> /\ stack'[StackSize].time = there
      /\ there # Never
  <2>1. UNCHANGED <<there, mishaps>>
    BY DEF Collect, endpointVars
  <2>2. there # Never
    BY ActivityAssumption DEF IInv, TypeOK, Time, Never
  <2> QED
    BY <2>1, <2>2, CollectStack DEF IInv
<1>2. \A i \in Stack : IF stack'[i].time = Never THEN stack'[i] = NoEntry
                       ELSE \A j \in i + 1 .. StackSize : stack'[j].time # Never
  BY CollectUsed
<1>3. EndpointStraight' => EndpointStraight
  BY <1>1 DEF EndpointStraight
<1>4. EndpointStraight =>
         /\ \A i \in Stack : stack'[i].time # Never =>
               /\ stack'[i].traffic = log'[MonthStart(stack'[i].time)]
               /\ \A j \in i + 1 .. StackSize :
                     MonthStart(stack'[i].time) < MonthStart(stack'[j].time)
         /\ \A i \in Stack : stack'[i].time <= there
         /\ \A m \in Time : MonthStart(there) < m => log'[m] = 0
  BY CollectMonths
<1>5. StackExact'
  BY <1>2, <1>3, <1>4 DEF StackExact
<1>6. StackInv'
  BY <1>1, <1>2, <1>3, <1>4 DEF StackInv
<1> QED
  BY <1>5, <1>6

\* The other steps leave it alone, and can only let the endpoint's time go on or set its
\* clock.
LEMMA OtherStack ==
    ASSUME IInv, Other
    PROVE  StackExact' /\ StackInv'
<1>1. UNCHANGED <<stack, log>>
  BY DEF Other, CreateUser, DeleteUser, Restart, Use, Advance, SetClock, vars, statVars
<1>2. EndpointStraight' => EndpointStraight /\ there <= there'
  <2>1. there \in Int
    BY DEF IInv, TypeOK, Time
  <2>2. ASSUME UNCHANGED there, mishaps \subseteq mishaps'
        PROVE  EndpointStraight' => EndpointStraight /\ there <= there'
    BY <2>1, <2>2 DEF EndpointStraight
  <2>3. CASE Advance
    BY <2>1, <2>3, ActivityAssumption DEF Advance, EndpointStraight, boundVars, IInv, TypeOK, Time
  <2>4. CASE SetClock
    <3>1. CASE UNCHANGED there /\ mishaps \subseteq mishaps'
      BY <2>2, <3>1
    <3>2. CASE Mishap("endpoint")
      <4>1. ~EndpointStraight'
        BY <3>2 DEF Mishap, EndpointStraight
      <4> QED
        BY <4>1
    <3> QED
      BY <2>4, <3>1, <3>2 DEF SetClock, Mishap, endpointVars
  <2>5. CASE ~Advance /\ ~SetClock
    <3>1. UNCHANGED there /\ mishaps \subseteq mishaps'
      BY <2>5 DEF Other, CreateUser, DeleteUser, Restart, Use, Mishap, vars, endpointVars, boundVars
    <3> QED
      BY <2>2, <3>1
  <2> QED
    BY <2>3, <2>4, <2>5
<1>3. StackExact'
  BY <1>1, <1>2 DEF IInv, StackExact
<1>4. StackInv'
  <2>1. \A i \in Stack : stack[i].time \in Int /\ there \in Int /\ there' \in Int
    <3>1. TypeOK'
      BY TypeStep DEF IInv, Other, Next
    <3>2. \A t \in Time \cup {Never} : t \in Int
      BY ActivityAssumption DEF Time, Never
    <3> QED
      BY <3>1, <3>2 DEF IInv, TypeOK, Entries
  <2>2. EndpointStraight' => \A i \in Stack : stack[i].time <= there'
    <3>1. EndpointStraight' => \A i \in Stack : stack[i].time <= there /\ there <= there'
      BY <1>2 DEF IInv, StackInv
    <3> QED
      BY <2>1, <3>1
  <2> QED
    BY <1>1, <1>2, <2>2 DEF IInv, StackInv
<1> QED
  BY <1>3, <1>4

-----------------------------------------------------------------------------
(* The networks.                                                           *)

\* A collection lists a network with the last time somebody was active there, or before.
LEMMA CollectNetworks ==
    ASSUME TypeOK, NetworkInv, NEW listed \in SUBSET (users \X Protocol), Collect(listed),
           NEW n \in Network
    PROVE  /\ networks'[n] <= visited[n]
           /\ networks'[n] # Never => clock - EndpointsTTL <= networks'[n]
<1> DEFINE from == [q \in users \X Protocol |->
                      IF q \in listed THEN place[q[1]][q[2]] ELSE NoNetwork]
           S == {networks[n]} \cup
                  {Seen(listed)[q] : q \in {r \in DOMAIN Seen(listed) : from[r] = n}}
<1>1. \A t \in Instant : t \in Int /\ Never <= t
  BY ActivityAssumption DEF Instant, Time, Never
<1>2. /\ networks[n] \in Instant /\ visited[n] \in Instant /\ users \subseteq User
      /\ \A u \in User, p \in Protocol : lastSeen[u][p] \in Instant
  BY DEF TypeOK, Instant
<1>3. ASSUME NEW q \in DOMAIN Seen(listed), from[q] = n
      PROVE  Seen(listed)[q] \in Instant /\ Seen(listed)[q] <= visited[n]
  <2>1. q \in users \X Protocol /\ n # NoNetwork
    BY <1>3, ActivityAssumption DEF Seen
  <2>2. q \in listed /\ place[q[1]][q[2]] = n
    BY <1>3, <2>1
  <2>3. Seen(listed)[q] = lastSeen[q[1]][q[2]] /\ q[1] \in User /\ q[2] \in Protocol
    BY <1>2, <2>1, <2>2 DEF Seen
  <2>4. lastSeen[q[1]][q[2]] # Never => lastSeen[q[1]][q[2]] <= visited[n]
    BY <2>2, <2>3 DEF NetworkInv
  <2> QED
    BY <1>1, <1>2, <2>3, <2>4
<1>4. S \subseteq Instant /\ S # {} /\ \A t \in S : t <= visited[n]
  BY <1>2, <1>3 DEF NetworkInv
<1>5. networks'[n] = IF Max(S) < clock - EndpointsTTL THEN Never ELSE Max(S)
  BY DEF Collect, Seen, Listed
<1> HIDE DEF S
<1>6. Max(S) \in Instant /\ Max(S) <= visited[n]
  BY <1>4, MaxOfTimes
<1>7. clock - EndpointsTTL \in Int
  BY ActivityAssumption DEF TypeOK, Time
<1> QED
  BY <1>1, <1>2, <1>5, <1>6, <1>7

\* Every step keeps what is known of the networks: the endpoint sees a peer where somebody
\* is active now, and nothing visited is forgotten.
LEMMA NetworkStep ==
    ASSUME IInv, [Next]_vars
    PROVE  NetworkInv'
<1>1. \A t \in Instant : t \in Int /\ t <= t /\ Never <= t
  BY ActivityAssumption DEF Instant, Time, Never
<1>2. /\ networks \in [Network -> Instant] /\ visited \in [Network -> Instant]
      /\ lastSeen \in [User -> [Protocol -> Instant]] /\ there \in Instant
      /\ place \in [User -> [Protocol -> Network \cup {NoNetwork}]]
  BY DEF IInv, TypeOK, Instant
<1>3. ASSUME UNCHANGED <<networks, visited>>,
             \A u \in User, p \in Protocol :
                \/ lastSeen'[u][p] = Never
                \/ lastSeen'[u][p] = lastSeen[u][p] /\ place'[u][p] = place[u][p]
      PROVE  NetworkInv'
  BY <1>3 DEF IInv, NetworkInv
<1>4. ASSUME NEW u \in User, NEW p \in Protocol, NEW n \in Network, Use(u, p, n)
      PROVE  NetworkInv'
  <2>1. Max({visited[n], there}) \in Instant /\ visited[n] <= Max({visited[n], there})
        /\ there <= Max({visited[n], there})
    <3>1. {visited[n], there} \subseteq Instant
      BY <1>2
    <3> QED
      BY <3>1, MaxOfTimes
  <2>2. /\ visited'[n] = Max({visited[n], there})
        /\ \A k \in Network : k # n => visited'[k] = visited[k]
        /\ networks' = networks
    BY <1>2, <1>4 DEF Use, statVars
  <2>3. \A k \in Network : visited[k] <= visited'[k] /\ visited'[k] \in Instant
    BY <1>1, <1>2, <2>1, <2>2
  <2>4. \A w \in User, q \in Protocol :
           \/ lastSeen'[w][q] = there /\ place'[w][q] = n
           \/ lastSeen'[w][q] = lastSeen[w][q] /\ place'[w][q] = place[w][q]
    BY <1>2, <1>4 DEF Use
  <2>5. ASSUME NEW k \in Network
        PROVE  networks'[k] <= visited'[k]
    <3>1. networks[k] <= visited[k]
      BY DEF IInv, NetworkInv
    <3> QED
      BY <1>1, <1>2, <2>2, <2>3, <3>1
  <2>6. ASSUME NEW w \in User, NEW q \in Protocol, lastSeen'[w][q] # Never
        PROVE  place'[w][q] \in Network /\ lastSeen'[w][q] <= visited'[place'[w][q]]
    <3>1. CASE lastSeen'[w][q] = there /\ place'[w][q] = n
      BY <2>1, <2>2, <3>1
    <3>2. CASE lastSeen'[w][q] = lastSeen[w][q] /\ place'[w][q] = place[w][q]
      <4>1. place[w][q] \in Network /\ lastSeen[w][q] <= visited[place[w][q]]
        BY <2>6, <3>2 DEF IInv, NetworkInv
      <4> QED
        BY <1>1, <1>2, <2>3, <3>2, <4>1
    <3> QED
      BY <2>4, <3>1, <3>2
  <2> QED
    BY <2>5, <2>6 DEF NetworkInv
<1>5. ASSUME NEW u \in User, DeleteUser(u) \/ Restart(u)
      PROVE  NetworkInv'
  <2>1. \A w \in User, p \in Protocol :
           \/ lastSeen'[w][p] = Never
           \/ lastSeen'[w][p] = lastSeen[w][p] /\ place'[w][p] = place[w][p]
    BY <1>2, <1>5 DEF DeleteUser, Restart
  <2> QED
    BY <1>3, <1>5, <2>1 DEF DeleteUser, Restart, statVars
<1>6. ASSUME UNCHANGED <<networks, visited, lastSeen, place>>
      PROVE  NetworkInv'
  BY <1>3, <1>6
<1>7. ASSUME NEW listed \in SUBSET (users \X Protocol), Collect(listed)
      PROVE  NetworkInv'
  <2>1. UNCHANGED <<visited, lastSeen, place>>
    BY <1>7 DEF Collect, endpointVars
  <2>2. \A n \in Network : networks'[n] <= visited[n]
    BY <1>7, CollectNetworks DEF IInv
  <2> QED
    BY <2>1, <2>2 DEF IInv, NetworkInv
<1>8. ASSUME (\E u \in User : CreateUser(u)) \/ Advance \/ SetClock \/ UNCHANGED vars
      PROVE  NetworkInv'
  BY <1>6, <1>8 DEF CreateUser, Advance, SetClock, vars, endpointVars, statVars
<1> QED
  BY <1>4, <1>5, <1>7, <1>8 DEF Next

-----------------------------------------------------------------------------
(* The months the dashboard shows.                                         *)

\* A set of numbers with 0, and with the successor of each, has all.
LEMMA NumberInduction ==
    ASSUME NEW Good \in SUBSET Nat, 0 \in Good, \A n \in Good : n + 1 \in Good
    PROVE  Good = Nat
<1> DEFINE Less == OpToRel(<, Nat)
           Rest == Nat \ Good
<1> SUFFICES ASSUME Rest # {}
             PROVE  FALSE
  OBVIOUS
<1>1. PICK n \in Rest : \A m \in Rest : <<m, n>> \notin Less
  <2>1. IsWellFoundedOn(Less, Nat) /\ Rest \subseteq Nat
    BY NatLessThanWellFounded
  <2> HIDE DEF Less, Rest
  <2> QED
    BY <2>1, WFMin
<1>2. \A m \in Rest : ~(m < n)
  BY <1>1 DEF OpToRel
<1>3. n \in Nat /\ n \notin Good /\ \A m \in Nat : m < n => m \in Good
  BY <1>1, <1>2
<1>4. n # 0
  BY <1>3
<1>5. n - 1 \in Nat /\ n - 1 < n /\ (n - 1) + 1 = n
  BY <1>3, <1>4
<1> QED
  BY <1>3, <1>5

\* Quotient and remainder, and that they are the only ones.
LEMMA Division ==
    ASSUME NEW t \in Int, NEW b \in Nat \ {0}
    PROVE  /\ t \div b \in Int /\ t % b \in Nat /\ t % b < b /\ t = (t \div b) * b + (t % b)
           /\ \A q \in Int, r \in Nat : r < b /\ t = q * b + r => t \div b = q /\ t % b = r
  OBVIOUS

\* The remainder of what is less than the divisor, or than twice it.
LEMMA SmallRemainder ==
    ASSUME NEW r \in Nat, NEW n \in Nat, r < n
    PROVE  r % n = r /\ (n + r) % n = r
<1>1. /\ r \in Int /\ n + r \in Int /\ n \in Nat \ {0}
      /\ 0 * n + r = r /\ 1 * n + r = n + r
  OBVIOUS
<1>2. \A t \in Int, q \in Int : t = q * n + r => t % n = r
  BY <1>1, Division
<1> QED
  BY <1>1, <1>2

\* A remainder may be taken before or after a sum.
LEMMA RemainderAdds ==
    ASSUME NEW x \in Int, NEW y \in Int, NEW n \in Nat \ {0}
    PROVE  ((x % n) + y) % n = (x + y) % n
<1> DEFINE q == x \div n
           p == ((x % n) + y) \div n
           r == ((x % n) + y) % n
<1>1. q \in Int /\ x % n \in Int /\ x = q * n + (x % n)
  BY Division
<1>2. p \in Int /\ r \in Nat /\ r < n /\ (x % n) + y = p * n + r
  <2>1. (x % n) + y \in Int
    BY <1>1
  <2> QED
    BY <2>1, Division
<1>3. x + y = (q + p) * n + r
  <2> HIDE DEF q, p, r
  <2>1. x + y = q * n + (p * n + r)
    BY <1>1, <1>2
  <2>2. (q + p) * n = q * n + p * n
    BY <1>1, <1>2
  <2> QED
    BY <1>1, <1>2, <2>1, <2>2
<1>4. q + p \in Int /\ x + y \in Int
  BY <1>1, <1>2
<1> HIDE DEF q, p, r
<1>5. (x + y) % n = r
  BY <1>2, <1>3, <1>4, Division
<1> QED
  BY <1>5 DEF r

\* Months that follow each other come round after a year.
LEMMA CountedOn ==
    ASSUME NEW n \in Nat \ {0}, NEW f, NEW lo \in Nat, NEW hi \in Nat, lo <= hi, f[lo] \in 1 .. n,
           \A j \in lo .. hi - 1 : f[j + 1] = (f[j] % n) + 1
    PROVE  f[hi] = ((f[lo] + (hi - lo) - 1) % n) + 1
<1> DEFINE Good == {d \in Nat : lo + d <= hi => f[lo + d] = ((f[lo] + d - 1) % n) + 1}
<1>1. 0 \in Good
  <2>1. (f[lo] - 1) % n = f[lo] - 1
    <3>1. f[lo] - 1 \in Nat /\ f[lo] - 1 < n
      OBVIOUS
    <3> QED
      BY <3>1, SmallRemainder
  <2>2. lo + 0 = lo /\ f[lo] + 0 - 1 = f[lo] - 1 /\ (f[lo] - 1) + 1 = f[lo]
    OBVIOUS
  <2> QED
    BY <2>1, <2>2
<1>2. ASSUME NEW d \in Good
      PROVE  d + 1 \in Good
  <2> SUFFICES ASSUME lo + (d + 1) <= hi
               PROVE  f[lo + (d + 1)] = ((f[lo] + (d + 1) - 1) % n) + 1
    OBVIOUS
  <2>1. /\ lo + d \in lo .. hi - 1 /\ lo + d <= hi /\ (lo + d) + 1 = lo + (d + 1)
    OBVIOUS
  <2>2. f[lo + (d + 1)] = ((((f[lo] + d - 1) % n) + 1) % n) + 1
    BY <2>1
  <2>3. f[lo] + d - 1 \in Int /\ (f[lo] + d - 1) + 1 = f[lo] + (d + 1) - 1
    OBVIOUS
  <2>4. (((f[lo] + d - 1) % n) + 1) % n = ((f[lo] + d - 1) + 1) % n
    BY <2>3, RemainderAdds
  <2> QED
    BY <2>2, <2>3, <2>4
<1>3. Good = Nat
  <2>1. Good \in SUBSET Nat
    OBVIOUS
  <2> HIDE DEF Good
  <2> QED
    BY <1>1, <1>2, <2>1, NumberInduction
<1>4. hi - lo \in Nat /\ lo + (hi - lo) = hi /\ hi <= hi
  OBVIOUS
<1>5. \A d \in Nat : lo + d <= hi => f[lo + d] = ((f[lo] + d - 1) % n) + 1
  BY <1>3
<1> QED
  BY <1>4, <1>5

MonthOf(i) == IF stack[i].time = Never THEN 1 ELSE Month(stack[i].time)

\* The recursion of MonthsShown.
IsShown(h) ==
    h = [i \in 0 .. StackSize |->
           IF i = 0 THEN MonthOf(StackSize)
           ELSE IF stack[i].time = Never THEN (h[i - 1] % StackSize) + 1
           ELSE MonthOf(i)]

\* The months shown are those of the recursion.
LEMMA ShownUnfolded == MonthsShown(stack) = [i \in Stack |-> (CHOOSE h : IsShown(h))[i]]
  BY DEF MonthsShown, IsShown, MonthOf

\* Every entry has a month.
LEMMA MonthsTyped ==
    ASSUME TypeOK
    PROVE  \A i \in Stack : MonthOf(i) \in Stack
<1>1. \A i \in Stack : stack[i].time # Never => stack[i].time \in Time
  BY DEF TypeOK, Entries
<1>2. 1 \in Stack
  BY MonthFacts DEF Stack
<1> QED
  BY <1>1, <1>2, MonthFacts DEF MonthOf

\* The recursion has a solution, as the unused entries come first: they count on from
\* the last month.
LEMMA ShownExists ==
    ASSUME TypeOK, StackInv
    PROVE  \E h : IsShown(h)
<1> DEFINE N == StackSize
           a == MonthOf(StackSize)
           w == [i \in 0 .. N |-> IF i = 0 THEN a
                                  ELSE IF stack[i].time = Never THEN ((a + i - 1) % N) + 1
                                  ELSE MonthOf(i)]
<1>1. N \in Nat /\ N >= 2 /\ Stack = 1 .. N
  BY MonthFacts DEF Stack
<1>2. a \in 1 .. N
  BY <1>1, MonthsTyped
<1> HIDE DEF a
<1>3. ASSUME NEW i \in 1 .. N, stack[i].time = Never
      PROVE  ((a + i - 1) % N) + 1 = (w[i - 1] % N) + 1
  <2>1. CASE i = 1
    BY <1>1, <1>2, <2>1
  <2>2. CASE i # 1
    <3>1. i - 1 \in 1 .. N /\ i \in (i - 1) + 1 .. N /\ i - 1 # 0 /\ i - 1 \in 0 .. N
      BY <1>1, <2>2
    <3>2. stack[i - 1].time = Never
      BY <1>1, <1>3, <3>1 DEF StackInv
    <3>3. w[i - 1] = ((a + (i - 1) - 1) % N) + 1
      BY <3>1, <3>2
    <3>4. a + (i - 1) - 1 \in Int /\ (a + (i - 1) - 1) + 1 = a + i - 1 /\ N \in Nat \ {0}
      BY <1>1, <1>2
    <3>5. (((a + (i - 1) - 1) % N) + 1) % N = ((a + (i - 1) - 1) + 1) % N
      BY <3>4, RemainderAdds
    <3> QED
      BY <3>3, <3>4, <3>5
  <2> QED
    BY <2>1, <2>2
<1>4. w = [i \in 0 .. N |-> IF i = 0 THEN a
                            ELSE IF stack[i].time = Never THEN (w[i - 1] % N) + 1
                            ELSE MonthOf(i)]
  <2>1. ASSUME NEW i \in 0 .. N
        PROVE  w[i] = IF i = 0 THEN a
                      ELSE IF stack[i].time = Never THEN (w[i - 1] % N) + 1
                      ELSE MonthOf(i)
    <3>1. CASE i = 0
      BY <3>1
    <3>2. CASE i # 0 /\ stack[i].time = Never
      <4>1. i \in 1 .. N
        BY <1>1, <3>2
      <4>2. w[i] = ((a + i - 1) % N) + 1
        BY <3>2
      <4> HIDE DEF w
      <4> QED
        BY <1>3, <3>2, <4>1, <4>2
    <3>3. CASE i # 0 /\ stack[i].time # Never
      BY <3>3
    <3> QED
      BY <3>1, <3>2, <3>3
  <2>2. w = [i \in 0 .. N |-> w[i]]
    OBVIOUS
  <2> HIDE DEF w
  <2> QED
    BY <2>1, <2>2
<1> QED
  BY <1>4 DEF a, IsShown

\* The months of the entries that are used follow each other by the calendar, and the
\* unused ones count on from the last: the first used entry has the month after the
\* last unused one because the entries fill a year.
LEMMA MonthsAreInOrder ==
    ASSUME TypeOK, StackInv
    PROVE  MonthsInOrder
<1> DEFINE N == StackSize
           h == CHOOSE g : IsShown(g)
<1>1. N \in Nat /\ N >= 2 /\ Stack = 1 .. N /\ N \in Nat \ {0}
  BY MonthFacts DEF Stack
<1>2. IsShown(h)
  BY ShownExists
<1>3. MonthsShown(stack) = [i \in 1 .. N |-> h[i]]
  BY <1>1, ShownUnfolded
<1>4. /\ h[0] = MonthOf(N)
      /\ \A i \in 1 .. N : h[i] = IF stack[i].time = Never THEN (h[i - 1] % N) + 1 ELSE MonthOf(i)
  <2> HIDE DEF h
  <2>1. h = [i \in 0 .. N |-> IF i = 0 THEN MonthOf(N)
                              ELSE IF stack[i].time = Never THEN (h[i - 1] % N) + 1
                              ELSE MonthOf(i)]
    BY <1>2 DEF IsShown
  <2>2. h[0] = MonthOf(N)
    BY <1>1, <2>1
  <2>3. ASSUME NEW i \in 1 .. N
        PROVE  h[i] = IF stack[i].time = Never THEN (h[i - 1] % N) + 1 ELSE MonthOf(i)
    <3>1. i \in 0 .. N /\ i # 0
      BY <1>1
    <3> QED
      BY <2>1, <3>1
  <2> QED
    BY <2>2, <2>3
<1> HIDE DEF h
<1> SUFFICES ASSUME \A i \in 1 .. N - 1 : stack[i].time # Never =>
                       SameMonth(stack[i + 1].time, NextMonthlyResetOn(stack[i].time)),
                    NEW i \in 1 .. N - 1
             PROVE  h[i + 1] = (h[i] % N) + 1
  <2>1. \A i \in 1 .. N - 1 : i \in 1 .. N /\ i + 1 \in 1 .. N
    BY <1>1
  <2> QED
    BY <1>3, <2>1 DEF MonthsInOrder
<1>5. i \in 1 .. N /\ i + 1 \in 1 .. N /\ (i + 1) - 1 = i
  BY <1>1
<1>6. \A j \in 1 .. N : MonthOf(j) \in 1 .. N
  BY <1>1, MonthsTyped
<1>7. ASSUME NEW j \in 1 .. N - 1, stack[j].time # Never
      PROVE  stack[j + 1].time # Never /\ MonthOf(j + 1) = (MonthOf(j) % N) + 1
  <2>1. j \in 1 .. N /\ j + 1 \in 1 .. N /\ j + 1 \in j + 1 .. N
    BY <1>1
  <2>2. stack[j + 1].time # Never
    BY <1>1, <1>7, <2>1 DEF StackInv
  <2>3. stack[j].time \in Time
    BY <1>1, <1>7, <2>1 DEF TypeOK, Entries
  <2>4. Month(stack[j + 1].time) = Month(NextMonthlyResetOn(stack[j].time))
    BY <1>7 DEF SameMonth
  <2> QED
    BY <1>7, <2>2, <2>3, <2>4, MonthFacts DEF MonthOf
<1>8. CASE stack[i + 1].time = Never
  BY <1>4, <1>5, <1>8
<1>9. CASE stack[i].time # Never
  BY <1>4, <1>5, <1>7, <1>9
<1>10. CASE stack[i].time = Never /\ stack[i + 1].time # Never
  <2> DEFINE a == MonthOf(N)
             m == MonthOf(i + 1)
             month == [j \in 1 .. N |-> MonthOf(j)]
  \* The unused entries up to i count on from a, the last month.
  <2>1. h[i] = ((a + i - 1) % N) + 1
    <3>1. \A j \in 1 .. i : stack[j].time = Never
      <4>1. \A j \in 1 .. i : j \in 1 .. N /\ (j = i \/ i \in j + 1 .. N)
        BY <1>1
      <4> QED
        BY <1>1, <1>10, <4>1 DEF StackInv
    <3>2. \A j \in 0 .. i - 1 : h[j + 1] = (h[j] % N) + 1
      <4>1. \A j \in 0 .. i - 1 : j + 1 \in 1 .. N /\ j + 1 \in 1 .. i /\ (j + 1) - 1 = j
        BY <1>1
      <4> QED
        BY <1>4, <3>1, <4>1
    <3>3. h[0] \in 1 .. N /\ 0 \in Nat /\ i \in Nat /\ 0 <= i
      BY <1>1, <1>4, <1>6
    <3>4. h[i] = ((h[0] + (i - 0) - 1) % N) + 1
      BY <1>1, <3>2, <3>3, CountedOn
    <3> QED
      BY <1>4, <3>4
  \* The used ones after it count on to a.
  <2>2. a = ((m + (N - (i + 1)) - 1) % N) + 1
    <3>1. \A j \in i + 1 .. N : stack[j].time # Never
      <4>1. \A j \in i + 1 .. N : j \in 1 .. N /\ (j = i + 1 \/ j \in (i + 1) + 1 .. N)
        BY <1>1
      <4> QED
        BY <1>1, <1>5, <1>10, <4>1 DEF StackInv
    <3>2. \A j \in i + 1 .. N - 1 : month[j + 1] = (month[j] % N) + 1
      <4>1. \A j \in i + 1 .. N - 1 : /\ j \in 1 .. N - 1 /\ j \in 1 .. N /\ j + 1 \in 1 .. N
                                      /\ j \in i + 1 .. N
        BY <1>1
      <4> QED
        BY <1>7, <3>1, <4>1
    <3>3. /\ month[i + 1] = m /\ m \in 1 .. N /\ month[N] = a
          /\ i + 1 \in Nat /\ i + 1 <= N
      BY <1>1, <1>5, <1>6
    <3> HIDE DEF month
    <3>4. month[N] = ((month[i + 1] + (N - (i + 1)) - 1) % N) + 1
      BY <1>1, <3>2, <3>3, CountedOn
    <3> QED
      BY <3>3, <3>4
  <2>3. a \in 1 .. N /\ m \in 1 .. N
    BY <1>1, <1>5, <1>6
  <2>4. (a + i) % N = m - 1
    <3> HIDE DEF a, m
    <3>1. /\ m + (N - (i + 1)) - 1 \in Int /\ i + 1 \in Int
          /\ a + i = ((m + (N - (i + 1)) - 1) % N) + (i + 1)
      <4>1. m + (N - (i + 1)) - 1 \in Int
        BY <1>1, <2>3
      <4>2. (m + (N - (i + 1)) - 1) % N \in Int
        BY <1>1, <4>1, Division
      <4> QED
        BY <1>1, <2>2, <4>1, <4>2
    <3>2. (a + i) % N = ((m + (N - (i + 1)) - 1) + (i + 1)) % N
      BY <1>1, <3>1, RemainderAdds
    <3>3. /\ (m + (N - (i + 1)) - 1) + (i + 1) = N + (m - 1)
          /\ m - 1 \in Nat /\ m - 1 < N
      BY <1>1, <2>3
    <3>4. (N + (m - 1)) % N = m - 1
      BY <1>1, <3>3, SmallRemainder
    <3> QED
      BY <3>2, <3>3, <3>4
  <2>5. (h[i] % N) + 1 = m
    <3> HIDE DEF a, m
    <3>1. a + i - 1 \in Int /\ (a + i - 1) + 1 = a + i
      BY <1>1, <2>3
    <3>2. (((a + i - 1) % N) + 1) % N = ((a + i - 1) + 1) % N
      BY <1>1, <3>1, RemainderAdds
    <3> QED
      BY <2>1, <2>3, <2>4, <3>1, <3>2
  <2> QED
    BY <1>4, <1>5, <1>10, <2>5
<1> QED
  BY <1>8, <1>9, <1>10

-----------------------------------------------------------------------------
(* The theorems.                                                           *)

\* The invariant holds at the start.
LEMMA InvInit == Init => IInv
<1> SUFFICES ASSUME Init
             PROVE  IInv
  OBVIOUS
<1>1. TypeOK
  BY TypeInit
<1>2. \A u \in User : AllMarks(u) = {NoMarks}
  BY DEF Init, PerPeer, AllMarks
<1>3. ClockInv
  <2>1. Never <= clock
    BY DEF Init, Never
  <2>2. \A u \in User : \A p \in Protocol :
           lastSeen[u][p] = Never /\ marks[u][p].update = userMarks[u].update
    BY DEF Init, PerPeer
  <2>3. there = clock
    BY DEF Init
  <2> QED
    BY <1>2, <2>1, <2>2, <2>3, NoMarksFields DEF ClockInv
<1>4. MarksExact /\ ActivityAddsUp
  BY DEF Init, MarksExact, ActivityAddsUp
<1>5. StackExact /\ StackInv
  <2>1. /\ \A i \in Stack : stack[i] = NoEntry /\ NoEntry.time = Never
        /\ \A m \in Time : log[m] = 0
        /\ StackSize \in Stack /\ Never <= there
    BY MonthFacts DEF Init, NoEntry, Never
  <2> QED
    BY <2>1 DEF StackExact, StackInv
<1>6. NetworkInv
  <2>1. /\ \A n \in Network : networks[n] <= visited[n]
        /\ \A u \in User : \A p \in Protocol : lastSeen[u][p] = Never
    BY DEF Init, PerPeer, Never
  <2> QED
    BY <2>1 DEF NetworkInv
<1> QED
  BY <1>1, <1>3, <1>4, <1>5, <1>6 DEF IInv

\* Every step keeps the invariant.
LEMMA InvStep == IInv /\ [Next]_vars => IInv'
<1> SUFFICES ASSUME IInv, [Next]_vars
             PROVE  IInv'
  OBVIOUS
<1>1. TypeOK'
  BY TypeStep DEF IInv
<1>2. CASE Other
  BY <1>1, <1>2, OtherClock, OtherMarks, OtherStack, NetworkStep DEF IInv
<1>3. ASSUME NEW listed \in SUBSET (users \X Protocol), Collect(listed)
      PROVE  IInv'
  BY <1>1, <1>3, CollectClock, CollectExact, CollectAddsUp, CollectStackInv, NetworkStep DEF IInv
<1> QED
  BY <1>2, <1>3 DEF Next, Other

\* The inductive invariant: the types, the four periods of the marks, the sums of
\* the activities, what is known of the two clocks, the entries of the stack with the
\* unused ones before them, and the times of networks.
THEOREM Invariance == Spec => []IInv
<1> QED
  BY InvInit, InvStep, PTL DEF Spec

\* Every variable keeps its type, and nothing is left of a user who is gone.
THEOREM TypeCorrect == Spec => []TypeOK
<1>1. IInv => TypeOK
  BY DEF IInv
<1> QED
  BY <1>1, Invariance, PTL

\* lastActivityMark keeps the mark of every period in the period of the last
\* collection and, but when a clock was set, equal to the last activity when that is
\* in it and else empty: for all users, any time between collections, any answers
\* that lack peers and any peers that were forgotten.
THEOREM MarksAreExact == Spec => []MarksExact
<1>1. IInv => MarksExact
  BY DEF IInv
<1> QED
  BY <1>1, Invariance, PTL

\* The last activities that mergeStats marks by themselves agree: the brigade's is no
\* older than a user's, and a user's is the latest of his protocols.
THEOREM ActivityAdds == Spec => []ActivityAddsUp
<1>1. IInv => ActivityAddsUp
  BY DEF IInv
<1> QED
  BY <1>1, Invariance, PTL

NotForgotten ==
    \A u \in users \cap users' :
        /\ userMarks'[u].total >= userMarks[u].total
        /\ Straight' => \A p \in Protocol : marks'[u][p].total >= marks[u][p].total

\* No step forgets an activity.
LEMMA StepForgetsNothing == IInv /\ [Next]_vars => NotForgotten
<1> SUFFICES ASSUME IInv, [Next]_vars, NEW u \in users, u \in users'
             PROVE  /\ userMarks'[u].total >= userMarks[u].total
                    /\ Straight' => \A p \in Protocol : marks'[u][p].total >= marks[u][p].total
  BY DEF NotForgotten
<1>1. u \in User
  BY DEF IInv, TypeOK
<1>2. userMarks[u].total \in Instant /\ \A p \in Protocol : marks[u][p].total \in Instant
  BY <1>1 DEF IInv, TypeOK, Marks, Points, Instant
<1>3. \A t \in Instant : t >= t
  BY ActivityAssumption DEF Instant, Time, Never
<1>4. CASE Other
  <2>1. userMarks'[u] = userMarks[u] /\ marks'[u] = marks[u]
    BY <1>4, OtherKept DEF IInv, Kept
  <2> QED
    BY <1>2, <1>3, <2>1
<1>5. ASSUME NEW listed \in SUBSET (users \X Protocol), Collect(listed)
      PROVE  /\ userMarks'[u].total >= userMarks[u].total
             /\ Straight' => \A p \in Protocol : marks'[u][p].total >= marks[u][p].total
  <2>1. Straight' => Straight
    BY <1>5, CollectMarks DEF IInv, Straight
  <2>2. /\ Last(listed, u) \in Instant /\ userMarks[u].total <= Last(listed, u)
        /\ \A p \in Protocol :
              /\ Seen(listed)[<<u, p>>] \in Instant
              /\ Straight /\ Seen(listed)[<<u, p>>] # Never =>
                    marks[u][p].total <= Seen(listed)[<<u, p>>]
    BY <1>5, CollectUser DEF IInv
  <2>3. \A s, t \in Instant : s <= t => t >= s
    BY ActivityAssumption DEF Instant, Time, Never
  <2>4. userMarks'[u].total \in {userMarks[u].total, Last(listed, u)}
    BY <1>5, CollectTotals
  <2>5. \A p \in Protocol :
           \/ marks'[u][p].total = marks[u][p].total
           \/ /\ marks'[u][p].total = Seen(listed)[<<u, p>>]
              /\ Seen(listed)[<<u, p>>] # Never
    BY <1>5, CollectTotals
  <2> QED
    BY <1>2, <1>3, <2>1, <2>2, <2>3, <2>4, <2>5
<1> QED
  BY <1>4, <1>5 DEF Next, Other

\* A collection never forgets a user's last activity or dates it back, whatever peers
\* the endpoint leaves out or has forgotten, and whatever clock is set; nor that of a
\* protocol, but when a clock was set.
THEOREM NothingIsForgotten == Spec => NothingForgotten
<1>1. IInv /\ [Next]_vars => [NotForgotten]_vars
  BY StepForgetsNothing
<1>2. Spec => [][NotForgotten]_vars
  BY <1>1, Invariance, PTL DEF Spec
<1> QED
  BY <1>2 DEF NothingForgotten, NotForgotten

\* A collection counts the active users, as a user's mark is the latest of his protocols'.
LEMMA StepCountsActive == IInv /\ [Next]_vars => CountsActive
<1> SUFFICES ASSUME IInv, [Next]_vars, collections' # collections, Straight
             PROVE  stack'[StackSize].active =
                       Cardinality({u \in users : \E p \in Protocol : Active(marks'[u][p].total)})
  BY DEF CountsActive
<1>1. PICK listed \in SUBSET (users \X Protocol) : Collect(listed)
  BY DEF Next, vars, boundVars, CreateUser, DeleteUser, Restart, Use, Advance, SetClock
<1>2. ActivityAddsUp' /\ TypeOK' /\ UNCHANGED <<users, mishaps>>
  BY <1>1, CollectAddsUp, CollectTypes, CollectMarks DEF IInv
<1>3. ASSUME NEW u \in users
      PROVE  Active(userMarks'[u].total) <=> \E p \in Protocol : Active(marks'[u][p].total)
  <2>1. /\ \A p \in Protocol : userMarks'[u].total >= marks'[u][p].total
        /\ \E p \in Protocol : userMarks'[u].total = marks'[u][p].total
    BY <1>2 DEF ActivityAddsUp, Straight
  <2>2. /\ u \in User /\ userMarks'[u].total \in Instant
        /\ \A p \in Protocol : marks'[u][p].total \in Instant
    BY <1>2 DEF TypeOK, Marks, Points, Instant, IInv
  <2>3. clock - MaxInactive \in Int
    BY ActivityAssumption DEF IInv, TypeOK, Time
  <2>4. \A s, t \in Instant : s >= t /\ Active(t) => Active(s)
    BY <2>3, ActivityAssumption DEF Active, Instant, Time, Never
  <2> QED
    BY <2>1, <2>2, <2>4
<1>4. {u \in users : Active(userMarks'[u].total)} =
         {u \in users : \E p \in Protocol : Active(marks'[u][p].total)}
  BY <1>3
<1>5. stack' = Put(stack, there, Cardinality({u \in users : Active(userMarks'[u].total)}),
                   Cardinality(listed))
  BY <1>1 DEF Collect
<1>6. StackSize \in Stack
  BY CalendarAssumption DEF Stack, StackSize
<1>7. ASSUME NEW a, NEW b
      PROVE  Put(stack, there, a, b)[StackSize].active = a
  BY <1>6 DEF Put, IInv, TypeOK
<1> QED
  BY <1>4, <1>5, <1>7

\* A collection counts the users active with any of their protocols, though it looks at
\* the user's own mark, but when a clock was set.
THEOREM ActivesAreCounted == Spec => ActiveCounted
<1>1. IInv /\ [Next]_vars => [CountsActive]_vars
  BY StepCountsActive
<1>2. Spec => [][CountsActive]_vars
  BY <1>1, Invariance, PTL DEF Spec
<1> QED
  BY <1>2 DEF ActiveCounted

\* The counters of past months are those of their months and have no holes, through
\* days, months and years without a collection, deleted users and hosts whose clocks
\* are set, but when the endpoint's was; and GetUsersStats shows them by their months.
THEOREM PastMonthsAreRight == Spec => []PastMonthsRight
<1>1. IInv => PastMonthsRight
  BY MonthsAreInOrder DEF IInv, PastMonthsRight
<1> QED
  BY <1>1, Invariance, PTL

Visited ==
    collections' # collections =>
        \A n \in Network : networks'[n] # Never =>
            clock - EndpointsTTL <= networks'[n] /\ networks'[n] <= visited[n]

\* A collection lists visited networks only.
LEMMA StepVisits == IInv /\ [Next]_vars => Visited
<1> SUFFICES ASSUME IInv, [Next]_vars, collections' # collections,
                    NEW n \in Network, networks'[n] # Never
             PROVE  clock - EndpointsTTL <= networks'[n] /\ networks'[n] <= visited[n]
  BY DEF Visited
<1>1. PICK listed \in SUBSET (users \X Protocol) : Collect(listed)
  BY DEF Next, vars, boundVars, CreateUser, DeleteUser, Restart, Use, Advance, SetClock
<1> QED
  BY <1>1, CollectNetworks DEF IInv

\* After a collection only networks are listed where somebody was active at that time or
\* later, within EndpointsTTL of now, whatever peers and users are gone and whatever
\* clock was set.
THEOREM NetworksAreVisited == Spec => NetworksVisited
<1>1. IInv /\ [Next]_vars => [Visited]_vars
  BY StepVisits
<1>2. Spec => [][Visited]_vars
  BY <1>1, Invariance, PTL DEF Spec
<1> QED
  BY <1>2 DEF NetworksVisited, Visited

=============================================================================
