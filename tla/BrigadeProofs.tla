---------------------------- MODULE BrigadeProofs ----------------------------
(***************************************************************************)
(* TLAPS proofs about Brigade, for any users, addresses, limit of users,   *)
(* kinds of session, faults and patches.                                   *)
(***************************************************************************)
EXTENDS Brigade, TLAPS

\* What becomes of a peer when the calls left for it, and for the interface, succeed.
After(wgCalls, calls, p, addr) ==
    LET base == IF wgCalls \in {"del", "readd"} THEN NoAddr ELSE p IN
    CASE calls = "none" -> base
      [] calls = "del"  -> NoAddr
      [] calls = "add"  -> IF base = NoAddr THEN addr ELSE base
      [] OTHER          -> addr

Result(u) == After(wg, todo[u], peers[u], mem[u].addr)

\* What the file will say of a user.
Target(u) == IF ending = "commit" THEN mem[u] ELSE users[u]

\* A failed session leaves no disagreement but on the users it has called for.
Untouched == \A u \in UserId \ (dirty \cup touched) : Agrees(users[u], peers[u])

\* A session that succeeds leads to the agreement on every user it does not forget, and
\* a replay that deletes everything does so whatever was before.
Leads ==
    op # "none" /\ ending \in {"commit", "keep"} =>
        \A u \in UserId \ spoiled : u \notin dirty \/ Cures => Agrees(Target(u), Result(u))

\* Peers that late calls may change are known to be so.
LateDirty == \A c \in late : c.users \subseteq dirty

SessionInv ==
    /\ op = "none" => /\ touched = {} /\ spoiled = {} /\ wg = "none" /\ first = {}
                      /\ \A u \in UserId : todo[u] = "none"
    /\ \A u \in first : todo[u] = "del"
    /\ \A u \in UserId : todo[u] \in {"add", "readd"} => mem[u] # NoUser
    /\ op # "none" /\ Cures => ending \in {"commit", "keep"}

\* The session will commit a brigadier if there is one, but for a copy that has none.
Manned ==
    op \notin {"none", "socketDelete"} /\ ending = "commit" /\ ~headless /\ HasBrigadier(users)
        => HasBrigadier(mem)

\* No two users of a file have one address, but those a replay will delete and those
\* to whom a copy gave it.
FileApart(us, given) ==
    \A u, v \in UserId :
        /\ us[u] # NoUser /\ us[u].mark # "deletion"
        /\ us[v] # NoUser /\ us[v].mark # "deletion"
        /\ us[u].addr = us[v].addr
        => u = v \/ {u, v} \subseteq given

Apart ==
    FileApart(users, twins) /\ (op # "none" /\ ending = "commit" => FileApart(mem, twins))

IInv == TypeOK /\ Untouched /\ Leads /\ LateDirty /\ SessionInv /\ Manned /\ Apart

-----------------------------------------------------------------------------
(* What a session plans for one user leads to the agreement on him.        *)

\* The fields of a user, and what becomes of them when a mark or the blocking changes.
LEMMA UserFields ==
    ASSUME NEW r \in User
    PROVE  /\ r # NoUser /\ r.brig \in BOOLEAN /\ r.blocked \in BOOLEAN
           /\ r.addr \in Addr /\ r.addr # NoAddr /\ r.mark \in Marks
           /\ \A m \in Marks : /\ [r EXCEPT !.mark = m] \in User
                               /\ [r EXCEPT !.mark = m].mark = m
                               /\ [r EXCEPT !.mark = m].brig = r.brig
                               /\ [r EXCEPT !.mark = m].blocked = r.blocked
                               /\ [r EXCEPT !.mark = m].addr = r.addr
           /\ \A b \in BOOLEAN : /\ [r EXCEPT !.blocked = b] \in User
                                 /\ [r EXCEPT !.blocked = b].mark = r.mark
                                 /\ [r EXCEPT !.blocked = b].brig = r.brig
                                 /\ [r EXCEPT !.blocked = b].blocked = b
                                 /\ [r EXCEPT !.blocked = b].addr = r.addr
  BY SentinelAssumption DEF User

\* A new user has the address chosen, is not blocked and has no mark.
LEMMA NewUserFields ==
    ASSUME NEW brig \in BOOLEAN, NEW a \in Addr
    PROVE  /\ NewUser(brig, a) \in User /\ NewUser(brig, a) # NoUser
           /\ NewUser(brig, a).mark = "none" /\ NewUser(brig, a).brig = brig
           /\ NewUser(brig, a).blocked = FALSE /\ NewUser(brig, a).addr = a
<1>1. NewUser(brig, a) \in User
  BY DEF NewUser, User, Marks
<1> QED
  BY <1>1, SentinelAssumption DEF NewUser

\* What a replay that applies marks calls for a user, and commits of him.
LEMMA DelayedFields ==
    ASSUME NEW r \in User, NEW donly \in BOOLEAN
    PROVE  /\ DelayedUser(r) \in User \cup {NoUser} /\ DelayedCalls(r, donly) \in Calls
           /\ r.mark = "deletion" => DelayedUser(r) = NoUser /\ DelayedCalls(r, donly) = "del"
           /\ r.mark # "deletion" =>
                 /\ DelayedUser(r) \in User /\ DelayedUser(r) # NoUser
                 /\ DelayedUser(r).brig = r.brig
                 /\ DelayedUser(r).blocked = r.blocked
                 /\ DelayedUser(r).addr = r.addr
                 /\ DelayedUser(r).mark = IF r.mark \in {"replay", "creation"} /\ r.blocked
                                          THEN "creation" ELSE "none"
<1>1. DelayedCalls(r, donly) \in Calls
  <2>1. r.mark \in Marks
    BY UserFields
  <2> QED
    BY <2>1 DEF DelayedCalls, Calls, Marks
<1>2. CASE r.mark = "deletion"
  BY <1>1, <1>2 DEF DelayedUser, DelayedCalls
<1>3. CASE r.mark # "deletion"
  <2>1. PICK m \in Marks : /\ DelayedUser(r) = [r EXCEPT !.mark = m]
                           /\ m = IF r.mark \in {"replay", "creation"} /\ r.blocked
                                  THEN "creation" ELSE "none"
    BY <1>3 DEF DelayedUser, Marks
  <2> DEFINE x == [r EXCEPT !.mark = m]
  <2>2. /\ x \in User /\ x.brig = r.brig /\ x.blocked = r.blocked
        /\ x.addr = r.addr /\ x.mark = m
    BY UserFields
  <2>3. x # NoUser
    BY <2>2, UserFields
  <2> QED
    BY <1>1, <1>3, <2>1, <2>2, <2>3
<1> QED
  BY <1>2, <1>3

\* It leads to the agreement from an agreement, or after everything has been deleted.
LEMMA DelayedLeads ==
    ASSUME NEW r \in User, NEW p, NEW w \in Calls, NEW donly \in BOOLEAN,
           \/ Agrees(r, p) /\ w # "del" /\ (donly => w = "none")
           \/ w = "readd" /\ ~donly,
           ~(donly /\ r.mark = "blocking" /\ ~r.blocked)
    PROVE  Agrees(DelayedUser(r), After(w, DelayedCalls(r, donly), p, DelayedUser(r).addr))
<1>1. CASE r.mark = "deletion"
  BY <1>1, DelayedFields DEF Agrees, After, Calls
<1>2. CASE r.mark # "deletion"
  <2> DEFINE n == DelayedUser(r)
  <2>1. /\ n \in User /\ n # NoUser /\ n.blocked = r.blocked /\ n.addr = r.addr
        /\ n.mark = IF r.mark \in {"replay", "creation"} /\ r.blocked
                    THEN "creation" ELSE "none"
    BY <1>2, DelayedFields
  <2>2. n.addr \in Addr /\ n.addr # NoAddr /\ r.blocked \in BOOLEAN
    BY <2>1, UserFields
  <2> HIDE DEF n
  <2> DEFINE c == DelayedCalls(r, donly)
  <2>3. /\ c \in Calls
        /\ c = IF r.mark = "blocking" THEN IF r.blocked \/ donly THEN "del" ELSE "readd"
               ELSE IF r.mark = "replay" THEN IF r.blocked THEN "del" ELSE "readd"
               ELSE IF r.mark = "creation" THEN IF r.blocked THEN "none" ELSE "add"
               ELSE IF r.blocked \/ donly THEN "none" ELSE "add"
    BY <1>2, UserFields DEF DelayedCalls, Marks, Calls
  <2> HIDE DEF c
  <2> DEFINE q == After(w, c, p, n.addr)
  <2>4. ASSUME r.blocked
        PROVE  Agrees(n, q)
    <3>1. q = NoAddr
      BY <1>2, <2>3, <2>4, SentinelAssumption DEF After, Agrees, Calls
    <3> QED
      BY <2>1, <2>4, <3>1 DEF Agrees
  <2>5. ASSUME ~r.blocked
        PROVE  Agrees(n, q)
    <3>1. q = n.addr
      <4>1. CASE Agrees(r, p) /\ w # "del" /\ (donly => w = "none")
        <5>1. CASE r.mark = "none"
          <6>1. p = r.addr
            BY <2>5, <4>1, <5>1, UserFields DEF Agrees
          <6> QED
            BY <2>1, <2>2, <2>3, <2>5, <4>1, <5>1, <6>1 DEF After, Calls
        <5>2. CASE r.mark = "creation"
          <6>1. p = NoAddr \/ p = r.addr
            BY <2>5, <4>1, <5>2, UserFields DEF Agrees
          <6> QED
            BY <2>1, <2>2, <2>3, <2>5, <4>1, <5>2, <6>1 DEF After, Calls
        <5>3. CASE r.mark \in {"blocking", "replay"}
          BY <2>3, <2>5, <5>3 DEF After
        <5> QED
          BY <1>2, <5>1, <5>2, <5>3, UserFields DEF Marks
      <4>2. CASE w = "readd" /\ ~donly
        BY <1>2, <2>1, <2>2, <2>3, <2>5, <4>2, UserFields DEF After, Calls, Marks
      <4> QED
        BY <4>1, <4>2
    <3> QED
      BY <2>1, <2>5, <3>1 DEF Agrees
  <2> QED
    BY <2>1, <2>3, <2>4, <2>5 DEF n, c
<1> QED
  BY <1>1, <1>2

\* A replay that does not.
LEMMA PlainLeads ==
    ASSUME NEW r \in User, NEW p, NEW w \in Calls,
           (Agrees(r, p) /\ w # "del") \/ w = "readd"
    PROVE  /\ PlainCalls(r) \in Calls
           /\ Agrees(r, After(w, PlainCalls(r), p, r.addr))
  BY UserFields DEF PlainCalls, Agrees, After, Calls, Marks

\* A patch makes no calls, and marks what replay will have to do.
LEMMA PatchLeads ==
    ASSUME NEW old \in User \cup {NoUser}, NEW new \in PatchUser \cup {NoUser}, NEW p
    PROVE  /\ PatchedUser(old, new) \in User \cup {NoUser}
           /\ Agrees(old, p) /\ ~PatchForgets(old, PatchedUser(old, new))
                 => Agrees(PatchedUser(old, new), p)
           /\ new # NoUser => /\ PatchedUser(old, new) # NoUser
                              /\ PatchedUser(old, new).brig = new.brig
                              /\ PatchedUser(old, new).mark # "deletion"
                              /\ PatchedUser(old, new).addr = new.addr
           /\ new = NoUser /\ PatchedUser(old, new) # NoUser
                 => PatchedUser(old, new).mark = "deletion"
<1>1. PatchUser \subseteq User
  BY DEF PatchUser, User, Marks
<1>2. PatchMark(old, new) \in Marks /\ PatchMark(old, new) # "deletion"
  BY DEF PatchMark, Marks
<1>3. CASE new = NoUser /\ old = NoUser
  BY <1>3, SentinelAssumption DEF PatchedUser
<1>4. CASE new = NoUser /\ old # NoUser
  <2>1. CASE old.blocked
    <3>1. PatchedUser(old, new) = NoUser
      BY <1>4, <2>1 DEF PatchedUser
    <3> QED
      BY <1>4, <2>1, <3>1, UserFields DEF Agrees, PatchForgets, Marks
  <2>2. CASE ~old.blocked
    <3>1. PatchedUser(old, new) = [old EXCEPT !.mark = "deletion"]
      BY <1>4, <2>2 DEF PatchedUser
    <3>2. "deletion" \in Marks
      BY DEF Marks
    <3> QED
      BY <1>4, <2>2, <3>1, <3>2, UserFields DEF Agrees
  <2> QED
    BY <2>1, <2>2
<1>5. CASE new # NoUser
  <2>1. PatchedUser(old, new) = [new EXCEPT !.mark = PatchMark(old, new)]
    BY <1>5 DEF PatchedUser
  <2>2. new \in User
    BY <1>1, <1>5
  <2> DEFINE n == PatchedUser(old, new)
  <2>3. /\ n \in User /\ n # NoUser /\ n.mark = PatchMark(old, new)
        /\ n.blocked = new.blocked /\ n.addr = new.addr /\ n.brig = new.brig
    BY <1>2, <2>1, <2>2, UserFields
  <2> HIDE DEF n
  <2>4. ASSUME Agrees(old, p), ~PatchForgets(old, n)
        PROVE  Agrees(n, p)
    <3>1. CASE old = NoUser
      BY <1>5, <2>3, <2>4, <3>1 DEF Agrees, PatchMark
    <3>2. CASE old # NoUser /\ old.blocked
      BY <1>5, <2>2, <2>3, <2>4, <3>2, UserFields DEF Agrees, PatchMark, PatchForgets, Marks
    <3>3. CASE old # NoUser /\ ~old.blocked
      BY <1>5, <2>2, <2>3, <2>4, <3>3, UserFields DEF Agrees, PatchMark, PatchForgets, Marks
    <3> QED
      BY <3>1, <3>2, <3>3
  <2> QED
    BY <1>2, <1>5, <2>3, <2>4 DEF n
<1> QED
  BY <1>3, <1>4, <1>5

-----------------------------------------------------------------------------
(* The beginning of a session.                                             *)

Fresh == {"replayFresh", "replayFreshPlain"}

\* A plan that leads to the agreement on every user on whom there was one, or on every
\* user at all, but those it forgets; given and bare are what twins and headless become.
WellPlanned(kind, new, wgCalls, dels, calls, end, forgotten, given, bare) ==
    /\ kind \in AllKinds /\ new \in Users
    /\ wgCalls \in Calls /\ dels \subseteq UserId /\ calls \in [UserId -> Calls]
    /\ end \in {"commit", "keep", "error", "spin"} /\ forgotten \subseteq UserId
    /\ \A u \in dels : calls[u] = "del"
    /\ \A u \in UserId : calls[u] \in {"add", "readd"} => new[u] # NoUser
    /\ kind \in Fresh => end \in {"commit", "keep"}
    /\ end \in {"commit", "keep"} =>
         \A u \in UserId \ forgotten :
            Agrees(users[u], peers[u]) \/ kind \in Fresh =>
                Agrees(IF end = "commit" THEN new[u] ELSE users[u],
                       After(wgCalls, calls[u], peers[u], new[u].addr))
    /\ kind # "socketDelete" /\ end = "commit" /\ HasBrigadier(users) =>
         bare \/ HasBrigadier(new)
    /\ end = "commit" /\ FileApart(users, twins) => FileApart(new, given)

\* No calls are calls.
LEMMA NoneCalls == NoCalls \in [UserId -> Calls] /\ \A u \in UserId : NoCalls[u] = "none"
  BY DEF NoCalls, Calls

\* A session that begins with such a plan keeps the invariant.
LEMMA StartsWell ==
    ASSUME IInv,
           NEW kind, NEW new, NEW wgCalls, NEW dels, NEW calls, NEW end, NEW forgotten,
           Begin(kind, new, wgCalls, dels, calls, end, forgotten),
           WellPlanned(kind, new, wgCalls, dels, calls, end, forgotten, twins', headless'),
           twins \subseteq twins', twins' \subseteq UserId, headless' \in BOOLEAN,
           patches' \in 0 .. MaxPatches
    PROVE  IInv'
<1> USE DEF IInv, Begin, fileVars, peerVars
<1>0. kind # "none"
  BY DEF WellPlanned, AllKinds
<1>1. TypeOK'
  BY DEF TypeOK, WellPlanned
<1>2. Untouched'
  BY DEF Untouched, SessionInv
<1>3. Leads'
  <2>1. ASSUME NEW u \in UserId \ spoiled', u \notin dirty' \/ Cures', ending' \in {"commit", "keep"}
        PROVE  Agrees(Target(u)', Result(u)')
    <3>1. Agrees(users[u], peers[u]) \/ kind \in Fresh
      BY <2>1 DEF Untouched, SessionInv, Cures, Fresh
    <3>2. Agrees(IF end = "commit" THEN new[u] ELSE users[u],
                 After(wgCalls, calls[u], peers[u], new[u].addr))
      BY <2>1, <3>1 DEF WellPlanned
    <3>3. Target(u)' = IF end = "commit" THEN new[u] ELSE users[u]
      BY DEF Target
    <3>4. Result(u)' = After(wgCalls, calls[u], peers[u], new[u].addr)
      BY DEF Result
    <3> QED
      BY <3>2, <3>3, <3>4
  <2> QED
    BY <2>1 DEF Leads
<1>4. LateDirty'
  BY DEF LateDirty
<1>5. SessionInv'
  BY <1>0 DEF SessionInv, WellPlanned, Fresh, Cures
<1>6. Manned'
  BY DEF Manned, WellPlanned
<1>7. Apart'
  BY DEF Apart, WellPlanned, FileApart
<1> QED
  BY <1>1, <1>2, <1>3, <1>4, <1>5, <1>6, <1>7

\* Deleting or blocking a user makes calls for him only.
LEMMA DeleteCallsOf ==
    ASSUME NEW u \in UserId
    PROVE  /\ DeleteCalls(u) \in [UserId -> Calls]
           /\ DeleteCalls(u)[u] = IF users[u].blocked THEN "none" ELSE "del"
           /\ \A v \in UserId \ {u} : DeleteCalls(u)[v] = "none"
  BY NoneCalls DEF DeleteCalls, Only, Calls

\* So begin the operations on one user ...
LEMMA UserOperationStarts == ASSUME IInv, UserOperation PROVE IInv'
<1> USE DEF IInv
<1>0. users \in Users /\ peers \in [UserId -> Addr \cup {NoAddr}] /\ patches \in 0 .. MaxPatches
  BY DEF TypeOK
<1>1. CASE CreateUser
  <2>1. PICK u \in FreshIds :
          \/ \E a \in FreeAddrs(users), b \in BOOLEAN :
                Begin("create", [users EXCEPT ![u] = NewUser(b, a)],
                      "none", {}, Only(u, "add"), "commit", {})
          \/ Begin("create", users, "none", {}, NoCalls, "spin", {})
    BY <1>1 DEF CreateUser
  <2>2. u \in UserId /\ users[u] = NoUser /\ peers[u] = NoAddr
    BY DEF FreshIds
  <2>3. ASSUME NEW a \in FreeAddrs(users), NEW b \in BOOLEAN,
               Begin("create", [users EXCEPT ![u] = NewUser(b, a)],
                     "none", {}, Only(u, "add"), "commit", {})
        PROVE  IInv'
    <3> DEFINE n == NewUser(b, a)
               new == [users EXCEPT ![u] = n]
    <3>1. /\ n \in User /\ n # NoUser /\ n.mark = "none" /\ ~n.blocked /\ n.addr = a
      BY NewUserFields DEF FreeAddrs
    <3>2. new \in Users /\ new[u] = n /\ \A v \in UserId \ {u} : new[v] = users[v]
      BY <1>0, <2>2, <3>1 DEF Users
    <3>3. /\ Only(u, "add") \in [UserId -> Calls] /\ Only(u, "add")[u] = "add"
          /\ \A v \in UserId \ {u} : Only(u, "add")[v] = "none"
      BY <2>2, NoneCalls DEF Only, Calls
    <3>4. HasBrigadier(users) => HasBrigadier(new)
      BY <2>2, <3>2 DEF HasBrigadier, Present
    <3>5. \A v \in UserId \ {u} : users[v] # NoUser => users[v].addr # a
      BY DEF FreeAddrs, Present
    <3> HIDE DEF n, new
    <3>6. FileApart(users, twins) => FileApart(new, twins)
      BY <3>1, <3>2, <3>5 DEF FileApart
    <3>7. Agrees(new[u], After("none", "add", peers[u], new[u].addr))
      BY <2>2, <3>1, <3>2 DEF After, Agrees
    <3>8. \A v \in UserId \ {u} : After("none", "none", peers[v], new[v].addr) = peers[v]
      BY DEF After
    <3>9. WellPlanned("create", new, "none", {}, Only(u, "add"), "commit", {}, twins, headless)
      BY <3>1, <3>2, <3>3, <3>4, <3>7, <3>8, <3>6 DEF WellPlanned, AllKinds, Calls, Fresh
    <3> QED
      BY <1>0, <1>1, <2>3, <3>9, StartsWell DEF CreateUser, patchVars, TypeOK, new, n
  <2>4. CASE Begin("create", users, "none", {}, NoCalls, "spin", {})
    <3>1. WellPlanned("create", users, "none", {}, NoCalls, "spin", {}, twins, headless)
      BY <1>0, NoneCalls DEF WellPlanned, AllKinds, Calls, Fresh
    <3> QED
      BY <1>0, <1>1, <2>4, <3>1, StartsWell DEF CreateUser, patchVars, TypeOK
  <2> QED
    BY <2>1, <2>3, <2>4
<1>2. CASE ReplaceBrigadier
  <2>1. PICK old \in Present(users), u \in FreshIds :
          LET rest == [users EXCEPT ![old] = NoUser] IN
          \/ \E end \in {"error", "spin"} :
                Begin("replace", rest, "none", {old}, Only(old, "del"), end, {})
          \/ \E a \in FreeAddrs(rest) :
                Begin("replace", [rest EXCEPT ![u] = NewUser(TRUE, a)], "none", {old},
                      [NoCalls EXCEPT ![old] = "del", ![u] = "add"], "commit", {})
    BY <1>2 DEF ReplaceBrigadier
  <2>2. /\ u \in UserId /\ users[u] = NoUser /\ peers[u] = NoAddr
        /\ old \in UserId /\ users[old] # NoUser /\ old # u
    BY DEF FreshIds, Present
  <2> DEFINE rest == [users EXCEPT ![old] = NoUser]
  <2>3. rest \in Users
    BY <1>0, <2>2 DEF Users
  <2>4. ASSUME NEW end \in {"error", "spin"},
               Begin("replace", rest, "none", {old}, Only(old, "del"), end, {})
        PROVE  IInv'
    <3>1. /\ Only(old, "del") \in [UserId -> Calls] /\ Only(old, "del")[old] = "del"
          /\ \A v \in UserId \ {old} : Only(old, "del")[v] = "none"
      BY <2>2, NoneCalls DEF Only, Calls
    <3>2. WellPlanned("replace", rest, "none", {old}, Only(old, "del"), end, {}, twins, headless)
      BY <2>2, <2>3, <3>1 DEF WellPlanned, AllKinds, Calls, Fresh
    <3> QED
      BY <1>0, <1>2, <2>4, <3>2, StartsWell DEF ReplaceBrigadier, patchVars, TypeOK
  <2>5. ASSUME NEW a \in FreeAddrs(rest),
               Begin("replace", [rest EXCEPT ![u] = NewUser(TRUE, a)], "none", {old},
                     [NoCalls EXCEPT ![old] = "del", ![u] = "add"], "commit", {})
        PROVE  IInv'
    <3> DEFINE n == NewUser(TRUE, a)
               new == [rest EXCEPT ![u] = n]
               calls == [NoCalls EXCEPT ![old] = "del", ![u] = "add"]
    <3>1. /\ n \in User /\ n # NoUser /\ n.mark = "none" /\ ~n.blocked /\ n.addr = a /\ n.brig
      BY NewUserFields DEF FreeAddrs
    <3>2. /\ new \in Users /\ new[u] = n /\ new[old] = NoUser
          /\ \A v \in UserId \ {u, old} : new[v] = users[v]
      BY <1>0, <2>2, <3>1 DEF Users
    <3>3. /\ calls \in [UserId -> Calls] /\ calls[u] = "add" /\ calls[old] = "del"
          /\ \A v \in UserId \ {u, old} : calls[v] = "none"
      BY <2>2, NoneCalls DEF Calls
    <3>4. HasBrigadier(new)
      BY <2>2, <3>1, <3>2 DEF HasBrigadier, Present
    <3>5. \A v \in UserId \ {u, old} : users[v] # NoUser => users[v].addr # a
      BY <1>0, <2>2 DEF FreeAddrs, Present, Users
    <3> HIDE DEF n, new, calls
    <3>6. FileApart(users, twins) => FileApart(new, twins)
      BY <3>1, <3>2, <3>5 DEF FileApart
    <3>7. /\ Agrees(new[u], After("none", "add", peers[u], new[u].addr))
          /\ Agrees(new[old], After("none", "del", peers[old], new[old].addr))
      BY <2>2, <3>1, <3>2 DEF After, Agrees
    <3>8. \A v \in UserId \ {u, old} : After("none", "none", peers[v], new[v].addr) = peers[v]
      BY DEF After
    <3>9. WellPlanned("replace", new, "none", {old}, calls, "commit", {}, twins, headless)
      BY <2>2, <3>1, <3>2, <3>3, <3>4, <3>7, <3>8, <3>6 DEF WellPlanned, AllKinds, Calls, Fresh
    <3> QED
      BY <1>0, <1>2, <2>5, <3>9, StartsWell DEF ReplaceBrigadier, patchVars, TypeOK, new, n, calls
  <2> QED
    BY <2>1, <2>4, <2>5
<1>3. ASSUME NEW u \in UserId, NEW kind \in {"delete", "socketDelete"}, DeleteUser(u, kind)
      PROVE  IInv'
  <2> DEFINE new == [users EXCEPT ![u] = NoUser]
  <2>1. /\ users[u] \in User /\ users[u] # NoUser
        /\ kind = "delete" => ~users[u].brig
        /\ Begin(kind, new, "none", {}, DeleteCalls(u), "commit", DeleteForgets(u))
    BY <1>0, <1>3 DEF DeleteUser, Users
  <2>2. new \in Users /\ new[u] = NoUser /\ \A v \in UserId \ {u} : new[v] = users[v]
    BY <1>0 DEF Users
  <2>3. kind # "socketDelete" /\ HasBrigadier(users) => HasBrigadier(new)
    BY <2>1, <2>2 DEF HasBrigadier, Present
  <2> HIDE DEF new
  <2>4. Agrees(users[u], peers[u]) /\ u \notin DeleteForgets(u)
          => Agrees(new[u], After("none", DeleteCalls(u)[u], peers[u], new[u].addr))
    BY <2>1, <2>2, DeleteCallsOf, UserFields
       DEF DeleteForgets, After, Agrees, Marks
  <2>5. \A v \in UserId \ {u} : After("none", "none", peers[v], new[v].addr) = peers[v]
    BY DEF After
  <2>6. FileApart(users, twins) => FileApart(new, twins)
    BY <2>2 DEF FileApart
  <2>7. WellPlanned(kind, new, "none", {}, DeleteCalls(u), "commit", DeleteForgets(u), twins, headless)
    BY <2>1, <2>2, <2>3, <2>4, <2>5, <2>6, DeleteCallsOf
       DEF WellPlanned, AllKinds, Calls, Fresh, DeleteForgets
  <2> QED
    BY <1>0, <1>3, <2>1, <2>7, StartsWell DEF DeleteUser, patchVars, TypeOK
<1>4. ASSUME NEW u \in UserId, NEW kind \in {"block", "socketBlock"}, BlockUser(u, kind)
      PROVE  IInv'
  <2> DEFINE new == [users EXCEPT ![u].blocked = TRUE]
             n == [users[u] EXCEPT !.blocked = TRUE]
  <2>1. /\ users[u] \in User /\ users[u] # NoUser
        /\ Begin(kind, new, "none", {}, DeleteCalls(u), "commit", {})
    BY <1>0, <1>4 DEF BlockUser, Users
  <2>2. /\ n \in User /\ n # NoUser /\ n.mark = users[u].mark /\ n.brig = users[u].brig
        /\ n.addr = users[u].addr /\ n.blocked = TRUE
    BY <2>1, UserFields
  <2>3. new \in Users /\ new[u] = n /\ \A v \in UserId \ {u} : new[v] = users[v]
    BY <1>0, <2>2 DEF Users
  <2> HIDE DEF new, n
  <2>4. HasBrigadier(users) => HasBrigadier(new)
    BY <2>1, <2>2, <2>3 DEF HasBrigadier, Present
  <2>5. Agrees(users[u], peers[u])
          => Agrees(new[u], After("none", DeleteCalls(u)[u], peers[u], new[u].addr))
    BY <2>1, <2>2, <2>3, DeleteCallsOf, UserFields DEF After, Agrees, Marks
  <2>6. \A v \in UserId \ {u} : After("none", "none", peers[v], new[v].addr) = peers[v]
    BY DEF After
  <2>7. FileApart(users, twins) => FileApart(new, twins)
    BY <2>1, <2>2, <2>3 DEF FileApart
  <2>8. WellPlanned(kind, new, "none", {}, DeleteCalls(u), "commit", {}, twins, headless)
    BY <2>3, <2>4, <2>5, <2>6, <2>7, DeleteCallsOf DEF WellPlanned, AllKinds, Calls, Fresh
  <2> QED
    BY <1>0, <1>4, <2>1, <2>8, StartsWell DEF BlockUser, patchVars, TypeOK
<1>5. ASSUME NEW u \in UserId, UnblockUser(u)
      PROVE  IInv'
  <2> DEFINE new == [users EXCEPT ![u].blocked = FALSE]
             n == [users[u] EXCEPT !.blocked = FALSE]
             calls == Only(u, IF users[u].blocked THEN "add" ELSE "none")
             gone == IF users[u].blocked /\ users[u].mark = "blocking" THEN {u} ELSE {}
  <2>1. /\ users[u] \in User /\ users[u] # NoUser
        /\ Begin("unblock", new, "none", {}, calls, "commit", gone)
    BY <1>0, <1>5 DEF UnblockUser, Users
  <2>2. /\ n \in User /\ n # NoUser /\ n.mark = users[u].mark /\ n.brig = users[u].brig
        /\ n.addr = users[u].addr /\ n.blocked = FALSE
    BY <2>1, UserFields
  <2>3. new \in Users /\ new[u] = n /\ \A v \in UserId \ {u} : new[v] = users[v]
    BY <1>0, <2>2 DEF Users
  <2>4. /\ calls \in [UserId -> Calls]
        /\ calls[u] = IF users[u].blocked THEN "add" ELSE "none"
        /\ \A v \in UserId \ {u} : calls[v] = "none"
    BY NoneCalls DEF Only, Calls
  <2>5. gone \subseteq UserId /\ (u \in gone <=> users[u].blocked /\ users[u].mark = "blocking")
    OBVIOUS
  <2> HIDE DEF new, n, calls, gone
  <2>6. HasBrigadier(users) => HasBrigadier(new)
    BY <2>1, <2>2, <2>3 DEF HasBrigadier, Present
  <2>7. Agrees(users[u], peers[u]) /\ u \notin gone
          => Agrees(new[u], After("none", calls[u], peers[u], new[u].addr))
    BY <2>1, <2>2, <2>3, <2>4, <2>5, UserFields DEF After, Agrees, Marks
  <2>8. \A v \in UserId \ {u} : After("none", "none", peers[v], new[v].addr) = peers[v]
    BY DEF After
  <2>9. FileApart(users, twins) => FileApart(new, twins)
    BY <2>1, <2>2, <2>3 DEF FileApart
  <2>10. WellPlanned("unblock", new, "none", {}, calls, "commit", gone, twins, headless)
    BY <2>2, <2>3, <2>4, <2>5, <2>6, <2>7, <2>8, <2>9 DEF WellPlanned, AllKinds, Calls, Fresh
  <2> QED
    BY <1>0, <1>5, <2>1, <2>10, StartsWell DEF UnblockUser, patchVars, TypeOK, new, calls, gone
<1> QED
  BY <1>1, <1>2, <1>3, <1>4, <1>5 DEF UserOperation

\* ... and those on the brigade.
LEMMA BrigadeOperationStarts == ASSUME IInv, BrigadeOperation PROVE IInv'
<1> USE DEF IInv
<1>0. users \in Users /\ peers \in [UserId -> Addr \cup {NoAddr}] /\ patches \in 0 .. MaxPatches
  BY DEF TypeOK
<1>1. CASE CreateBrigade
  <2>1. \A u \in UserId : After("add", "none", peers[u], users[u].addr) = peers[u]
    BY DEF After
  <2>2. WellPlanned("createbrigade", users, "add", {}, NoCalls, "commit", {}, twins, headless)
    BY <1>0, <2>1, NoneCalls DEF WellPlanned, AllKinds, Calls, Fresh
  <2> QED
    BY <1>0, <1>1, <2>2, StartsWell DEF CreateBrigade, patchVars, TypeOK
<1>2. CASE DestroyBrigade
  <2>1. WellPlanned("destroy", users, "del", {}, NoCalls, "keep", UserId, twins, headless)
    BY <1>0, NoneCalls DEF WellPlanned, AllKinds, Calls, Fresh
  <2> QED
    BY <1>0, <1>2, <2>1, StartsWell DEF DestroyBrigade, patchVars, TypeOK
<1>3. CASE Patch
  <2>1. PICK f \in PatchFiles :
          LET new == [u \in UserId |-> PatchedUser(users[u], f[u])] IN
          /\ Begin("patch", new, "none", {}, NoCalls, "commit",
                   {u \in UserId : PatchForgets(users[u], new[u])})
          /\ twins' = twins \cup Twins(f)
          /\ headless' = Headless(f)
    BY <1>3 DEF Patch
  <2> DEFINE new == [u \in UserId |-> PatchedUser(users[u], f[u])]
             gone == {u \in UserId : PatchForgets(users[u], new[u])}
  <2>2. \A u \in UserId : users[u] \in User \cup {NoUser} /\ f[u] \in PatchUser \cup {NoUser}
    BY <1>0 DEF Users, PatchFiles
  <2>3. new \in Users
    BY <2>2, PatchLeads DEF Users
  <2>4. Twins(f) \subseteq UserId
    BY DEF Twins, Present
  <2>5. headless' \/ HasBrigadier(new)
    <3>1. \A v \in Present(f) : f[v].brig => HasBrigadier(new)
      BY <2>2, PatchLeads DEF HasBrigadier, Present
    <3> QED
      BY <2>1, <3>1 DEF Headless
  <2>6. ASSUME NEW u \in UserId \ gone, Agrees(users[u], peers[u])
        PROVE  Agrees(new[u], After("none", "none", peers[u], new[u].addr))
    BY <2>2, <2>6, PatchLeads DEF After
  <2>7. FileApart(new, twins')
    <3>1. ASSUME NEW u \in UserId, new[u] # NoUser, new[u].mark # "deletion"
          PROVE  u \in Present(f) /\ new[u].addr = f[u].addr
      BY <2>2, <3>1, PatchLeads DEF Present
    <3>2. \A u, w \in Present(f) : f[u].addr = f[w].addr => u = w \/ {u, w} \subseteq Twins(f)
      BY DEF Twins
    <3> HIDE DEF new
    <3> QED
      BY <2>1, <3>1, <3>2 DEF FileApart
  <2> HIDE DEF new
  <2>8. WellPlanned("patch", new, "none", {}, NoCalls, "commit", gone, twins', headless')
    BY <2>3, <2>5, <2>6, <2>7, NoneCalls DEF WellPlanned, AllKinds, Calls, Fresh
  <2>9. patches' \in 0 .. MaxPatches
    BY <1>0, <1>3, BoundAssumption DEF Patch
  <2>10. twins \subseteq twins' /\ twins' \subseteq UserId /\ headless' \in BOOLEAN
    BY <1>0, <2>1, <2>4 DEF TypeOK, Headless
  <2> QED
    BY <2>1, <2>8, <2>9, <2>10, StartsWell DEF new
<1>4. ASSUME NEW kind, NEW w, NEW donly, ReplayMarks(kind, w, donly),
             <<kind, w, donly>> \in {<<"replayFresh", "readd", FALSE>>, <<"replay", "none", FALSE>>,
                                    <<"replay", "add", FALSE>>, <<"replayDelayed", "none", TRUE>>}
      PROVE  IInv'
  <2> DEFINE new == [u \in UserId |-> IF users[u] = NoUser THEN NoUser ELSE DelayedUser(users[u])]
             calls == [u \in UserId |-> IF users[u] = NoUser THEN "none"
                                        ELSE DelayedCalls(users[u], donly)]
             dels == {u \in Present(users) : users[u].mark = "deletion"}
             gone == IF donly THEN {u \in Present(users) :
                                      users[u].mark = "blocking" /\ ~users[u].blocked}
                     ELSE {}
  <2>1. Begin(kind, new, w, dels, calls, "commit", gone)
    BY <1>4 DEF ReplayMarks
  <2>2. /\ kind \in AllKinds /\ w \in Calls /\ donly \in BOOLEAN /\ kind # "socketDelete"
        /\ w # "del" /\ (donly => w = "none") /\ (kind \in Fresh => w = "readd" /\ ~donly)
    BY <1>4 DEF AllKinds, Calls, Fresh
  <2>3. \A u \in UserId : users[u] = NoUser \/ users[u] \in User
    BY <1>0 DEF Users
  <2>4. new \in Users /\ calls \in [UserId -> Calls]
    <3>1. "none" \in Calls
      BY DEF Calls
    <3> QED
      BY <2>2, <2>3, <3>1, DelayedFields DEF Users
  <2>5. \A u \in dels : u \in UserId /\ calls[u] = "del"
    BY <2>2, <2>3, DelayedFields DEF Present
  <2>6. \A u \in UserId : calls[u] \in {"add", "readd"} => new[u] # NoUser
    BY <2>2, <2>3, DelayedFields
  <2>7. HasBrigadier(users) => HasBrigadier(new)
    <3>1. ASSUME NEW u \in UserId, users[u] # NoUser, users[u].brig, users[u].mark # "deletion"
          PROVE  new[u] # NoUser /\ new[u].brig /\ new[u].mark # "deletion"
      BY <2>2, <2>3, <3>1, DelayedFields
    <3> HIDE DEF new
    <3> QED
      BY <3>1 DEF HasBrigadier, Present
  <2>8. gone \subseteq UserId
    BY DEF Present
  <2>9. ASSUME NEW u \in UserId \ gone, Agrees(users[u], peers[u]) \/ kind \in Fresh
        PROVE  Agrees(new[u], After(w, calls[u], peers[u], new[u].addr))
    <3>1. CASE users[u] = NoUser
      BY <2>2, <2>9, <3>1 DEF Agrees, After
    <3>2. CASE users[u] # NoUser
      <4>1. users[u] \in User /\ ~(donly /\ users[u].mark = "blocking" /\ ~users[u].blocked)
        BY <2>3, <2>9, <3>2 DEF Present
      <4>2. new[u] = DelayedUser(users[u]) /\ calls[u] = DelayedCalls(users[u], donly)
        BY <3>2
      <4> QED
        BY <2>2, <2>9, <4>1, <4>2, DelayedLeads
    <3> QED
      BY <3>1, <3>2
  <2>10. FileApart(users, twins) => FileApart(new, twins)
    <3>1. ASSUME NEW u \in UserId, new[u] # NoUser
          PROVE  users[u] # NoUser /\ users[u].mark # "deletion" /\ new[u].addr = users[u].addr
      BY <2>2, <2>3, <3>1, DelayedFields
    <3> HIDE DEF new
    <3> QED
      BY <3>1 DEF FileApart
  <2> HIDE DEF new, calls, dels, gone
  <2>11. WellPlanned(kind, new, w, dels, calls, "commit", gone, twins, headless)
    BY <2>2, <2>4, <2>5, <2>6, <2>7, <2>8, <2>9, <2>10 DEF WellPlanned
  <2> QED
    BY <1>0, <1>4, <2>1, <2>11, StartsWell DEF ReplayMarks, patchVars, TypeOK
<1>5. ASSUME NEW kind, NEW w, ReplayPlain(kind, w),
             <<kind, w>> \in {<<"replayFreshPlain", "readd">>, <<"replayPlain", "none">>,
                             <<"replayPlain", "add">>}
      PROVE  IInv'
  <2> DEFINE calls == [u \in UserId |-> IF users[u] = NoUser THEN "none" ELSE PlainCalls(users[u])]
  <2>1. Begin(kind, users, w, {}, calls, "keep", {})
    BY <1>5 DEF ReplayPlain
  <2>2. /\ kind \in AllKinds /\ w \in Calls /\ w # "del" /\ (kind \in Fresh => w = "readd")
    BY <1>5 DEF AllKinds, Calls, Fresh
  <2>3. \A u \in UserId : users[u] = NoUser \/ users[u] \in User
    BY <1>0 DEF Users
  <2>4. /\ calls \in [UserId -> Calls]
        /\ \A u \in UserId : calls[u] \in {"add", "readd"} => users[u] # NoUser
    BY DEF PlainCalls, Calls
  <2>5. ASSUME NEW u \in UserId, Agrees(users[u], peers[u]) \/ kind \in Fresh
        PROVE  Agrees(users[u], After(w, calls[u], peers[u], users[u].addr))
    <3>1. CASE users[u] = NoUser
      BY <2>2, <2>5, <3>1 DEF Agrees, After
    <3>2. CASE users[u] # NoUser
      BY <2>2, <2>3, <2>5, <3>2, PlainLeads
    <3> QED
      BY <3>1, <3>2
  <2> HIDE DEF calls
  <2>6. WellPlanned(kind, users, w, {}, calls, "keep", {}, twins, headless)
    BY <1>0, <2>2, <2>4, <2>5 DEF WellPlanned
  <2> QED
    BY <1>0, <1>5, <2>1, <2>6, StartsWell DEF ReplayPlain, patchVars, TypeOK
<1>6. ASSUME NEW w \in {"add", "readd"}, ReplayInterface(w)
      PROVE  IInv'
  <2> DEFINE gone == IF w = "readd" THEN UserId ELSE {}
  <2>1. Begin("replayInterface", users, w, {}, NoCalls, "keep", gone)
    BY <1>6 DEF ReplayInterface
  <2>2. \A u \in UserId \ gone : After(w, "none", peers[u], users[u].addr) = peers[u]
    BY DEF After
  <2>3. WellPlanned("replayInterface", users, w, {}, NoCalls, "keep", gone, twins, headless)
    BY <1>0, <2>2, NoneCalls DEF WellPlanned, AllKinds, Calls, Fresh
  <2> QED
    BY <1>0, <1>6, <2>1, <2>3, StartsWell DEF ReplayInterface, patchVars, TypeOK
<1> QED
  BY <1>1, <1>2, <1>3, <1>4, <1>5, <1>6 DEF BrigadeOperation, ReplayBrigade

-----------------------------------------------------------------------------
(* The calls of a session, and its end.                                    *)

\* The next calls of a session are calls, and who is added has an address.
LEMMA NextCallTypes ==
    ASSUME TypeOK, SessionInv, NEW c \in NextCalls
    PROVE  c \in CallRecord
<1>1. CASE wg # "none"
  BY <1>1 DEF NextCalls, WgNext, CallRecord
<1>2. CASE wg = "none"
  <2>1. PICK u \in UserId :
          /\ c = [call |-> Command(todo[u]), users |-> {u},
                  addr |-> IF Command(todo[u]) = "del" THEN NoAddr ELSE mem[u].addr]
          /\ todo[u] # "none"
    BY <1>2 DEF NextCalls, PeerNext, SessionInv, TypeOK
  <2>2. Command(todo[u]) = "del" \/ (Command(todo[u]) = "add" /\ mem[u] # NoUser)
    BY <2>1 DEF Command, TypeOK, Calls, SessionInv
  <2>3. mem[u] # NoUser => mem[u].addr \in Addr
    BY UserFields DEF TypeOK, Users
  <2> QED
    BY <2>1, <2>2, <2>3 DEF CallRecord
<1> QED
  BY <1>1, <1>2

\* The endpoint changes nothing but the peers of the call.
LEMMA CarryTypes ==
    ASSUME TypeOK, NEW c \in CallRecord, Carry(c)
    PROVE  /\ up' \in BOOLEAN /\ peers' \in [UserId -> Addr \cup {NoAddr}]
           /\ \A u \in UserId \ c.users : peers'[u] = peers[u]
  BY DEF TypeOK, CallRecord, Carry

\* A session has ended, and what it has left split is known.
LEMMA EndsWell ==
    ASSUME IInv, Idle,
           users' \in Users, made' \in BOOLEAN, up' \in BOOLEAN,
           peers' \in [UserId -> Addr \cup {NoAddr}], late' \subseteq CallRecord,
           dirty' \subseteq UserId, faults' \in 0 .. MaxFaults, patches' \in 0 .. MaxPatches,
           \A u \in UserId \ dirty' : Agrees(users'[u], peers'[u]),
           twins' = twins,
           \A c \in late' : c.users \subseteq dirty',
           FileApart(users', twins')
    PROVE  IInv'
<1>1. TypeOK'
  BY NoneCalls DEF IInv, Idle, TypeOK, Users, AllKinds, Calls
<1>2. Untouched' /\ LateDirty'
  BY DEF Untouched, LateDirty, Idle
<1>3. Leads' /\ Manned'
  BY DEF Leads, Manned, Idle
<1>4. SessionInv'
  BY NoneCalls DEF SessionInv, Idle
<1>5. Apart'
  BY DEF Apart, Idle, FileApart
<1> QED
  BY <1>1, <1>2, <1>3, <1>4, <1>5 DEF IInv

\* A session that ends by an error has split at most the users it has called for.
LEMMA AbortsWell ==
    ASSUME IInv, NEW more \in SUBSET UserId, Abort(more),
           up' \in BOOLEAN, peers' \in [UserId -> Addr \cup {NoAddr}],
           late' \subseteq CallRecord, faults' \in 0 .. MaxFaults,
           \A u \in UserId \ more : peers'[u] = peers[u],
           \A c \in late' \ late : c.users \subseteq more
    PROVE  IInv'
<1>1. Idle /\ dirty' = dirty \cup touched \cup more /\ users' = users /\ made' = made
      /\ twins' = twins /\ patches' = patches
  BY DEF Abort, fileVars, patchVars
<1>2. \A u \in UserId \ dirty' : Agrees(users'[u], peers'[u])
  BY <1>1 DEF IInv, Untouched
<1>3. \A c \in late' : c.users \subseteq dirty'
  BY <1>1 DEF IInv, LateDirty
<1>4. FileApart(users', twins')
  BY <1>1 DEF IInv, Apart
<1> QED
  BY <1>1, <1>2, <1>3, <1>4, EndsWell DEF IInv, TypeOK

\* A call that succeeds leaves what the calls lead to as it was.
LEMMA CallSucceedsKeeps == ASSUME IInv, CallSucceeds PROVE IInv'
<1> USE DEF IInv
<1>1. PICK c \in NextCalls :
        /\ MayAccept(c) /\ Carry(c)
        /\ IF wg # "none"
           THEN wg' = Rest(wg) /\ UNCHANGED <<first, todo>>
           ELSE /\ first' = first \ c.users
                /\ todo' = [u \in UserId |-> IF u \in c.users THEN Rest(todo[u]) ELSE todo[u]]
                /\ UNCHANGED wg
        /\ touched' = touched \cup c.users
  BY DEF CallSucceeds
<1>2. UNCHANGED <<users, made, late, op, mem, ending, spoiled, dirty, twins, headless, faults, patches>>
  BY DEF CallSucceeds, fileVars, patchVars
<1>3. /\ c \in CallRecord /\ c.users \subseteq UserId
      /\ up' \in BOOLEAN /\ peers' \in [UserId -> Addr \cup {NoAddr}]
      /\ \A u \in UserId \ c.users : peers'[u] = peers[u]
  BY <1>1, NextCallTypes, CarryTypes DEF CallRecord
<1>4. \A x \in Calls : Rest(x) \in Calls
  BY DEF Rest, Calls
<1>5. TypeOK'
  BY <1>1, <1>2, <1>3, <1>4 DEF TypeOK
<1>6. op # "none"
  BY DEF NextCalls, PeerNext, SessionInv
<1>7. Untouched' /\ LateDirty'
  BY <1>1, <1>2, <1>3 DEF Untouched, LateDirty
<1>8. ASSUME wg # "none"
      PROVE  /\ \A u \in UserId : Result(u)' = Result(u)
             /\ SessionInv'
  <2>1. c.call = IF Command(wg) = "del" THEN "wgDel" ELSE "wgAdd"
    BY <1>8 DEF NextCalls, WgNext
  <2>2. /\ wg' = Rest(wg) /\ first' = first /\ todo' = todo
        /\ mem' = mem /\ op' = op /\ ending' = ending
    BY <1>1, <1>2, <1>8
  <2>3. CASE wg = "add"
    <3>1. \A u \in UserId : peers'[u] = peers[u]
      <4>1. c.users = {}
        BY <1>8, <2>3 DEF NextCalls, WgNext, Command
      <4> QED
        BY <1>3, <4>1
    <3> QED
      BY <1>6, <2>2, <2>3, <3>1 DEF Result, After, Rest, SessionInv, Cures
  <2>4. CASE wg \in {"del", "readd"}
    <3>1. \A u \in UserId : peers'[u] = NoAddr
      <4>1. c.users = UserId /\ c.call = "wgDel"
        BY <1>8, <2>4 DEF NextCalls, WgNext, Command
      <4> QED
        BY <1>1, <4>1 DEF Carry
    <3> QED
      BY <1>6, <2>2, <2>4, <3>1 DEF Result, After, Rest, SessionInv, Cures
  <2> QED
    BY <1>8, <2>3, <2>4 DEF TypeOK, Calls
<1>9. ASSUME wg = "none"
      PROVE  /\ \A u \in UserId : Result(u)' = Result(u)
             /\ SessionInv'
  <2>1. PICK u \in UserId :
          /\ c = [call |-> Command(todo[u]), users |-> {u},
                  addr |-> IF Command(todo[u]) = "del" THEN NoAddr ELSE mem[u].addr]
          /\ todo[u] # "none"
          /\ first # {} => u \in first
    BY <1>9 DEF NextCalls, PeerNext, SessionInv, TypeOK
  <2>2. /\ c.users = {u} /\ c.call = Command(todo[u])
        /\ c.call # "del" => c.addr = mem[u].addr
    BY <2>1
  <2>3. /\ wg' = wg /\ first' = first \ {u} /\ mem' = mem /\ op' = op /\ ending' = ending
        /\ todo'[u] = Rest(todo[u]) /\ \A v \in UserId \ {u} : todo'[v] = todo[v]
    BY <1>1, <1>2, <1>9, <2>2
  <2>4. SessionInv'
    <3>1. Rest(todo[u]) \in {"add", "readd"} => todo[u] \in {"add", "readd"}
      BY DEF Rest
    <3> QED
      BY <1>6, <2>3, <3>1 DEF SessionInv, Cures, TypeOK
  <2>5. \A v \in UserId \ {u} : peers'[v] = peers[v]
    BY <1>3, <2>2
  <2>6. Result(u)' = Result(u)
    <3>1. Result(u) = After("none", todo[u], peers[u], mem[u].addr)
      BY <1>9 DEF Result
    <3>2. Result(u)' = After("none", Rest(todo[u]), peers'[u], mem[u].addr)
      BY <1>9, <2>3 DEF Result
    <3>3. CASE todo[u] = "add"
      <4>1. c.call = "add" /\ Rest(todo[u]) = "none" /\ up
        BY <1>1, <2>2, <3>3 DEF Command, Rest, MayAccept
      <4>2. peers'[u] = IF peers[u] = NoAddr THEN mem[u].addr ELSE peers[u]
        BY <1>1, <2>2, <4>1 DEF Carry
      <4> QED
        BY <3>1, <3>2, <3>3, <4>1, <4>2 DEF After
    <3>4. CASE todo[u] \in {"del", "readd"}
      <4>1. c.call = "del"
        BY <2>2, <3>4 DEF Command
      <4>2. peers'[u] = NoAddr
        BY <1>1, <2>2, <4>1 DEF Carry
      <4> QED
        BY <3>1, <3>2, <3>4, <4>2 DEF After, Rest
    <3> QED
      BY <2>1, <3>3, <3>4 DEF TypeOK, Calls
  <2> QED
    BY <1>9, <2>3, <2>4, <2>5, <2>6 DEF Result
<1>10. Leads' /\ Manned'
  BY <1>2, <1>8, <1>9 DEF Leads, Manned, Target, Cures
<1>11. Apart'
  BY <1>2 DEF Apart, FileApart
<1> QED
  BY <1>5, <1>7, <1>8, <1>9, <1>10, <1>11

\* Steps that fail.
LEMMA CallRefusedKeeps == ASSUME IInv, CallRefused PROVE IInv'
  BY AbortsWell DEF CallRefused, peerVars, IInv, TypeOK

LEMMA CallFailsKeeps == ASSUME IInv, CallFails PROVE IInv'
<1> USE DEF IInv
<1>1. faults' \in 0 .. MaxFaults
  BY BoundAssumption DEF CallFails, Fault, TypeOK
<1>2. PICK c \in NextCalls :
        \/ Abort({}) /\ UNCHANGED peerVars
        \/ MayAccept(c) /\ Carry(c) /\ Abort(c.users) /\ UNCHANGED late
        \/ late' = late \cup {c} /\ Abort(c.users) /\ UNCHANGED <<up, peers>>
  BY DEF CallFails
<1>3. c \in CallRecord /\ c.users \in SUBSET UserId
  BY NextCallTypes DEF CallRecord
<1>4. CASE Abort({}) /\ UNCHANGED peerVars
  BY <1>1, <1>4, AbortsWell DEF peerVars, TypeOK
<1>5. CASE Carry(c) /\ Abort(c.users) /\ UNCHANGED late
  BY <1>1, <1>3, <1>5, CarryTypes, AbortsWell DEF TypeOK
<1>6. CASE late' = late \cup {c} /\ Abort(c.users) /\ UNCHANGED <<up, peers>>
  BY <1>1, <1>3, <1>6, AbortsWell DEF TypeOK
<1> QED
  BY <1>2, <1>4, <1>5, <1>6

\* A call carried out late spoils what the running session leads to, and says so.
LEMMA LateCallKeeps == ASSUME IInv, LateCall PROVE IInv'
<1> USE DEF IInv
<1>1. PICK c \in late : /\ Carry(c)
                        /\ late' = late \ {c}
                        /\ spoiled' = IF op = "none" THEN {} ELSE spoiled \cup c.users
  BY DEF LateCall
<1>2. UNCHANGED <<users, made, op, mem, wg, first, todo, ending, touched, dirty, twins, headless, faults,
                patches>>
  BY DEF LateCall, fileVars, patchVars
<1>3. /\ c \in CallRecord /\ c.users \subseteq dirty
      /\ up' \in BOOLEAN /\ peers' \in [UserId -> Addr \cup {NoAddr}]
      /\ \A u \in UserId \ c.users : peers'[u] = peers[u]
  BY <1>1, CarryTypes DEF TypeOK, LateDirty
<1>4. TypeOK'
  BY <1>1, <1>2, <1>3 DEF TypeOK
<1>5. Untouched' /\ LateDirty'
  BY <1>1, <1>2, <1>3 DEF Untouched, LateDirty
<1>6. Leads'
  BY <1>1, <1>2, <1>3 DEF Leads, Target, Result, Cures
<1>7. SessionInv' /\ Manned'
  BY <1>1, <1>2 DEF SessionInv, Manned, Cures
<1>8. Apart'
  BY <1>2 DEF Apart, FileApart
<1> QED
  BY <1>4, <1>5, <1>6, <1>7, <1>8

\* When no calls are left, what the calls lead to is what there is.
LEMMA NothingLeft ==
    ASSUME IInv, NoCallsLeft, ending \in {"commit", "keep"}
    PROVE  \A u \in UserId \ spoiled : u \notin dirty \/ Cures => Agrees(Target(u), peers[u])
<1>1. wg = "none"
  BY DEF NoCallsLeft, NextCalls, WgNext
<1>2. \A u \in UserId : todo[u] = "none"
  BY <1>1 DEF NoCallsLeft, NextCalls, PeerNext
<1>3. \A u \in UserId : Result(u) = peers[u]
  BY <1>1, <1>2 DEF Result, After
<1> QED
  BY <1>3 DEF IInv, Leads, NoCallsLeft

\* A session that ends well has led to the agreement.
LEMMA SettlesWell ==
    ASSUME IInv, NoCallsLeft, ending \in {"commit", "keep"}, Settle, Idle,
           NEW us, us = IF ending = "commit" THEN mem ELSE users, users' = us, made' \in BOOLEAN,
           UNCHANGED <<up, peers, late, twins, faults, patches>>
    PROVE  IInv' /\ (Cures /\ spoiled = {} => \A u \in UserId : Agrees(users'[u], peers'[u]))
<1> USE DEF IInv
<1>1. \A u \in UserId : Target(u) = users'[u]
  BY DEF Target
<1>2. \A u \in UserId \ spoiled : u \notin dirty \/ Cures => Agrees(users'[u], peers'[u])
  BY <1>1, NothingLeft
<1>3. dirty' \subseteq UserId /\ \A c \in late' : c.users \subseteq dirty'
  BY DEF Settle, LateUsers, TypeOK, LateDirty
<1>4. \A u \in UserId \ dirty' : u \notin spoiled /\ (u \notin dirty \/ Cures)
  BY DEF Settle
<1>5. users' \in Users /\ FileApart(users', twins')
  BY DEF TypeOK, Apart, NoCallsLeft
<1> QED
  BY <1>2, <1>3, <1>4, <1>5, EndsWell DEF TypeOK

LEMMA CommitKeeps == ASSUME IInv, Commit PROVE IInv'
  BY SettlesWell DEF Commit, peerVars, patchVars

LEMMA ReturnKeeps == ASSUME IInv, Return PROVE IInv'
<1>1. CASE ending = "keep" /\ Settle /\ Idle /\ UNCHANGED <<fileVars, patchVars>>
  BY <1>1, SettlesWell DEF Return, peerVars, fileVars, patchVars, IInv, TypeOK
<1>2. CASE ending = "error" /\ Abort({})
  BY <1>2, AbortsWell DEF Return, peerVars, IInv, TypeOK
<1> QED
  BY <1>1, <1>2 DEF Return

LEMMA CommitFailsKeeps == ASSUME IInv, CommitFails PROVE IInv'
<1> USE DEF IInv
<1>1. faults' \in 0 .. MaxFaults
  BY BoundAssumption DEF CommitFails, Fault, TypeOK
<1>2. /\ NoCallsLeft /\ ending = "commit" /\ Idle
      /\ dirty' = dirty \cup touched \cup spoiled
      /\ UNCHANGED <<up, peers, late, twins, patches>>
      /\ (users' = users /\ made' = made) \/ (users' = mem /\ made' = TRUE)
  BY DEF CommitFails, peerVars, fileVars, patchVars
<1>3. \A u \in UserId \ dirty' : Agrees(users[u], peers[u]) /\ Agrees(mem[u], peers[u])
  BY <1>2, NothingLeft DEF Untouched, Target
<1>4. \A c \in late' : c.users \subseteq dirty'
  BY <1>2 DEF LateDirty
<1>5. FileApart(users', twins')
  BY <1>2 DEF Apart, NoCallsLeft
<1> QED
  BY <1>1, <1>2, <1>3, <1>4, <1>5, EndsWell DEF TypeOK

LEMMA CrashKeeps == ASSUME IInv, Crash PROVE IInv'
<1>1. faults' \in 0 .. MaxFaults
  BY BoundAssumption DEF Crash, Fault, TypeOK, IInv
<1> QED
  BY <1>1, AbortsWell DEF Crash, peerVars, IInv, TypeOK

LEMMA StutterKeeps == ASSUME IInv, UNCHANGED vars PROVE IInv'
  BY DEF IInv, vars, patchVars, TypeOK, Untouched, Leads, LateDirty, SessionInv, Manned, Target, Result,
         Cures, HasBrigadier, Present, Apart, FileApart

-----------------------------------------------------------------------------
(* The theorems.                                                           *)

LEMMA InitIInv == Init => IInv
<1> SUFFICES ASSUME Init PROVE IInv
  OBVIOUS
<1>1. TypeOK
  <2>1. users \in Users /\ mem \in Users /\ peers \in [UserId -> Addr \cup {NoAddr}]
    BY DEF Init, Users
  <2>2. todo \in [UserId -> Calls] /\ wg \in Calls
    BY NoneCalls DEF Init, Calls
  <2>3. faults \in 0 .. MaxFaults /\ patches \in 0 .. MaxPatches
    BY BoundAssumption DEF Init
  <2> QED
    BY <2>1, <2>2, <2>3 DEF Init, TypeOK
<1>2. Untouched /\ Leads /\ LateDirty /\ Manned
  BY DEF Init, Untouched, Leads, LateDirty, Manned, Agrees
<1>3. SessionInv
  BY NoneCalls DEF Init, SessionInv
<1>4. Apart
  BY DEF Init, Apart, FileApart
<1> QED
  BY <1>1, <1>2, <1>3, <1>4 DEF IInv

LEMMA NextIInv == IInv /\ [Next]_vars => IInv'
<1> SUFFICES ASSUME IInv, [Next]_vars PROVE IInv'
  OBVIOUS
<1>1. CASE UserOperation
  BY <1>1, UserOperationStarts
<1>2. CASE BrigadeOperation
  BY <1>2, BrigadeOperationStarts
<1>3. CASE SessionStep
  BY <1>3, CallSucceedsKeeps, CallRefusedKeeps, CommitKeeps, ReturnKeeps, StutterKeeps
     DEF SessionStep, DrawAgain
<1>4. CASE FaultStep
  BY <1>4, CallFailsKeeps, CommitFailsKeeps, CrashKeeps DEF FaultStep
<1>5. CASE LateCall
  BY <1>5, LateCallKeeps
<1> QED
  BY <1>1, <1>2, <1>3, <1>4, <1>5, StutterKeeps DEF Next

\* The inductive invariant holds for any users, addresses, kinds, faults and patches.
THEOREM Invariance == Spec => []IInv
<1> QED
  BY InitIInv, NextIInv, PTL DEF Spec

\* Every variable keeps its type.
THEOREM TypeCorrect == Spec => []TypeOK
<1>1. IInv => TypeOK
  BY DEF IInv
<1> QED
  BY <1>1, Invariance, PTL

\* Between sessions the file and the endpoint agree on every user but the dirty ones,
\* whatever is created, patched and replayed and whatever fails.
THEOREM Agreement == Spec => []FileAgreesWithEndpoint
<1>1. IInv => FileAgreesWithEndpoint
  BY DEF IInv, Untouched, SessionInv, FileAgreesWithEndpoint
<1> QED
  BY <1>1, Invariance, PTL

\* A replay -r that ends well ends every disagreement.
THEOREM FreshRepairs == Spec => FreshReplayRepairs
<1>1. ASSUME IInv, [Next]_vars
      PROVE  [/\ Commit \/ Return
              /\ Cures /\ late = {} /\ spoiled = {}
              => \A u \in UserId : Agrees(users'[u], peers'[u])]_vars
  <2>1. ASSUME Commit \/ Return, Cures, spoiled = {}
        PROVE  \A u \in UserId : Agrees(users'[u], peers'[u])
    <3>1. CASE Commit
      BY <1>1, <2>1, <3>1, SettlesWell DEF Commit, peerVars, patchVars
    <3>2. CASE Return
      <4>1. ending = "keep" /\ Settle /\ Idle /\ UNCHANGED <<fileVars, patchVars>>
        BY <1>1, <2>1, <3>2 DEF Return, IInv, SessionInv, NoCallsLeft
      <4> QED
        BY <1>1, <2>1, <3>2, <4>1, SettlesWell DEF Return, peerVars, fileVars, patchVars, IInv, TypeOK
    <3> QED
      BY <2>1, <3>1, <3>2
  <2> QED
    BY <2>1
<1> QED
  BY <1>1, Invariance, PTL DEF Spec, FreshReplayRepairs

\* No operation but the deletion by the socket API and a patch whose copy has none, and
\* no failure, loses the brigadier.
THEOREM BrigadierStays == Spec => BrigadierKept
<1>1. ASSUME IInv, Next, HasBrigadier(users), op # "socketDelete", ~headless
      PROVE  HasBrigadier(users')
  <2>1. CASE UNCHANGED users
    BY <1>1, <2>1 DEF HasBrigadier, Present
  <2>2. CASE Commit \/ CommitFails
    <3>1. op # "none" /\ ending = "commit" /\ (users' = users \/ users' = mem)
      BY <2>2 DEF Commit, CommitFails, NoCallsLeft, fileVars
    <3>2. HasBrigadier(mem)
      BY <1>1, <3>1 DEF IInv, Manned
    <3> QED
      BY <1>1, <3>1, <3>2
  <2>3. Commit \/ CommitFails \/ UNCHANGED users
    BY <1>1 DEF Next, UserOperation, BrigadeOperation, SessionStep, FaultStep, LateCall,
         CallSucceeds, CallRefused, Return, DrawAgain, CallFails, Crash, Abort, CreateUser,
         ReplaceBrigadier, DeleteUser, BlockUser, UnblockUser, CreateBrigade, DestroyBrigade,
         Patch, ReplayBrigade, ReplayMarks, ReplayPlain, ReplayInterface, Begin, fileVars, vars
  <2> QED
    BY <2>1, <2>2, <2>3
<1> QED
  BY <1>1, Invariance, PTL DEF Spec, BrigadierKept

\* No two peers have one address, but those of users who are dirty or wait for replay,
\* or to whom a patch's copy gave it.
THEOREM AddressesStayApart == Spec => []AddressesApart
<1>1. ASSUME IInv
      PROVE  AddressesApart
  <2>1. ASSUME op = "none", NEW u \in UserId \ dirty, users[u] # NoUser => users[u].mark = "none",
               peers[u] # NoAddr
        PROVE  users[u] # NoUser /\ users[u].mark = "none" /\ users[u].addr = peers[u]
    <3>1. Agrees(users[u], peers[u])
      BY <1>1, <2>1 DEF IInv, Untouched, SessionInv
    <3> QED
      BY <2>1, <3>1 DEF Agrees
  <2> QED
    BY <1>1, <2>1 DEF IInv, Apart, FileApart, AddressesApart
<1> QED
  BY <1>1, Invariance, PTL

=============================================================================
