------------------------------ MODULE Brigade ------------------------------
(***************************************************************************)
(* The users of a brigade, kept twice: in brigade.json and, as VPN peers,  *)
(* at the endpoint, which is told of every change by HTTP calls.  There is *)
(* no transaction over the two: a session reads the file, makes its calls  *)
(* one after the other and commits at the end, and any call, the commit or *)
(* the process may fail in between.                                        *)
(*                                                                         *)
(* FileDb lets one session run at a time (FileDb!SessionsExclusive) and    *)
(* read the last commit (FileDb!ImplementsAtomicDocument), so this module  *)
(* has one session and a file that changes in one step.  A user here is a  *)
(* pair of UserID and WireGuard key; its address stands for whatever the   *)
(* peer is configured with.                                                *)
(***************************************************************************)
EXTENDS Integers, FiniteSets

CONSTANTS
    UserId,       \* identities: a UUID with a key
    Addr,         \* the addresses of the brigade's IPv4CGNAT
    NoUser, NoAddr,
    MaxUsers,     \* the limit of users, storage's or the file's own
    Kinds,        \* the kinds of session that may run
    MaxFaults,    \* bound: failed or lost calls, failed commits, crashes
    MaxPatches    \* bound: patches applied

AllKinds == {"createbrigade", "create", "replace", "delete", "block", "unblock",
             "socketDelete",
             "socketBlock", "patch", "replay", "replayFresh", "replayPlain",
             "replayFreshPlain", "replayInterface", "replayDelayed", "destroy"}

ASSUME KindsAssumption == Kinds \subseteq AllKinds
ASSUME BoundAssumption == MaxUsers \in Nat /\ MaxFaults \in Nat /\ MaxPatches \in Nat
ASSUME FiniteAssumption == IsFiniteSet(UserId) /\ IsFiniteSet(Addr)

Marks == {"none", "creation", "deletion", "replay", "blocking"}
User  == [brig : BOOLEAN, blocked : BOOLEAN, addr : Addr, mark : Marks]
ASSUME SentinelAssumption == NoAddr \notin Addr /\ NoUser \notin User

Users == [UserId -> User \cup {NoUser}]

\* The calls left for a peer, or for the interface: delete it, add it, or both.
Calls == {"none", "del", "add", "readd"}

VARIABLES
    users,    \* the users in the file
    made,     \* whether the brigade has been created
    up,       \* external: the brigade's interface exists at the endpoint
    peers,    \* external: peers[u]: what u's peer is configured with
    late,     \* external: calls given up by the client, not yet carried out
    op,       \* the kind of the session that runs, "none" between sessions
    mem,      \* the users in the session's memory, which it will commit
    wg,       \* the interface calls left
    first,    \* the users whose deletion the session makes before other calls
    todo,     \* todo[u]: the peer calls left
    ending,   \* how the session ends when its calls succeed
    touched,  \* users whose peer the session has changed
    spoiled,  \* history: users the session leaves split even if it succeeds
    dirty,    \* history: users that failures or forgetting may have split
    twins,    \* history: users to whom a patch's copy gave another's address as well
    headless, \* history: the copy that the patch at work has read has no brigadier
    faults, patches

sessVars == <<op, mem, wg, first, todo, ending, touched, spoiled>>
fileVars == <<users, made>>
peerVars == <<up, peers, late>>
patchVars == <<twins, patches>>
vars == <<users, made, up, peers, late, op, mem, wg, first, todo, ending, touched,
          spoiled, dirty, twins, headless, faults, patches>>

Present(us) == {u \in UserId : us[u] # NoUser}
NoCalls == [u \in UserId |-> "none"]

-----------------------------------------------------------------------------

\* Before createbrigade has run.
Init ==
    /\ users = [u \in UserId |-> NoUser] /\ made = FALSE
    /\ up = FALSE /\ peers = [u \in UserId |-> NoAddr] /\ late = {}
    /\ op = "none" /\ mem = users /\ wg = "none" /\ first = {} /\ todo = NoCalls
    /\ ending = "commit" /\ touched = {} /\ spoiled = {}
    /\ dirty = {} /\ twins = {} /\ headless = FALSE /\ faults = 0 /\ patches = 0

\* A session has read the file and knows what it will call and commit.
Begin(kind, new, wgCalls, dels, calls, end, forgotten) ==
    /\ op = "none"
    /\ kind \in Kinds
    /\ op' = kind /\ mem' = new
    /\ wg' = wgCalls /\ first' = dels /\ todo' = calls
    /\ ending' = end
    /\ touched' = {} /\ spoiled' = forgotten
    /\ UNCHANGED <<fileVars, peerVars, dirty, faults>>

Only(u, call) == [NoCalls EXCEPT ![u] = call]

\* createbrigade: it refuses a document that exists.
CreateBrigade ==
    /\ ~made
    /\ Begin("createbrigade", users, "add", {}, NoCalls, "commit", {})
    /\ UNCHANGED <<patchVars, headless>>

\* assembleUser draws a UUID that no user of the file has, for a key that is new:
\* no peer has it, and no call on its way to the endpoint.
FreshIds ==
    {u \in UserId : /\ users[u] = NoUser /\ peers[u] = NoAddr
                    /\ \A c \in late : c.call \in {"del", "add"} => u \notin c.users}

\* Mutant: the address of a peer that was left behind is not given out again.
FreeAddrsOfPeers(us) == Addr \ ({us[u].addr : u \in Present(us)} \cup {peers[u] : u \in UserId})

\* Mutant: the address of a blocked user, who has no peer, is given out.
FreeAddrsOfBlocked(us) == Addr \ {us[u].addr : u \in {v \in Present(us) : ~us[v].blocked}}

FreeAddrs(us) == Addr \ {us[u].addr : u \in Present(us)}

NewUser(brig, a) == [brig |-> brig, blocked |-> FALSE, addr |-> a, mark |-> "none"]

\* CreateUser; with no free address assembleUser draws for ever.
CreateUser ==
    /\ made
    /\ Cardinality(Present(users)) < MaxUsers
    /\ \E u \in FreshIds :
          \/ \E a \in FreeAddrs(users), b \in BOOLEAN :
                /\ b => ~\E v \in Present(users) : users[v].brig
                /\ Begin("create", [users EXCEPT ![u] = NewUser(b, a)],
                         "none", {}, Only(u, "add"), "commit", {})
          \/ /\ FreeAddrs(users) = {}
             /\ Begin("create", users, "none", {}, NoCalls, "spin", {})
    /\ UNCHANGED <<patchVars, headless>>

\* CreateUser with replaceBrigadier: removeBrigadier has already deleted the
\* peer when assembleUser finds a second brigadier or no room.
ReplaceBrigadier ==
    /\ made
    /\ \E old \in Present(users), u \in FreshIds :
          LET rest == [users EXCEPT ![old] = NoUser] IN
          /\ users[old].brig
          /\ IF \/ \E v \in Present(rest) : rest[v].brig
                \/ Cardinality(Present(rest)) >= MaxUsers
             THEN Begin("replace", rest, "none", {old}, Only(old, "del"), "error", {})
             ELSE IF FreeAddrs(rest) = {}
             THEN Begin("replace", rest, "none", {old}, Only(old, "del"), "spin", {})
             ELSE \E a \in FreeAddrs(rest) :
                     Begin("replace", [rest EXCEPT ![u] = NewUser(TRUE, a)], "none", {old},
                           [NoCalls EXCEPT ![old] = "del", ![u] = "add"], "commit", {})
    /\ UNCHANGED <<patchVars, headless>>

\* The peer of a user that is blocked already is not deleted.
DeleteCalls(u) == Only(u, IF users[u].blocked THEN "none" ELSE "del")

\* A blocked user whose peer still waits for replay is forgotten with the peer.
DeleteForgets(u) == IF users[u].blocked /\ users[u].mark = "blocking" THEN {u} ELSE {}

\* Mutant: the brigadier flag of the request is not compared.
DeleteAnyUser(u, kind) ==
    /\ users[u] # NoUser
    /\ Begin(kind, [users EXCEPT ![u] = NoUser], "none", {}, DeleteCalls(u), "commit",
             DeleteForgets(u))
    /\ UNCHANGED <<patchVars, headless>>

\* DeleteUser of storage, for the dashboard, which never deletes a brigadier,
\* and deleteUser of internal/user, for the socket API, which may.
DeleteUser(u, kind) ==
    /\ users[u] # NoUser
    /\ kind = "delete" => ~users[u].brig
    /\ Begin(kind, [users EXCEPT ![u] = NoUser], "none", {}, DeleteCalls(u), "commit",
             DeleteForgets(u))
    /\ UNCHANGED <<patchVars, headless>>

\* The same with onlyBlock.
BlockUser(u, kind) ==
    /\ users[u] # NoUser
    /\ kind = "block" => ~users[u].brig
    /\ Begin(kind, [users EXCEPT ![u].blocked = TRUE], "none", {}, DeleteCalls(u),
             "commit", {})
    /\ UNCHANGED <<patchVars, headless>>

UnblockUser(u) ==
    /\ users[u] # NoUser
    /\ Begin("unblock", [users EXCEPT ![u].blocked = FALSE], "none", {},
             Only(u, IF users[u].blocked THEN "add" ELSE "none"), "commit",
             IF users[u].blocked /\ users[u].mark = "blocking" THEN {u} ELSE {})
    /\ UNCHANGED <<patchVars, headless>>

DestroyBrigade ==
    /\ made
    /\ Begin("destroy", users, "del", {}, NoCalls, "keep", UserId)
    /\ UNCHANGED <<patchVars, headless>>

-----------------------------------------------------------------------------
(* cmd/patch puts the users of another copy of the brigade in place of the *)
(* present ones, and marks what replay has to tell the endpoint.           *)

\* Nothing is asked of the copy: it may have no brigadier, or several, and give an
\* address to two users.  Its marks are not read.
PatchUser == [brig : BOOLEAN, blocked : BOOLEAN, addr : Addr, mark : {"none"}]
PatchFiles == [UserId -> PatchUser \cup {NoUser}]

Twins(f) ==
    {u \in Present(f) : \E v \in Present(f) \ {u} : f[u].addr = f[v].addr}

Headless(f) == \A u \in Present(f) : ~f[u].brig

\* Mutant: a user whose address alone has changed is not marked.
PatchMarkNoReplay(old, new) ==
    IF old = NoUser THEN IF new.blocked THEN "none" ELSE "creation"
    ELSE IF old.blocked /\ ~new.blocked THEN "creation"
    ELSE IF ~old.blocked /\ new.blocked THEN "blocking"
    ELSE "none"

\* deletedUsers for a user the new copy has not, freshUsers for the others.
PatchMark(old, new) ==
    IF old = NoUser THEN IF new.blocked THEN "none" ELSE "creation"
    ELSE IF old.blocked /\ ~new.blocked THEN "creation"
    ELSE IF ~old.blocked /\ new.blocked THEN "blocking"
    ELSE IF ~new.blocked /\ (old.brig # new.brig \/ old.addr # new.addr) THEN "replay"
    ELSE "none"

PatchedUser(old, new) ==
    IF new # NoUser THEN [new EXCEPT !.mark = PatchMark(old, new)]
    ELSE IF old = NoUser \/ old.blocked THEN NoUser
    ELSE [old EXCEPT !.mark = "deletion"]

\* What was still marked and is not any more: a patch on top of a patch.
PatchForgets(old, new) ==
    /\ old # NoUser /\ old.mark # "none"
    /\ \/ /\ ~old.blocked
          /\ new # NoUser /\ new.mark = "none"
       \/ /\ old.mark = "blocking"
          /\ new = NoUser \/ new.mark \in {"none", "creation"}

Patch ==
    /\ made
    /\ patches < MaxPatches
    /\ \E f \in PatchFiles :
          LET new == [u \in UserId |-> PatchedUser(users[u], f[u])] IN
          /\ Begin("patch", new, "none", {}, NoCalls, "commit",
                   {u \in UserId : PatchForgets(users[u], new[u])})
          /\ twins' = twins \cup Twins(f)
          /\ headless' = Headless(f)
    /\ patches' = patches + 1

-----------------------------------------------------------------------------
(* ReplayBrigade.                                                          *)

\* Mutant: a blocked user is added again when everything is.
DelayedCallsUnblock(r, donly) ==
    CASE r.mark = "deletion" -> "del"
      [] r.mark = "blocking" -> IF r.blocked \/ donly THEN "del" ELSE "readd"
      [] r.mark = "replay"   -> IF r.blocked THEN "del" ELSE "readd"
      [] r.mark = "creation" -> IF r.blocked THEN "none" ELSE "add"
      [] r.mark = "none"     -> IF donly THEN "none" ELSE "add"

\* What happens to one user in the loops of a replay that applies marks:
\* the calls, and the user to commit.
DelayedCalls(r, donly) ==
    CASE r.mark = "deletion" -> "del"
      [] r.mark = "blocking" -> IF r.blocked \/ donly THEN "del" ELSE "readd"
      [] r.mark = "replay"   -> IF r.blocked THEN "del" ELSE "readd"
      [] r.mark = "creation" -> IF r.blocked THEN "none" ELSE "add"
      [] r.mark = "none"     -> IF r.blocked \/ donly THEN "none" ELSE "add"

DelayedUser(r) ==
    CASE r.mark = "deletion" -> NoUser
      [] r.mark \in {"replay", "creation"} /\ r.blocked -> [r EXCEPT !.mark = "creation"]
      [] OTHER -> [r EXCEPT !.mark = "none"]

\* A replay that does not apply marks leaves marked users out.
PlainCalls(r) == IF r.mark # "none" \/ r.blocked THEN "none" ELSE "add"

\* replay (fresh with -r, users only with -u) and replay -do: marks are applied.
ReplayMarks(kind, wgCalls, donly) ==
    /\ made
    /\ Begin(kind,
             [u \in UserId |-> IF users[u] = NoUser THEN NoUser ELSE DelayedUser(users[u])],
             wgCalls,
             {u \in Present(users) : users[u].mark = "deletion"},
             [u \in UserId |-> IF users[u] = NoUser THEN "none"
                               ELSE DelayedCalls(users[u], donly)],
             "commit",
             IF donly THEN {u \in Present(users) : users[u].mark = "blocking" /\ ~users[u].blocked}
                      ELSE {})
    /\ UNCHANGED <<patchVars, headless>>

\* replay -nd: there is nothing to commit.
ReplayPlain(kind, wgCalls) ==
    /\ made
    /\ Begin(kind, users, wgCalls, {},
             [u \in UserId |-> IF users[u] = NoUser THEN "none" ELSE PlainCalls(users[u])],
             "keep", {})
    /\ UNCHANGED <<patchVars, headless>>

\* replay -b returns before it comes to the users, whose peers -r has deleted.
ReplayInterface(wgCalls) ==
    /\ made
    /\ Begin("replayInterface", users, wgCalls, {}, NoCalls, "keep",
             IF wgCalls = "readd" THEN UserId ELSE {})
    /\ UNCHANGED <<patchVars, headless>>

ReplayBrigade ==
    \/ ReplayMarks("replayFresh", "readd", FALSE)
    \/ ReplayPlain("replayFreshPlain", "readd")
    \/ \E wgCalls \in {"none", "add"} : \/ ReplayMarks("replay", wgCalls, FALSE)
                                        \/ ReplayPlain("replayPlain", wgCalls)
    \/ \E wgCalls \in {"add", "readd"} : ReplayInterface(wgCalls)
    \/ ReplayMarks("replayDelayed", "none", TRUE)

-----------------------------------------------------------------------------
(* A session's calls.                                                      *)

\* The users who may be affected when a call given up is carried out after all.
LateUsers == UNION {c.users : c \in late}

\* The session is over, and the database closed.
Idle ==
    /\ op' = "none" /\ mem' = [u \in UserId |-> NoUser]
    /\ wg' = "none" /\ first' = {} /\ todo' = NoCalls /\ ending' = "commit"
    /\ touched' = {} /\ spoiled' = {} /\ headless' = FALSE

\* It is over by an error, and the file is as it was.
Abort(more) ==
    /\ Idle
    /\ dirty' = dirty \cup touched \cup more
    /\ UNCHANGED <<fileVars, patchVars>>

Fault == faults < MaxFaults /\ faults' = faults + 1

Command(calls) == IF calls \in {"del", "readd"} THEN "del" ELSE "add"
Rest(calls)    == IF calls = "readd" THEN "add" ELSE "none"

\* A call, with the users whose peers it concerns and what it would add.
CallRecord == [call : {"wgDel", "wgAdd", "del", "add"}, users : SUBSET UserId,
               addr : Addr \cup {NoAddr}]

\* The calls the session may make next.
WgNext ==
    {[call  |-> IF Command(wg) = "del" THEN "wgDel" ELSE "wgAdd",
      users |-> IF Command(wg) = "del" THEN UserId ELSE {},
      addr  |-> NoAddr]}
PeerNext ==
    {[call  |-> Command(todo[u]),
      users |-> {u},
      addr  |-> IF Command(todo[u]) = "del" THEN NoAddr ELSE mem[u].addr] :
        u \in IF first # {} THEN first ELSE {v \in UserId : todo[v] # "none"}}
NextCalls == IF wg # "none" THEN WgNext ELSE PeerNext

\* external: the endpoint carries out a call.  A peer it has stays as it is
\* (error 151, which WgPeerAdd takes for success).
Carry(c) ==
    /\ up' = CASE c.call = "wgDel" -> FALSE [] c.call = "wgAdd" -> TRUE [] OTHER -> up
    /\ peers' = [u \in UserId |->
                   IF u \notin c.users THEN peers[u]
                   ELSE IF c.call # "add" THEN NoAddr
                   ELSE IF up /\ peers[u] = NoAddr THEN c.addr ELSE peers[u]]

\* external: what the endpoint may answer with an error, by its state alone.
\* WgDel takes its errors 128 and 146 for success.
MayRefuse(c) ==
    \/ c.call = "wgAdd" /\ up
    \/ c.call = "del" /\ \A u \in c.users : peers[u] = NoAddr
    \/ c.call \in {"del", "add"} /\ ~up
MayAccept(c) == c.call \in {"del", "add"} => up

CallSucceeds ==
    \E c \in NextCalls :
        /\ MayAccept(c)
        /\ Carry(c)
        /\ IF wg # "none"
           THEN wg' = Rest(wg) /\ UNCHANGED <<first, todo>>
           ELSE /\ first' = first \ c.users
                /\ todo' = [u \in UserId |-> IF u \in c.users THEN Rest(todo[u]) ELSE todo[u]]
                /\ UNCHANGED wg
        /\ touched' = touched \cup c.users
        /\ UNCHANGED <<fileVars, late, op, mem, ending, spoiled, dirty, headless, faults, patchVars>>

\* The endpoint answers with an error, and the operation returns it.
CallRefused ==
    /\ \E c \in NextCalls : MayRefuse(c)
    /\ Abort({})
    /\ UNCHANGED <<peerVars, faults>>

\* No connection, or no answer in time: the call was not made, was carried out,
\* or will be when nobody waits for it.
CallFails ==
    /\ Fault
    /\ \E c \in NextCalls :
          \/ Abort({}) /\ UNCHANGED peerVars
          \/ MayAccept(c) /\ Carry(c) /\ Abort(c.users) /\ UNCHANGED late
          \/ late' = late \cup {c} /\ Abort(c.users) /\ UNCHANGED <<up, peers>>

LateCall ==
    \E c \in late :
        /\ Carry(c)
        /\ late' = late \ {c}
        /\ spoiled' = IF op = "none" THEN {} ELSE spoiled \cup c.users
    /\ UNCHANGED <<fileVars, op, mem, wg, first, todo, ending, touched, dirty, headless, faults, patchVars>>

-----------------------------------------------------------------------------
(* The end of a session.                                                   *)

\* After everything was deleted and built again, only late calls can still harm.
Cures == op \in {"replayFresh", "replayFreshPlain"}

Settle == dirty' = (IF Cures THEN LateUsers ELSE dirty) \cup spoiled

NoCallsLeft == op # "none" /\ NextCalls = {}

Commit ==
    /\ NoCallsLeft /\ ending = "commit"
    /\ users' = mem /\ made' = TRUE
    /\ Settle
    /\ Idle
    /\ UNCHANGED <<peerVars, faults, patchVars>>

\* Operations that never commit, and those that found an error after their calls.
Return ==
    /\ NoCallsLeft
    /\ \/ ending = "keep" /\ Settle /\ Idle /\ UNCHANGED <<fileVars, patchVars>>
       \/ ending = "error" /\ Abort({})
    /\ UNCHANGED <<peerVars, faults>>

\* assembleUser draws another address of a network in which none is free.
DrawAgain ==
    /\ NoCallsLeft /\ ending = "spin"
    /\ UNCHANGED vars

\* Commit returns an error: before it has replaced the file, or after.
CommitFails ==
    /\ NoCallsLeft /\ ending = "commit"
    /\ Fault
    /\ \/ UNCHANGED fileVars
       \/ users' = mem /\ made' = TRUE
    /\ dirty' = dirty \cup touched \cup spoiled
    /\ Idle
    /\ UNCHANGED <<peerVars, patchVars>>

\* The process dies.
Crash ==
    /\ op # "none"
    /\ Fault
    /\ Abort({})
    /\ UNCHANGED peerVars

-----------------------------------------------------------------------------

UserOperation ==
    \/ CreateUser \/ ReplaceBrigadier
    \/ \E u \in UserId : \/ \E kind \in {"delete", "socketDelete"} : DeleteUser(u, kind)
                         \/ \E kind \in {"block", "socketBlock"} : BlockUser(u, kind)
                         \/ UnblockUser(u)

BrigadeOperation == CreateBrigade \/ DestroyBrigade \/ Patch \/ ReplayBrigade

SessionStep == CallSucceeds \/ CallRefused \/ Commit \/ Return \/ DrawAgain

FaultStep == CallFails \/ CommitFails \/ Crash

Next == UserOperation \/ BrigadeOperation \/ SessionStep \/ FaultStep \/ LateCall

Spec == Init /\ [][Next]_vars

\* A session that runs goes on: its calls have timeouts.
FairSpec == Spec /\ WF_vars(SessionStep)

-----------------------------------------------------------------------------
(* Properties.                                                             *)

\* Every variable keeps its type.
TypeOK ==
    /\ users \in Users /\ mem \in Users
    /\ made \in BOOLEAN /\ up \in BOOLEAN
    /\ peers \in [UserId -> Addr \cup {NoAddr}]
    /\ late \subseteq CallRecord
    /\ op \in AllKinds \cup {"none"}
    /\ wg \in Calls /\ todo \in [UserId -> Calls]
    /\ first \subseteq UserId
    /\ ending \in {"commit", "keep", "error", "spin"}
    /\ touched \subseteq UserId /\ spoiled \subseteq UserId /\ dirty \subseteq UserId
    /\ twins \subseteq UserId /\ headless \in BOOLEAN
    /\ faults \in 0 .. MaxFaults /\ patches \in 0 .. MaxPatches

\* The peer a user of the file has, or may have while a mark waits for replay.
Agrees(r, p) ==
    IF r = NoUser THEN p = NoAddr
    ELSE CASE r.mark = "none"     -> p = IF r.blocked THEN NoAddr ELSE r.addr
           [] r.mark = "creation" -> p = NoAddr \/ (~r.blocked /\ p = r.addr)
           [] r.mark = "blocking" -> TRUE
           [] OTHER               -> r.blocked => p = NoAddr

\* Between sessions the file and the endpoint agree on every user but those a
\* failed session had called for and those a successful one has forgotten; a
\* replay -r that ends well leaves no such user, whatever happened before.
FileAgreesWithEndpoint ==
    op = "none" => \A u \in UserId \ dirty : Agrees(users[u], peers[u])

HasBrigadier(us) == \E u \in Present(us) : us[u].brig /\ us[u].mark # "deletion"

\* A replay -r that ends well restores the agreement on every user, whatever
\* failed before, unless a call that had been given up is carried out meanwhile.
FreshReplayRepairs ==
    [][/\ Commit \/ Return
       /\ Cures /\ late = {} /\ spoiled = {}
       => \A u \in UserId : Agrees(users'[u], peers'[u])]_vars

\* A brigade that has a brigadier, not one that a replay will delete, keeps having
\* one, unless the socket API deletes it or a patch's copy has none: a replacement that
\* fails half way has not lost the old one, and neither a patch nor the replay of its
\* marks leaves none.
BrigadierKept ==
    [][/\ HasBrigadier(users)
       /\ op # "socketDelete" /\ ~headless
       => HasBrigadier(users')]_vars

\* No two peers of users who are not dirty have one address, unless a patch's copy has
\* given them one, or a mark of one of them waits for replay: a user who was blocked and
\* is unblocked finds the address that he comes back with unused, whoever was created,
\* patched or replayed meanwhile.
AddressesApart ==
    op = "none" =>
        \A u, v \in {w \in UserId \ dirty : users[w] # NoUser => users[w].mark = "none"} :
            u # v /\ peers[u] = peers[v] => peers[u] = NoAddr \/ {u, v} \subseteq twins

\* Every session ends, so that the database is not locked for ever, but one that
\* needs an address when the users of the file have them all: sessions that failed
\* and peers they left behind take no address away.
SessionEnds ==
    op # "none" ~> \/ op = "none"
                   \/ /\ op \in {"create", "replace"}
                      /\ Cardinality(Present(users)) >= Cardinality(Addr)

=============================================================================
