------------------------------ MODULE Protocols ------------------------------
(***************************************************************************)
(* The protocols of one brigade.  Wireguard is always there; OpenVPN over  *)
(* Cloak, IPSec, Outline and Protocol0 are turned on and off by the tools  *)
(* cmd/turnon-*, while users are created who get secrets for the protocols *)
(* that are on.  A tool changes brigade.json in one session and replays    *)
(* the brigade at the endpoint in another; the dashboard reads what is on  *)
(* in one session and creates the user in another.  Sessions are those of  *)
(* FileDb: each is one step here.                                          *)
(***************************************************************************)
EXTENDS Naturals, FiniteSets

CONSTANTS
    Users,          \* users that may be created
    Clerks,         \* requests of the dashboard that run at once
    Tools,          \* processes that run tools
    Protocols,      \* the switched protocols under study
    Wishes,         \* sets of configurations the socket API is asked for
    MaxValues,      \* bound: values generated for the brigade's settings
    MaxFaults       \* bound: commits, replays and calls that fail

AllProtocols == {"ovc", "ipsec", "outline", "proto0"}

Configs == {"wireguard", "universal", "outline", "amnezia", "ipsec", "proto0"}

ASSUME ProtocolsAssumption ==
    /\ Protocols \subseteq AllProtocols
    /\ Wishes \subseteq SUBSET Configs
    /\ MaxValues \in Nat \ {0} /\ MaxFaults \in Nat

VARIABLES
    data,           \* brigade.json: the value of each setting, 0 when there is none
    keys,           \* brigade.json: the secrets of each user, {} for nobody
    conf,           \* the values in the configuration a user was given
    iface,          \* external: the settings of the brigade's interface
    peers,          \* external: the secrets of each peer, {} for none
    late,           \* external: the secrets of calls timed out but still to be made
    clerk,          \* what each request of the dashboard has read
    tool            \* whether a tool has a replay to make

VARIABLES           \* history and budgets
    since,          \* settings switched since a user's were chosen, or not asked for
    gap,            \* Outline has been on without Cloak
    unreplayed,     \* a change was made without a replay, or a replay failed
    orphans,        \* whose creation failed after the endpoint was asked for a peer
    made,           \* the last value generated
    faults          \* failures so far

file == <<data, keys>>
endpoint == <<iface, peers, late>>
history == <<since, gap, unreplayed, orphans>>
vars == <<file, conf, endpoint, clerk, tool, history, made, faults>>

-----------------------------------------------------------------------------
(* Settings of a brigade.  A value stands for a CA, a PSK, a port or a fake *)
(* domain; one that is generated differs from all before it.                *)

Settings == AllProtocols \cup {"cloak", "port"}
Value == 0 .. MaxValues
Off == [f \in Settings |-> 0]

Secrets == (Settings \ {"port"}) \cup {"wg"}

Up == iface["port"] # 0

(* What goes through Cloak; CreateBrigade sets Cloak up for it.            *)
Cloaked == {"ovc", "outline"}

Founded(on) == [f \in Settings |->
    IF f \in on \/ f = "port" \/ (f = "cloak" /\ on \cap Cloaked # {}) THEN 1 ELSE 0]

Idle == [asked |-> FALSE, offer |-> {}, drift |-> {}]

Init ==
    /\ \E on \in SUBSET Protocols : data = Founded(on)
    /\ iface = data
    /\ keys = [u \in Users |-> {}]
    /\ conf = [u \in Users |-> Off]
    /\ peers = [u \in Users |-> {}]
    /\ late = [u \in Users |-> {}]
    /\ clerk = [c \in Clerks |-> Idle]
    /\ tool = [t \in Tools |-> "idle"]
    /\ since = [u \in Users |-> {}]
    /\ gap = FALSE
    /\ unreplayed = FALSE
    /\ orphans = {}
    /\ made = 1
    /\ faults = 0

Fault == faults < MaxFaults /\ faults' = faults + 1

-----------------------------------------------------------------------------
(* Users.                                                                  *)

(* Mutant: Outline offered to whoever has Cloak.                           *)
OfferedByCloak == {p \in Protocols : data[p] # 0 \/ (p = "outline" /\ data["cloak"] # 0)}

Offered == {p \in Protocols : data[p] # 0}

(* A new user has new keys: the file has none of them, nor has a peer or a  *)
(* call on its way to the endpoint.                                        *)
Unused(u) == keys[u] = {} /\ peers[u] = {} /\ late[u] = {}

(* The dashboard generates keys for all it was offered, and for Wireguard. *)
KeysFor(offer) ==
    {"wg"} \cup offer \cup (IF offer \cap Cloaked # {} THEN {"cloak"} ELSE {})

(* The configuration names the settings of the moment of creation.         *)
Configured(secrets) ==
    [f \in Settings |-> IF f \in secrets \cup {"port"} THEN data[f] ELSE 0]

Enrolled(u, secrets, drift) ==
    /\ keys' = [keys EXCEPT ![u] = secrets]
    /\ conf' = [conf EXCEPT ![u] = Configured(secrets)]
    /\ peers' = [peers EXCEPT ![u] = secrets]
    /\ since' = [since EXCEPT ![u] = drift]

(* After the endpoint was asked for a peer the creation fails: its answer   *)
(* cannot be read, a configuration cannot be made of it, the commit fails,  *)
(* the process dies.  A call that timed out may be carried out later on.    *)
(* Nothing takes the peer back.                                             *)
Orphaned(u, secrets) ==
    /\ Unused(u)
    /\ Fault
    /\ orphans' = orphans \cup {u}
    /\ \/ Up /\ peers' = [peers EXCEPT ![u] = secrets] /\ UNCHANGED late
       \/ late' = [late EXCEPT ![u] = secrets] /\ UNCHANGED peers
    /\ UNCHANGED <<file, conf, iface, tool, since, gap, unreplayed, made>>

(* Those of them who have a peer, or may still get one.                    *)
Remaining == {u \in orphans : peers'[u] # {} \/ late'[u] # {}}

GetVpnConfigs(c) ==
    /\ ~clerk[c].asked
    /\ clerk' = [clerk EXCEPT ![c] = [asked |-> TRUE, offer |-> Offered, drift |-> {}]]
    /\ UNCHANGED <<file, conf, endpoint, tool, history, made, faults>>

(* CreateUser unpacks the CA of OpenVPN first, and fails if it is gone.    *)
Creatable(c) == "ovc" \in clerk[c].offer => data["ovc"] # 0

CreateUser(c, u) ==
    /\ clerk[c].asked
    /\ Unused(u)
    /\ Creatable(c) /\ Up
    /\ Enrolled(u, KeysFor(clerk[c].offer), clerk[c].drift)
    /\ clerk' = [clerk EXCEPT ![c] = Idle]
    /\ UNCHANGED <<data, iface, late, tool, gap, unreplayed, orphans, made, faults>>

CreateLost(c, u) ==
    /\ clerk[c].asked
    /\ Creatable(c)
    /\ Orphaned(u, KeysFor(clerk[c].offer))
    /\ clerk' = [clerk EXCEPT ![c] = Idle]

(* Mutant: the CA is unpacked after the peer was added.                    *)
CreateFailsLate(c) ==
    /\ clerk[c].asked
    /\ ~Creatable(c) \/ ~Up
    /\ clerk' = [clerk EXCEPT ![c] = Idle]
    /\ \E u \in Users :
          peers' = [peers EXCEPT ![u] = IF Up /\ Unused(u) THEN KeysFor(clerk[c].offer) ELSE @]
    /\ UNCHANGED <<file, conf, iface, late, tool, history, made, faults>>

(* Refused before the endpoint was asked, or by it; or the call was lost.  *)
CreateFails(c) ==
    /\ clerk[c].asked
    /\ \/ (~Creatable(c) \/ ~Up) /\ UNCHANGED faults
       \/ Fault
    /\ clerk' = [clerk EXCEPT ![c] = Idle]
    /\ UNCHANGED <<file, conf, endpoint, tool, history, made>>

(* What the configurations of the socket API are made of.                  *)
CfgProtocols(k) ==
    CASE k = "wireguard" -> {}
      [] k = "universal" -> {"cloak", "outline", "proto0"}
      [] k = "outline" -> {"cloak", "outline"}
      [] k = "amnezia" -> {"cloak", "ovc"}
      [] k = "ipsec" -> {"ipsec"}
      [] k = "proto0" -> {"proto0"}

Supported == {f \in Settings \ {"port"} : data[f] # 0}

(* What the socket API is asked for, when the brigade has all of it.        *)
Granted == {wanted \in {UNION {CfgProtocols(k) : k \in wish} : wish \in Wishes} :
                wanted \subseteq Supported}

(* The socket API reads, checks and creates in one session.                *)
SocketCreateUser(u) ==
    /\ Unused(u)
    /\ Up
    /\ \E wanted \in Granted : Enrolled(u, {"wg"} \cup wanted, Protocols \ wanted)
    /\ UNCHANGED <<data, iface, late, clerk, tool, gap, unreplayed, orphans, made, faults>>

SocketCreateLost(u) ==
    /\ \E wanted \in Granted : Orphaned(u, {"wg"} \cup wanted)
    /\ UNCHANGED clerk

(* The endpoint comes to a call nobody waits for any more.                 *)
LateCall(u) ==
    /\ late[u] # {}
    /\ peers' = IF Up THEN [peers EXCEPT ![u] = late[u]] ELSE peers
    /\ late' = [late EXCEPT ![u] = {}]
    /\ UNCHANGED <<file, conf, iface, clerk, tool, since, gap, unreplayed, made, faults>>
    /\ orphans' = Remaining

-----------------------------------------------------------------------------
(* Tools.                                                                  *)

(* A switch of some settings is news to every user and to every request    *)
(* that has read the old ones.                                             *)
Switched(fs) ==
    /\ since' = [u \in Users |-> IF keys[u] # {} THEN since[u] \cup fs ELSE {}]
    /\ clerk' = [c \in Clerks |->
          IF clerk[c].asked THEN [clerk[c] EXCEPT !.drift = @ \cup fs] ELSE clerk[c]]

(* With -r a replay follows; without, one is owed.                         *)
ReplayOrNot(t) ==
    \/ tool' = [tool EXCEPT ![t] = "replay"] /\ UNCHANGED unreplayed
    \/ UNCHANGED tool /\ unreplayed' = TRUE

Gapped(d) == d["outline"] # 0 /\ d["cloak"] = 0

Rewritten(fs) ==
    /\ data' = [f \in Settings |-> IF f \in fs THEN made + 1 ELSE data[f]]
    /\ made < MaxValues /\ made' = made + 1

Session(t) == tool[t] = "idle" /\ UNCHANGED <<conf, endpoint, faults>>

(* addOVCSupport takes a new fake domain for Cloak even when there is one. *)
SwitchOn(t, p) ==
    LET fs == IF p = "ovc" THEN {"ovc", "cloak"} ELSE {p} IN
    /\ Session(t)
    /\ data[p] = 0
    /\ Rewritten(fs)
    /\ Switched(fs)
    /\ ReplayOrNot(t)
    /\ gap' = (gap \/ Gapped(data'))
    /\ UNCHANGED <<keys, orphans>>

(* removeOVCSupport takes Cloak away even when Outline needs it.           *)
SwitchOff(t, p) ==
    LET fs == IF p = "ovc" THEN {"ovc", "cloak"} ELSE {p} IN
    /\ Session(t)
    /\ data[p] # 0
    /\ data' = [f \in Settings |-> IF f \in fs THEN 0 ELSE data[f]]
    /\ Switched(fs)
    /\ ReplayOrNot(t)
    /\ gap' = (gap \/ Gapped(data'))
    /\ UNCHANGED <<keys, orphans, made>>

(* Every user without keys for Cloak gets some.                            *)
CloakKeys ==
    keys' = [u \in Users |-> IF keys[u] = {} THEN {} ELSE keys[u] \cup {"cloak"}]

(* turnon-cloak-repair, with -w or without.                                *)
RepairCloak(t) ==
    /\ Session(t)
    /\ \/ Rewritten({"cloak"})
       \/ data["cloak"] # 0 /\ UNCHANGED <<data, made>>
    /\ CloakKeys
    /\ Switched({"cloak"})
    /\ ReplayOrNot(t)
    /\ UNCHANGED <<gap, orphans>>

(* Mutant: Cloak goes whoever needs it.                                    *)
CloakRefusedNever == FALSE

(* removeCloakSupport refuses when OpenVPN or Outline is on, and, by a test *)
(* that is upside down, when OpenVPN is off: it has no key for the shuffler. *)
CloakRefused ==
    \/ data["ovc"] # 0
    \/ data["ovc"] = 0
    \/ data["outline"] # 0

PurgeCloak(t) ==
    /\ Session(t)
    /\ data' = IF CloakRefused THEN data ELSE [data EXCEPT !["cloak"] = 0]
    /\ UNCHANGED <<keys, clerk, tool, history, made>>

(* cmd/reset -p: the port, and always a replay.                            *)
ResetPort(t) ==
    /\ Session(t)
    /\ Rewritten({"port"})
    /\ Switched({"port"})
    /\ tool' = [tool EXCEPT ![t] = "replay"]
    /\ UNCHANGED <<keys, gap, unreplayed, orphans>>

(* The tools do not look at the error of Commit: they go on to the replay. *)
SwitchLost(t) ==
    /\ tool[t] = "idle"
    /\ Fault
    /\ tool' = [tool EXCEPT ![t] = "replay"]
    /\ UNCHANGED <<file, conf, endpoint, clerk, history, made>>

-----------------------------------------------------------------------------
(* ReplayBrigade(fresh, delayed), by a tool or by cmd/replay on its own.   *)
(* With the interface go the peers that are no users'.                     *)

(* Mutant: the interface is left as it is.                                 *)
ReplayUsersOnly(t) ==
    /\ peers' = IF Up THEN keys ELSE peers
    /\ unreplayed' = FALSE
    /\ tool' = [tool EXCEPT ![t] = "idle"]
    /\ UNCHANGED <<file, conf, iface, late, clerk, since, gap, made, faults>>
    /\ orphans' = Remaining

Replay(t) ==
    /\ iface' = data
    /\ peers' = keys
    /\ unreplayed' = FALSE
    /\ tool' = [tool EXCEPT ![t] = "idle"]
    /\ UNCHANGED <<file, conf, late, clerk, since, gap, made, faults>>
    /\ orphans' = Remaining

(* WgDel fails, or WgAdd after it, or WgPeerAdd for one of the users.      *)
ReplayFails(t) ==
    /\ tool[t] = "replay"
    /\ Fault
    /\ \/ UNCHANGED <<iface, peers>>
       \/ /\ iface' = Off
          /\ peers' = [u \in Users |-> {}]
       \/ /\ iface' = data
          /\ \E served \in SUBSET Users :
                peers' = [u \in Users |-> IF u \in served THEN keys[u] ELSE {}]
    /\ unreplayed' = TRUE
    /\ tool' = [tool EXCEPT ![t] = "idle"]
    /\ UNCHANGED <<file, conf, late, clerk, since, gap, made>>
    /\ orphans' = Remaining

-----------------------------------------------------------------------------

Next ==
    \/ \E c \in Clerks : GetVpnConfigs(c) \/ CreateFails(c)
    \/ \E c \in Clerks, u \in Users : CreateUser(c, u) \/ CreateLost(c, u)
    \/ \E u \in Users : SocketCreateUser(u) \/ SocketCreateLost(u) \/ LateCall(u)
    \/ \E t \in Tools, p \in Protocols : SwitchOn(t, p) \/ SwitchOff(t, p)
    \/ \E t \in Tools : RepairCloak(t) \/ PurgeCloak(t) \/ ResetPort(t) \/ SwitchLost(t)
    \/ \E t \in Tools : Replay(t) \/ ReplayFails(t)

Spec == Init /\ [][Next]_vars

-----------------------------------------------------------------------------
(* Properties.                                                             *)

(* Settings, secrets and configurations are of the kinds above; a brigade  *)
(* always has a port and a user always has keys for Wireguard.             *)
TypeOK ==
    /\ data \in [Settings -> Value] /\ iface \in [Settings -> Value]
    /\ conf \in [Users -> [Settings -> Value]]
    /\ keys \in [Users -> SUBSET Secrets] /\ peers \in [Users -> SUBSET Secrets]
    /\ late \in [Users -> SUBSET Secrets] /\ orphans \subseteq Users
    /\ clerk \in [Clerks -> [asked : BOOLEAN, offer : SUBSET Protocols, drift : SUBSET Settings]]
    /\ tool \in [Tools -> {"idle", "replay"}]
    /\ since \in [Users -> SUBSET Settings]
    /\ gap \in BOOLEAN /\ unreplayed \in BOOLEAN
    /\ made \in Value /\ faults \in 0 .. MaxFaults
    /\ data["port"] # 0
    /\ \A u \in Users : keys[u] # {} => "wg" \in keys[u]

(* Whatever tools and requests did between each other's sessions, once the *)
(* last tool has replayed, the endpoint has the brigade's settings and     *)
(* every user's secrets, and no other peer but one of a creation that      *)
(* failed since; unless a tool was told not to replay or failed.           *)
EndpointServes ==
    \/ unreplayed
    \/ \E t \in Tools : tool[t] = "replay"
    \/ iface = data /\ \A u \in Users \ orphans : peers[u] = keys[u]

(* What goes through Cloak has a Cloak to go through: OpenVPN always, and  *)
(* Outline unless it was turned on without, or OpenVPN was turned off.     *)
CloakThere ==
    /\ data["ovc"] # 0 => data["cloak"] # 0
    /\ Gapped(data) => gap

(* A configuration in a user's hands names settings that exist and are     *)
(* still the brigade's, unless one was switched since they were chosen:    *)
(* no key without a port, no secret without a CA.                          *)
PromisesHold ==
    \A u \in Users : \A f \in (keys[u] \ {"wg"}) \ since[u] :
        /\ conf[u][f] = data[f]
        /\ data[f] = 0 => f = "cloak" /\ gap

(* Who lacks the secret of a protocol that is on did not ask for it, or    *)
(* was there before it was switched on.                                    *)
NobodyLeftOut ==
    \A u \in Users : keys[u] # {} =>
        \A p \in Protocols : data[p] # 0 => p \in keys[u] \cup since[u]

(* Users have what their configuration says, and what they could ask for,  *)
(* whatever is switched between the two sessions of a creation.            *)
PromisesKept == PromisesHold /\ NobodyLeftOut

(* Every peer is a user's, or of a creation that failed once the endpoint  *)
(* was asked; a creation that is refused because the protocols have changed *)
(* meanwhile leaves none, and after a replay only such a creation's call   *)
(* that is carried out too late can bring one back.                        *)
PeersKnown == \A u \in Users : peers[u] # {} => keys[u] # {} \/ u \in orphans

=============================================================================
