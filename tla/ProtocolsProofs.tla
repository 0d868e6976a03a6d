-------------------------- MODULE ProtocolsProofs --------------------------
(***************************************************************************)
(* Proofs about Protocols, for every set of users, requests, tools and     *)
(* protocols and every bound.  What a user is promised rests on what the   *)
(* request that created it had read, so the inductive invariant adds       *)
(* ClerkInv: what a request was offered is still there, and what is there  *)
(* was offered, unless it was switched since.  Whom the peers belong to    *)
(* rests on OrphansInv: a call still to be made for nobody is accounted    *)
(* for, and a creation that failed is until its peer is gone.              *)
(***************************************************************************)
EXTENDS Protocols, TLAPS

USE ProtocolsAssumption DEF AllProtocols, file, endpoint

ClerkInv ==
    \A c \in Clerks : clerk[c].asked =>
        /\ \A p \in clerk[c].offer \ clerk[c].drift : data[p] # 0
        /\ \A p \in Protocols : data[p] # 0 => p \in clerk[c].offer \cup clerk[c].drift
        /\ /\ clerk[c].offer \cap Cloaked # {}
           /\ "cloak" \notin clerk[c].drift
           /\ data["cloak"] = 0
           => gap

OrphansInv ==
    \A u \in Users :
        /\ late[u] # {} => u \in orphans
        /\ u \in orphans => keys[u] = {} /\ (peers[u] # {} \/ late[u] # {})

IInv == TypeOK /\ CloakThere /\ ClerkInv /\ OrphansInv /\ PromisesHold /\ NobodyLeftOut

Request == [asked : BOOLEAN, offer : SUBSET Protocols, drift : SUBSET Settings]

\* A switch of some settings is noted by users and by requests, nothing more.
LEMMA SwitchedType ==
    ASSUME TypeOK, NEW fs \in SUBSET Settings, Switched(fs)
    PROVE  since' \in [Users -> SUBSET Settings] /\ clerk' \in [Clerks -> Request]
<1>1. since' \in [Users -> SUBSET Settings]
  BY DEF Switched, TypeOK
<1>2. ASSUME NEW c \in Clerks
      PROVE  [clerk[c] EXCEPT !.drift = @ \cup fs] \in Request
  <2>1. clerk[c] \in Request
    BY DEF TypeOK, Request
  <2>2. clerk[c].drift \cup fs \in SUBSET Settings
    BY <2>1 DEF Request
  <2> QED
    BY <2>1, <2>2 DEF Request
<1>3. \A c \in Clerks : clerk[c] \in Request
  BY DEF TypeOK, Request
<1> QED
  BY <1>1, <1>2, <1>3 DEF Switched

\* A creation that fails late disturbs the endpoint and the requests only.
LEMMA OrphanedType ==
    ASSUME TypeOK, NEW u \in Users, NEW secrets \in SUBSET Secrets, Orphaned(u, secrets),
           clerk' \in [Clerks -> Request]
    PROVE  TypeOK'
<1>1. peers' \in [Users -> SUBSET Secrets] /\ late' \in [Users -> SUBSET Secrets]
  BY DEF Orphaned, TypeOK
<1>2. orphans' \subseteq Users /\ faults' \in 0 .. MaxFaults
  BY DEF Orphaned, Fault, TypeOK
<1>3. UNCHANGED <<data, keys, conf, iface, tool, since, gap, unreplayed, made>>
  BY DEF Orphaned
<1> QED
  BY <1>1, <1>2, <1>3 DEF TypeOK, Request

\* Every step keeps the types, the port and the keys for Wireguard.
LEMMA TypeStep == TypeOK /\ [Next]_vars => TypeOK'
<1> SUFFICES ASSUME TypeOK, [Next]_vars
             PROVE  TypeOK'
  OBVIOUS
<1>1. ASSUME NEW c \in Clerks, GetVpnConfigs(c)
      PROVE  TypeOK'
  BY <1>1 DEF GetVpnConfigs, Offered, TypeOK, Settings, Secrets, Value, history
<1>2. ASSUME NEW c \in Clerks, CreateFails(c)
      PROVE  TypeOK'
  BY <1>2 DEF CreateFails, Fault, Idle, TypeOK, Settings, Secrets, Value, history
<1>3. ASSUME NEW c \in Clerks, NEW u \in Users, CreateUser(c, u)
      PROVE  TypeOK'
  <2>1. KeysFor(clerk[c].offer) \in SUBSET Secrets /\ "wg" \in KeysFor(clerk[c].offer)
    BY <1>3 DEF KeysFor, TypeOK, Settings, Secrets
  <2>2. Configured(KeysFor(clerk[c].offer)) \in [Settings -> Value]
    BY DEF Configured, TypeOK, Value
  <2>3. clerk[c].drift \in SUBSET Settings
    BY DEF TypeOK
  <2>4. clerk' \in [Clerks -> Request]
    BY <1>3 DEF CreateUser, Idle, TypeOK, Request
  <2> QED
    BY <1>3, <2>1, <2>2, <2>3, <2>4 DEF CreateUser, Enrolled, TypeOK, Request
<1>4. ASSUME NEW u \in Users, SocketCreateUser(u)
      PROVE  TypeOK'
  <2>1. PICK wanted \in Granted : Enrolled(u, {"wg"} \cup wanted, Protocols \ wanted)
    BY <1>4 DEF SocketCreateUser
  <2>2. wanted \subseteq Supported /\ Enrolled(u, {"wg"} \cup wanted, Protocols \ wanted)
    BY <2>1 DEF Granted
  <2>3. {"wg"} \cup wanted \in SUBSET Secrets
    BY <2>2 DEF Supported, Settings, Secrets
  <2>4. Configured({"wg"} \cup wanted) \in [Settings -> Value]
    BY DEF Configured, TypeOK, Value
  <2>5. Protocols \ wanted \in SUBSET Settings
    BY DEF Settings
  <2> QED
    BY <1>4, <2>2, <2>3, <2>4, <2>5 DEF SocketCreateUser, Enrolled, TypeOK
<1>5. ASSUME NEW t \in Tools, NEW p \in Protocols, SwitchOn(t, p)
      PROVE  TypeOK'
  <2>1. since' \in [Users -> SUBSET Settings] /\ clerk' \in [Clerks -> Request]
    BY <1>5, SwitchedType, {"ovc", "cloak"} \in SUBSET Settings, {p} \in
       SUBSET Settings
       DEF SwitchOn, Settings

  <2>2. data' \in [Settings -> Value] /\ made' \in Value /\ data'["port"] # 0
    BY <1>5 DEF SwitchOn, Rewritten, TypeOK, Settings, Value
  <2>3. tool' \in [Tools -> {"idle", "replay"}] /\ unreplayed' \in BOOLEAN
    BY <1>5 DEF SwitchOn, ReplayOrNot, TypeOK
  <2>4. gap' \in BOOLEAN
    BY <1>5 DEF SwitchOn, TypeOK
  <2> QED
    BY <1>5, <2>1, <2>2, <2>3, <2>4 DEF SwitchOn, Session, TypeOK, Request
<1>6. ASSUME NEW t \in Tools, NEW p \in Protocols, SwitchOff(t, p)
      PROVE  TypeOK'
  <2>1. since' \in [Users -> SUBSET Settings] /\ clerk' \in [Clerks -> Request]
    BY <1>6, SwitchedType, {"ovc", "cloak"} \in SUBSET Settings, {p} \in
       SUBSET Settings
       DEF SwitchOff, Settings

  <2>2. data' \in [Settings -> Value] /\ data'["port"] # 0
    BY <1>6 DEF SwitchOff, TypeOK, Settings, Value
  <2>3. tool' \in [Tools -> {"idle", "replay"}] /\ unreplayed' \in BOOLEAN
    BY <1>6 DEF SwitchOff, ReplayOrNot, TypeOK
  <2>4. gap' \in BOOLEAN
    BY <1>6 DEF SwitchOff, TypeOK
  <2> QED
    BY <1>6, <2>1, <2>2, <2>3, <2>4 DEF SwitchOff, Session, TypeOK, Request
<1>7. ASSUME NEW t \in Tools, RepairCloak(t)
      PROVE  TypeOK'
  <2>1. since' \in [Users -> SUBSET Settings] /\ clerk' \in [Clerks -> Request]
    BY <1>7, SwitchedType, {"cloak"} \in SUBSET Settings DEF RepairCloak,
       Settings

  <2>2. data' \in [Settings -> Value] /\ made' \in Value /\ data'["port"] # 0
    BY <1>7 DEF RepairCloak, Rewritten, TypeOK, Settings, Value
  <2>3. tool' \in [Tools -> {"idle", "replay"}] /\ unreplayed' \in BOOLEAN
    BY <1>7 DEF RepairCloak, ReplayOrNot, TypeOK
  <2>4. keys' \in [Users -> SUBSET Secrets] /\ \A u \in Users : keys'[u] # {} => "wg" \in keys'[u]
    BY <1>7 DEF RepairCloak, CloakKeys, TypeOK, Settings, Secrets
  <2> QED
    BY <1>7, <2>1, <2>2, <2>3, <2>4 DEF RepairCloak, Session, TypeOK, Request
<1>8. ASSUME NEW t \in Tools, PurgeCloak(t)
      PROVE  TypeOK'
  BY <1>8 DEF PurgeCloak, Session, CloakRefused, TypeOK, Settings, Secrets,
     Value, history
<1>9. ASSUME NEW t \in Tools, ResetPort(t)
      PROVE  TypeOK'
  <2>1. since' \in [Users -> SUBSET Settings] /\ clerk' \in [Clerks -> Request]
    BY <1>9, SwitchedType, {"port"} \in SUBSET Settings DEF ResetPort, Settings

  <2>2. data' \in [Settings -> Value] /\ made' \in Value /\ data'["port"] # 0
    BY <1>9 DEF ResetPort, Rewritten, TypeOK, Settings, Value
  <2>3. tool' \in [Tools -> {"idle", "replay"}]
    BY <1>9 DEF ResetPort, TypeOK
  <2> QED
    BY <1>9, <2>1, <2>2, <2>3 DEF ResetPort, Session, TypeOK, Request
<1>10. ASSUME NEW t \in Tools, SwitchLost(t)
      PROVE  TypeOK'
  BY <1>10 DEF SwitchLost, Fault, TypeOK, Settings, Secrets, Value, history
<1>11. ASSUME NEW t \in Tools, Replay(t)
      PROVE  TypeOK'
  BY <1>11 DEF Replay, Remaining, TypeOK, Settings, Secrets, Value, history
<1>12. ASSUME NEW t \in Tools, ReplayFails(t)
      PROVE  TypeOK'
  BY <1>12 DEF ReplayFails, Remaining, Fault, Off, TypeOK, Settings, Secrets, Value,
     history
<1>13. CASE UNCHANGED vars
  BY <1>13 DEF vars, history, TypeOK, Settings, Secrets, Value, history
<1>14. ASSUME NEW c \in Clerks, NEW u \in Users, CreateLost(c, u)
      PROVE  TypeOK'
  <2>1. KeysFor(clerk[c].offer) \in SUBSET Secrets
    BY DEF KeysFor, TypeOK, Settings, Secrets
  <2>2. clerk' \in [Clerks -> Request]
    BY <1>14 DEF CreateLost, Idle, TypeOK, Request
  <2> QED
    BY <1>14, <2>1, <2>2, OrphanedType DEF CreateLost
<1>15. ASSUME NEW u \in Users, SocketCreateLost(u)
      PROVE  TypeOK'
  <2>1. PICK wanted \in Granted : Orphaned(u, {"wg"} \cup wanted)
    BY <1>15 DEF SocketCreateLost
  <2>2. {"wg"} \cup wanted \in SUBSET Secrets
    BY <2>1 DEF Granted, Supported, Settings, Secrets
  <2>3. clerk' \in [Clerks -> Request]
    BY <1>15 DEF SocketCreateLost, TypeOK, Request
  <2> QED
    BY <2>1, <2>2, <2>3, OrphanedType
<1>16. ASSUME NEW u \in Users, LateCall(u)
      PROVE  TypeOK'
  BY <1>16 DEF LateCall, Remaining, TypeOK, history
<1> QED
  BY <1>1, <1>2, <1>3, <1>4, <1>5, <1>6, <1>7, <1>8, <1>9, <1>10, <1>11,
     <1>12, <1>13, <1>14, <1>15, <1>16 DEF Next

\* Every step keeps Cloak for what goes through it, or notes the gap.
LEMMA CloakStep == TypeOK /\ CloakThere /\ [Next]_vars => CloakThere'
<1> SUFFICES ASSUME TypeOK, CloakThere, [Next]_vars
             PROVE  CloakThere'
  OBVIOUS
<1>1. ASSUME NEW c \in Clerks, GetVpnConfigs(c)
      PROVE  CloakThere'
  BY <1>1 DEF GetVpnConfigs, Offered, TypeOK, Settings, Value, CloakThere,
     Gapped, history
<1>2. ASSUME NEW c \in Clerks, CreateFails(c)
      PROVE  CloakThere'
  BY <1>2 DEF CreateFails, Fault, Idle, TypeOK, Settings, Value, CloakThere, Gapped,
     history
<1>3. ASSUME NEW c \in Clerks, NEW u \in Users, CreateUser(c, u)
      PROVE  CloakThere'
  BY <1>3 DEF CreateUser, Enrolled, Configured, KeysFor, Creatable, Cloaked,
     Idle, TypeOK, Settings, Value, CloakThere, Gapped, history
<1>4. ASSUME NEW u \in Users, SocketCreateUser(u)
      PROVE  CloakThere'
  BY <1>4 DEF SocketCreateUser, Enrolled, Configured, Supported, TypeOK,
     Settings, Value, CloakThere, Gapped, history
<1>5. ASSUME NEW t \in Tools, NEW p \in Protocols, SwitchOn(t, p)
      PROVE  CloakThere'
  BY <1>5 DEF SwitchOn, Rewritten, Switched, ReplayOrNot, Session, TypeOK,
     Settings, Value, CloakThere, Gapped, history
<1>6. ASSUME NEW t \in Tools, NEW p \in Protocols, SwitchOff(t, p)
      PROVE  CloakThere'
  BY <1>6 DEF SwitchOff, Switched, ReplayOrNot, Session, TypeOK, Settings,
     Value, CloakThere, Gapped, history
<1>7. ASSUME NEW t \in Tools, RepairCloak(t)
      PROVE  CloakThere'
  BY <1>7 DEF RepairCloak, Rewritten, Switched, ReplayOrNot, Session,
     CloakKeys, TypeOK, Settings, Value, CloakThere, Gapped, history
<1>8. ASSUME NEW t \in Tools, PurgeCloak(t)
      PROVE  CloakThere'
  BY <1>8 DEF PurgeCloak, Session, CloakRefused, TypeOK, Settings, Value,
     CloakThere, Gapped, history
<1>9. ASSUME NEW t \in Tools, ResetPort(t)
      PROVE  CloakThere'
  BY <1>9 DEF ResetPort, Rewritten, Switched, Session, TypeOK, Settings,
     Value, CloakThere, Gapped, history
<1>10. ASSUME NEW t \in Tools, SwitchLost(t)
      PROVE  CloakThere'
  BY <1>10 DEF SwitchLost, Fault, TypeOK, Settings, Value, CloakThere, Gapped,
     history
<1>11. ASSUME NEW t \in Tools, Replay(t)
      PROVE  CloakThere'
  BY <1>11 DEF Replay, TypeOK, Settings, Value, CloakThere, Gapped, history
<1>12. ASSUME NEW t \in Tools, ReplayFails(t)
      PROVE  CloakThere'
  BY <1>12 DEF ReplayFails, Fault, Off, TypeOK, Settings, Value, CloakThere,
     Gapped, history
<1>13. CASE UNCHANGED vars
  BY <1>13 DEF vars, history, TypeOK, Settings, Value, CloakThere, Gapped,
     history
<1>14. ASSUME NEW c \in Clerks, NEW u \in Users, CreateLost(c, u)
      PROVE  CloakThere'
  BY <1>14 DEF CreateLost, Orphaned, Unused, Fault, Idle, TypeOK, Settings, Value, CloakThere, Gapped
<1>15. ASSUME NEW u \in Users, SocketCreateLost(u)
      PROVE  CloakThere'
  BY <1>15 DEF SocketCreateLost, Orphaned, Unused, Fault, TypeOK, Settings, Value, CloakThere, Gapped
<1>16. ASSUME NEW u \in Users, LateCall(u)
      PROVE  CloakThere'
  BY <1>16 DEF LateCall, TypeOK, Settings, Value, CloakThere, Gapped
<1> QED
  BY <1>1, <1>2, <1>3, <1>4, <1>5, <1>6, <1>7, <1>8, <1>9, <1>10, <1>11,
     <1>12, <1>13, <1>14, <1>15, <1>16 DEF Next

\* Every step keeps what a request has read true, or notes the drift.
LEMMA ClerkStep == TypeOK /\ CloakThere /\ ClerkInv /\ [Next]_vars => ClerkInv'
<1> SUFFICES ASSUME TypeOK, CloakThere, ClerkInv, [Next]_vars
             PROVE  ClerkInv'
  OBVIOUS
<1>1. ASSUME NEW c \in Clerks, GetVpnConfigs(c)
      PROVE  ClerkInv'
  BY <1>1 DEF GetVpnConfigs, Offered, TypeOK, Settings, Value, CloakThere,
     Gapped, ClerkInv, Cloaked, history
<1>2. ASSUME NEW c \in Clerks, CreateFails(c)
      PROVE  ClerkInv'
  BY <1>2 DEF CreateFails, Fault, Idle, TypeOK, Settings, Value, CloakThere, Gapped,
     ClerkInv, Cloaked, history
<1>3. ASSUME NEW c \in Clerks, NEW u \in Users, CreateUser(c, u)
      PROVE  ClerkInv'
  BY <1>3 DEF CreateUser, Enrolled, Configured, KeysFor, Creatable, Cloaked,
     Idle, TypeOK, Settings, Value, CloakThere, Gapped, ClerkInv, Cloaked,
     history
<1>4. ASSUME NEW u \in Users, SocketCreateUser(u)
      PROVE  ClerkInv'
  BY <1>4 DEF SocketCreateUser, Enrolled, Configured, Supported, TypeOK,
     Settings, Value, CloakThere, Gapped, ClerkInv, Cloaked, history
<1>5. ASSUME NEW t \in Tools, NEW p \in Protocols, SwitchOn(t, p)
      PROVE  ClerkInv'
  BY <1>5 DEF SwitchOn, Rewritten, Switched, ReplayOrNot, Session, TypeOK,
     Settings, Value, CloakThere, Gapped, ClerkInv, Cloaked, history
<1>6. ASSUME NEW t \in Tools, NEW p \in Protocols, SwitchOff(t, p)
      PROVE  ClerkInv'
  BY <1>6 DEF SwitchOff, Switched, ReplayOrNot, Session, TypeOK, Settings,
     Value, CloakThere, Gapped, ClerkInv, Cloaked, history
<1>7. ASSUME NEW t \in Tools, RepairCloak(t)
      PROVE  ClerkInv'
  <2>1. \A c \in Clerks : /\ clerk'[c].asked = clerk[c].asked
                          /\ clerk'[c].offer = clerk[c].offer
                          /\ clerk[c].asked => clerk'[c].drift = clerk[c].drift \cup {"cloak"}
    BY <1>7 DEF RepairCloak, Switched, TypeOK
  <2>2. \A f \in Settings : f # "cloak" => data'[f] = data[f]
    BY <1>7 DEF RepairCloak, Rewritten, TypeOK
  <2>3. gap' = gap
    BY <1>7 DEF RepairCloak
  <2>4. /\ Protocols \subseteq Settings \ {"cloak"}
        /\ \A c \in Clerks : clerk[c].offer \subseteq Settings \ {"cloak"}
    BY DEF TypeOK, Settings
  <2> QED
    BY <2>1, <2>2, <2>3, <2>4 DEF ClerkInv
<1>8. ASSUME NEW t \in Tools, PurgeCloak(t)
      PROVE  ClerkInv'
  BY <1>8 DEF PurgeCloak, Session, CloakRefused, TypeOK, Settings, Value,
     CloakThere, Gapped, ClerkInv, Cloaked, history
<1>9. ASSUME NEW t \in Tools, ResetPort(t)
      PROVE  ClerkInv'
  BY <1>9 DEF ResetPort, Rewritten, Switched, Session, TypeOK, Settings,
     Value, CloakThere, Gapped, ClerkInv, Cloaked, history
<1>10. ASSUME NEW t \in Tools, SwitchLost(t)
      PROVE  ClerkInv'
  BY <1>10 DEF SwitchLost, Fault, TypeOK, Settings, Value, CloakThere, Gapped,
     ClerkInv, Cloaked, history
<1>11. ASSUME NEW t \in Tools, Replay(t)
      PROVE  ClerkInv'
  BY <1>11 DEF Replay, TypeOK, Settings, Value, CloakThere, Gapped, ClerkInv,
     Cloaked, history
<1>12. ASSUME NEW t \in Tools, ReplayFails(t)
      PROVE  ClerkInv'
  BY <1>12 DEF ReplayFails, Fault, Off, TypeOK, Settings, Value, CloakThere,
     Gapped, ClerkInv, Cloaked, history
<1>13. CASE UNCHANGED vars
  BY <1>13 DEF vars, history, TypeOK, Settings, Value, CloakThere, Gapped,
     ClerkInv, Cloaked, history
<1>14. ASSUME NEW c \in Clerks, NEW u \in Users, CreateLost(c, u)
      PROVE  ClerkInv'
  BY <1>14 DEF CreateLost, Orphaned, Unused, Fault, Idle, TypeOK, Settings, Value, CloakThere, Gapped, ClerkInv, Cloaked
<1>15. ASSUME NEW u \in Users, SocketCreateLost(u)
      PROVE  ClerkInv'
  BY <1>15 DEF SocketCreateLost, Orphaned, Unused, Fault, TypeOK, Settings, Value, CloakThere, Gapped, ClerkInv, Cloaked
<1>16. ASSUME NEW u \in Users, LateCall(u)
      PROVE  ClerkInv'
  BY <1>16 DEF LateCall, TypeOK, Settings, Value, CloakThere, Gapped, ClerkInv, Cloaked
<1> QED
  BY <1>1, <1>2, <1>3, <1>4, <1>5, <1>6, <1>7, <1>8, <1>9, <1>10, <1>11,
     <1>12, <1>13, <1>14, <1>15, <1>16 DEF Next

\* Every step keeps the promises made to users, or notes the switch.
LEMMA PromisesStep == TypeOK /\ CloakThere /\ ClerkInv /\ PromisesHold /\ [Next]_vars => PromisesHold'
<1> SUFFICES ASSUME TypeOK, CloakThere, ClerkInv, PromisesHold, [Next]_vars
             PROVE  PromisesHold'
  OBVIOUS
<1>1. ASSUME NEW c \in Clerks, GetVpnConfigs(c)
      PROVE  PromisesHold'
  BY <1>1 DEF GetVpnConfigs, Offered, TypeOK, Settings, Secrets, Value,
     CloakThere, Gapped, ClerkInv, PromisesHold, history
<1>2. ASSUME NEW c \in Clerks, CreateFails(c)
      PROVE  PromisesHold'
  BY <1>2 DEF CreateFails, Fault, Idle, TypeOK, Settings, Secrets, Value, CloakThere,
     Gapped, ClerkInv, PromisesHold, history
<1>3. ASSUME NEW c \in Clerks, NEW u \in Users, CreateUser(c, u)
      PROVE  PromisesHold'
  BY <1>3 DEF CreateUser, Enrolled, Configured, KeysFor, Creatable, Cloaked,
     Idle, TypeOK, Settings, Secrets, Value, CloakThere, Gapped, ClerkInv,
     PromisesHold, history
<1>4. ASSUME NEW u \in Users, SocketCreateUser(u)
      PROVE  PromisesHold'
  <2>1. PICK wanted \in Granted : Enrolled(u, {"wg"} \cup wanted, Protocols \ wanted)
    BY <1>4 DEF SocketCreateUser
  <2>2. wanted \subseteq Supported /\ Enrolled(u, {"wg"} \cup wanted, Protocols \ wanted)
    BY <2>1 DEF Granted
  <2>3. data' = data /\ gap' = gap
    BY <1>4 DEF SocketCreateUser
  <2>4. \A f \in wanted : conf'[u][f] = data[f] /\ data[f] # 0
    BY <2>2 DEF Enrolled, Configured, Supported, TypeOK
  <2>5. keys'[u] = {"wg"} \cup wanted
    BY <2>2 DEF Enrolled, TypeOK
  <2>6. \A v \in Users \ {u} : keys'[v] = keys[v] /\ conf'[v] = conf[v] /\ since'[v] = since[v]
    BY <2>2 DEF Enrolled, TypeOK
  <2> QED
    BY <2>3, <2>4, <2>5, <2>6 DEF PromisesHold
<1>5. ASSUME NEW t \in Tools, NEW p \in Protocols, SwitchOn(t, p)
      PROVE  PromisesHold'
  BY <1>5 DEF SwitchOn, Rewritten, Switched, ReplayOrNot, Session, TypeOK,
     Settings, Secrets, Value, CloakThere, Gapped, ClerkInv, PromisesHold,
     history
<1>6. ASSUME NEW t \in Tools, NEW p \in Protocols, SwitchOff(t, p)
      PROVE  PromisesHold'
  BY <1>6 DEF SwitchOff, Switched, ReplayOrNot, Session, TypeOK, Settings,
     Secrets, Value, CloakThere, Gapped, ClerkInv, PromisesHold, history
<1>7. ASSUME NEW t \in Tools, RepairCloak(t)
      PROVE  PromisesHold'
  <2>1. \A f \in Settings : f # "cloak" => data'[f] = data[f]
    BY <1>7 DEF RepairCloak, Rewritten, TypeOK
  <2>2. \A u \in Users : keys'[u] \subseteq keys[u] \cup {"cloak"} /\ conf'[u] = conf[u]
    BY <1>7 DEF RepairCloak, Session, CloakKeys, TypeOK
  <2>3. \A u \in Users : keys'[u] # {} => keys[u] # {} /\ since'[u] = since[u] \cup {"cloak"}
    BY <1>7 DEF RepairCloak, CloakKeys, Switched, TypeOK
  <2>4. gap' = gap
    BY <1>7 DEF RepairCloak
  <2>5. ASSUME NEW u \in Users, NEW f \in (keys'[u] \ {"wg"}) \ since'[u]
        PROVE  /\ f \in (keys[u] \ {"wg"}) \ since[u] /\ f # "cloak"
               /\ data'[f] = data[f] /\ conf'[u][f] = conf[u][f]
    <3>1. f \in keys[u] /\ f # "cloak" /\ f \notin since[u] /\ conf'[u] = conf[u]
      BY <2>2, <2>3, <2>5
    <3>2. f \in Settings
      BY <2>5, <3>1 DEF TypeOK, Secrets
    <3> QED
      BY <2>1, <2>5, <3>1, <3>2
  <2> QED
    BY <2>4, <2>5 DEF PromisesHold
<1>8. ASSUME NEW t \in Tools, PurgeCloak(t)
      PROVE  PromisesHold'
  BY <1>8 DEF PurgeCloak, Session, CloakRefused, TypeOK, Settings, Secrets,
     Value, CloakThere, Gapped, ClerkInv, PromisesHold, history
<1>9. ASSUME NEW t \in Tools, ResetPort(t)
      PROVE  PromisesHold'
  BY <1>9 DEF ResetPort, Rewritten, Switched, Session, TypeOK, Settings,
     Secrets, Value, CloakThere, Gapped, ClerkInv, PromisesHold, history
<1>10. ASSUME NEW t \in Tools, SwitchLost(t)
      PROVE  PromisesHold'
  BY <1>10 DEF SwitchLost, Fault, TypeOK, Settings, Secrets, Value,
     CloakThere, Gapped, ClerkInv, PromisesHold, history
<1>11. ASSUME NEW t \in Tools, Replay(t)
      PROVE  PromisesHold'
  BY <1>11 DEF Replay, TypeOK, Settings, Secrets, Value, CloakThere, Gapped,
     ClerkInv, PromisesHold, history
<1>12. ASSUME NEW t \in Tools, ReplayFails(t)
      PROVE  PromisesHold'
  BY <1>12 DEF ReplayFails, Fault, Off, TypeOK, Settings, Secrets, Value,
     CloakThere, Gapped, ClerkInv, PromisesHold, history
<1>13. CASE UNCHANGED vars
  BY <1>13 DEF vars, history, TypeOK, Settings, Secrets, Value, CloakThere,
     Gapped, ClerkInv, PromisesHold, history
<1>14. ASSUME NEW c \in Clerks, NEW u \in Users, CreateLost(c, u)
      PROVE  PromisesHold'
  BY <1>14 DEF CreateLost, Orphaned, Unused, Fault, Idle, TypeOK, PromisesHold
<1>15. ASSUME NEW u \in Users, SocketCreateLost(u)
      PROVE  PromisesHold'
  BY <1>15 DEF SocketCreateLost, Orphaned, Unused, Fault, TypeOK, PromisesHold
<1>16. ASSUME NEW u \in Users, LateCall(u)
      PROVE  PromisesHold'
  BY <1>16 DEF LateCall, TypeOK, PromisesHold
<1> QED
  BY <1>1, <1>2, <1>3, <1>4, <1>5, <1>6, <1>7, <1>8, <1>9, <1>10, <1>11,
     <1>12, <1>13, <1>14, <1>15, <1>16 DEF Next

\* Every step leaves nobody out of what is on, or notes the switch.
LEMMA OfferStep == TypeOK /\ ClerkInv /\ NobodyLeftOut /\ [Next]_vars => NobodyLeftOut'
<1> SUFFICES ASSUME TypeOK, ClerkInv, NobodyLeftOut, [Next]_vars
             PROVE  NobodyLeftOut'
  OBVIOUS
<1>1. ASSUME NEW c \in Clerks, GetVpnConfigs(c)
      PROVE  NobodyLeftOut'
  BY <1>1 DEF GetVpnConfigs, Offered, TypeOK, Settings, Secrets, Value,
     ClerkInv, NobodyLeftOut, history
<1>2. ASSUME NEW c \in Clerks, CreateFails(c)
      PROVE  NobodyLeftOut'
  BY <1>2 DEF CreateFails, Fault, Idle, TypeOK, Settings, Secrets, Value, ClerkInv,
     NobodyLeftOut, history
<1>3. ASSUME NEW c \in Clerks, NEW u \in Users, CreateUser(c, u)
      PROVE  NobodyLeftOut'
  BY <1>3 DEF CreateUser, Enrolled, Configured, KeysFor, Creatable, Cloaked,
     Idle, TypeOK, Settings, Secrets, Value, ClerkInv, NobodyLeftOut, history
<1>4. ASSUME NEW u \in Users, SocketCreateUser(u)
      PROVE  NobodyLeftOut'
  BY <1>4 DEF SocketCreateUser, Enrolled, Configured, Supported, TypeOK,
     Settings, Secrets, Value, ClerkInv, NobodyLeftOut, history
<1>5. ASSUME NEW t \in Tools, NEW p \in Protocols, SwitchOn(t, p)
      PROVE  NobodyLeftOut'
  BY <1>5 DEF SwitchOn, Rewritten, Switched, ReplayOrNot, Session, TypeOK,
     Settings, Secrets, Value, ClerkInv, NobodyLeftOut, history
<1>6. ASSUME NEW t \in Tools, NEW p \in Protocols, SwitchOff(t, p)
      PROVE  NobodyLeftOut'
  BY <1>6 DEF SwitchOff, Switched, ReplayOrNot, Session, TypeOK, Settings,
     Secrets, Value, ClerkInv, NobodyLeftOut, history
<1>7. ASSUME NEW t \in Tools, RepairCloak(t)
      PROVE  NobodyLeftOut'
  BY <1>7 DEF RepairCloak, Rewritten, Switched, ReplayOrNot, Session,
     CloakKeys, TypeOK, Settings, Secrets, Value, ClerkInv, NobodyLeftOut,
     history
<1>8. ASSUME NEW t \in Tools, PurgeCloak(t)
      PROVE  NobodyLeftOut'
  BY <1>8 DEF PurgeCloak, Session, CloakRefused, TypeOK, Settings, Secrets,
     Value, ClerkInv, NobodyLeftOut, history
<1>9. ASSUME NEW t \in Tools, ResetPort(t)
      PROVE  NobodyLeftOut'
  BY <1>9 DEF ResetPort, Rewritten, Switched, Session, TypeOK, Settings,
     Secrets, Value, ClerkInv, NobodyLeftOut, history
<1>10. ASSUME NEW t \in Tools, SwitchLost(t)
      PROVE  NobodyLeftOut'
  BY <1>10 DEF SwitchLost, Fault, TypeOK, Settings, Secrets, Value, ClerkInv,
     NobodyLeftOut, history
<1>11. ASSUME NEW t \in Tools, Replay(t)
      PROVE  NobodyLeftOut'
  BY <1>11 DEF Replay, TypeOK, Settings, Secrets, Value, ClerkInv,
     NobodyLeftOut, history
<1>12. ASSUME NEW t \in Tools, ReplayFails(t)
      PROVE  NobodyLeftOut'
  BY <1>12 DEF ReplayFails, Fault, Off, TypeOK, Settings, Secrets, Value,
     ClerkInv, NobodyLeftOut, history
<1>13. CASE UNCHANGED vars
  BY <1>13 DEF vars, history, TypeOK, Settings, Secrets, Value, ClerkInv,
     NobodyLeftOut, history
<1>14. ASSUME NEW c \in Clerks, NEW u \in Users, CreateLost(c, u)
      PROVE  NobodyLeftOut'
  BY <1>14 DEF CreateLost, Orphaned, Unused, Fault, Idle, TypeOK, NobodyLeftOut
<1>15. ASSUME NEW u \in Users, SocketCreateLost(u)
      PROVE  NobodyLeftOut'
  BY <1>15 DEF SocketCreateLost, Orphaned, Unused, Fault, TypeOK, NobodyLeftOut
<1>16. ASSUME NEW u \in Users, LateCall(u)
      PROVE  NobodyLeftOut'
  BY <1>16 DEF LateCall, TypeOK, NobodyLeftOut
<1> QED
  BY <1>1, <1>2, <1>3, <1>4, <1>5, <1>6, <1>7, <1>8, <1>9, <1>10, <1>11,
     <1>12, <1>13, <1>14, <1>15, <1>16 DEF Next

\* Every step keeps account of the creations that have failed.
LEMMA OrphansStep == TypeOK /\ OrphansInv /\ [Next]_vars => OrphansInv'
<1> SUFFICES ASSUME TypeOK, OrphansInv, [Next]_vars
             PROVE  OrphansInv'
  OBVIOUS
<1>1. CASE UNCHANGED <<keys, peers, late, orphans>>
  BY <1>1 DEF OrphansInv
<1>2. ASSUME NEW u \in Users, NEW secrets \in SUBSET Secrets,
             NEW drift, Enrolled(u, secrets, drift), Unused(u), UNCHANGED <<late, orphans>>
      PROVE  OrphansInv'
  <2>1. u \notin orphans /\ late[u] = {}
    BY <1>2 DEF OrphansInv, Unused
  <2>2. \A v \in Users \ {u} : keys'[v] = keys[v] /\ peers'[v] = peers[v]
    BY <1>2 DEF Enrolled, TypeOK
  <2> QED
    BY <1>2, <2>1, <2>2 DEF OrphansInv
<1>3. ASSUME NEW u \in Users, NEW secrets, "wg" \in secrets, Orphaned(u, secrets)
      PROVE  OrphansInv'
  <2>1. \A v \in Users \ {u} : peers'[v] = peers[v] /\ late'[v] = late[v]
    BY <1>3 DEF Orphaned, TypeOK
  <2>2. keys' = keys /\ keys[u] = {} /\ orphans' = orphans \cup {u}
    BY <1>3 DEF Orphaned, Unused
  <2>3. peers'[u] = secrets \/ late'[u] = secrets
    BY <1>3 DEF Orphaned, TypeOK
  <2> QED
    BY <1>3, <2>1, <2>2, <2>3 DEF OrphansInv
<1>4. ASSUME NEW c \in Clerks, GetVpnConfigs(c) \/ CreateFails(c)
      PROVE  OrphansInv'
  BY <1>1, <1>4 DEF GetVpnConfigs, CreateFails, history
<1>5. ASSUME NEW c \in Clerks, NEW u \in Users, CreateUser(c, u)
      PROVE  OrphansInv'
  <2>1. KeysFor(clerk[c].offer) \in SUBSET Secrets
    BY DEF KeysFor, TypeOK, Settings, Secrets
  <2> QED
    BY <1>2, <1>5, <2>1 DEF CreateUser
<1>6. ASSUME NEW c \in Clerks, NEW u \in Users, CreateLost(c, u)
      PROVE  OrphansInv'
  BY <1>3, <1>6 DEF CreateLost, KeysFor
<1>7. ASSUME NEW u \in Users, SocketCreateUser(u)
      PROVE  OrphansInv'
  <2>1. PICK wanted \in Granted : Enrolled(u, {"wg"} \cup wanted, Protocols \ wanted)
    BY <1>7 DEF SocketCreateUser
  <2>2. {"wg"} \cup wanted \in SUBSET Secrets
    BY <2>1 DEF Granted, Supported, Settings, Secrets
  <2> QED
    BY <1>2, <1>7, <2>1, <2>2 DEF SocketCreateUser
<1>8. ASSUME NEW u \in Users, SocketCreateLost(u)
      PROVE  OrphansInv'
  BY <1>3, <1>8 DEF SocketCreateLost
<1>9. ASSUME NEW u \in Users, LateCall(u)
      PROVE  OrphansInv'
  <2>1. \A v \in Users : peers'[v] = peers[v] \/ (v = u /\ v \in orphans)
    BY <1>9 DEF LateCall, TypeOK, OrphansInv
  <2>2. \A v \in Users : late'[v] # {} => late[v] # {}
    BY <1>9 DEF LateCall, TypeOK
  <2>3. keys' = keys /\ orphans' = Remaining
    BY <1>9 DEF LateCall
  <2> QED
    BY <2>1, <2>2, <2>3 DEF OrphansInv, Remaining
<1>10. ASSUME NEW t \in Tools, NEW p \in Protocols, SwitchOn(t, p) \/ SwitchOff(t, p)
      PROVE  OrphansInv'
  BY <1>1, <1>10 DEF SwitchOn, SwitchOff, Session
<1>11. ASSUME NEW t \in Tools, RepairCloak(t)
      PROVE  OrphansInv'
  BY <1>11 DEF RepairCloak, CloakKeys, Session, OrphansInv
<1>12. ASSUME NEW t \in Tools, PurgeCloak(t) \/ ResetPort(t) \/ SwitchLost(t)
      PROVE  OrphansInv'
  BY <1>1, <1>12 DEF PurgeCloak, ResetPort, SwitchLost, Session, history
<1>13. ASSUME NEW t \in Tools, Replay(t) \/ ReplayFails(t)
      PROVE  OrphansInv'
  <2>1. UNCHANGED <<keys, late>> /\ orphans' = Remaining
    BY <1>13 DEF Replay, ReplayFails
  <2> QED
    BY <2>1 DEF OrphansInv, Remaining
<1>14. CASE UNCHANGED vars
  BY <1>1, <1>14 DEF vars, history
<1> QED
  BY <1>4, <1>5, <1>6, <1>7, <1>8, <1>9, <1>10, <1>11, <1>12, <1>13, <1>14 DEF Next

\* Every step keeps the endpoint as the file says, or leaves a replay owed.
LEMMA EndpointStep == TypeOK /\ OrphansInv /\ EndpointServes /\ [Next]_vars => EndpointServes'
<1> SUFFICES ASSUME TypeOK, OrphansInv, EndpointServes, [Next]_vars
             PROVE  EndpointServes'
  OBVIOUS
<1>1. ASSUME NEW c \in Clerks, GetVpnConfigs(c)
      PROVE  EndpointServes'
  BY <1>1 DEF GetVpnConfigs, Offered, TypeOK, Settings, Secrets, Value,
     EndpointServes, history
<1>2. ASSUME NEW c \in Clerks, CreateFails(c)
      PROVE  EndpointServes'
  BY <1>2 DEF CreateFails, Fault, Idle, TypeOK, Settings, Secrets, Value,
     EndpointServes, history
<1>3. ASSUME NEW c \in Clerks, NEW u \in Users, CreateUser(c, u)
      PROVE  EndpointServes'
  BY <1>3 DEF CreateUser, Unused, Enrolled, Configured, KeysFor, Creatable, Cloaked,
     Idle, TypeOK, Settings, Secrets, Value, EndpointServes, history
<1>4. ASSUME NEW u \in Users, SocketCreateUser(u)
      PROVE  EndpointServes'
  BY <1>4 DEF SocketCreateUser, Unused, Enrolled, Configured, Supported, TypeOK,
     Settings, Secrets, Value, EndpointServes, history
<1>5. ASSUME NEW t \in Tools, NEW p \in Protocols, SwitchOn(t, p)
      PROVE  EndpointServes'
  BY <1>5 DEF SwitchOn, Rewritten, Switched, ReplayOrNot, Session, TypeOK,
     Settings, Secrets, Value, EndpointServes, history
<1>6. ASSUME NEW t \in Tools, NEW p \in Protocols, SwitchOff(t, p)
      PROVE  EndpointServes'
  BY <1>6 DEF SwitchOff, Switched, ReplayOrNot, Session, TypeOK, Settings,
     Secrets, Value, EndpointServes, history
<1>7. ASSUME NEW t \in Tools, RepairCloak(t)
      PROVE  EndpointServes'
  BY <1>7 DEF RepairCloak, Rewritten, Switched, ReplayOrNot, Session,
     CloakKeys, TypeOK, Settings, Secrets, Value, EndpointServes, history
<1>8. ASSUME NEW t \in Tools, PurgeCloak(t)
      PROVE  EndpointServes'
  BY <1>8 DEF PurgeCloak, Session, CloakRefused, TypeOK, Settings, Secrets,
     Value, EndpointServes, history
<1>9. ASSUME NEW t \in Tools, ResetPort(t)
      PROVE  EndpointServes'
  BY <1>9 DEF ResetPort, Rewritten, Switched, Session, TypeOK, Settings,
     Secrets, Value, EndpointServes, history
<1>10. ASSUME NEW t \in Tools, SwitchLost(t)
      PROVE  EndpointServes'
  BY <1>10 DEF SwitchLost, Fault, TypeOK, Settings, Secrets, Value,
     EndpointServes, history
<1>11. ASSUME NEW t \in Tools, Replay(t)
      PROVE  EndpointServes'
  BY <1>11 DEF Replay, Remaining, TypeOK, Settings, Secrets, Value, EndpointServes,
     history
<1>12. ASSUME NEW t \in Tools, ReplayFails(t)
      PROVE  EndpointServes'
  BY <1>12 DEF ReplayFails, Remaining, Fault, Off, TypeOK, Settings, Secrets, Value,
     EndpointServes, history
<1>13. CASE UNCHANGED vars
  BY <1>13 DEF vars, history, TypeOK, Settings, Secrets, Value,
     EndpointServes, history
<1>14. ASSUME NEW c \in Clerks, NEW u \in Users, CreateLost(c, u)
      PROVE  EndpointServes'
  BY <1>14 DEF CreateLost, Orphaned, Unused, Fault, Idle, TypeOK, EndpointServes, Remaining
<1>15. ASSUME NEW u \in Users, SocketCreateLost(u)
      PROVE  EndpointServes'
  BY <1>15 DEF SocketCreateLost, Orphaned, Unused, Fault, TypeOK, EndpointServes, Remaining
<1>16. ASSUME NEW u \in Users, LateCall(u)
      PROVE  EndpointServes'
  <2>1. \A v \in Users \ {u} : peers'[v] = peers[v] /\ late'[v] = late[v]
    BY <1>16 DEF LateCall, TypeOK
  <2>2. u \in orphans /\ keys[u] = {}
    BY <1>16 DEF LateCall, OrphansInv
  <2>3. \A v \in Users \ orphans' : peers[v] = keys[v] \/ v \in orphans => peers'[v] = keys[v]
    <3> TAKE v \in Users \ orphans'
    <3>1. CASE v \in orphans
      <4>1. peers'[v] = {} /\ keys[v] = {}
        BY <1>16, <3>1 DEF LateCall, Remaining, OrphansInv
      <4> QED
        BY <4>1
    <3>2. CASE v \notin orphans
      BY <2>1, <2>2, <3>2
    <3> QED
      BY <3>1, <3>2
  <2>4. UNCHANGED <<keys, data, iface, tool, unreplayed>>
    BY <1>16 DEF LateCall
  <2> QED
    BY <2>3, <2>4 DEF EndpointServes
<1> QED
  BY <1>1, <1>2, <1>3, <1>4, <1>5, <1>6, <1>7, <1>8, <1>9, <1>10, <1>11,
     <1>12, <1>13, <1>14, <1>15, <1>16 DEF Next

\* No step leaves a peer that is no user's and that nothing explains.
LEMMA PeersStep == TypeOK /\ OrphansInv /\ PeersKnown /\ [Next]_vars => PeersKnown'
<1> SUFFICES ASSUME TypeOK, OrphansInv, PeersKnown, [Next]_vars
             PROVE  PeersKnown'
  OBVIOUS
<1>1. ASSUME NEW c \in Clerks, GetVpnConfigs(c)
      PROVE  PeersKnown'
  BY <1>1 DEF GetVpnConfigs, Offered, TypeOK, Settings, Secrets, Value,
     PeersKnown, history
<1>2. ASSUME NEW c \in Clerks, CreateFails(c)
      PROVE  PeersKnown'
  BY <1>2 DEF CreateFails, Fault, Idle, TypeOK, Settings, Secrets, Value, PeersKnown,
     history
<1>3. ASSUME NEW c \in Clerks, NEW u \in Users, CreateUser(c, u)
      PROVE  PeersKnown'
  BY <1>3 DEF CreateUser, Unused, Enrolled, Configured, KeysFor, Creatable, Cloaked,
     Idle, TypeOK, Settings, Secrets, Value, PeersKnown, history
<1>4. ASSUME NEW u \in Users, SocketCreateUser(u)
      PROVE  PeersKnown'
  BY <1>4 DEF SocketCreateUser, Unused, Enrolled, Configured, Supported, TypeOK,
     Settings, Secrets, Value, PeersKnown, history
<1>5. ASSUME NEW t \in Tools, NEW p \in Protocols, SwitchOn(t, p)
      PROVE  PeersKnown'
  BY <1>5 DEF SwitchOn, Rewritten, Switched, ReplayOrNot, Session, TypeOK,
     Settings, Secrets, Value, PeersKnown, history
<1>6. ASSUME NEW t \in Tools, NEW p \in Protocols, SwitchOff(t, p)
      PROVE  PeersKnown'
  BY <1>6 DEF SwitchOff, Switched, ReplayOrNot, Session, TypeOK, Settings,
     Secrets, Value, PeersKnown, history
<1>7. ASSUME NEW t \in Tools, RepairCloak(t)
      PROVE  PeersKnown'
  BY <1>7 DEF RepairCloak, Rewritten, Switched, ReplayOrNot, Session,
     CloakKeys, TypeOK, Settings, Secrets, Value, PeersKnown, history
<1>8. ASSUME NEW t \in Tools, PurgeCloak(t)
      PROVE  PeersKnown'
  BY <1>8 DEF PurgeCloak, Session, CloakRefused, TypeOK, Settings, Secrets,
     Value, PeersKnown, history
<1>9. ASSUME NEW t \in Tools, ResetPort(t)
      PROVE  PeersKnown'
  BY <1>9 DEF ResetPort, Rewritten, Switched, Session, TypeOK, Settings,
     Secrets, Value, PeersKnown, history
<1>10. ASSUME NEW t \in Tools, SwitchLost(t)
      PROVE  PeersKnown'
  BY <1>10 DEF SwitchLost, Fault, TypeOK, Settings, Secrets, Value,
     PeersKnown, history
<1>11. ASSUME NEW t \in Tools, Replay(t)
      PROVE  PeersKnown'
  BY <1>11 DEF Replay, Remaining, TypeOK, Settings, Secrets, Value, PeersKnown, history
<1>12. ASSUME NEW t \in Tools, ReplayFails(t)
      PROVE  PeersKnown'
  BY <1>12 DEF ReplayFails, Remaining, Fault, Off, TypeOK, Settings, Secrets, Value,
     PeersKnown, history
<1>13. CASE UNCHANGED vars
  BY <1>13 DEF vars, history, TypeOK, Settings, Secrets, Value, PeersKnown,
     history
<1>14. ASSUME NEW c \in Clerks, NEW u \in Users, CreateLost(c, u)
      PROVE  PeersKnown'
  BY <1>14 DEF CreateLost, Orphaned, Unused, Fault, Idle, TypeOK, PeersKnown, Remaining
<1>15. ASSUME NEW u \in Users, SocketCreateLost(u)
      PROVE  PeersKnown'
  BY <1>15 DEF SocketCreateLost, Orphaned, Unused, Fault, TypeOK, PeersKnown, Remaining
<1>16. ASSUME NEW u \in Users, LateCall(u)
      PROVE  PeersKnown'
  <2>1. \A v \in Users \ {u} : peers'[v] = peers[v]
    BY <1>16 DEF LateCall, TypeOK
  <2>2. u \in orphans
    BY <1>16 DEF LateCall, OrphansInv
  <2>3. \A v \in orphans : peers'[v] # {} => v \in orphans'
    BY <1>16 DEF LateCall, Remaining
  <2>4. keys' = keys
    BY <1>16 DEF LateCall
  <2> QED
    BY <2>1, <2>2, <2>3, <2>4 DEF PeersKnown
<1> QED
  BY <1>1, <1>2, <1>3, <1>4, <1>5, <1>6, <1>7, <1>8, <1>9, <1>10, <1>11,
     <1>12, <1>13, <1>14, <1>15, <1>16 DEF Next

\* The initial states satisfy the invariants.
LEMMA InitInv == Init => IInv /\ EndpointServes /\ PeersKnown
<1> SUFFICES ASSUME Init
             PROVE  IInv /\ EndpointServes /\ PeersKnown
  OBVIOUS
<1>1. PICK on \in SUBSET Protocols : data = Founded(on)
  BY DEF Init
<1>2. TypeOK
  <2>1. 0 \in Value /\ 1 \in Value
    BY DEF Value
  <2>2. data \in [Settings -> Value] /\ data["port"] # 0
    BY <1>1, <2>1 DEF Founded, Settings
  <2>3. conf \in [Users -> [Settings -> Value]]
    BY <2>1 DEF Init, Off
  <2>4. clerk \in [Clerks -> [asked : BOOLEAN, offer : SUBSET Protocols,
                              drift : SUBSET Settings]]
    BY DEF Init, Idle
  <2>5. /\ iface \in [Settings -> Value]
        /\ keys \in [Users -> SUBSET Secrets]
        /\ peers \in [Users -> SUBSET Secrets]
        /\ late \in [Users -> SUBSET Secrets] /\ orphans \subseteq Users
        /\ since \in [Users -> SUBSET Settings]
        /\ \A u \in Users : keys[u] # {} => "wg" \in keys[u]
    BY <2>2 DEF Init
  <2>6. /\ tool \in [Tools -> {"idle", "replay"}]
        /\ made \in Value /\ faults \in 0 .. MaxFaults
    BY <2>1 DEF Init
  <2>7. gap \in BOOLEAN /\ unreplayed \in BOOLEAN
    BY DEF Init
  <2> QED
    BY <2>2, <2>3, <2>4, <2>5, <2>6, <2>7 DEF TypeOK
<1>3. CloakThere
  <2>1. on \cap Cloaked # {} => data["cloak"] # 0
    BY <1>1 DEF Founded, Settings
  <2>2. on \cap Cloaked = {} => data["ovc"] = 0 /\ data["outline"] = 0
    BY <1>1 DEF Founded, Settings, Cloaked
  <2> QED
    BY <2>1, <2>2 DEF CloakThere, Gapped
<1>4. ClerkInv /\ OrphansInv /\ PromisesHold /\ NobodyLeftOut
  BY DEF Init, ClerkInv, OrphansInv, PromisesHold, NobodyLeftOut, Idle
<1>5. EndpointServes /\ PeersKnown
  BY DEF Init, EndpointServes, PeersKnown
<1> QED
  BY <1>2, <1>3, <1>4, <1>5 DEF IInv

\* The inductive invariant holds for ever.
THEOREM Invariance == Spec => []IInv
<1>1. IInv /\ [Next]_vars => IInv'
  BY TypeStep, CloakStep, ClerkStep, OrphansStep, PromisesStep, OfferStep DEF IInv
<1> QED
  BY <1>1, InitInv, PTL DEF Spec

\* Settings, secrets and configurations keep their kinds, a brigade its port
\* and a user its keys for Wireguard.
THEOREM TypeCorrect == Spec => []TypeOK
<1>1. IInv => TypeOK
  BY DEF IInv
<1> QED
  BY <1>1, Invariance, PTL

\* What goes through Cloak has a Cloak, however the tools are mixed, but
\* Outline after the two switches that leave it without.
THEOREM CloakIsThere == Spec => []CloakThere
<1>1. IInv => CloakThere
  BY DEF IInv
<1> QED
  BY <1>1, Invariance, PTL

\* A user's configuration names settings that exist and are the brigade's
\* until they are switched, though it is made from what an earlier session
\* has read.
THEOREM PromisesAreKept == Spec => []PromisesKept
<1>1. IInv => PromisesKept
  BY DEF IInv, PromisesKept
<1> QED
  BY <1>1, Invariance, PTL

\* Once the last tool has replayed, the endpoint serves what the file says,
\* and nobody else but those whose creation has failed since.
THEOREM EndpointIsServed == Spec => []EndpointServes
<1>1. IInv /\ EndpointServes /\ [Next]_vars => EndpointServes'
  BY EndpointStep DEF IInv
<1> QED
  BY <1>1, InitInv, Invariance, PTL DEF Spec

\* Every peer is a user's, or of a creation that failed once the endpoint was
\* asked for it and whose peer no replay has taken since.
THEOREM PeersAreKnown == Spec => []PeersKnown
<1>1. IInv /\ PeersKnown /\ [Next]_vars => PeersKnown'
  BY PeersStep DEF IInv
<1> QED
  BY <1>1, InitInv, Invariance, PTL DEF Spec

=============================================================================
