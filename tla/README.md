# keydesk: a TLA+ model

keydesk is the control program of a VPN *brigade*: one brigadier and the users
he invites.  It keeps the brigade in a JSON file, tells a VPN endpoint about
every peer by HTTP calls, serves the brigadier's dashboard and a socket API,
and publishes statistics.  A dozen command-line tools and a few shell scripts
work on the same file beside it.  There is no database server: what keeps the
parts from harming each other is a file protocol built on `flock(2)` and hard
links, and what keeps the file and the endpoint in agreement is the order in
which each operation makes its calls and commits.

This directory models that core.  All paths below are relative to the
repository.

## 1. The system: inventory

| component | state it keeps | operations | what is hard | correct when |
|---|---|---|---|---|
| **file database**: `kdlib/filedb.go`, `kdlib/lockedfile/`, `keydesk/storage/db.go`, `raw.go` | three names of a directory (`brigade.json`, `.tmp`, `.bak`; the same for `stats.json`), a spinlock file, flocks | open with or without reading, back up, encode, commit, close | many processes and goroutines; a crash or a failing call between any two system calls; two names for one inode | sessions are exclusive; no committed document is lost; a session replaces the version it read |
| **statistics reader**: `cmd/fetchstats/main.go` | none | read every brigade's `stats.json`, without the spinlock | runs while commits replace the file under it | it never reads a torn or an outdated file |
| **brigade users**: `keydesk/storage/user.go`, `brigade.go`, `internal/user/`, `keydesk/user.go` | the users of the file and, at the endpoint, their peers | create, replace the brigadier, delete, block, unblock; create and destroy the brigade | calls before the commit, each of which may fail, be lost or come late | the file and the endpoint agree, or the disagreement is repairable |
| **endpoint client**: `vpnapi/`, and for the socket API `internal/vpn/endpoint/client.go` | none | peer and interface add and delete, statistics | timeouts, repeated calls (error 151), refusals | a call's outcome is not mistaken |
| **patch**: `cmd/patch/main.go` | the `Delayed*` marks of the users in the file | replace the users by those of another copy, mark what changed | the endpoint is told later, by another session; others run in between | every mark is carried out |
| **replay**: `keydesk/storage/replay.go`, `cmd/replay/` | the same marks | tell the endpoint everything (`-r`: after deleting everything), or the marks only (`-do`), the interface only (`-b`), the users only (`-u`), no marks (`-nd`), without committing (`-e`) | many calls, one commit | it repairs, and may be repeated |
| **messages**: `internal/messages/service/` | the message list in the file | create, list, mark as read; each collects garbage first | four filters over positions in a list | the rules of `MESSAGES.md` |
| **statistics**: `keydesk/storage/stats.go`, `internal/stat/` | traffic and activity counters of every user, quotas | collect from the endpoint, merge, publish | the calendar; counters that restart; two commits in one collection | traffic is counted once; a counter is reset once per period |
| **process**: `pkg/runner/`, `cmd/keydesk/main.go`, `internal/stat/collect.go` | tasks, their servers and requests, the collector, `brigade.json` and `stats.json` | serve, collect, stop on a signal, be killed and restarted | shutdown while sessions run, with a context that is cancelled already; a channel without a buffer; variables shared by goroutines | a signal ends the process; a collection is not cut between its two commits; a clean stop does not exit with a failure |
| **shell scripts**: `create_brigade.sh`, `destroy_brigade.sh`, `replace_brigadier.sh`, `turnon_vip.sh`, `repair_brigade.sh` under `cmd/`, with the tools they run | the lock file `vgbrigade.spinlock`, home directories, the markers `created` and `.vip`, systemd units, interfaces at the endpoint | create, destroy, replace the brigadier, make VIP, repair | a lock that is tested and then touched; every step may fail or be the last; remains of earlier attempts; doubles moved aside | what is marked created is whole; a failed creation can be repeated; nothing is left of what is destroyed; a VIP brigade is not destroyed |
| **protocol switches**: `cmd/turnon-ovc`, `-ipsec`, `-outline`, `-proto0`, `-cloak-repair`, `cmd/reset` | the brigade's settings in the file and at the endpoint, the secrets of its users | turn on, turn off, repair, replay | a tool's change and its replay are two sessions; so are reading what is on and creating a user; Cloak serves two protocols | the endpoint has what the file says; no user has a secret for what is not there |
| **maintenance** (`internal/maintenance/`), **VIP** (`keydesk/storage/vip.go`) | files and a field | set, read | read by scripts and by the tools they run, at different moments | see the scripts |
| **push subscriptions**, legacy messages | one field each | set, read | nothing beyond the file database | - |
| **key and configuration generators, tokens, generated API code** | none | pure functions | nothing concurrent | - |

How they interact.  Everything that changes a brigade is *one session* of the
file database: `openWithReading`, the operation's own work (with its calls to
the endpoint), `commitBrigade`, `Close`.  The session holds the flock of the
spinlock file from its first step to its last, so that the endpoint is called
with the database locked.  `patch` and `replay` talk to each other through
marks in the file.  The statistics task writes `brigade.json` and then
`stats.json`, which other users of the machine read without the spinlock.  The
scripts call the tools, one process after another.

Every hazard found in the code, at its line, is listed in `PROJECT.json` under
"hazards", with the properties that would catch it, or the reason why none does
yet.

## 2. The modules

    AtomicDocument          what a file database promises
      ^ implemented by
    FileDb                  the protocol of names, inodes and flocks   (MCFileDb)
      ^ proved about by
    FileDbProofs            TLAPS

    Brigade                 users in the file, peers at the endpoint   (MCBrigade)
      ^ proved about by
    BrigadeProofs           TLAPS
    Messages                the message list and its collection        (MCMessages)
      ^ proved about by
    MessagesProofs          TLAPS
    Calendar                days, weeks, months and years
      ^ used by
    Traffic                 traffic counters, their periods, quotas    (MCTraffic)
      ^ proved about by
    TrafficProofs           TLAPS
    Activity                last activities, networks, past months     (MCActivity)
      ^ proved about by
    ActivityProofs          TLAPS
    Protocols               what is on, and who has secrets for it     (MCProtocols)
      ^ proved about by
    ProtocolsProofs         TLAPS
    Lifecycle               scripts, and what a brigade is made of     (MCLifecycle)
      ^ proved about by
    LifecycleProofs         TLAPS
    Process                 tasks, requests and the end of keydesk     (MCProcess)
      ^ proved about by
    ProcessProofs           TLAPS

`Brigade`, `Messages`, `Traffic`, `Activity` and `Protocols` stand on `FileDb`: because
`FileDb` is shown (and proved) to let one session run at a time and to have it read and
replace the last committed document, the modules above it have *one* session and a file
that changes in one step.  A crash before the commit leaves the file as it was, which is
what `ImplementsAtomicDocument` says.

### FileDb: `kdlib/filedb.go`, `kdlib/lockedfile`, `keydesk/storage/db.go`, `cmd/fetchstats`

One action is one system call, or a run of them nothing can be seen between.

| state | code |
|---|---|
| `dir`, `content` | the names in the directory and the inodes they refer to; `Empty` is a file of no bytes, `Partial` one that is being written, a positive number a whole version |
| `spin` | who holds the flock of `.spinlock` (`lockedfile.Mutex`) |
| `rfd`, `wfd` | `FileDb.r`, `FileDb.w`: the open descriptors; with `pc` they say who holds which flock (`HoldsEX`, `HoldsSH`) |
| `pc`, `kind`, `seen` | where a session is, what it was opened for, what it decoded |
| `acked`, `floor` | history: the last version whose `Commit` returned nil; its value when a fetch opened the file |

| action | code |
|---|---|
| `LockSpin`, `OpenTmp`, `LockTmp`, `OpenMain`, `LockMain` | `OpenFileDb`; `LockTmp` truncates once the lock is granted, as `openFile` does |
| `Decode` | `openBrigadeWithReading`, `openBrigadeWithoutReading`; `openStats` does not decode |
| `DropBak`, `LinkBak` | `Backup` |
| `Work` | the caller: commits a change, or does not |
| `EncodeBegin`, `EncodeEnd` | `Encoder().Encode` |
| `DropMain`, `LinkMain`, `DropTmp` | `Commit`: Remove(main), Link(tmp, main), Remove(tmp) |
| `Close` | `Close`, deferred by every caller |
| `FetchOpen`, `FetchLock`, `FetchRead` | `readStatsFile` |
| `Crash`, `OpenFails`, `CallFails`, `FinalizerPanic` | the process dies; a system call of the open fails and leaks the locks until the finalizer of `lockedfile.File` panics; a later call fails and the deferred `Close` runs |

The kinds of session are `create` (createbrigade), `edit`, `read`, `put`
(`openStats`) and `fetch`.  The inodes are kept apart from the names because the
interesting states are those in which two names share one: a lock or a
truncation of one name is then one of the other.

`AtomicDocument` is the promise: a document with a version number, of which a
session reads the last committed one and replaces exactly that one.
`FileDb!ImplementsAtomicDocument` maps `acked` and `seen` to it.  The promise is
made for the sessions that edit and read.  It is *not* kept when `createbrigade`
runs over a database whose main file a crash has removed: the code takes the
empty file for a brigade that does not exist and writes a first version over
it, while the backup still has the last one.  The shell script runs
`createbrigade` once for each brigade.

### Brigade: users and peers

| state | code |
|---|---|
| `users`, `made` | `Brigade.Users` of the file; whether createbrigade has committed |
| `up`, `peers` | external: the interface and the peers of the endpoint |
| `late` | external: calls the client gave up, which may still be carried out |
| `op`, `mem`, `wg`, `first`, `todo`, `ending` | the running session: its kind, the document in its memory, the interface and peer calls it still has to make, and whether it commits, keeps the file, returns an error or never returns |
| `touched`, `spoiled`, `dirty` | history: the users a session has called for; those it leaves split even when it succeeds; those that failures or forgotten marks may have split |
| `twins`, `headless` | history: the users to whom a patch's copy gave the address of another; whether the copy of the patch at work has no brigadier |

An operation (`CreateUser`, `ReplaceBrigadier`, `DeleteUser`, `BlockUser`,
`UnblockUser`, `Patch`, the combinations of `ReplayBrigade`, ...) begins a
session: it reads the file and decides what it will call and commit.
`CallSucceeds`, `CallRefused`, `CallFails` and `LateCall` are its calls,
`Commit`, `Return`, `CommitFails`, `Crash` and `DrawAgain` its ends.

A user here is a pair of UUID and WireGuard key; `addr` stands for all that a
peer is configured with, and a peer that exists keeps what it has when it is
added again (error 151, which `WgPeerAdd` takes for success).  A late call is
one that timed out at the client and is carried out afterwards, in another
session if the endpoint is slow.  The endpoint is external: it is modelled from
what the code does with its answers.  The identity of a new user is fresh: no
user of the file, no peer and no call still to be made has it, since its keys
have just been generated; an address is drawn among those the file does not use.

The copy a patch takes is any set of users at all: `readNewFile` looks neither
for a brigadier nor for addresses that are used twice.  Two users to whom such a
copy gives one address are `twins`, which `AddressesApart` excuses; a copy
without a brigadier is `headless`, which `BrigadierKept` excuses.

Agreement is stated for every user except the `dirty` ones.  A user becomes dirty
only when a session fails after it has called for him, when a call for him is
given up, or when an operation forgets what the endpoint still has to be told
(`spoiled`): `delete` and `unblock` of a user whose blocking waits for replay, a
patch over a patch, `replay -b -r`, `replay -do` of a user who was unblocked, and
`destroybrigade`, which deletes the interface and keeps the file.  These are
the only excuses.  `FreshReplayRepairs` says that `replay -r` ends them all.

### Messages

`messages` is the list as committed, `created` the last UUID, `clock` the time. Every
request is `Transaction`: the collection, the request's own work, the commit.  A request
that panics, or asks for a message that is not there, commits nothing; these are
stuttering steps.  The collection is kept as the code has it: offsets relative to the
start of each search, removed as positions, in reverse.  A time to live is any integer,
because the server takes whatever `time.ParseDuration` does: a message with a negative
one is `BornExpired`, is committed all the same, and is collected by the next request.
`Promised` is what `MESSAGES.md` says instead.  The loops of the code (`Kept` is that of
`Func.Filter`, `TrimNoTtl` that of the removals) are recursive functions over positions,
which TLC evaluates and the prover can reason about.

### Traffic: counters and quotas

| state | code |
|---|---|
| `clock` | external: the day `time.Now()` is in |
| `users` | the users of the brigade |
| `meter` | external: the endpoint's cumulative counters of a peer |
| `seen` | `Quotas.OSWgCounters`, `OSIPSecCounters`, ...: those counters at the last collection |
| `count`, `userTotal` | `Quotas.CountersWg`, `CountersIPSec`, ...; `Quotas.CountersTotal` |
| `brigade` | `Brigade.TotalTraffic` |
| `remaining`, `resetOn` | `Quotas.LimitMonthlyRemaining`, `LimitMonthlyResetOn` |
| `passed`, `log`, `days` | history: all the traffic of a peer, what the brigade counted on each day, the days of its collections |

`Collect` is `getStatsQuota` with `mergeStats`, whole: for each user and each
protocol `handleTrafficStat` (`Growth`, then `Counted`), then the user's total,
his quota (`Remaining`) and the brigade's total.  The endpoint's answer may
leave out any peer.  `Counted` is `incDateSwitchRelated`; `Switched` is the part
of it that runs when the day has changed, written field by field, where the code
goes through year, week, month and day in turn.  `CreateUser` and `DeleteUser`
bring users in and out between collections; `Restart` is a peer deleted and
added again, by a block and an unblock or by `replay -r`; `Advance` and `ClockBack`
move the clock.

A calendar (`Calendar`) is a sequence of month lengths and the length of a week; the
years are equal.  `AddMonth` does what `time.AddDate(0, 1, 0)` does with a day the next
month does not have: it counts on into the month after it.  The smallest year in
which everything that matters can happen has two months, of two days and one,
and weeks of two days that fit neither.  Time within a day is left out: two
collections of a day are in order, and none is at the very nanosecond at which a
quota is reset.  Received and sent traffic are one number, because the code
treats them alike.

`PeriodsExact` compares each counter of the brigade with what the log says of
that period.  One exception is written into it: the code compares the months by
their names first, so that a collection after exactly one year does not reset
the monthly counter.  `YesterdayKnown` likewise names the two cases in which
`PrevDay` is not the traffic of yesterday: the end of a long month (see section
4), and two collections in two months on days of the same number, where
`PrevDay` is left as it was.  `CountersAddUp` makes an exception for a clock that
is set back: a user created then is counted, because his counters were never
updated, and the brigade is not.

### Activity: who was active, when and from where

The other half of the statistics, whose state no counter of `Traffic` reads: a
collection of either module is one call of `mergeStats`, seen from two sides.

| state | code |
|---|---|
| `clock`, `there` | the day on the brigade's host; external: the day on the endpoint, which is the time its answer carries |
| `lastSeen`, `place` | external: when the endpoint last saw each peer, and the network it came from |
| `marks`, `userMarks` | `Quotas.LastWgActivity`, `LastIPSecActivity`, ...; `Quotas.LastActivity`: records of the fields of `LastActivityPoints` |
| `newest` | `Brigade.LastActivity` |
| `networks` | `Brigade.Endpoints`, with the time of each |
| `stack` | `Brigade.StatsCountersStack`: the time, the active users and the traffic of each month |
| `log`, `visited` | history: the traffic collected on each of the endpoint's days, the last activity from each network |

`Mark` is `lastActivityMark`, with its two early returns; `Marked` is the case of a
period, `MarkedBefore` that of the month before, which goes back by `SubMonth`
(`AddDate(0, -1, 0)`).  `Put` is that of the stack, `MonthsShown` the months
`GetUsersStats` gives the dashboard, `Listed` what becomes of the networks.
`Collect` takes an answer that may lack any peer and does all of these, in the
order in which the code does: the marks by the host's clock, the stack by the
endpoint's.  The endpoint forgets a peer that is added again (`Restart`), and
either clock may be set (`SetClock`).

The clocks are the excuse of `MarksExact`, `ActivityAddsUp` and `ActiveCounted`
(`Straight`).  With a clock set back the marks keep to their periods, but
the collections until that day comes again are not looked at; with an endpoint
ahead, activity of tomorrow is marked.

### Protocols: the switches and the users' secrets

| state | code |
|---|---|
| `data` | the brigade's settings: OpenVPN's CA, the IPSec PSK, the ports, the fake domains; 0 for none, another number for each value generated |
| `keys`, `conf` | the secrets a user has in the file; the settings named in the configuration he was given |
| `iface`, `peers`, `late` | external: the settings of the interface, the secrets of each peer, those of calls that timed out and may still be carried out |
| `clerk` | `vpnCfgs` of a request in `pickUpUser`, between `GetVpnConfigs` and `CreateUser` |
| `tool` | a turnon tool between its session and its replay |
| `since`, `gap`, `unreplayed`, `orphans` | history: the settings switched since a user's were chosen; Outline has been without Cloak; a replay was not asked for, or failed; whose creation failed after the endpoint was asked for a peer |

| action | code |
|---|---|
| `GetVpnConfigs`, `CreateUser`, `CreateFails` | the two sessions of `pickUpUser`; the creation fails when OpenVPN was offered and its CA is gone, when there is no interface, or when the call is lost |
| `CreateLost` | a creation that fails after `WgPeerAdd`: the answer cannot be read, the commit fails, the process dies, the call times out |
| `SocketCreateUser`, `SocketCreateLost` | `GenerateConfigs` of the socket API, in one session; the same, failing after `PeerAdd` |
| `LateCall` | the endpoint carries out a call nobody waits for any more |
| `SwitchOn`, `SwitchOff` | `add...Support`, `remove...Support` of the four tools, with or without `-r` |
| `RepairCloak`, `PurgeCloak`, `ResetPort` | `turnon-cloak-repair`, `reset -p` |
| `SwitchLost` | the tools ignore the error of `Commit` and go on to the replay |
| `Replay`, `ReplayFails` | `ReplayBrigade(true, ...)`, which may fail before, between or after the deletion and the addition of the interface |

`Brigade` has the calls for the peers one by one; here a replay and a creation
are one step each, since the session has the file locked, and only their ends
are told apart.  Nothing takes back the peer of a creation that failed: he is an
`orphan` until a replay deletes the interface, and with it all peers.  Only the
creations have late calls here; that a call of a replay may come late is the
subject of `Brigade`.

### Lifecycle: the scripts

| state | code |
|---|---|
| `lock` | the file `vgbrigade.spinlock` exists |
| `pc`, `job` | where each script is, and its arguments |
| `home`, `created`, `marker` | the system user with its directory; `~/created`, `~/.vip` |
| `file` | `brigade.json`: absent, empty or whole; its address, its VIP field, whether it has a brigadier, and the key of its interface |
| `unit` | which of the two, enabled and started, `vgkeydesk@<id>` is |
| `ifaces`, `maintenance` | external: the endpoint's interfaces; `/.maintenance` |
| `overlapped`, `killed`, `scars`, `forgotten` | history: what explains a state that is not as it should be |
| `misled` | history: what befell a script's look at whether its brigade is VIP: it could not read it, or the brigade was made VIP after it had |

| script | actions |
|---|---|
| all | `Call` (waits for the lock), `TouchLock`, `Exit` (the trap), `Kill` |
| `create_brigade.sh` | `CreateChecks`, `CreateDisables` (the doubles), `CreateUser`, `MakeBrigade`/`MakeFails` (createbrigade), `ManBrigade`/`ManFails` (`keydesk -name`), `StartUnit`, `SignCreated` |
| `destroy_brigade.sh` | `DestroyChecks`, `Unvip`/`UnvipFails`, `StopUnit`, `RemoveBrigade`/`RemoveFails` (the session of destroybrigade that asks whether the brigade is VIP), `DeleteInterface`/`DeleteFails` (the session that deletes), `DeleteUser` |
| `replace_brigadier.sh` | `ReplaceChecks`, `ReplaceBrigadier`/`ReplaceFails` |
| `turnon_vip.sh` | `VipChecks`, `SwitchVip`/`SwitchFails` |
| `repair_brigade.sh -r` | `RepairChecks`, `RepairLists` (the doubles), then for each `RepairDisables` and `RepairReplays`/`RepairFails`; `RepairEnds` |

Around the scripts, `KeydeskOpens` is a unit that starts and creates the file it
does not find, and maintenance begins and ends.  Brigades are looked for by the
*text* of their endpoint address, so that one address may match another
(`Matches`): in the runs 10.0.0.1 is found in 10.0.0.12 as well.

What a script does not look at is what the shell does not: after `useradd` and the
three `install`s only the status of the last counts, so that `CreateUser` may go on
without a home; in `{ enable; start; } || fatal` only that of `start`, so that
`StartUnit` may go on with a unit that the next start of the machine will not start
(the scar `unenabled`).

The lock is no lock when two scripts find it absent at once.  The model has those
behaviours, and ends their exploration a little later: no further script is called, and
`overlapped` excuses what such a pair has done.  What holds beside it is said of the
scripts one after another.  The `scars` excuse one brigade each: its file was moved
aside, it should have been and was not, it was made during maintenance, it was made VIP
by createbrigade, its end has begun, its unit could not be stopped, its unit could not
be enabled.  Overlapping scripts alone do not excuse `VipProtected`:
it says of `destroy_brigade.sh` without `-force` that the file protects a VIP brigade
even then, unless the brigade was made VIP after `destroybrigade` had looked, or could
not be read (`IsVIP` takes an error for no) with nothing but the file to tell.

### Process: a keydesk from its start to its end

| state | code |
|---|---|
| `main`, `status` | the goroutine of `main`, the exit status |
| `func`, `shut` | how far the `Func` and the `Shutdown` of each task are |
| `err`, `reported` | the variable `err` of the shuffler's block in `main`, shared by two goroutines; the errors in `Runner.errCh` |
| `stat` | the collector: in its select, or between the steps of a collection |
| `req`, `lock` | the requests being served, one session each; who has the database open |
| `db`, `collected`, `pub` | versions of `brigade.json`, of what was collected and of what `stats.json` was made from |

`Runner.Stop` cancels the context and waits until every `Shutdown` has returned.
`ShutdownBegins` closes a server's listener; `ShutdownReturns` is `http.Server`'s,
which with connections at work gives up at once, because its context is
cancelled; `ShutdownAssigns` and `ShutdownReads` are the shuffler's, in the two
steps another goroutine can come between; `StatDone` is the send that meets the
collector at its select.  `CallHangs` is a call to the endpoint of a shuffler's request that
is not answered: its client sets no timeout, so `CallReturns` may happen or not.

## 3. The runs

| run | question | bounds |
|---|---|---|
| `filedb_faults` | Are sessions on brigade.json exclusive, is the last acknowledged document always a whole main or backup file, and is no update lost or seen early? | 3 sessions, 5 inodes, 4 versions, 2 faults |
| `filedb_live` | Does a session let go of the spinlock, as long as nothing fails, and does a fetch without it read a whole document, no older than the last one when it opened the file? | 2 sessions, 2 versions, no fault |
| `filedb_wedged` | *violated*: a failure between Link and Remove makes the next session wait for its own lock | 2 sessions, 1 fault |
| `brigade_agree` | Do the file and the endpoint agree, has every peer an address of his own, does `replay -r` repair, does the brigade keep its brigadier? | 2 identities, 2 addresses, all 16 kinds of session, 1 fault, 2 patches |
| `brigade_live` | Does every session end, but one that needs an address when the users of the file have them all? | 3 identities, 2 addresses, limit of 3 users, 1 fault |
| `messages_rules` | Do the limits, the order and the flags hold, and the rules of MESSAGES.md on the layouts the tests use? | 6 messages, limits 2 and 4, month 3, times to live -1, 0 and 2, 6 moments |
| `messages_lost` | *violated*: the rules of MESSAGES.md on every layout | the same |
| `traffic_periods` | Is traffic counted once, do the counters of protocols, user and brigade add up in every period, is each reset when its period ends, is the quota charged? | 1 user, 2 protocols, 8 days (more than two years of 3 days), 4 collections, 2 units of traffic, a quota of 1, 1 mishap |
| `activity` | Are the marks of activity those of their periods, do users' activities add up, are active users and past months counted, when the endpoint forgets peers and clocks are set? | 1 user, 2 protocols, 1 network, 5 days (a year of months of 1, 1 and 2 days, and a day), 3 collections, 2 activities, 1 mishap |
| `protocols` | Does the endpoint end up with what the file says, and have users secrets for what is on, when sessions of tools and requests interleave? | 1 user, 1 request, 2 tools, OpenVPN and Outline (IPSec and Protocol0 are switched as Outline is, and have no part in Cloak), 2 wishes, 3 values, 2 faults |
| `lifecycle` | Are brigades whole, repairable and removable when scripts fail, are killed, overlap or meet remains? | 2 brigades, 2 scripts of 8 kinds, 2 addresses, 3 calls, 1 fault, 1 period of maintenance |
| `process` | Does a signal end the process, with the statistics published and a true exit status? | 2 servers, 1 client, 3 commits, 2 faults or kills, 2 processes |

The type invariant of every module is a theorem (`TypeCorrect`).  The runs repeat it for
`Messages` and `Traffic`, where it says more than types: the order of the list, and that
the rest of a quota, which is computed with unsigned numbers, stays between 0 and the limit.

Why the bounds are enough.  A session of `FileDb` has at most two inodes of its own
beside the main file and the backup, and one that was replaced while a fetch had it
open: five inodes never run out.  Two faults make a crash in the state another crash has
left; three sessions make one that waits while another dies and a third comes in.  Two
users are enough for one operation to disturb another user's peer, and two patches for a
patch over a patch; one fault already gives a call that is carried out after its session
has gone, under a later one. Six messages exceed both limits with room for layouts mixed
of both kinds. Four collections are one to start the counters, two in different periods
and one more for what the second switch does to the first; eight days hold every gap:
none, a day, a week, a month, a year, more than a year.  Two protocols switch their
periods apart from each other, a quota of 1 can be exceeded by two units, and a user who
comes late or is deleted is enough to tell users and brigade apart.  For the marks,
three collections are one before, in and after a period, and five days in months of one
and two days give gaps of a day, a month, a month that does not have the day, and a
year; one mishap is enough to tell a peer that is forgotten from one that is not active.
A shift of the stack by more than its size, which needs more collections than months, is
the same shift again. Fetches are checked without faults, since `ReadersAreServed` is
proved with any number of them.  Three values make one setting that was switched off, on
and rewritten, and two tools the replay of one between the session and the replay of the
other.  Three calls are a creation that fails, the repetition, and a script on what came
out; two scripts are enough to overlap, and any two of the three may.  A repair of
several doubles, between which a replay fails, takes three brigades and is left to
`RepairsAreComplete`. A creation that
fails after its peer was added and a replay that fails are two faults.  Two servers are
one of each kind of `Shutdown`; a second process has the files of one that was killed.
Every bound is in a guard and named (`MaxVersion`, `MaxFaults`, `MaxPatches`,
`MaxClock`, `MaxMessages`, `MaxDay`, `MaxCollections`, `MaxTraffic`, `MaxUses`,
`MaxMishaps`, `MaxValues`, `MaxJobs`, `MaxOutages`, `MaxCommits`, `MaxStarts`); symmetry
is used in safety runs only, over sets whose members no definition tells apart.

`CHECK_DEADLOCK FALSE` appears in `filedb_faults`, where a session may wait for its own
lock for ever (the wedged state), in the violated runs, which stop at their
counterexample, in the message, traffic and activity runs, whose clock, messages and
collections run out, in `lifecycle`, whose calls run out and whose lock stays when a
script is killed, and in `process`, which is to end.

Fairness.  `FileDb!FairSpec` has weak fairness of each session's own steps: a running
process goes on, and a call of a session that may proceed is made. Nothing is assumed
about who gets a free flock (no strong fairness), so what is shown is that the lock is
let go of, not that everyone gets it.  `Brigade!FairSpec` has weak fairness of the
session's steps, which the timeouts of `vpnapi` justify; faults, requests and late calls
have none.  Its calls are those of `vpnapi`; the socket API's client sets no timeout
(internal/vpn/endpoint/client.go:51), and what comes of that is in `Process`: a call of
the shuffler's may hang (`CallHangs`), and nothing is assumed about its return.
`StopEnds` therefore excepts a collector that waits for ever behind such a call
(`Hung`).  `Process!FairSpec` has weak fairness
of the goroutines of a live process: each request that has begun, the collection that
has begun, each server's end, the send on `statDone`, and `main` after the signal.
Requests, signals, the timer and faults have none.

## 4. What the violated runs show

- `filedb_wedged`: after a failure between Link and Remove, main and temporary
  file are one inode.  The next session truncates the document through one
  name and then waits, through the other, for the lock it holds itself; the
  spinlock stays taken.  The backup survives (`AckedSurvives`).
- `messages_lost`: a message with TTL before messages without makes the
  collection drop messages it should keep, or panic.

Other disagreements that were met, which have no run of their own:

*Files.*  KEYDESK.md:14 says that the temporary file "renames itself to the main
database file"; `Commit` removes and links, and after a crash between the two
there is no main file, the next open creates an empty one, and only the backup
has the document (`AckedSurvives` says that it does).  KEYDESK.md asks an editor
for an exclusive lock on the main file, but `OpenFileDb` opens it read-only, for
which `lockedfile` takes a shared one (the spinlock makes up for it, see
`SessionsExclusive`).  A fetch between Remove and Link of a commit finds no file
and skips the brigade.

*Users.*  The socket API's client defines a `CallTimeout` and does not use it
(internal/vpn/endpoint/client.go:51): a call that is not answered keeps the database
locked, and the end of the process then waits for the collector, which waits for the
database (`Hung`, the exception `StopEnds` makes).  `DeleteUser` and `UnblockUser` look at `IsBlocked`, not at
`DelayedBlocking`: a user blocked by a patch and deleted before the replay keeps
his peer and is in no file; one unblocked there loses his peer.  A second patch
clears the marks of the first.  With a network smaller than the limit of users
`assembleUser` draws addresses for ever with the database locked (`DrawAgain`,
the one exception `SessionEnds` makes).  `readNewFile` of the patch checks neither that the new
copy has a brigadier nor that its addresses are apart.

*Statistics.*  On the first of a month whose predecessor is longer (1 February, 1
April, 1 June, ...) `Update.AddDate(0, 1, 0)` of the day before falls into the
month after; the code takes that for a gap of more than a month and resets
`Daily` before it is copied to `PrevDay`.  The published `yesterday_traffic` is 0
on those days.

*Protocols.*  `turnon-cloak-repair -p` never purges: its test
`OvCAKeyShufflerEnc == ""` (cmd/turnon-cloak-repair/main.go:235) is upside down,
so it refuses when OpenVPN is off as well as when it is on.  `turnon-ovc` takes a
new fake domain even when Cloak has one, which breaks the configurations of
Outline's users, and its purge removes the Cloak that Outline uses;
`turnon-outline` sets up none.  A tool whose replay failed does not replay when
it is run again: it finds the protocol there and returns.  `-p` with an identifier
that is not the brigade's turns the protocol *on*.  The error of `Commit` is
ignored, so a tool may report success for nothing.

*Scripts.*  The lock is not exclusive, though BRIGADE.md:28, :43 and :54 describe
it as one.  `create_brigade.sh` looks for doubles by a part of the text, so
creating 10.0.0.1 disables the brigade at 10.0.0.12.  Maintenance that begins
between the script's check and `keydesk -name` makes the latter exit with 0: the
brigade is marked `created` without a brigadier.  A creation that failed after
createbrigade is refused with another address.  BRIGADE.md:35 has the unit enabled
and started before `created` is made; a failing enable is not seen, and the brigade is
marked all the same (the scar `unenabled`, which `CreatedWhole` excuses).
cmd/destroybrigade/main.go:34 documents `-f` as "force destroy VIP brigade", but the flag
is not looked at (`RemoveFails`); the script turns VIP off itself, but only if it finds the marker, so that a brigade made VIP by createbrigade is never
destroyed, and its unit is stopped all the same.  An interface whose file was
moved aside or never committed is never deleted.  `repair_brigade.sh` tests
whether the address it was given is empty, where it means to compare it with
that of the file (line 43).

*Process.*  A comment says "gracefully shut down the server and wait 5 seconds for
current connections to stop" (cmd/keydesk/main.go:190); the context is cancelled
already, so the servers give up at once and sessions at work are cut by the
exit.  A server that fails is only printed, and the process goes on without it.
The shuffler's `Func` and `Shutdown` share one `err`: a clean stop may exit with a
failure (`raced`, the excuse of `NoFalseAlarm`: the `Shutdown` read an `err` that its
`Func` had written in between).

## 5. What is proved

`FileDbProofs`, by TLAPS, for any sessions, inodes and bounds:

| theorem | says |
|---|---|
| `Invariance` | `Spec => []IInv`, the inductive invariant |
| `TypeCorrect` | `Spec => []TypeOK` |
| `MutualExclusion` | `Spec => []SessionsExclusive` |
| `Recoverable` | `Spec => []AckedSurvives`, for every set of kinds, createbrigade included |
| `Atomicity` | `Kinds \subseteq {"edit", "read"}` gives `Spec => ImplementsAtomicDocument` |
| `ReadersAreServed` | `"create" \notin Kinds` gives `Spec => []FetchConsistent` |

Assumed: `NoSession` and `NoInode` are no session and no inode, the kinds are
among the five, and the bounds are natural numbers.  Neither set need be finite.

None of the properties is inductive by itself.  `IInv` adds what each step knows:
which descriptors are open at which step and that they are those of the names
(`FdInv`), that whoever has the temporary file open holds the spinlock
(`SpinInv`), what each kind of session has seen (`KindInv`, `SeenInv`), what is in
the temporary file when it is linked (`WriteInv`), and what the names can refer
to (`NamesInv`).  The heart is `SurvivalInv`: the acknowledged version is in a
main file *that is not also the temporary one*, or in the backup.  The weaker
`AckedSurvives` is not inductive, because a main file that shares its inode with
the temporary one is about to be truncated.  The proof has a lemma for each
action.  `Atomicity` then maps `LockMain ... Decode` to `Read`, `DropTmp` to
`Update`, `Close` and `Crash` to `Finish`, and every other step to a stutter.
`ReadersAreServed` adds `FetchInv` to `IInv`: a main file is empty or no older than
the acknowledged version, and a file that a fetch has open is the temporary one
only while it is the main one too, so that nobody writes it again.

`BrigadeProofs`, for any users, addresses, limit of users, kinds of session, faults and
patches:

| theorem | says |
|---|---|
| `Invariance` | `Spec => []IInv`, the inductive invariant |
| `TypeCorrect` | `Spec => []TypeOK` |
| `Agreement` | `Spec => []FileAgreesWithEndpoint` |
| `AddressesStayApart` | `Spec => []AddressesApart` |
| `FreshRepairs` | `Spec => FreshReplayRepairs`, an action property |
| `BrigadierStays` | `Spec => BrigadierKept`, an action property |

Assumed: the kinds are among the sixteen, the bounds are natural numbers, `NoAddr` is no
address and `NoUser` no user.

`FileAgreesWithEndpoint` speaks of the time between sessions, and says nothing of what a
session is about to do.  `Untouched` says that a session disturbs no user it has not
touched.  `Leads` looks ahead: if the calls left for a user, and for the interface, all
succeed, his peer will be what `After` computes, and that agrees with what will be
committed, unless the session spoils him; under `replay -r` this holds of dirty users
too.  Each operation makes such a plan (`WellPlanned`, with the lemmas `DelayedLeads`,
`PlainLeads` and `PatchLeads` for the marks), a call that succeeds does not change where
it leads (`CallSucceedsKeeps`), and an end that is no success has touched only users it
makes dirty (`AbortsWell`).  `Apart` says that no two users of the file, or of what will
be committed, have one address, except those a replay will delete; with the agreement
that gives `AddressesApart`; pairs of `twins` are left out.  `Manned` is the same for
the brigadier, but for a session whose copy is `headless`.

`ProtocolsProofs`, for any users, requests, tools and protocols:

| theorem | says |
|---|---|
| `Invariance` | `Spec => []IInv`, the inductive invariant |
| `TypeCorrect` | `Spec => []TypeOK` |
| `CloakIsThere` | `Spec => []CloakThere` |
| `PromisesAreKept` | `Spec => []PromisesKept` |
| `EndpointIsServed` | `Spec => []EndpointServes` |
| `PeersAreKnown` | `Spec => []PeersKnown` |

Assumed: the protocols are among the four, the wishes are sets of
configurations, the bounds are natural numbers and one value exists.

The conjuncts of `PromisesKept` are not inductive, because they do not speak of
the requests that have read what is on and have not yet created their user.
`ClerkInv` does: what a request was offered and what is on differ only in what was
switched meanwhile (`drift`), and that becomes the user's `since`.  `CloakThere` is
needed for it, since keys for Cloak come with OpenVPN and Outline.
`EndpointServes` and `PeersKnown`, which says that every peer is a user's or an orphan's,
are inductive beside `TypeOK` and `OrphansInv`: an orphan is no user of the file, and
has a peer or a call still to be made.  The proof has a
lemma for each conjunct, with a case for each action.

`LifecycleProofs`, for any brigades, scripts, addresses, jobs and budgets; of the
matching of addresses it is assumed that an address matches itself:

| theorem | says |
|---|---|
| `Invariance` | `Spec => []IInv`, the inductive invariant |
| `TypeCorrect` | `Spec => []TypeOK` |
| `CreatedIsWhole` | `Spec => []CreatedWhole` |
| `AddressesApart` | `Spec => []OneLivePerAddress` |
| `AttemptsCanBeRepeated` | `Spec => []CreationRepeatable` |
| `VipIsMarked` | `Spec => []VipMarked` |
| `DestroyedIsGone` | `Spec => []NothingLeft` |
| `LockIsAttended` | `Spec => []LockAttended` |
| `VipIsProtected` | `Spec => VipProtected`, an action property |
| `RepairsAreComplete` | `Spec => []RepairComplete` |

Every property of the `lifecycle` run is proved, so that its bounds of two
brigades, two scripts and three calls do not matter.  The properties are about
what scripts leave behind, and none is inductive: `created` is set in the last of
six steps, and what the first five saw to must still be there.  `Knows` says for
each step of a script what that is; a step of the script establishes it, and
`Alone` keeps everybody else from undoing it.  `FileInv` says that a file is a
whole document or says nothing, `Accounted` that every interface is that of a
file or of a file that was lost.  As a step works on one brigade
(`OthersSame`), except the disabling of doubles, the proof looks at one
brigade for each action (`StepOrderly`) and `OneBrigade` carries the result to all.

`ProcessProofs`, for any servers and clients:

| theorem | says |
|---|---|
| `Invariance` | `FairSpec => []IInv`, the inductive invariant |
| `TypeCorrect` | `FairSpec => []TypeOK`; `TypeOK` says who has the database locked |
| `CollectionsArePublished` | `FairSpec => []StatsPublished` |
| `AlarmsAreTrue` | `FairSpec => []NoFalseAlarm` |

`StatsInv` adds that the `Shutdown` of the statistics is done only when the
collector has ended, and that `main` goes on only then; `AlarmInv` that an error
is reported only after the race on `err`.

`ActivityProofs`, for any users, protocols, networks and any number of days,
collections and mishaps:

| theorem | says |
|---|---|
| `Invariance` | `Spec => []IInv`, the inductive invariant |
| `TypeCorrect` | `Spec => []TypeOK` |
| `MarksAreExact` | `Spec => []MarksExact` |
| `ActivityAdds` | `Spec => []ActivityAddsUp` |
| `PastMonthsAreRight` | `Spec => []PastMonthsRight` |
| `NothingIsForgotten` | `Spec => NothingForgotten`, an action property (no run repeats it) |
| `ActivesAreCounted` | `Spec => ActiveCounted`, an action property |
| `NetworksAreVisited` | `Spec => NetworksVisited`, an action property |

Assumed: users and protocols are finite, there is a protocol, the year has at least
two months, and the calendar goes on (`PeriodAssumption`, which is `CalendarGoesOn` for
the days of the model): a day between two days of one week, month or year is of that
one, a month starts after the one before it, and after the last comes the first.
`CalendarIsRight` in `TrafficProofs` proves this of every calendar of equal years, and
it is true of the real one.  The proofs use nothing else of the calendar.

`MarksExact` needs to know that an answer of the endpoint is not older than the
mark it replaces and not of tomorrow.  `ClockInv` says so, for every user: while no
clock was set both hosts agree, what the endpoint knows of a peer is either
nothing or no older than the peer's marks, and marks without any activity are
empty.  A user's mark and those of his protocols are updated together
(`update`), so that either all or none of them are looked at in a collection; that
makes `ActivityAddsUp` inductive.  `MarkInPeriod` and `MarkIsExact` are the lemmas about
`lastActivityMark` itself.

`StackExact`, the first half of `PastMonthsRight`, says that an entry of the stack has
the traffic of its month.  A collection compares with the last entry only, so that what
it makes of the others depends on how they came to be: `StackInv` says that unused
entries are empty and come first, that no entry is of tomorrow, and that nothing was
collected after the month of the last entry, as long as the endpoint's clock was not set
(`EndpointStraight`; the host's does not matter here).  `CollectStack` follows `Put`:
the traffic is added to the last entry when that is of the same month or the stack is
empty, and is that of a new entry when the month is new.  The second half,
`MonthsInOrder`, is about the recursion of `GetUsersStats`, which counts on from the
last month through the unused entries: `ShownExists` says that it is well founded
because they come first, and `MonthsAreInOrder` that it closes the year, as the entries
are as many as its months.  `NetworkInv` says that the times of the networks, at the
endpoint and in the list, are times of activity.

`TrafficProofs`, for any finite sets of users and protocols, any days, traffic, limit
and mishaps, and any calendar of equal years:

| theorem | says |
|---|---|
| `Invariance` | `Spec => []IInv`, the inductive invariant |
| `TypeCorrect` | `Spec => []TypeOK` |
| `TrafficIsCountedOnce` | `Spec => []CountedOnce` |
| `SumsAddUp` | `Spec => []CountersAddUp` |
| `PeriodsAreExact` | `Spec => []PeriodsExact` |
| `YesterdayIsKnown` | `Spec => []YesterdayKnown` |
| `QuotasAreCharged` | `Spec => []QuotaCharged` |
| `CalendarIsRight` | `\A n \in Nat : CalendarGoesOn(0 .. n)`, from `CalendarAssumption` alone |

`IInv` has four parts, `Counting`, `Sums`, `Periods` and `Quotas`, each inductive beside
the types.

`CountedOnce` bounds what was counted by what has passed, which is not inductive: the
next collection adds what a peer's counter has grown by, or all of it when the counter
is smaller than the one seen last.  `NotTwice` bounds the sum of the two.  `Steady`
says why nothing is lost without a mishap: a counter only grows, and no count is of a
time to come.  `CountedTotal` is the lemma about `incDateSwitchRelated`, whatever
periods it closes on the way.

`CountersAddUp` speaks of every period.  That the counters of a user's protocols are
switched whenever his total is, is `Together`; that a user was never updated or in the
brigade's last collection, while no clock is set back, is `Clocked`.  With these, one
collection adds the same to both sides, whatever it resets.  The theorems about sums
(`SumOver`, a `MapThenSumSet`) come first in the module.

`PeriodsExact` and `YesterdayKnown` compare a counter with sums over the log of days.
`DaysKnown` ties the two: the last day of a collection is that of the counter's update,
and nothing is logged on a day without one.  The days of the current period are then those of
the old sum and today, or today alone, which is decided by the calendar:
`MonthHasNoGap`, and `DayAfter` for what `AddDate(0, 1, 0)` finds on the last day of a
month.  `QuotaCharged` needs `ResetsKnown` (a
quota is reset at the start of a month after the user's last collection).

`MessagesProofs`, for any limits, times to live, month and number of messages:

| theorem | says |
|---|---|
| `Invariance` | `Spec => []IInv`, the inductive invariant |
| `TypeCorrect` | `Spec => []TypeOK`, with the order of the list |
| `ListIsLimited` | `Spec => LimitsHold`, an action property |
| `NothingIsBroughtBack` | `Spec => NothingComesBack`, an action property |
| `GroupedIsRight` | `Spec => []GroupedAsPromised` |

Assumed: the limits, the month and the bound are positive, the times to live are
integers.  `LimitsHold` excepts the one message that was appended with a negative time
to live (`BornExpired`).

That `LimitsHold` is a surprise, as the trimming removes messages at the wrong positions
(`messages_lost`), so that it could be expected to leave too many of those without TTL.
It does not, because of what `ListInv` adds: behind the first `KeepNoTtl` messages only
the last can be one without TTL.  When it is one, there are as many offsets as messages,
and the trimming cuts the list down to `KeepNoTtl` messages of whatever kind (or panics,
and nothing is committed); when it is not, the list is left alone
(`TrimmedNoTtl`).  Either way no message without TTL is behind the first `KeepNoTtl`,
until a new one is appended.  `ListInv` was found by TLC, on lists that requests can
make; on an arbitrary list the limits do not hold.

What the filters and the trimming return is said by one relation: `PartOf(r, s)`, that r
has the messages of s at increasing positions (`Picks`).  It is reflexive and
transitive, a part is in order when the list is, and no message of it is further from the
front (`PartKeeps`).  `KeptIsPart` and `TrimIsPart` are inductions along the recursions,
`RecursionExists` says that these have a solution.  For `GroupedIsRight` the positions
decide: the offsets are all 0 (`GroupedTrim`), a message has fewer than `KeepNoTtl` newer
ones without TTL exactly when the trimming does not reach it (`NewerNoTtl`, which
counts them by a bijection), and parts with the same positions are the same
(`SamePart`).

How induction is done.  The library's induction theorems take an operator as a
parameter, which none of the installed provers can instantiate.  Here a set of
numbers that has 0, and the successor of each of its numbers, is shown to be all of
them (`NumberInduction`), and a set of subsets of a finite set likewise
(`SubsetInduction`), by the least element of what is missing (`WFMin`), which takes a
set.

Model-checked only: liveness under fairness (`SpinReleased`, `SessionEnds`,
`StopEnds`), which the prover does not do.

## 6. Not modelled, and why

- The wire format, keys, certificates, configuration files, names: pure data.
- Views (`GetUsers`, `ListUsers`, filters and pages of messages): they change
  nothing, except one field (`KeydeskFirstVisit`), set in one session.
- In `patch`: changed keys of the brigade itself, a changed mode, the dry run,
  a UUID that comes back with another key, and the replay that `-r` makes afterwards
  (a session of its own, which is modelled).  A changed mode hides changed keys: `Do`
  returns `ErrNeedRestart` before it looks at `ErrNeedFullReplay`, and `main` then
  exits with 2 and replays nothing, not even the marks.
- Power failure: `Sync` is called before the names change, but the directory is
  never synced; the model has process crashes, not lost directory updates.
- In the statistics: the counts of blocked and throttled users, of those of each
  protocol and of those above 50 GB and more, each a sum of one field over the
  users; the random delays of the collector and its random test data.  The mark of
  the month before (`prevMonthly`) is modelled, but no property is about it: nothing
  in the code reads it.
- `reset`'s domain, and `crutches/fix111`, which replaces public keys once: one
  field in one session, nothing else reads it.
- A restart of the machine, which would start the units that are enabled and no others.
- In the scripts: the brigade's own `.maintenance` file, which acts as the
  machine's does on one brigade, the mode `vgsocket`, the debug branches, and what
  is printed.
- Push subscriptions and the messages of `keydesk/storage/messages.go`: one field,
  one session.
- In the process: routes, TLS, flags and listeners, the middleware for
  maintenance, which changes nothing; all of `gen/`, generated.

Half of the Go code of the repository is generated from API documents (`gen/`), and
of the rest the larger files that are left out are tables (`keydesk/topsites.go`), flags
(`cmd/keydesk/parse_args.go`), configuration files (`gencfg-*.go`, `internal/vpn/*/`)
and one-off conversions (`crutches/`, `cmd/vgc-convert`): none of them has a state
that another part of the program can meet half way.

## 7. Plan

1. *Done*: `AtomicDocument`, `FileDb`, `Brigade`, `Messages`, `Traffic`, `Activity`,
   `Protocols`, `Lifecycle` and `Process`, each with its proofs.  Every safety property
   of a run is proved.
2. Proofs: what weaker assumptions would do, as in `Atomicity`, which leaves
   createbrigade out, and the safety half of what is only model-checked: a session that
   has not failed never waits for its own lock.
3. Models: the keys of the brigade itself in `Patch` (`ErrNeedFullReplay`) and a changed
   mode (`ErrNeedRestart`).
