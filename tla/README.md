# TLA+ models of ai-fence-cli

`ai-fence-cli` starts coding agents (Codex, OpenCode, OpenClaw, ...) against the
AI Fence gateway. It signs the user in, runs a local proxy that adds the
credential, gives an agent a private copy of a project (a *named workspace*) and
keeps the native chat history of the agent tied to that copy. These modules
model the parts of it that several processes share and the files it keeps from
one launch to the next, and check what those parts promise to each other and to
the user.

Paths below are relative to `src/crates/ai-fence-cli-core/` unless they start
with another directory of the repository.

## 1. Inventory

| component | state it keeps | operations | with whom | what makes it correct |
|---|---|---|---|---|
| Workspace registry (`src/workspace.rs`, `src/workspace/{leases,storage,command,recovery}.rs`) | `records/*.json` under one flock, a marker in each workspace, a lease per record | create, fork, recover, attach, release, track child, register native home, pin, remove | every launcher, the desktop adapter (`workspace _attach/_release/_resolve`), the user | one name is one workspace; one lease serves one process tree; a chat belongs to one workspace for ever; removal never meets work in progress; crashes do not block it |
| Desktop adapter: lifecycle (`assets/codex_desktop.py` 722-965) | thread records under a flock each, `named` leases, `named_threads`, pending requests | reserve, release, attach, close, request, response | Codex app server and Codex Desktop over pipes, the registry | a request is only forwarded while its workspace is leased; a thread is used by one adapter, unless a step of one failed |
| Desktop adapter: reconnection (`assets/codex_desktop.py` 988-1217) | request and target files under `.reconnect.lock`, counters of turns, approvals and inputs | request, cancel, publish, poll, mark, finish | the `reconnect` command, every running adapter | a target closes only when nothing it could know of is under way; a cancelled target stays; nothing is forwarded after draining |
| Desktop install and update (`assets/codex_desktop*.py`) | wrapper files, backup, version marker | install, activate, uninstall | the Codex application | a wrapper never replaces what it cannot restore |
| Desktop authentication (`assets/codex_desktop_auth.py`) | owner process, bridge connection | own, bridge, refresh | the Codex app server | one owner per native home |
| OIDC credentials (`src/auth.rs`) | `.credentials.json`, a refresh lock | login, refresh, logout | the proxies, the provider | a rotating refresh token is spent once; a login stays usable |
| Local proxy: requests (`src/proxy.rs` 401-670) | per request | forward, refresh and retry | agents, credentials, gateway | a request that was carried out is not sent again; a retry carries another token |
| Local proxy: Responses WebSocket (`src/proxy.rs` 1028-1785) | per client socket | connect, relay, reconnect when idle | Codex, gateway | a request is never replayed; every failed turn is reported, and only to its turn, unless the end of an earlier one was missed |
| Checkpoints (`src/workspace_snapshot.rs`, `src/workspace_snapshot/`) | snapshot directories with manifests, pins, sets, a lock | create, list, pin, prune, launch gate | launches, the registry | a set that counts as complete has all its members; the newest complete sets, pinned and recent ones are never pruned; a launch that requires a checkpoint has one of its directory as it was when last looked at |
| Agent profiles (`src/agent_launcher.rs` 482-1047) | lock file, durable sessions, links and copies in run directories | acquire, reclaim, copy in, link, copy out, release | all launches of a profile | one launch synchronises at a time; nobody is locked out by an end; linked work is never lost, copied work only to an overlap or to a write that was cut off |
| Configuration of Codex (`src/agent_launcher.rs` 868-961, 1118-1665) | template, profile, project trust, the home of the run | launch, upsert an MCP server, copy back | the user, Codex | whatever a template says, requests go to the proxy with one source of credentials; what the user chose counts next time |
| Homes of the other agents (`src/agent_launcher.rs` 244-365, 1676-2685, `src/openclaw.rs`) | settings, models, routes, servers in the agent's home | resolve, refuse, write | Claude, Junie, pi, dsh, Kimi, OpenClaw, Copilot | the agent that runs is the one that was meant, in a home that is not the user's own |
| Open Interpreter (`src/open_interpreter.rs`) | config, catalogue, roles | write_open_interpreter_config | Open Interpreter | every model can run with its harness; a failed launch leaves no lie |
| Model metadata (`src/crates/ai-fence-model-metadata`) | built-in table, price list, overrides | resolve, recommend | setup, Open Interpreter | the user's word counts; advice fits the protocol |
| Setup and channels (`src/config.rs`) | `cli.toml` per channel | current channel, load, merge, save | every command | channels stay apart; a setup loses nothing an earlier one set |
| Shared files (`src/workspace/shells.rs`, `src/workspace_snapshot.rs` 478-545) | blocks in shell profiles, instructions, helpers | install, initialise, guide | the user's editor, other channels | only the own block changes; nothing loads what is not there |
| Client and contract (`src/crates/ai-fence-client`, `-contract`) | none | HTTP calls, validation | the gateway | data types and stateless calls |
| Scripts, release notes, workflows | none | build and release | - | outside the program |

The behaviours that are hard to test are listed in `PROJECT.json` under
`hazards`, each at its line.

## 2. Modules

| module | models | composed with |
|---|---|---|
| `WorkspaceRegistry` | the registry, all processes that call it, their deaths | `LeaseContract` by refinement |
| `LeaseContract` | what a lease promises, without files, tokens or locks | abstract specification |
| `DesktopLifecycle` | `class Lifecycle`, both threads of every adapter, the app server, thread records, registry leases | takes attach and release as atomic, as `WorkspaceRegistry` shows them to be |
| `DesktopReconnect` | `class ReconnectSession` and the `reconnect` command | - |
| `ProxyCredentials` | the credentials file with its refresh lock, HTTP request handlers, provider and fence | - |
| `ProxyWebSocket` | the task of one Responses WebSocket, its client and the fence | - |
| `ProfileSync` | the lock and the state of a profile, all launches that share it, their deaths | part of `MCLauncher` |
| `CodexLaunch`, `InterpreterLaunch`, `AgentHomes` | what a launch writes for Codex, Open Interpreter, the others | use `ConfigTree`; parts of `Launcher` |
| `ModelMetadata` | metadata of a model and the advice made from it | uses `Harnesses`, `ConfigTree`; part of `Launcher` |
| `CliSetup` | channels, their homes, `cli.toml` and the setups that write it | part of `Launcher` |
| `ShellBlocks` | shell profiles and Codex's instructions, installations and the user | part of `Launcher` |
| `Launcher` | the six modules above as instances, one per behaviour; the assumptions on their constants and the properties of their union | part of `MCLauncher` |
| `CheckpointSets` | the variables of the checkpoint store and what its operations promise | extended by `Checkpoints` and `MCLauncher` |
| `Checkpoints` | the operations of the store, the launches that need a set, recoveries | two parts of `MCLauncher` |
| `ConfigTree`, `Harnesses` | TOML and JSON documents as trees with the merges of the code; protocols a harness can speak | used by the modules above |
| `Lists` | the four operators on sequences that the launcher's modules share | used by the modules above; with the definitions of `SequencesExt`, of which an instance would repeat every operator in every proof |
| `MC*`, `LauncherInputs` | ancestor trees, directories, symmetry sets, inputs | instantiate the modules for TLC |
| `WorkspaceRegistryProofs`, `ProxyCredentialsProofs`, `ProfileSyncProofs`, `ProxyWebSocketProofs`, `DesktopLifecycleProofs`, `DesktopReconnectProofs`, `CheckpointsProofs`, `LauncherProofs` | the theorems | extend the module they name |

Definitions whose comment begins with *Mutant of* are no part of a
specification. Each is a plausible mistake in the operator it names (a dropped
guard, a missing reset, a swapped order); replacing the operator by it makes the
property it is listed with in `PROJECT.json` fail. They are kept to show that
each property depends on the code.

### WorkspaceRegistry

`rec` is the directory of metadata records, `disk` the workspace directories
with the volume, marker and changes in each, `lock` the flock on
`<registry>/.lock`, `op` the operation a process is in the middle of, `guard`
its `WorkspaceLease`, and `env` the lease token in its environment.

| actions | code |
|---|---|
| `AttachDiscover`, `AttachGrant`, `AttachShare`, `AttachRefuse` | `attach`: discovery without the lock, the polled lock, the second look at the record, the three results |
| `Spawn`, `Exec`, `TrackChild`, `RegisterNativeHome`, `Drop` | `WorkspaceLease`: the environment it exports, tracked children, native homes, `release` in `Drop` |
| `CreateSnapshot`, `CreateMark`, `CreateSave` | `create_source_with` in the order of its effects: directory, marker, record |
| `RemoveCheck`, `RemoveDelete`, `RemoveSave` | `remove_with`: all checks, deletion, tombstone |
| `Fail`, `Die`, `Edit`, `Tamper` | an error return at any point of an operation, a kill at any point, work in a workspace, changes by hand |

A process identity is a PID with its start time, as the code compares them; a
PID that is reused is therefore another process. The identity of a volume (UUID
and inode) is the identity of the record that saved it.

### DesktopLifecycle

`named`, `named_threads`, `threads` and `pending` are the fields of `Lifecycle`.
`input` says how far the input thread is in `request` and `output` what is left
of the output thread's `response` or `close`. Each element is a stretch between
two calls of the registry or two uses of the gate, because that is where the
other thread can come in. `record` and `lease` are the files the adapters share.

A step of the output thread that calls the registry or opens a record may fail
(`Fails`). As in the code (1430-1434), what is left of that message is not
done, the app server is told to end, and both threads go on with new requests
and answers until its output closes; `phase` is then *failing* and later
*dropping*, where a connection without a failure goes from *running* to
*closing*. The end of the app server's output (`Stop`) comes after everything it wrote
has been handled; `close` gives back requests, threads and workspaces one by one.
`Sound` are the connections in which no step failed.

### DesktopReconnect

`session` is the state of a `ReconnectSession`. `request`, `report` and
`settings` are the files. `command` is the `reconnect` command between its two
writes, while it holds `.reconnect.lock`, and `polled` the request a poll has
read and not yet decided on. The two pipes to the app server are queues. A turn
is started by `turn/start`, whose thread the session enters when it reads the answer,
or by `thread/shellCommand`, of which the session enters nothing before the
announcement (1130). `unseen` has the turns of the second kind from their start until the
session has read the announcement; it is a history variable, and one property reads it.

### ProxyCredentials

`file` is `credentials.json` and `lock` the refresh lock. `task` says how far
each `proxy_handler` is: waiting for the lock, waiting for the provider, about
to save, about to send, sent. `asks` are the requests on their way to the
provider, which outlive the process that sent them; `spent` and `lost` are
what the provider knows. Login and logout write the file without the lock, as
`device_auth_login` and `delete_credentials` do.

### ProxyWebSocket

`at`, `held`, `discard`, `inFlight` and `linked` are the local variables of the
task `proxy_websocket` spawns; `down`, `inbox` and `outbox` the queues it reads
and writes; `peer` and `work` the fence's end of the connection. A connection
may end at any moment, with or without a close frame, and with or without the
frames before it. A turn ends for the client with any terminal event; the task
knows two of them (`local_proxy_upstream_message_finishes`, 1652-1669), so
`ReadFrame` may forward the end of a turn and leave it in flight. `missed` remembers
that (*open*), and that the task has then reported the loss of a turn that was over
(*reported*); it is a history variable as well.

### ProfileSync

`lock` is the lock file with the launch that made it and whether its line with
the pid has been written. Each system call of `acquire_agent_profile_lock` is a
step (`Create`, `Judge`, `RemoveLock`, `Recreate`, `Name`), because that is where
other launches come in. The copy out of a session is two steps, because `fs::copy` (1014)
truncates the file of the profile and then fills it (`Truncate`, `Fill`; `Pass` where
the run has no such file), and a launch fails or is killed between them as
anywhere else; `CopyIn` may read what another launch has truncated. `Release`
removes the file at the lock's path, whoever's it is, as `Drop` does. The content
of a session is the set of launches whose work is in it, and `Torn` while it is cut off. `layout` is the
agent's: sessions linked from the start (Codex, Open Interpreter), linked once
they are there, or copied. A launch dies at any step.

### ConfigTree, CodexLaunch, InterpreterLaunch, AgentHomes, ModelMetadata

A document is a function from paths to values. `Joined` and `Kept` are the two
ways to make one of others; `Overlay`, `OverlayProfile`, `Put`, `PutIfMissing`,
`PutAt`, `Drop` are the merges and edits the code is made of, including what
becomes of a value where a table is expected. Where the code inserts the servers or
models of a list one after the other, the modules say what is there
afterwards: the last server of a name, whole (`ServerOf`, `WithServers`). `CodexLaunch` is a life: edits by hand, a launch with its options
(`Launch`), choices of the user in the agent (`Use`), and the copy back (`Finish`).
`InterpreterLaunch` runs launches into one home, each of which may fail at a
role that does not fit; `AgentHomes` runs launches of one agent into
directories that are fresh, used before, or the user's own, by every name a
link can give them. `ModelMetadata` is the advice under changes of the price
list, the overrides and the route.

### CliSetup, ShellBlocks

`CliSetup` starts processes of several channels with what they inherit from
each other's shells. A setup loads, truncates, fills (`Load`, `Truncate`, `Fill`)
and may die in between. `ShellBlocks` installs helpers and blocks of two
channels, profile by profile, while the user edits; a profile is read, then
truncated and filled, the instructions of Codex are replaced in one step under
a lock. `raced` collects files that two writers had open at the same time, or
whose writer was killed: what the properties exclude is what the code has no
lock against. A profile has an encoding, because one that cannot be decoded is
left alone; that the encoding of the others survives is modelled and read by no
property.

### CheckpointSets, Checkpoints

`sets` are the directories of the store with their manifests, `volume` the
subvolume at each path, by a number that is never used again, `job` the
operation that holds the store's lock. A set is made member by member
(`Describe`, `Inspect`, `Snap`, `Record`), compared with the disk at the end
(`Check`) and only then complete (`CompleteSet`). `Prune` is the pass that
validates every planned set before the first deletion; `Mark`, `Delete` and
`DeleteSet` take them away, newest first. A launch (`Launch`, `LaunchWithout`)
chooses a root by the environment or the directory, with the policy off, auto or
required; `informed` is the set its agent is told of, and what a launch inherits from
a shell is that of any earlier one. `RecoverCheck` and `RecoverClone` are the
two halves of a recovery, which does not take the lock. Every step fails
(`Abort`) or is the last (`Die`); `Nest` (subvolumes are made and removed while a set is
made, anywhere) and `Thaw` (a snapshot is made writable, also between the validation of a
prune and its deletions) are the user's hand, which takes no lock. `late` has what
came to pass after the process had looked: subvolumes around the launch's directory that changed
after the question whether the set covers it, or, in a recursive set, after the
members were compared; and planned sets with a snapshot made writable after the
validation. `completed` remembers which sets were completed once. Only properties
read the two.

## 3. Runs

| run | instance | shows |
|---|---|---|
| `leases` | one workspace, four processes: a launch, its child and grandchild, and a stranger; three tokens | a lease is used by one process tree and changes hands as `LeaseContract` says (`OwnerHoldsLease`, `OneTreePerLease`, `LeaseIsStable`, `ImplementsContract`) |
| `storage` | two processes, one name, two identities, one chat, directories changed by hand, fairness | names, chats and markers stay unique under overlapping creation, removal and crashes; removal never meets work in progress; whoever waits to attach gets an answer (`UniqueLiveName`, `UniqueChatLink`, `RegisteredIsMarked`, `RemovalSparesWork`, `TombstonesStay`, `AttachIsAnswered`) |
| `desktop` | two instances: two adapters and one chat, whose steps fail; one adapter with two chats of one workspace, two requests, into the shutdown | a chat is registered with one sound adapter, and a lease on the books as owned is held (`ThreadsAreExclusive`, `OwnedIsHeld`) |
| `desktop_reservation` | one adapter, two chats, one request | *violated*: `ForwardedIsLeased`, see 5 |
| `desktop_lease_return` | the same | *violated*: `LastCloseReleases`, see 5 |
| `desktop_reconnect` | two parts: an adapter with one chat, two turns by `turn/start` or a shell command, one operation and a memory of one completed turn; an adapter with two operations and two releases, fairness | a session drains only when nothing it could know of is under way; reports are true, a target let go stays, each armed target answers (`WorkIsFinished`, `ReportIsTrue`, `LetGoIsFinal`, `RequestIsAnswered`) |
| `desktop_shell_turns` | one turn, one operation | *violated*: `TurnsFinish`, see 5 |
| `proxy_requests` | two handlers in two processes, three tokens, fairness | no replay of what was carried out, fresh retries, rotation, an end for every request (`ServedOnce`, `RetryIsFresh`, `PresentedIsUnspent`, `LoginStaysUsable`, `RequestIsAnswered`) |
| `proxy_websocket` | three turns, ends that the task knows and others, no pings during a turn, fairness | `NeverReplayed`, `OwnAnswer`, `NobodyWaitsInVain`, `TurnEnds` |
| `proxy_pings` | the same with pings | *violated*: `NobodyWaitsInVain`, see 5 |
| `launcher` | nine instances, one per part (`part`): Codex, homes, Open Interpreter, metadata, setup, shared files, profiles, and two of the checkpoints, one with launches and a recovery, one with more sets and prunes | `EveryRequestIsFenced`, `ChoicesAreKept`, `WhatRunsIsMeant`, `HomesAreApart`, `SharedFilesWork`, `ExclusiveAmongTheLiving`, `LockIsRecoverable`, `LiveSessionsSurvive`, `LossHasACause`, `CompleteIsWhole`, `NewestRemain`, `LaunchIsCovered`, `PruneSpares` |
| `profile_lock` | three launches of one profile that may be killed | *violated*: `SyncIsExclusive`, see 5 |

`MCLauncher` is one specification whose behaviours belong to one of nine
instances each: `part` is chosen at the beginning and never changes, and the
variables of the other parts are idle. Six of them are `Launcher`, about which the
proofs are. It is a disjoint union, not a
composition; the parts share no state in the code either, except where a
module models both sides. `MCDesktopLifecycle` and `MCDesktopReconnect` join their two instances in the
same way. A property of a union is the conjunction of the properties of the
modules, each in its part; `Launcher` names them.

Deadlock is not checked: processes die, identities and tokens are used up, and
a client that has left does not come back, so every instance may stop.

### Why the bounds are enough

* Workspaces meet only in the registry lock, so one name with two identities
  gives every race of creation, fork and removal; a third identity would repeat
  the second. Two chats or names never meet in one record other than through
  the set of chats of that record.
* A lease is owned, borrowed by a child, tracked for a grandchild, and wanted by
  a stranger: four processes are every role. Three tokens let it change hands
  twice, which is when an outdated guard can do harm.
* Two adapters are enough for a contest over a chat. Within one adapter two
  threads run, so two requests are enough for any overlap.
* In the desktop model, steps fail in the instance with two adapters (`Failing`), where
  another connection can be harmed, and the input thread is followed past the end
  (`Lingering`) in the one with two requests, where the threads of one connection meet.
  With both at once the instance is too large to finish. `Failing` and `Lingering` are
  constants of the specification, and the theorems hold for every value of them: the
  proofs cover a failing connection that takes new requests.
* Chats are started in the workspace (`Starting`): a chat in an ordinary project takes no
  lease, and its start meets nothing of the others. The theorems do not need the bound.
* `Remembered = 1` stands for the 256 turns the session remembers; with two
  turns the memory overflows.
* Two handlers and three tokens: the token that is refused, the one another
  process has saved, and one issued after that.
* A WebSocket needs a turn on the first connection, one on a connection that
  replaced it, and one after that, to see that a failure does not spread.
* `MaxQueue` bounds how far one side may write ahead of the reader. Two frames
  hold an answer and a close, or a request and a close; in the desktop models one
  message is enough because each message is handled by itself.
* Three launches of a profile: a dead owner of the lock and two that find it.
  One session shows every overlap and every cut, because sessions are copied one by one.
* A series of two launches (three for Open Interpreter, two runs of an
  installation) is what it takes for something an earlier launch left behind to
  meet the next one. `LauncherInputs` gives templates and profiles that
  contradict everything a launch has to set: other providers, other sources
  of credentials, text where a table is expected.
* Two setups and two installations: one that overlaps another. Six shells give
  each channel the variables of every other one.
* Checkpoints with `KeepLast` 1 for the 3 of the code and `MinAge` one day for the
  7. Three sets are a complete one to keep, one to prune, and an incomplete or a
  newer one. One nested subvolume makes a set of two members, which is where
  "between two members" begins; an approved root within an approved root is
  where a launch can choose the wrong one.

Every theorem below holds for all values of the constants; the bounds on tokens,
queues, sets, hands, launches and edits are part of the specifications, and the
theorems hold for every value of them. So the bounds limit only what is
checked besides: liveness.

### Fairness

* Registry: a process inside a locked operation goes on or fails (weak fairness
  of its next step), and flock, which every caller blocks on, serves each waiter
  sooner or later although others get it in between (strong fairness of the
  decisions of `attach`). Nothing is assumed of anybody who does not want the
  lock, and a process may be killed at any step.
* Reconnection: the output thread polls every 0.2 s (weak fairness of its
  decision, strong where the decision needs a lock that may be taken), a
  draining connection is stopped within 5 s, time passes (`Expire`).
* Credentials: a handler goes on, and flock serves waiters sooner or later
  (strong fairness). Connections to the provider are assumed to end. The code
  sets no timeout on them: a provider that accepts and never answers would hold
  the lock for as long as it likes.
* WebSocket: `tokio::select!` polls its branches in random order and starves
  none (strong fairness of reading each side); a handshake is bounded by
  `LOCAL_PROXY_WEBSOCKET_RETRY_TIMEOUT`; the fence answers or hangs up; the
  client reads. There is no fairness on new turns, pings or leaving.

## 4. Proofs

The modules `*Proofs` prove safety properties of the modules they extend, for every
value of the constants. They use the modules' assumptions: `None` (`NoLock` of
`ProfileSync`) is outside
the other sets, `Ancestors` is a strict transitive relation, the bounds are
numbers, approved roots are among the places (`Parameters` of `Checkpoints`,
which its two instances satisfy). `Launcher` has five about the form of what is given
to a launch, described below. Two theorems of the WebSocket have a premise besides, which
is in their statement and is a constant of the run that checks them: `Early`
(the client sends its first request during the handshake, as the comment at
`proxy.rs:1056` says) and, for one, `~Pinging`.

**Registry.** The inductive invariant `IInv` joins the properties with what
they rest on: `LockInv` (the lock is held exactly through a locked operation),
`QuietInv` (a dead process holds nothing), `RecordInv` and `GuardInv` (what
records and guards may refer to), and `OperationInv`, the heart of it: what an
operation found under the lock is still true at each of its later steps. The
last one is needed because the checks of a creation or a removal and their
effects are different steps, with crashes and the hand of the user in between. The
proof has three layers: typing; *effects*, lemmas that say what each action does
to a record field by field; and one lemma per group of conjuncts
(`LockStep`, `LeaseStep`, `OperationStep`, `MarkerStep`, ...). From `InvariantHolds`
follow `NamesAreUnique`, `ChatsAreUnique`, `OwnersKeepLeases`,
`LeasesServeOneTree`, `MarkersAreTrue`; with the effects also the action
properties `LeasesAreStable`, `RemovalsSpareWork`, `HistoryOnlyGrows`, and
`RegistryImplementsContract`: every step of the registry is a step of
`LeaseContract` or a stutter, under the mapping at the end of `WorkspaceRegistry`.

**Credentials.** `Inv` has, besides the properties: `Known` (which tokens have
been issued), `Placed` (whoever holds the lock is asking or saving, and
nobody else is), `Presented` (a request to the provider whose sender lives is the one the sender
is waiting for), `Unspent` (the holder of the lock works with a token that is not
replaced, or whose replacement is lost), `Secret` (a token in an unsaved answer
is nowhere else) and `Replaced` (when the retry leaves, the file no longer has
the refused token). Most actions move one handler and nothing else; the lemmas
`MoveKeeps` and `FinishKeeps` settle those, and each other action has a lemma
of its own. The results are `NothingIsServedTwice`, `EveryRetryIsFresh`,
`RotationIsRespected` and `LoginsStayUsable`.

**Profiles.** Four theorems, each with the invariant it needs. `LockExcludes`
rests on `HolderInv`: while nobody is dead no lock is judged stale, so the lock
names whoever synchronises. `LockRecovers` rests on `NamedInv`: a lock with a name
names a launch that is copying or dead, since every way out of the copy but
death removes the file. `LiveSessionsAreSafe` rests on `LinkInv`: where the
directory is made first and can be linked, whoever runs works through a link
and has nothing to copy out. `LossesHaveACause` is the deepest: saved work that is not in the
profile was overtaken by a launch which copied in before it was saved, or the file is cut
off; and a file is cut off only while it is written or because a launch failed or
was killed in the middle. `WorkInv` says that only
work that was done is anywhere and that a launch keeps its own work, `OpenInv`
who has a file truncated, `SeenInv`
that what was saved when a launch copied in is in its copy, was lost before, or the
copy is of a file that was cut off,
`OvertakenStays` that a launch which overwrites without knowing is known as such
from then on, and `TornInv` that while nobody is dead a file that is cut off is
accounted for by the launch that writes or failed. `TornInv` needs `HolderInv`: only
the lock keeps a copy in from reading a file that another launch has truncated. `LockRecovers`
and `LiveSessionsAreSafe` do not rely on the lock being exclusive, and could not,
because it is not once a launch has been killed (see 5).

**WebSocket.** `NothingIsReplayed` needs that a request is in one place
(`OnePlace`): unsent, once in the client's queue, in the task's hands, or gone to
the fence, where it arrived at most once. `AnswersAreTheTurns` needs to know of each
phase which turn everything belongs to: the frame at hand, the one in flight, the
queue of each side and the answers of the fence (`OneTurn`). The case that matters is the
first turn after a failed handshake, whose request is thrown away because the
client has heard the error about it; it is where `Early` is used. A turn whose end the task
missed is over though it is in flight, so the invariant speaks of the turn behind it
(`Flying`), and it holds until such a turn is reported lost. `OwnAnswer` makes
that exception and no other; `ReportedStays` is the other half of the proof.
`TheSilentAreAttended` has no such exception, and an argument of its own (`Quiet`): no ping is
anywhere, nothing but a farewell is queued behind the request of the turn
(`LastFrame`), a request
to be discarded has had its error, and a waiting client's request is
underway. A missed end only answers somebody once more. Without `~Pinging` this is false, as `proxy_pings` shows (see 5).

**Desktop leases.** `OwnLeaseIsHeld` states `OwnedIsHeld`. Both threads of the
adapter enter a lease in `named` only after the registry has given it, take it
out before they give it back, and call the registry outside the lock of the
books. The invariant (`Keeps`) says that a lease an adapter owns is in one place
at a time (`KeepsAt`), the books, the hands of the input thread or those of the
output thread, and that the registry has it there with this token and this
owner. That is why neither thread can give back what the other still relies
on. It needs no order among messages, only that the head of the output thread's
tasks is the one with a lease in its hands (`Orderly`).

**Desktop chats.** `ChatsAreExclusive` states `ThreadsAreExclusive`, that no chat is
registered with two live adapters in which no step failed, and that a failing one that
has it too is not on its record. `Leased` says why: the record of a chat is
leased to one live adapter, and whoever registers the chat is the one, if it is sound
(`Firm`). A connection in which a step failed may have a chat without its record (see 5),
and the invariant says of it what remains true: its leases are in one place and its
requests have one identity while the app server is there. The rest is
about keeping the record leased for as long as the chat is registered, through two
threads that learn of its beginning and its end from different messages. `Requests`
says that a request has one identity from the input thread to its answer;
`Answers` what the app server's messages may be about; `Ordered` that the
output thread has nothing left to register once it is to forget, and gives a record back
only when the chat is off the books; `Prepared` that a chat the app server has
loaded, or starts a turn of, is registered by the time the messages ahead are handled.

**Reconnection.** `FinishedWork` states `WorkIsFinished`: while a session drains,
nothing is underway and nothing is let in. The session knows the app server
only by the messages it has read, so the invariant `InvWork` says that the
books account for everything they have not seen the end of: each forwarded request
waits in `pending` for its answer (`Entered`), a call is on its way there, with
the app server, or on its way back, and once only (`CallsOnce`, `New`), a
running turn is not among the completed ones (`Turned`), nothing ends it behind
its announcement (`Announced`), and, unless its start is hidden from the session, its thread
is known as active or an answer to come will say so, with no end of that thread
behind it (`Known`). The last part makes the order of a late answer and a
completion matter. What is hidden are turns of shell commands whose announcement
the session has not read: the code cannot know them, `desktop_shell_turns` shows one, and
`WorkIsFinished` excepts those and nothing else. `Rests` is what draining adds. The proof does not
depend on how many turns are remembered. `ReportsAreTrue` and `LettingGoIsFinal` rest on
`InvReports`: a session that drains said so before (`Draining`), a target that reported an end
has ended (`Closed`), one let go knows it or the request is cancelled for good
(`LetGo`), and what the command may have in hand between its two writes
(`Arming`, `Cancelling`, `Armed`). `ReconnectTypes` is the type invariant, by
one about the form of the messages (`Formed`).

**Checkpoints.** The invariant `IInv` says what the holder of the lock may be at
(`JobIsSound`), that numbers of subvolumes are not used again
(`NumbersAreFresh`), and, the heart of it, `SnapshotsAreTraced`: a snapshot of a
set in the making is of the subvolume its manifest names, or that one is gone
from its path for good. The source of a member may be replaced between its
inspection and its snapshot, so nothing better holds until `Check` has compared
the disk with the manifest, and this is what makes that comparison enough.
`CompletedAreTraced` carries it on through prunes and recoveries, `LaunchIsSound` relates the
launch to the set made for it, with the exception of what changed after it was looked at
(`late`: `LeftOut` of a set of the root alone, `Covers` of any), and `NewerRemain` says that whatever is gone or
planned has `KeepLast` newer complete sets. It stays true because a plan is
worked off from its newest set: what is newer than that one is newer than all the
others. From it follow `SetsAreWhole`, `PrunesKeepNewest` and the action
properties `AgentsAreCovered` and `PrunesDeleteThePlanned`.

**The launcher's files.** `LauncherProofs` proves the five properties of
`Launcher` (`RequestsStayFenced`, `ChoicesStayKept`, `MeantIsWhatRuns`,
`HomesStayApart`, `SharedFilesStayWhole`) from one inductive invariant, `FilesInv`
(`FilesStayInvariant`), a conjunct for each part. Its first section is about the operators of
`ConfigTree`: what `Overlay`, `Put`, `Drop` and their relatives leave at a path
below or beside the one they change. The parts then rest on these:

* Codex (`CodexInv`): the configuration of a run is in its lane
  (`Lane`: provider, address, protocol, one source of credentials), which each step
  after `WithProvider` leaves alone because trust and servers are at
  other paths; what the user picks afterwards is too. `CodexAnswers` says that
  the model, the effort and each answer about a project in the run are values, and which
  answers the next launch will find (`LevelsCount`): the copy back writes them
  either into the profile or into the trust file, and both go over
  the template again. `CodexWhole` is about servers.
* Open Interpreter (`RolesInv`): a configuration that was written has all three
  providers in order, every role on disk has a harness that speaks its protocol,
  and a role or catalogue that the configuration names is on disk. The configuration is
  the last file of a launch and roles are never removed, so a
  launch that fails in between leaves all of this true.
* The other agents (`HomesInv`): any tree in a home is over the known keys, and for the agents
  that keep pin and models in one file the pin is served (`OwnPin`) in every home,
  not only in the one launched last.
* Metadata (`MetaInv`): the route speaks a known protocol; the rest
  holds of every state. An answer is the heuristic's, which fits by its cases
  (`AdvisedFits`), or explicit guidance that was found fit, or has no harness.
* Setup (`SetupKept`): outside `raced` one setup at a time is underway in a channel, what it
  holds is what was given merged with its own, and the file is what was
  given unless it is truncated. `SetupPlaces`: state is in
  the home of the process that keeps it.
* Shared files (`BlocksType`, `BlocksLoads`, `BlocksText`): a text has one block of a channel with
  nothing between its lines (`Sound`), though a marker may have been removed; what is loaded is there, in
  files and in the hands of an installation; and the user's lines are in
  order in both. `Sound` is what makes the replacement of a block
  spare lines of the user, who types at the end and not into a block.

The assumptions say what a launch is given: documents are over `Key`, which
has the keys the launchers use and not `None`; protocols, credentials and options are
those of the types in the code; what a user picks in Codex are the three choices Codex
writes; role names are distinct, enough for the selected models, and no template names the
launcher's own role files; agents with a home are those with a binary. TLC evaluates
them on the run.

**Only model-checked.** The liveness properties (`AttachIsAnswered`,
`RequestIsAnswered` in two modules, `TurnEnds`): the proof system reasons neither
about fairness nor about `ENABLED`. Every safety property of a passing run is a
theorem. The `TypeOK` of `DesktopLifecycle` and `ProxyWebSocket` documents the types
there: the proofs use the part of it they need (`Typed`), and it holds in the instances of the runs, whose lists are kept to
properties of behaviour.

## 5. Where the code disagrees with what it says

* **A request is forwarded without a lease** (`desktop_reservation`). The input
  thread reserves the workspace and only later enters the request in `pending`.
  In between the output thread handles the end of another request or chat of
  that workspace, finds no user of it, and gives it back. `WORKSPACES.md` says
  that the adapter "reserves the workspace before forwarding work".
* **A workspace stays leased after its last thread closed**
  (`desktop_lease_return`). `reserve` keeps the first answer of the registry per
  workspace. If that one borrowed a lease the other thread then gave back, the
  entry stays, hides that the next answer does own its lease, and the lease is
  not returned before the connection ends.
* **A shell command is interrupted by a reconnect** (`desktop_shell_turns`). The session
  enters the thread of a request only for `turn/start`. A `thread/shellCommand` is
  answered before its turn is announced; between the two the books are empty, the
  poll finds nothing under way, and the app server is stopped while the command
  runs. The README of the repository says that active turns "are allowed to finish".
* **A failed ping makes the proxy forget a turn** (`proxy_pings`). If the
  connection to the fence breaks and the client's own ping or pong is what
  finds out, the task clears the request in flight, drops the connection, and
  reports the failure only for a frame that is itself a request. The client gets
  neither an answer nor an error.

* **Two launches synchronise one profile** (`profile_lock`). Both read the lock of
  a killed launch and judge it stale. The first removes it and makes its own; the
  second removes *that* one and makes its own. The error message says a profile is
  "already in use or locked", and a test asserts it for a lock that is held.
  `LiveSessionsSurvive` and `LossHasACause` say what such a pair can cost:
  nothing where sessions are linked; overlapping work, or a copy of a file that is
  being written, where they are copied.

A candidate in the proxy is kept out by an assumption the code states. The task drops
the first request it reads after a failed first handshake, as the one the
reported error was about. A comment at `src/proxy.rs:1056` says the client
sends it during the handshake. The constant `Early` is that assumption; with
`Early = FALSE`, `NobodyWaitsInVain` is violated at `src/proxy.rs:1123`.

Two ways to lose a login are how the code behaves, and no document says
otherwise: a refresh in flight overwrites a login or brings back a deleted one,
and an answer of the provider that never reaches the file makes the stored
refresh token useless. The properties name the exception (`lost`).

Some behaviours met while modelling are worth a look, though no run is about
them, because no document says otherwise or the property states the exception:

* `src/crates/ai-fence-model-metadata/src/lib.rs:466` says an incompatible harness is
  never forwarded to setup. The built-in advice does not look at the protocol for
  Qwen (`qwen-code` on Responses and Messages) and for OpenAI models (native on
  Messages). `GuidanceFits` names those two.
* Two model ids with one stem share a Junie file; the later route overwrites the
  earlier one (`src/agent_launcher.rs:2230`).
* `copilot-cli` as the command of an automatic call ends up as the first argument
  of `copilot` too (`:281`).
* Files of pi, Junie and Claude that a reused home has from an earlier launch stay
  there when the next launch does not write them.
* A Claude template whose `env` is no table gets no base URL (`:1803`); `PinIsServed`
  names the case.
* Except by OpenClaw, a home that does not exist yet below a link is compared as written
  (`normalize_path_lexical`, `src/agent_launcher.rs:1055`), so a link to the user's
  own directory is not noticed before the directory is there.
* `fs::copy` truncates the saved session before it fills it
  (`src/agent_launcher.rs:1014`): a copy out that fails or is killed in between cuts it off, with
  no other launch around. `LossHasACause` names the case.
* A turn that the fence ends with a terminal `error` event or `response.incomplete` stays
  in flight for the task (`src/proxy.rs:1652-1669`). If the connection then closes before the next
  request is sent, the loss of that turn is reported (1252-1260, 1293-1302) to a client
  that waits for nothing, or that has just begun another turn. `OwnAnswer` names the
  case; `NobodyWaitsInVain` holds in spite of it.
* A connection in which a step failed goes on for up to 5 s (`assets/codex_desktop.py:1430-1434`).
  If attaching a chat failed, the answer to a later turn still enters the chat in the
  books (958-960) without its record, and another adapter can then have it too.
  `ThreadsAreExclusive` is about the others (`Sound`), and says of such a connection that
  it is not on the record of a chat another one has.
* Whether a set of the root alone leaves out the launch's directory is asked once
  (`src/workspace_snapshot.rs:434-441`), and only recursive sets compare the nested
  subvolumes again (`src/workspace_snapshot/sets.rs:118-126`): a subvolume made in between is not in the
  set the agent is told of. `LaunchIsCovered` names the case.
* A prune validates all it has planned (`src/workspace_snapshot/sets.rs:292-318`) and then deletes (319-330): a
  snapshot made writable in between is deleted, although the store says writable
  workspaces never are. `PruneSpares` names the case.

## 6. What is not modelled

* Components marked `not_modelled` in `PROJECT.json`, with the reason there: desktop
  install, update and uninstall, the authentication bridge, the command-line
  entry points, the gateway client, contract types, scripts.
* In the launcher: the text of helpers, catalogue entries, prompts and prices;
  OpenClaw's gateway configuration, arguments and environment; the Windows
  PATH and the WSL dispatch; the metadata file of a profile and the transient
  databases of Codex that a copy removes.
* In `ShellBlocks`: that the encoding of a profile and its byte order mark survive an
  installation is no property.
* In the profile lock: a pid that is used again, which makes a stale lock look
  held, and Windows, where no lock is ever judged stale (`:697`).
* In the checkpoints: the Btrfs calls themselves, which succeed or fail; a subvolume that is
  moved away and put back between two looks.
* In the registry: listing, diffing and doctor output, which change nothing; the hidden
  commands `_attach` and `_release` (`src/workspace/command.rs` 473-531), by which the desktop
  adapter attaches, tracks a child and releases. They make the calls that are modelled, for the
  process that started them, and that process is the actor of the actions.
* In the adapter's lifecycle: `thread/fork` and `thread/shellCommand`, which `request` takes the
  way of a start and a turn (906-958). The reconnection treats a shell command differently from a
  turn, and `DesktopReconnect` models that. The contents of a checkpoint.
* In the proxy: a fence that vanishes without closing the connection (TCP
  notices it later than the model does), pipelined requests, which Codex does
  not send, transformation of bodies, and the methods of authentication that
  neither refresh nor retry. `Die` also stands for a client that disconnects
  and thereby cancels its handler.
* In the credentials: the device authorization dialogue, one sequential
  conversation that ends in `Login`, and the Windows branch of the atomic write.

## 7. Plan

What is left, the most consequential first:

1. **Desktop install and update** (`assets/codex_desktop_updates.py`): setup,
   update, activation and uninstall over one `settings.json` with its install and
   lifecycle locks; composed with the settings of `DesktopReconnect`.
2. **Authentication bridge** (`assets/codex_desktop_auth.py`): three threads, the
   current login, pending calls with a timeout and late answers.
3. **The launch as a whole**: workspace lease, checkpoint, profile, configuration
   and proxy in the order `launch` calls them, from the modules above.
