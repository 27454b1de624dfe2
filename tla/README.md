# TLA+ models of codex-switch: environments, sessions, processes and turns

codex-switch is a fork of the Codex command-line agent.  What it adds is the
`env_switch` tool: a conversation thread moves its tool calls between the host
and remote environments (an ssh host, a container, or a nesting of them) while
it runs, and threads of one process do so concurrently.  Remote work goes
through `codex-rs/exec-server`, a JSON-RPC server that runs processes for its
clients.  This directory models that path: who decides in which environment a
tool runs, who owns a session of the exec-server, what becomes of a call when
the transport goes away, what the holder of a remote process gets to see of its
output and its end, how a thread keeps track of the shell commands it has
running, and how the turns that issue all of this start, end and get in each
other's way.

All paths below are relative to `codex-rs/`.

## 1. Inventory

| part | state | operations | interacts with |
|---|---|---|---|
| environment registry (`exec-server/src/environment.rs`) | six maps, each with its own `RwLock`: registered environments, process-wide metadata, and per thread metadata, launcher, cursor and list of ids; all but the first capped at `MAX_ENV_METADATA_ENTRIES` | one setter and getter per map | written by `env_switch`, read by every environment-aware tool, `env_status` and thread spawning; shared by all threads |
| `env_switch` (`core/src/tools/handlers/env_switch.rs`) | locals of one call | absolute, relative (`extend`) and local switches | provisioning (two awaits), then six registry writes |
| environment resolution (`core/src/tools/handlers/mod.rs`) | the turn's frozen environment list | `resolve_tool_environment`, `environment_selections_with_default` | registry, thread tree |
| `env_status` (`.../env_status.rs`) | none | reports the default environment and its cwd | registry |
| exec-server sessions (`exec-server/src/server/session_registry.rs`) | registry of entries; per entry an attachment and a notification sender | attach / resume, detach, timed expiry | connections (`processor.rs`, `handler.rs`), processes |
| JSON-RPC client (`exec-server/src/rpc.rs`, `connection.rs`) | pending requests, disconnect watch, three queues | call, reader task, websocket task, drain | `ExecServerClient` |
| process client (`client.rs`, `remote_process.rs`) | per process: published sequence number, parked events, failure, wake channel | start, read, write, ordered publication, disconnect | JSON-RPC client, event log |
| process event log (`process.rs`) | bounded history and bounded broadcast channel | publish, subscribe, receive | process client; MCP transport (`rmcp-client/src/executor_process_transport.rs`) |
| unified exec (`core/src/unified_exec/`) | process store: entries and reserved ids, order of use; per process a state, a cancellation token and up to five tasks | `exec_command`, `write_stdin`, `terminate_process`, `terminate_all_processes`, pruning | tool runtime (aborts), process client, network approvals |
| session turns (`core/src/tasks/`, `core/src/session/`) | `active_turn`, the pending input of each turn, the mailbox | input, steering, mail, interrupt, idle turns, finishing | submission loop, extensions, guardian, the tasks |
| local processes (`local_process.rs`) | table of starting and running processes, retained output | start, read, write, signal, terminate, exit, close | sessions |
| relay, file systems, provisioning | streams, none, none | framing; stateless requests; shell scripts | JSON-RPC client |
| the rest of Codex (sampling, tool routing, app server, TUI, MCP protocol, rollout, policies, proxy, login) | | | uses environments only through the parts above |

What is hard here:

* A remote switch is six writes under six locks.  Another thread of the family
  may read between any two of them, and the entries of different threads meet
  in maps that evict an arbitrary entry when full.
* The resolver reads the cursor twice, and chooses among three sources of a
  cwd of different ages: the family's metadata, the frozen turn list and (for
  `env_status` and spawning) the process-wide metadata.
* A session outlives its connection.  Detach takes two locks one after the
  other, timers of earlier owners are still asleep when it is resumed, and a
  connection's task may be dropped in the middle of an `initialize`.
* Calls have no timeout.  The disconnect is announced on three channels (a
  watch, the event queue, the client's latch) that overtake one another and
  the responses still queued.
* The events of a process are numbered under a lock by three tasks and sent
  after it is released, so they arrive in any order; the client puts them back
  in order while calls, a dropped handle and the disconnect take away the route
  they come by.
* Output is kept three times, each time up to a limit: by the server, by the
  client's history and by its channel.  A consumer that falls behind must piece
  it together from replay, channel and reads that overlap.
* A command belongs to the call that started it, then to the store, and its end
  may be reported by either.  Ids are reserved before and released after, by
  number; any await in between may be the last because an interrupt drops the
  call's future there.
* Three actors start and abort turns and each takes several locked steps; the
  task that finishes takes steps of its own on the same `active_turn`, while the
  user steers input into it.

What makes each part correct:

* registry and `env_switch`: a thread's cursor belongs to it alone; a selected
  environment is registered and has a cwd; the base of a relative switch is the
  cursor; maps respect their cap; a switch takes effect at once or not at all;
* resolution: a tool runs in the environment and cwd its thread selected, and
  `env_status` says so;
* sessions: one owner at a time, kept until it closes; notifications go to the
  owner; an abandoned session is removed and its processes terminated;
* client: every call ends; an answer that arrived is delivered;
* processes: subscribers see each event once and in order, Closed or a single
  Failed ends the stream, and it does end (that Failed is last is not what the
  code does: section 5);
* output: a consumer takes chunks once and in order, misses only what was evicted
  before it looked (and what it passes over after a lag: section 5), and learns
  of the end;
* unified exec: the end of a command that is over is announced exactly once; the store keeps
  to its limit; a command that runs can be reached; an id is given back;
* turns: one runs at a time; each is reported once, as complete or aborted; what
  the user and other agents send is recorded, queued, refused or dropped with an
  aborted turn, and never just forgotten.

`PROJECT.json` lists every component and, under `hazards`, each place where
one of these can go wrong.

## 2. Modules and how they correspond to the code

| module | models |
|---|---|
| `EnvironmentManager` | the maps and their setters; one operator per method |
| `EnvSwitch` | `env_switch`, `resolve_tool_environment`, spawning and `env_status` for a family of threads on one manager |
| `EnvCursor` | abstract: a private cursor per thread that moves in one step |
| `SessionRegistry` | sessions, connections and expiry timers |
| `RpcClient` | concurrent calls, the websocket task, the reader task, the client's event reader |
| `ProcessStream` | one remote process: the server's tasks, the connection, the client's reader, reads and the handle |
| `ProcessEvents` | abstract: events in order, once each, and at most one Failed, which is the last event unless a read publishes it |
| `ProcessOutput` | what becomes of a process's output: retention, reads, history, channel and three kinds of consumer |
| `UnifiedExec` | the shell commands of one thread: calls, store, processes and their tasks |
| `TurnTasks` | the turns of one session |
| `MCEnvSwitch`, `MCUnifiedExec` | constants and symmetry for TLC; the other modules get theirs from the `.cfg` files |
| `EnvSwitch_proofs`, `SessionRegistry_proofs`, `RpcClient_proofs`, `ProcessStream_proofs`, `ProcessOutput_proofs`, `UnifiedExec_proofs`, `TurnTasks_proofs` | theorems, and for the last three the inductive invariants |

`EnvSwitch` extends `EnvironmentManager` and instantiates `EnvCursor`;
`ProcessStream` instantiates `ProcessEvents` with the server's log as what was
produced and the handle's event log as what was delivered.

### EnvironmentManager, EnvSwitch

A hash map is a total function with an explicit absent value; its key set is
`Keys`.  `MakeRoom` is the eviction that every setter repeats: a full map that
lacks the key loses *some* entry, because `HashMap` iteration order is
arbitrary.  A launcher is its sequence of hops and stands for its own id
(`RemoteLauncher::id` and `from_id` are inverses on validated hops).  The cwd
and shell stored as metadata are one value of `Cwds`.

`pc[t]` says where thread `t` stands.  Inside a thread, `env_switch` holds the
tool-call lock exclusively, so a thread does one thing at a time; any two locks
or awaits of different threads interleave.  A remote switch is `SwitchAbsolute`,
`SwitchExtendBase` or `SwitchExtend`, then `Provisioned` and `CwdResolved` (the
two awaits, where `SwitchFails` also covers interruption), then `SetMetadata`,
`SetThreadMetadata`, `Upsert`, `SetLauncher`, `SetLast`, `Record` in the code's
order.  A local switch is `SwitchLocal`, `ClearLauncher`, `SetLast`, `Record`.
Calls that are refused before any state changes (bad addressing, an external
sandbox, an invisible base) are guards.  `ResolveImplicit` and
`ResolveSecondRead` are the resolver's two reads; `Dispatch` is its decision;
`turn_environment_from_env_switch_metadata` the metadata lookup.  `StartRoot`
and `Spawn` freeze the list a new thread runs with.  `env_status` changes
nothing and is the operator `build_env_status_output`.

### SessionRegistry

A session is named after the connection that created it (ids are fresh UUIDs).
`lock` is the registry's mutex while `attach` holds it over several steps
(`ResumeFound`, `CheckActive`, `ResumeSetSender`, `ResumeAttach`); `detach`
does not take it and is two steps, `DetachEntry` and `DetachSender`, which
also spawns the timer.  `expires` is the deadline as far as anybody can tell:
none, ahead or passed.  `Disconnect` stands for every way out of
`run_connection`'s loop; it can drop an `initialize` that is waiting for the
shutdown of an expired session (`pc = "expired"`).  A session's processes are
abstracted to none, running or terminated.

### RpcClient

`incoming` is the connection's event queue, `events` the queue to
`ExecServerClient`, `watch` the `disconnected_rx` and `latch` the client's
recorded disconnect.  The websocket task sets the watch (`PeerCloses`) and then
queues the terminal event (`send_disconnected`).  The peer is external: it
answers a request at most once and sends notifications.  In `FaultySafety` it may
also send a malformed message or a request (`PeerMisbehaves`), either of which
ends the reader.  Queue capacities are not modelled: the queues only carry a
bounded number of messages here.

### ProcessStream, ProcessEvents

On the server `task` says where the two output tasks and the exit task stand.
Each numbers an event (`ReadChunk`, `watch_exit`, `maybe_emit_closed`: one
critical section each) and sends it in a later step, `Notify`.  `log` is the
entry's own event log.  `entry` is the place in the process table; `Cleanup` and
`Shutdown` remove it while tasks still run.  Output is a kind of event without
content.

The transport is abstracted from `RpcClient`: `queue` holds notifications on their
way, `link` goes `down` when the watch is set and is `ended` when the terminal
event is queued.  When it closes, any tail of the queue, and the answer to the
exec request, may be lost.

On the client `reader` is the one reader task.  `publish_ordered_event` is the
reorder buffer: its critical section (`Accepted`, `IsRun`, `Release`) decides which
events are released, `ReaderPublish` then publishes them one by one, and the
route goes (`ReaderRemove`) after Closed.  A disconnect is recorded
(`ReaderDisconnected`), the routes are taken (`take_all_sessions`), and the session
is failed in two steps, as `set_failure` decides under its lock and publishes after
it.  `Session::read` takes the same two steps in the caller's task when it finds
the transport closed.  `failures` records who published Failed, because it matters:
the reader has published everything that arrived by then, and `ProcessEvents`
allows nothing after its Failed nor that Failed after Closed; a read's comes when
it comes, and events may follow it (`FailEarly`).  `RemoteProcess::start` is `RegisterSession`, `ExecCall`,
`ExecReturn`, with `Unregister` on failure; its future may be dropped while it
waits (`CancelStart`).  A notification the client cannot parse does not occur: the
server here is the one in this repository.

### ProcessOutput

`ProcessStream` shows that events are published in the order of their numbers;
`ProcessOutput` starts from there (`Deliver` publishes the next one) and is about
limits, which `ProcessStream` does not have.  `log` is what the process did,
`output` what the server still retains (`Retain`), `sent` what the event log was
given, of which the first `evicted` have left the history (`HistoryStart`).  A
chunk is its size in bytes.  `consumer` says who reads: the MCP transport
(`subscribe`, `Receive`, `Lagged`), unified exec's output task (`Wake`), or a
caller with a byte budget.  All of them use `exec_read`, `TakeChunk` and
`FinishRead`; a page is the longest run of chunks after the cursor that fits the
budget, and at least one (`Page`).  `exec_read` evaluates the answer under the lock of the table and a
lost link may still lose it (`FailedRead`).  Two history variables hold what was
evicted before a consumer read or subscribed: `gone` what it had no other way to
get, `skipped` what a recovering transport would still have received from the
channel (`ToCome`) and discards because `recover_lagged_events` moves its cursor
past everything the server has numbered.

### UnifiedExec, MCUnifiedExec

A process is named after the call that started it.  `exec[c]` is where
`exec_command` stands between two awaits: id reserved (`opening`), process there
and alive (`insert`), stored with a pruned entry still to terminate (`prune`),
`collect`, then `release` (and, for a denied process, `fail` after the await of its
unregistration) or `refresh`.  `Abort` is the interrupt at any of these
awaits; where the code awaits nothing it has a guard that says so.  `os` is the
process itself, `has_exited` and `token` what the code knows of it: a local
process is asked, a remote one has to be observed by its output task, which
`terminate` stops.  `stream` is what that task can see of a remote process: the
server closes it some time after the exit, when no descendant holds a pipe any
more, or never; or the link is lost.  The exit alone does not cancel the token,
so the end of a command is due only when it is `Over`: told to end, gone if
local, closed or cut off if remote.  `Held` lists who has an `Arc` of the process; `DropProcess` is
its `Drop`.  `age` orders the processes by `last_used`: the most recent is 0.  History variables: `took`,
whose entry `terminate_process` removed, and `slipped`, which records two things
the code lets happen: an id handed out a second time, whose first owner may
still release it by number (`terminate_all_processes` clears reservations of calls
that have yet to store; a reuse after a proper release is recorded too, because a
poll may be on its way to release it once more), and a prune interrupted between removing an entry and
terminating its process.  `ReachableUnlessSlipped` says that nothing else loses a
process.

### TurnTasks

`slot` and `task` are `active_turn`; a slot stands for the `Arc` of a turn state,
which the code compares by pointer.  Slots and turns are recycled once nothing
refers to them, so the instance bounds those alive at a time and not those there
ever were: a turn, or a state for one, is made only while one is free.  `pc[a]` is where an actor (submission loop, extension, guardian)
stands between two locks of `active_turn`; `turn[t]` is where a task stands.
`given` and `held` are the input a new turn brings and the pending items it moves.
A hook may refuse any item and a failing turn its own input (`Record`); both
count as dropped, as does what goes with an aborted turn.  The extension's own
input is not an item.

`contended` is a history variable.  It becomes true when one actor starts a turn
while another is on its way to start one or takes the place the other had
reserved, or when a finishing task takes another's.  The code then really loses
turns (`turn_overwritten`), so the properties are about behaviours up to such a
moment and the constraint `Uncontended` explores nothing after it.

## 3. Runs

Below the cap means at least as many entries as threads and ids, the regime of
any real process (the code's cap is 1024).

| run | instance | shows |
|---|---|---|
| `env_family` | root and sub-agent, two switches each, one hop nested up to three times, two cwds, cap of two entries: below it for the threads' own maps, reached by the map of all environments | `CursorBacked`, `LauncherFollowsCursor`, `BaseRegistered`, `MetadataNeverMissing`, `StatusMatchesResolution`, `MapsWithinCap`, and `CursorSpec` (implements `EnvCursor`) |
| `env_torn_read` | root switching three times, a sub-agent resolving | violated: `ImplicitAnswersCurrentCwd` |
| `sessions` | three connections, fair | `OwnerKept`, `NotificationsStayHome`, `AbandonedSessionExpires` |
| `session_leak` | two connections | violated: `RemovedIsShutDown` |
| `rpc_calls` | three calls, well-behaved peer, fair | `NoStrandedCall`, `ResponsesWin`, `CallsEnd` |
| `process_stream` | one chunk of output, one concurrent read, fair | `RouteUntilEnd`, `NoOrphanRoute`, `StreamSpec` (implements `ProcessEvents`), `StreamEnds` |
| `failed_early` | one chunk of output, one read, fair | violated: `FailedIsLast` |
| `process_output` | two chunks of one to three bytes, retention and history of two bytes, a channel of one event, each kind of consumer, fair | `OnceInOrder`, `NothingLostAtEnd`, `ConsumerEnds` |
| `unified_exec` | two local commands, two ids, a store of one, one `write_stdin`, two operations | `OneEnd`, `WithinLimit`, `TerminateTakesOwn`, `ReachableUnlessSlipped`, `IdGivenBack` |
| `exec_ends` | one local and one remote command, one id, one operation, fair | `OneEnd`, `EveryBeginEnds` |
| `turns` | one user input, one mail that wakes the session, one idle turn, two interrupts, four turns alive, fair | `OneTerminalEvent`, `OneTurnRuns`, `NothingLost`, `InputSettled` |
| `turn_overwritten` | the same with one interrupt | violated: `NoTaskOverwritten` |

Every passing run also checks its module's type invariant, except `exec_ends`,
whose module has it checked by `unified_exec`.

**Bounds.**  `MaxSwitches` bounds switches per thread: two suffice to select,
re-select and leave an environment, three for the torn read, which needs a
stale entry and an away-and-back.  `MaxHops = 3` gives two relative switches one
upon the other and, with a cap of two, more environments than the process-wide
metadata holds, which evicts.  That a thread's own maps evict is beyond this
instance; `CapIsKept` and `BaseIsRegistered` are proved for every cap.  Two
cwds tell a stale one from a current one and are symmetric.  Three
connections are an owner, its successor and an intruder; three calls are one
answered, one drained and one late.  `MaxUnsolicited = 2` lets a notification
stand before and after a fault.  One chunk, the exit and the closing are three
events from up to three tasks, enough for every order of arrival; the read
races the reader to fail the session.

Two chunks against limits of one event and two bytes make each limit bite: a
chunk of three bytes evicts itself, two others evict one another, and the
transport lags at its second event.  A store of one process prunes at the second
command; `MaxOps` counts interrupts and operations of the user, and two of them
are what the two slips need.  Which of several processes is pruned, the order of
use and the protected ones, does not show in a store of one: it is only in the
proofs (`OldestExists`, `ToPruneListed`).  Process ids are symmetric.  Larger instances were
checked without being kept as runs: `UnifiedExec` with a remote command (4.7
million states), `TurnTasks` with two inputs (3.1 million).  The theorems of
section 4 have none of these bounds.

**Deadlock** is checked for the environment runs (a thread can always resolve).
It is not for the others: their connections, calls and the process are finitely
many, and a run ends when all have closed, returned or ended.

**Fairness.**  Weak fairness on the steps of a task that is ready to run: the
tokio runtime polls woken tasks.  Strong fairness on the expiry timers, which
compete for a tokio mutex; that mutex is first-in first-out, so a waiter is not
overtaken for ever.  It is stated once for all timers: each connection starts at
most one, so this is fairness to each of them.  No fairness on anything a peer,
a process, a user or the network does: nobody has to send, resume, answer,
print, exit, read or close.  In `UnifiedExec` there is none on `write_stdin` or the
user, on the drop of a process, its exit or its `StreamEnds`; if a remote process is
closed or the link lost, its output task learns of it, which is what `ProcessOutput`
shows (`ConsumerEnds`, under the same condition).  Weak fairness is stated once for
all calls and tasks (`Running`): each has finitely many steps, so that it is fairness
to each of them.
In `TurnTasks` weak fairness of a task's `Run` assumes that requests to the model
and hooks come to an end; a turn that is answered may or may not defer its mail.

## 4. Proofs

TLAPS proves, for all values of the constants:

* `EnvSwitch_proofs`
  * `TypeCorrect`: `Spec => []TypeOK`, at any cap.  `TInv` adds to the types what
    the locals of a call hold at each step (`CallTypes`).
  * Under `BelowCap` (finitely many threads and ids, at most `MaxEntries` of
    each): `CursorIsBacked`, `LauncherIsCursor`, `MetadataPresent`.  Below the cap `MakeRoom` is the identity
    (`MakeRoomBelowCap`).  The invariants are not inductive alone, because a
    switch establishes them one write at a time; `IInv` adds `CallProgress`,
    what each write of the switch in progress has already secured: metadata
    before registration, registration before the launcher, the launcher before
    the cursor, the cursor before the record.  It also fixes what the resolver
    found before its metadata lookup, so that the lookup cannot fail.
  * `CursorRefinement`: `Spec => Cursor!Spec` under the same assumption.  A switch
    takes effect when the thread's default changes: at the metadata write if it
    re-selects the environment the cursor is on, at the cursor write otherwise;
    every other step stutters (`StepRefines`).
  * At any cap: `BaseIsRegistered` and `CapIsKept`.  Registrations are never
    evicted, so it is enough that an environment is registered before its
    launcher is written (`RegInv`).  Sizes can only be compared for finite key
    sets, so `CapInv` adds finiteness; `InsertFits` is the lemma that making
    room and inserting keeps a map within its cap.
  * `StatusIsTrue`: below the cap, and if sub-agents have no sub-agents
    (`TwoGenerations`, what the default of `agent_max_depth` allows).  `FrozenInv`:
    a thread that did not start on the host has a parent with a cursor, and
    then that cursor is its default.  The assumption is needed: TLC has a
    counterexample with three generations, where the report falls back to
    metadata of the whole process and the resolver to the frozen list.
* `SessionRegistry_proofs`: `RegistryTypeCorrect`, `AttachedOwnsSession`,
  `NotificationsArePrivate`, for any number of connections.  `IInv` ties each
  connection's program counter to its entry (`ConnectionInv`) and each entry to
  its owner (`SessionInv`): inside `attach` the connection holds the lock and
  the session is still registered; an entry with an owner has no detached
  connection, so no sleeping timer can match it.
* `RpcClient_proofs`: `RpcTypeCorrect` for any peer (`FaultySafety`);
  `NoCallStranded` for one that keeps to the protocol (`Safety`).  The argument is `EndIsAnnounced`: the reader only ever
  ends on a terminal event, and the watch is down before that event is queued,
  so that after the drain every registration sees it.  `ResponseIsDelivered`
  again holds for any peer: requests are answered only after they were sent, and
  only the drain, after which nothing is read, fails one (`AnswerInv`).
* `ProcessStream_proofs`: `StreamTypeCorrect`, `RouteIsKept`, `NoRouteOrphaned` and
  `StreamRefinement` (`Safety => StreamSpec`), for any amount of output and any
  number of reads.  The type invariant already says that every event on its way
  is *genuine*: it carries the number under which the log has it.  `IInv` adds
  four parts.  `ServerInv`: the entry's counters agree with where its tasks
  stand, so that nothing is numbered after Closed.  `OrderInv`: published and
  released events together are a prefix of the log; the lemma `Released` shows
  that the reorder buffer extends it.  `FailInv`: whoever sets the failure is
  the only one to publish it, and `failures` says who it was; when the reader has
  published it, the reader is done.  `RouteInv`: the disconnect is recorded before
  the routes are taken, so no registration slips in behind, and a session whose
  Closed was published has no route left for the reader to fail.

* `ProcessOutput_proofs`: `TypeCorrect`, `TakenInOrder` and `AllTakenAtEnd`, for
  chunks of any size and any limits.  Neither property is inductive, because a
  consumer takes an answer chunk by chunk and moves its cursor at the end.
  `ReplyInv` says what is left of an answer: chunks between the cursor and
  `next_seq`.  `OrderInv` says what was taken lies before both.  `CoverInv` is the
  other half: every chunk up to the cursor, up to the position in the channel,
  or up to `next_seq` and not in the answer, was taken, gone before or skipped.
  `SentInv` and `LogInv` tie the channel to the process's log.  That a page ends
  where the budget does, and so has no holes, is the lemma `PageIsPrefix`; the
  number of bytes in it is never needed, only that the cut is somewhere.
* `UnifiedExec_proofs`: `TypeCorrect`, `EndReportedOnce`, `StoreBounded`,
  `TerminateConfined`, `BackgroundReachable`, `IdsReturned`, for any commands, ids,
  polls and limit.  `CallInv`, `EntryInv` and `ClientInv` say what belongs to a call at
  each await.  `AgeInv` makes `age` a strict order on started processes, without
  which a full store might find nothing to prune (`OldestExists`,
  `ToPruneListed`); with it, `LimitNext` shows that whoever inserts at the limit
  removes one.  `EndInv` says who is responsible for the end at each stage and
  that a cancelled token means the process is over.  `TookInv`: what `terminate_process`
  removes has exited and its call no longer uses it.  `ReleaseInv`: whoever takes an
  entry out for good has ended the process.  `ReachInv` and `IdInv` carry the last
  two properties through the states in which a call is still on its way.
* `TurnTasks_proofs`: `TypeCorrect`, `RunsAlone`, `EndReportedOnce`, `InputKept`.
  `ActorInv` and `TurnInv` hold always, contended or not: what an actor or a
  finishing task has in its hands.  `OwnInv` holds until contention: an actor on
  its way to start a turn has the place for itself (`StartInv`), a turn that runs
  is the installed one or has a canceller behind it, and finishes with a turn
  state of its own (`PlaceInv`), and an `ActiveTurn` without a task is somebody's
  (`SlotInv`).  `Undisturbed` and `GotoAlone` show that a step that does not
  contend leaves the others' places alone; from there each part has a lemma of
  its own, and `LostNext` follows every input from hand to hand.

The inductive invariants of the last three modules were model-checked before they
were proved: `UnifiedExec` on three instances, `TurnTasks` with and without the constraint (1.5
million states), `ProcessOutput` with three chunks (3.8 million states each for
two choices of limits).

Besides `BelowCap` and `TwoGenerations` the proofs assume only that the constants
are well formed, in one named `ASSUME` per module: bounds are natural numbers,
absent values are none of the present ones, a thread's parent is another thread
or none, the store protects fewer processes than it holds, and finitely many
turns and turn states are alive at a time.

Only model-checked: liveness (`AbandonedSessionExpires`, `CallsEnd`, `StreamEnds`,
`ConsumerEnds`, `EveryBeginEnds`, `InputSettled`), which needs fairness and is out
of the prover's reach.  Every invariant and every action property that a passing
run checks is also proved.

## 5. Findings

Each is a run that TLC ends with a counterexample (`PROJECT.json`, `findings`).

* `env_torn_read`: a parent that switches away and back between the resolver's two reads
  makes its sub-agent's call use the cwd frozen into the turn.
* `session_leak`: a connection closing at the wrong moment leaves the processes
  of an expired session running.
* `failed_early`: a read that finds the transport closed publishes Failed from its
  caller's task, before notifications that have arrived and that the reader task
  still publishes afterwards; the comments in `client.rs` (lines 591 and 869) leave
  the failure to the reader task to keep that order.
* `turn_overwritten`: a user's input and an extension's idle turn started at the same
  time end up in one `ActiveTurn`; the second task is installed over the first,
  which is aborted without an event, where the code asserts that there is none.

Met in `ProcessOutput` and excepted by `NothingLostAtEnd`: a transport that lags reads what
the server retains and takes `next_seq - 1` as its new cursor
(`rmcp-client/src/executor_process_transport.rs:285`).  Chunks the channel still holds
but the server has evicted are below that cursor, and it discards them.  The channel
holds 256 events of up to 8 KiB, the server 1 MiB, so the channel may well hold
more.  The docs (`exec-server/src/process.rs:148`, `executor_process_transport.rs:127`) say to
recover by reading and then to go on receiving; they do not say that nothing is lost.

Other behaviours met on the way are recorded as hazards in `PROJECT.json`, with a
note where no property covers them: the list a root thread freezes holds
environments of other threads, a malformed message ends the client's reader, an
id stays reserved when a command line cannot be built, a resume in the middle of a
detach leaves the new owner without notifications, the end of a remote command is
not announced while a descendant holds its output open, mail that arrives
while a turn finishes waits for the next one, and `env_status` may show a
sub-agent's sub-agent a cwd its calls do not run in.

## 6. Not modelled, and the plan

Not modelled: provisioning (shell scripts; only its failure matters),
configuration parsing, launcher quoting, file-system and HTTP requests (they
only pass the session gate), the stdio transport of the JSON-RPC connection
(`exec-server/src/connection.rs:232-321`: its writer is a task of its own and may announce
the disconnect while the reader still queues messages) and its child supervisor, the relay's framing and cryptography, and
presentation.  Environment-configured websocket environments and the manager's
lazily connected clients are left out of `EnvironmentManager`; tasks other than
regular turns (review, compaction, which refuse steering) out of `TurnTasks`;
output buffers, sandbox retries and result formatting out of `UnifiedExec`.

The repository is all of Codex, some 640,000 lines in 1,600 files, most of them
terminal user interface, protocol types, configuration, stores, provider clients
and tests of these.  The models cover the part that is the fork's own (switching
environments), what it stands on (the exec-server) and what drives it (turns and
commands), which is a small share of the lines.

Next, in this order:

1. Proofs of what is still only argued about between modules: that
   `ProcessOutput`'s `Deliver` is what `ProcessStream` publishes, and a refinement of
   an abstract turn queue by `TurnTasks`.
2. The table of `LocalProcess`: ids that are used again, starts that are dropped
   half way and block their id; composed with `SessionRegistry` in place of its
   abstract `processes`.
3. Turn environment updates and the environment badge; more than two
   generations; the relay's stream table.
