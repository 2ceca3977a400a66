# Octowright in TLA+

Octowright is an MCP server that drives browsers through Playwright. A client
(an editor or an agent) starts a *follower*, a small stdio process, which
bridges its calls over HTTP to one *leader* daemon per machine. The leader holds
the browser sessions of every client, serves a dashboard, records what sessions
do, and closes or recovers them.

This directory holds TLA+ modules for the parts of it where order, failure and
time decide whether the program is right, the TLC configurations that check
them, and TLAPS proofs about all of them. All paths below are relative to
`src/octowright/` of the repository unless they begin with `docs/`.

```
tlc -workers 2 -config Gate.cfg MCOperationGate.tla     # one run
tlapm SessionCloseProofs.tla                            # the proofs about gate and close
```

`PROJECT.json` lists the runs with their properties, the source lines of every
definition (`map`), a mutation of the code each property detects (`mutants`),
the hazards, and the disagreements found between the code and what it says of
itself (`findings`).

## 1. The system

### Components, their state and their operations

| Component | Source | State | Operations | Here |
|---|---|---|---|---|
| Operation gate | `session/operation/gate/` | gate state, FIFO of tickets, owner task and depth, close reservation and its outcome future, cancel bookkeeping | `operation`, `reserve_close`, `close_operation`, `complete_close`, `mark_closed_external`, `enforce_active_timeout` | `OperationGate` |
| Session close | `browser_pool/lifecycle.py`, `close_helpers.py`, `relaunch.py`, `listeners.py` | `_sessions`, `_closing_sessions`, one coordinator task per close, its shared outcome | close, capture-and-close, relaunch/handoff, external close | `SessionClose` |
| Idempotency cache | `server/_idempotency.py` | an ordered dict of slots with clocks | dispatch of a keyed tool call, producer task, eviction | `IdempotencyCache` |
| Follower bridge | `proxy_supervisor.py`, `proxy_intake.py`, `proxy_runtime.py` | queue of frames, calls in flight with deadline, key, stamp and attempts, published writer | accept, forward, withdraw, expire, reset, replay, resume | `BridgeDelivery` |
| Registry, roster, shutdown | `browser_pool/pool.py`, `roster.py`, `lifecycle.py` | the two session registries, the manifest's rows | launch, close, close all, shut down | `SessionRegistry` |
| Launch pipeline | `browser_pool/launch_*.py`, `pool.py`, `driver_health.py` | the half-built session, the shared driver's handle | open, judge, reset and retry, publish, roll back | `SessionRegistry` |
| Keep-id driver relaunch | `browser_pool/driver_relaunch.py`, `replacement.py` | which session a client-facing id means | replace the sessions of a dead driver under their old ids | `SessionRegistry` |
| Crash recovery | `browser_pool/crash_recovery.py`, `listeners.py` | the list of pages, recovery budget and claims per session | claim, replace the page, give up | `CrashRecovery` |
| Leader election | `cli/_leader_election.py`, `singleton.py`, `cli/serve.py`, `daemonize.py`, `cli/restart.py` | lockfile, election flock, canonical port | elect, spawn, take over, restart, remove the lock | `LeaderElection` |
| Scenario pool | `scenarios_pool.py`, `browser_pool/roster.py` | live scenarios and their participants | start and roll back, cancel, stop | `ScenarioPool` |
| Session manifest | `session_manifest.py`, `housekeeping.py` | a JSON file shared by processes | read-modify-write under a lock, prune | `SessionManifest`; the ceiling sweep is in `OperationGate` and `SessionClose` |
| MCP sessions of followers | `bridge_state.py`, `housekeeping.py`, `http/mcp_session_tracker.py`, `http/mcp_flap_guard.py` | the leader's table of sessions, who was last seen, a JSON file in which followers say which session they have | connect, snapshot and retry, reap the dead, evict over the cap | `FollowerSessions`; the rate limit of new sessions is not modelled |
| Screencast | `session/screencast.py`, `http/routes/screencast.py` | the registry of managers; per manager the viewers, the encoder and its page, the subscription | first viewer starts, last one stops, rebind, terminate | `Screencast` |
| Recorder, captures, macros, sessions' page operations, tool layer | `recorder.py`, `macros/`, `session/`, `server/` | files, Playwright objects | I/O and sequential interpretation | not modelled: no state for a checker; what matters of them is the lease they take |
| Redaction, linting, policies, CLI, plugins, exports | `macros/lint.py`, `ssrf*.py`, `cli/`, `plugins/` ... | none or files | text processing and command-line I/O | not modelled |

### How they interact

* A client's frame goes stdin -> `LocalIntake` -> `BridgeSupervisor` -> HTTP ->
  leader. The bridge adds an idempotency key to a `tools/call`; the leader's
  cache wraps every tool with it.
* A tool calls the pool, and the pool's session calls Playwright inside a lease
  of the session's gate. Everything in the leader shares one asyncio loop: code
  between two awaits is atomic, and everything else interleaves.
* A close is asked of the pool, becomes the last ticket of the gate, and is
  carried out by a detached coordinator that several requesters may wait for.
* Playwright calls back synchronously when a browser dies; housekeeping calls
  the gate's ceiling from a timer.
* All sessions ride on one Playwright driver. When it dies, the launch that
  finds it dead resets it: every registered session is evicted at once, without
  the registry's lock, and reopened in the background if so configured.
* Leader and follower are processes. They share the lockfile, which names the
  leader, the election lock, and the file in which followers record their sessions.
  Daemons share the manifest.
* A screencast's viewers are websocket tasks of the leader; they take the session's
  lease and, inside it, the manager's lock. Page operations that hold the lease move
  the encoder, and the event bus tells its watcher of recoveries and closes.

### What is hard

* **Concurrency in one loop.** A lease's clean-up runs in a shielded task: a
  cancellation can land before, during and after it. A task may be granted the
  gate and give up before it resumes. A close waits behind an operation that the
  ceiling then breaks.
* **Failure halfway.** Preparation, teardown and bookkeeping of a close each fail
  on their own. A handler may raise after it has committed.
* **Processes.** A leader dies with calls in flight and is replaced by one with
  no memory of them. A follower is frozen by its client for minutes.
* **Races for one answer.** Response, deadline, reset and cancellation of a call.
* **Ids.** A reopening takes over the id of the session it replaces while a
  coordinator of the old one is still at work and its own browser may be dead.
* **Elections.** Probe, lock, spawn, bind and lockfile are separate steps of
  separate processes, each of which may be killed.
* **Time.** Queue timeouts, deadlines that progress pushes out, results that
  expire, a window in which a re-send must still find them.

### What makes each component correct

* Gate: one task at a time in a session; first come, first served; nobody
  forgotten; close is last and always ends; a cancellation by the ceiling and
  one by the client are told apart.
* Close: one teardown however many ask; nobody is told of success before it; no
  session falls out of both registries; everyone is answered.
* Cache: a key runs once while its caller may still re-send it.
* Registry: an id names one session; a browser that runs can be closed; what is
  listed is alive or about to leave; nothing waits for ever.
* Recovery: one recovery per crash, in the crashed page's slot, that ends and says how.
* Election: one leader, and the one everybody finds; every client is served.
* Scenarios: whole or gone. Manifest: no transaction undoes another.
* Screencast: one encoder, on the active page, and nothing left behind.
* Followers: no live follower's registration is lost; what is over the cap is shed.
* Bridge: one answer per request; a handler runs at most once over all
  deliveries; a call said not to have been forwarded was not; nothing is left
  waiting on a session that never got it.

## 2. The modules

```
LeaseLine  <- refined by -  OperationGate  <- extended by -  SessionClose
RunOnce    <- refined by -  IdempotencyCache
   its promise is the leader's half of      BridgeDelivery
LeaderElection     how the leaders come and go that BridgeDelivery elects at any time
SessionRegistry    many sessions, with SessionClose's coordinator in four steps
CrashRecovery      the pages of one session, under the gate's lease
ScenarioPool       groups of sessions
SessionManifest    the file in which the registry's rows are kept
Screencast         the preview of one session, over a gate that is LeaseLine's line
FollowerSessions   the leader's side of the sessions that BridgeDelivery connects
```

Each `MC...` module extends one of these for TLC (symmetry sets, tick values), and
each `...Proofs` module extends one or two of them with theorems (section 4).
Definitions named "Mutant of X" change X as a bug in the code might. No
specification uses them.

### OperationGate

One session's gate. `Tasks` are the asyncio tasks that call `operation()`, and
`Closer` is the close ticket together with the task that carries out the close.
The locked sections of the code never await, so each is one action:

| Code (`gate/core.py`, `close.py`, `ceiling.py`) | Actions |
|---|---|
| `_acquire`: enqueue, the await of `ready`, resumption, timeout, cancellation | `Acquire`, `Resume`, `QueueTimeout`, `GiveUp` |
| `_cleanup_waiter` in its shielded task, and the caller's return from it | `Cleanup`, `Leave` |
| a nested `operation()` of the owner | `Reenter` |
| the body's end, or its cancellation | `BodyExit`, `BodyCancelled` |
| `_release` in its shielded task, and the frames above | `Release`, `Unwind` |
| `_grant_next_locked` (part of each of the above) | operator `GrantNext` |
| `reserve_close`, `mark_closed_external` | `ReserveClose`, `AcceptExternalClose` |
| `close_operation`, `_release_close`, `complete_close` / `fail_close` | `StartClose` ... `ResolveClose` |
| the lease outliving the ceiling, `enforce_active_timeout` | `Tick`, `Ceiling` |
| a client cancelling a task | `Cancel` |

A lease is a stack of frames (`frames`), the gate's `depth` counts re-entries,
`cancels` is `Task.cancelling()`, `pending` a `CancelledError` that is due when
the task next resumes. `blame` is a history variable: who has cancelled the call.

Left out: the gate-breaking branches for a release by a stranger and for a
closer without its reservation (unreachable: `MutualExclusion`,
`NoPhantomOwner`), and the retained-reservation branch of
`reserve_external_teardown`. `control_update` changes nothing of the gate.

`LeaseLine` is what the gate promises: a line in which the head is served, that
the close joins last and shuts behind itself. `ServesInLine` maps the gate to it:
the owner (or the granted close) followed by the waiters.

### SessionClose

Extends the gate with one session's way out of the pool. Requesters are calls of
three kinds: a close, a capture-and-close (`compound`), and a relaunch, which
falls back on an earlier snapshot when it cannot close. `_sessions_lock` is
held over one await and so is a state (`Locked`). The detached coordinator's
program counter is `cstep`: identity removed, preparation, teardown, publication,
resolution, eviction, each of which may fail or be cancelled. `External` is the
Playwright callback of a dying browser, synchronous and without the lock. Each
coordinator step is one of the gate's close steps, or leaves the gate alone.

Left out: failures of the bookkeeping itself (a log handler that raises), the
"no running loop" branch of the callback, other sessions that hold
`_sessions_lock`, and the second identity of a keep-id relaunch.

### IdempotencyCache and RunOnce

One pass of the wrapper's loop runs under `_lock` and never awaits, so it is one
action `Dispatch`, with the alternatives `Hit`, `Join`, `Claim` and `Refuse`.
Every pass first evicts what has expired (`Kept`), then looks up the key. The dict's
order is a relation on its entries (`order`): a touch puts a key behind all others
(`Last`), and `Oldest` is the first that may go.
`Finish` is the producer task's end (a result, one too large to keep, an
exception), `GiveUp` the wait that ran out, `Cancel` the teardown of a caller,
which the shielded producer survives. Time is `Tick`: the three clocks count up
to the value at which they stop mattering. A caller that finished may call again
with any key, so two callers stand for any sequence of calls of which two are
under way.

`RunOnce` is the contract: per key, *fresh* -> *running* -> *kept* -> *fresh*.
`kept` lasts for the resume window, and an implementation may keep longer. It is
stated through the history clock `since`, which measures time from the end of the
last run whether or not the cache remembers it, so a cache that evicts too early
breaks the refinement.

Left out: the kill switch, calls without a key and nested calls (they run inline
with no slot), slots without a task (only tests make one), and `_enforce_bound`,
which never has anything to evict (`WithinBound`).

### BridgeDelivery

The whole path of a request. The tasks of the code are the sets of actions:

| Task | Actions |
|---|---|
| stdin reader (`LocalIntake.accept`, `_withdraw`) | `Send`, `Cancel` |
| sender (`_drain`, `forward_one_local_message`) | `Drain`, `WriterAppears`, `WaitRunsOut` |
| `_remote_supervisor` | `Dial`, `Stamp`, `Handshake`, `Resume`, `Publish`, `EndSession` |
| remote reader | `Read`, `Progress` |
| `watch_deadlines` | `Deadline`, `Sweep`, `SweepOn` |
| leaders | `Elect`, `Die`, `Handle`, `Finish`, `Forget` |
| network | `Break`, `Lose` |

The lockfile is read at three places of one connect (URL, token, identity).
`Dial` takes the first two together, since a leader refuses another's token, and
`Stamp` is the third. A request on a session that has ended may still arrive
(`Handle`) or not (`Lose`); a response reaches the bridge only on the session
that asked for it.

A leader is elected at any time, also while another is up and goes on serving. If
that happens between the two looks of one connect (`moved`), the stamp names another
leader than the session's, and a call sent there (`misled`) may run twice: finding 10.
The properties except these connections and calls, and nothing else.

One constant is an assumption on the surroundings. With `Timely` TRUE a slot is
not forgotten while its call is in flight: this is the promise of `RunOnce`
for a bridge that re-sends within the window. `BridgeLateResume.cfg` drops it, and fails.

A failed send, or a session's end, answers all calls that cannot be sent again
in one step (`FailOrMark`). The code awaits between those answers, but marks each
call as answered before it writes, and re-checks the mark before the next, so
whatever happens in between could as well have happened first. Sending is one
step as well. `delivered` then says that the frame was handed to the transport,
not that a leader has it.

Left out: notifications, pings, the contents of the handshake, the answers given
before a leader is elected, the inline leader, and the follower's exit when its
leader is gone for good.

### LeaderElection

Processes are clients (`octowright serve`), daemon slots and an operator who runs
`octowright restart`. A step is what another process can see of it: a probe, an
attempt at the election lock, a bind, a write or an unlink of the lockfile.

| Code | Actions |
|---|---|
| `elect_leader`, `_elect_under_lock`, `_adopt_canonical_leader`, `_respawn_if_leader_gone` | `FirstProbe`, `AcquireElection`, `ElectionTimesOut`, `Recheck`, `ProbeCanonical`, `Adopt`, `Spawn`, `Await` |
| the follower's bridge, and its process | `BridgeEnds`, `Kill` |
| `_claim_port`, `on_bound`, `serve_app`, `_run_leader_phases` | `Bind`, `Publish`, `Serve`, `Stop`, `Crash` |
| `release_own_lock`, `remove_lock_if_owned` | `ReleaseSkipped`, `ReleaseLock`, `ReleaseCheck`, `ReleaseUnlink` |
| `restart` and its helpers | `AskRestart`, `RestartLocks` ... `RestartConfirms`, `KillRestart` |

Probes tell the truth except in an *upset*: a probe that times out on a healthy
leader, a wait that runs out although a leader is coming, a process killed in
the middle of an election. The code cannot exclude these and does not claim to.
`OneVisibleLeader` is claimed until the first of them; `ElectionsServe` holds
whatever happens. There are finitely many processes, so `_claim_port` finds a port.

Left out: the platforms' ways to lock, the check of a pid's command line before
it is signalled, the reaping of browsers, version mismatches, `--no-singleton`, and
whom else a restart stops: daemons for its port that the lockfile does not name
(`cli/restart.py:307`) and, with `--kill-followers`, followers.

### SessionRegistry

The pool over many sessions. A session is numbered by the id its launch gave it,
and `ident` is the id it goes by since a rekey. `_sessions_lock` is held over an
await in one place, the manifest's part of a rekey; that is `locked`, and an
action that takes the lock needs it free. Playwright's close callback does not.

| Code | Actions |
|---|---|
| `_launch_with_driver_retry`, `_ensure_pw`, `_launch_impl`, `_reset_driver` | `ClientLaunch`, `EnsureDriver`, `Opened`, `OpenFails`, `Judge`, `Reset` |
| `post_context_setup`, `_safe_manifest_record`, the first navigation, `cancel_cleanup_launch` | `Publish`, `Recorded`, `Navigated`, `LaunchCancelled` |
| `reserve_close_browser`, `_coordinate_close`, `close_helpers` | `RequestClose`, `CloseGranted`, `CloseRemoves`, `CloseTears`, `CloseEnds` |
| `_accept_external_close`, `accept_external_close_nowait` | `DeliverClose`, operator `Accept` |
| `_snapshot_and_evict`, `_relaunch_one`, `_finalize_id` | operator `DriverLost`; `Reopen`, `Finalize`, `Rekey` |
| `close_all`, `shutdown_pool` | `ShutdownBegins`, `ShutdownReserves`, `ShutdownWaits`, `ShutdownStops` |

A driver handle that a launch uses (`gen`) may be dead, discarded or replaced by
the time its verdict is known. A dead driver delivers no close events.

A close somebody asks for waits for the lease under which a launch records its row and
navigates (`Leased`). One that comes from outside does not: `Accept` starts its teardown
at once, and hurries a coordinator that was waiting (`Hurried`). Two history variables
name what comes of that. `overtaken` are sessions evicted while their row was being
recorded, and `stillborn` those whose browser had died, and been heard of, before they
were registered: `Publish` does not look again.

Left out: the launch limits, profile locks, what a replacement carries over,
exclusions of `close_all`, notifications, and the close with which a launch that is
cancelled after it has registered ends (it is like one a client asks for).

### CrashRecovery

One session's list of pages, the pages' crashes and their reports, which come
some time later, and the recoveries, which take the session's lease one at a
time (`lease`). The await points of `_replace_crashed_page` are the values of
`rec`: waiting for the lease, opening a page, loading it, closing the dead one.
Tabs open and close, the client switches and closes pages between recoveries, and
the session may be closed (`closing` is `asked`), the ceiling break its gate (`broken`)
or its browser go (`gone`) at any of them.

A recovery that is at work when the ceiling breaks the gate fails, and says so: the
cancellation reaches it inside a nested operation, which turns it into an error that
`_recover_owned` reports (`GateBreaks`). One that still waits for the lease is failed in
the queue (`Drop`), and a teardown that waits for no lease cancels one at work
(`Drained`). Of these two there is only a line in the log: their outcome is `dropped`,
and nobody is told.

Left out: incidents, screenshots, the navigation's own failures other than by a
crash or a close of the page (`_is_timeout` lets a slow load pass).

### ScenarioPool

One scenario. `at` is where `start()` awaits: the roster's gather, a plugin
launch, the closes after an error, the fixtures and macros, the roll-back.
`Cancel` cancels it there. `stop()` takes the scenario out of `_live` before its
first await and is shielded, so several may be asked for.

Left out: `remap_participant` (one synchronous step), and `run_macro`, `tail` and
`wait_for_sync`, which only read the participants.

### SessionManifest

Daemons die and are started, and their pids are used again. A close that was asked for
comes after the record of the row (`Close`), since it waits for the launch's lease; a
browser that goes does not wait (`ExternalClose`), and its removal may come first
(`overtaken`). A transaction is
queued in a thread, takes the lock and reads (`TakeLock`), and replaces the file
(`Write`), or gives up (`TimesOut`, `WriteFails`). A daemon that dies in between
releases the lock and leaves the file as it was. `Doomed` is what the boot prune
removes, with a process table that may not be readable.

Left out: a file that does not parse, lock files on Windows, `stale_entries`. The
rekey of a row is an action of `SessionRegistry`.

### Screencast

One session's preview: the endpoint's task of each viewer, one page operation at a
time, and the manager's watcher. The session's gate is a line of tasks (`line`),
which is what `LeaseLine` says a gate is, and the manager's `_lock` is taken inside
the lease. A viewer's end must work when there is no lease to be had any more, so
`RemoveRuns` has a way around it that holds the lock alone.

| Code | Actions |
|---|---|
| `acquire_viewer`, `add_viewer`, `_start_locked` | `Acquire`, `AddEnters`, `AddTimesOut`, `AddRuns`, `StartDone`, `StartFails` |
| the websocket's end, `_end_viewers`, a cancelled endpoint | `Disconnect`, `SeesEnd`, `Cancel` |
| `remove_viewer`, `_stop_locked`, the fallback after a close | `Remove`, `RemoveRuns`, `RemoveTimesOut`, `StopReturns`, `FallsThrough`, `FallsBack`, `FallbackStopped` |
| `release_viewer`, `_drop_empty_manager` | `Drop` |
| `rebind` (of the watcher and of `notify_active_page`) | `Rebind`, `RebindStopped`, `RebindStarted`, `RebindFails` |
| `_watch_recovery`, `terminate` | `HearsRecovery`, `HearsClose`, `Redelivered`, `Terminate`, `Terminated` |
| `switch_page`, `close_page`, a recovery's swap, a close, a dying browser | `SwitchPage`, `SwitchQuietly`, `RecoverPage`, `OpWorks`, `CloseAsked`, `CloseRuns`, `BrowserDies`, `ClosePublished` |

Left out: frames, their throttling and the queue; a gate broken by the ceiling; the bound
of a subscriber's queue of events, which holds 64 and drops the oldest
(`session_event_bus.py:36`), so that a watcher far behind could miss a recovery or the close;
the watcher's own wait for the lease running out; a manager that stays in the registry
under an id that a keep-id relaunch hands on; an encoder of a live page that cannot be
stopped.

### FollowerSessions

Followers in their connect loop, each with the snapshots it still has under way; the
file; the leader's table of sessions; housekeeping's third and fourth job. A
transaction takes the file's lock and reads (`Locks`, `RemoveLocks`) and replaces the
file (`Writes`, `RemoveWrites`), but housekeeping reads without the lock (`ReapBegins`).

| Code | Actions |
|---|---|
| `_remote_supervisor`, replay of the client's initialize | `Start`, `Connect`, `ConnectFails`, `ClientInitializes`, `Request`, `Reset`, `EndsCleanly` |
| a follower's exit | `Leaves` (it ends its session), `Killed` |
| `record_snapshot_async`, `record_snapshot`, `_retry_snapshot`, `_prune_dead_followers` | operator `Records`; `Locks`, `Writes`, `Skips`, `Wakes` |
| `_reap_dead_follower_sessions_once`, `remove_followers` | `ReapBegins`, `LooksAt`, `Reaped`, `AllLookedAt`, `RemoveLocks`, `RemoveWrites`, `RemoveSkipped` |
| `_enforce_mcp_session_cap_once`, `select_eviction_victims`, `_evict_sessions` | `ChooseVictims`, `EvictNext`, `Evicted`, `AllEvicted` |
| the tracker's TTL | `Forget` |

Left out: the leader's own death, with which its table goes; pids that are used again;
sessions whose server task crashes, which the SDK removes; the opt-in reaper of idle
sessions; the sweep of temporary files; a state file that does not parse; the rate limit.

`counted` is a history variable: how many sessions had been created when the table was
found over its cap. Whatever has a higher number came while the eviction was awaited.

## 3. The runs

| Run | Instance | Distinct states | Question |
|---|---|---|---|
| `gate` | 2 tasks + closer, 2 frames, 1 cancellation each | 530,000 | Is the gate a first-come line with one owner, whatever times out, is cancelled or broken? Is everyone answered? |
| `close` | 1 task, 2 requesters | 410,000 | Does one close run once, completely, and answer everyone? |
| `cache` | 2 callers, 3 keys, bound 2 | 213,000 | Does a key run once per re-send window? |
| `bridge` | a tool call and a plain request, 2 leaders, 3 sessions, 1 re-send, queue of 1 | 681,000 | One run, one answer, safe advice to retry, and nothing unanswered? |
| `election` | 2 clients, 2 daemons, 1 stop, 1 upset, 1 restart | 836,000 | One leader, the one that is found, and everybody served? |
| `registry` | 3 sessions of which clients launch 2, keep-id, 2 deaths or one and a shutdown | 1,132,000 | Does an id keep its browser, is what is listed there, does everything end? |
| `recovery` | 3 pages, budget 2 | 127,000 | One recovery per crash, in its slot, that ends, and that says how while the session is whole? |
| `scenario` | 3 browsers, 2 plugin participants, 2 stops, 1 cancellation | 52,000 | Whole or gone? |
| `manifest` | 2 sessions, 3 daemons (symmetric) | 302,000 | Does no transaction undo another? |
| `screencast` | 2 viewers, 3 pages, 2 page operations, 2 visits | 515,000 | One encoder, on the active page, nothing left behind, nobody left waiting? |
| `followers` | 2 followers, one that may connect before its client and one that takes a single snapshot, 3 sessions over a cap of 1, 2 snapshots, 1 retry, 1 refusal | 1,546,000 | Does no snapshot, prune or reaper undo another, and does an eviction shed what was over the cap? |
| `scenario_cancelled` | | | refutes a sentence of the repository (section 6) |

The type invariant of a module is the first conjunct of one of its invariants; only
those of the gate, which is a theorem, and of the cache stand alone.

A run's properties are grouped by what they promise: `LeaseHeld`, say, is
`MutualExclusion`, `NoPhantomOwner` and `DepthCountsFrames`, each defined and
explained above it in its module.

**Bounds.** Two tasks and a closer give a holder, a waiter and a close, which is
every pair of roles that meet in the gate. A third waiter adds only queue length,
and the proofs cover any number. Two frames tell the outermost release from an
inner one. One cancellation per task reaches each await; the ceiling adds its
own. The close needs two requesters to coalesce or collide, and one operation to
wait behind. The cache needs one caller more than a producer, one key more than
its bound; its ticks keep the order *window < TTL < patience* of the defaults
(45 s, 180 s, 630 s). The bridge needs two sessions to re-send and a third to
exhaust the attempts, two leaders for a replacement, two calls to have one behind
the other. `MaxSessions` stops `Dial`.
`CHECK_DEADLOCK FALSE` in the bridge's runs is for that: with all calls answered
and all sessions used, nothing is left to happen. The same goes for the modules
below: their processes, launches, pages and participants are used up.

The election needs two clients to race and a third process to find the result;
the two daemon slots are used again once nobody remembers their pids. One upset,
one stop and one restart give every pair of them with a race of clients. The
registry needs a lost session and a bystander, which clients launch, and a
replacement, which a reopening does; the two upsets are a driver or a browser, and then the
replacement or a shutdown. With a fourth session, for a second replacement, it was checked
once (4,272,000 states). A launch for which no slot is left fails, which the code does too.
Recovery needs the dead page, its replacement and a sibling, or a replacement
of the replacement. The scenario has a participant before and one behind whichever fails. The manifest
needs a session whose row another's transaction could undo, and three daemons: one
that died, one that has its pid, and one that prunes.

The preview needs one viewer that starts the encoder and one that joins it, outlives it or
comes when it has gone, hence two visits (which may also be one viewer's), and two page
operations, so that a recovery and a switch can pass each other; the third page is the one
that neither has shown. Of the followers one is the other's witness: it prunes the dead
rows of its neighbour while it writes
its own. Two snapshots with one retry are the least with which an old one can land
after a new one, and the other follower needs no second. Two sessions exceed a cap of one,
and the third comes while one of them is evicted. `FollowerCap.cfg` (one follower, five
sessions over a cap of two, with fairness, 57,000 states) checks the liveness beside it:
by `CapRestored` the sessions there are when the table is over its cap are at last cut down
to it. That the table is within its cap at some moment is not claimed, since a session may
be opened during each eviction.

**Fairness.** `OperationGate!Fairness` and `LoopSpec`: the event loop runs what is
ready, shielded tasks end, and housekeeping fires. No operation's body is assumed
to end, no client to call or cancel, and no queue timeout to be set. The ceiling
itself is opt-in (`OCTOWRIGHT_OPERATION_ACTIVE_TIMEOUT_SECONDS`): the liveness of
the gate is a statement about a daemon that has it on. `PoolFairSpec` adds
that the preparation's and the teardown's own Playwright calls end, and
`CloseWedged.cfg` shows what follows when they do not. The cache's fairness is on
the loop and on time, and none on handlers. The bridge's is on its tasks and
timers and on `Finish`, since the leader's heartbeat stops re-arming a deadline
after `HEARTBEAT_MAX_SECONDS`; there is none on the client, the network or the
leaders, so `CallAnswered` holds although every connection may break and no leader
may ever come back. In `LeaderElection` some process that can move does
(`WF_vars(Progress)`); stops, crashes, kills and restarts are not assumed, nor
assumed away. That is weak fairness of the whole, not of each process: it is
enough because no step of an election can be repeated for ever. A recovery's
awaits end (`WF_vars(RecoveryStep(r))`: Playwright answers or times out, and the
lease is not kept from it for ever, which is `EveryoneAnswered` of the gate), as do a
scenario's launches, closes and macros. In `Screencast` the loop runs what is ready, and
calls to Playwright are assumed to return only once the browser is gone; no client is
assumed to leave. In `FollowerSessions`, whose liveness is checked by configurations outside
`PROJECT.json`, housekeeping goes round (`WF` of its two jobs) and
a transaction that gets the lock ends; the lock is free again and again but need not stay
so, hence `SF_vars(RemoveLocks)`. Nothing is assumed of followers, their clients or time,
and a transaction is never made to fail. `SessionRegistry` states no fairness:
`NothingStuck` says that whenever something is unfinished some step of the pool
is enabled, and those steps are finitely many.

### Properties worth naming

* `ServesInLine` and `RunsOnce` are refinements: every step of the detailed module
  is a step of the abstract one, or none of it.
* `GenuineCancelSurvives` / `CeilingNeverBare`: the gate converts the ceiling's
  cancellation of a running body into an error of its own and leaves the client's
  alone, with both possibly pending, counted against a baseline taken at the grant.
* `TornUnlessBroken`, `LostRaceIsUnprepared`: what a requester may conclude from
  the error it was given.
* `RefusedMeansNotRun`, `RetryIsSafe`: the error texts that advise a retry are
  given only when nothing has run and nothing will.
* `NoLostBrowser`: no coordinator of an old session, no rekey and no reset takes an
  id from a browser that runs. `CloseEnds` pops the id without looking whose it is, and
  what makes that safe is that `Reopen` waits for the teardown: the mutant that does
  not wait breaks it.
* `RegistryIsTrue`: the row of the manifest is written under the lease, so a close that is
  asked for cannot remove it before it is there. One from outside can, which the property
  excepts (`overtaken`, finding 3).
* `ResetSparesTheLiving`: two launches that found the same driver dead do not both
  discard one; the second would evict what the first has reopened.
* `OneVisibleLeader`: rests on the second probe under the lock, on the lock being held
  until the daemon serves, and on a leader on its way out touching the lockfile only
  under that lock and only if it is named there.
* `RespawnLeavesLeader`: a follower that finds its leader gone exits only if another
  is up or coming.
* `SlotsKept`: agents address pages by index, so a recovery may not shift a sibling.
* `NothingLeftBehind`: an endpoint that is cancelled while it acquires is counted in
  `_pending_acquires`, or the manager it is about to join would be dropped under it.
* `ShowsActivePage`: four parties move the encoder (first viewer, switch, recovery's
  event, last viewer); whoever is last must find the page the session shows *now*.
* `EndReachesViewers`: a close takes the lease away for good, and yet every viewer and the
  manager must go.
* `RegistrationHolds`: a retry that lost the lock comes later than the snapshot after it,
  and `still_current` is asked again under the lock, so that it does not overwrite that one.
* `RowOutlivesSession`: the reaper terminates first and removes the row afterwards.
* `CapShed`: sessions that are terminated already count as well, and are taken out, and
  sessions that come during an eviction do not save those that were over the cap.
* `RecoveryEnds`: neither a close nor a broken gate leaves a recovery waiting or with the
  lease, and without either it ends with an event.
* `StampMissesOnlyMoves`: the identity is read at each connect, after the token, so that
  leaders that come, go or overlap at any other moment do no harm.
* `NoneStranded`: on a live session every call in flight is on its way, running or
  answered on that very session.

## 4. The proofs

Eight modules of theorems. `SessionCloseProofs` is about the gate and the close, which
runs through it, `LeaderProofs` about the election and the leader's cache,
`ScenarioAndManifestProofs` about the two it names, and each of the others about the
module it is named after. They hold for every value of the constants the named
assumptions allow: any number of tasks, sessions, calls, daemons, participants, viewers,
pages, followers, deaths.

| Module | Theorem | Statement |
|---|---|---|
| `SessionCloseProofs` | `TypeCorrect` | `Spec => []TypeOK` of the gate |
| | `GateInvariant` | `Spec => [](GateInv /\ GrantIsReady)` |
| | `LeaseIsExclusive`, `OwnerIsLive`, `DepthIsFrames`, `LeaseIsHeld` | `Spec => []LeaseHeld` and its three parts |
| | `VacantGateHasNoQueue` | `Spec => []NoLostWakeup` |
| | `NobodyBehindTheClose` | `Spec => []CloseIsLast` |
| | `CancelsAreAccounted` | `Spec => []CancelsAccounted` |
| | `TheCloseIsFinal` | `Spec => CloseIsFinal` |
| | `GateServesInLine` | `Spec => ServesInLine`: the gate implements `LeaseLine` |
| | `PoolInvariant` | `PoolSpec => []PoolInv` |
| | `ClosesRunOnce` | `PoolSpec => []ClosesAreRun` |
| | `OutcomesAreHonest` | `PoolSpec => []OutcomeIsHonest` |
| | `TeardownIsInTurn` | `PoolSpec => TeardownWaitsItsTurn` |
| | `PoolDrivesTheGate` | `PoolSpec => Spec` of the gate |
| `LeaderProofs` | `ElectionInvariant` | `ElectionSpec => []ElectionInv` |
| | `OneLeaderIsFound` | `ElectionSpec => []OneVisibleLeader` |
| | `RespawnsLeaveALeader` | `ElectionSpec => RespawnLeavesLeader` |
| | `CacheInvariant`, `CacheTypeCorrect` | `Spec => []CacheInv`, `Spec => []CacheTypeOK` of the cache |
| | `CacheRunsOnce` | `Spec => RunsOnce`: the cache implements `RunOnce` |
| | `CacheRefusesTheUnrun` | `Spec => RefusedMeansNotRun` |
| | `CacheKeepsItsContract` | `Spec => RunsAreKnown` |
| | `CacheWakesWaiters` | `Spec => []NobodySleepsOn`, the safety half of `WaitersServed` |
| `BridgeDeliveryProofs` | `BridgeInvariant`, `BridgeTypeCorrect` | `Spec => [](BridgeInv /\ RunInv)`, `Spec => []BridgeTypeOK` |
| | `BridgeAnswersOnce` | `Spec => []OneAnswer` |
| | `BridgeAccounts` | `Spec => []CallsAccounted` |
| | `StampsAreTrue` | `Spec => []StampMissesOnlyMoves` |
| | `CallsRunOnce` | `Timely`: `Spec => []OnceEach` |
| | `CancelledStaysSilent` | `Spec => CancelledIsSilent` |
| `SessionRegistryProofs` | `RegistryInvariant` | `Spec => []RegistryInv` |
| | `NoBrowserIsLost` | `Spec => []NoLostBrowser` |
| | `RegistryStaysTrue` | `Spec => []RegistryIsTrue` |
| | `ResetsSpareTheLiving` | `Spec => ResetSparesTheLiving` |
| `ScenarioAndManifestProofs` | `ScenarioInvariant`, `StartsAllOrNothing` | `ScenarioSpec => []ScenarioInv`, `ScenarioSpec => []AllOrNothing` |
| | `ManifestInvariant`, `RowsStayTrue` | `Spec => []ManifestInv`, `Spec => []RowsAreTrue` of the manifest |
| `CrashRecoveryProofs` | `RecoveryInvariant` | `Spec => []RecoveryInv` |
| | `CrashesRecoveredOnce` | `Spec => []EachCrashOneRecovery` |
| | `SlotsStay` | `Spec => SlotsKept` |
| `ScreencastProofs` | `ScreencastInvariant` | `Spec => []ScreencastInv` |
| | `NothingLeft` | `Spec => []NothingLeftBehind` |
| | `EncoderAlone` | `Spec => []OneEncoder` |
| | `ActivePageShown` | `Spec => []ShowsActivePage` |
| `FollowerSessionsProofs` | `FollowerInvariant` | `Spec => []FollowerInv` |
| | `RegistrationsHold` | `Spec => []RegistrationHolds` |
| | `RowsOutliveSessions` | `Spec => RowOutlivesSession` |
| | `CountInvariant`, `CapIsShed` | `Spec => []CountInv`, `Spec => []CapShed` |

Assumptions on the constants are those each module names (`CloserAssumption`,
`TimeAssumption`, `ProcessAssumption`, ...). One theorem has a hypothesis more: `Timely`
(results outlive the calls in flight; `CacheRunsOnce` is why within the window), and
`BridgeLateResume.cfg` shows what happens without it.

No property of interest is inductive alone. In each module TLC checked the inductive
invariant on the instance of the run before it was proved.

**Gate.** Mutual exclusion needs to know that
a granted ticket whose caller has not resumed already owns the gate
(`GrantedOwns`). A release may pass the grant on only because queued tickets are
pending, distinct and their callers still wait (`QueueShape`), or it would grant
the gate to somebody who is already gone. Whether the closer may own the gate
depends on how the state, the reservation and the coordinator's program counter
agree (`CloseShape`), and depth on where a task has frames (`FramesShape`).
`GateInv` is the conjunction. The argument is in three layers. `GrantNextKeeps`
shows once that a grant which ends a step re-establishes the lease invariants
when nobody else holds a lease, and `EnqueueKeeps`, `WithoutKeeps` and
`FailQueuedKeeps` do the same for the changes to the queue. `MoveKeeps` covers
the steps that move one task and leave the gate alone. `StepInv`, `CloseStepInv`
and `CeilingInv` then have one case per action. `GrantIsReady` says that the
closer's grant has a resolved future, which `BindClose` relies on.
`CancelsAreAccounted` rests on an invariant of its own, `CancelInv`: in a lease, the
cancellations beyond the baseline taken at the grant, the ceiling's own aside, are the
client's (`CountsCancels`), and a caller that waits undisturbed has had none of the
client's (`WaitsUncancelled`). `GateServesInLine` shows each action to be
a step of the line or a stutter; the mapping concatenates owner and queue, so its
lemmas are about appending to, cutting from and removing from sequences.

**Close.** `PoolInv` adds to `GateInv` where the coordinator is (`Placed`: its program
counter against the gate's), what the two registries say meanwhile (`Registries`), what
has been done at each step (`WorkDone`) and that an error in hand is one the work gives
(`ErrorIsTrue`, `VerdictIsFinal`). `PoolMovesGate` shows every step of the pool to be a
step of the gate or none of it, so the gate's invariant and theorems carry over.

**Cache.** The contract is kept because an entry's age *is* the time since its key's
run, and a key without an entry is past the window (`AgesAreTrue`). That an eviction may
always find its victim needs the order to be a well-order of the entries (`Ordered`),
through every touch and eviction; `WithinBound` then follows by counting.

**Bridge.** A call that is queued or waits for a writer was never handed to a leader
(`HandsDiffer`), and what was not is nowhere on the wire (`NowhereYet`); a call in any of
the bridge's hands is unanswered (`StillOpen`), and one that was cancelled or given up is
in none (`LeftAlone`). `NobodyStranded` follows
calls through a reconnect: those still to re-send and those under way on this session.
`RunInv` is about runs: a call without a key is sent once; with one, every frame of
it goes to the leader that its stamp names, whose slot remembers it, unless it was sent
on a connection that missed a change of the lockfile. That the stamp is right otherwise
(`StampAgrees`) is carried from the dialing: as long as nothing has `moved`, the leader that
was dialed is the one the lockfile names, or is dead.

**Election.** `Agreement` holds while the election is undisturbed: whoever is between the
second probe and the confirmation holds the lock, nobody is up while somebody is about to
spawn, a process that is coming up is awaited by whoever spawned it, and one that has published
is named by the lockfile. `ClientsWhole` says what a client that leads has been through.

**Registry.** An entry names a session that goes by its id, and a session goes by its own
id or that of a session whose reopening is over (`Ids`). A session is reopened once it is
out of the registry with no coordinator left (`Reopening`), so nobody goes by an id that a
coordinator of another session holds (`Closing`): this is why `CloseEnds` may pop the id
without looking. The resets are counted: a launch that judges its driver dead with no
restart since it began has a driver to judge, and what it discards is dead (`Drivers`,
`Launching`). `JoiningKeeps` covers the four steps that begin closes. A row names a session
that is registered or closing (`RowsNamed`) because a session whose row is being recorded is
still registered unless it was `overtaken`: a close that was asked for waits for the lease.

**Scenario, manifest.** The roll-back covers whatever the start has launched at each await
(`RollBackCovers`), and what a stop has taken out is left to that stop (`StopShape`). A
transaction's snapshot is the file for as long as it holds the lock (`SnapshotIsCurrent`),
and what each transaction may still do follows from where its session is in its life
(`JobsFollowLife`). With a browser that goes early the record and the removal of one row are
under way together; whichever is written last is what the file says, and `overtaken` is
exactly the order in which that is the record.

**Recovery.** A recovery is at work exactly while the lease is its own (`WorkInv`), so no
two are, and the page it replaces is its own or a replacement of its own that crashed. A
listed replacement that has not crashed belongs to that recovery (`FreshInv`), which is why
a crash that is left to it is not lost. The list names no page twice (`ListInv`); the lemmas
about it say what removing a page and taking a slot do to the others (`WithoutFacts`,
`SlotFacts`), and `SlotsKept` is read off them. `BudgetInv` bounds what the attempts spent
and those still in line can come to together. `DropInv`: only a session that closes, or
whose gate is broken, drops a recovery.

**Preview.** The line of the gate holds exactly the tasks that have asked, once, the close
last, and who works with the lease is its head (`LineInv`); the manager's lock is with whoever
starts or stops the encoder (`LockInv`). `EncoderInv` says what each of them knows there is:
a page operation or the watcher that moves the encoder has viewers, and a viewer that starts
it has the subscription. `ViewersInv` follows viewers from their count in `_pending_acquires`
to their removal, and says when the manager may be dropped; `cutShort`, a removal that was
cut short, is where section 6 has a finding. By `PageInv` a stale page is always in
somebody's hands: a switch, an event, or what the watcher has read.

**Followers.** A transaction holds the file's lock, and what it has read is what the
file still says of whoever lives (`LockInv`). The newest snapshot of a living follower is
written or under way (`NewestInv`): a retry asks under the lock whether it is still
the newest, and a lock that was refused no more often than a snapshot is retried loses none.
`PassInv` says of housekeeping's pass that a row it means to remove is of a dead
follower whose session is out of the table, or is the one being closed. That victims can
be chosen at all, in the order of their turns, is `SortedExists`, by least
counterexample, since the provers cannot do induction. `CountInv` is an invariant on top:
what is left of the counted sessions besides those still to be evicted is within the cap.
It holds at the choice because as many are chosen as there are too many, each once
(`VictimsFacts`), and afterwards because nothing that was counted comes back (`LeftShrinks`).

Only model-checked, and out of the prover's reach: liveness (`EveryoneAnswered`,
`ClosesEnd`, `WaitersServed`, `CallAnswered`, `ElectionsServe`, `StartsAndStopsEnd`,
`RecoveryEnds`, `EndReachesViewers`, and `CapRestored` of `FollowerCap.cfg`),
`NothingStuck`, which is stated with ENABLED, and induction over data, which is why the models have no recursion and where
an order or a count is needed it is by a least element or by cardinality.

## 5. What the code promises and the models assume

* The default queue timeout of operations is 300 s, and the close's ticket waits
  without one: only the ceiling frees it from an operation that hangs.
* A close still in the queue when the ceiling breaks its gate is never torn down.
  `gate/ceiling.py:147-153` says so, and `TornUnlessBroken` allows for it.
* At-most-once over a reconnect needs all of: the same leader process, the re-send
  inside the TTL, and (on a full cache) inside the 45 s window. The first is
  checked by the code (`RanElsewhere`), the other two are not.
* Two leaders may be up for a while after an upset of an election (a probe that times out
  on a healthy leader, a readiness budget that is too short). The bridge bears it except
  in the moment of finding 10.

## 6. Findings

Each of these is a configuration in which TLC shows a behaviour of the model that
a sentence of the repository rules out. The first is a run of `PROJECT.json`:

1. `scenario_cancelled` (`ScenarioCancelled.cfg`), `CancelLeavesNothing`: a cancelled
   `asyncio.gather` raises at its await, so `spawn_roster` never reaches the code that closes
   the siblings that did launch, and a cancelled start leaves them running.

The others are checked the same way, `tlc -config <cfg> MC<module>.tla`:

2. `RecoveryUnannounced.cfg`, `RecoveryAnnounced`: a recovery that waits for the lease
   when the ceiling breaks the gate is only logged (`browser_pool/crash_recovery.py:210`).
   The session is still there, and its client, who was told to wait, is told nothing more.
   `browser_pool/listeners.py:254-256`: "A SessionRecoveredEvent later reports the real
   outcome"; `docs/telemetry.md:180`: "WAIT for `browser_recovered`, don't relaunch".
3. `ManifestOvertaken.cfg`, `ClosedLeavesNoRow`: a browser that goes while its launch
   records the manifest row is torn down without waiting for that lease
   (`browser_pool/lifecycle.py:424`). If its removal is written first, the row comes back, and
   stays until the daemon is gone and another boots. A registry evicted under a launch's
   record leaves the same row (`overtaken` in `SessionRegistry`).
   `docs/architecture/MCP-SHARED-CONTRACT.md:397`: "Graceful closes and external browser
   evictions remove entries."
4. `BridgeLateResume.cfg`, `AtMostOnce`: a follower frozen for longer than the TTL
   re-sends a call whose result is gone (`proxy_supervisor.py:733`), and it runs twice;
   `defaults.py:345-346` rules it out.
5. `Registry.cfg` with `ReopenedOnce` as its only invariant: a reopened session is
   marked against being reopened once it has been launched, navigated and rekeyed
   (`browser_pool/driver_relaunch.py:367`). One that dies while it navigates is not
   marked yet and is reopened again; so may the next be, against `:23-25`.
6. `GateReentry.cfg`, `NoLeaseAfterBreak`: after the ceiling broke a gate, a nested
   operation of the same task still gets in: `gate/core.py:344` decides re-entry before
   it looks at the state. `gate/ceiling.py:112-113`: "A subsequent operation on this
   gate then fails fast".
7. `CloseRaced.cfg`, `LostRaceIsTornDown`: `gate/types.py:66-69`, "the browser is
   confirmed torn down either way", is said of an error that is also raised when the
   teardown failed (`browser_pool/lifecycle.py:313`).
8. `CloseReplaced.cfg`, `NoReplacementOverLiveBrowser`: a relaunch that waits for
   another close ignores how it ended (`browser_pool/relaunch.py:66`), and launches on
   the same profile after a close that was aborted before any teardown.
9. `CloseWedged.cfg`, `WedgedCloseIsCancelled`: `gate/ceiling.py:156-158` says that the
   ceiling reaches a close wedged in its teardown, but its sweep
   (`housekeeping.py:444`) walks a registry that the session has left by then.
10. `Bridge.cfg` with `StampIsLeader` as its only property, under `Spec`: if a leader is
   superseded between a connect's reading of the token and of the identity, the session's
   calls are stamped with the other's name; `proxy_runtime.py:537-538` says that "every call
   sent on this session is stamped with this leader". With `AtMostOnce` instead: such a call is
   re-sent to that other leader, whose cache does not have it, and runs twice;
   `docs/troubleshooting.md:232`: "side-effectful call runs at most once".
11. `Bridge.cfg` with `OnlyLateExpire` as its only property: the watchdog expires a call whose
   deadline progress has pushed out while it was writing another's error
   (`proxy_supervisor.py:667`; `:429-430`, "progress means the op is alive").
12. `ElectionErased.cfg`, `RestartErasesOnlyStopped`: `restart --no-start` takes no
    election lock (`cli/restart.py:612`), so a successor may publish itself between
    its look at the lockfile and its unlink. `singleton.py:429-430`: "The caller should hold the
    election lock so the check and the unlink cannot straddle a new write."
13. `Recovery.cfg` with 4 pages and `FailureStaysReported` as its only property: a recovery
    that succeeds clears `_crashed` of the whole session (`browser_pool/crash_recovery.py:249`),
    also when the recovery of another page, the one the session shows, has been given up. `:221-223`: "on
    failure leave ``_crashed`` set".
14. `ScreencastReverts.cfg`, `PreviewNeverMoves`: the preview's watcher reads the
    session's page and then waits for the lease (`session/screencast.py:427`). If a switch
    is ahead of it, `rebind` sets the session back to the page from before the switch, so
    the preview moves what it should follow (`:492-496`).
15. `ScreencastStranded.cfg`, `NoViewerStranded`: `remove_viewer` (`:264`) falls back on the
    lock when the session is closing or closed, but not when its wait for the lease runs
    out or its task is cancelled again; the viewer then stays, and with it the encoder and
    the manager. `:268-271`: "or this viewer is stranded in `self._viewers` forever".
16. `FollowerPruned.cfg`, `DeadFollowerReaped`: another follower's snapshot drops the row
    of a dead one (`bridge_state.py:562`) before the reaper has seen it, and with the row
    goes what `housekeeping.py:32-39` terminates the session by. The reaper itself
    may do the same: it removes by pid, also a row that is newer than the one it has read.
17. `FollowerUnrecorded.cfg`, `SessionIsRecorded`: a follower that connects before its client
    initializes takes its snapshot without a session id (`proxy_runtime.py:570`), and no
    other follows until it loses its connection; `housekeeping.py:32-33` says that the file
    carries the id of each.
18. `FollowerStale.cfg`, `SilentShedFirst`: victims are chosen once and evicted over several
    awaits (`housekeeping.py:414`); one that is heard of in between is still evicted, ahead of
    another that has gone silent (`http/mcp_flap_guard.py:36-38`).

Smaller ones without a configuration of their own: the recovery budget is looked at
when a recovery is queued and spent when it gets the lease, so several crashes queued
together exceed `CRASH_RECOVERY_MAX`; a browser that dies, and is heard of, after its
listeners are wired and before its session is registered leaves a session listed
that nothing will evict (`browser_pool/listeners.py:161-164` says that the listeners
see to that; `NoDeadSessionListed` excepts it as `stillborn`); on a broken gate the coordinator runs
the preparation although its ticket never owns the gate
(`browser_pool/lifecycle.py:63-66`); a gate closed by a dying browser keeps its
running lease, where `gate/ceiling.py:131-132` says that a closed gate has none;
and a ceiling cancellation that lands on a task granted but not yet resumed does
reach its caller as a bare `CancelledError` (`gate/core.py:553-554`), if the loop
stalls for the length of the ceiling in between.

## 7. The plan

1. *Done*: gate with its proofs, close, cache, bridge, election, registry, crash
   recovery, scenarios, manifest, screencast, followers' sessions.
2. The rate limiter's windows (`http/mcp_flap_guard.py`).
3. The dashboard's event stream (`http/routes/events.py`): its tail reads the log before
   it looks whether the session lives, so what is written in between may be missing from
   the frame that says `complete`.
4. The registry's steps of a close as a refinement of `SessionClose`'s, and the
   bridge over the election instead of over leaders that come and go at any time.

Proofs: every safety property that a run checks is a theorem but `NothingStuck`. What is left
is what the composition in item 4 would need, the two refinements between the modules.

## 8. Not modelled

The tool layer, macros, page operations, recorder, captures, exports, plugins,
personas and goldens are I/O and sequential interpretation over files and Playwright
objects. What they share with others is the session's lease, which is modelled. Linting,
redaction and text analysis are string functions without state. Request and origin policies
decide about contents, not about order. The command line and the doctor print.
