--------------------------- MODULE SessionRegistry ---------------------------
(***************************************************************************)
(* The browser pool over many sessions (browser_pool/): launches on one    *)
(* shared Playwright driver that may die under them, the reset that        *)
(* replaces it, the reopening of the sessions lost with it or with their   *)
(* browser, their ids, closes, the manifest of live sessions, shutdown.    *)
(*                                                                         *)
(* A session is named by the id it was launched with.  A reopening may     *)
(* take over the id of the session it replaces (OCTOWRIGHT_DRIVER_RELAUNCH *)
(* = keep-id).  One close is SessionClose's subject; here it has the steps *)
(* at which it touches what sessions share.                                *)
(***************************************************************************)
EXTENDS Integers, FiniteSets

CONSTANTS
    N,           \* bound: sessions ever launched
    Clients,     \* bound: those of them that clients ask for
    Mode,        \* OCTOWRIGHT_DRIVER_RELAUNCH
    MaxUpsets    \* bound: deaths of drivers and browsers, and a shutdown

Sessions == 1..N
None == 0
Handles == 1..(MaxUpsets + N + 1)

ASSUME RegistryAssumption ==
    /\ N \in Nat \ {0} /\ Clients \in Nat /\ MaxUpsets \in Nat
    /\ Mode \in {"off", "new-id", "keep-id"}

VARIABLES
    registry,  \* pool._sessions: the session each id names
    ident,     \* the id each session goes by
    rows,      \* ids the session manifest lists
    overtaken, \* history: sessions evicted while their rows were being recorded
    locked,    \* the lost session whose rekey holds _sessions_lock over an await
    closing,   \* pool._closing_sessions: the session each id is draining
    coords,    \* close coordinators: their id, session and phase
    launch,    \* how far each launch is
    gen,       \* the driver each launch uses, or takes for dead
    seen,      \* driver restarts when each launch began
    retried,   \* launches in their second attempt
    browser,   \* the browser process of each session
    stillborn, \* history: sessions registered after the last word on their end
    signal,    \* sessions whose close event Playwright has yet to deliver
    rel,       \* the reopening of each lost session
    reopens,   \* the lost session each launch replaces
    tagged,    \* sessions marked _auto_relaunched
    pw,        \* the driver handle in use
    alive,     \* drivers that run
    started,   \* drivers started
    restarts,  \* _driver_restarts
    upsets,    \* those so far
    shutdown,  \* the stage of shutdown_pool
    todo       \* the ids that stage has yet to deal with

pool == <<registry, ident, rows, overtaken, locked, closing, coords>>
launches == <<launch, gen, seen, retried>>
browsers == <<browser, signal, stillborn>>
relaunch == <<rel, reopens, tagged>>
driver == <<pw, alive, started, restarts>>
stop == <<shutdown, todo>>
vars == <<pool, launches, browsers, relaunch, driver, upsets, stop>>

RegistryTypeOK ==
    /\ registry \in [Sessions -> Sessions \cup {None}]
    /\ closing \in [Sessions -> Sessions \cup {None}]
    /\ ident \in [Sessions -> Sessions] /\ rows \subseteq Sessions
    /\ locked \in Sessions \cup {None}
    /\ coords \subseteq [id : Sessions, who : Sessions,
                         phase : {"waiting", "removing", "tearing", "popping"}]
    /\ launch \in [Sessions -> {"unborn", "starting", "opening", "erring", "resetting",
                                "wired", "recording", "navigating", "returned",
                                "failed"}]
    /\ gen \in [Sessions -> Handles \cup {None}] /\ seen \in [Sessions -> 0..MaxUpsets]
    /\ retried \subseteq Sessions /\ signal \subseteq Sessions /\ tagged \subseteq Sessions
    /\ overtaken \subseteq Sessions /\ stillborn \subseteq Sessions
    /\ browser \in [Sessions -> {"none", "open", "gone"}]
    /\ rel \in [Sessions -> {"none", "waiting", "launching", "rekeying", "over"}]
    /\ reopens \in [Sessions -> Sessions \cup {None}]
    /\ pw \in Handles \cup {None} /\ alive \subseteq 1..started /\ started \in Handles \cup {0}
    /\ restarts \in 0..MaxUpsets /\ upsets \in 0..MaxUpsets
    /\ shutdown \in {"up", "closing", "awaiting", "draining", "stopped"} /\ todo \subseteq Sessions

Init ==
    /\ registry = [i \in Sessions |-> None] /\ closing = [i \in Sessions |-> None]
    /\ ident = [s \in Sessions |-> s] /\ rows = {} /\ overtaken = {} /\ locked = None
    /\ coords = {}
    /\ launch = [s \in Sessions |-> "unborn"] /\ gen = [s \in Sessions |-> None]
    /\ seen = [s \in Sessions |-> 0] /\ retried = {} /\ signal = {} /\ tagged = {}
    /\ browser = [s \in Sessions |-> "none"] /\ stillborn = {}
    /\ rel = [s \in Sessions |-> "none"] /\ reopens = [s \in Sessions |-> None]
    /\ pw = None /\ alive = {} /\ started = 0 /\ restarts = 0 /\ upsets = 0
    /\ shutdown = "up" /\ todo = {}

Unlocked == locked = None
Goto(s, step) == launch' = [launch EXCEPT ![s] = step]

-----------------------------------------------------------------------------
(* Closing.                                                                *)

Coordinator(i, s, phase) == [id |-> i, who |-> s, phase |-> phase]
Advance(c, next) == coords' = (coords \ {c}) \cup {[c EXCEPT !.phase = next]}

(* The launch's lease: row and first navigation.                            *)
Leased(s) == launch[s] \in {"recording", "navigating"}

(* The close of a session in S tears down at once.                          *)
Hurried(c, S) ==
    IF c.who \in S /\ c.phase = "waiting" THEN [c EXCEPT !.phase = "removing"] ELSE c

(* accept_external_close_nowait, for sessions known by their ids: no lock,  *)
(* no await.  A close that already drains one keeps it; that one or a new   *)
(* one tears down without the session's lease.                              *)
Accept(S) ==
    LET new == {s \in S : closing[ident[s]] # s}
    IN /\ registry' = [i \in Sessions |-> IF registry[i] \in S THEN None ELSE registry[i]]
       /\ coords' = {Hurried(c, S) : c \in coords}
                    \cup {Coordinator(ident[s], s, "removing") : s \in new}
       /\ overtaken' = overtaken \cup {s \in S : launch[s] = "recording"}
       /\ closing' = [i \in Sessions |->
                         IF \E s \in new : ident[s] = i THEN CHOOSE s \in new : ident[s] = i
                         ELSE closing[i]]

(* reserve_close_browser.                                                   *)
Reserve(i) ==
    /\ closing' = [closing EXCEPT ![i] = registry[i]]
    /\ coords' = coords \cup {Coordinator(i, registry[i], "waiting")}

RequestClose(i) ==
    /\ Unlocked /\ shutdown = "up"
    /\ registry[i] # None /\ closing[i] = None
    /\ Reserve(i)
    /\ UNCHANGED <<registry, ident, rows, overtaken, locked, launches, browsers, relaunch, driver,
                   upsets, stop>>

(* Mutant of CloseGranted: the launch does not hold the lease it navigates  *)
(* and records its row under.                                               *)
CloseAtOnce(c) ==
    /\ c.phase = "waiting"
    /\ Advance(c, "removing")
    /\ UNCHANGED <<registry, ident, rows, overtaken, locked, closing, launches, browsers, relaunch,
                   driver, upsets, stop>>

(* _coordinate_close of a close someone asked for: it has its turn after    *)
(* the launch's lease.                                                      *)
CloseGranted(c) ==
    /\ c.phase = "waiting" /\ ~Leased(c.who)
    /\ Advance(c, "removing")
    /\ UNCHANGED <<registry, ident, rows, overtaken, locked, closing, launches, browsers, relaunch,
                   driver, upsets, stop>>

(* remove_active_identity: the id is given up if it still names the session.*)
CloseRemoves(c) ==
    /\ c.phase = "removing" /\ Unlocked
    /\ registry' = [registry EXCEPT ![c.id] = IF @ = c.who THEN None ELSE @]
    /\ Advance(c, "tearing")
    /\ UNCHANGED <<ident, rows, overtaken, locked, closing, launches, browsers, relaunch, driver,
                   upsets, stop>>

(* The teardown, after which the manifest forgets the id; a browser closed  *)
(* by it fires its close event as any other.                                *)
CloseTears(c) ==
    /\ c.phase = "tearing"
    /\ browser' = [browser EXCEPT ![c.who] = "gone"]
    /\ signal' = IF browser[c.who] = "open" THEN signal \cup {c.who} ELSE signal
    /\ rows' = rows \ {c.id}
    /\ Advance(c, "popping")
    /\ UNCHANGED <<registry, ident, overtaken, locked, closing, launches, stillborn, relaunch,
                   driver, upsets, stop>>

(* run_close_bookkeeping's end: the id is given up whoever it names.        *)
CloseEnds(c) ==
    /\ c.phase = "popping" /\ Unlocked
    /\ registry' = [registry EXCEPT ![c.id] = None]
    /\ closing' = [closing EXCEPT ![c.id] = IF @ = c.who THEN None ELSE @]
    /\ coords' = coords \ {c}
    /\ UNCHANGED <<ident, rows, overtaken, locked, launches, browsers, relaunch, driver, upsets,
                   stop>>

-----------------------------------------------------------------------------
(* Launching.                                                              *)

(* Ids are taken in order; when the bound leaves none, nothing is launched. *)
IsSlot(s) == launch[s] = "unborn" /\ \A t \in 1..(s - 1) : launch[t] # "unborn"
SlotLeft == \E s \in Sessions : launch[s] = "unborn"

Begin(s) ==
    /\ Goto(s, "starting")
    /\ seen' = [seen EXCEPT ![s] = restarts]
    /\ UNCHANGED <<gen, retried>>

ClientLaunch(s) ==
    /\ IsSlot(s) /\ shutdown = "up"
    /\ Cardinality({t \in Sessions : launch[t] # "unborn" /\ reopens[t] = None}) < Clients
    /\ Begin(s)
    /\ UNCHANGED <<pool, browsers, relaunch, driver, upsets, stop>>

(* _ensure_pw starts a driver when there is no handle.                      *)
EnsureDriver(s) ==
    /\ launch[s] = "starting"
    /\ Goto(s, "opening")
    /\ IF pw = None
       THEN /\ started' = started + 1
            /\ pw' = started' /\ alive' = alive \cup {started'}
       ELSE UNCHANGED <<pw, alive, started>>
    /\ gen' = [gen EXCEPT ![s] = pw']
    /\ UNCHANGED <<pool, seen, retried, browsers, relaunch, restarts, upsets, stop>>

(* The context is open and its listeners are wired.                         *)
Opened(s) ==
    /\ launch[s] = "opening" /\ gen[s] \in alive
    /\ Goto(s, "wired")
    /\ browser' = [browser EXCEPT ![s] = "open"]
    /\ UNCHANGED <<pool, gen, seen, retried, signal, stillborn, relaunch, driver, upsets, stop>>

(* The attempt fails with an error that reads like a dead driver, which a   *)
(* browser that exits while it is launched raises too.  A second attempt's  *)
(* error is the caller's.                                                   *)
OpenFails(s) ==
    /\ launch[s] = "opening"
    /\ Goto(s, IF s \in retried THEN "failed" ELSE "erring")
    /\ UNCHANGED <<pool, gen, seen, retried, browsers, relaunch, driver, upsets, stop>>

(* _launch_with_driver_retry.                                               *)
Judge(s) ==
    /\ launch[s] = "erring"
    /\ IF restarts # seen[s]
       THEN Goto(s, "starting") /\ retried' = retried \cup {s} /\ UNCHANGED gen
       ELSE /\ UNCHANGED retried
            /\ IF shutdown = "stopped" \/ pw \in alive
               THEN Goto(s, "failed") /\ UNCHANGED gen
               ELSE Goto(s, "resetting") /\ gen' = [gen EXCEPT ![s] = pw]
    /\ UNCHANGED <<pool, seen, browsers, relaunch, driver, upsets, stop>>

Live == {s \in Sessions : \E i \in Sessions : registry[i] = s}

(* on_driver_reset: every registered session is evicted, and reopened       *)
(* unless it is itself a reopening.                                         *)
DriverLost ==
    /\ pw' = None /\ restarts' = restarts + 1
    /\ alive' = alive \ {pw} /\ UNCHANGED started
    /\ Accept(Live)
    /\ rel' = [s \in Sessions |->
                  IF s \in Live \ tagged /\ Mode # "off" THEN "waiting" ELSE rel[s]]

(* Mutant of Reset: whatever driver is current is discarded.                *)
ResetAnyway(s) ==
    /\ launch[s] = "resetting"
    /\ DriverLost
    /\ Goto(s, "starting") /\ retried' = retried \cup {s}
    /\ UNCHANGED <<ident, rows, locked, gen, seen, browsers, reopens, tagged, upsets, stop>>

(* _reset_driver discards the handle this launch judged, unless another     *)
(* has replaced it, and the launch is tried again.                          *)
Reset(s) ==
    /\ launch[s] = "resetting"
    /\ IF gen[s] # None /\ pw # gen[s]
       THEN UNCHANGED <<driver, registry, overtaken, coords, closing, rel>>
       ELSE DriverLost
    /\ Goto(s, "starting") /\ retried' = retried \cup {s}
    /\ UNCHANGED <<ident, rows, locked, gen, seen, browsers, reopens, tagged, upsets, stop>>

(* What has yet to tell the pool that the browser of s is gone: an event,   *)
(* or the reset of the dead driver it went with.                            *)
ToldOf(s) == s \in signal \/ (gen[s] = pw /\ pw \notin alive)

(* post_context_setup registers the session under its lease, without        *)
(* another look at the browser.                                             *)
Publish(s) ==
    /\ launch[s] = "wired" /\ Unlocked
    /\ Goto(s, "recording")
    /\ registry' = [registry EXCEPT ![s] = s]
    /\ stillborn' = IF browser[s] = "open" \/ ToldOf(s) THEN stillborn ELSE stillborn \cup {s}
    /\ UNCHANGED <<ident, rows, overtaken, locked, closing, coords, gen, seen, retried, browser,
                   signal, relaunch, driver, upsets, stop>>

(* The manifest row is written and the page opened under the lease the id   *)
(* was registered with; a navigation that fails is only a warning.          *)
Recorded(s) ==
    /\ launch[s] = "recording"
    /\ Goto(s, "navigating")
    /\ rows' = rows \cup {s}
    /\ UNCHANGED <<registry, ident, overtaken, locked, closing, coords, gen, seen, retried,
                   browsers, relaunch, driver, upsets, stop>>

Navigated(s) ==
    /\ launch[s] = "navigating"
    /\ Goto(s, "returned")
    /\ UNCHANGED <<pool, gen, seen, retried, browsers, relaunch, driver, upsets, stop>>

(* A launch given up with its context open, before it registers, is rolled  *)
(* back; given up before that it is like one that fails.                    *)
LaunchCancelled(s) ==
    /\ launch[s] = "wired" /\ reopens[s] = None
    /\ Goto(s, "failed")
    /\ browser' = [browser EXCEPT ![s] = "gone"]
    /\ UNCHANGED <<pool, gen, seen, retried, signal, stillborn, relaunch, driver, upsets, stop>>

-----------------------------------------------------------------------------
(* Dying.                                                                  *)

BrowserDies(s) ==
    /\ browser[s] = "open" /\ upsets < MaxUpsets
    /\ upsets' = upsets + 1
    /\ browser' = [browser EXCEPT ![s] = "gone"]
    /\ signal' = signal \cup {s}
    /\ UNCHANGED <<pool, launches, stillborn, relaunch, driver, stop>>

(* A dead driver delivers no events.                                        *)
DriverDies ==
    /\ pw \in alive /\ upsets < MaxUpsets
    /\ upsets' = upsets + 1
    /\ alive' = alive \ {pw}
    /\ browser' = [s \in Sessions |->
                      IF gen[s] = pw /\ browser[s] = "open" THEN "gone" ELSE browser[s]]
    /\ UNCHANGED <<pool, launches, signal, stillborn, relaunch, pw, started, restarts, stop>>

(* _accept_external_close judges how the browser of a registered session    *)
(* went: a crash nobody's close already owns is reopened.                   *)
DeliverClose(s) ==
    /\ s \in signal
    /\ signal' = signal \ {s}
    /\ IF registry[ident[s]] = s
       THEN /\ Accept({s})
            /\ \/ UNCHANGED rel
               \/ /\ closing[ident[s]] # s /\ Mode # "off" /\ s \notin tagged
                  /\ rel' = [rel EXCEPT ![s] = "waiting"]
       ELSE UNCHANGED <<registry, overtaken, coords, closing, rel>>
    /\ UNCHANGED <<ident, rows, locked, launches, browser, stillborn, reopens, tagged, driver,
                   upsets, stop>>

-----------------------------------------------------------------------------
(* Reopening a lost session, the reopenings of one reset taken together.    *)

(* Mutant of Reopen: the teardown of the lost session is not waited for.    *)
ReopenAtOnce(s) ==
    /\ rel[s] = "waiting"
    /\ rel' = [rel EXCEPT ![s] = "launching"]
    /\ \E t \in Sessions :
          IsSlot(t) /\ Begin(t) /\ reopens' = [reopens EXCEPT ![t] = s]
    /\ UNCHANGED <<pool, browsers, tagged, driver, upsets, stop>>

(* _relaunch_one waits for the old teardown.  Bound: without a slot left    *)
(* the launch fails.                                                        *)
Reopen(s) ==
    /\ rel[s] = "waiting" /\ \A c \in coords : c.who # s
    /\ \/ /\ rel' = [rel EXCEPT ![s] = "launching"]
          /\ \E t \in Sessions :
                IsSlot(t) /\ Begin(t) /\ reopens' = [reopens EXCEPT ![t] = s]
       \/ /\ ~SlotLeft
          /\ rel' = [rel EXCEPT ![s] = "over"]
          /\ UNCHANGED <<launches, reopens>>
    /\ UNCHANGED <<pool, browsers, tagged, driver, upsets, stop>>

(* The replacement's launch has ended.  _finalize_id keeps the registry     *)
(* lock while the manifest's row moves; without keep-id, or without the     *)
(* replacement, there is nothing to move.                                   *)
Finalize(s) ==
    \E t \in Sessions :
        /\ rel[s] = "launching" /\ reopens[t] = s /\ launch[t] \in {"returned", "failed"}
        /\ IF launch[t] = "returned" /\ registry[t] = t /\ Mode = "keep-id"
           THEN /\ Unlocked
                /\ rel' = [rel EXCEPT ![s] = "rekeying"]
                /\ locked' = s
                /\ rows' = IF t \in rows THEN (rows \ {t}) \cup {ident[s]} ELSE rows
                /\ UNCHANGED tagged
           ELSE /\ rel' = [rel EXCEPT ![s] = "over"]
                /\ tagged' = tagged \cup (IF registry[t] = t THEN {t} ELSE {})
                /\ UNCHANGED <<locked, rows>>
        /\ UNCHANGED <<registry, ident, overtaken, closing, coords, launches, browsers, reopens,
                       driver, upsets, stop>>

(* Mutant of Rekey: a replacement that is closing is waited for with the     *)
(* registry's lock held.                                                    *)
RekeyWaits(s) ==
    \E t \in Sessions :
        /\ locked = s /\ reopens[t] = s /\ closing[t] = None
        /\ locked' = None
        /\ rel' = [rel EXCEPT ![s] = "over"]
        /\ IF registry[t] = t
           THEN /\ ident' = [ident EXCEPT ![t] = ident[s]]
                /\ registry' = [registry EXCEPT ![t] = None, ![ident[s]] = t]
                /\ tagged' = tagged \cup {t}
                /\ UNCHANGED rows
           ELSE rows' = rows \ {ident[s]} /\ UNCHANGED <<ident, registry, tagged>>
        /\ UNCHANGED <<overtaken, closing, coords, launches, browsers, reopens, driver, upsets,
                       stop>>

(* The registry follows, unless the replacement was closed meanwhile.       *)
Rekey(s) ==
    \E t \in Sessions :
        /\ locked = s /\ reopens[t] = s
        /\ locked' = None
        /\ rel' = [rel EXCEPT ![s] = "over"]
        /\ IF registry[t] = t
           THEN /\ ident' = [ident EXCEPT ![t] = ident[s]]
                /\ registry' = [registry EXCEPT ![t] = None, ![ident[s]] = t]
                /\ tagged' = tagged \cup {t}
                /\ UNCHANGED rows
           ELSE rows' = rows \ {ident[s]} /\ UNCHANGED <<ident, registry, tagged>>
        /\ UNCHANGED <<overtaken, closing, coords, launches, browsers, reopens, driver, upsets,
                       stop>>

-----------------------------------------------------------------------------
(* shutdown_pool: close_all over the sessions of one moment, then whatever  *)
(* still drains, then the driver.                                           *)

ShutdownBegins ==
    /\ shutdown = "up" /\ upsets < MaxUpsets
    /\ upsets' = upsets + 1
    /\ shutdown' = "closing" /\ todo' = {i \in Sessions : registry[i] # None}
    /\ UNCHANGED <<pool, launches, browsers, relaunch, driver>>

ShutdownReserves(i) ==
    /\ shutdown = "closing" /\ i \in todo /\ Unlocked
    /\ todo' = todo \ {i}
    /\ IF registry[i] # None /\ closing[i] = None THEN Reserve(i) ELSE UNCHANGED <<closing, coords>>
    /\ UNCHANGED <<registry, ident, rows, overtaken, locked, launches, browsers, relaunch, driver,
                   upsets, shutdown>>

ShutdownWaits ==
    /\ \/ shutdown = "closing" /\ todo = {} /\ shutdown' = "awaiting"
       \/ shutdown = "awaiting" /\ (\A i \in todo : closing[i] = None) /\ shutdown' = "draining"
    /\ Unlocked
    /\ todo' = {i \in Sessions : closing[i] # None}
    /\ UNCHANGED <<pool, launches, browsers, relaunch, driver, upsets>>

ShutdownStops ==
    /\ shutdown = "draining" /\ \A i \in todo : closing[i] = None
    /\ shutdown' = "stopped" /\ todo' = {}
    /\ pw' = None /\ alive' = alive \ {pw}
    /\ browser' = [s \in Sessions |->
                      IF browser[s] = "open" /\ gen[s] = pw THEN "gone" ELSE browser[s]]
    /\ UNCHANGED <<pool, launches, signal, stillborn, relaunch, started, restarts, upsets>>

-----------------------------------------------------------------------------

CloseStep ==
    \E c \in coords :
        CloseGranted(c) \/ CloseRemoves(c) \/ CloseTears(c) \/ CloseEnds(c)

LaunchStep(s) ==
    \/ EnsureDriver(s) \/ Opened(s) \/ OpenFails(s) \/ Judge(s) \/ Reset(s)
    \/ Publish(s) \/ Recorded(s) \/ Navigated(s)

RelaunchStep(s) == Reopen(s) \/ Finalize(s) \/ Rekey(s)

ShutdownStep ==
    \/ \E i \in Sessions : ShutdownReserves(i)
    \/ ShutdownWaits \/ ShutdownStops

(* What the pool does of itself, as the event loop runs it.                 *)
Progress ==
    \/ CloseStep \/ ShutdownStep
    \/ \E s \in Sessions : LaunchStep(s) \/ RelaunchStep(s) \/ DeliverClose(s)

Next ==
    \/ Progress
    \/ DriverDies \/ ShutdownBegins
    \/ \E s \in Sessions :
          ClientLaunch(s) \/ RequestClose(s) \/ LaunchCancelled(s) \/ BrowserDies(s)

Spec == Init /\ [][Next]_vars

-----------------------------------------------------------------------------

(* A browser that runs for a launch that has got as far as registering is   *)
(* known to the pool: it can be listed and closed, or is being closed.  No  *)
(* coordinator, rekey or reset takes another session's id away.             *)
NoLostBrowser ==
    \A s \in Sessions :
        browser[s] = "open" /\ launch[s] \in {"recording", "navigating", "returned"}
        => \E i \in Sessions : registry[i] = s \/ closing[i] = s

(* A session listed as live has a browser, or its end is on its way: an     *)
(* event to deliver, a close in progress, or a dead driver that the next    *)
(* launch will replace (_wire_close_evictor).  One that was dead, and told  *)
(* to be, before it was registered stays listed.                            *)
NoDeadSessionListed ==
    \A s \in Live \ stillborn :
        \/ browser[s] = "open" \/ ToldOf(s)
        \/ (\E c \in coords : c.who = s) \/ shutdown = "stopped"

(* An id of the manifest names a session of the pool, once nothing is under *)
(* way that concerns it.  A removal that does not wait for the record may   *)
(* leave it behind.                                                         *)
NoStaleRow ==
    \A i \in rows \ overtaken :
        \/ registry[i] # None \/ closing[i] # None \/ ~Unlocked
        \/ \E c \in coords : c.id = i

(* What the pool lists and what the manifest has are there.                 *)
RegistryIsTrue == RegistryTypeOK /\ NoDeadSessionListed /\ NoStaleRow

(* A driver is only reset under sessions it has lost: no concurrent failure *)
(* evicts the browsers of the driver that replaced it (expected).           *)
ResetSparesTheLiving ==
    [][restarts' # restarts => \A s \in Live : browser[s] # "open"]_vars

(* Whatever waits for something gets it: when only the world can move, no   *)
(* close, launch, reopening or shutdown is unfinished.  The pool's own steps *)
(* cannot go on for ever, so under fairness each of them ends.              *)
NothingStuck ==
    \/ /\ coords = {} /\ shutdown \in {"up", "stopped"}
       /\ \A s \in Sessions : /\ rel[s] \in {"none", "over"} /\ closing[s] = None
                              /\ launch[s] \in {"unborn", "returned", "failed"}
    \/ ENABLED Progress

(* A session that was itself a reopening is not reopened (driver_relaunch's *)
(* loop guard).                                                             *)
ReopenedOnce == \A s \in Sessions : rel[s] # "none" => reopens[s] = None
=============================================================================
