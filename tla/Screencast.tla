------------------------------ MODULE Screencast ------------------------------
(***************************************************************************)
(* The live preview of one session (session/screencast.py) and the endpoint *)
(* that serves it (http/routes/screencast.py): the viewers share a manager, *)
(* which runs one encoder on the active page, follows that page, and ends   *)
(* with the last viewer or with the session.  Most of it runs under the     *)
(* session's lease and, inside it, the manager's lock; what must still work *)
(* when the session has closed runs under the lock alone.                   *)
(*                                                                          *)
(* The gate is the line of LeaseLine: its head holds the lease.             *)
(***************************************************************************)
EXTENDS Integers, FiniteSets, Sequences

CONSTANTS
    Viewers,     \* websockets, each served by a task of its own
    MaxPages,    \* bound: pages ever opened
    MaxOps,      \* bound: page operations
    MaxVisits    \* bound: connections ever made

Pages == 1..MaxPages
None == 0
Tasks == Viewers \cup {"op", "watch"}

ASSUME ScreencastAssumption ==
    /\ MaxPages \in Nat \ {0} /\ MaxOps \in Nat /\ MaxVisits \in Nat
    /\ IsFiniteSet(Viewers) /\ Viewers \cap {"op", "watch", "close", "free"} = {}

VARIABLES
    gate,       \* the operation gate's state
    line,       \* who holds the lease, and who waits for it
    gone,       \* whether the browser is
    told,       \* whether SessionClosedEvent was published
    page,       \* session.page
    dead,       \* pages whose renderer has died
    ops,        \* page operations begun
    visits,     \* connections made
    pc,         \* where each task is
    cancelled,  \* endpoint tasks that were cancelled while they acquired
    registered, \* whether _managers holds the manager
    pending,    \* _pending_acquires, as the endpoints it counts
    lock,       \* who holds the manager's _lock
    viewers,    \* _viewers
    ended,      \* viewers with _ended set
    started,    \* _started
    bound,      \* _bound_page
    casting,    \* pages whose encoder runs
    sub,        \* whether the manager has a subscription to the event bus
    events,     \* the events queued for it
    want,       \* the page the watcher's rebind was called with
    cutShort    \* whether a viewer's removal was ever broken off

session == <<gate, gone, told, dead>>
counts == <<ops, visits, cutShort>>
registry == <<registered, pending, cancelled>>
encoder == <<started, bound, casting>>
watching == <<sub, events, want>>
vars == <<session, line, page, counts, pc, registry, lock, viewers, ended,
          encoder, watching>>

Owner(t) == line # <<>> /\ Head(line) = t
InLine(t) == \E i \in 1..Len(line) : line[i] = t

AddPcs == {"entering", "lining", "starting"}
LeavePcs == {"parting", "removing", "stopping", "falling", "dousing", "dropping"}
WatchPcs == {"none", "listening", "lining", "stopping", "starting", "ending",
             "dousing", "done"}

(* With the lock free, an encoder is started on a page the manager knows.   *)
ScreencastTypeOK ==
    /\ gate \in {"open", "closing", "closed"} /\ gone \in BOOLEAN /\ told \in BOOLEAN
    /\ line \in Seq(Tasks \cup {"close"})
    /\ page \in Pages /\ dead \subseteq Pages
    /\ ops \in 0..MaxOps /\ visits \in 0..MaxVisits
    /\ \A v \in Viewers : pc[v] \in {"away", "showing"} \cup AddPcs \cup LeavePcs
    /\ pc["op"] \in {"away", "lining", "moving", "stopping", "starting"}
    /\ pc["watch"] \in WatchPcs
    /\ registered \in BOOLEAN /\ pending \cup cancelled \cup viewers \cup ended \subseteq Viewers
    /\ lock \in Tasks \cup {"free"}
    /\ started \in BOOLEAN /\ bound \in Pages \cup {None} /\ casting \subseteq Pages
    /\ lock = "free" => (started <=> bound # None)
    /\ sub \in BOOLEAN /\ events \in Seq({"recovered", "closed"})
    /\ want \in Pages \cup {None} /\ cutShort \in BOOLEAN

Init ==
    /\ gate = "open" /\ line = <<>> /\ gone = FALSE /\ told = FALSE
    /\ page = 1 /\ dead = {} /\ ops = 0 /\ visits = 0
    /\ pc = [t \in Tasks |-> IF t = "watch" THEN "none" ELSE "away"]
    /\ cancelled = {} /\ registered = FALSE /\ pending = {} /\ lock = "free"
    /\ viewers = {} /\ ended = {} /\ started = FALSE /\ bound = None /\ casting = {}
    /\ sub = FALSE /\ events = <<>> /\ want = None
    /\ cutShort = FALSE

-----------------------------------------------------------------------------
(* What the steps share.                                                   *)

Goes(t, where) == pc' = [pc EXCEPT ![t] = where]

(* Nobody stands in the line twice.                                         *)
Place(q, t) == CHOOSE i \in 1..Len(q) : q[i] = t
Without(q, t) ==
    IF \E i \in 1..Len(q) : q[i] = t
    THEN SubSeq(q, 1, Place(q, t) - 1) \o SubSeq(q, Place(q, t) + 1, Len(q))
    ELSE q

(* A task is done with the lease, or gives up its place.                    *)
Leaves(t, where) ==
    /\ line' = Without(line, t)
    /\ Goes(t, where)

(* A viewer's task leaves; with it, if it says so, the watcher is cancelled *)
(* and its subscription closed (_stop_recovery_watcher_locked).             *)
LeavesWatch(v, where, stop) ==
    /\ pc' = [pc EXCEPT ![v] = where, !["watch"] = IF stop THEN "none" ELSE @]
    /\ line' = Without(IF stop THEN Without(line, "watch") ELSE line, v)
    /\ sub' = (sub /\ ~stop)
    /\ events' = IF stop THEN <<>> ELSE events
    /\ want' = IF stop THEN None ELSE want

Publish(e) == events' = IF sub THEN Append(events, e) ELSE events

(* The encoder of the bound page is told to stop.                           *)
Stopped == started' = FALSE /\ bound' = None /\ casting' = casting \ {bound}

(* _ensure_recovery_watcher_locked: subscribed before the encoder starts,   *)
(* and a watcher that has returned is started again.                        *)
Subscribes(t, where) ==
    /\ sub' = TRUE
    /\ pc' = [pc EXCEPT ![t] = where,
                        !["watch"] = IF @ \in {"none", "done"} THEN "listening" ELSE @]
    /\ UNCHANGED <<events, want>>

-----------------------------------------------------------------------------
(* A viewer joins.                                                         *)

(* acquire_viewer, for a session the pool still lists (one that closes may  *)
(* be).  A manager that was dropped was idle, so a new one is like it.      *)
Acquire(v) ==
    /\ pc[v] = "away" /\ v \notin viewers /\ gate # "closed" /\ visits < MaxVisits
    /\ visits' = visits + 1
    /\ registered' = TRUE /\ pending' = pending \cup {v}
    /\ Goes(v, "entering")
    /\ UNCHANGED <<session, line, page, ops, cutShort, cancelled, lock, viewers, ended, encoder, watching>>

(* add_viewer, a task of its own: it asks for the lease.                    *)
AddEnters(v) ==
    /\ pc[v] = "entering"
    /\ \/ gate = "open" /\ line' = Append(line, v) /\ Goes(v, "lining")
       \/ gate # "open" /\ Goes(v, "dropping") /\ UNCHANGED line
    /\ UNCHANGED <<session, page, counts, registry, lock, viewers, ended, encoder, watching>>

AddTimesOut(v) ==
    /\ pc[v] = "lining" /\ ~Owner(v)
    /\ Leaves(v, "dropping")
    /\ UNCHANGED <<session, page, counts, registry, lock, viewers, ended, encoder, watching>>

(* The viewer exists: its endpoint shows it, or, if it was cancelled in the *)
(* meantime, takes it out again before anything else.                       *)
Added(v) ==
    /\ viewers' = viewers \cup {v}
    /\ Leaves(v, IF v \in cancelled THEN "parting" ELSE "showing")
    /\ pending' = IF v \in cancelled THEN pending ELSE pending \ {v}
    /\ UNCHANGED <<registered, cancelled>>

(* _add_viewer_locked: the first viewer starts the encoder.                 *)
AddRuns(v) ==
    /\ pc[v] = "lining" /\ Owner(v) /\ lock = "free"
    /\ \/ started /\ Added(v) /\ UNCHANGED <<lock, watching>>
       \/ /\ ~started
          /\ lock' = v /\ Subscribes(v, "starting")
          /\ UNCHANGED <<line, viewers, registry>>
    /\ UNCHANGED <<session, page, counts, ended, encoder>>

Started == started' = TRUE /\ bound' = page /\ casting' = casting \cup {page}

StartDone(v) ==
    /\ pc[v] = "starting" /\ ~gone /\ page \notin dead
    /\ Started /\ Added(v) /\ lock' = "free"
    /\ UNCHANGED <<session, page, counts, ended, watching>>

StartFails(v) ==
    /\ pc[v] = "starting"
    /\ LeavesWatch(v, "dropping", viewers = {}) /\ lock' = "free"
    /\ UNCHANGED <<session, page, counts, registry, viewers, ended, encoder>>

(* The request is cancelled while its task adds the viewer: it waits for it *)
(* nevertheless (_join_after_cancellation).                                 *)
Cancel(v) ==
    /\ pc[v] \in AddPcs /\ v \notin cancelled
    /\ cancelled' = cancelled \cup {v}
    /\ UNCHANGED <<session, line, page, counts, pc, registered, pending, lock, viewers,
                   ended, encoder, watching>>

-----------------------------------------------------------------------------
(* A viewer leaves: the client has gone, or ScreencastEnded was raised.     *)

Disconnect(v) ==
    /\ pc[v] = "showing"
    /\ Goes(v, "parting")
    /\ UNCHANGED <<session, line, page, counts, registry, lock, viewers, ended, encoder, watching>>

SeesEnd(v) == v \in ended /\ Disconnect(v)

(* remove_viewer: with the lease, or without when it is refused.            *)
Remove(v) ==
    /\ pc[v] = "parting"
    /\ \/ gate = "open" /\ line' = Append(line, v) /\ Goes(v, "removing")
       \/ gate # "open" /\ Goes(v, "falling") /\ UNCHANGED line
    /\ UNCHANGED <<session, page, counts, registry, lock, viewers, ended, encoder, watching>>

(* _remove_viewer_locked: the last viewer stops the encoder.                *)
RemoveRuns(v) ==
    /\ pc[v] = "removing" /\ Owner(v) /\ lock = "free"
    /\ \/ /\ viewers # {v} \/ ~started
          /\ viewers' = viewers \ {v}
          /\ LeavesWatch(v, "dropping", viewers = {v})
          /\ UNCHANGED lock
       \/ /\ viewers = {v} /\ started
          /\ lock' = v /\ Goes(v, "stopping")
          /\ UNCHANGED <<line, viewers, watching>>
    /\ UNCHANGED <<session, page, counts, registry, ended, encoder>>

(* The stop returns, raises or is interrupted: all the same to what follows.*)
StopReturns(v) ==
    /\ pc[v] = "stopping"
    /\ Stopped /\ viewers' = viewers \ {v}
    /\ LeavesWatch(v, "dropping", TRUE) /\ lock' = "free"
    /\ UNCHANGED <<session, page, counts, registry, ended>>

(* Mutant of FallsBack: a refused lease is an error like any other.         *)
FallsThrough(v) ==
    /\ pc[v] = "falling"
    /\ Goes(v, "dropping")
    /\ UNCHANGED <<session, line, page, counts, registry, lock, viewers, ended, encoder, watching>>

(* _remove_viewer_after_close_locked: under the lock alone.                 *)
FallsBack(v) ==
    /\ pc[v] = "falling" /\ lock = "free"
    /\ viewers' = viewers \ {v}
    /\ \/ /\ viewers # {v} \/ ~started
          /\ LeavesWatch(v, "dropping", viewers = {v})
          /\ UNCHANGED <<lock, encoder>>
       \/ /\ viewers = {v} /\ started
          /\ Stopped /\ lock' = v /\ Goes(v, "dousing")
          /\ UNCHANGED <<line, watching>>
    /\ UNCHANGED <<session, page, counts, registry, ended>>

FallbackStopped(v) ==
    /\ pc[v] = "dousing"
    /\ LeavesWatch(v, "dropping", TRUE) /\ lock' = "free"
    /\ UNCHANGED <<session, page, counts, registry, viewers, ended, encoder>>

(* _finish_acquire of a request that failed, _drop_empty_manager of one that*)
(* is over: the last of either reclaims the manager.                        *)
Drop(v) ==
    /\ pc[v] = "dropping"
    /\ pending' = pending \ {v} /\ cancelled' = cancelled \ {v} /\ ended' = ended \ {v}
    /\ registered' = (registered /\ ~(pending' = {} /\ viewers = {}))
    /\ Goes(v, "away")
    /\ UNCHANGED <<session, line, page, counts, lock, viewers, encoder, watching>>

(* What remove_viewer does not provide for: its wait for the lease times out*)
(* (SessionBusyTimeoutError), or the cancellation that made it necessary is *)
(* delivered again.                                                         *)
RemoveTimesOut(v) ==
    /\ pc[v] = "removing" /\ ~Owner(v)
    /\ cutShort' = TRUE
    /\ Leaves(v, "dropping")
    /\ UNCHANGED <<session, page, ops, visits, registry, lock, viewers, ended, encoder, watching>>

Redelivered(v) ==
    /\ v \in cancelled /\ pc[v] \in {"removing", "falling", "dousing"}
    /\ cutShort' = TRUE
    /\ Leaves(v, "dropping")
    /\ lock' = IF pc[v] = "dousing" THEN "free" ELSE lock
    /\ UNCHANGED <<session, page, ops, visits, registry, viewers, ended, encoder, watching>>

-----------------------------------------------------------------------------
(* The encoder moves to another page: the operation that changed the active *)
(* page calls rebind (notify_active_page), and so does the watcher when it  *)
(* hears of a recovery.                                                     *)

Rest(r) == IF r = "watch" THEN "listening" ELSE "away"
Target(r) == IF r = "watch" THEN want ELSE page
WantNone(r) == want' = IF r = "watch" THEN None ELSE want

(* Mutant of Rebind: the old page's encoder is left running.                *)
RebindWithoutStop(r) ==
    /\ pc[r] = IF r = "watch" THEN "lining" ELSE "moving"
    /\ Owner(r) /\ lock = "free"
    /\ page' = Target(r)
    /\ IF started /\ viewers # {} /\ bound # Target(r)
       THEN /\ lock' = r /\ Goes(r, "stopping")
            /\ bound' = None
            /\ UNCHANGED <<line, want, casting>>
       ELSE /\ Leaves(r, Rest(r)) /\ WantNone(r)
            /\ UNCHANGED <<lock, bound, casting>>
    /\ UNCHANGED <<session, counts, registry, viewers, ended, started, sub, events>>

(* _rebind_locked up to the stop of the old encoder.                        *)
Rebind(r) ==
    /\ pc[r] = IF r = "watch" THEN "lining" ELSE "moving"
    /\ Owner(r) /\ lock = "free"
    /\ page' = Target(r)
    /\ IF started /\ viewers # {} /\ bound # Target(r)
       THEN /\ lock' = r /\ Goes(r, "stopping")
            /\ bound' = None /\ casting' = casting \ {bound}
            /\ UNCHANGED <<line, want>>
       ELSE /\ Leaves(r, Rest(r)) /\ WantNone(r)
            /\ UNCHANGED <<lock, bound, casting>>
    /\ UNCHANGED <<session, counts, registry, viewers, ended, started, sub, events>>

RebindStopped(r) ==
    /\ pc[r] = "stopping"
    /\ started' = FALSE
    /\ Subscribes(r, "starting")
    /\ UNCHANGED <<session, line, page, counts, registry, lock, viewers, ended, bound, casting>>

RebindStarted(r) ==
    /\ pc[r] = "starting" /\ ~gone /\ page \notin dead
    /\ Started
    /\ Leaves(r, Rest(r)) /\ WantNone(r) /\ lock' = "free"
    /\ UNCHANGED <<session, page, counts, registry, viewers, ended, sub, events>>

(* No encoder, and no way back to one: the viewers are sent away.           *)
RebindFails(r) ==
    /\ pc[r] = "starting"
    /\ ended' = ended \cup viewers
    /\ Leaves(r, Rest(r)) /\ WantNone(r) /\ lock' = "free"
    /\ UNCHANGED <<session, page, counts, registry, viewers, encoder, sub, events>>

-----------------------------------------------------------------------------
(* _watch_recovery.                                                        *)

(* rebind(session.page): the argument is read now, the lease had later.     *)
HearsRecovery ==
    /\ pc["watch"] = "listening" /\ events # <<>> /\ Head(events) = "recovered"
    /\ events' = Tail(events)
    /\ IF gate = "open"
       THEN line' = Append(line, "watch") /\ Goes("watch", "lining") /\ want' = page
       ELSE UNCHANGED <<line, pc, want>>
    /\ UNCHANGED <<session, page, counts, registry, lock, viewers, ended, encoder, sub>>

HearsClose ==
    /\ pc["watch"] = "listening" /\ events # <<>> /\ Head(events) = "closed"
    /\ events' = Tail(events)
    /\ Goes("watch", "ending")
    /\ UNCHANGED <<session, line, page, counts, registry, lock, viewers, ended, encoder, sub, want>>

(* Mutant of Terminate: it asks the gate for the lease first.               *)
TerminateByLease ==
    /\ pc["watch"] = "ending" /\ lock = "free"
    /\ Goes("watch", "done")
    /\ UNCHANGED <<session, line, page, counts, registry, viewers, watching, ended, lock, encoder>>

(* terminate: under the lock alone, for the gate would refuse.              *)
Terminate ==
    /\ pc["watch"] = "ending" /\ lock = "free"
    /\ \/ /\ started /\ Stopped
          /\ lock' = "watch" /\ Goes("watch", "dousing")
          /\ UNCHANGED ended
       \/ /\ ~started
          /\ ended' = ended \cup viewers /\ Goes("watch", "done")
          /\ UNCHANGED <<lock, encoder>>
    /\ UNCHANGED <<session, line, page, counts, registry, viewers, watching>>

Terminated ==
    /\ pc["watch"] = "dousing"
    /\ ended' = ended \cup viewers /\ lock' = "free" /\ Goes("watch", "done")
    /\ UNCHANGED <<session, line, page, counts, registry, viewers, encoder, watching>>

-----------------------------------------------------------------------------
(* The session: page operations and its end.                               *)

OpAsks ==
    /\ pc["op"] = "away" /\ gate = "open" /\ ops < MaxOps
    /\ ops' = ops + 1
    /\ line' = Append(line, "op") /\ Goes("op", "lining")
    /\ UNCHANGED <<session, page, visits, cutShort, registry, lock, viewers, ended, encoder, watching>>

(* Mutant of SwitchPage: nobody is told.                                    *)
SwitchQuietly(p) ==
    /\ pc["op"] = "lining" /\ Owner("op") /\ p # page /\ p \notin dead
    /\ page' = p
    /\ Leaves("op", "away")
    /\ UNCHANGED <<session, counts, registry, lock, viewers, ended, encoder, watching>>

(* switch_page and close_page, which notify the manager there is.           *)
SwitchPage(p) ==
    /\ pc["op"] = "lining" /\ Owner("op") /\ p # page /\ p \notin dead
    /\ page' = p
    /\ IF registered
       THEN Goes("op", "moving") /\ UNCHANGED line
       ELSE Leaves("op", "away")
    /\ UNCHANGED <<session, counts, registry, lock, viewers, ended, encoder, watching>>

(* A crashed page is replaced by p, or by one that is not shown (p = page). *)
RecoverPage(p) ==
    /\ pc["op"] = "lining" /\ Owner("op") /\ p \notin dead /\ ~gone
    /\ page' = p
    /\ dead' = IF p = page THEN dead ELSE dead \cup {page}
    /\ casting' = casting \ dead'
    /\ Publish("recovered")
    /\ Leaves("op", "away")
    /\ UNCHANGED <<gate, gone, told, counts, registry, lock, viewers, ended, started,
                   bound, sub, want>>

(* Any other operation.                                                     *)
OpWorks ==
    /\ pc["op"] = "lining" /\ Owner("op")
    /\ Leaves("op", "away")
    /\ UNCHANGED <<session, page, counts, registry, lock, viewers, ended, encoder, watching>>

CloseAsked ==
    /\ gate = "open" /\ gate' = "closing"
    /\ line' = Append(line, "close")
    /\ UNCHANGED <<gone, told, dead, page, counts, pc, registry, lock, viewers, ended,
                   encoder, watching>>

CloseRuns ==
    /\ gate = "closing" /\ Owner("close")
    /\ gate' = "closed" /\ gone' = TRUE /\ casting' = {} /\ line' = <<>>
    /\ UNCHANGED <<told, dead, page, counts, pc, registry, lock, viewers, ended,
                   started, bound, watching>>

(* Where a ticket goes that is failed in the queue.                         *)
Failed(t) ==
    CASE pc[t] = "removing" -> "falling"
      [] t = "watch" -> "listening"
      [] t = "op" -> "away"
      [] OTHER -> "dropping"

(* accept_external_close_nowait: whoever holds the lease keeps it.          *)
BrowserDies ==
    /\ ~gone /\ gate # "closed"
    /\ gate' = "closed" /\ gone' = TRUE /\ casting' = {}
    /\ line' = IF line = <<>> \/ Owner("close") THEN <<>> ELSE <<Head(line)>>
    /\ pc' = [t \in Tasks |-> IF InLine(t) /\ ~Owner(t) THEN Failed(t) ELSE pc[t]]
    /\ want' = IF Owner("watch") THEN want ELSE None
    /\ UNCHANGED <<told, dead, page, counts, registry, lock, viewers, ended, started,
                   bound, sub, events>>

(* publish_close_once, by the close's coordinator.                          *)
ClosePublished ==
    /\ gate = "closed" /\ ~told
    /\ told' = TRUE /\ Publish("closed")
    /\ UNCHANGED <<gate, gone, dead, line, page, counts, pc, registry, lock, viewers,
                   ended, encoder, sub, want>>

-----------------------------------------------------------------------------
Joins(v) ==
    \/ Acquire(v) \/ AddEnters(v) \/ AddTimesOut(v) \/ AddRuns(v)
    \/ StartDone(v) \/ StartFails(v) \/ Cancel(v)

Parts(v) ==
    \/ Disconnect(v) \/ Remove(v) \/ RemoveRuns(v) \/ StopReturns(v) \/ FallsBack(v)
    \/ FallbackStopped(v) \/ Drop(v) \/ RemoveTimesOut(v) \/ Redelivered(v)

Moves(r) == Rebind(r) \/ RebindStopped(r) \/ RebindStarted(r) \/ RebindFails(r)

Watches == HearsRecovery \/ HearsClose \/ Terminate \/ Terminated

Session ==
    \/ OpAsks \/ OpWorks \/ \E p \in Pages : SwitchPage(p) \/ RecoverPage(p)
    \/ CloseAsked \/ CloseRuns \/ BrowserDies \/ ClosePublished

Next ==
    \/ \E v \in Viewers : Joins(v) \/ Parts(v)
    \/ \E r \in {"op", "watch"} : Moves(r)
    \/ Watches \/ Session

Spec == Init /\ [][Next]_vars

(* The loop runs what is ready.  Calls to Playwright return once the browser*)
(* is gone; before that they need not, and no client needs to leave.        *)
Returns ==
    \/ \E v \in Viewers : StartFails(v) \/ StopReturns(v)
    \/ \E r \in {"op", "watch"} : RebindStopped(r) \/ RebindFails(r)

Fairness ==
    /\ \A v \in Viewers :
         WF_vars(AddEnters(v) \/ AddRuns(v) \/ Remove(v) \/ RemoveRuns(v) \/ FallsBack(v)
                 \/ FallbackStopped(v) \/ Drop(v) \/ SeesEnd(v))
    /\ WF_vars(\E r \in {"op", "watch"} : Rebind(r))
    /\ WF_vars(Watches) /\ WF_vars(ClosePublished)
    /\ WF_vars(OpWorks) /\ WF_vars(gone /\ Returns)

FairSpec == Spec /\ Fairness

-----------------------------------------------------------------------------
(* Properties.                                                             *)

Idle == viewers = {} /\ ~started /\ casting = {} /\ ~sub /\ pc["watch"] = "none"

(* Once every endpoint has returned, nothing of the preview is left: no     *)
(* viewer nobody can release, no encoder, no watcher, no subscription, no   *)
(* manager in the registry.  And as long as another may be made, a manager  *)
(* that was dropped is idle (acquire_viewer, remove_viewer, release_viewer).*)
NothingLeftBehind ==
    /\ ScreencastTypeOK
    /\ ~cutShort =>
         /\ (\A v \in Viewers : pc[v] = "away") => Idle /\ ~registered
         /\ ~registered /\ gate = "open" => Idle

(* At most one encoder runs for a session, it is the one the manager will   *)
(* stop, and none is started on a page that has one already (Playwright     *)
(* refuses that): rebind stops before it starts.                            *)
OneEncoder ==
    /\ lock = "free" => casting \subseteq {bound}
    /\ Cardinality(casting) <= 1
    /\ \A t \in Tasks : pc[t] = "starting" => page \notin casting

(* While the session is open, with no operation and no event under way, the *)
(* preview shows the active page, however pages were switched, closed and   *)
(* recovered in the meantime (notify_active_page, _watch_recovery).         *)
ShowsActivePage ==
    (gate = "open" /\ pc["op"] = "away" /\ events = <<>> /\ want = None
     /\ lock = "free" /\ started)
        => bound = page

(* Whatever happens to the gate, a session that has ended sends every viewer*)
(* away and gives up its manager (terminate, _remove_viewer_after_close_    *)
(* locked): no dashboard waits for ever on frames that will not come.       *)
EndReachesViewers == gone ~> ((viewers = {} /\ ~registered) \/ cutShort)

(* No endpoint returns and leaves its viewer in the manager, where nobody   *)
(* can take it out: remove_viewer falls back on the lock, "or this viewer is*)
(* stranded in self._viewers forever".                                      *)
NoViewerStranded == \A v \in Viewers : pc[v] = "away" => v \notin viewers

(* The preview follows the active page and never moves it: "Follow a        *)
(* session's active-page change" (session/screencast.py, notify_active_page)*)
PreviewNeverMoves == [][page' # page => pc["op"] = "lining" /\ Owner("op")]_vars
=============================================================================
