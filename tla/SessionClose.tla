---------------------------- MODULE SessionClose ----------------------------
(***************************************************************************)
(* How one session's close runs through the pool: browser_pool/lifecycle,  *)
(* close_helpers and the relaunch that closes before it launches.           *)
(*                                                                         *)
(* Requesters ask for a close under `_sessions_lock`; the first one's       *)
(* reservation is wrapped in a ClosingSession and handed to one detached    *)
(* coordinator, which takes the gate's last ticket, removes the session     *)
(* from `_sessions`, runs the requester's preparation, tears the browser    *)
(* down, publishes, resolves the shared outcome and drops the entry.  A     *)
(* browser that dies on its own reaches the same seam synchronously, from a *)
(* Playwright callback that takes no lock.                                  *)
(*                                                                         *)
(* The gate is OperationGate's: each step of the coordinator is one of its  *)
(* close steps, or leaves it alone.  Failures of the bookkeeping itself (a  *)
(* log handler that raises) are left out.                                   *)
(***************************************************************************)
EXTENDS OperationGate

CONSTANT Requesters   \* the calls that ask for this session's close

VARIABLES
    registered, \* the session is in pool._sessions
    entry,      \* its ClosingSession is in pool._closing_sessions
    spawned,    \* coordinators created for it (history)
    prep,       \* the entry carries a preparation
    cstep,      \* where the coordinator is between the gate's close steps
    prepared,   \* what became of the preparation
    torn,       \* what became of _teardown_after_close_cutoff
    error,      \* the coordinator's first error
    verdict,    \* the exception the outcome carries, "ok" for a result
    published,  \* SessionClosedEvents published (history)
    rpc,        \* where each requester stands
    kind,       \* "close", "compound" (capture-and-close) or "relaunch"
    answer      \* what each requester's call came to

pool == <<registered, entry, spawned, prep, cstep, prepared, torn, error, verdict, published>>
requests == <<rpc, kind, answer>>
poolVars == <<vars, pool, requests>>

Kinds == {"close", "compound", "relaunch"}
Errors == {"error", "closed", "broken", "aborted"}
Launches == {"replaced", "raced", "fallback"}

(* The pool's records of the session and the requesters' calls range over   *)
(* the values the code gives them.                                          *)
PoolTypeOK ==
    /\ registered \in BOOLEAN /\ entry \in BOOLEAN /\ prep \in BOOLEAN
    /\ spawned \in Nat /\ published \in Nat
    /\ cstep \in {"none", "identity", "prepare", "teardown", "exit",
                  "publish", "resolve", "evict", "end"}
    /\ prepared \in {"no", "done", "failed", "refused"}
    /\ torn \in {"no", "done", "failed"}
    /\ error \in {"none", "error", "closed", "broken", "cancelled"}
    /\ verdict \in {"none", "ok"} \cup Errors
    /\ rpc \in [Requesters -> {"idle", "calling", "asking", "waiting",
                               "fallback", "draining", "answered"}]
    /\ kind \in [Requesters -> Kinds]
    /\ answer \in [Requesters -> {"none", "ok", "missing", "closing", "refused", "cancelled"}
                                 \cup Errors \cup Launches]
    /\ \A r \in Requesters : rpc[r] = "answered" <=> answer[r] # "none"

PoolInit ==
    /\ Init
    /\ registered = TRUE /\ entry = FALSE /\ prep = FALSE
    /\ spawned = 0 /\ published = 0
    /\ cstep = "none" /\ prepared = "no" /\ torn = "no"
    /\ error = "none" /\ verdict = "none"
    /\ rpc = [r \in Requesters |-> "idle"]
    /\ kind = [r \in Requesters |-> "close"]
    /\ answer = [r \in Requesters |-> "none"]

(* _sessions_lock is held across reserve_close_browser's one await.         *)
Locked == \E r \in Requesters : rpc[r] = "asking"

-----------------------------------------------------------------------------
(* A requester's call.                                                     *)

MoveTo(r, where) == rpc' = [rpc EXCEPT ![r] = where] /\ UNCHANGED <<kind, answer>>

Answer(r, a) ==
    /\ rpc' = [rpc EXCEPT ![r] = "answered"]
    /\ answer' = [answer EXCEPT ![r] = a]
    /\ UNCHANGED kind

(* A close, or a compound helper whose pool.get still found the session.    *)
Call(r) ==
    /\ rpc[r] = "idle"
    /\ \E k \in Kinds :
          /\ k # "close" => registered /\ ~entry
          /\ kind' = [kind EXCEPT ![r] = k]
    /\ rpc' = [rpc EXCEPT ![r] = "calling"]
    /\ UNCHANGED <<vars, pool, answer>>

(* A requester refused a ticket: relaunch falls back to the snapshot it has *)
(* already, the others fail.                                                *)
Rejected(r, e) ==
    IF kind[r] = "relaunch" THEN MoveTo(r, "fallback") ELSE Answer(r, e)

(* _coalesce_or_reject: only an ordinary close shares an accepted one.      *)
Coalesce(r) ==
    IF kind[r] = "close" THEN MoveTo(r, "waiting") ELSE Rejected(r, "closing")

(* reserve_close_browser up to its await.                                   *)
Ask(r) ==
    /\ rpc[r] = "calling" /\ ~Locked
    /\ \/ entry /\ Coalesce(r)
       \/ ~entry /\ ~registered /\ Rejected(r, "missing")
       \/ ~entry /\ registered /\ MoveTo(r, "asking")
    /\ UNCHANGED <<vars, pool>>

(* A new entry, and the coordinator created for it.                        *)
Spawn(withPreparation) ==
    /\ entry' = TRUE
    /\ prep' = withPreparation
    /\ spawned' = spawned + 1

(* Mutant of Reserve: the registry is not looked at again after the await.  *)
ReserveUnchecked(r) ==
    /\ rpc[r] = "asking"
    /\ \/ reservation = "none" /\ ReserveClose
       \/ reservation # "none" /\ UNCHANGED vars
    /\ Spawn(kind[r] # "close") /\ MoveTo(r, "waiting")
    /\ UNCHANGED <<registered, cstep, prepared, torn, error, verdict, published>>

(* reserve_close_browser after it: the gate's reservation, its own or one   *)
(* the gate already had, and, unless an external close left an entry in the *)
(* meantime, a coordinator for it.  The preflight may refuse a close of a   *)
(* protected session.                                                       *)
Reserve(r) ==
    /\ rpc[r] = "asking"
    /\ \/ /\ reservation = "none" /\ kind[r] = "close"
          /\ Answer(r, "refused")
          /\ UNCHANGED <<vars, pool>>
       \/ /\ \/ reservation = "none" /\ ReserveClose
             \/ reservation # "none" /\ UNCHANGED vars
          /\ \/ entry /\ Coalesce(r) /\ UNCHANGED <<entry, prep, spawned>>
             \/ ~entry /\ Spawn(kind[r] # "close") /\ MoveTo(r, "waiting")
          /\ UNCHANGED <<registered, cstep, prepared, torn, error, verdict, published>>

(* The reservation's outcome reaches a requester.  Relaunch launches its    *)
(* replacement from the prepared snapshot, or from its own earlier one when *)
(* the error is a plain SessionClosedError.                                 *)
Hear(r) ==
    /\ rpc[r] = "waiting" /\ outcome # "pending"
    /\ Answer(r, IF kind[r] # "relaunch" THEN verdict
                 ELSE IF verdict = "ok" THEN "replaced"
                 ELSE IF verdict = "closed" THEN "raced" ELSE verdict)
    /\ UNCHANGED <<vars, pool>>

(* _await_in_flight_close: wait for the coordinator that owns the entry, if *)
(* there is one, and launch whatever it came to.                            *)
AwaitInFlight(r) ==
    /\ rpc[r] = "fallback" /\ ~Locked
    /\ IF entry THEN MoveTo(r, "draining") ELSE Answer(r, "fallback")
    /\ UNCHANGED <<vars, pool>>

Drained(r) ==
    /\ rpc[r] = "draining" /\ outcome # "pending"
    /\ Answer(r, "fallback")
    /\ UNCHANGED <<vars, pool>>

(* The requester's own task is cancelled; its await on the outcome is       *)
(* shielded.                                                                *)
Withdraw(r) ==
    /\ rpc[r] \in {"calling", "asking", "waiting", "fallback", "draining"}
    /\ Answer(r, "cancelled")
    /\ UNCHANGED <<vars, pool>>

-----------------------------------------------------------------------------
(* The browser dies: accept_external_close_nowait, with no lock taken.      *)
External ==
    /\ registered
    /\ registered' = FALSE
    /\ \/ state # "closed" /\ AcceptExternalClose
       \/ state = "closed" /\ UNCHANGED vars
    /\ \/ entry /\ UNCHANGED <<entry, prep, spawned>>
       \/ ~entry /\ Spawn(FALSE)
    /\ UNCHANGED <<cstep, prepared, torn, error, verdict, published, requests>>

(* Housekeeping applies the ceiling to the sessions in _sessions.  (While   *)
(* the coordinator stands before the removal of its session it may be       *)
(* waiting for a lock that another session's request holds.)                *)
CheckCeiling ==
    /\ registered
    /\ Ceiling
    /\ UNCHANGED <<pool, requests>>

-----------------------------------------------------------------------------
(* The coordinator: _coordinate_close.                                     *)

(* The branch taken when close_operation raised SessionClosedError.         *)
Refused == reservation = "fifo" /\ pc[Closer] = "teardown"

InBody == pc[Closer] \in {"body", "teardown"}

CoordinatorStarts ==
    /\ StartClose
    /\ cstep' = IF reservation = "teardown" THEN "identity" ELSE cstep
    /\ UNCHANGED <<registered, entry, spawned, prep, prepared, torn, error, verdict,
                   published, requests>>

CoordinatorBinds ==
    /\ BindClose
    /\ cstep' = "identity"
    /\ UNCHANGED <<registered, entry, spawned, prep, prepared, torn, error, verdict,
                   published, requests>>

CoordinatorRefused ==
    /\ CloseRefused
    /\ \/ /\ pc'[Closer] = "teardown"
          /\ cstep' = "identity"
          /\ UNCHANGED error
       \/ /\ pc'[Closer] = "settling"
          /\ cstep' = "publish"
          /\ error' = "broken"
    /\ UNCHANGED <<registered, entry, spawned, prep, prepared, torn, verdict, published, requests>>

(* remove_active_identity, under the lock.                                  *)
RemoveIdentity ==
    /\ InBody /\ cstep = "identity" /\ ~pending[Closer] /\ ~Locked
    /\ registered' = FALSE
    /\ cstep' = IF prep /\ ~Refused THEN "prepare" ELSE "teardown"
    /\ UNCHANGED <<vars, entry, spawned, prep, prepared, torn, error, verdict, published, requests>>

(* The ceiling's cancellation lands there: the body raises, with nothing    *)
(* prepared and nothing torn down.                                          *)
IdentityCancelled ==
    /\ cstep = "identity" /\ pending[Closer]
    /\ CloseBodyExit /\ exc'[Closer] = "cancelled"
    /\ error' = "cancelled"
    /\ cstep' = "publish"
    /\ UNCHANGED <<registered, entry, spawned, prep, prepared, torn, verdict, published, requests>>

(* The preparation re-enters operation() from the coordinator's own task:   *)
(* one more frame of the close's lease, or, when the gate broke before the  *)
(* close was reserved and there is no lease, the refusal of a stranger.     *)
Prepare ==
    /\ InBody /\ cstep = "prepare"
    /\ \/ /\ owner = Closer
          /\ prepared' \in {"done", "failed"}
          /\ error' = IF prepared' = "failed" THEN "error" ELSE error
       \/ /\ owner # Closer
          /\ prepared' = "refused"
          /\ error' = IF state = "closed" THEN "closed" ELSE "broken"
    /\ cstep' = "teardown"
    /\ UNCHANGED <<vars, registered, entry, spawned, prep, torn, verdict, published, requests>>

(* Mutant of Teardown: its own error is lost.                               *)
TeardownUnseen ==
    /\ InBody /\ cstep = "teardown"
    /\ torn' \in {"done", "failed"}
    /\ cstep' = "exit"
    /\ UNCHANGED <<vars, registered, entry, spawned, prep, prepared, error, verdict,
                   published, requests>>

(* _teardown_after_close_cutoff, whatever the preparation did; the first    *)
(* error is the one kept, and a lost race outranks the teardown's.          *)
Teardown ==
    /\ InBody /\ cstep = "teardown"
    /\ torn' \in {"done", "failed"}
    /\ error' = IF Refused /\ prep THEN "closed"
                ELSE IF error = "none" /\ torn' = "failed" THEN "error" ELSE error
    /\ cstep' = "exit"
    /\ UNCHANGED <<vars, registered, entry, spawned, prep, prepared, verdict, published, requests>>

BodyEnds ==
    /\ cstep = "exit"
    /\ \/ CloseBodyExit /\ exc'[Closer] = "ok"
       \/ TeardownEnds
    /\ cstep' = "publish"
    /\ UNCHANGED <<registered, entry, spawned, prep, prepared, torn, error, verdict,
                   published, requests>>

CoordinatorReleases ==
    /\ ReleaseClose
    /\ verdict' = IF outcome' # outcome THEN outcome' ELSE verdict
    /\ UNCHANGED <<registered, entry, spawned, prep, cstep, prepared, torn, error,
                   published, requests>>

CoordinatorUnwinds ==
    /\ UnwindClose
    /\ error' = IF pending[Closer] /\ error = "none" THEN "cancelled" ELSE error
    /\ UNCHANGED <<registered, entry, spawned, prep, cstep, prepared, torn, verdict,
                   published, requests>>

(* run_close_bookkeeping up to its lock: manifest and event.                *)
Publish ==
    /\ pc[Closer] = "settling" /\ cstep = "publish"
    /\ published' = published + 1
    /\ cstep' = "resolve"
    /\ UNCHANGED <<vars, registered, entry, spawned, prep, prepared, torn, error, verdict, requests>>

(* The rest of it, and complete_close / fail_close.                         *)
Resolve ==
    LET final == IF error = "none" THEN "ok"
                 ELSE IF error = "cancelled" THEN "aborted" ELSE error IN
    /\ cstep = "resolve" /\ ~Locked
    /\ ResolveClose
    /\ registered' = FALSE
    /\ IF outcome = "pending"
       THEN /\ outcome' = IF final \in {"ok", "aborted"} THEN final ELSE "error"
            /\ verdict' = final
       ELSE UNCHANGED verdict
    /\ cstep' = "evict"
    /\ UNCHANGED <<entry, spawned, prep, prepared, torn, error, published, requests>>

(* The entry leaves _closing_sessions last.                                 *)
Evict ==
    /\ cstep = "evict" /\ ~Locked
    /\ entry' = FALSE
    /\ cstep' = "end"
    /\ UNCHANGED <<vars, registered, spawned, prep, prepared, torn, error, verdict, published, requests>>

-----------------------------------------------------------------------------
Request(r) ==
    \/ Call(r) \/ Ask(r) \/ Reserve(r) \/ Hear(r)
    \/ AwaitInFlight(r) \/ Drained(r) \/ Withdraw(r)

Coordinate ==
    \/ CoordinatorStarts \/ CoordinatorBinds \/ CoordinatorRefused
    \/ RemoveIdentity \/ IdentityCancelled \/ Prepare \/ Teardown \/ BodyEnds
    \/ CoordinatorReleases \/ CoordinatorUnwinds
    \/ Publish \/ Resolve \/ Evict

Operate ==
    /\ (\E t \in Tasks : Step(t)) \/ Tick
    /\ UNCHANGED <<pool, requests>>

PoolNext ==
    (\E r \in Requesters : Request(r)) \/ External \/ CheckCeiling \/ Coordinate \/ Operate

PoolSpec == PoolInit /\ [][PoolNext]_poolVars

(* What the event loop and housekeeping do whatever a page does: callers'   *)
(* tasks run, a lease past the ceiling is noticed, coordinators resume.     *)
LoopFairness ==
    /\ \A t \in Tasks :
          WF_poolVars((Resume(t) \/ GiveUp(t) \/ Cleanup(t) \/ Leave(t)
                       \/ BodyCancelled(t) \/ Release(t) \/ Unwind(t))
                      /\ UNCHANGED <<pool, requests>>)
    /\ WF_poolVars(Tick /\ UNCHANGED <<pool, requests>>)
    /\ WF_poolVars(CheckCeiling)
    /\ WF_poolVars(CoordinatorStarts \/ CoordinatorBinds \/ CoordinatorRefused
                   \/ IdentityCancelled \/ BodyEnds \/ CoordinatorReleases
                   \/ CoordinatorUnwinds \/ Publish)
    /\ WF_poolVars(RemoveIdentity) /\ WF_poolVars(Resolve) /\ WF_poolVars(Evict)
    /\ \A r \in Requesters :
          WF_poolVars(Ask(r) \/ Reserve(r) \/ Hear(r) \/ AwaitInFlight(r) \/ Drained(r))

LoopSpec == PoolSpec /\ LoopFairness

(* And the preparation's and the teardown's Playwright calls end too.       *)
PoolFairSpec == LoopSpec /\ WF_poolVars(Prepare \/ Teardown)
-----------------------------------------------------------------------------
(* Safety.                                                                 *)

(* However many requesters and close signals race, one coordinator tears    *)
(* this session down; reserve_close_browser's re-check after its await is   *)
(* what keeps it so.                                                        *)
OneCoordinator == spawned <= 1

(* A session that can still be used or still has to be torn down is in one  *)
(* of the pool's two registries, where shutdown looks for it.               *)
NoOrphan == registered \/ entry \/ outcome # "pending"

(* A session's close is run once, and a session that has not had one can    *)
(* still be given one: no race of requesters and signals does it twice or   *)
(* loses it.                                                                *)
ClosesAreRun == PoolTypeOK /\ OneCoordinator /\ NoOrphan

(* A close that succeeded has torn the browser down, left the registry and  *)
(* been announced once; nobody is told so before.                           *)
SuccessIsComplete ==
    verdict = "ok" => torn = "done" /\ ~registered /\ published = 1

(* A compound close succeeds only with its own preparation run to the end;  *)
(* it never shares a close that did not run it, nor one that lost the race. *)
CompoundIsPrepared ==
    \A r \in Requesters :
       answer[r] = "replaced" \/ (kind[r] = "compound" /\ answer[r] = "ok")
          => prepared = "done"

(* A lost race means that the preparation never ran: the snapshot relaunch  *)
(* falls back to is not older than one the coordinator took.                *)
LostRaceIsUnprepared == verdict = "closed" => prepared \in {"no", "refused"}

(* Only the ceiling leaves a browser whose close was accepted without any   *)
(* attempt at its teardown, and then no requester is told otherwise.        *)
TornUnlessBroken ==
    outcome # "pending" /\ torn = "no" => verdict \in {"broken", "aborted"}

(* What the requesters of a close are told is what was done for them.       *)
OutcomeIsHonest ==
    SuccessIsComplete /\ CompoundIsPrepared /\ LostRaceIsUnprepared /\ TornUnlessBroken

(* An explicit close of a healthy session never prepares or tears down      *)
(* under another task's running operation.                                  *)
TeardownWaitsItsTurn ==
    [][\/ torn' # torn \/ prepared' # prepared
       => \/ owner = Closer
          \/ state \in {"closed", "broken"}]_poolVars

-----------------------------------------------------------------------------
(* Liveness.                                                               *)

(* Every requester is answered, and the entry leaves the registry, even if  *)
(* the operation the close waits behind never ends.                         *)
RequestersAnswered ==
    \A r \in Requesters : (rpc[r] # "idle") ~> (rpc[r] = "answered")

EntryDrains == entry ~> ~entry

(* A close ends for those who asked for it and for the pool's registry.     *)
ClosesEnd == RequestersAnswered /\ EntryDrains

-----------------------------------------------------------------------------
(* What the code's own words say of it.                                    *)

(* SessionCloseAbortedError's docstring: after a plain SessionClosedError   *)
(* the browser is confirmed torn down either way.                           *)
LostRaceIsTornDown ==
    \A r \in Requesters : answer[r] = "raced" => torn = "done"

(* _await_in_flight_close's docstring: without it a relaunch could launch   *)
(* on the profile while the old process is still there; so with it the      *)
(* browser's teardown has at least been attempted.                          *)
NoReplacementOverLiveBrowser ==
    \A r \in Requesters : answer[r] \in Launches => torn # "no"

(* enforce_active_timeout's docstring: it can also cancel a close that was  *)
(* granted and is itself wedged mid-teardown.                               *)
WedgedCloseIsCancelled ==
    (pc[Closer] = "body" /\ cstep = "teardown") ~> (cstep # "teardown")
=============================================================================
