--------------------------- MODULE OperationGate ---------------------------
(***************************************************************************)
(* One browser session's operation gate: session/operation/gate.           *)
(*                                                                         *)
(* Every Playwright call on a session runs inside `operation()`, a         *)
(* re-entrant lease handed out in FIFO order.  The session's close is one   *)
(* more ticket in the same queue, the last one it ever accepts; a browser   *)
(* that dies on its own closes the gate without queueing; a housekeeping    *)
(* job breaks the gate when one lease is held past a ceiling.               *)
(*                                                                         *)
(* The daemon is one asyncio loop.  `_admission_lock` is never held across  *)
(* an await, so each locked section is one atomic step; what interleaves    *)
(* is everything between two awaits.  A lease's clean-up runs in a detached *)
(* ("shielded") task, so it is a step of its own, which its caller resumes  *)
(* from later: a cancellation can land before, between and after the two.   *)
(***************************************************************************)
EXTENDS Integers, Sequences, FiniteSets

CONSTANTS
    Tasks,      \* the asyncio tasks that call operation()
    Closer,     \* the close reservation's ticket and the task coordinating it
    None,       \* no owner, no marked task
    MaxDepth,   \* bound: nested operation() frames of one task
    MaxCancels  \* bound: cancellations one task receives from its client

ASSUME CloserAssumption == Closer \notin Tasks /\ None \notin Tasks \cup {Closer}
ASSUME BoundAssumption == MaxDepth \in Nat \ {0} /\ MaxCancels \in Nat

Procs == Tasks \cup {Closer}
NoBaseline == -1

VARIABLES
    state,        \* _state
    waiters,      \* _waiters: the FIFO of tickets not granted yet
    owner,        \* _owner_task
    depth,        \* _depth: re-entries of the owner
    grantedClose, \* _granted_close_reservation is the reservation: granted, not bound
    baseline,     \* _owner_cancel_baseline
    ceilingTask,  \* _ceiling_cancelled_task
    overdue,      \* the active lease has been held past the ceiling
    reservation,  \* _close_reservation: "none", "fifo", or "teardown" (teardown_only)
    outcome,      \* the reservation's shared outcome future
    pc,           \* where each task stands in operation() / close_operation()
    ready,        \* each ticket's ready future: pending, or why it was resolved
    frames,       \* the operation() frames a task has open
    exc,          \* how the task's current frame, or its last call, ended
    cancels,      \* Task.cancelling(): cancellations requested and not undone
    pending,      \* a CancelledError is due when the task next resumes
    blame         \* who cancelled the task during this call (history)

gate == <<state, waiters, owner, depth, grantedClose, baseline, ceilingTask, overdue>>
close == <<reservation, outcome>>
task == <<pc, ready, frames, exc, cancels, pending, blame>>
vars == <<state, waiters, owner, depth, grantedClose, baseline, ceilingTask,
          overdue, reservation, outcome, pc, ready, frames, exc, cancels,
          pending, blame>>

-----------------------------------------------------------------------------
(* Types.                                                                  *)

States == {"open", "closing", "closed", "broken"}
TaskPcs == {"idle", "waiting", "cleanup", "leaving", "body", "releasing", "unwinding"}
CloserPcs == {"none", "reserved", "waiting", "body", "releasing", "unwinding",
              "teardown", "settling", "done"}
Results == {"ok", "error", "busy", "closing", "closed", "broken",
            "withdrawn", "cancelled", "aborted"}
Tickets == {"none", "pending", "granted", "closed", "broken"}

(* The gate's fields and the tasks' program counters range over the values *)
(* the code gives them.                                                    *)
TypeOK ==
    /\ state \in States
    /\ waiters \in Seq(Procs)
    /\ owner \in Procs \cup {None}
    /\ depth \in Nat
    /\ grantedClose \in BOOLEAN
    /\ baseline \in Nat \cup {NoBaseline}
    /\ ceilingTask \in Procs \cup {None}
    /\ overdue \in BOOLEAN
    /\ reservation \in {"none", "fifo", "teardown"}
    /\ outcome \in {"pending", "ok", "error", "aborted"}
    /\ pc \in [Procs -> TaskPcs \cup CloserPcs]
    /\ ready \in [Procs -> Tickets]
    /\ frames \in [Tasks -> Nat]
    /\ exc \in [Procs -> Results]
    /\ cancels \in [Procs -> Nat]
    /\ pending \in [Procs -> BOOLEAN]
    /\ blame \in [Procs -> SUBSET {"client", "ceiling"}]

Init ==
    /\ state = "open" /\ waiters = <<>> /\ owner = None /\ depth = 0
    /\ grantedClose = FALSE /\ baseline = NoBaseline /\ ceilingTask = None
    /\ overdue = FALSE /\ reservation = "none" /\ outcome = "pending"
    /\ pc = [p \in Procs |-> IF p = Closer THEN "none" ELSE "idle"]
    /\ ready = [p \in Procs |-> "none"]
    /\ frames = [t \in Tasks |-> 0]
    /\ exc = [p \in Procs |-> "ok"]
    /\ cancels = [p \in Procs |-> 0]
    /\ pending = [p \in Procs |-> FALSE]
    /\ blame = [p \in Procs |-> {}]

-----------------------------------------------------------------------------
(* The queue.                                                              *)

Queued == {waiters[i] : i \in 1..Len(waiters)}

Vacant == owner = None /\ ~grantedClose

(* Mutant of GrantNext: the newest ticket is granted first.                 *)
GrantNewest(q, rdy, base, mark) ==
    /\ overdue' = FALSE /\ ceilingTask' = mark /\ baseline' = base
    /\ LET p == IF q = <<>> THEN None ELSE q[Len(q)] IN
       /\ waiters' = SubSeq(q, 1, Len(q) - 1)
       /\ ready' = [x \in Procs |-> IF x = p THEN "granted" ELSE rdy[x]]
       /\ grantedClose' = (p = Closer)
       /\ owner' = IF p = Closer THEN None ELSE p
       /\ depth' = IF p \in Tasks THEN 1 ELSE 0

(* _grant_next_locked, for a queue q, the tickets rdy and the cancel        *)
(* bookkeeping the caller leaves: with nobody active, the head of q gets    *)
(* the gate.  A task becomes the owner at once; the close ticket is only    *)
(* marked granted, its coordinator binds it later.                          *)
GrantNext(q, rdy, base, mark) ==
    /\ overdue' = FALSE
    /\ \/ /\ q = <<>>
          /\ waiters' = q
          /\ ready' = rdy
          /\ owner' = None
          /\ grantedClose' = FALSE
          /\ depth' = 0
          /\ baseline' = base
          /\ ceilingTask' = mark
       \/ /\ q # <<>>
          /\ waiters' = Tail(q)
          /\ ready' = [rdy EXCEPT ![Head(q)] = "granted"]
          /\ IF Head(q) = Closer
             THEN /\ owner' = None
                  /\ grantedClose' = TRUE
                  /\ depth' = 0
                  /\ baseline' = base
                  /\ ceilingTask' = mark
             ELSE /\ owner' = Head(q)
                  /\ grantedClose' = FALSE
                  /\ depth' = 1
                  /\ baseline' = cancels[Head(q)]
                  /\ ceilingTask' = None

(* A new ticket joins the queue and is granted at once when it can be.      *)
Enqueue(p) ==
    LET rdy == [ready EXCEPT ![p] = "pending"] IN
    IF Vacant
    THEN GrantNext(Append(waiters, p), rdy, baseline, ceilingTask)
    ELSE /\ waiters' = Append(waiters, p)
         /\ ready' = rdy
         /\ UNCHANGED <<owner, depth, grantedClose, baseline, ceilingTask, overdue>>

(* Mutant of FailQueued: the queue is dropped without a word to its tickets.*)
DropQueued(error) == waiters' = <<>> /\ ready' = ready

(* _fail_queued_locked: every ticket still queued gets the error, and the   *)
(* queue is emptied.                                                        *)
FailQueued(error) ==
    /\ waiters' = <<>>
    /\ ready' = [p \in Procs |-> IF p \in Queued THEN error ELSE ready[p]]

(* The queue without its i-th ticket.                                       *)
Without(i) == SubSeq(waiters, 1, i - 1) \o SubSeq(waiters, i + 1, Len(waiters))

-----------------------------------------------------------------------------
(* A task's call of operation().                                           *)

(* _acquire up to its first await, for a task with no lease here: refused   *)
(* with the error of the gate's state unless it is open, else a ticket at   *)
(* the tail.                                                                *)
Acquire(t) ==
    /\ pc[t] = "idle"
    /\ blame' = [blame EXCEPT ![t] = {}]
    /\ \/ /\ state = "open"
          /\ Enqueue(t)
          /\ pc' = [pc EXCEPT ![t] = "waiting"]
          /\ exc' = [exc EXCEPT ![t] = "ok"]
       \/ /\ state # "open"
          /\ exc' = [exc EXCEPT ![t] = state]
          /\ UNCHANGED <<gate, pc, ready>>
    /\ UNCHANGED <<state, close, frames, cancels, pending>>

(* The awaited ticket was granted and the task resumes with the lease.      *)
Resume(t) ==
    /\ pc[t] = "waiting" /\ ready[t] = "granted" /\ ~pending[t]
    /\ pc' = [pc EXCEPT ![t] = "body"]
    /\ frames' = [frames EXCEPT ![t] = 1]
    /\ UNCHANGED <<gate, close, ready, exc, cancels, pending, blame>>

(* The wait ends without a lease, cancelled or failed with the queue.  The  *)
(* ticket is cleaned up before the caller hears of it.                      *)
GiveUp(t) ==
    /\ pc[t] = "waiting"
    /\ \/ /\ pending[t]
          /\ exc' = [exc EXCEPT ![t] = "withdrawn"]
       \/ /\ ~pending[t] /\ ready[t] \in {"closed", "broken"}
          /\ exc' = [exc EXCEPT ![t] = ready[t]]
    /\ pending' = [pending EXCEPT ![t] = FALSE]
    /\ pc' = [pc EXCEPT ![t] = "cleanup"]
    /\ UNCHANGED <<gate, close, ready, frames, cancels, blame>>

(* The queue timeout fires, even if the ticket has been granted (or failed) *)
(* and the task was about to hear of it.                                    *)
QueueTimeout(t) ==
    /\ pc[t] = "waiting" /\ ~pending[t]
    /\ exc' = [exc EXCEPT ![t] = "busy"]
    /\ pc' = [pc EXCEPT ![t] = "cleanup"]
    /\ UNCHANGED <<gate, close, ready, frames, cancels, pending, blame>>

(* Mutants of Cleanup: a ticket granted meanwhile is not given back; a frame*)
(* of whoever holds the lease is given back.                                *)
CleanupQueuedOnly(t) ==
    /\ pc[t] = "cleanup"
    /\ pc' = [pc EXCEPT ![t] = "leaving"]
    /\ \/ \E i \in 1..Len(waiters) : waiters[i] = t /\ waiters' = Without(i)
       \/ t \notin Queued /\ UNCHANGED waiters
    /\ UNCHANGED <<state, owner, depth, grantedClose, baseline, ceilingTask, overdue,
                   close, ready, frames, exc, cancels, pending, blame>>

CleanupAnyFrame(t) ==
    /\ pc[t] = "cleanup" /\ t \notin Queued
    /\ pc' = [pc EXCEPT ![t] = "leaving"]
    /\ depth' = depth - 1
    /\ UNCHANGED <<state, waiters, owner, grantedClose, baseline, ceilingTask, overdue,
                   close, ready, frames, exc, cancels, pending, blame>>

(* _cleanup_waiter: a ticket still queued leaves the queue; one granted in  *)
(* the meantime gives the gate back, so no owner is left that will never    *)
(* run.                                                                     *)
Cleanup(t) ==
    /\ pc[t] = "cleanup"
    /\ pc' = [pc EXCEPT ![t] = "leaving"]
    /\ \/ \E i \in 1..Len(waiters) :
             /\ waiters[i] = t
             /\ waiters' = Without(i)
             /\ UNCHANGED <<owner, depth, grantedClose, baseline, ceilingTask, overdue, ready>>
       \/ /\ t \notin Queued /\ owner = t
          /\ GrantNext(waiters, ready, NoBaseline, None)
       \/ /\ t \notin Queued /\ owner # t
          /\ UNCHANGED <<waiters, owner, depth, grantedClose, baseline, ceilingTask, overdue, ready>>
    /\ UNCHANGED <<state, close, frames, exc, cancels, pending, blame>>

(* The caller resumes after the shielded clean-up; a cancellation that      *)
(* landed meanwhile replaces the error it was about to see.                 *)
Leave(t) ==
    /\ pc[t] = "leaving"
    /\ pc' = [pc EXCEPT ![t] = "idle"]
    /\ exc' = IF pending[t] THEN [exc EXCEPT ![t] = "withdrawn"] ELSE exc
    /\ pending' = [pending EXCEPT ![t] = FALSE]
    /\ UNCHANGED <<gate, close, ready, frames, cancels, blame>>

(* _acquire by the owner: one more frame, before any look at the state.     *)
Reenter(t) ==
    /\ pc[t] = "body" /\ ~pending[t] /\ owner = t
    /\ frames[t] < MaxDepth
    /\ depth' = depth + 1
    /\ frames' = [frames EXCEPT ![t] = @ + 1]
    /\ UNCHANGED <<state, waiters, owner, grantedClose, baseline, ceilingTask, overdue,
                   close, pc, ready, exc, cancels, pending, blame>>

(* The innermost body returns, or raises an error of its own.               *)
BodyExit(t) ==
    /\ pc[t] = "body" /\ ~pending[t]
    /\ \E how \in {"ok", "error"} : exc' = [exc EXCEPT ![t] = how]
    /\ pc' = [pc EXCEPT ![t] = "releasing"]
    /\ UNCHANGED <<gate, close, ready, frames, cancels, pending, blame>>

(* Mutant of Absorbed: the ceiling's mark alone decides.                    *)
AbsorbedByMark(t) == ceilingTask = t /\ baseline # NoBaseline

(* _absorb_ceiling_cancel: is the arriving CancelledError the ceiling's and *)
(* nobody else's?                                                           *)
Absorbed(t) ==
    /\ ceilingTask = t
    /\ baseline # NoBaseline
    /\ cancels[t] - 1 <= baseline

(* What a CancelledError arriving in a lease turns into; uncancel() never   *)
(* goes below zero.                                                         *)
CancelOutcome(t) == IF Absorbed(t) THEN "aborted" ELSE "cancelled"

TakeCancel(t) ==
    /\ pending' = [pending EXCEPT ![t] = FALSE]
    /\ ceilingTask' = IF ceilingTask = t THEN None ELSE ceilingTask
    /\ cancels' = IF ceilingTask = t /\ baseline # NoBaseline /\ cancels[t] > 0
                  THEN [cancels EXCEPT ![t] = @ - 1] ELSE cancels

(* operation()'s except CancelledError.                                     *)
BodyCancelled(t) ==
    /\ pc[t] = "body" /\ pending[t]
    /\ TakeCancel(t)
    /\ exc' = [exc EXCEPT ![t] = CancelOutcome(t)]
    /\ pc' = [pc EXCEPT ![t] = "releasing"]
    /\ UNCHANGED <<state, waiters, owner, depth, grantedClose, baseline, overdue,
                   close, ready, frames, blame>>

(* Mutant of Release: the gate is freed and nobody is granted next.         *)
ReleaseSilently(t) ==
    /\ pc[t] = "releasing" /\ owner = t
    /\ pc' = [pc EXCEPT ![t] = "unwinding"]
    /\ depth' = depth - 1
    /\ owner' = IF depth = 1 THEN None ELSE owner
    /\ UNCHANGED <<state, waiters, grantedClose, baseline, ceilingTask, overdue,
                   close, ready, frames, exc, cancels, pending, blame>>

(* _release, in its shielded task: the last frame hands the gate on.  The   *)
(* cancel baseline and the ceiling's mark outlive it for operation()'s      *)
(* check after the release.                                                 *)
Release(t) ==
    /\ pc[t] = "releasing" /\ owner = t
    /\ pc' = [pc EXCEPT ![t] = "unwinding"]
    /\ \/ /\ depth = 1
          /\ GrantNext(waiters, ready, baseline, ceilingTask)
       \/ /\ depth > 1
          /\ depth' = depth - 1
          /\ UNCHANGED <<waiters, ready, owner, grantedClose, baseline, ceilingTask, overdue>>
    /\ UNCHANGED <<state, close, frames, exc, cancels, pending, blame>>

(* Where a frame that ended as e leaves its task: back with its caller, or  *)
(* in the enclosing body, which may swallow an Exception (macro_artifact_   *)
(* run does) but not a CancelledError.                                      *)
FrameEnds(t, e) ==
    /\ frames' = [frames EXCEPT ![t] = @ - 1]
    /\ \/ /\ frames[t] = 1
          /\ pc' = [pc EXCEPT ![t] = "idle"]
          /\ exc' = [exc EXCEPT ![t] = e]
       \/ /\ frames[t] > 1 /\ e # "cancelled"
          /\ pc' = [pc EXCEPT ![t] = "body"]
          /\ exc' = [exc EXCEPT ![t] = "ok"]
       \/ /\ frames[t] > 1 /\ e # "ok"
          /\ pc' = [pc EXCEPT ![t] = "releasing"]
          /\ exc' = [exc EXCEPT ![t] = e]

(* operation() resumes after the shielded release; a CancelledError raised  *)
(* there goes through the same check as one raised in the body.             *)
Unwind(t) ==
    /\ pc[t] = "unwinding"
    /\ \/ /\ pending[t]
          /\ TakeCancel(t)
          /\ FrameEnds(t, CancelOutcome(t))
       \/ /\ ~pending[t]
          /\ FrameEnds(t, exc[t])
          /\ UNCHANGED <<pending, ceilingTask, cancels>>
    /\ UNCHANGED <<state, waiters, owner, depth, grantedClose, baseline, overdue,
                   close, ready, blame>>

(* The next caller in this slot is a new task, with no cancellation counted.*)
NewTask(t) ==
    /\ pc[t] = "idle" /\ cancels[t] > 0
    /\ cancels' = [cancels EXCEPT ![t] = 0]
    /\ UNCHANGED <<gate, close, pc, ready, frames, exc, pending, blame>>

-----------------------------------------------------------------------------
(* What reaches a call from outside.                                       *)

(* The client disconnects, or the daemon cancels the request task: delivered*)
(* at the task's next resume, merged with one already due.                  *)
Cancel(t) ==
    /\ pc[t] # "idle" /\ cancels[t] < MaxCancels
    /\ cancels' = [cancels EXCEPT ![t] = @ + 1]
    /\ pending' = [pending EXCEPT ![t] = TRUE]
    /\ blame' = [blame EXCEPT ![t] = @ \cup {"client"}]
    /\ UNCHANGED <<gate, close, pc, ready, frames, exc>>

(* The clock passes the active lease's ceiling.                             *)
Tick ==
    /\ owner # None /\ ~overdue
    /\ overdue' = TRUE
    /\ UNCHANGED <<state, waiters, owner, depth, grantedClose, baseline, ceilingTask,
                   close, task>>

(* enforce_active_timeout, from housekeeping, for a gate in one of these    *)
(* states: mark and cancel the owner, break the gate, fail everyone queued. *)
BreakIn(states) ==
    /\ state \in states
    /\ owner # None /\ overdue
    /\ ceilingTask' = owner
    /\ cancels' = [cancels EXCEPT ![owner] = @ + 1]
    /\ pending' = [pending EXCEPT ![owner] = TRUE]
    /\ blame' = [blame EXCEPT ![owner] = @ \cup {"ceiling"}]
    /\ state' = "broken"
    /\ FailQueued("broken")
    /\ UNCHANGED <<owner, depth, grantedClose, baseline, overdue, close, pc, frames, exc>>

(* Mutants of Ceiling: it breaks a closed gate too; only an open one.       *)
CeilingClosedToo == BreakIn(States \ {"broken"})
CeilingOpenOnly == BreakIn({"open"})

Ceiling == BreakIn({"open", "closing"})

-----------------------------------------------------------------------------
(* The close.                                                              *)

(* Mutants of ReserveClose: the cutoff is not recorded; the ticket is taken *)
(* and the coordinator does not wait for it.                                *)
ReserveUncut ==
    /\ reservation = "none" /\ state = "open"
    /\ pc' = [pc EXCEPT ![Closer] = "reserved"]
    /\ reservation' = "fifo"
    /\ Enqueue(Closer)
    /\ UNCHANGED <<state, outcome, frames, exc, cancels, pending, blame>>

ReserveAndBarge ==
    /\ reservation = "none" /\ state = "open"
    /\ pc' = [pc EXCEPT ![Closer] = "reserved"]
    /\ reservation' = "teardown"
    /\ state' = "closing"
    /\ Enqueue(Closer)
    /\ UNCHANGED <<outcome, frames, exc, cancels, pending, blame>>

(* reserve_close, for a session with no reservation yet, and the detached   *)
(* coordinator spawned for it: the last ticket an open gate takes, or, when *)
(* the gate is broken, the right to tear down without one.                  *)
ReserveClose ==
    /\ reservation = "none"
    /\ pc' = [pc EXCEPT ![Closer] = "reserved"]
    /\ \/ /\ state = "broken"
          /\ reservation' = "teardown"
          /\ ready' = [ready EXCEPT ![Closer] = "granted"]
          /\ UNCHANGED gate
       \/ /\ state = "open"
          /\ reservation' = "fifo"
          /\ state' = "closing"
          /\ Enqueue(Closer)
    /\ UNCHANGED <<outcome, frames, exc, cancels, pending, blame>>

(* accept_external_close_nowait: the browser is gone, so the gate closes at *)
(* once, whoever holds it, and everyone queued is failed.  A close already  *)
(* reserved keeps its coordinator; otherwise one is spawned to tear down.   *)
AcceptExternalClose ==
    /\ state # "closed"
    /\ state' = "closed"
    /\ \/ /\ reservation = "none"
          /\ reservation' = "teardown"
          /\ waiters' = <<>>
          /\ ready' = [p \in Procs |-> IF p = Closer THEN "granted"
                                       ELSE IF p \in Queued THEN "closed" ELSE ready[p]]
          /\ pc' = [pc EXCEPT ![Closer] = "reserved"]
       \/ /\ reservation # "none"
          /\ FailQueued("closed")
          /\ UNCHANGED <<reservation, pc>>
    /\ UNCHANGED <<owner, depth, grantedClose, baseline, ceilingTask, overdue,
                   outcome, frames, exc, cancels, pending, blame>>

(* The coordinator starts: teardown_only bodies run with no lease at all.   *)
StartClose ==
    /\ pc[Closer] = "reserved"
    /\ pc' = [pc EXCEPT ![Closer] =
                 IF reservation = "teardown" THEN "teardown" ELSE "waiting"]
    /\ UNCHANGED <<gate, close, ready, frames, exc, cancels, pending, blame>>

(* close_operation binds the granted ticket to the coordinator's task.      *)
BindClose ==
    /\ pc[Closer] = "waiting" /\ ready[Closer] = "granted"
    /\ state # "closed" /\ grantedClose
    /\ grantedClose' = FALSE
    /\ owner' = Closer
    /\ overdue' = FALSE
    /\ baseline' = cancels[Closer]
    /\ depth' = 1
    /\ pc' = [pc EXCEPT ![Closer] = "body"]
    /\ UNCHANGED <<state, waiters, ceilingTask, close, ready, frames, exc, cancels, pending, blame>>

(* close_operation raises instead: an external close came first (queued, or *)
(* in the grant-to-bind gap), and the coordinator tears down without a      *)
(* lease; or the gate broke, and it tears down nothing.                     *)
CloseRefused ==
    /\ pc[Closer] = "waiting"
    /\ \/ /\ \/ ready[Closer] = "closed"
             \/ ready[Closer] = "granted" /\ state = "closed"
          /\ grantedClose' = FALSE
          /\ exc' = [exc EXCEPT ![Closer] = "closed"]
          /\ pc' = [pc EXCEPT ![Closer] = "teardown"]
       \/ /\ ready[Closer] = "broken"
          /\ exc' = [exc EXCEPT ![Closer] = "broken"]
          /\ pc' = [pc EXCEPT ![Closer] = "settling"]
          /\ UNCHANGED grantedClose
    /\ UNCHANGED <<state, waiters, owner, depth, baseline, ceilingTask, overdue,
                   close, ready, frames, cancels, pending, blame>>

(* The close body ends.  A cancellation (only the ceiling can reach the     *)
(* detached coordinator) is swallowed by the teardown helper, which keeps   *)
(* it as its error, or propagates from the step before it.                  *)
CloseBodyExit ==
    /\ pc[Closer] = "body"
    /\ \E how \in {"ok", "cancelled"} :
          /\ how = "cancelled" => pending[Closer]
          /\ exc' = [exc EXCEPT ![Closer] = how]
    /\ pending' = [pending EXCEPT ![Closer] = FALSE]
    /\ pc' = [pc EXCEPT ![Closer] = "releasing"]
    /\ UNCHANGED <<gate, close, ready, frames, cancels, blame>>

(* _release_close: the lease ends and nobody is granted next.  After a body *)
(* that raised, fail_close closes the gate and resolves the outcome here.   *)
ReleaseClose ==
    /\ pc[Closer] = "releasing" /\ owner = Closer
    /\ owner' = None
    /\ depth' = 0
    /\ overdue' = FALSE
    /\ baseline' = NoBaseline
    /\ ceilingTask' = None
    /\ pc' = [pc EXCEPT ![Closer] = "unwinding"]
    /\ \/ /\ exc[Closer] = "ok"
          /\ UNCHANGED <<state, waiters, ready, outcome>>
       \/ /\ exc[Closer] # "ok"
          /\ state' = "closed"
          /\ FailQueued("closed")
          /\ outcome' = IF outcome = "pending" THEN "aborted" ELSE outcome
    /\ UNCHANGED <<grantedClose, reservation, frames, exc, cancels, pending, blame>>

(* close_operation resumes after the shielded release.                      *)
UnwindClose ==
    /\ pc[Closer] = "unwinding"
    /\ pc' = [pc EXCEPT ![Closer] = "settling"]
    /\ exc' = IF pending[Closer] THEN [exc EXCEPT ![Closer] = "cancelled"] ELSE exc
    /\ pending' = [pending EXCEPT ![Closer] = FALSE]
    /\ UNCHANGED <<gate, close, ready, frames, cancels, blame>>

(* A teardown with no lease ends.                                           *)
TeardownEnds ==
    /\ pc[Closer] = "teardown"
    /\ pc' = [pc EXCEPT ![Closer] = "settling"]
    /\ UNCHANGED <<gate, close, ready, frames, exc, cancels, pending, blame>>

(* complete_close / fail_close: the gate is closed and the outcome resolved,*)
(* unless it already was.  A CancelledError is normalised to "aborted", but  *)
(* an error the body met before it stays the one reported.                  *)
ResolveClose ==
    /\ pc[Closer] = "settling"
    /\ pc' = [pc EXCEPT ![Closer] = "done"]
    /\ state' = "closed"
    /\ FailQueued("closed")
    /\ \E r \in {"ok", "error", "aborted"} :
          /\ exc[Closer] = "cancelled" => r # "ok"
          /\ exc[Closer] = "broken" => r = "error"
          /\ outcome' = IF outcome = "pending" THEN r ELSE outcome
    /\ UNCHANGED <<owner, depth, grantedClose, baseline, ceilingTask, overdue,
                   reservation, frames, exc, cancels, pending, blame>>

-----------------------------------------------------------------------------
Step(t) ==
    \/ Acquire(t) \/ Resume(t) \/ GiveUp(t) \/ QueueTimeout(t) \/ Cleanup(t) \/ Leave(t)
    \/ Reenter(t) \/ BodyExit(t) \/ BodyCancelled(t) \/ Release(t) \/ Unwind(t)
    \/ NewTask(t) \/ Cancel(t)

CloseStep ==
    \/ ReserveClose \/ AcceptExternalClose \/ StartClose \/ BindClose
    \/ CloseRefused \/ CloseBodyExit \/ ReleaseClose \/ UnwindClose
    \/ TeardownEnds \/ ResolveClose

Next == (\E t \in Tasks : Step(t)) \/ CloseStep \/ Tick \/ Ceiling

(* The event loop runs every task that can resume and every shielded task;  *)
(* housekeeping keeps running its ceiling check; the close's own Playwright *)
(* calls end.  Nothing obliges an operation's body to end, a client to call,*)
(* or a queue timeout to be configured.                                     *)
Fairness ==
    /\ \A t \in Tasks :
          /\ WF_vars(Resume(t))
          /\ WF_vars(GiveUp(t)) /\ WF_vars(Cleanup(t)) /\ WF_vars(Leave(t))
          /\ WF_vars(BodyCancelled(t)) /\ WF_vars(Release(t)) /\ WF_vars(Unwind(t))
    /\ WF_vars(Tick) /\ WF_vars(Ceiling)
    /\ WF_vars(StartClose) /\ WF_vars(BindClose) /\ WF_vars(CloseRefused)
    /\ WF_vars(CloseBodyExit)
    /\ WF_vars(ReleaseClose) /\ WF_vars(UnwindClose)
    /\ WF_vars(TeardownEnds) /\ WF_vars(ResolveClose)

Spec == Init /\ [][Next]_vars
FairSpec == Spec /\ Fairness

-----------------------------------------------------------------------------
(* Safety.                                                                 *)

(* Leases a task has been granted and not yet released.                     *)
Held(t) == IF pc[t] = "unwinding" THEN frames[t] - 1 ELSE frames[t]

Inside(p) ==
    IF p = Closer THEN pc[Closer] \in {"body", "releasing"} ELSE Held(p) > 0

(* At most one task is between the grant of its lease and its release, and  *)
(* it is the one the gate takes for the owner: no Playwright call of two    *)
(* tasks overlap, and no release ever finds the gate owned by another.      *)
MutualExclusion ==
    \A p \in Procs : Inside(p) => owner = p

(* A vacant gate has no queue: no release, clean-up or failed grant leaves  *)
(* a ticket waiting for a wake-up that will not come.                       *)
NoLostWakeup == Vacant => waiters = <<>>

(* The owner is a task that is in its lease or is about to resume into it   *)
(* or hand it back; the close ticket's grant has a coordinator to bind it.  *)
NoPhantomOwner ==
    /\ owner \in Tasks =>
          \/ Inside(owner)
          \/ pc[owner] \in {"waiting", "cleanup"} /\ ready[owner] = "granted"
    /\ owner = Closer => Inside(Closer)
    /\ grantedClose => pc[Closer] \in {"reserved", "waiting"}

(* The gate's depth is the number of frames its owner still has to release, *)
(* so the lease is passed on by the outermost one and by no other.          *)
DepthCountsFrames ==
    \A t \in Tasks : Inside(t) => depth = Held(t)

(* The lease is held by one live task, as many frames deep as the gate's    *)
(* depth says: it cannot be shared, lost with the task that had it, or      *)
(* passed on while its holder still has a frame.                            *)
LeaseHeld == MutualExclusion /\ NoPhantomOwner /\ DepthCountsFrames

(* The close ticket is the last the gate ever takes: nobody stands behind   *)
(* it, and once it is granted nobody waits at all.                          *)
CloseIsLast ==
    /\ Closer \in Queued => waiters[Len(waiters)] = Closer
    /\ grantedClose \/ owner = Closer => waiters = <<>>

(* A call the client cancelled is never reported as aborted by the ceiling: *)
(* a genuine cancellation survives the ceiling's conversion.                *)
GenuineCancelSurvives ==
    \A t \in Tasks : pc[t] = "idle" /\ exc[t] = "aborted" => "client" \notin blame[t]

(* A lease that only the ceiling cancelled never ends its call with a bare  *)
(* CancelledError, wherever the cancellation lands in the lease.            *)
CeilingNeverBare ==
    \A t \in Tasks : pc[t] = "idle" /\ exc[t] = "cancelled" => "client" \in blame[t]

(* Every cancelled call ends the way its canceller requires: the client's   *)
(* cancellation goes through, the ceiling's becomes an abort.               *)
CancelsAccounted == GenuineCancelSurvives /\ CeilingNeverBare

(* The gate is a line: whoever owns it, or the close ticket granted and not *)
(* bound yet, is at the head, and the queue stands behind.  So nobody is    *)
(* overtaken, nobody is served twice or beside another, a vacant gate keeps *)
(* nobody waiting, and nobody joins behind the close.                       *)
Serving ==
    IF owner # None THEN <<owner>>
    ELSE IF grantedClose THEN <<Closer>> ELSE <<>>

Line == INSTANCE LeaseLine
            WITH Callers <- Tasks, Last <- Closer,
                 line <- Serving \o waiters, open <- (state = "open")

ServesInLine == Line!Spec

(* Nothing reopens the gate, a closed gate stays closed, and only the       *)
(* ceiling breaks one: no release by a stranger ever does.                  *)
CutoffIsFinal ==
    [][/\ state # "open" => state' # "open"
       /\ state = "closed" => state' = "closed"
       /\ state' = "broken" /\ state # "broken" => overdue /\ owner # None]_vars

(* The outcome of a close is resolved once and never revised.               *)
OutcomeIsFinal == [][outcome # "pending" => outcome' = outcome]_vars

(* A session's end is final, in the gate's state and in what the close's    *)
(* waiters were told, although the ceiling and the close ticket race for it.*)
CloseIsFinal == CutoffIsFinal /\ OutcomeIsFinal

(* enforce_active_timeout's docstring: once the gate is broken a subsequent *)
(* operation fails fast.                                                    *)
NoLeaseAfterBreak ==
    [][state = "broken" => depth' <= depth]_vars

-----------------------------------------------------------------------------
(* Liveness.                                                               *)

(* Every ticket is answered even if the queue has no timeout and the body   *)
(* it waits behind never ends: the ceiling cancels the holder.              *)
TicketAnswered == \A t \in Tasks : (pc[t] = "waiting") ~> (pc[t] # "waiting")

(* Once reserved, a close resolves its outcome, whoever holds the gate and  *)
(* whatever else ends the session first.                                    *)
CloseResolves == (reservation # "none") ~> (outcome # "pending")

(* Nobody waits for this gate for ever: callers and close alike.            *)
EveryoneAnswered == TicketAnswered /\ CloseResolves
=============================================================================
