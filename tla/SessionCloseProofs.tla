------------------------- MODULE SessionCloseProofs -------------------------
(* What holds of the operation gate for any set of tasks and any bounds, and *)
(* of the session's close, which runs through it.                           *)
EXTENDS SessionClose, SequenceTheorems, TLAPS

(* Dropping a ticket from the queue leaves a queue.                         *)
LEMMA WithoutType ==
    ASSUME waiters \in Seq(Procs), NEW i \in 1..Len(waiters)
    PROVE  Without(i) \in Seq(Procs)
BY DEF Without

(* _grant_next_locked keeps every field it writes in its type.              *)
LEMMA GrantNextType ==
    ASSUME TypeOK, NEW q \in Seq(Procs), NEW rdy \in [Procs -> Tickets],
           NEW base \in Nat \cup {NoBaseline}, NEW mark \in Procs \cup {None},
           GrantNext(q, rdy, base, mark)
    PROVE  /\ waiters' \in Seq(Procs)
           /\ ready' \in [Procs -> Tickets]
           /\ owner' \in Procs \cup {None}
           /\ grantedClose' \in BOOLEAN
           /\ depth' \in Nat
           /\ baseline' \in Nat \cup {NoBaseline}
           /\ ceilingTask' \in Procs \cup {None}
           /\ overdue' \in BOOLEAN
<1>0. grantedClose' \in BOOLEAN /\ overdue' \in BOOLEAN
    BY Zenon DEF GrantNext
<1>1. CASE q = <<>>
    BY <1>0, <1>1 DEF GrantNext, TypeOK
<1>2. CASE q # <<>>
    <2>1. Head(q) \in Procs /\ Tail(q) \in Seq(Procs)
        BY <1>2
    <2>2. waiters' \in Seq(Procs) /\ ready' \in [Procs -> Tickets]
        BY <1>2, <2>1 DEF GrantNext, Tickets
    <2>3. CASE Head(q) = Closer
        BY <1>0, <1>2, <2>2, <2>3 DEF GrantNext
    <2>4. CASE Head(q) # Closer
        BY <1>0, <1>2, <2>1, <2>2, <2>4 DEF GrantNext, TypeOK
    <2>5. QED BY <2>3, <2>4
<1>3. QED BY <1>1, <1>2

(* A ticket joining the queue keeps every field in its type.                *)
LEMMA EnqueueType ==
    ASSUME TypeOK, NEW p \in Procs, Enqueue(p)
    PROVE  /\ waiters' \in Seq(Procs)
           /\ ready' \in [Procs -> Tickets]
           /\ owner' \in Procs \cup {None}
           /\ grantedClose' \in BOOLEAN
           /\ depth' \in Nat
           /\ baseline' \in Nat \cup {NoBaseline}
           /\ ceilingTask' \in Procs \cup {None}
           /\ overdue' \in BOOLEAN
<1> DEFINE rdy == [ready EXCEPT ![p] = "pending"]
<1>1. rdy \in [Procs -> Tickets] /\ Append(waiters, p) \in Seq(Procs)
    BY DEF TypeOK, Tickets
<1>2. CASE Vacant
    <2>1. GrantNext(Append(waiters, p), rdy, baseline, ceilingTask)
        BY <1>2 DEF Enqueue
    <2>2. QED BY <1>1, <2>1, GrantNextType DEF TypeOK
<1>3. CASE ~Vacant
    BY <1>1, <1>3 DEF Enqueue, TypeOK
<1>4. QED BY <1>2, <1>3

(* Failing the queue leaves an empty one, and every ticket with a verdict.  *)
LEMMA FailQueuedType ==
    ASSUME TypeOK, NEW why \in Tickets, FailQueued(why)
    PROVE  waiters' \in Seq(Procs) /\ ready' \in [Procs -> Tickets]
BY DEF FailQueued, TypeOK

(* The initial state is of the types the code gives its fields.             *)
LEMMA InitType == Init => TypeOK
<1> SUFFICES ASSUME Init PROVE TypeOK
    OBVIOUS
<1>1. grantedClose \in BOOLEAN /\ overdue \in BOOLEAN
    BY Zenon DEF Init
<1>2. pending \in [Procs -> BOOLEAN]
    BY Zenon DEF Init
<1>3. pc \in [Procs -> TaskPcs \cup CloserPcs]
    BY DEF Init, TaskPcs, CloserPcs
<1> QED BY <1>1, <1>2, <1>3
   DEF Init, TypeOK, Procs, States, TaskPcs, CloserPcs, Tickets, Results, NoBaseline

(* Consuming a cancellation clears the ceiling's mark or leaves it, and      *)
(* lowers a count that was positive.                                        *)
LEMMA TakeCancelType ==
    ASSUME TypeOK, NEW t \in Procs, TakeCancel(t)
    PROVE  /\ ceilingTask' \in Procs \cup {None}
           /\ cancels' \in [Procs -> Nat]
           /\ pending' \in [Procs -> BOOLEAN]
<1>1. ceilingTask \in Procs \cup {None} /\ cancels \in [Procs -> Nat]
    BY DEF TypeOK
<1>2. cancels' \in [Procs -> Nat]
    <2>1. CASE ceilingTask = t /\ baseline # NoBaseline /\ cancels[t] > 0
        <3>1. cancels[t] - 1 \in Nat
            BY <1>1, <2>1
        <3>2. cancels' = [cancels EXCEPT ![t] = cancels[t] - 1]
            BY <2>1 DEF TakeCancel
        <3>3. QED BY <1>1, <3>1, <3>2
    <2>2. CASE ~(ceilingTask = t /\ baseline # NoBaseline /\ cancels[t] > 0)
        BY <1>1, <2>2 DEF TakeCancel
    <2>3. QED BY <2>1, <2>2
<1>3. ceilingTask' \in Procs \cup {None}
    BY <1>1 DEF TakeCancel
<1>4. pending' \in [Procs -> BOOLEAN]
    BY DEF TakeCancel, TypeOK
<1>5. QED BY <1>2, <1>3, <1>4

(* Every handler, whole, keeps every field in its type.                     *)
LEMMA StepType ==
    ASSUME TypeOK, NEW t \in Tasks, Step(t)
    PROVE  TypeOK'
<1> USE DEF TypeOK, Procs
<1>1. CASE Acquire(t)
    <2>1. CASE state = "open"
        <3>1. Enqueue(t)
            BY <1>1, <2>1 DEF Acquire
        <3>2. /\ waiters' \in Seq(Procs) /\ ready' \in [Procs -> Tickets]
              /\ owner' \in Procs \cup {None} /\ grantedClose' \in BOOLEAN
              /\ depth' \in Nat /\ baseline' \in Nat \cup {NoBaseline}
              /\ ceilingTask' \in Procs \cup {None} /\ overdue' \in BOOLEAN
            BY <3>1, EnqueueType
        <3>3. pc' \in [Procs -> TaskPcs \cup CloserPcs] /\ exc' \in [Procs -> Results]
            BY <1>1, <2>1 DEF Acquire, TaskPcs, Results
        <3>4. QED BY <1>1, <2>1, <3>2, <3>3 DEF Acquire, close
    <2>2. CASE state # "open"
        <3>1. /\ UNCHANGED <<gate, close, pc, ready, frames, cancels, pending>>
              /\ exc' = [exc EXCEPT ![t] = state]
              /\ blame' = [blame EXCEPT ![t] = {}]
            BY <1>1, <2>2 DEF Acquire, gate
        <3>2. state \in Results
            BY <2>2 DEF States, Results
        <3>3. exc' \in [Procs -> Results]
            BY <3>1, <3>2
        <3>4. blame' \in [Procs -> SUBSET {"client", "ceiling"}]
            BY <3>1
        <3>5. QED BY <3>1, <3>3, <3>4 DEF gate, close
    <2>3. QED BY <2>1, <2>2
<1>2. CASE Resume(t)
    BY <1>2 DEF Resume, gate, close, TaskPcs
<1>3. CASE GiveUp(t)
    BY <1>3 DEF GiveUp, gate, close, TaskPcs, Results
<1>4. CASE QueueTimeout(t)
    BY <1>4 DEF QueueTimeout, gate, close, TaskPcs, Results
<1>5. CASE Cleanup(t)
    BY <1>5, WithoutType, GrantNextType DEF Cleanup, close, TaskPcs
<1>6. CASE Leave(t)
    BY <1>6 DEF Leave, gate, close, TaskPcs, Results
<1>7. CASE Reenter(t)
    BY <1>7 DEF Reenter, close
<1>8. CASE BodyExit(t)
    BY <1>8 DEF BodyExit, gate, close, TaskPcs, Results
<1>9. CASE BodyCancelled(t)
    BY <1>9 DEF BodyCancelled, TakeCancel, CancelOutcome, close, TaskPcs, Results
<1>10. CASE Release(t)
    <2>1. CASE depth = 1
        <3>1. GrantNext(waiters, ready, baseline, ceilingTask)
            BY <1>10, <2>1 DEF Release
        <3>2. /\ waiters' \in Seq(Procs) /\ ready' \in [Procs -> Tickets]
              /\ owner' \in Procs \cup {None} /\ grantedClose' \in BOOLEAN
              /\ depth' \in Nat /\ baseline' \in Nat \cup {NoBaseline}
              /\ ceilingTask' \in Procs \cup {None} /\ overdue' \in BOOLEAN
            BY <3>1, GrantNextType
        <3>3. QED BY <1>10, <3>2 DEF Release, close, TaskPcs
    <2>2. CASE depth > 1
        BY <1>10, <2>2 DEF Release, close, TaskPcs
    <2>3. QED BY <1>10, <2>1, <2>2 DEF Release
<1>11. CASE Unwind(t)
    <2>1. CancelOutcome(t) \in Results /\ exc[t] \in Results
        BY DEF CancelOutcome, Results
    <2>2. ASSUME NEW e \in Results, FrameEnds(t, e)
          PROVE  /\ pc' \in [Procs -> TaskPcs \cup CloserPcs]
                 /\ exc' \in [Procs -> Results]
                 /\ frames' \in [Tasks -> Nat]
        <3>1. frames[t] - 1 \in Nat
            BY <2>2 DEF FrameEnds
        <3>2. frames' \in [Tasks -> Nat]
            BY <2>2, <3>1 DEF FrameEnds
        <3>3. pc' \in [Procs -> TaskPcs \cup CloserPcs]
            BY <2>2 DEF FrameEnds, TaskPcs
        <3>4. exc' \in [Procs -> Results]
            BY <2>2 DEF FrameEnds, Results
        <3>5. QED BY <3>2, <3>3, <3>4
    <2>3. /\ pc' \in [Procs -> TaskPcs \cup CloserPcs]
          /\ exc' \in [Procs -> Results]
          /\ frames' \in [Tasks -> Nat]
        BY <1>11, <2>1, <2>2 DEF Unwind
    <2>4. pending' \in [Procs -> BOOLEAN]
        BY <1>11 DEF Unwind, TakeCancel
    <2>5. ceilingTask' \in Procs \cup {None} /\ cancels' \in [Procs -> Nat]
        <3>1. CASE TakeCancel(t)
            BY <3>1, TakeCancelType
        <3>2. CASE UNCHANGED <<pending, ceilingTask, cancels>>
            BY <3>2
        <3>3. QED BY <1>11, <3>1, <3>2 DEF Unwind
    <2>6. QED BY <1>11, <2>3, <2>4, <2>5 DEF Unwind, close
<1>12. CASE NewTask(t)
    BY <1>12 DEF NewTask, gate, close
<1>13. CASE Cancel(t)
    BY <1>13 DEF Cancel, gate, close
<1>14. QED
    BY <1>1, <1>2, <1>3, <1>4, <1>5, <1>6, <1>7, <1>8, <1>9, <1>10, <1>11, <1>12, <1>13 DEF Step

(* So does every step of the close, of the clock and of the ceiling.        *)
LEMMA CloseStepType ==
    ASSUME TypeOK, CloseStep
    PROVE  TypeOK'
<1> USE DEF TypeOK, Procs
<1>1. CASE ReserveClose
    <2>1. CASE state = "broken"
        BY <1>1, <2>1 DEF ReserveClose, gate, CloserPcs, Tickets
    <2>2. CASE state = "open"
        BY <1>1, <2>2, EnqueueType DEF ReserveClose, CloserPcs, States
    <2>3. QED BY <1>1, <2>1, <2>2 DEF ReserveClose
<1>2. CASE AcceptExternalClose
    <2>1. waiters' \in Seq(Procs)
        <3>1. waiters' = <<>>
            BY <1>2, Zenon DEF AcceptExternalClose, FailQueued
        <3>2. QED BY <3>1
    <2>2. ready' \in [Procs -> Tickets]
        <3>1. CASE reservation = "none"
            BY <1>2, <3>1 DEF AcceptExternalClose, Tickets
        <3>2. CASE reservation # "none"
            <4>1. FailQueued("closed") /\ "closed" \in Tickets
                BY <1>2, <3>2 DEF AcceptExternalClose, Tickets
            <4>2. QED BY <4>1, FailQueuedType
        <3>3. QED BY <3>1, <3>2
    <2>3. QED BY <1>2, <2>1, <2>2 DEF AcceptExternalClose, CloserPcs, States
<1>3. CASE StartClose
    BY <1>3 DEF StartClose, gate, close, CloserPcs
<1>4. CASE BindClose
    BY <1>4 DEF BindClose, close, CloserPcs
<1>5. CASE CloseRefused
    <2>1. pc' \in [Procs -> TaskPcs \cup CloserPcs]
        BY <1>5 DEF CloseRefused, CloserPcs
    <2>2. exc' \in [Procs -> Results]
        <3>1. \E r \in Results : exc' = [exc EXCEPT ![Closer] = r]
            BY <1>5 DEF CloseRefused, Results
        <3>2. QED BY <3>1
    <2>3. /\ UNCHANGED <<state, waiters, owner, depth, baseline, ceilingTask, overdue,
                         reservation, outcome, ready, frames, cancels, pending, blame>>
          /\ grantedClose' \in BOOLEAN
        BY <1>5 DEF CloseRefused, close
    <2>4. QED BY <2>1, <2>2, <2>3
<1>6. CASE CloseBodyExit
    BY <1>6 DEF CloseBodyExit, gate, close, CloserPcs, Results
<1>7. CASE ReleaseClose
    BY <1>7, FailQueuedType DEF ReleaseClose, CloserPcs, States, Tickets
<1>8. CASE UnwindClose
    BY <1>8 DEF UnwindClose, gate, close, CloserPcs, Results
<1>9. CASE TeardownEnds
    BY <1>9 DEF TeardownEnds, gate, close, CloserPcs
<1>10. CASE ResolveClose
    BY <1>10, FailQueuedType DEF ResolveClose, CloserPcs, States, Tickets
<1>11. QED
    BY <1>1, <1>2, <1>3, <1>4, <1>5, <1>6, <1>7, <1>8, <1>9, <1>10 DEF CloseStep

(* The gate's state is well typed in every reachable state: the code's      *)
(* fields never hold a value no handler gives them.                         *)
THEOREM TypeCorrect == Spec => []TypeOK
<1>1. TypeOK /\ [Next]_vars => TypeOK'
    <2> SUFFICES ASSUME TypeOK, [Next]_vars PROVE TypeOK'
        OBVIOUS
    <2>1. CASE \E t \in Tasks : Step(t)
        BY <2>1, StepType
    <2>2. CASE CloseStep
        BY <2>2, CloseStepType
    <2>3. CASE Tick
        BY <2>3 DEF Tick, TypeOK, close, task
    <2>4. CASE Ceiling
        BY <2>4, FailQueuedType DEF Ceiling, BreakIn, TypeOK, Procs, close, States, Tickets
    <2>5. CASE UNCHANGED vars
        BY <2>5 DEF vars, TypeOK
    <2>6. QED BY <2>1, <2>2, <2>3, <2>4, <2>5 DEF Next
<1>2. QED BY <1>1, InitType, PTL DEF Spec

-----------------------------------------------------------------------------
(* The inductive invariant.                                                *)

PcShape ==
    /\ \A t \in Tasks : pc[t] \in TaskPcs
    /\ pc[Closer] \in CloserPcs

(* A task has frames open exactly while it is inside operation()'s body, its*)
(* release or the unwinding after it.                                       *)
FramesShape ==
    \A t \in Tasks : frames[t] > 0 <=> pc[t] \in {"body", "releasing", "unwinding"}

(* A granted ticket whose caller has not resumed owns the gate, once.       *)
GrantedOwns ==
    \A t \in Tasks :
       pc[t] \in {"waiting", "cleanup"} /\ ready[t] = "granted" => owner = t /\ depth = 1

(* Queued tickets are pending, distinct, and belong to callers that wait.   *)
QueueShape ==
    /\ \A i \in 1..Len(waiters) :
          /\ ready[waiters[i]] = "pending"
          /\ IF waiters[i] = Closer
             THEN /\ reservation = "fifo" /\ pc[Closer] \in {"reserved", "waiting"}
                  /\ i = Len(waiters)
             ELSE pc[waiters[i]] \in {"waiting", "cleanup"}
    /\ \A i, j \in 1..Len(waiters) : waiters[i] = waiters[j] => i = j

(* What the gate's state, its close ticket and the coordinator's program    *)
(* counter say of each other.                                               *)
CloseShape ==
    /\ reservation = "none" <=> pc[Closer] = "none"
    /\ reservation # "none" => state # "open"
    /\ state \in {"closed", "broken"} => waiters = <<>>
    /\ pc[Closer] = "waiting" => reservation = "fifo"
    /\ grantedClose => /\ owner = None /\ waiters = <<>>
                       /\ reservation = "fifo" /\ pc[Closer] \in {"reserved", "waiting"}
    /\ owner = Closer <=> pc[Closer] \in {"body", "releasing"}
    /\ owner = Closer => waiters = <<>>

GateInv ==
    /\ TypeOK /\ PcShape /\ FramesShape /\ GrantedOwns /\ QueueShape /\ CloseShape
    /\ MutualExclusion /\ DepthCountsFrames /\ NoPhantomOwner /\ NoLostWakeup

-----------------------------------------------------------------------------
(* A queue whose tickets are pending under rdy and well placed in the next  *)
(* state: QueueShape, before the grant that ends the step.                  *)
NextQueue(q, rdy) ==
    /\ \A i \in 1..Len(q) :
          /\ rdy[q[i]] = "pending"
          /\ IF q[i] = Closer
             THEN /\ reservation' = "fifo" /\ pc'[Closer] \in {"reserved", "waiting"}
                  /\ i = Len(q)
             ELSE pc'[q[i]] \in {"waiting", "cleanup"}
    /\ \A i, j \in 1..Len(q) : q[i] = q[j] => i = j

(* The grant that ends a step leaves the lease invariants standing when     *)
(* nobody holds a lease, or an unclaimed grant, any more.                   *)
LEMMA GrantNextKeeps ==
    ASSUME TypeOK, TypeOK', NEW q \in Seq(Procs), NEW rdy \in [Procs -> Tickets],
           NEW base, NEW mark, GrantNext(q, rdy, base, mark),
           NextQueue(q, rdy), FramesShape',
           \A p \in Procs : ~Inside(p)',
           \A t \in Tasks : pc'[t] \in {"waiting", "cleanup"} => rdy[t] # "granted"
    PROVE  /\ QueueShape' /\ GrantedOwns' /\ NoLostWakeup'
           /\ MutualExclusion' /\ DepthCountsFrames' /\ NoPhantomOwner'
           /\ owner' # Closer
           /\ grantedClose' => /\ owner' = None /\ waiters' = <<>>
                               /\ reservation' = "fifo" /\ pc'[Closer] \in {"reserved", "waiting"}
<1>1. MutualExclusion' /\ DepthCountsFrames'
    BY DEF MutualExclusion, DepthCountsFrames, Procs
<1>2. CASE q = <<>>
    <2>1. waiters' = <<>> /\ ready' = rdy /\ owner' = None /\ grantedClose' = FALSE
        BY <1>2 DEF GrantNext
    <2>2. QED
        BY <1>1, <2>1, CloserAssumption
           DEF QueueShape, GrantedOwns, NoLostWakeup, NoPhantomOwner, Procs
<1>3. CASE q # <<>>
    <2> DEFINE tl == Tail(q)
    <2>1. /\ Head(q) \in Procs /\ Head(q) = q[1] /\ 1 \in 1..Len(q)
          /\ Len(q) \in Nat /\ tl \in Seq(Procs) /\ Len(tl) = Len(q) - 1
          /\ \A i \in 1..Len(tl) : tl[i] = q[i + 1] /\ i + 1 \in 1..Len(q)
          /\ Len(tl) = 0 => tl = <<>>
        <3>1. Head(q) \in Procs /\ Head(q) = q[1] /\ 1 \in 1..Len(q) /\ Len(q) \in Nat
            BY <1>3
        <3>2. tl \in Seq(Procs) /\ Len(tl) = Len(q) - 1
            BY <1>3
        <3>3. \A i \in 1..Len(tl) : tl[i] = q[i + 1] /\ i + 1 \in 1..Len(q)
            BY <1>3
        <3>4. Len(tl) = 0 => tl = <<>>
            BY <3>2, EmptySeq
        <3>5. QED BY <3>1, <3>2, <3>3, <3>4
    <2>2. waiters' = tl /\ ready' = [rdy EXCEPT ![Head(q)] = "granted"]
        BY <1>3 DEF GrantNext
    <2> HIDE DEF tl
    <2>3. ASSUME NEW i \in 1..Len(tl)
          PROVE  /\ tl[i] # Head(q) /\ tl[i] \in Procs
                 /\ ready'[tl[i]] = "pending"
                 /\ IF tl[i] = Closer
                    THEN /\ reservation' = "fifo" /\ pc'[Closer] \in {"reserved", "waiting"}
                         /\ i = Len(tl)
                    ELSE pc'[tl[i]] \in {"waiting", "cleanup"}
        <3>1. i \in Nat /\ i + 1 \in 1..Len(q) /\ i + 1 # 1 /\ tl[i] = q[i + 1]
            BY <2>1
        <3>2. tl[i] # Head(q) /\ tl[i] \in Procs
            BY <2>1, <3>1 DEF NextQueue
        <3>3. ready'[tl[i]] = rdy[tl[i]]
            BY <2>2, <3>2
        <3>4. QED BY <2>1, <3>1, <3>2, <3>3 DEF NextQueue
    <2>4. QueueShape'
        <3>1. ASSUME NEW i \in 1..Len(tl), NEW j \in 1..Len(tl), tl[i] = tl[j]
              PROVE  i = j
            <4>1. /\ i + 1 \in 1..Len(q) /\ j + 1 \in 1..Len(q)
                  /\ q[i + 1] = q[j + 1]
                BY <2>1, <3>1
            <4>2. i + 1 = j + 1
                BY <4>1 DEF NextQueue
            <4>3. QED BY <2>1, <4>2
        <3>2. QED BY <2>2, <2>3, <3>1 DEF QueueShape
    <2>5. CASE Head(q) = Closer
        <3>1. owner' = None /\ grantedClose'
            BY <1>3, <2>5, Zenon DEF GrantNext
        <3>2. /\ reservation' = "fifo" /\ pc'[Closer] \in {"reserved", "waiting"}
              /\ 1 = Len(q)
            BY <2>1, <2>5 DEF NextQueue
        <3>3. tl = <<>>
            BY <2>1, <3>2
        <3>4. GrantedOwns'
            BY <2>2, <2>5, CloserAssumption DEF GrantedOwns, Procs
        <3>5. QED
            BY <1>1, <2>2, <2>4, <3>1, <3>2, <3>3, <3>4, CloserAssumption
               DEF NoLostWakeup, NoPhantomOwner, Procs
    <2>6. CASE Head(q) # Closer
        <3>1. owner' = Head(q) /\ ~grantedClose' /\ depth' = 1
            BY <1>3, <2>6, Zenon DEF GrantNext
        <3>2. Head(q) \in Tasks /\ pc'[Head(q)] \in {"waiting", "cleanup"}
            BY <2>1, <2>6 DEF NextQueue, Procs
        <3>3. ready'[Head(q)] = "granted"
            BY <2>1, <2>2
        <3>4. GrantedOwns'
            BY <2>2, <3>1, <3>2, CloserAssumption DEF GrantedOwns, Procs
        <3>5. NoPhantomOwner' /\ owner' # Closer
            BY <2>6, <3>1, <3>2, <3>3 DEF NoPhantomOwner
        <3>6. NoLostWakeup'
            BY <3>1, <3>2, CloserAssumption DEF NoLostWakeup, Vacant
        <3>7. QED BY <1>1, <2>4, <3>1, <3>4, <3>5, <3>6
    <2>7. QED BY <2>5, <2>6
<1>4. QED BY <1>2, <1>3

(* No ticket of the close is in the queue, granted or bound while the gate  *)
(* is open.                                                                 *)
LEMMA OpenHasNoClose ==
    ASSUME GateInv, state = "open"
    PROVE  /\ reservation = "none" /\ pc[Closer] = "none"
           /\ ~grantedClose /\ owner # Closer
           /\ \A i \in 1..Len(waiters) : waiters[i] \in Tasks
<1>1. /\ reservation = "none" /\ pc[Closer] = "none"
      /\ ~grantedClose /\ owner # Closer
    BY DEF GateInv, CloseShape
<1>2. \A i \in 1..Len(waiters) : waiters[i] \in Tasks
    BY <1>1 DEF GateInv, QueueShape, TypeOK, Procs
<1>3. QED BY <1>1, <1>2

(* A ticket joining an open gate keeps the queue and the leases in order.   *)
LEMMA EnqueueKeeps ==
    ASSUME GateInv, TypeOK', state = "open", NEW p \in Procs, Enqueue(p),
           pc[p] \in {"idle", "none"}, frames' = frames,
           pc' = [pc EXCEPT ![p] = IF p = Closer THEN "reserved" ELSE "waiting"],
           reservation' = IF p = Closer THEN "fifo" ELSE reservation
    PROVE  /\ FramesShape'
           /\ QueueShape' /\ GrantedOwns' /\ NoLostWakeup'
           /\ MutualExclusion' /\ DepthCountsFrames' /\ NoPhantomOwner'
           /\ owner' # Closer
           /\ grantedClose' => /\ owner' = None /\ waiters' = <<>>
                               /\ reservation' = "fifo" /\ pc'[Closer] \in {"reserved", "waiting"}
<1> DEFINE q == Append(waiters, p)
           rdy == [ready EXCEPT ![p] = "pending"]
<1>1. /\ waiters \in Seq(Procs) /\ Len(waiters) \in Nat
      /\ q \in Seq(Procs) /\ Len(q) = Len(waiters) + 1 /\ q[Len(q)] = p
      /\ \A i \in 1..Len(waiters) : q[i] = waiters[i] /\ waiters[i] \in Tasks
    <2>1. waiters \in Seq(Procs)
        BY DEF GateInv, TypeOK
    <2>2. \A i \in 1..Len(waiters) : waiters[i] \in Tasks
        BY OpenHasNoClose
    <2>3. QED BY <2>1, <2>2
<1>2. \A i \in 1..Len(waiters) : waiters[i] # p
    BY <1>1 DEF GateInv, QueueShape
<1>3. /\ p \in Tasks => frames[p] = 0
      /\ p = Closer => p \notin Tasks
      /\ FramesShape'
    <2>1. ASSUME p \in Tasks PROVE frames[p] = 0
        <3>1. frames[p] \in Nat
            BY <2>1 DEF GateInv, TypeOK
        <3>2. ~(frames[p] > 0)
            BY <2>1 DEF GateInv, FramesShape
        <3>3. QED BY <3>1, <3>2
    <2>2. ASSUME NEW u \in Tasks
          PROVE  frames'[u] > 0 <=> pc'[u] \in {"body", "releasing", "unwinding"}
        <3>1. CASE u = p
            BY <2>1, <3>1, CloserAssumption DEF GateInv, TypeOK, Procs
        <3>2. CASE u # p
            BY <3>2 DEF GateInv, FramesShape, TypeOK, Procs
        <3>3. QED BY <3>1, <3>2
    <2>3. QED BY <2>1, <2>2, CloserAssumption DEF FramesShape
<1>4. rdy \in [Procs -> Tickets] /\ rdy[p] = "pending"
    BY DEF GateInv, TypeOK, Tickets
<1> HIDE DEF q
<1>5. NextQueue(q, rdy)
    <2>1. ASSUME NEW i \in 1..Len(q)
          PROVE  /\ rdy[q[i]] = "pending"
                 /\ IF q[i] = Closer
                    THEN /\ reservation' = "fifo" /\ pc'[Closer] \in {"reserved", "waiting"}
                         /\ i = Len(q)
                    ELSE pc'[q[i]] \in {"waiting", "cleanup"}
        <3>1. CASE i = Len(q)
            BY <1>1, <1>4, <3>1 DEF GateInv, TypeOK
        <3>2. CASE i # Len(q)
            <4>1. i \in 1..Len(waiters) /\ q[i] = waiters[i]
                BY <1>1, <3>2
            <4>2. q[i] # p /\ q[i] \in Tasks /\ q[i] # Closer
                BY <1>1, <1>2, <4>1, CloserAssumption
            <4>3. ready[q[i]] = "pending" /\ pc[q[i]] \in {"waiting", "cleanup"}
                BY <4>1, <4>2 DEF GateInv, QueueShape
            <4>4. QED BY <4>2, <4>3 DEF GateInv, TypeOK, Procs
        <3>3. QED BY <3>1, <3>2
    <2>2. ASSUME NEW i \in 1..Len(q), NEW j \in 1..Len(q), q[i] = q[j]
          PROVE  i = j
        <3>1. CASE i \in 1..Len(waiters) /\ j \in 1..Len(waiters)
            BY <1>1, <2>2, <3>1 DEF GateInv, QueueShape
        <3>2. CASE ~(i \in 1..Len(waiters) /\ j \in 1..Len(waiters))
            BY <1>1, <1>2, <2>2, <3>2
        <3>3. QED BY <3>1, <3>2
    <2>3. QED BY <2>1, <2>2 DEF NextQueue
<1>6. CASE Vacant
    <2>1. GrantNext(q, rdy, baseline, ceilingTask)
        BY <1>6 DEF Enqueue, q
    <2>2. \A x \in Procs : ~Inside(x)'
        BY <1>3, <1>6, CloserAssumption
           DEF Vacant, GateInv, MutualExclusion, Inside, Held, TypeOK, Procs, PcShape, TaskPcs
    <2>3. \A u \in Tasks : pc'[u] \in {"waiting", "cleanup"} => rdy[u] # "granted"
        BY <1>4, <1>6, CloserAssumption DEF Vacant, GateInv, GrantedOwns, TypeOK, Procs
    <2>4. TypeOK
        BY DEF GateInv
    <2>5. QED BY <1>1, <1>3, <1>4, <1>5, <2>1, <2>2, <2>3, <2>4, GrantNextKeeps
<1>7. CASE ~Vacant
    <2>1. /\ waiters' = q /\ ready' = rdy /\ owner' = owner /\ depth' = depth
          /\ grantedClose' = grantedClose
        BY <1>7 DEF Enqueue, q
    <2>2. QueueShape'
        BY <1>5, <2>1 DEF NextQueue, QueueShape
    <2>3. ~grantedClose /\ owner # Closer
        BY OpenHasNoClose
    <2>4. GrantedOwns' /\ NoLostWakeup'
        BY <1>4, <1>7, <2>1 DEF GateInv, GrantedOwns, NoLostWakeup, Vacant, TypeOK, Procs
    <2>5. ASSUME NEW x \in Procs, Inside(x)'
          PROVE  Inside(x) /\ x # p
        <3>1. CASE x = Closer
            BY <2>5, <3>1 DEF Inside, GateInv, TypeOK
        <3>2. CASE x # Closer
            <4>1. x \in Tasks
                BY <3>2 DEF Procs
            <4>2. x # p
                BY <1>3, <2>5, <3>2, <4>1 DEF Inside, Held, GateInv, TypeOK
            <4>3. QED BY <2>5, <3>2, <4>2 DEF Inside, Held, GateInv, TypeOK
        <3>3. QED BY <3>1, <3>2
    <2>6. MutualExclusion'
        BY <2>1, <2>5 DEF GateInv, MutualExclusion
    <2>7. DepthCountsFrames'
        BY <2>1, <2>5, CloserAssumption DEF GateInv, DepthCountsFrames, Held, TypeOK, Procs
    <2>8. NoPhantomOwner'
        <3>1. ASSUME owner \in Tasks
              PROVE  \/ Inside(owner)'
                     \/ pc'[owner] \in {"waiting", "cleanup"} /\ ready'[owner] = "granted"
            <4>1. CASE owner = p
                <5>1. ~Inside(p)
                    BY <1>3, <3>1, <4>1, CloserAssumption DEF GateInv, Inside, Held
                <5>2. pc[p] \in {"waiting", "cleanup"}
                    BY <3>1, <4>1, <5>1 DEF GateInv, NoPhantomOwner
                <5>3. QED BY <5>2
            <4>2. CASE owner # p
                BY <2>1, <3>1, <4>2, CloserAssumption
                   DEF GateInv, NoPhantomOwner, Inside, Held, TypeOK, Procs
            <4>3. QED BY <4>1, <4>2
        <3>2. QED BY <2>1, <2>3, <3>1 DEF NoPhantomOwner
    <2>9. QED BY <1>3, <2>1, <2>2, <2>3, <2>4, <2>6, <2>7, <2>8
<1>8. QED BY <1>6, <1>7

(* The queue without one of its tickets keeps its shape, and loses only     *)
(* that ticket.                                                             *)
LEMMA WithoutKeeps ==
    ASSUME GateInv, NEW i \in 1..Len(waiters), NEW t \in Tasks, waiters[i] = t,
           waiters' = Without(i), ready' = ready, reservation' = reservation,
           pc' = [pc EXCEPT ![t] = "leaving"]
    PROVE  QueueShape'
<1> DEFINE w == Without(i)
<1>1. /\ waiters \in Seq(Procs) /\ Len(waiters) \in Nat
      /\ Len(w) = Len(waiters) - 1
      /\ \A j \in 1..Len(w) : w[j] = IF j < i THEN waiters[j] ELSE waiters[j + 1]
    <2> DEFINE front == SubSeq(waiters, 1, i - 1)
               back == SubSeq(waiters, i + 1, Len(waiters))
    <2>1. /\ waiters \in Seq(Procs) /\ Len(waiters) \in Nat /\ i \in Nat
          /\ \A j \in 1..Len(waiters) : waiters[j] \in Procs
        BY DEF GateInv, TypeOK
    <2>2. /\ front \in Seq(Procs) /\ Len(front) = i - 1
          /\ \A j \in 1..(i - 1) : front[j] = waiters[j]
        BY <2>1
    <2>3. /\ back \in Seq(Procs) /\ Len(back) = Len(waiters) - i
          /\ \A j \in 1..(Len(waiters) - i) : back[j] = waiters[i + j]
        BY <2>1
    <2> HIDE DEF front, back
    <2>4. w = front \o back
        BY DEF Without, front, back
    <2> HIDE DEF w
    <2>5. /\ Len(w) = Len(front) + Len(back)
          /\ \A j \in 1..(Len(front) + Len(back)) :
                w[j] = IF j <= Len(front) THEN front[j] ELSE back[j - Len(front)]
        BY <2>2, <2>3, <2>4, ConcatProperties
    <2>6. Len(w) = Len(waiters) - 1
        BY <2>1, <2>2, <2>3, <2>5
    <2>7. ASSUME NEW j \in 1..Len(w)
          PROVE  w[j] = IF j < i THEN waiters[j] ELSE waiters[j + 1]
        <3>1. CASE j < i
            BY <2>1, <2>2, <2>5, <2>6, <3>1
        <3>2. CASE ~(j < i)
            <4>1. /\ w[j] = back[j - (i - 1)]
                  /\ j - (i - 1) \in 1..(Len(waiters) - i)
                  /\ i + (j - (i - 1)) = j + 1
                BY <2>1, <2>2, <2>3, <2>5, <2>6, <3>2
            <4>2. QED BY <2>3, <3>2, <4>1
        <3>3. QED BY <3>1, <3>2
    <2>8. QED BY <2>1, <2>6, <2>7
<1> HIDE DEF w
<1> DEFINE at(j) == IF j < i THEN j ELSE j + 1
<1>2. \A j \in 1..Len(w) : at(j) \in 1..Len(waiters) /\ at(j) # i /\ w[j] = waiters[at(j)]
    BY SMTT(20), <1>1
<1>3. \A j, k \in 1..Len(w) : at(j) = at(k) => j = k
    BY <1>1
<1>4. (Len(w) \in 1..Len(w) => at(Len(w)) = Len(waiters)) \/ i = Len(waiters)
    BY <1>1
<1>5. ASSUME NEW j \in 1..Len(w)
      PROVE  /\ ready[w[j]] = "pending"
             /\ IF w[j] = Closer
                THEN /\ reservation = "fifo" /\ pc'[Closer] \in {"reserved", "waiting"}
                     /\ j = Len(w)
                ELSE pc'[w[j]] \in {"waiting", "cleanup"}
    <2>1. /\ at(j) \in 1..Len(waiters) /\ at(j) # i /\ w[j] = waiters[at(j)]
          /\ w[j] \in Procs
        BY <1>1, <1>2
    <2>2. w[j] # t
        BY <2>1 DEF GateInv, QueueShape
    <2>3. ready[w[j]] = "pending"
        BY <2>1 DEF GateInv, QueueShape
    <2>4. CASE w[j] = Closer
        <3>1. /\ reservation = "fifo" /\ pc[Closer] \in {"reserved", "waiting"}
              /\ at(j) = Len(waiters)
            BY <2>1, <2>4 DEF GateInv, QueueShape
        <3>2. j = Len(w)
            BY <1>1, <2>1, <3>1
        <3>3. QED BY <2>2, <2>3, <2>4, <3>1, <3>2, CloserAssumption DEF GateInv, TypeOK, Procs
    <2>5. CASE w[j] # Closer
        <3>1. pc[w[j]] \in {"waiting", "cleanup"}
            BY <2>1, <2>5 DEF GateInv, QueueShape
        <3>2. QED BY <2>1, <2>2, <2>3, <2>5, <3>1 DEF GateInv, TypeOK
    <2>6. QED BY <2>4, <2>5
<1>6. ASSUME NEW j \in 1..Len(w), NEW k \in 1..Len(w), w[j] = w[k]
      PROVE  j = k
    <2>1. at(j) = at(k)
        BY <1>2, <1>6 DEF GateInv, QueueShape
    <2>2. QED BY <1>3, <2>1
<1>7. waiters' = w
    BY DEF w
<1>8. QED BY <1>5, <1>6, <1>7 DEF QueueShape

(* Failing the queue touches no granted ticket.                             *)
LEMMA FailQueuedKeeps ==
    ASSUME GateInv, NEW why \in {"closed", "broken"}, FailQueued(why)
    PROVE  /\ waiters' = <<>>
           /\ \A p \in Procs : ready'[p] = "granted" <=> ready[p] = "granted"
<1>1. \A p \in Queued : ready[p] = "pending"
    BY DEF GateInv, QueueShape, Queued
<1>2. QED BY <1>1 DEF FailQueued

(* Leases still held by a task standing at c with f frames open.            *)
HeldAt(c, f) == IF c = "unwinding" THEN f - 1 ELSE f

(* A step that only moves task t to c, with f frames open, where t's new    *)
(* place agrees with the gate's owner.                                      *)
Moves(t, c, f) ==
    /\ UNCHANGED <<state, waiters, owner, depth, grantedClose, reservation, ready>>
    /\ pc' = [pc EXCEPT ![t] = c]
    /\ frames' = [frames EXCEPT ![t] = f]
    /\ f > 0 <=> c \in {"body", "releasing", "unwinding"}
    /\ HeldAt(c, f) > 0 => owner = t /\ depth = HeldAt(c, f)
    /\ owner = t /\ HeldAt(c, f) = 0 => c \in {"waiting", "cleanup"} /\ ready[t] = "granted"
    /\ c \in {"waiting", "cleanup"} /\ ready[t] = "granted" => owner = t /\ depth = 1
    /\ t \in Queued => c \in {"waiting", "cleanup"}

(* Such a step keeps the invariant.                                         *)
LEMMA MoveKeeps ==
    ASSUME GateInv, TypeOK', NEW t \in Tasks, NEW c \in TaskPcs, NEW f \in Nat,
           Moves(t, c, f)
    PROVE  GateInv'
<1> DEFINE h == HeldAt(c, f)
<1>0. h \in Nat
    BY DEF Moves, HeldAt
<1>a. /\ UNCHANGED <<state, waiters, owner, depth, grantedClose, reservation, ready>>
      /\ pc' = [pc EXCEPT ![t] = c]
      /\ frames' = [frames EXCEPT ![t] = f]
      /\ f > 0 <=> c \in {"body", "releasing", "unwinding"}
      /\ h > 0 => owner = t /\ depth = h
      /\ owner = t /\ h = 0 => c \in {"waiting", "cleanup"} /\ ready[t] = "granted"
      /\ c \in {"waiting", "cleanup"} /\ ready[t] = "granted" => owner = t /\ depth = 1
      /\ t \in Queued => c \in {"waiting", "cleanup"}
      /\ h = IF c = "unwinding" THEN f - 1 ELSE f
    BY DEF Moves, HeldAt
<1> HIDE DEF h
<1> USE <1>0, <1>a
<1>1. /\ t \in Procs /\ t # Closer /\ t # None /\ Closer \in Procs /\ Closer \notin Tasks
      /\ pc \in [Procs -> TaskPcs \cup CloserPcs] /\ frames \in [Tasks -> Nat]
      /\ waiters \in Seq(Procs)
    BY CloserAssumption DEF GateInv, TypeOK, Procs
<1>2. /\ pc'[t] = c /\ frames'[t] = f /\ pc'[Closer] = pc[Closer]
      /\ \A p \in Procs : p # t => pc'[p] = pc[p]
      /\ \A u \in Tasks : u # t => frames'[u] = frames[u]
    BY <1>1
<1>3. PcShape'
    BY <1>1, <1>2 DEF GateInv, PcShape, Procs
<1>4. FramesShape'
    BY <1>1, <1>2 DEF GateInv, FramesShape, Procs
<1>5. GrantedOwns'
    BY <1>1, <1>2 DEF GateInv, GrantedOwns, Procs
<1>6. QueueShape'
    <2>1. ASSUME NEW i \in 1..Len(waiters)
          PROVE  /\ ready[waiters[i]] = "pending"
                 /\ IF waiters[i] = Closer
                    THEN /\ reservation = "fifo" /\ pc'[Closer] \in {"reserved", "waiting"}
                         /\ i = Len(waiters)
                    ELSE pc'[waiters[i]] \in {"waiting", "cleanup"}
        <3>1. waiters[i] \in Procs /\ (waiters[i] = t => t \in Queued)
            BY <1>1 DEF Queued
        <3>2. QED BY <1>1, <1>2, <3>1 DEF GateInv, QueueShape
    <2>2. \A i, j \in 1..Len(waiters) : waiters[i] = waiters[j] => i = j
        BY DEF GateInv, QueueShape
    <2>3. QED BY <2>1, <2>2 DEF QueueShape
<1>7. CloseShape' /\ NoLostWakeup'
    BY <1>2 DEF GateInv, CloseShape, NoLostWakeup, Vacant
<1>8. /\ Held(t)' = h
      /\ \A u \in Tasks : u # t => Held(u)' = Held(u)
      /\ Inside(t)' <=> h > 0
      /\ \A p \in Procs : p # t => (Inside(p)' <=> Inside(p))
    BY <1>1, <1>2 DEF Held, Inside, Procs
<1>9. MutualExclusion' /\ DepthCountsFrames'
    BY <1>1, <1>8 DEF GateInv, MutualExclusion, DepthCountsFrames, Procs
<1>10. NoPhantomOwner'
    <2>1. ASSUME owner \in Tasks
          PROVE  \/ Inside(owner)'
                 \/ pc'[owner] \in {"waiting", "cleanup"} /\ ready[owner] = "granted"
        <3>1. CASE owner = t
            BY <1>2, <1>8, <3>1
        <3>2. CASE owner # t
            BY <1>2, <1>8, <2>1, <3>2 DEF GateInv, NoPhantomOwner, Procs
        <3>3. QED BY <3>1, <3>2
    <2>2. QED BY <1>1, <1>2, <1>8, <2>1 DEF GateInv, NoPhantomOwner
<1>11. QED BY <1>3, <1>4, <1>5, <1>6, <1>7, <1>9, <1>10 DEF GateInv

(* Where a task stands tells what it holds, and where it may be queued.     *)
LEMMA Standing ==
    ASSUME GateInv, NEW t \in Tasks
    PROVE  /\ frames[t] \in Nat /\ pc[t] \in TaskPcs /\ Held(t) \in Nat
           /\ pc[t] \in {"idle", "waiting", "cleanup", "leaving"} =>
                frames[t] = 0 /\ Held(t) = 0
           /\ pc[t] \in {"body", "releasing"} => frames[t] > 0 /\ Held(t) = frames[t]
           /\ pc[t] = "unwinding" => frames[t] > 0 /\ Held(t) = frames[t] - 1
           /\ Held(t) > 0 => owner = t /\ depth = Held(t)
           /\ owner = t /\ Held(t) = 0 =>
                pc[t] \in {"waiting", "cleanup"} /\ ready[t] = "granted" /\ depth = 1
           /\ pc[t] \notin {"waiting", "cleanup"} => t \notin Queued
           /\ ready[t] # "pending" => t \notin Queued
<1>1. t \in Procs /\ t # Closer
    BY CloserAssumption DEF Procs
<1>2. frames[t] \in Nat /\ pc[t] \in TaskPcs
    BY DEF GateInv, TypeOK, PcShape
<1>3. frames[t] > 0 <=> pc[t] \in {"body", "releasing", "unwinding"}
    BY DEF GateInv, FramesShape
<1>4. /\ Held(t) \in Nat
      /\ pc[t] \in {"idle", "waiting", "cleanup", "leaving"} => frames[t] = 0 /\ Held(t) = 0
      /\ pc[t] \in {"body", "releasing"} => frames[t] > 0 /\ Held(t) = frames[t]
      /\ pc[t] = "unwinding" => frames[t] > 0 /\ Held(t) = frames[t] - 1
    BY <1>2, <1>3 DEF Held
<1>5. Inside(t) <=> Held(t) > 0
    BY <1>1 DEF Inside
<1>6. Held(t) > 0 => owner = t /\ depth = Held(t)
    BY <1>1, <1>5 DEF GateInv, MutualExclusion, DepthCountsFrames
<1>7. owner = t /\ Held(t) = 0 =>
         pc[t] \in {"waiting", "cleanup"} /\ ready[t] = "granted" /\ depth = 1
    BY <1>5 DEF GateInv, NoPhantomOwner, GrantedOwns
<1>8. t \in Queued => pc[t] \in {"waiting", "cleanup"} /\ ready[t] = "pending"
    BY <1>1 DEF GateInv, QueueShape, Queued
<1>9. QED BY <1>2, <1>4, <1>6, <1>7, <1>8

(* Every handler of a call keeps the invariant.                             *)
LEMMA StepInv ==
    ASSUME GateInv, NEW t \in Tasks, Step(t)
    PROVE  GateInv'
<1>0. TypeOK /\ TypeOK' /\ t \in Procs /\ t # Closer /\ t # None /\ Closer \in Procs
    BY StepType, CloserAssumption DEF GateInv, Procs
<1>1. CASE Acquire(t)
    <2>1. CASE state = "open"
        <3>1. Enqueue(t) /\ pc' = [pc EXCEPT ![t] = "waiting"] /\ frames' = frames
              /\ pc[t] = "idle" /\ reservation' = reservation /\ state' = state
            BY <1>1, <2>1 DEF Acquire, close
        <3>2. /\ FramesShape'
              /\ QueueShape' /\ GrantedOwns' /\ NoLostWakeup'
              /\ MutualExclusion' /\ DepthCountsFrames' /\ NoPhantomOwner'
              /\ owner' # Closer
              /\ grantedClose' => /\ owner' = None /\ waiters' = <<>>
                                  /\ reservation' = "fifo"
                                  /\ pc'[Closer] \in {"reserved", "waiting"}
            BY <1>0, <2>1, <3>1, EnqueueKeeps
        <3>3. PcShape' /\ pc'[Closer] = pc[Closer]
            BY <1>0, <3>1 DEF GateInv, PcShape, TypeOK, TaskPcs
        <3>4. CloseShape'
            BY <1>0, <2>1, <3>1, <3>2, <3>3, OpenHasNoClose DEF GateInv, CloseShape
        <3>5. QED BY <1>0, <3>2, <3>3, <3>4 DEF GateInv
    <2>2. CASE state # "open"
        <3>1. UNCHANGED <<state, waiters, owner, depth, grantedClose, reservation, pc, ready, frames>>
            BY <1>1, <2>2 DEF Acquire, gate, close
        <3>2. QED BY <1>0, <3>1 DEF GateInv, PcShape, FramesShape, GrantedOwns, QueueShape,
                  CloseShape, MutualExclusion, DepthCountsFrames, NoPhantomOwner,
                  NoLostWakeup, Vacant, Inside, Held
    <2>3. QED BY <2>1, <2>2
<1>2. CASE Resume(t)
    <2>1. owner = t /\ depth = 1 /\ t \notin Queued
        BY <1>2, Standing DEF Resume, GateInv, GrantedOwns
    <2>2. Moves(t, "body", 1)
        BY <1>2, <2>1 DEF Resume, gate, close, Moves, HeldAt
    <2>3. QED BY <1>0, <2>2, MoveKeeps DEF TaskPcs
<1>3. CASE GiveUp(t) \/ QueueTimeout(t)
    <2>1. /\ pc[t] = "waiting" /\ pc' = [pc EXCEPT ![t] = "cleanup"] /\ frames' = frames
          /\ UNCHANGED <<state, waiters, owner, depth, grantedClose, reservation, ready>>
        BY <1>3 DEF GiveUp, QueueTimeout, gate, close
    <2>2. /\ frames[t] = 0 /\ Held(t) = 0
          /\ owner = t => ready[t] = "granted"
          /\ ready[t] = "granted" => owner = t /\ depth = 1
        BY <1>0, <2>1, Standing DEF GateInv, GrantedOwns
    <2>3. Moves(t, "cleanup", 0)
        BY <1>0, <2>1, <2>2 DEF Moves, HeldAt, TypeOK
    <2>4. QED BY <1>0, <2>3, MoveKeeps DEF TaskPcs
<1>4. CASE Leave(t)
    <2>1. /\ pc[t] = "leaving" /\ pc' = [pc EXCEPT ![t] = "idle"] /\ frames' = frames
          /\ UNCHANGED <<state, waiters, owner, depth, grantedClose, reservation, ready>>
        BY <1>4 DEF Leave, gate, close
    <2>2. frames[t] = 0 /\ owner # t /\ t \notin Queued
        BY <2>1, Standing
    <2>3. Moves(t, "idle", 0)
        BY <1>0, <2>1, <2>2 DEF Moves, HeldAt, TypeOK
    <2>4. QED BY <1>0, <2>3, MoveKeeps DEF TaskPcs
<1>5. CASE BodyExit(t) \/ BodyCancelled(t)
    <2>1. /\ pc[t] = "body" /\ pc' = [pc EXCEPT ![t] = "releasing"] /\ frames' = frames
          /\ UNCHANGED <<state, waiters, owner, depth, grantedClose, reservation, ready>>
        BY <1>5 DEF BodyExit, BodyCancelled, TakeCancel, gate, close
    <2>2. /\ frames[t] \in Nat /\ frames[t] > 0 /\ owner = t /\ depth = frames[t]
          /\ t \notin Queued
        BY <2>1, Standing
    <2>3. Moves(t, "releasing", frames[t])
        BY <1>0, <2>1, <2>2 DEF Moves, HeldAt, TypeOK
    <2>4. QED BY <1>0, <2>2, <2>3, MoveKeeps DEF TaskPcs
<1>6. CASE Unwind(t)
    <2>1. /\ pc[t] = "unwinding"
          /\ UNCHANGED <<state, waiters, owner, depth, grantedClose, reservation, ready>>
        BY <1>6 DEF Unwind, close
    <2>2. /\ frames[t] \in Nat /\ frames[t] > 0 /\ frames[t] - 1 \in Nat
          /\ frames[t] - 1 > 0 => owner = t /\ depth = frames[t] - 1
          /\ frames[t] - 1 = 0 => owner # t
          /\ t \notin Queued
        BY <2>1, Standing
    <2>3. PICK e \in Results : FrameEnds(t, e)
        BY <1>0, <1>6 DEF Unwind, CancelOutcome, Results, TypeOK
    <2>4. PICK c \in {"idle", "body", "releasing"} :
              /\ pc' = [pc EXCEPT ![t] = c]
              /\ c = "idle" <=> frames[t] = 1
        BY <2>2, <2>3 DEF FrameEnds
    <2>5. frames' = [frames EXCEPT ![t] = frames[t] - 1]
        BY <2>3 DEF FrameEnds
    <2>6. Moves(t, c, frames[t] - 1)
        BY <2>1, <2>2, <2>4, <2>5 DEF Moves, HeldAt
    <2>7. QED BY <1>0, <2>2, <2>4, <2>6, MoveKeeps DEF TaskPcs
<1>7. CASE NewTask(t) \/ Cancel(t)
    <2>1. UNCHANGED <<state, waiters, owner, depth, grantedClose, reservation, pc, ready, frames>>
        BY <1>7 DEF NewTask, Cancel, gate, close
    <2>2. QED BY <1>0, <2>1 DEF GateInv, PcShape, FramesShape, GrantedOwns, QueueShape,
                  CloseShape, MutualExclusion, DepthCountsFrames, NoPhantomOwner,
                  NoLostWakeup, Vacant, Inside, Held
<1>8. CASE Reenter(t)
    <2>1. /\ pc[t] = "body" /\ owner = t /\ depth' = depth + 1
          /\ frames' = [frames EXCEPT ![t] = frames[t] + 1]
          /\ UNCHANGED <<state, waiters, owner, grantedClose, reservation, pc, ready>>
        BY <1>8 DEF Reenter, close
    <2>2. frames[t] \in Nat /\ frames[t] > 0 /\ depth = frames[t]
        BY <2>1, Standing
    <2>3. /\ frames'[t] = frames[t] + 1 /\ \A u \in Tasks : u # t => frames'[u] = frames[u]
          /\ Held(t)' = Held(t) + 1 /\ Held(t) > 0
          /\ \A u \in Tasks : u # t => Held(u)' = Held(u)
        BY <1>0, <2>1, <2>2 DEF Held, TypeOK
    <2>4. \A p \in Procs : Inside(p)' <=> Inside(p)
        BY <1>0, <2>1, <2>2, <2>3 DEF Inside, Procs, Held
    <2>5. PcShape' /\ FramesShape' /\ QueueShape' /\ CloseShape' /\ NoLostWakeup'
        BY <2>1, <2>2, <2>3
           DEF GateInv, PcShape, FramesShape, QueueShape, CloseShape, NoLostWakeup, Vacant
    <2>6. GrantedOwns'
        <3>1. \A u \in Tasks : pc[u] \in {"waiting", "cleanup"} /\ ready[u] = "granted" => FALSE
            BY <2>1 DEF GateInv, GrantedOwns
        <3>2. QED BY <2>1, <3>1 DEF GrantedOwns
    <2>7. MutualExclusion' /\ NoPhantomOwner'
        BY <1>0, <2>1, <2>4, CloserAssumption DEF GateInv, MutualExclusion, NoPhantomOwner, Procs
    <2>8. DepthCountsFrames'
        <3>1. ASSUME NEW u \in Tasks, Inside(u)'
              PROVE  depth' = Held(u)'
            <4>1. u = t
                BY <2>1, <2>4, <3>1 DEF GateInv, MutualExclusion, Procs
            <4>2. depth = Held(t)
                BY <2>1, <2>2 DEF Held
            <4>3. QED BY <2>1, <2>3, <4>1, <4>2
        <3>2. QED BY <3>1 DEF DepthCountsFrames
    <2>9. QED BY <1>0, <2>5, <2>6, <2>7, <2>8 DEF GateInv
<1>9. CASE Release(t)
    <2>1. /\ pc[t] = "releasing" /\ owner = t /\ pc' = [pc EXCEPT ![t] = "unwinding"]
          /\ frames' = frames /\ UNCHANGED <<state, reservation>>
        BY <1>9 DEF Release, close
    <2>2. /\ frames[t] \in Nat /\ frames[t] > 0 /\ Held(t) = frames[t] /\ depth = frames[t]
          /\ t \notin Queued
        BY <2>1, Standing
    <2>3. /\ Held(t)' = frames[t] - 1
          /\ pc'[Closer] = pc[Closer]
          /\ \A p \in Procs : p # t => pc'[p] = pc[p]
          /\ \A u \in Tasks : u # t => Held(u)' = Held(u)
          /\ \A p \in Procs : p # t => (Inside(p)' <=> Inside(p))
          /\ Inside(t)' <=> frames[t] > 1
        <3>1. pc'[t] = "unwinding" /\ frames' = frames /\ t # Closer /\ t \in Tasks
              /\ \A p \in Procs : p # t => pc'[p] = pc[p]
            BY <1>0, <2>1 DEF TypeOK, Procs
        <3>2. Held(t)' = frames[t] - 1 /\ pc'[Closer] = pc[Closer]
            BY <1>0, <3>1 DEF Held, Procs
        <3>3. \A u \in Tasks : u # t => Held(u)' = Held(u)
            BY <3>1 DEF Held, Procs
        <3>4. \A p \in Procs : p # t => (Inside(p)' <=> Inside(p))
            BY <3>2, <3>3 DEF Inside, Procs
        <3>5. Inside(t)' <=> frames[t] > 1
            BY <2>2, <3>1, <3>2 DEF Inside
        <3>6. QED BY <3>1, <3>2, <3>3, <3>4, <3>5
    <2>4. \A p \in Procs : p # t => ~Inside(p)
        BY <2>1 DEF GateInv, MutualExclusion
    <2>5. PcShape' /\ FramesShape'
        BY <1>0, <2>1, <2>2, <2>3 DEF GateInv, PcShape, FramesShape, TaskPcs, Procs
    <2>6. \A u \in Tasks : pc'[u] \in {"waiting", "cleanup"} => ready[u] # "granted"
        BY <1>0, <2>1, <2>3 DEF GateInv, GrantedOwns, Procs, TypeOK
    <2>7. NextQueue(waiters, ready)
        <3>1. ASSUME NEW i \in 1..Len(waiters)
              PROVE  /\ ready[waiters[i]] = "pending"
                     /\ IF waiters[i] = Closer
                        THEN /\ reservation' = "fifo" /\ pc'[Closer] \in {"reserved", "waiting"}
                             /\ i = Len(waiters)
                        ELSE pc'[waiters[i]] \in {"waiting", "cleanup"}
            <4>0. waiters \in Seq(Procs)
                BY <1>0 DEF TypeOK
            <4>1. waiters[i] \in Procs /\ waiters[i] \in Queued
                BY <4>0 DEF Queued
            <4>2. pc'[waiters[i]] = pc[waiters[i]]
                BY <2>2, <2>3, <4>1
            <4>3. QED BY <2>1, <2>3, <4>2 DEF GateInv, QueueShape
        <3>2. \A i, j \in 1..Len(waiters) : waiters[i] = waiters[j] => i = j
            BY DEF GateInv, QueueShape
        <3>3. QED BY <3>1, <3>2 DEF NextQueue
    <2>8. CASE depth = 1
        <3>1. GrantNext(waiters, ready, baseline, ceilingTask)
            BY <1>9, <2>8 DEF Release
        <3>2. \A p \in Procs : ~Inside(p)'
            BY <2>2, <2>3, <2>4, <2>8
        <3>3. waiters \in Seq(Procs) /\ ready \in [Procs -> Tickets]
            BY <1>0 DEF TypeOK
        <3>4. /\ QueueShape' /\ GrantedOwns' /\ NoLostWakeup'
              /\ MutualExclusion' /\ DepthCountsFrames' /\ NoPhantomOwner'
              /\ owner' # Closer
              /\ grantedClose' => /\ owner' = None /\ waiters' = <<>>
                                  /\ reservation' = "fifo" /\ pc'[Closer] \in {"reserved", "waiting"}
            BY <1>0, <2>5, <2>6, <2>7, <3>1, <3>2, <3>3, GrantNextKeeps
        <3>5. waiters = <<>> => waiters' = <<>>
            BY <3>1 DEF GrantNext
        <3>6. pc[Closer] \notin {"body", "releasing"}
            BY <1>0, <2>1 DEF GateInv, CloseShape
        <3>7. CloseShape'
            BY <2>1, <2>3, <3>4, <3>5, <3>6 DEF GateInv, CloseShape
        <3>8. QED BY <1>0, <2>5, <3>4, <3>7 DEF GateInv
    <2>9. CASE depth > 1
        <3>1. depth' = depth - 1 /\ UNCHANGED <<waiters, ready, owner, grantedClose>>
            BY <1>9, <2>9 DEF Release
        <3>2. QueueShape' /\ GrantedOwns'
            BY <2>6, <2>7, <3>1 DEF NextQueue, QueueShape, GrantedOwns
        <3>3. CloseShape' /\ NoLostWakeup'
            BY <2>1, <2>3, <3>1 DEF GateInv, CloseShape, NoLostWakeup, Vacant
        <3>4. MutualExclusion' /\ DepthCountsFrames' /\ NoPhantomOwner'
            BY <1>0, <2>1, <2>2, <2>3, <2>4, <2>9, <3>1, CloserAssumption
               DEF MutualExclusion, DepthCountsFrames, NoPhantomOwner, GateInv, CloseShape, Procs
        <3>5. QED BY <1>0, <2>5, <3>2, <3>3, <3>4 DEF GateInv
    <2>10. QED BY <1>9, <2>8, <2>9 DEF Release
<1>10. CASE Cleanup(t)
    <2>1. /\ pc[t] = "cleanup" /\ pc' = [pc EXCEPT ![t] = "leaving"]
          /\ frames' = frames /\ UNCHANGED <<state, reservation>>
        BY <1>10 DEF Cleanup, close
    <2>2. frames[t] = 0 /\ Held(t) = 0
        BY <2>1, Standing
    <2>3. /\ Held(t)' = 0 /\ pc'[t] = "leaving" /\ pc'[Closer] = pc[Closer]
          /\ \A p \in Procs : p # t => pc'[p] = pc[p]
          /\ \A u \in Tasks : u # t => Held(u)' = Held(u)
          /\ \A p \in Procs : Inside(p)' <=> Inside(p)
        BY <1>0, <2>1, <2>2 DEF Held, Inside, TypeOK, Procs
    <2>4. PcShape' /\ FramesShape'
        BY <1>0, <2>1, <2>2, <2>3 DEF GateInv, PcShape, FramesShape, TaskPcs, Procs
    <2>5. CASE t \in Queued
        <3>1. PICK i \in 1..Len(waiters) : waiters[i] = t /\ waiters' = Without(i)
            BY <1>10, <2>5 DEF Cleanup
        <3>2. UNCHANGED <<owner, depth, grantedClose, ready>>
            BY <1>10, <2>5 DEF Cleanup
        <3>3. ready[t] = "pending" /\ owner # t
            BY <2>2, <2>5, Standing
        <3>4. QueueShape'
            BY <2>1, <3>1, <3>2, WithoutKeeps
        <3>5. waiters # <<>>
            BY <3>1
        <3>6. ~Vacant /\ CloseShape' /\ NoLostWakeup'
            BY <2>1, <2>3, <3>2, <3>5 DEF GateInv, CloseShape, NoLostWakeup, Vacant
        <3>7. GrantedOwns' /\ MutualExclusion' /\ DepthCountsFrames' /\ NoPhantomOwner'
            BY <1>0, <2>1, <2>2, <2>3, <3>2, <3>3, CloserAssumption
               DEF GateInv, GrantedOwns, MutualExclusion, DepthCountsFrames, NoPhantomOwner, Procs
        <3>8. QED BY <1>0, <2>4, <3>4, <3>6, <3>7 DEF GateInv
    <2>6. \A i \in 1..Len(waiters) : waiters[i] = t => t \in Queued
        BY DEF Queued
    <2>7. CASE t \notin Queued /\ owner = t
        <3>1. GrantNext(waiters, ready, NoBaseline, None)
            BY <1>10, <2>6, <2>7 DEF Cleanup
        <3>2. \A p \in Procs : ~Inside(p)'
            BY <1>0, <2>2, <2>3, <2>7 DEF GateInv, MutualExclusion, Inside
        <3>3. \A u \in Tasks : pc'[u] \in {"waiting", "cleanup"} => ready[u] # "granted"
            BY <1>0, <2>1, <2>3, <2>7 DEF GateInv, GrantedOwns, Procs, TypeOK
        <3>4. NextQueue(waiters, ready)
            <4>1. ASSUME NEW i \in 1..Len(waiters)
                  PROVE  /\ ready[waiters[i]] = "pending"
                         /\ IF waiters[i] = Closer
                            THEN /\ reservation' = "fifo" /\ pc'[Closer] \in {"reserved", "waiting"}
                                 /\ i = Len(waiters)
                            ELSE pc'[waiters[i]] \in {"waiting", "cleanup"}
                <5>1. waiters \in Seq(Procs)
                    BY <1>0 DEF TypeOK
                <5>2. waiters[i] \in Procs /\ waiters[i] # t
                    BY <2>6, <2>7, <5>1
                <5>3. pc'[waiters[i]] = pc[waiters[i]]
                    BY <2>3, <5>2
                <5>4. QED BY <2>1, <2>3, <5>3 DEF GateInv, QueueShape
            <4>2. \A i, j \in 1..Len(waiters) : waiters[i] = waiters[j] => i = j
                BY DEF GateInv, QueueShape
            <4>3. QED BY <4>1, <4>2 DEF NextQueue
        <3>5. waiters \in Seq(Procs) /\ ready \in [Procs -> Tickets]
            BY <1>0 DEF TypeOK
        <3>6. /\ QueueShape' /\ GrantedOwns' /\ NoLostWakeup'
              /\ MutualExclusion' /\ DepthCountsFrames' /\ NoPhantomOwner'
              /\ owner' # Closer
              /\ grantedClose' => /\ owner' = None /\ waiters' = <<>>
                                  /\ reservation' = "fifo" /\ pc'[Closer] \in {"reserved", "waiting"}
            BY <1>0, <2>4, <3>1, <3>2, <3>3, <3>4, <3>5, GrantNextKeeps
        <3>7. waiters = <<>> => waiters' = <<>>
            BY <3>1 DEF GrantNext
        <3>8. pc[Closer] \notin {"body", "releasing"}
            BY <1>0, <2>7 DEF GateInv, CloseShape
        <3>9. CloseShape'
            BY <2>1, <2>3, <3>6, <3>7, <3>8 DEF GateInv, CloseShape
        <3>10. QED BY <1>0, <2>4, <3>6, <3>9 DEF GateInv
    <2>8. CASE t \notin Queued /\ owner # t
        <3>1. UNCHANGED <<waiters, owner, depth, grantedClose, ready>>
            BY <1>10, <2>6, <2>8 DEF Cleanup
        <3>2. Moves(t, "leaving", 0)
            BY <1>0, <2>1, <2>2, <2>8, <3>1 DEF Moves, HeldAt, TypeOK
        <3>3. QED BY <1>0, <3>2, MoveKeeps DEF TaskPcs
    <2>9. QED BY <2>5, <2>7, <2>8
<1>11. QED
    BY <1>1, <1>2, <1>3, <1>4, <1>5, <1>6, <1>7, <1>8, <1>9, <1>10 DEF Step

(* A step of the coordinator that leaves the gate and every task alone.     *)
LEMMA CloserMoveKeeps ==
    ASSUME GateInv, TypeOK',
           UNCHANGED <<state, waiters, owner, depth, grantedClose, reservation, ready, frames>>,
           NEW c \in CloserPcs, pc' = [pc EXCEPT ![Closer] = c],
           owner = Closer <=> c \in {"body", "releasing"},
           reservation = "none" <=> c = "none",
           c = "waiting" => reservation = "fifo",
           reservation = "fifo" /\ pc[Closer] \in {"reserved", "waiting"}
              => \/ c \in {"reserved", "waiting"}
                 \/ ~grantedClose /\ Closer \notin Queued
    PROVE  GateInv'
<1>1. /\ Closer \in Procs /\ Closer \notin Tasks /\ Closer # None
      /\ pc \in [Procs -> TaskPcs \cup CloserPcs] /\ waiters \in Seq(Procs)
    BY CloserAssumption DEF GateInv, TypeOK, Procs
<1>2. /\ pc'[Closer] = c
      /\ \A u \in Tasks : u \in Procs /\ u # Closer /\ pc'[u] = pc[u] /\ Held(u)' = Held(u)
    BY <1>1 DEF Held, Procs
<1>3. \A p \in Procs : Inside(p)' => owner = p
    BY <1>1, <1>2 DEF GateInv, MutualExclusion, Inside, Procs
<1>4. PcShape' /\ FramesShape' /\ GrantedOwns' /\ NoLostWakeup'
    BY <1>1, <1>2 DEF GateInv, PcShape, FramesShape, GrantedOwns, NoLostWakeup, Vacant
<1>5. QueueShape'
    <2>1. ASSUME NEW i \in 1..Len(waiters)
          PROVE  /\ ready[waiters[i]] = "pending"
                 /\ IF waiters[i] = Closer
                    THEN /\ reservation = "fifo" /\ pc'[Closer] \in {"reserved", "waiting"}
                         /\ i = Len(waiters)
                    ELSE pc'[waiters[i]] \in {"waiting", "cleanup"}
        <3>1. waiters[i] \in Procs /\ (waiters[i] = Closer => Closer \in Queued)
            BY <1>1 DEF Queued
        <3>2. QED BY <1>1, <1>2, <3>1 DEF GateInv, QueueShape, Procs
    <2>2. \A i, j \in 1..Len(waiters) : waiters[i] = waiters[j] => i = j
        BY DEF GateInv, QueueShape
    <2>3. QED BY <2>1, <2>2 DEF QueueShape
<1>6. CloseShape'
    BY <1>2 DEF GateInv, CloseShape
<1>7. MutualExclusion' /\ DepthCountsFrames' /\ NoPhantomOwner'
    <2>1. \A u \in Tasks : Inside(u)' <=> Inside(u)
        BY <1>2 DEF Inside
    <2>2. DepthCountsFrames'
        BY <1>2, <2>1 DEF GateInv, DepthCountsFrames
    <2>3. NoPhantomOwner'
        BY <1>1, <1>2, <2>1 DEF GateInv, CloseShape, NoPhantomOwner, Inside
    <2>4. QED BY <1>3, <2>2, <2>3 DEF MutualExclusion
<1>8. QED BY <1>4, <1>5, <1>6, <1>7 DEF GateInv

(* A step that empties the queue and leaves the owner and every task where  *)
(* they stand keeps what the invariant says of the tasks.                   *)
LEMMA EmptyingKeeps ==
    ASSUME GateInv, TypeOK', frames' = frames, waiters' = <<>>,
           UNCHANGED <<owner, depth, grantedClose>>,
           \A u \in Tasks : pc'[u] = pc[u] /\ (ready'[u] = "granted" <=> ready[u] = "granted")
    PROVE  /\ \A u \in Tasks : pc'[u] \in TaskPcs /\ (Inside(u)' <=> Inside(u))
           /\ FramesShape' /\ GrantedOwns' /\ QueueShape' /\ NoLostWakeup' /\ DepthCountsFrames'
           /\ owner \in Tasks =>
                 \/ Inside(owner)'
                 \/ pc'[owner] \in {"waiting", "cleanup"} /\ ready'[owner] = "granted"
<1>1. \A u \in Tasks : u \in Procs /\ u # Closer /\ Held(u)' = Held(u)
    BY CloserAssumption DEF Held, Procs
<1>2. \A u \in Tasks : pc'[u] \in TaskPcs /\ (Inside(u)' <=> Inside(u))
    BY <1>1 DEF GateInv, PcShape, Inside
<1>3. FramesShape' /\ GrantedOwns' /\ DepthCountsFrames'
    BY <1>1, <1>2 DEF GateInv, FramesShape, GrantedOwns, DepthCountsFrames
<1>4. QueueShape' /\ NoLostWakeup'
    BY DEF QueueShape, NoLostWakeup
<1>5. QED BY <1>1, <1>2, <1>3, <1>4 DEF GateInv, NoPhantomOwner

(* The close ticket marked granted was told so, and is not told otherwise.  *)
GrantIsReady == grantedClose => ready[Closer] = "granted"

(* A grant leaves the process it hands the lease to with a resolved ticket. *)
LEMMA GrantIsTold ==
    ASSUME NEW q \in Seq(Procs), NEW rdy \in [Procs -> Tickets], NEW base, NEW mark,
           GrantNext(q, rdy, base, mark)
    PROVE  GrantIsReady'
<1>1. CASE q = <<>>
    <2>1. grantedClose' = FALSE
        BY <1>1, Zenon DEF GrantNext
    <2>2. QED BY <2>1 DEF GrantIsReady
<1>2. CASE q # <<>> /\ Head(q) = Closer
    <2>1. ready' = [rdy EXCEPT ![Closer] = "granted"]
        BY <1>2 DEF GrantNext
    <2>2. QED BY <2>1 DEF GrantIsReady, Procs
<1>3. CASE q # <<>> /\ Head(q) # Closer
    <2>1. grantedClose' = FALSE
        BY <1>3, Zenon DEF GrantNext
    <2>2. QED BY <2>1 DEF GrantIsReady
<1>4. QED BY <1>1, <1>2, <1>3

(* No step leaves an owner waiting on a ticket nobody resolves.             *)
LEMMA GrantIsReadyStep ==
    ASSUME GateInv, GrantIsReady, [Next]_vars
    PROVE  GrantIsReady'
<1>0. /\ TypeOK /\ waiters \in Seq(Procs) /\ ready \in [Procs -> Tickets]
      /\ Closer \in Procs /\ Closer \notin Tasks /\ Tasks \subseteq Procs
    BY CloserAssumption DEF GateInv, TypeOK, Procs
<1> USE <1>0
<1>1. grantedClose => Closer \notin Queued /\ state # "open"
    BY DEF GateInv, CloseShape, Queued
<1>2. ASSUME NEW p \in Procs, Enqueue(p), p = Closer => state = "open"
      PROVE  GrantIsReady'
    <2> DEFINE rdy == [ready EXCEPT ![p] = "pending"]
               q == Append(waiters, p)
    <2>1. rdy \in [Procs -> Tickets] /\ q \in Seq(Procs)
        BY DEF Tickets
    <2>2. CASE Vacant
        <3>1. GrantNext(q, rdy, baseline, ceilingTask)
            BY <1>2, <2>2 DEF Enqueue
        <3>2. QED BY <2>1, <3>1, GrantIsTold
    <2>3. CASE ~Vacant
        <3>1. grantedClose' = grantedClose /\ ready' = rdy
            BY <1>2, <2>3 DEF Enqueue
        <3>2. QED BY <1>1, <1>2, <3>1 DEF GrantIsReady
    <2>4. QED BY <2>2, <2>3
<1>3. ASSUME NEW why, FailQueued(why), grantedClose' = grantedClose
      PROVE  GrantIsReady'
    BY <1>1, <1>3 DEF FailQueued, GrantIsReady
<1>4. ASSUME UNCHANGED <<grantedClose, ready>> PROVE GrantIsReady'
    BY <1>4 DEF GrantIsReady
<1>5. ASSUME NEW t \in Tasks, Step(t) PROVE GrantIsReady'
    <2>1. CASE Acquire(t)
        <3>1. Enqueue(t) \/ UNCHANGED <<grantedClose, ready>>
            BY <2>1 DEF Acquire, gate
        <3>2. QED BY <1>2, <1>4, <3>1
    <2>2. CASE Cleanup(t)
        <3>1. GrantNext(waiters, ready, NoBaseline, None) \/ UNCHANGED <<grantedClose, ready>>
            BY <2>2 DEF Cleanup
        <3>2. QED BY <1>4, <3>1, GrantIsTold
    <2>3. CASE Release(t)
        <3>1. GrantNext(waiters, ready, baseline, ceilingTask) \/ UNCHANGED <<grantedClose, ready>>
            BY <2>3 DEF Release
        <3>2. QED BY <1>4, <3>1, GrantIsTold
    <2>4. CASE ~(Acquire(t) \/ Cleanup(t) \/ Release(t))
        BY <1>4, <1>5, <2>4
           DEF Step, Resume, GiveUp, QueueTimeout, Leave, Reenter, BodyExit, BodyCancelled,
               Unwind, NewTask, Cancel, gate
    <2>5. QED BY <2>1, <2>2, <2>3, <2>4
<1>6. ASSUME CloseStep PROVE GrantIsReady'
    <2>1. CASE ReserveClose
        <3>1. CASE state = "open"
            BY <1>2, <2>1, <3>1 DEF ReserveClose
        <3>2. CASE state = "broken"
            BY <2>1, <3>2 DEF ReserveClose, GrantIsReady
        <3>3. QED BY <2>1, <3>1, <3>2 DEF ReserveClose
    <2>2. CASE AcceptExternalClose
        <3>1. CASE reservation = "none"
            BY <2>2, <3>1 DEF AcceptExternalClose, GrantIsReady
        <3>2. CASE reservation # "none"
            BY <1>3, <2>2, <3>2 DEF AcceptExternalClose
        <3>3. QED BY <3>1, <3>2
    <2>3. CASE BindClose \/ CloseRefused
        <3>1. ready' = ready
            BY <2>3 DEF BindClose, CloseRefused
        <3>2. grantedClose' = FALSE \/ grantedClose' = grantedClose
            BY <2>3, Zenon DEF BindClose, CloseRefused
        <3>3. QED BY <3>1, <3>2 DEF GrantIsReady
    <2>4. CASE ReleaseClose
        BY <1>3, <1>4, <2>4 DEF ReleaseClose
    <2>5. CASE ResolveClose
        BY <1>3, <2>5 DEF ResolveClose
    <2>6. CASE StartClose \/ CloseBodyExit \/ UnwindClose \/ TeardownEnds
        BY <1>4, <2>6 DEF StartClose, CloseBodyExit, UnwindClose, TeardownEnds, gate
    <2>7. QED BY <1>6, <2>1, <2>2, <2>3, <2>4, <2>5, <2>6 DEF CloseStep
<1>7. CASE Tick
    BY <1>4, <1>7 DEF Tick, task
<1>8. CASE Ceiling
    BY <1>3, <1>8 DEF Ceiling, BreakIn
<1>9. CASE UNCHANGED vars
    BY <1>4, <1>9 DEF vars
<1>10. QED BY <1>5, <1>6, <1>7, <1>8, <1>9 DEF Next

(* So does every step of the close.                                         *)
LEMMA CloseStepInv ==
    ASSUME GateInv, GrantIsReady, CloseStep
    PROVE  GateInv'
<1>0. /\ TypeOK /\ TypeOK' /\ Closer \in Procs /\ Closer \notin Tasks /\ Closer # None
      /\ pc \in [Procs -> TaskPcs \cup CloserPcs]
    BY CloseStepType, CloserAssumption DEF GateInv, Procs, TypeOK
<1> USE <1>0
<1>1. CASE ReserveClose
    <2>1. /\ reservation = "none" /\ pc[Closer] = "none" /\ frames' = frames
          /\ pc' = [pc EXCEPT ![Closer] = "reserved"] /\ pc'[Closer] = "reserved"
        BY <1>1 DEF ReserveClose, GateInv, CloseShape
    <2>2. CASE state = "open"
        <3>1. Enqueue(Closer) /\ reservation' = "fifo" /\ state' = "closing"
            BY <1>1, <2>2 DEF ReserveClose
        <3>2. /\ FramesShape'
              /\ QueueShape' /\ GrantedOwns' /\ NoLostWakeup'
              /\ MutualExclusion' /\ DepthCountsFrames' /\ NoPhantomOwner'
              /\ owner' # Closer
              /\ grantedClose' => /\ owner' = None /\ waiters' = <<>>
                                  /\ reservation' = "fifo" /\ pc'[Closer] \in {"reserved", "waiting"}
            BY <2>1, <2>2, <3>1, EnqueueKeeps
        <3>3. PcShape'
            BY <2>1 DEF GateInv, PcShape, CloserPcs, Procs
        <3>4. CloseShape'
            BY <2>1, <3>1, <3>2 DEF CloseShape
        <3>5. QED BY <3>2, <3>3, <3>4 DEF GateInv
    <2>3. CASE state = "broken"
        <3>1. /\ reservation' = "teardown" /\ ready' = [ready EXCEPT ![Closer] = "granted"]
              /\ UNCHANGED <<state, waiters, owner, depth, grantedClose>>
            BY <1>1, <2>3 DEF ReserveClose, gate
        <3>2. waiters = <<>> /\ ~grantedClose /\ owner # Closer
            BY <2>1, <2>3 DEF GateInv, CloseShape
        <3>3. \A u \in Tasks : u \in Procs /\ pc'[u] = pc[u] /\ ready'[u] = ready[u] /\ Held(u)' = Held(u)
            BY <2>1, <3>1 DEF Held, Procs, TypeOK
        <3>4. PcShape' /\ FramesShape' /\ GrantedOwns' /\ QueueShape' /\ CloseShape' /\ NoLostWakeup'
            BY <2>1, <2>3, <3>1, <3>2, <3>3
               DEF GateInv, PcShape, CloserPcs, FramesShape, GrantedOwns, QueueShape, CloseShape,
                   NoLostWakeup
        <3>5. \A u \in Tasks : Inside(u)' <=> Inside(u)
            BY <3>3 DEF Inside
        <3>6. MutualExclusion' /\ DepthCountsFrames' /\ NoPhantomOwner'
            BY <2>1, <3>1, <3>2, <3>3, <3>5
               DEF GateInv, MutualExclusion, DepthCountsFrames, NoPhantomOwner, Inside, Procs
        <3>7. QED BY <3>4, <3>6 DEF GateInv
    <2>4. QED BY <1>1, <2>2, <2>3 DEF ReserveClose
<1>3. CASE StartClose
    <2>1. PICK c \in {"teardown", "waiting"} :
             /\ pc' = [pc EXCEPT ![Closer] = c]
             /\ c = "teardown" <=> reservation = "teardown"
        BY <1>3 DEF StartClose
    <2>2. /\ pc[Closer] = "reserved" /\ reservation # "none" /\ owner # Closer
          /\ UNCHANGED <<state, waiters, owner, depth, grantedClose, reservation, ready, frames>>
        BY <1>3 DEF StartClose, gate, close, GateInv, CloseShape
    <2>3. reservation \in {"fifo", "teardown"}
        BY <2>2 DEF TypeOK
    <2>4. QED BY <2>1, <2>2, <2>3, CloserMoveKeeps DEF CloserPcs
<1>4. CASE TeardownEnds \/ UnwindClose
    <2>1. /\ pc' = [pc EXCEPT ![Closer] = "settling"]
          /\ pc[Closer] \in {"teardown", "unwinding"}
          /\ UNCHANGED <<state, waiters, owner, depth, grantedClose, reservation, ready, frames>>
        BY <1>4 DEF TeardownEnds, UnwindClose, gate, close
    <2>2. owner # Closer /\ reservation # "none"
        BY <2>1 DEF GateInv, CloseShape
    <2>3. QED BY <2>1, <2>2, CloserMoveKeeps DEF CloserPcs
<1>5. CASE CloseBodyExit
    <2>1. /\ pc' = [pc EXCEPT ![Closer] = "releasing"] /\ pc[Closer] = "body"
          /\ UNCHANGED <<state, waiters, owner, depth, grantedClose, reservation, ready, frames>>
        BY <1>5 DEF CloseBodyExit, gate, close
    <2>2. owner = Closer /\ reservation # "none"
        BY <2>1 DEF GateInv, CloseShape
    <2>3. QED BY <2>1, <2>2, CloserMoveKeeps DEF CloserPcs
<1>6. CASE AcceptExternalClose
    <2>1. /\ state' = "closed" /\ frames' = frames /\ waiters' = <<>>
          /\ UNCHANGED <<owner, depth, grantedClose>>
        BY <1>6, Zenon DEF AcceptExternalClose, FailQueued
    <2>2. reservation' # "none" /\ (reservation # "none" => reservation' = reservation)
        BY <1>6 DEF AcceptExternalClose
    <2>3. pc'[Closer] = IF reservation = "none" THEN "reserved" ELSE pc[Closer]
        BY <1>6 DEF AcceptExternalClose
    <2>4. \A u \in Tasks : pc'[u] = pc[u]
        BY <1>6 DEF AcceptExternalClose, Procs
    <2>5. \A p \in Queued : ready[p] = "pending"
        BY DEF GateInv, QueueShape, Queued
    <2>6. \A u \in Tasks : ready'[u] = "granted" <=> ready[u] = "granted"
        BY <1>6, <2>5 DEF AcceptExternalClose, FailQueued, Procs
    <2>7. /\ \A u \in Tasks : pc'[u] \in TaskPcs /\ (Inside(u)' <=> Inside(u))
          /\ FramesShape' /\ GrantedOwns' /\ QueueShape' /\ NoLostWakeup' /\ DepthCountsFrames'
          /\ owner \in Tasks =>
                \/ Inside(owner)'
                \/ pc'[owner] \in {"waiting", "cleanup"} /\ ready'[owner] = "granted"
        BY <2>1, <2>4, <2>6, EmptyingKeeps
    <2>8. PcShape' /\ CloseShape'
        BY <2>1, <2>2, <2>3, <2>7 DEF GateInv, PcShape, CloserPcs, CloseShape
    <2>9. MutualExclusion' /\ NoPhantomOwner'
        BY <2>1, <2>2, <2>3, <2>7
           DEF GateInv, CloseShape, MutualExclusion, NoPhantomOwner, Inside, Procs
    <2>10. QED BY <2>7, <2>8, <2>9 DEF GateInv
<1>7. CASE BindClose
    <2>1. /\ pc[Closer] = "waiting" /\ grantedClose /\ ~grantedClose' /\ owner' = Closer
          /\ pc' = [pc EXCEPT ![Closer] = "body"] /\ pc'[Closer] = "body"
          /\ UNCHANGED <<state, waiters, reservation, ready, frames>>
        BY <1>7 DEF BindClose, close
    <2>2. owner = None /\ waiters = <<>> /\ reservation = "fifo" /\ state # "open"
        BY <2>1 DEF GateInv, CloseShape
    <2>3. \A u \in Tasks : u \in Procs /\ u # None /\ pc'[u] = pc[u] /\ Held(u)' = Held(u)
        BY <2>1, CloserAssumption DEF Held, Procs
    <2>4. \A u \in Tasks : ~Inside(u)'
        BY <2>2, <2>3 DEF GateInv, MutualExclusion, Inside
    <2>5. PcShape' /\ FramesShape' /\ QueueShape' /\ CloseShape' /\ NoLostWakeup'
        BY <2>1, <2>2, <2>3
           DEF GateInv, PcShape, CloserPcs, FramesShape, QueueShape, CloseShape, NoLostWakeup
    <2>6. GrantedOwns'
        BY <2>1, <2>2, <2>3 DEF GateInv, GrantedOwns
    <2>7. MutualExclusion' /\ DepthCountsFrames' /\ NoPhantomOwner'
        BY <2>1, <2>4 DEF MutualExclusion, DepthCountsFrames, NoPhantomOwner, Inside, Procs
    <2>8. QED BY <2>5, <2>6, <2>7 DEF GateInv
<1>8. CASE CloseRefused
    <2>1. PICK c \in {"teardown", "settling"} :
             /\ pc' = [pc EXCEPT ![Closer] = c]
        BY <1>8 DEF CloseRefused
    <2>2. /\ pc[Closer] = "waiting" /\ pc'[Closer] = c
          /\ UNCHANGED <<state, waiters, owner, depth, reservation, ready, frames>>
        BY <1>8, <2>1 DEF CloseRefused, close
    <2>3. ready[Closer] \in {"closed", "granted", "broken"}
        BY <1>8 DEF CloseRefused
    <2>4. Closer \notin Queued /\ reservation = "fifo" /\ state # "open" /\ owner # Closer
        BY <2>2, <2>3 DEF GateInv, QueueShape, Queued, CloseShape
    <2>5. CASE ready[Closer] # "broken"
        <3>1. ~grantedClose'
            BY <1>8, <2>5, Zenon DEF CloseRefused
        <3>2. \A u \in Tasks : u \in Procs /\ pc'[u] = pc[u] /\ Held(u)' = Held(u)
            BY <2>1, <2>2 DEF Held, Procs
        <3>3. \A u \in Tasks : Inside(u)' <=> Inside(u)
            BY <3>2 DEF Inside
        <3>4. grantedClose => waiters = <<>>
            BY DEF GateInv, CloseShape
        <3>5. PcShape' /\ FramesShape' /\ GrantedOwns' /\ CloseShape' /\ NoLostWakeup'
            BY <2>2, <2>4, <3>1, <3>2, <3>4
               DEF GateInv, PcShape, CloserPcs, FramesShape, GrantedOwns, CloseShape, NoLostWakeup,
                   Vacant
        <3>6. QueueShape'
            <4>1. ASSUME NEW i \in 1..Len(waiters)
                  PROVE  /\ ready[waiters[i]] = "pending" /\ waiters[i] # Closer
                         /\ pc'[waiters[i]] \in {"waiting", "cleanup"}
                <5>1. waiters[i] \in Procs /\ waiters[i] \in Queued
                    <6>1. waiters \in Seq(Procs)
                        BY DEF TypeOK
                    <6>2. QED BY <6>1 DEF Queued
                <5>2. QED BY <2>1, <2>4, <5>1 DEF GateInv, QueueShape
            <4>2. \A i, j \in 1..Len(waiters) : waiters[i] = waiters[j] => i = j
                BY DEF GateInv, QueueShape
            <4>3. QED BY <2>2, <4>1, <4>2 DEF QueueShape
        <3>7. MutualExclusion' /\ DepthCountsFrames' /\ NoPhantomOwner'
            BY <2>2, <2>4, <3>1, <3>2, <3>3
               DEF GateInv, MutualExclusion, DepthCountsFrames, NoPhantomOwner, Inside, Procs
        <3>8. QED BY <3>5, <3>6, <3>7 DEF GateInv
    <2>6. CASE ready[Closer] = "broken"
        <3>1. UNCHANGED grantedClose
            BY <1>8, <2>6 DEF CloseRefused
        <3>2. ~grantedClose
            BY <2>6 DEF GrantIsReady
        <3>3. QED BY <2>1, <2>2, <2>4, <3>1, <3>2, CloserMoveKeeps DEF CloserPcs
    <2>7. QED BY <2>5, <2>6
<1>9. CASE ReleaseClose
    <2>1. /\ owner = Closer /\ owner' = None /\ frames' = frames /\ reservation' = reservation
          /\ pc[Closer] = "releasing"
          /\ pc' = [pc EXCEPT ![Closer] = "unwinding"] /\ pc'[Closer] = "unwinding"
          /\ state' \in {state, "closed"}
        BY <1>9 DEF ReleaseClose
    <2>2. grantedClose' = grantedClose
        BY <1>9, Zenon DEF ReleaseClose
    <2>3. waiters = <<>> /\ ~grantedClose /\ reservation # "none" /\ state # "open"
        BY <2>1 DEF GateInv, CloseShape
    <2>4. waiters' = <<>> /\ ready' = ready
        <3>1. CASE exc[Closer] = "ok"
            BY <1>9, <2>3, <3>1 DEF ReleaseClose
        <3>2. CASE exc[Closer] # "ok"
            <4>1. FailQueued("closed") /\ Queued = {}
                BY <1>9, <2>3, <3>2 DEF ReleaseClose, Queued
            <4>2. QED BY <4>1 DEF FailQueued, TypeOK
        <3>3. QED BY <3>1, <3>2
    <2>5. \A u \in Tasks : u \in Procs /\ u # Closer /\ pc'[u] = pc[u] /\ Held(u)' = Held(u)
        BY <2>1 DEF Held, Procs
    <2>6. \A u \in Tasks : ~Inside(u)'
        BY <2>1, <2>5 DEF GateInv, MutualExclusion, Inside
    <2>7. PcShape' /\ FramesShape' /\ QueueShape' /\ CloseShape' /\ NoLostWakeup'
        BY <2>1, <2>2, <2>3, <2>4, <2>5
           DEF GateInv, PcShape, CloserPcs, FramesShape, QueueShape, CloseShape, NoLostWakeup
    <2>8. GrantedOwns'
        BY <2>1, <2>4, <2>5 DEF GateInv, GrantedOwns
    <2>9. MutualExclusion' /\ DepthCountsFrames' /\ NoPhantomOwner'
        BY <2>1, <2>2, <2>3, <2>6, CloserAssumption
           DEF MutualExclusion, DepthCountsFrames, NoPhantomOwner, Inside, Procs
    <2>10. QED BY <2>7, <2>8, <2>9 DEF GateInv
<1>10. CASE ResolveClose
    <2>1. /\ pc[Closer] = "settling" /\ pc' = [pc EXCEPT ![Closer] = "done"]
          /\ pc'[Closer] = "done" /\ state' = "closed" /\ FailQueued("closed")
          /\ frames' = frames /\ waiters' = <<>> /\ reservation' = reservation
        BY <1>10 DEF ResolveClose, FailQueued
    <2>2. UNCHANGED <<owner, depth, grantedClose>>
        BY <1>10 DEF ResolveClose
    <2>3. reservation # "none" /\ ~grantedClose /\ owner # Closer
        BY <2>1 DEF GateInv, CloseShape
    <2>4. \A u \in Tasks : u \in Procs /\ pc'[u] = pc[u]
        BY <2>1 DEF Procs
    <2>5. \A p \in Queued : ready[p] = "pending"
        BY DEF GateInv, QueueShape, Queued
    <2>6. \A u \in Tasks : ready'[u] = "granted" <=> ready[u] = "granted"
        BY <2>1, <2>4, <2>5 DEF FailQueued
    <2>7. /\ \A u \in Tasks : pc'[u] \in TaskPcs /\ (Inside(u)' <=> Inside(u))
          /\ FramesShape' /\ GrantedOwns' /\ QueueShape' /\ NoLostWakeup' /\ DepthCountsFrames'
          /\ owner \in Tasks =>
                \/ Inside(owner)'
                \/ pc'[owner] \in {"waiting", "cleanup"} /\ ready'[owner] = "granted"
        BY <2>1, <2>2, <2>4, <2>6, EmptyingKeeps
    <2>8. PcShape' /\ CloseShape'
        BY <2>1, <2>2, <2>3, <2>7 DEF PcShape, CloserPcs, CloseShape
    <2>9. MutualExclusion' /\ NoPhantomOwner'
        BY <2>1, <2>2, <2>3, <2>7
           DEF GateInv, MutualExclusion, NoPhantomOwner, Inside, Procs
    <2>10. QED BY <2>7, <2>8, <2>9 DEF GateInv
<1>11. QED
    BY <1>1, <1>3, <1>4, <1>5, <1>6, <1>7, <1>8, <1>9, <1>10 DEF CloseStep

(* Breaking the gate leaves the lease being broken, and every other, alone. *)
LEMMA CeilingInv ==
    ASSUME GateInv, TypeOK', Ceiling
    PROVE  GateInv'
<1>0. /\ TypeOK /\ Closer \in Procs /\ Closer \notin Tasks /\ Closer # None
    BY CloserAssumption DEF GateInv, Procs
<1>1. /\ state' = "broken" /\ FailQueued("broken") /\ waiters' = <<>>
      /\ UNCHANGED <<owner, depth, grantedClose, reservation, pc, frames>>
    BY DEF Ceiling, BreakIn, close, FailQueued
<1>2. \A p \in Queued : ready[p] = "pending"
    BY DEF GateInv, QueueShape, Queued
<1>3. \A u \in Tasks : pc'[u] = pc[u] /\ (ready'[u] = "granted" <=> ready[u] = "granted")
    BY <1>1, <1>2 DEF FailQueued, Procs
<1>4. /\ \A u \in Tasks : pc'[u] \in TaskPcs /\ (Inside(u)' <=> Inside(u))
      /\ FramesShape' /\ GrantedOwns' /\ QueueShape' /\ NoLostWakeup' /\ DepthCountsFrames'
      /\ owner \in Tasks =>
            \/ Inside(owner)'
            \/ pc'[owner] \in {"waiting", "cleanup"} /\ ready'[owner] = "granted"
    BY <1>1, <1>3, EmptyingKeeps
<1>5. PcShape' /\ CloseShape'
    BY <1>1 DEF GateInv, PcShape, CloseShape
<1>6. MutualExclusion' /\ NoPhantomOwner'
    BY <1>0, <1>1, <1>4
       DEF GateInv, CloseShape, MutualExclusion, NoPhantomOwner, Inside, Procs
<1>7. QED BY <1>4, <1>5, <1>6 DEF GateInv

(* The gate starts vacant, with every part of its invariant.                *)
LEMMA InitInv ==
    ASSUME Init
    PROVE  GateInv /\ GrantIsReady
<1>1. TypeOK
    BY InitType
<1>2. /\ pc[Closer] = "none" /\ waiters = <<>> /\ owner = None /\ grantedClose = FALSE
      /\ reservation = "none" /\ state = "open"
      /\ \A u \in Tasks : pc[u] = "idle" /\ frames[u] = 0
    BY CloserAssumption, Zenon DEF Init, Procs
<1>3. PcShape /\ FramesShape /\ GrantedOwns
    BY <1>2 DEF PcShape, FramesShape, GrantedOwns, TaskPcs, CloserPcs
<1>4. QueueShape /\ CloseShape /\ NoLostWakeup /\ GrantIsReady
    BY <1>2, CloserAssumption DEF QueueShape, CloseShape, NoLostWakeup, GrantIsReady
<1>5. MutualExclusion /\ DepthCountsFrames /\ NoPhantomOwner
    BY <1>2, CloserAssumption
       DEF MutualExclusion, DepthCountsFrames, NoPhantomOwner, Inside, Held, Procs
<1>6. QED BY <1>1, <1>3, <1>4, <1>5 DEF GateInv

(* Every step keeps it.                                                     *)
LEMMA GateKeeps ==
    ASSUME GateInv, GrantIsReady, [Next]_vars
    PROVE  GateInv' /\ GrantIsReady'
<1>1. GrantIsReady'
    BY GrantIsReadyStep
<1>2. CASE \E t \in Tasks : Step(t)
    BY <1>1, <1>2, StepInv
<1>3. CASE CloseStep
    BY <1>1, <1>3, CloseStepInv
<1>4. CASE Tick
    <2>1. UNCHANGED <<state, waiters, owner, depth, grantedClose, reservation, pc, ready, frames>>
        BY <1>4 DEF Tick, close, task
    <2>2. TypeOK'
        BY <1>4 DEF Tick, close, task, GateInv, TypeOK
    <2>3. QED
        BY <1>1, <2>1, <2>2
           DEF GateInv, PcShape, FramesShape, GrantedOwns, QueueShape, CloseShape,
               MutualExclusion, DepthCountsFrames, NoPhantomOwner, NoLostWakeup, Vacant,
               Inside, Held
<1>5. CASE Ceiling
    <2>1. TypeOK'
        BY <1>5, FailQueuedType DEF Ceiling, BreakIn, GateInv, TypeOK, Procs, close, States, Tickets
    <2>2. QED BY <1>1, <1>5, <2>1, CeilingInv
<1>6. CASE UNCHANGED vars
    BY <1>1, <1>6
       DEF vars, GateInv, TypeOK, PcShape, FramesShape, GrantedOwns, QueueShape, CloseShape,
           MutualExclusion, DepthCountsFrames, NoPhantomOwner, NoLostWakeup, Vacant,
           Inside, Held
<1>7. QED BY <1>2, <1>3, <1>4, <1>5, <1>6 DEF Next

(* The inductive invariant holds in every reachable state.                  *)
THEOREM GateInvariant == Spec => [](GateInv /\ GrantIsReady)
<1>1. GateInv /\ GrantIsReady /\ [Next]_vars => (GateInv /\ GrantIsReady)'
    BY GateKeeps
<1>2. QED BY <1>1, InitInv, PTL DEF Spec

(* No two tasks are ever inside the lease, and the gate knows which one is: *)
(* operation()'s serialisation, for any number of callers.                  *)
THEOREM LeaseIsExclusive == Spec => []MutualExclusion
<1>1. GateInv => MutualExclusion
    BY DEF GateInv
<1>2. QED BY <1>1, GateInvariant, PTL

(* A vacant gate never keeps anybody waiting, whatever mix of time-outs,    *)
(* cancellations and closes emptied it.                                     *)
THEOREM VacantGateHasNoQueue == Spec => []NoLostWakeup
<1>1. GateInv => NoLostWakeup
    BY DEF GateInv
<1>2. QED BY <1>1, GateInvariant, PTL

(* The gate is never owned by a task that has left it.                      *)
THEOREM OwnerIsLive == Spec => []NoPhantomOwner
<1>1. GateInv => NoPhantomOwner
    BY DEF GateInv
<1>2. QED BY <1>1, GateInvariant, PTL

(* The re-entry depth is the number of frames still open, so the outermost  *)
(* release, and no other, passes the gate on.                               *)
THEOREM DepthIsFrames == Spec => []DepthCountsFrames
<1>1. GateInv => DepthCountsFrames
    BY DEF GateInv
<1>2. QED BY <1>1, GateInvariant, PTL

(* The session's lease is held by one live task, to the depth the gate      *)
(* counts, for any number of callers and any nesting of their operations.   *)
THEOREM LeaseIsHeld == Spec => []LeaseHeld
<1>1. GateInv => LeaseHeld
    BY DEF GateInv, LeaseHeld
<1>2. QED BY <1>1, GateInvariant, PTL

(* Nobody stands behind the close in the queue, and nobody waits once it is *)
(* granted or bound.                                                        *)
THEOREM NobodyBehindTheClose == Spec => []CloseIsLast
<1>1. GateInv => CloseIsLast
    <2> SUFFICES ASSUME GateInv PROVE CloseIsLast
        OBVIOUS
    <2>1. ASSUME Closer \in Queued PROVE waiters[Len(waiters)] = Closer
        <3>1. PICK i \in 1..Len(waiters) : waiters[i] = Closer
            BY <2>1 DEF Queued
        <3>2. i = Len(waiters)
            BY <3>1 DEF GateInv, QueueShape
        <3>3. QED BY <3>1, <3>2
    <2>2. grantedClose \/ owner = Closer => waiters = <<>>
        BY DEF GateInv, CloseShape
    <2>3. QED BY <2>1, <2>2 DEF CloseIsLast
<1>2. QED BY <1>1, GateInvariant, PTL

-----------------------------------------------------------------------------
(* Who cancelled a call.                                                    *)

(* The ceiling marks the lease's owner when it breaks the gate; nobody is   *)
(* granted it afterwards.                                                   *)
MarkShape ==
    ceilingTask # None =>
        /\ state \in {"closed", "broken"} /\ ~grantedClose
        /\ owner \in {ceilingTask, None}

(* A caller that waits undisturbed was not cancelled in this call; if it was*)
(* granted the gate, the baseline is its count of cancellations.            *)
WaitsUncancelled ==
    \A t \in Tasks :
        pc[t] = "waiting" /\ ~pending[t] =>
            /\ "client" \notin blame[t]
            /\ owner = t => baseline = cancels[t] /\ ceilingTask # t

(* In a lease, the cancellations counted beyond the baseline, the ceiling's *)
(* own aside, are the client's.                                             *)
ClientsOwn(t) == IF ceilingTask = t THEN cancels[t] - 1 ELSE cancels[t]

CountsCancels ==
    \A t \in Tasks :
        frames[t] > 0 /\ (owner = t \/ ceilingTask = t) =>
            /\ baseline \in Nat /\ ClientsOwn(t) >= baseline
            /\ "client" \in blame[t] <=> ClientsOwn(t) > baseline

(* A cancellation on its way into a lease is the client's or the ceiling's. *)
PendingIsKnown ==
    \A t \in Tasks :
        /\ pc[t] = "idle" => ~pending[t]
        /\ frames[t] > 0 /\ pending[t] => "client" \in blame[t] \/ ceilingTask = t

(* How a frame ended says who cancelled it.                                 *)
EndsAccount ==
    \A t \in Tasks :
        /\ exc[t] = "cancelled" => "client" \in blame[t]
        /\ exc[t] = "aborted" => "client" \notin blame[t] \/ pending[t]

CancelInv == MarkShape /\ WaitsUncancelled /\ CountsCancels /\ PendingIsKnown /\ EndsAccount

(* What a grant at the end of a step leaves the cancel bookkeeping at.      *)
LEMMA GrantMarks ==
    ASSUME NEW q \in Seq(Procs), NEW rdy, NEW base, NEW mark, GrantNext(q, rdy, base, mark),
           q # <<>> => mark = None
    PROVE  /\ ceilingTask' = mark
           /\ grantedClose' => q # <<>>
           /\ \/ owner' = None /\ baseline' = base
              \/ q # <<>> /\ owner' = Head(q) /\ owner' \in Tasks /\ baseline' = cancels[owner']
<1>1. CASE q = <<>>
    BY <1>1 DEF GrantNext
<1>2. CASE q # <<>>
    <2>1. Head(q) \in Procs
        BY <1>2
    <2> QED BY <1>2, <2>1 DEF GrantNext, Procs
<1> QED BY <1>1, <1>2

(* A shut gate has nobody left to grant.                                    *)
LEMMA MarkedIsEmpty ==
    ASSUME GateInv, MarkShape, ceilingTask # None
    PROVE  waiters = <<>> /\ state # "open"
BY DEF GateInv, CloseShape, MarkShape

(* A task at the head of the line has no frame open, and waits or is        *)
(* withdrawing.                                                             *)
LEMMA QueueHead ==
    ASSUME GateInv, waiters # <<>>, Head(waiters) # Closer
    PROVE  /\ Head(waiters) \in Tasks /\ frames[Head(waiters)] = 0
           /\ pc[Head(waiters)] \in {"waiting", "cleanup"}
<1>1. Len(waiters) \in Nat \ {0} /\ Head(waiters) = waiters[1] /\ waiters[1] \in Procs
    BY DEF GateInv, TypeOK
<1>2. waiters[1] \in Tasks /\ pc[waiters[1]] \in {"waiting", "cleanup"}
    BY <1>1 DEF GateInv, QueueShape, Procs
<1> QED BY <1>1, <1>2, Standing

(* A step that hands the gate on from a holder who keeps no claim on it:    *)
(* nobody else's account changes, and the next holder's starts even.        *)
LEMMA HandOnKeeps ==
    ASSUME GateInv, CancelInv, NEW u \in Tasks, owner = u,
           NEW base, NEW mark, GrantNext(waiters, ready, base, mark),
           mark \in {ceilingTask, None}, mark # None => base = baseline,
           mark = None => frames[u] = 0 \/ ceilingTask # u,
           mark = None => \A v \in Tasks : frames[v] > 0 /\ pending[v] => "client" \in blame[v],
           UNCHANGED <<state, frames, exc, cancels, pending, blame>>,
           pc' \in [Procs -> TaskPcs \cup CloserPcs], pc'[u] \notin {"idle", "waiting"},
           \A v \in Tasks : v # u => pc'[v] = pc[v]
    PROVE  CancelInv'
<1> USE CloserAssumption DEF Procs
<1>1. waiters \in Seq(Procs) /\ (waiters # <<>> => mark = None)
    BY MarkedIsEmpty DEF GateInv, TypeOK, CancelInv
<1>2. /\ ceilingTask' = mark
      /\ grantedClose' => waiters # <<>>
      /\ \/ owner' = None /\ baseline' = base
         \/ waiters # <<>> /\ owner' = Head(waiters) /\ owner' \in Tasks /\ baseline' = cancels[owner']
    BY <1>1, GrantMarks
<1>3. owner' # None => /\ owner' \in Tasks /\ frames[owner'] = 0 /\ mark = None
                       /\ baseline' = cancels[owner']
    BY <1>1, <1>2, QueueHead
<1>4. MarkShape'
    BY <1>1, <1>2, <1>3 DEF CancelInv, MarkShape
<1>5. WaitsUncancelled'
    BY <1>2, <1>3 DEF CancelInv, WaitsUncancelled
<1>6. CountsCancels'
    <2>1. ASSUME NEW v \in Tasks, frames[v] > 0, owner' = v \/ ceilingTask' = v
          PROVE  ceilingTask' = v /\ ceilingTask = v /\ baseline' = baseline
        BY <1>2, <1>3, <2>1
    <2>2. \A v \in Tasks : UNCHANGED <<frames[v], cancels[v], blame[v]>>
        OBVIOUS
    <2>3. ASSUME NEW v \in Tasks, frames[v] > 0, ceilingTask = v, ceilingTask' = v
          PROVE  ClientsOwn(v)' = ClientsOwn(v)
        BY <2>3 DEF ClientsOwn
    <2> QED BY <2>1, <2>2, <2>3 DEF CancelInv, CountsCancels
<1>7. PendingIsKnown' /\ EndsAccount'
    BY <1>2 DEF CancelInv, PendingIsKnown, EndsAccount
<1> QED BY <1>4, <1>5, <1>6, <1>7 DEF CancelInv

(* A cancellation that arrives in a lease is told by the count.             *)
LEMMA OutcomeIsFair ==
    ASSUME GateInv, CancelInv, NEW t \in Tasks, frames[t] > 0, pending[t]
    PROVE  /\ CancelOutcome(t) = "cancelled" => "client" \in blame[t]
           /\ CancelOutcome(t) = "aborted" => "client" \notin blame[t]
           /\ CancelOutcome(t) \in {"cancelled", "aborted"}
<1>1. cancels[t] \in Nat
    BY DEF GateInv, TypeOK, Procs
<1>2. CASE ceilingTask = t
    BY <1>1, <1>2 DEF CancelInv, CountsCancels, ClientsOwn, CancelOutcome, Absorbed, NoBaseline
<1>3. CASE ceilingTask # t
    BY <1>3 DEF CancelInv, PendingIsKnown, CancelOutcome, Absorbed
<1> QED BY <1>2, <1>3

(* Taking the cancellation keeps the count.                                 *)
LEMMA TakeCounts ==
    ASSUME GateInv, CancelInv, NEW t \in Tasks, frames[t] > 0, TakeCancel(t)
    PROVE  /\ ceilingTask' = IF ceilingTask = t THEN None ELSE ceilingTask
           /\ pending'[t] = FALSE /\ cancels'[t] \in Nat
           /\ \A u \in Tasks : u # t => cancels'[u] = cancels[u] /\ pending'[u] = pending[u]
           /\ owner = t \/ ceilingTask = t => cancels'[t] = ClientsOwn(t)
<1>1. cancels \in [Procs -> Nat] /\ pending \in [Procs -> BOOLEAN] /\ t \in Procs
    BY DEF GateInv, TypeOK, Procs
<1>2. CASE ceilingTask = t
    <2>1. baseline \in Nat /\ baseline # NoBaseline /\ cancels[t] - 1 >= baseline
        BY <1>2 DEF CancelInv, CountsCancels, ClientsOwn, NoBaseline
    <2>2. cancels[t] > 0
        BY <1>1, <2>1
    <2> QED BY <1>1, <1>2, <2>1, <2>2 DEF TakeCancel, ClientsOwn, Procs
<1>3. CASE ceilingTask # t
    BY <1>1, <1>3 DEF TakeCancel, ClientsOwn, Procs
<1> QED BY <1>2, <1>3

(* A task's step keeps the account of who cancelled whom.                   *)
LEMMA StepCancels ==
    ASSUME GateInv, CancelInv, NEW t \in Tasks, Step(t)
    PROVE  CancelInv'
<1> USE CloserAssumption, Standing DEF CancelInv, ClientsOwn
<1>1. /\ t \in Procs /\ cancels \in [Procs -> Nat] /\ pending \in [Procs -> BOOLEAN]
      /\ blame \in [Procs -> SUBSET {"client", "ceiling"}] /\ exc \in [Procs -> Results]
      /\ pc \in [Procs -> TaskPcs \cup CloserPcs] /\ frames \in [Tasks -> Nat]
      /\ \A u \in Tasks : u \in Procs
    BY DEF GateInv, TypeOK, Procs
<1>2. CASE Acquire(t)
    <2>1. /\ pc[t] = "idle" /\ frames[t] = 0 /\ ~pending[t]
          /\ blame' = [blame EXCEPT ![t] = {}]
          /\ UNCHANGED <<state, frames, cancels, pending>>
        BY <1>2 DEF Acquire, PendingIsKnown
    <2>2. blame'[t] = {} /\ \A u \in Tasks : u # t => blame'[u] = blame[u]
        BY <1>1, <2>1
    <2>3. CASE state # "open"
        <3>1. exc' = [exc EXCEPT ![t] = state] /\ UNCHANGED gate /\ pc' = pc
            BY <1>2, <2>3 DEF Acquire
        <3>2. state \notin {"cancelled", "aborted"}
            BY DEF GateInv, TypeOK, States
        <3>3. exc'[t] = state /\ \A u \in Tasks : u # t => exc'[u] = exc[u]
            BY <1>1, <3>1
        <3> QED BY <2>1, <2>2, <3>1, <3>2, <3>3
                DEF gate, MarkShape, WaitsUncancelled, CountsCancels, PendingIsKnown, EndsAccount
    <2>4. CASE state = "open"
        <3>1. Enqueue(t) /\ pc' = [pc EXCEPT ![t] = "waiting"] /\ exc' = [exc EXCEPT ![t] = "ok"]
            BY <1>2, <2>4 DEF Acquire
        <3>2. /\ pc'[t] = "waiting" /\ exc'[t] = "ok"
              /\ \A u \in Tasks : u # t => pc'[u] = pc[u] /\ exc'[u] = exc[u]
            BY <1>1, <3>1
        <3>3. ceilingTask = None /\ ~grantedClose
            BY <2>4, OpenHasNoClose DEF MarkShape
        <3>4. ceilingTask' = None
              /\ \/ owner' = owner /\ baseline' = baseline
                 \/ owner = None /\ owner' = t /\ baseline' = cancels[t]
            <4>1. CASE Vacant
                <5>1. waiters = <<>> /\ owner = None
                    BY <4>1 DEF GateInv, NoLostWakeup, Vacant
                <5>2. GrantNext(Append(waiters, t), [ready EXCEPT ![t] = "pending"], baseline, None)
                    BY <4>1, <3>1, <3>3 DEF Enqueue
                <5>3. Append(waiters, t) \in Seq(Procs) /\ Append(waiters, t) # <<>>
                      /\ Head(Append(waiters, t)) = t
                    BY <1>1, <5>1
                <5>4. t # Closer
                    OBVIOUS
                <5> QED BY <5>1, <5>2, <5>3, <5>4 DEF GrantNext
            <4>2. CASE ~Vacant
                BY <3>1, <3>3, <4>2 DEF Enqueue
            <4> QED BY <4>1, <4>2
        <3>5. owner # t
            BY <2>1
        <3>6. WaitsUncancelled'
            BY <2>1, <2>2, <3>2, <3>4, <3>5 DEF WaitsUncancelled
        <3>7. CountsCancels'
            BY <2>1, <2>2, <3>4, <3>5, <3>3 DEF CountsCancels
        <3>8. PendingIsKnown' /\ EndsAccount' /\ MarkShape'
            BY <2>1, <2>2, <3>2, <3>3, <3>4 DEF PendingIsKnown, EndsAccount, MarkShape
        <3> QED BY <3>6, <3>7, <3>8
    <2> QED BY <2>3, <2>4
<1>3. CASE Resume(t)
    <2>1. /\ pc[t] = "waiting" /\ ~pending[t] /\ owner = t
          /\ pc' = [pc EXCEPT ![t] = "body"] /\ frames' = [frames EXCEPT ![t] = 1]
          /\ UNCHANGED <<state, owner, grantedClose, baseline, ceilingTask, exc, cancels, pending, blame>>
        BY <1>3 DEF Resume, GateInv, GrantedOwns, gate
    <2>2. baseline = cancels[t] /\ baseline \in Nat /\ ceilingTask # t /\ "client" \notin blame[t]
        BY <1>1, <2>1 DEF WaitsUncancelled
    <2>3. CountsCancels'
        BY <1>1, <2>1, <2>2 DEF CountsCancels
    <2> QED BY <1>1, <2>1, <2>3 DEF MarkShape, WaitsUncancelled, PendingIsKnown, EndsAccount
<1>4. CASE GiveUp(t) \/ QueueTimeout(t)
    <2>1. /\ pc[t] = "waiting" /\ pc' = [pc EXCEPT ![t] = "cleanup"] /\ frames[t] = 0
          /\ \E e \in {"withdrawn", "closed", "broken", "busy"} : exc' = [exc EXCEPT ![t] = e]
          /\ pending' = [pending EXCEPT ![t] = FALSE] \/ pending' = pending
          /\ UNCHANGED <<state, owner, grantedClose, baseline, ceilingTask, frames, cancels, blame>>
        BY <1>4 DEF GiveUp, QueueTimeout, gate
    <2>2. /\ exc'[t] \notin {"cancelled", "aborted"} /\ pc'[t] = "cleanup"
          /\ \A u \in Tasks : u # t => exc'[u] = exc[u] /\ pc'[u] = pc[u] /\ pending'[u] = pending[u]
        BY <1>1, <2>1
    <2> QED BY <1>1, <2>1, <2>2 DEF MarkShape, WaitsUncancelled, CountsCancels, PendingIsKnown, EndsAccount
<1>5. CASE Cleanup(t)
    <2>1. /\ pc[t] = "cleanup" /\ pc' = [pc EXCEPT ![t] = "leaving"] /\ frames[t] = 0
          /\ UNCHANGED <<state, frames, exc, cancels, pending, blame>>
        BY <1>5 DEF Cleanup
    <2>2. pc'[t] = "leaving" /\ \A u \in Tasks : u # t => pc'[u] = pc[u]
        BY <1>1, <2>1
    <2>3. CASE owner = t /\ GrantNext(waiters, ready, NoBaseline, None)
        <3>1. \A v \in Tasks : frames[v] > 0 /\ pending[v] => "client" \in blame[v]
            BY <2>1, <2>3 DEF PendingIsKnown, MarkShape
        <3>2. pc' \in [Procs -> TaskPcs \cup CloserPcs]
            BY <1>1, <2>1 DEF TaskPcs
        <3> QED BY <2>1, <2>2, <2>3, <3>1, <3>2, HandOnKeeps
    <2>4. CASE UNCHANGED <<owner, grantedClose, baseline, ceilingTask>>
        BY <2>1, <2>2, <2>4 DEF MarkShape, WaitsUncancelled, CountsCancels, PendingIsKnown, EndsAccount
    <2> QED BY <1>5, <2>3, <2>4 DEF Cleanup
<1>6. CASE Leave(t)
    <2>1. /\ pc[t] = "leaving" /\ pc' = [pc EXCEPT ![t] = "idle"] /\ frames[t] = 0
          /\ exc' = IF pending[t] THEN [exc EXCEPT ![t] = "withdrawn"] ELSE exc
          /\ pending' = [pending EXCEPT ![t] = FALSE]
          /\ UNCHANGED <<state, owner, grantedClose, baseline, ceilingTask, frames, cancels, blame>>
        BY <1>6 DEF Leave, gate
    <2>2. /\ pc'[t] = "idle" /\ pending'[t] = FALSE
          /\ IF pending[t] THEN exc'[t] = "withdrawn" ELSE exc'[t] = exc[t]
          /\ \A u \in Tasks : u # t => exc'[u] = exc[u] /\ pc'[u] = pc[u] /\ pending'[u] = pending[u]
        BY <1>1, <2>1
    <2> QED BY <2>1, <2>2 DEF MarkShape, WaitsUncancelled, CountsCancels, PendingIsKnown, EndsAccount
<1>7. CASE Reenter(t)
    <2>1. /\ owner = t /\ pc[t] = "body" /\ frames[t] > 0 /\ frames' = [frames EXCEPT ![t] = @ + 1]
          /\ UNCHANGED <<state, owner, grantedClose, baseline, ceilingTask, pc, exc, cancels, pending, blame>>
        BY <1>7 DEF Reenter
    <2>2. \A u \in Tasks : frames'[u] > 0 => frames[u] > 0
        BY <1>1, <2>1
    <2> QED BY <2>1, <2>2 DEF MarkShape, WaitsUncancelled, CountsCancels, PendingIsKnown, EndsAccount
<1>8. CASE BodyExit(t)
    <2>1. /\ pc[t] = "body" /\ ~pending[t] /\ pc' = [pc EXCEPT ![t] = "releasing"]
          /\ \E how \in {"ok", "error"} : exc' = [exc EXCEPT ![t] = how]
          /\ UNCHANGED <<state, owner, grantedClose, baseline, ceilingTask, frames, cancels, pending, blame>>
        BY <1>8 DEF BodyExit, gate
    <2>2. /\ exc'[t] \notin {"cancelled", "aborted"} /\ pc'[t] = "releasing"
          /\ \A u \in Tasks : u # t => exc'[u] = exc[u] /\ pc'[u] = pc[u]
        BY <1>1, <2>1
    <2> QED BY <2>1, <2>2 DEF MarkShape, WaitsUncancelled, CountsCancels, PendingIsKnown, EndsAccount
<1>9. CASE BodyCancelled(t)
    <2>1. /\ pc[t] = "body" /\ pending[t] /\ TakeCancel(t) /\ owner = t /\ frames[t] > 0
          /\ exc' = [exc EXCEPT ![t] = CancelOutcome(t)] /\ pc' = [pc EXCEPT ![t] = "releasing"]
          /\ UNCHANGED <<state, owner, grantedClose, baseline, frames, blame>>
        BY <1>9 DEF BodyCancelled
    <2>2. /\ exc'[t] = CancelOutcome(t) /\ pc'[t] = "releasing"
          /\ \A u \in Tasks : u # t => exc'[u] = exc[u] /\ pc'[u] = pc[u]
        BY <1>1, <2>1
    <2>3. /\ CancelOutcome(t) = "cancelled" => "client" \in blame[t]
          /\ CancelOutcome(t) = "aborted" => "client" \notin blame[t]
        BY <2>1, OutcomeIsFair
    <2>4. /\ ceilingTask' = IF ceilingTask = t THEN None ELSE ceilingTask
          /\ pending'[t] = FALSE /\ cancels'[t] = ClientsOwn(t)
          /\ \A u \in Tasks : u # t => cancels'[u] = cancels[u] /\ pending'[u] = pending[u]
        BY <2>1, TakeCounts
    <2>5. CountsCancels'
        BY <1>1, <2>1, <2>4 DEF CountsCancels
    <2>6. WaitsUncancelled'
        BY <1>1, <2>1, <2>2, <2>4 DEF WaitsUncancelled
    <2> QED BY <1>1, <2>1, <2>2, <2>3, <2>4, <2>5, <2>6 DEF MarkShape, PendingIsKnown, EndsAccount
<1>10. CASE Release(t)
    <2>1. /\ pc[t] = "releasing" /\ owner = t /\ frames[t] > 0 /\ pc' = [pc EXCEPT ![t] = "unwinding"]
          /\ UNCHANGED <<state, frames, exc, cancels, pending, blame>>
        BY <1>10 DEF Release
    <2>2. pc'[t] = "unwinding" /\ \A u \in Tasks : u # t => pc'[u] = pc[u]
        BY <1>1, <2>1
    <2>3. CASE GrantNext(waiters, ready, baseline, ceilingTask)
        <3>1. pc' \in [Procs -> TaskPcs \cup CloserPcs]
            BY <1>1, <2>1 DEF TaskPcs
        <3>2. ceilingTask = None =>
                 \A v \in Tasks : frames[v] > 0 /\ pending[v] => "client" \in blame[v]
            BY DEF PendingIsKnown
        <3> QED BY <2>1, <2>2, <2>3, <3>1, <3>2, HandOnKeeps
    <2>4. CASE UNCHANGED <<owner, grantedClose, baseline, ceilingTask>>
        BY <2>1, <2>2, <2>4 DEF MarkShape, WaitsUncancelled, CountsCancels, PendingIsKnown, EndsAccount
    <2> QED BY <1>10, <2>3, <2>4 DEF Release
<1>11. CASE Unwind(t)
    <2>1. /\ pc[t] = "unwinding" /\ frames[t] > 0
          /\ UNCHANGED <<state, owner, grantedClose, baseline, blame>>
        BY <1>11 DEF Unwind
    <2>2. ASSUME NEW e, FrameEnds(t, e)
          PROVE  /\ frames'[t] = frames[t] - 1 /\ \A u \in Tasks : u # t => frames'[u] = frames[u]
                 /\ pc'[t] \in {"idle", "body", "releasing"}
                 /\ \A u \in Tasks : u # t => pc'[u] = pc[u] /\ exc'[u] = exc[u]
                 /\ exc'[t] \in {e, "ok"}
        BY <1>1, <2>2 DEF FrameEnds
    <2>3. CASE pending[t] /\ TakeCancel(t) /\ FrameEnds(t, CancelOutcome(t))
        <3>1. /\ CancelOutcome(t) = "cancelled" => "client" \in blame[t]
              /\ CancelOutcome(t) = "aborted" => "client" \notin blame[t]
            BY <2>1, <2>3, OutcomeIsFair
        <3>2. /\ ceilingTask' = IF ceilingTask = t THEN None ELSE ceilingTask
              /\ pending'[t] = FALSE
              /\ owner = t => cancels'[t] = ClientsOwn(t)
              /\ \A u \in Tasks : u # t => cancels'[u] = cancels[u] /\ pending'[u] = pending[u]
            BY <2>1, <2>3, TakeCounts
        <3>3. CountsCancels'
            BY <1>1, <2>1, <2>2, <2>3, <3>2 DEF CountsCancels
        <3>4. WaitsUncancelled'
            BY <1>1, <2>1, <2>2, <2>3, <3>2 DEF WaitsUncancelled
        <3>5. PendingIsKnown' /\ EndsAccount' /\ MarkShape'
            BY <1>1, <2>1, <2>2, <2>3, <3>1, <3>2 DEF MarkShape, PendingIsKnown, EndsAccount
        <3> QED BY <3>3, <3>4, <3>5
    <2>4. CASE ~pending[t] /\ FrameEnds(t, exc[t]) /\ UNCHANGED <<pending, ceilingTask, cancels>>
        <3>1. CountsCancels' /\ WaitsUncancelled'
            BY <1>1, <2>1, <2>2, <2>4 DEF CountsCancels, WaitsUncancelled
        <3>2. PendingIsKnown' /\ EndsAccount' /\ MarkShape'
            BY <1>1, <2>1, <2>2, <2>4 DEF MarkShape, PendingIsKnown, EndsAccount
        <3> QED BY <3>1, <3>2
    <2> QED BY <1>11, <2>3, <2>4 DEF Unwind
<1>12. CASE NewTask(t)
    <2>1. /\ pc[t] = "idle" /\ frames[t] = 0 /\ cancels' = [cancels EXCEPT ![t] = 0]
          /\ UNCHANGED <<state, owner, grantedClose, baseline, ceilingTask, pc, frames, exc, pending, blame>>
        BY <1>12 DEF NewTask, gate
    <2> QED BY <1>1, <2>1 DEF MarkShape, WaitsUncancelled, CountsCancels, PendingIsKnown, EndsAccount
<1>13. CASE Cancel(t)
    <2>1. /\ pc[t] # "idle" /\ cancels' = [cancels EXCEPT ![t] = @ + 1]
          /\ pending' = [pending EXCEPT ![t] = TRUE]
          /\ blame' = [blame EXCEPT ![t] = @ \cup {"client"}]
          /\ UNCHANGED <<state, owner, grantedClose, baseline, ceilingTask, pc, frames, exc>>
        BY <1>13 DEF Cancel, gate
    <2>2. /\ cancels'[t] = cancels[t] + 1 /\ pending'[t] = TRUE /\ "client" \in blame'[t]
          /\ \A u \in Tasks : u # t => /\ cancels'[u] = cancels[u] /\ pending'[u] = pending[u]
                                       /\ blame'[u] = blame[u]
        BY <1>1, <2>1
    <2>3. CountsCancels'
        BY <1>1, <2>1, <2>2 DEF CountsCancels
    <2> QED BY <2>1, <2>2, <2>3 DEF MarkShape, WaitsUncancelled, PendingIsKnown, EndsAccount
<1> QED BY <1>2, <1>3, <1>4, <1>5, <1>6, <1>7, <1>8, <1>9, <1>10, <1>11, <1>12, <1>13 DEF Step

(* The coordinator's step keeps that account too.                           *)
LEMMA CloseStepCancels ==
    ASSUME GateInv, CancelInv, CloseStep
    PROVE  CancelInv'
<1> USE CloserAssumption, Standing DEF CancelInv, ClientsOwn
<1>1. /\ Closer \notin Tasks /\ pc \in [Procs -> TaskPcs \cup CloserPcs]
      /\ exc \in [Procs -> Results] /\ pending \in [Procs -> BOOLEAN]
      /\ \A u \in Tasks : u \in Procs
    BY DEF GateInv, TypeOK, Procs
<1>2. ASSUME UNCHANGED <<state, owner, grantedClose, baseline, ceilingTask, frames, cancels, blame>>,
             \A u \in Tasks : UNCHANGED <<pc[u], exc[u], pending[u]>>
      PROVE  CancelInv'
    BY <1>2 DEF MarkShape, WaitsUncancelled, CountsCancels, PendingIsKnown, EndsAccount
<1>3. CASE ReserveClose
    <2>1. /\ UNCHANGED <<frames, exc, cancels, pending, blame>>
          /\ \A u \in Tasks : pc'[u] = pc[u]
        BY <1>1, <1>3 DEF ReserveClose
    <2>2. CASE state = "broken"
        BY <1>2, <1>3, <2>1, <2>2 DEF ReserveClose, gate
    <2>3. CASE state = "open"
        <3>1. Enqueue(Closer) /\ ceilingTask = None /\ ~grantedClose
            BY <1>3, <2>3, OpenHasNoClose DEF ReserveClose, MarkShape
        <3>2. ceilingTask' = None /\ UNCHANGED <<owner, baseline>>
            <4>1. CASE Vacant
                <5>1. waiters = <<>> /\ owner = None
                    BY <4>1 DEF GateInv, NoLostWakeup, Vacant
                <5>2. GrantNext(Append(waiters, Closer), [ready EXCEPT ![Closer] = "pending"], baseline, None)
                    BY <4>1, <3>1 DEF Enqueue
                <5>3. Append(waiters, Closer) # <<>> /\ Head(Append(waiters, Closer)) = Closer
                    BY <5>1
                <5> QED BY <5>1, <5>2, <5>3 DEF GrantNext
            <4>2. CASE ~Vacant
                BY <3>1, <4>2 DEF Enqueue
            <4> QED BY <4>1, <4>2
        <3> QED BY <2>1, <3>1, <3>2
                DEF MarkShape, WaitsUncancelled, CountsCancels, PendingIsKnown, EndsAccount
    <2> QED BY <1>3, <2>2, <2>3 DEF ReserveClose
<1>4. CASE AcceptExternalClose
    <2>1. /\ state' = "closed"
          /\ UNCHANGED <<owner, grantedClose, baseline, ceilingTask, frames, exc, cancels, pending, blame>>
          /\ \A u \in Tasks : pc'[u] = pc[u]
        BY <1>1, <1>4 DEF AcceptExternalClose
    <2> QED BY <2>1 DEF MarkShape, WaitsUncancelled, CountsCancels, PendingIsKnown, EndsAccount
<1>5. CASE StartClose \/ CloseBodyExit \/ UnwindClose \/ TeardownEnds
    BY <1>1, <1>2, <1>5 DEF StartClose, CloseBodyExit, UnwindClose, TeardownEnds, gate
<1>6. CASE BindClose
    <2>1. /\ grantedClose /\ owner = None /\ ceilingTask = None
          /\ owner' = Closer /\ grantedClose' = FALSE
          /\ UNCHANGED <<state, ceilingTask, frames, exc, cancels, pending, blame>>
          /\ \A u \in Tasks : pc'[u] = pc[u]
        BY <1>1, <1>6 DEF BindClose, GateInv, CloseShape, MarkShape
    <2> QED BY <1>1, <2>1 DEF MarkShape, WaitsUncancelled, CountsCancels, PendingIsKnown, EndsAccount
<1>7. CASE CloseRefused
    <2>1. /\ grantedClose' = FALSE \/ grantedClose' = grantedClose
          /\ UNCHANGED <<state, owner, baseline, ceilingTask, frames, cancels, pending, blame>>
          /\ \A u \in Tasks : UNCHANGED <<pc[u], exc[u]>>
        BY <1>1, <1>7 DEF CloseRefused
    <2> QED BY <2>1 DEF MarkShape, WaitsUncancelled, CountsCancels, PendingIsKnown, EndsAccount
<1>8. CASE ReleaseClose
    <2>1. /\ owner = Closer /\ owner' = None /\ ceilingTask' = None
          /\ UNCHANGED <<grantedClose, frames, exc, cancels, pending, blame>>
          /\ \A u \in Tasks : pc'[u] = pc[u]
        BY <1>1, <1>8 DEF ReleaseClose
    <2>2. \A u \in Tasks : ceilingTask # u
        BY <1>1, <2>1 DEF MarkShape
    <2> QED BY <1>1, <2>1, <2>2 DEF MarkShape, WaitsUncancelled, CountsCancels, PendingIsKnown, EndsAccount
<1>9. CASE ResolveClose
    <2>1. /\ state' = "closed"
          /\ UNCHANGED <<owner, grantedClose, baseline, ceilingTask, frames, exc, cancels, pending, blame>>
          /\ \A u \in Tasks : pc'[u] = pc[u]
        BY <1>1, <1>9 DEF ResolveClose
    <2> QED BY <2>1 DEF MarkShape, WaitsUncancelled, CountsCancels, PendingIsKnown, EndsAccount
<1> QED BY <1>3, <1>4, <1>5, <1>6, <1>7, <1>8, <1>9 DEF CloseStep

(* The ceiling counts and marks the cancellation it makes.                  *)
LEMMA CeilingCancels ==
    ASSUME GateInv, CancelInv, Ceiling
    PROVE  CancelInv'
<1> USE CloserAssumption, Standing DEF CancelInv, ClientsOwn
<1>1. /\ cancels \in [Procs -> Nat] /\ pending \in [Procs -> BOOLEAN]
      /\ blame \in [Procs -> SUBSET {"client", "ceiling"}] /\ owner \in Procs
      /\ \A u \in Tasks : u \in Procs
    BY DEF GateInv, TypeOK, Procs, Ceiling, BreakIn
<1>2. /\ ceilingTask' = owner /\ state' = "broken"
      /\ UNCHANGED <<owner, grantedClose, baseline, pc, frames, exc>>
      /\ ~grantedClose /\ ceilingTask = None
    BY DEF Ceiling, BreakIn, GateInv, CloseShape, MarkShape
<1>3. /\ cancels'[owner] = cancels[owner] + 1 /\ pending'[owner] = TRUE
      /\ \A u \in Tasks : "client" \in blame'[u] <=> "client" \in blame[u]
      /\ \A u \in Tasks : u # owner => cancels'[u] = cancels[u] /\ pending'[u] = pending[u]
    BY <1>1 DEF Ceiling, BreakIn
<1>4. CountsCancels'
    BY <1>1, <1>2, <1>3 DEF CountsCancels
<1>5. WaitsUncancelled' /\ MarkShape'
    BY <1>1, <1>2, <1>3 DEF WaitsUncancelled, MarkShape
<1>6. PendingIsKnown' /\ EndsAccount'
    BY <1>1, <1>2, <1>3 DEF PendingIsKnown, EndsAccount
<1> QED BY <1>4, <1>5, <1>6

(* Every cancelled call ends the way its canceller requires: what           *)
(* _absorb_ceiling_cancel turns into an abort was the ceiling's alone, and   *)
(* what it lets through was the client's.                                   *)
THEOREM CancelsAreAccounted == Spec => []CancelsAccounted
<1>1. Init => CancelInv
    <2>1. ASSUME Init PROVE MarkShape /\ WaitsUncancelled /\ CountsCancels
        BY <2>1, CloserAssumption, Zenon
           DEF Init, MarkShape, WaitsUncancelled, CountsCancels, Procs
    <2>2. ASSUME Init PROVE PendingIsKnown /\ EndsAccount
        BY <2>2, CloserAssumption, Zenon DEF Init, PendingIsKnown, EndsAccount, Procs
    <2>3. QED BY <2>1, <2>2 DEF CancelInv
<1>2. GateInv /\ CancelInv /\ [Next]_vars => CancelInv'
    <2> SUFFICES ASSUME GateInv, CancelInv, [Next]_vars PROVE CancelInv'
        OBVIOUS
    <2>1. CASE Tick
        BY <2>1 DEF Tick, close, task, CancelInv, ClientsOwn, MarkShape, WaitsUncancelled,
                    CountsCancels, PendingIsKnown, EndsAccount
    <2>2. CASE UNCHANGED vars
        BY <2>2 DEF vars, CancelInv, ClientsOwn, MarkShape, WaitsUncancelled, CountsCancels,
                    PendingIsKnown, EndsAccount
    <2> QED BY <2>1, <2>2, StepCancels, CloseStepCancels, CeilingCancels DEF Next
<1>3. GateInv /\ CancelInv => CancelsAccounted
    BY DEF CancelInv, PendingIsKnown, EndsAccount, CancelsAccounted, GenuineCancelSurvives,
           CeilingNeverBare
<1> QED BY <1>1, <1>2, <1>3, GateInvariant, PTL DEF Spec

(* A session's end is final: nothing reopens its gate, a closed gate stays  *)
(* closed, only the ceiling breaks one, and the outcome that the close's    *)
(* waiters share is resolved once.                                          *)
THEOREM TheCloseIsFinal == Spec => CloseIsFinal
<1> DEFINE Final == /\ state # "open" => state' # "open"
                    /\ state = "closed" => state' = "closed"
                    /\ state' = "broken" /\ state # "broken" => overdue /\ owner # None
                    /\ outcome # "pending" => outcome' = outcome
<1>1. [Next]_vars => Final
    <2> SUFFICES ASSUME [Next]_vars PROVE Final
        OBVIOUS
    <2>1. ASSUME NEW t \in Tasks, Step(t) PROVE Final
        BY <2>1 DEF Step, Acquire, Resume, GiveUp, QueueTimeout, Cleanup, Leave, Reenter, BodyExit,
                    BodyCancelled, Release, Unwind, NewTask, Cancel, gate, close
    <2>2. CASE CloseStep
        BY <2>2 DEF CloseStep, ReserveClose, AcceptExternalClose, StartClose, BindClose,
                    CloseRefused, CloseBodyExit, ReleaseClose, UnwindClose, TeardownEnds,
                    ResolveClose, gate, close
    <2>3. CASE Tick \/ Ceiling \/ UNCHANGED vars
        BY <2>3 DEF Tick, Ceiling, BreakIn, close, vars
    <2> QED BY <2>1, <2>2, <2>3 DEF Next
<1>2. [Next]_vars => ([/\ state # "open" => state' # "open"
                       /\ state = "closed" => state' = "closed"
                       /\ state' = "broken" /\ state # "broken" => overdue /\ owner # None]_vars)
    BY <1>1
<1>3. [Next]_vars => ([outcome # "pending" => outcome' = outcome]_vars)
    BY <1>1
<1> QED BY <1>2, <1>3, PTL DEF Spec, CloseIsFinal, CutoffIsFinal, OutcomeIsFinal

-----------------------------------------------------------------------------
(* The gate is a line: it implements LeaseLine.                             *)
LEMMA Ahead ==
    ASSUME NEW S, NEW x \in S, NEW w \in Seq(S)
    PROVE  /\ <<x>> \o w \in Seq(S) /\ Len(<<x>> \o w) = Len(w) + 1
           /\ (<<x>> \o w)[1] = x /\ Head(<<x>> \o w) = x
           /\ \A i \in 1..Len(w) : (<<x>> \o w)[i + 1] = w[i]
           /\ <<>> \o w = w /\ w \o <<>> = w
<1>1. <<x>> \in Seq(S) /\ Len(<<x>>) = 1 /\ <<x>>[1] = x
    OBVIOUS
<1>2. /\ <<x>> \o w \in Seq(S) /\ Len(<<x>> \o w) = Len(w) + 1
      /\ (<<x>> \o w)[1] = x
      /\ \A i \in 1..Len(w) : (<<x>> \o w)[i + 1] = w[i]
    BY <1>1
<1>3. <<>> \o w = w /\ w \o <<>> = w
    BY ConcatEmptySeq
<1> QED BY <1>2, <1>3

(* Taking the head of a line gives back the line it was put ahead of.       *)
LEMMA TailAhead ==
    ASSUME NEW S, NEW x \in S, NEW w \in Seq(S)
    PROVE  Tail(<<x>> \o w) = w
<1> DEFINE l == <<x>> \o w
<1>1. l \in Seq(S) /\ Len(l) = Len(w) + 1 /\ \A i \in 1..Len(w) : l[i + 1] = w[i]
    BY Ahead
<1> HIDE DEF l
<1>2. Tail(l) \in Seq(S) /\ Len(Tail(l)) = Len(w) /\ \A i \in 1..Len(w) : Tail(l)[i] = w[i]
    BY <1>1
<1> QED BY <1>2, SeqEqual DEF l

(* A line is its head ahead of its tail.                                    *)
LEMMA HeadAhead ==
    ASSUME NEW S, NEW w \in Seq(S), w # <<>>
    PROVE  <<Head(w)>> \o Tail(w) = w
<1> DEFINE l == <<Head(w)>> \o Tail(w)
<1>1. Head(w) \in S /\ Tail(w) \in Seq(S) /\ Len(Tail(w)) = Len(w) - 1 /\ Head(w) = w[1]
      /\ \A i \in 1..(Len(w) - 1) : Tail(w)[i] = w[i + 1]
    OBVIOUS
<1>2. l \in Seq(S) /\ Len(l) = Len(w) /\ l[1] = w[1] /\ \A i \in 1..(Len(w) - 1) : l[i + 1] = w[i + 1]
    BY <1>1, Ahead
<1> HIDE DEF l
<1>3. ASSUME NEW i \in 1..Len(l) PROVE l[i] = w[i]
    <2>1. CASE i = 1
        BY <1>2, <2>1
    <2>2. CASE i # 1
        <3>1. i - 1 \in 1..(Len(w) - 1) /\ i = (i - 1) + 1
            BY <1>2, <2>2
        <3> QED BY <1>2, <3>1
    <2> QED BY <2>1, <2>2
<1> QED BY <1>2, <1>3, SeqEqual DEF l

(* Joining at the end commutes with putting one ahead.                      *)
LEMMA AppendAhead ==
    ASSUME NEW S, NEW x \in S, NEW w \in Seq(S), NEW y \in S
    PROVE  <<x>> \o Append(w, y) = Append(<<x>> \o w, y)
<1> DEFINE l == <<x>> \o w
           m == <<x>> \o Append(w, y)
<1>1. /\ Append(w, y) \in Seq(S) /\ Len(Append(w, y)) = Len(w) + 1
      /\ \A i \in 1..Len(w) : Append(w, y)[i] = w[i]
      /\ Append(w, y)[Len(w) + 1] = y
    OBVIOUS
<1>2. l \in Seq(S) /\ Len(l) = Len(w) + 1 /\ l[1] = x /\ \A i \in 1..Len(w) : l[i + 1] = w[i]
    BY Ahead
<1>3. m \in Seq(S) /\ Len(m) = Len(w) + 2 /\ m[1] = x
      /\ \A i \in 1..(Len(w) + 1) : m[i + 1] = Append(w, y)[i]
    BY <1>1, Ahead
<1> HIDE DEF l, m
<1>4. Append(l, y) \in Seq(S) /\ Len(Append(l, y)) = Len(w) + 2
      /\ Append(l, y)[Len(w) + 2] = y /\ \A i \in 1..(Len(w) + 1) : Append(l, y)[i] = l[i]
    BY <1>2
<1>5. ASSUME NEW i \in 1..Len(m) PROVE m[i] = Append(l, y)[i]
    <2>1. CASE i = 1
        BY <1>2, <1>3, <1>4, <2>1
    <2>2. CASE i = Len(w) + 2
        <3>1. Len(w) + 1 \in 1..(Len(w) + 1) /\ i = (Len(w) + 1) + 1
            BY <2>2
        <3> QED BY <1>1, <1>3, <1>4, <2>2, <3>1
    <2>3. CASE i # 1 /\ i # Len(w) + 2
        <3>1. i - 1 \in 1..Len(w) /\ i - 1 \in 1..(Len(w) + 1) /\ i = (i - 1) + 1 /\ i \in 1..(Len(w) + 1)
            BY <1>3, <2>3
        <3>2. m[i] = Append(w, y)[i - 1]
            BY <1>3, <3>1
        <3>3. Append(w, y)[i - 1] = w[i - 1]
            BY <1>1, <3>1
        <3>4. l[i] = w[i - 1]
            BY <1>2, <3>1
        <3>5. Append(l, y)[i] = l[i]
            BY <1>4, <3>1
        <3> QED BY <3>2, <3>3, <3>4, <3>5
    <2> QED BY <2>1, <2>2, <2>3
<1> QED BY <1>3, <1>4, <1>5, SeqEqual DEF l, m

(* A line without its i-th caller.                                          *)
Dropping(w, i) == SubSeq(w, 1, i - 1) \o SubSeq(w, i + 1, Len(w))

(* What is left of a line when its i-th member withdraws.                   *)
LEMMA DroppingFacts ==
    ASSUME NEW S, NEW w \in Seq(S), NEW i \in 1..Len(w)
    PROVE  /\ Dropping(w, i) \in Seq(S) /\ Len(Dropping(w, i)) = Len(w) - 1
           /\ \A j \in 1..(i - 1) : Dropping(w, i)[j] = w[j]
           /\ \A j \in i..(Len(w) - 1) : Dropping(w, i)[j] = w[j + 1]
<1> DEFINE front == SubSeq(w, 1, i - 1)
           back == SubSeq(w, i + 1, Len(w))
<1>1. /\ front \in Seq(S) /\ Len(front) = i - 1 /\ \A j \in 1..(i - 1) : front[j] = w[j]
    OBVIOUS
<1>2. /\ back \in Seq(S) /\ Len(back) = Len(w) - i
      /\ \A j \in 1..(Len(w) - i) : back[j] = w[i + j]
    OBVIOUS
<1> HIDE DEF front, back
<1>3. /\ front \o back \in Seq(S) /\ Len(front \o back) = Len(w) - 1
      /\ \A j \in 1..(i - 1) : (front \o back)[j] = front[j]
      /\ \A j \in i..(Len(w) - 1) : (front \o back)[j] = back[j - (i - 1)]
    <2>1. Len(front) + Len(back) = Len(w) - 1
        BY <1>1, <1>2
    <2>2. /\ front \o back \in Seq(S) /\ Len(front \o back) = Len(w) - 1
          /\ \A j \in 1..(Len(w) - 1) :
               (front \o back)[j] = IF j <= Len(front) THEN front[j] ELSE back[j - Len(front)]
        <3>1. /\ front \o back \in Seq(S) /\ Len(front \o back) = Len(front) + Len(back)
              /\ \A j \in 1..Len(front) + Len(back) :
                   (front \o back)[j] = IF j <= Len(front) THEN front[j] ELSE back[j - Len(front)]
            <4>1. front \in Seq(S) /\ back \in Seq(S)
                BY <1>1, <1>2
            <4> QED BY <4>1, ConcatProperties
        <3> QED BY <2>1, <3>1
    <2>3. ASSUME NEW j \in 1..(i - 1) PROVE (front \o back)[j] = front[j]
        BY <1>1, <2>2
    <2>4. ASSUME NEW j \in i..(Len(w) - 1) PROVE (front \o back)[j] = back[j - (i - 1)]
        <3>1. j \in 1..(Len(w) - 1) /\ ~(j <= Len(front)) /\ Len(front) = i - 1
            BY <1>1
        <3> QED BY <2>2, <3>1
    <2> QED BY <2>2, <2>3, <2>4
<1>4. ASSUME NEW j \in i..(Len(w) - 1) PROVE back[j - (i - 1)] = w[j + 1]
    <2>1. j - (i - 1) \in 1..(Len(w) - i) /\ i + (j - (i - 1)) = j + 1
        OBVIOUS
    <2> QED BY <1>2, <2>1
<1> QED BY <1>1, <1>3, <1>4 DEF Dropping, front, back

(* A withdrawal behind the head is the same withdrawal, one place earlier.  *)
LEMMA DroppingAhead ==
    ASSUME NEW S, NEW x \in S, NEW w \in Seq(S), NEW i \in 1..Len(w)
    PROVE  Dropping(<<x>> \o w, i + 1) = <<x>> \o Dropping(w, i)
<1> DEFINE l == <<x>> \o w
           m == <<x>> \o Dropping(w, i)
<1>1. l \in Seq(S) /\ Len(l) = Len(w) + 1 /\ l[1] = x /\ \A j \in 1..Len(w) : l[j + 1] = w[j]
    BY Ahead
<1>2. /\ Dropping(w, i) \in Seq(S) /\ Len(Dropping(w, i)) = Len(w) - 1
      /\ \A j \in 1..(i - 1) : Dropping(w, i)[j] = w[j]
      /\ \A j \in i..(Len(w) - 1) : Dropping(w, i)[j] = w[j + 1]
    BY DroppingFacts
<1>3. /\ m \in Seq(S) /\ Len(m) = Len(w) /\ m[1] = x
      /\ \A j \in 1..(Len(w) - 1) : m[j + 1] = Dropping(w, i)[j]
    BY <1>2, Ahead
<1> HIDE DEF l, m
<1>4. /\ Dropping(l, i + 1) \in Seq(S) /\ Len(Dropping(l, i + 1)) = Len(w)
      /\ \A j \in 1..i : Dropping(l, i + 1)[j] = l[j]
      /\ \A j \in (i + 1)..Len(w) : Dropping(l, i + 1)[j] = l[j + 1]
    <2>1. i + 1 \in 1..Len(l)
        BY <1>1
    <2>2. /\ Dropping(l, i + 1) \in Seq(S) /\ Len(Dropping(l, i + 1)) = Len(l) - 1
          /\ \A j \in 1..((i + 1) - 1) : Dropping(l, i + 1)[j] = l[j]
          /\ \A j \in (i + 1)..(Len(l) - 1) : Dropping(l, i + 1)[j] = l[j + 1]
        BY <1>1, <2>1, DroppingFacts
    <2>3. (i + 1) - 1 = i /\ Len(l) - 1 = Len(w)
        BY <1>1
    <2> QED BY <2>2, <2>3
<1>5. ASSUME NEW j \in 1..Len(m) PROVE m[j] = Dropping(l, i + 1)[j]
    <2>1. CASE j = 1
        BY <1>1, <1>3, <1>4, <2>1
    <2>2. CASE j # 1 /\ j <= i
        <3>1. j - 1 \in 1..(i - 1) /\ j - 1 \in 1..(Len(w) - 1) /\ j \in 1..i /\ j = (j - 1) + 1
              /\ j - 1 \in 1..Len(w)
            BY <1>3, <2>2
        <3>2. m[j] = w[j - 1] /\ Dropping(l, i + 1)[j] = w[j - 1]
            BY <1>1, <1>2, <1>3, <1>4, <3>1
        <3> QED BY <3>2
    <2>3. CASE j > i
        <3>1. j - 1 \in i..(Len(w) - 1) /\ j - 1 \in 1..(Len(w) - 1) /\ j \in (i + 1)..Len(w)
              /\ j = (j - 1) + 1 /\ j \in 1..Len(w)
            BY <1>3, <2>3
        <3>2. m[j] = w[j] /\ Dropping(l, i + 1)[j] = w[j]
            BY SMTT(20), <1>1, <1>2, <1>3, <1>4, <3>1
        <3> QED BY <3>2
    <2> QED BY <2>1, <2>2, <2>3
<1> QED BY <1>3, <1>4, <1>5, SeqEqual DEF l, m

(* The withdrawal of the head is the tail.                                  *)
LEMMA DroppingHead ==
    ASSUME NEW S, NEW w \in Seq(S), w # <<>>
    PROVE  Dropping(w, 1) = Tail(w)
<1>1. 1 \in 1..Len(w) /\ Tail(w) \in Seq(S) /\ Len(Tail(w)) = Len(w) - 1
      /\ \A j \in 1..(Len(w) - 1) : Tail(w)[j] = w[j + 1]
    OBVIOUS
<1>2. Dropping(w, 1) \in Seq(S) /\ Len(Dropping(w, 1)) = Len(w) - 1
      /\ \A j \in 1..(Len(w) - 1) : Dropping(w, 1)[j] = w[j + 1]
    BY <1>1, DroppingFacts
<1> QED BY <1>1, <1>2, SeqEqual

-----------------------------------------------------------------------------
LineNow == Serving \o waiters

(* The line is the queue, behind whoever is served.                         *)
LEMMA LineParts ==
    ASSUME GateInv
    PROVE  /\ waiters \in Seq(Procs) /\ LineNow \in Seq(Procs)
           /\ Vacant => LineNow = waiters /\ waiters = <<>>
           /\ owner # None => owner \in Procs /\ LineNow = <<owner>> \o waiters
           /\ owner = None /\ grantedClose => LineNow = <<Closer>> \o waiters
<1>1. waiters \in Seq(Procs) /\ owner \in Procs \cup {None} /\ Closer \in Procs
    BY DEF GateInv, TypeOK, Procs
<1>2. Vacant => waiters = <<>>
    BY DEF GateInv, NoLostWakeup
<1> QED BY <1>1, <1>2, Ahead DEF LineNow, Serving, Vacant

(* Whoever is granted at the end of a step was the head of the queue, and   *)
(* is the head of the line.                                                 *)
LEMMA GrantLine ==
    ASSUME NEW q \in Seq(Procs), NEW rdy, NEW base, NEW mark, GrantNext(q, rdy, base, mark)
    PROVE  LineNow' = q
<1>1. CASE q = <<>>
    <2>1. waiters' = <<>> /\ owner' = None /\ grantedClose' = FALSE
        BY <1>1 DEF GrantNext
    <2> QED BY <1>1, <2>1, Ahead DEF LineNow, Serving
<1>2. CASE q # <<>>
    <2>1. Head(q) \in Procs /\ Head(q) # None /\ waiters' = Tail(q)
        BY <1>2, CloserAssumption DEF GrantNext, Procs
    <2>2. IF Head(q) = Closer THEN owner' = None /\ grantedClose' = TRUE
          ELSE owner' = Head(q)
        BY <1>2 DEF GrantNext
    <2>3. Serving' = <<Head(q)>>
        BY <2>1, <2>2 DEF Serving
    <2> QED BY <1>2, <2>1, <2>3, HeadAhead DEF LineNow
<1> QED BY <1>1, <1>2

(* A new ticket joins the line at its tail.                                 *)
LEMMA EnqueueLine ==
    ASSUME GateInv, NEW p \in Procs, Enqueue(p), owner # p, p \notin Queued,
           ~(grantedClose /\ p = Closer)
    PROVE  LineNow' = Append(LineNow, p) /\ p \notin {LineNow[i] : i \in 1..Len(LineNow)}
<1>1. CASE Vacant
    <2>1. waiters = <<>> /\ LineNow = <<>>
        BY <1>1, LineParts
    <2>2. GrantNext(Append(waiters, p), [ready EXCEPT ![p] = "pending"], baseline, ceilingTask)
        BY <1>1 DEF Enqueue
    <2>3. Append(waiters, p) \in Seq(Procs)
        BY <2>1
    <2>4. LineNow' = Append(waiters, p)
        BY <2>2, <2>3, GrantLine
    <2> QED BY <2>1, <2>4
<1>2. CASE ~Vacant
    <2>1. /\ waiters' = Append(waiters, p) /\ UNCHANGED <<owner, grantedClose>>
          /\ waiters \in Seq(Procs)
        BY <1>2, LineParts DEF Enqueue
    <2>2. PICK x \in Procs : x # p /\ Serving = <<x>> /\ LineNow = <<x>> \o waiters
        BY <1>2, LineParts DEF Vacant, Serving, Procs
    <2>3. Serving' = <<x>>
        BY <2>1, <2>2 DEF Serving
    <2>4. LineNow' = Append(LineNow, p)
        BY <2>1, <2>2, <2>3, AppendAhead DEF LineNow
    <2>5. ASSUME NEW i \in 1..Len(LineNow) PROVE LineNow[i] # p
        <3>1. /\ Len(LineNow) = Len(waiters) + 1 /\ LineNow[1] = x
              /\ \A j \in 1..Len(waiters) : LineNow[j + 1] = waiters[j]
            BY <2>1, <2>2, Ahead
        <3>2. CASE i = 1
            BY <2>2, <3>1, <3>2
        <3>3. CASE i # 1
            <4>1. i - 1 \in 1..Len(waiters) /\ i = (i - 1) + 1
                BY <2>1, <3>1, <3>3
            <4> QED BY <3>1, <4>1 DEF Queued
        <3> QED BY <3>2, <3>3
    <2> QED BY <2>4, <2>5
<1> QED BY <1>1, <1>2

(* Whoever is served gives the gate back: the head leaves the line.         *)
LEMMA HeadLeaves ==
    ASSUME GateInv, owner # None \/ grantedClose, LineNow' = waiters, UNCHANGED state
    PROVE  Line!Next
<1>1. PICK x \in Procs : LineNow = <<x>> \o waiters
    BY LineParts DEF Procs
<1>2. /\ LineNow \in Seq(Procs) /\ LineNow # <<>> /\ 1 \in 1..Len(LineNow) /\ waiters \in Seq(Procs)
    BY <1>1, Ahead, LineParts
<1>3. LineNow' = Dropping(LineNow, 1)
    BY <1>1, <1>2, DroppingHead, TailAhead
<1>4. Line!Leave(1)
    BY <1>3 DEF Line!Leave, Dropping, LineNow
<1> QED BY <1>2, <1>4 DEF Line!Next, LineNow

(* The queue is emptied: the line is shut, behind whoever is served.        *)
LEMMA QueueFails ==
    ASSUME GateInv, waiters' = <<>>, UNCHANGED <<owner, grantedClose>>, state' # "open"
    PROVE  Line!Next
<1>1. Serving' = Serving
    BY DEF Serving
<1>2. CASE Vacant
    <2>1. LineNow' = <<>>
        BY <1>1, <1>2 DEF LineNow, Serving, Vacant
    <2> QED BY <2>1 DEF Line!Next, Line!Shut, LineNow
<1>3. CASE ~Vacant
    <2>1. PICK x \in Procs : Serving = <<x>> /\ LineNow = <<x>> \o waiters
        BY <1>3, LineParts DEF Vacant, Serving, Procs
    <2>2. LineNow' = <<x>> /\ Head(LineNow) = x /\ LineNow # <<>>
        BY <1>1, <2>1, LineParts, Ahead DEF LineNow
    <2> QED BY <2>2 DEF Line!Next, Line!Shut, LineNow
<1> QED BY <1>2, <1>3

(* A step that moves no ticket and grants nothing leaves the abstract line  *)
(* alone.                                                                   *)
LEMMA LineStays ==
    ASSUME UNCHANGED <<state, waiters, owner, grantedClose>>
    PROVE  UNCHANGED <<LineNow, state = "open">>
BY DEF LineNow, Serving

(* Every step of the gate is a step of the line, or leaves it alone.        *)
LEMMA LineStep ==
    ASSUME GateInv, GrantIsReady, [Next]_vars
    PROVE  Line!Next \/ UNCHANGED <<LineNow, state = "open">>
<1> USE CloserAssumption
<1>1. /\ waiters \in Seq(Procs) /\ Closer \in Procs /\ None \notin Procs
      /\ \A u \in Tasks : u \in Procs /\ u # Closer
    BY LineParts DEF Procs
<1>2. ASSUME NEW t \in Tasks, Acquire(t), state = "open" PROVE Line!Next
    <2>1. Enqueue(t) /\ pc[t] = "idle" /\ UNCHANGED state
        BY <1>2 DEF Acquire
    <2>2. owner # t /\ t \notin Queued
        BY <2>1, Standing
    <2>3. LineNow' = Append(LineNow, t) /\ t \notin {LineNow[i] : i \in 1..Len(LineNow)}
        BY <1>1, <2>1, <2>2, EnqueueLine
    <2>4. Line!Join(t)
        BY <1>1, <1>2, <2>1, <2>3 DEF Line!Join, Line!InLine, LineNow
    <2> QED BY <2>4 DEF Line!Next
<1>3. ASSUME NEW t \in Tasks, Cleanup(t) PROVE Line!Next \/ UNCHANGED <<LineNow, state = "open">>
    <2>1. CASE t \notin Queued /\ owner = t
        <3>1. LineNow' = waiters /\ UNCHANGED state
            BY <1>1, <1>3, <2>1, GrantLine DEF Cleanup, Queued
        <3> QED BY <1>1, <2>1, <3>1, HeadLeaves
    <2>2. CASE t \notin Queued /\ owner # t
        BY <1>3, <2>2, LineStays DEF Cleanup, Queued
    <2>3. CASE t \in Queued
        <3>1. PICK i \in 1..Len(waiters) : /\ waiters' = Dropping(waiters, i)
                                           /\ UNCHANGED <<owner, grantedClose, state>>
            BY <1>3, <2>3 DEF Cleanup, Without, Dropping
        <3>2. ~Vacant
            BY <3>1, LineParts DEF Vacant
        <3>3. PICK x \in Procs : Serving = <<x>> /\ LineNow = <<x>> \o waiters
            BY <3>2, LineParts DEF Vacant, Serving, Procs
        <3>4. Serving' = <<x>>
            BY <3>1, <3>3 DEF Serving
        <3>5. LineNow' = Dropping(LineNow, i + 1)
            <4>1. LineNow' = <<x>> \o Dropping(waiters, i)
                BY <3>1, <3>4 DEF LineNow
            <4>2. waiters \in Seq(Procs)
                BY <1>1
            <4>3. Dropping(<<x>> \o waiters, i + 1) = <<x>> \o Dropping(waiters, i)
                BY <4>2, DroppingAhead
            <4>4. QED BY <3>3, <4>1, <4>3
        <3>6. i + 1 \in 1..Len(LineNow)
            BY <1>1, <3>3, Ahead
        <3>7. Line!Leave(i + 1)
            BY <3>1, <3>5 DEF Line!Leave, Dropping, LineNow
        <3> QED BY <3>6, <3>7 DEF Line!Next, LineNow
    <2> QED BY <2>1, <2>2, <2>3
<1>4. ASSUME NEW t \in Tasks, Release(t) PROVE Line!Next \/ UNCHANGED <<LineNow, state = "open">>
    <2>1. CASE depth = 1
        <3>1. LineNow' = waiters /\ UNCHANGED state /\ owner = t
            BY <1>1, <1>4, <2>1, GrantLine DEF Release
        <3> QED BY <1>1, <3>1, HeadLeaves
    <2>2. CASE depth # 1
        BY <1>4, <2>2, LineStays DEF Release
    <2> QED BY <2>1, <2>2
<1>5. ASSUME NEW t \in Tasks, Step(t) PROVE Line!Next \/ UNCHANGED <<LineNow, state = "open">>
    <2>1. CASE Acquire(t) /\ state # "open"
        BY <2>1, LineStays DEF Acquire, gate
    <2>2. CASE Resume(t) \/ GiveUp(t) \/ QueueTimeout(t) \/ Leave(t) \/ BodyExit(t) \/ NewTask(t) \/ Cancel(t)
        BY <2>2, LineStays DEF Resume, GiveUp, QueueTimeout, Leave, BodyExit, NewTask, Cancel, gate
    <2>3. CASE Reenter(t) \/ BodyCancelled(t) \/ Unwind(t)
        BY <2>3, LineStays DEF Reenter, BodyCancelled, Unwind
    <2> QED BY <1>2, <1>3, <1>4, <1>5, <2>1, <2>2, <2>3 DEF Step
<1>6. CASE ReserveClose
    <2>1. CASE state = "open"
        <3>1. Enqueue(Closer) /\ state' = "closing"
            BY <1>6, <2>1 DEF ReserveClose
        <3>2. owner # Closer /\ Closer \notin Queued /\ ~grantedClose
            BY <1>1, <2>1, OpenHasNoClose DEF Queued
        <3>3. LineNow' = Append(LineNow, Closer) /\ Closer \notin {LineNow[i] : i \in 1..Len(LineNow)}
            BY <1>1, <3>1, <3>2, EnqueueLine
        <3>4. Line!Join(Closer)
            BY <2>1, <3>1, <3>3 DEF Line!Join, Line!InLine, LineNow
        <3> QED BY <3>4 DEF Line!Next
    <2>2. CASE state # "open"
        BY <1>6, <2>2, LineStays DEF ReserveClose, gate
    <2> QED BY <2>1, <2>2
<1>7. CASE AcceptExternalClose \/ ResolveClose
    BY <1>7, QueueFails DEF AcceptExternalClose, ResolveClose, FailQueued
<1>8. CASE StartClose \/ CloseBodyExit \/ UnwindClose \/ TeardownEnds
    BY <1>8, LineStays DEF StartClose, CloseBodyExit, UnwindClose, TeardownEnds, gate
<1>9. CASE BindClose
    <2>1. /\ grantedClose /\ owner = None /\ owner' = Closer
          /\ UNCHANGED <<state, waiters>>
        BY <1>9 DEF BindClose, GateInv, CloseShape
    <2>2. Serving = <<Closer>> /\ Serving' = <<Closer>>
        BY <1>1, <2>1 DEF Serving
    <2> QED BY <2>1, <2>2 DEF LineNow
<1>10. CASE CloseRefused
    <2>1. CASE UNCHANGED grantedClose
        BY <1>10, <2>1, LineStays DEF CloseRefused
    <2>2. CASE grantedClose' # grantedClose
        <3>1. /\ grantedClose /\ ~grantedClose' /\ owner = None
              /\ UNCHANGED <<state, owner, waiters>>
            BY <1>10, <2>2 DEF CloseRefused, GateInv, TypeOK, CloseShape
        <3>2. Serving' = <<>>
            BY <3>1 DEF Serving
        <3>3. LineNow' = waiters
            BY <1>1, <3>1, <3>2, Ahead DEF LineNow
        <3> QED BY <3>1, <3>3, HeadLeaves
    <2> QED BY <2>1, <2>2
<1>11. CASE ReleaseClose
    <2>1. /\ owner = Closer /\ owner' = None /\ grantedClose' = grantedClose /\ ~grantedClose
          /\ waiters = <<>> /\ waiters' = <<>> /\ state # "open" /\ state' # "open"
        BY <1>1, <1>11 DEF ReleaseClose, FailQueued, GateInv, CloseShape
    <2>2. LineNow' = <<>>
        BY <2>1, Ahead DEF LineNow, Serving
    <2>3. Line!Shut
        BY <2>1, <2>2 DEF Line!Shut, LineNow
    <2> QED BY <2>3 DEF Line!Next
<1>12. CASE Ceiling
    BY <1>12, QueueFails DEF Ceiling, BreakIn, FailQueued
<1>13. CASE Tick \/ UNCHANGED vars
    BY <1>13, LineStays DEF Tick, vars
<1> QED
    BY <1>5, <1>6, <1>7, <1>8, <1>9, <1>10, <1>11, <1>12, <1>13 DEF Next, CloseStep

(* The gate implements the line: callers are served in the order they ask,  *)
(* one at a time, nobody joins behind the close, and a vacant gate keeps    *)
(* nobody waiting, for any number of callers.                               *)
THEOREM GateServesInLine == Spec => ServesInLine
<1>1. Init => Line!Init
    BY Ahead DEF Init, Line!Init, Serving
<1>2. GateInv /\ GrantIsReady /\ [Next]_vars =>
          (Line!Next \/ UNCHANGED <<Serving \o waiters, state = "open">>)
    BY LineStep DEF LineNow
<1> QED BY <1>1, <1>2, GateInvariant, PTL DEF Spec, ServesInLine, Line!Spec

-----------------------------------------------------------------------------
(* The close coordinator.                                                   *)

(* Where the coordinator stands is where the gate has its task.             *)
Placed ==
    /\ cstep = "none" <=> pc[Closer] \in {"none", "reserved", "waiting"}
    /\ cstep \in {"identity", "prepare", "teardown", "exit"} <=> pc[Closer] \in {"body", "teardown"}
    /\ cstep = "publish" => pc[Closer] \in {"releasing", "unwinding", "settling"}
    /\ cstep = "resolve" => pc[Closer] = "settling"
    /\ cstep \in {"evict", "end"} <=> pc[Closer] = "done"

(* The entry, and its one coordinator, come with the gate's reservation and *)
(* the entry goes with the coordinator's last step; whoever holds the lock  *)
(* across its await asked while there was no entry, or finds one.           *)
Registries ==
    /\ spawned = IF reservation = "none" THEN 0 ELSE 1
    /\ entry <=> reservation # "none" /\ cstep # "end"
    /\ reservation = "none" => registered
    /\ Locked => entry \/ reservation = "none"

(* A body that runs without the lease runs on a gate that is shut, and only *)
(* a close closes the gate.                                                 *)
LeaseLess ==
    /\ state = "closed" => reservation # "none"
    /\ reservation = "teardown" \/ pc[Closer] = "teardown" => state \in {"closed", "broken"}
    /\ ready[Closer] = "closed" => state = "closed"

(* What the coordinator has done by each of its steps.                      *)
Undone == {"none", "identity", "prepare"}
Ending == {"publish", "resolve", "evict", "end"}

WorkDone ==
    /\ published = IF cstep \in {"resolve", "evict", "end"} THEN 1 ELSE 0
    /\ registered => cstep \in {"none", "identity", "publish", "resolve"} /\ torn = "no"
    /\ cstep \in Undone => error = "none" /\ prepared = "no"
    /\ cstep \in Undone \cup {"teardown"} => torn = "no"
    /\ cstep = "exit" => torn # "no"
    /\ cstep = "prepare" => prep /\ ~Refused
    /\ cstep = "teardown" /\ error = "none" /\ prep /\ ~Refused => prepared = "done"

(* What its first error says of it.                                         *)
ErrorIsTrue ==
    /\ cstep \in {"exit"} \cup Ending /\ error = "none"
          => torn = "done" /\ (prep => prepared = "done")
    /\ cstep \in Ending /\ torn = "no" => error \in {"broken", "cancelled"}
    /\ error = "closed" => prepared \in {"no", "refused"}
    /\ Refused => prepared = "no"

(* The exception that goes with the outcome: the release's abort, or what   *)
(* the coordinator's error is turned into.                                  *)
Final == IF error = "none" THEN "ok" ELSE IF error = "cancelled" THEN "aborted" ELSE error

VerdictIsFinal ==
    /\ verdict = "none" <=> outcome = "pending"
    /\ outcome # "pending" => cstep \in Ending
    /\ cstep \in {"evict", "end"} => outcome # "pending"
    /\ verdict \in {"none", "aborted"} \/ (cstep \in {"evict", "end"} /\ verdict = Final)

(* Whoever waits for the shared outcome waits for a close that was spawned, *)
(* and a compound helper for one that carries its preparation.              *)
WaitersMatch ==
    \A r \in Requesters :
       rpc[r] = "waiting" => reservation # "none" /\ (kind[r] # "close" => prep)

PoolInv ==
    /\ GateInv /\ GrantIsReady /\ LeaseLess
    /\ PoolTypeOK /\ Placed /\ Registries /\ WorkDone /\ ErrorIsTrue /\ VerdictIsFinal
    /\ WaitersMatch /\ CompoundIsPrepared

-----------------------------------------------------------------------------
(* What the pool's steps are to the gate.                                   *)

(* Every step is one of the gate's or leaves it alone.                      *)
LEMMA PoolMovesGate ==
    ASSUME [PoolNext]_poolVars
    PROVE  [Next]_vars
<1>1. CASE \E r \in Requesters : Request(r)
    BY <1>1 DEF Request, Call, Ask, Reserve, Hear, AwaitInFlight, Drained, Withdraw, Next, CloseStep
<1>2. CASE External \/ CheckCeiling \/ Operate
    BY <1>2 DEF External, CheckCeiling, Operate, Next, CloseStep
<1>3. CASE Coordinate
    BY <1>3 DEF Coordinate, CoordinatorStarts, CoordinatorBinds, CoordinatorRefused, RemoveIdentity,
                IdentityCancelled, Prepare, Teardown, BodyEnds, CoordinatorReleases,
                CoordinatorUnwinds, Publish, Resolve, Evict, Next, CloseStep
<1>4. CASE UNCHANGED poolVars
    BY <1>4 DEF poolVars
<1> QED BY <1>1, <1>2, <1>3, <1>4 DEF PoolNext

(* A ticket that joins or is granted is not one that failed.                *)
LEMMA GrantIsNotRefusal ==
    ASSUME NEW q \in Seq(Procs), NEW rdy \in [Procs -> Tickets], NEW base, NEW mark,
           GrantNext(q, rdy, base, mark)
    PROVE  ready'[Closer] = "closed" => rdy[Closer] = "closed"
<1>1. CASE q = <<>>
    BY <1>1 DEF GrantNext
<1>2. CASE q # <<>>
    <2>1. Head(q) \in Procs /\ ready' = [rdy EXCEPT ![Head(q)] = "granted"]
        BY <1>2 DEF GrantNext
    <2> QED BY <2>1 DEF Procs
<1> QED BY <1>1, <1>2

(* Joining the line, granted at once or not, refuses no coordinator.        *)
LEMMA EnqueueIsNotRefusal ==
    ASSUME TypeOK, NEW p \in Procs, Enqueue(p)
    PROVE  ready'[Closer] = "closed" => ready[Closer] = "closed"
<1> DEFINE rdy == [ready EXCEPT ![p] = "pending"]
           q == Append(waiters, p)
<1>1. /\ rdy \in [Procs -> Tickets] /\ q \in Seq(Procs)
      /\ rdy[Closer] = "closed" => ready[Closer] = "closed"
    BY DEF TypeOK, Tickets, Procs
<1>2. CASE Vacant
    <2>1. GrantNext(q, rdy, baseline, ceilingTask)
        BY <1>2 DEF Enqueue
    <2> QED BY <1>1, <2>1, GrantIsNotRefusal
<1>3. CASE ~Vacant
    BY <1>1, <1>3 DEF Enqueue
<1> QED BY <1>2, <1>3

(* The steps of the calls move neither the close nor the gate's state.      *)
LEMMA StepLeavesClose ==
    ASSUME GateInv, NEW t \in Tasks, Step(t)
    PROVE  /\ UNCHANGED <<state, close>> /\ pc'[Closer] = pc[Closer]
           /\ ready'[Closer] = "closed" => ready[Closer] = "closed"
<1>1. /\ TypeOK /\ t \in Procs /\ Closer \in Procs /\ t # Closer
      /\ pc \in [Procs -> TaskPcs \cup CloserPcs] /\ waiters \in Seq(Procs) /\ ready \in [Procs -> Tickets]
    BY CloserAssumption DEF GateInv, TypeOK, Procs
<1>2. UNCHANGED <<state, close>> /\ pc'[Closer] = pc[Closer]
    <2>1. UNCHANGED <<state, close>>
        BY DEF Step, Acquire, Resume, GiveUp, QueueTimeout, Cleanup, Leave, Reenter, BodyExit,
               BodyCancelled, Release, Unwind, NewTask, Cancel, gate
    <2>2. (\E where : pc' = [pc EXCEPT ![t] = where]) \/ pc' = pc
        <3>1. CASE Unwind(t)
            BY <3>1 DEF Unwind, FrameEnds
        <3>2. CASE ~Unwind(t)
            BY <3>2, Zenon DEF Step, Acquire, Resume, GiveUp, QueueTimeout, Cleanup, Leave, Reenter,
                               BodyExit, BodyCancelled, Release, NewTask, Cancel
        <3> QED BY <3>1, <3>2
    <2> QED BY <1>1, <2>1, <2>2
<1>3. ready'[Closer] = "closed" => ready[Closer] = "closed"
    <2>1. CASE Acquire(t)
        <3>1. Enqueue(t) \/ ready' = ready
            BY <2>1 DEF Acquire
        <3> QED BY <1>1, <3>1, EnqueueIsNotRefusal
    <2>2. CASE Cleanup(t)
        <3>1. GrantNext(waiters, ready, NoBaseline, None) \/ ready' = ready
            BY <2>2 DEF Cleanup
        <3> QED BY <1>1, <3>1, GrantIsNotRefusal
    <2>3. CASE Release(t)
        <3>1. GrantNext(waiters, ready, baseline, ceilingTask) \/ ready' = ready
            BY <2>3 DEF Release
        <3> QED BY <1>1, <3>1, GrantIsNotRefusal
    <2>4. CASE ~(Acquire(t) \/ Cleanup(t) \/ Release(t))
        <3>1. ready' = ready
            BY <2>4 DEF Step, Resume, GiveUp, QueueTimeout, Leave, Reenter, BodyExit, BodyCancelled,
                        Unwind, NewTask, Cancel
        <3> QED BY <3>1
    <2> QED BY <2>1, <2>2, <2>3, <2>4
<1> QED BY <1>2, <1>3

(* A lease-less body finds the gate shut, whatever the gate does.           *)
LEMMA LeaseLessKeeps ==
    ASSUME GateInv, LeaseLess, [Next]_vars
    PROVE  LeaseLess'
<1>0. /\ TypeOK /\ Closer \in Procs /\ pc \in [Procs -> TaskPcs \cup CloserPcs]
      /\ ready \in [Procs -> Tickets] /\ state \in States
      /\ pc[Closer] # "none" => reservation # "none"
    BY DEF GateInv, TypeOK, CloseShape, Procs
<1>1. ASSUME NEW t \in Tasks, Step(t) PROVE LeaseLess'
    BY <1>1, StepLeavesClose DEF LeaseLess, close
<1>2. CASE ReserveClose
    <2>1. CASE state = "broken"
        BY <1>0, <1>2, <2>1 DEF ReserveClose, gate, LeaseLess
    <2>2. CASE state = "open"
        <3>1. Enqueue(Closer) /\ reservation' = "fifo" /\ pc'[Closer] = "reserved"
            BY <1>0, <1>2, <2>2 DEF ReserveClose
        <3>2. ready[Closer] # "closed"
            BY <2>2 DEF LeaseLess
        <3> QED BY <1>0, <3>1, <3>2, EnqueueIsNotRefusal DEF LeaseLess
    <2> QED BY <1>2, <2>1, <2>2 DEF ReserveClose
<1>3. CASE AcceptExternalClose
    BY <1>3 DEF AcceptExternalClose, LeaseLess
<1>4. CASE StartClose \/ BindClose \/ CloseBodyExit \/ UnwindClose \/ TeardownEnds
    BY <1>0, <1>4 DEF StartClose, BindClose, CloseBodyExit, UnwindClose, TeardownEnds, gate, close,
                      LeaseLess
<1>5. CASE CloseRefused
    BY <1>0, <1>5 DEF CloseRefused, close, LeaseLess
<1>6. CASE ReleaseClose
    BY <1>0, <1>6 DEF ReleaseClose, LeaseLess
<1>7. CASE ResolveClose
    BY <1>0, <1>7 DEF ResolveClose, LeaseLess
<1>8. CASE Ceiling
    BY <1>0, <1>8 DEF Ceiling, BreakIn, FailQueued, close, LeaseLess
<1>9. CASE Tick \/ UNCHANGED vars
    BY <1>9 DEF Tick, close, task, vars, LeaseLess
<1> QED BY <1>1, <1>2, <1>3, <1>4, <1>5, <1>6, <1>7, <1>8, <1>9 DEF Next, CloseStep
-----------------------------------------------------------------------------
(* The requesters' steps.                                                   *)

(* The gate's part of the invariant goes through every step.                *)
LEMMA GatePart ==
    ASSUME PoolInv, [PoolNext]_poolVars
    PROVE  GateInv' /\ GrantIsReady' /\ LeaseLess'
BY PoolMovesGate, GateKeeps, LeaseLessKeeps DEF PoolInv

(* A step of a requester that leaves the gate and the pool alone.           *)
LEMMA RequestLeaves ==
    ASSUME PoolInv, UNCHANGED <<vars, pool>>, PoolTypeOK', WaitersMatch', CompoundIsPrepared',
           Locked' => entry \/ reservation = "none"
    PROVE  PoolInv'
<1> USE DEF vars, pool
<1>1. GateInv' /\ GrantIsReady' /\ LeaseLess'
    <2>1. [Next]_vars
        OBVIOUS
    <2> QED BY <2>1, GateKeeps, LeaseLessKeeps DEF PoolInv
<1>2. Placed' /\ Registries' /\ WorkDone'
    BY DEF PoolInv, Placed, Registries, WorkDone, Refused, Undone
<1>3. ErrorIsTrue' /\ VerdictIsFinal'
    BY DEF PoolInv, ErrorIsTrue, VerdictIsFinal, Ending, Final, Refused
<1> QED BY <1>1, <1>2, <1>3 DEF PoolInv

(* A requester moves on, to wait only for a close that is its own.          *)
LEMMA MovingKeeps ==
    ASSUME PoolInv, NEW r \in Requesters, rpc[r] \notin {"idle", "answered"},
           UNCHANGED <<vars, pool>>,
           NEW where \in {"asking", "waiting", "fallback", "draining"}, MoveTo(r, where),
           where = "asking" => entry \/ reservation = "none",
           where = "waiting" => reservation # "none" /\ (kind[r] # "close" => prep)
    PROVE  PoolInv'
<1> USE DEF PoolInv, MoveTo, vars, pool
<1>1. PoolTypeOK'
    BY DEF PoolTypeOK
<1>2. WaitersMatch' /\ CompoundIsPrepared'
    BY DEF PoolTypeOK, WaitersMatch, CompoundIsPrepared
<1>3. Locked' => entry \/ reservation = "none"
    BY DEF PoolTypeOK, Registries, Locked
<1> QED BY <1>1, <1>2, <1>3, RequestLeaves

(* A requester is answered; a compound helper is told of success only when  *)
(* the preparation was its own.                                             *)
LEMMA AnsweringKeeps ==
    ASSUME PoolInv, NEW r \in Requesters, rpc[r] \notin {"idle", "answered"},
           UNCHANGED <<vars, pool>>,
           NEW a \in {"ok", "missing", "closing", "refused", "cancelled"} \cup Errors \cup Launches,
           Answer(r, a),
           a = "replaced" \/ (kind[r] = "compound" /\ a = "ok") => prepared = "done"
    PROVE  PoolInv'
<1> USE DEF PoolInv, Answer, vars, pool
<1>1. PoolTypeOK'
    BY DEF PoolTypeOK, Errors, Launches
<1>2. WaitersMatch' /\ CompoundIsPrepared'
    BY DEF PoolTypeOK, WaitersMatch, CompoundIsPrepared
<1>3. Locked' => entry \/ reservation = "none"
    BY DEF PoolTypeOK, Registries, Locked
<1> QED BY <1>1, <1>2, <1>3, RequestLeaves

(* A request is turned away: the session is gone, or closing.               *)
LEMMA RejectedKeeps ==
    ASSUME PoolInv, NEW r \in Requesters, rpc[r] \notin {"idle", "answered"},
           UNCHANGED <<vars, pool>>, NEW e \in {"missing", "closing"}, Rejected(r, e)
    PROVE  PoolInv'
<1>1. CASE kind[r] = "relaunch"
    <2>1. MoveTo(r, "fallback")
        BY <1>1 DEF Rejected
    <2> QED BY <2>1, MovingKeeps
<1>2. CASE kind[r] # "relaunch"
    <2>1. Answer(r, e)
        BY <1>2 DEF Rejected
    <2> QED BY <2>1, AnsweringKeeps
<1> QED BY <1>1, <1>2

(* A request joins the close that is already reserved.                      *)
LEMMA CoalesceKeeps ==
    ASSUME PoolInv, NEW r \in Requesters, rpc[r] \notin {"idle", "answered"},
           UNCHANGED <<vars, pool>>, entry, Coalesce(r)
    PROVE  PoolInv'
<1>1. CASE kind[r] = "close"
    <2>1. MoveTo(r, "waiting") /\ reservation # "none"
        BY <1>1 DEF Coalesce, PoolInv, Registries
    <2> QED BY <1>1, <2>1, MovingKeeps
<1>2. CASE kind[r] # "close"
    <2>1. Rejected(r, "closing")
        BY <1>2 DEF Coalesce
    <2> QED BY <2>1, RejectedKeeps
<1> QED BY <1>1, <1>2

(* What a resolved outcome says: a success was torn down and left the       *)
(* registry, a lost race was never prepared.                                *)
LEMMA VerdictsAreTrue ==
    ASSUME PoolInv
    PROVE  /\ verdict = "ok" => /\ torn = "done" /\ ~registered /\ published = 1
                                /\ prep => prepared = "done"
           /\ verdict = "closed" => prepared \in {"no", "refused"}
           /\ outcome # "pending" /\ torn = "no" => verdict \in {"broken", "aborted"}
           /\ outcome # "pending" => verdict \in {"ok"} \cup Errors
<1> USE DEF PoolInv, PoolTypeOK, WorkDone, ErrorIsTrue, VerdictIsFinal, Final, Ending, Errors
<1>1. verdict = "ok" => cstep \in {"evict", "end"} /\ error = "none"
    OBVIOUS
<1>2. verdict = "closed" => error = "closed"
    OBVIOUS
<1>3. outcome # "pending" => verdict # "none" /\ cstep \in Ending
    OBVIOUS
<1>4. outcome # "pending" /\ torn = "no" => verdict \in {"broken", "aborted"}
    BY <1>3
<1> QED BY <1>1, <1>2, <1>3, <1>4
(* A requester calls.                                                       *)
LEMMA CallKeeps ==
    ASSUME PoolInv, NEW r \in Requesters, Call(r)
    PROVE  PoolInv'
<1> USE DEF PoolInv, Call, vars, pool
<1>1. PoolTypeOK'
    BY DEF PoolTypeOK
<1>2. WaitersMatch' /\ CompoundIsPrepared'
    BY DEF PoolTypeOK, WaitersMatch, CompoundIsPrepared
<1>3. Locked' => entry \/ reservation = "none"
    BY DEF PoolTypeOK, Registries, Locked
<1> QED BY <1>1, <1>2, <1>3, RequestLeaves

(* A requester hears the verdict its close has reached.                     *)
LEMMA HearKeeps ==
    ASSUME PoolInv, NEW r \in Requesters, Hear(r)
    PROVE  PoolInv'
<1> DEFINE a == IF kind[r] # "relaunch" THEN verdict
                ELSE IF verdict = "ok" THEN "replaced"
                ELSE IF verdict = "closed" THEN "raced" ELSE verdict
<1>1. /\ rpc[r] = "waiting" /\ outcome # "pending" /\ UNCHANGED <<vars, pool>> /\ Answer(r, a)
    BY DEF Hear
<1>2. /\ kind[r] # "close" => prep
      /\ kind[r] \in Kinds
    BY <1>1 DEF PoolInv, PoolTypeOK, WaitersMatch
<1>3. verdict \in {"ok"} \cup Errors /\ (verdict = "ok" /\ prep => prepared = "done")
    BY <1>1, VerdictsAreTrue
<1>4. a \in {"ok", "missing", "closing", "refused", "cancelled"} \cup Errors \cup Launches
    BY <1>3 DEF Errors, Launches
<1>5. a = "replaced" \/ (kind[r] = "compound" /\ a = "ok") => prepared = "done"
    BY <1>2, <1>3 DEF Errors
<1> HIDE DEF a
<1> QED BY <1>1, <1>4, <1>5, AnsweringKeeps

(* A new coordinator, for a reservation just taken.                         *)
LEMMA SpawnKeeps ==
    ASSUME PoolInv, [PoolNext]_poolVars, reservation = "none", reservation' # "none",
           pc'[Closer] = "reserved", outcome' = outcome, registered' => registered,
           NEW b \in BOOLEAN, Spawn(b),
           UNCHANGED <<cstep, prepared, torn, error, verdict, published>>,
           PoolTypeOK', WaitersMatch', CompoundIsPrepared'
    PROVE  PoolInv'
<1>1. pc[Closer] = "none" /\ cstep = "none" /\ ~entry
    BY DEF PoolInv, GateInv, CloseShape, Placed, Registries
<1>2. Placed' /\ Registries'
    BY <1>1 DEF PoolInv, Placed, Registries, Spawn
<1>3. WorkDone'
    BY <1>1 DEF PoolInv, PoolTypeOK, WorkDone, Undone, Refused
<1>4. ErrorIsTrue' /\ VerdictIsFinal'
    BY <1>1 DEF PoolInv, WorkDone, Undone, ErrorIsTrue, VerdictIsFinal, Ending, Final, Refused
<1> QED BY <1>2, <1>3, <1>4, GatePart DEF PoolInv

(* A requester reserves the close and spawns its coordinator.               *)
LEMMA ReserveKeeps ==
    ASSUME PoolInv, [PoolNext]_poolVars, NEW r \in Requesters, Reserve(r)
    PROVE  PoolInv'
<1> DEFINE Reserves == \/ reservation = "none" /\ ReserveClose
                       \/ reservation # "none" /\ UNCHANGED vars
<1>1. rpc[r] = "asking" /\ (entry \/ reservation = "none")
    BY DEF Reserve, PoolInv, Registries, Locked
<1>2. CASE Answer(r, "refused") /\ UNCHANGED <<vars, pool>>
    BY <1>1, <1>2, AnsweringKeeps
<1>3. CASE entry /\ Coalesce(r) /\ UNCHANGED <<entry, prep, spawned>>
           /\ Reserves
           /\ UNCHANGED <<registered, cstep, prepared, torn, error, verdict, published>>
    <2>1. reservation # "none"
        BY <1>3 DEF PoolInv, Registries
    <2>2. UNCHANGED <<vars, pool>>
        BY <1>3, <2>1 DEF pool
    <2> QED BY <1>1, <1>3, <2>2, CoalesceKeeps
<1>4. CASE ~entry /\ Spawn(kind[r] # "close") /\ MoveTo(r, "waiting")
           /\ Reserves
           /\ UNCHANGED <<registered, cstep, prepared, torn, error, verdict, published>>
    <2>1. ReserveClose /\ reservation = "none"
        BY <1>1, <1>4
    <2>2. reservation' # "none" /\ pc'[Closer] = "reserved" /\ outcome' = outcome
        BY <2>1 DEF ReserveClose, PoolInv, GateInv, TypeOK, Procs
    <2>3. PoolTypeOK'
        BY <1>1, <1>4 DEF PoolInv, PoolTypeOK, Spawn, MoveTo
    <2>4. WaitersMatch'
        BY <1>4, <2>1, <2>2 DEF PoolInv, PoolTypeOK, WaitersMatch, Spawn, MoveTo
    <2>5. CompoundIsPrepared'
        BY <1>4 DEF PoolInv, CompoundIsPrepared, MoveTo
    <2> QED BY <1>4, <2>1, <2>2, <2>3, <2>4, <2>5, SpawnKeeps
<1> QED BY <1>2, <1>3, <1>4 DEF Reserve

(* A requester's call, whatever it finds: rejected, coalesced or reserved.  *)
LEMMA RequestKeeps ==
    ASSUME PoolInv, [PoolNext]_poolVars, NEW r \in Requesters, Request(r)
    PROVE  PoolInv'
<1>1. CASE Ask(r)
    <2>1. rpc[r] = "calling" /\ ~Locked /\ UNCHANGED <<vars, pool>>
        BY <1>1 DEF Ask
    <2>2. CASE entry /\ Coalesce(r)
        BY <2>1, <2>2, CoalesceKeeps
    <2>3. CASE ~entry /\ ~registered /\ Rejected(r, "missing")
        BY <2>1, <2>3, RejectedKeeps
    <2>4. CASE ~entry /\ registered /\ MoveTo(r, "asking")
        <3>1. reservation = "none"
            BY <2>4 DEF PoolInv, Registries, WorkDone
        <3> QED BY <2>1, <2>4, <3>1, MovingKeeps
    <2> QED BY <1>1, <2>2, <2>3, <2>4 DEF Ask
<1>2. CASE AwaitInFlight(r)
    <2>1. rpc[r] = "fallback" /\ UNCHANGED <<vars, pool>>
          /\ (MoveTo(r, "draining") \/ Answer(r, "fallback"))
        BY <1>2 DEF AwaitInFlight
    <2>2. CASE MoveTo(r, "draining")
        BY <2>1, <2>2, MovingKeeps
    <2>3. CASE Answer(r, "fallback")
        BY <2>1, <2>3, AnsweringKeeps DEF Launches
    <2> QED BY <2>1, <2>2, <2>3
<1>3. CASE Drained(r)
    BY <1>3, AnsweringKeeps DEF Drained, Launches
<1>4. CASE Withdraw(r)
    BY <1>4, AnsweringKeeps DEF Withdraw
<1> QED BY <1>1, <1>2, <1>3, <1>4, CallKeeps, HearKeeps, ReserveKeeps DEF Request
-----------------------------------------------------------------------------
(* The browser's death, housekeeping and the callers.                       *)
LEMMA ExternalKeeps ==
    ASSUME PoolInv, [PoolNext]_poolVars, External
    PROVE  PoolInv'
<1> USE DEF External, requests
<1>1. /\ registered /\ registered' = FALSE /\ reservation' # "none" /\ outcome' = outcome
      /\ entry \/ reservation = "none"
      /\ reservation # "none" => reservation' = reservation /\ pc' = pc
      /\ reservation = "none" => pc'[Closer] = "reserved"
    <2>1. TypeOK /\ Closer \in Procs
        BY DEF PoolInv, GateInv, Procs
    <2>2. CASE AcceptExternalClose
        BY <2>1, <2>2 DEF AcceptExternalClose, TypeOK, PoolInv, Registries, WorkDone
    <2>3. CASE state = "closed" /\ UNCHANGED vars
        BY <2>3 DEF vars, PoolInv, LeaseLess, Registries, WorkDone
    <2> QED BY <2>2, <2>3
<1>2. /\ UNCHANGED <<cstep, prepared, torn, error, verdict, published, rpc, kind, answer>>
      /\ (entry /\ UNCHANGED <<entry, prep, spawned>>) \/ (~entry /\ Spawn(FALSE))
    OBVIOUS
<1> HIDE DEF External
<1>3. PoolTypeOK'
    <2>1. entry' \in BOOLEAN /\ prep' \in BOOLEAN /\ spawned' \in Nat /\ registered' \in BOOLEAN
        <3>1. CASE entry /\ UNCHANGED <<entry, prep, spawned>>
            BY <1>1, <3>1 DEF PoolInv, PoolTypeOK
        <3>2. CASE ~entry /\ Spawn(FALSE)
            <4>1. entry' = TRUE /\ prep' = FALSE /\ spawned' = spawned + 1 /\ spawned \in Nat
                BY <3>2, Zenon DEF PoolInv, PoolTypeOK, Spawn
            <4>2. spawned' \in Nat
                BY <4>1
            <4>3. entry' \in BOOLEAN /\ prep' \in BOOLEAN /\ registered' \in BOOLEAN
                BY <1>1, <4>1, Zenon
            <4> QED BY <4>2, <4>3
        <3> QED BY <1>2, <3>1, <3>2
    <2> QED BY <1>2, <2>1 DEF PoolInv, PoolTypeOK
<1>4. CompoundIsPrepared'
    BY <1>2 DEF PoolInv, CompoundIsPrepared
<1>5. WaitersMatch'
    BY <1>1, <1>2 DEF PoolInv, WaitersMatch, Registries, Spawn
<1>6. CASE reservation = "none"
    <2>1. ~entry /\ Spawn(FALSE)
        BY <1>2, <1>6 DEF PoolInv, Registries
    <2> QED BY <1>1, <1>2, <1>3, <1>4, <1>5, <1>6, <2>1, SpawnKeeps
<1>7. CASE reservation # "none"
    <2>1. /\ UNCHANGED <<entry, prep, spawned, reservation, pc, outcome>>
        BY <1>1, <1>2, <1>7
    <2>2. Placed' /\ Registries'
        BY <1>2, <2>1, <1>7 DEF PoolInv, Placed, Registries, Locked
    <2>3. WorkDone'
        BY <1>1, <1>2, <2>1 DEF PoolInv, WorkDone, Undone, Refused
    <2>4. ErrorIsTrue' /\ VerdictIsFinal'
        BY <1>2, <2>1 DEF PoolInv, ErrorIsTrue, VerdictIsFinal, Ending, Final, Refused
    <2> QED BY <1>3, <1>4, <1>5, <2>2, <2>3, <2>4, GatePart DEF PoolInv
<1> QED BY <1>6, <1>7

(* Steps of the callers, of the clock and of the ceiling leave the close    *)
(* where it stands.                                                         *)
LEMMA OthersKeep ==
    ASSUME PoolInv, [PoolNext]_poolVars,
           CheckCeiling \/ Operate \/ UNCHANGED poolVars
    PROVE  PoolInv'
<1>1. UNCHANGED <<pool, requests, reservation, outcome>> /\ pc'[Closer] = pc[Closer]
    <2>1. CASE CheckCeiling
        BY <2>1 DEF CheckCeiling, Ceiling, BreakIn, close
    <2>2. CASE Operate
        <3>1. CASE Tick
            BY <2>2, <3>1 DEF Operate, Tick, close, task
        <3>2. CASE \E t \in Tasks : Step(t)
            BY <2>2, <3>2, StepLeavesClose DEF Operate, close, PoolInv
        <3> QED BY <2>2, <3>1, <3>2 DEF Operate
    <2>3. CASE UNCHANGED poolVars
        BY <2>3 DEF poolVars, vars
    <2> QED BY <2>1, <2>2, <2>3
<1> USE DEF pool, requests
<1>2. PoolTypeOK' /\ WaitersMatch' /\ CompoundIsPrepared'
    BY <1>1 DEF PoolInv, PoolTypeOK, WaitersMatch, CompoundIsPrepared
<1>3. Placed' /\ Registries'
    BY <1>1 DEF PoolInv, Placed, Registries, Locked
<1>4. WorkDone'
    BY <1>1 DEF PoolInv, WorkDone, Undone, Refused
<1>5. ErrorIsTrue' /\ VerdictIsFinal'
    BY <1>1 DEF PoolInv, ErrorIsTrue, VerdictIsFinal, Ending, Final, Refused
<1> QED BY <1>2, <1>3, <1>4, <1>5, GatePart DEF PoolInv

-----------------------------------------------------------------------------
(* The coordinator.                                                         *)

(* No step of it disturbs what the requesters wait for or were told.        *)
LEMMA RequestersStand ==
    ASSUME PoolInv, UNCHANGED <<requests, prep, reservation>>,
           prepared = "done" => prepared' = "done"
    PROVE  WaitersMatch' /\ CompoundIsPrepared'
BY DEF PoolInv, requests, WaitersMatch, CompoundIsPrepared

(* The coordinator starts.                                                  *)
LEMMA StartKeeps ==
    ASSUME PoolInv, [PoolNext]_poolVars, CoordinatorStarts
    PROVE  PoolInv'
<1>1. /\ TypeOK /\ Closer \in Procs /\ pc[Closer] \in CloserPcs
      /\ pc \in [Procs -> TaskPcs \cup CloserPcs] /\ exc \in [Procs -> Results]
      /\ pc[Closer] # "none" => reservation # "none"
    BY DEF PoolInv, GateInv, TypeOK, PcShape, CloseShape, Procs
<1> USE <1>1 DEF PoolInv, CoordinatorStarts, StartClose, gate, close
<1>2. PoolTypeOK'
    BY DEF PoolTypeOK, requests
<1>3. Placed'
    BY DEF Placed, CloserPcs
<1>4. Registries'
    BY DEF Placed, Registries, Locked, requests
<1>5. WorkDone'
    BY DEF PoolTypeOK, Placed, WorkDone, Undone, Refused
<1>6. ErrorIsTrue'
    BY DEF PoolTypeOK, Placed, WorkDone, Undone, ErrorIsTrue, Ending, Refused
<1>7. VerdictIsFinal'
    BY DEF PoolTypeOK, Placed, VerdictIsFinal, Ending, Final
<1>8. WaitersMatch' /\ CompoundIsPrepared'
    BY RequestersStand DEF WorkDone, Undone
<1> QED BY <1>2, <1>3, <1>4, <1>5, <1>6, <1>7, <1>8, GatePart

(* The coordinator binds itself to the reservation.                         *)
LEMMA BindKeeps ==
    ASSUME PoolInv, [PoolNext]_poolVars, CoordinatorBinds
    PROVE  PoolInv'
<1>1. /\ TypeOK /\ Closer \in Procs /\ pc[Closer] \in CloserPcs
      /\ pc \in [Procs -> TaskPcs \cup CloserPcs] /\ exc \in [Procs -> Results]
      /\ pc[Closer] # "none" => reservation # "none"
    BY DEF PoolInv, GateInv, TypeOK, PcShape, CloseShape, Procs
<1> USE <1>1 DEF PoolInv, CoordinatorBinds, BindClose, close
<1>2. PoolTypeOK'
    BY DEF PoolTypeOK, requests
<1>3. Placed'
    BY DEF Placed, CloserPcs
<1>4. Registries'
    BY DEF Placed, Registries, Locked, requests
<1>5. WorkDone'
    BY DEF PoolTypeOK, Placed, WorkDone, Undone, Refused
<1>6. ErrorIsTrue'
    BY DEF PoolTypeOK, Placed, WorkDone, Undone, ErrorIsTrue, Ending, Refused
<1>7. VerdictIsFinal'
    BY DEF PoolTypeOK, Placed, VerdictIsFinal, Ending, Final
<1>8. WaitersMatch' /\ CompoundIsPrepared'
    BY RequestersStand DEF WorkDone, Undone
<1> QED BY <1>2, <1>3, <1>4, <1>5, <1>6, <1>7, <1>8, GatePart

(* The coordinator's wait is refused: it tears the session down without a   *)
(* grant.                                                                   *)
LEMMA RefusedKeeps ==
    ASSUME PoolInv, [PoolNext]_poolVars, CoordinatorRefused
    PROVE  PoolInv'
<1>1. /\ TypeOK /\ Closer \in Procs /\ pc[Closer] \in CloserPcs
      /\ pc \in [Procs -> TaskPcs \cup CloserPcs] /\ exc \in [Procs -> Results]
      /\ pc[Closer] # "none" => reservation # "none"
    BY DEF PoolInv, GateInv, TypeOK, PcShape, CloseShape, Procs
<1> USE <1>1 DEF PoolInv, CoordinatorRefused, CloseRefused, close
<1>2. PoolTypeOK'
    BY DEF PoolTypeOK, requests
<1>3. Placed'
    BY DEF Placed, CloserPcs
<1>4. Registries'
    BY DEF Placed, Registries, Locked, requests
<1>5. WorkDone'
    BY DEF PoolTypeOK, Placed, WorkDone, Undone, Refused
<1>6. ErrorIsTrue'
    BY DEF PoolTypeOK, Placed, WorkDone, Undone, ErrorIsTrue, Ending, Refused
<1>7. VerdictIsFinal'
    BY DEF PoolTypeOK, Placed, VerdictIsFinal, Ending, Final
<1>8. WaitersMatch' /\ CompoundIsPrepared'
    BY RequestersStand DEF WorkDone, Undone
<1> QED BY <1>2, <1>3, <1>4, <1>5, <1>6, <1>7, <1>8, GatePart

(* The coordinator removes the session's identity from the pool.            *)
LEMMA IdentityKeeps ==
    ASSUME PoolInv, [PoolNext]_poolVars, RemoveIdentity
    PROVE  PoolInv'
<1>1. /\ TypeOK /\ Closer \in Procs /\ pc[Closer] \in CloserPcs
      /\ pc \in [Procs -> TaskPcs \cup CloserPcs] /\ exc \in [Procs -> Results]
      /\ pc[Closer] # "none" => reservation # "none"
    BY DEF PoolInv, GateInv, TypeOK, PcShape, CloseShape, Procs
<1> USE <1>1 DEF PoolInv, RemoveIdentity, InBody, vars
<1>2. PoolTypeOK'
    BY DEF PoolTypeOK, requests
<1>3. Placed'
    BY DEF Placed, CloserPcs
<1>4. Registries'
    BY DEF Placed, Registries, Locked, requests
<1>5. WorkDone'
    BY DEF PoolTypeOK, Placed, WorkDone, Undone, Refused
<1>6. ErrorIsTrue'
    BY DEF PoolTypeOK, Placed, WorkDone, Undone, ErrorIsTrue, Ending, Refused
<1>7. VerdictIsFinal'
    BY DEF PoolTypeOK, Placed, VerdictIsFinal, Ending, Final
<1>8. WaitersMatch' /\ CompoundIsPrepared'
    BY RequestersStand DEF WorkDone, Undone
<1> QED BY <1>2, <1>3, <1>4, <1>5, <1>6, <1>7, <1>8, GatePart

(* It is cancelled before it does.                                          *)
LEMMA IdentityCancelledKeeps ==
    ASSUME PoolInv, [PoolNext]_poolVars, IdentityCancelled
    PROVE  PoolInv'
<1>1. /\ TypeOK /\ Closer \in Procs /\ pc[Closer] \in CloserPcs
      /\ pc \in [Procs -> TaskPcs \cup CloserPcs] /\ exc \in [Procs -> Results]
      /\ pc[Closer] # "none" => reservation # "none"
    BY DEF PoolInv, GateInv, TypeOK, PcShape, CloseShape, Procs
<1> USE <1>1 DEF PoolInv, IdentityCancelled, CloseBodyExit, gate, close
<1>2. PoolTypeOK'
    BY DEF PoolTypeOK, requests
<1>3. Placed'
    BY DEF Placed, CloserPcs
<1>4. Registries'
    BY DEF Placed, Registries, Locked, requests
<1>5. WorkDone'
    BY DEF PoolTypeOK, Placed, WorkDone, Undone, Refused
<1>6. ErrorIsTrue'
    BY DEF PoolTypeOK, Placed, WorkDone, Undone, ErrorIsTrue, Ending, Refused
<1>7. VerdictIsFinal'
    BY DEF PoolTypeOK, Placed, VerdictIsFinal, Ending, Final
<1>8. WaitersMatch' /\ CompoundIsPrepared'
    BY RequestersStand DEF WorkDone, Undone
<1> QED BY <1>2, <1>3, <1>4, <1>5, <1>6, <1>7, <1>8, GatePart

(* The preparation runs, and succeeds, fails or is refused.                 *)
LEMMA PrepareKeeps ==
    ASSUME PoolInv, [PoolNext]_poolVars, Prepare
    PROVE  PoolInv'
<1>1. /\ TypeOK /\ Closer \in Procs /\ pc[Closer] \in CloserPcs
      /\ pc \in [Procs -> TaskPcs \cup CloserPcs] /\ exc \in [Procs -> Results]
      /\ pc[Closer] # "none" => reservation # "none"
    BY DEF PoolInv, GateInv, TypeOK, PcShape, CloseShape, Procs
<1> USE <1>1 DEF PoolInv, Prepare, InBody, vars
<1>2. PoolTypeOK'
    BY DEF PoolTypeOK, requests
<1>3. Placed'
    BY DEF Placed, CloserPcs
<1>4. Registries'
    BY DEF Placed, Registries, Locked, requests
<1>5. WorkDone'
    BY DEF PoolTypeOK, Placed, WorkDone, Undone, Refused
<1>6. ErrorIsTrue'
    BY DEF PoolTypeOK, Placed, WorkDone, Undone, ErrorIsTrue, Ending, Refused
<1>7. VerdictIsFinal'
    BY DEF PoolTypeOK, Placed, VerdictIsFinal, Ending, Final
<1>8. WaitersMatch' /\ CompoundIsPrepared'
    BY RequestersStand DEF WorkDone, Undone
<1> QED BY <1>2, <1>3, <1>4, <1>5, <1>6, <1>7, <1>8, GatePart

(* The teardown runs.                                                       *)
LEMMA TeardownKeeps ==
    ASSUME PoolInv, [PoolNext]_poolVars, Teardown
    PROVE  PoolInv'
<1>1. /\ TypeOK /\ Closer \in Procs /\ pc[Closer] \in CloserPcs
      /\ pc \in [Procs -> TaskPcs \cup CloserPcs] /\ exc \in [Procs -> Results]
      /\ pc[Closer] # "none" => reservation # "none"
    BY DEF PoolInv, GateInv, TypeOK, PcShape, CloseShape, Procs
<1> USE <1>1 DEF PoolInv, Teardown, InBody, vars
<1>2. PoolTypeOK'
    BY DEF PoolTypeOK, requests
<1>3. Placed'
    BY DEF Placed, CloserPcs
<1>4. Registries'
    BY DEF Placed, Registries, Locked, requests
<1>5. WorkDone'
    BY DEF PoolTypeOK, Placed, WorkDone, Undone, Refused
<1>6. ErrorIsTrue'
    BY DEF PoolTypeOK, Placed, WorkDone, Undone, ErrorIsTrue, Ending, Refused
<1>7. VerdictIsFinal'
    BY DEF PoolTypeOK, Placed, VerdictIsFinal, Ending, Final
<1>8. WaitersMatch' /\ CompoundIsPrepared'
    BY RequestersStand DEF WorkDone, Undone
<1> QED BY <1>2, <1>3, <1>4, <1>5, <1>6, <1>7, <1>8, GatePart

(* The close body ends.                                                     *)
LEMMA BodyEndsKeeps ==
    ASSUME PoolInv, [PoolNext]_poolVars, BodyEnds
    PROVE  PoolInv'
<1>1. /\ TypeOK /\ Closer \in Procs /\ pc[Closer] \in CloserPcs
      /\ pc \in [Procs -> TaskPcs \cup CloserPcs] /\ exc \in [Procs -> Results]
      /\ pc[Closer] # "none" => reservation # "none"
    BY DEF PoolInv, GateInv, TypeOK, PcShape, CloseShape, Procs
<1> USE <1>1 DEF PoolInv, BodyEnds, CloseBodyExit, TeardownEnds, gate, close
<1>2. PoolTypeOK'
    BY DEF PoolTypeOK, requests
<1>3. Placed'
    BY DEF Placed, CloserPcs
<1>4. Registries'
    BY DEF Placed, Registries, Locked, requests
<1>5. WorkDone'
    BY DEF PoolTypeOK, Placed, WorkDone, Undone, Refused
<1>6. ErrorIsTrue'
    BY DEF PoolTypeOK, Placed, WorkDone, Undone, ErrorIsTrue, Ending, Refused
<1>7. VerdictIsFinal'
    BY DEF PoolTypeOK, Placed, VerdictIsFinal, Ending, Final
<1>8. WaitersMatch' /\ CompoundIsPrepared'
    BY RequestersStand DEF WorkDone, Undone
<1> QED BY <1>2, <1>3, <1>4, <1>5, <1>6, <1>7, <1>8, GatePart

(* The coordinator releases the gate.                                       *)
LEMMA ReleaseKeeps ==
    ASSUME PoolInv, [PoolNext]_poolVars, CoordinatorReleases
    PROVE  PoolInv'
<1>1. /\ TypeOK /\ Closer \in Procs /\ pc[Closer] \in CloserPcs
      /\ pc \in [Procs -> TaskPcs \cup CloserPcs] /\ exc \in [Procs -> Results]
      /\ pc[Closer] # "none" => reservation # "none"
    BY DEF PoolInv, GateInv, TypeOK, PcShape, CloseShape, Procs
<1> USE <1>1 DEF PoolInv, CoordinatorReleases, ReleaseClose
<1>2. PoolTypeOK'
    BY DEF PoolTypeOK, Errors, requests
<1>3. Placed'
    BY DEF Placed, CloserPcs
<1>4. Registries'
    BY DEF Placed, Registries, Locked, requests
<1>5. WorkDone'
    BY DEF PoolTypeOK, Placed, WorkDone, Undone, Refused
<1>6. ErrorIsTrue'
    BY DEF PoolTypeOK, Placed, WorkDone, Undone, ErrorIsTrue, Ending, Refused
<1>7. VerdictIsFinal'
    BY DEF PoolTypeOK, Placed, VerdictIsFinal, Ending, Final
<1>8. WaitersMatch' /\ CompoundIsPrepared'
    BY RequestersStand DEF WorkDone, Undone
<1> QED BY <1>2, <1>3, <1>4, <1>5, <1>6, <1>7, <1>8, GatePart

(* The coordinator unwinds.                                                 *)
LEMMA UnwindKeeps ==
    ASSUME PoolInv, [PoolNext]_poolVars, CoordinatorUnwinds
    PROVE  PoolInv'
<1>1. /\ TypeOK /\ Closer \in Procs /\ pc[Closer] \in CloserPcs
      /\ pc \in [Procs -> TaskPcs \cup CloserPcs] /\ exc \in [Procs -> Results]
      /\ pc[Closer] # "none" => reservation # "none"
    BY DEF PoolInv, GateInv, TypeOK, PcShape, CloseShape, Procs
<1> USE <1>1 DEF PoolInv, CoordinatorUnwinds, UnwindClose, gate, close
<1>2. PoolTypeOK'
    BY DEF PoolTypeOK, requests
<1>3. Placed'
    BY DEF Placed, CloserPcs
<1>4. Registries'
    BY DEF Placed, Registries, Locked, requests
<1>5. WorkDone'
    BY DEF PoolTypeOK, Placed, WorkDone, Undone, Refused
<1>6. ErrorIsTrue'
    BY DEF PoolTypeOK, Placed, WorkDone, Undone, ErrorIsTrue, Ending, Refused
<1>7. VerdictIsFinal'
    BY DEF PoolTypeOK, Placed, VerdictIsFinal, Ending, Final
<1>8. WaitersMatch' /\ CompoundIsPrepared'
    BY RequestersStand DEF WorkDone, Undone
<1> QED BY <1>2, <1>3, <1>4, <1>5, <1>6, <1>7, <1>8, GatePart

(* The close's bookkeeping is done: manifest and event.                     *)
LEMMA PublishKeeps ==
    ASSUME PoolInv, [PoolNext]_poolVars, Publish
    PROVE  PoolInv'
<1>1. /\ TypeOK /\ Closer \in Procs /\ pc[Closer] \in CloserPcs
      /\ pc \in [Procs -> TaskPcs \cup CloserPcs] /\ exc \in [Procs -> Results]
      /\ pc[Closer] # "none" => reservation # "none"
    BY DEF PoolInv, GateInv, TypeOK, PcShape, CloseShape, Procs
<1> USE <1>1 DEF PoolInv, Publish, vars
<1>2. PoolTypeOK'
    BY DEF PoolTypeOK, requests
<1>3. Placed'
    BY DEF Placed, CloserPcs
<1>4. Registries'
    BY DEF Placed, Registries, Locked, requests
<1>5. WorkDone'
    BY DEF PoolTypeOK, Placed, WorkDone, Undone, Refused
<1>6. ErrorIsTrue'
    BY DEF PoolTypeOK, Placed, WorkDone, Undone, ErrorIsTrue, Ending, Refused
<1>7. VerdictIsFinal'
    BY DEF PoolTypeOK, Placed, VerdictIsFinal, Ending, Final
<1>8. WaitersMatch' /\ CompoundIsPrepared'
    BY RequestersStand DEF WorkDone, Undone
<1> QED BY <1>2, <1>3, <1>4, <1>5, <1>6, <1>7, <1>8, GatePart

(* The verdict is settled, once.                                            *)
LEMMA ResolveKeeps ==
    ASSUME PoolInv, [PoolNext]_poolVars, Resolve
    PROVE  PoolInv'
<1>1. /\ TypeOK /\ Closer \in Procs /\ pc[Closer] \in CloserPcs
      /\ pc \in [Procs -> TaskPcs \cup CloserPcs] /\ exc \in [Procs -> Results]
      /\ pc[Closer] # "none" => reservation # "none"
    BY DEF PoolInv, GateInv, TypeOK, PcShape, CloseShape, Procs
<1> USE <1>1 DEF PoolInv, Resolve, ResolveClose
<1>2. PoolTypeOK'
    <2>1. /\ registered' \in BOOLEAN /\ cstep' = "evict"
          /\ UNCHANGED <<entry, spawned, prep, prepared, torn, error, published, requests>>
        OBVIOUS
    <2>2. verdict' \in {"none", "ok"} \cup Errors
        BY DEF PoolTypeOK, Errors
    <2>3. QED BY <2>1, <2>2 DEF PoolTypeOK, requests
<1>3. Placed'
    <2>1. cstep' = "evict" /\ pc'[Closer] = "done"
        OBVIOUS
    <2>2. QED BY <2>1 DEF Placed
<1>4. Registries'
    BY DEF Placed, Registries, Locked, requests
<1>5. WorkDone'
    BY DEF PoolTypeOK, Placed, WorkDone, Undone, Refused
<1>6. ErrorIsTrue'
    BY DEF PoolTypeOK, Placed, WorkDone, Undone, ErrorIsTrue, Ending, Refused
<1>7. VerdictIsFinal'
    BY DEF PoolTypeOK, Placed, VerdictIsFinal, Ending, Final
<1>8. WaitersMatch' /\ CompoundIsPrepared'
    BY RequestersStand DEF WorkDone, Undone
<1> QED BY <1>2, <1>3, <1>4, <1>5, <1>6, <1>7, <1>8, GatePart

(* The coordinator's entry is evicted.                                      *)
LEMMA EvictKeeps ==
    ASSUME PoolInv, [PoolNext]_poolVars, Evict
    PROVE  PoolInv'
<1>1. /\ TypeOK /\ Closer \in Procs /\ pc[Closer] \in CloserPcs
      /\ pc \in [Procs -> TaskPcs \cup CloserPcs] /\ exc \in [Procs -> Results]
      /\ pc[Closer] # "none" => reservation # "none"
    BY DEF PoolInv, GateInv, TypeOK, PcShape, CloseShape, Procs
<1> USE <1>1 DEF PoolInv, Evict, vars
<1>2. PoolTypeOK'
    BY DEF PoolTypeOK, requests
<1>3. Placed'
    BY DEF Placed, CloserPcs
<1>4. Registries'
    BY DEF Placed, Registries, Locked, requests
<1>5. WorkDone'
    BY DEF PoolTypeOK, Placed, WorkDone, Undone, Refused
<1>6. ErrorIsTrue'
    BY DEF PoolTypeOK, Placed, WorkDone, Undone, ErrorIsTrue, Ending, Refused
<1>7. VerdictIsFinal'
    BY DEF PoolTypeOK, Placed, VerdictIsFinal, Ending, Final
<1>8. WaitersMatch' /\ CompoundIsPrepared'
    BY RequestersStand DEF WorkDone, Undone
<1> QED BY <1>2, <1>3, <1>4, <1>5, <1>6, <1>7, <1>8, GatePart

(* Every step keeps the invariant.                                          *)
LEMMA PoolKeeps ==
    ASSUME PoolInv, [PoolNext]_poolVars
    PROVE  PoolInv'
<1>1. CASE \E r \in Requesters : Request(r)
    BY <1>1, RequestKeeps
<1>2. CASE External
    BY <1>2, ExternalKeeps
<1>3. CASE CheckCeiling \/ Operate \/ UNCHANGED poolVars
    BY <1>3, OthersKeep
<1>4. CASE Coordinate
    BY <1>4, StartKeeps, BindKeeps, RefusedKeeps, IdentityKeeps, IdentityCancelledKeeps, PrepareKeeps,
       TeardownKeeps, BodyEndsKeeps, ReleaseKeeps, UnwindKeeps, PublishKeeps, ResolveKeeps, EvictKeeps
       DEF Coordinate
<1> QED BY <1>1, <1>2, <1>3, <1>4 DEF PoolNext

(* The pool starts with the session registered and no close reserved.       *)
LEMMA PoolInitInv ==
    ASSUME PoolInit
    PROVE  PoolInv
<1> USE DEF PoolInit
<1>1. /\ GateInv /\ GrantIsReady /\ reservation = "none" /\ pc[Closer] = "none"
      /\ ready[Closer] = "none" /\ state = "open" /\ outcome = "pending"
    BY InitInv DEF Init, Procs
<1>2. LeaseLess /\ Placed
    BY <1>1 DEF LeaseLess, Placed
<1>3. PoolTypeOK
    BY DEF PoolTypeOK, Kinds
<1>4. Registries /\ WaitersMatch /\ CompoundIsPrepared
    BY <1>1 DEF Registries, Locked, WaitersMatch, CompoundIsPrepared
<1>5. WorkDone /\ ErrorIsTrue /\ VerdictIsFinal
    BY <1>1 DEF WorkDone, Undone, Refused, ErrorIsTrue, Ending, VerdictIsFinal
<1> QED BY <1>1, <1>2, <1>3, <1>4, <1>5 DEF PoolInv

(* The inductive invariant holds in every reachable state of the pool, for  *)
(* any number of callers and of requests to close.                          *)
THEOREM PoolInvariant == PoolSpec => []PoolInv
<1>1. PoolInv /\ [PoolNext]_poolVars => PoolInv'
    BY PoolKeeps
<1> QED BY <1>1, PoolInitInv, PTL DEF PoolSpec

(* However many requesters, browser deaths and ceilings race, a session's   *)
(* close has one coordinator, and the session is in one of the pool's two   *)
(* registries until that one has ended it: reserve_close_browser's re-check *)
(* after its await and the order of the coordinator's last steps.           *)
THEOREM ClosesRunOnce == PoolSpec => []ClosesAreRun
<1>1. PoolInv => ClosesAreRun
    <2> SUFFICES ASSUME PoolInv PROVE ClosesAreRun
        OBVIOUS
    <2> USE DEF PoolInv
    <2>1. OneCoordinator
        BY DEF Registries, OneCoordinator
    <2>2. NoOrphan
        <3>1. CASE reservation = "none"
            BY <3>1 DEF Registries, NoOrphan
        <3>2. CASE reservation # "none" /\ ~entry
            BY <3>2 DEF Registries, VerdictIsFinal, NoOrphan
        <3> QED BY <3>1, <3>2 DEF NoOrphan
    <2> QED BY <2>1, <2>2 DEF ClosesAreRun
<1> QED BY <1>1, PoolInvariant, PTL

(* What requesters are told of a close is what was done: a success tore the *)
(* browser down, left the registry and was announced once; a compound close *)
(* that succeeded ran its own preparation; a lost race ran none.            *)
THEOREM OutcomesAreHonest == PoolSpec => []OutcomeIsHonest
<1>1. PoolInv => OutcomeIsHonest
    BY VerdictsAreTrue
       DEF PoolInv, OutcomeIsHonest, SuccessIsComplete, CompoundIsPrepared, LostRaceIsUnprepared,
           TornUnlessBroken
<1> QED BY <1>1, PoolInvariant, PTL

(* The coordinator prepares and tears down in its turn: with the lease, or  *)
(* on a gate that an external close or the ceiling has shut.                *)
THEOREM TeardownIsInTurn == PoolSpec => TeardownWaitsItsTurn
<1>1. PoolInv /\ [PoolNext]_poolVars =>
          [\/ torn' # torn \/ prepared' # prepared
             => \/ owner = Closer
                \/ state \in {"closed", "broken"}]_poolVars
    <2> SUFFICES ASSUME PoolInv, PoolNext, torn' # torn \/ prepared' # prepared
                 PROVE  owner = Closer \/ state \in {"closed", "broken"}
        BY DEF poolVars, pool
    <2>1. pc[Closer] \in {"body", "teardown"}
        <3>1. CASE \E r \in Requesters : Request(r)
            BY <3>1 DEF Request, Call, Ask, Reserve, Hear, AwaitInFlight, Drained, Withdraw, pool
        <3>2. CASE External \/ CheckCeiling \/ Operate
            BY <3>2 DEF External, CheckCeiling, Operate, pool
        <3>3. CASE Coordinate
            BY <3>3 DEF Coordinate, CoordinatorStarts, CoordinatorBinds, CoordinatorRefused,
                        RemoveIdentity, IdentityCancelled, Prepare, Teardown, BodyEnds,
                        CoordinatorReleases, CoordinatorUnwinds, Publish, Resolve, Evict, InBody
        <3> QED BY <3>1, <3>2, <3>3 DEF PoolNext
    <2> QED BY <2>1 DEF PoolInv, GateInv, CloseShape, LeaseLess
<1> QED BY <1>1, PoolInvariant, PTL DEF PoolSpec, TeardownWaitsItsTurn

(* The pool's close drives the gate it was modelled with: every theorem     *)
(* about the gate holds of it under the pool.                               *)
THEOREM PoolDrivesTheGate == PoolSpec => Spec
<1>1. PoolInit => Init
    BY DEF PoolInit
<1>2. [PoolNext]_poolVars => [Next]_vars
    BY PoolMovesGate
<1> QED BY <1>1, <1>2, PTL DEF PoolSpec, Spec

=============================================================================
