------------------------ MODULE BridgeDeliveryProofs ------------------------
(* What holds of the bridge for any calls, leaders and limits.              *)
EXTENDS BridgeDelivery, TLAPS

-----------------------------------------------------------------------------
(* The inductive invariant.                                                 *)

Queued == ToSet(queue)
Held(c) == c \in Queued \/ c = waiting
Of(c, requests) == {f \in requests : f.call = c}

(* A call is in one of the bridge's hands at a time, and none of them has   *)
(* one that the client has not sent.                                        *)
HandsDiffer ==
    /\ IsInjective(queue)
    /\ \A c \in Calls : Held(c) \/ c \in flight \/ c \in delivered => c \in sent
    /\ \A c \in Calls : Held(c) => c \notin delivered

(* What no leader was given is nowhere beyond the bridge.                   *)
NowhereYet ==
    \A c \in Calls \ delivered : runs[c] = 0 /\ Of(c, frames) = {}

(* A call that a hand has, or the client has still to send, is unanswered.  *)
StillOpen ==
    \A c \in Calls :
        /\ answers[c] <= 1
        /\ c \notin sent => verdict[c] = "none"
        /\ c \notin sent \/ Held(c) \/ c \in flight => answers[c] = 0

(* What was cancelled or given up before a leader had it never gets there.  *)
GivenUp(c) == verdict[c] \in {"unavailable", "refused", "withdrawn"}

LeftAlone ==
    \A c \in Calls :
        /\ c \in cancelled \/ GivenUp(c) =>
               c \notin flight /\ c # waiting /\ (c \in Queued => c \in withdrawn)
        /\ GivenUp(c) => c \notin delivered

(* The bridge only knows of leaders that were started.                      *)
LeadersKnown ==
    /\ lock \in born /\ {dialed, generation} \subseteq born \cup {None}
    /\ phase # "down" => dialed # None

(* A session's number, its leader, and the calls that wait for the next.    *)
Resumed == {"resuming", "live"}

SessionIsOne ==
    /\ writer => phase = "live"
    /\ phase \in {"dialing", "stamped"} => session < MaxSessions
    /\ phase \in Resumed => session > 0
    /\ \A f \in frames \cup joined \cup replies : f.session <= session
    /\ phase \in Resumed => \A f \in frames \cup joined : f.session = session => f.leader = dialed

UnderWay(c) == \E f \in frames \cup joined \cup replies : f.call = c /\ f.session = session

NobodyStranded ==
    /\ \A c \in flight :
          \/ phase = "live"
          \/ phase = "resuming" /\ c \notin toResume
          \/ Resumable(c)
    /\ phase \in Resumed /\ ~broken /\ dialed \in alive =>
          \A c \in flight : (phase = "resuming" /\ c \in toResume) \/ UnderWay(c)

BridgeInv ==
    /\ BridgeTypeOK /\ HandsDiffer /\ NowhereYet /\ StillOpen /\ LeftAlone
    /\ LeadersKnown /\ SessionIsOne /\ NobodyStranded

(* As long as the lockfile does not change hands, the leader that was       *)
(* dialed is the one the second look at it finds.                           *)
StampAgrees ==
    /\ phase = "dialing" /\ ~moved => lock = dialed
    /\ phase = "stamped" /\ ~moved /\ dialed \in alive => generation = dialed
    /\ StampMissesOnlyMoves

(* A call without a key is sent once.                                       *)
PlainOnce ==
    \A c \in Calls \ Tools :
        /\ \A f, h \in Of(c, frames) : f = h
        /\ Of(c, frames) # {} => runs[c] = 0
        /\ runs[c] <= 1

(* A call with a key runs on the leader it is stamped with, whose slot      *)
(* remembers it as long as it may be sent again.                            *)
KeyedOnce ==
    /\ \A f \in frames : f.call \in Tools \ misled => f.leader = stamp[f.call]
    /\ \A c \in Tools \ misled :
          /\ stamp[c] \in born \cup {None}
          /\ runs[c] <= 1
          /\ runs[c] = 1 /\ (c \in flight \/ Of(c, frames) # {}) /\ stamp[c] \in alive =>
                slot[stamp[c]][c] # "no"

RunInv == PlainOnce /\ StampAgrees /\ (Timely => KeyedOnce)

(* The type invariant, part by part.                                        *)
LeadersTyped ==
    /\ lock \in MaybeLeader /\ alive \subseteq born /\ born \subseteq Leaders
    /\ slot \in [Leaders -> [Calls -> {"no", "running", "done"}]]
    /\ runs \in [Calls -> Nat]

LinkTyped ==
    /\ frames \subseteq Frame /\ joined \subseteq Frame /\ replies \subseteq Frame
    /\ phase \in {"down", "dialing", "stamped", "resuming", "live"}
    /\ session \in 0..MaxSessions
    /\ dialed \in MaybeLeader /\ generation \in MaybeLeader
    /\ moved \in BOOLEAN /\ broken \in BOOLEAN /\ writer \in BOOLEAN
    /\ toResume \subseteq Calls

TrackTyped ==
    /\ flight \subseteq Calls /\ delivered \subseteq Calls /\ misled \subseteq Calls
    /\ stamp \in [Calls -> MaybeLeader]
    /\ resumes \in [Calls -> 0..MaxAttempts]
    /\ late \subseteq flight /\ expiring \subseteq Calls

HandsTyped ==
    /\ queue \in Seq(Calls) /\ withdrawn \subseteq ToSet(queue)
    /\ waiting \in Calls \cup {None}
    /\ ToSet(queue) \cap flight = {} /\ waiting \notin flight \cup ToSet(queue)

Verdicts == {"none", "answered", "timeout", "failed", "unknown", "unavailable",
             "refused", "withdrawn", "forgotten"}

ClientTyped ==
    /\ cancelled \subseteq sent /\ sent \subseteq Calls
    /\ answers \in [Calls -> Nat] /\ verdict \in [Calls -> Verdicts]

(* The type invariant, part by part.                                        *)
LEMMA TypeParts ==
    /\ BridgeTypeOK <=> LeadersTyped /\ LinkTyped /\ TrackTyped /\ HandsTyped /\ ClientTyped
    /\ BridgeTypeOK' <=> LeadersTyped' /\ LinkTyped' /\ TrackTyped' /\ HandsTyped' /\ ClientTyped'
BY DEF BridgeTypeOK, LeadersTyped, LinkTyped, TrackTyped, HandsTyped, ClientTyped, Verdicts
-----------------------------------------------------------------------------
(* The intake's queue.                                                      *)
LEMMA QueuedCalls == \A q \in Seq(Calls) : ToSet(q) \subseteq Calls
BY DEF ToSet

(* What dequeueing the first call leaves.                                   *)
LEMMA QueueTail ==
    ASSUME queue \in Seq(Calls), queue # <<>>, IsInjective(queue)
    PROVE  /\ Head(queue) \in Calls /\ Tail(queue) \in Seq(Calls)
           /\ ToSet(queue) = {Head(queue)} \cup ToSet(Tail(queue))
           /\ Head(queue) \notin ToSet(Tail(queue))
           /\ IsInjective(Tail(queue))
<1>1. /\ Len(queue) \in Nat \ {0} /\ Head(queue) = queue[1] /\ Tail(queue) \in Seq(Calls)
      /\ Len(Tail(queue)) = Len(queue) - 1
      /\ \A i \in 1..(Len(queue) - 1) : Tail(queue)[i] = queue[i + 1]
      /\ DOMAIN queue = 1..Len(queue) /\ DOMAIN Tail(queue) = 1..Len(Tail(queue))
      /\ Head(queue) \in Calls
    OBVIOUS
<1>2. ASSUME NEW x \in ToSet(queue) PROVE x \in {Head(queue)} \cup ToSet(Tail(queue))
    <2>1. PICK i \in 1..Len(queue) : x = queue[i]
        BY <1>1, <1>2 DEF ToSet
    <2>2. CASE i = 1
        BY <1>1, <2>1, <2>2
    <2>3. CASE i # 1
        <3>1. i - 1 \in 1..(Len(queue) - 1) /\ x = Tail(queue)[i - 1]
            BY <1>1, <2>1, <2>3
        <3>2. QED BY <1>1, <3>1 DEF ToSet
    <2>4. QED BY <2>2, <2>3
<1>3. ASSUME NEW x \in ToSet(Tail(queue)) PROVE x \in ToSet(queue) /\ x # Head(queue)
    <2>1. PICK i \in 1..(Len(queue) - 1) : x = queue[i + 1]
        BY <1>1, <1>3 DEF ToSet
    <2>2. i + 1 \in 1..Len(queue) /\ i + 1 # 1 /\ 1 \in 1..Len(queue)
        BY <1>1
    <2>3. QED BY <1>1, <2>1, <2>2 DEF ToSet, IsInjective
<1>4. Head(queue) \in ToSet(queue)
    BY <1>1 DEF ToSet
<1>5. IsInjective(Tail(queue))
    <2> SUFFICES ASSUME NEW i \in 1..(Len(queue) - 1), NEW j \in 1..(Len(queue) - 1),
                        Tail(queue)[i] = Tail(queue)[j]
                 PROVE  i = j
        BY <1>1, Zenon DEF IsInjective
    <2>1. i + 1 \in 1..Len(queue) /\ j + 1 \in 1..Len(queue) /\ queue[i + 1] = queue[j + 1]
        BY <1>1
    <2>2. i + 1 = j + 1
        BY <1>1, <2>1 DEF IsInjective
    <2>3. QED BY <2>2
<1> QED BY <1>1, <1>2, <1>3, <1>4, <1>5

(* What queueing a call that was not queued gives.                          *)
LEMMA QueueAppend ==
    ASSUME queue \in Seq(Calls), NEW c \in Calls, c \notin ToSet(queue), IsInjective(queue)
    PROVE  /\ Append(queue, c) \in Seq(Calls)
           /\ ToSet(Append(queue, c)) = ToSet(queue) \cup {c}
           /\ IsInjective(Append(queue, c))
<1> DEFINE longer == Append(queue, c)
<1>1. /\ Len(queue) \in Nat /\ longer \in Seq(Calls) /\ Len(longer) = Len(queue) + 1
      /\ \A i \in 1..Len(queue) : longer[i] = queue[i]
      /\ longer[Len(queue) + 1] = c
      /\ DOMAIN queue = 1..Len(queue) /\ DOMAIN longer = 1..(Len(queue) + 1)
    OBVIOUS
<1>2. ToSet(longer) = ToSet(queue) \cup {c}
    <2>1. ASSUME NEW x \in ToSet(longer) PROVE x \in ToSet(queue) \cup {c}
        <3>1. PICK i \in 1..(Len(queue) + 1) : x = longer[i]
            BY <1>1, <2>1 DEF ToSet
        <3>2. CASE i = Len(queue) + 1
            BY <1>1, <3>1, <3>2
        <3>3. CASE i # Len(queue) + 1
            <4>1. i \in 1..Len(queue)
                BY <1>1, <3>3
            <4>2. QED BY <1>1, <3>1, <4>1 DEF ToSet
        <3>4. QED BY <3>2, <3>3
    <2>2. ASSUME NEW x \in ToSet(queue) PROVE x \in ToSet(longer)
        <3>1. PICK i \in 1..Len(queue) : x = queue[i]
            BY <1>1, <2>2 DEF ToSet
        <3>2. i \in 1..(Len(queue) + 1) /\ x = longer[i]
            BY <1>1, <3>1
        <3>3. QED BY <1>1, <3>2 DEF ToSet
    <2>3. c \in ToSet(longer)
        <3>1. Len(queue) + 1 \in 1..(Len(queue) + 1)
            BY <1>1
        <3>2. QED BY <1>1, <3>1 DEF ToSet
    <2>4. QED BY <2>1, <2>2, <2>3
<1>3. \A i \in 1..Len(queue) : queue[i] # c
    BY <1>1 DEF ToSet
<1>4. IsInjective(longer)
    <2> SUFFICES ASSUME NEW i \in 1..(Len(queue) + 1), NEW j \in 1..(Len(queue) + 1),
                        longer[i] = longer[j]
                 PROVE  i = j
        BY <1>1, Zenon DEF IsInjective
    <2>1. CASE i \in 1..Len(queue) /\ j \in 1..Len(queue)
        BY <1>1, <2>1 DEF IsInjective
    <2>2. CASE i = Len(queue) + 1 \/ j = Len(queue) + 1
        BY <1>1, <1>3, <2>2
    <2>3. QED BY <1>1, <2>1, <2>2
<1> QED BY <1>1, <1>2, <1>4

(* What the client is told.                                                 *)
LEMMA Told ==
    ASSUME ClientTyped, NEW cs, NEW v \in Verdicts, Tell(cs, v)
    PROVE  /\ ClientTyped' /\ sent' = sent /\ cancelled' = cancelled
           /\ \A c \in Calls : c \in cs => answers'[c] = answers[c] + 1 /\ verdict'[c] = v
           /\ \A c \in Calls : c \notin cs => answers'[c] = answers[c] /\ verdict'[c] = verdict[c]
<1>1. answers' \in [Calls -> Nat]
    BY DEF ClientTyped, Tell
<1>2. verdict' \in [Calls -> Verdicts]
    BY DEF ClientTyped, Tell
<1> QED BY <1>1, <1>2 DEF ClientTyped, Tell

(* Drain and WriterAppears both hand a call the bridge holds to Forward.    *)
LEMMA ForwardKeeps ==
    ASSUME BridgeInv, RunInv, NEW c \in Calls, Held(c), c \notin withdrawn, Forward(c),
           withdrawn' = withdrawn,
           queue' \in Seq(Calls), IsInjective(queue'), withdrawn' \subseteq Queued',
           waiting' \in Calls \cup {None}, waiting' \notin Queued',
           \A d \in Calls : Held(d)' <=> Held(d) /\ d # c,
           \A d \in Calls : d \in Queued' => d \in Queued,
           waiting' \in {waiting, None}
    PROVE  BridgeInv' /\ RunInv'
<1> USE CallAssumption, LimitAssumption, LeaderAssumption, TypeParts DEF BridgeInv, leader, client
<1>1. /\ c \in sent /\ c \notin delivered /\ c \notin flight /\ c \notin cancelled /\ ~GivenUp(c)
      /\ answers[c] = 0 /\ runs[c] = 0 /\ \A f \in frames : f.call # c
    BY DEF Held, Queued, HandsTyped, HandsDiffer, NowhereYet, Of, StillOpen, LeftAlone
<1>2. /\ phase = "live" /\ session \in 1..MaxSessions /\ dialed \in born \cap Leaders
      /\ generation \in born \cup {None} /\ generation \in MaybeLeader
    BY DEF Forward, SessionIsOne, LinkTyped, Resumed, LeadersKnown, LeadersTyped
<1> DEFINE request == [call |-> c, session |-> session, leader |-> dialed]
<1>3. /\ request \in Frame /\ request.call = c /\ request.session = session
      /\ request.leader = dialed
    BY <1>2 DEF Frame
<1>4. /\ stamp' = [stamp EXCEPT ![c] = generation]
      /\ UNCHANGED <<lock, alive, born, slot, runs, joined, replies, phase, session, dialed,
                     generation, moved, broken, toResume, resumes, expiring>>
    BY DEF Forward
<1>5. /\ stamp' \in [Calls -> MaybeLeader] /\ stamp'[c] = generation
      /\ \A d \in Calls : d # c => stamp'[d] = stamp[d]
    BY <1>2, <1>4 DEF TrackTyped
<1>6. \A d \in Calls : Resumable(d)' = Resumable(d)
    BY <1>4 DEF Resumable
<1>7. \A d \in Queued' : d \in Calls
    BY QueuedCalls DEF Queued
<1>8. waiting' # c /\ c \notin Queued' /\ Queued' \cap flight = {} /\ waiting' \notin flight
    BY <1>1, <1>7 DEF Held, HandsTyped, Queued, TrackTyped
<1>9. CASE /\ ~broken /\ flight' = flight \cup {c} /\ Transmit(c)
           /\ UNCHANGED <<writer, late, client>>
    <2> USE <1>1, <1>2, <1>3, <1>4, <1>9 DEF Transmit
    <2>1. LeadersTyped' /\ LinkTyped' /\ ClientTyped'
        BY DEF LeadersTyped, LinkTyped, ClientTyped
    <2>2. TrackTyped'
        BY <1>5 DEF TrackTyped
    <2>3. HandsTyped'
        BY <1>8 DEF HandsTyped, Queued
    <2>4. HandsDiffer'
        BY DEF HandsDiffer
    <2>5. NowhereYet'
        BY DEF NowhereYet, Of
    <2>6. StillOpen'
        BY DEF StillOpen
    <2>7. LeftAlone'
        BY <1>8 DEF LeftAlone, GivenUp
    <2>8. LeadersKnown' /\ SessionIsOne'
        BY DEF LeadersKnown, SessionIsOne
    <2>9. NobodyStranded'
        BY <1>6 DEF NobodyStranded, UnderWay
    <2>10. PlainOnce'
        BY DEF PlainOnce, Of, RunInv
    <2>11. StampAgrees'
        BY DEF RunInv, StampAgrees, StampMissesOnlyMoves, StampIsLeader
    <2>12. Timely => KeyedOnce'
        BY <1>5 DEF RunInv, KeyedOnce, StampAgrees, StampMissesOnlyMoves, StampIsLeader, Of
    <2> QED BY <2>1, <2>2, <2>3, <2>4, <2>5, <2>6, <2>7, <2>8, <2>9, <2>10, <2>11, <2>12 DEF
            RunInv
<1>10. CASE /\ broken /\ writer' = FALSE /\ FailOrMark(flight \cup {c})
            /\ UNCHANGED <<delivered, frames, misled>>
    <2> USE <1>1, <1>2, <1>4, <1>10
    <2> DEFINE failed == {d \in flight \cup {c} : ~Resumable(d)}
    <2>1. /\ flight' = {d \in flight \cup {c} : Resumable(d)} /\ late' = late \cap flight'
          /\ Tell(failed, "failed")
        BY DEF FailOrMark
    <2>2. /\ ClientTyped' /\ sent' = sent /\ cancelled' = cancelled
          /\ \A d \in Calls : d \in failed => answers'[d] = answers[d] + 1 /\ verdict'[d] = "failed"
          /\ \A d \in Calls : d \notin failed => answers'[d] = answers[d] /\ verdict'[d] = verdict[d]
        BY <2>1, Told DEF Verdicts
    <2> HIDE DEF failed
    <2>3. \A d \in Calls : d \in failed <=> (d \in flight \/ d = c) /\ ~Resumable(d)
        BY DEF failed
    <2>4. \A d \in Calls : d \in flight' <=> (d \in flight \/ d = c) /\ Resumable(d)
        BY <2>1
    <2>5. LeadersTyped' /\ LinkTyped'
        BY DEF LeadersTyped, LinkTyped
    <2>6. TrackTyped'
        BY <1>5, <2>1 DEF TrackTyped
    <2>7. HandsTyped'
        BY <1>8, <2>1 DEF HandsTyped, Queued
    <2>8. HandsDiffer'
        BY <2>2, <2>4 DEF HandsDiffer
    <2>9. NowhereYet'
        BY DEF NowhereYet
    <2>10. StillOpen'
        <3>1. ASSUME NEW d \in Calls
              PROVE  /\ answers'[d] <= 1
                     /\ d \notin sent' => verdict'[d] = "none"
                     /\ d \notin sent' \/ Held(d)' \/ d \in flight' => answers'[d] = 0
            <4>1. CASE d \in failed
                BY <2>2, <2>3, <2>4, <4>1 DEF StillOpen, HandsDiffer, HandsTyped, Held, Queued
            <4>2. CASE d \notin failed
                BY <2>2, <2>3, <2>4, <4>2 DEF StillOpen
            <4>3. QED BY <4>1, <4>2
        <3>2. QED BY <3>1 DEF StillOpen
    <2>11. LeftAlone'
        BY <1>8, <2>2, <2>3, <2>4 DEF LeftAlone, GivenUp
    <2>12. LeadersKnown' /\ SessionIsOne'
        BY DEF LeadersKnown, SessionIsOne
    <2>13. NobodyStranded'
        BY <1>6, <2>4 DEF NobodyStranded
    <2>14. PlainOnce'
        BY DEF PlainOnce, RunInv
    <2>15. StampAgrees'
        BY DEF RunInv, StampAgrees, StampMissesOnlyMoves, StampIsLeader
    <2>16. Timely => KeyedOnce'
        BY <1>5, <2>4 DEF RunInv, KeyedOnce
    <2> QED BY <2>2, <2>5, <2>6, <2>7, <2>8, <2>9, <2>10, <2>11, <2>12, <2>13, <2>14, <2>15, <2>16
            DEF RunInv
<1> QED BY <1>9, <1>10 DEF Forward

(* A call that is skipped, or begins to wait, moves within the intake.      *)
LEMMA IntakeKeeps ==
    ASSUME BridgeInv, RunInv, UNCHANGED <<leader, wire, link, tracked, clock, client>>,
           queue' \in Seq(Calls), IsInjective(queue'), withdrawn' \subseteq Queued',
           waiting' \in Calls \cup {None}, waiting' \notin Queued',
           \A d \in Calls : Held(d)' => Held(d),
           \A d \in Calls : d \in cancelled \/ GivenUp(d) =>
               d # waiting' /\ (d \in Queued' => d \in withdrawn')
    PROVE  BridgeInv' /\ RunInv'
<1> USE CallAssumption, TypeParts DEF BridgeInv, leader, wire, link, tracked, clock, client
<1>1. \A d \in Queued' : d \in Calls
    BY QueuedCalls DEF Queued
<1>2. LeadersTyped' /\ LinkTyped' /\ TrackTyped' /\ ClientTyped'
    BY DEF LeadersTyped, LinkTyped, TrackTyped, ClientTyped
<1>3. HandsTyped'
    BY <1>1 DEF HandsTyped, TrackTyped, Held, Queued
<1>4. HandsDiffer' /\ NowhereYet'
    BY DEF HandsDiffer, NowhereYet
<1>5. StillOpen' /\ LeftAlone'
    BY DEF StillOpen, LeftAlone, GivenUp
<1>6. LeadersKnown' /\ SessionIsOne' /\ NobodyStranded'
    BY DEF LeadersKnown, SessionIsOne, NobodyStranded, UnderWay, Resumable
<1>7. RunInv'
    BY DEF RunInv, PlainOnce, StampAgrees, StampMissesOnlyMoves, StampIsLeader, KeyedOnce
<1> QED BY <1>2, <1>3, <1>4, <1>5, <1>6, <1>7

(* The intake takes the next call of its queue.                             *)
LEMMA DrainKeeps ==
    ASSUME BridgeInv, RunInv, Drain
    PROVE  BridgeInv' /\ RunInv'
<1> USE CallAssumption, TypeParts DEF BridgeInv
<1> DEFINE c == Head(queue)
<1>1. /\ c \in Calls /\ queue' = Tail(queue) /\ queue' \in Seq(Calls) /\ IsInjective(queue')
      /\ Queued = {c} \cup Queued' /\ c \notin Queued'
    BY QueueTail DEF Drain, HandsTyped, HandsDiffer, Queued
<1>2. waiting = None /\ withdrawn' = withdrawn \ {c}
    BY DEF Drain
<1> HIDE DEF c
<1>3. withdrawn' \subseteq Queued' /\ None \notin Queued' /\ Held(c)
    BY <1>1, <1>2, QueuedCalls DEF HandsTyped, Queued, Held
<1>4. CASE Skipped(c) /\ UNCHANGED <<leader, wire, link, waiting, tracked, clock, client>>
    BY <1>1, <1>2, <1>3, <1>4, IntakeKeeps DEF Held, LeftAlone
<1>5. CASE ~Skipped(c) /\ Forward(c) /\ UNCHANGED waiting
    <2>1. withdrawn' = withdrawn /\ c \notin withdrawn
        BY <1>2, <1>5 DEF Skipped
    <2>2. \A d \in Calls : Held(d)' <=> Held(d) /\ d # c
        BY <1>1, <1>2, <1>5 DEF Held
    <2>3. QED BY <1>1, <1>2, <1>3, <1>5, <2>1, <2>2, ForwardKeeps
<1>6. CASE ~Skipped(c) /\ waiting' = c /\ UNCHANGED <<leader, wire, link, tracked, clock, client>>
    <2>1. ~(c \in cancelled \/ GivenUp(c))
        BY <1>1, <1>6 DEF Skipped, LeftAlone
    <2>2. \A d \in Calls : Held(d)' => Held(d)
        BY <1>1, <1>6 DEF Held
    <2>3. QED BY <1>1, <1>2, <1>3, <1>6, <2>1, <2>2, IntakeKeeps DEF LeftAlone
<1> QED BY <1>4, <1>5, <1>6 DEF Drain, c

(* A writer appears.                                                        *)
LEMMA WriterAppearsKeeps ==
    ASSUME BridgeInv, RunInv, WriterAppears
    PROVE  BridgeInv' /\ RunInv'
<1> USE CallAssumption, TypeParts DEF BridgeInv
<1>1. /\ waiting \in Calls /\ Held(waiting) /\ waiting \notin withdrawn /\ Forward(waiting)
      /\ waiting' = None /\ queue' = queue /\ withdrawn' = withdrawn
    BY DEF WriterAppears, HandsTyped, Held
<1>2. Queued' = Queued /\ None \notin Queued
    BY <1>1, QueuedCalls DEF Queued, HandsTyped
<1>3. \A d \in Calls : Held(d)' <=> Held(d) /\ d # waiting
    BY <1>1, <1>2 DEF Held, HandsTyped, Queued
<1>4. queue' \in Seq(Calls) /\ IsInjective(queue') /\ withdrawn' \subseteq Queued'
    BY <1>1 DEF HandsTyped, HandsDiffer, Queued
<1>5. QED BY <1>1, <1>2, <1>3, <1>4, ForwardKeeps

(* A stuttering step.                                                       *)
LEMMA StandingStillKeeps ==
    ASSUME BridgeInv, RunInv, UNCHANGED vars
    PROVE  BridgeInv' /\ RunInv'
<1> USE DEF vars
<1>1. BridgeTypeOK'
    BY DEF BridgeInv, BridgeTypeOK
<1>2. HandsDiffer' /\ NowhereYet' /\ StillOpen' /\ LeftAlone'
    BY DEF BridgeInv, HandsDiffer, NowhereYet, StillOpen, LeftAlone, Held, Queued, GivenUp
<1>3. LeadersKnown' /\ SessionIsOne' /\ NobodyStranded'
    BY DEF BridgeInv, LeadersKnown, SessionIsOne, NobodyStranded, UnderWay, Resumable
<1>4. RunInv'
    BY DEF RunInv, PlainOnce, StampAgrees, StampMissesOnlyMoves, StampIsLeader, KeyedOnce
<1> QED BY <1>1, <1>2, <1>3, <1>4 DEF BridgeInv

(* The client sends a call.                                                 *)
LEMMA SendKeeps ==
    ASSUME BridgeInv, RunInv, NEW c \in Calls, Send(c)
    PROVE  BridgeInv' /\ RunInv'
<1> USE CallAssumption, LimitAssumption, LeaderAssumption, TypeParts
    DEF BridgeInv, Send, client, leader, wire, link, intake, tracked, clock
<1>1. /\ ToSet(queue) \subseteq Calls /\ c \notin ToSet(queue)
      /\ c \notin flight /\ c # waiting /\ c \notin delivered
    BY QueuedCalls DEF HandsTyped, HandsDiffer, Held, Queued
<1>2. \/ /\ queue' = queue
         /\ answers' = [answers EXCEPT ![c] = @ + 1] /\ verdict' = [verdict EXCEPT ![c] = "refused"]
      \/ /\ queue' \in Seq(Calls) /\ ToSet(queue') = ToSet(queue) \cup {c} /\ IsInjective(queue')
         /\ answers' = answers /\ verdict' = verdict
    <2>1. CASE Pending < MaxPending
        <3>1. queue' = Append(queue, c) /\ answers' = answers /\ verdict' = verdict
            BY <2>1
        <3>2. queue \in Seq(Calls) /\ IsInjective(queue)
            BY DEF HandsTyped, HandsDiffer
        <3> HIDE DEF BridgeInv, Send
        <3> QED BY <1>1, <3>1, <3>2, QueueAppend
    <2>2. CASE ~(Pending < MaxPending)
        BY <2>2
    <2> QED BY <2>1, <2>2
<1> HIDE DEF Send
<1>3. /\ c \in Calls \ sent /\ sent' = sent \cup {c}
      /\ UNCHANGED <<leader, wire, link, withdrawn, waiting, tracked, clock, cancelled>>
    BY DEF Send
<1>4. /\ LeadersTyped' /\ LinkTyped' /\ TrackTyped' /\ NowhereYet' /\ LeadersKnown'
      /\ SessionIsOne' /\ NobodyStranded'
    <2>1. LeadersTyped' /\ LinkTyped' /\ TrackTyped'
        BY <1>3 DEF LeadersTyped, LinkTyped, TrackTyped
    <2>2. NowhereYet' /\ LeadersKnown'
        BY <1>3 DEF NowhereYet, LeadersKnown
    <2>3. SessionIsOne' /\ NobodyStranded'
        BY <1>3 DEF SessionIsOne, NobodyStranded, UnderWay, Resumable
    <2> QED BY <2>1, <2>2, <2>3
<1>5. PlainOnce' /\ StampAgrees' /\ (Timely => KeyedOnce')
    <2>1. PlainOnce' /\ StampAgrees'
        BY <1>3 DEF RunInv, PlainOnce, StampAgrees, StampMissesOnlyMoves, StampIsLeader
    <2>2. Timely => KeyedOnce'
        BY <1>3 DEF RunInv, KeyedOnce
    <2> QED BY <2>1, <2>2
<1>6. HandsTyped'
    BY <1>2, <1>3, <1>1 DEF HandsTyped
<1>7. ClientTyped'
    <2>1. ClientTyped
        OBVIOUS
    <2> HIDE DEF BridgeInv
    <2>2. answers' \in [Calls -> Nat]
        BY <1>2, <2>1 DEF ClientTyped
    <2>3. verdict' \in [Calls -> Verdicts]
        BY <1>2, <2>1 DEF ClientTyped, Verdicts
    <2> QED BY <1>3, <2>1, <2>2, <2>3 DEF ClientTyped
<1>8. HandsDiffer'
    BY <1>2, <1>3, <1>1 DEF HandsDiffer, Held, Queued
<1>9. StillOpen'
    BY <1>2, <1>3, <1>1 DEF ClientTyped, StillOpen, Held, Queued
<1>10. LeftAlone'
    <2>1. c \notin cancelled /\ ~GivenUp(c)
        BY <1>3 DEF ClientTyped, StillOpen, GivenUp
    <2>2. CASE queue' = queue /\ verdict' = [verdict EXCEPT ![c] = "refused"]
        BY <1>3, <1>1, <2>2 DEF LeftAlone, GivenUp, Queued
    <2>3. CASE ToSet(queue') = ToSet(queue) \cup {c} /\ verdict' = verdict
        BY <1>3, <1>1, <2>1, <2>3 DEF LeftAlone, GivenUp, Queued
    <2>4. QED BY <1>2, <2>2, <2>3
<1> QED BY <1>4, <1>5, <1>6, <1>7, <1>8, <1>9, <1>10 DEF RunInv

(* The client cancels a call.                                               *)
LEMMA CancelKeeps ==
    ASSUME BridgeInv, RunInv, NEW c \in Calls, Cancel(c)
    PROVE  BridgeInv' /\ RunInv'
<1> USE CallAssumption, LimitAssumption, LeaderAssumption, TypeParts
    DEF BridgeInv, Cancel, WithdrawQueued, WithdrawWaiting, ForgetInFlight, Drop, leader, wire,
        link, intake, tracked, clock, client
<1>1. LeadersTyped' /\ LinkTyped' /\ NowhereYet' /\ LeadersKnown' /\ SessionIsOne'
    BY DEF LeadersTyped, LinkTyped, NowhereYet, LeadersKnown, SessionIsOne
<1>2. PlainOnce' /\ StampAgrees'
    BY DEF RunInv, PlainOnce, StampAgrees, StampMissesOnlyMoves, StampIsLeader
<1>3. TrackTyped'
    BY DEF TrackTyped, Resumable
<1>4. HandsTyped'
    BY QueuedCalls DEF TrackTyped, HandsTyped
<1>5. ClientTyped'
    BY DEF ClientTyped, Verdicts
<1>6. HandsDiffer'
    BY DEF HandsDiffer, Held, Queued
<1>7. StillOpen'
    BY DEF ClientTyped, StillOpen, Held, Queued
<1>8. LeftAlone'
    BY DEF HandsTyped, ClientTyped, HandsDiffer, LeftAlone, GivenUp, Queued, Held
<1>9. NobodyStranded'
    BY DEF NobodyStranded, UnderWay, Resumable
<1>10. Timely => KeyedOnce'
    BY DEF RunInv, KeyedOnce
<1> QED BY <1>1, <1>2, <1>3, <1>4, <1>5, <1>6, <1>7, <1>8, <1>9, <1>10 DEF RunInv

(* The wait for a writer runs out.                                          *)
LEMMA WaitRunsOutKeeps ==
    ASSUME BridgeInv, RunInv, WaitRunsOut
    PROVE  BridgeInv' /\ RunInv'
<1> USE CallAssumption, LimitAssumption, LeaderAssumption, TypeParts
    DEF BridgeInv, WaitRunsOut, Tell, leader, wire, link, intake, tracked, clock, client
<1>1. /\ LeadersTyped' /\ LinkTyped' /\ TrackTyped' /\ NowhereYet' /\ LeadersKnown'
      /\ SessionIsOne' /\ NobodyStranded'
    BY DEF LeadersTyped, LinkTyped, TrackTyped, NowhereYet, LeadersKnown, SessionIsOne,
        NobodyStranded, UnderWay, Resumable
<1>2. PlainOnce' /\ StampAgrees' /\ (Timely => KeyedOnce')
    BY DEF RunInv, PlainOnce, StampAgrees, StampMissesOnlyMoves, StampIsLeader, KeyedOnce
<1>3. HandsTyped'
    BY QueuedCalls DEF TrackTyped, HandsTyped
<1>4. ClientTyped'
    BY DEF ClientTyped, Verdicts
<1>5. HandsDiffer'
    BY DEF HandsDiffer, Held, Queued
<1>6. StillOpen'
    BY DEF HandsTyped, HandsDiffer, StillOpen, Held, Queued
<1>7. LeftAlone'
    BY DEF HandsTyped, HandsDiffer, LeftAlone, GivenUp, Queued, Held
<1> QED BY <1>1, <1>2, <1>3, <1>4, <1>5, <1>6, <1>7 DEF RunInv

(* The bridge dials the leader the lockfile names.                          *)
LEMMA DialKeeps ==
    ASSUME BridgeInv, RunInv, Dial
    PROVE  BridgeInv' /\ RunInv'
<1> USE CallAssumption, LimitAssumption, LeaderAssumption, TypeParts
    DEF BridgeInv, Dial, Named, leader, wire, link, intake, tracked, clock, client
<1>1. /\ LeadersTyped' /\ TrackTyped' /\ HandsTyped' /\ ClientTyped' /\ HandsDiffer'
      /\ NowhereYet' /\ StillOpen' /\ LeftAlone'
    BY DEF LeadersTyped, TrackTyped, HandsTyped, ClientTyped, HandsDiffer, Held, Queued,
        NowhereYet, StillOpen, LeftAlone, GivenUp
<1>2. PlainOnce' /\ (Timely => KeyedOnce')
    BY DEF RunInv, PlainOnce, KeyedOnce
<1>3. LinkTyped'
    BY DEF LeadersTyped, LinkTyped
<1>4. LeadersKnown'
    BY DEF LeadersKnown
<1>5. SessionIsOne'
    BY DEF SessionIsOne, Resumed
<1>6. NobodyStranded'
    BY DEF NobodyStranded, Resumed, Resumable
<1>7. StampAgrees'
    BY DEF RunInv, StampAgrees, StampMissesOnlyMoves, StampIsLeader
<1> QED BY <1>1, <1>2, <1>3, <1>4, <1>5, <1>6, <1>7 DEF RunInv

(* A second look at the lockfile gives the connection its generation.       *)
LEMMA StampKeeps ==
    ASSUME BridgeInv, RunInv, Stamp
    PROVE  BridgeInv' /\ RunInv'
<1> USE CallAssumption, LimitAssumption, LeaderAssumption, TypeParts
    DEF BridgeInv, Stamp, Named, leader, wire, link, intake, tracked, clock, client
<1>1. /\ LeadersTyped' /\ TrackTyped' /\ HandsTyped' /\ ClientTyped' /\ HandsDiffer'
      /\ NowhereYet' /\ StillOpen' /\ LeftAlone'
    BY DEF LeadersTyped, TrackTyped, HandsTyped, ClientTyped, HandsDiffer, Held, Queued,
        NowhereYet, StillOpen, LeftAlone, GivenUp
<1>2. PlainOnce' /\ (Timely => KeyedOnce')
    BY DEF RunInv, PlainOnce, KeyedOnce
<1>3. LinkTyped'
    BY DEF LeadersTyped, LinkTyped, MaybeLeader
<1>4. LeadersKnown'
    BY DEF LeadersKnown
<1>5. SessionIsOne'
    BY DEF SessionIsOne, Resumed
<1>6. NobodyStranded'
    BY DEF NobodyStranded, Resumed, Resumable
<1>7. StampAgrees'
    BY DEF RunInv, StampAgrees, StampMissesOnlyMoves, StampIsLeader
<1> QED BY <1>1, <1>2, <1>3, <1>4, <1>5, <1>6, <1>7 DEF RunInv

(* The handshake ends.                                                      *)
LEMMA HandshakeKeeps ==
    ASSUME BridgeInv, RunInv, Handshake
    PROVE  BridgeInv' /\ RunInv'
<1> USE CallAssumption, LimitAssumption, LeaderAssumption, TypeParts
    DEF BridgeInv, Handshake, client, leader, wire, link, intake, tracked, clock
<1>1. /\ LeadersTyped' /\ TrackTyped' /\ HandsTyped' /\ ClientTyped' /\ HandsDiffer'
      /\ NowhereYet' /\ StillOpen' /\ LeftAlone'
    BY DEF LeadersTyped, TrackTyped, HandsTyped, ClientTyped, HandsDiffer, Held, Queued,
        NowhereYet, StillOpen, LeftAlone, GivenUp
<1>2. PlainOnce' /\ (Timely => KeyedOnce')
    BY DEF RunInv, PlainOnce, KeyedOnce
<1>3. LinkTyped'
    <2>1. session' \in 0..MaxSessions
        BY DEF LinkTyped, SessionIsOne
    <2>2. QED BY <2>1 DEF LinkTyped, TrackTyped
<1>4. LeadersKnown'
    BY DEF LeadersKnown
<1>5. SessionIsOne'
    BY DEF LinkTyped, SessionIsOne, Frame
<1>6. NobodyStranded'
    BY DEF NobodyStranded, Resumable
<1>7. StampAgrees'
    BY DEF RunInv, StampAgrees, StampMissesOnlyMoves, StampIsLeader
<1> QED BY <1>1, <1>2, <1>3, <1>4, <1>5, <1>6, <1>7 DEF RunInv

(* The new writer is published.                                             *)
LEMMA PublishKeeps ==
    ASSUME BridgeInv, RunInv, Publish
    PROVE  BridgeInv' /\ RunInv'
<1> USE CallAssumption, LimitAssumption, LeaderAssumption, TypeParts
    DEF BridgeInv, Publish, client, leader, wire, link, intake, tracked, clock
<1>1. /\ LeadersTyped' /\ TrackTyped' /\ HandsTyped' /\ ClientTyped' /\ HandsDiffer'
      /\ NowhereYet' /\ StillOpen' /\ LeftAlone'
    BY DEF LeadersTyped, TrackTyped, HandsTyped, ClientTyped, HandsDiffer, Held, Queued,
        NowhereYet, StillOpen, LeftAlone, GivenUp
<1>2. PlainOnce' /\ (Timely => KeyedOnce')
    BY DEF RunInv, PlainOnce, KeyedOnce
<1>3. LinkTyped'
    BY DEF LinkTyped
<1>4. LeadersKnown'
    BY DEF LeadersKnown
<1>5. SessionIsOne'
    BY DEF SessionIsOne, Resumed
<1>6. NobodyStranded'
    BY DEF NobodyStranded, Resumed, UnderWay
<1>7. StampAgrees'
    BY DEF RunInv, StampAgrees, StampMissesOnlyMoves, StampIsLeader
<1> QED BY <1>1, <1>2, <1>3, <1>4, <1>5, <1>6, <1>7 DEF RunInv

(* The connection breaks.                                                   *)
LEMMA BreakKeeps ==
    ASSUME BridgeInv, RunInv, Break
    PROVE  BridgeInv' /\ RunInv'
<1> USE CallAssumption, LimitAssumption, LeaderAssumption, TypeParts
    DEF BridgeInv, Break, client, leader, wire, link, intake, tracked, clock
<1>1. /\ LeadersTyped' /\ TrackTyped' /\ HandsTyped' /\ ClientTyped' /\ HandsDiffer'
      /\ NowhereYet' /\ StillOpen' /\ LeftAlone' /\ LeadersKnown' /\ SessionIsOne'
    BY DEF LeadersTyped, TrackTyped, HandsTyped, ClientTyped, HandsDiffer, Held, Queued,
        NowhereYet, StillOpen, LeftAlone, GivenUp, LeadersKnown, SessionIsOne
<1>2. PlainOnce' /\ StampAgrees' /\ (Timely => KeyedOnce')
    BY DEF RunInv, PlainOnce, StampAgrees, StampMissesOnlyMoves, StampIsLeader, KeyedOnce
<1>3. LinkTyped'
    BY DEF LinkTyped
<1>4. NobodyStranded'
    BY DEF NobodyStranded, Resumable
<1> QED BY <1>1, <1>2, <1>3, <1>4 DEF RunInv

(* The bridge's session on that connection ends.                            *)
LEMMA EndSessionKeeps ==
    ASSUME BridgeInv, RunInv, EndSession
    PROVE  BridgeInv' /\ RunInv'
<1> USE CallAssumption, LimitAssumption, LeaderAssumption, TypeParts
    DEF BridgeInv, EndSession, FailOrMark, Tell, leader, wire, link, intake, tracked, clock,
        client
<1>1. LeadersTyped' /\ NowhereYet'
    BY DEF LeadersTyped, NowhereYet
<1>2. PlainOnce'
    BY DEF RunInv, PlainOnce
<1>3. LinkTyped'
    BY DEF LinkTyped
<1>4. TrackTyped'
    BY DEF TrackTyped
<1>5. HandsTyped'
    BY DEF HandsTyped
<1>6. ClientTyped'
    BY DEF ClientTyped, Verdicts
<1>7. HandsDiffer'
    BY DEF HandsDiffer, Held, Queued
<1>8. StillOpen'
    BY DEF HandsTyped, HandsDiffer, StillOpen, Held, Queued
<1>9. LeftAlone'
    BY DEF LeftAlone, GivenUp, Queued
<1>10. LeadersKnown'
    BY DEF LeadersKnown
<1>11. SessionIsOne'
    BY DEF SessionIsOne, Resumed
<1>12. NobodyStranded'
    BY DEF NobodyStranded, Resumed, Resumable
<1>13. StampAgrees'
    BY DEF RunInv, StampAgrees, StampMissesOnlyMoves, StampIsLeader
<1>14. Timely => KeyedOnce'
    BY DEF RunInv, KeyedOnce
<1> QED BY <1>1, <1>2, <1>3, <1>4, <1>5, <1>6, <1>7, <1>8, <1>9, <1>10, <1>11, <1>12, <1>13,
        <1>14 DEF RunInv

(* A call is resumed on the next connection, or answered with an error.     *)
LEMMA ResumeKeeps ==
    ASSUME BridgeInv, RunInv, NEW c \in Calls, Resume(c)
    PROVE  BridgeInv' /\ RunInv'
<1> USE CallAssumption, LimitAssumption, LeaderAssumption, TypeParts
    DEF BridgeInv, Resume, Transmit, Drop, Tell, RanElsewhere, leader, wire, link, intake, tracked, clock,
        client
<1>1. LeadersTyped' /\ LeadersKnown'
    BY DEF LeadersTyped, LeadersKnown
<1>2. StampAgrees'
    BY DEF RunInv, StampAgrees, StampMissesOnlyMoves, StampIsLeader
<1>3. LinkTyped'
    <2>1. /\ phase = "resuming" /\ session \in 1..MaxSessions /\ dialed \in Leaders
          /\ frames \subseteq Frame
        BY DEF LinkTyped, SessionIsOne, Resumed, LeadersKnown, LeadersTyped
    <2>2. frames' \subseteq Frame
        BY <2>1 DEF Frame
    <2>3. toResume' \subseteq Calls
        BY DEF LinkTyped
    <2>4. QED BY <2>2, <2>3 DEF LinkTyped
<1>4. TrackTyped'
    BY DEF LinkTyped, TrackTyped, Resumable
<1>5. HandsTyped'
    BY DEF HandsTyped
<1>6. ClientTyped'
    BY DEF ClientTyped, Verdicts
<1>7. HandsDiffer'
    BY DEF HandsTyped, HandsDiffer, Held, Queued
<1>8. NowhereYet'
    BY DEF NowhereYet, Of
<1>9. StillOpen'
    BY DEF HandsDiffer, StillOpen, Held, Queued
<1>10. LeftAlone'
    BY DEF LeftAlone, GivenUp, Queued
<1>11. SessionIsOne'
    BY DEF LinkTyped, SessionIsOne
<1>12. NobodyStranded'
    <2>1. /\ phase = "resuming" /\ c \in toResume
          /\ UNCHANGED <<phase, session, broken, dialed, alive, joined, replies>>
          /\ flight' \subseteq flight /\ frames \subseteq frames'
        OBVIOUS
    <2>2. ASSUME NEW d \in flight', d \in toResume', d # c PROVE d \in toResume
        BY <2>2
    <2>3. ASSUME NEW d \in flight'
          PROVE  (phase' = "resuming" /\ d \notin toResume') \/ Resumable(d)'
        <3>1. CASE d = c
            BY <3>1, <2>3, <2>1
        <3>2. CASE d # c
            BY <3>2, <2>3, <2>1 DEF Resumable, TrackTyped, NobodyStranded
        <3>3. QED BY <3>1, <3>2
    <2>4. ASSUME ~broken, dialed \in alive, NEW d \in flight'
          PROVE  d \in toResume' \/ UnderWay(d)'
        <3>1. CASE d = c
            <4>1. CASE c \in flight /\ Resumable(c) /\ ~RanElsewhere(c)
                <5>1. [call |-> c, session |-> session, leader |-> dialed] \in frames'
                    BY <4>1, <2>4
                <5>2. QED BY <5>1, <3>1, <2>1 DEF UnderWay
            <4>2. CASE ~(c \in flight /\ Resumable(c) /\ ~RanElsewhere(c))
                <5>1. ~Resumable(c) /\ flight' = flight
                    BY <4>2, <3>1, <2>4, <2>1
                <5>2. QED BY <5>1, <3>1, <2>4, <2>1 DEF NobodyStranded
            <4>3. QED BY <4>1, <4>2
        <3>2. CASE d # c
            BY <3>2, <2>4, <2>1 DEF Resumed, UnderWay, NobodyStranded
        <3>3. QED BY <3>1, <3>2
    <2>5. QED BY <2>1, <2>3, <2>4 DEF NobodyStranded
<1>13. PlainOnce'
    BY DEF RunInv, PlainOnce, Of, Resumable
<1>14. Timely => KeyedOnce'
    <2> SUFFICES ASSUME Timely PROVE KeyedOnce'
        OBVIOUS
    <2>1. KeyedOnce /\ (~moved => generation = dialed)
        BY DEF RunInv, StampAgrees, StampMissesOnlyMoves, StampIsLeader
    <2>2. CASE c \notin flight \/ ~Resumable(c) \/ RanElsewhere(c)
        BY <2>1, <2>2 DEF KeyedOnce
    <2>3. CASE c \in flight /\ Resumable(c) /\ ~RanElsewhere(c)
        <3>1. /\ stamp' = [stamp EXCEPT ![c] = generation]
              /\ \/ frames' = frames /\ misled' = misled
                 \/ /\ frames' = frames \cup {[call |-> c, session |-> session, leader |-> dialed]}
                    /\ misled' = IF moved /\ c \in Tools THEN misled \cup {c} ELSE misled
              /\ UNCHANGED <<flight, runs, slot, alive, born>>
            BY <2>3
        <3>2. c \in delivered => stamp[c] = generation
            BY <2>3 DEF RanElsewhere
        <3>3. c \notin delivered => runs[c] = 0 /\ \A f \in frames : f.call # c
            BY DEF NowhereYet, Of
        <3>4. /\ stamp'[c] = generation /\ \A d \in Calls : d # c => stamp'[d] = stamp[d]
              /\ \A d \in Calls : d # c => Of(d, frames') = Of(d, frames)
            BY <3>1 DEF Of, TrackTyped
        <3>5. ASSUME NEW f \in frames', f.call \in Tools \ misled'
              PROVE  f.leader = stamp'[f.call]
            <4>1. f.call \in Calls /\ f.call \in Tools \ misled
                BY <3>1, <3>5
            <4>2. CASE f \in frames
                <5>1. f.leader = stamp[f.call]
                    BY <2>1, <4>1, <4>2 DEF KeyedOnce
                <5>2. QED BY <5>1, <3>2, <3>3, <3>4, <4>1, <4>2
            <4>3. CASE f \notin frames
                <5>1. f.call = c /\ f.leader = dialed /\ (moved => c \in misled')
                    BY <3>1, <3>5, <4>1, <4>3
                <5>2. QED BY <5>1, <2>1, <3>4, <3>5
            <4>4. QED BY <4>2, <4>3
        <3>6. generation \in born \cup {None}
            BY DEF LeadersKnown
        <3>7. ASSUME NEW d \in Tools \ misled'
              PROVE  /\ stamp'[d] \in born' \cup {None}
                     /\ runs'[d] <= 1
                     /\ /\ runs'[d] = 1 /\ (d \in flight' \/ Of(d, frames') # {})
                        /\ stamp'[d] \in alive'
                        => slot'[stamp'[d]][d] # "no"
            <4>1. d \in Calls /\ d \in Tools \ misled
                BY <3>1, <3>7
            <4>2. /\ stamp[d] \in born \cup {None} /\ runs[d] <= 1
                  /\ runs[d] = 1 /\ (d \in flight \/ Of(d, frames) # {}) /\ stamp[d] \in alive
                     => slot[stamp[d]][d] # "no"
                BY <2>1, <4>1 DEF KeyedOnce
            <4>3. CASE d = c
                BY <2>3, <3>1, <3>2, <3>3, <3>4, <3>6, <4>2, <4>3
            <4>4. CASE d # c
                BY <3>1, <3>4, <4>1, <4>2, <4>4
            <4>5. QED BY <4>3, <4>4
        <3>8. QED BY <3>5, <3>7 DEF KeyedOnce
    <2>4. QED BY <2>2, <2>3
<1> QED BY <1>1, <1>2, <1>3, <1>4, <1>5, <1>6, <1>7, <1>8, <1>9, <1>10, <1>11, <1>12, <1>13,
        <1>14 DEF RunInv

(* A call's deadline passes.                                                *)
LEMMA DeadlineKeeps ==
    ASSUME BridgeInv, RunInv, NEW c \in Calls, Deadline(c)
    PROVE  BridgeInv' /\ RunInv'
<1> USE CallAssumption, LimitAssumption, LeaderAssumption, TypeParts
    DEF BridgeInv, Deadline, client, leader, wire, link, intake, tracked, clock
<1>1. /\ LeadersTyped' /\ LinkTyped' /\ HandsTyped' /\ ClientTyped' /\ HandsDiffer'
      /\ NowhereYet' /\ StillOpen' /\ LeftAlone' /\ LeadersKnown' /\ SessionIsOne'
      /\ NobodyStranded'
    BY DEF LeadersTyped, LinkTyped, HandsTyped, ClientTyped, HandsDiffer, Held, Queued,
        NowhereYet, StillOpen, LeftAlone, GivenUp, LeadersKnown, SessionIsOne, NobodyStranded,
        UnderWay, Resumable
<1>2. PlainOnce' /\ StampAgrees' /\ (Timely => KeyedOnce')
    BY DEF RunInv, PlainOnce, StampAgrees, StampMissesOnlyMoves, StampIsLeader, KeyedOnce
<1>3. TrackTyped'
    BY DEF TrackTyped, Resumable
<1> QED BY <1>1, <1>2, <1>3 DEF RunInv

(* A call's progress renews its deadline.                                   *)
LEMMA ProgressKeeps ==
    ASSUME BridgeInv, RunInv, NEW c \in Calls, Progress(c)
    PROVE  BridgeInv' /\ RunInv'
<1> USE CallAssumption, LimitAssumption, LeaderAssumption, TypeParts
    DEF BridgeInv, Progress, client, leader, wire, link, intake, tracked, clock
<1>1. /\ LeadersTyped' /\ LinkTyped' /\ HandsTyped' /\ ClientTyped' /\ HandsDiffer'
      /\ NowhereYet' /\ StillOpen' /\ LeftAlone' /\ LeadersKnown' /\ SessionIsOne'
      /\ NobodyStranded'
    BY DEF LeadersTyped, LinkTyped, HandsTyped, ClientTyped, HandsDiffer, Held, Queued,
        NowhereYet, StillOpen, LeftAlone, GivenUp, LeadersKnown, SessionIsOne, NobodyStranded,
        UnderWay
<1>2. PlainOnce' /\ StampAgrees' /\ (Timely => KeyedOnce')
    BY DEF RunInv, PlainOnce, StampAgrees, StampMissesOnlyMoves, StampIsLeader, KeyedOnce
<1>3. TrackTyped'
    BY DEF TrackTyped, Resumable
<1> QED BY <1>1, <1>2, <1>3 DEF RunInv

(* The overdue calls are collected and the first is answered.               *)
LEMMA SweepKeeps ==
    ASSUME BridgeInv, RunInv, NEW c \in Calls, Sweep(c)
    PROVE  BridgeInv' /\ RunInv'
<1> USE CallAssumption, LimitAssumption, LeaderAssumption, TypeParts
    DEF BridgeInv, Sweep, Expire, Drop, Tell, leader, wire, link, intake, tracked, clock, client
<1>1. LeadersTyped' /\ NowhereYet' /\ LeadersKnown' /\ SessionIsOne'
    BY DEF LeadersTyped, NowhereYet, LeadersKnown, SessionIsOne
<1>2. PlainOnce' /\ StampAgrees'
    BY DEF RunInv, PlainOnce, StampAgrees, StampMissesOnlyMoves, StampIsLeader
<1>3. LinkTyped'
    BY DEF LinkTyped
<1>4. TrackTyped'
    BY DEF TrackTyped, Resumable
<1>5. HandsTyped'
    BY DEF HandsTyped
<1>6. ClientTyped'
    BY DEF ClientTyped, Verdicts
<1>7. HandsDiffer'
    BY DEF HandsDiffer, Held, Queued
<1>8. StillOpen'
    BY DEF HandsTyped, TrackTyped, HandsDiffer, StillOpen, Held, Queued
<1>9. LeftAlone'
    BY DEF LeftAlone, GivenUp, Queued
<1>10. NobodyStranded'
    BY DEF NobodyStranded, UnderWay, Resumable
<1>11. Timely => KeyedOnce'
    BY DEF RunInv, KeyedOnce
<1> QED BY <1>1, <1>2, <1>3, <1>4, <1>5, <1>6, <1>7, <1>8, <1>9, <1>10, <1>11 DEF RunInv

(* The next overdue call that was collected is answered, if it is still in  *)
(* flight.                                                                  *)
LEMMA SweepOnKeeps ==
    ASSUME BridgeInv, RunInv, NEW c \in Calls, SweepOn(c)
    PROVE  BridgeInv' /\ RunInv'
<1> USE CallAssumption, LimitAssumption, LeaderAssumption, TypeParts
    DEF BridgeInv, SweepOn, Expire, Drop, Tell, leader, wire, link, intake, tracked, clock,
        client
<1>1. LeadersTyped' /\ NowhereYet' /\ LeadersKnown' /\ SessionIsOne'
    BY DEF LeadersTyped, NowhereYet, LeadersKnown, SessionIsOne
<1>2. PlainOnce' /\ StampAgrees'
    BY DEF RunInv, PlainOnce, StampAgrees, StampMissesOnlyMoves, StampIsLeader
<1>3. LinkTyped'
    BY DEF LinkTyped
<1>4. TrackTyped'
    BY DEF TrackTyped, Resumable
<1>5. HandsTyped'
    BY DEF HandsTyped
<1>6. ClientTyped'
    BY DEF ClientTyped, Verdicts
<1>7. HandsDiffer'
    BY DEF HandsDiffer, Held, Queued
<1>8. StillOpen'
    BY DEF HandsTyped, HandsDiffer, LeftAlone, StillOpen, Held, Queued
<1>9. LeftAlone'
    BY DEF LeftAlone, GivenUp, Queued
<1>10. NobodyStranded'
    BY DEF LinkTyped, NobodyStranded, UnderWay, Resumable
<1>11. Timely => KeyedOnce'
    BY DEF RunInv, KeyedOnce
<1> QED BY <1>1, <1>2, <1>3, <1>4, <1>5, <1>6, <1>7, <1>8, <1>9, <1>10, <1>11 DEF RunInv

(* The bridge reads a reply.                                                *)
LEMMA ReadKeeps ==
    ASSUME BridgeInv, RunInv, NEW r \in replies, Read(r)
    PROVE  BridgeInv' /\ RunInv'
<1> USE CallAssumption, LimitAssumption, LeaderAssumption, TypeParts
    DEF BridgeInv, Read, Settles, Drop, Tell, leader, wire, link, intake, tracked, clock, client
<1>1. LeadersTyped' /\ NowhereYet' /\ LeadersKnown'
    BY DEF LeadersTyped, NowhereYet, LeadersKnown
<1>2. PlainOnce' /\ StampAgrees'
    BY DEF RunInv, PlainOnce, StampAgrees, StampMissesOnlyMoves, StampIsLeader
<1>3. LinkTyped'
    BY DEF LinkTyped
<1>4. TrackTyped'
    BY DEF TrackTyped, Resumable
<1>5. HandsTyped'
    BY DEF HandsTyped
<1>6. ClientTyped'
    BY DEF ClientTyped, Verdicts
<1>7. HandsDiffer'
    BY DEF HandsDiffer, Held, Queued
<1>8. StillOpen'
    <2>1. r.call \in Calls
        BY DEF LinkTyped, Frame
    <2>2. CASE Settles(r) /\ Drop(r.call) /\ Tell({r.call}, "answered")
        <3>1. /\ sent' = sent
              /\ \A c \in Calls : c # r.call => answers'[c] = answers[c] /\ verdict'[c] = verdict[c]
              /\ answers'[r.call] = answers[r.call] + 1
            BY <2>1, <2>2, Told
        <3>2. r.call \in flight /\ flight' = flight \ {r.call}
            BY <2>2 DEF Settles, Drop
        <3>3. r.call \in sent /\ ~Held(r.call) /\ ~Held(r.call)' /\ answers[r.call] = 0
            BY <2>1, <3>2 DEF HandsDiffer, HandsTyped, StillOpen, Held, Queued
        <3>4. QED BY <2>1, <3>1, <3>2, <3>3 DEF StillOpen, Held, Queued
    <2>3. CASE ~Settles(r) /\ UNCHANGED <<tracked, late, client>>
        BY <2>3 DEF StillOpen, Held, Queued
    <2>4. QED BY <2>2, <2>3 DEF Read
<1>9. LeftAlone'
    BY DEF LeftAlone, GivenUp, Queued
<1>10. SessionIsOne'
    BY DEF SessionIsOne
<1>11. NobodyStranded'
    BY DEF NobodyStranded, UnderWay
<1>12. Timely => KeyedOnce'
    BY DEF RunInv, KeyedOnce
<1> QED BY <1>1, <1>2, <1>3, <1>4, <1>5, <1>6, <1>7, <1>8, <1>9, <1>10, <1>11, <1>12 DEF RunInv

(* A leader is elected.                                                     *)
LEMMA ElectKeeps ==
    ASSUME BridgeInv, RunInv, NEW g \in Leaders, Elect(g)
    PROVE  BridgeInv' /\ RunInv'
<1> USE CallAssumption, LimitAssumption, LeaderAssumption, TypeParts
    DEF BridgeInv, Elect, client, leader, wire, link, intake, tracked, clock
<1>1. /\ LinkTyped' /\ TrackTyped' /\ HandsTyped' /\ ClientTyped' /\ HandsDiffer'
      /\ NowhereYet' /\ StillOpen' /\ LeftAlone' /\ SessionIsOne'
    BY DEF LinkTyped, TrackTyped, HandsTyped, ClientTyped, HandsDiffer, Held, Queued, NowhereYet,
        StillOpen, LeftAlone, GivenUp, SessionIsOne
<1>2. PlainOnce'
    BY DEF RunInv, PlainOnce
<1>3. LeadersTyped'
    BY DEF LeadersTyped, MaybeLeader
<1>4. LeadersKnown'
    BY DEF LeadersKnown
<1>5. NobodyStranded'
    BY DEF LeadersKnown, NobodyStranded, UnderWay, Resumable
<1>6. StampAgrees'
    BY DEF RunInv, LeadersKnown, StampAgrees, StampMissesOnlyMoves, StampIsLeader
<1>7. Timely => KeyedOnce'
    BY DEF RunInv, KeyedOnce
<1> QED BY <1>1, <1>2, <1>3, <1>4, <1>5, <1>6, <1>7 DEF RunInv

(* A leader dies.                                                           *)
LEMMA DieKeeps ==
    ASSUME BridgeInv, RunInv, NEW g \in Leaders, Die(g)
    PROVE  BridgeInv' /\ RunInv'
<1> USE CallAssumption, LimitAssumption, LeaderAssumption, TypeParts
    DEF BridgeInv, Die, client, leader, wire, link, intake, tracked, clock
<1>1. /\ TrackTyped' /\ HandsTyped' /\ ClientTyped' /\ HandsDiffer' /\ StillOpen'
      /\ LeftAlone' /\ LeadersKnown'
    BY DEF TrackTyped, HandsTyped, ClientTyped, HandsDiffer, Held, Queued, StillOpen, LeftAlone,
        GivenUp, LeadersKnown
<1>2. LeadersTyped'
    BY DEF LeadersTyped
<1>3. LinkTyped'
    BY DEF LinkTyped
<1>4. NowhereYet'
    BY DEF NowhereYet, Of
<1>5. SessionIsOne'
    BY DEF SessionIsOne
<1>6. NobodyStranded'
    BY DEF SessionIsOne, NobodyStranded, UnderWay, Resumable
<1>7. PlainOnce'
    BY DEF RunInv, PlainOnce, Of
<1>8. StampAgrees'
    BY DEF RunInv, StampAgrees, StampMissesOnlyMoves, StampIsLeader
<1>9. Timely => KeyedOnce'
    BY DEF RunInv, KeyedOnce, Of
<1> QED BY <1>1, <1>2, <1>3, <1>4, <1>5, <1>6, <1>7, <1>8, <1>9 DEF RunInv

(* A leader handles a request.                                              *)
LEMMA HandleKeeps ==
    ASSUME BridgeInv, RunInv, NEW f \in frames, Handle(f)
    PROVE  BridgeInv' /\ RunInv'
<1> USE CallAssumption, LimitAssumption, LeaderAssumption, TypeParts
    DEF BridgeInv, Handle, Reaches, leader, wire, link, intake, tracked, clock, client
<1>1. /\ TrackTyped' /\ HandsTyped' /\ ClientTyped' /\ HandsDiffer' /\ StillOpen'
      /\ LeftAlone' /\ LeadersKnown'
    <2>1. TrackTyped' /\ HandsTyped' /\ ClientTyped'
        BY DEF TrackTyped, HandsTyped, ClientTyped
    <2>2. HandsDiffer' /\ StillOpen' /\ LeftAlone' /\ LeadersKnown'
        BY DEF HandsDiffer, Held, Queued, StillOpen, LeftAlone, GivenUp, LeadersKnown
    <2> QED BY <2>1, <2>2
<1>2. StampAgrees'
    BY DEF RunInv, StampAgrees, StampMissesOnlyMoves, StampIsLeader
<1>3. LeadersTyped'
    BY DEF LeadersTyped
<1>4. LinkTyped'
    BY DEF LinkTyped
<1>5. NowhereYet'
    BY DEF LeadersTyped, NowhereYet, Of, Held
<1>6. SessionIsOne'
    BY DEF SessionIsOne
<1>7. NobodyStranded'
    BY DEF NobodyStranded, Resumed, UnderWay, Resumable
<1>8. PlainOnce'
    <2>1. PlainOnce /\ f.call \in Calls /\ runs[f.call] \in Nat
        BY DEF RunInv, LinkTyped, LeadersTyped, Frame
    <2>2. ASSUME NEW c \in Calls \ Tools
          PROVE  /\ \A e, h \in Of(c, frames') : e = h
                 /\ Of(c, frames') # {} => runs'[c] = 0
                 /\ runs'[c] <= 1
        <3>1. CASE c = f.call
            BY <2>1, <3>1 DEF PlainOnce, Of, LeadersTyped
        <3>2. CASE c # f.call
            <4>1. runs'[c] = runs[c] /\ Of(c, frames') = Of(c, frames)
                BY <3>2 DEF Of, LeadersTyped
            <4>2. QED BY <2>1, <4>1 DEF PlainOnce
        <3>3. QED BY <3>1, <3>2
    <2>3. QED BY <2>2 DEF PlainOnce
<1>9. Timely => KeyedOnce'
    <2> SUFFICES ASSUME Timely PROVE KeyedOnce'
        OBVIOUS
    <2>1. KeyedOnce
        BY DEF RunInv
    <2>2. \A h \in frames' : h.call \in Tools \ misled' => h.leader = stamp'[h.call]
        BY <2>1 DEF KeyedOnce
    <2>3. ASSUME NEW c \in Tools \ misled PROVE stamp'[c] \in born' \cup {None}
        BY <2>1 DEF KeyedOnce
    <2>4. ASSUME NEW c \in Tools \ misled, c # f.call
          PROVE  /\ runs'[c] = runs[c] /\ Of(c, frames)' = Of(c, frames)
                 /\ stamp[c] \in alive => slot'[stamp[c]][c] = slot[stamp[c]][c]
        BY <2>4 DEF LeadersTyped, Of
    <2>5. ASSUME NEW c \in Tools \ misled, c = f.call
          PROVE  /\ runs'[c] <= 1
                 /\ runs'[c] = 1 /\ stamp[c] \in alive => slot'[stamp[c]][c] # "no"
        <3>1. /\ f \in Of(c, frames) /\ f.leader = stamp[c] /\ stamp[c] \in alive
              /\ stamp[c] \in Leaders /\ c \in Calls /\ stamp' = stamp
              /\ runs \in [Calls -> Nat]
              /\ slot \in [Leaders -> [Calls -> {"no", "running", "done"}]]
            BY <2>1, <2>5 DEF LeadersTyped, LinkTyped, Of, Frame, KeyedOnce
        <3>2. runs[c] <= 1 /\ (runs[c] = 1 => slot[stamp[c]][c] # "no")
            BY <2>1, <3>1 DEF KeyedOnce
        <3>3. \/ /\ slot[stamp[c]][c] = "no" /\ runs' = [runs EXCEPT ![c] = @ + 1]
                 /\ slot' = [slot EXCEPT ![stamp[c]][c] = "running"]
              \/ slot[stamp[c]][c] # "no" /\ runs' = runs /\ slot' = slot
            BY <2>5, <3>1
        <3> HIDE DEF BridgeInv, Handle
        <3>4. CASE slot[stamp[c]][c] = "no"
            <4>1. /\ runs' = [runs EXCEPT ![c] = @ + 1]
                  /\ slot' = [slot EXCEPT ![stamp[c]][c] = "running"]
                BY <3>3, <3>4
            <4>2. runs[c] = 0
                BY <3>1, <3>2, <3>4
            <4>3. runs'[c] = 1
                BY <3>1, <4>1, <4>2
            <4>4. slot'[stamp[c]] = [slot[stamp[c]] EXCEPT ![c] = "running"]
                BY <3>1, <4>1
            <4>5. slot'[stamp[c]][c] = "running"
                BY <3>1, <4>4
            <4> QED BY <3>1, <4>3, <4>5
        <3>5. CASE slot[stamp[c]][c] # "no"
            BY <3>1, <3>2, <3>3, <3>5
        <3> QED BY <3>4, <3>5
    <2>6. UNCHANGED <<stamp, misled, flight, alive, born>> /\ frames' \subseteq frames
        OBVIOUS
    <2> HIDE DEF BridgeInv, Handle
    <2>7. ASSUME NEW c \in Tools \ misled'
          PROVE  /\ stamp'[c] \in born' \cup {None} /\ runs'[c] <= 1
                 /\ runs'[c] = 1 /\ (c \in flight' \/ Of(c, frames') # {}) /\ stamp'[c] \in alive'
                    => slot'[stamp'[c]][c] # "no"
        <3>1. CASE c = f.call
            BY <2>3, <2>5, <2>6, <2>7, <3>1
        <3>2. CASE c # f.call
            BY <2>1, <2>3, <2>4, <2>6, <2>7, <3>2 DEF KeyedOnce, Of
        <3>3. QED BY <3>1, <3>2
    <2>8. QED BY <2>2, <2>7 DEF KeyedOnce
<1> QED BY <1>1, <1>2, <1>3, <1>4, <1>5, <1>6, <1>7, <1>8, <1>9 DEF RunInv

(* A request on a session that has ended never arrives.                     *)
LEMMA LoseKeeps ==
    ASSUME BridgeInv, RunInv, NEW f \in frames, Lose(f)
    PROVE  BridgeInv' /\ RunInv'
<1> USE CallAssumption, LimitAssumption, LeaderAssumption, TypeParts
    DEF BridgeInv, Lose, client, leader, wire, link, intake, tracked, clock
<1>1. /\ LeadersTyped' /\ TrackTyped' /\ HandsTyped' /\ ClientTyped' /\ HandsDiffer'
      /\ StillOpen' /\ LeftAlone' /\ LeadersKnown'
    BY DEF LeadersTyped, TrackTyped, HandsTyped, ClientTyped, HandsDiffer, Held, Queued,
        StillOpen, LeftAlone, GivenUp, LeadersKnown
<1>2. StampAgrees'
    BY DEF RunInv, StampAgrees, StampMissesOnlyMoves, StampIsLeader
<1>3. LinkTyped'
    BY DEF LinkTyped
<1>4. NowhereYet'
    BY DEF NowhereYet, Of
<1>5. SessionIsOne'
    BY DEF SessionIsOne
<1>6. NobodyStranded'
    BY DEF SessionIsOne, NobodyStranded, UnderWay, Resumable
<1>7. PlainOnce'
    BY DEF RunInv, PlainOnce, Of
<1>8. Timely => KeyedOnce'
    BY DEF RunInv, KeyedOnce, Of
<1> QED BY <1>1, <1>2, <1>3, <1>4, <1>5, <1>6, <1>7, <1>8 DEF RunInv

(* A leader finishes a call.                                                *)
LEMMA FinishKeeps ==
    ASSUME BridgeInv, RunInv, NEW g \in Leaders, NEW c \in Calls, Finish(g, c)
    PROVE  BridgeInv' /\ RunInv'
<1> USE CallAssumption, LimitAssumption, LeaderAssumption, TypeParts
    DEF BridgeInv, Finish, Reaches, leader, wire, link, intake, tracked, clock, client
<1>1. /\ TrackTyped' /\ HandsTyped' /\ ClientTyped' /\ HandsDiffer' /\ NowhereYet'
      /\ StillOpen' /\ LeftAlone' /\ LeadersKnown'
    BY DEF TrackTyped, HandsTyped, ClientTyped, HandsDiffer, Held, Queued, NowhereYet, StillOpen,
        LeftAlone, GivenUp, LeadersKnown
<1>2. PlainOnce' /\ StampAgrees'
    BY DEF RunInv, PlainOnce, StampAgrees, StampMissesOnlyMoves, StampIsLeader
<1>3. LeadersTyped'
    BY DEF LeadersTyped
<1>4. LinkTyped'
    BY DEF LinkTyped
<1>5. SessionIsOne'
    BY DEF SessionIsOne
<1>6. NobodyStranded'
    BY DEF NobodyStranded, Resumed, UnderWay, Resumable
<1>7. Timely => KeyedOnce'
    BY DEF RunInv, KeyedOnce
<1> QED BY <1>1, <1>2, <1>3, <1>4, <1>5, <1>6, <1>7 DEF RunInv

(* A leader's kept result expires.                                          *)
LEMMA ForgetKeeps ==
    ASSUME BridgeInv, RunInv, NEW g \in Leaders, NEW c \in Calls, Forget(g, c)
    PROVE  BridgeInv' /\ RunInv'
<1> USE CallAssumption, LimitAssumption, LeaderAssumption, TypeParts
    DEF BridgeInv, Forget, client, leader, wire, link, intake, tracked, clock
<1>1. /\ LinkTyped' /\ TrackTyped' /\ HandsTyped' /\ ClientTyped' /\ HandsDiffer'
      /\ NowhereYet' /\ StillOpen' /\ LeftAlone' /\ LeadersKnown' /\ SessionIsOne'
      /\ NobodyStranded'
    <2>1. LinkTyped' /\ TrackTyped' /\ HandsTyped' /\ ClientTyped'
        BY DEF LinkTyped, TrackTyped, HandsTyped, ClientTyped
    <2>2. HandsDiffer' /\ NowhereYet' /\ StillOpen' /\ LeftAlone'
        BY DEF HandsDiffer, Held, Queued, NowhereYet, StillOpen, LeftAlone, GivenUp
    <2>3. LeadersKnown' /\ SessionIsOne' /\ NobodyStranded'
        BY DEF LeadersKnown, SessionIsOne, NobodyStranded, UnderWay, Resumable
    <2> QED BY <2>1, <2>2, <2>3
<1>2. PlainOnce' /\ StampAgrees'
    BY DEF RunInv, PlainOnce, StampAgrees, StampMissesOnlyMoves, StampIsLeader
<1>3. LeadersTyped'
    BY DEF LeadersTyped
<1>4. Timely => KeyedOnce'
    BY DEF RunInv, KeyedOnce, Of
<1> QED BY <1>1, <1>2, <1>3, <1>4 DEF RunInv

-----------------------------------------------------------------------------
(* What the specification keeps.                                            *)
LEMMA BridgeStarts == Init => BridgeInv /\ RunInv
<1> SUFFICES ASSUME Init PROVE BridgeInv /\ RunInv
    OBVIOUS
<1> USE CallAssumption, LimitAssumption, LeaderAssumption DEF Init
<1>1. Queued = {} /\ IsInjective(queue) /\ queue \in Seq(Calls)
    BY DEF Queued, ToSet, IsInjective
<1>2. BridgeTypeOK
    <2>1. slot \in [Leaders -> [Calls -> {"no", "running", "done"}]] /\ runs \in [Calls -> Nat]
        OBVIOUS
    <2>q. LeadersTyped
        BY <2>1 DEF LeadersTyped, MaybeLeader
    <2>a. session \in 0..MaxSessions
        BY SMT
    <2>b. moved \in BOOLEAN /\ broken \in BOOLEAN /\ writer \in BOOLEAN
        BY Zenon
    <2>r. LinkTyped
        BY <2>a, <2>b DEF LinkTyped, MaybeLeader
    <2>2. TrackTyped /\ HandsTyped
        BY <1>1 DEF TrackTyped, HandsTyped, MaybeLeader, Queued
    <2>3. ClientTyped
        BY DEF ClientTyped, Verdicts
    <2>4. QED BY <2>q, <2>r, <2>2, <2>3, TypeParts
<1>3. HandsDiffer /\ NowhereYet /\ StillOpen /\ LeftAlone
    BY <1>1 DEF HandsDiffer, NowhereYet, StillOpen, LeftAlone, Held, Of
<1>4. LeadersKnown /\ SessionIsOne /\ NobodyStranded
    BY DEF LeadersKnown, SessionIsOne, NobodyStranded, Resumed
<1>5. RunInv
    BY DEF RunInv, PlainOnce, StampAgrees, StampMissesOnlyMoves, StampIsLeader, KeyedOnce, Of
<1> QED BY <1>2, <1>3, <1>4, <1>5 DEF BridgeInv

(* Every step keeps the two invariants.                                     *)
LEMMA BridgeSteps == BridgeInv /\ RunInv /\ [Next]_vars => BridgeInv' /\ RunInv'
<1> SUFFICES ASSUME BridgeInv, RunInv, [Next]_vars PROVE BridgeInv' /\ RunInv'
    OBVIOUS
<1>1. ASSUME NEW c \in Calls, Send(c) \/ Cancel(c) PROVE BridgeInv' /\ RunInv'
    BY <1>1, SendKeeps, CancelKeeps
<1>2. ASSUME Drain \/ WriterAppears \/ WaitRunsOut PROVE BridgeInv' /\ RunInv'
    BY <1>2, DrainKeeps, WriterAppearsKeeps, WaitRunsOutKeeps
<1>3. ASSUME Dial \/ Stamp \/ Handshake \/ Publish \/ Break \/ EndSession
      PROVE  BridgeInv' /\ RunInv'
    BY <1>3, DialKeeps, StampKeeps, HandshakeKeeps, PublishKeeps, BreakKeeps, EndSessionKeeps
<1>4. ASSUME NEW c \in Calls, Resume(c) \/ Deadline(c) \/ Progress(c) \/ Sweep(c) \/ SweepOn(c)
      PROVE  BridgeInv' /\ RunInv'
    BY <1>4, ResumeKeeps, DeadlineKeeps, ProgressKeeps, SweepKeeps, SweepOnKeeps
<1>5. ASSUME NEW r \in replies, Read(r) PROVE BridgeInv' /\ RunInv'
    BY <1>5, ReadKeeps
<1>6. ASSUME NEW g \in Leaders, Elect(g) \/ Die(g) PROVE BridgeInv' /\ RunInv'
    BY <1>6, ElectKeeps, DieKeeps
<1>7. ASSUME NEW f \in frames, Handle(f) \/ Lose(f) PROVE BridgeInv' /\ RunInv'
    BY <1>7, HandleKeeps, LoseKeeps
<1>8. ASSUME NEW g \in Leaders, NEW c \in Calls, Finish(g, c) \/ Forget(g, c)
      PROVE  BridgeInv' /\ RunInv'
    BY <1>8, FinishKeeps, ForgetKeeps
<1>9. ASSUME UNCHANGED vars PROVE BridgeInv' /\ RunInv'
    BY <1>9, StandingStillKeeps
<1> QED BY <1>1, <1>2, <1>3, <1>4, <1>5, <1>6, <1>7, <1>8, <1>9 DEF Next

(* The bridge, its leaders and the wire between them keep their invariant:  *)
(* a call is in one hand at a time, open as long as a hand has it, and on   *)
(* the wire or waiting for the next session while it is in flight.          *)
THEOREM BridgeInvariant == Spec => [](BridgeInv /\ RunInv)
<1> QED BY BridgeStarts, BridgeSteps, PTL DEF Spec

(* The states are well formed: in particular no call is both with the       *)
(* intake and in flight.                                                    *)
THEOREM BridgeTypeCorrect == Spec => []BridgeTypeOK
<1>1. BridgeInv => BridgeTypeOK
    BY DEF BridgeInv
<1> QED BY <1>1, BridgeInvariant, PTL

(* A request has one response, whatever becomes of its sessions, its        *)
(* deadline and its leaders: the answers of fail_or_mark_for_resume, the    *)
(* watchdog, resume_in_flight, the intake and the reader exclude each other.*)
THEOREM BridgeAnswersOnce == Spec => []OneAnswer
<1>1. BridgeInv => OneAnswer
    BY DEF BridgeInv, StillOpen, OneAnswer
<1> QED BY <1>1, BridgeInvariant, PTL

(* What the bridge gave up on has gone nowhere, so the advice to retry it   *)
(* is safe; what it waits for on a session that is up is under way there.   *)
THEOREM BridgeAccounts == Spec => []CallsAccounted
<1>1. BridgeInv => RetryIsSafe
    BY DEF BridgeInv, LeftAlone, NowhereYet, GivenUp, Of, RetryIsSafe
<1>2. BridgeInv => NoneStranded
    BY DEF BridgeInv, NobodyStranded, NoneStranded, UnderWay, Resumed
<1>3. BridgeInv => CallsAccounted
    BY <1>1, <1>2 DEF CallsAccounted
<1> QED BY <1>3, BridgeInvariant, PTL

(* However many leaders there are, and whenever they are elected and die:   *)
(* the identity stamped on a session's calls is that of its leader unless   *)
(* the lockfile changed hands between the look that gave the connection its *)
(* token and the look that gave it that identity.                           *)
THEOREM StampsAreTrue == Spec => []StampMissesOnlyMoves
<1>1. RunInv => StampMissesOnlyMoves
    BY DEF RunInv, StampAgrees
<1> QED BY <1>1, BridgeInvariant, PTL

(* A call is run at most once and answered at most once, however often it   *)
(* is re-sent, its session reset and its leader replaced or superseded, as  *)
(* long as it is re-sent before its slot expires and was never sent on a    *)
(* connection whose stamp was overtaken.                                    *)
THEOREM CallsRunOnce == ASSUME Timely PROVE Spec => []OnceEach
<1>1. BridgeInv /\ RunInv => OnceUnlessMisled
    BY DEF RunInv, PlainOnce, KeyedOnce, OnceUnlessMisled
<1>2. BridgeInv => OneAnswer /\ BridgeTypeOK
    BY DEF BridgeInv, StillOpen, OneAnswer
<1>3. BridgeInv /\ RunInv => OnceEach
    BY <1>1, <1>2 DEF OnceEach
<1> QED BY <1>3, BridgeInvariant, PTL

(* A step answers a cancelled call, or sends it, never: forget_in_flight    *)
(* and the withdrawals leave nothing that could.                            *)
LEMMA CancelledStays ==
    ASSUME BridgeInv, [Next]_vars, NEW c \in cancelled
    PROVE  answers'[c] = answers[c] /\ \A f \in frames' \ frames : f.call # c
<1> USE CallAssumption, TypeParts DEF BridgeInv
<1>1. /\ c \in Calls /\ c \in sent /\ c \notin flight /\ c # waiting
      /\ c \in ToSet(queue) => c \in withdrawn
    BY DEF LeftAlone, ClientTyped, Queued
<1>2. answers \in [Calls -> Nat] /\ frames \subseteq Frame
    BY DEF ClientTyped, LinkTyped
<1>3. ASSUME NEW cs, NEW v \in Verdicts, Tell(cs, v), c \notin cs PROVE answers'[c] = answers[c]
    BY <1>1, <1>3, Told
<1>4. ASSUME NEW d \in Calls, Forward(d), d # c
      PROVE  answers'[c] = answers[c] /\ \A f \in frames' \ frames : f.call # c
    <2>1. \/ frames' = frames
          \/ frames' = frames \cup {[call |-> d, session |-> session, leader |-> dialed]}
        BY <1>4 DEF Forward, Transmit
    <2>2. answers' = answers \/ Tell({e \in flight \cup {d} : ~Resumable(e)}, "failed")
        BY <1>4 DEF Forward, FailOrMark, client
    <2>3. answers'[c] = answers[c]
        BY <2>2, <1>1, <1>3, <1>4 DEF Verdicts
    <2> QED BY <2>1, <2>3, <1>4
<1>5. ASSUME NEW d \in Calls, Send(d) \/ Cancel(d)
      PROVE  answers'[c] = answers[c] /\ \A f \in frames' \ frames : f.call # c
    BY <1>1, <1>2, <1>5 DEF Send, Cancel, wire
<1>6. ASSUME Drain
      PROVE  answers'[c] = answers[c] /\ \A f \in frames' \ frames : f.call # c
    <2>1. Head(queue) \in Calls /\ Head(queue) \in ToSet(queue)
        BY <1>6, QueueTail DEF Drain, HandsTyped, HandsDiffer
    <2>2. CASE ~Skipped(Head(queue)) /\ Forward(Head(queue))
        BY <1>1, <1>4, <2>1, <2>2 DEF Skipped
    <2>3. CASE UNCHANGED <<frames, answers>>
        BY <2>3
    <2> QED BY <1>6, <2>2, <2>3 DEF Drain, wire, client
<1>7. ASSUME WriterAppears
      PROVE  answers'[c] = answers[c] /\ \A f \in frames' \ frames : f.call # c
    BY <1>1, <1>4, <1>7 DEF WriterAppears, HandsTyped
<1>8. ASSUME WaitRunsOut
      PROVE  answers'[c] = answers[c] /\ \A f \in frames' \ frames : f.call # c
    BY <1>1, <1>3, <1>8 DEF WaitRunsOut, wire, Verdicts
<1>9. ASSUME Dial \/ Stamp \/ Handshake \/ Publish \/ Break
      PROVE  answers'[c] = answers[c] /\ \A f \in frames' \ frames : f.call # c
    BY <1>9 DEF Dial, Stamp, Handshake, Publish, Break, wire, client
<1>10. ASSUME EndSession
       PROVE  answers'[c] = answers[c] /\ \A f \in frames' \ frames : f.call # c
    BY <1>1, <1>3, <1>10 DEF EndSession, FailOrMark, Verdicts
<1>11. ASSUME NEW d \in Calls, Resume(d)
       PROVE  answers'[c] = answers[c] /\ \A f \in frames' \ frames : f.call # c
    <2>1. CASE d \notin flight
        BY <1>11, <2>1 DEF Resume, client
    <2>2. CASE d \in flight
        <3>1. UNCHANGED client \/ Tell({d}, "unknown")
            BY <1>11, Zenon DEF Resume
        <3>2. answers'[c] = answers[c]
            BY <2>2, <3>1, <1>1, <1>3 DEF Verdicts, client
        <3>3. \/ frames' = frames
              \/ frames' = frames \cup {[call |-> d, session |-> session, leader |-> dialed]}
            <4>1. \/ UNCHANGED frames
                  \/ IF broken THEN toResume' = {} /\ UNCHANGED <<frames, delivered, misled>>
                     ELSE toResume' = toResume \ {d} /\ Transmit(d)
                BY <1>11 DEF Resume
            <4>2. QED BY <4>1 DEF Transmit
        <3>4. QED BY <2>2, <3>2, <3>3, <1>1
    <2>3. QED BY <2>1, <2>2
<1>12. ASSUME NEW d \in Calls, Deadline(d) \/ Progress(d)
       PROVE  answers'[c] = answers[c] /\ \A f \in frames' \ frames : f.call # c
    BY <1>12 DEF Deadline, Progress, wire, client
<1>13. ASSUME NEW d \in Calls, Sweep(d) \/ SweepOn(d)
       PROVE  answers'[c] = answers[c] /\ \A f \in frames' \ frames : f.call # c
    <2>1. frames' = frames
        BY <1>13 DEF Sweep, SweepOn, Expire, wire
    <2>2. UNCHANGED client \/ (d \in flight \cup late /\ Tell({d}, "timeout"))
        BY <1>13 DEF Sweep, SweepOn, Expire
    <2>3. answers'[c] = answers[c]
        BY <2>2, <1>1, <1>3 DEF Verdicts, client, TrackTyped
    <2> QED BY <2>1, <2>3
<1>14. ASSUME NEW r \in replies, Read(r)
       PROVE  answers'[c] = answers[c] /\ \A f \in frames' \ frames : f.call # c
    <2>1. frames' = frames
        BY <1>14 DEF Read
    <2>2. UNCHANGED client \/ (r.call \in flight /\ Tell({r.call}, "answered"))
        BY <1>14 DEF Read, Settles
    <2>3. answers'[c] = answers[c]
        BY <2>2, <1>1, <1>3 DEF Verdicts, client
    <2> QED BY <2>1, <2>3
<1>15. ASSUME NEW g \in Leaders, Elect(g) \/ Die(g)
       PROVE  answers'[c] = answers[c] /\ \A f \in frames' \ frames : f.call # c
    BY <1>15 DEF Elect, Die, wire, client
<1>16. ASSUME NEW f \in frames, Handle(f) \/ Lose(f)
       PROVE  answers'[c] = answers[c] /\ \A h \in frames' \ frames : h.call # c
    BY <1>16 DEF Handle, Lose, client
<1>17. ASSUME NEW g \in Leaders, NEW d \in Calls, Finish(g, d) \/ Forget(g, d)
       PROVE  answers'[c] = answers[c] /\ \A f \in frames' \ frames : f.call # c
    BY <1>17 DEF Finish, Forget, wire, client
<1>18. ASSUME UNCHANGED vars
       PROVE  answers'[c] = answers[c] /\ \A f \in frames' \ frames : f.call # c
    BY <1>18 DEF vars
<1> QED
    BY <1>5, <1>6, <1>7, <1>8, <1>9, <1>10, <1>11, <1>12, <1>13, <1>14, <1>15, <1>16, <1>17,
       <1>18 DEF Next

(* forget_in_flight, _withdraw and _drain: after a cancellation, no answer, *)
(* no timeout error and no re-send.                                         *)
THEOREM CancelledStaysSilent == Spec => CancelledIsSilent
<1>1. BridgeInv /\ RunInv /\ [Next]_vars =>
          [\A c \in cancelled : answers'[c] = answers[c] /\ \A f \in frames' \ frames : f.call # c]_vars
    BY CancelledStays
<1> QED BY <1>1, BridgeInvariant, PTL DEF Spec, CancelledIsSilent

=============================================================================
