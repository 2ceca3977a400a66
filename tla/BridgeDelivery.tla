--------------------------- MODULE BridgeDelivery ---------------------------
(***************************************************************************)
(* How a client's calls get through the follower's bridge to a leader:      *)
(* proxy_intake, proxy_supervisor and the reconnect loop of proxy_runtime.  *)
(*                                                                         *)
(* A reader queues the client's calls; one sender forwards them in order on *)
(* the published writer, and tracks them as in flight.  When the session    *)
(* with the leader ends, calls that carry an idempotency key stay in flight *)
(* and are sent again on the next session, if it is with the leader they    *)
(* were delivered to; the others fail.  A watchdog answers a call whose     *)
(* deadline passes, and resets the session.  The client may cancel a call   *)
(* wherever it is.  Leaders are separate processes that die and are         *)
(* replaced; the lockfile names the latest, and the bridge reads it twice   *)
(* per connection: for the token it presents and for the identity it stamps *)
(* on the calls it sends.                                                   *)
(*                                                                         *)
(* On the leader a key's slot keeps RunOnce's promise, which                *)
(* IdempotencyCache implements.  Left out: notifications, the handshake's   *)
(* own contents, pings, the calls answered before a leader is elected, the  *)
(* inline leader, and the follower's exit when its leader is gone for good. *)
(***************************************************************************)
EXTENDS Integers, Sequences, FiniteSets, SequencesExt

CONSTANTS
    Calls,        \* the client's requests
    Tools,        \* the tools/call ones among them: they carry a key
    Leaders,      \* leader processes, in the order they are elected
    First,        \* the leader elected before the bridge starts
    None,
    MaxAttempts,  \* BRIDGE_RESUME_MAX_ATTEMPTS
    MaxPending,   \* MAX_PENDING_FRAMES
    MaxSessions,  \* bound: sessions the bridge opens
    Timely        \* a call is re-sent before its slot's TTL and window end

ASSUME CallAssumption == Tools \subseteq Calls /\ None \notin Calls \cup Leaders
ASSUME LeaderAssumption == First \in Leaders
ASSUME LimitAssumption ==
    /\ MaxAttempts \in Nat /\ MaxPending \in Nat /\ MaxSessions \in Nat
    /\ Timely \in BOOLEAN

VARIABLES
    \* the leaders
    lock,        \* the leader the lockfile names
    alive,       \* leaders running
    born,        \* leaders ever started
    slot,        \* each leader's cache: per call "no", "running", "done"
    runs,        \* how often each call's handler was started (history)
    \* between the two
    frames,      \* requests sent and not yet handled: [call, session, leader]
    joined,      \* requests waiting on a leader for their run to end
    replies,     \* responses on the current session, not yet read
    \* the bridge's connection
    phase,       \* where _remote_supervisor is
    session,     \* sessions opened so far: the current one's number
    dialed,      \* the leader whose URL and token this connection uses
    generation,  \* leader_generation
    moved,       \* the lockfile changed hands between the two looks at it (history)
    broken,      \* the session's transport has ended
    writer,      \* remote_write_slot.write is published
    toResume,    \* resume_in_flight's snapshot, what is left of it
    \* the bridge's calls
    queue,       \* the intake's stream
    withdrawn,   \* _withdrawn
    waiting,     \* the call whose forward waits for a writer
    flight,      \* _in_flight
    stamp,       \* InFlightRequest.leader_generation
    delivered,   \* InFlightRequest.delivered
    resumes,     \* InFlightRequest.resume_count
    misled,      \* tool calls sent on a connection that is `moved` (history)
    late,        \* calls whose deadline has passed
    expiring,    \* _expire_overdue's snapshot, what is left of it
    \* the client
    sent, cancelled,
    answers,     \* responses the client got for each call (history)
    verdict      \* what the last of them, or the cancellation, came to

leader == <<lock, alive, born, slot, runs>>
wire == <<frames, joined, replies>>
link == <<phase, session, dialed, generation, moved, broken, writer, toResume>>
intake == <<queue, withdrawn, waiting>>
tracked == <<flight, stamp, delivered, resumes, misled>>
clock == <<late, expiring>>
client == <<sent, cancelled, answers, verdict>>
vars == <<lock, alive, born, slot, runs, frames, joined, replies, phase, session,
          dialed, generation, moved, broken, writer, toResume, queue, withdrawn,
          waiting, flight, stamp, delivered, resumes, misled, late, expiring, sent,
          cancelled, answers, verdict>>

Frame == [call : Calls, session : 1..MaxSessions, leader : Leaders]
MaybeLeader == Leaders \cup {None}

(* The leaders, the wire and the bridge range over the values the code      *)
(* gives them; a call is in at most one of the bridge's hands.              *)
BridgeTypeOK ==
    /\ lock \in MaybeLeader /\ alive \subseteq born /\ born \subseteq Leaders
    /\ slot \in [Leaders -> [Calls -> {"no", "running", "done"}]]
    /\ runs \in [Calls -> Nat]
    /\ frames \subseteq Frame /\ joined \subseteq Frame /\ replies \subseteq Frame
    /\ phase \in {"down", "dialing", "stamped", "resuming", "live"}
    /\ session \in 0..MaxSessions
    /\ dialed \in MaybeLeader /\ generation \in MaybeLeader
    /\ moved \in BOOLEAN /\ broken \in BOOLEAN /\ writer \in BOOLEAN
    /\ toResume \subseteq Calls
    /\ queue \in Seq(Calls) /\ withdrawn \subseteq ToSet(queue)
    /\ waiting \in Calls \cup {None}
    /\ flight \subseteq Calls /\ delivered \subseteq Calls /\ misled \subseteq Calls
    /\ stamp \in [Calls -> MaybeLeader]
    /\ resumes \in [Calls -> 0..MaxAttempts]
    /\ late \subseteq flight /\ expiring \subseteq Calls
    /\ cancelled \subseteq sent /\ sent \subseteq Calls
    /\ answers \in [Calls -> Nat]
    /\ verdict \in [Calls -> {"none", "answered", "timeout", "failed", "unknown",
                              "unavailable", "refused", "withdrawn", "forgotten"}]
    /\ ToSet(queue) \cap flight = {} /\ waiting \notin flight \cup ToSet(queue)

Init ==
    /\ lock = First /\ alive = {First} /\ born = {First}
    /\ slot = [g \in Leaders |-> [c \in Calls |-> "no"]]
    /\ runs = [c \in Calls |-> 0]
    /\ frames = {} /\ joined = {} /\ replies = {}
    /\ phase = "down" /\ session = 0 /\ dialed = None /\ generation = None
    /\ moved = FALSE /\ broken = FALSE /\ writer = FALSE /\ toResume = {}
    /\ queue = <<>> /\ withdrawn = {} /\ waiting = None
    /\ flight = {} /\ stamp = [c \in Calls |-> None]
    /\ delivered = {} /\ resumes = [c \in Calls |-> 0] /\ misled = {}
    /\ late = {} /\ expiring = {}
    /\ sent = {} /\ cancelled = {}
    /\ answers = [c \in Calls |-> 0]
    /\ verdict = [c \in Calls |-> "none"]

-----------------------------------------------------------------------------
(* Answers to the client.                                                  *)

Tell(cs, v) ==
    /\ answers' = [c \in Calls |-> IF c \in cs THEN answers[c] + 1 ELSE answers[c]]
    /\ verdict' = [c \in Calls |-> IF c \in cs THEN v ELSE verdict[c]]
    /\ UNCHANGED <<sent, cancelled>>

(* _is_resumable                                                           *)
Resumable(c) == c \in Tools /\ resumes[c] < MaxAttempts

(* fail_or_mark_for_resume: of the calls `cs` in flight, those that cannot  *)
(* be sent again are answered with an error.                                *)
FailOrMark(cs) ==
    /\ flight' = {c \in cs : Resumable(c)}
    /\ late' = late \cap flight'
    /\ Tell({c \in cs : ~Resumable(c)}, "failed")

(* The call leaves _in_flight.                                              *)
Drop(c) ==
    /\ flight' = flight \ {c} /\ late' = late \ {c}
    /\ UNCHANGED <<stamp, delivered, resumes, misled>>

-----------------------------------------------------------------------------
(* The client and the intake.                                              *)

Pending == Len(queue) + (IF waiting = None THEN 0 ELSE 1)

(* LocalIntake.accept                                                      *)
Send(c) ==
    /\ c \notin sent
    /\ sent' = sent \cup {c}
    /\ IF Pending < MaxPending
       THEN queue' = Append(queue, c) /\ UNCHANGED <<answers, verdict>>
       ELSE /\ answers' = [answers EXCEPT ![c] = @ + 1]
            /\ verdict' = [verdict EXCEPT ![c] = "refused"]
            /\ UNCHANGED queue
    /\ UNCHANGED <<leader, wire, link, withdrawn, waiting, tracked, clock, cancelled>>

(* LocalIntake._withdraw: a call no leader has seen goes nowhere.           *)
WithdrawQueued(c) ==
    /\ c \in ToSet(queue)
    /\ withdrawn' = withdrawn \cup {c}
    /\ verdict' = [verdict EXCEPT ![c] = "withdrawn"]
    /\ UNCHANGED <<waiting, tracked, late>>

WithdrawWaiting(c) ==
    /\ c = waiting
    /\ waiting' = None
    /\ verdict' = [verdict EXCEPT ![c] = "withdrawn"]
    /\ UNCHANGED <<withdrawn, tracked, late>>

(* Mutant of ForgetInFlight: the call stays tracked.                        *)
ForgetNothing(c) ==
    /\ c \notin ToSet(queue) /\ c # waiting
    /\ verdict' = [verdict EXCEPT ![c] = "forgotten"]
    /\ UNCHANGED <<withdrawn, waiting, tracked, late>>

(* forget_in_flight: a leader may have the call; stop tracking it.          *)
ForgetInFlight(c) ==
    /\ c \notin ToSet(queue) /\ c # waiting
    /\ Drop(c)
    /\ verdict' = [verdict EXCEPT ![c] = "forgotten"]
    /\ UNCHANGED <<withdrawn, waiting>>

Cancel(c) ==
    /\ c \in sent \ cancelled /\ answers[c] = 0
    /\ cancelled' = cancelled \cup {c}
    /\ WithdrawQueued(c) \/ WithdrawWaiting(c) \/ ForgetInFlight(c)
    /\ UNCHANGED <<leader, wire, link, queue, expiring, sent, answers>>

(* The call goes out on the session.                                        *)
Transmit(c) ==
    /\ delivered' = delivered \cup {c}
    /\ frames' = frames \cup {[call |-> c, session |-> session, leader |-> dialed]}
    /\ misled' = IF moved /\ c \in Tools THEN misled \cup {c} ELSE misled

(* forward_one_local_message, the writer in hand: track the call and send   *)
(* it.  A send on an ended transport raises; _handle_forward_failure takes  *)
(* the writer back and fails what cannot be sent again.                     *)
Forward(c) ==
    /\ writer
    /\ stamp' = [stamp EXCEPT ![c] = generation]
    /\ \/ /\ ~broken
          /\ flight' = flight \cup {c}
          /\ Transmit(c)
          /\ UNCHANGED <<writer, late, client>>
       \/ /\ broken
          /\ writer' = FALSE
          /\ FailOrMark(flight \cup {c})
          /\ UNCHANGED <<delivered, frames, misled>>
    /\ UNCHANGED <<leader, joined, replies, phase, session, dialed, generation,
                   moved, broken, toResume, resumes, expiring>>

(* Mutant of Skipped: a withdrawal comes too late for a queued call.        *)
SkippedNever(c) == FALSE

Skipped(c) == c \in withdrawn

(* LocalIntake._drain takes the next call: a withdrawn one is skipped, the  *)
(* others are forwarded, or wait for a writer.                              *)
Drain ==
    /\ waiting = None /\ queue # <<>>
    /\ queue' = Tail(queue)
    /\ withdrawn' = withdrawn \ {Head(queue)}
    /\ \/ /\ Skipped(Head(queue))
          /\ UNCHANGED <<leader, wire, link, waiting, tracked, clock, client>>
       \/ /\ ~Skipped(Head(queue))
          /\ Forward(Head(queue))
          /\ UNCHANGED waiting
       \/ /\ ~Skipped(Head(queue)) /\ ~writer
          /\ waiting' = Head(queue)
          /\ UNCHANGED <<leader, wire, link, tracked, clock, client>>

(* The wait for a writer is over.                                          *)
WriterAppears ==
    /\ waiting # None
    /\ Forward(waiting)
    /\ waiting' = None
    /\ UNCHANGED <<queue, withdrawn>>

(* Mutant of WaitRunsOut: the wait ends without an answer.                  *)
WaitRunsOutQuietly ==
    /\ waiting # None /\ ~writer
    /\ waiting' = None
    /\ UNCHANGED <<leader, wire, link, queue, withdrawn, tracked, clock, client>>

(* _answer_without_leader                                                  *)
WaitRunsOut ==
    /\ waiting # None /\ ~writer
    /\ waiting' = None
    /\ Tell({waiting}, "unavailable")
    /\ UNCHANGED <<leader, wire, link, queue, withdrawn, tracked, clock>>

-----------------------------------------------------------------------------
(* The connection.                                                         *)

(* The leader the lockfile names, unless its process is gone.               *)
Named == IF lock \in alive THEN lock ELSE None

(* resolve_leader_url and resolve_leader_token.  Without a live leader in   *)
(* the lockfile there is no token, and every leader refuses the connection. *)
Dial ==
    /\ phase = "down" /\ session < MaxSessions
    /\ Named # None
    /\ dialed' = Named
    /\ phase' = "dialing"
    /\ UNCHANGED <<leader, wire, session, generation, moved, broken, writer, toResume,
                   intake, tracked, clock, client>>

(* Mutant of Stamp: the identity is resolved for the first connection only. *)
StampOnce ==
    /\ phase = "dialing"
    /\ generation' = IF generation = None THEN Named ELSE generation
    /\ phase' = "stamped"
    /\ UNCHANGED <<leader, wire, session, dialed, moved, broken, writer, toResume,
                   intake, tracked, clock, client>>

(* resolve_leader_generation, a second look at the lockfile.                *)
Stamp ==
    /\ phase = "dialing"
    /\ generation' = Named
    /\ phase' = "stamped"
    /\ UNCHANGED <<leader, wire, session, dialed, moved, broken, writer, toResume,
                   intake, tracked, clock, client>>

(* replay_initialize is answered by the leader whose token this is.         *)
Handshake ==
    /\ phase = "stamped" /\ dialed \in alive
    /\ phase' = "resuming"
    /\ session' = session + 1
    /\ broken' = FALSE
    /\ toResume' = flight
    /\ UNCHANGED <<leader, wire, dialed, generation, moved, writer, intake, tracked,
                   clock, client>>

(* Mutant of RanElsewhere: the stamp is not compared.                       *)
RanNowhere(c) == FALSE

(* The call was delivered to another leader, and its cache is gone.         *)
RanElsewhere(c) == stamp[c] # generation /\ c \in delivered

(* resume_in_flight, one call.                                             *)
Resume(c) ==
    /\ phase = "resuming" /\ c \in toResume
    /\ \/ /\ c \notin flight \/ ~Resumable(c)
          /\ toResume' = toResume \ {c}
          /\ UNCHANGED <<frames, tracked, late, client>>
       \/ /\ c \in flight /\ Resumable(c) /\ RanElsewhere(c)
          /\ toResume' = toResume \ {c}
          /\ Drop(c) /\ Tell({c}, "unknown")
          /\ UNCHANGED frames
       \/ /\ c \in flight /\ Resumable(c) /\ ~RanElsewhere(c)
          /\ stamp' = [stamp EXCEPT ![c] = generation]
          /\ resumes' = [resumes EXCEPT ![c] = @ + 1]
          /\ late' = late \ {c}
          /\ IF broken
             THEN toResume' = {} /\ UNCHANGED <<frames, delivered, misled>>
             ELSE toResume' = toResume \ {c} /\ Transmit(c)
          /\ UNCHANGED <<flight, client>>
    /\ UNCHANGED <<leader, joined, replies, phase, session, dialed, generation,
                   moved, broken, writer, intake, expiring>>

(* The writer is published, and the reader starts.                         *)
Publish ==
    /\ phase = "resuming" /\ toResume = {}
    /\ phase' = "live"
    /\ writer' = TRUE
    /\ UNCHANGED <<leader, wire, session, dialed, generation, moved, broken, toResume,
                   intake, tracked, clock, client>>

(* The transport ends: the leader closed it, died, or was found unhealthy.  *)
Break ==
    /\ phase \in {"resuming", "live"} /\ ~broken
    /\ broken' = TRUE
    /\ UNCHANGED <<leader, wire, phase, session, dialed, generation, moved, writer,
                   toResume, intake, tracked, clock, client>>

(* _end_remote_session, after a session or a failed connect.  Responses     *)
(* that were not read are lost.                                             *)
EndSession ==
    /\ \/ phase = "live" /\ broken
       \/ phase = "stamped"
    /\ phase' = "down"
    /\ writer' = FALSE /\ moved' = FALSE
    /\ replies' = {}
    /\ FailOrMark(flight)
    /\ UNCHANGED <<leader, frames, joined, session, dialed, generation, broken, toResume,
                   intake, stamp, delivered, resumes, misled, expiring>>

(* _settle_in_flight                                                       *)
Settles(r) == r.call \in flight

(* forward_remote_message: a response settles its call, or is dropped.      *)
Read(r) ==
    /\ phase = "live" /\ r \in replies
    /\ replies' = replies \ {r}
    /\ \/ Settles(r) /\ Drop(r.call) /\ Tell({r.call}, "answered")
       \/ ~Settles(r) /\ UNCHANGED <<tracked, late, client>>
    /\ UNCHANGED <<leader, frames, joined, link, intake, expiring>>

-----------------------------------------------------------------------------
(* The watchdog.                                                           *)

Deadline(c) ==
    /\ c \in flight \ late
    /\ late' = late \cup {c}
    /\ UNCHANGED <<leader, wire, link, intake, tracked, expiring, client>>

(* _forward_progress: the leader's heartbeat for a call that is running.    *)
Progress(c) ==
    /\ phase = "live" /\ ~broken /\ c \in late
    /\ \E f \in joined : f.call = c /\ f.session = session
    /\ late' = late \ {c}
    /\ UNCHANGED <<leader, wire, link, intake, tracked, expiring, client>>

(* Answer an overdue call and reset the session.                            *)
Expire(c) ==
    /\ Drop(c)
    /\ Tell({c}, "timeout")
    /\ broken' = (broken \/ phase = "live")
    /\ UNCHANGED <<leader, wire, phase, session, dialed, generation, moved, writer,
                   toResume, intake>>

(* _expire_overdue collects the overdue calls and answers the first; its    *)
(* write to the client is an await, and so on for the rest.                 *)
Sweep(c) ==
    /\ expiring = {} /\ c \in late
    /\ expiring' = late \ {c}
    /\ Expire(c)

SweepOn(c) ==
    /\ c \in expiring
    /\ expiring' = expiring \ {c}
    /\ \/ c \in flight /\ Expire(c)
       \/ c \notin flight /\ UNCHANGED <<leader, wire, link, intake, tracked, late, client>>

-----------------------------------------------------------------------------
(* The leaders.                                                            *)

(* A leader publishes itself, usually when the last one is gone; one that   *)
(* was only slow to answer the probe serves on.                             *)
Elect(g) ==
    /\ g \notin born
    /\ born' = born \cup {g} /\ alive' = alive \cup {g} /\ lock' = g
    /\ moved' = (moved \/ phase = "dialing")
    /\ UNCHANGED <<slot, runs, wire, phase, session, dialed, generation, broken,
                   writer, toResume, intake, tracked, clock, client>>

(* A leader's cache dies with it; so do the requests it was serving.        *)
Die(g) ==
    /\ g \in alive
    /\ alive' = alive \ {g}
    /\ slot' = [slot EXCEPT ![g] = [c \in Calls |-> "no"]]
    /\ frames' = {f \in frames : f.leader # g}
    /\ joined' = {f \in joined : f.leader # g}
    /\ UNCHANGED <<lock, born, runs, replies, link, intake, tracked, clock, client>>

(* A response reaches the bridge if its session is still the current one.   *)
Reaches(f) == f.session = session /\ phase \in {"resuming", "live"}

(* A request arrives.  A key's first one starts the run; a later one joins  *)
(* it, or is answered from what it left.  A call without a key just runs.   *)
Handle(f) ==
    /\ f \in frames /\ f.leader \in alive
    /\ frames' = frames \ {f}
    /\ \/ /\ f.call \notin Tools
          /\ runs' = [runs EXCEPT ![f.call] = @ + 1]
          /\ replies' = replies \cup {r \in {f} : Reaches(r)}
          /\ UNCHANGED <<slot, joined>>
       \/ /\ f.call \in Tools /\ slot[f.leader][f.call] = "no"
          /\ runs' = [runs EXCEPT ![f.call] = @ + 1]
          /\ slot' = [slot EXCEPT ![f.leader][f.call] = "running"]
          /\ joined' = joined \cup {f}
          /\ UNCHANGED replies
       \/ /\ f.call \in Tools /\ slot[f.leader][f.call] = "running"
          /\ joined' = joined \cup {f}
          /\ UNCHANGED <<slot, runs, replies>>
       \/ /\ f.call \in Tools /\ slot[f.leader][f.call] = "done"
          /\ replies' = replies \cup {r \in {f} : Reaches(r)}
          /\ UNCHANGED <<slot, runs, joined>>
    /\ UNCHANGED <<lock, alive, born, link, intake, tracked, clock, client>>

Finish(g, c) ==
    /\ slot[g][c] = "running"
    /\ slot' = [slot EXCEPT ![g][c] = "done"]
    /\ LET mine == {f \in joined : f.leader = g /\ f.call = c} IN
       /\ joined' = joined \ mine
       /\ replies' = replies \cup {f \in mine : Reaches(f)}
    /\ UNCHANGED <<lock, alive, born, runs, frames, link, intake, tracked, clock, client>>

(* The slot's TTL, or the window in which a full cache keeps it, is over.   *)
Forget(g, c) ==
    /\ slot[g][c] = "done"
    /\ Timely => c \notin flight /\ \A f \in frames : f.call # c
    /\ slot' = [slot EXCEPT ![g][c] = "no"]
    /\ UNCHANGED <<lock, alive, born, runs, wire, link, intake, tracked, clock, client>>

(* A request on a session that has ended, or to a process that is gone, may *)
(* never arrive.                                                            *)
Lose(f) ==
    /\ f \in frames
    /\ f.session # session \/ broken \/ f.leader \notin alive
    /\ frames' = frames \ {f}
    /\ UNCHANGED <<leader, joined, replies, link, intake, tracked, clock, client>>

-----------------------------------------------------------------------------
Next ==
    \/ \E c \in Calls : Send(c) \/ Cancel(c)
    \/ Drain \/ WriterAppears \/ WaitRunsOut
    \/ Dial \/ Stamp \/ Handshake \/ Publish \/ Break \/ EndSession
    \/ \E c \in Calls : Resume(c) \/ Deadline(c) \/ Progress(c) \/ Sweep(c) \/ SweepOn(c)
    \/ \E r \in replies : Read(r)
    \/ \E g \in Leaders : Elect(g) \/ Die(g)
    \/ \E f \in frames : Handle(f) \/ Lose(f)
    \/ \E g \in Leaders, c \in Calls : Finish(g, c) \/ Forget(g, c)

Spec == Init /\ [][Next]_vars

(* The bridge's tasks run, its timers fire, and a handler ends (or its      *)
(* heartbeat does, at HEARTBEAT_MAX_SECONDS).  The client, the network and  *)
(* the leaders' lives are free.                                             *)
FairSpec ==
    /\ Spec
    /\ WF_vars(Drain) /\ WF_vars(WriterAppears) /\ WF_vars(WaitRunsOut)
    /\ WF_vars(Publish) /\ WF_vars(EndSession)
    /\ \A c \in Calls :
          WF_vars(Resume(c)) /\ WF_vars(Deadline(c)) /\ WF_vars(Sweep(c)) /\ WF_vars(SweepOn(c))
    /\ \A g \in Leaders, c \in Calls : WF_vars(Finish(g, c))

-----------------------------------------------------------------------------
(* "At most once": a handler is started once for its call, over all         *)
(* deliveries, sessions and leaders.                                        *)
AtMostOnce == \A c \in Calls : runs[c] <= 1

(* So it is for every call but those sent on a connection for which the     *)
(* lockfile changed hands between the two looks at it, which are stamped    *)
(* with a leader that does not have them (proxy_runtime.py).                *)
OnceUnlessMisled == \A c \in Calls \ misled : runs[c] <= 1

(* A request has one response: the answer, the error of a reset, the        *)
(* deadline's and the replaced leader's are never two of them.              *)
OneAnswer == \A c \in Calls : answers[c] <= 1

(* However often a call is re-sent and its leader replaced or superseded,   *)
(* it is run once and answered once.                                        *)
OnceEach == BridgeTypeOK /\ OnceUnlessMisled /\ OneAnswer

(* A call reported as never forwarded, or withdrawn, reaches no leader: the *)
(* advice to retry it is safe.                                              *)
RetryIsSafe ==
    \A c \in Calls :
       verdict[c] \in {"unavailable", "refused", "withdrawn"} =>
          runs[c] = 0 /\ \A f \in frames : f.call # c

(* What a session's calls are stamped with is the leader it is with, also   *)
(* with another leader up: "every call sent on this session is stamped with *)
(* this leader".                                                            *)
StampIsLeader == phase \in {"resuming", "live"} => generation = dialed

(* It is, whatever leaders do before the connection is dialed and after it  *)
(* is stamped: only a change of the lockfile between the two is not seen.   *)
StampMissesOnlyMoves == moved \/ StampIsLeader

(* While a session is up, every call in flight is under way on it: none is  *)
(* left to its deadline by a reconnect that did not re-send it.             *)
NoneStranded ==
    phase = "live" /\ ~broken /\ dialed \in alive =>
       \A c \in flight :
          \E f \in frames \cup joined \cup replies : f.call = c /\ f.session = session

(* The bridge's accounts agree with the wire: what it gave up on has gone   *)
(* nowhere, and what it waits for is under way.                             *)
CallsAccounted == RetryIsSafe /\ NoneStranded

(* forget_in_flight: after a cancellation, no answer, no timeout error and  *)
(* no re-send.                                                              *)
CancelledIsSilent ==
    [][\A c \in cancelled :
          answers'[c] = answers[c] /\ \A f \in frames' \ frames : f.call # c]_vars

(* "Progress means the op is alive, so it shouldn't be killed by the flat   *)
(* timeout": only a call whose deadline has passed is answered for it.      *)
OnlyLateExpire ==
    [][\A c \in Calls :
          verdict'[c] = "timeout" /\ verdict[c] # "timeout" => c \in late]_vars

(* Every call is answered, unless the client cancels it, whatever becomes   *)
(* of the leader.                                                           *)
CallAnswered ==
    \A c \in Calls : c \in sent ~> answers[c] > 0 \/ c \in cancelled
=============================================================================
