-------------------------- MODULE IdempotencyCache --------------------------
(***************************************************************************)
(* The leader's idempotency cache: server/_idempotency.py.                 *)
(*                                                                         *)
(* Every tool call that carries a key goes through one wrapper.  The first  *)
(* caller of a key claims a slot and starts the handler in a task of its    *)
(* own; the callers that come while it runs wait for that slot's event; the *)
(* callers that come later find what the run left.  A caller may be         *)
(* cancelled at any time, its session torn down, without stopping the run.  *)
(*                                                                         *)
(* Keys here are storage keys (method and arguments are hashed in already). *)
(* The wrapper holds `_lock` from the eviction of expired slots to its      *)
(* decision and never awaits under it, so one pass of its loop is a step.   *)
(* Left out: the kill switch, calls without a key, nested calls (inline, no *)
(* slot), slots without a task (only tests make one), and _enforce_bound:   *)
(* WithinBound shows that it never has anything to evict.                   *)
(***************************************************************************)
EXTENDS Integers, FiniteSets

CONSTANTS
    Callers,    \* invocations of the wrapper
    Keys,       \* storage keys
    NoKey,      \* a caller between calls
    Bound,      \* IDEMPOTENCY_MAX_ENTRIES
    Window,     \* _resume_window_seconds, in ticks
    Ttl,        \* IDEMPOTENCY_TTL_SECONDS, in ticks
    Patience    \* IDEMPOTENCY_INPROGRESS_WAIT_SECONDS, in ticks

ASSUME KeyAssumption == NoKey \notin Keys
ASSUME BoundAssumption == Bound \in Nat
ASSUME TimeAssumption ==
    /\ Window \in Nat /\ Ttl \in Nat /\ Patience \in Nat \ {0}
    /\ Window < Ttl     \* defaults.py: the TTL must exceed the resume window

VARIABLES
    slot,      \* what _cache has for each key
    order,     \* _cache's own order: pairs of keys, the less recently touched first
    age,       \* ticks since each entry's done_at, up to Ttl + 1
    pc,        \* where each caller stands in the wrapper
    key,       \* the key each caller's call carries, while it is on
    waited,    \* ticks a caller has waited for an entry's event
    answer,    \* what each caller got
    since      \* ticks since the key's last run ended, evicted or not (history)

cache == <<slot, order, age>>
caller == <<pc, key, waited, answer>>
vars == <<slot, order, age, pc, key, waited, answer, since>>

Endings == {"done", "large", "unknown"}   \* a result, an oversize one, an exception
Old == Ttl + 1

Entries == {k \in Keys : slot[k] # "free"}

(* Slots, callers and clocks range over the values the code gives them, and *)
(* only keys that are in the cache have a place in its order (move_to_end). *)
CacheTypeOK ==
    /\ slot \in [Keys -> {"free", "running"} \cup Endings]
    /\ order \subseteq Entries \X Entries
    /\ age \in [Keys -> 0..Old] /\ since \in [Keys -> 0..Old]
    /\ pc \in [Callers -> {"idle", "calling", "waiting", "woken", "producing", "answered"}]
    /\ key \in [Callers -> Keys \cup {NoKey}]
    /\ waited \in [Callers -> 0..Patience]
    /\ answer \in [Callers -> {"none", "result", "unavailable", "unknown",
                               "capacity", "error", "cancelled"}]
    /\ \A c \in Callers : key[c] = NoKey <=> pc[c] \in {"idle", "answered"}

Init ==
    /\ slot = [k \in Keys |-> "free"] /\ order = {}
    /\ age = [k \in Keys |-> Old] /\ since = [k \in Keys |-> Old]
    /\ pc = [c \in Callers |-> "idle"]
    /\ key = [c \in Callers |-> NoKey]
    /\ waited = [c \in Callers |-> 0]
    /\ answer = [c \in Callers |-> "none"]

-----------------------------------------------------------------------------
Answer(c, a) ==
    /\ pc' = [pc EXCEPT ![c] = "answered"]
    /\ answer' = [answer EXCEPT ![c] = a]
    /\ waited' = [waited EXCEPT ![c] = 0]
    /\ key' = [key EXCEPT ![c] = NoKey]

(* A tool call arrives; a finished caller stands for any later one.         *)
Call(c) ==
    /\ pc[c] \in {"idle", "answered"}
    /\ pc' = [pc EXCEPT ![c] = "calling"]
    /\ \E k \in Keys : key' = [key EXCEPT ![c] = k]
    /\ answer' = [answer EXCEPT ![c] = "none"]
    /\ UNCHANGED <<cache, waited, since>>

(* _evict_expired_locked: completed entries past the TTL.  A live           *)
(* producer's entry stays, however old.                                     *)
Expired == {k \in Entries : slot[k] \in Endings /\ age[k] > Ttl}
Kept == Entries \ Expired

(* _cache becomes the entries of `kept`, in the order it had.               *)
Among(kept) == order \cap (kept \X kept)

Keep(kept) ==
    slot' = [k \in Keys |-> IF k \in kept THEN slot[k] ELSE "free"]

(* move_to_end, of a key that may be new.                                   *)
Last(k, kept) == Among(kept \ {k}) \cup ((kept \ {k}) \X {k})

(* Mutant of Hit: the entry is looked up before the expired ones go, and    *)
(* then touched.                                                            *)
HitExpired(c) ==
    LET k == key[c] IN
    /\ slot[k] \in Endings
    /\ Keep(Kept) /\ order' = Last(k, Kept)
    /\ Answer(c, CASE slot[k] = "done" -> "result"
                   [] slot[k] = "large" -> "unavailable"
                   [] slot[k] = "unknown" -> "unknown")
    /\ UNCHANGED <<age, since>>

(* The entry has ended: answer from it, and touch it.                       *)
Hit(c) ==
    LET k == key[c] IN
    /\ k \in Kept /\ slot[k] \in Endings
    /\ Keep(Kept) /\ order' = Last(k, Kept)
    /\ Answer(c, CASE slot[k] = "done" -> "result"
                   [] slot[k] = "large" -> "unavailable"
                   [] slot[k] = "unknown" -> "unknown")
    /\ UNCHANGED <<age, since>>

(* The entry is running: wait for it, whoever claimed it.                   *)
Join(c) ==
    /\ key[c] \in Kept /\ slot[key[c]] = "running"
    /\ Keep(Kept) /\ order' = Among(Kept)
    /\ pc' = [pc EXCEPT ![c] = "waiting"]
    /\ waited' = [waited EXCEPT ![c] = 0]
    /\ UNCHANGED <<age, key, answer, since>>

(* _make_room_for_key_locked: the oldest completed entry past the resume    *)
(* window goes, when the cache is full.                                     *)
Reusable == {k \in Kept : slot[k] \in Endings /\ age[k] > Window}

Oldest(ks) == {k \in ks : \A j \in ks \ {k} : <<k, j>> \in order}

Full == Cardinality(Kept) >= Bound

Refused == Full /\ (Bound = 0 \/ Reusable = {})

Roomy == IF Full THEN Kept \ Oldest(Reusable) ELSE Kept

(* No entry: claim a slot and start the producer's task.                    *)
Claim(c) ==
    LET k == key[c] IN
    /\ k \notin Kept /\ ~Refused
    /\ order' = Last(k, Roomy)
    /\ slot' = [j \in Keys |-> IF j = k THEN "running"
                               ELSE IF j \in Roomy THEN slot[j] ELSE "free"]
    /\ age' = [age EXCEPT ![k] = Old]
    /\ since' = [since EXCEPT ![k] = 0]
    /\ pc' = [pc EXCEPT ![c] = "producing"]
    /\ UNCHANGED <<key, waited, answer>>

(* No entry and no slot: refused before anything ran.                       *)
Refuse(c) ==
    /\ key[c] \notin Kept /\ Refused
    /\ Keep(Kept) /\ order' = Among(Kept)
    /\ Answer(c, "capacity")
    /\ UNCHANGED <<age, since>>

(* One pass of the wrapper's loop.                                          *)
Dispatch(c) ==
    /\ pc[c] \in {"calling", "woken"}
    /\ Hit(c) \/ Join(c) \/ Claim(c) \/ Refuse(c)

(* The entry's event wakes everyone who waits for it.                       *)
Woken(k, end) == {c \in Callers : key[c] = k /\ pc[c] = "waiting"}

(* The caller that claimed the entry, if it is still there, gets the        *)
(* outcome from the task itself.                                            *)
Producers(k) == {c \in Callers : key[c] = k /\ pc[c] = "producing"}

(* Mutant of DoneAt: a failure leaves no time behind.                       *)
DoneAtResult(k, end) == IF end = "unknown" THEN age ELSE [age EXCEPT ![k] = 0]

DoneAt(k, end) == [age EXCEPT ![k] = 0]

(* _run_producer: the handler returned, or raised having perhaps committed. *)
Finish(k, end) ==
    /\ slot[k] = "running"
    /\ slot' = [slot EXCEPT ![k] = end]
    /\ age' = DoneAt(k, end)
    /\ since' = [since EXCEPT ![k] = 0]
    /\ pc' = [c \in Callers |-> IF c \in Woken(k, end) THEN "woken"
                                ELSE IF c \in Producers(k) THEN "answered" ELSE pc[c]]
    /\ answer' = [c \in Callers |-> IF c \notin Producers(k) THEN answer[c]
                                    ELSE IF end = "unknown" THEN "error" ELSE "result"]
    /\ key' = [c \in Callers |-> IF c \in Producers(k) THEN NoKey ELSE key[c]]
    /\ UNCHANGED <<order, waited>>

(* Mutant of GiveUp: go round the loop again instead of giving up.          *)
WaitAgain(c) ==
    /\ pc[c] \in {"waiting", "woken"} /\ waited[c] = Patience
    /\ pc' = [pc EXCEPT ![c] = "woken"]
    /\ UNCHANGED <<cache, since, key, waited, answer>>

(* wait_for ran out, the event perhaps set in the same turn of the loop.    *)
GiveUp(c) ==
    /\ pc[c] \in {"waiting", "woken"} /\ waited[c] = Patience
    /\ Answer(c, "unknown")
    /\ UNCHANGED <<cache, since>>

(* The caller's session or request is torn down; the producer is shielded.  *)
Cancel(c) ==
    /\ pc[c] \in {"calling", "waiting", "woken", "producing"}
    /\ Answer(c, "cancelled")
    /\ UNCHANGED <<cache, since>>

Later(n, limit) == IF n < limit THEN n + 1 ELSE n

(* A woken caller runs again within its turn of the loop, long before a     *)
(* tick; the clocks stop where they stop mattering.                         *)
Tick ==
    /\ \A c \in Callers : pc[c] # "woken"
    /\ age' = [k \in Keys |-> Later(age[k], Old)]
    /\ since' = [k \in Keys |-> IF slot[k] = "running" THEN 0 ELSE Later(since[k], Old)]
    /\ waited' = [c \in Callers |-> IF pc[c] = "waiting" THEN Later(waited[c], Patience)
                                    ELSE waited[c]]
    /\ UNCHANGED <<slot, order, pc, key, answer>>

Next ==
    \/ \E c \in Callers : Call(c) \/ Dispatch(c) \/ GiveUp(c) \/ Cancel(c)
    \/ \E k \in Keys, end \in Endings : Finish(k, end)
    \/ Tick

Spec == Init /\ [][Next]_vars

(* The loop runs what is ready, timers fire and time passes.  Handlers may  *)
(* never end.                                                               *)
FairSpec ==
    /\ Spec
    /\ WF_vars(Tick)
    /\ \A c \in Callers : WF_vars(Dispatch(c)) /\ WF_vars(GiveUp(c))

-----------------------------------------------------------------------------
(* The cache never has more entries than its bound: with admission refusing *)
(* what it cannot evict, _enforce_bound has no work.                        *)
WithinBound == Cardinality(Entries) <= Bound

(* Whoever waits for an entry waits for a run that is still on: no result,  *)
(* failure or eviction leaves a re-send asleep until it gives up.           *)
NobodySleepsOn ==
    \A c \in Callers : pc[c] = "waiting" => slot[key[c]] = "running"

(* A call runs again only when the window in which the bridge re-sends it   *)
(* is over: not beside a run that is still on, not after a result that was  *)
(* too large to keep, not after a failure that may have committed, and not  *)
(* because the cache was full.                                              *)
Remembered(k) ==
    IF slot[k] = "running" THEN "running"
    ELSE IF since[k] <= Window THEN "kept" ELSE "fresh"

Contract == INSTANCE RunOnce WITH phase <- [k \in Keys |-> Remembered(k)]
RunsOnce == Contract!Spec

(* "A capacity refusal has a known outcome: this call's handler did not     *)
(* run": neither this delivery nor an earlier one that is still re-sendable.*)
RefusedMeansNotRun ==
    [][\A c \in Callers :
          answer[c] = "none" /\ answer'[c] = "capacity" => Remembered(key[c]) = "fresh"]_vars

(* What is run is run once, and a caller told that it was not run can rely  *)
(* on it, in a cache that stays within its bound.                           *)
RunsAreKnown == RunsOnce /\ RefusedMeansNotRun /\ []WithinBound

(* A re-send that finds its first delivery still running is answered, even  *)
(* when that run never ends.                                                *)
WaiterAnswered ==
    \A c \in Callers : pc[c] = "waiting" ~> pc[c] = "answered"

(* A re-send waits for a run that is on, and not for ever.                  *)
WaitersServed == []NobodySleepsOn /\ WaiterAnswered
=============================================================================
