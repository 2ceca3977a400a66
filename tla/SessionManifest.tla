--------------------------- MODULE SessionManifest ---------------------------
(***************************************************************************)
(* The session manifest (session_manifest.py): a JSON file in which every   *)
(* daemon notes the sessions it has open, each change a read-modify-write    *)
(* in a worker thread under a lock that threads and processes share.        *)
(* Daemons die at any moment; the next to boot prunes their rows.           *)
(***************************************************************************)
EXTENDS Integers, FiniteSets

CONSTANTS
    Sessions,
    Daemons,
    None

Jobs == ({"record", "remove"} \X Sessions) \cup ({"prune"} \X Daemons)

ASSUME ManifestAssumption == None \notin Daemons \cup Jobs

VARIABLES
    file,       \* the daemon whose pid each session's row carries
    daemon,     \* what each daemon is doing
    pid,        \* who holds the pid each daemon has, or had
    life,       \* how far each session is
    owner,      \* the daemon it was launched in
    cancelled,  \* launches cancelled while their row is recorded
    missed,     \* sessions one of whose transactions was given up
    overtaken,  \* history: sessions whose row was removed before it was recorded
    job,        \* the transactions
    snap,       \* the manifest as each of them has read it
    lock        \* who holds the manifest's lock

sessions == <<life, owner, cancelled, missed, overtaken>>
vars == <<file, daemon, pid, sessions, job, snap, lock>>

Manifest == [Sessions -> Daemons \cup {None}]
Empty == [s \in Sessions |-> None]
Holding == {j \in Jobs : job[j] = "holding"}

ManifestTypeOK ==
    /\ file \in Manifest
    /\ daemon \in [Daemons -> {"off", "up", "dead"}]
    /\ pid \in [Daemons -> {"free", "daemon", "stranger"}]
    /\ life \in [Sessions -> {"unborn", "recording", "open", "closing", "closed", "stranded"}]
    /\ owner \in Manifest /\ cancelled \cup missed \cup overtaken \subseteq Sessions
    /\ job \in [Jobs -> {"none", "queued", "holding", "over"}]
    /\ snap \in [Jobs -> Manifest]
    /\ Holding = {lock} \ {None}

Init ==
    /\ file = Empty /\ owner = Empty /\ cancelled = {} /\ missed = {} /\ overtaken = {}
    /\ daemon = [d \in Daemons |-> "off"] /\ pid = [d \in Daemons |-> "free"]
    /\ life = [s \in Sessions |-> "unborn"]
    /\ job = [j \in Jobs |-> "none"] /\ snap = [j \in Jobs |-> Empty] /\ lock = None

-----------------------------------------------------------------------------
(* What asks for a transaction.                                            *)

(* A leader boots with a prune; its pid may have been a dead daemon's.      *)
Boot(d) ==
    /\ daemon[d] = "off"
    /\ daemon' = [daemon EXCEPT ![d] = "up"]
    /\ pid' = [pid EXCEPT ![d] = "daemon"]
    /\ job' = [job EXCEPT ![<<"prune", d>>] = "queued"]
    /\ UNCHANGED <<file, sessions, snap, lock>>

(* _safe_manifest_record.                                                   *)
Launch(s, d) ==
    /\ life[s] = "unborn" /\ daemon[d] = "up"
    /\ life' = [life EXCEPT ![s] = "recording"] /\ owner' = [owner EXCEPT ![s] = d]
    /\ job' = [job EXCEPT ![<<"record", s>>] = "queued"]
    /\ UNCHANGED <<file, daemon, pid, cancelled, missed, overtaken, snap, lock>>

CancelLaunch(s) ==
    /\ life[s] = "recording" /\ cancelled' = cancelled \cup {s}
    /\ UNCHANGED <<file, daemon, pid, life, owner, missed, overtaken, job, snap, lock>>

(* run_manifest_transaction_async: a cancellation waits for the worker, and *)
(* only then the clean-up removes the row.                                  *)
Recorded(s) ==
    /\ life[s] = "recording" /\ job[<<"record", s>>] = "over"
    /\ IF s \in cancelled
       THEN /\ life' = [life EXCEPT ![s] = "closing"]
            /\ job' = [job EXCEPT ![<<"remove", s>>] = "queued"]
       ELSE life' = [life EXCEPT ![s] = "open"] /\ UNCHANGED job
    /\ UNCHANGED <<file, daemon, pid, owner, cancelled, missed, overtaken, snap, lock>>

(* remove_manifest_best_effort.                                             *)
Removes(s) ==
    /\ life' = [life EXCEPT ![s] = "closing"]
    /\ job' = [job EXCEPT ![<<"remove", s>>] = "queued"]
    /\ UNCHANGED <<file, daemon, pid, owner, cancelled, missed, overtaken, snap, lock>>

(* A close somebody asked for has waited for the launch's lease, under      *)
(* which the row is recorded.                                               *)
Close(s) == life[s] = "open" /\ Removes(s)

(* accept_external_close_nowait: the browser went, and the teardown waits   *)
(* for nobody; the worker that records the row goes on by itself, and a     *)
(* cancelled launch finds the session gone and cleans nothing up.           *)
ExternalClose(s) == life[s] = "recording" /\ Removes(s)

Closed(s) ==
    /\ life[s] = "closing" /\ job[<<"remove", s>>] = "over"
    /\ life' = [life EXCEPT ![s] = "closed"]
    /\ UNCHANGED <<file, daemon, pid, owner, cancelled, missed, overtaken, job, snap, lock>>

-----------------------------------------------------------------------------
(* Transactions.                                                           *)

JobOwner(j) == IF j[1] = "prune" THEN j[2] ELSE owner[j[2]]

(* _manifest_lock and read_manifest.                                       *)
TakeLock(j) ==
    /\ job[j] = "queued" /\ lock = None
    /\ lock' = j /\ job' = [job EXCEPT ![j] = "holding"]
    /\ snap' = [snap EXCEPT ![j] = file]
    /\ UNCHANGED <<file, daemon, pid, sessions>>

(* The session a transaction was for is no longer vouched for.              *)
Missed(j) == missed' = missed \cup ({j[2]} \cap Sessions)

(* Mutant of TimesOut: the transaction goes on without the lock.            *)
EntersUnlocked(j) ==
    /\ job[j] = "queued" /\ lock # None
    /\ job' = [job EXCEPT ![j] = "holding"]
    /\ snap' = [snap EXCEPT ![j] = file]
    /\ UNCHANGED <<file, daemon, pid, sessions, lock>>

(* MANIFEST_LOCK_TIMEOUT_SECONDS pass: logged, and given up.                *)
TimesOut(j) ==
    /\ job[j] = "queued" /\ lock # None
    /\ job' = [job EXCEPT ![j] = "over"] /\ Missed(j)
    /\ UNCHANGED <<file, daemon, pid, life, owner, cancelled, overtaken, snap, lock>>

(* _daemon_is_gone: a pid nobody has is proof; one a stranger has is proof  *)
(* when the process table could be read and lists it.                       *)
Doomed(m, d) ==
    LET rows(who) == {s \in Sessions : m[s] \notin {None, d} /\ pid[m[s]] \in who}
    IN {rows({"free"}) \cup listed : listed \in SUBSET rows({"stranger"})}

Written(j) ==
    LET m == snap[j] s == j[2]
    IN CASE j[1] = "record" -> {[m EXCEPT ![s] = owner[s]]}
         [] j[1] = "remove" -> {[m EXCEPT ![s] = None]}
         [] j[1] = "prune" ->
              {[x \in Sessions |-> IF x \in gone THEN None ELSE m[x]] : gone \in Doomed(m, s)}

(* _write_manifest_unlocked replaces the file in one step.                  *)
Write(j) ==
    /\ job[j] = "holding"
    /\ file' \in Written(j)
    /\ job' = [job EXCEPT ![j] = "over"] /\ snap' = [snap EXCEPT ![j] = Empty]
    /\ lock' = IF lock = j THEN None ELSE lock
    /\ overtaken' = IF j[1] = "remove" /\ job[<<"record", j[2]>>] # "over"
                     THEN overtaken \cup {j[2]} ELSE overtaken
    /\ UNCHANGED <<daemon, pid, life, owner, cancelled, missed>>

WriteFails(j) ==
    /\ job[j] = "holding"
    /\ job' = [job EXCEPT ![j] = "over"] /\ snap' = [snap EXCEPT ![j] = Empty]
    /\ lock' = IF lock = j THEN None ELSE lock
    /\ Missed(j)
    /\ UNCHANGED <<file, daemon, pid, life, owner, cancelled, overtaken>>

-----------------------------------------------------------------------------
(* Death.                                                                  *)

(* The system releases a dead process's lock; the file it was about to      *)
(* replace stays as it was.                                                 *)
DaemonDies(d) ==
    LET its == {j \in Jobs : JobOwner(j) = d}
    IN /\ daemon[d] = "up" /\ daemon' = [daemon EXCEPT ![d] = "dead"]
       /\ pid' = [pid EXCEPT ![d] = "free"]
       /\ job' = [j \in Jobs |-> IF j \in its THEN "over" ELSE job[j]]
       /\ snap' = [j \in Jobs |-> IF j \in its THEN Empty ELSE snap[j]]
       /\ life' = [s \in Sessions |-> IF owner[s] = d /\ life[s] # "closed" THEN "stranded" ELSE life[s]]
       /\ lock' = IF lock \in its THEN None ELSE lock
       /\ UNCHANGED <<file, owner, cancelled, missed, overtaken>>

(* The pid is given to another process.                                     *)
PidReused(d) ==
    /\ daemon[d] = "dead" /\ pid[d] = "free"
    /\ \E who \in {"daemon", "stranger"} : pid' = [pid EXCEPT ![d] = who]
    /\ UNCHANGED <<file, daemon, sessions, job, snap, lock>>

-----------------------------------------------------------------------------

Next ==
    \/ \E j \in Jobs : TakeLock(j) \/ TimesOut(j) \/ Write(j) \/ WriteFails(j)
    \/ \E s \in Sessions :
           \/ CancelLaunch(s) \/ Recorded(s)
           \/ Close(s) \/ ExternalClose(s) \/ Closed(s)
           \/ \E d \in Daemons : Launch(s, d)
    \/ \E d \in Daemons : Boot(d) \/ DaemonDies(d) \/ PidReused(d)

Spec == Init /\ [][Next]_vars

-----------------------------------------------------------------------------

(* An open session of a running daemon has its row, a closed one has none,  *)
(* unless a transaction of its own was given up or its removal overtook its *)
(* record: no other thread's or process's transaction undoes one, and no    *)
(* prune takes a living daemon's.                                           *)
RowsAreTrue ==
    ManifestTypeOK /\ \A s \in Sessions \ (missed \cup overtaken) :
        /\ life[s] = "open" => file[s] = owner[s]
        /\ life[s] = "closed" => file[s] = None

(* The manifest is cleared on close (session_manifest.py:8), whoever closes *)
(* the session and whenever.                                                *)
ClosedLeavesNoRow == \A s \in Sessions \ missed : life[s] = "closed" => file[s] = None
=============================================================================
