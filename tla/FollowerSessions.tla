--------------------------- MODULE FollowerSessions ---------------------------
(***************************************************************************)
(* The leader's table of MCP sessions and what keeps it small.  A follower  *)
(* writes down which session it has in a file all processes share           *)
(* (bridge_state.py); housekeeping reads there which sessions belong to     *)
(* followers that have died, and evicts what exceeds the cap                *)
(* (housekeeping.py, http/mcp_flap_guard.py, http/mcp_session_tracker.py).  *)
(*                                                                          *)
(* Sessions are numbered in the order in which they are created.            *)
(***************************************************************************)
EXTENDS Integers, FiniteSets, Sequences

CONSTANTS
    Followers,     \* follower processes; a pid is not used twice
    Early,         \* those that may connect before their client initializes
    Cap,           \* OCTOWRIGHT_MCP_MAX_SESSIONS
    MaxRetries,    \* attempts of a snapshot after the first
    MaxSessions,   \* bound: sessions ever created
    Brief,         \* bound: followers that take a single snapshot
    MaxSnapshots,  \* bound: snapshots of one follower
    MaxSkips       \* bound: transactions that fail or do not get the lock

None == 0
Sessions == 1..MaxSessions
NoRow == [gen |-> 0, sid |-> None]
NoRows == [f \in Followers |-> NoRow]

ASSUME FollowerAssumption ==
    /\ IsFiniteSet(Followers) /\ Early \cup Brief \subseteq Followers
    /\ Followers \cap {"free", "leader"} = {}
    /\ Cap \in Nat \ {0} /\ MaxRetries \in Nat /\ MaxSkips \in Nat
    /\ MaxSessions \in Nat \ {0} /\ MaxSnapshots \in Nat \ {0}

VARIABLES
    life,        \* where a follower is in its connect loop
    greeted,     \* followers whose client has initialized
    current,     \* remote_session_id, as the follower knows it
    latest,      \* _LATEST_SNAPSHOT
    jobs,        \* snapshots under way: first attempts and retries
    rows,        \* "followers" of the state file
    lock,        \* who holds the file's lock
    image,       \* what its holder has read
    created,     \* sessions created so far
    table,       \* _server_instances
    terminated,  \* sessions of it that are is_terminated
    recent,      \* the tracker's _last_seen within the TTL, least recent first
    keeper,      \* where housekeeping is
    todo,        \* rows of the pass that are still to be looked at
    dead,        \* dead_pids, with the session that was read of each
    victims,     \* sessions to evict, in order
    target,      \* the session being terminated
    counted,     \* history: sessions created when the table was counted to evict
    skips        \* transactions that failed so far

follower == <<life, greeted, current>>
file == <<rows, lock, image>>
sessions == <<created, table, terminated>>
pass == <<todo, dead, victims, target, counted>>
vars == <<follower, latest, jobs, file, sessions, recent, keeper, pass, skips>>

Alive(f) == life[f] \notin {"unborn", "dead"}
Open == table \ terminated
SeenIds == {recent[i] : i \in 1..Len(recent)}

Job == [gen : 1..MaxSnapshots, sid : Sessions \cup {None},
        at : {"trying", "holding", "sleeping"}, tries : 0..MaxRetries]
Row == [gen : 0..MaxSnapshots, sid : Sessions \cup {None}]

(* The tracker knows a session once; a terminated session is in the table.  *)
SessionsTypeOK ==
    /\ life \in [Followers ->
         {"unborn", "connecting", "recording", "up", "resetting", "dead"}]
    /\ greeted \subseteq Followers /\ current \in [Followers -> Sessions \cup {None}]
    /\ latest \in [Followers -> 0..MaxSnapshots]
    /\ \A f \in Followers : jobs[f] \subseteq Job
    /\ rows \in [Followers -> Row] /\ image \in [Followers -> Row]
    /\ lock \in Followers \cup {"free", "leader"}
    /\ created \in 0..MaxSessions
    /\ table \subseteq 1..created /\ terminated \subseteq table
    /\ SeenIds \subseteq 1..created /\ Cardinality(SeenIds) = Len(recent)
    /\ keeper \in {"asleep", "reaping", "closing", "removing", "dropping", "capping",
                   "evicting", "shutting"}
    /\ todo \cup dead \subseteq [pid : Followers, sid : Sessions \cup {None}]
    /\ victims \in Seq(Sessions) /\ target \in Sessions \cup {None} /\ counted \in 0..created
    /\ skips \in 0..MaxSkips

Init ==
    /\ life = [f \in Followers |-> "unborn"] /\ greeted = {}
    /\ current = [f \in Followers |-> None]
    /\ latest = [f \in Followers |-> 0] /\ jobs = [f \in Followers |-> {}]
    /\ rows = NoRows /\ image = NoRows /\ lock = "free"
    /\ created = 0 /\ table = {} /\ terminated = {} /\ recent = <<>>
    /\ keeper = "asleep" /\ todo = {} /\ dead = {} /\ victims = <<>> /\ target = None
    /\ counted = 0 /\ skips = 0

(* The leader's loop serves requests only while housekeeping awaits.        *)
Served == keeper \in {"asleep", "closing", "removing", "dropping", "shutting"}

(* The file's lock is released, also by the death of its holder.            *)
Releases == lock' = "free" /\ image' = NoRows

-----------------------------------------------------------------------------
(* The tracker.                                                            *)

Place(s) == CHOOSE i \in 1..Len(recent) : recent[i] = s

Without(s) ==
    IF s \in SeenIds
    THEN SubSeq(recent, 1, Place(s) - 1) \o SubSeq(recent, Place(s) + 1, Len(recent))
    ELSE recent

(* mark_active.                                                             *)
Seen(s) == Append(Without(s), s)

(* The TTL passes: active_ids no longer lists the session.                  *)
Forget ==
    /\ Served /\ recent # <<>>
    /\ recent' = Tail(recent)
    /\ UNCHANGED <<follower, latest, jobs, file, sessions, keeper, pass, skips>>

-----------------------------------------------------------------------------
(* A follower's connect loop (proxy_runtime._remote_supervisor).           *)

Start(f) ==
    /\ life[f] = "unborn"
    /\ life' = [life EXCEPT ![f] = "connecting"]
    /\ \/ greeted' = greeted \cup {f}
       \/ f \in Early /\ UNCHANGED greeted
    /\ UNCHANGED <<current, latest, jobs, file, sessions, recent, keeper, pass, skips>>

(* An initialize: the leader makes a session, and its answer names it.      *)
Opens ==
    /\ Served /\ created < MaxSessions
    /\ created' = created + 1
    /\ table' = table \cup {created'} /\ UNCHANGED terminated
    /\ recent' = Seen(created')

Knows(f, sid) == current' = [current EXCEPT ![f] = sid]

Creates(f) == Opens /\ Knows(f, created')

(* record_snapshot_async: the first attempt is awaited.                     *)
Records(f, sid, where) ==
    /\ latest[f] < MaxSnapshots /\ (f \in Brief => latest[f] = 0)
    /\ latest' = [latest EXCEPT ![f] = @ + 1]
    /\ jobs' = [jobs EXCEPT ![f] = @ \cup
                 {[gen |-> latest'[f], sid |-> sid, at |-> "trying", tries |-> 0]}]
    /\ life' = [life EXCEPT ![f] = where]

(* replay_initialize, if there is something to replay.                      *)
Connect(f) ==
    /\ life[f] = "connecting"
    /\ \/ f \in greeted /\ Creates(f)
       \/ f \notin greeted /\ Knows(f, None) /\ UNCHANGED <<sessions, recent>>
    /\ Records(f, current'[f], "recording")
    /\ UNCHANGED <<greeted, file, keeper, pass, skips>>

(* The connect fails: before there is a session, after, or in between, when *)
(* the leader has one that the follower has not heard of.                   *)
ConnectFails(f) ==
    /\ life[f] = "connecting"
    /\ \/ f \in greeted /\ Creates(f)
       \/ f \in greeted /\ Opens /\ Knows(f, None)
       \/ Knows(f, None) /\ UNCHANGED <<sessions, recent>>
    /\ Records(f, current'[f], "resetting")
    /\ UNCHANGED <<greeted, file, keeper, pass, skips>>

ClientInitializes(f) ==
    /\ life[f] \in {"recording", "up"} /\ f \notin greeted
    /\ greeted' = greeted \cup {f}
    /\ Creates(f)
    /\ UNCHANGED <<life, latest, jobs, file, keeper, pass, skips>>

(* A request is seen by the tracker whether its session is still there.     *)
Request(f) ==
    /\ Served /\ life[f] \in {"recording", "up"} /\ current[f] # None
    /\ recent' = Seen(current[f])
    /\ UNCHANGED <<follower, latest, jobs, file, sessions, keeper, pass, skips>>

(* The session ends in an error, of which a snapshot is taken, or cleanly.  *)
Reset(f) ==
    /\ life[f] = "up"
    /\ Records(f, current[f], "resetting")
    /\ UNCHANGED <<greeted, current, file, sessions, recent, keeper, pass, skips>>

EndsCleanly(f) ==
    /\ life[f] = "up"
    /\ life' = [life EXCEPT ![f] = "connecting"]
    /\ UNCHANGED <<greeted, current, latest, jobs, file, sessions, recent, keeper, pass, skips>>

(* A follower that exits says so (DELETE), unless it is killed.             *)
Gone(f) ==
    /\ life' = [life EXCEPT ![f] = "dead"]
    /\ jobs' = [jobs EXCEPT ![f] = {}]
    /\ IF lock = f THEN Releases ELSE UNCHANGED <<lock, image>>
    /\ UNCHANGED <<greeted, current, latest, rows, created, table, keeper, pass, skips>>

Killed(f) == Alive(f) /\ Gone(f) /\ UNCHANGED <<terminated, recent>>

Leaves(f) ==
    /\ Served /\ life[f] = "up" /\ current[f] \in Open
    /\ Gone(f)
    /\ terminated' = terminated \cup {current[f]}
    /\ recent' = Without(current[f])

-----------------------------------------------------------------------------
(* A snapshot (record_snapshot): one transaction on the file.              *)

(* The follower goes on when the first attempt of its newest is over.       *)
GoesOn(f, j) ==
    life' = IF j.gen = latest[f]
            THEN [life EXCEPT ![f] = CASE @ = "recording" -> "up"
                                       [] @ = "resetting" -> "connecting"
                                       [] OTHER -> @]
            ELSE life

Instead(f, j, new) == jobs' = [jobs EXCEPT ![f] = (@ \ {j}) \cup new]

(* _prune_dead_followers.                                                   *)
Pruned(f, read) == [g \in Followers |-> IF g = f \/ Alive(g) THEN read[g] ELSE NoRow]

(* Mutant of Locks: whether the snapshot is still the newest is not asked.  *)
LocksAnyway(f, j) ==
    /\ j.at = "trying" /\ lock = "free"
    /\ lock' = f /\ image' = Pruned(f, rows)
    /\ Instead(f, j, {[j EXCEPT !.at = "holding"]})
    /\ UNCHANGED life
    /\ UNCHANGED <<greeted, current, latest, rows, sessions, recent, keeper, pass, skips>>

(* A snapshot that is no longer the newest is settled without writing.      *)
Locks(f, j) ==
    /\ j.at = "trying" /\ lock = "free"
    /\ \/ /\ j.gen = latest[f]
          /\ lock' = f /\ image' = Pruned(f, rows)
          /\ Instead(f, j, {[j EXCEPT !.at = "holding"]})
          /\ UNCHANGED life
       \/ /\ j.gen # latest[f]
          /\ Instead(f, j, {}) /\ GoesOn(f, j)
          /\ UNCHANGED <<lock, image>>
    /\ UNCHANGED <<greeted, current, latest, rows, sessions, recent, keeper, pass, skips>>

Writes(f, j) ==
    /\ j.at = "holding"
    /\ rows' = [image EXCEPT ![f] = [gen |-> j.gen, sid |-> j.sid]]
    /\ Releases
    /\ Instead(f, j, {}) /\ GoesOn(f, j)
    /\ UNCHANGED <<greeted, current, latest, sessions, recent, keeper, pass, skips>>

(* The lock does not come free in time, or the write fails: it is tried     *)
(* again later (_retry_snapshot), a number of times.                        *)
Skips(f, j) ==
    /\ j.at \in {"trying", "holding"} /\ skips < MaxSkips
    /\ skips' = skips + 1
    /\ IF j.at = "holding" THEN Releases ELSE UNCHANGED <<lock, image>>
    /\ Instead(f, j, IF j.tries < MaxRetries
                     THEN {[j EXCEPT !.at = "sleeping", !.tries = @ + 1]} ELSE {})
    /\ GoesOn(f, j)
    /\ UNCHANGED <<greeted, current, latest, rows, sessions, recent, keeper, pass>>

Wakes(f, j) ==
    /\ j.at = "sleeping"
    /\ Instead(f, j, IF j.gen = latest[f] THEN {[j EXCEPT !.at = "trying"]} ELSE {})
    /\ UNCHANGED <<follower, latest, file, sessions, recent, keeper, pass, skips>>

-----------------------------------------------------------------------------
(* Housekeeping, job 3: the sessions of dead followers.                    *)

(* The file is read without the lock.                                       *)
ReapBegins ==
    /\ keeper = "asleep"
    /\ keeper' = "reaping" /\ dead' = {}
    /\ todo' = {[pid |-> f, sid |-> rows[f].sid] : f \in {g \in Followers : rows[g] # NoRow}}
    /\ UNCHANGED <<follower, latest, jobs, file, sessions, recent, victims, target, counted,
                   skips>>

(* Mutant of Terminates: what has been terminated already is left alone.    *)
TerminatesLive(s, during, after) ==
    IF s \in Open
    THEN /\ terminated' = terminated \cup {s} /\ UNCHANGED <<created, table>>
         /\ target' = s /\ keeper' = during
    ELSE keeper' = after /\ UNCHANGED <<sessions, target>>

(* _terminate_follower_transport: a session of the table is terminated, over*)
(* an await unless it is already, and then taken out of it.                 *)
Terminates(s, during, after) ==
    IF s \in Open
    THEN /\ terminated' = terminated \cup {s} /\ UNCHANGED <<created, table>>
         /\ target' = s /\ keeper' = during
    ELSE /\ table' = table \ {s} /\ terminated' = terminated \ {s}
         /\ keeper' = after /\ UNCHANGED <<created, target>>

TakenOut(after) ==
    /\ table' = table \ {target} /\ terminated' = terminated \ {target}
    /\ target' = None /\ keeper' = after
    /\ UNCHANGED created

LooksAt(row) ==
    /\ keeper = "reaping" /\ row \in todo
    /\ todo' = todo \ {row}
    /\ IF Alive(row.pid)
       THEN UNCHANGED <<dead, sessions, keeper, target>>
       ELSE dead' = dead \cup {row} /\ Terminates(row.sid, "closing", "reaping")
    /\ UNCHANGED <<follower, latest, jobs, file, recent, victims, counted, skips>>

Reaped ==
    /\ keeper = "closing"
    /\ TakenOut("reaping")
    /\ UNCHANGED <<follower, latest, jobs, file, recent, todo, dead, victims, counted, skips>>

AllLookedAt ==
    /\ keeper = "reaping" /\ todo = {}
    /\ keeper' = IF dead # {} THEN "removing" ELSE "capping"
    /\ UNCHANGED <<follower, latest, jobs, file, sessions, recent, pass, skips>>

(* remove_followers: a transaction of the leader.                           *)
RemoveLocks ==
    /\ keeper = "removing" /\ lock = "free"
    /\ lock' = "leader" /\ image' = rows /\ keeper' = "dropping"
    /\ UNCHANGED <<follower, latest, jobs, rows, sessions, recent, pass, skips>>

RemoveWrites ==
    /\ keeper = "dropping"
    /\ rows' = [f \in Followers |-> IF \E row \in dead : row.pid = f THEN NoRow ELSE image[f]]
    /\ Releases /\ keeper' = "capping" /\ dead' = {}
    /\ UNCHANGED <<follower, latest, jobs, sessions, recent, todo, victims, target,
                   counted, skips>>

RemoveSkipped ==
    /\ keeper \in {"removing", "dropping"} /\ skips < MaxSkips
    /\ skips' = skips + 1
    /\ IF keeper = "dropping" THEN Releases ELSE UNCHANGED <<lock, image>>
    /\ keeper' = "capping" /\ dead' = {}
    /\ UNCHANGED <<follower, latest, jobs, rows, sessions, recent, todo, victims, target,
                   counted>>

-----------------------------------------------------------------------------
(* Housekeeping, job 4: the cap.                                           *)

(* select_eviction_victims: the silent first, the oldest of them first, then*)
(* the least recently seen.                                                 *)
Turn(s) == IF s \in SeenIds THEN MaxSessions + Place(s) ELSE s

InOrder(S) ==
    CHOOSE q \in [1..Cardinality(S) -> S] :
        \A i, k \in 1..Cardinality(S) : i < k => Turn(q[i]) < Turn(q[k])

(* Mutant of Victims: one too few.                                          *)
VictimsButOne(over) == SubSeq(InOrder(table), 1, over - 1)

Victims(over) == SubSeq(InOrder(table), 1, over)

ChooseVictims ==
    /\ keeper = "capping"
    /\ LET over == Cardinality(table) - Cap IN
       IF over > 0 THEN /\ victims' = Victims(over) /\ counted' = created
                        /\ keeper' = "evicting"
                   ELSE UNCHANGED <<victims, counted>> /\ keeper' = "asleep"
    /\ UNCHANGED <<follower, latest, jobs, file, sessions, recent, todo, dead, target, skips>>

(* _evict_sessions: what was chosen goes, whatever has happened since.      *)
EvictNext ==
    /\ keeper = "evicting" /\ victims # <<>>
    /\ victims' = Tail(victims)
    /\ Terminates(Head(victims), "shutting", "evicting")
    /\ recent' = IF Head(victims) \in terminated THEN Without(Head(victims)) ELSE recent
    /\ UNCHANGED <<follower, latest, jobs, file, todo, dead, counted, skips>>

Evicted ==
    /\ keeper = "shutting"
    /\ TakenOut("evicting")
    /\ recent' = Without(target)
    /\ UNCHANGED <<follower, latest, jobs, file, todo, dead, victims, counted, skips>>

AllEvicted ==
    /\ keeper = "evicting" /\ victims = <<>>
    /\ keeper' = "asleep" /\ counted' = 0
    /\ UNCHANGED <<follower, latest, jobs, file, sessions, recent, todo, dead, victims, target,
                   skips>>

-----------------------------------------------------------------------------
Lives(f) ==
    \/ Start(f) \/ Connect(f) \/ ConnectFails(f) \/ ClientInitializes(f) \/ Request(f)
    \/ Reset(f) \/ EndsCleanly(f) \/ Killed(f) \/ Leaves(f)

Attempts(f) ==
    \E j \in jobs[f] : Locks(f, j) \/ Writes(f, j) \/ Skips(f, j) \/ Wakes(f, j)

Reaps ==
    \/ ReapBegins \/ \E row \in todo : LooksAt(row)
    \/ Reaped \/ AllLookedAt \/ RemoveLocks \/ RemoveWrites \/ RemoveSkipped

Caps == ChooseVictims \/ EvictNext \/ Evicted \/ AllEvicted

Next == Forget \/ Reaps \/ Caps \/ \E f \in Followers : Lives(f) \/ Attempts(f)

Spec == Init /\ [][Next]_vars

(* Housekeeping goes round and transactions end; nothing is assumed of the  *)
(* followers, of their clients and of time.  A skipped one is not wanted.   *)
Fairness ==
    /\ WF_vars(Reaps) /\ WF_vars(Caps) /\ SF_vars(RemoveLocks) /\ WF_vars(RemoveWrites)
    /\ \A f \in Followers : WF_vars(\E j \in jobs[f] : Locks(f, j) \/ Writes(f, j) \/ Wakes(f, j))

FairSpec == Spec /\ Fairness

-----------------------------------------------------------------------------
(* Properties.                                                             *)

(* What a live follower has written last, and was not refused, is what the  *)
(* file says of it, whoever else writes, prunes or removes at the same time *)
(* and in whichever order retries land (_state_lock, still_current).        *)
RegistrationHolds ==
    /\ SessionsTypeOK
    /\ \A f \in Followers :
         (Alive(f) /\ latest[f] > 0 /\ skips <= MaxRetries
          /\ \A j \in jobs[f] : j.gen # latest[f])
            => rows[f].gen = latest[f]

(* A row that is removed by the reaper leaves no session behind that the    *)
(* pass has read of it: if the pass is interrupted, or cannot write, the    *)
(* next still finds the session (_reap_dead_follower_sessions_once).        *)
RowOutlivesSession ==
    [][\A row \in dead :
         (rows[row.pid] # NoRow /\ rows'[row.pid] = NoRow /\ keeper = "dropping")
            => row.sid \notin table]_vars

(* Of the sessions there were when the table was found over its cap, no     *)
(* more than the cap are left when the eviction ends, whoever connects and  *)
(* is closed while it awaits (_enforce_mcp_session_cap_once).               *)
CapShed ==
    keeper = "evicting" /\ victims = <<>> => Cardinality(table \cap 1..counted) <= Cap

(* The sessions there are when the table is over its cap are cut down to it,*)
(* whatever is opened while they are evicted: a table stays over its cap    *)
(* only by what keeps arriving (_enforce_mcp_session_cap_once).             *)
CapRestored ==
    \A n \in Sessions :
      (created = n /\ Cardinality(table) > Cap) ~> (Cardinality(table \cap 1..n) <= Cap)

(* A session that the file names of a follower that has died is terminated: *)
(* "a follower whose PID no longer exists is unambiguously dead ... and its *)
(* leader-side StreamableHTTP session ... gets terminated immediately"      *)
(* (housekeeping.py, job 3).                                                *)
DeadFollowerReaped ==
    \A f \in Followers, s \in Sessions :
      (life[f] = "dead" /\ rows[f].sid = s /\ s \in Open) ~> (s \notin Open)

(* The file "already carries each follower's (follower_pid,                 *)
(* remote_session_id)" (housekeeping.py, job 3).                            *)
SessionIsRecorded ==
    \A f \in Followers, s \in Sessions :
      (life[f] = "up" /\ current[f] = s)
        ~> (rows[f].sid = s \/ current[f] # s \/ life[f] # "up")

(* "It sheds sessions that have gone silent ... before any recently-active  *)
(* one" (http/mcp_flap_guard.py).                                           *)
SilentShedFirst ==
    [][\A s \in Sessions :
         (keeper = "evicting" /\ s \in Open /\ s \notin Open' /\ s \in SeenIds)
            => table \ terminated \subseteq SeenIds]_vars
=============================================================================
