--------------------------- MODULE LeaderElection ---------------------------
(***************************************************************************)
(* How one machine gets one leader: the client processes that look for it, *)
(* adopt it or spawn it (cli/_leader_election.py, cli/serve.py,            *)
(* daemonize.py), the daemons that claim a port, publish themselves in the *)
(* lockfile and leave it again (http/lifespan.py, cli/_leader_runtime.py,  *)
(* singleton.py), and `octowright restart`, which replaces one (cli/       *)
(* restart.py).                                                            *)
(*                                                                         *)
(* Every step is one that another process can observe: a probe, an attempt *)
(* at the election lock, a bind, a write or an unlink of the lockfile.     *)
(* Probes tell the truth except when an upset says otherwise.  Upsets are  *)
(* what the code bounds by a timer or cannot prevent, and are counted: a   *)
(* probe that times out on a healthy leader, a wait that runs out although *)
(* a leader is coming, a process killed while it holds the lock or boots.  *)
(***************************************************************************)
EXTENDS Integers, FiniteSets, FiniteSetsExt

CONSTANTS
    Clients,    \* processes started as `octowright serve` by an MCP client
    Daemons,    \* process slots for detached daemons
    Operator,   \* the process of `octowright restart`
    None,       \* nobody
    MaxStops,   \* bound: leaders that stop or crash while serving
    MaxUpsets,  \* bound: upsets
    MaxRestarts \* bound: restarts asked for

Leaders == Daemons \cup Clients
Holders == Leaders \cup {Operator}
Ports == 0..Cardinality(Leaders)
NoPort == -1

ASSUME ProcessAssumption ==
    /\ Clients \cap Daemons = {} /\ Operator \notin Leaders /\ None \notin Holders
    /\ IsFiniteSet(Leaders) /\ {MaxStops, MaxUpsets, MaxRestarts} \subseteq Nat

VARIABLES
    lock,     \* the leader the lockfile names
    elock,    \* the holder of the election lock
    life,     \* what each leader process is doing
    port,     \* the port each leader listens on; 0 is the canonical one
    phase,    \* what each client is doing
    mode,     \* "elect" on start, "respawn" once its bridge has ended
    op,       \* what restart is doing
    starts,   \* whether the last restart is to spawn a daemon
    targets,  \* the processes restart has signalled
    stops, upsets, restarts

election == <<lock, elock, life, port, phase, mode, op, starts, targets,
              stops, upsets, restarts>>
files == <<lock, elock>>
daemon == <<life, port>>
client == <<phase, mode>>
restart == <<op, starts, targets, restarts>>

Coming == {"booting", "bound", "published"}
Up == Coming \cup {"serving"}
Leaving == {"stopping", "releasing", "unlinking"}
Gone == {"unborn", "dead"}

ElectionTypeOK ==
    /\ lock \in Leaders \cup {None} /\ elock \in Holders \cup {None}
    /\ life \in [Leaders -> Up \cup Leaving \cup Gone]
    /\ port \in [Leaders -> Ports \cup {NoPort}]
    /\ phase \in [Clients -> {"start", "locking", "recheck", "canonical", "adopting", "spawning",
                              "awaiting", "contended", "following", "inline", "left"}]
    /\ mode \in [Clients -> {"elect", "respawn"}]
    /\ op \in {"idle", "locking", "signal", "stopping", "check", "unlink",
               "portwait", "spawning", "confirm"}
    /\ starts \in BOOLEAN /\ targets \subseteq Leaders
    /\ stops \in 0..MaxStops /\ upsets \in 0..MaxUpsets /\ restarts \in 0..MaxRestarts

ElectionInit ==
    /\ lock = None /\ elock = None
    /\ life = [l \in Leaders |-> "unborn"]
    /\ port = [l \in Leaders |-> NoPort]
    /\ phase = [c \in Clients |-> "start"]
    /\ mode = [c \in Clients |-> "elect"]
    /\ op = "idle" /\ starts = TRUE /\ targets = {}
    /\ stops = 0 /\ upsets = 0 /\ restarts = 0

-----------------------------------------------------------------------------
(* Probes.                                                                 *)

Serving == {l \in Leaders : life[l] = "serving"}
Calm == UNCHANGED upsets
Upset == upsets < MaxUpsets /\ upsets' = upsets + 1

(* Mutant of ProbeHits: a lockfile is enough, whoever wrote it.             *)
ProbeTrustsFile == lock # None

(* _probe_alive_leader: the lockfile's record, a live pid, and an answer on *)
(* its recorded endpoint.                                                   *)
ProbeHits == lock \in Serving

Finds == ProbeHits /\ Calm
Misses == \/ ~ProbeHits /\ Calm
          \/ ProbeHits /\ Upset

(* _canonical_port_serves_octowright, which does not look at the lockfile.  *)
CanonicalHits == \E l \in Serving : port[l] = 0
CanonicalMisses == \/ ~CanonicalHits /\ Calm
                   \/ CanonicalHits /\ Upset

-----------------------------------------------------------------------------
(* A client: elect_leader, and _respawn_if_leader_gone after its bridge.   *)

Goto(c, step) == phase' = [phase EXCEPT ![c] = step]
Unlock(x) == elock' = IF elock = x THEN None ELSE elock

(* The search has ended with a live leader: an election follows it, a       *)
(* respawn only wanted to know that there is one, and the process exits.    *)
Settle(c) ==
    /\ Goto(c, IF mode[c] = "elect" THEN "following" ELSE "left")
    /\ UNCHANGED mode

(* No leader: this process becomes one inline, or leaves if its client has  *)
(* been served and only the replacement failed.                             *)
Resign(c) ==
    IF mode[c] = "elect"
    THEN /\ phase' = [phase EXCEPT ![c] = "inline"]
         /\ life' = [life EXCEPT ![c] = "booting"]
         /\ UNCHANGED <<mode, port>>
    ELSE /\ Goto(c, "left")
         /\ UNCHANGED <<life, port, mode>>

(* The probe outside the lock.                                              *)
FirstProbe(c) ==
    /\ phase[c] = "start"
    /\ \/ Finds /\ Settle(c)
       \/ Misses /\ Goto(c, "locking") /\ UNCHANGED mode
    /\ UNCHANGED <<files, daemon, restart, stops>>

AcquireElection(c) ==
    /\ phase[c] = "locking" /\ elock = None
    /\ elock' = c
    /\ Goto(c, "recheck")
    /\ UNCHANGED <<lock, daemon, mode, restart, stops, upsets>>

(* The lock was not to be had within the readiness budget and its headroom: *)
(* an election waits for the other's daemon, a respawn defers to it.        *)
ElectionTimesOut(c) ==
    /\ phase[c] = "locking" /\ elock # None /\ Upset
    /\ Goto(c, IF mode[c] = "elect" THEN "contended" ELSE "left")
    /\ UNCHANGED <<files, daemon, mode, restart, stops>>

(* Mutant of Recheck: what was seen before the lock is still believed.      *)
RecheckSkipped(c) ==
    /\ phase[c] = "recheck"
    /\ Goto(c, "spawning")
    /\ UNCHANGED <<files, daemon, mode, restart, stops, upsets>>

(* The probe again, under the lock.                                         *)
Recheck(c) ==
    /\ phase[c] = "recheck"
    /\ \/ Finds /\ Settle(c) /\ Unlock(c)
       \/ Misses /\ Goto(c, "canonical") /\ UNCHANGED <<mode, elock>>
    /\ UNCHANGED <<lock, daemon, restart, stops>>

(* The split-brain guard.  A respawn refuses to spawn beside a leader on    *)
(* the canonical port; an election waits for its lockfile.                  *)
ProbeCanonical(c) ==
    /\ phase[c] = "canonical"
    /\ \/ CanonicalMisses /\ Goto(c, "spawning") /\ UNCHANGED elock
       \/ /\ CanonicalHits /\ Calm
          /\ IF mode[c] = "elect" THEN Goto(c, "adopting") /\ UNCHANGED elock
                                  ELSE Goto(c, "left") /\ Unlock(c)
    /\ UNCHANGED <<lock, daemon, mode, restart, stops>>

(* _adopt_canonical_leader's re-probes, and its fall-through when the       *)
(* leader on the port never shows in the lockfile.                          *)
Adopt(c) ==
    /\ phase[c] = "adopting"
    /\ \/ Finds /\ Settle(c) /\ Unlock(c)
       \/ Misses /\ Goto(c, "spawning") /\ UNCHANGED <<mode, elock>>
    /\ UNCHANGED <<lock, daemon, restart, stops>>

(* A process slot nobody remembers by its pid any more.                     *)
Free(d) == life[d] \in Gone /\ lock # d /\ d \notin targets

(* spawn_daemon does not look back.  Slots are interchangeable.  Bound:     *)
(* without a free one the daemon dies as it starts.                         *)
SpawnDaemon ==
    LET free == {d \in Daemons : Free(d)}
    IN IF free = {} THEN UNCHANGED life
       ELSE life' = [life EXCEPT ![CHOOSE d \in free : TRUE] = "booting"]

Spawn(c) ==
    /\ phase[c] = "spawning"
    /\ SpawnDaemon
    /\ Goto(c, "awaiting")
    /\ UNCHANGED <<files, port, mode, restart, stops, upsets>>

(* Mutant of Await: a wait that runs out keeps the lock.                    *)
AwaitHolding(c) ==
    /\ phase[c] \in {"awaiting", "contended"}
    /\ \/ Finds /\ Settle(c) /\ Unlock(c) /\ UNCHANGED daemon
       \/ /\ ~ProbeHits /\ Calm
          /\ \A l \in Leaders : life[l] \notin Coming
          /\ Resign(c) /\ UNCHANGED elock
    /\ UNCHANGED <<lock, restart, stops>>

(* wait_for_daemon, under the lock for its spawner and without it for a     *)
(* contended election.  It runs out when nobody is coming, or too early.    *)
Await(c) ==
    /\ phase[c] \in {"awaiting", "contended"}
    /\ Unlock(c)
    /\ \/ Finds /\ Settle(c) /\ UNCHANGED daemon
       \/ /\ ~ProbeHits
          /\ \/ (\A l \in Leaders : life[l] \notin Coming) /\ Calm
             \/ (\E l \in Leaders : life[l] \in Coming) /\ Upset
          /\ Resign(c)
    /\ UNCHANGED <<lock, restart, stops>>

(* The bridge has ended, its client gone or its leader not back in time:    *)
(* the follower checks the daemon before it exits.                          *)
BridgeEnds(c) ==
    /\ phase[c] = "following"
    /\ Goto(c, "start")
    /\ mode' = [mode EXCEPT ![c] = "respawn"]
    /\ UNCHANGED <<files, daemon, restart, stops, upsets>>

(* The client kills its process while it elects; the lock goes with it.     *)
Kill(c) ==
    /\ elock = c /\ life[c] = "unborn" /\ Upset
    /\ Unlock(c)
    /\ Goto(c, "left")
    /\ UNCHANGED <<lock, daemon, mode, restart, stops>>

-----------------------------------------------------------------------------
(* A leader, daemon or inline.                                             *)

(* _claim_port: the first port it can bind, at once listening.              *)
Bind(l) ==
    /\ life[l] = "booting"
    /\ life' = [life EXCEPT ![l] = "bound"]
    /\ port' = [port EXCEPT ![l] = Min(Ports \ {port[m] : m \in Leaders})]
    /\ UNCHANGED <<files, client, restart, stops, upsets>>

(* on_bound writes the lockfile, whoever it names and whoever holds the     *)
(* election lock.                                                           *)
Publish(l) ==
    /\ life[l] = "bound"
    /\ life' = [life EXCEPT ![l] = "published"]
    /\ lock' = l
    /\ UNCHANGED <<elock, port, client, restart, stops, upsets>>

Serve(l) ==
    /\ life[l] = "published"
    /\ life' = [life EXCEPT ![l] = "serving"]
    /\ UNCHANGED <<files, port, client, restart, stops, upsets>>

(* The idle watchdog, a failed sidecar or a signal ends _run_leader_phases: *)
(* the HTTP sidecar goes first, the lockfile last.                          *)
Stop(l) ==
    /\ life[l] = "serving" /\ stops < MaxStops
    /\ stops' = stops + 1
    /\ life' = [life EXCEPT ![l] = "stopping"]
    /\ port' = [port EXCEPT ![l] = NoPort]
    /\ UNCHANGED <<files, client, restart, upsets>>

(* A dead process holds neither lock nor port.                              *)
Die(L) ==
    /\ life' = [l \in Leaders |-> IF l \in L THEN "dead" ELSE life[l]]
    /\ port' = [l \in Leaders |-> IF l \in L THEN NoPort ELSE port[l]]
    /\ phase' = [c \in Clients |-> IF c \in L THEN "left" ELSE phase[c]]
    /\ UNCHANGED mode

(* release_own_lock: not while another process elects.                      *)
ReleaseSkipped(l) ==
    /\ life[l] = "stopping" /\ elock # None
    /\ Die({l})
    /\ UNCHANGED <<files, restart, stops, upsets>>

ReleaseLock(l) ==
    /\ life[l] = "stopping" /\ elock = None
    /\ elock' = l
    /\ life' = [life EXCEPT ![l] = "releasing"]
    /\ UNCHANGED <<lock, port, client, restart, stops, upsets>>

(* remove_lock_if_owned reads the lockfile, and unlinks it by name.         *)
ReleaseCheck(l) ==
    /\ life[l] = "releasing"
    /\ IF lock = l
       THEN /\ life' = [life EXCEPT ![l] = "unlinking"]
            /\ UNCHANGED <<elock, port, client>>
       ELSE Die({l}) /\ Unlock(l)
    /\ UNCHANGED <<lock, restart, stops, upsets>>

ReleaseUnlink(l) ==
    /\ life[l] = "unlinking"
    /\ lock' = None
    /\ Die({l}) /\ Unlock(l)
    /\ UNCHANGED <<restart, stops, upsets>>

(* A leader crashes; before it serves, that is an upset of its election.    *)
Crash(l) ==
    /\ life[l] \notin Gone
    /\ IF life[l] \in Coming THEN Upset /\ UNCHANGED stops
       ELSE Calm /\ stops < MaxStops /\ stops' = stops + 1
    /\ Die({l}) /\ Unlock(l)
    /\ UNCHANGED <<lock, restart>>

-----------------------------------------------------------------------------
(* octowright restart.                                                     *)

RestartDone == op' = "idle" /\ targets' = {} /\ Unlock(Operator)

(* With --no-start it only stops, and takes no lock.  Bound: nothing is     *)
(* restarted after that.                                                    *)
AskRestart(start) ==
    /\ op = "idle" /\ restarts < MaxRestarts /\ starts
    /\ restarts' = restarts + 1
    /\ starts' = start
    /\ op' = IF start THEN "locking" ELSE "signal"
    /\ UNCHANGED <<files, daemon, client, targets, stops, upsets>>

(* _spawn_election_lock, which goes on without the lock rather than fail.   *)
RestartLocks ==
    /\ op = "locking"
    /\ \/ elock = None /\ elock' = Operator /\ Calm
       \/ elock # None /\ UNCHANGED elock /\ Upset
    /\ op' = "signal"
    /\ UNCHANGED <<lock, daemon, client, starts, targets, restarts, stops>>

AfterUnlink == IF starts THEN op' = "portwait" /\ UNCHANGED <<targets, elock>> ELSE RestartDone

(* _collect_target_pids and SIGTERM: the live process the lockfile names,   *)
(* and the one that listens on the port to spawn on.                        *)
RestartSignals ==
    /\ op = "signal"
    /\ LET named == {l \in Leaders : l = lock /\ life[l] \notin Gone}
           squatter == {l \in Leaders : starts /\ port[l] = 0}
           pids == named \cup squatter
       IN IF pids = {}
          THEN AfterUnlink /\ UNCHANGED daemon
          ELSE /\ targets' = pids /\ op' = "stopping"
               /\ life' = [l \in Leaders |->
                              IF l \in pids /\ life[l] \in Up THEN "stopping" ELSE life[l]]
               /\ port' = [l \in Leaders |-> IF l \in pids THEN NoPort ELSE port[l]]
               /\ UNCHANGED elock
    /\ UNCHANGED <<lock, client, starts, restarts, stops, upsets>>

(* _escalate_survivors: each is waited for, holdouts are killed.            *)
RestartStops ==
    /\ op = "stopping" /\ op' = "check"
    /\ Die({l \in targets : life[l] \notin Gone})
    /\ elock' = IF elock \in targets THEN None ELSE elock
    /\ UNCHANGED <<lock, starts, targets, restarts, stops, upsets>>

(* remove_lock_if_owned, for the processes just stopped.                    *)
RestartChecks ==
    /\ op = "check"
    /\ IF lock \in targets THEN op' = "unlink" /\ UNCHANGED <<targets, elock>>
                           ELSE AfterUnlink
    /\ UNCHANGED <<lock, daemon, client, starts, restarts, stops, upsets>>

RestartUnlinks ==
    /\ op = "unlink"
    /\ lock' = None
    /\ AfterUnlink
    /\ UNCHANGED <<daemon, client, starts, restarts, stops, upsets>>

(* _live_leader_before_spawn, once the port is free or the wait for it over.*)
RestartProbes ==
    /\ op = "portwait"
    /\ \/ (ProbeHits \/ CanonicalHits) /\ Calm /\ RestartDone
       \/ /\ IF ProbeHits \/ CanonicalHits THEN Upset ELSE Calm
          /\ IF \E l \in Leaders : port[l] = 0 THEN RestartDone
             ELSE op' = "spawning" /\ UNCHANGED <<targets, elock>>
    /\ UNCHANGED <<lock, daemon, client, starts, restarts, stops>>

RestartSpawns ==
    /\ op = "spawning"
    /\ SpawnDaemon
    /\ op' = "confirm"
    /\ UNCHANGED <<files, port, client, starts, targets, restarts, stops, upsets>>

(* _wait_for_health on the requested port and on the lockfile's endpoint.   *)
RestartConfirms ==
    /\ op = "confirm"
    /\ \/ (ProbeHits \/ CanonicalHits) /\ Calm
       \/ /\ ~ProbeHits /\ ~CanonicalHits
          /\ IF \E l \in Leaders : life[l] \in Coming THEN Upset ELSE Calm
    /\ RestartDone
    /\ UNCHANGED <<lock, daemon, client, starts, restarts, stops>>

KillRestart ==
    /\ op # "idle" /\ Upset
    /\ RestartDone
    /\ UNCHANGED <<lock, daemon, client, starts, restarts, stops>>

-----------------------------------------------------------------------------

(* What a client does of its own accord.                                    *)
ClientStep(c) ==
    \/ FirstProbe(c) \/ AcquireElection(c) \/ ElectionTimesOut(c) \/ Recheck(c)
    \/ ProbeCanonical(c) \/ Adopt(c) \/ Spawn(c) \/ Await(c)

LeaderStep(l) ==
    \/ Bind(l) \/ Publish(l) \/ Serve(l)
    \/ ReleaseSkipped(l) \/ ReleaseLock(l) \/ ReleaseCheck(l) \/ ReleaseUnlink(l)

RestartStep ==
    \/ RestartLocks \/ RestartSignals \/ RestartStops \/ RestartChecks
    \/ RestartUnlinks \/ RestartProbes \/ RestartSpawns \/ RestartConfirms

Progress ==
    \/ \E c \in Clients : ClientStep(c)
    \/ \E l \in Leaders : LeaderStep(l)
    \/ RestartStep

ElectionNext ==
    \/ Progress
    \/ \E c \in Clients : BridgeEnds(c) \/ Kill(c)
    \/ \E l \in Leaders : Stop(l) \/ Crash(l)
    \/ \E start \in BOOLEAN : AskRestart(start)
    \/ KillRestart

ElectionSpec == ElectionInit /\ [][ElectionNext]_election

(* Some process that can take a step takes one: no step here is repeated    *)
(* for ever, so that is enough, and nobody has to stop, crash, leave or     *)
(* restart.                                                                 *)
FairElectionSpec == ElectionSpec /\ WF_election(Progress)

-----------------------------------------------------------------------------

(* Nothing was upset, no restart has gone without the election lock, and    *)
(* nobody has had to serve inline: a client whose daemon stopped before it  *)
(* was seen becomes a leader without the lock.                              *)
Undisturbed == upsets = 0 /\ starts /\ \A c \in Clients : life[c] = "unborn"

(* Until then there is one leader: no two processes boot, bind or serve at  *)
(* once, however many clients start, lose their leader or restart it        *)
(* together (the election lock held from the probe to the confirmation).    *)
OneLeader ==
    Undisturbed => \A l, m \in Leaders : life[l] \in Up /\ life[m] \in Up => l = m

(* And a serving leader is the one the lockfile names, so that everybody    *)
(* who looks finds it (remove_lock_if_owned, release_own_lock).             *)
NoHiddenLeader ==
    Undisturbed => \A l \in Serving : lock = l

(* So there is one leader and it is the one that is found.                  *)
OneVisibleLeader == ElectionTypeOK /\ OneLeader /\ NoHiddenLeader

(* A restart removes the lockfile only while it names a process it has just *)
(* stopped, never a successor's (_stop_leader, remove_lock_if_owned).       *)
RestartErasesOnlyStopped == [][RestartUnlinks => lock \in targets]_election

(* The election lock is free again and again: it is not kept for good by a  *)
(* wait that runs out, a leader on its way out or a process that is gone.   *)
ElectionEnds == []<>(elock = None)

(* Every client that looks for a leader ends bridged to one, inline or gone,*)
(* whatever was upset on the way (_InlineFallback, ElectionContended).      *)
EveryoneServed ==
    []<>(\A c \in Clients : phase[c] \in {"following", "inline", "left"})

(* An election ends, for its lock and for everybody who waits for a leader. *)
ElectionsServe == ElectionEnds /\ EveryoneServed

(* A follower that finds no leader and exits has left one behind it on its  *)
(* way up, or has seen somebody else elect one (_respawn_if_leader_gone).   *)
RespawnLeavesLeader ==
    [][\A c \in Clients :
           mode[c] = "respawn" /\ phase[c] # "left" /\ phase'[c] = "left" /\ upsets' = 0
           => \/ \E l \in Leaders : life[l] \in Up
              \/ phase[c] = "awaiting"]_election

=============================================================================
