---------------------------- MODULE LeaderProofs ----------------------------
(* What holds of the election with any number of clients and daemons, and   *)
(* of the idempotency cache of the leader for any callers, keys and bounds. *)
EXTENDS LeaderElection, IdempotencyCache, FiniteSetTheorems, WellFoundedInduction, TLAPS

-----------------------------------------------------------------------------
(* The election.                                                            *)

(* The inductive invariant.                                                 *)

(* A client that leads took part in an election before, and in no other     *)
(* since; a client waits for another's daemon only after an upset.          *)
ClientsWhole ==
    \A c \in Clients :
        /\ life[c] # "unborn" => mode[c] = "elect" /\ phase[c] \in {"inline", "left"}
        /\ upsets = 0 => phase[c] # "contended"

(* Who is past the election lock holds it.                                  *)
LockIsHeld ==
    /\ \A c \in Clients :
           phase[c] \in {"recheck", "canonical", "adopting", "spawning", "awaiting"} => elock = c
    /\ op \notin {"idle", "locking"} => elock = Operator
    /\ \A l \in Leaders : life[l] \in {"releasing", "unlinking"} => elock = l

(* Who is about to spawn has seen that nobody is up.                        *)
AboutToSpawn ==
    (\E c \in Clients : phase[c] \in {"canonical", "adopting", "spawning"}) \/ op = "spawning"

(* Who spawned a leader that is on its way up still waits for it.           *)
AwaitsLeader == (\E c \in Clients : phase[c] = "awaiting") \/ op = "confirm"

AtMostOneUp == \A l, m \in Leaders : life[l] \in Up /\ life[m] \in Up => l = m

Agreement ==
    /\ LockIsHeld /\ AtMostOneUp
    /\ \A l \in Leaders :
           /\ life[l] \in Up => ~AboutToSpawn
           /\ life[l] \in Coming => AwaitsLeader
           /\ life[l] \in {"published", "serving", "unlinking"} => lock = l
    /\ op \in {"check", "unlink"} => \A l \in targets : life[l] \in Gone
    /\ op = "unlink" => lock \in targets

ElectionInv == ElectionTypeOK /\ ClientsWhole /\ (Undisturbed => Agreement)

-----------------------------------------------------------------------------
(* What the assumptions on the processes come to.                           *)
LEMMA Processes ==
    /\ Clients \subseteq Leaders /\ Daemons \subseteq Leaders /\ Clients \cap Daemons = {}
    /\ Operator \notin Leaders /\ None \notin Leaders /\ None # Operator
    /\ Holders = Leaders \cup {Operator}
    /\ MaxStops \in Nat /\ MaxUpsets \in Nat /\ MaxRestarts \in Nat
BY ProcessAssumption DEF Leaders, Holders

(* There are more ports than processes, so _claim_port finds one.           *)
LEMMA PortToBind ==
    ASSUME ElectionTypeOK
    PROVE  Min(Ports \ {port[m] : m \in Leaders}) \in Ports
<1> DEFINE taken == {port[m] : m \in Leaders}
           n == Cardinality(Leaders)
           free == Ports \ taken
<1>1. n \in Nat /\ IsFiniteSet(Leaders)
    BY ProcessAssumption, FS_CardinalityType
<1>2. IsFiniteSet(taken) /\ Cardinality(taken) <= n /\ Cardinality(taken) \in Nat
    <2> DEFINE f == [m \in Leaders |-> port[m]]
    <2>1. f \in Surjection(Leaders, taken)
        BY DEF Surjection
    <2>2. QED BY <1>1, <2>1, FS_Surjection, FS_CardinalityType
<1>3. Cardinality(Ports) = n + 1
    BY <1>1, FS_Interval DEF Ports
<1>4. free # {}
    <2>1. ~(Ports \subseteq taken)
        BY <1>1, <1>2, <1>3, FS_Subset
    <2>2. QED BY <2>1
<1>5. free \subseteq Nat
    BY <1>1 DEF Ports
<1>6. \E p \in free : \A q \in free : p <= q
    <2>1. PICK p \in free : \A q \in free : ~(<<q, p>> \in OpToRel(<, Nat))
        BY <1>4, <1>5, NatLessThanWellFounded, WFMin
    <2>2. \A q \in free : ~(q < p)
        BY <1>5, <2>1 DEF OpToRel
    <2>3. QED BY <1>5, <2>2
<1>7. Min(free) \in free
    BY <1>6 DEF Min
<1> QED BY <1>7

(* The clients: each probe, the election lock, and the wait for a daemon.   *)
LEMMA ClientsKeep ==
    ASSUME ElectionInv, NEW c \in Clients,
           \/ FirstProbe(c) \/ AcquireElection(c) \/ ElectionTimesOut(c) \/ Recheck(c)
           \/ ProbeCanonical(c) \/ Adopt(c) \/ BridgeEnds(c) \/ Kill(c) \/ Await(c)
    PROVE  ElectionInv'
<1> USE Processes DEF ElectionInv, ElectionTypeOK, Undisturbed, Up, Coming, Gone
<1>1. CASE FirstProbe(c)
    <2> USE <1>1 DEF FirstProbe, Finds, Misses, ProbeHits, Settle, Goto, Calm, Upset, files,
                     daemon, restart
    <2>1. ElectionTypeOK' /\ ClientsWhole'
        BY DEF ClientsWhole, Leaving
    <2>2. Undisturbed' => Agreement'
        BY DEF Agreement, LockIsHeld, AtMostOneUp, AboutToSpawn, AwaitsLeader, Serving
    <2>3. QED BY <2>1, <2>2
<1>2. CASE AcquireElection(c)
    <2> USE <1>2 DEF AcquireElection, Goto, daemon, restart
    <2>1. ElectionTypeOK' /\ ClientsWhole'
        BY DEF ClientsWhole, Leaving
    <2>2. Undisturbed' => Agreement'
        BY DEF Agreement, LockIsHeld, AtMostOneUp, AboutToSpawn, AwaitsLeader
    <2>3. QED BY <2>1, <2>2
<1>3. CASE ElectionTimesOut(c)
    <2> USE <1>3 DEF ElectionTimesOut, Goto, Upset, files, daemon, restart
    <2>1. ElectionTypeOK' /\ ClientsWhole'
        BY DEF ClientsWhole, Leaving
    <2>2. Undisturbed' => Agreement'
        BY DEF Agreement, LockIsHeld, AtMostOneUp, AboutToSpawn, AwaitsLeader
    <2>3. QED BY <2>1, <2>2
<1>4. CASE Recheck(c)
    <2> USE <1>4 DEF Recheck, Finds, Misses, ProbeHits, Settle, Goto, Unlock, Calm, Upset, daemon,
                     restart
    <2>1. ElectionTypeOK' /\ ClientsWhole'
        BY DEF ClientsWhole, Leaving
    <2>2. Undisturbed' => Agreement'
        BY DEF Agreement, LockIsHeld, AtMostOneUp, AboutToSpawn, AwaitsLeader, Serving
    <2>3. QED BY <2>1, <2>2
<1>5. CASE ProbeCanonical(c)
    <2> USE <1>5 DEF ProbeCanonical, CanonicalHits, CanonicalMisses, Goto, Unlock, Calm, Upset,
                     daemon, restart
    <2>1. ElectionTypeOK' /\ ClientsWhole'
        BY DEF ClientsWhole, Leaving
    <2>2. Undisturbed' => Agreement'
        BY DEF Agreement, LockIsHeld, AtMostOneUp, AboutToSpawn, AwaitsLeader, Serving
    <2>3. QED BY <2>1, <2>2
<1>6. CASE Adopt(c)
    <2> USE <1>6 DEF Adopt, Finds, Misses, ProbeHits, Settle, Goto, Unlock, Calm, Upset, daemon,
                     restart
    <2>1. ElectionTypeOK' /\ ClientsWhole'
        BY DEF ClientsWhole, Leaving
    <2>2. Undisturbed' => Agreement'
        BY DEF Agreement, LockIsHeld, AtMostOneUp, AboutToSpawn, AwaitsLeader, Serving
    <2>3. QED BY <2>1, <2>2
<1>7. CASE BridgeEnds(c)
    <2> USE <1>7 DEF BridgeEnds, Goto, files, daemon, restart
    <2>1. ElectionTypeOK' /\ ClientsWhole'
        BY DEF ClientsWhole, Leaving
    <2>2. Undisturbed' => Agreement'
        BY DEF Agreement, LockIsHeld, AtMostOneUp, AboutToSpawn, AwaitsLeader
    <2>3. QED BY <2>1, <2>2
<1>8. CASE Kill(c)
    <2> USE <1>8 DEF Kill, Goto, Unlock, Upset, daemon, restart
    <2>1. ElectionTypeOK' /\ ClientsWhole'
        BY DEF ClientsWhole, Leaving
    <2>2. Undisturbed' => Agreement'
        BY DEF Agreement, LockIsHeld, AtMostOneUp, AboutToSpawn, AwaitsLeader
    <2>3. QED BY <2>1, <2>2
<1>9. CASE Await(c)
    <2> USE <1>9 DEF Await, Finds, ProbeHits, Settle, Resign, Goto, Unlock, Calm, Upset, daemon,
                     restart
    <2>1. ElectionTypeOK' /\ ClientsWhole'
        BY DEF ClientsWhole, Leaving
    <2>2. Undisturbed' => Agreement'
        BY DEF Agreement, LockIsHeld, AtMostOneUp, AboutToSpawn, AwaitsLeader, Serving
    <2>3. QED BY <2>1, <2>2
<1> QED BY <1>1, <1>2, <1>3, <1>4, <1>5, <1>6, <1>7, <1>8, <1>9

(* The leaders: on their way up, serving, and on their way out.             *)
LEMMA LeadersKeep ==
    ASSUME ElectionInv, NEW l \in Leaders,
           \/ Bind(l) \/ Publish(l) \/ Serve(l) \/ Stop(l) \/ ReleaseSkipped(l)
           \/ ReleaseLock(l) \/ ReleaseCheck(l) \/ ReleaseUnlink(l) \/ Crash(l)
    PROVE  ElectionInv'
<1> USE Processes DEF ElectionInv, ElectionTypeOK, Undisturbed, Up, Coming, Gone
<1>1. CASE Bind(l)
    <2> USE <1>1 DEF Bind, files, client, restart
    <2>1. ElectionTypeOK' /\ ClientsWhole'
        BY PortToBind DEF ClientsWhole, Leaving
    <2>2. Undisturbed' => Agreement'
        BY DEF Agreement, LockIsHeld, AtMostOneUp, AboutToSpawn, AwaitsLeader
    <2>3. QED BY <2>1, <2>2
<1>2. CASE Publish(l)
    <2> USE <1>2 DEF Publish, client, restart
    <2>1. ElectionTypeOK' /\ ClientsWhole'
        BY DEF ClientsWhole, Leaving
    <2>2. Undisturbed' => Agreement'
        BY DEF Agreement, LockIsHeld, AtMostOneUp, AboutToSpawn, AwaitsLeader
    <2>3. QED BY <2>1, <2>2
<1>3. CASE Serve(l)
    <2> USE <1>3 DEF Serve, files, client, restart
    <2>1. ElectionTypeOK' /\ ClientsWhole'
        BY DEF ClientsWhole, Leaving
    <2>2. Undisturbed' => Agreement'
        BY DEF Agreement, LockIsHeld, AtMostOneUp, AboutToSpawn, AwaitsLeader
    <2>3. QED BY <2>1, <2>2
<1>4. CASE Stop(l)
    <2> USE <1>4 DEF Stop, files, client, restart
    <2>1. ElectionTypeOK' /\ ClientsWhole'
        BY DEF ClientsWhole, Leaving
    <2>2. Undisturbed' => Agreement'
        BY DEF Agreement, LockIsHeld, AtMostOneUp, AboutToSpawn, AwaitsLeader
    <2>3. QED BY <2>1, <2>2
<1>5. CASE ReleaseSkipped(l)
    <2> USE <1>5 DEF ReleaseSkipped, Die, files, restart
    <2>1. ElectionTypeOK' /\ ClientsWhole'
        BY DEF ClientsWhole, Leaving
    <2>2. Undisturbed' => Agreement'
        BY DEF Agreement, LockIsHeld, AtMostOneUp, AboutToSpawn, AwaitsLeader
    <2>3. QED BY <2>1, <2>2
<1>6. CASE ReleaseLock(l)
    <2> USE <1>6 DEF ReleaseLock, client, restart
    <2>1. ElectionTypeOK' /\ ClientsWhole'
        BY DEF ClientsWhole, Leaving
    <2>2. Undisturbed' => Agreement'
        BY DEF Agreement, LockIsHeld, AtMostOneUp, AboutToSpawn, AwaitsLeader
    <2>3. QED BY <2>1, <2>2
<1>7. CASE ReleaseCheck(l)
    <2> USE <1>7 DEF ReleaseCheck, Die, Unlock, client, restart
    <2>1. ElectionTypeOK' /\ ClientsWhole'
        BY DEF ClientsWhole, Leaving
    <2>2. Undisturbed' => Agreement'
        BY DEF Agreement, LockIsHeld, AtMostOneUp, AboutToSpawn, AwaitsLeader
    <2>3. QED BY <2>1, <2>2
<1>8. CASE ReleaseUnlink(l)
    <2> USE <1>8 DEF ReleaseUnlink, Die, Unlock, restart
    <2>1. ElectionTypeOK' /\ ClientsWhole'
        BY DEF ClientsWhole, Leaving
    <2>2. Undisturbed' => Agreement'
        <3> SUFFICES ASSUME Undisturbed' PROVE Agreement'
            OBVIOUS
        <3>1. /\ \A m \in Leaders \ {l} : life'[m] = life[m]
              /\ life[l] = "unlinking" /\ life'[l] = "dead"
              /\ op' = op /\ targets' = targets /\ lock' = None
            OBVIOUS
        <3>2. Undisturbed
            BY <3>1
        <3>3. Agreement /\ lock = l /\ elock = l
            BY <3>2 DEF Agreement, LockIsHeld
        <3>4. /\ \A c \in Clients : phase'[c] = phase[c]
              /\ \A m \in Leaders : life'[m] # "dead" => life'[m] = life[m] /\ m # l
            BY <3>1, <3>2
        <3>5. LockIsHeld' /\ AtMostOneUp'
            BY <3>1, <3>3, <3>4 DEF Agreement, LockIsHeld, AtMostOneUp
        <3>6. \A m \in Leaders : /\ life'[m] \in Up => ~AboutToSpawn'
                                 /\ life'[m] \in Coming => AwaitsLeader'
            BY <3>1, <3>3, <3>4 DEF Agreement, AboutToSpawn, AwaitsLeader
        <3>7. /\ op \notin {"check", "unlink"}
              /\ \A m \in Leaders :
                     life'[m] \in {"published", "serving", "unlinking"} => lock' = m
            BY <3>1, <3>3, <3>4 DEF Agreement, LockIsHeld
        <3> QED BY <3>1, <3>5, <3>6, <3>7 DEF Agreement
    <2>3. QED BY <2>1, <2>2
<1>9. CASE Crash(l)
    <2> USE <1>9 DEF Crash, Die, Unlock, Calm, Upset, restart
    <2>1. ElectionTypeOK' /\ ClientsWhole'
        BY DEF ClientsWhole, Leaving
    <2>2. ASSUME Undisturbed' PROVE Agreement'
        <3>1. Undisturbed
            BY <2>2
        <3>2. QED BY <2>2, <3>1 DEF Agreement, LockIsHeld, AtMostOneUp, AboutToSpawn, AwaitsLeader
    <2>3. QED BY <2>1, <2>2
<1> QED BY <1>1, <1>2, <1>3, <1>4, <1>5, <1>6, <1>7, <1>8, <1>9

(* A spawned daemon takes a slot that nobody remembers, if there is one.    *)
LEMMA SpawnTakesASlot ==
    ASSUME SpawnDaemon
    PROVE  \/ life' = life
           \/ \E d \in Daemons : Free(d) /\ life' = [life EXCEPT ![d] = "booting"]
BY DEF SpawnDaemon

(* A client, or a restart, spawns a leader.                                 *)
LEMMA SpawnsKeep ==
    ASSUME ElectionInv, (\E c \in Clients : Spawn(c)) \/ RestartSpawns
    PROVE  ElectionInv'
<1> USE Processes DEF ElectionInv, ElectionTypeOK, Undisturbed, Up, Coming, Gone
<1>1. SpawnDaemon
    BY DEF Spawn, RestartSpawns
<1>2. ASSUME NEW c \in Clients, Spawn(c) PROVE ElectionInv'
    <2> USE <1>2 DEF Spawn, Goto, files, restart
    <2>1. ElectionTypeOK' /\ ClientsWhole'
        BY <1>1, SpawnTakesASlot DEF ClientsWhole, Leaving
    <2>2. Undisturbed' => Agreement'
        BY <1>1, SpawnTakesASlot DEF Agreement, LockIsHeld, AtMostOneUp, AboutToSpawn, AwaitsLeader,
                                     Free
    <2>3. QED BY <2>1, <2>2
<1>3. CASE RestartSpawns
    <2> USE <1>3 DEF RestartSpawns, files, client
    <2>1. ElectionTypeOK' /\ ClientsWhole'
        BY <1>1, SpawnTakesASlot DEF ClientsWhole, Leaving
    <2>2. Undisturbed' => Agreement'
        BY <1>1, SpawnTakesASlot DEF Agreement, LockIsHeld, AtMostOneUp, AboutToSpawn, AwaitsLeader,
                                     Free
    <2>3. QED BY <2>1, <2>2
<1> QED BY <1>2, <1>3

(* The operator asks for a restart.                                         *)
LEMMA AskRestartKeeps ==
    ASSUME ElectionInv, NEW start \in BOOLEAN, AskRestart(start)
    PROVE  ElectionInv'
<1> USE Processes DEF ElectionInv, ElectionTypeOK, Undisturbed, Up, Coming, Gone,
                      AskRestart, files, daemon, client
<1>1. ElectionTypeOK' /\ ClientsWhole'
    BY DEF ClientsWhole
<1>2. Undisturbed' => Agreement'
    BY DEF Agreement, LockIsHeld, AtMostOneUp, AboutToSpawn, AwaitsLeader
<1> QED BY <1>1, <1>2

(* octowright restart, from the lock it takes to the daemon it confirms.    *)
LEMMA RestartKeeps ==
    ASSUME ElectionInv,
           \/ RestartLocks \/ RestartSignals \/ RestartStops \/ RestartChecks \/ RestartUnlinks
           \/ RestartProbes \/ RestartConfirms \/ KillRestart
    PROVE  ElectionInv'
<1> USE Processes DEF ElectionInv, ElectionTypeOK, Undisturbed, Up, Coming, Gone
<1>1. CASE RestartLocks
    <2> USE <1>1 DEF RestartLocks, Calm, Upset, daemon, client
    <2>1. ElectionTypeOK' /\ ClientsWhole'
        BY DEF ClientsWhole, Leaving
    <2>2. Undisturbed' => Agreement'
        BY DEF Agreement, LockIsHeld, AtMostOneUp, AboutToSpawn, AwaitsLeader
    <2>3. QED BY <2>1, <2>2
<1>2. CASE RestartSignals
    <2> USE <1>2 DEF RestartSignals, AfterUnlink, RestartDone, Unlock, client, daemon
    <2>1. ElectionTypeOK' /\ ClientsWhole'
        BY DEF ClientsWhole, Leaving
    <2>2. Undisturbed' => Agreement'
        BY DEF Agreement, LockIsHeld, AtMostOneUp, AboutToSpawn, AwaitsLeader
    <2>3. QED BY <2>1, <2>2
<1>3. CASE RestartStops
    <2> USE <1>3 DEF RestartStops, Die
    <2>1. ElectionTypeOK' /\ ClientsWhole'
        BY DEF ClientsWhole, Leaving
    <2>2. Undisturbed' => Agreement'
        <3> SUFFICES ASSUME Undisturbed' PROVE Agreement'
            OBVIOUS
        <3>1. /\ \A l \in Leaders : life'[l] = life[l] \/ life'[l] = "dead"
              /\ \A l \in targets : life'[l] \in Gone
              /\ op = "stopping" /\ op' = "check" /\ lock' = lock /\ targets' = targets
            OBVIOUS
        <3>2. Undisturbed
            BY <3>1
        <3>3. Agreement /\ elock = Operator /\ elock' = Operator
            BY <3>2 DEF Agreement, LockIsHeld
        <3>4. \A c \in Clients : phase'[c] = phase[c]
            BY <3>2
        <3> HIDE DEF ElectionInv, ElectionTypeOK, Undisturbed, RestartStops, Die
        <3>5. LockIsHeld' /\ AtMostOneUp'
            BY <3>1, <3>3, <3>4 DEF Agreement, LockIsHeld, AtMostOneUp
        <3>6. \A l \in Leaders : /\ life'[l] \in Up => ~AboutToSpawn'
                                 /\ life'[l] \in Coming => AwaitsLeader'
            BY <3>1, <3>3, <3>4 DEF Agreement, AboutToSpawn, AwaitsLeader
        <3>7. \A l \in Leaders : life'[l] \in {"published", "serving", "unlinking"} => lock' = l
            BY <3>1, <3>3 DEF Agreement
        <3> QED BY <3>1, <3>5, <3>6, <3>7 DEF Agreement
    <2>3. QED BY <2>1, <2>2
<1>4. CASE RestartChecks
    <2> USE <1>4 DEF RestartChecks, AfterUnlink, RestartDone, Unlock, daemon, client
    <2>1. ElectionTypeOK' /\ ClientsWhole'
        BY DEF ClientsWhole, Leaving
    <2>2. Undisturbed' => Agreement'
        BY DEF Agreement, LockIsHeld, AtMostOneUp, AboutToSpawn, AwaitsLeader
    <2>3. QED BY <2>1, <2>2
<1>5. CASE RestartUnlinks
    <2> USE <1>5 DEF RestartUnlinks, AfterUnlink, RestartDone, Unlock, daemon, client
    <2>1. ElectionTypeOK' /\ ClientsWhole'
        BY DEF ClientsWhole, Leaving
    <2>2. Undisturbed' => Agreement'
        BY DEF Agreement, LockIsHeld, AtMostOneUp, AboutToSpawn, AwaitsLeader
    <2>3. QED BY <2>1, <2>2
<1>6. CASE RestartProbes
    <2> USE <1>6 DEF RestartProbes, RestartDone, Unlock, Calm, Upset, daemon, client, ProbeHits,
                     CanonicalHits
    <2>1. ElectionTypeOK' /\ ClientsWhole'
        BY DEF ClientsWhole, Leaving
    <2>2. Undisturbed' => Agreement'
        BY DEF Agreement, LockIsHeld, AtMostOneUp, AboutToSpawn, AwaitsLeader, Serving
    <2>3. QED BY <2>1, <2>2
<1>7. CASE RestartConfirms
    <2> USE <1>7 DEF RestartConfirms, RestartDone, Unlock, Calm, Upset, daemon, client, ProbeHits,
                     CanonicalHits
    <2>1. ElectionTypeOK' /\ ClientsWhole'
        BY DEF ClientsWhole, Leaving
    <2>2. Undisturbed' => Agreement'
        BY DEF Agreement, LockIsHeld, AtMostOneUp, AboutToSpawn, AwaitsLeader, Serving
    <2>3. QED BY <2>1, <2>2
<1>8. CASE KillRestart
    <2> USE <1>8 DEF KillRestart, RestartDone, Unlock, Upset, daemon, client
    <2>1. ElectionTypeOK' /\ ClientsWhole'
        BY DEF ClientsWhole, Leaving
    <2>2. Undisturbed' => Agreement'
        BY DEF Agreement, LockIsHeld, AtMostOneUp, AboutToSpawn, AwaitsLeader
    <2>3. QED BY <2>1, <2>2
<1> QED BY <1>1, <1>2, <1>3, <1>4, <1>5, <1>6, <1>7, <1>8

-----------------------------------------------------------------------------
(* Nobody runs and the lock is free at the start.                           *)
LEMMA InitElection == ElectionInit => ElectionInv
BY Processes DEF ElectionInit, ElectionInv, ElectionTypeOK, ClientsWhole, Agreement, LockIsHeld, AtMostOneUp,
   AboutToSpawn, AwaitsLeader, Up, Coming, Gone

(* Whatever is upset, stopped, crashed or restarted, the processes keep     *)
(* their types, and until an upset the holder of the election lock knows    *)
(* who is up (elect_leader, _run_leader_phases, restart).                   *)
THEOREM ElectionInvariant == ElectionSpec => []ElectionInv
<1>1. ElectionInv /\ [ElectionNext]_election => ElectionInv'
    <2> SUFFICES ASSUME ElectionInv, [ElectionNext]_election PROVE ElectionInv'
        OBVIOUS
    <2>1. CASE UNCHANGED election
        BY <2>1 DEF election, ElectionInv, ElectionTypeOK, ClientsWhole, Undisturbed, Agreement, LockIsHeld,
                    AtMostOneUp, AboutToSpawn, AwaitsLeader
    <2>2. CASE Progress
        BY <2>2, ClientsKeep, LeadersKeep, RestartKeeps, SpawnsKeep
           DEF Progress, ClientStep, LeaderStep, RestartStep
    <2>3. CASE ElectionNext /\ ~Progress
        BY <2>3, ClientsKeep, LeadersKeep, RestartKeeps, AskRestartKeeps DEF ElectionNext
    <2>4. QED BY <2>1, <2>2, <2>3
<1>2. QED BY InitElection, <1>1, PTL DEF ElectionSpec

(* One machine gets one leader, and it is the one the lockfile names, as    *)
(* long as nothing was upset and nobody has had to serve inline: however    *)
(* many clients start, lose their leader or restart it together             *)
(* (elect_leader, release_own_lock, remove_lock_if_owned, restart).         *)
THEOREM OneLeaderIsFound == ElectionSpec => []OneVisibleLeader
<1>1. ElectionInv => OneVisibleLeader
    BY DEF ElectionInv, OneVisibleLeader, OneLeader, NoHiddenLeader, Agreement, AtMostOneUp, Serving
<1>2. QED BY ElectionInvariant, <1>1, PTL

(* A follower that finds no leader and exits has left one behind it on its  *)
(* way up, or has seen somebody else elect one (_respawn_if_leader_gone).   *)
THEOREM RespawnsLeaveALeader == ElectionSpec => RespawnLeavesLeader
<1>1. ASSUME ElectionInv, ElectionNext, NEW c \in Clients,
             mode[c] = "respawn", phase[c] # "left", phase'[c] = "left", upsets' = 0
      PROVE  (\E l \in Leaders : life[l] \in Up) \/ phase[c] = "awaiting"
    <2> USE <1>1, Processes DEF ElectionInv, ElectionTypeOK
    <2>1. life[c] = "unborn"
        BY DEF ClientsWhole
    <2>2. ASSUME NEW d \in Clients, FirstProbe(d) \/ Recheck(d) \/ ProbeCanonical(d) \/ Adopt(d)
          PROVE  \E l \in Leaders : life[l] \in Up
        BY <2>2 DEF FirstProbe, Recheck, ProbeCanonical, Adopt, Finds, Misses, ProbeHits, CanonicalHits,
                    CanonicalMisses, Settle, Goto, Serving, Up
    <2>3. ASSUME NEW d \in Clients, Await(d)
          PROVE  phase[c] = "awaiting"
        BY <2>3 DEF Await, Finds, Settle, Resign, Goto, Calm, Upset, ClientsWhole
    <2>4. ASSUME NEW d \in Clients, \/ AcquireElection(d) \/ ElectionTimesOut(d) \/ Spawn(d)
                                    \/ BridgeEnds(d) \/ Kill(d)
          PROVE  FALSE
        BY <2>4 DEF AcquireElection, ElectionTimesOut, Spawn, BridgeEnds, Kill, Goto, Upset
    <2>5. ASSUME NEW l \in Leaders, LeaderStep(l) \/ Stop(l) \/ Crash(l)
          PROVE  FALSE
        BY <2>1, <2>5 DEF LeaderStep, Bind, Publish, Serve, Stop, ReleaseSkipped, ReleaseLock, ReleaseCheck,
                          ReleaseUnlink, Crash, Die, client, Gone
    <2>6. RestartStep => FALSE
        BY <2>1 DEF RestartStep, RestartLocks, RestartSignals, RestartStops, RestartChecks, RestartUnlinks,
                    RestartProbes, RestartSpawns, RestartConfirms, Die, client, Gone
    <2>7. (\E start \in BOOLEAN : AskRestart(start)) \/ KillRestart => FALSE
        BY DEF AskRestart, KillRestart, client
    <2>8. QED BY <2>2, <2>3, <2>4, <2>5, <2>6, <2>7 DEF ElectionNext, Progress, ClientStep
<1>2. ElectionInv /\ [ElectionNext]_election =>
        [\A c \in Clients :
            mode[c] = "respawn" /\ phase[c] # "left" /\ phase'[c] = "left" /\ upsets' = 0
            => \/ \E l \in Leaders : life[l] \in Up
               \/ phase[c] = "awaiting"]_election
    BY <1>1
<1>3. QED BY <1>2, ElectionInvariant, PTL DEF ElectionSpec, RespawnLeavesLeader

-----------------------------------------------------------------------------
(* The idempotency cache.                                                   *)

(* The inductive invariant.                                                 *)

(* _cache is ordered: of any of its entries one was touched first, so there *)
(* is something to evict whenever there is something that may go.           *)
WellOrders(r, ks) ==
    \A some \in SUBSET ks : some # {} => \E k \in some : \A j \in some \ {k} : <<k, j>> \in r

Ordered == WellOrders(order, Entries)

(* An entry tells how long ago its key ran, and a key without an entry can  *)
(* no longer be re-sent.                                                    *)
AgesAreTrue ==
    \A k \in Keys : /\ slot[k] \in Endings => age[k] = since[k]
                    /\ slot[k] = "free" => since[k] > Window

CacheInv ==
    /\ CacheTypeOK /\ Ordered /\ AgesAreTrue /\ NobodySleepsOn
    /\ IsFiniteSet(Entries) /\ WithinBound

-----------------------------------------------------------------------------
(* The order, whatever is evicted and touched.                              *)
LEMMA AmongIsOrdered ==
    ASSUME Ordered, NEW kept \in SUBSET Entries
    PROVE  Among(kept) \subseteq kept \X kept /\ WellOrders(Among(kept), kept)
<1> SUFFICES ASSUME NEW some \in SUBSET kept, some # {}
             PROVE  \E k \in some : \A j \in some \ {k} : <<k, j>> \in Among(kept)
    BY Zenon DEF WellOrders, Among
<1>1. PICK k \in some : \A j \in some \ {k} : <<k, j>> \in order
    BY DEF Ordered, WellOrders
<1> QED BY <1>1 DEF Among

(* Moving a key to the end keeps the order of use total.                    *)
LEMMA LastIsOrdered ==
    ASSUME Ordered, NEW kept \in SUBSET Entries, NEW k
    PROVE  /\ Last(k, kept) \subseteq (kept \cup {k}) \X (kept \cup {k})
           /\ WellOrders(Last(k, kept), kept \cup {k})
<1>1. Last(k, kept) \subseteq (kept \cup {k}) \X (kept \cup {k})
    BY DEF Last, Among
<1>2. ASSUME NEW some \in SUBSET (kept \cup {k}), some # {}
      PROVE  \E i \in some : \A j \in some \ {i} : <<i, j>> \in Last(k, kept)
    <2>1. CASE some = {k}
        BY <2>1
    <2>2. CASE some # {k}
        <3>1. some \ {k} # {} /\ some \ {k} \in SUBSET Entries
            BY <1>2, <2>2
        <3>2. PICK i \in some \ {k} : \A j \in (some \ {k}) \ {i} : <<i, j>> \in order
            BY <3>1 DEF Ordered, WellOrders
        <3>3. \A j \in some \ {i} : <<i, j>> \in Last(k, kept)
            BY <3>2 DEF Last, Among
        <3>4. QED BY <3>2, <3>3
    <2>3. QED BY <2>1, <2>2
<1> QED BY <1>1, <1>2 DEF WellOrders

(* Evicting what has expired forgets nothing that may still be re-sent.     *)
LEMMA KeepKeeps ==
    ASSUME CacheInv, Keep(Kept), age' = age, since' = since
    PROVE  /\ slot' \in [Keys -> {"free", "running"} \cup Endings]
           /\ Entries' = Kept /\ IsFiniteSet(Kept) /\ Cardinality(Kept) <= Bound
           /\ AgesAreTrue'
           /\ \A k \in Keys : slot[k] = "running" => slot'[k] = "running"
           /\ \A k \in Keys : Remembered(k)' = Remembered(k)
<1> USE TimeAssumption
<1>1. Kept \subseteq Entries /\ Entries \subseteq Keys
    BY DEF Kept, Entries
<1>2. IsFiniteSet(Kept) /\ Cardinality(Kept) <= Bound
    <2>1. IsFiniteSet(Kept) /\ Cardinality(Kept) <= Cardinality(Entries) /\ Cardinality(Kept) \in Nat
          /\ Cardinality(Entries) \in Nat
        BY <1>1, FS_Subset, FS_CardinalityType DEF CacheInv
    <2>2. QED BY <2>1, BoundAssumption DEF CacheInv, WithinBound
<1>3. \A k \in Keys : slot'[k] = IF k \in Kept THEN slot[k] ELSE "free"
    BY DEF Keep
<1>4. \A k \in Keys : k \notin Kept => slot[k] # "running" /\ since[k] > Window
    BY DEF Kept, Expired, Entries, Endings, CacheInv, CacheTypeOK, AgesAreTrue, Old
<1>5. slot' \in [Keys -> {"free", "running"} \cup Endings] /\ Entries' = Kept
    <2>1. slot' \in [Keys -> {"free", "running"} \cup Endings]
        BY DEF Keep, CacheInv, CacheTypeOK
    <2>2. \A k \in Keys : k \in Kept => slot[k] # "free"
        BY DEF Kept, Entries
    <2>3. QED BY <1>1, <1>3, <2>1, <2>2 DEF Entries
<1>6. AgesAreTrue'
    BY <1>3, <1>4 DEF CacheInv, AgesAreTrue, Endings
<1>7. \A k \in Keys : Remembered(k)' = Remembered(k)
    BY <1>3, <1>4 DEF Remembered
<1> QED BY <1>2, <1>3, <1>4, <1>5, <1>6, <1>7

(* The bound: what a claim needs, and it gets or it is refused.             *)
LEMMA RoomIsMade ==
    ASSUME CacheInv, ~Refused, NEW k, k \notin Kept
    PROVE  /\ Roomy \subseteq Kept /\ IsFiniteSet(Roomy \cup {k})
           /\ Cardinality(Roomy \cup {k}) <= Bound
<1>1. Kept \subseteq Entries
    BY DEF Kept
<1>2. IsFiniteSet(Kept) /\ Cardinality(Kept) <= Bound /\ Cardinality(Kept) \in Nat
    <2>1. IsFiniteSet(Kept) /\ Cardinality(Kept) <= Cardinality(Entries) /\ Cardinality(Kept) \in Nat
          /\ Cardinality(Entries) \in Nat
        BY <1>1, FS_Subset, FS_CardinalityType DEF CacheInv
    <2>2. QED BY <2>1, BoundAssumption DEF CacheInv, WithinBound
<1>3. Roomy \subseteq Kept
    BY DEF Roomy
<1>4. IsFiniteSet(Roomy) /\ Cardinality(Roomy) \in Nat /\ Cardinality(Roomy) < Bound
    <2>1. CASE ~Full
        BY <1>2, <2>1, BoundAssumption DEF Roomy, Full
    <2>2. CASE Full
        <3>1. Reusable # {} /\ Reusable \in SUBSET Entries
            BY <1>1, <2>2 DEF Refused, Reusable
        <3>2. PICK i \in Reusable : \A j \in Reusable \ {i} : <<i, j>> \in order
            BY <3>1 DEF CacheInv, Ordered, WellOrders
        <3>3. i \in Kept /\ i \notin Roomy
            BY <2>2, <3>2 DEF Reusable, Roomy, Oldest
        <3>4. QED BY <1>2, <1>3, <3>3, FS_Subset, FS_CardinalityType, BoundAssumption
    <2>3. QED BY <2>1, <2>2
<1>5. k \notin Roomy
    BY <1>3
<1>6. IsFiniteSet(Roomy \cup {k}) /\ Cardinality(Roomy \cup {k}) = Cardinality(Roomy) + 1
    BY <1>4, <1>5, FS_AddElement
<1> QED BY <1>3, <1>4, <1>6, BoundAssumption
-----------------------------------------------------------------------------
(* Every step keeps the invariant.                                          *)
LEMMA InitCache == Init => CacheInv
<1> SUFFICES ASSUME Init PROVE CacheInv
    OBVIOUS
<1> USE DEF Init
<1>1. Entries = {}
    BY DEF Entries
<1>2. Ordered
    BY <1>1 DEF Ordered, WellOrders
<1>3. CacheTypeOK
    BY <1>1, TimeAssumption, KeyAssumption DEF CacheTypeOK, Old
<1>4. AgesAreTrue
    BY TimeAssumption DEF AgesAreTrue, Old, Endings
<1> QED BY <1>1, <1>2, <1>3, <1>4, FS_EmptySet, BoundAssumption DEF CacheInv, WithinBound, NobodySleepsOn

(* An answer leaves nobody else asleep.                                     *)
LEMMA AnswerKeeps ==
    ASSUME CacheInv, NEW c \in Callers, pc[c] # "answered",
           NEW a \in {"result", "unavailable", "unknown", "capacity", "error", "cancelled"}, Answer(c, a),
           \A k \in Keys : slot[k] = "running" => slot'[k] = "running"
    PROVE  /\ pc' \in [Callers -> {"idle", "calling", "waiting", "woken", "producing", "answered"}]
           /\ key' \in [Callers -> Keys \cup {NoKey}]
           /\ waited' \in [Callers -> 0..Patience]
           /\ answer' \in [Callers -> {"none", "result", "unavailable", "unknown",
                                       "capacity", "error", "cancelled"}]
           /\ \A d \in Callers : key'[d] = NoKey <=> pc'[d] \in {"idle", "answered"}
           /\ NobodySleepsOn'
<1> USE DEF CacheInv, CacheTypeOK, Answer
<1>1. waited' \in [Callers -> 0..Patience]
    BY TimeAssumption
<1>2. NobodySleepsOn'
    BY DEF NobodySleepsOn
<1> QED BY <1>1, <1>2

(* A caller calls, gives up or is cancelled.                                *)
LEMMA CallKeeps ==
    ASSUME CacheInv, NEW c \in Callers, Call(c) \/ GiveUp(c) \/ Cancel(c)
    PROVE  CacheInv'
<1>1. /\ slot' = slot /\ order' = order /\ age' = age /\ since' = since /\ Entries' = Entries
    BY DEF Call, GiveUp, Cancel, cache, Entries
<1>2. Ordered' /\ AgesAreTrue' /\ WithinBound' /\ IsFiniteSet(Entries')
    BY <1>1 DEF CacheInv, Ordered, AgesAreTrue, WithinBound
<1>3. CASE Call(c)
    <2>1. CacheTypeOK'
        BY <1>1, <1>3, KeyAssumption DEF Call, CacheInv, CacheTypeOK
    <2>2. NobodySleepsOn'
        BY <1>1, <1>3 DEF Call, CacheInv, CacheTypeOK, NobodySleepsOn
    <2>3. QED BY <1>2, <2>1, <2>2 DEF CacheInv
<1>4. CASE GiveUp(c) \/ Cancel(c)
    <2>1. pc[c] # "answered" /\ (Answer(c, "unknown") \/ Answer(c, "cancelled"))
        BY <1>4 DEF GiveUp, Cancel
    <2>2. /\ pc' \in [Callers -> {"idle", "calling", "waiting", "woken", "producing", "answered"}]
          /\ key' \in [Callers -> Keys \cup {NoKey}]
          /\ waited' \in [Callers -> 0..Patience]
          /\ answer' \in [Callers -> {"none", "result", "unavailable", "unknown",
                                      "capacity", "error", "cancelled"}]
          /\ \A d \in Callers : key'[d] = NoKey <=> pc'[d] \in {"idle", "answered"}
          /\ NobodySleepsOn'
        BY <1>1, <2>1, AnswerKeeps
    <2>3. CacheTypeOK'
        BY <1>1, <2>2 DEF CacheInv, CacheTypeOK
    <2>4. QED BY <1>2, <2>2, <2>3 DEF CacheInv
<1>5. QED BY <1>3, <1>4

(* A pass of the wrapper's loop that finds an entry, or no room for one.    *)
LEMMA FoundKeeps ==
    ASSUME CacheInv, NEW c \in Callers, pc[c] \in {"calling", "woken"}, Hit(c) \/ Join(c) \/ Refuse(c)
    PROVE  /\ CacheInv'
           /\ \A k \in Keys : Remembered(k)' = Remembered(k)
<1>1. /\ Keep(Kept) /\ age' = age /\ since' = since
    BY Zenon DEF Hit, Join, Refuse
<1>2. /\ slot' \in [Keys -> {"free", "running"} \cup Endings]
      /\ Entries' = Kept /\ IsFiniteSet(Kept) /\ Cardinality(Kept) <= Bound
      /\ AgesAreTrue'
      /\ \A k \in Keys : slot[k] = "running" => slot'[k] = "running"
      /\ \A k \in Keys : Remembered(k)' = Remembered(k)
    BY <1>1, KeepKeeps
<1>3. Kept \in SUBSET Entries
    BY DEF Kept
<1>4. order' \subseteq Kept \X Kept /\ WellOrders(order', Kept)
    <2>1. CASE order' = Among(Kept)
        BY <1>3, <2>1, AmongIsOrdered DEF CacheInv
    <2>2. CASE Hit(c)
        <3>1. order' = Last(key[c], Kept) /\ Kept \cup {key[c]} = Kept
            BY <2>2 DEF Hit
        <3>2. QED BY <1>3, <3>1, LastIsOrdered DEF CacheInv
    <2>3. QED BY <2>1, <2>2 DEF Join, Refuse
<1>5. /\ pc' \in [Callers -> {"idle", "calling", "waiting", "woken", "producing", "answered"}]
      /\ key' \in [Callers -> Keys \cup {NoKey}]
      /\ waited' \in [Callers -> 0..Patience]
      /\ answer' \in [Callers -> {"none", "result", "unavailable", "unknown",
                                  "capacity", "error", "cancelled"}]
      /\ \A d \in Callers : key'[d] = NoKey <=> pc'[d] \in {"idle", "answered"}
      /\ NobodySleepsOn'
    <2>1. CASE Hit(c)
        <3>1. slot[key[c]] \in Endings
            BY <2>1 DEF Hit
        <3>2. Answer(c, "result") \/ Answer(c, "unavailable") \/ Answer(c, "unknown")
            BY <2>1, <3>1, Zenon DEF Hit, Endings
        <3>3. QED BY <1>2, <3>2, AnswerKeeps
    <2>2. CASE Refuse(c)
        <3>1. Answer(c, "capacity")
            BY <2>2 DEF Refuse
        <3>2. QED BY <1>2, <3>1, AnswerKeeps
    <2>3. CASE Join(c)
        <3>1. NobodySleepsOn'
            BY <1>2, <1>3, <2>3 DEF Join, CacheInv, CacheTypeOK, NobodySleepsOn, Entries
        <3>2. QED BY <2>3, <3>1, TimeAssumption DEF Join, CacheInv, CacheTypeOK
    <2>4. QED BY <2>1, <2>2, <2>3
<1>6. CacheTypeOK'
    BY <1>1, <1>2, <1>4, <1>5 DEF CacheInv, CacheTypeOK
<1> QED BY <1>2, <1>4, <1>5, <1>6 DEF CacheInv, WithinBound, Ordered

(* A caller claims a key nobody runs: the key becomes its, and no other     *)
(* changes.                                                                 *)
LEMMA ClaimKeeps ==
    ASSUME CacheInv, NEW c \in Callers, pc[c] \in {"calling", "woken"}, Claim(c)
    PROVE  /\ CacheInv'
           /\ key[c] \in Keys
           /\ Remembered(key[c]) = "fresh" /\ Remembered(key[c])' = "running"
           /\ \A k \in Keys \ {key[c]} : Remembered(k)' = Remembered(k)
<1> DEFINE k == key[c]
<1>0. k \in Keys
    BY DEF CacheInv, CacheTypeOK
<1>1. /\ k \notin Kept /\ ~Refused /\ order' = Last(k, Roomy)
      /\ slot' = [j \in Keys |-> IF j = k THEN "running" ELSE IF j \in Roomy THEN slot[j] ELSE "free"]
      /\ age' = [age EXCEPT ![k] = Old] /\ since' = [since EXCEPT ![k] = 0]
      /\ pc' = [pc EXCEPT ![c] = "producing"]
      /\ key' = key /\ waited' = waited /\ answer' = answer
    BY DEF Claim
<1>2. Roomy \subseteq Kept /\ IsFiniteSet(Roomy \cup {k}) /\ Cardinality(Roomy \cup {k}) <= Bound
    BY <1>1, RoomIsMade
<1>3. Kept \subseteq Entries /\ Entries \subseteq Keys
    BY DEF Kept, Entries
<1>4. \A j \in Keys : j \notin Roomy => slot[j] # "running" /\ since[j] > Window
    BY TimeAssumption DEF Roomy, Oldest, Reusable, Kept, Expired, Entries, Endings, CacheInv, CacheTypeOK,
       AgesAreTrue, Old
<1>5. \A j \in Keys : slot'[j] = IF j = k THEN "running" ELSE IF j \in Roomy THEN slot[j] ELSE "free"
    BY <1>1
<1>6. slot' \in [Keys -> {"free", "running"} \cup Endings]
    BY <1>1 DEF CacheInv, CacheTypeOK
<1>7. Entries' = Roomy \cup {k}
    <2>1. \A j \in Roomy : slot[j] # "free"
        BY <1>2, <1>3 DEF Entries
    <2>2. QED BY <1>0, <1>2, <1>3, <1>5, <2>1 DEF Entries
<1>8. order' \subseteq Entries' \X Entries' /\ WellOrders(order', Entries')
    BY <1>1, <1>2, <1>3, <1>7, LastIsOrdered DEF CacheInv
<1>9. AgesAreTrue'
    <2> SUFFICES ASSUME NEW j \in Keys
                 PROVE  /\ slot'[j] \in Endings => age'[j] = since'[j]
                        /\ slot'[j] = "free" => since'[j] > Window
        BY DEF AgesAreTrue
    <2>1. CASE j = k
        BY <1>5, <2>1 DEF Endings
    <2>2. CASE j # k
        <3>1. age'[j] = age[j] /\ since'[j] = since[j]
            BY <1>1, <2>2 DEF CacheInv, CacheTypeOK
        <3>2. QED BY <1>4, <1>5, <2>2, <3>1 DEF CacheInv, AgesAreTrue, Endings
    <2>3. QED BY <2>1, <2>2
<1>10. CacheTypeOK'
    BY <1>0, <1>1, <1>6, <1>8, TimeAssumption DEF CacheInv, CacheTypeOK, Old
<1>11. NobodySleepsOn'
    BY <1>1, <1>4, <1>5 DEF CacheInv, CacheTypeOK, NobodySleepsOn
<1>12. CacheInv'
    BY <1>2, <1>7, <1>8, <1>9, <1>10, <1>11 DEF CacheInv, WithinBound, Ordered
<1>13. Remembered(k) = "fresh" /\ Remembered(k)' = "running"
    <2>1. k \notin Roomy /\ since[k] \in Nat
        BY <1>0, <1>1, <1>2 DEF CacheInv, CacheTypeOK
    <2>2. QED BY <1>0, <1>1, <1>4, <1>5, <2>1, TimeAssumption DEF Remembered
<1>14. ASSUME NEW j \in Keys \ {k} PROVE Remembered(j)' = Remembered(j)
    <2>1. since'[j] = since[j] /\ since[j] \in Nat
        BY <1>1, <1>14 DEF CacheInv, CacheTypeOK
    <2>2. QED BY <1>4, <1>5, <1>14, <2>1, TimeAssumption DEF Remembered
<1> QED BY <1>0, <1>12, <1>13, <1>14
(* The run ends: its waiters wake, its producer is answered.                *)
LEMMA FinishKeeps ==
    ASSUME CacheInv, NEW k \in Keys, NEW end \in Endings, Finish(k, end)
    PROVE  /\ CacheInv'
           /\ Remembered(k) = "running" /\ Remembered(k)' = "kept"
           /\ \A j \in Keys \ {k} : Remembered(j)' = Remembered(j)
<1> USE DEF Finish
<1>1. /\ \A j \in Keys : /\ j # k => slot'[j] = slot[j] /\ age'[j] = age[j] /\ since'[j] = since[j]
                         /\ j = k => slot'[j] = end /\ age'[j] = 0 /\ since'[j] = 0
      /\ slot' \in [Keys -> {"free", "running"} \cup Endings]
      /\ age' \in [Keys -> 0..Old] /\ since' \in [Keys -> 0..Old]
    BY TimeAssumption DEF DoneAt, CacheInv, CacheTypeOK, Old
<1>2. slot[k] = "running" /\ end # "free" /\ end # "running"
    BY DEF Endings
<1>3. Entries' = Entries
    BY <1>1, <1>2 DEF Entries
<1>4. AgesAreTrue'
    BY <1>1, <1>2 DEF CacheInv, AgesAreTrue
<1>5. \A c \in Callers :
          /\ c \in Woken(k, end) => pc'[c] = "woken" /\ key'[c] = key[c] /\ answer'[c] = answer[c]
          /\ c \in Producers(k) => pc'[c] = "answered" /\ key'[c] = NoKey /\ answer'[c] \in {"error", "result"}
          /\ c \notin Woken(k, end) \cup Producers(k) =>
                 pc'[c] = pc[c] /\ key'[c] = key[c] /\ answer'[c] = answer[c]
    BY DEF Woken, Producers
<1>6. /\ pc' \in [Callers -> {"idle", "calling", "waiting", "woken", "producing", "answered"}]
      /\ key' \in [Callers -> Keys \cup {NoKey}]
      /\ answer' \in [Callers -> {"none", "result", "unavailable", "unknown",
                                  "capacity", "error", "cancelled"}]
    BY DEF CacheInv, CacheTypeOK
<1>7. \A c \in Callers : key'[c] = NoKey <=> pc'[c] \in {"idle", "answered"}
    BY <1>5, KeyAssumption DEF Woken, Producers, CacheInv, CacheTypeOK
<1>8. CacheTypeOK'
    BY <1>1, <1>3, <1>6, <1>7 DEF CacheInv, CacheTypeOK
<1>9. NobodySleepsOn'
    BY <1>1, <1>5 DEF Woken, Producers, CacheInv, CacheTypeOK, NobodySleepsOn
<1>10. CacheInv'
    BY <1>3, <1>4, <1>8, <1>9 DEF CacheInv, WithinBound, Ordered
<1>11. Remembered(k) = "running" /\ Remembered(k)' = "kept"
    BY <1>1, <1>2, TimeAssumption DEF Remembered
<1>12. \A j \in Keys \ {k} : Remembered(j)' = Remembered(j)
    BY <1>1 DEF Remembered
<1> QED BY <1>10, <1>11, <1>12

(* Time passes: what ran may be forgotten, once the window is over.         *)
LEMMA TickKeeps ==
    ASSUME CacheInv, Tick
    PROVE  /\ CacheInv'
           /\ \A k \in Keys : \/ Remembered(k)' = Remembered(k)
                              \/ Remembered(k) = "kept" /\ Remembered(k)' = "fresh"
<1> USE TimeAssumption DEF Tick
<1>1. /\ \A k \in Keys : /\ age'[k] = Later(age[k], Old)
                         /\ slot[k] = "running" => since'[k] = 0
                         /\ slot[k] # "running" => since'[k] = Later(since[k], Old)
      /\ \A c \in Callers : waited'[c] = IF pc[c] = "waiting" THEN Later(waited[c], Patience) ELSE waited[c]
    OBVIOUS
<1>2. /\ \A n \in 0..Old : Later(n, Old) \in 0..Old /\ Later(n, Old) >= n
      /\ \A n \in 0..Patience : Later(n, Patience) \in 0..Patience
    BY DEF Later, Old
<1>3. age' \in [Keys -> 0..Old] /\ since' \in [Keys -> 0..Old] /\ waited' \in [Callers -> 0..Patience]
    <2>1. age' \in [Keys -> 0..Old]
        BY <1>2 DEF CacheInv, CacheTypeOK
    <2>2. since' \in [Keys -> 0..Old]
        BY <1>2 DEF CacheInv, CacheTypeOK, Old
    <2>3. waited' \in [Callers -> 0..Patience]
        BY <1>2 DEF CacheInv, CacheTypeOK
    <2>4. QED BY <2>1, <2>2, <2>3
<1>4. Entries' = Entries
    BY DEF Entries
<1>5. CacheTypeOK'
    BY <1>3, <1>4 DEF CacheInv, CacheTypeOK
<1>6. AgesAreTrue'
    <2> SUFFICES ASSUME NEW k \in Keys
                 PROVE  /\ slot[k] \in Endings => age'[k] = since'[k]
                        /\ slot[k] = "free" => since'[k] > Window
        BY DEF AgesAreTrue
    <2>1. age[k] \in 0..Old /\ since[k] \in 0..Old
        BY DEF CacheInv, CacheTypeOK
    <2>2. slot[k] \in Endings => age'[k] = since'[k]
        BY <1>1, <2>1 DEF CacheInv, AgesAreTrue, Endings
    <2>3. slot[k] = "free" => since'[k] > Window
        <3>1. slot[k] = "free" => since[k] > Window /\ since'[k] >= since[k]
            BY <1>1, <1>2, <2>1 DEF CacheInv, AgesAreTrue
        <3>2. since'[k] \in 0..Old
            BY <1>3
        <3>3. QED BY <2>1, <3>1, <3>2 DEF Old
    <2>4. QED BY <2>2, <2>3
<1>7. CacheInv'
    BY <1>4, <1>5, <1>6 DEF CacheInv, WithinBound, Ordered, NobodySleepsOn
<1>8. ASSUME NEW k \in Keys
      PROVE  \/ Remembered(k)' = Remembered(k)
             \/ Remembered(k) = "kept" /\ Remembered(k)' = "fresh"
    <2>1. since[k] \in 0..Old /\ since'[k] \in 0..Old
        BY <1>3 DEF CacheInv, CacheTypeOK
    <2>2. slot[k] # "running" => since'[k] >= since[k]
        BY <1>1, <1>2, <2>1
    <2>3. QED BY <2>1, <2>2 DEF Remembered, Old
<1> QED BY <1>7, <1>8

-----------------------------------------------------------------------------
(* What every step does to what the contract sees.                          *)
LEMMA StepsKeep ==
    ASSUME CacheInv, [Next]_vars
    PROVE  CacheInv' /\ [Contract!Next]_[k \in Keys |-> Remembered(k)]
<1> DEFINE shown == [k \in Keys |-> Remembered(k)]
<1> USE DEF Contract!Next, Contract!Start, Contract!End, Contract!Forget
<1>0. ASSUME \A k \in Keys : Remembered(k)' = Remembered(k)
      PROVE  shown' = shown
    BY <1>0
<1>1. CASE UNCHANGED vars
    <2>1. CacheInv'
        BY <1>1 DEF vars, CacheInv, CacheTypeOK, Entries, Ordered, WellOrders, AgesAreTrue, WithinBound,
                    NobodySleepsOn
    <2>2. shown' = shown
        BY <1>1 DEF vars, Remembered
    <2>3. QED BY <2>1, <2>2
<1>2. ASSUME NEW c \in Callers, Call(c) \/ GiveUp(c) \/ Cancel(c)
      PROVE  CacheInv' /\ shown' = shown
    <2>1. slot' = slot /\ since' = since
        BY <1>2 DEF Call, GiveUp, Cancel, cache
    <2>2. shown' = shown
        BY <2>1 DEF Remembered
    <2>3. QED BY <1>2, <2>2, CallKeeps
<1>3. ASSUME NEW c \in Callers, Dispatch(c)
      PROVE  CacheInv' /\ [Contract!Next]_shown
    <2>1. CASE Hit(c) \/ Join(c) \/ Refuse(c)
        BY <1>0, <1>3, <2>1, FoundKeeps DEF Dispatch
    <2>2. CASE Claim(c)
        <3>1. CacheInv' /\ key[c] \in Keys
            BY <1>3, <2>2, ClaimKeeps DEF Dispatch
        <3>2. PICK k \in Keys : k = key[c]
            BY <3>1
        <3>3. key'[c] = k
            BY <2>2, <3>2 DEF Claim
        <3>4. /\ Remembered(k) = "fresh" /\ Remembered(k)' = "running"
              /\ \A j \in Keys \ {k} : Remembered(j)' = Remembered(j)
            BY <1>3, <2>2, <3>2, <3>3, ClaimKeeps DEF Dispatch
        <3>5. shown[k] = "fresh" /\ shown' = [shown EXCEPT ![k] = "running"]
            BY <3>4
        <3>6. QED BY <3>1, <3>5
    <2>3. QED BY <1>3, <2>1, <2>2 DEF Dispatch
<1>4. ASSUME NEW k \in Keys, NEW end \in Endings, Finish(k, end)
      PROVE  CacheInv' /\ [Contract!Next]_shown
    <2>1. /\ CacheInv' /\ Remembered(k) = "running" /\ Remembered(k)' = "kept"
          /\ \A j \in Keys \ {k} : Remembered(j)' = Remembered(j)
        BY <1>4, FinishKeeps
    <2>2. shown[k] = "running" /\ shown' = [shown EXCEPT ![k] = "kept"]
        BY <2>1
    <2>3. QED BY <2>1, <2>2
<1>5. CASE Tick
    <2>1. /\ CacheInv'
          /\ \A k \in Keys : \/ Remembered(k)' = Remembered(k)
                             \/ Remembered(k) = "kept" /\ Remembered(k)' = "fresh"
        BY <1>5, TickKeeps
    <2> DEFINE over == {k \in Keys : Remembered(k)' # Remembered(k)}
    <2>2. /\ over \in SUBSET Keys /\ \A k \in over : shown[k] = "kept"
          /\ shown' = [k \in Keys |-> IF k \in over THEN "fresh" ELSE shown[k]]
        BY <2>1
    <2>3. Contract!Forget(over)
        BY <2>2
    <2>4. QED BY <2>1, <2>2, <2>3
<1> QED BY <1>1, <1>2, <1>3, <1>4, <1>5 DEF Next

(* For any callers, keys, bound, window and TTL, the cache is well formed,  *)
(* finite and within its bound, its order names an entry to evict, its ages *)
(* are true, and whoever waits waits for a run that is on (the wrapper,     *)
(* _evict_expired_locked, _make_room_for_key_locked, _run_producer).        *)
THEOREM CacheInvariant == Spec => []CacheInv
<1>1. CacheInv /\ [Next]_vars => CacheInv'
    BY StepsKeep
<1>2. QED BY InitCache, <1>1, PTL DEF Spec

(* Slots, callers and clocks keep their values.                             *)
THEOREM CacheTypeCorrect == Spec => []CacheTypeOK
<1>1. CacheInv => CacheTypeOK
    BY DEF CacheInv
<1>2. QED BY CacheInvariant, <1>1, PTL

(* A call runs again only when its window for being sent again is over.     *)
THEOREM CacheRunsOnce == Spec => RunsOnce
<1>1. Init => Contract!Init
    <2> SUFFICES ASSUME Init PROVE Contract!Init
        OBVIOUS
    <2>1. \A k \in Keys : Remembered(k) = "fresh"
        BY TimeAssumption DEF Init, Remembered, Old
    <2>2. QED BY <2>1 DEF Contract!Init
<1>2. CacheInv /\ [Next]_vars => [Contract!Next]_[k \in Keys |-> Remembered(k)]
    BY StepsKeep
<1>3. QED BY <1>1, <1>2, CacheInvariant, PTL DEF Spec, RunsOnce, Contract!Spec

(* A refusal for want of room leaves the key re-sendable: it did not run.   *)
THEOREM CacheRefusesTheUnrun == Spec => RefusedMeansNotRun
<1>1. ASSUME CacheInv, [Next]_vars, NEW c \in Callers, answer[c] = "none", answer'[c] = "capacity"
      PROVE  Remembered(key[c]) = "fresh"
    <2>1. Refuse(c) /\ pc[c] \in {"calling", "woken"}
        <3>1. answer' # answer
            BY <1>1
        <3>2. PICK d \in Callers : Refuse(d) /\ pc[d] \in {"calling", "woken"}
            <4>1. ASSUME NEW d \in Callers, Call(d) \/ GiveUp(d) \/ Cancel(d) \/ Join(d) \/ Claim(d)
                  PROVE  FALSE
                BY <1>1, <4>1 DEF Call, GiveUp, Cancel, Answer, Join, Claim, CacheInv, CacheTypeOK
            <4>2. ASSUME NEW d \in Callers, Hit(d)
                  PROVE  FALSE
                <5>1. Answer(d, "result") \/ Answer(d, "unavailable") \/ Answer(d, "unknown")
                    BY <4>2, Zenon DEF Hit, Endings
                <5>2. QED BY <1>1, <5>1 DEF Answer, CacheInv, CacheTypeOK
            <4>3. ASSUME NEW k \in Keys, NEW end \in Endings, Finish(k, end)
                  PROVE  FALSE
                BY <1>1, <4>3 DEF Finish
            <4>4. QED BY <1>1, <3>1, <4>1, <4>2, <4>3 DEF Next, Dispatch, Tick, vars
        <3>3. d = c
            BY <1>1, <3>2 DEF Refuse, Answer, CacheInv, CacheTypeOK
        <3>4. QED BY <3>2, <3>3
    <2>2. PICK k : k = key[c]
        OBVIOUS
    <2>3. k \in Keys
        BY <1>1, <2>1, <2>2 DEF CacheInv, CacheTypeOK
    <2>4. k \notin Kept
        BY <2>1, <2>2 DEF Refuse
    <2>5. slot[k] # "running" /\ since[k] > Window /\ since[k] \in Nat
        BY <1>1, <2>3, <2>4, TimeAssumption DEF Kept, Expired, Entries, Endings, CacheInv, CacheTypeOK,
           AgesAreTrue, Old
    <2>6. QED BY <2>2, <2>5, TimeAssumption DEF Remembered
<1>2. CacheInv /\ [Next]_vars =>
        [\A c \in Callers : answer[c] = "none" /\ answer'[c] = "capacity" => Remembered(key[c]) = "fresh"]_vars
    BY <1>1
<1>3. QED BY <1>2, CacheInvariant, PTL DEF Spec, RefusedMeansNotRun

(* What is run is run once, a caller told that it was not run can rely on   *)
(* it, and the cache stays within its bound (the wrapper, _run_producer,    *)
(* _make_room_for_key_locked).                                              *)
THEOREM CacheKeepsItsContract == Spec => RunsAreKnown
<1>1. CacheInv => WithinBound
    BY DEF CacheInv
<1>2. QED BY <1>1, CacheInvariant, CacheRunsOnce, CacheRefusesTheUnrun, PTL DEF RunsAreKnown

(* No result, failure or eviction leaves a re-send asleep: whoever waits    *)
(* waits for a run that is still on.                                        *)
THEOREM CacheWakesWaiters == Spec => []NobodySleepsOn
<1>1. CacheInv => NobodySleepsOn
    BY DEF CacheInv
<1>2. QED BY <1>1, CacheInvariant, PTL

=============================================================================
