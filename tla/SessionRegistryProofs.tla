------------------------ MODULE SessionRegistryProofs ------------------------
(* What holds of the registry for any number of sessions and of upsets.     *)
EXTENDS SessionRegistry, TLAPS

-----------------------------------------------------------------------------
(* The inductive invariant.                                                 *)

Count(b) == IF b THEN 1 ELSE 0

(* Only the current driver runs; each one started was lost in a reset, or   *)
(* is the current one, or was stopped by the shutdown; and only a dead      *)
(* driver is lost.                                                          *)
Drivers ==
    /\ alive \subseteq {pw} \ {None}
    /\ pw <= started /\ \A s \in Sessions : gen[s] <= started
    /\ started <= restarts + Count(pw # None) + Count(shutdown = "stopped")
    /\ restarts + Count(pw # None /\ pw \notin alive) <= upsets

(* A launch that has to judge its driver still has one to judge, unless it  *)
(* was reset or stopped since; what it discards is dead.                    *)
Launching ==
    \A s \in Sessions :
        /\ seen[s] <= restarts
        /\ launch[s] \in {"opening", "erring"} /\ restarts = seen[s] /\ shutdown # "stopped"
              => pw # None
        /\ launch[s] = "resetting" =>
              gen[s] # None /\ gen[s] \notin alive /\ (shutdown = "stopped" => gen[s] # pw)
        /\ launch[s] \in {"wired", "recording", "navigating", "returned"} => gen[s] # None
        /\ launch[s] \in {"unborn", "starting", "opening", "erring", "resetting"}
              => browser[s] = "none"
        /\ browser[s] = "open" => gen[s] \in alive

(* An id that names a session is the session's; a session goes by its own   *)
(* id or by that of the one it replaced, whose reopening is over; one whose *)
(* row is being recorded is listed, unless an eviction overtook it.         *)
Ids ==
    /\ \A i \in Sessions : registry[i] # None =>
           ident[registry[i]] = i /\ launch[registry[i]] \in {"recording", "navigating", "returned"}
    /\ \A s \in Sessions :
           \/ ident[s] = s
           \/ /\ ident[s] = reopens[s] /\ reopens[s] # None /\ s \in tagged
              /\ launch[s] = "returned" /\ rel[reopens[s]] = "over"
    /\ \A s \in Sessions : launch[s] = "recording" /\ s \notin overtaken => registry[s] = s

(* A session is reopened once, when it is out of the registry for good and  *)
(* nothing closes it any more, and by one launch.                           *)
Reopening ==
    /\ \A s, t \in Sessions : reopens[s] = reopens[t] /\ reopens[s] # None => s = t
    /\ \A t \in Sessions : reopens[t] # None =>
           launch[t] # "unborn" /\ rel[reopens[t]] \in {"launching", "rekeying", "over"}
    /\ \A s \in Sessions : rel[s] # "none" =>
           s \notin Live /\ s \notin tagged /\ launch[s] \in {"recording", "navigating", "returned"}
    /\ \A s \in Sessions : rel[s] \in {"launching", "rekeying", "over"} =>
           \A c \in coords : c.who # s
    /\ locked # None => rel[locked] = "rekeying"
    /\ \A t \in Sessions : locked # None /\ reopens[t] = locked =>
           launch[t] = "returned" /\ t \notin rows

(* A coordinator owns the entry of its id, and nobody else goes by it.  It  *)
(* waits for the row to be recorded, unless it is an eviction's.            *)
Closing ==
    /\ \A c \in coords :
           /\ closing[c.id] = c.who
           /\ c.id = c.who \/ c.id = ident[c.who]
           /\ registry[c.id] \in {None, c.who}
           /\ launch[c.who] \in {"recording", "navigating", "returned"}
           /\ c.phase = "waiting" \/ launch[c.who] # "recording" \/ c.who \in overtaken
           /\ c.phase = "popping" => browser[c.who] = "gone" /\ c.id \notin rows \ overtaken
    /\ \A c, d \in coords : c.id = d.id => c = d
    /\ \A i \in Sessions : closing[i] # None => \E c \in coords : c.id = i

(* A row's id names a session, is being closed, or is the one being rekeyed,*)
(* or its recording was overtaken.                                          *)
RowsNamed ==
    \A i \in rows \ overtaken : registry[i] # None \/ closing[i] # None \/ i = locked

(* A listed session whose browser is gone will hear of it, or lost it with  *)
(* the driver, or was dead when it registered.                              *)
DeadAreKnown ==
    \A s \in Live \ stillborn : browser[s] = "open" \/ ToldOf(s) \/ shutdown = "stopped"

RegistryInv ==
    /\ RegistryTypeOK /\ Drivers /\ Launching /\ Ids /\ Reopening /\ Closing /\ RowsNamed
    /\ NoLostBrowser
    /\ DeadAreKnown

(* The types, by what they are about.                                       *)
IdsTyped ==
    /\ registry \in [Sessions -> Sessions \cup {None}]
    /\ closing \in [Sessions -> Sessions \cup {None}]
    /\ ident \in [Sessions -> Sessions] /\ rows \subseteq Sessions
    /\ locked \in Sessions \cup {None} /\ overtaken \subseteq Sessions
    /\ coords \subseteq [id : Sessions, who : Sessions,
                         phase : {"waiting", "removing", "tearing", "popping"}]

LaunchesTyped ==
    /\ launch \in [Sessions -> {"unborn", "starting", "opening", "erring", "resetting",
                                "wired", "recording", "navigating", "returned",
                                "failed"}]
    /\ retried \subseteq Sessions /\ signal \subseteq Sessions /\ stillborn \subseteq Sessions
    /\ browser \in [Sessions -> {"none", "open", "gone"}]

ReopeningsTyped ==
    /\ tagged \subseteq Sessions
    /\ rel \in [Sessions -> {"none", "waiting", "launching", "rekeying", "over"}]
    /\ reopens \in [Sessions -> Sessions \cup {None}]

DriversTyped ==
    /\ gen \in [Sessions -> Handles \cup {None}] /\ seen \in [Sessions -> 0..MaxUpsets]
    /\ pw \in Handles \cup {None} /\ alive \subseteq 1..started /\ started \in Handles \cup {0}
    /\ restarts \in 0..MaxUpsets /\ upsets \in 0..MaxUpsets

StopTyped ==
    shutdown \in {"up", "closing", "awaiting", "draining", "stopped"} /\ todo \subseteq Sessions

(* The type invariant, part by part.                                        *)
LEMMA TypeParts ==
    /\ RegistryTypeOK <=> IdsTyped /\ LaunchesTyped /\ ReopeningsTyped /\ DriversTyped /\ StopTyped
    /\ RegistryTypeOK' <=>
          IdsTyped' /\ LaunchesTyped' /\ ReopeningsTyped' /\ DriversTyped' /\ StopTyped'
BY DEF RegistryTypeOK, IdsTyped, LaunchesTyped, ReopeningsTyped, DriversTyped, StopTyped

(* The value for no session is not a session.                               *)
LEMMA NoneIsNoSession == None \notin Sessions
BY DEF None, Sessions

(* The parts of the invariant about ids and closes.                         *)
IdsKept == IdsTyped /\ ReopeningsTyped /\ Ids /\ Reopening /\ Closing /\ RowsNamed /\ NoLostBrowser

(* The parts about drivers.                                                 *)
DriversKept == DriversTyped /\ Drivers /\ Launching

(* The invariant and its parts, as they are and as they become.             *)
LEMMA Assembled ==
    /\ RegistryInv =>
          /\ IdsKept /\ DriversKept /\ LaunchesTyped /\ StopTyped
          /\ DeadAreKnown
    /\ IdsKept' /\ DriversKept' /\ LaunchesTyped' /\ StopTyped' /\ DeadAreKnown'
          => RegistryInv'
BY TypeParts DEF RegistryInv, IdsKept, DriversKept

(* Whoever is listed has a launch that got as far as registering.           *)
LEMMA LiveLaunched ==
    ASSUME IdsKept
    PROVE  \A s \in Live : s \in Sessions /\ launch[s] \in {"recording", "navigating", "returned"}
BY NoneIsNoSession DEF IdsKept, Ids, Live

-----------------------------------------------------------------------------
(* What steps of a kind leave alone.                                        *)

(* A launch that is not registered yet moves, or fails.                     *)
LEMMA EarlyLaunchLeaves ==
    ASSUME IdsKept, LaunchesTyped, NEW s \in Sessions, launch[s] \notin {"recording", "navigating", "returned"},
           NEW step \in {"starting", "opening", "erring", "resetting", "wired", "failed"},
           Goto(s, step), \A x \in Sessions : x # s => browser'[x] = browser[x],
           UNCHANGED <<registry, ident, rows, overtaken, locked, closing, coords, rel, reopens, tagged>>
    PROVE  IdsKept'
<1> USE NoneIsNoSession DEF IdsKept, Goto
<1>1. IdsTyped' /\ ReopeningsTyped'
    BY DEF IdsTyped, ReopeningsTyped
<1>2. /\ launch'[s] = step /\ \A x \in Sessions : x # s => launch'[x] = launch[x]
    BY DEF LaunchesTyped
<1> HIDE DEF Goto
<1>3. Ids'
    BY <1>2 DEF Ids, IdsTyped
<1>4. Reopening'
    BY <1>2 DEF Reopening, Live
<1>5. Closing'
    BY <1>2 DEF Closing, IdsTyped
<1>6. RowsNamed'
    BY DEF RowsNamed
<1>7. NoLostBrowser'
    BY <1>2 DEF NoLostBrowser
<1> QED BY <1>1, <1>3, <1>4, <1>5, <1>6, <1>7

(* Browsers die, drivers and the shutdown move.                             *)
LEMMA DyingLeaves ==
    ASSUME IdsKept,
           \A x \in Sessions : browser'[x] \in {browser[x], "gone"},
           UNCHANGED <<registry, ident, rows, overtaken, locked, closing, coords, rel, reopens, tagged, launch>>
    PROVE  IdsKept'
<1> USE DEF IdsKept
<1>1. IdsTyped' /\ ReopeningsTyped'
    BY DEF IdsTyped, ReopeningsTyped
<1>2. Ids' /\ Reopening'
    BY DEF Ids, Reopening, Live
<1>3. Closing'
    BY DEF Closing, IdsTyped
<1>4. RowsNamed' /\ NoLostBrowser'
    BY DEF RowsNamed, NoLostBrowser
<1> QED BY <1>1, <1>2, <1>3, <1>4

(* Launches that have a context, and closes, reopenings and shutdowns leave *)
(* the drivers alone.                                                       *)
LEMMA DriversLeft ==
    ASSUME DriversKept, UNCHANGED <<gen, seen, driver, upsets>>,
           \A x \in Sessions :
              /\ launch'[x] = launch[x] \/ (launch[x] = "wired" /\ launch'[x] \in {"recording", "failed"})
                 \/ (launch[x] = "recording" /\ launch'[x] = "navigating")
                 \/ (launch[x] = "navigating" /\ launch'[x] = "returned")
                 \/ (launch[x] = "opening" /\ launch'[x] \in {"erring", "failed"})
              /\ browser'[x] = browser[x]
                 \/ (browser'[x] = "gone" /\ launch[x] \in {"recording", "navigating", "returned"}),
           (shutdown = "stopped") = (shutdown' = "stopped")
    PROVE  DriversKept'
<1> USE DEF DriversKept, driver
<1>1. DriversTyped'
    BY DEF DriversTyped
<1>2. Drivers'
    BY DEF Drivers, Count
<1>3. Launching'
    BY DEF Launching
<1> QED BY <1>1, <1>2, <1>3

-----------------------------------------------------------------------------
(* Launches on a driver.                                                    *)
LEMMA LaunchBegins ==
    ASSUME RegistryInv, NEW s \in Sessions, launch[s] = "unborn", Begin(s), UNCHANGED <<browsers, driver, upsets, stop>>
    PROVE  DriversKept' /\ LaunchesTyped' /\ StopTyped'
           /\ (UNCHANGED registry => DeadAreKnown')
<1> USE Assembled DEF Begin, Goto, browsers, driver, stop
<1>1. LaunchesTyped' /\ StopTyped'
    BY DEF LaunchesTyped, StopTyped
<1>2. DriversTyped'
    BY DEF DriversKept, DriversTyped
<1>3. Drivers'
    BY DEF DriversKept, Drivers, Count
<1>4. Launching'
    BY DEF DriversKept, DriversTyped, LaunchesTyped, Launching
<1>5. UNCHANGED registry => DeadAreKnown'
    BY DEF DeadAreKnown, ToldOf, Live, LaunchesTyped
<1> QED BY <1>1, <1>2, <1>3, <1>4, <1>5 DEF DriversKept

(* A client launches a session.                                             *)
LEMMA ClientLaunchKeeps ==
    ASSUME RegistryInv, NEW s \in Sessions, ClientLaunch(s)
    PROVE  RegistryInv'
<1>1. /\ launch[s] = "unborn" /\ Begin(s) /\ Goto(s, "starting")
      /\ UNCHANGED <<pool, browsers, relaunch, driver, upsets, stop>>
    BY DEF ClientLaunch, IsSlot, Begin
<1>2. IdsKept'
    BY <1>1, Assembled, EarlyLaunchLeaves DEF pool, browsers, relaunch
<1>3. DriversKept' /\ LaunchesTyped' /\ StopTyped' /\ DeadAreKnown'
    BY <1>1, LaunchBegins DEF pool
<1> QED BY <1>2, <1>3, Assembled

(* The launch makes sure of the driver.                                     *)
LEMMA EnsureDriverKeeps ==
    ASSUME RegistryInv, NEW s \in Sessions, EnsureDriver(s)
    PROVE  RegistryInv'
<1>1. /\ launch[s] = "starting" /\ Goto(s, "opening")
      /\ UNCHANGED <<pool, browsers, relaunch, stop, seen, retried, restarts, upsets>>
      /\ gen' = [gen EXCEPT ![s] = pw']
      /\ \/ /\ pw = None /\ started' = started + 1 /\ pw' = started' /\ alive' = alive \cup {started'}
         \/ pw # None /\ UNCHANGED <<pw, alive, started>>
    BY DEF EnsureDriver
<1>2. IdsKept'
    BY <1>1, Assembled, EarlyLaunchLeaves DEF pool, browsers, relaunch
<1> USE <1>1, Assembled DEF Goto, browsers, stop
<1>3. LaunchesTyped' /\ StopTyped'
    BY DEF LaunchesTyped, StopTyped
<1>4. started' <= restarts + 1 + Count(shutdown = "stopped") /\ Drivers'
    BY RegistryAssumption DEF DriversKept, DriversTyped, Drivers, Count, None, Handles
<1>5. DriversTyped'
    BY <1>4, RegistryAssumption DEF DriversKept, DriversTyped, Drivers, Count, Handles, None
<1>6. Launching'
    BY DEF DriversKept, DriversTyped, Drivers, LaunchesTyped, Launching, Handles, None
<1>7. DeadAreKnown'
    <2>1. /\ Live' = Live /\ s \notin Live
          /\ \A x \in Live : launch[x] \in {"recording", "navigating", "returned"} /\ gen[x] # None
        BY LiveLaunched DEF pool, Live, DriversKept, Launching
    <2>2. \A x \in Live : gen'[x] = gen[x] /\ (gen[x] = pw => gen'[x] = pw')
        BY <2>1 DEF DriversKept, DriversTyped, Live
    <2>3. \A x \in Sessions : launch'[x] = "wired" => launch[x] = "wired"
        BY DEF LaunchesTyped
    <2> QED BY <2>1, <2>2, <2>3 DEF DeadAreKnown, ToldOf
<1> QED BY <1>2, <1>3, <1>4, <1>5, <1>6, <1>7 DEF DriversKept

(* The browser's context is open.                                           *)
LEMMA OpenedKeeps ==
    ASSUME RegistryInv, NEW s \in Sessions, Opened(s)
    PROVE  RegistryInv'
<1>1. /\ launch[s] = "opening" /\ gen[s] \in alive /\ Goto(s, "wired")
      /\ browser' = [browser EXCEPT ![s] = "open"]
      /\ UNCHANGED <<pool, relaunch, driver, upsets, stop, gen, seen, retried, signal, stillborn>>
    BY DEF Opened
<1>2. IdsKept'
    <2>1. \A x \in Sessions : x # s => browser'[x] = browser[x]
        BY <1>1, Assembled DEF LaunchesTyped
    <2> QED BY <1>1, <2>1, Assembled, EarlyLaunchLeaves DEF pool, relaunch
<1> USE <1>1, Assembled DEF Goto, driver, stop
<1>3. LaunchesTyped' /\ StopTyped'
    BY DEF LaunchesTyped, StopTyped
<1>4. DriversTyped' /\ Drivers'
    BY DEF DriversKept, DriversTyped, Drivers, Count
<1>5. Launching'
    BY DEF DriversKept, DriversTyped, LaunchesTyped, Launching, None
<1>6. DeadAreKnown'
    BY DEF DeadAreKnown, ToldOf, Live, LaunchesTyped, pool
<1> QED BY <1>2, <1>3, <1>4, <1>5, <1>6 DEF DriversKept

(* The browser does not open.                                               *)
LEMMA OpenFailsKeeps ==
    ASSUME RegistryInv, NEW s \in Sessions, OpenFails(s)
    PROVE  RegistryInv'
<1>1. PICK step \in {"failed", "erring"} : Goto(s, step)
    BY DEF OpenFails
<1>2. /\ launch[s] = "opening"
      /\ UNCHANGED <<pool, browsers, relaunch, driver, upsets, stop, gen, seen, retried>>
    BY DEF OpenFails
<1>3. IdsKept'
    BY <1>1, <1>2, Assembled, EarlyLaunchLeaves DEF pool, browsers, relaunch
<1> USE <1>1, <1>2, Assembled DEF Goto, browsers, stop
<1>4. LaunchesTyped' /\ StopTyped'
    BY DEF LaunchesTyped, StopTyped
<1>5. DriversKept'
    BY DriversLeft DEF LaunchesTyped
<1>6. DeadAreKnown'
    BY DEF DeadAreKnown, ToldOf, Live, LaunchesTyped, pool, driver
<1> QED BY <1>3, <1>4, <1>5, <1>6

(* A launch that failed judges the driver.                                  *)
LEMMA JudgeKeeps ==
    ASSUME RegistryInv, NEW s \in Sessions, Judge(s)
    PROVE  RegistryInv'
<1>1. /\ launch[s] = "erring" /\ retried' \in {retried, retried \cup {s}}
      /\ UNCHANGED <<pool, browsers, relaunch, driver, upsets, stop, seen>>
    BY DEF Judge
<1>2. \/ Goto(s, "starting") /\ gen' = gen
      \/ Goto(s, "failed") /\ gen' = gen
      \/ /\ Goto(s, "resetting") /\ restarts = seen[s] /\ shutdown # "stopped" /\ pw \notin alive
         /\ gen' = [gen EXCEPT ![s] = pw]
    BY DEF Judge
<1>3. IdsKept'
    BY <1>1, <1>2, Assembled, EarlyLaunchLeaves DEF pool, browsers, relaunch
<1> USE <1>1, <1>2, Assembled DEF Goto, browsers, stop, driver
<1>4. LaunchesTyped' /\ StopTyped'
    BY DEF LaunchesTyped, StopTyped
<1>5. DriversTyped' /\ Drivers'
    BY DEF DriversKept, DriversTyped, Drivers, Count
<1>6. Launching'
    BY DEF DriversKept, DriversTyped, LaunchesTyped, Launching
<1>7. DeadAreKnown'
    BY DEF DeadAreKnown, ToldOf, Live, LaunchesTyped, pool, DriversKept, DriversTyped, IdsKept, IdsTyped, Ids
<1> QED BY <1>3, <1>4, <1>5, <1>6, <1>7 DEF DriversKept

(* The launch is cancelled.                                                 *)
LEMMA LaunchCancelledKeeps ==
    ASSUME RegistryInv, NEW s \in Sessions, LaunchCancelled(s)
    PROVE  RegistryInv'
<1>1. /\ launch[s] = "wired" /\ Goto(s, "failed")
      /\ browser' = [browser EXCEPT ![s] = "gone"]
      /\ UNCHANGED <<pool, relaunch, driver, upsets, stop, gen, seen, retried, signal, stillborn>>
    BY DEF LaunchCancelled
<1>2. IdsKept'
    <2>1. \A x \in Sessions : x # s => browser'[x] = browser[x]
        BY <1>1, Assembled DEF LaunchesTyped
    <2> QED BY <1>1, <2>1, Assembled, EarlyLaunchLeaves DEF pool, relaunch
<1> USE <1>1, Assembled DEF Goto, driver, stop
<1>3. LaunchesTyped' /\ StopTyped'
    BY DEF LaunchesTyped, StopTyped
<1>4. DriversTyped' /\ Drivers'
    BY DEF DriversKept, DriversTyped, Drivers, Count
<1>5. Launching'
    BY DEF DriversKept, DriversTyped, LaunchesTyped, Launching
<1>6. DeadAreKnown'
    <2>1. Live' = Live /\ s \notin Live
        BY LiveLaunched DEF pool, Live
    <2> QED BY <2>1 DEF DeadAreKnown, ToldOf, Live, LaunchesTyped
<1> QED BY <1>2, <1>3, <1>4, <1>5, <1>6 DEF DriversKept

-----------------------------------------------------------------------------
(* Deaths and the shutdown.                                                 *)
LEMMA BrowserDiesKeeps ==
    ASSUME RegistryInv, NEW s \in Sessions, BrowserDies(s)
    PROVE  RegistryInv'
<1>1. /\ browser[s] = "open" /\ upsets < MaxUpsets /\ upsets' = upsets + 1
      /\ browser' = [browser EXCEPT ![s] = "gone"] /\ signal' = signal \cup {s}
      /\ UNCHANGED <<pool, launches, stillborn, relaunch, driver, stop>>
    BY DEF BrowserDies
<1> USE <1>1, Assembled DEF launches, driver, stop
<1>2. IdsKept'
    <2>1. \A x \in Sessions : browser'[x] \in {browser[x], "gone"}
        BY DEF LaunchesTyped
    <2> QED BY <2>1, DyingLeaves DEF pool, relaunch
<1>3. LaunchesTyped' /\ StopTyped'
    BY DEF LaunchesTyped, StopTyped
<1>4. DriversTyped' /\ Drivers'
    BY RegistryAssumption DEF DriversKept, DriversTyped, Drivers, Count
<1>5. Launching'
    BY DEF DriversKept, LaunchesTyped, Launching
<1>6. DeadAreKnown'
    BY DEF DeadAreKnown, ToldOf, Live, LaunchesTyped, pool
<1> QED BY <1>2, <1>3, <1>4, <1>5, <1>6 DEF DriversKept

(* A driver and the browsers that ride it go together.                      *)
LEMMA DriverDiesKeeps ==
    ASSUME RegistryInv, DriverDies
    PROVE  RegistryInv'
<1>1. /\ pw \in alive /\ upsets < MaxUpsets /\ upsets' = upsets + 1 /\ alive' = alive \ {pw}
      /\ browser' = [x \in Sessions |-> IF gen[x] = pw /\ browser[x] = "open" THEN "gone" ELSE browser[x]]
      /\ UNCHANGED <<pool, launches, signal, stillborn, relaunch, pw, started, restarts, stop>>
    BY DEF DriverDies
<1> USE <1>1, Assembled DEF launches, stop
<1>2. IdsKept'
    <2>1. \A x \in Sessions : browser'[x] \in {browser[x], "gone"}
        OBVIOUS
    <2> QED BY <2>1, DyingLeaves DEF pool, relaunch
<1>3. LaunchesTyped' /\ StopTyped'
    BY DEF LaunchesTyped, StopTyped
<1>4. DriversTyped' /\ Drivers'
    BY RegistryAssumption DEF DriversKept, DriversTyped, Drivers, Count
<1>5. Launching'
    BY DEF DriversKept, LaunchesTyped, Launching
<1>6. DeadAreKnown'
    BY DEF DeadAreKnown, ToldOf, Live, pool
<1> QED BY <1>2, <1>3, <1>4, <1>5, <1>6 DEF DriversKept

(* The shutdown stops the driver.                                           *)
LEMMA ShutdownStopsKeeps ==
    ASSUME RegistryInv, ShutdownStops
    PROVE  RegistryInv'
<1>1. /\ shutdown = "draining" /\ shutdown' = "stopped" /\ todo' = {}
      /\ pw' = None /\ alive' = alive \ {pw}
      /\ browser' = [x \in Sessions |-> IF browser[x] = "open" /\ gen[x] = pw THEN "gone" ELSE browser[x]]
      /\ UNCHANGED <<pool, launches, signal, stillborn, relaunch, started, restarts, upsets>>
    BY DEF ShutdownStops
<1> USE <1>1, Assembled DEF launches
<1>2. IdsKept'
    <2>1. \A x \in Sessions : browser'[x] \in {browser[x], "gone"}
        OBVIOUS
    <2> QED BY <2>1, DyingLeaves DEF pool, relaunch
<1>3. LaunchesTyped' /\ StopTyped'
    BY DEF LaunchesTyped, StopTyped
<1>4. DriversTyped' /\ Drivers'
    <2>1. alive' = {}
        BY DEF DriversKept, Drivers
    <2>2. DriversTyped'
        BY <2>1 DEF DriversKept, DriversTyped
    <2>3. Count(pw # None) <= 1 /\ Count(pw' # None) = 0 /\ Count(shutdown = "stopped") = 0
          /\ Count(shutdown' = "stopped") = 1 /\ Count(pw' # None /\ pw' \notin alive') = 0
          /\ Count(pw # None /\ pw \notin alive) \in 0..1 /\ Count(pw # None) \in 0..1
        BY DEF Count
    <2>4. Drivers'
        BY <2>1, <2>3 DEF DriversKept, DriversTyped, Drivers, None, Handles
    <2> QED BY <2>2, <2>4
<1>5. Launching'
    BY DEF DriversKept, LaunchesTyped, Launching
<1>6. DeadAreKnown'
    BY DEF DeadAreKnown, ToldOf
<1> QED BY <1>2, <1>3, <1>4, <1>5, <1>6 DEF DriversKept

(* The shutdown begins or waits, or nothing happens.                        *)
LEMMA ShutdownMovesKeep ==
    ASSUME RegistryInv, ShutdownBegins \/ ShutdownWaits \/ UNCHANGED vars
    PROVE  RegistryInv'
<1>1. /\ UNCHANGED <<pool, launches, browsers, relaunch, driver>>
      /\ upsets' = upsets \/ (upsets < MaxUpsets /\ upsets' = upsets + 1)
      /\ (shutdown = "stopped") = (shutdown' = "stopped")
      /\ StopTyped'
    BY Assembled DEF ShutdownBegins, ShutdownWaits, vars, stop, StopTyped
<1> USE <1>1, Assembled DEF launches, browsers
<1>2. IdsKept'
    BY DyingLeaves DEF pool, relaunch
<1>3. LaunchesTyped'
    BY DEF LaunchesTyped
<1>4. DriversTyped' /\ Drivers'
    BY RegistryAssumption DEF DriversKept, DriversTyped, Drivers, Count, driver
<1>5. Launching'
    BY DEF DriversKept, Launching, driver
<1>6. DeadAreKnown'
    BY DEF DeadAreKnown, ToldOf, Live, pool, driver
<1> QED BY <1>2, <1>3, <1>4, <1>5, <1>6 DEF DriversKept

-----------------------------------------------------------------------------
(* A launch registers.                                                      *)
LEMMA PublishKeeps ==
    ASSUME RegistryInv, NEW s \in Sessions, Publish(s)
    PROVE  RegistryInv'
<1>1. /\ launch[s] = "wired" /\ locked = None /\ launch' = [launch EXCEPT ![s] = "recording"]
      /\ registry' = [registry EXCEPT ![s] = s]
      /\ stillborn' = IF browser[s] = "open" \/ ToldOf(s) THEN stillborn ELSE stillborn \cup {s}
      /\ UNCHANGED <<ident, rows, overtaken, locked, closing, coords, gen, seen, retried, browser,
                     signal, relaunch, driver, upsets, stop>>
    BY DEF Publish, Goto, Unlocked
<1> USE <1>1, Assembled, NoneIsNoSession DEF relaunch, stop
<1>2. IdsTyped' /\ LaunchesTyped' /\ ReopeningsTyped' /\ StopTyped'
    BY DEF IdsKept, IdsTyped, LaunchesTyped, ReopeningsTyped, StopTyped
<1>3. /\ launch'[s] = "recording" /\ \A x \in Sessions : x # s => launch'[x] = launch[x]
      /\ registry'[s] = s /\ \A i \in Sessions : i # s => registry'[i] = registry[i]
    BY DEF IdsKept, IdsTyped, LaunchesTyped
<1>4. /\ ident[s] = s /\ rel[s] = "none" /\ \A c \in coords : c.who # s /\ c.id # s
      /\ \A i \in Sessions : registry[i] # s
    <2>1. rel[s] = "none" /\ ident[s] = s
        BY DEF IdsKept, ReopeningsTyped, Reopening, Ids
    <2>2. \A c \in coords : c.who # s
        BY DEF IdsKept, Closing
    <2>3. ASSUME NEW c \in coords, c.id = s PROVE FALSE
        <3>1. c.who \in Sessions /\ ident[c.who] = s
            BY <2>2, <2>3 DEF IdsKept, Closing, IdsTyped
        <3>2. rel[s] = "over"
            BY <2>2, <3>1 DEF IdsKept, Ids
        <3> QED BY <2>1, <3>2
    <2>4. \A i \in Sessions : registry[i] # s
        BY DEF IdsKept, Ids
    <2> QED BY <2>1, <2>2, <2>3, <2>4
<1>5. Ids'
    BY <1>3, <1>4 DEF IdsKept, Ids, IdsTyped, ReopeningsTyped
<1>6. Reopening'
    BY <1>3, <1>4 DEF IdsKept, Reopening, Live
<1>7. Closing'
    BY <1>3, <1>4 DEF IdsKept, Closing, IdsTyped
<1>8. RowsNamed' /\ NoLostBrowser'
    <2>1. s \in Sessions /\ registry[s] \in Sessions \cup {None}
        BY DEF IdsKept, IdsTyped
    <2>2. registry[s] = None \/ registry[s] = s
        <3>1. ASSUME registry[s] # None PROVE FALSE
            <4>1. registry[s] \in Sessions /\ ident[registry[s]] = s /\ registry[s] # s
                BY <2>1, <3>1, <1>4 DEF IdsKept, Ids
            <4>2. rel[s] = "over"
                BY <4>1 DEF IdsKept, Ids
            <4> QED BY <1>4, <4>2
        <3> QED BY <3>1
    <2> QED BY <1>3, <2>2 DEF IdsKept, IdsTyped, RowsNamed, NoLostBrowser
<1>9. DriversKept'
    BY DriversLeft DEF LaunchesTyped
<1>10. DeadAreKnown'
    BY <1>3 DEF DeadAreKnown, ToldOf, Live, driver
<1> QED BY <1>2, <1>5, <1>6, <1>7, <1>8, <1>9, <1>10 DEF IdsKept

(* The row is recorded.                                                     *)
LEMMA RecordedKeeps ==
    ASSUME RegistryInv, NEW s \in Sessions, Recorded(s)
    PROVE  RegistryInv'
<1>1. /\ launch[s] = "recording" /\ launch' = [launch EXCEPT ![s] = "navigating"]
      /\ rows' = rows \cup {s}
      /\ UNCHANGED <<registry, ident, overtaken, locked, closing, coords, gen, seen, retried,
                     browsers, relaunch, driver, upsets, stop>>
    BY DEF Recorded, Goto
<1> USE <1>1, Assembled, NoneIsNoSession DEF browsers, relaunch, stop
<1>2. IdsTyped' /\ LaunchesTyped' /\ ReopeningsTyped' /\ StopTyped'
    BY DEF IdsKept, IdsTyped, LaunchesTyped, ReopeningsTyped, StopTyped
<1>3. launch'[s] = "navigating" /\ \A x \in Sessions : x # s => launch'[x] = launch[x]
    BY DEF LaunchesTyped
<1>4. ident[s] = s
    BY DEF IdsKept, Ids
<1>5. ASSUME s \notin overtaken
      PROVE  registry[s] = s /\ \A c \in coords : c.id = s => c.phase = "waiting"
    <2>1. registry[s] = s
        BY <1>5 DEF IdsKept, Ids
    <2>2. rel[s] = "none"
        BY <2>1 DEF IdsKept, Reopening, Live
    <2>3. ASSUME NEW c \in coords, c.id = s PROVE c.who = s
        BY <2>1, <2>3 DEF IdsKept, Closing
    <2>4. ASSUME NEW c \in coords, c.id = s PROVE c.phase = "waiting"
        BY <1>5, <2>3, <2>4 DEF IdsKept, Closing
    <2> QED BY <2>1, <2>4
<1>6. Ids'
    BY <1>3 DEF IdsKept, Ids, IdsTyped
<1>7. Reopening'
    BY <1>3 DEF IdsKept, Reopening, Live
<1>8. Closing'
    BY <1>3, <1>5 DEF IdsKept, Closing, IdsTyped
<1>9. RowsNamed' /\ NoLostBrowser'
    BY <1>3, <1>5 DEF IdsKept, RowsNamed, NoLostBrowser
<1>10. DriversKept'
    BY DriversLeft DEF LaunchesTyped
<1>11. DeadAreKnown'
    BY <1>3 DEF DeadAreKnown, ToldOf, Live, driver
<1> QED BY <1>2, <1>6, <1>7, <1>8, <1>9, <1>10, <1>11 DEF IdsKept

(* The first navigation ends and the session is published.                  *)
LEMMA NavigatedKeeps ==
    ASSUME RegistryInv, NEW s \in Sessions, Navigated(s)
    PROVE  RegistryInv'
<1>1. /\ launch[s] = "navigating" /\ launch' = [launch EXCEPT ![s] = "returned"]
      /\ UNCHANGED <<pool, gen, seen, retried, browsers, relaunch, driver, upsets, stop>>
    BY DEF Navigated, Goto
<1> USE <1>1, Assembled, NoneIsNoSession DEF pool, browsers, relaunch, stop
<1>2. IdsTyped' /\ LaunchesTyped' /\ ReopeningsTyped' /\ StopTyped'
    BY DEF IdsKept, IdsTyped, LaunchesTyped, ReopeningsTyped, StopTyped
<1>3. launch'[s] = "returned" /\ \A x \in Sessions : x # s => launch'[x] = launch[x]
    BY DEF LaunchesTyped
<1>4. Ids'
    BY <1>3 DEF IdsKept, Ids, IdsTyped
<1>5. Reopening'
    BY <1>3 DEF IdsKept, Reopening, Live
<1>6. Closing'
    BY <1>3 DEF IdsKept, Closing, IdsTyped
<1>7. RowsNamed' /\ NoLostBrowser'
    BY <1>3 DEF IdsKept, RowsNamed, NoLostBrowser
<1>8. DriversKept'
    BY DriversLeft DEF LaunchesTyped
<1>9. DeadAreKnown'
    BY <1>3 DEF DeadAreKnown, ToldOf, Live, driver
<1> QED BY <1>2, <1>4, <1>5, <1>6, <1>7, <1>8, <1>9 DEF IdsKept

-----------------------------------------------------------------------------
(* Closes.                                                                  *)

(* A coordinator that moves on is the same one in another phase.            *)
LEMMA Advanced ==
    ASSUME IdsKept, NEW c \in coords, NEW next \in {"removing", "tearing", "popping"},
           Advance(c, next)
    PROVE  /\ coords' \subseteq [id : Sessions, who : Sessions,
                                 phase : {"waiting", "removing", "tearing", "popping"}]
           /\ \A d \in coords' : \E e \in coords :
                  /\ d.id = e.id /\ d.who = e.who
                  /\ (d = e /\ e # c) \/ (e = c /\ d.phase = next)
           /\ \A e \in coords : \E d \in coords' : d.id = e.id /\ d.who = e.who
           /\ \A d, e \in coords' : d.id = e.id => d = e
           /\ c.id \in Sessions /\ c.who \in Sessions
<1> DEFINE n == [c EXCEPT !.phase = next]
<1>1. c \in [id : Sessions, who : Sessions, phase : {"waiting", "removing", "tearing", "popping"}]
    BY DEF IdsKept, IdsTyped
<1>2. /\ n \in [id : Sessions, who : Sessions, phase : {"waiting", "removing", "tearing", "popping"}]
      /\ n.id = c.id /\ n.who = c.who /\ n.phase = next
    BY <1>1
<1>3. coords' = (coords \ {c}) \cup {n}
    BY DEF Advance
<1> HIDE DEF n
<1>4. \A d, e \in coords : d.id = e.id => d = e
    BY DEF IdsKept, Closing
<1>5. \A d \in coords' : \E e \in coords :
          /\ d.id = e.id /\ d.who = e.who
          /\ (d = e /\ e # c) \/ (e = c /\ d.phase = next)
    BY <1>2, <1>3
<1>6. \A d, e \in coords' : d.id = e.id => d = e
    BY <1>2, <1>3, <1>4
<1> QED BY <1>1, <1>2, <1>3, <1>5, <1>6 DEF IdsKept, IdsTyped

(* A close is granted the gate.                                             *)
LEMMA CloseGrantedKeeps ==
    ASSUME RegistryInv, NEW c \in coords, CloseGranted(c)
    PROVE  RegistryInv'
<1>1. /\ c.phase = "waiting" /\ launch[c.who] # "recording" /\ Advance(c, "removing")
      /\ UNCHANGED <<registry, ident, rows, overtaken, locked, closing, launches, browsers, relaunch, driver,
                     upsets, stop>>
    BY DEF CloseGranted, Leased
<1> USE <1>1, Assembled, Advanced, NoneIsNoSession DEF launches, browsers, relaunch, stop
<1>2. LaunchesTyped' /\ ReopeningsTyped' /\ StopTyped'
    BY DEF IdsKept, LaunchesTyped, ReopeningsTyped, StopTyped
<1>3. IdsTyped'
    BY DEF IdsKept, IdsTyped
<1>4. Ids'
    BY DEF IdsKept, Ids
<1>5. Reopening'
    BY DEF IdsKept, Reopening, Live
<1>6. Closing'
    BY DEF IdsKept, Closing
<1>7. RowsNamed' /\ NoLostBrowser'
    BY DEF IdsKept, RowsNamed, NoLostBrowser
<1>8. DriversKept'
    BY DriversLeft
<1>9. DeadAreKnown'
    BY DEF DeadAreKnown, ToldOf, Live, driver
<1> QED BY <1>2, <1>3, <1>4, <1>5, <1>6, <1>7, <1>8, <1>9 DEF IdsKept

(* A close removes the session from the pool.                               *)
LEMMA CloseRemovesKeeps ==
    ASSUME RegistryInv, NEW c \in coords, CloseRemoves(c)
    PROVE  RegistryInv'
<1>1. /\ c.phase = "removing" /\ Advance(c, "tearing")
      /\ registry' = [registry EXCEPT ![c.id] = IF @ = c.who THEN None ELSE @]
      /\ UNCHANGED <<ident, rows, overtaken, locked, closing, launches, browsers, relaunch, driver,
                     upsets, stop>>
    BY DEF CloseRemoves
<1> USE <1>1, Assembled, Advanced, NoneIsNoSession DEF launches, browsers, relaunch, stop
<1>2. LaunchesTyped' /\ ReopeningsTyped' /\ StopTyped'
    BY DEF IdsKept, LaunchesTyped, ReopeningsTyped, StopTyped
<1>3. IdsTyped'
    BY DEF IdsKept, IdsTyped
<1>4. /\ registry'[c.id] = None /\ \A i \in Sessions : i # c.id => registry'[i] = registry[i]
      /\ registry[c.id] \in {None, c.who} /\ closing[c.id] = c.who
      /\ launch[c.who] # "recording" \/ c.who \in overtaken
    BY DEF IdsKept, IdsTyped, Closing
<1>5. Ids'
    BY <1>4 DEF IdsKept, Ids
<1>6. Reopening'
    BY <1>4 DEF IdsKept, Reopening, Live
<1>7. Closing'
    BY <1>4 DEF IdsKept, IdsTyped, Closing
<1>8. RowsNamed' /\ NoLostBrowser'
    BY <1>4 DEF IdsKept, IdsTyped, RowsNamed, NoLostBrowser
<1>9. DriversKept'
    BY DriversLeft
<1>10. DeadAreKnown'
    BY <1>4 DEF DeadAreKnown, ToldOf, Live, driver
<1> QED BY <1>2, <1>3, <1>5, <1>6, <1>7, <1>8, <1>9, <1>10 DEF IdsKept

(* A close tears the browser down.                                          *)
LEMMA CloseTearsKeeps ==
    ASSUME RegistryInv, NEW c \in coords, CloseTears(c)
    PROVE  RegistryInv'
<1>1. /\ c.phase = "tearing" /\ Advance(c, "popping")
      /\ browser' = [browser EXCEPT ![c.who] = "gone"]
      /\ signal' = IF browser[c.who] = "open" THEN signal \cup {c.who} ELSE signal
      /\ rows' = rows \ {c.id}
      /\ UNCHANGED <<registry, ident, overtaken, locked, closing, launches, stillborn, relaunch,
                     driver, upsets, stop>>
    BY DEF CloseTears
<1> USE <1>1, Assembled, Advanced, NoneIsNoSession DEF launches, relaunch, stop
<1>2. LaunchesTyped' /\ ReopeningsTyped' /\ StopTyped'
    BY DEF IdsKept, LaunchesTyped, ReopeningsTyped, StopTyped
<1>3. IdsTyped'
    BY DEF IdsKept, IdsTyped
<1>4. /\ browser'[c.who] = "gone" /\ \A s \in Sessions : s # c.who => browser'[s] = browser[s]
      /\ launch[c.who] \in {"recording", "navigating", "returned"}
    BY DEF IdsKept, LaunchesTyped, Closing
<1>5. Ids'
    BY DEF IdsKept, Ids
<1>6. Reopening'
    BY DEF IdsKept, Reopening, Live
<1>7. Closing'
    BY <1>4 DEF IdsKept, IdsTyped, Closing
<1>8. RowsNamed' /\ NoLostBrowser'
    BY <1>4 DEF IdsKept, RowsNamed, NoLostBrowser
<1>9. DriversKept'
    BY <1>4, DriversLeft
<1>10. DeadAreKnown'
    BY <1>4 DEF DeadAreKnown, ToldOf, Live, driver
<1> QED BY <1>2, <1>3, <1>5, <1>6, <1>7, <1>8, <1>9, <1>10 DEF IdsKept

(* A close ends.                                                            *)
LEMMA CloseEndsKeeps ==
    ASSUME RegistryInv, NEW c \in coords, CloseEnds(c)
    PROVE  RegistryInv'
<1>1. /\ c.phase = "popping" /\ coords' = coords \ {c}
      /\ registry' = [registry EXCEPT ![c.id] = None]
      /\ closing' = [closing EXCEPT ![c.id] = IF @ = c.who THEN None ELSE @]
      /\ UNCHANGED <<ident, rows, overtaken, locked, launches, browsers, relaunch, driver, upsets,
                     stop>>
    BY DEF CloseEnds
<1> USE <1>1, Assembled, NoneIsNoSession DEF launches, browsers, relaunch, stop
<1>2. LaunchesTyped' /\ ReopeningsTyped' /\ StopTyped'
    BY DEF IdsKept, LaunchesTyped, ReopeningsTyped, StopTyped
<1>3. IdsTyped' /\ c.id \in Sessions /\ c.who \in Sessions
    BY DEF IdsKept, IdsTyped
<1>4. /\ registry'[c.id] = None /\ \A i \in Sessions : i # c.id => registry'[i] = registry[i]
      /\ closing'[c.id] = None /\ \A i \in Sessions : i # c.id => closing'[i] = closing[i]
      /\ registry[c.id] \in {None, c.who} /\ closing[c.id] = c.who
      /\ launch[c.who] # "recording" \/ c.who \in overtaken
      /\ browser[c.who] = "gone" /\ c.id \notin rows \ overtaken
      /\ \A d \in coords : d # c => d.id # c.id
    BY <1>3 DEF IdsKept, IdsTyped, Closing
<1>5. Ids'
    BY <1>4 DEF IdsKept, Ids
<1>6. Reopening'
    BY <1>4 DEF IdsKept, Reopening, Live
<1>7. Closing'
    BY <1>4 DEF IdsKept, IdsTyped, Closing
<1>8. RowsNamed' /\ NoLostBrowser'
    BY <1>3, <1>4 DEF IdsKept, IdsTyped, RowsNamed, NoLostBrowser
<1>9. DriversKept'
    BY DriversLeft
<1>10. DeadAreKnown'
    BY <1>4 DEF DeadAreKnown, ToldOf, Live, driver
<1> QED BY <1>2, <1>3, <1>5, <1>6, <1>7, <1>8, <1>9, <1>10 DEF IdsKept

-----------------------------------------------------------------------------
(* Steps that begin closes.                                                 *)

(* Sessions of S start to drain: each new coordinator takes an entry that   *)
(* was free, under the id that names its session; those there are stay, and *)
(* may be hurried.                                                          *)
Joins(S) ==
    /\ closing' \in [Sessions -> Sessions \cup {None}]
    /\ coords' \subseteq [id : Sessions, who : Sessions,
                          phase : {"waiting", "removing", "tearing", "popping"}]
    /\ \A c \in coords' :
           \/ \E e \in coords : /\ c.id = e.id /\ c.who = e.who
                                /\ c.phase = e.phase \/ (e.who \in S /\ c.phase = "removing")
           \/ /\ c.who \in S /\ registry[c.id] = c.who /\ c.phase # "popping"
              /\ closing[c.id] = None /\ closing'[c.id] = c.who
    /\ \A e \in coords : \E c \in coords' : c.id = e.id /\ c.who = e.who
    /\ \A c, d \in coords' : c.id = d.id => c = d
    /\ \A c \in coords' :
           c.phase = "waiting" \/ launch[c.who] # "recording" \/ c.who \in overtaken'
    /\ \A i \in Sessions :
           \/ closing'[i] = closing[i]
           \/ closing[i] = None /\ \E c \in coords' : c.id = i /\ c.who = closing'[i]
    /\ overtaken \subseteq overtaken' /\ overtaken' \subseteq Sessions

(* An id that names a session drains that one or none.                      *)
LEMMA EntryIsItsOwn ==
    ASSUME IdsKept, NEW i \in Sessions, registry[i] # None
    PROVE  closing[i] \in {None, registry[i]}
BY DEF IdsKept, Closing

(* A reserved close joins the coordinators, with the session of its id.     *)
LEMMA ReserveJoins ==
    ASSUME IdsKept, NEW i \in Sessions, registry[i] # None, closing[i] = None, Reserve(i),
           UNCHANGED overtaken
    PROVE  Joins({registry[i]})
<1> DEFINE n == Coordinator(i, registry[i], "waiting")
<1>1. registry[i] \in Sessions
    BY DEF IdsKept, IdsTyped
<1>2. /\ n \in [id : Sessions, who : Sessions, phase : {"waiting", "removing", "tearing", "popping"}]
      /\ n.id = i /\ n.who = registry[i] /\ n.phase = "waiting"
    BY <1>1 DEF Coordinator
<1>3. /\ closing' = [closing EXCEPT ![i] = registry[i]] /\ coords' = coords \cup {n}
    BY DEF Reserve
<1> HIDE DEF n
<1>4. /\ closing' \in [Sessions -> Sessions \cup {None}]
      /\ closing'[i] = registry[i] /\ \A j \in Sessions : j # i => closing'[j] = closing[j]
    BY <1>1, <1>3 DEF IdsKept, IdsTyped
<1>5. \A e \in coords : e.id # i
    BY <1>1, NoneIsNoSession DEF IdsKept, IdsTyped, Closing
<1>6. \A c, d \in coords' : c.id = d.id => c = d
    BY <1>2, <1>3, <1>5 DEF IdsKept, Closing
<1>7. \A c \in coords' :
          c.phase = "waiting" \/ launch[c.who] # "recording" \/ c.who \in overtaken'
    BY <1>2, <1>3 DEF IdsKept, Closing
<1>8. coords' \subseteq [id : Sessions, who : Sessions,
                         phase : {"waiting", "removing", "tearing", "popping"}]
    BY <1>2, <1>3 DEF IdsKept, IdsTyped
<1>9. \A c \in coords' :
          \/ \E e \in coords : c.id = e.id /\ c.who = e.who /\ c.phase = e.phase
          \/ /\ c.who \in {registry[i]} /\ registry[c.id] = c.who /\ c.phase # "popping"
             /\ closing[c.id] = None /\ closing'[c.id] = c.who
    BY <1>2, <1>3, <1>4
<1>10. \A e \in coords : \E c \in coords' : c.id = e.id /\ c.who = e.who
    BY <1>3
<1>11. \A j \in Sessions :
          \/ closing'[j] = closing[j]
          \/ closing[j] = None /\ \E c \in coords' : c.id = j /\ c.who = closing'[j]
    BY <1>2, <1>3, <1>4
<1>12. overtaken \subseteq overtaken' /\ overtaken' \subseteq Sessions
    BY DEF IdsKept, IdsTyped
<1> QED BY <1>4, <1>6, <1>7, <1>8, <1>9, <1>10, <1>11, <1>12 DEF Joins

(* A hurried close is the same one, which no longer waits.                  *)
LEMMA HurriedIs ==
    ASSUME IdsKept, NEW S, NEW c \in coords
    PROVE  /\ Hurried(c, S) \in [id : Sessions, who : Sessions,
                                 phase : {"waiting", "removing", "tearing", "popping"}]
           /\ Hurried(c, S).id = c.id /\ Hurried(c, S).who = c.who
           /\ \/ Hurried(c, S).phase = c.phase /\ (c.who \in S => c.phase # "waiting")
              \/ c.who \in S /\ Hurried(c, S).phase = "removing"
<1>1. c \in [id : Sessions, who : Sessions, phase : {"waiting", "removing", "tearing", "popping"}]
    BY DEF IdsKept, IdsTyped
<1> QED BY <1>1 DEF Hurried

(* External closes accepted without the lock join them, with their sessions.*)
LEMMA AcceptJoins ==
    ASSUME IdsKept, NEW S \in SUBSET Live, Accept(S)
    PROVE  /\ Joins(S)
           /\ \A i \in Sessions :
                  \/ registry'[i] = registry[i] /\ registry[i] \notin S
                  \/ /\ registry'[i] = None /\ registry[i] \in S /\ closing'[i] = registry[i]
                     /\ launch[registry[i]] = "recording" => registry[i] \in overtaken'
<1> DEFINE new == {s \in S : closing[ident[s]] # s}
           n(s) == Coordinator(ident[s], s, "removing")
<1> USE NoneIsNoSession
<1>1. \A s \in S : s \in Sessions /\ ident[s] \in Sessions /\ registry[ident[s]] = s
    BY DEF IdsKept, IdsTyped, Ids, Live
<1>2. \A s, x \in S : ident[s] = ident[x] => s = x
    BY <1>1
<1>3. \A s \in S : closing[ident[s]] \in {None, s}
    BY <1>1, EntryIsItsOwn
<1>4. /\ registry' = [i \in Sessions |-> IF registry[i] \in S THEN None ELSE registry[i]]
      /\ coords' = {Hurried(c, S) : c \in coords} \cup {n(s) : s \in new}
      /\ closing' = [i \in Sessions |->
                        IF \E s \in new : ident[s] = i THEN CHOOSE s \in new : ident[s] = i
                        ELSE closing[i]]
      /\ overtaken' = overtaken \cup {s \in S : launch[s] = "recording"}
    BY DEF Accept
<1>5. \A s \in new : /\ n(s) \in [id : Sessions, who : Sessions, phase : {"removing"}]
                     /\ n(s).id = ident[s] /\ n(s).who = s /\ n(s).phase = "removing"
                     /\ n(s) \in coords'
    BY <1>1, <1>4 DEF Coordinator
<1>6. \A s \in new : s \in S /\ closing[ident[s]] = None
    BY <1>3
<1>7. \A c \in coords' : (\E e \in coords : c = Hurried(e, S)) \/ (\E s \in new : c = n(s))
    BY <1>4
<1>8. \A s \in S \ new : closing[ident[s]] = s
    OBVIOUS
<1> HIDE DEF new, n
<1>9. \A s \in new : closing'[ident[s]] = s
    BY <1>1, <1>2, <1>4, <1>6
<1>10. \A i \in Sessions : (\A s \in new : ident[s] # i) => closing'[i] = closing[i]
    BY <1>4
<1>11. \A s \in S : closing'[ident[s]] = s
    <2> SUFFICES ASSUME NEW s \in S, s \notin new PROVE closing'[ident[s]] = s
        BY <1>9
    <2>1. \A x \in new : ident[x] # ident[s]
        BY <1>2, <1>6
    <2> QED BY <1>1, <1>8, <1>10, <2>1
<1>12. closing' \in [Sessions -> Sessions \cup {None}]
    <2>1. \A i \in Sessions : closing'[i] \in Sessions \cup {None}
        BY <1>1, <1>6, <1>9, <1>10 DEF IdsKept, IdsTyped
    <2> QED BY <1>4, <2>1
<1>13. \A s \in S : launch[s] = "recording" => s \in overtaken'
    BY <1>4
<1>14. ASSUME NEW c \in coords', NEW e \in coords, c = Hurried(e, S)
       PROVE  /\ c \in [id : Sessions, who : Sessions,
                        phase : {"waiting", "removing", "tearing", "popping"}]
              /\ c.id = e.id /\ c.who = e.who
              /\ c.phase = e.phase \/ (e.who \in S /\ c.phase = "removing")
              /\ c.phase = "waiting" \/ launch[c.who] # "recording" \/ c.who \in overtaken'
    <2>1. e.phase = "waiting" \/ launch[e.who] # "recording" \/ e.who \in overtaken
        BY DEF IdsKept, Closing
    <2> QED BY <1>4, <1>13, <1>14, <2>1, HurriedIs
<1>15. ASSUME NEW c \in coords', NEW s \in new, c = n(s)
       PROVE  /\ c \in [id : Sessions, who : Sessions,
                        phase : {"waiting", "removing", "tearing", "popping"}]
              /\ c.id = ident[s] /\ c.who = s /\ s \in S /\ c.phase = "removing"
              /\ registry[c.id] = c.who /\ closing[c.id] = None /\ closing'[c.id] = c.who
              /\ launch[c.who] # "recording" \/ c.who \in overtaken'
    BY <1>1, <1>5, <1>6, <1>9, <1>13, <1>15
<1>16. \A e \in coords : Hurried(e, S) \in coords' /\ closing[e.id] = e.who /\ e.who # None
    BY <1>4 DEF IdsKept, Closing, IdsTyped
<1>17. Joins(S)
    <2>1. \A c \in coords' :
              \/ \E e \in coords : /\ c.id = e.id /\ c.who = e.who
                                   /\ c.phase = e.phase \/ (e.who \in S /\ c.phase = "removing")
              \/ /\ c.who \in S /\ registry[c.id] = c.who /\ c.phase # "popping"
                 /\ closing[c.id] = None /\ closing'[c.id] = c.who
        BY <1>7, <1>14, <1>15
    <2>2. \A e \in coords : \E c \in coords' : c.id = e.id /\ c.who = e.who
        BY <1>16, HurriedIs
    <2>3. ASSUME NEW c \in coords', NEW d \in coords', c.id = d.id PROVE c = d
        <3>1. CASE \E e, f \in coords : c = Hurried(e, S) /\ d = Hurried(f, S)
            BY <2>3, <3>1, <1>14 DEF IdsKept, Closing
        <3>2. CASE \E e \in coords, s \in new :
                       (c = Hurried(e, S) /\ d = n(s)) \/ (d = Hurried(e, S) /\ c = n(s))
            BY <2>3, <3>2, <1>14, <1>15, <1>16
        <3>3. CASE \E s, x \in new : c = n(s) /\ d = n(x)
            BY <2>3, <3>3, <1>2, <1>15
        <3> QED BY <1>7, <3>1, <3>2, <3>3
    <2>4. \A c \in coords' : /\ c \in [id : Sessions, who : Sessions,
                                       phase : {"waiting", "removing", "tearing", "popping"}]
                             /\ c.phase = "waiting" \/ launch[c.who] # "recording"
                                \/ c.who \in overtaken'
        BY <1>7, <1>14, <1>15
    <2>5. \A i \in Sessions :
              \/ closing'[i] = closing[i]
              \/ closing[i] = None /\ \E c \in coords' : c.id = i /\ c.who = closing'[i]
        BY <1>5, <1>6, <1>9, <1>10
    <2>6. overtaken \subseteq overtaken' /\ overtaken' \subseteq Sessions
        BY <1>1, <1>4 DEF IdsKept, IdsTyped
    <2> QED BY <1>12, <2>1, <2>2, <2>3, <2>4, <2>5, <2>6 DEF Joins
<1>18. \A i \in Sessions : registry[i] \in S => closing'[i] = registry[i]
    BY <1>1, <1>11 DEF IdsKept, Ids
<1> QED BY <1>4, <1>13, <1>17, <1>18

(* What a step that begins closes keeps: the ids it takes away are drained, *)
(* the sessions it has reopened were listed.                                *)
LEMMA JoiningKeeps ==
    ASSUME IdsKept, NEW S \in SUBSET Live, Joins(S),
           \A i \in Sessions :
              \/ registry'[i] = registry[i]
              \/ /\ registry'[i] = None /\ registry[i] \in S /\ closing'[i] = registry[i]
                 /\ launch[registry[i]] = "recording" => registry[i] \in overtaken',
           registry' \in [Sessions -> Sessions \cup {None}],
           rel' \in [Sessions -> {"none", "waiting", "launching", "rekeying", "over"}],
           \A x \in Sessions :
              \/ rel'[x] = rel[x]
              \/ rel'[x] = "waiting" /\ x \in S /\ x \notin tagged
                 /\ \A i \in Sessions : registry'[i] # x,
           \A x \in Sessions :
              launch'[x] = launch[x] \/ {launch[x], launch'[x]} \subseteq {"starting", "resetting"},
           UNCHANGED <<ident, rows, locked, browser, reopens, tagged>>
    PROVE  IdsKept'
<1> USE NoneIsNoSession
<1>1. \A x \in S : /\ x \in Sessions /\ rel[x] = "none"
                   /\ launch[x] \in {"recording", "navigating", "returned"} /\ launch'[x] = launch[x]
    BY LiveLaunched DEF IdsKept, Reopening, ReopeningsTyped
<1>2. \A x \in Sessions : /\ launch[x] \in {"recording", "navigating", "returned"} => launch'[x] = launch[x]
                          /\ launch'[x] \in {"recording", "navigating", "returned"} => launch[x] = launch'[x]
                          /\ launch[x] # "unborn" => launch'[x] # "unborn"
                          /\ rel[x] # "none" => rel'[x] = rel[x]
    BY <1>1
<1>3. IdsTyped' /\ ReopeningsTyped'
    BY DEF IdsKept, IdsTyped, ReopeningsTyped, Joins
<1>4. \A c \in coords' :
          \/ \E e \in coords : /\ c.id = e.id /\ c.who = e.who
                               /\ c.phase = e.phase \/ (e.who \in S /\ c.phase = "removing")
          \/ /\ c.who \in S /\ registry[c.id] = c.who /\ c.phase # "popping"
             /\ closing[c.id] = None /\ closing'[c.id] = c.who
    BY DEF Joins
<1>5. \A c \in coords : /\ c.id \in Sessions /\ c.who \in Sessions
                        /\ closing[c.id] = c.who /\ closing'[c.id] = c.who
                        /\ \E d \in coords' : d.id = c.id /\ d.who = c.who
    BY DEF Joins, IdsKept, IdsTyped, Closing
<1>6. \A i \in Sessions : closing'[i] # None => \E c \in coords' : c.id = i /\ c.who = closing'[i]
    BY <1>5 DEF Joins, IdsKept, Closing
<1>7. Ids'
    <2>1. \A i \in Sessions : registry'[i] # None =>
              ident[registry'[i]] = i /\ launch'[registry'[i]] \in {"recording", "navigating", "returned"}
        BY <1>2 DEF IdsKept, IdsTyped, Ids
    <2>2. \A s \in Sessions :
              \/ ident[s] = s
              \/ /\ ident[s] = reopens[s] /\ reopens[s] # None /\ s \in tagged
                 /\ launch'[s] = "returned" /\ rel'[reopens[s]] = "over"
        BY <1>2 DEF IdsKept, IdsTyped, Ids
    <2>3. \A s \in Sessions : launch'[s] = "recording" /\ s \notin overtaken' => registry'[s] = s
        BY <1>2 DEF IdsKept, Ids, Joins
    <2> QED BY <2>1, <2>2, <2>3 DEF Ids
<1>8. Reopening'
    <2>1. \A t \in Sessions : reopens[t] # None =>
              launch'[t] # "unborn" /\ rel'[reopens[t]] \in {"launching", "rekeying", "over"}
        BY <1>2 DEF IdsKept, ReopeningsTyped, Reopening
    <2>2. \A s \in Sessions : s \notin Live => s \notin Live'
        BY DEF Live
    <2>3. \A s \in Sessions : rel'[s] # "none" =>
              s \notin Live' /\ s \notin tagged /\ launch'[s] \in {"recording", "navigating", "returned"}
        BY <1>1, <1>2, <2>2 DEF IdsKept, Reopening, Live
    <2>4. \A s \in Sessions : rel'[s] \in {"launching", "rekeying", "over"} =>
              \A c \in coords' : c.who # s
        BY <1>1, <1>2, <1>4 DEF IdsKept, Reopening
    <2>5. locked # None => rel'[locked] = "rekeying"
        BY <1>2 DEF IdsKept, IdsTyped, Reopening
    <2> QED BY <1>2, <2>1, <2>3, <2>4, <2>5 DEF IdsKept, Reopening
<1>9. Closing'
    <2>1. \A c \in coords : registry'[c.id] \in {None, c.who}
        BY <1>5 DEF IdsKept, Closing
    <2>2. \A c \in coords' :
              /\ closing'[c.id] = c.who
              /\ c.id = c.who \/ c.id = ident[c.who]
              /\ registry'[c.id] \in {None, c.who}
              /\ launch'[c.who] \in {"recording", "navigating", "returned"}
              /\ c.phase = "popping" => browser[c.who] = "gone" /\ c.id \notin rows \ overtaken'
        <3> TAKE c \in coords'
        <3>1. CASE \E e \in coords : /\ c.id = e.id /\ c.who = e.who
                                     /\ c.phase = e.phase \/ (e.who \in S /\ c.phase = "removing")
            <4>1. PICK e \in coords : /\ c.id = e.id /\ c.who = e.who
                                      /\ c.phase = e.phase \/ c.phase = "removing"
                BY <3>1
            <4>2. overtaken \subseteq overtaken'
                BY DEF Joins
            <4> QED BY <1>2, <1>5, <2>1, <4>1, <4>2 DEF IdsKept, Closing
        <3>2. CASE /\ c.who \in S /\ registry[c.id] = c.who /\ c.phase # "popping"
                   /\ closing[c.id] = None /\ closing'[c.id] = c.who
            <4>1. c.id \in Sessions
                BY DEF Joins
            <4>2. registry'[c.id] \in {None, c.who} /\ c.id = ident[c.who]
                BY <3>2, <4>1, <1>1 DEF IdsKept, Ids
            <4> QED BY <1>1, <3>2, <4>2
        <3> QED BY <1>4, <3>1, <3>2
    <2>3. \A c, d \in coords' : c.id = d.id => c = d
        BY DEF Joins
    <2>4. \A c \in coords' :
              c.phase = "waiting" \/ launch'[c.who] # "recording" \/ c.who \in overtaken'
        <3> TAKE c \in coords'
        <3>1. /\ c.phase = "waiting" \/ launch[c.who] # "recording" \/ c.who \in overtaken'
              /\ c.who \in Sessions
            BY DEF Joins
        <3> QED BY <1>2, <3>1
    <2> QED BY <1>6, <2>2, <2>3, <2>4 DEF Closing
<1>10. RowsNamed' /\ NoLostBrowser'
    <2>1. \A i \in Sessions : closing[i] # None => closing'[i] = closing[i]
        BY DEF Joins
    <2>2. overtaken \subseteq overtaken'
        BY DEF Joins
    <2> QED BY <1>2, <2>1, <2>2 DEF IdsKept, IdsTyped, RowsNamed, NoLostBrowser
<1> QED BY <1>3, <1>7, <1>8, <1>9, <1>10 DEF IdsKept

(* A client asks for a close.                                               *)
LEMMA RequestCloseKeeps ==
    ASSUME RegistryInv, NEW i \in Sessions, RequestClose(i)
    PROVE  RegistryInv'
<1>1. /\ registry[i] # None /\ closing[i] = None /\ Reserve(i)
      /\ UNCHANGED <<registry, ident, rows, overtaken, locked, launches, browsers, relaunch, driver,
                     upsets, stop>>
    BY DEF RequestClose
<1> USE <1>1, Assembled DEF launches, browsers, relaunch, stop
<1>2. LaunchesTyped' /\ StopTyped'
    BY DEF LaunchesTyped, StopTyped
<1>3. IdsKept'
    <2>1. Joins({registry[i]}) /\ {registry[i]} \in SUBSET Live
        BY ReserveJoins DEF Live, IdsKept, IdsTyped
    <2> QED BY <2>1, JoiningKeeps DEF IdsKept, IdsTyped, ReopeningsTyped
<1>4. DriversKept'
    BY DriversLeft
<1>5. DeadAreKnown'
    BY DEF DeadAreKnown, ToldOf, Live, driver
<1> QED BY <1>2, <1>3, <1>4, <1>5

(* The shutdown reserves a close.                                           *)
LEMMA ShutdownReservesKeeps ==
    ASSUME RegistryInv, NEW i \in Sessions, ShutdownReserves(i)
    PROVE  RegistryInv'
<1>1. /\ \/ registry[i] # None /\ closing[i] = None /\ Reserve(i)
         \/ UNCHANGED <<closing, coords>>
      /\ todo' = todo \ {i}
      /\ UNCHANGED <<registry, ident, rows, overtaken, locked, launches, browsers, relaunch, driver,
                     upsets, shutdown>>
    BY DEF ShutdownReserves
<1> USE <1>1, Assembled DEF launches, browsers, relaunch
<1>2. LaunchesTyped' /\ StopTyped'
    BY DEF LaunchesTyped, StopTyped
<1>3. IdsKept'
    <2>1. CASE registry[i] # None /\ closing[i] = None /\ Reserve(i)
        <3>1. Joins({registry[i]}) /\ {registry[i]} \in SUBSET Live
            BY <2>1, ReserveJoins DEF Live, IdsKept, IdsTyped
        <3> QED BY <3>1, JoiningKeeps DEF IdsKept, IdsTyped, ReopeningsTyped
    <2>2. CASE UNCHANGED <<closing, coords>>
        BY <2>2, DyingLeaves
    <2> QED BY <2>1, <2>2
<1>4. DriversKept'
    BY DriversLeft
<1>5. DeadAreKnown'
    BY DEF DeadAreKnown, ToldOf, Live, driver
<1> QED BY <1>2, <1>3, <1>4, <1>5

(* The end of a registered session's browser is noticed and judged.         *)
LEMMA DeliverCloseKeeps ==
    ASSUME RegistryInv, NEW s \in Sessions, DeliverClose(s)
    PROVE  RegistryInv'
<1>1. /\ signal' = signal \ {s}
      /\ UNCHANGED <<ident, rows, locked, launches, browser, stillborn, reopens, tagged, driver,
                     upsets, stop>>
    BY DEF DeliverClose
<1>2. \/ /\ registry[ident[s]] = s /\ Accept({s})
         /\ rel' = rel \/ (s \notin tagged /\ rel' = [rel EXCEPT ![s] = "waiting"])
      \/ registry[ident[s]] # s /\ UNCHANGED <<registry, overtaken, coords, closing, rel>>
    BY DEF DeliverClose
<1> USE <1>1, Assembled, NoneIsNoSession DEF launches, stop
<1>3. LaunchesTyped' /\ StopTyped'
    BY DEF LaunchesTyped, StopTyped
<1>4. \A i \in Sessions : registry[i] = s => i = ident[s]
    BY DEF IdsKept, Ids
<1>5. ident[s] \in Sessions
    BY DEF IdsKept, IdsTyped
<1>6. CASE /\ registry[ident[s]] = s /\ Accept({s})
           /\ rel' = rel \/ (s \notin tagged /\ rel' = [rel EXCEPT ![s] = "waiting"])
    <2>1. {s} \in SUBSET Live
        BY <1>5, <1>6 DEF Live
    <2>2. /\ Joins({s})
          /\ \A i \in Sessions :
                 \/ registry'[i] = registry[i] /\ registry[i] \notin {s}
                 \/ /\ registry'[i] = None /\ registry[i] \in {s} /\ closing'[i] = registry[i]
                    /\ launch[registry[i]] = "recording" => registry[i] \in overtaken'
        BY <1>6, <2>1, AcceptJoins
    <2>3. registry' \in [Sessions -> Sessions \cup {None}]
        <3>1. registry' = [i \in Sessions |-> IF registry[i] \in {s} THEN None ELSE registry[i]]
            BY <1>6 DEF Accept
        <3> QED BY <3>1 DEF IdsKept, IdsTyped
    <2>4. /\ rel' \in [Sessions -> {"none", "waiting", "launching", "rekeying", "over"}]
          /\ \A x \in Sessions : rel'[x] = rel[x] \/ (rel'[x] = "waiting" /\ x = s /\ s \notin tagged)
        BY <1>6 DEF IdsKept, ReopeningsTyped
    <2>5. s \notin Live'
        BY <2>2 DEF Live
    <2>6. IdsKept'
        BY <2>1, <2>2, <2>3, <2>4, <2>5, JoiningKeeps DEF Live
    <2>7. DriversKept'
        BY DriversLeft
    <2>8. DeadAreKnown'
        BY <2>2, <2>5 DEF DeadAreKnown, ToldOf, Live, driver
    <2> QED BY <1>3, <2>6, <2>7, <2>8
<1>7. CASE registry[ident[s]] # s /\ UNCHANGED <<registry, overtaken, coords, closing, rel>>
    <2>1. IdsKept'
        BY <1>7, DyingLeaves
    <2>2. DriversKept'
        BY DriversLeft
    <2>3. Live' = Live /\ s \notin Live
        BY <1>4, <1>7 DEF Live
    <2>4. DeadAreKnown'
        BY <2>3 DEF DeadAreKnown, ToldOf, Live, driver
    <2> QED BY <1>3, <2>1, <2>2, <2>4
<1> QED BY <1>2, <1>6, <1>7

(* A reset finds the driver its launch judged, which is dead and carries no *)
(* browser.                                                                 *)
LEMMA OnlyTheDeadAreReset ==
    ASSUME RegistryInv, NEW s \in Sessions, launch[s] = "resetting",
           ~(gen[s] # None /\ pw # gen[s])
    PROVE  /\ pw # None /\ alive = {} /\ shutdown # "stopped" /\ restarts + 1 <= upsets
           /\ \A x \in Sessions : browser[x] # "open"
<1>1. gen[s] # None /\ gen[s] \notin alive /\ pw = gen[s] /\ shutdown # "stopped"
    BY Assembled DEF DriversKept, Launching
<1>2. alive = {}
    BY <1>1, Assembled DEF DriversKept, Drivers
<1>3. restarts + 1 <= upsets
    BY <1>1, Assembled DEF DriversKept, Drivers, Count
<1> QED BY <1>1, <1>2, <1>3, Assembled DEF DriversKept, Launching

(* A launch discards the driver it judged, unless another has replaced it.  *)
LEMMA ResetKeeps ==
    ASSUME RegistryInv, NEW s \in Sessions, Reset(s)
    PROVE  RegistryInv'
<1>1. /\ launch[s] = "resetting" /\ launch' = [launch EXCEPT ![s] = "starting"]
      /\ retried' = retried \cup {s}
      /\ UNCHANGED <<ident, rows, locked, gen, seen, browsers, reopens, tagged, upsets, stop>>
    BY DEF Reset, Goto
<1>2. \/ UNCHANGED <<driver, registry, overtaken, coords, closing, rel>>
      \/ ~(gen[s] # None /\ pw # gen[s]) /\ DriverLost
    BY DEF Reset
<1> USE <1>1, Assembled, NoneIsNoSession DEF browsers, stop
<1>3. LaunchesTyped' /\ StopTyped'
    BY DEF LaunchesTyped, StopTyped
<1>4. launch'[s] = "starting" /\ \A x \in Sessions : x # s => launch'[x] = launch[x]
    BY DEF LaunchesTyped
<1>5. CASE UNCHANGED <<driver, registry, overtaken, coords, closing, rel>>
    <2> USE <1>5 DEF driver
    <2>1. IdsKept'
        BY EarlyLaunchLeaves DEF Goto
    <2>2. DriversTyped' /\ Drivers'
        BY DEF DriversKept, DriversTyped, Drivers
    <2>3. Launching'
        BY <1>4 DEF DriversKept, Launching
    <2>4. DeadAreKnown'
        BY <1>4 DEF DeadAreKnown, ToldOf, Live
    <2> QED BY <1>3, <2>1, <2>2, <2>3, <2>4 DEF DriversKept
<1>6. CASE ~(gen[s] # None /\ pw # gen[s]) /\ DriverLost
    <2>1. /\ pw # None /\ alive = {} /\ shutdown # "stopped" /\ restarts + 1 <= upsets
          /\ \A x \in Sessions : browser[x] # "open"
        BY <1>6, OnlyTheDeadAreReset
    <2>2. /\ pw' = None /\ restarts' = restarts + 1 /\ alive' = alive \ {pw} /\ UNCHANGED started
          /\ Accept(Live)
          /\ rel' = [x \in Sessions |->
                        IF x \in Live \ tagged /\ Mode # "off" THEN "waiting" ELSE rel[x]]
        BY <1>6 DEF DriverLost
    <2>3. /\ Joins(Live)
          /\ \A i \in Sessions :
                 \/ registry'[i] = registry[i] /\ registry[i] \notin Live
                 \/ /\ registry'[i] = None /\ registry[i] \in Live /\ closing'[i] = registry[i]
                    /\ launch[registry[i]] = "recording" => registry[i] \in overtaken'
        BY <2>2, AcceptJoins
    <2>4. Live' = {}
        BY <2>3 DEF Live
    <2>5. registry' \in [Sessions -> Sessions \cup {None}]
        <3>1. registry' = [i \in Sessions |-> IF registry[i] \in Live THEN None ELSE registry[i]]
            BY <2>2 DEF Accept
        <3> QED BY <3>1 DEF IdsKept, IdsTyped
    <2>6. /\ rel' \in [Sessions -> {"none", "waiting", "launching", "rekeying", "over"}]
          /\ \A x \in Sessions :
                 rel'[x] = rel[x] \/ (rel'[x] = "waiting" /\ x \in Live /\ x \notin tagged)
        BY <2>2 DEF IdsKept, ReopeningsTyped
    <2>7. IdsKept'
        <3>1. Live \in SUBSET Live /\ \A x, i \in Sessions : registry'[i] # x
            BY <2>4 DEF Live
        <3>2. \A x \in Sessions :
                  launch'[x] = launch[x] \/ {launch[x], launch'[x]} \subseteq {"starting", "resetting"}
            BY <1>4
        <3> HIDE DEF Live
        <3> QED BY <2>3, <2>5, <2>6, <3>1, <3>2, JoiningKeeps
    <2>8. DriversTyped'
        BY <2>1, <2>2, RegistryAssumption DEF DriversKept, DriversTyped
    <2>9. Drivers'
        BY <2>1, <2>2 DEF DriversKept, DriversTyped, Drivers, Count, None, Handles
    <2>10. Launching'
        BY <1>4, <2>1, <2>2 DEF DriversKept, DriversTyped, Launching
    <2>11. DeadAreKnown'
        BY <1>4, <2>4 DEF DeadAreKnown, ToldOf
    <2> QED BY <1>3, <2>7, <2>8, <2>9, <2>10, <2>11 DEF DriversKept
<1> QED BY <1>2, <1>5, <1>6

-----------------------------------------------------------------------------
(* Reopening.                                                               *)

(* What is known of a session that is being reopened.                       *)
LEMMA LostForGood ==
    ASSUME IdsKept, NEW s \in Sessions, rel[s] \in {"waiting", "launching", "rekeying"},
           \A c \in coords : c.who # s
    PROVE  /\ ident[s] = s /\ registry[s] = None
           /\ s \notin Live /\ s \notin tagged
           /\ \A c \in coords : c.id # s
           /\ \A x \in Sessions : ident[x] = s => x = s
<1> USE NoneIsNoSession DEF IdsKept
<1>1. s \notin Live /\ s \notin tagged /\ launch[s] \in {"recording", "navigating", "returned"}
    BY DEF Reopening
<1>2. ident[s] = s /\ \A x \in Sessions : ident[x] = s => x = s
    BY <1>1 DEF Ids
<1>3. registry[s] = None
    BY <1>1, <1>2 DEF Ids, IdsTyped, Live
<1>4. \A c \in coords : c.id # s
    BY <1>2 DEF Closing, IdsTyped
<1> QED BY <1>1, <1>2, <1>3, <1>4

(* A relaunch reopens the browser.                                          *)
LEMMA ReopenKeeps ==
    ASSUME RegistryInv, NEW s \in Sessions, Reopen(s)
    PROVE  RegistryInv'
<1>1. /\ rel[s] = "waiting" /\ \A c \in coords : c.who # s
      /\ UNCHANGED <<pool, browsers, tagged, driver, upsets, stop>>
    BY DEF Reopen
<1>2. \/ /\ rel' = [rel EXCEPT ![s] = "launching"]
         /\ \E t \in Sessions : IsSlot(t) /\ Begin(t) /\ reopens' = [reopens EXCEPT ![t] = s]
      \/ rel' = [rel EXCEPT ![s] = "over"] /\ UNCHANGED <<launches, reopens>>
    BY DEF Reopen
<1> USE <1>1, Assembled, LostForGood, NoneIsNoSession DEF pool, browsers, stop
<1>3. IdsTyped'
    BY DEF IdsKept, IdsTyped
<1>4. \A x \in Sessions : reopens[x] # s
    BY DEF IdsKept, Reopening
<1>5. CASE /\ rel' = [rel EXCEPT ![s] = "launching"]
           /\ \E t \in Sessions : IsSlot(t) /\ Begin(t) /\ reopens' = [reopens EXCEPT ![t] = s]
    <2>1. PICK t \in Sessions : IsSlot(t) /\ Begin(t) /\ reopens' = [reopens EXCEPT ![t] = s]
        BY <1>5
    <2>2. launch[t] = "unborn" /\ launch' = [launch EXCEPT ![t] = "starting"]
        BY <2>1 DEF IsSlot, Begin, Goto
    <2>3. DriversKept' /\ LaunchesTyped' /\ StopTyped' /\ DeadAreKnown'
        BY <2>1, <2>2, LaunchBegins
    <2>4. ReopeningsTyped'
        BY <1>5, <2>1 DEF IdsKept, ReopeningsTyped
    <2>5. /\ launch'[t] = "starting" /\ \A x \in Sessions : x # t => launch'[x] = launch[x]
          /\ reopens'[t] = s /\ \A x \in Sessions : x # t => reopens'[x] = reopens[x]
          /\ rel'[s] = "launching" /\ \A x \in Sessions : x # s => rel'[x] = rel[x]
        BY <1>5, <2>1, <2>2 DEF IdsKept, ReopeningsTyped, LaunchesTyped
    <2>6. Ids'
        BY <2>2, <2>5, <1>4 DEF IdsKept, IdsTyped, ReopeningsTyped, Ids
    <2>7. Reopening'
        BY <2>2, <2>5, <1>4 DEF IdsKept, IdsTyped, ReopeningsTyped, Reopening, Live
    <2>8. Closing'
        BY <2>2, <2>5 DEF IdsKept, IdsTyped, Closing
    <2>9. RowsNamed' /\ NoLostBrowser'
        BY <2>5 DEF IdsKept, RowsNamed, NoLostBrowser
    <2> QED BY <1>3, <2>3, <2>4, <2>6, <2>7, <2>8, <2>9 DEF IdsKept
<1>6. CASE rel' = [rel EXCEPT ![s] = "over"] /\ UNCHANGED <<launches, reopens>>
    <2> USE <1>6 DEF launches
    <2>1. LaunchesTyped' /\ StopTyped' /\ ReopeningsTyped'
        BY DEF IdsKept, LaunchesTyped, StopTyped, ReopeningsTyped
    <2>2. rel'[s] = "over" /\ \A x \in Sessions : x # s => rel'[x] = rel[x]
        BY DEF IdsKept, ReopeningsTyped
    <2>3. Ids'
        BY <2>2, <1>4 DEF IdsKept, ReopeningsTyped, Ids
    <2>4. Reopening'
        BY <2>2, <1>4 DEF IdsKept, IdsTyped, ReopeningsTyped, Reopening, Live
    <2>5. Closing' /\ RowsNamed' /\ NoLostBrowser'
        BY DEF IdsKept, Closing, RowsNamed, NoLostBrowser
    <2>6. DriversKept'
        BY DriversLeft
    <2>7. DeadAreKnown'
        BY DEF DeadAreKnown, ToldOf, Live, driver
    <2> QED BY <1>3, <2>1, <2>3, <2>4, <2>5, <2>6, <2>7 DEF IdsKept
<1> QED BY <1>2, <1>5, <1>6

(* The replacement's launch has ended, and the manifest's row moves.        *)
LEMMA FinalizeKeeps ==
    ASSUME RegistryInv, NEW s \in Sessions, Finalize(s)
    PROVE  RegistryInv'
<1>1. PICK t \in Sessions :
          /\ rel[s] = "launching" /\ reopens[t] = s
          /\ \/ /\ launch[t] = "returned" /\ registry[t] = t /\ locked = None
                /\ rel' = [rel EXCEPT ![s] = "rekeying"] /\ locked' = s
                /\ rows' = IF t \in rows THEN (rows \ {t}) \cup {ident[s]} ELSE rows
                /\ UNCHANGED tagged
             \/ /\ rel' = [rel EXCEPT ![s] = "over"]
                /\ tagged' = tagged \cup (IF registry[t] = t THEN {t} ELSE {})
                /\ UNCHANGED <<locked, rows>>
          /\ UNCHANGED <<registry, ident, overtaken, closing, coords, launches, browsers, reopens,
                         driver, upsets, stop>>
    BY DEF Finalize, Unlocked
<1>2. \A c \in coords : c.who # s
    BY <1>1, Assembled DEF IdsKept, Reopening
<1> USE <1>1, <1>2, Assembled, LostForGood, NoneIsNoSession DEF launches, browsers, stop
<1>3. LaunchesTyped' /\ StopTyped' /\ IdsTyped' /\ ReopeningsTyped'
    BY DEF IdsKept, LaunchesTyped, StopTyped, IdsTyped, ReopeningsTyped
<1>4. \A x \in Sessions : x # s => rel'[x] = rel[x]
    BY DEF IdsKept, ReopeningsTyped
<1>5. DriversKept'
    BY DriversLeft
<1>6. DeadAreKnown'
    BY DEF DeadAreKnown, ToldOf, Live, driver
<1>7. NoLostBrowser'
    BY DEF IdsKept, NoLostBrowser
<1>8. CASE /\ launch[t] = "returned" /\ registry[t] = t /\ locked = None
           /\ rel' = [rel EXCEPT ![s] = "rekeying"] /\ locked' = s
           /\ rows' = IF t \in rows THEN (rows \ {t}) \cup {ident[s]} ELSE rows
           /\ UNCHANGED tagged
    <2>1. rel'[s] = "rekeying" /\ t # s
        BY <1>8 DEF IdsKept, ReopeningsTyped
    <2>2. t \notin rows' /\ rows' \subseteq rows \cup {s}
        BY <1>8, <2>1
    <2>3. Ids'
        BY <1>4, <1>8, <2>1 DEF IdsKept, IdsTyped, ReopeningsTyped, Ids
    <2>4. Reopening'
        BY <1>4, <1>8, <2>1, <2>2 DEF IdsKept, ReopeningsTyped, Reopening, Live
    <2>5. Closing'
        BY <2>2 DEF IdsKept, Closing
    <2>6. RowsNamed'
        BY <1>8, <2>2 DEF IdsKept, IdsTyped, RowsNamed
    <2> QED BY <1>3, <1>5, <1>6, <1>7, <2>3, <2>4, <2>5, <2>6 DEF IdsKept
<1>9. CASE /\ rel' = [rel EXCEPT ![s] = "over"]
           /\ tagged' = tagged \cup (IF registry[t] = t THEN {t} ELSE {})
           /\ UNCHANGED <<locked, rows>>
    <2>1. rel'[s] = "over"
        BY <1>9 DEF IdsKept, ReopeningsTyped
    <2>2. tagged \subseteq tagged' /\ \A x \in tagged' : x \in tagged \/ x \in Live
        BY <1>9 DEF Live
    <2>3. Ids'
        BY <1>4, <1>9, <2>1, <2>2 DEF IdsKept, IdsTyped, ReopeningsTyped, Ids
    <2>4. Reopening'
        BY <1>4, <1>9, <2>1, <2>2 DEF IdsKept, IdsTyped, ReopeningsTyped, Reopening, Live
    <2>5. Closing' /\ RowsNamed'
        BY <1>9 DEF IdsKept, Closing, RowsNamed
    <2> QED BY <1>3, <1>5, <1>6, <1>7, <2>3, <2>4, <2>5 DEF IdsKept
<1> QED BY <1>1, <1>8, <1>9

(* The registry follows, unless the replacement was closed meanwhile.       *)
LEMMA RekeyKeeps ==
    ASSUME RegistryInv, NEW s \in Sessions, Rekey(s)
    PROVE  RegistryInv'
<1>1. PICK t \in Sessions :
          /\ locked = s /\ reopens[t] = s /\ locked' = None
          /\ rel' = [rel EXCEPT ![s] = "over"]
          /\ \/ /\ registry[t] = t
                /\ ident' = [ident EXCEPT ![t] = ident[s]]
                /\ registry' = [registry EXCEPT ![t] = None, ![ident[s]] = t]
                /\ tagged' = tagged \cup {t} /\ UNCHANGED rows
             \/ rows' = rows \ {ident[s]} /\ UNCHANGED <<ident, registry, tagged>>
          /\ UNCHANGED <<overtaken, closing, coords, launches, browsers, reopens, driver, upsets,
                         stop>>
    BY DEF Rekey
<1>2. /\ rel[s] = "rekeying" /\ \A c \in coords : c.who # s
      /\ launch[t] = "returned" /\ t \notin rows
    BY <1>1, Assembled, NoneIsNoSession DEF IdsKept, Reopening
<1> USE <1>1, <1>2, Assembled, LostForGood, NoneIsNoSession DEF launches, browsers, stop
<1>3. LaunchesTyped' /\ StopTyped' /\ IdsTyped' /\ ReopeningsTyped'
    BY DEF IdsKept, LaunchesTyped, StopTyped, IdsTyped, ReopeningsTyped
<1>4. rel'[s] = "over" /\ \A x \in Sessions : x # s => rel'[x] = rel[x]
    BY DEF IdsKept, ReopeningsTyped
<1>5. DriversKept'
    BY DriversLeft
<1>6. CASE /\ registry[t] = t
           /\ ident' = [ident EXCEPT ![t] = ident[s]]
           /\ registry' = [registry EXCEPT ![t] = None, ![ident[s]] = t]
           /\ tagged' = tagged \cup {t} /\ UNCHANGED rows
    <2>1. t \in Live /\ t # s /\ rel[t] = "none" /\ ident[t] = t
        BY <1>6 DEF IdsKept, ReopeningsTyped, Reopening, Ids, Live
    <2>2. /\ registry'[t] = None /\ registry'[s] = t
          /\ \A i \in Sessions : i # t /\ i # s => registry'[i] = registry[i]
          /\ ident'[t] = s /\ \A x \in Sessions : x # t => ident'[x] = ident[x]
        BY <1>6, <2>1 DEF IdsKept, IdsTyped
    <2>3. \A i \in Sessions : registry[i] = t => i = t
        BY <2>1 DEF IdsKept, Ids
    <2>4. Live' = Live
        BY <2>1, <2>2, <2>3 DEF Live
    <2>5. Ids'
        BY <1>4, <1>6, <2>1, <2>2, <2>3 DEF IdsKept, IdsTyped, ReopeningsTyped, Ids
    <2>6. Reopening'
        BY <1>4, <1>6, <2>1, <2>4 DEF IdsKept, IdsTyped, ReopeningsTyped, Reopening
    <2>7. Closing'
        BY SMTT(20), <1>6, <2>1, <2>2 DEF IdsKept, IdsTyped, Closing
    <2>8. RowsNamed' /\ NoLostBrowser'
        BY <1>6, <2>1, <2>2 DEF IdsKept, IdsTyped, RowsNamed, NoLostBrowser
    <2>9. DeadAreKnown'
        BY <2>4 DEF DeadAreKnown, ToldOf, driver
    <2> QED BY <1>3, <1>5, <2>5, <2>6, <2>7, <2>8, <2>9 DEF IdsKept
<1>7. CASE rows' = rows \ {ident[s]} /\ UNCHANGED <<ident, registry, tagged>>
    <2>1. Ids'
        BY <1>4, <1>7 DEF IdsKept, ReopeningsTyped, Ids
    <2>2. Reopening'
        BY <1>4, <1>7 DEF IdsKept, IdsTyped, ReopeningsTyped, Reopening, Live
    <2>3. Closing' /\ RowsNamed' /\ NoLostBrowser'
        BY <1>7 DEF IdsKept, Closing, RowsNamed, NoLostBrowser
    <2>4. DeadAreKnown'
        BY <1>7 DEF DeadAreKnown, ToldOf, Live, driver
    <2> QED BY <1>3, <1>5, <2>1, <2>2, <2>3, <2>4 DEF IdsKept
<1> QED BY <1>1, <1>6, <1>7

-----------------------------------------------------------------------------
(* The specification.                                                       *)

(* The pool starts empty.                                                   *)
LEMMA RegistryStarts ==
    ASSUME Init
    PROVE  RegistryInv
<1> USE NoneIsNoSession DEF Init
<1>1. IdsTyped /\ LaunchesTyped /\ ReopeningsTyped /\ StopTyped
    BY DEF IdsTyped, LaunchesTyped, ReopeningsTyped, StopTyped
<1>2. DriversTyped
    BY RegistryAssumption DEF DriversTyped, None, Handles
<1>3. Drivers /\ Launching
    BY RegistryAssumption DEF Drivers, Launching, Count, None, Sessions
<1>4. Ids /\ Reopening /\ Closing /\ RowsNamed /\ NoLostBrowser
    BY DEF Ids, Reopening, Closing, RowsNamed, NoLostBrowser, Live
<1>5. DeadAreKnown
    BY DEF DeadAreKnown, ToldOf, Live
<1> QED BY <1>1, <1>2, <1>3, <1>4, <1>5, TypeParts DEF RegistryInv

(* Every step keeps the invariant.                                          *)
LEMMA RegistryKeeps ==
    ASSUME RegistryInv, [Next]_vars
    PROVE  RegistryInv'
<1>1. CASE CloseStep
    BY <1>1, CloseGrantedKeeps, CloseRemovesKeeps, CloseTearsKeeps, CloseEndsKeeps DEF CloseStep
<1>2. CASE ShutdownStep
    BY <1>2, ShutdownReservesKeeps, ShutdownMovesKeep, ShutdownStopsKeeps DEF ShutdownStep
<1>3. CASE \E s \in Sessions : LaunchStep(s)
    BY <1>3, EnsureDriverKeeps, OpenedKeeps, OpenFailsKeeps, JudgeKeeps, ResetKeeps, PublishKeeps,
       RecordedKeeps, NavigatedKeeps DEF LaunchStep
<1>4. CASE \E s \in Sessions : RelaunchStep(s) \/ DeliverClose(s)
    BY <1>4, ReopenKeeps, FinalizeKeeps, RekeyKeeps, DeliverCloseKeeps DEF RelaunchStep
<1>5. CASE DriverDies \/ ShutdownBegins \/ UNCHANGED vars
    BY <1>5, DriverDiesKeeps, ShutdownMovesKeep
<1>6. CASE \E s \in Sessions :
               ClientLaunch(s) \/ RequestClose(s) \/ LaunchCancelled(s) \/ BrowserDies(s)
    BY <1>6, ClientLaunchKeeps, RequestCloseKeeps, LaunchCancelledKeeps, BrowserDiesKeeps
<1> QED BY <1>1, <1>2, <1>3, <1>4, <1>5, <1>6 DEF Next, Progress

(* The invariant holds of every behaviour of the pool, in each mode of      *)
(* relaunching and for any number of sessions and upsets (browser_pool/).   *)
THEOREM RegistryInvariant == Spec => []RegistryInv
<1>1. Init => RegistryInv
    BY RegistryStarts
<1>2. RegistryInv /\ [Next]_vars => RegistryInv'
    BY RegistryKeeps
<1> QED BY <1>1, <1>2, PTL DEF Spec

(* A browser that runs for a launch that registered can be listed and       *)
(* closed, or is being closed: no coordinator's last pop, no rekey and no   *)
(* reset of the driver takes its entry away from it (run_close_bookkeeping, *)
(* _finalize_id, on_driver_reset).                                          *)
THEOREM NoBrowserIsLost == Spec => []NoLostBrowser
<1>1. RegistryInv => NoLostBrowser
    BY DEF RegistryInv
<1> QED BY <1>1, RegistryInvariant, PTL

(* What the pool lists and what the manifest has are there.  A session      *)
(* whose browser is gone has its close event coming, a close in progress or *)
(* a driver the next launch replaces, whenever it died, unless it was dead  *)
(* and reported so before it was registered (_wire_close_evictor,           *)
(* post_context_setup).  A row names a session of the pool once nothing is  *)
(* under way, unless an eviction removed it while the launch was recording  *)
(* it: a close that was asked for waits for the launch's lease              *)
(* (_coordinate_close, _safe_manifest_record, _finalize_id).                *)
THEOREM RegistryStaysTrue == Spec => []RegistryIsTrue
<1>1. RegistryInv => RegistryIsTrue
    <2> SUFFICES ASSUME RegistryInv PROVE RegistryIsTrue
        OBVIOUS
    <2>1. NoDeadSessionListed
        BY DEF RegistryInv, DeadAreKnown, NoDeadSessionListed
    <2>2. NoStaleRow
        BY NoneIsNoSession, Assembled DEF IdsKept, RowsNamed, NoStaleRow, Unlocked, IdsTyped
    <2> QED BY <2>1, <2>2 DEF RegistryInv, RegistryIsTrue
<1> QED BY <1>1, RegistryInvariant, PTL

(* A driver is only reset under sessions it has lost: a launch that judged  *)
(* the driver dead discards that handle and no other, however many launches *)
(* fail at the same time (_reset_driver, expected).                         *)
THEOREM ResetsSpareTheLiving == Spec => ResetSparesTheLiving
<1>1. RegistryInv /\ [Next]_vars => [restarts' # restarts => \A s \in Live : browser[s] # "open"]_vars
    <2> SUFFICES ASSUME RegistryInv, Next, restarts' # restarts
                 PROVE  \A s \in Live : browser[s] # "open"
        OBVIOUS
    <2>1. PICK s \in Sessions : Reset(s)
        BY DEF Next, Progress, CloseStep, CloseGranted, CloseRemoves, CloseTears, CloseEnds,
               ShutdownStep, ShutdownReserves, ShutdownWaits, ShutdownStops, ShutdownBegins,
               LaunchStep, EnsureDriver, Opened, OpenFails, Judge, Publish, Recorded, Navigated,
               RelaunchStep, Reopen, Finalize, Rekey, DeliverClose, DriverDies, ClientLaunch,
               RequestClose, LaunchCancelled, BrowserDies, driver
    <2>2. launch[s] = "resetting" /\ ~(gen[s] # None /\ pw # gen[s])
        BY <2>1 DEF Reset, driver
    <2> QED BY <2>2, OnlyTheDeadAreReset DEF Live
<1> QED BY <1>1, RegistryInvariant, PTL DEF Spec, ResetSparesTheLiving
=============================================================================
