---------------------------- MODULE ScenarioPool ----------------------------
(***************************************************************************)
(* One scenario's life (scenarios_pool.py, browser_pool/roster.py): its    *)
(* browser participants launched together by the roster, its plugin        *)
(* participants one after the other, its fixtures and startup macros, the  *)
(* roll-back of a start that fails or is cancelled, and stops.             *)
(***************************************************************************)
EXTENDS Integers

CONSTANTS
    NBrowsers,  \* browser participants
    NPlugins,   \* plugin participants, numbered after them
    Stoppers    \* clients that stop the scenario

Browsers == 1..NBrowsers
Plugins == (NBrowsers + 1)..(NBrowsers + NPlugins)
Participants == Browsers \cup Plugins

ASSUME ScenarioAssumption == NBrowsers \in Nat \ {0} /\ NPlugins \in Nat

VARIABLES
    at,        \* where start() is
    session,   \* the session of each participant
    ids,       \* browser_ids, once the roster has returned
    launched,  \* launched_by_index
    errors,    \* whether errors holds any
    todo,      \* sessions the roll-back under way has yet to close
    result,    \* how start() ends
    hit,       \* where a cancellation of start() found it
    live,      \* the scenario is in _live
    stop,      \* where each stop() is
    left       \* sessions that stop() has yet to close

starting == <<at, ids, launched, errors, todo, result, hit>>
stopping == <<stop, left>>
scenario == <<starting, session, live, stopping>>

ScenarioTypeOK ==
    /\ at \in {"idle", "spawning", "plugins", "closing", "setup", "rolling", "ended"}
    /\ session \in [Participants -> {"none", "launching", "open", "failed", "aborted", "closed"}]
    /\ ids \subseteq Browsers /\ launched \subseteq Participants
    /\ \A p \in ids \cup launched : session[p] \in {"open", "closed"}
    /\ errors \in BOOLEAN /\ todo \subseteq Participants
    /\ result \in {"none", "live", "failed", "cancelled"}
    /\ hit \in {"none", "spawning", "plugins", "closing", "setup", "rolling"}
    /\ live \in BOOLEAN
    /\ stop \in [Stoppers -> {"idle", "macros", "closing", "done", "missing"}]
    /\ left \in [Stoppers -> SUBSET Participants]

ScenarioInit ==
    /\ at = "idle" /\ session = [p \in Participants |-> "none"]
    /\ ids = {} /\ launched = {} /\ errors = FALSE /\ todo = {}
    /\ result = "none" /\ hit = "none" /\ live = FALSE
    /\ stop = [s \in Stoppers |-> "idle"] /\ left = [s \in Stoppers |-> {}]

Here(states) == {p \in Participants : session[p] \in states}
Launching(P) == P \cap Here({"launching"}) # {}

-----------------------------------------------------------------------------
(* Launching.                                                              *)

(* spawn_roster: every browser at once.                                     *)
Start ==
    /\ at = "idle" /\ at' = "spawning"
    /\ session' = [p \in Participants |-> IF p \in Browsers THEN "launching" ELSE "none"]
    /\ UNCHANGED <<ids, launched, errors, todo, result, hit, live, stopping>>

(* A launch ends: done, with an error, or cancelled from within.            *)
BrowserLaunchEnds(p) ==
    /\ p \in Browsers /\ session[p] = "launching"
    /\ \E end \in {"open", "failed", "aborted"} : session' = [session EXCEPT ![p] = end]
    /\ UNCHANGED <<starting, live, stopping>>

(* The exception leaves start() once the sessions given are closed.         *)
RollBack(sessions, how) ==
    /\ at' = "rolling" /\ todo' = sessions /\ result' = how

(* Mutant of RosterEnds: a launch cancelled from within is raised at once.  *)
RosterRaises ==
    /\ at = "spawning" /\ ~Launching(Browsers)
    /\ CASE hit = "spawning" \/ Here({"aborted"}) # {} ->
              at' = "ended" /\ result' = "cancelled" /\ UNCHANGED <<ids, launched, errors, todo>>
         [] OTHER ->
              /\ at' = "plugins" /\ ids' = Browsers \cap Here({"open", "closed"})
              /\ errors' = (Here({"failed"}) # {})
              /\ launched' = IF errors' THEN {} ELSE ids'
              /\ UNCHANGED <<todo, result>>
    /\ UNCHANGED <<session, hit, live, stopping>>

(* The gather of the launches is over.  Cancelled itself, it raises at its  *)
(* await, before the results are looked at; a launch that was cancelled     *)
(* from within has its siblings closed first.                               *)
RosterEnds ==
    /\ at = "spawning" /\ ~Launching(Browsers)
    /\ CASE hit = "spawning" ->
              at' = "ended" /\ result' = "cancelled" /\ UNCHANGED <<ids, launched, errors, todo>>
         [] hit # "spawning" /\ Here({"aborted"}) # {} ->
              RollBack(Here({"open"}), "cancelled") /\ UNCHANGED <<ids, launched, errors>>
         [] OTHER ->
              /\ at' = "plugins" /\ ids' = Browsers \cap Here({"open", "closed"})
              /\ errors' = (Here({"failed"}) # {})
              /\ launched' = IF errors' THEN {} ELSE ids'
              /\ UNCHANGED <<todo, result>>
    /\ UNCHANGED <<session, hit, live, stopping>>

(* _launch_plugin_participants: in order, none after an error.              *)
PluginBegins(p) ==
    /\ at = "plugins" /\ ~errors /\ p \in Plugins /\ session[p] = "none"
    /\ \A q \in Plugins : q < p => session[q] # "none"
    /\ ~Launching(Plugins)
    /\ session' = [session EXCEPT ![p] = "launching"]
    /\ UNCHANGED <<starting, live, stopping>>

PluginLaunchEnds(p) ==
    /\ p \in Plugins /\ session[p] = "launching"
    /\ \/ /\ session' = [session EXCEPT ![p] = "open"]
          /\ launched' = launched \cup {p} /\ UNCHANGED errors
       \/ /\ session' = [session EXCEPT ![p] = "failed"]
          /\ errors' = TRUE /\ UNCHANGED launched
    /\ UNCHANGED <<at, ids, todo, result, hit, live, stopping>>

(* Mutant of Launched: the plugins left unlaunched are waited for.          *)
LaunchedAll ==
    /\ at = "plugins" /\ Plugins \cap Here({"none", "launching"}) = {}
    /\ IF errors
       THEN /\ at' = "closing" /\ todo' = ids \cup launched /\ result' = "failed"
            /\ UNCHANGED live
       ELSE at' = "setup" /\ live' = TRUE /\ UNCHANGED <<todo, result>>
    /\ UNCHANGED <<session, ids, launched, errors, hit, stopping>>

(* The launches have ended: what did launch is closed again if any failed   *)
(* (_close_launched), else the scenario is registered.                      *)
Launched ==
    /\ at = "plugins" /\ ~Launching(Plugins)
    /\ errors \/ Plugins \cap Here({"none"}) = {}
    /\ IF errors
       THEN /\ at' = "closing" /\ todo' = ids \cup launched /\ result' = "failed"
            /\ UNCHANGED live
       ELSE at' = "setup" /\ live' = TRUE /\ UNCHANGED <<todo, result>>
    /\ UNCHANGED <<session, ids, launched, errors, hit, stopping>>

-----------------------------------------------------------------------------
(* Setting up, and ending.                                                 *)

(* _apply_fixtures and _run_startup_macros.                                 *)
SetUp ==
    /\ at = "setup" /\ at' = "ended" /\ result' = "live"
    /\ UNCHANGED <<session, ids, launched, errors, todo, hit, live, stopping>>

SetUpFails ==
    /\ at = "setup" /\ live' = FALSE
    /\ RollBack(ids \cup launched, "failed")
    /\ UNCHANGED <<session, ids, launched, errors, hit, stopping>>

CloseParticipant(p) == session' = [session EXCEPT ![p] = "closed"]

(* A close that fails is logged, and the next one follows.                  *)
RollBackCloses(p) ==
    /\ at \in {"closing", "rolling"} /\ p \in todo
    /\ CloseParticipant(p) /\ todo' = todo \ {p}
    /\ UNCHANGED <<at, ids, launched, errors, result, hit, live, stopping>>

RolledBack ==
    /\ at \in {"closing", "rolling"} /\ todo = {} /\ at' = "ended"
    /\ UNCHANGED <<session, ids, launched, errors, todo, result, hit, live, stopping>>

(* start() is cancelled at an await.  A launch under way takes itself back; *)
(* the close under way goes on, those behind it are not reached; the        *)
(* shielded roll-back runs to its end.  Bound: once.                        *)
Cancel ==
    /\ hit = "none" /\ at \in {"spawning", "plugins", "closing", "setup", "rolling"}
    /\ hit' = at
    /\ session' \in
          IF at = "closing" /\ todo # {}
          THEN {[session EXCEPT ![p] = "closed"] : p \in todo}
          ELSE {[p \in Participants |-> IF session[p] = "launching" THEN "aborted" ELSE session[p]]}
    /\ CASE at = "spawning" -> UNCHANGED <<at, todo, result, live>>
         [] at \in {"plugins", "setup"} ->
              RollBack(ids \cup launched, "cancelled") /\ live' = FALSE
         [] at = "closing" ->
              at' = "ended" /\ result' = "cancelled" /\ UNCHANGED <<todo, live>>
         [] at = "rolling" -> UNCHANGED <<at, todo, result, live>>
    /\ UNCHANGED <<ids, launched, errors, stopping>>

-----------------------------------------------------------------------------
(* Stopping, shielded as a whole.                                          *)

(* The scenario leaves _live first, so of two stops one finds it.           *)
Stop(s) ==
    /\ stop[s] = "idle"
    /\ stop' = [stop EXCEPT ![s] = IF live THEN "macros" ELSE "missing"]
    /\ left' = [left EXCEPT ![s] = IF live THEN Participants ELSE {}]
    /\ live' = FALSE
    /\ UNCHANGED <<session, starting>>

TeardownMacros(s) ==
    /\ stop[s] = "macros" /\ stop' = [stop EXCEPT ![s] = "closing"]
    /\ UNCHANGED <<session, starting, live, left>>

StopCloses(s, p) ==
    /\ stop[s] = "closing" /\ p \in left[s]
    /\ CloseParticipant(p) /\ left' = [left EXCEPT ![s] = @ \ {p}]
    /\ UNCHANGED <<starting, live, stop>>

Stopped(s) ==
    /\ stop[s] = "closing" /\ left[s] = {}
    /\ stop' = [stop EXCEPT ![s] = "done"]
    /\ UNCHANGED <<session, starting, live, left>>

(* A client, or the user, closes a participant.                             *)
ParticipantCloses(p) ==
    /\ session[p] = "open"
    /\ CloseParticipant(p)
    /\ UNCHANGED <<starting, live, stopping>>

-----------------------------------------------------------------------------

StartStep ==
    \/ RosterEnds \/ Launched \/ SetUp \/ RolledBack
    \/ \E p \in Participants :
           BrowserLaunchEnds(p) \/ PluginBegins(p) \/ PluginLaunchEnds(p) \/ RollBackCloses(p)

StopStep(s) ==
    TeardownMacros(s) \/ Stopped(s) \/ \E p \in Participants : StopCloses(s, p)

ScenarioNext ==
    \/ Start \/ StartStep \/ SetUpFails \/ Cancel
    \/ \E s \in Stoppers : Stop(s) \/ StopStep(s)
    \/ \E p \in Participants : ParticipantCloses(p)

ScenarioSpec == ScenarioInit /\ [][ScenarioNext]_scenario

(* The event loop runs start() and each stop(); launches, closes and macros *)
(* have their own deadlines.                                                *)
FairScenarioSpec == ScenarioSpec /\ WF_scenario(StartStep) /\ \A s \in Stoppers : WF_scenario(StopStep(s))

-----------------------------------------------------------------------------

Settled == at \in {"idle", "ended"} /\ \A s \in Stoppers : stop[s] \notin {"macros", "closing"}

(* A scenario that nobody can name any more has left no session behind,     *)
(* however its start failed and whoever stopped it meanwhile (start,        *)
(* _rollback_start, stop), except the cancellations of CancelLeavesNothing. *)
NoOrphans ==
    Settled /\ ~live /\ hit \notin {"spawning", "closing"} => Here({"launching", "open"}) = {}

(* A scenario that can be named is whole: every participant did launch.     *)
RegisteredWhole == live => Here({"none", "launching", "failed", "aborted"}) = {}

(* A scenario is there with all of its participants or without any.         *)
AllOrNothing == ScenarioTypeOK /\ NoOrphans /\ RegisteredWhole

(* Every start and every stop ends.                                         *)
StartsAndStopsEnd ==
    /\ at # "idle" ~> at = "ended"
    /\ \A s \in Stoppers : stop[s] # "idle" ~> stop[s] \in {"done", "missing"}

(* A cancelled start leaves no session behind, wherever it is cancelled     *)
(* (_launch_participants, spawn_roster).                                    *)
CancelLeavesNothing == at = "ended" /\ result = "cancelled" => Here({"launching", "open"}) = {}
=============================================================================
