--------------------- MODULE ScenarioAndManifestProofs ----------------------
(* What holds of a scenario with any participants and any number of stops,  *)
(* and of the manifest for any number of sessions and daemons.              *)
EXTENDS ScenarioPool, SessionManifest, TLAPS

-----------------------------------------------------------------------------
(* The scenario pool.                                                       *)

Closers == {s \in Stoppers : stop[s] \in {"macros", "closing", "done"}}
Whole == \A p \in Participants : session[p] \in {"open", "closed"}

-----------------------------------------------------------------------------
(* The inductive invariant.                                                 *)

(* What has happened by the time start() is where it is.                    *)
StartShape ==
    /\ at = "idle" => \A p \in Participants : session[p] = "none"
    /\ at \in {"idle", "spawning"} => ids = {} /\ launched = {} /\ ~errors
    /\ at = "spawning" => /\ \A p \in Browsers : session[p] # "none"
                          /\ \A p \in Plugins : session[p] = "none"
    /\ at = "plugins" => /\ \A p \in Browsers : session[p] \notin {"none", "launching"}
                         /\ Here({"aborted"}) = {}
                         /\ ~errors => Here({"failed"}) = {}
                         /\ Here({"open", "closed"}) \subseteq ids \cup launched
    /\ at \notin {"spawning", "plugins"} => Here({"launching"}) = {}
    /\ at = "setup" => Whole /\ ids \cup launched = Participants

(* A roll-back has every open session still before it.                      *)
RollBackCovers == at \in {"closing", "rolling"} => Here({"open"}) \subseteq todo

(* Whoever took the scenario out of _live has every open session before it. *)
StopShape ==
    /\ \A s \in Stoppers : stop[s] = "done" => left[s] = {}
    /\ Closers # {} => at \in {"setup", "rolling", "ended"}
    /\ live => at \in {"setup", "ended"} /\ Whole
    /\ at \in {"setup", "ended"} /\ ~live /\ hit \notin {"spawning", "closing"}
         => \/ Here({"open"}) = {}
            \/ \E s \in Closers : Here({"open"}) \subseteq left[s]

ScenarioInv == ScenarioTypeOK /\ StartShape /\ RollBackCovers /\ StopShape

-----------------------------------------------------------------------------
(* Nobody is launched at the start.                                         *)
LEMMA InitScenario == ScenarioInit => ScenarioInv
BY DEF ScenarioInit, ScenarioInv, ScenarioTypeOK, StartShape, RollBackCovers, StopShape, Here, Whole, Closers

(* A session that is closed was none that start() has still to launch.      *)
LEMMA ClosingKeeps ==
    ASSUME ScenarioInv, NEW p \in Participants, CloseParticipant(p),
           \/ session[p] = "open"
           \/ at \in {"closing", "rolling", "setup", "ended"}
    PROVE  /\ session' \in [Participants -> {"none", "launching", "open", "failed", "aborted", "closed"}]
           /\ \A q \in ids \cup launched : session'[q] \in {"open", "closed"}
           /\ Here({"open"})' = Here({"open"}) \ {p}
           /\ Whole => Whole'
           /\ \A st \in {"launching", "failed", "aborted"} : Here({st})' \subseteq Here({st})
BY DEF ScenarioInv, ScenarioTypeOK, CloseParticipant, Here, Whole

(* A participant's session closes by itself.                                *)
LEMMA ParticipantClosesKeeps ==
    ASSUME ScenarioInv, NEW p \in Participants, ParticipantCloses(p)
    PROVE  ScenarioInv'
<1> USE DEF ParticipantCloses, starting, stopping
<1>1. /\ session' \in [Participants -> {"none", "launching", "open", "failed", "aborted", "closed"}]
      /\ \A q \in ids \cup launched : session'[q] \in {"open", "closed"}
      /\ Here({"open"})' = Here({"open"}) \ {p}
      /\ Whole => Whole'
      /\ \A st \in {"launching", "failed", "aborted"} : Here({st})' \subseteq Here({st})
    BY ClosingKeeps
<1>2. ScenarioTypeOK'
    BY <1>1 DEF ScenarioInv, ScenarioTypeOK
<1>3. Here({"open", "closed"})' = Here({"open", "closed"})
    BY DEF ScenarioInv, ScenarioTypeOK, CloseParticipant, Here
<1>4. StartShape'
    BY <1>1, <1>3 DEF ScenarioInv, ScenarioTypeOK, StartShape, CloseParticipant
<1>5. RollBackCovers'
    BY <1>1 DEF ScenarioInv, RollBackCovers
<1>6. StopShape'
    BY <1>1 DEF ScenarioInv, StopShape, Closers
<1> QED BY <1>2, <1>4, <1>5, <1>6 DEF ScenarioInv

(* The rollback closes a participant.                                       *)
LEMMA RollBackClosesKeeps ==
    ASSUME ScenarioInv, NEW p \in Participants, RollBackCloses(p)
    PROVE  ScenarioInv'
<1> USE DEF RollBackCloses, stopping
<1>1. /\ session' \in [Participants -> {"none", "launching", "open", "failed", "aborted", "closed"}]
      /\ \A q \in ids \cup launched : session'[q] \in {"open", "closed"}
      /\ Here({"open"})' = Here({"open"}) \ {p}
      /\ \A st \in {"launching", "failed", "aborted"} : Here({st})' \subseteq Here({st})
    BY ClosingKeeps
<1>2. ScenarioTypeOK'
    BY <1>1 DEF ScenarioInv, ScenarioTypeOK
<1>3. StartShape'
    BY <1>1 DEF ScenarioInv, StartShape
<1>4. RollBackCovers'
    BY <1>1 DEF ScenarioInv, RollBackCovers
<1>5. StopShape'
    BY <1>1 DEF ScenarioInv, StopShape, Closers
<1> QED BY <1>2, <1>3, <1>4, <1>5 DEF ScenarioInv

(* Stops.                                                                   *)
LEMMA StopKeeps ==
    ASSUME ScenarioInv, NEW s \in Stoppers, Stop(s) \/ StopStep(s)
    PROVE  ScenarioInv'
<1> USE DEF starting
<1>1. CASE Stop(s)
    <2>1. ScenarioTypeOK' /\ StartShape' /\ RollBackCovers'
        <3>1. UNCHANGED <<session, at, ids, launched, errors, todo, result, hit>>
            BY <1>1 DEF Stop
        <3>2. /\ live' \in BOOLEAN
              /\ stop' \in [Stoppers -> {"idle", "macros", "closing", "done", "missing"}]
              /\ left' \in [Stoppers -> SUBSET Participants]
            BY <1>1 DEF Stop, ScenarioInv, ScenarioTypeOK
        <3>3. ScenarioTypeOK'
            BY <3>1, <3>2 DEF ScenarioInv, ScenarioTypeOK
        <3>4. StartShape' /\ RollBackCovers'
            BY <3>1 DEF ScenarioInv, StartShape, RollBackCovers, Here, Whole
        <3> QED BY <3>3, <3>4
    <2>2. CASE live
        <3>1. s \in Closers' /\ left'[s] = Participants
            BY <1>1, <2>2 DEF Stop, ScenarioInv, ScenarioTypeOK, Closers
        <3>2. Here({"open"})' \subseteq left'[s]
            BY <3>1 DEF Here
        <3>3. \A r \in Stoppers : stop'[r] = "done" => left'[r] = {}
            BY <1>1, <2>2 DEF Stop, ScenarioInv, ScenarioTypeOK, StopShape
        <3>4. QED BY <1>1, <2>1, <2>2, <3>1, <3>2, <3>3 DEF Stop, ScenarioInv, StopShape
    <2>3. CASE ~live
        <3>1. Closers' = Closers /\ \A r \in Closers : left'[r] = left[r]
            BY <1>1, <2>3 DEF Stop, ScenarioInv, ScenarioTypeOK, Closers
        <3>2. \A r \in Stoppers : stop'[r] = "done" => left'[r] = {}
            BY <1>1, <2>3 DEF Stop, ScenarioInv, ScenarioTypeOK, StopShape
        <3>3. QED BY <1>1, <2>1, <2>3, <3>1, <3>2 DEF Stop, ScenarioInv, StopShape, Here
    <2>4. QED BY <2>2, <2>3
<1>2. CASE TeardownMacros(s) \/ Stopped(s)
    <2>1. Closers' = Closers
        BY <1>2 DEF TeardownMacros, Stopped, ScenarioInv, ScenarioTypeOK, Closers
    <2>2. \A r \in Stoppers : stop'[r] = "done" => left'[r] = {}
        BY <1>2 DEF TeardownMacros, Stopped, ScenarioInv, ScenarioTypeOK, StopShape
    <2>3. ScenarioTypeOK' /\ StartShape' /\ RollBackCovers'
        BY <1>2 DEF TeardownMacros, Stopped, ScenarioInv, ScenarioTypeOK, StartShape, RollBackCovers,
                    Here, Whole
    <2>4. StopShape'
        BY <1>2, <2>1, <2>2 DEF TeardownMacros, Stopped, ScenarioInv, StopShape, Here, Whole
    <2>5. QED BY <2>3, <2>4 DEF ScenarioInv
<1>3. ASSUME NEW p \in Participants, StopCloses(s, p) PROVE ScenarioInv'
    <2> USE <1>3 DEF StopCloses
    <2>0. s \in Closers /\ at \in {"setup", "rolling", "ended"}
        BY DEF ScenarioInv, StopShape, Closers
    <2>1. /\ session' \in [Participants -> {"none", "launching", "open", "failed", "aborted", "closed"}]
          /\ \A q \in ids \cup launched : session'[q] \in {"open", "closed"}
          /\ Here({"open"})' = Here({"open"}) \ {p}
          /\ Whole => Whole'
          /\ \A st \in {"launching", "failed", "aborted"} : Here({st})' \subseteq Here({st})
        BY <2>0, ClosingKeeps
    <2>2. ScenarioTypeOK'
        BY <2>1 DEF ScenarioInv, ScenarioTypeOK
    <2>3. StartShape'
        BY <2>0, <2>1 DEF ScenarioInv, StartShape
    <2>4. RollBackCovers'
        BY <2>1 DEF ScenarioInv, RollBackCovers
    <2>5. /\ Closers' = Closers
          /\ \A r \in Stoppers : left'[r] = IF r = s THEN left[s] \ {p} ELSE left[r]
        BY DEF Closers, ScenarioInv, ScenarioTypeOK
    <2>6. StopShape'
        BY <2>1, <2>5 DEF ScenarioInv, StopShape
    <2>7. QED BY <2>2, <2>3, <2>4, <2>6 DEF ScenarioInv
<1>4. QED BY <1>1, <1>2, <1>3 DEF StopStep

(* The launches, one by one.                                                *)
LEMMA LaunchKeeps ==
    ASSUME ScenarioInv, NEW p \in Participants,
           Start \/ BrowserLaunchEnds(p) \/ PluginBegins(p) \/ PluginLaunchEnds(p)
    PROVE  ScenarioInv'
<1>0. Browsers \subseteq Participants /\ Plugins \subseteq Participants /\ Browsers \cap Plugins = {}
    BY ScenarioAssumption DEF Browsers, Plugins, Participants
<1> USE DEF starting, stopping
<1>1. CASE Start
    <2>1. ScenarioTypeOK'
        BY <1>0, <1>1 DEF Start, ScenarioInv, ScenarioTypeOK, StartShape
    <2>2. StartShape' /\ RollBackCovers'
        BY <1>0, <1>1 DEF Start, ScenarioInv, ScenarioTypeOK, StartShape, RollBackCovers, Here, Whole
    <2>3. StopShape'
        BY <1>1 DEF Start, ScenarioInv, ScenarioTypeOK, StopShape, Closers
    <2>4. QED BY <2>1, <2>2, <2>3 DEF ScenarioInv
<1>2. CASE BrowserLaunchEnds(p)
    <2>1. at = "spawning" /\ Closers = {} /\ ~live
        BY <1>0, <1>2 DEF BrowserLaunchEnds, ScenarioInv, ScenarioTypeOK, StartShape, StopShape, Here
    <2>2. PICK end \in {"open", "failed", "aborted"} : session' = [session EXCEPT ![p] = end]
        BY <1>2 DEF BrowserLaunchEnds
    <2>3. ScenarioTypeOK'
        BY <1>2, <2>1, <2>2 DEF BrowserLaunchEnds, ScenarioInv, ScenarioTypeOK, StartShape
    <2>4. StartShape' /\ RollBackCovers'
        BY <1>0, <1>2, <2>1, <2>2 DEF BrowserLaunchEnds, ScenarioInv, ScenarioTypeOK, StartShape, RollBackCovers
    <2>5. StopShape'
        BY <1>2, <2>1 DEF BrowserLaunchEnds, ScenarioInv, StopShape, Closers
    <2>6. QED BY <2>3, <2>4, <2>5 DEF ScenarioInv
<1>3. CASE PluginBegins(p)
    <2>1. p \notin ids \cup launched /\ Closers = {} /\ ~live
        BY <1>3 DEF PluginBegins, ScenarioInv, ScenarioTypeOK, StopShape
    <2>2. ScenarioTypeOK'
        BY <1>3, <2>1 DEF PluginBegins, ScenarioInv, ScenarioTypeOK
    <2>3. Here({"aborted"})' = Here({"aborted"}) /\ Here({"failed"})' = Here({"failed"})
          /\ Here({"open", "closed"})' = Here({"open", "closed"})
        BY <1>3 DEF PluginBegins, ScenarioInv, ScenarioTypeOK, Here
    <2>4. StartShape' /\ RollBackCovers'
        BY <1>0, <1>3, <2>3 DEF PluginBegins, ScenarioInv, ScenarioTypeOK, StartShape, RollBackCovers
    <2>5. StopShape'
        BY <1>3, <2>1 DEF PluginBegins, ScenarioInv, StopShape, Closers
    <2>6. QED BY <2>2, <2>4, <2>5 DEF ScenarioInv
<1>4. CASE PluginLaunchEnds(p)
    <2>1. at = "plugins" /\ Closers = {} /\ ~live
        BY <1>0, <1>4 DEF PluginLaunchEnds, ScenarioInv, ScenarioTypeOK, StartShape, StopShape, Here
    <2>2. p \notin ids \cup launched
        BY <1>4 DEF PluginLaunchEnds, ScenarioInv, ScenarioTypeOK
    <2>3. ScenarioTypeOK'
        <3>1. CASE session' = [session EXCEPT ![p] = "open"] /\ launched' = launched \cup {p} /\ UNCHANGED errors
            BY <1>4, <2>2, <3>1 DEF PluginLaunchEnds, ScenarioInv, ScenarioTypeOK
        <3>2. CASE session' = [session EXCEPT ![p] = "failed"] /\ errors' = TRUE /\ UNCHANGED launched
            BY <1>4, <2>2, <3>2 DEF PluginLaunchEnds, ScenarioInv, ScenarioTypeOK
        <3>3. QED BY <1>4, <3>1, <3>2 DEF PluginLaunchEnds
    <2>4. StartShape' /\ RollBackCovers'
        BY <1>0, <1>4, <2>1 DEF PluginLaunchEnds, ScenarioInv, ScenarioTypeOK, StartShape, RollBackCovers, Here
    <2>5. StopShape'
        BY <1>4, <2>1 DEF PluginLaunchEnds, ScenarioInv, StopShape, Closers
    <2>6. QED BY <2>3, <2>4, <2>5 DEF ScenarioInv
<1>5. QED BY <1>1, <1>2, <1>3, <1>4

(* The roster returns, or raises.                                           *)
LEMMA RosterEndsKeeps ==
    ASSUME ScenarioInv, RosterEnds
    PROVE  ScenarioInv'
<1>0. Browsers \subseteq Participants /\ Plugins \subseteq Participants /\ Browsers \cap Plugins = {}
      /\ Participants = Browsers \cup Plugins
    BY ScenarioAssumption DEF Browsers, Plugins, Participants
<1>1. /\ at = "spawning" /\ ids = {} /\ launched = {} /\ ~errors
      /\ UNCHANGED <<session, hit, live, stopping>>
    BY Zenon DEF RosterEnds, ScenarioInv, StartShape
<1>1a. Closers = {} /\ live = FALSE
    BY <1>1 DEF ScenarioInv, ScenarioTypeOK, StopShape
<1>2. \/ /\ hit = "spawning" /\ at' = "ended" /\ result' = "cancelled"
         /\ UNCHANGED <<ids, launched, errors, todo>>
      \/ /\ hit # "spawning" /\ Here({"aborted"}) # {}
         /\ RollBack(Here({"open"}), "cancelled") /\ UNCHANGED <<ids, launched, errors>>
      \/ /\ hit # "spawning" /\ Here({"aborted"}) = {}
         /\ at' = "plugins" /\ ids' = Browsers \cap Here({"open", "closed"})
         /\ errors' = (Here({"failed"}) # {})
         /\ launched' = IF errors' THEN {} ELSE ids'
         /\ UNCHANGED <<todo, result>>
    BY Zenon DEF RosterEnds
<1>3. \A p \in Browsers : session[p] \notin {"none", "launching"}
    BY <1>0, <1>1 DEF RosterEnds, Launching, Here, ScenarioInv, StartShape
<1>4. \A p \in Plugins : session[p] = "none"
    BY <1>1 DEF ScenarioInv, StartShape
<1>5. Here({"launching"}) = {}
    BY <1>0, <1>3, <1>4 DEF Here
<1>6. /\ session' = session /\ hit' = hit /\ live' = FALSE /\ stop' = stop /\ left' = left
      /\ Closers' = {} /\ \A st : Here(st)' = Here(st)
    BY <1>1, <1>1a DEF stopping, Closers, Here
<1>7. CASE hit = "spawning" /\ at' = "ended" /\ result' = "cancelled" /\ UNCHANGED <<ids, launched, errors, todo>>
    <2>1. ScenarioTypeOK'
        BY <1>6, <1>7 DEF ScenarioInv, ScenarioTypeOK
    <2>2. StartShape' /\ RollBackCovers'
        BY <1>5, <1>6, <1>7 DEF StartShape, RollBackCovers
    <2>3. StopShape'
        BY <1>6, <1>7 DEF ScenarioInv, StopShape
    <2>4. QED BY <2>1, <2>2, <2>3 DEF ScenarioInv
<1>8. CASE /\ RollBack(Here({"open"}), "cancelled") /\ UNCHANGED <<ids, launched, errors>>
    <2>1. ScenarioTypeOK'
        BY <1>6, <1>8 DEF ScenarioInv, ScenarioTypeOK, RollBack, Here
    <2>2. StartShape' /\ RollBackCovers'
        BY <1>5, <1>6, <1>8 DEF StartShape, RollBackCovers, RollBack
    <2>3. StopShape'
        BY <1>6, <1>8 DEF ScenarioInv, StopShape, RollBack
    <2>4. QED BY <2>1, <2>2, <2>3 DEF ScenarioInv
<1>9. CASE /\ hit # "spawning" /\ Here({"aborted"}) = {}
           /\ at' = "plugins" /\ ids' = Browsers \cap Here({"open", "closed"})
           /\ errors' = (Here({"failed"}) # {})
           /\ launched' = IF errors' THEN {} ELSE ids'
           /\ UNCHANGED <<todo, result>>
    <2>1. /\ ids' \subseteq Browsers /\ launched' \subseteq ids'
          /\ \A q \in ids' \cup launched' : session[q] \in {"open", "closed"}
        BY <1>9 DEF Here
    <2>2. errors' \in BOOLEAN
        BY <1>9
    <2>3. ScenarioTypeOK'
        BY <1>0, <1>6, <1>9, <2>1, <2>2 DEF ScenarioInv, ScenarioTypeOK
    <2>4. Here({"open", "closed"}) \subseteq ids'
        BY <1>0, <1>4, <1>9 DEF Here
    <2>5. StartShape' /\ RollBackCovers'
        BY <1>3, <1>6, <1>9, <2>4 DEF StartShape, RollBackCovers, Here
    <2>6. StopShape'
        BY <1>6, <1>9 DEF ScenarioInv, StopShape
    <2>7. QED BY <2>3, <2>5, <2>6 DEF ScenarioInv
<1>10. QED BY <1>2, <1>7, <1>8, <1>9

(* The launches are over: all of them, or none.                             *)
LEMMA LaunchedKeeps ==
    ASSUME ScenarioInv, Launched
    PROVE  ScenarioInv'
<1>0. /\ Browsers \subseteq Participants /\ Plugins \subseteq Participants /\ Participants = Browsers \cup Plugins
    BY DEF Participants
<1>1. /\ at = "plugins" /\ Closers = {} /\ ~live /\ Here({"launching"}) = {}
      /\ session' = session /\ ids' = ids /\ launched' = launched /\ errors' = errors /\ hit' = hit
      /\ stop' = stop /\ left' = left
      /\ Closers' = {} /\ \A st : Here(st)' = Here(st)
    BY <1>0 DEF Launched, ScenarioInv, StartShape, StopShape, Launching, Here, Closers, stopping
<1>2. CASE errors
    <2>1. ScenarioTypeOK'
        BY <1>0, <1>1, <1>2 DEF Launched, ScenarioInv, ScenarioTypeOK
    <2>2. at' = "closing" /\ todo' = ids \cup launched /\ live' = live
        BY <1>2 DEF Launched
    <2>3. Here({"open"}) \subseteq todo'
        BY <1>1, <2>2 DEF ScenarioInv, StartShape, Here
    <2>4. StartShape' /\ RollBackCovers' /\ StopShape'
        BY <1>1, <2>2, <2>3 DEF ScenarioInv, StartShape, RollBackCovers, StopShape
    <2>5. QED BY <2>1, <2>4 DEF ScenarioInv
<1>3. CASE ~errors
    <2>1. at' = "setup" /\ live' = TRUE /\ todo' = todo /\ result' = result
        BY <1>3 DEF Launched
    <2>2. ScenarioTypeOK'
        BY <1>1, <2>1 DEF ScenarioInv, ScenarioTypeOK
    <2>3. Plugins \cap Here({"none"}) = {}
        BY <1>3 DEF Launched
    <2>4. Whole
        BY <1>0, <1>1, <1>3, <2>3 DEF ScenarioInv, ScenarioTypeOK, StartShape, Whole, Here
    <2>5. ids \cup launched = Participants
        BY <1>0, <1>1, <2>4 DEF ScenarioInv, ScenarioTypeOK, StartShape, Whole, Here
    <2>6. StartShape' /\ RollBackCovers' /\ StopShape'
        BY <1>1, <2>1, <2>4, <2>5 DEF ScenarioInv, StartShape, RollBackCovers, StopShape, Whole
    <2>7. QED BY <2>2, <2>6 DEF ScenarioInv
<1>4. QED BY <1>2, <1>3 DEF ScenarioInv, ScenarioTypeOK

(* Setting up, and the end of start().                                      *)
LEMMA SetUpKeeps ==
    ASSUME ScenarioInv, SetUp \/ SetUpFails \/ RolledBack
    PROVE  ScenarioInv'
<1>0. /\ session' = session /\ ids' = ids /\ launched' = launched /\ errors' = errors /\ hit' = hit
      /\ stop' = stop /\ left' = left /\ Closers' = Closers /\ (Whole' <=> Whole)
      /\ \A st : Here(st)' = Here(st)
    BY DEF SetUp, SetUpFails, RolledBack, RollBack, stopping, Closers, Here, Whole
<1>1. ScenarioTypeOK'
    BY <1>0 DEF SetUp, SetUpFails, RolledBack, RollBack, ScenarioInv, ScenarioTypeOK, Participants
<1>2. StartShape'
    BY <1>0 DEF SetUp, SetUpFails, RolledBack, RollBack, ScenarioInv, StartShape
<1>3. RollBackCovers'
    BY <1>0 DEF SetUp, SetUpFails, RolledBack, RollBack, ScenarioInv, StartShape, RollBackCovers, Here
<1>4. StopShape'
    BY <1>0 DEF SetUp, SetUpFails, RolledBack, RollBack, ScenarioInv, RollBackCovers, StopShape
<1> QED BY <1>1, <1>2, <1>3, <1>4 DEF ScenarioInv

(* start() is cancelled.                                                    *)
LEMMA CancelKeeps ==
    ASSUME ScenarioInv, Cancel
    PROVE  ScenarioInv'
<1>0. Browsers \subseteq Participants /\ Plugins \subseteq Participants /\ Participants = Browsers \cup Plugins
    BY DEF Participants
<1>1. /\ hit = "none" /\ hit' = at /\ at \in {"spawning", "plugins", "closing", "setup", "rolling"}
      /\ ids' = ids /\ launched' = launched /\ errors' = errors /\ stop' = stop /\ left' = left
      /\ Closers' = Closers
    BY Zenon DEF Cancel, stopping, Closers
<1>2. /\ at \in {"spawning", "rolling"} => UNCHANGED <<at, todo, result, live>>
      /\ at \in {"plugins", "setup"} => RollBack(ids \cup launched, "cancelled") /\ live' = FALSE
      /\ at = "closing" => at' = "ended" /\ result' = "cancelled" /\ UNCHANGED <<todo, live>>
    BY Zenon DEF Cancel
<1>3. /\ session' \in [Participants -> {"none", "launching", "open", "failed", "aborted", "closed"}]
      /\ \A p \in ids \cup launched : session'[p] \in {"open", "closed"}
      /\ Here({"open"})' \subseteq Here({"open"})
      /\ Here({"launching"})' = {}
      /\ Whole => Whole'
      /\ at # "closing" => \A p \in Participants : session'[p] = "none" <=> session[p] = "none"
    <2>1. CASE at = "closing" /\ todo # {}
        <3>1. PICK p \in todo : session' = [session EXCEPT ![p] = "closed"]
            BY <2>1 DEF Cancel
        <3>2. p \in Participants /\ CloseParticipant(p)
            BY <3>1 DEF ScenarioInv, ScenarioTypeOK, CloseParticipant
        <3>3. Here({"launching"}) = {}
            BY <2>1 DEF ScenarioInv, StartShape
        <3>4. QED BY <2>1, <3>2, <3>3, ClosingKeeps
    <2>2. CASE ~(at = "closing" /\ todo # {})
        <3>1. session' = [p \in Participants |-> IF session[p] = "launching" THEN "aborted" ELSE session[p]]
            BY <2>2 DEF Cancel
        <3>2. session' \in [Participants -> {"none", "launching", "open", "failed", "aborted", "closed"}]
            BY <3>1 DEF ScenarioInv, ScenarioTypeOK
        <3>3. \A p \in Participants : /\ session[p] # "launching" => session'[p] = session[p]
                                      /\ session[p] = "launching" => session'[p] = "aborted"
            BY <3>1
        <3>4. QED BY <3>2, <3>3 DEF Here, ScenarioInv, ScenarioTypeOK, Whole, Participants
    <2>3. QED BY <2>1, <2>2
<1>4. ScenarioTypeOK'
    BY <1>0, <1>1, <1>2, <1>3 DEF RollBack, ScenarioInv, ScenarioTypeOK
<1>5. StartShape'
    BY <1>0, <1>1, <1>2, <1>3 DEF RollBack, ScenarioInv, StartShape, Here
<1>6. RollBackCovers'
    BY <1>1, <1>2, <1>3 DEF RollBack, ScenarioInv, StartShape, RollBackCovers, Here
<1>7. StopShape'
    BY <1>1, <1>2, <1>3 DEF RollBack, ScenarioInv, StopShape
<1> QED BY <1>4, <1>5, <1>6, <1>7 DEF ScenarioInv

-----------------------------------------------------------------------------
(* Whatever is cancelled, stopped or closed, and wherever the start is      *)
(* (start, _rollback_start, stop), the invariant above holds.               *)
THEOREM ScenarioInvariant == ScenarioSpec => []ScenarioInv
<1>1. ScenarioInv /\ [ScenarioNext]_scenario => ScenarioInv'
    <2> SUFFICES ASSUME ScenarioInv, [ScenarioNext]_scenario PROVE ScenarioInv'
        OBVIOUS
    <2>1. CASE UNCHANGED scenario
        BY <2>1 DEF scenario, starting, stopping, ScenarioInv, ScenarioTypeOK, StartShape, RollBackCovers,
                    StopShape, Here, Whole, Closers
    <2>2. CASE Start \/ \E p \in Participants : BrowserLaunchEnds(p) \/ PluginBegins(p) \/ PluginLaunchEnds(p)
        <3>1. 1 \in Participants
            BY ScenarioAssumption DEF Participants, Browsers
        <3>2. QED BY <2>2, <3>1, LaunchKeeps
    <2>3. QED
        BY <2>1, <2>2, RosterEndsKeeps, LaunchedKeeps, SetUpKeeps, RollBackClosesKeeps, CancelKeeps,
           StopKeeps, ParticipantClosesKeeps DEF ScenarioNext, StartStep
<1>2. QED BY InitScenario, <1>1, PTL DEF ScenarioSpec

(* A scenario is there with all of its participants or without any: one     *)
(* that can be named is whole, and one that nobody can name any more has    *)
(* left no session behind, the two known cancellations apart (start,        *)
(* _rollback_start, stop).                                                  *)
THEOREM StartsAllOrNothing == ScenarioSpec => []AllOrNothing
<1>1. ScenarioInv => AllOrNothing
    <2> SUFFICES ASSUME ScenarioInv PROVE AllOrNothing
        OBVIOUS
    <2>1. RegisteredWhole
        BY DEF ScenarioInv, StopShape, RegisteredWhole, Whole, Here
    <2>2. ASSUME Settled, ~live, hit \notin {"spawning", "closing"}
          PROVE  Here({"launching", "open"}) = {}
        <3>1. CASE at = "idle"
            BY <3>1 DEF ScenarioInv, StartShape, Here
        <3>2. CASE at = "ended"
            <4>1. Here({"launching"}) = {}
                BY <3>2 DEF ScenarioInv, StartShape
            <4>2. Here({"open"}) = {}
                BY <2>2, <3>2 DEF ScenarioInv, StopShape, Settled, Closers
            <4>3. QED BY <4>1, <4>2 DEF Here
        <3>3. QED BY <2>2, <3>1, <3>2 DEF Settled
    <2>3. QED BY <2>1, <2>2 DEF ScenarioInv, AllOrNothing, NoOrphans
<1>2. QED BY ScenarioInvariant, <1>1, PTL

-----------------------------------------------------------------------------
(* The session manifest.                                                    *)

(* The transactions of one session.                                         *)
Record(s) == <<"record", s>>
Removal(s) == <<"remove", s>>
Prune(d) == <<"prune", d>>

-----------------------------------------------------------------------------
(* The inductive invariant.                                                 *)

(* What the holder of the lock has read is what the file says: nobody else  *)
(* can write before it does.                                                *)
SnapshotIsCurrent == \A j \in Holding : snap[j] = file

(* A running daemon has its pid, and a session that is on its way or open   *)
(* runs in one.                                                             *)
OwnersLive ==
    /\ \A d \in Daemons : daemon[d] = "up" => pid[d] = "daemon"
    /\ \A s \in Sessions :
          /\ life[s] # "unborn" => owner[s] # None
          /\ life[s] \in {"recording", "open", "closing"} => daemon[owner[s]] = "up"

(* A session's transactions are asked for in the order of its life, and it  *)
(* goes on only when they are over, save that the browser's going asks for  *)
(* the removal without waiting; a daemon's prune is its first.              *)
JobsFollowLife ==
    /\ \A s \in Sessions :
          /\ life[s] = "unborn" => job[Record(s)] = "none"
          /\ life[s] \in {"unborn", "recording", "open"} => job[Removal(s)] = "none"
          /\ life[s] \in {"open", "stranded"} => job[Record(s)] = "over"
          /\ life[s] \in {"closed", "stranded"} => job[Removal(s)] = "over"
    /\ \A d \in Daemons : daemon[d] = "off" => job[Prune(d)] = "none"

(* The sessions vouched for.                                                *)
Vouched == Sessions \ (missed \cup overtaken)

(* A row is there from the end of its recording to its removal, and no      *)
(* record comes after the removal.                                          *)
RowsKept ==
    \A s \in Vouched :
       /\ life[s] \in {"recording", "open"} /\ job[Record(s)] = "over" => file[s] = owner[s]
       /\ life[s] \in {"closing", "closed"} /\ job[Removal(s)] = "over"
              => file[s] = None /\ job[Record(s)] = "over"

ManifestInv ==
    ManifestTypeOK /\ SnapshotIsCurrent /\ OwnersLive /\ JobsFollowLife /\ RowsKept

-----------------------------------------------------------------------------
(* The kinds of transactions, told apart.                                   *)
LEMMA JobKinds ==
    /\ \A s \in Sessions : Record(s) \in Jobs /\ Removal(s) \in Jobs
    /\ \A d \in Daemons : Prune(d) \in Jobs
    /\ \A j \in Jobs : \/ \E s \in Sessions : j = Record(s) \/ j = Removal(s)
                       \/ \E d \in Daemons : j = Prune(d)
    /\ \A x, y : /\ Record(x) # Removal(y) /\ Record(x) # Prune(y) /\ Removal(x) # Prune(y)
                 /\ Record(x) = Record(y) <=> x = y
                 /\ Removal(x) = Removal(y) <=> x = y
                 /\ Prune(x) = Prune(y) <=> x = y
    /\ \A x : /\ Record(x)[1] = "record" /\ Record(x)[2] = x
              /\ Removal(x)[1] = "remove" /\ Removal(x)[2] = x
              /\ Prune(x)[1] = "prune" /\ Prune(x)[2] = x
BY DEF Jobs, Record, Removal, Prune

(* The manifest is empty and its lock free at the start.                    *)
LEMMA InitManifest == Init => ManifestInv
<1> SUFFICES ASSUME Init PROVE ManifestInv
    OBVIOUS
<1>1. ManifestTypeOK
    BY DEF Init, ManifestTypeOK, Manifest, Empty, Holding
<1>2. SnapshotIsCurrent /\ OwnersLive /\ JobsFollowLife /\ RowsKept
    BY JobKinds DEF Init, Empty, SnapshotIsCurrent, Holding, OwnersLive, JobsFollowLife, RowsKept,
       Vouched
<1> QED BY <1>1, <1>2 DEF ManifestInv

-----------------------------------------------------------------------------
(* Transactions.                                                            *)

(* A step that leaves the file and the transactions under way alone.        *)
LEMMA NothingWritten ==
    ASSUME ManifestTypeOK, SnapshotIsCurrent, UNCHANGED <<file, snap, lock>>,
           job' \in [Jobs -> {"none", "queued", "holding", "over"}],
           \A j \in Jobs : job'[j] = "holding" <=> job[j] = "holding"
    PROVE  SnapshotIsCurrent' /\ Holding' = {lock'} \ {None} /\ snap' \in [Jobs -> Manifest]
BY DEF ManifestTypeOK, SnapshotIsCurrent, Holding, Manifest

(* A job takes the manifest's lock.                                         *)
LEMMA TakesLock ==
    ASSUME ManifestInv, NEW j \in Jobs, TakeLock(j)
    PROVE  ManifestInv'
<1> USE DEF TakeLock, sessions
<1>1. ManifestTypeOK'
    <2>1. Holding = {}
        BY DEF ManifestInv, ManifestTypeOK
    <2>2. Holding' = {j}
        BY <2>1 DEF ManifestInv, ManifestTypeOK, Holding
    <2>3. Holding' = {lock'} \ {None}
        BY <2>2, ManifestAssumption
    <2>4. file' \in Manifest /\ snap' \in [Jobs -> Manifest]
        BY DEF ManifestInv, ManifestTypeOK
    <2>5. QED BY <2>3, <2>4 DEF ManifestInv, ManifestTypeOK
<1>2. SnapshotIsCurrent'
    <2>1. Holding = {}
        BY DEF ManifestInv, ManifestTypeOK
    <2>2. QED BY <2>1 DEF ManifestInv, ManifestTypeOK, SnapshotIsCurrent, Holding
<1>3. OwnersLive'
    BY DEF ManifestInv, OwnersLive
<1>4. JobsFollowLife'
    BY JobKinds DEF ManifestInv, ManifestTypeOK, JobsFollowLife
<1>5. RowsKept'
    BY JobKinds DEF ManifestInv, ManifestTypeOK, RowsKept, Vouched
<1> QED BY <1>1, <1>2, <1>3, <1>4, <1>5 DEF ManifestInv

(* A transaction that is given up disturbs only what is no longer vouched   *)
(* for.                                                                     *)
LEMMA GivesUp ==
    ASSUME ManifestInv, NEW j \in Jobs, TimesOut(j) \/ WriteFails(j)
    PROVE  ManifestInv'
<1> DEFINE over == [job EXCEPT ![j] = "over"]
<1>0. /\ job[j] \in {"queued", "holding"} /\ job' = over /\ Missed(j)
      /\ UNCHANGED <<file, daemon, pid, life, owner, cancelled, overtaken>>
    BY DEF TimesOut, WriteFails
<1>1. ManifestTypeOK' /\ SnapshotIsCurrent'
    <2>1. CASE TimesOut(j)
        <3>1. \A i \in Jobs : job'[i] = "holding" <=> job[i] = "holding"
            BY <2>1 DEF TimesOut, ManifestInv, ManifestTypeOK
        <3>2. job' \in [Jobs -> {"none", "queued", "holding", "over"}]
            BY <1>0 DEF ManifestInv, ManifestTypeOK
        <3>3. SnapshotIsCurrent' /\ Holding' = {lock'} \ {None} /\ snap' \in [Jobs -> Manifest]
            BY <2>1, <3>1, <3>2, NothingWritten DEF TimesOut, ManifestInv
        <3>4. QED BY <1>0, <3>2, <3>3 DEF ManifestInv, ManifestTypeOK, Missed
    <2>2. CASE WriteFails(j)
        <3>1. lock = j /\ Holding = {j}
            BY <2>2, ManifestAssumption DEF WriteFails, ManifestInv, ManifestTypeOK, Holding
        <3>2. lock' = None /\ Holding' = {}
            BY <2>2, <3>1 DEF WriteFails, ManifestInv, ManifestTypeOK, Holding
        <3>3. snap' \in [Jobs -> Manifest]
            BY <2>2 DEF WriteFails, ManifestInv, ManifestTypeOK, Manifest, Empty
        <3>4. QED
            BY <1>0, <3>2, <3>3 DEF ManifestInv, ManifestTypeOK, Missed, SnapshotIsCurrent
    <2>3. QED BY <2>1, <2>2
<1>2. OwnersLive'
    BY <1>0 DEF ManifestInv, OwnersLive
<1>3. JobsFollowLife'
    BY <1>0, JobKinds DEF ManifestInv, ManifestTypeOK, JobsFollowLife
<1>4. RowsKept'
    <2> SUFFICES ASSUME NEW s \in Vouched'
                 PROVE  /\ life[s] \in {"recording", "open"} /\ job'[Record(s)] = "over"
                             => file[s] = owner[s]
                        /\ life[s] \in {"closing", "closed"} /\ job'[Removal(s)] = "over"
                             => file[s] = None /\ job'[Record(s)] = "over"
        BY <1>0 DEF RowsKept
    <2>0. s \in Sessions
        BY DEF Vouched
    <2>1. s \in Vouched /\ j # Record(s) /\ j # Removal(s)
        BY <1>0, <2>0, JobKinds DEF Missed, Vouched
    <2>2. job'[Record(s)] = job[Record(s)] /\ job'[Removal(s)] = job[Removal(s)]
        BY <1>0, <2>0, <2>1, JobKinds DEF ManifestInv, ManifestTypeOK
    <2>3. QED BY <2>1, <2>2 DEF ManifestInv, RowsKept
<1> QED BY <1>1, <1>2, <1>3, <1>4 DEF ManifestInv

(* A transaction that replaces the file leaves the rows of the sessions it  *)
(* is not for as it read them, and so as they were; the prune clears only   *)
(* rows of daemons that are gone.                                           *)
LEMMA WriteKeepsRows ==
    ASSUME ManifestInv, NEW j \in Jobs, Write(j), NEW s \in Sessions
    PROVE  /\ j = Record(s) => file'[s] = owner[s]
           /\ j = Removal(s) => file'[s] = None
           /\ j # Record(s) /\ j # Removal(s) =>
                \/ file'[s] = file[s]
                \/ /\ file'[s] = None
                   /\ file[s] # None => pid[file[s]] # "daemon"
<1>1. snap[j] = file
    BY DEF Write, ManifestInv, SnapshotIsCurrent, Holding
<1>2. file' \in Written(j) /\ file \in Manifest
    BY DEF Write, ManifestInv, ManifestTypeOK
<1>3. CASE \E x \in Sessions : j = Record(x)
    <2>1. PICK x \in Sessions : j = Record(x)
        BY <1>3
    <2>2. file' = [file EXCEPT ![x] = owner[x]]
        BY <1>1, <1>2, <2>1 DEF Written, Record
    <2>3. QED BY <1>2, <2>1, <2>2, JobKinds DEF Manifest
<1>4. CASE \E x \in Sessions : j = Removal(x)
    <2>1. PICK x \in Sessions : j = Removal(x)
        BY <1>4
    <2>2. file' = [file EXCEPT ![x] = None]
        BY <1>1, <1>2, <2>1 DEF Written, Removal
    <2>3. QED BY <1>2, <2>1, <2>2, JobKinds DEF Manifest
<1>5. CASE \E d \in Daemons : j = Prune(d)
    <2>1. PICK d \in Daemons : j = Prune(d)
        BY <1>5
    <2>2. PICK gone \in Doomed(file, d) :
              file' = [x \in Sessions |-> IF x \in gone THEN None ELSE file[x]]
        BY <1>1, <1>2, <2>1 DEF Written, Prune
    <2>3. s \in gone => file[s] # None /\ pid[file[s]] \in {"free", "stranger"}
        BY DEF Doomed
    <2>4. QED BY <2>1, <2>2, <2>3, JobKinds
<1>6. QED BY <1>3, <1>4, <1>5, JobKinds

(* A write keeps the types, and its snapshot is what the file held.         *)
LEMMA WriteType ==
    ASSUME ManifestInv, NEW j \in Jobs, Write(j)
    PROVE  ManifestTypeOK' /\ SnapshotIsCurrent'
<1> USE DEF sessions
<1>1. lock = j /\ Holding = {j}
    BY ManifestAssumption DEF Write, ManifestInv, ManifestTypeOK, Holding
<1>2. lock' = None /\ Holding' = {}
    BY <1>1 DEF Write, ManifestInv, ManifestTypeOK, Holding
<1>3. snap' \in [Jobs -> Manifest]
    BY DEF Write, ManifestInv, ManifestTypeOK, Manifest, Empty
<1>4. file' \in Manifest
    <2>0. file \in Manifest /\ owner \in Manifest /\ snap[j] = file
        BY <1>1 DEF ManifestInv, ManifestTypeOK, SnapshotIsCurrent
    <2>1. CASE \E s \in Sessions : j = Record(s) \/ j = Removal(s)
        BY <2>0, <2>1 DEF Write, Written, Record, Removal, Manifest
    <2>2. CASE \E d \in Daemons : j = Prune(d)
        BY <2>0, <2>2 DEF Write, Written, Prune, Manifest
    <2>3. QED BY <2>1, <2>2, JobKinds
<1>5. overtaken' \subseteq Sessions
    <2>1. j[1] = "remove" => j[2] \in Sessions
        BY DEF Jobs
    <2>2. QED BY <2>1 DEF Write, ManifestInv, ManifestTypeOK
<1>6. QED
    BY <1>2, <1>3, <1>4, <1>5 DEF Write, ManifestInv, ManifestTypeOK, SnapshotIsCurrent

(* A job writes the manifest.                                               *)
LEMMA Writes ==
    ASSUME ManifestInv, NEW j \in Jobs, Write(j)
    PROVE  ManifestInv'
<1> USE DEF sessions
<1>0. job' = [job EXCEPT ![j] = "over"] /\ UNCHANGED <<daemon, pid, life, owner, cancelled, missed>>
    BY DEF Write
<1>1. ManifestTypeOK' /\ SnapshotIsCurrent'
    BY WriteType
<1>2. OwnersLive'
    BY <1>0 DEF ManifestInv, OwnersLive
<1>3. JobsFollowLife'
    BY <1>0, JobKinds DEF ManifestInv, ManifestTypeOK, JobsFollowLife, Write
<1>4. RowsKept'
    <2> SUFFICES ASSUME NEW s \in Vouched'
                 PROVE  /\ life[s] \in {"recording", "open"} /\ job'[Record(s)] = "over"
                             => file'[s] = owner[s]
                        /\ life[s] \in {"closing", "closed"} /\ job'[Removal(s)] = "over"
                             => file'[s] = None /\ job'[Record(s)] = "over"
        BY <1>0 DEF RowsKept
    <2>0. s \in Sessions /\ s \in Vouched
        BY <1>0 DEF Write, Vouched
    <2>1. life[s] \in {"recording", "open"} => owner[s] # None /\ pid[owner[s]] = "daemon"
        BY <2>0 DEF ManifestInv, ManifestTypeOK, Manifest, OwnersLive
    <2>2. job[Removal(s)] # "none" => life[s] \notin {"recording", "open"}
        BY <2>0 DEF ManifestInv, JobsFollowLife
    <2>3. job[j] = "holding"
        BY DEF Write
    <2>4. job'[j] = "over" /\ \A i \in Jobs : i # j => job'[i] = job[i]
        BY <1>0 DEF ManifestInv, ManifestTypeOK
    <2>5. CASE j = Record(s)
        <3>1. ~(life[s] \in {"closing", "closed"} /\ job[Removal(s)] = "over")
            BY <2>0, <2>3, <2>5 DEF ManifestInv, RowsKept
        <3>2. job'[Removal(s)] = job[Removal(s)] /\ file'[s] = owner[s]
            BY <2>0, <2>4, <2>5, JobKinds, WriteKeepsRows
        <3>3. QED BY <3>1, <3>2
    <2>6. CASE j = Removal(s)
        <3>1. j[1] = "remove" /\ j[2] = s /\ <<"record", j[2]>> = Record(s)
            BY <2>6, JobKinds DEF Record
        <3>2. job[Record(s)] = "over"
            BY <3>1 DEF Write, Vouched
        <3>3. job'[Record(s)] = "over" /\ file'[s] = None
            BY <2>0, <2>4, <2>6, <3>2, JobKinds, WriteKeepsRows
        <3>4. QED BY <2>2, <2>3, <2>6, <3>3
    <2>7. CASE j # Record(s) /\ j # Removal(s)
        <3>1. job'[Record(s)] = job[Record(s)] /\ job'[Removal(s)] = job[Removal(s)]
            BY <2>0, <2>4, <2>7, JobKinds
        <3>2. \/ file'[s] = file[s]
              \/ file'[s] = None /\ (file[s] # None => pid[file[s]] # "daemon")
            BY <2>0, <2>7, WriteKeepsRows
        <3>3. QED BY <2>0, <2>1, <3>1, <3>2 DEF ManifestInv, RowsKept
    <2>8. QED BY <2>5, <2>6, <2>7
<1> QED BY <1>1, <1>2, <1>3, <1>4 DEF ManifestInv

-----------------------------------------------------------------------------
(* Sessions: a step moves one session on and asks for at most one           *)
(* transaction of its own, which has not been asked for.                    *)
LEMMA SessionSteps ==
    ASSUME ManifestInv, NEW s \in Sessions,
           \/ CancelLaunch(s) \/ Recorded(s) \/ Close(s) \/ ExternalClose(s) \/ Closed(s)
           \/ \E d \in Daemons : Launch(s, d)
    PROVE  ManifestInv'
<1> USE DEF CancelLaunch, Recorded, Close, ExternalClose, Removes, Closed, Launch
<1>0. UNCHANGED <<file, daemon, pid, missed, overtaken, snap, lock>>
    OBVIOUS
<1>1. /\ job[Record(s)] # "holding" /\ life[s] = "unborn"
            => job' = [job EXCEPT ![Record(s)] = "queued"]
      /\ life[s] # "unborn" =>
            \/ job' = job
            \/ job' = [job EXCEPT ![Removal(s)] = "queued"] /\ life[s] \in {"recording", "open"}
    BY DEF Record, Removal
<1>2. /\ life[s] = "unborn" => job[Record(s)] = "none" /\ job[Removal(s)] = "none"
      /\ life[s] \in {"recording", "open"} => job[Removal(s)] = "none"
    BY DEF ManifestInv, JobsFollowLife
<1>3. \/ job' = job
      \/ \E j \in Jobs : job[j] = "none" /\ job' = [job EXCEPT ![j] = "queued"]
    BY <1>1, <1>2, JobKinds
<1>4. /\ \A j \in Jobs : job'[j] = "holding" <=> job[j] = "holding"
      /\ job' \in [Jobs -> {"none", "queued", "holding", "over"}]
    BY <1>3 DEF ManifestInv, ManifestTypeOK
<1>5. SnapshotIsCurrent' /\ Holding' = {lock'} \ {None} /\ snap' \in [Jobs -> Manifest]
    BY <1>0, <1>4, NothingWritten DEF ManifestInv
<1>6. ManifestTypeOK'
    <2>1. \/ life' = life
          \/ \E v \in {"recording", "open", "closing", "closed"} : life' = [life EXCEPT ![s] = v]
        OBVIOUS
    <2>2. owner' = owner \/ \E d \in Daemons : owner' = [owner EXCEPT ![s] = d]
        OBVIOUS
    <2>3. cancelled' = cancelled \/ cancelled' = cancelled \cup {s}
        OBVIOUS
    <2> HIDE DEF CancelLaunch, Recorded, Close, ExternalClose, Removes, Closed, Launch
    <2>4. life' \in [Sessions -> {"unborn", "recording", "open", "closing", "closed", "stranded"}]
        BY <2>1 DEF ManifestInv, ManifestTypeOK
    <2>5. owner' \in Manifest
        BY <2>2 DEF ManifestInv, ManifestTypeOK, Manifest
    <2>6. cancelled' \subseteq Sessions
        BY <2>3 DEF ManifestInv, ManifestTypeOK
    <2> QED BY <1>0, <1>4, <1>5, <2>4, <2>5, <2>6 DEF ManifestInv, ManifestTypeOK
<1>7. OwnersLive'
    BY <1>0, ManifestAssumption DEF ManifestInv, ManifestTypeOK, Manifest, OwnersLive
<1>8. \A x \in Sessions \ {s} : /\ life'[x] = life[x] /\ owner'[x] = owner[x]
                                 /\ job'[Record(x)] = job[Record(x)]
                                 /\ job'[Removal(x)] = job[Removal(x)]
    BY <1>1, JobKinds DEF ManifestInv, ManifestTypeOK, Manifest
<1>9. \A d \in Daemons : job'[Prune(d)] = job[Prune(d)]
    BY <1>1, JobKinds DEF ManifestInv, ManifestTypeOK
<1>10. /\ life[s] = "unborn" => job'[Record(s)] = "queued" /\ job'[Removal(s)] = "none"
       /\ life[s] # "unborn" => /\ job'[Record(s)] = job[Record(s)]
                                /\ \/ job'[Removal(s)] = job[Removal(s)]
                                   \/ job'[Removal(s)] = "queued" /\ life'[s] = "closing"
    BY <1>1, <1>2, JobKinds DEF ManifestInv, ManifestTypeOK, Removal
<1>11. \/ life[s] = "unborn" /\ life'[s] = "recording"
       \/ life[s] = "recording" /\ life'[s] = "recording" /\ job' = job
       \/ life[s] = "recording" /\ life'[s] = "open" /\ job' = job /\ job[Record(s)] = "over"
       \/ life[s] \in {"recording", "open"} /\ life'[s] = "closing" /\ job'[Removal(s)] = "queued"
       \/ life[s] = "closing" /\ life'[s] = "closed" /\ job' = job /\ job[Removal(s)] = "over"
    BY JobKinds DEF ManifestInv, ManifestTypeOK, Record, Removal
<1>12. life[s] # "unborn" => owner' = owner
    OBVIOUS
<1>13. JobsFollowLife'
    <2>2. \A x \in Sessions \ {s} :
             /\ life'[x] = "unborn" => job'[Record(x)] = "none"
             /\ life'[x] \in {"unborn", "recording", "open"} => job'[Removal(x)] = "none"
             /\ life'[x] \in {"open", "stranded"} => job'[Record(x)] = "over"
             /\ life'[x] \in {"closed", "stranded"} => job'[Removal(x)] = "over"
        BY <1>8 DEF ManifestInv, JobsFollowLife
    <2>3. /\ life'[s] = "unborn" => job'[Record(s)] = "none"
          /\ life'[s] \in {"unborn", "recording", "open"} => job'[Removal(s)] = "none"
          /\ life'[s] \in {"open", "stranded"} => job'[Record(s)] = "over"
          /\ life'[s] \in {"closed", "stranded"} => job'[Removal(s)] = "over"
        BY <1>10, <1>11 DEF ManifestInv, JobsFollowLife
    <2>4. QED BY <1>0, <1>9, <2>2, <2>3 DEF ManifestInv, JobsFollowLife
<1>14. RowsKept'
    <2>0. Vouched' = Vouched /\ Vouched \subseteq Sessions
        BY <1>0 DEF Vouched
    <2>1. \A x \in Vouched \ {s} :
             /\ life'[x] \in {"recording", "open"} /\ job'[Record(x)] = "over" => file[x] = owner'[x]
             /\ life'[x] \in {"closing", "closed"} /\ job'[Removal(x)] = "over"
                    => file[x] = None /\ job'[Record(x)] = "over"
        BY <1>8, <2>0 DEF ManifestInv, RowsKept
    <2>2. s \in Vouched =>
             /\ life'[s] \in {"recording", "open"} /\ job'[Record(s)] = "over" => file[s] = owner'[s]
             /\ life'[s] \in {"closing", "closed"} /\ job'[Removal(s)] = "over"
                    => file[s] = None /\ job'[Record(s)] = "over"
        BY <1>10, <1>11, <1>12 DEF ManifestInv, RowsKept
    <2>3. QED BY <1>0, <2>0, <2>1, <2>2 DEF RowsKept
<1> QED BY <1>5, <1>6, <1>7, <1>13, <1>14 DEF ManifestInv

-----------------------------------------------------------------------------
(* Daemons.                                                                 *)

(* A daemon boots.                                                          *)
LEMMA Boots ==
    ASSUME ManifestInv, NEW d \in Daemons, Boot(d)
    PROVE  ManifestInv'
<1> USE DEF Boot, sessions
<1>1. CASE job[Prune(d)] # "holding"
    <2>1. SnapshotIsCurrent' /\ Holding' = {lock'} \ {None} /\ snap' \in [Jobs -> Manifest]
        BY <1>1, NothingWritten, JobKinds DEF ManifestInv, ManifestTypeOK, Prune
    <2>2. ManifestTypeOK'
        BY <2>1 DEF ManifestInv, ManifestTypeOK
    <2>3. OwnersLive'
        BY DEF ManifestInv, ManifestTypeOK, Manifest, OwnersLive
    <2>4. \A s \in Sessions : job'[Record(s)] = job[Record(s)] /\ job'[Removal(s)] = job[Removal(s)]
        BY JobKinds DEF ManifestInv, ManifestTypeOK, Prune
    <2>5. JobsFollowLife' /\ RowsKept'
        BY <2>4, JobKinds DEF ManifestInv, ManifestTypeOK, JobsFollowLife, RowsKept, Vouched, Prune
    <2>6. QED BY <2>1, <2>2, <2>3, <2>5 DEF ManifestInv
<1>2. CASE job[Prune(d)] = "holding"
    BY <1>2 DEF ManifestInv, JobsFollowLife, Boot
<1>3. QED BY <1>1, <1>2

(* A daemon dies.                                                           *)
LEMMA Dies ==
    ASSUME ManifestInv, NEW d \in Daemons, DaemonDies(d)
    PROVE  ManifestInv'
<1> DEFINE its == {j \in Jobs : JobOwner(j) = d}
<1>0. /\ daemon' = [daemon EXCEPT ![d] = "dead"] /\ pid' = [pid EXCEPT ![d] = "free"]
      /\ job' = [j \in Jobs |-> IF j \in its THEN "over" ELSE job[j]]
      /\ snap' = [j \in Jobs |-> IF j \in its THEN Empty ELSE snap[j]]
      /\ life' = [s \in Sessions |->
                    IF owner[s] = d /\ life[s] # "closed" THEN "stranded" ELSE life[s]]
      /\ lock' = IF lock \in its THEN None ELSE lock
      /\ UNCHANGED <<file, owner, cancelled, missed, overtaken>>
    BY DEF DaemonDies
<1>1. \A s \in Sessions : /\ Record(s) \in its <=> owner[s] = d
                          /\ Removal(s) \in its <=> owner[s] = d
    BY JobKinds DEF JobOwner
<1>2. ManifestTypeOK'
    <2>1. Holding' = Holding \ its
        BY <1>0 DEF Holding, ManifestInv, ManifestTypeOK
    <2>2. Holding' = {lock'} \ {None}
        BY <1>0, <2>1, ManifestAssumption DEF ManifestInv, ManifestTypeOK
    <2>3. snap' \in [Jobs -> Manifest]
        BY <1>0 DEF ManifestInv, ManifestTypeOK, Manifest, Empty
    <2>4. QED BY <1>0, <2>2, <2>3 DEF ManifestInv, ManifestTypeOK
<1>3. SnapshotIsCurrent'
    BY <1>0 DEF ManifestInv, SnapshotIsCurrent, Holding
<1>4. OwnersLive'
    <2>1. \A x \in Daemons : daemon'[x] = "up" => pid'[x] = "daemon"
        BY <1>0 DEF ManifestInv, ManifestTypeOK, OwnersLive
    <2>2. ASSUME NEW s \in Sessions
          PROVE  /\ life'[s] # "unborn" => owner[s] # None
                 /\ life'[s] \in {"recording", "open", "closing"} => daemon'[owner[s]] = "up"
        <3>1. CASE owner[s] = d
            BY <1>0, <3>1, ManifestAssumption
        <3>2. CASE owner[s] # d
            <4>1. life'[s] = life[s]
                BY <1>0, <3>2
            <4>2. life[s] # "unborn" => daemon'[owner[s]] = daemon[owner[s]]
                BY <1>0, <3>2 DEF ManifestInv, ManifestTypeOK, Manifest, OwnersLive
            <4>3. QED BY <4>1, <4>2 DEF ManifestInv, OwnersLive
        <3>3. QED BY <3>1, <3>2
    <2>3. QED BY <1>0, <2>1, <2>2 DEF OwnersLive
<1>5. JobsFollowLife'
    <2>1. \A x \in Daemons : daemon'[x] = "off" => job'[Prune(x)] = "none"
        BY <1>0, JobKinds DEF ManifestInv, ManifestTypeOK, JobsFollowLife, JobOwner
    <2>2. ASSUME NEW s \in Sessions
          PROVE  /\ life'[s] = "unborn" => job'[Record(s)] = "none"
                 /\ life'[s] \in {"unborn", "recording", "open"} => job'[Removal(s)] = "none"
                 /\ life'[s] \in {"open", "stranded"} => job'[Record(s)] = "over"
                 /\ life'[s] \in {"closed", "stranded"} => job'[Removal(s)] = "over"
        <3>1. CASE owner[s] = d
            <4>1. life'[s] \in {"closed", "stranded"}
                BY <1>0, <3>1
            <4>2. job'[Record(s)] = "over" /\ job'[Removal(s)] = "over"
                BY <1>0, <1>1, <3>1, JobKinds
            <4>3. QED BY <4>1, <4>2
        <3>2. CASE owner[s] # d
            <4>1. /\ life'[s] = life[s] /\ job'[Record(s)] = job[Record(s)]
                  /\ job'[Removal(s)] = job[Removal(s)]
                BY <1>0, <1>1, <3>2, JobKinds
            <4>2. QED BY <4>1 DEF ManifestInv, JobsFollowLife
        <3>3. QED BY <3>1, <3>2
    <2>3. QED BY <2>1, <2>2 DEF JobsFollowLife
<1>6. RowsKept'
    <2>1. Vouched' = Vouched /\ Vouched \subseteq Sessions
        BY <1>0 DEF Vouched
    <2>2. QED BY <1>0, <1>1, <2>1, JobKinds DEF ManifestInv, ManifestTypeOK, RowsKept, JobsFollowLife
<1> QED BY <1>2, <1>3, <1>4, <1>5, <1>6 DEF ManifestInv

(* A dead daemon's pid is given to another process.                         *)
LEMMA PidGoesOn ==
    ASSUME ManifestInv, NEW d \in Daemons, PidReused(d)
    PROVE  ManifestInv'
<1> USE DEF PidReused, sessions
<1>1. ManifestTypeOK' /\ SnapshotIsCurrent'
    BY DEF ManifestInv, ManifestTypeOK, SnapshotIsCurrent, Holding
<1>2. OwnersLive'
    BY DEF ManifestInv, ManifestTypeOK, OwnersLive
<1>3. JobsFollowLife' /\ RowsKept'
    BY DEF ManifestInv, JobsFollowLife, RowsKept, Vouched
<1> QED BY <1>1, <1>2, <1>3 DEF ManifestInv

-----------------------------------------------------------------------------
(* The manifest's invariant holds of every state: who writes has read what  *)
(* is there, a running daemon has its pid, and transactions follow the life *)
(* of their session.                                                        *)
THEOREM ManifestInvariant == Spec => []ManifestInv
<1>1. ManifestInv /\ [Next]_vars => ManifestInv'
    <2> SUFFICES ASSUME ManifestInv, [Next]_vars PROVE ManifestInv'
        OBVIOUS
    <2>1. ASSUME NEW j \in Jobs, TakeLock(j) \/ TimesOut(j) \/ Write(j) \/ WriteFails(j)
          PROVE  ManifestInv'
        BY <2>1, TakesLock, GivesUp, Writes
    <2>2. ASSUME NEW s \in Sessions,
                 \/ CancelLaunch(s) \/ Recorded(s)
                 \/ Close(s) \/ ExternalClose(s) \/ Closed(s)
                 \/ \E d \in Daemons : Launch(s, d)
          PROVE  ManifestInv'
        BY <2>2, SessionSteps
    <2>3. ASSUME NEW d \in Daemons, Boot(d) \/ DaemonDies(d) \/ PidReused(d)
          PROVE  ManifestInv'
        BY <2>3, Boots, Dies, PidGoesOn
    <2>4. CASE UNCHANGED vars
        <3>1. ManifestTypeOK' /\ SnapshotIsCurrent'
            BY <2>4 DEF vars, sessions, ManifestInv, ManifestTypeOK, SnapshotIsCurrent, Holding
        <3>2. OwnersLive' /\ JobsFollowLife' /\ RowsKept'
            BY <2>4 DEF vars, sessions, ManifestInv, OwnersLive, JobsFollowLife, RowsKept, Vouched
        <3>3. QED BY <3>1, <3>2 DEF ManifestInv
    <2>5. QED BY <2>1, <2>2, <2>3, <2>4 DEF Next
<1>2. QED BY <1>1, InitManifest, PTL DEF Spec

(* An open session has its row and a closed one none, however many threads  *)
(* and processes read, modify and write the manifest, whichever of them die *)
(* and whoever closes the session, unless the removal overtook the record:  *)
(* no transaction undoes another's, no prune takes a living daemon's.       *)
THEOREM RowsStayTrue == Spec => []RowsAreTrue
<1>1. ManifestInv => RowsAreTrue
    BY DEF ManifestInv, RowsAreTrue, RowsKept, Vouched, JobsFollowLife
<1>2. QED BY <1>1, ManifestInvariant, PTL

=============================================================================
