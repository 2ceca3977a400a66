---------------------------- MODULE CrashRecovery ----------------------------
(***************************************************************************)
(* Renderer crashes of one session's pages and their recovery               *)
(* (browser_pool/crash_recovery.py, the crash and close listeners of        *)
(* listeners.py, the session's page operations).  A recovery runs under the *)
(* session's lease, opens a fresh page, loads the dead page's address in it *)
(* and puts it in the dead page's slot; the fresh page may crash at any     *)
(* moment of that, and Playwright reports a crash some time after it.       *)
(***************************************************************************)
EXTENDS Integers, FiniteSets, SequencesExt

CONSTANTS
    MaxPages,     \* bound: pages ever opened
    RecoveryMax   \* CRASH_RECOVERY_MAX

Pages == 1..MaxPages
None == 0

ASSUME RecoveryAssumption == MaxPages \in Nat \ {0} /\ RecoveryMax \in Nat

VARIABLES
    pages,    \* session.pages
    active,   \* session.page
    used,     \* pages opened so far
    open,     \* pages whose tab is open
    broken,   \* pages whose renderer has died
    told,     \* pages whose crash was reported
    fresh,    \* _REPLACEMENTS: of each page a recovery opened, whether it crashed
    rec,      \* the recovery of each crashed page
    outcome,  \* how it ended: what the client is told, or "dropped", when nothing is said
    cur,      \* the page it replaces
    new,      \* the page it has opened
    lease,    \* the recovery that holds the session's lease
    count,    \* session._crash_recoveries
    recent,   \* whether CRASH_RECOVERY_RESET_SECONDS have yet to pass since a crash
    crashed,  \* session._crashed
    closing   \* whether a close is reserved, the gate broken, or the browser known gone

tabs == <<pages, active, used, open>>
crashes == <<broken, told, fresh>>
work == <<rec, outcome, cur, new, lease>>
budget == <<count, recent>>
vars == <<tabs, crashes, work, budget, crashed, closing>>

Listed == {pages[i] : i \in 1..Len(pages)}

(* Nothing is on the list twice.                                            *)
Place(p) == CHOOSE i \in 1..Len(pages) : pages[i] = p
Without(p) == IF p \in Listed THEN RemoveAt(pages, Place(p)) ELSE pages

Busy(r) == rec[r] \in {"waiting", "opening", "loading", "closing"}

(* The list never holds a page twice, and the active page is on it.         *)
RecoveryTypeOK ==
    /\ pages \in Seq(Pages) /\ Cardinality(Listed) = Len(pages)
    /\ active \in Listed /\ used \in Pages
    /\ open \cup broken \subseteq 1..used /\ told \subseteq broken
    /\ fresh \in [Pages -> {"no", "loading", "crashed"}]
    /\ rec \in [Pages -> {"none", "waiting", "opening", "loading", "closing", "over"}]
    /\ outcome \in [Pages -> {"none", "recovered", "failed", "exhausted", "dropped"}]
    /\ cur \in [Pages -> Pages] /\ new \in [Pages -> Pages \cup {None}]
    /\ lease \in Pages \cup {None}
    /\ count \in 0..(RecoveryMax + MaxPages) /\ recent \in BOOLEAN
    /\ crashed \in BOOLEAN /\ closing \in {"no", "asked", "broken", "gone"}

Init ==
    /\ pages = <<1>> /\ active = 1 /\ used = 1 /\ open = {1}
    /\ broken = {} /\ told = {} /\ fresh = [p \in Pages |-> "no"]
    /\ rec = [p \in Pages |-> "none"] /\ outcome = [p \in Pages |-> "none"]
    /\ cur = [p \in Pages |-> p] /\ new = [p \in Pages |-> None] /\ lease = None
    /\ count = 0 /\ recent = FALSE /\ crashed = FALSE /\ closing = "no"

-----------------------------------------------------------------------------
(* Crashes and their reports.                                              *)

RendererDies(p) ==
    /\ p \in open \ broken
    /\ broken' = broken \cup {p}
    /\ UNCHANGED <<tabs, told, fresh, work, budget, crashed, closing>>

QuietPasses ==
    /\ recent /\ recent' = FALSE
    /\ UNCHANGED <<tabs, crashes, work, count, crashed, closing>>

(* _eligible: the attempts left, counted afresh after a quiet time.         *)
Spent == IF recent THEN count ELSE 0

(* A recovery ends: exhausted, before it begins or after, failed, recovered,*)
(* or dropped, which _recover only logs.                                    *)
Ends(r, how) ==
    /\ rec' = [rec EXCEPT ![r] = "over"]
    /\ outcome' = [outcome EXCEPT ![r] = how]
    /\ lease' = IF lease = r THEN None ELSE lease

(* schedule_recovery: the recovery is queued for the lease, which a session *)
(* that closes refuses.                                                     *)
Schedule(p) ==
    /\ count' = Spent /\ recent' = TRUE
    /\ CASE Spent >= RecoveryMax -> Ends(p, "exhausted")
         [] Spent < RecoveryMax /\ closing # "no" -> Ends(p, "dropped")
         [] OTHER -> rec' = [rec EXCEPT ![p] = "waiting"] /\ UNCHANGED <<outcome, lease>>
    /\ UNCHANGED <<fresh, cur, new>>

(* Mutant of CrashReported: a replacement's crash is recovered like any.    *)
CrashUnclaimed(p) ==
    /\ p \in broken \ told
    /\ told' = told \cup {p} /\ crashed' = TRUE
    /\ Schedule(p)
    /\ UNCHANGED <<tabs, broken, closing>>

(* _on_page_crash: the crash of a replacement is left to the recovery that  *)
(* opened it (claim_replacement_crash).                                     *)
CrashReported(p) ==
    /\ p \in broken \ told
    /\ told' = told \cup {p} /\ crashed' = TRUE
    /\ IF fresh[p] # "no"
       THEN fresh' = [fresh EXCEPT ![p] = "crashed"] /\ UNCHANGED <<work, budget>>
       ELSE Schedule(p)
    /\ UNCHANGED <<tabs, broken, closing>>

-----------------------------------------------------------------------------
(* Tabs and the client's page operations.                                  *)

(* A popup, or page_open under the lease.                                   *)
TabOpens ==
    /\ used < MaxPages /\ open # {} /\ closing # "gone"
    /\ used' = used + 1
    /\ pages' = Append(pages, used') /\ open' = open \cup {used'}
    /\ UNCHANGED <<active, crashes, work, budget, crashed, closing>>

(* A tab closes; _on_page_close: without an open page on the list the       *)
(* session is over.                                                         *)
Closes(p) ==
    /\ open' = open \ {p}
    /\ closing' = IF p \in open /\ Listed' \cap open' = {} THEN "gone" ELSE closing

(* A tab the user closes stays in session.pages.                            *)
TabCloses(p) ==
    /\ p \in open /\ UNCHANGED pages
    /\ Closes(p)
    /\ UNCHANGED <<active, used, crashes, work, budget, crashed>>

(* The browser goes, or a client asks for the close, behind whatever is     *)
(* queued.                                                                  *)
SessionCloses ==
    /\ \/ closing # "gone" /\ closing' = "gone" /\ open' = {}
       \/ closing = "no" /\ closing' = "asked" /\ UNCHANGED open
    /\ UNCHANGED <<pages, active, used, crashes, work, budget, crashed>>

(* The ceiling breaks the gate (enforce_active_timeout).  The recovery that *)
(* holds the lease is cancelled inside one of its nested operations, where  *)
(* the cancellation becomes an error that _recover_owned reports.           *)
GateBreaks ==
    /\ closing \in {"no", "asked"} /\ closing' = "broken"
    /\ IF lease # None THEN Ends(lease, "failed") ELSE UNCHANGED <<rec, outcome, lease>>
    /\ UNCHANGED <<tabs, crashes, cur, new, budget, crashed>>

(* close_page: an active page hands over to its first sibling.              *)
ClosePage(p) ==
    /\ lease = None /\ closing = "no" /\ p \in Listed /\ Len(pages) > 1
    /\ pages' = Without(p)
    /\ active' = IF active = p THEN pages'[1] ELSE active
    /\ Closes(p)
    /\ UNCHANGED <<used, crashes, work, budget, crashed>>

SwitchPage(p) ==
    /\ lease = None /\ closing = "no" /\ p \in Listed
    /\ active' = p
    /\ UNCHANGED <<pages, used, open, crashes, work, budget, crashed, closing>>

-----------------------------------------------------------------------------
(* A recovery, under the lease.                                            *)

(* The budget is spent when the recovery starts, not when it is queued.     *)
Admit(r) ==
    /\ rec[r] = "waiting" /\ lease = None /\ closing \in {"no", "asked"}
    /\ lease' = r /\ rec' = [rec EXCEPT ![r] = "opening"]
    /\ count' = count + 1
    /\ UNCHANGED <<tabs, crashes, outcome, cur, new, recent, crashed, closing>>

(* Mutant of Drop: a gate that breaks leaves its queue as it is.            *)
DropUnlessBroken(r) ==
    /\ rec[r] = "waiting" /\ closing = "gone"
    /\ Ends(r, "dropped")
    /\ UNCHANGED <<tabs, crashes, cur, new, budget, crashed, closing>>

(* The gate failed its queue when it broke or when the browser went: there  *)
(* is a line in the log, and no event.                                      *)
Drop(r) ==
    /\ rec[r] = "waiting" /\ closing \in {"broken", "gone"}
    /\ Ends(r, "dropped")
    /\ UNCHANGED <<tabs, crashes, cur, new, budget, crashed, closing>>

(* A teardown that need not wait for the lease cancels the session's tasks  *)
(* (_drain_one_pass), a recovery at work among them.                        *)
Drained(r) ==
    /\ rec[r] \in {"opening", "loading", "closing"} /\ closing = "gone"
    /\ Ends(r, "dropped")
    /\ UNCHANGED <<tabs, crashes, cur, new, budget, crashed, closing>>

(* new_page; the context's page event lists it now or later.                *)
OpenReplacement(r) ==
    /\ rec[r] = "opening" /\ open # {} /\ used < MaxPages
    /\ used' = used + 1 /\ open' = open \cup {used'}
    /\ pages' \in {pages, Append(pages, used')}
    /\ fresh' = [fresh EXCEPT ![used'] = "loading"]
    /\ new' = [new EXCEPT ![r] = used']
    /\ rec' = [rec EXCEPT ![r] = "loading"]
    /\ UNCHANGED <<active, broken, told, outcome, cur, lease, budget, crashed, closing>>

ReplacementListed(r) ==
    /\ rec[r] = "loading" /\ new[r] \notin Listed
    /\ pages' = Append(pages, new[r])
    /\ UNCHANGED <<active, used, open, crashes, work, budget, crashed, closing>>

OpenFails(r) ==
    /\ rec[r] = "opening"
    /\ Ends(r, "failed")
    /\ UNCHANGED <<tabs, crashes, cur, new, budget, crashed, closing>>

(* _discard_replacement.                                                    *)
Discard(r) ==
    /\ pages' = Without(new[r])
    /\ Closes(new[r])
    /\ UNCHANGED <<active, used>>

(* _replace_until_it_holds: one more attempt, at the page that now stands   *)
(* in the slot, within the budget.                                          *)
Retry(r, dead) ==
    /\ recent' = TRUE
    /\ cur' = [cur EXCEPT ![r] = dead] /\ new' = [new EXCEPT ![r] = None]
    /\ IF Spent < RecoveryMax
       THEN /\ count' = Spent + 1
            /\ rec' = [rec EXCEPT ![r] = "opening"] /\ UNCHANGED <<outcome, lease>>
       ELSE count' = Spent /\ Ends(r, "exhausted")

(* _load_replacement, by the reports that came before it looked.            *)
LoadCrashed(r) ==
    /\ rec[r] = "loading" /\ fresh[new[r]] = "crashed"
    /\ Discard(r)
    /\ Retry(r, cur[r])
    /\ UNCHANGED <<crashes, crashed>>

LoadClosed(r) ==
    /\ rec[r] = "loading" /\ fresh[new[r]] = "loading" /\ new[r] \notin open
    /\ Discard(r)
    /\ Ends(r, "failed")
    /\ UNCHANGED <<crashes, cur, new, budget, crashed>>

(* Mutant of Slot: the replacement goes to the end of the list.             *)
SlotAtEnd(dead, page) == Append(SelectSeq(pages, LAMBDA q : q \notin {dead, page}), page)

Slot(dead, page) ==
    LET others == Without(page)
    IN IF dead \in Listed
       THEN [i \in 1..Len(others) |-> IF others[i] = dead THEN page ELSE others[i]]
       ELSE Append(others, page)

(* _take_dead_page_slot, then the dead page's close begins.                 *)
TakeSlot(r) ==
    /\ rec[r] = "loading" /\ fresh[new[r]] = "loading"
    /\ pages' = IF cur[r] \notin Listed /\ new[r] \in Listed THEN pages
                ELSE Slot(cur[r], new[r])
    /\ active' = IF active = cur[r] THEN new[r] ELSE active
    /\ rec' = [rec EXCEPT ![r] = "closing"]
    /\ UNCHANGED <<used, open, crashes, outcome, cur, new, lease, budget, crashed, closing>>

(* The dead page is closed.  A replacement that crashed meanwhile is        *)
(* replaced where it stands; one that did not is the session's page.        *)
Swapped(r) ==
    /\ rec[r] = "closing" /\ UNCHANGED pages
    /\ Closes(cur[r])
    /\ IF fresh[new[r]] = "crashed"
       THEN Retry(r, new[r]) /\ UNCHANGED <<fresh, crashed>>
       ELSE /\ Ends(r, "recovered")
            /\ crashed' = FALSE
            /\ fresh' = [fresh EXCEPT ![new[r]] = "no"]
            /\ UNCHANGED <<cur, new, budget>>
    /\ UNCHANGED <<active, used, broken, told>>

-----------------------------------------------------------------------------

RecoveryStep(r) ==
    \/ Admit(r) \/ Drop(r) \/ Drained(r) \/ OpenReplacement(r) \/ OpenFails(r)
    \/ LoadCrashed(r) \/ LoadClosed(r) \/ TakeSlot(r) \/ Swapped(r)

Next ==
    \/ QuietPasses \/ TabOpens \/ SessionCloses \/ GateBreaks
    \/ \E p \in Pages :
           \/ RendererDies(p) \/ CrashReported(p) \/ TabCloses(p) \/ ClosePage(p)
           \/ SwitchPage(p) \/ ReplacementListed(p) \/ RecoveryStep(p)

Spec == Init /\ [][Next]_vars

(* The event loop runs what a recovery does next; Playwright's answers and  *)
(* deadlines end its awaits.                                                *)
FairSpec == Spec /\ \A r \in Pages : WF_vars(RecoveryStep(r))

-----------------------------------------------------------------------------

(* A listed page whose crash was reported is being recovered, or the client *)
(* has been told that it is not (the moment between the swap and the dead   *)
(* page's close included).  Nothing is said of it only by a session that    *)
(* closes or whose gate is broken.                                          *)
NoSilentDeadPage ==
    \A p \in told \cap Listed :
        \E r \in Pages :
            /\ p \in {cur[r], new[r]}
            /\ \/ Busy(r) \/ outcome[r] \in {"failed", "exhausted"}
               \/ outcome[r] = "dropped" /\ closing # "no"

(* No page is the business of two recoveries: a second one would replace    *)
(* the replacement of the first (claim_replacement_crash).                  *)
OneRecovery ==
    \A r, s \in {p \in Pages : Busy(p)} :
        r # s => {cur[r], new[r]} \cap {cur[s], new[s]} \subseteq {None}

(* Each reported crash has one recovery, or the client knows that it will   *)
(* not, or the session takes no more calls: none is dropped between the     *)
(* listeners and the recovery, and none is taken up twice.                  *)
EachCrashOneRecovery == RecoveryTypeOK /\ NoSilentDeadPage /\ OneRecovery

(* A recovery never moves another page: agents hold indices of the list.    *)
(* (A tab opened behind a replacement already listed moves up with it.)     *)
SlotsKept ==
    [][\A r \in Pages :
          RecoveryStep(r) => \A i \in 1..Len(pages) :
              (pages[i] # cur[r] /\ \A j \in 1..i : pages[j] # new[r])
              => i \in 1..Len(pages') /\ pages'[i] = pages[i]]_vars

Announced(r) == outcome[r] \in {"recovered", "failed", "exhausted"}

(* A recovery ends, and gives the lease back, whatever crashes, closes and  *)
(* breaks meanwhile; it says how, unless the session closes or its gate is  *)
(* broken (_recover).                                                       *)
RecoveryEnds ==
    \A r \in Pages : Busy(r) ~> rec[r] = "over" /\ lease # r /\ (Announced(r) \/ closing # "no")

(* A client told to wait is told how the recovery ended, or the session is  *)
(* gone (listeners.py: "A SessionRecoveredEvent later reports the real      *)
(* outcome").                                                               *)
RecoveryAnnounced == \A r \in Pages : Busy(r) ~> Announced(r) \/ closing = "gone"

(* A page given up on keeps the session reported as crashed while it is the *)
(* page the session shows (_recover_owned's docstring).                     *)
FailureStaysReported ==
    \A r \in Pages :
        rec[r] = "over" /\ outcome[r] \in {"failed", "exhausted"} /\ active = cur[r] => crashed
=============================================================================
