-------------------------- MODULE ScreencastProofs --------------------------
(* What holds of a session's preview for any viewers, pages and operations. *)
EXTENDS Screencast, SequenceTheorems, FiniteSetTheorems, TLAPS

(* Sequences in which nothing is twice.                                     *)
Distinct(q) == \A i, j \in 1..Len(q) : q[i] = q[j] => i = j
On(q, x) == \E i \in 1..Len(q) : q[i] = x
Leads(q, x) == q # <<>> /\ Head(q) = x
Ends(q, x) == q # <<>> /\ q[Len(q)] = x

(* What leaves the line leaves the others where they stand to each other.   *)
LEMMA WithoutFacts ==
    ASSUME NEW S, NEW q \in Seq(S), Distinct(q), NEW t
    PROVE  /\ Without(q, t) \in Seq(S)
           /\ Distinct(Without(q, t))
           /\ \A x : On(Without(q, t), x) <=> On(q, x) /\ x # t
           /\ \A x : x # t /\ Leads(q, x) => Leads(Without(q, t), x)
           /\ \A x : x # t /\ Ends(q, x) => Ends(Without(q, t), x)
<1>1. CASE On(q, t)
    <2> DEFINE k == Place(q, t)
               a == SubSeq(q, 1, k - 1)
               b == SubSeq(q, k + 1, Len(q))
               r == a \o b
    <2>1. k \in 1..Len(q) /\ q[k] = t
        BY <1>1 DEF On, Place
    <2>2. Without(q, t) = r
        BY <1>1 DEF On, Without
    <2> HIDE DEF k
    <2>3. a \in Seq(S) /\ Len(a) = k - 1 /\ \A i \in 1..(k - 1) : a[i] = q[i]
        BY <2>1
    <2>4. b \in Seq(S) /\ Len(b) = Len(q) - k /\ \A i \in 1..(Len(q) - k) : b[i] = q[k + i]
        BY <2>1
    <2> HIDE DEF a, b
    <2>5. /\ r \in Seq(S) /\ Len(r) = Len(q) - 1
          /\ \A i \in 1..(k - 1) : r[i] = q[i]
          /\ \A i \in k..(Len(q) - 1) : r[i] = q[i + 1]
        <3>1. /\ r \in Seq(S) /\ Len(r) = Len(a) + Len(b)
              /\ \A i \in 1..(Len(a) + Len(b)) : r[i] = IF i <= Len(a) THEN a[i] ELSE b[i - Len(a)]
            BY <2>3, <2>4, ConcatProperties, Zenon
        <3>2. ASSUME NEW i \in k..(Len(q) - 1) PROVE r[i] = q[i + 1]
            <4>1. i - Len(a) \in 1..(Len(q) - k) /\ k + (i - Len(a)) = i + 1
                BY <2>1, <2>3
            <4>2. r[i] = b[i - Len(a)]
                BY <2>1, <2>3, <2>4, <3>1
            <4>3. QED BY <2>4, <4>1, <4>2
        <3>3. ASSUME NEW i \in 1..(k - 1) PROVE r[i] = q[i]
            <4>1. r[i] = a[i]
                BY <2>1, <2>3, <2>4, <3>1
            <4>2. QED BY <2>3, <4>1
        <3>4. Len(r) = Len(q) - 1
            BY <2>1, <2>3, <2>4, <3>1
        <3>5. QED BY <3>1, <3>2, <3>3, <3>4
    <2> HIDE DEF r
    <2>6. Distinct(r)
        <3> SUFFICES ASSUME NEW i \in 1..Len(r), NEW j \in 1..Len(r), r[i] = r[j] PROVE i = j
            BY DEF Distinct
        <3>1. CASE i < k /\ j < k
            BY <2>1, <2>5, <3>1 DEF Distinct
        <3>2. CASE i < k /\ j >= k
            <4>1. q[i] = q[j + 1] /\ i # j + 1
                BY <2>1, <2>5, <3>2
            <4>2. QED BY <2>1, <2>5, <3>2, <4>1 DEF Distinct
        <3>3. CASE i >= k /\ j < k
            <4>1. q[i + 1] = q[j] /\ j # i + 1
                BY <2>1, <2>5, <3>3
            <4>2. QED BY <2>1, <2>5, <3>3, <4>1 DEF Distinct
        <3>4. CASE i >= k /\ j >= k
            <4>1. q[i + 1] = q[j + 1]
                BY <2>1, <2>5, <3>4
            <4>2. QED BY <2>1, <2>5, <3>4, <4>1 DEF Distinct
        <3>5. QED BY <2>1, <2>5, <3>1, <3>2, <3>3, <3>4
    <2>7. ASSUME NEW x PROVE On(r, x) <=> On(q, x) /\ x # t
        <3>1. ASSUME NEW i \in 1..Len(r), r[i] = x PROVE On(q, x) /\ x # t
            <4>1. CASE i < k
                BY <2>1, <2>5, <3>1, <4>1 DEF On, Distinct
            <4>2. CASE i >= k
                <5>1. x = q[i + 1] /\ i + 1 \in 1..Len(q) /\ i + 1 # k
                    BY <2>1, <2>5, <3>1, <4>2
                <5>2. QED BY <2>1, <5>1 DEF On, Distinct
            <4>3. QED BY <2>1, <2>5, <4>1, <4>2
        <3>2. ASSUME NEW i \in 1..Len(q), q[i] = x, x # t PROVE On(r, x)
            <4>1. CASE i < k
                BY <2>1, <2>5, <3>2, <4>1 DEF On
            <4>2. CASE i > k
                <5>1. r[i - 1] = x /\ i - 1 \in 1..Len(r)
                    BY <2>1, <2>5, <3>2, <4>2
                <5>2. QED BY <5>1 DEF On
            <4>3. QED BY <2>1, <2>5, <3>2, <4>1, <4>2
        <3>3. QED BY <3>1, <3>2 DEF On
    <2>8. ASSUME NEW x, x # t, Leads(q, x) PROVE Leads(r, x)
        <3>1. q[1] = x /\ k # 1
            BY <2>1, <2>8 DEF Leads
        <3>2. r[1] = x /\ Len(r) > 0
            BY <2>1, <2>5, <3>1
        <3>3. QED BY <2>5, <3>2 DEF Leads
    <2>9. ASSUME NEW x, x # t, Ends(q, x) PROVE Ends(r, x)
        <3>1. q[Len(q)] = x /\ k # Len(q)
            BY <2>1, <2>9 DEF Ends
        <3>2. r[Len(r)] = x /\ Len(r) > 0
            BY <2>1, <2>5, <3>1
        <3>3. QED BY <2>5, <3>2 DEF Ends
    <2>10. QED BY <2>2, <2>5, <2>6, <2>7, <2>8, <2>9
<1>2. CASE ~On(q, t)
    <2>1. Without(q, t) = q
        BY <1>2 DEF Without, On
    <2>2. QED BY <1>2, <2>1
<1>3. QED BY <1>1, <1>2

(* Who joins the line stands behind everybody.                              *)
LEMMA AppendFacts ==
    ASSUME NEW S, NEW q \in Seq(S), Distinct(q), NEW t \in S, ~On(q, t)
    PROVE  /\ Append(q, t) \in Seq(S)
           /\ Distinct(Append(q, t))
           /\ \A x : On(Append(q, t), x) <=> On(q, x) \/ x = t
           /\ \A x : Leads(q, x) => Leads(Append(q, t), x)
           /\ Ends(Append(q, t), t)
<1> DEFINE r == Append(q, t)
<1>1. /\ r \in Seq(S) /\ Len(r) = Len(q) + 1 /\ r[Len(q) + 1] = t
      /\ \A i \in 1..Len(q) : r[i] = q[i]
    OBVIOUS
<1> HIDE DEF r
<1>2. Distinct(r)
    BY <1>1 DEF Distinct, On
<1>3. ASSUME NEW x PROVE On(r, x) <=> On(q, x) \/ x = t
    <2>1. ASSUME NEW i \in 1..Len(r), r[i] = x PROVE On(q, x) \/ x = t
        BY <1>1, <2>1 DEF On
    <2>2. ASSUME NEW i \in 1..Len(q), q[i] = x PROVE On(r, x)
        BY <1>1, <2>2 DEF On
    <2>3. On(r, t)
        BY <1>1 DEF On
    <2>4. QED BY <2>1, <2>2, <2>3 DEF On
<1>4. ASSUME NEW x, Leads(q, x) PROVE Leads(r, x)
    <2>1. Len(q) > 0 /\ q[1] = x
        BY <1>4 DEF Leads
    <2>2. r[1] = x /\ Len(r) > 0
        BY <1>1, <2>1
    <2>3. QED BY <1>1, <2>2 DEF Leads
<1>5. Ends(r, t)
    BY <1>1 DEF Ends
<1>6. QED BY <1>1, <1>2, <1>3, <1>4, <1>5 DEF r

Viewing == {"showing", "parting", "removing", "stopping", "falling"}
AllPcs ==
    {"away", "showing", "none", "listening", "ending", "done", "moving"} \cup AddPcs \cup LeavePcs

(* Where a task that has asked for the lease is, and where one that has it. *)
Lining == {"lining", "removing", "starting", "stopping", "moving"}
Holding == {"starting", "stopping", "moving"}

(* Nobody stands in the line twice, its members are the tasks that have     *)
(* asked, the close is its last, and who works with the lease is its head.  *)
LineInv ==
    /\ line \in Seq(Tasks \cup {"close"}) /\ Distinct(line)
    /\ \A t \in Tasks : On(line, t) <=> pc[t] \in Lining
    /\ On(line, "close") <=> gate = "closing"
    /\ gate = "closing" => Ends(line, "close")
    /\ \A t \in Tasks : pc[t] \in Holding => Leads(line, t)

(* The lock is held by the task that starts or stops the encoder.           *)
LockInv ==
    /\ pc \in [Tasks -> AllPcs]
    /\ \A t \in Tasks : lock = t <=> pc[t] \in {"starting", "stopping", "dousing"}

(* An encoder runs on the bound page or not at all, for viewers and with a  *)
(* subscription; whoever is at work on it knows what there is.              *)
EncoderInv ==
    /\ casting \subseteq {bound}
    /\ bound # None => started
    /\ lock = "free" /\ started => bound # None
    /\ started => viewers # {} /\ sub
    /\ \A t \in Tasks : pc[t] = "starting" => ~started /\ sub
    /\ \A t \in Tasks : pc[t] = "dousing" => ~started
    /\ \A r \in {"op", "watch"} : pc[r] \in {"starting", "stopping"} => viewers # {}
    /\ \A r \in {"op", "watch"} : pc[r] = "stopping" => bound = None /\ sub
    /\ sub <=> pc["watch"] # "none"

(* A viewer is in the manager from its start to its removal, the manager is *)
(* registered for as long as it is wanted, and it has no watcher without    *)
(* viewers.                                                                 *)
ViewersInv ==
    /\ \A v \in viewers : pc[v] \in Viewing \/ (cutShort /\ pc[v] \in {"dropping", "away"})
    /\ \A v \in Viewers : pc[v] \in Viewing => v \in viewers
    /\ \A v \in Viewers : pc[v] = "stopping" => viewers = {v}
    /\ \A v \in Viewers : pc[v] = "dousing" => viewers = {}
    /\ \A v \in Viewers : pc[v] \in {"falling", "dousing"} => gate # "open"
    /\ \A v \in Viewers : pc[v] \in AddPcs => v \in pending
    /\ \A v \in pending : pc[v] # "away"
    /\ ~registered => pending = {} /\ viewers = {}
    /\ registered /\ ~cutShort => \E v \in Viewers : pc[v] # "away"
    /\ viewers = {} /\ ~cutShort /\ (\A v \in Viewers : pc[v] \notin {"starting", "dousing"})
          => ~sub

(* An encoder on another page than the active one is about to move.         *)
PageInv ==
    /\ pc["watch"] = "lining" => want # None
    /\ \A i \in 1..Len(events) : events[i] = "closed" => gate = "closed"
    /\ gate = "open" /\ bound \notin {None, page}
          => pc["op"] = "moving" \/ events # <<>> \/ want # None

ScreencastInv ==
    ScreencastTypeOK /\ LineInv /\ LockInv /\ EncoderInv /\ ViewersInv /\ PageInv
(* The names of the tasks that are no viewers.                              *)
LEMMA Names ==
    /\ "op" \in Tasks /\ "watch" \in Tasks /\ "close" \notin Tasks /\ "free" \notin Tasks
    /\ "op" \notin Viewers /\ "watch" \notin Viewers
    /\ Viewers \subseteq Tasks
BY ScreencastAssumption DEF Tasks

(* The head of the line is its owner, and its members are in it.            *)
LEMMA LineWords == \A t : (Owner(t) <=> Leads(line, t)) /\ (InLine(t) <=> On(line, t))
BY DEF Owner, Leads, InLine, On

(* A task's step outside the gate.                                          *)
LEMMA LineStays ==
    ASSUME LineInv, line' = line, gate' = gate,
           \A t \in Tasks : pc'[t] \in Lining <=> pc[t] \in Lining,
           \A t \in Tasks : pc'[t] \in Holding => pc[t] \in Holding \/ Owner(t)
    PROVE  LineInv'
BY LineWords DEF LineInv

(* A task that gives up the lease, or its place.                            *)
LEMMA LineLeft ==
    ASSUME LineInv, LockInv, NEW t \in Tasks, NEW where \in AllPcs, where \notin Lining,
           Leaves(t, where), gate' = gate
    PROVE  LineInv' /\ pc' \in [Tasks -> AllPcs]
<1> DEFINE T == Tasks \cup {"close"}
<1>1. /\ line' \in Seq(T) /\ Distinct(line')
      /\ \A x : On(line', x) <=> On(line, x) /\ x # t
      /\ \A x : x # t /\ Leads(line, x) => Leads(line', x)
      /\ \A x : x # t /\ Ends(line, x) => Ends(line', x)
    BY WithoutFacts DEF LineInv, Leaves
<1>2. pc' = [pc EXCEPT ![t] = where] /\ pc \in [Tasks -> AllPcs]
    BY DEF Leaves, Goes, LockInv
<1>3. where \notin Holding
    BY DEF Lining, Holding
<1>4. "close" # t
    BY Names
<1>5. QED BY <1>1, <1>2, <1>3, <1>4 DEF LineInv

(* A task that asks an open gate for the lease.                             *)
LEMMA LineJoined ==
    ASSUME LineInv, LockInv, NEW t \in Tasks, NEW where \in AllPcs,
           where \in Lining, where \notin Holding, pc[t] \notin Lining,
           line' = Append(line, t), Goes(t, where), gate = "open", gate' = gate
    PROVE  LineInv' /\ pc' \in [Tasks -> AllPcs]
<1> DEFINE T == Tasks \cup {"close"}
<1>1. ~On(line, t) /\ line \in Seq(T) /\ Distinct(line) /\ t \in T
    BY DEF LineInv
<1>2. /\ line' \in Seq(T) /\ Distinct(line')
      /\ \A x : On(line', x) <=> On(line, x) \/ x = t
      /\ \A x : Leads(line, x) => Leads(line', x)
    BY <1>1, AppendFacts
<1>3. pc' = [pc EXCEPT ![t] = where] /\ pc \in [Tasks -> AllPcs]
    BY DEF Goes, LockInv
<1>4. "close" # t
    BY Names
<1>5. QED BY <1>2, <1>3, <1>4 DEF LineInv

(* A viewer that leaves with, if it says so, the watcher.                   *)
LEMMA LineLeftWatch ==
    ASSUME LineInv, LockInv, NEW v \in Viewers, NEW where \in AllPcs, where \notin Lining,
           NEW stop \in BOOLEAN, LeavesWatch(v, where, stop), gate' = gate
    PROVE  LineInv' /\ pc' \in [Tasks -> AllPcs]
<1> DEFINE T == Tasks \cup {"close"}
           mid == IF stop THEN Without(line, "watch") ELSE line
<1>1. /\ mid \in Seq(T) /\ Distinct(mid)
      /\ \A x : On(mid, x) <=> On(line, x) /\ ~(stop /\ x = "watch")
      /\ \A x : ~(stop /\ x = "watch") /\ Leads(line, x) => Leads(mid, x)
      /\ \A x : ~(stop /\ x = "watch") /\ Ends(line, x) => Ends(mid, x)
    BY WithoutFacts DEF LineInv
<1>2. line' = Without(mid, v)
    BY DEF LeavesWatch
<1> HIDE DEF mid
<1>3. /\ line' \in Seq(T) /\ Distinct(line')
      /\ \A x : On(line', x) <=> On(mid, x) /\ x # v
      /\ \A x : x # v /\ Leads(mid, x) => Leads(line', x)
      /\ \A x : x # v /\ Ends(mid, x) => Ends(line', x)
    BY <1>1, <1>2, WithoutFacts
<1>4. /\ pc' = [pc EXCEPT ![v] = where, !["watch"] = IF stop THEN "none" ELSE @]
      /\ pc \in [Tasks -> AllPcs]
    BY DEF LeavesWatch, LockInv
<1>5. where \notin Holding /\ "none" \notin Lining /\ "none" \notin Holding /\ "none" \in AllPcs
    BY DEF Lining, Holding, AllPcs
<1>6. pc' \in [Tasks -> AllPcs]
    BY <1>4, <1>5, Names
<1>7. \A t \in Tasks : pc'[t] = IF t = v THEN where
                                ELSE IF stop /\ t = "watch" THEN "none" ELSE pc[t]
    BY <1>4, Names
<1>8. \A t \in Tasks : On(line', t) <=> pc'[t] \in Lining
    BY <1>1, <1>3, <1>5, <1>7 DEF LineInv
<1>9. \A t \in Tasks : pc'[t] \in Holding => Leads(line', t)
    BY <1>1, <1>3, <1>5, <1>7 DEF LineInv
<1>10. /\ On(line', "close") <=> gate' = "closing"
       /\ gate' = "closing" => Ends(line', "close")
    BY <1>1, <1>3, Names DEF LineInv
<1>11. QED BY <1>3, <1>6, <1>8, <1>9, <1>10 DEF LineInv

(* What a viewer's leaving does to the watcher.                             *)
LEMMA WatchLeft ==
    ASSUME ScreencastTypeOK, LockInv, NEW v \in Viewers, NEW where \in AllPcs,
           NEW stop, LeavesWatch(v, where, stop)
    PROVE  /\ sub' \in BOOLEAN /\ events' \in Seq({"recovered", "closed"})
           /\ want' \in Pages \cup {None}
           /\ stop => ~sub' /\ events' = <<>> /\ want' = None /\ pc'["watch"] = "none"
           /\ ~stop => /\ sub' = sub /\ events' = events /\ want' = want
                       /\ pc'["watch"] = pc["watch"]
           /\ pc' \in [Tasks -> AllPcs] /\ pc'[v] = where
           /\ \A t \in Tasks \ {v, "watch"} : pc'[t] = pc[t]
<1>1. sub' \in BOOLEAN /\ sub \in BOOLEAN
    BY Zenon DEF LeavesWatch, ScreencastTypeOK
<1>2. /\ pc' = [pc EXCEPT ![v] = where, !["watch"] = IF stop THEN "none" ELSE @]
      /\ pc \in [Tasks -> AllPcs]
    BY DEF LeavesWatch, LockInv
<1>3. /\ pc' \in [Tasks -> AllPcs] /\ pc'[v] = where
      /\ \A t \in Tasks \ {v, "watch"} : pc'[t] = pc[t]
      /\ pc'["watch"] = IF stop THEN "none" ELSE pc["watch"]
    <2>1. v \in Tasks /\ "watch" \in Tasks /\ v # "watch" /\ "none" \in AllPcs
        BY Names DEF AllPcs
    <2>2. QED BY <1>2, <2>1
<1>4. /\ stop => ~sub' /\ events' = <<>> /\ want' = None
      /\ ~stop => sub' = sub /\ events' = events /\ want' = want
    BY <1>1 DEF LeavesWatch
<1>5. want' \in Pages \cup {None} /\ events' \in Seq({"recovered", "closed"})
    BY <1>4, EmptySeq DEF ScreencastTypeOK
<1>6. QED BY <1>1, <1>3, <1>4, <1>5

(* A new request: its endpoint counts as pending (acquire_viewer).          *)
LEMMA AcquireKeeps ==
    ASSUME ScreencastInv, NEW v \in Viewers, Acquire(v)
    PROVE  ScreencastInv'
<1>1. LineInv' /\ pc' \in [Tasks -> AllPcs]
    <2>1. /\ \A t \in Tasks : pc'[t] \in Lining <=> pc[t] \in Lining
          /\ \A t \in Tasks : pc'[t] \in Holding => pc[t] \in Holding \/ Owner(t)
          /\ line' = line /\ gate' = gate /\ pc' \in [Tasks -> AllPcs]
        BY Names DEF LockInv, ScreencastInv, Acquire, Goes, session, AddPcs, AllPcs, Lining,
            Holding
    <2>2. QED BY <2>1, LineStays DEF ScreencastInv
<1>2. ScreencastTypeOK'
    BY <1>1, Names, ScreencastAssumption DEF ScreencastInv, ScreencastTypeOK, Acquire, Goes,
        session, encoder, watching, AddPcs
<1>3. LockInv'
    BY <1>1, Names DEF ScreencastInv, LockInv, Acquire, Goes
<1>4. EncoderInv'
    BY <1>1, Names DEF ScreencastInv, EncoderInv, Acquire, Goes, encoder, watching
<1>5. ViewersInv'
    BY <1>1, Names DEF ScreencastInv, ScreencastTypeOK, LineInv, ViewersInv, Acquire, Goes,
        watching, Viewing
<1>6. PageInv'
    BY <1>1, Names DEF ScreencastInv, ScreencastTypeOK, LineInv, PageInv, Acquire, Goes, encoder,
        watching
<1>7. QED BY <1>1, <1>2, <1>3, <1>4, <1>5, <1>6 DEF ScreencastInv

(* add_viewer asks an open gate for the lease, or is refused.               *)
LEMMA AddEntersKeeps ==
    ASSUME ScreencastInv, NEW v \in Viewers, AddEnters(v)
    PROVE  ScreencastInv'
<1>1. LineInv' /\ pc' \in [Tasks -> AllPcs]
    <2>1. CASE gate = "open"
        <3>1. line' = Append(line, v) /\ Goes(v, "lining") /\ gate' = gate
            BY <2>1 DEF AddEnters, session
        <3>2. /\ "lining" \in AllPcs /\ "lining" \in Lining /\ "lining" \notin Holding
              /\ pc[v] \notin Lining
            BY DEF AddEnters, AddPcs, AllPcs, Lining, Holding
        <3>3. QED BY <2>1, <3>1, <3>2, Names, LineJoined DEF ScreencastInv
    <2>2. CASE gate # "open"
        <3>1. line' = line /\ gate' = gate /\ pc' = [pc EXCEPT ![v] = "dropping"]
            BY <2>2 DEF AddEnters, Goes, session
        <3>2. /\ \A t \in Tasks : pc'[t] \in Lining <=> pc[t] \in Lining
              /\ \A t \in Tasks : pc'[t] \in Holding => pc[t] \in Holding \/ Owner(t)
              /\ pc' \in [Tasks -> AllPcs]
            BY <3>1, Names DEF LockInv, ScreencastInv, AddEnters, LeavePcs, AllPcs, Lining,
                Holding
        <3>3. QED BY <3>1, <3>2, LineStays DEF ScreencastInv
    <2>3. QED BY <2>1, <2>2
<1>2. ScreencastTypeOK'
    BY <1>1, Names, ScreencastAssumption DEF ScreencastInv, ScreencastTypeOK, LineInv, AddEnters,
        Goes, session, counts, registry, encoder, watching, AddPcs, LeavePcs
<1>3. LockInv'
    BY <1>1, Names DEF ScreencastInv, LockInv, AddEnters, Goes
<1>4. EncoderInv'
    BY <1>1, Names DEF ScreencastInv, EncoderInv, AddEnters, Goes, encoder, watching
<1>5. ViewersInv'
    BY <1>1, Names DEF ScreencastInv, ScreencastTypeOK, LineInv, ViewersInv, PageInv, AddEnters,
        Goes, session, counts, registry, encoder, watching, Pages, AddPcs, Viewing
<1>6. PageInv'
    BY <1>1, Names DEF ScreencastInv, PageInv, AddEnters, Goes, session, encoder, watching
<1>7. QED BY <1>1, <1>2, <1>3, <1>4, <1>5, <1>6 DEF ScreencastInv

(* A viewer that never held the lease gives up its place.                   *)
LEMMA AddTimesOutKeeps ==
    ASSUME ScreencastInv, NEW v \in Viewers, AddTimesOut(v)
    PROVE  ScreencastInv'
<1>1. LineInv' /\ pc' \in [Tasks -> AllPcs]
    <2>1. Leaves(v, "dropping") /\ gate' = gate /\ "dropping" \in AllPcs /\ "dropping" \notin Lining
        BY DEF AddTimesOut, session, LeavePcs, AllPcs, Lining
    <2>2. QED BY <2>1, Names, LineLeft DEF ScreencastInv
<1>2. ScreencastTypeOK'
    BY <1>1, Names, ScreencastAssumption DEF ScreencastInv, ScreencastTypeOK, LineInv,
        AddTimesOut, Leaves, Goes, session, counts, registry, encoder, watching, LeavePcs
<1>3. LockInv'
    BY <1>1, Names DEF ScreencastInv, LockInv, AddTimesOut, Leaves, Goes
<1>4. EncoderInv'
    BY <1>1, Names DEF ScreencastInv, EncoderInv, AddTimesOut, Leaves, Goes, encoder, watching
<1>5. ViewersInv'
    BY <1>1, Names DEF ScreencastInv, ViewersInv, AddTimesOut, Leaves, Goes, session, counts,
        registry, watching, AddPcs, Viewing
<1>6. PageInv'
    BY <1>1, Names DEF ScreencastInv, PageInv, AddTimesOut, Leaves, Goes, session, encoder,
        watching
<1>7. QED BY <1>1, <1>2, <1>3, <1>4, <1>5, <1>6 DEF ScreencastInv

(* The encoder runs, for the viewer that started it (add_viewer).           *)
LEMMA StartDoneKeeps ==
    ASSUME ScreencastInv, NEW v \in Viewers, StartDone(v)
    PROVE  ScreencastInv'
<1> DEFINE where == IF v \in cancelled THEN "parting" ELSE "showing"
<1>1. LineInv' /\ pc' \in [Tasks -> AllPcs]
    <2>1. Leaves(v, where) /\ gate' = gate /\ where \in AllPcs /\ where \notin Lining
        BY DEF StartDone, Added, session, LeavePcs, AllPcs, Lining
    <2>2. QED BY <2>1, Names, LineLeft DEF ScreencastInv
<1>2. ScreencastTypeOK'
    BY <1>1, Names, ScreencastAssumption DEF ScreencastInv, ScreencastTypeOK, LineInv, StartDone,
        Started, Added, Leaves, Goes, session, counts, watching, Pages, None, LeavePcs
<1>3. LockInv'
    BY <1>1, Names DEF ScreencastInv, LockInv, StartDone, Added, Leaves, Goes
<1>4. EncoderInv'
    <2>1. lock = v /\ bound = None /\ sub
        BY Names DEF StartDone, ScreencastInv, LockInv, EncoderInv
    <2>2. casting = {} /\ page # None
        BY <2>1 DEF ScreencastInv, ScreencastTypeOK, EncoderInv, Pages, None
    <2>3. /\ pc'[v] = where /\ \A t \in Tasks \ {v} : pc'[t] = pc[t]
          /\ \A t \in Tasks \ {v} : pc[t] \notin {"starting", "stopping", "dousing"}
        BY <2>1, Names DEF StartDone, Added, Leaves, Goes, ScreencastInv, LockInv
    <2>4. lock' = "free" /\ started' /\ bound' = page /\ casting' = {page} /\ v \in viewers'
        BY <2>2 DEF StartDone, Started, Added
    <2>5. sub' /\ pc'["watch"] # "none"
        BY <2>1, <2>3, Names DEF StartDone, watching, ScreencastInv, EncoderInv
    <2>6. QED BY <2>2, <2>3, <2>4, <2>5, Names DEF EncoderInv
<1>5. ViewersInv'
    BY <1>1, Names DEF ScreencastInv, LockInv, ViewersInv, StartDone, Added, Leaves, Goes,
        session, counts, AddPcs, Viewing
<1>6. PageInv'
    BY <1>1, Names DEF ScreencastInv, PageInv, StartDone, Started, Added, Leaves, Goes, session,
        watching
<1>7. QED BY <1>1, <1>2, <1>3, <1>4, <1>5, <1>6 DEF ScreencastInv

(* A cancelled request waits for its task: nothing moves yet.               *)
LEMMA CancelKeeps ==
    ASSUME ScreencastInv, NEW v \in Viewers, Cancel(v)
    PROVE  ScreencastInv'
<1>1. LineInv' /\ pc' \in [Tasks -> AllPcs]
    <2>1. /\ \A t \in Tasks : pc'[t] \in Lining <=> pc[t] \in Lining
          /\ \A t \in Tasks : pc'[t] \in Holding => pc[t] \in Holding \/ Owner(t)
          /\ line' = line /\ gate' = gate /\ pc' \in [Tasks -> AllPcs]
        BY Names DEF LockInv, ScreencastInv, Cancel, session
    <2>2. QED BY <2>1, LineStays DEF ScreencastInv
<1>2. ScreencastTypeOK'
    BY <1>1, Names, ScreencastAssumption DEF ScreencastInv, ScreencastTypeOK, Cancel, session,
        counts, encoder, watching
<1>3. LockInv'
    BY <1>1, Names DEF ScreencastInv, LockInv, Cancel
<1>4. EncoderInv'
    BY <1>1, Names DEF ScreencastInv, EncoderInv, Cancel, encoder, watching
<1>5. ViewersInv'
    BY <1>1, Names DEF ScreencastInv, ViewersInv, Cancel, session, counts, watching
<1>6. PageInv'
    BY <1>1, Names DEF ScreencastInv, PageInv, Cancel, session, encoder, watching
<1>7. QED BY <1>1, <1>2, <1>3, <1>4, <1>5, <1>6 DEF ScreencastInv

(* An endpoint that stops showing has still to remove its viewer.           *)
LEMMA DisconnectKeeps ==
    ASSUME ScreencastInv, NEW v \in Viewers, Disconnect(v)
    PROVE  ScreencastInv'
<1>1. LineInv' /\ pc' \in [Tasks -> AllPcs]
    <2>1. /\ \A t \in Tasks : pc'[t] \in Lining <=> pc[t] \in Lining
          /\ \A t \in Tasks : pc'[t] \in Holding => pc[t] \in Holding \/ Owner(t)
          /\ line' = line /\ gate' = gate /\ pc' \in [Tasks -> AllPcs]
        BY Names DEF LockInv, ScreencastInv, Disconnect, Goes, session, LeavePcs, AllPcs, Lining,
            Holding
    <2>2. QED BY <2>1, LineStays DEF ScreencastInv
<1>2. ScreencastTypeOK'
    BY <1>1, Names, ScreencastAssumption DEF ScreencastInv, ScreencastTypeOK, Disconnect, Goes,
        session, counts, registry, encoder, watching, LeavePcs
<1>3. LockInv'
    BY <1>1, Names DEF ScreencastInv, LockInv, Disconnect, Goes
<1>4. EncoderInv'
    BY <1>1, Names DEF ScreencastInv, EncoderInv, Disconnect, Goes, encoder, watching
<1>5. ViewersInv'
    BY <1>1, Names DEF ScreencastInv, ViewersInv, Disconnect, Goes, session, counts, registry,
        AddPcs, Viewing
<1>6. PageInv'
    BY <1>1, Names DEF ScreencastInv, PageInv, Disconnect, Goes, session, encoder, watching
<1>7. QED BY <1>1, <1>2, <1>3, <1>4, <1>5, <1>6 DEF ScreencastInv

(* remove_viewer asks for the lease, or falls back without it.              *)
LEMMA RemoveKeeps ==
    ASSUME ScreencastInv, NEW v \in Viewers, Remove(v)
    PROVE  ScreencastInv'
<1>1. LineInv' /\ pc' \in [Tasks -> AllPcs]
    <2>1. CASE gate = "open"
        <3>1. line' = Append(line, v) /\ Goes(v, "removing") /\ gate' = gate
            BY <2>1 DEF Remove, session
        <3>2. /\ "removing" \in AllPcs /\ "removing" \in Lining /\ "removing" \notin Holding
              /\ pc[v] \notin Lining
            BY DEF Remove, LeavePcs, AllPcs, Lining, Holding
        <3>3. QED BY <2>1, <3>1, <3>2, Names, LineJoined DEF ScreencastInv
    <2>2. CASE gate # "open"
        <3>1. line' = line /\ gate' = gate /\ pc' = [pc EXCEPT ![v] = "falling"]
            BY <2>2 DEF Remove, Goes, session
        <3>2. /\ \A t \in Tasks : pc'[t] \in Lining <=> pc[t] \in Lining
              /\ \A t \in Tasks : pc'[t] \in Holding => pc[t] \in Holding \/ Owner(t)
              /\ pc' \in [Tasks -> AllPcs]
            BY <3>1, Names DEF LockInv, ScreencastInv, Remove, LeavePcs, AllPcs, Lining, Holding
        <3>3. QED BY <3>1, <3>2, LineStays DEF ScreencastInv
    <2>3. QED BY <2>1, <2>2
<1>2. ScreencastTypeOK'
    BY <1>1, Names, ScreencastAssumption DEF ScreencastInv, ScreencastTypeOK, LineInv, Remove,
        Goes, session, counts, registry, encoder, watching, None, LeavePcs
<1>3. LockInv'
    BY <1>1, Names DEF ScreencastInv, LockInv, Remove, Goes
<1>4. EncoderInv'
    BY <1>1, Names DEF ScreencastInv, EncoderInv, Remove, Goes, encoder, watching
<1>5. ViewersInv'
    BY <1>1, Names DEF ScreencastInv, ScreencastTypeOK, ViewersInv, PageInv, Remove, Goes,
        session, counts, registry, watching, None, AddPcs, AllPcs, Lining, Holding, Viewing
<1>6. PageInv'
    BY <1>1, Names DEF ScreencastInv, PageInv, Remove, Goes, session, encoder, watching
<1>7. QED BY <1>1, <1>2, <1>3, <1>4, <1>5, <1>6 DEF ScreencastInv

(* The endpoint returns; the last one reclaims the manager.                 *)
LEMMA DropKeeps ==
    ASSUME ScreencastInv, NEW v \in Viewers, Drop(v)
    PROVE  ScreencastInv'
<1>1. LineInv' /\ pc' \in [Tasks -> AllPcs]
    <2>1. /\ \A t \in Tasks : pc'[t] \in Lining <=> pc[t] \in Lining
          /\ \A t \in Tasks : pc'[t] \in Holding => pc[t] \in Holding \/ Owner(t)
          /\ line' = line /\ gate' = gate /\ pc' \in [Tasks -> AllPcs]
        BY Names DEF LockInv, ScreencastInv, Drop, Goes, session, AllPcs, Lining, Holding
    <2>2. QED BY <2>1, LineStays DEF ScreencastInv
<1>2. ScreencastTypeOK'
    BY <1>1, Names, ScreencastAssumption DEF ScreencastInv, ScreencastTypeOK, Drop, Goes, session,
        counts, encoder, watching
<1>3. LockInv'
    BY <1>1, Names DEF ScreencastInv, LockInv, Drop, Goes
<1>4. EncoderInv'
    BY <1>1, Names DEF ScreencastInv, EncoderInv, Drop, Goes, encoder, watching
<1>5. ViewersInv'
    BY <1>1, Names DEF ScreencastInv, ScreencastTypeOK, ViewersInv, Drop, Goes, session, counts,
        watching, AddPcs, Viewing
<1>6. PageInv'
    BY <1>1, Names DEF ScreencastInv, PageInv, Drop, Goes, session, encoder, watching
<1>7. QED BY <1>1, <1>2, <1>3, <1>4, <1>5, <1>6 DEF ScreencastInv

(* A removal that times out is broken off, and recorded as such.            *)
LEMMA RemoveTimesOutKeeps ==
    ASSUME ScreencastInv, NEW v \in Viewers, RemoveTimesOut(v)
    PROVE  ScreencastInv'
<1>1. LineInv' /\ pc' \in [Tasks -> AllPcs]
    <2>1. Leaves(v, "dropping") /\ gate' = gate /\ "dropping" \in AllPcs /\ "dropping" \notin Lining
        BY DEF RemoveTimesOut, session, LeavePcs, AllPcs, Lining
    <2>2. QED BY <2>1, Names, LineLeft DEF ScreencastInv
<1>2. ScreencastTypeOK'
    BY <1>1, Names, ScreencastAssumption DEF ScreencastInv, ScreencastTypeOK, LineInv,
        RemoveTimesOut, Leaves, Goes, session, registry, encoder, watching, LeavePcs
<1>3. LockInv'
    BY <1>1, Names DEF ScreencastInv, LockInv, RemoveTimesOut, Leaves, Goes
<1>4. EncoderInv'
    BY <1>1, Names DEF ScreencastInv, EncoderInv, RemoveTimesOut, Leaves, Goes, encoder, watching
<1>5. ViewersInv'
    BY <1>1, Names DEF ScreencastInv, ViewersInv, RemoveTimesOut, Leaves, Goes, session, registry,
        AddPcs, Viewing
<1>6. PageInv'
    BY <1>1, Names DEF ScreencastInv, PageInv, RemoveTimesOut, Leaves, Goes, session, encoder,
        watching
<1>7. QED BY <1>1, <1>2, <1>3, <1>4, <1>5, <1>6 DEF ScreencastInv

(* The encoder runs on the new page, and the lease goes back.               *)
LEMMA RebindStartedKeeps ==
    ASSUME ScreencastInv, NEW r \in {"op", "watch"}, RebindStarted(r)
    PROVE  ScreencastInv'
<1>1. LineInv' /\ pc' \in [Tasks -> AllPcs]
    <2>1. Leaves(r, Rest(r)) /\ gate' = gate /\ Rest(r) \in AllPcs /\ Rest(r) \notin Lining
        BY DEF RebindStarted, Rest, session, AllPcs, Lining
    <2>2. QED BY <2>1, Names, LineLeft DEF ScreencastInv
<1>2. ScreencastTypeOK'
    BY <1>1, Names, ScreencastAssumption DEF ScreencastInv, ScreencastTypeOK, LineInv,
        RebindStarted, Started, Leaves, Goes, Rest, WantNone, session, counts, registry, Pages,
        None, WatchPcs
<1>3. LockInv'
    BY <1>1, Names DEF ScreencastInv, LockInv, RebindStarted, Leaves, Goes, Rest
<1>4. EncoderInv'
    BY <1>1, Names DEF ScreencastInv, ScreencastTypeOK, LockInv, EncoderInv, RebindStarted,
        Started, Leaves, Goes, Rest, Pages, None
<1>5. ViewersInv'
    BY <1>1, Names DEF ScreencastInv, ScreencastTypeOK, ViewersInv, RebindStarted, Leaves, Goes,
        session, counts, registry
<1>6. PageInv'
    BY <1>1, Names DEF ScreencastInv, PageInv, RebindStarted, Started, Leaves, Goes, Rest,
        WantNone, session
<1>7. QED BY <1>1, <1>2, <1>3, <1>4, <1>5, <1>6 DEF ScreencastInv

(* The watcher hears of the close and turns to ending the preview.          *)
LEMMA HearsCloseKeeps ==
    ASSUME ScreencastInv, HearsClose
    PROVE  ScreencastInv'
<1>1. LineInv' /\ pc' \in [Tasks -> AllPcs]
    <2>1. /\ \A t \in Tasks : pc'[t] \in Lining <=> pc[t] \in Lining
          /\ \A t \in Tasks : pc'[t] \in Holding => pc[t] \in Holding \/ Owner(t)
          /\ line' = line /\ gate' = gate /\ pc' \in [Tasks -> AllPcs]
        BY Names DEF LockInv, ScreencastInv, HearsClose, Goes, session, AllPcs, Lining, Holding
    <2>2. QED BY <2>1, LineStays DEF ScreencastInv
<1>2. ScreencastTypeOK'
    BY <1>1, Names, ScreencastAssumption DEF ScreencastInv, ScreencastTypeOK, HearsClose, Goes,
        session, counts, registry, encoder, WatchPcs
<1>3. LockInv'
    BY <1>1, Names DEF ScreencastInv, LockInv, HearsClose, Goes
<1>4. EncoderInv'
    BY <1>1, Names DEF ScreencastInv, EncoderInv, HearsClose, Goes, encoder
<1>5. ViewersInv'
    BY <1>1, Names DEF ScreencastInv, ScreencastTypeOK, ViewersInv, HearsClose, Goes, session,
        counts, registry
<1>6. PageInv'
    BY <1>1, Names DEF ScreencastInv, PageInv, HearsClose, Goes, session
<1>7. QED BY <1>1, <1>2, <1>3, <1>4, <1>5, <1>6 DEF ScreencastInv

(* A page operation asks for the lease.                                     *)
LEMMA OpAsksKeeps ==
    ASSUME ScreencastInv, OpAsks
    PROVE  ScreencastInv'
<1>1. LineInv' /\ pc' \in [Tasks -> AllPcs]
    BY Names, LineStays, LineLeft, LineJoined, LineLeftWatch DEF ScreencastInv, OpAsks, session,
        AddPcs, AllPcs, Lining, Holding
<1>2. ScreencastTypeOK'
    BY <1>1, Names, ScreencastAssumption DEF ScreencastInv, ScreencastTypeOK, OpAsks, Goes,
        session, registry, encoder, watching
<1>3. LockInv'
    BY <1>1, Names DEF ScreencastInv, LockInv, OpAsks, Goes
<1>4. EncoderInv'
    BY <1>1, Names DEF ScreencastInv, EncoderInv, OpAsks, Goes, encoder, watching
<1>5. ViewersInv'
    BY <1>1, Names DEF ScreencastInv, ScreencastTypeOK, ViewersInv, OpAsks, Goes, registry,
        watching
<1>6. PageInv'
    BY <1>1, Names DEF ScreencastInv, PageInv, OpAsks, Goes, encoder, watching
<1>7. QED BY <1>1, <1>2, <1>3, <1>4, <1>5, <1>6 DEF ScreencastInv

(* The active page changes: a registered manager is told.                   *)
LEMMA SwitchPageKeeps ==
    ASSUME ScreencastInv, NEW p \in Pages, SwitchPage(p)
    PROVE  ScreencastInv'
<1>1. LineInv' /\ pc' \in [Tasks -> AllPcs]
    BY Names, LineStays, LineLeft, LineJoined, LineLeftWatch DEF ScreencastInv, LockInv,
        SwitchPage, Goes, session, AllPcs, Lining
<1>2. ScreencastTypeOK'
    BY <1>1, Names, ScreencastAssumption DEF ScreencastInv, ScreencastTypeOK, LineInv, SwitchPage,
        Leaves, Goes, session, counts, registry, encoder, watching
<1>3. LockInv'
    BY <1>1, Names DEF ScreencastInv, LockInv, SwitchPage, Leaves, Goes
<1>4. EncoderInv'
    BY <1>1, Names DEF ScreencastInv, EncoderInv, SwitchPage, Leaves, Goes, encoder, watching
<1>5. ViewersInv'
    BY <1>1, Names DEF ScreencastInv, ScreencastTypeOK, LockInv, ViewersInv, SwitchPage, Leaves,
        Goes, session, counts, registry, watching, Lining, Viewing
<1>6. PageInv'
    BY <1>1, Names DEF ScreencastInv, EncoderInv, ViewersInv, PageInv, SwitchPage, Leaves, Goes,
        session, encoder, watching
<1>7. QED BY <1>1, <1>2, <1>3, <1>4, <1>5, <1>6 DEF ScreencastInv

(* A crashed page is replaced, and the watcher told by an event.            *)
LEMMA RecoverPageKeeps ==
    ASSUME ScreencastInv, NEW p \in Pages, RecoverPage(p)
    PROVE  ScreencastInv'
<1>1. LineInv' /\ pc' \in [Tasks -> AllPcs]
    <2>1. Leaves("op", "away") /\ gate' = gate /\ "away" \in AllPcs /\ "away" \notin Lining
        BY DEF RecoverPage, AllPcs, Lining
    <2>2. QED BY <2>1, Names, LineLeft DEF ScreencastInv
<1>2. ScreencastTypeOK'
    BY <1>1, Names, ScreencastAssumption DEF ScreencastInv, ScreencastTypeOK, LineInv,
        RecoverPage, Leaves, Goes, Publish, counts, registry
<1>3. LockInv'
    BY <1>1, Names DEF ScreencastInv, LockInv, RecoverPage, Leaves, Goes
<1>4. EncoderInv'
    BY <1>1, Names DEF ScreencastInv, EncoderInv, RecoverPage, Leaves, Goes
<1>5. ViewersInv'
    BY <1>1, Names DEF ScreencastInv, ScreencastTypeOK, ViewersInv, RecoverPage, Leaves, Goes,
        counts, registry
<1>6. PageInv'
    BY <1>1, Names DEF ScreencastInv, LockInv, EncoderInv, ViewersInv, PageInv, RecoverPage,
        Leaves, Goes, Publish, session, counts, registry, encoder, watching, Pages, None, AddPcs,
        LeavePcs, WatchPcs, AllPcs, Lining, Holding, Viewing
<1>7. QED BY <1>1, <1>2, <1>3, <1>4, <1>5, <1>6 DEF ScreencastInv

(* An operation that moves no page.                                         *)
LEMMA OpWorksKeeps ==
    ASSUME ScreencastInv, OpWorks
    PROVE  ScreencastInv'
<1>1. LineInv' /\ pc' \in [Tasks -> AllPcs]
    <2>1. Leaves("op", "away") /\ gate' = gate /\ "away" \in AllPcs /\ "away" \notin Lining
        BY DEF OpWorks, session, AllPcs, Lining
    <2>2. QED BY <2>1, Names, LineLeft DEF ScreencastInv
<1>2. ScreencastTypeOK'
    BY <1>1, Names, ScreencastAssumption DEF ScreencastInv, ScreencastTypeOK, LineInv, OpWorks,
        Leaves, Goes, session, counts, registry, encoder, watching
<1>3. LockInv'
    BY <1>1, Names DEF ScreencastInv, LockInv, OpWorks, Leaves, Goes
<1>4. EncoderInv'
    BY <1>1, Names DEF ScreencastInv, EncoderInv, OpWorks, Leaves, Goes, encoder, watching
<1>5. ViewersInv'
    BY <1>1, Names DEF ScreencastInv, ScreencastTypeOK, ViewersInv, OpWorks, Leaves, Goes,
        session, counts, registry, watching
<1>6. PageInv'
    BY <1>1, Names DEF ScreencastInv, PageInv, OpWorks, Leaves, Goes, session, encoder, watching
<1>7. QED BY <1>1, <1>2, <1>3, <1>4, <1>5, <1>6 DEF ScreencastInv

(* SessionClosedEvent is published once the gate is closed.                 *)
LEMMA ClosePublishedKeeps ==
    ASSUME ScreencastInv, ClosePublished
    PROVE  ScreencastInv'
<1>1. LineInv' /\ pc' \in [Tasks -> AllPcs]
    <2>1. /\ \A t \in Tasks : pc'[t] \in Lining <=> pc[t] \in Lining
          /\ \A t \in Tasks : pc'[t] \in Holding => pc[t] \in Holding \/ Owner(t)
          /\ line' = line /\ gate' = gate /\ pc' \in [Tasks -> AllPcs]
        BY Names DEF LockInv, ScreencastInv, ClosePublished
    <2>2. QED BY <2>1, LineStays DEF ScreencastInv
<1>2. ScreencastTypeOK'
    BY <1>1, Names, ScreencastAssumption DEF ScreencastInv, ScreencastTypeOK, ClosePublished,
        Publish, counts, registry, encoder
<1>3. LockInv'
    BY <1>1, Names DEF ScreencastInv, LockInv, ClosePublished
<1>4. EncoderInv'
    BY <1>1, Names DEF ScreencastInv, EncoderInv, ClosePublished, encoder
<1>5. ViewersInv'
    BY <1>1, Names DEF ScreencastInv, ViewersInv, ClosePublished, counts, registry
<1>6. PageInv'
    BY <1>1, Names DEF ScreencastInv, PageInv, ClosePublished
<1>7. QED BY <1>1, <1>2, <1>3, <1>4, <1>5, <1>6 DEF ScreencastInv

(* The start failed: with no other viewer the watcher goes too.             *)
LEMMA StartFailsKeeps ==
    ASSUME ScreencastInv, NEW v \in Viewers, StartFails(v)
    PROVE  ScreencastInv'
<1>1. LeavesWatch(v, "dropping", viewers = {}) /\ gate' = gate /\ (viewers = {}) \in BOOLEAN
    BY DEF StartFails, session
<1>2. "dropping" \in AllPcs /\ "dropping" \notin Lining
    BY DEF LeavePcs, AllPcs, Lining
<1>3. LineInv'
    BY <1>1, <1>2, LineLeftWatch DEF ScreencastInv
<1>4. /\ sub' \in BOOLEAN /\ events' \in Seq({"recovered", "closed"})
      /\ want' \in Pages \cup {None}
      /\ viewers = {} => ~sub' /\ events' = <<>> /\ want' = None /\ pc'["watch"] = "none"
      /\ ~(viewers = {}) => sub' = sub /\ events' = events /\ want' = want /\ pc'["watch"] = pc["watch"]
      /\ pc' \in [Tasks -> AllPcs] /\ pc'[v] = "dropping"
      /\ \A t \in Tasks \ {v, "watch"} : pc'[t] = pc[t]
    BY <1>1, <1>2, WatchLeft DEF ScreencastInv
<1>5. /\ started' \in BOOLEAN /\ registered' \in BOOLEAN /\ cutShort' \in BOOLEAN
      /\ told' \in BOOLEAN /\ gone' \in BOOLEAN
    BY Zenon DEF StartFails, session, counts, registry, encoder, ScreencastInv, ScreencastTypeOK
<1>6. ScreencastTypeOK'
    <2>1. \A w \in Viewers : pc'[w] \in {"away", "showing"} \cup AddPcs \cup LeavePcs
        BY <1>3, <1>4, Names DEF ScreencastInv, ScreencastTypeOK, LeavePcs, Lining, Holding,
            Viewing
    <2>2. /\ pc'["op"] \in {"away", "lining", "moving", "stopping", "starting"}
          /\ pc'["watch"] \in WatchPcs
        BY <1>3, <1>4, Names DEF ScreencastInv, ScreencastTypeOK, WatchPcs
    <2>3. lock' \in Tasks \cup {"free"} /\ (lock' = "free" => (started' <=> bound' # None))
        BY <1>3, <1>4, <1>5, Names DEF StartFails, encoder, ScreencastInv, EncoderInv
    <2>4. /\ page' \in Pages /\ dead' \subseteq Pages /\ bound' \in Pages \cup {None}
          /\ casting' \subseteq Pages /\ want' \in Pages \cup {None}
          /\ events' \in Seq({"recovered", "closed"})
          /\ gate' \in {"open", "closing", "closed"}
          /\ pending' \cup cancelled' \cup viewers' \cup ended' \subseteq Viewers
        BY <1>3, <1>4, Names DEF StartFails, session, registry, encoder, ScreencastInv,
            ScreencastTypeOK
    <2>5. ops' \in 0..MaxOps /\ visits' \in 0..MaxVisits
        BY Names DEF StartFails, counts, ScreencastInv, ScreencastTypeOK
    <2>6. QED BY <1>3, <1>4, <1>5, <2>1, <2>2, <2>3, <2>4, <2>5 DEF LineInv, ScreencastTypeOK
<1>7. LockInv'
    BY <1>4, Names DEF StartFails, ScreencastInv, LockInv
<1>8. EncoderInv'
    BY <1>4, Names DEF StartFails, encoder, ScreencastInv, LockInv, EncoderInv
<1>9. ViewersInv'
    <2>1. \A w \in viewers' : pc'[w] \in Viewing \/ (cutShort' /\ pc'[w] \in {"dropping", "away"})
        <3>1. TAKE w \in viewers'
        <3>2. w \in Viewers /\ w \in Tasks /\ w # "op" /\ w # "watch"
            BY Names DEF StartFails, ScreencastInv, ScreencastTypeOK
        <3>3. QED BY <3>2, <1>4 DEF StartFails, counts, ScreencastInv, ViewersInv, Viewing
    <2>2. \A w \in Viewers : pc'[w] \in Viewing => w \in viewers'
        BY <1>4, Names DEF StartFails, ScreencastInv, ViewersInv, Viewing
    <2>3. \A w \in Viewers : pc'[w] = "stopping" => viewers' = {w}
        BY <1>4, Names DEF StartFails, ScreencastInv, LockInv
    <2>4. \A w \in Viewers : pc'[w] = "dousing" => viewers' = {}
        BY <1>4, Names DEF StartFails, ScreencastInv, LockInv
    <2>5. \A w \in Viewers : /\ pc'[w] \in {"falling", "dousing"} => gate' # "open"
                             /\ pc'[w] \in AddPcs => w \in pending'
        BY <1>4, Names DEF StartFails, session, registry, ScreencastInv, ViewersInv, AddPcs
    <2>6. \A w \in pending' : pc'[w] # "away"
        <3>1. TAKE w \in pending'
        <3>2. w \in Viewers /\ w \in Tasks /\ w # "op" /\ w # "watch"
            BY Names DEF StartFails, registry, ScreencastInv, ScreencastTypeOK
        <3>3. QED BY <3>2, <1>4 DEF StartFails, registry, ScreencastInv, ViewersInv
    <2>7. ~registered' => pending' = {} /\ viewers' = {}
        BY <1>4, Names DEF StartFails, registry, ScreencastInv, ViewersInv
    <2>8. registered' /\ ~cutShort' => \E w \in Viewers : pc'[w] # "away"
        BY <1>4, Names
    <2>9. viewers' = {} /\ ~cutShort' /\ (\A w \in Viewers : pc'[w] \notin {"starting", "dousing"})
            => ~sub'
        BY <1>4, Names DEF StartFails
    <2>10. QED BY <2>1, <2>2, <2>3, <2>4, <2>5, <2>6, <2>7, <2>8, <2>9 DEF ViewersInv
<1>10. PageInv'
    BY <1>4, Names DEF StartFails, session, encoder, ScreencastInv, EncoderInv, PageInv
<1>11. QED BY <1>3, <1>6, <1>7, <1>8, <1>9, <1>10 DEF ScreencastInv

(* The last viewer's stop is over: encoder, watcher and viewer go.          *)
LEMMA StopReturnsKeeps ==
    ASSUME ScreencastInv, NEW v \in Viewers, StopReturns(v)
    PROVE  ScreencastInv'
<1>1. LeavesWatch(v, "dropping", TRUE) /\ gate' = gate /\ (TRUE) \in BOOLEAN
    BY DEF StopReturns, session
<1>2. "dropping" \in AllPcs /\ "dropping" \notin Lining
    BY DEF LeavePcs, AllPcs, Lining
<1>3. LineInv'
    BY <1>1, <1>2, LineLeftWatch DEF ScreencastInv
<1>4. /\ sub' \in BOOLEAN /\ events' \in Seq({"recovered", "closed"})
      /\ want' \in Pages \cup {None}
      /\ TRUE => ~sub' /\ events' = <<>> /\ want' = None /\ pc'["watch"] = "none"
      /\ ~(TRUE) => sub' = sub /\ events' = events /\ want' = want /\ pc'["watch"] = pc["watch"]
      /\ pc' \in [Tasks -> AllPcs] /\ pc'[v] = "dropping"
      /\ \A t \in Tasks \ {v, "watch"} : pc'[t] = pc[t]
    BY <1>1, <1>2, WatchLeft DEF ScreencastInv
<1>5. /\ started' \in BOOLEAN /\ registered' \in BOOLEAN /\ cutShort' \in BOOLEAN
      /\ told' \in BOOLEAN /\ gone' \in BOOLEAN
    BY Zenon DEF StopReturns, Stopped, session, counts, registry, ScreencastInv, ScreencastTypeOK
<1>6. ScreencastTypeOK'
    <2>1. \A w \in Viewers : pc'[w] \in {"away", "showing"} \cup AddPcs \cup LeavePcs
        BY <1>3, <1>4, Names DEF ScreencastInv, ScreencastTypeOK, LeavePcs
    <2>2. /\ pc'["op"] \in {"away", "lining", "moving", "stopping", "starting"}
          /\ pc'["watch"] \in WatchPcs
        BY <1>3, <1>4, Names DEF ScreencastInv, ScreencastTypeOK, WatchPcs
    <2>3. lock' \in Tasks \cup {"free"} /\ (lock' = "free" => (started' <=> bound' # None))
        BY <1>3, <1>4, <1>5, Names DEF StopReturns, Stopped
    <2>4. /\ page' \in Pages /\ dead' \subseteq Pages /\ bound' \in Pages \cup {None}
          /\ casting' \subseteq Pages /\ want' \in Pages \cup {None}
          /\ events' \in Seq({"recovered", "closed"})
          /\ gate' \in {"open", "closing", "closed"}
          /\ pending' \cup cancelled' \cup viewers' \cup ended' \subseteq Viewers
        BY <1>3, <1>4, Names DEF StopReturns, Stopped, session, registry, ScreencastInv,
            ScreencastTypeOK
    <2>5. ops' \in 0..MaxOps /\ visits' \in 0..MaxVisits
        BY Names DEF StopReturns, counts, ScreencastInv, ScreencastTypeOK
    <2>6. QED BY <1>3, <1>4, <1>5, <2>1, <2>2, <2>3, <2>4, <2>5 DEF LineInv, ScreencastTypeOK
<1>7. LockInv'
    BY <1>4, Names DEF StopReturns, ScreencastInv, LockInv
<1>8. EncoderInv'
    BY <1>4, Names DEF StopReturns, Stopped, ScreencastInv, LockInv, EncoderInv
<1>9. ViewersInv'
    <2>1. \A w \in viewers' : pc'[w] \in Viewing \/ (cutShort' /\ pc'[w] \in {"dropping", "away"})
        <3>1. TAKE w \in viewers'
        <3>2. w \in Viewers /\ w \in Tasks /\ w # "op" /\ w # "watch"
            BY Names DEF StopReturns, ScreencastInv, ScreencastTypeOK
        <3>3. QED BY <3>2, <1>4 DEF StopReturns, ScreencastInv, ViewersInv
    <2>2. \A w \in Viewers : pc'[w] \in Viewing => w \in viewers'
        BY <1>4, Names DEF StopReturns, ScreencastInv, ViewersInv, Viewing
    <2>3. \A w \in Viewers : pc'[w] = "stopping" => viewers' = {w}
        BY <1>4, Names DEF StopReturns, ScreencastInv, LockInv
    <2>4. \A w \in Viewers : pc'[w] = "dousing" => viewers' = {}
        BY <1>4, Names DEF StopReturns, ScreencastInv, LockInv
    <2>5. \A w \in Viewers : /\ pc'[w] \in {"falling", "dousing"} => gate' # "open"
                             /\ pc'[w] \in AddPcs => w \in pending'
        BY <1>4, Names DEF StopReturns, session, registry, ScreencastInv, ViewersInv, AddPcs
    <2>6. \A w \in pending' : pc'[w] # "away"
        <3>1. TAKE w \in pending'
        <3>2. w \in Viewers /\ w \in Tasks /\ w # "op" /\ w # "watch"
            BY Names DEF StopReturns, registry, ScreencastInv, ScreencastTypeOK
        <3>3. QED BY <3>2, <1>4 DEF StopReturns, registry, ScreencastInv, ViewersInv
    <2>7. ~registered' => pending' = {} /\ viewers' = {}
        BY <1>4, Names DEF StopReturns, registry, ScreencastInv, ViewersInv
    <2>8. registered' /\ ~cutShort' => \E w \in Viewers : pc'[w] # "away"
        BY <1>4, Names
    <2>9. viewers' = {} /\ ~cutShort' /\ (\A w \in Viewers : pc'[w] \notin {"starting", "dousing"})
            => ~sub'
        BY <1>4, Names
    <2>10. QED BY <2>1, <2>2, <2>3, <2>4, <2>5, <2>6, <2>7, <2>8, <2>9 DEF ViewersInv
<1>10. PageInv'
    BY <1>4, Names DEF StopReturns, Stopped, PageInv
<1>11. QED BY <1>3, <1>6, <1>7, <1>8, <1>9, <1>10 DEF ScreencastInv

(* The fallback's stop is over, and the watcher goes with it.               *)
LEMMA FallbackStoppedKeeps ==
    ASSUME ScreencastInv, NEW v \in Viewers, FallbackStopped(v)
    PROVE  ScreencastInv'
<1>1. LeavesWatch(v, "dropping", TRUE) /\ gate' = gate /\ (TRUE) \in BOOLEAN
    BY DEF FallbackStopped, session
<1>2. "dropping" \in AllPcs /\ "dropping" \notin Lining
    BY DEF LeavePcs, AllPcs, Lining
<1>3. LineInv'
    BY <1>1, <1>2, LineLeftWatch DEF ScreencastInv
<1>4. /\ sub' \in BOOLEAN /\ events' \in Seq({"recovered", "closed"})
      /\ want' \in Pages \cup {None}
      /\ TRUE => ~sub' /\ events' = <<>> /\ want' = None /\ pc'["watch"] = "none"
      /\ ~(TRUE) => sub' = sub /\ events' = events /\ want' = want /\ pc'["watch"] = pc["watch"]
      /\ pc' \in [Tasks -> AllPcs] /\ pc'[v] = "dropping"
      /\ \A t \in Tasks \ {v, "watch"} : pc'[t] = pc[t]
    BY <1>1, <1>2, WatchLeft DEF ScreencastInv
<1>5. /\ started' \in BOOLEAN /\ registered' \in BOOLEAN /\ cutShort' \in BOOLEAN
      /\ told' \in BOOLEAN /\ gone' \in BOOLEAN
    BY Zenon DEF FallbackStopped, session, counts, registry, encoder, ScreencastInv,
        ScreencastTypeOK
<1>6. ScreencastTypeOK'
    <2>1. \A w \in Viewers : pc'[w] \in {"away", "showing"} \cup AddPcs \cup LeavePcs
        BY <1>3, <1>4, Names DEF ScreencastInv, ScreencastTypeOK, LeavePcs
    <2>2. /\ pc'["op"] \in {"away", "lining", "moving", "stopping", "starting"}
          /\ pc'["watch"] \in WatchPcs
        BY <1>3, <1>4, Names DEF ScreencastInv, ScreencastTypeOK, WatchPcs
    <2>3. lock' \in Tasks \cup {"free"} /\ (lock' = "free" => (started' <=> bound' # None))
        BY <1>3, <1>4, <1>5, Names DEF FallbackStopped, encoder, ScreencastInv, EncoderInv
    <2>4. /\ page' \in Pages /\ dead' \subseteq Pages /\ bound' \in Pages \cup {None}
          /\ casting' \subseteq Pages /\ want' \in Pages \cup {None}
          /\ events' \in Seq({"recovered", "closed"})
          /\ gate' \in {"open", "closing", "closed"}
          /\ pending' \cup cancelled' \cup viewers' \cup ended' \subseteq Viewers
        BY <1>3, <1>4, Names DEF FallbackStopped, session, registry, encoder, ScreencastInv,
            ScreencastTypeOK
    <2>5. ops' \in 0..MaxOps /\ visits' \in 0..MaxVisits
        BY Names DEF FallbackStopped, counts, ScreencastInv, ScreencastTypeOK
    <2>6. QED BY <1>3, <1>4, <1>5, <2>1, <2>2, <2>3, <2>4, <2>5 DEF LineInv, ScreencastTypeOK
<1>7. LockInv'
    BY <1>4, Names DEF FallbackStopped, ScreencastInv, LockInv
<1>8. EncoderInv'
    BY <1>4, Names DEF FallbackStopped, encoder, ScreencastInv, LockInv, EncoderInv
<1>9. ViewersInv'
    <2>1. \A w \in viewers' : pc'[w] \in Viewing \/ (cutShort' /\ pc'[w] \in {"dropping", "away"})
        <3>1. TAKE w \in viewers'
        <3>2. w \in Viewers /\ w \in Tasks /\ w # "op" /\ w # "watch"
            BY Names DEF FallbackStopped, ScreencastInv, ScreencastTypeOK
        <3>3. QED BY <3>2, <1>4 DEF FallbackStopped, ScreencastInv, ViewersInv
    <2>2. \A w \in Viewers : pc'[w] \in Viewing => w \in viewers'
        BY <1>4, Names DEF FallbackStopped, ScreencastInv, ViewersInv, Viewing
    <2>3. \A w \in Viewers : pc'[w] = "stopping" => viewers' = {w}
        BY <1>4, Names DEF FallbackStopped, ScreencastInv, LockInv
    <2>4. \A w \in Viewers : pc'[w] = "dousing" => viewers' = {}
        BY <1>4, Names DEF FallbackStopped, ScreencastInv, ViewersInv
    <2>5. \A w \in Viewers : /\ pc'[w] \in {"falling", "dousing"} => gate' # "open"
                             /\ pc'[w] \in AddPcs => w \in pending'
        BY <1>4, Names DEF FallbackStopped, session, registry, ScreencastInv, ViewersInv, AddPcs
    <2>6. \A w \in pending' : pc'[w] # "away"
        <3>1. TAKE w \in pending'
        <3>2. w \in Viewers /\ w \in Tasks /\ w # "op" /\ w # "watch"
            BY Names DEF FallbackStopped, registry, ScreencastInv, ScreencastTypeOK
        <3>3. QED BY <3>2, <1>4 DEF FallbackStopped, registry, ScreencastInv, ViewersInv
    <2>7. ~registered' => pending' = {} /\ viewers' = {}
        BY <1>4, Names DEF FallbackStopped, registry, ScreencastInv, ViewersInv
    <2>8. registered' /\ ~cutShort' => \E w \in Viewers : pc'[w] # "away"
        BY <1>4, Names
    <2>9. viewers' = {} /\ ~cutShort' /\ (\A w \in Viewers : pc'[w] \notin {"starting", "dousing"})
            => ~sub'
        BY <1>4, Names
    <2>10. QED BY <2>1, <2>2, <2>3, <2>4, <2>5, <2>6, <2>7, <2>8, <2>9 DEF ViewersInv
<1>10. PageInv'
    BY <1>4, Names DEF FallbackStopped, encoder, ScreencastInv, EncoderInv, PageInv
<1>11. QED BY <1>3, <1>6, <1>7, <1>8, <1>9, <1>10 DEF ScreencastInv

(* The last viewer takes the lock to stop; any other just goes.             *)
LEMMA RemoveRunsKeeps ==
    ASSUME ScreencastInv, NEW v \in Viewers, RemoveRuns(v)
    PROVE  ScreencastInv'
<1>1. CASE viewers # {v} \/ ~started
    <2>1. LeavesWatch(v, "dropping", viewers = {v}) /\ gate' = gate /\ (viewers = {v}) \in BOOLEAN
        BY <1>1 DEF RemoveRuns, session
    <2>2. "dropping" \in AllPcs /\ "dropping" \notin Lining
        BY DEF LeavePcs, AllPcs, Lining
    <2>3. LineInv'
        BY <2>1, <2>2, LineLeftWatch DEF ScreencastInv
    <2>4. /\ sub' \in BOOLEAN /\ events' \in Seq({"recovered", "closed"})
          /\ want' \in Pages \cup {None}
          /\ viewers = {v} => ~sub' /\ events' = <<>> /\ want' = None /\ pc'["watch"] = "none"
          /\ ~(viewers = {v}) => /\ sub' = sub /\ events' = events /\ want' = want
                                 /\ pc'["watch"] = pc["watch"]
          /\ pc' \in [Tasks -> AllPcs] /\ pc'[v] = "dropping"
          /\ \A t \in Tasks \ {v, "watch"} : pc'[t] = pc[t]
        BY <2>1, <2>2, WatchLeft DEF ScreencastInv
    <2>5. /\ started' \in BOOLEAN /\ registered' \in BOOLEAN /\ cutShort' \in BOOLEAN
          /\ told' \in BOOLEAN /\ gone' \in BOOLEAN
        BY <1>1, Zenon DEF RemoveRuns, session, counts, registry, encoder, ScreencastInv,
            ScreencastTypeOK
    <2>6. ScreencastTypeOK'
        <3>1. \A w \in Viewers : pc'[w] \in {"away", "showing"} \cup AddPcs \cup LeavePcs
            BY <1>1, <2>3, <2>4, Names DEF ScreencastInv, ScreencastTypeOK, LeavePcs
        <3>2. /\ pc'["op"] \in {"away", "lining", "moving", "stopping", "starting"}
              /\ pc'["watch"] \in WatchPcs
            BY <1>1, <2>3, <2>4, Names DEF ScreencastInv, ScreencastTypeOK, WatchPcs
        <3>3. lock' \in Tasks \cup {"free"} /\ (lock' = "free" => (started' <=> bound' # None))
            BY <1>1, <2>3, <2>4, <2>5, Names DEF RemoveRuns, encoder, ScreencastInv,
                ScreencastTypeOK
        <3>4. /\ page' \in Pages /\ dead' \subseteq Pages /\ bound' \in Pages \cup {None}
              /\ casting' \subseteq Pages /\ want' \in Pages \cup {None}
              /\ events' \in Seq({"recovered", "closed"})
              /\ gate' \in {"open", "closing", "closed"}
              /\ pending' \cup cancelled' \cup viewers' \cup ended' \subseteq Viewers
            BY <1>1, <2>3, <2>4, Names DEF RemoveRuns, session, registry, encoder, ScreencastInv,
                ScreencastTypeOK
        <3>5. ops' \in 0..MaxOps /\ visits' \in 0..MaxVisits
            BY <1>1, Names DEF RemoveRuns, counts, ScreencastInv, ScreencastTypeOK
        <3>6. QED BY <2>3, <2>4, <2>5, <3>1, <3>2, <3>3, <3>4, <3>5 DEF LineInv, ScreencastTypeOK
    <2>7. LockInv'
        BY <1>1, <2>4, Names DEF RemoveRuns, ScreencastInv, LockInv
    <2>8. EncoderInv'
        BY <1>1, <2>4, Names DEF RemoveRuns, encoder, ScreencastInv, LockInv, EncoderInv
    <2>9. ViewersInv'
        <3>1. \A w \in viewers' : pc'[w] \in Viewing \/ (cutShort' /\ pc'[w] \in {"dropping", "away"})
            <4>1. TAKE w \in viewers'
            <4>2. w \in Viewers /\ w \in Tasks /\ w # "op" /\ w # "watch"
                BY <1>1, Names DEF RemoveRuns, ScreencastInv, ScreencastTypeOK
            <4>3. QED BY <1>1, <4>2, <2>4 DEF RemoveRuns, counts, ScreencastInv, ViewersInv
        <3>2. \A w \in Viewers : pc'[w] \in Viewing => w \in viewers'
            BY <1>1, <2>4, Names DEF RemoveRuns, ScreencastInv, ViewersInv, Viewing
        <3>3. \A w \in Viewers : pc'[w] = "stopping" => viewers' = {w}
            BY <1>1, <2>4, Names DEF RemoveRuns, ScreencastInv, LockInv
        <3>4. \A w \in Viewers : pc'[w] = "dousing" => viewers' = {}
            BY <1>1, <2>4, Names DEF RemoveRuns, ScreencastInv, LockInv
        <3>5. \A w \in Viewers : /\ pc'[w] \in {"falling", "dousing"} => gate' # "open"
                                 /\ pc'[w] \in AddPcs => w \in pending'
            BY <1>1, <2>4, Names DEF RemoveRuns, session, registry, ScreencastInv, ViewersInv,
                AddPcs
        <3>6. \A w \in pending' : pc'[w] # "away"
            <4>1. TAKE w \in pending'
            <4>2. w \in Viewers /\ w \in Tasks /\ w # "op" /\ w # "watch"
                BY <1>1, Names DEF RemoveRuns, registry, ScreencastInv, ScreencastTypeOK
            <4>3. QED BY <1>1, <4>2, <2>4 DEF RemoveRuns, registry, ScreencastInv, ViewersInv
        <3>7. ~registered' => pending' = {} /\ viewers' = {}
            BY <1>1, <2>4, Names DEF RemoveRuns, registry, ScreencastInv, ViewersInv
        <3>8. registered' /\ ~cutShort' => \E w \in Viewers : pc'[w] # "away"
            BY <1>1, <2>4, Names
        <3>9. viewers' = {} /\ ~cutShort' /\ (\A w \in Viewers : pc'[w] \notin {"starting", "dousing"})
                => ~sub'
            BY <1>1, <2>4, Names DEF RemoveRuns, counts, ScreencastInv, ViewersInv
        <3>10. QED BY <3>1, <3>2, <3>3, <3>4, <3>5, <3>6, <3>7, <3>8, <3>9 DEF ViewersInv
    <2>10. PageInv'
        BY <1>1, <2>4, Names DEF RemoveRuns, session, encoder, ScreencastInv, EncoderInv, PageInv
    <2>11. QED BY <2>3, <2>6, <2>7, <2>8, <2>9, <2>10 DEF ScreencastInv
<1>2. CASE viewers = {v} /\ started
    <2>1. line' = line /\ gate' = gate /\ pc' \in [Tasks -> AllPcs]
        BY <1>2, Names DEF RemoveRuns, Goes, session, ScreencastInv, LockInv, LeavePcs, AllPcs
    <2>2. /\ \A t \in Tasks : pc'[t] \in Lining <=> pc[t] \in Lining
          /\ \A t \in Tasks : pc'[t] \in Holding => pc[t] \in Holding \/ Owner(t)
        BY <1>2, Names DEF RemoveRuns, Goes, ScreencastInv, LockInv, Lining
    <2>3. LineInv' /\ pc' \in [Tasks -> AllPcs]
        BY <2>1, <2>2, LineStays DEF ScreencastInv
    <2>4. /\ started' \in BOOLEAN /\ registered' \in BOOLEAN /\ cutShort' \in BOOLEAN
          /\ sub' \in BOOLEAN /\ told' \in BOOLEAN /\ gone' \in BOOLEAN
        BY <1>2, Zenon DEF RemoveRuns, session, counts, registry, encoder, watching,
            ScreencastInv, ScreencastTypeOK
    <2>5. ScreencastTypeOK'
        <3>1. \A w \in Viewers : pc'[w] \in {"away", "showing"} \cup AddPcs \cup LeavePcs
            BY <1>2, <2>3, Names DEF RemoveRuns, Goes, ScreencastInv, ScreencastTypeOK, LeavePcs
        <3>2. /\ pc'["op"] \in {"away", "lining", "moving", "stopping", "starting"}
              /\ pc'["watch"] \in WatchPcs
            BY <1>2, <2>3, Names DEF RemoveRuns, Goes, ScreencastInv, ScreencastTypeOK
        <3>3. lock' \in Tasks \cup {"free"} /\ (lock' = "free" => (started' <=> bound' # None))
            BY <1>2, <2>3, <2>4, Names DEF RemoveRuns
        <3>4. /\ page' \in Pages /\ dead' \subseteq Pages /\ bound' \in Pages \cup {None}
              /\ casting' \subseteq Pages /\ want' \in Pages \cup {None}
              /\ events' \in Seq({"recovered", "closed"})
              /\ gate' \in {"open", "closing", "closed"}
              /\ pending' \cup cancelled' \cup viewers' \cup ended' \subseteq Viewers
            BY <1>2, <2>3, Names DEF RemoveRuns, session, registry, encoder, watching,
                ScreencastInv, ScreencastTypeOK
        <3>5. ops' \in 0..MaxOps /\ visits' \in 0..MaxVisits
            BY <1>2, Names DEF RemoveRuns, counts, ScreencastInv, ScreencastTypeOK
        <3>6. QED BY <2>3, <2>4, <3>1, <3>2, <3>3, <3>4, <3>5 DEF LineInv, ScreencastTypeOK
    <2>6. LockInv'
        BY <1>2, <2>3, Names DEF RemoveRuns, Goes, ScreencastInv, LockInv
    <2>7. EncoderInv'
        BY <1>2, <2>3, Names DEF RemoveRuns, Goes, encoder, watching, ScreencastInv, EncoderInv
    <2>8. ViewersInv'
        <3>1. \A w \in viewers' : pc'[w] \in Viewing \/ (cutShort' /\ pc'[w] \in {"dropping", "away"})
            <4>1. TAKE w \in viewers'
            <4>2. w \in Viewers /\ w \in Tasks /\ w # "op" /\ w # "watch"
                BY <1>2, Names DEF RemoveRuns
            <4>3. QED BY <1>2, <4>2, <2>3 DEF RemoveRuns, Goes, Viewing
        <3>2. \A w \in Viewers : pc'[w] \in Viewing => w \in viewers'
            BY <1>2, <2>3, Names DEF RemoveRuns, Goes, ScreencastInv, ViewersInv
        <3>3. \A w \in Viewers : pc'[w] = "stopping" => viewers' = {w}
            BY <1>2, <2>3, Names DEF RemoveRuns, Goes, ScreencastInv, LockInv
        <3>4. \A w \in Viewers : pc'[w] = "dousing" => viewers' = {}
            BY <1>2, <2>3, Names DEF RemoveRuns, Goes, ScreencastInv, LockInv
        <3>5. \A w \in Viewers : /\ pc'[w] \in {"falling", "dousing"} => gate' # "open"
                                 /\ pc'[w] \in AddPcs => w \in pending'
            BY <1>2, <2>3, Names DEF RemoveRuns, Goes, session, registry, ScreencastInv,
                ViewersInv, AddPcs
        <3>6. \A w \in pending' : pc'[w] # "away"
            <4>1. TAKE w \in pending'
            <4>2. w \in Viewers /\ w \in Tasks /\ w # "op" /\ w # "watch"
                BY <1>2, Names DEF RemoveRuns, registry, ScreencastInv, ScreencastTypeOK
            <4>3. QED BY <1>2, <4>2, <2>3 DEF RemoveRuns, Goes, registry, ScreencastInv,
                    ViewersInv
        <3>7. ~registered' => pending' = {} /\ viewers' = {}
            BY <1>2, <2>3, Names DEF RemoveRuns, registry, ScreencastInv, ViewersInv
        <3>8. registered' /\ ~cutShort' => \E w \in Viewers : pc'[w] # "away"
            BY <1>2, <2>3, Names DEF RemoveRuns, Goes
        <3>9. viewers' = {} /\ ~cutShort' /\ (\A w \in Viewers : pc'[w] \notin {"starting", "dousing"})
                => ~sub'
            BY <1>2, <2>3, Names DEF RemoveRuns
        <3>10. QED BY <3>1, <3>2, <3>3, <3>4, <3>5, <3>6, <3>7, <3>8, <3>9 DEF ViewersInv
    <2>9. PageInv'
        BY <1>2, <2>3, Names DEF RemoveRuns, Goes, session, encoder, watching, ScreencastInv,
            PageInv
    <2>10. QED BY <2>3, <2>5, <2>6, <2>7, <2>8, <2>9 DEF ScreencastInv
<1>3. QED BY <1>1, <1>2

(* remove_viewer after the close: under the lock alone.                     *)
LEMMA FallsBackKeeps ==
    ASSUME ScreencastInv, NEW v \in Viewers, FallsBack(v)
    PROVE  ScreencastInv'
<1>1. CASE viewers # {v} \/ ~started
    <2>1. LeavesWatch(v, "dropping", viewers = {v}) /\ gate' = gate /\ (viewers = {v}) \in BOOLEAN
        BY <1>1 DEF FallsBack, session
    <2>2. "dropping" \in AllPcs /\ "dropping" \notin Lining
        BY DEF LeavePcs, AllPcs, Lining
    <2>3. LineInv'
        BY <2>1, <2>2, LineLeftWatch DEF ScreencastInv
    <2>4. /\ sub' \in BOOLEAN /\ events' \in Seq({"recovered", "closed"})
          /\ want' \in Pages \cup {None}
          /\ viewers = {v} => ~sub' /\ events' = <<>> /\ want' = None /\ pc'["watch"] = "none"
          /\ ~(viewers = {v}) => /\ sub' = sub /\ events' = events /\ want' = want
                                 /\ pc'["watch"] = pc["watch"]
          /\ pc' \in [Tasks -> AllPcs] /\ pc'[v] = "dropping"
          /\ \A t \in Tasks \ {v, "watch"} : pc'[t] = pc[t]
        BY <2>1, <2>2, WatchLeft DEF ScreencastInv
    <2>5. /\ started' \in BOOLEAN /\ registered' \in BOOLEAN /\ cutShort' \in BOOLEAN
          /\ told' \in BOOLEAN /\ gone' \in BOOLEAN
        BY <1>1, Zenon DEF FallsBack, session, counts, registry, encoder, ScreencastInv,
            ScreencastTypeOK
    <2>6. ScreencastTypeOK'
        <3>1. \A w \in Viewers : pc'[w] \in {"away", "showing"} \cup AddPcs \cup LeavePcs
            BY <1>1, <2>3, <2>4, Names DEF ScreencastInv, ScreencastTypeOK, LeavePcs
        <3>2. /\ pc'["op"] \in {"away", "lining", "moving", "stopping", "starting"}
              /\ pc'["watch"] \in WatchPcs
            BY <1>1, <2>3, <2>4, Names DEF ScreencastInv, ScreencastTypeOK, WatchPcs
        <3>3. lock' \in Tasks \cup {"free"} /\ (lock' = "free" => (started' <=> bound' # None))
            BY <1>1, <2>3, <2>4, <2>5, Names DEF FallsBack, encoder, ScreencastInv,
                ScreencastTypeOK
        <3>4. /\ page' \in Pages /\ dead' \subseteq Pages /\ bound' \in Pages \cup {None}
              /\ casting' \subseteq Pages /\ want' \in Pages \cup {None}
              /\ events' \in Seq({"recovered", "closed"})
              /\ gate' \in {"open", "closing", "closed"}
              /\ pending' \cup cancelled' \cup viewers' \cup ended' \subseteq Viewers
            BY <1>1, <2>3, <2>4, Names DEF FallsBack, session, registry, encoder, ScreencastInv,
                ScreencastTypeOK
        <3>5. ops' \in 0..MaxOps /\ visits' \in 0..MaxVisits
            BY <1>1, Names DEF FallsBack, counts, ScreencastInv, ScreencastTypeOK
        <3>6. QED BY <2>3, <2>4, <2>5, <3>1, <3>2, <3>3, <3>4, <3>5 DEF LineInv, ScreencastTypeOK
    <2>7. LockInv'
        BY <1>1, <2>4, Names DEF FallsBack, ScreencastInv, LockInv
    <2>8. EncoderInv'
        BY <1>1, <2>4, Names DEF FallsBack, encoder, ScreencastInv, LockInv, EncoderInv
    <2>9. ViewersInv'
        <3>1. \A w \in viewers' : pc'[w] \in Viewing \/ (cutShort' /\ pc'[w] \in {"dropping", "away"})
            <4>1. TAKE w \in viewers'
            <4>2. w \in Viewers /\ w \in Tasks /\ w # "op" /\ w # "watch"
                BY <1>1, Names DEF FallsBack, ScreencastInv, ScreencastTypeOK
            <4>3. QED BY <1>1, <4>2, <2>4 DEF FallsBack, counts, ScreencastInv, ViewersInv
        <3>2. \A w \in Viewers : pc'[w] \in Viewing => w \in viewers'
            BY <1>1, <2>4, Names DEF FallsBack, ScreencastInv, ViewersInv, Viewing
        <3>3. \A w \in Viewers : pc'[w] = "stopping" => viewers' = {w}
            BY <1>1, <2>4, Names DEF FallsBack, ScreencastInv, LockInv
        <3>4. \A w \in Viewers : pc'[w] = "dousing" => viewers' = {}
            BY <1>1, <2>4, Names DEF FallsBack, ScreencastInv, LockInv
        <3>5. \A w \in Viewers : /\ pc'[w] \in {"falling", "dousing"} => gate' # "open"
                                 /\ pc'[w] \in AddPcs => w \in pending'
            BY <1>1, <2>4, Names DEF FallsBack, session, registry, ScreencastInv, ViewersInv,
                AddPcs
        <3>6. \A w \in pending' : pc'[w] # "away"
            <4>1. TAKE w \in pending'
            <4>2. w \in Viewers /\ w \in Tasks /\ w # "op" /\ w # "watch"
                BY <1>1, Names DEF FallsBack, registry, ScreencastInv, ScreencastTypeOK
            <4>3. QED BY <1>1, <4>2, <2>4 DEF FallsBack, registry, ScreencastInv, ViewersInv
        <3>7. ~registered' => pending' = {} /\ viewers' = {}
            BY <1>1, <2>4, Names DEF FallsBack, registry, ScreencastInv, ViewersInv
        <3>8. registered' /\ ~cutShort' => \E w \in Viewers : pc'[w] # "away"
            BY <1>1, <2>4, Names
        <3>9. viewers' = {} /\ ~cutShort' /\ (\A w \in Viewers : pc'[w] \notin {"starting", "dousing"})
                => ~sub'
            BY <1>1, <2>4, Names DEF FallsBack, counts, ScreencastInv, ViewersInv
        <3>10. QED BY <3>1, <3>2, <3>3, <3>4, <3>5, <3>6, <3>7, <3>8, <3>9 DEF ViewersInv
    <2>10. PageInv'
        BY <1>1, <2>4, Names DEF FallsBack, session, encoder, ScreencastInv, EncoderInv, PageInv
    <2>11. QED BY <2>3, <2>6, <2>7, <2>8, <2>9, <2>10 DEF ScreencastInv
<1>2. CASE viewers = {v} /\ started
    <2>1. line' = line /\ gate' = gate /\ pc' \in [Tasks -> AllPcs]
        BY <1>2, Names DEF FallsBack, Goes, session, ScreencastInv, LockInv, LeavePcs, AllPcs
    <2>2. /\ \A t \in Tasks : pc'[t] \in Lining <=> pc[t] \in Lining
          /\ \A t \in Tasks : pc'[t] \in Holding => pc[t] \in Holding \/ Owner(t)
        BY <1>2, Names DEF FallsBack, Goes, ScreencastInv, LockInv, Lining, Holding
    <2>3. LineInv' /\ pc' \in [Tasks -> AllPcs]
        BY <2>1, <2>2, LineStays DEF ScreencastInv
    <2>4. /\ started' \in BOOLEAN /\ registered' \in BOOLEAN /\ cutShort' \in BOOLEAN
          /\ sub' \in BOOLEAN /\ told' \in BOOLEAN /\ gone' \in BOOLEAN
        BY <1>2, Zenon DEF FallsBack, Stopped, session, counts, registry, watching, ScreencastInv,
            ScreencastTypeOK
    <2>5. ScreencastTypeOK'
        <3>1. \A w \in Viewers : pc'[w] \in {"away", "showing"} \cup AddPcs \cup LeavePcs
            BY <1>2, <2>3, Names DEF FallsBack, Goes, ScreencastInv, ScreencastTypeOK, LeavePcs
        <3>2. /\ pc'["op"] \in {"away", "lining", "moving", "stopping", "starting"}
              /\ pc'["watch"] \in WatchPcs
            BY <1>2, <2>3, Names DEF FallsBack, Goes, ScreencastInv, ScreencastTypeOK
        <3>3. lock' \in Tasks \cup {"free"} /\ (lock' = "free" => (started' <=> bound' # None))
            BY <1>2, <2>3, <2>4, Names DEF FallsBack
        <3>4. /\ page' \in Pages /\ dead' \subseteq Pages /\ bound' \in Pages \cup {None}
              /\ casting' \subseteq Pages /\ want' \in Pages \cup {None}
              /\ events' \in Seq({"recovered", "closed"})
              /\ gate' \in {"open", "closing", "closed"}
              /\ pending' \cup cancelled' \cup viewers' \cup ended' \subseteq Viewers
            BY <1>2, <2>3, Names DEF FallsBack, Stopped, session, registry, watching,
                ScreencastInv, ScreencastTypeOK
        <3>5. ops' \in 0..MaxOps /\ visits' \in 0..MaxVisits
            BY <1>2, Names DEF FallsBack, counts, ScreencastInv, ScreencastTypeOK
        <3>6. QED BY <2>3, <2>4, <3>1, <3>2, <3>3, <3>4, <3>5 DEF LineInv, ScreencastTypeOK
    <2>6. LockInv'
        BY <1>2, <2>3, Names DEF FallsBack, Goes, ScreencastInv, LockInv
    <2>7. EncoderInv'
        BY <1>2, <2>3, Names DEF FallsBack, Stopped, Goes, watching, ScreencastInv, EncoderInv
    <2>8. ViewersInv'
        <3>1. \A w \in viewers' : pc'[w] \in Viewing \/ (cutShort' /\ pc'[w] \in {"dropping", "away"})
            <4>1. TAKE w \in viewers'
            <4>2. w \in Viewers /\ w \in Tasks /\ w # "op" /\ w # "watch"
                BY <1>2, Names DEF FallsBack
            <4>3. QED BY <1>2, <4>2, <2>3 DEF FallsBack
        <3>2. \A w \in Viewers : pc'[w] \in Viewing => w \in viewers'
            BY <1>2, <2>3, Names DEF FallsBack, Goes, ScreencastInv, ViewersInv, Viewing
        <3>3. \A w \in Viewers : pc'[w] = "stopping" => viewers' = {w}
            BY <1>2, <2>3, Names DEF FallsBack, Goes, ScreencastInv, LockInv
        <3>4. \A w \in Viewers : pc'[w] = "dousing" => viewers' = {}
            BY <1>2, <2>3, Names DEF FallsBack
        <3>5. \A w \in Viewers : /\ pc'[w] \in {"falling", "dousing"} => gate' # "open"
                                 /\ pc'[w] \in AddPcs => w \in pending'
            BY <1>2, <2>3, Names DEF FallsBack, Goes, session, registry, ScreencastInv,
                ViewersInv, AddPcs
        <3>6. \A w \in pending' : pc'[w] # "away"
            <4>1. TAKE w \in pending'
            <4>2. w \in Viewers /\ w \in Tasks /\ w # "op" /\ w # "watch"
                BY <1>2, Names DEF FallsBack, registry, ScreencastInv, ScreencastTypeOK
            <4>3. QED BY <1>2, <4>2, <2>3 DEF FallsBack, Goes, registry, ScreencastInv, ViewersInv
        <3>7. ~registered' => pending' = {} /\ viewers' = {}
            BY <1>2, <2>3, Names DEF FallsBack, registry, ScreencastInv, ViewersInv
        <3>8. registered' /\ ~cutShort' => \E w \in Viewers : pc'[w] # "away"
            BY <1>2, <2>3, Names DEF FallsBack, Goes
        <3>9. viewers' = {} /\ ~cutShort' /\ (\A w \in Viewers : pc'[w] \notin {"starting", "dousing"})
                => ~sub'
            BY <1>2, <2>3, Names DEF FallsBack, Goes
        <3>10. QED BY <3>1, <3>2, <3>3, <3>4, <3>5, <3>6, <3>7, <3>8, <3>9 DEF ViewersInv
    <2>9. PageInv'
        BY <1>2, <2>3, Names DEF FallsBack, Stopped, Goes, session, watching, ScreencastInv,
            PageInv
    <2>10. QED BY <2>3, <2>5, <2>6, <2>7, <2>8, <2>9 DEF ScreencastInv
<1>3. QED BY <1>1, <1>2

(* A viewer joins a running encoder, or takes the lock to start it.         *)
LEMMA AddRunsKeeps ==
    ASSUME ScreencastInv, NEW v \in Viewers, AddRuns(v)
    PROVE  ScreencastInv'
<1>1. CASE started
    <2>1. Leaves(v, (IF v \in cancelled THEN "parting" ELSE "showing")) /\ gate' = gate
        BY <1>1, Names DEF AddRuns, Added, session
    <2>2. (IF v \in cancelled THEN "parting" ELSE "showing") \in AllPcs \ Lining
        BY DEF LeavePcs, AllPcs, Lining
    <2>3. LineInv' /\ pc' \in [Tasks -> AllPcs]
        BY <2>1, <2>2, Names, LineLeft DEF ScreencastInv
    <2>4. /\ started' \in BOOLEAN /\ registered' \in BOOLEAN /\ cutShort' \in BOOLEAN
          /\ sub' \in BOOLEAN /\ told' \in BOOLEAN /\ gone' \in BOOLEAN
        BY <1>1, Zenon DEF AddRuns, Added, session, counts, encoder, watching, ScreencastInv,
            ScreencastTypeOK
    <2>5. ScreencastTypeOK'
        <3>1. \A w \in Viewers : pc'[w] \in {"away", "showing"} \cup AddPcs \cup LeavePcs
            BY <1>1, <2>3, Names DEF AddRuns, Added, Leaves, Goes, ScreencastInv,
                ScreencastTypeOK, LeavePcs
        <3>2. /\ pc'["op"] \in {"away", "lining", "moving", "stopping", "starting"}
              /\ pc'["watch"] \in WatchPcs
            BY <1>1, <2>3, Names DEF AddRuns, Added, Leaves, Goes, ScreencastInv, ScreencastTypeOK
        <3>3. lock' \in Tasks \cup {"free"} /\ (lock' = "free" => (started' <=> bound' # None))
            BY <1>1, <2>3, <2>4, Names DEF AddRuns, encoder, ScreencastInv, ScreencastTypeOK
        <3>4. /\ page' \in Pages /\ dead' \subseteq Pages /\ bound' \in Pages \cup {None}
              /\ casting' \subseteq Pages /\ want' \in Pages \cup {None}
              /\ events' \in Seq({"recovered", "closed"})
              /\ gate' \in {"open", "closing", "closed"}
              /\ pending' \cup cancelled' \cup viewers' \cup ended' \subseteq Viewers
            BY <1>1, <2>3, Names DEF AddRuns, Added, session, encoder, watching, ScreencastInv,
                ScreencastTypeOK
        <3>5. ops' \in 0..MaxOps /\ visits' \in 0..MaxVisits
            BY <1>1, Names DEF AddRuns, counts, ScreencastInv, ScreencastTypeOK
        <3>6. QED BY <2>3, <2>4, <3>1, <3>2, <3>3, <3>4, <3>5 DEF LineInv, ScreencastTypeOK
    <2>6. LockInv'
        BY <1>1, <2>3, Names DEF AddRuns, Added, Leaves, Goes, ScreencastInv, LockInv
    <2>7. EncoderInv'
        BY <1>1, <2>3, Names DEF AddRuns, Added, Leaves, Goes, encoder, watching, ScreencastInv,
            EncoderInv
    <2>8. ViewersInv'
        <3>1. \A w \in viewers' : pc'[w] \in Viewing \/ (cutShort' /\ pc'[w] \in {"dropping", "away"})
            <4>1. TAKE w \in viewers'
            <4>2. w \in Viewers /\ w \in Tasks /\ w # "op" /\ w # "watch"
                BY <1>1, Names DEF AddRuns, Added, ScreencastInv, ScreencastTypeOK
            <4>3. QED BY <1>1, <4>2, <2>3 DEF AddRuns, Added, Leaves, Goes, counts, ScreencastInv,
                    ViewersInv, Viewing
        <3>2. \A w \in Viewers : pc'[w] \in Viewing => w \in viewers'
            BY <1>1, <2>3, Names DEF AddRuns, Added, Leaves, Goes, ScreencastInv, ViewersInv
        <3>3. \A w \in Viewers : pc'[w] = "stopping" => viewers' = {w}
            BY <1>1, <2>3, Names DEF AddRuns, Added, Leaves, Goes, ScreencastInv, LockInv
        <3>4. \A w \in Viewers : pc'[w] = "dousing" => viewers' = {}
            BY <1>1, <2>3, Names DEF AddRuns, Added, Leaves, Goes, ScreencastInv, LockInv
        <3>5. \A w \in Viewers : /\ pc'[w] \in {"falling", "dousing"} => gate' # "open"
                                 /\ pc'[w] \in AddPcs => w \in pending'
            BY <1>1, <2>3, Names DEF AddRuns, Added, Leaves, Goes, session, ScreencastInv,
                ViewersInv, AddPcs
        <3>6. \A w \in pending' : pc'[w] # "away"
            <4>1. TAKE w \in pending'
            <4>2. w \in Viewers /\ w \in Tasks /\ w # "op" /\ w # "watch"
                BY <1>1, Names DEF AddRuns, Added, ScreencastInv, ScreencastTypeOK
            <4>3. QED BY <1>1, <4>2, <2>3 DEF AddRuns, Added, Leaves, Goes, ScreencastInv,
                    ViewersInv
        <3>7. ~registered' => pending' = {} /\ viewers' = {}
            BY <1>1, <2>3, Names DEF AddRuns, Added, ScreencastInv, ViewersInv, AddPcs
        <3>8. registered' /\ ~cutShort' => \E w \in Viewers : pc'[w] # "away"
            BY <1>1, <2>3, Names DEF AddRuns, Added, Leaves, Goes
        <3>9. viewers' = {} /\ ~cutShort' /\ (\A w \in Viewers : pc'[w] \notin {"starting", "dousing"})
                => ~sub'
            BY <1>1, <2>3, Names DEF AddRuns, Added
        <3>10. QED BY <3>1, <3>2, <3>3, <3>4, <3>5, <3>6, <3>7, <3>8, <3>9 DEF ViewersInv
    <2>9. PageInv'
        BY <1>1, <2>3, Names DEF AddRuns, Added, Leaves, Goes, session, encoder, watching,
            ScreencastInv, PageInv
    <2>10. QED BY <2>3, <2>5, <2>6, <2>7, <2>8, <2>9 DEF ScreencastInv
<1>2. CASE ~started
    <2>1. line' = line /\ gate' = gate /\ pc' \in [Tasks -> AllPcs]
        BY <1>2, Names DEF AddRuns, Subscribes, session, ScreencastInv, LockInv, AddPcs, AllPcs
    <2>2. /\ \A t \in Tasks : pc'[t] \in Lining <=> pc[t] \in Lining
          /\ \A t \in Tasks : pc'[t] \in Holding => pc[t] \in Holding \/ Owner(t)
        BY <1>2, Names DEF AddRuns, Subscribes, ScreencastInv, LockInv, Lining, Holding
    <2>3. LineInv' /\ pc' \in [Tasks -> AllPcs]
        BY <2>1, <2>2, LineStays DEF ScreencastInv
    <2>4. /\ started' \in BOOLEAN /\ registered' \in BOOLEAN /\ cutShort' \in BOOLEAN
          /\ sub' \in BOOLEAN /\ told' \in BOOLEAN /\ gone' \in BOOLEAN
        BY <1>2, Zenon DEF AddRuns, Subscribes, session, counts, registry, encoder, ScreencastInv,
            ScreencastTypeOK
    <2>5. ScreencastTypeOK'
        <3>1. \A w \in Viewers : pc'[w] \in {"away", "showing"} \cup AddPcs \cup LeavePcs
            BY <1>2, <2>3, Names DEF AddRuns, Subscribes, ScreencastInv, ScreencastTypeOK, AddPcs
        <3>2. /\ pc'["op"] \in {"away", "lining", "moving", "stopping", "starting"}
              /\ pc'["watch"] \in WatchPcs
            BY <1>2, <2>3, Names DEF AddRuns, Subscribes, ScreencastInv, ScreencastTypeOK,
                WatchPcs
        <3>3. lock' \in Tasks \cup {"free"} /\ (lock' = "free" => (started' <=> bound' # None))
            BY <1>2, <2>3, <2>4, Names DEF AddRuns
        <3>4. /\ page' \in Pages /\ dead' \subseteq Pages /\ bound' \in Pages \cup {None}
              /\ casting' \subseteq Pages /\ want' \in Pages \cup {None}
              /\ events' \in Seq({"recovered", "closed"})
              /\ gate' \in {"open", "closing", "closed"}
              /\ pending' \cup cancelled' \cup viewers' \cup ended' \subseteq Viewers
            BY <1>2, <2>3, Names DEF AddRuns, Subscribes, session, registry, encoder,
                ScreencastInv, ScreencastTypeOK
        <3>5. ops' \in 0..MaxOps /\ visits' \in 0..MaxVisits
            BY <1>2, Names DEF AddRuns, counts, ScreencastInv, ScreencastTypeOK
        <3>6. QED BY <2>3, <2>4, <3>1, <3>2, <3>3, <3>4, <3>5 DEF LineInv, ScreencastTypeOK
    <2>6. LockInv'
        BY <1>2, <2>3, Names DEF AddRuns, Subscribes, ScreencastInv, LockInv
    <2>7. EncoderInv'
        BY <1>2, <2>3, Names DEF AddRuns, Subscribes, encoder, ScreencastInv, EncoderInv
    <2>8. ViewersInv'
        <3>1. \A w \in viewers' : pc'[w] \in Viewing \/ (cutShort' /\ pc'[w] \in {"dropping", "away"})
            <4>1. TAKE w \in viewers'
            <4>2. w \in Viewers /\ w \in Tasks /\ w # "op" /\ w # "watch"
                BY <1>2, Names DEF AddRuns, ScreencastInv, ScreencastTypeOK
            <4>3. QED BY <1>2, <4>2, <2>3 DEF AddRuns, Subscribes, counts, ScreencastInv,
                    ViewersInv, Viewing
        <3>2. \A w \in Viewers : pc'[w] \in Viewing => w \in viewers'
            BY <1>2, <2>3, Names DEF AddRuns, Subscribes, ScreencastInv, ViewersInv, Viewing
        <3>3. \A w \in Viewers : pc'[w] = "stopping" => viewers' = {w}
            BY <1>2, <2>3, Names DEF AddRuns, Subscribes, ScreencastInv, LockInv
        <3>4. \A w \in Viewers : pc'[w] = "dousing" => viewers' = {}
            BY <1>2, <2>3, Names DEF AddRuns, Subscribes, ScreencastInv, LockInv
        <3>5. \A w \in Viewers : /\ pc'[w] \in {"falling", "dousing"} => gate' # "open"
                                 /\ pc'[w] \in AddPcs => w \in pending'
            BY <1>2, <2>3, Names DEF AddRuns, Subscribes, session, registry, ScreencastInv,
                ViewersInv, AddPcs
        <3>6. \A w \in pending' : pc'[w] # "away"
            <4>1. TAKE w \in pending'
            <4>2. w \in Viewers /\ w \in Tasks /\ w # "op" /\ w # "watch"
                BY <1>2, Names DEF AddRuns, registry, ScreencastInv, ScreencastTypeOK
            <4>3. QED BY <1>2, <4>2, <2>3 DEF AddRuns, Subscribes, registry, ScreencastInv,
                    ViewersInv
        <3>7. ~registered' => pending' = {} /\ viewers' = {}
            BY <1>2, <2>3, Names DEF AddRuns, registry, ScreencastInv, ViewersInv
        <3>8. registered' /\ ~cutShort' => \E w \in Viewers : pc'[w] # "away"
            <4>1. pc'[v] = "starting"
                BY <1>2, Names DEF AddRuns, Subscribes, ScreencastInv, LockInv
            <4>2. QED BY <4>1
        <3>9. viewers' = {} /\ ~cutShort' /\ (\A w \in Viewers : pc'[w] \notin {"starting", "dousing"})
                => ~sub'
            BY <1>2, <2>3, Names DEF AddRuns, Subscribes
        <3>10. QED BY <3>1, <3>2, <3>3, <3>4, <3>5, <3>6, <3>7, <3>8, <3>9 DEF ViewersInv
    <2>9. PageInv'
        BY <1>2, <2>3, Names DEF AddRuns, Subscribes, session, encoder, ScreencastInv, PageInv
    <2>10. QED BY <2>3, <2>5, <2>6, <2>7, <2>8, <2>9 DEF ScreencastInv
<1>3. QED BY <1>1, <1>2

(* A rebind stops the old page's encoder, or finds nothing to move.         *)
LEMMA RebindKeeps ==
    ASSUME ScreencastInv, NEW r \in {"op", "watch"}, Rebind(r)
    PROVE  ScreencastInv'
<1>1. CASE started /\ viewers # {} /\ bound # Target(r)
    <2>1. line' = line /\ gate' = gate /\ pc' \in [Tasks -> AllPcs]
        BY <1>1, Names DEF Rebind, Goes, session, ScreencastInv, LockInv, LeavePcs, AllPcs
    <2>2. /\ \A t \in Tasks : pc'[t] \in Lining <=> pc[t] \in Lining
          /\ \A t \in Tasks : pc'[t] \in Holding => pc[t] \in Holding \/ Owner(t)
        BY <1>1, Names DEF Rebind, Goes, ScreencastInv, LockInv, Lining
    <2>3. LineInv' /\ pc' \in [Tasks -> AllPcs]
        BY <2>1, <2>2, LineStays DEF ScreencastInv
    <2>4. /\ started' \in BOOLEAN /\ registered' \in BOOLEAN /\ cutShort' \in BOOLEAN
          /\ sub' \in BOOLEAN /\ told' \in BOOLEAN /\ gone' \in BOOLEAN
        BY <1>1, Zenon DEF Rebind, session, counts, registry, ScreencastInv, ScreencastTypeOK
    <2>5. ScreencastTypeOK'
        <3>1. \A w \in Viewers : pc'[w] \in {"away", "showing"} \cup AddPcs \cup LeavePcs
            BY <1>1, <2>3, Names DEF Rebind, Goes, ScreencastInv, ScreencastTypeOK
        <3>2. /\ pc'["op"] \in {"away", "lining", "moving", "stopping", "starting"}
              /\ pc'["watch"] \in WatchPcs
            BY <1>1, <2>3, Names DEF Rebind, Goes, ScreencastInv, ScreencastTypeOK, WatchPcs
        <3>3. lock' \in Tasks \cup {"free"} /\ (lock' = "free" => (started' <=> bound' # None))
            BY <1>1, <2>3, <2>4, Names DEF Rebind
        <3>4. /\ page' \in Pages /\ dead' \subseteq Pages /\ bound' \in Pages \cup {None}
              /\ casting' \subseteq Pages /\ want' \in Pages \cup {None}
              /\ events' \in Seq({"recovered", "closed"})
              /\ gate' \in {"open", "closing", "closed"}
              /\ pending' \cup cancelled' \cup viewers' \cup ended' \subseteq Viewers
            BY <1>1, <2>3, Names DEF Rebind, Target, session, registry, ScreencastInv,
                ScreencastTypeOK, PageInv
        <3>5. ops' \in 0..MaxOps /\ visits' \in 0..MaxVisits
            BY <1>1, Names DEF Rebind, counts, ScreencastInv, ScreencastTypeOK
        <3>6. QED BY <2>3, <2>4, <3>1, <3>2, <3>3, <3>4, <3>5 DEF LineInv, ScreencastTypeOK
    <2>6. LockInv'
        BY <1>1, <2>3, Names DEF Rebind, Goes, ScreencastInv, LockInv
    <2>7. EncoderInv'
        BY <1>1, <2>3, Names DEF Rebind, Goes, ScreencastInv, EncoderInv
    <2>8. ViewersInv'
        <3>1. \A w \in viewers' : pc'[w] \in Viewing \/ (cutShort' /\ pc'[w] \in {"dropping", "away"})
            <4>1. TAKE w \in viewers'
            <4>2. w \in Viewers /\ w \in Tasks /\ w # "op" /\ w # "watch"
                BY <1>1, Names DEF Rebind, ScreencastInv, ScreencastTypeOK
            <4>3. QED BY <1>1, <4>2, <2>3 DEF Rebind, Goes, counts, ScreencastInv, ViewersInv
        <3>2. \A w \in Viewers : pc'[w] \in Viewing => w \in viewers'
            BY <1>1, <2>3, Names DEF Rebind, Goes, ScreencastInv, ViewersInv
        <3>3. \A w \in Viewers : pc'[w] = "stopping" => viewers' = {w}
            BY <1>1, <2>3, Names DEF Rebind, Goes, ScreencastInv, LockInv
        <3>4. \A w \in Viewers : pc'[w] = "dousing" => viewers' = {}
            BY <1>1, <2>3, Names DEF Rebind, Goes, ScreencastInv, LockInv
        <3>5. \A w \in Viewers : /\ pc'[w] \in {"falling", "dousing"} => gate' # "open"
                                 /\ pc'[w] \in AddPcs => w \in pending'
            BY <1>1, <2>3, Names DEF Rebind, Goes, session, registry, ScreencastInv, ViewersInv
        <3>6. \A w \in pending' : pc'[w] # "away"
            <4>1. TAKE w \in pending'
            <4>2. w \in Viewers /\ w \in Tasks /\ w # "op" /\ w # "watch"
                BY <1>1, Names DEF Rebind, registry, ScreencastInv, ScreencastTypeOK
            <4>3. QED BY <1>1, <4>2, <2>3 DEF Rebind, Goes, registry, ScreencastInv, ViewersInv
        <3>7. ~registered' => pending' = {} /\ viewers' = {}
            BY <1>1, <2>3, Names DEF Rebind, registry, ScreencastInv, ViewersInv
        <3>8. registered' /\ ~cutShort' => \E w \in Viewers : pc'[w] # "away"
            BY <1>1, <2>3, Names DEF Rebind, Goes, counts, ScreencastInv, ViewersInv
        <3>9. viewers' = {} /\ ~cutShort' /\ (\A w \in Viewers : pc'[w] \notin {"starting", "dousing"})
                => ~sub'
            BY <1>1, <2>3, Names DEF Rebind
        <3>10. QED BY <3>1, <3>2, <3>3, <3>4, <3>5, <3>6, <3>7, <3>8, <3>9 DEF ViewersInv
    <2>9. PageInv'
        BY <1>1, <2>3, Names DEF Rebind, Goes, session, ScreencastInv, PageInv
    <2>10. QED BY <2>3, <2>5, <2>6, <2>7, <2>8, <2>9 DEF ScreencastInv
<1>2. CASE ~(started /\ viewers # {} /\ bound # Target(r))
    <2>1. Leaves(r, Rest(r)) /\ gate' = gate
        BY <1>2, Names DEF Rebind, session
    <2>2. Rest(r) \in AllPcs /\ Rest(r) \notin Lining
        BY DEF Rest, AllPcs, Lining
    <2>3. LineInv' /\ pc' \in [Tasks -> AllPcs]
        BY <2>1, <2>2, Names, LineLeft DEF ScreencastInv
    <2>4. /\ started' \in BOOLEAN /\ registered' \in BOOLEAN /\ cutShort' \in BOOLEAN
          /\ sub' \in BOOLEAN /\ told' \in BOOLEAN /\ gone' \in BOOLEAN
        BY <1>2, Zenon DEF Rebind, session, counts, registry, ScreencastInv, ScreencastTypeOK
    <2>5. ScreencastTypeOK'
        <3>1. \A w \in Viewers : pc'[w] \in {"away", "showing"} \cup AddPcs \cup LeavePcs
            BY <1>2, <2>3, Names DEF Rebind, Leaves, Goes, ScreencastInv, ScreencastTypeOK
        <3>2. /\ pc'["op"] \in {"away", "lining", "moving", "stopping", "starting"}
              /\ pc'["watch"] \in WatchPcs
            BY <1>2, <2>3, Names DEF Rebind, Leaves, Goes, Rest, ScreencastInv, ScreencastTypeOK,
                WatchPcs
        <3>3. lock' \in Tasks \cup {"free"} /\ (lock' = "free" => (started' <=> bound' # None))
            BY <1>2, <2>3, <2>4, Names DEF Rebind, ScreencastInv, ScreencastTypeOK
        <3>4. /\ page' \in Pages /\ dead' \subseteq Pages /\ bound' \in Pages \cup {None}
              /\ casting' \subseteq Pages /\ want' \in Pages \cup {None}
              /\ events' \in Seq({"recovered", "closed"})
              /\ gate' \in {"open", "closing", "closed"}
              /\ pending' \cup cancelled' \cup viewers' \cup ended' \subseteq Viewers
            BY <1>2, <2>3, Names DEF Rebind, Target, WantNone, session, registry, ScreencastInv,
                ScreencastTypeOK, PageInv
        <3>5. ops' \in 0..MaxOps /\ visits' \in 0..MaxVisits
            BY <1>2, Names DEF Rebind, counts, ScreencastInv, ScreencastTypeOK
        <3>6. QED BY <2>3, <2>4, <3>1, <3>2, <3>3, <3>4, <3>5 DEF LineInv, ScreencastTypeOK
    <2>6. LockInv'
        BY <1>2, <2>3, Names DEF Rebind, Leaves, Goes, Rest, ScreencastInv, LockInv
    <2>7. EncoderInv'
        BY <1>2, <2>3, Names DEF Rebind, Leaves, Goes, Rest, ScreencastInv, EncoderInv
    <2>8. ViewersInv'
        <3>1. \A w \in viewers' : pc'[w] \in Viewing \/ (cutShort' /\ pc'[w] \in {"dropping", "away"})
            <4>1. TAKE w \in viewers'
            <4>2. w \in Viewers /\ w \in Tasks /\ w # "op" /\ w # "watch"
                BY <1>2, Names DEF Rebind, ScreencastInv, ScreencastTypeOK
            <4>3. QED BY <1>2, <4>2, <2>3 DEF Rebind, Leaves, Goes, counts, ScreencastInv,
                    ViewersInv
        <3>2. \A w \in Viewers : pc'[w] \in Viewing => w \in viewers'
            BY <1>2, <2>3, Names DEF Rebind, Leaves, Goes, ScreencastInv, ViewersInv
        <3>3. \A w \in Viewers : pc'[w] = "stopping" => viewers' = {w}
            BY <1>2, <2>3, Names DEF Rebind, Leaves, Goes, ScreencastInv, LockInv
        <3>4. \A w \in Viewers : pc'[w] = "dousing" => viewers' = {}
            BY <1>2, <2>3, Names DEF Rebind, Leaves, Goes, ScreencastInv, LockInv
        <3>5. \A w \in Viewers : /\ pc'[w] \in {"falling", "dousing"} => gate' # "open"
                                 /\ pc'[w] \in AddPcs => w \in pending'
            BY <1>2, <2>3, Names DEF Rebind, Leaves, Goes, session, registry, ScreencastInv,
                ViewersInv
        <3>6. \A w \in pending' : pc'[w] # "away"
            <4>1. TAKE w \in pending'
            <4>2. w \in Viewers /\ w \in Tasks /\ w # "op" /\ w # "watch"
                BY <1>2, Names DEF Rebind, registry, ScreencastInv, ScreencastTypeOK
            <4>3. QED BY <1>2, <4>2, <2>3 DEF Rebind, Leaves, Goes, registry, ScreencastInv,
                    ViewersInv
        <3>7. ~registered' => pending' = {} /\ viewers' = {}
            BY <1>2, <2>3, Names DEF Rebind, registry, ScreencastInv, ViewersInv
        <3>8. registered' /\ ~cutShort' => \E w \in Viewers : pc'[w] # "away"
            BY <1>2, <2>3, Names DEF Rebind, Leaves, Goes, counts, registry, ScreencastInv,
                ViewersInv
        <3>9. viewers' = {} /\ ~cutShort' /\ (\A w \in Viewers : pc'[w] \notin {"starting", "dousing"})
                => ~sub'
            BY <1>2, <2>3, Names DEF Rebind, Leaves, Goes, counts, ScreencastInv, ViewersInv
        <3>10. QED BY <3>1, <3>2, <3>3, <3>4, <3>5, <3>6, <3>7, <3>8, <3>9 DEF ViewersInv
    <2>9. PageInv'
        BY <1>2, <2>3, Names DEF Rebind, Leaves, Goes, Rest, WantNone, session, ScreencastInv,
            EncoderInv, PageInv
    <2>10. QED BY <2>3, <2>5, <2>6, <2>7, <2>8, <2>9 DEF ScreencastInv
<1>3. QED BY <1>1, <1>2

(* terminate stops the encoder, or finds none.                              *)
LEMMA TerminateKeeps ==
    ASSUME ScreencastInv, Terminate
    PROVE  ScreencastInv'
<1>1. CASE started
    <2>1. line' = line /\ gate' = gate /\ pc' \in [Tasks -> AllPcs]
        BY <1>1, Names DEF Terminate, Goes, session, ScreencastInv, LockInv, LeavePcs, AllPcs
    <2>2. /\ \A t \in Tasks : pc'[t] \in Lining <=> pc[t] \in Lining
          /\ \A t \in Tasks : pc'[t] \in Holding => pc[t] \in Holding \/ Owner(t)
        BY <1>1, Names DEF Terminate, Goes, ScreencastInv, LockInv, Lining, Holding
    <2>3. LineInv' /\ pc' \in [Tasks -> AllPcs]
        BY <2>1, <2>2, LineStays DEF ScreencastInv
    <2>4. /\ started' \in BOOLEAN /\ registered' \in BOOLEAN /\ cutShort' \in BOOLEAN
          /\ sub' \in BOOLEAN /\ told' \in BOOLEAN /\ gone' \in BOOLEAN
        BY <1>1, Zenon DEF Terminate, Stopped, session, counts, registry, watching, ScreencastInv,
            ScreencastTypeOK
    <2>5. ScreencastTypeOK'
        <3>1. \A w \in Viewers : pc'[w] \in {"away", "showing"} \cup AddPcs \cup LeavePcs
            BY <1>1, <2>3, Names DEF Terminate, Goes, ScreencastInv, ScreencastTypeOK
        <3>2. /\ pc'["op"] \in {"away", "lining", "moving", "stopping", "starting"}
              /\ pc'["watch"] \in WatchPcs
            BY <1>1, <2>3, Names DEF Terminate, Goes, ScreencastInv, ScreencastTypeOK, WatchPcs
        <3>3. lock' \in Tasks \cup {"free"} /\ (lock' = "free" => (started' <=> bound' # None))
            BY <1>1, <2>3, <2>4, Names DEF Terminate
        <3>4. /\ page' \in Pages /\ dead' \subseteq Pages /\ bound' \in Pages \cup {None}
              /\ casting' \subseteq Pages /\ want' \in Pages \cup {None}
              /\ events' \in Seq({"recovered", "closed"})
              /\ gate' \in {"open", "closing", "closed"}
              /\ pending' \cup cancelled' \cup viewers' \cup ended' \subseteq Viewers
            BY <1>1, <2>3, Names DEF Terminate, Stopped, session, registry, watching,
                ScreencastInv, ScreencastTypeOK
        <3>5. ops' \in 0..MaxOps /\ visits' \in 0..MaxVisits
            BY <1>1, Names DEF Terminate, counts, ScreencastInv, ScreencastTypeOK
        <3>6. QED BY <2>3, <2>4, <3>1, <3>2, <3>3, <3>4, <3>5 DEF LineInv, ScreencastTypeOK
    <2>6. LockInv'
        BY <1>1, <2>3, Names DEF Terminate, Goes, ScreencastInv, LockInv
    <2>7. EncoderInv'
        BY <1>1, <2>3, Names DEF Terminate, Goes, Stopped, watching, ScreencastInv, EncoderInv
    <2>8. ViewersInv'
        <3>1. \A w \in viewers' : pc'[w] \in Viewing \/ (cutShort' /\ pc'[w] \in {"dropping", "away"})
            <4>1. TAKE w \in viewers'
            <4>2. w \in Viewers /\ w \in Tasks /\ w # "op" /\ w # "watch"
                BY <1>1, Names DEF Terminate, ScreencastInv, ScreencastTypeOK
            <4>3. QED BY <1>1, <4>2, <2>3 DEF Terminate, Goes, counts, ScreencastInv, ViewersInv
        <3>2. \A w \in Viewers : pc'[w] \in Viewing => w \in viewers'
            BY <1>1, <2>3, Names DEF Terminate, Goes, ScreencastInv, ViewersInv
        <3>3. \A w \in Viewers : pc'[w] = "stopping" => viewers' = {w}
            BY <1>1, <2>3, Names DEF Terminate, Goes, ScreencastInv, LockInv
        <3>4. \A w \in Viewers : pc'[w] = "dousing" => viewers' = {}
            BY <1>1, <2>3, Names DEF Terminate, Goes, ScreencastInv, LockInv
        <3>5. \A w \in Viewers : /\ pc'[w] \in {"falling", "dousing"} => gate' # "open"
                                 /\ pc'[w] \in AddPcs => w \in pending'
            BY <1>1, <2>3, Names DEF Terminate, Goes, session, registry, ScreencastInv, ViewersInv
        <3>6. \A w \in pending' : pc'[w] # "away"
            <4>1. TAKE w \in pending'
            <4>2. w \in Viewers /\ w \in Tasks /\ w # "op" /\ w # "watch"
                BY <1>1, Names DEF Terminate, registry, ScreencastInv, ScreencastTypeOK
            <4>3. QED BY <1>1, <4>2, <2>3 DEF Terminate, Goes, registry, ScreencastInv, ViewersInv
        <3>7. ~registered' => pending' = {} /\ viewers' = {}
            BY <1>1, <2>3, Names DEF Terminate, registry, ScreencastInv, ViewersInv
        <3>8. registered' /\ ~cutShort' => \E w \in Viewers : pc'[w] # "away"
            BY <1>1, <2>3, Names DEF Terminate, Goes, counts, registry, ScreencastInv, ViewersInv
        <3>9. viewers' = {} /\ ~cutShort' /\ (\A w \in Viewers : pc'[w] \notin {"starting", "dousing"})
                => ~sub'
            BY <1>1, <2>3, Names DEF Terminate, ScreencastInv, EncoderInv
        <3>10. QED BY <3>1, <3>2, <3>3, <3>4, <3>5, <3>6, <3>7, <3>8, <3>9 DEF ViewersInv
    <2>9. PageInv'
        BY <1>1, <2>3, Names DEF Terminate, Goes, Stopped, session, watching, ScreencastInv,
            PageInv
    <2>10. QED BY <2>3, <2>5, <2>6, <2>7, <2>8, <2>9 DEF ScreencastInv
<1>2. CASE ~started
    <2>1. line' = line /\ gate' = gate /\ pc' \in [Tasks -> AllPcs]
        BY <1>2, Names DEF Terminate, Goes, session, ScreencastInv, LockInv, AllPcs
    <2>2. /\ \A t \in Tasks : pc'[t] \in Lining <=> pc[t] \in Lining
          /\ \A t \in Tasks : pc'[t] \in Holding => pc[t] \in Holding \/ Owner(t)
        BY <1>2, Names DEF Terminate, Goes, ScreencastInv, LockInv, Lining, Holding
    <2>3. LineInv' /\ pc' \in [Tasks -> AllPcs]
        BY <2>1, <2>2, LineStays DEF ScreencastInv
    <2>4. /\ started' \in BOOLEAN /\ registered' \in BOOLEAN /\ cutShort' \in BOOLEAN
          /\ sub' \in BOOLEAN /\ told' \in BOOLEAN /\ gone' \in BOOLEAN
        BY <1>2, Zenon DEF Terminate, session, counts, registry, encoder, watching, ScreencastInv,
            ScreencastTypeOK
    <2>5. ScreencastTypeOK'
        <3>1. \A w \in Viewers : pc'[w] \in {"away", "showing"} \cup AddPcs \cup LeavePcs
            BY <1>2, <2>3, Names DEF Terminate, Goes, ScreencastInv, ScreencastTypeOK
        <3>2. /\ pc'["op"] \in {"away", "lining", "moving", "stopping", "starting"}
              /\ pc'["watch"] \in WatchPcs
            BY <1>2, <2>3, Names DEF Terminate, Goes, ScreencastInv, ScreencastTypeOK, WatchPcs
        <3>3. lock' \in Tasks \cup {"free"} /\ (lock' = "free" => (started' <=> bound' # None))
            BY <1>2, <2>3, <2>4, Names DEF Terminate, encoder, ScreencastInv, ScreencastTypeOK
        <3>4. /\ page' \in Pages /\ dead' \subseteq Pages /\ bound' \in Pages \cup {None}
              /\ casting' \subseteq Pages /\ want' \in Pages \cup {None}
              /\ events' \in Seq({"recovered", "closed"})
              /\ gate' \in {"open", "closing", "closed"}
              /\ pending' \cup cancelled' \cup viewers' \cup ended' \subseteq Viewers
            BY <1>2, <2>3, Names DEF Terminate, session, registry, encoder, watching,
                ScreencastInv, ScreencastTypeOK
        <3>5. ops' \in 0..MaxOps /\ visits' \in 0..MaxVisits
            BY <1>2, Names DEF Terminate, counts, ScreencastInv, ScreencastTypeOK
        <3>6. QED BY <2>3, <2>4, <3>1, <3>2, <3>3, <3>4, <3>5 DEF LineInv, ScreencastTypeOK
    <2>6. LockInv'
        BY <1>2, <2>3, Names DEF Terminate, Goes, ScreencastInv, LockInv
    <2>7. EncoderInv'
        BY <1>2, <2>3, Names DEF Terminate, Goes, encoder, watching, ScreencastInv, EncoderInv
    <2>8. ViewersInv'
        <3>1. \A w \in viewers' : pc'[w] \in Viewing \/ (cutShort' /\ pc'[w] \in {"dropping", "away"})
            <4>1. TAKE w \in viewers'
            <4>2. w \in Viewers /\ w \in Tasks /\ w # "op" /\ w # "watch"
                BY <1>2, Names DEF Terminate, ScreencastInv, ScreencastTypeOK
            <4>3. QED BY <1>2, <4>2, <2>3 DEF Terminate, Goes, counts, ScreencastInv, ViewersInv
        <3>2. \A w \in Viewers : pc'[w] \in Viewing => w \in viewers'
            BY <1>2, <2>3, Names DEF Terminate, Goes, ScreencastInv, ViewersInv
        <3>3. \A w \in Viewers : pc'[w] = "stopping" => viewers' = {w}
            BY <1>2, <2>3, Names DEF Terminate, Goes, ScreencastInv, LockInv
        <3>4. \A w \in Viewers : pc'[w] = "dousing" => viewers' = {}
            BY <1>2, <2>3, Names DEF Terminate, Goes, ScreencastInv, LockInv
        <3>5. \A w \in Viewers : /\ pc'[w] \in {"falling", "dousing"} => gate' # "open"
                                 /\ pc'[w] \in AddPcs => w \in pending'
            BY <1>2, <2>3, Names DEF Terminate, Goes, session, registry, ScreencastInv, ViewersInv
        <3>6. \A w \in pending' : pc'[w] # "away"
            <4>1. TAKE w \in pending'
            <4>2. w \in Viewers /\ w \in Tasks /\ w # "op" /\ w # "watch"
                BY <1>2, Names DEF Terminate, registry, ScreencastInv, ScreencastTypeOK
            <4>3. QED BY <1>2, <4>2, <2>3 DEF Terminate, Goes, registry, ScreencastInv, ViewersInv
        <3>7. ~registered' => pending' = {} /\ viewers' = {}
            BY <1>2, <2>3, Names DEF Terminate, registry, ScreencastInv, ViewersInv
        <3>8. registered' /\ ~cutShort' => \E w \in Viewers : pc'[w] # "away"
            BY <1>2, <2>3, Names DEF Terminate, Goes, counts, registry, ScreencastInv, ViewersInv
        <3>9. viewers' = {} /\ ~cutShort' /\ (\A w \in Viewers : pc'[w] \notin {"starting", "dousing"})
                => ~sub'
            BY <1>2, <2>3, Names DEF Terminate, Goes, counts, watching, ScreencastInv, ViewersInv
        <3>10. QED BY <3>1, <3>2, <3>3, <3>4, <3>5, <3>6, <3>7, <3>8, <3>9 DEF ViewersInv
    <2>9. PageInv'
        BY <1>2, <2>3, Names DEF Terminate, Goes, session, encoder, watching, ScreencastInv,
            PageInv
    <2>10. QED BY <2>3, <2>5, <2>6, <2>7, <2>8, <2>9 DEF ScreencastInv
<1>3. QED BY <1>1, <1>2

(* terminate has stopped the encoder and sent the viewers away.             *)
LEMMA TerminatedKeeps ==
    ASSUME ScreencastInv, Terminated
    PROVE  ScreencastInv'
<1>1. line' = line /\ gate' = gate /\ pc' \in [Tasks -> AllPcs]
    BY Names DEF Terminated, Goes, session, ScreencastInv, LockInv, AllPcs
<1>2. /\ \A t \in Tasks : pc'[t] \in Lining <=> pc[t] \in Lining
      /\ \A t \in Tasks : pc'[t] \in Holding => pc[t] \in Holding \/ Owner(t)
    BY Names DEF Terminated, Goes, Lining, Holding
<1>3. LineInv' /\ pc' \in [Tasks -> AllPcs]
    BY <1>1, <1>2, LineStays DEF ScreencastInv
<1>4. /\ started' \in BOOLEAN /\ registered' \in BOOLEAN /\ cutShort' \in BOOLEAN
      /\ sub' \in BOOLEAN /\ told' \in BOOLEAN /\ gone' \in BOOLEAN
    BY Zenon DEF Terminated, session, counts, registry, encoder, watching, ScreencastInv,
        ScreencastTypeOK
<1>5. ScreencastTypeOK'
    <2>1. \A w \in Viewers : pc'[w] \in {"away", "showing"} \cup AddPcs \cup LeavePcs
        BY <1>3, Names DEF Terminated, Goes, ScreencastInv, ScreencastTypeOK
    <2>2. /\ pc'["op"] \in {"away", "lining", "moving", "stopping", "starting"}
          /\ pc'["watch"] \in WatchPcs
        BY <1>3, Names DEF Terminated, Goes, ScreencastInv, ScreencastTypeOK, WatchPcs
    <2>3. lock' \in Tasks \cup {"free"} /\ (lock' = "free" => (started' <=> bound' # None))
        BY <1>3, <1>4, Names DEF Terminated, encoder, ScreencastInv, EncoderInv
    <2>4. /\ page' \in Pages /\ dead' \subseteq Pages /\ bound' \in Pages \cup {None}
          /\ casting' \subseteq Pages /\ want' \in Pages \cup {None}
          /\ events' \in Seq({"recovered", "closed"})
          /\ gate' \in {"open", "closing", "closed"}
          /\ pending' \cup cancelled' \cup viewers' \cup ended' \subseteq Viewers
        BY <1>3, Names DEF Terminated, session, registry, encoder, watching, ScreencastInv,
            ScreencastTypeOK
    <2>5. ops' \in 0..MaxOps /\ visits' \in 0..MaxVisits
        BY Names DEF Terminated, counts, ScreencastInv, ScreencastTypeOK
    <2>6. QED BY <1>3, <1>4, <2>1, <2>2, <2>3, <2>4, <2>5 DEF LineInv, ScreencastTypeOK
<1>6. LockInv'
    BY <1>3, Names DEF Terminated, Goes, ScreencastInv, LockInv
<1>7. EncoderInv'
    BY <1>3, Names DEF Terminated, Goes, encoder, watching, ScreencastInv, EncoderInv
<1>8. ViewersInv'
    <2>1. \A w \in viewers' : pc'[w] \in Viewing \/ (cutShort' /\ pc'[w] \in {"dropping", "away"})
        <3>1. TAKE w \in viewers'
        <3>2. w \in Viewers /\ w \in Tasks /\ w # "op" /\ w # "watch"
            BY Names DEF Terminated, ScreencastInv, ScreencastTypeOK
        <3>3. QED BY <3>2, <1>3 DEF Terminated, Goes, counts, ScreencastInv, ViewersInv
    <2>2. \A w \in Viewers : pc'[w] \in Viewing => w \in viewers'
        BY <1>3, Names DEF Terminated, Goes, ScreencastInv, ViewersInv
    <2>3. \A w \in Viewers : pc'[w] = "stopping" => viewers' = {w}
        BY <1>3, Names DEF Terminated, Goes, ScreencastInv, LockInv
    <2>4. \A w \in Viewers : pc'[w] = "dousing" => viewers' = {}
        BY <1>3, Names DEF Terminated, Goes, ScreencastInv, LockInv
    <2>5. \A w \in Viewers : /\ pc'[w] \in {"falling", "dousing"} => gate' # "open"
                             /\ pc'[w] \in AddPcs => w \in pending'
        BY <1>3, Names DEF Terminated, Goes, session, registry, ScreencastInv, ViewersInv
    <2>6. \A w \in pending' : pc'[w] # "away"
        <3>1. TAKE w \in pending'
        <3>2. w \in Viewers /\ w \in Tasks /\ w # "op" /\ w # "watch"
            BY Names DEF Terminated, registry, ScreencastInv, ScreencastTypeOK
        <3>3. QED BY <3>2, <1>3 DEF Terminated, Goes, registry, ScreencastInv, ViewersInv
    <2>7. ~registered' => pending' = {} /\ viewers' = {}
        BY <1>3, Names DEF Terminated, registry, ScreencastInv, ViewersInv
    <2>8. registered' /\ ~cutShort' => \E w \in Viewers : pc'[w] # "away"
        BY <1>3, Names DEF Terminated, Goes, counts, registry, ScreencastInv, ViewersInv
    <2>9. viewers' = {} /\ ~cutShort' /\ (\A w \in Viewers : pc'[w] \notin {"starting", "dousing"})
            => ~sub'
        BY <1>3, Names DEF Terminated, Goes, counts, watching, ScreencastInv, ViewersInv
    <2>10. QED BY <2>1, <2>2, <2>3, <2>4, <2>5, <2>6, <2>7, <2>8, <2>9 DEF ViewersInv
<1>9. PageInv'
    BY <1>3, Names DEF Terminated, Goes, session, encoder, watching, ScreencastInv, PageInv
<1>10. QED BY <1>3, <1>5, <1>6, <1>7, <1>8, <1>9 DEF ScreencastInv

(* The old encoder has stopped; the subscription is renewed.                *)
LEMMA RebindStoppedKeeps ==
    ASSUME ScreencastInv, NEW r \in {"op", "watch"}, RebindStopped(r)
    PROVE  ScreencastInv'
<1>1. line' = line /\ gate' = gate /\ pc' \in [Tasks -> AllPcs]
    BY Names DEF RebindStopped, Subscribes, session, ScreencastInv, LockInv, AddPcs, AllPcs
<1>2. /\ \A t \in Tasks : pc'[t] \in Lining <=> pc[t] \in Lining
      /\ \A t \in Tasks : pc'[t] \in Holding => pc[t] \in Holding \/ Owner(t)
    BY Names DEF RebindStopped, Subscribes, ScreencastInv, LockInv, Lining, Holding
<1>3. LineInv' /\ pc' \in [Tasks -> AllPcs]
    BY <1>1, <1>2, LineStays DEF ScreencastInv
<1>4. /\ started' \in BOOLEAN /\ registered' \in BOOLEAN /\ cutShort' \in BOOLEAN
      /\ sub' \in BOOLEAN /\ told' \in BOOLEAN /\ gone' \in BOOLEAN
    BY Zenon DEF RebindStopped, Subscribes, session, counts, registry, ScreencastInv,
        ScreencastTypeOK
<1>5. ScreencastTypeOK'
    <2>1. \A w \in Viewers : pc'[w] \in {"away", "showing"} \cup AddPcs \cup LeavePcs
        BY <1>3, Names DEF RebindStopped, Subscribes, ScreencastInv, ScreencastTypeOK
    <2>2. /\ pc'["op"] \in {"away", "lining", "moving", "stopping", "starting"}
          /\ pc'["watch"] \in WatchPcs
        BY <1>3, Names DEF RebindStopped, Subscribes, ScreencastInv, ScreencastTypeOK, WatchPcs
    <2>3. lock' \in Tasks \cup {"free"} /\ (lock' = "free" => (started' <=> bound' # None))
        BY <1>3, <1>4, Names DEF RebindStopped, ScreencastInv, LockInv
    <2>4. /\ page' \in Pages /\ dead' \subseteq Pages /\ bound' \in Pages \cup {None}
          /\ casting' \subseteq Pages /\ want' \in Pages \cup {None}
          /\ events' \in Seq({"recovered", "closed"})
          /\ gate' \in {"open", "closing", "closed"}
          /\ pending' \cup cancelled' \cup viewers' \cup ended' \subseteq Viewers
        BY <1>3, Names DEF RebindStopped, Subscribes, session, registry, ScreencastInv,
            ScreencastTypeOK
    <2>5. ops' \in 0..MaxOps /\ visits' \in 0..MaxVisits
        BY Names DEF RebindStopped, counts, ScreencastInv, ScreencastTypeOK
    <2>6. QED BY <1>3, <1>4, <2>1, <2>2, <2>3, <2>4, <2>5 DEF LineInv, ScreencastTypeOK
<1>6. LockInv'
    BY <1>3, Names DEF RebindStopped, Subscribes, ScreencastInv, LockInv
<1>7. EncoderInv'
    BY <1>3, Names DEF RebindStopped, Subscribes, ScreencastInv, EncoderInv
<1>8. ViewersInv'
    <2>1. \A w \in viewers' : pc'[w] \in Viewing \/ (cutShort' /\ pc'[w] \in {"dropping", "away"})
        <3>1. TAKE w \in viewers'
        <3>2. w \in Viewers /\ w \in Tasks /\ w # "op" /\ w # "watch"
            BY Names DEF RebindStopped, ScreencastInv, ScreencastTypeOK
        <3>3. QED BY <3>2, <1>3 DEF RebindStopped, Subscribes, counts, ScreencastInv, ViewersInv
    <2>2. \A w \in Viewers : pc'[w] \in Viewing => w \in viewers'
        BY <1>3, Names DEF RebindStopped, Subscribes, ScreencastInv, ViewersInv
    <2>3. \A w \in Viewers : pc'[w] = "stopping" => viewers' = {w}
        BY <1>3, Names DEF RebindStopped, Subscribes, ScreencastInv, LockInv
    <2>4. \A w \in Viewers : pc'[w] = "dousing" => viewers' = {}
        BY <1>3, Names DEF RebindStopped, Subscribes, ScreencastInv, LockInv
    <2>5. \A w \in Viewers : /\ pc'[w] \in {"falling", "dousing"} => gate' # "open"
                             /\ pc'[w] \in AddPcs => w \in pending'
        BY <1>3, Names DEF RebindStopped, Subscribes, session, registry, ScreencastInv, ViewersInv
    <2>6. \A w \in pending' : pc'[w] # "away"
        <3>1. TAKE w \in pending'
        <3>2. w \in Viewers /\ w \in Tasks /\ w # "op" /\ w # "watch"
            BY Names DEF RebindStopped, registry, ScreencastInv, ScreencastTypeOK
        <3>3. QED BY <3>2, <1>3 DEF RebindStopped, Subscribes, registry, ScreencastInv, ViewersInv
    <2>7. ~registered' => pending' = {} /\ viewers' = {}
        BY <1>3, Names DEF RebindStopped, registry, ScreencastInv, ViewersInv
    <2>8. registered' /\ ~cutShort' => \E w \in Viewers : pc'[w] # "away"
        BY <1>3, Names DEF RebindStopped, Subscribes, counts, registry, ScreencastInv, ViewersInv
    <2>9. viewers' = {} /\ ~cutShort' /\ (\A w \in Viewers : pc'[w] \notin {"starting", "dousing"})
            => ~sub'
        BY <1>3, Names DEF RebindStopped, ScreencastInv, EncoderInv
    <2>10. QED BY <2>1, <2>2, <2>3, <2>4, <2>5, <2>6, <2>7, <2>8, <2>9 DEF ViewersInv
<1>9. PageInv'
    BY <1>3, Names DEF RebindStopped, Subscribes, session, ScreencastInv, PageInv
<1>10. QED BY <1>3, <1>5, <1>6, <1>7, <1>8, <1>9 DEF ScreencastInv

(* No encoder could be started: the viewers are sent away.                  *)
LEMMA RebindFailsKeeps ==
    ASSUME ScreencastInv, NEW r \in {"op", "watch"}, RebindFails(r)
    PROVE  ScreencastInv'
<1>1. Leaves(r, Rest(r)) /\ gate' = gate
    BY Names DEF RebindFails, session
<1>2. Rest(r) \in AllPcs /\ Rest(r) \notin Lining
    BY DEF Rest, AllPcs, Lining
<1>3. LineInv' /\ pc' \in [Tasks -> AllPcs]
    BY <1>1, <1>2, Names, LineLeft DEF ScreencastInv
<1>4. /\ started' \in BOOLEAN /\ registered' \in BOOLEAN /\ cutShort' \in BOOLEAN
      /\ sub' \in BOOLEAN /\ told' \in BOOLEAN /\ gone' \in BOOLEAN
    BY Zenon DEF RebindFails, session, counts, registry, encoder, ScreencastInv, ScreencastTypeOK
<1>5. ScreencastTypeOK'
    <2>1. \A w \in Viewers : pc'[w] \in {"away", "showing"} \cup AddPcs \cup LeavePcs
        BY <1>3, Names DEF RebindFails, Leaves, Goes, ScreencastInv, ScreencastTypeOK
    <2>2. /\ pc'["op"] \in {"away", "lining", "moving", "stopping", "starting"}
          /\ pc'["watch"] \in WatchPcs
        BY <1>3, Names DEF RebindFails, Leaves, Goes, Rest, ScreencastInv, ScreencastTypeOK,
            WatchPcs
    <2>3. lock' \in Tasks \cup {"free"} /\ (lock' = "free" => (started' <=> bound' # None))
        BY <1>3, <1>4, Names DEF RebindFails, encoder, ScreencastInv, EncoderInv
    <2>4. /\ page' \in Pages /\ dead' \subseteq Pages /\ bound' \in Pages \cup {None}
          /\ casting' \subseteq Pages /\ want' \in Pages \cup {None}
          /\ events' \in Seq({"recovered", "closed"})
          /\ gate' \in {"open", "closing", "closed"}
          /\ pending' \cup cancelled' \cup viewers' \cup ended' \subseteq Viewers
        BY <1>3, Names DEF RebindFails, WantNone, session, registry, encoder, ScreencastInv,
            ScreencastTypeOK
    <2>5. ops' \in 0..MaxOps /\ visits' \in 0..MaxVisits
        BY Names DEF RebindFails, counts, ScreencastInv, ScreencastTypeOK
    <2>6. QED BY <1>3, <1>4, <2>1, <2>2, <2>3, <2>4, <2>5 DEF LineInv, ScreencastTypeOK
<1>6. LockInv'
    BY <1>3, Names DEF RebindFails, Leaves, Goes, Rest, ScreencastInv, LockInv
<1>7. EncoderInv'
    BY <1>3, Names DEF RebindFails, Leaves, Goes, Rest, encoder, ScreencastInv, EncoderInv
<1>8. ViewersInv'
    <2>1. \A w \in viewers' : pc'[w] \in Viewing \/ (cutShort' /\ pc'[w] \in {"dropping", "away"})
        <3>1. TAKE w \in viewers'
        <3>2. w \in Viewers /\ w \in Tasks /\ w # "op" /\ w # "watch"
            BY Names DEF RebindFails, ScreencastInv, ScreencastTypeOK
        <3>3. QED BY <3>2, <1>3 DEF RebindFails, Leaves, Goes, counts, ScreencastInv, ViewersInv
    <2>2. \A w \in Viewers : pc'[w] \in Viewing => w \in viewers'
        BY <1>3, Names DEF RebindFails, Leaves, Goes, ScreencastInv, ViewersInv
    <2>3. \A w \in Viewers : pc'[w] = "stopping" => viewers' = {w}
        BY <1>3, Names DEF RebindFails, Leaves, Goes, ScreencastInv, LockInv
    <2>4. \A w \in Viewers : pc'[w] = "dousing" => viewers' = {}
        BY <1>3, Names DEF RebindFails, Leaves, Goes, ScreencastInv, LockInv
    <2>5. \A w \in Viewers : /\ pc'[w] \in {"falling", "dousing"} => gate' # "open"
                             /\ pc'[w] \in AddPcs => w \in pending'
        BY <1>3, Names DEF RebindFails, Leaves, Goes, session, registry, ScreencastInv, ViewersInv
    <2>6. \A w \in pending' : pc'[w] # "away"
        <3>1. TAKE w \in pending'
        <3>2. w \in Viewers /\ w \in Tasks /\ w # "op" /\ w # "watch"
            BY Names DEF RebindFails, registry, ScreencastInv, ScreencastTypeOK
        <3>3. QED BY <3>2, <1>3 DEF RebindFails, Leaves, Goes, registry, ScreencastInv, ViewersInv
    <2>7. ~registered' => pending' = {} /\ viewers' = {}
        BY <1>3, Names DEF RebindFails, registry, ScreencastInv, ViewersInv
    <2>8. registered' /\ ~cutShort' => \E w \in Viewers : pc'[w] # "away"
        BY <1>3, Names DEF RebindFails, Leaves, Goes, counts, registry, ScreencastInv, ViewersInv
    <2>9. viewers' = {} /\ ~cutShort' /\ (\A w \in Viewers : pc'[w] \notin {"starting", "dousing"})
            => ~sub'
        BY <1>3, Names DEF RebindFails, ScreencastInv, EncoderInv
    <2>10. QED BY <2>1, <2>2, <2>3, <2>4, <2>5, <2>6, <2>7, <2>8, <2>9 DEF ViewersInv
<1>9. PageInv'
    BY <1>3, Names DEF RebindFails, Leaves, Goes, Rest, WantNone, session, encoder, ScreencastInv,
        EncoderInv, PageInv
<1>10. QED BY <1>3, <1>5, <1>6, <1>7, <1>8, <1>9 DEF ScreencastInv

(* A second cancellation breaks a removal off, and frees the lock.          *)
LEMMA RedeliveredKeeps ==
    ASSUME ScreencastInv, NEW v \in Viewers, Redelivered(v)
    PROVE  ScreencastInv'
<1>1. Leaves(v, "dropping") /\ gate' = gate
    BY Names DEF Redelivered, session
<1>2. "dropping" \in AllPcs /\ "dropping" \notin Lining
    BY DEF LeavePcs, AllPcs, Lining
<1>3. LineInv' /\ pc' \in [Tasks -> AllPcs]
    BY <1>1, <1>2, Names, LineLeft DEF ScreencastInv
<1>4. /\ started' \in BOOLEAN /\ registered' \in BOOLEAN /\ cutShort' \in BOOLEAN
      /\ sub' \in BOOLEAN /\ told' \in BOOLEAN /\ gone' \in BOOLEAN
    BY Zenon DEF Redelivered, session, registry, encoder, watching, ScreencastInv,
        ScreencastTypeOK
<1>5. ScreencastTypeOK'
    <2>1. \A w \in Viewers : pc'[w] \in {"away", "showing"} \cup AddPcs \cup LeavePcs
        BY <1>3, Names DEF Redelivered, Leaves, Goes, ScreencastInv, ScreencastTypeOK, LeavePcs
    <2>2. /\ pc'["op"] \in {"away", "lining", "moving", "stopping", "starting"}
          /\ pc'["watch"] \in WatchPcs
        BY <1>3, Names DEF Redelivered, Leaves, Goes, ScreencastInv, ScreencastTypeOK
    <2>3. lock' \in Tasks \cup {"free"} /\ (lock' = "free" => (started' <=> bound' # None))
        BY <1>3, <1>4, Names DEF Redelivered, encoder, ScreencastInv, ScreencastTypeOK, EncoderInv
    <2>4. /\ page' \in Pages /\ dead' \subseteq Pages /\ bound' \in Pages \cup {None}
          /\ casting' \subseteq Pages /\ want' \in Pages \cup {None}
          /\ events' \in Seq({"recovered", "closed"})
          /\ gate' \in {"open", "closing", "closed"}
          /\ pending' \cup cancelled' \cup viewers' \cup ended' \subseteq Viewers
        BY <1>3, Names DEF Redelivered, session, registry, encoder, watching, ScreencastInv,
            ScreencastTypeOK
    <2>5. ops' \in 0..MaxOps /\ visits' \in 0..MaxVisits
        BY Names DEF Redelivered, ScreencastInv, ScreencastTypeOK
    <2>6. QED BY <1>3, <1>4, <2>1, <2>2, <2>3, <2>4, <2>5 DEF LineInv, ScreencastTypeOK
<1>6. LockInv'
    BY <1>3, Names DEF Redelivered, Leaves, Goes, ScreencastInv, LockInv
<1>7. EncoderInv'
    BY <1>3, Names DEF Redelivered, Leaves, Goes, encoder, watching, ScreencastInv, EncoderInv
<1>8. ViewersInv'
    <2>1. \A w \in viewers' : pc'[w] \in Viewing \/ (cutShort' /\ pc'[w] \in {"dropping", "away"})
        <3>1. TAKE w \in viewers'
        <3>2. w \in Viewers /\ w \in Tasks /\ w # "op" /\ w # "watch"
            BY Names DEF Redelivered, ScreencastInv, ScreencastTypeOK
        <3>3. QED BY <3>2, <1>3 DEF Redelivered, Leaves, Goes, ScreencastInv, ViewersInv
    <2>2. \A w \in Viewers : pc'[w] \in Viewing => w \in viewers'
        BY <1>3, Names DEF Redelivered, Leaves, Goes, ScreencastInv, ViewersInv, Viewing
    <2>3. \A w \in Viewers : pc'[w] = "stopping" => viewers' = {w}
        BY <1>3, Names DEF Redelivered, Leaves, Goes, ScreencastInv, ViewersInv
    <2>4. \A w \in Viewers : pc'[w] = "dousing" => viewers' = {}
        BY <1>3, Names DEF Redelivered, Leaves, Goes, ScreencastInv, ViewersInv
    <2>5. \A w \in Viewers : /\ pc'[w] \in {"falling", "dousing"} => gate' # "open"
                             /\ pc'[w] \in AddPcs => w \in pending'
        BY <1>3, Names DEF Redelivered, Leaves, Goes, session, registry, ScreencastInv,
            ViewersInv, AddPcs
    <2>6. \A w \in pending' : pc'[w] # "away"
        <3>1. TAKE w \in pending'
        <3>2. w \in Viewers /\ w \in Tasks /\ w # "op" /\ w # "watch"
            BY Names DEF Redelivered, registry, ScreencastInv, ScreencastTypeOK
        <3>3. QED BY <3>2, <1>3 DEF Redelivered, Leaves, Goes, registry, ScreencastInv, ViewersInv
    <2>7. ~registered' => pending' = {} /\ viewers' = {}
        BY <1>3, Names DEF Redelivered, registry, ScreencastInv, ViewersInv
    <2>8. registered' /\ ~cutShort' => \E w \in Viewers : pc'[w] # "away"
        BY <1>3, Names DEF Redelivered
    <2>9. viewers' = {} /\ ~cutShort' /\ (\A w \in Viewers : pc'[w] \notin {"starting", "dousing"})
            => ~sub'
        BY <1>3, Names DEF Redelivered
    <2>10. QED BY <2>1, <2>2, <2>3, <2>4, <2>5, <2>6, <2>7, <2>8, <2>9 DEF ViewersInv
<1>9. PageInv'
    BY <1>3, Names DEF Redelivered, Leaves, Goes, session, encoder, watching, ScreencastInv,
        PageInv
<1>10. QED BY <1>3, <1>5, <1>6, <1>7, <1>8, <1>9 DEF ScreencastInv

(* The watcher reads the active page, and asks for the lease.               *)
LEMMA HearsRecoveryKeeps ==
    ASSUME ScreencastInv, HearsRecovery
    PROVE  ScreencastInv'
<1>1. LineInv' /\ pc' \in [Tasks -> AllPcs]
    <2>1. CASE gate = "open"
        <3>1. line' = Append(line, "watch") /\ Goes("watch", "lining") /\ gate' = gate
            BY <2>1 DEF HearsRecovery, session
        <3>2. /\ "lining" \in AllPcs /\ "lining" \in Lining /\ "lining" \notin Holding
              /\ pc["watch"] \notin Lining
            BY DEF HearsRecovery, AddPcs, AllPcs, Lining, Holding
        <3>3. QED BY <2>1, <3>1, <3>2, Names, LineJoined DEF ScreencastInv
    <2>2. CASE gate # "open"
        <3>1. line' = line /\ gate' = gate /\ pc' = pc
            BY <2>2 DEF HearsRecovery, session
        <3>2. QED BY <3>1, LineStays DEF ScreencastInv, LockInv
    <2>3. QED BY <2>1, <2>2
<1>2. /\ \A t \in Tasks \ {"watch"} : pc'[t] = pc[t]
      /\ pc["watch"] = "listening" /\ pc'["watch"] \in {"listening", "lining"}
      /\ pc'["watch"] = "lining" => want' = page
      /\ want' \in {want, page}
    BY Names DEF HearsRecovery, Goes, ScreencastInv, LockInv
<1>3. /\ events' \in Seq({"recovered", "closed"}) /\ Len(events') = Len(events) - 1
      /\ \A i \in 1..Len(events') : events'[i] = events[i + 1]
    <2>1. events # <<>> /\ events \in Seq({"recovered", "closed"}) /\ events' = Tail(events)
        BY DEF HearsRecovery, ScreencastInv, ScreencastTypeOK
    <2>2. QED BY <2>1
<1>4. started' \in BOOLEAN /\ registered' \in BOOLEAN /\ cutShort' \in BOOLEAN /\ sub' \in BOOLEAN
      /\ told' \in BOOLEAN /\ gone' \in BOOLEAN
    BY Zenon DEF HearsRecovery, session, counts, registry, encoder, ScreencastInv,
        ScreencastTypeOK
<1>5. ScreencastTypeOK'
    BY <1>1, <1>2, <1>3, <1>4, Names DEF HearsRecovery, session, counts, registry, encoder,
        ScreencastInv, ScreencastTypeOK, LineInv, WatchPcs
<1>6. LockInv'
    BY <1>1, <1>2 DEF HearsRecovery, ScreencastInv, LockInv
<1>7. EncoderInv'
    <2>1. UNCHANGED <<lock, viewers, casting, bound, started, sub>>
        BY DEF HearsRecovery, encoder
    <2>2. \A t \in Tasks : pc'[t] = pc[t] \/ (t = "watch" /\ pc'[t] \in {"listening", "lining"})
        BY <1>2
    <2>3. pc["watch"] # "none" /\ pc'["watch"] # "none" /\ "op" # "watch"
        BY <1>2
    <2>4. QED BY <1>2, <2>1, <2>2, <2>3, Names DEF ScreencastInv, EncoderInv
<1>8. ViewersInv'
    <2>1. UNCHANGED <<viewers, pending, registered, cutShort, gate, sub>>
        BY DEF HearsRecovery, session, counts, registry
    <2>2. viewers \subseteq Viewers /\ pending \subseteq Viewers
        BY DEF ScreencastInv, ScreencastTypeOK
    <2>3. \A v \in Viewers : pc'[v] = pc[v]
        BY <1>2, Names
    <2>4. QED BY <2>1, <2>2, <2>3 DEF ScreencastInv, ViewersInv
<1>9. PageInv'
    <2>1. pc'["watch"] = "lining" => want' # None
        BY <1>2 DEF ScreencastInv, ScreencastTypeOK, Pages, None
    <2>2. \A i \in 1..Len(events') : events'[i] = "closed" => gate' = "closed"
        BY <1>3 DEF HearsRecovery, session, ScreencastInv, PageInv
    <2>3. gate' = "open" => want' # None
        <3>1. gate' = "open" => want' = page
            BY DEF HearsRecovery, session
        <3>2. QED BY <3>1 DEF ScreencastInv, ScreencastTypeOK, Pages, None
    <2>4. QED BY <2>1, <2>2, <2>3 DEF PageInv
<1>10. QED BY <1>1, <1>5, <1>6, <1>7, <1>8, <1>9 DEF ScreencastInv

(* The close joins the line behind everybody (begin_close).                 *)
LEMMA CloseAskedKeeps ==
    ASSUME ScreencastInv, CloseAsked
    PROVE  ScreencastInv'
<1> DEFINE T == Tasks \cup {"close"}
<1>1. /\ ~On(line, "close") /\ line \in Seq(T) /\ Distinct(line) /\ "close" \in T
      /\ line' = Append(line, "close") /\ gate' = "closing" /\ pc' = pc
    BY DEF CloseAsked, ScreencastInv, LineInv
<1>2. /\ line' \in Seq(T) /\ Distinct(line')
      /\ \A x : On(line', x) <=> On(line, x) \/ x = "close"
      /\ \A x : Leads(line, x) => Leads(line', x)
      /\ Ends(line', "close")
    BY <1>1, AppendFacts
<1>3. LineInv'
    BY <1>1, <1>2, Names DEF ScreencastInv, LineInv
<1>4. started' \in BOOLEAN /\ registered' \in BOOLEAN /\ cutShort' \in BOOLEAN /\ sub' \in BOOLEAN
      /\ told' \in BOOLEAN /\ gone' \in BOOLEAN
    BY Zenon DEF CloseAsked, counts, registry, encoder, watching, ScreencastInv, ScreencastTypeOK
<1>5. ScreencastTypeOK'
    BY <1>1, <1>3, <1>4 DEF CloseAsked, counts, registry, encoder, watching, ScreencastInv,
        ScreencastTypeOK
<1>6. LockInv' /\ EncoderInv' /\ ViewersInv' /\ PageInv'
    BY <1>1 DEF CloseAsked, counts, registry, encoder, watching, ScreencastInv, LockInv,
        EncoderInv, ViewersInv, PageInv
<1>7. QED BY <1>3, <1>5, <1>6 DEF ScreencastInv

(* The close has the lease: then it is alone in the line.                   *)
LEMMA CloseRunsKeeps ==
    ASSUME ScreencastInv, CloseRuns
    PROVE  ScreencastInv'
<1> DEFINE T == Tasks \cup {"close"}
<1>1. \A t \in Tasks : ~On(line, t)
    <2>1. line \in Seq(T) /\ Distinct(line) /\ Ends(line, "close") /\ Leads(line, "close")
        BY DEF CloseRuns, Owner, Leads, ScreencastInv, LineInv
    <2>2. Len(line) \in Nat \ {0} /\ line[1] = "close" /\ line[Len(line)] = "close"
        BY <2>1 DEF Leads, Ends
    <2>3. Len(line) = 1
        <3>1. 1 \in 1..Len(line) /\ Len(line) \in 1..Len(line)
            BY <2>2
        <3>2. QED BY <2>1, <2>2, <3>1 DEF Distinct
    <2>4. QED BY <2>2, <2>3, Names DEF On
<1>2. \A t \in Tasks : pc[t] \notin Lining
    BY <1>1 DEF ScreencastInv, LineInv
<1>3. /\ line' = <<>> /\ pc' = pc /\ gate' = "closed" /\ casting' = {} /\ gone' = TRUE
      /\ told' = told /\ dead' = dead
    BY DEF CloseRuns
<1>4. Len(<<>>) = 0 /\ <<>> \in Seq(T)
    OBVIOUS
<1>5. LineInv'
    <2>1. \A x : ~On(line', x) /\ Distinct(line')
        BY <1>3, <1>4 DEF On, Distinct
    <2>2. \A t \in Tasks : pc'[t] \notin Holding
        BY <1>2, <1>3 DEF Lining, Holding
    <2>3. QED BY <1>2, <1>3, <1>4, <2>1, <2>2 DEF LineInv
<1>6. started' \in BOOLEAN /\ registered' \in BOOLEAN /\ cutShort' \in BOOLEAN /\ sub' \in BOOLEAN
      /\ told' \in BOOLEAN /\ gone' \in BOOLEAN
    BY <1>3, Zenon DEF CloseRuns, counts, registry, watching, ScreencastInv, ScreencastTypeOK
<1>7. ScreencastTypeOK'
    BY <1>3, <1>5, <1>6 DEF CloseRuns, counts, registry, watching, ScreencastInv, ScreencastTypeOK
<1>8. LockInv' /\ EncoderInv' /\ PageInv'
    BY <1>3 DEF CloseRuns, watching, ScreencastInv, LockInv, EncoderInv, PageInv
<1>9. ViewersInv'
    BY <1>3 DEF CloseRuns, counts, registry, watching, ScreencastInv, ViewersInv
<1>10. QED BY <1>5, <1>7, <1>8, <1>9 DEF ScreencastInv

(* The browser is gone: the queue is failed, the owner stays.               *)
LEMMA BrowserDiesKeeps ==
    ASSUME ScreencastInv, BrowserDies
    PROVE  ScreencastInv'
<1> DEFINE T == Tasks \cup {"close"}
<1>1. /\ gate' = "closed" /\ gone' = TRUE /\ casting' = {} /\ gate # "closed"
      /\ told' = told /\ dead' = dead
      /\ line \in Seq(T) /\ Distinct(line) /\ pc \in [Tasks -> AllPcs]
    BY DEF BrowserDies, ScreencastInv, LineInv, LockInv
<1>2. \A t \in Tasks :
         \/ pc'[t] = pc[t] /\ (pc[t] \in Lining => Owner(t))
         \/ ~Owner(t) /\ pc[t] \in {"lining", "removing"} /\ pc'[t] = Failed(t)
    <2>1. TAKE t \in Tasks
    <2>2. /\ InLine(t) <=> pc[t] \in Lining
          /\ pc[t] \in Holding => Owner(t)
        BY LineWords DEF ScreencastInv, LineInv
    <2>3. pc'[t] = IF InLine(t) /\ ~Owner(t) THEN Failed(t) ELSE pc[t]
        BY DEF BrowserDies
    <2>4. QED BY <2>2, <2>3 DEF Lining, Holding
<1>3. /\ \A v \in Viewers : pc[v] = "lining" => Failed(v) = "dropping"
      /\ \A t \in Tasks : pc[t] = "removing" => Failed(t) = "falling" /\ t \in Viewers
      /\ pc["watch"] = "lining" => Failed("watch") = "listening"
      /\ pc["op"] = "lining" => Failed("op") = "away"
    BY Names DEF Failed, ScreencastInv, ScreencastTypeOK, WatchPcs, Tasks
<1>4. /\ \A v \in Viewers :
            \/ pc'[v] = pc[v]
            \/ pc[v] = "lining" /\ pc'[v] = "dropping"
            \/ pc[v] = "removing" /\ pc'[v] = "falling"
      /\ \/ pc'["watch"] = pc["watch"] /\ (pc["watch"] \in Lining => Owner("watch"))
         \/ pc["watch"] = "lining" /\ pc'["watch"] = "listening" /\ ~Owner("watch")
      /\ \/ pc'["op"] = pc["op"]
         \/ pc["op"] = "lining" /\ pc'["op"] = "away"
    <2>1. /\ pc["watch"] # "removing" /\ pc["op"] # "removing"
        BY Names DEF ScreencastInv, ScreencastTypeOK, WatchPcs
    <2>2. QED BY <1>2, <1>3, <2>1, Names
<1>5. pc' \in [Tasks -> AllPcs]
    <2>1. pc' = [t \in Tasks |-> pc'[t]]
        BY DEF BrowserDies
    <2>2. \A t \in Tasks : pc'[t] \in AllPcs
        BY <1>1, <1>2, <1>3, <1>4, Names DEF AllPcs, LeavePcs, Tasks
    <2>3. QED BY <2>1, <2>2
<1>6. /\ line' \in Seq(T) /\ Distinct(line') /\ \A x : Leads(line', x) <=> On(line', x)
      /\ \A t \in Tasks : On(line', t) <=> Owner(t)
      /\ ~On(line', "close")
    <2>1. CASE line = <<>> \/ Owner("close")
        <3>1. line' = <<>> /\ Len(<<>>) = 0 /\ <<>> \in Seq(T)
            BY <2>1 DEF BrowserDies
        <3>2. \A t \in Tasks : ~Owner(t)
            BY <2>1, Names DEF Owner
        <3>3. QED BY <3>1, <3>2 DEF On, Leads, Distinct
    <2>2. CASE ~(line = <<>> \/ Owner("close"))
        <3> DEFINE h == Head(line)
        <3>1. line' = <<h>> /\ h \in T /\ h # "close" /\ line # <<>>
            BY <1>1, <2>2 DEF BrowserDies, Owner
        <3>2. \A t \in Tasks : Owner(t) <=> t = h
            BY <3>1 DEF Owner
        <3> HIDE DEF h
        <3>3. /\ <<h>> \in Seq(T) /\ Len(<<h>>) = 1 /\ <<h>>[1] = h /\ Head(<<h>>) = h
              /\ <<h>> # <<>>
            BY <3>1
        <3>4. \A x : On(line', x) <=> x = h
            BY <3>1, <3>3 DEF On
        <3>5. \A x : Leads(line', x) <=> x = h
            BY <3>1, <3>3 DEF Leads
        <3>6. Distinct(line')
            BY <3>1, <3>3 DEF Distinct
        <3>7. QED BY <3>1, <3>2, <3>3, <3>4, <3>5, <3>6
    <2>3. QED BY <2>1, <2>2
<1>7. LineInv'
    <2>1. \A t \in Tasks : On(line', t) <=> pc'[t] \in Lining
        <3>1. TAKE t \in Tasks
        <3>2. Owner(t) => On(line, t)
            BY <1>1 DEF Owner, On
        <3>3. Owner(t) => pc[t] \in Lining
            BY <3>2 DEF ScreencastInv, LineInv
        <3>4. ~Owner(t) /\ pc[t] \in {"lining", "removing"} /\ pc'[t] = Failed(t)
                => pc'[t] \notin Lining
            BY <1>3, Names DEF Lining, Tasks
        <3>5. QED BY <1>2, <1>6, <3>3, <3>4
    <2>2. \A t \in Tasks : pc'[t] \in Holding => Leads(line', t)
        BY <1>6, <2>1 DEF Holding, Lining
    <2>3. QED BY <1>1, <1>6, <2>1, <2>2 DEF LineInv
<1>8. started' \in BOOLEAN /\ registered' \in BOOLEAN /\ cutShort' \in BOOLEAN /\ sub' \in BOOLEAN
      /\ told' \in BOOLEAN /\ gone' \in BOOLEAN
    BY <1>1, Zenon DEF BrowserDies, counts, registry, ScreencastInv, ScreencastTypeOK
<1>9. ScreencastTypeOK'
    <2>1. \A v \in Viewers : pc'[v] \in {"away", "showing"} \cup AddPcs \cup LeavePcs
        BY <1>4 DEF ScreencastInv, ScreencastTypeOK, LeavePcs
    <2>2. /\ pc'["op"] \in {"away", "lining", "moving", "stopping", "starting"}
          /\ pc'["watch"] \in WatchPcs
        BY <1>4 DEF ScreencastInv, ScreencastTypeOK, WatchPcs
    <2>3. want' \in Pages \cup {None}
        BY DEF BrowserDies, ScreencastInv, ScreencastTypeOK
    <2>4. QED BY <1>1, <1>6, <1>8, <2>1, <2>2, <2>3 DEF BrowserDies, counts, registry,
            ScreencastInv, ScreencastTypeOK
<1>10. LockInv'
    <2>1. \A t \in Tasks : pc'[t] \in {"starting", "stopping", "dousing"}
                            <=> pc[t] \in {"starting", "stopping", "dousing"}
        BY <1>2, <1>3, Names DEF Tasks
    <2>2. QED BY <1>5, <2>1 DEF BrowserDies, ScreencastInv, LockInv
<1>11. EncoderInv'
    <2>1. \A t \in Tasks : pc'[t] \in {"starting", "stopping", "dousing"} => pc'[t] = pc[t]
        BY <1>2, <1>3, Names DEF Tasks
    <2>2. pc'["watch"] = "none" <=> pc["watch"] = "none"
        BY <1>4
    <2>3. QED BY <1>1, <2>1, <2>2, Names DEF BrowserDies, ScreencastInv, EncoderInv
<1>12. ViewersInv'
    <2>1. \A w \in Viewers : pc[w] = "away" <=> pc'[w] = "away"
        BY <1>4
    <2>2. \A w \in Viewers : pc'[w] \in Viewing => pc[w] \in Viewing
        BY <1>4 DEF Viewing
    <2>3. \A w \in viewers : pc'[w] \in Viewing \/ (cutShort /\ pc'[w] \in {"dropping", "away"})
        <3>1. TAKE w \in viewers
        <3>2. w \in Viewers
            BY DEF ScreencastInv, ScreencastTypeOK
        <3>3. QED BY <1>4, <3>2 DEF ScreencastInv, ViewersInv, Viewing
    <2>4. /\ \A w \in Viewers : pc'[w] \in {"stopping", "dousing", "starting"} => pc'[w] = pc[w]
          /\ \A w \in Viewers : pc'[w] \in AddPcs => pc'[w] = pc[w]
          /\ \A w \in Viewers : pc[w] \in {"starting", "dousing"} => pc'[w] = pc[w]
        BY <1>4 DEF AddPcs
    <2>5. \A w \in pending : w \in Viewers
        BY DEF ScreencastInv, ScreencastTypeOK
    <2>6. /\ viewers' = viewers /\ pending' = pending /\ cutShort' = cutShort
          /\ registered' = registered /\ sub' = sub
        BY DEF BrowserDies, counts, registry
    <2>7. ViewersInv
        BY DEF ScreencastInv
    <2>8. registered /\ ~cutShort => \E w \in Viewers : pc'[w] # "away"
        BY <2>1, <2>7 DEF ViewersInv
    <2>9. viewers = {} /\ ~cutShort /\ (\A w \in Viewers : pc'[w] \notin {"starting", "dousing"}) => ~sub
        BY <2>4, <2>7 DEF ViewersInv
    <2>10. /\ \A w \in Viewers : pc'[w] \in Viewing => w \in viewers
           /\ \A w \in Viewers : pc'[w] = "stopping" => viewers = {w}
           /\ \A w \in Viewers : pc'[w] = "dousing" => viewers = {}
           /\ \A w \in Viewers : pc'[w] \in AddPcs => w \in pending
        BY <2>2, <2>4, <2>7 DEF ViewersInv
    <2>11. (\A w \in pending : pc'[w] # "away") /\ (~registered => pending = {} /\ viewers = {})
        BY <2>1, <2>5, <2>7 DEF ViewersInv
    <2>12. QED BY <1>1, <2>3, <2>6, <2>8, <2>9, <2>10, <2>11 DEF ViewersInv
<1>13. PageInv'
    <2>1. pc'["watch"] = "lining" => want' # None
        BY <1>4 DEF BrowserDies, Lining, ScreencastInv, PageInv
    <2>2. QED BY <1>1, <2>1 DEF PageInv
<1>14. QED BY <1>7, <1>9, <1>10, <1>11, <1>12, <1>13 DEF ScreencastInv

(* A step that changes nothing of the preview.                             *)
LEMMA ScreencastStutters ==
    ASSUME ScreencastInv, UNCHANGED vars
    PROVE  ScreencastInv'
BY DEF ScreencastInv, ScreencastTypeOK, LineInv, LockInv, EncoderInv, ViewersInv, PageInv, vars,
        session, counts, registry, encoder, watching

(* A new session has nobody in its line, no viewer and no encoder.          *)
LEMMA ScreencastInit == Init => ScreencastInv
<1> SUFFICES ASSUME Init PROVE ScreencastInv
    OBVIOUS
<1>1. /\ pc \in [Tasks -> AllPcs]
      /\ pc["watch"] = "none" /\ \A t \in Tasks \ {"watch"} : pc[t] = "away"
    BY Names DEF Init, AllPcs
<1>2. line = <<>> /\ Len(line) = 0 /\ line \in Seq(Tasks \cup {"close"})
    BY DEF Init
<1>3. LineInv
    BY <1>1, <1>2 DEF Init, LineInv, Distinct, On, Lining, Holding
<1>4. ScreencastTypeOK
    <2>1. page \in Pages /\ bound \in Pages \cup {None} /\ want \in Pages \cup {None}
          /\ ops \in 0..MaxOps /\ visits \in 0..MaxVisits
        BY ScreencastAssumption DEF Init, Pages
    <2>2. events \in Seq({"recovered", "closed"})
        BY EmptySeq DEF Init
    <2>3. (lock = "free" => (started <=> bound # None)) /\ lock \in Tasks \cup {"free"}
        BY DEF Init
    <2>4. /\ \A v \in Viewers : pc[v] \in {"away", "showing"} \cup AddPcs \cup LeavePcs
          /\ pc["op"] \in {"away", "lining", "moving", "stopping", "starting"}
          /\ pc["watch"] \in WatchPcs
        BY <1>1, Names DEF WatchPcs
    <2>5. QED BY <1>2, <2>1, <2>2, <2>3, <2>4 DEF Init, ScreencastTypeOK
<1>5. LockInv
    BY <1>1, Names DEF Init, LockInv
<1>6. EncoderInv
    BY <1>1, Names DEF Init, EncoderInv
<1>7. ViewersInv
    BY <1>1, Names DEF Init, ViewersInv, Viewing, AddPcs
<1>8. PageInv
    BY <1>1 DEF Init, PageInv
<1>9. QED BY <1>3, <1>4, <1>5, <1>6, <1>7, <1>8 DEF ScreencastInv

(* No step of the preview disturbs it.                                      *)
LEMMA ScreencastStep ==
    ASSUME ScreencastInv, Next
    PROVE  ScreencastInv'
<1>1. ASSUME NEW v \in Viewers, Joins(v) PROVE ScreencastInv'
    BY <1>1, AcquireKeeps, AddEntersKeeps, AddTimesOutKeeps, AddRunsKeeps, StartDoneKeeps,
       StartFailsKeeps, CancelKeeps DEF Joins
<1>2. ASSUME NEW v \in Viewers, Parts(v) PROVE ScreencastInv'
    BY <1>2, DisconnectKeeps, RemoveKeeps, RemoveRunsKeeps, StopReturnsKeeps, FallsBackKeeps,
       FallbackStoppedKeeps, DropKeeps, RemoveTimesOutKeeps, RedeliveredKeeps DEF Parts
<1>3. ASSUME NEW r \in {"op", "watch"}, Moves(r) PROVE ScreencastInv'
    BY <1>3, RebindKeeps, RebindStoppedKeeps, RebindStartedKeeps, RebindFailsKeeps DEF Moves
<1>4. ASSUME Watches PROVE ScreencastInv'
    BY <1>4, HearsRecoveryKeeps, HearsCloseKeeps, TerminateKeeps, TerminatedKeeps DEF Watches
<1>5. ASSUME Session PROVE ScreencastInv'
    BY <1>5, OpAsksKeeps, OpWorksKeeps, SwitchPageKeeps, RecoverPageKeeps, CloseAskedKeeps,
       CloseRunsKeeps, BrowserDiesKeeps, ClosePublishedKeeps DEF Session
<1>6. QED BY <1>1, <1>2, <1>3, <1>4, <1>5 DEF Next

(* The inductive invariant: who stands in the gate's line, who holds the    *)
(* lock, what runs for whom, and which page it shows.                       *)
THEOREM ScreencastInvariant == Spec => []ScreencastInv
<1>1. ScreencastInv /\ [Next]_vars => ScreencastInv'
    BY ScreencastStep, ScreencastStutters
<1>2. QED BY <1>1, ScreencastInit, PTL DEF Spec

(* When the endpoints have returned and no removal was broken off, nothing  *)
(* of the preview is left, and a manager that was dropped is idle           *)
(* (acquire_viewer, remove_viewer, release_viewer).                         *)
THEOREM NothingLeft == Spec => []NothingLeftBehind
<1>1. ScreencastInv => NothingLeftBehind
    <2> SUFFICES ASSUME ScreencastInv PROVE NothingLeftBehind
        OBVIOUS
    <2>1. ASSUME ~cutShort, viewers = {}, \A w \in Viewers : pc[w] \notin {"starting", "dousing"},
                 ~started
          PROVE  Idle
        <3>1. ~sub /\ bound = None /\ casting \subseteq {bound} /\ casting \subseteq Pages
            BY <2>1 DEF ScreencastInv, ScreencastTypeOK, EncoderInv, ViewersInv
        <3>2. casting = {}
            BY <3>1 DEF Pages, None
        <3>3. QED BY <2>1, <3>1, <3>2 DEF Idle, ScreencastInv, EncoderInv
    <2>2. viewers = {} => ~started
        BY DEF ScreencastInv, EncoderInv
    <2>3. ASSUME ~cutShort, \A v \in Viewers : pc[v] = "away" PROVE Idle /\ ~registered
        <3>1. viewers = {}
            BY <2>3 DEF ScreencastInv, ViewersInv
        <3>2. QED BY <2>1, <2>2, <2>3, <3>1 DEF ScreencastInv, ViewersInv
    <2>4. ASSUME ~cutShort, ~registered, gate = "open" PROVE Idle
        <3>1. viewers = {} /\ \A w \in Viewers : pc[w] \notin {"starting", "dousing"}
            BY <2>4 DEF ScreencastInv, ViewersInv, AddPcs
        <3>2. QED BY <2>1, <2>2, <2>4, <3>1
    <2>5. ScreencastTypeOK
        BY DEF ScreencastInv
    <2>6. QED BY <2>3, <2>4, <2>5 DEF NothingLeftBehind
<1>2. QED BY <1>1, ScreencastInvariant, PTL

(* One encoder at most, on the page the manager knows, and never started on *)
(* a page that has one (the manager's _lock and _rebind_locked's order).    *)
THEOREM EncoderAlone == Spec => []OneEncoder
<1>1. ScreencastInv => OneEncoder
    <2> SUFFICES ASSUME ScreencastInv PROVE OneEncoder
        OBVIOUS
    <2>1. casting \subseteq {bound}
        BY DEF ScreencastInv, EncoderInv
    <2>2. Cardinality(casting) <= 1
        <3>1. casting = {} \/ casting = {bound}
            BY <2>1
        <3>2. Cardinality({}) = 0 /\ Cardinality({bound}) = 1
            BY FS_EmptySet, FS_Singleton
        <3>3. QED BY <3>1, <3>2
    <2>3. ASSUME NEW t \in Tasks, pc[t] = "starting" PROVE page \notin casting
        <3>1. ~started /\ bound = None
            BY <2>3 DEF ScreencastInv, EncoderInv
        <3>2. QED BY <2>1, <3>1 DEF ScreencastInv, ScreencastTypeOK, Pages, None
    <2>4. QED BY <2>1, <2>2, <2>3 DEF OneEncoder
<1>2. QED BY <1>1, ScreencastInvariant, PTL

(* An open session with no operation and no event under way is shown on its *)
(* active page (notify_active_page, _watch_recovery).                       *)
THEOREM ActivePageShown == Spec => []ShowsActivePage
<1>1. ScreencastInv => ShowsActivePage
    BY DEF ScreencastInv, ScreencastTypeOK, PageInv, ShowsActivePage
<1>2. QED BY <1>1, ScreencastInvariant, PTL


=============================================================================
