----------------------- MODULE FollowerSessionsProofs -----------------------
(* What holds of the sessions of any followers, with any bounds.            *)
EXTENDS FollowerSessions, SequenceTheorems, FiniteSetTheorems, WellFoundedInduction, TLAPS

(* Sequences in which nothing is twice.                                     *)
Distinct(q) == \A i, j \in 1..Len(q) : q[i] = q[j] => i = j
Members(q) == {q[i] : i \in 1..Len(q)}

(* What is left of a sequence without its k-th element.                     *)
Cut(q, k) == SubSeq(q, 1, k - 1) \o SubSeq(q, k + 1, Len(q))

(* Without its k-th element a sequence is one shorter, and has the others   *)
(* where they were or one place earlier.                                    *)
LEMMA Removed ==
    ASSUME NEW S, NEW q \in Seq(S), NEW k \in 1..Len(q)
    PROVE  /\ Cut(q, k) \in Seq(S) /\ Len(Cut(q, k)) = Len(q) - 1
           /\ \A i \in 1..(k - 1) : Cut(q, k)[i] = q[i]
           /\ \A i \in k..(Len(q) - 1) : Cut(q, k)[i] = q[i + 1]
<1> DEFINE r == Cut(q, k)
           a == SubSeq(q, 1, k - 1)
           b == SubSeq(q, k + 1, Len(q))
<1>1. a \in Seq(S) /\ Len(a) = k - 1 /\ \A i \in 1..(k - 1) : a[i] = q[i]
    OBVIOUS
<1>2. b \in Seq(S) /\ Len(b) = Len(q) - k /\ \A i \in 1..(Len(q) - k) : b[i] = q[k + i]
    OBVIOUS
<1>3. r = a \o b
    BY DEF Cut
<1> HIDE DEF a, b, r
<1>4. /\ r \in Seq(S) /\ Len(r) = Len(a) + Len(b)
      /\ \A i \in 1..(Len(a) + Len(b)) : r[i] = IF i <= Len(a) THEN a[i] ELSE b[i - Len(a)]
    BY <1>1, <1>2, <1>3, ConcatProperties, Zenon
<1>5. ASSUME NEW i \in k..(Len(q) - 1) PROVE r[i] = q[i + 1]
    <2>1. i - Len(a) \in 1..(Len(q) - k) /\ k + (i - Len(a)) = i + 1
        BY <1>1
    <2>2. i \in 1..(Len(a) + Len(b)) /\ ~(i <= Len(a))
        BY <1>1, <1>2
    <2>3. r[i] = b[i - Len(a)]
        BY <1>4, <2>2
    <2>4. QED BY <1>2, <2>1, <2>3
<1>6. ASSUME NEW i \in 1..(k - 1) PROVE r[i] = q[i]
    <2>1. i \in 1..(Len(a) + Len(b)) /\ i <= Len(a)
        BY <1>1, <1>2
    <2>2. r[i] = a[i]
        BY <1>4, <2>1
    <2>3. QED BY <1>1, <2>2
<1>7. Len(r) = Len(q) - 1
    BY <1>1, <1>2, <1>4
<1>8. QED BY <1>4, <1>5, <1>6, <1>7 DEF r

(* Without an element that was in it once, it has the others.               *)
LEMMA RemovedMembers ==
    ASSUME NEW S, NEW q \in Seq(S), Distinct(q), NEW k \in 1..Len(q)
    PROVE  Distinct(Cut(q, k)) /\ Members(Cut(q, k)) = Members(q) \ {q[k]}
<1> DEFINE r == Cut(q, k)
<1>1. /\ r \in Seq(S) /\ Len(r) = Len(q) - 1
      /\ \A i \in 1..(k - 1) : r[i] = q[i]
      /\ \A i \in k..(Len(q) - 1) : r[i] = q[i + 1]
    BY Removed
<1> HIDE DEF r
<1>2. Distinct(r)
    <2> SUFFICES ASSUME NEW i \in 1..Len(r), NEW j \in 1..Len(r), r[i] = r[j] PROVE i = j
        BY DEF Distinct
    <2>1. CASE i < k /\ j < k
        BY SMTT(20), <1>1, <2>1 DEF Distinct
    <2>2. CASE i < k /\ j >= k
        <3>1. q[i] = q[j + 1] /\ i # j + 1
            BY <1>1, <2>2
        <3>2. QED BY <1>1, <2>2, <3>1 DEF Distinct
    <2>3. CASE i >= k /\ j < k
        <3>1. q[i + 1] = q[j] /\ j # i + 1
            BY <1>1, <2>3
        <3>2. QED BY <1>1, <2>3, <3>1 DEF Distinct
    <2>4. CASE i >= k /\ j >= k
        <3>1. q[i + 1] = q[j + 1]
            BY <1>1, <2>4
        <3>2. QED BY <1>1, <2>4, <3>1 DEF Distinct
    <2>5. QED BY <1>1, <2>1, <2>2, <2>3, <2>4
<1>3. ASSUME NEW i \in 1..Len(r) PROVE r[i] \in Members(q) \ {q[k]}
    <2>1. CASE i < k
        BY <1>1, <2>1 DEF Members, Distinct
    <2>2. CASE i >= k
        <3>1. r[i] = q[i + 1] /\ i + 1 \in 1..Len(q) /\ i + 1 # k
            BY <1>1, <2>2
        <3>2. QED BY <3>1 DEF Members, Distinct
    <2>3. QED BY <1>1, <2>1, <2>2
<1>4. ASSUME NEW i \in 1..Len(q), i # k PROVE q[i] \in Members(r)
    <2>1. CASE i < k
        BY <1>1, <2>1 DEF Members
    <2>2. CASE i > k
        <3>1. r[i - 1] = q[i] /\ i - 1 \in 1..Len(r)
            BY <1>1, <2>2
        <3>2. QED BY <3>1 DEF Members
    <2>3. QED BY <1>4, <2>1, <2>2
<1>5. QED BY <1>2, <1>3, <1>4 DEF Members, r

(* Behind a new element everything stands where it stood.                   *)
LEMMA Appended ==
    ASSUME NEW S, NEW q \in Seq(S), NEW t \in S
    PROVE  /\ Append(q, t) \in Seq(S) /\ Members(Append(q, t)) = Members(q) \cup {t}
           /\ \A i \in 1..Len(q) : i \in 1..Len(Append(q, t)) /\ Append(q, t)[i] = q[i]
           /\ Distinct(q) /\ t \notin Members(q) => Distinct(Append(q, t))
<1> DEFINE r == Append(q, t)
<1>1. /\ r \in Seq(S) /\ Len(r) = Len(q) + 1 /\ r[Len(q) + 1] = t
      /\ \A i \in 1..Len(q) : r[i] = q[i]
    OBVIOUS
<1> HIDE DEF r
<1>2. Members(r) = Members(q) \cup {t}
    <2>1. ASSUME NEW i \in 1..Len(r) PROVE r[i] \in Members(q) \cup {t}
        BY <1>1 DEF Members
    <2>2. ASSUME NEW i \in 1..Len(q) PROVE q[i] \in Members(r)
        BY <1>1 DEF Members
    <2>3. t \in Members(r)
        BY <1>1 DEF Members
    <2>4. QED BY <2>1, <2>2, <2>3 DEF Members
<1>3. Distinct(q) /\ t \notin Members(q) => Distinct(r)
    BY <1>1 DEF Distinct, Members
<1>4. QED BY <1>1, <1>2, <1>3 DEF r

(* It is as long as it has members.                                         *)
LEMMA DistinctCount ==
    ASSUME NEW S, NEW q \in Seq(S), Distinct(q)
    PROVE  Cardinality(Members(q)) = Len(q)
<1> DEFINE n == Len(q)
           f == [i \in 1..n |-> q[i]]
<1>1. f \in Bijection(1..n, Members(q))
    BY DEF Bijection, Injection, Surjection, IsInjective, Members, Distinct
<1>2. ExistsBijection(1..n, Members(q)) /\ n \in Nat
    BY <1>1 DEF ExistsBijection
<1>3. QED BY <1>2, FS_CountingElements

(* The types, the leader's and the followers'.                              *)
LeaderOK ==
    /\ created \in 0..MaxSessions /\ table \subseteq 1..created /\ terminated \subseteq table
    /\ recent \in Seq(Sessions) /\ Distinct(recent) /\ SeenIds \subseteq 1..created
    /\ keeper \in {"asleep", "reaping", "closing", "removing", "dropping", "capping",
                   "evicting", "shutting"}
    /\ todo \cup dead \subseteq [pid : Followers, sid : Sessions \cup {None}]
    /\ victims \in Seq(Sessions) /\ target \in Sessions \cup {None}

FollowersOK ==
    /\ life \in [Followers ->
         {"unborn", "connecting", "recording", "up", "resetting", "dead"}]
    /\ greeted \subseteq Followers /\ current \in [Followers -> Sessions \cup {None}]
    /\ latest \in [Followers -> 0..MaxSnapshots] /\ jobs \in [Followers -> SUBSET Job]
    /\ rows \in [Followers -> Row] /\ image \in [Followers -> Row]
    /\ lock \in Followers \cup {"free", "leader"} /\ skips \in 0..MaxSkips

(* A follower that has not started has written nothing.                     *)
UnbornInv ==
    \A f \in Followers :
        life[f] = "unborn" => latest[f] = 0 /\ jobs[f] = {} /\ rows[f] = NoRow

(* The lock is its holder's, one attempt at a time, and what the holder has *)
(* read is still what the file says of those that live.                     *)
LockInv ==
    /\ \A f \in Followers : \A j \in jobs[f] : j.at = "holding" => lock = f
    /\ \A f \in Followers : \A j, k \in jobs[f] :
           j.at = "holding" /\ k.at = "holding" => j = k
    /\ keeper = "dropping" <=> lock = "leader"
    /\ lock # "free" => \A f \in Followers : life[f] # "dead" => image[f] = rows[f]

(* An attempt is retried when a transaction failed.                         *)
TriesInv == \A f \in Followers : \A j \in jobs[f] : j.tries <= skips

(* The newest snapshot of a follower that lives is written, unless it is    *)
(* under way or was refused more often than it is retried, and no older one *)
(* is being written any more.                                               *)
NewestInv ==
    \A f \in Followers :
        (Alive(f) /\ latest[f] > 0 /\ skips <= MaxRetries
         /\ \A j \in jobs[f] : j.gen # latest[f])
           => rows[f].gen = latest[f] /\ lock # f

(* Nothing names a session that has not been created yet.                   *)
Known == 0..created
KnownInv ==
    /\ \A f \in Followers :
           current[f] \in Known /\ rows[f].sid \in Known /\ image[f].sid \in Known
    /\ \A f \in Followers : \A j \in jobs[f] : j.sid \in Known
    /\ \A row \in todo \cup dead : row.sid \in Known

(* What the pass has read: rows of followers that have lived; of the dead   *)
(* ones the session is out of the table, or is the one being closed.        *)
PassInv ==
    /\ \A row \in todo : life[row.pid] # "unborn"
    /\ \A row \in dead : life[row.pid] = "dead"
    /\ \A row \in dead : row.sid \in table => keeper = "closing" /\ target = row.sid

FollowerInv ==
    /\ LeaderOK /\ FollowersOK
    /\ UnbornInv /\ LockInv /\ TriesInv /\ NewestInv /\ KnownInv /\ PassInv

(* Of the sessions there were when the table was counted, what is left      *)
(* besides those that are to be evicted, or are being shut down, is within  *)
(* the cap until the eviction ends.                                         *)
Doomed == Members(victims) \cup (IF keeper = "shutting" THEN {target} ELSE {})
Left == (table \cap 1..counted) \ Doomed
CountInv ==
    /\ counted \in 0..created
    /\ keeper \in {"evicting", "shutting"} => Cardinality(Left) <= Cap

(* Sessions are the numbers from 1 to the bound, None is none of them, and  *)
(* a lock's holder is never mistaken for a follower.                        *)
LEMMA SessionNumbers ==
    /\ MaxSessions \in Nat \ {0} /\ MaxSnapshots \in Nat \ {0} /\ MaxRetries \in Nat
    /\ MaxSkips \in Nat /\ Cap \in Nat \ {0}
    /\ None \notin Sessions /\ \A n : n \in Sessions <=> n \in Nat /\ 1 <= n /\ n <= MaxSessions
    /\ "free" \notin Followers /\ "leader" \notin Followers
BY FollowerAssumption DEF Sessions, None

(* The tracker's entries are the members of its order, as they are and as   *)
(* they become.                                                             *)
LEMMA SeenMembers ==
    /\ SeenIds = Members(recent) /\ SeenIds' = Members(recent')
    /\ recent' \in Seq(Sessions) /\ Distinct(recent') => Cardinality(SeenIds') = Len(recent')
    /\ recent \in Seq(Sessions) => SeenIds \subseteq Sessions
<1>1. SeenIds = Members(recent) /\ SeenIds' = Members(recent')
    BY DEF SeenIds, Members
<1>2. ASSUME recent \in Seq(Sessions), NEW i \in 1..Len(recent) PROVE recent[i] \in Sessions
    BY <1>2
<1>3. QED BY <1>1, <1>2, DistinctCount DEF SeenIds

(* An entry taken out of the tracker leaves the others, in their order.     *)
LEMMA WithoutFacts ==
    ASSUME recent \in Seq(Sessions), Distinct(recent), NEW s
    PROVE  /\ Without(s) \in Seq(Sessions) /\ Distinct(Without(s))
           /\ Members(Without(s)) = SeenIds \ {s}
<1>1. CASE s \in SeenIds
    <2> DEFINE k == Place(s)
    <2>1. k \in 1..Len(recent) /\ recent[k] = s
        BY <1>1 DEF SeenIds, Place
    <2>2. Without(s) = Cut(recent, k)
        BY <1>1 DEF Without, Cut
    <2> HIDE DEF k
    <2>3. Cut(recent, k) \in Seq(Sessions)
        BY <2>1, Removed
    <2>4. Distinct(Cut(recent, k)) /\ Members(Cut(recent, k)) = Members(recent) \ {s}
        BY <2>1, RemovedMembers
    <2>5. QED BY <2>2, <2>3, <2>4, SeenMembers
<1>2. CASE s \notin SeenIds
    <2>1. Without(s) = recent
        BY <1>2 DEF Without
    <2>2. QED BY <1>2, <2>1, SeenMembers
<1>3. QED BY <1>1, <1>2

(* _record moves an entry to the end, or adds it there.                     *)
LEMMA SeenFacts ==
    ASSUME recent \in Seq(Sessions), Distinct(recent), NEW s \in Sessions
    PROVE  /\ Seen(s) \in Seq(Sessions) /\ Distinct(Seen(s))
           /\ Members(Seen(s)) = SeenIds \cup {s}
<1> DEFINE w == Without(s)
<1>1. w \in Seq(Sessions) /\ Distinct(w) /\ Members(w) = SeenIds \ {s}
    BY WithoutFacts
<1> HIDE DEF w
<1>2. /\ Append(w, s) \in Seq(Sessions) /\ Members(Append(w, s)) = Members(w) \cup {s}
      /\ Distinct(w) /\ s \notin Members(w) => Distinct(Append(w, s))
    BY <1>1, Appended
<1>3. Seen(s) = Append(w, s)
    BY DEF Seen, w
<1>4. QED BY <1>1, <1>2, <1>3

(* The tracker forgets its oldest entry and keeps the others.               *)
LEMMA ForgetFacts ==
    ASSUME recent \in Seq(Sessions), Distinct(recent), recent # <<>>
    PROVE  /\ Tail(recent) \in Seq(Sessions) /\ Distinct(Tail(recent))
           /\ Members(Tail(recent)) \subseteq SeenIds
<1> DEFINE t == Tail(recent)
<1>1. t \in Seq(Sessions) /\ Len(t) = Len(recent) - 1 /\ \A i \in 1..Len(t) : t[i] = recent[i + 1]
    OBVIOUS
<1> HIDE DEF t
<1>2. Distinct(t)
    <2> SUFFICES ASSUME NEW i \in 1..Len(t), NEW j \in 1..Len(t), t[i] = t[j] PROVE i = j
        BY DEF Distinct
    <2>1. recent[i + 1] = recent[j + 1] /\ i + 1 \in 1..Len(recent) /\ j + 1 \in 1..Len(recent)
        BY <1>1
    <2>2. QED BY <2>1 DEF Distinct
<1>3. ASSUME NEW i \in 1..Len(t) PROVE t[i] \in SeenIds
    <2>1. t[i] = recent[i + 1] /\ i + 1 \in 1..Len(recent)
        BY <1>1
    <2>2. QED BY <2>1 DEF SeenIds
<1>4. QED BY <1>1, <1>2, <1>3 DEF Members, t

(* A set of numbers that is not empty has a least one.                      *)
LEMMA Least ==
    ASSUME NEW C \in SUBSET Nat, C # {}
    PROVE  \E n \in C : \A m \in C : n <= m
<1>1. PICK n \in C : \A m \in C : ~(<<m, n>> \in OpToRel(<, Nat))
    BY NatLessThanWellFounded, WFMin, Zenon
<1>2. \A m \in C : ~(m < n)
    BY <1>1 DEF OpToRel
<1>3. QED BY <1>2

(* Any set of sessions is finite and has a size.                            *)
LEMMA SessionsFinite ==
    ASSUME NEW S \in SUBSET Sessions
    PROVE  IsFiniteSet(S) /\ Cardinality(S) \in Nat
<1>1. 1 \in Int /\ MaxSessions \in Int
    BY SessionNumbers
<1>2. IsFiniteSet(Sessions)
    BY <1>1, FS_Interval DEF Sessions
<1>3. QED BY <1>2, FS_Subset, FS_CardinalityType

(* Every session has a turn of its own.                                     *)
LEMMA Turns ==
    ASSUME recent \in Seq(Sessions), Distinct(recent)
    PROVE  /\ \A s \in Sessions : Turn(s) \in Nat
           /\ \A s, t \in Sessions : Turn(s) = Turn(t) => s = t
<1>1. \A s \in SeenIds : Place(s) \in 1..Len(recent) /\ recent[Place(s)] = s
    BY DEF SeenIds, Place
<1>2. ASSUME NEW s \in Sessions
      PROVE  /\ s \in Nat /\ s <= MaxSessions
             /\ s \in SeenIds => Turn(s) \in Nat /\ Turn(s) > MaxSessions
                                 /\ Place(s) = Turn(s) - MaxSessions
             /\ s \notin SeenIds => Turn(s) = s
    <2>1. s \in Nat /\ s <= MaxSessions /\ MaxSessions \in Nat
        BY SessionNumbers
    <2>2. CASE s \in SeenIds
        <3>1. Place(s) \in Nat \ {0} /\ Turn(s) = MaxSessions + Place(s)
            BY <1>1, <2>2 DEF Turn
        <3>2. QED BY <2>1, <2>2, <3>1
    <2>3. QED BY <2>1, <2>2 DEF Turn
<1>3. ASSUME NEW s \in Sessions, NEW t \in Sessions, Turn(s) = Turn(t)
      PROVE  s = t
    <2>1. CASE s \in SeenIds /\ t \in SeenIds
        <3>1. Place(s) = Place(t)
            BY <1>2, <1>3, <2>1
        <3>2. QED BY <1>1, <2>1, <3>1
    <2>2. CASE s \notin SeenIds /\ t \notin SeenIds
        BY <1>2, <1>3, <2>2
    <2>3. ASSUME NEW u \in Sessions, NEW v \in Sessions, u \in SeenIds, v \notin SeenIds
          PROVE  Turn(u) # Turn(v)
        <3>1. Turn(u) \in Nat /\ Turn(u) > MaxSessions /\ Turn(v) = v
            BY <1>2, <2>3
        <3>2. v \in Nat /\ v <= MaxSessions /\ MaxSessions \in Nat
            BY SessionNumbers
        <3>3. QED BY <3>1, <3>2
    <2>4. QED BY <1>3, <2>1, <2>2, <2>3
<1>4. QED BY <1>2, <1>3, SessionNumbers

(* The sessions of a set one after another, each when its turn comes.       *)
Sorted(S, q) ==
    /\ q \in [1..Cardinality(S) -> S]
    /\ \A i, k \in 1..Cardinality(S) : i < k => Turn(q[i]) < Turn(q[k])

(* Any set of sessions has an order by their turn. By least counterexample: *)
(* of the sets that had none, one of the smallest size would have one after *)
(* all, that of the others behind the one whose turn comes first.           *)
LEMMA SortedExists ==
    ASSUME recent \in Seq(Sessions), Distinct(recent)
    PROVE  \A S \in SUBSET Sessions : \E q : Sorted(S, q)
<1> DEFINE Bad == {S \in SUBSET Sessions : ~\E q : Sorted(S, q)}
           Sizes == {Cardinality(S) : S \in Bad}
<1>1. ASSUME NEW S \in SUBSET Sessions
      PROVE  IsFiniteSet(S) /\ Cardinality(S) \in Nat
    BY SessionsFinite
<1>2. SUFFICES ASSUME Bad # {} PROVE FALSE
    OBVIOUS
<1>3. Sizes \in SUBSET Nat /\ Sizes # {}
    BY <1>1, <1>2
<1>4. PICK S \in Bad : \A T \in Bad : Cardinality(S) <= Cardinality(T)
    <2>1. PICK n \in Sizes : \A m \in Sizes : n <= m
        BY <1>3, Least
    <2>2. QED BY <2>1
<1>5. S \in SUBSET Sessions /\ IsFiniteSet(S) /\ Cardinality(S) \in Nat
    BY <1>1
<1>6. S # {}
    <2>1. SUFFICES ASSUME S = {} PROVE FALSE
        OBVIOUS
    <2>2. Cardinality(S) = 0
        BY <2>1, FS_EmptySet
    <2>3. Sorted(S, [i \in 1..0 |-> i])
        BY <2>1, <2>2 DEF Sorted
    <2>4. QED BY <2>3
<1>7. PICK s \in S : \A t \in S : Turn(s) <= Turn(t)
    <2> DEFINE C == {Turn(t) : t \in S}
    <2>1. C \in SUBSET Nat /\ C # {}
        BY <1>5, <1>6, Turns
    <2>2. PICK n \in C : \A m \in C : n <= m
        BY <2>1, Least
    <2>3. QED BY <2>2
<1> DEFINE T == S \ {s}
           c == Cardinality(T)
<1>8. Cardinality(S) = c + 1 /\ c \in Nat /\ T \in SUBSET Sessions
    BY <1>1, <1>5, FS_RemoveElement
<1>9. PICK q : Sorted(T, q)
    <2>1. ~(Cardinality(S) <= Cardinality(T))
        BY <1>8
    <2>2. T \notin Bad
        BY <1>4, <2>1
    <2>3. QED BY <1>8, <2>2
<1> DEFINE r == [i \in 1..(c + 1) |-> IF i = 1 THEN s ELSE q[i - 1]]
<1> HIDE DEF c
<1>10. /\ \A i \in 1..c : q[i] \in T
       /\ \A i, k \in 1..c : i < k => Turn(q[i]) < Turn(q[k])
    BY <1>9 DEF Sorted, c
<1>11. /\ r[1] = s /\ DOMAIN r = 1..(c + 1)
       /\ \A i \in 2..(c + 1) : i - 1 \in 1..c /\ r[i] = q[i - 1] /\ r[i] \in T
    BY <1>8, <1>10
<1>12. r \in [1..(c + 1) -> S]
    BY <1>8, <1>10
<1> HIDE DEF r
<1>13. ASSUME NEW i \in 1..(c + 1), NEW k \in 1..(c + 1), i < k
       PROVE  Turn(r[i]) < Turn(r[k])
    <2>1. k \in 2..(c + 1)
        BY <1>8, <1>13
    <2>2. CASE i = 1
        <3>1. r[i] = s /\ r[k] \in S /\ r[k] # s
            BY <1>11, <2>1, <2>2
        <3>2. Turn(s) \in Nat /\ Turn(r[k]) \in Nat /\ Turn(s) <= Turn(r[k]) /\ Turn(s) # Turn(r[k])
            BY <1>5, <1>7, <3>1, Turns
        <3>3. QED BY <3>1, <3>2
    <2>3. CASE i # 1
        <3>1. i \in 2..(c + 1) /\ i - 1 < k - 1
            BY <1>8, <1>13, <2>1, <2>3
        <3>2. /\ i - 1 \in 1..c /\ r[i] = q[i - 1]
              /\ k - 1 \in 1..c /\ r[k] = q[k - 1]
            BY <1>11, <2>1, <3>1
        <3>3. Turn(q[i - 1]) < Turn(q[k - 1])
            BY <1>10, <3>1, <3>2
        <3>4. QED BY <3>2, <3>3
    <2>4. QED BY <2>2, <2>3
<1>14. Sorted(S, r)
    BY <1>8, <1>12, <1>13 DEF Sorted
<1>15. QED BY <1>14

(* The victims are sessions of the table, as many as asked for, each once.  *)
LEMMA VictimsFacts ==
    ASSUME recent \in Seq(Sessions), Distinct(recent), table \in SUBSET Sessions,
           NEW over \in 1..Cardinality(table)
    PROVE  /\ Victims(over) \in Seq(Sessions) /\ Victims(over) \in Seq(table)
           /\ Len(Victims(over)) = over /\ Distinct(Victims(over))
<1> DEFINE q == InOrder(table)
           v == SubSeq(q, 1, over)
<1>1. Sorted(table, q)
    <2>1. \E p \in [1..Cardinality(table) -> table] :
              \A i, k \in 1..Cardinality(table) : i < k => Turn(p[i]) < Turn(p[k])
        BY SortedExists DEF Sorted
    <2>2. QED BY <2>1 DEF Sorted, InOrder
<1>2. Cardinality(table) \in Nat
    BY SessionsFinite
<1>3. q \in Seq(table) /\ Len(q) = Cardinality(table)
    BY <1>1, <1>2 DEF Sorted
<1>4. \A i, k \in 1..Cardinality(table) : i < k => q[i] # q[k]
    <2>1. \A i \in 1..Cardinality(table) : q[i] \in Sessions /\ Turn(q[i]) \in Nat
        BY <1>1, Turns DEF Sorted
    <2>2. SUFFICES ASSUME NEW i \in 1..Cardinality(table), NEW k \in 1..Cardinality(table), i < k,
                          q[i] = q[k]
                   PROVE  FALSE
        OBVIOUS
    <2>3. Turn(q[i]) < Turn(q[k]) /\ Turn(q[i]) = Turn(q[k])
        BY <1>1, <2>2 DEF Sorted
    <2>4. QED BY <2>1, <2>3
<1> HIDE DEF q
<1>5. /\ v \in Seq(table) /\ v \in Seq(Sessions) /\ Len(v) = over
      /\ \A i \in 1..over : v[i] = q[i]
    BY <1>2, <1>3
<1> HIDE DEF v
<1>6. Distinct(v)
    <2>1. SUFFICES ASSUME NEW i \in 1..over, NEW k \in 1..over, v[i] = v[k], i # k PROVE FALSE
        BY <1>5 DEF Distinct
    <2>2. i < k \/ k < i
        BY <2>1
    <2>3. i \in 1..Cardinality(table) /\ k \in 1..Cardinality(table) /\ q[i] = q[k]
        BY <1>2, <1>5, <2>1
    <2>4. QED BY <1>4, <2>2, <2>3
<1>7. QED BY <1>5, <1>6 DEF Victims, q, v

(* A session that is created is one nothing names yet.                      *)
LEMMA Fresh ==
    ASSUME FollowerInv, created < MaxSessions
    PROVE  /\ created + 1 \in Sessions /\ created + 1 \in 1..(created + 1)
           /\ 1..created \subseteq 1..(created + 1) /\ created + 1 \notin Known
           /\ created + 1 \in 0..MaxSessions /\ created + 1 # None
           /\ Known \subseteq 0..(created + 1) /\ created + 1 \in 0..(created + 1)
<1>1. created \in Nat /\ MaxSessions \in Nat
    BY SessionNumbers DEF FollowerInv, LeaderOK
<1>2. QED BY <1>1 DEF Sessions, None, Known

(* One attempt in place of another.                                         *)
LEMMA InsteadFacts ==
    ASSUME jobs \in [Followers -> SUBSET Job], NEW f \in Followers, NEW j, NEW new \in SUBSET Job,
           Instead(f, j, new)
    PROVE  /\ jobs' \in [Followers -> SUBSET Job]
           /\ jobs'[f] = (jobs[f] \ {j}) \cup new
           /\ \A g \in Followers : g # f => jobs'[g] = jobs[g]
BY DEF Instead

(* An attempt that moves on is still an attempt at the same snapshot.       *)
LEMMA JobFacts ==
    ASSUME NEW j \in Job
    PROVE  /\ j.gen \in 1..MaxSnapshots /\ j.sid \in Sessions \cup {None}
           /\ j.at \in {"trying", "holding", "sleeping"} /\ j.tries \in 0..MaxRetries
           /\ \A a \in {"trying", "holding", "sleeping"}, n \in 0..MaxRetries :
                  LET k == [j EXCEPT !.at = a, !.tries = n] IN
                  k \in Job /\ k.gen = j.gen /\ k.sid = j.sid /\ k.at = a /\ k.tries = n
           /\ \A a \in {"trying", "holding", "sleeping"} :
                  LET k == [j EXCEPT !.at = a] IN
                  k \in Job /\ k.gen = j.gen /\ k.sid = j.sid /\ k.at = a /\ k.tries = j.tries
BY DEF Job

(* An empty row names no session.                                           *)
LEMMA Blank == NoRow \in Row /\ NoRows \in [Followers -> Row] /\ \A f \in Followers : NoRows[f].sid = 0
<1>1. NoRow \in Row
    BY SessionNumbers DEF NoRow, Row
<1>2. QED BY <1>1 DEF NoRows, NoRow, None

(* The parts of the invariant give the types of all fields.                 *)
LEMMA Typed == LeaderOK /\ FollowersOK /\ CountInv => SessionsTypeOK
<1>1. LeaderOK => Cardinality(SeenIds) = Len(recent)
    BY DistinctCount, SeenMembers DEF LeaderOK
<1>2. QED BY <1>1 DEF LeaderOK, FollowersOK, CountInv, SessionsTypeOK

(* A step of which the leader's table, tracker and housekeeping see nothing.*)
LEMMA LeaderStays ==
    ASSUME FollowerInv, UNCHANGED <<sessions, recent, keeper, pass>>,
           \A f \in Followers : /\ life[f] = "dead" => life'[f] = "dead"
                                /\ life'[f] = "unborn" => life[f] = "unborn"
    PROVE  LeaderOK' /\ PassInv' /\ Known' = Known
<1>1. LeaderOK'
    BY DEF FollowerInv, LeaderOK, SeenIds, sessions, pass
<1>2. PassInv'
    <2>1. /\ todo' = todo /\ dead' = dead /\ table' = table
          /\ keeper' = keeper /\ target' = target
        BY DEF sessions, pass
    <2>2. \A row \in todo \cup dead : row.pid \in Followers
        BY DEF FollowerInv, LeaderOK
    <2>3. \A row \in dead : row.sid \in table => keeper = "closing" /\ target = row.sid
        BY DEF FollowerInv, PassInv
    <2>4. \A row \in todo : life'[row.pid] # "unborn"
        BY <2>2 DEF FollowerInv, PassInv
    <2>5. \A row \in dead : life'[row.pid] = "dead"
        BY <2>2 DEF FollowerInv, PassInv
    <2>6. QED BY <2>1, <2>3, <2>4, <2>5 DEF PassInv
<1>3. QED BY <1>1, <1>2 DEF Known, sessions

(* A step of the leader away from the file.                                 *)
LEMMA FollowersStay ==
    ASSUME FollowerInv, UNCHANGED <<follower, latest, jobs, file, skips>>,
           (keeper' = "dropping") <=> (keeper = "dropping")
    PROVE  FollowersOK' /\ UnbornInv' /\ LockInv' /\ TriesInv' /\ NewestInv'
<1>1. FollowersOK' /\ UnbornInv' /\ LockInv' /\ TriesInv'
    BY DEF FollowerInv, FollowersOK, UnbornInv, LockInv, TriesInv, follower, file
<1>2. NewestInv'
    BY DEF FollowerInv, NewestInv, Alive, follower, file
<1>3. QED BY <1>1, <1>2

(* A follower that goes on lives as before.                                 *)
LEMMA GoesOnFacts ==
    ASSUME FollowerInv, NEW f \in Followers, NEW j \in jobs[f], GoesOn(f, j) \/ UNCHANGED life
    PROVE  /\ life' \in [Followers ->
                {"unborn", "connecting", "recording", "up", "resetting", "dead"}]
           /\ \A g \in Followers : /\ (life'[g] = "dead") <=> (life[g] = "dead")
                                   /\ (life'[g] = "unborn") <=> (life[g] = "unborn")
<1>1. life \in [Followers -> {"unborn", "connecting", "recording", "up", "resetting", "dead"}]
    BY DEF FollowerInv, FollowersOK
<1>2. \/ life' = life
      \/ life' = [life EXCEPT ![f] = "up"] /\ life[f] = "recording"
      \/ life' = [life EXCEPT ![f] = "connecting"] /\ life[f] = "resetting"
    BY <1>1 DEF GoesOn
<1>3. QED BY <1>1, <1>2

(* A session drops out of the tracker.                                      *)
LEMMA ForgetKeeps ==
    ASSUME FollowerInv, Forget
    PROVE  FollowerInv'
<1>1. recent' \in Seq(Sessions) /\ Distinct(recent') /\ SeenIds' \subseteq 1..created'
    <2>1. recent \in Seq(Sessions) /\ Distinct(recent) /\ SeenIds \subseteq 1..created
        BY DEF FollowerInv, LeaderOK
    <2>2. recent' = Tail(recent) /\ recent # <<>> /\ created' = created
        BY DEF Forget, sessions
    <2>3. QED BY <2>1, <2>2, ForgetFacts, SeenMembers
<1>2. created' = created /\ table' \subseteq table /\ terminated' \subseteq table'
    BY DEF FollowerInv, LeaderOK, Forget, sessions
<1>3. /\ todo' \cup dead' \subseteq [pid : Followers, sid : Sessions \cup {None}]
      /\ target' \in Sessions \cup {None}
    BY DEF FollowerInv, LeaderOK, Forget, pass
<1>4. victims' \in Seq(Sessions)
    BY DEF FollowerInv, LeaderOK, Forget, pass
<1>5. LeaderOK'
    BY <1>1, <1>2, <1>3, <1>4 DEF FollowerInv, LeaderOK, Forget
<1>6. FollowersOK' /\ UnbornInv' /\ LockInv' /\ TriesInv' /\ NewestInv'
    BY FollowersStay DEF Forget
<1>7. KnownInv'
    BY <1>2 DEF FollowerInv, KnownInv, Known, Forget, follower, file, pass
<1>8. PassInv'
    BY <1>2 DEF FollowerInv, PassInv, Forget, follower, pass
<1>9. QED BY <1>5, <1>6, <1>7, <1>8 DEF FollowerInv

(* A request is seen.                                                       *)
LEMMA RequestKeeps ==
    ASSUME FollowerInv, NEW f \in Followers, Request(f)
    PROVE  FollowerInv'
<1>1. recent' \in Seq(Sessions) /\ Distinct(recent') /\ SeenIds' \subseteq 1..created'
    <2>1. recent \in Seq(Sessions) /\ Distinct(recent) /\ SeenIds \subseteq 1..created
        BY DEF FollowerInv, LeaderOK
    <2>2. recent' = Seen(current[f]) /\ created' = created /\ current[f] \in Sessions
        BY SessionNumbers DEF FollowerInv, FollowersOK, Request, sessions
    <2>3. current[f] \in 1..created
        BY SessionNumbers, <2>2 DEF FollowerInv, KnownInv, Known
    <2>4. QED BY <2>1, <2>2, <2>3, SeenFacts, SeenMembers
<1>2. created' = created /\ table' \subseteq table /\ terminated' \subseteq table'
    BY DEF FollowerInv, LeaderOK, Request, sessions
<1>3. /\ todo' \cup dead' \subseteq [pid : Followers, sid : Sessions \cup {None}]
      /\ target' \in Sessions \cup {None}
    BY DEF FollowerInv, LeaderOK, Request, pass
<1>4. victims' \in Seq(Sessions)
    BY DEF FollowerInv, LeaderOK, Request, pass
<1>5. LeaderOK'
    BY <1>1, <1>2, <1>3, <1>4 DEF FollowerInv, LeaderOK, Request
<1>6. FollowersOK' /\ UnbornInv' /\ LockInv' /\ TriesInv' /\ NewestInv'
    BY FollowersStay DEF Request
<1>7. KnownInv'
    BY <1>2 DEF FollowerInv, KnownInv, Known, Request, follower, file, pass
<1>8. PassInv'
    BY <1>2 DEF FollowerInv, PassInv, Request, follower, pass
<1>9. QED BY <1>5, <1>6, <1>7, <1>8 DEF FollowerInv

(* The file is read: every row is of a follower that has lived.             *)
LEMMA ReapBeginsKeeps ==
    ASSUME FollowerInv, ReapBegins
    PROVE  FollowerInv'
<1>1. recent' \in Seq(Sessions) /\ Distinct(recent') /\ SeenIds' \subseteq 1..created'
    BY DEF FollowerInv, LeaderOK, SeenIds, ReapBegins, sessions
<1>2. created' = created /\ table' \subseteq table /\ terminated' \subseteq table'
    BY DEF FollowerInv, LeaderOK, ReapBegins, sessions
<1>3. /\ todo' \cup dead' \subseteq [pid : Followers, sid : Sessions \cup {None}]
      /\ target' \in Sessions \cup {None}
    BY DEF FollowerInv, LeaderOK, FollowersOK, Row, ReapBegins
<1>4. victims' \in Seq(Sessions)
    BY DEF FollowerInv, LeaderOK, ReapBegins
<1>5. LeaderOK'
    BY <1>1, <1>2, <1>3, <1>4 DEF FollowerInv, LeaderOK, ReapBegins
<1>6. FollowersOK' /\ UnbornInv' /\ LockInv' /\ TriesInv' /\ NewestInv'
    BY FollowersStay DEF ReapBegins
<1>7. KnownInv'
    BY <1>2 DEF FollowerInv, KnownInv, Known, ReapBegins, follower, file
<1>8. PassInv'
    BY <1>2 DEF FollowerInv, UnbornInv, PassInv, ReapBegins, follower
<1>9. QED BY <1>5, <1>6, <1>7, <1>8 DEF FollowerInv

(* A row of a dead follower is dealt with: its session goes, or closes.     *)
LEMMA LooksAtKeeps ==
    ASSUME FollowerInv, NEW row \in todo, LooksAt(row)
    PROVE  FollowerInv'
<1>1. recent' \in Seq(Sessions) /\ Distinct(recent') /\ SeenIds' \subseteq 1..created'
    BY DEF FollowerInv, LeaderOK, SeenIds, LooksAt, Terminates, sessions
<1>2. created' = created /\ table' \subseteq table /\ terminated' \subseteq table'
    <2>1. terminated \subseteq table
        BY DEF FollowerInv, LeaderOK
    <2>2. \/ UNCHANGED sessions
          \/ /\ row.sid \in Open /\ created' = created /\ table' = table
             /\ terminated' = terminated \cup {row.sid}
          \/ /\ created' = created /\ table' = table \ {row.sid}
             /\ terminated' = terminated \ {row.sid}
        BY DEF LooksAt, Terminates
    <2>3. QED BY <2>1, <2>2 DEF Open, sessions
<1>3. /\ todo' \cup dead' \subseteq [pid : Followers, sid : Sessions \cup {None}]
      /\ target' \in Sessions \cup {None}
    BY DEF FollowerInv, LeaderOK, LooksAt, Terminates
<1>4. victims' \in Seq(Sessions)
    BY DEF FollowerInv, LeaderOK, LooksAt
<1>5. LeaderOK'
    BY <1>1, <1>2, <1>3, <1>4 DEF FollowerInv, LeaderOK, LooksAt, Terminates
<1>6. FollowersOK' /\ UnbornInv' /\ LockInv' /\ TriesInv' /\ NewestInv'
    BY FollowersStay DEF LooksAt, Terminates
<1>7. KnownInv'
    BY <1>2 DEF FollowerInv, KnownInv, Known, LooksAt, follower, file
<1>8. PassInv'
    BY <1>2 DEF FollowerInv, PassInv, Alive, LooksAt, Terminates, follower, sessions
<1>9. QED BY <1>5, <1>6, <1>7, <1>8 DEF FollowerInv

(* The session being closed is closed.                                      *)
LEMMA ReapedKeeps ==
    ASSUME FollowerInv, Reaped
    PROVE  FollowerInv'
<1>1. recent' \in Seq(Sessions) /\ Distinct(recent') /\ SeenIds' \subseteq 1..created'
    BY DEF FollowerInv, LeaderOK, SeenIds, Reaped, TakenOut
<1>2. created' = created /\ table' \subseteq table /\ terminated' \subseteq table'
    BY DEF FollowerInv, LeaderOK, Reaped, TakenOut
<1>3. /\ todo' \cup dead' \subseteq [pid : Followers, sid : Sessions \cup {None}]
      /\ target' \in Sessions \cup {None}
    BY DEF FollowerInv, LeaderOK, Reaped, TakenOut
<1>4. victims' \in Seq(Sessions)
    BY DEF FollowerInv, LeaderOK, Reaped
<1>5. LeaderOK'
    BY <1>1, <1>2, <1>3, <1>4 DEF FollowerInv, LeaderOK, Reaped, TakenOut
<1>6. FollowersOK' /\ UnbornInv' /\ LockInv' /\ TriesInv' /\ NewestInv'
    BY FollowersStay DEF Reaped, TakenOut
<1>7. KnownInv'
    BY <1>2 DEF FollowerInv, KnownInv, Known, Reaped, follower, file
<1>8. PassInv'
    BY <1>2 DEF FollowerInv, PassInv, Reaped, TakenOut, follower
<1>9. QED BY <1>5, <1>6, <1>7, <1>8 DEF FollowerInv

(* The pass has seen every row.                                             *)
LEMMA AllLookedAtKeeps ==
    ASSUME FollowerInv, AllLookedAt
    PROVE  FollowerInv'
<1>1. recent' \in Seq(Sessions) /\ Distinct(recent') /\ SeenIds' \subseteq 1..created'
    BY DEF FollowerInv, LeaderOK, SeenIds, AllLookedAt, sessions
<1>2. created' = created /\ table' \subseteq table /\ terminated' \subseteq table'
    BY DEF FollowerInv, LeaderOK, AllLookedAt, sessions
<1>3. /\ todo' \cup dead' \subseteq [pid : Followers, sid : Sessions \cup {None}]
      /\ target' \in Sessions \cup {None}
    BY DEF FollowerInv, LeaderOK, AllLookedAt, pass
<1>4. victims' \in Seq(Sessions)
    BY DEF FollowerInv, LeaderOK, AllLookedAt, pass
<1>5. LeaderOK'
    BY <1>1, <1>2, <1>3, <1>4 DEF FollowerInv, LeaderOK, AllLookedAt
<1>6. FollowersOK' /\ UnbornInv' /\ LockInv' /\ TriesInv' /\ NewestInv'
    BY FollowersStay DEF AllLookedAt
<1>7. KnownInv'
    BY <1>2 DEF FollowerInv, KnownInv, Known, AllLookedAt, follower, file, pass
<1>8. PassInv'
    BY <1>2 DEF FollowerInv, PassInv, AllLookedAt, follower, pass
<1>9. QED BY <1>5, <1>6, <1>7, <1>8 DEF FollowerInv

(* The victims are chosen.                                                  *)
LEMMA ChooseVictimsKeeps ==
    ASSUME FollowerInv, ChooseVictims
    PROVE  FollowerInv'
<1>1. recent' \in Seq(Sessions) /\ Distinct(recent') /\ SeenIds' \subseteq 1..created'
    BY DEF FollowerInv, LeaderOK, SeenIds, ChooseVictims, sessions
<1>2. created' = created /\ table' \subseteq table /\ terminated' \subseteq table'
    BY DEF FollowerInv, LeaderOK, ChooseVictims, sessions
<1>3. /\ todo' \cup dead' \subseteq [pid : Followers, sid : Sessions \cup {None}]
      /\ target' \in Sessions \cup {None}
    BY DEF FollowerInv, LeaderOK, ChooseVictims
<1>4. victims' \in Seq(Sessions)
    <2>1. /\ recent \in Seq(Sessions) /\ Distinct(recent) /\ table \in SUBSET Sessions
          /\ victims \in Seq(Sessions)
        <3>1. created \in 0..MaxSessions /\ table \subseteq 1..created
            BY DEF FollowerInv, LeaderOK
        <3>2. table \subseteq Sessions
            BY <3>1, SessionNumbers
        <3>3. recent \in Seq(Sessions) /\ Distinct(recent) /\ victims \in Seq(Sessions)
            BY DEF FollowerInv, LeaderOK
        <3>4. QED BY <3>2, <3>3
    <2>2. Cardinality(table) \in Nat
        BY <2>1, SessionsFinite
    <2>3. CASE Cardinality(table) - Cap > 0
        <3>1. Cardinality(table) - Cap \in 1..Cardinality(table)
            <4>1. Cap \in Nat
                BY SessionNumbers
            <4>2. QED BY <2>2, <2>3, <4>1, SMT
        <3>2. victims' = Victims(Cardinality(table) - Cap)
            BY <2>3 DEF ChooseVictims
        <3>3. QED BY <2>1, <3>1, <3>2, VictimsFacts
    <2>4. CASE ~(Cardinality(table) - Cap > 0)
        BY <2>1, <2>4 DEF ChooseVictims
    <2>5. QED BY <2>3, <2>4
<1>5. LeaderOK'
    BY <1>1, <1>2, <1>3, <1>4 DEF FollowerInv, LeaderOK, ChooseVictims
<1>6. FollowersOK' /\ UnbornInv' /\ LockInv' /\ TriesInv' /\ NewestInv'
    BY FollowersStay DEF ChooseVictims
<1>7. KnownInv'
    BY <1>2 DEF FollowerInv, KnownInv, Known, ChooseVictims, follower, file
<1>8. PassInv'
    BY <1>2 DEF FollowerInv, PassInv, ChooseVictims, follower
<1>9. QED BY <1>5, <1>6, <1>7, <1>8 DEF FollowerInv

(* A victim is evicted.                                                     *)
LEMMA EvictNextKeeps ==
    ASSUME FollowerInv, EvictNext
    PROVE  FollowerInv'
<1>1. recent' \in Seq(Sessions) /\ Distinct(recent') /\ SeenIds' \subseteq 1..created'
    <2>1. recent \in Seq(Sessions) /\ Distinct(recent) /\ SeenIds \subseteq 1..created
        BY DEF FollowerInv, LeaderOK
    <2>2. recent' \in {recent, Without(Head(victims))} /\ created' = created
        BY DEF EvictNext, Terminates
    <2>3. QED BY <2>1, <2>2, WithoutFacts, SeenMembers
<1>2. created' = created /\ table' \subseteq table /\ terminated' \subseteq table'
    <2>1. terminated \subseteq table
        BY DEF FollowerInv, LeaderOK
    <2>2. \/ UNCHANGED sessions
          \/ /\ Head(victims) \in Open /\ created' = created /\ table' = table
             /\ terminated' = terminated \cup {Head(victims)}
          \/ /\ created' = created /\ table' = table \ {Head(victims)}
             /\ terminated' = terminated \ {Head(victims)}
        BY DEF EvictNext, Terminates
    <2>3. QED BY <2>1, <2>2 DEF Open, sessions
<1>3. /\ todo' \cup dead' \subseteq [pid : Followers, sid : Sessions \cup {None}]
      /\ target' \in Sessions \cup {None}
    BY DEF FollowerInv, LeaderOK, EvictNext, Terminates
<1>4. victims' \in Seq(Sessions)
    BY DEF FollowerInv, LeaderOK, EvictNext
<1>5. LeaderOK'
    BY <1>1, <1>2, <1>3, <1>4 DEF FollowerInv, LeaderOK, EvictNext, Terminates
<1>6. FollowersOK' /\ UnbornInv' /\ LockInv' /\ TriesInv' /\ NewestInv'
    BY FollowersStay DEF EvictNext, Terminates
<1>7. KnownInv'
    BY <1>2 DEF FollowerInv, KnownInv, Known, EvictNext, follower, file
<1>8. PassInv'
    BY <1>2 DEF FollowerInv, PassInv, EvictNext, follower
<1>9. QED BY <1>5, <1>6, <1>7, <1>8 DEF FollowerInv

(* A victim is shut down.                                                   *)
LEMMA EvictedKeeps ==
    ASSUME FollowerInv, Evicted
    PROVE  FollowerInv'
<1>1. recent' \in Seq(Sessions) /\ Distinct(recent') /\ SeenIds' \subseteq 1..created'
    <2>1. recent \in Seq(Sessions) /\ Distinct(recent) /\ SeenIds \subseteq 1..created
        BY DEF FollowerInv, LeaderOK
    <2>2. recent' = Without(target) /\ created' = created
        BY DEF Evicted, TakenOut
    <2>3. QED BY <2>1, <2>2, WithoutFacts, SeenMembers
<1>2. created' = created /\ table' \subseteq table /\ terminated' \subseteq table'
    BY DEF FollowerInv, LeaderOK, Evicted, TakenOut
<1>3. /\ todo' \cup dead' \subseteq [pid : Followers, sid : Sessions \cup {None}]
      /\ target' \in Sessions \cup {None}
    BY DEF FollowerInv, LeaderOK, Evicted, TakenOut
<1>4. victims' \in Seq(Sessions)
    BY DEF FollowerInv, LeaderOK, Evicted
<1>5. LeaderOK'
    BY <1>1, <1>2, <1>3, <1>4 DEF FollowerInv, LeaderOK, Evicted, TakenOut
<1>6. FollowersOK' /\ UnbornInv' /\ LockInv' /\ TriesInv' /\ NewestInv'
    BY FollowersStay DEF Evicted, TakenOut
<1>7. KnownInv'
    BY <1>2 DEF FollowerInv, KnownInv, Known, Evicted, follower, file
<1>8. PassInv'
    BY <1>2 DEF FollowerInv, PassInv, Evicted, follower
<1>9. QED BY <1>5, <1>6, <1>7, <1>8 DEF FollowerInv

(* All victims are evicted.                                                 *)
LEMMA AllEvictedKeeps ==
    ASSUME FollowerInv, AllEvicted
    PROVE  FollowerInv'
<1>1. recent' \in Seq(Sessions) /\ Distinct(recent') /\ SeenIds' \subseteq 1..created'
    BY DEF FollowerInv, LeaderOK, SeenIds, AllEvicted, sessions
<1>2. created' = created /\ table' \subseteq table /\ terminated' \subseteq table'
    BY DEF FollowerInv, LeaderOK, AllEvicted, sessions
<1>3. /\ todo' \cup dead' \subseteq [pid : Followers, sid : Sessions \cup {None}]
      /\ target' \in Sessions \cup {None}
    BY DEF FollowerInv, LeaderOK, AllEvicted, pass
<1>4. victims' \in Seq(Sessions)
    BY DEF AllEvicted, pass
<1>5. LeaderOK'
    BY <1>1, <1>2, <1>3, <1>4 DEF FollowerInv, LeaderOK, AllEvicted
<1>6. FollowersOK' /\ UnbornInv' /\ LockInv' /\ TriesInv' /\ NewestInv'
    BY FollowersStay DEF AllEvicted
<1>7. KnownInv'
    BY <1>2 DEF FollowerInv, KnownInv, Known, AllEvicted, follower, file, pass
<1>8. PassInv'
    BY <1>2 DEF FollowerInv, PassInv, AllEvicted, follower, pass
<1>9. QED BY <1>5, <1>6, <1>7, <1>8 DEF FollowerInv

(* A follower starts.                                                       *)
LEMMA StartKeeps ==
    ASSUME FollowerInv, NEW f \in Followers, Start(f)
    PROVE  FollowerInv'
<1>1. /\ life' = [life EXCEPT ![f] = "connecting"] /\ life[f] = "unborn"
      /\ greeted' \subseteq Followers
      /\ UNCHANGED <<current, latest, jobs, file, sessions, recent, keeper, pass, skips>>
    BY DEF FollowerInv, FollowersOK, Start
<1>2. LeaderOK' /\ PassInv' /\ Known' = Known
    BY <1>1, LeaderStays
<1>3. FollowersOK'
    BY <1>1 DEF FollowerInv, FollowersOK, file
<1>4. UnbornInv' /\ LockInv' /\ TriesInv'
    BY <1>1 DEF FollowerInv, UnbornInv, LockInv, TriesInv, file
<1>5. NewestInv'
    BY <1>1 DEF FollowerInv, UnbornInv, NewestInv, Alive, file
<1>6. KnownInv'
    BY <1>1, <1>2 DEF FollowerInv, KnownInv, file, pass
<1>7. QED BY <1>2, <1>3, <1>4, <1>5, <1>6 DEF FollowerInv

(* A session that ends well: nothing is written of it.                      *)
LEMMA EndsCleanlyKeeps ==
    ASSUME FollowerInv, NEW f \in Followers, EndsCleanly(f)
    PROVE  FollowerInv'
<1>1. /\ life' = [life EXCEPT ![f] = "connecting"] /\ life[f] = "up"
      /\ UNCHANGED <<greeted, current, latest, jobs, file, sessions, recent, keeper, pass, skips>>
    BY DEF EndsCleanly
<1>2. LeaderOK' /\ PassInv' /\ Known' = Known
    BY <1>1, LeaderStays
<1>3. FollowersOK'
    BY <1>1 DEF FollowerInv, FollowersOK, file
<1>4. UnbornInv' /\ LockInv' /\ TriesInv'
    BY <1>1 DEF FollowerInv, UnbornInv, LockInv, TriesInv, file
<1>5. NewestInv'
    BY <1>1 DEF FollowerInv, NewestInv, Alive, file
<1>6. KnownInv'
    BY <1>1, <1>2 DEF FollowerInv, KnownInv, file, pass
<1>7. QED BY <1>2, <1>3, <1>4, <1>5, <1>6 DEF FollowerInv

(* A snapshot that is begun is the newest, and under way.                   *)
LEMMA RecordsKeeps ==
    ASSUME FollowerInv, NEW f \in Followers, NEW sid \in Known',
           NEW where \in {"recording", "resetting"}, life[f] \notin {"unborn", "dead"},
           Records(f, sid, where), UNCHANGED <<file, keeper, skips>>, Known \subseteq Known',
           sid \in Sessions \cup {None}
    PROVE  /\ life' \in [Followers ->
                {"unborn", "connecting", "recording", "up", "resetting", "dead"}]
           /\ latest' \in [Followers -> 0..MaxSnapshots] /\ jobs' \in [Followers -> SUBSET Job]
           /\ UnbornInv' /\ LockInv' /\ TriesInv' /\ NewestInv'
           /\ \A g \in Followers : \A j \in jobs'[g] : j.sid \in Known'
           /\ \A g \in Followers : /\ life[g] = "dead" => life'[g] = "dead"
                                   /\ life'[g] = "unborn" => life[g] = "unborn"
<1> DEFINE n == latest[f] + 1
           k == [gen |-> n, sid |-> sid, at |-> "trying", tries |-> 0]
<1>1. latest[f] \in 0..MaxSnapshots /\ latest[f] < MaxSnapshots
    BY DEF FollowerInv, FollowersOK, Records
<1>2. n \in 1..MaxSnapshots /\ n > 0 /\ n # 0
    BY <1>1, SessionNumbers
<1>3. /\ latest' = [latest EXCEPT ![f] = n] /\ life' = [life EXCEPT ![f] = where]
      /\ jobs' = [jobs EXCEPT ![f] = @ \cup {k}]
    BY DEF Records, FollowerInv, FollowersOK
<1> HIDE DEF n
<1>4. k \in Job /\ k.gen = n /\ k.sid = sid /\ k.at = "trying" /\ k.tries = 0
    BY <1>2, SessionNumbers DEF Job
<1> HIDE DEF k
<1>5. /\ life' \in [Followers ->
                {"unborn", "connecting", "recording", "up", "resetting", "dead"}]
      /\ latest' \in [Followers -> 0..MaxSnapshots] /\ jobs' \in [Followers -> SUBSET Job]
    BY <1>2, <1>3, <1>4 DEF FollowerInv, FollowersOK
<1>6. \A g \in Followers :
          /\ g = f => jobs'[g] = jobs[g] \cup {k} /\ latest'[g] = n /\ life'[g] = where
          /\ g # f => jobs'[g] = jobs[g] /\ latest'[g] = latest[g] /\ life'[g] = life[g]
    BY <1>3 DEF FollowerInv, FollowersOK
<1>7. /\ rows' = rows /\ lock' = lock /\ image' = image /\ keeper' = keeper /\ skips' = skips
      /\ skips \in Nat
    BY SessionNumbers DEF file, FollowerInv, FollowersOK
<1>8. UnbornInv'
    BY <1>6, <1>7 DEF FollowerInv, UnbornInv
<1>9. LockInv'
    BY <1>4, <1>6, <1>7 DEF FollowerInv, LockInv
<1>10. TriesInv'
    BY <1>4, <1>6, <1>7 DEF FollowerInv, TriesInv
<1>11. NewestInv'
    <2>1. SUFFICES ASSUME NEW g \in Followers, Alive(g)', latest'[g] > 0, skips' <= MaxRetries,
                          \A j \in jobs'[g] : j.gen # latest'[g]
                   PROVE  rows'[g].gen = latest'[g] /\ lock' # g
        BY DEF NewestInv
    <2>2. g # f
        BY <1>4, <1>6, <2>1
    <2>3. QED BY <1>6, <1>7, <2>1, <2>2 DEF FollowerInv, NewestInv, Alive
<1>12. \A g \in Followers : \A j \in jobs'[g] : j.sid \in Known'
    BY <1>4, <1>6 DEF FollowerInv, KnownInv
<1>13. QED BY <1>5, <1>6, <1>8, <1>9, <1>10, <1>11, <1>12

(* A session that ends in an error.                                         *)
LEMMA ResetKeeps ==
    ASSUME FollowerInv, NEW f \in Followers, Reset(f)
    PROVE  FollowerInv'
<1>1. /\ Records(f, current[f], "resetting") /\ life[f] = "up"
      /\ UNCHANGED <<greeted, current, file, sessions, recent, keeper, pass, skips>>
    BY DEF Reset
<1>2. current[f] \in Known /\ current[f] \in Sessions \cup {None} /\ Known' = Known
    BY <1>1 DEF FollowerInv, FollowersOK, KnownInv, Known, sessions
<1>3. /\ life' \in [Followers ->
           {"unborn", "connecting", "recording", "up", "resetting", "dead"}]
      /\ latest' \in [Followers -> 0..MaxSnapshots] /\ jobs' \in [Followers -> SUBSET Job]
      /\ UnbornInv' /\ LockInv' /\ TriesInv' /\ NewestInv'
      /\ \A g \in Followers : \A j \in jobs'[g] : j.sid \in Known'
      /\ \A g \in Followers : /\ life[g] = "dead" => life'[g] = "dead"
                              /\ life'[g] = "unborn" => life[g] = "unborn"
    BY <1>1, <1>2, RecordsKeeps
<1>4. LeaderOK' /\ PassInv'
    BY <1>1, <1>3, LeaderStays
<1>5. FollowersOK'
    BY <1>1, <1>3 DEF FollowerInv, FollowersOK, file
<1>6. KnownInv'
    BY <1>1, <1>2, <1>3 DEF FollowerInv, KnownInv, file, pass
<1>7. QED BY <1>3, <1>4, <1>5, <1>6 DEF FollowerInv

(* A session that is created: the leader has one more, which it has seen,   *)
(* whether or not the follower hears of it.                                 *)
LEMMA OpensKeeps ==
    ASSUME FollowerInv, NEW f \in Followers, Opens, Knows(f, created') \/ Knows(f, None),
           UNCHANGED <<keeper, pass>>,
           \A g \in Followers : /\ life[g] = "dead" => life'[g] = "dead"
                                /\ life'[g] = "unborn" => life[g] = "unborn"
    PROVE  /\ LeaderOK' /\ PassInv' /\ Known \subseteq Known' /\ created' \in Known'
           /\ current' \in [Followers -> Sessions \cup {None}] /\ created' \in Sessions
           /\ \A g \in Followers : current'[g] \in Known'
<1>1. /\ created' = created + 1 /\ created < MaxSessions
      /\ table' = table \cup {created + 1} /\ terminated' = terminated
      /\ recent' = Seen(created + 1)
      /\ \/ current' = [current EXCEPT ![f] = created + 1]
         \/ current' = [current EXCEPT ![f] = None]
    BY DEF Opens, Knows
<1>2. /\ created + 1 \in Sessions /\ created + 1 \in 1..(created + 1)
      /\ 1..created \subseteq 1..(created + 1) /\ created + 1 \notin Known
      /\ created + 1 \in 0..MaxSessions
      /\ Known \subseteq 0..(created + 1) /\ created + 1 \in 0..(created + 1)
    BY <1>1, Fresh
<1>3. Known \subseteq Known' /\ created' \in Known' /\ created' \in Sessions
    BY <1>1, <1>2 DEF Known
<1>4. /\ current' \in [Followers -> Sessions \cup {None}]
      /\ \A g \in Followers : current'[g] \in Known'
    <2>1. None \in Known
        BY SessionNumbers DEF FollowerInv, LeaderOK, Known, None
    <2>2. QED BY <1>1, <1>2, <1>3, <2>1 DEF FollowerInv, FollowersOK, KnownInv
<1>5. recent' \in Seq(Sessions) /\ Distinct(recent') /\ SeenIds' = SeenIds \cup {created + 1}
    <2>1. recent \in Seq(Sessions) /\ Distinct(recent)
        BY DEF FollowerInv, LeaderOK
    <2>2. QED BY <1>1, <1>2, <2>1, SeenFacts, SeenMembers
<1>6. LeaderOK'
    <2>1. /\ created' \in 0..MaxSessions /\ table' \subseteq 1..created'
          /\ terminated' \subseteq table' /\ SeenIds' \subseteq 1..created'
        BY <1>1, <1>2, <1>5 DEF FollowerInv, LeaderOK
    <2>2. QED BY <1>5, <2>1 DEF FollowerInv, LeaderOK, pass
<1>7. PassInv'
    <2>1. /\ todo' = todo /\ dead' = dead /\ keeper' = keeper /\ target' = target
        BY DEF pass
    <2>2. \A row \in todo \cup dead : row.pid \in Followers
        BY DEF FollowerInv, LeaderOK
    <2>3. \A row \in dead : row.sid \in table' => keeper = "closing" /\ target = row.sid
        BY <1>1, <1>2 DEF FollowerInv, KnownInv, PassInv
    <2>4. \A row \in todo : life'[row.pid] # "unborn"
        BY <2>2 DEF FollowerInv, PassInv
    <2>5. \A row \in dead : life'[row.pid] = "dead"
        BY <2>2 DEF FollowerInv, PassInv
    <2>6. QED BY <2>1, <2>3, <2>4, <2>5 DEF PassInv
<1>8. QED BY <1>3, <1>4, <1>6, <1>7

(* A client that initializes late.                                          *)
LEMMA ClientInitializesKeeps ==
    ASSUME FollowerInv, NEW f \in Followers, ClientInitializes(f)
    PROVE  FollowerInv'
<1>1. /\ Creates(f) /\ greeted' = greeted \cup {f}
      /\ UNCHANGED <<life, latest, jobs, file, keeper, pass, skips>>
    BY DEF ClientInitializes
<1>2. /\ LeaderOK' /\ PassInv' /\ Known \subseteq Known'
      /\ current' \in [Followers -> Sessions \cup {None}]
      /\ \A g \in Followers : current'[g] \in Known'
    BY <1>1, OpensKeeps DEF Creates
<1>3. FollowersOK'
    BY <1>1, <1>2 DEF FollowerInv, FollowersOK, file
<1>4. UnbornInv' /\ LockInv' /\ TriesInv'
    BY <1>1 DEF FollowerInv, UnbornInv, LockInv, TriesInv, file
<1>5. NewestInv'
    BY <1>1 DEF FollowerInv, NewestInv, Alive, file
<1>6. KnownInv'
    BY <1>1, <1>2 DEF FollowerInv, KnownInv, file, pass
<1>7. QED BY <1>2, <1>3, <1>4, <1>5, <1>6 DEF FollowerInv

(* A follower that connects, or fails to, with a session or with none.      *)
LEMMA ConnectKeeps ==
    ASSUME FollowerInv, NEW f \in Followers, Connect(f) \/ ConnectFails(f)
    PROVE  FollowerInv'
<1>1. /\ \E w \in {"recording", "resetting"} : Records(f, current'[f], w)
      /\ life[f] = "connecting"
      /\ UNCHANGED <<greeted, file, keeper, pass, skips>>
    BY DEF Connect, ConnectFails
<1>2. \A g \in Followers : /\ life[g] = "dead" => life'[g] = "dead"
                           /\ life'[g] = "unborn" => life[g] = "unborn"
    BY <1>1 DEF Records
<1>3. /\ LeaderOK' /\ PassInv' /\ Known \subseteq Known'
      /\ current' \in [Followers -> Sessions \cup {None}]
      /\ \A g \in Followers : current'[g] \in Known'
    <2>1. CASE Opens /\ (Knows(f, created') \/ Knows(f, None))
        BY <1>1, <1>2, <2>1, OpensKeeps
    <2>2. CASE Knows(f, None) /\ UNCHANGED <<sessions, recent>>
        <3>1. LeaderOK' /\ PassInv' /\ Known' = Known
            BY <1>1, <1>2, <2>2, LeaderStays
        <3>2. None \in Known
            BY SessionNumbers DEF FollowerInv, LeaderOK, Known, None
        <3>3. QED BY <2>2, <3>1, <3>2 DEF FollowerInv, FollowersOK, KnownInv, Knows
    <2>3. QED BY <2>1, <2>2 DEF Connect, ConnectFails, Creates
<1>4. /\ life' \in [Followers ->
           {"unborn", "connecting", "recording", "up", "resetting", "dead"}]
      /\ latest' \in [Followers -> 0..MaxSnapshots] /\ jobs' \in [Followers -> SUBSET Job]
      /\ UnbornInv' /\ LockInv' /\ TriesInv' /\ NewestInv'
      /\ \A g \in Followers : \A j \in jobs'[g] : j.sid \in Known'
    <2>1. current'[f] \in Known' /\ current'[f] \in Sessions \cup {None}
        BY <1>3
    <2>2. QED BY <1>1, <1>3, <2>1, RecordsKeeps
<1>5. FollowersOK'
    BY <1>1, <1>3, <1>4 DEF FollowerInv, FollowersOK, file
<1>6. KnownInv'
    BY <1>1, <1>3, <1>4 DEF FollowerInv, KnownInv, file, pass
<1>7. QED BY <1>3, <1>4, <1>5, <1>6 DEF FollowerInv

(* A follower that is gone: nothing is under way for it, and the lock is    *)
(* free if it was its.                                                      *)
LEMMA GoneKeeps ==
    ASSUME FollowerInv, NEW f \in Followers, Gone(f), Alive(f), created' = created
    PROVE  /\ FollowersOK' /\ UnbornInv' /\ LockInv' /\ TriesInv' /\ NewestInv'
           /\ \A g \in Followers : /\ life[g] = "dead" => life'[g] = "dead"
                                   /\ life'[g] = "unborn" => life[g] = "unborn"
           /\ KnownInv'
<1>1. /\ life' = [life EXCEPT ![f] = "dead"] /\ jobs' = [jobs EXCEPT ![f] = {}]
      /\ \/ lock = f /\ lock' = "free" /\ image' = NoRows
         \/ lock # f /\ lock' = lock /\ image' = image
      /\ greeted' = greeted /\ current' = current /\ latest' = latest /\ rows' = rows
      /\ keeper' = keeper /\ skips' = skips /\ todo' = todo /\ dead' = dead
    BY DEF Gone, Releases, pass
<1>2. \A g \in Followers : /\ g = f => life'[g] = "dead" /\ jobs'[g] = {}
                           /\ g # f => life'[g] = life[g] /\ jobs'[g] = jobs[g]
    BY <1>1 DEF FollowerInv, FollowersOK
<1>3. FollowersOK'
    BY <1>1, Blank DEF FollowerInv, FollowersOK
<1>4. UnbornInv' /\ TriesInv'
    BY <1>1, <1>2 DEF FollowerInv, UnbornInv, TriesInv
<1>5. LockInv'
    BY <1>1, <1>2, SessionNumbers DEF FollowerInv, LockInv
<1>6. NewestInv'
    BY <1>1, <1>2, SessionNumbers DEF FollowerInv, NewestInv, Alive
<1>7. KnownInv'
    <2>1. Known' = Known /\ 0 \in Known
        BY DEF FollowerInv, LeaderOK, Known
    <2>2. \A g \in Followers : image'[g].sid \in Known
        BY <1>1, <2>1 DEF FollowerInv, KnownInv, NoRows, NoRow, None
    <2>3. QED BY <1>1, <1>2, <2>1, <2>2 DEF FollowerInv, KnownInv
<1>8. QED BY <1>2, <1>3, <1>4, <1>5, <1>6, <1>7

(* A follower that is killed.                                               *)
LEMMA KilledKeeps ==
    ASSUME FollowerInv, NEW f \in Followers, Killed(f)
    PROVE  FollowerInv'
<1>1. /\ Gone(f) /\ Alive(f) /\ created' = created
      /\ UNCHANGED <<sessions, recent, keeper, pass>>
    BY DEF Killed, Gone, sessions
<1>2. /\ FollowersOK' /\ UnbornInv' /\ LockInv' /\ TriesInv' /\ NewestInv' /\ KnownInv'
      /\ \A g \in Followers : /\ life[g] = "dead" => life'[g] = "dead"
                              /\ life'[g] = "unborn" => life[g] = "unborn"
    BY <1>1, GoneKeeps
<1>3. LeaderOK' /\ PassInv'
    BY <1>1, <1>2, LeaderStays
<1>4. QED BY <1>2, <1>3 DEF FollowerInv

(* A follower that says good-bye: its session is terminated, and stays in   *)
(* the table.                                                               *)
LEMMA LeavesKeeps ==
    ASSUME FollowerInv, NEW f \in Followers, Leaves(f)
    PROVE  FollowerInv'
<1>1. /\ Gone(f) /\ Alive(f) /\ current[f] \in Open
      /\ terminated' = terminated \cup {current[f]} /\ recent' = Without(current[f])
      /\ created' = created /\ table' = table /\ keeper' = keeper /\ UNCHANGED pass
    BY DEF Leaves, Gone, Alive
<1>2. /\ FollowersOK' /\ UnbornInv' /\ LockInv' /\ TriesInv' /\ NewestInv' /\ KnownInv'
      /\ \A g \in Followers : /\ life[g] = "dead" => life'[g] = "dead"
                              /\ life'[g] = "unborn" => life[g] = "unborn"
    BY <1>1, GoneKeeps
<1>3. recent' \in Seq(Sessions) /\ Distinct(recent') /\ SeenIds' \subseteq SeenIds
    <2>1. recent \in Seq(Sessions) /\ Distinct(recent)
        BY DEF FollowerInv, LeaderOK
    <2>2. QED BY <1>1, <2>1, WithoutFacts, SeenMembers
<1>4. LeaderOK'
    BY <1>1, <1>3 DEF FollowerInv, LeaderOK, Open, pass
<1>5. PassInv'
    <2>1. todo' = todo /\ dead' = dead /\ target' = target
        BY <1>1 DEF pass
    <2>2. \A row \in todo \cup dead : row.pid \in Followers
        BY DEF FollowerInv, LeaderOK
    <2>3. \A row \in dead : row.sid \in table => keeper = "closing" /\ target = row.sid
        BY DEF FollowerInv, PassInv
    <2>4. \A row \in todo : life'[row.pid] # "unborn"
        BY <1>2, <2>2 DEF FollowerInv, PassInv
    <2>5. \A row \in dead : life'[row.pid] = "dead"
        BY <1>2, <2>2 DEF FollowerInv, PassInv
    <2>6. QED BY <1>1, <2>1, <2>3, <2>4, <2>5 DEF PassInv
<1>6. QED BY <1>2, <1>4, <1>5 DEF FollowerInv

(* The leader's transaction on the file: the lock is taken, and what is read*)
(* is what the file says.                                                   *)
LEMMA RemoveLocksKeeps ==
    ASSUME FollowerInv, RemoveLocks
    PROVE  FollowerInv'
<1>1. /\ keeper = "removing" /\ lock = "free" /\ lock' = "leader" /\ image' = rows
      /\ keeper' = "dropping"
      /\ UNCHANGED <<follower, latest, jobs, rows, sessions, recent, pass, skips>>
    BY DEF RemoveLocks
<1>2. LeaderOK' /\ PassInv' /\ Known' = Known
    BY <1>1 DEF FollowerInv, LeaderOK, PassInv, SeenIds, Known, follower, sessions, pass
<1>3. FollowersOK'
    BY <1>1 DEF FollowerInv, FollowersOK, follower
<1>4. UnbornInv' /\ TriesInv'
    BY <1>1 DEF FollowerInv, UnbornInv, TriesInv, follower
<1>5. LockInv'
    BY <1>1, SessionNumbers DEF FollowerInv, LockInv
<1>6. NewestInv'
    BY <1>1, SessionNumbers DEF FollowerInv, NewestInv, Alive, follower
<1>7. KnownInv'
    BY <1>1, <1>2 DEF FollowerInv, KnownInv, follower, pass
<1>8. QED BY <1>2, <1>3, <1>4, <1>5, <1>6, <1>7 DEF FollowerInv

(* The rows of the dead go; those that live keep what the file said.        *)
LEMMA RemoveWritesKeeps ==
    ASSUME FollowerInv, RemoveWrites
    PROVE  FollowerInv'
<1>1. /\ keeper = "dropping" /\ lock = "leader" /\ lock' = "free" /\ image' = NoRows
      /\ keeper' = "capping" /\ dead' = {}
      /\ UNCHANGED <<follower, latest, jobs, sessions, recent, todo, victims, target, skips>>
    BY DEF RemoveWrites, Releases, FollowerInv, LockInv
<1>2. \A g \in Followers : rows'[g] \in {NoRow, image[g]}
    BY DEF RemoveWrites
<1>3. \A g \in Followers : life[g] \notin {"unborn", "dead"} => rows'[g] = rows[g]
    <2>1. SUFFICES ASSUME NEW g \in Followers, life[g] \notin {"unborn", "dead"}
                   PROVE  rows'[g] = rows[g]
        OBVIOUS
    <2>2. \A row \in dead : row.pid # g
        BY <2>1 DEF FollowerInv, PassInv
    <2>3. rows'[g] = image[g]
        BY <2>2 DEF RemoveWrites
    <2>4. QED BY <1>1, <2>1, <2>3 DEF FollowerInv, LockInv
<1>4. \A g \in Followers : life[g] = "unborn" => rows'[g] = NoRow
    BY <1>1, <1>2 DEF FollowerInv, LockInv, UnbornInv
<1>5. LeaderOK' /\ PassInv' /\ Known' = Known /\ 0 \in Known
    BY <1>1 DEF FollowerInv, LeaderOK, PassInv, SeenIds, Known, follower, sessions
<1>6. FollowersOK'
    <2>1. rows' \in [Followers -> Row]
        BY Blank DEF RemoveWrites, FollowerInv, FollowersOK
    <2>2. QED BY <1>1, <2>1, Blank DEF FollowerInv, FollowersOK, follower
<1>7. UnbornInv' /\ TriesInv'
    BY <1>1, <1>4 DEF FollowerInv, UnbornInv, TriesInv, follower
<1>8. LockInv'
    BY <1>1, SessionNumbers DEF FollowerInv, LockInv
<1>9. NewestInv'
    BY <1>1, <1>3, SessionNumbers DEF FollowerInv, NewestInv, Alive, follower
<1>10. KnownInv'
    BY <1>1, <1>2, <1>5 DEF FollowerInv, KnownInv, NoRow, NoRows, None, follower
<1>11. QED BY <1>5, <1>6, <1>7, <1>8, <1>9, <1>10 DEF FollowerInv

(* The leader's transaction is given up: the file stays as it is.           *)
LEMMA RemoveSkippedKeeps ==
    ASSUME FollowerInv, RemoveSkipped
    PROVE  FollowerInv'
<1>1. /\ keeper' = "capping" /\ dead' = {} /\ skips' = skips + 1 /\ skips < MaxSkips
      /\ UNCHANGED <<follower, latest, jobs, rows, sessions, recent, todo, victims, target>>
    BY DEF RemoveSkipped
<1>2. /\ skips \in Nat /\ skips + 1 \in 0..MaxSkips /\ \A n \in Nat : n <= skips => n <= skips + 1
      /\ skips + 1 <= MaxRetries => skips <= MaxRetries
    BY <1>1, SessionNumbers DEF FollowerInv, FollowersOK
<1>3. \/ lock = "leader" /\ lock' = "free" /\ image' = NoRows
      \/ lock # "leader" /\ lock' = lock /\ image' = image
    BY DEF RemoveSkipped, Releases, FollowerInv, LockInv
<1>4. LeaderOK' /\ PassInv' /\ Known' = Known /\ 0 \in Known
    BY <1>1 DEF FollowerInv, LeaderOK, PassInv, SeenIds, Known, follower, sessions
<1>5. FollowersOK'
    BY <1>1, <1>2, <1>3, Blank DEF FollowerInv, FollowersOK, follower
<1>6. UnbornInv'
    BY <1>1 DEF FollowerInv, UnbornInv, follower
<1>7. TriesInv'
    <2>1. SUFFICES ASSUME NEW f \in Followers, NEW j \in jobs[f] PROVE j.tries <= skips + 1
        BY <1>1 DEF TriesInv
    <2>2. j \in Job
        BY DEF FollowerInv, FollowersOK
    <2>3. j.tries \in Nat /\ j.tries <= skips
        BY <2>2, SessionNumbers DEF FollowerInv, TriesInv, Job
    <2>4. QED BY <1>2, <2>3
<1>8. LockInv'
    BY <1>1, <1>3, SessionNumbers DEF FollowerInv, LockInv, follower
<1>9. NewestInv'
    BY <1>1, <1>2, <1>3, SessionNumbers DEF FollowerInv, NewestInv, Alive, follower
<1>10. KnownInv'
    BY <1>1, <1>3, <1>4 DEF FollowerInv, KnownInv, NoRow, NoRows, None, follower
<1>11. QED BY <1>4, <1>5, <1>6, <1>7, <1>8, <1>9, <1>10 DEF FollowerInv

(* A step of an attempt: it goes, and perhaps another of the same snapshot  *)
(* takes its place.                                                         *)
Turned(f, j, new) ==
    /\ new \in SUBSET Job
    /\ jobs' = [jobs EXCEPT ![f] = (@ \ {j}) \cup new]
    /\ \A k \in new : k.gen = j.gen /\ k.sid = j.sid /\ k.tries <= skips'

(* An attempt that is replaced by others at the same snapshot, or by none:  *)
(* what is left to show of the invariant is what it says of the rows, the   *)
(* lock and the newest snapshot.                                            *)
LEMMA AttemptKeeps ==
    ASSUME FollowerInv, NEW f \in Followers, NEW j \in jobs[f], NEW new, Turned(f, j, new),
           GoesOn(f, j) \/ UNCHANGED life,
           UNCHANGED <<greeted, current, latest, sessions, recent, keeper, pass>>,
           skips' \in {skips, skips + 1}, skips' \in 0..MaxSkips
    PROVE  /\ LeaderOK' /\ PassInv' /\ Known' = Known /\ TriesInv'
           /\ greeted' \subseteq Followers /\ current' \in [Followers -> Sessions \cup {None}]
           /\ latest' \in [Followers -> 0..MaxSnapshots] /\ jobs' \in [Followers -> SUBSET Job]
           /\ life' \in [Followers ->
                {"unborn", "connecting", "recording", "up", "resetting", "dead"}]
           /\ \A g \in Followers : /\ (life'[g] = "dead") <=> (life[g] = "dead")
                                   /\ (life'[g] = "unborn") <=> (life[g] = "unborn")
           /\ \A g \in Followers : g # f => jobs'[g] = jobs[g]
           /\ jobs'[f] = (jobs[f] \ {j}) \cup new
           /\ life[f] # "unborn" /\ j \in Job
           /\ \A g \in Followers : \A k \in jobs'[g] : k.sid \in Known
<1>1. /\ jobs' \in [Followers -> SUBSET Job] /\ j \in Job
      /\ jobs'[f] = (jobs[f] \ {j}) \cup new
      /\ \A g \in Followers : g # f => jobs'[g] = jobs[g]
    BY DEF FollowerInv, FollowersOK, Turned
<1>2. /\ life' \in [Followers ->
           {"unborn", "connecting", "recording", "up", "resetting", "dead"}]
      /\ \A g \in Followers : /\ (life'[g] = "dead") <=> (life[g] = "dead")
                              /\ (life'[g] = "unborn") <=> (life[g] = "unborn")
    BY GoesOnFacts
<1>3. LeaderOK' /\ PassInv' /\ Known' = Known
    BY <1>2, LeaderStays
<1>4. life[f] # "unborn"
    BY DEF FollowerInv, UnbornInv
<1>5. TriesInv'
    <2>1. SUFFICES ASSUME NEW g \in Followers, NEW k \in jobs'[g] PROVE k.tries <= skips'
        BY DEF TriesInv
    <2>2. CASE k \in jobs[g]
        <3>1. k \in Job
            BY <2>2 DEF FollowerInv, FollowersOK
        <3>2. k.tries \in Nat /\ k.tries <= skips /\ skips \in Nat
            BY <2>2, <3>1, SessionNumbers DEF FollowerInv, TriesInv, Job
        <3>3. k.tries <= skips + 1
            BY <3>2
        <3>4. QED BY <3>2, <3>3
    <2>3. CASE k \notin jobs[g]
        BY <1>1, <2>1, <2>3 DEF Turned
    <2>4. QED BY <2>2, <2>3
<1>6. \A g \in Followers : \A k \in jobs'[g] : k.sid \in Known
    BY <1>1 DEF Turned, FollowerInv, KnownInv
<1>7. /\ greeted' \subseteq Followers /\ current' \in [Followers -> Sessions \cup {None}]
      /\ latest' \in [Followers -> 0..MaxSnapshots]
    BY DEF FollowerInv, FollowersOK
<1>8. QED BY <1>1, <1>2, <1>3, <1>4, <1>5, <1>6, <1>7

(* An attempt is within the bounds of the retries.                          *)
LEMMA JobInv ==
    ASSUME FollowerInv, NEW f \in Followers, NEW j \in jobs[f]
    PROVE  j \in Job /\ j.tries <= skips /\ skips \in 0..MaxSkips /\ skips \in Nat
BY SessionNumbers DEF FollowerInv, FollowersOK, TriesInv

(* An attempt gets the lock, unless its snapshot is no longer the newest.   *)
LEMMA LocksKeeps ==
    ASSUME FollowerInv, NEW f \in Followers, NEW j \in jobs[f], Locks(f, j)
    PROVE  FollowerInv'
<1> DEFINE h == [j EXCEPT !.at = "holding"]
           new == IF j.gen = latest[f] THEN {h} ELSE {}
<1>1. j \in Job /\ j.tries <= skips /\ skips \in 0..MaxSkips
    BY JobInv
<1>2. h \in Job /\ h.gen = j.gen /\ h.sid = j.sid /\ h.at = "holding" /\ h.tries = j.tries
    BY <1>1, JobFacts
<1> HIDE DEF h
<1>3. /\ Turned(f, j, new) /\ (GoesOn(f, j) \/ UNCHANGED life)
      /\ UNCHANGED <<greeted, current, latest, sessions, recent, keeper, pass>>
      /\ skips' = skips /\ rows' = rows
    BY <1>1, <1>2 DEF Turned, Locks, Instead, h
<1>4. /\ LeaderOK' /\ PassInv' /\ Known' = Known /\ TriesInv'
      /\ greeted' \subseteq Followers /\ current' \in [Followers -> Sessions \cup {None}]
      /\ latest' \in [Followers -> 0..MaxSnapshots] /\ jobs' \in [Followers -> SUBSET Job]
      /\ life' \in [Followers ->
           {"unborn", "connecting", "recording", "up", "resetting", "dead"}]
      /\ \A g \in Followers : /\ (life'[g] = "dead") <=> (life[g] = "dead")
                              /\ (life'[g] = "unborn") <=> (life[g] = "unborn")
      /\ \A g \in Followers : g # f => jobs'[g] = jobs[g]
      /\ jobs'[f] = (jobs[f] \ {j}) \cup new
      /\ life[f] # "unborn"
      /\ \A g \in Followers : \A k \in jobs'[g] : k.sid \in Known
    BY <1>1, <1>3, AttemptKeeps
<1>5. /\ lock = "free" /\ j.at = "trying"
      /\ \/ j.gen = latest[f] /\ lock' = f /\ image' = Pruned(f, rows)
         \/ j.gen # latest[f] /\ lock' = lock /\ image' = image
    BY DEF Locks
<1>6. \A g \in Followers : Pruned(f, rows)[g] \in {rows[g], NoRow}
    BY DEF Pruned
<1>7. \A g \in Followers : life[g] # "dead" => Pruned(f, rows)[g] = rows[g]
    BY DEF Pruned, Alive, FollowerInv, UnbornInv
<1>8. FollowersOK'
    <2>1. Pruned(f, rows) \in [Followers -> Row]
        BY Blank DEF Pruned, FollowerInv, FollowersOK
    <2>2. QED BY <1>3, <1>4, <1>5, <2>1 DEF FollowerInv, FollowersOK
<1>9. UnbornInv'
    BY <1>3, <1>4 DEF FollowerInv, UnbornInv
<1>10. LockInv'
    <2>1. \A g \in Followers : \A k \in jobs[g] : k.at # "holding"
        BY <1>5, SessionNumbers DEF FollowerInv, LockInv
    <2>2. \A g \in Followers : \A k \in jobs'[g] :
              k.at = "holding" => g = f /\ k = h /\ j.gen = latest[f]
        BY <1>4, <2>1
    <2>3. (keeper' = "dropping") <=> (lock' = "leader")
        BY <1>3, <1>5, SessionNumbers DEF FollowerInv, LockInv
    <2>4. \A g \in Followers : lock' # "free" /\ life'[g] # "dead" => image'[g] = rows'[g]
        BY <1>3, <1>4, <1>5, <1>7
    <2>5. QED BY <1>5, <2>2, <2>3, <2>4 DEF LockInv
<1>11. NewestInv'
    <2>1. SUFFICES ASSUME NEW g \in Followers, Alive(g)', latest'[g] > 0, skips' <= MaxRetries,
                          \A k \in jobs'[g] : k.gen # latest'[g]
                   PROVE  rows'[g].gen = latest'[g] /\ lock' # g
        BY DEF NewestInv
    <2>2. \A k \in jobs[g] : k.gen # latest[g]
        BY <1>2, <1>3, <1>4, <2>1
    <2>3. rows[g].gen = latest[g] /\ lock # g
        BY <1>3, <1>4, <2>1, <2>2 DEF FollowerInv, NewestInv, Alive
    <2>4. lock' # g
        BY <1>5, <2>2, <2>3
    <2>5. QED BY <1>3, <2>3, <2>4
<1>12. KnownInv'
    <2>1. 0 \in Known /\ NoRow.sid = 0
        BY DEF FollowerInv, LeaderOK, Known, NoRow, None
    <2>2. \A g \in Followers : image'[g].sid \in Known
        BY <1>5, <1>6, <2>1 DEF FollowerInv, KnownInv
    <2>3. QED BY <1>3, <1>4, <2>2 DEF FollowerInv, KnownInv, pass
<1>13. QED BY <1>4, <1>8, <1>9, <1>10, <1>11, <1>12 DEF FollowerInv

(* An attempt writes: the others' rows stay as the file has them.           *)
LEMMA WritesKeeps ==
    ASSUME FollowerInv, NEW f \in Followers, NEW j \in jobs[f], Writes(f, j)
    PROVE  FollowerInv'
<1>1. j \in Job /\ skips \in 0..MaxSkips
    BY JobInv
<1>2. /\ Turned(f, j, {}) /\ (GoesOn(f, j) \/ UNCHANGED life)
      /\ UNCHANGED <<greeted, current, latest, sessions, recent, keeper, pass>>
      /\ skips' = skips
    BY DEF Turned, Writes, Instead
<1>3. /\ LeaderOK' /\ PassInv' /\ Known' = Known /\ TriesInv'
      /\ greeted' \subseteq Followers /\ current' \in [Followers -> Sessions \cup {None}]
      /\ latest' \in [Followers -> 0..MaxSnapshots] /\ jobs' \in [Followers -> SUBSET Job]
      /\ life' \in [Followers ->
           {"unborn", "connecting", "recording", "up", "resetting", "dead"}]
      /\ \A g \in Followers : /\ (life'[g] = "dead") <=> (life[g] = "dead")
                              /\ (life'[g] = "unborn") <=> (life[g] = "unborn")
      /\ \A g \in Followers : g # f => jobs'[g] = jobs[g]
      /\ jobs'[f] = (jobs[f] \ {j}) \cup {}
      /\ life[f] # "unborn"
      /\ \A g \in Followers : \A k \in jobs'[g] : k.sid \in Known
    BY <1>1, <1>2, AttemptKeeps
<1>4. j.at = "holding" /\ lock = f /\ lock' = "free" /\ image' = NoRows
    BY DEF Writes, Releases, FollowerInv, LockInv
<1>5. /\ rows'[f].gen = j.gen /\ rows'[f].sid = j.sid
      /\ \A g \in Followers : g # f => rows'[g] = image[g]
    BY DEF Writes, FollowerInv, FollowersOK
<1>6. \A g \in Followers : g # f /\ life[g] # "dead" => rows'[g] = rows[g]
    BY <1>4, <1>5, SessionNumbers DEF FollowerInv, LockInv
<1>7. FollowersOK'
    <2>1. [gen |-> j.gen, sid |-> j.sid] \in Row
        <3>1. j.gen \in 1..MaxSnapshots /\ j.sid \in Sessions \cup {None}
            BY <1>1, JobFacts
        <3>2. j.gen \in 0..MaxSnapshots
            BY <3>1, SessionNumbers
        <3>3. QED BY <3>1, <3>2 DEF Row
    <2>2. rows' \in [Followers -> Row]
        BY <2>1 DEF Writes, FollowerInv, FollowersOK
    <2>3. QED BY <1>2, <1>3, <1>4, <2>2, Blank DEF FollowerInv, FollowersOK
<1>8. UnbornInv'
    BY <1>2, <1>3, <1>6 DEF FollowerInv, UnbornInv
<1>9. LockInv'
    <2>1. \A g \in Followers : \A k \in jobs'[g] : k.at # "holding"
        BY <1>3, <1>4 DEF FollowerInv, LockInv
    <2>2. keeper' # "dropping"
        BY <1>2, <1>4, SessionNumbers DEF FollowerInv, LockInv
    <2>3. QED BY <1>4, <2>1, <2>2 DEF LockInv
<1>10. NewestInv'
    <2>1. SUFFICES ASSUME NEW g \in Followers, Alive(g)', latest'[g] > 0, skips' <= MaxRetries,
                          \A k \in jobs'[g] : k.gen # latest'[g]
                   PROVE  rows'[g].gen = latest'[g] /\ lock' # g
        BY DEF NewestInv
    <2>2. Alive(g) /\ latest[g] > 0 /\ skips <= MaxRetries /\ lock' # g
        BY <1>2, <1>3, <1>4, <2>1, SessionNumbers DEF Alive
    <2>3. CASE g = f /\ j.gen = latest[f]
        BY <1>2, <1>5, <2>2, <2>3
    <2>4. CASE g = f /\ j.gen # latest[f]
        <3>1. \A k \in jobs[g] : k.gen # latest[g]
            BY <1>2, <1>3, <2>1, <2>4
        <3>2. lock # g
            BY <2>2, <3>1 DEF FollowerInv, NewestInv
        <3>3. QED BY <1>4, <2>4, <3>2
    <2>5. CASE g # f
        <3>1. rows[g].gen = latest[g]
            BY <1>2, <1>3, <2>1, <2>2, <2>5 DEF FollowerInv, NewestInv
        <3>2. rows'[g] = rows[g]
            BY <1>6, <2>2, <2>5 DEF Alive
        <3>3. QED BY <1>2, <2>2, <3>1, <3>2
    <2>6. QED BY <2>3, <2>4, <2>5
<1>11. KnownInv'
    <2>1. 0 \in Known
        BY DEF FollowerInv, LeaderOK, Known
    <2>2. \A g \in Followers : image'[g].sid \in Known
        BY <1>4, <2>1, Blank
    <2>3. \A g \in Followers : rows'[g].sid \in Known
        BY <1>5 DEF FollowerInv, KnownInv
    <2>4. QED BY <1>2, <1>3, <2>2, <2>3 DEF FollowerInv, KnownInv, pass
<1>12. QED BY <1>3, <1>7, <1>8, <1>9, <1>10, <1>11 DEF FollowerInv

(* An attempt that fails sleeps, until it has failed too often.             *)
LEMMA SkipsKeeps ==
    ASSUME FollowerInv, NEW f \in Followers, NEW j \in jobs[f], Skips(f, j)
    PROVE  FollowerInv'
<1> DEFINE s == [j EXCEPT !.at = "sleeping", !.tries = @ + 1]
           new == IF j.tries < MaxRetries THEN {s} ELSE {}
<1>1. /\ j \in Job /\ j.tries <= skips /\ skips \in Nat /\ skips < MaxSkips
      /\ j.tries \in 0..MaxRetries
    BY JobInv, JobFacts DEF Skips
<1>2. /\ skips + 1 \in 0..MaxSkips /\ j.tries + 1 <= skips + 1
      /\ skips + 1 <= MaxRetries => skips <= MaxRetries /\ j.tries < MaxRetries
    BY <1>1, SessionNumbers
<1>3. j.tries < MaxRetries =>
          /\ s \in Job /\ s.gen = j.gen /\ s.sid = j.sid /\ s.at = "sleeping"
          /\ s.tries = j.tries + 1
    <2>1. j.tries < MaxRetries => j.tries + 1 \in 0..MaxRetries
        BY <1>1, SessionNumbers
    <2>2. QED BY <1>1, <2>1 DEF Job
<1> HIDE DEF s
<1>4. skips' = skips + 1
    BY DEF Skips
<1>5. /\ Turned(f, j, new) /\ GoesOn(f, j)
      /\ UNCHANGED <<greeted, current, latest, sessions, recent, keeper, pass>> /\ rows' = rows
    BY <1>2, <1>3, <1>4 DEF Turned, Skips, Instead, s
<1>6. /\ LeaderOK' /\ PassInv' /\ Known' = Known /\ TriesInv'
      /\ greeted' \subseteq Followers /\ current' \in [Followers -> Sessions \cup {None}]
      /\ latest' \in [Followers -> 0..MaxSnapshots] /\ jobs' \in [Followers -> SUBSET Job]
      /\ life' \in [Followers ->
           {"unborn", "connecting", "recording", "up", "resetting", "dead"}]
      /\ \A g \in Followers : /\ (life'[g] = "dead") <=> (life[g] = "dead")
                              /\ (life'[g] = "unborn") <=> (life[g] = "unborn")
      /\ \A g \in Followers : g # f => jobs'[g] = jobs[g]
      /\ jobs'[f] = (jobs[f] \ {j}) \cup new
      /\ life[f] # "unborn"
      /\ \A g \in Followers : \A k \in jobs'[g] : k.sid \in Known
    BY <1>2, <1>4, <1>5, AttemptKeeps
<1>7. \/ j.at = "holding" /\ lock = f /\ lock' = "free" /\ image' = NoRows
      \/ j.at = "trying" /\ lock' = lock /\ image' = image
    BY DEF Skips, Releases, FollowerInv, LockInv
<1>8. FollowersOK'
    BY <1>2, <1>4, <1>5, <1>6, <1>7, Blank DEF FollowerInv, FollowersOK
<1>9. UnbornInv'
    BY <1>5, <1>6 DEF FollowerInv, UnbornInv
<1>10. LockInv'
    <2>1. \A g \in Followers : \A k \in jobs'[g] :
              k.at = "holding" => k \in jobs[g] /\ ~(g = f /\ k = j)
        BY <1>3, <1>6
    <2>2. \A g \in Followers : \A k \in jobs'[g] : k.at = "holding" => lock' = g
        BY <1>7, <2>1 DEF FollowerInv, LockInv
    <2>3. (keeper' = "dropping") <=> (lock' = "leader")
        BY <1>5, <1>7, SessionNumbers DEF FollowerInv, LockInv
    <2>4. \A g \in Followers : lock' # "free" /\ life'[g] # "dead" => image'[g] = rows'[g]
        BY <1>5, <1>6, <1>7 DEF FollowerInv, LockInv
    <2>5. \A g \in Followers : \A k, l \in jobs'[g] :
              k.at = "holding" /\ l.at = "holding" => k = l
        BY <2>1 DEF FollowerInv, LockInv
    <2>6. QED BY <2>2, <2>3, <2>4, <2>5 DEF LockInv
<1>11. NewestInv'
    <2>1. SUFFICES ASSUME NEW g \in Followers, Alive(g)', latest'[g] > 0, skips' <= MaxRetries,
                          \A k \in jobs'[g] : k.gen # latest'[g]
                   PROVE  rows'[g].gen = latest'[g] /\ lock' # g
        BY DEF NewestInv
    <2>2. skips <= MaxRetries /\ j.tries < MaxRetries
        BY <1>2, <1>4, <2>1
    <2>3. \A k \in jobs[g] : k.gen # latest[g]
        BY <1>3, <1>5, <1>6, <2>1, <2>2
    <2>4. rows[g].gen = latest[g] /\ lock # g
        BY <1>5, <1>6, <2>1, <2>2, <2>3 DEF FollowerInv, NewestInv, Alive
    <2>5. lock' # g
        BY <1>7, <2>4, SessionNumbers
    <2>6. QED BY <1>5, <2>4, <2>5
<1>12. KnownInv'
    <2>1. 0 \in Known
        BY DEF FollowerInv, LeaderOK, Known
    <2>2. \A g \in Followers : image'[g].sid \in Known
        BY <1>7, <2>1, Blank DEF FollowerInv, KnownInv
    <2>3. QED BY <1>5, <1>6, <2>2 DEF FollowerInv, KnownInv, pass
<1>13. QED BY <1>6, <1>8, <1>9, <1>10, <1>11, <1>12 DEF FollowerInv

(* An attempt that has slept tries again if its snapshot is still wanted.   *)
LEMMA WakesKeeps ==
    ASSUME FollowerInv, NEW f \in Followers, NEW j \in jobs[f], Wakes(f, j)
    PROVE  FollowerInv'
<1> DEFINE t == [j EXCEPT !.at = "trying"]
           new == IF j.gen = latest[f] THEN {t} ELSE {}
<1>1. j \in Job /\ j.tries <= skips /\ skips \in 0..MaxSkips
    BY JobInv
<1>2. t \in Job /\ t.gen = j.gen /\ t.sid = j.sid /\ t.at = "trying" /\ t.tries = j.tries
    BY <1>1, JobFacts
<1> HIDE DEF t
<1>3. /\ Turned(f, j, new) /\ UNCHANGED life
      /\ UNCHANGED <<greeted, current, latest, sessions, recent, keeper, pass>>
      /\ skips' = skips /\ rows' = rows /\ lock' = lock /\ image' = image
    BY <1>1, <1>2 DEF Turned, Wakes, Instead, t, follower, file
<1>4. /\ LeaderOK' /\ PassInv' /\ Known' = Known /\ TriesInv'
      /\ greeted' \subseteq Followers /\ current' \in [Followers -> Sessions \cup {None}]
      /\ latest' \in [Followers -> 0..MaxSnapshots] /\ jobs' \in [Followers -> SUBSET Job]
      /\ life' \in [Followers ->
           {"unborn", "connecting", "recording", "up", "resetting", "dead"}]
      /\ \A g \in Followers : g # f => jobs'[g] = jobs[g]
      /\ jobs'[f] = (jobs[f] \ {j}) \cup new
      /\ life[f] # "unborn"
      /\ \A g \in Followers : \A k \in jobs'[g] : k.sid \in Known
    BY <1>1, <1>3, AttemptKeeps
<1>5. FollowersOK'
    BY <1>3, <1>4 DEF FollowerInv, FollowersOK
<1>6. UnbornInv'
    BY <1>3, <1>4 DEF FollowerInv, UnbornInv
<1>7. LockInv'
    <2>1. \A g \in Followers : \A k \in jobs'[g] : k.at = "holding" => k \in jobs[g]
        BY <1>2, <1>4
    <2>2. QED BY <1>3, <2>1 DEF FollowerInv, LockInv
<1>8. NewestInv'
    <2>1. SUFFICES ASSUME NEW g \in Followers, Alive(g)', latest'[g] > 0, skips' <= MaxRetries,
                          \A k \in jobs'[g] : k.gen # latest'[g]
                   PROVE  rows'[g].gen = latest'[g] /\ lock' # g
        BY DEF NewestInv
    <2>2. \A k \in jobs[g] : k.gen # latest[g]
        BY <1>2, <1>3, <1>4, <2>1
    <2>3. QED BY <1>3, <2>1, <2>2 DEF FollowerInv, NewestInv, Alive
<1>9. KnownInv'
    BY <1>3, <1>4 DEF FollowerInv, KnownInv, pass
<1>10. QED BY <1>4, <1>5, <1>6, <1>7, <1>8, <1>9 DEF FollowerInv

(* Nobody has started, and the file is empty.                               *)
LEMMA FollowerInit == Init => FollowerInv
<1> SUFFICES ASSUME Init PROVE FollowerInv
    OBVIOUS
<1>1. recent \in Seq(Sessions) /\ Distinct(recent) /\ SeenIds = {} /\ victims \in Seq(Sessions)
    BY DEF Init, Distinct, SeenIds
<1>2. LeaderOK
    BY <1>1, SessionNumbers DEF Init, LeaderOK
<1>3. FollowersOK
    BY SessionNumbers, Blank DEF Init, FollowersOK
<1>4. UnbornInv /\ LockInv /\ TriesInv /\ NewestInv /\ PassInv
    BY SessionNumbers DEF Init, UnbornInv, LockInv, TriesInv, NewestInv, PassInv, NoRows
<1>5. KnownInv
    <2>1. 0 \in Known
        BY DEF Init, Known
    <2>2. QED BY <2>1, Blank DEF Init, KnownInv, None
<1>6. QED BY <1>2, <1>3, <1>4, <1>5 DEF FollowerInv

(* Nothing happens to any of it.                                            *)
LEMMA FollowerStutters ==
    ASSUME FollowerInv, UNCHANGED vars
    PROVE  FollowerInv'
<1>1. LeaderOK' /\ PassInv' /\ Known' = Known
    BY LeaderStays DEF vars, follower
<1>2. FollowersOK' /\ UnbornInv' /\ LockInv' /\ TriesInv' /\ NewestInv'
    BY FollowersStay DEF vars
<1>3. KnownInv'
    BY <1>1 DEF FollowerInv, KnownInv, vars, follower, file, pass
<1>4. QED BY <1>1, <1>2, <1>3 DEF FollowerInv

(* No step of a follower, of a snapshot or of housekeeping disturbs it.     *)
LEMMA FollowerNext ==
    ASSUME FollowerInv, Next
    PROVE  FollowerInv'
<1>1. CASE Forget
    BY <1>1, ForgetKeeps
<1>2. CASE Reaps
    BY <1>2, ReapBeginsKeeps, LooksAtKeeps, ReapedKeeps, AllLookedAtKeeps, RemoveLocksKeeps,
       RemoveWritesKeeps, RemoveSkippedKeeps DEF Reaps
<1>3. CASE Caps
    BY <1>3, ChooseVictimsKeeps, EvictNextKeeps, EvictedKeeps, AllEvictedKeeps DEF Caps
<1>4. ASSUME NEW f \in Followers, Lives(f) PROVE FollowerInv'
    BY <1>4, StartKeeps, ConnectKeeps, ClientInitializesKeeps, RequestKeeps, ResetKeeps,
       EndsCleanlyKeeps, KilledKeeps, LeavesKeeps DEF Lives
<1>5. ASSUME NEW f \in Followers, Attempts(f) PROVE FollowerInv'
    BY <1>5, LocksKeeps, WritesKeeps, SkipsKeeps, WakesKeeps DEF Attempts
<1>6. QED BY <1>1, <1>2, <1>3, <1>4, <1>5 DEF Next

(* The inductive invariant: the types, whose the lock is and what its holder*)
(* has read, the newest snapshot of each follower, and what the pass knows  *)
(* of the dead.                                                             *)
THEOREM FollowerInvariant == Spec => []FollowerInv
<1>1. FollowerInv /\ [Next]_vars => FollowerInv'
    BY FollowerNext, FollowerStutters
<1>2. QED BY <1>1, FollowerInit, PTL DEF Spec

(* While an eviction goes on nothing is added to what is left of it.        *)
LEMMA LeftShrinks ==
    ASSUME FollowerInv, CountInv, counted' = counted, created' \in {created, created + 1},
           keeper' \in {"evicting", "shutting"} =>
               keeper \in {"evicting", "shutting"} /\ Left' \subseteq Left
    PROVE  CountInv'
<1>1. counted' \in 0..created'
    BY SessionNumbers DEF CountInv, FollowerInv, LeaderOK
<1>2. ASSUME keeper' \in {"evicting", "shutting"}
      PROVE  Cardinality(Left') <= Cap
    <2>1. Left \subseteq Sessions
        BY SessionNumbers DEF FollowerInv, LeaderOK, Left
    <2>2. /\ IsFiniteSet(Left) /\ Cardinality(Left) \in Nat
          /\ Left' \subseteq Left /\ Left' \in SUBSET Sessions
        BY <1>2, <2>1, SessionsFinite
    <2>3. Cardinality(Left') <= Cardinality(Left) /\ Cardinality(Left') \in Nat
        BY <2>2, FS_Subset, SessionsFinite
    <2>4. Cardinality(Left) <= Cap /\ Cap \in Nat
        BY <1>2, SessionNumbers DEF CountInv
    <2>5. QED BY <2>2, <2>3, <2>4
<1>3. QED BY <1>1, <1>2 DEF CountInv

(* A session that comes meanwhile was not counted, and one that says        *)
(* good-bye stays in the table.                                             *)
LEMMA OthersComeAndGo ==
    ASSUME FollowerInv, CountInv, UNCHANGED <<keeper, pass>>,
           UNCHANGED <<created, table>> \/ Opens
    PROVE  CountInv'
<1>1. /\ counted' = counted /\ victims' = victims /\ target' = target /\ keeper' = keeper
      /\ \/ created' = created /\ table' = table
         \/ created' = created + 1 /\ table' = table \cup {created + 1}
    BY DEF pass, Opens
<1>2. created + 1 \notin 1..counted
    BY SessionNumbers DEF CountInv, FollowerInv, LeaderOK
<1>3. Left' \subseteq Left
    BY <1>1, <1>2 DEF Left, Doomed, Members
<1>4. created' \in {created, created + 1}
    BY <1>1
<1>5. QED BY <1>1, <1>3, <1>4, LeftShrinks

(* Of what is counted, as many as exceed the cap are to be evicted.         *)
LEMMA ChooseVictimsCounts ==
    ASSUME FollowerInv, CountInv, ChooseVictims
    PROVE  CountInv'
<1> DEFINE over == Cardinality(table) - Cap
<1>1. /\ recent \in Seq(Sessions) /\ Distinct(recent) /\ created \in Nat
      /\ table \subseteq 1..created /\ table \in SUBSET Sessions
      /\ created' = created /\ table' = table
    <2>1. /\ recent \in Seq(Sessions) /\ Distinct(recent)
          /\ created \in 0..MaxSessions /\ table \subseteq 1..created
        BY DEF FollowerInv, LeaderOK
    <2>2. created \in Nat /\ table \in SUBSET Sessions
        BY <2>1, SessionNumbers
    <2>3. QED BY <2>1, <2>2 DEF ChooseVictims, sessions
<1>2. IsFiniteSet(table) /\ Cardinality(table) \in Nat /\ Cap \in Nat
    BY <1>1, SessionsFinite, SessionNumbers
<1>3. CASE over > 0
    <2> DEFINE v == Victims(over)
    <2>1. over \in 1..Cardinality(table)
        BY <1>2, <1>3
    <2>2. v \in Seq(table) /\ Len(v) = over /\ Distinct(v)
        BY <1>1, <2>1, VictimsFacts
    <2>3. victims' = v /\ counted' = created /\ keeper' = "evicting"
        BY <1>3 DEF ChooseVictims
    <2> HIDE DEF v
    <2>4. Members(v) \subseteq table /\ Cardinality(Members(v)) = over
        BY <2>2, DistinctCount DEF Members
    <2>5. Left' = table \ Members(v)
        BY <1>1, <2>3 DEF Left, Doomed, Members
    <2>6. Cardinality(table \ Members(v)) = Cardinality(table) - over
        <3>1. table \cap Members(v) = Members(v)
            BY <2>4
        <3>2. Cardinality(table \ Members(v))
                  = Cardinality(table) - Cardinality(table \cap Members(v))
            BY <1>2, FS_Difference
        <3>3. QED BY <2>4, <3>1, <3>2
    <2>7. Cardinality(Left') <= Cap
        BY <1>2, <2>5, <2>6
    <2>8. QED BY <1>1, <2>3, <2>7 DEF CountInv
<1>4. CASE ~(over > 0)
    BY <1>1, <1>4 DEF ChooseVictims, CountInv
<1>5. QED BY <1>3, <1>4

(* The next victim is shut down, or goes at once.                           *)
LEMMA EvictNextCounts ==
    ASSUME FollowerInv, CountInv, EvictNext
    PROVE  CountInv'
<1> DEFINE h == Head(victims)
           t == Tail(victims)
<1>1. victims \in Seq(Sessions) /\ victims # <<>>
    BY DEF FollowerInv, LeaderOK, EvictNext
<1>2. /\ t \in Seq(Sessions) /\ Len(t) = Len(victims) - 1 /\ Len(victims) \in Nat
      /\ \A i \in 1..Len(t) : t[i] = victims[i + 1]
      /\ h = victims[1]
    BY <1>1
<1>3. /\ keeper = "evicting" /\ counted' = counted /\ created' = created /\ victims' = t
      /\ \/ table' = table /\ target' = h /\ keeper' = "shutting"
         \/ table' = table \ {h} /\ target' = target /\ keeper' = "evicting"
    BY DEF EvictNext, Terminates
<1> HIDE DEF h, t
<1>4. Members(victims) \subseteq Members(t) \cup {h}
    <2>1. SUFFICES ASSUME NEW i \in 1..Len(victims) PROVE victims[i] \in Members(t) \cup {h}
        BY DEF Members
    <2>2. CASE i = 1
        BY <1>2, <2>2
    <2>3. CASE i # 1
        <3>1. i - 1 \in 1..Len(t) /\ t[i - 1] = victims[i]
            BY <1>2, <2>3
        <3>2. QED BY <3>1 DEF Members
    <2>4. QED BY <2>2, <2>3
<1>5. Left' \subseteq Left
    <2>1. Doomed = Members(victims) /\ Members(victims)' = Members(t)
        BY <1>3 DEF Doomed, Members
    <2>2. CASE table' = table /\ target' = h /\ keeper' = "shutting"
        <3>1. Doomed' = Members(t) \cup {h}
            BY <2>1, <2>2 DEF Doomed
        <3>2. QED BY <1>3, <1>4, <2>1, <2>2, <3>1 DEF Left
    <2>3. CASE table' = table \ {h} /\ target' = target /\ keeper' = "evicting"
        <3>1. Doomed' = Members(t)
            BY <2>1, <2>3 DEF Doomed
        <3>2. QED BY <1>3, <1>4, <2>1, <2>3, <3>1 DEF Left
    <2>4. QED BY <1>3, <2>2, <2>3
<1>6. QED BY <1>3, <1>5, LeftShrinks

(* The session being shut down goes.                                        *)
LEMMA EvictedCounts ==
    ASSUME FollowerInv, CountInv, Evicted
    PROVE  CountInv'
<1>1. /\ keeper = "shutting" /\ counted' = counted /\ created' = created
      /\ victims' = victims /\ table' = table \ {target} /\ keeper' = "evicting"
    BY DEF Evicted, TakenOut
<1>2. Left' \subseteq Left
    BY <1>1 DEF Left, Doomed, Members
<1>3. QED BY <1>1, <1>2, LeftShrinks

(* Whoever connects, goes or is closed, what is left of what was counted    *)
(* stays within the cap.                                                    *)
LEMMA CountNext ==
    ASSUME FollowerInv, CountInv, [Next]_vars
    PROVE  CountInv'
<1>1. CASE Reaps
    <2>1. /\ counted' = counted /\ created' = created
          /\ keeper' \notin {"evicting", "shutting"}
        BY <1>1 DEF Reaps, ReapBegins, LooksAt, Terminates, Reaped, TakenOut, AllLookedAt,
           RemoveLocks, RemoveWrites, RemoveSkipped, sessions, pass
    <2>2. QED BY <2>1, LeftShrinks
<1>2. CASE Caps
    <2>1. CASE AllEvicted
        BY <2>1 DEF AllEvicted, CountInv, FollowerInv, LeaderOK, sessions
    <2>2. QED BY <1>2, <2>1, ChooseVictimsCounts, EvictNextCounts, EvictedCounts DEF Caps
<1>3. ASSUME NEW f \in Followers, Lives(f) PROVE CountInv'
    <2>1. UNCHANGED <<keeper, pass>> /\ (UNCHANGED <<created, table>> \/ Opens)
        BY <1>3 DEF Lives, Start, Connect, ConnectFails, Creates, ClientInitializes, Request,
           Reset, EndsCleanly, Killed, Leaves, Gone, sessions
    <2>2. QED BY <2>1, OthersComeAndGo
<1>4. ASSUME NEW f \in Followers, Attempts(f) PROVE CountInv'
    <2>1. UNCHANGED <<keeper, pass>> /\ UNCHANGED <<created, table>>
        BY <1>4 DEF Attempts, Locks, Writes, Skips, Wakes, sessions
    <2>2. QED BY <2>1, OthersComeAndGo
<1>5. CASE Forget \/ UNCHANGED vars
    <2>1. UNCHANGED <<keeper, pass>> /\ UNCHANGED <<created, table>>
        BY <1>5 DEF Forget, vars, sessions
    <2>2. QED BY <2>1, OthersComeAndGo
<1>6. QED BY <1>1, <1>2, <1>3, <1>4, <1>5 DEF Next

(* The second inductive invariant, on top of the first: what an eviction    *)
(* has still to do.                                                         *)
THEOREM CountInvariant == Spec => []CountInv
<1>1. Init => CountInv
    BY DEF Init, CountInv
<1>2. FollowerInv /\ CountInv /\ [Next]_vars => CountInv'
    BY CountNext
<1>3. QED BY <1>1, <1>2, FollowerInvariant, PTL DEF Spec

(* When an eviction ends, no more than the cap are left of the sessions that*)
(* were counted, however many have come meanwhile                           *)
(* (_enforce_mcp_session_cap_once).                                         *)
THEOREM CapIsShed == Spec => []CapShed
<1>1. CountInv => CapShed
    <2>1. SUFFICES ASSUME CountInv, keeper = "evicting", victims = <<>>
                   PROVE  Cardinality(table \cap 1..counted) <= Cap
        BY DEF CapShed
    <2>2. Left = table \cap 1..counted
        BY <2>1 DEF Left, Doomed, Members
    <2>3. QED BY <2>1, <2>2 DEF CountInv
<1>2. QED BY <1>1, CountInvariant, PTL

(* The newest snapshot of a live follower that was not refused too often is *)
(* what the file says of it (_state_lock, still_current).                   *)
THEOREM RegistrationsHold == Spec => []RegistrationHolds
<1>1. FollowerInv /\ CountInv => RegistrationHolds
    BY Typed DEF FollowerInv, NewestInv, RegistrationHolds
<1>2. QED BY <1>1, FollowerInvariant, CountInvariant, PTL

(* A dead follower's row goes after the session the pass has read of it     *)
(* (_reap_dead_follower_sessions_once).                                     *)
THEOREM RowsOutliveSessions == Spec => RowOutlivesSession
<1> DEFINE Outlives ==
              \A row \in dead :
                  (rows[row.pid] # NoRow /\ rows'[row.pid] = NoRow /\ keeper = "dropping")
                      => row.sid \notin table
<1>1. FollowerInv => Outlives
    BY DEF FollowerInv, PassInv
<1>2. FollowerInv => [Outlives]_vars
    BY <1>1
<1> HIDE DEF Outlives
<1>3. Spec => [][Outlives]_vars
    BY <1>2, FollowerInvariant, PTL
<1>4. QED BY <1>3 DEF Outlives, RowOutlivesSession
=============================================================================
