------------------------ MODULE CrashRecoveryProofs -------------------------
(* What holds of crash recovery for any number of pages and any budget.     *)
EXTENDS CrashRecovery, SequenceTheorems, FiniteSetTheorems, TLAPS

(* Sequences in which nothing is twice.                                     *)
Distinct(q) == \A i, j \in 1..Len(q) : q[i] = q[j] => i = j
Members(q) == {q[i] : i \in 1..Len(q)}

(* What is left of a sequence without its k-th element.                     *)
Cut(q, k) == SubSeq(q, 1, k - 1) \o SubSeq(q, k + 1, Len(q))

(* Without its k-th element a sequence is one shorter, and has the others   *)
(* where they were or one place earlier.                                    *)
LEMMA Removed ==
    ASSUME NEW S, NEW q \in Seq(S), NEW k \in 1..Len(q)
    PROVE  /\ Cut(q, k) \in Seq(S) /\ Len(Cut(q, k)) = Len(q) - 1
           /\ \A i \in 1..(k - 1) : Cut(q, k)[i] = q[i]
           /\ \A i \in k..(Len(q) - 1) : Cut(q, k)[i] = q[i + 1]
<1> DEFINE r == Cut(q, k)
           a == SubSeq(q, 1, k - 1)
           b == SubSeq(q, k + 1, Len(q))
<1>1. a \in Seq(S) /\ Len(a) = k - 1 /\ \A i \in 1..(k - 1) : a[i] = q[i]
    OBVIOUS
<1>2. b \in Seq(S) /\ Len(b) = Len(q) - k /\ \A i \in 1..(Len(q) - k) : b[i] = q[k + i]
    OBVIOUS
<1>3. r = a \o b
    BY DEF Cut
<1> HIDE DEF a, b, r
<1>4. /\ r \in Seq(S) /\ Len(r) = Len(a) + Len(b)
      /\ \A i \in 1..(Len(a) + Len(b)) : r[i] = IF i <= Len(a) THEN a[i] ELSE b[i - Len(a)]
    BY <1>1, <1>2, <1>3, ConcatProperties, Zenon
<1>5. ASSUME NEW i \in k..(Len(q) - 1) PROVE r[i] = q[i + 1]
    <2>1. i - Len(a) \in 1..(Len(q) - k) /\ k + (i - Len(a)) = i + 1
        BY <1>1
    <2>2. i \in 1..(Len(a) + Len(b)) /\ ~(i <= Len(a))
        BY <1>1, <1>2
    <2>3. r[i] = b[i - Len(a)]
        BY <1>4, <2>2
    <2>4. QED BY <1>2, <2>1, <2>3
<1>6. ASSUME NEW i \in 1..(k - 1) PROVE r[i] = q[i]
    <2>1. i \in 1..(Len(a) + Len(b)) /\ i <= Len(a)
        BY <1>1, <1>2
    <2>2. r[i] = a[i]
        BY <1>4, <2>1
    <2>3. QED BY <1>1, <2>2
<1>7. Len(r) = Len(q) - 1
    BY <1>1, <1>2, <1>4
<1>8. QED BY <1>4, <1>5, <1>6, <1>7 DEF r

(* Without an element that was in it once, it has the others.               *)
LEMMA RemovedMembers ==
    ASSUME NEW S, NEW q \in Seq(S), Distinct(q), NEW k \in 1..Len(q)
    PROVE  Distinct(Cut(q, k)) /\ Members(Cut(q, k)) = Members(q) \ {q[k]}
<1> DEFINE r == Cut(q, k)
<1>1. /\ r \in Seq(S) /\ Len(r) = Len(q) - 1
      /\ \A i \in 1..(k - 1) : r[i] = q[i]
      /\ \A i \in k..(Len(q) - 1) : r[i] = q[i + 1]
    BY Removed
<1> HIDE DEF r
<1>2. Distinct(r)
    <2> SUFFICES ASSUME NEW i \in 1..Len(r), NEW j \in 1..Len(r), r[i] = r[j] PROVE i = j
        BY DEF Distinct
    <2>1. CASE i < k /\ j < k
        BY SMTT(20), <1>1, <2>1 DEF Distinct
    <2>2. CASE i < k /\ j >= k
        <3>1. q[i] = q[j + 1] /\ i # j + 1
            BY SMTT(20), <1>1, <2>2
        <3>2. QED BY <1>1, <2>2, <3>1 DEF Distinct
    <2>3. CASE i >= k /\ j < k
        <3>1. q[i + 1] = q[j] /\ j # i + 1
            BY <1>1, <2>3
        <3>2. QED BY <1>1, <2>3, <3>1 DEF Distinct
    <2>4. CASE i >= k /\ j >= k
        <3>1. q[i + 1] = q[j + 1]
            BY <1>1, <2>4
        <3>2. QED BY <1>1, <2>4, <3>1 DEF Distinct
    <2>5. QED BY <1>1, <2>1, <2>2, <2>3, <2>4
<1>3. ASSUME NEW i \in 1..Len(r) PROVE r[i] \in Members(q) \ {q[k]}
    <2>1. CASE i < k
        BY <1>1, <2>1 DEF Members, Distinct
    <2>2. CASE i >= k
        <3>1. r[i] = q[i + 1] /\ i + 1 \in 1..Len(q) /\ i + 1 # k
            BY <1>1, <2>2
        <3>2. QED BY <3>1 DEF Members, Distinct
    <2>3. QED BY <1>1, <2>1, <2>2
<1>4. ASSUME NEW i \in 1..Len(q), i # k PROVE q[i] \in Members(r)
    <2>1. CASE i < k
        BY <1>1, <2>1 DEF Members
    <2>2. CASE i > k
        <3>1. r[i - 1] = q[i] /\ i - 1 \in 1..Len(r)
            BY <1>1, <2>2
        <3>2. QED BY <3>1 DEF Members
    <2>3. QED BY <1>4, <2>1, <2>2
<1>5. QED BY <1>2, <1>3, <1>4 DEF Members, r

(* Behind a new element everything stands where it stood.                   *)
LEMMA Appended ==
    ASSUME NEW S, NEW q \in Seq(S), NEW t \in S
    PROVE  /\ Append(q, t) \in Seq(S) /\ Members(Append(q, t)) = Members(q) \cup {t}
           /\ \A i \in 1..Len(q) : i \in 1..Len(Append(q, t)) /\ Append(q, t)[i] = q[i]
           /\ Distinct(q) /\ t \notin Members(q) => Distinct(Append(q, t))
<1> DEFINE r == Append(q, t)
<1>1. /\ r \in Seq(S) /\ Len(r) = Len(q) + 1 /\ r[Len(q) + 1] = t
      /\ \A i \in 1..Len(q) : r[i] = q[i]
    OBVIOUS
<1> HIDE DEF r
<1>2. Members(r) = Members(q) \cup {t}
    <2>1. ASSUME NEW i \in 1..Len(r) PROVE r[i] \in Members(q) \cup {t}
        BY <1>1 DEF Members
    <2>2. ASSUME NEW i \in 1..Len(q) PROVE q[i] \in Members(r)
        BY <1>1 DEF Members
    <2>3. t \in Members(r)
        BY <1>1 DEF Members
    <2>4. QED BY <2>1, <2>2, <2>3 DEF Members
<1>3. Distinct(q) /\ t \notin Members(q) => Distinct(r)
    BY <1>1 DEF Distinct, Members
<1>4. QED BY <1>1, <1>2, <1>3 DEF r

(* It is as long as it has members.                                         *)
LEMMA DistinctCount ==
    ASSUME NEW S, NEW q \in Seq(S), Distinct(q)
    PROVE  Cardinality(Members(q)) = Len(q)
<1> DEFINE n == Len(q)
           f == [i \in 1..n |-> q[i]]
<1>1. f \in Bijection(1..n, Members(q))
    BY DEF Bijection, Injection, Surjection, IsInjective, Members, Distinct
<1>2. ExistsBijection(1..n, Members(q)) /\ n \in Nat
    BY <1>1 DEF ExistsBijection
<1>3. QED BY <1>2, FS_CountingElements

(* A recovery at work holds the lease, and nobody else does.  It replaces   *)
(* the page that crashed or a replacement that crashed, and one that waits  *)
(* or has not begun concerns its own page, which no recovery opened.        *)
Running == {"opening", "loading", "closing"}
WorkInv ==
    /\ \A r \in Pages : rec[r] \in Running <=> lease = r
    /\ \A r \in Pages : rec[r] \in {"none", "waiting"} => cur[r] = r /\ new[r] = None
    /\ \A r \in Pages : rec[r] = "opening" => new[r] = None
    /\ \A r \in Pages : rec[r] \in {"loading", "closing"} => new[r] # None /\ fresh[new[r]] # "no"
    /\ \A r \in Pages : rec[r] # "none" => fresh[r] = "no" /\ r \in told
    /\ \A r \in Pages : cur[r] = r \/ fresh[cur[r]] = "crashed"

(* The list names each page once, and no page before it was opened; a       *)
(* replacement becomes the active page when it takes the slot, not before.  *)
ListInv ==
    /\ Distinct(pages) /\ Listed \subseteq 1..used
    /\ \A r \in Pages : rec[r] = "loading" => active # new[r]
    /\ \A r \in Pages : rec[r] = "closing" => cur[r] \notin Listed

(* A recovery that loads its replacement, or was cut off while it had one.  *)
Owns(r) ==
    rec[r] \in {"loading", "closing"} \/ (rec[r] = "over" /\ outcome[r] \in {"failed", "dropped"})

(* The crash of a replacement is claimed, and a listed replacement that has *)
(* not crashed is its recovery's.                                           *)
FreshInv ==
    /\ \A p \in Pages : fresh[p] = "loading" => p \notin told
    /\ \A p \in Pages : fresh[p] = "crashed" => p \in told
    /\ \A p \in Pages : p > used => fresh[p] = "no"
    /\ \A p \in Listed : fresh[p] = "loading" => \E r \in Pages : Owns(r) /\ new[r] = p

(* The attempts spent and those that wait to be.                            *)
Waiting == {r \in Pages : rec[r] = "waiting"}
BudgetInv == count + Cardinality(Waiting) <= RecoveryMax + MaxPages

(* A listed page whose crash was reported is being recovered, or was given  *)
(* up.                                                                      *)
DeadPageInv ==
    \A p \in told \cap Listed :
        \E r \in Pages :
            /\ p \in {cur[r], new[r]}
            /\ Busy(r) \/ outcome[r] \in {"failed", "exhausted", "dropped"}

RecoveryInv ==
    RecoveryTypeOK /\ WorkInv /\ ListInv /\ FreshInv /\ BudgetInv /\ DeadPageInv

(* Nothing is left unsaid while the session takes calls.                    *)
DropInv == \A r \in Pages : outcome[r] = "dropped" => closing # "no"

(* Pages are the numbers from 1 to the bound, and None is no page.          *)
LEMMA Numbers ==
    /\ MaxPages \in Nat \ {0} /\ RecoveryMax \in Nat
    /\ None \notin Pages /\ \A p \in Pages : p \in Nat \ {0} /\ p <= MaxPages
    /\ \A n : n \in Pages <=> n \in Nat /\ 1 <= n /\ n <= MaxPages
BY RecoveryAssumption DEF Pages, None

(* A page taken off the list leaves the others on it, in their order.       *)
LEMMA WithoutFacts ==
    ASSUME pages \in Seq(Pages), Distinct(pages), NEW p
    PROVE  /\ Without(p) \in Seq(Pages) /\ Distinct(Without(p))
           /\ Len(pages) - 1 <= Len(Without(p))
           /\ Members(Without(p)) = Listed \ {p}
           /\ \A i \in 1..Len(pages) : (\A j \in 1..i : pages[j] # p) =>
                  i \in 1..Len(Without(p)) /\ Without(p)[i] = pages[i]
<1>1. CASE p \in Listed
    <2> DEFINE k == Place(p)
    <2>1. k \in 1..Len(pages) /\ pages[k] = p
        BY <1>1 DEF Listed, Place
    <2>2. Without(p) = Cut(pages, k)
        BY <1>1 DEF Without, RemoveAt, Cut
    <2> HIDE DEF k
    <2>3. ASSUME NEW i \in 1..Len(pages), \A j \in 1..i : pages[j] # p
          PROVE  i \in 1..(Len(pages) - 1) /\ i \in 1..(k - 1)
        <3>1. ~(k <= i)
            BY <2>1, <2>3
        <3>2. QED BY <2>1, <3>1
    <2>4. /\ Cut(pages, k) \in Seq(Pages) /\ Len(Cut(pages, k)) = Len(pages) - 1
          /\ \A i \in 1..(k - 1) : Cut(pages, k)[i] = pages[i]
        BY <2>1, Removed
    <2>5. Distinct(Cut(pages, k)) /\ Members(Cut(pages, k)) = Members(pages) \ {p}
        BY <2>1, RemovedMembers
    <2>6. Members(pages) = Listed
        BY DEF Listed, Members
    <2> DEFINE s == Cut(pages, k)
    <2> HIDE DEF s
    <2>7. Without(p) = s /\ s \in Seq(Pages) /\ Len(s) = Len(pages) - 1 /\ Distinct(s)
          /\ Members(s) = Listed \ {p} /\ \A i \in 1..(k - 1) : s[i] = pages[i]
        BY <2>2, <2>4, <2>5, <2>6 DEF s
    <2>8. ASSUME NEW i \in 1..Len(pages), \A j \in 1..i : pages[j] # p
          PROVE  i \in 1..Len(s) /\ s[i] = pages[i]
        BY <2>3, <2>7, <2>8
    <2>9. QED BY <2>7, <2>8
<1>2. CASE p \notin Listed
    <2>1. Without(p) = pages /\ Members(pages) = Listed
        BY <1>2 DEF Without, Listed, Members
    <2>2. QED BY <1>2, <2>1
<1>3. QED BY <1>1, <1>2

(* A page in another's slot.                                                *)
LEMMA SlotFacts ==
    ASSUME pages \in Seq(Pages), Distinct(pages), NEW dead \in Pages, NEW page \in Pages,
           dead # page
    PROVE  /\ Slot(dead, page) \in Seq(Pages) /\ Distinct(Slot(dead, page))
           /\ Members(Slot(dead, page)) = (Listed \ {dead}) \cup {page}
           /\ \A i \in 1..Len(pages) :
                  pages[i] # dead /\ (\A j \in 1..i : pages[j] # page) =>
                  i \in 1..Len(Slot(dead, page)) /\ Slot(dead, page)[i] = pages[i]
<1> DEFINE others == Without(page)
<1>1. /\ others \in Seq(Pages) /\ Distinct(others) /\ Members(others) = Listed \ {page}
      /\ \A i \in 1..Len(pages) : (\A j \in 1..i : pages[j] # page) =>
             i \in 1..Len(others) /\ others[i] = pages[i]
    BY WithoutFacts
<1> HIDE DEF others
<1>2. CASE dead \in Listed
    <2> DEFINE s == [i \in 1..Len(others) |-> IF others[i] = dead THEN page ELSE others[i]]
    <2>1. Slot(dead, page) = s
        BY <1>2 DEF Slot, others
    <2>2. \A i \in 1..Len(others) : others[i] \in Pages /\ others[i] # page
        <3>1. TAKE i \in 1..Len(others)
        <3>2. others[i] \in Members(others)
            BY DEF Members
        <3>3. others[i] \in Pages
            BY <1>1
        <3>4. QED BY <1>1, <3>2, <3>3
    <2>3. /\ s \in Seq(Pages) /\ Len(s) = Len(others)
          /\ \A i \in 1..Len(s) : s[i] = IF others[i] = dead THEN page ELSE others[i]
        BY <1>1, <2>2
    <2> HIDE DEF s
    <2>4. Distinct(s)
        BY <1>1, <2>2, <2>3 DEF Distinct
    <2>5. PICK k \in 1..Len(others) : others[k] = dead
        BY <1>1, <1>2 DEF Members
    <2>6. Members(s) = (Listed \ {dead}) \cup {page}
        <3>1. ASSUME NEW i \in 1..Len(s) PROVE s[i] \in (Listed \ {dead}) \cup {page}
            BY <1>1, <2>3 DEF Members
        <3>2. ASSUME NEW x \in Listed \ {dead, page} PROVE x \in Members(s)
            <4>1. PICK i \in 1..Len(others) : others[i] = x
                BY <1>1 DEF Members
            <4>2. s[i] = x /\ i \in 1..Len(s)
                BY <2>3, <4>1
            <4>3. QED BY <4>2 DEF Members
        <3>3. page \in Members(s)
            <4>1. s[k] = page /\ k \in 1..Len(s)
                BY <2>3, <2>5
            <4>2. QED BY <4>1 DEF Members
        <3>4. QED BY <3>1, <3>2, <3>3 DEF Members
    <2>7. ASSUME NEW i \in 1..Len(pages), pages[i] # dead, \A j \in 1..i : pages[j] # page
          PROVE  i \in 1..Len(s) /\ s[i] = pages[i]
        BY <1>1, <2>3, <2>7
    <2>8. QED BY <2>1, <2>3, <2>4, <2>6, <2>7
<1>3. CASE dead \notin Listed
    <2>1. Slot(dead, page) = Append(others, page)
        BY <1>3 DEF Slot, others
    <2>2. /\ Append(others, page) \in Seq(Pages)
          /\ Members(Append(others, page)) = Members(others) \cup {page}
          /\ \A i \in 1..Len(others) : i \in 1..Len(Append(others, page))
                                       /\ Append(others, page)[i] = others[i]
          /\ Distinct(Append(others, page))
        BY <1>1, Appended
    <2>3. QED BY <1>1, <1>3, <2>1, <2>2
<1>4. QED BY <1>2, <1>3

(* There are as many pages as the bound says.                               *)
LEMMA Counts ==
    ASSUME NEW V \in SUBSET Pages, NEW W \in SUBSET V
    PROVE  /\ IsFiniteSet(V) /\ Cardinality(V) \in Nat /\ Cardinality(V) <= MaxPages
           /\ Cardinality(W) \in Nat /\ Cardinality(W) <= Cardinality(V)
           /\ \A r \in V : Cardinality(V \ {r}) = Cardinality(V) - 1
<1>1. IsFiniteSet(Pages) /\ Cardinality(Pages) = MaxPages
    BY Numbers, FS_Interval DEF Pages
<1>2. IsFiniteSet(V) /\ Cardinality(V) <= MaxPages
    BY <1>1, FS_Subset
<1>3. IsFiniteSet(W) /\ Cardinality(W) <= Cardinality(V)
    BY <1>2, FS_Subset
<1>4. QED BY <1>2, <1>3, FS_CardinalityType, FS_RemoveElement

(* The arithmetic of the budget: a count within the limit with whatever     *)
(* waits, or what was within the budget before and has not grown.           *)
LEMMA Sums ==
    ASSUME NEW c \in Nat, NEW d \in Nat, NEW m \in Nat, NEW n \in Nat, NEW R \in Nat, NEW M \in Nat,
           (c <= R /\ m <= M) \/ (c <= d /\ m <= n /\ d + n <= R + M)
    PROVE  c + m <= R + M /\ c \in 0..(R + M)
OBVIOUS

(* The budget: what waits costs an attempt when it is admitted.             *)
LEMMA BudgetKept ==
    ASSUME RecoveryTypeOK, BudgetInv, count' \in Nat,
           \/ count' <= RecoveryMax
           \/ count' <= count /\ Waiting' \subseteq Waiting
    PROVE  BudgetInv' /\ count' \in 0..(RecoveryMax + MaxPages)
<1> DEFINE n == Cardinality(Waiting)
           m == Cardinality(Waiting')
<1>1. Waiting \in SUBSET Pages /\ Waiting' \in SUBSET Pages
    BY DEF Waiting
<1>2. n \in Nat /\ m \in Nat /\ m <= MaxPages
    BY <1>1, Counts
<1>3. Waiting' \subseteq Waiting => m <= n
    BY <1>1, Counts
<1>4. count \in Nat /\ count + n <= RecoveryMax + MaxPages
    BY DEF RecoveryTypeOK, BudgetInv
<1> HIDE DEF n, m
<1>5. count' + m <= RecoveryMax + MaxPages /\ count' \in 0..(RecoveryMax + MaxPages)
    BY <1>2, <1>3, <1>4, RecoveryAssumption, Sums
<1>6. QED BY <1>5 DEF BudgetInv, m

(* The list as it is, and as it becomes.                                    *)
LEMMA ListWords ==
    /\ Listed = Members(pages) /\ Listed' = Members(pages')
    /\ pages' \in Seq(Pages) /\ Distinct(pages') => Cardinality(Listed') = Len(pages')
    /\ pages \in Seq(Pages) => Listed \subseteq Pages
<1>1. Listed = Members(pages) /\ Listed' = Members(pages')
    BY DEF Listed, Members
<1>2. ASSUME pages \in Seq(Pages), NEW i \in 1..Len(pages) PROVE pages[i] \in Pages
    BY <1>2
<1>3. QED BY <1>1, <1>2, DistinctCount DEF Listed

(* The page that is opened next is nobody's yet.                            *)
LEMMA Opened ==
    ASSUME RecoveryInv, used < MaxPages
    PROVE  /\ used \in Nat /\ used + 1 \in Pages /\ used <= used + 1
           /\ used + 1 \notin Listed /\ Listed \cup {used + 1} \subseteq 1..(used + 1)
           /\ 1..used \subseteq 1..(used + 1) /\ used + 1 \notin 1..used
           /\ used + 1 \notin told /\ used + 1 \notin open /\ used + 1 \notin broken
           /\ \A p \in Pages : p > used + 1 => p > used
           /\ fresh[used + 1] = "no" /\ rec[used + 1] = "none"
           /\ \A r \in Pages : rec[r] # "none" => r # used + 1 /\ cur[r] # used + 1
<1>1. used \in Nat /\ used + 1 \in Pages /\ used <= used + 1
    <2>1. used \in 1..MaxPages
        BY DEF RecoveryInv, RecoveryTypeOK, Pages
    <2>2. QED BY <2>1, RecoveryAssumption DEF Pages
<1>2. /\ 1..used \subseteq 1..(used + 1) /\ used + 1 \in 1..(used + 1) /\ used + 1 \notin 1..used
      /\ used + 1 > used
    BY <1>1
<1>3. /\ used + 1 \notin told /\ used + 1 \notin open /\ used + 1 \notin broken
      /\ used + 1 \notin Listed
    BY <1>2 DEF RecoveryInv, RecoveryTypeOK, ListInv
<1>4. fresh[used + 1] = "no" /\ rec[used + 1] = "none"
    BY <1>1, <1>2, <1>3 DEF RecoveryInv, WorkInv, FreshInv
<1>5. \A r \in Pages : rec[r] # "none" => r # used + 1 /\ cur[r] # used + 1
    BY <1>4 DEF RecoveryInv, WorkInv
<1>6. \A p \in Pages : p > used + 1 => p > used
    BY <1>1, Numbers
<1>7. QED BY <1>1, <1>2, <1>3, <1>4, <1>5, <1>6 DEF RecoveryInv, ListInv

(* Nobody else is at work on a page than who holds the lease.               *)
LEMMA AtWork ==
    ASSUME RecoveryInv, NEW r \in Pages, rec[r] \in Running
    PROVE  /\ lease = r /\ \A s \in Pages : s # r => rec[s] \notin Running
           /\ cur[r] \in Pages /\ new[r] \in Pages \cup {None}
           /\ rec[r] \in {"loading", "closing"} => new[r] \in Pages /\ fresh[new[r]] # "no"
<1>1. lease = r /\ \A s \in Pages : s # r => rec[s] \notin Running
    BY DEF RecoveryInv, WorkInv
<1>2. QED BY <1>1 DEF RecoveryInv, RecoveryTypeOK, WorkInv, FreshInv, Running

(* Replacements keep their recoveries when nothing but those changes.       *)
LEMMA FreshStays ==
    ASSUME RecoveryInv, fresh' = fresh, told' = told, used' = used, new' = new,
           Listed' = Listed, \A s \in Pages : Owns(s) => Owns(s)'
    PROVE  FreshInv'
BY DEF RecoveryInv, FreshInv

(* A renderer dies: nobody has been told of it yet.                         *)
LEMMA RendererDiesKeeps ==
    ASSUME RecoveryInv, NEW p \in Pages, RendererDies(p)
    PROVE  RecoveryInv'
<1>1. pages' \in Seq(Pages) /\ Distinct(pages') /\ Listed' = Listed
    BY ListWords DEF RecoveryInv, RecoveryTypeOK, ListInv, RendererDies, tabs
<1>2. active' \in Listed' /\ used' \in Pages /\ used <= used' /\ Listed' \subseteq 1..used'
    BY <1>1, Numbers DEF RecoveryInv, RecoveryTypeOK, ListInv, RendererDies, tabs
<1>3. BudgetInv' /\ count' \in 0..(RecoveryMax + MaxPages)
    <2>1. /\ count' \in Nat
          /\ \/ count' <= RecoveryMax
             \/ count' <= count /\ Waiting' \subseteq Waiting
        BY Numbers DEF RecoveryInv, RecoveryTypeOK, Waiting, RendererDies, work, budget
    <2>2. QED BY <2>1, BudgetKept DEF RecoveryInv
<1>4. RecoveryTypeOK'
    BY <1>1, <1>2, <1>3, Numbers, ListWords DEF RecoveryInv, RecoveryTypeOK, RendererDies, tabs,
        work, budget
<1>5. WorkInv'
    BY <1>1, Numbers DEF RecoveryInv, WorkInv, RendererDies, work
<1>6. ListInv'
    BY <1>1, <1>2, Numbers DEF RecoveryInv, ListInv, RendererDies, tabs, work
<1>7. FreshInv'
    BY <1>1, <1>2, Numbers DEF RecoveryInv, RecoveryTypeOK, FreshInv, Owns, RendererDies, work
<1>8. DeadPageInv'
    BY <1>1, Numbers DEF RecoveryInv, DeadPageInv, Busy, RendererDies, work
<1>9. QED BY <1>3, <1>4, <1>5, <1>6, <1>7, <1>8 DEF RecoveryInv

(* Enough time without a crash passes; only the budget is counted afresh.   *)
LEMMA QuietPassesKeeps ==
    ASSUME RecoveryInv, QuietPasses
    PROVE  RecoveryInv'
<1>1. pages' \in Seq(Pages) /\ Distinct(pages') /\ Listed' = Listed
    BY ListWords DEF RecoveryInv, RecoveryTypeOK, ListInv, QuietPasses, tabs
<1>2. active' \in Listed' /\ used' \in Pages /\ used <= used' /\ Listed' \subseteq 1..used'
    BY <1>1, Numbers DEF RecoveryInv, RecoveryTypeOK, ListInv, QuietPasses, tabs
<1>3. BudgetInv' /\ count' \in 0..(RecoveryMax + MaxPages)
    <2>1. /\ count' \in Nat
          /\ \/ count' <= RecoveryMax
             \/ count' <= count /\ Waiting' \subseteq Waiting
        BY Numbers DEF RecoveryInv, RecoveryTypeOK, Waiting, QuietPasses, work
    <2>2. QED BY <2>1, BudgetKept DEF RecoveryInv
<1>4. RecoveryTypeOK'
    BY <1>1, <1>2, <1>3, Numbers, ListWords DEF RecoveryInv, RecoveryTypeOK, QuietPasses, tabs,
        crashes, work
<1>5. WorkInv'
    BY <1>1, Numbers DEF RecoveryInv, WorkInv, QuietPasses, crashes, work
<1>6. ListInv'
    BY <1>1, <1>2, Numbers DEF RecoveryInv, ListInv, QuietPasses, tabs, work
<1>7. FreshInv'
    BY SMTT(20), <1>1, <1>2, Numbers DEF RecoveryInv, RecoveryTypeOK, FreshInv, Owns, QuietPasses, crashes, work
<1>8. DeadPageInv'
    BY <1>1, Numbers DEF RecoveryInv, DeadPageInv, Busy, QuietPasses, crashes, work
<1>9. QED BY <1>3, <1>4, <1>5, <1>6, <1>7, <1>8 DEF RecoveryInv

(* A crash is reported, for the first time: that of a replacement is left   *)
(* to the recovery that opened it; any other page gets its recovery, which  *)
(* waits for the lease or ends at once because the budget is spent or the   *)
(* session closes.                                                          *)
LEMMA CrashReportedKeeps ==
    ASSUME RecoveryInv, NEW p \in Pages, CrashReported(p)
    PROVE  RecoveryInv'
<1>1. pages' \in Seq(Pages) /\ Distinct(pages') /\ Listed' = Listed
    BY ListWords DEF RecoveryInv, RecoveryTypeOK, ListInv, CrashReported, tabs
<1>2. active' \in Listed' /\ used' \in Pages /\ used <= used' /\ Listed' \subseteq 1..used'
    BY <1>1, Numbers DEF RecoveryInv, RecoveryTypeOK, ListInv, CrashReported, tabs
<1>3. BudgetInv' /\ count' \in 0..(RecoveryMax + MaxPages)
    <2>1. /\ count' \in Nat
          /\ \/ count' <= RecoveryMax
             \/ count' <= count /\ Waiting' \subseteq Waiting
        BY Numbers DEF RecoveryInv, RecoveryTypeOK, Waiting, CrashReported, Schedule, Spent, Ends,
            work, budget
    <2>2. QED BY <2>1, BudgetKept DEF RecoveryInv
<1>4. RecoveryTypeOK'
    <2>1. open' \cup broken' \subseteq 1..used' /\ told' \subseteq broken'
        BY <1>2, Numbers DEF RecoveryInv, RecoveryTypeOK, CrashReported, tabs
    <2>2. fresh' \in [Pages -> {"no", "loading", "crashed"}]
        BY DEF RecoveryInv, RecoveryTypeOK, CrashReported, Schedule
    <2>3. rec' \in [Pages -> {"none", "waiting", "opening", "loading", "closing", "over"}]
        BY DEF RecoveryInv, RecoveryTypeOK, CrashReported, Schedule, Ends, work
    <2>4. outcome' \in [Pages -> {"none", "recovered", "failed", "exhausted", "dropped"}]
        BY DEF RecoveryInv, RecoveryTypeOK, CrashReported, Schedule, Ends, work
    <2>5. cur' \in [Pages -> Pages] /\ new' \in [Pages -> Pages \cup {None}]
        BY Numbers DEF RecoveryInv, RecoveryTypeOK, CrashReported, Schedule, work
    <2>6. lease' \in Pages \cup {None} /\ closing' \in {"no", "asked", "broken", "gone"}
        BY DEF RecoveryInv, RecoveryTypeOK, CrashReported, Schedule, Ends, work
    <2>7. recent' \in BOOLEAN /\ crashed' \in BOOLEAN
        BY Zenon DEF RecoveryInv, RecoveryTypeOK, CrashReported, Schedule, budget
    <2>8. QED BY <1>1, <1>2, <1>3, <2>1, <2>2, <2>3, <2>4, <2>5, <2>6, <2>7, ListWords DEF
            RecoveryTypeOK
<1>5. WorkInv'
    <2>1. \A s \in Pages : rec'[s] \in Running <=> lease' = s
        BY Numbers DEF RecoveryInv, RecoveryTypeOK, WorkInv, CrashReported, Schedule, Ends, work,
            Running
    <2>2. \A s \in Pages : rec'[s] \in {"none", "waiting"} => cur'[s] = s /\ new'[s] = None
        BY DEF RecoveryInv, RecoveryTypeOK, WorkInv, CrashReported, Schedule, Ends, work
    <2>3. \A s \in Pages : rec'[s] = "opening" => new'[s] = None
        BY DEF RecoveryInv, RecoveryTypeOK, WorkInv, CrashReported, Schedule, Ends, work
    <2>4. \A s \in Pages : rec'[s] \in {"loading", "closing"} => new'[s] # None /\ fresh'[new'[s]] # "no"
        BY Numbers DEF RecoveryInv, RecoveryTypeOK, WorkInv, CrashReported, Schedule, Ends, work
    <2>5. \A s \in Pages : rec'[s] # "none" => fresh'[s] = "no" /\ s \in told'
        BY Numbers DEF RecoveryInv, RecoveryTypeOK, WorkInv, CrashReported, Schedule, Ends, work
    <2>6. \A s \in Pages : cur'[s] = s \/ fresh'[cur'[s]] = "crashed"
        BY Numbers DEF RecoveryInv, RecoveryTypeOK, WorkInv, CrashReported, Schedule, work
    <2>7. QED BY <2>1, <2>2, <2>3, <2>4, <2>5, <2>6 DEF WorkInv
<1>6. ListInv'
    <2>1. \A s \in Pages : rec'[s] = "loading" => active' # new'[s]
        BY <1>1, <1>2, Numbers DEF RecoveryInv, RecoveryTypeOK, ListInv, CrashReported, Schedule,
            Ends, tabs, work
    <2>2. \A s \in Pages : rec'[s] = "closing" => cur'[s] \notin Listed'
        BY <1>1, Numbers DEF RecoveryInv, RecoveryTypeOK, ListInv, CrashReported, Schedule, Ends,
            work
    <2>3. QED BY <1>1, <1>2, <2>1, <2>2 DEF ListInv
<1>7. FreshInv'
    <2>1. \A p1 \in Pages : fresh'[p1] = "loading" => p1 \notin told'
        BY Numbers DEF RecoveryInv, RecoveryTypeOK, FreshInv, CrashReported, Schedule
    <2>2. \A p1 \in Pages : fresh'[p1] = "crashed" => p1 \in told'
        BY Numbers DEF RecoveryInv, RecoveryTypeOK, FreshInv, CrashReported, Schedule
    <2>3. \A p1 \in Pages : p1 > used' => fresh'[p1] = "no"
        BY <1>2, Numbers DEF RecoveryInv, RecoveryTypeOK, FreshInv, CrashReported, Schedule, tabs
    <2>4. \A p1 \in Listed' : fresh'[p1] = "loading" =>
              \E s \in Pages : Owns(s)' /\ new'[s] = p1
        <3>1. SUFFICES ASSUME NEW p1 \in Listed, fresh[p1] = "loading"
                       PROVE  \E s \in Pages : Owns(s)' /\ new'[s] = p1
            BY <1>1, ListWords DEF CrashReported, Schedule, RecoveryInv, RecoveryTypeOK
        <3>2. PICK s \in Pages : Owns(s) /\ new[s] = p1
            BY <3>1 DEF RecoveryInv, FreshInv
        <3>3. s # p
            BY <3>2 DEF CrashReported, RecoveryInv, WorkInv, Owns
        <3>4. rec'[s] = rec[s] /\ outcome'[s] = outcome[s] /\ new'[s] = new[s]
            BY <3>3 DEF CrashReported, Schedule, Ends, work, RecoveryInv, RecoveryTypeOK
        <3>5. QED BY <3>2, <3>4 DEF Owns
    <2>5. QED BY <2>1, <2>2, <2>3, <2>4 DEF FreshInv
<1>8. DeadPageInv'
    <2>1. SUFFICES ASSUME NEW p1 \in told' \cap Listed'
                   PROVE  \E t \in Pages :
                              /\ p1 \in {cur'[t], new'[t]}
                              /\ Busy(t)' \/ outcome'[t] \in {"failed", "exhausted", "dropped"}
        BY DEF DeadPageInv
    <2>2. CASE p1 = p /\ fresh[p] = "no"
        <3>1. rec[p] = "none" /\ cur[p] = p
            BY DEF CrashReported, RecoveryInv, WorkInv
        <3>2. cur'[p] = p /\ (rec'[p] = "waiting" \/ outcome'[p] \in {"exhausted", "dropped"})
            BY <2>2, <3>1 DEF CrashReported, Schedule, Ends, RecoveryInv, RecoveryTypeOK
        <3>3. QED BY <2>2, <3>2 DEF Busy
    <2>3. CASE p1 = p /\ fresh[p] # "no"
        <3>1. fresh[p] = "loading" /\ p \in Listed
            BY <1>1, <2>3 DEF CrashReported, RecoveryInv, RecoveryTypeOK, FreshInv
        <3>2. PICK s \in Pages : Owns(s) /\ new[s] = p
            BY <3>1 DEF RecoveryInv, FreshInv
        <3>3. rec'[s] = rec[s] /\ outcome'[s] = outcome[s] /\ new'[s] = new[s]
            BY <2>3 DEF CrashReported, work
        <3>4. QED BY <2>3, <3>2, <3>3 DEF Busy, Owns
    <2>4. CASE p1 # p
        <3>1. PICK s \in Pages :
                  /\ p1 \in {cur[s], new[s]}
                  /\ Busy(s) \/ outcome[s] \in {"failed", "exhausted", "dropped"}
            BY <1>1, <2>4 DEF CrashReported, RecoveryInv, DeadPageInv
        <3>2. cur' = cur /\ new' = new
            BY DEF CrashReported, Schedule, work
        <3>3. \/ rec'[s] = rec[s] /\ outcome'[s] = outcome[s]
              \/ rec'[s] = "waiting" \/ outcome'[s] \in {"exhausted", "dropped"}
            BY DEF CrashReported, Schedule, Ends, work, RecoveryInv, RecoveryTypeOK
        <3>4. QED BY <3>1, <3>2, <3>3 DEF Busy
    <2>5. QED BY <2>2, <2>3, <2>4
<1>9. QED BY <1>3, <1>4, <1>5, <1>6, <1>7, <1>8 DEF RecoveryInv

(* A new tab is the next page, which is nobody's yet, at the end of the     *)
(* list.                                                                    *)
LEMMA TabOpensKeeps ==
    ASSUME RecoveryInv, TabOpens
    PROVE  RecoveryInv'
<1>1. pages' \in Seq(Pages) /\ Distinct(pages') /\ Listed' = Listed \cup {used + 1}
    <2>1. used + 1 \in Pages /\ used + 1 \notin Listed
        BY Opened DEF TabOpens
    <2>2. pages \in Seq(Pages) /\ Distinct(pages) /\ pages' = Append(pages, used + 1)
        BY DEF TabOpens, RecoveryInv, RecoveryTypeOK, ListInv
    <2>3. QED BY <2>1, <2>2, Appended, ListWords
<1>2. active' \in Listed' /\ used' \in Pages /\ used <= used' /\ Listed' \subseteq 1..used'
    <2>1. used' = used + 1 /\ active' = active /\ used < MaxPages
        BY DEF TabOpens
    <2>2. QED BY <1>1, <2>1, Opened DEF RecoveryInv, RecoveryTypeOK
<1>3. BudgetInv' /\ count' \in 0..(RecoveryMax + MaxPages)
    <2>1. /\ count' \in Nat
          /\ \/ count' <= RecoveryMax
             \/ count' <= count /\ Waiting' \subseteq Waiting
        BY Numbers DEF RecoveryInv, RecoveryTypeOK, Waiting, TabOpens, work, budget
    <2>2. QED BY <2>1, BudgetKept DEF RecoveryInv
<1>4. RecoveryTypeOK'
    <2>1. open' \cup broken' \subseteq 1..used' /\ told' \subseteq broken'
        <3>1. open \cup broken \subseteq 1..used /\ told \subseteq broken
            BY DEF RecoveryInv, RecoveryTypeOK
        <3>2. /\ used < MaxPages /\ used' = used + 1 /\ open' = open \cup {used + 1}
              /\ broken' = broken /\ told' = told
            BY DEF TabOpens, crashes
        <3>3. QED BY <3>1, <3>2, Opened
    <2>2. fresh' \in [Pages -> {"no", "loading", "crashed"}]
        BY DEF RecoveryInv, RecoveryTypeOK, TabOpens, crashes
    <2>3. rec' \in [Pages -> {"none", "waiting", "opening", "loading", "closing", "over"}]
        BY DEF RecoveryInv, RecoveryTypeOK, TabOpens, work
    <2>4. outcome' \in [Pages -> {"none", "recovered", "failed", "exhausted", "dropped"}]
        BY DEF RecoveryInv, RecoveryTypeOK, TabOpens, work
    <2>5. cur' \in [Pages -> Pages] /\ new' \in [Pages -> Pages \cup {None}]
        BY Numbers DEF RecoveryInv, RecoveryTypeOK, TabOpens, work
    <2>6. lease' \in Pages \cup {None} /\ closing' \in {"no", "asked", "broken", "gone"}
        BY DEF RecoveryInv, RecoveryTypeOK, TabOpens, work
    <2>7. recent' \in BOOLEAN /\ crashed' \in BOOLEAN
        BY Zenon DEF RecoveryInv, RecoveryTypeOK, TabOpens, budget
    <2>8. QED BY <1>1, <1>2, <1>3, <2>1, <2>2, <2>3, <2>4, <2>5, <2>6, <2>7, ListWords DEF
            RecoveryTypeOK
<1>5. WorkInv'
    <2>1. \A s \in Pages : rec'[s] \in Running <=> lease' = s
        BY Numbers DEF RecoveryInv, WorkInv, TabOpens, work
    <2>2. \A s \in Pages : rec'[s] \in {"none", "waiting"} => cur'[s] = s /\ new'[s] = None
        BY DEF RecoveryInv, WorkInv, TabOpens, work
    <2>3. \A s \in Pages : rec'[s] = "opening" => new'[s] = None
        BY DEF RecoveryInv, WorkInv, TabOpens, work
    <2>4. \A s \in Pages : rec'[s] \in {"loading", "closing"} => new'[s] # None /\ fresh'[new'[s]] # "no"
        BY Numbers DEF RecoveryInv, WorkInv, TabOpens, crashes, work
    <2>5. \A s \in Pages : rec'[s] # "none" => fresh'[s] = "no" /\ s \in told'
        BY Numbers DEF RecoveryInv, WorkInv, TabOpens, crashes, work
    <2>6. \A s \in Pages : cur'[s] = s \/ fresh'[cur'[s]] = "crashed"
        BY Numbers DEF RecoveryInv, WorkInv, TabOpens, crashes, work
    <2>7. QED BY <2>1, <2>2, <2>3, <2>4, <2>5, <2>6 DEF WorkInv
<1>6. ListInv'
    <2>1. \A s \in Pages : rec'[s] = "loading" => active' # new'[s]
        BY <1>1, <1>2, Numbers DEF RecoveryInv, ListInv, TabOpens, work
    <2>2. \A s \in Pages : rec'[s] = "closing" => cur'[s] \notin Listed'
        <3>1. /\ \A s \in Pages : rec[s] # "none" => s # used + 1 /\ cur[s] # used + 1
              /\ cur' = cur /\ rec' = rec
            BY Opened DEF TabOpens, work
        <3>2. QED BY <1>1, <3>1 DEF RecoveryInv, ListInv
    <2>3. QED BY <1>1, <1>2, <2>1, <2>2 DEF ListInv
<1>7. FreshInv'
    <2>1. \A p1 \in Pages : fresh'[p1] = "loading" => p1 \notin told'
        BY Numbers DEF RecoveryInv, FreshInv, TabOpens, crashes
    <2>2. \A p1 \in Pages : fresh'[p1] = "crashed" => p1 \in told'
        BY Numbers DEF RecoveryInv, FreshInv, TabOpens, crashes
    <2>3. \A p1 \in Pages : p1 > used' => fresh'[p1] = "no"
        BY <1>2, Numbers DEF RecoveryInv, RecoveryTypeOK, FreshInv, TabOpens, crashes
    <2>4. \A p1 \in Listed' : fresh'[p1] = "loading" =>
              \E s \in Pages : Owns(s)' /\ new'[s] = p1
        BY <1>1, Numbers DEF RecoveryInv, RecoveryTypeOK, FreshInv, Owns, TabOpens, crashes, work,
            budget
    <2>5. QED BY <2>1, <2>2, <2>3, <2>4 DEF FreshInv
<1>8. DeadPageInv'
    BY <1>1, Numbers DEF RecoveryInv, RecoveryTypeOK, DeadPageInv, Busy, TabOpens, crashes,
        work
<1>9. QED BY <1>3, <1>4, <1>5, <1>6, <1>7, <1>8 DEF RecoveryInv

(* A tab that closes stays on the list.                                     *)
LEMMA TabClosesKeeps ==
    ASSUME RecoveryInv, NEW p \in Pages, TabCloses(p)
    PROVE  RecoveryInv'
<1>1. pages' \in Seq(Pages) /\ Distinct(pages') /\ Listed' = Listed
    BY ListWords DEF RecoveryInv, RecoveryTypeOK, ListInv, TabCloses
<1>2. active' \in Listed' /\ used' \in Pages /\ used <= used' /\ Listed' \subseteq 1..used'
    BY <1>1, Numbers DEF RecoveryInv, RecoveryTypeOK, ListInv, TabCloses
<1>3. BudgetInv' /\ count' \in 0..(RecoveryMax + MaxPages)
    <2>1. /\ count' \in Nat
          /\ \/ count' <= RecoveryMax
             \/ count' <= count /\ Waiting' \subseteq Waiting
        BY Numbers DEF RecoveryInv, RecoveryTypeOK, Waiting, TabCloses, work, budget
    <2>2. QED BY <2>1, BudgetKept DEF RecoveryInv
<1>4. RecoveryTypeOK'
    BY <1>1, <1>2, <1>3, Numbers, ListWords DEF RecoveryInv, RecoveryTypeOK, TabCloses,
        Closes, crashes, work, budget
<1>5. WorkInv'
    BY <1>1, Numbers DEF RecoveryInv, WorkInv, TabCloses, crashes, work
<1>6. ListInv'
    BY <1>1, <1>2, Numbers DEF RecoveryInv, ListInv, TabCloses, work
<1>7. FreshInv'
    BY <1>1, <1>2, Numbers DEF RecoveryInv, FreshInv, Owns, TabCloses, crashes, work
<1>8. DeadPageInv'
    BY <1>1, Numbers DEF RecoveryInv, DeadPageInv, Busy, TabCloses, crashes, work
<1>9. QED BY <1>3, <1>4, <1>5, <1>6, <1>7, <1>8 DEF RecoveryInv

(* The session begins to close, and the list stays as it is.                *)
LEMMA SessionClosesKeeps ==
    ASSUME RecoveryInv, SessionCloses
    PROVE  RecoveryInv'
<1>1. pages' \in Seq(Pages) /\ Distinct(pages') /\ Listed' = Listed
    BY ListWords DEF RecoveryInv, RecoveryTypeOK, ListInv, SessionCloses
<1>2. active' \in Listed' /\ used' \in Pages /\ used <= used' /\ Listed' \subseteq 1..used'
    BY <1>1, Numbers DEF RecoveryInv, RecoveryTypeOK, ListInv, SessionCloses
<1>3. BudgetInv' /\ count' \in 0..(RecoveryMax + MaxPages)
    <2>1. /\ count' \in Nat
          /\ \/ count' <= RecoveryMax
             \/ count' <= count /\ Waiting' \subseteq Waiting
        BY Numbers DEF RecoveryInv, RecoveryTypeOK, Waiting, SessionCloses, work, budget
    <2>2. QED BY <2>1, BudgetKept DEF RecoveryInv
<1>4. RecoveryTypeOK'
    BY <1>1, <1>2, <1>3, Numbers, ListWords DEF RecoveryInv, RecoveryTypeOK, SessionCloses,
        crashes, work, budget
<1>5. WorkInv'
    BY <1>1, Numbers DEF RecoveryInv, WorkInv, SessionCloses, crashes, work
<1>6. ListInv'
    BY <1>1, <1>2, Numbers DEF RecoveryInv, ListInv, SessionCloses, work
<1>7. FreshInv'
    BY <1>1, <1>2, Numbers DEF RecoveryInv, FreshInv, Owns, SessionCloses, crashes, work
<1>8. DeadPageInv'
    BY <1>1, Numbers DEF RecoveryInv, DeadPageInv, Busy, SessionCloses, crashes, work
<1>9. QED BY <1>3, <1>4, <1>5, <1>6, <1>7, <1>8 DEF RecoveryInv

(* The gate breaks, and the recovery that holds the lease ends.             *)
LEMMA GateBreaksKeeps ==
    ASSUME RecoveryInv, GateBreaks
    PROVE  RecoveryInv'
<1>1. pages' \in Seq(Pages) /\ Distinct(pages') /\ Listed' = Listed
    BY ListWords DEF RecoveryInv, RecoveryTypeOK, ListInv, GateBreaks, tabs
<1>2. active' \in Listed' /\ used' \in Pages /\ used <= used' /\ Listed' \subseteq 1..used'
    BY <1>1, Numbers DEF RecoveryInv, RecoveryTypeOK, ListInv, GateBreaks, tabs
<1>3. BudgetInv' /\ count' \in 0..(RecoveryMax + MaxPages)
    <2>1. /\ count' \in Nat
          /\ \/ count' <= RecoveryMax
             \/ count' <= count /\ Waiting' \subseteq Waiting
        BY Numbers DEF RecoveryInv, RecoveryTypeOK, Waiting, GateBreaks, Ends, budget
    <2>2. QED BY <2>1, BudgetKept DEF RecoveryInv
<1>4. RecoveryTypeOK'
    BY <1>1, <1>2, <1>3, Numbers, ListWords DEF RecoveryInv, RecoveryTypeOK, GateBreaks, Ends, tabs,
        crashes, budget
<1>5. WorkInv'
    <2>1. \A s \in Pages : rec'[s] = IF s = lease THEN "over" ELSE rec[s]
        <3>1. CASE lease = None
            BY <3>1, Numbers DEF GateBreaks
        <3>2. CASE lease # None
            BY <3>2 DEF GateBreaks, Ends, RecoveryInv, RecoveryTypeOK
        <3>3. QED BY <3>1, <3>2
    <2>2. lease' = None /\ UNCHANGED <<cur, new, fresh, told>>
        BY DEF GateBreaks, Ends, crashes
    <2>3. \A s \in Pages : rec[s] \in Running <=> lease = s
        BY DEF RecoveryInv, WorkInv
    <2>4. \A s \in Pages : s = lease => rec[s] # "none"
        BY <2>3 DEF Running
    <2>5. \A s \in Pages : rec'[s] \in Running <=> lease' = s
        BY <2>1, <2>2, <2>3, Numbers DEF Running
    <2>6. QED BY <2>1, <2>2, <2>4, <2>5 DEF RecoveryInv, WorkInv
<1>6. ListInv'
    BY <1>1, <1>2, Numbers DEF RecoveryInv, RecoveryTypeOK, WorkInv, ListInv, GateBreaks, Ends, tabs, Running
<1>7. FreshInv'
    <2>1. \A s \in Pages : Owns(s) => Owns(s)'
        BY DEF GateBreaks, Ends, Owns, RecoveryInv, RecoveryTypeOK, WorkInv
    <2>2. QED BY <1>1, <2>1, FreshStays DEF GateBreaks, tabs, crashes
<1>8. DeadPageInv'
    BY <1>1, Numbers DEF RecoveryInv, RecoveryTypeOK, DeadPageInv, Busy, GateBreaks, Ends, crashes
<1>9. QED BY <1>3, <1>4, <1>5, <1>6, <1>7, <1>8 DEF RecoveryInv

(* close_page takes its page off the list; the active page becomes one of   *)
(* the others.                                                              *)
LEMMA ClosePageKeeps ==
    ASSUME RecoveryInv, NEW p \in Pages, ClosePage(p)
    PROVE  RecoveryInv'
<1>1. pages' \in Seq(Pages) /\ Distinct(pages') /\ Listed' = Listed \ {p}
    <2>1. pages' = Without(p) /\ pages \in Seq(Pages) /\ Distinct(pages)
        BY DEF RecoveryInv, RecoveryTypeOK, ListInv, ClosePage
    <2>2. QED BY <2>1, WithoutFacts, ListWords
<1>2. active' \in Listed' /\ used' \in Pages /\ used <= used' /\ Listed' \subseteq 1..used'
    <2>1. pages'[1] \in Listed'
        <3>1. Len(pages) - 1 <= Len(pages') /\ Len(pages) > 1 /\ Len(pages) \in Nat
            BY WithoutFacts DEF ClosePage, RecoveryInv, RecoveryTypeOK, ListInv
        <3>2. 1 \in 1..Len(pages')
            BY <1>1, <3>1
        <3>3. QED BY <3>2, ListWords DEF Members
    <2>2. used' = used /\ used \in Pages /\ used <= used
        BY Numbers DEF ClosePage, RecoveryInv, RecoveryTypeOK
    <2>3. active' \in Listed'
        BY <1>1, <2>1 DEF ClosePage, RecoveryInv, RecoveryTypeOK
    <2>4. QED BY <1>1, <2>2, <2>3, Numbers DEF RecoveryInv, ListInv
<1>3. BudgetInv' /\ count' \in 0..(RecoveryMax + MaxPages)
    <2>1. /\ count' \in Nat
          /\ \/ count' <= RecoveryMax
             \/ count' <= count /\ Waiting' \subseteq Waiting
        BY Numbers DEF RecoveryInv, RecoveryTypeOK, Waiting, ClosePage, work, budget
    <2>2. QED BY <2>1, BudgetKept DEF RecoveryInv
<1>4. RecoveryTypeOK'
    BY <1>1, <1>2, <1>3, Numbers, ListWords DEF RecoveryInv, RecoveryTypeOK, ClosePage,
        Closes, crashes, work, budget
<1>5. WorkInv'
    BY <1>1, Numbers DEF RecoveryInv, WorkInv, ClosePage, crashes, work
<1>6. ListInv'
    BY SMTT(20), <1>1, <1>2, Numbers DEF RecoveryInv, WorkInv, ListInv, FreshInv, ClosePage,
        Closes,
        tabs, crashes, work, budget, Running
<1>7. FreshInv'
    BY <1>1, <1>2, Numbers DEF RecoveryInv, FreshInv, Owns, ClosePage, crashes, work
<1>8. DeadPageInv'
    BY <1>1, Numbers DEF RecoveryInv, DeadPageInv, Busy, ClosePage, crashes, work
<1>9. QED BY <1>3, <1>4, <1>5, <1>6, <1>7, <1>8 DEF RecoveryInv

(* switch_page changes nothing but which listed page is active.             *)
LEMMA SwitchPageKeeps ==
    ASSUME RecoveryInv, NEW p \in Pages, SwitchPage(p)
    PROVE  RecoveryInv'
<1>1. pages' \in Seq(Pages) /\ Distinct(pages') /\ Listed' = Listed
    BY ListWords DEF RecoveryInv, RecoveryTypeOK, ListInv, SwitchPage
<1>2. active' \in Listed' /\ used' \in Pages /\ used <= used' /\ Listed' \subseteq 1..used'
    BY <1>1, Numbers DEF RecoveryInv, RecoveryTypeOK, ListInv, SwitchPage
<1>3. BudgetInv' /\ count' \in 0..(RecoveryMax + MaxPages)
    <2>1. /\ count' \in Nat
          /\ \/ count' <= RecoveryMax
             \/ count' <= count /\ Waiting' \subseteq Waiting
        BY Numbers DEF RecoveryInv, RecoveryTypeOK, Waiting, SwitchPage, work, budget
    <2>2. QED BY <2>1, BudgetKept DEF RecoveryInv
<1>4. RecoveryTypeOK'
    BY <1>1, <1>2, <1>3, Numbers, ListWords DEF RecoveryInv, RecoveryTypeOK, SwitchPage, crashes,
        work, budget
<1>5. WorkInv'
    BY <1>1, Numbers DEF RecoveryInv, WorkInv, SwitchPage, crashes, work
<1>6. ListInv'
    BY <1>1, <1>2, Numbers DEF RecoveryInv, WorkInv, ListInv, SwitchPage, work, Running
<1>7. FreshInv'
    BY <1>1, <1>2, Numbers DEF RecoveryInv, FreshInv, Owns, SwitchPage, crashes, work
<1>8. DeadPageInv'
    BY <1>1, Numbers DEF RecoveryInv, DeadPageInv, Busy, SwitchPage, crashes, work
<1>9. QED BY <1>3, <1>4, <1>5, <1>6, <1>7, <1>8 DEF RecoveryInv

(* A recovery that waits gets the free lease, and nobody else is at work.   *)
LEMMA AdmitKeeps ==
    ASSUME RecoveryInv, NEW r \in Pages, Admit(r)
    PROVE  RecoveryInv'
<1>1. pages' \in Seq(Pages) /\ Distinct(pages') /\ Listed' = Listed
    BY ListWords DEF RecoveryInv, RecoveryTypeOK, ListInv, Admit, tabs
<1>2. active' \in Listed' /\ used' \in Pages /\ used <= used' /\ Listed' \subseteq 1..used'
    BY <1>1, Numbers DEF RecoveryInv, RecoveryTypeOK, ListInv, Admit, tabs
<1>3. BudgetInv' /\ count' \in 0..(RecoveryMax + MaxPages)
    <2>1. Waiting \subseteq Pages /\ r \in Waiting /\ Waiting' = Waiting \ {r}
        BY DEF Admit, Waiting, RecoveryInv, RecoveryTypeOK
    <2>2. Cardinality(Waiting') = Cardinality(Waiting) - 1 /\ Cardinality(Waiting') \in Nat
        BY <2>1, Counts
    <2>3. count \in Nat /\ count' = count + 1 /\ Cardinality(Waiting) \in Nat
          /\ count + Cardinality(Waiting) <= RecoveryMax + MaxPages
        BY <2>1, Counts DEF Admit, RecoveryInv, RecoveryTypeOK, BudgetInv
    <2>4. QED BY <2>2, <2>3, RecoveryAssumption DEF BudgetInv
<1>4. RecoveryTypeOK'
    BY <1>1, <1>2, <1>3, Numbers, ListWords DEF RecoveryInv, RecoveryTypeOK, Admit, tabs, crashes
<1>5. WorkInv'
    BY <1>1, Numbers DEF RecoveryInv, RecoveryTypeOK, WorkInv, Admit, crashes, Running
<1>6. ListInv'
    BY <1>1, <1>2, Numbers DEF RecoveryInv, ListInv, Admit, tabs
<1>7. FreshInv'
    <2>1. \A s \in Pages : Owns(s) => Owns(s)'
        BY DEF Admit, Owns, RecoveryInv, RecoveryTypeOK
    <2>2. QED BY <1>1, <2>1, FreshStays DEF Admit, tabs, crashes
<1>8. DeadPageInv'
    BY <1>1, Numbers DEF RecoveryInv, DeadPageInv, Busy, Admit, crashes
<1>9. QED BY <1>3, <1>4, <1>5, <1>6, <1>7, <1>8 DEF RecoveryInv

(* A recovery that waits ends without having been at work.                  *)
LEMMA DropKeeps ==
    ASSUME RecoveryInv, NEW r \in Pages, Drop(r)
    PROVE  RecoveryInv'
<1>1. pages' \in Seq(Pages) /\ Distinct(pages') /\ Listed' = Listed
    BY ListWords DEF RecoveryInv, RecoveryTypeOK, ListInv, Drop, tabs
<1>2. active' \in Listed' /\ used' \in Pages /\ used <= used' /\ Listed' \subseteq 1..used'
    BY <1>1, Numbers DEF RecoveryInv, RecoveryTypeOK, ListInv, Drop, tabs
<1>3. BudgetInv' /\ count' \in 0..(RecoveryMax + MaxPages)
    <2>1. /\ count' \in Nat
          /\ \/ count' <= RecoveryMax
             \/ count' <= count /\ Waiting' \subseteq Waiting
        BY Numbers DEF RecoveryInv, RecoveryTypeOK, Waiting, Drop, Ends, budget
    <2>2. QED BY <2>1, BudgetKept DEF RecoveryInv
<1>4. RecoveryTypeOK'
    BY <1>1, <1>2, <1>3, Numbers, ListWords DEF RecoveryInv, RecoveryTypeOK, Drop, Ends, tabs,
        crashes, budget
<1>5. WorkInv'
    BY <1>1, Numbers DEF RecoveryInv, WorkInv, Drop, Ends, crashes, Running
<1>6. ListInv'
    BY <1>1, <1>2, Numbers DEF RecoveryInv, ListInv, Drop, Ends, tabs
<1>7. FreshInv'
    <2>1. \A s \in Pages : Owns(s) => Owns(s)'
        BY DEF Drop, Ends, Owns, RecoveryInv, RecoveryTypeOK, WorkInv
    <2>2. QED BY <1>1, <2>1, FreshStays DEF Drop, tabs, crashes
<1>8. DeadPageInv'
    BY <1>1, Numbers DEF RecoveryInv, RecoveryTypeOK, DeadPageInv, Busy, Drop, Ends, crashes
<1>9. QED BY <1>3, <1>4, <1>5, <1>6, <1>7, <1>8 DEF RecoveryInv

(* A recovery at work is cancelled with the session's tasks, and leaves the  *)
(* pages as they are.                                                       *)
LEMMA DrainedKeeps ==
    ASSUME RecoveryInv, NEW r \in Pages, Drained(r)
    PROVE  RecoveryInv'
<1>1. pages' \in Seq(Pages) /\ Distinct(pages') /\ Listed' = Listed
    BY ListWords DEF RecoveryInv, RecoveryTypeOK, ListInv, Drained, tabs
<1>2. active' \in Listed' /\ used' \in Pages /\ used <= used' /\ Listed' \subseteq 1..used'
    BY <1>1, Numbers DEF RecoveryInv, RecoveryTypeOK, ListInv, Drained, tabs
<1>3. BudgetInv' /\ count' \in 0..(RecoveryMax + MaxPages)
    <2>1. /\ count' \in Nat
          /\ \/ count' <= RecoveryMax
             \/ count' <= count /\ Waiting' \subseteq Waiting
        BY Numbers DEF RecoveryInv, RecoveryTypeOK, Waiting, Drained, Ends, budget
    <2>2. QED BY <2>1, BudgetKept DEF RecoveryInv
<1>4. RecoveryTypeOK'
    BY <1>1, <1>2, <1>3, Numbers, ListWords DEF RecoveryInv, RecoveryTypeOK, Drained, Ends, tabs,
        crashes, budget
<1>5. WorkInv'
    BY <1>1, Numbers DEF RecoveryInv, RecoveryTypeOK, WorkInv, Drained, Ends, crashes, Running
<1>6. ListInv'
    BY <1>1, <1>2, Numbers DEF RecoveryInv, ListInv, Drained, Ends, tabs
<1>7. FreshInv'
    <2>1. \A s \in Pages : Owns(s) => Owns(s)'
        BY DEF Drained, Ends, Owns, RecoveryInv, RecoveryTypeOK, WorkInv
    <2>2. QED BY <1>1, <2>1, FreshStays DEF Drained, tabs, crashes
<1>8. DeadPageInv'
    BY <1>1, Numbers DEF RecoveryInv, RecoveryTypeOK, DeadPageInv, Busy, Drained, Ends, crashes
<1>9. QED BY <1>3, <1>4, <1>5, <1>6, <1>7, <1>8 DEF RecoveryInv

(* The recovery at work opens the next page, nobody's so far, which may be  *)
(* listed at once.                                                          *)
LEMMA OpenReplacementKeeps ==
    ASSUME RecoveryInv, NEW r \in Pages, OpenReplacement(r)
    PROVE  RecoveryInv'
<1>1. /\ pages' \in Seq(Pages) /\ Distinct(pages')
      /\ Listed' \in {Listed, Listed \cup {used + 1}}
    <2>1. used + 1 \in Pages /\ used + 1 \notin Listed
        BY Opened DEF OpenReplacement
    <2>2. pages \in Seq(Pages) /\ Distinct(pages) /\ pages' \in {pages, Append(pages, used + 1)}
        BY DEF OpenReplacement, RecoveryInv, RecoveryTypeOK, ListInv
    <2>3. CASE pages' = pages
        BY <2>2, <2>3, ListWords
    <2>4. CASE pages' = Append(pages, used + 1)
        BY <2>1, <2>2, <2>4, Appended, ListWords
    <2>5. QED BY <2>2, <2>3, <2>4
<1>2. active' \in Listed' /\ used' \in Pages /\ used <= used' /\ Listed' \subseteq 1..used'
    <2>1. used' = used + 1 /\ active' = active /\ used < MaxPages
        BY DEF OpenReplacement
    <2>2. QED BY <1>1, <2>1, Opened DEF RecoveryInv, RecoveryTypeOK
<1>3. BudgetInv' /\ count' \in 0..(RecoveryMax + MaxPages)
    <2>1. /\ count' \in Nat
          /\ \/ count' <= RecoveryMax
             \/ count' <= count /\ Waiting' \subseteq Waiting
        BY Numbers DEF RecoveryInv, RecoveryTypeOK, Waiting, OpenReplacement, budget
    <2>2. QED BY <2>1, BudgetKept DEF RecoveryInv
<1>4. RecoveryTypeOK'
    <2>1. open' \cup broken' \subseteq 1..used' /\ told' \subseteq broken'
        <3>1. open \cup broken \subseteq 1..used /\ told \subseteq broken
            BY DEF RecoveryInv, RecoveryTypeOK
        <3>2. /\ used < MaxPages /\ used' = used + 1 /\ open' = open \cup {used + 1}
              /\ broken' = broken /\ told' = told
            BY DEF OpenReplacement
        <3>3. QED BY <3>1, <3>2, Opened
    <2>2. fresh' \in [Pages -> {"no", "loading", "crashed"}]
        BY DEF RecoveryInv, RecoveryTypeOK, OpenReplacement
    <2>3. rec' \in [Pages -> {"none", "waiting", "opening", "loading", "closing", "over"}]
        BY DEF RecoveryInv, RecoveryTypeOK, OpenReplacement
    <2>4. outcome' \in [Pages -> {"none", "recovered", "failed", "exhausted", "dropped"}]
        BY DEF RecoveryInv, RecoveryTypeOK, OpenReplacement
    <2>5. cur' \in [Pages -> Pages] /\ new' \in [Pages -> Pages \cup {None}]
        BY Opened DEF RecoveryInv, RecoveryTypeOK, OpenReplacement
    <2>6. lease' \in Pages \cup {None} /\ closing' \in {"no", "asked", "broken", "gone"}
        BY DEF RecoveryInv, RecoveryTypeOK, OpenReplacement
    <2>7. recent' \in BOOLEAN /\ crashed' \in BOOLEAN
        BY Zenon DEF RecoveryInv, RecoveryTypeOK, OpenReplacement, budget
    <2>8. QED BY <1>1, <1>2, <1>3, <2>1, <2>2, <2>3, <2>4, <2>5, <2>6, <2>7, ListWords DEF
            RecoveryTypeOK
<1>5. WorkInv'
    <2>1. \A s \in Pages : rec'[s] \in Running <=> lease' = s
        BY Numbers DEF RecoveryInv, WorkInv, OpenReplacement, Running
    <2>2. \A s \in Pages : rec'[s] \in {"none", "waiting"} => cur'[s] = s /\ new'[s] = None
        BY DEF RecoveryInv, WorkInv, OpenReplacement
    <2>3. \A s \in Pages : rec'[s] = "opening" => new'[s] = None
        BY DEF RecoveryInv, RecoveryTypeOK, WorkInv, OpenReplacement
    <2>4. \A s \in Pages : rec'[s] \in {"loading", "closing"} => new'[s] # None /\ fresh'[new'[s]] # "no"
        <3>1. \A s \in Pages : s # r => rec[s] \notin Running
            BY AtWork DEF OpenReplacement, Running
        <3>2. used + 1 \in Pages /\ used + 1 # None /\ new' = [new EXCEPT ![r] = used + 1]
              /\ fresh' = [fresh EXCEPT ![used + 1] = "loading"]
              /\ rec' = [rec EXCEPT ![r] = "loading"]
            BY Opened, Numbers DEF OpenReplacement
        <3>3. QED BY <3>1, <3>2 DEF RecoveryInv, RecoveryTypeOK, Running
    <2>5. \A s \in Pages : rec'[s] # "none" => fresh'[s] = "no" /\ s \in told'
        BY Numbers DEF RecoveryInv, RecoveryTypeOK, WorkInv, OpenReplacement
    <2>6. \A s \in Pages : cur'[s] = s \/ fresh'[cur'[s]] = "crashed"
        <3>1. /\ fresh[used + 1] = "no" /\ cur' = cur
              /\ fresh' = [fresh EXCEPT ![used + 1] = "loading"]
            BY Opened DEF OpenReplacement
        <3>2. QED BY <3>1 DEF RecoveryInv, WorkInv
    <2>7. QED BY <2>1, <2>2, <2>3, <2>4, <2>5, <2>6 DEF WorkInv
<1>6. ListInv'
    <2>1. \A s \in Pages : rec'[s] = "loading" => active' # new'[s]
        BY <1>1, <1>2, Numbers DEF RecoveryInv, RecoveryTypeOK, ListInv, OpenReplacement
    <2>2. \A s \in Pages : rec'[s] = "closing" => cur'[s] \notin Listed'
        BY <1>1, Numbers DEF RecoveryInv, WorkInv, OpenReplacement, Running
    <2>3. QED BY <1>1, <1>2, <2>1, <2>2 DEF ListInv
<1>7. FreshInv'
    <2>1. \A p1 \in Pages : fresh'[p1] = "loading" => p1 \notin told'
        BY Numbers DEF RecoveryInv, RecoveryTypeOK, FreshInv, OpenReplacement
    <2>2. \A p1 \in Pages : fresh'[p1] = "crashed" => p1 \in told'
        BY Numbers DEF RecoveryInv, FreshInv, OpenReplacement
    <2>3. \A p1 \in Pages : p1 > used' => fresh'[p1] = "no"
        BY <1>2, Numbers DEF RecoveryInv, RecoveryTypeOK, FreshInv, OpenReplacement
    <2>4. \A p1 \in Listed' : fresh'[p1] = "loading" =>
              \E s \in Pages : Owns(s)' /\ new'[s] = p1
        <3>1. Owns(r)' /\ new'[r] = used + 1
            BY DEF OpenReplacement, Owns, RecoveryInv, RecoveryTypeOK
        <3>2. \A s \in Pages : Owns(s) => Owns(s)' /\ new'[s] = new[s]
            BY DEF OpenReplacement, Owns, RecoveryInv, RecoveryTypeOK
        <3>3. \A p1 \in Listed : p1 # used + 1 /\ (fresh'[p1] = "loading" => fresh[p1] = "loading")
            BY Opened, ListWords DEF OpenReplacement, RecoveryInv, RecoveryTypeOK
        <3>4. QED BY <1>1, <3>1, <3>2, <3>3 DEF RecoveryInv, FreshInv
    <2>5. QED BY <2>1, <2>2, <2>3, <2>4 DEF FreshInv
<1>8. DeadPageInv'
    <2>1. SUFFICES ASSUME NEW p \in told' \cap Listed'
                   PROVE  \E t \in Pages :
                              /\ p \in {cur'[t], new'[t]}
                              /\ Busy(t)' \/ outcome'[t] \in {"failed", "exhausted", "dropped"}
        BY DEF DeadPageInv
    <2>2. p \in told \cap Listed
        BY <1>1, Opened DEF OpenReplacement
    <2>3. PICK s \in Pages :
              /\ p \in {cur[s], new[s]}
              /\ Busy(s) \/ outcome[s] \in {"failed", "exhausted", "dropped"}
        BY <2>2 DEF RecoveryInv, DeadPageInv
    <2>4. p \in {cur'[s], new'[s]}
        BY <2>2, <2>3, Numbers, ListWords DEF OpenReplacement, RecoveryInv, RecoveryTypeOK,
            WorkInv
    <2>5. Busy(s)' \/ outcome'[s] \in {"failed", "exhausted", "dropped"}
        BY <2>3 DEF OpenReplacement, Busy
    <2>6. QED BY <2>4, <2>5
<1>9. QED BY <1>3, <1>4, <1>5, <1>6, <1>7, <1>8 DEF RecoveryInv

(* The replacement, which is on the list for the first time, is behind the  *)
(* others.                                                                  *)
LEMMA ReplacementListedKeeps ==
    ASSUME RecoveryInv, NEW r \in Pages, ReplacementListed(r)
    PROVE  RecoveryInv'
<1>1. pages' \in Seq(Pages) /\ Distinct(pages') /\ Listed' = Listed \cup {new[r]}
    <2>1. new[r] \in Pages /\ new[r] \notin Listed /\ pages \in Seq(Pages) /\ Distinct(pages)
        BY DEF RecoveryInv, RecoveryTypeOK, WorkInv, ListInv, ReplacementListed
    <2>2. pages' = Append(pages, new[r])
        BY DEF ReplacementListed
    <2>3. QED BY <2>1, <2>2, Appended, ListWords
<1>2. active' \in Listed' /\ used' \in Pages /\ used <= used' /\ Listed' \subseteq 1..used'
    <2>1. used' = used /\ used \in Pages /\ used <= used /\ active' = active
        BY Numbers DEF ReplacementListed, RecoveryInv, RecoveryTypeOK
    <2>2. new[r] \in Pages /\ fresh[new[r]] # "no"
        BY DEF ReplacementListed, RecoveryInv, RecoveryTypeOK, WorkInv
    <2>3. new[r] \in 1..used
        BY <2>1, <2>2, Numbers DEF RecoveryInv, FreshInv
    <2>4. QED BY <1>1, <2>1, <2>3, Numbers DEF RecoveryInv, RecoveryTypeOK, ListInv
<1>3. BudgetInv' /\ count' \in 0..(RecoveryMax + MaxPages)
    <2>1. /\ count' \in Nat
          /\ \/ count' <= RecoveryMax
             \/ count' <= count /\ Waiting' \subseteq Waiting
        BY Numbers DEF RecoveryInv, RecoveryTypeOK, Waiting, ReplacementListed, work, budget
    <2>2. QED BY <2>1, BudgetKept DEF RecoveryInv
<1>4. RecoveryTypeOK'
    BY <1>1, <1>2, <1>3, Numbers, ListWords DEF RecoveryInv, RecoveryTypeOK, ReplacementListed,
        crashes, work, budget
<1>5. WorkInv'
    BY <1>1, Numbers DEF RecoveryInv, WorkInv, ReplacementListed, crashes, work
<1>6. ListInv'
    BY <1>1, <1>2, Numbers DEF RecoveryInv, WorkInv, ListInv, ReplacementListed, work, Running
<1>7. FreshInv'
    BY <1>1, <1>2, Numbers DEF RecoveryInv, FreshInv, Owns, ReplacementListed, crashes, work
<1>8. DeadPageInv'
    BY <1>1, Numbers DEF RecoveryInv, DeadPageInv, Busy, ReplacementListed, crashes, work
<1>9. QED BY <1>3, <1>4, <1>5, <1>6, <1>7, <1>8 DEF RecoveryInv

(* The replacement does not open: the recovery ends, and gives the lease    *)
(* back.                                                                    *)
LEMMA OpenFailsKeeps ==
    ASSUME RecoveryInv, NEW r \in Pages, OpenFails(r)
    PROVE  RecoveryInv'
<1>1. pages' \in Seq(Pages) /\ Distinct(pages') /\ Listed' = Listed
    BY ListWords DEF RecoveryInv, RecoveryTypeOK, ListInv, OpenFails, tabs
<1>2. active' \in Listed' /\ used' \in Pages /\ used <= used' /\ Listed' \subseteq 1..used'
    BY <1>1, Numbers DEF RecoveryInv, RecoveryTypeOK, ListInv, OpenFails, tabs
<1>3. BudgetInv' /\ count' \in 0..(RecoveryMax + MaxPages)
    <2>1. /\ count' \in Nat
          /\ \/ count' <= RecoveryMax
             \/ count' <= count /\ Waiting' \subseteq Waiting
        BY Numbers DEF RecoveryInv, RecoveryTypeOK, Waiting, OpenFails, Ends, budget
    <2>2. QED BY <2>1, BudgetKept DEF RecoveryInv
<1>4. RecoveryTypeOK'
    BY <1>1, <1>2, <1>3, Numbers, ListWords DEF RecoveryInv, RecoveryTypeOK, OpenFails, Ends,
        tabs, crashes, budget
<1>5. WorkInv'
    BY <1>1, Numbers DEF RecoveryInv, RecoveryTypeOK, WorkInv, OpenFails, Ends, crashes, Running
<1>6. ListInv'
    BY <1>1, <1>2, Numbers DEF RecoveryInv, ListInv, OpenFails, Ends, tabs
<1>7. FreshInv'
    BY <1>1, <1>2, Numbers DEF RecoveryInv, FreshInv, Owns, OpenFails, Ends, tabs, crashes
<1>8. DeadPageInv'
    BY <1>1, Numbers DEF RecoveryInv, RecoveryTypeOK, DeadPageInv, Busy, OpenFails, Ends,
        crashes
<1>9. QED BY <1>3, <1>4, <1>5, <1>6, <1>7, <1>8 DEF RecoveryInv

(* The replacement crashed while it loaded: it leaves the list, and the     *)
(* recovery starts again from it if the budget allows.                      *)
LEMMA LoadCrashedKeeps ==
    ASSUME RecoveryInv, NEW r \in Pages, LoadCrashed(r)
    PROVE  RecoveryInv'
<1>1. pages' \in Seq(Pages) /\ Distinct(pages') /\ Listed' = Listed \ {new[r]}
    <2>1. pages' = Without(new[r]) /\ pages \in Seq(Pages) /\ Distinct(pages)
        BY DEF RecoveryInv, RecoveryTypeOK, ListInv, LoadCrashed, Discard
    <2>2. QED BY <2>1, WithoutFacts, ListWords
<1>2. active' \in Listed' /\ used' \in Pages /\ used <= used' /\ Listed' \subseteq 1..used'
    <2>1. used' = used /\ used \in Pages /\ used <= used /\ active' = active /\ active # new[r]
        BY Numbers DEF LoadCrashed, Discard, RecoveryInv, RecoveryTypeOK, ListInv
    <2>2. QED BY <1>1, <2>1, Numbers DEF RecoveryInv, RecoveryTypeOK, ListInv
<1>3. BudgetInv' /\ count' \in 0..(RecoveryMax + MaxPages)
    <2>1. /\ count' \in Nat
          /\ \/ count' <= RecoveryMax
             \/ count' <= count /\ Waiting' \subseteq Waiting
        BY Numbers DEF RecoveryInv, RecoveryTypeOK, Waiting, LoadCrashed, Retry, Spent, Ends
    <2>2. QED BY <2>1, BudgetKept DEF RecoveryInv
<1>4. RecoveryTypeOK'
    <2>1. open' \cup broken' \subseteq 1..used' /\ told' \subseteq broken'
        BY <1>2, Numbers DEF RecoveryInv, RecoveryTypeOK, Closes, LoadCrashed, Discard, crashes
    <2>2. fresh' \in [Pages -> {"no", "loading", "crashed"}]
        BY DEF RecoveryInv, RecoveryTypeOK, LoadCrashed, crashes
    <2>3. rec' \in [Pages -> {"none", "waiting", "opening", "loading", "closing", "over"}]
        BY DEF RecoveryInv, RecoveryTypeOK, LoadCrashed, Retry, Ends
    <2>4. outcome' \in [Pages -> {"none", "recovered", "failed", "exhausted", "dropped"}]
        BY DEF RecoveryInv, RecoveryTypeOK, LoadCrashed, Retry, Ends
    <2>5. cur' \in [Pages -> Pages] /\ new' \in [Pages -> Pages \cup {None}]
        BY Numbers DEF RecoveryInv, RecoveryTypeOK, LoadCrashed, Retry
    <2>6. lease' \in Pages \cup {None} /\ closing' \in {"no", "asked", "broken", "gone"}
        BY DEF RecoveryInv, RecoveryTypeOK, Closes, LoadCrashed, Discard, Retry, Ends
    <2>7. recent' \in BOOLEAN /\ crashed' \in BOOLEAN
        BY Zenon DEF RecoveryInv, RecoveryTypeOK, LoadCrashed, Retry
    <2>8. QED BY <1>1, <1>2, <1>3, <2>1, <2>2, <2>3, <2>4, <2>5, <2>6, <2>7, ListWords DEF
            RecoveryTypeOK
<1>5. WorkInv'
    <2>1. \A s \in Pages : rec'[s] \in Running <=> lease' = s
        BY Numbers DEF RecoveryInv, RecoveryTypeOK, WorkInv, LoadCrashed, Retry, Ends, Running
    <2>2. \A s \in Pages : rec'[s] \in {"none", "waiting"} => cur'[s] = s /\ new'[s] = None
        BY DEF RecoveryInv, RecoveryTypeOK, WorkInv, LoadCrashed, Retry, Ends
    <2>3. \A s \in Pages : rec'[s] = "opening" => new'[s] = None
        BY DEF RecoveryInv, RecoveryTypeOK, WorkInv, LoadCrashed, Retry, Ends
    <2>4. \A s \in Pages : rec'[s] \in {"loading", "closing"} => new'[s] # None /\ fresh'[new'[s]] # "no"
        BY Numbers DEF RecoveryInv, RecoveryTypeOK, WorkInv, LoadCrashed, Retry, Ends, crashes
    <2>5. \A s \in Pages : rec'[s] # "none" => fresh'[s] = "no" /\ s \in told'
        BY Numbers DEF RecoveryInv, RecoveryTypeOK, WorkInv, LoadCrashed, Retry, Ends, crashes
    <2>6. \A s \in Pages : cur'[s] = s \/ fresh'[cur'[s]] = "crashed"
        BY Numbers DEF RecoveryInv, WorkInv, LoadCrashed, Retry, crashes
    <2>7. QED BY <2>1, <2>2, <2>3, <2>4, <2>5, <2>6 DEF WorkInv
<1>6. ListInv'
    <2>1. \A s \in Pages : rec'[s] = "loading" => active' # new'[s]
        BY <1>1, <1>2, Numbers DEF RecoveryInv, RecoveryTypeOK, ListInv, LoadCrashed, Discard,
            Retry, Ends
    <2>2. \A s \in Pages : rec'[s] = "closing" => cur'[s] \notin Listed'
        BY <1>1, Numbers DEF RecoveryInv, RecoveryTypeOK, ListInv, LoadCrashed, Retry, Ends
    <2>3. QED BY <1>1, <1>2, <2>1, <2>2 DEF ListInv
<1>7. FreshInv'
    <2>1. \A p1 \in Pages : fresh'[p1] = "loading" => p1 \notin told'
        BY Numbers DEF RecoveryInv, FreshInv, LoadCrashed, crashes
    <2>2. \A p1 \in Pages : fresh'[p1] = "crashed" => p1 \in told'
        BY Numbers DEF RecoveryInv, FreshInv, LoadCrashed, crashes
    <2>3. \A p1 \in Pages : p1 > used' => fresh'[p1] = "no"
        BY <1>2, Numbers DEF RecoveryInv, RecoveryTypeOK, FreshInv, LoadCrashed, crashes
    <2>4. \A p1 \in Listed' : fresh'[p1] = "loading" =>
              \E s \in Pages : Owns(s)' /\ new'[s] = p1
        <3>1. SUFFICES ASSUME NEW p1 \in Listed, fresh[p1] = "loading", p1 # new[r]
                       PROVE  \E s \in Pages : Owns(s)' /\ new'[s] = p1
            BY <1>1 DEF LoadCrashed, crashes
        <3>2. PICK s \in Pages : Owns(s) /\ new[s] = p1
            BY <3>1 DEF RecoveryInv, FreshInv
        <3>3. rec'[s] = rec[s] /\ outcome'[s] = outcome[s] /\ new'[s] = new[s]
            BY <3>1, <3>2 DEF LoadCrashed, Retry, Ends, RecoveryInv, RecoveryTypeOK
        <3>4. QED BY <3>2, <3>3 DEF Owns
    <2>5. QED BY <2>1, <2>2, <2>3, <2>4 DEF FreshInv
<1>8. DeadPageInv'
    <2>1. SUFFICES ASSUME NEW p \in told' \cap Listed'
                   PROVE  \E t \in Pages :
                              /\ p \in {cur'[t], new'[t]}
                              /\ Busy(t)' \/ outcome'[t] \in {"failed", "exhausted", "dropped"}
        BY DEF DeadPageInv
    <2>2. p \in told \cap Listed /\ p # new[r]
        BY <1>1 DEF LoadCrashed, crashes
    <2>3. PICK s \in Pages :
              /\ p \in {cur[s], new[s]}
              /\ Busy(s) \/ outcome[s] \in {"failed", "exhausted", "dropped"}
        BY <2>2 DEF RecoveryInv, DeadPageInv
    <2>4. CASE s = r
        <3>1. cur'[r] = cur[r] /\ (rec'[r] = "opening" \/ outcome'[r] = "exhausted")
            BY DEF LoadCrashed, Retry, Ends, RecoveryInv, RecoveryTypeOK
        <3>2. QED BY <2>2, <2>3, <2>4, <3>1 DEF Busy
    <2>5. CASE s # r
        <3>1. cur'[s] = cur[s] /\ new'[s] = new[s] /\ rec'[s] = rec[s] /\ outcome'[s] = outcome[s]
            BY <2>5 DEF LoadCrashed, Retry, Ends, RecoveryInv, RecoveryTypeOK
        <3>2. QED BY <2>3, <3>1 DEF Busy
    <2>6. QED BY <2>4, <2>5
<1>9. QED BY <1>3, <1>4, <1>5, <1>6, <1>7, <1>8 DEF RecoveryInv

(* The replacement was closed while it loaded: it leaves the list, and the  *)
(* recovery ends.                                                           *)
LEMMA LoadClosedKeeps ==
    ASSUME RecoveryInv, NEW r \in Pages, LoadClosed(r)
    PROVE  RecoveryInv'
<1>1. pages' \in Seq(Pages) /\ Distinct(pages') /\ Listed' = Listed \ {new[r]}
    <2>1. pages' = Without(new[r]) /\ pages \in Seq(Pages) /\ Distinct(pages)
        BY DEF RecoveryInv, RecoveryTypeOK, ListInv, LoadClosed, Discard
    <2>2. QED BY <2>1, WithoutFacts, ListWords
<1>2. active' \in Listed' /\ used' \in Pages /\ used <= used' /\ Listed' \subseteq 1..used'
    <2>1. used' = used /\ used \in Pages /\ used <= used /\ active' = active /\ active # new[r]
        BY Numbers DEF LoadClosed, Discard, RecoveryInv, RecoveryTypeOK, ListInv
    <2>2. QED BY <1>1, <2>1, Numbers DEF RecoveryInv, RecoveryTypeOK, ListInv
<1>3. BudgetInv' /\ count' \in 0..(RecoveryMax + MaxPages)
    <2>1. /\ count' \in Nat
          /\ \/ count' <= RecoveryMax
             \/ count' <= count /\ Waiting' \subseteq Waiting
        BY Numbers DEF RecoveryInv, RecoveryTypeOK, Waiting, LoadClosed, Ends, budget
    <2>2. QED BY <2>1, BudgetKept DEF RecoveryInv
<1>4. RecoveryTypeOK'
    BY <1>1, <1>2, <1>3, Numbers, ListWords DEF RecoveryInv, RecoveryTypeOK, Closes, LoadClosed, Discard,
        Ends, crashes, budget
<1>5. WorkInv'
    BY <1>1, Numbers DEF RecoveryInv, RecoveryTypeOK, WorkInv, LoadClosed, Ends, crashes, Running
<1>6. ListInv'
    BY <1>1, <1>2, Numbers DEF RecoveryInv, ListInv, LoadClosed, Discard, Ends
<1>7. FreshInv'
    BY SMTT(20), <1>1, <1>2, Numbers DEF RecoveryInv, FreshInv, Owns, LoadClosed, Discard, Ends, crashes
<1>8. DeadPageInv'
    BY <1>1, Numbers DEF RecoveryInv, RecoveryTypeOK, DeadPageInv, Busy, LoadClosed, Ends,
        crashes
<1>9. QED BY <1>3, <1>4, <1>5, <1>6, <1>7, <1>8 DEF RecoveryInv

(* The replacement, listed or not, stands where the page that crashed       *)
(* stood.                                                                   *)
LEMMA TakeSlotKeeps ==
    ASSUME RecoveryInv, NEW r \in Pages, TakeSlot(r)
    PROVE  RecoveryInv'
<1>1. /\ pages' \in Seq(Pages) /\ Distinct(pages')
      /\ Listed' = (Listed \ {cur[r]}) \cup {new[r]}
    <2>1. /\ new[r] \in Pages /\ cur[r] \in Pages /\ pages \in Seq(Pages) /\ Distinct(pages)
          /\ cur[r] # new[r]
        BY DEF RecoveryInv, RecoveryTypeOK, WorkInv, ListInv, TakeSlot
    <2>2. CASE cur[r] \notin Listed /\ new[r] \in Listed
        BY <2>1, <2>2, ListWords DEF TakeSlot
    <2>3. CASE ~(cur[r] \notin Listed /\ new[r] \in Listed)
        BY <2>1, <2>3, SlotFacts, ListWords DEF TakeSlot
    <2>4. QED BY <2>2, <2>3
<1>2. active' \in Listed' /\ used' \in Pages /\ used <= used' /\ Listed' \subseteq 1..used'
    <2>1. used' = used /\ used \in Pages /\ used <= used
        BY Numbers DEF TakeSlot, RecoveryInv, RecoveryTypeOK
    <2>2. new[r] \in Pages /\ fresh[new[r]] # "no"
        BY DEF TakeSlot, RecoveryInv, RecoveryTypeOK, WorkInv
    <2>3. new[r] \in 1..used
        BY <2>1, <2>2, Numbers DEF RecoveryInv, FreshInv
    <2>4. active' \in Listed'
        BY <1>1 DEF TakeSlot, RecoveryInv, RecoveryTypeOK
    <2>5. QED BY <1>1, <2>1, <2>3, <2>4, Numbers DEF RecoveryInv, ListInv
<1>3. BudgetInv' /\ count' \in 0..(RecoveryMax + MaxPages)
    <2>1. /\ count' \in Nat
          /\ \/ count' <= RecoveryMax
             \/ count' <= count /\ Waiting' \subseteq Waiting
        BY Numbers DEF RecoveryInv, RecoveryTypeOK, Waiting, TakeSlot, budget
    <2>2. QED BY <2>1, BudgetKept DEF RecoveryInv
<1>4. RecoveryTypeOK'
    BY <1>1, <1>2, <1>3, Numbers, ListWords DEF RecoveryInv, RecoveryTypeOK, TakeSlot, crashes,
        budget
<1>5. WorkInv'
    BY <1>1, Numbers DEF RecoveryInv, WorkInv, TakeSlot, crashes, Running
<1>6. ListInv'
    <2>1. \A s \in Pages : s # r => rec[s] \notin Running
        BY AtWork DEF TakeSlot, Running
    <2>2. /\ rec'[r] = "closing" /\ cur'[r] = cur[r]
          /\ \A s \in Pages : s # r => rec'[s] = rec[s]
        BY DEF TakeSlot, RecoveryInv, RecoveryTypeOK
    <2>3. \A s \in Pages : rec'[s] \in {"loading", "closing"} => s = r
        BY <2>1, <2>2 DEF Running
    <2>4. cur[r] # new[r]
        BY DEF TakeSlot, RecoveryInv, WorkInv
    <2>5. \A s \in Pages : rec'[s] = "closing" => cur'[s] \notin Listed'
        BY <1>1, <2>2, <2>3, <2>4
    <2>6. \A s \in Pages : rec'[s] # "loading"
        BY <2>2, <2>3
    <2>7. QED BY <1>1, <1>2, <2>5, <2>6 DEF ListInv
<1>7. FreshInv'
    <2>1. \A s \in Pages : Owns(s) => Owns(s)'
        BY DEF TakeSlot, Owns, RecoveryInv, RecoveryTypeOK
    <2>2. Owns(r)' /\ UNCHANGED <<new, used, fresh, told>>
        BY DEF TakeSlot, crashes, Owns, RecoveryInv, RecoveryTypeOK
    <2>3. QED BY <1>1, <2>1, <2>2 DEF RecoveryInv, FreshInv
<1>8. DeadPageInv'
    BY <1>1, Numbers DEF RecoveryInv, DeadPageInv, Busy, TakeSlot, crashes
<1>9. QED BY <1>3, <1>4, <1>5, <1>6, <1>7, <1>8 DEF RecoveryInv

(* The page that crashed is closed behind its replacement; the recovery     *)
(* ends, or starts again from the replacement if that crashed meanwhile.    *)
LEMMA SwappedKeeps ==
    ASSUME RecoveryInv, NEW r \in Pages, Swapped(r)
    PROVE  RecoveryInv'
<1>1. pages' \in Seq(Pages) /\ Distinct(pages') /\ Listed' = Listed
    BY ListWords DEF RecoveryInv, RecoveryTypeOK, ListInv, Swapped
<1>2. active' \in Listed' /\ used' \in Pages /\ used <= used' /\ Listed' \subseteq 1..used'
    BY <1>1, Numbers DEF RecoveryInv, RecoveryTypeOK, ListInv, Swapped
<1>3. BudgetInv' /\ count' \in 0..(RecoveryMax + MaxPages)
    <2>1. /\ count' \in Nat
          /\ \/ count' <= RecoveryMax
             \/ count' <= count /\ Waiting' \subseteq Waiting
        BY Numbers DEF RecoveryInv, RecoveryTypeOK, Waiting, Swapped, Retry, Spent, Ends, budget
    <2>2. QED BY <2>1, BudgetKept DEF RecoveryInv
<1>4. RecoveryTypeOK'
    <2>1. open' \cup broken' \subseteq 1..used' /\ told' \subseteq broken'
        BY <1>2, Numbers DEF RecoveryInv, RecoveryTypeOK, Closes, Swapped
    <2>2. fresh' \in [Pages -> {"no", "loading", "crashed"}]
        BY DEF RecoveryInv, RecoveryTypeOK, Swapped
    <2>3. rec' \in [Pages -> {"none", "waiting", "opening", "loading", "closing", "over"}]
        <3>1. \E v \in {"opening", "over"} : rec' = [rec EXCEPT ![r] = v]
            BY DEF Swapped, Retry, Ends
        <3>2. QED BY <3>1 DEF RecoveryInv, RecoveryTypeOK
    <2>4. outcome' \in [Pages -> {"none", "recovered", "failed", "exhausted", "dropped"}]
        BY DEF RecoveryInv, RecoveryTypeOK, Swapped, Retry, Ends
    <2>5. cur' \in [Pages -> Pages] /\ new' \in [Pages -> Pages \cup {None}]
        <3>1. new[r] \in Pages
            BY DEF Swapped, RecoveryInv, RecoveryTypeOK, WorkInv
        <3>2. QED BY <3>1 DEF Swapped, Retry, RecoveryInv, RecoveryTypeOK
    <2>6. lease' \in Pages \cup {None} /\ closing' \in {"no", "asked", "broken", "gone"}
        BY DEF RecoveryInv, RecoveryTypeOK, Swapped, Closes, Retry, Ends
    <2>7. recent' \in BOOLEAN /\ crashed' \in BOOLEAN
        BY Zenon DEF RecoveryInv, RecoveryTypeOK, Swapped, Retry, budget
    <2>8. QED BY <1>1, <1>2, <1>3, <2>1, <2>2, <2>3, <2>4, <2>5, <2>6, <2>7, ListWords DEF
            RecoveryTypeOK
<1>5. WorkInv'
    <2>1. \A s \in Pages : rec'[s] \in Running <=> lease' = s
        BY SMTT(20), Numbers DEF RecoveryInv, RecoveryTypeOK, WorkInv, Swapped, Retry, Ends, Running
    <2>2. \A s \in Pages : rec'[s] \in {"none", "waiting"} => cur'[s] = s /\ new'[s] = None
        BY DEF RecoveryInv, RecoveryTypeOK, WorkInv, Swapped, Retry, Ends
    <2>3. \A s \in Pages : rec'[s] = "opening" => new'[s] = None
        BY DEF RecoveryInv, RecoveryTypeOK, WorkInv, Swapped, Retry, Ends
    <2>4. \A s \in Pages : rec'[s] \in {"loading", "closing"} => new'[s] # None /\ fresh'[new'[s]] # "no"
        <3>1. \A s \in Pages : s # r => rec[s] \notin Running
            BY AtWork DEF Swapped, Running
        <3>2. \A s \in Pages : rec'[s] \notin {"loading", "closing"}
            BY <3>1 DEF Swapped, Retry, Ends, RecoveryInv, RecoveryTypeOK, Running
        <3>3. QED BY <3>2
    <2>5. \A s \in Pages : rec'[s] # "none" => fresh'[s] = "no" /\ s \in told'
        BY Numbers DEF RecoveryInv, RecoveryTypeOK, WorkInv, Swapped, Retry, Ends
    <2>6. \A s \in Pages : cur'[s] = s \/ fresh'[cur'[s]] = "crashed"
        <3>1. new[r] \in Pages
            BY DEF Swapped, RecoveryInv, RecoveryTypeOK, WorkInv
        <3>2. CASE fresh[new[r]] = "crashed"
            BY <3>1, <3>2 DEF Swapped, Retry, RecoveryInv, RecoveryTypeOK, WorkInv
        <3>3. CASE fresh[new[r]] # "crashed"
            BY <3>1, <3>3 DEF Swapped, RecoveryInv, RecoveryTypeOK, WorkInv
        <3>4. QED BY <3>2, <3>3
    <2>7. QED BY <2>1, <2>2, <2>3, <2>4, <2>5, <2>6 DEF WorkInv
<1>6. ListInv'
    <2>1. \A s \in Pages : s # r => rec[s] \notin Running
        BY AtWork DEF Swapped, Running
    <2>2. \A s \in Pages : rec'[s] \notin {"loading", "closing"}
        BY <2>1 DEF Swapped, Retry, Ends, RecoveryInv, RecoveryTypeOK, Running
    <2>3. QED BY <1>1, <1>2, <2>2 DEF ListInv
<1>7. FreshInv'
    <2>1. \A p1 \in Pages : fresh'[p1] = "loading" => p1 \notin told'
        BY Numbers DEF RecoveryInv, RecoveryTypeOK, FreshInv, Swapped
    <2>2. \A p1 \in Pages : fresh'[p1] = "crashed" => p1 \in told'
        BY Numbers DEF RecoveryInv, RecoveryTypeOK, FreshInv, Swapped
    <2>3. \A p1 \in Pages : p1 > used' => fresh'[p1] = "no"
        BY <1>2, Numbers DEF RecoveryInv, RecoveryTypeOK, FreshInv, Swapped
    <2>4. \A p1 \in Listed' : fresh'[p1] = "loading" =>
              \E s \in Pages : Owns(s)' /\ new'[s] = p1
        <3>1. fresh'[new[r]] # "loading" /\ \A p1 \in Pages : p1 # new[r] => fresh'[p1] = fresh[p1]
            BY DEF Swapped, RecoveryInv, RecoveryTypeOK, WorkInv
        <3>2. \A p1 \in Listed : p1 \in Pages
            BY ListWords DEF RecoveryInv, RecoveryTypeOK
        <3>3. SUFFICES ASSUME NEW p1 \in Listed, fresh[p1] = "loading", p1 # new[r]
                       PROVE  \E s \in Pages : Owns(s)' /\ new'[s] = p1
            BY <1>1, <3>1, <3>2
        <3>4. PICK s \in Pages : Owns(s) /\ new[s] = p1
            BY <3>3 DEF RecoveryInv, FreshInv
        <3>5. rec'[s] = rec[s] /\ outcome'[s] = outcome[s] /\ new'[s] = new[s]
            BY <3>3, <3>4 DEF Swapped, Retry, Ends, RecoveryInv, RecoveryTypeOK
        <3>6. QED BY <3>4, <3>5 DEF Owns
    <2>5. QED BY <2>1, <2>2, <2>3, <2>4 DEF FreshInv
<1>8. DeadPageInv'
    <2>1. SUFFICES ASSUME NEW p \in told' \cap Listed'
                   PROVE  \E t \in Pages :
                              /\ p \in {cur'[t], new'[t]}
                              /\ Busy(t)' \/ outcome'[t] \in {"failed", "exhausted", "dropped"}
        BY DEF DeadPageInv
    <2>2. p \in told \cap Listed /\ p # cur[r]
        BY <1>1 DEF Swapped, RecoveryInv, ListInv
    <2>3. PICK s \in Pages :
              /\ p \in {cur[s], new[s]}
              /\ Busy(s) \/ outcome[s] \in {"failed", "exhausted", "dropped"}
        BY <2>2 DEF RecoveryInv, DeadPageInv
    <2>4. CASE s = r
        <3>1. p = new[r] /\ p \in Pages
            BY <2>2, <2>3, <2>4 DEF RecoveryInv, RecoveryTypeOK
        <3>2. fresh[p] = "crashed"
            BY <2>2, <3>1 DEF Swapped, RecoveryInv, RecoveryTypeOK, WorkInv, FreshInv
        <3>3. cur'[r] = p /\ (rec'[r] = "opening" \/ outcome'[r] = "exhausted")
            BY <3>1, <3>2 DEF Swapped, Retry, Ends, RecoveryInv, RecoveryTypeOK
        <3>4. QED BY <3>3 DEF Busy
    <2>5. CASE s # r
        <3>1. cur'[s] = cur[s] /\ new'[s] = new[s] /\ rec'[s] = rec[s] /\ outcome'[s] = outcome[s]
            BY <2>5 DEF Swapped, Retry, Ends, RecoveryInv, RecoveryTypeOK
        <3>2. QED BY <2>3, <3>1 DEF Busy
    <2>6. QED BY <2>4, <2>5
<1>9. QED BY <1>3, <1>4, <1>5, <1>6, <1>7, <1>8 DEF RecoveryInv

(* A session starts with one page, and nothing to recover.                  *)
LEMMA RecoveryInit == Init => RecoveryInv
<1> SUFFICES ASSUME Init PROVE RecoveryInv
    OBVIOUS
<1>1. 1 \in Pages
    BY Numbers
<1>2. /\ pages \in Seq(Pages) /\ Len(pages) = 1 /\ pages[1] = 1 /\ Listed = {1}
      /\ Distinct(pages)
    BY <1>1 DEF Init, Listed, Distinct
<1>3. Cardinality(Listed) = 1
    BY <1>2, FS_Singleton
<1>4. BudgetInv /\ count \in 0..(RecoveryMax + MaxPages)
    <2>1. Waiting = {}
        BY DEF Init, Waiting
    <2>2. Cardinality(Waiting) = 0 /\ count = 0
        BY <2>1, FS_EmptySet DEF Init
    <2>3. QED BY <2>2, RecoveryAssumption DEF BudgetInv
<1>5. RecoveryTypeOK
    <2>1. /\ fresh \in [Pages -> {"no", "loading", "crashed"}]
          /\ rec \in [Pages -> {"none", "waiting", "opening", "loading", "closing", "over"}]
          /\ outcome \in [Pages -> {"none", "recovered", "failed", "exhausted", "dropped"}]
          /\ cur \in [Pages -> Pages] /\ new \in [Pages -> Pages \cup {None}]
        BY DEF Init
    <2>2. /\ open \cup broken \subseteq 1..used /\ told \subseteq broken /\ used \in Pages
          /\ active \in Listed /\ Cardinality(Listed) = Len(pages)
        BY <1>1, <1>2, <1>3 DEF Init
    <2>3. QED BY <1>2, <1>4, <2>1, <2>2 DEF Init, RecoveryTypeOK
<1>6. WorkInv
    BY Numbers DEF Init, WorkInv, Running
<1>7. ListInv
    BY <1>2 DEF Init, ListInv
<1>8. FreshInv
    BY <1>2 DEF Init, FreshInv
<1>9. DeadPageInv
    BY DEF Init, DeadPageInv
<1>10. QED BY <1>4, <1>5, <1>6, <1>7, <1>8, <1>9 DEF RecoveryInv

(* A step that changes nothing of the session's pages.                      *)
LEMMA RecoveryStutters ==
    ASSUME RecoveryInv, UNCHANGED vars
    PROVE  RecoveryInv'
<1>1. Listed' = Listed /\ Waiting' = Waiting
    BY DEF vars, tabs, work, Listed, Waiting
<1>2. BudgetInv' /\ ListInv' /\ FreshInv' /\ WorkInv'
    BY <1>1 DEF RecoveryInv, BudgetInv, ListInv, FreshInv, Owns, WorkInv, vars, tabs, crashes, work,
        budget
<1>3. RecoveryTypeOK' /\ DeadPageInv'
    BY <1>1 DEF RecoveryInv, RecoveryTypeOK, DeadPageInv, Busy, vars, tabs, crashes, work,
        budget
<1>4. QED BY <1>2, <1>3 DEF RecoveryInv

(* No step of a crash, a recovery or a client disturbs it.                  *)
LEMMA RecoveryNext ==
    ASSUME RecoveryInv, Next
    PROVE  RecoveryInv'
<1>1. CASE QuietPasses \/ TabOpens \/ SessionCloses \/ GateBreaks
    BY <1>1, QuietPassesKeeps, TabOpensKeeps, SessionClosesKeeps, GateBreaksKeeps
<1>2. ASSUME NEW p \in Pages,
             RendererDies(p) \/ CrashReported(p) \/ TabCloses(p) \/ ClosePage(p)
             \/ SwitchPage(p) \/ ReplacementListed(p)
      PROVE  RecoveryInv'
    BY <1>2, RendererDiesKeeps, CrashReportedKeeps, TabClosesKeeps, ClosePageKeeps,
       SwitchPageKeeps, ReplacementListedKeeps
<1>3. ASSUME NEW r \in Pages, RecoveryStep(r) PROVE RecoveryInv'
    BY <1>3, AdmitKeeps, DropKeeps, DrainedKeeps, OpenReplacementKeeps, OpenFailsKeeps, LoadCrashedKeeps,
       LoadClosedKeeps, TakeSlotKeeps, SwappedKeeps DEF RecoveryStep
<1>4. QED BY <1>1, <1>2, <1>3 DEF Next

(* Only a session that closes, or whose gate is broken, leaves a crash      *)
(* without a word, and it takes calls no more.                              *)
LEMMA DropNext ==
    ASSUME RecoveryInv, DropInv, [Next]_vars
    PROVE  DropInv'
<1>1. CASE UNCHANGED vars
    BY <1>1 DEF DropInv, vars, work
<1>2. CASE QuietPasses \/ TabOpens \/ SessionCloses
    BY <1>2 DEF DropInv, QuietPasses, TabOpens, SessionCloses, work
<1>3. CASE GateBreaks
    BY <1>3 DEF DropInv, GateBreaks
<1>4. ASSUME NEW p \in Pages,
             RendererDies(p) \/ TabCloses(p) \/ ClosePage(p) \/ SwitchPage(p)
             \/ ReplacementListed(p)
      PROVE  DropInv'
    BY <1>4 DEF DropInv, RendererDies, TabCloses, ClosePage, SwitchPage, ReplacementListed,
       Closes, work
<1>5. ASSUME NEW p \in Pages, CrashReported(p) PROVE DropInv'
    BY <1>5 DEF DropInv, CrashReported, Schedule, Ends, work, RecoveryInv, RecoveryTypeOK
<1>6. ASSUME NEW r \in Pages, Drop(r) \/ Drained(r) PROVE DropInv'
    BY <1>6 DEF DropInv, Drop, Drained, Ends, RecoveryInv, RecoveryTypeOK
<1>7. ASSUME NEW r \in Pages,
             Admit(r) \/ OpenReplacement(r) \/ OpenFails(r) \/ TakeSlot(r)
      PROVE  DropInv'
    BY <1>7 DEF DropInv, Admit, OpenReplacement, OpenFails, TakeSlot, Ends, RecoveryInv,
       RecoveryTypeOK
<1>8. ASSUME NEW r \in Pages, LoadCrashed(r) \/ LoadClosed(r) \/ Swapped(r) PROVE DropInv'
    BY <1>8 DEF DropInv, LoadCrashed, LoadClosed, Swapped, Discard, Closes, Retry, Ends,
       RecoveryInv, RecoveryTypeOK
<1>9. QED BY <1>1, <1>2, <1>3, <1>4, <1>5, <1>6, <1>7, <1>8 DEF Next, RecoveryStep

(* The inductive invariant: the lease and the recovery at work, the list and*)
(* the slots, the replacements and whose they are, and the budget.          *)
THEOREM RecoveryInvariant == Spec => []RecoveryInv
<1>1. RecoveryInv /\ [Next]_vars => RecoveryInv'
    BY RecoveryNext, RecoveryStutters
<1>2. QED BY <1>1, RecoveryInit, PTL DEF Spec

(* A crashed page the list still names is being recovered, or the client has*)
(* been told, and no page is the business of two recoveries (_on_page_crash,*)
(* claim_replacement_crash, _replace_until_it_holds).                       *)
THEOREM CrashesRecoveredOnce == Spec => []EachCrashOneRecovery
<1>1. RecoveryInv => OneRecovery
    <2> SUFFICES ASSUME RecoveryInv,
                        NEW r \in Pages, NEW s \in Pages, Busy(r), Busy(s), r # s,
                        NEW p \in {cur[r], new[r]} \cap {cur[s], new[s]}
                 PROVE  p = None
        BY DEF OneRecovery
    <2>1. \A t \in Pages : rec[t] = "waiting" => cur[t] = t /\ new[t] = None /\ fresh[t] = "no"
        OBVIOUS
    <2>2. ASSUME NEW t \in Pages, NEW w \in Pages, t # w, rec[t] \in Running, rec[w] = "waiting",
                 p \in {cur[t], new[t]}, p \in {cur[w], new[w]}
          PROVE  p = None
        <3>1. p = w \/ p = None
            BY <2>1, <2>2
        <3>2. cur[t] # w
            BY <2>1, <2>2
        <3>3. new[t] # w
            BY <2>1, <2>2
        <3>4. QED BY <2>2, <3>1, <3>2, <3>3
    <2>3. ~(rec[r] \in Running /\ rec[s] \in Running)
        OBVIOUS
    <2>4. QED BY <2>1, <2>2, <2>3
<1>2. RecoveryInv /\ DropInv => NoSilentDeadPage
    BY DEF RecoveryInv, DeadPageInv, DropInv, NoSilentDeadPage
<1>3. RecoveryInv /\ DropInv => EachCrashOneRecovery
    BY <1>1, <1>2 DEF EachCrashOneRecovery, RecoveryInv
<1>4. Init => DropInv
    BY DEF Init, DropInv
<1>5. RecoveryInv /\ DropInv /\ [Next]_vars => DropInv'
    BY DropNext
<1>6. Spec => []DropInv
    BY <1>4, <1>5, RecoveryInvariant, PTL DEF Spec
<1>7. QED BY <1>3, <1>6, RecoveryInvariant, PTL

(* A recovery leaves every other page at its index (_take_dead_page_slot,   *)
(* _discard_replacement).                                                   *)
THEOREM SlotsStay == Spec => SlotsKept
<1>1. ASSUME RecoveryInv, NEW r \in Pages, RecoveryStep(r), NEW i \in 1..Len(pages),
             pages[i] # cur[r], \A j \in 1..i : pages[j] # new[r]
      PROVE  i \in 1..Len(pages') /\ pages'[i] = pages[i]
    <2>1. /\ pages \in Seq(Pages) /\ Distinct(pages)
          /\ cur[r] \in Pages /\ new[r] \in Pages \cup {None}
          /\ rec[r] = "loading" => new[r] \in Pages
        <3>1. /\ pages \in Seq(Pages) /\ Distinct(pages)
              /\ cur[r] \in Pages /\ new[r] \in Pages \cup {None}
            BY <1>1 DEF RecoveryInv, RecoveryTypeOK, ListInv
        <3>2. rec[r] = "loading" => new[r] # None
            BY <1>1 DEF RecoveryInv, WorkInv
        <3>3. QED BY <3>1, <3>2
    <2>2. CASE Admit(r) \/ Drop(r) \/ Drained(r) \/ OpenFails(r) \/ Swapped(r)
        BY <2>2 DEF Admit, Drop, Drained, OpenFails, Swapped, tabs
    <2>3. CASE OpenReplacement(r)
        <3>1. used + 1 \in Pages
            BY <1>1, <2>3, Opened DEF OpenReplacement
        <3>2. pages' \in {pages, Append(pages, used + 1)}
            BY <2>3 DEF OpenReplacement
        <3>3. CASE pages' = pages
            BY <3>3
        <3>4. CASE pages' = Append(pages, used + 1)
            BY <2>1, <3>1, <3>4, Appended
        <3>5. QED BY <3>2, <3>3, <3>4
    <2>4. CASE LoadCrashed(r) \/ LoadClosed(r)
        <3>1. pages' = Without(new[r])
            BY <2>4 DEF LoadCrashed, LoadClosed, Discard
        <3>2. QED BY <1>1, <2>1, <3>1, WithoutFacts
    <2>5. CASE TakeSlot(r)
        <3>1. cur[r] # new[r] /\ new[r] \in Pages
            BY <1>1, <2>1, <2>5 DEF TakeSlot, RecoveryInv, WorkInv
        <3>2. pages' = pages \/ pages' = Slot(cur[r], new[r])
            BY <2>5 DEF TakeSlot
        <3>3. QED BY SMTT(20), <1>1, <2>1, <3>1, <3>2, SlotFacts
    <2>6. QED BY <1>1, <2>2, <2>3, <2>4, <2>5 DEF RecoveryStep
<1> DEFINE Kept == \A r \in Pages :
              RecoveryStep(r) => \A i \in 1..Len(pages) :
                  (pages[i] # cur[r] /\ \A j \in 1..i : pages[j] # new[r])
                  => i \in 1..Len(pages') /\ pages'[i] = pages[i]
<1>2. RecoveryInv => Kept
    BY <1>1
<1>3. RecoveryInv => [Kept]_vars
    BY <1>2
<1> HIDE DEF Kept
<1>4. Spec => [][Kept]_vars
    BY <1>3, RecoveryInvariant, PTL
<1>5. QED BY <1>4 DEF Kept, SlotsKept

=============================================================================
