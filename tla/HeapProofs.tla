----------------------------- MODULE HeapProofs -----------------------------
(***************************************************************************)
(* Proofs about the kernel heap, for any page size, heap size, range of    *)
(* addresses and requests: a caller that keeps the six clauses of          *)
(* HeapContract sees an allocator.  The heap is a row of blocks and holes  *)
(* that tiles it; each operation lays a part of the row anew.              *)
(***************************************************************************)
EXTENDS HeapContract, FiniteSetTheorems, SequenceTheorems, WellFoundedInduction, TLAPS

-----------------------------------------------------------------------------
(* Pages and words *)

\* The assumptions on the constants, with the sizes of headers and footers.
LEMMA Layout ==
  /\ Page \in Nat /\ Page > 2 /\ Start \in Nat \ {0} /\ InitialSize \in Nat \ {0}
  /\ MinSize \in Nat /\ MaxAddr \in Nat /\ Word \in Nat
  /\ Start % Page = 0 /\ InitialSize % Page = 0 /\ MinSize % Page = 0
  /\ MinSize <= InitialSize /\ Start + InitialSize <= MaxAddr /\ 2 * MaxAddr < Word
  /\ Sizes \subseteq Nat /\ Aligns \subseteq BOOLEAN
  /\ Hdr = 1 /\ Ftr = 1 /\ Overhead = 2
  BY LayoutAssumption DEF Hdr, Ftr, Overhead

\* Quotient and remainder by the page size.
LEMMA DivMod ==
  ASSUME NEW a \in Int
  PROVE  /\ a \div Page \in Int /\ a % Page \in 0..(Page - 1)
         /\ a = Page * (a \div Page) + (a % Page)
<1>0. Page \in Nat /\ Page > 2
  BY Layout
<1>1. a \div Page \in Int
  BY <1>0
<1>2. a % Page \in 0..(Page - 1)
  BY <1>0
<1>3. a = Page * (a \div Page) + (a % Page)
  BY <1>0
<1>. QED BY <1>1, <1>2, <1>3, Zenon

\* A number is the sum of pages and a remainder in one way.
LEMMA ModUnique ==
  ASSUME NEW q \in Int, NEW r \in 0..(Page - 1), NEW a \in Int, a = Page * q + r
  PROVE  a % Page = r /\ a \div Page = q
<1>1. Page \in Nat /\ Page > 2
  BY Layout
<1>. QED BY <1>1

\* Pages add up.
LEMMA Distr ==
  ASSUME NEW a \in Int, NEW b \in Int
  PROVE  Page * a + Page * b = Page * (a + b) /\ Page * a \in Int
<1>1. Page \in Nat /\ Page > 2
  BY Layout
<1>. QED BY <1>1

\* A number of whole pages does not change an offset in its page.
LEMMA ModSum ==
  ASSUME NEW a \in Int, NEW b \in Int, b % Page = 0
  PROVE  (a + b) % Page = a % Page
<1>0. Page \in Nat /\ Page > 2
  BY Layout
<1>1. PICK q \in Int, r \in 0..(Page - 1) : a = Page * q + r /\ a % Page = r
  BY DivMod, Zenon
<1>2. PICK p \in Int : b = Page * p
  <2>1. b = Page * (b \div Page) + 0 /\ b \div Page \in Int
    BY DivMod, Zenon
  <2>. QED BY <2>1, Distr, <1>0
<1>3. a + b = Page * (q + p) + r
  BY <1>1, <1>2, Distr, <1>0
<1>4. (a + b) % Page = r
  BY <1>3, ModUnique
<1>. QED BY <1>1, <1>4

\* The difference of two page boundaries is one.
LEMMA ModDifference ==
  ASSUME NEW a \in Int, NEW b \in Int, a % Page = 0, b % Page = 0
  PROVE  (a - b) % Page = 0
<1>0. Page \in Nat /\ Page > 2
  BY Layout
<1>1. ((a - b) + b) % Page = (a - b) % Page
  BY ModSum
<1>2. (a - b) + b = a
  OBVIOUS
<1>. QED BY <1>1, <1>2

\* The first page boundary after a, and how far it is from the next cell.
LEMMA NextBoundary ==
  ASSUME NEW a \in Nat
  PROVE  /\ (a + (Page - (a % Page))) % Page = 0
         /\ a % Page < Page - 1 => (Page - (a + 1)) % Page = Page - (a % Page) - 1
<1>0. Page \in Nat /\ Page > 2
  BY Layout
<1>1. PICK q \in Int, r \in 0..(Page - 1) : a = Page * q + r /\ a % Page = r
  <2>1. a \in Int
    OBVIOUS
  <2>. QED BY <2>1, DivMod, Zenon
<1>2. a + (Page - r) = Page * (q + 1) + 0
  BY <1>1, Distr, <1>0
<1>3. (a + (Page - r)) % Page = 0
  BY <1>1, <1>2, ModUnique, <1>0
<1>4. ASSUME r < Page - 1  PROVE (Page - (a + 1)) % Page = Page - r - 1
  <2>1. Page - (a + 1) = Page * (0 - q) + (Page - r - 1)
    <3>1. Page * q + Page * (0 - q) = Page * 0
      BY Distr
    <3>2. Page * (0 - q) \in Int /\ Page * q \in Int /\ Page * 0 = 0
      BY Distr, <1>0
    <3>. QED BY <1>1, <3>1, <3>2, <1>0
  <2>2. Page - (a + 1) \in Int /\ Page - r - 1 \in 0..(Page - 1) /\ 0 - q \in Int
    BY <1>1, <1>4, <1>0
  <2>3. (Page - (a + 1)) % Page = Page - r - 1
    BY <2>1, <2>2, ModUnique
  <2>. QED BY <2>3
<1>. QED BY <1>1, <1>3, <1>4

\* Pages are ordered as their cells are, and a boundary begins a new one.
LEMMA PageOrder ==
  ASSUME NEW a \in Nat, NEW b \in Nat
  PROVE  /\ PageOf(a) \in Nat
         /\ a <= b => PageOf(a) <= PageOf(b)
         /\ a < b /\ b % Page = 0 => PageOf(a) < PageOf(b)
<1>0. Page \in Nat /\ Page > 2
  BY Layout
<1>1. a \div Page \in Nat
  BY <1>0
<1>2. a <= b => a \div Page <= b \div Page
  BY <1>0
<1>3. a < b /\ b % Page = 0 => a \div Page < b \div Page
  BY <1>0
<1>. QED BY <1>1, <1>2, <1>3 DEF PageOf

\* Where nothing wraps, arithmetic on words is that on numbers.
LEMMA WordFacts ==
  ASSUME NEW a \in Int
  PROVE  /\ a \in 0..(2 * MaxAddr) => a % Word = a
         /\ a \in 0..(MaxAddr - 1) => Signed(a) = a
<1>1. MaxAddr \in Nat /\ Word \in Nat /\ 2 * MaxAddr < Word
  BY Layout
<1>2. a \in 0..(2 * MaxAddr) => a % Word = a
  BY <1>1
<1>3. Word \div 2 >= MaxAddr /\ Word \div 2 \in Nat
  BY <1>1
<1>4. a \in 0..(MaxAddr - 1) => ~(a >= Word \div 2)
  BY <1>1, <1>3
<1>. QED BY <1>2, <1>4 DEF Signed

\* A difference that is not negative is the same on words.
LEMMA SubFacts ==
  ASSUME NEW a \in Int, NEW b \in Int, a - b \in 0..(2 * MaxAddr)
  PROVE  Sub(a, b) = a - b
  BY WordFacts DEF Sub

-----------------------------------------------------------------------------
(* Sequences of holes and cells of memory *)

\* No item occurs twice.
Distinct(s) == \A m, n \in 1..Len(s) : s[m] = s[n] => m = n

\* The range of a sequence, by its places.
LEMMA RangeFacts ==
  ASSUME NEW S, NEW s \in Seq(S)
  PROVE  Range(s) = {s[n] : n \in 1..Len(s)}
  BY DEF Range

\* What insert_ordered_array does to the places of a sequence.
LEMMA InsertFacts ==
  ASSUME NEW s \in Seq(Nat), NEW x \in Nat, NEW k \in 1..(Len(s) + 1),
         NEW t, t = InsertAt(s, k, x)
  PROVE  /\ t \in Seq(Nat) /\ Len(t) = Len(s) + 1
         /\ \A n \in 1..Len(t) : t[n] = IF n < k THEN s[n] ELSE IF n = k THEN x ELSE s[n - 1]
<1>1. Len(s) \in Nat /\ \A n \in 1..Len(s) : s[n] \in Nat
  BY EmptySeq, ElementOfSeq
<1>. DEFINE u == SubSeq(s, 1, k - 1)
            v == SubSeq(s, k, Len(s))
<1>2. u \in Seq(Nat) /\ Len(u) = k - 1 /\ \A n \in 1..(k - 1) : u[n] = s[n]
  <2>1. 1 \in Int /\ k - 1 \in Int /\ \A n \in 1..(k - 1) : s[n] \in Nat
    BY <1>1
  <2>2. /\ u \in Seq(Nat) /\ Len(u) = IF 1 <= k - 1 THEN (k - 1) - 1 + 1 ELSE 0
        /\ \A n \in 1..((k - 1) - 1 + 1) : u[n] = s[1 + n - 1]
    BY ONLY <2>1, SubSeqProperties DEF u
  <2>3. k \in Nat /\ k >= 1 /\ (k - 1) - 1 + 1 = k - 1
    BY <1>1
  <2>4. \A n \in 1..(k - 1) : 1 + n - 1 = n
    BY <2>3
  <2>. HIDE DEF u
  <2>. QED BY <2>2, <2>3, <2>4
<1>3. /\ v \in Seq(Nat) /\ Len(v) = Len(s) - k + 1
      /\ \A n \in 1..(Len(s) - k + 1) : v[n] = s[k + n - 1]
  <2>1. k \in Int /\ Len(s) \in Int /\ \A n \in k..Len(s) : s[n] \in Nat
    BY <1>1
  <2>2. /\ v \in Seq(Nat) /\ Len(v) = IF k <= Len(s) THEN Len(s) - k + 1 ELSE 0
        /\ \A n \in 1..(Len(s) - k + 1) : v[n] = s[k + n - 1]
    BY ONLY <2>1, SubSeqProperties DEF v
  <2>3. k \in Nat /\ k <= Len(s) + 1
    BY <1>1
  <2>. HIDE DEF v
  <2>. QED BY <1>1, <2>2, <2>3
<1>4. t = (u \o <<x>>) \o v
  BY DEF InsertAt
<1>. HIDE DEF u, v
<1>5. u \o <<x>> \in Seq(Nat) /\ Len(u \o <<x>>) = k
      /\ \A n \in 1..k : (u \o <<x>>)[n] = IF n < k THEN s[n] ELSE x
  BY <1>1, <1>2, ConcatProperties
<1>. DEFINE w == u \o <<x>>
<1>. HIDE DEF w
<1>6. w \in Seq(Nat) /\ Len(w) = k /\ t = w \o v /\ \A n \in 1..k : w[n] = IF n < k THEN s[n] ELSE x
  BY <1>4, <1>5 DEF w
<1>7. /\ t \in Seq(Nat) /\ Len(t) = Len(w) + Len(v)
      /\ \A n \in 1..(Len(w) + Len(v)) : t[n] = IF n <= Len(w) THEN w[n] ELSE v[n - Len(w)]
  <2>1. w \in Seq(Nat) /\ v \in Seq(Nat) /\ t = w \o v
    BY <1>3, <1>6
  <2>2. /\ w \o v \in Seq(Nat) /\ Len(w \o v) = Len(w) + Len(v)
        /\ \A n \in 1..(Len(w) + Len(v)) :
             (w \o v)[n] = IF n <= Len(w) THEN w[n] ELSE v[n - Len(w)]
    BY ONLY <2>1, ConcatProperties
  <2>. QED BY ONLY <2>1, <2>2
<1>8. Len(t) = Len(s) + 1
  BY <1>1, <1>3, <1>6, <1>7
<1>9. ASSUME NEW n \in 1..Len(t)
      PROVE  t[n] = IF n < k THEN s[n] ELSE IF n = k THEN x ELSE s[n - 1]
  <2>1. CASE n <= k
    BY <1>1, <1>3, <1>6, <1>7, <1>8, <2>1
  <2>2. CASE ~(n <= k)
    <3>1. n - k \in 1..(Len(s) - k + 1) /\ k + (n - k) - 1 = n - 1
      BY <1>1, <1>8, <2>2
    <3>2. v[n - k] = s[n - 1]
      BY <1>3, <3>1
    <3>3. n \in 1..(Len(w) + Len(v)) /\ ~(n <= Len(w)) /\ Len(w) = k /\ n # k /\ ~(n < k)
      BY <1>1, <1>3, <1>6, <1>8, <2>2
    <3>4. t[n] = v[n - k]
      BY <1>7, <3>3
    <3>. QED BY <3>2, <3>3, <3>4
  <2>. QED BY <2>1, <2>2
<1>. QED BY <1>7, <1>8, <1>9

\* What remove_ordered_array does to them.
LEMMA RemoveFacts ==
  ASSUME NEW s \in Seq(Nat), NEW k \in 1..Len(s), NEW t, t = RemoveAt(s, k)
  PROVE  /\ t \in Seq(Nat) /\ Len(t) = Len(s) - 1
         /\ \A n \in 1..Len(t) : t[n] = IF n < k THEN s[n] ELSE s[n + 1]
<1>1. Len(s) \in Nat /\ \A n \in 1..Len(s) : s[n] \in Nat
  BY EmptySeq, ElementOfSeq
<1>. DEFINE u == SubSeq(s, 1, k - 1)
            v == SubSeq(s, k + 1, Len(s))
<1>2. u \in Seq(Nat) /\ Len(u) = k - 1 /\ \A n \in 1..(k - 1) : u[n] = s[n]
  <2>1. 1 \in Int /\ k - 1 \in Int /\ \A n \in 1..(k - 1) : s[n] \in Nat
    BY <1>1
  <2>2. /\ u \in Seq(Nat) /\ Len(u) = IF 1 <= k - 1 THEN (k - 1) - 1 + 1 ELSE 0
        /\ \A n \in 1..((k - 1) - 1 + 1) : u[n] = s[1 + n - 1]
    BY ONLY <2>1, SubSeqProperties DEF u
  <2>3. k \in Nat /\ k >= 1 /\ (k - 1) - 1 + 1 = k - 1
    BY <1>1
  <2>4. \A n \in 1..(k - 1) : 1 + n - 1 = n
    BY <2>3
  <2>. HIDE DEF u
  <2>. QED BY <2>2, <2>3, <2>4
<1>3. v \in Seq(Nat) /\ Len(v) = Len(s) - k /\ \A n \in 1..(Len(s) - k) : v[n] = s[k + n]
  <2>1. k + 1 \in Int /\ Len(s) \in Int /\ \A n \in (k + 1)..Len(s) : s[n] \in Nat
    BY <1>1
  <2>2. /\ v \in Seq(Nat) /\ Len(v) = IF k + 1 <= Len(s) THEN Len(s) - (k + 1) + 1 ELSE 0
        /\ \A n \in 1..(Len(s) - (k + 1) + 1) : v[n] = s[(k + 1) + n - 1]
    BY ONLY <2>1, SubSeqProperties DEF v
  <2>3. k \in Nat /\ k <= Len(s) /\ Len(s) - (k + 1) + 1 = Len(s) - k
    BY <1>1
  <2>. HIDE DEF v
  <2>4. ASSUME NEW n \in 1..(Len(s) - k) PROVE v[n] = s[k + n]
    <3>1. v[n] = s[(k + 1) + n - 1]
      BY <2>2, <2>3
    <3>2. (k + 1) + n - 1 = k + n
      BY <1>1, <2>3
    <3>. QED BY <3>1, <3>2
  <2>5. Len(v) = Len(s) - k
    <3>1. CASE k + 1 <= Len(s)
      BY <2>2, <2>3, <3>1
    <3>2. CASE k = Len(s)
      <4>1. ~(k + 1 <= Len(s)) /\ Len(s) - k = 0
        BY <2>3, <3>2
      <4>. QED BY <2>2, <4>1
    <3>3. k \in Nat /\ Len(s) \in Nat /\ k <= Len(s)
      BY <1>1, <2>3
    <3>4. k + 1 <= Len(s) \/ k = Len(s)
      BY ONLY <3>3
    <3>. QED BY ONLY <3>1, <3>2, <3>4
  <2>. QED BY <2>2, <2>4, <2>5
<1>4. t = u \o v
  BY DEF RemoveAt
<1>. HIDE DEF u, v
<1>5. /\ t \in Seq(Nat) /\ Len(t) = Len(u) + Len(v)
      /\ \A n \in 1..(Len(u) + Len(v)) : t[n] = IF n <= Len(u) THEN u[n] ELSE v[n - Len(u)]
  <2>1. u \in Seq(Nat) /\ v \in Seq(Nat)
    BY <1>2, <1>3
  <2>2. /\ u \o v \in Seq(Nat) /\ Len(u \o v) = Len(u) + Len(v)
        /\ \A n \in 1..(Len(u) + Len(v)) :
             (u \o v)[n] = IF n <= Len(u) THEN u[n] ELSE v[n - Len(u)]
    BY ONLY <2>1, ConcatProperties
  <2>. QED BY ONLY <1>4, <2>2
<1>6. Len(t) = Len(s) - 1
  BY <1>1, <1>2, <1>3, <1>5
<1>7. ASSUME NEW n \in 1..Len(t)
      PROVE  t[n] = IF n < k THEN s[n] ELSE s[n + 1]
  <2>1. CASE n < k
    BY <1>1, <1>2, <1>3, <1>5, <1>6, <2>1
  <2>2. CASE ~(n < k)
    <3>1. n - (k - 1) \in 1..(Len(s) - k) /\ k + (n - (k - 1)) = n + 1
      BY <1>1, <1>6, <2>2
    <3>2. v[n - (k - 1)] = s[n + 1]
      BY <1>3, <3>1
    <3>. QED BY <1>1, <1>2, <1>3, <1>5, <1>6, <2>2, <3>2
  <2>. QED BY <2>1, <2>2
<1>. QED BY <1>5, <1>6, <1>7

\* A set of numbers that is not empty has a least one.
LEMMA LeastElement ==
  ASSUME NEW S \in SUBSET Nat, S # {}
  PROVE  \E x \in S : \A y \in S : x <= y
<1>1. PICK x \in S : \A y \in S : ~ (<<y, x>> \in OpToRel(<, Nat))
  BY NatLessThanWellFounded, WFMin
<1>2. ASSUME NEW y \in S PROVE x <= y
  <2>1. ~(y < x)
    BY <1>1 DEF OpToRel
  <2>. QED BY <2>1
<1>. QED BY <1>2

\* If it is bounded, it has a greatest one.
LEMMA GreatestElement ==
  ASSUME NEW n \in Nat, NEW S \in SUBSET (0..n), S # {}
  PROVE  \E x \in S : \A y \in S : y <= x
<1>. DEFINE T == {n - x : x \in S}
<1>0. \A y \in S : y \in 0..n
  OBVIOUS
<1>1. T \in SUBSET Nat /\ T # {}
  <2>1. \A y \in S : n - y \in Nat
    BY <1>0
  <2>. QED BY <2>1
<1>2. PICK t \in T : \A y \in T : t <= y
  BY <1>1, LeastElement
<1>3. PICK x \in S : t = n - x
  OBVIOUS
<1>4. ASSUME NEW y \in S PROVE y <= x
  <2>1. n - y \in T
    OBVIOUS
  <2>2. n - x <= n - y
    BY <1>2, <1>3, <2>1
  <2>. QED BY <1>0, <2>2
<1>. QED BY <1>4

\* What the three changes of the index do to the holes it lists.
Lists(s, S) == s \in Seq(Nat) /\ Distinct(s) /\ Range(s) = S

\* What it means for a list to name the members of a set once each.
LEMMA ListsFacts ==
  ASSUME NEW s, NEW S, Lists(s, S)
  PROVE  /\ S \subseteq Nat /\ Len(s) \in Nat /\ s \in Seq(Nat)
         /\ \A n \in 1..Len(s) : s[n] \in S
         /\ \A x \in S : \E n \in 1..Len(s) : s[n] = x
         /\ s = <<>> <=> S = {}
         /\ s # <<>> => Head(s) = s[1] /\ 1 \in 1..Len(s)
<1>1. s \in Seq(Nat) /\ S = {s[n] : n \in 1..Len(s)}
  BY RangeFacts DEF Lists
<1>2. Len(s) \in Nat /\ (s = <<>> <=> Len(s) = 0) /\ \A n \in 1..Len(s) : s[n] \in Nat
  BY <1>1, EmptySeq, ElementOfSeq, LenProperties
<1>3. s # <<>> => Head(s) = s[1] /\ 1 \in 1..Len(s)
  BY <1>1, <1>2, HeadTailProperties
<1>4. ASSUME s = <<>> PROVE S = {}
  BY <1>1, <1>2, <1>4
<1>5. ASSUME s # <<>> PROVE S # {}
  BY <1>1, <1>3, <1>5
<1>. QED BY <1>1, <1>2, <1>3, <1>4, <1>5

\* The index with a hole put in.
LEMMA InsertedLists ==
  ASSUME NEW s, NEW S, Lists(s, S), NEW x \in Nat, x \notin S, NEW key
  PROVE  Lists(Inserted(s, x, key), S \cup {x})
<1>1. /\ S \subseteq Nat /\ Len(s) \in Nat /\ s \in Seq(Nat)
      /\ \A n \in 1..Len(s) : s[n] \in S
      /\ \A y \in S : \E n \in 1..Len(s) : s[n] = y
      /\ \A m, n \in 1..Len(s) : s[m] = s[n] => m = n
  BY ListsFacts DEF Lists, Distinct
<1>. DEFINE P == {i \in 1..Len(s) : \A j \in 1..i : key[s[j]] < key[x]}
            k == Passed(s, x, key) + 1
            t == Inserted(s, x, key)
<1>2. k \in 1..(Len(s) + 1)
  <2>1. IsFiniteSet(1..Len(s)) /\ Cardinality(1..Len(s)) = Len(s)
    <3>1. 1 \in Int /\ Len(s) \in Int /\ Len(s) \in Nat
      BY <1>1
    <3>2. /\ IsFiniteSet(1..Len(s))
          /\ Cardinality(1..Len(s)) = IF 1 > Len(s) THEN 0 ELSE Len(s) - 1 + 1
      BY ONLY <3>1, FS_Interval
    <3>. QED BY ONLY <3>1, <3>2
  <2>2. Cardinality(P) \in Nat /\ Cardinality(P) <= Len(s)
    <3>1. P \in SUBSET (1..Len(s))
      OBVIOUS
    <3>. HIDE DEF P
    <3>2. IsFiniteSet(P) /\ Cardinality(P) <= Cardinality(1..Len(s))
      BY <2>1, <3>1, FS_Subset
    <3>. QED BY <2>1, <3>2, FS_CardinalityType
  <2>. QED BY <1>1, <2>2 DEF Passed
<1>3. t = InsertAt(s, k, x)
  BY DEF Inserted
<1>. HIDE DEF k, t, P
<1>4. /\ t \in Seq(Nat) /\ Len(t) = Len(s) + 1
      /\ \A n \in 1..Len(t) : t[n] = IF n < k THEN s[n] ELSE IF n = k THEN x ELSE s[n - 1]
  <2>1. s \in Seq(Nat) /\ x \in Nat /\ k \in 1..(Len(s) + 1) /\ t = InsertAt(s, k, x)
    BY <1>1, <1>2, <1>3
  <2>. QED BY <2>1, InsertFacts
<1>5. ASSUME NEW n \in 1..Len(t) PROVE t[n] \in S \cup {x}
  <2>1. n < k => n \in 1..Len(s)
    BY <1>1, <1>2, <1>4
  <2>2. n > k => n - 1 \in 1..Len(s)
    BY <1>1, <1>2, <1>4
  <2>3. t[n] = IF n < k THEN s[n] ELSE IF n = k THEN x ELSE s[n - 1]
    BY <1>4
  <2>4. n \in Nat /\ k \in Nat
    BY <1>1, <1>2, <1>4
  <2>. QED BY <1>1, <2>1, <2>2, <2>3, <2>4
<1>6. ASSUME NEW y \in S \cup {x} PROVE \E n \in 1..Len(t) : t[n] = y
  <2>1. CASE y = x
    <3>1. k \in 1..Len(t) /\ t[k] = x
      BY <1>1, <1>2, <1>4
    <3>. QED BY <2>1, <3>1
  <2>2. CASE y \in S
    <3>1. PICK n \in 1..Len(s) : s[n] = y
      BY <1>1, <2>2
    <3>2. CASE n < k
      <4>1. n \in 1..Len(t) /\ t[n] = y
        BY <1>1, <1>2, <1>4, <3>1, <3>2
      <4>. QED BY <4>1
    <3>3. CASE ~(n < k)
      <4>1. n + 1 \in 1..Len(t) /\ n + 1 > k /\ (n + 1) - 1 = n
        BY <1>1, <1>2, <1>4, <3>1, <3>3
      <4>2. t[n + 1] = y
        BY <1>2, <1>4, <3>1, <4>1
      <4>. QED BY <4>1, <4>2
    <3>. QED BY <3>2, <3>3
  <2>. QED BY <2>1, <2>2
<1>7. ASSUME NEW m \in 1..Len(t), NEW n \in 1..Len(t), t[m] = t[n], m < n PROVE FALSE
  <2>1. m \in Nat /\ n \in Nat /\ k \in Nat /\ m <= Len(s) + 1 /\ n <= Len(s) + 1 /\ m >= 1
    BY <1>1, <1>2, <1>4
  <2>. DEFINE old(i) == IF i < k THEN i ELSE i - 1
  <2>2. \A i \in 1..Len(t) : i # k => old(i) \in 1..Len(s) /\ t[i] = s[old(i)] /\ t[i] # x
    <3>1. SUFFICES ASSUME NEW i \in 1..Len(t), i # k
                   PROVE  old(i) \in 1..Len(s) /\ t[i] = s[old(i)] /\ t[i] # x
      OBVIOUS
    <3>2. old(i) \in 1..Len(s) /\ t[i] = s[old(i)]
      <4>1. i \in Nat /\ i >= 1 /\ i <= Len(s) + 1 /\ k \in 1..(Len(s) + 1) /\ Len(s) \in Nat
        BY <1>1, <1>2, <1>4, <3>1
      <4>2. t[i] = IF i < k THEN s[i] ELSE IF i = k THEN x ELSE s[i - 1]
        BY <1>4, <3>1
      <4>. QED BY ONLY <3>1, <4>1, <4>2
    <3>3. s[old(i)] \in S
      BY <1>1, <3>2
    <3>. QED BY <3>2, <3>3
  <2>3. t[k] = x /\ k \in 1..Len(t)
    BY <1>1, <1>2, <1>4
  <2>4. m # k /\ n # k
    <3>1. CASE m = k
      BY <1>7, <2>1, <2>2, <2>3, <3>1
    <3>2. CASE n = k
      BY <1>7, <2>1, <2>2, <2>3, <3>2
    <3>. QED BY <3>1, <3>2
  <2>5. old(m) = old(n)
    <3>1. /\ old(m) \in 1..Len(s) /\ t[m] = s[old(m)]
          /\ old(n) \in 1..Len(s) /\ t[n] = s[old(n)]
      BY <2>2, <2>4
    <3>. HIDE DEF old
    <3>. QED BY <1>1, <1>7, <3>1
  <2>. QED BY <1>7, <2>1, <2>4, <2>5
<1>8. Distinct(t)
  BY <1>4, <1>7 DEF Distinct
<1>9. Range(t) = S \cup {x}
  <2>1. Range(t) = {t[n] : n \in 1..Len(t)}
    BY <1>4, RangeFacts
  <2>. QED BY <1>5, <1>6, <2>1
<1>. QED BY <1>4, <1>8, <1>9 DEF Lists, t

\* An item left out at any place.
LEMMA WithoutLists ==
  ASSUME NEW s, NEW S, Lists(s, S), NEW k \in 1..Len(s), NEW t, t \in Seq(Nat),
         Len(t) = Len(s) - 1, \A n \in 1..Len(t) : t[n] = IF n < k THEN s[n] ELSE s[n + 1]
  PROVE  Lists(t, S \ {s[k]})
<1>1. /\ S \subseteq Nat /\ Len(s) \in Nat /\ s \in Seq(Nat)
      /\ \A n \in 1..Len(s) : s[n] \in S
      /\ \A y \in S : \E n \in 1..Len(s) : s[n] = y
      /\ \A m, n \in 1..Len(s) : s[m] = s[n] => m = n
  BY ListsFacts DEF Lists, Distinct
<1>. DEFINE old(i) == IF i < k THEN i ELSE i + 1
<1>2. ASSUME NEW n \in 1..Len(t)
      PROVE  old(n) \in 1..Len(s) /\ t[n] = s[old(n)] /\ t[n] \in S \ {s[k]}
  <2>1. old(n) \in 1..Len(s) /\ old(n) # k /\ t[n] = s[old(n)]
    <3>1. n \in Nat /\ n >= 1 /\ n <= Len(s) - 1 /\ k \in 1..Len(s) /\ Len(s) \in Nat
      BY <1>1
    <3>2. t[n] = IF n < k THEN s[n] ELSE s[n + 1]
      OBVIOUS
    <3>. QED BY ONLY <3>1, <3>2
  <2>. HIDE DEF old
  <2>. QED BY <1>1, <2>1
<1>3. ASSUME NEW y \in S \ {s[k]} PROVE \E n \in 1..Len(t) : t[n] = y
  <2>1. PICK i \in 1..Len(s) : s[i] = y /\ i # k
    BY <1>1
  <2>2. CASE i < k
    <3>1. i \in 1..Len(t) /\ t[i] = y
      BY <1>1, <2>1, <2>2
    <3>. QED BY <3>1
  <2>3. CASE ~(i < k)
    <3>1. i - 1 \in 1..Len(t) /\ ~(i - 1 < k) /\ (i - 1) + 1 = i
      BY <1>1, <2>1, <2>3
    <3>2. t[i - 1] = y
      BY <2>1, <3>1
    <3>. QED BY <3>1, <3>2
  <2>. QED BY <2>2, <2>3
<1>4. ASSUME NEW m \in 1..Len(t), NEW n \in 1..Len(t), t[m] = t[n] PROVE m = n
  <2>1. old(m) = old(n)
    <3>1. old(m) \in 1..Len(s) /\ t[m] = s[old(m)]
      BY <1>2
    <3>2. old(n) \in 1..Len(s) /\ t[n] = s[old(n)]
      BY <1>2
    <3>. HIDE DEF old
    <3>. QED BY ONLY <1>1, <1>4, <3>1, <3>2
  <2>2. m \in Nat /\ n \in Nat /\ k \in Nat
    BY <1>1
  <2>. QED BY <2>1, <2>2
<1>5. Range(t) = S \ {s[k]}
  <2>1. Range(t) = {t[n] : n \in 1..Len(t)}
    BY RangeFacts
  <2>. HIDE DEF old
  <2>. QED BY <1>2, <1>3, <2>1
<1>. QED BY <1>4, <1>5 DEF Lists, Distinct

\* The index with a hole taken out.
LEMMA RemovedLists ==
  ASSUME NEW s, NEW S, Lists(s, S), NEW x \in S
  PROVE  Lists(Removed(s, x), S \ {x})
<1>1. /\ Len(s) \in Nat /\ s \in Seq(Nat) /\ \E n \in 1..Len(s) : s[n] = x
  BY ListsFacts
<1>. DEFINE I == {i \in 1..Len(s) : s[i] = x}
<1>2. PICK k \in I : k = Min(I)
  <2>1. I \in SUBSET Nat /\ I # {}
    BY <1>1
  <2>2. \E i \in I : \A j \in I : i <= j
    BY <2>1, LeastElement
  <2>. QED BY <2>2 DEF Min
<1>3. Removed(s, x) = RemoveAt(s, k)
  BY <1>1, <1>2 DEF Removed, RemoveFirst, SelectInSeq
<1>4. k \in 1..Len(s) /\ s[k] = x
  BY <1>2
<1>. DEFINE t == Removed(s, x)
<1>. HIDE DEF t
<1>5. t = RemoveAt(s, k)
  BY <1>3 DEF t
<1>6. /\ t \in Seq(Nat) /\ Len(t) = Len(s) - 1
      /\ \A n \in 1..Len(t) : t[n] = IF n < k THEN s[n] ELSE s[n + 1]
  <2>1. s \in Seq(Nat) /\ k \in 1..Len(s) /\ t = RemoveAt(s, k)
    BY <1>1, <1>4, <1>5
  <2>. QED BY ONLY <2>1, RemoveFacts
<1>7. Lists(t, S \ {s[k]})
  BY <1>4, <1>6, WithoutLists
<1>. QED BY <1>4, <1>7 DEF t

\* The index without its first hole.
LEMMA TailLists ==
  ASSUME NEW s, NEW S, Lists(s, S), s # <<>>
  PROVE  Lists(Tail(s), S \ {Head(s)})
<1>1. s \in Seq(Nat) /\ Len(s) \in Nat /\ Head(s) = s[1] /\ 1 \in 1..Len(s)
  BY ListsFacts
<1>2. /\ Tail(s) \in Seq(Nat) /\ Len(Tail(s)) = Len(s) - 1
      /\ \A n \in 1..Len(Tail(s)) : Tail(s)[n] = s[n + 1]
  BY <1>1, HeadTailProperties
<1>. DEFINE t == Tail(s)
<1>. HIDE DEF t
<1>3. /\ t \in Seq(Nat) /\ Len(t) = Len(s) - 1
      /\ \A n \in 1..Len(t) : t[n] = IF n < 1 THEN s[n] ELSE s[n + 1]
  BY <1>1, <1>2 DEF t
<1>4. Lists(t, S \ {s[1]})
  BY <1>1, <1>3, WithoutLists
<1>. QED BY <1>1, <1>4 DEF t

-----------------------------------------------------------------------------
(* Memory as a row of blocks and holes *)

\* Writing one cell of memory.
LEMMA PutFacts ==
  ASSUME NEW m, DOMAIN m = Addr, NEW a, NEW c
  PROVE  /\ DOMAIN Put(m, a, c) = Addr
         /\ \A x \in Addr : Put(m, a, c)[x] = IF x = a THEN c ELSE m[x]
  BY DEF Put

\* At a begins a block or a hole, and the next place of B is where it ends.
Tile(m, B, a) ==
  /\ m[a].size \in Nat /\ m[a].size >= 2
  /\ m[a] \in {Hole(m[a].size), Block(m[a].size)}
  /\ a + m[a].size \in B
  /\ \A b \in B : b <= a \/ a + m[a].size <= b

\* Its last cell is its footer.
Footed(m, a) == m[a + m[a].size - 1] = Footer(a)

\* B are the places where blocks and holes begin, and the end e.  The hole of
\* create_heap has no footer until the heap grows or the hole is cut.
Tiling(m, B, e) ==
  /\ B \subseteq Start..e /\ Start \in B /\ e \in B
  /\ \A a \in B \ {e} :
       Tile(m, B, a) /\ (Footed(m, a) \/ (m[a].is_hole /\ a + m[a].size = e))

\* A part of the row, from lo to hi, is laid anew: nothing outside of it changes,
Outside(m, B, e, n, C, lo, hi) ==
  /\ \A b \in Nat : b < lo \/ hi <= b => (b \in B <=> b \in C)
  /\ \A a \in Nat : Start <= a /\ (a < lo \/ (hi <= a /\ a < e)) => n[a] = m[a]

\* and inside of it are blocks and holes with footers.
Inside(n, C, f, lo, hi) ==
  \A a \in C : lo <= a /\ a < hi /\ a # f =>
    /\ n[a].size \in Nat /\ n[a].size >= 2
    /\ n[a] \in {Hole(n[a].size), Block(n[a].size)}
    /\ Footed(n, a) /\ a + n[a].size \in C /\ a + n[a].size <= hi
    /\ \A b \in C : lo <= b /\ b < hi => b <= a \/ a + n[a].size <= b

\* Only the part behind lo may end elsewhere; what is before it has its footers.
Ends(m, B, e, f, lo, hi) ==
  \/ hi \in B /\ f = e
  \/ hi > e /\ hi > f /\ \A a \in B \ {e} : a < lo => Footed(m, a)

\* Every place of a row lies between the start of the heap and its end.
LEMMA TilingFacts ==
  ASSUME NEW m, NEW B, NEW e \in Nat, Tiling(m, B, e)
  PROVE  /\ Start \in Nat /\ Start \in B /\ e \in B /\ Start <= e
         /\ \A b \in B : b \in Nat /\ Start <= b /\ b <= e
  BY Layout DEF Tiling

\* A block or hole of a row, and where the next one begins.
LEMMA TileFacts ==
  ASSUME NEW m, NEW B, NEW e \in Nat, Tiling(m, B, e), NEW a \in B \ {e}
  PROVE  /\ a \in Nat /\ a < e /\ Tile(m, B, a)
         /\ Footed(m, a) \/ (m[a].is_hole /\ a + m[a].size = e)
         /\ m[a].size \in Nat /\ m[a].size >= 2 /\ a + m[a].size \in B
         /\ a + m[a].size \in Nat /\ a + m[a].size <= e
         /\ m[a] \in {Hole(m[a].size), Block(m[a].size)}
         /\ \A b \in B : b <= a \/ a + m[a].size <= b
<1>1. Tile(m, B, a) /\ (Footed(m, a) \/ (m[a].is_hole /\ a + m[a].size = e))
  BY DEF Tiling
<1>2. a \in Nat /\ a <= e /\ a # e
  BY TilingFacts
<1>3. /\ m[a].size \in Nat /\ m[a].size >= 2 /\ a + m[a].size \in B
      /\ m[a] \in {Hole(m[a].size), Block(m[a].size)}
      /\ \A b \in B : b <= a \/ a + m[a].size <= b
  BY <1>1 DEF Tile
<1>4. a + m[a].size \in Nat /\ a + m[a].size <= e
  BY <1>3, TilingFacts
<1>. QED BY <1>1, <1>2, <1>3, <1>4

\* A row of which one part is laid anew, with footers, is a row.
LEMMA Repave ==
  ASSUME NEW m, NEW B, NEW e \in Nat, Tiling(m, B, e), NEW n, NEW C, NEW f \in Nat,
         NEW lo \in B, NEW hi \in Nat, lo < hi, Ends(m, B, e, f, lo, hi),
         C \subseteq Start..f, lo \in C, f \in C,
         Outside(m, B, e, n, C, lo, hi), Inside(n, C, f, lo, hi)
  PROVE  Tiling(n, C, f)
<1>1. /\ Start \in Nat /\ lo \in Nat /\ Start <= lo /\ Start \in B
      /\ \A b \in C : b \in Nat /\ Start <= b /\ b <= f
  BY TilingFacts
<1>2. \A b \in Nat : b < lo \/ hi <= b => (b \in B <=> b \in C)
  BY DEF Outside
<1>3. \A a \in Nat : Start <= a /\ (a < lo \/ (hi <= a /\ a < e)) => n[a] = m[a]
  BY DEF Outside
<1>4. Start \in C
  BY <1>1, <1>2
<1>5. ASSUME NEW a \in C \ {f}
      PROVE  Tile(n, C, a) /\ (Footed(n, a) \/ (n[a].is_hole /\ a + n[a].size = f))
  <2>1. CASE a < lo
    <3>0. a \in Nat /\ a \in B
      BY ONLY <1>1, <1>2, <1>5, <2>1
    <3>1. a \in B \ {e}
      BY ONLY <1>1, <2>1, <3>0, TilingFacts, Tiling(m, B, e), lo \in B, e \in Nat
    <3>2. /\ Footed(m, a) \/ (m[a].is_hole /\ a + m[a].size = e)
          /\ m[a].size \in Nat /\ m[a].size >= 2 /\ a + m[a].size \in B
          /\ m[a] \in {Hole(m[a].size), Block(m[a].size)}
          /\ \A b \in B : b <= a \/ a + m[a].size <= b
      BY <3>1, TileFacts
    <3>3. a + m[a].size <= lo /\ n[a] = m[a]
      <4>1. lo <= a \/ a + m[a].size <= lo
        BY <3>2
      <4>2. Start <= a
        BY <1>1, <1>5
      <4>. QED BY ONLY <1>1, <1>3, <2>1, <3>0, <4>1, <4>2
    <3>4. n[a + m[a].size - 1] = m[a + m[a].size - 1]
      <4>1. a + m[a].size - 1 \in Nat /\ Start <= a + m[a].size - 1 /\ a + m[a].size - 1 < lo
        <5>1. Start <= a
          BY <1>1, <1>5
        <5>. QED BY ONLY <1>1, <3>0, <3>2, <3>3, <5>1
      <4>. QED BY ONLY <1>3, <4>1
    <3>5. a + m[a].size \in C
      <4>1. a + m[a].size \in Nat
        BY ONLY <3>0, <3>2
      <4>2. CASE a + m[a].size < lo
        BY ONLY <1>2, <3>2, <4>1, <4>2
      <4>3. CASE a + m[a].size = lo
        BY <4>3
      <4>. QED BY ONLY <1>1, <3>3, <4>1, <4>2, <4>3
    <3>6. ASSUME NEW b \in C PROVE b <= a \/ a + m[a].size <= b
      <4>1. b \in Nat
        BY ONLY <1>1, <3>6
      <4>2. CASE b < lo
        <5>1. b \in B
          BY ONLY <1>2, <3>6, <4>1, <4>2
        <5>. QED BY ONLY <3>2, <5>1
      <4>3. CASE ~(b < lo)
        BY ONLY <1>1, <3>0, <3>2, <3>3, <4>1, <4>3
      <4>. QED BY <4>2, <4>3
    <3>7. Tile(n, C, a)
      BY ONLY <3>2, <3>3, <3>5, <3>6 DEF Tile
    <3>8. Footed(m, a) => Footed(n, a)
      BY ONLY <3>3, <3>4 DEF Footed
    <3>9. CASE hi \in B /\ f = e
      BY ONLY <3>2, <3>3, <3>7, <3>8, <3>9
    <3>10. CASE \A x \in B \ {e} : x < lo => Footed(m, x)
      BY ONLY <2>1, <3>1, <3>7, <3>8, <3>10
    <3>. QED BY <3>9, <3>10 DEF Ends
  <2>2. CASE lo <= a /\ a < hi
    <3>1. /\ n[a].size \in Nat /\ n[a].size >= 2
          /\ n[a] \in {Hole(n[a].size), Block(n[a].size)}
          /\ Footed(n, a) /\ a + n[a].size \in C /\ a + n[a].size <= hi
          /\ \A b \in C : lo <= b /\ b < hi => b <= a \/ a + n[a].size <= b
      BY <1>5, <2>2 DEF Inside
    <3>2. ASSUME NEW b \in C PROVE b <= a \/ a + n[a].size <= b
      <4>1. b \in Nat /\ a \in Nat
        BY ONLY <1>1, <1>5, <3>2
      <4>2. lo <= b /\ b < hi => b <= a \/ a + n[a].size <= b
        BY ONLY <3>1, <3>2
      <4>. QED BY ONLY <1>1, <2>2, <3>1, <4>1, <4>2, hi \in Nat
    <3>. QED BY ONLY <3>1, <3>2 DEF Tile
  <2>3. CASE hi <= a
    <3>0. a \in Nat /\ a <= f /\ a # f /\ hi \in B /\ f = e
      <4>1. a \in Nat /\ a <= f /\ a # f
        BY ONLY <1>1, <1>5
      <4>2. ~(hi > f)
        BY ONLY <2>3, <4>1, hi \in Nat, f \in Nat
      <4>. QED BY <4>1, <4>2 DEF Ends
    <3>1. a \in B \ {e} /\ a < e
      <4>1. a \in B
        BY ONLY <1>2, <1>5, <2>3, <3>0
      <4>. QED BY ONLY <3>0, <4>1, e \in Nat
    <3>2. /\ Footed(m, a) \/ (m[a].is_hole /\ a + m[a].size = e)
          /\ m[a].size \in Nat /\ m[a].size >= 2 /\ a + m[a].size \in B
          /\ a + m[a].size <= e
          /\ m[a] \in {Hole(m[a].size), Block(m[a].size)}
          /\ \A b \in B : b <= a \/ a + m[a].size <= b
      BY <3>1, TileFacts
    <3>3. Start <= a /\ n[a] = m[a]
      <4>1. Start <= a
        BY <1>1, <1>5
      <4>. QED BY ONLY <1>3, <2>3, <3>0, <3>1, <4>1
    <3>4. n[a + m[a].size - 1] = m[a + m[a].size - 1]
      <4>1. /\ a + m[a].size - 1 \in Nat /\ Start <= a + m[a].size - 1
            /\ hi <= a + m[a].size - 1 /\ a + m[a].size - 1 < e
        BY ONLY <1>1, <2>3, <3>0, <3>2, <3>3, hi \in Nat, e \in Nat
      <4>. QED BY ONLY <1>3, <4>1
    <3>5. a + m[a].size \in C
      <4>1. a + m[a].size \in Nat /\ hi <= a + m[a].size
        BY ONLY <2>3, <3>0, <3>2, hi \in Nat
      <4>. QED BY ONLY <1>2, <3>2, <4>1
    <3>6. ASSUME NEW b \in C PROVE b <= a \/ a + m[a].size <= b
      <4>1. b \in Nat
        BY ONLY <1>1, <3>6
      <4>2. CASE hi <= b
        <5>1. b \in B
          BY ONLY <1>2, <3>6, <4>1, <4>2
        <5>. QED BY ONLY <3>2, <5>1
      <4>3. CASE ~(hi <= b)
        BY ONLY <2>3, <3>0, <4>1, <4>3, hi \in Nat
      <4>. QED BY <4>2, <4>3
    <3>7. Tile(n, C, a)
      BY ONLY <3>2, <3>3, <3>5, <3>6 DEF Tile
    <3>8. Footed(m, a) => Footed(n, a)
      BY ONLY <3>3, <3>4 DEF Footed
    <3>. QED BY ONLY <3>0, <3>2, <3>3, <3>7, <3>8
  <2>. QED BY <1>1, <1>5, <2>1, <2>2, <2>3
<1>. QED BY <1>4, <1>5 DEF Tiling

\* Every place but the first is the end of a block or hole.
LEMMA Predecessor ==
  ASSUME NEW m, NEW B, NEW e \in Nat, Tiling(m, B, e), NEW b \in B, b # Start
  PROVE  \E a \in B \ {e} : a < b /\ a + m[a].size = b
<1>1. /\ Start \in Nat /\ \A x \in B : x \in Nat /\ Start <= x /\ x <= e
      /\ Start \in B
  BY TilingFacts
<1>. DEFINE S == {x \in B : x < b}
<1>2. S \in SUBSET (0..e) /\ S # {}
  <2>1. Start \in S
    BY <1>1
  <2>2. \A x \in S : x \in Nat /\ x <= e
    BY <1>1
  <2>. QED BY <2>1, <2>2
<1>3. PICK a \in S : \A x \in S : x <= a
  BY <1>2, GreatestElement
<1>4. a \in B \ {e} /\ a < b /\ a \in Nat /\ b \in Nat
  BY <1>1, <1>3
<1>5. /\ a + m[a].size \in B /\ a < a + m[a].size /\ a + m[a].size \in Nat
      /\ b <= a \/ a + m[a].size <= b
  BY <1>4, TileFacts
<1>6. ~(a + m[a].size < b)
  BY <1>3, <1>4, <1>5
<1>. QED BY <1>4, <1>5, <1>6

-----------------------------------------------------------------------------
(* What Boundaries finds *)

\* f steps from Start over one size after the other, and stays at e.
Walk(m, f, k, e) ==
  f = [n \in 0..k |-> IF n = 0 THEN Start
                      ELSE LET a == f[n - 1] IN IF a < e THEN a + SizeAt(m, a) ELSE a]

\* The steps of a walk.
LEMMA WalkFacts ==
  ASSUME NEW m, NEW k \in Nat, NEW e, NEW f, Walk(m, f, k, e)
  PROVE  /\ DOMAIN f = 0..k /\ f[0] = Start
         /\ \A n \in 0..k : n # 0 =>
              f[n] = IF f[n - 1] < e THEN f[n - 1] + SizeAt(m, f[n - 1]) ELSE f[n - 1]
<1>. DEFINE g == [n \in 0..k |-> IF n = 0 THEN Start
                      ELSE LET a == f[n - 1] IN IF a < e THEN a + SizeAt(m, a) ELSE a]
<1>1. f = g
  BY DEF Walk
<1>2. DOMAIN g = 0..k /\ g[0] = Start
  OBVIOUS
<1>3. ASSUME NEW n \in 0..k, n # 0
      PROVE  g[n] = IF f[n - 1] < e THEN f[n - 1] + SizeAt(m, f[n - 1]) ELSE f[n - 1]
  BY <1>3
<1>. HIDE DEF g
<1>. QED BY <1>1, <1>2, <1>3

\* There is a walk: what the recursive function of Boundaries chooses.
LEMMA WalkExists ==
  ASSUME NEW m, NEW k \in Nat, NEW e
  PROVE  \E f : Walk(m, f, k, e)
<1>. DEFINE S == {n \in Nat : ~ \E f : Walk(m, f, n, e)}
<1>1. SUFFICES ASSUME S # {} PROVE FALSE
  OBVIOUS
<1>2. PICK n \in S : \A x \in S : n <= x
  <2>1. S \in SUBSET Nat
    OBVIOUS
  <2>. HIDE DEF S
  <2>. QED BY <1>1, <2>1, LeastElement
<1>3. CASE n = 0
  <2>. DEFINE f == [i \in 0..0 |-> Start]
  <2>1. f = [i \in 0..0 |-> IF i = 0 THEN Start
                ELSE LET a == f[i - 1] IN IF a < e THEN a + SizeAt(m, a) ELSE a]
    OBVIOUS
  <2>. QED BY <1>2, <1>3, <2>1 DEF Walk
<1>4. CASE n # 0
  <2>1. n - 1 \in Nat /\ n - 1 \notin S
    BY <1>2, <1>4
  <2>2. PICK g : Walk(m, g, n - 1, e)
    BY <2>1
  <2>3. /\ DOMAIN g = 0..(n - 1) /\ g[0] = Start
        /\ \A i \in 0..(n - 1) : i # 0 =>
             g[i] = IF g[i - 1] < e THEN g[i - 1] + SizeAt(m, g[i - 1]) ELSE g[i - 1]
    BY <2>1, <2>2, WalkFacts
  <2>. DEFINE step(a) == IF a < e THEN a + SizeAt(m, a) ELSE a
              f == [i \in 0..n |-> IF i < n THEN g[i] ELSE step(g[n - 1])]
              h == [i \in 0..n |-> IF i = 0 THEN Start ELSE step(f[i - 1])]
  <2>. HIDE DEF step
  <2>4. n \in Nat
    BY <1>2
  <2>5. \A i \in 0..(n - 1) : i # 0 => g[i] = step(g[i - 1])
    BY <2>3 DEF step
  <2>6. ASSUME NEW i \in 0..n PROVE f[i] = IF i = 0 THEN Start ELSE step(f[i - 1])
    <3>1. CASE i = 0
      BY <1>4, <2>3, <2>4, <3>1
    <3>2. CASE i # 0 /\ i < n
      <4>1. f[i] = g[i] /\ f[i - 1] = g[i - 1] /\ i \in 0..(n - 1)
        BY <2>4, <3>2
      <4>. QED BY <2>5, <3>2, <4>1
    <3>3. CASE i # 0 /\ ~(i < n)
      <4>1. i = n /\ f[i] = step(g[n - 1]) /\ f[n - 1] = g[n - 1]
        BY <2>4, <3>3
      <4>. QED BY <3>3, <4>1
    <3>. QED BY <3>1, <3>2, <3>3
  <2>7. f = h
    <3>1. f = [i \in 0..n |-> f[i]]
      OBVIOUS
    <3>. HIDE DEF f
    <3>. QED BY <2>6, <3>1
  <2>8. Walk(m, f, n, e)
    <3>. HIDE DEF f
    <3>. QED BY <2>7 DEF Walk, step
  <2>. HIDE DEF f
  <2>. QED BY <1>2, <2>8
<1>. QED BY <1>3, <1>4

\* A walk meets the places of a tiling and nothing else.
LEMMA WalkRange ==
  ASSUME NEW m, NEW B, NEW e \in Nat, e <= MaxAddr, Tiling(m, B, e),
         NEW f, Walk(m, f, e - Start, e)
  PROVE  Range(f) = B
<1>0. /\ Start \in Nat /\ Start \in B /\ e \in B /\ Start <= e /\ e - Start \in Nat
      /\ \A b \in B : b \in Nat /\ Start <= b /\ b <= e
  BY TilingFacts
<1>1. /\ DOMAIN f = 0..(e - Start) /\ f[0] = Start
      /\ \A n \in 0..(e - Start) : n # 0 =>
           f[n] = IF f[n - 1] < e THEN f[n - 1] + SizeAt(m, f[n - 1]) ELSE f[n - 1]
  BY <1>0, WalkFacts
<1>2. ASSUME NEW a \in B, a # e
      PROVE  /\ a < e /\ SizeAt(m, a) = m[a].size /\ m[a].size \in Nat /\ m[a].size >= 2
             /\ a + m[a].size \in B
  <2>1. a \in B \ {e}
    BY <1>2
  <2>2. /\ a \in Nat /\ a < e /\ m[a].size \in Nat /\ m[a].size >= 2 /\ a + m[a].size \in B
        /\ m[a] \in {Hole(m[a].size), Block(m[a].size)}
    BY <2>1, TileFacts
  <2>3. m[a].kind = "header"
    BY <2>2 DEF Hole, Block
  <2>4. a \in Addr
    BY <2>2, Layout DEF Addr
  <2>. QED BY <2>2, <2>3, <2>4 DEF SizeAt, At
<1>. DEFINE Good(n) == f[n] \in B /\ (f[n] = e \/ f[n] >= Start + n)
<1>3. \A n \in 0..(e - Start) : Good(n)
  <2>. DEFINE S == {n \in 0..(e - Start) : ~Good(n)}
  <2>1. SUFFICES ASSUME S # {} PROVE FALSE
    OBVIOUS
  <2>2. PICK n \in S : \A x \in S : n <= x
    <3>1. S \in SUBSET Nat
      BY <1>0
    <3>. HIDE DEF S
    <3>. QED BY <2>1, <3>1, LeastElement
  <2>3. n \in 0..(e - Start) /\ ~Good(n) /\ n \in Nat
    BY <1>0, <2>2
  <2>4. n # 0
    BY <1>0, <1>1, <2>3
  <2>5. n - 1 \in 0..(e - Start) /\ n - 1 \notin S
    BY <1>0, <2>2, <2>3, <2>4
  <2>6. Good(n - 1)
    BY <2>5
  <2>7. CASE f[n - 1] = e
    BY <1>0, <1>1, <2>3, <2>4, <2>7
  <2>8. CASE f[n - 1] # e
    <3>1. /\ f[n - 1] \in B /\ f[n - 1] \in Nat /\ f[n - 1] >= Start + (n - 1)
          /\ f[n - 1] < e /\ f[n - 1] + m[f[n - 1]].size \in B
          /\ SizeAt(m, f[n - 1]) = m[f[n - 1]].size
          /\ m[f[n - 1]].size \in Nat /\ m[f[n - 1]].size >= 2
      BY <1>0, <1>2, <2>6, <2>8
    <3>2. f[n] = f[n - 1] + m[f[n - 1]].size
      BY <1>1, <2>3, <2>4, <3>1
    <3>3. f[n] \in B /\ f[n] >= Start + n
      BY <1>0, <2>3, <3>1, <3>2
    <3>. QED BY <2>3, <3>3
  <2>. QED BY <2>7, <2>8
<1>4. ASSUME NEW b \in B PROVE \E n \in 0..(e - Start) : f[n] = b
  <2>. DEFINE S == {x \in B : ~ \E n \in 0..(e - Start) : f[n] = x}
  <2>1. SUFFICES ASSUME S # {} PROVE FALSE
    OBVIOUS
  <2>2. PICK x \in S : \A y \in S : x <= y
    <3>1. S \in SUBSET Nat
      BY <1>0
    <3>. HIDE DEF S
    <3>. QED BY <2>1, <3>1, LeastElement
  <2>3. x \in B /\ ~ \E n \in 0..(e - Start) : f[n] = x
    BY <2>2
  <2>4. x # Start
    BY <1>0, <1>1, <2>3
  <2>5. PICK a \in B \ {e} : a < x /\ a + m[a].size = x
    BY <2>3, <2>4, Predecessor
  <2>6. a \in B /\ a # e /\ a \in Nat /\ x \in Nat /\ a \notin S
    BY <1>0, <2>2, <2>3, <2>5
  <2>7. PICK n \in 0..(e - Start) : f[n] = a
    BY <2>6
  <2>8. a < e /\ SizeAt(m, a) = m[a].size
    BY <1>2, <2>6
  <2>9. a >= Start + n
    BY <1>3, <2>6, <2>7
  <2>10. n + 1 \in 0..(e - Start) /\ n + 1 # 0 /\ (n + 1) - 1 = n
    BY <1>0, <2>6, <2>8, <2>9
  <2>11. f[n + 1] = x
    BY <1>1, <2>5, <2>7, <2>8, <2>10
  <2>. QED BY <2>3, <2>10, <2>11
<1>5. Range(f) = {f[n] : n \in 0..(e - Start)}
  BY <1>1 DEF Range
<1>. HIDE DEF Good
<1>6. \A n \in 0..(e - Start) : f[n] \in B
  BY <1>3 DEF Good
<1>. QED BY <1>4, <1>5, <1>6

\* The places of a row are what stepping over the sizes from Start meets.
LEMMA BoundariesFacts ==
  ASSUME NEW B, end \in Nat, end <= MaxAddr, Tiling(mem, B, end)
  PROVE  Boundaries = B /\ Headers = B \ {end}
<1>. DEFINE f == CHOOSE g : Walk(mem, g, end - Start, end)
<1>1. end - Start \in Nat
  BY TilingFacts
<1>2. Walk(mem, f, end - Start, end)
  <2>1. \E g : Walk(mem, g, end - Start, end)
    BY <1>1, WalkExists
  <2>. QED BY <2>1
<1>3. Boundaries = Range(f)
  BY Zenon DEF Boundaries, Walk
<1>. HIDE DEF f
<1>4. Range(f) = B
  BY <1>2, WalkRange
<1>. QED BY <1>3, <1>4 DEF Headers

-----------------------------------------------------------------------------
(* The state of the heap between two actions *)

\* The holes of a row.
Holes(m, B, e) == {a \in B \ {e} : m[a].is_hole}

\* A block in use is a block of the row, large enough, and holds what its
\* caller has left in it.
HeldBlock(m, B, e, l, p) ==
  /\ p \in Nat /\ p - 1 \in B \ {e} /\ m[p - 1] = Block(m[p - 1].size)
  /\ l[p] \in Nat /\ l[p] + 2 <= m[p - 1].size
  /\ \A a \in Nat : p <= a /\ a < p + l[p] => m[a] = Zero

\* The blocks callers hold are in the row.
Held(m, B, e, l) == \A p \in DOMAIN l : HeldBlock(m, B, e, l, p)

\* The heap is a row, the index lists its holes, and its blocks are in order.
Row(m, x, e, l) ==
  \E B : Tiling(m, B, e) /\ Lists(x, Holes(m, B, e)) /\ Held(m, B, e, l)

\* The heap ends on a page boundary, above its least size, and has its frames.
Memory(m, e, S) ==
  /\ DOMAIN m = Addr /\ \A a \in Addr : a < Start => m[a] = Zero
  /\ e \in Nat /\ e % Page = 0 /\ Start + MinSize <= e /\ Start < e /\ e <= MaxAddr
  /\ \A a \in Nat : Start <= a /\ a < e => PageOf(a) \in S

\* The end to which expand takes the heap.
Grown(e, bare) == Start + ExpandTo(e - Start + bare)

\* A hole of the index serves the request.
Serves(m, x, bare, align) == \E i \in 1..Len(x) : Fits(m, x[i], bare, align)

\* A3 for a hole at a of n cells
Room(a, n, bare) ==
  LET front == Page - (a % Page) - 1
  IN /\ front >= 2 /\ n >= bare + 2
     /\ n - front = bare \/ n - front >= bare + 2

\* A request that waits is served from the first hole, or the heap can grow and
\* there is no hole but one at its end.
Asked(m, x, e, r) ==
  LET bare == r.size + 2
      none == ~Serves(m, x, bare, r.align) /\ Grown(e, bare) <= MaxAddr
  IN /\ r.pending \in BOOLEAN
     /\ r.pending =>
          /\ r.size \in Sizes /\ r.align \in Aligns
          /\ \/ /\ x # <<>> /\ Fits(m, x[1], bare, r.align)
                /\ r.align => Room(x[1], m[x[1]].size, bare)
             \/ /\ none /\ x = <<>>
                /\ r.align => Room(e, Grown(e, bare) - e, bare)
             \/ /\ none /\ Len(x) = 1 /\ x[1] + m[x[1]].size = e
                /\ r.align => Room(x[1], m[x[1]].size + (Grown(e, bare) - e), bare)

\* What holds between two actions.
HeapInv ==
  /\ Memory(mem, end, mapped) /\ Row(mem, index, end, live)
  /\ Asked(mem, index, end, req) /\ status = "ok"

\* The fields of the cells.
LEMMA CellFacts ==
  ASSUME NEW n \in Nat, NEW h
  PROVE  /\ Hole(n).kind = "header" /\ Hole(n).is_hole /\ Hole(n).size = n
         /\ Block(n).kind = "header" /\ ~Block(n).is_hole /\ Block(n).size = n
         /\ Footer(h).kind = "footer" /\ Footer(h).header = h
         /\ Zero.kind = "zero"
         /\ Hole(n) # Zero /\ Block(n) # Zero /\ Footer(h) # Zero
  BY DEF Hole, Block, Footer, Zero

\* Where the heap lies, and that its cells can be read.
LEMMA MemoryFacts ==
  ASSUME NEW m, NEW e, NEW S, Memory(m, e, S)
  PROVE  /\ DOMAIN m = Addr /\ e \in Nat /\ Start < e /\ e <= MaxAddr /\ Start \in Nat
         /\ Start > 0 /\ MaxAddr \in Nat /\ Start + MinSize <= e /\ e % Page = 0
         /\ \A a \in Nat : a < MaxAddr => a \in Addr /\ At(m, a) = m[a]
         /\ \A a \in Nat : a < e => a \in Addr /\ At(m, a) = m[a]
  BY Layout DEF Memory, Addr, At

\* A place of a row holds the header of a hole or of a block.
LEMMA HoleFacts ==
  ASSUME NEW m, NEW B, NEW e \in Nat, e <= MaxAddr, Tiling(m, B, e), NEW a \in B \ {e}
  PROVE  /\ SizeAt(m, a) = m[a].size
         /\ m[a].is_hole \in BOOLEAN /\ HoleAt(m, a) = m[a].is_hole
         /\ m[a].is_hole => m[a] = Hole(m[a].size)
         /\ ~m[a].is_hole => m[a] = Block(m[a].size)
<1>1. /\ a \in Nat /\ a < e /\ m[a].size \in Nat
      /\ m[a] = Hole(m[a].size) \/ m[a] = Block(m[a].size)
  BY TileFacts
<1>2. a \in Addr
  BY <1>1, Layout DEF Addr
<1>. DEFINE z == m[a].size
<1>3. z \in Nat /\ (m[a] = Hole(z) \/ m[a] = Block(z))
  BY <1>1
<1>. HIDE DEF z
<1>4. CASE m[a] = Hole(z)
  <2>1. m[a].kind = "header" /\ m[a].is_hole = TRUE /\ m[a].size = z
    BY <1>4 DEF Hole
  <2>. QED BY <1>2, <1>4, <2>1 DEF SizeAt, HoleAt, At
<1>5. CASE m[a] = Block(z)
  <2>1. m[a].kind = "header" /\ m[a].is_hole = FALSE /\ m[a].size = z
    BY <1>5 DEF Block
  <2>. QED BY <1>2, <1>5, <2>1 DEF SizeAt, HoleAt, At
<1>. QED BY <1>3, <1>4, <1>5

\* The heap begins on a page of its own, so Offset is the distance to a boundary.
LEMMA PageFits ==
  ASSUME NEW a \in Nat, Start <= a
  PROVE  a >= Page /\ (a % Page < Page - 1 => Offset(a) = Page - (a % Page) - 1)
<1>1. Page \in Nat /\ Page > 2 /\ Start \in Nat \ {0} /\ Start % Page = 0
  BY Layout
<1>2. Start >= Page
  <2>1. /\ Start \div Page \in Int /\ Start % Page \in 0..(Page - 1)
        /\ Start = Page * (Start \div Page) + (Start % Page)
    BY <1>1, DivMod
  <2>2. ASSUME Start < Page PROVE FALSE
    <3>1. Start \in 0..(Page - 1) /\ 0 \in Int /\ Start = Page * 0 + Start /\ Start \in Int
      BY <1>1, <2>2
    <3>2. Start % Page = Start
      BY ONLY <3>1, ModUnique
    <3>. QED BY <1>1, <3>2
  <2>. QED BY <1>1, <2>2
<1>3. a >= Page
  BY <1>1, <1>2
<1>4. a + Hdr >= Page /\ a + Hdr = a + 1
  BY <1>1, <1>3 DEF Hdr
<1>5. a % Page < Page - 1 => (Page - (a + 1)) % Page = Page - (a % Page) - 1
  BY NextBoundary
<1>. QED BY <1>3, <1>4, <1>5 DEF Offset

\* The part of the row behind lo becomes one hole, which ends at f.
TailPaved(m, B, e, n, C, f, lo) ==
  /\ e \in Nat /\ Tiling(m, B, e) /\ lo \in B /\ (lo < e \/ Holes(m, B, e) = {})
  /\ f \in Nat /\ lo + 2 <= f /\ n[lo] = Hole(f - lo) /\ n[f - 1] = Footer(lo)
  /\ \A a \in Nat : a < lo => n[a] = m[a]
  /\ C = {b \in B : b <= lo} \cup {f}

\* The row whose tail became a hole, and what stays in it.
LEMMA TailPave ==
  ASSUME NEW m, NEW B, NEW e, NEW n, NEW C, NEW f, NEW lo, TailPaved(m, B, e, n, C, f, lo)
  PROVE  /\ Tiling(n, C, f)
         /\ Holes(n, C, f) = {a \in Holes(m, B, e) : a < lo} \cup {lo}
         /\ \A l : Held(m, B, e, l) /\ (\A p \in DOMAIN l : p - 1 < lo) => Held(n, C, f, l)
<1>0. /\ e \in Nat /\ Tiling(m, B, e) /\ lo \in B /\ (lo < e \/ Holes(m, B, e) = {})
      /\ f \in Nat /\ lo + 2 <= f /\ n[lo] = Hole(f - lo) /\ n[f - 1] = Footer(lo)
      /\ \A a \in Nat : a < lo => n[a] = m[a]
      /\ C = {b \in B : b <= lo} \cup {f}
  BY DEF TailPaved
<1>1. /\ Start \in Nat /\ Start \in B /\ e \in B /\ Start <= e
      /\ \A b \in B : b \in Nat /\ Start <= b /\ b <= e
  BY <1>0, TilingFacts
<1>2. lo \in Nat /\ Start <= lo /\ lo <= e
  BY <1>0, <1>1
<1>3. \A a \in B \ {e} :
        /\ a \in Nat /\ a < e /\ m[a].size \in Nat /\ m[a].size >= 2
        /\ a < lo => a + m[a].size <= lo
        /\ Footed(m, a) \/ (m[a].is_hole /\ a + m[a].size = e)
  BY <1>0, <1>2, TileFacts
<1>4. PICK hi \in Nat : hi > e /\ hi > f /\ hi > lo
  <2>1. e + f + 1 \in Nat /\ e + f + 1 > e /\ e + f + 1 > f /\ e + f + 1 > lo
    BY <1>0, <1>2
  <2>. QED BY <2>1
<1>5. Ends(m, B, e, f, lo, hi)
  <2>1. ASSUME NEW a \in B \ {e}, a < lo PROVE Footed(m, a)
    <3>1. CASE lo < e
      BY <1>0, <1>2, <1>3, <2>1, <3>1
    <3>2. CASE Holes(m, B, e) = {}
      BY <1>0, <1>3, <2>1, <3>2 DEF Holes
    <3>. QED BY <1>0, <3>1, <3>2
  <2>. QED BY <1>0, <1>4, <2>1 DEF Ends
<1>6. C \subseteq Start..f /\ lo \in C /\ f \in C
  <2>1. ASSUME NEW b \in C PROVE b \in Start..f
    <3>1. (b \in B /\ b <= lo) \/ b = f
      BY <1>0, <2>1
    <3>2. f \in Nat /\ lo \in Nat /\ Start \in Nat /\ Start <= lo /\ lo + 2 <= f
      BY <1>0, <1>1, <1>2
    <3>3. b \in B => b \in Nat /\ Start <= b
      BY <1>1
    <3>. QED BY ONLY <3>1, <3>2, <3>3
  <2>2. lo \in C /\ f \in C
    BY <1>0, <1>2
  <2>. QED BY ONLY <2>1, <2>2
<1>7. \A b \in C : b \in Nat /\ (b < lo => b \in B) /\ (lo <= b => b = lo \/ b = f)
  BY <1>0, <1>1, <1>2
<1>8. Outside(m, B, e, n, C, lo, hi)
  <2>1. ASSUME NEW b \in Nat, b < lo \/ hi <= b PROVE b \in B <=> b \in C
    BY <1>0, <1>1, <1>2, <1>4, <2>1
  <2>2. ASSUME NEW a \in Nat, a < lo \/ (hi <= a /\ a < e) PROVE n[a] = m[a]
    BY <1>0, <1>4, <2>2
  <2>. QED BY <2>1, <2>2 DEF Outside
<1>9. f - lo \in Nat /\ n[lo].size = f - lo /\ n[lo].is_hole
  BY <1>0, <1>2, CellFacts
<1>10. Inside(n, C, f, lo, hi)
  <2>1. ASSUME NEW a \in C, lo <= a, a # f
        PROVE  /\ n[a].size \in Nat /\ n[a].size >= 2
               /\ n[a] \in {Hole(n[a].size), Block(n[a].size)}
               /\ Footed(n, a) /\ a + n[a].size \in C /\ a + n[a].size <= hi
               /\ \A b \in C : lo <= b /\ b < hi => b <= a \/ a + n[a].size <= b
    <3>1. a = lo /\ a + n[a].size = f /\ a + n[a].size - 1 = f - 1
      BY <1>0, <1>2, <1>7, <1>9, <2>1
    <3>2. Footed(n, a)
      BY <1>0, <3>1 DEF Footed
    <3>3. \A b \in C : lo <= b => b <= a \/ a + n[a].size <= b
      BY <1>0, <1>2, <1>7, <3>1
    <3>. QED BY <1>0, <1>2, <1>4, <1>6, <1>9, <3>1, <3>2, <3>3
  <2>. QED BY <2>1 DEF Inside
<1>11. Tiling(n, C, f)
  BY <1>0, <1>4, <1>5, <1>6, <1>8, <1>10, Repave
<1>12. \A a \in Nat : a < lo => (a \in B \ {e} <=> a \in C \ {f}) /\ n[a] = m[a]
  BY <1>0, <1>1, <1>2
<1>13. Holes(n, C, f) = {a \in Holes(m, B, e) : a < lo} \cup {lo}
  <2>1. ASSUME NEW a \in Holes(n, C, f) PROVE a \in {b \in Holes(m, B, e) : b < lo} \cup {lo}
    <3>1. a \in C /\ a # f /\ n[a].is_hole
      BY <2>1 DEF Holes
    <3>2. CASE a < lo
      BY <1>0, <1>7, <1>12, <3>1, <3>2 DEF Holes
    <3>3. CASE ~(a < lo)
      BY <1>0, <1>2, <1>7, <3>1, <3>3
    <3>. QED BY <3>2, <3>3
  <2>2. ASSUME NEW a \in Holes(m, B, e), a < lo PROVE a \in Holes(n, C, f)
    BY <1>0, <1>3, <1>12, <2>2 DEF Holes
  <2>3. lo \in Holes(n, C, f)
    BY <1>0, <1>2, <1>6, <1>9 DEF Holes
  <2>. QED BY <2>1, <2>2, <2>3
<1>14. ASSUME NEW l, Held(m, B, e, l), \A p \in DOMAIN l : p - 1 < lo
       PROVE  Held(n, C, f, l)
  <2>1. ASSUME NEW p \in DOMAIN l PROVE HeldBlock(n, C, f, l, p)
    <3>1. HeldBlock(m, B, e, l, p) /\ p - 1 < lo
      BY <1>0, <1>14, <2>1 DEF Held
    <3>2. p - 1 \in B \ {e} /\ p \in Nat /\ l[p] \in Nat /\ l[p] + 2 <= m[p - 1].size
      BY <3>1 DEF HeldBlock
    <3>3. p - 1 \in Nat /\ (p - 1) + m[p - 1].size <= lo /\ m[p - 1].size \in Nat
      BY <1>0, <1>3, <3>1, <3>2
    <3>4. n[p - 1] = m[p - 1] /\ p - 1 \in C \ {f}
      BY <1>0, <1>12, <3>1, <3>2, <3>3
    <3>5. ASSUME NEW a \in Nat, p <= a, a < p + l[p] PROVE n[a] = Zero
      <4>1. m[a] = Zero
        BY ONLY <3>1, <3>5 DEF HeldBlock
      <4>2. a < lo
        BY ONLY <1>2, <3>2, <3>3, <3>5
      <4>. QED BY <1>0, <4>1, <4>2
    <3>. QED BY <3>1, <3>2, <3>4, <3>5 DEF HeldBlock
  <2>. QED BY <2>1 DEF Held
<1>15. \A l : Held(m, B, e, l) /\ (\A p \in DOMAIN l : p - 1 < lo) => Held(n, C, f, l)
  BY <1>0, <1>14
<1>. QED BY ONLY <1>11, <1>13, <1>15

\* Whole pages that are more than nothing are one page at least.
LEMMA AtLeastAPage ==
  ASSUME NEW a \in Nat, a % Page = 0, a # 0
  PROVE  a >= Page
<1>1. Page \in Nat /\ Page > 2
  BY Layout
<1>2. ASSUME a < Page PROVE FALSE
  <2>1. a \in 0..(Page - 1) /\ 0 \in Int /\ a \in Int /\ a = Page * 0 + a
    BY <1>1, <1>2
  <2>2. a % Page = a
    BY ONLY <2>1, ModUnique
  <2>. QED BY <2>2
<1>. QED BY <1>1, <1>2

\* expand ends the heap on a page boundary, with room for the request.
LEMMA GrownFacts ==
  ASSUME NEW e \in Nat, e % Page = 0, Start < e, NEW bare \in Nat
  PROVE  Grown(e, bare) \in Nat /\ Grown(e, bare) > e + bare /\ Grown(e, bare) % Page = 0
<1>1. Page \in Nat /\ Page > 2 /\ Start \in Nat /\ Start % Page = 0
  BY Layout
<1>. DEFINE n == e - Start + bare
            q == n \div Page
            r == n % Page
<1>2. n \in Nat /\ n >= Page
  <2>1. (e - Start) % Page = 0
    <3>1. e \in Int /\ Start \in Int /\ e % Page = 0 /\ Start % Page = 0
      BY <1>1
    <3>. QED BY ONLY <3>1, ModDifference
  <2>2. e - Start \in Nat /\ e - Start # 0
    BY <1>1
  <2>3. e - Start >= Page
    BY <2>1, <2>2, AtLeastAPage
  <2>. QED BY <1>1, <2>2, <2>3
<1>3. q \in Int /\ r \in 0..(Page - 1) /\ n = Page * q + r
  <2>1. n \in Int
    BY <1>2
  <2>. HIDE DEF n
  <2>. QED BY <2>1, DivMod
<1>. HIDE DEF q, r
<1>4. ExpandTo(n) = Page * q + Page
  <2>1. ExpandTo(n) = q * Page + Page
    BY <1>2 DEF ExpandTo, q
  <2>. QED BY <1>1, <1>3, <2>1
<1>5. Page * q + Page = Page * (q + 1) + 0 /\ Page * q \in Int
  BY <1>1, <1>3, Distr
<1>6. (Page * q + Page) % Page = 0
  <2>1. q + 1 \in Int /\ 0 \in 0..(Page - 1) /\ Page * q + Page \in Int
    BY <1>1, <1>3, <1>5
  <2>. QED BY <1>5, <2>1, ModUnique
<1>7. Page * q + Page > n
  BY <1>1, <1>3, <1>5
<1>8. Grown(e, bare) = Start + (Page * q + Page)
  BY <1>4 DEF Grown
<1>. DEFINE z == Page * q + Page
<1>9. z \in Int /\ z > n /\ z % Page = 0 /\ Grown(e, bare) = Start + z
  BY <1>1, <1>5, <1>6, <1>7, <1>8
<1>. HIDE DEF z
<1>10. (Start + z) % Page = Start % Page
  <2>1. Start \in Int /\ z \in Int /\ z % Page = 0
    BY <1>1, <1>9
  <2>. QED BY ONLY <2>1, ModSum
<1>11. Start + z > e + bare
  BY <1>1, <1>2, <1>9
<1>. QED BY <1>1, <1>9, <1>10, <1>11

\* create_heap leaves one hole, whose footer nothing reads yet.
LEMMA InitHeap == Init => HeapInv
<1>. SUFFICES ASSUME Init PROVE HeapInv
  OBVIOUS
<1>1. /\ Start \in Nat /\ Start > 0 /\ InitialSize \in Nat /\ MaxAddr \in Nat /\ MinSize \in Nat
      /\ Start + InitialSize <= MaxAddr /\ MinSize <= InitialSize
      /\ Start % Page = 0 /\ InitialSize % Page = 0 /\ InitialSize >= 3
  <2>1. InitialSize >= Page /\ Page > 2 /\ Page \in Nat
    BY Layout, AtLeastAPage
  <2>. QED BY <2>1, Layout
<1>2. /\ mem = [a \in Addr |-> IF a = Start THEN Hole(InitialSize) ELSE Zero]
      /\ index = <<Start>> /\ end = Start + InitialSize
      /\ mapped = 0..PageOf(Start + InitialSize - 1)
      /\ req = None /\ status = "ok" /\ live = <<>>
  BY DEF Init
<1>3. Memory(mem, end, mapped)
  <2>1. DOMAIN mem = Addr /\ \A a \in Addr : a < Start => mem[a] = Zero
    BY <1>1, <1>2
  <2>2. end % Page = 0
    BY <1>1, <1>2, ModSum
  <2>3. \A a \in Nat : Start <= a /\ a < end => PageOf(a) \in mapped
    <3>1. SUFFICES ASSUME NEW a \in Nat, Start <= a, a < end PROVE PageOf(a) \in mapped
      OBVIOUS
    <3>2. Start + InitialSize - 1 \in Nat /\ a <= Start + InitialSize - 1
      BY <1>1, <1>2, <3>1
    <3>3. /\ PageOf(a) \in Nat /\ PageOf(Start + InitialSize - 1) \in Nat
          /\ PageOf(a) <= PageOf(Start + InitialSize - 1)
      BY <3>2, PageOrder
    <3>. QED BY <1>2, <3>3
  <2>. QED BY <1>1, <1>2, <2>1, <2>2, <2>3 DEF Memory
<1>4. /\ mem[Start] = Hole(InitialSize) /\ mem[Start].size = InitialSize
      /\ mem[Start].is_hole
  <2>1. Start \in Addr
    BY <1>1 DEF Addr
  <2>2. mem[Start] = Hole(InitialSize)
    BY <1>2, <2>1
  <2>. QED BY <1>1, <2>2, CellFacts
<1>. DEFINE B == {Start, end}
<1>5. Tiling(mem, B, end)
  <2>1. B \subseteq Start..end /\ Start \in B /\ end \in B
    BY <1>1, <1>2
  <2>2. ASSUME NEW a \in B \ {end} PROVE Tile(mem, B, a) /\ mem[a].is_hole /\ a + mem[a].size = end
    <3>1. a = Start
      OBVIOUS
    <3>. QED BY <1>1, <1>2, <1>4, <3>1 DEF Tile
  <2>. QED BY <2>1, <2>2 DEF Tiling
<1>6. Lists(index, Holes(mem, B, end))
  <2>1. Holes(mem, B, end) = {Start}
    BY <1>1, <1>2, <1>4 DEF Holes
  <2>2. index \in Seq(Nat) /\ Len(index) = 1 /\ index[1] = Start
    BY <1>1, <1>2
  <2>3. Range(index) = {index[i] : i \in 1..Len(index)}
    BY <2>2, RangeFacts
  <2>4. Range(index) = {Start}
    BY <2>2, <2>3
  <2>5. Distinct(index)
    BY <2>2 DEF Distinct
  <2>. QED BY <2>1, <2>2, <2>4, <2>5 DEF Lists
<1>7. Held(mem, B, end, live)
  BY <1>2 DEF Held
<1>8. Asked(mem, index, end, req)
  BY <1>2 DEF Asked, None
<1>. QED BY <1>2, <1>3, <1>5, <1>6, <1>7, <1>8 DEF HeapInv, Row

\* What the clauses of the contract say of the state in which a call begins.
LEMMA CallAllocHeap ==
  ASSUME HeapInv, NEW size \in Sizes, NEW align \in Aligns, CallAlloc(size, align),
         A1(size, align), A2(size, align), A3(size, align)
  PROVE  HeapInv'
<1>1. PICK B : Tiling(mem, B, end) /\ Lists(index, Holes(mem, B, end)) /\ Held(mem, B, end, live)
  BY DEF HeapInv, Row
<1>2. Memory(mem, end, mapped) /\ status = "ok"
  BY DEF HeapInv
<1>3. /\ mem' = mem /\ index' = index /\ end' = end /\ mapped' = mapped
      /\ status' = status /\ live' = live
      /\ req' = [size |-> size, align |-> align, pending |-> TRUE]
  BY DEF CallAlloc
<1>. DEFINE bare == size + 2
            grown == Grown(end, bare)
            r == [size |-> size, align |-> align, pending |-> TRUE]
<1>4. size \in Nat /\ Overhead = 2 /\ Hdr = 1 /\ bare \in Nat
  BY Layout
<1>5. Found(size + Overhead, align) <=> Serves(mem, index, bare, align)
  BY <1>4 DEF Found, Serves
<1>6. index # <<>> => /\ Chosen = index[1] /\ index[1] \in B \ {end}
                      /\ SizeAt(mem, Chosen) = mem[index[1]].size
  <2>1. SUFFICES ASSUME index # <<>>
                 PROVE  /\ Chosen = index[1] /\ index[1] \in B \ {end}
                        /\ SizeAt(mem, index[1]) = mem[index[1]].size
    OBVIOUS
  <2>2. index[1] \in Holes(mem, B, end) /\ Head(index) = index[1]
    BY <1>1, <2>1, ListsFacts
  <2>3. index[1] \in B \ {end}
    BY <2>2 DEF Holes
  <2>4. end \in Nat /\ end <= MaxAddr
    BY <1>2, MemoryFacts
  <2>. QED BY <1>1, <2>2, <2>3, <2>4, HoleFacts DEF Chosen
<1>7. Serves(mem, index, bare, align) => index # <<>>
  <2>1. index = <<>> => Len(index) = 0
    OBVIOUS
  <2>. QED BY <2>1 DEF Serves
<1>8. /\ end \in Nat /\ end % Page = 0 /\ Start < end /\ Start \in Nat
      /\ grown \in Nat
  <2>1. end \in Nat /\ end % Page = 0 /\ Start < end /\ Start \in Nat
    BY <1>2, MemoryFacts
  <2>. QED BY <1>4, <2>1, GrownFacts
<1>9. Asked(mem, index, end, r)
  <2>1. r.pending = TRUE /\ r.size = size /\ r.align = align
    OBVIOUS
  <2>. HIDE DEF r
  <2>2. CASE Serves(mem, index, bare, align)
    <3>1. index # <<>> /\ Fits(mem, index[1], bare, align)
      BY <1>4, <1>5, <1>6, <1>7, <2>2 DEF A1
    <3>2. align => Room(index[1], mem[index[1]].size, bare)
      <4>1. Source(size, align) = [at |-> index[1], size |-> mem[index[1]].size]
        BY <1>5, <1>6, <1>7, <2>2 DEF Source
      <4>. QED BY <1>4, <4>1 DEF A3, Room
    <3>. QED BY <2>1, <3>1, <3>2 DEF Asked
  <2>3. CASE ~Serves(mem, index, bare, align)
    <3>1. grown <= MaxAddr
      <4>1. Start + ExpandTo(end - Start + size + Overhead) <= MaxAddr
        BY <1>5, <2>3 DEF CallAlloc
      <4>2. end - Start + size + Overhead = end - Start + bare
        BY <1>4, <1>8
      <4>. HIDE DEF bare
      <4>. QED BY <4>1, <4>2 DEF Grown
    <3>2. ExpandTo(end - Start + bare) - (end - Start) = grown - end
      <4>1. ExpandTo(end - Start + bare) \in Int
        <5>1. Page \in Nat /\ Page > 2 /\ end - Start + bare \in Nat
          BY <1>4, <1>8, Layout
        <5>. QED BY <5>1 DEF ExpandTo
      <4>. QED BY <1>8, <4>1 DEF Grown
    <3>3. CASE index = <<>>
      <4>1. Source(size, align) = [at |-> end, size |-> grown - end]
        BY <1>4, <1>5, <2>3, <3>2, <3>3 DEF Source
      <4>2. align => Room(end, grown - end, bare)
        BY <1>4, <4>1 DEF A3, Room
      <4>. QED BY <2>1, <2>3, <3>1, <3>3, <4>2 DEF Asked
    <3>4. CASE index # <<>>
      <4>1. Len(index) = 1 /\ index[1] + mem[index[1]].size = end
        BY <1>4, <1>5, <1>6, <2>3, <3>4 DEF A2
      <4>2. Source(size, align) = [at |-> index[1], size |-> mem[index[1]].size + (grown - end)]
        BY <1>4, <1>5, <1>6, <2>3, <3>2, <3>4 DEF Source
      <4>3. align => Room(index[1], mem[index[1]].size + (grown - end), bare)
        BY <1>4, <4>2 DEF A3, Room
      <4>. QED BY <2>1, <2>3, <3>1, <4>1, <4>3 DEF Asked
    <3>. QED BY <3>3, <3>4
  <2>. QED BY <2>2, <2>3
<1>. QED BY <1>1, <1>2, <1>3, <1>9 DEF HeapInv, Row

\* A hole with room for an aligned block, or large enough, serves the request.
LEMMA RoomFits ==
  ASSUME NEW m, NEW a \in Nat, Start <= a, NEW n \in Nat, n < MaxAddr, SizeAt(m, a) = n,
         NEW bare \in Nat, NEW align \in BOOLEAN
  PROVE  /\ n >= bare /\ (align => Room(a, n, bare)) => Fits(m, a, bare, align)
         /\ Fits(m, a, bare, align) /\ (align => Room(a, n, bare)) => n >= bare
<1>1. MaxAddr \in Nat /\ Signed(n) = n
  <2>1. MaxAddr \in Nat
    BY Layout
  <2>2. n \in Int /\ n \in 0..(MaxAddr - 1)
    BY <2>1
  <2>. QED BY <2>1, <2>2, WordFacts
<1>2. CASE ~align
  BY <1>2 DEF Fits
<1>3. CASE align
  <2>1. ASSUME Room(a, n, bare) PROVE n >= bare /\ Fits(m, a, bare, align)
    <3>1. PICK c \in Nat : c = a % Page /\ c < Page
      <4>1. Page \in Nat /\ Page > 2 /\ a \in Int
        BY Layout
      <4>2. a % Page \in 0..(Page - 1)
        BY <4>1, DivMod
      <4>. QED BY <4>1, <4>2
    <3>2. /\ Page - c - 1 >= 2 /\ n >= bare + 2
          /\ n - (Page - c - 1) = bare \/ n - (Page - c - 1) >= bare + 2
      BY <2>1, <3>1 DEF Room
    <3>3. Page \in Nat
      BY Layout
    <3>4. c < Page - 1
      BY <3>1, <3>2, <3>3
    <3>5. Offset(a) = Page - c - 1
      BY <3>1, <3>4, PageFits
    <3>6. n - (Page - c - 1) >= bare
      BY <3>1, <3>2, <3>3
    <3>. QED BY <1>1, <1>3, <3>2, <3>5, <3>6 DEF Fits
  <2>. QED BY <1>3, <2>1
<1>. QED BY <1>2, <1>3

\* A request that waits has a size of the caller.
LEMMA AskedFacts ==
  ASSUME HeapInv, req.pending
  PROVE  /\ req.size \in Nat /\ req.size \in Sizes /\ req.align \in Aligns /\ req.align \in BOOLEAN
         /\ Bare = req.size + 2 /\ Bare \in Nat
         /\ Found(Bare, req.align) <=> Serves(mem, index, Bare, req.align)
<1>1. req.size \in Sizes /\ req.align \in Aligns
  BY DEF HeapInv, Asked
<1>2. req.size \in Nat /\ req.align \in BOOLEAN /\ Bare = req.size + 2
  BY <1>1, Layout DEF Bare
<1>. QED BY <1>1, <1>2 DEF Found, Serves

\* expand: the last hole grows to the new end, or a new one reaches it.
LEMMA ExpandHeap ==
  ASSUME HeapInv, Expand
  PROVE  HeapInv'
<1>1. PICK B : Tiling(mem, B, end) /\ Lists(index, Holes(mem, B, end)) /\ Held(mem, B, end, live)
  BY DEF HeapInv, Row
<1>2. Memory(mem, end, mapped) /\ status = "ok" /\ Asked(mem, index, end, req)
  BY DEF HeapInv
<1>3. /\ DOMAIN mem = Addr /\ end \in Nat /\ Start < end /\ end <= MaxAddr /\ Start \in Nat
      /\ Start > 0 /\ MaxAddr \in Nat /\ Start + MinSize <= end /\ end % Page = 0
  BY <1>2, MemoryFacts
<1>4. req.pending /\ ~Found(Bare, req.align)
  BY DEF Expand
<1>5. /\ req.size \in Nat /\ req.align \in BOOLEAN /\ Bare = req.size + 2 /\ Bare \in Nat
      /\ ~Serves(mem, index, Bare, req.align)
  BY <1>4, AskedFacts
<1>. DEFINE f == Grown(end, Bare)
<1>6. f \in Nat /\ f > end + Bare /\ f % Page = 0
  BY <1>3, <1>5, GrownFacts
<1>. HIDE DEF f
<1>7. /\ f <= MaxAddr
      /\ \/ index = <<>> /\ (req.align => Room(end, f - end, Bare))
         \/ /\ Len(index) = 1 /\ index[1] + mem[index[1]].size = end
            /\ req.align => Room(index[1], mem[index[1]].size + (f - end), Bare)
  <2>1. ~(index # <<>> /\ Fits(mem, index[1], Bare, req.align))
    <3>1. index # <<>> => 1 \in 1..Len(index)
      BY <1>1, ListsFacts
    <3>. QED BY <1>5, <3>1 DEF Serves
  <2>. QED BY <1>2, <1>4, <1>5, <2>1 DEF Asked, f
<1>. DEFINE lo == IF index = <<>> THEN end ELSE index[1]
            size == IF index = <<>> THEN f - end ELSE SizeAt(mem, index[1]) + (f - end)
<1>8. /\ index # <<>> =>
           /\ Len(index) = 1 /\ index[1] \in B \ {end} /\ index[1] \in Nat /\ Start <= index[1]
           /\ index[1] < end /\ Holes(mem, B, end) = {index[1]} /\ mem[index[1]].size \in Nat
           /\ SizeAt(mem, index[1]) = mem[index[1]].size /\ Max(Range(index)) = index[1]
           /\ index[1] + mem[index[1]].size = end
           /\ \A b \in B : b <= index[1] \/ end <= b
      /\ index = <<>> => Holes(mem, B, end) = {}
  <2>1. ASSUME index # <<>>
        PROVE  /\ Len(index) = 1 /\ index[1] \in B \ {end} /\ index[1] \in Nat /\ Start <= index[1]
               /\ index[1] < end /\ Holes(mem, B, end) = {index[1]} /\ mem[index[1]].size \in Nat
               /\ SizeAt(mem, index[1]) = mem[index[1]].size /\ Max(Range(index)) = index[1]
               /\ index[1] + mem[index[1]].size = end
               /\ \A b \in B : b <= index[1] \/ end <= b
    <3>1. Len(index) = 1 /\ index[1] + mem[index[1]].size = end
      BY <1>7, <2>1
    <3>2. index[1] \in Holes(mem, B, end) /\ Holes(mem, B, end) \subseteq {index[1]}
      <4>1. /\ \A n \in 1..1 : index[n] \in Holes(mem, B, end)
            /\ \A x \in Holes(mem, B, end) : \E n \in 1..1 : index[n] = x
        BY <1>1, <3>1, ListsFacts
      <4>2. \A n \in 1..1 : n = 1
        OBVIOUS
      <4>3. 1 \in 1..1
        OBVIOUS
      <4>. QED BY ONLY <4>1, <4>2, <4>3
    <3>3. index[1] \in B \ {end} /\ Holes(mem, B, end) = {index[1]}
      BY <3>2 DEF Holes
    <3>4. /\ index[1] \in Nat /\ index[1] < end /\ mem[index[1]].size \in Nat
          /\ \A b \in B : b <= index[1] \/ end <= b
      BY <1>1, <1>3, <3>1, <3>3, TileFacts
    <3>5. SizeAt(mem, index[1]) = mem[index[1]].size
      BY <1>1, <1>3, <3>3, HoleFacts
    <3>6. Start <= index[1]
      BY <1>1, <1>3, <3>3, TilingFacts
    <3>7. Max(Range(index)) = index[1]
      <4>1. Range(index) = {index[1]}
        BY <1>1, <3>3 DEF Lists
      <4>2. \E x \in {index[1]} : \A y \in {index[1]} : x >= y
        BY <3>4
      <4>. QED BY <4>1, <4>2 DEF Max
    <3>. QED BY <3>1, <3>3, <3>4, <3>5, <3>6, <3>7
  <2>2. index = <<>> => Holes(mem, B, end) = {}
    BY <1>1, ListsFacts
  <2>. QED BY <2>1, <2>2
<1>9. /\ lo \in B /\ lo \in Nat /\ Start <= lo /\ lo <= end /\ size = f - lo /\ lo + 2 <= f
      /\ f - lo \in Nat /\ f - lo > Bare /\ f - lo < MaxAddr
      /\ lo < end \/ Holes(mem, B, end) = {}
      /\ req.align => Room(lo, f - lo, Bare)
  <2>1. CASE index = <<>>
    <3>1. lo = end /\ size = f - end
      BY <2>1
    <3>2. end \in B
      BY <1>1, <1>3, TilingFacts
    <3>3. req.align => Room(end, f - end, Bare)
      <4>1. Len(index) = 0
        BY <2>1
      <4>. QED BY <1>7, <2>1, <4>1
    <3>4. Holes(mem, B, end) = {}
      BY <1>8, <2>1
    <3>. HIDE DEF lo, size
    <3>. QED BY <1>3, <1>5, <1>6, <1>7, <3>1, <3>2, <3>3, <3>4
  <2>2. CASE index # <<>>
    <3>1. lo = index[1] /\ size = mem[index[1]].size + (f - end)
      BY <1>8, <2>2
    <3>2. /\ index[1] \in B /\ index[1] \in Nat /\ Start <= index[1]
          /\ index[1] < end /\ mem[index[1]].size \in Nat
          /\ index[1] + mem[index[1]].size = end
      BY <1>8, <2>2
    <3>3. mem[index[1]].size + (f - end) = f - index[1]
      BY <1>3, <1>6, <3>2
    <3>4. req.align => Room(index[1], f - index[1], Bare)
      BY <1>7, <2>2, <3>3
    <3>5. f <= MaxAddr
      BY <1>7
    <3>. HIDE DEF lo, size
    <3>6. lo \in Nat /\ Start <= lo /\ lo < end /\ size = f - lo /\ lo \in B
      BY ONLY <3>1, <3>2, <3>3
    <3>7. lo + 2 <= f /\ f - lo \in Nat /\ f - lo > Bare /\ f - lo < MaxAddr /\ lo <= end
      BY ONLY <1>3, <1>5, <1>6, <3>5, <3>6
    <3>. QED BY ONLY <3>1, <3>4, <3>6, <3>7
  <2>. QED BY <2>1, <2>2
<1>10. /\ mem' = Put(Put(mem, lo, Hole(size)), lo + size - 1, Footer(lo))
       /\ index' = IF index = <<>> THEN <<lo>> ELSE index
       /\ end' = f /\ mapped' = mapped \cup Backed(end, f)
       /\ status' = status /\ req' = req /\ live' = live
  <2>1. f = Start + ExpandTo(end - Start + Bare)
    BY DEF f, Grown
  <2>2. ~(f > MaxAddr)
    BY <1>3, <1>6, <1>7
  <2>3. index # <<>> => Max(Range(index)) = index[1]
    BY <1>8
  <2>. QED BY <2>1, <2>2, <2>3 DEF Expand, Ftr
<1>. HIDE DEF lo, size
<1>11. PICK n : n = mem'
  OBVIOUS
<1>12. /\ DOMAIN n = Addr /\ n[lo] = Hole(f - lo) /\ n[f - 1] = Footer(lo)
       /\ \A a \in Addr : a # lo /\ a # f - 1 => n[a] = mem[a]
  <2>1. lo + size - 1 = f - 1 /\ f - 1 \in Addr /\ lo \in Addr /\ lo # f - 1
    BY <1>3, <1>6, <1>7, <1>9 DEF Addr
  <2>. DEFINE g == Put(mem, lo, Hole(f - lo))
  <2>2. DOMAIN g = Addr /\ \A x \in Addr : g[x] = IF x = lo THEN Hole(f - lo) ELSE mem[x]
    BY <1>3, PutFacts
  <2>. HIDE DEF g
  <2>. DEFINE h == Put(g, f - 1, Footer(lo))
  <2>3. DOMAIN h = Addr /\ \A x \in Addr : h[x] = IF x = f - 1 THEN Footer(lo) ELSE g[x]
    BY <2>2, PutFacts
  <2>4. n = h
    BY <1>9, <1>10, <1>11, <2>1 DEF g
  <2>. HIDE DEF h
  <2>. QED BY <2>1, <2>2, <2>3, <2>4
<1>. DEFINE C == {b \in B : b <= lo} \cup {f}
<1>13. /\ Tiling(n, C, f) /\ Holes(n, C, f) = {a \in Holes(mem, B, end) : a < lo} \cup {lo}
       /\ \A l : Held(mem, B, end, l) /\ (\A p \in DOMAIN l : p - 1 < lo) => Held(n, C, f, l)
  <2>1. \A a \in Nat : a < lo => n[a] = mem[a]
    <3>1. SUFFICES ASSUME NEW a \in Nat, a < lo PROVE n[a] = mem[a]
      OBVIOUS
    <3>2. a \in Addr /\ a # lo /\ a # f - 1
      BY <1>3, <1>6, <1>9, <3>1 DEF Addr
    <3>. QED BY <1>12, <3>2
  <2>2. TailPaved(mem, B, end, n, C, f, lo)
    BY <1>1, <1>3, <1>6, <1>9, <1>12, <2>1 DEF TailPaved
  <2>. HIDE DEF C
  <2>. QED BY <2>2, TailPave
<1>14. Held(n, C, f, live)
  <2>1. ASSUME NEW p \in DOMAIN live PROVE p - 1 < lo
    <3>1. p - 1 \in B \ {end} /\ mem[p - 1] = Block(mem[p - 1].size)
      BY <1>1, <2>1 DEF Held, HeldBlock
    <3>2. p - 1 \in Nat /\ p - 1 < end /\ mem[p - 1].size \in Nat
      BY <1>1, <1>3, <3>1, TileFacts
    <3>3. ~mem[p - 1].is_hole
      BY <3>1, <3>2, CellFacts
    <3>4. p - 1 \notin Holes(mem, B, end)
      BY <3>3 DEF Holes
    <3>5. CASE index = <<>>
      BY <3>2, <3>5 DEF lo
    <3>6. CASE index # <<>>
      <4>1. lo = index[1]
        BY <3>6 DEF lo
      <4>. QED BY <1>8, <1>9, <3>1, <3>2, <3>4, <3>6, <4>1
    <3>. QED BY <3>5, <3>6
  <2>. QED BY <1>1, <1>13, <2>1
<1>15. Lists(index', Holes(n, C, f)) /\ index' # <<>> /\ index'[1] = lo
  <2>1. CASE index = <<>>
    <3>1. index' = <<lo>>
      BY <1>10, <2>1
    <3>2. Holes(n, C, f) = {lo}
      BY <1>8, <1>13, <2>1
    <3>3. PICK x : x = index'
      OBVIOUS
    <3>4. x \in Seq(Nat) /\ Len(x) = 1 /\ x[1] = lo /\ x # <<>>
      BY <1>9, <3>1, <3>3
    <3>5. Range(x) = {x[i] : i \in 1..Len(x)}
      BY <3>4, RangeFacts
    <3>6. Range(x) = {lo} /\ Distinct(x)
      BY <3>4, <3>5 DEF Distinct
    <3>. QED BY <3>2, <3>3, <3>4, <3>6 DEF Lists
  <2>2. CASE index # <<>>
    <3>1. index' = index /\ lo = index[1]
      BY <1>10, <2>2 DEF lo
    <3>2. Holes(n, C, f) = Holes(mem, B, end)
      BY <1>8, <1>9, <1>13, <2>2, <3>1
    <3>. QED BY <1>1, <2>2, <3>1, <3>2
  <2>. QED BY <2>1, <2>2
<1>16. Memory(n, f, mapped')
  <2>1. ASSUME NEW a \in Addr, a < Start PROVE n[a] = Zero
    <3>1. a # lo /\ a # f - 1 /\ mem[a] = Zero
      BY <1>2, <1>3, <1>6, <1>9, <2>1 DEF Memory, Addr
    <3>. QED BY <1>12, <3>1
  <2>2. ASSUME NEW a \in Nat, Start <= a, a < f PROVE PageOf(a) \in mapped'
    <3>1. CASE a < end
      BY <1>2, <1>10, <2>2, <3>1 DEF Memory
    <3>2. CASE ~(a < end)
      <4>1. f - 1 \in Nat /\ a <= f - 1 /\ end <= a
        BY <1>3, <1>6, <2>2, <3>2
      <4>2. /\ PageOf(end) \in Nat /\ PageOf(a) \in Nat /\ PageOf(f - 1) \in Nat
            /\ PageOf(end) <= PageOf(a) /\ PageOf(a) <= PageOf(f - 1)
        BY <1>3, <4>1, PageOrder
      <4>3. PageOf(a) \in PageOf(end)..PageOf(f - 1)
        BY <4>2
      <4>. QED BY <1>10, <4>3 DEF Backed
    <3>. QED BY <3>1, <3>2
  <2>3. Start + MinSize <= f /\ Start < f
    BY <1>3, <1>5, <1>6, Layout
  <2>. QED BY <1>6, <1>7, <1>12, <2>1, <2>2, <2>3 DEF Memory
<1>17. Asked(n, index', f, req)
  <2>1. lo \in Addr /\ lo \in C \ {f}
    BY <1>3, <1>6, <1>7, <1>9 DEF Addr
  <2>2. n[lo].size = f - lo /\ SizeAt(n, lo) = f - lo
    <3>1. n[lo].size = f - lo /\ n[lo].kind = "header"
      BY <1>9, <1>12, CellFacts
    <3>. QED BY <2>1, <3>1 DEF SizeAt, At
  <2>3. Fits(n, lo, Bare, req.align)
    BY <1>5, <1>9, <2>2, RoomFits
  <2>. QED BY <1>2, <1>4, <1>5, <1>9, <1>15, <2>2, <2>3 DEF Asked
<1>. QED
  <2>1. Row(n, index', f, live)
    BY <1>13, <1>14, <1>15 DEF Row
  <2>. QED BY <1>2, <1>10, <1>11, <1>16, <1>17, <2>1 DEF HeapInv

\* The hole at o becomes a hole of fr cells (or none), a block of ns cells, of
\* which the caller gets k, and a hole of the rest (or none).
CutPaved(m, B, e, n, C, o, fr, ns, rest, k) ==
  /\ e \in Nat /\ Tiling(m, B, e) /\ o \in B \ {e} /\ m[o].is_hole
  /\ fr \in Nat /\ ns \in Nat /\ rest \in Nat /\ k \in Nat /\ k + 2 <= ns
  /\ (fr = 0 \/ fr >= 2) /\ (rest = 0 \/ rest >= 2) /\ fr + ns + rest = m[o].size
  /\ fr # 0 => n[o] = Hole(fr) /\ n[o + fr - 1] = Footer(o)
  /\ n[o + fr] = Block(ns) /\ n[o + fr + ns - 1] = Footer(o + fr)
  /\ rest # 0 => /\ n[o + fr + ns] = Hole(rest)
                 /\ n[o + fr + ns + rest - 1] = Footer(o + fr + ns)
  /\ \A a \in Nat : o + fr < a /\ a <= o + fr + k => n[a] = Zero
  /\ \A a \in Nat : a < o \/ (o + m[o].size <= a /\ a < e) => n[a] = m[a]
  /\ C = B \cup {o + fr, o + fr + ns}

\* The row in which a block was cut out of a hole, and what stays in it.
LEMMA CutPave ==
  ASSUME NEW m, NEW B, NEW e, NEW n, NEW C, NEW o, NEW fr, NEW ns, NEW rest, NEW k,
         CutPaved(m, B, e, n, C, o, fr, ns, rest, k)
  PROVE  /\ Tiling(n, C, e)
         /\ Holes(n, C, e) = (IF fr = 0 THEN Holes(m, B, e) \ {o} ELSE Holes(m, B, e))
                                \cup (IF rest = 0 THEN {} ELSE {o + fr + ns})
         /\ rest # 0 => o + fr + ns \notin B
         /\ o + fr \in C \ {e} /\ (fr # 0 => o + fr \notin B)
         /\ \A l, p : HeldBlock(m, B, e, l, p) => HeldBlock(n, C, e, l, p) /\ p # o + fr + 1
<1>1. /\ e \in Nat /\ Tiling(m, B, e) /\ o \in B /\ o # e /\ m[o].is_hole
      /\ fr \in Nat /\ ns \in Nat /\ rest \in Nat /\ k \in Nat /\ k + 2 <= ns
      /\ (fr = 0 \/ fr >= 2) /\ (rest = 0 \/ rest >= 2) /\ fr + ns + rest = m[o].size
  BY DEF CutPaved
<1>2. /\ fr # 0 => n[o] = Hole(fr) /\ n[o + fr - 1] = Footer(o)
      /\ n[o + fr] = Block(ns) /\ n[o + fr + ns - 1] = Footer(o + fr)
      /\ rest # 0 => n[o + fr + ns] = Hole(rest) /\ n[o + fr + ns + rest - 1] = Footer(o + fr + ns)
  BY DEF CutPaved
<1>3. \A a \in Nat : a < o \/ (o + m[o].size <= a /\ a < e) => n[a] = m[a]
  BY DEF CutPaved
<1>4. C = B \cup {o + fr, o + fr + ns}
  BY DEF CutPaved
<1>. DEFINE hi == o + m[o].size
<1>5. /\ Start \in Nat /\ Start \in B /\ e \in B /\ \A b \in B : b \in Nat /\ Start <= b /\ b <= e
  BY <1>1, TilingFacts
<1>6. /\ o \in Nat /\ o < e /\ Start <= o /\ hi \in B /\ hi \in Nat /\ hi <= e /\ m[o].size \in Nat
      /\ hi = o + fr + ns + rest /\ \A b \in B : b <= o \/ hi <= b
  <2>1. /\ o \in Nat /\ o < e /\ hi \in B /\ hi \in Nat /\ hi <= e /\ m[o].size \in Nat
        /\ \A b \in B : b <= o \/ hi <= b
    BY <1>1, TileFacts
  <2>. QED BY <1>1, <1>5, <2>1
<1>. HIDE DEF hi
<1>7. \A b \in C : /\ b \in Nat /\ Start <= b /\ b <= e
                   /\ (b < o \/ hi <= b) => b \in B
                   /\ (o <= b /\ b < hi) => b = o \/ b = o + fr \/ (b = o + fr + ns /\ rest # 0)
  <2>1. ASSUME NEW b \in C
        PROVE  /\ b \in Nat /\ Start <= b /\ b <= e
               /\ (b < o \/ hi <= b) => b \in B
               /\ (o <= b /\ b < hi) => b = o \/ b = o + fr \/ (b = o + fr + ns /\ rest # 0)
    <3>1. CASE b \in B
      <4>1. b \in Nat /\ Start <= b /\ b <= e /\ (b <= o \/ hi <= b)
        BY ONLY <1>5, <1>6, <3>1
      <4>. QED BY ONLY <1>6, <3>1, <4>1
    <3>2. CASE b = o + fr
      <4>0. Start \in Nat
        BY ONLY <1>5
      <4>1. b \in Nat /\ Start <= b /\ b < hi /\ o <= b
        BY ONLY <1>1, <1>6, <3>2, <4>0
      <4>. QED BY ONLY <1>1, <1>6, <3>2, <4>1
    <3>3. CASE b = o + fr + ns
      <4>1. b \in Nat /\ Start <= b /\ b <= hi
        BY ONLY <1>1, <1>5, <1>6, <3>3
      <4>2. rest = 0 => b = hi
        BY ONLY <1>1, <1>6, <3>3
      <4>3. rest # 0 => b < hi /\ o <= b
        BY ONLY <1>1, <1>6, <3>3
      <4>. QED BY ONLY <1>1, <1>6, <3>3, <4>1, <4>2, <4>3
    <3>. QED BY <1>4, <2>1, <3>1, <3>2, <3>3
  <2>. QED BY <2>1
<1>8. Outside(m, B, e, n, C, o, hi)
  <2>1. ASSUME NEW b \in Nat, b < o \/ hi <= b PROVE b \in B <=> b \in C
    BY <1>4, <1>7, <2>1
  <2>2. ASSUME NEW a \in Nat, a < o \/ (hi <= a /\ a < e) PROVE n[a] = m[a]
    BY <1>3, <2>2 DEF hi
  <2>. QED BY <2>1, <2>2 DEF Outside
<1>9. /\ n[o + fr].size = ns /\ ~n[o + fr].is_hole
      /\ fr # 0 => n[o].size = fr /\ n[o].is_hole
      /\ rest # 0 => n[o + fr + ns].size = rest /\ n[o + fr + ns].is_hole
  BY <1>1, <1>2, CellFacts
<1>10. ASSUME NEW a \in C, o <= a, a < hi
       PROVE  /\ n[a].size \in Nat /\ n[a].size >= 2
              /\ n[a] \in {Hole(n[a].size), Block(n[a].size)}
              /\ Footed(n, a) /\ a + n[a].size \in C /\ a + n[a].size <= hi
              /\ \A b \in C : o <= b /\ b < hi => b <= a \/ a + n[a].size <= b
  <2>1. CASE a = o /\ fr # 0
    <3>1. n[a] = Hole(fr) /\ n[a].size = fr /\ Footed(n, a)
      BY ONLY <1>2, <1>9, <2>1 DEF Footed
    <3>2. a + fr \in C
      BY ONLY <1>4, <2>1
    <3>3. \A b \in C : o <= b /\ b < hi => b <= a \/ a + fr <= b
      BY ONLY <1>1, <1>6, <1>7, <2>1
    <3>. QED BY ONLY <1>1, <1>6, <2>1, <3>1, <3>2, <3>3
  <2>2. CASE a = o + fr
    <3>1. n[a] = Block(ns) /\ n[a].size = ns /\ Footed(n, a)
      BY ONLY <1>2, <1>9, <2>2 DEF Footed
    <3>2. a + ns \in C
      BY ONLY <1>4, <2>2
    <3>3. \A b \in C : o <= b /\ b < hi => b <= a \/ a + ns <= b
      BY ONLY <1>1, <1>6, <1>7, <2>2
    <3>. QED BY ONLY <1>1, <1>6, <2>2, <3>1, <3>2, <3>3
  <2>3. CASE a = o + fr + ns /\ rest # 0
    <3>1. n[a] = Hole(rest) /\ n[a].size = rest /\ Footed(n, a)
      BY ONLY <1>2, <1>9, <2>3 DEF Footed
    <3>2. a + rest \in C /\ a + rest = hi
      BY ONLY <1>4, <1>6, <2>3
    <3>3. \A b \in C : o <= b /\ b < hi => b <= a \/ a + rest <= b
      BY ONLY <1>1, <1>6, <1>7, <2>3
    <3>. QED BY ONLY <1>1, <1>6, <2>3, <3>1, <3>2, <3>3
  <2>. QED BY <1>1, <1>6, <1>7, <1>10, <2>1, <2>2, <2>3
<1>11. Tiling(n, C, e)
  <2>1. Ends(m, B, e, e, o, hi)
    BY <1>6 DEF Ends
  <2>2. C \subseteq Start..e /\ o \in C /\ e \in C /\ o < hi
    <3>1. o < hi
      BY <1>1, <1>6
    <3>2. ASSUME NEW b \in C PROVE b \in Start..e
      BY <1>1, <1>5, <1>7
    <3>. QED BY ONLY <1>1, <1>4, <1>5, <3>1, <3>2
  <2>3. Inside(n, C, e, o, hi)
    BY <1>10 DEF Inside
  <2>. QED BY <1>1, <1>6, <1>8, <2>1, <2>2, <2>3, Repave
<1>12. rest # 0 => o + fr + ns \notin B
  BY <1>1, <1>6
<1>13. o + fr \in C \ {e} /\ (fr # 0 => o + fr \notin B)
  BY <1>1, <1>4, <1>6
<1>14. Holes(n, C, e) = (IF fr = 0 THEN Holes(m, B, e) \ {o} ELSE Holes(m, B, e))
                          \cup (IF rest = 0 THEN {} ELSE {o + fr + ns})
  <2>. DEFINE H == (IF fr = 0 THEN Holes(m, B, e) \ {o} ELSE Holes(m, B, e))
                      \cup (IF rest = 0 THEN {} ELSE {o + fr + ns})
  <2>1. ASSUME NEW a \in B, a # e, a # o PROVE n[a] = m[a] /\ a \in C /\ a # o + fr
    <3>1. a \in Nat /\ a <= e /\ (a < o \/ hi <= a)
      BY <1>5, <1>6, <2>1
    <3>2. n[a] = m[a]
      BY <1>1, <1>3, <2>1, <3>1 DEF hi
    <3>. QED BY <1>1, <1>4, <1>6, <3>1, <3>2
  <2>2. ASSUME NEW a \in Holes(n, C, e) PROVE a \in H
    <3>1. a \in C /\ a # e /\ n[a].is_hole
      BY <2>2 DEF Holes
    <3>2. CASE a \in B /\ a # o
      BY <2>1, <3>1, <3>2 DEF Holes
    <3>3. CASE a = o
      <4>1. fr # 0
        BY <1>1, <1>6, <1>9, <3>1, <3>3
      <4>. QED BY <1>1, <3>3, <4>1 DEF Holes
    <3>4. CASE a \notin B
      <4>1. o <= a /\ a < hi
        BY <1>6, <1>7, <3>1, <3>4
      <4>2. a = o + fr + ns /\ rest # 0
        BY <1>1, <1>7, <1>9, <3>1, <3>4, <4>1
      <4>. QED BY <4>2
    <3>. QED BY <3>2, <3>3, <3>4
  <2>3. ASSUME NEW a \in Holes(m, B, e), a # o \/ fr # 0 PROVE a \in Holes(n, C, e)
    <3>1. a \in B /\ a # e /\ m[a].is_hole
      BY <2>3 DEF Holes
    <3>2. CASE a = o
      BY <1>4, <1>9, <2>3, <3>1, <3>2 DEF Holes
    <3>3. CASE a # o
      BY <2>1, <3>1, <3>3 DEF Holes
    <3>. QED BY <3>2, <3>3
  <2>4. rest # 0 => o + fr + ns \in Holes(n, C, e)
    BY <1>4, <1>5, <1>9, <1>12 DEF Holes
  <2>. QED BY <2>2, <2>3, <2>4
<1>15. ASSUME NEW l, NEW p, HeldBlock(m, B, e, l, p)
       PROVE  HeldBlock(n, C, e, l, p) /\ p # o + fr + 1
  <2>1. /\ p \in Nat /\ p - 1 \in B /\ p - 1 # e /\ m[p - 1] = Block(m[p - 1].size)
        /\ l[p] \in Nat /\ l[p] + 2 <= m[p - 1].size
        /\ \A a \in Nat : p <= a /\ a < p + l[p] => m[a] = Zero
    BY <1>15 DEF HeldBlock
  <2>2. /\ p - 1 \in Nat /\ m[p - 1].size \in Nat /\ (p - 1) + m[p - 1].size <= e
        /\ \A b \in B : b <= p - 1 \/ (p - 1) + m[p - 1].size <= b
    BY <1>1, <2>1, TileFacts
  <2>3. p - 1 # o
    BY <1>1, <2>1, <2>2, CellFacts
  <2>4. (p - 1 < o /\ (p - 1) + m[p - 1].size <= o) \/ hi <= p - 1
    BY <1>1, <1>6, <2>1, <2>2, <2>3
  <2>5. n[p - 1] = m[p - 1]
    BY <1>3, <1>5, <1>6, <2>1, <2>2, <2>4 DEF hi
  <2>6. ASSUME NEW a \in Nat, p <= a, a < p + l[p] PROVE n[a] = Zero
    <3>1. a < o \/ (hi <= a /\ a < e)
      BY ONLY <1>1, <1>6, <2>1, <2>2, <2>4, <2>6
    <3>2. m[a] = Zero
      BY ONLY <2>1, <2>6
    <3>. QED BY <1>3, <3>1, <3>2 DEF hi
  <2>7. p # o + fr + 1
    BY <1>1, <1>6, <2>1, <2>2, <2>4
  <2>. QED BY <1>4, <2>1, <2>5, <2>6, <2>7 DEF HeldBlock
<1>16. \A l, p : HeldBlock(m, B, e, l, p) => HeldBlock(n, C, e, l, p) /\ p # o + fr + 1
  BY <1>15
<1>. QED BY ONLY <1>11, <1>12, <1>13, <1>14, <1>16

\* The hole that serves the request, and how it is cut.
LEMMA ServingHole ==
  ASSUME HeapInv, req.pending, Found(Bare, req.align), NEW B, Tiling(mem, B, end),
         Lists(index, Holes(mem, B, end))
  PROVE  LET o == index[1]
             n == mem[o].size
         IN /\ index # <<>> /\ Chosen = o /\ o \in B \ {end} /\ o \in Holes(mem, B, end)
            /\ o \in Nat /\ Start <= o /\ n \in Nat /\ o + n <= end /\ mem[o].is_hole
            /\ SizeAt(mem, o) = n /\ n >= Bare /\ (req.align => Room(o, n, Bare))
<1>1. Memory(mem, end, mapped) /\ Asked(mem, index, end, req)
  BY DEF HeapInv
<1>2. /\ end \in Nat /\ end <= MaxAddr /\ Start \in Nat /\ Start > 0 /\ MaxAddr \in Nat
  BY <1>1, MemoryFacts
<1>3. req.size \in Nat /\ req.align \in BOOLEAN /\ Bare = req.size + 2 /\ Bare \in Nat
      /\ Serves(mem, index, Bare, req.align)
  BY AskedFacts
<1>4. index # <<>> /\ Fits(mem, index[1], Bare, req.align)
      /\ (req.align => Room(index[1], mem[index[1]].size, Bare))
  BY <1>1, <1>3 DEF Asked
<1>5. index[1] \in Holes(mem, B, end) /\ Chosen = index[1]
  BY <1>4, ListsFacts DEF Chosen
<1>. DEFINE o == index[1]
            n == mem[o].size
<1>6. o \in B \ {end} /\ mem[o].is_hole
  BY <1>5 DEF Holes
<1>7. o \in Nat /\ n \in Nat /\ o + n <= end /\ Start <= o
  BY <1>2, <1>6, TileFacts, TilingFacts
<1>8. SizeAt(mem, o) = n
  BY <1>2, <1>6, HoleFacts
<1>9. n >= Bare
  <2>1. n < MaxAddr
    BY <1>2, <1>7
  <2>. QED BY <1>3, <1>4, <1>7, <1>8, <2>1, RoomFits
<1>. QED BY <1>4, <1>5, <1>6, <1>7, <1>8, <1>9

\* A block in use lies beside each hole.
LEMMA ApartFacts ==
  ASSUME NEW m, NEW B, NEW e \in Nat, Tiling(m, B, e), NEW o \in B \ {e}, m[o].is_hole,
         NEW l, NEW q, HeldBlock(m, B, e, l, q), NEW a \in Nat, q <= a, a < q + l[q]
  PROVE  a < o \/ o + m[o].size <= a
<1>1. /\ q \in Nat /\ q - 1 \in B \ {e} /\ m[q - 1] = Block(m[q - 1].size)
      /\ l[q] \in Nat /\ l[q] + 2 <= m[q - 1].size
  BY DEF HeldBlock
<1>2. PICK b \in B \ {e} : b = q - 1
  BY <1>1
<1>3. /\ b \in Nat /\ m[b].size \in Nat /\ \A x \in B : x <= b \/ b + m[b].size <= x
  BY TileFacts
<1>4. ~m[b].is_hole
  BY <1>1, <1>2, <1>3, CellFacts
<1>5. o \in Nat /\ m[o].size \in Nat /\ \A x \in B : x <= o \/ o + m[o].size <= x
  BY TileFacts
<1>6. b # o /\ q = b + 1 /\ l[q] + 2 <= m[b].size
  BY <1>1, <1>2, <1>4
<1>7. o <= b \/ b + m[b].size <= o
  BY <1>3
<1>8. b <= o \/ o + m[o].size <= b
  BY <1>5
<1>9. PICK lq, sb, so \in Nat : lq = l[q] /\ sb = m[b].size /\ so = m[o].size
  BY <1>1, <1>3, <1>5
<1>10. /\ a \in Nat /\ b \in Nat /\ o \in Nat /\ b + 1 <= a /\ a < b + 1 + lq /\ lq + 2 <= sb /\ b # o
       /\ (o <= b \/ b + sb <= o) /\ (b <= o \/ o + so <= b)
  BY <1>3, <1>5, <1>6, <1>7, <1>8, <1>9
<1>11. a < o \/ o + so <= a
  BY ONLY <1>9, <1>10
<1>. QED BY <1>9, <1>11

\* alloc, once its search has succeeded: it lays a front hole, the block and the
\* rest, and what it hands out no caller holds.
LEMMA TakeHeap ==
  ASSUME HeapInv, Take
  PROVE  HeapInv' /\ A!Allocate
<1>1. PICK B : Tiling(mem, B, end) /\ Lists(index, Holes(mem, B, end)) /\ Held(mem, B, end, live)
  BY DEF HeapInv, Row
<1>2. Memory(mem, end, mapped) /\ req.pending /\ Found(Bare, req.align)
  BY DEF HeapInv, Take
<1>3. /\ DOMAIN mem = Addr /\ end \in Nat /\ Start < end /\ end <= MaxAddr /\ Start \in Nat
      /\ Start > 0 /\ MaxAddr \in Nat
  BY <1>2, MemoryFacts
<1>4. req.size \in Nat /\ req.align \in BOOLEAN /\ Bare = req.size + 2 /\ Bare \in Nat
  BY <1>2, AskedFacts
<1>5. PICK o, os : /\ o = index[1] /\ os = mem[o].size
  OBVIOUS
<1>6. /\ index # <<>> /\ Chosen = o /\ o \in B \ {end} /\ o \in Holes(mem, B, end)
      /\ o \in Nat /\ Start <= o /\ os \in Nat /\ o + os <= end /\ mem[o].is_hole
      /\ SizeAt(mem, o) = os /\ os >= Bare /\ (req.align => Room(o, os, Bare))
  BY <1>1, <1>2, <1>5, ServingHole
<1>. DEFINE orig == Chosen
            orig_size == SizeAt(mem, orig)
            new_size == BlockSize(orig_size, Bare)
            size == Sub(new_size, Overhead)
            split == req.align /\ orig >= Page
            front == Sub(Page - (orig % Page), Hdr)
            block == IF split THEN orig + front ELSE orig
            rest == Sub(IF split THEN Sub(orig_size, front) ELSE orig_size, new_size)
            hole == block + Hdr + size + Ftr
            hole_footer == (hole + rest - Ftr) % Word
            fronted == IF split
                       THEN Put(Put(mem, orig, Hole(front)), block - Ftr, Footer(orig))
                       ELSE mem
            blocked == Put(Put(fronted, block, Block(new_size)), block + Hdr + size, Footer(block))
            cut == IF rest = 0 THEN blocked
                   ELSE IF hole_footer < end
                        THEN Put(Put(blocked, hole, Hole(rest)), hole_footer, Footer(hole))
                        ELSE Put(blocked, hole, Hole(rest))
            p == block + Hdr
            used == p..(p + req.size - 1)
<1>7. /\ index' = IF rest = 0 THEN Kept(split) ELSE Inserted(Kept(split), hole, KeyIn(cut))
      /\ mem' = [a \in Addr |-> IF a \in used THEN Zero ELSE cut[a]]
      /\ live' = [q \in DOMAIN live \cup {p} |-> IF q = p THEN req.size ELSE live[q]]
      /\ status' = Touched({block, block + Hdr + size} \cup used
                               \cup (IF rest = 0 THEN {} ELSE {hole}))
      /\ req' = None /\ end' = end /\ mapped' = mapped
  BY DEF Take
<1>8. /\ orig = o /\ orig_size = os /\ split = req.align
      /\ Hdr = 1 /\ Ftr = 1 /\ Overhead = 2
  <2>1. o >= Page
    BY <1>6, PageFits
  <2>. QED BY <1>4, <1>6, <2>1, Layout
<1>9. /\ new_size \in Nat /\ new_size >= Bare /\ new_size <= os
      /\ os - new_size = 0 \/ os - new_size >= 2
      /\ os >= Bare + 2 => new_size = Bare
  <2>1. Sub(os, Bare) = os - Bare
    <3>1. os \in Int /\ Bare \in Int /\ os - Bare \in 0..(2 * MaxAddr)
      BY <1>3, <1>4, <1>6
    <3>. QED BY <3>1, SubFacts
  <2>. QED BY <1>4, <1>6, <1>8, <2>1 DEF BlockSize
<1>. HIDE DEF orig, orig_size, new_size, split
<1>10. size = new_size - 2
  <2>1. new_size \in Int /\ Overhead \in Int /\ new_size - Overhead \in 0..(2 * MaxAddr)
    BY <1>3, <1>4, <1>6, <1>8, <1>9
  <2>2. Sub(new_size, Overhead) = new_size - Overhead
    BY <2>1, SubFacts
  <2>. QED BY <1>8, <2>2
<1>11. PICK fr : fr = IF split THEN front ELSE 0
  OBVIOUS
<1>12. /\ fr \in Nat /\ (fr = 0 \/ fr >= 2) /\ (fr = 0 <=> ~split)
       /\ fr + new_size <= os /\ (os - fr - new_size = 0 \/ os - fr - new_size >= 2)
       /\ split => (o + fr + 1) % Page = 0
  <2>1. CASE ~split
    BY <1>6, <1>9, <1>11, <2>1
  <2>2. CASE split
    <3>1. PICK c \in Nat : c = o % Page /\ c < Page
      <4>1. Page \in Nat /\ Page > 2 /\ o \in Int
        BY <1>6, Layout
      <4>2. o % Page \in 0..(Page - 1)
        BY <4>1, DivMod
      <4>. QED BY <4>1, <4>2
    <3>2. /\ Page - c - 1 >= 2 /\ os >= Bare + 2
          /\ os - (Page - c - 1) = Bare \/ os - (Page - c - 1) >= Bare + 2
      BY <1>6, <1>8, <2>2, <3>1 DEF Room
    <3>3. Page \in Nat
      BY Layout
    <3>4. Page - c - 1 <= os
      BY <1>4, <1>6, <3>1, <3>2, <3>3
    <3>5. front = Page - c - 1
      <4>1. Page - c \in Int /\ Hdr \in Int /\ (Page - c) - Hdr \in 0..(2 * MaxAddr)
        BY <1>3, <1>6, <1>8, <3>1, <3>2, <3>3, <3>4
      <4>2. Sub(Page - c, Hdr) = (Page - c) - Hdr
        BY ONLY <4>1, SubFacts
      <4>. QED BY <1>8, <3>1, <3>3, <4>2
    <3>6. (o + (Page - c)) % Page = 0
      BY <1>6, <3>1, NextBoundary
    <3>7. o + (Page - c) = o + (Page - c - 1) + 1
      BY <1>6, <3>1, <3>3
    <3>8. fr = Page - c - 1 /\ new_size = Bare
      BY <1>9, <1>11, <2>2, <3>2, <3>5
    <3>. HIDE DEF front
    <3>. QED BY <1>4, <1>6, <2>2, <3>1, <3>2, <3>3, <3>6, <3>7, <3>8
  <2>. QED BY <2>1, <2>2
<1>13. block = o + fr /\ p = o + fr + 1
  BY <1>6, <1>8, <1>11
<1>14. rest = os - fr - new_size /\ rest \in Nat
  <2>1. (IF split THEN Sub(os, front) ELSE os) = os - fr
    <3>1. CASE split
      <4>1. fr = front
        BY <1>11, <3>1
      <4>2. os \in Int /\ fr \in Int /\ os - fr \in 0..(2 * MaxAddr)
        BY <1>3, <1>6, <1>9, <1>12
      <4>3. Sub(os, fr) = os - fr
        BY <4>2, SubFacts
      <4>. HIDE DEF front
      <4>. QED BY <3>1, <4>1, <4>3
    <3>2. CASE ~split
      BY <1>6, <1>11, <3>2
    <3>. QED BY <3>1, <3>2
  <2>2. /\ os - fr \in Int /\ new_size \in Int
        /\ (os - fr) - new_size \in 0..(2 * MaxAddr)
    BY <1>3, <1>6, <1>9, <1>12
  <2>3. Sub(os - fr, new_size) = (os - fr) - new_size
    BY <2>2, SubFacts
  <2>4. rest = Sub(os - fr, new_size)
    BY <1>8, <2>1
  <2>. HIDE DEF rest
  <2>. QED BY <2>2, <2>3, <2>4
<1>. HIDE DEF front, block, rest, size, p
<1>15. /\ hole = o + fr + new_size
       /\ block + Hdr + size = o + fr + new_size - 1
  BY <1>6, <1>8, <1>9, <1>10, <1>12, <1>13
<1>16. hole_footer = o + fr + new_size + rest - 1 /\ hole_footer < end
  <2>1. hole + rest - Ftr = o + fr + new_size + rest - 1
    BY <1>6, <1>8, <1>9, <1>12, <1>14, <1>15
  <2>. HIDE DEF hole
  <2>2. PICK z \in Int : z = hole + rest - Ftr /\ z \in 0..(2 * MaxAddr) /\ z < end
    BY <1>3, <1>4, <1>6, <1>9, <1>12, <1>14, <2>1
  <2>3. z % Word = z
    BY <2>2, WordFacts
  <2>. QED BY <2>1, <2>2, <2>3
<1>. HIDE DEF hole, hole_footer
<1>17. PICK n, ns : n = mem' /\ ns = new_size
  OBVIOUS
<1>18. /\ o \in Nat /\ fr \in Nat /\ ns \in Nat /\ rest \in Nat /\ os \in Nat
       /\ req.size \in Nat /\ req.size + 2 <= ns
       /\ (fr = 0 \/ fr >= 2) /\ (rest = 0 \/ rest >= 2)
       /\ fr + ns + rest = os /\ o + os <= end
  <2>1. /\ o \in Nat /\ fr \in Nat /\ ns \in Nat /\ rest \in Nat /\ os \in Nat
        /\ req.size \in Nat /\ ns >= Bare /\ Bare = req.size + 2
        /\ (fr = 0 \/ fr >= 2) /\ o + os <= end
        /\ (os - fr - ns = 0 \/ os - fr - ns >= 2) /\ rest = os - fr - ns
    BY <1>4, <1>6, <1>9, <1>12, <1>14, <1>17
  <2>. QED BY ONLY <2>1
<1>19. /\ DOMAIN fronted = Addr
       /\ \A x \in Addr : fronted[x] = IF fr # 0 /\ x = o + fr - 1 THEN Footer(o)
                                       ELSE IF fr # 0 /\ x = o THEN Hole(fr) ELSE mem[x]
  <2>1. CASE ~split
    BY <1>3, <1>12, <2>1
  <2>2. CASE split
    <3>1. front = fr /\ block - Ftr = o + fr - 1 /\ fr # 0
      <4>1. fr = front /\ fr # 0 /\ block = o + fr /\ Ftr = 1 /\ o \in Nat /\ fr \in Nat
        BY <1>6, <1>8, <1>11, <1>12, <1>13, <2>2
      <4>. HIDE DEF front
      <4>. QED BY ONLY <4>1
    <3>. DEFINE g == Put(mem, o, Hole(fr))
    <3>2. DOMAIN g = Addr /\ \A x \in Addr : g[x] = IF x = o THEN Hole(fr) ELSE mem[x]
      BY <1>3, PutFacts
    <3>3. fronted = Put(g, o + fr - 1, Footer(o))
      BY <1>8, <2>2, <3>1
    <3>. HIDE DEF g, fronted
    <3>. QED BY <3>1, <3>2, <3>3, PutFacts
  <2>. QED BY <2>1, <2>2
<1>. HIDE DEF fronted
<1>20. /\ DOMAIN blocked = Addr
       /\ \A x \in Addr : blocked[x] = IF x = o + fr + ns - 1 THEN Footer(o + fr)
                                       ELSE IF x = o + fr THEN Block(ns) ELSE fronted[x]
  <2>. DEFINE g == Put(fronted, o + fr, Block(ns))
  <2>1. DOMAIN g = Addr /\ \A x \in Addr : g[x] = IF x = o + fr THEN Block(ns) ELSE fronted[x]
    BY <1>19, PutFacts
  <2>2. blocked = Put(g, o + fr + ns - 1, Footer(o + fr))
    BY <1>13, <1>15, <1>17
  <2>. HIDE DEF g, blocked
  <2>. QED BY <2>1, <2>2, PutFacts
<1>. HIDE DEF blocked
<1>21. /\ DOMAIN cut = Addr
       /\ \A x \in Addr : cut[x] = IF rest # 0 /\ x = o + fr + ns + rest - 1 THEN Footer(o + fr + ns)
                                   ELSE IF rest # 0 /\ x = o + fr + ns THEN Hole(rest) ELSE blocked[x]
  <2>1. CASE rest = 0
    BY <1>20, <2>1
  <2>2. CASE rest # 0
    <3>. DEFINE g == Put(blocked, o + fr + ns, Hole(rest))
    <3>1. DOMAIN g = Addr /\ \A x \in Addr : g[x] = IF x = o + fr + ns THEN Hole(rest) ELSE blocked[x]
      BY <1>20, PutFacts
    <3>2. cut = Put(g, o + fr + ns + rest - 1, Footer(o + fr + ns))
      BY <1>15, <1>16, <1>17, <2>2
    <3>. HIDE DEF g, cut
    <3>. QED BY <2>2, <3>1, <3>2, PutFacts
  <2>. QED BY <2>1, <2>2
<1>. HIDE DEF cut
<1>22. \A x \in Addr : n[x] = IF o + fr < x /\ x <= o + fr + req.size THEN Zero ELSE cut[x]
  <2>1. SUFFICES ASSUME NEW x \in Addr
                 PROVE  n[x] = IF o + fr < x /\ x <= o + fr + req.size THEN Zero ELSE cut[x]
    OBVIOUS
  <2>2. n[x] = IF x \in used THEN Zero ELSE cut[x]
    BY <1>7, <1>17
  <2>3. x \in used <=> o + fr < x /\ x <= o + fr + req.size
    BY <1>3, <1>4, <1>6, <1>12, <1>13 DEF Addr
  <2>. HIDE DEF used
  <2>. QED BY <2>2, <2>3
<1>23. DOMAIN n = Addr
  BY <1>7, <1>17
<1>. DEFINE C == B \cup {o + fr, o + fr + ns}
<1>24. CutPaved(mem, B, end, n, C, o, fr, ns, rest, req.size)
  <2>1. \A x \in Nat : o <= x /\ x < o + os => x \in Addr
    BY <1>3, <1>6 DEF Addr
  <2>2. fr # 0 => n[o] = Hole(fr) /\ n[o + fr - 1] = Footer(o)
    <3>1. SUFFICES ASSUME fr # 0 PROVE n[o] = Hole(fr) /\ n[o + fr - 1] = Footer(o)
      OBVIOUS
    <3>2. /\ o \in Addr /\ o + fr - 1 \in Addr /\ o # o + fr - 1 /\ fr >= 2
      BY <1>18, <2>1, <3>1
    <3>3. fronted[o] = Hole(fr) /\ fronted[o + fr - 1] = Footer(o)
      BY ONLY <1>19, <3>1, <3>2
    <3>4. blocked[o] = Hole(fr) /\ blocked[o + fr - 1] = Footer(o)
      <4>1. /\ o # o + fr + ns - 1 /\ o # o + fr
            /\ o + fr - 1 # o + fr + ns - 1 /\ o + fr - 1 # o + fr
        BY ONLY <1>18, <3>1
      <4>. QED BY ONLY <1>20, <3>2, <3>3, <4>1
    <3>5. cut[o] = Hole(fr) /\ cut[o + fr - 1] = Footer(o)
      <4>1. /\ o # o + fr + ns + rest - 1 /\ o # o + fr + ns
            /\ o + fr - 1 # o + fr + ns + rest - 1 /\ o + fr - 1 # o + fr + ns
        BY ONLY <1>18, <3>1
      <4>. QED BY ONLY <1>21, <3>2, <3>4, <4>1
    <3>6. ~(o + fr < o) /\ ~(o + fr < o + fr - 1)
      BY ONLY <1>18
    <3>. QED BY ONLY <1>22, <3>2, <3>5, <3>6
  <2>3. n[o + fr] = Block(ns) /\ n[o + fr + ns - 1] = Footer(o + fr)
    <3>1. /\ o + fr \in Addr /\ o + fr + ns - 1 \in Addr /\ o + fr # o + fr + ns - 1
      BY <1>18, <2>1
    <3>2. blocked[o + fr] = Block(ns) /\ blocked[o + fr + ns - 1] = Footer(o + fr)
      BY ONLY <1>20, <3>1
    <3>3. cut[o + fr] = Block(ns) /\ cut[o + fr + ns - 1] = Footer(o + fr)
      <4>1. /\ o + fr # o + fr + ns /\ o + fr + ns - 1 # o + fr + ns
            /\ rest # 0 => /\ o + fr # o + fr + ns + rest - 1
                           /\ o + fr + ns - 1 # o + fr + ns + rest - 1
        BY ONLY <1>18
      <4>. QED BY ONLY <1>21, <3>1, <3>2, <4>1
    <3>4. ~(o + fr < o + fr) /\ ~(o + fr + ns - 1 <= o + fr + req.size)
      BY ONLY <1>18
    <3>. QED BY ONLY <1>22, <3>1, <3>3, <3>4
  <2>4. rest # 0 => n[o + fr + ns] = Hole(rest) /\ n[o + fr + ns + rest - 1] = Footer(o + fr + ns)
    <3>1. SUFFICES ASSUME rest # 0
                   PROVE  /\ n[o + fr + ns] = Hole(rest)
                          /\ n[o + fr + ns + rest - 1] = Footer(o + fr + ns)
      OBVIOUS
    <3>2. /\ o + fr + ns \in Addr /\ o + fr + ns + rest - 1 \in Addr
          /\ o + fr + ns # o + fr + ns + rest - 1
      BY <1>18, <2>1, <3>1
    <3>3. cut[o + fr + ns] = Hole(rest) /\ cut[o + fr + ns + rest - 1] = Footer(o + fr + ns)
      BY ONLY <1>21, <3>1, <3>2
    <3>4. ~(o + fr + ns <= o + fr + req.size) /\ ~(o + fr + ns + rest - 1 <= o + fr + req.size)
      BY ONLY <1>18, <3>1
    <3>. QED BY ONLY <1>22, <3>2, <3>3, <3>4
  <2>5. ASSUME NEW a \in Nat, o + fr < a, a <= o + fr + req.size PROVE n[a] = Zero
    <3>1. a \in Addr
      BY <1>18, <2>1, <2>5
    <3>. QED BY <1>22, <2>5, <3>1
  <2>6. ASSUME NEW a \in Nat, a < o \/ (o + os <= a /\ a < end) PROVE n[a] = mem[a]
    <3>1. /\ a \in Addr /\ a # o /\ a # o + fr /\ a # o + fr + ns - 1
          /\ fr # 0 => a # o + fr - 1
          /\ rest # 0 => a # o + fr + ns /\ a # o + fr + ns + rest - 1
          /\ ~(o + fr < a /\ a <= o + fr + req.size)
      BY <1>3, <1>18, <2>6 DEF Addr
    <3>2. fronted[a] = mem[a]
      BY ONLY <1>19, <3>1
    <3>3. blocked[a] = mem[a]
      BY ONLY <1>20, <3>1, <3>2
    <3>4. cut[a] = mem[a]
      BY ONLY <1>21, <3>1, <3>3
    <3>. QED BY ONLY <1>22, <3>1, <3>4
  <2>7. /\ end \in Nat /\ Tiling(mem, B, end) /\ o \in B \ {end} /\ mem[o].is_hole
        /\ fr \in Nat /\ ns \in Nat /\ rest \in Nat /\ req.size \in Nat /\ req.size + 2 <= ns
        /\ (fr = 0 \/ fr >= 2) /\ (rest = 0 \/ rest >= 2) /\ fr + ns + rest = mem[o].size
    BY <1>1, <1>3, <1>4, <1>5, <1>6, <1>12, <1>14, <1>18
  <2>8. os = mem[o].size
    BY <1>5
  <2>. QED BY ONLY <2>2, <2>3, <2>4, <2>5, <2>6, <2>7, <2>8 DEF CutPaved
<1>25. /\ Tiling(n, C, end)
       /\ Holes(n, C, end) = (IF fr = 0 THEN Holes(mem, B, end) \ {o} ELSE Holes(mem, B, end))
                                \cup (IF rest = 0 THEN {} ELSE {o + fr + ns})
       /\ rest # 0 => o + fr + ns \notin B
       /\ o + fr \in C \ {end} /\ (fr # 0 => o + fr \notin B)
       /\ \A l, q : HeldBlock(mem, B, end, l, q) => HeldBlock(n, C, end, l, q) /\ q # o + fr + 1
  <2>. HIDE DEF C
  <2>. QED BY <1>24, CutPave
<1>26. Lists(index', Holes(n, C, end))
  <2>1. Lists(Kept(split), IF fr = 0 THEN Holes(mem, B, end) \ {o} ELSE Holes(mem, B, end))
    <3>1. CASE split
      BY <1>1, <1>12, <3>1 DEF Kept
    <3>2. CASE ~split
      <4>1. Lists(Tail(index), Holes(mem, B, end) \ {Head(index)})
        BY <1>1, <1>6, TailLists
      <4>2. Head(index) = o
        BY <1>6 DEF Chosen
      <4>. QED BY <1>12, <3>2, <4>1, <4>2 DEF Kept
    <3>. QED BY <3>1, <3>2
  <2>2. CASE rest = 0
    <3>1. Holes(n, C, end) = IF fr = 0 THEN Holes(mem, B, end) \ {o} ELSE Holes(mem, B, end)
      BY <1>25, <2>2
    <3>. QED BY <1>7, <2>1, <2>2, <3>1
  <2>3. CASE rest # 0
    <3>. DEFINE H == IF fr = 0 THEN Holes(mem, B, end) \ {o} ELSE Holes(mem, B, end)
    <3>1. o + fr + ns \in Nat /\ o + fr + ns \notin H
      BY <1>6, <1>12, <1>18, <1>25, <2>3 DEF Holes
    <3>2. Holes(n, C, end) = H \cup {o + fr + ns}
      BY <1>25, <2>3
    <3>3. index' = Inserted(Kept(split), o + fr + ns, KeyIn(cut))
      BY <1>7, <1>15, <1>17, <2>3
    <3>4. Lists(Kept(split), H)
      BY <2>1
    <3>. HIDE DEF H, C
    <3>. QED BY <3>1, <3>2, <3>3, <3>4, InsertedLists
  <2>. QED BY <2>2, <2>3
<1>27. Held(n, C, end, live')
  <2>1. ASSUME NEW q \in DOMAIN live' PROVE HeldBlock(n, C, end, live', q)
    <3>1. CASE q = p
      <4>1. live'[q] = req.size
        BY <1>7, <2>1, <3>1
      <4>2. q = o + fr + 1 /\ q - 1 = o + fr /\ q \in Nat
        BY <1>6, <1>12, <1>13, <3>1
      <4>3. n[q - 1] = Block(ns) /\ n[q - 1].size = ns
        BY <1>18, <1>24, <4>2, CellFacts DEF CutPaved
      <4>4. \A a \in Nat : q <= a /\ a < q + req.size => n[a] = Zero
        <5>1. \A a \in Nat : o + fr < a /\ a <= o + fr + req.size => n[a] = Zero
          BY <1>24 DEF CutPaved
        <5>. QED BY <1>4, <1>6, <1>12, <4>2, <5>1
      <4>5. req.size \in Nat /\ req.size + 2 <= ns
        BY <1>4, <1>18
      <4>. QED BY <1>25, <4>1, <4>2, <4>3, <4>4, <4>5 DEF HeldBlock
    <3>2. CASE q # p
      <4>1. q \in DOMAIN live /\ live'[q] = live[q]
        BY <1>7, <2>1, <3>2
      <4>2. HeldBlock(mem, B, end, live, q)
        BY <1>1, <4>1 DEF Held
      <4>3. HeldBlock(n, C, end, live, q)
        BY <1>25, <4>2
      <4>. QED BY <4>1, <4>3 DEF HeldBlock
    <3>. QED BY <3>1, <3>2
  <2>. QED BY <2>1 DEF Held
<1>28. Memory(n, end, mapped)
  <2>1. ASSUME NEW a \in Addr, a < Start PROVE n[a] = Zero
    <3>1. a \in Nat /\ a < o
      BY <1>3, <1>6, <2>1 DEF Addr
    <3>2. n[a] = mem[a]
      BY <1>24, <3>1 DEF CutPaved
    <3>3. mem[a] = Zero
      BY <1>2, <2>1 DEF Memory
    <3>. QED BY <3>2, <3>3
  <2>. QED BY <1>2, <1>23, <2>1 DEF Memory
<1>29. status' = "ok"
  <2>1. ASSUME NEW a \in {block, block + Hdr + size} \cup used \cup (IF rest = 0 THEN {} ELSE {hole})
        PROVE  PageOf(a) \in mapped
    <3>1. a \in Nat /\ Start <= a /\ a < end
      <4>1. /\ o + fr \in Nat /\ Start <= o + fr /\ o + fr + ns + rest <= end
            /\ o + fr + ns - 1 \in Nat
        BY <1>3, <1>4, <1>6, <1>12, <1>14, <1>18
      <4>2. CASE a = block
        BY <1>3, <1>4, <1>13, <1>14, <1>18, <4>1, <4>2
      <4>3. CASE a = block + Hdr + size
        BY <1>3, <1>4, <1>14, <1>15, <1>17, <1>18, <4>1, <4>3
      <4>4. CASE a \in used
        BY <1>3, <1>4, <1>13, <1>14, <1>18, <4>1, <4>4
      <4>5. CASE rest # 0 /\ a = hole
        BY <1>3, <1>4, <1>14, <1>15, <1>17, <1>18, <4>1, <4>5
      <4>. QED BY <2>1, <4>2, <4>3, <4>4, <4>5
    <3>. QED BY <1>2, <3>1 DEF Memory
  <2>. HIDE DEF used
  <2>. QED BY <1>7, <2>1 DEF Touched
<1>30. Asked(n, index', end, None)
  BY DEF Asked, None
<1>31. Row(n, index', end, live')
  BY <1>25, <1>26, <1>27 DEF Row
<1>32. A!Allocate
  <2>1. PICK c \in Nat : c = o + fr + 1
    BY <1>6, <1>12
  <2>2. /\ Start <= c /\ c <= MaxAddr /\ c + req.size <= MaxAddr /\ o <= c
        /\ c + req.size <= o + os
    BY <1>3, <1>6, <1>18, <2>1
  <2>3. c \notin DOMAIN live
    <3>1. ASSUME c \in DOMAIN live PROVE FALSE
      <4>1. HeldBlock(mem, B, end, live, c)
        BY <1>1, <3>1 DEF Held
      <4>. QED BY <1>25, <2>1, <4>1
    <3>. QED BY <3>1
  <2>4. A!Free(c, req.size)
    <3>1. ASSUME NEW q \in DOMAIN live, NEW a \in A!Cells(c, req.size), a \in A!Cells(q, live[q])
          PROVE  FALSE
      <4>1. HeldBlock(mem, B, end, live, q) /\ q \in Nat /\ live[q] \in Nat
        BY <1>1, <3>1 DEF Held, HeldBlock
      <4>2. a \in Nat /\ c <= a /\ a < c + req.size
        BY <1>4, <3>1 DEF A!Cells
      <4>3. q <= a /\ a < q + live[q]
        BY <3>1, <4>1, <4>2 DEF A!Cells
      <4>4. a < o \/ o + mem[o].size <= a
        BY <1>1, <1>3, <1>6, <4>1, <4>2, <4>3, ApartFacts
      <4>. QED BY <1>5, <1>6, <1>18, <2>2, <4>2, <4>4
    <3>. QED BY <3>1 DEF A!Free
  <2>5. req.align => c % Page = 0
    BY <1>8, <1>12, <2>1
  <2>6. live' = [q \in DOMAIN live \cup {c} |-> IF q = c THEN req.size ELSE live[q]]
    BY <1>7, <1>13, <2>1
  <2>7. req.size \in Sizes /\ req.align \in Aligns
    BY <1>2 DEF HeapInv, Asked
  <2>8. c \in Start..MaxAddr
    BY <1>3, <2>1, <2>2
  <2>. QED BY <2>2, <2>3, <2>4, <2>5, <2>6, <2>7, <2>8 DEF A!Allocate
<1>. QED BY <1>7, <1>17, <1>28, <1>29, <1>30, <1>31, <1>32 DEF HeapInv

\* The part of the row from lo to hi becomes one hole.
MergePaved(m, B, e, n, C, lo, hi) ==
  /\ e \in Nat /\ Tiling(m, B, e) /\ lo \in B /\ hi \in B /\ lo + 2 <= hi
  /\ n[lo] = Hole(hi - lo) /\ n[hi - 1] = Footer(lo)
  /\ \A a \in Nat : a < lo \/ (hi <= a /\ a < e) => n[a] = m[a]
  /\ C = {b \in B : b <= lo \/ hi <= b}

\* The row in which pieces were joined, and what stays in it.
LEMMA MergePave ==
  ASSUME NEW m, NEW B, NEW e, NEW n, NEW C, NEW lo, NEW hi, MergePaved(m, B, e, n, C, lo, hi)
  PROVE  /\ Tiling(n, C, e)
         /\ Holes(n, C, e) = {a \in Holes(m, B, e) : a < lo \/ hi <= a} \cup {lo}
         /\ \A l, p : HeldBlock(m, B, e, l, p) /\ (p - 1 < lo \/ hi <= p - 1)
                     => HeldBlock(n, C, e, l, p)
<1>1. /\ e \in Nat /\ Tiling(m, B, e) /\ lo \in B /\ hi \in B /\ lo + 2 <= hi
      /\ n[lo] = Hole(hi - lo) /\ n[hi - 1] = Footer(lo)
  BY DEF MergePaved
<1>2. \A a \in Nat : a < lo \/ (hi <= a /\ a < e) => n[a] = m[a]
  BY DEF MergePaved
<1>3. /\ \A b \in C : b \in B /\ (b <= lo \/ hi <= b)
      /\ \A b \in B : (b <= lo \/ hi <= b) => b \in C
  BY DEF MergePaved
<1>4. /\ Start \in Nat /\ Start \in B /\ e \in B /\ \A b \in B : b \in Nat /\ Start <= b /\ b <= e
  BY <1>1, TilingFacts
<1>5. /\ lo \in Nat /\ Start <= lo /\ lo < e /\ hi \in Nat /\ hi <= e /\ hi - lo \in Nat /\ lo < hi
  BY <1>1, <1>4
<1>6. n[lo].size = hi - lo /\ n[lo].is_hole
  BY <1>1, <1>5, CellFacts
<1>7. Tiling(n, C, e)
  <2>1. Ends(m, B, e, e, lo, hi)
    BY <1>1 DEF Ends
  <2>2. C \subseteq Start..e /\ lo \in C /\ e \in C
    <3>1. ASSUME NEW b \in C PROVE b \in Start..e
      <4>1. b \in B
        BY <1>3
      <4>. QED BY <1>1, <1>4, <4>1
    <3>2. lo \in C /\ e \in C
      BY <1>1, <1>3, <1>4, <1>5
    <3>. QED BY ONLY <3>1, <3>2
  <2>3. Outside(m, B, e, n, C, lo, hi)
    BY <1>2, <1>3, <1>5 DEF Outside
  <2>4. ASSUME NEW a \in C, lo <= a, a < hi
        PROVE  /\ n[a].size \in Nat /\ n[a].size >= 2
               /\ n[a] \in {Hole(n[a].size), Block(n[a].size)}
               /\ Footed(n, a) /\ a + n[a].size \in C /\ a + n[a].size <= hi
               /\ \A b \in C : lo <= b /\ b < hi => b <= a \/ a + n[a].size <= b
    <3>1. a = lo
      <4>1. a \in B /\ (a <= lo \/ hi <= a)
        BY <1>3, <2>4
      <4>2. a \in Nat
        BY <1>4, <4>1
      <4>. QED BY <1>5, <2>4, <4>1, <4>2
    <3>2. a + n[a].size = hi /\ hi \in C
      BY <1>1, <1>3, <1>5, <1>6, <3>1
    <3>3. Footed(n, a)
      <4>1. a + n[a].size - 1 = hi - 1
        BY <1>5, <1>6, <3>1
      <4>. QED BY <1>1, <3>1, <4>1 DEF Footed
    <3>4. \A b \in C : lo <= b /\ b < hi => b <= a
      BY <1>3, <1>4, <1>5, <3>1
    <3>. QED BY ONLY <1>1, <1>5, <1>6, <3>1, <3>2, <3>3, <3>4
  <2>5. Inside(n, C, e, lo, hi)
    BY <2>4 DEF Inside
  <2>. QED BY <1>1, <1>5, <2>1, <2>2, <2>3, <2>5, Repave
<1>8. ASSUME NEW a \in B, a # e, a < lo \/ hi <= a PROVE n[a] = m[a] /\ a \in C
  <2>1. a \in Nat /\ a <= e
    BY <1>4
  <2>2. a < e
    BY <1>1, <1>8, <2>1
  <2>. QED BY <1>2, <1>3, <1>5, <1>8, <2>1, <2>2
<1>9. Holes(n, C, e) = {a \in Holes(m, B, e) : a < lo \/ hi <= a} \cup {lo}
  <2>. DEFINE H == {a \in Holes(m, B, e) : a < lo \/ hi <= a} \cup {lo}
  <2>1. ASSUME NEW a \in Holes(n, C, e) PROVE a \in H
    <3>1. a \in C /\ a # e /\ n[a].is_hole
      BY <2>1 DEF Holes
    <3>2. a \in B /\ (a < lo \/ hi <= a \/ a = lo)
      <4>1. a \in B /\ (a <= lo \/ hi <= a)
        BY <1>3, <3>1
      <4>2. a \in Nat
        BY <1>4, <4>1
      <4>. QED BY <1>5, <4>1, <4>2
    <3>. QED BY <1>8, <3>1, <3>2 DEF Holes
  <2>2. ASSUME NEW a \in Holes(m, B, e), a < lo \/ hi <= a PROVE a \in Holes(n, C, e)
    <3>1. a \in B /\ a # e /\ m[a].is_hole
      BY <2>2 DEF Holes
    <3>. QED BY <1>8, <2>2, <3>1 DEF Holes
  <2>3. lo \in Holes(n, C, e)
    <3>1. lo \in C /\ lo # e
      BY <1>1, <1>3, <1>5
    <3>. QED BY <1>6, <3>1 DEF Holes
  <2>. QED BY <2>1, <2>2, <2>3
<1>10. ASSUME NEW l, NEW p, HeldBlock(m, B, e, l, p), p - 1 < lo \/ hi <= p - 1
       PROVE  HeldBlock(n, C, e, l, p)
  <2>1. /\ p \in Nat /\ p - 1 \in B /\ p - 1 # e /\ m[p - 1] = Block(m[p - 1].size)
        /\ l[p] \in Nat /\ l[p] + 2 <= m[p - 1].size
        /\ \A a \in Nat : p <= a /\ a < p + l[p] => m[a] = Zero
    BY <1>10 DEF HeldBlock
  <2>2. /\ p - 1 \in Nat /\ m[p - 1].size \in Nat /\ (p - 1) + m[p - 1].size <= e
        /\ \A b \in B : b <= p - 1 \/ (p - 1) + m[p - 1].size <= b
    BY <1>1, <2>1, TileFacts
  <2>3. n[p - 1] = m[p - 1] /\ p - 1 \in C
    BY <1>8, <1>10, <2>1
  <2>4. ASSUME NEW a \in Nat, p <= a, a < p + l[p] PROVE n[a] = Zero
    <3>1. lo <= p - 1 \/ (p - 1) + m[p - 1].size <= lo
      BY ONLY <1>1, <1>5, <2>2
    <3>2. a < lo \/ (hi <= a /\ a < e)
      <4>1. /\ a \in Nat /\ p \in Nat /\ p <= a /\ a < p + l[p] /\ l[p] \in Nat
            /\ l[p] + 2 <= m[p - 1].size /\ m[p - 1].size \in Nat
            /\ (p - 1) + m[p - 1].size <= e /\ (p - 1 < lo \/ hi <= p - 1)
        BY ONLY <1>10, <2>1, <2>2, <2>4
      <4>2. PICK k, z \in Nat : k = p - 1 /\ z = m[p - 1].size
        BY ONLY <2>2, <4>1
      <4>3. p = k + 1 /\ k \in Nat
        BY <2>2, <4>1, <4>2
      <4>. QED BY ONLY <1>1, <1>5, <3>1, <4>1, <4>2, <4>3
    <3>3. m[a] = Zero
      BY ONLY <2>1, <2>4
    <3>. QED BY <1>2, <3>2, <3>3
  <2>. QED BY <2>1, <2>3, <2>4 DEF HeldBlock
<1>11. \A l, p : HeldBlock(m, B, e, l, p) /\ (p - 1 < lo \/ hi <= p - 1) => HeldBlock(n, C, e, l, p)
  BY <1>10
<1>. QED BY ONLY <1>7, <1>9, <1>11

\* A heap that starts less than its least size below a hole shrinks to that size.
LEMMA ContractFacts ==
  ASSUME NEW n \in Nat, n + 2 <= MinSize
  PROVE  ContractTo(n) = MinSize
<1>1. Page \in Nat /\ Page > 2 /\ MinSize \in Nat /\ MinSize % Page = 0
  BY Layout
<1>2. ASSUME (n \div Page) % 2 = 1 PROVE 2 * Page <= MinSize
  <2>1. n >= Page
    <3>1. n < Page => n \div Page = 0
      BY <1>1
    <3>2. 0 % 2 = 0
      OBVIOUS
    <3>. QED BY <1>1, <1>2, <3>1, <3>2
  <2>2. PICK q \in Int : MinSize = Page * q + 0
    <3>1. MinSize \in Int
      BY <1>1
    <3>. QED BY <1>1, <3>1, DivMod
  <2>3. q >= 2
    <3>1. MinSize > Page
      BY <1>1, <2>1
    <3>2. Page * q > Page * 1
      BY <1>1, <2>2, <3>1
    <3>. QED BY <1>1, <3>2
  <2>. QED BY <1>1, <2>2, <2>3
<1>. QED BY <1>1, <1>2 DEF ContractTo

\* What free finds in front of a block: the footer of the piece before it, which
\* is a hole or a block; in front of the first piece there is no footer.
LEMMA FrontFacts ==
  ASSUME NEW m, NEW B, NEW e, NEW S, Memory(m, e, S), Tiling(m, B, e),
         NEW own \in B \ {e}, NEW c
  PROVE  /\ Unifies(Put(m, own, c), own - 1) <=> Unifies(m, own - 1)
         /\ Unifies(m, own - 1) =>
              \E b \in B \ {e} :
                /\ m[b].is_hole /\ b < own /\ b + m[b].size = own
                /\ At(m, own - 1).header = b /\ At(Put(m, own, c), own - 1).header = b
<1>1. /\ DOMAIN m = Addr /\ e \in Nat /\ Start < e /\ e <= MaxAddr /\ Start \in Nat
      /\ Start > 0 /\ MaxAddr \in Nat
      /\ \A a \in Nat : a < e => a \in Addr /\ At(m, a) = m[a]
  BY MemoryFacts
<1>2. own \in Nat /\ own < e /\ Start <= own
  BY <1>1, TileFacts, TilingFacts
<1>. DEFINE g == Put(m, own, c)
<1>3. DOMAIN g = Addr /\ \A x \in Addr : g[x] = IF x = own THEN c ELSE m[x]
  BY <1>1, PutFacts
<1>. HIDE DEF g
<1>4. \A x \in Nat : x < own => At(g, x) = At(m, x) /\ At(m, x) = m[x] /\ x \in Addr
  <2>1. SUFFICES ASSUME NEW x \in Nat, x < own
                 PROVE  At(g, x) = At(m, x) /\ At(m, x) = m[x] /\ x \in Addr
    OBVIOUS
  <2>2. x \in Addr /\ At(m, x) = m[x] /\ x # own
    BY <1>1, <1>2, <2>1
  <2>. QED BY <1>3, <2>2 DEF At
<1>5. own - 1 \in Nat /\ own - 1 < own
  BY <1>1, <1>2
<1>6. CASE own = Start
  <2>1. At(m, own - 1) = Zero
    BY <1>1, <1>4, <1>5, <1>6 DEF Memory
  <2>2. At(m, own - 1).kind # "footer"
    BY <2>1 DEF Zero
  <2>. QED BY <1>4, <1>5, <2>2 DEF Unifies, g
<1>7. CASE own # Start
  <2>1. PICK b \in B \ {e} : b < own /\ b + m[b].size = own
    BY <1>1, <1>7, Predecessor
  <2>2. b \in Nat /\ m[b].size \in Nat /\ Footed(m, b)
    BY <1>1, <2>1, TileFacts
  <2>3. m[own - 1] = Footer(b)
    BY <2>1, <2>2 DEF Footed
  <2>4. At(m, own - 1) = Footer(b) /\ At(g, own - 1) = Footer(b)
    BY <1>4, <1>5, <2>3
  <2>5. Footer(b).kind = "footer" /\ Footer(b).header = b
    BY DEF Footer
  <2>6. HoleAt(m, b) = m[b].is_hole /\ HoleAt(g, b) = HoleAt(m, b)
    <3>1. HoleAt(m, b) = m[b].is_hole
      BY <1>1, HoleFacts
    <3>. QED BY <1>4, <2>1, <2>2, <3>1 DEF HoleAt
  <2>7. /\ Unifies(m, own - 1) <=> m[b].is_hole
        /\ Unifies(g, own - 1) <=> m[b].is_hole
    BY <2>4, <2>5, <2>6 DEF Unifies
  <2>. QED BY <2>1, <2>4, <2>5, <2>7 DEF g
<1>. QED BY <1>6, <1>7

\* The frames contract gives back lie behind the heap's new end.
LEMMA ReleasedFacts ==
  ASSUME NEW e \in Nat, e % Page = 0, NEW z \in Nat, NEW a \in Nat, a < Start + z
  PROVE  PageOf(a) \notin Released(e - Start, z)
<1>1. SUFFICES ASSUME NEW k \in 1..((e - Start) \div Page), z < (e - Start) - k * Page,
                      PageOf(a) = PageOf(Start + (e - Start) - k * Page)
               PROVE  FALSE
  BY DEF Released
<1>2. Page \in Nat /\ Start \in Nat /\ Page > 2
  BY Layout
<1>3. k \in Int /\ Page * k + 0 = Page * k /\ Page * k \in Int /\ k * Page = Page * k
  <2>1. (e - Start) \div Page \in Int
    BY <1>2
  <2>. QED BY <1>2, <2>1
<1>4. (Page * k) % Page = 0
  BY <1>2, <1>3, ModUnique
<1>5. PICK x \in Int : x = Page * k
  BY <1>3
<1>6. (e - x) % Page = 0
  BY <1>4, <1>5, ModDifference
<1>7. Start + (e - Start) - k * Page = e - x /\ e - x \in Nat /\ a < e - x
  <2>1. z < (e - Start) - x /\ k * Page = x /\ a \in Nat /\ a < Start + z
    BY <1>1, <1>3, <1>5
  <2>2. e \in Nat /\ Start \in Nat /\ z \in Nat /\ x \in Int
    BY <1>2, <1>5
  <2>. QED BY ONLY <2>1, <2>2
<1>8. PageOf(a) < PageOf(e - x) /\ PageOf(a) \in Nat
  BY <1>6, <1>7, PageOrder
<1>. QED BY <1>1, <1>7, <1>8

\* free: the block and the holes on its sides become one hole; if that reaches
\* the end, the heap shrinks to its least size.
LEMMA FreeHeap ==
  ASSUME HeapInv, NEW p \in DOMAIN live, F1(p), F2(p), F3(p), Free(p)
  PROVE  HeapInv'
<1>1. PICK B : Tiling(mem, B, end) /\ Lists(index, Holes(mem, B, end)) /\ Held(mem, B, end, live)
  BY DEF HeapInv, Row
<1>2. Memory(mem, end, mapped) /\ ~req.pending /\ Asked(mem, index, end, req)
  BY DEF HeapInv, Free
<1>3. /\ DOMAIN mem = Addr /\ end \in Nat /\ Start < end /\ end <= MaxAddr /\ Start \in Nat
      /\ Start > 0 /\ MaxAddr \in Nat /\ Start + MinSize <= end /\ end % Page = 0
      /\ MinSize \in Nat
      /\ \A a \in Nat : a < end => a \in Addr /\ At(mem, a) = mem[a]
  BY <1>2, MemoryFacts, Layout
<1>4. Hdr = 1 /\ Ftr = 1 /\ Overhead = 2
  BY Layout
<1>. DEFINE own == p - Hdr
            footer == own + SizeAt(mem, own) - Ftr
            freed == Put(mem, own, Hole(SizeAt(mem, own)))
            left == Unifies(freed, own - Ftr)
            header == IF left THEN At(freed, own - Ftr).header ELSE own
            lefted == IF left
                      THEN Put(Put(freed, footer, Footer(header)), header,
                               Hole((SizeAt(freed, header) + SizeAt(freed, own)) % Word))
                      ELSE freed
            next == footer + Ftr
            right == HoleAt(lefted, next)
            joined == IF right
                      THEN Put(lefted, header,
                               Hole((SizeAt(lefted, header) + SizeAt(lefted, next)) % Word))
                      ELSE lefted
            last == IF right THEN next + SizeAt(lefted, next) - Ftr ELSE footer
            unlisted == IF right THEN Removed(index, next) ELSE index
            old == end - Start
            new == ContractTo(Sub(header, Start))
            shrinks == last + Ftr = end
            size == Sub(SizeAt(joined, header), old - new)
            exists == size > 0
            shrunk == IF shrinks /\ exists
                      THEN Put(Put(joined, header, Hole(size)), header + size - Ftr, Footer(header))
                      ELSE joined
            listed == IF shrinks /\ ~exists THEN Removed(unlisted, next) ELSE unlisted
            stops == \/ At(mem, own).kind # "header" \/ At(mem, footer).kind # "footer"
                     \/ right /\ next \notin Range(index)
                     \/ shrinks /\ Sub(header, Start) >= old
<1>5. /\ live' = [q \in DOMAIN live \ {p} |-> live[q]] /\ req' = req
      /\ ~stops =>
           /\ mem' = shrunk
           /\ index' = IF left THEN listed ELSE Inserted(listed, header, KeyIn(shrunk))
           /\ end' = IF shrinks THEN Start + new ELSE end
           /\ mapped' = IF shrinks THEN mapped \ Released(old, new) ELSE mapped
           /\ status' = Touched({own, footer, next})
  BY DEF Free
<1>. HIDE DEF own, footer, freed, left, header, lefted, next, right, joined, last,
    unlisted,
              old, new, shrinks, size, exists, shrunk, listed, stops
<1>6. PICK ow, bs : ow = p - 1 /\ bs = mem[ow].size
  OBVIOUS
<1>7. /\ HeldBlock(mem, B, end, live, p) /\ ow \in B \ {end} /\ ow \in Nat /\ ow < end
      /\ Start <= ow /\ bs \in Nat /\ bs >= 2 /\ mem[ow] = Block(bs) /\ ow + bs \in B
      /\ ~mem[ow].is_hole /\ SizeAt(mem, ow) = bs /\ mem[ow + bs - 1] = Footer(ow)
      /\ p \in Nat /\ ow + bs \in Nat
      /\ \A b \in B : b \in Nat /\ Start <= b /\ b <= end
      /\ \A b \in B : b <= ow \/ ow + bs <= b
  <2>1. HeldBlock(mem, B, end, live, p)
    BY <1>1 DEF Held
  <2>2. p \in Nat /\ ow \in B \ {end} /\ mem[ow] = Block(bs)
    BY <1>6, <2>1 DEF HeldBlock
  <2>3. /\ ow \in Nat /\ ow < end /\ bs \in Nat /\ bs >= 2 /\ ow + bs \in B /\ ow + bs \in Nat
        /\ Footed(mem, ow) \/ (mem[ow].is_hole /\ ow + bs = end)
        /\ \A b \in B : b <= ow \/ ow + bs <= b
    <3>1. /\ ow \in Nat /\ ow < end /\ mem[ow].size \in Nat /\ mem[ow].size >= 2
          /\ ow + mem[ow].size \in B /\ ow + mem[ow].size \in Nat
          /\ Footed(mem, ow) \/ (mem[ow].is_hole /\ ow + mem[ow].size = end)
          /\ \A b \in B : b <= ow \/ ow + mem[ow].size <= b
      BY <1>1, <1>3, <2>2, TileFacts
    <3>. QED BY <1>6, <3>1
  <2>4. ~mem[ow].is_hole /\ SizeAt(mem, ow) = bs
    <3>1. SizeAt(mem, ow) = mem[ow].size
      BY <1>1, <1>3, <2>2, HoleFacts
    <3>2. ~mem[ow].is_hole
      BY <2>2, <2>3, CellFacts
    <3>. QED BY <1>6, <3>1, <3>2
  <2>5. mem[ow + bs - 1] = Footer(ow)
    BY <1>6, <2>3, <2>4 DEF Footed
  <2>6. \A b \in B : b \in Nat /\ Start <= b /\ b <= end
    BY <1>1, <1>3, TilingFacts
  <2>. QED BY <2>1, <2>2, <2>3, <2>4, <2>5, <2>6
<1>8. PICK nx \in Nat : nx = ow + bs
  BY <1>7
<1>9. own = ow /\ footer = nx - 1 /\ next = nx /\ nx < end /\ nx \in B \ {end} /\ After(p) = nx
  <2>1. own = ow
    BY <1>4, <1>6 DEF own
  <2>2. footer = nx - 1
    BY <1>4, <1>7, <1>8, <2>1 DEF footer
  <2>3. After(p) = nx
    BY <1>4, <1>6, <1>7, <1>8, <2>1 DEF After
  <2>4. next = nx
    BY <1>4, <1>8, <2>2 DEF next
  <2>5. nx < end
    BY <2>3 DEF F1
  <2>. QED BY <1>3, <1>7, <1>8, <2>1, <2>2, <2>3, <2>4, <2>5
<1>10. DOMAIN freed = Addr /\ \A x \in Addr : freed[x] = IF x = ow THEN Hole(bs) ELSE mem[x]
  <2>1. freed = Put(mem, ow, Hole(bs))
    BY <1>7, <1>9 DEF freed
  <2>. QED BY <1>3, <2>1, PutFacts
<1>11. /\ left <=> Unifies(mem, ow - 1)
       /\ left => \E b \in B \ {end} :
                    /\ mem[b].is_hole /\ b < ow /\ b + mem[b].size = ow
                    /\ At(mem, ow - 1).header = b /\ header = b
       /\ ~left => header = ow
  <2>1. freed = Put(mem, ow, Hole(bs)) /\ own - Ftr = ow - 1
    BY <1>4, <1>7, <1>9 DEF freed
  <2>2. /\ Unifies(Put(mem, ow, Hole(bs)), ow - 1) <=> Unifies(mem, ow - 1)
        /\ Unifies(mem, ow - 1) =>
             \E b \in B \ {end} :
               /\ mem[b].is_hole /\ b < ow /\ b + mem[b].size = ow
               /\ At(mem, ow - 1).header = b /\ At(Put(mem, ow, Hole(bs)), ow - 1).header = b
    <3>1. Tiling(mem, B, end) /\ Memory(mem, end, mapped) /\ ow \in B \ {end}
      BY <1>1, <1>2, <1>7
    <3>. QED BY ONLY <3>1, FrontFacts
  <2>3. left <=> Unifies(mem, ow - 1)
    BY <2>1, <2>2 DEF left
  <2>4. header = IF left THEN At(freed, ow - 1).header ELSE ow
    BY <1>9, <2>1 DEF header
  <2>. QED BY <2>1, <2>2, <2>3, <2>4
<1>12. PICK h : h = header
  OBVIOUS
<1>13. /\ h \in B \ {end} /\ h \in Nat /\ Start <= h /\ h <= ow /\ h + 2 <= nx
       /\ left => h < ow /\ mem[h].is_hole /\ h + mem[h].size = ow
       /\ ~left => h = ow
       /\ \A b \in B : b < h \/ b = h \/ b = ow \/ nx <= b
  <2>1. CASE left
    <3>1. h \in B \ {end} /\ mem[h].is_hole /\ h < ow /\ h + mem[h].size = ow
      BY <1>11, <1>12, <2>1
    <3>2. \A b \in B : b <= h \/ ow <= b
      <4>1. \A b \in B : b <= h \/ h + mem[h].size <= b
        BY <1>1, <1>3, <3>1, TileFacts
      <4>. QED BY <3>1, <4>1
    <3>3. h \in Nat /\ Start <= h /\ h + 2 <= nx
      <4>1. h \in Nat /\ Start <= h
        BY <1>7, <3>1
      <4>2. ow \in Nat /\ nx \in Nat /\ ow + 2 <= nx
        BY <1>7, <1>8
      <4>. QED BY ONLY <3>1, <4>1, <4>2
    <3>4. \A b \in B : b < h \/ b = h \/ b = ow \/ nx <= b
      BY <1>7, <1>8, <3>2, <3>3
    <3>5. h <= ow
      BY <1>7, <3>1, <3>3
    <3>. QED BY <2>1, <3>1, <3>3, <3>4, <3>5
  <2>2. CASE ~left
    <3>1. h = ow
      BY <1>11, <1>12, <2>2
    <3>. QED BY <1>7, <1>8, <2>2, <3>1
  <2>. QED BY <2>1, <2>2
<1>14. /\ DOMAIN lefted = Addr
       /\ lefted[h] = Hole(nx - h) /\ lefted[nx - 1] = Footer(h)
       /\ \A x \in Addr : x < h \/ nx <= x => lefted[x] = mem[x]
  <2>1. h \in Addr /\ ow \in Addr /\ nx - 1 \in Addr /\ h # nx - 1 /\ ow # nx - 1
    BY <1>3, <1>7, <1>8, <1>9, <1>13
  <2>2. CASE left
    <3>1. h # ow /\ freed[h] = mem[h] /\ freed[ow] = Hole(bs)
      BY <1>10, <1>13, <2>1, <2>2
    <3>2. SizeAt(freed, h) = mem[h].size
      <4>1. SizeAt(mem, h) = mem[h].size
        BY <1>1, <1>3, <1>13, HoleFacts
      <4>2. SizeAt(mem, h) = SizeAt(freed, h)
        BY <2>1, <3>1 DEF SizeAt, At
      <4>. QED BY <4>1, <4>2
    <3>3. SizeAt(freed, ow) = bs
      BY <1>7, <2>1, <3>1, CellFacts DEF SizeAt, At
    <3>4. (mem[h].size + bs) % Word = nx - h
      <4>1. mem[h].size = ow - h
        <5>1. mem[h].size \in Nat
          BY <1>1, <1>3, <1>13, TileFacts
        <5>. QED BY <1>7, <1>13, <2>2, <5>1
      <4>2. mem[h].size + bs = nx - h
        BY <1>7, <1>8, <1>13, <4>1
      <4>3. nx - h \in Int /\ nx - h \in 0..(2 * MaxAddr)
        BY <1>3, <1>8, <1>9, <1>13
      <4>. QED BY <4>2, <4>3, WordFacts
    <3>. DEFINE g == Put(freed, nx - 1, Footer(h))
    <3>5. lefted = Put(g, h, Hole(nx - h))
      BY <1>9, <1>12, <2>2, <3>2, <3>3, <3>4 DEF lefted
    <3>6. DOMAIN g = Addr /\ \A x \in Addr : g[x] = IF x = nx - 1 THEN Footer(h) ELSE freed[x]
      BY <1>10, PutFacts
    <3>. HIDE DEF g
    <3>7. /\ DOMAIN lefted = Addr
          /\ \A x \in Addr : lefted[x] = IF x = h THEN Hole(nx - h) ELSE g[x]
      BY <3>5, <3>6, PutFacts
    <3>8. ASSUME NEW x \in Addr, x < h \/ nx <= x PROVE lefted[x] = mem[x]
      <4>1. x # h /\ x # nx - 1 /\ x # ow
        BY <1>3, <1>7, <1>8, <1>13, <3>8 DEF Addr
      <4>. QED BY <1>10, <3>6, <3>7, <4>1
    <3>. QED BY <2>1, <3>6, <3>7, <3>8
  <2>3. CASE ~left
    <3>1. lefted = freed /\ h = ow
      BY <1>13, <2>3 DEF lefted
    <3>2. bs = nx - h
      BY <1>7, <1>8, <3>1
    <3>3. lefted[nx - 1] = Footer(h)
      BY <1>7, <1>8, <1>10, <2>1, <3>1
    <3>4. ASSUME NEW x \in Addr, x < h \/ nx <= x PROVE lefted[x] = mem[x]
      <4>1. x # ow
        BY <1>3, <1>7, <1>8, <3>1, <3>4 DEF Addr
      <4>. QED BY <1>10, <3>1, <4>1
    <3>. QED BY <1>10, <2>1, <3>1, <3>2, <3>3, <3>4
  <2>. QED BY <2>2, <2>3
<1>15. /\ right <=> mem[nx].is_hole
       /\ SizeAt(lefted, nx) = mem[nx].size /\ SizeAt(lefted, h) = nx - h
       /\ mem[nx].is_hole <=> HoleAt(mem, nx)
       /\ mem[nx].size \in Nat /\ mem[nx].size >= 2 /\ SizeAt(mem, nx) = mem[nx].size
  <2>1. nx \in Addr /\ h \in Addr /\ nx - h \in Nat
    BY <1>3, <1>8, <1>9, <1>13
  <2>2. HoleAt(mem, nx) = mem[nx].is_hole /\ SizeAt(mem, nx) = mem[nx].size
    BY <1>1, <1>3, <1>9, HoleFacts
  <2>3. lefted[nx] = mem[nx]
    BY <1>14, <2>1
  <2>4. HoleAt(lefted, nx) = HoleAt(mem, nx) /\ SizeAt(lefted, nx) = SizeAt(mem, nx)
    BY <2>1, <2>3 DEF HoleAt, SizeAt, At
  <2>5. SizeAt(lefted, h) = nx - h
    BY <1>14, <2>1, CellFacts DEF SizeAt, At
  <2>6. mem[nx].size \in Nat /\ mem[nx].size >= 2
    BY <1>1, <1>3, <1>9, TileFacts
  <2>. QED BY <1>9, <2>2, <2>4, <2>5, <2>6 DEF right
<1>16. /\ At(mem, own).kind = "header" /\ At(mem, footer).kind = "footer"
       /\ \A a \in {own, footer, next} : PageOf(a) \in mapped /\ a \in Nat /\ a < end
  <2>1. At(mem, own) = Block(bs)
    BY <1>3, <1>7, <1>9
  <2>2. At(mem, footer) = Footer(ow)
    <3>1. nx - 1 \in Nat /\ nx - 1 < end
      BY <1>3, <1>8, <1>9, <1>13
    <3>. QED BY <1>3, <1>7, <1>8, <1>9, <3>1
  <2>3. \A a \in {own, footer, next} : a \in Nat /\ a < end /\ Start <= a
    BY <1>3, <1>7, <1>8, <1>9
  <2>4. \A a \in {own, footer, next} : PageOf(a) \in mapped
    BY <1>2, <2>3 DEF Memory
  <2>. QED BY <1>7, <2>1, <2>2, <2>3, <2>4 DEF Block, Footer
<1>17. Sub(h, Start) = h - Start /\ h - Start < end - Start /\ h - Start \in Nat
  <2>1. h \in Int /\ Start \in Int /\ h - Start \in 0..(2 * MaxAddr)
    BY <1>3, <1>7, <1>13
  <2>2. Sub(h, Start) = h - Start
    BY <2>1, SubFacts
  <2>. QED BY <1>3, <1>7, <1>13, <2>2
<1>18. /\ DOMAIN live' = DOMAIN live \ {p} /\ \A q \in DOMAIN live' : live'[q] = live[q]
       /\ \A q \in DOMAIN live' :
            /\ HeldBlock(mem, B, end, live, q) /\ q - 1 \in B \ {end} /\ ~mem[q - 1].is_hole
            /\ q - 1 < h \/ nx <= q - 1
  <2>1. DOMAIN live' = DOMAIN live \ {p} /\ \A q \in DOMAIN live' : live'[q] = live[q]
    BY <1>5
  <2>2. ASSUME NEW q \in DOMAIN live'
        PROVE  /\ HeldBlock(mem, B, end, live, q) /\ q - 1 \in B \ {end} /\ ~mem[q - 1].is_hole
               /\ q - 1 < h \/ nx <= q - 1
    <3>1. HeldBlock(mem, B, end, live, q) /\ q # p
      BY <1>1, <2>1, <2>2 DEF Held
    <3>2. q \in Nat /\ q - 1 \in B \ {end} /\ mem[q - 1] = Block(mem[q - 1].size)
      BY <3>1 DEF HeldBlock
    <3>3. mem[q - 1].size \in Nat
      BY <1>1, <1>3, <3>2, TileFacts
    <3>4. ~mem[q - 1].is_hole
      BY <3>2, <3>3, CellFacts
    <3>5. q - 1 # ow
      BY <1>6, <1>7, <3>1, <3>2
    <3>6. q - 1 # h
      BY <1>13, <3>4, <3>5
    <3>. QED BY <1>13, <3>1, <3>2, <3>4, <3>5, <3>6
  <2>. QED BY <2>1, <2>2
<1>19. /\ \A x \in Holes(mem, B, end) : x < h \/ x = h \/ nx <= x
       /\ h \in Holes(mem, B, end) <=> left
  <2>1. ow \notin Holes(mem, B, end)
    BY <1>7 DEF Holes
  <2>2. \A x \in Holes(mem, B, end) : x \in B
    BY DEF Holes
  <2>3. left => h \in Holes(mem, B, end)
    BY <1>13 DEF Holes
  <2>. QED BY <1>13, <2>1, <2>2, <2>3
<1>20. Lists(index, Holes(mem, B, end)) /\ h \in Nat
  BY <1>1, <1>13
<1>21. CASE ~right
  <2>1. ~stops /\ shrunk = lefted /\ listed = index /\ ~shrinks
    <3>1. last = nx - 1 /\ joined = lefted /\ unlisted = index
      BY <1>9, <1>21 DEF last, joined, unlisted
    <3>2. ~shrinks
      BY <1>4, <1>8, <1>9, <3>1 DEF shrinks
    <3>. QED BY <1>16, <1>21, <3>1, <3>2 DEF stops, shrunk, listed
  <2>2. /\ mem' = lefted /\ end' = end /\ mapped' = mapped
        /\ status' = Touched({own, footer, next})
        /\ index' = IF left THEN index ELSE Inserted(index, h, KeyIn(lefted))
    BY <1>5, <1>12, <2>1
  <2>3. PICK n : n = lefted
    OBVIOUS
  <2>. DEFINE C == {b \in B : b <= h \/ nx <= b}
  <2>4. MergePaved(mem, B, end, n, C, h, nx)
    <3>1. \A a \in Nat : a < h \/ (nx <= a /\ a < end) => n[a] = mem[a]
      <4>1. ASSUME NEW a \in Nat, a < h \/ (nx <= a /\ a < end) PROVE n[a] = mem[a]
        <5>1. a < end
          BY <1>3, <1>8, <1>9, <1>13, <4>1
        <5>2. a \in Addr
          BY <1>3, <5>1
        <5>. QED BY <1>14, <2>3, <4>1, <5>2
      <4>. QED BY <4>1
    <3>. QED BY <1>1, <1>3, <1>9, <1>13, <1>14, <2>3, <3>1 DEF MergePaved
  <2>5. /\ Tiling(n, C, end)
        /\ Holes(n, C, end) = {a \in Holes(mem, B, end) : a < h \/ nx <= a} \cup {h}
        /\ \A l, q : HeldBlock(mem, B, end, l, q) /\ (q - 1 < h \/ nx <= q - 1)
                       => HeldBlock(n, C, end, l, q)
    <3>. HIDE DEF C
    <3>. QED BY <2>4, MergePave
  <2>6. Holes(n, C, end) = Holes(mem, B, end) \cup {h}
    <3>. HIDE DEF C
    <3>. QED BY <1>19, <2>5
  <2>. HIDE DEF C
  <2>7. Lists(index', Holes(n, C, end))
    <3>1. CASE left
      <4>1. Holes(n, C, end) = Holes(mem, B, end)
        BY <1>19, <2>6, <3>1
      <4>. QED BY <1>20, <2>2, <3>1, <4>1
    <3>2. CASE ~left
      BY <1>19, <1>20, <2>2, <2>6, <3>2, InsertedLists
    <3>. QED BY <3>1, <3>2
  <2>8. Held(n, C, end, live')
    <3>1. ASSUME NEW q \in DOMAIN live' PROVE HeldBlock(n, C, end, live', q)
      <4>1. HeldBlock(n, C, end, live, q) /\ live'[q] = live[q]
        BY <1>18, <2>5, <3>1
      <4>. QED BY <4>1 DEF HeldBlock
    <3>. QED BY <3>1 DEF Held
  <2>9. Memory(n, end, mapped)
    <3>1. ASSUME NEW a \in Addr, a < Start PROVE n[a] = Zero
      <4>1. a < h
        BY <1>3, <1>13, <3>1 DEF Addr
      <4>. QED BY <1>2, <1>14, <2>3, <3>1, <4>1 DEF Memory
    <3>. QED BY <1>2, <1>14, <2>3, <3>1 DEF Memory
  <2>10. status' = "ok"
    BY <1>16, <2>2 DEF Touched
  <2>11. Asked(n, index', end, req)
    BY <1>2 DEF Asked
  <2>12. Row(n, index', end, live')
    BY <2>5, <2>7, <2>8 DEF Row
  <2>. QED BY <1>5, <2>2, <2>3, <2>9, <2>10, <2>11, <2>12 DEF HeapInv
<1>22. CASE right
  <2>1. /\ mem[nx].is_hole /\ nx + mem[nx].size = end /\ h - Start + 2 <= MinSize
        /\ nx \in Holes(mem, B, end)
    <3>1. HoleAt(mem, After(p)) /\ mem[nx].is_hole
      BY <1>9, <1>15, <1>22
    <3>2. nx + mem[nx].size = end
      BY <1>9, <1>15, <3>1 DEF F3
    <3>3. h - Start + Overhead <= MinSize
      <4>1. (p - Hdr) - Ftr = ow - 1 /\ p - Hdr = ow
        BY <1>4, <1>6, <1>7
      <4>2. h = IF Unifies(mem, ow - 1) THEN At(mem, ow - 1).header ELSE ow
        BY <1>11, <1>12
      <4>. QED BY <3>1, <4>1, <4>2, Zenon DEF F2
    <3>. QED BY <1>4, <1>9, <3>1, <3>2, <3>3 DEF Holes
  <2>2. PICK f \in Nat : /\ f = Start + MinSize /\ h + 2 <= f /\ f <= end /\ Start < f
                         /\ f <= MaxAddr
    <3>1. /\ Start + MinSize \in Nat /\ h + 2 <= Start + MinSize /\ Start + MinSize <= end
          /\ Start < Start + MinSize /\ Start + MinSize <= MaxAddr
      BY <1>3, <1>13, <2>1
    <3>. QED BY <3>1
  <2>3. new = MinSize /\ old - new = end - f
    <3>1. new = ContractTo(h - Start)
      BY <1>12, <1>17 DEF new
    <3>2. ContractTo(h - Start) = MinSize
      BY <1>17, <2>1, ContractFacts
    <3>3. new = MinSize
      BY <3>1, <3>2
    <3>. QED BY <1>3, <2>2, <3>3 DEF old
  <2>4. last = end - 1 /\ shrinks
    <3>1. last = end - 1
      BY <1>4, <1>9, <1>15, <1>22, <2>1 DEF last
    <3>. QED BY <1>3, <1>4, <3>1 DEF shrinks
  <2>5. /\ DOMAIN joined = Addr
        /\ \A x \in Addr : joined[x] = IF x = h THEN Hole(end - h) ELSE lefted[x]
    <3>1. (nx - h) + mem[nx].size = end - h /\ end - h \in 0..(2 * MaxAddr)
      BY <1>3, <1>7, <1>8, <1>9, <1>13, <1>15, <2>1
    <3>2. (end - h) % Word = end - h
      BY <1>3, <1>13, <3>1, WordFacts
    <3>3. joined = Put(lefted, h, Hole(end - h))
      BY <1>9, <1>12, <1>15, <1>22, <3>1, <3>2 DEF joined
    <3>. QED BY <1>14, <3>3, PutFacts
  <2>6. size = f - h /\ exists
    <3>1. h \in Addr /\ end - h \in Nat
      BY <1>3, <1>7, <1>13
    <3>2. SizeAt(joined, h) = end - h
      BY <2>5, <3>1, CellFacts DEF SizeAt, At
    <3>3. Sub(end - h, end - f) = (end - h) - (end - f)
      <4>1. /\ end - h \in Int /\ end - f \in Int
            /\ (end - h) - (end - f) \in 0..(2 * MaxAddr)
        BY <1>3, <1>13, <2>2
      <4>. QED BY ONLY <4>1, SubFacts
    <3>4. size = f - h
      <4>1. size = Sub(end - h, end - f)
        BY <1>12, <2>3, <3>2 DEF size
      <4>2. (end - h) - (end - f) = f - h
        BY <1>3, <1>13, <2>2
      <4>. QED BY <3>3, <4>1, <4>2
    <3>. QED BY <1>13, <2>2, <3>4 DEF exists
  <2>7. /\ DOMAIN shrunk = Addr
        /\ \A x \in Addr : shrunk[x] = IF x = f - 1 THEN Footer(h)
                                       ELSE IF x = h THEN Hole(f - h) ELSE lefted[x]
    <3>. DEFINE g == Put(joined, h, Hole(f - h))
    <3>1. DOMAIN g = Addr /\ \A x \in Addr : g[x] = IF x = h THEN Hole(f - h) ELSE joined[x]
      BY <2>5, PutFacts
    <3>2. h + size - Ftr = f - 1
      BY <1>4, <1>13, <2>2, <2>6
    <3>3. shrunk = Put(g, f - 1, Footer(h))
      BY <1>12, <2>4, <2>6, <3>2 DEF shrunk
    <3>. HIDE DEF g
    <3>. QED BY <2>5, <3>1, <3>3, PutFacts
  <2>8. ~stops
    <3>1. nx \in Range(index)
      BY <1>20, <2>1 DEF Lists
    <3>2. Sub(header, Start) < old /\ Sub(header, Start) \in Nat /\ old \in Nat
      BY <1>3, <1>12, <1>17 DEF old
    <3>3. ~(Sub(header, Start) >= old)
      BY <3>2
    <3>. QED BY <1>9, <1>16, <3>1, <3>3 DEF stops
  <2>9. /\ mem' = shrunk /\ end' = f /\ mapped' = mapped \ Released(end - Start, MinSize)
        /\ status' = Touched({own, footer, next})
        /\ index' = IF left THEN Removed(index, nx)
                    ELSE Inserted(Removed(index, nx), h, KeyIn(shrunk))
    <3>1. listed = Removed(index, nx)
      BY <1>9, <1>22, <2>6 DEF listed, unlisted
    <3>. QED BY <1>5, <1>12, <2>2, <2>3, <2>4, <2>8, <3>1 DEF old
  <2>10. PICK n : n = shrunk
    OBVIOUS
  <2>. DEFINE C == {b \in B : b <= h} \cup {f}
  <2>11. TailPaved(mem, B, end, n, C, f, h)
    <3>1. h \in Addr /\ f - 1 \in Addr /\ h # f - 1
      BY <1>3, <1>7, <1>13, <2>2 DEF Addr
    <3>2. \A a \in Nat : a < h => n[a] = mem[a]
      <4>1. ASSUME NEW a \in Nat, a < h PROVE n[a] = mem[a]
        <5>1. a \in Addr /\ a # h /\ a # f - 1
          BY <1>3, <1>7, <1>13, <2>2, <4>1 DEF Addr
        <5>. QED BY <1>14, <2>7, <2>10, <4>1, <5>1
      <4>. QED BY <4>1
    <3>3. n[h] = Hole(f - h) /\ n[f - 1] = Footer(h)
      BY <2>7, <2>10, <3>1
    <3>4. h < end /\ h \in B
      BY <1>3, <1>7, <1>13
    <3>. QED BY <1>1, <1>3, <2>2, <3>2, <3>3, <3>4 DEF TailPaved
  <2>12. /\ Tiling(n, C, f)
         /\ Holes(n, C, f) = {a \in Holes(mem, B, end) : a < h} \cup {h}
         /\ \A l : Held(mem, B, end, l) /\ (\A q \in DOMAIN l : q - 1 < h) => Held(n, C, f, l)
    <3>. HIDE DEF C
    <3>. QED BY <2>11, TailPave
  <2>. HIDE DEF C
  <2>13. \A x \in B \ {end} : nx <= x => x = nx
    <3>1. ASSUME NEW x \in B \ {end}, nx <= x PROVE x = nx
      <4>1. x <= nx \/ nx + mem[nx].size <= x
        BY <1>1, <1>3, <1>9, TileFacts
      <4>2. x \in Nat /\ x < end
        BY <1>1, <1>3, TileFacts
      <4>. QED BY <1>3, <1>8, <2>1, <3>1, <4>1, <4>2
    <3>. QED BY <3>1
  <2>14. Holes(n, C, f) = (Holes(mem, B, end) \ {nx}) \cup {h}
    <3>1. \A x \in Holes(mem, B, end) : x < h \/ x = h \/ x = nx
      BY <1>19, <2>13 DEF Holes
    <3>2. ~(nx < h)
      BY <1>8, <1>13
    <3>. QED BY <2>12, <3>1, <3>2
  <2>15. Lists(Removed(index, nx), Holes(mem, B, end) \ {nx}) /\ h # nx
    BY <1>8, <1>13, <1>20, <2>1, RemovedLists
  <2>16. Lists(index', Holes(n, C, f))
    <3>1. CASE left
      <4>1. Holes(n, C, f) = Holes(mem, B, end) \ {nx}
        BY <1>19, <2>14, <2>15, <3>1
      <4>. QED BY <2>9, <2>15, <3>1, <4>1
    <3>2. CASE ~left
      <4>1. h \notin Holes(mem, B, end) \ {nx}
        BY <1>19, <3>2
      <4>. QED BY <1>20, <2>9, <2>14, <2>15, <3>2, <4>1, InsertedLists
    <3>. QED BY <3>1, <3>2
  <2>17. Held(n, C, f, live')
    <3>1. \A q \in DOMAIN live' : q - 1 < h
      BY <1>18, <2>1, <2>13
    <3>2. Held(mem, B, end, live')
      <4>1. ASSUME NEW q \in DOMAIN live' PROVE HeldBlock(mem, B, end, live', q)
        BY <1>18, <4>1 DEF HeldBlock
      <4>. QED BY <4>1 DEF Held
    <3>. QED BY <2>12, <3>1, <3>2
  <2>18. Memory(n, f, mapped')
    <3>1. ASSUME NEW a \in Addr, a < Start PROVE n[a] = Zero
      <4>1. a \in Nat /\ a < h /\ a # f - 1
        BY <1>3, <1>13, <2>2, <3>1 DEF Addr
      <4>2. n[a] = mem[a]
        BY <1>14, <2>7, <2>10, <3>1, <4>1
      <4>. QED BY <1>2, <3>1, <4>2 DEF Memory
    <3>2. f % Page = 0
      <4>1. Start \in Int /\ MinSize \in Int /\ Start % Page = 0 /\ MinSize % Page = 0
        BY Layout
      <4>2. (Start + MinSize) % Page = Start % Page
        BY ONLY <4>1, ModSum
      <4>. QED BY <2>2, <4>1, <4>2
    <3>3. ASSUME NEW a \in Nat, Start <= a, a < f PROVE PageOf(a) \in mapped'
      <4>1. PageOf(a) \notin Released(end - Start, MinSize)
        BY <1>3, <2>2, <3>3, ReleasedFacts
      <4>2. PageOf(a) \in mapped
        BY <1>2, <1>3, <2>2, <3>3 DEF Memory
      <4>. QED BY <2>9, <4>1, <4>2
    <3>. QED BY <1>3, <2>2, <2>7, <2>10, <3>1, <3>2, <3>3 DEF Memory
  <2>19. status' = "ok"
    BY <1>16, <2>9 DEF Touched
  <2>20. Asked(n, index', f, req)
    BY <1>2 DEF Asked
  <2>21. Row(n, index', f, live')
    BY <2>12, <2>16, <2>17 DEF Row
  <2>. QED BY <1>5, <2>9, <2>10, <2>18, <2>19, <2>20, <2>21 DEF HeapInv
<1>. QED BY <1>21, <1>22

-----------------------------------------------------------------------------
(* What the heap promises a caller that keeps the six clauses *)

\* Every call and every step of one keeps the invariant and does what an allocator
\* may do.
LEMMA StepHeap ==
  ASSUME Waived = {}, HeapInv, [ContractNext]_vars
  PROVE  HeapInv' /\ [A!Next]_live
<1>1. ASSUME NEW size \in Sizes, NEW align \in Aligns, A1(size, align), A2(size, align),
             A3(size, align), CallAlloc(size, align)
      PROVE  HeapInv' /\ live' = live
  BY <1>1, CallAllocHeap DEF CallAlloc
<1>2. ASSUME Expand PROVE HeapInv' /\ live' = live
  BY <1>2, ExpandHeap DEF Expand
<1>3. ASSUME Take PROVE HeapInv' /\ A!Allocate
  BY <1>3, TakeHeap
<1>4. ASSUME NEW p \in DOMAIN live, F1(p), F2(p), F3(p), Free(p)
      PROVE  HeapInv' /\ A!Release
  <2>1. HeapInv'
    BY <1>4, FreeHeap
  <2>2. live' = [q \in DOMAIN live \ {p} |-> live[q]]
    BY <1>4 DEF Free
  <2>. QED BY <2>1, <2>2 DEF A!Release
<1>5. ASSUME UNCHANGED vars PROVE HeapInv' /\ live' = live
  BY <1>5 DEF vars, HeapInv
<1>6. \A clause, holds : Keeps(clause, holds) => holds
  BY DEF Keeps
<1>. QED BY <1>1, <1>2, <1>3, <1>4, <1>5, <1>6 DEF ContractNext, A!Next

\* The invariant holds in every state a caller of the contract can bring about.
LEMMA HeapInvariant == Waived = {} => (ContractSpec => []HeapInv)
<1>. SUFFICES ASSUME Waived = {} PROVE ContractSpec => []HeapInv
  OBVIOUS
<1>1. Init => HeapInv
  BY InitHeap
<1>2. HeapInv /\ [ContractNext]_vars => HeapInv'
  BY StepHeap
<1>. QED BY <1>1, <1>2, PTL DEF ContractSpec

\* A row of the invariant is what stepping over the sizes meets.
LEMMA RowHeaders ==
  ASSUME HeapInv
  PROVE  \E B : /\ Tiling(mem, B, end) /\ Lists(index, Holes(mem, B, end))
                /\ Held(mem, B, end, live) /\ end \in Nat
                /\ Boundaries = B /\ Headers = B \ {end}
<1>1. PICK B : Tiling(mem, B, end) /\ Lists(index, Holes(mem, B, end)) /\ Held(mem, B, end, live)
  BY DEF HeapInv, Row
<1>2. end \in Nat /\ end <= MaxAddr
  BY MemoryFacts DEF HeapInv
<1>3. Boundaries = B /\ Headers = B \ {end}
  BY <1>1, <1>2, BoundariesFacts
<1>. QED BY <1>1, <1>2, <1>3

\* No ASSERT of alloc, free, expand, contract and the ordered array under them
\* fires, and no header, footer or byte handed out lies on a page that has no
\* frame, neither after the heap has grown nor after it has shrunk.
THEOREM StopsTheorem == Waived = {} => (ContractSpec => []NeverStops)
<1>1. HeapInv => NeverStops
  BY DEF HeapInv, NeverStops
<1>. QED BY <1>1, HeapInvariant, PTL

\* Blocks and holes always cover the heap from its start to its end without a
\* gap or an overlap, whatever alloc has split, expand and contract have moved
\* and free has joined.
THEOREM TiledTheorem == Waived = {} => (ContractSpec => []Tiled)
<1>1. ASSUME HeapInv PROVE Tiled
  <2>1. PICK B : /\ Tiling(mem, B, end) /\ end \in Nat
                 /\ Boundaries = B /\ Headers = B \ {end}
    BY RowHeaders, <1>1
  <2>2. ASSUME NEW a \in B \ {end} PROVE mem[a].kind = "header" /\ mem[a].size >= Overhead
    <3>1. /\ mem[a].size \in Nat /\ mem[a].size >= 2
          /\ mem[a] \in {Hole(mem[a].size), Block(mem[a].size)}
      BY <2>1, TileFacts
    <3>. QED BY <3>1, CellFacts, Layout
  <2>. QED BY <2>1, <2>2, TilingFacts DEF Tiled
<1>. QED BY <1>1, HeapInvariant, PTL

\* The index names each hole of the heap once and nothing else: what free
\* gives back, alloc finds again.
THEOREM IndexTheorem == Waived = {} => (ContractSpec => []IndexComplete)
<1>1. ASSUME HeapInv PROVE IndexComplete
  <2>1. PICK B : Lists(index, Holes(mem, B, end)) /\ Headers = B \ {end}
    BY RowHeaders, <1>1
  <2>. QED BY <2>1 DEF Lists, Distinct, Holes, IndexComplete
<1>. QED BY <1>1, HeapInvariant, PTL

\* Between two calls nothing writes into a block that a caller holds, and its
\* header and footer frame it.
THEOREM BlocksTheorem == Waived = {} => (ContractSpec => []BlocksIntact)
<1>1. ASSUME HeapInv PROVE BlocksIntact
  <2>1. PICK B : /\ Tiling(mem, B, end) /\ Held(mem, B, end, live) /\ end \in Nat
                 /\ Headers = B \ {end}
    BY RowHeaders, <1>1
  <2>2. ASSUME NEW p \in DOMAIN live
        PROVE  /\ p - Hdr \in Headers /\ ~mem[p - Hdr].is_hole
               /\ live[p] + Overhead <= mem[p - Hdr].size
               /\ mem[(p - Hdr) + mem[p - Hdr].size - Ftr] = Footer(p - Hdr)
               /\ \A a \in p..(p + live[p] - 1) : mem[a] = Zero
    <3>1. /\ p \in Nat /\ p - 1 \in B \ {end} /\ mem[p - 1] = Block(mem[p - 1].size)
          /\ live[p] \in Nat /\ live[p] + 2 <= mem[p - 1].size
          /\ \A a \in Nat : p <= a /\ a < p + live[p] => mem[a] = Zero
      BY <2>1, <2>2 DEF Held, HeldBlock
    <3>2. /\ mem[p - 1].size \in Nat
          /\ Footed(mem, p - 1) \/ (mem[p - 1].is_hole /\ (p - 1) + mem[p - 1].size = end)
      BY <2>1, <3>1, TileFacts
    <3>3. ~mem[p - 1].is_hole
      BY <3>1, <3>2, CellFacts
    <3>4. mem[(p - 1) + mem[p - 1].size - 1] = Footer(p - 1)
      BY <3>2, <3>3 DEF Footed
    <3>5. \A a \in p..(p + live[p] - 1) : a \in Nat /\ p <= a /\ a < p + live[p]
      BY <3>1
    <3>. QED BY <2>1, <3>1, <3>3, <3>4, <3>5, Layout
  <2>. QED BY <2>2 DEF BlocksIntact
<1>. QED BY <1>1, HeapInvariant, PTL

\* alloc and free implement an allocator: the block alloc hands out shares no
\* cell with one in use, lies in the heap and is aligned when that was asked
\* for, and only free takes it back.
THEOREM AllocatorTheorem == Waived = {} => (ContractSpec => IsAllocator)
<1>. SUFFICES ASSUME Waived = {} PROVE ContractSpec => IsAllocator
  OBVIOUS
<1>1. Init => A!Init
  BY DEF Init, A!Init
<1>2. HeapInv /\ [ContractNext]_vars => [A!Next]_live
  BY StepHeap
<1>. QED BY <1>1, <1>2, HeapInvariant, PTL DEF ContractSpec, IsAllocator, A!Spec
=============================================================================
