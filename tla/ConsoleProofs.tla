---------------------------- MODULE ConsoleProofs ----------------------------
(***************************************************************************)
(* What the kernel prints is right, proved for every screen, any number of *)
(* tasks and any texts, wherever tasks are switched:                       *)
(*                                                                         *)
(* - a number reads back as itself (NumbersTheorem);                       *)
(* - the cursor comes back to the screen, however many tasks print at once *)
(*   (PastScreenTheorem, CursorTheorem);                                   *)
(* - the screen shows what was printed, as long as no two calls overlap    *)
(*   (ShowsTheorem).                                                       *)
(*                                                                         *)
(* Digits, values and sheets are functions defined by recursion.  The      *)
(* module starts with what is needed to reason about them: induction over  *)
(* sets of numbers, from the well-foundedness of <, and the existence of   *)
(* the functions that recursions and folds define.                         *)
(***************************************************************************)
EXTENDS Console, FiniteSetTheorems, SequenceTheorems, WellFoundedInduction, TLAPS

-----------------------------------------------------------------------------
(* Induction, and functions defined by recursion *)

\* A set of numbers that is not empty has a least one.
LEMMA LeastElement ==
  ASSUME NEW S \in SUBSET Nat, S # {}
  PROVE  \E x \in S : \A y \in S : x <= y
<1>1. PICK x \in S : \A y \in S : ~ (<<y, x>> \in OpToRel(<, Nat))
  BY NatLessThanWellFounded, WFMin
<1>2. ASSUME NEW y \in S PROVE x <= y
  <2>1. ~(y < x)
    BY <1>1 DEF OpToRel
  <2>. QED BY <2>1
<1>. QED BY <1>2

\* Induction, for what is stated as a set of numbers: each number is in it if
\* the smaller ones are.
LEMMA Induction ==
  ASSUME NEW S, \A n \in Nat : (\A m \in 0..(n - 1) : m \in S) => n \in S
  PROVE  \A n \in Nat : n \in S
<1>. DEFINE Missing == {n \in Nat : n \notin S}
<1>1. ASSUME Missing # {} PROVE FALSE
  <2>1. PICK n \in Missing : \A y \in Missing : n <= y
    BY <1>1, LeastElement
  <2>2. ASSUME NEW m \in 0..(n - 1) PROVE m \in S
    <3>1. m \in Nat /\ ~(n <= m)
      BY <2>1
    <3>2. m \notin Missing
      BY <2>1, <3>1
    <3>. QED BY <3>1, <3>2
  <2>3. n \in Nat /\ n \notin S
    BY <2>1
  <2>. QED BY <2>2, <2>3
<1>. QED BY <1>1

\* The approximations that a function defined by recursion is made of.
Approximates(g, m, base, step, prev) ==
  \A k \in 0..m : g[k] = IF k = 0 THEN base ELSE step[<<k, g[prev[k]]>>]

\* The numbers that a recursion goes back to.
Smaller(prev) == \A k \in Nat \ {0} : prev[k] \in 0..(k - 1)

\* Two of them agree as far as both go.
LEMMA ApproximationsAgree ==
  ASSUME NEW base, NEW step, NEW prev, Smaller(prev),
         NEW m \in Nat, NEW g, Approximates(g, m, base, step, prev),
         NEW n \in Nat, NEW h, Approximates(h, n, base, step, prev)
  PROVE  \A k \in Nat : k <= m /\ k <= n => g[k] = h[k]
<1>. DEFINE S == {k \in Nat : k <= m /\ k <= n => g[k] = h[k]}
<1>1. ASSUME NEW k \in Nat, \A j \in 0..(k - 1) : j \in S
      PROVE  k \in S
  <2> SUFFICES ASSUME k <= m, k <= n PROVE g[k] = h[k]
    OBVIOUS
  <2>1. /\ g[k] = IF k = 0 THEN base ELSE step[<<k, g[prev[k]]>>]
        /\ h[k] = IF k = 0 THEN base ELSE step[<<k, h[prev[k]]>>]
    BY DEF Approximates
  <2>2. k # 0 => prev[k] \in 0..(k - 1) /\ prev[k] <= m /\ prev[k] <= n
    BY DEF Smaller
  <2>3. k # 0 => g[prev[k]] = h[prev[k]]
    BY <1>1, <2>2
  <2>. QED BY <2>1, <2>3
<1>. HIDE DEF S
<1>2. \A k \in Nat : k \in S
  BY <1>1, Induction
<1>. QED BY <1>2 DEF S

\* What a recursion needs, and the function it defines.
Recursive(T, base, step, prev) ==
  /\ base \in T /\ step \in [Nat \X T -> T] /\ prev \in [Nat -> Nat]
  /\ Smaller(prev)
Runs(f, base, step, prev) ==
  \A k \in Nat : f[k] = IF k = 0 THEN base ELSE step[<<k, f[prev[k]]>>]

\* A function on the numbers may be defined by recursion from smaller ones.
LEMMA Recursion ==
  ASSUME NEW T, NEW base, NEW step, NEW prev, Recursive(T, base, step, prev)
  PROVE  \E f \in [Nat -> T] : Runs(f, base, step, prev)
<1>0. /\ base \in T /\ step \in [Nat \X T -> T] /\ prev \in [Nat -> Nat]
      /\ \A k \in Nat \ {0} : prev[k] \in 0..(k - 1)
  BY DEF Recursive, Smaller
<1>. USE <1>0
<1>. DEFINE Good(g, m) == Approximates(g, m, base, step, prev)
            S == {m \in Nat : \E g \in [0..m -> T] : Good(g, m)}
<1>1. ASSUME NEW m \in Nat, \A j \in 0..(m - 1) : j \in S
      PROVE  m \in S
  <2>1. CASE m = 0
    <3>1. [k \in 0..m |-> base] \in [0..m -> T] /\ Good([k \in 0..m |-> base], m)
      BY <2>1 DEF Approximates
    <3>. QED BY <3>1
  <2>2. CASE m # 0
    <3>1. m - 1 \in S /\ m - 1 \in Nat
      BY <1>1, <2>2
    <3>2. PICK g \in [0..(m - 1) -> T] : Good(g, m - 1)
      BY <3>1
    <3>. DEFINE h == [k \in 0..m |-> IF k = m THEN step[<<m, g[prev[m]]>>] ELSE g[k]]
    <3>3. prev[m] \in 0..(m - 1)
      BY <2>2
    <3>4. h \in [0..m -> T]
      BY <3>2, <3>3
    <3>5. ASSUME NEW k \in 0..m
          PROVE  h[k] = IF k = 0 THEN base ELSE step[<<k, h[prev[k]]>>]
      <4>1. k # 0 => prev[k] \in 0..(k - 1) /\ prev[k] \in 0..m /\ prev[k] # m
        OBVIOUS
      <4>2. k # 0 => h[prev[k]] = g[prev[k]]
        BY <4>1
      <4>3. CASE k = m
        BY <2>2, <4>2, <4>3
      <4>4. CASE k # m
        <5>1. k \in 0..(m - 1) /\ h[k] = g[k]
          BY <4>4
        <5>2. g[k] = IF k = 0 THEN base ELSE step[<<k, g[prev[k]]>>]
          BY <3>2, <5>1 DEF Approximates
        <5>. QED BY <4>2, <5>1, <5>2
      <4>. QED BY <4>3, <4>4
    <3>. HIDE DEF h
    <3>6. Good(h, m)
      BY <3>5 DEF Approximates
    <3>. QED BY <3>4, <3>6
  <2>. QED BY <2>1, <2>2
<1>2. \A m \in Nat : m \in S
  <2>. HIDE DEF S
  <2>. QED BY <1>1, Induction
<1>. DEFINE G(m) == CHOOSE g \in [0..m -> T] : Good(g, m)
            f == [m \in Nat |-> G(m)[m]]
<1>3. \A m \in Nat : G(m) \in [0..m -> T] /\ Good(G(m), m)
  BY <1>2
<1>. HIDE DEF G
<1>4. f \in [Nat -> T]
  BY <1>3
<1>5. ASSUME NEW k \in Nat
      PROVE  f[k] = IF k = 0 THEN base ELSE step[<<k, f[prev[k]]>>]
  <2>0. k \in Nat /\ k \in 0..k /\ Approximates(G(k), k, base, step, prev)
    BY <1>3
  <2>1. G(k)[k] = IF k = 0 THEN base ELSE step[<<k, G(k)[prev[k]]>>]
    BY ONLY <2>0 DEF Approximates
  <2>2. ASSUME k # 0 PROVE G(k)[prev[k]] = G(prev[k])[prev[k]]
    <3>1. prev[k] \in Nat /\ prev[k] <= k
      BY <2>2
    <3>. DEFINE g == G(k)
                h == G(prev[k])
    <3>2. Approximates(g, k, base, step, prev) /\ Approximates(h, prev[k], base, step, prev)
      BY <1>3, <3>1
    <3>. HIDE DEF g, h
    <3>3. \A j \in Nat : j <= k /\ j <= prev[k] => g[j] = h[j]
      <4>1. k \in Nat /\ prev[k] \in Nat /\ Smaller(prev)
        BY <3>1 DEF Smaller
      <4>. QED BY ONLY <3>1, <3>2, <4>1, ApproximationsAgree
    <3>4. g[prev[k]] = h[prev[k]]
      BY <3>1, <3>3
    <3>. QED BY <3>4 DEF g, h
  <2>. QED BY <2>1, <2>2
<1>. HIDE DEF f
<1>6. Runs(f, base, step, prev)
  BY <1>5 DEF Runs
<1>. QED BY <1>4, <1>6

\* The largest number of a set.
LEMMA MaxFacts ==
  ASSUME NEW m \in Nat, NEW S \in SUBSET (1..m), S # {}
  PROVE  Max(S) \in S /\ \A y \in S : y <= Max(S)
<1>. DEFINE D == {m - x : x \in S}
<1>0. \A x \in S : x \in 1..m
  OBVIOUS
<1>1. D \in SUBSET Nat /\ D # {}
  <2>1. \A x \in S : m - x \in Nat
    BY <1>0
  <2>. QED BY <2>1
<1>2. PICK d \in D : \A y \in D : d <= y
  BY <1>1, LeastElement
<1>3. PICK x \in S : d = m - x
  OBVIOUS
<1>4. ASSUME NEW y \in S PROVE x >= y
  <2>1. m - y \in D
    OBVIOUS
  <2>2. d <= m - y
    BY <1>2, <2>1
  <2>. QED BY <1>3, <2>2
<1>5. \E z \in S : \A y \in S : z >= y
  BY <1>4
<1>6. Max(S) \in S /\ \A y \in S : Max(S) >= y
  BY <1>5 DEF Max
<1>. QED BY <1>6

\* What a fold over the sets of places needs, and the function it is defined by.
Folding(m, T, base, step) ==
  m \in Nat /\ base \in T /\ step \in [(1..m) \X T -> T]
Folds(f, m, base, step) ==
  \A s \in SUBSET (1..m) :
    f[s] = IF s = {} THEN base ELSE step[<<Max(s), f[s \ {Max(s)}]>>]

\* There is one.
LEMMA FoldExists ==
  ASSUME NEW m, NEW T, NEW base, NEW step, Folding(m, T, base, step)
  PROVE  \E f \in [SUBSET (1..m) -> T] : Folds(f, m, base, step)
<1>0. m \in Nat /\ m <= m /\ base \in T /\ step \in [(1..m) \X T -> T]
  BY DEF Folding
<1>. USE <1>0
<1>. DEFINE Good(f, k) ==
              \A s \in SUBSET (1..k) :
                f[s] = IF s = {} THEN base ELSE step[<<Max(s), f[s \ {Max(s)}]>>]
            S == {k \in Nat : k <= m => \E f \in [SUBSET (1..k) -> T] : Good(f, k)}
<1>1. ASSUME NEW k \in Nat, \A j \in 0..(k - 1) : j \in S
      PROVE  k \in S
  <2> SUFFICES ASSUME k <= m PROVE \E f \in [SUBSET (1..k) -> T] : Good(f, k)
    OBVIOUS
  <2>1. CASE k = 0
    <3>1. SUBSET (1..k) = {{}}
      BY <2>1
    <3>2. /\ [s \in SUBSET (1..k) |-> base] \in [SUBSET (1..k) -> T]
          /\ Good([s \in SUBSET (1..k) |-> base], k)
      BY <3>1
    <3>. QED BY <3>2
  <2>2. CASE k # 0
    <3>1. k - 1 \in S /\ k - 1 \in Nat /\ k - 1 <= m
      <4>1. k - 1 \in 0..(k - 1) /\ k - 1 <= m
        BY <2>2
      <4>. HIDE DEF S
      <4>. QED BY <1>1, <4>1
    <3>2. PICK g \in [SUBSET (1..(k - 1)) -> T] : Good(g, k - 1)
      BY <3>1
    <3>. DEFINE f == [s \in SUBSET (1..k) |->
                        IF k \in s THEN step[<<k, g[s \ {k}]>>] ELSE g[s]]
    <3>3. \A s \in SUBSET (1..k) : /\ s \ {k} \in SUBSET (1..(k - 1))
                                   /\ k \notin s => s \in SUBSET (1..(k - 1))
      BY <3>1
    <3>4. f \in [SUBSET (1..k) -> T]
      <4>1. ASSUME NEW s \in SUBSET (1..k) PROVE f[s] \in T
        <5>1. g[s \ {k}] \in T /\ (k \notin s => g[s] \in T)
          BY <3>2, <3>3
        <5>2. k \in 1..m
          BY <2>2
        <5>. QED BY <5>1, <5>2
      <4>. QED BY <4>1
    <3>5. ASSUME NEW s \in SUBSET (1..k)
          PROVE  f[s] = IF s = {} THEN base ELSE step[<<Max(s), f[s \ {Max(s)}]>>]
      <4>1. CASE k \in s
        <5>1. Max(s) = k
          <6>1. Max(s) \in s /\ \A y \in s : y <= Max(s)
            <7>1. s \in SUBSET (1..k) /\ s # {} /\ k \in Nat
              BY <4>1
            <7>. QED BY ONLY <7>1, MaxFacts
          <6>2. Max(s) \in 1..k /\ k <= Max(s)
            BY <4>1, <6>1
          <6>. QED BY <6>2
        <5>2. s \ {k} \in SUBSET (1..k) /\ k \notin s \ {k} /\ s # {}
          BY <4>1
        <5>3. f[s \ {k}] = g[s \ {k}]
          BY <5>2
        <5>. QED BY <4>1, <5>1, <5>2, <5>3
      <4>2. CASE k \notin s
        <5>1. s \in SUBSET (1..(k - 1)) /\ f[s] = g[s]
          BY <3>3, <4>2
        <5>2. g[s] = IF s = {} THEN base ELSE step[<<Max(s), g[s \ {Max(s)}]>>]
          BY <3>2, <5>1
        <5>3. s \ {Max(s)} \in SUBSET (1..k) /\ k \notin s \ {Max(s)}
          BY <4>2
        <5>4. f[s \ {Max(s)}] = g[s \ {Max(s)}]
          BY <5>3
        <5>. QED BY <5>1, <5>2, <5>4
      <4>. QED BY <4>1, <4>2
    <3>. HIDE DEF f
    <3>. QED BY <3>4, <3>5
  <2>. QED BY <2>1, <2>2
<1>2. \A k \in Nat : k \in S
  <2>. HIDE DEF S
  <2>. QED BY <1>1, Induction
<1>3. m \in S
  <2>. HIDE DEF S
  <2>. QED BY <1>2
<1>4. \E f \in [SUBSET (1..m) -> T] : Good(f, m)
  <2>. HIDE DEF Good
  <2>. QED BY <1>0, <1>3
<1>. QED BY <1>4 DEF Folds

\* The sets of the first places, which is all a fold over a sequence uses.
LEMMA FirstPlaces ==
  ASSUME NEW n \in Nat, NEW k \in 1..n
  PROVE  /\ 1..k \in SUBSET (1..n) /\ 1..(k - 1) \in SUBSET (1..n) /\ 1..k # {}
         /\ Max(1..k) = k /\ (1..k) \ {k} = 1..(k - 1)
<1>1. 1..k \in SUBSET (1..n) /\ 1..(k - 1) \in SUBSET (1..n) /\ k \in 1..k
      /\ (1..k) \ {k} = 1..(k - 1)
  OBVIOUS
<1>2. Max(1..k) \in 1..k /\ \A y \in 1..k : y <= Max(1..k)
  BY <1>1, MaxFacts
<1>3. k <= Max(1..k) /\ Max(1..k) <= k
  BY <1>1, <1>2
<1>. QED BY <1>1, <1>2, <1>3

-----------------------------------------------------------------------------
(* The digits of a number, and the number that digits stand for *)

\* Digits is what its definition says, one digit after the other.
LEMMA DigitsFacts ==
  /\ Digits(0) = <<>>
  /\ \A n \in Nat : Digits(n) \in Seq(Nat)
  /\ \A n \in Nat \ {0} : Digits(n) = Append(Digits(n \div 10), Zero + (n % 10))
<1>. DEFINE prev == [n \in Nat |-> n \div 10]
            step == [p \in Nat \X Seq(Nat) |-> Append(p[2], Zero + (p[1] % 10))]
            Rule(g) == g = [k \in Nat |-> IF k = 0 THEN <<>>
                                          ELSE Append(g[k \div 10], Zero + (k % 10))]
            d == CHOOSE g : Rule(g)
<1>1. /\ prev \in [Nat -> Nat] /\ \A k \in Nat \ {0} : prev[k] \in 0..(k - 1)
      /\ <<>> \in Seq(Nat)
  BY EmptySeq
<1>2. ASSUME NEW n \in Nat, NEW s \in Seq(Nat)
      PROVE  /\ Append(s, Zero + (n % 10)) \in Seq(Nat)
             /\ step[<<n, s>>] = Append(s, Zero + (n % 10))
  <2>1. Zero + (n % 10) \in Nat
    BY DEF Zero
  <2>. QED BY <2>1, AppendProperties
<1>3. step \in [Nat \X Seq(Nat) -> Seq(Nat)]
  BY <1>2
<1>. HIDE DEF step
<1>4. PICK f \in [Nat -> Seq(Nat)] :
        \A k \in Nat : f[k] = IF k = 0 THEN <<>> ELSE step[<<k, f[prev[k]]>>]
  <2>. HIDE DEF prev
  <2>1. Recursive(Seq(Nat), <<>>, step, prev)
    BY <1>1, <1>3 DEF Recursive, Smaller
  <2>2. \E f \in [Nat -> Seq(Nat)] : Runs(f, <<>>, step, prev)
    BY ONLY <2>1, Recursion
  <2>. QED BY <2>2 DEF Runs
<1>5. Rule(f)
  <2>1. ASSUME NEW k \in Nat
        PROVE  f[k] = IF k = 0 THEN <<>> ELSE Append(f[k \div 10], Zero + (k % 10))
    <3>1. k \div 10 \in Nat /\ f[k \div 10] \in Seq(Nat) /\ prev[k] = k \div 10
      BY <1>4
    <3>2. step[<<k, f[k \div 10]>>] = Append(f[k \div 10], Zero + (k % 10))
      BY <1>2, <3>1
    <3>. QED BY <1>4, <3>1, <3>2
  <2>. QED BY <1>4, <2>1
<1>6. Rule(d)
  BY <1>5
<1>7. \A n : Digits(n) = d[n]
  BY DEF Digits
<1>. HIDE DEF d
<1>8. /\ d[0] = <<>>
      /\ \A n \in Nat \ {0} : d[n] = Append(d[n \div 10], Zero + (n % 10))
  BY <1>6
<1>. DEFINE S == {n \in Nat : d[n] \in Seq(Nat)}
<1>9. ASSUME NEW n \in Nat, \A m \in 0..(n - 1) : m \in S
      PROVE  n \in S
  <2>1. CASE n = 0
    BY <1>1, <1>8, <2>1
  <2>2. CASE n # 0
    <3>1. n \div 10 \in 0..(n - 1)
      BY <2>2
    <3>2. d[n \div 10] \in Seq(Nat)
      BY <1>9, <3>1
    <3>3. d[n] \in Seq(Nat)
      BY <1>2, <1>8, <2>2, <3>2
    <3>. QED BY <3>3
  <2>. QED BY <2>1, <2>2
<1>. HIDE DEF S
<1>10. \A n \in Nat : n \in S
  BY <1>9, Induction
<1>11. \A n \in Nat : d[n] \in Seq(Nat)
  BY <1>10 DEF S
<1>. QED BY <1>7, <1>8, <1>11

\* What Value makes of a digit.
DigitValue(c) == IF c >= 97 THEN c - 87 ELSE c - Zero

\* Value is the last one of the values of the digits read so far.
LEMMA ValueRuns ==
  ASSUME NEW s \in Seq(Nat), NEW b \in Nat
  PROVE  \E v : /\ v[0] = 0 /\ Value(s, b) = v[Len(s)]
                /\ \A k \in 1..Len(s) : v[k] = b * v[k - 1] + DigitValue(s[k])
<1>. DEFINE m == Len(s)
            step == [p \in (1..m) \X Int |-> b * p[2] + DigitValue(s[p[1]])]
            Rule(g) == g = [t \in SUBSET DOMAIN s |->
                              IF t = {} THEN 0
                              ELSE b * g[t \ {Max(t)}] + DigitValue(s[Max(t)])]
            it == CHOOSE g : Rule(g)
<1>1. m \in Nat /\ DOMAIN s = 1..m /\ \A k \in 1..m : s[k] \in Nat
  BY EmptySeq, ElementOfSeq
<1>2. \A k \in 1..m : \A y \in Int : b * y + DigitValue(s[k]) \in Int
  BY <1>1 DEF DigitValue, Zero
<1>3. step \in [(1..m) \X Int -> Int]
      /\ \A k \in 1..m : \A y \in Int : step[<<k, y>>] = b * y + DigitValue(s[k])
  BY <1>2
<1>. HIDE DEF step
<1>4. PICK f \in [SUBSET (1..m) -> Int] :
        \A t \in SUBSET (1..m) :
          f[t] = IF t = {} THEN 0 ELSE step[<<Max(t), f[t \ {Max(t)}]>>]
  <2>. HIDE DEF m
  <2>1. Folding(m, Int, 0, step)
    BY <1>1, <1>3 DEF Folding
  <2>2. \E f \in [SUBSET (1..m) -> Int] : Folds(f, m, 0, step)
    BY ONLY <2>1, FoldExists
  <2>. QED BY <2>2 DEF Folds
<1>5. Rule(f)
  <2>1. ASSUME NEW t \in SUBSET DOMAIN s
        PROVE  f[t] = IF t = {} THEN 0
                      ELSE b * f[t \ {Max(t)}] + DigitValue(s[Max(t)])
    <3>0. t \in SUBSET (1..m)
      BY <1>1
    <3>1. t # {} => Max(t) \in 1..m
      BY <1>1, <3>0, MaxFacts
    <3>2. f[t \ {Max(t)}] \in Int
      BY <1>4, <3>0
    <3>3. t # {} => step[<<Max(t), f[t \ {Max(t)}]>>]
                      = b * f[t \ {Max(t)}] + DigitValue(s[Max(t)])
      BY <1>3, <3>1, <3>2
    <3>. QED BY <1>4, <3>0, <3>3
  <2>2. f \in [SUBSET DOMAIN s -> Int]
    BY <1>1, <1>4
  <2>. QED BY <2>1, <2>2
<1>6. Rule(it)
  BY <1>5
<1>7. Value(s, b) = it[DOMAIN s]
  BY DEF Value, FoldLeft, MapThenFoldSet, DigitValue
<1>. HIDE DEF it
<1>. DEFINE v == [k \in 0..m |-> it[1..k]]
<1>8. ASSUME NEW k \in 1..m PROVE v[k] = b * v[k - 1] + DigitValue(s[k])
  <2>1. /\ 1..k \in SUBSET DOMAIN s /\ 1..k # {} /\ Max(1..k) = k
        /\ (1..k) \ {k} = 1..(k - 1)
    <3>1. m \in Nat /\ k \in 1..m
      BY <1>1
    <3>2. /\ 1..k \in SUBSET (1..m) /\ 1..k # {} /\ Max(1..k) = k
          /\ (1..k) \ {k} = 1..(k - 1)
      BY ONLY <3>1, FirstPlaces
    <3>. QED BY <1>1, <3>2
  <2>2. it[1..k] = b * it[1..(k - 1)] + DigitValue(s[k])
    BY <1>6, <2>1
  <2>3. k \in 0..m /\ k - 1 \in 0..m
    BY <1>1
  <2>. QED BY <2>2, <2>3
<1>9. v[0] = 0 /\ v[m] = it[DOMAIN s]
  <2>1. 1..0 = {} /\ {} \in SUBSET DOMAIN s /\ 0 \in 0..m /\ m \in 0..m
    BY <1>1
  <2>2. it[{}] = 0
    BY <1>6, <2>1
  <2>. QED BY <1>1, <2>1, <2>2
<1>. HIDE DEF v
<1>. QED BY <1>7, <1>8, <1>9

\* To know a value it is enough to know the values on the way to it.
LEMMA ValueIs ==
  ASSUME NEW s \in Seq(Nat), NEW b \in Nat, NEW w, w[0] = 0,
         \A k \in 1..Len(s) : w[k] = b * w[k - 1] + DigitValue(s[k])
  PROVE  Value(s, b) = w[Len(s)]
<1>1. PICK v : /\ v[0] = 0 /\ Value(s, b) = v[Len(s)]
               /\ \A k \in 1..Len(s) : v[k] = b * v[k - 1] + DigitValue(s[k])
  BY ValueRuns
<1>. DEFINE S == {k \in Nat : k <= Len(s) => v[k] = w[k]}
<1>2. ASSUME NEW k \in Nat, \A j \in 0..(k - 1) : j \in S
      PROVE  k \in S
  <2>1. CASE k = 0
    BY <1>1, <2>1
  <2>2. CASE k # 0 /\ k <= Len(s)
    <3>1. k - 1 \in 0..(k - 1) /\ k \in 1..Len(s) /\ k - 1 <= Len(s)
      BY <2>2
    <3>2. v[k - 1] = w[k - 1]
      BY <1>2, <3>1
    <3>3. v[k] = w[k]
      BY <1>1, <3>1, <3>2
    <3>. QED BY <3>3
  <2>. QED BY <2>1, <2>2
<1>. HIDE DEF S
<1>3. \A k \in Nat : k \in S
  BY <1>2, Induction
<1>4. Len(s) \in Nat
  BY EmptySeq, ElementOfSeq
<1>. QED BY <1>1, <1>3, <1>4 DEF S

\* One digit more.
LEMMA ValueAppend ==
  ASSUME NEW s \in Seq(Nat), NEW b \in Nat, NEW c \in Nat
  PROVE  Value(Append(s, c), b) = b * Value(s, b) + DigitValue(c)
<1>1. PICK v : /\ v[0] = 0 /\ Value(s, b) = v[Len(s)]
               /\ \A k \in 1..Len(s) : v[k] = b * v[k - 1] + DigitValue(s[k])
  BY ValueRuns
<1>. DEFINE m == Len(s)
            t == Append(s, c)
            w == [k \in 0..(m + 1) |-> IF k = m + 1 THEN b * v[m] + DigitValue(c) ELSE v[k]]
<1>2. /\ m \in Nat /\ t \in Seq(Nat) /\ Len(t) = m + 1 /\ t[m + 1] = c
      /\ \A k \in 1..m : t[k] = s[k]
  BY EmptySeq, ElementOfSeq, AppendProperties
<1>. HIDE DEF t
<1>3. w[0] = 0
  BY <1>1, <1>2
<1>4. ASSUME NEW k \in 1..Len(t) PROVE w[k] = b * w[k - 1] + DigitValue(t[k])
  <2>1. k \in 0..(m + 1) /\ k - 1 \in 0..(m + 1) /\ k - 1 # m + 1
    BY <1>2
  <2>2. CASE k = m + 1
    BY <1>2, <2>1, <2>2
  <2>3. CASE k # m + 1
    <3>1. k \in 1..m
      BY <1>2, <2>3
    <3>. QED BY <1>1, <1>2, <2>1, <2>3, <3>1
  <2>. QED BY <2>2, <2>3
<1>5. w[m + 1] = b * v[m] + DigitValue(c)
  BY <1>2
<1>. HIDE DEF w
<1>6. Value(t, b) = w[Len(t)]
  BY <1>2, <1>3, <1>4, ValueIs
<1>. QED BY <1>1, <1>2, <1>5, <1>6 DEF t

\* Digits in base ten read back, and the first one is not zero.
LEMMA DigitsReadBack ==
  ASSUME NEW n \in Nat
  PROVE  /\ Value(Digits(n), 10) = n
         /\ n # 0 => Len(Digits(n)) > 0 /\ Digits(n)[1] # Zero
<1>. DEFINE Holds(m) == /\ Value(Digits(m), 10) = m
                        /\ m # 0 => Len(Digits(m)) > 0 /\ Digits(m)[1] # Zero
            S == {m \in Nat : Holds(m)}
<1>1. ASSUME NEW m \in Nat, \A j \in 0..(m - 1) : j \in S
      PROVE  Holds(m)
  <2>1. CASE m = 0
    <3>1. <<>> \in Seq(Nat) /\ Len(<<>>) = 0
      BY EmptySeq
    <3>2. Value(<<>>, 10) = 0
      <4>1. PICK v : v[0] = 0 /\ Value(<<>>, 10) = v[Len(<<>>)]
        BY <3>1, ValueRuns
      <4>. QED BY <3>1, <4>1
    <3>. QED BY <2>1, <3>2, DigitsFacts
  <2>2. CASE m # 0
    <3>. DEFINE q == m \div 10
                c == Zero + (m % 10)
    <3>1. /\ q \in 0..(m - 1) /\ q \in Nat /\ m % 10 \in 0..9 /\ m = 10 * q + (m % 10)
          /\ c \in Nat /\ DigitValue(c) = m % 10
      BY <2>2 DEF Zero, DigitValue
    <3>2. Digits(m) = Append(Digits(q), c) /\ Digits(q) \in Seq(Nat)
      BY <2>2, <3>1, DigitsFacts
    <3>3. Holds(q)
      BY <1>1, <3>1
    <3>. HIDE DEF q, c
    <3>4. Value(Digits(m), 10) = 10 * q + DigitValue(c)
      BY <3>1, <3>2, <3>3, ValueAppend
    <3>5. /\ Len(Digits(q)) \in Nat /\ Len(Digits(m)) = Len(Digits(q)) + 1
          /\ Digits(m)[Len(Digits(q)) + 1] = c
          /\ \A k \in 1..Len(Digits(q)) : Digits(m)[k] = Digits(q)[k]
      BY <3>1, <3>2, EmptySeq, ElementOfSeq, AppendProperties
    <3>6. Digits(m)[1] # Zero
      <4>1. CASE q = 0
        <5>1. Len(Digits(q)) = 0
          BY <4>1, DigitsFacts, EmptySeq
        <5>2. c # Zero
          BY <2>2, <3>1, <4>1 DEF DigitValue, Zero
        <5>. QED BY <3>5, <5>1, <5>2
      <4>2. CASE q # 0
        BY <3>3, <3>5, <4>2
      <4>. QED BY <4>1, <4>2
    <3>. QED BY <3>1, <3>4, <3>5, <3>6
  <2>. QED BY <2>1, <2>2
<1>. HIDE DEF Holds
<1>2. ASSUME NEW m \in Nat, \A j \in 0..(m - 1) : j \in S
      PROVE  m \in S
  BY <1>1, <1>2
<1>. HIDE DEF S
<1>3. \A m \in Nat : m \in S
  BY <1>2, Induction
<1>. QED BY <1>3 DEF S, Holds

-----------------------------------------------------------------------------
(* Hexadecimal digits *)

LEMMA HexDigits ==
  ASSUME NEW x \in 0..15
  PROVE  /\ HexDigit(x) \in Nat /\ DigitValue(HexDigit(x)) = x
         /\ HexDigit(x) = Zero => x = 0
  BY DEF HexDigit, DigitValue, Letter, Zero

\* The arguments of the print functions are u32.
U32(n) == n \in Nat /\ n \div 16 ^ 7 < 16

\* What is left of a number without its last j digits.
Left(n, j) == IF j < 8 THEN n \div 16 ^ j ELSE 0

LEMMA LeftFacts ==
  ASSUME NEW n \in Nat, U32(n)
  PROVE  /\ Left(n, 0) = n
         /\ \A j \in 0..8 : Left(n, j) \in Nat
         /\ \A j \in 0..7 : /\ Nibble(n, j) \in 0..15
                            /\ Left(n, j) = 16 * Left(n, j + 1) + Nibble(n, j)
<1>1. /\ 16 ^ 0 = 1 /\ 16 ^ 1 = 16 /\ 16 ^ 2 = 256 /\ 16 ^ 3 = 4096
      /\ 16 ^ 4 = 65536 /\ 16 ^ 5 = 1048576 /\ 16 ^ 6 = 16777216 /\ 16 ^ 7 = 268435456
  OBVIOUS
<1>2. /\ Left(n, 0) = n /\ Left(n, 1) = n \div 16 /\ Left(n, 2) = n \div 256
      /\ Left(n, 3) = n \div 4096 /\ Left(n, 4) = n \div 65536
      /\ Left(n, 5) = n \div 1048576 /\ Left(n, 6) = n \div 16777216
      /\ Left(n, 7) = n \div 268435456 /\ Left(n, 8) = 0
  BY <1>1 DEF Left
<1>3. /\ Nibble(n, 0) = Left(n, 0) % 16 /\ Nibble(n, 1) = Left(n, 1) % 16
      /\ Nibble(n, 2) = Left(n, 2) % 16 /\ Nibble(n, 3) = Left(n, 3) % 16
      /\ Nibble(n, 4) = Left(n, 4) % 16 /\ Nibble(n, 5) = Left(n, 5) % 16
      /\ Nibble(n, 6) = Left(n, 6) % 16 /\ Nibble(n, 7) = Left(n, 7) % 16
  BY DEF Left, Nibble
<1>4. /\ Left(n, 1) = Left(n, 0) \div 16 /\ Left(n, 2) = Left(n, 1) \div 16
      /\ Left(n, 3) = Left(n, 2) \div 16 /\ Left(n, 4) = Left(n, 3) \div 16
  BY <1>2
<1>5. /\ Left(n, 5) = Left(n, 4) \div 16 /\ Left(n, 6) = Left(n, 5) \div 16
      /\ Left(n, 7) = Left(n, 6) \div 16
  BY <1>2
<1>6. Left(n, 7) < 16 /\ Left(n, 8) = Left(n, 7) \div 16
  BY <1>1, <1>2 DEF U32
<1>7. \A j \in 0..8 : Left(n, j) \in Nat
  BY <1>2
<1>8. \A j \in 0..7 : Nibble(n, j) = Left(n, j) % 16 /\ Left(n, j + 1) = Left(n, j) \div 16
  <2>1. ASSUME NEW j \in 0..7
        PROVE  j = 0 \/ j = 1 \/ j = 2 \/ j = 3 \/ j = 4 \/ j = 5 \/ j = 6 \/ j = 7
    OBVIOUS
  <2>2. /\ 0 + 1 = 1 /\ 1 + 1 = 2 /\ 2 + 1 = 3 /\ 3 + 1 = 4 /\ 4 + 1 = 5 /\ 5 + 1 = 6
        /\ 6 + 1 = 7 /\ 7 + 1 = 8
    OBVIOUS
  <2>. QED BY <1>3, <1>4, <1>5, <1>6, <2>1, <2>2
<1>9. ASSUME NEW j \in 0..7
      PROVE  /\ Nibble(n, j) \in 0..15
             /\ Left(n, j) = 16 * Left(n, j + 1) + Nibble(n, j)
  <2>1. Left(n, j) \in Nat
    BY <1>7
  <2>2. Nibble(n, j) = Left(n, j) % 16 /\ Left(n, j + 1) = Left(n, j) \div 16
    BY <1>8
  <2>. QED BY ONLY <2>1, <2>2
<1>. QED BY <1>2, <1>7, <1>9

\* The digits that are shown besides the last: up to the first that is not zero.
LEMMA ShownFacts ==
  ASSUME NEW n \in Nat, U32(n)
  PROVE  \E m \in 0..7 : /\ Cardinality(Shown(n)) = m
                         /\ m # 0 => Nibble(n, m) # 0
                         /\ Left(n, m + 1) = 0
<1>1. Shown(n) \in SUBSET (1..7)
  BY DEF Shown
<1>2. PICK m \in 0..7 : /\ Shown(n) = 1..m /\ (m # 0 => Nibble(n, m) # 0)
  <2>1. CASE Shown(n) = {}
    <3>1. 1..0 = {}
      OBVIOUS
    <3>. QED BY <2>1, <3>1
  <2>2. CASE Shown(n) # {}
    <3>. DEFINE m == Max(Shown(n))
    <3>1. m \in Shown(n) /\ \A k \in Shown(n) : k <= m
      BY <1>1, <2>2, MaxFacts
    <3>. HIDE DEF m
    <3>2. m \in 1..7
      BY <1>1, <3>1
    <3>3. PICK k \in m..7 : Nibble(n, k) # 0
      BY <3>1 DEF Shown
    <3>4. k \in Shown(n)
      BY <3>2, <3>3 DEF Shown
    <3>5. k = m
      BY <3>1, <3>2, <3>4
    <3>6. ASSUME NEW j \in 1..m PROVE j \in Shown(n)
      <4>1. j \in 1..7 /\ m \in j..7
        BY <3>2
      <4>. QED BY <3>3, <3>5, <4>1 DEF Shown
    <3>7. ASSUME NEW j \in Shown(n) PROVE j \in 1..m
      BY <1>1, <3>1, <3>2
    <3>8. Shown(n) = 1..m
      BY <3>6, <3>7
    <3>. QED BY <3>2, <3>3, <3>5, <3>8
  <2>. QED BY <2>1, <2>2
<1>3. Cardinality(1..m) = m
  <2>1. 1 \in Int /\ m \in Int /\ (IF 1 > m THEN 0 ELSE m - 1 + 1) = m
    OBVIOUS
  <2>2. Cardinality(1..m) = IF 1 > m THEN 0 ELSE m - 1 + 1
    BY ONLY <2>1, FS_Interval
  <2>. QED BY <2>1, <2>2
<1>4. \A j \in (m + 1)..7 : Nibble(n, j) = 0
  <2>1. ASSUME NEW j \in (m + 1)..7, Nibble(n, j) # 0 PROVE FALSE
    <3>1. j \in 1..7 /\ j \in j..7 /\ j \notin 1..m
      OBVIOUS
    <3>2. j \in Shown(n)
      BY <2>1, <3>1 DEF Shown
    <3>. QED BY <1>2, <3>1, <3>2
  <2>. QED BY <2>1
<1>5. Left(n, m + 1) = 0
  <2>. DEFINE S == {d \in Nat : d <= 7 - m => Left(n, 8 - d) = 0}
  <2>1. ASSUME NEW d \in Nat, \A e \in 0..(d - 1) : e \in S
        PROVE  d \in S
    <3>1. CASE d = 0
      <4>1. Left(n, 8) = 0
        BY DEF Left
      <4>2. Left(n, 8 - d) = 0
        BY <3>1, <4>1
      <4>. QED BY <4>2
    <3>2. CASE d # 0 /\ d <= 7 - m
      <4>1. d - 1 \in 0..(d - 1) /\ d - 1 <= 7 - m /\ 8 - (d - 1) = (8 - d) + 1
            /\ 8 - d \in 0..7 /\ 8 - d \in (m + 1)..7
        BY <3>2
      <4>2. Left(n, 8 - (d - 1)) = 0
        BY <2>1, <4>1
      <4>3. Left(n, 8 - d) = 16 * Left(n, (8 - d) + 1) + Nibble(n, 8 - d)
        BY <4>1, LeftFacts
      <4>4. Left(n, 8 - d) = 0
        BY <1>4, <4>1, <4>2, <4>3
      <4>. QED BY <4>4
    <3>. QED BY <3>1, <3>2
  <2>. HIDE DEF S
  <2>2. \A d \in Nat : d \in S
    BY <2>1, Induction
  <2>3. 7 - m \in Nat /\ 7 - m <= 7 - m /\ 8 - (7 - m) = m + 1
    OBVIOUS
  <2>. QED BY <2>2, <2>3 DEF S
<1>. QED BY <1>2, <1>3, <1>5

\* One sequence after another.
LEMMA JoinFacts ==
  ASSUME NEW s \in Seq(Nat), NEW t \in Seq(Nat)
  PROVE  /\ s \o t \in Seq(Nat) /\ Len(s \o t) = Len(s) + Len(t)
         /\ Len(s) \in Nat /\ Len(t) \in Nat
         /\ \A k \in 1..Len(s) : (s \o t)[k] = s[k]
         /\ \A k \in 1..Len(t) : (s \o t)[Len(s) + k] = t[k]
<1>1. /\ s \o t \in Seq(Nat) /\ Len(s \o t) = Len(s) + Len(t)
      /\ \A k \in 1..(Len(s) + Len(t)) :
           (s \o t)[k] = IF k <= Len(s) THEN s[k] ELSE t[k - Len(s)]
  BY ConcatProperties
<1>. DEFINE c == s \o t
<1>2. Len(s) \in Nat /\ Len(t) \in Nat
  BY LenProperties
<1>. HIDE DEF c
<1>3. ASSUME NEW k \in 1..Len(s) PROVE c[k] = s[k]
  <2>1. k \in 1..(Len(s) + Len(t)) /\ k <= Len(s)
    BY <1>2
  <2>. QED BY <1>1, <2>1 DEF c
<1>4. ASSUME NEW k \in 1..Len(t) PROVE c[Len(s) + k] = t[k]
  <2>1. /\ Len(s) + k \in 1..(Len(s) + Len(t)) /\ ~(Len(s) + k <= Len(s))
        /\ (Len(s) + k) - Len(s) = k
    BY <1>2
  <2>. QED BY <1>1, <2>1 DEF c
<1>. QED BY <1>1, <1>2, <1>3, <1>4 DEF c

\* The digits between 0x and the end.
HexDigitsOf(n) == SubSeq(U32ToHex(n), 3, Len(U32ToHex(n)))

LEMMA HexText ==
  ASSUME NEW n \in Nat, U32(n), NEW m \in 0..7, Cardinality(Shown(n)) = m
  PROVE  /\ HexDigitsOf(n) \in Seq(Nat) /\ Len(HexDigitsOf(n)) = m + 1
         /\ \A k \in 1..(m + 1) : HexDigitsOf(n)[k] = HexDigit(Nibble(n, m + 1 - k))
         /\ U32ToHex(n) \in Seq(Nat)
<1>. DEFINE head == <<48, 120>>
            mid == [k \in 1..m |-> HexDigit(Nibble(n, m + 1 - k))]
            last == <<HexDigit(n % 16)>>
            s == (head \o mid) \o last
<1>1. U32ToHex(n) = s
  BY DEF U32ToHex
<1>2. head \in Seq(Nat) /\ Len(head) = 2
  OBVIOUS
<1>3. ASSUME NEW j \in 0..7 PROVE HexDigit(Nibble(n, j)) \in Nat
  BY LeftFacts, HexDigits
<1>4. mid \in Seq(Nat) /\ Len(mid) = m
  <2>1. \A k \in 1..m : m + 1 - k \in 0..7
    OBVIOUS
  <2>2. mid \in [1..m -> Nat]
    BY <1>3, <2>1
  <2>. QED BY <2>2
<1>5. HexDigit(n % 16) = HexDigit(Nibble(n, 0))
  <2>1. 16 ^ 0 = 1 /\ n \div 1 = n
    OBVIOUS
  <2>. QED BY <2>1 DEF Nibble
<1>6. last \in Seq(Nat) /\ Len(last) = 1 /\ last[1] = HexDigit(Nibble(n, 0))
  BY <1>3, <1>5
<1>7. \A k \in 1..m : mid[k] = HexDigit(Nibble(n, m + 1 - k))
  OBVIOUS
<1>. HIDE DEF head, mid, last
<1>. DEFINE front == head \o mid
<1>8. /\ front \in Seq(Nat) /\ Len(front) = m + 2
      /\ \A k \in 1..m : front[k + 2] = mid[k]
  <2>1. /\ front \in Seq(Nat) /\ Len(front) = Len(head) + Len(mid)
        /\ \A k \in 1..Len(mid) : front[Len(head) + k] = mid[k]
    BY <1>2, <1>4, JoinFacts
  <2>. HIDE DEF front
  <2>2. \A k \in 1..m : k + 2 = Len(head) + k
    BY <1>2
  <2>. QED BY <1>2, <1>4, <2>1, <2>2
<1>. HIDE DEF front
<1>9. /\ s \in Seq(Nat) /\ Len(s) = m + 3 /\ s[m + 3] = last[1]
      /\ \A k \in 1..m : s[k + 2] = mid[k]
  <2>1. /\ s \in Seq(Nat) /\ Len(s) = Len(front) + Len(last)
        /\ \A k \in 1..Len(front) : s[k] = front[k]
        /\ \A k \in 1..Len(last) : s[Len(front) + k] = last[k]
    BY <1>6, <1>8, JoinFacts DEF front
  <2>. HIDE DEF s
  <2>2. m + 3 = Len(front) + 1 /\ 1 \in 1..Len(last) /\ \A k \in 1..m : k + 2 \in 1..Len(front)
    BY <1>6, <1>8
  <2>. QED BY <1>6, <1>8, <2>1, <2>2
<1>. HIDE DEF s
<1>10. HexDigitsOf(n) = SubSeq(s, 3, m + 3)
  BY <1>1, <1>9 DEF HexDigitsOf
<1>11. /\ HexDigitsOf(n) \in Seq(Nat) /\ Len(HexDigitsOf(n)) = m + 1
       /\ \A k \in 1..(m + 1) : HexDigitsOf(n)[k] = s[k + 2]
  BY <1>9, <1>10, SubSeqProperties
<1>12. ASSUME NEW k \in 1..(m + 1)
       PROVE  HexDigitsOf(n)[k] = HexDigit(Nibble(n, m + 1 - k))
  <2>1. CASE k = m + 1
    <3>1. k + 2 = m + 3 /\ m + 1 - k = 0
      BY <2>1
    <3>. QED BY <1>6, <1>9, <1>11, <3>1
  <2>2. CASE k # m + 1
    <3>1. k \in 1..m
      BY <2>2
    <3>. QED BY <1>7, <1>9, <1>11, <3>1
  <2>. QED BY <2>1, <2>2
<1>. QED BY <1>1, <1>9, <1>11, <1>12

LEMMA HexReadsBack ==
  ASSUME NEW n \in Nat, U32(n)
  PROVE  /\ Value(HexDigitsOf(n), 16) = n
         /\ Len(HexDigitsOf(n)) > 1 => HexDigitsOf(n)[1] # Zero
<1>1. PICK m \in 0..7 : /\ Cardinality(Shown(n)) = m
                        /\ m # 0 => Nibble(n, m) # 0
                        /\ Left(n, m + 1) = 0
  BY ShownFacts
<1>. DEFINE s == HexDigitsOf(n)
            w == [k \in 0..(m + 1) |-> Left(n, m + 1 - k)]
<1>2. /\ s \in Seq(Nat) /\ Len(s) = m + 1
      /\ \A k \in 1..(m + 1) : s[k] = HexDigit(Nibble(n, m + 1 - k))
  BY <1>1, HexText
<1>. HIDE DEF s
<1>3. ASSUME NEW k \in 1..(m + 1)
      PROVE  w[k] = 16 * w[k - 1] + DigitValue(s[k])
  <2>1. /\ m + 1 - k \in 0..7 /\ m + 1 - (k - 1) = (m + 1 - k) + 1
        /\ k \in 0..(m + 1) /\ k - 1 \in 0..(m + 1)
    OBVIOUS
  <2>2. /\ Nibble(n, m + 1 - k) \in 0..15
        /\ Left(n, m + 1 - k) = 16 * Left(n, (m + 1 - k) + 1) + Nibble(n, m + 1 - k)
    BY <2>1, LeftFacts
  <2>3. DigitValue(s[k]) = Nibble(n, m + 1 - k)
    BY <1>2, <2>2, HexDigits
  <2>4. w[k] = Left(n, m + 1 - k) /\ w[k - 1] = Left(n, (m + 1 - k) + 1)
    BY <2>1
  <2>. HIDE DEF w
  <2>. QED BY <2>2, <2>3, <2>4
<1>4. w[0] = 0 /\ w[m + 1] = n
  <2>1. 0 \in 0..(m + 1) /\ m + 1 \in 0..(m + 1) /\ m + 1 - 0 = m + 1 /\ m + 1 - (m + 1) = 0
    OBVIOUS
  <2>. QED BY <1>1, <2>1, LeftFacts
<1>. HIDE DEF w
<1>5. Value(s, 16) = n
  <2>1. s \in Seq(Nat) /\ 16 \in Nat /\ w[0] = 0 /\ Len(s) = m + 1
        /\ \A k \in 1..Len(s) : w[k] = 16 * w[k - 1] + DigitValue(s[k])
    BY <1>2, <1>3, <1>4
  <2>2. Value(s, 16) = w[Len(s)]
    BY ONLY <2>1, ValueIs
  <2>. QED BY <1>4, <2>1, <2>2
<1>6. ASSUME Len(s) > 1 PROVE s[1] # Zero
  <2>1. m # 0 /\ 1 \in 1..(m + 1) /\ m + 1 - 1 = m /\ m \in 0..7
    BY <1>2, <1>6
  <2>2. s[1] = HexDigit(Nibble(n, m)) /\ Nibble(n, m) # 0 /\ Nibble(n, m) \in 0..15
    BY <1>1, <1>2, <2>1, LeftFacts
  <2>. QED BY <2>2, HexDigits
<1>. QED BY <1>5, <1>6 DEF s

-----------------------------------------------------------------------------
(* The numbers that are printed *)

CallsInv == program \in [Task -> Seq(PrintCall)] /\ call \in [Task -> PrintCall]

LEMMA NoCallFacts == NoCall \in PrintCall
<1>1. 0 \in u32
  <2>1. 16 ^ 7 = 268435456
    OBVIOUS
  <2>. QED BY <2>1 DEF u32
<1>2. <<>> \in Seq(FormatItem)
  BY EmptySeq
<1>. QED BY <1>1, <1>2 DEF NoCall, PrintCall

LEMMA CallsInvariance == Spec => []CallsInv
<1>1. Init => CallsInv
  BY ProgramsAssumption, NoCallFacts DEF Init, CallsInv
<1>2. CallsInv /\ [Next]_vars => CallsInv'
  <2> SUFFICES ASSUME CallsInv, [Next]_vars PROVE CallsInv'
    OBVIOUS
  <2>1. CASE UNCHANGED vars
    BY <2>1 DEF CallsInv, vars, calls
  <2>2. ASSUME NEW t \in Task, Call(t) PROVE CallsInv'
    <3>1. program[t] \in Seq(PrintCall) /\ program[t] # <<>>
      BY <2>2 DEF CallsInv, Call
    <3>2. Head(program[t]) \in PrintCall /\ Tail(program[t]) \in Seq(PrintCall)
      BY <3>1, HeadTailProperties
    <3>3. /\ program' = [program EXCEPT ![t] = Tail(program[t])]
          /\ call' = [call EXCEPT ![t] = Head(program[t])]
      BY <2>2 DEF Call
    <3>. QED BY <3>2, <3>3 DEF CallsInv
  <2>3. ASSUME NEW t \in Task, Written(t) PROVE CallsInv'
    BY <2>3, NoCallFacts DEF CallsInv, Written
  <2>4. ASSUME NEW t \in Task, Put(t) \/ Advance(t) \/ MoveCursor(t) PROVE CallsInv'
    <3>1. UNCHANGED calls
      BY <2>4 DEF Put, PutBackspace, LoadBack, PutTab, PutReturn, PutNewline, Locate,
                  PutPrintable, PutNothing, Advance, LoadX, StoreX, Wrap, LoadY, StoreY,
                  Scroll, ScrollLine, LastLine, MoveCursor, SelectHigh, SendHigh,
                  SelectLow, SendLow
    <3>. QED BY <3>1 DEF CallsInv, calls
  <2>. QED BY <2>1, <2>2, <2>3, <2>4 DEF Next
<1>. QED BY <1>1, <1>2, PTL DEF Spec

\* A digit alone.
LEMMA ZeroReadsBack ==
  /\ <<Zero>> \in Seq(Nat) /\ Len(<<Zero>>) = 1 /\ Value(<<Zero>>, 10) = 0
<1>. DEFINE s == <<Zero>>
            w == [k \in 0..1 |-> 0]
<1>1. s \in Seq(Nat) /\ Len(s) = 1 /\ s[1] = Zero
  BY DEF Zero
<1>. HIDE DEF s
<1>2. \A k \in 1..Len(s) : w[k] = 10 * w[k - 1] + DigitValue(s[k])
  <2>1. \A k \in 1..Len(s) : k = 1
    BY <1>1
  <2>2. DigitValue(Zero) = 0
    BY DEF DigitValue, Zero
  <2>. QED BY <1>1, <2>1, <2>2
<1>3. w[0] = 0 /\ w[1] = 0
  OBVIOUS
<1>. HIDE DEF w
<1>4. s \in Seq(Nat) /\ 10 \in Nat /\ w[0] = 0
  BY <1>1, <1>3
<1>5. Value(s, 10) = w[Len(s)]
  BY ONLY <1>2, <1>4, ValueIs
<1>. QED BY <1>1, <1>3, <1>5 DEF s

LEMMA DecReadsBack ==
  ASSUME NEW n \in Nat, NEW s, s = IF n = 0 THEN <<Zero>> ELSE Digits(n)
  PROVE  Value(s, 10) = n /\ (Len(s) > 1 => s[1] # Zero)
<1>1. CASE n = 0
  BY <1>1, ZeroReadsBack
<1>2. CASE n # 0
  BY <1>2, DigitsReadBack
<1>. QED BY <1>1, <1>2

\* What is printed of a number reads back as the number, for every u32 (a
\* directive of one byte: for every number below 128) and with no digit to
\* spare: the loops over % 10, the reversal of their digits and the skipped
\* zeroes of u32_to_hex are right.
THEOREM NumbersTheorem == Spec => []NumbersReadBack
<1>1. ASSUME CallsInv, NEW t \in Task
      PROVE  LET c == call[t]
                 Reads(digits, base, n) ==
                   Value(digits, base) = n /\ (Len(digits) > 1 => digits[1] # Zero)
                 Hex(s, n) == Reads(SubSeq(s, 3, Len(s)), 16, n)
             IN /\ c.op = "screen_write_hex" => Hex(Text(c), c.arg)
                /\ c.op = "screen_write_dec" => Reads(Text(c), 10, c.arg)
                /\ c.op = "printk" => \A k \in DOMAIN c.format :
                     LET item == c.format[k] IN
                     /\ item.directive = "x" => Hex(Formatted(item), item.arg)
                     /\ item.directive \in {"c", "d"} /\ item.arg < 128 =>
                          Reads(Formatted(item), 10, item.arg)
  <2>. DEFINE c == call[t]
              Reads(digits, base, n) ==
                Value(digits, base) = n /\ (Len(digits) > 1 => digits[1] # Zero)
  <2>1. c \in PrintCall
    BY <1>1 DEF CallsInv
  <2>2. \A n \in u32 : n \in Nat /\ U32(n)
    BY DEF u32, U32
  <2>3. \A n \in u32 : Reads(HexDigitsOf(n), 16, n)
    BY <2>2, HexReadsBack
  <2>. HIDE DEF c
  <2>4. c.op = "screen_write_hex" => Reads(SubSeq(Text(c), 3, Len(Text(c))), 16, c.arg)
    <3>1. c.op = "screen_write_hex" => Text(c) = U32ToHex(c.arg)
      BY DEF Text
    <3>2. c.arg \in u32
      BY <2>1 DEF PrintCall
    <3>3. Reads(SubSeq(U32ToHex(c.arg), 3, Len(U32ToHex(c.arg))), 16, c.arg)
      BY <2>3, <3>2 DEF HexDigitsOf
    <3>. HIDE DEF Reads
    <3>. QED BY <3>1, <3>3
  <2>5. c.op = "screen_write_dec" => Reads(Text(c), 10, c.arg)
    <3>1. c.op = "screen_write_dec" => Text(c) = ScreenWriteDec(c.arg)
      BY DEF Text
    <3>2. c.arg \in Nat
      BY <2>1, <2>2 DEF PrintCall
    <3>3. Reads(ScreenWriteDec(c.arg), 10, c.arg)
      BY <3>2, DecReadsBack DEF ScreenWriteDec
    <3>. HIDE DEF Reads
    <3>. QED BY <3>1, <3>3
  <2>6. ASSUME NEW k \in DOMAIN c.format
        PROVE  /\ c.format[k].directive = "x" =>
                    Reads(SubSeq(Formatted(c.format[k]), 3, Len(Formatted(c.format[k]))),
                          16, c.format[k].arg)
               /\ c.format[k].directive \in {"c", "d"} /\ c.format[k].arg < 128 =>
                    Reads(Formatted(c.format[k]), 10, c.format[k].arg)
    <3>. DEFINE item == c.format[k]
                n == item.arg
    <3>1. item \in FormatItem
      <4>1. c.format \in Seq(FormatItem)
        BY <2>1 DEF PrintCall
      <4>. QED BY <4>1, LenProperties, ElementOfSeq
    <3>. HIDE DEF item
    <3>2. n \in u32 /\ n \in Nat
      BY <2>2, <3>1 DEF FormatItem
    <3>3. item.directive = "x" => Reads(SubSeq(Formatted(item), 3, Len(Formatted(item))), 16, n)
      <4>1. item.directive = "x" => Formatted(item) = U32ToHex(n)
        BY DEF Formatted
      <4>2. Reads(SubSeq(U32ToHex(n), 3, Len(U32ToHex(n))), 16, n)
        BY <2>3, <3>2 DEF HexDigitsOf
      <4>. HIDE DEF Reads, n
      <4>. QED BY <4>1, <4>2
    <3>4. item.directive \in {"c", "d"} /\ n < 128 => Reads(Formatted(item), 10, n)
      <4>1. item.directive \in {"c", "d"} => Formatted(item) = U32ToDec(n)
        BY DEF Formatted
      <4>2. ASSUME n < 128 PROVE U32ToDec(n) = IF n = 0 THEN <<Zero>> ELSE Digits(n)
        <5>1. SignedChar(n) = n
          BY <3>2, <4>2 DEF SignedChar
        <5>. QED BY <3>2, <5>1 DEF U32ToDec
      <4>3. n < 128 => Reads(U32ToDec(n), 10, n)
        BY <3>2, <4>2, DecReadsBack
      <4>. HIDE DEF Reads, n
      <4>. QED BY <4>1, <4>3
    <3>. QED BY <3>3, <3>4 DEF item
  <2>. QED BY <2>4, <2>5, <2>6 DEF c
<1>2. CallsInv => NumbersReadBack
  BY <1>1 DEF NumbersReadBack
<1>. QED BY <1>2, CallsInvariance, PTL

-----------------------------------------------------------------------------
(* The texts that are printed *)

LEMMA FlattenFacts ==
  ASSUME NEW ss \in Seq(Seq(Nat))
  PROVE  FlattenSeq(ss) \in Seq(Nat)
<1>. DEFINE n == Len(ss)
            Rule(g) == g = [k \in 1..n |-> IF k = 1 THEN ss[k] ELSE g[k - 1] \o ss[k]]
            it == CHOOSE g : Rule(g)
            prev == [k \in Nat |-> IF k = 0 THEN 0 ELSE k - 1]
            step == [p \in Nat \X Seq(Nat) |->
                       IF p[1] \notin 1..n THEN <<>>
                       ELSE IF p[1] = 1 THEN ss[1] ELSE p[2] \o ss[p[1]]]
<1>1. n \in Nat /\ \A k \in 1..n : ss[k] \in Seq(Nat)
  BY LenProperties, ElementOfSeq
<1>2. CASE n = 0
  <2>1. ss = <<>>
    BY <1>2, EmptySeq
  <2>2. FlattenSeq(ss) = ss
    BY <1>2 DEF FlattenSeq
  <2>. QED BY <2>1, <2>2, EmptySeq
<1>3. CASE n # 0
  <2>1. <<>> \in Seq(Nat)
    BY EmptySeq
  <2>2. ASSUME NEW k \in Nat, NEW s \in Seq(Nat)
        PROVE  /\ step[<<k, s>>] \in Seq(Nat)
               /\ k = 1 => step[<<k, s>>] = ss[1]
               /\ k \in 1..n /\ k # 1 => step[<<k, s>>] = s \o ss[k]
    <3>1. step[<<k, s>>] = IF k \notin 1..n THEN <<>> ELSE IF k = 1 THEN ss[1] ELSE s \o ss[k]
      OBVIOUS
    <3>2. 1 \in 1..n
      BY <1>1, <1>3
    <3>3. k \in 1..n => s \o ss[k] \in Seq(Nat)
      BY <1>1, JoinFacts
    <3>. HIDE DEF step, n
    <3>. QED BY <1>1, <2>1, <3>1, <3>2, <3>3
  <2>3. step \in [Nat \X Seq(Nat) -> Seq(Nat)]
    BY <2>2
  <2>4. prev \in [Nat -> Nat] /\ \A k \in Nat \ {0} : prev[k] = k - 1 /\ prev[k] \in 0..(k - 1)
    OBVIOUS
  <2>. HIDE DEF step, prev, n
  <2>5. PICK f \in [Nat -> Seq(Nat)] :
          \A k \in Nat : f[k] = IF k = 0 THEN <<>> ELSE step[<<k, f[prev[k]]>>]
    <3>1. Recursive(Seq(Nat), <<>>, step, prev)
      BY <2>1, <2>3, <2>4 DEF Recursive, Smaller
    <3>2. \E f \in [Nat -> Seq(Nat)] : Runs(f, <<>>, step, prev)
      BY ONLY <3>1, Recursion
    <3>. QED BY <3>2 DEF Runs
  <2>. DEFINE h == [k \in 1..n |-> f[k]]
  <2>6. ASSUME NEW k \in 1..n PROVE f[k] = IF k = 1 THEN ss[k] ELSE f[k - 1] \o ss[k]
    <3>0. k \in Nat \ {0} /\ k - 1 \in Nat
      BY <1>1
    <3>1. k \in Nat /\ k # 0 /\ prev[k] = k - 1 /\ f[k - 1] \in Seq(Nat)
      BY <2>4, <2>5, <3>0
    <3>2. f[k] = step[<<k, f[k - 1]>>]
      <4>1. f[k] = step[<<k, f[prev[k]]>>]
        BY <2>5, <3>1
      <4>. QED BY <3>1, <4>1
    <3>. QED BY <2>2, <3>1, <3>2
  <2>7. Rule(h)
    <3>1. ASSUME NEW k \in 1..n PROVE h[k] = IF k = 1 THEN ss[k] ELSE h[k - 1] \o ss[k]
      <4>1. k # 1 => k - 1 \in 1..n
        BY <1>1
      <4>. QED BY <2>6, <4>1
    <3>. QED BY <3>1
  <2>8. Rule(it)
    BY <2>7
  <2>9. FlattenSeq(ss) = it[n]
    <3>1. Len(ss) # 0
      BY <1>3 DEF n
    <3>. QED BY <3>1 DEF FlattenSeq, n
  <2>. HIDE DEF it
  <2>. DEFINE S == {k \in Nat : k \in 1..n => it[k] \in Seq(Nat)}
  <2>10. ASSUME NEW k \in Nat, \A j \in 0..(k - 1) : j \in S
         PROVE  k \in S
    <3> SUFFICES ASSUME k \in 1..n PROVE it[k] \in Seq(Nat)
      OBVIOUS
    <3>1. it[k] = IF k = 1 THEN ss[k] ELSE it[k - 1] \o ss[k]
      BY <2>8
    <3>2. CASE k = 1
      BY <1>1, <3>1, <3>2
    <3>3. CASE k # 1
      <4>1. k - 1 \in 0..(k - 1) /\ k - 1 \in 1..n
        BY <1>1, <3>3
      <4>2. it[k - 1] \in Seq(Nat)
        BY <2>10, <4>1
      <4>. QED BY <1>1, <3>1, <3>3, <4>2, JoinFacts
    <3>. QED BY <3>2, <3>3
  <2>. HIDE DEF S
  <2>11. \A k \in Nat : k \in S
    BY <2>10, Induction
  <2>12. n \in 1..n
    BY <1>1, <1>3
  <2>. QED BY <1>1, <2>9, <2>11, <2>12 DEF S
<1>. QED BY <1>2, <1>3

LEMMA FormattedFacts ==
  ASSUME NEW item \in FormatItem
  PROVE  Formatted(item) \in Seq(Nat)
<1>. DEFINE n == item.arg
<1>1. /\ item.directive \in {"x", "d", "c", "p", "b", "s", "literal"}
      /\ n \in u32 /\ item.text \in Seq(Nat)
  BY DEF FormatItem
<1>2. n \in Nat /\ U32(n)
  BY <1>1 DEF u32, U32
<1>. HIDE DEF n
<1>3. U32ToHex(n) \in Seq(Nat)
  <2>1. PICK m \in 0..7 : Cardinality(Shown(n)) = m
    BY <1>2, ShownFacts
  <2>. QED BY <1>2, <2>1, HexText
<1>4. U32ToDec(n) \in Seq(Nat)
  <2>1. SignedChar(n) \in Int
    BY <1>2 DEF SignedChar
  <2>2. SignedChar(n) > 0 => Digits(SignedChar(n)) \in Seq(Nat)
    <3>1. SignedChar(n) > 0 => SignedChar(n) \in Nat
      BY <2>1
    <3>. QED BY <3>1, DigitsFacts
  <2>3. <<>> \in Seq(Nat)
    BY EmptySeq
  <2>. QED BY <2>2, <2>3, ZeroReadsBack DEF U32ToDec
<1>5. True \in Seq(Nat) /\ False \in Seq(Nat) /\ Nul \in Seq(Nat) /\ <<45, 62>> \in Seq(Nat)
  BY DEF True, False, Nul
<1>6. CASE item.directive = "x"
  BY <1>3, <1>6 DEF Formatted, n
<1>7. CASE item.directive \in {"d", "c"}
  BY <1>4, <1>7 DEF Formatted, n
<1>8. CASE item.directive = "p"
  <2>. DEFINE rest == IF n = 0 THEN Nul ELSE U32ToDec(n)
  <2>1. Formatted(item) = <<45, 62>> \o rest
    BY <1>8 DEF Formatted, n
  <2>2. rest \in Seq(Nat)
    BY <1>4, <1>5
  <2>. HIDE DEF rest
  <2>3. <<45, 62>> \o rest \in Seq(Nat)
    BY <1>5, <2>2, JoinFacts
  <2>. QED BY <2>1, <2>3
<1>9. CASE item.directive = "b"
  BY <1>5, <1>9 DEF Formatted, n
<1>10. CASE item.directive \in {"s", "literal"}
  BY <1>1, <1>10 DEF Formatted
<1>. QED BY <1>1, <1>6, <1>7, <1>8, <1>9, <1>10

LEMMA TextFacts ==
  ASSUME NEW c \in PrintCall
  PROVE  Text(c) \in Seq(Nat)
<1>1. /\ c.op \in {"none", "printk", "screen_write_hex", "screen_write_dec"}
      /\ c.arg \in u32 /\ c.format \in Seq(FormatItem)
  BY DEF PrintCall
<1>2. c.arg \in Nat /\ U32(c.arg)
  BY <1>1 DEF u32, U32
<1>3. CASE c.op = "printk"
  <2>. DEFINE format == c.format
              ss == [k \in DOMAIN format |-> Formatted(format[k])]
  <2>1. DOMAIN format = 1..Len(format) /\ Len(format) \in Nat
    BY <1>1, LenProperties
  <2>2. \A k \in DOMAIN format : Formatted(format[k]) \in Seq(Nat)
    <3>1. \A k \in DOMAIN format : format[k] \in FormatItem
      BY <1>1, <2>1, ElementOfSeq
    <3>. QED BY <3>1, FormattedFacts
  <2>3. ss \in Seq(Seq(Nat))
    <3>1. ss \in [1..Len(format) -> Seq(Nat)]
      BY <2>1, <2>2
    <3>. HIDE DEF ss, format
    <3>. QED BY <2>1, <3>1
  <2>. HIDE DEF ss
  <2>4. FlattenSeq(ss) \in Seq(Nat)
    BY <2>3, FlattenFacts
  <2>5. Text(c) = FlattenSeq(ss)
    BY <1>3 DEF Text, Sprintk, ss
  <2>. QED BY <2>4, <2>5
<1>4. CASE c.op = "screen_write_hex"
  <2>1. PICK m \in 0..7 : Cardinality(Shown(c.arg)) = m
    BY <1>2, ShownFacts
  <2>2. U32ToHex(c.arg) \in Seq(Nat)
    BY <1>2, <2>1, HexText
  <2>. QED BY <1>4, <2>2 DEF Text
<1>5. CASE c.op = "screen_write_dec"
  <2>1. ScreenWriteDec(c.arg) \in Seq(Nat)
    BY <1>2, DigitsFacts, ZeroReadsBack DEF ScreenWriteDec
  <2>. QED BY <1>5, <2>1 DEF Text
<1>6. CASE c.op = "none"
  BY <1>6, EmptySeq DEF Text
<1>. QED BY <1>1, <1>3, <1>4, <1>5, <1>6

-----------------------------------------------------------------------------
(* The cursor comes back to the screen.                                    *)
(*                                                                         *)
(* While calls go on the cursor may be past the screen, a column or many   *)
(* lines.  The invariant says who will bring it back: as long as it is     *)
(* past the last column some task has the test of the column before it,    *)
(* and as long as it is below the last line some task has the test of the  *)
(* line before it.                                                         *)

USE ScreenAssumption

Points == {"idle", "put", "load_back", "store_x", "write", "load_x", "wrap", "load_y",
           "store_y", "scroll", "scroll_line", "cursor", "high", "select_low", "low"}

Types ==
  /\ cursor_x \in Int /\ cursor_y \in Int
  /\ pc \in [Task -> Points] /\ acc \in [Task -> Int]
  /\ return \in [Task -> {"idle", "wrap", "scroll"}]

\* Task t has the test of the column, or of the line, before it.
ChecksX(t) == pc[t] = "wrap"
ChecksY(t) == pc[t] \in {"wrap", "load_y", "store_y", "scroll", "scroll_line"}

\* The way from an increment of the line leads to a test.
WayBack == \A t \in Task : pc[t] \in {"load_y", "store_y"} => return[t] # "idle"

ColumnInv == cursor_x < Width \/ \E t \in Task : ChecksX(t)

LineInv ==
  /\ cursor_y < Height \/ \E t \in Task : ChecksY(t)
  /\ cursor_y >= 0 /\ \A t \in Task : pc[t] = "store_y" => acc[t] >= 0

IInv == Types /\ WayBack /\ ColumnInv /\ LineInv

\* What a backspace tested still holds when it decrements.
FirstColumnInv ==
  /\ cursor_x >= 0 /\ \A t \in Task : pc[t] = "store_x" => acc[t] >= 0
  /\ \A t \in Task : pc[t] = "load_back" => cursor_x > 0

\* No other call goes on between the test of a backspace and its decrement.
BackspaceAlone ==
  \A t, u \in Task : pc[t] = "load_back" => u = t \/ pc[u] = "idle"

Step(t) == Call(t) \/ Put(t) \/ Advance(t) \/ MoveCursor(t) \/ Written(t)

-----------------------------------------------------------------------------

LEMMA InitIInv == Init => IInv /\ FirstColumnInv
  BY DEF Init, IInv, Types, Points, WayBack, ColumnInv, LineInv, FirstColumnInv

\* A tab goes to the right.
LEMMA TabFacts ==
  ASSUME cursor_x \in Int
  PROVE  TabStop \in Int /\ (cursor_x >= 0 => TabStop >= 0)
<1>1. Tab \in Nat /\ Tab > 0 /\ cursor_x + Tab \in Int
  OBVIOUS
<1>. DEFINE q == (cursor_x + Tab) \div Tab
<1>2. q \in Int /\ (cursor_x + Tab >= 0 => q >= 0)
  BY <1>1
<1>. HIDE DEF q
<1>3. q * Tab \in Int /\ (q >= 0 => q * Tab >= 0)
  BY <1>1, <1>2
<1>4. TabStop = q * Tab
  BY DEF TabStop, q
<1>. QED BY <1>1, <1>2, <1>3, <1>4

LEMMA PlaceFacts ==
  ASSUME cursor_x \in Int, cursor_y \in Int
  PROVE  cursor_y * Width + cursor_x \in Int
  OBVIOUS

\* A step of one task: what it leaves alone, and the coordinates it may set.
LEMMA StepFacts ==
  ASSUME Types, NEW t \in Task, Step(t)
  PROVE  /\ Types'
         /\ \A u \in Task \ {t} : pc'[u] = pc[u] /\ acc'[u] = acc[u] /\ return'[u] = return[u]
<1>. USE DEF Types, GoTo, Loads, Takes, Points
<1>1. CASE Call(t)
  BY <1>1 DEF Call, cursor
<1>2. CASE Written(t)
  BY <1>2 DEF Written, cursor
<1>3. CASE Put(t)
  <2>1. CASE PutBackspace(t)
    BY <2>1 DEF PutBackspace, cursor
  <2>2. CASE LoadBack(t)
    BY <2>2 DEF LoadBack, cursor
  <2>3. CASE PutTab(t)
    BY <2>3, TabFacts DEF PutTab, cursor
  <2>4. CASE PutReturn(t)
    BY <2>4 DEF PutReturn
  <2>5. CASE PutNewline(t)
    BY <2>5 DEF PutNewline
  <2>6. CASE Locate(t)
    BY <2>6, PlaceFacts DEF Locate, cursor
  <2>7. CASE PutPrintable(t)
    BY <2>7 DEF PutPrintable, cursor
  <2>8. CASE PutNothing(t)
    BY <2>8 DEF PutNothing, cursor
  <2>. QED BY <1>3, <2>1, <2>2, <2>3, <2>4, <2>5, <2>6, <2>7, <2>8 DEF Put
<1>4. CASE Advance(t)
  <2>1. CASE LoadX(t)
    BY <2>1 DEF LoadX, cursor
  <2>2. CASE StoreX(t)
    BY <2>2 DEF StoreX
  <2>3. CASE Wrap(t)
    BY <2>3 DEF Wrap
  <2>4. CASE LoadY(t)
    BY <2>4 DEF LoadY, cursor
  <2>5. CASE StoreY(t)
    BY <2>5 DEF StoreY
  <2>6. CASE Scroll(t)
    BY <2>6 DEF Scroll, cursor
  <2>7. CASE ScrollLine(t)
    BY <2>7 DEF ScrollLine, cursor
  <2>8. CASE LastLine(t)
    BY <2>8 DEF LastLine
  <2>. QED BY <1>4, <2>1, <2>2, <2>3, <2>4, <2>5, <2>6, <2>7, <2>8 DEF Advance
<1>5. CASE MoveCursor(t)
  <2>1. CASE SelectHigh(t)
    BY <2>1, PlaceFacts DEF SelectHigh, cursor
  <2>2. CASE SendHigh(t)
    BY <2>2 DEF SendHigh, cursor
  <2>3. CASE SelectLow(t)
    BY <2>3 DEF SelectLow, cursor
  <2>4. CASE SendLow(t)
    BY <2>4 DEF SendLow, cursor
  <2>. QED BY <1>5, <2>1, <2>2, <2>3, <2>4 DEF MoveCursor
<1>. QED BY <1>1, <1>2, <1>3, <1>4, <1>5 DEF Step

\* Where a step of one task takes it, and what it makes of the cursor.
LEMMA StepPoints ==
  ASSUME Types, NEW t \in Task, Step(t)
  PROVE  /\ \/ cursor_x' = cursor_x \/ cursor_x' = 0
            \/ pc[t] = "store_x" /\ cursor_x' = acc[t] /\ pc'[t] = "wrap"
         /\ \/ cursor_y' = cursor_y
            \/ pc[t] = "store_y" /\ cursor_y' = acc[t] /\ pc'[t] = return[t]
            \/ cursor_y' = Height - 1
         /\ pc[t] = "wrap" => /\ cursor_x' < Width /\ cursor_y' = cursor_y
                              /\ pc'[t] \in {"load_y", "scroll"}
         /\ pc[t] = "load_y" => pc'[t] = "store_y" /\ cursor_y' = cursor_y
         /\ pc[t] = "store_y" => pc'[t] = return[t]
         /\ pc[t] = "scroll" => /\ pc'[t] = "scroll_line" \/ cursor_y' < Height
                                /\ cursor_y' = cursor_y
         /\ pc[t] = "scroll_line" => pc'[t] = "scroll_line" \/ cursor_y' < Height
         /\ pc'[t] = "load_y" => return'[t] # "idle"
         /\ pc'[t] = "store_y" => /\ pc[t] = "load_y" /\ return'[t] = return[t]
                                  /\ acc'[t] = cursor_y + 1
         /\ pc'[t] = "store_x" =>
              \/ pc[t] = "load_back" /\ acc'[t] = cursor_x - 1
              \/ acc'[t] = TabStop \/ acc'[t] = cursor_x + 1
         /\ pc'[t] = "load_back" => cursor_x' = cursor_x /\ cursor_x # 0
         /\ pc[t] = "idle" => pc'[t] # "idle"
<1>. USE DEF Types, GoTo, Loads, Takes, Points, cursor
<1>1. CASE Call(t)
  BY <1>1 DEF Call
<1>2. CASE Written(t)
  BY <1>2 DEF Written
<1>3. CASE Put(t)
  <2>1. CASE PutBackspace(t)
    BY <2>1 DEF PutBackspace, Puts, Backspace
  <2>2. CASE LoadBack(t)
    BY <2>2 DEF LoadBack
  <2>3. CASE PutTab(t)
    BY <2>3 DEF PutTab, Puts
  <2>4. CASE PutReturn(t)
    BY <2>4 DEF PutReturn, Puts
  <2>5. CASE PutNewline(t)
    BY <2>5 DEF PutNewline, Puts
  <2>6. CASE Locate(t)
    BY <2>6 DEF Locate
  <2>7. CASE PutPrintable(t)
    BY <2>7 DEF PutPrintable
  <2>8. CASE PutNothing(t)
    BY <2>8 DEF PutNothing
  <2>. QED BY <1>3, <2>1, <2>2, <2>3, <2>4, <2>5, <2>6, <2>7, <2>8 DEF Put
<1>4. CASE Advance(t)
  <2>1. CASE LoadX(t)
    BY <2>1 DEF LoadX
  <2>2. CASE StoreX(t)
    BY <2>2 DEF StoreX
  <2>3. CASE Wrap(t)
    BY <2>3 DEF Wrap, LineFull
  <2>4. CASE LoadY(t)
    BY <2>4 DEF LoadY
  <2>5. CASE StoreY(t)
    BY <2>5 DEF StoreY
  <2>6. CASE Scroll(t)
    BY <2>6 DEF Scroll, PastScreen
  <2>7. CASE ScrollLine(t)
    BY <2>7 DEF ScrollLine
  <2>8. CASE LastLine(t)
    BY <2>8 DEF LastLine
  <2>. QED BY <1>4, <2>1, <2>2, <2>3, <2>4, <2>5, <2>6, <2>7, <2>8 DEF Advance
<1>5. CASE MoveCursor(t)
  BY <1>5 DEF MoveCursor, SelectHigh, SendHigh, SelectLow, SendLow
<1>. QED BY <1>1, <1>2, <1>3, <1>4, <1>5 DEF Step

-----------------------------------------------------------------------------

LEMMA NextSteps == Next <=> \E t \in Task : Step(t)
  BY DEF Next, Step

LEMMA IInvStep == IInv /\ [Next]_vars => IInv'
<1> SUFFICES ASSUME IInv, [Next]_vars PROVE IInv'
  OBVIOUS
<1>1. CASE UNCHANGED vars
  BY <1>1 DEF IInv, Types, WayBack, ColumnInv, LineInv, ChecksX, ChecksY, vars, cursor
<1>2. ASSUME NEW t \in Task, Step(t) PROVE IInv'
  <2>1. /\ Types /\ Types'
        /\ \A u \in Task \ {t} : pc'[u] = pc[u] /\ acc'[u] = acc[u] /\ return'[u] = return[u]
    BY <1>2, StepFacts DEF IInv
  <2>2. WayBack'
    <3> SUFFICES ASSUME NEW u \in Task, pc'[u] \in {"load_y", "store_y"}
                 PROVE  return'[u] # "idle"
      BY DEF WayBack
    <3>1. CASE u # t
      BY <2>1, <3>1 DEF IInv, WayBack
    <3>2. CASE u = t /\ pc'[t] = "load_y"
      BY <1>2, <2>1, <3>2, StepPoints
    <3>3. CASE u = t /\ pc'[t] = "store_y"
      <4>1. pc[t] = "load_y" /\ return'[t] = return[t]
        BY <1>2, <2>1, <3>3, StepPoints
      <4>2. QED
        BY <3>3, <4>1 DEF IInv, WayBack
    <3>4. QED
      BY <3>1, <3>2, <3>3
  <2>3. ColumnInv'
    <3>1. CASE cursor_x < Width
      <4>1. \/ cursor_x' = cursor_x \/ cursor_x' = 0
            \/ pc'[t] = "wrap"
        BY <1>2, <2>1, StepPoints
      <4>2. QED
        BY <3>1, <4>1 DEF ColumnInv, ChecksX
    <3>2. ASSUME NEW u \in Task, pc[u] = "wrap" PROVE ColumnInv'
      <4>1. CASE u = t
        BY <1>2, <2>1, <3>2, <4>1, StepPoints DEF ColumnInv
      <4>2. CASE u # t
        BY <2>1, <3>2, <4>2 DEF ColumnInv, ChecksX
      <4>3. QED
        BY <4>1, <4>2
    <3>3. QED
      BY <3>1, <3>2 DEF IInv, ColumnInv, ChecksX
  <2>4. cursor_y' < Height \/ \E u \in Task : ChecksY(u)'
    <3>1. CASE cursor_y < Height
      <4>1. \/ cursor_y' = cursor_y \/ cursor_y' = Height - 1
            \/ pc[t] = "store_y" /\ pc'[t] = return[t]
        BY <1>2, <2>1, StepPoints
      <4>2. pc[t] = "store_y" => return[t] \in {"wrap", "scroll"}
        BY <2>1 DEF IInv, WayBack, Types
      <4>3. QED
        BY <3>1, <4>1, <4>2 DEF ChecksY
    <3>2. ASSUME NEW u \in Task, ChecksY(u)
          PROVE  cursor_y' < Height \/ \E v \in Task : ChecksY(v)'
      <4>1. CASE u # t
        BY <2>1, <3>2, <4>1 DEF ChecksY
      <4>2. CASE u = t
        <5>1. pc[t] \in {"wrap", "load_y", "store_y", "scroll", "scroll_line"}
          BY <3>2, <4>2 DEF ChecksY
        <5>2. pc[t] = "store_y" => return[t] \in {"wrap", "scroll"}
          BY <2>1 DEF IInv, WayBack, Types
        <5>3. pc'[t] \in {"wrap", "load_y", "store_y", "scroll", "scroll_line"}
              \/ cursor_y' < Height
          BY <1>2, <2>1, <5>1, <5>2, StepPoints
        <5>4. QED
          BY <5>3 DEF ChecksY
      <4>3. QED
        BY <4>1, <4>2
    <3>3. QED
      BY <3>1, <3>2 DEF IInv, LineInv
  <2>5. cursor_y' >= 0
    <3>1. \/ cursor_y' = cursor_y \/ cursor_y' = Height - 1
          \/ pc[t] = "store_y" /\ cursor_y' = acc[t]
      BY <1>2, <2>1, StepPoints
    <3>2. QED
      BY <3>1 DEF IInv, LineInv
  <2>6. ASSUME NEW u \in Task, pc'[u] = "store_y" PROVE acc'[u] >= 0
    <3>1. CASE u # t
      BY <2>1, <2>6, <3>1 DEF IInv, LineInv
    <3>2. CASE u = t
      <4>1. acc'[t] = cursor_y + 1
        BY <1>2, <2>1, <2>6, <3>2, StepPoints
      <4>2. QED
        BY <2>1, <3>2, <4>1 DEF IInv, LineInv, Types
    <3>3. QED
      BY <3>1, <3>2
  <2>7. QED
    BY <2>1, <2>2, <2>3, <2>4, <2>5, <2>6 DEF IInv, LineInv
<1>3. QED
  BY <1>1, <1>2, NextSteps

LEMMA FirstColumnStep ==
  IInv /\ FirstColumnInv /\ BackspaceAlone /\ BackspaceAlone' /\ [Next]_vars
    => FirstColumnInv'
<1> SUFFICES ASSUME IInv, FirstColumnInv, BackspaceAlone, BackspaceAlone', [Next]_vars
             PROVE  FirstColumnInv'
  OBVIOUS
<1>1. CASE UNCHANGED vars
  BY <1>1 DEF FirstColumnInv, vars, cursor
<1>2. ASSUME NEW t \in Task, Step(t) PROVE FirstColumnInv'
  <2>1. /\ Types /\ Types'
        /\ \A u \in Task \ {t} : pc'[u] = pc[u] /\ acc'[u] = acc[u]
    BY <1>2, StepFacts DEF IInv
  <2>2. cursor_x' >= 0
    <3>1. \/ cursor_x' = cursor_x \/ cursor_x' = 0
          \/ pc[t] = "store_x" /\ cursor_x' = acc[t]
      BY <1>2, <2>1, StepPoints
    <3>2. QED
      BY <3>1 DEF FirstColumnInv
  <2>3. ASSUME NEW u \in Task, pc'[u] = "store_x" PROVE acc'[u] >= 0
    <3>1. CASE u # t
      BY <2>1, <2>3, <3>1 DEF FirstColumnInv
    <3>2. CASE u = t
      <4>1. \/ pc[t] = "load_back" /\ acc'[t] = cursor_x - 1
            \/ acc'[t] = TabStop \/ acc'[t] = cursor_x + 1
        BY <1>2, <2>1, <2>3, <3>2, StepPoints
      <4>2. cursor_x \in Int /\ cursor_x >= 0 /\ (pc[t] = "load_back" => cursor_x > 0)
        BY <2>1 DEF FirstColumnInv, Types
      <4>3. TabStop >= 0
        BY <4>2, TabFacts
      <4>4. QED
        BY <3>2, <4>1, <4>2, <4>3
    <3>3. QED
      BY <3>1, <3>2
  <2>4. ASSUME NEW u \in Task, pc'[u] = "load_back" PROVE cursor_x' > 0
    <3>1. CASE u = t
      <4>1. cursor_x' = cursor_x /\ cursor_x # 0
        BY <1>2, <2>1, <2>4, <3>1, StepPoints
      <4>2. QED
        BY <2>1, <4>1 DEF FirstColumnInv, Types
    <3>2. CASE u # t
      <4>1. pc[u] = "load_back" /\ pc[t] = "idle" /\ pc'[t] = "idle"
        BY <2>1, <2>4, <3>2 DEF BackspaceAlone
      <4>2. QED
        BY <1>2, <2>1, <4>1, StepPoints
    <3>3. QED
      BY <3>1, <3>2
  <2>5. QED
    BY <2>2, <2>3, <2>4 DEF FirstColumnInv
<1>3. QED
  BY <1>1, <1>2, NextSteps

LEMMA Invariance == Spec => []IInv
  BY InitIInv, IInvStep, PTL DEF Spec

\* Whatever increments get lost and whoever else prints, no call leaves the
\* cursor past the last column or outside the lines of the screen.
THEOREM PastScreenTheorem ==
  Spec => [](Quiet => cursor_x < Width /\ cursor_y \in 0..(Height - 1))
<1>1. IInv => (Quiet => cursor_x < Width /\ cursor_y \in 0..(Height - 1))
  BY DEF IInv, Types, ColumnInv, LineInv, ChecksX, ChecksY, Quiet
<1>2. QED
  BY <1>1, Invariance, PTL

\* The first column is safe too, unless another call comes between the test of
\* a backspace and its decrement: then the cursor comes back to the screen.
THEOREM CursorTheorem == Spec /\ []BackspaceAlone => []CursorComesBack
<1>1. Spec /\ []BackspaceAlone => []FirstColumnInv
  BY InitIInv, FirstColumnStep, Invariance, PTL DEF Spec
<1>2. IInv /\ FirstColumnInv => CursorComesBack
  BY DEF IInv, Types, ColumnInv, LineInv, FirstColumnInv, ChecksX, ChecksY, Quiet,
         CursorComesBack
<1>3. QED
  BY <1>1, <1>2, Invariance, PTL

-----------------------------------------------------------------------------
(* The sheet, character by character *)

CellMaps == UNION {[D -> Nat] : D \in SUBSET (Nat \X (0..(Width - 1)))}
SheetState == [cell : CellMaps, x : 0..(Width - 1), y : Nat]

\* The next tab stop is where the code goes.
LEMMA NextTabFacts ==
  ASSUME NEW x \in Nat
  PROVE  /\ NextTab(x) \in Nat /\ NextTab(x) = ((x + Tab) \div Tab) * Tab
<1>. DEFINE q == (x + Tab) \div Tab
            r == (x + Tab) % Tab
<1>1. Tab \in Nat /\ Tab > 0
  OBVIOUS
<1>2. q \in Int /\ r \in 0..(Tab - 1) /\ x + Tab = Tab * q + r
  BY <1>1
<1>. DEFINE stop == q * Tab
<1>3. stop \in (x + 1)..(x + Tab)
  BY <1>1, <1>2
<1>4. ASSUME NEW k \in (x + 1)..(x + Tab), k % Tab = 0 PROVE k = stop
  <2>. DEFINE p == k \div Tab
  <2>1. p \in Int /\ k = Tab * p
    BY <1>1, <1>4
  <2>. HIDE DEF p, q, r
  <2>2. ASSUME p > q PROVE FALSE
    <3>1. Tab * p >= Tab * (q + 1)
      BY <1>1, <1>2, <2>1, <2>2
    <3>2. Tab * (q + 1) = Tab * q + Tab
      BY <1>1, <1>2
    <3>. QED BY <1>1, <1>2, <2>1, <3>1, <3>2
  <2>3. ASSUME p < q PROVE FALSE
    <3>1. Tab * q >= Tab * (p + 1)
      BY <1>1, <1>2, <2>1, <2>3
    <3>2. Tab * (p + 1) = Tab * p + Tab
      BY <1>1, <2>1
    <3>. QED BY <1>1, <1>2, <2>1, <3>1, <3>2
  <2>4. p = q
    BY <1>2, <2>1, <2>2, <2>3
  <2>. QED BY <1>1, <1>2, <2>1, <2>4
<1>5. stop % Tab = 0
  <2>. HIDE DEF q
  <2>. DEFINE p == stop \div Tab
              m == stop % Tab
  <2>1. stop \in Int /\ p \in Int /\ m \in 0..(Tab - 1) /\ stop = Tab * p + m
    BY <1>1, <1>2
  <2>2. stop = Tab * q
    BY <1>1, <1>2
  <2>. HIDE DEF p, m, stop
  <2>3. ASSUME p > q PROVE FALSE
    <3>1. Tab * p >= Tab * (q + 1)
      BY <1>1, <1>2, <2>1, <2>3
    <3>2. Tab * (q + 1) = Tab * q + Tab
      BY <1>1, <1>2
    <3>. QED BY <1>1, <1>2, <2>1, <2>2, <3>1, <3>2
  <2>4. ASSUME p < q PROVE FALSE
    <3>1. Tab * q >= Tab * (p + 1)
      BY <1>1, <1>2, <2>1, <2>4
    <3>2. Tab * (p + 1) = Tab * p + Tab
      BY <1>1, <2>1
    <3>. QED BY <1>1, <1>2, <2>1, <2>2, <3>1, <3>2
  <2>5. p = q
    BY <1>2, <2>1, <2>3, <2>4
  <2>6. m = 0
    BY <2>1, <2>2, <2>5
  <2>. QED BY <2>6 DEF m
<1>. HIDE DEF stop, q, r
<1>6. NextTab(x) = stop
  BY <1>3, <1>4, <1>5 DEF NextTab
<1>7. stop \in Nat
  BY <1>1, <1>3
<1>. QED BY <1>6, <1>7 DEF stop, q

\* A character on the sheet.
LEMMA FilledFacts ==
  ASSUME NEW s \in SheetState, NEW c \in Nat
  PROVE  /\ Filled(s, c) \in CellMaps
         /\ DOMAIN Filled(s, c) = DOMAIN s.cell \cup {<<s.y, s.x>>}
         /\ \A at \in DOMAIN Filled(s, c) :
              Filled(s, c)[at] = IF at = <<s.y, s.x>> THEN c ELSE s.cell[at]
<1>1. PICK D \in SUBSET (Nat \X (0..(Width - 1))) : s.cell \in [D -> Nat]
  BY DEF SheetState, CellMaps
<1>. DEFINE at == <<s.y, s.x>>
            E == D \cup {at}
            cell == [p \in E |-> IF p = at THEN c ELSE s.cell[p]]
<1>2. Filled(s, c) = cell
  BY <1>1 DEF Filled
<1>3. at \in Nat \X (0..(Width - 1))
  BY DEF SheetState
<1>. HIDE DEF at
<1>4. E \in SUBSET (Nat \X (0..(Width - 1)))
  BY <1>3
<1>5. cell \in [E -> Nat]
  BY <1>1
<1>6. cell \in CellMaps
  <2>. HIDE DEF cell, E
  <2>. QED BY <1>4, <1>5 DEF CellMaps
<1>7. DOMAIN cell = DOMAIN s.cell \cup {at}
  BY <1>1
<1>8. \A p \in DOMAIN cell : cell[p] = IF p = at THEN c ELSE s.cell[p]
  BY <1>7
<1>. HIDE DEF cell
<1>. QED BY <1>2, <1>6, <1>7, <1>8 DEF at

\* Where the next character goes when column a of line y was next.
TurnsTo(s, a, y) == IF a < Width THEN s.x = a /\ s.y = y ELSE s.x = 0 /\ s.y = y + 1

LEMMA TurnedFacts ==
  ASSUME NEW cell \in CellMaps, NEW a \in Nat, NEW y \in Nat,
         NEW s, s = Turned([cell |-> cell, x |-> a, y |-> y])
  PROVE  s \in SheetState /\ TurnsTo(s, a, y) /\ s.cell = cell
<1>. DEFINE q == [cell |-> cell, x |-> a, y |-> y]
<1>1. CASE a < Width
  <2>1. s = q
    BY <1>1 DEF Turned
  <2>. QED BY <1>1, <2>1 DEF TurnsTo, SheetState
<1>2. CASE ~(a < Width)
  <2>1. s = [cell |-> cell, x |-> 0, y |-> y + 1]
    BY <1>2 DEF Turned, NextLine
  <2>2. 0 \in 0..(Width - 1) /\ y + 1 \in Nat
    OBVIOUS
  <2>. QED BY <1>2, <2>1, <2>2 DEF TurnsTo, SheetState
<1>. QED BY <1>1, <1>2

LEMMA SheetExcept ==
  ASSUME NEW s \in SheetState, NEW a
  PROVE  [s EXCEPT !.x = a] = [cell |-> s.cell, x |-> a, y |-> s.y]
<1>. DEFINE q == [cell |-> s.cell, x |-> s.x, y |-> s.y]
<1>1. s = q
  BY DEF SheetState
<1>2. [q EXCEPT !.x = a] = [cell |-> s.cell, x |-> a, y |-> s.y]
  OBVIOUS
<1>. HIDE DEF q
<1>. QED BY <1>1, <1>2

\* One character more.
LEMMA TypedFacts ==
  ASSUME NEW s \in SheetState, NEW c \in Nat, NEW r, r = Typed(s, c)
  PROVE  /\ r \in SheetState
         /\ c = 8 => r.x = (IF s.x = 0 THEN 0 ELSE s.x - 1) /\ r.y = s.y
         /\ c = 9 => TurnsTo(r, NextTab(s.x), s.y)
         /\ c = 10 => r.x = 0 /\ r.y = s.y + 1
         /\ c = 13 => r.x = 0 /\ r.y = s.y
         /\ c >= Blank => TurnsTo(r, s.x + 1, s.y)
         /\ c < Blank /\ c \notin {8, 9, 10, 13} => r = s
         /\ \A x \in 0..(Width - 1), y \in Nat :
              CharAt(r, y, x) = IF c >= Blank /\ y = s.y /\ x = s.x THEN c
                                ELSE CharAt(s, y, x)
<1>1. /\ s.cell \in CellMaps /\ s.x \in 0..(Width - 1) /\ s.y \in Nat
      /\ s = [cell |-> s.cell, x |-> s.x, y |-> s.y] /\ 0 \in 0..(Width - 1)
  BY DEF SheetState
<1>2. ASSUME r \in SheetState, r.cell = s.cell, NEW x, NEW y
      PROVE  CharAt(r, y, x) = CharAt(s, y, x)
  BY <1>2 DEF CharAt
<1>3. CASE c = 8
  <2>. DEFINE v == IF s.x = 0 THEN 0 ELSE s.x - 1
  <2>1. r = [s EXCEPT !.x = v]
    BY <1>3 DEF Typed, Blank
  <2>2. v \in 0..(Width - 1)
    BY <1>1
  <2>3. r = [cell |-> s.cell, x |-> v, y |-> s.y]
    BY <2>1, SheetExcept
  <2>4. r \in SheetState /\ r.x = v /\ r.y = s.y /\ r.cell = s.cell
    BY <1>1, <2>2, <2>3 DEF SheetState
  <2>. QED BY <1>2, <1>3, <2>4 DEF Blank
<1>4. CASE c = 9
  <2>1. r = Turned([s EXCEPT !.x = NextTab(s.x)])
    BY <1>4 DEF Typed, Blank
  <2>2. [s EXCEPT !.x = NextTab(s.x)] = [cell |-> s.cell, x |-> NextTab(s.x), y |-> s.y]
    BY SheetExcept
  <2>3. NextTab(s.x) \in Nat
    BY <1>1, NextTabFacts
  <2>4. r \in SheetState /\ TurnsTo(r, NextTab(s.x), s.y) /\ r.cell = s.cell
    BY <1>1, <2>1, <2>2, <2>3, TurnedFacts
  <2>. QED BY <1>2, <1>4, <2>4 DEF Blank
<1>5. CASE c = 10
  <2>1. r = [cell |-> s.cell, x |-> 0, y |-> s.y + 1]
    BY <1>5 DEF Typed, Blank, NextLine
  <2>2. r \in SheetState /\ r.x = 0 /\ r.y = s.y + 1 /\ r.cell = s.cell
    BY <1>1, <2>1 DEF SheetState
  <2>. QED BY <1>2, <1>5, <2>2 DEF Blank
<1>6. CASE c = 13
  <2>0. r = [s EXCEPT !.x = 0]
    BY <1>6 DEF Typed, Blank
  <2>1. r = [cell |-> s.cell, x |-> 0, y |-> s.y]
    BY <2>0, SheetExcept
  <2>2. r \in SheetState /\ r.x = 0 /\ r.y = s.y /\ r.cell = s.cell
    BY <1>1, <2>1 DEF SheetState
  <2>. QED BY <1>2, <1>6, <2>2 DEF Blank
<1>7. CASE c >= Blank
  <2>1. r = Turned([cell |-> Filled(s, c), x |-> s.x + 1, y |-> s.y])
    BY <1>7 DEF Typed, Blank
  <2>3. /\ Filled(s, c) \in CellMaps
        /\ DOMAIN Filled(s, c) = DOMAIN s.cell \cup {<<s.y, s.x>>}
        /\ \A at \in DOMAIN Filled(s, c) :
             Filled(s, c)[at] = IF at = <<s.y, s.x>> THEN c ELSE s.cell[at]
    BY FilledFacts
  <2>4. r \in SheetState /\ TurnsTo(r, s.x + 1, s.y) /\ r.cell = Filled(s, c)
    <3>1. s.x + 1 \in Nat
      BY <1>1
    <3>. QED BY <1>1, <2>1, <2>3, <3>1, TurnedFacts
  <2>5. ASSUME NEW x \in 0..(Width - 1), NEW y \in Nat
        PROVE  CharAt(r, y, x) = IF y = s.y /\ x = s.x THEN c ELSE CharAt(s, y, x)
    <3>1. CASE y = s.y /\ x = s.x
      <4>1. <<y, x>> \in DOMAIN Filled(s, c) /\ Filled(s, c)[<<y, x>>] = c
        BY <2>3, <3>1
      <4>. QED BY <2>4, <3>1, <4>1 DEF CharAt
    <3>2. CASE ~(y = s.y /\ x = s.x)
      <4>1. <<y, x>> # <<s.y, s.x>>
        BY <3>2
      <4>2. /\ <<y, x>> \in DOMAIN Filled(s, c) <=> <<y, x>> \in DOMAIN s.cell
            /\ <<y, x>> \in DOMAIN s.cell => Filled(s, c)[<<y, x>>] = s.cell[<<y, x>>]
        BY <2>3, <4>1
      <4>. QED BY <2>4, <3>2, <4>2 DEF CharAt
    <3>. QED BY <3>1, <3>2
  <2>. QED BY <1>7, <2>4, <2>5 DEF Blank
<1>8. CASE c < Blank /\ c \notin {8, 9, 10, 13}
  <2>1. r = s
    BY <1>8 DEF Typed, Blank
  <2>. QED BY <1>8, <2>1 DEF Blank
<1>. QED BY <1>3, <1>4, <1>5, <1>6, <1>7, <1>8 DEF Blank

LEMMA CleanSheetFacts ==
  /\ CleanSheet \in SheetState /\ CleanSheet.x = 0 /\ CleanSheet.y = 0
  /\ \A x, y : CharAt(CleanSheet, y, x) = Blank
<1>1. [at \in {} |-> Blank] \in CellMaps
  <2>1. {} \in SUBSET (Nat \X (0..(Width - 1))) /\ [at \in {} |-> Blank] \in [{} -> Nat]
    OBVIOUS
  <2>. QED BY <2>1 DEF CellMaps
<1>2. 0 \in 0..(Width - 1) /\ 0 \in Nat
  OBVIOUS
<1>. QED BY <1>1, <1>2 DEF CleanSheet, SheetState, CharAt

\* The sheet is the last one of the sheets on the way to it.
LEMMA SheetRuns ==
  ASSUME NEW s \in Seq(Nat)
  PROVE  \E h : /\ h[0] = CleanSheet /\ Sheet(s) = h[Len(s)]
                /\ \A k \in 1..Len(s) : h[k] = Typed(h[k - 1], s[k])
                /\ \A k \in 0..Len(s) : h[k] \in SheetState
<1>. DEFINE m == Len(s)
            step == [p \in (1..m) \X SheetState |-> Typed(p[2], s[p[1]])]
            Rule(g) == g = [t \in SUBSET DOMAIN s |->
                              IF t = {} THEN CleanSheet
                              ELSE Typed(g[t \ {Max(t)}], s[Max(t)])]
            it == CHOOSE g : Rule(g)
<1>1. m \in Nat /\ DOMAIN s = 1..m /\ \A k \in 1..m : s[k] \in Nat
  BY LenProperties, ElementOfSeq
<1>2. \A k \in 1..m : \A y \in SheetState : Typed(y, s[k]) \in SheetState
  BY <1>1, TypedFacts
<1>3. step \in [(1..m) \X SheetState -> SheetState]
      /\ \A k \in 1..m : \A y \in SheetState : step[<<k, y>>] = Typed(y, s[k])
  BY <1>2
<1>. HIDE DEF step
<1>4. PICK f \in [SUBSET (1..m) -> SheetState] :
        \A t \in SUBSET (1..m) :
          f[t] = IF t = {} THEN CleanSheet ELSE step[<<Max(t), f[t \ {Max(t)}]>>]
  <2>. HIDE DEF m
  <2>1. Folding(m, SheetState, CleanSheet, step)
    BY <1>1, <1>3, CleanSheetFacts DEF Folding
  <2>2. \E f \in [SUBSET (1..m) -> SheetState] : Folds(f, m, CleanSheet, step)
    BY ONLY <2>1, FoldExists
  <2>. QED BY <2>2 DEF Folds
<1>5. Rule(f)
  <2>1. ASSUME NEW t \in SUBSET DOMAIN s
        PROVE  f[t] = IF t = {} THEN CleanSheet ELSE Typed(f[t \ {Max(t)}], s[Max(t)])
    <3>0. t \in SUBSET (1..m)
      BY <1>1
    <3>1. t # {} => Max(t) \in 1..m
      BY <1>1, <3>0, MaxFacts
    <3>2. f[t \ {Max(t)}] \in SheetState
      BY <1>4, <3>0
    <3>3. t # {} => step[<<Max(t), f[t \ {Max(t)}]>>] = Typed(f[t \ {Max(t)}], s[Max(t)])
      BY <1>3, <3>1, <3>2
    <3>. QED BY <1>4, <3>0, <3>3
  <2>2. f \in [SUBSET DOMAIN s -> SheetState]
    BY <1>1, <1>4
  <2>. QED BY <2>1, <2>2
<1>6. Rule(it)
  BY <1>5
<1>7. Sheet(s) = it[DOMAIN s]
  BY DEF Sheet, FoldLeft, MapThenFoldSet
<1>. HIDE DEF it
<1>. DEFINE h == [k \in 0..m |-> it[1..k]]
<1>8. ASSUME NEW k \in 1..m PROVE h[k] = Typed(h[k - 1], s[k])
  <2>1. /\ 1..k \in SUBSET DOMAIN s /\ 1..k # {} /\ Max(1..k) = k
        /\ (1..k) \ {k} = 1..(k - 1)
    <3>1. m \in Nat /\ k \in 1..m
      BY <1>1
    <3>2. /\ 1..k \in SUBSET (1..m) /\ 1..k # {} /\ Max(1..k) = k
          /\ (1..k) \ {k} = 1..(k - 1)
      BY ONLY <3>1, FirstPlaces
    <3>. QED BY <1>1, <3>2
  <2>2. it[1..k] = Typed(it[1..(k - 1)], s[k])
    BY <1>6, <2>1
  <2>3. k \in 0..m /\ k - 1 \in 0..m
    BY <1>1
  <2>. QED BY <2>2, <2>3
<1>9. h[0] = CleanSheet /\ h[m] = it[DOMAIN s]
  <2>1. 1..0 = {} /\ {} \in SUBSET DOMAIN s /\ 0 \in 0..m /\ m \in 0..m
    BY <1>1
  <2>2. it[{}] = CleanSheet
    BY <1>6, <2>1
  <2>. QED BY <1>1, <2>1, <2>2
<1>. HIDE DEF h
<1>. DEFINE S == {k \in Nat : k <= m => h[k] \in SheetState}
<1>10. ASSUME NEW k \in Nat, \A j \in 0..(k - 1) : j \in S
       PROVE  k \in S
  <2>1. CASE k = 0
    BY <1>9, <2>1, CleanSheetFacts
  <2>2. CASE k # 0 /\ k <= m
    <3>1. k - 1 \in 0..(k - 1) /\ k \in 1..m /\ k - 1 <= m
      BY <2>2
    <3>2. h[k - 1] \in SheetState
      BY <1>10, <3>1
    <3>3. h[k] \in SheetState
      BY <1>2, <1>8, <3>1, <3>2
    <3>. QED BY <3>3
  <2>. QED BY <2>1, <2>2
<1>. HIDE DEF S
<1>11. \A k \in Nat : k \in S
  BY <1>10, Induction
<1>12. \A k \in 0..m : h[k] \in SheetState
  BY <1>1, <1>11 DEF S
<1>. QED BY <1>7, <1>8, <1>9, <1>12

\* One character more is typed on the sheet of what was there before.
LEMMA SheetFacts ==
  /\ Sheet(<<>>) = CleanSheet
  /\ \A s \in Seq(Nat) : Sheet(s) \in SheetState
  /\ \A s \in Seq(Nat), c \in Nat : Sheet(Append(s, c)) = Typed(Sheet(s), c)
<1>1. Sheet(<<>>) = CleanSheet
  <2>1. <<>> \in Seq(Nat) /\ Len(<<>>) = 0
    BY EmptySeq
  <2>2. PICK h : h[0] = CleanSheet /\ Sheet(<<>>) = h[Len(<<>>)]
    BY <2>1, SheetRuns
  <2>. QED BY <2>1, <2>2
<1>2. ASSUME NEW s \in Seq(Nat) PROVE Sheet(s) \in SheetState
  <2>1. PICK h : Sheet(s) = h[Len(s)] /\ \A k \in 0..Len(s) : h[k] \in SheetState
    BY SheetRuns
  <2>2. Len(s) \in 0..Len(s)
    BY LenProperties
  <2>. QED BY <2>1, <2>2
<1>3. ASSUME NEW s \in Seq(Nat), NEW c \in Nat
      PROVE  Sheet(Append(s, c)) = Typed(Sheet(s), c)
  <2>. DEFINE m == Len(s)
              u == Append(s, c)
  <2>1. /\ m \in Nat /\ u \in Seq(Nat) /\ Len(u) = m + 1 /\ u[m + 1] = c
        /\ \A k \in 1..m : u[k] = s[k]
    BY LenProperties, AppendProperties
  <2>. HIDE DEF u
  <2>2. PICK h : /\ h[0] = CleanSheet /\ Sheet(s) = h[Len(s)]
                 /\ \A k \in 1..Len(s) : h[k] = Typed(h[k - 1], s[k])
    BY SheetRuns
  <2>3. PICK g : /\ g[0] = CleanSheet /\ Sheet(u) = g[Len(u)]
                 /\ \A k \in 1..Len(u) : g[k] = Typed(g[k - 1], u[k])
    BY <2>1, SheetRuns
  <2>. DEFINE S == {k \in Nat : k <= m => g[k] = h[k]}
  <2>4. ASSUME NEW k \in Nat, \A j \in 0..(k - 1) : j \in S
        PROVE  k \in S
    <3>1. CASE k = 0
      BY <2>2, <2>3, <3>1
    <3>2. CASE k # 0 /\ k <= m
      <4>1. k - 1 \in 0..(k - 1) /\ k \in 1..m /\ k \in 1..(m + 1) /\ k - 1 <= m
        BY <2>1, <3>2
      <4>2. g[k - 1] = h[k - 1]
        BY <2>4, <4>1
      <4>3. g[k] = h[k]
        BY <2>1, <2>2, <2>3, <4>1, <4>2
      <4>. QED BY <4>3
    <3>. QED BY <3>1, <3>2
  <2>. HIDE DEF S
  <2>5. \A k \in Nat : k \in S
    BY <2>4, Induction
  <2>6. g[m] = h[m]
    BY <2>1, <2>5 DEF S
  <2>7. m + 1 \in 1..(m + 1) /\ (m + 1) - 1 = m
    BY <2>1
  <2>8. g[m + 1] = Typed(g[m], c)
    BY <2>1, <2>3, <2>7
  <2>. QED BY <2>1, <2>2, <2>3, <2>6, <2>8 DEF u
<1>. QED BY <1>1, <1>2, <1>3

-----------------------------------------------------------------------------
(* Places on the screen *)

\* The cells of a line come before those of the next.
LEMMA GridFacts ==
  ASSUME NEW y \in Int, NEW x \in 0..(Width - 1)
  PROVE  /\ y * Width + x \in Int
         /\ (y + 1) * Width + x = (y * Width + x) + Width
         /\ \A n \in Int : (y * Width + x) \in Line(n) <=> y = n
         /\ \A v \in Int, u \in 0..(Width - 1) :
              y * Width + x = v * Width + u => y = v /\ x = u
<1>1. /\ Width \in Nat /\ Width > 0
      /\ \A a \in Int : a * Width \in Int /\ (a + 1) * Width = a * Width + Width
  OBVIOUS
<1>2. ASSUME NEW a \in Int, NEW b \in Int, a < b PROVE (a + 1) * Width <= b * Width
  <2>1. a + 1 <= b /\ a + 1 \in Int
    BY <1>2
  <2>. DEFINE e == a + 1
              d == b - e
  <2>2. e \in Int /\ d \in Nat /\ b = e + d
    BY <2>1
  <2>. HIDE DEF e, d
  <2>3. d * Width \in Nat /\ b * Width = e * Width + d * Width /\ e * Width \in Int
    BY <1>1, <2>2
  <2>4. e * Width <= b * Width
    BY <1>1, <2>3
  <2>. QED BY <2>4 DEF e
<1>3. ASSUME NEW a \in Int, NEW b \in Int, a < b PROVE a * Width + Width <= b * Width
  BY <1>1, <1>2, <1>3
<1>4. ASSUME NEW n \in Int PROVE (y * Width + x) \in Line(n) <=> y = n
  <2>. DEFINE p == y * Width
              q == n * Width
  <2>1. p \in Int /\ q \in Int /\ (y < n => p + Width <= q) /\ (n < y => q + Width <= p)
        /\ (y = n => p = q)
    BY <1>1, <1>3
  <2>2. Line(n) = q..(q + Width - 1)
    BY DEF Line
  <2>. HIDE DEF p, q
  <2>3. p + x \in Line(n) <=> y = n
    BY <1>1, <2>1, <2>2
  <2>. QED BY <2>3 DEF p
<1>5. ASSUME NEW v \in Int, NEW u \in 0..(Width - 1), y * Width + x = v * Width + u
      PROVE  y = v /\ x = u
  <2>. DEFINE p == y * Width
              q == v * Width
  <2>1. p \in Int /\ q \in Int /\ (y < v => p + Width <= q) /\ (v < y => q + Width <= p)
        /\ (y = v => p = q) /\ p + x = q + u
    BY <1>1, <1>3, <1>5
  <2>. HIDE DEF p, q
  <2>. QED BY <1>1, <2>1
<1>6. y * Width + x \in Int /\ (y + 1) * Width + x = (y * Width + x) + Width
  <2>. DEFINE p == y * Width
              q == (y + 1) * Width
  <2>1. p \in Int /\ q = p + Width
    BY <1>1
  <2>. HIDE DEF p, q
  <2>2. p + x \in Int /\ q + x = (p + x) + Width
    BY <1>1, <2>1
  <2>. QED BY <2>2 DEF p, q
<1>. QED BY <1>4, <1>5, <1>6

\* The lines of the screen are in the video memory, and their places fit into
\* two registers.
LEMMA ScreenFacts ==
  ASSUME NEW y \in 0..(Height - 1), NEW x \in 0..(Width - 1)
  PROVE  /\ y * Width + x \in Cells
         /\ y * Width + x \in Nat /\ y * Width + x < Byte * Byte
<1>1. Width \in Nat /\ Width > 0 /\ Height \in Nat /\ Height > 0 /\ y \in Nat
  OBVIOUS
<1>. DEFINE p == y * Width
            q == Height * Width
            d == Height - (y + 1)
<1>2. d \in Nat /\ Height = (y + 1) + d
  BY <1>1
<1>3. p \in Nat /\ (y + 1) * Width = p + Width
  BY <1>1
<1>4. q = (y + 1) * Width + d * Width /\ d * Width \in Nat
  <2>. HIDE DEF d
  <2>1. q = ((y + 1) + d) * Width
    BY <1>2
  <2>. HIDE DEF q
  <2>. QED BY <1>1, <1>2, <2>1
<1>5. q = Width * Height /\ q \in Nat
  BY <1>1
<1>. DEFINE k == Cardinality(Task)
            z == Width * (Height + 2 * k)
<1>6. k \in Nat
  BY PlacesAssumption, FS_CardinalityType
<1>7. z \in Int /\ z >= q
  <2>. HIDE DEF k, q
  <2>1. z = Width * Height + Width * (2 * k) /\ Width * (2 * k) \in Nat
    BY <1>1, <1>6
  <2>. HIDE DEF z
  <2>. QED BY <1>1, <1>5, <2>1
<1>8. Byte * Byte \in Int /\ q <= Byte * Byte
  BY <1>5, PlacesAssumption
<1>9. Cells = 0..(z - 1)
  BY DEF Cells
<1>. DEFINE w == d * Width
<1>. HIDE DEF p, q, z, k
<1>10. p + x \in Nat /\ p + x < q
  <2>1. w \in Nat /\ q = p + Width + w
    BY <1>3, <1>4
  <2>. HIDE DEF w
  <2>. QED BY <1>1, <1>3, <2>1
<1>11. p + x \in 0..(z - 1) /\ p + x < Byte * Byte
  <2>. DEFINE b == Byte * Byte
  <2>1. b \in Int /\ q <= b /\ q \in Nat
    BY <1>5, <1>8
  <2>. HIDE DEF b
  <2>2. p + x \in 0..(z - 1) /\ p + x < b
    BY <1>7, <1>10, <2>1
  <2>. QED BY <2>2 DEF b
<1>. QED BY <1>9, <1>10, <1>11 DEF p

\* The two registers hold the place they are sent.
LEMMA RegistersFacts ==
  ASSUME NEW p \in Nat, p < Byte * Byte
  PROVE  ((p \div Byte) % Byte) * Byte + (p % Byte) = p
<1>. DEFINE q == p \div Byte
            r == p % Byte
<1>1. Byte \in Nat /\ Byte > 0
  OBVIOUS
<1>2. q \in Nat /\ r \in 0..(Byte - 1) /\ p = Byte * q + r
  BY <1>1
<1>. HIDE DEF q, r
<1>3. q < Byte
  <2>1. ASSUME q >= Byte PROVE FALSE
    <3>. DEFINE d == q - Byte
    <3>1. d \in Nat /\ q = Byte + d
      BY <1>1, <1>2, <2>1
    <3>. HIDE DEF d
    <3>2. Byte * q = Byte * Byte + Byte * d /\ Byte * d \in Nat /\ Byte * Byte \in Nat
      BY <1>1, <3>1
    <3>3. Byte * q >= Byte * Byte
      BY <3>2
    <3>4. Byte * q \in Nat
      BY <1>1, <1>2
    <3>. QED BY <1>2, <3>2, <3>3, <3>4
  <2>. QED BY <1>1, <1>2, <2>1
<1>4. q % Byte = q
  BY <1>1, <1>2, <1>3
<1>5. q * Byte + r = p
  BY <1>1, <1>2
<1>. QED BY <1>4, <1>5 DEF q, r

-----------------------------------------------------------------------------
(* The screen shows the text: the invariant *)

Seen(y, x) == video_memory[y * Width + x]
Place == cursor_y * Width + cursor_x
Sent == high * Byte + low = Place

\* The screen shows the sheet from line top on, or, while it is scrolled, from
\* the next line on in its first n lines.
Image(s, top) ==
  \A x \in 0..(Width - 1), y \in 0..(Height - 1) : Seen(y, x) = CharAt(s, top + y, x)
Moved(s, top, n) ==
  \A x \in 0..(Width - 1), y \in 0..(Height - 1) :
    Seen(y, x) = CharAt(s, IF y < n THEN top + y + 1 ELSE top + y, x)

\* Nothing is on the sheet below the screen.
Within(s, top) ==
  \A x \in 0..(Width - 1), y \in Nat : y >= top + Height => CharAt(s, y, x) = Blank

\* The screen shows the sheet from its first line on, or its end; with a line
\* begun it may have to be scrolled.
Window(top) == cursor_y \in 0..(Height - 1) /\ (top > 0 => cursor_y = Height - 1)
Begun(top) == cursor_y \in 0..Height /\ (top > 0 => cursor_y >= Height - 1)

\* The cursor is where the next character goes, or will be after column a.
On(s, top) == s.x = cursor_x /\ s.y = top + cursor_y
Goes(s, a, top) == Window(top) /\ TurnsTo(s, a, top + cursor_y)

\* What holds of the sheet s that task t is to show, at each point of its way
\* through screen_put.
PointInv(t, s, top) ==
  /\ pc[t] # "scroll_line" => Image(s, top)
  /\ pc[t] = "put" => Window(top) /\ On(s, top) /\ Sent
  /\ pc[t] = "load_back" =>
       Window(top) /\ s.x = cursor_x - 1 /\ s.y = top + cursor_y
  /\ pc[t] = "write" => /\ Window(top) /\ On(s, top) /\ acc[t] = Place
                        /\ text[t] # <<>> /\ Head(text[t]) >= Blank
  /\ pc[t] = "load_x" => Goes(s, cursor_x + 1, top)
  /\ pc[t] = "store_x" => Goes(s, acc[t], top)
  /\ pc[t] = "wrap" => \/ Goes(s, cursor_x, top)
                       \/ cursor_x < Width /\ On(s, top) /\ Begun(top)
  /\ pc[t] \in {"load_y", "store_y"} =>
       /\ Window(top) /\ s.x = cursor_x /\ s.y = top + cursor_y + 1
       /\ cursor_x < Width /\ return[t] \in {"wrap", "scroll"}
  /\ pc[t] = "store_y" => acc[t] = cursor_y + 1
  /\ pc[t] = "scroll" => On(s, top) /\ Begun(top)
  /\ pc[t] = "scroll_line" => /\ On(s, top) /\ cursor_y = Height
                              /\ i[t] \in 0..Height /\ Moved(s, top, i[t])
  /\ pc[t] \in {"cursor", "high", "select_low", "low"} => Window(top) /\ On(s, top)
  /\ pc[t] \in {"high", "select_low", "low"} => acc[t] = Place
  /\ pc[t] = "high" => index = 14
  /\ pc[t] \in {"select_low", "low"} => high = (acc[t] \div Byte) % Byte
  /\ pc[t] = "low" => index = 15

Point(t, s, top) == Within(s, top) /\ PointInv(t, s, top)

\* Task t has shown what was printed except for the rest of its text.
Shows(t) ==
  \E s \in Seq(Nat), top \in Nat : printed = s \o text[t] /\ Point(t, Sheet(s), top)

Rests(s, top) == Within(s, top) /\ Image(s, top) /\ Window(top) /\ On(s, top) /\ Sent

ShowTypes ==
  /\ video_memory \in [Cells -> Nat] /\ printed \in Seq(Nat)
  /\ text \in [Task -> Seq(Nat)] /\ i \in [Task -> Int]

\* One call at most goes on.
Alone == \A t, u \in Task : pc[t] # "idle" /\ pc[u] # "idle" => t = u

ShowInv ==
  /\ ShowTypes /\ Alone
  /\ Quiet => \E top \in Nat : Rests(Sheet(printed), top)
  /\ \A t \in Task : pc[t] # "idle" => Shows(t)

-----------------------------------------------------------------------------
(* Its steps *)

\* What does not change is still seen.
LEMMA SameImage ==
  ASSUME UNCHANGED video_memory
  PROVE  \A x, y : Seen(y, x)' = Seen(y, x)
  BY DEF Seen

LEMMA SamePlace ==
  ASSUME UNCHANGED <<cursor_x, cursor_y>>
  PROVE  Place' = Place /\ (\A top : (Window(top)' <=> Window(top)) /\ (Begun(top)' <=> Begun(top)))
  BY DEF Place, Window, Begun

\* The character that is taken is typed on the sheet.
LEMMA TakeSteps ==
  ASSUME Types, ShowTypes, NEW t \in Task, NEW s \in SheetState, NEW top \in Nat,
         Point(t, s, top), NEW c \in Nat, text[t] # <<>>, c = Head(text[t]),
         NEW r, r = Typed(s, c),
         \/ PutBackspace(t) \/ PutTab(t) \/ PutReturn(t) \/ PutNewline(t)
         \/ PutPrintable(t) \/ PutNothing(t)
  PROVE  Point(t, r, top)' /\ video_memory' \in [Cells -> Nat]
<1>a. s \in SheetState /\ c \in Nat /\ r = Typed(s, c)
  OBVIOUS
<1>b. r \in SheetState
  BY ONLY <1>a, TypedFacts
<1>0. /\ r \in SheetState /\ s.x \in 0..(Width - 1) /\ s.y \in Nat
      /\ r.x \in 0..(Width - 1) /\ r.y \in Nat
      /\ cursor_x \in Int /\ cursor_y \in Int
      /\ pc \in [Task -> Points] /\ acc \in [Task -> Int]
      /\ return \in [Task -> {"idle", "wrap", "scroll"}]
      /\ video_memory \in [Cells -> Nat]
  BY <1>b DEF Types, ShowTypes, SheetState
<1>1. /\ c = 8 => r.x = (IF s.x = 0 THEN 0 ELSE s.x - 1) /\ r.y = s.y
      /\ c = 9 => TurnsTo(r, NextTab(s.x), s.y)
      /\ c = 10 => r.x = 0 /\ r.y = s.y + 1
      /\ c = 13 => r.x = 0 /\ r.y = s.y
      /\ c >= Blank => TurnsTo(r, s.x + 1, s.y)
      /\ c < Blank /\ c \notin {8, 9, 10, 13} => r = s
      /\ \A x \in 0..(Width - 1), y \in Nat :
           CharAt(r, y, x) = IF c >= Blank /\ y = s.y /\ x = s.x THEN c
                             ELSE CharAt(s, y, x)
  BY ONLY <1>a, TypedFacts
<1>2. ASSUME ~(c >= Blank), pc[t] = "put", UNCHANGED video_memory
      PROVE  /\ Within(r, top) /\ Image(r, top)' /\ Window(top) /\ On(s, top)
             /\ video_memory' \in [Cells -> Nat]
  <2>1. \A x \in 0..(Width - 1), y \in Nat : CharAt(r, y, x) = CharAt(s, y, x)
    BY <1>1, <1>2
  <2>2. Within(s, top) /\ Image(s, top) /\ Window(top) /\ On(s, top)
    BY <1>2 DEF Point, PointInv
  <2>3. Within(r, top)
    <3>1. ASSUME NEW x \in 0..(Width - 1), NEW y \in Nat, y >= top + Height
          PROVE  CharAt(r, y, x) = Blank
      <4>1. CharAt(s, y, x) = Blank
        BY <2>2, <3>1 DEF Within
      <4>. QED BY <2>1, <4>1
    <3>. QED BY <3>1 DEF Within
  <2>4. \A y \in 0..(Height - 1) : top + y \in Nat
    OBVIOUS
  <2>5. Image(r, top)'
    BY <1>2, <2>1, <2>2, <2>4, SameImage DEF Image
  <2>. QED BY <1>0, <1>2, <2>2, <2>3, <2>5
<1>3. CASE PutBackspace(t)
  <2>1. /\ pc[t] = "put" /\ pc'[t] = "load_back" /\ c = 8 /\ cursor_x # 0
        /\ UNCHANGED <<video_memory, cursor_x, cursor_y>>
    BY <1>0, <1>3 DEF PutBackspace, Puts, Backspace, GoTo, cursor
  <2>2. /\ Within(r, top) /\ Image(r, top)' /\ Window(top) /\ On(s, top)
        /\ video_memory' \in [Cells -> Nat]
    BY <1>2, <2>1 DEF Blank
  <2>3. Window(top)' /\ r.x = cursor_x' - 1 /\ r.y = top + cursor_y'
    BY <1>0, <1>1, <2>1, <2>2, SamePlace DEF On
  <2>. QED BY <2>1, <2>2, <2>3 DEF Point, PointInv, Within
<1>4. CASE PutTab(t)
  <2>1. /\ pc[t] = "put" /\ pc'[t] = "store_x" /\ c = 9 /\ acc'[t] = TabStop
        /\ UNCHANGED <<video_memory, cursor_x, cursor_y>>
    BY <1>0, <1>4 DEF PutTab, Puts, GoTo, Loads, cursor
  <2>2. /\ Within(r, top) /\ Image(r, top)' /\ Window(top) /\ On(s, top)
        /\ video_memory' \in [Cells -> Nat]
    BY <1>2, <2>1 DEF Blank
  <2>3. TabStop = NextTab(s.x)
    <3>1. s.x \in Nat /\ s.x = cursor_x
      BY <1>0, <2>2 DEF On
    <3>. QED BY <3>1, NextTabFacts DEF TabStop
  <2>4. TurnsTo(r, acc'[t], top + cursor_y')
    BY <1>1, <2>1, <2>2, <2>3 DEF On
  <2>5. Goes(r, acc[t], top)'
    BY <2>1, <2>2, <2>4, SamePlace DEF Goes, TurnsTo
  <2>. QED BY <2>1, <2>2, <2>5 DEF Point, PointInv, Within
<1>5. CASE PutReturn(t)
  <2>1. /\ pc[t] = "put" /\ pc'[t] = "wrap" /\ c = 13 /\ cursor_x' = 0
        /\ UNCHANGED <<video_memory, cursor_y>>
    BY <1>0, <1>5 DEF PutReturn, Puts, GoTo
  <2>2. /\ Within(r, top) /\ Image(r, top)' /\ Window(top) /\ On(s, top)
        /\ video_memory' \in [Cells -> Nat]
    BY <1>2, <2>1 DEF Blank
  <2>3. On(r, top)' /\ cursor_x' < Width
    BY <1>1, <2>1, <2>2 DEF On
  <2>4. Begun(top)'
    BY <2>1, <2>2 DEF Begun, Window
  <2>. QED BY <2>1, <2>2, <2>3, <2>4 DEF Point, PointInv, Within
<1>6. CASE PutNewline(t)
  <2>1. /\ pc[t] = "put" /\ pc'[t] = "load_y" /\ c = 10 /\ cursor_x' = 0
        /\ return'[t] = "wrap" /\ UNCHANGED <<video_memory, cursor_y>>
    BY <1>0, <1>6 DEF PutNewline, Puts, GoTo
  <2>2. /\ Within(r, top) /\ Image(r, top)' /\ Window(top) /\ On(s, top)
        /\ video_memory' \in [Cells -> Nat]
    BY <1>2, <2>1 DEF Blank
  <2>3. r.x = cursor_x' /\ r.y = top + cursor_y' + 1 /\ cursor_x' < Width
    BY <1>0, <1>1, <2>1, <2>2 DEF On
  <2>4. Window(top)'
    BY <2>1, <2>2 DEF Window
  <2>. QED BY <2>1, <2>2, <2>3, <2>4 DEF Point, PointInv, Within
<1>7. CASE PutNothing(t)
  <2>1. /\ pc[t] = "put" /\ pc'[t] = "wrap" /\ c < Blank /\ c \notin {9, 10, 13}
        /\ (c = 8 => cursor_x = 0)
        /\ UNCHANGED <<video_memory, cursor_x, cursor_y>>
    BY <1>0, <1>7 DEF PutNothing, Backspace, GoTo, cursor
  <2>2. /\ Within(r, top) /\ Image(r, top)' /\ Window(top) /\ On(s, top)
        /\ video_memory' \in [Cells -> Nat]
    BY <1>2, <2>1 DEF Blank
  <2>3. r.x = s.x /\ r.y = s.y
    BY <1>0, <1>1, <2>1, <2>2 DEF On
  <2>4. On(r, top)' /\ cursor_x' < Width
    BY <1>0, <2>1, <2>2, <2>3 DEF On
  <2>5. Begun(top)'
    BY <2>1, <2>2 DEF Begun, Window
  <2>. QED BY <2>1, <2>2, <2>4, <2>5 DEF Point, PointInv, Within
<1>8. CASE PutPrintable(t)
  <2>1. /\ pc[t] = "write" /\ pc'[t] = "load_x"
        /\ video_memory' = [video_memory EXCEPT ![acc[t]] = c]
        /\ UNCHANGED <<cursor_x, cursor_y>>
    BY <1>0, <1>8 DEF PutPrintable, GoTo, cursor
  <2>2. /\ Within(s, top) /\ Image(s, top) /\ Window(top) /\ On(s, top)
        /\ acc[t] = Place /\ c >= Blank
    BY <2>1 DEF Point, PointInv
  <2>3. cursor_x \in 0..(Width - 1) /\ cursor_y \in 0..(Height - 1)
    BY <1>0, <2>2 DEF On, Window
  <2>4. acc[t] \in Cells /\ acc[t] = cursor_y * Width + cursor_x
    BY <2>2, <2>3, ScreenFacts DEF Place
  <2>5. ASSUME NEW x \in 0..(Width - 1), NEW y \in 0..(Height - 1)
        PROVE  Seen(y, x)' = CharAt(r, top + y, x)
    <3>1. y * Width + x \in Cells /\ (y * Width + x = acc[t] <=> y = cursor_y /\ x = cursor_x)
      <4>1. y \in Int /\ cursor_y \in Int
        BY <2>3
      <4>2. y * Width + x \in Cells
        BY ScreenFacts
      <4>3. \A v \in Int, u \in 0..(Width - 1) :
              y * Width + x = v * Width + u => y = v /\ x = u
        BY <4>1, GridFacts
      <4>4. y * Width + x = cursor_y * Width + cursor_x => y = cursor_y /\ x = cursor_x
        BY <2>3, <4>1, <4>3
      <4>. QED BY <2>4, <4>2, <4>4
    <3>2. top + y \in Nat /\ (top + y = s.y /\ x = s.x <=> y = cursor_y /\ x = cursor_x)
      BY <2>2, <2>3 DEF On
    <3>3. Seen(y, x)' = IF y * Width + x = acc[t] THEN c ELSE Seen(y, x)
      <4>. DEFINE k == y * Width + x
      <4>1. k \in Cells
        BY <3>1
      <4>. HIDE DEF k
      <4>2. video_memory'[k] = IF k = acc[t] THEN c ELSE video_memory[k]
        BY <1>0, <2>1, <4>1
      <4>. QED BY <4>2 DEF Seen, k
    <3>4. Seen(y, x) = CharAt(s, top + y, x)
      BY <2>2 DEF Image
    <3>5. CharAt(r, top + y, x) = IF top + y = s.y /\ x = s.x THEN c ELSE CharAt(s, top + y, x)
      BY <1>1, <2>2, <3>2
    <3>. QED BY <3>1, <3>2, <3>3, <3>4, <3>5
  <2>6. Image(r, top)'
    BY <2>5 DEF Image
  <2>7. Within(r, top)
    <3>1. ASSUME NEW x \in 0..(Width - 1), NEW y \in Nat, y >= top + Height
          PROVE  CharAt(r, y, x) = Blank
      <4>1. y # s.y
        BY <2>2, <2>3, <3>1 DEF On
      <4>2. CharAt(s, y, x) = Blank
        BY <2>2, <3>1 DEF Within
      <4>. QED BY <1>1, <4>1, <4>2
    <3>. QED BY <3>1 DEF Within
  <2>8. Goes(r, cursor_x + 1, top)'
    <3>1. TurnsTo(r, cursor_x' + 1, top + cursor_y')
      BY <1>1, <2>1, <2>2 DEF On
    <3>2. Window(top)'
      BY <2>1, <2>2, SamePlace
    <3>. QED BY <3>1, <3>2 DEF Goes, TurnsTo
  <2>9. video_memory' \in [Cells -> Nat]
    BY <1>0, <2>1, <2>4
  <2>. QED BY <2>1, <2>6, <2>7, <2>8, <2>9 DEF Point, PointInv, Within
<1>. QED BY <1>3, <1>4, <1>5, <1>6, <1>7, <1>8

\* The steps that take no character.
LEMMA PointSteps ==
  ASSUME Types, ShowTypes, NEW t \in Task, NEW s \in SheetState, NEW top \in Nat,
         Point(t, s, top),
         \/ LoadBack(t) \/ Locate(t) \/ LoadX(t) \/ StoreX(t) \/ Wrap(t) \/ LoadY(t)
         \/ StoreY(t) \/ Scroll(t) \/ SelectHigh(t) \/ SendHigh(t) \/ SelectLow(t)
         \/ SendLow(t)
  PROVE  Point(t, s, top)' /\ video_memory' = video_memory
<1>0. /\ s.x \in 0..(Width - 1) /\ s.y \in Nat /\ cursor_x \in Int /\ cursor_y \in Int
      /\ pc \in [Task -> Points] /\ acc \in [Task -> Int]
      /\ return \in [Task -> {"idle", "wrap", "scroll"}] /\ i \in [Task -> Int]
  BY DEF Types, ShowTypes, SheetState
<1>1. Within(s, top)' <=> Within(s, top)
  BY DEF Within
<1>2. ASSUME UNCHANGED video_memory, pc[t] # "scroll_line"
      PROVE  Within(s, top)' /\ Image(s, top) /\ Image(s, top)'
  <2>1. Within(s, top) /\ Image(s, top)
    BY <1>2 DEF Point, PointInv
  <2>. QED BY <1>1, <1>2, <2>1, SameImage DEF Image
<1>3. CASE LoadBack(t)
  <2>1. /\ pc[t] = "load_back" /\ pc'[t] = "store_x" /\ acc'[t] = cursor_x - 1
        /\ UNCHANGED <<video_memory, cursor_x, cursor_y>>
    BY <1>0, <1>3 DEF LoadBack, GoTo, Loads, cursor
  <2>2. Window(top) /\ s.x = cursor_x - 1 /\ s.y = top + cursor_y
    BY <2>1 DEF Point, PointInv
  <2>3. TurnsTo(s, acc'[t], top + cursor_y')
    BY <1>0, <2>1, <2>2 DEF TurnsTo
  <2>4. Goes(s, acc[t], top)'
    BY <2>1, <2>2, <2>3, SamePlace DEF Goes, TurnsTo
  <2>. QED BY <1>2, <2>1, <2>4 DEF Point, PointInv
<1>4. CASE Locate(t)
  <2>1. /\ pc[t] = "put" /\ pc'[t] = "write" /\ acc'[t] = Place
        /\ text' = text /\ text[t] # <<>> /\ Head(text[t]) >= Blank
        /\ UNCHANGED <<video_memory, cursor_x, cursor_y>>
    BY <1>0, <1>4 DEF Locate, GoTo, Loads, cursor, Place
  <2>2. Window(top) /\ On(s, top)
    BY <2>1 DEF Point, PointInv
  <2>3. Window(top)' /\ On(s, top)' /\ acc'[t] = Place'
    BY <2>1, <2>2, SamePlace DEF On
  <2>. QED BY <1>2, <2>1, <2>3 DEF Point, PointInv
<1>5. CASE LoadX(t)
  <2>1. /\ pc[t] = "load_x" /\ pc'[t] = "store_x" /\ acc'[t] = cursor_x + 1
        /\ UNCHANGED <<video_memory, cursor_x, cursor_y>>
    BY <1>0, <1>5 DEF LoadX, GoTo, Loads, cursor
  <2>2. Window(top) /\ TurnsTo(s, cursor_x + 1, top + cursor_y)
    BY <2>1 DEF Point, PointInv, Goes
  <2>3. Goes(s, acc[t], top)'
    BY <2>1, <2>2, SamePlace DEF Goes, TurnsTo
  <2>. QED BY <1>2, <2>1, <2>3 DEF Point, PointInv
<1>6. CASE StoreX(t)
  <2>1. /\ pc[t] = "store_x" /\ pc'[t] = "wrap" /\ cursor_x' = acc[t]
        /\ UNCHANGED <<video_memory, cursor_y>>
    BY <1>0, <1>6 DEF StoreX, GoTo
  <2>2. Window(top) /\ TurnsTo(s, acc[t], top + cursor_y)
    BY <2>1 DEF Point, PointInv, Goes
  <2>3. Goes(s, cursor_x, top)'
    BY <2>1, <2>2 DEF Goes, TurnsTo, Window
  <2>. QED BY <1>2, <2>1, <2>3 DEF Point, PointInv
<1>7. CASE Wrap(t)
  <2>1. /\ pc[t] = "wrap" /\ UNCHANGED <<video_memory, cursor_y>>
        /\ cursor_x >= Width => /\ cursor_x' = 0 /\ pc'[t] = "load_y"
                                /\ return'[t] = "scroll"
        /\ ~(cursor_x >= Width) => cursor_x' = cursor_x /\ pc'[t] = "scroll"
    BY <1>0, <1>7 DEF Wrap, LineFull, GoTo
  <2>2. Goes(s, cursor_x, top) \/ (cursor_x < Width /\ On(s, top) /\ Begun(top))
    BY <2>1 DEF Point, PointInv
  <2>3. CASE cursor_x >= Width
    <3>1. Window(top) /\ s.x = 0 /\ s.y = top + cursor_y + 1
      BY <1>0, <2>2, <2>3 DEF Goes, TurnsTo
    <3>2. Window(top)' /\ s.x = cursor_x' /\ s.y = top + cursor_y' + 1 /\ cursor_x' < Width
      BY <2>1, <2>3, <3>1 DEF Window
    <3>. QED BY <1>2, <2>1, <2>3, <3>2 DEF Point, PointInv
  <2>4. CASE ~(cursor_x >= Width)
    <3>1. On(s, top) /\ Begun(top)
      BY <1>0, <2>2, <2>4 DEF Goes, TurnsTo, On, Begun, Window
    <3>2. On(s, top)' /\ Begun(top)'
      BY <2>1, <2>4, <3>1 DEF On, Begun
    <3>. QED BY <1>2, <2>1, <2>4, <3>2 DEF Point, PointInv
  <2>. QED BY <2>3, <2>4
<1>8. CASE LoadY(t)
  <2>1. /\ pc[t] = "load_y" /\ pc'[t] = "store_y" /\ acc'[t] = cursor_y + 1
        /\ return' = return /\ UNCHANGED <<video_memory, cursor_x, cursor_y>>
    BY <1>0, <1>8 DEF LoadY, GoTo, Loads, cursor
  <2>2. /\ Window(top) /\ s.x = cursor_x /\ s.y = top + cursor_y + 1
        /\ cursor_x < Width /\ return[t] \in {"wrap", "scroll"}
    BY <2>1 DEF Point, PointInv
  <2>3. Window(top)'
    BY <2>1, <2>2, SamePlace
  <2>. QED BY <1>2, <2>1, <2>2, <2>3 DEF Point, PointInv
<1>9. CASE StoreY(t)
  <2>1. /\ pc[t] = "store_y" /\ pc'[t] = return[t] /\ cursor_y' = acc[t]
        /\ UNCHANGED <<video_memory, cursor_x>>
    BY <1>0, <1>9 DEF StoreY, GoTo
  <2>2. /\ Window(top) /\ s.x = cursor_x /\ s.y = top + cursor_y + 1
        /\ cursor_x < Width /\ return[t] \in {"wrap", "scroll"} /\ acc[t] = cursor_y + 1
    BY <2>1 DEF Point, PointInv
  <2>3. On(s, top)' /\ cursor_x' < Width
    BY <1>0, <2>1, <2>2 DEF On
  <2>4. Begun(top)'
    BY <1>0, <2>1, <2>2 DEF Begun, Window
  <2>. QED BY <1>2, <2>1, <2>2, <2>3, <2>4 DEF Point, PointInv
<1>10. CASE Scroll(t)
  <2>1. /\ pc[t] = "scroll" /\ i'[t] = 0
        /\ pc'[t] = IF cursor_y >= Height THEN "scroll_line" ELSE "cursor"
        /\ UNCHANGED <<video_memory, cursor_x, cursor_y>>
    BY <1>0, <1>10 DEF Scroll, PastScreen, GoTo, cursor
  <2>2. On(s, top) /\ Begun(top)
    BY <2>1 DEF Point, PointInv
  <2>3. On(s, top)'
    BY <2>1, <2>2 DEF On
  <2>4. Within(s, top)' /\ Image(s, top) /\ Image(s, top)'
    BY <1>2, <2>1
  <2>5. CASE cursor_y >= Height
    <3>1. cursor_y' = Height
      BY <2>1, <2>2, <2>5 DEF Begun
    <3>2. Moved(s, top, 0)'
      BY <2>4 DEF Image, Moved
    <3>3. Moved(s, top, i[t])'
      BY <2>1, <3>2 DEF Moved
    <3>4. i'[t] \in 0..Height
      BY <2>1
    <3>. QED BY <2>1, <2>3, <2>4, <2>5, <3>1, <3>3, <3>4 DEF Point, PointInv
  <2>6. CASE ~(cursor_y >= Height)
    <3>1. Window(top)'
      BY <2>1, <2>2, <2>6 DEF Begun, Window
    <3>. QED BY <2>1, <2>3, <2>4, <2>6, <3>1 DEF Point, PointInv
  <2>. QED BY <2>5, <2>6
<1>11. CASE SelectHigh(t)
  <2>1. /\ pc[t] = "cursor" /\ pc'[t] = "high" /\ acc'[t] = Place /\ index' = 14
        /\ UNCHANGED <<video_memory, cursor_x, cursor_y>>
    BY <1>0, <1>11 DEF SelectHigh, GoTo, Loads, cursor, Place
  <2>2. Window(top) /\ On(s, top)
    BY <2>1 DEF Point, PointInv
  <2>3. Window(top)' /\ On(s, top)' /\ acc'[t] = Place'
    BY <2>1, <2>2, SamePlace DEF On
  <2>. QED BY <1>2, <2>1, <2>3 DEF Point, PointInv
<1>12. CASE SendHigh(t)
  <2>1. /\ pc[t] = "high" /\ pc'[t] = "select_low" /\ acc' = acc
        /\ index = 14 => high' = (acc[t] \div Byte) % Byte
        /\ UNCHANGED <<video_memory, cursor_x, cursor_y>>
    BY <1>0, <1>12 DEF SendHigh, Out, GoTo, cursor
  <2>2. Window(top) /\ On(s, top) /\ acc[t] = Place /\ index = 14
    BY <2>1 DEF Point, PointInv
  <2>3. Window(top)' /\ On(s, top)' /\ acc'[t] = Place'
    BY <2>1, <2>2, SamePlace DEF On
  <2>4. high' = (acc'[t] \div Byte) % Byte
    BY <2>1, <2>2
  <2>. QED BY <1>2, <2>1, <2>3, <2>4 DEF Point, PointInv
<1>13. CASE SelectLow(t)
  <2>1. /\ pc[t] = "select_low" /\ pc'[t] = "low" /\ acc' = acc /\ index' = 15
        /\ high' = high
        /\ UNCHANGED <<video_memory, cursor_x, cursor_y>>
    BY <1>0, <1>13 DEF SelectLow, GoTo, cursor
  <2>2. Window(top) /\ On(s, top) /\ acc[t] = Place /\ high = (acc[t] \div Byte) % Byte
    BY <2>1 DEF Point, PointInv
  <2>3. Window(top)' /\ On(s, top)' /\ acc'[t] = Place'
    BY <2>1, <2>2, SamePlace DEF On
  <2>4. high' = (acc'[t] \div Byte) % Byte
    BY <2>1, <2>2
  <2>. QED BY <1>2, <2>1, <2>3, <2>4 DEF Point, PointInv
<1>14. CASE SendLow(t)
  <2>1. /\ pc[t] = "low" /\ pc'[t] = "put"
        /\ index = 15 => low' = acc[t] % Byte /\ high' = high
        /\ UNCHANGED <<video_memory, cursor_x, cursor_y>>
    BY <1>0, <1>14 DEF SendLow, Out, GoTo, cursor
  <2>2. /\ Window(top) /\ On(s, top) /\ acc[t] = Place /\ high = (acc[t] \div Byte) % Byte
        /\ index = 15
    BY <2>1 DEF Point, PointInv
  <2>3. Window(top)' /\ On(s, top)' /\ Place' = Place
    BY <2>1, <2>2, SamePlace DEF On
  <2>4. Place \in Nat /\ Place < Byte * Byte
    <3>1. cursor_x \in 0..(Width - 1) /\ cursor_y \in 0..(Height - 1)
      BY <1>0, <2>2 DEF On, Window
    <3>. QED BY <3>1, ScreenFacts DEF Place
  <2>5. ((Place \div Byte) % Byte) * Byte + (Place % Byte) = Place
    BY <2>4, RegistersFacts
  <2>6. high' * Byte + low' = Place'
    <3>1. high' = (Place \div Byte) % Byte /\ low' = Place % Byte
      BY <2>1, <2>2
    <3>. QED BY <2>3, <2>5, <3>1
  <2>7. Sent'
    BY <2>6 DEF Sent
  <2>. QED BY <1>2, <2>1, <2>3, <2>7 DEF Point, PointInv
<1>. QED
  BY <1>3, <1>4, <1>5, <1>6, <1>7, <1>8, <1>9, <1>10, <1>11, <1>12, <1>13, <1>14
     DEF LoadBack, Locate, LoadX, StoreX, Wrap, LoadY, StoreY, Scroll, SelectHigh, SendHigh,
         SelectLow, SendLow

\* One line of the screen becomes the next one.
LEMMA ScrollLineStep ==
  ASSUME Types, ShowTypes, NEW t \in Task, NEW s \in SheetState, NEW top \in Nat,
         Point(t, s, top), ScrollLine(t)
  PROVE  Point(t, s, top)' /\ video_memory' \in [Cells -> Nat]
<1>1. /\ s.x \in 0..(Width - 1) /\ s.y \in Nat /\ cursor_x \in Int /\ cursor_y \in Int
      /\ pc \in [Task -> Points] /\ i \in [Task -> Int]
      /\ video_memory \in [Cells -> Nat]
  BY DEF Types, ShowTypes, SheetState
<1>n. PICK n : n = i[t]
  OBVIOUS
<1>2. /\ pc[t] = "scroll_line" /\ pc' = pc /\ n < Height /\ i'[t] = n + 1
      /\ UNCHANGED <<cursor_x, cursor_y>>
  BY <1>1, <1>n DEF ScrollLine, cursor
<1>3. \A k \in Cells : video_memory'[k] =
        IF k \notin Line(n) THEN video_memory[k]
        ELSE IF n = Height - 1 THEN Blank ELSE video_memory[k + Width]
  BY <1>n DEF ScrollLine
<1>4. video_memory' = [k \in Cells |-> video_memory'[k]]
  BY DEF ScrollLine
<1>5. /\ Within(s, top) /\ On(s, top) /\ cursor_y = Height /\ n \in 0..Height
      /\ Moved(s, top, n)
  BY <1>2, <1>n DEF Point, PointInv
<1>6. ASSUME NEW x \in 0..(Width - 1), NEW y \in 0..(Height - 1)
      PROVE  /\ y # n => Seen(y, x)' = Seen(y, x)
             /\ y = n /\ n = Height - 1 => Seen(y, x)' = Blank
             /\ y = n /\ n # Height - 1 => Seen(y, x)' = Seen(y + 1, x)
  <2>1. y \in Int /\ n \in Int
    BY <1>5
  <2>2. y * Width + x \in Cells
    BY ScreenFacts
  <2>3. (y * Width + x) \in Line(n) <=> y = n
    BY <2>1, GridFacts
  <2>4. (y + 1) * Width + x = (y * Width + x) + Width
    BY <2>1, GridFacts
  <2>. DEFINE k == y * Width + x
              l == (y + 1) * Width + x
  <2>5. k \in Cells /\ (k \in Line(n) <=> y = n) /\ l = k + Width
    BY <2>2, <2>3, <2>4
  <2>. HIDE DEF k, l
  <2>6. /\ y # n => video_memory'[k] = video_memory[k]
        /\ y = n /\ n = Height - 1 => video_memory'[k] = Blank
        /\ y = n /\ n # Height - 1 => video_memory'[k] = video_memory[l]
    BY <1>3, <2>5
  <2>. QED BY <2>6 DEF Seen, k, l
<1>7. ASSUME NEW x \in 0..(Width - 1), NEW y \in 0..(Height - 1)
      PROVE  Seen(y, x)' = CharAt(s, IF y < n + 1 THEN top + y + 1 ELSE top + y, x)
  <2>1. Seen(y, x) = CharAt(s, IF y < n THEN top + y + 1 ELSE top + y, x)
    BY <1>5 DEF Moved
  <2>2. CASE y # n
    <3>1. y < n + 1 <=> y < n
      BY <1>5, <2>2
    <3>. QED BY <1>6, <2>1, <2>2, <3>1
  <2>3. CASE y = n /\ n = Height - 1
    <3>1. top + y + 1 \in Nat /\ top + y + 1 >= top + Height /\ y < n + 1
      BY <1>5, <2>3
    <3>2. CharAt(s, top + y + 1, x) = Blank
      BY <1>5, <3>1 DEF Within
    <3>. QED BY <1>6, <2>3, <3>1, <3>2
  <2>4. CASE y = n /\ n # Height - 1
    <3>1. y + 1 \in 0..(Height - 1) /\ ~(y + 1 < n) /\ y < n + 1 /\ top + (y + 1) = top + y + 1
      BY <1>5, <2>4
    <3>2. Seen(y + 1, x) = CharAt(s, top + (y + 1), x)
      BY <1>5, <3>1 DEF Moved
    <3>. QED BY <1>6, <2>4, <3>1, <3>2
  <2>. QED BY <2>2, <2>3, <2>4
<1>8. Moved(s, top, n + 1)'
  BY <1>7 DEF Moved
<1>9. Moved(s, top, i[t])'
  BY <1>2, <1>8 DEF Moved
<1>10. /\ pc'[t] = "scroll_line" /\ On(s, top)' /\ cursor_y' = Height
       /\ i'[t] \in 0..Height /\ Within(s, top)'
  <2>1. pc'[t] = "scroll_line" /\ cursor_y' = Height
    BY <1>2, <1>5
  <2>2. On(s, top)'
    BY <1>2, <1>5 DEF On
  <2>3. i'[t] \in 0..Height
    <3>1. ScreenAssumption /\ n < Height /\ n \in 0..Height /\ i'[t] = n + 1
      BY <1>2, <1>5, ScreenAssumption
    <3>. QED BY <3>1 DEF ScreenAssumption
  <2>4. Within(s, top)'
    BY <1>5 DEF Within
  <2>. QED BY <2>1, <2>2, <2>3, <2>4
<1>11. video_memory' \in [Cells -> Nat]
  <2>1. ASSUME NEW k \in Cells PROVE video_memory'[k] \in Nat
    <3>1. CASE k \notin Line(n)
      BY <1>1, <1>3, <3>1
    <3>2. CASE k \in Line(n) /\ n = Height - 1
      BY <1>3, <3>2 DEF Blank
    <3>3. CASE k \in Line(n) /\ n # Height - 1
      <4>1. k + Width \in Cells
        <5>. DEFINE x == k - n * Width
        <5>1. n \in Nat /\ n * Width \in Int /\ Line(n) = (n * Width)..(n * Width + Width - 1)
          BY <1>5 DEF Line
        <5>2. x \in 0..(Width - 1) /\ k = n * Width + x
          <6>. DEFINE q == n * Width
          <6>1. q \in Int /\ k \in q..(q + Width - 1)
            BY <3>3, <5>1
          <6>. HIDE DEF q
          <6>2. k - q \in 0..(Width - 1) /\ k = q + (k - q)
            BY <6>1
          <6>. QED BY <6>2 DEF q
        <5>. HIDE DEF x
        <5>3. n + 1 \in 0..(Height - 1)
          BY <1>2, <1>5, <3>3
        <5>4. (n + 1) * Width + x \in Cells
          BY <5>2, <5>3, ScreenFacts
        <5>5. (n + 1) * Width + x = (n * Width + x) + Width
          BY <5>1, <5>2, GridFacts
        <5>. QED BY <5>2, <5>4, <5>5
      <4>. QED BY <1>1, <1>3, <3>3, <4>1
    <3>. QED BY <3>1, <3>2, <3>3
  <2>. QED BY <1>4, <2>1
<1>. QED BY <1>9, <1>10, <1>11 DEF Point, PointInv

\* After the last one the screen shows the sheet from the next line on.
LEMMA LastLineStep ==
  ASSUME Types, ShowTypes, NEW t \in Task, NEW s \in SheetState, NEW top \in Nat,
         Point(t, s, top), LastLine(t)
  PROVE  Point(t, s, top + 1)' /\ video_memory' = video_memory
<1>1. /\ s.x \in 0..(Width - 1) /\ s.y \in Nat /\ cursor_x \in Int /\ cursor_y \in Int
      /\ pc \in [Task -> Points]
  BY DEF Types, ShowTypes, SheetState
<1>2. /\ pc[t] = "scroll_line" /\ pc'[t] = "cursor" /\ i[t] = Height
      /\ cursor_y' = Height - 1 /\ UNCHANGED <<video_memory, cursor_x>>
  BY <1>1 DEF LastLine, GoTo
<1>3. /\ Within(s, top) /\ On(s, top) /\ cursor_y = Height /\ Moved(s, top, Height)
  <2>1. Within(s, top) /\ On(s, top) /\ cursor_y = Height /\ Moved(s, top, i[t])
    BY <1>2 DEF Point, PointInv
  <2>. QED BY <1>2, <2>1
<1>4. Image(s, top + 1)'
  <2>1. ASSUME NEW x \in 0..(Width - 1), NEW y \in 0..(Height - 1)
        PROVE  Seen(y, x)' = CharAt(s, top + 1 + y, x)
    <3>1. y < Height /\ top + y + 1 = top + 1 + y
      OBVIOUS
    <3>2. Seen(y, x) = CharAt(s, top + y + 1, x)
      BY <1>3, <3>1 DEF Moved
    <3>. QED BY <1>2, <3>1, <3>2, SameImage
  <2>. QED BY <2>1 DEF Image
<1>5. Within(s, top + 1)'
  <2>1. ASSUME NEW x \in 0..(Width - 1), NEW y \in Nat, y >= top + 1 + Height
        PROVE  CharAt(s, y, x) = Blank
    <3>1. y >= top + Height
      BY <2>1
    <3>. QED BY <1>3, <3>1 DEF Within
  <2>. QED BY <2>1 DEF Within
<1>6. On(s, top + 1)' /\ Window(top + 1)'
  BY <1>2, <1>3 DEF On, Window
<1>. QED BY <1>2, <1>4, <1>5, <1>6 DEF Point, PointInv

\* The first character moves from the rest to what is shown.
LEMMA TakeFacts ==
  ASSUME NEW q \in Seq(Nat), NEW rest \in Seq(Nat), rest # <<>>
  PROVE  /\ Head(rest) \in Nat /\ Tail(rest) \in Seq(Nat)
         /\ Append(q, Head(rest)) \in Seq(Nat)
         /\ q \o rest = Append(q, Head(rest)) \o Tail(rest)
<1>. DEFINE c == Head(rest)
            u == Tail(rest)
            a == Append(q, c)
<1>1. /\ c \in Nat /\ u \in Seq(Nat) /\ Len(u) = Len(rest) - 1
      /\ \A k \in 1..Len(u) : u[k] = rest[k + 1]
  BY HeadTailProperties
<1>2. c = rest[1] /\ Len(rest) \in Nat \ {0} /\ Len(q) \in Nat
  BY LenProperties, EmptySeq
<1>. HIDE DEF c, u
<1>3. /\ a \in Seq(Nat) /\ Len(a) = Len(q) + 1 /\ a[Len(q) + 1] = c
      /\ \A k \in 1..Len(q) : a[k] = q[k]
  BY <1>1, AppendProperties
<1>. HIDE DEF a
<1>. DEFINE left == q \o rest
            right == a \o u
<1>4. /\ left \in Seq(Nat) /\ Len(left) = Len(q) + Len(rest)
      /\ \A k \in 1..Len(q) : left[k] = q[k]
      /\ \A k \in 1..Len(rest) : left[Len(q) + k] = rest[k]
  BY JoinFacts
<1>5. /\ right \in Seq(Nat) /\ Len(right) = Len(a) + Len(u)
      /\ \A k \in 1..Len(a) : right[k] = a[k]
      /\ \A k \in 1..Len(u) : right[Len(a) + k] = u[k]
  BY <1>1, <1>3, JoinFacts
<1>. HIDE DEF left, right
<1>6. Len(left) = Len(right)
  BY <1>1, <1>2, <1>3, <1>4, <1>5
<1>7. ASSUME NEW k \in 1..Len(left) PROVE left[k] = right[k]
  <2>1. CASE k <= Len(q)
    <3>1. k \in 1..Len(q) /\ k \in 1..Len(a)
      BY <1>2, <1>3, <2>1
    <3>. QED BY <1>3, <1>4, <1>5, <3>1
  <2>2. CASE k = Len(q) + 1
    <3>1. k \in 1..Len(a) /\ 1 \in 1..Len(rest)
      BY <1>2, <1>3, <2>2
    <3>. QED BY <1>2, <1>3, <1>4, <1>5, <2>2, <3>1
  <2>3. CASE k > Len(q) + 1
    <3>. DEFINE m == Len(q)
                n == Len(rest)
    <3>1. /\ m \in Nat /\ n \in Nat /\ k \in 1..(m + n) /\ k > m + 1
          /\ Len(u) = n - 1 /\ Len(a) = m + 1
      BY <1>1, <1>2, <1>3, <1>4, <2>3
    <3>2. \A j \in 1..(n - 1) : left[m + (j + 1)] = rest[j + 1]
      <4>1. \A j \in 1..n : left[m + j] = rest[j]
        BY <1>4
      <4>2. \A j \in 1..(n - 1) : j + 1 \in 1..n
        BY <3>1
      <4>. QED BY <4>1, <4>2
    <3>3. \A j \in 1..(n - 1) : right[(m + 1) + j] = rest[j + 1]
      BY <1>1, <1>5, <3>1
    <3>. HIDE DEF m, n
    <3>4. PICK j \in 1..(n - 1) : k = m + (j + 1) /\ k = (m + 1) + j
      <4>1. k - (m + 1) \in 1..(n - 1)
        BY <3>1
      <4>2. k = m + ((k - (m + 1)) + 1) /\ k = (m + 1) + (k - (m + 1))
        BY <3>1
      <4>. QED BY <4>1, <4>2
    <3>. QED BY <3>2, <3>3, <3>4
  <2>4. Len(left) \in Nat /\ Len(q) \in Nat
    BY <1>2, <1>4
  <2>. QED BY <2>1, <2>2, <2>3, <2>4
<1>8. left = right
  BY <1>4, <1>5, <1>6, <1>7, SeqEqual
<1>. QED BY <1>1, <1>3, <1>8 DEF left, right, a, c, u

\* A call goes on.
LEMMA BusySteps ==
  ASSUME Types, WayBack, NEW t \in Task, Put(t) \/ Advance(t) \/ MoveCursor(t)
  PROVE  /\ pc[t] # "idle" /\ pc'[t] # "idle"
         /\ UNCHANGED calls
<1>. USE DEF Types, GoTo, Points
<1>1. pc[t] # "idle" /\ UNCHANGED calls
  BY DEF Put, PutBackspace, LoadBack, PutTab, PutReturn, PutNewline, Locate, Puts,
         PutPrintable, PutNothing, Advance, LoadX, StoreX, Wrap, LoadY, StoreY, Scroll,
         ScrollLine, LastLine, MoveCursor, SelectHigh, SendHigh, SelectLow, SendLow
<1>2. CASE Put(t)
  BY <1>1, <1>2 DEF Put, PutBackspace, LoadBack, PutTab, PutReturn, PutNewline, Locate,
              PutPrintable, PutNothing
<1>3. CASE LoadX(t) \/ StoreX(t) \/ Wrap(t) \/ LoadY(t) \/ Scroll(t) \/ ScrollLine(t)
           \/ LastLine(t)
  BY <1>1, <1>3 DEF LoadX, StoreX, Wrap, LoadY, Scroll, ScrollLine, LastLine
<1>4. CASE StoreY(t)
  <2>1. pc[t] = "store_y" /\ pc'[t] = return[t]
    BY <1>4 DEF StoreY
  <2>. QED BY <1>1, <2>1 DEF WayBack
<1>5. CASE MoveCursor(t)
  BY <1>1, <1>5 DEF MoveCursor, SelectHigh, SendHigh, SelectLow, SendLow
<1>. QED BY <1>1, <1>2, <1>3, <1>4, <1>5 DEF Advance

\* While a call goes on the others are not there.
LEMMA Resume ==
  ASSUME ShowInv, NEW t \in Task, pc[t] # "idle", pc'[t] # "idle",
         \A u \in Task \ {t} : pc'[u] = pc[u], ShowTypes', Shows(t)'
  PROVE  ShowInv'
<1>1. \A u \in Task \ {t} : pc'[u] = "idle"
  BY DEF ShowInv, Alone
<1>2. Alone'
  BY <1>1 DEF Alone
<1>3. ~Quiet'
  BY DEF Quiet
<1>4. \A u \in Task : pc'[u] # "idle" => Shows(u)'
  BY <1>1
<1>. QED BY <1>2, <1>3, <1>4 DEF ShowInv

LEMMA TakeKeeps ==
  ASSUME IInv, Types', ShowInv, NEW t \in Task, Step(t),
         \/ PutBackspace(t) \/ PutTab(t) \/ PutReturn(t) \/ PutNewline(t)
         \/ PutPrintable(t) \/ PutNothing(t)
  PROVE  ShowInv'
<1>1. Types /\ ShowTypes /\ Put(t)
  BY DEF IInv, ShowInv, Put
<1>2. pc[t] # "idle" /\ pc'[t] # "idle" /\ UNCHANGED calls
  BY <1>1, BusySteps DEF IInv
<1>3. Shows(t)
  BY <1>2 DEF ShowInv
<1>4. PICK q \in Seq(Nat), top \in Nat : printed = q \o text[t] /\ Point(t, Sheet(q), top)
  BY <1>3 DEF Shows
<1>5. PICK rest : rest = text[t]
  OBVIOUS
<1>6. rest # <<>> /\ text' = [text EXCEPT ![t] = Tail(text[t])] /\ i' = i
  <2>1. CASE PutPrintable(t)
    <3>1. pc[t] = "write"
      BY <2>1 DEF PutPrintable
    <3>. QED BY <1>4, <1>5, <2>1, <3>1 DEF Point, PointInv, PutPrintable, Takes
  <2>2. CASE ~PutPrintable(t)
    BY <1>5, <2>2 DEF PutBackspace, PutTab, PutReturn, PutNewline, PutNothing, Puts, Takes
  <2>. QED BY <2>1, <2>2
<1>7. rest \in Seq(Nat)
  BY <1>1, <1>5 DEF ShowTypes
<1>8. PICK c : c = Head(rest)
  OBVIOUS
<1>9. /\ c \in Nat /\ Tail(rest) \in Seq(Nat) /\ Append(q, c) \in Seq(Nat)
      /\ q \o rest = Append(q, c) \o Tail(rest)
  BY <1>6, <1>7, <1>8, TakeFacts
<1>10. PICK s : s = Sheet(q)
  OBVIOUS
<1>11. PICK r : r = Typed(s, c)
  OBVIOUS
<1>12. s \in SheetState /\ r = Sheet(Append(q, c)) /\ Point(t, s, top)
  BY <1>4, <1>9, <1>10, <1>11, SheetFacts
<1>13. Point(t, r, top)' /\ video_memory' \in [Cells -> Nat]
  <2>1. text[t] # <<>> /\ c = Head(text[t])
    BY <1>5, <1>6, <1>8
  <2>. QED BY <1>1, <1>9, <1>11, <1>12, <2>1, TakeSteps
<1>14. text' \in [Task -> Seq(Nat)] /\ text'[t] = Tail(rest)
  BY <1>1, <1>5, <1>6, <1>9 DEF ShowTypes
<1>15. ShowTypes'
  BY <1>1, <1>2, <1>6, <1>13, <1>14 DEF ShowTypes, calls
<1>16. Shows(t)'
  <2>. DEFINE q2 == Append(q, c)
  <2>1. printed' = q2 \o text'[t]
    BY <1>2, <1>4, <1>5, <1>9, <1>14 DEF calls
  <2>2. Point(t, Sheet(q2), top)'
    BY <1>12, <1>13
  <2>3. q2 \in Seq(Nat)
    BY <1>9
  <2>. HIDE DEF q2
  <2>. QED BY <2>1, <2>2, <2>3 DEF Shows
<1>17. \A u \in Task \ {t} : pc'[u] = pc[u]
  BY <1>1, StepFacts
<1>. QED BY <1>2, <1>15, <1>16, <1>17, Resume

LEMMA PointKeeps ==
  ASSUME IInv, Types', ShowInv, NEW t \in Task, Step(t),
         \/ LoadBack(t) \/ Locate(t) \/ LoadX(t) \/ StoreX(t) \/ Wrap(t) \/ LoadY(t)
         \/ StoreY(t) \/ Scroll(t) \/ SelectHigh(t) \/ SendHigh(t) \/ SelectLow(t)
         \/ SendLow(t) \/ ScrollLine(t) \/ LastLine(t)
  PROVE  ShowInv'
<1>1. Types /\ ShowTypes /\ (Put(t) \/ Advance(t) \/ MoveCursor(t))
  BY DEF IInv, ShowInv, Put, Advance, MoveCursor
<1>2. pc[t] # "idle" /\ pc'[t] # "idle" /\ UNCHANGED calls
  BY <1>1, BusySteps DEF IInv
<1>3. Shows(t)
  BY <1>2 DEF ShowInv
<1>4. PICK q \in Seq(Nat), top \in Nat : printed = q \o text[t] /\ Point(t, Sheet(q), top)
  BY <1>3 DEF Shows
<1>5. PICK s : s = Sheet(q)
  OBVIOUS
<1>6. s \in SheetState /\ Point(t, s, top)
  BY <1>4, <1>5, SheetFacts
<1>7. text' = text /\ i' \in [Task -> Int]
  <2>1. text' = text
    BY DEF LoadBack, Locate, LoadX, StoreX, Wrap, LoadY, StoreY, Scroll, ScrollLine,
           LastLine, SelectHigh, SendHigh, SelectLow, SendLow
  <2>2. i' = i \/ i' = [i EXCEPT ![t] = 0] \/ i' = [i EXCEPT ![t] = i[t] + 1]
    BY DEF LoadBack, Locate, LoadX, StoreX, Wrap, LoadY, StoreY, Scroll, ScrollLine,
           LastLine, SelectHigh, SendHigh, SelectLow, SendLow
  <2>. QED BY <1>1, <2>1, <2>2 DEF ShowTypes
<1>8. \E v \in Nat : Point(t, s, v)' /\ video_memory' \in [Cells -> Nat]
  <2>1. video_memory \in [Cells -> Nat]
    BY <1>1 DEF ShowTypes
  <2>2. CASE ScrollLine(t)
    BY <1>1, <1>6, <2>2, ScrollLineStep
  <2>3. CASE LastLine(t)
    <3>1. Point(t, s, top + 1)' /\ video_memory' = video_memory
      BY <1>1, <1>6, <2>3, LastLineStep
    <3>2. top + 1 \in Nat
      OBVIOUS
    <3>. QED BY <2>1, <3>1, <3>2
  <2>4. CASE ~ScrollLine(t) /\ ~LastLine(t)
    <3>1. Point(t, s, top)' /\ video_memory' = video_memory
      BY <1>1, <1>6, <2>4, PointSteps
    <3>. QED BY <2>1, <3>1
  <2>. QED BY <2>2, <2>3, <2>4
<1>9. PICK v \in Nat : Point(t, s, v)' /\ video_memory' \in [Cells -> Nat]
  BY <1>8
<1>10. ShowTypes'
  BY <1>1, <1>2, <1>7, <1>9 DEF ShowTypes, calls
<1>11. Shows(t)'
  <2>1. printed' = q \o text'[t]
    BY <1>2, <1>4, <1>7 DEF calls
  <2>2. Point(t, Sheet(q), v)'
    BY <1>5, <1>9
  <2>. QED BY <2>1, <2>2 DEF Shows
<1>12. \A u \in Task \ {t} : pc'[u] = pc[u]
  BY <1>1, StepFacts
<1>. QED BY <1>2, <1>10, <1>11, <1>12, Resume

LEMMA CallKeeps ==
  ASSUME IInv, Types', CallsInv, ShowInv, NEW t \in Task, Step(t), Call(t), Quiet, ~mixed'
  PROVE  ShowInv'
<1>1. Types /\ ShowTypes
  BY DEF IInv, ShowInv
<1>2. PICK top \in Nat : Rests(Sheet(printed), top)
  BY DEF ShowInv
<1>3. PICK q : q = printed
  OBVIOUS
<1>4. q \in Seq(Nat)
  BY <1>1, <1>3 DEF ShowTypes
<1>5. PICK c : c = Text(Head(program[t]))
  OBVIOUS
<1>6. c \in Seq(Nat)
  <2>1. program[t] \in Seq(PrintCall) /\ program[t] # <<>>
    BY DEF CallsInv, Call
  <2>2. Head(program[t]) \in PrintCall
    BY <2>1, HeadTailProperties
  <2>. QED BY <1>5, <2>2, TextFacts
<1>7. /\ text' = [text EXCEPT ![t] = c] /\ printed' = q \o c
      /\ pc' = [pc EXCEPT ![t] = "put"] /\ i' = i
      /\ UNCHANGED <<video_memory, cursor_x, cursor_y, index, high, low>>
  BY <1>3, <1>5 DEF Call, cursor, crtc
<1>8. q \o c \in Seq(Nat)
  BY <1>4, <1>6, JoinFacts
<1>9. ShowTypes' /\ text'[t] = c
  BY <1>1, <1>6, <1>7, <1>8 DEF ShowTypes
<1>10. pc'[t] = "put" /\ \A u \in Task \ {t} : pc'[u] = "idle"
  BY <1>1, <1>7 DEF Types, Quiet
<1>11. PICK s : s = Sheet(q)
  OBVIOUS
<1>12. Within(s, top) /\ Image(s, top) /\ Window(top) /\ On(s, top) /\ Sent
  BY <1>2, <1>3, <1>11 DEF Rests
<1>13. Window(top)' /\ Place' = Place
  BY <1>7, <1>12, SamePlace
<1>14. On(s, top)' /\ Sent'
  BY <1>7, <1>12, <1>13 DEF On, Sent
<1>15. Image(s, top)' /\ Within(s, top)'
  BY <1>7, <1>12, SameImage DEF Image, Within
<1>16. Point(t, s, top)'
  BY <1>10, <1>13, <1>14, <1>15 DEF Point, PointInv
<1>17. Shows(t)'
  <2>1. printed' = q \o text'[t]
    BY <1>7, <1>9
  <2>2. Point(t, Sheet(q), top)'
    BY <1>11, <1>16
  <2>. QED BY <1>4, <2>1, <2>2 DEF Shows
<1>18. Alone' /\ ~Quiet'
  BY <1>10 DEF Alone, Quiet
<1>19. \A u \in Task : pc'[u] # "idle" => Shows(u)'
  BY <1>10, <1>17
<1>. QED BY <1>9, <1>18, <1>19 DEF ShowInv

LEMMA WrittenKeeps ==
  ASSUME IInv, Types', ShowInv, NEW t \in Task, Step(t), Written(t)
  PROVE  ShowInv'
<1>1. Types /\ ShowTypes
  BY DEF IInv, ShowInv
<1>2. pc[t] = "put" /\ text[t] = <<>>
  BY DEF Written
<1>3. PICK q \in Seq(Nat), top \in Nat : printed = q \o text[t] /\ Point(t, Sheet(q), top)
  BY <1>2 DEF ShowInv, Shows
<1>4. printed = q
  BY <1>2, <1>3, ConcatEmptySeq
<1>5. PICK s : s = Sheet(q)
  OBVIOUS
<1>6. Within(s, top) /\ Image(s, top) /\ Window(top) /\ On(s, top) /\ Sent
  BY <1>2, <1>3, <1>5 DEF Point, PointInv
<1>7. /\ text' = text /\ printed' = printed /\ i' = i
      /\ pc' = [pc EXCEPT ![t] = "idle"]
      /\ UNCHANGED <<video_memory, cursor_x, cursor_y, index, high, low>>
  BY DEF Written, cursor, crtc
<1>8. ShowTypes'
  BY <1>1, <1>7 DEF ShowTypes
<1>9. \A u \in Task : pc'[u] = "idle"
  BY <1>1, <1>2, <1>7 DEF Types, ShowInv, Alone
<1>10. Window(top)' /\ Place' = Place
  BY <1>6, <1>7, SamePlace
<1>11. On(s, top)' /\ Sent'
  BY <1>6, <1>7, <1>10 DEF On, Sent
<1>12. Image(s, top)' /\ Within(s, top)'
  BY <1>6, <1>7, SameImage DEF Image, Within
<1>13. Rests(s, top)'
  BY <1>10, <1>11, <1>12 DEF Rests
<1>14. printed' = q /\ s = Sheet(q)
  BY <1>4, <1>5, <1>7
<1>15. Rests(Sheet(printed), top)'
  BY <1>13, <1>14
<1>. QED BY <1>8, <1>9, <1>15 DEF ShowInv, Alone

LEMMA StutterKeeps ==
  ASSUME ShowInv, UNCHANGED vars
  PROVE  ShowInv'
<1>1. /\ UNCHANGED <<video_memory, cursor_x, cursor_y, index, high, low, program, call,
                     text, pc, acc, i, return, printed, mixed>>
  BY DEF vars, cursor, crtc, calls
<1>2. ShowTypes' /\ Alone' /\ (Quiet' <=> Quiet)
  BY <1>1 DEF ShowInv, ShowTypes, Alone, Quiet
<1>3. ASSUME NEW s, NEW top
      PROVE  /\ Within(s, top)' <=> Within(s, top)
             /\ Image(s, top)' <=> Image(s, top)
             /\ Window(top)' <=> Window(top)
             /\ Begun(top)' <=> Begun(top)
             /\ On(s, top)' <=> On(s, top)
             /\ Place' = Place
             /\ Sent' <=> Sent
             /\ \A n : Moved(s, top, n)' <=> Moved(s, top, n)
             /\ \A a : Goes(s, a, top)' <=> Goes(s, a, top)
  <2>1. Place' = Place /\ (Window(top)' <=> Window(top)) /\ (Begun(top)' <=> Begun(top))
    BY <1>1, SamePlace
  <2>2. On(s, top)' <=> On(s, top)
    BY <1>1 DEF On
  <2>3. Within(s, top)' <=> Within(s, top)
    BY DEF Within
  <2>4. Image(s, top)' <=> Image(s, top)
    BY <1>1, SameImage DEF Image
  <2>5. \A n : Moved(s, top, n)' <=> Moved(s, top, n)
    BY <1>1, SameImage DEF Moved
  <2>6. Sent' <=> Sent
    BY <1>1, <2>1 DEF Sent
  <2>7. ASSUME NEW a PROVE Goes(s, a, top)' <=> Goes(s, a, top)
    BY <1>1, <2>1 DEF Goes, TurnsTo
  <2>. QED BY <2>1, <2>2, <2>3, <2>4, <2>5, <2>6, <2>7
<1>4. ASSUME NEW t \in Task, NEW s, NEW top, Point(t, s, top) PROVE Point(t, s, top)'
  BY <1>1, <1>3, <1>4 DEF Point, PointInv
<1>5. ASSUME NEW t \in Task, Shows(t) PROVE Shows(t)'
  <2>1. PICK q \in Seq(Nat), top \in Nat : printed = q \o text[t] /\ Point(t, Sheet(q), top)
    BY <1>5 DEF Shows
  <2>2. Point(t, Sheet(q), top)'
    BY <1>4, <2>1
  <2>3. printed' = q \o text'[t]
    BY <1>1, <2>1
  <2>. QED BY <2>1, <2>2, <2>3 DEF Shows
<1>6. \A t \in Task : pc'[t] # "idle" => Shows(t)'
  BY <1>1, <1>5 DEF ShowInv
<1>7. Quiet => \E top \in Nat : Rests(Sheet(printed), top)'
  <2>1. PICK q : q = printed
    OBVIOUS
  <2>2. ASSUME NEW top, Rests(Sheet(q), top) PROVE Rests(Sheet(q), top)'
    BY <1>3, <2>2 DEF Rests
  <2>3. printed' = q
    BY <1>1, <2>1
  <2>4. ASSUME Quiet PROVE \E top \in Nat : Rests(Sheet(printed), top)'
    <3>1. PICK top \in Nat : Rests(Sheet(q), top)
      BY <2>1, <2>4 DEF ShowInv
    <3>2. Rests(Sheet(q), top)'
      BY <2>2, <3>1
    <3>3. Rests(Sheet(printed), top)'
      BY <2>3, <3>2
    <3>. QED BY <3>3
  <2>. QED BY <2>4
<1>. QED BY <1>2, <1>6, <1>7 DEF ShowInv

LEMMA ShowInit == Init => ShowInv
<1> SUFFICES ASSUME Init PROVE ShowInv
  OBVIOUS
<1>1. ShowTypes
  BY EmptySeq DEF Init, ShowTypes, Blank
<1>2. Alone /\ \A t \in Task : pc[t] = "idle"
  BY DEF Init, Alone
<1>3. PICK s : s = Sheet(printed)
  OBVIOUS
<1>4. s.x = 0 /\ s.y = 0 /\ \A x, y : CharAt(s, y, x) = Blank
  BY <1>3, SheetFacts, CleanSheetFacts DEF Init
<1>5. ASSUME NEW x \in 0..(Width - 1), NEW y \in 0..(Height - 1) PROVE Seen(y, x) = Blank
  <2>1. y * Width + x \in Cells
    BY ScreenFacts
  <2>. DEFINE k == y * Width + x
  <2>2. k \in Cells
    BY <2>1
  <2>. HIDE DEF k
  <2>3. video_memory[k] = Blank
    BY <2>2 DEF Init
  <2>. QED BY <2>3 DEF Seen, k
<1>6. Image(s, 0) /\ Within(s, 0)
  BY <1>4, <1>5 DEF Image, Within
<1>7. Window(0) /\ On(s, 0)
  BY <1>4 DEF Init, Window, On
<1>8. Sent
  <2>1. 0 * Byte = 0 /\ 0 * Width = 0
    OBVIOUS
  <2>. QED BY <2>1 DEF Init, Sent, Place
<1>9. Rests(Sheet(printed), 0)
  BY <1>3, <1>6, <1>7, <1>8 DEF Rests
<1>. QED BY <1>1, <1>2, <1>9 DEF ShowInv

LEMMA ShowStep ==
  IInv /\ IInv' /\ CallsInv /\ (~mixed => ShowInv) /\ [Next]_vars => (~mixed' => ShowInv')
<1> SUFFICES ASSUME IInv, IInv', CallsInv, ~mixed => ShowInv, [Next]_vars, ~mixed'
             PROVE  ShowInv'
  OBVIOUS
<1>0. Types' /\ WayBack
  BY DEF IInv
<1>1. CASE UNCHANGED vars
  BY <1>1, StutterKeeps DEF vars, calls
<1>2. ASSUME NEW t \in Task, Step(t) PROVE ShowInv'
  <2>1. CASE Call(t)
    <3>1. ~mixed /\ Quiet
      BY <2>1 DEF Call
    <3>. QED BY <1>0, <1>2, <2>1, <3>1, CallKeeps
  <2>2. CASE Written(t)
    <3>1. ~mixed
      BY <2>2 DEF Written
    <3>. QED BY <1>0, <1>2, <2>2, <3>1, WrittenKeeps
  <2>3. CASE Put(t) \/ Advance(t) \/ MoveCursor(t)
    <3>1. ~mixed
      BY <1>0, <2>3, BusySteps DEF IInv, calls
    <3>2. CASE PutBackspace(t) \/ PutTab(t) \/ PutReturn(t) \/ PutNewline(t)
               \/ PutPrintable(t) \/ PutNothing(t)
      BY <1>0, <1>2, <3>1, <3>2, TakeKeeps
    <3>3. CASE LoadBack(t) \/ Locate(t) \/ LoadX(t) \/ StoreX(t) \/ Wrap(t) \/ LoadY(t)
               \/ StoreY(t) \/ Scroll(t) \/ SelectHigh(t) \/ SendHigh(t) \/ SelectLow(t)
               \/ SendLow(t) \/ ScrollLine(t) \/ LastLine(t)
      BY <1>0, <1>2, <3>1, <3>3, PointKeeps
    <3>. QED BY <2>3, <3>2, <3>3 DEF Put, Advance, MoveCursor
  <2>. QED BY <1>2, <2>1, <2>2, <2>3 DEF Step
<1>. QED BY <1>1, <1>2, NextSteps

\* What the tasks print, one after the other, is what the screen shows, for
\* every screen and any texts: characters go where they belong, lines are
\* wrapped and scrolled, tabs, backspaces and returns do what they should, and
\* both cursors stand where the next character goes.
THEOREM ShowsTheorem == Spec => []OutputShowsText
<1>1. Spec => [](~mixed => ShowInv)
  BY ShowInit, ShowStep, Invariance, CallsInvariance, PTL DEF Spec
<1>2. IInv /\ (~mixed => ShowInv) => OutputShowsText
  <2> SUFFICES ASSUME IInv, ShowInv, Quiet PROVE OutputShowsText
    BY DEF OutputShowsText
  <2>. DEFINE sheet == Sheet(printed)
              top == IF sheet.y < Height THEN 0 ELSE sheet.y - Height + 1
  <2>1. PICK v \in Nat : Rests(sheet, v)
    BY DEF ShowInv
  <2>2. Image(sheet, v) /\ Window(v) /\ On(sheet, v) /\ Sent /\ cursor_y \in Int
    BY <2>1 DEF Rests, IInv, Types
  <2>. HIDE DEF sheet
  <2>3. top = v
    BY <2>2 DEF Window, On
  <2>. HIDE DEF top
  <2>4. \A x \in 0..(Width - 1), y \in 0..(Height - 1) :
          video_memory[y * Width + x] = CharAt(sheet, top + y, x)
    BY <2>2, <2>3 DEF Image, Seen
  <2>5. /\ cursor_x = sheet.x /\ top + cursor_y = sheet.y
        /\ high * Byte + low = cursor_y * Width + cursor_x
    BY <2>2, <2>3 DEF On, Sent, Place
  <2>. QED BY <2>4, <2>5 DEF OutputShowsText, sheet, top
<1>. QED BY <1>1, <1>2, Invariance, PTL

=============================================================================
