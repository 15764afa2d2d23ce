---------------------------- MODULE DataLemmas ----------------------------
(***************************************************************************)
(* Lemmas about data that no component owns: least and largest numbers,    *)
(* sums over sets, and sequences that are flattened.  What a recursive     *)
(* definition computes is found by going to the least number, or a         *)
(* smallest set, for which it would compute something else.                *)
(***************************************************************************)
EXTENDS Integers, Sequences, FiniteSetsExt, SequencesExt, FiniteSetTheorems,
        SequenceTheorems, TLAPS

\* Every non-empty set of natural numbers has a least element.
LEMMA LeastNumber ==
    ASSUME NEW T, T \subseteq Nat, T # {}
    PROVE  \E x \in T : \A y \in T : x <= y
<1> DEFINE R == {ss \in Nat \X Nat : ss[1] < ss[2]}
<1>1. OpToRel(<, Nat) = R
  BY Zenon DEF OpToRel
<1>2. IsWellFoundedOn(R, Nat)
  BY <1>1, NatLessThanWellFounded, Zenon
<1>3. \E x \in T : \A y \in T : ~(<<y, x>> \in R)
  BY <1>2, WFMin, Zenon
<1>4. \A x, y \in Nat : <<y, x>> \in R <=> y < x
  OBVIOUS
<1> HIDE DEF R
<1>5. PICK x \in T : \A y \in T : ~(<<y, x>> \in R)
  BY <1>3
<1>6. \A y \in T : ~(y < x)
  BY <1>4, <1>5
<1>7. \A y \in T : x \in Int /\ y \in Int
  OBVIOUS
<1> QED BY <1>6, <1>7

\* So Min is what its name says.
LEMMA MinExists ==
    ASSUME NEW T, T \subseteq Nat, T # {}
    PROVE  Min(T) \in T /\ \A y \in T : Min(T) <= y
<1>1. \E x \in T : \A y \in T : x <= y
  BY LeastNumber
<1> QED BY <1>1, Zenon DEF Min

\* Every non-empty finite set of natural numbers has a largest element.
LEMMA MaxExists ==
    ASSUME NEW T, IsFiniteSet(T), T \subseteq Nat, T # {}
    PROVE  /\ Max(T) \in T
           /\ \A y \in T : y <= Max(T)
<1> DEFINE W == {s \in SUBSET T : s # {} /\ ~ \E x \in s : \A y \in s : x >= y}
           R == StrictSubsetOrdering(T)
<1>1. W = {}
  <2> SUFFICES ASSUME W # {} PROVE FALSE
    OBVIOUS
  <2>1. IsWellFoundedOn(R, FiniteSubsetsOf(T)) /\ FiniteSubsetsOf(T) = SUBSET T
    BY FS_StrictSubsetOrderingWellFounded, FS_FiniteSubsetsOfFinite
  <2>2. PICK s \in W : \A t \in W : ~(<<t, s>> \in R)
    <3>1. W \subseteq FiniteSubsetsOf(T)
      BY <2>1
    <3> HIDE DEF W, R
    <3> QED BY <2>1, <3>1, WFMin
  <2>3. PICK x \in s : TRUE
    OBVIOUS
  <2>4. s \ {x} \notin W
    <3>1. <<s \ {x}, s>> \in R
      BY DEF StrictSubsetOrdering
    <3> QED BY <2>2, <3>1
  <2>5. s # {x}
    <3>1. s = {x} => \A y \in s : x >= y
      BY <2>3
    <3> QED BY <3>1
  <2>6. PICK m \in s \ {x} : \A y \in s \ {x} : m >= y
    BY <2>4, <2>5
  <2>7. /\ m \in Nat /\ x \in Nat
        /\ \A y \in s : y \in Nat /\ (y = x \/ m >= y)
    BY <2>6
  <2>8. (\A y \in s : m >= y) \/ (\A y \in s : x >= y)
    BY <2>7
  <2> QED BY <2>3, <2>6, <2>8
<1>2. \E x \in T : \A y \in T : x >= y
  BY <1>1
<1>3. Max(T) \in T /\ \A y \in T : Max(T) >= y
  BY <1>2, Zenon DEF Max
<1>4. \A y \in T : y \in Nat /\ Max(T) \in Nat
  BY <1>3
<1> QED BY <1>3, <1>4

(***************************************************************************)
(* Sums.  A sum of sizes is the number of units there are: this frees the  *)
(* proofs from the order in which a fold goes through its set.             *)
(***************************************************************************)

Units(S, f) == {u \in S \X Nat : u[2] \in 1 .. f[u[1]]}

Total(S, f) == Cardinality(Units(S, f))

\* Nothing adds up to nothing.
LEMMA TotalOfNothing == ASSUME NEW f PROVE Units({}, f) = {} /\ Total({}, f) = 0
<1>1. Units({}, f) = {}
  BY DEF Units
<1> QED BY <1>1, FS_EmptySet DEF Total

\* One more element adds its size.
LEMMA TotalOfOneMore ==
    ASSUME NEW S, NEW f, IsFiniteSet(Units(S, f)), NEW x, x \notin S, f[x] \in Nat
    PROVE  /\ IsFiniteSet(Units(S \cup {x}, f))
           /\ Total(S \cup {x}, f) = Total(S, f) + f[x]
           /\ Total(S, f) \in Nat
<1> DEFINE own == {x} \X (1 .. f[x])
<1>1. Units(S \cup {x}, f) = Units(S, f) \cup own /\ Units(S, f) \cap own = {}
  BY DEF Units
<1>2. IsFiniteSet(own) /\ Cardinality(own) = f[x]
  <2>1. IsFiniteSet(1 .. f[x]) /\ Cardinality(1 .. f[x]) = f[x]
    BY FS_Interval
  <2>2. IsFiniteSet({x}) /\ Cardinality({x}) = 1
    BY FS_Singleton
  <2>3. /\ IsFiniteSet({x} \X (1 .. f[x]))
        /\ Cardinality({x} \X (1 .. f[x])) = Cardinality({x}) * Cardinality(1 .. f[x])
    BY <2>1, <2>2, FS_Product, Zenon
  <2>4. Cardinality({x}) * Cardinality(1 .. f[x]) = f[x]
    BY <2>1, <2>2
  <2> QED BY <2>3, <2>4
<1> HIDE DEF own
<1>3. /\ IsFiniteSet(Units(S, f) \cup own)
      /\ Cardinality(Units(S, f) \cup own) = Cardinality(Units(S, f)) + f[x] - 0
  BY <1>1, <1>2, FS_Union, FS_EmptySet
<1>4. Cardinality(Units(S, f)) \in Nat
  BY FS_CardinalityType
<1>5. Cardinality(Units(S \cup {x}, f)) = Cardinality(Units(S, f)) + f[x]
  <2> DEFINE c == Cardinality(Units(S, f))
  <2>1. c \in Nat /\ f[x] \in Nat
    BY <1>4
  <2> HIDE DEF c
  <2>2. c + f[x] - 0 = c + f[x]
    BY <2>1
  <2> QED BY <1>1, <1>3, <2>2, Zenon DEF c
<1> QED BY <1>1, <1>3, <1>4, <1>5, Zenon DEF Total

\* A finite sum is a number.
LEMMA TotalIsFinite ==
    ASSUME NEW S, IsFiniteSet(S), NEW f, \A x \in S : f[x] \in Nat
    PROVE  IsFiniteSet(Units(S, f)) /\ Total(S, f) \in Nat
<1> DEFINE g == [x \in S |-> {x} \X (1 .. f[x])]
           parts == {g[x] : x \in S}
<1>1. g \in Surjection(S, parts)
  BY DEF Surjection
<1>2. IsFiniteSet(parts)
  BY <1>1, FS_Surjection
<1>3. \A x \in S : IsFiniteSet(g[x])
  <2> SUFFICES ASSUME NEW x \in S PROVE IsFiniteSet({x} \X (1 .. f[x]))
    OBVIOUS
  <2>1. IsFiniteSet(1 .. f[x])
    BY FS_Interval
  <2>2. IsFiniteSet({x})
    BY FS_Singleton
  <2> QED BY <2>1, <2>2, FS_Product
<1>4. IsFiniteSet(UNION parts)
  BY <1>2, <1>3, FS_UNION
<1>5. Units(S, f) = UNION parts
  <2>1. \A u \in Units(S, f) : u[1] \in S /\ u \in g[u[1]]
    BY DEF Units
  <2>2. \A x \in S : g[x] \subseteq Units(S, f)
    BY DEF Units
  <2> QED BY <2>1, <2>2
<1>6. IsFiniteSet(Units(S, f))
  BY <1>4, <1>5
<1> QED BY <1>6, FS_CardinalityType DEF Total

\* Part of a finite sum.
LEMMA TotalOfPart ==
    ASSUME NEW S, NEW f, IsFiniteSet(S), \A x \in S : f[x] \in Nat,
           NEW s \in SUBSET S, NEW x \in s
    PROVE  /\ Total(s, f) = Total(s \ {x}, f) + f[x]
           /\ Total(s, f) \in Nat /\ Total(s \ {x}, f) \in Nat
<1>1. IsFiniteSet(s) /\ IsFiniteSet(s \ {x})
  BY FS_Subset, FS_RemoveElement
<1>2. s = (s \ {x}) \cup {x} /\ x \notin s \ {x} /\ f[x] \in Nat
  OBVIOUS
<1>3. IsFiniteSet(Units(s \ {x}, f)) /\ Total(s, f) \in Nat
  BY <1>1, TotalIsFinite
<1>4. /\ Total((s \ {x}) \cup {x}, f) = Total(s \ {x}, f) + f[x]
      /\ Total(s \ {x}, f) \in Nat
  BY <1>2, <1>3, TotalOfOneMore
<1> QED BY <1>2, <1>3, <1>4, Zenon

\* g adds up the sizes f of the parts of S, some element last.
Adds(g, S, f) ==
    /\ g[{}] = 0
    /\ \A s \in SUBSET S : s # {} =>
          \E x \in s : g[s \ {x}] \in Nat => g[s] = g[s \ {x}] + f[x]

\* Whatever adds one element after the other arrives at the same sum.
LEMMA OneSum ==
    ASSUME NEW S, IsFiniteSet(S), NEW f, \A x \in S : f[x] \in Nat,
           NEW g, Adds(g, S, f)
    PROVE  \A s \in SUBSET S : g[s] = Total(s, f)
<1> DEFINE wrong == {s \in SUBSET S : g[s] # Total(s, f)}
           R == StrictSubsetOrdering(S)
<1> SUFFICES ASSUME wrong # {} PROVE FALSE
  OBVIOUS
<1>1. IsWellFoundedOn(R, FiniteSubsetsOf(S)) /\ FiniteSubsetsOf(S) = SUBSET S
  BY FS_StrictSubsetOrderingWellFounded, FS_FiniteSubsetsOfFinite
<1>2. PICK s \in wrong : \A t \in wrong : ~(<<t, s>> \in R)
  <2>1. wrong \subseteq FiniteSubsetsOf(S)
    BY <1>1
  <2> HIDE DEF wrong, R
  <2> QED BY <1>1, <2>1, WFMin
<1>3. s # {}
  BY TotalOfNothing DEF Adds
<1>4. PICK x \in s : g[s \ {x}] \in Nat => g[s] = g[s \ {x}] + f[x]
  BY <1>3 DEF Adds
<1>5. s \ {x} \notin wrong
  <2>1. <<s \ {x}, s>> \in R
    BY DEF StrictSubsetOrdering
  <2> QED BY <1>2, <2>1
<1>6. g[s \ {x}] = Total(s \ {x}, f)
  BY <1>5
<1>7. /\ Total(s, f) = Total(s \ {x}, f) + f[x]
      /\ Total(s \ {x}, f) \in Nat
  BY TotalOfPart
<1> QED BY <1>4, <1>6, <1>7

\* A set is summed up by a fold.
LEMMA FoldSetAdds ==
    ASSUME NEW S, IsFiniteSet(S), NEW f, \A x \in S : f[x] \in Nat
    PROVE  FoldSet(LAMBDA a, sum : sum + f[a], 0, S) = Total(S, f)
<1> DEFINE Choice(s) == CHOOSE x \in s : TRUE
           Step(g) == [s \in SUBSET S |-> IF s = {} THEN 0
                                          ELSE g[s \ {Choice(s)}] + f[Choice(s)]]
           total == [s \in SUBSET S |-> Total(s, f)]
<1>1. FoldSet(LAMBDA a, sum : sum + f[a], 0, S) = (CHOOSE g : g = Step(g))[S]
  BY DEF FoldSet, MapThenFoldSet
<1>2. \A s \in SUBSET S : s # {} => Choice(s) \in s
  OBVIOUS
<1> HIDE DEF Choice
<1>3. total = Step(total)
  <2>1. \A s \in SUBSET S : s # {} => Total(s, f) = Total(s \ {Choice(s)}, f) + f[Choice(s)]
    BY <1>2, TotalOfPart
  <2>2. Total({}, f) = 0
    BY TotalOfNothing
  <2> QED BY <2>1, <2>2
<1>4. ASSUME NEW g, g = Step(g) PROVE g = total
  <2>1. g[{}] = 0
    BY <1>4
  <2>2. \A s \in SUBSET S : s # {} =>
             \E x \in s : g[s \ {x}] \in Nat => g[s] = g[s \ {x}] + f[x]
    BY <1>2, <1>4
  <2>3. \A s \in SUBSET S : g[s] = Total(s, f)
    <3>1. Adds(g, S, f)
      BY <2>1, <2>2, Zenon DEF Adds
    <3> QED BY <3>1, OneSum
  <2> QED BY <1>4, <2>3
<1> HIDE DEF Step
<1>5. (CHOOSE g : g = Step(g)) = total
  BY <1>3, <1>4
<1> QED BY <1>1, <1>5

\* Fewer elements, or others in their places, do not add up to more.
LEMMA TotalOfImage ==
    ASSUME NEW S, NEW f, NEW T, NEW h, IsFiniteSet(Units(T, h)),
           NEW place \in [S -> T],
           \A x, y \in S : place[x] = place[y] => x = y,
           \A x \in S : f[x] = h[place[x]]
    PROVE  IsFiniteSet(Units(S, f)) /\ Total(S, f) <= Total(T, h)
<1> DEFINE move == [u \in Units(S, f) |-> <<place[u[1]], u[2]>>]
<1>1. move \in [Units(S, f) -> Units(T, h)]
  BY DEF Units
<1>2. \A u, v \in Units(S, f) : move[u] = move[v] => u = v
  BY DEF Units
<1>3. move \in Injection(Units(S, f), Units(T, h))
  BY <1>1, <1>2 DEF Injection, IsInjective
<1> QED BY <1>3, FS_Injection DEF Total

(***************************************************************************)
(* Sequences that are flattened.                                           *)
(***************************************************************************)

\* f[i] is the first i sequences of q one after the other.
Flattens(f, q, n) == f = [i \in 1 .. n |-> IF i = 1 THEN q[i] ELSE f[i - 1] \o q[i]]

\* There is such a function.
LEMMA FlattenExists ==
    ASSUME NEW q, NEW n \in Nat
    PROVE  \E f : Flattens(f, q, n)
<1> DEFINE T == {m \in Nat : ~ \E f : Flattens(f, q, m)}
<1> SUFFICES ASSUME T # {} PROVE FALSE
  OBVIOUS
<1>1. PICK m \in T : \A k \in T : m <= k
  BY LeastNumber
<1>2. m # 0
  <2> DEFINE f == [i \in {} |-> 0]
  <2>1. Flattens(f, q, 0)
    BY DEF Flattens
  <2> QED BY <2>1
<1>3. m - 1 \in Nat /\ m - 1 \notin T
  BY <1>1, <1>2
<1>4. PICK g : Flattens(g, q, m - 1)
  BY <1>3
<1> DEFINE f == [i \in 1 .. m |-> IF i = 1 THEN q[i] ELSE g[i - 1] \o q[i]]
<1>5. \A i \in 1 .. (m - 1) : f[i] = g[i]
  <2>1. \A i \in 1 .. (m - 1) : g[i] = IF i = 1 THEN q[i] ELSE g[i - 1] \o q[i]
    BY <1>4, Zenon DEF Flattens
  <2>2. \A i \in 1 .. (m - 1) : i \in 1 .. m
    BY <1>1
  <2> QED BY <2>1, <2>2, Zenon
<1>6. Flattens(f, q, m)
  <2>1. \A i \in 1 .. m : i # 1 => i - 1 \in 1 .. (m - 1)
    BY <1>1
  <2>2. \A i \in 1 .. m : f[i] = IF i = 1 THEN q[i] ELSE f[i - 1] \o q[i]
    BY <1>5, <2>1
  <2>3. f = [i \in 1 .. m |-> IF i = 1 THEN q[i] ELSE f[i - 1] \o q[i]]
    BY <2>2
  <2> QED BY <2>3 DEF Flattens
<1> QED BY <1>1, <1>6

\* It depends only on the sequences before.
LEMMA FlattensAlike ==
    ASSUME NEW n \in Nat, NEW k \in 1 .. n, NEW p, NEW q, NEW f, NEW g,
           Flattens(f, q, n), Flattens(g, p, k), \A i \in 1 .. k : p[i] = q[i]
    PROVE  f[k] = g[k]
<1> DEFINE T == {i \in 1 .. k : f[i] # g[i]}
<1> SUFFICES ASSUME T # {} PROVE FALSE
  OBVIOUS
<1>1. PICK i \in T : \A j \in T : i <= j
  <2>1. T \subseteq Nat
    OBVIOUS
  <2> HIDE DEF T
  <2> QED BY <2>1, LeastNumber
<1>2. i \in 1 .. k /\ i \in 1 .. n /\ p[i] = q[i]
  OBVIOUS
<1>3. /\ f[i] = IF i = 1 THEN q[i] ELSE f[i - 1] \o q[i]
      /\ g[i] = IF i = 1 THEN p[i] ELSE g[i - 1] \o p[i]
  BY <1>2 DEF Flattens
<1>4. i # 1 => f[i - 1] = g[i - 1]
  BY <1>1, <1>2
<1> QED BY <1>2, <1>3, <1>4

\* The first k sequences, flattened, and the one after them.
LEMMA FlattenStep ==
    ASSUME NEW S, NEW q \in Seq(Seq(S)), NEW k \in 0 .. Len(q) - 1
    PROVE  /\ FlattenSeq(SubSeq(q, 1, 0)) = <<>>
           /\ FlattenSeq(SubSeq(q, 1, k + 1)) = FlattenSeq(SubSeq(q, 1, k)) \o q[k + 1]
<1>1. PICK f : Flattens(f, q, Len(q))
  <2>1. Len(q) \in Nat
    OBVIOUS
  <2> QED BY <2>1, FlattenExists
<1>2. ASSUME NEW m \in 1 .. Len(q) PROVE FlattenSeq(SubSeq(q, 1, m)) = f[m]
  <2> DEFINE part == SubSeq(q, 1, m)
             own == CHOOSE h : Flattens(h, part, m)
  <2>1. Len(part) = m /\ m # 0 /\ \A i \in 1 .. m : part[i] = q[i]
    OBVIOUS
  <2> HIDE DEF part
  <2>2. FlattenSeq(part) = own[m]
    BY <2>1 DEF FlattenSeq, Flattens
  <2>3. Flattens(own, part, m)
    <3>1. m \in Nat
      OBVIOUS
    <3>2. \E h : Flattens(h, part, m)
      BY <3>1, FlattenExists
    <3> QED BY <3>2, Zenon
  <2> HIDE DEF own
  <2>4. f[m] = own[m]
    <3>1. Len(q) \in Nat
      OBVIOUS
    <3>2. \A i \in 1 .. m : part[i] = q[i]
      BY <2>1
    <3> QED BY <1>1, <2>3, <3>1, <3>2, FlattensAlike
  <2> QED BY <2>2, <2>4 DEF part
<1>3. SubSeq(q, 1, 0) = <<>> /\ FlattenSeq(<<>>) = <<>>
  BY SubSeqEmpty DEF FlattenSeq
<1>4. k + 1 \in 1 .. Len(q) /\ q[k + 1] \in Seq(S)
  OBVIOUS
<1>5. f[k + 1] = IF k = 0 THEN q[k + 1] ELSE f[k] \o q[k + 1]
  <2>1. \A i \in 1 .. Len(q) : f[i] = IF i = 1 THEN q[i] ELSE f[i - 1] \o q[i]
    BY <1>1, Zenon DEF Flattens
  <2>2. (k + 1) - 1 = k /\ (k + 1 = 1 <=> k = 0)
    OBVIOUS
  <2> QED BY <1>4, <2>1, <2>2
<1>6. CASE k = 0
  BY <1>2, <1>3, <1>4, <1>5, <1>6, ConcatEmptySeq
<1>7. CASE k # 0
  <2>1. k \in 1 .. Len(q)
    BY <1>7
  <2> QED BY <1>2, <1>3, <1>4, <1>5, <1>7, <2>1
<1> QED BY <1>6, <1>7

\* What comes after the first k sequences follows them.
LEMMA FlattenGrows ==
    ASSUME NEW S, NEW q \in Seq(Seq(S)), NEW k \in 0 .. Len(q)
    PROVE  /\ FlattenSeq(SubSeq(q, 1, k)) \in Seq(S)
           /\ \A m \in k .. Len(q) : \E t \in Seq(S) :
                 FlattenSeq(SubSeq(q, 1, m)) = FlattenSeq(SubSeq(q, 1, k)) \o t
<1> DEFINE B(m) == FlattenSeq(SubSeq(q, 1, m))
           U == {m \in 0 .. Len(q) : B(m) \notin Seq(S)}
           T == {m \in k .. Len(q) : ~ \E t \in Seq(S) : B(m) = B(k) \o t}
<1>1. /\ Len(q) \in Nat
      /\ \A m \in 0 .. Len(q) : m # 0 => m - 1 \in 0 .. Len(q) - 1 /\ (m - 1) + 1 = m /\ q[m] \in Seq(S)
  OBVIOUS
<1>2. B(0) = <<>>
  <2>1. CASE Len(q) = 0
    <3>1. SubSeq(q, 1, 0) = <<>>
      BY SubSeqEmpty
    <3> QED BY <3>1 DEF FlattenSeq
  <2>2. CASE Len(q) # 0
    <3>1. 0 \in 0 .. Len(q) - 1
      BY <1>1, <2>2
    <3> QED BY <3>1, FlattenStep
  <2> QED BY <2>1, <2>2
<1>3. \A m \in 0 .. Len(q) : m # 0 => B(m) = B(m - 1) \o q[m]
  <2> SUFFICES ASSUME NEW m \in 0 .. Len(q), m # 0 PROVE B(m) = B(m - 1) \o q[m]
    OBVIOUS
  <2> DEFINE l == m - 1
  <2>1. l \in 0 .. Len(q) - 1 /\ l + 1 = m
    BY <1>1
  <2> HIDE DEF l
  <2>2. B(l + 1) = B(l) \o q[l + 1]
    BY <2>1, FlattenStep
  <2> QED BY <2>1, <2>2 DEF l
<1> HIDE DEF B
<1>4. U = {}
  <2> SUFFICES ASSUME U # {} PROVE FALSE
    OBVIOUS
  <2>1. PICK m \in U : \A l \in U : m <= l
    <3>1. U \subseteq Nat
      BY <1>1
    <3> HIDE DEF U
    <3> QED BY <3>1, LeastNumber
  <2>2. m # 0
    BY <1>2, EmptySeq
  <2>3. B(m - 1) \in Seq(S)
    BY <1>1, <2>1, <2>2
  <2>4. B(m - 1) \o q[m] \in Seq(S)
    BY <1>1, <2>2, <2>3, ConcatProperties
  <2> QED BY <1>3, <2>2, <2>4
<1>5. T = {}
  <2> SUFFICES ASSUME T # {} PROVE FALSE
    OBVIOUS
  <2>1. PICK m \in T : \A l \in T : m <= l
    <3>1. T \subseteq Nat
      BY <1>1
    <3> HIDE DEF T
    <3> QED BY <3>1, LeastNumber
  <2>2. B(k) \in Seq(S)
    BY <1>4
  <2>3. m # k
    BY <2>2, ConcatEmptySeq, EmptySeq
  <2>4. m - 1 \in k .. Len(q) /\ m # 0 /\ m \in 0 .. Len(q) /\ m - 1 \notin T
    <3>1. m \in k .. Len(q) /\ m - 1 \in k .. Len(q) /\ m # 0 /\ m \in 0 .. Len(q)
      BY <1>1, <2>3
    <3>2. ~(m <= m - 1)
      BY <3>1
    <3> HIDE DEF T
    <3> QED BY <2>1, <3>1, <3>2
  <2>5. PICK t \in Seq(S) : B(m - 1) = B(k) \o t
    BY <2>4
  <2>6. B(m) = (B(k) \o t) \o q[m]
    BY <1>3, <2>4, <2>5
  <2>7. B(m) = B(k) \o (t \o q[m]) /\ t \o q[m] \in Seq(S)
    <3>1. q[m] \in Seq(S)
      BY <1>1, <2>4
    <3>2. t \o q[m] \in Seq(S)
      BY <3>1, ConcatProperties
    <3>3. (B(k) \o t) \o q[m] = B(k) \o (t \o q[m])
      <4> DEFINE b == B(k)
                 u == q[m]
      <4>1. b \in Seq(S) /\ t \in Seq(S) /\ u \in Seq(S)
        BY <2>2, <3>1
      <4> HIDE DEF b, u
      <4>2. (b \o t) \o u = b \o (t \o u)
        BY <4>1, ConcatAssociative
      <4> QED BY <4>2 DEF b, u
    <3> QED BY <2>6, <3>2, <3>3
  <2> QED BY <2>4, <2>7
<1> QED BY <1>4, <1>5 DEF B

\* All of them are the flattened sequence.
LEMMA FlattenAll ==
    ASSUME NEW S, NEW q \in Seq(Seq(S))
    PROVE  FlattenSeq(q) = FlattenSeq(SubSeq(q, 1, Len(q))) /\ FlattenSeq(q) \in Seq(S)
<1>1. SubSeq(q, 1, Len(q)) = q
  BY SubSeqFull
<1>2. Len(q) \in 0 .. Len(q)
  OBVIOUS
<1> QED BY <1>1, <1>2, FlattenGrows

\* Where the sequence k is found.
LEMMA FlattenPlace ==
    ASSUME NEW S, NEW q \in Seq(Seq(S)), NEW k \in 1 .. Len(q)
    PROVE  LET before == Len(FlattenSeq(SubSeq(q, 1, k - 1)))
           IN  /\ before \in Nat
               /\ before + Len(q[k]) <= Len(FlattenSeq(q))
               /\ \A i \in 1 .. Len(q[k]) : FlattenSeq(q)[before + i] = q[k][i]
<1> DEFINE b == FlattenSeq(SubSeq(q, 1, k - 1))
           c == FlattenSeq(SubSeq(q, 1, k))
           l == k - 1
<1>1. Len(q) \in Nat /\ l \in 0 .. Len(q) - 1 /\ l + 1 = k /\ q[k] \in Seq(S)
  OBVIOUS
<1>2. c = b \o q[k]
  <2> HIDE DEF l
  <2>1. FlattenSeq(SubSeq(q, 1, l + 1)) = FlattenSeq(SubSeq(q, 1, l)) \o q[l + 1]
    BY <1>1, FlattenStep
  <2> QED BY <1>1, <2>1 DEF l
<1>3. b \in Seq(S) /\ c \in Seq(S)
  <2>1. k - 1 \in 0 .. Len(q) /\ k \in 0 .. Len(q)
    OBVIOUS
  <2> QED BY <2>1, FlattenGrows
<1>4. PICK t \in Seq(S) : FlattenSeq(q) = c \o t
  <2>1. k \in 0 .. Len(q) /\ Len(q) \in k .. Len(q)
    OBVIOUS
  <2>2. \E t \in Seq(S) : FlattenSeq(SubSeq(q, 1, Len(q))) = c \o t
    BY <2>1, FlattenGrows
  <2> QED BY <2>2, FlattenAll
<1> HIDE DEF b, c
<1> DEFINE d == q[k]
<1>5. d \in Seq(S) /\ Len(b) \in Nat /\ Len(d) \in Nat /\ Len(t) \in Nat
  BY <1>1, <1>3
<1> HIDE DEF d
<1>6. /\ Len(c) = Len(b) + Len(d)
      /\ \A i \in 1 .. Len(d) : c[Len(b) + i] = d[i]
  BY <1>2, <1>3, <1>5, ConcatProperties DEF d
<1>7. /\ Len(c \o t) = Len(c) + Len(t)
      /\ \A i \in 1 .. Len(c) : (c \o t)[i] = c[i]
  BY <1>3, <1>5, ConcatProperties
<1>8. Len(b) + Len(d) <= Len(c \o t)
  BY <1>5, <1>6, <1>7
<1>9. \A i \in 1 .. Len(d) : (c \o t)[Len(b) + i] = d[i]
  BY <1>5, <1>6, <1>7
<1> QED BY <1>4, <1>5, <1>8, <1>9 DEF b, d
=============================================================================
