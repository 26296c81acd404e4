-------------------------- MODULE RecursionProofs --------------------------
(* Induction for the recursive functions of the models, which run over the     *)
(* length of a sequence: by least elements, up to a number, and that such a    *)
(* recursion has a solution. Then what a rollback leaves of a KV cache.        *)
EXTENDS KVCache, NaturalsInduction, WellFoundedInduction, SequenceTheorems, TLAPS

-----------------------------------------------------------------------------
(* The least-number principle, for sets.                                      *)

\* The order of the naturals as a well-founded relation.
LEMMA NatOrder ==
  \E R : IsWellFoundedOn(R, Nat) /\ \A m, n \in Nat : m < n => <<m, n>> \in R
<1> DEFINE R == OpToRel(<, Nat)
<1>1. ASSUME NEW m \in Nat, NEW n \in Nat, m < n PROVE <<m, n>> \in R
  <2>1. <<m, n>> \in Nat \X Nat
    OBVIOUS
  <2>2. <<m, n>>[1] < <<m, n>>[2]
    BY <1>1
  <2> QED BY <2>1, <2>2, Zenon DEF OpToRel
<1>2. IsWellFoundedOn(R, Nat)
  BY NatLessThanWellFounded
<1> HIDE DEF R
<1> QED BY <1>1, <1>2, Zenon

\* A set of naturals has a least element: what stands in for induction below.
LEMMA Least ==
  ASSUME NEW S, S \subseteq Nat, S # {}
  PROVE \E n \in S : \A m \in S : n <= m
<1>1. PICK R : IsWellFoundedOn(R, Nat) /\ \A m, n \in Nat : m < n => <<m, n>> \in R
  BY NatOrder
<1>2. \E n \in S : \A m \in S : ~(<<m, n>> \in R)
  <2>1. IsWellFoundedOn(R, Nat)
    BY <1>1
  <2>2. S \subseteq Nat /\ S # {}
    OBVIOUS
  <2> QED BY ONLY <2>1, <2>2, WFMin
<1>3. PICK k \in S : \A m \in S : <<m, k>> \notin R
  BY <1>2
<1>4. ASSUME NEW m \in S PROVE k <= m
  <2>1. ~(m < k)
    BY <1>1, <1>3
  <2> QED BY <2>1
<1> QED BY <1>4


\* Induction up to n, over a set.
LEMMA UpTo ==
  ASSUME NEW n \in Nat, NEW P, 0 \in P, \A i \in 1..n : i - 1 \in P => i \in P
  PROVE  \A i \in 0..n : i \in P
<1> SUFFICES ASSUME {i \in 0..n : i \notin P} # {} PROVE FALSE
  OBVIOUS
<1>1. PICK i \in 0..n : i \notin P /\ \A j \in 0..n : j \notin P => i <= j
  <2>1. {k \in 0..n : k \notin P} \subseteq Nat
    OBVIOUS
  <2> QED BY <2>1, Least
<1>2. i # 0
  BY <1>1
<1>3. i \in 1..n /\ i - 1 \in 0..n /\ ~(i <= i - 1)
  BY <1>1, <1>2
<1> QED BY <1>1, <1>3

\* A recursion over 0..n that starts at a and takes its i-th step by step[i],
\* and that it has a solution with values in U.
StepFunctions(n, U) == [1..n -> [U -> U]]
Solvable(n, U, a, step) ==
  \E f \in [0..n -> U] :
    \A i \in 0..n : f[i] = IF i = 0 THEN a ELSE step[i][f[i - 1]]

\* A recursion whose steps stay within U has a solution there.
LEMMA RecursionExists ==
  ASSUME NEW n \in Nat, NEW U, NEW a \in U, NEW step \in StepFunctions(n, U)
  PROVE  Solvable(n, U, a, step)
<1> DEFINE Runs(m) ==
             \E f \in [0..m -> U] :
               \A i \in 0..m : f[i] = IF i = 0 THEN a ELSE step[i][f[i - 1]]
           P == {m \in 0..n : Runs(m)}
<1>1. Runs(0)
  <2> DEFINE f == [i \in 0..0 |-> a]
  <2>1. f \in [0..0 -> U] /\ \A i \in 0..0 : i = 0 /\ f[i] = a
    OBVIOUS
  <2> HIDE DEF f
  <2> QED BY <2>1
<1>2. ASSUME NEW m \in 1..n, m - 1 \in P PROVE m \in P
  <2>1. PICK f \in [0..(m - 1) -> U] :
          \A i \in 0..(m - 1) : f[i] = IF i = 0 THEN a ELSE step[i][f[i - 1]]
    BY <1>2
  <2>2. m \in Nat /\ m - 1 \in 0..(m - 1) /\ step[m][f[m - 1]] \in U
    <3>1. m \in Nat /\ m - 1 \in 0..(m - 1)
      OBVIOUS
    <3>2. f[m - 1] \in U
      BY <2>1, <3>1
    <3> QED BY <3>1, <3>2 DEF StepFunctions
  <2> DEFINE g == [i \in 0..m |-> IF i = m THEN step[m][f[m - 1]] ELSE f[i]]
  <2>3. \A i \in 0..m : i # m => i \in 0..(m - 1)
    BY <2>2
  <2>4. g \in [0..m -> U]
    BY <2>1, <2>2, <2>3
  <2>5. ASSUME NEW i \in 0..m
        PROVE  g[i] = IF i = 0 THEN a ELSE step[i][g[i - 1]]
    <3>1. i - 1 # m /\ (i # 0 => i - 1 \in 0..(m - 1) /\ i - 1 \in 0..m)
      BY <2>2
    <3>2. CASE i = m
      <4>1. i # 0 /\ g[i] = step[m][f[m - 1]] /\ g[i - 1] = f[m - 1]
        BY <3>1, <3>2
      <4> QED BY <3>2, <4>1
    <3>3. CASE i # m
      <4>1. i \in 0..(m - 1) /\ g[i] = f[i] /\ (i # 0 => g[i - 1] = f[i - 1])
        BY <2>3, <3>1, <3>3
      <4> HIDE DEF g
      <4> QED BY <2>1, <4>1
    <3> QED BY <3>2, <3>3
  <2> HIDE DEF g
  <2>6. Runs(m)
    BY <2>4, <2>5
  <2>7. m \in 0..n
    BY <2>2
  <2> HIDE DEF Runs
  <2> QED BY <2>6, <2>7
<1> HIDE DEF Runs
<1>3. \A i \in 0..n : i \in P
  <2>1. 0 \in P
    BY <1>1
  <2> HIDE DEF P
  <2> QED BY <1>2, <2>1, UpTo
<1>4. Runs(n)
  BY <1>3
<1> QED BY <1>4 DEF Runs, Solvable

-----------------------------------------------------------------------------
(* A rollback.                                                                *)

\* What the recursion of CellsBefore says of its i-th value, in terms of f.
KeptStep(kv, p, f, i) ==
  IF i = 0 THEN <<>> ELSE IF kv[i].pos < p THEN Append(f[i - 1], kv[i]) ELSE f[i - 1]

\* The recursion of CellsBefore has a solution, and every value of it is a
\* sequence of cells of the cache.
LEMMA CellsBeforeRuns ==
  ASSUME NEW S, NEW kv \in Seq(S), NEW p
  PROVE  \E f \in [0..Len(kv) -> Seq(S)] :
           \A i \in 0..Len(kv) : f[i] = KeptStep(kv, p, f, i)
<1> DEFINE step == [i \in 1..Len(kv) |->
             [u \in Seq(S) |-> IF kv[i].pos < p THEN Append(u, kv[i]) ELSE u]]
<1>0. step \in StepFunctions(Len(kv), Seq(S))
  BY DEF StepFunctions
<1>1. \A i \in 1..Len(kv), u \in Seq(S) :
        step[i][u] = IF kv[i].pos < p THEN Append(u, kv[i]) ELSE u
  OBVIOUS
<1>2. <<>> \in Seq(S) /\ Len(kv) \in Nat
  OBVIOUS
<1> HIDE DEF step
<1>3. PICK f \in [0..Len(kv) -> Seq(S)] :
        \A i \in 0..Len(kv) : f[i] = IF i = 0 THEN <<>> ELSE step[i][f[i - 1]]
  <2>1. Solvable(Len(kv), Seq(S), <<>>, step)
    BY <1>0, <1>2, RecursionExists
  <2> QED BY <2>1 DEF Solvable
<1>4. \A i \in 0..Len(kv) : f[i] = KeptStep(kv, p, f, i)
  <2> SUFFICES ASSUME NEW i \in 0..Len(kv), i # 0 PROVE f[i] = KeptStep(kv, p, f, i)
    BY <1>3 DEF KeptStep
  <2>1. i \in 1..Len(kv) /\ i - 1 \in 0..Len(kv)
    BY <1>2
  <2>2. f[i - 1] \in Seq(S)
    BY <2>1
  <2> QED BY <1>1, <1>3, <2>1, <2>2 DEF KeptStep
<1> QED BY <1>4

\* A rollback leaves a sequence of cells of the cache.
LEMMA CellsBeforeType ==
  ASSUME NEW S, NEW kv \in Seq(S), NEW p
  PROVE  CellsBefore(kv, p) \in Seq(S)
<1> DEFINE Step(f) == [i \in 0..Len(kv) |->
             IF i = 0 THEN <<>>
             ELSE IF kv[i].pos < p THEN Append(f[i - 1], kv[i]) ELSE f[i - 1]]
           f == CHOOSE kept : kept = Step(kept)
<1>1. f = Step(f)
  <2>1. PICK g \in [0..Len(kv) -> Seq(S)] : \A i \in 0..Len(kv) : g[i] = KeptStep(kv, p, g, i)
    BY CellsBeforeRuns
  <2>2. g = Step(g)
    BY <2>1 DEF KeptStep
  <2> HIDE DEF Step
  <2> QED BY <2>2
<1>2. \A i \in 0..Len(kv) : f[i] \in Seq(S)
  <2> DEFINE B == {i \in 0..Len(kv) : f[i] \notin Seq(S)}
  <2> SUFFICES ASSUME B # {} PROVE FALSE
    BY DEF B
  <2>0. \A i \in 0..Len(kv) : f[i] = Step(f)[i]
    <3> HIDE DEF f, Step
    <3> QED BY <1>1
  <2> HIDE DEF f
  <2>1. PICK n \in B : \A m \in B : n <= m
    <3>1. B \subseteq Nat
      OBVIOUS
    <3> HIDE DEF B
    <3> QED BY <3>1, Least
  <2>2. n \in 0..Len(kv) /\ f[n] \notin Seq(S)
    BY <2>1
  <2>3. n # 0 => n - 1 \in 0..Len(kv) /\ ~(n <= n - 1) /\ n \in 1..Len(kv)
    BY <2>2
  <2>4. n # 0 => f[n - 1] \in Seq(S)
    BY <2>1, <2>3
  <2>5. f[n] = IF n = 0 THEN <<>>
               ELSE IF kv[n].pos < p THEN Append(f[n - 1], kv[n]) ELSE f[n - 1]
    BY <2>0, <2>2
  <2>6. n # 0 => kv[n] \in S
    BY <2>3
  <2>7. f[n] \in Seq(S)
    <3> HIDE DEF B
    <3> QED BY <2>4, <2>5, <2>6
  <2> QED BY <2>2, <2>7
<1>3. CellsBefore(kv, p) = f[Len(kv)]
  BY DEF CellsBefore
<1> HIDE DEF f
<1> QED BY <1>2, <1>3

\* The cells before a position are the first ones, of a cache whose first m
\* cells are at positions before it and whose other cells are not.
THEOREM CellsBeforeIsPrefix ==
  ASSUME NEW S, NEW kv \in Seq(S), NEW p, NEW m \in 0..Len(kv),
         \A i \in 1..Len(kv) : kv[i].pos < p <=> i <= m
  PROVE CellsBefore(kv, p) = SubSeq(kv, 1, m)
<1> DEFINE N == 0..Len(kv)
           Cut1(i) == SubSeq(kv, 1, IF i <= m THEN i ELSE m)
           Step(f) == [i \in N |->
             IF i = 0 THEN <<>>
             ELSE IF kv[i].pos < p THEN Append(f[i - 1], kv[i]) ELSE f[i - 1]]
           g == [i \in N |-> Cut1(i)]
           f == CHOOSE kept : kept = Step(kept)
<1>1. g = Step(g)
  <2>1. ASSUME NEW i \in N
        PROVE g[i] = IF i = 0 THEN <<>>
                     ELSE IF kv[i].pos < p THEN Append(g[i - 1], kv[i]) ELSE g[i - 1]
    <3>1. CASE i = 0
      BY <3>1
    <3>2. CASE i # 0 /\ i <= m
      <4>1. i \in 1..Len(kv) /\ i \in 1..i /\ kv[i].pos < p
        BY <3>2
      <4>2. SubSeq(kv, 1, i) = Append(SubSeq(kv, 1, i - 1), kv[i])
        BY <4>1
      <4> QED BY <3>2, <4>1, <4>2
    <3>3. CASE i # 0 /\ i > m
      <4>1. ~(kv[i].pos < p)
        BY <3>3
      <4> QED BY <3>3, <4>1
    <3> QED BY <3>1, <3>2, <3>3
  <2> HIDE DEF Cut1
  <2> QED BY <2>1
<1>2. f = Step(f)
  <2> HIDE DEF g, Step
  <2> QED BY <1>1
<1>3. \A i \in N : f[i] = g[i]
  <2> SUFFICES ASSUME {i \in N : f[i] # g[i]} # {} PROVE FALSE
    OBVIOUS
  <2>1. PICK i \in N : f[i] # g[i] /\ \A j \in N : f[j] # g[j] => i <= j
    <3> HIDE DEF f, g
    <3>1. {k \in N : f[k] # g[k]} \subseteq Nat
      OBVIOUS
    <3> QED BY <3>1, Least
  <2>2. i # 0 => i - 1 \in N /\ f[i - 1] = g[i - 1]
    <3> HIDE DEF f, g
    <3> QED BY <2>1
  <2>3. f[i] = Step(f)[i] /\ g[i] = Step(g)[i]
    <3> HIDE DEF f, g, Step
    <3> QED BY <1>1, <1>2
  <2>4. Step(f)[i] = Step(g)[i]
    <3> HIDE DEF f, g
    <3> QED BY <2>2
  <2> QED BY <2>1, <2>3, <2>4
<1>4. CellsBefore(kv, p) = f[Len(kv)]
  BY DEF CellsBefore
<1>5. g[Len(kv)] = SubSeq(kv, 1, m)
  OBVIOUS
<1> HIDE DEF f, g
<1> QED BY <1>3, <1>4, <1>5

=============================================================================
