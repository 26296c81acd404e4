--------------------------- MODULE SwarmRouteProofs ---------------------------
(* That a hop and its alternates only ever are peers that announced the range  *)
(* of the hop, and that the hop's own peer is the one that did so last.        *)
EXTENDS SwarmRoute, RecursionProofs

-----------------------------------------------------------------------------
(* Sequences.                                                                 *)

\* Nothing stands in s twice.
Once(s) == \A i, j \in 1 .. Len(s) : i # j => s[i] # s[j]

LEMMA RangeIs ==
  ASSUME NEW S, NEW s \in Seq(S)
  PROVE  Range(s) = {s[i] : i \in 1 .. Len(s)} /\ Range(s) \subseteq S
BY DEF Range

\* Joining the queue.
LEMMA OnceAppend ==
  ASSUME NEW S, NEW s \in Seq(S), NEW x \in S
  PROVE  /\ Append(s, x) \in Seq(S) /\ Len(Append(s, x)) = Len(s) + 1
         /\ Range(Append(s, x)) = Range(s) \cup {x}
         /\ Once(s) /\ x \notin Range(s) => Once(Append(s, x))
<1> DEFINE u == Append(s, x)
<1>1. /\ u \in Seq(S) /\ Len(u) = Len(s) + 1 /\ Len(s) \in Nat
      /\ \A i \in 1 .. Len(u) : u[i] = IF i \in 1 .. Len(s) THEN s[i] ELSE x
      /\ \A i \in 1 .. Len(s) : i \in 1 .. Len(u)
      /\ Len(u) \in 1 .. Len(u) /\ Len(u) \notin 1 .. Len(s)
  OBVIOUS
<1>2. Range(s) = {s[i] : i \in 1 .. Len(s)} /\ Range(u) = {u[i] : i \in 1 .. Len(u)}
  BY <1>1, RangeIs
<1> HIDE DEF u
<1>3. Range(u) = Range(s) \cup {x}
  BY <1>1, <1>2
<1>4. ASSUME Once(s), x \notin Range(s), NEW i \in 1 .. Len(u), NEW j \in 1 .. Len(u), i # j
      PROVE  u[i] # u[j]
  <2>1. i \in 1 .. Len(s) \/ j \in 1 .. Len(s)
    BY <1>1, <1>4
  <2>2. \A k \in 1 .. Len(s) : s[k] # x
    BY <1>2, <1>4
  <2> QED BY <1>1, <1>4, <2>1, <2>2 DEF Once
<1> QED BY <1>1, <1>3, <1>4 DEF Once, u

\* Leaving it at the head.
LEMMA OnceTail ==
  ASSUME NEW S, NEW s \in Seq(S), s # <<>>
  PROVE  /\ Head(s) \in S /\ Head(s) = s[1] /\ Tail(s) \in Seq(S)
         /\ Len(Tail(s)) = Len(s) - 1
         /\ Range(s) = Range(Tail(s)) \cup {Head(s)}
         /\ Once(s) => Once(Tail(s)) /\ Head(s) \notin Range(Tail(s))
<1> DEFINE u == Tail(s)
<1>1. /\ u \in Seq(S) /\ Len(u) = Len(s) - 1 /\ Len(s) \in Nat /\ Len(s) > 0
      /\ Head(s) = s[1] /\ Head(s) \in S
      /\ \A i \in 1 .. Len(u) : u[i] = s[i + 1]
  OBVIOUS
<1>2. Range(s) = {s[i] : i \in 1 .. Len(s)} /\ Range(u) = {u[i] : i \in 1 .. Len(u)}
  BY <1>1, RangeIs
<1> HIDE DEF u
<1>3. /\ \A i \in 1 .. Len(u) : i + 1 \in 1 .. Len(s) /\ i + 1 # 1
      /\ \A i \in 1 .. Len(s) : i # 1 => i - 1 \in 1 .. Len(u) /\ (i - 1) + 1 = i
      /\ 1 \in 1 .. Len(s)
  BY <1>1
<1>4. Range(s) = Range(u) \cup {s[1]}
  <2>1. \A i \in 1 .. Len(s) : i # 1 => s[i] = u[i - 1]
    BY <1>1, <1>3
  <2> QED BY <1>1, <1>2, <1>3, <2>1
<1>5. Once(s) => Once(u)
  <2> SUFFICES ASSUME Once(s), NEW i \in 1 .. Len(u), NEW j \in 1 .. Len(u), i # j
               PROVE  u[i] # u[j]
    BY DEF Once
  <2>1. i + 1 # j + 1
    BY <1>1
  <2> QED BY <1>1, <1>3, <2>1 DEF Once
<1>6. Once(s) => s[1] \notin Range(u)
  BY <1>1, <1>2, <1>3 DEF Once
<1> QED BY <1>1, <1>4, <1>5, <1>6 DEF u
-----------------------------------------------------------------------------
(* The ranking of the records.                                                *)

LEMMA AheadIs ==
  ASSUME NEW s \in Seq(Record), NEW rec \in Record
  PROVE  /\ Ahead(s, rec) \in 0 .. Len(s)
         /\ \A i \in 1 .. Ahead(s, rec) : s[i].mint >= rec.mint
         /\ Ahead(s, rec) < Len(s) => s[Ahead(s, rec) + 1].mint < rec.mint
<1> DEFINE Ends(k) == /\ \A i \in 1 .. k : s[i].mint >= rec.mint
                      /\ k < Len(s) => s[k + 1].mint < rec.mint
           Older == {i \in 1 .. Len(s) : s[i].mint < rec.mint}
<1>0. rec.mint \in Nat /\ Len(s) \in Nat /\ \A i \in 1 .. Len(s) : s[i].mint \in Nat
  <2>1. MaxMint \in Nat
    BY NodeAssumption
  <2>2. \A r \in Record : r.mint \in 0 .. MaxMint
    BY DEF Record
  <2>3. Len(s) \in Nat /\ \A i \in 1 .. Len(s) : s[i] \in Record
    OBVIOUS
  <2> QED BY <2>1, <2>2, <2>3
<1>1. \E k \in 0 .. Len(s) : Ends(k)
  <2>1. CASE Older = {}
    <3>1. Ends(Len(s))
      BY <1>0, <2>1
    <3> QED BY <1>0, <3>1
  <2>2. CASE Older # {}
    <3>1. Older \subseteq Nat
      OBVIOUS
    <3>2. PICK n \in Older : \A m \in Older : n <= m
      <4> HIDE DEF Older
      <4> QED BY <2>2, <3>1, Least
    <3>3. n - 1 \in 0 .. Len(s) /\ (n - 1) + 1 = n /\ n \in 1 .. Len(s)
      BY <1>0, <3>2
    <3>4. ASSUME NEW i \in 1 .. n - 1 PROVE s[i].mint >= rec.mint
      <4>1. i \in 1 .. Len(s) /\ ~(n <= i)
        BY <3>3
      <4>2. ~(s[i].mint < rec.mint)
        BY <3>2, <4>1
      <4> QED BY <1>0, <4>1, <4>2
    <3>5. s[n].mint < rec.mint
      BY <3>2
    <3>6. Ends(n - 1)
      BY <3>3, <3>4, <3>5
    <3> QED BY <3>3, <3>6
  <2> QED BY <2>1, <2>2
<1>2. Ahead(s, rec) = CHOOSE k \in 0 .. Len(s) : Ends(k)
  BY DEF Ahead
<1> HIDE DEF Ends
<1>3. Ahead(s, rec) \in 0 .. Len(s) /\ Ends(Ahead(s, rec))
  BY <1>1, <1>2
<1> QED BY <1>3 DEF Ends

LEMMA InsertAtIs ==
  ASSUME NEW S, NEW s \in Seq(S), NEW x \in S, NEW k \in 0 .. Len(s)
  PROVE  /\ InsertAt(s, k + 1, x) \in Seq(S)
         /\ Len(InsertAt(s, k + 1, x)) = Len(s) + 1
         /\ InsertAt(s, k + 1, x)[1] = IF k = 0 THEN x ELSE s[1]
         /\ Range(InsertAt(s, k + 1, x)) \subseteq Range(s) \cup {x}
<1> DEFINE before == SubSeq(s, 1, k)
           after == SubSeq(s, k + 1, Len(s))
           u == (before \o <<x>>) \o after
<1>1. /\ k \in Nat /\ Len(s) \in Nat /\ k <= Len(s)
      /\ before \in Seq(S) /\ Len(before) = k
      /\ \A i \in 1 .. k : before[i] = s[i] /\ i \in 1 .. Len(s)
  OBVIOUS
<1>2. /\ after \in Seq(S) /\ Len(after) = Len(s) - k
      /\ \A i \in 1 .. Len(s) - k : after[i] = s[k + i] /\ k + i \in 1 .. Len(s)
  BY <1>1
<1>3. InsertAt(s, k + 1, x) = u
  <2>1. (k + 1) - 1 = k
    OBVIOUS
  <2> QED BY <2>1, Zenon DEF InsertAt
<1> HIDE DEF before, after
<1>4. /\ u \in Seq(S) /\ Len(u) = Len(s) + 1
      /\ \A i \in 1 .. Len(u) :
           u[i] = IF i <= k THEN before[i] ELSE IF i = k + 1 THEN x ELSE after[i - (k + 1)]
  <2> DEFINE left == before \o <<x>>
  <2>1. /\ left \in Seq(S) /\ Len(left) = k + 1
        /\ \A i \in 1 .. k + 1 : left[i] = IF i <= k THEN before[i] ELSE x
    BY <1>1
  <2> HIDE DEF left
  <2>2. /\ left \o after \in Seq(S) /\ Len(left \o after) = (k + 1) + (Len(s) - k)
        /\ \A i \in 1 .. (k + 1) + (Len(s) - k) :
             (left \o after)[i] = IF i <= k + 1 THEN left[i] ELSE after[i - (k + 1)]
    <3>1. left \in Seq(S) /\ after \in Seq(S)
      BY <1>2, <2>1
    <3>2. /\ left \o after \in Seq(S)
          /\ Len(left \o after) = Len(left) + Len(after)
          /\ \A i \in 1 .. Len(left) + Len(after) :
               (left \o after)[i] = IF i <= Len(left) THEN left[i] ELSE after[i - Len(left)]
      BY ONLY <3>1, ConcatProperties
    <3>3. Len(left) = k + 1 /\ Len(after) = Len(s) - k
      BY <1>2, <2>1
    <3> QED BY <3>2, <3>3, Zenon
  <2>3. (k + 1) + (Len(s) - k) = Len(s) + 1 /\ \A i \in Nat : i <= k => i <= k + 1
    BY <1>1
  <2>4. /\ \A i \in 1 .. Len(s) + 1 : i <= k + 1 => i \in 1 .. k + 1
        /\ \A i \in 1 .. Len(s) + 1 : i <= k + 1 /\ ~(i <= k) <=> i = k + 1
    BY <1>1
  <2>5. u = left \o after
    BY DEF left
  <2> HIDE DEF u
  <2> QED BY <2>1, <2>2, <2>3, <2>4, <2>5
<1>5. Range(s) = {s[i] : i \in 1 .. Len(s)} /\ Range(u) = {u[i] : i \in 1 .. Len(u)}
  BY <1>4, RangeIs
<1> HIDE DEF u
<1>6. ASSUME NEW i \in 1 .. Len(u) PROVE u[i] \in Range(s) \cup {x}
  <2>1. CASE i <= k
    BY <1>1, <1>4, <1>5, <2>1
  <2>2. CASE i > k + 1
    <3>1. i - (k + 1) \in 1 .. Len(s) - k
      BY <1>1, <1>4, <2>2
    <3>2. after[i - (k + 1)] \in Range(s)
      BY <1>2, <1>5, <3>1
    <3> QED BY <1>1, <1>4, <2>2, <3>2
  <2>3. CASE i = k + 1
    BY <1>1, <1>4, <2>3
  <2> QED BY <1>1, <2>1, <2>2, <2>3
<1>7. u[1] = IF k = 0 THEN x ELSE s[1]
  BY <1>1, <1>4
<1> QED BY <1>3, <1>4, <1>5, <1>6, <1>7
\* What the first i records, ranked, are.
RankedOf(records, i, u) ==
  /\ u \in Seq(Record)
  /\ Range(u) \subseteq Range(records)
  /\ \A j \in 1 .. i : Forwardable(records[j]) =>
       u # <<>> /\ u[1].mint >= records[j].mint

\* The ranking holds found records only, and none that may be forwarded to is
\* newer than the first of it.
LEMMA FreshestFirstIs ==
  ASSUME NEW records \in Seq(Record)
  PROVE  RankedOf(records, Len(records), FreshestFirst(records))
<1> DEFINE n == Len(records)
           Rank(u, rec) == IF ~Forwardable(rec) THEN u ELSE InsertAt(u, Ahead(u, rec) + 1, rec)
           Step(f) == [i \in 0 .. n |->
             IF i = 0 THEN <<>>
             ELSE IF ~Forwardable(records[i]) THEN f[i - 1]
             ELSE InsertAt(f[i - 1], Ahead(f[i - 1], records[i]) + 1, records[i])]
           f == CHOOSE ranked : ranked = Step(ranked)
           step == [i \in 1 .. n |-> [u \in Seq(Record) |-> Rank(u, records[i])]]
           P == {i \in 0 .. n : RankedOf(records, i, f[i])}
<1>0. n \in Nat /\ <<>> \in Seq(Record) /\ \A i \in 1 .. n : records[i] \in Record
  OBVIOUS
<1>1. ASSUME NEW u \in Seq(Record), NEW rec \in Record
      PROVE  Rank(u, rec) \in Seq(Record)
  <2>1. Ahead(u, rec) \in 0 .. Len(u)
    BY AheadIs
  <2>2. InsertAt(u, Ahead(u, rec) + 1, rec) \in Seq(Record)
    BY <2>1, InsertAtIs
  <2> QED BY <2>2
<1>2. f = Step(f)
  <2>1. step \in StepFunctions(n, Seq(Record))
    <3> HIDE DEF Rank
    <3> QED BY <1>0, <1>1 DEF StepFunctions
  <2>2. \A i \in 1 .. n, u \in Seq(Record) : step[i][u] = Rank(u, records[i])
    <3> HIDE DEF Rank
    <3> QED OBVIOUS
  <2> HIDE DEF step
  <2>3. Solvable(n, Seq(Record), <<>>, step)
    BY <1>0, <2>1, RecursionExists
  <2>4. PICK g \in [0 .. n -> Seq(Record)] :
          \A i \in 0 .. n : g[i] = IF i = 0 THEN <<>> ELSE step[i][g[i - 1]]
    BY <2>3 DEF Solvable
  <2>5. \A i \in 0 .. n : g[i] = IF i = 0 THEN <<>> ELSE Rank(g[i - 1], records[i])
    <3> HIDE DEF Rank
    <3> SUFFICES ASSUME NEW i \in 0 .. n, i # 0 PROVE g[i] = Rank(g[i - 1], records[i])
      BY <2>4
    <3>1. i \in 1 .. n /\ i - 1 \in 0 .. n
      BY <1>0
    <3>2. g[i - 1] \in Seq(Record)
      BY <3>1
    <3> QED BY <2>2, <2>4, <3>1, <3>2
  <2>6. g = Step(g)
    BY <2>5
  <2> HIDE DEF Step
  <2> QED BY <2>6
<1>3. /\ f[0] = <<>>
      /\ \A i \in 1 .. n : f[i] = Rank(f[i - 1], records[i])
  <2>1. \A i \in 0 .. n : f[i] = Step(f)[i]
    <3> HIDE DEF f, Step
    <3> QED BY <1>2
  <2>2. 0 \in 0 .. n /\ \A i \in 1 .. n : i \in 0 .. n /\ i # 0
    BY <1>0
  <2> HIDE DEF f
  <2> QED BY <2>1, <2>2
<1>4. FreshestFirst(records) = f[n]
  BY DEF FreshestFirst
<1> HIDE DEF f, Step, step
<1>5. 0 \in P
  <2>1. Range(<<>>) = {}
    BY DEF Range
  <2>2. RankedOf(records, 0, <<>>)
    BY <1>0, <2>1 DEF RankedOf
  <2> QED BY <1>0, <1>3, <2>2
<1>6. ASSUME NEW i \in 1 .. n, i - 1 \in P PROVE i \in P
  <2> DEFINE u == f[i - 1]
             rec == records[i]
             k == Ahead(u, rec)
             v == InsertAt(u, k + 1, rec)
  <2>1. RankedOf(records, i - 1, u) /\ rec \in Record /\ f[i] = Rank(u, rec)
    BY <1>0, <1>3, <1>6
  <2>2. u \in Seq(Record) /\ rec \in Range(records) /\ i \in 0 .. n
    BY <2>1, RangeIs DEF RankedOf
  <2>3. \A j \in 1 .. i : j = i \/ j \in 1 .. (i - 1)
    BY <1>0
  <2>4. CASE ~Forwardable(rec)
    <3>1. f[i] = u
      BY <2>1, <2>4
    <3>2. RankedOf(records, i, u)
      BY <2>1, <2>3, <2>4 DEF RankedOf
    <3> QED BY <2>2, <3>1, <3>2
  <2>5. CASE Forwardable(rec)
    <3>1. f[i] = v
      BY <2>1, <2>5
    <3>2. /\ k \in 0 .. Len(u)
          /\ \A j \in 1 .. k : u[j].mint >= rec.mint
          /\ k < Len(u) => u[k + 1].mint < rec.mint
      BY <2>1, <2>2, AheadIs
    <3>3. /\ v \in Seq(Record) /\ Len(v) = Len(u) + 1
          /\ v[1] = IF k = 0 THEN rec ELSE u[1]
          /\ Range(v) \subseteq Range(u) \cup {rec}
      <4> HIDE DEF u, rec, k
      <4>1. u \in Seq(Record) /\ rec \in Record /\ k \in 0 .. Len(u)
        BY <2>1, <2>2, <3>2
      <4> QED BY ONLY <4>1, InsertAtIs DEF v
    <3>4. Range(v) \subseteq Range(records)
      BY <2>1, <2>2, <3>3 DEF RankedOf
    <3>5. v # <<>>
      BY <2>2, <3>3
    <3>6. MaxMint \in Nat /\ \A r \in Record : r.mint \in Nat
      <4>1. MaxMint \in Nat
        BY NodeAssumption
      <4> QED BY <4>1 DEF Record
    <3> HIDE DEF u, v, k, rec
    <3>7. v[1].mint >= rec.mint
      <4>1. CASE k = 0
        BY <2>1, <3>3, <3>6, <4>1
      <4>2. CASE k # 0
        <5>1. 1 \in 1 .. k
          BY <2>2, <3>2, <4>2
        <5> QED BY <3>2, <3>3, <4>2, <5>1
      <4> QED BY <4>1, <4>2
    <3>8. ASSUME u # <<>> PROVE v[1].mint >= u[1].mint
      <4>0. u[1] \in Record /\ Len(u) > 0 /\ Len(u) \in Nat
        BY <2>2, <3>8
      <4>1. CASE k = 0
        <5>1. u[1].mint < rec.mint
          BY <3>2, <4>0, <4>1
        <5> QED BY <2>1, <3>3, <3>6, <4>0, <4>1, <5>1
      <4>2. CASE k # 0
        BY <3>3, <3>6, <4>0, <4>2
      <4> QED BY <4>1, <4>2
    <3>9. ASSUME NEW j \in 1 .. i, Forwardable(records[j]) PROVE v[1].mint >= records[j].mint
      <4>1. CASE j = i
        BY <3>7, <4>1 DEF rec
      <4>2. CASE j \in 1 .. (i - 1)
        <5>1. u # <<>> /\ u[1].mint >= records[j].mint
          BY <2>1, <3>9, <4>2 DEF RankedOf
        <5>2. u[1] \in Record /\ v[1] \in Record
          BY <2>2, <3>3, <3>5, <5>1
        <5>3. records[j] \in Record
          BY <1>0, <2>3
        <5>4. v[1].mint >= u[1].mint
          BY <3>8, <5>1
        <5>5. v[1].mint \in Nat /\ u[1].mint \in Nat /\ records[j].mint \in Nat
          BY <3>6, <5>2, <5>3
        <5> QED BY <5>1, <5>4, <5>5
      <4> QED BY <2>3, <4>1, <4>2
    <3>10. RankedOf(records, i, v)
      BY <3>3, <3>4, <3>5, <3>9 DEF RankedOf
    <3> QED BY <2>2, <3>1, <3>10
  <2> QED BY <2>4, <2>5
<1>7. n \in P
  <2> HIDE DEF P
  <2>1. \A i \in 0 .. n : i \in P
    BY <1>0, <1>5, <1>6, UpTo
  <2> QED BY <1>0, <2>1
<1> QED BY <1>4, <1>7
\* What the first i of s, without repeats, are.
DistinctOf(S, s, i, u) ==
  /\ u \in Seq(S)
  /\ Range(u) \subseteq Range(s)
  /\ IF i = 0 THEN u = <<>> ELSE u # <<>> /\ u[1] = s[1]

\* Dropping repeats takes no one in and leaves the first in place.
LEMMA DropRepeatsIs ==
  ASSUME NEW S, NEW s \in Seq(S)
  PROVE  DistinctOf(S, s, Len(s), DropRepeats(s))
<1> DEFINE n == Len(s)
           Grow(u, i) == IF i > 1 /\ s[i] = s[i - 1] THEN u ELSE Append(u, s[i])
           Step(f) == [i \in 0 .. n |->
             IF i = 0 THEN <<>>
             ELSE IF i > 1 /\ s[i] = s[i - 1] THEN f[i - 1]
             ELSE Append(f[i - 1], s[i])]
           f == CHOOSE kept : kept = Step(kept)
           step == [i \in 1 .. n |-> [u \in Seq(S) |-> Grow(u, i)]]
           P == {i \in 0 .. n : DistinctOf(S, s, i, f[i])}
<1>0. n \in Nat /\ <<>> \in Seq(S) /\ \A i \in 1 .. n : s[i] \in S
  OBVIOUS
<1>1. \A i \in 1 .. n, u \in Seq(S) : Grow(u, i) \in Seq(S)
  BY <1>0
<1>2. f = Step(f)
  <2>1. step \in StepFunctions(n, Seq(S))
    <3> HIDE DEF Grow
    <3> QED BY <1>1 DEF StepFunctions
  <2>2. \A i \in 1 .. n, u \in Seq(S) : step[i][u] = Grow(u, i)
    <3> HIDE DEF Grow
    <3> QED OBVIOUS
  <2> HIDE DEF step
  <2>3. Solvable(n, Seq(S), <<>>, step)
    BY <1>0, <2>1, RecursionExists
  <2>4. PICK g \in [0 .. n -> Seq(S)] :
          \A i \in 0 .. n : g[i] = IF i = 0 THEN <<>> ELSE step[i][g[i - 1]]
    BY <2>3 DEF Solvable
  <2>5. \A i \in 0 .. n : g[i] = IF i = 0 THEN <<>> ELSE Grow(g[i - 1], i)
    <3> HIDE DEF Grow
    <3> SUFFICES ASSUME NEW i \in 0 .. n, i # 0 PROVE g[i] = Grow(g[i - 1], i)
      BY <2>4
    <3>1. i \in 1 .. n /\ i - 1 \in 0 .. n
      BY <1>0
    <3>2. g[i - 1] \in Seq(S)
      BY <3>1
    <3> QED BY <2>2, <2>4, <3>1, <3>2
  <2>6. g = Step(g)
    BY <2>5
  <2> HIDE DEF Step
  <2> QED BY <2>6
<1>3. /\ f[0] = <<>>
      /\ \A i \in 1 .. n : f[i] = Grow(f[i - 1], i)
  <2>1. \A i \in 0 .. n : f[i] = Step(f)[i]
    <3> HIDE DEF f, Step
    <3> QED BY <1>2
  <2>2. 0 \in 0 .. n /\ \A i \in 1 .. n : i \in 0 .. n /\ i # 0
    BY <1>0
  <2> HIDE DEF f
  <2> QED BY <2>1, <2>2
<1>4. DropRepeats(s) = f[n]
  BY DEF DropRepeats
<1> HIDE DEF f, Step, step
<1>5. 0 \in P
  <2>1. Range(<<>>) = {}
    BY DEF Range
  <2>2. DistinctOf(S, s, 0, <<>>)
    BY <1>0, <2>1 DEF DistinctOf
  <2> QED BY <1>0, <1>3, <2>2
<1>6. ASSUME NEW i \in 1 .. n, i - 1 \in P PROVE i \in P
  <2> DEFINE u == f[i - 1]
  <2>1. DistinctOf(S, s, i - 1, u) /\ f[i] = Grow(u, i) /\ i \in 0 .. n /\ i # 0
    BY <1>0, <1>3, <1>6
  <2>2. u \in Seq(S) /\ Range(u) \subseteq Range(s) /\ s[i] \in S /\ s[i] \in Range(s)
    BY <1>0, <2>1, RangeIs DEF DistinctOf
  <2> HIDE DEF u
  <2>3. CASE i > 1 /\ s[i] = s[i - 1]
    <3>1. f[i] = u /\ i - 1 # 0
      BY <2>1, <2>3
    <3>2. DistinctOf(S, s, i, u)
      BY <2>1, <3>1 DEF DistinctOf
    <3> QED BY <2>1, <3>1, <3>2
  <2>4. CASE ~(i > 1 /\ s[i] = s[i - 1])
    <3>1. f[i] = Append(u, s[i])
      BY <2>1, <2>4
    <3>2. /\ Append(u, s[i]) \in Seq(S)
          /\ Range(Append(u, s[i])) \subseteq Range(s)
          /\ Append(u, s[i]) # <<>>
      BY <2>2, OnceAppend
    <3>3. Append(u, s[i])[1] = s[1]
      <4>1. CASE i = 1
        <5>1. u = <<>>
          BY <2>1, <4>1 DEF DistinctOf
        <5> QED BY <4>1, <5>1
      <4>2. CASE i # 1
        <5>1. u # <<>> /\ u[1] = s[1]
          BY <2>1, <4>2 DEF DistinctOf
        <5> QED BY <2>2, <5>1
      <4> QED BY <4>1, <4>2
    <3>4. DistinctOf(S, s, i, Append(u, s[i]))
      BY <2>1, <3>2, <3>3 DEF DistinctOf
    <3> QED BY <2>1, <3>1, <3>4
  <2> QED BY <2>3, <2>4
<1>7. n \in P
  <2> HIDE DEF P
  <2>1. \A i \in 0 .. n : i \in P
    BY <1>0, <1>5, <1>6, UpTo
  <2> QED BY <1>0, <2>1
<1> QED BY <1>4, <1>7

\* The candidates for a hop are peers whose records were found, and the first
\* of them is the peer of one that is as new as any other which can be used.
LEMMA CandidatesAre ==
  ASSUME NEW records \in Seq(Record)
  PROVE  /\ Candidates(records) \in Seq(Peers)
         /\ \A i \in 1 .. Len(Candidates(records)) :
              \E rec \in Range(records) : rec.peer = Candidates(records)[i]
         /\ Candidates(records) # <<>> =>
              \E rec \in Range(records) :
                 /\ rec.peer = Candidates(records)[1]
                 /\ \A other \in Range(records) : Forwardable(other) => rec.mint >= other.mint
<1> DEFINE ranked == FreshestFirst(records)
           peers == [i \in DOMAIN ranked |-> ranked[i].peer]
           taken == Take(peers, MaxCandidates)
           d == DropRepeats(taken)
           m == IF Len(peers) < MaxCandidates THEN Len(peers) ELSE MaxCandidates
<1>1. RankedOf(records, Len(records), ranked)
  BY FreshestFirstIs
<1> HIDE DEF ranked
<1>2. ranked \in Seq(Record) /\ Range(ranked) \subseteq Range(records)
  BY <1>1 DEF RankedOf
<1>3. \A rec \in Record : rec.peer \in Peers
  BY DEF Record
<1>4. /\ peers \in Seq(Peers) /\ Len(peers) = Len(ranked) /\ Len(ranked) \in Nat
      /\ \A i \in 1 .. Len(ranked) : peers[i] = ranked[i].peer
  BY <1>2, <1>3
<1>5. Range(ranked) = {ranked[i] : i \in 1 .. Len(ranked)}
  BY <1>2, RangeIs
<1> HIDE DEF peers
<1>6. m \in 0 .. Len(peers) /\ m <= MaxCandidates /\ (Len(peers) # 0 => m # 0)
  BY <1>4, RouteAssumption
<1>7. taken = SubSeq(peers, 1, m)
  BY DEF Take
<1> HIDE DEF m, taken
<1>8. /\ taken \in Seq(Peers) /\ Len(taken) = m
      /\ \A i \in 1 .. m : taken[i] = peers[i] /\ i \in 1 .. Len(ranked)
  BY <1>4, <1>6, <1>7
<1>9. DistinctOf(Peers, taken, m, d)
  BY <1>8, DropRepeatsIs
<1>10. Candidates(records) = d
  BY DEF Candidates, ranked, peers, taken
<1> HIDE DEF d
<1>11. d \in Seq(Peers) /\ Range(d) \subseteq Range(taken)
  BY <1>9 DEF DistinctOf
<1>12. Range(taken) = {taken[i] : i \in 1 .. m} /\ Range(d) = {d[i] : i \in 1 .. Len(d)}
  BY <1>8, <1>11, RangeIs
<1>13. ASSUME NEW i \in 1 .. Len(d)
       PROVE  \E rec \in Range(records) : rec.peer = d[i]
  <2>1. PICK j \in 1 .. m : d[i] = taken[j]
    BY <1>11, <1>12
  <2>2. d[i] = ranked[j].peer /\ ranked[j] \in Range(ranked)
    BY <1>4, <1>5, <1>8, <2>1
  <2> QED BY <1>2, <2>2
<1>14. ASSUME d # <<>>
       PROVE  \E rec \in Range(records) :
                 /\ rec.peer = d[1]
                 /\ \A other \in Range(records) : Forwardable(other) => rec.mint >= other.mint
  <2>1. m # 0 /\ d[1] = taken[1]
    BY <1>9, <1>14 DEF DistinctOf
  <2>2. 1 \in 1 .. m
    BY <1>4, <1>6, <2>1
  <2>3. d[1] = ranked[1].peer /\ ranked[1] \in Range(records)
    BY <1>2, <1>4, <1>5, <1>8, <2>1, <2>2
  <2>4. Range(records) = {records[j] : j \in 1 .. Len(records)}
    BY RangeIs
  <2>5. \A other \in Range(records) : Forwardable(other) => ranked[1].mint >= other.mint
    BY <1>1, <2>4 DEF RankedOf
  <2> QED BY <2>3, <2>5
<1> QED BY <1>10, <1>11, <1>13, <1>14
-----------------------------------------------------------------------------
(* The node: its queues and its calls.                                        *)

Calls == [op : Ops \cup {"none"}, key : Keys \cup {None},
          state : {"idle", "called", "ok", "error"}, reply : Seq(Record)]

\* A reply ends the wait of its call and touches nothing else.
LEMMA ReplyEffect ==
  ASSUME call \in [Tasks -> Calls], NEW t \in Tasks, NEW s \in {"ok", "error"}, Reply(t, s)
  PROVE  /\ call' \in [Tasks -> Calls]
         /\ \A u \in Tasks :
              /\ call'[u].op = call[u].op /\ call'[u].key = call[u].key
              /\ call'[u].reply = call[u].reply
              /\ call'[u].state = "called" <=> call[u].state = "called" /\ u # t
<1> DEFINE c == [call[t] EXCEPT !.state = s]
<1>1. call' = [call EXCEPT ![t] = c]
  BY DEF Reply
<1>2. /\ c \in Calls /\ c.op = call[t].op /\ c.key = call[t].key
      /\ c.reply = call[t].reply /\ c.state # "called"
  BY DEF Calls
<1> HIDE DEF c
<1> QED BY <1>1, <1>2

\* Every call is in one place, and there once; a peer that was identified is
\* kept only while nobody is in line; records go under their keys.
Queues ==
  /\ cmds \in Seq(Tasks \cup {"shutdown"}) /\ Len(cmds) <= QueueCap
  /\ id_waiters \in Seq(Tasks) /\ waiters \subseteq Tasks
  /\ call \in [Tasks -> Calls]
  /\ \A t \in Tasks : call[t].state = "called" <=>
       t \in Range(cmds) \/ t \in waiters \/ t \in Range(id_waiters)
  /\ waiters \cap (Range(cmds) \cup Range(id_waiters)) = {}
  /\ Range(cmds) \cap Range(id_waiters) = {}
  /\ Once(cmds) /\ Once(id_waiters)
  /\ pending_id > 0 => id_waiters = <<>>
  /\ \A t \in Tasks : call[t].op \in {"get", "put"} => call[t].key \in Keys

Stores ==
  /\ up \in BOOLEAN
  /\ pending_id \in Nat /\ idents \in 0 .. MaxIdent /\ pending_id <= idents
  /\ buffers \in [Tasks -> Seq(Record)] /\ asked \in [Tasks -> SUBSET Nodes]
  /\ store \in [Nodes -> [Keys -> Record]] /\ minted \in 0 .. MaxMint

LEMMA NodeInvImplies ==
  Queues /\ Stores => NodeTypeOK /\ CallsServed
BY NodeAssumption DEF Queues, Stores, NodeTypeOK, CallsServed, Waits, Calls

\* A task's call joins the channel, or fails at once.
LEMMA SendKeeps ==
  ASSUME Queues, Stores, NEW t \in Tasks, NEW op \in Ops, NEW key \in Keys \cup {None},
         op \in {"get", "put"} => key \in Keys,
         Send(t, op, key), UNCHANGED <<store, minted, idents>>
  PROVE  /\ Queues' /\ Stores'
         /\ \A u \in Tasks \ {t} : call'[u] = call[u]
         /\ call'[t].op = op /\ call'[t].key = key /\ call'[t].reply = <<>>
         /\ UNCHANGED <<waiters, buffers>>
<1> DEFINE failed == [Call(op, key) EXCEPT !.state = "error"]
<1>1. /\ Call(op, key) \in Calls
      /\ Call(op, key).op = op /\ Call(op, key).key = key /\ Call(op, key).reply = <<>>
      /\ Call(op, key).state = "called"
  BY DEF Call, Calls
<1>2. /\ failed \in Calls /\ failed.state # "called"
      /\ failed.op = op /\ failed.key = key /\ failed.reply = <<>>
  <2> DEFINE c == Call(op, key)
  <2>1. c \in Calls /\ c.op = op /\ c.key = key /\ c.reply = <<>>
    BY <1>1
  <2> HIDE DEF c
  <2>2. c = [op |-> c.op, key |-> c.key, state |-> c.state, reply |-> c.reply]
    BY <2>1 DEF Calls
  <2>3. [c EXCEPT !.state = "error"] =
          [op |-> c.op, key |-> c.key, state |-> "error", reply |-> c.reply]
    BY <2>2
  <2> QED BY <2>1, <2>3 DEF Calls, c
<1> HIDE DEF failed
<1>3. /\ call[t].state # "called"
      /\ UNCHANGED <<up, pending_id, id_waiters, waiters, buffers, asked>>
  BY DEF Send, Waits
<1>4. Stores'
  BY <1>3 DEF Stores
<1>5. t \notin Range(cmds) /\ t \notin waiters /\ t \notin Range(id_waiters)
  BY <1>3 DEF Queues
<1>6. CASE up
  <2>1. /\ Len(cmds) < QueueCap /\ cmds' = Append(cmds, t)
        /\ call' = [call EXCEPT ![t] = Call(op, key)]
    BY <1>6 DEF Send
  <2>2. cmds \in Seq(Tasks \cup {"shutdown"}) /\ t \in Tasks \cup {"shutdown"}
    BY DEF Queues
  <2>3. /\ cmds' \in Seq(Tasks \cup {"shutdown"}) /\ Len(cmds') = Len(cmds) + 1
        /\ Range(cmds') = Range(cmds) \cup {t}
        /\ Once(cmds) /\ t \notin Range(cmds) => Once(cmds')
    BY <2>1, <2>2, OnceAppend
  <2>4. Len(cmds') <= QueueCap
    BY <2>1, <2>2, <2>3, NodeAssumption
  <2>5. /\ call' \in [Tasks -> Calls] /\ call'[t] = Call(op, key)
        /\ \A u \in Tasks \ {t} : call'[u] = call[u]
    BY <1>1, <2>1 DEF Queues
  <2>6. Queues'
    <3> DEFINE c == Call(op, key)
    <3>1. c.state = "called" /\ c.op = op /\ c.key = key /\ call'[t] = c
      BY <1>1, <2>5
    <3> HIDE DEF c
    <3>2. \A u \in Tasks : call'[u].state = "called" <=>
            u \in Range(cmds') \/ u \in waiters' \/ u \in Range(id_waiters')
      <4>1. \A u \in Tasks : call[u].state = "called" <=>
              u \in Range(cmds) \/ u \in waiters \/ u \in Range(id_waiters)
        BY DEF Queues
      <4>2. Range(id_waiters') = Range(id_waiters) /\ waiters' = waiters
        BY <1>3
      <4> QED BY <2>3, <2>5, <3>1, <4>1, <4>2
    <3>3. \A u \in Tasks : call'[u].op \in {"get", "put"} => call'[u].key \in Keys
      BY <2>5, <3>1 DEF Queues
    <3> QED BY <1>3, <1>5, <2>3, <2>4, <2>5, <3>2, <3>3 DEF Queues
  <2> QED BY <1>1, <1>3, <1>4, <2>5, <2>6
<1>7. CASE ~up
  <2>1. call' = [call EXCEPT ![t] = failed] /\ cmds' = cmds
    BY <1>7 DEF Send, failed
  <2>2. /\ call' \in [Tasks -> Calls] /\ call'[t] = failed
        /\ \A u \in Tasks \ {t} : call'[u] = call[u]
    BY <1>2, <2>1 DEF Queues
  <2>3. Queues'
    BY <1>2, <1>3, <1>5, <2>1, <2>2 DEF Queues
  <2> QED BY <1>2, <1>3, <1>4, <2>2, <2>3
<1> QED BY <1>6, <1>7
\* What a step of the swarm task may do to the calls: end some, with the records
\* found under their key, and note another record of a node for an open lookup.
NodeEffect ==
  /\ \A t \in Tasks :
       /\ call'[t].op = call[t].op /\ call'[t].key = call[t].key
       /\ call'[t].state = "called" => call[t].state = "called"
       /\ \/ call'[t].reply = call[t].reply
          \/ t \in waiters /\ call[t].op = "get" /\ call'[t].reply = buffers[t]
  /\ \A t \in waiters' :
       \/ buffers'[t] = <<>>
       \/ t \in waiters /\ buffers'[t] = buffers[t]
       \/ /\ t \in waiters /\ call[t].op = "get"
          /\ \E n \in Nodes : buffers'[t] = Append(buffers[t], store[n][call[t].key])

LEMMA ReturnKeeps ==
  ASSUME Queues, Stores, Return, UNCHANGED <<store, minted, idents>>
  PROVE  Queues' /\ Stores' /\ NodeEffect
<1> DEFINE c(t) == IF Waits(t) THEN [call[t] EXCEPT !.state = "error"] ELSE call[t]
<1>1. ASSUME NEW t \in Tasks
      PROVE  /\ c(t) \in Calls /\ c(t).op = call[t].op /\ c(t).key = call[t].key
             /\ c(t).reply = call[t].reply /\ c(t).state # "called"
  <2> DEFINE d == call[t]
  <2>1. d \in Calls
    BY DEF Queues
  <2> HIDE DEF d
  <2>2. d = [op |-> d.op, key |-> d.key, state |-> d.state, reply |-> d.reply]
    BY <2>1 DEF Calls
  <2>3. [d EXCEPT !.state = "error"] =
          [op |-> d.op, key |-> d.key, state |-> "error", reply |-> d.reply]
    BY <2>2
  <2>4. /\ [d EXCEPT !.state = "error"] \in Calls
        /\ [d EXCEPT !.state = "error"].op = d.op /\ [d EXCEPT !.state = "error"].key = d.key
        /\ [d EXCEPT !.state = "error"].reply = d.reply
        /\ [d EXCEPT !.state = "error"].state # "called"
    BY <2>1, <2>3 DEF Calls
  <2> QED BY <2>1, <2>4 DEF d, Waits
<1>2. call' = [t \in Tasks |-> c(t)]
  BY DEF Return
<1> HIDE DEF c
<1>3. /\ up' = FALSE /\ cmds' = <<>> /\ id_waiters' = <<>> /\ waiters' = {}
      /\ UNCHANGED <<pending_id, buffers, asked>>
  BY DEF Return
<1>4. Stores'
  BY <1>3 DEF Stores
<1>5. /\ call' \in [Tasks -> Calls]
      /\ \A t \in Tasks :
           /\ call'[t].op = call[t].op /\ call'[t].key = call[t].key
           /\ call'[t].reply = call[t].reply /\ call'[t].state # "called"
  BY <1>1, <1>2
<1>6. Range(<<>>) = {} /\ Len(<<>>) = 0 /\ Once(<<>>)
  BY DEF Range, Once
<1>7. Queues'
  BY <1>3, <1>5, <1>6, NodeAssumption DEF Queues
<1> QED BY <1>3, <1>4, <1>5, <1>7 DEF NodeEffect

\* The head of the channel is a call that waits, and leaves it.
LEMMA HeadLeaves ==
  ASSUME Queues, cmds # <<>>, Head(cmds) # "shutdown", cmds' = Tail(cmds)
  PROVE  /\ Head(cmds) \in Tasks /\ call[Head(cmds)].state = "called"
         /\ cmds' \in Seq(Tasks \cup {"shutdown"}) /\ Len(cmds') <= QueueCap
         /\ Once(cmds') /\ Head(cmds) \notin Range(cmds')
         /\ Range(cmds) = Range(cmds') \cup {Head(cmds)}
<1>1. cmds \in Seq(Tasks \cup {"shutdown"}) /\ Len(cmds) <= QueueCap /\ Once(cmds)
  BY DEF Queues
<1>2. /\ Head(cmds) \in Tasks \cup {"shutdown"}
      /\ cmds' \in Seq(Tasks \cup {"shutdown"}) /\ Len(cmds') = Len(cmds) - 1
      /\ Range(cmds) = Range(cmds') \cup {Head(cmds)}
      /\ Once(cmds') /\ Head(cmds) \notin Range(cmds')
  BY <1>1, OnceTail
<1>3. Head(cmds) \in Tasks /\ Head(cmds) \in Range(cmds)
  BY <1>2
<1>4. Len(cmds') <= QueueCap
  BY <1>1, <1>2, NodeAssumption
<1> QED BY <1>2, <1>3, <1>4 DEF Queues

LEMMA TakeIdentifiedKeeps ==
  ASSUME Queues, Stores, cmds # <<>>, Head(cmds) # "shutdown", cmds' = Tail(cmds),
         TakeIdentified(Head(cmds)), UNCHANGED <<up, store, minted, idents>>
  PROVE  Queues' /\ Stores' /\ NodeEffect
<1> DEFINE t == Head(cmds)
<1>1. /\ t \in Tasks /\ call[t].state = "called"
      /\ cmds' \in Seq(Tasks \cup {"shutdown"}) /\ Len(cmds') <= QueueCap
      /\ Once(cmds') /\ t \notin Range(cmds')
      /\ Range(cmds) = Range(cmds') \cup {t}
  BY HeadLeaves
<1>2. t \notin waiters /\ t \notin Range(id_waiters)
  BY <1>1 DEF Queues
<1>3. UNCHANGED <<waiters, buffers, asked>>
  BY DEF TakeIdentified
<1>4. CASE pending_id > 0
  <2>1. pending_id' = pending_id - 1 /\ Reply(t, "ok") /\ id_waiters' = id_waiters
    BY <1>4 DEF TakeIdentified
  <2> HIDE DEF t
  <2>2. pending_id' \in Nat /\ pending_id' <= idents' /\ id_waiters' = <<>>
    BY <1>4, <2>1 DEF Stores, Queues
  <2>3. Stores'
    BY <1>3, <2>2 DEF Stores
  <2>4. /\ call' \in [Tasks -> Calls]
        /\ \A u \in Tasks :
              /\ call'[u].op = call[u].op /\ call'[u].key = call[u].key
              /\ call'[u].reply = call[u].reply
              /\ call'[u].state = "called" <=> call[u].state = "called" /\ u # t
    BY <1>1, <2>1, ReplyEffect DEF Queues
  <2>5. Queues'
    BY <1>1, <1>2, <1>3, <2>1, <2>2, <2>4 DEF Queues
  <2> QED BY <1>3, <2>3, <2>4, <2>5 DEF NodeEffect
<1>5. CASE ~(pending_id > 0)
  <2>1. id_waiters' = Append(id_waiters, t) /\ UNCHANGED <<pending_id, call>>
    BY <1>5 DEF TakeIdentified
  <2> HIDE DEF t
  <2>2. Stores'
    BY <1>3, <2>1 DEF Stores
  <2>3. id_waiters \in Seq(Tasks) /\ Once(id_waiters)
    BY DEF Queues
  <2>4. /\ id_waiters' \in Seq(Tasks) /\ Range(id_waiters') = Range(id_waiters) \cup {t}
        /\ Once(id_waiters')
    BY <1>1, <1>2, <2>1, <2>3, OnceAppend
  <2>5. Queues'
    BY <1>1, <1>2, <1>3, <1>5, <2>1, <2>4 DEF Queues
  <2> QED BY <1>3, <2>1, <2>2, <2>5 DEF NodeEffect
<1> QED BY <1>4, <1>5

LEMMA StartQueryKeeps ==
  ASSUME Queues, Stores, cmds # <<>>, Head(cmds) # "shutdown", cmds' = Tail(cmds),
         StartQuery(Head(cmds)), UNCHANGED <<up, store, minted, idents>>
  PROVE  Queues' /\ Stores' /\ NodeEffect
<1> DEFINE t == Head(cmds)
<1>1. /\ t \in Tasks /\ call[t].state = "called"
      /\ cmds' \in Seq(Tasks \cup {"shutdown"}) /\ Len(cmds') <= QueueCap
      /\ Once(cmds') /\ t \notin Range(cmds')
      /\ Range(cmds) = Range(cmds') \cup {t}
  BY HeadLeaves
<1>2. t \notin waiters /\ t \notin Range(id_waiters)
  BY <1>1 DEF Queues
<1>3. UNCHANGED <<pending_id, id_waiters>>
  BY DEF StartQuery
<1>4. CASE /\ waiters' = waiters \cup {t}
           /\ buffers' = [buffers EXCEPT ![t] = <<>>]
           /\ asked' = [asked EXCEPT ![t] = {}]
           /\ UNCHANGED call
  <2> HIDE DEF t
  <2>1. Stores'
    <3>0. <<>> \in Seq(Record) /\ buffers \in [Tasks -> Seq(Record)]
      BY DEF Stores
    <3>1. buffers' \in [Tasks -> Seq(Record)]
      BY <1>4, <3>0, Zenon
    <3>2. asked' \in [Tasks -> SUBSET Nodes]
      BY <1>4 DEF Stores
    <3> QED BY <1>3, <3>1, <3>2 DEF Stores
  <2>2. Queues'
    BY <1>1, <1>2, <1>3, <1>4 DEF Queues
  <2>3. ASSUME NEW u \in waiters'
        PROVE  \/ buffers'[u] = <<>>
               \/ u \in waiters /\ buffers'[u] = buffers[u]
    <3>1. u = t \/ (u \in waiters /\ u # t)
      BY <1>4
    <3>2. u \in Tasks
      BY <1>1, <3>1 DEF Queues
    <3> QED BY <1>4, <3>1, <3>2 DEF Stores
  <2> QED BY <1>4, <2>1, <2>2, <2>3 DEF NodeEffect
<1>5. CASE Reply(t, "error") /\ UNCHANGED <<waiters, buffers, asked>>
  <2> HIDE DEF t
  <2>1. Stores'
    BY <1>3, <1>5 DEF Stores
  <2>2. /\ call' \in [Tasks -> Calls]
        /\ \A u \in Tasks :
              /\ call'[u].op = call[u].op /\ call'[u].key = call[u].key
              /\ call'[u].reply = call[u].reply
              /\ call'[u].state = "called" <=> call[u].state = "called" /\ u # t
    BY <1>1, <1>5, ReplyEffect DEF Queues
  <2>3. Queues'
    BY <1>1, <1>2, <1>3, <1>5, <2>2 DEF Queues
  <2> QED BY <1>5, <2>1, <2>2, <2>3 DEF NodeEffect
<1> QED BY <1>4, <1>5 DEF StartQuery
LEMMA IdentifiedKeeps ==
  ASSUME Queues, Stores, Identified
  PROVE  Queues' /\ Stores' /\ NodeEffect
<1>1. /\ idents < MaxIdent /\ idents' = idents + 1
      /\ UNCHANGED <<up, cmds, waiters, buffers, asked, store, minted>>
  BY DEF Identified
<1>2. idents \in Nat /\ idents' \in 0 .. MaxIdent
  BY <1>1, NodeAssumption DEF Stores
<1>3. CASE id_waiters # <<>>
  <2> DEFINE t == Head(id_waiters)
  <2>1. Reply(t, "ok") /\ id_waiters' = Tail(id_waiters) /\ pending_id' = pending_id
    BY <1>3 DEF Identified
  <2>2. id_waiters \in Seq(Tasks) /\ Once(id_waiters)
    BY DEF Queues
  <2>3. /\ t \in Tasks /\ id_waiters' \in Seq(Tasks) /\ Once(id_waiters')
        /\ Range(id_waiters) = Range(id_waiters') \cup {t} /\ t \notin Range(id_waiters')
    BY <1>3, <2>1, <2>2, OnceTail
  <2> HIDE DEF t
  <2>4. t \in Range(id_waiters) /\ t \notin Range(cmds) /\ t \notin waiters
    BY <2>3 DEF Queues
  <2>5. ~(pending_id > 0)
    BY <1>3 DEF Queues
  <2>6. Stores'
    BY <1>1, <1>2, <2>1 DEF Stores
  <2>7. /\ call' \in [Tasks -> Calls]
        /\ \A u \in Tasks :
              /\ call'[u].op = call[u].op /\ call'[u].key = call[u].key
              /\ call'[u].reply = call[u].reply
              /\ call'[u].state = "called" <=> call[u].state = "called" /\ u # t
    BY <2>1, <2>3, ReplyEffect DEF Queues
  <2>8. Queues'
    BY <1>1, <2>1, <2>3, <2>4, <2>5, <2>7 DEF Queues
  <2> QED BY <1>1, <2>6, <2>7, <2>8 DEF NodeEffect
<1>4. CASE id_waiters = <<>>
  <2>1. pending_id' = pending_id + 1 /\ UNCHANGED <<id_waiters, call>>
    BY <1>4 DEF Identified
  <2>2. Stores'
    BY <1>1, <1>2, <2>1 DEF Stores
  <2>3. Queues'
    BY <1>1, <1>4, <2>1 DEF Queues
  <2> QED BY <1>1, <2>1, <2>2, <2>3 DEF NodeEffect
<1> QED BY <1>3, <1>4

\* A query that is over is no longer open, and its call no longer waits.
LEMMA QueryOverKeeps ==
  ASSUME Queues, NEW t \in Tasks, t \in waiters,
         waiters' = waiters \ {t}, UNCHANGED <<cmds, pending_id, id_waiters>>,
         call' \in [Tasks -> Calls],
         \A u \in Tasks :
              /\ call'[u].op = call[u].op /\ call'[u].key = call[u].key
              /\ call'[u].state = "called" <=> call[u].state = "called" /\ u # t
  PROVE  Queues'
<1>1. t \notin Range(cmds) /\ t \notin Range(id_waiters)
  BY DEF Queues
<1> QED BY <1>1 DEF Queues

\* A record that is published is one of a peer, not minted before.
LEMMA PublishedType ==
  ASSUME Stores, NEW p \in Peers, NEW k, NEW reached, Published(p, k, reached)
  PROVE  store' \in [Nodes -> [Keys -> Record]] /\ minted' \in 0 .. MaxMint
<1> DEFINE rec == [peer |-> p, mint |-> minted + 1]
<1>1. minted \in 0 .. MaxMint /\ minted < MaxMint /\ minted' = minted + 1
  BY DEF Published, Stores
<1>2. minted' \in 0 .. MaxMint /\ rec \in Record
  BY <1>1, NodeAssumption DEF Record
<1>3. store' = [n \in Nodes |-> IF n \in reached
                  THEN [store[n] EXCEPT ![k] = rec] ELSE store[n]]
  BY DEF Published
<1> HIDE DEF rec
<1>4. \A n \in Nodes : store[n] \in [Keys -> Record] /\ [store[n] EXCEPT ![k] = rec] \in [Keys -> Record]
  BY <1>2 DEF Stores
<1> QED BY <1>2, <1>3, <1>4

LEMMA PutEndsKeeps ==
  ASSUME Queues, Stores, NEW t \in Tasks, PutEnds(t)
  PROVE  Queues' /\ Stores' /\ NodeEffect
<1>1. /\ t \in waiters /\ waiters' = waiters \ {t}
      /\ UNCHANGED <<up, cmds, pending_id, id_waiters, buffers, asked, idents>>
  BY DEF PutEnds, QueryOpen, QueryOver
<1>2. PICK s \in {"ok", "error"} : Reply(t, s)
  BY DEF PutEnds
<1>3. /\ call' \in [Tasks -> Calls]
      /\ \A u \in Tasks :
            /\ call'[u].op = call[u].op /\ call'[u].key = call[u].key
            /\ call'[u].reply = call[u].reply
            /\ call'[u].state = "called" <=> call[u].state = "called" /\ u # t
  BY <1>2, ReplyEffect DEF Queues
<1>4. Queues'
  BY <1>1, <1>3, QueryOverKeeps
<1>5. store' \in [Nodes -> [Keys -> Record]] /\ minted' \in 0 .. MaxMint
  <2>1. Me \in Peers
    BY DEF Peers
  <2>2. CASE UNCHANGED <<store, minted>>
    BY <2>2 DEF Stores
  <2>3. CASE \E reached \in (SUBSET Nodes) \ {{}} : Published(Me, call[t].key, reached)
    BY <2>1, <2>3, PublishedType
  <2> QED BY <2>2, <2>3 DEF PutEnds
<1>6. Stores'
  BY <1>1, <1>5 DEF Stores
<1> QED BY <1>1, <1>3, <1>4, <1>6 DEF NodeEffect

LEMMA BootstrapEndsKeeps ==
  ASSUME Queues, Stores, NEW t \in Tasks, BootstrapEnds(t)
  PROVE  Queues' /\ Stores' /\ NodeEffect
<1>1. /\ t \in waiters /\ waiters' = waiters \ {t}
      /\ UNCHANGED <<up, cmds, pending_id, id_waiters, buffers, asked, idents, store, minted>>
  BY DEF BootstrapEnds, QueryOpen, QueryOver
<1>2. PICK s \in {"ok", "error"} : Reply(t, s)
  BY DEF BootstrapEnds
<1>3. /\ call' \in [Tasks -> Calls]
      /\ \A u \in Tasks :
            /\ call'[u].op = call[u].op /\ call'[u].key = call[u].key
            /\ call'[u].reply = call[u].reply
            /\ call'[u].state = "called" <=> call[u].state = "called" /\ u # t
  BY <1>2, ReplyEffect DEF Queues
<1>4. Queues'
  BY <1>1, <1>3, QueryOverKeeps
<1>5. Stores'
  BY <1>1 DEF Stores
<1> QED BY <1>1, <1>3, <1>4, <1>5 DEF NodeEffect

LEMMA LookupEndsKeeps ==
  ASSUME Queues, Stores, NEW t \in Tasks, LookupEnds(t)
  PROVE  Queues' /\ Stores' /\ NodeEffect
<1> DEFINE d == call[t]
           s == IF buffers[t] = <<>> THEN "error" ELSE "ok"
           c == [op |-> d.op, key |-> d.key, state |-> s, reply |-> buffers[t]]
<1>1. /\ t \in waiters /\ waiters' = waiters \ {t} /\ call[t].op = "get"
      /\ buffers' = [buffers EXCEPT ![t] = <<>>] /\ asked' = [asked EXCEPT ![t] = {}]
      /\ UNCHANGED <<up, cmds, pending_id, id_waiters, idents, store, minted>>
  BY DEF LookupEnds, QueryOpen
<1>2. d \in Calls /\ buffers[t] \in Seq(Record) /\ s \in {"ok", "error"}
  BY DEF Queues, Stores
<1>3. call' = [call EXCEPT ![t] = c]
  <2>1. call' = [call EXCEPT ![t].reply = buffers[t], ![t].state = s]
    BY DEF LookupEnds
  <2>2. call' = [call EXCEPT ![t] = [[d EXCEPT !.reply = buffers[t]] EXCEPT !.state = s]]
    <3> HIDE DEF s
    <3> QED BY <2>1 DEF Queues
  <2>3. [[d EXCEPT !.reply = buffers[t]] EXCEPT !.state = s] = c
    <3> HIDE DEF d, s
    <3>1. d = [op |-> d.op, key |-> d.key, state |-> d.state, reply |-> d.reply]
      BY <1>2 DEF Calls
    <3>2. [d EXCEPT !.reply = buffers[t]] =
            [op |-> d.op, key |-> d.key, state |-> d.state, reply |-> buffers[t]]
      BY <3>1
    <3>3. [[op |-> d.op, key |-> d.key, state |-> d.state, reply |-> buffers[t]]
             EXCEPT !.state = s] = c
      OBVIOUS
    <3> QED BY <3>2, <3>3, Zenon
  <2> HIDE DEF c, d, s
  <2> QED BY <2>2, <2>3
<1>4. /\ c \in Calls /\ c.op = d.op /\ c.key = d.key /\ c.reply = buffers[t]
      /\ c.state # "called"
  BY <1>2 DEF Calls
<1> HIDE DEF c, s
<1>5. /\ call' \in [Tasks -> Calls]
      /\ \A u \in Tasks :
            /\ call'[u].op = call[u].op /\ call'[u].key = call[u].key
            /\ call'[u].reply = IF u = t THEN buffers[t] ELSE call[u].reply
            /\ call'[u].state = "called" <=> call[u].state = "called" /\ u # t
  BY <1>3, <1>4 DEF Queues
<1> HIDE DEF d
<1>6. Queues'
  BY <1>1, <1>5, QueryOverKeeps
<1>7. Stores'
  <2>1. <<>> \in Seq(Record) /\ buffers \in [Tasks -> Seq(Record)]
    BY DEF Stores
  <2>2. buffers' \in [Tasks -> Seq(Record)]
    BY <1>1, <2>1, Zenon
  <2>3. asked' \in [Tasks -> SUBSET Nodes]
    BY <1>1 DEF Stores
  <2> QED BY <1>1, <2>2, <2>3 DEF Stores
<1>8. \A u \in waiters' : u \in waiters /\ u \in Tasks /\ buffers'[u] = buffers[u]
  BY <1>1 DEF Queues, Stores
<1> QED BY <1>1, <1>5, <1>6, <1>7, <1>8 DEF NodeEffect

LEMMA FoundRecordKeeps ==
  ASSUME Queues, Stores, NEW t \in Tasks, NEW n \in Nodes, FoundRecord(t, n)
  PROVE  Queues' /\ Stores' /\ NodeEffect
<1> DEFINE u == Append(buffers[t], store[n][call[t].key])
<1>1. /\ t \in waiters /\ call[t].op = "get"
      /\ asked' = [asked EXCEPT ![t] = @ \cup {n}]
      /\ buffers' = [buffers EXCEPT ![t] = u]
      /\ UNCHANGED <<up, cmds, pending_id, id_waiters, waiters, call, store, minted, idents>>
  BY DEF FoundRecord, QueryOpen
<1>2. u \in Seq(Record)
  <2>1. call[t].key \in Keys
    BY <1>1 DEF Queues
  <2>2. store[n][call[t].key] \in Record /\ buffers[t] \in Seq(Record)
    BY <2>1 DEF Stores
  <2> QED BY <2>2
<1> HIDE DEF u
<1>3. Stores'
  <2>1. buffers' \in [Tasks -> Seq(Record)] /\ asked' \in [Tasks -> SUBSET Nodes]
    BY <1>1, <1>2 DEF Stores
  <2> QED BY <1>1, <2>1 DEF Stores
<1>4. Queues'
  BY <1>1 DEF Queues
<1>5. \A v \in waiters' : v \in waiters /\ (v # t => buffers'[v] = buffers[v])
  BY <1>1 DEF Queues, Stores
<1>6. buffers'[t] = u
  BY <1>1 DEF Stores
<1>7. NodeEffect
  BY <1>1, <1>5, <1>6 DEF NodeEffect, u
<1> QED BY <1>3, <1>4, <1>7

\* Every step of the swarm task, and of the rest of the DHT.
LEMMA SwarmStepKeeps ==
  ASSUME Queues, Stores, SwarmStep
  PROVE  Queues' /\ Stores' /\ NodeEffect
<1>1. CASE SendShutdown
  <2>1. /\ Len(cmds) < QueueCap /\ "shutdown" \notin Range(cmds)
        /\ cmds' = Append(cmds, "shutdown")
        /\ UNCHANGED <<up, pending_id, id_waiters, waiters, buffers, asked, call, store,
                       minted, idents>>
    BY <1>1 DEF SendShutdown
  <2>2. cmds \in Seq(Tasks \cup {"shutdown"}) /\ "shutdown" \in Tasks \cup {"shutdown"}
    BY DEF Queues
  <2>3. /\ cmds' \in Seq(Tasks \cup {"shutdown"}) /\ Len(cmds') = Len(cmds) + 1
        /\ Range(cmds') = Range(cmds) \cup {"shutdown"}
        /\ Once(cmds) => Once(cmds')
    BY <2>1, <2>2, OnceAppend
  <2>4. Len(cmds') <= QueueCap
    BY <2>1, <2>2, <2>3, NodeAssumption
  <2>5. "shutdown" \notin waiters /\ "shutdown" \notin Range(id_waiters)
    <3>1. Range(id_waiters) \subseteq Tasks
      BY RangeIs DEF Queues
    <3> QED BY <3>1, NodeAssumption DEF Queues
  <2>6. \A t \in Tasks : t \in Range(cmds') <=> t \in Range(cmds)
    BY <2>3, NodeAssumption
  <2>7. Stores'
    BY <2>1 DEF Stores
  <2>8. Queues'
    BY <2>1, <2>3, <2>4, <2>5, <2>6 DEF Queues
  <2> QED BY <2>1, <2>7, <2>8 DEF NodeEffect
<1>2. CASE HandleCommand
  <2>1. cmds # <<>> /\ UNCHANGED <<store, minted, idents>>
    BY <1>2 DEF HandleCommand
  <2>2. CASE Head(cmds) = "shutdown"
    BY <1>2, <2>1, <2>2, ReturnKeeps DEF HandleCommand
  <2>3. CASE Head(cmds) # "shutdown"
    <3>1. cmds' = Tail(cmds) /\ up' = up
      BY <1>2, <2>3 DEF HandleCommand
    <3>2. TakeIdentified(Head(cmds)) \/ StartQuery(Head(cmds))
      BY <1>2, <2>3 DEF HandleCommand
    <3> QED BY <2>1, <2>3, <3>1, <3>2, TakeIdentifiedKeeps, StartQueryKeeps
  <2> QED BY <2>2, <2>3
<1>3. CASE Identified
  BY <1>3, IdentifiedKeeps
<1>4. CASE \E t \in Tasks : QueryEnds(t) \/ \E n \in Nodes : FoundRecord(t, n)
  BY <1>4, PutEndsKeeps, BootstrapEndsKeeps, LookupEndsKeeps, FoundRecordKeeps DEF QueryEnds
<1>5. CASE OtherPublishes
  <2>1. PICK p \in Others, k \in Keys, reached \in (SUBSET Nodes) \ {{}} :
          Published(p, k, reached)
    BY <1>5 DEF OtherPublishes
  <2>2. UNCHANGED <<swarm, call, idents>>
    BY <1>5 DEF OtherPublishes
  <2>3. store' \in [Nodes -> [Keys -> Record]] /\ minted' \in 0 .. MaxMint
    BY <2>1, PublishedType DEF Peers
  <2>4. Stores' /\ Queues'
    BY <2>2, <2>3 DEF Stores, Queues, swarm
  <2> QED BY <2>2, <2>4 DEF NodeEffect, swarm
<1> QED BY <1>1, <1>2, <1>3, <1>4, <1>5 DEF SwarmStep
-----------------------------------------------------------------------------
(* The invariant.                                                             *)

\* The records of s are of peers that announced the key.
Theirs(key, s) == \A i \in 1 .. Len(s) : key \in Keys /\ s[i].peer \in announced[key]

Routes ==
  /\ refresh \in {"idle", "envelope", "ranges"}
  /\ coverage \in [Ranges -> Seq(Record)]
  /\ target \in [Ranges -> Seq(Peers)]
  /\ announced \in [Keys -> SUBSET Peers]
  /\ calls \in 0 .. MaxCalls

\* Wherever a record is on its way from the nodes of the DHT to a target, its
\* peer announced the key it is kept, looked up or used under.
Honest ==
  /\ \A n \in Nodes, k \in Keys : store[n][k].peer \in announced[k]
  /\ \A t \in waiters : call[t].op = "get" => Theirs(call[t].key, buffers[t])
  /\ \A t \in Tasks : Theirs(call[t].key, call[t].reply)
  /\ \A r \in Ranges : Theirs(r, coverage[r])
  /\ \A r \in Ranges : \A i \in 1 .. Len(target[r]) : target[r][i] \in announced[r]

\* A range is only looked up by its own task, and only during a refresh.
Lookups ==
  \A r \in Ranges :
    /\ call[r].key = r \/ (call[r].op = "none" /\ call[r].reply = <<>>)
    /\ refresh # "ranges" => call[r].state # "called"

RouteInv == Queues /\ Stores /\ Routes /\ Honest /\ Lookups

\* Who the tasks are.
LEMMA TasksAre ==
  /\ Ranges \subseteq Tasks /\ Refresher \in Tasks /\ Host \in Tasks /\ Watcher \in Tasks
  /\ Refresher \notin Ranges /\ Host \notin Ranges /\ Watcher \notin Ranges
  /\ Ranges \subseteq Keys /\ Envelope \in Keys
BY RouteAssumption

LEMMA InitRoute == Init => RouteInv
<1> SUFFICES ASSUME Init PROVE RouteInv
  OBVIOUS
<1> DEFINE rec == [peer |-> First, mint |-> 0]
<1>0. /\ <<>> \in Seq(Tasks) /\ <<>> \in Seq(Tasks \cup {"shutdown"}) /\ <<>> \in Seq(Record)
      /\ <<>> \in Seq(Peers) /\ Len(<<>>) = 0 /\ Range(<<>>) = {} /\ Once(<<>>)
  BY DEF Range, Once
<1>1. rec \in Record /\ rec.peer = First /\ First \in Peers
  BY NodeAssumption, RouteAssumption DEF Record, Peers
<1>2. /\ Idle \in Calls /\ Idle.state # "called" /\ Idle.op = "none" /\ Idle.reply = <<>>
  BY <1>0 DEF Idle, Calls
<1>3. /\ up = TRUE /\ cmds = <<>> /\ pending_id = 0 /\ id_waiters = <<>> /\ waiters = {}
      /\ buffers = [t \in Tasks |-> <<>>] /\ asked = [t \in Tasks |-> {}]
      /\ call = [t \in Tasks |-> Idle]
      /\ store = [n \in Nodes |-> [k \in Keys |-> rec]]
      /\ minted = 0 /\ idents = 0
  BY DEF Init, NodeInit
<1>4. /\ refresh = "idle" /\ calls = 0
      /\ coverage = [r \in Ranges |-> <<>>] /\ target = [r \in Ranges |-> <<>>]
      /\ announced = [k \in Keys |-> {First}]
  BY DEF Init, NoTarget
<1> HIDE DEF rec
<1>5. call \in [Tasks -> Calls] /\ \A t \in Tasks : call[t] = Idle
  BY <1>2, <1>3
<1>6. Queues
  BY <1>0, <1>2, <1>3, <1>5, NodeAssumption DEF Queues
<1>7. Stores
  <2>1. buffers \in [Tasks -> Seq(Record)]
    BY <1>0, <1>3, Zenon
  <2>2. store \in [Nodes -> [Keys -> Record]]
    BY <1>1, <1>3
  <2> QED BY <1>3, <2>1, <2>2, NodeAssumption DEF Stores
<1>8. \A r \in Ranges : coverage[r] = <<>> /\ target[r] = <<>>
  BY <1>4
<1>9. Routes
  <2>1. coverage \in [Ranges -> Seq(Record)] /\ target \in [Ranges -> Seq(Peers)]
    BY <1>0, <1>4, Zenon
  <2> QED BY <1>1, <1>4, <2>1, RouteAssumption DEF Routes
<1>10. Honest
  <2>1. \A n \in Nodes, k \in Keys : store[n][k].peer \in announced[k]
    BY <1>1, <1>3, <1>4
  <2>2. \A k : Theirs(k, <<>>)
    BY <1>0 DEF Theirs
  <2> QED BY <1>0, <1>2, <1>3, <1>5, <1>8, <2>1, <2>2 DEF Honest
<1>11. Lookups
  BY <1>2, <1>4, <1>5, TasksAre DEF Lookups
<1> QED BY <1>6, <1>7, <1>9, <1>10, <1>11 DEF RouteInv

\* Calls that are over may be cleared.
LEMMA ResetKeeps ==
  ASSUME Queues, Stores, NEW T \in SUBSET Tasks, \A t \in T : call[t].state # "called",
         call' = [t \in Tasks |-> IF t \in T THEN Idle ELSE call[t]],
         UNCHANGED <<swarm, store, minted, idents>>
  PROVE  /\ Queues' /\ Stores'
         /\ \A t \in Tasks : call'[t] = IF t \in T THEN Idle ELSE call[t]
         /\ Idle.state # "called" /\ Idle.op = "none" /\ Idle.reply = <<>>
<1>1. /\ Idle \in Calls /\ Idle.state # "called" /\ Idle.op = "none" /\ Idle.reply = <<>>
  BY DEF Idle, Calls
<1>2. UNCHANGED <<up, cmds, pending_id, id_waiters, waiters, buffers, asked>>
  BY DEF swarm
<1>3. Stores'
  BY <1>2 DEF Stores
<1>4. /\ call' \in [Tasks -> Calls]
      /\ \A t \in Tasks : call'[t] = IF t \in T THEN Idle ELSE call[t]
  BY <1>1 DEF Queues
<1>5. \A t \in T : t \notin Range(cmds) /\ t \notin waiters /\ t \notin Range(id_waiters)
  BY DEF Queues
<1>6. Queues'
  BY <1>1, <1>2, <1>4, <1>5 DEF Queues
<1> QED BY <1>1, <1>3, <1>4, <1>6
\* A call of a task, of another task than a range's or of a range during its
\* refresh.
LEMMA SendKeepsRoute ==
  ASSUME RouteInv, Routes', NEW t \in Tasks, NEW op \in Ops, NEW key \in Keys \cup {None},
         op \in {"get", "put"} => key \in Keys,
         Send(t, op, key), UNCHANGED <<store, minted, idents, coverage, target, announced>>,
         t \in Ranges => key = t /\ refresh = "ranges",
         refresh = "ranges" <=> refresh' = "ranges"
  PROVE  RouteInv'
<1>1. /\ Queues' /\ Stores'
      /\ \A u \in Tasks \ {t} : call'[u] = call[u]
      /\ call'[t].op = op /\ call'[t].key = key /\ call'[t].reply = <<>>
      /\ UNCHANGED <<waiters, buffers>>
  BY SendKeeps DEF RouteInv
<1>2. t \notin waiters /\ waiters \subseteq Tasks
  <2>1. call[t].state # "called"
    BY DEF Send, Waits
  <2> QED BY <2>1 DEF RouteInv, Queues
<1>3. Honest'
  <2>1. \A n \in Nodes, k \in Keys : store'[n][k].peer \in announced'[k]
    BY DEF RouteInv, Honest
  <2>2. ASSUME NEW u \in waiters', call'[u].op = "get"
        PROVE  Theirs(call[u].key, buffers[u])'
    <3>1. u \in waiters /\ u \in Tasks \ {t} /\ call'[u] = call[u]
      BY <1>1, <1>2
    <3>2. Theirs(call[u].key, buffers[u])
      BY <2>2, <3>1 DEF RouteInv, Honest
    <3> QED BY <1>1, <3>1, <3>2 DEF Theirs
  <2>3. ASSUME NEW u \in Tasks
        PROVE  Theirs(call[u].key, call[u].reply)'
    <3>1. CASE u = t
      <4>1. call'[u].reply = <<>>
        BY <1>1, <3>1
      <4> QED BY <4>1 DEF Theirs
    <3>2. CASE u # t
      <4>1. call'[u] = call[u]
        BY <1>1, <3>2
      <4>2. Theirs(call[u].key, call[u].reply)
        BY DEF RouteInv, Honest
      <4> QED BY <4>1, <4>2 DEF Theirs
    <3> QED BY <3>1, <3>2
  <2>4. \A r \in Ranges : Theirs(r, coverage[r])'
    BY DEF RouteInv, Honest, Theirs
  <2>5. \A r \in Ranges : \A i \in 1 .. Len(target'[r]) : target'[r][i] \in announced'[r]
    BY DEF RouteInv, Honest
  <2> QED BY <2>1, <2>2, <2>3, <2>4, <2>5 DEF Honest
<1>4. Lookups'
  <2> SUFFICES ASSUME NEW r \in Ranges
               PROVE  /\ call'[r].key = r \/ (call'[r].op = "none" /\ call'[r].reply = <<>>)
                      /\ refresh' # "ranges" => call'[r].state # "called"
    BY DEF Lookups
  <2>1. CASE r = t
    BY <1>1, <2>1
  <2>2. CASE r # t
    <3>1. call'[r] = call[r]
      BY <1>1, <2>2, TasksAre
    <3> QED BY <3>1 DEF RouteInv, Lookups
  <2> QED BY <2>1, <2>2
<1> QED BY <1>1, <1>3, <1>4 DEF RouteInv

\* A step that clears calls which are over.
LEMMA ResetKeepsRoute ==
  ASSUME RouteInv, Routes', NEW T \in SUBSET Tasks, \A t \in T : call[t].state # "called",
         Ranges \subseteq T,
         call' = [t \in Tasks |-> IF t \in T THEN Idle ELSE call[t]],
         UNCHANGED <<swarm, store, minted, idents, target, announced>>,
         \A r \in Ranges : coverage'[r] \in {coverage[r], call[r].reply}
  PROVE  RouteInv'
<1>1. /\ Queues' /\ Stores'
      /\ \A t \in Tasks : call'[t] = IF t \in T THEN Idle ELSE call[t]
      /\ Idle.state # "called" /\ Idle.op = "none" /\ Idle.reply = <<>>
  BY ResetKeeps DEF RouteInv
<1>2. UNCHANGED <<waiters, buffers>> /\ waiters \subseteq Tasks
  BY DEF RouteInv, Queues, swarm
<1>3. \A t \in waiters : call[t].state = "called" /\ t \notin T
  BY <1>2 DEF RouteInv, Queues
<1>4. Honest'
  <2>1. \A n \in Nodes, k \in Keys : store'[n][k].peer \in announced'[k]
    BY DEF RouteInv, Honest
  <2>2. ASSUME NEW u \in waiters', call'[u].op = "get"
        PROVE  Theirs(call[u].key, buffers[u])'
    <3>1. u \in waiters /\ call'[u] = call[u]
      BY <1>1, <1>2, <1>3
    <3>2. Theirs(call[u].key, buffers[u])
      BY <2>2, <3>1 DEF RouteInv, Honest
    <3> QED BY <1>2, <3>1, <3>2 DEF Theirs
  <2>3. ASSUME NEW u \in Tasks
        PROVE  Theirs(call[u].key, call[u].reply)'
    <3>1. CASE u \in T
      <4>1. call'[u].reply = <<>>
        BY <1>1, <3>1
      <4> QED BY <4>1 DEF Theirs
    <3>2. CASE u \notin T
      <4>1. call'[u] = call[u]
        BY <1>1, <3>2
      <4>2. Theirs(call[u].key, call[u].reply)
        BY DEF RouteInv, Honest
      <4> QED BY <4>1, <4>2 DEF Theirs
    <3> QED BY <3>1, <3>2
  <2>4. ASSUME NEW r \in Ranges PROVE Theirs(r, coverage[r])'
    <3>1. Theirs(r, coverage[r])
      BY DEF RouteInv, Honest
    <3>2. Theirs(r, call[r].reply)
      <4>1. Theirs(call[r].key, call[r].reply)
        BY TasksAre DEF RouteInv, Honest
      <4>2. call[r].key = r \/ call[r].reply = <<>>
        BY DEF RouteInv, Lookups
      <4>3. Theirs(r, <<>>)
        BY DEF Theirs
      <4> QED BY <4>1, <4>2, <4>3
    <3> QED BY <3>1, <3>2 DEF Theirs
  <2>5. \A r \in Ranges : \A i \in 1 .. Len(target'[r]) : target'[r][i] \in announced'[r]
    BY DEF RouteInv, Honest
  <2> QED BY <2>1, <2>2, <2>3, <2>4, <2>5 DEF Honest
<1>5. Lookups'
  BY <1>1, TasksAre DEF Lookups
<1> QED BY <1>1, <1>4, <1>5 DEF RouteInv

LEMMA CommitKeeps ==
  ASSUME RouteInv, Commit
  PROVE  RouteInv'
<1>1. /\ target' = [r \in Ranges |-> Candidates(coverage[r])]
      /\ UNCHANGED <<nodeVars, refresh, coverage, announced, calls>>
  BY DEF Commit
<1>2. ASSUME NEW r \in Ranges
      PROVE  /\ Candidates(coverage[r]) \in Seq(Peers)
             /\ \A i \in 1 .. Len(Candidates(coverage[r])) :
                  Candidates(coverage[r])[i] \in announced[r]
  <2> DEFINE c == Candidates(coverage[r])
             records == coverage[r]
  <2>1. records \in Seq(Record)
    BY DEF RouteInv, Routes
  <2> HIDE DEF records
  <2>2. c \in Seq(Peers) /\ \A i \in 1 .. Len(c) : \E rec \in Range(records) : rec.peer = c[i]
    BY <2>1, CandidatesAre DEF records
  <2>3. \A i \in 1 .. Len(records) : records[i].peer \in announced[r]
    BY DEF RouteInv, Honest, Theirs, records
  <2>4. Range(records) = {records[i] : i \in 1 .. Len(records)}
    BY <2>1, RangeIs
  <2> HIDE DEF c
  <2>5. \A i \in 1 .. Len(c) : c[i] \in announced[r]
    BY <2>2, <2>3, <2>4
  <2> QED BY <2>2, <2>5 DEF c
<1>3. target' \in [Ranges -> Seq(Peers)]
  BY <1>1, <1>2
<1>4. \A r \in Ranges : \A i \in 1 .. Len(target'[r]) : target'[r][i] \in announced'[r]
  BY <1>1, <1>2
<1>5. Queues' /\ Stores'
  BY <1>1 DEF RouteInv, Queues, Stores, nodeVars, swarm
<1>6. Routes'
  BY <1>1, <1>3 DEF RouteInv, Routes
<1>7. Honest'
  BY <1>1, <1>4 DEF RouteInv, Honest, Theirs, nodeVars, swarm
<1>8. Lookups'
  BY <1>1 DEF RouteInv, Lookups, nodeVars
<1> QED BY <1>5, <1>6, <1>7, <1>8 DEF RouteInv

LEMMA FailoverKeeps ==
  ASSUME RouteInv, NEW r \in Ranges, Failover(r)
  PROVE  RouteInv'
<1> DEFINE u == target[r]
<1>1. /\ Len(u) > 1 /\ target' = [target EXCEPT ![r] = Tail(u)]
      /\ UNCHANGED <<nodeVars, refresh, coverage, announced, calls>>
  BY DEF Failover
<1>2. u \in Seq(Peers) /\ \A i \in 1 .. Len(u) : u[i] \in announced[r]
  BY DEF RouteInv, Routes, Honest
<1> HIDE DEF u
<1>3. Tail(u) \in Seq(Peers) /\ \A i \in 1 .. Len(Tail(u)) : Tail(u)[i] \in announced[r]
  BY <1>1, <1>2
<1>4. target' \in [Ranges -> Seq(Peers)]
  BY <1>1, <1>3 DEF RouteInv, Routes
<1>5. \A q \in Ranges : target'[q] = IF q = r THEN Tail(u) ELSE target[q]
  BY <1>1 DEF RouteInv, Routes
<1>6. \A q \in Ranges : \A i \in 1 .. Len(target'[q]) : target'[q][i] \in announced'[q]
  BY <1>1, <1>3, <1>5 DEF RouteInv, Honest
<1>7. Queues' /\ Stores'
  BY <1>1 DEF RouteInv, Queues, Stores, nodeVars, swarm
<1>8. Routes'
  BY <1>1, <1>4 DEF RouteInv, Routes
<1>9. Honest'
  BY <1>1, <1>6 DEF RouteInv, Honest, Theirs, nodeVars, swarm
<1>10. Lookups'
  BY <1>1 DEF RouteInv, Lookups, nodeVars
<1> QED BY <1>7, <1>8, <1>9, <1>10 DEF RouteInv
\* The swarm task gives every call the records of its own key only.
LEMMA NodeStepKeeps ==
  ASSUME RouteInv, NodeStep
  PROVE  RouteInv'
<1>1. /\ SwarmStep /\ UNCHANGED <<refresh, coverage, target, calls>>
      /\ announced' = [k \in Keys |-> announced[k] \cup {store'[n][k].peer : n \in Nodes}]
  BY DEF NodeStep, route
<1>2. Queues' /\ Stores' /\ NodeEffect
  BY <1>1, SwarmStepKeeps DEF RouteInv
<1>3. /\ announced' \in [Keys -> SUBSET Peers]
      /\ \A k \in Keys : announced[k] \subseteq announced'[k]
      /\ \A n \in Nodes, k \in Keys : store'[n][k].peer \in announced'[k]
  <2>1. \A n \in Nodes, k \in Keys : store'[n][k].peer \in Peers
    BY <1>2 DEF Stores, Record
  <2>2. \A k \in Keys : announced[k] \in SUBSET Peers
    BY DEF RouteInv, Routes
  <2> QED BY <1>1, <2>1, <2>2
<1>4. Routes'
  BY <1>1, <1>3 DEF RouteInv, Routes
<1>5. \A k, s : (\A i \in 1 .. Len(s) : k \in Keys /\ s[i].peer \in announced[k]) =>
                (\A i \in 1 .. Len(s) : k \in Keys /\ s[i].peer \in announced'[k])
  BY <1>3
<1>6. Honest'
  <2>1. ASSUME NEW t \in waiters', call'[t].op = "get"
        PROVE  Theirs(call[t].key, buffers[t])'
    <3>0. t \in Tasks /\ call'[t].op = call[t].op /\ call'[t].key = call[t].key
      BY <1>2 DEF Queues, NodeEffect
    <3>1. CASE buffers'[t] = <<>>
      BY <3>1 DEF Theirs
    <3>2. CASE t \in waiters /\ buffers'[t] = buffers[t]
      <4>1. Theirs(call[t].key, buffers[t])
        BY <2>1, <3>0, <3>2 DEF RouteInv, Honest
      <4> QED BY <1>5, <3>0, <3>2, <4>1 DEF Theirs
    <3>3. CASE t \in waiters /\ \E n \in Nodes : buffers'[t] = Append(buffers[t], store[n][call[t].key])
      <4> DEFINE key == call[t].key
                 u == buffers[t]
      <4>1. PICK n \in Nodes : buffers'[t] = Append(u, store[n][key])
        BY <3>3
      <4>2. key \in Keys /\ u \in Seq(Record)
        BY <2>1, <3>0 DEF RouteInv, Queues, Stores
      <4>3. store[n][key] \in Record /\ store[n][key].peer \in announced'[key]
        BY <1>3, <4>2 DEF RouteInv, Stores, Honest
      <4>4. Theirs(key, u)
        BY <2>1, <3>0, <3>3 DEF RouteInv, Honest
      <4>5. \A i \in 1 .. Len(u) : u[i].peer \in announced'[key]
        BY <1>3, <4>2, <4>4 DEF Theirs
      <4> HIDE DEF key, u
      <4>6. ASSUME NEW i \in 1 .. Len(Append(u, store[n][key]))
            PROVE  Append(u, store[n][key])[i].peer \in announced'[key]
        <5>1. \/ i \in 1 .. Len(u) /\ Append(u, store[n][key])[i] = u[i]
              \/ Append(u, store[n][key])[i] = store[n][key]
          BY <4>2, <4>3
        <5> QED BY <4>3, <4>5, <5>1
      <4> QED BY <3>0, <4>1, <4>2, <4>6 DEF Theirs, key
    <3> QED BY <1>2, <3>1, <3>2, <3>3 DEF NodeEffect
  <2>2. ASSUME NEW t \in Tasks
        PROVE  Theirs(call[t].key, call[t].reply)'
    <3>1. call'[t].key = call[t].key
      BY <1>2 DEF NodeEffect
    <3>2. Theirs(call[t].key, call'[t].reply)
      <4>1. Theirs(call[t].key, call[t].reply)
        BY DEF RouteInv, Honest
      <4>2. t \in waiters /\ call[t].op = "get" => Theirs(call[t].key, buffers[t])
        BY DEF RouteInv, Honest
      <4>3. \/ call'[t].reply = call[t].reply
            \/ t \in waiters /\ call[t].op = "get" /\ call'[t].reply = buffers[t]
        BY <1>2 DEF NodeEffect
      <4> QED BY <4>1, <4>2, <4>3
    <3> QED BY <1>5, <3>1, <3>2 DEF Theirs
  <2>3. \A r \in Ranges : Theirs(r, coverage[r])'
    BY <1>1, <1>5 DEF RouteInv, Honest, Theirs
  <2>4. \A r \in Ranges : \A i \in 1 .. Len(target'[r]) : target'[r][i] \in announced'[r]
    BY <1>1, <1>3, TasksAre DEF RouteInv, Honest
  <2> QED BY <1>3, <2>1, <2>2, <2>3, <2>4 DEF Honest
<1>7. Lookups'
  <2> SUFFICES ASSUME NEW r \in Ranges
               PROVE  /\ call'[r].key = r \/ (call'[r].op = "none" /\ call'[r].reply = <<>>)
                      /\ refresh' # "ranges" => call'[r].state # "called"
    BY DEF Lookups
  <2>1. r \in Tasks
    BY TasksAre
  <2>2. call[r].key = r \/ (call[r].op = "none" /\ call[r].reply = <<>>)
    BY DEF RouteInv, Lookups
  <2>3. refresh # "ranges" => call[r].state # "called"
    BY DEF RouteInv, Lookups
  <2> QED BY <1>1, <1>2, <2>1, <2>2, <2>3 DEF NodeEffect
<1> QED BY <1>2, <1>4, <1>6, <1>7 DEF RouteInv

LEMMA NextRoute == RouteInv /\ [Next]_vars => RouteInv'
<1> SUFFICES ASSUME RouteInv, [Next]_vars PROVE RouteInv'
  OBVIOUS
<1>0. \A n \in Nat : n < MaxCalls => n + 1 \in 0 .. MaxCalls
  BY RouteAssumption
<1>1. ASSUME Counted PROVE calls' \in 0 .. MaxCalls
  BY <1>0, <1>1 DEF Counted, RouteInv, Routes
<1>2. CASE StartRefresh
  <2>1. /\ refresh = "idle" /\ refresh' = "envelope" /\ Counted
        /\ Send(Refresher, "get", Envelope)
        /\ UNCHANGED <<store, minted, idents, coverage, target, announced>>
    BY <1>2 DEF StartRefresh
  <2>2. Routes'
    BY <1>1, <2>1 DEF RouteInv, Routes
  <2> QED BY <2>1, <2>2, TasksAre, SendKeepsRoute DEF Ops
<1>3. CASE EnvelopeDone
  <2> DEFINE T == Ranges \cup {Refresher}
  <2>1. /\ refresh = "envelope" /\ ~Waits(Refresher) /\ refresh' = "ranges"
        /\ call' = [t \in Tasks |-> IF t \in T THEN Idle ELSE call[t]]
        /\ UNCHANGED <<swarm, store, minted, idents, coverage, target, announced, calls>>
    BY <1>3 DEF EnvelopeDone
  <2>2. T \in SUBSET Tasks /\ Ranges \subseteq T
    BY TasksAre
  <2>3. \A t \in T : call[t].state # "called"
    BY <2>1 DEF RouteInv, Lookups, Waits
  <2>4. Routes'
    BY <2>1 DEF RouteInv, Routes
  <2> HIDE DEF T
  <2> QED BY <2>1, <2>2, <2>3, <2>4, ResetKeepsRoute
<1>4. CASE LookupsJoined
  <2>1. /\ refresh' = "idle"
        /\ \A r \in Ranges : call[r].state \in {"ok", "error"}
        /\ coverage' = [r \in Ranges |-> call[r].reply]
        /\ call' = [t \in Tasks |-> IF t \in Ranges THEN Idle ELSE call[t]]
        /\ UNCHANGED <<swarm, store, minted, idents, target, announced, calls>>
    BY <1>4 DEF LookupsJoined
  <2>2. \A r \in Ranges : call[r].state # "called" /\ coverage'[r] = call[r].reply
    BY <2>1
  <2>3. \A r \in Ranges : call[r].reply \in Seq(Record)
    BY TasksAre DEF RouteInv, Queues, Calls
  <2>4. Routes'
    BY <2>1, <2>3 DEF RouteInv, Routes
  <2>5. Ranges \in SUBSET Tasks
    BY TasksAre
  <2> QED BY <2>1, <2>2, <2>4, <2>5, ResetKeepsRoute
<1>5. CASE Commit
  BY <1>5, CommitKeeps
<1>6. ASSUME NEW r \in Ranges, Lookup(r) PROVE RouteInv'
  <2>1. /\ refresh = "ranges" /\ Send(r, "get", r)
        /\ UNCHANGED <<store, minted, idents, refresh, coverage, target, announced, calls>>
    BY <1>6 DEF Lookup, route
  <2>2. Routes'
    BY <2>1 DEF RouteInv, Routes
  <2>3. r \in Tasks /\ r \in Keys
    BY TasksAre
  <2> QED BY <2>1, <2>2, <2>3, SendKeepsRoute DEF Ops
<1>7. ASSUME NEW r \in Ranges, Failover(r) PROVE RouteInv'
  BY <1>7, FailoverKeeps
<1>8. CASE Announce
  <2>1. /\ Counted
        /\ UNCHANGED <<store, minted, idents, refresh, coverage, target, announced>>
    BY <1>8 DEF Announce, route
  <2>2. Routes'
    BY <1>1, <2>1 DEF RouteInv, Routes
  <2>3. ASSUME NEW k \in Keys, Send(Host, "put", k) PROVE RouteInv'
    BY <2>1, <2>2, <2>3, TasksAre, SendKeepsRoute DEF Ops
  <2>4. ASSUME Send(Host, "bootstrap", None) PROVE RouteInv'
    BY <2>1, <2>2, <2>4, TasksAre, SendKeepsRoute DEF Ops
  <2> QED BY <1>8, <2>3, <2>4 DEF Announce
<1>9. CASE AwaitIdentified
  <2>1. /\ Counted /\ Send(Watcher, "identify", None)
        /\ UNCHANGED <<store, minted, idents, refresh, coverage, target, announced>>
    BY <1>9 DEF AwaitIdentified, route
  <2>2. Routes'
    BY <1>1, <2>1 DEF RouteInv, Routes
  <2> QED BY <2>1, <2>2, TasksAre, SendKeepsRoute DEF Ops
<1>10. CASE NodeStep
  BY <1>10, NodeStepKeeps
<1>11. CASE UNCHANGED vars
  BY <1>11 DEF vars, nodeVars, swarm, RouteInv, Queues, Stores, Routes, Honest, Theirs, Lookups
<1> QED BY <1>2, <1>3, <1>4, <1>5, <1>6, <1>7, <1>8, <1>9, <1>10, <1>11 DEF Next

LEMMA RouteInvHolds == Spec => []RouteInv
<1> QED BY InitRoute, NextRoute, PTL DEF Spec

\* A hop and its alternates only ever are peers that announced the range of the
\* hop (from_swarm over the coverage of SwarmIndex::refresh_one), although the
\* lookups run at once beside announcements; and every call of the node is in
\* one place until it is answered (the waiters of spawn_swarm's task).
THEOREM HopsAreProviders == Spec => []HopsServeTheirRange
<1>1. RouteInv => HopsServeTheirRange
  BY NodeInvImplies DEF RouteInv, Routes, Honest, TypeOK, HopsServeTheirRange
<1> QED BY <1>1, RouteInvHolds, PTL

\* The peer of a hop is, of those found that can be forwarded to, the one that
\* announced the range most recently (the sort_by of ChainTarget::from_swarm).
THEOREM FreshestPeerLeads == Spec => FreshestLeads
<1> DEFINE Leads == Commit => \A r \in Ranges :
             \E rec \in Range(coverage[r]) :
                /\ rec.peer = target'[r][1]
                /\ \A other \in Range(coverage[r]) :
                     Forwardable(other) => rec.mint >= other.mint
<1>1. ASSUME RouteInv PROVE [Leads]_vars
  <2> SUFFICES ASSUME Commit, NEW r \in Ranges
               PROVE  \E rec \in Range(coverage[r]) :
                         /\ rec.peer = target'[r][1]
                         /\ \A other \in Range(coverage[r]) :
                              Forwardable(other) => rec.mint >= other.mint
    OBVIOUS
  <2>1. Candidates(coverage[r]) # <<>> /\ target'[r] = Candidates(coverage[r])
    BY DEF Commit
  <2>2. coverage[r] \in Seq(Record)
    BY <1>1 DEF RouteInv, Routes
  <2> QED BY <2>1, <2>2, CandidatesAre
<1>2. FreshestLeads <=> [][Leads]_vars
  BY DEF FreshestLeads
<1> QED BY <1>1, <1>2, RouteInvHolds, PTL
==============================================================================
