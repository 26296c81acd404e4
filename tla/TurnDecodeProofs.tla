-------------------------- MODULE TurnDecodeProofs ---------------------------
(* Proofs about the decoding of a turn: that the caches of the target and of  *)
(* the draft hold what was committed, and that a turn says the target's       *)
(* greedy continuation, with and without a draft model.                       *)
EXTENDS TurnDecode, RecursionProofs

-----------------------------------------------------------------------------
(* The operators on KV caches.                                                *)

\* The cells of a sequence of tokens, one at each position.
LEMMA CellsAre ==
  ASSUME NEW toks \in Seq(Tokens)
  PROVE /\ Cells(toks) = [i \in 1..Len(toks) |-> [pos |-> i - 1, tok |-> toks[i]]]
        /\ Cells(toks) \in KV /\ Len(Cells(toks)) = Len(toks)
<1> DEFINE c == [i \in 1..Len(toks) |-> [pos |-> 0 + i - 1, tok |-> toks[i]]]
<1>1. c \in Seq([pos: Nat, tok: Tokens])
  OBVIOUS
<1>2. <<>> \o c = c
  BY <1>1
<1>3. c = [i \in 1..Len(toks) |-> [pos |-> i - 1, tok |-> toks[i]]] /\ Len(c) = Len(toks)
  OBVIOUS
<1> QED BY <1>1, <1>2, <1>3 DEF Cells, Fed, KV

\* To feed more tokens at the position behind the last one is to have fed all.
LEMMA FedCells ==
  ASSUME NEW a \in Seq(Tokens), NEW b \in Seq(Tokens)
  PROVE Fed(Cells(a), b, Len(a)) = Cells(a \o b)
<1> DEFINE S == [pos: Nat, tok: Tokens]
<1> DEFINE c == [i \in 1..Len(b) |-> [pos |-> Len(a) + i - 1, tok |-> b[i]]]
<1>1. c \in Seq(S) /\ Len(c) = Len(b)
  OBVIOUS
<1>2. Cells(a) \in Seq(S) /\ Len(Cells(a)) = Len(a)
  BY CellsAre DEF KV
<1>3. a \o b \in Seq(Tokens) /\ Len(a \o b) = Len(a) + Len(b)
  OBVIOUS
<1>4. Cells(a \o b) \in Seq(S) /\ Len(Cells(a \o b)) = Len(a) + Len(b)
  BY <1>3, CellsAre DEF KV
<1>0. Len(a) \in Nat /\ Len(b) \in Nat
  OBVIOUS
<1>5. /\ Cells(a) \o c \in Seq(S) /\ Len(Cells(a) \o c) = Len(a) + Len(b)
      /\ \A i \in 1..(Len(a) + Len(b)) :
            (Cells(a) \o c)[i] = IF i <= Len(a) THEN Cells(a)[i] ELSE c[i - Len(a)]
  <2> HIDE DEF c, S
  <2>1. /\ Cells(a) \o c \in Seq(S)
        /\ Len(Cells(a) \o c) = Len(Cells(a)) + Len(c)
        /\ \A i \in 1..(Len(Cells(a)) + Len(c)) :
             (Cells(a) \o c)[i] = IF i <= Len(Cells(a)) THEN Cells(a)[i]
                                  ELSE c[i - Len(Cells(a))]
    BY <1>1, <1>2, ConcatProperties
  <2> QED BY <1>1, <1>2, <2>1
<1>8. \A i \in 1..(Len(a) + Len(b)) : (a \o b)[i] = IF i <= Len(a) THEN a[i] ELSE b[i - Len(a)]
  <2>1. a \in Seq(Tokens) /\ b \in Seq(Tokens)
    OBVIOUS
  <2> QED BY ONLY <2>1, ConcatProperties
<1>6. ASSUME NEW i \in 1..(Len(a) + Len(b))
      PROVE (Cells(a) \o c)[i] = Cells(a \o b)[i]
  <2>1. Cells(a \o b)[i] = [pos |-> i - 1, tok |-> (a \o b)[i]]
    BY <1>3, CellsAre
  <2>2. CASE i <= Len(a)
    <3>1. (Cells(a) \o c)[i] = Cells(a)[i] /\ (a \o b)[i] = a[i]
      BY <1>5, <1>8, <2>2
    <3>2. Cells(a)[i] = [pos |-> i - 1, tok |-> a[i]]
      BY <2>2, CellsAre
    <3> QED BY <2>1, <3>1, <3>2
  <2>3. CASE i > Len(a)
    <3>1. (Cells(a) \o c)[i] = c[i - Len(a)] /\ (a \o b)[i] = b[i - Len(a)]
      <4> HIDE DEF c
      <4>1. i \in 1..(Len(a) + Len(b)) /\ ~(i <= Len(a))
        BY <1>0, <2>3
      <4>2. (Cells(a) \o c)[i] = c[i - Len(a)]
        BY <1>5, <4>1
      <4>3. (a \o b)[i] = b[i - Len(a)]
        BY <1>8, <4>1
      <4> QED BY <4>2, <4>3
    <3>2. c[i - Len(a)] = [pos |-> i - 1, tok |-> b[i - Len(a)]]
      BY <1>0, <2>3
    <3> HIDE DEF c
    <3> QED BY <2>1, <3>1, <3>2
  <2>4. i <= Len(a) \/ i > Len(a)
    BY <1>0
  <2> QED BY <2>2, <2>3, <2>4, Zenon
<1>7. Cells(a) \o c = Cells(a \o b)
  <2> HIDE DEF c
  <2> QED BY <1>4, <1>5, <1>6, SeqEqual
<1> QED BY <1>7 DEF Fed

\* Truncated at n, a cache holds the first n tokens.
LEMMA CutCells ==
  ASSUME NEW a \in Seq(Tokens), NEW n \in 0..Len(a)
  PROVE Cut(Cells(a), n) = Cells(SubSeq(a, 1, n))
<1> DEFINE S == [pos: Nat, tok: Tokens]
<1>1. Cells(a) \in Seq(S) /\ Len(Cells(a)) = Len(a)
  BY CellsAre DEF KV
<1>2. ASSUME NEW i \in 1..Len(Cells(a)) PROVE Cells(a)[i].pos < n <=> i <= n
  <2>1. Cells(a)[i] = [pos |-> i - 1, tok |-> a[i]]
    BY <1>1, CellsAre
  <2> QED BY <2>1
<1>3. CellsBefore(Cells(a), n) = SubSeq(Cells(a), 1, n)
  <2> HIDE DEF S
  <2> QED BY <1>1, <1>2, CellsBeforeIsPrefix
<1>4. /\ SubSeq(a, 1, n) \in Seq(Tokens) /\ Len(SubSeq(a, 1, n)) = n
      /\ \A i \in 1..n : SubSeq(a, 1, n)[i] = a[i]
  OBVIOUS
<1>5. /\ SubSeq(Cells(a), 1, n) \in Seq(S) /\ Len(SubSeq(Cells(a), 1, n)) = n
      /\ \A i \in 1..n : SubSeq(Cells(a), 1, n)[i] = Cells(a)[i]
  <2> HIDE DEF S
  <2> QED BY <1>1
<1>6. /\ Cells(SubSeq(a, 1, n)) \in Seq(S) /\ Len(Cells(SubSeq(a, 1, n))) = n
      /\ \A i \in 1..n : Cells(SubSeq(a, 1, n))[i] = [pos |-> i - 1, tok |-> a[i]]
  <2> DEFINE b == SubSeq(a, 1, n)
  <2>0. b \in Seq(Tokens) /\ Len(b) = n
    BY <1>4
  <2> HIDE DEF b
  <2>1. /\ Cells(b) \in Seq(S) /\ Len(Cells(b)) = n
        /\ \A i \in 1..n : Cells(b)[i] = [pos |-> i - 1, tok |-> b[i]]
    BY <2>0, CellsAre DEF KV
  <2> QED BY <2>1, <1>4 DEF b
<1>7. \A i \in 1..n : Cells(a)[i] = [pos |-> i - 1, tok |-> a[i]]
  BY CellsAre
<1>8. SubSeq(Cells(a), 1, n) = Cells(SubSeq(a, 1, n))
  <2> HIDE DEF S
  <2> QED BY <1>5, <1>6, <1>7, SeqEqual
<1> QED BY <1>3, <1>8 DEF Cut

\* Different tokens make different caches.
LEMMA CellsInjective ==
  ASSUME NEW a \in Seq(Tokens), NEW b \in Seq(Tokens), Cells(a) = Cells(b)
  PROVE a = b
<1>1. Len(a) = Len(b)
  BY CellsAre
<1>2. ASSUME NEW i \in 1..Len(a) PROVE a[i] = b[i]
  <2>1. Cells(a)[i] = [pos |-> i - 1, tok |-> a[i]]
    BY CellsAre
  <2>2. Cells(b)[i] = [pos |-> i - 1, tok |-> b[i]]
    BY <1>1, CellsAre
  <2> QED BY <2>1, <2>2
<1> QED BY <1>1, <1>2, SeqEqual

-----------------------------------------------------------------------------
(* The inductive invariant.                                                   *)

\* What is committed; what the caches of the target hold when the step on its
\* way has passed; and the tokens of that step, behind those that were settled.
Text == Prompt \o out
Whole == IF pc \in {"verify", "match"} THEN Text \o drafts ELSE Text
Carried == CASE pc = "prefill" -> Prompt
             [] pc = "verify" -> drafts
             [] OTHER -> <<out[Said]>>
Settled == CASE pc = "prefill" -> <<>>
             [] pc = "verify" -> Text
             [] OTHER -> Prompt \o SubSeq(out, 1, Said - 1)

Holds(toks) == [kv |-> Cells(toks), pos |-> Len(toks)]

Travelling == pc \in {"prefill", "step", "verify", "commit"}
Resting == pc \in {"next", "join", "round", "match"}

\* The driver's place decides whether the turn runs and which mode it is in.
PlacesOK ==
  /\ (result = "idle") <=> (pc = "start")
  /\ (result = "running") <=> (pc \notin {"start", "end"})
  /\ pc \in {"next", "step"} => ~spec
  /\ pc \in {"join", "round", "verify", "match", "commit"} => spec
  /\ pc \in {"start", "prefill"} => out = <<>>
  /\ pc \in {"step", "commit"} => Said > 0
  /\ pc \in {"verify", "match"} => Said < MaxNew

\* What was said is the continuation, and before its end of sequence as long as
\* the turn runs.
SaidIsGreedy ==
  /\ out = SubSeq(greedy, 1, Said)
  /\ result = "running" => \A i \in 1..Said : out[i] # Eos
  /\ Resting \/ pc = "verify" => pending = greedy[Said + 1]

\* The slices of the target: the driver's own is ahead, the peers follow as the
\* step passes them, and a peer the step has not reached will find the settled
\* tokens in its cache, after the truncation the step brings.
TargetOK ==
  /\ Travelling \/ Resting => front = Cells(Whole)
  /\ Resting => \A h \in Hops : peer[h] = Holds(Whole)
  /\ Resting => pos = Len(Text)
  /\ Travelling =>
       /\ hop \in 1..(NumHops + 1)
       /\ fly.toks = Carried
       /\ fly.keep = IF pc = "commit" THEN Len(Text) - 1 ELSE None
       /\ \A h \in Hops :
            IF h < hop THEN peer[h] = Holds(Whole)
            ELSE PeerCut(peer[h]) = Cells(Settled) /\ PeerBase(peer[h]) = Len(Settled)
  /\ pc = "step" => pos = Len(Text) - 1
  /\ pc = "verify" => pos = Len(Text)

\* As far as the drafts are right, the target's predictions after them are.
PredictionsOK ==
  pc = "match" =>
    /\ preds \in [1..K -> Tokens]
    /\ \A i \in 1..K : (\A l \in 1..i : drafts[l] = greedy[Said + l])
                         => preds[i] = greedy[Said + i + 1]

\* What the draft has read, by the stage of its task; the last proposal of a
\* round is not fed back.
ButLast(toks) == SubSeq(toks, 1, K - 1)
DraftOK ==
  /\ task.st # "none" => spec /\ pc \in {"commit", "join", "end"}
  /\ spec /\ pc = "prefill" => draft = <<>>
  /\ pc \in {"round", "verify", "match"} =>
       Len(drafts) = K /\ draft = Cells(Text \o ButLast(drafts))
  /\ task.st = "advance" =>
       /\ task.j < Said /\ Len(drafts) = K /\ task.props = <<>>
       /\ out = SubSeq(out, 1, Said - task.j - 1) \o SubSeq(drafts, 1, task.j)
                  \o <<task.last>>
       /\ task.old = Len(Text) - task.j - 1
       /\ draft = Cells(Prompt \o SubSeq(out, 1, Said - task.j - 1) \o ButLast(drafts))
  /\ task.st = "propose" =>
       /\ task.old = Len(Text) /\ Len(task.props) < K
       /\ draft = Cells(Text \o task.props)
  /\ task.st = "ready" =>
       Len(task.props) = K /\ draft = Cells(Text \o ButLast(task.props))

DecodeInv ==
  TypeOK /\ PlacesOK /\ SaidIsGreedy /\ TargetOK /\ PredictionsOK /\ DraftOK

-----------------------------------------------------------------------------
(* What the target predicts, and what of a round is accepted and said.        *)

\* A beginning of the continuation, behind the prompt.
LEMMA ContextIs ==
  ASSUME TypeOK, NEW n \in 0..Horizon
  PROVE /\ SubSeq(greedy, 1, n) \in Seq(Tokens) /\ Len(SubSeq(greedy, 1, n)) = n
        /\ \A i \in 1..n : SubSeq(greedy, 1, n)[i] = greedy[i]
        /\ Context(n) \in Seq(Tokens) /\ Len(Context(n)) = Len(Prompt) + n
<1>1. greedy \in [1..Horizon -> Tokens] /\ Horizon \in Nat /\ Prompt \in Seq(Tokens)
  BY DecodeAssumption DEF TypeOK, Horizon
<1>2. \A i \in 1..n : greedy[i] \in Tokens
  BY <1>1
<1>3. /\ SubSeq(greedy, 1, n) \in Seq(Tokens) /\ Len(SubSeq(greedy, 1, n)) = n
      /\ \A i \in 1..n : SubSeq(greedy, 1, n)[i] = greedy[i]
  <2>1. /\ SubSeq(greedy, 1, n) \in Seq(Tokens)
        /\ Len(SubSeq(greedy, 1, n)) = IF 1 <= n THEN n - 1 + 1 ELSE 0
        /\ \A i \in 1..(n - 1 + 1) : SubSeq(greedy, 1, n)[i] = greedy[1 + i - 1]
    <3>1. 1 \in Int /\ n \in Int
      BY <1>1
    <3> QED BY <1>2, <3>1, SubSeqProperties
  <2>2. n \in Nat
    BY <1>1
  <2> QED BY <2>1, <2>2
<1> QED BY <1>1, <1>3, ConcatProperties DEF Context

\* A cache shows the target the continuation so far if its first tokens are it.
LEMMA SeesIs ==
  ASSUME TypeOK, NEW a \in Seq(Tokens), NEW n \in 0..Horizon, Len(Prompt) + n <= Len(a)
  PROVE Sees(Cells(a), n) <=> SubSeq(a, 1, Len(Prompt) + n) = Context(n)
<1>1. Len(Prompt) + n \in 0..Len(a)
  BY DecodeAssumption DEF Horizon
<1>2. Cut(Cells(a), Len(Prompt) + n) = Cells(SubSeq(a, 1, Len(Prompt) + n))
  BY <1>1, CutCells
<1>3. SubSeq(a, 1, Len(Prompt) + n) \in Seq(Tokens)
  BY <1>1
<1> QED BY <1>2, <1>3, ContextIs, CellsInjective DEF Sees

\* When every slice holds the same tokens, of which the first are the
\* continuation so far, the target predicts its next token.
LEMMA PredictsGreedy ==
  ASSUME TypeOK, NEW a \in Seq(Tokens), NEW n \in 0..(Horizon - 1),
         Len(Prompt) + n <= Len(a),
         front = Cells(a), \A h \in Hops : peer[h] = Holds(a),
         SubSeq(a, 1, Len(Prompt) + n) = Context(n)
  PROVE Predictions(n) = {greedy[n + 1]}
<1>1. n \in 0..Horizon
  BY DecodeAssumption DEF Horizon
<1>2. Sees(Cells(a), n)
  BY <1>1, SeesIs
<1> QED BY <1>2 DEF Predictions, Holds

LEMMA PredictionsAreTokens ==
  ASSUME TypeOK, NEW n \in 0..(Horizon - 1)
  PROVE Predictions(n) \subseteq Tokens
<1>1. n + 1 \in 1..Horizon
  BY DecodeAssumption DEF Horizon
<1> QED BY <1>1 DEF Predictions, TypeOK

\* The accepted drafts are a prefix, and the next one is refused or there is
\* none.
LEMMA AcceptedIs ==
  /\ Accepted \in 0..K
  /\ \A i \in 1..Accepted : Target(i) = drafts[i]
  /\ Accepted = K \/ Target(Accepted + 1) # drafts[Accepted + 1]
<1> DEFINE Stops == {n \in 0..K : n = K \/ Target(n + 1) # drafts[n + 1]}
<1>1. Stops \subseteq Nat /\ K \in Stops
  BY DecodeAssumption
<1>2. PICK n \in Stops : \A m \in Stops : n <= m
  <2> HIDE DEF Stops
  <2> QED BY <1>1, Least
<1>3. ASSUME NEW i \in 1..n PROVE Target(i) = drafts[i]
  <2>1. i - 1 \in 0..K /\ i - 1 < n /\ i - 1 + 1 = i
    BY DecodeAssumption
  <2> HIDE DEF Target
  <2> QED BY <1>2, <2>1
<1>4. \E m \in 0..K : /\ \A i \in 1..m : Target(i) = drafts[i]
                      /\ m = K \/ Target(m + 1) # drafts[m + 1]
  <2> HIDE DEF Target
  <2> QED BY <1>2, <1>3
<1> QED
  <2> HIDE DEF Target
  <2> QED BY <1>4 DEF Accepted

\* What is said of the tokens of a round.
LEMMA SaidOfIs ==
  ASSUME NEW toks \in Seq(Tokens), toks # <<>>, Said \in Nat, Said < MaxNew
  PROVE \E n \in 1..Len(toks) :
          /\ SaidOf(toks) = SubSeq(toks, 1, n)
          /\ Said + n <= MaxNew
          /\ \A i \in 1..(n - 1) : toks[i] # Eos
          /\ n = Len(toks) \/ Said + n = MaxNew \/ toks[n] = Eos
<1> DEFINE Ends(n) == n = Len(toks) \/ Said + n = MaxNew \/ (n > 0 /\ toks[n] = Eos)
           Stops == {n \in 0..Len(toks) : Ends(n)}
           Good(n) == /\ Said + n <= MaxNew
                      /\ \A i \in 1..(n - 1) : toks[i] # Eos
                      /\ Ends(n)
           N == CHOOSE n \in 0..Len(toks) : Good(n)
<1>0. Len(toks) \in Nat \ {0} /\ MaxNew \in Nat
  BY DecodeAssumption
<1>1. Stops \subseteq Nat /\ Len(toks) \in Stops
  BY <1>0
<1>2. PICK n \in Stops : \A m \in Stops : n <= m
  <2> HIDE DEF Stops
  <2> QED BY <1>1, Least
<1>3. Said + n <= MaxNew
  <2>1. MaxNew - Said \in 0..Len(toks) => MaxNew - Said \in Stops
    BY <1>0
  <2>2. n \in 0..Len(toks)
    OBVIOUS
  <2> HIDE DEF Stops, Ends
  <2> QED BY <1>0, <1>2, <2>1, <2>2
<1>4. ASSUME NEW i \in 1..(n - 1) PROVE toks[i] # Eos
  <2>1. i \in 0..Len(toks) /\ i > 0 /\ i < n
    BY <1>0, <1>2
  <2> QED BY <1>1, <1>2, <2>1
<1>5. Good(n)
  BY <1>2, <1>3, <1>4
<1>6. N \in 0..Len(toks) /\ Good(N)
  <2> HIDE DEF Good
  <2> QED BY <1>2, <1>5
<1>7. N > 0
  <2> HIDE DEF N
  <2> QED BY <1>0, <1>6
<1>8. SaidOf(toks) = SubSeq(toks, 1, N)
  BY DEF SaidOf
<1> QED
  <2> HIDE DEF N
  <2> QED BY <1>0, <1>6, <1>7, <1>8

LEMMA Assoc ==
  \A r, s, t \in Seq(Tokens) : (r \o s) \o t = r \o (s \o t)
<1> TAKE r, s, t \in Seq(Tokens)
<1> QED BY ONLY r \in Seq(Tokens), s \in Seq(Tokens), t \in Seq(Tokens), ConcatAssociative

\* What is committed is the continuation so far.
LEMMA TextIs ==
  ASSUME DecodeInv
  PROVE /\ Said \in 0..MaxNew
        /\ Text \in Seq(Tokens) /\ Len(Text) = Len(Prompt) + Said
        /\ Text = Context(Said)
        /\ \A i \in 1..Said : out[i] = greedy[i]
<1>1. Said \in 0..MaxNew /\ out \in Seq(Tokens) /\ MaxNew \in Nat /\ Said \in 0..Horizon
  BY DecodeAssumption DEF DecodeInv, TypeOK, Said, Horizon
<1>2. out = SubSeq(greedy, 1, Said)
  BY DEF DecodeInv, SaidIsGreedy
<1>3. \A i \in 1..Said : SubSeq(greedy, 1, Said)[i] = greedy[i]
  BY <1>1, ContextIs DEF DecodeInv
<1>4. Text \in Seq(Tokens) /\ Len(Text) = Len(Prompt) + Said
  BY <1>1, DecodeAssumption, ConcatProperties DEF Text, Said
<1>5. \A i \in 1..Said : out[i] = greedy[i]
  BY <1>2, <1>3
<1> QED BY <1>1, <1>2, <1>4, <1>5 DEF Text, Context

\* The settled tokens and those of the step make up the whole.
LEMMA WholeIs ==
  ASSUME DecodeInv, Travelling
  PROVE /\ Settled \in Seq(Tokens) /\ Carried \in Seq(Tokens) /\ Whole \in Seq(Tokens)
        /\ Settled \o Carried = Whole
        /\ Len(Settled) + Len(Carried) = Len(Whole)
<1> USE DEF DecodeInv
<1>1. out \in Seq(Tokens) /\ drafts \in Seq(Tokens) /\ Prompt \in Seq(Tokens)
  BY DecodeAssumption DEF TypeOK
<1>2. CASE pc = "prefill"
  <2>1. Settled = <<>> /\ Carried = Prompt /\ Whole = Prompt \o <<>>
    BY <1>2 DEF Settled, Carried, Whole, Text, PlacesOK
  <2> QED BY <1>1, <2>1
<1>3. CASE pc = "verify"
  <2>1. Settled = Text /\ Carried = drafts /\ Whole = Text \o drafts
    BY <1>3 DEF Settled, Carried, Whole
  <2> QED BY <1>1, <2>1, TextIs, ConcatProperties
<1>4. CASE pc \in {"step", "commit"}
  <2>1. /\ Settled = Prompt \o SubSeq(out, 1, Said - 1)
        /\ Carried = <<out[Said]>> /\ Whole = Prompt \o out /\ Said > 0
    BY <1>4 DEF Settled, Carried, Whole, Text, PlacesOK
  <2>2. Said \in 1..Len(out)
    BY <2>1, TextIs DEF Said
  <2>3. SubSeq(out, 1, Said - 1) \in Seq(Tokens) /\ <<out[Said]>> \in Seq(Tokens)
    BY <1>1, <2>2
  <2>4. SubSeq(out, 1, Said - 1) \o <<out[Said]>> = out
    <3>1. SubSeq(out, 1, Said) = SubSeq(out, 1, Said - 1) \o <<out[Said]>>
      BY <1>1, <2>2, SubSeqRecursiveSecond
    <3>2. SubSeq(out, 1, Said) = out
      BY <1>1, SubSeqFull DEF Said
    <3> QED BY <3>1, <3>2
  <2>5. Settled \o Carried = Whole
    <3> DEFINE s == SubSeq(out, 1, Said - 1)
               t == <<out[Said]>>
    <3>1. (Prompt \o s) \o t = Prompt \o (s \o t)
      <4>1. s \in Seq(Tokens) /\ t \in Seq(Tokens)
        BY <2>3
      <4> HIDE DEF s, t
      <4> QED BY <1>1, <4>1, Assoc, Zenon
    <3> QED BY <2>1, <2>4, <3>1, Zenon
  <2>6. Settled \in Seq(Tokens) /\ Carried \in Seq(Tokens)
    BY <1>1, <2>1, <2>3, ConcatProperties
  <2> QED BY <2>5, <2>6, ConcatProperties
<1> QED BY <1>2, <1>3, <1>4 DEF Travelling

\* The tokens of a round are the continuation: the accepted drafts because they
\* agree with the target one after another, and then the target's own.
LEMMA EmittedIs ==
  ASSUME DecodeInv, pc = "match", NEW j, j = Accepted
  PROVE /\ j \in 0..K
        /\ Emitted(j) \in Seq(Tokens) /\ Len(Emitted(j)) = j + 1
        /\ Emitted(j) = SubSeq(drafts, 1, j) \o <<Emitted(j)[j + 1]>>
        /\ \A i \in 1..(j + 1) : Emitted(j)[i] = greedy[Said + i]
        /\ \A i \in 1..j : drafts[i] = greedy[Said + i]
<1> USE DEF DecodeInv
<1>0. /\ K \in Nat /\ Said \in Nat /\ Said < MaxNew /\ MaxNew \in Nat
      /\ Horizon = MaxNew + K + 1 /\ greedy \in [1..Horizon -> Tokens]
  BY DecodeAssumption, TextIs DEF PlacesOK, Horizon, TypeOK
<1>1. j \in 0..K /\ \A i \in 1..j : Target(i) = drafts[i]
  BY AcceptedIs
<1>2. ASSUME NEW i \in 1..(K + 1), \A l \in 1..(i - 1) : drafts[l] = greedy[Said + l]
      PROVE Target(i) = greedy[Said + i]
  <2>1. CASE i = 1
    BY <2>1, <1>0 DEF Target, SaidIsGreedy, Resting
  <2>2. CASE i # 1
    <3>1. i - 1 \in 1..K /\ Said + (i - 1) + 1 = Said + i
      BY <1>0, <2>2
    <3>2. preds[i - 1] = greedy[Said + (i - 1) + 1]
      BY <1>2, <3>1 DEF PredictionsOK
    <3> QED BY <2>2, <3>1, <3>2 DEF Target
  <2> QED BY <2>1, <2>2
<1>3. \A i \in 1..j : drafts[i] = greedy[Said + i]
  <2> DEFINE Bad == {i \in 1..j : drafts[i] # greedy[Said + i]}
  <2> SUFFICES ASSUME Bad # {} PROVE FALSE
    OBVIOUS
  <2>1. Bad \subseteq Nat
    BY <1>0, <1>1
  <2>2. PICK i \in Bad : \A m \in Bad : i <= m
    <3> HIDE DEF Bad
    <3> QED BY <2>1, Least
  <2>3. ASSUME NEW l \in 1..(i - 1) PROVE drafts[l] = greedy[Said + l]
    BY <1>0, <1>1, <2>2
  <2>4. i \in 1..(K + 1)
    BY <1>0, <1>1
  <2>5. Target(i) = greedy[Said + i]
    BY <1>2, <2>3, <2>4
  <2> QED BY <1>1, <2>5
<1>4. Target(j + 1) = greedy[Said + (j + 1)] /\ greedy[Said + (j + 1)] \in Tokens
  <2>1. j + 1 \in 1..(K + 1) /\ Said + (j + 1) \in 1..Horizon
    BY <1>0, <1>1
  <2>2. \A l \in 1..((j + 1) - 1) : drafts[l] = greedy[Said + l]
    BY <1>0, <1>1, <1>3
  <2>3. Target(j + 1) = greedy[Said + (j + 1)]
    BY <1>2, <2>1, <2>2
  <2> QED BY <1>0, <2>1, <2>3
<1>5. /\ SubSeq(drafts, 1, j) \in Seq(Tokens) /\ Len(SubSeq(drafts, 1, j)) = j
      /\ \A i \in 1..j : SubSeq(drafts, 1, j)[i] = drafts[i]
  <2>1. drafts \in Seq(Tokens) /\ Len(drafts) = K
    BY DEF TypeOK, DraftOK
  <2> QED BY <1>0, <1>1, <2>1
<1>6. <<Target(j + 1)>> \in Seq(Tokens)
  BY <1>4
<1>7. /\ Emitted(j) \in Seq(Tokens) /\ Len(Emitted(j)) = j + 1
      /\ \A i \in 1..(j + 1) :
           Emitted(j)[i] = IF i <= j THEN drafts[i] ELSE Target(j + 1)
  <2> HIDE DEF Target
  <2>1. /\ Emitted(j) \in Seq(Tokens) /\ Len(Emitted(j)) = j + 1
        /\ \A i \in 1..(j + 1) :
             Emitted(j)[i] = IF i <= j THEN SubSeq(drafts, 1, j)[i]
                             ELSE <<Target(j + 1)>>[i - j]
    BY <1>0, <1>1, <1>5, <1>6, ConcatProperties DEF Emitted
  <2>2. ASSUME NEW i \in 1..(j + 1), ~(i <= j) PROVE i - j = 1
    BY <1>0, <1>1, <2>2
  <2> QED BY <1>5, <2>1, <2>2, <1>0, <1>1
<1>8. ASSUME NEW i \in 1..(j + 1) PROVE Emitted(j)[i] = greedy[Said + i]
  <2>1. CASE i <= j
    BY <1>0, <1>1, <1>3, <1>7, <2>1
  <2>2. CASE i = j + 1
    BY <1>0, <1>1, <1>4, <1>7, <2>2
  <2>3. i <= j \/ i = j + 1
    BY <1>0, <1>1
  <2> QED BY <2>1, <2>2, <2>3, Zenon
<1>9. Emitted(j)[j + 1] = Target(j + 1)
  BY <1>0, <1>1, <1>7
<1> QED BY <1>1, <1>3, <1>7, <1>8, <1>9 DEF Emitted

-----------------------------------------------------------------------------
(* The steps of the chain keep the invariant.                                 *)

\* The invariant, read where a step is on its way; once it is back, every peer
\* has taken it in.
LEMMA OnTheWay ==
  ASSUME DecodeInv, Travelling
  PROVE /\ hop \in 1..(NumHops + 1) /\ NumHops \in Nat \ {0}
        /\ fly.toks = Carried /\ fly.keep = IF pc = "commit" THEN Len(Text) - 1 ELSE None
        /\ front = Cells(Whole)
        /\ \A h \in Hops : h < hop => peer[h] = Holds(Whole)
        /\ \A h \in Hops : ~(h < hop) => /\ PeerCut(peer[h]) = Cells(Settled)
                                         /\ PeerBase(peer[h]) = Len(Settled)
        /\ hop = NumHops + 1 => \A h \in Hops : peer[h] = Holds(Whole)
        /\ ~Resting
<1>1. ~Resting
  BY DEF Travelling, Resting
<1>2. /\ hop \in 1..(NumHops + 1)
      /\ fly.toks = Carried /\ fly.keep = IF pc = "commit" THEN Len(Text) - 1 ELSE None
      /\ front = Cells(Whole)
      /\ \A h \in Hops : h < hop => peer[h] = Holds(Whole)
      /\ \A h \in Hops : ~(h < hop) => /\ PeerCut(peer[h]) = Cells(Settled)
                                       /\ PeerBase(peer[h]) = Len(Settled)
  BY Zenon DEF DecodeInv, TargetOK
<1>3. NumHops \in Nat \ {0}
  BY DecodeAssumption
<1>4. hop = NumHops + 1 => \A h \in Hops : h < hop
  BY <1>3 DEF Hops
<1> QED BY <1>1, <1>2, <1>3, <1>4, Zenon

LEMMA NoCells == Cells(<<>>) = <<>> /\ <<>> \in KV
<1>1. <<>> \in Seq(Tokens) /\ Len(<<>>) = 0
  OBVIOUS
<1>2. Cells(<<>>) \in KV /\ Len(Cells(<<>>)) = 0
  BY <1>1, CellsAre
<1> QED BY <1>2, EmptySeq DEF KV

LEMMA HoldsType ==
  ASSUME NEW a \in Seq(Tokens)
  PROVE Holds(a) \in [kv: KV, pos: Nat]
BY CellsAre DEF Holds

LEMMA StartKeeps ==
  ASSUME DecodeInv, Start
  PROVE DecodeInv'
<1> USE DEF DecodeInv
<1>0. /\ Prompt \in Seq(Tokens) /\ Prompt # <<>> /\ out = <<>> /\ NumHops \in Nat \ {0}
      /\ None \notin Nat
  BY DecodeAssumption DEF PlacesOK, Start
<1>2. front' = Cells(Prompt) /\ Cells(Prompt) \in KV
  BY <1>0, CellsAre DEF Start, Launch, Cells
<1>3. /\ pc' = "prefill" /\ hop' = 1 /\ fly' = [toks |-> Prompt, keep |-> None]
      /\ peer' = [h \in Hops |-> [kv |-> <<>>, pos |-> 0]] /\ result' = "running"
      /\ UNCHANGED <<greedy, spec, out, pending, preds, pos, drafts, task>>
      /\ draft' = IF spec THEN <<>> ELSE draft
  BY DEF Start, Launch
<1>4. TypeOK'
  BY <1>0, <1>2, <1>3, NoCells DEF TypeOK, Stages
<1>5. PlacesOK' /\ SaidIsGreedy' /\ PredictionsOK'
  BY <1>0, <1>3 DEF PlacesOK, SaidIsGreedy, PredictionsOK, Resting, Said
<1>6. TargetOK'
  <2>1. Whole' = Prompt /\ Settled' = <<>> /\ Carried' = Prompt
    BY <1>0, <1>3 DEF Whole, Text, Settled, Carried
  <2>2. Travelling' /\ ~Resting'
    BY <1>3 DEF Travelling, Resting
  <2>3. ASSUME NEW h \in Hops
        PROVE /\ ~(h < hop') /\ PeerCut(peer[h])' = Cells(<<>>) /\ PeerBase(peer[h])' = Len(<<>>)
    BY <1>0, <1>3, NoCells DEF Hops, PeerCut, PeerBase
  <2> QED BY <1>0, <1>2, <1>3, <2>1, <2>2, <2>3 DEF TargetOK
<1>7. DraftOK'
  BY <1>3 DEF DraftOK, Start
<1> QED BY <1>4, <1>5, <1>6, <1>7

LEMMA HopKeeps ==
  ASSUME DecodeInv, Hop
  PROVE DecodeInv'
<1> USE DEF DecodeInv
<1>0. Travelling /\ hop \in Hops
  BY DEF Hop, InChain, Travelling
<1>1. /\ Settled \in Seq(Tokens) /\ Carried \in Seq(Tokens) /\ Whole \in Seq(Tokens)
      /\ Settled \o Carried = Whole /\ Len(Settled) + Len(Carried) = Len(Whole)
  BY <1>0, WholeIs
<1>2. /\ hop' = hop + 1
      /\ UNCHANGED <<greedy, spec, pc, fly, out, pending, preds, pos, drafts, front,
                     draft, task, result>>
  BY DEF Hop, draftVars
<1>3. /\ fly.toks = Carried /\ PeerCut(peer[hop]) = Cells(Settled)
      /\ PeerBase(peer[hop]) = Len(Settled) /\ NumHops \in Nat \ {0} /\ hop \in 1..NumHops
  <2>1. ~(hop < hop)
    BY <1>0 DEF Hops
  <2> QED BY <1>0, <2>1, OnTheWay DEF Hops
<1>4. peer' = [peer EXCEPT ![hop] = Holds(Whole)]
  BY <1>1, <1>3, FedCells DEF Holds, Hop
<1>5. \A h \in Hops : peer'[h] = IF h = hop THEN Holds(Whole) ELSE peer[h]
  BY <1>4 DEF TypeOK
<1>6. TypeOK'
  <2>1. peer' \in [Hops -> [kv: KV, pos: Nat]]
    BY <1>1, <1>4, HoldsType DEF TypeOK
  <2>2. hop' \in 0..(NumHops + 1)
    BY <1>2, <1>3
  <2> QED BY <1>2, <2>1, <2>2 DEF TypeOK
<1>7. /\ Whole' = Whole /\ Settled' = Settled /\ Carried' = Carried /\ Text' = Text
      /\ Said' = Said /\ (Travelling' <=> Travelling) /\ (Resting' <=> Resting)
  BY <1>2 DEF Whole, Text, Settled, Carried, Travelling, Resting, Said
<1>8. PlacesOK' /\ SaidIsGreedy' /\ PredictionsOK'
  BY <1>2, <1>7 DEF PlacesOK, SaidIsGreedy, PredictionsOK
<1>9. TargetOK'
  <2>1. ASSUME NEW h \in Hops, h < hop' PROVE peer'[h] = Holds(Whole)
    <3>1. h = hop \/ h < hop
      BY <1>2, <1>3, <2>1 DEF Hops
    <3> QED BY <1>0, <1>5, <3>1, OnTheWay
  <2>2. ASSUME NEW h \in Hops, ~(h < hop')
        PROVE /\ PeerCut(peer[h])' = Cells(Settled) /\ PeerBase(peer[h])' = Len(Settled)
    <3>1. h # hop /\ ~(h < hop)
      BY <1>2, <1>3, <2>2 DEF Hops
    <3>2. peer'[h] = peer[h]
      BY <1>5, <3>1
    <3>3. PeerCut(peer[h])' = PeerCut(peer[h]) /\ PeerBase(peer[h])' = PeerBase(peer[h])
      BY <1>2, <3>2 DEF PeerCut, PeerBase
    <3> QED BY <1>0, <3>1, <3>3, OnTheWay
  <2>3. hop' \in 1..(NumHops + 1)
    BY <1>2, <1>3
  <2> QED BY <1>0, <1>2, <1>7, <2>1, <2>2, <2>3, OnTheWay DEF TargetOK, Holds
<1>10. DraftOK'
  BY <1>2, <1>7 DEF DraftOK
<1> QED BY <1>6, <1>8, <1>9, <1>10

\* Once the turn is over, only what was said matters, and the draft's task.
LEMMA EndKeeps ==
  ASSUME DecodeInv, pc' = "end", result' \in {"ok", "failed"}, TypeOK', DraftOK',
         out' = SubSeq(greedy, 1, Len(out')), greedy' = greedy
  PROVE DecodeInv'
<1>1. PlacesOK' /\ SaidIsGreedy' /\ PredictionsOK'
  BY DEF PlacesOK, SaidIsGreedy, PredictionsOK, Said, Resting
<1>2. TargetOK'
  BY DEF TargetOK, Travelling, Resting
<1> QED BY <1>1, <1>2 DEF DecodeInv

Tasks == [st: {"none", "advance", "propose", "ready", "failed"}, j: 0..K, last: Tokens,
          old: Nat, props: Seq(Tokens)]

LEMMA TaskType ==
  ASSUME NEW st \in {"none", "advance", "propose", "ready", "failed"}, NEW j \in 0..K,
         NEW last \in Tokens, NEW old \in Nat, NEW props \in Seq(Tokens)
  PROVE [st |-> st, j |-> j, last |-> last, old |-> old, props |-> props] \in Tasks
BY DEF Tasks

LEMMA NoTaskType == NoTask \in Tasks /\ NoTask.st = "none"
<1>1. Eos \in Tokens /\ 0 \in 0..K /\ <<>> \in Seq(Tokens)
  BY DecodeAssumption
<1> QED BY <1>1, TaskType DEF NoTask

\* The turn ends with what it has said; a draft task may be left behind.
LEMMA StopKeeps ==
  ASSUME DecodeInv, pc' = "end", result' \in {"ok", "failed"},
         UNCHANGED <<greedy, spec, hop, fly, out, pending, preds, pos, drafts, front, peer,
                     draft>>,
         task' = task \/ task' = NoTask
  PROVE DecodeInv'
<1> USE DEF DecodeInv
<1>1. Text' = Text /\ Said' = Said /\ NoTask.st = "none"
  BY NoTaskType DEF Text, Said
<1>2. TypeOK'
  BY NoTaskType DEF TypeOK, Stages, Tasks
<1>3. DraftOK'
  BY <1>1 DEF DraftOK
<1>4. out' = SubSeq(greedy, 1, Len(out'))
  BY DEF SaidIsGreedy, Said
<1> QED BY <1>2, <1>3, <1>4, EndKeeps

LEMMA HopFailsKeeps == DecodeInv /\ HopFails => DecodeInv'
<1> SUFFICES ASSUME DecodeInv, HopFails PROVE DecodeInv'
  OBVIOUS
<1> QED BY StopKeeps DEF HopFails, targetVars, draftVars

LEMMA DraftFailsKeeps == DecodeInv /\ DraftFails => DecodeInv'
<1> SUFFICES ASSUME DecodeInv, DraftFails PROVE DecodeInv'
  OBVIOUS
<1> QED BY StopKeeps DEF DraftFails, targetVars, draftVars

\* A step that has brought the committed tokens through the chain lets the
\* target predict the next one.
LEMMA ArrivedPredicts ==
  ASSUME DecodeInv, pc \in {"prefill", "step", "commit"}, hop = NumHops + 1
  PROVE /\ Predictions(Said) = {greedy[Said + 1]} /\ greedy[Said + 1] \in Tokens
        /\ front = Cells(Text) /\ \A h \in Hops : peer[h] = Holds(Text)
<1> USE DEF DecodeInv
<1>1. Whole = Text /\ Travelling
  BY DEF Whole, Travelling
<1>2. front = Cells(Text) /\ \A h \in Hops : peer[h] = Holds(Text)
  BY <1>1, OnTheWay
<1>3. /\ Text \in Seq(Tokens) /\ Len(Text) = Len(Prompt) + Said /\ Said \in 0..MaxNew
      /\ Text = Context(Said)
  BY TextIs
<1>4. Said \in 0..(Horizon - 1) /\ Len(Prompt) + Said <= Len(Text)
  BY <1>3, DecodeAssumption DEF Horizon
<1>5. SubSeq(Text, 1, Len(Prompt) + Said) = Context(Said)
  BY <1>3, SubSeqFull
<1>6. Predictions(Said) = {greedy[Said + 1]}
  BY <1>2, <1>3, <1>4, <1>5, PredictsGreedy
<1>7. greedy[Said + 1] \in Tokens
  BY <1>4, <1>6, PredictionsAreTokens
<1> QED BY <1>2, <1>6, <1>7

\* Such a step ends, and the driver goes on with the token predicted.
LEMMA ArrivedKeeps ==
  ASSUME DecodeInv, pc \in {"prefill", "step", "commit"}, hop = NumHops + 1,
         pending' \in Predictions(Said), pos' = Len(Text),
         pc' = IF spec THEN "join" ELSE "next",
         UNCHANGED <<greedy, spec, hop, fly, out, preds, drafts, front, peer, result>>,
         TypeOK', DraftOK'
  PROVE DecodeInv'
<1> USE DEF DecodeInv
<1>1. pending' = greedy[Said + 1] /\ front = Cells(Text) /\ \A h \in Hops : peer[h] = Holds(Text)
  BY ArrivedPredicts
<1>2. /\ Text' = Text /\ Said' = Said /\ Whole' = Text /\ Resting' /\ ~Travelling'
      /\ pc' \in {"join", "next"}
  BY DEF Text, Said, Whole, Resting, Travelling
<1>3. result = "running"
  BY DEF PlacesOK
<1>4. PlacesOK'
  BY <1>2, <1>3 DEF PlacesOK
<1>5. SaidIsGreedy'
  BY <1>1, <1>2 DEF SaidIsGreedy
<1>6. TargetOK'
  BY <1>1, <1>2 DEF TargetOK
<1>7. PredictionsOK'
  BY <1>2 DEF PredictionsOK
<1> QED BY <1>4, <1>5, <1>6, <1>7

LEMMA HeadPrefillKeeps ==
  ASSUME DecodeInv, HeadPrefill
  PROVE DecodeInv'
<1> USE DEF DecodeInv
<1>0. pc = "prefill" /\ hop = NumHops + 1 /\ out = <<>> /\ Said = 0
  BY DEF HeadPrefill, AtHead, PlacesOK, Said
<1>1. /\ Text = Prompt /\ Prompt \in Seq(Tokens) /\ Len(Prompt) \in Nat
      /\ Eos \in Tokens /\ K \in Nat /\ K >= 2
  BY <1>0, DecodeAssumption DEF Text
<1>2. /\ pending' \in Predictions(Said) /\ pos' = Len(Text)
      /\ pc' = IF spec THEN "join" ELSE "next"
      /\ UNCHANGED <<greedy, spec, hop, fly, out, preds, drafts, front, peer, result>>
  BY <1>0, <1>1 DEF HeadPrefill, targetVars
<1>3. pending' \in Tokens
  BY <1>0, <1>2, ArrivedPredicts
<1>4. ~spec => draft' = draft /\ task' = task
  BY DEF HeadPrefill, draftVars
<1>5. spec => /\ draft' = Cells(Prompt)
              /\ task' = [st |-> "propose", j |-> 0, last |-> Eos, old |-> Len(Prompt),
                          props |-> <<>>]
  BY <1>0 DEF HeadPrefill, DraftOK, Cells, NoTask
<1>6. Cells(Prompt) \in KV
  BY <1>1, CellsAre
<1>7. TypeOK'
  <2>1. draft' \in KV
    BY <1>4, <1>5, <1>6 DEF TypeOK
  <2>2. task' \in Tasks
    <3>1. spec => task' \in Tasks
      <4>1. /\ "propose" \in {"none", "advance", "propose", "ready", "failed"}
            /\ 0 \in 0..K /\ <<>> \in Seq(Tokens)
        BY <1>1
      <4>2. [st |-> "propose", j |-> 0, last |-> Eos, old |-> Len(Prompt),
             props |-> <<>>] \in Tasks
        BY <1>1, <4>1, TaskType
      <4> QED BY <1>5, <4>2
    <3>2. ~spec => task' \in Tasks
      BY <1>4 DEF TypeOK, Tasks
    <3> QED BY <3>1, <3>2
  <2> QED BY <1>1, <1>2, <1>3, <2>1, <2>2 DEF TypeOK, Stages, Tasks
<1>8. DraftOK'
  <2>1. CASE spec
    <3>1. Text' \o <<>> = Prompt /\ Text' = Prompt
      BY <1>0, <1>1, <1>2 DEF Text
    <3>2. /\ task'.st = "propose" /\ task'.old = Len(Prompt) /\ task'.props = <<>>
          /\ draft' = Cells(Prompt) /\ pc' = "join" /\ spec'
      BY <1>2, <1>5, <2>1
    <3> QED BY <1>1, <3>1, <3>2 DEF DraftOK
  <2>2. CASE ~spec
    BY <1>0, <1>2, <1>4, <2>2 DEF DraftOK
  <2> QED BY <2>1, <2>2
<1> QED BY <1>0, <1>2, <1>7, <1>8, ArrivedKeeps

LEMMA HeadStepKeeps ==
  ASSUME DecodeInv, HeadStep
  PROVE DecodeInv'
<1> USE DEF DecodeInv
<1>0. pc = "step" /\ hop = NumHops + 1 /\ ~spec /\ pos = Len(Text) - 1 /\ Len(Text) \in Nat
  BY TextIs DEF HeadStep, AtHead, PlacesOK, TargetOK
<1>1. /\ pending' \in Predictions(Said) /\ pos' = Len(Text) /\ pc' = "next"
      /\ UNCHANGED <<greedy, spec, hop, fly, out, preds, drafts, front, peer, result, draft, task>>
  BY <1>0 DEF HeadStep, targetVars, draftVars
<1>2. pending' \in Tokens
  BY <1>0, <1>1, ArrivedPredicts
<1>3. TypeOK'
  BY <1>0, <1>1, <1>2 DEF TypeOK, Stages
<1>4. DraftOK'
  BY <1>0, <1>1 DEF DraftOK
<1> QED BY <1>0, <1>1, <1>3, <1>4, ArrivedKeeps

LEMMA HeadCommitKeeps ==
  ASSUME DecodeInv, HeadCommit
  PROVE DecodeInv'
<1> USE DEF DecodeInv
<1>0. pc = "commit" /\ hop = NumHops + 1 /\ spec /\ Travelling
  BY DEF HeadCommit, AtHead, PlacesOK, Travelling
<1>1. fly.keep = Len(Text) - 1 /\ Len(Text) \in Nat
  BY <1>0, OnTheWay, TextIs
<1>2. /\ pending' \in Predictions(Said) /\ pos' = Len(Text) /\ pc' = "join"
      /\ UNCHANGED <<greedy, spec, hop, fly, out, preds, drafts, front, peer, result, draft, task>>
  BY <1>1 DEF HeadCommit, targetVars, draftVars
<1>3. pending' \in Tokens
  BY <1>0, <1>2, ArrivedPredicts
<1>4. TypeOK'
  BY <1>1, <1>2, <1>3 DEF TypeOK, Stages
<1>5. DraftOK'
  <2>1. Text' = Text /\ Said' = Said
    BY <1>2 DEF Text, Said
  <2> QED BY <1>0, <1>2, <2>1 DEF DraftOK
<1> QED BY <1>0, <1>2, <1>4, <1>5, ArrivedKeeps

\* A continuation that is one token longer.
LEMMA SayNext ==
  ASSUME DecodeInv, Said < MaxNew, pending = greedy[Said + 1]
  PROVE /\ Append(out, pending) = SubSeq(greedy, 1, Said + 1)
        /\ Append(out, pending) \in Seq(Tokens) /\ Len(Append(out, pending)) = Said + 1
        /\ Append(out, pending)[Said + 1] = pending
        /\ \A i \in 1..Said : Append(out, pending)[i] = out[i]
        /\ SubSeq(Append(out, pending), 1, Said) = out
<1> USE DEF DecodeInv
<1>1. /\ out \in Seq(Tokens) /\ pending \in Tokens /\ Said = Len(out) /\ Said \in Nat
      /\ MaxNew \in Nat /\ Said + 1 \in 0..Horizon
  BY DecodeAssumption, TextIs DEF TypeOK, Said, Horizon
<1>2. /\ SubSeq(greedy, 1, Said + 1) \in Seq(Tokens) /\ Len(SubSeq(greedy, 1, Said + 1)) = Said + 1
      /\ \A i \in 1..(Said + 1) : SubSeq(greedy, 1, Said + 1)[i] = greedy[i]
  BY <1>1, ContextIs
<1>3. /\ Append(out, pending) \in Seq(Tokens) /\ Len(Append(out, pending)) = Said + 1
      /\ Append(out, pending)[Said + 1] = pending
      /\ \A i \in 1..Said : Append(out, pending)[i] = out[i]
  BY <1>1, AppendProperties
<1>4. ASSUME NEW i \in 1..(Said + 1)
      PROVE Append(out, pending)[i] = SubSeq(greedy, 1, Said + 1)[i]
  <2>1. i \in 1..Said \/ i = Said + 1
    BY <1>1
  <2>2. \A k \in 1..Said : out[k] = greedy[k]
    BY TextIs
  <2> QED BY <1>2, <1>3, <2>1, <2>2
<1>5. Append(out, pending) = SubSeq(greedy, 1, Said + 1)
  BY <1>2, <1>3, <1>4, SeqEqual
<1>6. SubSeq(Append(out, pending), 1, Said) = out
  BY <1>1
<1> QED BY <1>3, <1>5, <1>6

LEMMA PlainNextKeeps ==
  ASSUME DecodeInv, PlainNext
  PROVE DecodeInv'
<1> USE DEF DecodeInv
<1>0. /\ pc = "next" /\ ~spec /\ Resting /\ ~Travelling /\ result = "running" /\ task.st = "none"
      /\ pending = greedy[Said + 1]
  BY DEF PlainNext, PlacesOK, Resting, Travelling, DraftOK, SaidIsGreedy
<1>1. CASE pending = Eos \/ Said >= MaxNew
  BY <1>1, StopKeeps DEF PlainNext, targetVars, draftVars
<1>2. CASE ~(pending = Eos \/ Said >= MaxNew)
  <2>1. /\ out' = Append(out, pending) /\ pc' = "step" /\ hop' = 1
        /\ fly' = [toks |-> <<pending>>, keep |-> None]
        /\ front' = Fed(front, <<pending>>, pos)
        /\ UNCHANGED <<greedy, spec, pending, preds, pos, drafts, peer, draft, task, result>>
    BY <1>2 DEF PlainNext, Launch, draftVars
  <2>2. /\ Text \in Seq(Tokens) /\ Len(Text) = Len(Prompt) + Said /\ Said \in 0..MaxNew
        /\ pending \in Tokens /\ MaxNew \in Nat /\ NumHops \in Nat \ {0} /\ Said < MaxNew
        /\ Prompt \in Seq(Tokens) /\ out \in Seq(Tokens)
    BY <1>2, TextIs, DecodeAssumption DEF TypeOK
  <2>3. /\ out' = SubSeq(greedy, 1, Said + 1) /\ out' \in Seq(Tokens) /\ Len(out') = Said + 1
        /\ out'[Said + 1] = pending /\ \A i \in 1..Said : out'[i] = out[i]
        /\ SubSeq(out', 1, Said) = out
    BY <1>0, <2>1, <2>2, SayNext
  <2>4. front = Cells(Text) /\ pos = Len(Text) /\ \A h \in Hops : peer[h] = Holds(Text)
    BY <1>0, Zenon DEF TargetOK, Whole
  <2>5. /\ Said' = Said + 1 /\ Text' = Text \o <<pending>> /\ Whole' = Text' /\ Travelling'
        /\ ~Resting' /\ Settled' = Text /\ Carried' = <<pending>>
    <3>1. Said' = Said + 1 /\ Travelling' /\ ~Resting' /\ Whole' = Text'
      BY <2>1, <2>3 DEF Said, Travelling, Resting, Whole
    <3>2. Text' = Text \o <<pending>>
      <4>1. out' = out \o <<pending>>
        BY <2>1, <2>2, AppendIsConcat
      <4>2. Text' = Prompt \o (out \o <<pending>>)
        BY <2>1, <4>1 DEF Text
      <4>3. <<pending>> \in Seq(Tokens)
        BY <2>2
      <4> QED BY <2>2, <4>2, <4>3, Assoc DEF Text
    <3>3. Carried' = <<pending>>
      BY <2>1, <2>3, <3>1 DEF Carried
    <3>4. Settled' = Text
      <4>1. Said' - 1 = Said
        BY <2>2, <3>1
      <4>2. Settled' = Prompt \o SubSeq(out', 1, Said' - 1)
        BY <2>1 DEF Settled
      <4> QED BY <2>3, <4>1, <4>2 DEF Text
    <3> QED BY <3>1, <3>2, <3>3, <3>4
  <2>6. <<pending>> \in Seq(Tokens) /\ Text' \in Seq(Tokens) /\ Len(Text') = Len(Text) + 1
    <3>1. <<pending>> \in Seq(Tokens) /\ Len(<<pending>>) = 1
      BY <2>2
    <3> HIDE DEF DecodeInv
    <3> QED BY <2>2, <2>5, <3>1, ConcatProperties
  <2>7. front' = Cells(Text') /\ front' \in KV
    BY <2>1, <2>2, <2>4, <2>5, <2>6, FedCells, CellsAre
  <2>8. TypeOK'
    <3>1. fly' \in [toks: Seq(Tokens), keep: Nat \cup {None}] /\ hop' \in 0..(NumHops + 1)
      BY <2>1, <2>2, <2>6
    <3> QED BY <2>1, <2>2, <2>3, <2>7, <3>1 DEF TypeOK, Stages
  <2>9. PlacesOK' /\ PredictionsOK'
    BY <1>0, <2>1, <2>2, <2>5 DEF PlacesOK, PredictionsOK
  <2>10. SaidIsGreedy'
    <3>1. \A i \in 1..Said' : out'[i] # Eos
      <4>1. ASSUME NEW i \in 1..Said' PROVE out'[i] # Eos
        <5>1. i \in 1..Said \/ i = Said + 1
          BY <2>2, <2>5
        <5>2. \A k \in 1..Said : out[k] # Eos
          BY <1>0 DEF SaidIsGreedy
        <5> QED BY <1>2, <2>3, <5>1, <5>2
      <4> QED BY <4>1
    <3> QED BY <2>1, <2>3, <2>5, <3>1 DEF SaidIsGreedy
  <2>11. TargetOK'
    <3>1. ASSUME NEW h \in Hops
          PROVE ~(h < hop') /\ PeerCut(peer[h])' = Cells(Text) /\ PeerBase(peer[h])' = Len(Text)
      BY <2>1, <2>2, <2>4 DEF PeerCut, PeerBase, Hops, Holds
    <3>2. pos' = Len(Text') - 1 /\ hop' \in 1..(NumHops + 1)
      BY <2>1, <2>2, <2>4, <2>6
    <3> QED BY <2>1, <2>5, <2>7, <3>1, <3>2 DEF TargetOK
  <2>12. DraftOK'
    BY <1>0, <2>1 DEF DraftOK
  <2> QED BY <2>8, <2>9, <2>10, <2>11, <2>12
<1> QED BY <1>1, <1>2

LEMMA RoundKeeps ==
  ASSUME DecodeInv, Round
  PROVE DecodeInv'
<1> USE DEF DecodeInv
<1>0. /\ pc = "round" /\ spec /\ Resting /\ ~Travelling /\ result = "running" /\ task.st = "none"
      /\ pending = greedy[Said + 1]
  BY DEF Round, PlacesOK, Resting, Travelling, DraftOK, SaidIsGreedy
<1>1. CASE Said >= MaxNew
  BY <1>1, StopKeeps DEF Round, draftVars
<1>2. CASE ~(Said >= MaxNew)
  <2>1. /\ pc' = "verify" /\ hop' = 1
        /\ fly' = [toks |-> drafts, keep |-> None]
        /\ front' = Fed(front, drafts, pos)
        /\ UNCHANGED <<greedy, spec, out, pending, preds, pos, drafts, peer, draft, task, result>>
    BY <1>2 DEF Round, Launch, draftVars
  <2>2. /\ Text \in Seq(Tokens) /\ Len(Text) \in Nat /\ Said \in 0..MaxNew /\ MaxNew \in Nat
        /\ NumHops \in Nat \ {0} /\ drafts \in Seq(Tokens) /\ Said < MaxNew
    BY <1>2, TextIs, DecodeAssumption DEF TypeOK
  <2>3. front = Cells(Text) /\ pos = Len(Text) /\ \A h \in Hops : peer[h] = Holds(Text)
    BY <1>0, Zenon DEF TargetOK, Whole
  <2>4. /\ Said' = Said /\ Text' = Text /\ Whole' = Text \o drafts /\ Travelling'
        /\ ~Resting' /\ Settled' = Text /\ Carried' = drafts
    BY <2>1 DEF Said, Text, Whole, Travelling, Resting, Settled, Carried
  <2>5. front' = Cells(Text \o drafts) /\ front' \in KV
    <3>1. Text \o drafts \in Seq(Tokens)
      BY <2>2
    <3> QED BY <2>1, <2>2, <2>3, <3>1, FedCells, CellsAre
  <2>6. TypeOK'
    <3>1. fly' \in [toks: Seq(Tokens), keep: Nat \cup {None}] /\ hop' \in 0..(NumHops + 1)
      BY <2>1, <2>2
    <3> QED BY <2>1, <2>2, <2>5, <3>1 DEF TypeOK, Stages
  <2>7. PlacesOK' /\ PredictionsOK' /\ SaidIsGreedy'
    BY <1>0, <2>1, <2>2, <2>4 DEF PlacesOK, PredictionsOK, SaidIsGreedy
  <2>8. TargetOK'
    <3>1. ASSUME NEW h \in Hops
          PROVE ~(h < hop') /\ PeerCut(peer[h])' = Cells(Text) /\ PeerBase(peer[h])' = Len(Text)
      BY <2>1, <2>2, <2>3 DEF PeerCut, PeerBase, Hops, Holds
    <3>2. hop' \in 1..(NumHops + 1)
      BY <2>1, <2>2
    <3> QED BY <2>1, <2>3, <2>4, <2>5, <3>1, <3>2 DEF TargetOK
  <2>9. DraftOK'
    BY <1>0, <2>1, <2>4 DEF DraftOK
  <2> QED BY <2>6, <2>7, <2>8, <2>9
<1> QED BY <1>1, <1>2

\* More of the continuation behind what was said.
LEMMA SayMore ==
  ASSUME DecodeInv, NEW t \in Seq(Tokens), Said + Len(t) <= Horizon,
         \A i \in 1..Len(t) : t[i] = greedy[Said + i]
  PROVE /\ out \o t = SubSeq(greedy, 1, Said + Len(t))
        /\ out \o t \in Seq(Tokens) /\ Len(out \o t) = Said + Len(t)
        /\ \A i \in 1..Said : (out \o t)[i] = out[i]
        /\ \A i \in 1..Len(t) : (out \o t)[Said + i] = t[i]
<1> USE DEF DecodeInv
<1>1. /\ out \in Seq(Tokens) /\ Said = Len(out) /\ Said \in Nat /\ Len(t) \in Nat
      /\ Said + Len(t) \in 0..Horizon /\ \A i \in 1..Said : out[i] = greedy[i]
  <2>1. out \in Seq(Tokens) /\ Said = Len(out) /\ t \in Seq(Tokens)
    BY DEF TypeOK, Said
  <2>2. Said \in Nat /\ Len(t) \in Nat
    BY <2>1
  <2>3. Horizon \in Nat
    BY DecodeAssumption DEF Horizon
  <2>4. \A i \in 1..Said : out[i] = greedy[i]
    BY TextIs
  <2> HIDE DEF DecodeInv
  <2>5. Said + Len(t) \in 0..Horizon
    BY <2>2, <2>3
  <2> QED BY <2>1, <2>2, <2>4, <2>5
<1>2. /\ out \o t \in Seq(Tokens) /\ Len(out \o t) = Said + Len(t)
      /\ \A i \in 1..(Said + Len(t)) :
           (out \o t)[i] = IF i <= Said THEN out[i] ELSE t[i - Said]
  <2>1. out \in Seq(Tokens) /\ t \in Seq(Tokens)
    BY <1>1
  <2>2. /\ out \o t \in Seq(Tokens) /\ Len(out \o t) = Len(out) + Len(t)
        /\ \A i \in 1..(Len(out) + Len(t)) :
             (out \o t)[i] = IF i <= Len(out) THEN out[i] ELSE t[i - Len(out)]
    BY ONLY <2>1, ConcatProperties
  <2>3. Len(out) = Said
    BY <1>1
  <2> QED BY ONLY <2>2, <2>3, Zenon
<1>3. /\ SubSeq(greedy, 1, Said + Len(t)) \in Seq(Tokens)
      /\ Len(SubSeq(greedy, 1, Said + Len(t))) = Said + Len(t)
      /\ \A i \in 1..(Said + Len(t)) : SubSeq(greedy, 1, Said + Len(t))[i] = greedy[i]
  BY <1>1, ContextIs
<1>4. ASSUME NEW i \in 1..(Said + Len(t)) PROVE (out \o t)[i] = greedy[i]
  <2>1. CASE i <= Said
    BY <1>1, <1>2, <2>1
  <2>2. CASE ~(i <= Said)
    <3>1. i - Said \in 1..Len(t) /\ Said + (i - Said) = i
      BY <1>1, <2>2
    <3> QED BY <1>2, <2>2, <3>1
  <2> QED BY <2>1, <2>2
<1>5. out \o t = SubSeq(greedy, 1, Said + Len(t))
  BY <1>2, <1>3, <1>4, SeqEqual
<1>6. \A i \in 1..Len(t) : (out \o t)[Said + i] = t[i]
  <2> TAKE i \in 1..Len(t)
  <2>1. Said + i \in 1..(Said + Len(t)) /\ ~(Said + i <= Said) /\ (Said + i) - Said = i
    BY <1>1
  <2> QED BY <1>2, <2>1
<1>7. \A i \in 1..Said : (out \o t)[i] = out[i]
  BY <1>1, <1>2
<1> QED BY <1>2, <1>5, <1>6, <1>7

\* The committed tokens and the right ones of some drafts are the continuation.
LEMMA DraftsShow ==
  ASSUME DecodeInv, NEW d \in Seq(Tokens), NEW i \in 0..Len(d), Said + i <= Horizon,
         \A l \in 1..i : d[l] = greedy[Said + l]
  PROVE SubSeq(Text \o d, 1, Len(Prompt) + (Said + i)) = Context(Said + i)
<1> USE DEF DecodeInv
<1> DEFINE t == SubSeq(d, 1, i)
           s == SubSeq(Text \o d, 1, Len(Prompt) + (Said + i))
<1>1. t \in Seq(Tokens) /\ Len(t) = i /\ \A l \in 1..i : t[l] = d[l]
  OBVIOUS
<1>2. /\ Text \in Seq(Tokens) /\ Len(Text) = Len(Prompt) + Said /\ Said \in Nat
      /\ Prompt \in Seq(Tokens) /\ Len(Prompt) \in Nat /\ out \in Seq(Tokens) /\ Len(d) \in Nat
  <2>1. Prompt \in Seq(Tokens) /\ out \in Seq(Tokens)
    BY DecodeAssumption DEF TypeOK
  <2>2. Len(Prompt) \in Nat /\ Len(d) \in Nat
    BY <2>1, LenProperties
  <2>3. Said \in Nat
    BY <2>1, LenProperties DEF Said
  <2> QED BY <2>1, <2>2, <2>3, TextIs
<1>3. out \o t = SubSeq(greedy, 1, Said + i)
  <2> HIDE DEF t
  <2> QED BY <1>1, SayMore
<1>4. Context(Said + i) = Text \o t
  <2> HIDE DEF t, DecodeInv
  <2>1. (Prompt \o out) \o t = Prompt \o (out \o t)
    <3>1. Prompt \in Seq(Tokens) /\ out \in Seq(Tokens) /\ t \in Seq(Tokens)
      BY <1>1, <1>2
    <3> QED BY ONLY <3>1, Assoc
  <2> QED BY <1>3, <2>1, Zenon DEF Context, Text
<1>5. /\ Text \o t \in Seq(Tokens) /\ Len(Text \o t) = Len(Prompt) + (Said + i)
      /\ \A k \in 1..(Len(Prompt) + (Said + i)) :
           (Text \o t)[k] = IF k <= Len(Text) THEN Text[k] ELSE t[k - Len(Text)]
  <2> HIDE DEF t, DecodeInv
  <2>1. Len(Text) + Len(t) = Len(Prompt) + (Said + i)
    BY <1>1, <1>2
  <2>2. Text \in Seq(Tokens) /\ t \in Seq(Tokens)
    BY <1>1, <1>2
  <2>3. /\ Text \o t \in Seq(Tokens) /\ Len(Text \o t) = Len(Text) + Len(t)
        /\ \A k \in 1..(Len(Text) + Len(t)) :
             (Text \o t)[k] = IF k <= Len(Text) THEN Text[k] ELSE t[k - Len(Text)]
    BY ONLY <2>2, ConcatProperties
  <2> QED BY ONLY <2>1, <2>3, Zenon
<1>6. /\ Text \o d \in Seq(Tokens) /\ Len(Text \o d) = Len(Text) + Len(d)
      /\ \A k \in 1..(Len(Text) + Len(d)) :
           (Text \o d)[k] = IF k <= Len(Text) THEN Text[k] ELSE d[k - Len(Text)]
  <2> HIDE DEF DecodeInv
  <2> QED BY <1>2, ConcatProperties
<1>7. /\ s \in Seq(Tokens) /\ Len(s) = Len(Prompt) + (Said + i)
      /\ \A k \in 1..(Len(Prompt) + (Said + i)) : s[k] = (Text \o d)[k]
  <2>1. Len(Prompt) + (Said + i) \in 0..Len(Text \o d)
    BY <1>2, <1>6
  <2> HIDE DEF DecodeInv
  <2> QED BY <1>6, <2>1
<1>8. ASSUME NEW k \in 1..(Len(Prompt) + (Said + i)) PROVE s[k] = (Text \o t)[k]
  <2>1. CASE k <= Len(Text)
    <3>1. k \in 1..(Len(Text) + Len(d))
      BY <1>2
    <3> HIDE DEF s, t, DecodeInv
    <3>2. s[k] = (Text \o d)[k] /\ (Text \o d)[k] = Text[k]
      BY <1>6, <1>7, <2>1, <3>1
    <3> QED BY <1>5, <2>1, <3>2
  <2>2. CASE ~(k <= Len(Text))
    <3>1. k - Len(Text) \in 1..i /\ k \in 1..(Len(Text) + Len(d))
      BY <1>2, <2>2
    <3> HIDE DEF s, t, DecodeInv
    <3> QED BY <1>1, <1>5, <1>6, <1>7, <2>2, <3>1
  <2> QED BY <2>1, <2>2, Zenon
<1>9. s = Text \o t
  <2> HIDE DEF s, t, DecodeInv
  <2> QED BY <1>5, <1>7, <1>8, SeqEqual
<1> QED BY <1>4, <1>9

LEMMA HeadVerifyKeeps ==
  ASSUME DecodeInv, HeadVerify
  PROVE DecodeInv'
<1> USE DEF DecodeInv
<1>0. /\ pc = "verify" /\ hop = NumHops + 1 /\ spec /\ Travelling /\ result = "running"
      /\ task.st = "none" /\ Said < MaxNew /\ Len(drafts) = K
  BY DEF HeadVerify, AtHead, PlacesOK, Travelling, DraftOK
<1>1. /\ preds' \in [1..K -> Tokens] /\ \A i \in 1..K : preds'[i] \in Predictions(Said + i)
      /\ pc' = "match"
      /\ UNCHANGED <<greedy, spec, hop, fly, out, pending, pos, drafts, front, peer, draft, task,
                     result>>
  BY DEF HeadVerify, targetVars, draftVars
<1>2. /\ Text \in Seq(Tokens) /\ Len(Text) = Len(Prompt) + Said /\ drafts \in Seq(Tokens)
      /\ Said \in Nat /\ MaxNew \in Nat /\ K \in Nat /\ Horizon = MaxNew + K + 1
      /\ Len(Prompt) \in Nat
  BY TextIs, DecodeAssumption DEF TypeOK, Horizon
<1>3. Whole = Text \o drafts /\ front = Cells(Whole) /\ \A h \in Hops : peer[h] = Holds(Whole)
  BY <1>0, OnTheWay DEF Whole
<1>4. Whole \in Seq(Tokens) /\ Len(Whole) = Len(Text) + K
  <2> HIDE DEF DecodeInv
  <2> QED BY <1>0, <1>2, <1>3, ConcatProperties
<1>5. ASSUME NEW i \in 1..K, \A l \in 1..i : drafts[l] = greedy[Said + l]
      PROVE preds'[i] = greedy[Said + i + 1]
  <2>1. Said + i \in 0..(Horizon - 1) /\ i \in 0..Len(drafts) /\ Said + i <= Horizon
    BY <1>0, <1>2
  <2>2. SubSeq(Whole, 1, Len(Prompt) + (Said + i)) = Context(Said + i)
    BY <1>2, <1>3, <1>5, <2>1, DraftsShow
  <2>3. Len(Prompt) + (Said + i) <= Len(Whole)
    BY <1>2, <1>4
  <2>4. Predictions(Said + i) = {greedy[(Said + i) + 1]}
    BY <1>3, <1>4, <2>1, <2>2, <2>3, PredictsGreedy
  <2> QED BY <1>1, <2>4
<1>6. /\ Text' = Text /\ Said' = Said /\ Whole' = Whole /\ ~Travelling' /\ Resting'
  BY <1>0, <1>1 DEF Text, Said, Whole, Travelling, Resting
<1>7. TypeOK'
  BY <1>1, <1>2 DEF TypeOK, Stages
<1>8. PlacesOK' /\ SaidIsGreedy'
  BY <1>0, <1>1, <1>6 DEF PlacesOK, SaidIsGreedy
<1>9. TargetOK'
  BY <1>0, <1>1, <1>3, <1>6 DEF TargetOK
<1>10. PredictionsOK'
  BY <1>1, <1>5, <1>6 DEF PredictionsOK
<1>11. DraftOK'
  BY <1>0, <1>1, <1>6 DEF DraftOK
<1> QED BY <1>7, <1>8, <1>9, <1>10, <1>11

\* The continuation, one token longer.
LEMMA ContextNext ==
  ASSUME DecodeInv, NEW n \in 0..(Horizon - 1)
  PROVE Context(n + 1) = Context(n) \o <<greedy[n + 1]>> /\ greedy[n + 1] \in Tokens
<1> DEFINE a == SubSeq(greedy, 1, n)
           b == SubSeq(greedy, 1, n + 1)
           c == <<greedy[n + 1]>>
<1>0. n \in 0..Horizon /\ n + 1 \in 0..Horizon /\ n + 1 \in 1..Horizon /\ n \in Nat
  BY DecodeAssumption DEF Horizon
<1>1. TypeOK /\ greedy[n + 1] \in Tokens /\ Prompt \in Seq(Tokens)
  BY <1>0, DecodeAssumption DEF DecodeInv, TypeOK
<1>2. /\ a \in Seq(Tokens) /\ Len(a) = n /\ \A i \in 1..n : a[i] = greedy[i]
      /\ b \in Seq(Tokens) /\ Len(b) = n + 1 /\ \A i \in 1..(n + 1) : b[i] = greedy[i]
  <2> HIDE DEF a, b
  <2> QED BY <1>0, <1>1, ContextIs DEF a, b
<1>3. c \in Seq(Tokens) /\ Len(c) = 1 /\ c[1] = greedy[n + 1]
  BY <1>1
<1> HIDE DEF a, b, c
<1>4. /\ a \o c \in Seq(Tokens) /\ Len(a \o c) = n + 1
      /\ \A i \in 1..(n + 1) : (a \o c)[i] = IF i <= n THEN a[i] ELSE c[i - n]
  <2>1. Len(a) = n /\ Len(c) = 1 /\ Len(a) + Len(c) = n + 1
    BY <1>0, <1>2, <1>3
  <2>2. /\ a \o c \in Seq(Tokens) /\ Len(a \o c) = Len(a) + Len(c)
        /\ \A i \in 1..(Len(a) + Len(c)) :
             (a \o c)[i] = IF i <= Len(a) THEN a[i] ELSE c[i - Len(a)]
    BY <1>2, <1>3, ConcatProperties
  <2> QED BY ONLY <2>1, <2>2
<1>5. ASSUME NEW i \in 1..(n + 1) PROVE (a \o c)[i] = b[i]
  <2>1. CASE i <= n
    BY <1>0, <1>2, <1>4, <2>1
  <2>2. CASE i = n + 1
    <3>1. i - n = 1 /\ ~(i <= n)
      BY <1>0, <2>2
    <3> QED BY <1>2, <1>3, <1>4, <2>2, <3>1
  <2>3. i <= n \/ i = n + 1
    BY <1>0
  <2> QED BY <2>1, <2>2, <2>3, Zenon
<1>6. a \o c = b
  BY <1>2, <1>4, <1>5, SeqEqual
<1>7. (Prompt \o a) \o c = Prompt \o (a \o c)
  <2>1. Prompt \in Seq(Tokens) /\ a \in Seq(Tokens) /\ c \in Seq(Tokens)
    BY <1>1, <1>2, <1>3
  <2> QED BY ONLY <2>1, Assoc
<1>8. Context(n + 1) = Prompt \o b /\ Context(n) = Prompt \o a
  BY DEF Context, a, b
<1> QED BY <1>1, <1>6, <1>7, <1>8, Zenon DEF c

\* What Match says of a round: a beginning of its tokens, in the continuation.
LEMMA MatchSays ==
  ASSUME DecodeInv, pc = "match", NEW toks, toks = Emitted(Accepted)
  PROVE \E n \in 1..(Accepted + 1) :
          /\ SaidOf(toks) = SubSeq(toks, 1, n) /\ Said + n <= MaxNew
          /\ SaidOf(toks) \in Seq(Tokens) /\ Len(SaidOf(toks)) = n
          /\ \A i \in 1..n : SaidOf(toks)[i] = toks[i] /\ toks[i] = greedy[Said + i]
          /\ \A i \in 1..(n - 1) : toks[i] # Eos
          /\ n = Accepted + 1 \/ Said + n = MaxNew \/ toks[n] = Eos
<1>1. /\ Accepted \in 0..K /\ toks \in Seq(Tokens) /\ Len(toks) = Accepted + 1
      /\ \A i \in 1..(Accepted + 1) : toks[i] = greedy[Said + i]
  BY EmittedIs
<1>2. Said \in Nat /\ Said < MaxNew /\ K \in Nat
  BY TextIs, DecodeAssumption DEF DecodeInv, PlacesOK
<1>3. toks # <<>>
  BY <1>1, <1>2
<1>4. PICK n \in 1..Len(toks) :
          /\ SaidOf(toks) = SubSeq(toks, 1, n)
          /\ Said + n <= MaxNew
          /\ \A i \in 1..(n - 1) : toks[i] # Eos
          /\ n = Len(toks) \/ Said + n = MaxNew \/ toks[n] = Eos
  BY <1>1, <1>2, <1>3, SaidOfIs
<1>5. /\ SubSeq(toks, 1, n) \in Seq(Tokens) /\ Len(SubSeq(toks, 1, n)) = n
      /\ \A i \in 1..n : SubSeq(toks, 1, n)[i] = toks[i]
  BY <1>1, <1>2
<1>6. \A i \in 1..n : toks[i] = greedy[Said + i]
  BY <1>1, <1>2
<1> QED BY <1>1, <1>4, <1>5, <1>6

\* A turn that ends with more said.
LEMMA EndSayingKeeps ==
  ASSUME DecodeInv, pc = "match", NEW t \in Seq(Tokens), Said + Len(t) <= MaxNew,
         \A i \in 1..Len(t) : t[i] = greedy[Said + i],
         out' = out \o t, pc' = "end", result' \in {"ok", "failed"},
         preds' \in Seq(Tokens),
         UNCHANGED <<greedy, spec, hop, fly, pending, pos, drafts, front, peer, draft, task>>
  PROVE DecodeInv'
<1>1. /\ out' = SubSeq(greedy, 1, Said + Len(t)) /\ out' \in Seq(Tokens)
      /\ Len(out') = Said + Len(t)
  <2>1. Said + Len(t) <= Horizon
    BY TextIs, DecodeAssumption DEF Horizon
  <2> QED BY <2>1, SayMore
<1>2. TypeOK'
  BY <1>1 DEF DecodeInv, TypeOK, Stages
<1>3. task.st = "none"
  BY DEF DecodeInv, DraftOK
<1>4. DraftOK'
  BY <1>3 DEF DraftOK
<1> QED BY <1>1, <1>2, <1>4, EndKeeps

LEMMA CancelledKeeps ==
  ASSUME DecodeInv, Cancelled
  PROVE DecodeInv'
<1>1. CASE pc = "next" /\ UNCHANGED out
  BY <1>1, StopKeeps DEF Cancelled, targetVars, draftVars
<1>2. CASE pc = "match" /\ LET taken == SaidOf(Emitted(Accepted))
                           IN \E n \in 0..(Len(taken) - 1) : out' = out \o SubSeq(taken, 1, n)
  <2> DEFINE taken == SaidOf(Emitted(Accepted))
  <2>1. PICK n \in 0..(Len(taken) - 1) : out' = out \o SubSeq(taken, 1, n)
    BY <1>2
  <2>2. PICK k \in 1..(Accepted + 1) :
          /\ Said + k <= MaxNew /\ taken \in Seq(Tokens) /\ Len(taken) = k
          /\ \A i \in 1..k : taken[i] = greedy[Said + i]
    <3> DEFINE toks == Emitted(Accepted)
    <3>1. toks = Emitted(Accepted)
      OBVIOUS
    <3> HIDE DEF toks
    <3>2. taken = SaidOf(toks)
      BY <3>1
    <3> HIDE DEF taken
    <3> QED BY <1>2, <3>1, <3>2, MatchSays
  <2> HIDE DEF taken
  <2> DEFINE t == SubSeq(taken, 1, n)
  <2>3. n \in 0..k /\ k \in Nat /\ Said \in Nat /\ MaxNew \in Nat
    BY <2>2, TextIs, DecodeAssumption, AcceptedIs
  <2>4. t \in Seq(Tokens) /\ Len(t) = n /\ \A i \in 1..n : t[i] = taken[i]
    BY <2>2, <2>3
  <2>5. Said + Len(t) <= MaxNew /\ \A i \in 1..Len(t) : t[i] = greedy[Said + i]
    BY <2>2, <2>3, <2>4
  <2> HIDE DEF t
  <2>6. /\ out' = out \o t /\ pc' = "end" /\ result' \in {"ok", "failed"}
        /\ UNCHANGED <<greedy, spec, hop, fly, pending, preds, pos, drafts, front, peer, draft,
                       task>>
    BY <2>1 DEF Cancelled, targetVars, draftVars, t
  <2>7. preds' \in Seq(Tokens)
    BY <2>6 DEF DecodeInv, TypeOK
  <2> QED BY <1>2, <2>4, <2>5, <2>6, <2>7, EndSayingKeeps
<1> QED BY <1>1, <1>2 DEF Cancelled

LEMMA MatchKeeps ==
  ASSUME DecodeInv, Match
  PROVE DecodeInv'
<1> DEFINE j == Accepted
           toks == Emitted(j)
           taken == SaidOf(toks)
           last == toks[Len(toks)]
<1>0. /\ pc = "match" /\ spec /\ Resting /\ ~Travelling /\ result = "running"
      /\ task.st = "none" /\ Len(drafts) = K /\ Said < MaxNew
      /\ draft = Cells(Text \o ButLast(drafts))
  BY DEF Match, DecodeInv, PlacesOK, Resting, Travelling, DraftOK
<1>1. /\ j \in 0..K /\ toks \in Seq(Tokens) /\ Len(toks) = j + 1
      /\ toks = SubSeq(drafts, 1, j) \o <<toks[j + 1]>>
      /\ \A i \in 1..(j + 1) : toks[i] = greedy[Said + i]
      /\ \A i \in 1..j : drafts[i] = greedy[Said + i]
  BY <1>0, EmittedIs
<1>2. PICK n \in 1..(j + 1) :
          /\ taken = SubSeq(toks, 1, n) /\ Said + n <= MaxNew
          /\ taken \in Seq(Tokens) /\ Len(taken) = n
          /\ \A i \in 1..n : taken[i] = toks[i] /\ toks[i] = greedy[Said + i]
          /\ \A i \in 1..(n - 1) : toks[i] # Eos
          /\ n = Accepted + 1 \/ Said + n = MaxNew \/ toks[n] = Eos
  <2>1. toks = Emitted(Accepted)
    OBVIOUS
  <2> HIDE DEF toks
  <2> QED BY <1>0, <2>1, MatchSays
<1>3. /\ out' = out \o taken /\ preds' = <<>>
      /\ UNCHANGED <<greedy, spec, pending, pos, drafts, peer, draft>>
  BY DEF Match
<1>4. CASE Len(taken) < Len(toks) \/ EosIn(taken)
  <2>1. pc' = "end" /\ result' = "ok" /\ UNCHANGED <<hop, fly, front, task>>
    BY <1>4 DEF Match
  <2>2. Said + Len(taken) <= MaxNew /\ \A i \in 1..Len(taken) : taken[i] = greedy[Said + i]
    BY <1>2
  <2>3. preds' \in Seq(Tokens)
    BY <1>3
  <2> HIDE DEF taken, toks, j
  <2> QED BY <1>0, <1>2, <1>3, <2>1, <2>2, <2>3, EndSayingKeeps
<1>5. CASE ~(Len(taken) < Len(toks) \/ EosIn(taken))
  <2>0. /\ Said \in Nat /\ MaxNew \in Nat /\ K \in Nat /\ K >= 2 /\ Horizon = MaxNew + K + 1
        /\ NumHops \in Nat \ {0} /\ None \notin Nat /\ Len(Prompt) \in Nat /\ j \in Nat
        /\ Text \in Seq(Tokens) /\ Len(Text) = Len(Prompt) + Said /\ Prompt \in Seq(Tokens)
        /\ out \in Seq(Tokens) /\ drafts \in Seq(Tokens)
    <3>1. Prompt \in Seq(Tokens) /\ Len(Prompt) \in Nat /\ K \in Nat /\ K >= 2
      BY DecodeAssumption
    <3>2. j \in Nat
      BY <1>1, <3>1
    <3>3. Said \in Nat /\ MaxNew \in Nat /\ Text \in Seq(Tokens) /\ Len(Text) = Len(Prompt) + Said
      BY TextIs, DecodeAssumption
    <3> QED BY <3>1, <3>2, <3>3, DecodeAssumption DEF DecodeInv, TypeOK, Horizon
  <2>1. n = j + 1 /\ taken = toks /\ ~EosIn(toks)
    <3>1. n = j + 1
      BY <1>1, <1>2, <1>5, <2>0
    <3>2. taken = toks
      <4>1. \A i \in 1..(j + 1) : taken[i] = toks[i]
        BY <1>2, <3>1
      <4> HIDE DEF taken, toks, j
      <4> QED BY <1>1, <1>2, <3>1, <4>1, SeqEqual
    <3> HIDE DEF taken, toks, j
    <3> QED BY <1>5, <3>1, <3>2
  <2>2. /\ front' = Fed(Cut(front, pos + j), <<last>>, pos + j)
        /\ fly' = [toks |-> <<last>>, keep |-> pos + j] /\ hop' = 1 /\ pc' = "commit"
        /\ task' = [st |-> "advance", j |-> j, last |-> last, old |-> pos, props |-> <<>>]
        /\ UNCHANGED result
    BY <1>5 DEF Match, Launch
  <2>3. /\ front = Cells(Text \o drafts) /\ pos = Len(Text)
        /\ \A h \in Hops : peer[h] = Holds(Text \o drafts)
    BY <1>0, Zenon DEF DecodeInv, TargetOK, Whole
  <2> HIDE DEF taken, toks, last, j
  <2>sums. /\ Said + j \in 0..(Horizon - 1) /\ Said + j \in 0..Horizon
           /\ Said + j + 1 \in 0..Horizon /\ Said + (j + 1) = Said + j + 1
           /\ (Said + j + 1) - 1 = Said + j
    <3>1. Said \in Nat /\ j \in Nat /\ MaxNew \in Nat /\ K \in Nat /\ Horizon = MaxNew + K + 1
      BY <2>0
    <3>2. j <= K /\ Said < MaxNew
      BY <1>0, <1>1, <3>1
    <3> QED BY ONLY <3>1, <3>2
  <2>4. last = greedy[Said + j + 1] /\ last = toks[j + 1] /\ last \in Tokens /\ last # Eos
    <3>1. j + 1 \in 1..(j + 1) /\ Said + (j + 1) = Said + j + 1
      BY <2>0
    <3>2. last = toks[j + 1] /\ toks[j + 1] = greedy[Said + (j + 1)]
      BY <1>1, <3>1 DEF last
    <3>4. toks[j + 1] \in Tokens
      BY <1>1, <3>1
    <3>3. toks[j + 1] # Eos
      BY <1>1, <2>1, <3>1 DEF EosIn
    <3> QED BY <3>1, <3>2, <3>3, <3>4
  <2>5. /\ out' = SubSeq(greedy, 1, Said + j + 1) /\ out' \in Seq(Tokens)
        /\ Len(out') = Said + j + 1 /\ Said + j + 1 <= MaxNew
        /\ \A i \in 1..Said : out'[i] = out[i]
        /\ \A i \in 1..(j + 1) : out'[Said + i] = toks[i]
        /\ out' = out \o toks
    <3>1. Said + (j + 1) <= Horizon /\ Said + (j + 1) = Said + j + 1 /\ Said + j + 1 <= MaxNew
      BY <1>1, <1>2, <2>0, <2>1
    <3> QED BY <1>1, <1>3, <2>1, <3>1, SayMore
  <2>6. Said' = Said + j + 1
    BY <2>5 DEF Said
  <2>7. Cut(front, pos + j) = Cells(Context(Said + j))
    <3>1. /\ Text \o drafts \in Seq(Tokens) /\ Len(Text \o drafts) = Len(Text) + K
      BY <1>0, <2>0, ConcatProperties
    <3>2. pos + j = Len(Prompt) + (Said + j) /\ Len(Prompt) + (Said + j) \in 0..Len(Text \o drafts)
      <4>1. /\ pos = Len(Prompt) + Said /\ Len(Text \o drafts) = Len(Prompt) + Said + K
            /\ Len(Prompt) \in Nat /\ Said \in Nat /\ j \in Nat /\ K \in Nat
        BY <2>0, <2>3, <3>1
      <4>2. j <= K
        BY <1>1, <4>1
      <4> QED BY ONLY <4>1, <4>2
    <3>3. j \in 0..Len(drafts) /\ Said + j <= Horizon
      BY <1>0, <1>1, <2>0
    <3>4. SubSeq(Text \o drafts, 1, Len(Prompt) + (Said + j)) = Context(Said + j)
      BY <1>1, <2>0, <3>3, DraftsShow
    <3> QED BY <2>3, <3>1, <3>2, <3>4, CutCells
  <2>8. /\ Context(Said + j) \in Seq(Tokens) /\ Len(Context(Said + j)) = pos + j
        /\ Context(Said + j + 1) = Context(Said + j) \o <<last>>
        /\ Context(Said + j + 1) \in Seq(Tokens) /\ Len(Context(Said + j + 1)) = pos + j + 1
    <3>1. Said + j \in 0..(Horizon - 1) /\ Said + j \in 0..Horizon /\ Said + j + 1 \in 0..Horizon
      BY <2>sums
    <3>2. TypeOK
      BY DEF DecodeInv
    <3>3. Context(Said + j + 1) = Context(Said + j) \o <<last>>
      BY <2>4, <3>1, ContextNext
    <3>4. /\ Context(Said + j) \in Seq(Tokens)
          /\ Len(Context(Said + j)) = Len(Prompt) + (Said + j)
          /\ Context(Said + j + 1) \in Seq(Tokens)
          /\ Len(Context(Said + j + 1)) = Len(Prompt) + (Said + j + 1)
      BY <3>1, <3>2, ContextIs
    <3>5. /\ Len(Prompt) + (Said + j) = pos + j
          /\ Len(Prompt) + (Said + j + 1) = pos + j + 1
      <4>1. pos = Len(Prompt) + Said /\ Len(Prompt) \in Nat /\ Said \in Nat /\ j \in Nat
        BY <2>0, <2>3
      <4> QED BY ONLY <4>1
    <3> QED BY <3>3, <3>4, <3>5
  <2>9. /\ Text' = Context(Said + j + 1) /\ Whole' = Text' /\ Travelling' /\ ~Resting'
        /\ Settled' = Context(Said + j) /\ Carried' = <<last>>
    <3>1. Text' = Context(Said + j + 1)
      BY <1>3, <2>5 DEF Text, Context
    <3>2. Whole' = Text' /\ Travelling' /\ ~Resting'
      BY <2>2 DEF Whole, Travelling, Resting
    <3>3. Carried' = <<last>>
      <4>1. out'[Said + (j + 1)] = toks[j + 1] /\ Said + (j + 1) = Said + j + 1
        BY <2>0, <2>5
      <4> QED BY <2>2, <2>4, <2>6, <4>1 DEF Carried
    <3>4. Settled' = Context(Said + j)
      <4>1. Said' - 1 = Said + j /\ Said + j \in 0..Horizon /\ Said + j + 1 \in 0..Horizon
        BY <2>sums, <2>6
      <4>2. Settled' = Prompt \o SubSeq(out', 1, Said + j)
        BY <2>2, <4>1 DEF Settled
      <4>3. SubSeq(out', 1, Said + j) = SubSeq(greedy, 1, Said + j)
        <5> DEFINE a == SubSeq(out', 1, Said + j)
                   b == SubSeq(greedy, 1, Said + j)
        <5>1. TypeOK
          BY DEF DecodeInv
        <5>2. /\ b \in Seq(Tokens) /\ Len(b) = Said + j
              /\ \A i \in 1..(Said + j) : b[i] = greedy[i]
          BY <4>1, <5>1, ContextIs
        <5>3. \A i \in 1..(Said + j + 1) : out'[i] = greedy[i]
          BY <4>1, <5>1, <2>5, ContextIs
        <5>4. /\ a \in Seq(Tokens) /\ Len(a) = Said + j
              /\ \A i \in 1..(Said + j) : a[i] = out'[i]
          <6>1. Said + j \in 0..Len(out')
            BY <2>0, <2>5
          <6> QED BY <2>5, <6>1
        <5>5. \A i \in 1..(Said + j) : a[i] = b[i]
          <6> HIDE DEF a, b
          <6> QED BY <2>0, <5>2, <5>3, <5>4
        <5> HIDE DEF a, b
        <5>6. a = b
          BY <5>2, <5>4, <5>5, SeqEqual
        <5> QED BY <5>6 DEF a, b
      <4> QED BY <4>2, <4>3 DEF Context
    <3> QED BY <3>1, <3>2, <3>3, <3>4
  <2>10. <<last>> \in Seq(Tokens) /\ pos + j \in Nat /\ pos \in Nat
    BY <2>0, <2>3, <2>4
  <2>11. front' = Cells(Text') /\ front' \in KV
    <3>1. front' = Fed(Cells(Context(Said + j)), <<last>>, Len(Context(Said + j)))
      BY <2>2, <2>7, <2>8
    <3> QED BY <2>8, <2>9, <2>10, <3>1, FedCells, CellsAre
  <2>12. TypeOK'
    <3>1. fly' \in [toks: Seq(Tokens), keep: Nat \cup {None}] /\ hop' \in 0..(NumHops + 1)
      BY <2>0, <2>2, <2>10
    <3>2. task' \in Tasks
      <4>1. <<>> \in Seq(Tokens)
        OBVIOUS
      <4> QED BY <1>1, <2>2, <2>4, <2>10, <4>1, TaskType
    <3>3. preds' \in Seq(Tokens)
      BY <1>3
    <3> QED BY <1>3, <2>2, <2>5, <2>11, <3>1, <3>2, <3>3 DEF DecodeInv, TypeOK, Stages, Tasks
  <2>13. PlacesOK' /\ PredictionsOK'
    <3>1. Said' > 0
      BY <2>0, <2>6
    <3> QED BY <1>0, <1>3, <2>2, <3>1 DEF DecodeInv, PlacesOK, PredictionsOK
  <2>14. SaidIsGreedy'
    <3>1. ASSUME NEW i \in 1..Said' PROVE out'[i] # Eos
      <4>1. i \in 1..Said \/ (i - Said \in 1..(j + 1) /\ Said + (i - Said) = i)
        BY <2>0, <2>6
      <4>2. \A k \in 1..Said : out[k] # Eos
        BY <1>0 DEF DecodeInv, SaidIsGreedy
      <4>3. \A k \in 1..(j + 1) : toks[k] # Eos
        BY <1>1, <2>1 DEF EosIn
      <4>4. CASE i \in 1..Said
        BY <2>5, <4>2, <4>4
      <4>5. CASE i - Said \in 1..(j + 1) /\ Said + (i - Said) = i
        <5>1. out'[Said + (i - Said)] = toks[i - Said] /\ toks[i - Said] # Eos
          BY <2>5, <4>3, <4>5
        <5> QED BY <4>5, <5>1
      <4> QED BY <4>1, <4>4, <4>5
    <3>2. out' = SubSeq(greedy', 1, Said')
      BY <1>3, <2>5, <2>6
    <3>3. ~Resting' /\ pc' # "verify"
      BY <2>2, <2>9
    <3> QED BY <3>1, <3>2, <3>3 DEF SaidIsGreedy
  <2>15. TargetOK'
    <3>1. ASSUME NEW h \in Hops
          PROVE /\ ~(h < hop') /\ PeerCut(peer[h])' = Cells(Context(Said + j))
                /\ PeerBase(peer[h])' = Len(Context(Said + j))
      <4>1. fly'.keep = pos + j /\ fly'.keep # None /\ peer'[h] = peer[h]
        BY <1>3, <2>0, <2>2, <2>10
      <4>2. peer[h].kv = front
        BY <2>3 DEF Holds
      <4>3. ~(h < hop')
        BY <2>2, <2>0 DEF Hops
      <4> QED BY <2>7, <2>8, <4>1, <4>2, <4>3 DEF PeerCut, PeerBase
    <3>2. Len(Text') - 1 = pos + j /\ hop' \in 1..(NumHops + 1)
      BY <2>0, <2>2, <2>8, <2>9, <2>10
    <3> QED BY <2>2, <2>9, <2>11, <3>1, <3>2 DEF TargetOK
  <2>16. DraftOK'
    <3>1. /\ task'.st = "advance" /\ task'.j = j /\ task'.last = last /\ task'.old = pos
          /\ task'.props = <<>>
      BY <2>2
    <3>2. j < Said' /\ Said' - j - 1 = Said /\ pos = Len(Text') - j - 1
      BY <2>0, <2>6, <2>8, <2>9, <2>10
    <3>3. SubSeq(out', 1, Said) = out
      <4>1. /\ SubSeq(out', 1, Said) \in Seq(Tokens) /\ Len(SubSeq(out', 1, Said)) = Said
            /\ \A i \in 1..Said : SubSeq(out', 1, Said)[i] = out'[i]
        <5>1. Said \in 0..Len(out')
          BY <2>0, <2>5
        <5> QED BY <2>5, <5>1
      <4>2. \A i \in 1..Said : SubSeq(out', 1, Said)[i] = out[i]
        BY <2>5, <4>1
      <4>3. Said = Len(out)
        BY DEF Said
      <4> QED BY <2>0, <4>1, <4>2, <4>3, SeqEqual
    <3>4. out' = out \o SubSeq(drafts, 1, j) \o <<last>>
      <4> DEFINE a == SubSeq(drafts, 1, j)
                 b == <<last>>
      <4>1. a \in Seq(Tokens)
        BY <1>0, <1>1, <2>0
      <4>2. b \in Seq(Tokens) /\ out \in Seq(Tokens)
        BY <2>0, <2>10
      <4> HIDE DEF a, b
      <4>3. (out \o a) \o b = out \o (a \o b)
        BY ONLY <4>1, <4>2, Assoc
      <4>4. toks = a \o b
        BY <1>1, <2>4 DEF a, b
      <4> QED BY <2>5, <4>3, <4>4, Zenon DEF a, b
    <3>5. draft' = Cells(Prompt \o SubSeq(out', 1, Said) \o ButLast(drafts))
      BY <1>0, <1>3, <3>3 DEF Text
    <3>6. spec' /\ pc' = "commit" /\ Len(drafts') = K /\ ButLast(drafts') = ButLast(drafts)
          /\ drafts' = drafts
      BY <1>0, <1>3, <2>2 DEF ButLast
    <3> QED BY <3>1, <3>2, <3>3, <3>4, <3>5, <3>6 DEF DraftOK
  <2> QED BY <2>12, <2>13, <2>14, <2>15, <2>16 DEF DecodeInv
<1> QED BY <1>4, <1>5

-----------------------------------------------------------------------------
(* The draft's thread keeps the invariant.                                    *)

LEMMA PrefixIs ==
  ASSUME NEW a \in Seq(Tokens), NEW n \in 0..Len(a)
  PROVE /\ SubSeq(a, 1, n) \in Seq(Tokens) /\ Len(SubSeq(a, 1, n)) = n
        /\ \A i \in 1..n : SubSeq(a, 1, n)[i] = a[i]
OBVIOUS

LEMMA TwoTokens ==
  ASSUME NEW a \in Tokens, NEW b \in Tokens
  PROVE <<a>> \o <<b>> = <<a, b>> /\ <<a>> \in Seq(Tokens) /\ <<a, b>> \in Seq(Tokens)
<1>1. <<a>> \in Seq(Tokens) /\ Len(<<a>>) = 1 /\ <<a>>[1] = a
  OBVIOUS
<1>2. <<b>> \in Seq(Tokens) /\ Len(<<b>>) = 1 /\ <<b>>[1] = b
  OBVIOUS
<1>3. <<a, b>> \in Seq(Tokens) /\ Len(<<a, b>>) = 2 /\ <<a, b>>[1] = a /\ <<a, b>>[2] = b
  OBVIOUS
<1> DEFINE s == <<a>>
           t == <<b>>
           u == <<a, b>>
<1> HIDE DEF s, t, u
<1>4. /\ s \o t \in Seq(Tokens) /\ Len(s \o t) = Len(s) + Len(t)
      /\ \A i \in 1..(Len(s) + Len(t)) : (s \o t)[i] = IF i <= Len(s) THEN s[i] ELSE t[i - Len(s)]
  BY <1>1, <1>2, ConcatProperties DEF s, t
<1>5. /\ Len(s) = 1 /\ Len(t) = 1 /\ s[1] = a /\ t[1] = b
      /\ u \in Seq(Tokens) /\ Len(u) = 2 /\ u[1] = a /\ u[2] = b
  BY <1>1, <1>2, <1>3 DEF s, t, u
<1>6. \A i \in 1..2 : (s \o t)[i] = u[i]
  BY <1>4, <1>5
<1>7. s \o t = u
  BY <1>4, <1>5, <1>6, SeqEqual
<1> QED BY <1>1, <1>3, <1>7 DEF s, t, u

\* The beginning of two sequences in a row, past the end of the first.
LEMMA PrefixOfConcat ==
  ASSUME NEW a \in Seq(Tokens), NEW b \in Seq(Tokens), NEW n \in 0..Len(b)
  PROVE /\ SubSeq(a \o b, 1, Len(a) + n) = a \o SubSeq(b, 1, n)
        /\ SubSeq(b, 1, n) \in Seq(Tokens) /\ Len(SubSeq(b, 1, n)) = n
        /\ Len(a) + n \in 0..Len(a \o b)
<1> DEFINE t == SubSeq(b, 1, n)
           c == a \o b
           s == SubSeq(c, 1, Len(a) + n)
<1>0. Len(a) \in Nat /\ Len(b) \in Nat /\ n \in Nat /\ n <= Len(b)
  OBVIOUS
<1>1. t \in Seq(Tokens) /\ Len(t) = n /\ \A i \in 1..n : t[i] = b[i]
  OBVIOUS
<1>2. /\ c \in Seq(Tokens) /\ Len(c) = Len(a) + Len(b)
      /\ \A i \in 1..(Len(a) + Len(b)) : c[i] = IF i <= Len(a) THEN a[i] ELSE b[i - Len(a)]
  BY ConcatProperties
<1> HIDE DEF t, c
<1>3. /\ a \o t \in Seq(Tokens) /\ Len(a \o t) = Len(a) + n
      /\ \A i \in 1..(Len(a) + n) : (a \o t)[i] = IF i <= Len(a) THEN a[i] ELSE t[i - Len(a)]
  BY <1>1, ConcatProperties
<1>4. Len(a) + n \in 0..Len(c)
  BY <1>0, <1>2
<1>5. s \in Seq(Tokens) /\ Len(s) = Len(a) + n /\ \A i \in 1..(Len(a) + n) : s[i] = c[i]
  BY <1>2, <1>4
<1>6. ASSUME NEW i \in 1..(Len(a) + n) PROVE s[i] = (a \o t)[i]
  <2>0. i \in 1..(Len(a) + Len(b))
    BY <1>0
  <2>1. CASE i <= Len(a)
    BY <1>2, <1>3, <1>5, <2>0, <2>1
  <2>2. CASE ~(i <= Len(a))
    <3>1. i - Len(a) \in 1..n
      BY <1>0, <2>2
    <3> HIDE DEF s
    <3> QED BY <1>1, <1>2, <1>3, <1>5, <2>0, <2>2, <3>1
  <2> QED BY <2>1, <2>2
<1> HIDE DEF s
<1>7. s = a \o t
  BY <1>3, <1>5, <1>6, SeqEqual
<1> QED BY <1>1, <1>4, <1>7 DEF s, t, c

\* A round's drafts: but for the last, and as far as they were accepted.
LEMMA DraftsAre ==
  ASSUME NEW d \in Seq(Tokens), Len(d) = K, NEW j \in 0..K
  PROVE /\ ButLast(d) \in Seq(Tokens) /\ Len(ButLast(d)) = K - 1 /\ d[K] \in Tokens
        /\ SubSeq(d, 1, j) \in Seq(Tokens) /\ Len(SubSeq(d, 1, j)) = j
        /\ j < K => SubSeq(ButLast(d), 1, j) = SubSeq(d, 1, j)
        /\ d = ButLast(d) \o <<d[K]>>
        /\ SubSeq(d, 1, K) = d
<1>0. K \in Nat /\ K >= 2
  BY DecodeAssumption
<1> DEFINE b == ButLast(d)
           e == SubSeq(d, 1, j)
<1>1. b \in Seq(Tokens) /\ Len(b) = K - 1 /\ \A i \in 1..(K - 1) : b[i] = d[i]
  BY <1>0 DEF ButLast
<1>2. e \in Seq(Tokens) /\ Len(e) = j /\ \A i \in 1..j : e[i] = d[i]
  BY <1>0
<1>3. d[K] \in Tokens
  BY <1>0
<1> HIDE DEF b, e
<1>4. ASSUME j < K PROVE SubSeq(b, 1, j) = e
  <2> DEFINE g == SubSeq(b, 1, j)
  <2>1. j \in 0..Len(b)
    BY <1>0, <1>1, <1>4
  <2>2. g \in Seq(Tokens) /\ Len(g) = j /\ \A i \in 1..j : g[i] = b[i]
    BY <1>1, <2>1
  <2>3. \A i \in 1..j : g[i] = e[i]
    <3> HIDE DEF g
    <3> QED BY <1>0, <1>1, <1>2, <1>4, <2>2
  <2> HIDE DEF g
  <2>4. g = e
    BY <1>2, <2>2, <2>3, SeqEqual
  <2> QED BY <2>4 DEF g
<1>5. SubSeq(d, 1, K) = d
  BY <1>0, SubSeqFull
<1>6. d = b \o <<d[K]>>
  <2>1. SubSeq(d, 1, K) = SubSeq(d, 1, K - 1) \o <<d[K]>>
    <3>1. K \in 1..Len(d)
      BY <1>0
    <3> QED BY <3>1, SubSeqRecursiveSecond
  <2> QED BY <1>5, <2>1 DEF b, ButLast
<1> QED BY <1>1, <1>2, <1>3, <1>4, <1>5, <1>6 DEF b, e

\* Where only the draft's side moves, the rest of the invariant stands.
LEMMA DraftSideKeeps ==
  ASSUME DecodeInv, TypeOK', DraftOK',
         UNCHANGED <<greedy, spec, pc, hop, fly, out, pending, preds, pos, drafts, front, peer,
                     result>>
  PROVE DecodeInv'
<1>1. /\ Text' = Text /\ Said' = Said /\ Whole' = Whole /\ Settled' = Settled
      /\ Carried' = Carried /\ (Travelling' <=> Travelling) /\ (Resting' <=> Resting)
  BY DEF Text, Said, Whole, Settled, Carried, Travelling, Resting
<1>2. PlacesOK' /\ SaidIsGreedy' /\ PredictionsOK'
  BY <1>1 DEF DecodeInv, PlacesOK, SaidIsGreedy, PredictionsOK
<1>3. \A h \in Hops : PeerCut(peer[h])' = PeerCut(peer[h]) /\ PeerBase(peer[h])' = PeerBase(peer[h])
  BY DEF PeerCut, PeerBase
<1>4. TargetOK'
  BY <1>1, <1>3 DEF DecodeInv, TargetOK
<1> QED BY <1>2, <1>4 DEF DecodeInv

LEMMA DraftTaskFailsKeeps ==
  ASSUME DecodeInv, DraftTaskFails
  PROVE DecodeInv'
<1>1. task'.st = "failed" /\ task' \in Tasks /\ spec /\ pc \in {"commit", "join", "end"}
  BY DEF DraftTaskFails, DecodeInv, TypeOK, Tasks, DraftOK
<1>2. /\ UNCHANGED <<greedy, spec, pc, hop, fly, out, pending, preds, pos, drafts, front, peer,
                     draft, result>>
  BY DEF DraftTaskFails, targetVars
<1>3. TypeOK' /\ DraftOK'
  BY <1>1, <1>2 DEF DecodeInv, TypeOK, DraftOK, Tasks
<1> QED BY <1>2, <1>3, DraftSideKeeps

LEMMA DraftAdvanceKeeps ==
  ASSUME DecodeInv, DraftAdvance
  PROVE DecodeInv'
<1> DEFINE d == drafts
           j == task.j
           old == task.old
           last == <<task.last>>
           before == Prompt \o SubSeq(out, 1, Said - task.j - 1)
           acc == SubSeq(drafts, 1, task.j)
<1>0. /\ spec /\ pc \in {"commit", "join", "end"}
      /\ j \in 0..K /\ j < Said /\ Len(d) = K /\ task.props = <<>> /\ d \in Seq(Tokens)
      /\ out = SubSeq(out, 1, Said - j - 1) \o acc \o last
      /\ old = Len(Text) - j - 1
      /\ draft = Cells(before \o ButLast(d))
      /\ last \in Seq(Tokens) /\ task.last \in Tokens
  <2>1. task.st = "advance"
    BY DEF DraftAdvance
  <2>2. /\ spec /\ pc \in {"commit", "join", "end"}
        /\ j < Said /\ Len(d) = K /\ task.props = <<>>
        /\ out = SubSeq(out, 1, Said - j - 1) \o acc \o last
        /\ old = Len(Text) - j - 1
        /\ draft = Cells(before \o ButLast(d))
    BY <2>1 DEF DecodeInv, DraftOK
  <2>3. task \in Tasks /\ drafts \in Seq(Tokens)
    BY DEF DecodeInv, TypeOK, Tasks
  <2>4. task.j \in 0..K /\ task.last \in Tokens
    BY <2>3 DEF Tasks
  <2>5. <<task.last>> \in Seq(Tokens)
    BY <2>4
  <2> HIDE DEF before, acc
  <2> QED BY <2>2, <2>3, <2>4, <2>5
<1>1. /\ K \in Nat /\ K >= 2 /\ Said \in Nat /\ Len(Text) = Len(Prompt) + Said
      /\ Len(Prompt) \in Nat /\ Prompt \in Seq(Tokens) /\ out \in Seq(Tokens) /\ Len(out) = Said
      /\ Text \in Seq(Tokens)
  BY TextIs, DecodeAssumption DEF DecodeInv, TypeOK, Said
<1>2. /\ j \in Nat /\ Said - j - 1 \in 0..Len(out) /\ old = Len(Prompt) + (Said - j - 1)
      /\ old \in Nat /\ old + j + 1 = Len(Text)
  <2>1. j \in 0..K /\ j < Said /\ old = Len(Text) - j - 1
    BY <1>0
  <2>2. /\ K \in Nat /\ Said \in Nat /\ Len(Text) = Len(Prompt) + Said /\ Len(Prompt) \in Nat
        /\ Len(out) = Said
    BY <1>1
  <2> HIDE DEF j, old
  <2>3. j \in Nat
    BY ONLY <2>1, <2>2
  <2> QED BY ONLY <2>1, <2>2, <2>3
<1>3. before \in Seq(Tokens) /\ Len(before) = old
  <2> DEFINE a == SubSeq(out, 1, Said - task.j - 1)
  <2>1. a \in Seq(Tokens) /\ Len(a) = Said - j - 1
    BY <1>1, <1>2, PrefixIs
  <2> HIDE DEF a
  <2>2. Prompt \o a \in Seq(Tokens) /\ Len(Prompt \o a) = Len(Prompt) + Len(a)
    BY <1>1, <2>1, ConcatProperties
  <2> QED BY <1>2, <2>1, <2>2 DEF a
<1>4. /\ ButLast(d) \in Seq(Tokens) /\ Len(ButLast(d)) = K - 1 /\ d[K] \in Tokens
      /\ acc \in Seq(Tokens) /\ Len(acc) = j
      /\ j < K => SubSeq(ButLast(d), 1, j) = acc
      /\ d = ButLast(d) \o <<d[K]>> /\ (j = K => acc = d)
  <2>1. drafts \in Seq(Tokens) /\ Len(drafts) = K /\ task.j \in 0..K
    BY <1>0
  <2> QED BY <2>1, DraftsAre
<1>5. Text = (before \o acc) \o last
  <2> DEFINE a == SubSeq(out, 1, Said - task.j - 1)
  <2>0. a \in Seq(Tokens)
    BY <1>1, <1>2, PrefixIs
  <2>1. Text = Prompt \o ((a \o acc) \o last)
    BY <1>0 DEF Text
  <2> HIDE DEF a, acc, last
  <2>2. a \o acc \in Seq(Tokens)
    BY <1>4, <2>0, ConcatProperties
  <2>3. (Prompt \o (a \o acc)) \o last = Prompt \o ((a \o acc) \o last)
    <3>1. Prompt \in Seq(Tokens) /\ last \in Seq(Tokens)
      BY <1>0, <1>1
    <3> QED BY ONLY <2>2, <3>1, Assoc
  <2>4. (Prompt \o a) \o acc = Prompt \o (a \o acc)
    <3>1. Prompt \in Seq(Tokens) /\ acc \in Seq(Tokens)
      BY <1>1, <1>4
    <3> QED BY ONLY <2>0, <3>1, Assoc
  <2>5. before = Prompt \o a
    BY DEF a
  <2> HIDE DEF before
  <2> QED BY <2>1, <2>3, <2>4, <2>5, Zenon
<1>6. draft' = Cells(Text)
  <2>0. draft' = Caught(draft, task)
    BY DEF DraftAdvance
  <2>1. CASE j = K
    <3> DEFINE two == <<d[K], task.last>>
    <3>1. draft' = Fed(draft, two, old + K - 1)
      BY <2>0, <2>1 DEF Caught
    <3>2. two \in Seq(Tokens) /\ <<d[K]>> \in Seq(Tokens) /\ <<d[K]>> \o last = two
      <4>1. d[K] \in Tokens /\ task.last \in Tokens
        BY <1>0, <1>4
      <4> QED BY ONLY <4>1, TwoTokens
    <3>3. /\ before \o ButLast(d) \in Seq(Tokens)
          /\ Len(before \o ButLast(d)) = old + K - 1
      <4> HIDE DEF before, d, old
      <4>1. /\ before \o ButLast(d) \in Seq(Tokens)
            /\ Len(before \o ButLast(d)) = Len(before) + Len(ButLast(d))
        BY <1>3, <1>4, ConcatProperties
      <4> QED BY <1>1, <1>2, <1>3, <1>4, <4>1
    <3>4. (before \o ButLast(d)) \o two = Text
      <4> HIDE DEF before, d, two, last, acc, j
      <4> DEFINE bl == ButLast(d)
                 dk == <<d[K]>>
      <4>0. bl \in Seq(Tokens) /\ dk \in Seq(Tokens)
        BY <1>4, <3>2
      <4>1. d = bl \o dk /\ acc = d
        BY <1>4, <2>1
      <4> HIDE DEF bl, dk
      <4>2. (before \o bl) \o dk = before \o (bl \o dk)
        BY ONLY <1>3, <4>0, Assoc
      <4>3. ((before \o bl) \o dk) \o last = (before \o bl) \o (dk \o last)
        <5>1. before \o bl \in Seq(Tokens)
          BY <3>3 DEF bl
        <5>2. last \in Seq(Tokens)
          BY <1>0
        <5> QED BY ONLY <4>0, <5>1, <5>2, Assoc
      <4>4. dk \o last = two
        BY <3>2 DEF dk
      <4> QED BY <1>5, <4>1, <4>2, <4>3, <4>4, Zenon DEF bl
    <3> HIDE DEF before, d, two, old, j, last
    <3>5. Fed(Cells(before \o ButLast(d)), two, Len(before \o ButLast(d))) = Cells(Text)
      BY <3>2, <3>3, <3>4, FedCells
    <3> QED BY <1>0, <3>1, <3>3, <3>5
  <2>2. CASE j # K
    <3>1. draft' = Fed(Cut(draft, old + j), last, old + j)
      BY <2>0, <2>2 DEF Caught
    <3>2. j < K /\ j \in 0..Len(ButLast(d))
      <4> HIDE DEF d, j
      <4> QED BY <1>0, <1>1, <1>2, <1>4, <2>2
    <3> HIDE DEF before, d, acc, old, j, last
    <3>3. /\ SubSeq(before \o ButLast(d), 1, old + j) = before \o acc
          /\ old + j \in 0..Len(before \o ButLast(d))
          /\ before \o ButLast(d) \in Seq(Tokens)
      <4>1. /\ SubSeq(before \o ButLast(d), 1, Len(before) + j) = before \o SubSeq(ButLast(d), 1, j)
            /\ Len(before) + j \in 0..Len(before \o ButLast(d))
        BY <1>3, <1>4, <3>2, PrefixOfConcat
      <4>2. before \o ButLast(d) \in Seq(Tokens)
        BY <1>3, <1>4, ConcatProperties
      <4> QED BY <1>3, <1>4, <3>2, <4>1, <4>2
    <3>4. Cut(draft, old + j) = Cells(before \o acc)
      BY <1>0, <3>3, CutCells
    <3>5. before \o acc \in Seq(Tokens) /\ Len(before \o acc) = old + j
      BY <1>3, <1>4, ConcatProperties
    <3>6. Fed(Cells(before \o acc), last, Len(before \o acc)) = Cells((before \o acc) \o last)
      BY <1>0, <3>5, FedCells
    <3> QED BY <1>5, <3>1, <3>4, <3>5, <3>6
  <2> QED BY <2>1, <2>2
<1>7. /\ task' = [task EXCEPT !.st = "propose", !.old = @ + task.j + 1]
      /\ UNCHANGED <<greedy, spec, pc, hop, fly, out, pending, preds, pos, drafts, front, peer,
                     result>>
  BY DEF DraftAdvance, targetVars
<1>8. /\ task'.st = "propose" /\ task'.old = Len(Text) /\ task'.props = <<>>
      /\ task' \in Tasks
  <2>1. /\ task \in Tasks
    BY DEF DecodeInv, TypeOK, Tasks
  <2>2. task' = [task EXCEPT !.st = "propose", !.old = Len(Text)] /\ Len(Text) \in Nat
    <3>1. task.old + task.j + 1 = Len(Text) /\ Len(Text) \in Nat
      BY <1>1, <1>2
    <3>2. task' = [task EXCEPT !.st = "propose", !.old = task.old + task.j + 1]
      BY <1>7, <2>1 DEF Tasks
    <3> QED BY ONLY <3>1, <3>2, Zenon
  <2>3. task.props = <<>>
    BY <1>0
  <2> QED BY ONLY <2>1, <2>2, <2>3 DEF Tasks
<1>9. TypeOK'
  <2>1. draft' \in KV
    BY <1>1, <1>6, CellsAre
  <2> QED BY <1>7, <1>8, <2>1 DEF DecodeInv, TypeOK, Tasks
<1>10. DraftOK'
  <2>1. Text' = Text /\ Text \o <<>> = Text /\ Len(<<>>) < K
    BY <1>1, <1>7 DEF Text
  <2> QED BY <1>0, <1>6, <1>7, <1>8, <2>1 DEF DraftOK
<1> QED BY <1>7, <1>9, <1>10, DraftSideKeeps

LEMMA DraftProposeKeeps ==
  ASSUME DecodeInv, DraftPropose
  PROVE DecodeInv'
<1>1. PICK d \in Tokens :
        /\ task' = [task EXCEPT !.props = Append(@, d),
                                !.st = IF Len(task.props) + 1 = K THEN "ready" ELSE @]
        /\ draft' = IF Len(task.props) + 1 < K
                    THEN Fed(draft, <<d>>, task.old + Len(task.props)) ELSE draft
  BY DEF DraftPropose
<1> DEFINE p == task.props
           q == Append(task.props, d)
<1>2. /\ spec /\ pc \in {"commit", "join", "end"} /\ task.st = "propose"
      /\ p \in Seq(Tokens) /\ Len(p) < K /\ task.old = Len(Text) /\ draft = Cells(Text \o p)
  BY DEF DraftPropose, DecodeInv, DraftOK, TypeOK
<1>3. /\ UNCHANGED <<greedy, spec, pc, hop, fly, out, pending, preds, pos, drafts, front, peer,
                     result>>
  BY DEF DraftPropose, targetVars
<1>4. K \in Nat /\ Len(p) \in Nat /\ Text \in Seq(Tokens) /\ Len(Text) \in Nat /\ <<d>> \in Seq(Tokens)
  <2>1. Text \in Seq(Tokens) /\ Len(Text) \in Nat
    BY TextIs
  <2> QED BY <1>2, <2>1, DecodeAssumption
<1>5. /\ q \in Seq(Tokens) /\ Len(q) = Len(p) + 1 /\ q = p \o <<d>>
      /\ \A i \in 1..Len(p) : q[i] = p[i]
  BY <1>2, AppendProperties, AppendIsConcat
<1>6. /\ task'.props = q /\ task'.old = Len(Text) /\ task' \in Tasks
      /\ task'.st = IF Len(p) + 1 = K THEN "ready" ELSE "propose"
  <2>1. task \in Tasks
    BY DEF DecodeInv, TypeOK, Tasks
  <2> HIDE DEF q
  <2>2. task' = [task EXCEPT !.props = q, !.st = IF Len(p) + 1 = K THEN "ready" ELSE "propose"]
    BY <1>1, <1>2, <2>1 DEF Tasks, q
  <2> QED BY <1>2, <1>5, <2>1, <2>2 DEF Tasks
<1>7. Len(p) + 1 = K \/ Len(p) + 1 < K
  BY <1>2, <1>4
<1>8. Text' = Text
  BY <1>3 DEF Text
<1>9. CASE Len(p) + 1 = K
  <2>1. draft' = draft /\ task'.st = "ready" /\ Len(q) = K
    BY <1>1, <1>4, <1>5, <1>6, <1>9
  <2>2. ButLast(q) = p
    <3> DEFINE b == ButLast(q)
    <3> HIDE DEF q
    <3>1. K - 1 = Len(p) /\ K - 1 \in 0..Len(q)
      BY <1>4, <1>9, <2>1
    <3>2. b \in Seq(Tokens) /\ Len(b) = Len(p) /\ \A i \in 1..Len(p) : b[i] = q[i]
      BY <1>5, <3>1 DEF ButLast
    <3> HIDE DEF b
    <3>3. b = p
      BY <1>2, <1>5, <3>2, SeqEqual
    <3> QED BY <3>3 DEF b
  <2>3. TypeOK'
    BY <1>3, <1>6, <2>1 DEF DecodeInv, TypeOK, Tasks
  <2> HIDE DEF q
  <2>4. DraftOK'
    BY <1>2, <1>3, <1>6, <1>8, <2>1, <2>2 DEF DraftOK
  <2> QED BY <1>3, <2>3, <2>4, DraftSideKeeps
<1>10. CASE Len(p) + 1 < K
  <2>1. /\ draft' = Fed(draft, <<d>>, Len(Text) + Len(p)) /\ task'.st = "propose" /\ Len(q) < K
    BY <1>1, <1>2, <1>4, <1>5, <1>6, <1>10
  <2> HIDE DEF p, q
  <2>2. Text \o p \in Seq(Tokens) /\ Len(Text \o p) = Len(Text) + Len(p)
    BY <1>2, <1>4, ConcatProperties
  <2>3. (Text \o p) \o <<d>> = Text \o q
    <3>1. (Text \o p) \o <<d>> = Text \o (p \o <<d>>)
      BY ONLY <1>2, <1>4, Assoc
    <3> QED BY <1>5, <3>1, Zenon
  <2>4. draft' = Cells(Text \o q)
    <3>1. Fed(Cells(Text \o p), <<d>>, Len(Text \o p)) = Cells((Text \o p) \o <<d>>)
      BY <1>4, <2>2, FedCells
    <3> QED BY <1>2, <2>1, <2>2, <2>3, <3>1
  <2>5. TypeOK'
    <3>1. Text \o q \in Seq(Tokens)
      BY <1>4, <1>5, ConcatProperties
    <3>2. draft' \in KV
      BY <2>4, <3>1, CellsAre
    <3> QED BY <1>3, <1>6, <3>2 DEF DecodeInv, TypeOK, Tasks
  <2>6. DraftOK'
    BY <1>2, <1>3, <1>6, <1>8, <2>1, <2>4 DEF DraftOK
  <2> QED BY <1>3, <2>5, <2>6, DraftSideKeeps
<1> QED BY <1>7, <1>9, <1>10

LEMMA JoinKeeps ==
  ASSUME DecodeInv, Join
  PROVE DecodeInv'
<1>1. /\ pc = "join" /\ spec /\ Resting /\ ~Travelling /\ result = "running" /\ task.st = "ready"
      /\ Len(task.props) = K /\ draft = Cells(Text \o ButLast(task.props))
      /\ task.props \in Seq(Tokens)
  BY DEF Join, DecodeInv, PlacesOK, Resting, Travelling, DraftOK, TypeOK
<1>2. /\ drafts' = task.props /\ task' = NoTask /\ pc' = "round"
      /\ UNCHANGED <<greedy, spec, hop, fly, out, pending, preds, pos, front, peer, draft, result>>
  BY DEF Join, targetVars
<1>3. /\ Text' = Text /\ Said' = Said /\ Whole' = Text /\ Whole = Text /\ ~Travelling' /\ Resting'
  BY <1>1, <1>2 DEF Text, Said, Whole, Travelling, Resting
<1>4. TypeOK'
  BY <1>1, <1>2, NoTaskType DEF DecodeInv, TypeOK, Stages, Tasks
<1>5. PlacesOK' /\ SaidIsGreedy' /\ PredictionsOK'
  BY <1>1, <1>2, <1>3 DEF DecodeInv, PlacesOK, SaidIsGreedy, PredictionsOK
<1>6. TargetOK'
  BY <1>1, <1>2, <1>3 DEF DecodeInv, TargetOK
<1>7. DraftOK'
  BY <1>1, <1>2, <1>3, NoTaskType DEF DraftOK
<1> QED BY <1>4, <1>5, <1>6, <1>7 DEF DecodeInv

-----------------------------------------------------------------------------
(* The inductive argument.                                                    *)

LEMMA InitKeeps == Init => DecodeInv
<1> SUFFICES ASSUME Init PROVE DecodeInv
  OBVIOUS
<1>0. /\ Eos \in Tokens /\ MaxNew \in Nat /\ K \in Nat /\ K >= 2 /\ NumHops \in Nat \ {0}
  BY DecodeAssumption
<1>1. /\ pc = "start" /\ out = <<>> /\ result = "idle" /\ task = NoTask /\ Said = 0
  BY DEF Init, Said
<1>2. Leftover \in KV
  <2>1. <<Eos>> \in Seq(Tokens)
    BY <1>0
  <2> QED BY <2>1, CellsAre DEF Leftover
<1>3. TypeOK
  <2>1. greedy \in [1..Horizon -> Tokens]
    BY DEF Init, Continuations
  <2>2. fly \in [toks: Seq(Tokens), keep: Nat \cup {None}] /\ hop \in 0..(NumHops + 1)
    BY <1>0 DEF Init, NoFly
  <2>3. peer \in [Hops -> [kv: KV, pos: Nat]]
    BY <1>2 DEF Init
  <2>4. task \in Tasks
    BY <1>1, NoTaskType
  <2> QED BY <1>0, <1>2, <2>1, <2>2, <2>3, <2>4 DEF Init, TypeOK, Stages, Tasks
<1>4. PlacesOK
  BY <1>1 DEF PlacesOK
<1>5. SaidIsGreedy
  BY <1>1 DEF SaidIsGreedy, Resting
<1>6. TargetOK /\ PredictionsOK
  BY <1>1 DEF TargetOK, PredictionsOK, Travelling, Resting
<1>7. DraftOK
  BY <1>1, NoTaskType DEF DraftOK
<1> QED BY <1>3, <1>4, <1>5, <1>6, <1>7 DEF DecodeInv

LEMMA NextKeeps ==
  ASSUME DecodeInv, [Next]_vars
  PROVE DecodeInv'
<1>1. CASE Driver
  BY <1>1, StartKeeps, HopKeeps, HopFailsKeeps, HeadPrefillKeeps, PlainNextKeeps, HeadStepKeeps,
     RoundKeeps, HeadVerifyKeeps, MatchKeeps, HeadCommitKeeps, JoinKeeps, DraftFailsKeeps,
     CancelledKeeps, Zenon DEF Driver
<1>2. CASE Drafting
  BY <1>2, DraftAdvanceKeeps, DraftProposeKeeps, Zenon DEF Drafting
<1>3. CASE DraftTaskFails
  BY <1>3, DraftTaskFailsKeeps
<1>4. CASE UNCHANGED vars
  <2>1. UNCHANGED <<greedy, spec, pc, hop, fly, out, pending, preds, pos, drafts, front, peer,
                    draft, task, result>>
    BY <1>4 DEF vars
  <2>2. TypeOK' /\ DraftOK'
    <3>1. Text' = Text /\ Said' = Said
      BY <2>1 DEF Text, Said
    <3> QED BY <2>1, <3>1 DEF DecodeInv, TypeOK, DraftOK
  <2> QED BY <2>1, <2>2, DraftSideKeeps
<1> QED BY <1>1, <1>2, <1>3, <1>4 DEF Next

LEMMA DecodeInvariant == Spec => []DecodeInv
<1> QED BY InitKeeps, NextKeeps, PTL DEF Spec

\* Between two rounds every slice of the target holds the prompt and what was
\* committed, no rejected draft, at the same position (spec.rs, target_pos).
THEOREM TargetCachesAgree == Spec => []CachesAgree
<1>1. ASSUME DecodeInv PROVE CachesAgree
  <2>1. ASSUME pc \in {"next", "round"}
        PROVE /\ pos = Len(Prompt) + Len(out) /\ front = Cells(Prompt \o out)
              /\ \A h \in Hops : peer[h] = [kv |-> Cells(Prompt \o out), pos |-> pos]
    <3>1. Resting /\ Whole = Text /\ Text = Prompt \o out
      BY <2>1 DEF Resting, Whole, Text
    <3>2. Len(Text) = Len(Prompt) + Len(out)
      BY <1>1, TextIs DEF Said
    <3>3. /\ front = Cells(Text) /\ pos = Len(Text) /\ \A h \in Hops : peer[h] = Holds(Text)
      BY <1>1, <3>1 DEF DecodeInv, TargetOK
    <3> QED BY <3>1, <3>2, <3>3 DEF Holds
  <2> QED BY <1>1, <2>1 DEF CachesAgree, DecodeInv
<1> QED BY <1>1, DecodeInvariant, PTL

\* Whenever the draft proposes, it has read what was committed and its own
\* proposals, whatever part of the round before was accepted (spec.rs,
\* advance_and_propose).
THEOREM DraftReadsCommitted == Spec => []DraftAgrees
<1>1. DecodeInv => DraftAgrees
  BY DEF DecodeInv, DraftOK, DraftAgrees, Text
<1> QED BY <1>1, DecodeInvariant, PTL

-----------------------------------------------------------------------------
(* A turn says the greedy continuation: TurnDecode implements GreedyDecode.   *)

\* What is said of a sequence of tokens is what precedes its end of sequence.
LEMMA UpToEosIs ==
  ASSUME NEW toks \in Seq(Tokens)
  PROVE \E n \in 0..Len(toks) :
          /\ UpToEos(toks) = SubSeq(toks, 1, n)
          /\ \A i \in 1..n : toks[i] # Eos
          /\ n = Len(toks) \/ toks[n + 1] = Eos
<1> DEFINE Stops == {n \in 0..Len(toks) : n = Len(toks) \/ toks[n + 1] = Eos}
           Good(n) == /\ \A i \in 1..n : toks[i] # Eos
                      /\ n = Len(toks) \/ toks[n + 1] = Eos
           N == CHOOSE n \in 0..Len(toks) : Good(n)
<1>1. Stops \subseteq Nat /\ Len(toks) \in Stops /\ Len(toks) \in Nat
  OBVIOUS
<1>2. PICK n \in Stops : \A m \in Stops : n <= m
  <2> HIDE DEF Stops
  <2> QED BY <1>1, Least
<1>3. ASSUME NEW i \in 1..n PROVE toks[i] # Eos
  <2>1. i - 1 \in 0..Len(toks) /\ (i - 1) + 1 = i /\ ~(n <= i - 1)
    BY <1>1
  <2> QED BY <1>2, <2>1
<1>4. N \in 0..Len(toks) /\ Good(N)
  <2>1. n \in 0..Len(toks) /\ Good(n)
    BY <1>3
  <2> HIDE DEF Good
  <2> QED BY <2>1
<1>5. UpToEos(toks) = SubSeq(toks, 1, N)
  BY DEF UpToEos
<1> HIDE DEF N
<1> QED BY <1>4, <1>5

\* How much of the continuation is to be said.
LEMMA ReplyLenIs ==
  ASSUME TypeOK
  PROVE /\ GD!ReplyLen(greedy) \in 0..MaxNew
        /\ \A i \in 1..GD!ReplyLen(greedy) : greedy[i] # Eos
        /\ GD!ReplyLen(greedy) = MaxNew \/ greedy[GD!ReplyLen(greedy) + 1] = Eos
<1> DEFINE Stops == {n \in 0..MaxNew : n = MaxNew \/ greedy[n + 1] = Eos}
           Good(n) == /\ \A i \in 1..n : greedy[i] # Eos
                      /\ n = MaxNew \/ greedy[n + 1] = Eos
<1>1. Stops \subseteq Nat /\ MaxNew \in Stops /\ MaxNew \in Nat
  BY DecodeAssumption
<1>2. PICK n \in Stops : \A m \in Stops : n <= m
  <2> HIDE DEF Stops
  <2> QED BY <1>1, Least
<1>3. ASSUME NEW i \in 1..n PROVE greedy[i] # Eos
  <2>1. i - 1 \in 0..MaxNew /\ (i - 1) + 1 = i /\ ~(n <= i - 1)
    BY <1>1
  <2> QED BY <1>2, <2>1
<1>4. n \in 0..MaxNew /\ Good(n)
  BY <1>3
<1> QED BY <1>4 DEF GD!ReplyLen

\* What was said, as a beginning of the continuation that is no longer than the
\* reply; nothing is held back while the turn runs.
SaidSoFar ==
  \E m \in 0..Said :
     /\ UpToEos(out) = SubSeq(greedy, 1, m) /\ Len(UpToEos(out)) = m
     /\ m <= GD!ReplyLen(greedy)
     /\ m = Said \/ greedy[m + 1] = Eos
     /\ result = "running" => m = Said

LEMMA SaidSoFarHolds == DecodeInv => SaidSoFar
<1> SUFFICES ASSUME DecodeInv PROVE SaidSoFar
  OBVIOUS
<1>1. /\ Said \in 0..MaxNew /\ MaxNew \in Nat /\ out \in Seq(Tokens) /\ Said = Len(out)
      /\ \A i \in 1..Said : out[i] = greedy[i]
      /\ TypeOK
  BY TextIs, DecodeAssumption DEF DecodeInv, TypeOK, Said
<1>2. PICK m \in 0..Said :
          /\ UpToEos(out) = SubSeq(out, 1, m)
          /\ \A i \in 1..m : out[i] # Eos
          /\ m = Said \/ out[m + 1] = Eos
  BY <1>1, UpToEosIs
<1>3. m \in 0..Len(out) /\ m \in 0..Horizon /\ m \in Nat
  BY <1>1, DecodeAssumption DEF Horizon
<1>4. SubSeq(out, 1, m) = SubSeq(greedy, 1, m) /\ Len(SubSeq(out, 1, m)) = m
  <2> DEFINE a == SubSeq(out, 1, m)
             b == SubSeq(greedy, 1, m)
  <2>1. a \in Seq(Tokens) /\ Len(a) = m /\ \A i \in 1..m : a[i] = out[i]
    BY <1>1, <1>3, PrefixIs
  <2>2. b \in Seq(Tokens) /\ Len(b) = m /\ \A i \in 1..m : b[i] = greedy[i]
    BY <1>1, <1>3, ContextIs
  <2> HIDE DEF a, b
  <2>3. \A i \in 1..m : a[i] = b[i]
    BY <1>1, <1>3, <2>1, <2>2
  <2>4. a = b
    BY <2>1, <2>2, <2>3, SeqEqual
  <2> QED BY <2>1, <2>4 DEF a, b
<1>5. m = Said \/ greedy[m + 1] = Eos
  BY <1>1, <1>2, <1>3
<1>6. m <= GD!ReplyLen(greedy)
  <2> DEFINE R == GD!ReplyLen(greedy)
  <2>1. R \in 0..MaxNew /\ (R = MaxNew \/ greedy[R + 1] = Eos)
    BY <1>1, ReplyLenIs
  <2> HIDE DEF R
  <2>2. SUFFICES ASSUME R < m PROVE FALSE
    <3>1. R \in Nat
      BY <1>1, <2>1
    <3> QED BY <1>3, <3>1 DEF R
  <2>3. R + 1 \in 1..m /\ R # MaxNew /\ R + 1 \in 1..Said
    BY <1>1, <1>3, <2>1, <2>2
  <2> QED BY <1>1, <1>2, <2>1, <2>3
<1>7. ASSUME result = "running" PROVE m = Said
  <2>1. \A i \in 1..Said : out[i] # Eos
    BY <1>7 DEF DecodeInv, SaidIsGreedy
  <2>2. m # Said => m + 1 \in 1..Said
    BY <1>1, <1>3
  <2> QED BY <1>2, <2>1, <2>2
<1> QED BY <1>2, <1>4, <1>5, <1>6, <1>7 DEF SaidSoFar

\* Nothing is left to say at the limit or behind an end of sequence.
AllSaid ==
  \/ Said = MaxNew
  \/ \E i \in 1..Said : out[i] = Eos
  \/ result = "running" /\ greedy[Said + 1] = Eos

LEMMA AllSaidIsReply == DecodeInv => (AllSaid => UpToEos(out) = GD!Reply(greedy))
<1> SUFFICES ASSUME DecodeInv, AllSaid PROVE UpToEos(out) = GD!Reply(greedy)
  OBVIOUS
<1>1. PICK m \in 0..Said :
          /\ UpToEos(out) = SubSeq(greedy, 1, m) /\ Len(UpToEos(out)) = m
          /\ m <= GD!ReplyLen(greedy)
          /\ m = Said \/ greedy[m + 1] = Eos
          /\ result = "running" => m = Said
  BY SaidSoFarHolds DEF SaidSoFar
<1> DEFINE R == GD!ReplyLen(greedy)
<1>2. /\ Said \in 0..MaxNew /\ MaxNew \in Nat /\ R \in 0..MaxNew
      /\ \A i \in 1..R : greedy[i] # Eos
      /\ R = MaxNew \/ greedy[R + 1] = Eos
      /\ \A i \in 1..Said : out[i] = greedy[i]
  BY TextIs, ReplyLenIs, DecodeAssumption DEF DecodeInv
<1>3. Said \in Nat /\ m \in Nat /\ R \in Nat /\ m <= R /\ Said <= MaxNew
  BY <1>1, <1>2
<1>4. m = R
  <2>1. SUFFICES ASSUME m < R PROVE FALSE
    BY <1>3
  <2> HIDE DEF R
  <2>2. m + 1 \in 1..R
    BY <1>3, <2>1
  <2>3. greedy[m + 1] # Eos
    BY <1>2, <2>2
  <2>4. m = Said
    BY <1>1, <2>3
  <2>5. CASE Said = MaxNew
    BY <1>2, <1>3, <2>1, <2>4, <2>5
  <2>6. CASE \E i \in 1..Said : out[i] = Eos
    <3>1. PICK i \in 1..Said : out[i] = Eos
      BY <2>6
    <3>2. i \in 1..R
      BY <1>3, <2>4
    <3> QED BY <1>2, <3>1, <3>2
  <2>7. CASE result = "running" /\ greedy[Said + 1] = Eos
    BY <2>3, <2>4, <2>7
  <2> QED BY <2>5, <2>6, <2>7 DEF AllSaid
<1> QED BY <1>1, <1>4 DEF GD!Reply

GreedyNext == GD!Begin \/ GD!Say \/ GD!End
GreedyVars == <<greedy, UpToEos(out), result>>

\* A step of a running turn that does not end it well says more, or nothing.
LEMMA SayingStep ==
  ASSUME DecodeInv, SaidSoFar, SaidSoFar', greedy' = greedy, result = "running",
         result' \in {"running", "failed"}, Said' >= Said
  PROVE [GreedyNext]_GreedyVars
<1>1. UpToEos(out) = SubSeq(greedy, 1, Said) /\ Len(UpToEos(out)) = Said
  BY DEF SaidSoFar
<1>2. PICK k \in 0..Said' :
          /\ UpToEos(out') = SubSeq(greedy, 1, k)
          /\ k <= GD!ReplyLen(greedy)
          /\ k = Said' \/ greedy[k + 1] = Eos
  <2>1. UpToEos(out)' = UpToEos(out') /\ GD!ReplyLen(greedy)' = GD!ReplyLen(greedy)
    BY DEF UpToEos, GD!ReplyLen
  <2> QED BY <2>1 DEF SaidSoFar
<1>3. Said \in Nat /\ GD!ReplyLen(greedy) \in Nat /\ \A i \in 1..Said : greedy[i] # Eos
  <2>1. \A i \in 1..Said : out[i] = greedy[i] /\ out[i] # Eos
    BY TextIs DEF DecodeInv, SaidIsGreedy
  <2> QED BY <2>1, TextIs, ReplyLenIs, DecodeAssumption DEF DecodeInv
<1>4. k \in Nat /\ k >= Said
  <2>1. k \in Nat
    OBVIOUS
  <2>2. k < Said => k + 1 \in 1..Said /\ k # Said'
    BY <1>3, <2>1
  <2> QED BY <1>2, <1>3, <2>1, <2>2
<1>5. CASE k = Said
  <2>1. UpToEos(out)' = UpToEos(out)
    BY <1>1, <1>2, <1>5 DEF UpToEos
  <2>2. CASE result' = "running"
    BY <2>1, <2>2 DEF GreedyVars
  <2>3. CASE result' = "failed"
    BY <2>1, <2>3 DEF GreedyNext, GD!End
  <2> QED BY <2>2, <2>3
<1>6. CASE k > Said
  <2>1. k \in 1..GD!ReplyLen(greedy) /\ k > Len(UpToEos(out))
    BY <1>1, <1>2, <1>3, <1>4, <1>6
  <2>2. UpToEos(out)' = SubSeq(greedy, 1, k)
    BY <1>2 DEF UpToEos
  <2> QED BY <2>1, <2>2 DEF GreedyNext, GD!Say
<1> QED BY <1>3, <1>4, <1>5, <1>6

\* The end of a turn that went well.
LEMMA LastStep ==
  ASSUME greedy' = greedy, result = "running", result' = "ok",
         UpToEos(out)' = GD!Reply(greedy)'
  PROVE [GreedyNext]_GreedyVars
<1>1. GD!Reply(greedy)' = GD!Reply(greedy)
  BY DEF GD!Reply, GD!ReplyLen
<1> QED BY <1>1 DEF GreedyNext, GD!End

LEMMA MatchRefines ==
  ASSUME DecodeInv, SaidSoFar, SaidSoFar', (AllSaid => UpToEos(out) = GD!Reply(greedy))', Match
  PROVE [GreedyNext]_GreedyVars
<1> DEFINE j == Accepted
           toks == Emitted(j)
           taken == SaidOf(toks)
<1>0. /\ pc = "match" /\ result = "running" /\ greedy' = greedy /\ out' = out \o taken
  BY DEF Match, DecodeInv, PlacesOK
<1>1. /\ j \in 0..K /\ toks \in Seq(Tokens) /\ Len(toks) = j + 1
      /\ \A i \in 1..(j + 1) : toks[i] = greedy[Said + i]
  BY <1>0, EmittedIs
<1>2. PICK n \in 1..(j + 1) :
          /\ Said + n <= MaxNew /\ taken \in Seq(Tokens) /\ Len(taken) = n
          /\ \A i \in 1..n : taken[i] = toks[i] /\ toks[i] = greedy[Said + i]
          /\ n = Accepted + 1 \/ Said + n = MaxNew \/ toks[n] = Eos
  <2>1. toks = Emitted(Accepted)
    OBVIOUS
  <2> HIDE DEF toks
  <2> QED BY <1>0, <2>1, MatchSays
<1>3. CASE Len(taken) < Len(toks) \/ EosIn(taken)
  <2>1. result' = "ok"
    BY <1>3 DEF Match
  <2> HIDE DEF j, toks, taken
  <2>2. /\ Said \in Nat /\ n \in Nat /\ Said' = Said + n /\ MaxNew \in Nat /\ K \in Nat /\ j \in Nat
        /\ \A i \in 1..n : out'[Said + i] = taken[i]
    <3>1. /\ Said \in Nat /\ MaxNew \in Nat /\ K \in Nat /\ Horizon = MaxNew + K + 1
      BY TextIs, DecodeAssumption DEF Horizon
    <3>2. j \in Nat
      BY <1>1, <3>1
    <3>3. n \in Nat
      BY <3>2
    <3>4. Said + Len(taken) <= Horizon
      BY <1>2, <3>1, <3>3
    <3>5. \A i \in 1..Len(taken) : taken[i] = greedy[Said + i]
      BY <1>2
    <3>6. Len(out') = Said + n /\ \A i \in 1..n : out'[Said + i] = taken[i]
      BY <1>0, <1>2, <3>4, <3>5, SayMore
    <3> QED BY <3>1, <3>2, <3>3, <3>6 DEF Said
  <2>3. AllSaid'
    <3>1. CASE Said + n = MaxNew
      BY <2>2, <3>1 DEF AllSaid
    <3>2. CASE EosIn(taken)
      <4>1. PICK i \in 1..n : taken[i] = Eos
        BY <1>2, <3>2 DEF EosIn
      <4>2. Said + i \in 1..Said' /\ out'[Said + i] = Eos
        BY <2>2, <4>1
      <4> QED BY <4>2 DEF AllSaid
    <3>3. CASE Len(taken) < Len(toks) /\ Said + n # MaxNew
      <4>1. n # Accepted + 1
        BY <1>1, <1>2, <2>2, <3>3 DEF j
      <4>2. toks[n] = Eos /\ n \in 1..n
        BY <1>2, <2>2, <3>3, <4>1
      <4>3. Said + n \in 1..Said' /\ out'[Said + n] = Eos
        BY <1>2, <2>2, <4>2
      <4> QED BY <4>3 DEF AllSaid
    <3> QED BY <1>3, <3>1, <3>2, <3>3
  <2>4. UpToEos(out)' = GD!Reply(greedy)'
    BY <2>3
  <2> QED BY <1>0, <2>1, <2>4, LastStep
<1>4. CASE ~(Len(taken) < Len(toks) \/ EosIn(taken))
  <2>1. result' = "running"
    BY <1>0, <1>4 DEF Match
  <2> HIDE DEF j, toks, taken
  <2>2. Said' >= Said
    <3>1. out \in Seq(Tokens)
      BY DEF DecodeInv, TypeOK
    <3> QED BY <1>0, <1>2, <3>1, ConcatProperties DEF Said
  <2> QED BY <1>0, <2>1, <2>2, SayingStep
<1> QED BY <1>3, <1>4

LEMMA NextRefines ==
  ASSUME DecodeInv, SaidSoFar, SaidSoFar', (AllSaid => UpToEos(out) = GD!Reply(greedy))',
         [Next]_vars
  PROVE [GreedyNext]_GreedyVars
<1>0. Said \in Nat /\ MaxNew \in Nat /\ Said <= MaxNew /\ out \in Seq(Tokens) /\ pending \in Tokens
  BY TextIs, DecodeAssumption DEF DecodeInv, TypeOK
<1>1. CASE Start
  <2>1. result = "idle" /\ result' = "running" /\ greedy' = greedy /\ out' = out
    BY <1>1 DEF Start, DecodeInv, PlacesOK
  <2>2. UpToEos(out)' = UpToEos(out)
    BY <2>1 DEF UpToEos
  <2> QED BY <2>1, <2>2 DEF GreedyNext, GD!Begin
<1>2. CASE \/ Hop \/ HeadPrefill \/ HeadStep \/ HeadVerify \/ HeadCommit \/ Join
           \/ Drafting \/ DraftTaskFails \/ UNCHANGED vars
  <2>1. greedy' = greedy /\ out' = out /\ result' = result
    BY <1>2 DEF Hop, HeadPrefill, HeadStep, HeadVerify, HeadCommit, Join, Drafting, DraftAdvance,
       DraftPropose, DraftTaskFails, vars
  <2>2. UpToEos(out)' = UpToEos(out)
    BY <2>1 DEF UpToEos
  <2> QED BY <2>1, <2>2 DEF GreedyVars
<1>3. CASE HopFails \/ DraftFails
  <2>1. result = "running" /\ result' = "failed" /\ greedy' = greedy /\ out' = out
    BY <1>3 DEF HopFails, DraftFails, InChain, DecodeInv, PlacesOK
  <2>2. Said' >= Said
    BY <1>0, <2>1 DEF Said
  <2> QED BY <2>1, <2>2, SayingStep
<1>4. CASE PlainNext
  <2>1. result = "running" /\ pc = "next" /\ greedy' = greedy /\ pending = greedy[Said + 1]
    BY <1>4 DEF PlainNext, DecodeInv, PlacesOK, SaidIsGreedy, Resting
  <2>2. CASE pending = Eos \/ Said >= MaxNew
    <3>1. result' = "ok" /\ out' = out
      BY <1>4, <2>2 DEF PlainNext
    <3>2. AllSaid
      BY <1>0, <2>1, <2>2 DEF AllSaid
    <3>3. UpToEos(out)' = GD!Reply(greedy)'
      <4>1. UpToEos(out) = GD!Reply(greedy)
        BY <3>2, AllSaidIsReply
      <4> QED BY <2>1, <3>1, <4>1 DEF UpToEos, GD!Reply, GD!ReplyLen
    <3> QED BY <2>1, <3>1, <3>3, LastStep
  <2>3. CASE ~(pending = Eos \/ Said >= MaxNew)
    <3>1. result' = "running" /\ out' = Append(out, pending)
      BY <1>4, <2>1, <2>3 DEF PlainNext
    <3>2. Said' >= Said
      BY <1>0, <3>1, AppendProperties DEF Said
    <3> QED BY <2>1, <3>1, <3>2, SayingStep
  <2> QED BY <2>2, <2>3
<1>5. CASE Round
  <2>1. result = "running" /\ greedy' = greedy /\ out' = out
    BY <1>5 DEF Round, DecodeInv, PlacesOK
  <2>2. CASE Said >= MaxNew
    <3>1. result' = "ok"
      BY <1>5, <2>2 DEF Round
    <3>2. AllSaid
      BY <1>0, <2>2 DEF AllSaid
    <3>3. UpToEos(out)' = GD!Reply(greedy)'
      <4>1. UpToEos(out) = GD!Reply(greedy)
        BY <3>2, AllSaidIsReply
      <4> QED BY <2>1, <4>1 DEF UpToEos, GD!Reply, GD!ReplyLen
    <3> QED BY <2>1, <3>1, <3>3, LastStep
  <2>3. CASE ~(Said >= MaxNew)
    <3>1. result' = "running" /\ Said' >= Said
      BY <1>0, <1>5, <2>1, <2>3 DEF Round, Said
    <3> QED BY <2>1, <3>1, SayingStep
  <2> QED BY <2>2, <2>3
<1>6. CASE Match
  BY <1>6, MatchRefines
<1>7. CASE Cancelled
  <2>1. result = "running" /\ result' = "failed" /\ greedy' = greedy
    BY <1>7 DEF Cancelled, DecodeInv, PlacesOK
  <2>2. Said' >= Said
    <3>1. CASE UNCHANGED out
      BY <1>0, <3>1 DEF Said
    <3>2. CASE pc = "match" /\ LET taken == SaidOf(Emitted(Accepted))
                               IN \E n \in 0..(Len(taken) - 1) : out' = out \o SubSeq(taken, 1, n)
      <4> DEFINE taken == SaidOf(Emitted(Accepted))
      <4>1. PICK n \in 0..(Len(taken) - 1) : out' = out \o SubSeq(taken, 1, n)
        BY <3>2
      <4>2. taken \in Seq(Tokens)
        BY <3>2, MatchSays
      <4> HIDE DEF taken
      <4>3. n \in 0..Len(taken)
        BY <4>2
      <4>4. SubSeq(taken, 1, n) \in Seq(Tokens)
        BY <4>2, <4>3, PrefixIs
      <4> DEFINE t == SubSeq(taken, 1, n)
      <4> HIDE DEF t
      <4>5. Len(out \o t) = Len(out) + Len(t) /\ Len(t) \in Nat /\ Len(out) \in Nat
        BY <1>0, <4>4, ConcatProperties, LenProperties DEF t
      <4> QED BY <4>1, <4>5 DEF Said, t
    <3> QED BY <1>7, <3>1, <3>2 DEF Cancelled
  <2> QED BY <2>1, <2>2, SayingStep
<1> QED BY <1>1, <1>2, <1>3, <1>4, <1>5, <1>6, <1>7 DEF Next, Driver

\* Whatever the draft proposes and however much of it is accepted, a turn says
\* the target's greedy continuation up to its end of sequence or the limit, and
\* all of it when the turn succeeds (spec.rs, the contract in the module's
\* comment; chain.rs, run_turn).
THEOREM TurnSaysGreedy == Spec => ImplementsGreedy
<1>1. Init => GD!GreedyInit
  <2> SUFFICES ASSUME Init PROVE GD!GreedyInit
    OBVIOUS
  <2>1. out = <<>> /\ result = "idle" /\ <<>> \in Seq(Tokens) /\ Len(<<>>) = 0
    BY DEF Init
  <2>2. PICK n \in 0..0 : UpToEos(<<>>) = SubSeq(<<>>, 1, n)
    BY <2>1, UpToEosIs
  <2>3. SubSeq(<<>>, 1, 0) = <<>>
    BY <2>1, PrefixIs, EmptySeq
  <2> QED BY <2>1, <2>2, <2>3 DEF GD!GreedyInit
<1>2. DecodeInv => SaidSoFar
  BY SaidSoFarHolds
<1>3. DecodeInv => (AllSaid => UpToEos(out) = GD!Reply(greedy))
  BY AllSaidIsReply
<1>4. /\ DecodeInv /\ SaidSoFar /\ SaidSoFar'
      /\ (AllSaid => UpToEos(out) = GD!Reply(greedy))' /\ [Next]_vars
      => [GD!Begin \/ GD!Say \/ GD!End]_<<greedy, UpToEos(out), result>>
  BY NextRefines DEF GreedyNext, GreedyVars
<1> QED BY <1>1, <1>2, <1>3, <1>4, DecodeInvariant, PTL DEF Spec, ImplementsGreedy, GD!GreedySpec
=============================================================================
