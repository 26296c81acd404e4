--------------------------- MODULE ShardStoreProofs ---------------------------
(* That a listed range has its chunks, and that a chunk is put in place only   *)
(* whole, however many pulls fill a model's directory: a chunk that two of     *)
(* them were at once is set aside. Then, of the contents, that a slice reads   *)
(* the tensors of its layers and that it loads.                                *)
EXTENDS ShardStore, ShardFormat, RecursionProofs, FiniteSetTheorems

-----------------------------------------------------------------------------
(* The chunks and their sizes.                                                *)

LEMMA ChunksAre ==
  /\ Layers \in Nat /\ Chunks = -2 .. Layers /\ Header \in Chunks
  /\ \A c \in Chunks : Size[c] \in Nat /\ Size[c] > 0
<1>1. Layers \in Nat /\ Layers > 0 /\ Size \in [-2 .. Layers -> Nat \ {0}]
  BY ShardAssumption
<1>2. Chunks = -2 .. Layers /\ Header \in Chunks
  BY <1>1 DEF Chunks, Bundles, Embed, Head_, Header
<1> QED BY <1>1, <1>2

\* A largest chunk: the maximum over the recursion's steps.
LEMMA LargestChunk ==
  \E m \in Chunks : \A c \in Chunks : Size[c] <= Size[m]
<1> DEFINE n == Layers + 2
           P == {k \in 0 .. n : \E m \in Chunks : \A c \in -2 .. (k - 2) : Size[c] <= Size[m]}
<1>0. /\ n \in Nat /\ Layers \in Nat /\ Chunks = -2 .. Layers /\ n - 2 = Layers
      /\ \A c \in Chunks : Size[c] \in Nat
  BY ChunksAre
<1>1. 0 \in P
  <2>1. -2 \in Chunks /\ \A c \in -2 .. (0 - 2) : c = -2
    BY <1>0
  <2>2. \A c \in -2 .. (0 - 2) : Size[c] <= Size[-2]
    BY <1>0, <2>1
  <2> QED BY <1>0, <2>1, <2>2
<1>2. ASSUME NEW k \in 1 .. n, k - 1 \in P PROVE k \in P
  <2>1. PICK m \in Chunks : \A c \in -2 .. ((k - 1) - 2) : Size[c] <= Size[m]
    BY <1>2
  <2>2. k - 2 \in Chunks /\ \A c \in -2 .. (k - 2) : c = k - 2 \/ c \in -2 .. ((k - 1) - 2)
    BY <1>0
  <2>3. \A c \in -2 .. (k - 2) : c \in Chunks
    BY <1>0
  <2>4. CASE Size[k - 2] <= Size[m]
    <3>1. \A c \in -2 .. (k - 2) : Size[c] <= Size[m]
      BY <2>1, <2>2, <2>4
    <3> QED BY <1>0, <3>1
  <2>5. CASE ~(Size[k - 2] <= Size[m])
    <3>1. \A c \in -2 .. (k - 2) : Size[c] <= Size[k - 2]
      BY <1>0, <2>1, <2>2, <2>3, <2>5
    <3> QED BY <1>0, <2>2, <3>1
  <2> QED BY <2>4, <2>5
<1>3. n \in P
  <2> HIDE DEF P
  <2>1. \A k \in 0 .. n : k \in P
    BY <1>0, <1>1, <1>2, UpTo
  <2> QED BY <1>0, <2>1
<1> QED BY <1>0, <1>3

LEMMA MaxSizeIs ==
  MaxSize \in Nat /\ \A c \in Chunks : Size[c] <= MaxSize
<1> DEFINE S == {Size[c] : c \in Chunks}
<1>1. PICK m \in Chunks : \A c \in Chunks : Size[c] <= Size[m]
  BY LargestChunk
<1>2. \A x \in S : x \in Nat
  BY ChunksAre
<1>3. Size[m] \in S /\ \A y \in S : Size[m] >= y
  BY <1>1, ChunksAre
<1>4. MaxSize = CHOOSE x \in S : \A y \in S : x >= y
  BY DEF MaxSize, Max
<1> HIDE DEF S
<1>5. MaxSize \in S /\ \A y \in S : MaxSize >= y
  BY <1>3, <1>4
<1>6. \A c \in Chunks : Size[c] \in S
  BY DEF S
<1>7. \A c \in Chunks : Size[c] \in Nat
  BY ChunksAre
<1> QED BY <1>2, <1>5, <1>6, <1>7

-----------------------------------------------------------------------------
(* The files.                                                                 *)

FileUnits == {"good", "bad", "hole"}

LEMMA ContentsAre ==
  ASSUME NEW t \in Contents
  PROVE  t \in Seq(FileUnits) /\ Len(t) \in 0 .. MaxSize
<1>1. PICK n \in 0 .. MaxSize : t \in [1 .. n -> FileUnits]
  BY DEF Contents, FileUnits
<1>2. n \in Nat
  BY MaxSizeIs
<1>3. t \in Seq(FileUnits) /\ Len(t) = n
  BY <1>1, <1>2
<1> QED BY <1>3

LEMMA IsContents ==
  ASSUME NEW n \in 0 .. MaxSize, NEW t \in [1 .. n -> FileUnits]
  PROVE  t \in Contents /\ Len(t) = n
<1>1. n \in Nat
  BY MaxSizeIs
<1>2. t \in Contents
  BY DEF Contents, FileUnits
<1> QED BY <1>1, <1>2

\* A file as long as its chunk, with good units only, is whole.
LEMMA GoodIsWhole ==
  ASSUME NEW c \in Chunks, NEW t \in Contents, Len(t) = Size[c],
         \A i \in 1 .. Size[c] : t[i] = "good"
  PROVE  Whole(c, t)
<1>1. PICK n \in 0 .. MaxSize : t \in [1 .. n -> FileUnits]
  BY DEF Contents, FileUnits
<1>2. n \in Nat /\ Len(t) = n
  BY <1>1, MaxSizeIs
<1>3. t \in [1 .. Size[c] -> FileUnits]
  BY <1>1, <1>2
<1> QED BY <1>3 DEF Whole

\* A whole file is there.
LEMMA WholeIsThere ==
  ASSUME NEW c \in Chunks, NEW t, Whole(c, t)
  PROVE  t # Absent
<1>1. 1 \in 1 .. Size[c]
  BY ChunksAre
<1>2. t[1] = "good"
  BY <1>1 DEF Whole
<1> QED BY <1>2 DEF Absent

\* The next unit, at the end.
LEMMA WriteAtEnd ==
  ASSUME NEW t \in Contents, NEW unit \in FileUnits, Len(t) < MaxSize
  PROVE  /\ WriteAt(t, Len(t), unit) \in Contents
         /\ Len(WriteAt(t, Len(t), unit)) = Len(t) + 1
         /\ \A i \in 1 .. Len(t) + 1 :
              WriteAt(t, Len(t), unit)[i] = IF i = Len(t) + 1 THEN unit ELSE t[i]
<1> DEFINE n == Len(t)
           w == [i \in 1 .. n + 1 |->
                   IF i = n + 1 THEN unit ELSE IF i <= n THEN t[i] ELSE "hole"]
<1>1. n \in Nat /\ t \in Seq(FileUnits) /\ n + 1 \in 0 .. MaxSize
  BY ContentsAre, MaxSizeIs
<1>2. ~(n > n)
  BY <1>1
<1>3. WriteAt(t, Len(t), unit) = w
  BY <1>2 DEF WriteAt
<1>4. w \in [1 .. n + 1 -> FileUnits]
  <2>1. \A i \in 1 .. n : t[i] \in FileUnits
    BY <1>1
  <2>2. "hole" \in FileUnits /\ \A i \in 1 .. n + 1 : i <= n => i \in 1 .. n
    BY <1>1 DEF FileUnits
  <2> HIDE DEF n
  <2> QED BY <2>1, <2>2
<1>5. \A i \in 1 .. n + 1 : w[i] = IF i = n + 1 THEN unit ELSE t[i]
  BY <1>1
<1> HIDE DEF w, n
<1>6. w \in Contents /\ Len(w) = n + 1
  BY <1>1, <1>4, IsContents
<1> QED BY <1>3, <1>5, <1>6 DEF n

\* Anywhere within the largest chunk.
LEMMA WriteIs ==
  ASSUME NEW t \in Contents, NEW at \in Nat, at < MaxSize, NEW unit \in FileUnits
  PROVE  WriteAt(t, at, unit) \in Contents
<1> DEFINE m == IF Len(t) > at THEN Len(t) ELSE at + 1
           w == [i \in 1 .. m |-> IF i = at + 1 THEN unit
                                  ELSE IF i <= Len(t) THEN t[i] ELSE "hole"]
<1>1. t \in Seq(FileUnits) /\ Len(t) \in 0 .. MaxSize /\ MaxSize \in Nat
  BY ContentsAre, MaxSizeIs
<1>2. m \in 0 .. MaxSize /\ \A i \in 1 .. m : i \in Nat /\ i > 0
  BY <1>1
<1>3. \A i \in 1 .. Len(t) : t[i] \in FileUnits
  BY <1>1
<1>4. w \in [1 .. m -> FileUnits]
  <2>1. "hole" \in FileUnits /\ \A i \in 1 .. m : i <= Len(t) => i \in 1 .. Len(t)
    BY <1>1, <1>2 DEF FileUnits
  <2> HIDE DEF m
  <2> QED BY <1>3, <2>1
<1>5. WriteAt(t, at, unit) = w
  BY DEF WriteAt
<1> HIDE DEF w, m
<1> QED BY <1>2, <1>4, <1>5, IsContents

-----------------------------------------------------------------------------
(* The chunks of a range, and the first one missing.                          *)

LEMMA RangeChunks ==
  ASSUME NEW r \in Ranges
  PROVE  StitchNeeds(r) \subseteq ForRange(r) /\ ForRange(r) \subseteq Chunks
<1>1. /\ r[1] \in Nat /\ r[2] \in Nat /\ r[2] <= Layers /\ r[1] < r[2]
      /\ Layers \in Nat
  <2>1. r \in Nat \X Nat /\ r[2] <= Layers /\ r[1] < r[2]
    BY ShardAssumption
  <2> QED BY <2>1, ChunksAre
<1>2. StitchNeeds(r) \subseteq ForRange(r)
  <2> SUFFICES ASSUME NEW b \in StitchNeeds(r) PROVE b \in ForRange(r)
    OBVIOUS
  <2>1. CASE b = Header
    BY <2>1 DEF ForRange
  <2>2. CASE b # Header
    <3>1. /\ b \in Bundles
          /\ CASE b = Embed -> r[1] = 0
               [] b = Head_ -> r[2] = Layers
               [] OTHER -> r[1] <= b /\ b < r[2]
      BY <2>2 DEF StitchNeeds
    <3>2. CASE b = Embed
      BY <1>1, <3>1, <3>2 DEF ForRange
    <3>3. CASE b # Embed /\ b = Head_
      BY <1>1, <3>1, <3>3 DEF ForRange
    <3>4. CASE b # Embed /\ b # Head_
      <4>1. r[1] <= b /\ b < r[2] /\ b \in Int
        BY <1>1, <3>1, <3>4 DEF Bundles, Embed, Head_
      <4>2. b \in r[1] .. r[2] - 1
        BY <1>1, <4>1
      <4> QED BY <4>2 DEF ForRange
    <3> QED BY <3>2, <3>3, <3>4
  <2> QED BY <2>1, <2>2
<1>3. ForRange(r) \subseteq Chunks
  BY <1>1, ChunksAre DEF ForRange, Header, Embed, Head_
<1> QED BY <1>2, <1>3

LEMMA FirstMissing ==
  ASSUME NEW S, S \subseteq Chunks, S # {}
  PROVE  Min(S) \in S
<1> DEFINE T == {c + 2 : c \in S}
<1>1. \A c \in S : c \in Int /\ c + 2 \in Nat
  BY ChunksAre
<1>2. T \subseteq Nat /\ T # {}
  BY <1>1
<1>3. PICK n \in T : \A m \in T : n <= m
  <2> HIDE DEF T
  <2> QED BY <1>2, Least
<1>4. PICK c \in S : n = c + 2
  BY <1>3
<1>5. \A d \in S : c <= d
  <2> SUFFICES ASSUME NEW d \in S PROVE c <= d
    OBVIOUS
  <2>1. c + 2 <= d + 2
    BY <1>3, <1>4
  <2> QED BY <1>1, <2>1
<1>6. Min(S) = CHOOSE x \in S : \A y \in S : x =< y
  BY DEF Min
<1> QED BY <1>5, <1>6
-----------------------------------------------------------------------------
(* The inductive invariant.                                                   *)

Calm == {"idle", "check", "drop", "resume", "done", "failed"}

\* A fetch, its temporary file t and its file w: an open file is there, and no
\* more has been hashed than the file has.
OpenOK(f, t, w) ==
  /\ f.step \in Calm => f = [NoFetch EXCEPT !.step = f.step]
  /\ f.step = "ask" => f.at = 0 /\ f.total = 0 /\ f.hashed = 0 /\ f.fd = "none" /\ f.aim = "true"
  /\ f.hashed <= f.at
  /\ f.fd = "tmp" => t \in Contents
  /\ f.fd = "final" => w \in Contents

\* A fetch of chunk c that no other has been in the way of: one that asks to
\* resume has that much of the file; one that receives writes at the file's end,
\* and its hash, while it is worth anything, has seen the whole file.
FetchOK(c, f, t, w) ==
  /\ f.step = "drop" => ~Whole(c, w)
  /\ f.step = "ask" /\ f.from > 0 => t \in Contents /\ Len(t) = f.from
  /\ f.step = "stream" =>
       /\ f.fd = "tmp" /\ t \in Contents /\ Len(t) = f.at /\ f.aim = "true"
       /\ f.hashed # Spoilt => f.hashed = f.at /\ \A i \in 1 .. f.at : t[i] = "good"
  /\ f.step = "done" => Whole(c, w)

FilesOpen == \A p \in Pulls, c \in Chunks : OpenOK(fetch[p][c], tmp[c], final[c])

LoneFetches ==
  \A c \in Chunks \ mixed : \A p \in Pulls : FetchOK(c, fetch[p][c], tmp[c], final[c])

OneDownloads ==
  \A c \in Chunks \ mixed : \A p, q \in Pulls :
    Downloading(p, c) /\ Downloading(q, c) => p = q

FetchesOK == FilesOpen /\ LoneFetches /\ OneDownloads

\* A pull outside its fetches has none; within, one for every chunk it wants.
PullsFetch ==
  \A p \in Pulls :
    /\ pull[p].step # "fetch" => \A c \in Chunks : fetch[p][c] = NoFetch
    /\ pull[p].step = "fetch"
         => \A c \in ForRange(pull[p].range) : fetch[p][c].step # "idle"

\* What kept_ranges.json is about to list, and lists, is there.
Sure(c) == Whole(c, final[c]) \/ c \in mixed

PullsFetched ==
  \A p \in Pulls :
    pull[p].step = "kept" => \A c \in ForRange(pull[p].range) : Sure(c)

SplitsComplete == split \in {"manifest", "kept"} => root.chunks = Chunks

KeptIsThere ==
  IF kept.gguf THEN root.chunks = Chunks
  ELSE \A r \in kept.ranges : \A c \in ForRange(r) : Sure(c)

StoreInv ==
  /\ TypeOK /\ FetchesOK /\ PullsFetch /\ PullsFetched /\ SplitsComplete
  /\ KeptIsThere

\* What a step may do to a chunk's file.
PlacesWhole ==
  \A c \in Chunks : final'[c] # final[c] =>
    \/ c \in mixed
    \/ Whole(c, final'[c])
    \/ final'[c] = Absent /\ ~Whole(c, final[c])

LEMMA FetcherIs ==
  /\ NoFetch \in Fetcher
  /\ \A s \in Calm \cup {"ask"} :
       /\ [NoFetch EXCEPT !.step = s] \in Fetcher
       /\ [NoFetch EXCEPT !.step = s].step = s
       /\ [NoFetch EXCEPT !.step = s].fd = "none"
       /\ [NoFetch EXCEPT !.step = s].from = 0
       /\ [NoFetch EXCEPT !.step = s].at = 0
       /\ [NoFetch EXCEPT !.step = s].total = 0
       /\ [NoFetch EXCEPT !.step = s].hashed = 0
       /\ [NoFetch EXCEPT !.step = s].aim = "true"
<1>1. 0 \in 0 .. MaxSize /\ 0 \in 0 .. 2 * MaxSize /\ 0 \in Spoilt .. MaxSize
  BY MaxSizeIs DEF Spoilt
<1> QED BY <1>1 DEF NoFetch, Fetcher, Calm

\* A fetch that has nothing open is as good as its step says.
LEMMA CalmIs ==
  ASSUME NEW s \in Calm, NEW t, NEW w
  PROVE  OpenOK([NoFetch EXCEPT !.step = s], t, w)
<1> DEFINE g == [NoFetch EXCEPT !.step = s]
<1>1. /\ g.step = s /\ g.fd = "none" /\ g.at = 0 /\ g.hashed = 0
  BY FetcherIs
<1>2. g = [NoFetch EXCEPT !.step = g.step]
  BY <1>1
<1>3. s # "ask"
  BY DEF Calm
<1> HIDE DEF g
<1>4. g.hashed <= g.at
  BY <1>1
<1>5. OpenOK(g, t, w)
  BY <1>1, <1>2, <1>3, <1>4 DEF OpenOK
<1> QED BY <1>5 DEF g

LEMMA Idle ==
  /\ NoFetch \in Fetcher /\ NoFetch.step = "idle" /\ NoFetch.fd = "none"
  /\ \A t, w : OpenOK(NoFetch, t, w)
  /\ \A c, t, w : FetchOK(c, NoFetch, t, w)
<1>1. /\ NoFetch \in Fetcher /\ NoFetch.step = "idle" /\ NoFetch.fd = "none"
      /\ NoFetch = [NoFetch EXCEPT !.step = "idle"]
  BY FetcherIs DEF NoFetch
<1>2. "idle" \in Calm
  BY DEF Calm
<1>3. \A t, w : OpenOK(NoFetch, t, w)
  <2> SUFFICES ASSUME NEW t, NEW w PROVE OpenOK(NoFetch, t, w)
    OBVIOUS
  <2>1. OpenOK([NoFetch EXCEPT !.step = "idle"], t, w)
    BY <1>2, CalmIs
  <2> QED BY <1>1, <2>1
<1> QED BY <1>1, <1>3 DEF FetchOK

LEMMA InitStore == Init => StoreInv
<1> SUFFICES ASSUME Init PROVE StoreInv
  OBVIOUS
<1>1. TypeOK
  <2>1. <<"bad">> \in Contents
    <3>1. Header \in Chunks /\ 1 \in 0 .. MaxSize
      <4>1. Size[Header] \in Nat /\ Size[Header] > 0 /\ Header \in Chunks
        BY ChunksAre
      <4>2. Size[Header] <= MaxSize
        BY <4>1, MaxSizeIs
      <4> QED BY <4>1, <4>2, MaxSizeIs
    <3>2. <<"bad">> \in [1 .. 1 -> FileUnits]
      BY DEF FileUnits
    <3> QED BY <3>1, <3>2, IsContents
  <2>2. final \in [Chunks -> Contents \cup {Absent}]
    BY <2>1 DEF Init
  <2>3. fetch \in [Pulls -> [Chunks -> Fetcher]]
    BY FetcherIs DEF Init
  <2>4. pull \in [Pulls -> [step : PullSteps, range : Ranges]]
    <3>1. pull \in [Pulls -> {[step |-> "idle", range |-> r] : r \in Ranges}]
      BY DEF Init
    <3>2. {[step |-> "idle", range |-> r] : r \in Ranges}
             \subseteq [step : PullSteps, range : Ranges]
      BY DEF PullSteps
    <3> QED BY <3>1, <3>2
  <2>5. root \in [manifest : Written, chunks : SUBSET Chunks]
    BY DEF Init, Written
  <2>6. kept \in [state : Written, gguf : BOOLEAN, ranges : SUBSET Ranges]
    BY DEF Init, NoKept, Written
  <2> QED BY <2>2, <2>3, <2>4, <2>5, <2>6 DEF Init, TypeOK, Written
<1>2. \A p \in Pulls : pull[p].step = "idle" /\ \A c \in Chunks : fetch[p][c] = NoFetch
  BY DEF Init
<1>3. FetchesOK
  <2>1. FilesOpen
    BY <1>2, Idle DEF FilesOpen
  <2>2. LoneFetches
    BY <1>2, Idle DEF LoneFetches
  <2>3. OneDownloads
    BY <1>2, Idle DEF OneDownloads, Downloading
  <2> QED BY <2>1, <2>2, <2>3 DEF FetchesOK
<1>4. PullsFetch /\ PullsFetched
  BY <1>2 DEF PullsFetch, PullsFetched
<1>5. SplitsComplete /\ KeptIsThere
  BY DEF Init, SplitsComplete, KeptIsThere, NoKept
<1> QED BY <1>1, <1>3, <1>4, <1>5 DEF StoreInv
-----------------------------------------------------------------------------
(* One step of one fetch.                                                     *)

\* What the fetch of chunk c by pull p makes of fetch, when it goes on as g: of
\* the other pulls, the files they have open may have been renamed or removed.
FetchBecomes(p, c, g) ==
  /\ fetch' \in [Pulls -> [Chunks -> Fetcher]]
  /\ fetch'[p][c] = g
  /\ \A q \in Pulls, d \in Chunks : d # c => fetch'[q][d] = fetch[q][d]
  /\ \A q \in Pulls \ {p} :
       /\ fetch'[q][c].step = fetch[q][c].step /\ fetch'[q][c].at = fetch[q][c].at
       /\ fetch'[q][c].hashed = fetch[q][c].hashed
       /\ fetch[q][c].fd = "none" => fetch'[q][c] = fetch[q][c]

LEMMA BecomesIs ==
  ASSUME TypeOK, NEW p \in Pulls, NEW c \in Chunks, NEW g \in Fetcher,
         fetch' = [fetch EXCEPT ![p][c] = g]
  PROVE  FetchBecomes(p, c, g) /\ \A q \in Pulls \ {p} : fetch'[q][c] = fetch[q][c]
<1>1. fetch \in [Pulls -> [Chunks -> Fetcher]]
  BY DEF TypeOK
<1> QED BY <1>1 DEF FetchBecomes

\* Files open under the old name follow it to nowhere.
LEMMA FollowIs ==
  ASSUME TypeOK, NEW p \in Pulls, NEW c \in Chunks, NEW g \in Fetcher,
         NEW old \in {"tmp", "final"},
         fetch' = [Follow(c, old, "gone") EXCEPT ![p][c] = g]
  PROVE  /\ FetchBecomes(p, c, g)
         /\ \A q \in Pulls \ {p} : /\ fetch'[q][c].fd # old
                                   /\ fetch'[q][c].fd \in {fetch[q][c].fd, "gone"}
<1> DEFINE F == Follow(c, old, "gone")
<1>1. fetch \in [Pulls -> [Chunks -> Fetcher]] /\ old # "none" /\ old # "gone"
  BY DEF TypeOK
<1>2. /\ F = [q \in Pulls |-> F[q]]
      /\ \A q \in Pulls : F[q] = [d \in Chunks |-> F[q][d]]
      /\ \A q \in Pulls, d \in Chunks : d # c => F[q][d] = fetch[q][d]
      /\ \A q \in Pulls : F[q][c] = IF fetch[q][c].fd = old
                                    THEN [fetch[q][c] EXCEPT !.fd = "gone"] ELSE fetch[q][c]
  BY DEF Follow
<1> HIDE DEF F
<1>3. fetch' = [q \in Pulls |-> [d \in Chunks |-> IF q = p /\ d = c THEN g ELSE F[q][d]]]
  <2>1. fetch' = [F EXCEPT ![p] = [F[p] EXCEPT ![c] = g]]
    BY DEF F
  <2>2. [F[p] EXCEPT ![c] = g] = [d \in Chunks |-> IF d = c THEN g ELSE F[p][d]]
    BY <1>2
  <2>3. \A q \in Pulls : fetch'[q] = [d \in Chunks |-> IF q = p /\ d = c THEN g ELSE F[q][d]]
    BY <1>2, <2>1, <2>2
  <2>4. fetch' = [q \in Pulls |-> fetch'[q]]
    BY <1>2, <2>1
  <2> QED BY <2>3, <2>4
<1>4. ASSUME NEW q \in Pulls
      PROVE  /\ F[q][c] \in Fetcher /\ F[q][c].fd # old
             /\ F[q][c].fd \in {fetch[q][c].fd, "gone"}
             /\ F[q][c].step = fetch[q][c].step /\ F[q][c].at = fetch[q][c].at
             /\ F[q][c].hashed = fetch[q][c].hashed
             /\ fetch[q][c].fd = "none" => F[q][c] = fetch[q][c]
  <2>1. fetch[q][c] \in Fetcher
    BY <1>1
  <2>2. CASE fetch[q][c].fd = old
    <3>1. F[q][c] = [fetch[q][c] EXCEPT !.fd = "gone"]
      BY <1>2, <2>2
    <3> DEFINE h == fetch[q][c]
    <3>2. h \in Fetcher /\ F[q][c] = [h EXCEPT !.fd = "gone"]
      BY <2>1, <3>1
    <3> HIDE DEF h
    <3>3. /\ F[q][c] \in Fetcher /\ F[q][c].fd = "gone" /\ F[q][c].step = h.step
          /\ F[q][c].at = h.at /\ F[q][c].hashed = h.hashed
      BY <3>2 DEF Fetcher
    <3> QED BY <1>1, <2>2, <3>3 DEF h
  <2>3. CASE fetch[q][c].fd # old
    <3>1. F[q][c] = fetch[q][c]
      BY <1>2, <2>3
    <3> QED BY <2>1, <2>3, <3>1
  <2> QED BY <2>2, <2>3
<1>5. \A q \in Pulls, d \in Chunks : F[q][d] \in Fetcher
  BY <1>1, <1>2, <1>4
<1>6. fetch' \in [Pulls -> [Chunks -> Fetcher]]
  <2>1. \A q \in Pulls :
          [d \in Chunks |-> IF q = p /\ d = c THEN g ELSE F[q][d]] \in [Chunks -> Fetcher]
    BY <1>5
  <2> QED BY <1>3, <2>1
<1>7. fetch'[p][c] = g
  BY <1>3
<1>8. \A q \in Pulls, d \in Chunks : d # c => fetch'[q][d] = fetch[q][d]
  BY <1>2, <1>3
<1>9. \A q \in Pulls \ {p} : fetch'[q][c] = F[q][c]
  BY <1>3
<1> QED BY <1>4, <1>6, <1>7, <1>8, <1>9 DEF FetchBecomes

\* Nobody else is at the chunk, unless it is mixed.
LEMMA DownloadsAlone ==
  ASSUME StoreInv, NEW p \in Pulls, NEW c \in Chunks, Downloading(p, c), c \notin mixed
  PROVE  Alone(p, c)
  BY DEF StoreInv, FetchesOK, OneDownloads, Alone

\* A step of the fetch of chunk c touches no other chunk, leaves itself sound and
\* takes no whole file away: it keeps the invariant, if nobody else is at the chunk,
\* or its files stay as they are, or it is mixed afterwards.
LEMMA FetchKeeps ==
  ASSUME StoreInv, NEW p \in Pulls, NEW c \in Chunks, NEW g \in Fetcher,
         fetch[p][c].step # "idle", g.step # "idle",
         FetchBecomes(p, c, g),
         tmp' \in [Chunks -> Contents \cup {Absent}],
         final' \in [Chunks -> Contents \cup {Absent}],
         \A d \in Chunks : d # c => tmp'[d] = tmp[d] /\ final'[d] = final[d],
         mixed' \in SUBSET Chunks, \A d \in Chunks : d # c => (d \in mixed' <=> d \in mixed),
         OpenOK(g, tmp'[c], final'[c]),
         \A q \in Pulls \ {p} : /\ fetch'[q][c].fd = "tmp" => tmp'[c] \in Contents
                                /\ fetch'[q][c].fd = "final" => final'[c] \in Contents,
         c \notin mixed' => FetchOK(c, g, tmp'[c], final'[c]),
         c \notin mixed' /\ (Whole(c, final[c]) \/ c \in mixed) => Whole(c, final'[c]),
         c \notin mixed' =>
           \/ Alone(p, c)
           \/ /\ c \notin mixed /\ tmp'[c] = tmp[c] /\ final'[c] = final[c]
              /\ \A q \in Pulls \ {p} : fetch'[q][c] = fetch[q][c]
              /\ g.step \in {"done", "failed"},
         UNCHANGED <<root, manifest, kept, source, stitched, split, pull>>
  PROVE  StoreInv'
<1>1. pull[p].step = "fetch"
  <2>1. pull[p].step # "fetch" => fetch[p][c] = NoFetch
    BY DEF StoreInv, PullsFetch
  <2> QED BY <2>1, Idle
<1>2. ASSUME NEW d \in Chunks, Sure(d) PROVE Sure(d)'
  BY <1>2 DEF Sure
<1>3. /\ fetch' \in [Pulls -> [Chunks -> Fetcher]] /\ fetch \in [Pulls -> [Chunks -> Fetcher]]
      /\ fetch'[p][c] = g
      /\ \A q \in Pulls, d \in Chunks : d # c => fetch'[q][d] = fetch[q][d]
      /\ \A q \in Pulls \ {p} :
           /\ fetch'[q][c].step = fetch[q][c].step /\ fetch'[q][c].at = fetch[q][c].at
           /\ fetch'[q][c].hashed = fetch[q][c].hashed
           /\ fetch[q][c].fd = "none" => fetch'[q][c] = fetch[q][c]
  BY DEF FetchBecomes, StoreInv, TypeOK
<1>4. /\ \A q \in Pulls, d \in Chunks : OpenOK(fetch[q][d], tmp[d], final[d])
      /\ \A d \in Chunks \ mixed : \A q \in Pulls : FetchOK(d, fetch[q][d], tmp[d], final[d])
      /\ \A d \in Chunks \ mixed : \A q, r \in Pulls :
           Downloading(q, d) /\ Downloading(r, d) => q = r
  BY DEF StoreInv, FetchesOK, FilesOpen, LoneFetches, OneDownloads
<1>5. TypeOK'
  BY <1>3 DEF StoreInv, TypeOK
<1>6. ASSUME NEW q \in Pulls \ {p}, fetch[q][c].step \in Calm \cup {"ask"}
      PROVE  fetch'[q][c] = fetch[q][c]
  <2> DEFINE f == fetch[q][c]
  <2>1. OpenOK(f, tmp[c], final[c])
    BY <1>4
  <2>2. f.fd = "none"
    <3>1. CASE f.step = "ask"
      BY <2>1, <3>1 DEF OpenOK
    <3>2. CASE f.step \in Calm
      <4> HIDE DEF f
      <4>1. f = [NoFetch EXCEPT !.step = f.step]
        BY <2>1, <3>2, Zenon DEF OpenOK
      <4>2. [NoFetch EXCEPT !.step = f.step].fd = "none"
        BY <3>2, FetcherIs
      <4> QED BY <4>1, <4>2
    <3> QED BY <1>6, <3>1, <3>2
  <2> QED BY <1>3, <2>2
<1>7. FilesOpen'
  <2> SUFFICES ASSUME NEW q \in Pulls, NEW d \in Chunks
               PROVE  OpenOK(fetch'[q][d], tmp'[d], final'[d])
    BY DEF FilesOpen
  <2>1. CASE d # c
    BY <1>3, <1>4, <2>1
  <2>2. CASE d = c /\ q = p
    BY <1>3, <2>2
  <2>3. CASE d = c /\ q # p
    <3> DEFINE f == fetch[q][c]
               h == fetch'[q][c]
    <3>1. OpenOK(f, tmp[c], final[c])
      BY <1>4
    <3>2. f.step \in Calm \cup {"ask"} => h = f
      BY <1>6, <2>3
    <3>3. /\ h.step = f.step /\ h.at = f.at /\ h.hashed = f.hashed
          /\ h.fd = "tmp" => tmp'[c] \in Contents
          /\ h.fd = "final" => final'[c] \in Contents
      BY <1>3, <2>3
    <3> HIDE DEF f, h
    <3>4. OpenOK(h, tmp'[c], final'[c])
      BY <3>1, <3>2, <3>3 DEF OpenOK
    <3> QED BY <2>3, <3>4 DEF h
  <2> QED BY <2>1, <2>2, <2>3
<1>8. ASSUME NEW q \in Pulls \ {p}, Alone(p, c)
      PROVE  fetch[q][c].step \in {"idle", "check", "done", "failed"} /\ fetch'[q][c] = fetch[q][c]
  <2>1. fetch[q][c] \in Fetcher /\ ~Downloading(q, c)
    BY <1>3, <1>8 DEF Alone
  <2>2. fetch[q][c].step \in {"idle", "check", "done", "failed"}
    BY <2>1 DEF Fetcher, Downloading
  <2>3. fetch[q][c].step \in Calm
    BY <2>2 DEF Calm
  <2> QED BY <1>6, <2>2, <2>3
<1>9. LoneFetches'
  <2> SUFFICES ASSUME NEW d \in Chunks, d \notin mixed', NEW q \in Pulls
               PROVE  FetchOK(d, fetch'[q][d], tmp'[d], final'[d])
    BY DEF LoneFetches
  <2>1. CASE d # c
    BY <1>3, <1>4, <2>1
  <2>2. CASE d = c /\ q = p
    BY <1>3, <2>2
  <2>3. CASE d = c /\ q # p /\ Alone(p, c)
    <3>1. fetch[q][c].step = "done" => Whole(c, final'[c])
      <4>1. c \notin mixed /\ fetch[q][c].step = "done" => Whole(c, final[c])
        BY <1>4 DEF FetchOK
      <4> QED BY <2>3, <4>1
    <3>2. fetch[q][c].step \in {"idle", "check", "done", "failed"} /\ fetch'[q][c] = fetch[q][c]
      BY <1>8, <2>3
    <3> QED BY <2>3, <3>1, <3>2 DEF FetchOK
  <2>4. CASE d = c /\ q # p /\ ~Alone(p, c)
    BY <1>4, <2>4
  <2> QED BY <2>1, <2>2, <2>3, <2>4
<1>10. OneDownloads'
  <2> SUFFICES ASSUME NEW d \in Chunks, d \notin mixed', NEW q \in Pulls, NEW r \in Pulls,
                      Downloading(q, d)', Downloading(r, d)'
               PROVE  q = r
    BY DEF OneDownloads
  <2>1. CASE d # c
    BY <1>3, <1>4, <2>1 DEF Downloading
  <2>2. CASE d = c /\ Alone(p, c)
    <3>1. ASSUME NEW s \in Pulls, Downloading(s, c)' PROVE s = p
      <4> SUFFICES ASSUME s # p PROVE FALSE
        OBVIOUS
      <4>1. fetch'[s][c].step \in {"idle", "check", "done", "failed"}
        BY <1>8, <2>2
      <4> QED BY <3>1, <4>1 DEF Downloading
    <3> QED BY <2>2, <3>1
  <2>3. CASE d = c /\ ~Alone(p, c)
    <3>1. /\ c \notin mixed /\ g.step \in {"done", "failed"}
          /\ \A s \in Pulls \ {p} : fetch'[s][c] = fetch[s][c]
      BY <2>3
    <3>2. ASSUME NEW s \in Pulls, Downloading(s, c)' PROVE s # p /\ Downloading(s, c)
      <4>1. s # p
        BY <1>3, <3>1, <3>2 DEF Downloading
      <4> QED BY <3>1, <3>2, <4>1 DEF Downloading
    <3> QED BY <1>4, <2>3, <3>1, <3>2
  <2> QED BY <2>1, <2>2, <2>3
<1>11. PullsFetch'
  <2> SUFFICES ASSUME NEW q \in Pulls
               PROVE  /\ pull[q].step # "fetch" => \A d \in Chunks : fetch'[q][d] = NoFetch
                      /\ pull[q].step = "fetch"
                           => \A d \in ForRange(pull[q].range) : fetch'[q][d].step # "idle"
    BY DEF PullsFetch
  <2>1. pull[q].range \in Ranges
    BY DEF StoreInv, TypeOK
  <2>2. ForRange(pull[q].range) \subseteq Chunks
    BY <2>1, RangeChunks
  <2>3. CASE pull[q].step # "fetch"
    <3>1. \A d \in Chunks : fetch[q][d] = NoFetch
      BY <2>3 DEF StoreInv, PullsFetch
    <3>2. q # p
      BY <1>1, <2>3
    <3> QED BY <1>3, <2>3, <3>1, <3>2, Idle
  <2>4. CASE pull[q].step = "fetch"
    <3>1. \A d \in ForRange(pull[q].range) : fetch[q][d].step # "idle"
      BY <2>4 DEF StoreInv, PullsFetch
    <3> QED BY <1>3, <2>2, <2>4, <3>1
  <2> QED BY <2>3, <2>4
<1>12. PullsFetched'
  <2> SUFFICES ASSUME NEW q \in Pulls, pull[q].step = "kept",
                      NEW d \in ForRange(pull[q].range)
               PROVE  Sure(d)'
    BY DEF PullsFetched
  <2>1. pull[q].range \in Ranges
    BY DEF StoreInv, TypeOK
  <2>2. d \in Chunks /\ Sure(d)
    BY <2>1, RangeChunks DEF StoreInv, PullsFetched
  <2> QED BY <1>2, <2>2
<1>13. SplitsComplete'
  BY DEF StoreInv, SplitsComplete
<1>14. KeptIsThere'
  <2>1. \A r \in kept.ranges : ForRange(r) \subseteq Chunks
    BY RangeChunks DEF StoreInv, TypeOK
  <2>2. ~kept.gguf => \A r \in kept.ranges : \A d \in ForRange(r) : Sure(d)'
    BY <1>2, <2>1 DEF StoreInv, KeptIsThere
  <2> QED BY <2>2 DEF StoreInv, KeptIsThere
<1> QED BY <1>5, <1>7, <1>9, <1>10, <1>11, <1>12, <1>13, <1>14 DEF StoreInv, FetchesOK
-----------------------------------------------------------------------------
(* The steps of a fetch.                                                      *)

\* What is known of a fetch, and of the others of its chunk.
LEMMA FetchIs ==
  ASSUME StoreInv, NEW p \in Pulls, NEW c \in Chunks
  PROVE  /\ TypeOK /\ fetch[p][c] \in Fetcher
         /\ OpenOK(fetch[p][c], tmp[c], final[c])
         /\ c \notin mixed => FetchOK(c, fetch[p][c], tmp[c], final[c])
         /\ \A q \in Pulls : /\ fetch[q][c].fd = "tmp" => tmp[c] \in Contents
                             /\ fetch[q][c].fd = "final" => final[c] \in Contents
         /\ tmp \in [Chunks -> Contents \cup {Absent}]
         /\ final \in [Chunks -> Contents \cup {Absent}]
         /\ mixed \in SUBSET Chunks
<1>1. \A q \in Pulls : OpenOK(fetch[q][c], tmp[c], final[c])
  BY DEF StoreInv, FetchesOK, FilesOpen
<1>2. c \notin mixed => FetchOK(c, fetch[p][c], tmp[c], final[c])
  BY DEF StoreInv, FetchesOK, LoneFetches
<1>3. \A q \in Pulls : /\ fetch[q][c].fd = "tmp" => tmp[c] \in Contents
                       /\ fetch[q][c].fd = "final" => final[c] \in Contents
  BY <1>1 DEF OpenOK
<1> QED BY <1>1, <1>2, <1>3 DEF StoreInv, TypeOK

LEMMA CheckCachedOK ==
  ASSUME StoreInv, NEW p \in Pulls, NEW c \in Chunks, CheckCached(p, c)
  PROVE  StoreInv' /\ PlacesWhole
<1> DEFINE f == fetch[p][c]
           g(s) == [NoFetch EXCEPT !.step = s]
<1>1. /\ TypeOK /\ f.step = "check"
      /\ tmp \in [Chunks -> Contents \cup {Absent}]
      /\ final \in [Chunks -> Contents \cup {Absent}]
      /\ mixed \in SUBSET Chunks
  BY FetchIs DEF CheckCached
<1>2. \A q \in Pulls : /\ fetch[q][c].fd = "tmp" => tmp[c] \in Contents
                       /\ fetch[q][c].fd = "final" => final[c] \in Contents
  BY FetchIs
<1>3. UNCHANGED <<root, manifest, final, tmp, kept, source, stitched, split, pull>>
  BY DEF CheckCached
<1>4. PICK s \in {"done", "failed", "resume", "drop"} :
        /\ fetch' = [fetch EXCEPT ![p][c] = g(s)]
        /\ s = "done" => Whole(c, final[c])
        /\ s \in {"resume", "drop"} => ~Whole(c, final[c])
        /\ mixed' = IF s = "failed" \/ (s # "done" /\ Alone(p, c))
                         \/ (s = "done" /\ ~Alone(p, c))
                    THEN mixed
                    ELSE IF s = "done" THEN mixed \ {c} ELSE mixed \cup {c}
  BY DEF CheckCached, Fetches
<1>5. s \in Calm
  BY DEF Calm
<1>6. g(s) \in Fetcher /\ g(s).step = s /\ OpenOK(g(s), tmp'[c], final'[c])
  BY <1>5, FetcherIs, CalmIs
<1> HIDE DEF g
<1>7. FetchBecomes(p, c, g(s)) /\ \A q \in Pulls \ {p} : fetch'[q][c] = fetch[q][c]
  BY <1>1, <1>4, <1>6, BecomesIs
<1>8. mixed' \in SUBSET Chunks /\ \A d \in Chunks : d # c => (d \in mixed' <=> d \in mixed)
  BY <1>1, <1>4
<1>9. FetchOK(c, g(s), tmp'[c], final'[c])
  BY <1>3, <1>4, <1>6 DEF FetchOK
<1>10. c \notin mixed' /\ (Whole(c, final[c]) \/ c \in mixed) => Whole(c, final'[c])
  BY <1>3, <1>4
<1>11. c \notin mixed' =>
         \/ Alone(p, c)
         \/ c \notin mixed /\ g(s).step \in {"done", "failed"}
  BY <1>4, <1>6
<1>12. f.step # "idle" /\ g(s).step # "idle"
  BY <1>1, <1>5, <1>6
<1>13. \A q \in Pulls \ {p} : /\ fetch'[q][c].fd = "tmp" => tmp'[c] \in Contents
                              /\ fetch'[q][c].fd = "final" => final'[c] \in Contents
  BY <1>2, <1>3, <1>7
<1> DEFINE h == g(s)
<1>14. /\ h \in Fetcher /\ h.step # "idle" /\ OpenOK(h, tmp'[c], final'[c])
       /\ FetchBecomes(p, c, h) /\ FetchOK(c, h, tmp'[c], final'[c])
       /\ c \notin mixed' =>
            \/ Alone(p, c)
            \/ /\ c \notin mixed /\ tmp'[c] = tmp[c] /\ final'[c] = final[c]
               /\ \A q \in Pulls \ {p} : fetch'[q][c] = fetch[q][c]
               /\ h.step \in {"done", "failed"}
  BY <1>3, <1>6, <1>7, <1>9, <1>11, <1>12
<1> HIDE DEF h, f
<1>15. StoreInv'
  BY <1>1, <1>3, <1>8, <1>10, <1>12, <1>13, <1>14, FetchKeeps DEF f
<1> QED BY <1>3, <1>15 DEF PlacesWhole

\* A fetch that downloads goes on, and no chunk becomes mixed by that.
LEMMA DownloadKeeps ==
  ASSUME StoreInv, NEW p \in Pulls, NEW c \in Chunks, NEW g \in Fetcher,
         Downloading(p, c), g.step # "idle", FetchBecomes(p, c, g),
         tmp' \in [Chunks -> Contents \cup {Absent}],
         final' \in [Chunks -> Contents \cup {Absent}],
         \A d \in Chunks : d # c => tmp'[d] = tmp[d] /\ final'[d] = final[d],
         OpenOK(g, tmp'[c], final'[c]),
         \A q \in Pulls \ {p} : /\ fetch'[q][c].fd = "tmp" => tmp'[c] \in Contents
                                /\ fetch'[q][c].fd = "final" => final'[c] \in Contents,
         c \notin mixed =>
           /\ FetchOK(c, g, tmp'[c], final'[c])
           /\ \/ final'[c] = final[c]
              \/ Whole(c, final'[c])
              \/ final'[c] = Absent /\ ~Whole(c, final[c]),
         UNCHANGED <<root, manifest, kept, source, stitched, split, pull, mixed>>
  PROVE  StoreInv' /\ PlacesWhole
<1>1. fetch[p][c].step # "idle"
  BY DEF Downloading
<1>2. c \notin mixed' => Alone(p, c)
  BY DownloadsAlone
<1>3. c \notin mixed' /\ (Whole(c, final[c]) \/ c \in mixed) => Whole(c, final'[c])
  OBVIOUS
<1>4. /\ mixed' \in SUBSET Chunks /\ \A d \in Chunks : d # c => (d \in mixed' <=> d \in mixed)
      /\ c \notin mixed' => FetchOK(c, g, tmp'[c], final'[c])
  BY DEF StoreInv, TypeOK
<1>5. StoreInv'
  BY <1>1, <1>2, <1>3, <1>4, FetchKeeps
<1>6. PlacesWhole
  BY DEF PlacesWhole
<1> QED BY <1>5, <1>6

LEMMA DropOK ==
  ASSUME StoreInv, NEW p \in Pulls, NEW c \in Chunks, Drop(p, c)
  PROVE  StoreInv' /\ PlacesWhole
<1> DEFINE g == [NoFetch EXCEPT !.step = "resume"]
<1>1. /\ TypeOK /\ tmp \in [Chunks -> Contents \cup {Absent}]
      /\ final \in [Chunks -> Contents \cup {Absent}]
      /\ c \notin mixed => FetchOK(c, fetch[p][c], tmp[c], final[c])
      /\ \A q \in Pulls : fetch[q][c].fd = "tmp" => tmp[c] \in Contents
  BY FetchIs
<1>2. /\ fetch[p][c].step = "drop" /\ final' = [final EXCEPT ![c] = Absent]
      /\ fetch' = [Follow(c, "final", "gone") EXCEPT ![p][c] = g]
      /\ UNCHANGED <<root, manifest, tmp, kept, source, stitched, split, pull, mixed>>
  BY DEF Drop
<1>3. "resume" \in Calm
  BY DEF Calm
<1>4. /\ g \in Fetcher /\ g.step = "resume" /\ OpenOK(g, tmp'[c], final'[c])
  BY <1>3, FetcherIs, CalmIs
<1> HIDE DEF g
<1>5. /\ FetchBecomes(p, c, g)
      /\ \A q \in Pulls \ {p} : /\ fetch'[q][c].fd # "final"
                                /\ fetch'[q][c].fd \in {fetch[q][c].fd, "gone"}
  BY <1>1, <1>2, <1>4, FollowIs
<1>6. \A q \in Pulls \ {p} : /\ fetch'[q][c].fd = "tmp" => tmp'[c] \in Contents
                             /\ fetch'[q][c].fd = "final" => final'[c] \in Contents
  BY <1>1, <1>2, <1>5
<1>7. /\ final' \in [Chunks -> Contents \cup {Absent}] /\ final'[c] = Absent
      /\ \A d \in Chunks : d # c => final'[d] = final[d]
  BY <1>1, <1>2
<1>8. FetchOK(c, g, tmp'[c], final'[c])
  BY <1>4 DEF FetchOK
<1>9. c \notin mixed => ~Whole(c, final[c])
  BY <1>1, <1>2 DEF FetchOK
<1>10. Downloading(p, c)
  BY <1>2 DEF Downloading
<1> QED BY <1>1, <1>2, <1>4, <1>5, <1>6, <1>7, <1>8, <1>9, <1>10, DownloadKeeps

LEMMA ResumeOK ==
  ASSUME StoreInv, NEW p \in Pulls, NEW c \in Chunks, Resume(p, c)
  PROVE  StoreInv' /\ PlacesWhole
<1>1. /\ TypeOK /\ tmp \in [Chunks -> Contents \cup {Absent}]
      /\ final \in [Chunks -> Contents \cup {Absent}]
      /\ \A q \in Pulls : /\ fetch[q][c].fd = "tmp" => tmp[c] \in Contents
                          /\ fetch[q][c].fd = "final" => final[c] \in Contents
  BY FetchIs
<1>2. /\ UNCHANGED <<root, manifest, final, kept, source, stitched, split, pull, mixed>>
      /\ Downloading(p, c)
  BY DEF Resume, Downloading
<1>3. CASE tmp[c] # Absent /\ Len(tmp[c]) < Size[c]
  <2> DEFINE g == [NoFetch EXCEPT !.step = "ask", !.from = Len(tmp[c])]
  <2>1. fetch' = [fetch EXCEPT ![p][c] = g] /\ tmp' = tmp
    BY <1>3 DEF Resume, Fetches
  <2>2. tmp[c] \in Contents /\ Len(tmp[c]) \in 0 .. MaxSize
    BY <1>1, <1>3, ContentsAre
  <2>3. /\ g \in Fetcher /\ g.step = "ask" /\ g.at = 0 /\ g.total = 0
        /\ g.hashed = 0 /\ g.fd = "none" /\ g.from = Len(tmp[c]) /\ g.aim = "true"
    <3>1. 0 \in 0 .. MaxSize /\ 0 \in 0 .. 2 * MaxSize /\ 0 \in Spoilt .. MaxSize
      BY MaxSizeIs DEF Spoilt
    <3> QED BY <2>2, <3>1 DEF NoFetch, Fetcher
  <2> HIDE DEF g
  <2>4. FetchOK(c, g, tmp'[c], final'[c]) /\ OpenOK(g, tmp'[c], final'[c])
    BY <2>1, <2>2, <2>3 DEF FetchOK, OpenOK, Calm
  <2>5. FetchBecomes(p, c, g) /\ \A q \in Pulls \ {p} : fetch'[q][c] = fetch[q][c]
    BY <1>1, <2>1, <2>3, BecomesIs
  <2>6. \A q \in Pulls \ {p} : /\ fetch'[q][c].fd = "tmp" => tmp'[c] \in Contents
                               /\ fetch'[q][c].fd = "final" => final'[c] \in Contents
    BY <1>1, <1>2, <2>1, <2>5
  <2> QED BY <1>1, <1>2, <2>1, <2>3, <2>4, <2>5, <2>6, DownloadKeeps
<1>4. CASE ~(tmp[c] # Absent /\ Len(tmp[c]) < Size[c])
  <2> DEFINE g == [NoFetch EXCEPT !.step = "ask"]
  <2>1. /\ fetch' = [Follow(c, "tmp", "gone") EXCEPT ![p][c] = g]
        /\ tmp' = [tmp EXCEPT ![c] = Absent]
    BY <1>4 DEF Resume
  <2>2. /\ g \in Fetcher /\ g.step = "ask" /\ g.at = 0 /\ g.total = 0
        /\ g.hashed = 0 /\ g.fd = "none" /\ g.from = 0 /\ g.aim = "true"
    BY FetcherIs
  <2> HIDE DEF g
  <2>3. FetchOK(c, g, tmp'[c], final'[c]) /\ OpenOK(g, tmp'[c], final'[c])
    BY <2>2 DEF FetchOK, OpenOK, Calm
  <2>4. /\ FetchBecomes(p, c, g)
        /\ \A q \in Pulls \ {p} : /\ fetch'[q][c].fd # "tmp"
                                  /\ fetch'[q][c].fd \in {fetch[q][c].fd, "gone"}
    BY <1>1, <2>1, <2>2, FollowIs
  <2>5. \A q \in Pulls \ {p} : /\ fetch'[q][c].fd = "tmp" => tmp'[c] \in Contents
                               /\ fetch'[q][c].fd = "final" => final'[c] \in Contents
    BY <1>1, <1>2, <2>4
  <2>6. tmp' \in [Chunks -> Contents \cup {Absent}] /\ \A d \in Chunks : d # c => tmp'[d] = tmp[d]
    BY <1>1, <2>1
  <2> QED BY <1>1, <1>2, <2>2, <2>3, <2>4, <2>5, <2>6, DownloadKeeps
<1> QED BY <1>3, <1>4

LEMMA FetchFailsOK ==
  ASSUME StoreInv, NEW p \in Pulls, NEW c \in Chunks, FetchFails(p, c)
  PROVE  StoreInv' /\ PlacesWhole
<1> DEFINE g == [NoFetch EXCEPT !.step = "failed"]
<1>1. /\ TypeOK /\ tmp \in [Chunks -> Contents \cup {Absent}]
      /\ final \in [Chunks -> Contents \cup {Absent}]
      /\ \A q \in Pulls : /\ fetch[q][c].fd = "tmp" => tmp[c] \in Contents
                          /\ fetch[q][c].fd = "final" => final[c] \in Contents
  BY FetchIs
<1>2. /\ UNCHANGED <<root, manifest, tmp, final, kept, source, stitched, split, pull, mixed>>
      /\ Downloading(p, c) /\ fetch' = [fetch EXCEPT ![p][c] = g]
  BY DEF FetchFails, Downloading, Fetches, disk
<1>3. "failed" \in Calm
  BY DEF Calm
<1>4. g \in Fetcher /\ g.step = "failed" /\ OpenOK(g, tmp'[c], final'[c])
  BY <1>3, FetcherIs, CalmIs
<1> HIDE DEF g
<1>5. FetchOK(c, g, tmp'[c], final'[c])
  BY <1>4 DEF FetchOK
<1>6. FetchBecomes(p, c, g) /\ \A q \in Pulls \ {p} : fetch'[q][c] = fetch[q][c]
  BY <1>1, <1>2, <1>4, BecomesIs
<1>7. \A q \in Pulls \ {p} : /\ fetch'[q][c].fd = "tmp" => tmp'[c] \in Contents
                             /\ fetch'[q][c].fd = "final" => final'[c] \in Contents
  BY <1>1, <1>2, <1>6
<1> QED BY <1>1, <1>2, <1>4, <1>5, <1>6, <1>7, DownloadKeeps

LEMMA AnsweredOK ==
  ASSUME StoreInv, NEW p \in Pulls, NEW c \in Chunks, Answered(p, c)
  PROVE  StoreInv' /\ PlacesWhole
<1> DEFINE f == fetch[p][c]
           t == tmp[c]
           read == Min({f.from, Len(t)})
<1>1. /\ TypeOK /\ f \in Fetcher /\ OpenOK(f, tmp[c], final[c])
      /\ c \notin mixed => FetchOK(c, f, tmp[c], final[c])
      /\ tmp \in [Chunks -> Contents \cup {Absent}]
      /\ final \in [Chunks -> Contents \cup {Absent}]
      /\ \A q \in Pulls : /\ fetch[q][c].fd = "tmp" => tmp[c] \in Contents
                          /\ fetch[q][c].fd = "final" => final[c] \in Contents
  BY FetchIs
<1>2. /\ UNCHANGED <<root, manifest, final, kept, source, stitched, split, pull, mixed>>
      /\ f.step = "ask" /\ Downloading(p, c)
  BY DEF Answered, Downloading
<1>3. /\ f.at = 0 /\ f.total = 0 /\ f.hashed = 0 /\ f.aim = "true" /\ f.fd = "none"
      /\ f.from \in 0 .. MaxSize /\ MaxSize \in Nat /\ f.from \in 0 .. 2 * MaxSize
  BY <1>1, <1>2, MaxSizeIs DEF OpenOK, Fetcher
<1>4. CASE /\ f.from > 0 /\ t # Absent
           /\ Fetches(p, c, [f EXCEPT !.step = "stream", !.fd = "tmp", !.at = Len(t),
                               !.total = f.from,
                               !.hashed = IF \A i \in 1 .. read : t[i] = "good"
                                          THEN read ELSE Spoilt,
                               !.aim = IF Len(t) = f.from THEN "true" ELSE "off"])
           /\ UNCHANGED tmp
  <2> DEFINE h == IF \A i \in 1 .. read : t[i] = "good" THEN read ELSE Spoilt
             g == [f EXCEPT !.step = "stream", !.fd = "tmp", !.at = Len(t),
                            !.total = f.from, !.hashed = h,
                            !.aim = IF Len(t) = f.from THEN "true" ELSE "off"]
  <2>1. fetch' = [fetch EXCEPT ![p][c] = g] /\ tmp' = tmp
    BY <1>4 DEF Fetches
  <2>2. t \in Contents /\ Len(t) \in 0 .. MaxSize
    BY <1>1, <1>4, ContentsAre
  <2>3. read \in 0 .. MaxSize /\ read <= Len(t) /\ (Len(t) = f.from => read = Len(t))
    <3> DEFINE m == Len(t)
               S == {f.from, m}
    <3>1. f.from \in Nat /\ m \in Nat /\ f.from <= MaxSize /\ m <= MaxSize
      BY <1>3, <2>2
    <3>2. read = CHOOSE x \in S : \A y \in S : x =< y
      BY DEF Min
    <3> HIDE DEF m
    <3>3. \E x \in S : \A y \in S : x =< y
      <4>1. CASE f.from <= m
        BY <3>1, <4>1
      <4>2. CASE m <= f.from
        BY <3>1, <4>2
      <4> QED BY <3>1, <4>1, <4>2
    <3> HIDE DEF S, read
    <3>4. read \in S /\ \A y \in S : read =< y
      BY <3>2, <3>3
    <3> QED BY <1>3, <3>1, <3>4 DEF S, m
  <2> HIDE DEF read
  <2>4. h \in Spoilt .. MaxSize /\ h <= Len(t)
    BY <1>3, <2>2, <2>3 DEF Spoilt
  <2>5. h # Spoilt => h = read /\ \A i \in 1 .. read : t[i] = "good"
    OBVIOUS
  <2> HIDE DEF h
  <2>6. /\ g \in Fetcher /\ g.step = "stream" /\ g.at = Len(t) /\ g.hashed = h
        /\ g.fd = "tmp" /\ (Len(t) = f.from => g.aim = "true")
    BY <1>1, <1>3, <2>2, <2>4 DEF Fetcher
  <2> HIDE DEF g
  <2>7. OpenOK(g, tmp'[c], final'[c])
    <3>1. "stream" \notin Calm /\ "stream" # "ask" /\ "tmp" # "final"
      BY DEF Calm
    <3> QED BY <2>1, <2>2, <2>4, <2>6, <3>1 DEF OpenOK
  <2>8. c \notin mixed => FetchOK(c, g, tmp'[c], final'[c])
    <3>1. c \notin mixed => Len(t) = f.from
      BY <1>1, <1>2, <1>4 DEF FetchOK
    <3> HIDE DEF f, t
    <3> QED BY <2>1, <2>2, <2>3, <2>5, <2>6, <3>1 DEF FetchOK, t
  <2>9. FetchBecomes(p, c, g) /\ \A q \in Pulls \ {p} : fetch'[q][c] = fetch[q][c]
    BY <1>1, <2>1, <2>6, BecomesIs
  <2>10. \A q \in Pulls \ {p} : /\ fetch'[q][c].fd = "tmp" => tmp'[c] \in Contents
                                /\ fetch'[q][c].fd = "final" => final'[c] \in Contents
    BY <1>1, <1>2, <2>1, <2>9
  <2>11. g.step # "idle"
    BY <2>6
  <2> HIDE DEF f, t
  <2> QED BY <1>1, <1>2, <2>1, <2>6, <2>7, <2>8, <2>9, <2>10, <2>11, DownloadKeeps
<1>5. CASE /\ Fetches(p, c, [f EXCEPT !.step = "stream", !.fd = "tmp", !.total = f.from])
           /\ tmp' = [tmp EXCEPT ![c] = <<>>]
  <2> DEFINE g == [f EXCEPT !.step = "stream", !.fd = "tmp", !.total = f.from]
  <2>1. fetch' = [fetch EXCEPT ![p][c] = g] /\ tmp' = [tmp EXCEPT ![c] = <<>>]
    BY <1>5 DEF Fetches
  <2>2. <<>> \in Contents /\ Len(<<>>) = 0
    <3>1. <<>> \in [1 .. 0 -> FileUnits] /\ 0 \in 0 .. MaxSize
      BY <1>3
    <3> QED BY <3>1, IsContents
  <2>3. /\ g \in Fetcher /\ g.step = "stream" /\ g.at = 0 /\ g.hashed = 0
        /\ g.fd = "tmp" /\ g.aim = "true"
    BY <1>1, <1>3 DEF Fetcher
  <2> HIDE DEF g
  <2>4. tmp'[c] = <<>> /\ tmp' \in [Chunks -> Contents \cup {Absent}]
        /\ \A d \in Chunks : d # c => tmp'[d] = tmp[d]
    BY <1>1, <2>1, <2>2, Zenon
  <2>5. FetchOK(c, g, tmp'[c], final'[c])
    BY <2>2, <2>3, <2>4 DEF FetchOK
  <2>6. OpenOK(g, tmp'[c], final'[c])
    <3>1. "stream" \notin Calm /\ "stream" # "ask" /\ "tmp" # "final" /\ g.hashed <= g.at
      BY <2>3 DEF Calm
    <3> QED BY <2>2, <2>3, <2>4, <3>1 DEF OpenOK
  <2>7. FetchBecomes(p, c, g) /\ \A q \in Pulls \ {p} : fetch'[q][c] = fetch[q][c]
    BY <1>1, <2>1, <2>3, BecomesIs
  <2>8. \A q \in Pulls \ {p} : /\ fetch'[q][c].fd = "tmp" => tmp'[c] \in Contents
                               /\ fetch'[q][c].fd = "final" => final'[c] \in Contents
    BY <1>1, <1>2, <2>2, <2>4, <2>7
  <2>9. g.step # "idle"
    BY <2>3
  <2> HIDE DEF f, t
  <2> QED BY <1>1, <1>2, <2>3, <2>4, <2>5, <2>6, <2>7, <2>8, <2>9, DownloadKeeps
<1> QED BY <1>4, <1>5 DEF Answered

\* Of the bytes of a chunk that is nobody else's, those that have been hashed are in
\* the file.
LEMMA ReceiveOK ==
  ASSUME StoreInv, NEW p \in Pulls, NEW c \in Chunks, Receive(p, c)
  PROVE  StoreInv' /\ PlacesWhole
<1> DEFINE f == fetch[p][c]
           t == tmp[c]
<1>1. /\ TypeOK /\ f \in Fetcher /\ OpenOK(f, tmp[c], final[c])
      /\ c \notin mixed => FetchOK(c, f, tmp[c], final[c])
      /\ tmp \in [Chunks -> Contents \cup {Absent}]
      /\ final \in [Chunks -> Contents \cup {Absent}]
      /\ \A q \in Pulls : /\ fetch[q][c].fd = "tmp" => tmp[c] \in Contents
                          /\ fetch[q][c].fd = "final" => final[c] \in Contents
  BY FetchIs
<1>2. /\ UNCHANGED <<root, manifest, kept, source, stitched, split, pull, mixed>>
      /\ f.step = "stream" /\ Downloading(p, c)
  BY DEF Receive, Downloading
<1>3. PICK unit \in Units :
        /\ Fetches(p, c, [f EXCEPT !.at = @ + 1, !.total = @ + 1,
                                   !.hashed = IF @ # Spoilt /\ unit = "good"
                                                THEN @ + 1 ELSE Spoilt])
        /\ tmp' = IF f.fd = "tmp"
                  THEN [tmp EXCEPT ![c] = WriteAt(@, f.at, Put(f, unit))] ELSE tmp
        /\ final' = IF f.fd = "final"
                    THEN [final EXCEPT ![c] = WriteAt(@, f.at, Put(f, unit))] ELSE final
  BY DEF Receive
<1> DEFINE u == Put(f, unit)
           h == IF f.hashed # Spoilt /\ unit = "good" THEN f.hashed + 1 ELSE Spoilt
           g == [f EXCEPT !.at = f.at + 1, !.total = f.total + 1, !.hashed = h]
<1>4. /\ fetch' = [fetch EXCEPT ![p][c] = g]
      /\ tmp' = IF f.fd = "tmp" THEN [tmp EXCEPT ![c] = WriteAt(tmp[c], f.at, u)] ELSE tmp
      /\ final' = IF f.fd = "final"
                  THEN [final EXCEPT ![c] = WriteAt(final[c], f.at, u)] ELSE final
  BY <1>3 DEF Fetches
<1>5. /\ f.at \in Nat /\ f.at < Size[c] /\ Size[c] <= MaxSize /\ MaxSize \in Nat
      /\ f.total \in Nat /\ f.total < f.from + Size[c] /\ f.from \in 0 .. MaxSize
      /\ Size[c] \in Nat /\ f.hashed \in Spoilt .. MaxSize /\ unit \in FileUnits
      /\ u \in FileUnits /\ f.hashed <= f.at
  <2>1. unit \in {"good", "bad"} /\ u \in {"good", "bad"}
    BY ShardAssumption DEF Put
  <2>2. f.total < f.from + Size[c] /\ f.at < Size[c]
    BY DEF Receive
  <2>3. f.at \in 0 .. MaxSize /\ f.from \in 0 .. MaxSize /\ f.total \in 0 .. 2 * MaxSize
        /\ f.hashed \in Spoilt .. MaxSize /\ f.hashed <= f.at
    BY <1>1 DEF Fetcher, OpenOK
  <2> QED BY <2>1, <2>2, <2>3, MaxSizeIs, ChunksAre DEF FileUnits
<1>6. \A w \in Contents : WriteAt(w, f.at, u) \in Contents
  <2> HIDE DEF f, u
  <2>1. f.at < MaxSize /\ f.at \in Nat /\ u \in FileUnits
    BY <1>5
  <2> QED BY <2>1, WriteIs
<1>7. /\ tmp' \in [Chunks -> Contents \cup {Absent}]
      /\ final' \in [Chunks -> Contents \cup {Absent}]
      /\ \A d \in Chunks : d # c => tmp'[d] = tmp[d] /\ final'[d] = final[d]
      /\ tmp[c] \in Contents => tmp'[c] \in Contents
      /\ final[c] \in Contents => final'[c] \in Contents
      /\ f.fd # "final" => final' = final
      /\ f.fd = "tmp" => tmp'[c] = WriteAt(t, f.at, u)
  <2> DEFINE w == WriteAt(tmp[c], f.at, u)
             v == WriteAt(final[c], f.at, u)
  <2>1. (f.fd = "tmp" => w \in Contents) /\ (f.fd = "final" => v \in Contents)
    BY <1>1, <1>6
  <2>2. tmp' = (IF f.fd = "tmp" THEN [tmp EXCEPT ![c] = w] ELSE tmp)
    BY <1>4
  <2>3. final' = (IF f.fd = "final" THEN [final EXCEPT ![c] = v] ELSE final)
    BY <1>4
  <2> HIDE DEF w, v, f, u
  <2>4. /\ tmp' \in [Chunks -> Contents \cup {Absent}]
        /\ \A d \in Chunks : d # c => tmp'[d] = tmp[d]
        /\ tmp[c] \in Contents => tmp'[c] \in Contents
        /\ f.fd = "tmp" => tmp'[c] = w
    BY <1>1, <2>1, <2>2
  <2>5. /\ final' \in [Chunks -> Contents \cup {Absent}]
        /\ \A d \in Chunks : d # c => final'[d] = final[d]
        /\ final[c] \in Contents => final'[c] \in Contents
        /\ f.fd # "final" => final' = final
    BY <1>1, <2>1, <2>3
  <2> QED BY <2>4, <2>5 DEF w
<1>8. /\ h \in Spoilt .. MaxSize /\ f.at + 1 \in 0 .. MaxSize
      /\ f.total + 1 \in 0 .. 2 * MaxSize /\ h <= f.at + 1
      /\ h # Spoilt => h = f.hashed + 1 /\ f.hashed # Spoilt /\ unit = "good"
  BY <1>5 DEF Spoilt
<1> HIDE DEF h
<1>9. /\ g \in Fetcher /\ g.step = "stream" /\ g.at = f.at + 1 /\ g.hashed = h
      /\ g.fd = f.fd /\ g.aim = f.aim
  BY <1>1, <1>2, <1>8 DEF Fetcher
<1> HIDE DEF g
<1>10. OpenOK(g, tmp'[c], final'[c])
  <2>1. "stream" \notin Calm /\ "stream" # "ask" /\ g.hashed <= g.at
    BY <1>8, <1>9 DEF Calm
  <2>2. /\ f.fd = "tmp" => tmp'[c] \in Contents
        /\ f.fd = "final" => final'[c] \in Contents
    BY <1>1, <1>7
  <2> QED BY <1>9, <2>1, <2>2 DEF OpenOK
<1>11. c \notin mixed => FetchOK(c, g, tmp'[c], final'[c]) /\ final' = final
  <2> SUFFICES ASSUME c \notin mixed
               PROVE  FetchOK(c, g, tmp'[c], final'[c]) /\ final' = final
    OBVIOUS
  <2>1. /\ f.fd = "tmp" /\ t \in Contents /\ Len(t) = f.at /\ f.aim = "true"
        /\ f.hashed # Spoilt => f.hashed = f.at /\ \A i \in 1 .. f.at : t[i] = "good"
    BY <1>1, <1>2 DEF FetchOK
  <2> DEFINE w == WriteAt(t, f.at, unit)
  <2>2. tmp'[c] = w /\ final' = final
    <3>1. u = unit /\ "tmp" # "final"
      BY <2>1 DEF Put
    <3> QED BY <1>7, <2>1, <3>1
  <2>3. /\ w \in Contents /\ Len(w) = f.at + 1
        /\ \A i \in 1 .. f.at + 1 : w[i] = IF i = f.at + 1 THEN unit ELSE t[i]
    <3>1. Len(t) < MaxSize /\ Len(t) = f.at /\ t \in Contents /\ unit \in FileUnits
      BY <1>5, <2>1
    <3> HIDE DEF t, f
    <3> QED BY <3>1, WriteAtEnd
  <2>4. h # Spoilt => h = f.at + 1 /\ \A i \in 1 .. f.at + 1 : w[i] = "good"
    <3> SUFFICES ASSUME h # Spoilt
                 PROVE  h = f.at + 1 /\ \A i \in 1 .. f.at + 1 : w[i] = "good"
      OBVIOUS
    <3>1. /\ unit = "good" /\ h = f.at + 1 /\ \A i \in 1 .. f.at : t[i] = "good"
      BY <1>8, <2>1
    <3>2. \A i \in 1 .. f.at + 1 : i = f.at + 1 \/ i \in 1 .. f.at
      BY <1>5
    <3> HIDE DEF w
    <3> QED BY <2>3, <3>1, <3>2
  <2> HIDE DEF w
  <2>5. FetchOK(c, g, tmp'[c], final'[c])
    BY <1>9, <2>1, <2>2, <2>3, <2>4 DEF FetchOK
  <2> QED BY <2>2, <2>5
<1>12. FetchBecomes(p, c, g) /\ \A q \in Pulls \ {p} : fetch'[q][c] = fetch[q][c]
  BY <1>1, <1>4, <1>9, BecomesIs
<1>13. \A q \in Pulls \ {p} : /\ fetch'[q][c].fd = "tmp" => tmp'[c] \in Contents
                              /\ fetch'[q][c].fd = "final" => final'[c] \in Contents
  BY <1>1, <1>7, <1>12
<1>14. g.step # "idle"
  BY <1>9
<1> HIDE DEF f, t
<1> QED BY <1>2, <1>7, <1>9, <1>10, <1>11, <1>12, <1>13, <1>14, DownloadKeeps

\* Only here does a chunk get into place. Of a chunk that is nobody else's, what the
\* size and the hash have vouched for is the whole temporary file.
LEMMA BodyEndsOK ==
  ASSUME StoreInv, NEW p \in Pulls, NEW c \in Chunks, BodyEnds(p, c)
  PROVE  StoreInv' /\ PlacesWhole
<1> DEFINE f == fetch[p][c]
<1>1. /\ TypeOK /\ f \in Fetcher
      /\ c \notin mixed => FetchOK(c, f, tmp[c], final[c])
      /\ tmp \in [Chunks -> Contents \cup {Absent}]
      /\ final \in [Chunks -> Contents \cup {Absent}]
      /\ \A q \in Pulls : /\ fetch[q][c].fd = "tmp" => tmp[c] \in Contents
                          /\ fetch[q][c].fd = "final" => final[c] \in Contents
  BY FetchIs
<1>2. /\ UNCHANGED <<root, manifest, kept, source, stitched, split, pull, mixed>>
      /\ f.step = "stream" /\ Downloading(p, c) /\ tmp' = [tmp EXCEPT ![c] = Absent]
  BY DEF BodyEnds, Downloading
<1>3. tmp' \in [Chunks -> Contents \cup {Absent}] /\ \A d \in Chunks : d # c => tmp'[d] = tmp[d]
  BY <1>1, <1>2
<1>4. CASE Sound(c, f) /\ tmp[c] # Absent
  <2> DEFINE g == [NoFetch EXCEPT !.step = "done"]
             Renamed(x) == IF x.fd = "tmp" THEN [x EXCEPT !.fd = "final"]
                           ELSE IF x.fd = "final" THEN [x EXCEPT !.fd = "gone"] ELSE x
  <2>1. /\ final' = [final EXCEPT ![c] = tmp[c]]
        /\ fetch' = [q \in Pulls |-> [d \in Chunks |->
             IF q = p /\ d = c THEN [NoFetch EXCEPT !.step = "done"]
             ELSE IF d = c /\ fetch[q][d].fd = "tmp"
                  THEN [fetch[q][d] EXCEPT !.fd = "final"]
             ELSE IF d = c /\ fetch[q][d].fd = "final"
                  THEN [fetch[q][d] EXCEPT !.fd = "gone"]
             ELSE fetch[q][d]]]
    BY <1>4 DEF BodyEnds
  <2>2. c \notin mixed => Whole(c, tmp[c])
    <3> SUFFICES ASSUME c \notin mixed PROVE Whole(c, tmp[c])
      OBVIOUS
    <3>1. f.hashed = Size[c] /\ Size[c] \in Nat
      BY <1>4, ChunksAre DEF Sound
    <3>2. f.hashed # Spoilt
      BY <3>1 DEF Spoilt
    <3>3. /\ tmp[c] \in Contents /\ Len(tmp[c]) = f.at
          /\ f.hashed # Spoilt => f.hashed = f.at /\ \A i \in 1 .. f.at : tmp[c][i] = "good"
      BY <1>1, <1>2 DEF FetchOK
    <3> QED BY <3>1, <3>2, <3>3, GoodIsWhole
  <2>3. "done" \in Calm
    BY DEF Calm
  <2>4. g \in Fetcher /\ g.step = "done" /\ OpenOK(g, tmp'[c], final'[c])
    BY <2>3, FetcherIs, CalmIs
  <2>5. /\ fetch' = [q \in Pulls |-> fetch'[q]]
        /\ \A q \in Pulls : fetch'[q] = [d \in Chunks |-> fetch'[q][d]]
        /\ fetch'[p][c] = g
        /\ \A q \in Pulls, d \in Chunks : d # c => fetch'[q][d] = fetch[q][d]
        /\ \A q \in Pulls \ {p} : fetch'[q][c] = Renamed(fetch[q][c])
    BY <2>1
  <2> HIDE DEF g
  <2>6. ASSUME NEW x \in Fetcher
        PROVE  /\ Renamed(x) \in Fetcher /\ Renamed(x).fd # "tmp"
               /\ Renamed(x).step = x.step /\ Renamed(x).at = x.at
               /\ Renamed(x).hashed = x.hashed
               /\ Renamed(x).fd = "final" => x.fd = "tmp"
               /\ x.fd = "none" => Renamed(x) = x
    <3>1. CASE x.fd = "tmp"
      BY <2>6, <3>1 DEF Fetcher
    <3>2. CASE x.fd = "final"
      BY <2>6, <3>2 DEF Fetcher
    <3>3. CASE x.fd # "tmp" /\ x.fd # "final"
      BY <2>6, <3>3
    <3> QED BY <3>1, <3>2, <3>3
  <2> HIDE DEF Renamed
  <2>7. fetch \in [Pulls -> [Chunks -> Fetcher]]
    BY <1>1 DEF TypeOK
  <2>8. FetchBecomes(p, c, g)
    <3>1. \A q \in Pulls, d \in Chunks : fetch'[q][d] \in Fetcher
      BY <2>4, <2>5, <2>6, <2>7
    <3>2. fetch' \in [Pulls -> [Chunks -> Fetcher]]
      <4>1. \A q \in Pulls : fetch'[q] \in [Chunks -> Fetcher]
        BY <2>5, <3>1
      <4> QED BY <2>5, <4>1
    <3> QED BY <2>5, <2>6, <2>7, <3>2 DEF FetchBecomes
  <2>9. /\ final'[c] = tmp[c] /\ final' \in [Chunks -> Contents \cup {Absent}]
        /\ \A d \in Chunks : d # c => final'[d] = final[d]
    BY <1>1, <2>1
  <2>10. \A q \in Pulls \ {p} : /\ fetch'[q][c].fd = "tmp" => tmp'[c] \in Contents
                                /\ fetch'[q][c].fd = "final" => final'[c] \in Contents
    BY <1>1, <2>5, <2>6, <2>7, <2>9
  <2>11. c \notin mixed => FetchOK(c, g, tmp'[c], final'[c]) /\ Whole(c, final'[c])
    BY <2>2, <2>4, <2>9 DEF FetchOK
  <2>12. g.step # "idle"
    BY <2>4
  <2> HIDE DEF f
  <2> QED BY <1>2, <1>3, <2>4, <2>8, <2>9, <2>10, <2>11, <2>12, DownloadKeeps
<1>5. CASE ~(Sound(c, f) /\ tmp[c] # Absent)
  <2> DEFINE g == [NoFetch EXCEPT !.step = "failed"]
  <2>1. fetch' = [Follow(c, "tmp", "gone") EXCEPT ![p][c] = g] /\ final' = final
    BY <1>5 DEF BodyEnds
  <2>2. "failed" \in Calm
    BY DEF Calm
  <2>3. g \in Fetcher /\ g.step = "failed" /\ OpenOK(g, tmp'[c], final'[c])
    BY <2>2, FetcherIs, CalmIs
  <2> HIDE DEF g
  <2>4. FetchOK(c, g, tmp'[c], final'[c]) /\ g.step # "idle"
    BY <2>3 DEF FetchOK
  <2>5. /\ FetchBecomes(p, c, g)
        /\ \A q \in Pulls \ {p} : /\ fetch'[q][c].fd # "tmp"
                                  /\ fetch'[q][c].fd \in {fetch[q][c].fd, "gone"}
    BY <1>1, <2>1, <2>3, FollowIs
  <2>6. \A q \in Pulls \ {p} : /\ fetch'[q][c].fd = "tmp" => tmp'[c] \in Contents
                               /\ fetch'[q][c].fd = "final" => final'[c] \in Contents
    BY <1>1, <2>1, <2>5
  <2> HIDE DEF f
  <2> QED BY <1>1, <1>2, <1>3, <2>1, <2>3, <2>4, <2>5, <2>6, DownloadKeeps
<1> QED BY <1>4, <1>5
-----------------------------------------------------------------------------
(* The steps of splits, pulls and sessions.                                   *)

\* What a step that touches no fetch and no chunk's file has to keep.
LEMMA Quiet ==
  ASSUME StoreInv, UNCHANGED <<final, tmp, fetch, mixed>>
  PROVE  FetchesOK' /\ PlacesWhole
<1>1. FetchesOK'
  BY DEF StoreInv, FetchesOK, FilesOpen, LoneFetches, OneDownloads, Downloading
<1> QED BY <1>1 DEF PlacesWhole

\* A torn kept_ranges.json lists nothing.
LEMMA TornIs ==
  /\ TornKept \in [state : Written, gguf : BOOLEAN, ranges : SUBSET Ranges]
  /\ TornKept.gguf = FALSE /\ TornKept.ranges = {}
  BY DEF TornKept, NoKept, Written

LEMMA SplitOK ==
  ASSUME StoreInv, StartSplit \/ SplitStep \/ SplitFails
  PROVE  StoreInv' /\ PlacesWhole
<1>1. UNCHANGED <<manifest, final, tmp, source, stitched, pull, fetch, mixed>>
  BY DEF StartSplit, SplitStep, WriteChunk, WriteManifest, SplitDone, SplitFails, disk
<1>2. FetchesOK' /\ PlacesWhole
  BY <1>1, Quiet
<1>3. PullsFetch' /\ PullsFetched'
  BY <1>1 DEF StoreInv, PullsFetch, PullsFetched, Sure
<1>4. root \in [manifest : Written, chunks : SUBSET Chunks]
  BY DEF StoreInv, TypeOK
<1>5. CASE StartSplit \/ SplitFails
  <2>1. UNCHANGED <<root, kept>> /\ split' \in {"idle", "chunks"}
    BY <1>5 DEF StartSplit, SplitFails, disk
  <2>2. TypeOK' /\ SplitsComplete' /\ KeptIsThere'
    BY <1>1, <2>1 DEF StoreInv, TypeOK, SplitsComplete, KeptIsThere, Sure
  <2> QED BY <1>2, <1>3, <2>2 DEF StoreInv
<1>6. CASE WriteChunk
  <2>1. kept' = kept /\ split' \in {"chunks", "manifest"}
    BY <1>6 DEF WriteChunk
  <2>2. /\ root' \in [manifest : Written, chunks : SUBSET Chunks]
        /\ root.chunks = Chunks => root'.chunks = Chunks
        /\ split' = "manifest" => root'.chunks = Chunks
    <3>1. CASE /\ root.chunks # Chunks
               /\ root' = [root EXCEPT !.chunks = @ \cup {Min(Chunks \ @)}]
               /\ UNCHANGED split
      <4>1. Chunks \ root.chunks \subseteq Chunks /\ Chunks \ root.chunks # {}
        BY <1>4, <3>1
      <4>2. Min(Chunks \ root.chunks) \in Chunks
        BY <4>1, FirstMissing
      <4>3. split' = "chunks"
        BY <1>6, <3>1 DEF WriteChunk
      <4> QED BY <1>4, <3>1, <4>2, <4>3
    <3>2. CASE root.chunks = Chunks /\ root' = [root EXCEPT !.manifest = "torn"]
      BY <1>4, <3>2 DEF Written
    <3> QED BY <1>6, <3>1, <3>2 DEF WriteChunk
  <2>3. TypeOK'
    BY <1>1, <2>1, <2>2 DEF StoreInv, TypeOK
  <2>4. SplitsComplete' /\ KeptIsThere'
    BY <1>1, <2>1, <2>2 DEF StoreInv, SplitsComplete, KeptIsThere, Sure
  <2> QED BY <1>2, <1>3, <2>3, <2>4 DEF StoreInv
<1>7. CASE WriteManifest
  <2>1. /\ split = "manifest" /\ split' = "kept" /\ kept' = TornKept
        /\ root' = [root EXCEPT !.manifest = "whole"]
    BY <1>7 DEF WriteManifest
  <2>2. root'.chunks = Chunks /\ root' \in [manifest : Written, chunks : SUBSET Chunks]
    BY <1>4, <2>1 DEF StoreInv, SplitsComplete, Written
  <2>3. /\ kept' \in [state : Written, gguf : BOOLEAN, ranges : SUBSET Ranges]
        /\ kept'.gguf = FALSE /\ kept'.ranges = {}
    BY <2>1, TornIs
  <2>4. TypeOK'
    BY <1>1, <2>1, <2>2, <2>3 DEF StoreInv, TypeOK
  <2>5. SplitsComplete' /\ KeptIsThere'
    BY <2>2, <2>3 DEF SplitsComplete, KeptIsThere, Sure
  <2> QED BY <1>2, <1>3, <2>4, <2>5 DEF StoreInv
<1>8. CASE SplitDone
  <2>1. /\ split = "kept" /\ split' = "idle" /\ root' = root
        /\ WriteKept([state |-> "whole", gguf |-> TRUE, ranges |-> Kept])
    BY <1>8 DEF SplitDone
  <2>2. root'.chunks = Chunks
    BY <2>1 DEF StoreInv, SplitsComplete
  <2>3. CASE kept' = [state |-> "whole", gguf |-> TRUE, ranges |-> Kept]
    <3>1. kept' \in [state : Written, gguf : BOOLEAN, ranges : SUBSET Ranges] /\ kept'.gguf
      BY <2>3, ShardAssumption DEF Written
    <3>2. TypeOK'
      BY <1>1, <2>1, <3>1 DEF StoreInv, TypeOK
    <3>3. SplitsComplete' /\ KeptIsThere'
      BY <2>1, <2>2, <3>1 DEF SplitsComplete, KeptIsThere
    <3> QED BY <1>2, <1>3, <3>2, <3>3 DEF StoreInv
  <2>4. CASE kept' = TornKept
    <3>1. kept' \in [state : Written, gguf : BOOLEAN, ranges : SUBSET Ranges]
      BY <2>4, TornIs
    <3>2. TypeOK'
      BY <1>1, <2>1, <3>1 DEF StoreInv, TypeOK
    <3>3. SplitsComplete' /\ KeptIsThere'
      BY <2>1, <2>4, TornIs DEF SplitsComplete, KeptIsThere
    <3> QED BY <1>2, <1>3, <3>2, <3>3 DEF StoreInv
  <2> QED BY <2>1, <2>3, <2>4 DEF WriteKept
<1> QED BY <1>5, <1>6, <1>7, <1>8 DEF SplitStep

\* A pull that moves on outside its fetches, to any step but these.
LEMMA GotoKeeps ==
  ASSUME StoreInv, NEW p \in Pulls, NEW s \in PullSteps, Goto(p, s), s # "fetch",
         UNCHANGED fetch, pull[p].step # "fetch",
         s = "kept" => \A c \in ForRange(pull[p].range) : Sure(c),
         UNCHANGED <<final, mixed>>
  PROVE  /\ pull' \in [Pulls -> [step : PullSteps, range : Ranges]]
         /\ PullsFetch' /\ PullsFetched'
<1>1. pull \in [Pulls -> [step : PullSteps, range : Ranges]]
  BY DEF StoreInv, TypeOK
<1>2. /\ pull' \in [Pulls -> [step : PullSteps, range : Ranges]]
      /\ pull'[p].step = s /\ pull'[p].range = pull[p].range
      /\ \A q \in Pulls : q # p => pull'[q] = pull[q]
  BY <1>1 DEF Goto
<1>3. PullsFetch'
  BY <1>2 DEF StoreInv, PullsFetch
<1>4. PullsFetched'
  BY <1>2 DEF StoreInv, PullsFetched, Sure
<1> QED BY <1>2, <1>3, <1>4

LEMMA StartPullOK ==
  ASSUME StoreInv, NEW p \in Pulls, StartPull(p)
  PROVE  StoreInv' /\ PlacesWhole
<1>1. UNCHANGED <<root, manifest, final, tmp, kept, source, stitched, split, fetch, mixed>>
  BY DEF StartPull, disk
<1>2. FetchesOK' /\ PlacesWhole
  BY <1>1, Quiet
<1>3. PICK r \in Ranges : pull' = [pull EXCEPT ![p] = [step |-> "manifest", range |-> r]]
  BY DEF StartPull
<1>4. pull[p].step # "fetch" /\ pull \in [Pulls -> [step : PullSteps, range : Ranges]]
  BY DEF StartPull, StoreInv, TypeOK
<1>5. /\ pull' \in [Pulls -> [step : PullSteps, range : Ranges]]
      /\ pull'[p].step = "manifest"
      /\ \A q \in Pulls : q # p => pull'[q] = pull[q]
  <2>1. [step |-> "manifest", range |-> r] \in [step : PullSteps, range : Ranges]
    BY DEF PullSteps
  <2> QED BY <1>3, <1>4, <2>1
<1>6. TypeOK'
  BY <1>1, <1>5 DEF StoreInv, TypeOK
<1>7. PullsFetch' /\ PullsFetched'
  BY <1>1, <1>4, <1>5 DEF StoreInv, PullsFetch, PullsFetched, Sure
<1>8. SplitsComplete' /\ KeptIsThere'
  BY <1>1 DEF StoreInv, SplitsComplete, KeptIsThere, Sure
<1> QED BY <1>2, <1>6, <1>7, <1>8 DEF StoreInv

LEMMA BeginManifestOK ==
  ASSUME StoreInv, NEW p \in Pulls, BeginManifest(p)
  PROVE  StoreInv' /\ PlacesWhole
<1>1. /\ UNCHANGED <<root, final, tmp, kept, source, stitched, split, fetch, mixed>>
      /\ manifest' \in Written /\ Goto(p, "write") /\ pull[p].step = "manifest"
  BY DEF BeginManifest, Written
<1>2. FetchesOK' /\ PlacesWhole
  BY <1>1, Quiet
<1>3. /\ pull' \in [Pulls -> [step : PullSteps, range : Ranges]]
      /\ PullsFetch' /\ PullsFetched'
  <2>1. "write" \in PullSteps /\ "write" # "fetch" /\ "write" # "kept"
    BY DEF PullSteps
  <2> QED BY <1>1, <2>1, GotoKeeps
<1>4. TypeOK' /\ SplitsComplete' /\ KeptIsThere'
  BY <1>1, <1>3 DEF StoreInv, TypeOK, SplitsComplete, KeptIsThere, Sure
<1> QED BY <1>2, <1>3, <1>4 DEF StoreInv

\* A pull begins or drops all its fetches: the others go on as they were.
LEMMA AllFetches ==
  ASSUME StoreInv, NEW p \in Pulls, NEW F \in [Chunks -> Fetcher],
         fetch' = [fetch EXCEPT ![p] = F],
         \A c \in Chunks : F[c].step \in {"idle", "check"}
                          /\ F[c] = [NoFetch EXCEPT !.step = F[c].step],
         UNCHANGED <<final, tmp, mixed>>
  PROVE  /\ fetch' \in [Pulls -> [Chunks -> Fetcher]] /\ fetch'[p] = F
         /\ \A q \in Pulls \ {p} : fetch'[q] = fetch[q]
         /\ FetchesOK'
<1>1. fetch \in [Pulls -> [Chunks -> Fetcher]]
  BY DEF StoreInv, TypeOK
<1>2. /\ fetch' \in [Pulls -> [Chunks -> Fetcher]] /\ fetch'[p] = F
      /\ \A q \in Pulls \ {p} : fetch'[q] = fetch[q]
  BY <1>1
<1>3. \A c \in Chunks : \A t, w : OpenOK(F[c], t, w) /\ FetchOK(c, F[c], t, w)
  <2> SUFFICES ASSUME NEW c \in Chunks, NEW t, NEW w
               PROVE  OpenOK(F[c], t, w) /\ FetchOK(c, F[c], t, w)
    OBVIOUS
  <2> DEFINE s == F[c].step
  <2>1. s \in {"idle", "check"} /\ s \in Calm
    BY DEF Calm
  <2>2. FetchOK(c, F[c], t, w)
    BY <2>1 DEF FetchOK
  <2>3. F[c] = [NoFetch EXCEPT !.step = s]
    OBVIOUS
  <2> HIDE DEF s
  <2>4. OpenOK([NoFetch EXCEPT !.step = s], t, w)
    BY <2>1, CalmIs
  <2> QED BY <2>2, <2>3, <2>4
<1>4. FilesOpen'
  <2>1. \A q \in Pulls, c \in Chunks : OpenOK(fetch[q][c], tmp[c], final[c])
    BY DEF StoreInv, FetchesOK, FilesOpen
  <2> QED BY <1>2, <1>3, <2>1 DEF FilesOpen
<1>5. LoneFetches'
  <2>1. \A c \in Chunks \ mixed : \A q \in Pulls : FetchOK(c, fetch[q][c], tmp[c], final[c])
    BY DEF StoreInv, FetchesOK, LoneFetches
  <2> QED BY <1>2, <1>3, <2>1 DEF LoneFetches
<1>6. OneDownloads'
  <2>1. \A q \in Pulls, c \in Chunks : Downloading(q, c)' => q # p /\ Downloading(q, c)
    BY <1>2 DEF Downloading
  <2>2. \A c \in Chunks \ mixed : \A q, r \in Pulls :
          Downloading(q, c) /\ Downloading(r, c) => q = r
    BY DEF StoreInv, FetchesOK, OneDownloads
  <2> QED BY <2>1, <2>2 DEF OneDownloads
<1> QED BY <1>2, <1>4, <1>5, <1>6 DEF FetchesOK

LEMMA ManifestOkOK ==
  ASSUME StoreInv, NEW p \in Pulls, ManifestOk(p)
  PROVE  StoreInv' /\ PlacesWhole
<1> DEFINE R == ForRange(pull[p].range)
           check == [NoFetch EXCEPT !.step = "check"]
           F == [c \in Chunks |-> IF c \in R THEN check ELSE NoFetch]
<1>1. /\ UNCHANGED <<root, final, tmp, kept, source, stitched, split, mixed>>
      /\ manifest' = "whole" /\ pull' = [pull EXCEPT ![p].step = "fetch"]
      /\ fetch' = [fetch EXCEPT ![p] = F]
  BY DEF ManifestOk, Goto
<1>2. pull \in [Pulls -> [step : PullSteps, range : Ranges]]
  BY DEF StoreInv, TypeOK
<1>3. /\ pull' \in [Pulls -> [step : PullSteps, range : Ranges]]
      /\ pull'[p].step = "fetch" /\ pull'[p].range = pull[p].range
      /\ \A q \in Pulls \ {p} : pull'[q] = pull[q]
  BY <1>1, <1>2 DEF PullSteps
<1>4. /\ NoFetch \in Fetcher /\ check \in Fetcher /\ check.step = "check"
      /\ NoFetch.step = "idle" /\ NoFetch = [NoFetch EXCEPT !.step = NoFetch.step]
      /\ check = [NoFetch EXCEPT !.step = check.step]
  <2>1. "check" \in Calm
    BY DEF Calm
  <2>2. check \in Fetcher /\ check.step = "check"
    BY <2>1, FetcherIs
  <2> QED BY <2>2, FetcherIs DEF NoFetch
<1>5. R \subseteq Chunks
  BY <1>2, RangeChunks
<1> HIDE DEF check, R
<1>6. F \in [Chunks -> Fetcher]
  BY <1>4
<1>7. \A c \in Chunks : F[c].step \in {"idle", "check"}
                        /\ F[c] = [NoFetch EXCEPT !.step = F[c].step]
  BY <1>4
<1>8. \A c \in R : F[c].step # "idle"
  BY <1>4, <1>5
<1> HIDE DEF F
<1>9. /\ fetch' \in [Pulls -> [Chunks -> Fetcher]] /\ fetch'[p] = F
      /\ \A q \in Pulls \ {p} : fetch'[q] = fetch[q]
      /\ FetchesOK'
  BY <1>1, <1>6, <1>7, AllFetches
<1>10. TypeOK'
  BY <1>1, <1>3, <1>9 DEF StoreInv, TypeOK, Written
<1>11. PullsFetch'
  <2>1. \A c \in ForRange(pull'[p].range) : fetch'[p][c].step # "idle"
    BY <1>3, <1>8, <1>9 DEF R
  <2> QED BY <1>3, <1>9, <2>1 DEF StoreInv, PullsFetch
<1>12. PullsFetched'
  BY <1>1, <1>3 DEF StoreInv, PullsFetched, Sure
<1>13. SplitsComplete' /\ KeptIsThere' /\ PlacesWhole
  BY <1>1 DEF StoreInv, SplitsComplete, KeptIsThere, PlacesWhole, Sure
<1> QED BY <1>9, <1>10, <1>11, <1>12, <1>13 DEF StoreInv

\* All the fetches are over: those of the range have succeeded, or the pull fails.
LEMMA FetchesJoinedOK ==
  ASSUME StoreInv, NEW p \in Pulls, FetchesJoined(p)
  PROVE  StoreInv' /\ PlacesWhole
<1> DEFINE F == [c \in Chunks |-> NoFetch]
<1>1. /\ UNCHANGED <<root, manifest, final, tmp, source, stitched, split, mixed>>
      /\ fetch' = [fetch EXCEPT ![p] = F]
      /\ pull[p].step = "fetch" /\ \A c \in Chunks : Over(p, c)
  BY DEF FetchesJoined
<1>2. pull \in [Pulls -> [step : PullSteps, range : Ranges]] /\ pull[p].range \in Ranges
  BY DEF StoreInv, TypeOK
<1>3. NoFetch \in Fetcher /\ NoFetch.step = "idle" /\ NoFetch = [NoFetch EXCEPT !.step = NoFetch.step]
  BY FetcherIs DEF NoFetch
<1>4. F \in [Chunks -> Fetcher] /\ \A c \in Chunks : F[c] = NoFetch
  BY <1>3
<1> HIDE DEF F
<1>5. /\ fetch' \in [Pulls -> [Chunks -> Fetcher]] /\ \A c \in Chunks : fetch'[p][c] = NoFetch
      /\ \A q \in Pulls \ {p} : fetch'[q] = fetch[q]
      /\ FetchesOK'
  <2>1. \A c \in Chunks : F[c].step \in {"idle", "check"}
                          /\ F[c] = [NoFetch EXCEPT !.step = F[c].step]
    BY <1>3, <1>4
  <2> QED BY <1>1, <1>4, <2>1, AllFetches
<1>6. SplitsComplete' /\ PlacesWhole
  BY <1>1 DEF StoreInv, SplitsComplete, PlacesWhole
<1>7. CASE \E c \in Chunks : fetch[p][c].step = "failed"
  <2>1. kept' = kept /\ pull' = [pull EXCEPT ![p].step = "failed"]
    BY <1>7 DEF FetchesJoined, Goto
  <2>2. /\ pull' \in [Pulls -> [step : PullSteps, range : Ranges]] /\ pull'[p].step = "failed"
        /\ \A q \in Pulls \ {p} : pull'[q] = pull[q]
    BY <1>2, <2>1 DEF PullSteps
  <2>3. PullsFetch' /\ PullsFetched'
    BY <1>1, <1>5, <2>2 DEF StoreInv, PullsFetch, PullsFetched, Sure
  <2>4. TypeOK' /\ KeptIsThere'
    BY <1>1, <1>5, <2>1, <2>2 DEF StoreInv, TypeOK, KeptIsThere, Sure
  <2> QED BY <1>5, <1>6, <2>3, <2>4 DEF StoreInv
<1>8. CASE \A c \in Chunks : fetch[p][c].step # "failed"
  <2>1. kept' = TornKept /\ pull' = [pull EXCEPT ![p].step = "kept"]
    BY <1>8 DEF FetchesJoined, Goto
  <2>2. /\ pull' \in [Pulls -> [step : PullSteps, range : Ranges]]
        /\ pull'[p].step = "kept" /\ pull'[p].range = pull[p].range
        /\ \A q \in Pulls \ {p} : pull'[q] = pull[q]
    BY <1>2, <2>1 DEF PullSteps
  <2>3. \A c \in ForRange(pull[p].range) : Sure(c)
    <3> SUFFICES ASSUME NEW c \in ForRange(pull[p].range), c \notin mixed
                 PROVE  Whole(c, final[c])
      BY DEF Sure
    <3>1. c \in Chunks
      BY <1>2, RangeChunks
    <3>2. fetch[p][c].step # "idle"
      BY <1>1 DEF StoreInv, PullsFetch
    <3>3. fetch[p][c].step = "done"
      BY <1>1, <1>8, <3>1, <3>2 DEF Over
    <3> QED BY <3>1, <3>3, FetchIs DEF FetchOK
  <2>4. PullsFetch' /\ PullsFetched'
    BY <1>1, <1>2, <1>5, <2>2, <2>3 DEF StoreInv, PullsFetch, PullsFetched, Sure
  <2>5. /\ kept' \in [state : Written, gguf : BOOLEAN, ranges : SUBSET Ranges]
        /\ kept'.gguf = FALSE /\ kept'.ranges = {}
    BY <2>1, TornIs
  <2>6. TypeOK' /\ KeptIsThere'
    BY <1>1, <1>5, <2>2, <2>5 DEF StoreInv, TypeOK, KeptIsThere
  <2> QED BY <1>5, <1>6, <2>4, <2>6 DEF StoreInv
<1> QED BY <1>7, <1>8

LEMMA KeptWrittenOK ==
  ASSUME StoreInv, NEW p \in Pulls, KeptWritten(p)
  PROVE  StoreInv' /\ PlacesWhole
<1>1. /\ UNCHANGED <<root, manifest, final, tmp, stitched, split, fetch, mixed>>
      /\ WriteKept([state |-> "whole", gguf |-> FALSE, ranges |-> {pull[p].range}])
      /\ source' = "torn" /\ Goto(p, "source") /\ pull[p].step = "kept"
  BY DEF KeptWritten
<1>2. FetchesOK' /\ PlacesWhole
  BY <1>1, Quiet
<1>3. pull[p].range \in Ranges
  BY DEF StoreInv, TypeOK
<1>4. \A c \in ForRange(pull[p].range) : Sure(c)
  BY <1>1 DEF StoreInv, PullsFetched
<1>5. /\ pull' \in [Pulls -> [step : PullSteps, range : Ranges]]
      /\ PullsFetch' /\ PullsFetched'
  <2>1. "source" \in PullSteps /\ "source" # "fetch" /\ "source" # "kept"
    BY DEF PullSteps
  <2> QED BY <1>1, <2>1, GotoKeeps
<1>6. /\ kept' \in [state : Written, gguf : BOOLEAN, ranges : SUBSET Ranges]
      /\ kept'.gguf = FALSE /\ kept'.ranges \subseteq {pull[p].range}
  <2>1. CASE kept' = [state |-> "whole", gguf |-> FALSE, ranges |-> {pull[p].range}]
    BY <1>3, <2>1 DEF Written
  <2>2. CASE kept' = TornKept
    BY <2>2, TornIs
  <2> QED BY <1>1, <2>1, <2>2 DEF WriteKept
<1>7. TypeOK'
  BY <1>1, <1>5, <1>6 DEF StoreInv, TypeOK, Written
<1>8. SplitsComplete' /\ KeptIsThere'
  BY <1>1, <1>4, <1>6 DEF StoreInv, SplitsComplete, KeptIsThere, Sure
<1> QED BY <1>2, <1>5, <1>7, <1>8 DEF StoreInv

LEMMA PullEndsOK ==
  ASSUME StoreInv, NEW p \in Pulls, PullDone(p) \/ PullFails(p)
  PROVE  StoreInv' /\ PlacesWhole
<1>1. /\ UNCHANGED <<root, manifest, final, tmp, kept, stitched, split, fetch, mixed>>
      /\ source' \in Written /\ pull[p].step # "fetch"
      /\ \E s \in {"done", "failed"} : Goto(p, s)
  BY DEF PullDone, PullFails, disk, StoreInv, TypeOK, Written
<1>2. FetchesOK' /\ PlacesWhole
  BY <1>1, Quiet
<1>3. /\ pull' \in [Pulls -> [step : PullSteps, range : Ranges]]
      /\ PullsFetch' /\ PullsFetched'
  <2>1. PICK s \in {"done", "failed"} : Goto(p, s)
    BY <1>1
  <2>2. s \in PullSteps /\ s # "fetch" /\ s # "kept"
    BY DEF PullSteps
  <2> QED BY <1>1, <2>1, <2>2, GotoKeeps
<1>4. TypeOK'
  BY <1>1, <1>3 DEF StoreInv, TypeOK
<1>5. SplitsComplete' /\ KeptIsThere'
  BY <1>1 DEF StoreInv, SplitsComplete, KeptIsThere, Sure
<1> QED BY <1>2, <1>3, <1>4, <1>5 DEF StoreInv

LEMMA PrepareOK ==
  ASSUME StoreInv, NEW r \in Ranges, Prepare(r)
  PROVE  StoreInv' /\ PlacesWhole
<1>1. /\ UNCHANGED <<root, manifest, final, tmp, kept, source, split, pull, fetch, mixed>>
      /\ stitched' = stitched \cup {r}
  BY DEF Prepare
<1>2. FetchesOK' /\ PlacesWhole
  BY <1>1, Quiet
<1>3. TypeOK' /\ PullsFetch' /\ PullsFetched' /\ SplitsComplete' /\ KeptIsThere'
  BY <1>1 DEF StoreInv, TypeOK, PullsFetch, PullsFetched, SplitsComplete, KeptIsThere, Sure
<1> QED BY <1>2, <1>3 DEF StoreInv

\* A crash takes the tasks, and leaves the files.
LEMMA CrashOK ==
  ASSUME StoreInv, Crash
  PROVE  StoreInv' /\ PlacesWhole
<1>1. /\ UNCHANGED <<root, manifest, final, tmp, kept, source, stitched, mixed>>
      /\ split' = "idle"
      /\ pull' = [p \in Pulls |-> [pull[p] EXCEPT !.step = "idle"]]
      /\ fetch' = [p \in Pulls |-> [c \in Chunks |-> NoFetch]]
  BY DEF Crash, disk
<1>2. /\ NoFetch \in Fetcher /\ NoFetch.step = "idle"
      /\ NoFetch = [NoFetch EXCEPT !.step = NoFetch.step]
  BY FetcherIs DEF NoFetch
<1>3. \A p \in Pulls : pull'[p].step = "idle" /\ pull'[p] \in [step : PullSteps, range : Ranges]
  BY <1>1 DEF StoreInv, TypeOK, PullSteps
<1>4. TypeOK'
  BY <1>1, <1>2, <1>3 DEF StoreInv, TypeOK
<1>5. FetchesOK'
  <2>1. FilesOpen'
    BY <1>1, Idle DEF FilesOpen
  <2>2. LoneFetches'
    BY <1>1, Idle DEF LoneFetches
  <2>3. OneDownloads'
    BY <1>1, Idle DEF OneDownloads, Downloading
  <2> QED BY <2>1, <2>2, <2>3 DEF FetchesOK
<1>6. PullsFetch' /\ PullsFetched'
  BY <1>1, <1>3 DEF PullsFetch, PullsFetched
<1>7. SplitsComplete' /\ KeptIsThere' /\ PlacesWhole
  BY <1>1 DEF StoreInv, SplitsComplete, KeptIsThere, PlacesWhole, Sure
<1> QED BY <1>4, <1>5, <1>6, <1>7 DEF StoreInv

-----------------------------------------------------------------------------
(* The specification.                                                         *)

LEMMA StepStore ==
  ASSUME StoreInv, [Next]_vars
  PROVE  StoreInv' /\ PlacesWhole
<1>1. CASE StartSplit \/ SplitStep \/ SplitFails
  BY <1>1, SplitOK
<1>2. ASSUME NEW p \in Pulls, StartPull(p) \/ PullStep(p) \/ PullFails(p)
      PROVE  StoreInv' /\ PlacesWhole
  <2>1. CASE StartPull(p)
    BY <2>1, StartPullOK
  <2>2. CASE BeginManifest(p)
    BY <2>2, BeginManifestOK
  <2>3. CASE ManifestOk(p)
    BY <2>3, ManifestOkOK
  <2>4. CASE FetchesJoined(p)
    BY <2>4, FetchesJoinedOK
  <2>5. CASE KeptWritten(p)
    BY <2>5, KeptWrittenOK
  <2>6. CASE PullDone(p) \/ PullFails(p)
    BY <2>6, PullEndsOK
  <2>7. ASSUME NEW c \in Chunks, FetchStep(p, c)
        PROVE  StoreInv' /\ PlacesWhole
    <3>1. CASE CheckCached(p, c)
      BY <3>1, CheckCachedOK
    <3>2. CASE Drop(p, c)
      BY <3>2, DropOK
    <3>3. CASE Resume(p, c)
      BY <3>3, ResumeOK
    <3>4. CASE Answered(p, c)
      BY <3>4, AnsweredOK
    <3>5. CASE Receive(p, c)
      BY <3>5, ReceiveOK
    <3>6. CASE BodyEnds(p, c)
      BY <3>6, BodyEndsOK
    <3>7. CASE FetchFails(p, c)
      BY <3>7, FetchFailsOK
    <3> QED BY <2>7, <3>1, <3>2, <3>3, <3>4, <3>5, <3>6, <3>7 DEF FetchStep
  <2> QED BY <1>2, <2>1, <2>2, <2>3, <2>4, <2>5, <2>6, <2>7 DEF PullStep
<1>3. ASSUME NEW r \in Ranges, Prepare(r)
      PROVE  StoreInv' /\ PlacesWhole
  BY <1>3, PrepareOK
<1>4. CASE Crash
  BY <1>4, CrashOK
<1>5. CASE UNCHANGED vars
  <2>1. UNCHANGED <<root, manifest, final, tmp, kept, source, stitched, split, pull, fetch, mixed>>
    BY <1>5 DEF vars, disk
  <2>2. StoreInv'
    BY <2>1 DEF StoreInv, TypeOK, FetchesOK, FilesOpen, LoneFetches, OneDownloads,
                Downloading, PullsFetch, PullsFetched, SplitsComplete, KeptIsThere, Sure
  <2> QED BY <2>1, <2>2 DEF PlacesWhole
<1> QED BY <1>1, <1>2, <1>3, <1>4, <1>5 DEF Next

\* A range listed without a GGUF has every chunk the stitcher will ask for, whole
\* and verified: over resumed, restarted, wrong and broken downloads (fetch_one in
\* http.rs), crashes between any two writes, splits beside the pulls, and any number
\* of pulls at once, but for the chunks that two of them were at and none has checked
\* since.
THEOREM ListedRangesAreFetched == Spec => []ListedIsFetched
<1>1. Init => StoreInv
  BY InitStore
<1>2. StoreInv /\ [Next]_vars => StoreInv'
  BY StepStore
<1>3. StoreInv => ListedIsFetched
  <2> SUFFICES ASSUME StoreInv PROVE ListedIsFetched
    OBVIOUS
  <2>1. TypeOK
    BY DEF StoreInv
  <2>2. ASSUME NEW r \in Ranges, Listed(r)
        PROVE  IF kept.gguf THEN root.chunks = Chunks
               ELSE \A c \in StitchNeeds(r) : Whole(c, final[c]) \/ c \in mixed
    <3>1. r \in kept.ranges
      BY <2>2 DEF Listed
    <3> QED BY <3>1, RangeChunks DEF StoreInv, KeptIsThere, Sure
  <2> QED BY <2>1, <2>2 DEF ListedIsFetched
<1> QED BY <1>1, <1>2, <1>3, PTL DEF Spec

\* fetch_one renames a temporary file into place only when it holds the chunk, all
\* of it and as its content id promises, however the download went, and removes no
\* whole one: as long as no other pull has been at the chunk's files with it.
THEOREM PlacedChunksAreWhole == Spec => LoneFetchPlacesWhole
<1>1. Init => StoreInv
  BY InitStore
<1>2. StoreInv /\ [Next]_vars => StoreInv'
  BY StepStore
<1>3. StoreInv /\ [Next]_vars =>
        [\A c \in Chunks : final'[c] # final[c] =>
           \/ c \in mixed
           \/ Whole(c, final'[c])
           \/ final'[c] = Absent /\ ~Whole(c, final[c])]_vars
  BY StepStore DEF PlacesWhole
<1> QED BY <1>1, <1>2, <1>3, PTL DEF Spec, LoneFetchPlacesWhole

-----------------------------------------------------------------------------
(* Sequences one behind the other.                                            *)

\* e says where each sequence of b ends.
Ends(b, e) ==
  /\ e \in [0 .. Len(b) -> Nat] /\ e[0] = 0
  /\ \A i \in 1 .. Len(b) : e[i] = e[i - 1] + Len(b[i])

\* f has the beginnings of b, one behind the other.
Joined(S, b, f) ==
  /\ f \in [0 .. Len(b) -> Seq(S)] /\ f[0] = <<>>
  /\ \A i \in 1 .. Len(b) : f[i] = f[i - 1] \o b[i]

\* What the recursion of FlattenSeq looks for.
Flattening(b, g) == g = [i \in 1 .. Len(b) |-> IF i = 1 THEN b[i] ELSE g[i - 1] \o b[i]]

\* The recursion has a solution, and it is these beginnings.
LEMMA JoinedIs ==
  ASSUME NEW S, NEW b \in Seq(Seq(S))
  PROVE  \E f : Joined(S, b, f) /\ FlattenSeq(b) = f[Len(b)]
<1> DEFINE Texts == Seq(S)
           n == Len(b)
           step == [i \in 1 .. n |-> [u \in Texts |-> u \o b[i]]]
           none == <<>>
<1>1. n \in Nat /\ none \in Texts /\ \A i \in 1 .. n : b[i] \in Texts
  OBVIOUS
<1>2. /\ step \in StepFunctions(n, Texts)
      /\ \A i \in 1 .. n, u \in Texts : step[i][u] = u \o b[i]
  <2>1. ASSUME NEW i \in 1 .. n, NEW u \in Texts PROVE u \o b[i] \in Texts
    <3> DEFINE r == b[i]
    <3>1. r \in Texts
      BY <1>1
    <3> HIDE DEF r
    <3>2. u \o r \in Texts
      BY <3>1
    <3> QED BY <3>2 DEF r
  <2> HIDE DEF Texts, n
  <2> QED BY <2>1 DEF StepFunctions
<1> HIDE DEF step, n, none
<1>3. PICK f \in [0 .. n -> Texts] :
        \A i \in 0 .. n : f[i] = IF i = 0 THEN none ELSE step[i][f[i - 1]]
  <2> HIDE DEF Texts
  <2>1. Solvable(n, Texts, none, step)
    BY <1>1, <1>2, RecursionExists
  <2> QED BY <2>1 DEF Solvable
<1>4. f[0] = none
  BY <1>1, <1>3
<1>5. ASSUME NEW i \in 1 .. n PROVE f[i] = f[i - 1] \o b[i]
  <2> HIDE DEF Texts
  <2>1. i \in 0 .. n /\ i - 1 \in 0 .. n /\ i # 0
    BY <1>1
  <2>2. f[i - 1] \in Texts
    BY <2>1
  <2> QED BY <1>2, <1>3, <2>1, <2>2
<1>6. Joined(S, b, f)
  BY <1>3, <1>4, <1>5 DEF Joined, n, none
<1>7. CASE n = 0
  <2>1. b = <<>>
    BY <1>7 DEF n
  <2>2. FlattenSeq(b) = <<>>
    BY <1>7, <2>1 DEF FlattenSeq, n
  <2> QED BY <1>4, <1>6, <1>7, <2>2 DEF n, none
<1>8. CASE n # 0
  <2> DEFINE h == [i \in 1 .. n |-> f[i]]
  <2>1. Flattening(b, h)
    <3>1. ASSUME NEW i \in 1 .. n PROVE f[i] = IF i = 1 THEN b[i] ELSE h[i - 1] \o b[i]
      <4>1. CASE i = 1
        <5> DEFINE r == b[1]
        <5>1. r \in Texts /\ f[1] = <<>> \o r
          <6>1. i - 1 = 0 /\ b[i] \in Texts
            BY <1>1, <4>1
          <6> QED BY <1>4, <1>5, <4>1, <6>1 DEF none
        <5> HIDE DEF r
        <5>2. f[1] = r
          BY <5>1, ConcatEmptySeq
        <5> QED BY <4>1, <5>2 DEF r
      <4>2. CASE i # 1
        <5>1. i - 1 \in 1 .. n
          BY <1>1, <4>2
        <5>2. h[i - 1] = f[i - 1]
          BY <5>1
        <5> HIDE DEF h
        <5> QED BY <1>5, <4>2, <5>2
      <4> QED BY <4>1, <4>2
    <3> DEFINE e(i) == IF i = 1 THEN b[i] ELSE h[i - 1] \o b[i]
    <3>2. \A i \in 1 .. n : f[i] = e(i)
      BY <3>1
    <3> HIDE DEF e
    <3>3. h = [i \in 1 .. n |-> e(i)]
      BY <3>2
    <3> QED BY <3>3 DEF Flattening, n, e
  <2> HIDE DEF h
  <2> DEFINE g == CHOOSE g : Flattening(b, g)
  <2>2. Flattening(b, g)
    BY <2>1
  <2>3. FlattenSeq(b) = g[n]
    BY <1>8 DEF FlattenSeq, Flattening, n
  <2> HIDE DEF g
  <2>4. \A i \in 1 .. n : g[i] = IF i = 1 THEN b[i] ELSE g[i - 1] \o b[i]
    BY <2>2 DEF Flattening, n
  <2>5. \A i \in 1 .. n : h[i] = IF i = 1 THEN b[i] ELSE h[i - 1] \o b[i]
    BY <2>1 DEF Flattening, n
  <2> DEFINE P == {i \in 0 .. n : i = 0 \/ g[i] = h[i]}
  <2>6. 0 \in P
    BY <1>1
  <2>7. ASSUME NEW i \in 1 .. n, i - 1 \in P PROVE i \in P
    <3>1. i \in 0 .. n /\ i # 0
      BY <1>1
    <3>2. i # 1 => g[i - 1] = h[i - 1]
      BY <2>7
    <3>3. g[i] = h[i]
      BY <2>4, <2>5, <3>2
    <3> QED BY <3>1, <3>3
  <2> HIDE DEF P
  <2>8. \A i \in 0 .. n : i \in P
    BY <1>1, <2>6, <2>7, UpTo
  <2>9. n \in 0 .. n /\ n \in 1 .. n
    BY <1>1, <1>8
  <2>10. g[n] = h[n]
    BY <1>8, <2>8, <2>9 DEF P
  <2>11. h[n] = f[n]
    BY <2>9 DEF h
  <2> QED BY <1>6, <2>3, <2>10, <2>11 DEF n
<1> QED BY <1>7, <1>8

\* A place of a piece is one of the whole.
LEMMA Within ==
  ASSUME NEW x \in Nat, NEW z \in Nat, NEW y \in Nat, y = x + z, NEW l \in Nat, y <= l,
         NEW w \in 1 .. z
  PROVE  x + w \in 1 .. l /\ x + w \in Nat /\ x < x + w /\ x + w <= y
OBVIOUS

\* Where the sequences end is determined, and grows.
LEMMA EndsGrow ==
  ASSUME NEW S, NEW b \in Seq(Seq(S)), NEW e, Ends(b, e)
  PROVE  \A i \in 0 .. Len(b) : \A j \in 0 .. i : e[j] <= e[i]
<1> DEFINE n == Len(b)
           P == {i \in 0 .. n : \A j \in 0 .. i : e[j] <= e[i]}
<1>1. /\ n \in Nat /\ \A i \in 1 .. n : Len(b[i]) \in Nat /\ e[i] = e[i - 1] + Len(b[i])
      /\ \A i \in 0 .. n : e[i] \in Nat
  <2>1. \A i \in 1 .. n : b[i] \in Seq(S)
    OBVIOUS
  <2>2. \A i \in 1 .. n : Len(b[i]) \in Nat
    BY <2>1
  <2>3. /\ n \in Nat /\ \A i \in 1 .. n : e[i] = e[i - 1] + Len(b[i])
        /\ e \in [0 .. n -> Nat]
    BY DEF Ends
  <2> HIDE DEF n
  <2> QED BY <2>2, <2>3
<1> HIDE DEF n
<1>2. 0 \in P
  BY <1>1
<1>3. ASSUME NEW i \in 1 .. n, i - 1 \in P PROVE i \in P
  <2>1. e[i - 1] <= e[i] /\ e[i] \in Nat /\ e[i - 1] \in Nat
    <3>1. n \in Nat /\ i \in 1 .. n
      BY <1>1
    <3>2. i - 1 \in 0 .. n /\ i \in 0 .. n
      BY ONLY <3>1
    <3>3. e[i - 1] \in Nat /\ e[i] \in Nat /\ Len(b[i]) \in Nat /\ e[i] = e[i - 1] + Len(b[i])
      BY <1>1, <3>2
    <3> QED BY ONLY <3>3
  <2>2. ASSUME NEW j \in 0 .. i PROVE e[j] <= e[i]
    <3>1. CASE j = i
      BY <2>1, <3>1
    <3>2. CASE j # i
      <4>1. j \in 0 .. i - 1 /\ j \in 0 .. n
        BY <1>1, <3>2
      <4>2. e[j] <= e[i - 1] /\ e[j] \in Nat
        BY <1>1, <1>3, <4>1
      <4> QED BY <2>1, <4>2
    <3> QED BY <3>1, <3>2
  <2>3. i \in 0 .. n
    BY <1>1
  <2> QED BY <2>2, <2>3
<1> HIDE DEF P
<1>4. \A i \in 0 .. n : i \in P
  BY <1>1, <1>2, <1>3, UpTo
<1> QED BY <1>4 DEF P, n

\* and is determined by the sequences.
LEMMA EndsUnique ==
  ASSUME NEW S, NEW b \in Seq(Seq(S)), NEW e, Ends(b, e), NEW h, Ends(b, h)
  PROVE  \A i \in 0 .. Len(b) : e[i] = h[i]
<1> DEFINE n == Len(b)
           P == {i \in 0 .. n : e[i] = h[i]}
<1>1. /\ n \in Nat
      /\ \A i \in 1 .. n : e[i] = e[i - 1] + Len(b[i]) /\ h[i] = h[i - 1] + Len(b[i])
      /\ e[0] = 0 /\ h[0] = 0
  BY DEF Ends
<1> HIDE DEF n
<1>2. 0 \in P /\ \A i \in 1 .. n : i - 1 \in P => i \in P
  BY <1>1
<1> HIDE DEF P
<1>3. \A i \in 0 .. n : i \in P
  BY <1>1, <1>2, UpTo
<1> QED BY <1>3 DEF P, n

\* t is the sequences of b one behind the other, that end at e.
Lies(S, b, e, t) ==
  /\ t \in Seq(S) /\ Len(t) = e[Len(b)]
  /\ \A i \in 1 .. Len(b) : \A j \in 1 .. Len(b[i]) : t[e[i - 1] + j] = b[i][j]

\* What FlattenSeq makes of a sequence of sequences.
LEMMA FlattenHas ==
  ASSUME NEW S, NEW b \in Seq(Seq(S))
  PROVE  \E e : Ends(b, e) /\ Lies(S, b, e, FlattenSeq(b))
<1> DEFINE n == Len(b)
<1>1. PICK f : Joined(S, b, f) /\ FlattenSeq(b) = f[n]
  BY JoinedIs
<1> DEFINE e == [i \in 0 .. n |-> Len(f[i])]
           Has(i) == \A k \in 1 .. i : \A j \in 1 .. Len(b[k]) : f[i][e[k - 1] + j] = b[k][j]
           P == {i \in 0 .. n : Has(i)}
<1>2. /\ n \in Nat /\ \A i \in 0 .. n : f[i] \in Seq(S)
      /\ f[0] = <<>> /\ \A i \in 1 .. n : b[i] \in Seq(S) /\ f[i] = f[i - 1] \o b[i]
  <2>1. n \in Nat /\ \A i \in 1 .. n : b[i] \in Seq(S)
    OBVIOUS
  <2>2. /\ f \in [0 .. n -> Seq(S)] /\ f[0] = <<>>
        /\ \A i \in 1 .. n : f[i] = f[i - 1] \o b[i]
    BY <1>1 DEF Joined
  <2> HIDE DEF n
  <2> QED BY <2>1, <2>2
<1>3. Ends(b, e)
  <2>1. e \in [0 .. n -> Nat] /\ e[0] = 0
    BY <1>2
  <2>2. ASSUME NEW i \in 1 .. n PROVE e[i] = e[i - 1] + Len(b[i])
    <3> DEFINE s == f[i - 1]
               t == b[i]
    <3>0. i \in 0 .. n /\ i - 1 \in 0 .. n
      BY <1>2
    <3>1. s \in Seq(S) /\ t \in Seq(S) /\ i \in 0 .. n /\ i - 1 \in 0 .. n /\ f[i] = s \o t
      <4> HIDE DEF n
      <4> QED BY <1>2, <3>0
    <3> HIDE DEF s, t
    <3>2. Len(s \o t) = Len(s) + Len(t)
      BY <3>1
    <3> QED BY <3>1, <3>2 DEF s, t
  <2> HIDE DEF e
  <2> QED BY <2>1, <2>2 DEF Ends
<1>4. \A i \in 0 .. n : e[i] = Len(f[i])
  OBVIOUS
<1> HIDE DEF e, n
<1>5. \A i \in 0 .. n : \A j \in 0 .. i : e[j] <= e[i] /\ e[j] \in Nat /\ e[i] \in Nat
  <2>1. \A i \in 0 .. n : e[i] \in Nat
    BY <1>3 DEF Ends, n
  <2> QED BY <1>2, <1>3, <2>1, EndsGrow DEF n
<1>6. 0 \in P
  BY <1>2
<1>7. ASSUME NEW i \in 1 .. n, i - 1 \in P PROVE i \in P
  <2> DEFINE s == f[i - 1]
             t == b[i]
  <2>1. /\ s \in Seq(S) /\ t \in Seq(S) /\ i \in 0 .. n /\ i - 1 \in 0 .. n
        /\ f[i] = s \o t /\ Len(s) = e[i - 1]
    <3>1. i \in 0 .. n /\ i - 1 \in 0 .. n
      BY <1>2
    <3> QED BY <1>2, <1>4, <3>1
  <2> HIDE DEF s
  <2>2. ASSUME NEW k \in 1 .. i, NEW j \in 1 .. Len(b[k]) PROVE f[i][e[k - 1] + j] = b[k][j]
    <3>1. CASE k = i
      <4> HIDE DEF t
      <4>1. j \in 1 .. Len(t)
        BY <3>1 DEF t
      <4>2. (s \o t)[Len(s) + j] = t[j]
        <5>1. s \in Seq(S) /\ t \in Seq(S)
          BY <2>1 DEF t
        <5> QED BY <4>1, <5>1
      <4> QED BY <2>1, <3>1, <4>2 DEF t
    <3>2. CASE k # i
      <4>1. k \in 1 .. i - 1 /\ k \in 0 .. n /\ k - 1 \in 0 .. n /\ k \in 1 .. n
        BY <1>2, <3>2
      <4>2. s[e[k - 1] + j] = b[k][j]
        BY <1>7, <4>1 DEF s
      <4>3. e[k] = e[k - 1] + Len(b[k])
        BY <1>3, <4>1 DEF Ends, n
      <4>4. e[k] <= e[i - 1] /\ e[k - 1] \in Nat /\ e[k] \in Nat /\ e[i - 1] \in Nat
        <5>1. k \in 0 .. i - 1
          BY <4>1
        <5> QED BY <1>5, <2>1, <4>1, <5>1
      <4>5. e[k - 1] + j \in 1 .. Len(s)
        <5>1. Len(b[k]) \in Nat
          BY <1>2, <4>1
        <5>2. Len(s) = e[i - 1]
          BY <2>1
        <5>3. e[k - 1] + j \in 1 .. e[i - 1]
          BY <4>3, <4>4, <5>1, Within
        <5> QED BY <5>2, <5>3
      <4>6. (s \o t)[e[k - 1] + j] = s[e[k - 1] + j]
        <5> HIDE DEF t
        <5> QED BY <2>1, <4>5
      <4> QED BY <2>1, <4>2, <4>6
    <3> QED BY <3>1, <3>2
  <2> QED BY <2>1, <2>2
<1> HIDE DEF P
<1>8. \A i \in 0 .. n : i \in P
  BY <1>2, <1>6, <1>7, UpTo
<1>9. n \in 0 .. n /\ n \in P
  BY <1>2, <1>8
<1>10. Has(n) /\ f[n] \in Seq(S) /\ Len(f[n]) = e[n]
  BY <1>2, <1>4, <1>9 DEF P
<1>11. Lies(S, b, e, f[n])
  BY <1>10 DEF Lies, n
<1> QED BY <1>1, <1>3, <1>11

\* The same, for the ends at hand.
LEMMA FlattenAt ==
  ASSUME NEW S, NEW b \in Seq(Seq(S)), NEW e, Ends(b, e)
  PROVE  Lies(S, b, e, FlattenSeq(b))
<1> DEFINE n == Len(b)
           t == FlattenSeq(b)
<1>1. PICK h : Ends(b, h) /\ Lies(S, b, h, FlattenSeq(b))
  BY FlattenHas
<1>2. n \in Nat /\ \A i \in 0 .. n : e[i] = h[i]
  BY <1>1, EndsUnique
<1> HIDE DEF n, t
<1>3. n \in 0 .. n /\ \A i \in 1 .. n : i - 1 \in 0 .. n
  BY <1>2
<1>4. /\ t \in Seq(S) /\ Len(t) = h[n]
      /\ \A i \in 1 .. n : \A j \in 1 .. Len(b[i]) : t[h[i - 1] + j] = b[i][j]
  BY <1>1 DEF Lies, n, t
<1>5. \A i \in 1 .. n : e[i - 1] = h[i - 1]
  BY <1>2, <1>3
<1>6. \A i \in 1 .. n : \A j \in 1 .. Len(b[i]) : t[e[i - 1] + j] = b[i][j]
  BY <1>4, <1>5
<1>7. Len(t) = e[n]
  BY <1>2, <1>3, <1>4
<1> QED BY <1>4, <1>6, <1>7 DEF n, t, Lies

\* There are such ends.
LEMMA EndsExist ==
  ASSUME NEW S, NEW b \in Seq(Seq(S))
  PROVE  \E e : Ends(b, e)
BY FlattenHas

\* What is known of the ends.
EndsTyped(S, b, e) ==
  /\ Len(b) \in Nat /\ \A i \in 0 .. Len(b) : e[i] \in Nat
  /\ \A i \in 1 .. Len(b) : /\ i \in 0 .. Len(b) /\ i - 1 \in 0 .. Len(b)
                            /\ b[i] \in Seq(S) /\ Len(b[i]) \in Nat
                            /\ e[i - 1] \in Nat /\ e[i] = e[i - 1] + Len(b[i])
                            /\ e[i] <= e[Len(b)]

\* and they are numbers within the whole.
LEMMA EndsType ==
  ASSUME NEW S, NEW b \in Seq(Seq(S)), NEW e, Ends(b, e)
  PROVE  EndsTyped(S, b, e)
<1> DEFINE n == Len(b)
<1>1. n \in Nat /\ \A i \in 1 .. n : b[i] \in Seq(S)
  OBVIOUS
<1>2. e \in [0 .. n -> Nat] /\ \A i \in 1 .. n : e[i] = e[i - 1] + Len(b[i])
  BY DEF Ends
<1>3. \A i \in 0 .. n : \A j \in 0 .. i : e[j] <= e[i]
  BY EndsGrow
<1> HIDE DEF n
<1>4. ASSUME NEW i \in 1 .. n
      PROVE  i \in 0 .. n /\ i - 1 \in 0 .. n /\ n \in 0 .. n /\ i \in 0 .. n
  BY <1>1
<1>5. \A i \in 0 .. n : e[i] \in Nat
  BY <1>2
<1>6. \A i \in 1 .. n : e[i] <= e[n]
  BY <1>3, <1>4
<1>7. \A i \in 1 .. n : b[i] \in Seq(S) /\ Len(b[i]) \in Nat
  BY <1>1
<1> QED BY <1>1, <1>2, <1>4, <1>5, <1>6, <1>7 DEF n, EndsTyped

\* A sequence, cut out of those one behind the other.
LEMMA PieceOut ==
  ASSUME NEW S, NEW b \in Seq(Seq(S)), NEW e, Ends(b, e), NEW i \in 1 .. Len(b)
  PROVE  SubSeq(FlattenSeq(b), e[i - 1] + 1, e[i]) = b[i]
<1> DEFINE t == FlattenSeq(b)
           c == SubSeq(t, e[i - 1] + 1, e[i])
           p == b[i]
           x == e[i - 1]
<1>1. /\ t \in Seq(S) /\ Len(t) = e[Len(b)] /\ \A j \in 1 .. Len(p) : t[x + j] = p[j]
  BY FlattenAt DEF Lies
<1>2. p \in Seq(S) /\ Len(p) \in Nat /\ x \in Nat /\ e[i] = x + Len(p) /\ e[i] <= Len(t)
  <2>1. EndsTyped(S, b, e)
    BY EndsType
  <2>2. /\ b[i] \in Seq(S) /\ Len(b[i]) \in Nat /\ e[i - 1] \in Nat
        /\ e[i] = e[i - 1] + Len(b[i]) /\ e[i] <= e[Len(b)]
    BY <2>1 DEF EndsTyped
  <2> HIDE DEF t
  <2> QED BY <1>1, <2>2
<1> HIDE DEF t, p, x
<1>3. x + 1 \in 1 .. Len(t) + 1 /\ e[i] \in x .. Len(t) /\ Len(t) \in Nat
  BY <1>1, <1>2
<1>4. c = [j \in 1 .. Len(p) |-> t[x + j]]
  <2>1. SubSeq(t, x + 1, e[i]) = [j \in 1 .. e[i] - (x + 1) + 1 |-> t[(x + 1) + j - 1]]
    <3> DEFINE lo == x + 1
               hi == e[i]
    <3>1. lo \in Int /\ hi \in Int
      BY <1>2
    <3> HIDE DEF lo, hi
    <3>2. \A u \in Seq(S), v, w \in Int : SubSeq(u, v, w) = [j \in 1 .. w - v + 1 |-> u[v + j - 1]]
      OBVIOUS
    <3>3. SubSeq(t, lo, hi) = [j \in 1 .. hi - lo + 1 |-> t[lo + j - 1]]
      BY <1>1, <3>1, <3>2
    <3> QED BY <3>3 DEF lo, hi
  <2>2. e[i] - (x + 1) + 1 = Len(p)
    BY <1>2
  <2>3. \A j \in 1 .. Len(p) : (x + 1) + j - 1 = x + j
    BY <1>2
  <2> QED BY <2>1, <2>2, <2>3 DEF x
<1>5. c = [j \in 1 .. Len(p) |-> p[j]]
  BY <1>1, <1>4
<1>6. p = [j \in 1 .. Len(p) |-> p[j]]
  BY <1>2
<1> QED BY <1>5, <1>6 DEF t, p, x

Covered(b, e, q) == \E i \in 1 .. Len(b) : \E j \in 1 .. Len(b[i]) : q = e[i - 1] + j

\* Every place of it is in one of them.
LEMMA EndsCover ==
  ASSUME NEW S, NEW b \in Seq(Seq(S)), NEW e, Ends(b, e), NEW q \in 1 .. e[Len(b)]
  PROVE  Covered(b, e, q)
<1> DEFINE n == Len(b)
           P == {i \in 0 .. n : q <= e[i]}
<1>1. /\ n \in Nat /\ \A i \in 0 .. n : e[i] \in Nat
      /\ \A i \in 1 .. n : i - 1 \in 0 .. n /\ e[i] = e[i - 1] + Len(b[i]) /\ Len(b[i]) \in Nat
  BY EndsType DEF EndsTyped
<1>2. e[0] = 0
  BY DEF Ends
<1> HIDE DEF n
<1>3. PICK i \in P : \A m \in P : i <= m
  <2>1. n \in P /\ P \subseteq Nat
    BY <1>1 DEF n
  <2> HIDE DEF P
  <2> QED BY <2>1, Least
<1>4. i \in 0 .. n /\ q <= e[i] /\ i # 0
  BY <1>2, <1>3
<1>5. i \in 1 .. n /\ i - 1 \in 0 .. n /\ i - 1 \notin P
  BY <1>1, <1>3, <1>4
<1>6. ~(q <= e[i - 1]) /\ e[i - 1] \in Nat /\ e[i] = e[i - 1] + Len(b[i])
  BY <1>1, <1>5
<1>7. q - e[i - 1] \in 1 .. Len(b[i]) /\ q = e[i - 1] + (q - e[i - 1])
  <2>1. q \in Nat /\ Len(b[i]) \in Nat
    BY <1>1, <1>4, <1>5
  <2> HIDE DEF P
  <2> QED BY <1>4, <1>6, <2>1
<1> QED BY <1>5, <1>7 DEF n, Covered

\* And in one place of one of them only.
LEMMA EndsApart ==
  ASSUME NEW S, NEW b \in Seq(Seq(S)), NEW e, Ends(b, e),
         NEW i \in 1 .. Len(b), NEW j \in 1 .. Len(b[i]),
         NEW k \in 1 .. Len(b), NEW m \in 1 .. Len(b[k]), e[i - 1] + j = e[k - 1] + m
  PROVE  i = k /\ j = m
<1>1. /\ e[i - 1] \in Nat /\ e[i] \in Nat /\ e[i] = e[i - 1] + Len(b[i])
      /\ e[k - 1] \in Nat /\ e[k] \in Nat /\ e[k] = e[k - 1] + Len(b[k])
      /\ Len(b[i]) \in Nat /\ Len(b[k]) \in Nat
      /\ i - 1 \in 0 .. Len(b) /\ k - 1 \in 0 .. Len(b) /\ i \in 0 .. Len(b) /\ k \in 0 .. Len(b)
  BY EndsType DEF EndsTyped
<1>2. \A x \in 0 .. Len(b) : \A y \in 0 .. x : e[y] <= e[x]
  BY EndsGrow
<1> DEFINE N(x, y) == e[x - 1] + y \in Nat /\ e[x - 1] < e[x - 1] + y /\ e[x - 1] + y <= e[x]
<1>0. N(i, j) /\ N(k, m)
  <2>0. \A x \in Nat : x <= x
    OBVIOUS
  <2>1. e[i] <= e[i] /\ e[k] <= e[k]
    BY ONLY <1>1, <2>0
  <2>2. N(i, j)
    BY <1>1, <2>1, Within
  <2>3. N(k, m)
    BY <1>1, <2>1, Within
  <2> QED BY <2>2, <2>3
<1>3. CASE i < k
  <2>1. i \in 0 .. k - 1
    BY <1>3
  <2>2. e[i] <= e[k - 1]
    BY <1>1, <1>2, <2>1
  <2>3. e[k - 1] < e[k - 1] + m /\ e[i - 1] + j <= e[i]
    BY <1>0
  <2>4. e[k - 1] + m \in Nat /\ e[i] \in Nat /\ e[k - 1] \in Nat
    BY <1>0, <1>1
  <2>5. e[k - 1] + m <= e[i]
    BY <2>3
  <2> QED BY ONLY <2>2, <2>3, <2>4, <2>5
<1>4. CASE k < i
  <2>1. k \in 0 .. i - 1
    BY <1>4
  <2>2. e[k] <= e[i - 1]
    BY <1>1, <1>2, <2>1
  <2>3. e[i - 1] < e[i - 1] + j /\ e[k - 1] + m <= e[k]
    BY <1>0
  <2>4. e[i - 1] + j \in Nat /\ e[k] \in Nat /\ e[i - 1] \in Nat
    BY <1>0, <1>1
  <2>5. e[i - 1] + j <= e[k]
    BY <2>3
  <2> QED BY ONLY <2>2, <2>3, <2>4, <2>5
<1>5. CASE i = k
  <2>1. e[i - 1] + j = e[i - 1] + m /\ e[i - 1] \in Nat /\ j \in Int /\ m \in Int
    BY <1>1, <1>5
  <2>2. j = m
    BY ONLY <2>1
  <2> QED BY <1>5, <2>2
<1>6. i \in Int /\ k \in Int
  OBVIOUS
<1>7. i < k \/ k < i \/ i = k
  BY ONLY <1>6
<1> QED BY <1>3, <1>4, <1>5, <1>7

\* How long the first ones are.
LEMMA FlattenBegin ==
  ASSUME NEW S, NEW b \in Seq(Seq(S)), NEW e, Ends(b, e), NEW m \in 0 .. Len(b)
  PROVE  Len(FlattenSeq(SubSeq(b, 1, m))) = e[m]
<1> DEFINE c == SubSeq(b, 1, m)
           h == [i \in 0 .. m |-> e[i]]
<1>1. /\ c \in Seq(Seq(S)) /\ Len(c) = m /\ \A i \in 1 .. m : c[i] = b[i]
      /\ m \in Nat /\ m <= Len(b) /\ Len(b) \in Nat
  <2> DEFINE T == Seq(S)
  <2> HIDE DEF T
  <2>1. b \in Seq(T)
    BY DEF T
  <2>2. SubSeq(b, 1, m) \in Seq(T) /\ Len(SubSeq(b, 1, m)) = m
        /\ \A i \in 1 .. m : SubSeq(b, 1, m)[i] = b[i]
    BY <2>1
  <2> QED BY <2>2 DEF T
<1>2. /\ e[0] = 0 /\ e \in [0 .. Len(b) -> Nat]
      /\ \A i \in 1 .. Len(b) : e[i] = e[i - 1] + Len(b[i])
  BY DEF Ends
<1>3. Ends(c, h)
  <2>1. h \in [0 .. m -> Nat] /\ h[0] = 0
    <3>1. \A i \in 0 .. m : i \in 0 .. Len(b)
      BY ONLY <1>1
    <3>2. \A i \in 0 .. m : e[i] \in Nat
      BY <1>2, <3>1
    <3>3. 0 \in 0 .. m
      BY <1>1
    <3> QED BY <1>2, <3>2, <3>3
  <2>2. ASSUME NEW i \in 1 .. m PROVE h[i] = h[i - 1] + Len(c[i])
    <3>1. i \in 1 .. Len(b) /\ i \in 0 .. m /\ i - 1 \in 0 .. m
      BY <1>1
    <3> HIDE DEF c
    <3> QED BY <1>1, <1>2, <3>1
  <2> HIDE DEF c, h
  <2> QED BY <1>1, <2>1, <2>2 DEF Ends
<1> HIDE DEF c
<1>4. Len(FlattenSeq(c)) = h[Len(c)]
  BY <1>1, <1>3, FlattenAt DEF Lies
<1>5. h[m] = e[m]
  BY <1>1
<1> QED BY <1>1, <1>4, <1>5 DEF c

-----------------------------------------------------------------------------
(* What is written in a file, and read out of it again.                       *)

\* Padding never goes back.
LEMMA Aligned ==
  \A n \in Nat, a \in Nat \ {0} : AlignUp(n, a) \in Nat /\ AlignUp(n, a) >= n
BY DEF AlignUp

\* `at` is where data of these sizes ends, one behind the other, from `from` on.
Advances(n, size, a, from, at) ==
  /\ at \in [0 .. n -> Nat] /\ at[0] = from
  /\ \A k \in 1 .. n : at[k] = AlignUp(at[k - 1] + size[k], a)

\* Sizes can always be laid one behind the other.
LEMMA AdvanceExists ==
  ASSUME NEW n \in Nat, NEW size, \A k \in 1 .. n : size[k] \in Nat,
         NEW a \in Nat \ {0}, NEW from \in Nat
  PROVE  \E at : Advances(n, size, a, from, at)
<1> DEFINE step == [k \in 1 .. n |-> [u \in Nat |-> AlignUp(u + size[k], a)]]
<1>1. ASSUME NEW k \in 1 .. n, NEW u \in Nat PROVE AlignUp(u + size[k], a) \in Nat
  <2>1. size[k] \in Nat
    OBVIOUS
  <2>2. u + size[k] \in Nat
    BY <2>1
  <2> QED BY <2>2, Aligned
<1>2. /\ step \in StepFunctions(n, Nat)
      /\ \A k \in 1 .. n, u \in Nat : step[k][u] = AlignUp(u + size[k], a)
  BY <1>1 DEF StepFunctions
<1> HIDE DEF step
<1>3. PICK at \in [0 .. n -> Nat] :
        \A i \in 0 .. n : at[i] = IF i = 0 THEN from ELSE step[i][at[i - 1]]
  <2>1. Solvable(n, Nat, from, step)
    BY <1>2, RecursionExists
  <2> QED BY <2>1 DEF Solvable
<1>4. ASSUME NEW k \in 1 .. n PROVE at[k] = AlignUp(at[k - 1] + size[k], a)
  <2>1. k \in 0 .. n /\ k - 1 \in 0 .. n /\ k # 0
    OBVIOUS
  <2>2. at[k - 1] \in Nat
    BY <2>1
  <2> QED BY <1>2, <1>3, <2>1, <2>2
<1>5. at[0] = from
  BY <1>3
<1> QED BY <1>4, <1>5 DEF Advances

\* What the recursion of Laid looks for.
Laying(sizes, a, at) ==
  at = [k \in 0 .. Len(sizes) |-> IF k = 0 THEN 0 ELSE AlignUp(at[k - 1] + sizes[k], a)]

\* Laid is what it says of itself: its recursion has a solution.
LEMMA LaidIs ==
  ASSUME NEW sizes \in Seq(Nat), NEW a \in Nat \ {0}
  PROVE  Advances(Len(sizes), sizes, a, 0, Laid(sizes, a))
<1> DEFINE n == Len(sizes)
           at == CHOOSE at : Laying(sizes, a, at)
<1>1. n \in Nat /\ \A k \in 1 .. n : sizes[k] \in Nat
  OBVIOUS
<1>2. PICK h : Advances(n, sizes, a, 0, h)
  <2> HIDE DEF n
  <2> QED BY <1>1, AdvanceExists
<1>3. Laying(sizes, a, h)
  <2>1. \A k \in 0 .. n : h[k] = IF k = 0 THEN 0 ELSE AlignUp(h[k - 1] + sizes[k], a)
    BY <1>2 DEF Advances
  <2>2. h \in [0 .. n -> Nat]
    BY <1>2 DEF Advances
  <2> QED BY <2>1, <2>2 DEF Laying
<1>4. Laying(sizes, a, at)
  BY <1>3
<1>5. Laid(sizes, a) = at
  BY DEF Laid, Laying
<1> HIDE DEF at, n
<1>6. \A k \in 0 .. n : at[k] = IF k = 0 THEN 0 ELSE AlignUp(at[k - 1] + sizes[k], a)
  BY <1>4 DEF Laying, n
<1>7. at[0] = 0 /\ \A k \in 1 .. n : at[k] = AlignUp(at[k - 1] + sizes[k], a)
  BY <1>1, <1>6
<1> DEFINE P == {k \in 0 .. n : at[k] \in Nat}
<1>8. \A k \in 1 .. n : k - 1 \in P => k \in P
  <2> SUFFICES ASSUME NEW k \in 1 .. n, at[k - 1] \in Nat PROVE at[k] \in Nat
    BY <1>1
  <2>1. at[k - 1] + sizes[k] \in Nat
    BY <1>1
  <2> QED BY <1>7, <2>1, Aligned
<1>9. \A k \in 0 .. n : k \in P
  <2>1. 0 \in P
    BY <1>1, <1>7
  <2> HIDE DEF P
  <2> QED BY <1>1, <1>8, <2>1, UpTo
<1>10. at \in [0 .. n -> Nat]
  <2>1. at = [k \in 0 .. n |-> IF k = 0 THEN 0 ELSE AlignUp(at[k - 1] + sizes[k], a)]
    BY <1>4 DEF Laying, n
  <2> QED BY <1>6, <1>9, <2>1
<1> QED BY <1>5, <1>7, <1>10 DEF Advances, n

\* What the recursion of WrittenTo looks for.
Writing(from, picked, a, pos) ==
  pos = [k \in 0 .. Len(picked) |->
           IF k = 0 THEN from ELSE Padded(pos[k - 1], picked[k].bytes, a)]

\* The writer goes on by the size of each tensor, padded.
LEMMA WrittenIs ==
  ASSUME NEW S, NEW picked, Len(picked) \in Nat, NEW a \in Nat \ {0}, NEW from \in Nat,
         \A k \in 1 .. Len(picked) : picked[k].bytes \in Seq(S)
  PROVE  Advances(Len(picked), [k \in 1 .. Len(picked) |-> Len(picked[k].bytes)], a, from,
                  WrittenTo(from, picked, a))
<1> DEFINE n == Len(picked)
           size == [k \in 1 .. n |-> Len(picked[k].bytes)]
           at == CHOOSE at : Writing(from, picked, a, at)
           V(f, k) == IF k = 0 THEN from ELSE AlignUp(f[k - 1] + size[k], a)
<1>1. n \in Nat /\ \A k \in 1 .. n : size[k] \in Nat /\ size[k] = Len(picked[k].bytes)
  <2>1. ASSUME NEW k \in 1 .. n PROVE Len(picked[k].bytes) \in Nat
    <3>1. picked[k].bytes \in Seq(S)
      OBVIOUS
    <3> QED BY <3>1
  <2> QED BY <2>1
<1> HIDE DEF size
<1>2. PICK h : Advances(n, size, a, from, h)
  <2> HIDE DEF n
  <2> QED BY <1>1, AdvanceExists
<1>3. ASSUME NEW f
      PROVE  Writing(from, picked, a, f) <=> f = [k \in 0 .. n |-> V(f, k)]
  <2>1. ASSUME NEW k \in 0 .. n
        PROVE  V(f, k) = IF k = 0 THEN from ELSE Padded(f[k - 1], picked[k].bytes, a)
    <3>1. k # 0 => k \in 1 .. n
      BY <1>1
    <3> QED BY <1>1, <3>1 DEF Padded
  <2> HIDE DEF V, n
  <2> QED BY <2>1 DEF Writing, n
<1>4. Writing(from, picked, a, h)
  <2>1. \A k \in 0 .. n : h[k] = V(h, k)
    BY <1>2 DEF Advances
  <2>2. h \in [0 .. n -> Nat]
    BY <1>2 DEF Advances
  <2> HIDE DEF V
  <2>3. h = [k \in 0 .. n |-> V(h, k)]
    BY <2>1, <2>2
  <2> QED BY <1>3, <2>3
<1>5. Writing(from, picked, a, at)
  BY <1>4
<1>6. WrittenTo(from, picked, a) = at
  BY DEF WrittenTo, Writing
<1> HIDE DEF at, n
<1>7. at = [k \in 0 .. n |-> V(at, k)]
  BY <1>3, <1>5
<1>8. at[0] = from /\ \A k \in 1 .. n : at[k] = AlignUp(at[k - 1] + size[k], a)
  <2>1. \A k \in 0 .. n : at[k] = V(at, k)
    <3> HIDE DEF V
    <3> QED BY <1>7
  <2> QED BY <1>1, <2>1
<1> DEFINE P == {k \in 0 .. n : at[k] \in Nat}
<1>9. \A k \in 1 .. n : k - 1 \in P => k \in P
  <2> SUFFICES ASSUME NEW k \in 1 .. n, at[k - 1] \in Nat PROVE at[k] \in Nat
    BY <1>1
  <2>1. at[k - 1] + size[k] \in Nat
    BY <1>1
  <2> QED BY <1>8, <2>1, Aligned
<1>10. \A k \in 0 .. n : k \in P
  <2>1. 0 \in P
    BY <1>1, <1>8
  <2> HIDE DEF P
  <2> QED BY <1>1, <1>9, <2>1, UpTo
<1>11. at \in [0 .. n -> Nat]
  <2> HIDE DEF V
  <2>1. at = [k \in 0 .. n |-> at[k]]
    BY <1>7
  <2> QED BY <1>10, <2>1
<1>12. Advances(n, size, a, from, at)
  BY <1>8, <1>11 DEF Advances
<1> QED BY <1>6, <1>12 DEF n, size

\* What grows by no less than the sizes.
LEMMA AdvanceGrows ==
  ASSUME NEW n \in Nat, NEW size, \A k \in 1 .. n : size[k] \in Nat,
         NEW a \in Nat \ {0}, NEW from, NEW at, Advances(n, size, a, from, at)
  PROVE  \A k \in 1 .. n : /\ at[k] \in Nat /\ at[k - 1] \in Nat
                           /\ at[k - 1] + size[k] <= at[k]
<1> SUFFICES ASSUME NEW k \in 1 .. n
             PROVE at[k] \in Nat /\ at[k - 1] \in Nat /\ at[k - 1] + size[k] <= at[k]
  OBVIOUS
<1>1. k \in 0 .. n /\ k - 1 \in 0 .. n /\ size[k] \in Nat
  OBVIOUS
<1>2. at[k] \in Nat /\ at[k - 1] \in Nat /\ at[k] = AlignUp(at[k - 1] + size[k], a)
  BY <1>1 DEF Advances
<1>3. at[k - 1] + size[k] \in Nat
  BY <1>1, <1>2
<1> QED BY <1>2, <1>3, Aligned

\* The least and the greatest of a set.
LEMMA LeastIs ==
  ASSUME NEW S, S \subseteq Nat, NEW x \in S, \A y \in S : x <= y
  PROVE  Min(S) = x
<1>1. \A y \in S : x =< y
  OBVIOUS
<1>2. \A z \in S : (\A y \in S : z =< y) => z = x
  <2>1. ASSUME NEW z \in S, \A y \in S : z =< y PROVE z = x
    <3>1. z <= x /\ x <= z /\ x \in Nat /\ z \in Nat
      BY <2>1
    <3> QED BY <3>1
  <2> QED BY <2>1
<1> QED BY <1>1, <1>2 DEF Min

\* And its greatest.
LEMMA GreatestIs ==
  ASSUME NEW S, S \subseteq Nat, NEW x \in S, \A y \in S : y <= x
  PROVE  Max(S) = x
<1>1. \A y \in S : x >= y
  <2>1. ASSUME NEW y \in S PROVE x >= y
    <3>1. y <= x /\ x \in Nat /\ y \in Nat
      OBVIOUS
    <3> QED BY <3>1
  <2> QED BY <2>1
<1>2. \A z \in S : (\A y \in S : z >= y) => z = x
  <2>1. ASSUME NEW z \in S, \A y \in S : z >= y PROVE z = x
    <3>1. z >= x /\ z <= x /\ x \in Nat /\ z \in Nat
      BY <2>1
    <3> QED BY <3>1
  <2> QED BY <2>1
<1> QED BY <1>1, <1>2 DEF Max

\* A set of the numbers up to n has a greatest.
LEMMA Greatest ==
  ASSUME NEW n \in Nat, NEW S, S \subseteq 1 .. n, S # {}
  PROVE  Max(S) \in S
<1> DEFINE R == {x \in 0 .. n : n - x \in S}
<1>1. R \subseteq Nat /\ R # {}
  <2>1. PICK y \in S : TRUE
    OBVIOUS
  <2>2. n - y \in 0 .. n /\ n - (n - y) = y
    OBVIOUS
  <2>3. n - y \in R
    BY <2>2
  <2>4. R \subseteq Nat
    OBVIOUS
  <2> HIDE DEF R
  <2> QED BY <2>3, <2>4
<1> HIDE DEF R
<1>2. PICK x \in R : \A z \in R : x <= z
  BY <1>1, Least
<1>3. x \in 0 .. n /\ n - x \in S
  BY <1>2 DEF R
<1>4. \A y \in S : y <= n - x
  <2> SUFFICES ASSUME NEW y \in S PROVE y <= n - x
    OBVIOUS
  <2>1. n - y \in 0 .. n /\ n - (n - y) = y /\ y \in 1 .. n
    OBVIOUS
  <2>2. n - y \in R
    BY <2>1 DEF R
  <2>3. x <= n - y
    BY <1>2, <2>2
  <2> QED BY <1>3, <2>1, <2>3
<1>5. Max(S) = n - x
  <2>1. S \subseteq Nat
    OBVIOUS
  <2> QED BY <1>3, <1>4, <2>1, GreatestIs
<1> QED BY <1>3, <1>5

\* The value of a key that is there with one value, and of one that is not.
KvHolds(f, key, v) ==
  /\ Len(f.kv) \in Nat /\ DOMAIN f.kv = 1 .. Len(f.kv)
  /\ \E h \in DOMAIN f.kv : f.kv[h].key = key
  /\ \A i \in DOMAIN f.kv : f.kv[i].key = key => f.kv[i].value = v

\* An entry that is there is read,
LEMMA KvHit ==
  ASSUME NEW f, NEW key, NEW default, NEW v, KvHolds(f, key, v)
  PROVE  KvValue(f, key, default) = v
<1> DEFINE hits == {i \in DOMAIN f.kv : f.kv[i].key = key}
<1>1. hits \subseteq 1 .. Len(f.kv) /\ hits # {} /\ Len(f.kv) \in Nat
  BY DEF KvHolds
<1>2. KvValue(f, key, default) = f.kv[Max(hits)].value
  BY <1>1 DEF KvValue
<1>3. Max(hits) \in hits
  <2> HIDE DEF hits
  <2> QED BY <1>1, Greatest
<1> QED BY <1>2, <1>3 DEF KvHolds

\* and the default is, of one that is not.
LEMMA KvMissing ==
  ASSUME NEW f, NEW key, NEW default, \A i \in DOMAIN f.kv : f.kv[i].key # key
  PROVE  KvValue(f, key, default) = default
BY DEF KvValue

\* Padding is as long as it should be.
LEMMA ZerosAre ==
  ASSUME NEW S, "0" \in S, NEW z \in Nat
  PROVE  Zeros(z) \in Seq(S) /\ Len(Zeros(z)) = z
BY DEF Zeros

\* What stands behind the header and its padding.
LEMMA BlobIs ==
  ASSUME NEW f, NEW S, "0" \in S, NEW flat \in Seq(S), HeaderLen(f) \in Nat,
         NEW a \in Nat \ {0}, Alignment(f) = a,
         f.body = Zeros(AlignUp(HeaderLen(f), a) - HeaderLen(f)) \o flat
  PROVE  Blob(f) = flat
<1> DEFINE h == HeaderLen(f)
           z == AlignUp(h, a) - h
           s == Zeros(z)
<1>1. z \in Nat
  <2>1. AlignUp(h, a) \in Nat /\ AlignUp(h, a) >= h
    BY Aligned
  <2> HIDE DEF h
  <2> QED BY <2>1 DEF h
<1>2. s \in Seq(S) /\ Len(s) = z
  <2> HIDE DEF z
  <2> QED BY <1>1, ZerosAre
<1>3. Blob(f) = SubSeq(s \o flat, z + 1, Len(s \o flat))
  BY DEF Blob, DataOffset
<1> HIDE DEF s, z
<1>4. SubSeq(s \o flat, Len(s) + 1, Len(s \o flat)) = flat
  BY <1>2
<1> QED BY <1>2, <1>3, <1>4

\* A tensor reads the piece that its offset is the beginning of, if the pieces are
\* not empty, and every one of them is a tensor's.
LaidOut(f, S, b, e, place) ==
  /\ b \in Seq(Seq(S)) /\ Ends(b, e) /\ \A k \in 1 .. Len(b) : b[k] # <<>>
  /\ Blob(f) = FlattenSeq(b) /\ DOMAIN f.index = 1 .. Len(b)
  /\ place \in [1 .. Len(b) -> 1 .. Len(b)]
  /\ \A k \in 1 .. Len(b) : \E i \in 1 .. Len(b) : place[i] = k
  /\ \A i \in 1 .. Len(b) : f.index[i].offset = e[place[i] - 1]

\* What the parser's way of finding a tensor's end comes to: the next offset in the data.
LEMMA LayoutReads ==
  ASSUME NEW f, NEW S, NEW b, NEW e, NEW place, LaidOut(f, S, b, e, place),
         NEW i \in 1 .. Len(b)
  PROVE  TensorBytes(f, i) = b[place[i]]
<1> DEFINE n == Len(b)
           p == place[i]
           Offsets == {f.index[j].offset : j \in DOMAIN f.index}
           Further == {x \in Offsets : x > f.index[i].offset}
           Stops == {Len(Blob(f))} \cup Further
<1>0. /\ b \in Seq(Seq(S)) /\ Ends(b, e) /\ \A k \in 1 .. Len(b) : b[k] # <<>>
      /\ Blob(f) = FlattenSeq(b) /\ DOMAIN f.index = 1 .. Len(b)
      /\ place \in [1 .. Len(b) -> 1 .. Len(b)]
      /\ \A k \in 1 .. Len(b) : \E j \in 1 .. Len(b) : place[j] = k
      /\ \A j \in 1 .. Len(b) : f.index[j].offset = e[place[j] - 1]
  BY DEF LaidOut
<1>1. /\ n \in Nat /\ \A k \in 0 .. n : e[k] \in Nat
      /\ \A k \in 1 .. n : /\ k - 1 \in 0 .. n /\ k \in 0 .. n /\ n \in 0 .. n
                           /\ e[k] = e[k - 1] + Len(b[k]) /\ e[k] <= e[n]
                           /\ b[k] \in Seq(S) /\ Len(b[k]) \in Nat
  <2>1. \A k \in 1 .. n : n \in 0 .. n
    OBVIOUS
  <2>2. EndsTyped(S, b, e)
    BY <1>0, EndsType
  <2> QED BY ONLY <2>1, <2>2 DEF EndsTyped
<1>2. \A k \in 1 .. n : e[k - 1] < e[k]
  <2> SUFFICES ASSUME NEW k \in 1 .. n PROVE e[k - 1] < e[k]
    OBVIOUS
  <2> DEFINE s == b[k]
  <2>0. e[k] = e[k - 1] + Len(b[k])
    BY <1>1
  <2>1. s \in Seq(S) /\ s # <<>>
    BY <1>0, <1>1
  <2> HIDE DEF s
  <2>2. Len(s) > 0
    BY <2>1
  <2>3. e[k - 1] \in Nat /\ e[k] \in Nat /\ Len(s) \in Nat
    <3>1. k \in 0 .. n /\ k - 1 \in 0 .. n
      BY <1>1
    <3> QED BY ONLY <1>1, <2>1, <3>1
  <2>4. e[k] = e[k - 1] + Len(s)
    BY <2>0 DEF s
  <2> QED BY ONLY <2>2, <2>3, <2>4
<1>3. p \in 1 .. n /\ f.index[i].offset = e[p - 1]
  BY <1>0
<1>4. Len(Blob(f)) = e[n]
  BY <1>0, FlattenAt DEF Lies
<1>5. \A k \in 0 .. n : \A j \in 0 .. k : e[j] <= e[k]
  BY <1>0, EndsGrow
<1> HIDE DEF p, n
<1>6. e[p] \in Stops
  <2>1. CASE p = n
    BY <1>4, <2>1
  <2>2. CASE p # n
    <3>1. p + 1 \in 1 .. n /\ (p + 1) - 1 = p
      BY <1>1, <1>3, <2>2
    <3>2. PICK j \in 1 .. n : place[j] = p + 1
      BY <1>0, <3>1 DEF n
    <3>3. j \in DOMAIN f.index /\ f.index[j].offset = e[p]
      <4>1. j \in DOMAIN f.index /\ f.index[j].offset = e[place[j] - 1]
        BY <1>0, <3>2 DEF n
      <4> QED BY <3>1, <3>2, <4>1
    <3>4. e[p] > e[p - 1]
      <4>1. e[p - 1] < e[p] /\ e[p] \in Nat /\ e[p - 1] \in Nat
        BY <1>1, <1>2, <1>3
      <4> QED BY <4>1
    <3>5. e[p] \in Offsets
      BY <3>3
    <3> QED BY <1>3, <3>4, <3>5
  <2> QED BY <2>1, <2>2
<1>7. \A x \in Stops : e[p] <= x /\ x \in Nat
  <2>1. e[p] <= e[n] /\ e[n] \in Nat
    BY <1>1, <1>3
  <2>2. ASSUME NEW x \in Further PROVE e[p] <= x /\ x \in Nat
    <3>1. PICK j \in 1 .. n : x = f.index[j].offset
      BY <1>0, <2>2 DEF n
    <3>2. place[j] \in 1 .. n /\ x = e[place[j] - 1] /\ x > e[p - 1]
      BY <1>0, <1>3, <3>1 DEF n
    <3> DEFINE q == place[j] - 1
    <3>3. q \in 0 .. n /\ e[q] \in Nat /\ p - 1 \in 0 .. n /\ e[p - 1] \in Nat /\ p \in 0 .. n
      BY <1>1, <1>3, <3>2
    <3> HIDE DEF q
    <3>4. ~(q <= p - 1)
      <4>1. ASSUME q <= p - 1 PROVE FALSE
        <5>1. q \in 0 .. p - 1
          BY <3>3, <4>1
        <5>2. e[q] <= e[p - 1]
          BY <1>5, <3>3, <5>1
        <5>3. x = e[q]
          BY <3>2 DEF q
        <5> QED BY ONLY <3>2, <3>3, <5>2, <5>3
      <4> QED BY <4>1
    <3>5. p \in 0 .. q
      BY <1>3, <3>3, <3>4
    <3>6. e[p] <= e[q]
      BY <1>5, <3>3, <3>5
    <3> QED BY <3>2, <3>3, <3>6 DEF q
  <2> HIDE DEF Further
  <2> QED BY <1>4, <2>1, <2>2
<1>8. NextOffset(f, i) = e[p]
  <2>1. NextOffset(f, i) = Min(Stops)
    BY DEF NextOffset
  <2>2. Stops \subseteq Nat
    BY <1>7
  <2> HIDE DEF Stops
  <2> QED BY <1>6, <1>7, <2>1, <2>2, LeastIs
<1>9. TensorBytes(f, i) = SubSeq(FlattenSeq(b), e[p - 1] + 1, e[p])
  BY <1>0, <1>3, <1>8 DEF TensorBytes
<1>10. SubSeq(FlattenSeq(b), e[p - 1] + 1, e[p]) = b[p]
  <2>1. p \in 1 .. Len(b) /\ b \in Seq(Seq(S)) /\ Ends(b, e)
    BY <1>0, <1>3 DEF n
  <2> QED BY ONLY <2>1, PieceOut
<1> QED BY <1>9, <1>10 DEF p

-----------------------------------------------------------------------------
(* The GGUF that is downloaded.                                               *)

Names == [stem : STRING, layer : Int, part : STRING]
Count(g) == Len(g.tensors)

\* What is known of a GGUF's tensors, and of the order of their data.
TensorsOK(g) ==
  /\ Count(g) \in Nat /\ DOMAIN g.tensors = 1 .. Count(g)
  /\ \A i \in 1 .. Count(g) :
       /\ g.tensors[i] \in [name : Names, data : Seq(STRING)]
       /\ g.tensors[i].name \in Names /\ g.tensors[i].data \in Seq(STRING)
       /\ g.tensors[i].data # <<>>
       /\ g.tensors[i].name.layer \in
            IF g.tensors[i].name.stem = "blk" THEN 0 .. g.layers - 1 ELSE {-1}
  /\ \A i, j \in 1 .. Count(g) : i # j => g.tensors[i].name # g.tensors[j].name
  /\ \A l \in 0 .. g.layers - 1 : \E i \in 1 .. Count(g) :
       g.tensors[i].name.stem = "blk" /\ g.tensors[i].name.layer = l

OrderOK(g) ==
  /\ g.order \in [1 .. Count(g) -> 1 .. Count(g)]
  /\ \A i, j \in 1 .. Count(g) : i # j => g.order[i] # g.order[j]
  /\ \A i \in 1 .. Count(g) : \E k \in 1 .. Count(g) : g.order[k] = i

\* What is assumed of a model, by name.
LEMMA FileIs ==
  ASSUME NEW g \in Files
  PROVE  /\ g.layers \in Nat \ {0} /\ g.alignment \in Nat \ {0}
         /\ g.counted \in BOOLEAN /\ g.tail \in BOOLEAN
         /\ TensorsOK(g) /\ OrderOK(g)
<1>1. /\ g.layers \in Nat \ {0} /\ g.alignment \in Nat \ {0}
      /\ g.counted \in BOOLEAN /\ g.tail \in BOOLEAN
  BY FormatAssumption
<1>2. OrderOK(g)
  BY FormatAssumption DEF OrderOK, Count
<1>3. TensorsOK(g)
  <2>1. g.tensors \in Seq([name : Names, data : Seq(STRING)])
    BY FormatAssumption DEF Names
  <2>2. /\ \A i \in 1 .. Count(g) : g.tensors[i].data # <<>>
        /\ \A i \in 1 .. Count(g) :
             g.tensors[i].name.layer \in
               IF g.tensors[i].name.stem = "blk" THEN 0 .. g.layers - 1 ELSE {-1}
    BY FormatAssumption DEF Count
  <2>3. /\ \A i, j \in 1 .. Count(g) : i # j => g.tensors[i].name # g.tensors[j].name
        /\ \A l \in 0 .. g.layers - 1 : \E i \in 1 .. Count(g) :
             g.tensors[i].name.stem = "blk" /\ g.tensors[i].name.layer = l
    BY FormatAssumption DEF Count
  <2>4. /\ Count(g) \in Nat /\ DOMAIN g.tensors = 1 .. Count(g)
        /\ \A i \in 1 .. Count(g) : g.tensors[i] \in [name : Names, data : Seq(STRING)]
    <3> DEFINE T == [name : Names, data : Seq(STRING)]
               ts == g.tensors
    <3>1. ts \in Seq(T)
      BY <2>1
    <3> HIDE DEF T, ts
    <3>2. Len(ts) \in Nat /\ DOMAIN ts = 1 .. Len(ts) /\ \A i \in 1 .. Len(ts) : ts[i] \in T
      BY <3>1
    <3> QED BY <3>2 DEF Count, T, ts
  <2>5. \A i \in 1 .. Count(g) : g.tensors[i].name \in Names /\ g.tensors[i].data \in Seq(STRING)
    BY <2>4
  <2> QED BY <2>2, <2>3, <2>4, <2>5 DEF TensorsOK
<1> QED BY <1>1, <1>2, <1>3

\* The header's entries.
Keys == {"architecture", "block_count", "alignment", "has_embed", "has_head"}
Entries == [key : Keys, value : Int \cup BOOLEAN]

\* What a header says: how many layers there are, if they are counted, and the
\* alignment if it is not the default.
KvOK(g, kv, layers) ==
  /\ kv \in Seq(Entries)
  /\ \A i \in 1 .. Len(kv) : kv[i].key = "block_count" => g.counted /\ kv[i].value = layers
  /\ g.counted => \E i \in 1 .. Len(kv) : kv[i].key = "block_count"
  /\ \A i \in 1 .. Len(kv) :
       kv[i].key = "alignment" => kv[i].value = g.alignment /\ g.alignment # DefaultAlignment
  /\ g.alignment # DefaultAlignment => \E i \in 1 .. Len(kv) : kv[i].key = "alignment"

\* t is s and x.
Grown(S, s, x, t) ==
  /\ t \in Seq(S) /\ Len(t) = Len(s) + 1 /\ Len(s) \in Nat
  /\ \A i \in 1 .. Len(s) : t[i] = s[i]
  /\ t[Len(s) + 1] = x

\* An entry added to a header.
LEMMA Behind ==
  ASSUME NEW S, NEW s \in Seq(S), NEW x \in S
  PROVE  Grown(S, s, x, s \o <<x>>)
<1>1. <<x>> \in Seq(S) /\ Len(<<x>>) = 1 /\ <<x>>[1] = x
  OBVIOUS
<1>2. Len(s) \in Nat
  OBVIOUS
<1> QED BY <1>1, <1>2, ConcatProperties DEF Grown

\* The header that llama.cpp's tools write.
LEMMA GgufKvIs ==
  ASSUME NEW g \in Files
  PROVE  KvOK(g, GgufKv(g), g.layers) /\ GgufKv(g) # <<>>
<1> DEFINE A == [key |-> "architecture", value |-> 0]
           B == [key |-> "block_count", value |-> g.layers]
           C == [key |-> "alignment", value |-> g.alignment]
<1>1. /\ A \in Entries /\ B \in Entries /\ C \in Entries
      /\ A.key = "architecture" /\ B.key = "block_count" /\ C.key = "alignment"
      /\ B.value = g.layers /\ C.value = g.alignment
  <2>1. g.layers \in Int /\ g.alignment \in Int
    BY FileIs
  <2>2. A \in Entries
    BY DEF Entries, Keys
  <2>3. B \in Entries
    BY <2>1 DEF Entries, Keys
  <2>4. C \in Entries
    BY <2>1 DEF Entries, Keys
  <2>5. /\ A.key = "architecture" /\ B.key = "block_count" /\ C.key = "alignment"
        /\ B.value = g.layers /\ C.value = g.alignment
    OBVIOUS
  <2> QED BY ONLY <2>2, <2>3, <2>4, <2>5
<1>2. GgufKv(g) = <<A>> \o (IF g.counted THEN <<B>> ELSE <<>>)
                   \o (IF g.alignment = DefaultAlignment THEN <<>> ELSE <<C>>)
  BY DEF GgufKv
<1> HIDE DEF A, B, C
<1> DEFINE a == <<A>>
           ab == a \o <<B>>
           ac == a \o <<C>>
           abc == ab \o <<C>>
<1>7. a \in Seq(Entries) /\ Len(a) = 1 /\ a[1] = A /\ a \o <<>> = a
  <2>1. a \in Seq(Entries) /\ Len(a) = 1 /\ a[1] = A
    BY <1>1
  <2> QED BY <2>1, ConcatEmptySeq
<1> HIDE DEF a
<1>8. /\ ab \in Seq(Entries) /\ Len(ab) = 2 /\ ab[1] = A /\ ab[2] = B /\ ab \o <<>> = ab
      /\ ac \in Seq(Entries) /\ Len(ac) = 2 /\ ac[1] = A /\ ac[2] = C
  <2>1. Grown(Entries, a, B, ab)
    BY <1>1, <1>7, Behind
  <2>2. Grown(Entries, a, C, ac)
    BY <1>1, <1>7, Behind
  <2> HIDE DEF ab, ac
  <2>3. ab \o <<>> = ab
    BY <2>1, ConcatEmptySeq DEF Grown
  <2> QED BY <1>7, <2>1, <2>2, <2>3 DEF Grown
<1> HIDE DEF ab, ac
<1>9. abc \in Seq(Entries) /\ Len(abc) = 3 /\ abc[1] = A /\ abc[2] = B /\ abc[3] = C
  <2>1. Grown(Entries, ab, C, abc)
    BY <1>1, <1>8, Behind
  <2> HIDE DEF abc
  <2> QED BY <1>8, <2>1 DEF Grown
<1> HIDE DEF abc
<1>3. CASE g.counted /\ g.alignment = DefaultAlignment
  <2> DEFINE kv == ab
  <2>1. GgufKv(g) = kv
    BY <1>2, <1>7, <1>8, <1>3 DEF ab, a
  <2>2. kv \in Seq(Entries) /\ \A i \in 1 .. Len(kv) : kv[i] = A \/ kv[i] = B
    BY <1>7, <1>8, <1>9
  <2>3. 1 \in 1 .. Len(kv) /\ kv[1] = A /\ 2 \in 1 .. Len(kv) /\ kv[2] = B
    BY <1>7, <1>8, <1>9
  <2>4. kv # <<>>
    BY <2>3
  <2> HIDE DEF kv
  <2> QED BY <1>1, <1>3, <2>1, <2>2, <2>3, <2>4 DEF KvOK
<1>4. CASE g.counted /\ g.alignment # DefaultAlignment
  <2> DEFINE kv == abc
  <2>1. GgufKv(g) = kv
    BY <1>2, <1>7, <1>8, <1>4 DEF abc, ab, a
  <2>2. kv \in Seq(Entries) /\ \A i \in 1 .. Len(kv) : kv[i] = A \/ kv[i] = B \/ kv[i] = C
    BY <1>7, <1>8, <1>9
  <2>3. 1 \in 1 .. Len(kv) /\ kv[1] = A /\ 2 \in 1 .. Len(kv) /\ kv[2] = B /\ 3 \in 1 .. Len(kv) /\ kv[3] = C
    BY <1>7, <1>8, <1>9
  <2>4. kv # <<>>
    BY <2>3
  <2> HIDE DEF kv
  <2> QED BY <1>1, <1>4, <2>1, <2>2, <2>3, <2>4 DEF KvOK
<1>5. CASE ~g.counted /\ g.alignment = DefaultAlignment
  <2> DEFINE kv == a
  <2>1. GgufKv(g) = kv
    BY <1>2, <1>7, <1>8, <1>5 DEF a
  <2>2. kv \in Seq(Entries) /\ \A i \in 1 .. Len(kv) : kv[i] = A
    BY <1>7, <1>8, <1>9
  <2>3. 1 \in 1 .. Len(kv) /\ kv[1] = A
    BY <1>7, <1>8, <1>9
  <2>4. kv # <<>>
    BY <2>3
  <2> HIDE DEF kv
  <2> QED BY <1>1, <1>5, <2>1, <2>2, <2>3, <2>4 DEF KvOK
<1>6. CASE ~g.counted /\ g.alignment # DefaultAlignment
  <2> DEFINE kv == ac
  <2>1. GgufKv(g) = kv
    BY <1>2, <1>7, <1>8, <1>6 DEF ac, a
  <2>2. kv \in Seq(Entries) /\ \A i \in 1 .. Len(kv) : kv[i] = A \/ kv[i] = C
    BY <1>7, <1>8, <1>9
  <2>3. 1 \in 1 .. Len(kv) /\ kv[1] = A /\ 2 \in 1 .. Len(kv) /\ kv[2] = C
    BY <1>7, <1>8, <1>9
  <2>4. kv # <<>>
    BY <2>3
  <2> HIDE DEF kv
  <2> QED BY <1>1, <1>6, <2>1, <2>2, <2>3, <2>4 DEF KvOK
<1> QED BY <1>3, <1>4, <1>5, <1>6

\* Pieces that are as long as `at` goes on, but for the last, begin where it says.
PaddedBy(S, n, data, pad, a, from, size, at) ==
  /\ "0" \in S /\ n \in Nat /\ a \in Nat \ {0}
  /\ \A k \in 1 .. n : data[k] \in Seq(S) /\ data[k] # <<>> /\ pad[k] \in Nat
  /\ \A k \in 1 .. n : size[k] = Len(data[k])
  /\ Advances(n, size, a, from, at)
  /\ \A k \in 1 .. n : k # n => pad[k] = at[k] - at[k - 1] - Len(data[k])

PaddedPieces(n, data, pad) == [k \in 1 .. n |-> data[k] \o Zeros(pad[k])]

\* b has n pieces, and they begin where `at` says, from `from` on.
Begins(S, b, n, at, from, e) ==
  /\ b \in Seq(Seq(S)) /\ Len(b) = n /\ \A k \in 1 .. n : b[k] # <<>>
  /\ Ends(b, e) /\ \A k \in 1 .. n : e[k - 1] = at[k - 1] - from

\* Padded pieces begin where the positions say.
LEMMA PaddedEnds ==
  ASSUME NEW S, NEW n, NEW data, NEW pad, NEW a, NEW from, NEW size, NEW at,
         PaddedBy(S, n, data, pad, a, from, size, at)
  PROVE  \E e : Begins(S, PaddedPieces(n, data, pad), n, at, from, e)
<1> DEFINE b == PaddedPieces(n, data, pad)
<1>0. /\ "0" \in S /\ n \in Nat /\ a \in Nat \ {0}
      /\ \A k \in 1 .. n : data[k] \in Seq(S) /\ data[k] # <<>> /\ pad[k] \in Nat
      /\ \A k \in 1 .. n : size[k] = Len(data[k])
      /\ Advances(n, size, a, from, at)
      /\ \A k \in 1 .. n : k # n => pad[k] = at[k] - at[k - 1] - Len(data[k])
  BY DEF PaddedBy
<1>b. b = [k \in 1 .. n |-> data[k] \o Zeros(pad[k])]
  BY DEF PaddedPieces
<1> HIDE DEF b
<1>1. ASSUME NEW k \in 1 .. n
      PROVE  /\ b[k] \in Seq(S) /\ b[k] # <<>>
             /\ Len(b[k]) = Len(data[k]) + pad[k] /\ Len(data[k]) \in Nat /\ pad[k] \in Nat
  <2> DEFINE s == data[k]
             z == pad[k]
  <2>1. s \in Seq(S) /\ s # <<>> /\ z \in Nat /\ b[k] = s \o Zeros(z)
    BY <1>0, <1>b
  <2> HIDE DEF s, z
  <2>2. Zeros(z) \in Seq(S) /\ Len(Zeros(z)) = z
    BY <1>0, <2>1, ZerosAre
  <2> DEFINE t == Zeros(z)
  <2> HIDE DEF t
  <2>3. /\ s \o t \in Seq(S) /\ Len(s \o t) = Len(s) + Len(t) /\ Len(s) \in Nat /\ Len(s) > 0
    <3>1. t \in Seq(S) /\ s \in Seq(S)
      BY <2>1, <2>2 DEF t
    <3>2. s \o t \in Seq(S) /\ Len(s \o t) = Len(s) + Len(t)
      BY ONLY <3>1
    <3>3. Len(s) \in Nat /\ Len(s) > 0
      BY ONLY <2>1, <3>1
    <3> QED BY ONLY <3>2, <3>3
  <2>4. s \o t # <<>>
    BY ONLY <2>1, <2>2, <2>3 DEF t
  <2> QED BY ONLY <2>1, <2>2, <2>3, <2>4 DEF s, z, t
<1>2. b \in Seq(Seq(S)) /\ Len(b) = n
  <2> DEFINE T == Seq(S)
  <2>1. b \in [1 .. n -> T]
    BY <1>1, <1>b
  <2> HIDE DEF T
  <2>2. b \in Seq(T) /\ Len(b) = n
    BY <1>0, <2>1
  <2> QED BY <2>2 DEF T
<1>3. \A k \in 1 .. n : size[k] \in Nat /\ size[k] = Len(data[k])
  BY <1>0, <1>1
<1>4. \A k \in 1 .. n : at[k] \in Nat /\ at[k - 1] \in Nat /\ at[k - 1] + size[k] <= at[k]
  BY <1>0, <1>3, AdvanceGrows
<1>5. PICK e : Ends(b, e)
  BY <1>2, EndsExist
<1>6. /\ e[0] = 0 /\ \A k \in 0 .. n : e[k] \in Nat
      /\ \A k \in 1 .. n : e[k] = e[k - 1] + Len(b[k])
  BY <1>2, <1>5 DEF Ends
<1>7. at[0] = from /\ \A k \in 0 .. n : at[k] \in Nat
  BY <1>0 DEF Advances
<1> DEFINE P == {k \in 0 .. n : k # n => e[k] = at[k] - from}
<1>8. 0 \in P
  <2>1. at[0] \in Nat /\ 0 \in 0 .. n
    BY <1>0, <1>7
  <2> QED BY <1>6, <1>7, <2>1
<1>9. ASSUME NEW k \in 1 .. n, k - 1 \in P PROVE k \in P
  <2>1. k \in 0 .. n /\ k - 1 \in 0 .. n /\ k - 1 # n
    BY <1>0
  <2>2. e[k - 1] = at[k - 1] - from
    BY <1>9, <2>1
  <2>3. e[k] = e[k - 1] + (Len(data[k]) + pad[k]) /\ Len(data[k]) \in Nat
    BY <1>1, <1>6
  <2>4. at[k] \in Nat /\ at[k - 1] \in Nat /\ from \in Nat
    <3>1. 0 \in 0 .. n
      BY <1>0
    <3> QED BY <1>7, <2>1, <3>1
  <2>5. k # n => e[k] = at[k] - from
    <3> SUFFICES ASSUME k # n PROVE e[k] = at[k] - from
      OBVIOUS
    <3>1. pad[k] = at[k] - at[k - 1] - Len(data[k])
      BY <1>0
    <3>2. Len(data[k]) + pad[k] = at[k] - at[k - 1]
      BY ONLY <2>3, <2>4, <3>1
    <3>3. e[k] = (at[k - 1] - from) + (at[k] - at[k - 1])
      BY <2>2, <2>3, <3>2
    <3> QED BY ONLY <2>4, <3>3
  <2> QED BY <2>1, <2>5
<1> HIDE DEF P
<1>10. \A k \in 0 .. n : k \in P
  BY ONLY <1>0, <1>8, <1>9, UpTo
<1>11. \A k \in 1 .. n : e[k - 1] = at[k - 1] - from
  <2>1. \A k \in 1 .. n : k - 1 \in 0 .. n /\ k - 1 # n
    BY <1>0
  <2> QED BY <1>10, <2>1 DEF P
<1>12. \A k \in 1 .. n : b[k] # <<>>
  BY <1>1
<1>13. Begins(S, b, n, at, from, e)
  BY ONLY <1>2, <1>5, <1>11, <1>12 DEF Begins
<1> QED BY <1>13 DEF b

ByteUnits == STRING \cup {"0"}

\* What is read of the header.
LEMMA KvReads ==
  ASSUME NEW g \in Files, NEW f, NEW layers, KvOK(g, f.kv, layers)
  PROVE  /\ Alignment(f) = g.alignment
         /\ \A default : KvValue(f, "block_count", default) = IF g.counted THEN layers ELSE default
<1>1. /\ Len(f.kv) \in Nat /\ DOMAIN f.kv = 1 .. Len(f.kv)
  <2> DEFINE kv == f.kv
  <2>1. kv \in Seq(Entries)
    BY DEF KvOK
  <2> HIDE DEF kv
  <2>2. Len(kv) \in Nat /\ DOMAIN kv = 1 .. Len(kv)
    BY <2>1
  <2> QED BY <2>2 DEF kv
<1>2. Alignment(f) = g.alignment
  <2>1. CASE g.alignment = DefaultAlignment
    <3>1. \A i \in DOMAIN f.kv : f.kv[i].key # "alignment"
      BY <1>1, <2>1 DEF KvOK
    <3> QED BY <2>1, <3>1, KvMissing DEF Alignment
  <2>2. CASE g.alignment # DefaultAlignment
    <3>1. \E h \in DOMAIN f.kv : f.kv[h].key = "alignment"
      BY <1>1, <2>2 DEF KvOK
    <3>2. \A i \in DOMAIN f.kv : f.kv[i].key = "alignment" => f.kv[i].value = g.alignment
      BY <1>1 DEF KvOK
    <3>3. KvValue(f, "alignment", DefaultAlignment) = g.alignment
      <4>1. KvHolds(f, "alignment", g.alignment)
        BY ONLY <1>1, <3>1, <3>2 DEF KvHolds
      <4> QED BY <4>1, KvHit
    <3> QED BY <3>3 DEF Alignment
  <2> QED BY <2>1, <2>2
<1>3. ASSUME NEW default
      PROVE  KvValue(f, "block_count", default) = IF g.counted THEN layers ELSE default
  <2>1. CASE ~g.counted
    <3>1. \A i \in DOMAIN f.kv : f.kv[i].key # "block_count"
      BY <1>1, <2>1 DEF KvOK
    <3> QED BY <2>1, <3>1, KvMissing
  <2>2. CASE g.counted
    <3>1. \E h \in DOMAIN f.kv : f.kv[h].key = "block_count"
      BY <1>1, <2>2 DEF KvOK
    <3>2. \A i \in DOMAIN f.kv : f.kv[i].key = "block_count" => f.kv[i].value = layers
      BY <1>1 DEF KvOK
    <3>3. KvValue(f, "block_count", default) = layers
      <4>1. KvHolds(f, "block_count", layers)
        BY ONLY <1>1, <3>1, <3>2 DEF KvHolds
      <4> QED BY <4>1, KvHit
    <3> QED BY <2>2, <3>3
  <2> QED BY <2>1, <2>2
<1> QED BY <1>2, <1>3

\* What the definition of Gguf names.
PlaceOf(g, i) == CHOOSE k \in 1 .. Count(g) : g.order[k] = i
DataOf(g, k) == g.tensors[g.order[k]].data
SizesOf(g) == [k \in 1 .. Count(g) |-> Len(DataOf(g, k))]
EndsOf(g) == Laid(SizesOf(g), g.alignment)
PaddingOf(g, k) ==
  IF k = Count(g) /\ ~g.tail THEN 0 ELSE EndsOf(g)[k] - EndsOf(g)[k - 1] - Len(DataOf(g, k))
PiecesOf(g) == [k \in 1 .. Count(g) |-> DataOf(g, k) \o Zeros(PaddingOf(g, k))]

\* The parts of the file.
LEMMA GgufIs ==
  ASSUME NEW g \in Files
  PROVE  LET f == Gguf(g)
             header == 3 + Len(GgufKv(g)) + Count(g)
         IN /\ f.kv = GgufKv(g)
            /\ f.index = [i \in 1 .. Count(g) |-> [name |-> g.tensors[i].name,
                                                   offset |-> EndsOf(g)[PlaceOf(g, i) - 1]]]
            /\ f.body = Zeros(AlignUp(header, g.alignment) - header) \o FlattenSeq(PiecesOf(g))
BY Zenon DEF Gguf, Count, PlaceOf, DataOf, SizesOf, EndsOf, PaddingOf, PiecesOf

\* The place of a tensor's data and the tensor of a place are inverse.
LEMMA PlaceIs ==
  ASSUME NEW g \in Files
  PROVE  /\ \A i \in 1 .. Count(g) : PlaceOf(g, i) \in 1 .. Count(g) /\ g.order[PlaceOf(g, i)] = i
         /\ \A k \in 1 .. Count(g) : g.order[k] \in 1 .. Count(g) /\ PlaceOf(g, g.order[k]) = k
<1>1. OrderOK(g)
  BY FileIs
<1>2. ASSUME NEW i \in 1 .. Count(g)
      PROVE PlaceOf(g, i) \in 1 .. Count(g) /\ g.order[PlaceOf(g, i)] = i
  <2>1. \E k \in 1 .. Count(g) : g.order[k] = i
    BY <1>1 DEF OrderOK
  <2> QED BY <2>1 DEF PlaceOf
<1>3. ASSUME NEW k \in 1 .. Count(g)
      PROVE g.order[k] \in 1 .. Count(g) /\ PlaceOf(g, g.order[k]) = k
  <2>1. g.order[k] \in 1 .. Count(g)
    BY <1>1 DEF OrderOK
  <2> DEFINE q == PlaceOf(g, g.order[k])
  <2>2. q \in 1 .. Count(g) /\ g.order[q] = g.order[k]
    BY <1>2, <2>1
  <2> HIDE DEF q
  <2>3. q = k
    BY <1>1, <2>2 DEF OrderOK
  <2> QED BY <2>1, <2>3 DEF q
<1> QED BY <1>2, <1>3

\* The tensors of the GGUF, with their names and, up to the padding, their data.
LEMMA GgufReads ==
  ASSUME NEW g \in Files
  PROVE  /\ DOMAIN Gguf(g).index = 1 .. Count(g)
         /\ Alignment(Gguf(g)) = g.alignment /\ KvOK(g, Gguf(g).kv, g.layers)
         /\ \A i \in 1 .. Count(g) :
              /\ Gguf(g).index[i].name = g.tensors[i].name
              /\ \E z \in Nat : TensorBytes(Gguf(g), i) = g.tensors[i].data \o Zeros(z)
<1> DEFINE n == Count(g)
           a == g.alignment
           f == Gguf(g)
           at == EndsOf(g)
           b == PiecesOf(g)
           pad == [k \in 1 .. n |-> PaddingOf(g, k)]
           data == [k \in 1 .. n |-> DataOf(g, k)]
           place == [i \in 1 .. n |-> PlaceOf(g, i)]
<1>1. /\ a \in Nat \ {0} /\ g.tail \in BOOLEAN /\ TensorsOK(g) /\ OrderOK(g)
      /\ n \in Nat
  BY FileIs DEF TensorsOK
<1>2. /\ f.kv = GgufKv(g) /\ DOMAIN f.index = 1 .. n /\ Len(f.index) = n
      /\ \A i \in 1 .. n : /\ f.index[i].name = g.tensors[i].name
                           /\ f.index[i].offset = at[place[i] - 1]
  <2>1. /\ f.kv = GgufKv(g)
        /\ f.index = [i \in 1 .. n |-> [name |-> g.tensors[i].name,
                                        offset |-> EndsOf(g)[PlaceOf(g, i) - 1]]]
    BY GgufIs
  <2> HIDE DEF n, f
  <2> QED BY <1>1, <2>1
<1>3. KvOK(g, f.kv, g.layers) /\ Alignment(f) = a
  BY <1>2, GgufKvIs, KvReads
<1>4. \A k \in 1 .. n : data[k] \in Seq(ByteUnits) /\ data[k] # <<>> /\ data[k] \in Seq(STRING)
  <2> SUFFICES ASSUME NEW k \in 1 .. n
               PROVE  data[k] \in Seq(ByteUnits) /\ data[k] # <<>> /\ data[k] \in Seq(STRING)
    OBVIOUS
  <2>1. g.order[k] \in 1 .. n
    BY PlaceIs
  <2>2. data[k] \in Seq(STRING) /\ data[k] # <<>>
    BY <1>1, <2>1 DEF TensorsOK, DataOf
  <2>3. \A s \in Seq(STRING) : s \in Seq(ByteUnits)
    BY DEF ByteUnits
  <2> QED BY <2>2, <2>3
<1>5. /\ SizesOf(g) \in Seq(Nat) /\ Len(SizesOf(g)) = n
      /\ \A k \in 1 .. n : SizesOf(g)[k] = Len(data[k]) /\ SizesOf(g)[k] \in Nat
  <2>1. \A k \in 1 .. n : Len(data[k]) \in Nat
    <3> HIDE DEF data
    <3> QED BY <1>4
  <2>2. SizesOf(g) = [k \in 1 .. n |-> Len(data[k])]
    BY DEF SizesOf
  <2> HIDE DEF n, data
  <2> QED BY <1>1, <2>1, <2>2
<1>6. Advances(n, SizesOf(g), a, 0, at)
  BY <1>1, <1>5, LaidIs DEF EndsOf
<1>7. \A k \in 1 .. n : at[k] \in Nat /\ at[k - 1] \in Nat /\ at[k - 1] + SizesOf(g)[k] <= at[k]
  <2> HIDE DEF n, a, at, data
  <2> QED BY <1>1, <1>5, <1>6, AdvanceGrows
<1>8. \A k \in 1 .. n : /\ pad[k] \in Nat
                        /\ k # n => pad[k] = at[k] - at[k - 1] - Len(data[k])
  <2> SUFFICES ASSUME NEW k \in 1 .. n
               PROVE  pad[k] \in Nat /\ (k # n => pad[k] = at[k] - at[k - 1] - Len(data[k]))
    OBVIOUS
  <2>1. pad[k] = IF k = n /\ ~g.tail THEN 0 ELSE at[k] - at[k - 1] - Len(data[k])
    BY DEF PaddingOf
  <2>2. at[k] - at[k - 1] - Len(data[k]) \in Nat
    <3>1. Len(data[k]) \in Nat /\ Len(data[k]) = SizesOf(g)[k]
      BY <1>5
    <3> HIDE DEF data, at, n
    <3> QED BY <1>7, <3>1
  <2> HIDE DEF pad, data, at, n
  <2> QED BY <2>1, <2>2
<1>9. PICK e : Begins(ByteUnits, b, n, at, 0, e)
  <2>1. b = PaddedPieces(n, data, pad)
    BY DEF PiecesOf, PaddedPieces
  <2>2. "0" \in ByteUnits
    BY DEF ByteUnits
  <2> DEFINE size == SizesOf(g)
  <2>3. /\ \A k \in 1 .. n : data[k] \in Seq(ByteUnits) /\ data[k] # <<>> /\ pad[k] \in Nat
        /\ \A k \in 1 .. n : size[k] = Len(data[k])
        /\ \A k \in 1 .. n : k # n => pad[k] = at[k] - at[k - 1] - Len(data[k])
    BY <1>4, <1>5, <1>8
  <2>4. n \in Nat /\ a \in Nat \ {0} /\ Advances(n, size, a, 0, at)
    BY <1>1, <1>6
  <2> HIDE DEF b, n, a, at, data, pad, size
  <2>5. PaddedBy(ByteUnits, n, data, pad, a, 0, size, at)
    BY ONLY <2>2, <2>3, <2>4 DEF PaddedBy
  <2>6. \E e : Begins(ByteUnits, PaddedPieces(n, data, pad), n, at, 0, e)
    BY ONLY <2>5, PaddedEnds
  <2> QED BY ONLY <2>1, <2>6
<1>10. /\ b \in Seq(Seq(ByteUnits)) /\ Len(b) = n /\ \A k \in 1 .. n : b[k] # <<>>
       /\ Ends(b, e) /\ \A k \in 1 .. n : e[k - 1] = at[k - 1] - 0
  BY <1>9 DEF Begins
<1>11. Blob(f) = FlattenSeq(b)
  <2>1. FlattenSeq(b) \in Seq(ByteUnits)
    BY <1>10, FlattenAt DEF Lies
  <2>2. Len(f.kv) \in Nat
    <3> DEFINE kv == f.kv
    <3>1. kv \in Seq(Entries)
      BY <1>3 DEF KvOK
    <3> HIDE DEF kv
    <3> QED BY <3>1 DEF kv
  <2>3. HeaderLen(f) = 3 + Len(GgufKv(g)) + n /\ HeaderLen(f) \in Nat
    BY <1>1, <1>2, <2>2 DEF HeaderLen
  <2>4. f.body = Zeros(AlignUp(HeaderLen(f), a) - HeaderLen(f)) \o FlattenSeq(b)
    BY <2>3, GgufIs
  <2>5. "0" \in ByteUnits
    BY DEF ByteUnits
  <2> HIDE DEF f, b, a
  <2> QED BY <1>1, <1>3, <2>1, <2>3, <2>4, <2>5, BlobIs
<1>12. ASSUME NEW i \in 1 .. n PROVE \E z \in Nat : TensorBytes(f, i) = g.tensors[i].data \o Zeros(z)
  <2>1. /\ place \in [1 .. n -> 1 .. n] /\ \A k \in 1 .. n : \E j \in 1 .. n : place[j] = k
    BY PlaceIs
  <2>2. \A j \in 1 .. n : f.index[j].offset = e[place[j] - 1]
    <3> SUFFICES ASSUME NEW j \in 1 .. n PROVE f.index[j].offset = e[place[j] - 1]
      OBVIOUS
    <3>1. place[j] \in 1 .. n
      BY PlaceIs
    <3>2. e[place[j] - 1] = at[place[j] - 1] - 0 /\ at[place[j] - 1] \in Nat
      BY <1>7, <1>10, <3>1
    <3> HIDE DEF f, at, place
    <3> QED BY <1>2, <3>2
  <2>3. TensorBytes(f, i) = b[place[i]]
    <3>1. n = Len(b)
      BY <1>10
    <3> HIDE DEF f, b, place, n
    <3>2. /\ b \in Seq(Seq(ByteUnits)) /\ Ends(b, e) /\ \A k \in 1 .. Len(b) : b[k] # <<>>
          /\ Blob(f) = FlattenSeq(b) /\ DOMAIN f.index = 1 .. Len(b)
          /\ place \in [1 .. Len(b) -> 1 .. Len(b)] /\ i \in 1 .. Len(b)
          /\ \A k \in 1 .. Len(b) : \E j \in 1 .. Len(b) : place[j] = k
          /\ \A j \in 1 .. Len(b) : f.index[j].offset = e[place[j] - 1]
      BY <1>2, <1>10, <1>11, <2>1, <2>2, <3>1
    <3>3. LaidOut(f, ByteUnits, b, e, place)
      BY <3>2 DEF LaidOut
    <3>4. i \in 1 .. Len(b)
      BY <3>2
    <3> QED BY ONLY <3>3, <3>4, LayoutReads
  <2>4. b[place[i]] = g.tensors[i].data \o Zeros(pad[place[i]]) /\ pad[place[i]] \in Nat
    <3>1. place[i] \in 1 .. n /\ g.order[place[i]] = i
      BY PlaceIs
    <3>2. pad[place[i]] \in Nat
      BY <1>8, <3>1
    <3> QED BY <3>1, <3>2 DEF PiecesOf, DataOf
  <2> QED BY <2>3, <2>4
<1> QED BY <1>2, <1>3, <1>12

-----------------------------------------------------------------------------
(* Lists in an order.                                                         *)

\* R puts the elements of S in an order.
Orders(R, S) ==
  /\ \A x \in S : <<x, x>> \notin R
  /\ \A x, y \in S : x # y => <<x, y>> \in R \/ <<y, x>> \in R
  /\ \A x, y, z \in S : <<x, y>> \in R /\ <<y, z>> \in R => <<x, z>> \in R

\* s is in that order.
Sorted(S, R, s) ==
  s \in [1 .. Cardinality(S) -> S] /\ \A i, j \in DOMAIN s : i < j => <<s[i], s[j]>> \in R

\* s has every element of S once.
Lists(S, s) ==
  /\ s \in Seq(S) /\ DOMAIN s = 1 .. Len(s) /\ Len(s) \in Nat
  /\ \A k \in 1 .. Len(s) : s[k] \in S
  /\ \A x \in S : \E k \in 1 .. Len(s) : s[k] = x
  /\ \A i, j \in 1 .. Len(s) : i # j => s[i] # s[j]

\* A finite set has a list in order: by how many are before an element.
LEMMA SortedExists ==
  ASSUME NEW S, IsFiniteSet(S), NEW R, Orders(R, S)
  PROVE  \E s : Sorted(S, R, s)
<1> DEFINE n == Cardinality(S)
           Under(x) == {y \in S : <<y, x>> \in R \/ y = x}
           f == [x \in S |-> Cardinality(Under(x))]
<1>1. /\ \A x \in S : <<x, x>> \notin R
      /\ \A x, y \in S : x # y => <<x, y>> \in R \/ <<y, x>> \in R
      /\ \A x, y, z \in S : <<x, y>> \in R /\ <<y, z>> \in R => <<x, z>> \in R
  BY DEF Orders
<1>2. n \in Nat
  BY FS_CardinalityType
<1>3. ASSUME NEW x \in S
      PROVE  /\ IsFiniteSet(Under(x)) /\ Cardinality(Under(x)) \in 1 .. n
  <2>1. Under(x) \in SUBSET S /\ x \in Under(x)
    OBVIOUS
  <2> HIDE DEF Under
  <2>2. IsFiniteSet(Under(x)) /\ Cardinality(Under(x)) <= n
    BY <2>1, FS_Subset
  <2>3. Cardinality(Under(x)) \in Nat /\ Cardinality(Under(x)) # 0
    BY <2>1, <2>2, FS_CardinalityType, FS_EmptySet
  <2> QED BY <1>2, <2>2, <2>3
<1>4. ASSUME NEW x \in S, NEW y \in S, <<x, y>> \in R PROVE f[x] < f[y]
  <2>1. Under(x) \in SUBSET Under(y)
    BY <1>1, <1>4
  <2>2. Under(x) # Under(y)
    <3>1. y \in Under(y)
      OBVIOUS
    <3>2. y \notin Under(x)
      <4>1. <<y, x>> \notin R
        BY <1>1, <1>4
      <4>2. y # x
        BY <1>1, <1>4
      <4> QED BY <4>1, <4>2
    <3> QED BY <3>1, <3>2
  <2> HIDE DEF Under
  <2>3. /\ Cardinality(Under(x)) <= Cardinality(Under(y))
        /\ Cardinality(Under(y)) = Cardinality(Under(x)) => Under(y) = Under(x)
    BY <1>3, <2>1, FS_Subset
  <2>4. f[x] \in Nat /\ f[y] \in Nat /\ f[x] = Cardinality(Under(x)) /\ f[y] = Cardinality(Under(y))
    BY <1>3
  <2> HIDE DEF f
  <2> QED BY <2>2, <2>3, <2>4
<1>5. f \in [S -> 1 .. n] /\ \A x \in S : f[x] \in 1 .. n
  BY <1>3
<1> HIDE DEF f, n
<1>6. f \in Injection(S, 1 .. n)
  <2>1. ASSUME NEW x \in S, NEW y \in S, f[x] = f[y] PROVE x = y
    <3>1. f[x] \in Nat /\ f[y] \in Nat
      BY <1>5
    <3> SUFFICES ASSUME x # y PROVE FALSE
      OBVIOUS
    <3>2. f[x] < f[y] \/ f[y] < f[x]
      BY <1>1, <1>4
    <3> QED BY <2>1, <3>1, <3>2
  <2> QED BY <1>5, <2>1 DEF Injection, IsInjective
<1>7. f \in Surjection(S, 1 .. n)
  <2>1. IsFiniteSet(1 .. n) /\ Cardinality(1 .. n) = n
    BY <1>2, FS_Interval
  <2> QED BY <1>6, <2>1, FS_Injection DEF n
<1>8. \A k \in 1 .. n : \E x \in S : f[x] = k
  BY <1>7 DEF Surjection
<1> DEFINE s == [k \in 1 .. n |-> CHOOSE x \in S : f[x] = k]
<1>9. s \in [1 .. n -> S] /\ \A k \in 1 .. n : s[k] \in S /\ f[s[k]] = k
  BY <1>8
<1> HIDE DEF s
<1>10. ASSUME NEW i \in 1 .. n, NEW j \in 1 .. n, i < j PROVE <<s[i], s[j]>> \in R
  <2>1. s[i] \in S /\ s[j] \in S /\ f[s[i]] = i /\ f[s[j]] = j
    BY <1>9
  <2>2. s[i] # s[j]
    BY <1>10, <2>1
  <2>3. <<s[j], s[i]>> \notin R
    <3>1. ASSUME <<s[j], s[i]>> \in R PROVE FALSE
      <4>1. f[s[j]] < f[s[i]]
        BY <1>4, <2>1, <3>1
      <4> QED BY <1>10, <2>1, <4>1
    <3> QED BY <3>1
  <2> QED BY <1>1, <2>1, <2>2, <2>3
<1>11. DOMAIN s = 1 .. n
  BY <1>9
<1> QED BY <1>9, <1>10, <1>11 DEF Sorted, n

\* A sorted sequence over a set has each element once.
LEMMA SortedLists ==
  ASSUME NEW S, IsFiniteSet(S), NEW R, Orders(R, S), NEW s, Sorted(S, R, s)
  PROVE  Lists(S, s)
<1> DEFINE n == Cardinality(S)
<1>1. n \in Nat
  BY FS_CardinalityType
<1>2. s \in [1 .. n -> S] /\ DOMAIN s = 1 .. n /\ \A i, j \in 1 .. n : i < j => <<s[i], s[j]>> \in R
  BY DEF Sorted
<1> HIDE DEF n
<1>3. s \in Seq(S) /\ Len(s) = n /\ \A k \in 1 .. n : s[k] \in S
  BY <1>1, <1>2
<1>4. ASSUME NEW i \in 1 .. n, NEW j \in 1 .. n, i # j PROVE s[i] # s[j]
  <2>1. i < j \/ j < i
    BY <1>4
  <2>2. <<s[i], s[j]>> \in R \/ <<s[j], s[i]>> \in R
    BY <1>2, <2>1
  <2>3. <<s[i], s[i]>> \notin R
    BY <1>3 DEF Orders
  <2> QED BY <2>2, <2>3
<1>5. s \in Injection(1 .. n, S)
  BY <1>2, <1>4 DEF Injection, IsInjective
<1>6. s \in Surjection(1 .. n, S)
  <2>1. IsFiniteSet(1 .. n) /\ Cardinality(1 .. n) = n
    BY <1>1, FS_Interval
  <2> QED BY <1>5, <2>1, FS_Injection DEF n
<1>7. \A x \in S : \E k \in 1 .. n : s[k] = x
  BY <1>6 DEF Surjection
<1> QED BY <1>1, <1>2, <1>3, <1>4, <1>7 DEF Lists, n

\* A list of numbers.
LEMMA LessLists ==
  ASSUME NEW n \in Nat, NEW S \in SUBSET (1 .. n)
  PROVE  IsFiniteSet(S) /\ Lists(S, Ordered(S, Less))
<1> DEFINE R == {p \in S \X S : p[1] < p[2]}
           s == Ordered(S, Less)
<1>1. \A x, y \in S : <<x, y>> \in R <=> x < y
  OBVIOUS
<1>2. IsFiniteSet(S)
  <2>1. IsFiniteSet(1 .. n)
    BY FS_Interval
  <2> QED BY <2>1, FS_Subset
<1>3. Orders(R, S)
  <2> HIDE DEF R
  <2>1. \A x \in S : x \in Nat
    OBVIOUS
  <2> QED BY <1>1, <2>1 DEF Orders
<1>4. ASSUME NEW t \in [1 .. Cardinality(S) -> S]
      PROVE  (\A i, j \in DOMAIN t : i < j => Less(t[i], t[j])) <=> Sorted(S, R, t)
  <2>1. \A i \in DOMAIN t : t[i] \in S
    OBVIOUS
  <2> HIDE DEF R
  <2> QED BY <1>1, <2>1 DEF Less, Sorted
<1> HIDE DEF R
<1>5. \E t \in [1 .. Cardinality(S) -> S] : \A i, j \in DOMAIN t : i < j => Less(t[i], t[j])
  <2>1. PICK t : Sorted(S, R, t)
    BY <1>2, <1>3, SortedExists
  <2>2. t \in [1 .. Cardinality(S) -> S]
    BY <2>1 DEF Sorted
  <2> QED BY <1>4, <2>1, <2>2
<1>6. s \in [1 .. Cardinality(S) -> S] /\ \A i, j \in DOMAIN s : i < j => Less(s[i], s[j])
  BY <1>5 DEF Ordered
<1> HIDE DEF s
<1>7. Sorted(S, R, s)
  BY <1>4, <1>6
<1>8. Lists(S, s)
  BY <1>2, <1>3, <1>7, SortedLists
<1> QED BY <1>2, <1>8 DEF s

\* A list of keys.
KeySet == {EmbedKey, HeadKey} \cup {BlockKey(l) : l \in Nat}

\* The keys of bundles are ordered: a BTreeMap of them has each once.
LEMMA KeyLists ==
  ASSUME NEW S \in SUBSET KeySet, IsFiniteSet(S)
  PROVE  Lists(S, Ordered(S, KeyBefore))
<1> DEFINE R == {p \in S \X S : KeyBefore(p[1], p[2])}
           s == Ordered(S, KeyBefore)
<1>1. \A x, y \in S : <<x, y>> \in R <=> KeyBefore(x, y)
  OBVIOUS
<1>3. Orders(R, S)
  <2> HIDE DEF R
  <2>1. \A x \in S : x[1] \in Nat /\ x[2] \in Nat /\ x = <<x[1], x[2]>>
    BY DEF KeySet, EmbedKey, HeadKey, BlockKey
  <2>2. \A x \in S : ~KeyBefore(x, x)
    BY <2>1 DEF KeyBefore
  <2>3. \A x, y \in S : x # y => KeyBefore(x, y) \/ KeyBefore(y, x)
    BY <2>1 DEF KeyBefore
  <2>4. \A x, y, z \in S : KeyBefore(x, y) /\ KeyBefore(y, z) => KeyBefore(x, z)
    BY <2>1 DEF KeyBefore
  <2> QED BY <1>1, <2>2, <2>3, <2>4 DEF Orders
<1>4. ASSUME NEW t \in [1 .. Cardinality(S) -> S]
      PROVE  (\A i, j \in DOMAIN t : i < j => KeyBefore(t[i], t[j])) <=> Sorted(S, R, t)
  <2>1. \A i \in DOMAIN t : t[i] \in S
    OBVIOUS
  <2> HIDE DEF R
  <2> QED BY <1>1, <2>1 DEF Sorted
<1> HIDE DEF R
<1>5. \E t \in [1 .. Cardinality(S) -> S] : \A i, j \in DOMAIN t : i < j => KeyBefore(t[i], t[j])
  <2>1. PICK t : Sorted(S, R, t)
    BY <1>3, SortedExists
  <2>2. t \in [1 .. Cardinality(S) -> S]
    BY <2>1 DEF Sorted
  <2> QED BY <1>4, <2>1, <2>2
<1>6. s \in [1 .. Cardinality(S) -> S] /\ \A i, j \in DOMAIN s : i < j => KeyBefore(s[i], s[j])
  BY <1>5 DEF Ordered
<1> HIDE DEF s
<1>7. Sorted(S, R, s)
  BY <1>4, <1>6
<1>8. Lists(S, s)
  BY <1>3, <1>7, SortedLists
<1> QED BY <1>8 DEF s

\* A list counts what it has.
LEMMA ListCounts ==
  ASSUME NEW S, NEW s, Lists(S, s)
  PROVE  IsFiniteSet(S) /\ Cardinality(S) = Len(s)
<1> DEFINE n == Len(s)
<1>1. /\ n \in Nat /\ DOMAIN s = 1 .. n /\ s \in Seq(S)
      /\ \A k \in 1 .. n : s[k] \in S
      /\ \A x \in S : \E k \in 1 .. n : s[k] = x
      /\ \A i, j \in 1 .. n : i # j => s[i] # s[j]
  BY DEF Lists
<1>2. s \in [1 .. n -> S]
  BY <1>1
<1> HIDE DEF n
<1>3. s \in Bijection(1 .. n, S)
  BY <1>1, <1>2 DEF Bijection, Injection, IsInjective, Surjection
<1>4. ExistsBijection(1 .. n, S)
  BY <1>3 DEF ExistsBijection
<1>5. Cardinality(S) = n
  BY <1>1, <1>4, FS_CountingElements
<1>6. IsFiniteSet(S)
  BY <1>1, <1>4, FS_NatBijection
<1> QED BY <1>5, <1>6 DEF n

\* Lists of sets that have nothing in common are a list of all of them.
LEMMA FlattenLists ==
  ASSUME NEW S, NEW b \in Seq(Seq(S)), NEW part,
         \A k \in 1 .. Len(b) : Lists(part[k], b[k]),
         \A j, k \in 1 .. Len(b) : j # k => part[j] \cap part[k] = {},
         NEW U, \A x : x \in U <=> \E k \in 1 .. Len(b) : x \in part[k]
  PROVE  Lists(U, FlattenSeq(b))
<1> DEFINE n == Len(b)
           t == FlattenSeq(b)
<1>1. PICK e : Ends(b, e)
  BY EndsExist
<1>2. EndsTyped(S, b, e)
  BY <1>1, EndsType
<1>3. /\ t \in Seq(S) /\ Len(t) = e[n]
      /\ \A k \in 1 .. n : \A j \in 1 .. Len(b[k]) : t[e[k - 1] + j] = b[k][j]
  BY <1>1, FlattenAt DEF Lies
<1>4. Len(t) \in Nat /\ DOMAIN t = 1 .. Len(t)
  <2> HIDE DEF t
  <2> QED BY <1>3
<1> HIDE DEF t
<1>5. ASSUME NEW q \in 1 .. Len(t)
      PROVE  \E k \in 1 .. n : \E j \in 1 .. Len(b[k]) : q = e[k - 1] + j /\ t[q] = b[k][j]
  <2>0. q \in 1 .. e[Len(b)]
    BY <1>3
  <2>1. PICK k \in 1 .. n : \E j \in 1 .. Len(b[k]) : q = e[k - 1] + j
    <3>1. Covered(b, e, q)
      BY <1>1, <2>0, EndsCover
    <3> QED BY <3>1 DEF Covered
  <2>2. PICK j \in 1 .. Len(b[k]) : q = e[k - 1] + j
    BY <2>1
  <2>3. t[q] = b[k][j]
    BY <1>3, <2>2
  <2> QED BY <2>2, <2>3
<1>6. ASSUME NEW k \in 1 .. n
      PROVE  /\ Len(b[k]) \in Nat /\ \A j \in 1 .. Len(b[k]) : b[k][j] \in part[k]
             /\ \A x \in part[k] : \E j \in 1 .. Len(b[k]) : b[k][j] = x
             /\ \A i, j \in 1 .. Len(b[k]) : i # j => b[k][i] # b[k][j]
  BY DEF Lists
<1>7. ASSUME NEW k \in 1 .. n, NEW j \in 1 .. Len(b[k])
      PROVE  e[k - 1] + j \in 1 .. Len(t)
  <2>1. e[k - 1] \in Nat /\ e[k] = e[k - 1] + Len(b[k]) /\ e[k] <= e[n] /\ Len(b[k]) \in Nat
    BY <1>2 DEF EndsTyped
  <2>3. e[k] \in Nat /\ e[n] \in Nat
    BY <1>3, <1>4, <2>1
  <2> HIDE DEF n
  <2>4. e[k - 1] + j \in 1 .. e[n]
    BY <2>1, <2>3, Within
  <2> QED BY <1>3, <2>4
<1>8. \A q \in 1 .. Len(t) : t[q] \in U
  BY <1>5, <1>6
<1>9. \A x \in U : \E q \in 1 .. Len(t) : t[q] = x
  <2> SUFFICES ASSUME NEW x \in U PROVE \E q \in 1 .. Len(t) : t[q] = x
    OBVIOUS
  <2>1. PICK k \in 1 .. n : x \in part[k]
    OBVIOUS
  <2>2. PICK j \in 1 .. Len(b[k]) : b[k][j] = x
    BY <1>6, <2>1
  <2>3. e[k - 1] + j \in 1 .. Len(t)
    BY <1>7
  <2>4. t[e[k - 1] + j] = x
    BY <1>3, <2>2
  <2> HIDE DEF n
  <2> QED BY <2>3, <2>4
<1>10. ASSUME NEW p \in 1 .. Len(t), NEW q \in 1 .. Len(t), t[p] = t[q] PROVE p = q
  <2>1. PICK k \in 1 .. n : \E j \in 1 .. Len(b[k]) : p = e[k - 1] + j /\ t[p] = b[k][j]
    BY <1>5
  <2>2. PICK j \in 1 .. Len(b[k]) : p = e[k - 1] + j /\ t[p] = b[k][j]
    BY <2>1
  <2>3. PICK i \in 1 .. n : \E m \in 1 .. Len(b[i]) : q = e[i - 1] + m /\ t[q] = b[i][m]
    BY <1>5
  <2>4. PICK m \in 1 .. Len(b[i]) : q = e[i - 1] + m /\ t[q] = b[i][m]
    BY <2>3
  <2>5. i = k
    <3>1. b[k][j] \in part[k] /\ b[i][m] \in part[i]
      BY <1>6
    <3>2. b[k][j] = b[i][m]
      BY <1>10, <2>2, <2>4
    <3> QED BY <3>1, <3>2
  <2>6. j = m
    BY <1>6, <1>10, <2>2, <2>4, <2>5
  <2> QED BY <2>2, <2>4, <2>5, <2>6
<1>11. t \in Seq(U)
  <2> HIDE DEF n
  <2> QED BY <1>3, <1>4, <1>8
<1>12. Lists(U, t)
  BY <1>4, <1>8, <1>9, <1>10, <1>11 DEF Lists
<1> QED BY <1>12 DEF t

MappedBy(h, b) == [k \in 1 .. Len(b) |-> [m \in 1 .. Len(b[k]) |-> h[b[k][m]]]]

ValuesOf(h, s) == [q \in 1 .. Len(s) |-> h[s[q]]]

\* What is done to every element is done one behind the other.
LEMMA FlattenMaps ==
  ASSUME NEW S, NEW b \in Seq(Seq(S)), NEW h
  PROVE  FlattenSeq(MappedBy(h, b)) = ValuesOf(h, FlattenSeq(b))
<1> DEFINE T == {h[x] : x \in S}
           c == MappedBy(h, b)
<1>0. c = [k \in 1 .. Len(b) |-> [m \in 1 .. Len(b[k]) |-> h[b[k][m]]]]
  BY DEF MappedBy
<1>01. \A x \in S : h[x] \in T
  OBVIOUS
<1> HIDE DEF c, T
<1> USE <1>0, <1>01
<1> DEFINE n == Len(b)
           t == FlattenSeq(b)
           u == FlattenSeq(c)
<1>1. PICK e : Ends(b, e)
  BY EndsExist
<1>2. EndsTyped(S, b, e)
  BY <1>1, EndsType
<1>3. /\ t \in Seq(S) /\ Len(t) = e[n] /\ n \in Nat
      /\ \A k \in 1 .. n : \A j \in 1 .. Len(b[k]) : t[e[k - 1] + j] = b[k][j]
  BY <1>1, FlattenAt DEF Lies
<1>4. ASSUME NEW k \in 1 .. n
      PROVE  c[k] \in Seq(T) /\ Len(c[k]) = Len(b[k]) /\ \A m \in 1 .. Len(b[k]) : c[k][m] = h[b[k][m]]
  <2> DEFINE s == b[k]
  <2>1. s \in Seq(S)
    OBVIOUS
  <2> HIDE DEF s
  <2> DEFINE d == [m \in 1 .. Len(s) |-> h[s[m]]]
  <2>2. Len(s) \in Nat /\ \A m \in 1 .. Len(s) : h[s[m]] \in T
    BY <2>1
  <2>3. d \in Seq(T) /\ Len(d) = Len(s) /\ \A m \in 1 .. Len(s) : d[m] = h[s[m]]
    BY <2>2
  <2>4. c[k] = d
    BY DEF s
  <2> HIDE DEF d
  <2> QED BY <2>3, <2>4 DEF s
<1>5. c \in Seq(Seq(T)) /\ Len(c) = n
  <2> DEFINE V == Seq(T)
  <2>1. c \in [1 .. n -> V]
    BY <1>4
  <2> HIDE DEF V, n
  <2>2. c \in Seq(V) /\ Len(c) = n
    BY <1>3, <2>1
  <2> QED BY <2>2 DEF V
<1>6. Ends(c, e)
  <2>1. /\ e \in [0 .. n -> Nat] /\ e[0] = 0
        /\ \A i \in 1 .. n : e[i] = e[i - 1] + Len(b[i])
    BY <1>1 DEF Ends
  <2> HIDE DEF n
  <2> QED BY <1>4, <1>5, <2>1 DEF Ends
<1>7. /\ u \in Seq(T) /\ Len(u) = e[n]
      /\ \A k \in 1 .. n : \A j \in 1 .. Len(c[k]) : u[e[k - 1] + j] = c[k][j]
  <2>1. Lies(T, c, e, u)
    BY <1>5, <1>6, FlattenAt
  <2> QED BY ONLY <1>5, <2>1 DEF Lies
<1> HIDE DEF t, u
<1>8. Len(t) \in Nat /\ Len(u) = Len(t) /\ DOMAIN u = 1 .. Len(t)
  BY <1>3, <1>7
<1>9. ASSUME NEW q \in 1 .. Len(t) PROVE u[q] = h[t[q]]
  <2>0. q \in 1 .. e[Len(b)]
    BY <1>3
  <2>1. PICK k \in 1 .. n : \E j \in 1 .. Len(b[k]) : q = e[k - 1] + j
    <3>1. Covered(b, e, q)
      BY <1>1, <2>0, EndsCover
    <3> QED BY <3>1 DEF Covered
  <2>2. PICK j \in 1 .. Len(b[k]) : q = e[k - 1] + j
    BY <2>1
  <2>3. t[q] = b[k][j]
    BY <1>3, <2>2
  <2>4. u[q] = c[k][j] /\ c[k][j] = h[b[k][j]]
    <3>1. c[k][j] = h[b[k][j]] /\ j \in 1 .. Len(c[k])
      BY <1>4
    <3>2. u[e[k - 1] + j] = c[k][j]
      BY <1>7, <3>1
    <3> QED BY <2>2, <3>1, <3>2
  <2> QED BY <2>3, <2>4
<1>10. u = [q \in 1 .. Len(t) |-> h[t[q]]]
  <2>1. u = [q \in 1 .. Len(t) |-> u[q]]
    BY <1>7, <1>8
  <2> QED BY <1>9, <2>1
<1> QED BY <1>10 DEF t, u, c, ValuesOf

-----------------------------------------------------------------------------
(* Bundles.                                                                   *)

\* f has n tensors, none of them empty.
Readable(f, n) ==
  /\ n \in Nat /\ DOMAIN f.index = 1 .. n
  /\ \A i \in 1 .. n : TensorBytes(f, i) \in Seq(ByteUnits) /\ TensorBytes(f, i) # <<>>

MembersAt(f, key) == {i \in DOMAIN f.index : classify_tensor(f.index[i].name) = key}
KeysOf(f) == {classify_tensor(f.index[i].name) : i \in DOMAIN f.index}

\* b is f's bundle of this key: every tensor can be cut out of its bytes.
BundleOK(f, b, key, at) ==
  /\ b.key = key /\ b.cid \in Seq(ByteUnits) /\ (Len(at) > 0 => b.cid # <<>>)
  /\ DOMAIN b.members = 1 .. Len(at) /\ Len(b.members) = Len(at)
  /\ \A m \in 1 .. Len(at) :
       /\ b.members[m].name = f.index[at[m]].name
       /\ b.members[m].cid = TensorBytes(f, at[m])
       /\ SubSeq(b.cid, b.members[m].offset + 1, b.members[m].offset + b.members[m].size)
            = b.members[m].cid

\* The tensors of a bundle are those of its key, each once.
LEMMA BundleAtIs ==
  ASSUME NEW f, NEW n, Readable(f, n), NEW key
  PROVE  Lists(MembersAt(f, key), BundleAt(f, key))
<1>1. n \in Nat /\ MembersAt(f, key) \in SUBSET (1 .. n)
  BY DEF Readable, MembersAt
<1>2. BundleAt(f, key) = Ordered(MembersAt(f, key), Less)
  BY DEF BundleAt, MembersAt
<1> QED BY <1>1, <1>2, LessLists

\* The chunker writes such bundles.
LEMMA BundleIs ==
  ASSUME NEW f, NEW n, Readable(f, n), NEW key
  PROVE  BundleOK(f, Bundle(f, key), key, BundleAt(f, key))
<1> DEFINE at == BundleAt(f, key)
           bytes == [m \in DOMAIN at |-> TensorBytes(f, at[m])]
           b == Bundle(f, key)
           members == [m \in DOMAIN at |->
             [name |-> f.index[at[m]].name, size |-> Len(bytes[m]), cid |-> bytes[m],
              offset |-> Len(FlattenSeq(SubSeq(bytes, 1, m - 1)))]]
<1>1. b = [key |-> key, cid |-> FlattenSeq(bytes), members |-> members]
  BY DEF Bundle
<1>2. /\ Len(at) \in Nat /\ DOMAIN at = 1 .. Len(at)
      /\ \A m \in 1 .. Len(at) : at[m] \in 1 .. n
  <2>1. Lists(MembersAt(f, key), at)
    BY BundleAtIs
  <2>2. MembersAt(f, key) \subseteq 1 .. n
    BY DEF Readable, MembersAt
  <2> HIDE DEF at
  <2> QED BY <2>1, <2>2 DEF Lists
<1> HIDE DEF at, b
<1>3. \A m \in 1 .. Len(at) : bytes[m] = TensorBytes(f, at[m]) /\ bytes[m] \in Seq(ByteUnits) /\ bytes[m] # <<>>
  BY <1>2 DEF Readable
<1>4. bytes \in Seq(Seq(ByteUnits)) /\ Len(bytes) = Len(at) /\ DOMAIN bytes = 1 .. Len(at)
  <2> DEFINE T == Seq(ByteUnits)
  <2>1. bytes \in [1 .. Len(at) -> T]
    BY <1>2, <1>3
  <2> HIDE DEF T, bytes
  <2>2. bytes \in Seq(T) /\ Len(bytes) = Len(at) /\ DOMAIN bytes = 1 .. Len(at)
    BY <1>2, <2>1
  <2> QED BY <2>2 DEF T
<1>5. /\ DOMAIN members = 1 .. Len(at)
      /\ \A m \in 1 .. Len(at) :
           /\ members[m].name = f.index[at[m]].name
           /\ members[m].cid = bytes[m] /\ members[m].size = Len(bytes[m])
           /\ members[m].offset = Len(FlattenSeq(SubSeq(bytes, 1, m - 1)))
  <2> HIDE DEF bytes
  <2> QED BY <1>2
<1> HIDE DEF bytes
<1>5a. Len(members) = Len(at)
  BY <1>2, <1>5, LenProperties
<1> HIDE DEF members
<1>6. PICK e : Ends(bytes, e)
  BY <1>4, EndsExist
<1>7. EndsTyped(ByteUnits, bytes, e)
  BY <1>4, <1>6, EndsType
<1>8. Lies(ByteUnits, bytes, e, FlattenSeq(bytes))
  BY <1>4, <1>6, FlattenAt
<1>9. ASSUME NEW m \in 1 .. Len(at)
      PROVE  SubSeq(FlattenSeq(bytes), members[m].offset + 1, members[m].offset + members[m].size)
               = members[m].cid
  <2>1. m \in 1 .. Len(bytes) /\ m - 1 \in 0 .. Len(bytes)
    BY <1>2, <1>4
  <2>2. members[m].offset = e[m - 1]
    BY <1>4, <1>5, <1>6, <2>1, FlattenBegin
  <2>3. e[m] = e[m - 1] + Len(bytes[m])
    BY <1>7, <2>1 DEF EndsTyped
  <2>4. SubSeq(FlattenSeq(bytes), e[m - 1] + 1, e[m]) = bytes[m]
    BY <1>4, <1>6, <2>1, PieceOut
  <2> QED BY <1>5, <2>2, <2>3, <2>4
<1>10. Len(at) > 0 => FlattenSeq(bytes) # <<>>
  <2> SUFFICES ASSUME Len(at) > 0 PROVE FlattenSeq(bytes) # <<>>
    OBVIOUS
  <2>1. 1 \in 1 .. Len(at) /\ 1 \in 1 .. Len(bytes)
    BY <1>2, <1>4
  <2> DEFINE s == bytes[1]
             t == FlattenSeq(bytes)
  <2>2. s \in Seq(ByteUnits) /\ s # <<>>
    BY <1>3, <2>1
  <2>3. e[1] = e[0] + Len(s) /\ e[1] <= e[Len(bytes)] /\ e[0] \in Nat /\ e[Len(bytes)] \in Nat
    <3>1. 1 - 1 = 0 /\ 0 \in 0 .. Len(bytes) /\ Len(bytes) \in 0 .. Len(bytes)
      BY <1>2, <1>4
    <3> QED BY <1>7, <2>1, <3>1 DEF EndsTyped
  <2>4. t \in Seq(ByteUnits) /\ Len(t) = e[Len(bytes)]
    BY <1>8 DEF Lies
  <2> HIDE DEF s, t
  <2>5. Len(s) > 0 /\ Len(s) \in Nat
    BY <2>2
  <2>6. Len(t) > 0
    BY <2>3, <2>4, <2>5
  <2>7. t # <<>>
    BY <2>6
  <2> QED BY <2>7 DEF t
<1>11. b.key = key /\ b.cid = FlattenSeq(bytes) /\ b.members = members
  BY <1>1
<1>12. FlattenSeq(bytes) \in Seq(ByteUnits)
  BY <1>8 DEF Lies
<1>13. BundleOK(f, b, key, at)
  BY <1>3, <1>5, <1>5a, <1>9, <1>10, <1>11, <1>12 DEF BundleOK
<1> QED BY <1>13 DEF b, at

-----------------------------------------------------------------------------
(* The chunks of a GGUF.                                                      *)

\* No tensor of a model is empty.
LEMMA GgufReadable ==
  ASSUME NEW g \in Files
  PROVE  Readable(Gguf(g), Count(g))
<1>1. TensorsOK(g) /\ Count(g) \in Nat
  BY FileIs DEF TensorsOK
<1>2. ASSUME NEW i \in 1 .. Count(g)
      PROVE  TensorBytes(Gguf(g), i) \in Seq(ByteUnits) /\ TensorBytes(Gguf(g), i) # <<>>
  <2> DEFINE s == g.tensors[i].data
  <2>1. PICK z \in Nat : TensorBytes(Gguf(g), i) = s \o Zeros(z)
    BY GgufReads
  <2>2. s \in Seq(STRING) /\ s # <<>>
    BY <1>1 DEF TensorsOK
  <2> DEFINE t == Zeros(z)
  <2> HIDE DEF s, t
  <2>3. s \in Seq(ByteUnits) /\ "0" \in ByteUnits
    BY <2>2 DEF ByteUnits
  <2>4. t \in Seq(ByteUnits) /\ Len(t) = z
    BY <2>3, ZerosAre DEF t
  <2>5. s \o t \in Seq(ByteUnits) /\ Len(s \o t) = Len(s) + Len(t) /\ Len(s) > 0 /\ Len(t) \in Nat
    BY <2>2, <2>3, <2>4
  <2>6. s \o t # <<>>
    BY <2>2, <2>3, <2>4, <2>5
  <2> QED BY <2>1, <2>5, <2>6 DEF t
<1> QED BY <1>1, <1>2, GgufReads DEF Readable

\* The bundle of a tensor: a block's are the blocks that are there.
LEMMA KeyOf ==
  ASSUME NEW g \in Files, NEW i \in 1 .. Count(g)
  PROVE  LET name == g.tensors[i].name
             key == classify_tensor(name)
         IN /\ classify_tensor(Gguf(g).index[i].name) = key
            /\ key \in KeySet
            /\ key[1] = 1 <=> name.stem = "blk"
            /\ name.stem = "blk" => key = BlockKey(name.layer) /\ name.layer \in 0 .. g.layers - 1
            /\ name.stem = "token_embd" => key = EmbedKey
            /\ name.stem \notin {"blk", "token_embd"} => key = HeadKey
<1> DEFINE name == g.tensors[i].name
<1>1. Gguf(g).index[i].name = name
  BY GgufReads
<1>2. g.layers \in Nat /\ name.layer \in IF name.stem = "blk" THEN 0 .. g.layers - 1 ELSE {-1}
  BY FileIs DEF TensorsOK
<1> HIDE DEF name
<1>3. CASE name.stem = "blk"
  <2>1. name.layer \in 0 .. g.layers - 1 /\ name.layer >= 0 /\ name.layer \in Nat
    BY <1>2, <1>3
  <2>2. classify_tensor(name) = BlockKey(name.layer)
    BY <1>3, <2>1 DEF classify_tensor
  <2> QED BY <1>1, <1>3, <2>1, <2>2 DEF KeySet, BlockKey, name
<1>4. CASE name.stem = "token_embd"
  <2>1. classify_tensor(name) = EmbedKey
    BY <1>4 DEF classify_tensor
  <2> QED BY <1>1, <1>4, <2>1 DEF KeySet, EmbedKey, name
<1>5. CASE name.stem \notin {"blk", "token_embd"}
  <2>1. classify_tensor(name) = HeadKey
    BY <1>5 DEF classify_tensor
  <2> QED BY <1>1, <1>5, <2>1 DEF KeySet, HeadKey, name
<1> QED BY <1>3, <1>4, <1>5

\* The keys of a model are finitely many.
LEMMA KeysAre ==
  ASSUME NEW g \in Files
  PROVE  KeysOf(Gguf(g)) \in SUBSET KeySet /\ IsFiniteSet(KeysOf(Gguf(g)))
<1> DEFINE n == Count(g)
           f == Gguf(g)
           k == [i \in 1 .. n |-> classify_tensor(f.index[i].name)]
<1>1. n \in Nat /\ DOMAIN f.index = 1 .. n
  BY GgufReadable DEF Readable
<1>2. k \in [1 .. n -> KeysOf(f)] /\ \A x \in KeysOf(f) : \E i \in 1 .. n : k[i] = x
  BY <1>1 DEF KeysOf
<1>3. k \in Surjection(1 .. n, KeysOf(f))
  BY <1>2 DEF Surjection
<1>4. IsFiniteSet(1 .. n)
  BY <1>1, FS_Interval
<1> HIDE DEF k, n
<1>5. IsFiniteSet(KeysOf(f))
  BY <1>3, <1>4, FS_Surjection
<1>6. KeysOf(f) \in SUBSET KeySet
  BY <1>1, KeyOf DEF KeysOf, n
<1> QED BY <1>5, <1>6

KeyList(g) == Ordered(KeysOf(Gguf(g)), KeyBefore)
BundlesOf(g) == [b \in DOMAIN KeyList(g) |-> Bundle(Gguf(g), KeyList(g)[b])]
CidsOf(g) == {BundlesOf(g)[b].cid : b \in DOMAIN BundlesOf(g)}

\* What is known of a model whose chunks are C.
Manifest(g, C) ==
  [n_layers |-> g.layers, alignment |-> g.alignment, header |-> Gguf(g).kv,
   bundles |-> BundlesOf(g), header_chunk |-> Gguf(g).kv, chunks |-> C]

\* The same with a header chunk that has lost its end.
HeaderCut(g, C) ==
  [Manifest(g, C) EXCEPT !.header_chunk = SubSeq(Gguf(g).kv, 1, Len(Gguf(g).kv) - 1)]

\* The layers that are counted are those the model has.
LEMMA NLayersIs ==
  ASSUME NEW g \in Files
  PROVE  NLayers(Gguf(g)) = g.layers
<1> DEFINE f == Gguf(g)
           Blocks == {j \in DOMAIN f.index : classify_tensor(f.index[j].name)[1] = 1}
           S == {classify_tensor(f.index[i].name)[2] + 1 : i \in Blocks}
<1>1. /\ g.layers \in Nat /\ g.layers > 0 /\ DOMAIN f.index = 1 .. Count(g)
      /\ TensorsOK(g) /\ KvOK(g, f.kv, g.layers)
  BY FileIs, GgufReads
<1>2. NLayers(f) = KvValue(f, "block_count", Last0(S, 0))
  BY DEF NLayers
<1>3. NLayers(f) = IF g.counted THEN g.layers ELSE Last0(S, 0)
  BY <1>1, <1>2, KvReads
<1> HIDE DEF f
<1>4. \A l \in 0 .. g.layers - 1 : l + 1 \in S
  <2> SUFFICES ASSUME NEW l \in 0 .. g.layers - 1 PROVE l + 1 \in S
    OBVIOUS
  <2>1. PICK i \in 1 .. Count(g) : g.tensors[i].name.stem = "blk" /\ g.tensors[i].name.layer = l
    BY <1>1 DEF TensorsOK
  <2>2. classify_tensor(f.index[i].name) = BlockKey(l)
    BY <2>1, KeyOf DEF f
  <2>3. i \in Blocks /\ classify_tensor(f.index[i].name)[2] + 1 = l + 1
    BY <1>1, <2>2 DEF BlockKey
  <2> HIDE DEF Blocks
  <2> QED BY <2>3
<1>5. \A x \in S : x \in 1 .. g.layers
  <2> SUFFICES ASSUME NEW i \in Blocks
               PROVE classify_tensor(f.index[i].name)[2] + 1 \in 1 .. g.layers
    OBVIOUS
  <2>1. i \in 1 .. Count(g) /\ classify_tensor(f.index[i].name)[1] = 1
    BY <1>1
  <2>2. PICK l \in 0 .. g.layers - 1 : classify_tensor(f.index[i].name) = BlockKey(l)
    BY <2>1, KeyOf DEF f
  <2> QED BY <1>1, <2>2 DEF BlockKey
<1> HIDE DEF S
<1>6. Max(S) = g.layers /\ S # {}
  <2>1. g.layers \in S
    <3>1. g.layers - 1 \in 0 .. g.layers - 1 /\ (g.layers - 1) + 1 = g.layers
      BY <1>1
    <3> QED BY <1>4, <3>1
  <2>2. S \subseteq Nat /\ \A x \in S : x <= g.layers
    BY <1>1, <1>5
  <2> QED BY <2>1, <2>2, GreatestIs
<1>7. Last0(S, 0) = g.layers
  BY <1>6 DEF Last0
<1> QED BY <1>3, <1>7 DEF f

\* The manifest of a model that is split.
LEMMA ChunkGgufIs ==
  ASSUME NEW g \in Files
  PROVE  chunk_gguf(Gguf(g)) = Manifest(g, [cid \in CidsOf(g) |-> cid])
<1>1. NLayers(Gguf(g)) = g.layers /\ Alignment(Gguf(g)) = g.alignment
  BY NLayersIs, GgufReads
<1> QED BY <1>1, Zenon DEF chunk_gguf, Manifest, CidsOf, BundlesOf, KeyList, KeysOf

\* The bundles of a model.
LEMMA BundlesAre ==
  ASSUME NEW g \in Files
  PROVE  /\ Lists(KeysOf(Gguf(g)), KeyList(g))
         /\ DOMAIN BundlesOf(g) = 1 .. Len(KeyList(g)) /\ Len(BundlesOf(g)) = Len(KeyList(g))
         /\ \A b \in 1 .. Len(KeyList(g)) :
              LET key == KeyList(g)[b]
                  at == BundleAt(Gguf(g), key)
              IN /\ BundlesOf(g)[b] = Bundle(Gguf(g), key)
                 /\ BundleOK(Gguf(g), BundlesOf(g)[b], key, at)
                 /\ Lists(MembersAt(Gguf(g), key), at)
                 /\ BundlesOf(g)[b].cid \in Seq(ByteUnits) /\ BundlesOf(g)[b].cid # <<>>
                 /\ BundlesOf(g)[b].cid \in CidsOf(g)
<1> DEFINE f == Gguf(g)
           ks == KeyList(g)
<1>1. Lists(KeysOf(f), ks)
  BY KeysAre, KeyLists DEF KeyList
<1>2. DOMAIN ks = 1 .. Len(ks) /\ Len(ks) \in Nat
  BY <1>1 DEF Lists
<1>3. DOMAIN BundlesOf(g) = 1 .. Len(ks) /\ \A b \in 1 .. Len(ks) : BundlesOf(g)[b] = Bundle(f, ks[b])
  BY <1>2 DEF BundlesOf
<1>4. Len(BundlesOf(g)) = Len(ks)
  BY <1>2, <1>3, LenProperties
<1>5. ASSUME NEW b \in 1 .. Len(ks)
      PROVE  /\ BundlesOf(g)[b] = Bundle(f, ks[b])
             /\ BundleOK(f, BundlesOf(g)[b], ks[b], BundleAt(f, ks[b]))
             /\ Lists(MembersAt(f, ks[b]), BundleAt(f, ks[b]))
             /\ BundlesOf(g)[b].cid \in Seq(ByteUnits) /\ BundlesOf(g)[b].cid # <<>>
             /\ BundlesOf(g)[b].cid \in CidsOf(g)
  <2>1. Readable(f, Count(g))
    BY GgufReadable
  <2>2. BundleOK(f, BundlesOf(g)[b], ks[b], BundleAt(f, ks[b]))
    BY <1>3, <2>1, BundleIs
  <2>3. Lists(MembersAt(f, ks[b]), BundleAt(f, ks[b]))
    BY <2>1, BundleAtIs
  <2>4. Len(BundleAt(f, ks[b])) > 0
    <3>1. ks[b] \in KeysOf(f)
      BY <1>1 DEF Lists
    <3>2. PICK i : i \in MembersAt(f, ks[b])
      BY <3>1 DEF KeysOf, MembersAt
    <3>3. PICK k \in 1 .. Len(BundleAt(f, ks[b])) : TRUE
      BY <2>3, <3>2 DEF Lists
    <3>4. Len(BundleAt(f, ks[b])) \in Nat
      BY <2>3 DEF Lists
    <3> QED BY <3>3, <3>4
  <2>5. BundlesOf(g)[b].cid \in CidsOf(g)
    BY <1>3 DEF CidsOf
  <2>6. BundlesOf(g)[b].cid \in Seq(ByteUnits) /\ BundlesOf(g)[b].cid # <<>>
    BY <2>2, <2>4 DEF BundleOK
  <2> QED BY <1>3, <2>2, <2>3, <2>5, <2>6
<1> QED BY <1>1, <1>3, <1>4, <1>5

-----------------------------------------------------------------------------
(* What the stitcher picks.                                                   *)

\* A chunk is whole or has lost its end.
ChunksOK(g, C) ==
  /\ DOMAIN C \subseteq CidsOf(g)
  /\ \A cid \in DOMAIN C : C[cid] = cid \/ C[cid] = SubSeq(cid, 1, Len(cid) - 1)

WantedKeys(g, r) == {key \in KeysOf(Gguf(g)) : Includes(key, r, g.layers)}
WantedAt(g, r) ==
  {i \in 1 .. Count(g) : Includes(classify_tensor(g.tensors[i].name), r, g.layers)}
EntryOf(g, r, i) ==
  [name |-> rename_tensor(g.tensors[i].name, r[1]), bytes |-> TensorBytes(Gguf(g), i)]

\* What is cut is shorter.
LEMMA CutShorter ==
  ASSUME NEW S, NEW s \in Seq(S), s # <<>>
  PROVE  /\ SubSeq(s, 1, Len(s) - 1) \in Seq(S) /\ Len(SubSeq(s, 1, Len(s) - 1)) # Len(s)
         /\ SubSeq(s, 1, Len(s) - 1) # s
<1> DEFINE m == Len(s) - 1
<1>1. Len(s) \in Nat /\ m \in Nat /\ m <= Len(s) /\ m # Len(s)
  <2>1. Len(s) \in Nat /\ Len(s) # 0
    BY EmptySeq
  <2> QED BY <2>1
<1> HIDE DEF m
<1>2. SubSeq(s, 1, m) \in Seq(S) /\ Len(SubSeq(s, 1, m)) = m
  <2>1. \A k \in 1 .. m : s[k] \in S
    BY <1>1
  <2>2. SubSeq(s, 1, m) = [k \in 1 .. m |-> s[k]]
    BY <1>1
  <2> QED BY <1>1, <2>1, <2>2
<1>3. SubSeq(s, 1, m) # s
  BY <1>1, <1>2
<1> QED BY <1>1, <1>2, <1>3 DEF m

\* A chunk of the length that is asked for is whole.
LEMMA SizedIsWhole ==
  ASSUME NEW g \in Files, NEW C, ChunksOK(g, C), NEW b \in 1 .. Len(KeyList(g)),
         Sized(Manifest(g, C), BundlesOf(g)[b])
  PROVE  C[BundlesOf(g)[b].cid] = BundlesOf(g)[b].cid
<1> DEFINE cid == BundlesOf(g)[b].cid
<1>1. cid \in Seq(ByteUnits) /\ cid # <<>>
  BY BundlesAre
<1>2. cid \in DOMAIN C /\ Len(C[cid]) = Len(cid)
  BY DEF Sized, Manifest
<1> HIDE DEF cid
<1>3. C[cid] = cid \/ C[cid] = SubSeq(cid, 1, Len(cid) - 1)
  BY <1>2 DEF ChunksOK
<1>4. Len(SubSeq(cid, 1, Len(cid) - 1)) # Len(cid)
  BY <1>1, CutShorter
<1> QED BY <1>2, <1>3, <1>4 DEF cid

\* The chosen bundles are those at the places `at` of the manifest.
ChosenAt(g, C, r, at) ==
  /\ Lists(WantedKeys(g, r), [k \in 1 .. Len(at) |-> KeyList(g)[at[k]]])
  /\ Len([k \in 1 .. Len(at) |-> KeyList(g)[at[k]]]) = Len(at) /\ Len(at) \in Nat
  /\ \A k \in 1 .. Len(at) : at[k] \in 1 .. Len(KeyList(g))
  /\ Chosen(Manifest(g, C), r, g.layers) = [k \in 1 .. Len(at) |-> BundlesOf(g)[at[k]]]

\* The stitcher chooses the bundles of the range, each once.
LEMMA ChosenIs ==
  ASSUME NEW g \in Files, NEW C, NEW r
  PROVE  \E at : ChosenAt(g, C, r, at)
<1> DEFINE ks == KeyList(g)
           n == Len(ks)
           S == {b \in 1 .. n : Includes(ks[b], r, g.layers)}
           at == Ordered(S, Less)
           kk == [k \in 1 .. Len(at) |-> ks[at[k]]]
<1>1. /\ Lists(KeysOf(Gguf(g)), ks) /\ n \in Nat /\ DOMAIN BundlesOf(g) = 1 .. n
      /\ \A b \in 1 .. n : BundlesOf(g)[b].key = ks[b]
  <2>1. \A b \in 1 .. n : BundleOK(Gguf(g), BundlesOf(g)[b], ks[b], BundleAt(Gguf(g), ks[b]))
    BY BundlesAre
  <2> QED BY <2>1, BundlesAre DEF BundleOK, Lists
<1>2. Lists(S, at)
  <2>1. S \in SUBSET (1 .. n)
    OBVIOUS
  <2> HIDE DEF S, n
  <2> QED BY <1>1, <2>1, LessLists
<1>3. Chosen(Manifest(g, C), r, g.layers) = [k \in DOMAIN at |-> BundlesOf(g)[at[k]]]
  <2> DEFINE d == Manifest(g, C)
  <2>1. d.bundles = BundlesOf(g)
    BY DEF Manifest
  <2> HIDE DEF d
  <2>2. {b \in DOMAIN d.bundles : Includes(d.bundles[b].key, r, g.layers)} = S
    BY <1>1, <2>1
  <2> HIDE DEF S
  <2> QED BY <2>1, <2>2 DEF Chosen, d
<1> HIDE DEF at
<1>4. /\ DOMAIN at = 1 .. Len(at) /\ Len(at) \in Nat /\ \A k \in 1 .. Len(at) : at[k] \in S
      /\ \A b \in S : \E k \in 1 .. Len(at) : at[k] = b
      /\ \A i, j \in 1 .. Len(at) : i # j => at[i] # at[j]
  BY <1>2 DEF Lists
<1>5. \A k \in 1 .. Len(at) : kk[k] = ks[at[k]] /\ kk[k] \in WantedKeys(g, r)
  <2> SUFFICES ASSUME NEW k \in 1 .. Len(at) PROVE ks[at[k]] \in WantedKeys(g, r)
    OBVIOUS
  <2>1. at[k] \in 1 .. n /\ Includes(ks[at[k]], r, g.layers)
    BY <1>4
  <2>2. ks[at[k]] \in KeysOf(Gguf(g))
    BY <1>1, <2>1 DEF Lists
  <2> QED BY <2>1, <2>2 DEF WantedKeys
<1>6. Len(kk) = Len(at) /\ DOMAIN kk = 1 .. Len(at) /\ kk \in Seq(WantedKeys(g, r))
  <2>1. kk \in [1 .. Len(at) -> WantedKeys(g, r)]
    BY <1>5
  <2> HIDE DEF kk
  <2> QED BY <1>4, <2>1
<1>7. \A x \in WantedKeys(g, r) : \E k \in 1 .. Len(at) : kk[k] = x
  <2> SUFFICES ASSUME NEW x \in WantedKeys(g, r) PROVE \E k \in 1 .. Len(at) : kk[k] = x
    OBVIOUS
  <2>1. x \in KeysOf(Gguf(g)) /\ Includes(x, r, g.layers)
    BY DEF WantedKeys
  <2>2. PICK b \in 1 .. n : ks[b] = x
    BY <1>1, <2>1 DEF Lists
  <2>3. b \in S
    BY <2>1, <2>2
  <2>4. PICK k \in 1 .. Len(at) : at[k] = b
    BY <1>4, <2>3
  <2> QED BY <1>5, <2>2, <2>4
<1>8. \A i, j \in 1 .. Len(at) : i # j => kk[i] # kk[j]
  <2> SUFFICES ASSUME NEW i \in 1 .. Len(at), NEW j \in 1 .. Len(at), i # j PROVE kk[i] # kk[j]
    OBVIOUS
  <2>1. at[i] \in 1 .. n /\ at[j] \in 1 .. n /\ at[i] # at[j]
    BY <1>4
  <2> QED BY <1>1, <1>5, <2>1 DEF Lists
<1>9. Lists(WantedKeys(g, r), kk)
  <2> HIDE DEF kk
  <2> QED BY <1>4, <1>5, <1>6, <1>7, <1>8 DEF Lists
<1>10. \A k \in 1 .. Len(at) : at[k] \in 1 .. n
  BY <1>4
<1>11. ChosenAt(g, C, r, at)
  BY <1>3, <1>4, <1>6, <1>9, <1>10 DEF ChosenAt
<1> QED BY <1>11

AllSized(g, C, r) ==
  \A b \in ToSet(Chosen(Manifest(g, C), r, g.layers)) : Sized(Manifest(g, C), b)

\* A sequence over a set is one over a larger set.
LEMMA WiderSeq ==
  ASSUME NEW S, NEW T, S \subseteq T, NEW s \in Seq(S)
  PROVE  s \in Seq(T)
<1>1. Len(s) \in Nat /\ s \in [1 .. Len(s) -> S]
  OBVIOUS
<1>2. s \in [1 .. Len(s) -> T]
  BY <1>1
<1> QED BY <1>1, <1>2

EntriesOf(g, r, at) == [m \in 1 .. Len(at) |-> EntryOf(g, r, at[m])]

\* A bundle of whole bytes is cut into its tensors.
LEMMA CutOutIs ==
  ASSUME NEW g \in Files, NEW C, ChunksOK(g, C), NEW r, NEW b \in 1 .. Len(KeyList(g)),
         Sized(Manifest(g, C), BundlesOf(g)[b])
  PROVE  CutOut(Manifest(g, C), BundlesOf(g)[b], r)
           = EntriesOf(g, r, BundleAt(Gguf(g), KeyList(g)[b]))
<1> DEFINE f == Gguf(g)
           at == BundleAt(f, KeyList(g)[b])
           bb == BundlesOf(g)[b]
           key == KeyList(g)[b]
<1>1. BundleOK(f, bb, key, at) /\ Lists(MembersAt(f, key), at)
  BY BundlesAre
<1>2. C[bb.cid] = bb.cid
  BY SizedIsWhole
<1>3. Manifest(g, C).chunks = C
  BY DEF Manifest
<1> HIDE DEF bb, at
<1>4. ASSUME NEW m \in 1 .. Len(at)
      PROVE  [name |-> rename_tensor(bb.members[m].name, r[1]),
              bytes |-> SubSeq(C[bb.cid], bb.members[m].offset + 1,
                               bb.members[m].offset + bb.members[m].size)] = EntryOf(g, r, at[m])
  <2>1. /\ bb.members[m].name = f.index[at[m]].name
        /\ SubSeq(bb.cid, bb.members[m].offset + 1, bb.members[m].offset + bb.members[m].size)
             = TensorBytes(f, at[m])
    BY <1>1 DEF BundleOK
  <2>2. at[m] \in 1 .. Count(g) /\ f.index[at[m]].name = g.tensors[at[m]].name
    <3>1. at[m] \in DOMAIN f.index
      BY <1>1 DEF Lists, MembersAt
    <3> QED BY <3>1, GgufReads
  <2> HIDE DEF f
  <2> QED BY <1>2, <2>1, <2>2, Zenon DEF EntryOf, f
<1>5. DOMAIN bb.members = 1 .. Len(at)
  BY <1>1 DEF BundleOK
<1> HIDE DEF f
<1> QED BY <1>3, <1>4, <1>5, Zenon DEF CutOut, EntriesOf, bb, at, f

\* What the stitcher picks, if every chunk has its length: the tensors of the range.
PicksAll(g, C, r, src) ==
  /\ Lists(WantedAt(g, r), src)
  /\ Picked(Manifest(g, C), r, g.layers) = [q \in 1 .. Len(src) |-> EntryOf(g, r, src[q])]

\* It cuts every tensor of the range out of them, each once.
LEMMA PickedIs ==
  ASSUME NEW g \in Files, NEW C, ChunksOK(g, C), NEW r, AllSized(g, C, r)
  PROVE  \E src : PicksAll(g, C, r, src)
<1> DEFINE f == Gguf(g)
           d == Manifest(g, C)
           n == Count(g)
           ks == KeyList(g)
           chosen == Chosen(d, r, g.layers)
<1>0. PICK at : ChosenAt(g, C, r, at)
  BY ChosenIs
<1>1. /\ Lists(WantedKeys(g, r), [k \in 1 .. Len(at) |-> ks[at[k]]])
      /\ Len([k \in 1 .. Len(at) |-> ks[at[k]]]) = Len(at) /\ Len(at) \in Nat
      /\ \A k \in 1 .. Len(at) : at[k] \in 1 .. Len(ks)
      /\ chosen = [k \in 1 .. Len(at) |-> BundlesOf(g)[at[k]]]
  BY <1>0 DEF ChosenAt
<1> DEFINE l == Len(at)
           kk == [k \in 1 .. l |-> ks[at[k]]]
           ii == [k \in 1 .. l |-> BundleAt(f, kk[k])]
           part == [k \in 1 .. l |-> MembersAt(f, kk[k])]
           h == [i \in 1 .. n |-> EntryOf(g, r, i)]
           src == FlattenSeq(ii)
           cc == [k \in 1 .. l |-> CutOut(d, chosen[k], r)]
<1>2. l \in Nat /\ Lists(WantedKeys(g, r), kk) /\ Len(kk) = l
  BY <1>1
<1>3. n \in Nat /\ DOMAIN f.index = 1 .. n
  BY FileIs, GgufReads DEF TensorsOK
<1>4. \A k \in 1 .. l : Lists(part[k], ii[k])
  <2> SUFFICES ASSUME NEW k \in 1 .. l PROVE Lists(MembersAt(f, kk[k]), BundleAt(f, kk[k]))
    OBVIOUS
  <2>1. at[k] \in 1 .. Len(ks) /\ kk[k] = ks[at[k]]
    BY <1>1
  <2> QED BY <2>1, BundlesAre
<1>5. ii \in Seq(Seq(1 .. n)) /\ Len(ii) = l
  <2>1. ASSUME NEW k \in 1 .. l PROVE ii[k] \in Seq(1 .. n)
    <3>1. Lists(part[k], ii[k]) /\ part[k] \subseteq 1 .. n
      BY <1>3, <1>4 DEF MembersAt
    <3>2. ii[k] \in Seq(part[k])
      BY <3>1 DEF Lists
    <3> HIDE DEF part, ii, n
    <3> QED BY <3>1, <3>2, WiderSeq
  <2>2. ii \in [1 .. l -> Seq(1 .. n)]
    BY <2>1
  <2> HIDE DEF ii, l
  <2> QED BY <1>2, <2>2
<1>6. \A x : x \in WantedAt(g, r) <=> \E k \in 1 .. l : x \in part[k]
  <2>1. ASSUME NEW x \in WantedAt(g, r) PROVE \E k \in 1 .. l : x \in part[k]
    <3>1. /\ x \in 1 .. n /\ Includes(classify_tensor(g.tensors[x].name), r, g.layers)
          /\ classify_tensor(f.index[x].name) = classify_tensor(g.tensors[x].name)
      BY KeyOf DEF WantedAt
    <3>2. classify_tensor(f.index[x].name) \in WantedKeys(g, r)
      BY <1>3, <3>1 DEF WantedKeys, KeysOf
    <3>3. PICK k \in 1 .. l : kk[k] = classify_tensor(f.index[x].name)
      <4> HIDE DEF kk
      <4> QED BY <1>2, <3>2 DEF Lists
    <3> QED BY <1>3, <3>1, <3>3 DEF MembersAt
  <2>2. ASSUME NEW x, NEW k \in 1 .. l, x \in part[k] PROVE x \in WantedAt(g, r)
    <3>1. x \in 1 .. n /\ classify_tensor(f.index[x].name) = kk[k]
      BY <1>3, <2>2 DEF MembersAt
    <3>2. Includes(kk[k], r, g.layers)
      <4>1. kk[k] \in WantedKeys(g, r)
        <5> HIDE DEF kk
        <5> QED BY <1>2 DEF Lists
      <4> QED BY <4>1 DEF WantedKeys
    <3>3. classify_tensor(g.tensors[x].name) = kk[k]
      BY <3>1, KeyOf
    <3> QED BY <3>1, <3>2, <3>3 DEF WantedAt
  <2> QED BY <2>1, <2>2
<1>7. \A j, k \in 1 .. l : j # k => part[j] \cap part[k] = {}
  <2> SUFFICES ASSUME NEW j \in 1 .. l, NEW k \in 1 .. l, j # k, NEW x \in part[j], x \in part[k]
               PROVE FALSE
    OBVIOUS
  <2>1. classify_tensor(f.index[x].name) = kk[k] /\ classify_tensor(f.index[x].name) = kk[j]
    BY DEF MembersAt
  <2>2. kk[j] # kk[k]
    <3> HIDE DEF kk
    <3> QED BY <1>2 DEF Lists
  <2> QED BY <2>1, <2>2
<1>8. Lists(WantedAt(g, r), src)
  <2> HIDE DEF part, ii, l, kk, n
  <2> QED BY <1>4, <1>5, <1>6, <1>7, FlattenLists
<1>9. \A k \in 1 .. l : CutOut(d, chosen[k], r) = [m \in 1 .. Len(ii[k]) |-> h[ii[k][m]]]
  <2> SUFFICES ASSUME NEW k \in 1 .. l
               PROVE CutOut(d, chosen[k], r) = [m \in 1 .. Len(ii[k]) |-> h[ii[k][m]]]
    OBVIOUS
  <2>1. /\ at[k] \in 1 .. Len(ks) /\ chosen[k] = BundlesOf(g)[at[k]]
        /\ ii[k] = BundleAt(f, ks[at[k]]) /\ chosen[k] \in ToSet(chosen)
    <3>1. at[k] \in 1 .. Len(ks) /\ chosen[k] = BundlesOf(g)[at[k]]
      BY <1>1
    <3>2. ii[k] = BundleAt(f, kk[k]) /\ kk[k] = ks[at[k]]
      OBVIOUS
    <3>3. k \in DOMAIN chosen
      BY <1>1
    <3>4. chosen[k] \in ToSet(chosen)
      BY <3>3, Zenon DEF ToSet
    <3> QED BY <3>1, <3>2, <3>4
  <2>2. Sized(d, BundlesOf(g)[at[k]])
    BY <2>1 DEF AllSized
  <2> DEFINE t == ii[k]
  <2>3. CutOut(d, chosen[k], r) = [m \in 1 .. Len(t) |-> EntryOf(g, r, t[m])]
    <3>1. PICK b \in 1 .. Len(ks) : b = at[k]
      BY <2>1
    <3>2. CutOut(d, BundlesOf(g)[b], r) = EntriesOf(g, r, BundleAt(f, ks[b]))
      BY <2>2, <3>1, CutOutIs
    <3>3. chosen[k] = BundlesOf(g)[b] /\ t = BundleAt(f, ks[b])
      BY <2>1, <3>1
    <3> HIDE DEF t
    <3> QED BY <3>2, <3>3 DEF EntriesOf
  <2>4. \A m \in 1 .. Len(t) : t[m] \in 1 .. n
    <3>1. Lists(part[k], t) /\ part[k] \subseteq 1 .. n
      BY <1>3, <1>4 DEF MembersAt
    <3> HIDE DEF t, part, n
    <3> QED BY <3>1 DEF Lists
  <2> HIDE DEF t
  <2>5. \A m \in 1 .. Len(t) : h[t[m]] = EntryOf(g, r, t[m])
    BY <2>4
  <2> HIDE DEF h
  <2> QED BY <2>3, <2>5 DEF t
<1>10. Picked(d, r, g.layers) = FlattenSeq(cc)
  <2>1. DOMAIN chosen = 1 .. l
    BY <1>1
  <2> QED BY <2>1 DEF Picked
<1>11. cc = MappedBy(h, ii)
  <2> HIDE DEF h, ii, l, d, chosen
  <2> QED BY <1>5, <1>9 DEF MappedBy
<1>12. FlattenSeq(cc) = [q \in 1 .. Len(src) |-> h[src[q]]]
  <2> HIDE DEF h, ii, l, cc
  <2>3. FlattenSeq(MappedBy(h, ii)) = ValuesOf(h, FlattenSeq(ii))
    BY <1>5, FlattenMaps
  <2> QED BY <1>11, <2>3 DEF ValuesOf
<1>13. \A q \in 1 .. Len(src) : h[src[q]] = EntryOf(g, r, src[q])
  <2>1. \A q \in 1 .. Len(src) : src[q] \in 1 .. n
    <3> HIDE DEF src
    <3> QED BY <1>8 DEF Lists, WantedAt
  <2> HIDE DEF src
  <2> QED BY <2>1
<1>14. [q \in 1 .. Len(src) |-> h[src[q]]] = [q \in 1 .. Len(src) |-> EntryOf(g, r, src[q])]
  <2> HIDE DEF h, src
  <2> QED BY <1>13
<1>15. PicksAll(g, C, r, src)
  <2> HIDE DEF src, h, cc
  <2> QED BY <1>8, <1>10, <1>12, <1>14 DEF PicksAll
<1> QED BY <1>15

\* What is left when a multiple is taken away.
LEMMA ModIs ==
  ASSUME NEW a \in Nat \ {0}, NEW q \in Nat, NEW x \in 0 .. a - 1
  PROVE  (a * q + x) % a = x
OBVIOUS

\* Division with remainder.
LEMMA ModSplits ==
  ASSUME NEW a \in Nat \ {0}, NEW n \in Nat
  PROVE  \E q \in Nat : \E x \in 0 .. a - 1 : n = a * q + x /\ n % a = x
<1>1. n \div a \in Nat /\ n % a \in 0 .. a - 1 /\ n = a * (n \div a) + (n % a)
  OBVIOUS
<1> QED BY <1>1

\* The one product rule the padding needs.
LEMMA Distributes ==
  ASSUME NEW a \in Nat, NEW p \in Nat, NEW q \in Nat
  PROVE  a * (p + q) = a * p + a * q /\ a * p \in Nat
OBVIOUS

\* A position that is padded is a multiple of the alignment,
LEMMA AlignedMod ==
  ASSUME NEW a \in Nat \ {0}, NEW n \in Nat
  PROVE  AlignUp(n, a) % a = 0
<1>1. PICK q \in Nat, x \in 0 .. a - 1 : n = a * q + x /\ n % a = x
  BY ModSplits
<1>2. CASE x = 0
  BY <1>1, <1>2 DEF AlignUp
<1>3. CASE x # 0
  <2>1. AlignUp(n, a) = a * q + a
    <3>1. a * q \in Nat
      OBVIOUS
    <3>2. AlignUp(n, a) = n + a - x
      BY <1>1, <1>3 DEF AlignUp
    <3> QED BY <1>1, <3>1, <3>2
  <2>2. a * q + a = a * (q + 1) + 0
    BY Distributes
  <2>3. (a * (q + 1) + 0) % a = 0
    BY ModIs
  <2> QED BY <2>1, <2>2, <2>3
<1> QED BY <1>2, <1>3

\* and padding from there on is padding from 0 on.
LEMMA AlignShift ==
  ASSUME NEW a \in Nat \ {0}, NEW d \in Nat, d % a = 0, NEW n \in Nat
  PROVE  AlignUp(d + n, a) = d + AlignUp(n, a)
<1>1. PICK p \in Nat, y \in 0 .. a - 1 : d = a * p + y /\ d % a = y
  BY ModSplits
<1>2. PICK q \in Nat, x \in 0 .. a - 1 : n = a * q + x /\ n % a = x
  BY ModSplits
<1>3. (d + n) % a = x
  <2>1. a * p \in Nat /\ a * q \in Nat
    OBVIOUS
  <2>2. d + n = a * p + a * q + x
    BY <1>1, <1>2, <2>1
  <2>3. d + n = a * (p + q) + x
    BY <2>2, Distributes
  <2>4. (a * (p + q) + x) % a = x
    BY ModIs
  <2> QED BY <2>3, <2>4
<1>4. d + n \in Nat /\ x \in Int /\ a # 0
  OBVIOUS
<1> QED BY <1>2, <1>3, <1>4 DEF AlignUp

-----------------------------------------------------------------------------
(* What the stitcher writes, for the tensors src.                             *)

SliceKv(g, r) == StitchedKv(Manifest(g, <<>>), r, g.layers)
SlicePicked(g, r, src) == [q \in 1 .. Len(src) |-> EntryOf(g, r, src[q])]
BytesAt(g, src, q) == TensorBytes(Gguf(g), src[q])
SliceSizes(g, src) == [q \in 1 .. Len(src) |-> Len(BytesAt(g, src, q))]
SliceAt(g, src) == Laid(SliceSizes(g, src), g.alignment)
SliceHeader(g, r, src) == 3 + Len(SliceKv(g, r)) + Len(src)
SliceData(g, r, src) == AlignUp(SliceHeader(g, r, src), g.alignment)
SlicePos(g, r, src) == WrittenTo(SliceData(g, r, src), SlicePicked(g, r, src), g.alignment)
SlicePad(g, r, src) ==
  [k \in 1 .. Len(src) |->
     SlicePos(g, r, src)[k] - SlicePos(g, r, src)[k - 1] - Len(BytesAt(g, src, k))]
SliceFile(g, r, src) ==
  [kv |-> SliceKv(g, r),
   index |-> [k \in 1 .. Len(src) |-> [name |-> rename_tensor(g.tensors[src[k]].name, r[1]),
                                       offset |-> SliceAt(g, src)[k - 1]]],
   body |-> Zeros(SliceData(g, r, src) - SliceHeader(g, r, src))
            \o FlattenSeq([k \in 1 .. Len(src) |->
                             BytesAt(g, src, k) \o Zeros(SlicePad(g, r, src)[k])])]

\* Every layer has a tensor, so there is something to write.
SliceOf(g, r, src) == Lists(WantedAt(g, r), src)

\* What is known of the tensors of a slice.
LEMMA SliceType ==
  ASSUME NEW g \in Files, NEW r \in HostRanges, NEW src, SliceOf(g, r, src)
  PROVE  /\ Len(src) \in Nat /\ Len(src) > 0 /\ DOMAIN src = 1 .. Len(src)
         /\ r[1] \in Nat /\ r[2] \in Nat /\ r[1] < r[2] /\ r[2] <= g.layers
         /\ \A k \in 1 .. Len(src) :
              /\ src[k] \in 1 .. Count(g) /\ BytesAt(g, src, k) \in Seq(ByteUnits)
              /\ BytesAt(g, src, k) # <<>> /\ Len(BytesAt(g, src, k)) \in Nat
<1>1. Len(src) \in Nat /\ DOMAIN src = 1 .. Len(src)
  BY DEF SliceOf, Lists
<1>2. r[1] \in Nat /\ r[2] \in Nat /\ r[1] < r[2] /\ r[2] <= g.layers
  BY FormatAssumption
<1>3. g.layers \in Nat /\ TensorsOK(g)
  BY FileIs
<1>4. r[1] \in 0 .. g.layers - 1
  BY <1>2, <1>3
<1>5. PICK i \in 1 .. Count(g) : g.tensors[i].name.stem = "blk" /\ g.tensors[i].name.layer = r[1]
  BY <1>3, <1>4 DEF TensorsOK
<1>6. classify_tensor(g.tensors[i].name) = BlockKey(r[1])
  BY <1>5, KeyOf
<1>7. Includes(BlockKey(r[1]), r, g.layers)
  BY <1>2 DEF Includes, BlockKey
<1>8. i \in WantedAt(g, r)
  BY <1>6, <1>7 DEF WantedAt
<1>9. PICK k \in 1 .. Len(src) : src[k] = i
  BY <1>8 DEF SliceOf, Lists
<1>10. Len(src) > 0
  BY <1>1, <1>9
<1>11. \A q \in 1 .. Len(src) : src[q] \in 1 .. Count(g)
  BY DEF SliceOf, Lists, WantedAt
<1>12. \A q \in 1 .. Len(src) : BytesAt(g, src, q) \in Seq(ByteUnits) /\ BytesAt(g, src, q) # <<>>
  BY <1>11, GgufReadable DEF BytesAt, Readable
<1>13. \A q \in 1 .. Len(src) : Len(BytesAt(g, src, q)) \in Nat
  BY <1>12
<1> QED BY <1>1, <1>2, <1>10, <1>11, <1>12, <1>13

\* The header says how many layers the slice has.
LEMMA SliceKvIs ==
  ASSUME NEW g \in Files, NEW r \in HostRanges
  PROVE  KvOK(g, SliceKv(g, r), r[2] - r[1]) /\ Len(SliceKv(g, r)) \in Nat
<1> DEFINE h == Gguf(g).kv
           v == r[2] - r[1]
           s == [i \in DOMAIN h |-> IF h[i].key = "block_count" THEN [h[i] EXCEPT !.value = v]
                                    ELSE h[i]]
           x == [key |-> "has_embed", value |-> r[1] = 0]
           y == [key |-> "has_head", value |-> r[2] = g.layers]
           t == s \o <<x, y>>
<1>1. KvOK(g, h, g.layers)
  BY GgufReads
<1>2. v \in Int
  BY FormatAssumption
<1>3. SliceKv(g, r) = t
  BY DEF SliceKv, StitchedKv, Manifest
<1> HIDE DEF h, v
<1>4. h \in Seq(Entries) /\ DOMAIN h = 1 .. Len(h) /\ Len(h) \in Nat
      /\ \A i \in 1 .. Len(h) : h[i] \in Entries
  BY <1>1 DEF KvOK
<1>5. \A i \in 1 .. Len(h) :
        /\ s[i] \in Entries /\ s[i].key = h[i].key
        /\ s[i].value = IF h[i].key = "block_count" THEN v ELSE h[i].value
  BY <1>2, <1>4 DEF Entries
<1>6. s \in Seq(Entries) /\ Len(s) = Len(h)
  <2>1. s \in [1 .. Len(h) -> Entries]
    BY <1>4, <1>5
  <2> HIDE DEF s
  <2> QED BY <1>4, <2>1
<1>7. x \in Entries /\ y \in Entries /\ x.key \notin {"block_count", "alignment"}
      /\ y.key \notin {"block_count", "alignment"}
  BY DEF Entries, Keys
<1> HIDE DEF s, x, y
<1>8. /\ t \in Seq(Entries) /\ Len(t) = Len(h) + 2
      /\ \A i \in 1 .. Len(h) : t[i] = s[i]
      /\ t[Len(h) + 1] = x /\ t[Len(h) + 2] = y
  <2>1. <<x, y>> \in Seq(Entries) /\ Len(<<x, y>>) = 2
    BY <1>7
  <2> QED BY <1>4, <1>6, <1>7, <2>1
<1> HIDE DEF t
<1>9. \A i \in 1 .. Len(t) : i \in 1 .. Len(h) \/ i = Len(h) + 1 \/ i = Len(h) + 2
  BY <1>4, <1>8
<1>10. \A i \in 1 .. Len(t) : t[i].key \in {"block_count", "alignment"} =>
         i \in 1 .. Len(h) /\ t[i] = s[i]
  BY <1>7, <1>8, <1>9
<1>11. 1 .. Len(h) \subseteq 1 .. Len(t)
  BY <1>4, <1>8
<1>12. \A i \in 1 .. Len(t) : t[i].key = "block_count" => g.counted /\ t[i].value = v
  BY <1>1, <1>5, <1>10 DEF KvOK
<1>13. g.counted => \E i \in 1 .. Len(t) : t[i].key = "block_count"
  BY <1>1, <1>5, <1>8, <1>11 DEF KvOK
<1>14. \A i \in 1 .. Len(t) :
         t[i].key = "alignment" => t[i].value = g.alignment /\ g.alignment # DefaultAlignment
  <2>1. \A i \in 1 .. Len(h) : h[i].key = "alignment" =>
          s[i].value = h[i].value /\ h[i].value = g.alignment /\ g.alignment # DefaultAlignment
    BY <1>1, <1>5 DEF KvOK
  <2> QED BY <1>5, <1>10, <2>1
<1>15. g.alignment # DefaultAlignment => \E i \in 1 .. Len(t) : t[i].key = "alignment"
  BY <1>1, <1>5, <1>8, <1>11 DEF KvOK
<1>16. KvOK(g, t, v)
  BY <1>8, <1>12, <1>13, <1>14, <1>15 DEF KvOK
<1>17. Len(t) \in Nat
  BY <1>4, <1>8
<1> QED BY <1>3, <1>16, <1>17 DEF v

\* Where the tensors are written is where the index says.
Agrees(g, r, src) ==
  /\ Advances(Len(src), SliceSizes(g, src), g.alignment, 0, SliceAt(g, src))
  /\ Advances(Len(src), SliceSizes(g, src), g.alignment, SliceData(g, r, src), SlicePos(g, r, src))
  /\ SliceHeader(g, r, src) \in Nat /\ SliceData(g, r, src) \in Nat
  /\ \A k \in 0 .. Len(src) : SlicePos(g, r, src)[k] = SliceData(g, r, src) + SliceAt(g, src)[k]

\* The check of stitch_subset that fails if the two disagree never does.
LEMMA SliceAgrees ==
  ASSUME NEW g \in Files, NEW r \in HostRanges, NEW src, SliceOf(g, r, src)
  PROVE  Agrees(g, r, src)
<1> DEFINE n == Len(src)
           a == g.alignment
           sizes == SliceSizes(g, src)
           at == SliceAt(g, src)
           data == SliceData(g, r, src)
           pos == SlicePos(g, r, src)
           picked == SlicePicked(g, r, src)
<1>1. n \in Nat /\ a \in Nat \ {0} /\ \A k \in 1 .. n : BytesAt(g, src, k) \in Seq(ByteUnits)
  BY SliceType, FileIs
<1>2. SliceHeader(g, r, src) \in Nat /\ data \in Nat /\ data % a = 0
  <2>1. SliceHeader(g, r, src) \in Nat
    BY <1>1, SliceKvIs DEF SliceHeader
  <2> QED BY <1>1, <2>1, Aligned, AlignedMod DEF SliceData
<1>3. sizes \in Seq(Nat) /\ Len(sizes) = n
  <2>1. sizes \in [1 .. n -> Nat]
    BY SliceType DEF SliceSizes
  <2> HIDE DEF sizes, n
  <2> QED BY <1>1, <2>1
<1>4. Advances(n, sizes, a, 0, at)
  BY <1>1, <1>3, LaidIs DEF SliceAt
<1>5. Advances(n, sizes, a, data, pos)
  <2>1. Len(picked) = n /\ \A k \in 1 .. n : picked[k].bytes = BytesAt(g, src, k)
    <3>1. picked = [q \in 1 .. n |-> EntryOf(g, r, src[q])]
      BY DEF SlicePicked
    <3>2. \A k \in 1 .. n : EntryOf(g, r, src[k]).bytes = BytesAt(g, src, k)
      BY DEF EntryOf, BytesAt
    <3> HIDE DEF picked, n
    <3> QED BY <1>1, <3>1, <3>2
  <2>2. [k \in 1 .. Len(picked) |-> Len(picked[k].bytes)] = sizes
    BY <2>1 DEF SliceSizes
  <2>3. \A k \in 1 .. Len(picked) : picked[k].bytes \in Seq(ByteUnits)
    BY <1>1, <2>1
  <2> HIDE DEF picked, sizes, a, data, n
  <2>4. Advances(Len(picked), [k \in 1 .. Len(picked) |-> Len(picked[k].bytes)], a, data,
                 WrittenTo(data, picked, a))
    BY <1>1, <1>2, <2>1, <2>3, WrittenIs
  <2> QED BY <2>1, <2>2, <2>4 DEF SlicePos, picked, a, data
<1>6. \A k \in 0 .. n : pos[k] = data + at[k]
  <2> HIDE DEF n, a, sizes, at, data, pos
  <2> DEFINE P == {k \in 0 .. n : pos[k] = data + at[k]}
  <2>1. 0 \in P
    BY <1>1, <1>2, <1>4, <1>5 DEF Advances
  <2>2. ASSUME NEW i \in 1 .. n, i - 1 \in P PROVE i \in P
    <3>1. /\ i \in 0 .. n /\ i - 1 \in 0 .. n /\ pos[i - 1] = data + at[i - 1]
          /\ at[i - 1] \in Nat /\ sizes[i] \in Nat
      BY <1>1, <1>3, <1>4, <2>2 DEF Advances
    <3>2. pos[i] = AlignUp(pos[i - 1] + sizes[i], a) /\ at[i] = AlignUp(at[i - 1] + sizes[i], a)
      BY <1>4, <1>5 DEF Advances
    <3>3. pos[i - 1] + sizes[i] = data + (at[i - 1] + sizes[i]) /\ at[i - 1] + sizes[i] \in Nat
      BY <1>2, <3>1
    <3>4. AlignUp(data + (at[i - 1] + sizes[i]), a) = data + AlignUp(at[i - 1] + sizes[i], a)
      BY <1>1, <1>2, <3>3, AlignShift
    <3> QED BY <3>1, <3>2, <3>3, <3>4
  <2> HIDE DEF P
  <2>3. \A i \in 0 .. n : i \in P
    BY ONLY <1>1, <2>1, <2>2, UpTo
  <2> QED BY <2>3 DEF P
<1> QED BY <1>2, <1>4, <1>5, <1>6 DEF Agrees

\* The stitcher writes this file, if every chunk has its length.
LEMMA StitchIs ==
  ASSUME NEW g \in Files, NEW C, NEW r \in HostRanges, AllSized(g, C, r), NEW src,
         PicksAll(g, C, r, src)
  PROVE  stitch_subset(Manifest(g, C), r, g.layers) = [ok |-> TRUE, file |-> SliceFile(g, r, src)]
<1> DEFINE d == Manifest(g, C)
           n == Len(src)
           a == g.alignment
           picked == SlicePicked(g, r, src)
           kv == SliceKv(g, r)
           at == SliceAt(g, src)
           header == SliceHeader(g, r, src)
           data == SliceData(g, r, src)
           pos == SlicePos(g, r, src)
           pad == SlicePad(g, r, src)
<1>1. SliceOf(g, r, src) /\ Picked(d, r, g.layers) = picked
  BY DEF PicksAll, SliceOf, SlicePicked
<1>2. /\ n \in Nat /\ n > 0 /\ r[1] \in Nat /\ r[2] \in Nat /\ r[1] < r[2] /\ r[2] <= g.layers
      /\ g.layers \in Nat /\ a \in Nat \ {0}
  BY <1>1, SliceType, FileIs
<1>3. Agrees(g, r, src)
  BY <1>1, SliceAgrees
<1>4. d.alignment = a /\ d.n_layers = g.layers /\ StitchedKv(d, r, g.layers) = kv
  BY DEF Manifest, SliceKv, StitchedKv
<1>5. /\ DOMAIN picked = 1 .. n /\ Len(picked) = n /\ picked # <<>>
      /\ \A k \in 1 .. n : /\ picked[k].bytes = BytesAt(g, src, k)
                           /\ picked[k].name = rename_tensor(g.tensors[src[k]].name, r[1])
  <2>1. picked = [q \in 1 .. n |-> EntryOf(g, r, src[q])]
    BY DEF SlicePicked
  <2>2. \A k \in 1 .. n : /\ EntryOf(g, r, src[k]).bytes = BytesAt(g, src, k)
                          /\ EntryOf(g, r, src[k]).name = rename_tensor(g.tensors[src[k]].name, r[1])
    BY DEF EntryOf, BytesAt
  <2> HIDE DEF picked, n
  <2>3. DOMAIN picked = 1 .. n /\ Len(picked) = n
    BY <1>2, <2>1
  <2> QED BY <1>2, <2>1, <2>2, <2>3
<1>6. Laid([k \in DOMAIN picked |-> Len(picked[k].bytes)], a) = at
  <2>1. [k \in DOMAIN picked |-> Len(picked[k].bytes)] = SliceSizes(g, src)
    <3> HIDE DEF picked
    <3> QED BY <1>5 DEF SliceSizes
  <2> QED BY <2>1 DEF SliceAt
<1>7. header = 3 + Len(kv) + Len(picked) /\ data = AlignUp(header, a)
      /\ pos = WrittenTo(data, picked, a)
  BY <1>5 DEF SliceHeader, SliceData, SlicePos
<1>8. \A k \in DOMAIN picked : pos[k - 1] = data + at[k - 1]
  <2> SUFFICES ASSUME NEW k \in DOMAIN picked PROVE pos[k - 1] = data + at[k - 1]
    OBVIOUS
  <2>1. k - 1 \in 0 .. n
    BY <1>2, <1>5
  <2> QED BY <1>3, <2>1 DEF Agrees
<1>9. [k \in DOMAIN picked |-> [name |-> picked[k].name, offset |-> at[k - 1]]]
        = SliceFile(g, r, src).index
  <2> HIDE DEF picked, at
  <2>1. SliceFile(g, r, src).index =
          [k \in 1 .. n |-> [name |-> rename_tensor(g.tensors[src[k]].name, r[1]),
                             offset |-> at[k - 1]]]
    BY DEF SliceFile, at
  <2> QED BY <1>5, <2>1
<1>10. [k \in DOMAIN picked |-> picked[k].bytes \o Zeros(pos[k] - pos[k - 1] - Len(picked[k].bytes))]
        = [k \in 1 .. n |-> BytesAt(g, src, k) \o Zeros(pad[k])]
  <2>1. \A k \in 1 .. n : pad[k] = pos[k] - pos[k - 1] - Len(picked[k].bytes)
    <3> HIDE DEF picked
    <3> QED BY <1>5 DEF SlicePad
  <2> HIDE DEF picked, pad, pos
  <2> QED BY <1>5, <2>1
<1>11. SliceFile(g, r, src) =
         [kv |-> kv, index |-> SliceFile(g, r, src).index,
          body |-> Zeros(data - header)
                   \o FlattenSeq([k \in 1 .. n |-> BytesAt(g, src, k) \o Zeros(pad[k])])]
  BY DEF SliceFile
<1>12. /\ Len(d.header_chunk) = Len(d.header)
       /\ \A b \in ToSet(Chosen(d, r, g.layers)) : Sized(d, b)
  BY DEF AllSized, Manifest
<1>13. ~(r[2] < r[1]) /\ ~(r[2] > d.n_layers) /\ ~(r[2] = g.layers /\ r[2] # d.n_layers)
       /\ d.alignment # 0
  BY <1>2, <1>4
<1> HIDE DEF d, a, picked, kv, at, header, data, pos, pad, n
<1> DEFINE there == /\ Len(d.header_chunk) = Len(d.header)
                    /\ \A b \in ToSet(Chosen(d, r, g.layers)) : Sized(d, b)
           thePicked == Picked(d, r, g.layers)
           theA == IF d.alignment = 0 THEN 1 ELSE d.alignment
           theKv == StitchedKv(d, r, g.layers)
           theAt == Laid([k \in DOMAIN thePicked |-> Len(thePicked[k].bytes)], theA)
           theHeader == 3 + Len(theKv) + Len(thePicked)
           theData == AlignUp(theHeader, theA)
           thePos == WrittenTo(theData, thePicked, theA)
<1>14. stitch_subset(d, r, g.layers) =
         IF \/ r[2] < r[1] \/ r[2] > d.n_layers
            \/ r[2] = g.layers /\ r[2] # d.n_layers
            \/ ~there
         THEN Failed
         ELSE IF thePicked = <<>> \/ \E k \in DOMAIN thePicked : thePos[k - 1] # theData + theAt[k - 1]
         THEN Failed
         ELSE [ok |-> TRUE, file |->
           [kv |-> theKv,
            index |-> [k \in DOMAIN thePicked |->
                         [name |-> thePicked[k].name, offset |-> theAt[k - 1]]],
            body |-> Zeros(theData - theHeader) \o FlattenSeq([k \in DOMAIN thePicked |->
              thePicked[k].bytes \o Zeros(thePos[k] - thePos[k - 1] - Len(thePicked[k].bytes))])]]
  BY Zenon DEF stitch_subset
<1>15. there
  BY <1>12
<1>16. thePicked = picked /\ theA = a /\ theKv = kv
  BY <1>1, <1>4, <1>13
<1> HIDE DEF there, thePicked, theA, theKv
<1>17. theAt = at
  BY <1>6, <1>16
<1>18. theHeader = header /\ theData = data /\ thePos = pos
  BY <1>7, <1>16
<1> HIDE DEF theAt, theHeader, theData, thePos
<1>19. stitch_subset(d, r, g.layers) =
         [ok |-> TRUE, file |->
           [kv |-> theKv,
            index |-> [k \in DOMAIN thePicked |->
                         [name |-> thePicked[k].name, offset |-> theAt[k - 1]]],
            body |-> Zeros(theData - theHeader) \o FlattenSeq([k \in DOMAIN thePicked |->
              thePicked[k].bytes \o Zeros(thePos[k] - thePos[k - 1] - Len(thePicked[k].bytes))])]]
  <2>1. ~(thePicked = <<>> \/ \E k \in DOMAIN thePicked : thePos[k - 1] # theData + theAt[k - 1])
    BY <1>5, <1>8, <1>16, <1>17, <1>18
  <2> QED BY <1>13, <1>14, <1>15, <2>1, Zenon
<1>20. stitch_subset(d, r, g.layers) =
         [ok |-> TRUE, file |->
           [kv |-> kv,
            index |-> [k \in DOMAIN picked |->
                         [name |-> picked[k].name, offset |-> at[k - 1]]],
            body |-> Zeros(data - header) \o FlattenSeq([k \in DOMAIN picked |->
              picked[k].bytes \o Zeros(pos[k] - pos[k - 1] - Len(picked[k].bytes))])]]
  BY <1>16, <1>17, <1>18, <1>19
<1> QED BY <1>9, <1>10, <1>11, <1>20 DEF d

\* What is known of the file that is written.
SliceOK(g, r, f, src) ==
  /\ SliceOf(g, r, src)
  /\ DOMAIN f.index = 1 .. Len(src) /\ Len(f.index) = Len(src)
  /\ KvOK(g, f.kv, r[2] - r[1])
  /\ \A k \in 1 .. Len(src) :
       /\ f.index[k].name = rename_tensor(g.tensors[src[k]].name, r[1])
       /\ \E z \in Nat : TensorBytes(f, k) = g.tensors[src[k]].data \o Zeros(z)

\* Padding behind padding is padding.
LEMMA ZerosJoin ==
  ASSUME NEW S, "0" \in S, NEW s \in Seq(S), NEW y \in Nat, NEW z \in Nat
  PROVE  (s \o Zeros(y)) \o Zeros(z) = s \o Zeros(y + z)
<1>1. /\ Zeros(y) \in Seq(S) /\ Len(Zeros(y)) = y /\ \A i \in 1 .. y : Zeros(y)[i] = "0"
      /\ Zeros(z) \in Seq(S) /\ Len(Zeros(z)) = z /\ \A i \in 1 .. z : Zeros(z)[i] = "0"
      /\ Zeros(y + z) \in Seq(S) /\ Len(Zeros(y + z)) = y + z
      /\ \A i \in 1 .. y + z : Zeros(y + z)[i] = "0"
  <2>1. y + z \in Nat
    OBVIOUS
  <2>2. /\ Zeros(y) \in Seq(S) /\ Len(Zeros(y)) = y /\ Zeros(z) \in Seq(S) /\ Len(Zeros(z)) = z
        /\ Zeros(y + z) \in Seq(S) /\ Len(Zeros(y + z)) = y + z
    BY <2>1, ZerosAre
  <2>3. \A x : \A i \in 1 .. x : Zeros(x)[i] = "0"
    BY DEF Zeros
  <2> QED BY <2>2, <2>3
<1> DEFINE b == Zeros(y)
           c == Zeros(z)
           d == Zeros(y + z)
<1> HIDE DEF b, c, d
<1>2. /\ b \in Seq(S) /\ Len(b) = y /\ \A i \in 1 .. y : b[i] = "0"
      /\ c \in Seq(S) /\ Len(c) = z /\ \A i \in 1 .. z : c[i] = "0"
      /\ d \in Seq(S) /\ Len(d) = y + z /\ \A i \in 1 .. y + z : d[i] = "0"
  BY <1>1 DEF b, c, d
<1>3. b \o c = d
  <2> DEFINE t == b \o c
  <2>1. t \in Seq(S) /\ Len(t) = y + z
    <3>1. y \in Nat /\ z \in Nat
      OBVIOUS
    <3>2. b \in Seq(S) /\ c \in Seq(S) /\ Len(b) = y /\ Len(c) = z
      BY <1>2
    <3> QED BY ONLY <3>1, <3>2
  <2>2. \A i \in 1 .. y + z : t[i] = d[i]
    BY ONLY <1>2, y \in Nat, z \in Nat
  <2> HIDE DEF t
  <2>3. t = d
    BY ONLY <1>2, <2>1, <2>2
  <2> QED BY <2>3 DEF t
<1>4. (s \o b) \o c = s \o (b \o c)
  BY <1>2
<1> QED BY <1>3, <1>4 DEF b, c, d

\* The file that is written reads every tensor's data, with the padding.
LEMMA SliceReads ==
  ASSUME NEW g \in Files, NEW r \in HostRanges, NEW src, SliceOf(g, r, src)
  PROVE  SliceOK(g, r, SliceFile(g, r, src), src)
<1> DEFINE f == SliceFile(g, r, src)
           n == Len(src)
           a == g.alignment
           bytes == [k \in 1 .. n |-> BytesAt(g, src, k)]
           sizes == SliceSizes(g, src)
           kv == SliceKv(g, r)
           at == SliceAt(g, src)
           header == SliceHeader(g, r, src)
           data == SliceData(g, r, src)
           pos == SlicePos(g, r, src)
           pad == SlicePad(g, r, src)
           b == PaddedPieces(n, bytes, pad)
<1>1. /\ n \in Nat /\ a \in Nat \ {0}
      /\ \A k \in 1 .. n : /\ src[k] \in 1 .. Count(g) /\ bytes[k] \in Seq(ByteUnits)
                           /\ bytes[k] # <<>> /\ bytes[k] = BytesAt(g, src, k)
  BY SliceType, FileIs
<1>2. Agrees(g, r, src)
  BY SliceAgrees
<1>3. /\ f.kv = kv /\ DOMAIN f.index = 1 .. n
      /\ f.index \in Seq({f.index[k] : k \in 1 .. n}) /\ Len(f.index) = n
      /\ \A k \in 1 .. n : /\ f.index[k].name = rename_tensor(g.tensors[src[k]].name, r[1])
                           /\ f.index[k].offset = at[k - 1]
  <2> DEFINE ix == [k \in 1 .. n |-> [name |-> rename_tensor(g.tensors[src[k]].name, r[1]),
                                       offset |-> at[k - 1]]]
  <2>1. f.kv = kv /\ f.index = ix
    BY DEF SliceFile
  <2>2. DOMAIN ix = 1 .. n /\ \A k \in 1 .. n :
          ix[k].name = rename_tensor(g.tensors[src[k]].name, r[1]) /\ ix[k].offset = at[k - 1]
    OBVIOUS
  <2> HIDE DEF ix, n, at
  <2>4. ix \in Seq({ix[k] : k \in 1 .. n}) /\ Len(ix) = n
    <3>1. ix = [k \in 1 .. n |-> ix[k]]
      BY DEF ix
    <3> DEFINE V == {ix[k] : k \in 1 .. n}
    <3> HIDE DEF ix
    <3>2. \A k \in 1 .. n : ix[k] \in V
      OBVIOUS
    <3> HIDE DEF V
    <3>3. ix \in [1 .. n -> V]
      BY <3>1, <3>2
    <3>4. ix \in Seq(V) /\ Len(ix) = n
      BY ONLY <1>1, <3>3
    <3> QED BY <3>4 DEF V
  <2> QED BY <2>1, <2>2, <2>4
<1>4. f.body = Zeros(data - header) \o FlattenSeq(b)
  <2>1. \A k \in 1 .. n : bytes[k] \o Zeros(pad[k]) = BytesAt(g, src, k) \o Zeros(pad[k])
    BY <1>1
  <2>2. b = [k \in 1 .. n |-> BytesAt(g, src, k) \o Zeros(pad[k])]
    <3> HIDE DEF bytes, pad, n
    <3> QED BY <2>1 DEF PaddedPieces
  <2>3. f.body = Zeros(data - header)
                 \o FlattenSeq([k \in 1 .. n |-> BytesAt(g, src, k) \o Zeros(pad[k])])
    BY DEF SliceFile
  <2> HIDE DEF b
  <2> QED BY <2>2, <2>3
<1>5. KvOK(g, kv, r[2] - r[1]) /\ Len(kv) \in Nat
  BY SliceKvIs
<1>6. Alignment(f) = a /\ HeaderLen(f) = header /\ header \in Nat /\ data = AlignUp(header, a)
  <2>1. Alignment(f) = a
    BY <1>3, <1>5, KvReads
  <2>2. HeaderLen(f) = header
    BY <1>3 DEF HeaderLen, SliceHeader
  <2>3. header \in Nat /\ data = AlignUp(header, a)
    BY <1>2 DEF Agrees, SliceData
  <2> QED BY <2>1, <2>2, <2>3
<1>7. \A k \in 1 .. n : /\ sizes[k] = Len(bytes[k]) /\ sizes[k] \in Nat
                        /\ pad[k] = pos[k] - pos[k - 1] - Len(bytes[k]) /\ pad[k] \in Nat
  <2> SUFFICES ASSUME NEW k \in 1 .. n
               PROVE  /\ sizes[k] = Len(bytes[k]) /\ sizes[k] \in Nat
                      /\ pad[k] = pos[k] - pos[k - 1] - Len(bytes[k]) /\ pad[k] \in Nat
    OBVIOUS
  <2>1. sizes[k] = Len(bytes[k]) /\ sizes[k] \in Nat
    <3>1. sizes[k] = Len(BytesAt(g, src, k))
      BY DEF SliceSizes
    <3> QED BY <1>1, <3>1, SliceType
  <2>2. pad[k] = pos[k] - pos[k - 1] - Len(bytes[k])
    BY <1>1 DEF SlicePad
  <2>3. Advances(n, sizes, a, data, pos) /\ data \in Nat
    BY <1>2 DEF Agrees
  <2>4. \A q \in 1 .. n : sizes[q] \in Nat
    BY SliceType DEF SliceSizes
  <2>5. pos[k] \in Nat /\ pos[k - 1] \in Nat /\ pos[k - 1] + sizes[k] <= pos[k]
    <3> HIDE DEF n, a, sizes, data, pos
    <3> QED BY <1>1, <2>3, <2>4, AdvanceGrows
  <2> HIDE DEF pad, pos, sizes, bytes
  <2> QED BY <2>1, <2>2, <2>5
<1>8. "0" \in ByteUnits
  BY DEF ByteUnits
<1> HIDE DEF f, bytes, sizes, kv, at, header, data, pos, pad, b, n, a
<1>9. PaddedBy(ByteUnits, n, bytes, pad, a, data, sizes, pos)
  <2>1. Advances(n, sizes, a, data, pos)
    BY <1>2 DEF Agrees, n, sizes, a, data, pos
  <2> QED BY <1>1, <1>7, <1>8, <2>1 DEF PaddedBy
<1>10. PICK e : Begins(ByteUnits, b, n, pos, data, e)
  BY <1>9, PaddedEnds DEF b
<1>11. /\ b \in Seq(Seq(ByteUnits)) /\ Len(b) = n /\ Ends(b, e) /\ \A k \in 1 .. n : b[k] # <<>>
  BY <1>10 DEF Begins
<1>12. \A k \in 1 .. n : at[k - 1] = e[k - 1]
  <2> SUFFICES ASSUME NEW k \in 1 .. n PROVE at[k - 1] = e[k - 1]
    OBVIOUS
  <2>1. k - 1 \in 0 .. n
    BY <1>1
  <2>2. pos[k - 1] = data + at[k - 1] /\ data \in Nat /\ at[k - 1] \in Nat
    BY <1>2, <2>1 DEF Agrees, Advances, pos, data, at, n
  <2>3. e[k - 1] = pos[k - 1] - data
    BY <1>10 DEF Begins
  <2> QED BY <2>2, <2>3
<1>13. Blob(f) = FlattenSeq(b)
  <2> DEFINE flat == FlattenSeq(b)
  <2>1. flat \in Seq(ByteUnits)
    BY <1>11, FlattenAt DEF Lies
  <2>2. f.body = Zeros(AlignUp(HeaderLen(f), a) - HeaderLen(f)) \o flat
    BY <1>4, <1>6
  <2> HIDE DEF flat
  <2>3. Blob(f) = flat
    BY <1>1, <1>6, <1>8, <2>1, <2>2, BlobIs
  <2> QED BY <2>3 DEF flat
<1> DEFINE place == [k \in 1 .. n |-> k]
<1>14. LaidOut(f, ByteUnits, b, e, place)
  <2>1. place \in [1 .. Len(b) -> 1 .. Len(b)] /\ \A k \in 1 .. Len(b) : place[k] = k
    BY <1>11
  <2> HIDE DEF place
  <2>2. \A i \in 1 .. Len(b) : f.index[i].offset = e[place[i] - 1]
    BY <1>3, <1>11, <1>12, <2>1 DEF f, n, at
  <2>3. DOMAIN f.index = 1 .. Len(b)
    BY <1>3, <1>11
  <2>4. \A k \in 1 .. Len(b) : \E i \in 1 .. Len(b) : place[i] = k
    BY <2>1
  <2>5. \A k \in 1 .. Len(b) : b[k] # <<>>
    BY <1>11
  <2> QED BY <1>11, <1>13, <2>1, <2>2, <2>3, <2>4, <2>5 DEF LaidOut
<1>15. ASSUME NEW k \in 1 .. n
       PROVE \E z \in Nat : TensorBytes(f, k) = g.tensors[src[k]].data \o Zeros(z)
  <2>1. TensorBytes(f, k) = b[place[k]]
    <3> HIDE DEF place
    <3> QED BY <1>11, <1>14, LayoutReads
  <2>2. place[k] = k
    OBVIOUS
  <2>3. b[k] = bytes[k] \o Zeros(pad[k])
    BY DEF b, PaddedPieces
  <2>4. bytes[k] = TensorBytes(Gguf(g), src[k]) /\ src[k] \in 1 .. Count(g)
    BY <1>1 DEF BytesAt
  <2>5. PICK y \in Nat : TensorBytes(Gguf(g), src[k]) = g.tensors[src[k]].data \o Zeros(y)
    BY <2>4, GgufReads
  <2> DEFINE s == g.tensors[src[k]].data
  <2>6. s \in Seq(ByteUnits)
    <3>1. s \in Seq(STRING)
      BY <2>4, FileIs DEF TensorsOK
    <3> HIDE DEF s
    <3>2. STRING \subseteq ByteUnits
      BY DEF ByteUnits
    <3> QED BY <3>1, <3>2, WiderSeq
  <2> HIDE DEF s
  <2>7. TensorBytes(f, k) = (s \o Zeros(y)) \o Zeros(pad[k])
    BY <2>1, <2>2, <2>3, <2>4, <2>5 DEF s
  <2>8. pad[k] \in Nat
    BY <1>7
  <2>9. TensorBytes(f, k) = s \o Zeros(y + pad[k])
    BY <1>8, <2>6, <2>7, <2>8, ZerosJoin
  <2>10. y + pad[k] \in Nat
    BY <2>8
  <2> QED BY <2>9, <2>10 DEF s
<1> QED BY <1>3, <1>5, <1>15 DEF SliceOK, f, n, kv

\* A tensor is part of a range if its bundle is.
LEMMA PartIs ==
  ASSUME file \in Files, NEW r \in HostRanges, NEW i \in 1 .. Count(file)
  PROVE  PartOf(file.tensors[i].name, r) <=> i \in WantedAt(file, r)
<1> DEFINE name == file.tensors[i].name
           key == classify_tensor(name)
<1>1. r[1] \in Nat /\ r[2] \in Nat /\ file.layers \in Nat
  BY FormatAssumption, FileIs
<1>2. i \in WantedAt(file, r) <=> Includes(key, r, file.layers)
  BY DEF WantedAt
<1>3. CASE name.stem = "blk"
  <2>1. key = BlockKey(name.layer) /\ name.layer \in Nat
    BY <1>1, <1>3, KeyOf
  <2>2. PartOf(name, r) <=> r[1] <= name.layer /\ name.layer < r[2]
    BY <1>3 DEF PartOf
  <2> HIDE DEF name, key
  <2>3. Includes(key, r, file.layers) <=> r[1] <= name.layer /\ name.layer < r[2]
    BY <2>1 DEF Includes, BlockKey, EmbedKey, HeadKey
  <2> QED BY <1>2, <2>2, <2>3 DEF name
<1>4. CASE name.stem = "token_embd"
  <2>1. key = EmbedKey
    BY <1>4, KeyOf
  <2>2. PartOf(name, r) <=> r[1] = 0
    BY <1>4 DEF PartOf
  <2> HIDE DEF name, key
  <2>3. Includes(key, r, file.layers) <=> r[1] = 0
    BY <2>1 DEF Includes, BlockKey, EmbedKey, HeadKey
  <2> QED BY <1>2, <2>2, <2>3 DEF name
<1>5. CASE name.stem \notin {"blk", "token_embd"}
  <2>1. key = HeadKey
    BY <1>5, KeyOf
  <2>2. PartOf(name, r) <=> r[2] = file.layers
    BY <1>5 DEF PartOf
  <2> HIDE DEF name, key
  <2>3. Includes(key, r, file.layers) <=> r[2] = file.layers
    BY <2>1 DEF Includes, BlockKey, EmbedKey, HeadKey
  <2> QED BY <1>2, <2>2, <2>3 DEF name
<1> QED BY <1>3, <1>4, <1>5

\* The names of a range: layers are numbered from 0 on, and no two are the same.
LEMMA NamesOfSlice ==
  ASSUME NEW g \in Files, NEW r \in HostRanges, NEW i \in WantedAt(g, r)
  PROVE  LET name == g.tensors[i].name
             new == rename_tensor(name, r[1])
         IN /\ name.stem = "blk" => /\ new = [name EXCEPT !.layer = @ - r[1]]
                                    /\ name.layer - r[1] < r[2] - r[1]
            /\ name.stem # "blk" => new = name
            /\ new.layer < r[2] - r[1]
<1> DEFINE name == g.tensors[i].name
           new == rename_tensor(name, r[1])
<1>1. /\ r[1] \in Nat /\ r[2] \in Nat /\ r[1] < r[2] /\ g.layers \in Nat
      /\ i \in 1 .. Count(g) /\ name \in Names
  BY FormatAssumption, FileIs DEF WantedAt, TensorsOK
<1>2. Includes(classify_tensor(name), r, g.layers)
  BY DEF WantedAt
<1>3. CASE name.stem = "blk"
  <2>1. classify_tensor(name) = BlockKey(name.layer) /\ name.layer \in Nat
    BY <1>1, <1>3, KeyOf
  <2> HIDE DEF name
  <2>2. r[1] <= name.layer /\ name.layer < r[2]
    BY <1>2, <2>1 DEF Includes, BlockKey, EmbedKey, HeadKey
  <2>3. new = [name EXCEPT !.layer = IF @ < r[1] THEN 0 ELSE @ - r[1]]
    BY <1>3, <2>1 DEF rename_tensor
  <2>4. new = [name EXCEPT !.layer = @ - r[1]] /\ new.layer = name.layer - r[1]
    BY <1>1, <2>1, <2>2, <2>3 DEF Names
  <2> QED BY <1>1, <1>3, <2>1, <2>2, <2>4 DEF name
<1>4. CASE name.stem # "blk"
  <2>1. new = name
    BY <1>4 DEF rename_tensor
  <2>2. name.layer = -1
    BY <1>1, <1>4, FileIs DEF TensorsOK
  <2> HIDE DEF name
  <2> QED BY <1>1, <1>4, <2>1, <2>2 DEF name
<1> QED BY <1>3, <1>4

\* The names of a slice stay different when its layers are numbered anew.
LEMMA NamesDiffer ==
  ASSUME NEW g \in Files, NEW r \in HostRanges, NEW i \in WantedAt(g, r), NEW j \in WantedAt(g, r),
         i # j
  PROVE  rename_tensor(g.tensors[i].name, r[1]) # rename_tensor(g.tensors[j].name, r[1])
<1> DEFINE x == g.tensors[i].name
           y == g.tensors[j].name
           p == rename_tensor(x, r[1])
           q == rename_tensor(y, r[1])
<1>1. /\ r[1] \in Nat /\ x \in Names /\ y \in Names /\ x # y
  <2>1. i \in 1 .. Count(g) /\ j \in 1 .. Count(g)
    BY DEF WantedAt
  <2>2. TensorsOK(g)
    BY FileIs
  <2>3. x \in Names /\ y \in Names
    BY <2>1, <2>2 DEF TensorsOK
  <2>4. x # y
    BY <2>1, <2>2 DEF TensorsOK
  <2> QED BY <2>3, <2>4, FormatAssumption
<1>2. /\ x.stem = "blk" => p = [x EXCEPT !.layer = @ - r[1]]
      /\ x.stem # "blk" => p = x
      /\ y.stem = "blk" => q = [y EXCEPT !.layer = @ - r[1]]
      /\ y.stem # "blk" => q = y
  BY NamesOfSlice
<1> SUFFICES p # q
  OBVIOUS
<1> HIDE DEF x, y, p, q
<1>3. p.stem = x.stem /\ q.stem = y.stem
  BY <1>1, <1>2 DEF Names
<1>4. CASE x.stem # y.stem
  BY <1>3, <1>4
<1>5. CASE x.stem = y.stem /\ x.stem # "blk"
  BY <1>1, <1>2, <1>5
<1>6. CASE x.stem = "blk" /\ y.stem = "blk"
  <2>1. x.part # y.part \/ x.layer # y.layer
    BY <1>1, <1>6 DEF Names
  <2>2. /\ p.part = x.part /\ q.part = y.part
        /\ p.layer = x.layer - r[1] /\ q.layer = y.layer - r[1]
        /\ x.layer \in Int /\ y.layer \in Int
    BY <1>1, <1>2, <1>6 DEF Names
  <2> QED BY <1>1, <2>1, <2>2
<1> QED BY <1>4, <1>5, <1>6

\* A tensor of a GGUF or of a slice that reads its data and zeros.
LEMMA ReadsThis ==
  ASSUME NEW f, NEW n \in Nat, DOMAIN f.index = 1 .. n, NEW k \in 1 .. n, NEW name, NEW data,
         data \in Seq(ByteUnits), f.index[k].name = name,
         \A j \in 1 .. n : j # k => f.index[j].name # name,
         \E z \in Nat : TensorBytes(f, k) = data \o Zeros(z)
  PROVE  Reads(f, name, data)
<1>1. PICK z \in Nat : TensorBytes(f, k) = data \o Zeros(z)
  OBVIOUS
<1>2. Zeros(z) \in Seq(ByteUnits) /\ Len(Zeros(z)) = z
  <2>1. "0" \in ByteUnits
    BY DEF ByteUnits
  <2> QED BY <2>1, ZerosAre
<1> DEFINE bytes == TensorBytes(f, k)
           w == Zeros(z)
<1>3. Len(bytes) - Len(data) = z
  <2> HIDE DEF w
  <2>1. Len(data \o w) = Len(data) + Len(w) /\ Len(data) \in Nat
    BY <1>2 DEF w
  <2> QED BY <1>1, <1>2, <2>1 DEF w
<1>4. bytes = data \o Zeros(Len(bytes) - Len(data))
  BY <1>1, <1>3
<1>5. \A j \in DOMAIN f.index \ {k} : f.index[j].name # name
  OBVIOUS
<1> HIDE DEF bytes, w
<1> QED BY <1>4, <1>5, Zenon DEF Reads, bytes

\* What the whole GGUF reads.
LEMMA WholeReads ==
  ASSUME NEW g \in Files, NEW i \in 1 .. Count(g)
  PROVE  Reads(Gguf(g), g.tensors[i].name, g.tensors[i].data)
<1> DEFINE f == Gguf(g)
           n == Count(g)
           name == g.tensors[i].name
           data == g.tensors[i].data
<1>1. /\ n \in Nat /\ DOMAIN f.index = 1 .. n /\ f.index[i].name = name
      /\ \E z \in Nat : TensorBytes(f, i) = data \o Zeros(z)
      /\ \A j \in 1 .. n : j # i => f.index[j].name # name
  <2>1. TensorsOK(g)
    BY FileIs
  <2>2. DOMAIN f.index = 1 .. n /\ \A j \in 1 .. n : f.index[j].name = g.tensors[j].name
    BY GgufReads
  <2>3. \E z \in Nat : TensorBytes(f, i) = data \o Zeros(z)
    BY GgufReads
  <2>4. n \in Nat /\ \A j \in 1 .. n : j # i => g.tensors[j].name # name
    BY <2>1 DEF TensorsOK
  <2> HIDE DEF f, data
  <2> QED BY <2>2, <2>3, <2>4
<1>2. data \in Seq(ByteUnits)
  <2>1. data \in Seq(STRING) /\ STRING \subseteq ByteUnits
    BY FileIs DEF TensorsOK, ByteUnits
  <2> HIDE DEF data
  <2> QED BY <2>1, WiderSeq
<1> HIDE DEF f, name, data, n
<1>3. Reads(f, name, data)
  BY <1>1, <1>2, ReadsThis DEF n
<1> QED BY <1>3 DEF f, name, data

\* What a slice reads.
LEMMA PartReads ==
  ASSUME NEW g \in Files, NEW r \in HostRanges, NEW f, NEW src, SliceOK(g, r, f, src),
         NEW i \in WantedAt(g, r)
  PROVE  Reads(f, rename_tensor(g.tensors[i].name, r[1]), g.tensors[i].data)
<1> DEFINE n == Len(src)
           name == rename_tensor(g.tensors[i].name, r[1])
           data == g.tensors[i].data
<1>1. Lists(WantedAt(g, r), src) /\ n \in Nat /\ DOMAIN f.index = 1 .. n
  BY DEF SliceOK, SliceOf, Lists
<1>2. PICK k \in 1 .. n : src[k] = i
  BY <1>1 DEF Lists
<1>3. /\ f.index[k].name = name
      /\ \E z \in Nat : TensorBytes(f, k) = data \o Zeros(z)
  BY <1>2 DEF SliceOK
<1>4. \A j \in 1 .. n : j # k => f.index[j].name # name
  <2> SUFFICES ASSUME NEW j \in 1 .. n, j # k PROVE f.index[j].name # name
    OBVIOUS
  <2>1. src[j] \in WantedAt(g, r) /\ src[j] # i
    BY <1>1, <1>2 DEF Lists
  <2>2. f.index[j].name = rename_tensor(g.tensors[src[j]].name, r[1])
    BY DEF SliceOK
  <2> QED BY <2>1, <2>2, NamesDiffer
<1>5. data \in Seq(ByteUnits)
  <2>1. data \in Seq(STRING) /\ STRING \subseteq ByteUnits
    BY FileIs DEF TensorsOK, ByteUnits, WantedAt
  <2> HIDE DEF data
  <2> QED BY <2>1, WiderSeq
<1> HIDE DEF name, data, n
<1>6. Reads(f, name, data)
  BY <1>1, <1>3, <1>4, <1>5, ReadsThis
<1> QED BY <1>6 DEF name, data

\* How many tensors a slice has.
LEMMA SliceCounts ==
  ASSUME file \in Files, NEW r \in HostRanges, NEW f, NEW src, SliceOK(file, r, f, src)
  PROVE  Len(f.index) = Cardinality({t \in ToSet(file.tensors) : PartOf(t.name, r)})
<1> DEFINE n == Len(src)
           W == WantedAt(file, r)
           T == {t \in ToSet(file.tensors) : PartOf(t.name, r)}
           ts == [k \in 1 .. n |-> file.tensors[src[k]]]
<1>1. Lists(W, src) /\ Len(f.index) = n
  BY DEF SliceOK, SliceOf
<1>2. /\ n \in Nat /\ \A k \in 1 .. n : src[k] \in W
      /\ \A x \in W : \E k \in 1 .. n : src[k] = x
      /\ \A i, j \in 1 .. n : i # j => src[i] # src[j]
  BY <1>1 DEF Lists
<1>3. DOMAIN file.tensors = 1 .. Count(file) /\ W \subseteq 1 .. Count(file)
      /\ \A i, j \in 1 .. Count(file) : i # j => file.tensors[i] # file.tensors[j]
  BY FileIs DEF TensorsOK, WantedAt
<1>4. \A t : t \in T <=> \E i \in W : t = file.tensors[i]
  <2>1. \A t : t \in ToSet(file.tensors) <=> \E i \in 1 .. Count(file) : t = file.tensors[i]
    BY <1>3 DEF ToSet
  <2>2. \A i \in 1 .. Count(file) : PartOf(file.tensors[i].name, r) <=> i \in W
    BY PartIs
  <2> HIDE DEF W
  <2> QED BY <1>3, <2>1, <2>2
<1> HIDE DEF W, T
<1>5. \A k \in 1 .. n : ts[k] = file.tensors[src[k]] /\ ts[k] \in T
  BY <1>2, <1>4
<1>6. ts \in Seq(T) /\ Len(ts) = n /\ DOMAIN ts = 1 .. n
  <2>1. ts \in [1 .. n -> T]
    BY <1>5
  <2> HIDE DEF ts, n
  <2> QED BY <1>2, <2>1
<1> HIDE DEF ts
<1>7. \A t \in T : \E k \in 1 .. n : ts[k] = t
  BY <1>2, <1>4, <1>5
<1>8. \A i, j \in 1 .. n : i # j => ts[i] # ts[j]
  <2> SUFFICES ASSUME NEW i \in 1 .. n, NEW j \in 1 .. n, i # j PROVE ts[i] # ts[j]
    OBVIOUS
  <2>1. src[i] \in 1 .. Count(file) /\ src[j] \in 1 .. Count(file) /\ src[i] # src[j]
    BY <1>2, <1>3
  <2> QED BY <1>3, <1>5, <2>1
<1>9. Lists(T, ts)
  BY <1>2, <1>5, <1>6, <1>7, <1>8 DEF Lists
<1> QED BY <1>1, <1>6, <1>9, ListCounts DEF T

-----------------------------------------------------------------------------
(* What a host of the model has.                                              *)

\* The chunks of a range are there; what is there is whole.
Fills(g, C, r) ==
  \A b \in 1 .. Len(KeyList(g)) :
    Includes(KeyList(g)[b], r, g.layers) => BundlesOf(g)[b].cid \in DOMAIN C
WholeChunks(C) == \A cid \in DOMAIN C : C[cid] = cid

DirInv ==
  IF dir = None THEN kept_range = None /\ stitched_file = None /\ loaded = None /\ ~cut
  ELSE /\ kept_range \in HostRanges
       /\ ChunksOK(file, dir.chunks) /\ Fills(file, dir.chunks, kept_range)
       /\ \/ dir = Manifest(file, dir.chunks) /\ (~cut <=> WholeChunks(dir.chunks))
          \/ dir = HeaderCut(file, dir.chunks) /\ cut

StitchedInv ==
  \A r \in DOMAIN stitched_file :
    r \in HostRanges /\ \E src : SliceOK(file, r, stitched_file[r], src)

LoadedOK(g, mayFail, r, s) ==
  \/ s.ok /\ s.offset = 0 /\ s.file = Gguf(g)
  \/ s.ok /\ s.offset = r[1] /\ \E src : SliceOK(g, r, s.file, src)
  \/ ~s.ok /\ mayFail
LoadedInv ==
  \A r \in DOMAIN loaded : r \in HostRanges /\ LoadedOK(file, cut \/ pulled, r, loaded[r])

\* The inductive invariant of the two properties.
FormatInv ==
  /\ file \in Files /\ cut \in BOOLEAN /\ pulled \in BOOLEAN
  /\ DirInv /\ StitchedInv /\ LoadedInv

\* The bundles that are chosen are those of the range.
LEMMA FillsSized ==
  ASSUME NEW g \in Files, NEW C, ChunksOK(g, C), NEW r, Fills(g, C, r), WholeChunks(C)
  PROVE  AllSized(g, C, r)
<1> DEFINE d == Manifest(g, C)
           chosen == Chosen(d, r, g.layers)
<1>1. PICK at : ChosenAt(g, C, r, at)
  BY ChosenIs
<1>2. /\ Lists(WantedKeys(g, r), [k \in 1 .. Len(at) |-> KeyList(g)[at[k]]])
      /\ Len([k \in 1 .. Len(at) |-> KeyList(g)[at[k]]]) = Len(at)
      /\ \A k \in 1 .. Len(at) : at[k] \in 1 .. Len(KeyList(g))
      /\ chosen = [k \in 1 .. Len(at) |-> BundlesOf(g)[at[k]]]
  BY <1>1 DEF ChosenAt
<1>3. d.chunks = C
  BY DEF Manifest
<1> HIDE DEF d
<1>4. ASSUME NEW k \in 1 .. Len(at) PROVE Sized(d, BundlesOf(g)[at[k]])
  <2> DEFINE kk == [q \in 1 .. Len(at) |-> KeyList(g)[at[q]]]
  <2>1. kk[k] = KeyList(g)[at[k]]
    OBVIOUS
  <2> HIDE DEF kk
  <2>2. kk[k] \in WantedKeys(g, r)
    BY <1>2 DEF Lists, kk
  <2>3. Includes(KeyList(g)[at[k]], r, g.layers)
    BY <2>1, <2>2 DEF WantedKeys
  <2>4. BundlesOf(g)[at[k]].cid \in DOMAIN C
    BY <1>2, <2>3 DEF Fills
  <2>5. C[BundlesOf(g)[at[k]].cid] = BundlesOf(g)[at[k]].cid
    BY <2>4 DEF WholeChunks
  <2> QED BY <1>3, <2>4, <2>5 DEF Sized
<1>5. \A b \in ToSet(chosen) : \E k \in 1 .. Len(at) : b = BundlesOf(g)[at[k]]
  BY <1>2 DEF ToSet
<1> QED BY <1>4, <1>5 DEF AllSized, d

\* If a chunk has not its length, nothing is written,
LEMMA StitchFails ==
  ASSUME NEW g, NEW C, NEW r, ~AllSized(g, C, r)
  PROVE  stitch_subset(Manifest(g, C), r, g.layers) = Failed
<1> DEFINE d == Manifest(g, C)
           there == /\ Len(d.header_chunk) = Len(d.header)
                    /\ \A b \in ToSet(Chosen(d, r, g.layers)) : Sized(d, b)
           bad == \/ r[2] < r[1] \/ r[2] > d.n_layers
                  \/ r[2] = g.layers /\ r[2] # d.n_layers
                  \/ ~there
<1>1. ~there
  BY DEF AllSized
<1>2. \E x : stitch_subset(d, r, g.layers) = IF bad THEN Failed ELSE x
  BY DEF stitch_subset
<1>3. bad
  BY <1>1
<1> HIDE DEF bad, d
<1> QED BY <1>2, <1>3 DEF d

\* nor if the header has not.
LEMMA HeaderFails ==
  ASSUME NEW g \in Files, NEW C, NEW r
  PROVE  /\ stitch_subset(HeaderCut(g, C), r, g.layers) = Failed
         /\ HeaderCut(g, C).header_chunk # HeaderCut(g, C).header
         /\ HeaderCut(g, C).chunks = C /\ HeaderCut(g, C).bundles = BundlesOf(g)
<1> DEFINE d == HeaderCut(g, C)
           h == Gguf(g).kv
           there == /\ Len(d.header_chunk) = Len(d.header)
                    /\ \A b \in ToSet(Chosen(d, r, g.layers)) : Sized(d, b)
           bad == \/ r[2] < r[1] \/ r[2] > d.n_layers
                  \/ r[2] = g.layers /\ r[2] # d.n_layers
                  \/ ~there
<1>1. h \in Seq(Entries) /\ h # <<>>
  <2>1. h = GgufKv(g)
    BY GgufIs
  <2> HIDE DEF h
  <2> QED BY <2>1, GgufKvIs DEF KvOK
<1>2. /\ d.header_chunk = SubSeq(h, 1, Len(h) - 1) /\ d.header = h
      /\ d.chunks = C /\ d.bundles = BundlesOf(g)
  BY DEF HeaderCut, Manifest
<1>3. Len(d.header_chunk) # Len(d.header) /\ d.header_chunk # d.header
  <2> HIDE DEF h, d
  <2> QED BY <1>1, <1>2, CutShorter
<1>4. \E x : stitch_subset(d, r, g.layers) = IF bad THEN Failed ELSE x
  BY DEF stitch_subset
<1>5. bad
  BY <1>3
<1> HIDE DEF bad, d
<1> QED BY <1>2, <1>3, <1>4, <1>5 DEF d

\* What comes of a stitching.
LEMMA StitchResult ==
  ASSUME NEW g \in Files, NEW C, ChunksOK(g, C), NEW r \in HostRanges
  PROVE  LET new == stitch_subset(Manifest(g, C), r, g.layers)
         IN /\ new.ok \in BOOLEAN
            /\ new.ok => \E src : SliceOK(g, r, new.file, src)
            /\ Fills(g, C, r) /\ WholeChunks(C) => new.ok
<1> DEFINE new == stitch_subset(Manifest(g, C), r, g.layers)
<1>1. CASE AllSized(g, C, r)
  <2>1. PICK src : PicksAll(g, C, r, src)
    BY <1>1, PickedIs
  <2>2. new = [ok |-> TRUE, file |-> SliceFile(g, r, src)]
    BY <1>1, <2>1, StitchIs
  <2>3. SliceOK(g, r, SliceFile(g, r, src), src)
    BY <2>1, SliceReads DEF PicksAll, SliceOf
  <2> HIDE DEF new
  <2>4. new.ok = TRUE /\ new.file = SliceFile(g, r, src)
    BY <2>2
  <2> QED BY <2>3, <2>4 DEF new
<1>2. CASE ~AllSized(g, C, r)
  <2>1. new = Failed
    BY <1>2, StitchFails
  <2>2. new.ok = FALSE
    BY <2>1 DEF Failed
  <2>3. ~(Fills(g, C, r) /\ WholeChunks(C))
    BY <1>2, FillsSized
  <2> QED BY <2>2, <2>3
<1> QED BY <1>1, <1>2

\* A range's chunks are asked for.
LEMMA WantedFill ==
  ASSUME NEW g \in Files, NEW r \in HostRanges, NEW X, NEW C,
         \A b \in 1 .. Len(KeyList(g)) :
           BundlesOf(g)[b].key \in for_range(Manifest(g, X), r) => BundlesOf(g)[b].cid \in DOMAIN C
  PROVE  Fills(g, C, r)
<1>0. \A b \in 1 .. Len(KeyList(g)) : BundlesOf(g)[b].key = KeyList(g)[b]
  BY BundlesAre DEF BundleOK
<1> SUFFICES ASSUME NEW b \in 1 .. Len(KeyList(g)), Includes(KeyList(g)[b], r, g.layers)
             PROVE  KeyList(g)[b] \in for_range(Manifest(g, X), r)
  BY <1>0 DEF Fills
<1> DEFINE key == KeyList(g)[b]
           d == Manifest(g, X)
<1>1. key \in KeySet
  BY BundlesAre, KeysAre DEF Lists
<1>2. r[1] \in Nat /\ r[2] \in Nat /\ d.n_layers = g.layers
  BY FormatAssumption DEF Manifest
<1> HIDE DEF key, d
<1>3. Includes(key, r, g.layers)
  BY DEF key
<1>4. CASE key = EmbedKey
  <2>1. r[1] = 0
    BY <1>3, <1>4 DEF Includes, EmbedKey, HeadKey
  <2> QED BY <1>4, <2>1 DEF for_range, key, d
<1>5. CASE key = HeadKey
  <2>1. r[2] = g.layers
    BY <1>3, <1>5 DEF Includes, EmbedKey, HeadKey
  <2>2. key \in {HeadKey : n \in {d.n_layers} \cap {r[2]}}
    BY <1>2, <1>5, <2>1
  <2> QED BY <2>2 DEF for_range, key, d
<1>6. CASE key \notin {EmbedKey, HeadKey}
  <2>1. PICK l \in Nat : key = BlockKey(l)
    BY <1>1, <1>6 DEF KeySet
  <2>2. r[1] <= l /\ l < r[2]
    BY <1>3, <2>1 DEF Includes, BlockKey, EmbedKey, HeadKey
  <2>3. l \in r[1] .. r[2] - 1
    BY <1>2, <2>2
  <2> QED BY <2>1, <2>3 DEF for_range, key, d
<1> QED BY <1>4, <1>5, <1>6

-----------------------------------------------------------------------------
(* Initially, and of every step.                                              *)

\* Before anything is stored.
LEMMA InitFormat ==
  ASSUME FormatInit
  PROVE  FormatInv
<1>1. DOMAIN None = {}
  BY DEF None
<1> QED BY <1>1 DEF FormatInit, FormatInv, DirInv, StitchedInv, LoadedInv

\* A manifest is not nothing, nor is a range.
LEMMA NotNone ==
  /\ \A g, C : Manifest(g, C) # None /\ HeaderCut(g, C) # None
  /\ \A r \in HostRanges : r # None
  /\ DOMAIN None = {}
<1>1. ASSUME NEW g, NEW C PROVE Manifest(g, C) # None /\ HeaderCut(g, C) # None
  BY DEF Manifest, HeaderCut, None
<1>2. ASSUME NEW r \in HostRanges PROVE r # None
  BY FormatAssumption DEF None
<1>3. DOMAIN None = {}
  BY DEF None
<1> QED BY <1>1, <1>2, <1>3

\* A model that is split has every chunk.
LEMMA SplitInv ==
  ASSUME FormatInv, NEW r \in HostRanges, Split(r)
  PROVE  FormatInv'
<1> DEFINE C == [cid \in CidsOf(file) |-> cid]
<1>1. /\ dir = None /\ dir' = chunk_gguf(Gguf(file)) /\ kept_range' = r /\ pulled' = FALSE
      /\ UNCHANGED <<file, stitched_file, loaded, cut>>
  BY DEF Split
<1>2. file \in Files /\ file' = file /\ stitched_file' = None /\ loaded' = None /\ cut' = FALSE
      /\ cut = FALSE
  BY <1>1 DEF FormatInv, DirInv
<1>3. dir' = Manifest(file, C)
  BY <1>1, <1>2, ChunkGgufIs
<1>4. dir'.chunks = C
  BY <1>3 DEF Manifest
<1>5. ChunksOK(file, C) /\ WholeChunks(C) /\ DOMAIN C = CidsOf(file)
  BY DEF ChunksOK, WholeChunks
<1>6. Fills(file, C, r)
  BY <1>2, <1>5, BundlesAre DEF Fills
<1> HIDE DEF C
<1>7. DirInv'
  <2>1. dir' # None
    BY <1>3, NotNone
  <2> QED BY <1>1, <1>2, <1>3, <1>4, <1>5, <1>6, <2>1 DEF DirInv
<1>8. StitchedInv' /\ LoadedInv'
  BY <1>2, NotNone DEF StitchedInv, LoadedInv
<1> QED BY <1>1, <1>2, <1>7, <1>8 DEF FormatInv

\* A pull brings the chunks of its range.
LEMMA PullInv ==
  ASSUME FormatInv, NEW r \in HostRanges, Pull(r)
  PROVE  FormatInv'
<1> DEFINE all == chunk_gguf(Gguf(file))
           wanted == {b.cid : b \in {c \in ToSet(all.bundles) : c.key \in for_range(all, r)}}
           C == [cid \in wanted |-> cid]
           A == [cid \in CidsOf(file) |-> cid]
<1>1. /\ dir = None /\ dir' = [all EXCEPT !.chunks = C] /\ kept_range' = r /\ pulled' = TRUE
      /\ UNCHANGED <<file, stitched_file, loaded, cut>>
  BY DEF Pull
<1>2. file \in Files /\ file' = file /\ stitched_file' = None /\ loaded' = None /\ cut' = FALSE
      /\ cut = FALSE
  BY <1>1 DEF FormatInv, DirInv
<1>3. all = Manifest(file, A)
  BY <1>2, ChunkGgufIs
<1>4. all.bundles = BundlesOf(file)
  BY <1>3 DEF Manifest
<1>5. \A x : x \in wanted <=> \E b \in 1 .. Len(KeyList(file)) :
        BundlesOf(file)[b].key \in for_range(all, r) /\ x = BundlesOf(file)[b].cid
  <2>1. DOMAIN BundlesOf(file) = 1 .. Len(KeyList(file))
    BY <1>2, BundlesAre
  <2> HIDE DEF all
  <2> QED BY <1>4, <2>1 DEF ToSet
<1> HIDE DEF all, wanted
<1>6. dir' = Manifest(file, C)
  <2> HIDE DEF C, A
  <2> QED BY <1>1, <1>3 DEF Manifest
<1>7. dir'.chunks = C
  BY <1>6 DEF Manifest
<1>8. ChunksOK(file, C) /\ WholeChunks(C) /\ DOMAIN C = wanted
  <2>1. wanted \subseteq CidsOf(file)
    BY <1>2, <1>5, BundlesAre
  <2> QED BY <2>1 DEF ChunksOK, WholeChunks
<1> HIDE DEF C, A
<1>9. Fills(file, C, r)
  <2>1. \A b \in 1 .. Len(KeyList(file)) :
          BundlesOf(file)[b].key \in for_range(Manifest(file, A), r) =>
            BundlesOf(file)[b].cid \in DOMAIN C
    BY <1>3, <1>5, <1>8
  <2> QED BY <1>2, <2>1, WantedFill
<1>10. DirInv'
  <2>1. dir' # None
    BY <1>6, NotNone
  <2> QED BY <1>1, <1>2, <1>6, <1>7, <1>8, <1>9, <2>1 DEF DirInv
<1>11. StitchedInv' /\ LoadedInv'
  BY <1>2, NotNone DEF StitchedInv, LoadedInv
<1> QED BY <1>1, <1>2, <1>10, <1>11 DEF FormatInv

\* A chunk that is cut is not whole any more, but is still there,
LEMMA CutChunk ==
  ASSUME FormatInv, dir # None, cut = FALSE, cut' = TRUE,
         UNCHANGED <<file, pulled, kept_range, present, stitched_file, loaded>>,
         NEW cid \in DOMAIN dir.chunks,
         dir' = [dir EXCEPT !.chunks[cid] = SubSeq(@, 1, Len(@) - 1)]
  PROVE  DirInv'
<1> DEFINE C == dir.chunks
<1>1. cid \in DOMAIN C /\ dir' = [dir EXCEPT !.chunks[cid] = SubSeq(@, 1, Len(@) - 1)]
  OBVIOUS
<1>3. /\ file \in Files /\ kept_range \in HostRanges /\ dir = Manifest(file, C)
      /\ ChunksOK(file, C) /\ Fills(file, C, kept_range) /\ WholeChunks(C)
  BY DEF FormatInv, DirInv
<1> DEFINE D == [C EXCEPT ![cid] = SubSeq(cid, 1, Len(cid) - 1)]
<1>4. C[cid] = cid
  BY <1>3 DEF WholeChunks
<1>5. dir' = Manifest(file, D)
  <2>1. dir' = [dir EXCEPT !.chunks = D]
    <3>1. dir' = [dir EXCEPT !.chunks = [C EXCEPT ![cid] = SubSeq(C[cid], 1, Len(C[cid]) - 1)]]
      BY <1>1
    <3> QED BY <1>4, <3>1
  <2> HIDE DEF C, D
  <2> QED BY <1>3, <2>1 DEF Manifest
<1>6. dir'.chunks = D
  BY <1>5 DEF Manifest
<1>7. DOMAIN D = DOMAIN C /\ D[cid] = SubSeq(cid, 1, Len(cid) - 1)
      /\ \A x \in DOMAIN C : x # cid => D[x] = C[x]
  BY <1>1
<1> HIDE DEF C, D
<1>8. ChunksOK(file, D)
  BY <1>1, <1>3, <1>7 DEF ChunksOK
<1>9. Fills(file, D, kept_range)
  BY <1>3, <1>7 DEF Fills
<1>10. ~WholeChunks(D)
  <2>1. cid \in CidsOf(file)
    BY <1>1, <1>3 DEF ChunksOK
  <2>2. PICK b \in DOMAIN BundlesOf(file) : cid = BundlesOf(file)[b].cid
    BY <2>1 DEF CidsOf
  <2>3. cid \in Seq(ByteUnits) /\ cid # <<>>
    BY <1>3, <2>2, BundlesAre
  <2>4. D[cid] # cid
    BY <1>7, <2>3, CutShorter
  <2> QED BY <1>1, <1>7, <2>4 DEF WholeChunks
<1>11. dir' # None
  BY <1>5, NotNone
<1> QED BY <1>3, <1>5, <1>6, <1>8, <1>9, <1>10, <1>11 DEF DirInv

\* and so it is with the header.
LEMMA CutInv ==
  ASSUME FormatInv, Cut
  PROVE  FormatInv'
<1> DEFINE C == dir.chunks
<1>1. /\ dir # None /\ cut = FALSE /\ cut' = TRUE
      /\ UNCHANGED <<file, pulled, kept_range, present, stitched_file, loaded>>
  BY DEF Cut, FormatInv
<1>2. /\ file \in Files /\ kept_range \in HostRanges /\ dir = Manifest(file, C)
      /\ ChunksOK(file, C) /\ Fills(file, C, kept_range)
  BY <1>1 DEF FormatInv, DirInv
<1>3. DirInv'
  <2>1. CASE dir' = [dir EXCEPT !.header_chunk = SubSeq(@, 1, Len(@) - 1)]
    <3> HIDE DEF C
    <3>1. dir' = HeaderCut(file, C)
      BY <1>2, <2>1 DEF HeaderCut, Manifest
    <3>2. dir'.chunks = C
      BY <3>1, <1>2, HeaderFails
    <3>3. dir' # None
      BY <3>1, NotNone
    <3> QED BY <1>1, <1>2, <3>1, <3>2, <3>3 DEF DirInv
  <2>2. CASE \E cid \in DOMAIN dir.chunks :
               dir' = [dir EXCEPT !.chunks[cid] = SubSeq(@, 1, Len(@) - 1)]
    BY <1>1, <2>2, CutChunk
  <2> QED BY <2>1, <2>2 DEF Cut
<1>4. StitchedInv'
  BY <1>1 DEF FormatInv, StitchedInv
<1>5. LoadedInv'
  BY <1>1 DEF FormatInv, LoadedInv, LoadedOK
<1> QED BY <1>1, <1>2, <1>3, <1>4, <1>5 DEF FormatInv

\* A map with one more entry.
LEMMA WithIs ==
  ASSUME NEW f, NEW x, NEW v
  PROVE  \A y \in DOMAIN With(f, x, v) :
           \/ y \in DOMAIN f /\ y # x /\ With(f, x, v)[y] = f[y]
           \/ y = x /\ With(f, x, v)[y] = v
BY DEF With

\* A slice is loaded from the GGUF, from a file stitched before, or from a new one.
LEMMA PrepareInv ==
  ASSUME FormatInv, NEW r \in HostRanges, prepare_slice(r)
  PROVE  FormatInv'
<1> DEFINE new == IF pulled THEN Failed ELSE stitch_subset(dir, r, file.layers)
           C == dir.chunks
<1>1. /\ r = kept_range /\ r \notin DOMAIN loaded
      /\ UNCHANGED <<file, dir, pulled, kept_range, present, cut>>
  BY DEF prepare_slice
<1>2. dir # None
  BY <1>1, NotNone DEF FormatInv, DirInv
<1>3. /\ file \in Files /\ ChunksOK(file, C) /\ Fills(file, C, r)
      /\ \/ dir = Manifest(file, C) /\ (~cut <=> WholeChunks(C))
         \/ dir = HeaderCut(file, C) /\ cut
  BY <1>1, <1>2 DEF FormatInv, DirInv
<1>4. /\ new.ok \in BOOLEAN /\ new.ok => \E src : SliceOK(file, r, new.file, src)
      /\ ~new.ok => cut \/ pulled
  <2> HIDE DEF C
  <2>1. CASE pulled
    BY <2>1 DEF Failed
  <2>2. CASE ~pulled /\ dir = HeaderCut(file, C) /\ cut
    <3>1. new = Failed
      BY <1>3, <2>2, HeaderFails
    <3> HIDE DEF new
    <3> QED BY <2>2, <3>1 DEF Failed
  <2>3. CASE ~pulled /\ dir = Manifest(file, C) /\ (~cut <=> WholeChunks(C))
    <3>1. new = stitch_subset(Manifest(file, C), r, file.layers)
      BY <2>3
    <3> HIDE DEF new
    <3> QED BY <1>3, <2>3, <3>1, StitchResult
  <2> QED BY <1>3, <2>1, <2>2, <2>3
<1>5. DirInv'
  <2>1. /\ file' = file /\ dir' = dir /\ kept_range' = kept_range /\ cut' = cut
        /\ kept_range \in HostRanges
    BY <1>1
  <2>2. dir' # None /\ dir'.chunks = C
    BY <1>2, <2>1
  <2> HIDE DEF C
  <2> QED BY <1>1, <1>3, <2>1, <2>2 DEF DirInv
<1>6. StitchedInv /\ LoadedInv /\ cut \in BOOLEAN /\ pulled \in BOOLEAN
  BY DEF FormatInv
<1> DEFINE may == cut \/ pulled
<1>7. \E s : loaded' = With(loaded, r, s) /\ LoadedOK(file, may, r, s) /\ StitchedInv'
  <2>1. CASE /\ present
             /\ loaded' = With(loaded, r, [ok |-> TRUE, file |-> Gguf(file), offset |-> 0])
             /\ UNCHANGED stitched_file
    <3>1. LoadedOK(file, may, r, [ok |-> TRUE, file |-> Gguf(file), offset |-> 0])
      BY DEF LoadedOK
    <3>2. StitchedInv'
      BY <1>1, <1>6, <2>1 DEF StitchedInv
    <3> QED BY <2>1, <3>1, <3>2
  <2>2. CASE /\ ~present /\ r \in DOMAIN stitched_file
             /\ loaded' = With(loaded, r, [ok |-> TRUE, file |-> stitched_file[r],
                                           offset |-> r[1]])
             /\ UNCHANGED stitched_file
    <3>1. LoadedOK(file, may, r, [ok |-> TRUE, file |-> stitched_file[r], offset |-> r[1]])
      BY <1>6, <2>2 DEF LoadedOK, StitchedInv
    <3>2. StitchedInv'
      BY <1>1, <1>6, <2>2 DEF StitchedInv
    <3> QED BY <2>2, <3>1, <3>2
  <2>3. CASE /\ ~present /\ r \notin DOMAIN stitched_file /\ new.ok
             /\ stitched_file' = With(stitched_file, r, new.file)
             /\ loaded' = With(loaded, r, [ok |-> TRUE, file |-> new.file, offset |-> r[1]])
    <3>1. \E src : SliceOK(file, r, new.file, src)
      BY <1>4, <2>3
    <3> HIDE DEF new
    <3>2. LoadedOK(file, may, r, [ok |-> TRUE, file |-> new.file, offset |-> r[1]])
      BY <3>1 DEF LoadedOK
    <3>3. StitchedInv'
      <4> SUFFICES ASSUME NEW q \in DOMAIN stitched_file'
                   PROVE q \in HostRanges /\ \E src : SliceOK(file, q, stitched_file'[q], src)
        BY <1>1 DEF StitchedInv
      <4>1. \/ q \in DOMAIN stitched_file /\ q # r /\ stitched_file'[q] = stitched_file[q]
            \/ q = r /\ stitched_file'[q] = new.file
        <5> DEFINE w == With(stitched_file, r, new.file)
        <5>1. \A y \in DOMAIN w : \/ y \in DOMAIN stitched_file /\ y # r /\ w[y] = stitched_file[y]
                                  \/ y = r /\ w[y] = new.file
          BY WithIs
        <5>2. stitched_file' = w
          BY <2>3
        <5> HIDE DEF w
        <5>3. q \in DOMAIN w
          BY <5>2
        <5> QED BY <5>1, <5>2, <5>3
      <4>2. CASE q \in DOMAIN stitched_file /\ q # r /\ stitched_file'[q] = stitched_file[q]
        BY <1>6, <4>2 DEF StitchedInv
      <4>3. CASE q = r /\ stitched_file'[q] = new.file
        BY <3>1, <4>3
      <4> QED BY <4>1, <4>2, <4>3
    <3> QED BY <2>3, <3>2, <3>3
  <2>4. CASE /\ ~present /\ r \notin DOMAIN stitched_file /\ ~new.ok
             /\ loaded' = With(loaded, r, Failed)
             /\ UNCHANGED stitched_file
    <3>1. LoadedOK(file, may, r, Failed)
      <4>1. may
        BY <1>4, <2>4
      <4> QED BY <4>1 DEF LoadedOK, Failed
    <3>2. StitchedInv'
      BY <1>1, <1>6, <2>4 DEF StitchedInv
    <3> QED BY <2>4, <3>1, <3>2
  <2> QED BY <2>1, <2>2, <2>3, <2>4, Zenon DEF prepare_slice
<1>8. LoadedInv'
  <2>1. PICK s : loaded' = With(loaded, r, s) /\ LoadedOK(file, may, r, s)
    BY <1>7
  <2> SUFFICES ASSUME NEW q \in DOMAIN loaded'
               PROVE  q \in HostRanges /\ LoadedOK(file, may, q, loaded'[q])
    BY <1>1 DEF LoadedInv
  <2>3. \/ q \in DOMAIN loaded /\ q # r /\ loaded'[q] = loaded[q]
        \/ q = r /\ loaded'[q] = s
    <3> DEFINE w == With(loaded, r, s)
    <3>1. \A y \in DOMAIN w : \/ y \in DOMAIN loaded /\ y # r /\ w[y] = loaded[y]
                              \/ y = r /\ w[y] = s
      BY WithIs
    <3>2. loaded' = w
      BY <2>1
    <3> HIDE DEF w
    <3>3. q \in DOMAIN w
      BY <3>2
    <3> QED BY <3>1, <3>2, <3>3
  <2> QED BY <1>6, <2>1, <2>3 DEF LoadedInv
<1> QED BY <1>1, <1>3, <1>5, <1>6, <1>7, <1>8 DEF FormatInv

\* Every step keeps the invariant.
LEMMA StepFormat ==
  ASSUME FormatInv, [FormatNext]_format_vars
  PROVE  FormatInv'
<1>1. CASE \E r \in HostRanges : Split(r)
  BY <1>1, SplitInv
<1>2. CASE \E r \in HostRanges : Pull(r)
  BY <1>2, PullInv
<1>3. CASE \E r \in HostRanges : prepare_slice(r)
  BY <1>3, PrepareInv
<1>4. CASE Delete
  BY <1>4 DEF Delete, FormatInv, DirInv, StitchedInv, LoadedInv, LoadedOK
<1>5. CASE Cut
  BY <1>5, CutInv
<1>6. CASE Restart
  BY <1>6, NotNone DEF Restart, FormatInv, DirInv, StitchedInv, LoadedInv, LoadedOK
<1>7. CASE UNCHANGED format_vars
  BY <1>7 DEF format_vars, FormatInv, DirInv, StitchedInv, LoadedInv, LoadedOK
<1> QED BY <1>1, <1>2, <1>3, <1>4, <1>5, <1>6, <1>7, Zenon DEF FormatNext

-----------------------------------------------------------------------------
(* The two properties.                                                        *)

\* The invariant gives the first property,
LEMMA FormatReads ==
  ASSUME FormatInv
  PROVE  HopRunsItsLayers
<1>1. file \in Files /\ StitchedInv /\ LoadedInv
  BY DEF FormatInv
<1>2. ASSUME NEW t \in ToSet(file.tensors)
      PROVE  \E i \in 1 .. Count(file) : t = file.tensors[i]
  <2>1. DOMAIN file.tensors = 1 .. Count(file)
    BY <1>1, FileIs DEF TensorsOK
  <2> QED BY <2>1 DEF ToSet
<1>3. ASSUME NEW r \in DOMAIN loaded, loaded[r].ok,
             NEW t \in ToSet(file.tensors), PartOf(t.name, r)
      PROVE  Reads(loaded[r].file,
                   IF t.name.stem = "blk"
                   THEN [t.name EXCEPT !.layer = @ - loaded[r].offset] ELSE t.name,
                   t.data)
  <2>1. r \in HostRanges /\ LoadedOK(file, cut \/ pulled, r, loaded[r])
    BY <1>1 DEF LoadedInv
  <2>2. PICK i \in 1 .. Count(file) : t = file.tensors[i]
    BY <1>2
  <2>3. i \in WantedAt(file, r)
    BY <1>1, <1>3, <2>1, <2>2, PartIs
  <2> DEFINE s == loaded[r]
             name == IF t.name.stem = "blk" THEN [t.name EXCEPT !.layer = @ - s.offset] ELSE t.name
  <2>4. CASE s.offset = 0 /\ s.file = Gguf(file)
    <3>1. name = t.name
      <4>1. t.name \in Names
        BY <1>1, <2>2, FileIs DEF TensorsOK
      <4>2. [t.name EXCEPT !.layer = @ - 0] = t.name
        BY <4>1 DEF Names
      <4> QED BY <2>4, <4>2
    <3>2. Reads(Gguf(file), t.name, t.data)
      BY <1>1, <2>2, WholeReads
    <3> HIDE DEF name, s
    <3> QED BY <2>4, <3>1, <3>2 DEF name, s
  <2>5. CASE s.offset = r[1] /\ \E src : SliceOK(file, r, s.file, src)
    <3>1. name = rename_tensor(t.name, r[1])
      BY <1>1, <2>1, <2>2, <2>3, <2>5, NamesOfSlice
    <3>2. Reads(s.file, rename_tensor(t.name, r[1]), t.data)
      BY <1>1, <2>1, <2>2, <2>3, <2>5, PartReads
    <3> HIDE DEF name, s
    <3> QED BY <3>1, <3>2 DEF name, s
  <2>6. \/ s.offset = 0 /\ s.file = Gguf(file)
        \/ s.offset = r[1] /\ \E src : SliceOK(file, r, s.file, src)
    BY <1>3, <2>1 DEF LoadedOK
  <2> QED BY <2>4, <2>5, <2>6
<1>4. ASSUME NEW r \in DOMAIN stitched_file
      PROVE  LET f == stitched_file[r] IN
             /\ Len(f.index) = Cardinality({t \in ToSet(file.tensors) : PartOf(t.name, r)})
             /\ KvValue(f, "block_count", r[2] - r[1]) = r[2] - r[1]
             /\ \A i \in DOMAIN f.index : f.index[i].name.layer < r[2] - r[1]
  <2> DEFINE f == stitched_file[r]
  <2>1. r \in HostRanges
    BY <1>1 DEF StitchedInv
  <2>2. PICK src : SliceOK(file, r, f, src)
    BY <1>1 DEF StitchedInv
  <2> HIDE DEF f
  <2>3. Len(f.index) = Cardinality({t \in ToSet(file.tensors) : PartOf(t.name, r)})
    BY <1>1, <2>1, <2>2, SliceCounts
  <2>4. KvValue(f, "block_count", r[2] - r[1]) = r[2] - r[1]
    <3>1. KvOK(file, f.kv, r[2] - r[1])
      BY <2>2 DEF SliceOK
    <3> QED BY <1>1, <3>1, KvReads
  <2>5. ASSUME NEW i \in DOMAIN f.index PROVE f.index[i].name.layer < r[2] - r[1]
    <3>1. i \in 1 .. Len(src) /\ Lists(WantedAt(file, r), src)
      BY <2>2, <2>5 DEF SliceOK, SliceOf
    <3>2. f.index[i].name = rename_tensor(file.tensors[src[i]].name, r[1])
      BY <2>2, <3>1 DEF SliceOK
    <3>3. src[i] \in WantedAt(file, r)
      BY <3>1 DEF Lists
    <3>4. rename_tensor(file.tensors[src[i]].name, r[1]).layer < r[2] - r[1]
      BY <1>1, <2>1, <3>3, NamesOfSlice
    <3> QED BY <3>2, <3>4
  <2> QED BY <2>3, <2>4, <2>5 DEF f
<1> QED BY <1>3, <1>4, Zenon DEF HopRunsItsLayers

\* and the second.
LEMMA FormatLoads ==
  ASSUME FormatInv
  PROVE  StoredRangeStitches
<1> DEFINE C == dir.chunks
<1>1. \A r \in DOMAIN loaded : loaded[r].ok \/ cut \/ pulled
  BY DEF FormatInv, LoadedInv, LoadedOK
<1>2. ASSUME dir # None
      PROVE  /\ file \in Files /\ kept_range \in HostRanges /\ cut \in BOOLEAN
             /\ ChunksOK(file, C) /\ Fills(file, C, kept_range)
             /\ \/ dir = Manifest(file, C) /\ (~cut <=> WholeChunks(C))
                \/ dir = HeaderCut(file, C) /\ cut
  BY <1>2 DEF FormatInv, DirInv
<1>3. ASSUME dir # None, ~cut
      PROVE  LET new == stitch_subset(dir, kept_range, file.layers)
             IN new.ok /\ \A t \in ToSet(file.tensors) : PartOf(t.name, kept_range) =>
                            Reads(new.file, rename_tensor(t.name, kept_range[1]), t.data)
  <2> DEFINE new == stitch_subset(dir, kept_range, file.layers)
             r == kept_range
  <2>1. dir = Manifest(file, C) /\ WholeChunks(C)
    BY <1>2, <1>3
  <2> HIDE DEF C
  <2>2. new = stitch_subset(Manifest(file, C), r, file.layers)
    BY <2>1
  <2> HIDE DEF new
  <2>3. new.ok /\ \E src : SliceOK(file, r, new.file, src)
    BY <1>2, <1>3, <2>1, <2>2, StitchResult
  <2>4. ASSUME NEW t \in ToSet(file.tensors), PartOf(t.name, r)
        PROVE  Reads(new.file, rename_tensor(t.name, r[1]), t.data)
    <3>1. DOMAIN file.tensors = 1 .. Count(file)
      BY <1>2, <1>3, FileIs DEF TensorsOK
    <3>2. PICK i \in 1 .. Count(file) : t = file.tensors[i]
      BY <3>1 DEF ToSet
    <3>3. i \in WantedAt(file, r)
      BY <1>2, <1>3, <2>4, <3>2, PartIs
    <3> QED BY <1>2, <1>3, <2>3, <3>2, <3>3, PartReads
  <2> QED BY <2>3, <2>4 DEF new
<1>4. ASSUME dir # None, DOMAIN dir.chunks = {b.cid : b \in ToSet(dir.bundles)}
      PROVE  verify_chunks(dir) <=> ~cut
  <2>1. dir.bundles = BundlesOf(file) /\ (dir.header_chunk = dir.header <=> dir = Manifest(file, C))
    <3> HIDE DEF C
    <3>1. /\ Manifest(file, C).bundles = BundlesOf(file)
          /\ Manifest(file, C).header_chunk = Manifest(file, C).header
      BY DEF Manifest
    <3>2. /\ HeaderCut(file, C).bundles = BundlesOf(file)
          /\ HeaderCut(file, C).header_chunk # HeaderCut(file, C).header
      BY <1>2, <1>4, HeaderFails
    <3> QED BY <1>2, <1>4, <3>1, <3>2
  <2>2. \A b : b \in ToSet(dir.bundles) <=> \E k \in 1 .. Len(KeyList(file)) : b = BundlesOf(file)[k]
    BY <1>2, <1>4, <2>1, BundlesAre DEF ToSet
  <2>3. ASSUME ~cut PROVE verify_chunks(dir)
    <3>1. dir.header_chunk = dir.header /\ WholeChunks(C)
      BY <1>2, <1>4, <2>1, <2>3
    <3>2. ASSUME NEW b \in ToSet(dir.bundles)
          PROVE  /\ b.cid \in DOMAIN C /\ C[b.cid] = b.cid
                 /\ \A m \in ToSet(b.members) :
                      SubSeq(b.cid, m.offset + 1, m.offset + m.size) = m.cid
      <4>1. b.cid \in DOMAIN C
        BY <1>4
      <4>2. C[b.cid] = b.cid
        BY <3>1, <4>1 DEF WholeChunks
      <4>3. PICK k \in 1 .. Len(KeyList(file)) : b = BundlesOf(file)[k]
        BY <2>2
      <4>4. BundleOK(Gguf(file), b, KeyList(file)[k], BundleAt(Gguf(file), KeyList(file)[k]))
        BY <1>2, <1>4, <4>3, BundlesAre
      <4>5. \A m \in ToSet(b.members) : SubSeq(b.cid, m.offset + 1, m.offset + m.size) = m.cid
        BY <4>4 DEF BundleOK, ToSet
      <4> QED BY <4>1, <4>2, <4>5
    <3> QED BY <3>1, <3>2 DEF verify_chunks
  <2>4. ASSUME cut, verify_chunks(dir) PROVE FALSE
    <3>1. dir = Manifest(file, C)
      BY <2>1, <2>4 DEF verify_chunks
    <3>2. ~WholeChunks(C)
      BY <1>2, <1>4, <2>1, <2>4, <3>1, HeaderFails DEF verify_chunks
    <3>3. PICK cid \in DOMAIN C : C[cid] # cid
      BY <3>2 DEF WholeChunks
    <3>4. PICK b \in ToSet(dir.bundles) : cid = b.cid
      BY <1>4, <3>3
    <3> QED BY <2>4, <3>3, <3>4 DEF verify_chunks
  <2> QED BY <1>2, <1>4, <2>3, <2>4
<1> QED BY <1>1, <1>3, <1>4 DEF StoredRangeStitches

\* The slice that is loaded for a range reads the data of the session's layers,
\* for every model, order of the data, size and alignment, and also if a chunk was
\* cut short: stitch_subset numbers and places the tensors as the parser and
\* forward_range look for them.
THEOREM HopsRunTheirLayers == FormatSpec => []HopRunsItsLayers
<1>1. FormatInit => FormatInv
  BY InitFormat
<1>2. FormatInv /\ [FormatNext]_format_vars => FormatInv'
  BY StepFormat
<1>3. FormatInv => HopRunsItsLayers
  BY FormatReads
<1> QED BY <1>1, <1>2, <1>3, PTL DEF FormatSpec

\* What a split or a pull has stored suffices to stitch its range, unless a chunk or
\* the header was cut, and verify_chunks finds out that one was: what a pull asks
\* for is what the stitcher needs, its own check of the positions does not fail, and
\* the file reads the range's data.  A range that was split loads.
THEOREM StoredRangesStitch == FormatSpec => []StoredRangeStitches
<1>1. FormatInit => FormatInv
  BY InitFormat
<1>2. FormatInv /\ [FormatNext]_format_vars => FormatInv'
  BY StepFormat
<1>3. FormatInv => StoredRangeStitches
  BY FormatLoads
<1> QED BY <1>1, <1>2, <1>3, PTL DEF FormatSpec
===============================================================================
