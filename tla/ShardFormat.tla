------------------------------ MODULE ShardFormat ------------------------------
(* The layout of the files a shard is made of: what the parser reads from a     *)
(* GGUF (gguf.rs), the bundles the chunker cuts it into (chunker.rs, bundle.rs) *)
(* and the GGUF the stitcher writes for a range of layers (stitch.rs), which    *)
(* the forward listener loads (forward_server.rs). Bytes are counted in units,  *)
(* and a header entry of any kind is one unit long.                             *)
EXTENDS Integers, FiniteSetsExt, SequencesExt

CONSTANTS Files,       \* GGUFs: [tensors, layers, order, alignment, counted, tail]
          HostRanges   \* ranges <<start, end>> that may be kept

\* A GGUF of the program has tensors of different names for every one of its
\* layers, none of them empty, in any order of the data; ranges are not empty.
ASSUME FormatAssumption ==
  /\ \A g \in Files :
       LET n == Len(g.tensors)
           name(i) == g.tensors[i].name
       IN /\ g.layers \in Nat \ {0} /\ g.alignment \in Nat \ {0}
          /\ g.counted \in BOOLEAN /\ g.tail \in BOOLEAN
          /\ g.tensors \in Seq([name : [stem : STRING, layer : Int, part : STRING],
                                data : Seq(STRING)])
          /\ \A i \in 1 .. n : g.tensors[i].data # <<>>
          /\ \A i, j \in 1 .. n : i # j => name(i) # name(j)
          /\ \A i \in 1 .. n : name(i).layer \in IF name(i).stem = "blk" THEN 0 .. g.layers - 1
                                                 ELSE {-1}
          /\ \A l \in 0 .. g.layers - 1 : \E i \in 1 .. n : name(i).stem = "blk" /\ name(i).layer = l
          /\ g.order \in [1 .. n -> 1 .. n]
          /\ \A i, j \in 1 .. n : i # j => g.order[i] # g.order[j]
          /\ \A i \in 1 .. n : \E k \in 1 .. n : g.order[k] = i
  /\ \A r \in HostRanges : /\ r \in Nat \X Nat /\ r[1] < r[2]
                          /\ \A g \in Files : r[2] <= g.layers

VARIABLES file,          \* the GGUF the model was downloaded as
          dir,           \* a manifest's directory: the manifest and its chunks
          pulled,        \* it lies at <root>/<manifest cid>, else it is the root
          kept_range,    \* the range of kept_ranges.json
          present,       \* its gguf_path is there
          stitched_file, \* range -> stitched-<start>-<end>.gguf
          loaded,        \* range -> LoadedSlice
          cut            \* a chunk has lost its end

format_vars == <<file, dir, pulled, kept_range, present, stitched_file, loaded, cut>>

\* A tensor's name: token_embd, blk.<layer>.<part>, output, ...
Name(stem, layer, part) == [stem |-> stem, layer |-> layer, part |-> part]
Zeros(n) == [i \in 1 .. n |-> "0"]

\* The elements of S, each once, in the order Before: what a loop that filters a
\* list, or goes through a BTreeMap, sees.
Ordered(S, Before(_, _)) ==
  CHOOSE s \in [1 .. Cardinality(S) -> S] : \A i, j \in DOMAIN s : i < j => Before(s[i], s[j])
Less(i, j) == i < j

Last0(S, default) == IF S = {} THEN default ELSE Max(S)

-----------------------------------------------------------------------------
(* gguf.rs: a file is its KV entries, its tensor index and the units behind.  *)

DefaultAlignment == 2

AlignUp(n, a) == IF a = 0 \/ n % a = 0 THEN n ELSE n + a - (n % a)

KvValue(f, key, default) ==
  LET hits == {i \in DOMAIN f.kv : f.kv[i].key = key}
  IN IF hits = {} THEN default ELSE f.kv[Max(hits)].value

Alignment(f) == KvValue(f, "alignment", DefaultAlignment)

\* Magic, version and the two counts come first.
HeaderLen(f) == 3 + Len(f.kv) + Len(f.index)
DataOffset(f) == AlignUp(HeaderLen(f), Alignment(f))

Blob(f) == SubSeq(f.body, DataOffset(f) - HeaderLen(f) + 1, Len(f.body))

\* Mutation of NextOffset: the next entry of the index is taken for the next of
\* the data.
NextOffsetInIndex(f, i) ==
  IF i = Len(f.index) THEN Len(Blob(f)) ELSE f.index[i + 1].offset

\* A tensor goes up to the one behind it, wherever that is in the index.
NextOffset(f, i) ==
  Min({Len(Blob(f))} \cup {n \in {f.index[j].offset : j \in DOMAIN f.index} :
                              n > f.index[i].offset})

TensorBytes(f, i) == SubSeq(Blob(f), f.index[i].offset + 1, NextOffset(f, i))

\* Where data of these sizes ends, one behind the other, each aligned.
Laid(sizes, a) ==
  LET at[k \in 0 .. Len(sizes)] == IF k = 0 THEN 0 ELSE AlignUp(at[k - 1] + sizes[k], a)
  IN at

\* What llama.cpp's tools write: `order` is that of the data, `counted` that there
\* is a block count, `tail` that the last tensor is padded too.
GgufKv(g) ==
  <<[key |-> "architecture", value |-> 0]>>
    \o (IF g.counted THEN <<[key |-> "block_count", value |-> g.layers]>> ELSE <<>>)
    \o (IF g.alignment = DefaultAlignment THEN <<>>
        ELSE <<[key |-> "alignment", value |-> g.alignment]>>)

Gguf(g) ==
  LET n == Len(g.tensors)
      place(i) == CHOOSE k \in 1 .. n : g.order[k] = i
      data(k) == g.tensors[g.order[k]].data
      at == Laid([k \in 1 .. n |-> Len(data(k))], g.alignment)
      padding(k) == IF k = n /\ ~g.tail THEN 0 ELSE at[k] - at[k - 1] - Len(data(k))
      header == 3 + Len(GgufKv(g)) + n
  IN [kv |-> GgufKv(g),
      index |-> [i \in 1 .. n |->
                   [name |-> g.tensors[i].name, offset |-> at[place(i) - 1]]],
      body |-> Zeros(AlignUp(header, g.alignment) - header)
               \o FlattenSeq([k \in 1 .. n |-> data(k) \o Zeros(padding(k))])]

-----------------------------------------------------------------------------
(* bundle.rs and chunker.rs                                                   *)

\* BundleKey: the embedding, the blocks, the head.
EmbedKey == <<0, 0>>
BlockKey(n) == <<1, n>>
HeadKey == <<2, 0>>
KeyBefore(a, b) == a[1] < b[1] \/ (a[1] = b[1] /\ a[2] < b[2])

\* What is neither the embedding nor a block's is the head's.
classify_tensor(name) ==
  IF name.stem = "token_embd" THEN EmbedKey
  ELSE IF name.stem = "blk" /\ name.layer >= 0 THEN BlockKey(name.layer)
  ELSE HeadKey

\* The tensors of one bundle in the order of the index, and their bytes in a row.
BundleAt(f, key) ==
  Ordered({i \in DOMAIN f.index : classify_tensor(f.index[i].name) = key}, Less)

Bundle(f, key) ==
  LET mine == BundleAt(f, key)
      bytes == [m \in DOMAIN mine |-> TensorBytes(f, mine[m])]
  IN [key |-> key, cid |-> FlattenSeq(bytes),
      members |-> [m \in DOMAIN mine |->
        [name |-> f.index[mine[m]].name, size |-> Len(bytes[m]), cid |-> bytes[m],
         offset |-> Len(FlattenSeq(SubSeq(bytes, 1, m - 1)))]]]

\* The layers are counted if the file does not say.
NLayers(f) ==
  KvValue(f, "block_count", Last0({classify_tensor(f.index[i].name)[2] + 1 :
    i \in {j \in DOMAIN f.index : classify_tensor(f.index[j].name)[1] = 1}}, 0))

\* A chunk's CID is the hash of its bytes, here the bytes. The header is one chunk
\* too, of which the manifest holds the CID and the directory the bytes.
chunk_gguf(f) ==
  LET keys == Ordered({classify_tensor(f.index[i].name) : i \in DOMAIN f.index}, KeyBefore)
      bundles == [b \in DOMAIN keys |-> Bundle(f, keys[b])]
  IN [n_layers |-> NLayers(f), alignment |-> Alignment(f), header |-> f.kv,
      bundles |-> bundles, header_chunk |-> f.kv,
      chunks |-> [cid \in {bundles[b].cid : b \in DOMAIN bundles} |-> cid]]

\* verify_chunks of a directory: every chunk of the manifest is there and has its
\* length and hash, and every tensor cut out of it has its own.
verify_chunks(d) ==
  /\ d.header_chunk = d.header
  /\ \A b \in ToSet(d.bundles) :
       /\ b.cid \in DOMAIN d.chunks /\ d.chunks[b.cid] = b.cid
       /\ \A m \in ToSet(b.members) :
            SubSeq(b.cid, m.offset + 1, m.offset + m.size) = m.cid

\* The bundles FetchPlan::for_range names.
for_range(d, r) ==
  {EmbedKey : n \in {0} \cap {r[1]}} \cup {BlockKey(n) : n \in r[1] .. r[2] - 1}
    \cup {HeadKey : n \in {d.n_layers} \cap {r[2]}}

-----------------------------------------------------------------------------
(* stitch.rs                                                                  *)

\* Layers are numbered from 0 on again (saturating_sub).
rename_tensor(name, offset) ==
  IF name.stem = "blk" /\ name.layer >= 0
  THEN [name EXCEPT !.layer = IF @ < offset THEN 0 ELSE @ - offset] ELSE name

\* Mutation of Padded: a tensor is filled up to the alignment of its own length,
\* less than it takes.
PaddedShort(from, bytes, a) == from + Len(bytes)

\* Where the next tensor starts in the file.
Padded(from, bytes, a) == AlignUp(from + Len(bytes), a)

Failed == [ok |-> FALSE]

\* A bundle's chunk is there, with the length of the manifest; nobody hashes it.
Sized(d, b) == b.cid \in DOMAIN d.chunks /\ Len(d.chunks[b.cid]) = Len(b.cid)

\* stitch_subset's include_embed and include_head are those of stitch_subset_for.
Includes(key, r, block_count) ==
  \/ key[1] = 1 /\ r[1] <= key[2] /\ key[2] < r[2]
  \/ key = EmbedKey /\ r[1] = 0
  \/ key = HeadKey /\ r[2] = block_count

Chosen(d, r, block_count) ==
  LET at == Ordered({b \in DOMAIN d.bundles : Includes(d.bundles[b].key, r, block_count)}, Less)
  IN [k \in DOMAIN at |-> d.bundles[at[k]]]

\* The tensors of a bundle, cut out of its chunk.
CutOut(d, b, r) ==
  [m \in DOMAIN b.members |->
     [name |-> rename_tensor(b.members[m].name, r[1]),
      bytes |-> SubSeq(d.chunks[b.cid], b.members[m].offset + 1,
                       b.members[m].offset + b.members[m].size)]]

Picked(d, r, block_count) ==
  LET chosen == Chosen(d, r, block_count)
  IN FlattenSeq([b \in DOMAIN chosen |-> CutOut(d, chosen[b], r)])

StitchedKv(d, r, block_count) ==
  [i \in DOMAIN d.header_chunk |->
     IF d.header_chunk[i].key = "block_count"
     THEN [d.header_chunk[i] EXCEPT !.value = r[2] - r[1]] ELSE d.header_chunk[i]]
  \o <<[key |-> "has_embed", value |-> r[1] = 0],
       [key |-> "has_head", value |-> r[2] = block_count]>>

\* How far the file is written after each tensor.
WrittenTo(from, picked, a) ==
  LET pos[k \in 0 .. Len(picked)] ==
        IF k = 0 THEN from ELSE Padded(pos[k - 1], picked[k].bytes, a)
  IN pos

stitch_subset(d, r, block_count) ==
  LET there == Len(d.header_chunk) = Len(d.header) /\ \A b \in ToSet(Chosen(d, r, block_count)) : Sized(d, b)
      picked == Picked(d, r, block_count)
      a == IF d.alignment = 0 THEN 1 ELSE d.alignment
      kv == StitchedKv(d, r, block_count)
      at == Laid([k \in DOMAIN picked |-> Len(picked[k].bytes)], a)
      header == 3 + Len(kv) + Len(picked)
      data == AlignUp(header, a)
      pos == WrittenTo(data, picked, a)
  IN IF \/ r[2] < r[1] \/ r[2] > d.n_layers
        \/ r[2] = block_count /\ r[2] # d.n_layers
        \/ ~there
     THEN Failed
     ELSE IF picked = <<>> \/ \E k \in DOMAIN picked : pos[k - 1] # data + at[k - 1]
     THEN Failed
     ELSE [ok |-> TRUE, file |->
       [kv |-> kv,
        index |-> [k \in DOMAIN picked |-> [name |-> picked[k].name, offset |-> at[k - 1]]],
        body |-> Zeros(data - header) \o FlattenSeq([k \in DOMAIN picked |->
          picked[k].bytes \o Zeros(pos[k] - pos[k - 1] - Len(picked[k].bytes))])]]

-----------------------------------------------------------------------------
(* A host of the model                                                        *)

None == <<>>
With(f, r, v) == [k \in DOMAIN f \cup {r} |-> IF k = r THEN v ELSE f[k]]

FormatInit ==
  /\ file \in Files
  /\ dir = None /\ pulled = FALSE /\ kept_range = None /\ present = FALSE
  /\ stitched_file = None /\ loaded = None /\ cut = FALSE

\* start_split: every chunk, and one range of the catalog is kept. A shard is
\* filled once here; ShardStore has the later fills.
Split(r) ==
  /\ dir = None
  /\ dir' = chunk_gguf(Gguf(file)) /\ pulled' = FALSE
  /\ kept_range' = r /\ present' = TRUE
  /\ UNCHANGED <<file, stitched_file, loaded, cut>>

\* start_pull from a host that has split it: the chunks of the range, each of whose
\* bundles the manifest has to name, in a directory below the root.
Pull(r) ==
  /\ dir = None
  /\ LET all == chunk_gguf(Gguf(file))
         wanted == {b.cid : b \in {c \in ToSet(all.bundles) : c.key \in for_range(all, r)}}
     IN /\ for_range(all, r) \subseteq {b.key : b \in ToSet(all.bundles)}
        /\ dir' = [all EXCEPT !.chunks = [cid \in wanted |-> cid]]
  /\ pulled' = TRUE /\ kept_range' = r /\ present' = FALSE
  /\ UNCHANGED <<file, stitched_file, loaded, cut>>

\* The user deletes the GGUF he has split.
Delete ==
  /\ present /\ present' = FALSE
  /\ UNCHANGED <<file, dir, pulled, kept_range, stitched_file, loaded, cut>>

\* A chunk on disk is cut short: a copy that did not finish, a full disk.
Cut ==
  /\ dir # None /\ ~cut /\ cut' = TRUE
  /\ \/ dir' = [dir EXCEPT !.header_chunk = SubSeq(@, 1, Len(@) - 1)]
     \/ \E cid \in DOMAIN dir.chunks :
          dir' = [dir EXCEPT !.chunks[cid] = SubSeq(@, 1, Len(@) - 1)]
  /\ UNCHANGED <<file, pulled, kept_range, present, stitched_file, loaded>>

Restart ==
  /\ loaded # None /\ loaded' = None
  /\ UNCHANGED <<file, dir, pulled, kept_range, present, stitched_file, cut>>

\* A session on a kept range that is not loaded yet: the whole GGUF, the file
\* stitched before, or a new one, for which it reads the manifest in the root.
prepare_slice(r) ==
  /\ r = kept_range /\ r \notin DOMAIN loaded
  /\ LET new == IF pulled THEN Failed ELSE stitch_subset(dir, r, file.layers) IN
     \/ /\ present
        /\ loaded' = With(loaded, r, [ok |-> TRUE, file |-> Gguf(file), offset |-> 0])
        /\ UNCHANGED stitched_file
     \/ /\ ~present /\ r \in DOMAIN stitched_file
        /\ loaded' = With(loaded, r, [ok |-> TRUE, file |-> stitched_file[r],
                                      offset |-> r[1]])
        /\ UNCHANGED stitched_file
     \/ /\ ~present /\ r \notin DOMAIN stitched_file /\ new.ok
        /\ stitched_file' = With(stitched_file, r, new.file)
        /\ loaded' = With(loaded, r, [ok |-> TRUE, file |-> new.file, offset |-> r[1]])
     \/ /\ ~present /\ r \notin DOMAIN stitched_file /\ ~new.ok
        /\ loaded' = With(loaded, r, Failed)
        /\ UNCHANGED stitched_file
  /\ UNCHANGED <<file, dir, pulled, kept_range, present, cut>>

FormatNext ==
  \/ \E r \in HostRanges : Split(r) \/ Pull(r) \/ prepare_slice(r)
  \/ Delete \/ Cut \/ Restart

FormatSpec == FormatInit /\ [][FormatNext]_format_vars

-----------------------------------------------------------------------------
(* Properties                                                                 *)

\* The tensors a hop of a range works with.
PartOf(name, r) ==
  CASE name.stem = "blk" -> r[1] <= name.layer /\ name.layer < r[2]
    [] name.stem = "token_embd" -> r[1] = 0
    [] OTHER -> r[2] = file.layers

\* f has one tensor of that name, and reads its data and then zeros.
Reads(f, name, data) ==
  \E i \in DOMAIN f.index :
    /\ f.index[i].name = name
    /\ \A j \in DOMAIN f.index \ {i} : f.index[j].name # name
    /\ LET bytes == TensorBytes(f, i) IN
       bytes = data \o Zeros(Len(bytes) - Len(data))

\* Whatever the sizes, the alignment and the order of the data, and also if a chunk
\* was cut short: the slice that is loaded for a range reads, as the layer that
\* forward_range is called with, the data of the session's layer, and the
\* embedding and the head where they belong.
\* A stitched file has no other tensors, and as many layers as libllama is told.
HopRunsItsLayers ==
  /\ \A r \in DOMAIN loaded : loaded[r].ok =>
       \A t \in ToSet(file.tensors) : PartOf(t.name, r) =>
         Reads(loaded[r].file,
               IF t.name.stem = "blk"
               THEN [t.name EXCEPT !.layer = @ - loaded[r].offset] ELSE t.name,
               t.data)
  /\ \A r \in DOMAIN stitched_file :
       /\ Len(stitched_file[r].index) =
            Cardinality({t \in ToSet(file.tensors) : PartOf(t.name, r)})
       /\ KvValue(stitched_file[r], "block_count", r[2] - r[1]) = r[2] - r[1]
       /\ \A i \in DOMAIN stitched_file[r].index :
            stitched_file[r].index[i].name.layer < r[2] - r[1]

\* "Hand this straight to stitch_subset": unless a chunk was cut, what a split or a
\* pull has left in the manifest's directory suffices to stitch the range that is
\* kept, the stitcher's check of its positions does not fail, and the file it writes
\* reads the data of the range's tensors; verify_chunks calls a directory with every
\* chunk sound exactly if none was cut.  prepare_slice gets there for a range that
\* was split, not for one that was pulled: it reads the manifest in the root
\* (ListedIsRunnable of ShardStore).
StoredRangeStitches ==
  /\ dir # None /\ ~cut =>
       LET new == stitch_subset(dir, kept_range, file.layers)
       IN new.ok /\ \A t \in ToSet(file.tensors) : PartOf(t.name, kept_range) =>
                      Reads(new.file, rename_tensor(t.name, kept_range[1]), t.data)
  /\ \A r \in DOMAIN loaded : loaded[r].ok \/ cut \/ pulled
  /\ (dir # None /\ DOMAIN dir.chunks = {b.cid : b \in ToSet(dir.bundles)})
       => (verify_chunks(dir) <=> ~cut)
==============================================================================
