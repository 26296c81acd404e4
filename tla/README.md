# IntelNav in TLA+

IntelNav runs a language model over machines of a swarm: a *consumer* (the chat
client) holds the tokenizer, the first layers and the output head, and *hosts*
(`intelnav-node`) each hold a contiguous range of layers, a *slice*. For every
token the consumer sends a hidden state through the chain of hosts and gets one
back. This directory holds a TLA+ model of the program: what a host does with
its slices and how it gets them, how a consumer finds hosts and talks to them,
how tokens come out of a turn, and what the terminal interface does around it.

All line numbers are those of `src/crates/`; `PROJECT.json` maps every
definition to the lines it stands for.

## 1. The system and its parts

| Component | State it keeps | Operations | Modelled in |
|---|---|---|---|
| slice map, `app/src/control.rs` | per slice `(cid, start, end)`: status, `active_chains`, `draining_since`; one mutex | upsert, begin drain, accept and release a chain, `drain_idle`, `expired_draining`, `force_stop_all_draining`, snapshot | `ControlState` (abstract: `SliceLifecycle`) |
| host daemon, `app/src/swarm_node.rs` | the map; `kept_ranges.json` and `disabled_ranges.json` of each model; two loops; shutdown | boot scan, announce tick, watchdog tick, persist, signal, drain, exit | `HostDaemon` |
| contribute, `app/src/contribute.rs` | the sidecars, the shard directory | split a local model, add to, load and save `DisabledRanges` | `HostDaemon` (sidecars), `ShardStore` (files), `ShardFormat` (bytes) |
| forward listener, `app/src/forward_server.rs` | per connection: guard, loaded slice, `index_pos`, `last_seq`; per process: `ModelCache` | Hello, SessionInit, ForwardHidden, AbortSession, end of file; load a slice | `ChainSession`; loading: `ShardFormat`, `ShardStore` |
| chain, `runtime/src/chain.rs` | per link: socket, session id, seq | connect, step with truncation, close; `run_turn` | `ChainSession`, `TurnDecode` |
| chain driver, `app/src/chain_driver.rs` | target, loaded model, draft slot | set target and draft, ensure, run a turn, connect with failover, `from_swarm` | `ChainDriver`, `ChainSession`, `SwarmRoute` |
| local driver, `app/src/local.rs` | loaded model | ensure, run a turn; list the models of a directory | `ChainDriver`, `ModelPicker` |
| speculative decoding, `runtime/src/spec.rs` | committed tokens, drafts of the round, positions, draft's cache | verify, accept, roll back, commit, propose on a second thread | `TurnDecode` (abstract: `GreedyDecode`) |
| KV cache, `runtime/src/ggml_backend.rs` | cells by position | reset, decode at a position, truncate | `ChainSession`, `TurnDecode` |
| chat window, `app/src/tui/mod.rs` | transcript, stream, mode, model | submit, drain the stream, stop, clear, commands | `ChatTurns` |
| prompt editor, `tui/mod.rs`, `tui/wrap.rs`, `app/src/slash.rs` | text, caret, undo ring, walk through history, suggestions | every key, paste, undo, suggestion, external editor; wrap | `PromptEditor` |
| model picker, `app/src/browser.rs`, `tui/mod.rs`, `download.rs` | rows, selection, caches of the directory and the swarm, download | open, refresh, choose, install, finish | `ModelPicker` |
| swarm node, `net/src/swarm.rs`, `dht.rs` | command queue, waiters and buffers of queries; the records of the DHT | announce, look up, bootstrap, next identified, shut down | `SwarmNode` |
| swarm index, `net/src/swarm_index.rs` | envelopes and coverage of models | refresh one, refresh many | `SwarmRoute` |
| chunk fetch over libp2p, `model-store/src/p2p.rs` | `pending_fetch`, `provider_query`, `req_to_cid`; cache directory | fetch, provider events, responses, failures, seeding | `ChunkFetch` |
| chunk fetch over HTTP, `model-store/src/http.rs` | `.tmp` files, chunks | fetch a manifest, fetch chunks: resume, verify, rename | `ShardStore` |
| swarm pull, `app/src/swarm_contribute.rs` | sidecars | pick a provider, fetch a range, write sidecars | `ShardStore` |
| chunker, manifest, bundles, `model-store/src/{chunker,manifest,bundle}.rs` | chunk files, `manifest.json` | split, classify tensors, verify | `ShardFormat` (contents), `ShardStore` (order of writes) |
| GGUF reader and stitcher, `model-store/src/{gguf,stitch}.rs` | none; stitched files | parse, select bundles, write a subset | `ShardFormat` |
| chunk server, `app/src/serve.rs` | none | resolve a shard, serve a file | its answers, in `ShardStore` |
| wire, `wire/src/lib.rs` | none | encode, decode a frame | messages as records |
| the rest | | latency probe, directory and mDNS, bootstrap, systemd, drawing, telemetry, configuration, cryptography, ggml bindings, generation and sampling, binaries | section 8 |

How they interact:

* The **announce loop** and the **watchdog** are two tasks of a multi-threaded
  runtime (`node/src/main.rs:37`). They share the slice map, whose mutex is held
  for a single lookup, and `disabled_ranges.json`, which nothing locks.
* The **control RPC** (`Leave`, `Join`) changes the map from a third task, each
  **connection** of the forward listener accepts a chain in a fourth, and the
  drop of its `ChainGuard` spawns a fifth that takes the chain off the count.
* The **chat client** is another process. It splits and pulls models into the
  shard directory and writes `kept_ranges.json`, which the daemon's loops and
  listener read.
* The **terminal interface** is one event loop: it drains channels of its jobs
  (the turn's deltas, a download, a split or pull, a swarm refresh), then handles
  one key. It does not wait for a job, so jobs overlap with keys and each other.
* A **turn** is one blocking thread of the consumer; turns of one driver share
  the loaded model under a mutex, the target and the draft under locks of their
  own. It opens a TCP connection per hop, works as a star (every hop answers the
  driver, which asks the next one), and closes the links at the end. Hosts keep
  loaded slices between sessions, in a cache that all connections share.
* A speculative turn has a **second thread** for the draft model; they meet
  once a round.
* The **swarm task** owns the libp2p node. Callers put commands into a bounded
  channel and wait on one-shot replies, which the task sends when the query's
  event comes. `p2p.rs` has a second driver of that kind for chunks.

What is hard: the map is read under one lock and acted on under another; the
count of chains lags behind the connections; two tasks load and save one file;
the process may stop between any two of these; timeouts of the consumer race
late answers of a host; caches outlive sessions; rollback positions are kept in
three places (driver, peers, draft); a turn goes on when nobody listens to it and
the next one has begun; a job reports into a window that has moved on; queries
of the DHT answer in pieces and in any order, for several callers of one key;
downloads are resumed, truncated and verified in steps; the layer numbers,
offsets and bundle names of one model are computed in five places.

The properties that make each part correct:

* *slice map*: chains are admitted only while announced; the count is right
  under late releases; a drain stops no slice that carries a chain but by a
  force-stop.
* *host daemon*: a drain is never undone by the announce loop; at most one
  record goes out after a leave, until the map announces the slice anew; what is
  recorded is honoured at every boot; drains and shutdowns end; a range the loop
  has not heard of is hosted.
* *session*: no late answer is taken for another step's; peers stay at the
  driver's position; a cache holds exactly the session's tokens; turns end;
  guards are given back.
* *decoding*: the tokens said are the target's greedy continuation; every cache
  is rolled back exactly; the draft has read what was committed.
* *drivers and chat window*: a reply holds its own turn's tokens, whole; whoever
  has the mutex has a model; every turn ends.
* *model picker*: rows agree with the caches they are chosen from; no model
  drops out of sight over a failed download.
* *prompt editor*: the caret is a character boundary; the ways to wrap agree.
* *chunk fetch*: only whole chunks are renamed into place, by a fetch that has a
  chunk's files to itself; no waiter is forgotten; Ok means that everything is
  there; a fetch ends.
* *swarm node and route*: every call is answered once; a hop serves its range,
  the freshest first; a refresh ends.
* *shard directory*: what is listed has its chunks; a pull ends; what is stored
  for a range suffices to stitch it; a hop computes with the layers of its range.

## 2. The modules

```
SliceLifecycle <--refines-- ControlState <--extends-- HostDaemon <-- MCHostDaemon
                                                         |
                                                  HostDaemonProofs

               KVCache <--extends-- ChainSession <-- MCChainSession
               KVCache <--extends-- TurnDecode   <-- MCTurnDecode
          GreedyDecode <--refines-- TurnDecode
           ChainDriver <--extends-- ChatTurns    <-- MCChatTurns
                                    ModelPicker
                                    PromptEditor <-- MCPromptEditor

             SwarmNode <--extends-- SwarmRoute
                                    ChunkFetch   <-- MCChunkFetch
                                    ShardStore   <-- MCShardStore
                                    ShardFormat  <-- MCShardFormat

KVCache <--extends-- RecursionProofs <--extends-- ChainSessionProofs, TurnDecodeProofs,
                                                  InterfaceProofs, SwarmRouteProofs,
                                                  ShardStoreProofs
```

A module `XProofs` extends the component `X` and has its theorems (section 4);
that of the slice map is `HostDaemonProofs`, those of `ChatTurns`, `ModelPicker` and
`PromptEditor` are together in `InterfaceProofs`, those of `ShardStore` and
`ShardFormat` in `ShardStoreProofs`, and that of `ChunkFetch` needs no
`RecursionProofs`.

### The host

**`SliceLifecycle`** is what a host promises about a slice: *absent*,
*announcing*, *draining*, *stopped*; chains are admitted while announcing; a
drain settles when the chains it serves are gone; a *cut* stops every drain and
is remembered.

**`ControlState`** is `ControlState` of `control.rs`, one action for each
critical section of the mutex. `status[s] = "absent"` is a key the map lacks.
`overdue` stands for `draining_since` older than `DRAIN_GRACE_PERIOD`: the code
reads the instant only to compare it. A guard is a value of `Guards`;
`DropGuard` is `Drop`, which only spawns a task, and `ReleaseChain` is that task
when it gets the lock. `forced` is a history variable: the slices a force-stop
cut chains off. The refinement maps `serving` to the guards that are attached
and not dropped, that is, to the chains a consumer still has.

**`HostDaemon`** adds the tasks. A step of a loop is what it does between two
points at which another thread can get in: the program counter `pc[l]` goes
through `persist_drained_slices` (`load`, `truncate`, `write` for each idle
slice, because `fs::write` truncates before it writes and `load` takes a torn
file for an empty one), and for the announcer through `scan`, `check`, `recheck`
(the second lock), `register` and `put`. A loop may be stopped at an await, so
its own actions need `CanRun`; the save has no await and is always finished by a
graceful exit (`Exit` waits for it) but not by `Crash`. The order of keys is
that of a hash map, hence arbitrary. `left`, `late`, `recorded` and `risked` are
history. `late` has the slices a record was put for since they left the state
*announcing*, and is emptied of a slice only by the map announcing it anew;
`risked` has the slices whose record a save that was broken off behind its
truncation, or that met a save of the other loop, may cost.

### A turn

**`ChainSession`** models a turn message by message. A connection is a slot of
`Conns` with a FIFO each way, the consumer's turn is a record with the program
counter of `connect`, `step` and `close`, and `srv[x]` is `handle_connection`. A
slot carries one session, so the slot stands for the session id. A step's number
stands for the link's `seq`. A KV cache is the sequence of its cells: position,
and the connection that wrote it. `Instances` are loaded copies of a slice;
`ModelCache` holds one per host, and two first sessions may load two.

**`TurnDecode`** models the tokens: `run_turn` and `run_turn_spec`, with the
cells of every cache. The target's greedy continuation is chosen at the start;
the target predicts it where *all* its slices hold exactly the tokens so far and
predicts anything otherwise, so an error of rollback shows as a wrong token. The
draft proposes anything at all. What a truncation leaves of a cache is
`CellsBefore`, which `TurnDecode` and `ChainSession` share (**`KVCache`**). **`GreedyDecode`** is the promise: what is said
grows along the greedy continuation, and a turn that succeeds has said all of it.

**`ChainDriver`** has the turns of the chat as threads on the two drivers.
`turn[t].pc` goes through the clones of target and draft (`ReadTarget`,
`ReadDraft`: two locks), `ensure` (take the mutex, look at the loaded model,
load, let go), `run` (take it again), `ensure_draft`, the lifting of the draft
out of its slot, the connection with its failovers, which consume alternates of a
*copy* of the target, the tokens, and the write-back of that copy. `holder` is
the mutex of a driver, `inner`, `target`, `slot` and `draft` what the locks
guard. **`ChatTurns`** extends it with the window: the transcript, `streaming`
(the receiver of one turn; a turn that has been replaced sends to nobody and
finds out at its next token), and the keys and commands that change any of it.
`set_draft` takes two locks one after the other, so `/draft` is two steps
(`EvictDraft`, then `SetDraft`), between which the threads of turns may run but
the event loop does nothing else (`LoopFree`).

### The terminal interface

**`ModelPicker`**: a model on disk has or lacks its weights and its tokenizer, and
is usable with any tokenizer of the directory (`Tok::locate_for`'s last resort);
`scan` is `local_scan`, what the last look found; `swarm` the refreshed models
that are not in the catalog; `browser` the rows on the screen, which are rebuilt
from `scan` and `swarm` only where the code does. Downloads are numbered tasks that
report through a channel, and `download` is the one listened to; a refresh replaces
the receiver of an earlier one, whose answer goes nowhere.

**`PromptEditor`**: the input is a sequence of characters, each with a length in
bytes and a width in columns, the caret an offset in bytes as in Rust, where an
offset inside a character panics. One action per key. `Walk` carries the results
of both `cursor_visual_pos` and `visual_row_start`, two loops with the same tests
in the same order, `RowEnd` is `visual_row_end`, `Rows` is
`input_visual_rows`, which draws the box, and `wrap_visual` the wrapping of the
transcript; they are folds over the text, with their break rules each as in its
own function.

### The swarm

**`SwarmNode`** is the task that owns the node: commands in a channel of bounded
capacity, per calling task what it asked and what came back, and the maps of
waiters by query. A lookup answers node by node (`asked`), the records of one
answer are appended to the caller's buffer. `store` is what the nodes of the DHT
keep, one record per key as libp2p's `MemoryStore` does (external). Shutdown
drops everything that is queued or waiting.

**`SwarmRoute`** extends it: a `refresh_one` whose lookups of all ranges are
tasks of their own, the target made of what they found, and a host beside it that
bootstraps and announces. `announced` is history.

### Shards

**`ChunkFetch`** is `p2p.rs`: `pending` is `pending_fetch` by chunk, `queries`
and `requests` what is in flight. A caller runs
`fetch_manifest_and_chunks_p2p_with` in steps; `file` is its cache directory,
where a file is absent, the whole good chunk, wrong bytes of the right size, or
short. Peers are external: a peer may have the chunk or not, send anything, time
out or disconnect. A crash ends all calls and leaves the files. Each caller has a
cache directory of its own: nothing in the program calls the function twice with
one `cache_root`, and two calls that share one, and with it `<cid>.bin.tmp`, are
not modelled (`ShardStore` has that race for HTTP).

**`ShardStore`** is the shard directory of one model on a host, with the files a
split and a pull write one by one, `manifest.json` at the two places the code
uses, the `.tmp` files with the units that arrived, and the hash as far as it was
fed (`hashed`): `fetch_one`'s resume reads the units on disk, asks for the rest,
and takes a 206 or a 200 for an answer. Any number of pulls may run, since every
`c` on a row starts one. They share the names of the files but not the open files:
`fd` is where a fetch's open file is now, and `aim` is off once its bytes no longer
go to their place, because another fetch changed the file between the request and
the answer. A file that is written in place is truncated first, and `WriteKept`
may leave it torn if another job has written a longer text meanwhile. `mixed` is
history: the chunks that two fetches were at together and that no fetch has
checked by itself since. `Listed` is what the daemon's scan finds, `Runnable` what
the listener can prepare.

**`ShardFormat`** is what the files hold. A GGUF is its header, an index with an
offset for each tensor, and units of data; alignment, padding, tied weights, tensors that
belong to no layer, and the key that counts layers are there, types and values
are not. `chunk_gguf`, `stitch_subset` and the listener's choice of a file and of
the layer offset compute on such records. What a loop that filters a list or
goes through a `BTreeMap` sees is `Ordered(S, Before)`, the elements of S each once
and in order. The host has the GGUF (`file`, `present`), the manifest with its
chunks and the header's (`dir`), which for a range that was pulled lie one
directory below the one `prepare_slice` looks in (`pulled`), one kept range
(`kept_range`), the files stitched so far (`stitched_file`) and the slices loaded
from them. `HopRunsItsLayers` compares the result
with a definition that knows nothing of bundles: a slice must read, as the layer
it is called with, the data of the session's layer.

The `MC` modules hold only values of constants. Definitions whose comment says
*Mutation of X* are not part of the specification; each is the form a plausible
bug would give X and is there to show that a property depends on X.

## 3. What each run checks

Eleven runs pass; one shows a disagreement of the code with a comment (section 6).
Section 7 has configurations beside them.

| Run | Question | Result |
|---|---|---|
| `daemon_progress` | One slice under every event: are chains counted right, is the map a `SliceLifecycle`, is a recorded leave on disk and honoured at boot, do drains and shutdowns end? | pass |
| `daemon_races` | Two slices of one model, whose record both loops save: is a drain ever undone, how many records go out after a leave before the slice is announced anew, is a saved leave on disk when the process has gone? | pass |
| `chain_session` | Two turns over two hops and a backup with a fault: stale replies, positions, caches, end of the turn, return of the guards | pass |
| `turn_decode` | Is the reply the greedy continuation, with and without a draft; are caches rolled back exactly; does the turn end? | pass |
| `chat_turns` | Two turns whose threads overlap while the user stops, clears, submits again and changes model, target, draft and driver: whose tokens are in a reply, is the last one whole, does every turn end? | pass |
| `model_picker` | Downloads and refreshes overlap with keys and restarts of the program: do rows, caches and directory agree? | pass |
| `prompt_editor` | Every sequence of keys over wide and narrow characters: is the caret between two characters, do the ways to wrap agree, is all of a text shown once it is sent? | pass |
| `chunk_fetch` | Two callers fetch one manifest and chunk from two peers that may fail in any way, over a crash: is a waiter forgotten, a chunk half-written, an Ok false, does a fetch end? | pass |
| `swarm_route` | A refresh beside announcements and a shutdown, then a chain is chosen among two hosts, one without an address to forward to: is a call in one place until it is answered, does a hop serve its range, is the freshest first, does the refresh end? | pass |
| `shard_format` | Split, pull, stitch and load of every small GGUF: does a slice compute with the layers it is called with, does what is stored suffice to stitch the kept range? | pass |
| `shard_store` | A split and two pulls of one range into one directory with partial, whole, cut and wrong answers and a crash: has a listed range its chunks, what does a fetch put in place, does a pull end? | pass |
| `pulled_slice` | Can a range that is listed be run? | `ListedIsRunnable` violated |

### Properties that pass, and the code they are about

*The host*

* `CountsAreExact`: `active_chains` against the guards that exist. Release is
  detached and subtraction saturates, so this is not evident.
* `StoppedMeansIdle`: a slice that is stopped or gone carries a chain only after
  a force-stop hit it.
* `LifecycleSpec`: every step of the map is a step of `SliceLifecycle`.
* `NoDrainCancelled`: the announcer reads the status under one lock and
  registers under another. It is safe because nothing but the announcer and
  `Join` can turn a stopped or absent slice into anything else, so what it read
  still holds when it registers.
* `OneRecordUntilAnnouncedAnew`: the record the loop had decided on still goes
  out; no second one does until the map announces the slice again. That it does
  so without a Join is `LeaveForgotten.cfg` (section 7); this property does not say
  that the leave lasts.
* `RecordedLeaveSurvives`: whenever no process runs, saved leaves are on disk, over
  crashes, failing writes and a second range in the same file. Two losses are
  excluded by name (`risked`): the save that was broken off behind its truncation,
  and the one that met another save of the file.
* `RecordedLeaveHonoured`: a recorded leave that is on disk at boot keeps the
  slice out for the life of that process although its sidecar is still there.
* `DrainEnds`, `ShutdownEnds`: liveness of the daemon.

*A turn*

* `NoStaleReply`: replies are not matched by `seq` (`chain.rs:314`), so an answer
  that is late must never wait on a link that is used on. It holds because a
  failed step ends the chain.
* `InStep`: `index_pos` and `last_seq` of every peer against the driver's
  position, after rollbacks too.
* `CacheExact`: a cache holds the session's tokens, each position once, unless
  another connection used the same copy since.
* `TurnEnds`, `GuardsReturn` (`ChainSession`): liveness of a turn and of the
  guards it took.
* `CachesAgree`: between rounds, front slice and peers hold the prompt and the
  committed tokens and no rejected draft.
* `DraftAgrees`: the draft proposes from what was committed. An error there only
  lowers the acceptance rate and cannot be seen in the output.
* `ImplementsGreedy`: the turn implements `GreedyDecode`, where what is said is
  `out` up to the end-of-sequence token.
* `OwnPrefix`: what stands in a reply is a beginning, without a gap, of what its
  own turn generated, although the thread of a stopped turn may still be sending.
* `LastReplyWhole`: a reply that is still last when its turn has been received to
  the end is there to the last token, and closed.
* `NeverUnloaded`: the model is looked at under one lock and used under a second
  one; whoever has the second still finds a model, and a draft is never lifted
  by two turns.
* `TurnEnds` (`ChatTurns`): every turn ends, also one nobody listens to.

*The terminal interface*

* `SwarmRowsKnown`: the rows on the screen against the cache of swarm models,
  which a refresh replaces while the picker is open.
* `NothingVanishes`: in whatever state a failed or killed download left the
  directory, a catalog model has a row to run or to install it.
* `InstalledIsListed`: what is complete on disk is listed once its download has
  been reported; what was chosen to run locally is there.
* `CaretOnBoundary`: byte offsets of the caret and of undo snapshots are
  character boundaries of *their* text, over edits, undos, recalled prompts and
  pastes.
* `RowsAgree`: the rows the box draws, the caret's row and column, Home, End and the
  transcript are computed by functions of their own. The caret is in a row that is
  drawn, behind the text in the last one, the rows hold every character but the
  newlines, and Home and End stay in the caret's line, between two characters
  (`BoxAgrees`). The transcript wraps by words and drops spaces at the breaks: of a
  line that is sent it shows every other character, in order, no row is too wide,
  and no word is broken that a row can hold (`SentWhole`).

*The swarm and the shards*

* `WaitersServed`: a fetch without an answer is the one its chunk's entry will
  answer, and a query or a request is under way that will.
* `OutcomeComplete`: a call that returned Ok has its whole plan in its cache.
* `ChunksOnlyWhole` (`ChunkFetch`): under a chunk's name there is never a part of
  it. `LoneFetchPlacesWhole` (`ShardStore`): nor does a resumed download put one
  there, unless another pull was at the chunk at the same time.
* `FetchAnswered`, `RefreshEnds`, `PullEnds`: liveness of the three.
* `HopsServeTheirRange`: lookups of several ranges run at once in one task, and
  the peers of a hop announced that very range; no call is lost or answered twice.
* `FreshestLeads`: the first peer of a hop has the newest record of those found.
* `HopRunsItsLayers`: layer numbers are shifted by the stitcher, shifted back by
  the listener, and not shifted at all where the whole file is at hand; the
  result is the session's layer.
* `StoredRangeStitches`: what a split or a pull has left in the directory of its
  manifest suffices to stitch the kept range, and the file reads the range's data
  at the offsets it says; `verify_chunks` tells a directory with a cut chunk, or a
  cut header, from a sound one. It is about `stitch_subset` on that directory;
  whether `prepare_slice` gets there is claimed of split ranges only, since it does
  not for pulled ones (`pulled_slice`).
* `ListedIsFetched`: what the scan lists has its chunks, over interrupted,
  resumed, spoilt and repeated downloads; a chunk that two pulls were at together
  may be bad until one checks it.

Each of these has a mutant in `PROJECT.json`: a change of one mapped definition
that makes TLC report the property violated under the same configuration. Type
invariants are conjuncts of `NeverUnloaded`, `SwarmRowsKnown`, `CaretOnBoundary`,
`HopsServeTheirRange` and `ListedIsFetched`; those of the slice map, the daemon
and `ChunkFetch` are proved.

### Bounds, and why they are enough

* `DaemonProgress.cfg`: one slice, two guards, every event (leave, join,
  contribute, chain, signal, crash, savefail). Progress of a loop over several
  keys is the same loop once more; what matters for liveness is which events may
  interfere, and all may. Two guards let a slice be drained and force-stopped
  with a chain and get another after it was announced again. The theorems say
  the same of any number of slices and guards.
* `DaemonRaces.cfg`: two slices of one model, one guard; `leave`, `chain`,
  `signal`. Two slices make the loop's key list and the shutdown's snapshot
  longer than one, so that another task gets in between two keys, and make two
  loops save one `disabled_ranges.json` with different records. The two are alike
  (`Interchangeable`), which halves the states. Failing saves and crashes are in
  `DaemonProgress.cfg`, both together in the theorem `LeavesSurvive`.
* `ChainSession.cfg`: one consumer, two hops of which the second has an
  alternate, three connections, three loaded copies, a prompt of two tokens, two
  drafts, three steps (prefill, verify, commit with every rollback, or prefill
  and two decodes), two turns, one failover, one fault out of *break, crash,
  hang, drain, fail*, which may come at any step. Two turns are needed for a
  cache and a connection that outlive a session.
* `TurnDecode.cfg`: three tokens one of which ends the sequence, a prompt of one,
  four new tokens, rounds of two drafts, one hop. All 3-token continuations are
  tried; four new tokens allow rounds that end with none, one and all drafts
  accepted, and the limit inside and at the end of a round. Peers are treated
  alike, so one stands for all.
* `ChatTurns.cfg`: two turns of up to two tokens, two models, one draft, a chain
  with or without a backup, one change of a setting. Two turns can hold the two
  drivers or wait for one; two tokens let a turn be replaced between them. The
  change is whichever command, at any point of either turn.
* `ModelPicker.cfg`: a catalog of a model that fits and one that does not, one
  model of the swarm only, two downloads and three refreshes: a second of each
  replaces the first one's receiver, and a third refresh follows.
* `PromptEditor.cfg`: characters of one and three bytes, of one and two columns,
  the space at which lines break, the newline, the slash and the backslash; a box
  of four columns, the narrowest the code uses; five characters in all texts
  together, one snapshot. A row holds two wide characters, so that five
  characters give wraps inside a word, at a space and before a wide character.
* `ChunkFetch.cfg`: two callers that want the same chunk, the manifest, two
  peers, two calls, one crash. Two of each are what it takes to replace an
  entry, and to have a request out for it still.
* `SwarmRoute.cfg`: two ranges, two other peers of which one had announced everything
  before and the other gives no address to forward to, so that the filter of
  `from_swarm` has something to drop; two nodes of the DHT, a channel of one
  command, one more record, two calls. Two nodes answer with the same record or
  with different ones; two ranges can be confused; five tasks wait at the channel.
* `ShardFormat.cfg`: models of two layers in every order of the data, two choices
  of tensor sizes, alignments from one to three units of which two is the
  default, with and without a count of layers and padding at the end; a model
  with a tensor that belongs to no layer; one with tied weights, which has no
  output tensor and a head that is a norm only; ranges at the front, at the end and all.
  The hosts of two layers have every role (embedding, head, both, offset zero and
  not).
* `ShardStore.cfg`: three layers, a header of two units that can be resumed half
  way and others of one; two jobs, hence two pulls of one range (the middle layer: the
  header and one bundle) or a pull and a split; one fetch at a time in a pull, so
  that the second has to wait for the first whatever becomes of it; one crash;
  answers 200 and 206, good and bad units. The fetches of one pull are of different
  chunks and share no file; what runs at once here are two pulls' fetches of one chunk.
  Two units are enough for every place in which another fetch can get in: between
  the length and the request, the request and the answer, two units, the last one
  and the rename. More fetches at a time, jobs and pulls are in the theorems.

`CHECK_DEADLOCK FALSE` in the runs whose bounded numbers of turns, calls, jobs or
faults are used up, or in which a turn just ends. Counters that are unbounded in
the code (`seq`, turns, tasks, connections, records) are bounded by the constants
that begin with `Max` or `Num`; those of `Guards` and `Turns` by their number.
The guards' `saturating_add` at the top of `u32` is not reached.

### Fairness

* `HostDaemon!FairSpec`: weak fairness of a save in progress, of each loop, of
  the grace period (`TimePasses`), and of the shutdown (`SignalDrain`,
  `BudgetSpent`, `Exit`). The runtime schedules every task, timers fire and the
  announce's queries have a timeout of their own. Nothing is assumed of users,
  signals, consumers, release tasks or of the service manager that boots it.
* `ChainSession!FairSpec`: weak fairness of the driver's thread (its timeouts
  included) and of the handlers of a host that does not hang. Faults, turns and
  the resumption of a hung host are not fair.
* `TurnDecode!FairSpec`: weak fairness of both threads. That a step ends is what
  `ChainSession` shows.
* `ChatTurns!Spec`: weak fairness of each turn's thread, of `DrainStream`, which the event
  loop calls in every iteration, and of the second lock of `set_draft`. Keys are not fair. The mutex is taken once it
  stays free; a turn ahead always ends.
* `ChunkFetch!Spec`: weak fairness of queries and requests, which libp2p ends
  with an event by its own timeouts (30 s and 120 s), and of the callers' steps.
  Calls are bounded, so that it is enough that some of them goes on.
* `SwarmRoute!Spec`: weak fairness of the swarm task, of a query's end (Kademlia's
  timeout) and of the refreshing task. Not of announcements or of the user.
* `ShardStore!Spec`: weak fairness of a pull's steps: the body of a response ends,
  by the client's timeout if not otherwise. Servers and splits are not fair.
* Where only safety is asked (`DaemonRaces`, `ModelPicker`,
  `PromptEditor`, `ShardFormat`) there is none.

## 4. What is proved

TLAPS checks the theorems below for *every* value of the constants that the
named assumptions allow: `ControlAssumption` (guards are finite, `NoSlice` is no
slice), `DaemonAssumption` (types of the other constants), `SessionAssumption`
(a chain has a hop and a list of alternates for each, a prompt is not empty,
`None` is none of the values it stands beside), `DecodeAssumption` (a round has
at least two drafts; the end of sequence is a token), `DriverAssumption` and
`ChatAssumption` (targets are chains, turns are numbered, a route is no longer
than a reply may be, since a failover's notice is a token of the reply),
`PickerAssumption` (the catalog and the models that fit are among finitely many
names), `PromptAssumption` (a character has one to four bytes and up to two columns,
a space one, the break characters one byte; the box has four columns or more),
`NodeAssumption` and `RouteAssumption` (who the tasks of a node are, and that the
keys are the ranges and the envelope), `FetchAssumption` (the manifest is no
chunk, plans are sequences of chunks), `ShardAssumption` (ranges lie within
the model, chunks are not empty) and `FormatAssumption` (what the converters write:
the tensors of a GGUF have different names, none is empty, every layer has one, the
order of the data is any permutation; ranges are not empty and lie within the
model). One hypothesis belongs to a single theorem, `LeavesHonoured`:

* `OneRangeEach` (a model has one range, as `start_split` and `start_pull` leave
  it): with two ranges in one file, the announce loop's scan may find
  `disabled_ranges.json` truncated while the watchdog rewrites it for the one, and
  so take the other, which is on record, for kept.

The other theorems about leaves and about pulls hold without any; what the code
loses in races of two saves or of two fetches is excluded slice by slice and chunk
by chunk, by `risked` and `mixed`.

### Induction

`RecursionProofs` has what the recursive functions of the models need. The
library's induction theorems take an operator as a parameter and cannot be
instantiated by the provers; `Least` (a set of naturals that is not empty has a
least element, from the well-foundedness of the order) and `UpTo` (induction up
to a number, over a *set*) say the same in first-order form. `RecursionExists`
uses them to show that a recursion whose steps stay within a set has a solution,
which is what `CHOOSE` in a recursive function needs. `CellsBeforeIsPrefix`, what
`truncate_kv_to` leaves of a KV cache, is the first use: a cache in which the
cells before a position come first is cut to exactly these.

Folds over a text are the second. The library's `FoldLeft` chooses a function on
*sets* of indices, each without its last one, so `FoldExists` first shows by
induction that there is one, and `FoldsAgree` that on two texts with a common
beginning it does the same there. With these, `FoldAdds` says what a reader expects:
the fold of a text and one character more is one step further. `TextsUp` is the
induction over texts that this gives, and what follows about the editor uses
nothing else of folds.

### The host (`HostDaemonProofs`)

* `ControlStateCorrect`: `ControlTypeOK`, `NeverOvercounts`, `CountsAreExact`
  and `StoppedMeansIdle` are invariants of `ControlSpec`. Their conjunction
  `ControlInv` is inductive. `StoppedMeansIdle` is not so by itself: the code
  stops a slice because its *count* is zero, so that it is idle needs
  `CountsAreExact`, which in turn needs that a release finds its own guard among
  the attached ones (`ControlTypeOK`). After a force-stop only
  `NeverOvercounts` is left, which the saturating subtraction keeps. The
  arithmetic rests on three lemmas: attached guards are finitely many,
  `AcceptAttaches` one more, `ReleaseDetaches` one.
* `ControlRefinesLifecycle`: `ControlSpec => LifecycleSpec`. Every action is
  mapped to one of `SliceLifecycle` or to a stutter: `AcceptChain` to `Admit`,
  `DropGuard` (not the release) to `Finish`, `ForceStopAllDraining` to `Cut`,
  `DrainIdle` to `Settle`, and `ReleaseChain` to `Settle` when its count reaches
  zero and to a stutter otherwise. That a count of zero means that no chain is
  served (`ZeroMeansNoChain`) is where exactness of the count is needed.
* `DaemonUsesControlState`: `Spec => ControlSpec`. The tasks touch the map only
  through its critical sections, so both theorems above hold of the daemon;
  `DaemonStopsIdle` is `StoppedMeansIdle` of the daemon.
* `DaemonAnnounces`: `TypeOK` and `OneRecordUntilAnnouncedAnew`. The strengthening
  `DaemonInv` says where a loop may be with what in hand (`LoopsOK`) and that a
  process that is down has none (`DownOK`). What `late` counts is kept through the
  drain's end: `TypeOK` has no announcing slice in it, and only what announces a
  slice takes it out.
* `DaemonKeepsDrains`: `NoDrainCancelled`, from the invariant that the slice the
  announcer is about to register is stopped or absent (`RegistersUnhosted`).
* `LeavesSurvive` (`RecordedLeaveSurvives`), over any crashes, failing writes and
  numbers of ranges in a file. `SaveInv`: two loops that save one file at once have
  its ranges among `risked` (`OneSaverEach`); a loop that has loaded a file holds
  what the file recorded, and the slice at hand (`SavesRecord`), so that the
  truncation takes nothing away that it does not write again; and a saved leave is
  in the file or in the hands of a loop that is about to write it
  (`LeavesOnRecord`). A slice leaves `risked` only when it is saved by one loop alone.
* `LeavesHonoured` (`RecordedLeaveHonoured`, with `OneRangeEach`): a leave on disk
  at boot keeps the slice out until a `Join`. `SavesOwn` (a save rewrites a file
  that lists no other slice) and `UnknownNotLeft` (what the announcer goes through
  is in the map or not on record) are the strengthening. The last one carries the
  argument over the announcer's awaits, between which the watchdog records leaves.

### A turn (`ChainSessionProofs`, `TurnDecodeProofs`, `InterfaceProofs`)

* `RepliesAreInStep` (`NoStaleReply`), `PeersAreInStep` (`InStep`) and
  `OwnCacheExact` (`CacheExact`), for any consumers, peers, hops, alternates,
  turns and faults. The invariant `SessionInv` says of every link of a chain
  what is under way on it, by the place of the turn and of the hop (`LinkOK`):
  behind the hop at hand the step is over, at it there is the request, a part of it, its answer
  or nothing, before it the last step is. That no late reply is among these is the
  theorem. `LinksApart` (a connection is one link of one chain) lets each link be
  argued about alone, `ConnOK` speaks of connections that nobody holds any more,
  whose peers still work off what was sent, and `Used` connects a cache with the
  sessions that wrote it. Cutting a cache at a rollback is `CellsBeforeIsPrefix`.
* `TargetCachesAgree` (`CachesAgree`), `DraftReadsCommitted` (`DraftAgrees`) and
  the refinement `TurnSaysGreedy` (`ImplementsGreedy`): for any model, draft,
  prompt, number of hops and of drafts, a turn says the greedy continuation.
  `DecodeInv` has the cells of every cache as a function of what was said, before,
  within and after a round (`TargetOK`, `DraftOK`), and `PredictionsOK`: the
  target's predictions behind the drafts are right as far as the drafts are. The
  last one is why accepting the longest agreeing part and one token more is
  right; `TargetOK` has to say what a peer's cache will be *after* a truncation that has not
  been sent to it yet.
* `RepliesAreTheirOwn` (`OwnPrefix`), `LastReplyComplete` (`LastReplyWhole`) and
  `ModelStaysLoaded` (`NeverUnloaded`): for any number of turns and keys.
  `ThreadOK` says of each turn's thread which mutex it holds and that a model stays
  loaded between its two locks, because only `ensure` changes the model and never
  to none; `LastOK` that the last reply is as long as what the window took of its
  turn.

### The terminal interface (`InterfaceProofs`)

* `RowsAreCached` (`SwarmRowsKnown`), `CatalogIsShown` (`NothingVanishes`) and
  `CompleteIsListed` (`InstalledIsListed`), for any catalog and any number of
  downloads, refreshes and restarts. `PickerInv` has `RowsOK`, what each row on the
  screen promises; `FilesOK`, that a tokenizer is there before its weights, also in
  the middle of a download, which is why a killed one leaves a model to be
  installed and never one in neither list; and `ReportOK`: the only download at
  work is the one that is listened to, and what is complete but not listed is what
  that one has still to report. Without it `InstalledIsListed` is not inductive, for
  a download whose report nobody hears would stay unlisted. `SetToSeqIs` says what
  the listing of a set is.
* `CaretNeverInside` (`CaretOnBoundary`): for any characters, pastes, prompts and box.
  `EditorInv` demands of every snapshot of the undo ring that its caret is a boundary
  of its own text, and of every remembered prompt that it is a text: both come back
  by one key. That every key keeps it rests on `BeforeIs` and `OffsetsGrow`: at a
  boundary `Before` and `Behind` split the text in two, and a key that edits only
  puts such parts together again, with the caret at a seam.
* `RowsMatch` (`RowsAgree`) has two parts. `BoxMatches`: by `DrawnStep` the walk of
  the caret and the rows of the box go on together, character by character: as many
  rows, the same column, the last row begins where the walk says, the rows hold what
  is not a newline (`Drawn`). `RowIs` is Home and End: the end is looked for from
  the row's beginning, so it is not before the caret only because what the walk
  passed since fits. `SentIsShown`: `Entire` is the invariant of `wrap_visual`'s
  loop. What was laid out and the word in hand are the text up to its spaces, the
  word is what follows the last space, and every word before it that fits a row is
  within one. The delicate step is `flush_word`, which breaks a word that is too
  wide by the rules of the box (`Rows`), and the row it goes on from.

### The swarm (`SwarmRouteProofs`, `ChunkFetchProofs`)

* `HopsAreProviders` (`HopsServeTheirRange`): a hop and its alternates announced
  the range of the hop, and every call is in one place until it is answered. The
  invariant `RouteInv` follows a record from the node that keeps it through the
  buffer of a query, the reply and the coverage to the target (`Honest`), needs
  that a lookup's task asks only for its own range (`Lookups`), and that a call is
  in the channel or in the map of waiters, never in both (`Queues`).
* `FreshestPeerLeads` (`FreshestLeads`), an action property: what `FreshestFirst`,
  `DropRepeats` and the cut to `MaxCandidates` compute, for record lists of any
  length (`FreshestFirstIs`, `DropRepeatsIs`, `CandidatesAre`).
* The inductive invariant of the chunk fetch is `FetchInv`: `TypeOK`; `Pairs` (a
  caller awaits the reply for a chunk exactly if the chunk's entry has it as its
  waiter); `EntriesOK` (an entry has asked only providers it found, and a query or
  a request that will answer it is in flight); `StepsOK` (what a caller holds at
  each step, above all that the bytes it is saving were verified); and
  `ProgressKept` (the chunks of the plan a caller has behind it are whole in its
  cache). From it `FetchServesWaiters` (`WaitersServed`; the delicate step is a
  response that finds nobody to ask next, which removes the entry and must answer
  its waiter), `FetchIsComplete` (`OutcomeComplete`; of *Ok* alone nothing can be
  carried through the loop over the plan) and `FetchRenamesWhole`
  (`ChunksOnlyWhole`: only `Saved` changes a chunk's file, and it has what
  `StepsOK` says).

### Shards (`ShardStoreProofs`)

* `ListedRangesAreFetched` (`ListedIsFetched`) and `PlacedChunksAreWhole`
  (`LoneFetchPlacesWhole`), for any layers, ranges, sizes, servers and crashes and
  any number of pulls. The core of `StoreInv` is `FetchOK`, of the fetches of a chunk
  that is not `mixed`: one that asks to resume has exactly that much of the temporary
  file, one that receives writes at the file's end, and its hash, while it is worth
  anything, has seen the whole file. So size and hash of the *body* vouch for the
  *file* (`BodyEndsOK`), although the file was begun by an earlier run. `OneDownloads`
  says that such a chunk has no second fetch at work, so that no other moves the file
  under it, and `FilesOpen` is what is left of a fetch that shares one: its open file
  is there. `PullsFetch` and `PullsFetched` carry it to the moment
  when the range is listed, `KeptIsThere` over later splits, pulls and crashes;
  `RangeChunks` compares the fetch plan with what the stitcher asks for, which are
  computed in two crates.
* `HopsRunTheirLayers` (`HopRunsItsLayers`) and `StoredRangesStitch`
  (`StoredRangeStitches`), for models of any number of layers and tensors, in any order
  of the data, with any sizes and alignment. They compare a whole pipeline (parse,
  group, concatenate, cut, number the offsets, write, parse again) with a definition
  that knows none of it. The argument goes through these lemmas:
  1. *Pieces one behind the other.* `FlattenSeq` is a recursive function; `JoinedIs`
     says what it computes, and with the ends of the pieces (`EndsExist`,
     `EndsUnique`, `EndsCover`, `EndsApart`) `PieceOut` cuts a piece out again.
  2. *A file that is laid out reads back.* The parser takes a tensor to end at the
     least offset behind its own. If the data of a file is pieces in some order, none
     empty, and its index has where they begin, that is the piece (`LayoutReads`).
     Both a converter's file (`GgufReads`) and a stitched one (`SliceReads`) are
     such files, each piece a tensor's data and zeros.
  3. *Lists in order.* `SortedExists` shows that a finite set has a list in a strict
     total order, so that what `Ordered` chooses exists; `FlattenLists` and
     `FlattenMaps` join such lists of sets that have nothing in common. So the chunker
     puts each tensor in one bundle (`BundlesAre`), the stitcher picks the tensors of
     the range each once (`PickedIs`), and their count is the one required
     (`SliceCounts`).
  4. *Alignment.* The stitcher pads the absolute position and numbers the offsets
     from zero. The two agree because the data begins at a multiple of the alignment
     (`AlignShift`), so its own check of the position never fails and `StitchIs`
     says which file it writes.
  5. *The host.* `FormatInv` says that the directory is the manifest of `file` and
     chunks of it, the header's among them, that are whole or have lost an end, the
     latter exactly if `cut`, and that the chunks are those of the kept range at
     least (`DirInv`), that every stitched file is one of its range (`StitchedInv`) although
     its chunks may have been cut since, and that a loaded slice is the GGUF, such a
     file, or failed after a cut or because it was pulled (`LoadedInv`). `PullInv` needs that the fetch plan
     names every bundle the stitcher includes (`WantedFill`); `CutInv` that a cut
     chunk has lost its length (`CutShorter`), which is all `stitch_subset` looks at.
     `HopRunsItsLayers` is not inductive: that a file written today reads right
     tomorrow needs what was written, not that it was read.

### What is only model-checked

* All liveness (`DrainEnds`, `ShutdownEnds`, `TurnEnds`,
  `GuardsReturn`, `FetchAnswered`, `RefreshEnds`, `PullEnds`): fairness and
  ENABLED are out of the proof system's reach.

Every invariant and every action property of a passing run is proved, for all
values of the constants, one (`RecordedLeaveHonoured`) under the hypothesis above.

## 5. Abstractions worth knowing

* Announce puts of the daemon have no outcome: a failed put is only logged.
  Records are in `SwarmNode`; their TTL is not.
* Boot is one action: the map is seeded before a task exists. So is a scan of
  the shard root, and, seen from the daemon, the replacement of
  `kept_ranges.json` by the client; `ShardStore` has its steps.
* Two saves of one file by two threads interleave at the two system calls, not
  byte by byte.
* No consumer keeps a connection open for ever without a turn (`read_frame` of
  the listener has no timeout, so the guard of such a one is never returned).
* A timeout comes only while the peer hangs, and a hung peer may resume and work
  off what is waiting: that is the slow peer and its late answer.
* A write blocks only towards a peer that hangs and only if the configuration
  has `full`: the rest of the time frames fit the socket's buffers.
* Floating point, tokens' texts, context limits, sampling: not there. The
  decoding runs are about temperature zero, as is the code's contract.
* `ChatTurns` has the key events of the chat, not those of overlays; a system
  message is one whatever job pushed it.
* A file of `ChunkFetch` and `ShardStore` is its units, not its bytes; a unit is
  good, bad or a hole. A hash is the good units fed to it in order.
* `ShardFormat` counts in units; the types, sizes and values of GGUF entries are
  not there, nor is a file of two gigabytes.
* A DHT is a set of nodes with one record per key; routing, replication and
  expiry are libp2p's.

## 6. A disagreement that a run shows

It is told with its source lines under `findings` in `PROJECT.json`.

* `pulled_slice` (`ListedIsRunnable`): a pull writes its manifest and chunks below
  `shard_root/<manifest cid>` (`swarm_contribute.rs:104`), while the listener reads
  `shard_root/manifest.json` and `shard_root/chunks` (`forward_server.rs:308`).
  The scan lists the range by its `kept_ranges.json`, the daemon announces it, and
  every session that asks for it fails. The comment at `forward_server.rs:282`
  calls it the "Swarm-pulled path". `StoredRangeStitches` shows that the directory
  itself has all that the stitcher needs.

## 7. Other disagreements and doubts

Eight more configurations are kept beside those of section 3. Each states one
sentence of the documentation or of a comment as a property and TLC finds it
violated (`tlc -config X.cfg M`):

| Configuration, module | Property | What happens |
|---|---|---|
| `LeaveForgotten`, `MCHostDaemon` | `LeaveSticks` | A slice left while a chain runs through it is stopped by the release of that chain, or by the watchdog. Only `drain_idle` reports slices to be recorded, so this one is not written to `disabled_ranges.json`, and the next announce tick takes it for a new sidecar and announces it again (`swarm_node.rs:434`). The comment at `swarm_node.rs:286` has the loop "skip slices in Draining / Stopped so a `Leave` stops announces immediately"; `docs/onboarding-host.md:116` has it recorded. |
| `TwoPulls`, `MCShardStore` | `ChunksOnlyWhole` | Every press of `c` on a swarm row starts a pull (`tui/mod.rs:1196`), and two pulls of a model share the name of a chunk's temporary file (`http.rs:337`). The first fetch has its whole body, rightly hashed, when the second one removes the file as too long to be resumed and begins anew; the first one renames that part of the chunk. `http.rs:5`: "Every byte is SHA-256 verified against its CID before the file enters the cache". Of a fetch that no other meets it is a theorem (`PlacedChunksAreWhole`). |
| `ShutdownDisables`, `MCHostDaemon` | `DisabledOnlyIfLeft` | The shutdown's own drain is recorded as the user's leave by whichever loop ticks during it (`swarm_node.rs:102`, `324`): the next boot hosts less. |
| `StaleRelease`, `MCHostDaemon` | `DrainEndsWhenIdle` | A release that comes after a force-stop and a new announce is taken off the count of the new chains (`control.rs:214`). |
| `SharedCache`, `MCChainSession` | `SessionCacheIsOwn` | All sessions of a slice share one KV cache; the second `SessionInit` empties it under the first (`forward_server.rs:163`; `docs/architecture.md:106` has one per session). |
| `CloseBlocks`, `MCChainSession` | `TurnEnds` | `Chain::close` writes without a timeout (`chain.rs:391`) and waits for a hung peer for ever, with the model's mutex held. |
| `WastedSlots`, `SwarmRoute` | `NoWastedSlots` | Three copies of one peer's record take all the candidate slots of a hop, because `dedup` comes after `take`, and it keeps repeats that are not neighbours (`chain_driver.rs:117`). |
| `ResumedBody`, `MCShardStore` | `FreshBodyCompletes` | A resumed download that is answered with 200 and the whole body fails once, because the resumed size is counted again (`http.rs:388`); `serve.rs:158` always answers 200. |

A ninth, `DaemonHosts` (`MCHostDaemon`, `NewRangesHosted`), passes: over
contributions, leaves and crashes, the announce loop comes to host a range that
is listed, not on record as left and unknown to the map. A range the map has as
*stopped* is not in it, since of those the documents want the opposite.

The following were met while modelling. Those the models contain are allowed by
the properties as stated; none is claimed by a run.

*The host*

* `force_stop_all_draining` stops every draining slice once one is expired
  (`control.rs:234`, `swarm_node.rs:274`): a drain that has just begun gets no
  grace.
* A daemon that boots without a range starts no announce loop
  (`swarm_node.rs:296`); `docs/onboarding-host.md` has a later contribution
  announced. `NewRangesHosted` therefore assumes the loop.
* A range contributed again stays in `disabled_ranges.json` (`contribute.rs:101`)
  and is not hosted after a restart.
* A crash between the truncation and the write of `disabled_ranges.json` loses
  all of its leaves (`contribute.rs:90`); two loops that save at once may lose
  one of them (`swarm_node.rs:322`).
* After the shutdown has drained, the announcer may register a stopped slice
  again and accept chains until the exit (`swarm_node.rs:95`, `435`).
* `announce_all` asks `manifest_cid_for` of a directory made from an empty path,
  so that records normally carry no manifest CID and a pull finds no provider.

*Turns and drivers*

* `run_turn_spec` says, counts and commits the end-of-sequence token before it
  stops at it (`spec.rs:217`), `run_turn` stops before it (`chain.rs:524`),
  although `spec.rs:22` has both emit "the exact same token sequence".
  `ImplementsGreedy` compares replies up to that token.
* Turns of one driver that overlap: `ensure` unlocks before `run` locks again
  (`chain_driver.rs:354`), so that a turn may run on another turn's model; a turn
  writes back the target it cloned and undoes a `set_target` (`380`); a draft
  evicted after `ensure_draft` fails the turn (`396`).
* Fail-over drops the alternate that failed, the documents "swap in and out". It
  is reported as a `Delta::Token` (`chain_driver.rs:491`), so becomes part of the
  reply, where the comment (`454`) has a `Delta::Status`.
* `LocalDriver` generates on after Esc; only the chain driver notices that
  nobody listens.
* In the ggml backend, `head`, `head_all` and `embed` leave cells in the scratch
  sequence if a decode fails before `kv_seq_rm`.

*Chat window, picker, editor*

* A system message that comes while a reply streams, also the report of a split
  or a pull, becomes the last entry and silences the rest of the reply.
* Submitting while a reply streams replaces its receiver; errors and empty
  replies are sent to the model as its own words in the next turn.
* A job that panics leaves `streaming` or `download` set for ever. A second split
  or pull replaces the receiver of the first.
* A finished download switches mode and model in the middle of a session; a swarm
  refresh resets the selected row; a swarm row needs the weights locally.
* `install_entry`'s comment has the weights fetched first, the code the tokenizer;
  the comment of `RowKind::Install` (`browser.rs:44`) tells of a choice of
  provider that does not exist.
* `split_code_fences` drops an unclosed fence with an empty body, which its
  comment has emitted. Deleting the closing bracket of a paste's placeholder makes
  `inflate_paste_refs` swallow text up to the next one.
* The comment of `push_undo` says "before any edit", but a paste, a recalled
  prompt, an accepted suggestion and Ctrl+C do not push. A pending Ctrl+C is
  reset "when the user types anything else", but not by Ctrl+L, Ctrl+D or a paste.
* Home pressed twice at a wrap boundary climbs a row, a no-op by `wrap.rs:301`.

*The swarm*

* `next_identified` is used in tests only, so `pending_id` grows without bound.
* A node keeps one record per key, so a second provider's put replaces the
  first one's, where `dht.rs:8` has Kademlia keep them all.
* `p2p.rs`: a second fetch of a chunk replaces the waiter of the first;
  `provider_query` is never cleaned; a request that fails, a query that times out
  while a provider is sending, and a NotFound before more providers are known end
  a fetch although it could go on.
* `docs/architecture.md` shows hosts that forward to each other; the driver is
  the centre of a star.

*Shards*

* `serve.rs` finds a pulled shard by `pull_source.json` but serves the manifest
  of the directory above, and may serve a file that is being written.
* `kept_ranges.json` is written before `pull_source.json`, whose errors are
  ignored; a pull after a split replaces the split's `kept_ranges.json`; two jobs
  of one model share temporary files; `stitched-*.gguf` is used on after its
  chunks have changed.
* A manifest that came over HTTP is not compared with the CID it was asked for;
  the stitcher checks the size of a bundle, not its hash.
* A truncated GGUF makes `n_bytes` underflow (`gguf.rs:359`). Tensors such as
  `rope_freqs` are part of the head bundle, so only the last host gets them
  (`bundle.rs:61`).

## 8. What is not modelled, and why

* Generation, sampling, tokenizer and the ggml bindings: numeric, no control of
  interest. The local generation loop is `run_turn` without a chain.
* Bootstrap and first run, systemd service: sequential set-up of files and
  external commands.
* Drawing and telemetry: nothing decides on them.
* Latency probe: measures round trips and keeps them for 60 s.
* Directory and mDNS: a table and a library.
* Configuration and plain types; cryptography (wrappers of libraries that
  sessions do not use yet, `forward_server.rs:175`); the binaries.

Partly modelled: the wire (a frame is a length and a body; only what goes into
frames is there), the chunk server (its answers, not its lookup of a directory),
the KV cache (without batches and the scratch sequence), the chat window
(without the commands that only print or run a service).

## 9. Plan

1. done: the host (`SliceLifecycle`, `ControlState`, `HostDaemon`), a turn
   (`ChainSession`, `GreedyDecode`, `TurnDecode`, `ChainDriver`, `ChatTurns`), the
   terminal interface (`ModelPicker`, `PromptEditor`), the swarm (`SwarmNode`,
   `SwarmRoute`) and the shards (`ChunkFetch`, `ShardFormat`, `ShardStore`);
   proofs about the slice map, the daemon, sessions, decoding, the chat, the
   picker, the editor, the chunk fetch, routing, the shard directory and the
   contents of its files.
2. An abstract fetch (a call ends with the whole plan or an error) that both
   `ChunkFetch` and `ShardStore` implement; `WireFraming` over partial reads;
   the latency cache beside a target that changes.

## 10. Running it

    tlc -workers 2 -config DaemonRaces.cfg MCHostDaemon
    tlapm ChunkFetchProofs.tla

`PROJECT.json` names the module and the configuration of every run. Runs take
from a few seconds to two and a half minutes with two workers.
