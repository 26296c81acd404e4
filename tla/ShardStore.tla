------------------------------ MODULE ShardStore ------------------------------
(* The shard directory of one model on a host: a split fills it from a local  *)
(* GGUF (contribute.rs, chunker.rs), a pull from another host's chunk server  *)
(* (swarm_contribute.rs, http.rs), the chunk server and the forward listener  *)
(* read it (serve.rs, forward_server.rs, stitch.rs). Files are written in     *)
(* steps, and the process may die between any two of them.                    *)
EXTENDS Integers, Sequences, FiniteSetsExt

CONSTANTS Layers,   \* n_layers of the model
          Ranges,   \* ranges <<start, end>> of it that are hosted or pulled
          Kept,     \* those a split keeps (default_kept_ranges)
          Pulls,    \* tasks of start_pull that may run at once
          Size,     \* per chunk its length, in the units a body arrives in
          MaxConcurrent, \* fetches of a pull that run at once
          Statuses, \* answers of a chunk server: 200, 206
          Units,    \* what it sends: good, and maybe bad, bytes
          MaxJobs,  \* bound: splits and pulls ever started
          MaxCrashes

ASSUME ShardAssumption ==
  /\ Layers \in Nat \ {0} /\ MaxConcurrent \in Nat \ {0}
  /\ Size \in [-2 .. Layers -> Nat \ {0}]
  /\ Ranges \subseteq Nat \X Nat
  /\ \A r \in Ranges : r[1] < r[2] /\ r[2] <= Layers
  /\ Kept \subseteq Ranges
  /\ Statuses \subseteq {200, 206} /\ Units \subseteq {"good", "bad"}

\* The chunks of a manifest: the header, the embedding, a bundle per layer, the
\* head.
Header == -2
Embed == -1
Head_ == Layers
Bundles == Embed .. Head_
Chunks == Bundles \cup {Header}

VARIABLES root,     \* <shard>/manifest.json and <shard>/chunks, of a split
          manifest, \* <shard>/<manifest cid>/manifest.json, of a pull
          final,    \* <shard>/<manifest cid>/chunks/<cid>.bin
          tmp,      \* and <cid>.bin.tmp
          kept,     \* kept_ranges.json
          source,   \* pull_source.json
          stitched, \* ranges with a stitched-<start>-<end>.gguf
          split,    \* step of the split
          pull,     \* per pull: its step and range
          fetch,    \* per pull and chunk: fetch_one
          mixed,    \* chunks that two fetches were at, not checked since
          jobs, crashes

disk == <<root, manifest, final, tmp, kept, source, stitched>>
vars == <<disk, split, pull, fetch, mixed, jobs, crashes>>

\* A small file: not there, truncated but not written yet, or written.
Written == {"absent", "torn", "whole"}

\* A chunk's file: its units, some of them never written.
Absent == <<"absent">>
MaxSize == Max({Size[c] : c \in Chunks})
Contents == UNION {[1 .. n -> {"good", "bad", "hole"}] : n \in 0 .. MaxSize}
Whole(c, file) == file = [i \in 1 .. Size[c] |-> "good"]

\* fetch_one: `from` is resume_from, `at` the offset in the file, `hashed` the
\* good bytes the hasher has seen, or Spoilt; `fd` the path of the open file, of which
\* the bytes are written to their place or, with `aim` off, to another.
Spoilt == -1
Fetcher == [step : {"idle", "check", "drop", "resume", "ask", "stream", "done", "failed"},
            from : 0 .. MaxSize, at : 0 .. MaxSize, total : 0 .. 2 * MaxSize,
            hashed : Spoilt .. MaxSize, fd : {"none", "tmp", "final", "gone"},
            aim : {"true", "off"}]
NoFetch == [step |-> "idle", from |-> 0, at |-> 0, total |-> 0, hashed |-> 0,
            fd |-> "none", aim |-> "true"]

NoKept == [state |-> "absent", gguf |-> FALSE, ranges |-> {}]
TornKept == [NoKept EXCEPT !.state = "torn"]

PullSteps == {"idle", "manifest", "write", "fetch", "kept", "source", "done", "failed"}

TypeOK ==
  /\ root \in [manifest : Written, chunks : SUBSET Chunks]
  /\ manifest \in Written /\ source \in Written
  /\ final \in [Chunks -> Contents \cup {Absent}]
  /\ tmp \in [Chunks -> Contents \cup {Absent}]
  /\ kept \in [state : Written, gguf : BOOLEAN, ranges : SUBSET Ranges]
  /\ stitched \subseteq Ranges
  /\ split \in {"idle", "chunks", "manifest", "kept"}
  /\ pull \in [Pulls -> [step : PullSteps, range : Ranges]]
  /\ fetch \in [Pulls -> [Chunks -> Fetcher]] /\ mixed \subseteq Chunks

Init ==
  /\ root = [manifest |-> "absent", chunks |-> {}]
  /\ manifest = "absent" /\ source = "absent"
  /\ final \in {[c \in Chunks |-> Absent],
                [c \in Chunks |-> IF c = Header THEN <<"bad">> ELSE Absent]}
  /\ tmp = [c \in Chunks |-> Absent]
  /\ kept = NoKept /\ stitched = {}
  /\ split = "idle"
  /\ pull \in [Pulls -> {[step |-> "idle", range |-> r] : r \in Ranges}]
  /\ fetch = [p \in Pulls |-> [c \in Chunks |-> NoFetch]]
  /\ mixed = {} /\ jobs = 0 /\ crashes = 0

\* kept_ranges.json is written into the file that was truncated. If another job
\* has written there since, a rest of its longer text may be left behind this one.
WriteKept(new) == kept' \in {new} \cup {k \in {TornKept} : kept.state = "whole"}

NewJob == jobs < MaxJobs /\ jobs' = jobs + 1

-----------------------------------------------------------------------------
(* start_split and chunk_gguf                                                 *)

StartSplit ==
  /\ split = "idle" /\ split' = "chunks"
  /\ NewJob
  /\ UNCHANGED <<disk, pull, fetch, mixed, crashes>>

\* The next chunk is written beside its name and renamed; those of an earlier
\* split are replaced by the same bytes.
WriteChunk ==
  /\ split = "chunks"
  /\ \/ /\ root.chunks # Chunks
        /\ root' = [root EXCEPT !.chunks = @ \cup {Min(Chunks \ @)}]
        /\ UNCHANGED split
     \/ /\ root.chunks = Chunks
        /\ root' = [root EXCEPT !.manifest = "torn"]
        /\ split' = "manifest"
  /\ UNCHANGED <<manifest, final, tmp, kept, source, stitched, pull, fetch, mixed,
                 jobs, crashes>>

\* manifest.json is complete, kept_ranges.json begun.
WriteManifest ==
  /\ split = "manifest" /\ split' = "kept"
  /\ root' = [root EXCEPT !.manifest = "whole"]
  /\ kept' = TornKept
  /\ UNCHANGED <<manifest, final, tmp, source, stitched, pull, fetch, mixed, jobs,
                 crashes>>

SplitDone ==
  /\ split = "kept" /\ split' = "idle"
  /\ WriteKept([state |-> "whole", gguf |-> TRUE, ranges |-> Kept])
  /\ UNCHANGED <<root, manifest, final, tmp, source, stitched, pull, fetch, mixed,
                 jobs, crashes>>

SplitFails ==
  /\ split # "idle" /\ split' = "idle"
  /\ UNCHANGED <<disk, pull, fetch, mixed, jobs, crashes>>

-----------------------------------------------------------------------------
(* start_pull                                                                 *)

Goto(p, step) == pull' = [pull EXCEPT ![p].step = step]

\* A new pull, of whatever range was chosen. Nothing stops a second one: the panel
\* starts one at every `c`.
StartPull(p) ==
  /\ pull[p].step \in {"idle", "done", "failed"}
  /\ NewJob
  /\ \E r \in Ranges : pull' = [pull EXCEPT ![p] = [step |-> "manifest", range |-> r]]
  /\ UNCHANGED <<disk, split, fetch, mixed, crashes>>

\* fetch_manifest_only: manifest.json is written in place.
BeginManifest(p) ==
  /\ pull[p].step = "manifest"
  /\ manifest' = "torn"
  /\ Goto(p, "write")
  /\ UNCHANGED <<root, final, tmp, kept, source, stitched, split, fetch, mixed, jobs,
                 crashes>>

\* FetchPlan::for_range, and the header.
ForRange(r) ==
  {Header} \cup {n \in {Embed} : r[1] = 0} \cup r[1] .. r[2] - 1
           \cup {n \in {Head_} : r[2] = Layers}

\* fetch_chunks starts a fetch_one for every chunk of the plan.
ManifestOk(p) ==
  /\ pull[p].step = "write"
  /\ manifest' = "whole"
  /\ Goto(p, "fetch")
  /\ fetch' = [fetch EXCEPT ![p] = [c \in Chunks |->
       IF c \in ForRange(pull[p].range) THEN [NoFetch EXCEPT !.step = "check"]
       ELSE NoFetch]]
  /\ UNCHANGED <<root, final, tmp, kept, source, stitched, split, mixed, jobs,
                 crashes>>

Over(p, c) == fetch[p][c].step \in {"idle", "done", "failed"}

\* All fetches have ended. One error makes the pull fail; else kept_ranges.json
\* is begun.
FetchesJoined(p) ==
  /\ pull[p].step = "fetch"
  /\ \A c \in Chunks : Over(p, c)
  /\ IF \E c \in Chunks : fetch[p][c].step = "failed"
     THEN Goto(p, "failed") /\ UNCHANGED kept
     ELSE Goto(p, "kept") /\ kept' = TornKept
  /\ fetch' = [fetch EXCEPT ![p] = [c \in Chunks |-> NoFetch]]
  /\ UNCHANGED <<root, manifest, final, tmp, source, stitched, split, mixed, jobs,
                 crashes>>

\* kept_ranges.json now lists this range alone, without a GGUF.
KeptWritten(p) ==
  /\ pull[p].step = "kept"
  /\ WriteKept([state |-> "whole", gguf |-> FALSE, ranges |-> {pull[p].range}])
  /\ source' = "torn"
  /\ Goto(p, "source")
  /\ UNCHANGED <<root, manifest, final, tmp, stitched, split, fetch, mixed, jobs,
                 crashes>>

\* An error of the last write is ignored.
PullDone(p) ==
  /\ pull[p].step = "source"
  /\ source' \in {"torn", "whole"}
  /\ Goto(p, "done")
  /\ UNCHANGED <<root, manifest, final, tmp, kept, stitched, split, fetch, mixed,
                 jobs, crashes>>

PullFails(p) ==
  /\ pull[p].step \in {"manifest", "write", "kept"}
  /\ Goto(p, "failed")
  /\ UNCHANGED <<disk, split, fetch, mixed, jobs, crashes>>

-----------------------------------------------------------------------------
(* fetch_one                                                                  *)

\* What a path named is gone or renamed: open files follow.
Follow(c, old, new) ==
  [q \in Pulls |-> [d \in Chunks |->
     IF d = c /\ fetch[q][d].fd = old THEN [fetch[q][d] EXCEPT !.fd = new]
     ELSE fetch[q][d]]]

Fetches(p, c, f) == fetch' = [fetch EXCEPT ![p][c] = f]

Downloading(p, c) == fetch[p][c].step \in {"drop", "resume", "ask", "stream"}
Alone(p, c) == \A q \in Pulls \ {p} : ~Downloading(q, c)

\* Fetches start in the order of the plan, MaxConcurrent at a time. A verified
\* file is reused; one that another pull removes meanwhile cannot be read.
CheckCached(p, c) ==
  /\ fetch[p][c].step = "check"
  /\ \A d \in Chunks : d < c => fetch[p][d].step # "check"
  /\ Cardinality({d \in Chunks : Downloading(p, d)}) < MaxConcurrent
  /\ \/ /\ Whole(c, final[c])
        /\ Fetches(p, c, [NoFetch EXCEPT !.step = "done"])
        /\ mixed' = IF Alone(p, c) THEN mixed \ {c} ELSE mixed
     \/ /\ ~Whole(c, final[c])
        /\ Fetches(p, c, [NoFetch EXCEPT !.step =
                            IF final[c] = Absent THEN "resume" ELSE "drop"])
        /\ mixed' = IF Alone(p, c) THEN mixed ELSE mixed \cup {c}
     \/ /\ final[c] # Absent
        /\ Fetches(p, c, [NoFetch EXCEPT !.step = "failed"])
        /\ UNCHANGED mixed
  /\ UNCHANGED <<root, manifest, final, tmp, kept, source, stitched, split, pull,
                 jobs, crashes>>

\* The file that is not the chunk is removed, or what is in its place by now.
Drop(p, c) ==
  /\ fetch[p][c].step = "drop"
  /\ fetch' = [Follow(c, "final", "gone") EXCEPT
                 ![p][c] = [NoFetch EXCEPT !.step = "resume"]]
  /\ final' = [final EXCEPT ![c] = Absent]
  /\ UNCHANGED <<root, manifest, tmp, kept, source, stitched, split, pull, mixed,
                 jobs, crashes>>

\* A partial file shorter than the chunk is resumed, another one removed.
Resume(p, c) ==
  /\ fetch[p][c].step = "resume"
  /\ IF tmp[c] # Absent /\ Len(tmp[c]) < Size[c]
     THEN /\ Fetches(p, c, [NoFetch EXCEPT !.step = "ask", !.from = Len(tmp[c])])
          /\ UNCHANGED tmp
     ELSE /\ fetch' = [Follow(c, "tmp", "gone") EXCEPT
                         ![p][c] = [NoFetch EXCEPT !.step = "ask"]]
          /\ tmp' = [tmp EXCEPT ![c] = Absent]
  /\ UNCHANGED <<root, manifest, final, kept, source, stitched, split, pull, mixed,
                 jobs, crashes>>

\* 206 to a request for the rest: hash up to that many of the bytes that are there,
\* and go on behind them. Any other answer sends the whole chunk: start the file
\* and the hash anew.
Answered(p, c) ==
  LET f == fetch[p][c]
      read == Min({f.from, Len(tmp[c])}) IN
  /\ f.step = "ask"
  /\ \/ /\ 206 \in Statuses /\ f.from > 0 /\ tmp[c] # Absent
        /\ Fetches(p, c, [f EXCEPT !.step = "stream", !.fd = "tmp",
                            !.at = Len(tmp[c]), !.total = f.from,
                            !.hashed = IF \A i \in 1 .. read : tmp[c][i] = "good"
                                       THEN read ELSE Spoilt,
                            !.aim = IF Len(tmp[c]) = f.from THEN "true" ELSE "off"])
        /\ UNCHANGED tmp
     \/ /\ 200 \in Statuses \/ f.from = 0
        /\ Fetches(p, c, [f EXCEPT !.step = "stream", !.fd = "tmp",
                            !.total = f.from])
        /\ tmp' = [tmp EXCEPT ![c] = <<>>]
  /\ UNCHANGED <<root, manifest, final, kept, source, stitched, split, pull, mixed,
                 jobs, crashes>>

\* file with one unit written at offset `at`.
WriteAt(file, at, unit) ==
  [i \in 1 .. (IF Len(file) > at THEN Len(file) ELSE at + 1) |->
     IF i = at + 1 THEN unit ELSE IF i <= Len(file) THEN file[i] ELSE "hole"]

\* A unit that is not written to its place spoils another.
Put(f, unit) == IF f.aim = "true" THEN unit ELSE "bad"

Receive(p, c) ==
  LET f == fetch[p][c] IN
  /\ f.step = "stream" /\ f.total < f.from + Size[c] /\ f.at < Size[c]
  /\ \E unit \in Units :
       /\ Fetches(p, c, [f EXCEPT !.at = @ + 1, !.total = @ + 1,
                                  !.hashed = IF @ # Spoilt /\ unit = "good"
                                               THEN @ + 1 ELSE Spoilt])
       /\ tmp' = IF f.fd = "tmp"
                 THEN [tmp EXCEPT ![c] = WriteAt(@, f.at, Put(f, unit))] ELSE tmp
       /\ final' = IF f.fd = "final"
                   THEN [final EXCEPT ![c] = WriteAt(@, f.at, Put(f, unit))] ELSE final
  /\ UNCHANGED <<root, manifest, kept, source, stitched, split, pull, mixed, jobs,
                 crashes>>

\* Mutation of Sound: the hash is not compared.
SoundSize(c, f) == f.total = Size[c]

\* Size and hash, as the body went by.
Sound(c, f) == f.total = Size[c] /\ f.hashed = Size[c]

\* The body is over. Unsound, the partial file is removed; else it is renamed,
\* which fails if another fetch has renamed or removed it.
BodyEnds(p, c) ==
  LET f == fetch[p][c] IN
  /\ f.step = "stream"
  /\ IF Sound(c, f) /\ tmp[c] # Absent
     THEN /\ final' = [final EXCEPT ![c] = tmp[c]]
          /\ fetch' = [q \in Pulls |-> [d \in Chunks |->
               IF q = p /\ d = c THEN [NoFetch EXCEPT !.step = "done"]
               ELSE IF d = c /\ fetch[q][d].fd = "tmp"
                    THEN [fetch[q][d] EXCEPT !.fd = "final"]
               ELSE IF d = c /\ fetch[q][d].fd = "final"
                    THEN [fetch[q][d] EXCEPT !.fd = "gone"]
               ELSE fetch[q][d]]]
     ELSE /\ fetch' = [Follow(c, "tmp", "gone") EXCEPT
                         ![p][c] = [NoFetch EXCEPT !.step = "failed"]]
          /\ UNCHANGED final
  /\ tmp' = [tmp EXCEPT ![c] = Absent]
  /\ UNCHANGED <<root, manifest, kept, source, stitched, split, pull, mixed, jobs,
                 crashes>>

\* Mutation of FetchFails: it is tried again, for ever.
FetchFailsRetries(p, c) ==
  /\ fetch[p][c].step \in {"ask", "stream"}
  /\ Fetches(p, c, [NoFetch EXCEPT !.step = "resume"])
  /\ UNCHANGED <<disk, split, pull, mixed, jobs, crashes>>

\* No answer, an error status or a broken connection: the partial file stays.
FetchFails(p, c) ==
  /\ fetch[p][c].step \in {"ask", "stream"}
  /\ Fetches(p, c, [NoFetch EXCEPT !.step = "failed"])
  /\ UNCHANGED <<disk, split, pull, mixed, jobs, crashes>>

-----------------------------------------------------------------------------
(* The readers                                                                *)

\* stitch_subset's choice among the bundles of the manifest, and the header;
\* stitch_subset_for includes the head if the range ends at the block count.
StitchNeeds(r) ==
  {Header} \cup {b \in Bundles :
    CASE b = Embed -> r[1] = 0
      [] b = Head_ -> r[2] = Layers
      [] OTHER -> r[1] <= b /\ b < r[2]}

Listed(r) == kept.state = "whole" /\ r \in kept.ranges

Stitchable(r) == root.manifest = "whole" /\ StitchNeeds(r) \subseteq root.chunks

\* prepare_slice: the whole GGUF, a file stitched before, or one that can be.
Runnable(r) == kept.gguf \/ r \in stitched \/ Stitchable(r)

\* A session on a listed range loads it, and may stitch it for that.
Prepare(r) ==
  /\ Listed(r) /\ ~kept.gguf /\ r \notin stitched /\ Stitchable(r)
  /\ stitched' = stitched \cup {r}
  /\ UNCHANGED <<root, manifest, final, tmp, kept, source, split, pull, fetch,
                 mixed, jobs, crashes>>

Crash ==
  /\ crashes < MaxCrashes /\ crashes' = crashes + 1
  /\ split' = "idle"
  /\ pull' = [p \in Pulls |-> [pull[p] EXCEPT !.step = "idle"]]
  /\ fetch' = [p \in Pulls |-> [c \in Chunks |-> NoFetch]]
  /\ UNCHANGED <<disk, mixed, jobs>>

-----------------------------------------------------------------------------
SplitStep == WriteChunk \/ WriteManifest \/ SplitDone
FetchStep(p, c) ==
  CheckCached(p, c) \/ Drop(p, c) \/ Resume(p, c) \/ Answered(p, c) \/ Receive(p, c)
    \/ BodyEnds(p, c) \/ FetchFails(p, c)
PullStep(p) ==
  \/ BeginManifest(p) \/ ManifestOk(p) \/ FetchesJoined(p) \/ KeptWritten(p)
  \/ PullDone(p) \/ \E c \in Chunks : FetchStep(p, c)

Next ==
  \/ StartSplit \/ SplitStep \/ SplitFails
  \/ \E p \in Pulls : StartPull(p) \/ PullStep(p) \/ PullFails(p)
  \/ \E r \in Ranges : Prepare(r)
  \/ Crash

\* Tasks run; requests have a timeout.
Spec == Init /\ [][Next]_vars /\ \A p \in Pulls : WF_vars(PullStep(p))

-----------------------------------------------------------------------------
(* Properties                                                                 *)

\* A range listed without a GGUF has all the chunks the stitcher will ask for,
\* whole and verified, over interrupted, resumed and wrong downloads, crashes and
\* other pulls of the model; a chunk that two pulls were at once may be bad until a
\* later pull checks it (ChunksOnlyWhole). One listed by a split has all the chunks
\* of the model.
ListedIsFetched ==
  /\ TypeOK
  /\ \A r \in Ranges : Listed(r) =>
       IF kept.gguf THEN root.chunks = Chunks
       ELSE \A c \in StitchNeeds(r) : Whole(c, final[c]) \/ c \in mixed

\* A fetch that has a chunk's files to itself puts it in place whole, whatever an
\* earlier fetch has left there, and takes no whole one away.
LoneFetchPlacesWhole ==
  [][\A c \in Chunks : final'[c] # final[c] =>
       \/ c \in mixed
       \/ Whole(c, final'[c])
       \/ final'[c] = Absent /\ ~Whole(c, final[c])]_vars

\* "Every byte is SHA-256 verified against its CID before the file enters the
\* cache": no pull puts a chunk in place that is not whole. Two at once do: the
\* first to end renames the file that the other still writes to.
ChunksOnlyWhole ==
  [][\A c \in Chunks :
       final'[c] # final[c] => final'[c] = Absent \/ Whole(c, final'[c])]_vars

\* A pull comes to an end.
PullEnds ==
  \A p \in Pulls : (pull[p].step = "fetch") ~> (pull[p].step # "fetch")

\* "Swarm-pulled path: stitch a subset GGUF from manifest+chunks": a range that
\* is listed can be run.
ListedIsRunnable == \A r \in Ranges : Listed(r) => Runnable(r)

\* "If the server ignored our Range and sent the whole body ... start the hasher
\* fresh and truncate the temp file": a whole body, all good, makes the chunk.
FreshBodyCompletes ==
  [][\A p \in Pulls, c \in Chunks :
       BodyEnds(p, c) /\ fetch[p][c].hashed = Size[c]
         => fetch'[p][c].step = "done"]_vars
==============================================================================
