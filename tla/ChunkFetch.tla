----------------------------- MODULE ChunkFetch ------------------------------
(* The chunk fetcher over libp2p (model-store/src/p2p.rs): callers that fetch *)
(* a manifest and the chunks of a plan into a cache of their own, the swarm   *)
(* driver that looks for providers and asks them, and the replies peers give. *)
EXTENDS Naturals, Sequences

CONSTANTS Callers,    \* tasks that call fetch_manifest_and_chunks_p2p_with
          Manifest,   \* the manifest's CID
          Chunks,     \* CIDs of its header chunk and bundles
          Plan,       \* per caller: the chunks it wants, in order
          Peers,      \* peers that may provide them
          MaxCalls,   \* bound: calls ever made
          MaxCrashes, \* bound: times the process dies
          None

\* A pending fetch. It always has a waiter, which never gives up.
Entry == [found : SUBSET Peers, tried : SUBSET Peers, waiter : Callers]

ASSUME FetchAssumption ==
  /\ Manifest \notin Chunks
  /\ Plan \in [Callers -> Seq(Chunks)]
  /\ MaxCalls \in Nat /\ MaxCrashes \in Nat
  /\ None \notin Entry

Cids == Chunks \cup {Manifest}

VARIABLES pending,  \* pending_fetch: the entry of a chunk that is fetched
          queries,  \* provider_query: provider queries still open, per chunk
          requests, \* req_to_cid: requests in flight, per chunk and peer
          caller,   \* per caller: its step, the chunks left, the reply it holds
          file,     \* per caller: what the files of its cache hold
          calls, crashes

driver == <<pending, queries, requests>>
vars == <<driver, caller, file, calls, crashes>>

\* What a reply or a file may hold: the chunk, other bytes as long as it, or
\* bytes of another length.
Contents == {"good", "bad", "short"}

Steps == {"idle", "fetch", "saving", "next", "ok", "failed"}

TypeOK ==
  /\ pending \in [Cids -> Entry \cup {None}]
  /\ queries \in [Cids -> Nat]
  /\ requests \in [Cids -> [Peers -> Nat]]
  /\ caller \in [Callers -> [step : Steps, left : Seq(Cids),
                             reply : Contents \cup {"none", "error"}]]
  /\ file \in [Callers -> [Cids -> Contents \cup {"absent"}]]
  /\ calls \in Nat /\ crashes \in Nat

\* A caller that is in no call: before its first, or after its last.
AtRest(step) == [step |-> step, left |-> <<>>, reply |-> "none"]

Init ==
  /\ pending = [c \in Cids |-> None]
  /\ queries = [c \in Cids |-> 0]
  /\ requests = [c \in Cids |-> [p \in Peers |-> 0]]
  /\ caller = [w \in Callers |-> AtRest("idle")]
  /\ file \in [Callers -> {[c \in Cids |-> "absent"],
                           [c \in Cids |-> IF c = Manifest THEN "short" ELSE "bad"]}]
  /\ calls = 0 /\ crashes = 0

End(w, step) == caller' = [caller EXCEPT ![w] = AtRest(step)]

\* w sits in Node::fetch for the first chunk of `left`.
Waiting(w) == caller[w].step = "fetch" /\ caller[w].reply = "none"
Replied(w) == caller[w].step = "fetch" /\ caller[w].reply # "none"

-----------------------------------------------------------------------------
(* The driver: commands                                                       *)

\* Command::Fetch: ask for providers, and replace the entry of the chunk. The
\* waiter of an earlier fetch is dropped, which its caller sees as an error.
Fetch(w, c, todo) ==
  /\ queries' = [queries EXCEPT ![c] = @ + 1]
  /\ pending' = [pending EXCEPT ![c] = [found |-> {}, tried |-> {}, waiter |-> w]]
  /\ caller' = [v \in Callers |->
       IF v = w THEN [step |-> "fetch", left |-> todo, reply |-> "none"]
       ELSE IF pending[c] # None /\ pending[c].waiter = v
            THEN [caller[v] EXCEPT !.reply = "error"]
            ELSE caller[v]]
  /\ UNCHANGED requests

-----------------------------------------------------------------------------
(* The driver: events of the swarm                                            *)

\* The entry of c is removed and its waiter told.
Answer(c, reply) ==
  IF pending[c] = None THEN UNCHANGED <<pending, caller>>
  ELSE /\ pending' = [pending EXCEPT ![c] = None]
       /\ caller' = [caller EXCEPT ![pending[c].waiter].reply = reply]

\* A request to each of `peers` more, or one to p less, of those in flight.
Sent(flight, peers) == [p \in Peers |-> IF p \in peers THEN flight[p] + 1 ELSE flight[p]]
Done(flight, p) == [flight EXCEPT ![p] = flight[p] - 1]

\* An entry that knows more providers, and has asked more.
Known(entry, batch, asked) ==
  [entry EXCEPT !.found = entry.found \cup batch, !.tried = entry.tried \cup asked]

\* One peer of a set, if there is one: which, is up to a hash map.
AnyOf(peers) == IF peers = {} THEN {{}} ELSE {{p} : p \in peers}

\* FoundProviders: remember the batch, ask one peer of it not asked before.
FoundProviders(c) ==
  /\ queries[c] > 0 /\ pending[c] # None
  /\ \E batch \in (SUBSET Peers) \ {{}} : \E asked \in AnyOf(batch \ pending[c].tried) :
       /\ pending' = [pending EXCEPT ![c] = Known(pending[c], batch, asked)]
       /\ requests' = [requests EXCEPT ![c] = Sent(requests[c], asked)]
  /\ UNCHANGED <<queries, caller, file, calls, crashes>>

\* FinishedWithNoAdditionalRecord: fail if no provider was found so far.
QueryFinished(c) ==
  /\ queries[c] > 0
  /\ queries' = [queries EXCEPT ![c] = @ - 1]
  /\ IF pending[c] # None /\ pending[c].found # {}
     THEN UNCHANGED <<pending, caller>>
     ELSE Answer(c, "error")
  /\ UNCHANGED <<requests, file, calls, crashes>>

\* Mutation of QueryFailed: only the query is forgotten, not the entry.
QueryFailedKeeps(c) ==
  /\ queries[c] > 0
  /\ queries' = [queries EXCEPT ![c] = @ - 1]
  /\ UNCHANGED <<pending, requests, caller, file, calls, crashes>>

\* GetProviders(Err): the query's 30 s are over. Fails the fetch, also while a
\* provider is sending the chunk.
QueryFailed(c) ==
  /\ queries[c] > 0
  /\ queries' = [queries EXCEPT ![c] = @ - 1]
  /\ Answer(c, "error")
  /\ UNCHANGED <<requests, file, calls, crashes>>

\* What load_chunk_from_dir makes of the two files that may hold a chunk: the
\* first that can be read decides, and is only served if its hash is right.
Loaded(nested, flat) ==
  LET first == IF nested # "absent" THEN nested ELSE flat
  IN  IF first = "good" THEN "good" ELSE "not_found"

\* A seeder without a directory has nothing; other programs send anything.
Replies == {Loaded(n, f) : n, f \in Contents \cup {"absent"}} \cup Contents

\* Mutation of Verified: only the size is looked at.
SizeOnly(c, bytes) == c = Manifest \/ bytes # "short"

\* The size is not enforced for the manifest, the hash always is.
Verified(c, bytes) == (c = Manifest \/ bytes # "short") /\ bytes = "good"

\* Mutation of AskNext: gives up only when it was the last peer asked.
AskNextForgets(c, p) ==
  LET untried == pending[c].found \ pending[c].tried IN
  /\ requests' = [requests EXCEPT ![c] = Done(requests[c], p)]
  /\ IF untried = {} THEN Answer(c, "error") ELSE UNCHANGED <<pending, caller>>

\* NotFound: ask a provider found but not asked, or give up.
AskNext(c, p) ==
  LET untried == pending[c].found \ pending[c].tried IN
  \/ \E q \in untried :
       /\ pending' = [pending EXCEPT ![c] = Known(pending[c], {}, {q})]
       /\ requests' = [requests EXCEPT ![c] = Sent(Done(requests[c], p), {q})]
       /\ UNCHANGED caller
  \/ /\ untried = {}
     /\ requests' = [requests EXCEPT ![c] = Done(requests[c], p)]
     /\ Answer(c, "error")

\* A response, for whichever entry the chunk has by now.
Response(c, p) ==
  /\ requests[c][p] > 0
  /\ \E reply \in Replies :
       IF reply = "not_found" /\ pending[c] # None THEN AskNext(c, p)
       ELSE /\ requests' = [requests EXCEPT ![c] = Done(requests[c], p)]
            /\ Answer(c, IF Verified(c, reply) THEN reply ELSE "error")
  /\ UNCHANGED <<queries, file, calls, crashes>>

\* OutboundFailure: timeout or disconnect ends the fetch.
RequestFailed(c, p) ==
  /\ requests[c][p] > 0
  /\ requests' = [requests EXCEPT ![c] = Done(requests[c], p)]
  /\ Answer(c, "error")
  /\ UNCHANGED <<queries, file, calls, crashes>>

-----------------------------------------------------------------------------
(* fetch_manifest_and_chunks_p2p_with                                         *)

Call(w) ==
  /\ caller[w].step \in {"idle", "ok", "failed"} /\ calls < MaxCalls
  /\ calls' = calls + 1
  /\ Fetch(w, Manifest, <<Manifest>>)
  /\ UNCHANGED <<file, crashes>>

\* Mutation of TakeReply: a chunk's file is written in place.
TakeReplyInPlace(w) ==
  /\ Replied(w)
  /\ \/ End(w, "failed") /\ UNCHANGED file
     \/ /\ caller[w].reply # "error"
        /\ caller' = [caller EXCEPT ![w].step = "saving"]
        /\ file' = [file EXCEPT ![w][Head(caller[w].left)] = "short"]
  /\ UNCHANGED <<driver, calls, crashes>>

\* The reply of Node::fetch. The call ends with an error reply, a manifest over
\* the size cap or one that does not parse. Else the bytes are written: fs::write
\* truncates first, manifest.json itself but for a chunk a file beside its own.
TakeReply(w) ==
  /\ Replied(w)
  /\ \/ End(w, "failed") /\ UNCHANGED file
     \/ /\ caller[w].reply # "error"
        /\ caller' = [caller EXCEPT ![w].step = "saving"]
        /\ file' = IF Head(caller[w].left) = Manifest
                   THEN [file EXCEPT ![w][Manifest] = "short"] ELSE file
  /\ UNCHANGED <<driver, calls, crashes>>

\* A write or rename fails, or the manifest lacks a bundle of the plan.
CallFails(w) ==
  /\ \/ caller[w].step = "saving"
     \/ caller[w].step = "next" /\ caller[w].left = Plan[w]
  /\ End(w, "failed")
  /\ UNCHANGED <<driver, file, calls, crashes>>

\* The write is complete, a chunk's file renamed. After the manifest the plan
\* tells which chunks are left.
Saved(w) ==
  /\ caller[w].step = "saving"
  /\ LET c == Head(caller[w].left) IN
     /\ file' = [file EXCEPT ![w][c] = caller[w].reply]
     /\ caller' = [caller EXCEPT ![w] = [step |-> "next", reply |-> "none",
                     left |-> IF c = Manifest THEN Plan[w] ELSE Tail(caller[w].left)]]
  /\ UNCHANGED <<driver, calls, crashes>>

\* A file with the right size and hash is not fetched again.
Reusable(w, c) == file[w][c] = "good"

NextChunk(w) ==
  /\ caller[w].step = "next"
  /\ IF caller[w].left = <<>> THEN End(w, "ok") /\ UNCHANGED driver
     ELSE LET c == Head(caller[w].left) IN
          IF Reusable(w, c)
          THEN /\ caller' = [caller EXCEPT ![w].left = Tail(@)]
               /\ UNCHANGED driver
          ELSE Fetch(w, c, caller[w].left)
  /\ UNCHANGED <<file, calls, crashes>>

\* The process dies: only the files are left.
Crash ==
  /\ crashes < MaxCrashes
  /\ crashes' = crashes + 1
  /\ pending' = [c \in Cids |-> None]
  /\ queries' = [c \in Cids |-> 0]
  /\ requests' = [c \in Cids |-> [p \in Peers |-> 0]]
  /\ caller' = [w \in Callers |-> AtRest("idle")]
  /\ UNCHANGED <<file, calls>>

-----------------------------------------------------------------------------
QueryEnds(c) == QueryFinished(c) \/ QueryFailed(c)
RequestEnds(c, p) == Response(c, p) \/ RequestFailed(c, p)
CallerStep(w) == TakeReply(w) \/ Saved(w) \/ NextChunk(w)

Next ==
  \/ \E c \in Cids : FoundProviders(c) \/ QueryEnds(c)
  \/ \E c \in Cids, p \in Peers : RequestEnds(c, p)
  \/ \E w \in Callers : Call(w) \/ CallFails(w) \/ CallerStep(w)
  \/ Crash

\* Queries and requests have timeouts (30 s and 120 s), and the tasks run. As
\* calls are bounded, it is enough that some query, request or task goes on.
Fairness ==
  /\ WF_vars(\E c \in Cids : QueryEnds(c))
  /\ WF_vars(\E c \in Cids, p \in Peers : RequestEnds(c, p))
  /\ WF_vars(\E w \in Callers : CallerStep(w))

Spec == Init /\ [][Next]_vars /\ Fairness

-----------------------------------------------------------------------------
(* Properties                                                                 *)

\* While a fetch has no answer, its caller is the waiter of the chunk's entry,
\* whatever the answers to earlier fetches of that chunk did to the entry; no
\* entry waits for a caller that has gone on.
WaiterKept ==
  /\ \A w \in Callers : Waiting(w) =>
       LET c == Head(caller[w].left) IN pending[c] # None /\ pending[c].waiter = w
  /\ \A c \in Cids : pending[c] # None =>
       Waiting(pending[c].waiter) /\ Head(caller[pending[c].waiter].left) = c

\* No entry is left without something that will end it: an open query, or, once
\* a provider was found, a request in flight for that chunk.
PendingIsServed ==
  \A c \in Cids : pending[c] # None =>
    IF pending[c].found = {} THEN queries[c] > 0
    ELSE \E p \in Peers : requests[c][p] > 0

\* Every fetch without an answer can still get one, and gets it where it waits.
WaitersServed == TypeOK /\ WaiterKept /\ PendingIsServed

\* A call that returned Ok left the manifest and every chunk of the plan, whole
\* and verified, in the cache: over wrong bytes, peers without the chunk, torn
\* files and restarts.
OutcomeComplete ==
  \A w \in Callers : caller[w].step = "ok" =>
    /\ file[w][Manifest] = "good"
    /\ \A i \in 1 .. Len(Plan[w]) : file[w][Plan[w][i]] = "good"

\* A chunk's file only ever appears or changes whole: a verified one is never
\* lost, and one that is no longer what it was is the chunk (tmp and rename).
ChunksOnlyWhole ==
  [][\A w \in Callers, c \in Chunks :
       file'[w][c] # file[w][c] => file'[w][c] = "good"]_vars

\* Every fetch comes to an end.
FetchAnswered == \A w \in Callers : Waiting(w) ~> ~Waiting(w)
==============================================================================
