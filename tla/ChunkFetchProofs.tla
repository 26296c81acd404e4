--------------------------- MODULE ChunkFetchProofs ---------------------------
(* Proofs about the chunk fetcher: that no waiter is forgotten, that Ok means *)
(* that everything is there, and that a chunk's file only appears whole.      *)
EXTENDS ChunkFetch, TLAPS

-----------------------------------------------------------------------------
(* The inductive invariant                                                    *)

\* PendingIsServed of one chunk; and a provider is asked only after it was found,
\* so that an entry all of whose providers were asked has found one.
EntryOK(c) ==
  pending[c] # None =>
    /\ pending[c].tried \subseteq pending[c].found
    /\ pending[c].found = {} => queries[c] > 0
    /\ pending[c].found # {} => \E p \in Peers : requests[c][p] > 0

\* What a caller holds fits its step; only verified bytes are ever handed to it.
StepsOK ==
  \A w \in Callers :
    /\ caller[w].reply \in {"none", "good", "error"}
    /\ caller[w].step \in {"fetch", "saving"} => caller[w].left # <<>>
    /\ caller[w].step = "saving" => caller[w].reply = "good"

\* A caller that has got behind the manifest: it is saved, and every chunk of
\* the plan is saved or still to be looked at.
Behind(w) ==
  \/ caller[w].step \in {"next", "ok"}
  \/ caller[w].step \in {"fetch", "saving"} /\ Head(caller[w].left) # Manifest

Left(w, c) ==
  caller[w].step # "ok" /\ \E j \in 1 .. Len(caller[w].left) : caller[w].left[j] = c

ProgressKept ==
  \A w \in Callers : Behind(w) =>
    /\ file[w][Manifest] = "good"
    /\ \A i \in 1 .. Len(Plan[w]) : file[w][Plan[w][i]] = "good" \/ Left(w, Plan[w][i])

\* WaiterKept as a relation: who waits for a chunk is whom its entry serves.
Awaits(w, c) == Waiting(w) /\ Head(caller[w].left) = c
Serves(c, w) == pending[c] # None /\ pending[c].waiter = w
Pairs == \A w \in Callers, c \in Cids : Awaits(w, c) <=> Serves(c, w)

EntriesOK == \A c \in Cids : EntryOK(c)

FetchInv == TypeOK /\ Pairs /\ EntriesOK /\ StepsOK /\ ProgressKept

LEMMA InvServesWaiters == FetchInv => WaitersServed
<1> SUFFICES ASSUME FetchInv PROVE WaiterKept
  BY DEF FetchInv, WaitersServed, EntriesOK, EntryOK, PendingIsServed
<1>1. \A w \in Callers : Waiting(w) => Head(caller[w].left) \in Cids
  BY DEF FetchInv, StepsOK, TypeOK, Waiting
<1>2. \A c \in Cids : pending[c] # None => pending[c].waiter \in Callers
  BY DEF FetchInv, TypeOK, Entry
<1> QED
  BY <1>1, <1>2 DEF FetchInv, WaiterKept, Pairs, Awaits, Serves

-----------------------------------------------------------------------------
(* What the operators shared by the actions do                                *)

\* The plan of a caller, as a sequence of CIDs.
LEMMA PlanTyped == \A w \in Callers : Plan[w] \in Seq(Cids) /\ Plan[w] \in Seq(Chunks)
  BY FetchAssumption DEF Cids

\* A seeder, or another program, sends bytes or says that it has none.
LEMMA RepliesTyped == \A r \in Replies : r \in Contents \cup {"not_found"}
  BY DEF Replies, Loaded, Contents

\* Command::Fetch keeps the tables typed, and only touches w and the caller it
\* takes the entry of c from.
LEMMA FetchEffect ==
  ASSUME TypeOK, NEW w \in Callers, NEW c \in Cids, NEW todo \in Seq(Cids),
         Fetch(w, c, todo)
  PROVE  /\ pending' \in [Cids -> Entry \cup {None}]
         /\ queries' \in [Cids -> Nat]
         /\ requests' = requests
         /\ caller' \in [Callers -> [step : Steps, left : Seq(Cids),
                                     reply : Contents \cup {"none", "error"}]]
         /\ caller'[w] = [step |-> "fetch", left |-> todo, reply |-> "none"]
         /\ pending'[c] = [found |-> {}, tried |-> {}, waiter |-> w]
         /\ pending'[c] \in Entry /\ pending'[c] # None
         /\ queries'[c] > 0
         /\ \A d \in Cids \ {c} : pending'[d] = pending[d] /\ queries'[d] = queries[d]
         /\ \A v \in Callers \ {w} :
              /\ caller'[v].step = caller[v].step /\ caller'[v].left = caller[v].left
              /\ caller'[v].reply = IF pending[c] # None /\ pending[c].waiter = v
                                    THEN "error" ELSE caller[v].reply
<1>1. [found |-> {}, tried |-> {}, waiter |-> w] \in Entry
  BY DEF Entry
<1>2. [step |-> "fetch", left |-> todo, reply |-> "none"]
        \in [step : Steps, left : Seq(Cids), reply : Contents \cup {"none", "error"}]
  BY DEF Steps
<1>3. \A v \in Callers : [caller[v] EXCEPT !.reply = "error"]
        \in [step : Steps, left : Seq(Cids), reply : Contents \cup {"none", "error"}]
  BY DEF TypeOK
<1>4. pending' = [pending EXCEPT ![c] = [found |-> {}, tried |-> {}, waiter |-> w]]
  BY DEF Fetch
<1>5. caller' \in [Callers -> [step : Steps, left : Seq(Cids),
                              reply : Contents \cup {"none", "error"}]]
  BY <1>2, <1>3 DEF Fetch, TypeOK
<1>6. \A v \in Callers \ {w} :
        /\ caller'[v].step = caller[v].step /\ caller'[v].left = caller[v].left
        /\ caller'[v].reply = IF pending[c] # None /\ pending[c].waiter = v
                              THEN "error" ELSE caller[v].reply
  BY DEF Fetch, TypeOK
<1>7. /\ pending' \in [Cids -> Entry \cup {None}]
      /\ pending'[c] = [found |-> {}, tried |-> {}, waiter |-> w]
      /\ pending'[c] \in Entry /\ pending'[c] # None
      /\ \A d \in Cids \ {c} : pending'[d] = pending[d]
  BY <1>1, <1>4, FetchAssumption DEF TypeOK
<1>8. /\ queries' \in [Cids -> Nat] /\ queries'[c] > 0
      /\ \A d \in Cids \ {c} : queries'[d] = queries[d]
  BY DEF Fetch, TypeOK
<1>9. requests' = requests /\ caller'[w] = [step |-> "fetch", left |-> todo, reply |-> "none"]
  BY DEF Fetch
<1> QED
  BY <1>5, <1>6, <1>7, <1>8, <1>9

\* An answer removes the entry of c and reaches its waiter only.
LEMMA AnswerEffect ==
  ASSUME TypeOK, NEW c \in Cids, NEW r \in {"good", "error"}, Answer(c, r)
  PROVE  /\ pending' \in [Cids -> Entry \cup {None}]
         /\ caller' \in [Callers -> [step : Steps, left : Seq(Cids),
                                     reply : Contents \cup {"none", "error"}]]
         /\ pending'[c] = None
         /\ \A d \in Cids \ {c} : pending'[d] = pending[d]
         /\ \A v \in Callers :
              /\ caller'[v].step = caller[v].step /\ caller'[v].left = caller[v].left
              /\ caller'[v].reply = IF pending[c] # None /\ pending[c].waiter = v
                                    THEN r ELSE caller[v].reply
<1>1. CASE pending[c] = None
  BY <1>1 DEF Answer, TypeOK
<1>2. CASE pending[c] # None
  <2>1. pending[c].waiter \in Callers
    BY <1>2 DEF TypeOK, Entry
  <2>2. pending' = [pending EXCEPT ![c] = None]
    BY <1>2 DEF Answer
  <2>3. caller' = [v \in Callers |-> IF v = pending[c].waiter
                                    THEN [caller[v] EXCEPT !.reply = r] ELSE caller[v]]
    BY <1>2, <2>1 DEF Answer, TypeOK
  <2>4. \A v \in Callers : [caller[v] EXCEPT !.reply = r]
          \in [step : Steps, left : Seq(Cids), reply : Contents \cup {"none", "error"}]
    BY DEF TypeOK, Contents
  <2>5. caller' \in [Callers -> [step : Steps, left : Seq(Cids),
                                reply : Contents \cup {"none", "error"}]]
    BY <2>3, <2>4 DEF TypeOK
  <2>6. \A v \in Callers :
          /\ caller'[v].step = caller[v].step /\ caller'[v].left = caller[v].left
          /\ caller'[v].reply = IF pending[c].waiter = v THEN r ELSE caller[v].reply
    BY <2>3 DEF TypeOK
  <2> QED
    BY <1>2, <2>2, <2>5, <2>6 DEF TypeOK
<1> QED
  BY <1>1, <1>2

\* An event of the driver answers the waiter of c, or no waiter hears of it.
Answered(c) == \E r \in {"good", "error"} : Answer(c, r)
Unheard ==
  /\ caller' = caller
  /\ pending' \in [Cids -> Entry \cup {None}]
  /\ \A d \in Cids : (pending'[d] = None) <=> (pending[d] = None)
  /\ \A d \in Cids : pending[d] # None => pending'[d].waiter = pending[d].waiter

\* What becomes of the table when an entry is changed but not its waiter.
LEMMA EntryChanges ==
  ASSUME TypeOK, NEW c \in Cids, pending[c] # None, NEW e \in Entry,
         e.waiter = pending[c].waiter, pending' = [pending EXCEPT ![c] = e]
  PROVE  /\ pending' \in [Cids -> Entry \cup {None}]
         /\ pending'[c] = e /\ e # None
         /\ \A d \in Cids \ {c} : pending'[d] = pending[d]
         /\ \A d \in Cids : (pending'[d] = None) <=> (pending[d] = None)
         /\ \A d \in Cids : pending[d] # None => pending'[d].waiter = pending[d].waiter
  BY FetchAssumption DEF TypeOK

LEMMA SentEffect ==
  ASSUME NEW flight \in [Peers -> Nat], NEW peers \in SUBSET Peers
  PROVE  /\ Sent(flight, peers) \in [Peers -> Nat]
         /\ \A p \in Peers : Sent(flight, peers)[p] >= flight[p]
         /\ \A p \in peers : Sent(flight, peers)[p] > 0
  BY DEF Sent

LEMMA DoneEffect ==
  ASSUME NEW flight \in [Peers -> Nat], NEW p \in Peers, flight[p] > 0
  PROVE  Done(flight, p) \in [Peers -> Nat]
  BY DEF Done

\* FoundProviders tells nobody, and asks at most one peer more.
LEMMA FoundEffect ==
  ASSUME TypeOK, NEW c \in Cids, FoundProviders(c)
  PROVE  /\ Unheard /\ UNCHANGED <<queries, file, calls, crashes>>
         /\ requests' \in [Cids -> [Peers -> Nat]]
<1>1. PICK batch \in (SUBSET Peers) \ {{}} : \E asked \in AnyOf(batch \ pending[c].tried) :
        /\ pending' = [pending EXCEPT ![c] = Known(pending[c], batch, asked)]
        /\ requests' = [requests EXCEPT ![c] = Sent(requests[c], asked)]
  BY DEF FoundProviders
<1>2. PICK asked \in SUBSET Peers :
        /\ pending' = [pending EXCEPT ![c] = Known(pending[c], batch, asked)]
        /\ requests' = [requests EXCEPT ![c] = Sent(requests[c], asked)]
  BY <1>1 DEF AnyOf
<1>3. pending[c] \in Entry /\ pending[c] # None
  BY DEF TypeOK, FoundProviders
<1>4. requests' \in [Cids -> [Peers -> Nat]]
  BY <1>2, SentEffect DEF TypeOK
<1> DEFINE e == Known(pending[c], batch, asked)
<1>5. e \in Entry /\ e.waiter = pending[c].waiter
  BY <1>3 DEF Known, Entry
<1>6. pending' = [pending EXCEPT ![c] = e]
  BY <1>2
<1>7. UNCHANGED <<queries, caller, file, calls, crashes>>
  BY DEF FoundProviders
<1> HIDE DEF e
<1> QED
  BY <1>3, <1>4, <1>5, <1>6, <1>7, EntryChanges DEF Unheard

\* The end of a query answers the waiter or leaves the entry alone.
LEMMA QueryEffect ==
  ASSUME TypeOK, NEW c \in Cids, QueryEnds(c)
  PROVE  /\ Answered(c) \/ UNCHANGED <<pending, caller>>
         /\ queries' \in [Cids -> Nat]
         /\ \A d \in Cids \ {c} : queries'[d] = queries[d]
         /\ UNCHANGED <<requests, file, calls, crashes>>
<1>1. queries[c] > 0 /\ queries' = [queries EXCEPT ![c] = @ - 1]
  BY DEF QueryEnds, QueryFinished, QueryFailed
<1> QED
  BY <1>1 DEF QueryEnds, QueryFinished, QueryFailed, Answered, TypeOK

\* The end of a request answers the waiter, or leaves the entry with one more
\* provider asked.
LEMMA RequestEffect ==
  ASSUME TypeOK, NEW c \in Cids, NEW p \in Peers, RequestEnds(c, p)
  PROVE  /\ \/ Answered(c)
            \/ /\ Unheard /\ pending[c] # None
               /\ \A d \in Cids \ {c} : pending'[d] = pending[d]
               /\ \E q \in pending[c].found :
                    /\ pending'[c] = Known(pending[c], {}, {q})
                    /\ requests'[c][q] > 0
         /\ requests' \in [Cids -> [Peers -> Nat]]
         /\ \A d \in Cids \ {c} : requests'[d] = requests[d]
         /\ UNCHANGED <<queries, file, calls, crashes>>
<1>1. requests[c] \in [Peers -> Nat] /\ Done(requests[c], p) \in [Peers -> Nat]
  BY DoneEffect DEF TypeOK, RequestEnds, Response, RequestFailed
<1>2. UNCHANGED <<queries, file, calls, crashes>>
  BY DEF RequestEnds, Response, RequestFailed
<1>3. CASE /\ requests' = [requests EXCEPT ![c] = Done(requests[c], p)]
           /\ Answered(c)
  BY <1>1, <1>2, <1>3 DEF TypeOK
<1>4. CASE /\ pending[c] # None
           /\ \E q \in pending[c].found \ pending[c].tried :
                /\ pending' = [pending EXCEPT ![c] = Known(pending[c], {}, {q})]
                /\ requests' = [requests EXCEPT ![c] = Sent(Done(requests[c], p), {q})]
                /\ UNCHANGED caller
  <2>1. pending[c] \in Entry
    BY <1>4 DEF TypeOK
  <2>2. PICK q \in Peers :
          /\ q \in pending[c].found
          /\ pending' = [pending EXCEPT ![c] = Known(pending[c], {}, {q})]
          /\ requests' = [requests EXCEPT ![c] = Sent(Done(requests[c], p), {q})]
          /\ UNCHANGED caller
    BY <1>4, <2>1 DEF Entry
  <2> DEFINE e == Known(pending[c], {}, {q})
  <2>3. e \in Entry /\ e.waiter = pending[c].waiter
    BY <2>1 DEF Known, Entry
  <2>4. /\ Sent(Done(requests[c], p), {q}) \in [Peers -> Nat]
        /\ Sent(Done(requests[c], p), {q})[q] > 0
    BY <1>1, SentEffect
  <2>5. pending' = [pending EXCEPT ![c] = e]
    BY <2>2
  <2> HIDE DEF e
  <2>6. Unheard /\ pending'[c] = e /\ \A d \in Cids \ {c} : pending'[d] = pending[d]
    BY <1>4, <2>2, <2>3, <2>5, EntryChanges DEF Unheard
  <2>7. /\ requests' \in [Cids -> [Peers -> Nat]] /\ requests'[c][q] > 0
        /\ \A d \in Cids \ {c} : requests'[d] = requests[d]
    BY <2>2, <2>4 DEF TypeOK
  <2> QED
    BY <1>2, <1>4, <2>2, <2>6, <2>7 DEF e
<1>5. ASSUME NEW r \in Replies
      PROVE  (IF Verified(c, r) THEN r ELSE "error") \in {"good", "error"}
  BY DEF Verified
<1>6. CASE RequestFailed(c, p)
  BY <1>3, <1>6 DEF RequestFailed, Answered
<1>7. CASE Response(c, p)
  <2>1. PICK r \in Replies :
          IF r = "not_found" /\ pending[c] # None THEN AskNext(c, p)
          ELSE /\ requests' = [requests EXCEPT ![c] = Done(requests[c], p)]
               /\ Answer(c, IF Verified(c, r) THEN r ELSE "error")
    BY <1>7 DEF Response
  <2>2. CASE ~(r = "not_found" /\ pending[c] # None)
    BY <1>3, <1>5, <2>1, <2>2 DEF Answered
  <2>3. CASE r = "not_found" /\ pending[c] # None
    BY <1>3, <1>4, <2>1, <2>3 DEF AskNext, Answered
  <2> QED
    BY <2>2, <2>3
<1> QED
  BY <1>6, <1>7 DEF RequestEnds

-----------------------------------------------------------------------------
(* The driver's events keep the invariant                                     *)

Callings == [step : Steps, left : Seq(Cids), reply : Contents \cup {"none", "error"}]

\* What an event of the driver does to callers and entries keeps all but the
\* counts of queries and requests.
LEMMA HeardKeeps ==
  ASSUME TypeOK, Pairs, StepsOK, ProgressKept, NEW c \in Cids,
         Answered(c) \/ Unheard \/ UNCHANGED <<pending, caller>>, file' = file
  PROVE  /\ pending' \in [Cids -> Entry \cup {None}] /\ caller' \in [Callers -> Callings]
         /\ Pairs' /\ StepsOK' /\ ProgressKept'
<1>1. CASE Unheard \/ UNCHANGED <<pending, caller>>
  <2>1. /\ caller' = caller
        /\ pending' \in [Cids -> Entry \cup {None}]
        /\ \A d \in Cids : (pending'[d] = None) <=> (pending[d] = None)
        /\ \A d \in Cids : pending[d] # None => pending'[d].waiter = pending[d].waiter
    BY <1>1 DEF Unheard, TypeOK
  <2>2. Pairs'
    <3>1. \A w \in Callers, d \in Cids : Awaits(w, d)' <=> Awaits(w, d)
      BY <2>1 DEF Awaits, Waiting
    <3>2. ASSUME NEW w \in Callers, NEW d \in Cids PROVE Serves(d, w)' <=> Serves(d, w)
      <4>1. CASE pending[d] = None
        BY <2>1, <4>1 DEF Serves
      <4>2. CASE pending[d] # None
        BY <2>1, <4>2 DEF Serves
      <4> QED
        BY <4>1, <4>2
    <3> QED
      BY <3>1, <3>2 DEF Pairs
  <2>3. caller' \in [Callers -> Callings] /\ StepsOK'
    BY <2>1 DEF StepsOK, TypeOK, Callings
  <2>4. \A w \in Callers : Behind(w)' <=> Behind(w)
    BY <2>1 DEF Behind
  <2>5. \A w \in Callers : \A x : Left(w, x)' <=> Left(w, x)
    BY <2>1 DEF Left
  <2>6. ProgressKept'
    BY <2>4, <2>5 DEF ProgressKept
  <2> QED
    BY <2>1, <2>2, <2>3, <2>6
<1>2. CASE Answered(c)
  <2>1. PICK r \in {"good", "error"} : Answer(c, r)
    BY <1>2 DEF Answered
  <2>2. /\ pending' \in [Cids -> Entry \cup {None}] /\ caller' \in [Callers -> Callings]
        /\ pending'[c] = None
        /\ \A d \in Cids \ {c} : pending'[d] = pending[d]
        /\ \A v \in Callers :
             /\ caller'[v].step = caller[v].step /\ caller'[v].left = caller[v].left
             /\ caller'[v].reply = IF pending[c] # None /\ pending[c].waiter = v
                                   THEN r ELSE caller[v].reply
    BY <2>1, AnswerEffect DEF Callings
  <2>3. ASSUME NEW w \in Callers, NEW d \in Cids
        PROVE  Awaits(w, d)' <=> Serves(d, w)'
    <3>1. Awaits(w, d) <=> Serves(d, w)
      BY DEF Pairs
    <3>2. Awaits(w, c) <=> Serves(c, w)
      BY DEF Pairs
    <3>3. Awaits(w, d)' <=> Awaits(w, d) /\ ~Serves(c, w)
      BY <2>2 DEF Awaits, Serves, Waiting
    <3>4. Serves(d, w)' <=> Serves(d, w) /\ d # c
      BY <2>2 DEF Serves
    <3> QED
      BY <3>1, <3>2, <3>3, <3>4 DEF Awaits
  <2>4. StepsOK'
    <3>1. ASSUME NEW w \in Callers
          PROVE  /\ caller'[w].reply \in {"none", "good", "error"}
                 /\ caller'[w].step \in {"fetch", "saving"} => caller'[w].left # <<>>
                 /\ caller'[w].step = "saving" => caller'[w].reply = "good"
      BY <2>2 DEF StepsOK, Pairs, Awaits, Serves, Waiting
    <3> QED
      BY <3>1 DEF StepsOK
  <2>5. ProgressKept'
    <3>1. \A w \in Callers : (Behind(w)' <=> Behind(w))
      BY <2>2 DEF Behind
    <3>2. \A w \in Callers : \A x : (Left(w, x)' <=> Left(w, x))
      BY <2>2 DEF Left
    <3> QED
      BY <3>1, <3>2 DEF ProgressKept
  <2>6. Pairs'
    BY <2>3 DEF Pairs
  <2> QED
    BY <2>2, <2>4, <2>5, <2>6
<1> QED
  BY <1>1, <1>2

LEMMA FoundStep == ASSUME FetchInv, NEW c \in Cids, FoundProviders(c) PROVE FetchInv'
<1> USE DEF FetchInv
<1>1. /\ Unheard /\ UNCHANGED <<queries, file, calls, crashes>>
      /\ requests' \in [Cids -> [Peers -> Nat]]
  BY FoundEffect
<1>2. /\ pending' \in [Cids -> Entry \cup {None}] /\ caller' \in [Callers -> Callings]
      /\ Pairs' /\ StepsOK' /\ ProgressKept'
  BY <1>1, HeardKeeps
<1>3. TypeOK'
  BY <1>1, <1>2 DEF TypeOK, Callings
<1>4. PICK batch \in (SUBSET Peers) \ {{}} : \E asked \in AnyOf(batch \ pending[c].tried) :
        /\ pending' = [pending EXCEPT ![c] = Known(pending[c], batch, asked)]
        /\ requests' = [requests EXCEPT ![c] = Sent(requests[c], asked)]
  BY DEF FoundProviders
<1>5. PICK asked \in AnyOf(batch \ pending[c].tried) :
        /\ pending' = [pending EXCEPT ![c] = Known(pending[c], batch, asked)]
        /\ requests' = [requests EXCEPT ![c] = Sent(requests[c], asked)]
  BY <1>4
<1>6. /\ asked \subseteq batch /\ batch \subseteq Peers /\ batch # {}
      /\ asked = {} => batch \subseteq pending[c].tried
  BY <1>5 DEF AnyOf
<1>7. pending[c] \in Entry /\ pending[c] # None /\ EntryOK(c)
  BY DEF TypeOK, FoundProviders, EntriesOK
<1>8. /\ pending'[c].found = pending[c].found \cup batch
      /\ pending'[c].tried = pending[c].tried \cup asked
      /\ pending'[c].found # {}
  BY <1>5, <1>6, <1>7 DEF TypeOK, Known, Entry
<1>9. requests[c] \in [Peers -> Nat] /\ requests'[c] = Sent(requests[c], asked)
  BY <1>5 DEF TypeOK
<1>10. \E p \in Peers : requests'[c][p] > 0
  <2>1. CASE asked = {}
    <3>1. PICK p \in Peers : requests[c][p] > 0
      BY <1>6, <1>7, <2>1 DEF EntryOK
    <3> QED
      BY <1>9, <3>1 DEF Sent
  <2>2. CASE asked # {}
    BY <1>6, <1>9, <2>2 DEF Sent
  <2> QED
    BY <2>1, <2>2
<1>11. EntryOK(c)'
  BY <1>6, <1>7, <1>8, <1>10 DEF EntryOK
<1>12. ASSUME NEW d \in Cids \ {c} PROVE EntryOK(d)'
  <2>1. pending'[d] = pending[d] /\ requests'[d] = requests[d] /\ queries' = queries
    BY <1>1, <1>5 DEF TypeOK
  <2> QED
    BY <2>1 DEF EntriesOK, EntryOK
<1> QED
  BY <1>2, <1>3, <1>11, <1>12 DEF EntriesOK

\* An entry that is answered is gone; the others do not change.
LEMMA AnsweredKeepsEntries ==
  ASSUME TypeOK, EntriesOK, NEW c \in Cids, Answered(c),
         \A d \in Cids \ {c} : queries'[d] = queries[d] /\ requests'[d] = requests[d]
  PROVE  EntriesOK'
<1>1. PICK r \in {"good", "error"} : Answer(c, r)
  BY DEF Answered
<1>2. pending'[c] = None /\ \A d \in Cids \ {c} : pending'[d] = pending[d]
  BY <1>1, AnswerEffect
<1> QED
  BY <1>2 DEF EntriesOK, EntryOK

LEMMA QueryStep == ASSUME FetchInv, NEW c \in Cids, QueryEnds(c) PROVE FetchInv'
<1> USE DEF FetchInv
<1>1. /\ Answered(c) \/ UNCHANGED <<pending, caller>>
      /\ queries' \in [Cids -> Nat]
      /\ \A d \in Cids \ {c} : queries'[d] = queries[d]
      /\ UNCHANGED <<requests, file, calls, crashes>>
  BY QueryEffect
<1>2. /\ pending' \in [Cids -> Entry \cup {None}] /\ caller' \in [Callers -> Callings]
      /\ Pairs' /\ StepsOK' /\ ProgressKept'
  BY <1>1, HeardKeeps
<1>3. TypeOK'
  BY <1>1, <1>2 DEF TypeOK, Callings
<1>4. CASE Answered(c)
  BY <1>1, <1>2, <1>3, <1>4, AnsweredKeepsEntries
<1>5. CASE UNCHANGED <<pending, caller>> /\ ~Answered(c)
  <2>1. pending[c] # None => pending[c].found # {}
    BY <1>5 DEF QueryEnds, QueryFinished, QueryFailed, Answered
  <2>2. EntriesOK'
    BY <1>1, <1>5, <2>1 DEF EntriesOK, EntryOK
  <2> QED
    BY <1>2, <1>3, <2>2
<1> QED
  BY <1>1, <1>4, <1>5

LEMMA RequestStep ==
  ASSUME FetchInv, NEW c \in Cids, NEW p \in Peers, RequestEnds(c, p)
  PROVE  FetchInv'
<1> USE DEF FetchInv
<1>1. /\ \/ Answered(c)
         \/ /\ Unheard /\ pending[c] # None
            /\ \A d \in Cids \ {c} : pending'[d] = pending[d]
            /\ \E q \in pending[c].found :
                 /\ pending'[c] = Known(pending[c], {}, {q})
                 /\ requests'[c][q] > 0
      /\ requests' \in [Cids -> [Peers -> Nat]]
      /\ \A d \in Cids \ {c} : requests'[d] = requests[d]
      /\ UNCHANGED <<queries, file, calls, crashes>>
  BY RequestEffect
<1>2. /\ pending' \in [Cids -> Entry \cup {None}] /\ caller' \in [Callers -> Callings]
      /\ Pairs' /\ StepsOK' /\ ProgressKept'
  BY <1>1, HeardKeeps
<1>3. TypeOK'
  BY <1>1, <1>2 DEF TypeOK, Callings
<1>4. CASE Answered(c)
  BY <1>1, <1>2, <1>3, <1>4, AnsweredKeepsEntries
<1>5. CASE ~Answered(c)
  <2>1. PICK q \in pending[c].found :
          /\ pending'[c] = Known(pending[c], {}, {q})
          /\ requests'[c][q] > 0
    BY <1>1, <1>5
  <2>2. pending[c] \in Entry /\ EntryOK(c) /\ pending[c] # None
    BY <1>1, <1>5 DEF TypeOK, EntriesOK
  <2>3. /\ q \in Peers
        /\ pending'[c].found = pending[c].found
        /\ pending'[c].tried = pending[c].tried \cup {q}
    BY <2>1, <2>2 DEF Known, Entry
  <2>4. EntryOK(c)'
    BY <2>1, <2>2, <2>3 DEF EntryOK
  <2>5. \A d \in Cids \ {c} : EntryOK(d)'
    BY <1>1, <1>5 DEF EntriesOK, EntryOK
  <2> QED
    BY <1>2, <1>3, <2>4, <2>5 DEF EntriesOK
<1> QED
  BY <1>4, <1>5

-----------------------------------------------------------------------------
(* The callers' steps keep the invariant                                      *)

\* A caller outside of Node::fetch asks for the first chunk it has left.
LEMMA FetchStep ==
  ASSUME FetchInv, NEW w \in Callers, NEW c \in Cids, NEW todo \in Seq(Cids),
         caller[w].step # "fetch", todo # <<>>, Head(todo) = c, Fetch(w, c, todo),
         c = Manifest \/ (caller[w].step = "next" /\ todo = caller[w].left),
         file' = file, calls' \in Nat, crashes' = crashes
  PROVE  FetchInv'
<1> USE DEF FetchInv
<1>1. /\ pending' \in [Cids -> Entry \cup {None}]
      /\ queries' \in [Cids -> Nat]
      /\ requests' = requests
      /\ caller' \in [Callers -> Callings]
      /\ caller'[w] = [step |-> "fetch", left |-> todo, reply |-> "none"]
      /\ pending'[c] = [found |-> {}, tried |-> {}, waiter |-> w]
      /\ pending'[c] \in Entry /\ pending'[c] # None
      /\ queries'[c] > 0
      /\ \A d \in Cids \ {c} : pending'[d] = pending[d] /\ queries'[d] = queries[d]
      /\ \A v \in Callers \ {w} :
           /\ caller'[v].step = caller[v].step /\ caller'[v].left = caller[v].left
           /\ caller'[v].reply = IF pending[c] # None /\ pending[c].waiter = v
                                 THEN "error" ELSE caller[v].reply
  BY FetchEffect DEF Callings
<1>2. TypeOK'
  BY <1>1 DEF TypeOK, Callings
<1>3. ASSUME NEW v \in Callers, NEW d \in Cids
      PROVE  Awaits(v, d)' <=> Serves(d, v)'
  <2>1. (Awaits(v, d) <=> Serves(d, v)) /\ (Awaits(v, c) <=> Serves(c, v))
    BY DEF Pairs
  <2>2. CASE v = w
    <3>1. ~Awaits(w, d)
      BY DEF Awaits, Waiting
    <3>2. Awaits(w, d)' <=> d = c
      BY <1>1 DEF Awaits, Waiting
    <3>3. Serves(d, w)' <=> d = c
      BY <1>1, <2>1, <2>2, <3>1 DEF Serves
    <3> QED
      BY <2>2, <3>2, <3>3
  <2>3. CASE v # w
    <3>1. Awaits(v, d)' <=> Awaits(v, d) /\ ~Serves(c, v)
      BY <1>1, <2>3 DEF Awaits, Serves, Waiting
    <3>2. Serves(d, v)' <=> Serves(d, v) /\ d # c
      BY <1>1, <2>3 DEF Serves
    <3> QED
      BY <2>1, <3>1, <3>2 DEF Awaits
  <2> QED
    BY <2>2, <2>3
<1>4. Pairs'
  BY <1>3 DEF Pairs
<1>5. ASSUME NEW d \in Cids PROVE EntryOK(d)'
  <2>1. CASE d = c
    BY <1>1, <2>1 DEF EntryOK
  <2>2. CASE d # c
    <3>1. pending'[d] = pending[d] /\ queries'[d] = queries[d] /\ requests' = requests
      BY <1>1, <2>2
    <3> QED
      BY <3>1 DEF EntryOK, EntriesOK
  <2> QED
    BY <2>1, <2>2
<1>6. StepsOK'
  <2>1. ASSUME NEW v \in Callers
        PROVE  /\ caller'[v].reply \in {"none", "good", "error"}
               /\ caller'[v].step \in {"fetch", "saving"} => caller'[v].left # <<>>
               /\ caller'[v].step = "saving" => caller'[v].reply = "good"
    <3>1. CASE v = w
      BY <1>1, <3>1
    <3>2. CASE v # w
      BY <1>1, <3>2 DEF StepsOK, Pairs, Awaits, Serves, Waiting
    <3> QED
      BY <3>1, <3>2
  <2> QED
    BY <2>1 DEF StepsOK
<1>7. ASSUME NEW v \in Callers, Behind(v)'
      PROVE  /\ file'[v][Manifest] = "good"
             /\ \A i \in 1 .. Len(Plan[v]) :
                  file'[v][Plan[v][i]] = "good" \/ Left(v, Plan[v][i])'
  <2>1. CASE v = w
    <3>1. c # Manifest
      BY <1>1, <1>7, <2>1 DEF Behind
    <3>2. Behind(w) /\ \A x : Left(w, x)' <=> Left(w, x)
      BY <1>1, <3>1 DEF Behind, Left
    <3> QED
      BY <2>1, <3>2 DEF ProgressKept
  <2>2. CASE v # w
    <3>1. Behind(v) /\ \A x : Left(v, x)' <=> Left(v, x)
      BY <1>1, <1>7, <2>2 DEF Behind, Left
    <3> QED
      BY <3>1 DEF ProgressKept
  <2> QED
    BY <2>1, <2>2
<1> QED
  BY <1>2, <1>4, <1>5, <1>6, <1>7 DEF EntriesOK, ProgressKept

\* A caller that is not in Node::fetch, and does not get there, moves alone.
LEMMA MoveStep ==
  ASSUME FetchInv, NEW w \in Callers, NEW to \in Callings,
         UNCHANGED <<driver, calls, crashes>>, ~Waiting(w),
         caller' = [caller EXCEPT ![w] = to], to.step # "fetch",
         to.reply \in {"none", "good", "error"},
         to.step = "saving" => to.left # <<>> /\ to.reply = "good",
         file' \in [Callers -> [Cids -> Contents \cup {"absent"}]],
         \A v \in Callers \ {w} : file'[v] = file[v],
         Behind(w)' => /\ file'[w][Manifest] = "good"
                       /\ \A i \in 1 .. Len(Plan[w]) :
                            file'[w][Plan[w][i]] = "good" \/ Left(w, Plan[w][i])'
  PROVE  FetchInv'
<1> USE DEF FetchInv
<1>1. /\ caller' \in [Callers -> Callings] /\ caller'[w] = to
      /\ \A v \in Callers \ {w} : caller'[v] = caller[v]
      /\ UNCHANGED <<pending, queries, requests>>
  BY DEF TypeOK, Callings, driver
<1>2. TypeOK'
  BY <1>1 DEF TypeOK, Callings
<1>3. Pairs'
  <2>1. ASSUME NEW v \in Callers, NEW d \in Cids
        PROVE  (Awaits(v, d)' <=> Awaits(v, d)) /\ (Serves(d, v)' <=> Serves(d, v))
    BY <1>1 DEF Awaits, Serves, Waiting
  <2> QED
    BY <2>1 DEF Pairs
<1>4. EntriesOK'
  BY <1>1 DEF EntriesOK, EntryOK
<1>5. StepsOK'
  <2>1. ASSUME NEW v \in Callers
        PROVE  /\ caller'[v].reply \in {"none", "good", "error"}
               /\ caller'[v].step \in {"fetch", "saving"} => caller'[v].left # <<>>
               /\ caller'[v].step = "saving" => caller'[v].reply = "good"
    BY <1>1 DEF StepsOK
  <2> QED
    BY <2>1 DEF StepsOK
<1>6. ASSUME NEW v \in Callers \ {w}, Behind(v)'
      PROVE  /\ file'[v][Manifest] = "good"
             /\ \A i \in 1 .. Len(Plan[v]) :
                  file'[v][Plan[v][i]] = "good" \/ Left(v, Plan[v][i])'
  <2>1. Behind(v) /\ \A x : Left(v, x)' <=> Left(v, x)
    BY <1>1, <1>6 DEF Behind, Left
  <2> QED
    BY <2>1 DEF ProgressKept
<1>7. ProgressKept'
  BY <1>6 DEF ProgressKept
<1> QED
  BY <1>2, <1>3, <1>4, <1>5, <1>7

LEMMA EndStep ==
  ASSUME FetchInv, NEW w \in Callers, ~Waiting(w), End(w, "failed"),
         UNCHANGED <<driver, file, calls, crashes>>
  PROVE  FetchInv'
<1> DEFINE to == AtRest("failed")
<1>1. to \in Callings /\ to.step = "failed" /\ to.reply = "none"
  BY DEF AtRest, Callings, Steps
<1>2. caller' = [caller EXCEPT ![w] = to]
  BY DEF End
<1>3. ~Behind(w)'
  BY <1>1, <1>2 DEF Behind, FetchInv, TypeOK
<1> HIDE DEF to
<1> QED
  BY <1>1, <1>2, <1>3, MoveStep DEF FetchInv, TypeOK

LEMMA TakeReplyStep == ASSUME FetchInv, NEW w \in Callers, TakeReply(w) PROVE FetchInv'
<1> USE DEF FetchInv
<1>1. ~Waiting(w) /\ caller[w].step = "fetch"
  BY DEF TakeReply, Replied, Waiting
<1>2. CASE End(w, "failed") /\ UNCHANGED file
  BY <1>1, <1>2, EndStep DEF TakeReply
<1>3. CASE /\ caller[w].reply # "error"
           /\ caller' = [caller EXCEPT ![w].step = "saving"]
           /\ file' = IF Head(caller[w].left) = Manifest
                      THEN [file EXCEPT ![w][Manifest] = "short"] ELSE file
  <2> DEFINE to == [caller[w] EXCEPT !.step = "saving"]
  <2>1. /\ to \in Callings /\ to.step = "saving" /\ to.reply = "good"
        /\ to.left = caller[w].left /\ to.left # <<>>
    BY <1>1, <1>3 DEF TypeOK, Callings, Steps, StepsOK, TakeReply, Replied
  <2>2. caller' = [caller EXCEPT ![w] = to] /\ caller'[w] = to
    BY <1>3 DEF TypeOK
  <2>3. file' \in [Callers -> [Cids -> Contents \cup {"absent"}]]
    BY <1>3 DEF TypeOK, Cids, Contents
  <2>4. \A v \in Callers \ {w} : file'[v] = file[v]
    BY <1>3 DEF TypeOK
  <2> HIDE DEF to
  <2>5. ASSUME Behind(w)'
        PROVE  /\ file'[w][Manifest] = "good"
               /\ \A i \in 1 .. Len(Plan[w]) :
                    file'[w][Plan[w][i]] = "good" \/ Left(w, Plan[w][i])'
    <3>1. Head(caller[w].left) # Manifest
      BY <2>1, <2>2, <2>5 DEF Behind
    <3>2. Behind(w) /\ file' = file
      BY <1>1, <1>3, <3>1 DEF Behind
    <3>3. \A x : Left(w, x) <=> Left(w, x)'
      BY <1>1, <2>1, <2>2 DEF Left
    <3> QED
      BY <3>2, <3>3 DEF ProgressKept
  <2>6. UNCHANGED <<driver, calls, crashes>>
    BY DEF TakeReply
  <2> QED
    BY <1>1, <2>1, <2>2, <2>3, <2>4, <2>5, <2>6, MoveStep
<1> QED
  BY <1>2, <1>3 DEF TakeReply

\* What is left behind the first chunk.
LEMMA TailOf ==
  ASSUME NEW S, NEW q \in Seq(S), q # <<>>
  PROVE  /\ Tail(q) \in Seq(S) /\ Head(q) \in S
         /\ \A j \in 1 .. Len(q) : q[j] = Head(q) \/ \E k \in 1 .. Len(Tail(q)) : Tail(q)[k] = q[j]
<1>1. ASSUME NEW j \in 1 .. Len(q), j # 1
      PROVE  j - 1 \in 1 .. Len(Tail(q)) /\ Tail(q)[j - 1] = q[j]
  BY <1>1
<1> QED
  BY <1>1

LEMMA SavedStep == ASSUME FetchInv, NEW w \in Callers, Saved(w) PROVE FetchInv'
<1> USE DEF FetchInv
<1> DEFINE c == Head(caller[w].left)
           to == [step |-> "next", reply |-> "none",
                  left |-> IF c = Manifest THEN Plan[w] ELSE Tail(caller[w].left)]
<1>1. /\ caller[w].step = "saving" /\ caller[w].reply = "good"
      /\ caller[w].left # <<>> /\ caller[w].left \in Seq(Cids)
  BY DEF Saved, StepsOK, TypeOK
<1>2. c \in Cids /\ Tail(caller[w].left) \in Seq(Cids)
  BY <1>1, TailOf
<1>3. to \in Callings
  BY <1>2, PlanTyped DEF Callings, Steps
<1>5. caller' = [caller EXCEPT ![w] = to]
  BY DEF Saved
<1>6. /\ file' = [file EXCEPT ![w][c] = "good"]
      /\ file' \in [Callers -> [Cids -> Contents \cup {"absent"}]]
      /\ \A v \in Callers \ {w} : file'[v] = file[v]
      /\ file'[w][c] = "good" /\ \A d \in Cids \ {c} : file'[w][d] = file[w][d]
  <2>1. file' = [file EXCEPT ![w][c] = "good"]
    BY <1>1 DEF Saved
  <2> HIDE DEF c
  <2> QED
    BY <1>2, <2>1 DEF TypeOK, Contents
<1>7. ~Waiting(w) /\ UNCHANGED <<driver, calls, crashes>>
  BY <1>1 DEF Waiting, Saved
<1>8. caller'[w] = to
  BY <1>5 DEF TypeOK
<1>9. file'[w][Manifest] = "good"
  BY <1>1, <1>6 DEF ProgressKept, Behind, Cids
<1>10. ASSUME NEW i \in 1 .. Len(Plan[w])
       PROVE  file'[w][Plan[w][i]] = "good" \/ Left(w, Plan[w][i])'
  <2>1. Plan[w][i] \in Cids
    BY PlanTyped
  <2>2. CASE c = Manifest
    BY <1>8, <2>2 DEF Left
  <2>3. CASE c # Manifest
    <3>1. file[w][Plan[w][i]] = "good" \/ Left(w, Plan[w][i])
      BY <1>1, <2>3 DEF ProgressKept, Behind
    <3>2. CASE file[w][Plan[w][i]] = "good" \/ Plan[w][i] = c
      BY <1>6, <2>1, <3>2
    <3>3. CASE Left(w, Plan[w][i]) /\ Plan[w][i] # c
      <4>1. \E k \in 1 .. Len(Tail(caller[w].left)) : Tail(caller[w].left)[k] = Plan[w][i]
        BY <1>1, <3>3, TailOf DEF Left
      <4> QED
        BY <1>8, <2>3, <4>1 DEF Left
    <3> QED
      BY <3>1, <3>2, <3>3
  <2> QED
    BY <2>2, <2>3
<1>11. to.step = "next" /\ to.reply = "none"
  OBVIOUS
<1> HIDE DEF to, c
<1> QED
  BY <1>3, <1>5, <1>6, <1>7, <1>9, <1>10, <1>11, MoveStep

LEMMA NextChunkStep == ASSUME FetchInv, NEW w \in Callers, NextChunk(w) PROVE FetchInv'
<1> USE DEF FetchInv
<1>1. /\ caller[w].step = "next" /\ ~Waiting(w) /\ Behind(w)
      /\ caller[w] \in Callings /\ caller[w].left \in Seq(Cids)
      /\ caller[w].reply \in {"none", "good", "error"}
      /\ UNCHANGED <<file, calls, crashes>>
  BY DEF NextChunk, Waiting, Behind, TypeOK, Callings, StepsOK
<1>2. /\ file[w][Manifest] = "good"
      /\ \A i \in 1 .. Len(Plan[w]) : file[w][Plan[w][i]] = "good" \/ Left(w, Plan[w][i])
  BY <1>1 DEF ProgressKept
<1>3. file' \in [Callers -> [Cids -> Contents \cup {"absent"}]]
      /\ \A v \in Callers \ {w} : file'[v] = file[v]
  BY <1>1 DEF TypeOK
<1>4. CASE caller[w].left = <<>>
  <2> DEFINE to == AtRest("ok")
  <2>1. to \in Callings /\ to.step = "ok" /\ to.reply = "none"
    BY DEF AtRest, Callings, Steps
  <2>2. caller' = [caller EXCEPT ![w] = to] /\ UNCHANGED driver
    BY <1>4 DEF NextChunk, End
  <2>3. \A i \in 1 .. Len(Plan[w]) : file[w][Plan[w][i]] = "good"
    BY <1>2, <1>4 DEF Left
  <2> HIDE DEF to
  <2> QED
    BY <1>1, <1>2, <1>3, <2>1, <2>2, <2>3, MoveStep
<1>5. CASE caller[w].left # <<>> /\ Reusable(w, Head(caller[w].left))
  <2> DEFINE to == [caller[w] EXCEPT !.left = Tail(caller[w].left)]
  <2>1. to \in Callings /\ to.step = "next" /\ to.reply = caller[w].reply
        /\ to.left = Tail(caller[w].left)
    BY <1>1, <1>5, TailOf DEF Callings
  <2>2. caller' = [caller EXCEPT ![w] = to] /\ UNCHANGED driver
    BY <1>5 DEF NextChunk
  <2>3. caller'[w] = to
    BY <2>2 DEF TypeOK
  <2> HIDE DEF to
  <2>4. ASSUME NEW i \in 1 .. Len(Plan[w])
        PROVE  file'[w][Plan[w][i]] = "good" \/ Left(w, Plan[w][i])'
    <3>1. CASE file[w][Plan[w][i]] = "good" \/ Plan[w][i] = Head(caller[w].left)
      BY <1>1, <1>5, <3>1 DEF Reusable
    <3>2. CASE Left(w, Plan[w][i]) /\ Plan[w][i] # Head(caller[w].left)
      <4>1. \E k \in 1 .. Len(Tail(caller[w].left)) : Tail(caller[w].left)[k] = Plan[w][i]
        BY <1>1, <1>5, <3>2, TailOf DEF Left
      <4> QED
        BY <2>1, <2>3, <4>1 DEF Left
    <3> QED
      BY <1>2, <3>1, <3>2
  <2> QED
    BY <1>1, <1>2, <1>3, <2>1, <2>2, <2>4, MoveStep
<1>6. CASE caller[w].left # <<>> /\ ~Reusable(w, Head(caller[w].left))
  <2>1. Fetch(w, Head(caller[w].left), caller[w].left)
    BY <1>6 DEF NextChunk
  <2>2. Head(caller[w].left) \in Cids
    BY <1>1, <1>6, TailOf
  <2>3. calls' \in Nat
    BY <1>1 DEF TypeOK
  <2> QED
    BY <1>1, <1>6, <2>1, <2>2, <2>3, FetchStep
<1> QED
  BY <1>4, <1>5, <1>6

LEMMA CallStep == ASSUME FetchInv, NEW w \in Callers, Call(w) PROVE FetchInv'
<1>1. /\ Manifest \in Cids /\ <<Manifest>> \in Seq(Cids)
      /\ <<Manifest>> # <<>> /\ Head(<<Manifest>>) = Manifest
  BY DEF Cids
<1>2. /\ Fetch(w, Manifest, <<Manifest>>) /\ caller[w].step # "fetch"
      /\ file' = file /\ calls' \in Nat /\ crashes' = crashes
  BY DEF Call, FetchInv, TypeOK
<1> QED
  BY <1>1, <1>2, FetchStep

LEMMA CallFailsStep == ASSUME FetchInv, NEW w \in Callers, CallFails(w) PROVE FetchInv'
  BY EndStep DEF CallFails, Waiting

\* A start from nothing, at first and after a crash.
LEMMA StartOK ==
  ASSUME pending = [c \in Cids |-> None], queries = [c \in Cids |-> 0],
         requests = [c \in Cids |-> [p \in Peers |-> 0]],
         caller = [w \in Callers |-> AtRest("idle")],
         file \in [Callers -> [Cids -> Contents \cup {"absent"}]],
         calls \in Nat, crashes \in Nat
  PROVE  FetchInv
<1>1. AtRest("idle") \in Callings
  BY DEF AtRest, Callings, Steps
<1>2. TypeOK
  BY <1>1 DEF TypeOK, Callings
<1>3. Pairs
  BY DEF Pairs, Awaits, Serves, Waiting, AtRest
<1>4. EntriesOK /\ StepsOK
  BY DEF EntriesOK, EntryOK, StepsOK, AtRest
<1>5. ProgressKept
  BY DEF ProgressKept, Behind, AtRest
<1> QED
  BY <1>2, <1>3, <1>4, <1>5 DEF FetchInv

LEMMA FetchInit == Init => FetchInv
<1> SUFFICES ASSUME Init PROVE FetchInv
  OBVIOUS
<1>1. file \in [Callers -> [Cids -> Contents \cup {"absent"}]]
  BY DEF Init, Contents
<1> QED
  BY <1>1, StartOK DEF Init

LEMMA CrashStep == FetchInv /\ Crash => FetchInv'
<1> SUFFICES ASSUME FetchInv, Crash PROVE FetchInv'
  OBVIOUS
<1>1. AtRest("idle") \in Callings
  BY DEF AtRest, Callings, Steps
<1>2. TypeOK'
  BY <1>1 DEF FetchInv, Crash, TypeOK, Callings
<1>3. Pairs'
  BY DEF Crash, Pairs, Awaits, Serves, Waiting, AtRest
<1>4. EntriesOK' /\ StepsOK'
  BY DEF Crash, EntriesOK, EntryOK, StepsOK, AtRest
<1>5. ProgressKept'
  BY DEF Crash, ProgressKept, Behind, AtRest
<1> QED
  BY <1>2, <1>3, <1>4, <1>5 DEF FetchInv

LEMMA StutterStep == FetchInv /\ UNCHANGED vars => FetchInv'
<1> SUFFICES ASSUME FetchInv, UNCHANGED vars PROVE FetchInv'
  OBVIOUS
<1>1. UNCHANGED <<pending, queries, requests, caller, file, calls, crashes>>
  BY DEF vars, driver
<1>2. TypeOK'
  BY <1>1 DEF FetchInv, TypeOK
<1>3. Pairs'
  BY <1>1 DEF FetchInv, Pairs, Awaits, Serves, Waiting
<1>4. EntriesOK' /\ StepsOK'
  BY <1>1 DEF FetchInv, EntriesOK, EntryOK, StepsOK
<1>5. ProgressKept'
  BY <1>1 DEF FetchInv, ProgressKept, Behind, Left
<1> QED
  BY <1>2, <1>3, <1>4, <1>5 DEF FetchInv

LEMMA FetchNext == FetchInv /\ [Next]_vars => FetchInv'
<1> SUFFICES ASSUME FetchInv, [Next]_vars PROVE FetchInv'
  OBVIOUS
<1>1. CASE \E c \in Cids : FoundProviders(c) \/ QueryEnds(c)
  BY <1>1, FoundStep, QueryStep
<1>2. CASE \E c \in Cids, p \in Peers : RequestEnds(c, p)
  BY <1>2, RequestStep
<1>3. CASE \E w \in Callers : Call(w) \/ CallFails(w) \/ CallerStep(w)
  BY <1>3, CallStep, CallFailsStep, TakeReplyStep, SavedStep, NextChunkStep DEF CallerStep
<1>4. CASE Crash
  BY <1>4, CrashStep
<1>5. CASE UNCHANGED vars
  BY <1>5, StutterStep
<1> QED
  BY <1>1, <1>2, <1>3, <1>4, <1>5 DEF Next

-----------------------------------------------------------------------------
(* Theorems                                                                   *)

\* For any callers, plans, peers and bounds: a fetch without an answer is the one
\* its chunk's entry will answer, and something is under way that will (Command::
\* Fetch, the events of drive_swarm).
THEOREM FetchServesWaiters == Spec => []WaitersServed
<1>1. Spec => []FetchInv
  BY FetchInit, FetchNext, PTL DEF Spec
<1> QED
  BY <1>1, InvServesWaiters, PTL

\* A call that returned Ok has all of its plan in the cache, whole and verified
\* (fetch_manifest_and_chunks_p2p_with, the checks of a response).
LEMMA InvIsComplete == FetchInv => OutcomeComplete
  BY DEF FetchInv, ProgressKept, Behind, Left, OutcomeComplete

\* Likewise for every reachable state: what a caller was promised with Ok, the
\* cache directory holds (fetch_manifest_and_chunks_p2p_with).
THEOREM FetchIsComplete == Spec => []OutcomeComplete
<1>1. Spec => []FetchInv
  BY FetchInit, FetchNext, PTL DEF Spec
<1> QED
  BY <1>1, InvIsComplete, PTL

\* A step changes the file of a chunk only to the whole chunk.
LEMMA OnlyWholeStep ==
  FetchInv /\ [Next]_vars =>
    \A w \in Callers, c \in Chunks : file'[w][c] # file[w][c] => file'[w][c] = "good"
<1> SUFFICES ASSUME FetchInv, [Next]_vars, NEW w \in Callers, NEW c \in Chunks,
                    file'[w][c] # file[w][c]
             PROVE  file'[w][c] = "good"
  OBVIOUS
<1>1. c \in Cids /\ c # Manifest
  BY FetchAssumption DEF Cids
<1>2. PICK v \in Callers : TakeReply(v) \/ Saved(v)
  <2>1. file' # file
    OBVIOUS
  <2>2. ASSUME NEW d \in Cids PROVE ~(FoundProviders(d) \/ QueryEnds(d))
    BY <2>1 DEF FoundProviders, QueryEnds, QueryFinished, QueryFailed
  <2>3. ASSUME NEW d \in Cids, NEW p \in Peers PROVE ~RequestEnds(d, p)
    BY <2>1 DEF RequestEnds, Response, RequestFailed
  <2>4. ASSUME NEW v \in Callers PROVE ~(Call(v) \/ CallFails(v) \/ NextChunk(v))
    BY <2>1 DEF Call, CallFails, NextChunk
  <2>5. ~Crash /\ ~UNCHANGED vars
    BY <2>1 DEF Crash, vars
  <2> QED
    BY <2>2, <2>3, <2>4, <2>5 DEF Next, CallerStep
<1>3. CASE TakeReply(v)
  <2>1. file' = file \/ file' = [file EXCEPT ![v][Manifest] = "short"]
    BY <1>3 DEF TakeReply
  <2>2. file \in [Callers -> [Cids -> Contents \cup {"absent"}]]
    BY DEF FetchInv, TypeOK
  <2>3. file'[w][c] = file[w][c]
    BY <1>1, <2>1, <2>2
  <2> QED
    BY <2>3
<1>4. CASE Saved(v)
  BY <1>1, <1>4 DEF Saved, FetchInv, TypeOK, StepsOK
<1> QED
  BY <1>2, <1>3, <1>4

\* No step of any call, and no crash, leaves a part of a chunk under its name
\* (fs::write to a .tmp file, rename).
THEOREM FetchRenamesWhole == Spec => ChunksOnlyWhole
<1>1. Spec => []FetchInv
  BY FetchInit, FetchNext, PTL DEF Spec
<1>2. FetchInv /\ [Next]_vars =>
        [\A w \in Callers, c \in Chunks :
           file'[w][c] # file[w][c] => file'[w][c] = "good"]_vars
  BY OnlyWholeStep
<1> QED
  BY <1>1, <1>2, PTL DEF Spec, ChunksOnlyWhole
===============================================================================
