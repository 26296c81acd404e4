------------------------------ MODULE SwarmRoute ------------------------------
(* From the swarm to a chain: a refresh of one model (net/src/swarm_index.rs) *)
(* looks up its envelope and then all its ranges at once, and choosing the    *)
(* model makes a target of what was found (chain_driver.rs, from_swarm), with *)
(* spare peers per hop. Beside it this node announces ranges of its own.      *)
EXTENDS SwarmNode, SequencesExt

CONSTANTS Ranges,        \* the model's ranges; a lookup of each is a task
          Envelope,      \* key of the model's envelope
          Refresher,     \* the task that refreshes; it looks up the envelope
          Host,          \* the announce loop, which also bootstraps
          Watcher,       \* a caller of next_identified
          NoForward,     \* peers whose records carry no usable forward_url
          MaxCandidates, \* MAX_CANDIDATES_PER_HOP
          MaxCalls       \* bound: calls and refreshes ever made

ASSUME RouteAssumption ==
  /\ Tasks = Ranges \cup {Refresher, Host, Watcher}
  /\ {Refresher, Host, Watcher} \cap Ranges = {}
  /\ Keys = Ranges \cup {Envelope}
  /\ MaxCandidates \in Nat \ {0} /\ MaxCalls \in Nat
  /\ First \in Others

VARIABLES refresh,   \* where the refresh is
          coverage,  \* per range: the records the last refresh found
          target,    \* per range: the hop's peer, then its alternates
          announced, \* history: per key, the peers that ever published it
          calls

vars == <<nodeVars, refresh, coverage, target, announced, calls>>
route == <<refresh, coverage, target>>

TypeOK ==
  /\ NodeTypeOK
  /\ refresh \in {"idle", "envelope", "ranges"}
  /\ coverage \in [Ranges -> Seq(Record)]
  /\ target \in [Ranges -> Seq(Peers)]
  /\ announced \in [Keys -> SUBSET Peers]
  /\ calls \in 0 .. MaxCalls

NoTarget == [r \in Ranges |-> <<>>]

Init ==
  /\ NodeInit
  /\ refresh = "idle" /\ coverage = NoTarget /\ target = NoTarget
  /\ announced = [k \in Keys |-> {First}]
  /\ calls = 0

-----------------------------------------------------------------------------
(* SwarmIndex::refresh_one                                                    *)

Counted == calls < MaxCalls /\ calls' = calls + 1

StartRefresh ==
  /\ refresh = "idle" /\ refresh' = "envelope"
  /\ Counted
  /\ Send(Refresher, "get", Envelope)
  /\ UNCHANGED <<store, minted, idents, coverage, target, announced>>

\* The envelope may be missing; the lookups of the ranges start anyhow.
EnvelopeDone ==
  /\ refresh = "envelope" /\ ~Waits(Refresher) /\ refresh' = "ranges"
  /\ call' = [t \in Tasks |-> IF t \in Ranges \cup {Refresher} THEN Idle ELSE call[t]]
  /\ UNCHANGED <<swarm, store, minted, idents, coverage, target, announced, calls>>

Lookup(r) ==
  /\ refresh = "ranges" /\ call[r] = Idle
  /\ Send(r, "get", r)
  /\ UNCHANGED <<store, minted, idents, route, announced, calls>>

\* join_all: a lookup that failed counts as a range nobody serves.
LookupsJoined ==
  /\ refresh = "ranges" /\ refresh' = "idle"
  /\ \A r \in Ranges : call[r].state \in {"ok", "error"}
  /\ coverage' = [r \in Ranges |-> call[r].reply]
  /\ call' = [t \in Tasks |-> IF t \in Ranges THEN Idle ELSE call[t]]
  /\ UNCHANGED <<swarm, store, minted, idents, target, announced, calls>>

-----------------------------------------------------------------------------
(* ChainTarget                                                                *)

\* A record without a usable forward_url names nobody to forward to.
Forwardable(rec) == rec.peer \notin NoForward

\* How many of the ranked records come before rec: those that are not older.
Ahead(ranked, rec) ==
  CHOOSE k \in 0 .. Len(ranked) :
     /\ \A i \in 1 .. k : ranked[i].mint >= rec.mint
     /\ k < Len(ranked) => ranked[k + 1].mint < rec.mint

\* filter_map and the stable sort by minted_at, newest first.
FreshestFirst(records) ==
  LET ranked[i \in 0 .. Len(records)] ==
        IF i = 0 THEN <<>>
        ELSE IF ~Forwardable(records[i]) THEN ranked[i - 1]
        ELSE InsertAt(ranked[i - 1], Ahead(ranked[i - 1], records[i]) + 1, records[i])
  IN  ranked[Len(records)]

\* Vec::dedup drops what equals its left neighbour.
DropRepeats(s) ==
  LET kept[i \in 0 .. Len(s)] ==
        IF i = 0 THEN <<>>
        ELSE IF i > 1 /\ s[i] = s[i - 1] THEN kept[i - 1]
        ELSE Append(kept[i - 1], s[i])
  IN  kept[Len(s)]

Take(s, n) == SubSeq(s, 1, IF Len(s) < n THEN Len(s) ELSE n)

\* Mutation of Candidates: the sort is left out.
CandidatesUnranked(records) ==
  LET ranked == SelectSeq(records, Forwardable)
  IN  DropRepeats(Take([i \in DOMAIN ranked |-> ranked[i].peer], MaxCandidates))

\* from_swarm: the freshest records, at most MaxCandidates of them, and of these
\* the distinct peers.
Candidates(records) ==
  LET ranked == FreshestFirst(records)
  IN  DropRepeats(Take([i \in DOMAIN ranked |-> ranked[i].peer], MaxCandidates))

\* Choosing the model in the picker. A range without a candidate is an error.
Commit ==
  /\ \A r \in Ranges : Candidates(coverage[r]) # <<>>
  /\ target' = [r \in Ranges |-> Candidates(coverage[r])]
  /\ UNCHANGED <<nodeVars, refresh, coverage, announced, calls>>

\* The hop's peer cannot be reached: the first alternate takes its place.
Failover(r) ==
  /\ Len(target[r]) > 1
  /\ target' = [target EXCEPT ![r] = Tail(@)]
  /\ UNCHANGED <<nodeVars, refresh, coverage, announced, calls>>

-----------------------------------------------------------------------------
(* The node's other tasks                                                     *)

Announce ==
  /\ Counted
  /\ \/ \E k \in Keys : Send(Host, "put", k)
     \/ Send(Host, "bootstrap", None)
  /\ UNCHANGED <<store, minted, idents, route, announced>>

AwaitIdentified ==
  /\ Counted /\ Send(Watcher, "identify", None)
  /\ UNCHANGED <<store, minted, idents, route, announced>>

NodeStep ==
  /\ SwarmStep
  /\ announced' = [k \in Keys |->
       announced[k] \cup {store'[n][k].peer : n \in Nodes}]
  /\ UNCHANGED <<route, calls>>

Next ==
  \/ StartRefresh \/ EnvelopeDone \/ LookupsJoined \/ Commit
  \/ \E r \in Ranges : Lookup(r) \/ Failover(r)
  \/ Announce \/ AwaitIdentified
  \/ NodeStep

\* The swarm task runs, Kademlia ends its queries, and so do the tasks.
Fairness ==
  /\ WF_vars(HandleCommand /\ NodeStep)
  /\ \A t \in Tasks : WF_vars(QueryEnds(t) /\ NodeStep)
  /\ WF_vars(EnvelopeDone) /\ WF_vars(LookupsJoined)
  /\ \A r \in Ranges : WF_vars(Lookup(r))

Spec == Init /\ [][Next]_vars /\ Fairness

-----------------------------------------------------------------------------
(* Properties                                                                 *)

\* A call without a reply is in exactly one place: in the channel, among the
\* open queries, or in line for the next peer identified; and nobody is in line
\* while an identified peer is there to be taken.
CallsServed ==
  /\ \A t \in Tasks : Waits(t) <=>
       \/ t \in Range(cmds) \/ t \in waiters \/ t \in Range(id_waiters)
  /\ waiters \cap (Range(cmds) \cup Range(id_waiters)) = {}
  /\ Range(cmds) \cap Range(id_waiters) = {}
  /\ pending_id > 0 => id_waiters = <<>>

\* Although the lookups run at once in one task, beside announcements, a hop and
\* its alternates only ever are peers that announced the very range of the hop; and
\* no call is lost or answered twice over it.
HopsServeTheirRange ==
  /\ TypeOK /\ CallsServed
  /\ \A r \in Ranges : \A i \in 1 .. Len(target[r]) : target[r][i] \in announced[r]

\* The peer of a hop is, when the model is chosen, the one that announced the
\* range most recently, of those found: "freshest-first".
FreshestLeads ==
  [][Commit => \A r \in Ranges :
       \E rec \in Range(coverage[r]) :
          /\ rec.peer = target'[r][1]
          /\ \A other \in Range(coverage[r]) :
               Forwardable(other) => rec.mint >= other.mint]_vars

\* A refresh ends, also when lookups fail or the node is shut down meanwhile.
RefreshEnds == (refresh # "idle") ~> (refresh = "idle")

\* "dedupe so a peer republishing twice doesn't waste a slot": a hop for which
\* two peers were found has a spare one.
NoWastedSlots ==
  [][Commit => \A r \in Ranges :
       Cardinality({rec.peer : rec \in {o \in Range(coverage[r]) : Forwardable(o)}}) > 1
         => Len(target'[r]) > 1]_vars
==============================================================================
