------------------------------ MODULE SwarmNode ------------------------------
(* A node of the swarm (net/src/swarm.rs, dht.rs): tasks call its API, which  *)
(* queues commands for the swarm task and awaits a reply; the swarm task      *)
(* starts Kademlia queries and turns their events into those replies. The     *)
(* nodes of the DHT keep one record per key (libp2p's MemoryStore).           *)
EXTENDS Naturals, Sequences, FiniteSets, Functions

CONSTANTS Tasks,    \* tasks that call the node, one call at a time each
          Keys,     \* record keys: one per range of a model, and its envelope
          Me,       \* this node's peer id
          Others,   \* the other peers that publish records
          First,    \* the one that has published every key before
          Nodes,    \* nodes of the DHT that store records
          QueueCap, \* capacity of the command channel
          MaxMint,  \* bound: records ever minted
          MaxIdent, \* bound: identify exchanges
          None

ASSUME NodeAssumption ==
  /\ "shutdown" \notin Tasks
  /\ QueueCap \in Nat /\ MaxMint \in Nat /\ MaxIdent \in Nat

Peers == Others \cup {Me}

VARIABLES up,         \* the swarm task runs
          cmds,       \* the command channel
          pending_id, \* peers identified that no call has taken
          id_waiters, \* calls of next_identified
          waiters,    \* put_, get_ and bootstrap_waiters, by calling task
          buffers,    \* get_buffers, by calling task
          asked,      \* per lookup: the nodes that have answered it
          call,       \* per task: what it called, and the reply
          store,      \* per node and key: the record it keeps
          minted,     \* records ever minted
          idents      \* identify exchanges

swarm == <<up, cmds, pending_id, id_waiters, waiters, buffers, asked>>
nodeVars == <<swarm, call, store, minted, idents>>

Record == [peer : Peers, mint : 0 .. MaxMint]

Ops == {"put", "get", "bootstrap", "identify"}
Idle == [op |-> "none", key |-> None, state |-> "idle", reply |-> <<>>]
Call(op, key) == [op |-> op, key |-> key, state |-> "called", reply |-> <<>>]

NodeTypeOK ==
  /\ up \in BOOLEAN
  /\ cmds \in Seq(Tasks \cup {"shutdown"}) /\ Len(cmds) <= QueueCap
  /\ pending_id \in 0 .. MaxIdent
  /\ id_waiters \in Seq(Tasks)
  /\ waiters \subseteq Tasks
  /\ buffers \in [Tasks -> Seq(Record)]
  /\ asked \in [Tasks -> SUBSET Nodes]
  /\ call \in [Tasks -> [op : Ops \cup {"none"}, key : Keys \cup {None},
                         state : {"idle", "called", "ok", "error"},
                         reply : Seq(Record)]]
  /\ store \in [Nodes -> [Keys -> Record]]
  /\ minted \in 0 .. MaxMint /\ idents \in 0 .. MaxIdent

NodeInit ==
  /\ up = TRUE /\ cmds = <<>> /\ pending_id = 0 /\ id_waiters = <<>>
  /\ waiters = {}
  /\ buffers = [t \in Tasks |-> <<>>] /\ asked = [t \in Tasks |-> {}]
  /\ call = [t \in Tasks |-> Idle]
  /\ store = [n \in Nodes |-> [k \in Keys |-> [peer |-> First, mint |-> 0]]]
  /\ minted = 0 /\ idents = 0

Waits(t) == call[t].state = "called"

Reply(t, state) == call' = [call EXCEPT ![t].state = state]

-----------------------------------------------------------------------------
(* Calls                                                                      *)

\* A call is sent when the channel has room for it, and fails if there is no
\* swarm task to receive it.
Send(t, op, key) ==
  /\ ~Waits(t)
  /\ IF up
     THEN /\ Len(cmds) < QueueCap
          /\ cmds' = Append(cmds, t)
          /\ call' = [call EXCEPT ![t] = Call(op, key)]
     ELSE /\ call' = [call EXCEPT ![t] = [Call(op, key) EXCEPT !.state = "error"]]
          /\ UNCHANGED cmds
  /\ UNCHANGED <<up, pending_id, id_waiters, waiters, buffers, asked>>

SendShutdown ==
  /\ up /\ Len(cmds) < QueueCap /\ "shutdown" \notin Range(cmds)
  /\ cmds' = Append(cmds, "shutdown")
  /\ UNCHANGED <<up, pending_id, id_waiters, waiters, buffers, asked, call, store,
                 minted, idents>>

-----------------------------------------------------------------------------
(* The swarm task: commands                                                   *)

\* NextIdentified takes a peer that is waiting, or waits for one.
TakeIdentified(t) ==
  /\ IF pending_id > 0
     THEN pending_id' = pending_id - 1 /\ Reply(t, "ok") /\ UNCHANGED id_waiters
     ELSE id_waiters' = Append(id_waiters, t) /\ UNCHANGED <<pending_id, call>>
  /\ UNCHANGED <<waiters, buffers, asked>>

\* Bootstrap, AnnounceShard and GetShardProviders start a query; the first two
\* may fail at once (no known peer, record too large).
StartQuery(t) ==
  /\ \/ /\ waiters' = waiters \cup {t}
        /\ buffers' = [buffers EXCEPT ![t] = <<>>]
        /\ asked' = [asked EXCEPT ![t] = {}]
        /\ UNCHANGED call
     \/ call[t].op # "get" /\ Reply(t, "error") /\ UNCHANGED <<waiters, buffers, asked>>
  /\ UNCHANGED <<pending_id, id_waiters>>

\* Mutation of Return: the calls still in the channel are forgotten.
ReturnEarly ==
  /\ call' = [t \in Tasks |->
       IF t \in waiters \cup Range(id_waiters)
       THEN [call[t] EXCEPT !.state = "error"] ELSE call[t]]
  /\ up' = FALSE
  /\ cmds' = <<>> /\ id_waiters' = <<>> /\ waiters' = {}
  /\ UNCHANGED <<pending_id, buffers, asked>>

\* Shutdown: whoever waits finds the other end of its channel dropped.
Return ==
  /\ call' = [t \in Tasks |->
       IF Waits(t) THEN [call[t] EXCEPT !.state = "error"] ELSE call[t]]
  /\ up' = FALSE
  /\ cmds' = <<>> /\ id_waiters' = <<>> /\ waiters' = {}
  /\ UNCHANGED <<pending_id, buffers, asked>>

HandleCommand ==
  /\ up /\ cmds # <<>>
  /\ LET t == Head(cmds) IN
     IF t = "shutdown" THEN Return
     ELSE /\ cmds' = Tail(cmds) /\ UNCHANGED up
          /\ IF call[t].op = "identify" THEN TakeIdentified(t) ELSE StartQuery(t)
  /\ UNCHANGED <<store, minted, idents>>

-----------------------------------------------------------------------------
(* The swarm task: events                                                     *)

\* An identified peer goes to the first in line, or is kept for a later call.
Identified ==
  /\ up /\ idents < MaxIdent
  /\ idents' = idents + 1
  /\ IF id_waiters # <<>>
     THEN /\ Reply(Head(id_waiters), "ok") /\ id_waiters' = Tail(id_waiters)
          /\ UNCHANGED pending_id
     ELSE pending_id' = pending_id + 1 /\ UNCHANGED <<id_waiters, call>>
  /\ UNCHANGED <<up, cmds, waiters, buffers, asked, store, minted>>

QueryOpen(t, op) == up /\ t \in waiters /\ call[t].op = op

QueryOver(t) ==
  /\ waiters' = waiters \ {t}
  /\ UNCHANGED <<up, cmds, pending_id, id_waiters, buffers, asked, idents>>

\* A put reaches some nodes, where it replaces the record of the key; one is
\* enough (Quorum::One).
Published(peer, key, reached) ==
  /\ minted < MaxMint
  /\ minted' = minted + 1
  /\ store' = [n \in Nodes |-> IF n \in reached
       THEN [store[n] EXCEPT ![key] = [peer |-> peer, mint |-> minted + 1]]
       ELSE store[n]]

PutEnds(t) ==
  /\ QueryOpen(t, "put")
  /\ \/ \E reached \in (SUBSET Nodes) \ {{}} :
          Published(Me, call[t].key, reached) /\ Reply(t, "ok")
     \/ Reply(t, "error") /\ UNCHANGED <<store, minted>>
  /\ QueryOver(t)

BootstrapEnds(t) ==
  /\ QueryOpen(t, "bootstrap")
  /\ Reply(t, "ok") \/ Reply(t, "error")
  /\ QueryOver(t) /\ UNCHANGED <<store, minted>>

\* Mutation of FoundRecord: the records of all lookups go into one buffer.
FoundRecordShared(t, n) ==
  /\ QueryOpen(t, "get") /\ n \notin asked[t]
  /\ asked' = [asked EXCEPT ![t] = @ \cup {n}]
  /\ buffers' = [u \in Tasks |-> IF u \in waiters
                   THEN Append(buffers[u], store[n][call[t].key]) ELSE buffers[u]]
  /\ UNCHANGED <<up, cmds, pending_id, id_waiters, waiters, call, store, minted, idents>>

\* A node answers a lookup with its record. Some never do, and those whose
\* record's 30 minutes are over look no different.
FoundRecord(t, n) ==
  /\ QueryOpen(t, "get") /\ n \notin asked[t]
  /\ asked' = [asked EXCEPT ![t] = @ \cup {n}]
  /\ buffers' = [buffers EXCEPT ![t] = Append(@, store[n][call[t].key])]
  /\ UNCHANGED <<up, cmds, pending_id, id_waiters, waiters, call, store, minted, idents>>

\* The lookup ends, at its last step or with an error: what was found is the
\* reply, and finding nothing is an error.
LookupEnds(t) ==
  /\ QueryOpen(t, "get")
  /\ call' = [call EXCEPT ![t].reply = buffers[t],
                          ![t].state = IF buffers[t] = <<>> THEN "error" ELSE "ok"]
  /\ waiters' = waiters \ {t}
  /\ buffers' = [buffers EXCEPT ![t] = <<>>]
  /\ asked' = [asked EXCEPT ![t] = {}]
  /\ UNCHANGED <<up, cmds, pending_id, id_waiters, store, minted, idents>>

QueryEnds(t) == PutEnds(t) \/ BootstrapEnds(t) \/ LookupEnds(t)

-----------------------------------------------------------------------------
(* The rest of the DHT                                                        *)

OtherPublishes ==
  /\ \E p \in Others, k \in Keys, reached \in (SUBSET Nodes) \ {{}} :
       Published(p, k, reached)
  /\ UNCHANGED <<swarm, call, idents>>

SwarmStep ==
  \/ SendShutdown \/ HandleCommand \/ Identified
  \/ \E t \in Tasks : QueryEnds(t) \/ \E n \in Nodes : FoundRecord(t, n)
  \/ OtherPublishes
==============================================================================
