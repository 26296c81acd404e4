---------------------------- MODULE ChainSession ----------------------------
(***************************************************************************)
(* A turn over a chain of peers, message by message: the consumer's Chain  *)
(* (crates/runtime/src/chain.rs) with connect_with_failover around it      *)
(* (crates/app/src/chain_driver.rs), and each peer's handle_connection     *)
(* (crates/app/src/forward_server.rs) with the loaded slices all           *)
(* connections of a peer share.                                            *)
(*                                                                         *)
(* A connection is a slot of Conns that is used again once both ends have  *)
(* let go of it. It carries one session, so the random session id is left  *)
(* out: the slot stands for it. The KV cache of a loaded slice is the      *)
(* sequence of its cells: the position each was written at and the         *)
(* connection that wrote it.                                               *)
(***************************************************************************)
EXTENDS KVCache

CONSTANTS Consumers,    \* processes that run turns
          Peers,        \* hosts: one forward listener each, hosting one slice
          NumConns,     \* bound: connections alive or lingering at a time
          NumInstances, \* bound: loaded copies of slices in use at a time
          Peer0, Alts0, \* the target: a peer per hop, and its alternates
          PromptLen,    \* tokens of a prefill
          DraftLen,     \* tokens of a speculative verify; 0: no draft model
          MaxSteps,     \* bound: chain steps of a turn
          MaxTurns,     \* bound: turns of a consumer
          MaxFailover,  \* MAX_FAILOVER_ATTEMPTS
          MaxFaults,    \* bound: faults of the environment
          Faults,       \* what the environment may do
          None

Conns == 1..NumConns
Instances == 1..NumInstances
Hops == 1..Len(Peer0)
Positions == 0..(PromptLen + MaxSteps * (DraftLen + 1))

ASSUME SessionAssumption ==
    /\ Peer0 \in Seq(Peers) /\ Len(Peer0) > 0
    /\ Alts0 \in Seq(Seq(Peers)) /\ Len(Alts0) = Len(Peer0)
    /\ NumConns \in Nat \ {0} /\ NumInstances \in Nat \ {0}
    /\ PromptLen \in Nat \ {0} /\ DraftLen \in Nat
    /\ MaxSteps \in Nat \ {0} /\ MaxTurns \in Nat /\ MaxFailover \in Nat
    /\ MaxFaults \in Nat
    /\ Faults \subseteq {"break", "crash", "hang", "full", "drain", "fail"}
    /\ None \notin Peers \cup Conns \cup Instances \cup Positions

VARIABLES
    turn,     \* consumer -> its turn: program counter, route, links, position
    target,   \* consumer -> the target it keeps between turns
    turns,    \* consumer -> turns started
    wire,     \* connection -> messages each way, and whether it still is up
    srv,      \* connection -> the peer's handle_connection
    kv,       \* instance -> cells of its KV cache
    cache,    \* peer -> the instance its ModelCache holds for the slice
    hosts,    \* peer -> accept_chain admits
    hung,     \* peer -> its process or the network to it stands still
    faults,   \* faults of the environment so far
    touched   \* history: instance -> connections that used it since its reset

consumerVars == <<turn, target, turns>>
peerVars == <<srv, kv, cache, touched>>
envVars == <<hosts, hung, faults>>
vars == <<turn, target, turns, wire, srv, kv, cache, hosts, hung, faults, touched>>

-----------------------------------------------------------------------------
\* Messages. A step's number is the link's seq: every step of a chain raises
\* the seq of each link it reaches by one, and a failed step ends the chain.
Forwards == [t: {"forward"}, n: Nat, len: Nat, keep: Positions \cup {None}]
Requests == [t: {"hello", "init", "abort", "part"}] \cup Forwards
Replies == [t: {"hello", "ack", "abort"}] \cup [t: {"out"}, n: Nat]

Target0 == [peers |-> Peer0, alts |-> Alts0]
NoTurn == [pc |-> "idle", spec |-> FALSE, hop |-> 0, route |-> Target0, attempts |-> 0,
           link |-> <<>>, pos |-> 0, n |-> 0, len |-> 0, keep |-> None]
NoServer == [st |-> "closed", peer |-> None, inst |-> None, pos |-> 0, last |-> 0]
NoWire == [st |-> "shut", up |-> <<>>, down |-> <<>>]

Init == /\ turn = [c \in Consumers |-> NoTurn]
        /\ target = [c \in Consumers |-> Target0]
        /\ turns = [c \in Consumers |-> 0]
        /\ wire = [x \in Conns |-> NoWire]
        /\ srv = [x \in Conns |-> NoServer]
        /\ kv = [i \in Instances |-> <<>>]
        /\ cache = [p \in Peers |-> None]
        /\ hosts = [p \in Peers |-> TRUE]
        /\ hung = [p \in Peers |-> FALSE]
        /\ faults = 0
        /\ touched = [i \in Instances |-> {}]

Fault(f) == f \in Faults /\ faults < MaxFaults /\ faults' = faults + 1

\* The peer at the other end of x does not get to run.
Hung(x) == srv[x].st # "closed" /\ hung[srv[x].peer]
\* The link the turn is working on, while it connects or steps.
Cur(c) == turn[c].link[turn[c].hop]
Free(x) == srv[x].st = "closed" /\ \A c \in Consumers : \A i \in DOMAIN turn[c].link :
                                        turn[c].link[i] # x

Ask(w, x, m) == [w EXCEPT ![x].up = IF w[x].st = "up" THEN Append(@, m) ELSE @]
Answer(w, x, m) == [w EXCEPT ![x].down = IF w[x].st = "up" THEN Append(@, m) ELSE @]
Taken(w, x) == [w EXCEPT ![x].up = Tail(@)]

\* write_all has filled the socket's buffers halfway through a frame, and the
\* peer does not read: a write waits until the peer or the connection dies.
Stuck(x) == /\ wire[x].up # <<>> /\ wire[x].up[Len(wire[x].up)].t = "part"
            /\ wire[x].st = "up" /\ srv[x].st # "closed"

\* The consumer drops the sockets of a chain: what it sent is still read, and
\* then end of file.
Dropped(w, links) ==
    [x \in Conns |-> IF \E i \in DOMAIN links : links[i] = x
                     THEN [w[x] EXCEPT !.st = IF @ = "up" THEN "shut" ELSE @, !.down = <<>>]
                     ELSE w[x]]

-----------------------------------------------------------------------------
(* The consumer: connect_with_failover, Chain::connect, step and close.    *)

StartTurn(c) ==
    /\ turn[c].pc = "idle" /\ turns[c] < MaxTurns
    /\ turns' = [turns EXCEPT ![c] = @ + 1]
    /\ \E d \in BOOLEAN :
          /\ d => DraftLen > 0
          /\ turn' = [turn EXCEPT ![c] = [NoTurn EXCEPT !.pc = "dial", !.hop = 1, !.spec = d,
                                                        !.route = target[c]]]
    /\ UNCHANGED <<target, wire, peerVars, envVars>>

\* TcpStream::connect, then Hello: the peer's accept loop spawns a handler.
Dial(c) ==
    /\ turn[c].pc = "dial"
    /\ \E x \in Conns :
          /\ Free(x) /\ \A y \in Conns : Free(y) => x <= y
          /\ wire' = [wire EXCEPT ![x] = [st |-> "up", up |-> <<[t |-> "hello"]>>,
                                          down |-> <<>>]]
          /\ srv' = [srv EXCEPT ![x] = [NoServer EXCEPT !.st = "new",
                                          !.peer = turn[c].route.peers[turn[c].hop]]]
          /\ turn' = [turn EXCEPT ![c].pc = "hello", ![c].link = Append(@, x)]
    /\ UNCHANGED <<target, turns, kv, cache, touched, envVars>>

TakeHello(c) ==
    /\ turn[c].pc = "hello"
    /\ wire[Cur(c)].down # <<>> /\ Head(wire[Cur(c)].down).t = "hello"
    /\ wire' = Ask([wire EXCEPT ![Cur(c)].down = Tail(@)], Cur(c), [t |-> "init"])
    /\ turn' = [turn EXCEPT ![c].pc = "init"]
    /\ UNCHANGED <<target, turns, peerVars, envVars>>

\* SessionAck: the next hop is dialled, or the chain stands and the target,
\* with the alternates that were swapped in, is kept for the next turns.
TakeAck(c) ==
    /\ turn[c].pc = "init"
    /\ wire[Cur(c)].down # <<>> /\ Head(wire[Cur(c)].down).t = "ack"
    /\ wire' = [wire EXCEPT ![Cur(c)].down = Tail(@)]
    /\ IF turn[c].hop = Len(Peer0)
       THEN /\ turn' = [turn EXCEPT ![c].pc = "ready", ![c].hop = 0]
            /\ target' = [target EXCEPT ![c] = turn[c].route]
       ELSE /\ turn' = [turn EXCEPT ![c].pc = "dial", ![c].hop = @ + 1]
            /\ UNCHANGED target
    /\ UNCHANGED <<turns, peerVars, envVars>>

\* Mutation of LinkFails: replies are awaited without a timeout.
LinkFailsLoudly(c) ==
    LET x == Cur(c) IN
    \/ wire[x].down # <<>> /\ Head(wire[x].down).t = "abort"
    \/ wire[x].down = <<>> /\ (srv[x].st = "closed" \/ wire[x].st = "broken")

\* The hop aborted, hung up, or its answer takes so long that the timeout comes.
LinkFails(c) ==
    LET x == Cur(c) IN
    \/ wire[x].down # <<>> /\ Head(wire[x].down).t = "abort"
    \/ wire[x].down = <<>> /\ (srv[x].st = "closed" \/ wire[x].st = "broken")
    \/ wire[x].down = <<>> /\ Hung(x)

\* No connection comes about in time, or the slots of this model are used up.
DialFails(c) ==
    /\ turn[c].pc = "dial"
    /\ hung[turn[c].route.peers[turn[c].hop]] \/ \A x \in Conns : ~Free(x)

\* ChainTarget::failover: an alternate takes the place of the hop that failed.
SwapHop(r, i) == [peers |-> [r.peers EXCEPT ![i] = Head(r.alts[i])],
                  alts |-> [r.alts EXCEPT ![i] = Tail(@)]]

\* Each failed connect counts, and only the hop that failed is swapped.
MayRetry(t) == t.attempts + 1 <= MaxFailover /\ t.route.alts[t.hop] # <<>>

\* The links opened so far are dropped, and the whole chain is opened again
\* with an alternate, or the turn has failed. Its route is not kept then.
ConnectFails(c) ==
    /\ DialFails(c) \/ (turn[c].pc \in {"hello", "init"} /\ LinkFails(c))
    /\ wire' = Dropped(wire, turn[c].link)
    /\ LET t == turn[c]
       IN turn' = [turn EXCEPT ![c] =
                     IF MayRetry(t)
                     THEN [NoTurn EXCEPT !.pc = "dial", !.hop = 1, !.spec = t.spec,
                             !.route = SwapHop(t.route, t.hop), !.attempts = t.attempts + 1]
                     ELSE NoTurn]
    /\ UNCHANGED <<target, turns, peerVars, envVars>>

\* step_with_truncate: the hidden state of len tokens goes to hop i. One that
\* does not fit the buffers of a peer that hangs is written in part.
Forward(w, x, m) ==
    Ask(w, x, IF "full" \in Faults /\ Hung(x) THEN [t |-> "part"] ELSE m)

SendStep(c, len, keep) ==
    /\ wire' = Forward(wire, turn[c].link[1],
                       [t |-> "forward", n |-> turn[c].n + 1, len |-> len, keep |-> keep])
    /\ turn' = [turn EXCEPT ![c].pc = "step", ![c].hop = 1, ![c].n = @ + 1,
                            ![c].len = len, ![c].keep = keep]
    /\ UNCHANGED <<target, turns, peerVars, envVars>>

\* run_turn: a prefill, then a token at a time. run_turn_spec: a batch of
\* drafts is verified, then the step that commits rolls the rejected ones back.
Prefill(c) == turn[c].pc = "ready" /\ turn[c].n = 0 /\ SendStep(c, PromptLen, None)
Decode(c) == /\ turn[c].pc = "ready" /\ turn[c].n \in 1..(MaxSteps - 1) /\ ~turn[c].spec
             /\ SendStep(c, 1, None)
Verified(c) == turn[c].n > 1 /\ turn[c].keep = None
Verify(c) == /\ turn[c].pc = "ready" /\ turn[c].n \in 1..(MaxSteps - 2) /\ turn[c].spec
             /\ ~Verified(c)
             /\ SendStep(c, DraftLen, None)
Commit(c) == /\ turn[c].pc = "ready" /\ turn[c].spec /\ Verified(c)
             /\ \E j \in 0..DraftLen : SendStep(c, 1, turn[c].pos - DraftLen + j)

\* The reply goes to the next hop, or ends the step.
TakeOutput(c) ==
    /\ turn[c].pc = "step"
    /\ wire[Cur(c)].down # <<>> /\ Head(wire[Cur(c)].down).t = "out"
    /\ LET t == turn[c]
           w == [wire EXCEPT ![Cur(c)].down = Tail(@)]
           base == IF t.keep = None THEN t.pos ELSE t.keep
       IN IF t.hop = Len(t.link)
          THEN /\ wire' = w
               /\ turn' = [turn EXCEPT ![c].pc = "ready", ![c].hop = 0,
                                       ![c].pos = base + t.len]
          ELSE /\ wire' = Forward(w, t.link[t.hop + 1],
                              [t |-> "forward", n |-> t.n, len |-> t.len, keep |-> t.keep])
               /\ turn' = [turn EXCEPT ![c].hop = @ + 1]
    /\ UNCHANGED <<target, turns, peerVars, envVars>>

\* Mutation of TurnOver: a step that failed is tried again on the same chain.
TurnOverRetries(c) ==
    /\ \/ turn[c].pc = "ready"
       \/ turn[c].pc = "step" /\ LinkFails(c)
    /\ turn' = IF turn[c].pc = "step" /\ turn[c].n < MaxSteps
               THEN [turn EXCEPT ![c].pc = "ready", ![c].hop = 0]
               ELSE [turn EXCEPT ![c] = [NoTurn EXCEPT !.pc = "close", !.hop = 1, !.link = turn[c].link]]
    /\ UNCHANGED <<target, turns, wire, peerVars, envVars>>

\* The turn ends, with its last token or an error of the driver, or with the
\* error of a hop: there is no failover inside a turn. Either way the chain is
\* closed, link by link, with a write that has no timeout; all that the turn
\* still needs are its links.
TurnOver(c) ==
    /\ \/ turn[c].pc = "ready"
       \/ turn[c].pc = "step" /\ LinkFails(c)
    /\ turn' = [turn EXCEPT ![c] = [NoTurn EXCEPT !.pc = "close", !.hop = 1, !.link = turn[c].link]]
    /\ UNCHANGED <<target, turns, wire, peerVars, envVars>>

CloseLink(c) ==
    /\ turn[c].pc = "close" /\ ~Stuck(Cur(c))
    /\ LET w == Ask(wire, Cur(c), [t |-> "abort"])
       IN IF turn[c].hop = Len(turn[c].link)
          THEN /\ wire' = Dropped(w, turn[c].link)
               /\ turn' = [turn EXCEPT ![c] = NoTurn]
          ELSE /\ wire' = w
               /\ turn' = [turn EXCEPT ![c].hop = @ + 1]
    /\ UNCHANGED <<target, turns, peerVars, envVars>>

-----------------------------------------------------------------------------
(* The peer: handle_connection for the connection x.                       *)

Req(x) == Head(wire[x].up)
HasReq(x, t) == wire[x].up # <<>> /\ Req(x).t = t
Listening(x) == srv[x].st \in {"new", "open"}
Closed(s, x) == [s EXCEPT ![x] = NoServer]

HandleHello(x) ==
    /\ Listening(x) /\ HasReq(x, "hello")
    /\ wire' = Answer(Taken(wire, x), x, [t |-> "hello"])
    /\ UNCHANGED <<consumerVars, peerVars, envVars>>

\* accept_chain: the guard is held from here until the handler returns.
HandleInit(x) ==
    /\ Listening(x) /\ HasReq(x, "init")
    /\ IF hosts[srv[x].peer]
       THEN /\ wire' = Taken(wire, x)
            /\ srv' = [srv EXCEPT ![x].st = IF cache[srv[x].peer] = None THEN "load" ELSE "reset",
                                  ![x].inst = cache[srv[x].peer]]
       ELSE /\ wire' = Answer(Taken(wire, x), x, [t |-> "abort"])
            /\ srv' = Closed(srv, x)
    /\ UNCHANGED <<consumerVars, kv, cache, touched, envVars>>

\* prepare_slice missed the cache: the slice is loaded without a lock, and the
\* copy that is inserted last is the one the cache keeps.
LoadSlice(x) ==
    /\ srv[x].st = "load"
    /\ \E i \in Instances :
          /\ \A y \in Conns : srv[y].inst # i
          /\ \A p \in Peers : cache[p] # i
          /\ \A j \in 1..(i - 1) : (\E y \in Conns : srv[y].inst = j) \/ (\E p \in Peers : cache[p] = j)
          /\ kv' = [kv EXCEPT ![i] = <<>>]
          /\ touched' = [touched EXCEPT ![i] = {}]
          /\ cache' = [cache EXCEPT ![srv[x].peer] = i]
          /\ srv' = [srv EXCEPT ![x].st = "reset", ![x].inst = i]
    /\ UNCHANGED <<consumerVars, wire, envVars>>

LoadFails(x) ==
    /\ srv[x].st = "load" /\ Fault("fail")
    /\ wire' = Answer(wire, x, [t |-> "abort"])
    /\ srv' = Closed(srv, x)
    /\ UNCHANGED <<consumerVars, kv, cache, touched, hosts, hung>>

\* Mutation of Reset: SessionInit does not empty the cache.
ResetKept(cells) == cells

\* The slice's lock was free: the cache is emptied and the session opened.
Reset(cells) == <<>>
ResetSlice(x) ==
    /\ srv[x].st = "reset"
    /\ kv' = [kv EXCEPT ![srv[x].inst] = Reset(@)]
    /\ touched' = [touched EXCEPT ![srv[x].inst] = {x}]
    /\ srv' = [srv EXCEPT ![x].st = "open", ![x].pos = 0, ![x].last = 0]
    /\ wire' = Answer(wire, x, [t |-> "ack"])
    /\ UNCHANGED <<consumerVars, cache, envVars>>

\* Mutation of Base: a truncation does not set index_pos back.
BaseKept(x, m) == srv[x].pos

\* kv_seq_rm from position keep on.
Truncate(cells, keep) ==
    IF keep = None THEN cells ELSE CellsBefore(cells, keep)
Base(x, m) == IF m.keep = None THEN srv[x].pos ELSE m.keep
OutOfOrder(x, m) == m.n <= srv[x].last /\ srv[x].last > 0

Refused(x, m) == srv[x].st = "new" \/ OutOfOrder(x, m)

\* ForwardHidden, under the slice's lock: truncate, forward at index_pos, reply.
HandleForward(x) ==
    /\ Listening(x) /\ HasReq(x, "forward") /\ ~Refused(x, Req(x))
    /\ LET m == Req(x)
           i == srv[x].inst
           new == [k \in 1..m.len |-> [pos |-> Base(x, m) + k - 1, by |-> x]]
       IN /\ kv' = [kv EXCEPT ![i] = Truncate(@, m.keep) \o new]
          /\ touched' = [touched EXCEPT ![i] = @ \cup {x}]
          /\ srv' = [srv EXCEPT ![x].pos = Base(x, m) + m.len, ![x].last = m.n]
          /\ wire' = Answer(Taken(wire, x), x, [t |-> "out", n |-> m.n])
    /\ UNCHANGED <<consumerVars, cache, envVars>>

\* It fails: a forward before the session, out of order, or an error of the
\* model after the truncation. The handler returns, and the socket is closed.
ForwardFails(x) ==
    /\ Listening(x) /\ HasReq(x, "forward")
    /\ IF Refused(x, Req(x))
       THEN UNCHANGED <<kv, touched, faults>>
       ELSE /\ Fault("fail")
            /\ kv' = [kv EXCEPT ![srv[x].inst] = Truncate(@, Req(x).keep)]
            /\ touched' = [touched EXCEPT ![srv[x].inst] = @ \cup {x}]
    /\ srv' = Closed(srv, x)
    /\ wire' = Taken(wire, x)
    /\ UNCHANGED <<consumerVars, cache, hosts, hung>>

HandleAbort(x) ==
    /\ Listening(x) /\ HasReq(x, "abort")
    /\ srv' = Closed(srv, x)
    /\ wire' = Taken(wire, x)
    /\ UNCHANGED <<consumerVars, kv, cache, touched, envVars>>

\* Mutation of HandleEof: a read error is taken for a read of nothing.
HandleEofShut(x) ==
    /\ Listening(x) /\ wire[x].up = <<>> /\ wire[x].st = "shut"
    /\ srv' = Closed(srv, x)
    /\ UNCHANGED <<consumerVars, wire, kv, cache, touched, envVars>>
HandleEof(x) ==
    /\ Listening(x) /\ wire[x].up = <<>> /\ wire[x].st # "up"
    /\ srv' = Closed(srv, x)
    /\ UNCHANGED <<consumerVars, wire, kv, cache, touched, envVars>>

-----------------------------------------------------------------------------
(* The environment.                                                        *)

\* The connection is cut: what was in flight is lost, both ends see an error.
Break(x) ==
    /\ Fault("break") /\ wire[x].st = "up"
    /\ wire' = [wire EXCEPT ![x] = [st |-> "broken", up |-> <<>>, down |-> <<>>]]
    /\ UNCHANGED <<consumerVars, peerVars, hosts, hung>>

\* The host's process dies, and is up again with an empty cache.
Crash(p) ==
    /\ Fault("crash") /\ \E x \in Conns : srv[x].peer = p
    /\ srv' = [x \in Conns |-> IF srv[x].peer = p THEN NoServer ELSE srv[x]]
    /\ cache' = [cache EXCEPT ![p] = None]
    /\ hung' = [hung EXCEPT ![p] = FALSE]
    /\ UNCHANGED <<consumerVars, wire, kv, touched, hosts>>

Hang(p) == /\ Fault("hang") /\ ~hung[p]
           /\ hung' = [hung EXCEPT ![p] = TRUE]
           /\ UNCHANGED <<consumerVars, wire, peerVars, hosts>>

\* It was slow only: it goes on with what is waiting on its connections.
Resume(p) == /\ hung[p]
             /\ hung' = [hung EXCEPT ![p] = FALSE]
             /\ UNCHANGED <<consumerVars, wire, peerVars, hosts, faults>>

\* A leave or a shutdown puts the slice in Draining.
Drain(p) == /\ Fault("drain") /\ hosts[p]
            /\ hosts' = [hosts EXCEPT ![p] = FALSE]
            /\ UNCHANGED <<consumerVars, wire, peerVars, hung>>

-----------------------------------------------------------------------------
ConsumerStep(c) ==
    \/ Dial(c) \/ TakeHello(c) \/ TakeAck(c) \/ ConnectFails(c)
    \/ Prefill(c) \/ Decode(c) \/ Verify(c) \/ Commit(c) \/ TakeOutput(c)
    \/ TurnOver(c) \/ CloseLink(c)
Handler(x) ==
    \/ HandleHello(x) \/ HandleInit(x) \/ LoadSlice(x) \/ LoadFails(x) \/ ResetSlice(x)
    \/ HandleForward(x) \/ ForwardFails(x) \/ HandleAbort(x) \/ HandleEof(x)
HandlerStep(x) == srv[x].st # "closed" /\ ~Hung(x) /\ Handler(x)

Next ==
    \/ \E c \in Consumers : StartTurn(c) \/ ConsumerStep(c)
    \/ \E x \in Conns : HandlerStep(x) \/ Break(x)
    \/ \E p \in Peers : Crash(p) \/ Hang(p) \/ Resume(p) \/ Drain(p)

Spec == Init /\ [][Next]_vars
\* The driver's thread runs, its timeouts come, and a peer that has not hung
\* serves its connections. Users and faults are not
\* fair, and a peer that hangs need not resume.
FairSpec == /\ Spec
            /\ \A c \in Consumers : WF_vars(ConsumerStep(c))
            /\ \A x \in Conns : WF_vars(HandlerStep(x))

-----------------------------------------------------------------------------
\* Every variable has its type.
TypeOK ==
    /\ turn \in [Consumers ->
          [pc: {"idle", "dial", "hello", "init", "ready", "step", "close"},
           spec: BOOLEAN, hop: {0} \cup Hops, attempts: 0..MaxFailover,
           route: [peers: Seq(Peers), alts: Seq(Seq(Peers))], link: Seq(Conns),
           pos: Positions, n: 0..MaxSteps, len: 0..(PromptLen + DraftLen),
           keep: Positions \cup {None}]]
    /\ target \in [Consumers -> [peers: Seq(Peers), alts: Seq(Seq(Peers))]]
    /\ turns \in [Consumers -> 0..MaxTurns]
    /\ wire \in [Conns -> [st: {"up", "shut", "broken"}, up: Seq(Requests), down: Seq(Replies)]]
    /\ srv \in [Conns -> [st: {"closed", "new", "load", "reset", "open"},
                          peer: Peers \cup {None}, inst: Instances \cup {None},
                          pos: Positions, last: 0..MaxSteps]]
    /\ \A x \in Conns : srv[x].inst # None <=> srv[x].st \in {"reset", "open"}
    /\ kv \in [Instances -> Seq([pos: Positions, by: Conns])]
    /\ cache \in [Peers -> Instances \cup {None}]
    /\ hosts \in [Peers -> BOOLEAN] /\ hung \in [Peers -> BOOLEAN] /\ faults \in 0..MaxFaults
    /\ touched \in [Instances -> SUBSET Conns]

\* A reply that waits for the driver inside a step is the answer to that step:
\* read_with_timeout does not compare the seq of the reply with the one it sent
\* (chain.rs, step_with_truncate), so a late answer to an earlier step must
\* never be left on a link that is used on.
NoStaleReply ==
    \A c \in Consumers : turn[c].pc = "step" =>
        \A k \in DOMAIN wire[Cur(c)].down :
            wire[Cur(c)].down[k].t = "out" => wire[Cur(c)].down[k].n = turn[c].n

\* Between two steps every peer of the chain is where the driver is: its
\* index_pos is the driver's position, also after rollbacks (forward_server.rs,
\* kv_truncate_to; spec.rs, new_pos).
InStep ==
    /\ TypeOK
    /\ \A c \in Consumers : turn[c].pc = "ready" =>
         \A i \in DOMAIN turn[c].link :
            LET s == srv[turn[c].link[i]]
            IN s.st = "open" => s.pos = turn[c].pos /\ s.last = turn[c].n

OwnCells(x) == [k \in 1..srv[x].pos |-> [pos |-> k - 1, by |-> x]]

\* The KV cache a session works on holds its tokens, each at its own position
\* once, as long as no other connection used the same copy of the slice since
\* the session reset it (forward_server.rs, SessionInit and ForwardHidden).
CacheExact ==
    \A x \in Conns : srv[x].st = "open" /\ touched[srv[x].inst] = {x} =>
        kv[srv[x].inst] = OwnCells(x)

\* The same without the condition: a peer's KV cache is the session's own, as
\* the architecture document has it (docs/architecture.md, line 106).
SessionCacheIsOwn ==
    \A x \in Conns : srv[x].st = "open" => kv[srv[x].inst] = OwnCells(x)

\* A turn ends, whatever its peers do: it is answered, or a timeout, a refusal
\* or an end of file ends it (chain_driver.rs, run; chain.rs, *_with_timeout).
TurnEnds == \A c \in Consumers : turn[c].pc # "idle" ~> turn[c].pc = "idle"

\* Once no turn runs, every chain guard is given back, but those of a peer that
\* hangs (forward_server.rs: handle_connection returns at end of file and at
\* AbortSession, and its guard drops).
Guarded(x) == srv[x].st \in {"load", "reset", "open"}
GuardsReturn ==
    (\A c \in Consumers : turn[c].pc = "idle") ~>
        \/ \E c \in Consumers : turn[c].pc # "idle"
        \/ \A x \in Conns : Guarded(x) => Hung(x)

=============================================================================
