------------------------- MODULE ChainSessionProofs -------------------------
(* Proofs about the messages of a turn: what is under way on each link of a   *)
(* chain at each moment, hence that a reply is the answer to the step at hand, *)
(* that driver and peers agree on the position, and what stands in the KV      *)
(* caches.                                                                    *)
EXTENDS ChainSession, RecursionProofs

-----------------------------------------------------------------------------
(* The types of the values.                                                   *)

Route == [peers: Seq(Peers), alts: Seq(Seq(Peers))]
TurnRec ==
    [pc: {"idle", "dial", "hello", "init", "ready", "step", "close"},
     spec: BOOLEAN, hop: {0} \cup Hops, attempts: 0..MaxFailover,
     route: Route, link: Seq(Conns),
     pos: Positions, n: 0..MaxSteps, len: 0..(PromptLen + DraftLen),
     keep: Positions \cup {None}]
WireRec == [st: {"up", "shut", "broken"}, up: Seq(Requests), down: Seq(Replies)]
ServerRec == [st: {"closed", "new", "load", "reset", "open"},
              peer: Peers \cup {None}, inst: Instances \cup {None},
              pos: Positions, last: 0..MaxSteps]
Cell == [pos: Positions, by: Conns]

-----------------------------------------------------------------------------
(* A turn by itself.                                                          *)

\* The position a step leads to, and the bound of the position after n steps.
NewPos(t) == (IF t.keep = None THEN t.pos ELSE t.keep) + t.len
Reach(n) == IF n = 0 THEN 0 ELSE PromptLen + n * (DraftLen + 1)

\* A route names a peer, and a list of alternates, for every hop.
RouteOK(r) == r \in Route /\ Len(r.peers) = Len(Peer0) /\ Len(r.alts) = Len(Peer0)

\* The batch of drafts that was sent, or verified, last.
Drafted(t) == t.spec /\ t.n > 1 /\ t.keep = None

TurnOK(t) ==
    /\ RouteOK(t.route)
    /\ t.spec => DraftLen > 0
    /\ t.pc = "idle" => t.link = <<>>
    /\ t.pc \in {"dial", "hello", "init"} =>
         t.hop \in Hops /\ t.n = 0 /\ t.pos = 0 /\ t.keep = None
    /\ t.pc = "dial" => Len(t.link) = t.hop - 1
    /\ t.pc \in {"hello", "init"} => Len(t.link) = t.hop
    /\ t.pc \in {"ready", "step", "close"} => Len(t.link) = Len(Peer0)
    /\ t.pc \in {"step", "close"} => t.hop \in Hops
    /\ t.pc = "ready" => t.pos <= Reach(t.n) /\ (Drafted(t) => t.pos >= DraftLen)
    /\ t.pc = "step" =>
         /\ t.n > 0 /\ NewPos(t) <= Reach(t.n) /\ (t.keep # None => t.keep <= t.pos)
         /\ Drafted(t) => t.len = DraftLen
    /\ t.pc \in {"ready", "step"} /\ Drafted(t) => t.n < MaxSteps

-----------------------------------------------------------------------------
(* One link of a chain: its wire w and its server s.                          *)

\* The server is gone, or open after n steps at position p.
At(s, n, p) == s.st = "closed" \/ (s.st = "open" /\ s.last = n /\ s.pos = p)

\* Nothing is under way.
Quiet(w, s, n, p) == w.up = <<>> /\ w.down = <<>> /\ At(s, n, p)

\* Either the Hello, its answer, or nothing, of a connection that is broken.
Greets(w, s) ==
    /\ s.st \in {"closed", "new"}
    /\ w.up \in {<<>>, <<[t |-> "hello"]>>}
    /\ w.down \in {<<>>, <<[t |-> "hello"]>>}
    /\ w.up = <<>> \/ w.down = <<>>

Opens(w, s) ==
    \/ w.up = <<[t |-> "init"]>> /\ w.down = <<>> /\ s.st \in {"closed", "new"}
    \/ w.up = <<>> /\ w.down = <<>> /\ (s.st \in {"new", "load", "reset"} \/ At(s, 0, 0))
    \/ w.up = <<>> /\ w.down = <<[t |-> "ack"]>> /\ At(s, 0, 0)
    \/ w.up = <<>> /\ w.down = <<[t |-> "abort"]>> /\ s.st = "closed"

Step(t) == [t |-> "forward", n |-> t.n, len |-> t.len, keep |-> t.keep]

\* The step's request, a part of it, its answer, or nothing.
Steps(w, s, t) ==
    \/ w.up \in {<<Step(t)>>, <<[t |-> "part"]>>} /\ w.down = <<>> /\ At(s, t.n - 1, t.pos)
    \/ w.up = <<>> /\ w.down = <<>> /\ (At(s, t.n - 1, t.pos) \/ At(s, t.n, NewPos(t)))
    \/ w.up = <<>> /\ w.down = <<[t |-> "out", n |-> t.n]>> /\ At(s, t.n, NewPos(t))

\* The i-th link of the turn t: behind its current hop, at it, or before it.
LinkOK(t, i, w, s) ==
    /\ t.pc \in {"dial", "ready"} => Quiet(w, s, t.n, t.pos)
    /\ t.pc \in {"hello", "init"} /\ i < t.hop => Quiet(w, s, 0, 0)
    /\ t.pc = "hello" /\ i = t.hop => Greets(w, s)
    /\ t.pc = "init" /\ i = t.hop => Opens(w, s)
    /\ t.pc = "step" /\ i < t.hop => Quiet(w, s, t.n, NewPos(t))
    /\ t.pc = "step" /\ i = t.hop => Steps(w, s, t)
    /\ t.pc = "step" /\ i > t.hop => Quiet(w, s, t.n - 1, t.pos)

-----------------------------------------------------------------------------
(* One connection, whoever still holds it.                                    *)

\* A step waits alone, of a session that is open or over, and fits its position.
ConnOK(w, s) ==
    \A k \in DOMAIN w.up : w.up[k].t = "forward" =>
      LET m == w.up[k] IN
        /\ k = 1 /\ s.st \in {"closed", "open"} /\ m.n <= MaxSteps
        /\ s.st = "open" =>
             /\ (IF m.keep = None THEN s.pos ELSE m.keep) + m.len \in Positions
             /\ m.keep # None => m.keep <= s.pos

\* A handler that has not returned is of a peer, and has a copy of the slice
\* once that is loaded.
ServerOK(s) ==
    /\ s.inst # None <=> s.st \in {"reset", "open"}
    /\ s.st # "closed" => s.peer \in Peers

-----------------------------------------------------------------------------
(* The inductive invariant.                                                   *)

Links(c) == DOMAIN turn[c].link

\* A connection is one link of one chain.
LinksApart ==
    \A c, d \in Consumers : \A i \in Links(c), j \in Links(d) :
      turn[c].link[i] = turn[d].link[j] => c = d /\ i = j

AllTurnsOK == \A c \in Consumers : TurnOK(turn[c]) /\ RouteOK(target[c])

AllLinksOK ==
    \A c \in Consumers : \A i \in Links(c) :
      LinkOK(turn[c], i, wire[turn[c].link[i]], srv[turn[c].link[i]])

AllConnsOK == \A x \in Conns : ConnOK(wire[x], srv[x]) /\ ServerOK(srv[x])

\* A copy of a slice with an open session was used since its reset.
Used == \A x \in Conns : srv[x].st = "open" => touched[srv[x].inst] # {}

SessionInv ==
    TypeOK /\ AllTurnsOK /\ LinksApart /\ AllLinksOK /\ AllConnsOK /\ Used /\ CacheExact
-----------------------------------------------------------------------------
(* Facts about the constants, and about sequences of one message.             *)

LEMMA Constants ==
  /\ Len(Peer0) \in Nat /\ Len(Peer0) > 0 /\ Hops = 1..Len(Peer0)
  /\ PromptLen \in Nat /\ PromptLen > 0 /\ DraftLen \in Nat
  /\ MaxSteps \in Nat /\ MaxSteps > 0 /\ MaxFailover \in Nat /\ MaxTurns \in Nat
  /\ MaxFaults \in Nat /\ NumConns \in Nat
  /\ None \notin Peers /\ None \notin Conns /\ None \notin Instances /\ None \notin Positions
  /\ 0 \in Positions /\ Positions \subseteq Nat
<1> DEFINE Q == MaxSteps * (DraftLen + 1)
<1>1. Q \in Nat /\ PromptLen \in Nat
  BY SessionAssumption
<1>2. Positions = 0..(PromptLen + Q)
  BY DEF Positions
<1> HIDE DEF Q
<1>3. 0 \in Positions /\ Positions \subseteq Nat
  BY <1>1, <1>2
<1>4. Len(Peer0) \in Nat /\ Hops = 1..Len(Peer0)
  BY SessionAssumption DEF Hops
<1> QED BY <1>3, <1>4, SessionAssumption

LEMMA OneMessage ==
  ASSUME NEW m
  PROVE  /\ <<m>> # <<>> /\ Head(<<m>>) = m /\ Tail(<<m>>) = <<>>
         /\ Append(<<>>, m) = <<m>> /\ DOMAIN <<m>> = {1} /\ <<m>>[1] = m
  OBVIOUS

\* A step of one token, or of a batch of drafts, stays within the next bound.
LEMMA ReachSteps ==
  /\ \A n \in 0..MaxSteps : Reach(n) \in Positions /\ Reach(n) \in Nat
  /\ PromptLen <= Reach(1)
  /\ \A n \in 1..MaxSteps, k \in 0..(DraftLen + 1) : Reach(n) + k <= Reach(n + 1)
<1> DEFINE D == DraftLen + 1
<1>0. D \in Nat /\ D >= 1 /\ MaxSteps \in Nat /\ PromptLen \in Nat
  BY Constants
<1> HIDE DEF D
<1>1. \A n \in 0..MaxSteps : n * D \in Nat /\ n * D <= MaxSteps * D
  BY <1>0
<1>2. \A n \in Nat : (n + 1) * D = n * D + D
  BY <1>0
<1>3. \A n \in 0..MaxSteps : Reach(n) = IF n = 0 THEN 0 ELSE PromptLen + n * D
  BY DEF Reach, D
<1>4. Positions = 0..(PromptLen + MaxSteps * D)
  BY DEF Positions, D
<1>5. MaxSteps * D \in Nat
  BY <1>0
<1>6. \A n \in 0..MaxSteps : Reach(n) \in Positions /\ Reach(n) \in Nat
  BY <1>0, <1>1, <1>3, <1>4, <1>5
<1>7. PromptLen <= Reach(1)
  BY <1>0 DEF Reach, D
<1>8. ASSUME NEW n \in 1..MaxSteps, NEW k \in 0..D
      PROVE  Reach(n) + k <= Reach(n + 1)
  <2>1. Reach(n + 1) = PromptLen + (n + 1) * D
    BY <1>0 DEF Reach, D
  <2>2. Reach(n) = PromptLen + n * D /\ n * D \in Nat /\ n \in Nat
    BY <1>1, <1>3
  <2>3. (n + 1) * D = n * D + D
    BY <1>2, <2>2
  <2> HIDE DEF Reach
  <2> QED BY <1>0, <2>1, <2>2, <2>3
<1> QED BY <1>6, <1>7, <1>8 DEF D

-----------------------------------------------------------------------------
(* What the handler of a peer does to a link.                                 *)

\* What waits for the peer is the request of the link's phase, and is alone.
LEMMA NextRequest ==
  ASSUME NEW t \in TurnRec, NEW i \in Nat, NEW w, NEW s, LinkOK(t, i, w, s), w.up # <<>>
  PROVE  \/ t.pc \in {"idle", "close"}
         \/ t.pc \in {"hello", "init"} /\ i > t.hop
         \/ t.pc = "hello" /\ i = t.hop /\ w.up = <<[t |-> "hello"]>> /\ w.down = <<>>
         \/ t.pc = "init" /\ i = t.hop /\ w.up = <<[t |-> "init"]>> /\ w.down = <<>>
         \/ /\ t.pc = "step" /\ i = t.hop /\ w.up \in {<<Step(t)>>, <<[t |-> "part"]>>}
            /\ w.down = <<>> /\ At(s, t.n - 1, t.pos)
<1>1. t.hop \in Nat
  BY Constants DEF TurnRec
<1>2. i < t.hop \/ i = t.hop \/ i > t.hop
  BY <1>1
<1>3. t.pc \in {"idle", "dial", "hello", "init", "ready", "step", "close"}
  BY DEF TurnRec
<1> QED BY <1>1, <1>2, <1>3 DEF LinkOK, Quiet, Greets, Opens, Steps

\* The handler returns, with the request it had before it or without one; or
\* it is gone with its host.
LEMMA ClosedLink ==
  ASSUME NEW t \in TurnRec, NEW i \in Nat, NEW w, NEW s, NEW w2, NEW s2,
         LinkOK(t, i, w, s), s2.st = "closed", w2.down = w.down,
         \/ w2.up = w.up
         \/ w.up # <<>> /\ w2.up = Tail(w.up)
  PROVE  LinkOK(t, i, w2, s2)
<1>1. CASE w2.up = w.up
  BY <1>1 DEF LinkOK, Quiet, Greets, Opens, Steps, At
<1>2. CASE w.up # <<>> /\ w2.up = Tail(w.up)
  <2>1. \/ t.pc \in {"idle", "close"}
        \/ t.pc \in {"hello", "init"} /\ i > t.hop
        \/ t.pc \in {"hello", "init", "step"} /\ i = t.hop /\ w2.up = <<>> /\ w2.down = <<>>
    <3>1. Tail(<<Step(t)>>) = <<>> /\ Tail(<<[t |-> "part"]>>) = <<>>
          /\ Tail(<<[t |-> "hello"]>>) = <<>> /\ Tail(<<[t |-> "init"]>>) = <<>>
      OBVIOUS
    <3> QED BY <1>2, <3>1, NextRequest
  <2>2. i \in Nat /\ t.hop \in Nat
    BY Constants DEF TurnRec
  <2> QED BY <2>1, <2>2 DEF LinkOK, Quiet, Greets, Opens, Steps, At
<1> QED BY <1>1, <1>2

\* HandleHello: the answer is under way, or lost with the connection.
LEMMA HelloLink ==
  ASSUME NEW t \in TurnRec, NEW i \in Nat, NEW w, NEW s, NEW w2,
         LinkOK(t, i, w, s), w.up # <<>>, Head(w.up).t = "hello", w2.up = Tail(w.up),
         w2.down \in {w.down, Append(w.down, [t |-> "hello"])}
  PROVE  LinkOK(t, i, w2, s)
<1>1. i \in Nat /\ t.hop \in Nat
  BY Constants DEF TurnRec
<1>2. \/ t.pc \in {"idle", "close"}
      \/ t.pc \in {"hello", "init"} /\ i > t.hop
      \/ t.pc = "hello" /\ i = t.hop /\ w.up = <<[t |-> "hello"]>> /\ w.down = <<>>
  BY NextRequest DEF Step
<1>3. CASE t.pc = "hello" /\ i = t.hop /\ w.up = <<[t |-> "hello"]>> /\ w.down = <<>>
  <2>1. w2.up = <<>> /\ w2.down \in {<<>>, <<[t |-> "hello"]>>}
    BY <1>3
  <2>2. s.st \in {"closed", "new"}
    BY <1>3 DEF LinkOK, Greets
  <2> QED BY <1>1, <1>3, <2>1, <2>2 DEF LinkOK, Greets
<1> QED BY <1>1, <1>2, <1>3 DEF LinkOK

\* HandleInit, of a slice that is hosted.
LEMMA InitLink ==
  ASSUME NEW t \in TurnRec, NEW i \in Nat, NEW w, NEW s, NEW w2, NEW s2,
         LinkOK(t, i, w, s), w.up # <<>>, Head(w.up).t = "init", w2.up = Tail(w.up),
         \/ w2.down = w.down /\ s2.st \in {"load", "reset"}
         \/ /\ w2.down \in {w.down, Append(w.down, [t |-> "abort"])}
            /\ s2.st = "closed"
  PROVE  LinkOK(t, i, w2, s2)
<1>1. i \in Nat /\ t.hop \in Nat
  BY Constants DEF TurnRec
<1>2. \/ t.pc \in {"idle", "close"}
      \/ t.pc \in {"hello", "init"} /\ i > t.hop
      \/ t.pc = "init" /\ i = t.hop /\ w.up = <<[t |-> "init"]>> /\ w.down = <<>>
  BY NextRequest DEF Step
<1>3. CASE t.pc = "init" /\ i = t.hop /\ w.up = <<[t |-> "init"]>> /\ w.down = <<>>
  <2>1. w2.up = <<>> /\ w2.down \in {<<>>, <<[t |-> "abort"]>>}
    BY <1>3
  <2>2. Opens(w2, s2)
    <3>1. w2.down = <<>> \/ (w2.down = <<[t |-> "abort"]>> /\ s2.st = "closed")
      BY <1>3, <2>1
    <3> QED BY <2>1, <3>1 DEF Opens, At
  <2> QED BY <1>1, <1>3, <2>2 DEF LinkOK
<1> QED BY <1>1, <1>2, <1>3 DEF LinkOK

\* The slice is loaded, cannot be loaded, or is reset: in answer to an init.
LEMMA LoadLink ==
  ASSUME NEW t \in TurnRec, NEW i \in Nat, NEW w, NEW s, NEW w2, NEW s2,
         LinkOK(t, i, w, s), s.st \in {"load", "reset"}, w2.up = w.up,
         \/ w2.down = w.down /\ s2.st = "reset"
         \/ /\ w2.down \in {w.down, Append(w.down, [t |-> "abort"])}
            /\ s2.st = "closed"
         \/ /\ w2.down \in {w.down, Append(w.down, [t |-> "ack"])}
            /\ s2.st = "open" /\ s2.pos = 0 /\ s2.last = 0
  PROVE  LinkOK(t, i, w2, s2)
<1>1. i \in Nat /\ t.hop \in Nat
  BY Constants DEF TurnRec
<1>2. \/ t.pc \in {"idle", "close"}
      \/ t.pc \in {"hello", "init"} /\ i > t.hop
      \/ t.pc = "init" /\ i = t.hop /\ w.up = <<>> /\ w.down = <<>>
  <2>1. i < t.hop \/ i = t.hop \/ i > t.hop
    BY <1>1
  <2>2. t.pc \in {"idle", "dial", "hello", "init", "ready", "step", "close"}
    BY DEF TurnRec
  <2>3. \A n, p : ~At(s, n, p)
    BY DEF At
  <2> QED BY <1>1, <2>1, <2>2, <2>3 DEF LinkOK, Quiet, Greets, Opens, Steps
<1>3. CASE t.pc = "init" /\ i = t.hop /\ w.up = <<>> /\ w.down = <<>>
  <2>1. /\ w2.up = <<>>
        /\ \/ w2.down = <<>> /\ (s2.st = "reset" \/ At(s2, 0, 0))
           \/ w2.down = <<[t |-> "abort"]>> /\ s2.st = "closed"
           \/ w2.down = <<[t |-> "ack"]>> /\ At(s2, 0, 0)
    <3>1. Append(<<>>, [t |-> "abort"]) = <<[t |-> "abort"]>>
          /\ Append(<<>>, [t |-> "ack"]) = <<[t |-> "ack"]>>
      OBVIOUS
    <3> QED BY <1>3, <3>1 DEF At
  <2>2. Opens(w2, s2)
    BY <2>1 DEF Opens
  <2> QED BY <1>1, <1>3, <2>2 DEF LinkOK
<1> QED BY <1>1, <1>2, <1>3 DEF LinkOK

\* HandleForward: the session moves on by the step, and its answer is under way,
\* or lost.
LEMMA ForwardLink ==
  ASSUME NEW t \in TurnRec, NEW i \in Nat, NEW w, NEW s, NEW w2, NEW s2,
         LinkOK(t, i, w, s), s.st = "open", w.up # <<>>, Head(w.up).t = "forward",
         w2.up = Tail(w.up),
         w2.down \in {w.down, Append(w.down, [t |-> "out", n |-> Head(w.up).n])},
         s2.st = "open", s2.last = Head(w.up).n,
         s2.pos = (IF Head(w.up).keep = None THEN s.pos ELSE Head(w.up).keep)
                    + Head(w.up).len
  PROVE  LinkOK(t, i, w2, s2)
<1>1. i \in Nat /\ t.hop \in Nat
  BY Constants DEF TurnRec
<1>2. \/ t.pc \in {"idle", "close"}
      \/ t.pc \in {"hello", "init"} /\ i > t.hop
      \/ t.pc = "step" /\ i = t.hop /\ w.up = <<Step(t)>> /\ w.down = <<>>
         /\ At(s, t.n - 1, t.pos)
  BY NextRequest
<1>3. CASE t.pc = "step" /\ i = t.hop /\ w.up = <<Step(t)>> /\ w.down = <<>>
           /\ At(s, t.n - 1, t.pos)
  <2>1. Head(w.up) = Step(t) /\ Tail(w.up) = <<>> /\ s.pos = t.pos
    BY <1>3 DEF At
  <2>2. w2.up = <<>> /\ w2.down \in {<<>>, <<[t |-> "out", n |-> t.n]>>}
    BY <1>3, <2>1 DEF Step
  <2>3. s2.last = t.n /\ s2.pos = NewPos(t)
    BY <2>1 DEF Step, NewPos
  <2>4. Steps(w2, s2, t)
    BY <2>2, <2>3 DEF Steps, At
  <2> QED BY <1>1, <1>3, <2>4 DEF LinkOK
<1> QED BY <1>1, <1>2, <1>3 DEF LinkOK

\* Break: what was under way is lost.
LEMMA BrokenLink ==
  ASSUME NEW t \in TurnRec, NEW i \in Nat, NEW w, NEW s, NEW w2,
         LinkOK(t, i, w, s), w2.up = <<>>, w2.down = <<>>
  PROVE  LinkOK(t, i, w2, s)
BY DEF LinkOK, Quiet, Greets, Opens, Steps, At
-----------------------------------------------------------------------------
(* From a link and a connection to the whole state.                           *)

LEMMA Types ==
  ASSUME TypeOK
  PROVE  /\ turn \in [Consumers -> TurnRec] /\ target \in [Consumers -> Route]
         /\ wire \in [Conns -> WireRec] /\ srv \in [Conns -> ServerRec]
         /\ kv \in [Instances -> Seq(Cell)] /\ cache \in [Peers -> Instances \cup {None}]
         /\ touched \in [Instances -> SUBSET Conns]
         /\ hosts \in [Peers -> BOOLEAN] /\ hung \in [Peers -> BOOLEAN]
         /\ faults \in 0..MaxFaults /\ turns \in [Consumers -> 0..MaxTurns]
         /\ \A x \in Conns : srv[x].inst # None <=> srv[x].st \in {"reset", "open"}
BY DEF TypeOK, TurnRec, Route, WireRec, ServerRec, Cell

\* What a step of a handler changes besides its own link and connection.
ServerSide ==
  /\ kv' \in [Instances -> Seq(Cell)] /\ cache' \in [Peers -> Instances \cup {None}]
  /\ touched' \in [Instances -> SUBSET Conns]
  /\ hosts' \in [Peers -> BOOLEAN] /\ hung' \in [Peers -> BOOLEAN]
  /\ faults' \in 0..MaxFaults
  /\ Used' /\ CacheExact'

\* A step at one connection, of its handler or of the network.
LEMMA ConnStep ==
  ASSUME SessionInv, NEW x \in Conns, NEW w2 \in WireRec, NEW s2 \in ServerRec,
         ServerOK(s2),
         wire' = [wire EXCEPT ![x] = w2], srv' = [srv EXCEPT ![x] = s2],
         UNCHANGED <<turn, target, turns>>,
         \A t \in TurnRec, i \in Nat :
           LinkOK(t, i, wire[x], srv[x]) => LinkOK(t, i, w2, s2),
         ConnOK(w2, s2), ServerSide
  PROVE  SessionInv'
<1>0. /\ wire \in [Conns -> WireRec] /\ srv \in [Conns -> ServerRec]
      /\ turn \in [Consumers -> TurnRec]
      /\ \A y \in Conns : srv[y].inst # None <=> srv[y].st \in {"reset", "open"}
  BY Types DEF SessionInv
<1>1. /\ wire' \in [Conns -> WireRec] /\ srv' \in [Conns -> ServerRec]
      /\ wire'[x] = w2 /\ srv'[x] = s2
      /\ \A y \in Conns \ {x} : wire'[y] = wire[y] /\ srv'[y] = srv[y]
  BY <1>0
<1>2. \A y \in Conns : srv'[y].inst # None <=> srv'[y].st \in {"reset", "open"}
  BY <1>0, <1>1 DEF ServerOK
<1>3. TypeOK'
  BY <1>1, <1>2 DEF SessionInv, TypeOK, ServerSide, TurnRec, Route, WireRec, ServerRec, Cell
<1>4. AllTurnsOK' /\ LinksApart'
  BY DEF SessionInv, AllTurnsOK, LinksApart, Links
<1>5. AllLinksOK'
  <2> SUFFICES ASSUME NEW c \in Consumers, NEW i \in DOMAIN turn[c].link
               PROVE  LET y == turn[c].link[i] IN LinkOK(turn[c], i, wire'[y], srv'[y])
    BY DEF AllLinksOK, Links
  <2> DEFINE y == turn[c].link[i]
  <2>1. turn[c] \in TurnRec /\ i \in Nat /\ y \in Conns
    <3>1. turn[c].link \in Seq(Conns)
      BY <1>0 DEF TurnRec
    <3> QED BY <1>0, <3>1
  <2>2. LinkOK(turn[c], i, wire[y], srv[y])
    BY DEF SessionInv, AllLinksOK, Links
  <2> QED BY <1>1, <2>1, <2>2
<1>6. AllConnsOK'
  BY <1>1 DEF SessionInv, AllConnsOK
<1> QED BY <1>3, <1>4, <1>5, <1>6 DEF SessionInv, ServerSide

\* A step that leaves the caches, and every open session, as they are.
LEMMA CachesStay ==
  ASSUME SessionInv, UNCHANGED <<kv, touched>>,
         \A y \in Conns : srv'[y].st = "open" => srv'[y] = srv[y]
  PROVE  Used' /\ CacheExact'
<1>1. Used'
  BY DEF SessionInv, Used
<1>2. CacheExact'
  BY DEF SessionInv, CacheExact, OwnCells
<1> QED BY <1>1, <1>2
-----------------------------------------------------------------------------
(* The operators on the wire.                                                 *)

LEMMA TakenIs ==
  ASSUME NEW w \in [Conns -> WireRec], NEW x \in Conns, w[x].up # <<>>
  PROVE  \E w2 \in WireRec : /\ Taken(w, x) = [w EXCEPT ![x] = w2]
                             /\ w2.st = w[x].st /\ w2.up = Tail(w[x].up)
                             /\ w2.down = w[x].down
<1> DEFINE w2 == [w[x] EXCEPT !.up = Tail(@)]
<1>1. Tail(w[x].up) \in Seq(Requests)
  BY DEF WireRec
<1>2. w2 \in WireRec /\ w2.st = w[x].st /\ w2.up = Tail(w[x].up) /\ w2.down = w[x].down
  BY <1>1 DEF WireRec
<1>3. Taken(w, x) = [w EXCEPT ![x] = w2]
  BY DEF Taken
<1> QED BY <1>2, <1>3

LEMMA AnswerIs ==
  ASSUME NEW w \in [Conns -> WireRec], NEW x \in Conns, NEW m \in Replies
  PROVE  \E w2 \in WireRec : /\ Answer(w, x, m) = [w EXCEPT ![x] = w2]
                             /\ w2.st = w[x].st /\ w2.up = w[x].up
                             /\ w2.down \in {w[x].down, Append(w[x].down, m)}
<1> DEFINE d == IF w[x].st = "up" THEN Append(w[x].down, m) ELSE w[x].down
           w2 == [w[x] EXCEPT !.down = d]
<1>1. d \in Seq(Replies) /\ d \in {w[x].down, Append(w[x].down, m)}
  BY DEF WireRec
<1>2. Answer(w, x, m) = [w EXCEPT ![x] = w2]
  BY DEF Answer
<1> HIDE DEF d
<1>3. w2 \in WireRec /\ w2.st = w[x].st /\ w2.up = w[x].up /\ w2.down = d
  BY <1>1 DEF WireRec
<1> QED BY <1>1, <1>2, <1>3

LEMMA TakenAnswered ==
  ASSUME NEW w \in [Conns -> WireRec], NEW x \in Conns, w[x].up # <<>>, NEW m \in Replies
  PROVE  \E w2 \in WireRec : /\ Answer(Taken(w, x), x, m) = [w EXCEPT ![x] = w2]
                             /\ w2.up = Tail(w[x].up)
                             /\ w2.down \in {w[x].down, Append(w[x].down, m)}
<1>1. PICK w1 \in WireRec : /\ Taken(w, x) = [w EXCEPT ![x] = w1]
                            /\ w1.up = Tail(w[x].up) /\ w1.down = w[x].down
  BY TakenIs
<1> DEFINE v == Taken(w, x)
<1>2. v \in [Conns -> WireRec] /\ v[x] = w1
  BY <1>1
<1> HIDE DEF v
<1>3. PICK w2 \in WireRec : /\ Answer(v, x, m) = [v EXCEPT ![x] = w2]
                            /\ w2.up = v[x].up
                            /\ w2.down \in {v[x].down, Append(v[x].down, m)}
  BY <1>2, AnswerIs
<1>4. [v EXCEPT ![x] = w2] = [w EXCEPT ![x] = w2]
  BY <1>1 DEF v
<1> QED BY <1>1, <1>2, <1>3, <1>4 DEF v

LEMMA AskIs ==
  ASSUME NEW w \in [Conns -> WireRec], NEW x \in Conns, NEW m \in Requests
  PROVE  \E w2 \in WireRec : /\ Ask(w, x, m) = [w EXCEPT ![x] = w2]
                             /\ w2.st = w[x].st /\ w2.down = w[x].down
                             /\ w2.up \in {w[x].up, Append(w[x].up, m)}
<1> DEFINE d == IF w[x].st = "up" THEN Append(w[x].up, m) ELSE w[x].up
           w2 == [w[x] EXCEPT !.up = d]
<1>1. d \in Seq(Requests) /\ d \in {w[x].up, Append(w[x].up, m)}
  BY DEF WireRec
<1>2. Ask(w, x, m) = [w EXCEPT ![x] = w2]
  BY DEF Ask
<1> HIDE DEF d
<1>3. w2 \in WireRec /\ w2.st = w[x].st /\ w2.down = w[x].down /\ w2.up = d
  BY <1>1 DEF WireRec
<1> QED BY <1>1, <1>2, <1>3

\* A step waits alone: behind the first request there is none.
LEMMA ConnTail ==
  ASSUME NEW w \in WireRec, NEW s, NEW w2, NEW s2, ConnOK(w, s),
         w.up # <<>>, w2.up = Tail(w.up)
  PROVE  ConnOK(w2, s2)
<1>1. w.up \in Seq(Requests)
  BY DEF WireRec
<1>2. ASSUME NEW k \in DOMAIN Tail(w.up)
      PROVE  k + 1 \in DOMAIN w.up /\ Tail(w.up)[k] = w.up[k + 1] /\ k + 1 # 1
  BY <1>1
<1> QED BY <1>2 DEF ConnOK

\* A handler that returned takes no step any more.
LEMMA ConnClosed ==
  ASSUME NEW w, NEW s, NEW w2, NEW s2, ConnOK(w, s), w2.up = w.up, s2.st = "closed"
  PROVE  ConnOK(w2, s2)
BY DEF ConnOK

\* No step waits while a session is being opened.
LEMMA ConnOpening ==
  ASSUME NEW w, NEW s, NEW w2, NEW s2, ConnOK(w, s), w2.up = w.up,
         s.st \in {"load", "reset"}
  PROVE  ConnOK(w2, s2)
BY DEF ConnOK
-----------------------------------------------------------------------------
(* The steps of a handler.                                                    *)

LEMMA MessageTypes ==
  /\ [t |-> "hello"] \in Replies /\ [t |-> "ack"] \in Replies /\ [t |-> "abort"] \in Replies
  /\ \A n \in Nat : [t |-> "out", n |-> n] \in Replies
  /\ [t |-> "hello"] \in Requests /\ [t |-> "init"] \in Requests
  /\ [t |-> "abort"] \in Requests /\ [t |-> "part"] \in Requests
BY DEF Replies, Requests

LEMMA NoServerType ==
  NoServer \in ServerRec /\ NoServer.st = "closed" /\ NoServer.inst = None /\ ServerOK(NoServer)
BY Constants DEF NoServer, ServerRec, ServerOK

\* What every handler step starts from.
LEMMA Served ==
  ASSUME SessionInv, NEW x \in Conns
  PROVE  /\ wire[x] \in WireRec /\ srv[x] \in ServerRec /\ ConnOK(wire[x], srv[x])
         /\ wire[x].up \in Seq(Requests) /\ ServerOK(srv[x])
         /\ srv[x].st # "closed" => srv[x].peer \in Peers
         /\ srv[x].st \in {"reset", "open"} => srv[x].inst \in Instances
<1>1. wire[x] \in WireRec /\ srv[x] \in ServerRec
  BY Types DEF SessionInv
<1>2. ConnOK(wire[x], srv[x]) /\ ServerOK(srv[x])
  BY DEF SessionInv, AllConnsOK
<1>3. srv[x].inst \in Instances \cup {None} /\ wire[x].up \in Seq(Requests)
  BY <1>1 DEF WireRec, ServerRec
<1> QED BY <1>1, <1>2, <1>3 DEF ServerOK

LEMMA HandleHelloKeeps ==
  ASSUME SessionInv, NEW x \in Conns, HandleHello(x)
  PROVE  SessionInv'
<1>0. /\ wire[x].up # <<>> /\ Head(wire[x].up).t = "hello" /\ UNCHANGED <<srv, kv, touched>>
      /\ UNCHANGED <<turn, target, turns, cache, hosts, hung, faults>>
      /\ wire' = Answer(Taken(wire, x), x, [t |-> "hello"])
      /\ wire \in [Conns -> WireRec]
  BY Types DEF HandleHello, HasReq, Req, consumerVars, peerVars, envVars, SessionInv
<1>1. PICK w2 \in WireRec :
        /\ wire' = [wire EXCEPT ![x] = w2] /\ w2.up = Tail(wire[x].up)
        /\ w2.down \in {wire[x].down, Append(wire[x].down, [t |-> "hello"])}
  BY <1>0, TakenAnswered, MessageTypes
<1>2. srv' = [srv EXCEPT ![x] = srv[x]]
  BY <1>0, Types DEF SessionInv
<1>3. ConnOK(w2, srv[x])
  BY <1>0, <1>1, Served, ConnTail
<1>4. \A t \in TurnRec, i \in Nat :
        LinkOK(t, i, wire[x], srv[x]) => LinkOK(t, i, w2, srv[x])
  BY <1>0, <1>1, HelloLink
<1>5. ServerSide
  BY <1>0, CachesStay, Types DEF SessionInv, ServerSide
<1> QED BY <1>0, <1>1, <1>2, <1>3, <1>4, <1>5, Served, ConnStep

\* The handler returns: HandleAbort, HandleEof, ForwardFails, and every other
\* end but one with an answer.
LEMMA ReturnKeeps ==
  ASSUME SessionInv, NEW x \in Conns, NEW w2 \in WireRec,
         wire' = [wire EXCEPT ![x] = w2], srv' = Closed(srv, x),
         UNCHANGED <<turn, target, turns>>, w2.down = wire[x].down,
         \/ w2.up = wire[x].up
         \/ wire[x].up # <<>> /\ w2.up = Tail(wire[x].up),
         ServerSide
  PROVE  SessionInv'
<1>1. ConnOK(w2, NoServer)
  BY Served, ConnTail, ConnClosed, NoServerType
<1>2. \A t \in TurnRec, i \in Nat :
        LinkOK(t, i, wire[x], srv[x]) => LinkOK(t, i, w2, NoServer)
  BY NoServerType, ClosedLink
<1>3. srv' = [srv EXCEPT ![x] = NoServer]
  BY DEF Closed
<1> QED BY <1>1, <1>2, <1>3, NoServerType, ConnStep

LEMMA HandleAbortKeeps ==
  ASSUME SessionInv, NEW x \in Conns, HandleAbort(x)
  PROVE  SessionInv'
<1>0. /\ wire[x].up # <<>> /\ wire' = Taken(wire, x) /\ srv' = Closed(srv, x)
      /\ UNCHANGED <<turn, target, turns, kv, touched, cache, hosts, hung, faults>>
      /\ wire \in [Conns -> WireRec] /\ srv \in [Conns -> ServerRec]
  BY Types DEF HandleAbort, HasReq, consumerVars, envVars, SessionInv
<1>1. PICK w2 \in WireRec : /\ wire' = [wire EXCEPT ![x] = w2]
                            /\ w2.up = Tail(wire[x].up) /\ w2.down = wire[x].down
  BY <1>0, TakenIs
<1>2. \A y \in Conns : srv'[y].st = "open" => srv'[y] = srv[y]
  BY <1>0, NoServerType DEF Closed
<1>3. ServerSide
  BY <1>0, <1>2, CachesStay, Types DEF SessionInv, ServerSide
<1> QED BY <1>0, <1>1, <1>3, ReturnKeeps

LEMMA HandleEofKeeps ==
  ASSUME SessionInv, NEW x \in Conns, HandleEof(x)
  PROVE  SessionInv'
<1>0. /\ wire' = wire /\ srv' = Closed(srv, x)
      /\ UNCHANGED <<turn, target, turns, kv, touched, cache, hosts, hung, faults>>
      /\ wire \in [Conns -> WireRec] /\ srv \in [Conns -> ServerRec]
  BY Types DEF HandleEof, consumerVars, envVars, SessionInv
<1>1. wire' = [wire EXCEPT ![x] = wire[x]]
  BY <1>0
<1>2. \A y \in Conns : srv'[y].st = "open" => srv'[y] = srv[y]
  BY <1>0, NoServerType DEF Closed
<1>3. ServerSide
  BY <1>0, <1>2, CachesStay, Types DEF SessionInv, ServerSide
<1> QED BY <1>0, <1>1, <1>3, Served, ReturnKeeps

LEMMA HandleInitKeeps ==
  ASSUME SessionInv, NEW x \in Conns, HandleInit(x)
  PROVE  SessionInv'
<1>0. /\ wire[x].up # <<>> /\ Head(wire[x].up).t = "init"
      /\ UNCHANGED <<turn, target, turns, kv, touched, cache, hosts, hung, faults>>
      /\ wire \in [Conns -> WireRec] /\ srv \in [Conns -> ServerRec]
      /\ cache \in [Peers -> Instances \cup {None}]
      /\ srv[x].st # "closed"
  BY Types DEF HandleInit, HasReq, Req, Listening, consumerVars, envVars, SessionInv
<1>1. CASE /\ wire' = Taken(wire, x)
           /\ srv' = [srv EXCEPT ![x].st = IF cache[srv[x].peer] = None THEN "load" ELSE "reset",
                                 ![x].inst = cache[srv[x].peer]]
  <2> DEFINE i == cache[srv[x].peer]
             st == IF i = None THEN "load" ELSE "reset"
             s2 == [srv[x] EXCEPT !.st = st, !.inst = i]
  <2>1. PICK w2 \in WireRec : /\ wire' = [wire EXCEPT ![x] = w2]
                              /\ w2.up = Tail(wire[x].up) /\ w2.down = wire[x].down
    BY <1>0, <1>1, TakenIs
  <2>2. i \in Instances \cup {None} /\ st \in {"load", "reset"} /\ (i = None <=> st = "load")
    BY <1>0, Served
  <2>3. srv' = [srv EXCEPT ![x] = s2]
    BY <1>0, <1>1
  <2> HIDE DEF i, st
  <2>4. s2 \in ServerRec /\ s2.st = st /\ s2.inst = i /\ s2.peer = srv[x].peer
    BY <1>0, <2>2 DEF ServerRec
  <2> HIDE DEF s2
  <2>5. ConnOK(w2, s2)
    BY <1>0, <2>1, Served, ConnTail
  <2>6. \A t \in TurnRec, j \in Nat :
          LinkOK(t, j, wire[x], srv[x]) => LinkOK(t, j, w2, s2)
    BY <1>0, <2>1, <2>2, <2>4, InitLink
  <2>7. \A y \in Conns : srv'[y].st = "open" => srv'[y] = srv[y]
    BY <1>0, <2>2, <2>3, <2>4
  <2>8. ServerSide
    BY <1>0, <2>7, CachesStay, Types DEF SessionInv, ServerSide
  <2>9. ServerOK(s2)
    BY <1>0, <2>2, <2>4, Served DEF ServerOK
  <2> QED BY <1>0, <2>1, <2>3, <2>4, <2>5, <2>6, <2>8, <2>9, ConnStep
<1>2. CASE /\ wire' = Answer(Taken(wire, x), x, [t |-> "abort"])
           /\ srv' = Closed(srv, x)
  <2>1. PICK w2 \in WireRec :
          /\ wire' = [wire EXCEPT ![x] = w2] /\ w2.up = Tail(wire[x].up)
          /\ w2.down \in {wire[x].down, Append(wire[x].down, [t |-> "abort"])}
    BY <1>0, <1>2, TakenAnswered, MessageTypes
  <2>2. ConnOK(w2, NoServer)
    BY <1>0, <2>1, Served, ConnTail
  <2>3. \A t \in TurnRec, j \in Nat :
          LinkOK(t, j, wire[x], srv[x]) => LinkOK(t, j, w2, NoServer)
    BY <1>0, <2>1, NoServerType, InitLink
  <2>4. \A y \in Conns : srv'[y].st = "open" => srv'[y] = srv[y]
    BY <1>0, <1>2, NoServerType DEF Closed
  <2>5. ServerSide
    BY <1>0, <2>4, CachesStay, Types DEF SessionInv, ServerSide
  <2>6. srv' = [srv EXCEPT ![x] = NoServer]
    BY <1>2 DEF Closed
  <2> QED BY <1>0, <2>1, <2>2, <2>3, <2>5, <2>6, NoServerType, ConnStep
<1> QED BY <1>0, <1>1, <1>2 DEF HandleInit
LEMMA LoadSliceKeeps ==
  ASSUME SessionInv, NEW x \in Conns, LoadSlice(x)
  PROVE  SessionInv'
<1>0. PICK i \in Instances :
        /\ \A y \in Conns : srv[y].inst # i
        /\ kv' = [kv EXCEPT ![i] = <<>>] /\ touched' = [touched EXCEPT ![i] = {}]
        /\ cache' = [cache EXCEPT ![srv[x].peer] = i]
        /\ srv' = [srv EXCEPT ![x].st = "reset", ![x].inst = i]
  BY DEF LoadSlice
<1>1. /\ srv[x].st = "load" /\ wire' = wire
      /\ UNCHANGED <<turn, target, turns, hosts, hung, faults>>
      /\ wire \in [Conns -> WireRec] /\ srv \in [Conns -> ServerRec]
      /\ kv \in [Instances -> Seq(Cell)] /\ touched \in [Instances -> SUBSET Conns]
      /\ cache \in [Peers -> Instances \cup {None}]
  BY Types DEF LoadSlice, consumerVars, envVars, SessionInv
<1> DEFINE s2 == [srv[x] EXCEPT !.st = "reset", !.inst = i]
<1>2. s2 \in ServerRec /\ s2.st = "reset" /\ s2.inst = i /\ s2.peer = srv[x].peer
  BY <1>1 DEF ServerRec
<1>3. srv' = [srv EXCEPT ![x] = s2]
  BY <1>0, <1>1
<1> HIDE DEF s2
<1>4. ServerOK(s2)
  BY <1>1, <1>2, Served, Constants DEF ServerOK
<1>5. \A y \in Conns : srv'[y].st = "open" =>
        /\ srv'[y] = srv[y] /\ srv[y].inst \in Instances
        /\ kv'[srv[y].inst] = kv[srv[y].inst] /\ touched'[srv[y].inst] = touched[srv[y].inst]
  BY <1>0, <1>1, <1>2, <1>3, Served
<1>6. Used'
  BY <1>5 DEF SessionInv, Used
<1>7. CacheExact'
  BY <1>5 DEF SessionInv, CacheExact, OwnCells
<1>8. <<>> \in Seq(Cell)
  OBVIOUS
<1>9. ServerSide
  BY <1>0, <1>1, <1>6, <1>7, <1>8, Types DEF SessionInv, ServerSide
<1>10. wire' = [wire EXCEPT ![x] = wire[x]]
  BY <1>1
<1>11. ConnOK(wire[x], s2)
  BY <1>1, Served, ConnOpening
<1>12. \A t \in TurnRec, j \in Nat :
         LinkOK(t, j, wire[x], srv[x]) => LinkOK(t, j, wire[x], s2)
  BY <1>1, <1>2, LoadLink
<1> QED BY <1>1, <1>2, <1>3, <1>4, <1>9, <1>10, <1>11, <1>12, Served, ConnStep

LEMMA LoadFailsKeeps ==
  ASSUME SessionInv, NEW x \in Conns, LoadFails(x)
  PROVE  SessionInv'
<1>0. /\ srv[x].st = "load" /\ wire' = Answer(wire, x, [t |-> "abort"])
      /\ srv' = Closed(srv, x) /\ faults < MaxFaults /\ faults' = faults + 1
      /\ UNCHANGED <<turn, target, turns, kv, cache, touched, hosts, hung>>
      /\ wire \in [Conns -> WireRec] /\ srv \in [Conns -> ServerRec]
  BY Types DEF LoadFails, Fault, consumerVars, SessionInv
<1>1. PICK w2 \in WireRec :
        /\ wire' = [wire EXCEPT ![x] = w2] /\ w2.up = wire[x].up
        /\ w2.down \in {wire[x].down, Append(wire[x].down, [t |-> "abort"])}
  BY <1>0, AnswerIs, MessageTypes
<1>2. ConnOK(w2, NoServer)
  BY <1>1, Served, ConnClosed, NoServerType
<1>3. \A t \in TurnRec, j \in Nat :
        LinkOK(t, j, wire[x], srv[x]) => LinkOK(t, j, w2, NoServer)
  BY <1>0, <1>1, NoServerType, LoadLink
<1>4. \A y \in Conns : srv'[y].st = "open" => srv'[y] = srv[y]
  BY <1>0, NoServerType DEF Closed
<1>5. faults' \in 0..MaxFaults
  BY <1>0, Types, Constants DEF SessionInv
<1>6. ServerSide
  BY <1>0, <1>4, <1>5, CachesStay, Types DEF SessionInv, ServerSide
<1>7. srv' = [srv EXCEPT ![x] = NoServer]
  BY <1>0 DEF Closed
<1> QED BY <1>0, <1>1, <1>2, <1>3, <1>6, <1>7, NoServerType, ConnStep

LEMMA ResetSliceKeeps ==
  ASSUME SessionInv, NEW x \in Conns, ResetSlice(x)
  PROVE  SessionInv'
<1> DEFINE i == srv[x].inst
           s2 == [srv[x] EXCEPT !.st = "open", !.pos = 0, !.last = 0]
<1>1. /\ srv[x].st = "reset" /\ i \in Instances
      /\ kv' = [kv EXCEPT ![i] = <<>>] /\ touched' = [touched EXCEPT ![i] = {x}]
      /\ wire' = Answer(wire, x, [t |-> "ack"])
      /\ UNCHANGED <<turn, target, turns, cache, hosts, hung, faults>>
      /\ wire \in [Conns -> WireRec] /\ srv \in [Conns -> ServerRec]
      /\ kv \in [Instances -> Seq(Cell)] /\ touched \in [Instances -> SUBSET Conns]
  BY Types, Served DEF ResetSlice, Reset, consumerVars, envVars, SessionInv
<1>2. srv' = [srv EXCEPT ![x] = s2]
  BY <1>1 DEF ResetSlice
<1>3. /\ s2 \in ServerRec /\ s2.st = "open" /\ s2.inst = i /\ s2.peer = srv[x].peer
      /\ s2.pos = 0 /\ s2.last = 0
  <2>1. srv[x] \in ServerRec /\ 0 \in Positions /\ 0 \in 0..MaxSteps
    BY <1>1, Constants
  <2> QED BY ONLY <2>1 DEF ServerRec
<1> HIDE DEF s2, i
<1>4. ServerOK(s2)
  BY <1>1, <1>3, Served, Constants DEF ServerOK
<1>5. PICK w2 \in WireRec :
        /\ wire' = [wire EXCEPT ![x] = w2] /\ w2.up = wire[x].up
        /\ w2.down \in {wire[x].down, Append(wire[x].down, [t |-> "ack"])}
  BY <1>1, AnswerIs, MessageTypes
<1>6. \A y \in Conns \ {x} : srv'[y] = srv[y]
                           /\ (srv[y].st = "open" => srv[y].inst \in Instances)
  BY <1>1, <1>2, Served
<1>7. Used'
  BY <1>1, <1>2, <1>3, <1>6 DEF SessionInv, Used
<1>8. CacheExact'
  <2> SUFFICES ASSUME NEW y \in Conns, srv'[y].st = "open", touched'[srv'[y].inst] = {y}
               PROVE  kv'[srv'[y].inst] = OwnCells(y)'
    BY DEF CacheExact
  <2>1. CASE y = x
    <3>1. srv'[y].pos = 0 /\ kv'[srv'[y].inst] = <<>>
      BY <1>1, <1>2, <1>3, <2>1
    <3>2. [k \in 1..0 |-> [pos |-> k - 1, by |-> y]] = <<>>
      OBVIOUS
    <3> QED BY <3>1, <3>2 DEF OwnCells
  <2>2. CASE y # x
    <3>1. srv'[y] = srv[y] /\ srv[y].inst # i
      BY <1>1, <1>6, <2>2
    <3>2. kv'[srv[y].inst] = kv[srv[y].inst] /\ touched'[srv[y].inst] = touched[srv[y].inst]
      BY <1>1, <1>6, <2>2, <3>1
    <3> QED BY <3>1, <3>2 DEF SessionInv, CacheExact, OwnCells
  <2> QED BY <2>1, <2>2
<1>9. kv' \in [Instances -> Seq(Cell)] /\ touched' \in [Instances -> SUBSET Conns]
  BY <1>1
<1>10. ServerSide
  BY <1>1, <1>7, <1>8, <1>9, Types DEF SessionInv, ServerSide
<1>11. ConnOK(w2, s2)
  BY <1>1, <1>5, Served, ConnOpening
<1>12. \A t \in TurnRec, j \in Nat :
         LinkOK(t, j, wire[x], srv[x]) => LinkOK(t, j, w2, s2)
  BY <1>1, <1>3, <1>5, LoadLink
<1> QED BY <1>1, <1>2, <1>3, <1>4, <1>5, <1>10, <1>11, <1>12, ConnStep
-----------------------------------------------------------------------------
(* The cells of a session, cut at a position and continued from there.        *)

Run(x, p) == [k \in 1..p |-> [pos |-> k - 1, by |-> x]]

LEMMA RunIs ==
  ASSUME NEW x, NEW p \in Nat
  PROVE  /\ Run(x, p) \in Seq([pos : Nat, by : {x}]) /\ Len(Run(x, p)) = p
         /\ \A k \in 1..p : Run(x, p)[k] = [pos |-> k - 1, by |-> x]
<1>1. \A k \in 1..p : k - 1 \in Nat
  OBVIOUS
<1> QED BY <1>1 DEF Run

LEMMA CutRun ==
  ASSUME NEW x, NEW p \in Nat, NEW keep \in Nat, keep <= p
  PROVE  CellsBefore(Run(x, p), keep) = Run(x, keep)
<1> DEFINE S == [pos : Nat, by : {x}]
<1>1. /\ Run(x, p) \in Seq(S) /\ Len(Run(x, p)) = p
      /\ \A k \in 1..p : Run(x, p)[k] = [pos |-> k - 1, by |-> x]
  BY RunIs
<1> HIDE DEF S
<1>2. \A k \in 1..Len(Run(x, p)) : Run(x, p)[k].pos < keep <=> k <= keep
  BY <1>1
<1>3. keep \in 0..Len(Run(x, p))
  BY <1>1
<1>4. CellsBefore(Run(x, p), keep) = SubSeq(Run(x, p), 1, keep)
  BY <1>1, <1>2, <1>3, CellsBeforeIsPrefix
<1>5. SubSeq(Run(x, p), 1, keep) = Run(x, keep)
  BY <1>1 DEF Run
<1> QED BY <1>4, <1>5

LEMMA LongerRun ==
  ASSUME NEW x, NEW p \in Nat, NEW n \in Nat
  PROVE  Run(x, p) \o [k \in 1..n |-> [pos |-> p + k - 1, by |-> x]] = Run(x, p + n)
<1> DEFINE S == [pos : Nat, by : {x}]
           a == Run(x, p)
           new == [k \in 1..n |-> [pos |-> p + k - 1, by |-> x]]
           b == Run(x, p + n)
<1>1. a \in Seq(S) /\ Len(a) = p /\ \A k \in 1..p : a[k] = [pos |-> k - 1, by |-> x]
  BY RunIs
<1>2. \A k \in 1..n : p + k - 1 \in Nat
  OBVIOUS
<1>3. new \in Seq(S) /\ Len(new) = n
  BY <1>2
<1>4. \A k \in 1..n : new[k] = [pos |-> p + k - 1, by |-> x]
  OBVIOUS
<1>5. /\ b \in Seq(S) /\ Len(b) = p + n
      /\ \A k \in 1..(p + n) : b[k] = [pos |-> k - 1, by |-> x]
  <2>1. p + n \in Nat
    OBVIOUS
  <2> QED BY ONLY <2>1, RunIs
<1> HIDE DEF S, a, new, b
<1>6. a \o new \in Seq(S) /\ Len(a \o new) = p + n
  <2>1. a \in Seq(S) /\ new \in Seq(S)
    BY <1>1, <1>3
  <2>2. a \o new \in Seq(S) /\ Len(a \o new) = Len(a) + Len(new)
    BY ONLY <2>1, ConcatProperties
  <2> QED BY <1>1, <1>3, <2>2
<1>7. ASSUME NEW k \in 1..(p + n)
      PROVE  (a \o new)[k] = b[k]
  <2>1. CASE k <= p
    <3>1. k \in 1..p /\ (a \o new)[k] = a[k]
      BY <1>1, <1>3, <2>1
    <3> QED BY <1>1, <1>5, <3>1
  <2>2. CASE k > p
    <3>1. k - p \in 1..n /\ p + (k - p) - 1 = k - 1
      BY <2>2
    <3>2. (a \o new)[k] = new[k - p]
      BY <1>1, <1>3, <2>2
    <3>3. new[k - p] = [pos |-> p + (k - p) - 1, by |-> x]
      BY <1>4, <3>1
    <3> QED BY <1>5, <3>1, <3>2, <3>3
  <2>3. k <= p \/ k > p
    OBVIOUS
  <2> QED BY <2>1, <2>2, <2>3
<1>8. a \o new = b
  <2>1. \A s1, s2 \in Seq(S) :
          Len(s1) = Len(s2) /\ (\A k \in 1..Len(s1) : s1[k] = s2[k]) => s1 = s2
    OBVIOUS
  <2> QED BY <1>5, <1>6, <1>7, <2>1
<1> QED BY <1>8 DEF a, new, b
-----------------------------------------------------------------------------
(* The steps of a handler at a forward.                                       *)

\* The step that waits fits the session it is for.
LEMMA ForwardFits ==
  ASSUME SessionInv, NEW x \in Conns, HasReq(x, "forward"), Listening(x)
  PROVE  /\ Req(x) \in Forwards /\ Req(x).n \in 0..MaxSteps /\ srv[x].st = "open"
         /\ Base(x, Req(x)) \in Nat /\ Base(x, Req(x)) + Req(x).len \in Positions
         /\ Req(x).keep # None => Req(x).keep \in Nat /\ Req(x).keep <= srv[x].pos
<1> DEFINE m == wire[x].up[1]
<1>1. wire[x].up \in Seq(Requests) /\ wire[x].up # <<>> /\ ConnOK(wire[x], srv[x])
      /\ srv[x] \in ServerRec
  BY Served DEF HasReq
<1>2. 1 \in DOMAIN wire[x].up /\ m = Req(x) /\ m \in Requests /\ m.t = "forward"
  BY <1>1 DEF Req, HasReq
<1>3. m \in Forwards
  BY <1>2 DEF Requests, Forwards
<1>4. m.n \in Nat /\ m.len \in Nat /\ m.keep \in Positions \cup {None} /\ srv[x].pos \in Nat
      /\ Positions \subseteq Nat
  BY <1>1, <1>3, Constants DEF Forwards, ServerRec
<1>5. /\ srv[x].st \in {"closed", "open"} /\ m.n <= MaxSteps
      /\ srv[x].st = "open" =>
           /\ (IF m.keep = None THEN srv[x].pos ELSE m.keep) + m.len \in Positions
           /\ m.keep # None => m.keep <= srv[x].pos
  BY <1>1, <1>2 DEF ConnOK
<1>6. srv[x].st = "open"
  BY <1>5 DEF Listening
<1> HIDE DEF m
<1>7. m.n \in 0..MaxSteps
  BY <1>4, <1>5, Constants
<1>8. Base(x, m) = (IF m.keep = None THEN srv[x].pos ELSE m.keep)
  BY DEF Base
<1>9. Base(x, m) \in Nat
  BY <1>4, <1>8
<1>10. Base(x, m) + m.len \in Positions /\ (m.keep # None => m.keep \in Nat /\ m.keep <= srv[x].pos)
  BY <1>4, <1>5, <1>6, <1>8
<1> QED BY <1>2, <1>3, <1>6, <1>7, <1>9, <1>10

\* What is left of a session's own cells by a truncation.
LEMMA TruncatedCells ==
  ASSUME NEW x \in Conns, NEW p \in Nat, NEW keep,
         keep # None => keep \in Nat /\ keep <= p
  PROVE  Truncate(Run(x, p), keep) = Run(x, IF keep = None THEN p ELSE keep)
<1>1. CASE keep = None
  BY <1>1 DEF Truncate
<1>2. CASE keep # None
  BY <1>2, CutRun DEF Truncate
<1> QED BY <1>1, <1>2

LEMMA TruncateType ==
  ASSUME NEW cells \in Seq(Cell), NEW keep
  PROVE  Truncate(cells, keep) \in Seq(Cell)
BY CellsBeforeType DEF Truncate

LEMMA HandleForwardKeeps ==
  ASSUME SessionInv, NEW x \in Conns, HandleForward(x)
  PROVE  SessionInv'
<1> DEFINE i == srv[x].inst
           m == Req(x)
           base == Base(x, m)
           new == [k \in 1..m.len |-> [pos |-> base + k - 1, by |-> x]]
           s2 == [srv[x] EXCEPT !.pos = base + m.len, !.last = m.n]
<1>1. /\ Listening(x) /\ HasReq(x, "forward")
      /\ kv' = [kv EXCEPT ![i] = Truncate(@, m.keep) \o new]
      /\ touched' = [touched EXCEPT ![i] = @ \cup {x}]
      /\ srv' = [srv EXCEPT ![x].pos = base + m.len, ![x].last = m.n]
      /\ wire' = Answer(Taken(wire, x), x, [t |-> "out", n |-> m.n])
      /\ UNCHANGED <<turn, target, turns, cache, hosts, hung, faults>>
  BY DEF HandleForward, consumerVars, envVars
<1>2. /\ wire \in [Conns -> WireRec] /\ srv \in [Conns -> ServerRec]
      /\ kv \in [Instances -> Seq(Cell)] /\ touched \in [Instances -> SUBSET Conns]
  BY Types DEF SessionInv
<1>3. /\ m \in Forwards /\ m.n \in 0..MaxSteps /\ srv[x].st = "open"
      /\ base \in Nat /\ base + m.len \in Positions
      /\ m.keep # None => m.keep \in Nat /\ m.keep <= srv[x].pos
  BY <1>1, ForwardFits
<1>4. /\ wire[x].up # <<>> /\ Head(wire[x].up) = m /\ m.t = "forward"
      /\ base = IF m.keep = None THEN srv[x].pos ELSE m.keep
  BY <1>1 DEF HasReq, Req, Base
<1>5. i \in Instances
  BY <1>3, Served
<1>6. m.n \in Nat /\ m.len \in Nat
  BY <1>3 DEF Forwards
<1>7. srv' = [srv EXCEPT ![x] = s2]
  BY <1>1, <1>2
<1>8. /\ s2 \in ServerRec /\ s2.st = "open" /\ s2.inst = i /\ s2.peer = srv[x].peer
      /\ s2.pos = base + m.len /\ s2.last = m.n
  <2>1. srv[x] \in ServerRec
    BY <1>2
  <2> HIDE DEF base, m, i
  <2> QED BY <1>3, <2>1 DEF ServerRec, i
<1>9. new \in Seq(Cell)
  <2>1. \A k \in 1..m.len : base + k - 1 \in Positions
    <3> HIDE DEF base, m
    <3> DEFINE Q == MaxSteps * (DraftLen + 1)
    <3>1. Q \in Nat /\ PromptLen \in Nat /\ Positions = 0..(PromptLen + Q)
      BY Constants DEF Positions
    <3> HIDE DEF Q
    <3> QED BY <1>3, <1>6, <3>1
  <2> HIDE DEF base, m
  <2>2. \A k \in 1..m.len : [pos |-> base + k - 1, by |-> x] \in Cell
    BY <2>1 DEF Cell
  <2> QED BY <1>6, <2>2
<1> HIDE DEF s2
<1>10. kv' \in [Instances -> Seq(Cell)] /\ kv'[i] = Truncate(kv[i], m.keep) \o new
  <2>1. Truncate(kv[i], m.keep) \o new \in Seq(Cell)
    <3>1. Truncate(kv[i], m.keep) \in Seq(Cell)
      BY <1>2, <1>5, TruncateType
    <3> HIDE DEF new, i, m
    <3> QED BY <1>9, <3>1
  <2> HIDE DEF new, i, m
  <2> QED BY <1>1, <1>2, <1>5, <2>1
<1>11. touched' \in [Instances -> SUBSET Conns] /\ touched'[i] = touched[i] \cup {x}
  BY <1>1, <1>2, <1>5
<1>12. \A y \in Conns \ {x} : srv'[y] = srv[y]
                            /\ (srv[y].st = "open" => srv[y].inst \in Instances)
  BY <1>2, <1>7, Served
<1>13. srv'[x] = s2
  BY <1>2, <1>7
<1>14. \A j \in Instances \ {i} : kv'[j] = kv[j] /\ touched'[j] = touched[j]
  BY <1>1, <1>2
<1>15. Used'
  BY <1>8, <1>11, <1>12, <1>13, <1>14 DEF SessionInv, Used
<1>16. CacheExact'
  <2> SUFFICES ASSUME NEW y \in Conns, srv'[y].st = "open", touched'[srv'[y].inst] = {y}
               PROVE  kv'[srv'[y].inst] = OwnCells(y)'
    BY DEF CacheExact
  <2>1. CASE y = x
    <3>1. touched'[i] = {x} /\ srv'[x].pos = base + m.len /\ srv'[x].inst = i
      BY <1>8, <1>13, <2>1
    <3>2. touched[i] = {x}
      BY <1>3, <1>11, <3>1 DEF SessionInv, Used
    <3>3. kv[i] = Run(x, srv[x].pos)
      BY <1>3, <3>2 DEF SessionInv, CacheExact, OwnCells, Run
    <3>4. srv[x].pos \in Nat
      BY <1>2, Constants DEF ServerRec
    <3>5. Truncate(kv[i], m.keep) = Run(x, base)
      BY <1>3, <1>4, <3>3, <3>4, TruncatedCells
    <3>6. Run(x, base) \o new = Run(x, base + m.len)
      BY <1>3, <1>6, LongerRun
    <3>7. OwnCells(x)' = Run(x, base + m.len)
      BY <3>1 DEF OwnCells, Run
    <3> HIDE DEF new, m, base, i
    <3> QED BY <1>10, <2>1, <3>1, <3>5, <3>6, <3>7
  <2>2. CASE y # x
    <3>1. srv'[y] = srv[y] /\ srv[y].inst # i
      BY <1>11, <1>12, <2>2
    <3>2. kv'[srv[y].inst] = kv[srv[y].inst] /\ touched'[srv[y].inst] = touched[srv[y].inst]
      BY <1>12, <1>14, <2>2, <3>1
    <3> QED BY <3>1, <3>2 DEF SessionInv, CacheExact, OwnCells
  <2> QED BY <2>1, <2>2
<1>17. ServerSide
  BY <1>1, <1>10, <1>11, <1>15, <1>16, Types DEF SessionInv, ServerSide
<1>18. PICK w2 \in WireRec :
         /\ wire' = [wire EXCEPT ![x] = w2] /\ w2.up = Tail(wire[x].up)
         /\ w2.down \in {wire[x].down, Append(wire[x].down, [t |-> "out", n |-> m.n])}
  BY <1>1, <1>2, <1>4, <1>6, TakenAnswered, MessageTypes
<1>19. ConnOK(w2, s2)
  BY <1>4, <1>18, Served, ConnTail
<1>20. \A t \in TurnRec, j \in Nat :
         LinkOK(t, j, wire[x], srv[x]) => LinkOK(t, j, w2, s2)
  <2> HIDE DEF m, base, i
  <2> QED BY <1>3, <1>4, <1>8, <1>18, ForwardLink
<1>21. ServerOK(s2)
  BY <1>3, <1>5, <1>8, Served, Constants DEF ServerOK
<1> HIDE DEF m, base, i, new
<1> QED BY <1>1, <1>7, <1>8, <1>17, <1>18, <1>19, <1>20, <1>21, ConnStep

LEMMA ForwardFailsKeeps ==
  ASSUME SessionInv, NEW x \in Conns, ForwardFails(x)
  PROVE  SessionInv'
<1> DEFINE i == srv[x].inst
<1>1. /\ Listening(x) /\ HasReq(x, "forward") /\ wire[x].up # <<>>
      /\ srv' = Closed(srv, x) /\ wire' = Taken(wire, x)
      /\ UNCHANGED <<turn, target, turns, cache, hosts, hung>>
  BY DEF ForwardFails, HasReq, consumerVars
<1>2. /\ wire \in [Conns -> WireRec] /\ srv \in [Conns -> ServerRec]
      /\ kv \in [Instances -> Seq(Cell)] /\ touched \in [Instances -> SUBSET Conns]
  BY Types DEF SessionInv
<1>3. PICK w2 \in WireRec : /\ wire' = [wire EXCEPT ![x] = w2]
                            /\ w2.up = Tail(wire[x].up) /\ w2.down = wire[x].down
  BY <1>1, <1>2, TakenIs
<1>4. /\ srv'[x].st = "closed"
      /\ \A y \in Conns \ {x} : srv'[y] = srv[y]
                              /\ (srv[y].st = "open" => srv[y].inst \in Instances)
  BY <1>1, <1>2, Served, NoServerType DEF Closed
<1>5. CASE UNCHANGED <<kv, touched, faults>>
  <2>1. \A y \in Conns : srv'[y].st = "open" => srv'[y] = srv[y]
    BY <1>4
  <2>2. ServerSide
    BY <1>1, <1>5, <2>1, CachesStay, Types DEF SessionInv, ServerSide
  <2> QED BY <1>1, <1>3, <2>2, ReturnKeeps
<1>6. CASE /\ Fault("fail")
           /\ kv' = [kv EXCEPT ![i] = Truncate(@, Req(x).keep)]
           /\ touched' = [touched EXCEPT ![i] = @ \cup {x}]
  <2>1. i \in Instances
    BY <1>1, ForwardFits, Served
  <2>2. kv' \in [Instances -> Seq(Cell)] /\ touched' \in [Instances -> SUBSET Conns]
    BY <1>2, <1>6, <2>1, TruncateType
  <2>3. faults' \in 0..MaxFaults
    BY <1>6, Types, Constants DEF SessionInv, Fault
  <2>4. \A j \in Instances \ {i} : kv'[j] = kv[j] /\ touched'[j] = touched[j]
    BY <1>2, <1>6
  <2>5. x \in touched'[i]
    BY <1>2, <1>6, <2>1
  <2>6. Used'
    BY <1>4, <2>4, <2>5 DEF SessionInv, Used
  <2>7. CacheExact'
    <3> SUFFICES ASSUME NEW y \in Conns, srv'[y].st = "open", touched'[srv'[y].inst] = {y}
                 PROVE  kv'[srv'[y].inst] = OwnCells(y)'
      BY DEF CacheExact
    <3>1. y # x /\ srv'[y] = srv[y] /\ srv[y].inst \in Instances \ {i}
      BY <1>4, <2>5
    <3>2. kv'[srv[y].inst] = kv[srv[y].inst] /\ touched'[srv[y].inst] = touched[srv[y].inst]
      BY <2>4, <3>1
    <3> QED BY <3>1, <3>2 DEF SessionInv, CacheExact, OwnCells
  <2>8. ServerSide
    BY <1>1, <2>2, <2>3, <2>6, <2>7, Types DEF SessionInv, ServerSide
  <2> QED BY <1>1, <1>3, <2>8, ReturnKeeps
<1> QED BY <1>5, <1>6 DEF ForwardFails
-----------------------------------------------------------------------------
(* The steps of the environment.                                              *)

LEMMA FaultCounted ==
  ASSUME SessionInv, NEW f, Fault(f)
  PROVE  faults' \in 0..MaxFaults
BY Types, Constants DEF SessionInv, Fault

LEMMA BreakKeeps ==
  ASSUME SessionInv, NEW x \in Conns, Break(x)
  PROVE  SessionInv'
<1> DEFINE w2 == [st |-> "broken", up |-> <<>>, down |-> <<>>]
<1>1. /\ wire' = [wire EXCEPT ![x] = w2] /\ Fault("break")
      /\ UNCHANGED <<turn, target, turns, srv, kv, cache, touched, hosts, hung>>
  BY DEF Break, consumerVars, peerVars
<1>2. w2 \in WireRec /\ w2.up = <<>> /\ w2.down = <<>>
  BY DEF WireRec
<1> HIDE DEF w2
<1>3. srv' = [srv EXCEPT ![x] = srv[x]]
  BY <1>1, Types DEF SessionInv
<1>4. ConnOK(w2, srv[x])
  BY <1>2 DEF ConnOK
<1>5. \A t \in TurnRec, i \in Nat :
        LinkOK(t, i, wire[x], srv[x]) => LinkOK(t, i, w2, srv[x])
  BY <1>2, BrokenLink
<1>6. ServerSide
  BY <1>1, FaultCounted, CachesStay, Types DEF SessionInv, ServerSide
<1> QED BY <1>1, <1>2, <1>3, <1>4, <1>5, <1>6, Served, ConnStep

LEMMA CrashKeeps ==
  ASSUME SessionInv, NEW p \in Peers, Crash(p)
  PROVE  SessionInv'
<1>1. /\ Fault("crash") /\ wire' = wire
      /\ srv' = [x \in Conns |-> IF srv[x].peer = p THEN NoServer ELSE srv[x]]
      /\ cache' = [cache EXCEPT ![p] = None] /\ hung' = [hung EXCEPT ![p] = FALSE]
      /\ UNCHANGED <<turn, target, turns, kv, touched, hosts>>
  BY DEF Crash, consumerVars
<1>2. /\ wire \in [Conns -> WireRec] /\ srv \in [Conns -> ServerRec]
      /\ turn \in [Consumers -> TurnRec]
  BY Types DEF SessionInv
<1>3. \A x \in Conns : srv'[x] \in {NoServer, srv[x]}
  BY <1>1
<1>4. srv' \in [Conns -> ServerRec]
  BY <1>1, <1>2, NoServerType
<1>5. \A x \in Conns : ConnOK(wire[x], srv'[x]) /\ ServerOK(srv'[x])
  BY <1>3, Served, ConnClosed, NoServerType
<1>6. cache' \in [Peers -> Instances \cup {None}] /\ hung' \in [Peers -> BOOLEAN]
  BY <1>1, Types DEF SessionInv
<1>7. faults' \in 0..MaxFaults
  BY <1>1, FaultCounted
<1>8. TypeOK'
  <2>1. \A x \in Conns : srv'[x].inst # None <=> srv'[x].st \in {"reset", "open"}
    BY <1>5 DEF ServerOK
  <2> QED BY <1>1, <1>4, <1>6, <1>7, <2>1 DEF SessionInv, TypeOK, ServerRec
<1>9. AllLinksOK'
  <2> SUFFICES ASSUME NEW c \in Consumers, NEW i \in DOMAIN turn[c].link
               PROVE  LET y == turn[c].link[i] IN LinkOK(turn[c], i, wire[y], srv'[y])
    BY <1>1 DEF AllLinksOK, Links
  <2> DEFINE y == turn[c].link[i]
  <2>1. turn[c] \in TurnRec /\ i \in Nat /\ y \in Conns
    <3>1. turn[c].link \in Seq(Conns)
      BY <1>2 DEF TurnRec
    <3> QED BY <1>2, <3>1
  <2>2. LinkOK(turn[c], i, wire[y], srv[y])
    BY DEF SessionInv, AllLinksOK, Links
  <2> QED BY <1>3, <2>1, <2>2, NoServerType, ClosedLink
<1>10. AllTurnsOK' /\ LinksApart' /\ AllConnsOK'
  BY <1>1, <1>5 DEF SessionInv, AllTurnsOK, LinksApart, Links, AllConnsOK
<1>11. Used' /\ CacheExact'
  BY <1>1, <1>3, NoServerType, CachesStay
<1> QED BY <1>8, <1>9, <1>10, <1>11 DEF SessionInv

\* Hang, Resume and Drain, and a step of nobody.
LEMMA ElsewhereKeeps ==
  ASSUME SessionInv, UNCHANGED <<turn, target, turns, wire, srv, kv, cache, touched>>,
         hosts' \in [Peers -> BOOLEAN], hung' \in [Peers -> BOOLEAN],
         faults' \in 0..MaxFaults
  PROVE  SessionInv'
<1>1. TypeOK'
  BY DEF SessionInv, TypeOK
<1>2. AllTurnsOK' /\ LinksApart' /\ AllConnsOK' /\ AllLinksOK'
  BY DEF SessionInv, AllTurnsOK, LinksApart, Links, AllConnsOK, AllLinksOK
<1>3. Used' /\ CacheExact'
  BY CachesStay
<1> QED BY <1>1, <1>2, <1>3 DEF SessionInv

LEMMA HostKeeps ==
  ASSUME SessionInv, NEW p \in Peers, Hang(p) \/ Resume(p) \/ Drain(p)
  PROVE  SessionInv'
<1>1. hosts \in [Peers -> BOOLEAN] /\ hung \in [Peers -> BOOLEAN] /\ faults \in 0..MaxFaults
  BY Types DEF SessionInv
<1>2. /\ UNCHANGED <<turn, target, turns, wire, srv, kv, cache, touched>>
      /\ hosts' \in [Peers -> BOOLEAN] /\ hung' \in [Peers -> BOOLEAN]
  BY <1>1 DEF Hang, Resume, Drain, consumerVars, peerVars
<1>3. faults' \in 0..MaxFaults
  BY <1>1, FaultCounted DEF Hang, Resume, Drain
<1> QED BY <1>2, <1>3, ElsewhereKeeps

LEMMA StutterKeeps ==
  ASSUME SessionInv, UNCHANGED vars
  PROVE  SessionInv'
<1>1. hosts' \in [Peers -> BOOLEAN] /\ hung' \in [Peers -> BOOLEAN] /\ faults' \in 0..MaxFaults
  BY Types DEF SessionInv, vars
<1>2. UNCHANGED <<turn, target, turns, wire, srv, kv, cache, touched>>
  BY DEF vars
<1> QED BY <1>1, <1>2, ElsewhereKeeps

LEMMA HandlerKeeps ==
  ASSUME SessionInv, NEW x \in Conns, HandlerStep(x)
  PROVE  SessionInv'
BY HandleHelloKeeps, HandleInitKeeps, LoadSliceKeeps, LoadFailsKeeps, ResetSliceKeeps,
   HandleForwardKeeps, ForwardFailsKeeps, HandleAbortKeeps, HandleEofKeeps
   DEF HandlerStep, Handler
-----------------------------------------------------------------------------
(* A step of a consumer: its turn becomes t2, and other chains keep theirs.    *)

\* The connection y is no link of another chain than c's.
Own(c, y) == \A d \in Consumers \ {c} : \A j \in Links(d) : turn[d].link[j] # y

LEMMA TurnStep ==
  ASSUME SessionInv, NEW c \in Consumers, NEW t2 \in TurnRec,
         turn' = [turn EXCEPT ![c] = t2], TurnOK(t2),
         target' \in [Consumers -> Route], \A d \in Consumers : RouteOK(target'[d]),
         turns' \in [Consumers -> 0..MaxTurns],
         wire' \in [Conns -> WireRec], srv' \in [Conns -> ServerRec],
         \A y \in Conns : ~Own(c, y) => wire'[y] = wire[y] /\ srv'[y] = srv[y],
         \A y \in Conns : ConnOK(wire'[y], srv'[y]) /\ ServerOK(srv'[y]),
         \A i, j \in DOMAIN t2.link : t2.link[i] = t2.link[j] => i = j,
         \A i \in DOMAIN t2.link :
           Own(c, t2.link[i]) /\ LinkOK(t2, i, wire'[t2.link[i]], srv'[t2.link[i]]),
         ServerSide
  PROVE  SessionInv'
<1>1. /\ turn \in [Consumers -> TurnRec] /\ turn' \in [Consumers -> TurnRec]
      /\ turn'[c] = t2 /\ \A d \in Consumers \ {c} : turn'[d] = turn[d]
  BY Types DEF SessionInv
<1>2. \A x \in Conns : srv'[x].inst # None <=> srv'[x].st \in {"reset", "open"}
  BY DEF ServerOK
<1>3. TypeOK'
  BY <1>1, <1>2 DEF TypeOK, ServerSide, TurnRec, Route, WireRec, ServerRec, Cell
<1>4. AllTurnsOK'
  BY <1>1 DEF SessionInv, AllTurnsOK
<1>5. LinksApart'
  <2> SUFFICES ASSUME NEW d \in Consumers, NEW e \in Consumers,
                      NEW i \in DOMAIN turn'[d].link, NEW j \in DOMAIN turn'[e].link,
                      turn'[d].link[i] = turn'[e].link[j]
               PROVE  d = e /\ i = j
    BY DEF LinksApart, Links
  <2>1. CASE d = c /\ e = c
    BY <1>1, <2>1
  <2>2. CASE d = c /\ e # c
    BY <1>1, <2>2 DEF Own, Links
  <2>3. CASE d # c /\ e = c
    BY <1>1, <2>3 DEF Own, Links
  <2>4. CASE d # c /\ e # c
    BY <1>1, <2>4 DEF SessionInv, LinksApart, Links
  <2> QED BY <2>1, <2>2, <2>3, <2>4
<1>6. AllLinksOK'
  <2> SUFFICES ASSUME NEW d \in Consumers, NEW i \in DOMAIN turn'[d].link
               PROVE  LET y == turn'[d].link[i] IN LinkOK(turn'[d], i, wire'[y], srv'[y])
    BY DEF AllLinksOK, Links
  <2>1. CASE d = c
    BY <1>1, <2>1
  <2>2. CASE d # c
    <3> DEFINE y == turn[d].link[i]
    <3>1. turn'[d] = turn[d] /\ i \in Links(d)
      BY <1>1, <2>2 DEF Links
    <3>2. y \in Conns
      <4>1. turn[d].link \in Seq(Conns)
        BY <1>1 DEF TurnRec
      <4> QED BY <3>1, <4>1 DEF Links
    <3>3. ~Own(c, y)
      BY <2>2, <3>1 DEF Own
    <3>4. wire'[y] = wire[y] /\ srv'[y] = srv[y]
      BY <3>2, <3>3
    <3>5. LinkOK(turn[d], i, wire[y], srv[y])
      BY <3>1 DEF SessionInv, AllLinksOK
    <3> QED BY <3>1, <3>4, <3>5
  <2> QED BY <2>1, <2>2
<1>7. AllConnsOK'
  BY DEF AllConnsOK
<1> QED BY <1>3, <1>4, <1>5, <1>6, <1>7 DEF SessionInv, ServerSide

\* What a consumer step starts from.
LEMMA Turned ==
  ASSUME SessionInv, NEW c \in Consumers
  PROVE  /\ turn[c] \in TurnRec /\ TurnOK(turn[c]) /\ RouteOK(target[c])
         /\ turn[c].link \in Seq(Conns) /\ turn[c].hop \in Nat /\ turn[c].n \in Nat
         /\ turn[c].pos \in Nat /\ turn[c].len \in Nat /\ turn[c].attempts \in Nat
         /\ \A i \in Links(c) : turn[c].link[i] \in Conns /\ Own(c, turn[c].link[i])
         /\ \A i, j \in Links(c) : turn[c].link[i] = turn[c].link[j] => i = j
         /\ \A i \in Links(c) :
              LinkOK(turn[c], i, wire[turn[c].link[i]], srv[turn[c].link[i]])
<1>1. turn[c] \in TurnRec
  BY Types DEF SessionInv
<1>2. TurnOK(turn[c]) /\ RouteOK(target[c])
  BY DEF SessionInv, AllTurnsOK
<1>3. /\ turn[c].link \in Seq(Conns) /\ turn[c].hop \in Nat /\ turn[c].n \in Nat
      /\ turn[c].pos \in Nat /\ turn[c].len \in Nat /\ turn[c].attempts \in Nat
  <2> DEFINE t == turn[c]
  <2>1. /\ t.link \in Seq(Conns) /\ t.hop \in {0} \cup Hops /\ t.n \in 0..MaxSteps
        /\ t.pos \in Positions /\ t.len \in 0..(PromptLen + DraftLen)
        /\ t.attempts \in 0..MaxFailover
    BY <1>1 DEF TurnRec
  <2> HIDE DEF t
  <2>2. t.hop \in Nat /\ t.pos \in Nat
    <3>1. Positions \subseteq Nat /\ Hops \subseteq Nat
      BY Constants
    <3>2. t.pos \in Nat
      BY <2>1, <3>1
    <3>3. 0 \in Nat
      OBVIOUS
    <3>4. t.hop \in Nat
      BY <2>1, <3>1, <3>3, Zenon
    <3> QED BY <3>2, <3>4
  <2>3. t.n \in Nat /\ t.len \in Nat /\ t.attempts \in Nat
    BY <2>1
  <2> QED BY <2>1, <2>2, <2>3 DEF t
<1>4. \A i \in Links(c) : turn[c].link[i] \in Conns /\ Own(c, turn[c].link[i])
  BY <1>3 DEF SessionInv, LinksApart, Links, Own
<1>5. \A i, j \in Links(c) : turn[c].link[i] = turn[c].link[j] => i = j
  BY DEF SessionInv, LinksApart
<1>6. \A i \in Links(c) :
        LinkOK(turn[c], i, wire[turn[c].link[i]], srv[turn[c].link[i]])
  BY DEF SessionInv, AllLinksOK
<1> QED BY <1>1, <1>2, <1>3, <1>4, <1>5, <1>6

\* The step keeps the links, and leaves the peers alone: the usual case.
LEMMA ChainStep ==
  ASSUME SessionInv, NEW c \in Consumers, NEW t2 \in TurnRec,
         turn' = [turn EXCEPT ![c] = t2], TurnOK(t2), t2.link = turn[c].link,
         target' \in [Consumers -> Route], \A d \in Consumers : RouteOK(target'[d]),
         turns' \in [Consumers -> 0..MaxTurns],
         UNCHANGED <<srv, kv, cache, touched, hosts, hung, faults>>,
         wire' \in [Conns -> WireRec],
         \A y \in Conns : ~Own(c, y) => wire'[y] = wire[y],
         \A y \in Conns : ConnOK(wire'[y], srv[y]),
         \A i \in Links(c) : LinkOK(t2, i, wire'[turn[c].link[i]], srv[turn[c].link[i]])
  PROVE  SessionInv'
<1>1. ServerSide
  BY CachesStay, Types DEF SessionInv, ServerSide
<1>2. srv' \in [Conns -> ServerRec] /\ \A y \in Conns : ServerOK(srv'[y])
  BY Types, Served DEF SessionInv
<1>3. \A i, j \in DOMAIN t2.link : t2.link[i] = t2.link[j] => i = j
  BY Turned DEF Links
<1>4. \A i \in DOMAIN t2.link :
        Own(c, t2.link[i]) /\ LinkOK(t2, i, wire'[t2.link[i]], srv'[t2.link[i]])
  BY Turned DEF Links
<1> QED BY <1>1, <1>2, <1>3, <1>4, TurnStep

LEMMA TargetsStay ==
  ASSUME SessionInv, UNCHANGED <<target, turns>>
  PROVE  /\ target' \in [Consumers -> Route] /\ turns' \in [Consumers -> 0..MaxTurns]
         /\ \A d \in Consumers : RouteOK(target'[d])
BY Types DEF SessionInv, AllTurnsOK
\* The same, with one link of the chain at work.
LEMMA LinkStep ==
  ASSUME SessionInv, NEW c \in Consumers, NEW t2 \in TurnRec,
         turn' = [turn EXCEPT ![c] = t2], TurnOK(t2), t2.link = turn[c].link,
         target' \in [Consumers -> Route], \A d \in Consumers : RouteOK(target'[d]),
         turns' = turns, UNCHANGED <<srv, kv, cache, touched, hosts, hung, faults>>,
         NEW k \in Links(c), NEW w2 \in WireRec,
         wire' = [wire EXCEPT ![turn[c].link[k]] = w2],
         ConnOK(w2, srv[turn[c].link[k]]), LinkOK(t2, k, w2, srv[turn[c].link[k]]),
         \A i \in Links(c) \ {k} :
           LinkOK(t2, i, wire[turn[c].link[i]], srv[turn[c].link[i]])
  PROVE  SessionInv'
<1> DEFINE x == turn[c].link[k]
<1>1. /\ wire \in [Conns -> WireRec] /\ x \in Conns /\ Own(c, x)
      /\ \A i \in Links(c) \ {k} : turn[c].link[i] \in Conns \ {x}
      /\ turns \in [Consumers -> 0..MaxTurns]
  BY Turned, Types DEF SessionInv
<1>2. /\ wire' \in [Conns -> WireRec] /\ wire'[x] = w2
      /\ \A y \in Conns \ {x} : wire'[y] = wire[y]
  BY <1>1
<1>3. \A y \in Conns : ConnOK(wire'[y], srv[y])
  BY <1>2, Served
<1>4. \A i \in Links(c) : LinkOK(t2, i, wire'[turn[c].link[i]], srv[turn[c].link[i]])
  BY <1>1, <1>2
<1>5. \A y \in Conns : ~Own(c, y) => wire'[y] = wire[y]
  BY <1>1, <1>2
<1> HIDE DEF x
<1> QED BY <1>1, <1>2, <1>3, <1>4, <1>5, ChainStep

-----------------------------------------------------------------------------
(* The steps of a consumer.                                                   *)

LEMMA NoTurnOK ==
  /\ NoTurn \in TurnRec /\ NoTurn.link = <<>> /\ NoTurn.n = 0 /\ NoTurn.pos = 0
  /\ NoTurn.keep = None /\ NoTurn.pc = "idle" /\ NoTurn.hop = 0 /\ ~NoTurn.spec
  /\ NoTurn.attempts = 0 /\ NoTurn.len = 0 /\ RouteOK(Target0) /\ NoTurn.route = Target0
  /\ TurnOK(NoTurn)
<1>1. RouteOK(Target0) /\ Target0 \in Route
  BY SessionAssumption DEF RouteOK, Target0, Route
<1>2. 0 \in Positions /\ 0 \in 0..MaxSteps /\ 0 \in 0..MaxFailover
      /\ 0 \in 0..(PromptLen + DraftLen) /\ <<>> \in Seq(Conns)
  BY Constants
<1>3. NoTurn \in TurnRec
  BY <1>1, <1>2 DEF NoTurn, TurnRec
<1>4. /\ NoTurn.link = <<>> /\ NoTurn.n = 0 /\ NoTurn.pos = 0
      /\ NoTurn.keep = None /\ NoTurn.pc = "idle" /\ NoTurn.hop = 0 /\ ~NoTurn.spec
      /\ NoTurn.attempts = 0 /\ NoTurn.len = 0 /\ NoTurn.route = Target0
  BY DEF NoTurn
<1>5. TurnOK(NoTurn)
  BY <1>1, <1>4 DEF TurnOK
<1> QED BY <1>1, <1>3, <1>4, <1>5

\* A turn that is about to dial its first hop.
LEMMA FirstDial ==
  ASSUME NEW d \in BOOLEAN, d => DraftLen > 0, NEW r, RouteOK(r), NEW a \in 0..MaxFailover,
         NEW t, t = [NoTurn EXCEPT !.pc = "dial", !.hop = 1, !.spec = d, !.route = r,
                                   !.attempts = a]
  PROVE  t \in TurnRec /\ TurnOK(t) /\ t.link = <<>>
<1>1. /\ t.pc = "dial" /\ t.hop = 1 /\ t.spec = d /\ t.route = r /\ t.attempts = a
      /\ t.link = <<>> /\ t.n = 0 /\ t.pos = 0 /\ t.keep = None /\ t.len = 0
  BY NoTurnOK DEF NoTurn
<1>2. 1 \in Hops /\ r \in Route
  BY Constants DEF RouteOK
<1>3. t \in TurnRec
  BY <1>2, NoTurnOK DEF TurnRec
<1>4. Len(t.link) = t.hop - 1
  BY <1>1
<1>5. TurnOK(t)
  BY <1>1, <1>2, <1>4 DEF TurnOK
<1> QED BY <1>1, <1>3, <1>5

LEMMA StartTurnKeeps ==
  ASSUME SessionInv, NEW c \in Consumers, StartTurn(c)
  PROVE  SessionInv'
<1>1. /\ turn[c].pc = "idle" /\ turns[c] < MaxTurns /\ turns' = [turns EXCEPT ![c] = @ + 1]
      /\ UNCHANGED <<target, wire, srv, kv, cache, touched, hosts, hung, faults>>
  BY DEF StartTurn, peerVars, envVars
<1>2. PICK d \in BOOLEAN :
        /\ d => DraftLen > 0
        /\ turn' = [turn EXCEPT ![c] = [NoTurn EXCEPT !.pc = "dial", !.hop = 1, !.spec = d,
                                                      !.route = target[c]]]
  BY DEF StartTurn
<1> DEFINE t2 == [NoTurn EXCEPT !.pc = "dial", !.hop = 1, !.spec = d, !.route = target[c]]
<1>3. t2 = [NoTurn EXCEPT !.pc = "dial", !.hop = 1, !.spec = d, !.route = target[c],
                          !.attempts = 0]
  BY NoTurnOK DEF NoTurn
<1>4. 0 \in 0..MaxFailover
  BY Constants
<1>5. turn' = [turn EXCEPT ![c] = t2]
  BY <1>2
<1> HIDE DEF t2
<1>6. t2 \in TurnRec /\ TurnOK(t2) /\ t2.link = <<>>
  BY <1>2, <1>3, <1>4, Turned, FirstDial
<1>7. turn[c].link = <<>>
  BY <1>1, Turned DEF TurnOK
<1>8. Links(c) = {}
  BY <1>7 DEF Links
<1>9. turns' \in [Consumers -> 0..MaxTurns]
  <2>1. turns \in [Consumers -> 0..MaxTurns]
    BY Types DEF SessionInv
  <2>2. turns[c] + 1 \in 0..MaxTurns
    BY <1>1, <2>1, Constants
  <2> QED BY <1>1, <2>1, <2>2
<1>10. /\ target' \in [Consumers -> Route] /\ wire' \in [Conns -> WireRec]
       /\ \A d1 \in Consumers : RouteOK(target'[d1])
  BY <1>1, Types DEF SessionInv, AllTurnsOK
<1>11. \A y \in Conns : ConnOK(wire'[y], srv[y])
  BY <1>1, Served
<1> QED BY <1>1, <1>5, <1>6, <1>7, <1>8, <1>9, <1>10, <1>11, ChainStep

LEMMA TurnOverKeeps ==
  ASSUME SessionInv, NEW c \in Consumers, TurnOver(c)
  PROVE  SessionInv'
<1> DEFINE t2 == [NoTurn EXCEPT !.pc = "close", !.hop = 1, !.link = turn[c].link]
<1>1. /\ turn[c].pc \in {"ready", "step"} /\ turn' = [turn EXCEPT ![c] = t2]
      /\ UNCHANGED <<target, turns, wire, srv, kv, cache, touched, hosts, hung, faults>>
  BY DEF TurnOver, peerVars, envVars
<1>2. Len(turn[c].link) = Len(Peer0) /\ turn[c].link \in Seq(Conns)
  BY <1>1, Turned DEF TurnOK
<1>3. /\ t2.pc = "close" /\ t2.hop = 1 /\ t2.link = turn[c].link /\ t2.route = Target0
      /\ t2.spec = FALSE
  BY DEF NoTurn
<1>4. 1 \in Hops
  BY Constants
<1>5. t2 \in TurnRec
  BY <1>2, <1>4, NoTurnOK DEF TurnRec
<1> HIDE DEF t2
<1>6. TurnOK(t2)
  BY <1>2, <1>3, <1>4, NoTurnOK DEF TurnOK
<1>7. \A i \in Links(c) : LinkOK(t2, i, wire'[turn[c].link[i]], srv[turn[c].link[i]])
  BY <1>3 DEF LinkOK
<1>8. \A y \in Conns : ConnOK(wire'[y], srv[y])
  BY <1>1, Served
<1>9. wire' \in [Conns -> WireRec]
  BY <1>1, Types DEF SessionInv
<1> QED BY <1>1, <1>3, <1>5, <1>6, <1>7, <1>8, <1>9, TargetsStay, ChainStep
\* The connection of the hop at work is a link of the chain.
LEMMA CurrentLink ==
  ASSUME SessionInv, NEW c \in Consumers, turn[c].pc \in {"hello", "init", "step", "close"}
  PROVE  /\ turn[c].hop \in Links(c) /\ Cur(c) = turn[c].link[turn[c].hop]
         /\ Cur(c) \in Conns /\ wire[Cur(c)] \in WireRec /\ turn[c].hop \in Hops
         /\ LinkOK(turn[c], turn[c].hop, wire[Cur(c)], srv[Cur(c)])
         /\ turn[c].pc \in {"hello", "init"} => Links(c) = 1..turn[c].hop
         /\ turn[c].pc \in {"step", "close"} => Links(c) = Hops
<1>1. /\ turn[c].pc \in {"hello", "init"} => Len(turn[c].link) = turn[c].hop
      /\ turn[c].pc \in {"step", "close"} => Len(turn[c].link) = Len(Peer0)
      /\ turn[c].hop \in Hops
  BY Turned DEF TurnOK
<1>2. Links(c) = 1..Len(turn[c].link)
  BY Turned DEF Links
<1>3. turn[c].hop \in Links(c)
  BY <1>1, <1>2, Constants
<1>4. turn[c].link[turn[c].hop] \in Conns
  BY <1>3, Turned
<1>5. wire[turn[c].link[turn[c].hop]] \in WireRec
  BY <1>4, Types DEF SessionInv
<1>6. LinkOK(turn[c], turn[c].hop, wire[Cur(c)], srv[Cur(c)])
  BY <1>3, Turned DEF Cur
<1>7. turn[c].pc \in {"step", "close"} => Links(c) = Hops
  BY <1>1, <1>2, Constants
<1> QED BY <1>1, <1>2, <1>3, <1>4, <1>5, <1>6, <1>7 DEF Cur

\* The driver takes what waits for it.
LEMMA Received ==
  ASSUME NEW w \in WireRec, w.down # <<>>
  PROVE  /\ [w EXCEPT !.down = Tail(@)] \in WireRec
         /\ [w EXCEPT !.down = Tail(@)].up = w.up
         /\ [w EXCEPT !.down = Tail(@)].down = Tail(w.down)
<1>1. Tail(w.down) \in Seq(Replies)
  BY DEF WireRec
<1> QED BY <1>1 DEF WireRec

LEMMA TakeHelloKeeps ==
  ASSUME SessionInv, NEW c \in Consumers, TakeHello(c)
  PROVE  SessionInv'
<1> DEFINE x == Cur(c)
           k == turn[c].hop
           t2 == [turn[c] EXCEPT !.pc = "init"]
           w1 == [wire[x] EXCEPT !.down = Tail(@)]
           v == [wire EXCEPT ![x].down = Tail(@)]
<1>1. /\ turn[c].pc = "hello" /\ wire[x].down # <<>> /\ Head(wire[x].down).t = "hello"
      /\ wire' = Ask(v, x, [t |-> "init"]) /\ turn' = [turn EXCEPT ![c].pc = "init"]
      /\ UNCHANGED <<target, turns, srv, kv, cache, touched, hosts, hung, faults>>
  BY DEF TakeHello, peerVars, envVars
<1>2. /\ turn \in [Consumers -> TurnRec] /\ wire \in [Conns -> WireRec]
      /\ turn[c] \in TurnRec
  BY Types DEF SessionInv
<1>3. /\ k \in Links(c) /\ x = turn[c].link[k] /\ x \in Conns /\ k \in Hops
      /\ LinkOK(turn[c], k, wire[x], srv[x]) /\ Links(c) = 1..k
  BY <1>1, CurrentLink
<1>4. Greets(wire[x], srv[x])
  BY <1>1, <1>3 DEF LinkOK
<1>5. /\ w1 \in WireRec /\ w1.up = <<>> /\ w1.down = <<>>
      /\ srv[x].st \in {"closed", "new"}
  <2>1. wire[x].up = <<>> /\ wire[x].down = <<[t |-> "hello"]>>
        /\ srv[x].st \in {"closed", "new"}
    BY <1>1, <1>4 DEF Greets
  <2>2. Tail(<<[t |-> "hello"]>>) = <<>>
    OBVIOUS
  <2> QED BY <1>1, <1>2, <1>3, <2>1, <2>2, Received
<1>6. v = [wire EXCEPT ![x] = w1]
  BY <1>2, <1>3
<1>7. /\ turn' = [turn EXCEPT ![c] = t2] /\ t2 \in TurnRec /\ t2.pc = "init"
      /\ t2.link = turn[c].link /\ t2.hop = k /\ t2.n = turn[c].n /\ t2.pos = turn[c].pos
      /\ t2.keep = turn[c].keep /\ t2.route = turn[c].route /\ t2.spec = turn[c].spec
  BY <1>1, <1>2 DEF TurnRec
<1> HIDE DEF x, k, t2, w1
<1>8. v \in [Conns -> WireRec] /\ v[x] = w1
  BY <1>2, <1>3, <1>5, <1>6
<1> HIDE DEF v
<1>9. PICK w2 \in WireRec :
        /\ wire' = [v EXCEPT ![x] = w2] /\ w2.down = w1.down
        /\ w2.up \in {w1.up, Append(w1.up, [t |-> "init"])}
  BY <1>1, <1>3, <1>8, AskIs, MessageTypes
<1>10. wire' = [wire EXCEPT ![x] = w2]
  BY <1>6, <1>9
<1>11. w2.down = <<>> /\ w2.up \in {<<>>, <<[t |-> "init"]>>}
  BY <1>5, <1>9
<1>12. TurnOK(t2)
  <2>1. TurnOK(turn[c])
    BY Turned
  <2> QED BY <1>1, <1>7, <2>1 DEF TurnOK, k
<1>13. Opens(w2, srv[x])
  BY <1>5, <1>11 DEF Opens, At
<1>14. LinkOK(t2, k, w2, srv[x])
  BY <1>3, <1>7, <1>13, Constants DEF LinkOK
<1>15. ConnOK(w2, srv[x])
  BY <1>11 DEF ConnOK
<1>16. \A i \in Links(c) \ {k} :
         LinkOK(t2, i, wire[turn[c].link[i]], srv[turn[c].link[i]])
  <2> SUFFICES ASSUME NEW i \in Links(c) \ {k}
               PROVE  LinkOK(t2, i, wire[turn[c].link[i]], srv[turn[c].link[i]])
    OBVIOUS
  <2>1. i < k /\ i # k
    BY <1>3, Constants
  <2>2. Quiet(wire[turn[c].link[i]], srv[turn[c].link[i]], 0, 0)
    BY <1>1, <2>1, Turned DEF LinkOK, k
  <2> QED BY <1>7, <2>1, <2>2 DEF LinkOK
<1> QED BY <1>1, <1>3, <1>7, <1>10, <1>12, <1>14, <1>15, <1>16, TargetsStay, LinkStep
LEMMA TakeAckKeeps ==
  ASSUME SessionInv, NEW c \in Consumers, TakeAck(c)
  PROVE  SessionInv'
<1> DEFINE x == Cur(c)
           t == turn[c]
           k == turn[c].hop
           w2 == [wire[x] EXCEPT !.down = Tail(@)]
<1>1. /\ t.pc = "init" /\ wire[x].down # <<>> /\ Head(wire[x].down).t = "ack"
      /\ wire' = [wire EXCEPT ![x].down = Tail(@)]
      /\ UNCHANGED <<turns, srv, kv, cache, touched, hosts, hung, faults>>
  BY DEF TakeAck, peerVars, envVars
<1>2. /\ turn \in [Consumers -> TurnRec] /\ wire \in [Conns -> WireRec] /\ t \in TurnRec
      /\ target \in [Consumers -> Route] /\ TurnOK(t)
      /\ \A d \in Consumers : RouteOK(target[d])
  BY Types, Turned DEF SessionInv
<1>3. /\ k \in Links(c) /\ x = turn[c].link[k] /\ x \in Conns /\ k \in Hops
      /\ LinkOK(t, k, wire[x], srv[x]) /\ Links(c) = 1..k
  BY <1>1, CurrentLink
<1>4. Opens(wire[x], srv[x])
  BY <1>1, <1>3 DEF LinkOK
<1>5. w2 \in WireRec /\ Quiet(w2, srv[x], 0, 0)
  <2>1. wire[x].up = <<>> /\ wire[x].down = <<[t |-> "ack"]>> /\ At(srv[x], 0, 0)
    BY <1>1, <1>4 DEF Opens
  <2>2. Tail(<<[t |-> "ack"]>>) = <<>>
    OBVIOUS
  <2>3. w2 \in WireRec /\ w2.up = wire[x].up /\ w2.down = Tail(wire[x].down)
    BY <1>1, <1>2, <1>3, Received
  <2> HIDE DEF w2
  <2> QED BY <2>1, <2>2, <2>3 DEF Quiet
<1>6. wire' = [wire EXCEPT ![x] = w2]
  BY <1>1, <1>2, <1>3
<1>7. ConnOK(w2, srv[x])
  BY <1>5 DEF ConnOK, Quiet
<1> HIDE DEF w2
<1>8. \A i \in Links(c) \ {k} :
        Quiet(wire[turn[c].link[i]], srv[turn[c].link[i]], 0, 0) /\ i < k
  <2> SUFFICES ASSUME NEW i \in Links(c) \ {k}
               PROVE  Quiet(wire[turn[c].link[i]], srv[turn[c].link[i]], 0, 0) /\ i < k
    OBVIOUS
  <2>1. i < k /\ i # k
    BY <1>3, Constants
  <2> QED BY <1>1, <2>1, Turned DEF LinkOK
<1>9. t.n = 0 /\ t.pos = 0 /\ t.keep = None /\ Len(t.link) = k /\ RouteOK(t.route)
      /\ (t.spec => DraftLen > 0)
  BY <1>1, <1>2 DEF TurnOK
<1>10. CASE /\ k = Len(Peer0)
            /\ turn' = [turn EXCEPT ![c].pc = "ready", ![c].hop = 0]
            /\ target' = [target EXCEPT ![c] = t.route]
  <2> DEFINE t2 == [t EXCEPT !.pc = "ready", !.hop = 0]
  <2>1. /\ turn' = [turn EXCEPT ![c] = t2] /\ t2 \in TurnRec /\ t2.pc = "ready"
        /\ t2.link = t.link /\ t2.n = 0 /\ t2.pos = 0 /\ t2.keep = None
        /\ t2.route = t.route /\ t2.spec = t.spec
    BY <1>2, <1>9, <1>10 DEF TurnRec
  <2> HIDE DEF t2
  <2>2. TurnOK(t2)
    <3>1. t2.pos <= Reach(t2.n)
      BY <2>1 DEF Reach
    <3> QED BY <1>9, <1>10, <2>1, <3>1 DEF TurnOK, Drafted
  <2>3. target' \in [Consumers -> Route] /\ \A d \in Consumers : RouteOK(target'[d])
    BY <1>2, <1>9, <1>10 DEF RouteOK
  <2>4. LinkOK(t2, k, w2, srv[x])
    BY <1>5, <2>1 DEF LinkOK
  <2>5. \A i \in Links(c) \ {k} :
          LinkOK(t2, i, wire[turn[c].link[i]], srv[turn[c].link[i]])
    BY <1>8, <2>1 DEF LinkOK
  <2> HIDE DEF x, k, t
  <2> QED BY <1>1, <1>3, <1>5, <1>6, <1>7, <2>1, <2>2, <2>3, <2>4, <2>5, LinkStep DEF t
<1>11. CASE /\ k # Len(Peer0)
            /\ turn' = [turn EXCEPT ![c].pc = "dial", ![c].hop = @ + 1]
            /\ UNCHANGED target
  <2> DEFINE t2 == [t EXCEPT !.pc = "dial", !.hop = @ + 1]
  <2>0. k + 1 \in Hops /\ k \in Nat
    BY <1>3, <1>11, Constants
  <2>1. /\ turn' = [turn EXCEPT ![c] = t2] /\ t2 \in TurnRec /\ t2.pc = "dial"
        /\ t2.link = t.link /\ t2.n = 0 /\ t2.pos = 0 /\ t2.keep = None
        /\ t2.route = t.route /\ t2.spec = t.spec /\ t2.hop = k + 1
    BY <1>2, <1>9, <1>11, <2>0 DEF TurnRec
  <2> HIDE DEF t2
  <2>2. TurnOK(t2)
    <3>1. Len(t2.link) = t2.hop - 1
      BY <1>9, <2>0, <2>1
    <3> QED BY <1>9, <2>0, <2>1, <3>1 DEF TurnOK, Drafted
  <2>3. target' \in [Consumers -> Route] /\ \A d \in Consumers : RouteOK(target'[d])
    BY <1>2, <1>11
  <2>4. LinkOK(t2, k, w2, srv[x])
    BY <1>5, <2>1 DEF LinkOK
  <2>5. \A i \in Links(c) \ {k} :
          LinkOK(t2, i, wire[turn[c].link[i]], srv[turn[c].link[i]])
    BY <1>8, <2>1 DEF LinkOK
  <2> HIDE DEF x, k, t
  <2> QED BY <1>1, <1>3, <1>5, <1>6, <1>7, <2>1, <2>2, <2>3, <2>4, <2>5, LinkStep DEF t
<1> QED BY <1>1, <1>10, <1>11 DEF TakeAck

\* The consumer lets go of its chain: nothing is said to the peers.
LEMMA DropKeeps ==
  ASSUME SessionInv, NEW c \in Consumers, NEW t2 \in TurnRec, TurnOK(t2), t2.link = <<>>,
         turn' = [turn EXCEPT ![c] = t2], NEW w \in [Conns -> WireRec],
         wire' = Dropped(w, turn[c].link),
         \A y \in Conns : ConnOK(w[y], srv[y]) /\ (~Own(c, y) => w[y] = wire[y]),
         UNCHANGED <<target, turns, srv, kv, cache, touched, hosts, hung, faults>>
  PROVE  SessionInv'
<1> DEFINE D(y) == [w[y] EXCEPT !.st = IF @ = "up" THEN "shut" ELSE @, !.down = <<>>]
<1>1. \A y \in Conns : wire'[y] = IF \E i \in Links(c) : turn[c].link[i] = y
                                  THEN D(y) ELSE w[y]
  BY DEF Dropped, Links
<1>2. \A y \in Conns : D(y) \in WireRec /\ D(y).up = w[y].up
  <2> SUFFICES ASSUME NEW y \in Conns PROVE D(y) \in WireRec /\ D(y).up = w[y].up
    OBVIOUS
  <2> DEFINE v == w[y]
             st == IF v.st = "up" THEN "shut" ELSE v.st
  <2>1. v \in WireRec
    OBVIOUS
  <2>2. D(y) = [v EXCEPT !.st = st, !.down = <<>>]
    OBVIOUS
  <2> HIDE DEF D, v
  <2>3. st \in {"up", "shut", "broken"}
    BY <2>1 DEF WireRec
  <2> HIDE DEF st
  <2>4. <<>> \in Seq(Replies)
    OBVIOUS
  <2>5. /\ [v EXCEPT !.st = st, !.down = <<>>] \in WireRec
        /\ [v EXCEPT !.st = st, !.down = <<>>].up = v.up
    BY ONLY <2>1, <2>3, <2>4 DEF WireRec
  <2> QED BY <2>2, <2>5 DEF v
<1> HIDE DEF D
<1>3. wire' \in [Conns -> WireRec]
  <2>1. \A y \in Conns : wire'[y] \in WireRec
    BY <1>1, <1>2
  <2>2. wire' = [y \in Conns |-> wire'[y]]
    BY DEF Dropped
  <2> QED BY <2>1, <2>2
<1>4. \A y \in Conns : ~Own(c, y) => wire'[y] = wire[y]
  BY <1>1, Turned
<1>5. \A y \in Conns : ConnOK(wire'[y], srv[y])
  BY <1>1, <1>2 DEF ConnOK
<1>6. ServerSide
  BY CachesStay, Types DEF SessionInv, ServerSide
<1>7. srv' \in [Conns -> ServerRec] /\ \A y \in Conns : ServerOK(srv'[y])
  BY Types, Served DEF SessionInv
<1>8. DOMAIN t2.link = {}
  OBVIOUS
<1> QED BY <1>3, <1>4, <1>5, <1>6, <1>7, <1>8, TargetsStay, TurnStep

LEMMA SwapHopOK ==
  ASSUME NEW r, RouteOK(r), NEW i \in Hops, r.alts[i] # <<>>
  PROVE  RouteOK(SwapHop(r, i))
<1>1. /\ r.peers \in Seq(Peers) /\ r.alts \in Seq(Seq(Peers))
      /\ i \in 1..Len(r.peers) /\ i \in 1..Len(r.alts)
      /\ Len(r.peers) = Len(Peer0) /\ Len(r.alts) = Len(Peer0)
  BY Constants DEF RouteOK, Route
<1>2. r.alts[i] \in Seq(Peers)
  BY <1>1
<1>3. Head(r.alts[i]) \in Peers /\ Tail(r.alts[i]) \in Seq(Peers)
  BY <1>2
<1>4. /\ [r.peers EXCEPT ![i] = Head(r.alts[i])] \in Seq(Peers)
      /\ Len([r.peers EXCEPT ![i] = Head(r.alts[i])]) = Len(r.peers)
  BY <1>1, <1>3
<1>5. /\ [r.alts EXCEPT ![i] = Tail(@)] \in Seq(Seq(Peers))
      /\ Len([r.alts EXCEPT ![i] = Tail(@)]) = Len(r.alts)
  BY <1>1, <1>3
<1> QED BY <1>1, <1>4, <1>5 DEF RouteOK, Route, SwapHop

LEMMA ConnectFailsKeeps ==
  ASSUME SessionInv, NEW c \in Consumers, ConnectFails(c)
  PROVE  SessionInv'
<1> DEFINE t == turn[c]
           t1 == [NoTurn EXCEPT !.pc = "dial", !.hop = 1, !.spec = t.spec,
                    !.route = SwapHop(t.route, t.hop), !.attempts = t.attempts + 1]
           t2 == IF MayRetry(t) THEN t1 ELSE NoTurn
<1>1. /\ t.pc \in {"dial", "hello", "init"} /\ wire' = Dropped(wire, turn[c].link)
      /\ turn' = [turn EXCEPT ![c] = t2]
      /\ UNCHANGED <<target, turns, srv, kv, cache, touched, hosts, hung, faults>>
  BY DEF ConnectFails, DialFails, peerVars, envVars
<1>2. /\ RouteOK(t.route) /\ t.hop \in Hops /\ (t.spec => DraftLen > 0)
      /\ t.spec \in BOOLEAN /\ t.attempts \in Nat
  BY <1>1, Turned DEF TurnOK, TurnRec
<1>3. t2 \in TurnRec /\ TurnOK(t2) /\ t2.link = <<>>
  <2>1. CASE MayRetry(t)
    <3>1. RouteOK(SwapHop(t.route, t.hop)) /\ t.attempts + 1 \in 0..MaxFailover
      BY <1>2, <2>1, SwapHopOK, Constants DEF MayRetry
    <3>2. t1 \in TurnRec /\ TurnOK(t1) /\ t1.link = <<>>
      BY <1>2, <3>1, FirstDial
    <3> QED BY <2>1, <3>2
  <2>2. CASE ~MayRetry(t)
    BY <2>2, NoTurnOK
  <2> QED BY <2>1, <2>2
<1> HIDE DEF t2
<1>4. wire \in [Conns -> WireRec] /\ \A y \in Conns : ConnOK(wire[y], srv[y])
  BY Types, Served DEF SessionInv
<1> QED BY <1>1, <1>3, <1>4, DropKeeps
LEMMA CloseLinkKeeps ==
  ASSUME SessionInv, NEW c \in Consumers, CloseLink(c)
  PROVE  SessionInv'
<1> DEFINE x == Cur(c)
           t == turn[c]
           k == turn[c].hop
           w == Ask(wire, x, [t |-> "abort"])
<1>1. /\ t.pc = "close"
      /\ UNCHANGED <<target, turns, srv, kv, cache, touched, hosts, hung, faults>>
      /\ \/ wire' = Dropped(w, t.link) /\ turn' = [turn EXCEPT ![c] = NoTurn]
         \/ /\ k # Len(t.link) /\ wire' = w
            /\ turn' = [turn EXCEPT ![c].hop = @ + 1]
  BY DEF CloseLink, peerVars, envVars
<1>2. /\ turn \in [Consumers -> TurnRec] /\ wire \in [Conns -> WireRec] /\ t \in TurnRec
      /\ TurnOK(t)
  BY Types, Turned DEF SessionInv
<1>3. /\ k \in Links(c) /\ x = turn[c].link[k] /\ x \in Conns /\ k \in Hops
      /\ Links(c) = Hops
  BY <1>1, CurrentLink
<1>4. PICK w2 \in WireRec :
        /\ w = [wire EXCEPT ![x] = w2]
        /\ w2.up \in {wire[x].up, Append(wire[x].up, [t |-> "abort"])}
  BY <1>2, <1>3, AskIs, MessageTypes
<1> HIDE DEF w, x
<1>5. w \in [Conns -> WireRec] /\ w[x] = w2 /\ \A y \in Conns \ {x} : w[y] = wire[y]
  BY <1>2, <1>3, <1>4
<1>6. ConnOK(w2, srv[x])
  <2>1. ConnOK(wire[x], srv[x]) /\ wire[x].up \in Seq(Requests)
    BY <1>3, Served
  <2>2. \A j \in DOMAIN w2.up : w2.up[j].t = "forward" =>
          j \in DOMAIN wire[x].up /\ w2.up[j] = wire[x].up[j]
    <3>1. CASE w2.up = wire[x].up
      BY <3>1
    <3>2. CASE w2.up = Append(wire[x].up, [t |-> "abort"])
      BY <2>1, <3>2
    <3> QED BY <1>4, <3>1, <3>2
  <2> QED BY <2>1, <2>2 DEF ConnOK
<1>7. CASE wire' = Dropped(w, t.link) /\ turn' = [turn EXCEPT ![c] = NoTurn]
  <2>1. \A y \in Conns : ConnOK(w[y], srv[y]) /\ (~Own(c, y) => w[y] = wire[y])
    BY <1>3, <1>5, <1>6, Served, Turned
  <2> HIDE DEF k
  <2> QED BY <1>1, <1>5, <1>7, <2>1, NoTurnOK, DropKeeps
<1>8. CASE /\ k # Len(t.link) /\ wire' = w
           /\ turn' = [turn EXCEPT ![c].hop = @ + 1]
  <2> DEFINE t2 == [t EXCEPT !.hop = @ + 1]
  <2>1. k + 1 \in Hops
    BY <1>1, <1>2, <1>3, <1>8, Constants DEF TurnOK
  <2>2. /\ turn' = [turn EXCEPT ![c] = t2] /\ t2 \in TurnRec /\ t2.pc = "close"
        /\ t2.link = t.link /\ t2.route = t.route /\ t2.spec = t.spec /\ t2.hop = k + 1
    BY <1>1, <1>2, <1>8, <2>1 DEF TurnRec
  <2> HIDE DEF t2
  <2>3. TurnOK(t2)
    BY <1>1, <1>2, <2>1, <2>2 DEF TurnOK
  <2>4. \A i \in Nat : \A v, s : LinkOK(t2, i, v, s)
    BY <2>2 DEF LinkOK
  <2>5. Links(c) \subseteq Nat
    BY <1>3, Constants
  <2>6. wire' = [wire EXCEPT ![x] = w2]
    BY <1>4, <1>8
  <2> HIDE DEF k
  <2> QED BY <1>1, <1>3, <1>6, <2>2, <2>3, <2>4, <2>5, <2>6, TargetsStay, LinkStep
<1> QED BY <1>1, <1>7, <1>8

LEMMA DialKeeps ==
  ASSUME SessionInv, NEW c \in Consumers, Dial(c)
  PROVE  SessionInv'
<1> DEFINE t == turn[c]
           k == t.hop
           p == t.route.peers[k]
           w2 == [st |-> "up", up |-> <<[t |-> "hello"]>>, down |-> <<>>]
           s2 == [NoServer EXCEPT !.st = "new", !.peer = p]
<1>1. PICK x \in Conns :
        /\ Free(x) /\ wire' = [wire EXCEPT ![x] = w2] /\ srv' = [srv EXCEPT ![x] = s2]
        /\ turn' = [turn EXCEPT ![c].pc = "hello", ![c].link = Append(@, x)]
  BY DEF Dial
<1>2. /\ t.pc = "dial"
      /\ UNCHANGED <<target, turns, kv, cache, touched, hosts, hung, faults>>
  BY DEF Dial, envVars
<1>3. /\ turn \in [Consumers -> TurnRec] /\ wire \in [Conns -> WireRec] /\ t \in TurnRec
      /\ srv \in [Conns -> ServerRec] /\ TurnOK(t)
  BY Types, Turned DEF SessionInv
<1>4. /\ k \in Hops /\ t.n = 0 /\ t.pos = 0 /\ t.keep = None /\ RouteOK(t.route)
      /\ (t.spec => DraftLen > 0) /\ Len(t.link) = k - 1 /\ t.link \in Seq(Conns)
  BY <1>2, <1>3 DEF TurnOK, TurnRec
<1>5. p \in Peers
  <2>1. t.route.peers \in Seq(Peers) /\ k \in 1..Len(t.route.peers)
    BY <1>4, Constants DEF RouteOK, Route
  <2> QED BY <2>1
<1> HIDE DEF p
<1>6. s2 \in ServerRec /\ s2.st = "new" /\ ServerOK(s2)
  <2>1. /\ s2.st = "new" /\ s2.inst = None /\ s2.peer = p
        /\ s2 = [NoServer EXCEPT !.st = "new", !.peer = p]
    BY DEF NoServer
  <2>2. s2 \in ServerRec
    BY <1>5, <2>1, NoServerType DEF ServerRec
  <2> HIDE DEF s2
  <2> QED BY <1>5, <2>1, <2>2 DEF ServerOK
<1>7. w2 \in WireRec /\ w2.up = <<[t |-> "hello"]>> /\ w2.down = <<>>
  <2>1. <<[t |-> "hello"]>> \in Seq(Requests) /\ <<>> \in Seq(Replies)
    BY MessageTypes
  <2> QED BY <2>1 DEF WireRec
<1> HIDE DEF s2, w2
<1>8. /\ wire' \in [Conns -> WireRec] /\ srv' \in [Conns -> ServerRec]
      /\ wire'[x] = w2 /\ srv'[x] = s2
      /\ \A y \in Conns \ {x} : wire'[y] = wire[y] /\ srv'[y] = srv[y]
  BY <1>1, <1>3, <1>6, <1>7
<1>9. \A d \in Consumers : \A j \in Links(d) : turn[d].link[j] # x
  BY <1>1 DEF Free, Links
<1>10. Own(c, x)
  BY <1>9 DEF Own
<1>11. ConnOK(w2, s2)
  <2>1. w2.up[1].t # "forward" /\ DOMAIN w2.up = {1}
    BY <1>7
  <2> QED BY <2>1 DEF ConnOK
<1>12. \A y \in Conns : ConnOK(wire'[y], srv'[y]) /\ ServerOK(srv'[y])
  BY <1>6, <1>8, <1>11, Served
<1>13. ServerSide
  <2>1. \A y \in Conns : srv'[y].st = "open" => srv'[y] = srv[y]
    BY <1>6, <1>8
  <2> QED BY <1>2, <2>1, CachesStay, Types DEF SessionInv, ServerSide
<1> DEFINE t2 == [t EXCEPT !.pc = "hello", !.link = Append(@, x)]
<1>14. /\ turn' = [turn EXCEPT ![c] = t2] /\ t2.pc = "hello"
       /\ t2.link = Append(t.link, x) /\ t2.n = 0 /\ t2.pos = 0 /\ t2.keep = None
       /\ t2.route = t.route /\ t2.spec = t.spec /\ t2.hop = k
  BY <1>1, <1>3, <1>4 DEF TurnRec
<1>15. t2 \in TurnRec
  <2>1. Append(t.link, x) \in Seq(Conns)
    BY <1>4
  <2> QED BY <1>3, <2>1 DEF TurnRec
<1> HIDE DEF t2
<1>16. /\ Len(t2.link) = k /\ DOMAIN t2.link = 1..k /\ t2.link[k] = x /\ k \in Nat
       /\ Links(c) = 1..(k - 1) /\ \A i \in 1..(k - 1) : t2.link[i] = t.link[i]
  BY <1>4, <1>14, Constants DEF Links
<1>17. TurnOK(t2)
  BY <1>4, <1>14, <1>16 DEF TurnOK
<1>18. \A i, j \in DOMAIN t2.link : t2.link[i] = t2.link[j] => i = j
  <2> SUFFICES ASSUME NEW i \in 1..k, NEW j \in 1..k, t2.link[i] = t2.link[j]
               PROVE  i = j
    BY <1>16
  <2>1. (i \in 1..(k - 1) \/ i = k) /\ (j \in 1..(k - 1) \/ j = k)
    BY <1>16
  <2>2. CASE i = k /\ j # k
    BY <1>9, <1>16, <2>1, <2>2
  <2>3. CASE i # k /\ j = k
    BY <1>9, <1>16, <2>1, <2>3
  <2>4. CASE i # k /\ j # k
    <3>1. i \in Links(c) /\ j \in Links(c) /\ t.link[i] = t.link[j]
      BY <1>16, <2>1, <2>4
    <3> QED BY <3>1, Turned
  <2> QED BY <2>2, <2>3, <2>4
<1>19. ASSUME NEW i \in DOMAIN t2.link
       PROVE  Own(c, t2.link[i]) /\ LinkOK(t2, i, wire'[t2.link[i]], srv'[t2.link[i]])
  <2>1. CASE i = k
    <3>1. Greets(w2, s2)
      BY <1>6, <1>7 DEF Greets
    <3>2. LinkOK(t2, k, w2, s2)
      BY <1>14, <1>16, <3>1 DEF LinkOK
    <3> QED BY <1>8, <1>10, <1>16, <2>1, <3>2
  <2>2. CASE i # k
    <3>1. i \in Links(c) /\ i < k /\ t2.link[i] = t.link[i]
      BY <1>16, <2>2
    <3>2. t.link[i] \in Conns \ {x} /\ Own(c, t.link[i])
      BY <1>9, <3>1, Turned
    <3>3. Quiet(wire[t.link[i]], srv[t.link[i]], 0, 0)
      BY <1>2, <1>4, <3>1, Turned DEF LinkOK
    <3>4. LinkOK(t2, i, wire[t.link[i]], srv[t.link[i]])
      BY <1>14, <1>16, <3>1, <3>3 DEF LinkOK
    <3> QED BY <1>8, <3>1, <3>2, <3>4
  <2> QED BY <2>1, <2>2
<1>20. \A y \in Conns : ~Own(c, y) => wire'[y] = wire[y] /\ srv'[y] = srv[y]
  BY <1>8, <1>10
<1> QED BY <1>2, <1>8, <1>12, <1>13, <1>14, <1>15, <1>17, <1>18, <1>19, <1>20,
           TargetsStay, TurnStep
\* A step leads to a position within the bound.
LEMMA NewPosFits ==
  ASSUME NEW t \in TurnRec, TurnOK(t), t.pc = "step"
  PROVE  /\ NewPos(t) \in Positions /\ NewPos(t) \in Nat /\ NewPos(t) <= Reach(t.n)
         /\ t.n \in 1..MaxSteps
         /\ t.keep # None => t.keep \in Nat /\ t.keep <= t.pos
<1>1. /\ t.pos \in Positions /\ t.n \in 0..MaxSteps /\ t.len \in 0..(PromptLen + DraftLen)
      /\ t.keep \in Positions \cup {None}
  BY DEF TurnRec
<1>2. t.pos \in Nat /\ t.len \in Nat /\ (t.keep # None => t.keep \in Nat)
  <2>1. Positions \subseteq Nat
    BY Constants
  <2>2. t.pos \in Nat /\ (t.keep # None => t.keep \in Nat)
    BY <1>1, <2>1
  <2>3. t.len \in Nat
    BY <1>1
  <2> QED BY <2>2, <2>3
<1>3. t.n > 0 /\ NewPos(t) <= Reach(t.n) /\ (t.keep # None => t.keep <= t.pos)
  BY DEF TurnOK
<1>4. NewPos(t) \in Nat
  BY <1>2 DEF NewPos
<1>5. t.n \in 1..MaxSteps /\ Reach(t.n) \in Positions
  <2>1. Reach(t.n) \in Positions
    BY <1>1, ReachSteps
  <2> QED BY <1>1, <1>3, <2>1
<1> DEFINE r == Reach(t.n)
           p == NewPos(t)
           Q == MaxSteps * (DraftLen + 1)
<1>6. Q \in Nat /\ PromptLen \in Nat /\ Positions = 0..(PromptLen + Q)
  BY Constants DEF Positions
<1> HIDE DEF r, p, Q
<1>7. r \in Positions /\ p \in Nat /\ p <= r
  BY <1>3, <1>4, <1>5 DEF r, p
<1>8. p \in Positions
  BY <1>6, <1>7
<1> QED BY <1>2, <1>3, <1>4, <1>5, <1>8 DEF p

\* The request of a step, on a link where nothing is under way.
LEMMA SendLink ==
  ASSUME NEW t \in TurnRec, TurnOK(t), t.pc = "step", NEW w, NEW s,
         Quiet(w, s, t.n - 1, t.pos), NEW w2, w2.down = w.down,
         NEW m \in {Step(t), [t |-> "part"]}, w2.up \in {w.up, Append(w.up, m)}
  PROVE  Steps(w2, s, t) /\ ConnOK(w2, s)
<1>1. w.up = <<>> /\ w2.down = <<>> /\ At(s, t.n - 1, t.pos)
  BY DEF Quiet
<1>2. w2.up = <<>> \/ w2.up = <<m>>
  BY <1>1
<1>3. Steps(w2, s, t)
  BY <1>1, <1>2 DEF Steps
<1>4. ConnOK(w2, s)
  <2> SUFFICES ASSUME NEW k \in DOMAIN w2.up, w2.up[k].t = "forward"
               PROVE  /\ k = 1 /\ s.st \in {"closed", "open"} /\ w2.up[k].n <= MaxSteps
                      /\ s.st = "open" =>
                           /\ (IF w2.up[k].keep = None THEN s.pos ELSE w2.up[k].keep)
                                + w2.up[k].len \in Positions
                           /\ w2.up[k].keep # None => w2.up[k].keep <= s.pos
    BY DEF ConnOK
  <2>1. w2.up = <<m>> /\ k = 1 /\ w2.up[k] = m
    BY <1>2
  <2>2. m = Step(t)
    BY <2>1
  <2>3. m.n = t.n /\ m.len = t.len /\ m.keep = t.keep
    BY <2>2 DEF Step
  <2>4. t.n <= MaxSteps /\ NewPos(t) \in Positions /\ (t.keep # None => t.keep <= t.pos)
    BY NewPosFits, Constants
  <2>5. s.st \in {"closed", "open"} /\ (s.st = "open" => s.pos = t.pos)
    BY <1>1 DEF At
  <2> QED BY <2>1, <2>3, <2>4, <2>5 DEF NewPos
<1> QED BY <1>3, <1>4

LEMMA ForwardIs ==
  ASSUME NEW w \in [Conns -> WireRec], NEW x \in Conns, NEW t \in TurnRec
  PROVE  \E w2 \in WireRec, m \in {Step(t), [t |-> "part"]} :
           /\ Forward(w, x, Step(t)) = [w EXCEPT ![x] = w2]
           /\ w2.down = w[x].down /\ w2.up \in {w[x].up, Append(w[x].up, m)}
<1> DEFINE m == IF "full" \in Faults /\ Hung(x) THEN [t |-> "part"] ELSE Step(t)
<1>1. Step(t) \in Requests
  <2>1. t.n \in 0..MaxSteps /\ t.len \in 0..(PromptLen + DraftLen)
        /\ t.keep \in Positions \cup {None}
    BY DEF TurnRec
  <2>2. t.n \in Nat /\ t.len \in Nat
    BY <2>1
  <2> QED BY <2>1, <2>2 DEF Step, Requests, Forwards
<1>2. m \in {Step(t), [t |-> "part"]} /\ m \in Requests
  BY <1>1, MessageTypes
<1>3. Forward(w, x, Step(t)) = Ask(w, x, m)
  BY DEF Forward
<1> HIDE DEF m
<1>4. PICK w2 \in WireRec : /\ Ask(w, x, m) = [w EXCEPT ![x] = w2]
                            /\ w2.down = w[x].down
                            /\ w2.up \in {w[x].up, Append(w[x].up, m)}
  BY <1>2, AskIs
<1> QED BY <1>2, <1>3, <1>4

\* SendStep, of a step that fits the bounds.
LEMMA SendStepKeeps ==
  ASSUME SessionInv, NEW c \in Consumers, turn[c].pc = "ready",
         NEW len \in 0..(PromptLen + DraftLen), NEW keep \in Positions \cup {None},
         SendStep(c, len, keep),
         turn[c].n + 1 <= MaxSteps, keep # None => keep <= turn[c].pos,
         (IF keep = None THEN turn[c].pos ELSE keep) + len <= Reach(turn[c].n + 1),
         turn[c].spec /\ turn[c].n > 0 /\ keep = None =>
           len = DraftLen /\ turn[c].n + 1 < MaxSteps
  PROVE  SessionInv'
<1> DEFINE t == turn[c]
           t2 == [t EXCEPT !.pc = "step", !.hop = 1, !.n = @ + 1, !.len = len, !.keep = keep]
           x == t.link[1]
<1>1. /\ turn \in [Consumers -> TurnRec] /\ wire \in [Conns -> WireRec] /\ t \in TurnRec
      /\ TurnOK(t) /\ t.n \in Nat
  BY Types, Turned DEF SessionInv
<1>2. /\ wire' = Forward(wire, x, [t |-> "forward", n |-> t.n + 1, len |-> len, keep |-> keep])
      /\ turn' = [turn EXCEPT ![c].pc = "step", ![c].hop = 1, ![c].n = @ + 1,
                              ![c].len = len, ![c].keep = keep]
      /\ UNCHANGED <<target, turns, srv, kv, cache, touched, hosts, hung, faults>>
  BY DEF SendStep, peerVars, envVars
<1>3. 1 \in Hops /\ t.n + 1 \in 0..MaxSteps
  BY <1>1, Constants
<1>4. /\ turn' = [turn EXCEPT ![c] = t2] /\ t2.pc = "step" /\ t2.hop = 1 /\ t2.n = t.n + 1
      /\ t2.len = len /\ t2.keep = keep /\ t2.link = t.link /\ t2.pos = t.pos
      /\ t2.route = t.route /\ t2.spec = t.spec
  BY <1>1, <1>2 DEF TurnRec
<1>5. t2 \in TurnRec
  BY <1>1, <1>3 DEF TurnRec
<1> HIDE DEF t2
<1>6. Links(c) = Hops /\ 1 \in Links(c) /\ x \in Conns /\ Len(t.link) = Len(Peer0)
  <2>1. Len(t.link) = Len(Peer0) /\ t.link \in Seq(Conns)
    BY <1>1, Turned DEF TurnOK
  <2> QED BY <1>3, <2>1, Constants DEF Links
<1>7. TurnOK(t2)
  <2>1. NewPos(t2) <= Reach(t2.n)
    BY <1>4 DEF NewPos
  <2>2. Drafted(t2) => t2.len = DraftLen /\ t2.n < MaxSteps
    BY <1>1, <1>4 DEF Drafted
  <2>3. t2.n > 0
    BY <1>1, <1>4
  <2>4. RouteOK(t2.route) /\ (t2.spec => DraftLen > 0) /\ Len(t2.link) = Len(Peer0)
    BY <1>1, <1>4, <1>6 DEF TurnOK
  <2> QED BY <1>3, <1>4, <2>1, <2>2, <2>3, <2>4 DEF TurnOK
<1>8. Step(t2) = [t |-> "forward", n |-> t.n + 1, len |-> len, keep |-> keep]
  BY <1>4 DEF Step
<1> HIDE DEF x
<1>9. PICK w2 \in WireRec, m \in {Step(t2), [t |-> "part"]} :
        /\ wire' = [wire EXCEPT ![x] = w2]
        /\ w2.down = wire[x].down /\ w2.up \in {wire[x].up, Append(wire[x].up, m)}
  <2>1. wire' = Forward(wire, x, Step(t2))
    BY <1>2, <1>8
  <2> QED BY <1>1, <1>5, <1>6, <2>1, ForwardIs
<1>10. \A i \in Links(c) : Quiet(wire[t.link[i]], srv[t.link[i]], t2.n - 1, t2.pos)
  <2>1. t2.n - 1 = t.n
    BY <1>1, <1>4
  <2> QED BY <1>4, <2>1, Turned DEF LinkOK
<1>11. Steps(w2, srv[x], t2) /\ ConnOK(w2, srv[x])
  <2>1. Quiet(wire[x], srv[x], t2.n - 1, t2.pos)
    BY <1>6, <1>10 DEF x
  <2> QED BY <1>4, <1>5, <1>7, <1>9, <2>1, SendLink
<1>12. LinkOK(t2, 1, w2, srv[x])
  BY <1>4, <1>11 DEF LinkOK
<1>13. \A i \in Links(c) \ {1} : LinkOK(t2, i, wire[t.link[i]], srv[t.link[i]])
  <2> SUFFICES ASSUME NEW i \in Links(c) \ {1}
               PROVE  LinkOK(t2, i, wire[t.link[i]], srv[t.link[i]])
    OBVIOUS
  <2>1. i > 1 /\ i # 1 /\ ~(i < 1)
    BY <1>6, Constants
  <2> QED BY <1>4, <1>10, <2>1 DEF LinkOK
<1> QED BY <1>2, <1>4, <1>5, <1>6, <1>7, <1>9, <1>11, <1>12, <1>13, TargetsStay, LinkStep
         DEF x
LEMMA SendsKeep ==
  ASSUME SessionInv, NEW c \in Consumers, Prefill(c) \/ Decode(c) \/ Verify(c) \/ Commit(c)
  PROVE  SessionInv'
<1> DEFINE t == turn[c]
           p == t.pos
           n == t.n
<1>1. t.pc = "ready"
  BY DEF Prefill, Decode, Verify, Commit
<1>2. t \in TurnRec /\ TurnOK(t) /\ p \in Nat /\ n \in Nat /\ n \in 0..MaxSteps
      /\ p \in Positions
  BY Turned DEF TurnRec
<1>3. /\ p <= Reach(n) /\ (Drafted(t) => p >= DraftLen /\ n < MaxSteps)
      /\ Reach(n) \in Nat
  BY <1>1, <1>2, ReachSteps DEF TurnOK
<1>4. /\ None \notin Positions /\ None \in Positions \cup {None}
      /\ PromptLen \in Nat /\ DraftLen \in Nat /\ PromptLen > 0 /\ MaxSteps \in Nat
      /\ MaxSteps > 0 /\ Positions \subseteq Nat
  BY Constants
<1> HIDE DEF p, n
<1>5. CASE Prefill(c)
  <2>1. n = 0 /\ SendStep(c, PromptLen, None)
    BY <1>5 DEF Prefill, n
  <2>2. p = 0
    BY <1>2, <1>3, <2>1 DEF Reach
  <2>3. PromptLen \in 0..(PromptLen + DraftLen) /\ n + 1 <= MaxSteps /\ n + 1 = 1
    BY <1>4, <2>1
  <2>4. p + PromptLen <= Reach(n + 1)
    BY <1>4, <2>2, <2>3, ReachSteps
  <2>5. ~(n > 0)
    BY <2>1
  <2> QED BY <1>1, <1>4, <2>1, <2>3, <2>4, <2>5, SendStepKeeps DEF n, p
<1>6. CASE Decode(c)
  <2>1. n \in 1..(MaxSteps - 1) /\ ~t.spec /\ SendStep(c, 1, None)
    BY <1>6 DEF Decode, n
  <2>2. 1 \in 0..(PromptLen + DraftLen) /\ n + 1 <= MaxSteps /\ n \in 1..MaxSteps
        /\ 1 \in 0..(DraftLen + 1)
    BY <1>4, <2>1
  <2>3. Reach(n) + 1 <= Reach(n + 1) /\ Reach(n + 1) \in Nat
    BY <1>2, <2>2, ReachSteps
  <2>4. p + 1 <= Reach(n + 1)
    BY <1>2, <1>3, <2>3
  <2> QED BY <1>1, <1>4, <2>1, <2>2, <2>4, SendStepKeeps DEF n, p
<1>7. CASE Verify(c)
  <2>1. n \in 1..(MaxSteps - 2) /\ SendStep(c, DraftLen, None)
    BY <1>7 DEF Verify, n
  <2>2. DraftLen \in 0..(PromptLen + DraftLen) /\ n + 1 < MaxSteps /\ n + 1 <= MaxSteps
        /\ n \in 1..MaxSteps /\ DraftLen \in 0..(DraftLen + 1)
    BY <1>4, <2>1
  <2>3. Reach(n) + DraftLen <= Reach(n + 1) /\ Reach(n + 1) \in Nat
    BY <1>2, <2>2, ReachSteps
  <2>4. p + DraftLen <= Reach(n + 1)
    BY <1>2, <1>3, <1>4, <2>3
  <2> QED BY <1>1, <1>4, <2>1, <2>2, <2>4, SendStepKeeps DEF n, p
<1>8. CASE Commit(c)
  <2>1. t.spec /\ n > 1 /\ t.keep = None
    BY <1>8 DEF Commit, Verified, n
  <2>2. PICK j \in 0..DraftLen : SendStep(c, 1, p - DraftLen + j)
    BY <1>8 DEF Commit, p
  <2> DEFINE keep == p - DraftLen + j
  <2>3. p >= DraftLen /\ n < MaxSteps
    BY <1>3, <2>1 DEF Drafted, n
  <2>4. keep \in Nat /\ keep <= p
    BY <1>2, <1>4, <2>3
  <2> HIDE DEF keep
  <2>5. keep \in Positions /\ keep # None
    <3> DEFINE Q == MaxSteps * (DraftLen + 1)
    <3>1. Q \in Nat /\ Positions = 0..(PromptLen + Q)
      BY <1>4 DEF Positions
    <3> HIDE DEF Q
    <3>2. keep \in Positions
      BY <1>2, <1>4, <2>4, <3>1
    <3> QED BY <1>4, <3>2
  <2>6. 1 \in 0..(PromptLen + DraftLen) /\ n + 1 <= MaxSteps /\ n \in 1..MaxSteps
        /\ 1 \in 0..(DraftLen + 1)
    BY <1>2, <1>4, <2>1, <2>3
  <2>7. Reach(n) + 1 <= Reach(n + 1) /\ Reach(n + 1) \in Nat
    BY <1>2, <2>6, ReachSteps
  <2>8. keep + 1 <= Reach(n + 1)
    BY <1>2, <1>3, <2>4, <2>7
  <2>9. SendStep(c, 1, keep)
    BY <2>2 DEF keep
  <2> QED BY <1>1, <2>4, <2>5, <2>6, <2>8, <2>9, SendStepKeeps DEF n, p
<1> QED BY <1>5, <1>6, <1>7, <1>8

\* The answer to a step, and the only one there is.
LEMMA StepAnswered ==
  ASSUME NEW t, NEW w \in WireRec, NEW s, Steps(w, s, t), w.down # <<>>,
         NEW w2, w2.up = w.up, w2.down = Tail(w.down)
  PROVE  Quiet(w2, s, t.n, NewPos(t))
<1>1. w.up = <<>> /\ w.down = <<[t |-> "out", n |-> t.n]>> /\ At(s, t.n, NewPos(t))
  BY DEF Steps
<1>2. Tail(<<[t |-> "out", n |-> t.n]>>) = <<>>
  OBVIOUS
<1> QED BY <1>1, <1>2 DEF Quiet

LEMMA TakeOutputKeeps ==
  ASSUME SessionInv, NEW c \in Consumers, TakeOutput(c)
  PROVE  SessionInv'
<1> DEFINE x == Cur(c)
           t == turn[c]
           k == t.hop
           w1 == [wire[x] EXCEPT !.down = Tail(@)]
           v == [wire EXCEPT ![x].down = Tail(@)]
<1>1. /\ t.pc = "step" /\ wire[x].down # <<>>
      /\ UNCHANGED <<target, turns, srv, kv, cache, touched, hosts, hung, faults>>
  BY DEF TakeOutput, peerVars, envVars
<1>2. /\ turn \in [Consumers -> TurnRec] /\ wire \in [Conns -> WireRec] /\ t \in TurnRec
      /\ TurnOK(t) /\ t.n \in Nat /\ t.pos \in Nat /\ t.len \in Nat
  BY Types, Turned DEF SessionInv
<1>3. /\ k \in Links(c) /\ x = t.link[k] /\ x \in Conns /\ k \in Hops
      /\ LinkOK(t, k, wire[x], srv[x]) /\ Links(c) = Hops
  BY <1>1, CurrentLink
<1>4. w1 \in WireRec /\ w1.up = wire[x].up /\ w1.down = Tail(wire[x].down)
  BY <1>1, <1>2, <1>3, Received
<1>5. v = [wire EXCEPT ![x] = w1]
  BY <1>2, <1>3
<1> HIDE DEF w1
<1>6. Quiet(w1, srv[x], t.n, NewPos(t))
  <2>1. Steps(wire[x], srv[x], t)
    BY <1>1, <1>3 DEF LinkOK
  <2>2. wire[x] \in WireRec
    BY <1>2, <1>3
  <2> QED BY <1>1, <1>4, <2>1, <2>2, StepAnswered
<1>7. ConnOK(w1, srv[x])
  BY <1>6 DEF Quiet, ConnOK
<1>8. /\ NewPos(t) \in Positions /\ NewPos(t) \in Nat /\ NewPos(t) <= Reach(t.n)
      /\ t.n \in 1..MaxSteps
  BY <1>1, <1>2, NewPosFits
<1>9. /\ Len(t.link) = Len(Peer0) /\ RouteOK(t.route) /\ (t.spec => DraftLen > 0)
      /\ (Drafted(t) => t.len = DraftLen /\ t.n < MaxSteps)
      /\ (t.keep # None => t.keep <= t.pos)
  BY <1>1, <1>2 DEF TurnOK
<1>10. CASE /\ k = Len(t.link) /\ wire' = v
            /\ turn' = [turn EXCEPT ![c].pc = "ready", ![c].hop = 0, ![c].pos = NewPos(t)]
  <2> DEFINE t2 == [t EXCEPT !.pc = "ready", !.hop = 0, !.pos = NewPos(t)]
  <2>1. /\ turn' = [turn EXCEPT ![c] = t2] /\ t2.pc = "ready"
        /\ t2.link = t.link /\ t2.n = t.n /\ t2.pos = NewPos(t) /\ t2.keep = t.keep
        /\ t2.route = t.route /\ t2.spec = t.spec
    BY <1>2, <1>10 DEF TurnRec
  <2>2. t2 \in TurnRec
    BY <1>2, <1>8 DEF TurnRec
  <2> HIDE DEF t2
  <2>3. TurnOK(t2)
    <3>1. Drafted(t2) => t2.pos >= DraftLen /\ t2.n < MaxSteps
      <4> SUFFICES ASSUME Drafted(t2) PROVE t2.pos >= DraftLen /\ t2.n < MaxSteps
        OBVIOUS
      <4>1. Drafted(t) /\ t.keep = None
        BY <2>1 DEF Drafted
      <4>2. NewPos(t) = t.pos + DraftLen
        BY <1>9, <4>1 DEF NewPos
      <4>3. NewPos(t) >= DraftLen
        BY <1>2, <4>2, Constants
      <4> QED BY <1>9, <2>1, <4>1, <4>3
    <3> QED BY <1>8, <1>9, <2>1, <3>1 DEF TurnOK
  <2>4. LinkOK(t2, k, w1, srv[x])
    BY <1>6, <2>1 DEF LinkOK
  <2>5. \A i \in Links(c) \ {k} : LinkOK(t2, i, wire[t.link[i]], srv[t.link[i]])
    <3> SUFFICES ASSUME NEW i \in Links(c) \ {k}
                 PROVE  LinkOK(t2, i, wire[t.link[i]], srv[t.link[i]])
      OBVIOUS
    <3>1. i < k
      BY <1>3, <1>9, <1>10, Constants
    <3>2. Quiet(wire[t.link[i]], srv[t.link[i]], t.n, NewPos(t))
      BY <1>1, <3>1, Turned DEF LinkOK
    <3> QED BY <2>1, <3>2 DEF LinkOK
  <2>6. wire' = [wire EXCEPT ![x] = w1]
    BY <1>5, <1>10
  <2> HIDE DEF x, k, v
  <2> QED BY <1>1, <1>3, <1>4, <1>7, <2>1, <2>2, <2>3, <2>4, <2>5, <2>6, TargetsStay, LinkStep
<1>11. CASE /\ k # Len(t.link)
            /\ wire' = Forward(v, t.link[k + 1], Step(t))
            /\ turn' = [turn EXCEPT ![c].hop = @ + 1]
  <2> DEFINE t2 == [t EXCEPT !.hop = @ + 1]
             y == t.link[k + 1]
  <2>0. k + 1 \in Hops /\ k \in Nat /\ k + 1 # k
    <3> DEFINE L == Len(Peer0)
    <3>1. k \in Hops /\ k # L
      BY <1>3, <1>9, <1>11
    <3>2. L \in Nat /\ Hops = 1..L
      BY Constants
    <3> HIDE DEF k, L
    <3> QED BY <3>1, <3>2
  <2>1. /\ turn' = [turn EXCEPT ![c] = t2] /\ t2.pc = "step" /\ t2.hop = k + 1
        /\ t2.link = t.link /\ t2.n = t.n /\ t2.pos = t.pos /\ t2.keep = t.keep
        /\ t2.route = t.route /\ t2.spec = t.spec /\ t2.len = t.len
    BY <1>1, <1>2, <1>11 DEF TurnRec
  <2>2. t2 \in TurnRec
    BY <1>2, <2>0 DEF TurnRec
  <2> HIDE DEF t2
  <2>3. Step(t2) = Step(t) /\ NewPos(t2) = NewPos(t) /\ (Drafted(t2) <=> Drafted(t))
    BY <2>1 DEF Step, NewPos, Drafted
  <2>4. TurnOK(t2)
    BY <1>8, <1>9, <2>0, <2>1, <2>3 DEF TurnOK
  <2>5. y \in Conns /\ Own(c, y) /\ y # x
    BY <1>3, <2>0, Turned
  <2>6. v \in [Conns -> WireRec] /\ v[x] = w1 /\ v[y] = wire[y]
        /\ \A z \in Conns \ {x} : v[z] = wire[z]
    BY <1>2, <1>3, <1>4, <1>5, <2>5
  <2> HIDE DEF v, x, y
  <2>7. PICK w2 \in WireRec, m \in {Step(t2), [t |-> "part"]} :
          /\ wire' = [v EXCEPT ![y] = w2]
          /\ w2.down = v[y].down /\ w2.up \in {v[y].up, Append(v[y].up, m)}
    <3>1. wire' = Forward(v, y, Step(t2))
      BY <1>11, <2>3 DEF y
    <3> QED BY <2>2, <2>5, <2>6, <3>1, ForwardIs
  <2>8. Quiet(wire[y], srv[y], t2.n - 1, t2.pos)
    <3>1. k + 1 > k
      BY <2>0
    <3>2. LinkOK(t, k + 1, wire[y], srv[y])
      BY <1>3, <2>0, Turned DEF y
    <3> QED BY <1>1, <2>1, <3>1, <3>2 DEF LinkOK
  <2>9. Steps(w2, srv[y], t2) /\ ConnOK(w2, srv[y])
    BY <2>1, <2>2, <2>4, <2>6, <2>7, <2>8, SendLink
  <2>10. /\ wire' \in [Conns -> WireRec] /\ wire'[y] = w2 /\ wire'[x] = w1
         /\ \A z \in Conns \ {x, y} : wire'[z] = wire[z]
    BY <1>3, <2>5, <2>6, <2>7
  <2>11. \A z \in Conns : ConnOK(wire'[z], srv[z])
    BY <1>7, <2>9, <2>10, Served
  <2>12. \A z \in Conns : ~Own(c, z) => wire'[z] = wire[z]
    BY <1>3, <2>5, <2>10, Turned
  <2>13. ASSUME NEW i \in Links(c)
         PROVE  LinkOK(t2, i, wire'[t.link[i]], srv[t.link[i]])
    <3>0. i \in Nat
      BY <1>3, Constants
    <3>1. CASE i = k
      <4>1. LinkOK(t2, k, w1, srv[x])
        BY <1>6, <2>0, <2>1, <2>3 DEF LinkOK
      <4> QED BY <1>3, <2>10, <3>1, <4>1
    <3>2. CASE i = k + 1
      <4>1. LinkOK(t2, k + 1, w2, srv[y])
        BY <2>0, <2>1, <2>9 DEF LinkOK
      <4> QED BY <2>10, <3>2, <4>1 DEF y
    <3>3. CASE i # k /\ i # k + 1
      <4>1. t.link[i] \in Conns \ {x, y}
        <5>1. k + 1 \in Links(c) /\ y = t.link[k + 1]
          BY <1>3, <2>0 DEF y
        <5> QED BY <1>3, <3>3, <5>1, Turned
      <4>2. LinkOK(t, i, wire[t.link[i]], srv[t.link[i]])
        BY Turned
      <4>3. i < k \/ i > k + 1
        BY <2>0, <3>0, <3>3
      <4>4. LinkOK(t2, i, wire[t.link[i]], srv[t.link[i]])
        BY <1>1, <2>0, <2>1, <2>3, <3>0, <4>2, <4>3 DEF LinkOK
      <4> QED BY <2>10, <4>1, <4>4
    <3> QED BY <3>1, <3>2, <3>3
  <2>14. turns' \in [Consumers -> 0..MaxTurns]
    BY <1>1, TargetsStay
  <2> HIDE DEF k
  <2> QED BY <1>1, <2>1, <2>2, <2>4, <2>10, <2>11, <2>12, <2>13, <2>14, TargetsStay, ChainStep
<1>12. NewPos(t) = (IF t.keep = None THEN t.pos ELSE t.keep) + t.len
  BY DEF NewPos
<1>13. Step(t) = [t |-> "forward", n |-> t.n, len |-> t.len, keep |-> t.keep]
  BY DEF Step
<1> QED BY <1>1, <1>10, <1>11, <1>12, <1>13 DEF TakeOutput
-----------------------------------------------------------------------------
(* The invariant, and what it says.                                           *)

LEMMA SessionInit ==
  ASSUME Init
  PROVE  SessionInv
<1>1. \A c \in Consumers : turn[c] = NoTurn /\ target[c] = Target0 /\ turns[c] = 0
  BY DEF Init
<1>2. \A x \in Conns : wire[x] = NoWire /\ srv[x] = NoServer
  BY DEF Init
<1>3. NoWire \in WireRec /\ NoWire.up = <<>>
  <2>1. <<>> \in Seq(Requests) /\ <<>> \in Seq(Replies)
    OBVIOUS
  <2> QED BY <2>1 DEF NoWire, WireRec
<1>4. TypeOK
  <2>1. turn \in [Consumers -> TurnRec] /\ target \in [Consumers -> Route]
    BY NoTurnOK DEF Init, RouteOK
  <2>2. turns \in [Consumers -> 0..MaxTurns] /\ faults \in 0..MaxFaults
    BY Constants DEF Init
  <2>3. wire \in [Conns -> WireRec] /\ srv \in [Conns -> ServerRec]
    BY <1>3, NoServerType DEF Init
  <2>4. kv \in [Instances -> Seq(Cell)]
    BY DEF Init
  <2>5. /\ cache \in [Peers -> Instances \cup {None}] /\ touched \in [Instances -> SUBSET Conns]
        /\ hosts \in [Peers -> BOOLEAN] /\ hung \in [Peers -> BOOLEAN]
    BY DEF Init
  <2>6. \A x \in Conns : srv[x].inst # None <=> srv[x].st \in {"reset", "open"}
    BY <1>2, NoServerType
  <2> QED BY <2>1, <2>2, <2>3, <2>4, <2>5, <2>6
          DEF TypeOK, TurnRec, Route, WireRec, ServerRec, Cell
<1>5. AllTurnsOK
  BY <1>1, NoTurnOK DEF AllTurnsOK
<1>6. \A c \in Consumers : Links(c) = {}
  <2>1. \A c \in Consumers : turn[c].link = <<>>
    BY <1>1, NoTurnOK
  <2> QED BY <2>1 DEF Links
<1>7. LinksApart /\ AllLinksOK
  BY <1>6 DEF LinksApart, AllLinksOK
<1>8. AllConnsOK
  <2>1. \A x \in Conns : ConnOK(wire[x], srv[x])
    BY <1>2, <1>3 DEF ConnOK
  <2> QED BY <1>2, <2>1, NoServerType DEF AllConnsOK
<1>9. Used /\ CacheExact
  BY <1>2, NoServerType DEF Used, CacheExact
<1> QED BY <1>4, <1>5, <1>7, <1>8, <1>9 DEF SessionInv

LEMMA SessionNext ==
  ASSUME SessionInv, [Next]_vars
  PROVE  SessionInv'
<1>1. CASE \E c \in Consumers : StartTurn(c) \/ ConsumerStep(c)
  <2>1. PICK c \in Consumers : StartTurn(c) \/ ConsumerStep(c)
    BY <1>1
  <2> QED BY <2>1, StartTurnKeeps, DialKeeps, TakeHelloKeeps, TakeAckKeeps, ConnectFailsKeeps,
             SendsKeep, TakeOutputKeeps, TurnOverKeeps, CloseLinkKeeps DEF ConsumerStep
<1>2. CASE \E x \in Conns : HandlerStep(x) \/ Break(x)
  BY <1>2, HandlerKeeps, BreakKeeps
<1>3. CASE \E p \in Peers : Crash(p) \/ Hang(p) \/ Resume(p) \/ Drain(p)
  BY <1>3, CrashKeeps, HostKeeps
<1>4. CASE UNCHANGED vars
  BY <1>4, StutterKeeps
<1> QED BY <1>1, <1>2, <1>3, <1>4 DEF Next

LEMMA SessionAlways == Spec => []SessionInv
<1>1. Init => SessionInv
  BY SessionInit
<1>2. SessionInv /\ [Next]_vars => SessionInv'
  BY SessionNext
<1> QED BY <1>1, <1>2, PTL DEF Spec

\* A reply that waits for the driver inside a step answers that step, although
\* the driver does not compare the numbers (chain.rs, step_with_truncate).
THEOREM RepliesAreInStep == Spec => []NoStaleReply
<1>1. SessionInv => NoStaleReply
  <2> SUFFICES ASSUME SessionInv, NEW c \in Consumers, turn[c].pc = "step",
                      NEW k \in DOMAIN wire[Cur(c)].down, wire[Cur(c)].down[k].t = "out"
               PROVE  wire[Cur(c)].down[k].n = turn[c].n
    BY DEF NoStaleReply
  <2>1. LinkOK(turn[c], turn[c].hop, wire[Cur(c)], srv[Cur(c)])
    BY CurrentLink
  <2>2. Steps(wire[Cur(c)], srv[Cur(c)], turn[c])
    BY <2>1 DEF LinkOK
  <2>3. wire[Cur(c)].down = <<>> \/ wire[Cur(c)].down = <<[t |-> "out", n |-> turn[c].n]>>
    BY <2>2 DEF Steps
  <2>4. wire[Cur(c)].down = <<[t |-> "out", n |-> turn[c].n]>> /\ k = 1
    BY <2>3
  <2> QED BY <2>4
<1> QED BY <1>1, SessionAlways, PTL

\* Between two steps every peer of the chain stands where the driver does, also
\* after a rollback (forward_server.rs, kv_truncate_to; spec.rs, new_pos).
THEOREM PeersAreInStep == Spec => []InStep
<1>1. SessionInv => InStep
  <2> SUFFICES ASSUME SessionInv, NEW c \in Consumers, turn[c].pc = "ready",
                      NEW i \in DOMAIN turn[c].link, srv[turn[c].link[i]].st = "open"
               PROVE  /\ srv[turn[c].link[i]].pos = turn[c].pos
                      /\ srv[turn[c].link[i]].last = turn[c].n
    BY DEF InStep, SessionInv
  <2>1. LinkOK(turn[c], i, wire[turn[c].link[i]], srv[turn[c].link[i]])
    BY Turned DEF Links
  <2> QED BY <2>1 DEF LinkOK, Quiet, At
<1> QED BY <1>1, SessionAlways, PTL

\* A session whose copy of the slice nobody else used since its reset finds its
\* own tokens in the KV cache, each once and at its position (forward_server.rs,
\* SessionInit and ForwardHidden).
THEOREM OwnCacheExact == Spec => []CacheExact
<1>1. SessionInv => CacheExact
  BY DEF SessionInv
<1> QED BY <1>1, SessionAlways, PTL
=============================================================================
