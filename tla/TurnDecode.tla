----------------------------- MODULE TurnDecode -----------------------------
(***************************************************************************)
(* How the tokens of a turn come about: run_turn (crates/runtime/src/      *)
(* chain.rs), one token per step of the chain, and run_turn_spec (spec.rs),*)
(* where a draft model proposes K tokens a round, the target verifies them *)
(* in one step, and a second step commits the token after the accepted     *)
(* ones while the draft already proposes the next round on another thread. *)
(*                                                                         *)
(* A model's KV cache is the sequence of its cells [pos, tok]. The target  *)
(* predicts its greedy continuation when every slice of it holds exactly   *)
(* the continuation so far, and any token otherwise; the draft may propose *)
(* anything. The chain is up (ChainSession) or fails in the middle.        *)
(***************************************************************************)
EXTENDS KVCache

CONSTANTS Tokens, Eos, Prompt,
          MaxNew,   \* SamplingCfg::max_new_tokens
          K,        \* SpecCfg::k
          NumHops,  \* peers of the chain
          None

Hops == 1..NumHops
\* Predictions reach K + 1 tokens beyond what is committed.
Horizon == MaxNew + K + 1

ASSUME DecodeAssumption ==
    /\ Eos \in Tokens /\ Prompt \in Seq(Tokens) /\ Prompt # <<>>
    /\ MaxNew \in Nat /\ K \in Nat /\ K >= 2 /\ NumHops \in Nat \ {0}
    /\ None \notin Tokens \cup Nat

VARIABLES
    greedy,   \* the target's greedy continuation of the prompt
    spec,     \* a draft model is configured: run_turn_spec
    pc,       \* where the driver's thread is
    hop,      \* the peer its step of the chain is at
    fly,      \* the hidden states on their way: tokens, position, truncation
    out,      \* tokens committed so far
    pending,  \* run_turn: next; run_turn_spec: argmax of target_pending
    preds,    \* argmax of verify_logits at each position
    pos,      \* index_pos, target_pos
    drafts,   \* drafts_for_round
    front,    \* KV cache of the driver's slice of the target
    peer,     \* KV cache and index_pos of each peer's slice
    draft,    \* KV cache of the draft model
    task,     \* the draft's side of a round: its stage, arguments and proposals
    result

targetVars == <<front, peer>>
draftVars == <<draft, task>>
vars == <<greedy, spec, pc, hop, fly, out, pending, preds, pos, drafts, front, peer,
          draft, task, result>>

-----------------------------------------------------------------------------
\* forward_range and forward: the tokens' cells, at position q and on.
Fed(kv, toks, q) == kv \o [i \in 1..Len(toks) |-> [pos |-> q + i - 1, tok |-> toks[i]]]
\* Mutation of Cut: the cell at position keep stays.
CutLate(kv, keep) == CellsBefore(kv, keep + 1)
\* truncate_kv_to
Cut(kv, keep) == CellsBefore(kv, keep)
Cells(toks) == Fed(<<>>, toks, 0)

Context(n) == Prompt \o SubSeq(greedy, 1, n)
\* What the target predicts after n tokens of the continuation.
Sees(kv, n) == Cut(kv, Len(Prompt) + n) = Cells(Context(n))
Predictions(n) ==
    IF Sees(front, n) /\ \A h \in Hops : Sees(peer[h].kv, n)
    THEN {greedy[n + 1]} ELSE Tokens

NoFly == [toks |-> <<>>, keep |-> None]
NoTask == [st |-> "none", j |-> 0, last |-> Eos, old |-> 0, props |-> <<>>]
\* An earlier turn has left its cells in the caches.
Leftover == Cells(<<Eos>>)

\* All that is said after the end of sequence is of no interest.
Continuations ==
    {g \in [1..Horizon -> Tokens] :
        \A i \in 1..(Horizon - 1) : g[i] = Eos => g[i + 1] = Eos}

Init == /\ greedy \in Continuations
        /\ spec \in BOOLEAN
        /\ pc = "start" /\ hop = 0 /\ fly = NoFly
        /\ out = <<>> /\ pending = Eos /\ preds = <<>> /\ pos = 0 /\ drafts = <<>>
        /\ front = Leftover /\ draft = Leftover
        /\ peer = [h \in Hops |-> [kv |-> Leftover, pos |-> 1]]
        /\ task = NoTask
        /\ result = "idle"

-----------------------------------------------------------------------------
(* Steps of the chain.                                                     *)

\* front_forward, and the first hop's request.
Launch(kv, toks, q, keep, next) ==
    /\ front' = Fed(kv, toks, q)
    /\ fly' = [toks |-> toks, keep |-> keep]
    /\ hop' = 1
    /\ pc' = next

\* The caches are emptied, each peer's by the SessionInit of the chain, and the
\* prompt goes through the target.
Start ==
    /\ pc = "start"
    /\ Launch(<<>>, Prompt, 0, None, "prefill")
    /\ peer' = [h \in Hops |-> [kv |-> <<>>, pos |-> 0]]
    /\ draft' = IF spec THEN <<>> ELSE draft
    /\ result' = "running"
    /\ UNCHANGED <<greedy, spec, out, pending, preds, pos, drafts, task>>

InChain == pc \in {"prefill", "step", "verify", "commit"} /\ hop \in Hops

\* A peer truncates, forwards and replies.
PeerBase(p) == IF fly.keep = None THEN p.pos ELSE fly.keep
PeerCut(p) == IF fly.keep = None THEN p.kv ELSE Cut(p.kv, fly.keep)
Hop ==
    /\ InChain
    /\ LET p == peer[hop] IN
       peer' = [peer EXCEPT ![hop] = [kv |-> Fed(PeerCut(p), fly.toks, PeerBase(p)),
                                      pos |-> PeerBase(p) + Len(fly.toks)]]
    /\ hop' = hop + 1
    /\ UNCHANGED <<greedy, spec, pc, fly, out, pending, preds, pos, drafts, front,
                   draftVars, result>>

\* A hop fails: the turn ends with its error. A draft task goes on by itself.
HopFails ==
    /\ InChain
    /\ pc' = "end" /\ result' = "failed"
    /\ UNCHANGED <<greedy, spec, hop, fly, out, pending, preds, pos, drafts,
                   targetVars, draftVars>>

AtHead(p) == pc = p /\ hop = NumHops + 1
Said == Len(out)

\* head_forward after the prefill. The draft reads the prompt and proposes.
HeadPrefill ==
    /\ AtHead("prefill")
    /\ pending' \in Predictions(0)
    /\ pos' = Len(Prompt)
    /\ IF spec THEN /\ draft' = Fed(draft, Prompt, 0)
                    /\ task' = [NoTask EXCEPT !.st = "propose", !.old = Len(Prompt)]
                    /\ pc' = "join"
               ELSE UNCHANGED draftVars /\ pc' = "next"
    /\ UNCHANGED <<greedy, spec, hop, fly, out, preds, drafts, targetVars, result>>

-----------------------------------------------------------------------------
(* run_turn                                                                *)

\* The token is said and fed to the chain, unless it ends the turn.
PlainNext ==
    /\ pc = "next"
    /\ IF pending = Eos \/ Said >= MaxNew
       THEN /\ pc' = "end" /\ result' = "ok"
            /\ UNCHANGED <<hop, fly, out, front>>
       ELSE /\ out' = Append(out, pending)
            /\ Launch(front, <<pending>>, pos, None, "step")
            /\ UNCHANGED result
    /\ UNCHANGED <<greedy, spec, pending, preds, pos, drafts, peer, draftVars>>

HeadStep ==
    /\ AtHead("step")
    /\ pending' \in Predictions(Said)
    /\ pos' = pos + 1
    /\ pc' = "next"
    /\ UNCHANGED <<greedy, spec, hop, fly, out, preds, drafts, targetVars, draftVars, result>>

-----------------------------------------------------------------------------
(* run_turn_spec                                                           *)

\* A round begins: the target is to verify the drafts in one step.
Round ==
    /\ pc = "round"
    /\ IF Said >= MaxNew
       THEN /\ pc' = "end" /\ result' = "ok"
            /\ UNCHANGED <<hop, fly, front>>
       ELSE /\ Launch(front, drafts, pos, None, "verify")
            /\ UNCHANGED result
    /\ UNCHANGED <<greedy, spec, out, pending, preds, pos, drafts, peer, draftVars>>

\* head_all_forward: the prediction after each draft.
HeadVerify ==
    /\ AtHead("verify")
    /\ preds' \in {f \in [1..K -> Tokens] :
                     \A i \in 1..K : f[i] \in Predictions(Said + i)}
    /\ pc' = "match"
    /\ UNCHANGED <<greedy, spec, hop, fly, out, pending, pos, drafts, targetVars, draftVars,
                   result>>

\* Mutation of Target: the predictions are not shifted against the drafts.
TargetUnshifted(i) == preds[IF i <= K THEN i ELSE K]
\* What the target says in the place of draft i.
Target(i) == IF i = 1 THEN pending ELSE preds[i - 1]

\* The accepted prefix.
Accepted == CHOOSE n \in 0..K : /\ \A i \in 1..n : Target(i) = drafts[i]
                                /\ n = K \/ Target(n + 1) # drafts[n + 1]
\* The drafts accepted and the target's own token after them: a bonus when all
\* were accepted, a correction otherwise.
Emitted(j) == SubSeq(drafts, 1, j) \o <<Target(j + 1)>>

\* The part of it that is said, up to max_new_tokens and the end of sequence.
EosIn(toks) == \E i \in 1..Len(toks) : toks[i] = Eos
SaidOf(toks) ==
    SubSeq(toks, 1, CHOOSE n \in 0..Len(toks) :
                       /\ Said + n <= MaxNew
                       /\ \A i \in 1..(n - 1) : toks[i] # Eos
                       /\ \/ n = Len(toks) \/ Said + n = MaxNew
                          \/ n > 0 /\ toks[n] = Eos)

\* The tokens are matched and said. Unless that ends the turn, the front slice
\* is rolled back and fed the last one, and the draft is sent to its own thread.
Match ==
    /\ pc = "match"
    /\ LET j == Accepted
           toks == Emitted(j)
           taken == SaidOf(toks)
           last == toks[Len(toks)]
           new == pos + j
       IN /\ out' = out \o taken
          /\ IF Len(taken) < Len(toks) \/ EosIn(taken)
             THEN /\ pc' = "end" /\ result' = "ok"
                  /\ UNCHANGED <<hop, fly, front, task>>
             ELSE /\ Launch(Cut(front, new), <<last>>, new, new, "commit")
                  /\ task' = [st |-> "advance", j |-> j, last |-> last, old |-> pos,
                              props |-> <<>>]
                  /\ UNCHANGED result
    /\ preds' = <<>>
    /\ UNCHANGED <<greedy, spec, pending, pos, drafts, peer, draft>>

\* head_forward after the commit.
HeadCommit ==
    /\ AtHead("commit")
    /\ pending' \in Predictions(Said)
    /\ pos' = fly.keep + 1
    /\ pc' = "join"
    /\ UNCHANGED <<greedy, spec, hop, fly, out, preds, drafts, targetVars, draftVars, result>>

\* The draft's proposals are joined.
Join ==
    /\ pc = "join" /\ task.st = "ready"
    /\ drafts' = task.props
    /\ task' = NoTask
    /\ pc' = "round"
    /\ UNCHANGED <<greedy, spec, hop, fly, out, pending, preds, pos, targetVars, draft, result>>

\* Mutation of DraftFails: only the proposals of the draft task are waited for.
DraftFailsUnseen == UNCHANGED vars

\* The draft task returned an error or panicked: the turn ends with it.
DraftFails ==
    /\ pc = "join" /\ task.st = "failed"
    /\ pc' = "end" /\ result' = "failed" /\ task' = NoTask
    /\ UNCHANGED <<greedy, spec, hop, fly, out, pending, preds, pos, drafts, targetVars, draft>>

\* on_token fails once the reader of the reply is gone: of the tokens to be said
\* next, some are, and the turn ends with the error.
Cancelled ==
    /\ \/ pc = "next" /\ pending # Eos /\ Said < MaxNew /\ UNCHANGED out
       \/ pc = "match" /\ LET taken == SaidOf(Emitted(Accepted))
                          IN \E n \in 0..(Len(taken) - 1) : out' = out \o SubSeq(taken, 1, n)
    /\ pc' = "end" /\ result' = "failed"
    /\ UNCHANGED <<greedy, spec, hop, fly, pending, preds, pos, drafts, targetVars,
                   draftVars>>

-----------------------------------------------------------------------------
(* The draft's thread.                                                     *)

\* Mutation of Caught: after a full acceptance the last draft is taken for read.
CaughtShort(kv, t) ==
    IF t.j = K THEN Fed(kv, <<t.last>>, t.old + K)
               ELSE Fed(Cut(kv, t.old + t.j), <<t.last>>, t.old + t.j)

\* advance_and_propose: the draft catches up with what was committed.
Caught(kv, t) ==
    IF t.j = K THEN Fed(kv, <<drafts[K], t.last>>, t.old + K - 1)
               ELSE Fed(Cut(kv, t.old + t.j), <<t.last>>, t.old + t.j)
DraftAdvance ==
    /\ task.st = "advance"
    /\ draft' = Caught(draft, task)
    /\ task' = [task EXCEPT !.st = "propose", !.old = @ + task.j + 1]
    /\ UNCHANGED <<greedy, spec, pc, hop, fly, out, pending, preds, pos, drafts, targetVars,
                   result>>

\* propose_k_drafts: the last proposal is not fed back.
DraftPropose ==
    /\ task.st = "propose"
    /\ \E d \in Tokens :
          /\ task' = [task EXCEPT !.props = Append(@, d),
                                  !.st = IF Len(task.props) + 1 = K THEN "ready" ELSE @]
          /\ draft' = IF Len(task.props) + 1 < K
                      THEN Fed(draft, <<d>>, task.old + Len(task.props)) ELSE draft
    /\ UNCHANGED <<greedy, spec, pc, hop, fly, out, pending, preds, pos, drafts, targetVars,
                   result>>

DraftTaskFails ==
    /\ task.st \in {"advance", "propose"}
    /\ task' = [task EXCEPT !.st = "failed"]
    /\ UNCHANGED <<greedy, spec, pc, hop, fly, out, pending, preds, pos, drafts, targetVars,
                   draft, result>>

-----------------------------------------------------------------------------
Driver ==
    \/ Start \/ Hop \/ HopFails \/ HeadPrefill \/ PlainNext \/ HeadStep
    \/ Round \/ HeadVerify \/ Match \/ HeadCommit \/ Join \/ DraftFails \/ Cancelled
Drafting == DraftAdvance \/ DraftPropose

Next == Driver \/ Drafting \/ DraftTaskFails
Spec == Init /\ [][Next]_vars
\* Both threads run; a hop that does not answer fails by its timeout.
FairSpec == Spec /\ WF_vars(Driver) /\ WF_vars(Drafting)

-----------------------------------------------------------------------------
Stages == {"start", "prefill", "next", "step", "round", "verify", "match", "commit",
           "join", "end"}
KV == Seq([pos: Nat, tok: Tokens])

\* Every variable has its type, and the tokens committed never exceed
\* max_new_tokens.
TypeOK ==
    /\ greedy \in [1..Horizon -> Tokens] /\ spec \in BOOLEAN
    /\ pc \in Stages /\ hop \in 0..(NumHops + 1)
    /\ fly \in [toks: Seq(Tokens), keep: Nat \cup {None}]
    /\ out \in Seq(Tokens) /\ Len(out) <= MaxNew
    /\ pending \in Tokens /\ preds \in Seq(Tokens) /\ drafts \in Seq(Tokens)
    /\ pos \in Nat
    /\ front \in KV /\ draft \in KV /\ peer \in [Hops -> [kv: KV, pos: Nat]]
    /\ task \in [st: {"none", "advance", "propose", "ready", "failed"}, j: 0..K, last: Tokens,
                 old: Nat, props: Seq(Tokens)]
    /\ result \in {"idle", "running", "ok", "failed"}

\* What is said of a sequence of tokens that may end with the end of sequence.
UpToEos(toks) ==
    SubSeq(toks, 1, CHOOSE n \in 0..Len(toks) :
                       /\ \A i \in 1..n : toks[i] # Eos
                       /\ n = Len(toks) \/ toks[n + 1] = Eos)

GD == INSTANCE GreedyDecode WITH said <- UpToEos(out)

\* With and without a draft model, whatever the draft proposes, a turn says the
\* target's greedy continuation and nothing else, but for the end-of-sequence
\* token (spec.rs, the contract in the module's comment; chain.rs, run_turn).
ImplementsGreedy == GD!GreedySpec

\* Between two rounds every slice of the target, on the driver and on each peer,
\* holds the prompt and the committed tokens and no rejected draft, and all
\* agree on the position (spec.rs, target_pos; forward_server.rs, index_pos).
CachesAgree ==
    /\ TypeOK
    /\ pc \in {"next", "round"} =>
        /\ pos = Len(Prompt) + Len(out)
        /\ front = Cells(Prompt \o out)
        /\ \A h \in Hops : peer[h] = [kv |-> Cells(Prompt \o out), pos |-> pos]

\* Whenever the draft proposes, it has read exactly the committed tokens and its
\* own proposals: a slip here costs only accepted drafts, which no comparison of
\* outputs shows (spec.rs, advance_and_propose).
DraftAgrees ==
    task.st = "propose" => draft = Cells(Prompt \o out \o task.props)

\* A turn that was begun ends: every round commits a token, and a draft task
\* that died is noticed (spec.rs, 'outer and the join of draft_task).
TurnEnds == result = "running" ~> result \in {"ok", "failed"}
=============================================================================
