----------------------------- MODULE ChainDriver -----------------------------
(* The two drivers that run a turn of the chat for the terminal interface:    *)
(* LocalDriver (app/src/local.rs), which runs the whole model here, and       *)
(* ChainDriver (app/src/chain_driver.rs), which runs the front slice and the  *)
(* head here and the rest over a chain of peers.  Every turn has a thread of  *)
(* its own; turns share the loaded model under its mutex and, in ChainDriver, *)
(* the target, the draft and the slot of the loaded draft, each under a lock  *)
(* of its own.  What a turn says to a chain is ChainSession's subject and how *)
(* it decodes TurnDecode's; here a turn sends tokens and ends.                *)
EXTENDS Naturals, Sequences

CONSTANTS Models,      \* GGUF files
          Drafts,      \* draft models (/draft)
          Peers,       \* addresses of hosts
          Targets,     \* chains the user can set: peers in order of preference
          Target0,     \* the chain of the configuration
          Draft0,      \* the draft of the configuration
          Turns,       \* turns ever submitted: 1..n
          MaxTokens,   \* tokens of a reply
          None         \* no model, no draft

ASSUME DriverAssumption ==
  /\ Targets \subseteq Seq(Peers) \ {<<>>}
  /\ Target0 \in Targets \cup {<<>>}
  /\ Draft0 \in Drafts \cup {None}
  /\ Turns \subseteq Nat \ {0}
  /\ MaxTokens \in Nat \ {0}
  /\ \A r \in Targets : Len(r) <= MaxTokens + 1
  /\ None \notin Models \cup Drafts

VARIABLES inner,      \* the loaded model of each driver
          holder,     \* the turn that holds the mutex of inner, 0 for none
          target,     \* the chain to use next, <<>> for none
          draft,      \* the configured draft
          draft_slot, \* the loaded draft, while no turn has lifted it out
          turn,       \* the turns' threads
          streaming   \* the turn whose deltas the interface receives, or 0

driverVars == <<inner, holder, target, draft, draft_slot, turn, streaming>>

Kinds == {"local", "chain"}

Steps == {"off", "start", "targeted", "ensured", "ready", "locked", "connected", "running",
          "over"}

Turn == [pc: Steps, kind: Kinds, model: Models \cup {None},
         uses: Models \cup {None}, route: Seq(Peers),
         draft: Drafts \cup {None}, lifted: Drafts \cup {None},
         sent: 0 .. MaxTokens, end: {"none", "done", "error"}]

Idle == [pc |-> "off", kind |-> "local", model |-> None, uses |-> None,
         route |-> <<>>, draft |-> None, lifted |-> None,
         sent |-> 0, end |-> "none"]

DriverTypeOK ==
  /\ inner \in [Kinds -> Models \cup {None}]
  /\ holder \in [Kinds -> Turns \cup {0}]
  /\ target \in Seq(Peers)
  /\ draft \in Drafts \cup {None}
  /\ draft_slot \in Drafts \cup {None}
  /\ turn \in [Turns -> Turn]
  /\ streaming \in Turns \cup {0}

DriverInit ==
  /\ inner = [k \in Kinds |-> None]
  /\ holder = [k \in Kinds |-> 0]
  /\ target = Target0
  /\ draft = Draft0
  /\ draft_slot = None
  /\ turn = [t \in Turns |-> Idle]
  /\ streaming = 0

-----------------------------------------------------------------------------
(* The user's settings: each a short critical section of its own lock.       *)

SetTarget(r) ==
  /\ target' = r
  /\ UNCHANGED <<inner, holder, draft, draft_slot, turn>>

\* set_draft evicts the loaded draft, whatever the new one is, and then, under
\* another lock, sets the new one: a turn may come in between.
EvictDraft ==
  /\ draft_slot' = None
  /\ UNCHANGED <<inner, holder, target, draft, turn>>

SetDraft(d) ==
  /\ draft' = d
  /\ UNCHANGED <<inner, holder, target, draft_slot, turn>>

-----------------------------------------------------------------------------
(* The turn of thread t.  A failure on the way ends it with Delta::Error.    *)

Over(t, end) == [Idle EXCEPT !.pc = "over", !.sent = turn[t].sent, !.end = end]

Fails(t) == Over(t, "error")

Free(t) == holder[turn[t].kind] = 0

\* Mutation of Release: the model is not given back.
ReleaseForgotten(t) == turn[t].pc \in Steps /\ UNCHANGED holder

Release(t) == holder' = [holder EXCEPT ![turn[t].kind] = 0]

\* stream: the thread starts with what is configured now.
Start(t, kind, model) ==
  /\ turn[t].pc = "off"
  /\ turn' = [turn EXCEPT ![t] = [Idle EXCEPT !.pc = "start", !.kind = kind,
                                              !.model = model]]
  /\ UNCHANGED <<inner, holder, target, draft, draft_slot>>

\* run clones the target ...
ReadTarget(t) ==
  /\ turn[t].pc = "start" /\ turn[t].kind = "chain" /\ turn[t].route = <<>>
  /\ turn' = [turn EXCEPT ![t] = IF target = <<>> THEN Fails(t)
                                 ELSE [@ EXCEPT !.pc = "targeted", !.route = target]]
  /\ UNCHANGED <<inner, holder, target, draft, draft_slot, streaming>>

\* ... and the draft ...
ReadDraft(t) ==
  /\ turn[t].pc = "targeted"
  /\ turn' = [turn EXCEPT ![t].pc = "start", ![t].draft = draft]
  /\ UNCHANGED <<inner, holder, target, draft, draft_slot, streaming>>

\* Mutation of Ensure: the old model goes before the new one is there.
EnsureEvictsFirst(t) ==
  /\ turn[t].pc = "start" /\ Free(t)
  /\ turn[t].kind = "chain" => turn[t].route # <<>>
  /\ \/ /\ turn' = [turn EXCEPT ![t].pc = "ensured"]
        /\ inner' = [inner EXCEPT ![turn[t].kind] = turn[t].model]
     \/ /\ inner[turn[t].kind] # turn[t].model
        /\ turn' = [turn EXCEPT ![t] = Fails(t)]
        /\ inner' = [inner EXCEPT ![turn[t].kind] = None]
  /\ UNCHANGED <<holder, target, draft, draft_slot, streaming>>

\* ... ensure loads the model unless it is the loaded one, and lets go of the
\* mutex again; loading may fail.
Ensure(t) ==
  /\ turn[t].pc = "start" /\ Free(t)
  /\ turn[t].kind = "chain" => turn[t].route # <<>>
  /\ \/ /\ turn' = [turn EXCEPT ![t].pc = "ensured"]
        /\ inner' = [inner EXCEPT ![turn[t].kind] = turn[t].model]
     \/ /\ inner[turn[t].kind] # turn[t].model
        /\ turn' = [turn EXCEPT ![t] = Fails(t)]
        /\ UNCHANGED inner
  /\ UNCHANGED <<holder, target, draft, draft_slot, streaming>>

EnsureDraft(t) ==
  /\ turn[t].pc = "ensured"
  /\ \/ /\ turn' = [turn EXCEPT ![t].pc = "ready"]
        /\ draft_slot' = IF turn[t].draft = None THEN draft_slot ELSE turn[t].draft
     \/ /\ turn[t].draft \notin {None, draft_slot}
        /\ turn' = [turn EXCEPT ![t] = Fails(t)]
        /\ UNCHANGED draft_slot
  /\ UNCHANGED <<inner, holder, target, draft, streaming>>

\* The mutex of the model is held from here to the end of the turn.
LockModel(t) ==
  /\ turn[t].pc = "ready" /\ Free(t)
  /\ holder' = [holder EXCEPT ![turn[t].kind] = t]
  /\ turn' = [turn EXCEPT ![t].pc = IF turn[t].kind = "local" THEN "running"
                                    ELSE "locked",
                          ![t].uses = inner[turn[t].kind]]
  /\ UNCHANGED <<inner, target, draft, draft_slot, streaming>>

\* connect_with_failover: the working route is written back.
Connect(t) ==
  /\ turn[t].pc = "locked"
  /\ target' = turn[t].route
  /\ turn' = [turn EXCEPT ![t].pc = "connected"]
  /\ UNCHANGED <<inner, holder, draft, draft_slot, streaming>>

\* A peer is unreachable: the next one takes its place, announced by a token
\* nobody checks for a receiver; without one the turn fails.
ConnectFails(t) ==
  /\ turn[t].pc = "locked"
  /\ IF Len(turn[t].route) > 1
     THEN /\ turn' = [turn EXCEPT ![t].route = Tail(@), ![t].sent = @ + 1]
          /\ UNCHANGED holder
     ELSE turn' = [turn EXCEPT ![t] = Fails(t)] /\ Release(t)
  /\ UNCHANGED <<inner, target, draft, draft_slot, streaming>>

\* The turn lifts the loaded draft out of its slot, if somebody has not
\* emptied it since ensure_draft: then it fails, and the chain is dropped.
LiftDraft(t) ==
  /\ turn[t].pc = "connected"
  /\ IF turn[t].draft # None /\ draft_slot = None
     THEN turn' = [turn EXCEPT ![t] = Fails(t)] /\ Release(t) /\ UNCHANGED draft_slot
     ELSE /\ turn' = [turn EXCEPT ![t].pc = "running",
                        ![t].lifted = IF turn[t].draft = None THEN None ELSE draft_slot]
          /\ draft_slot' = IF turn[t].draft = None THEN draft_slot ELSE None
          /\ UNCHANGED holder
  /\ UNCHANGED <<inner, target, draft, streaming>>

\* A token for the interface.  A turn over a chain stops at the first one
\* nobody receives; LocalDriver does not look and generates on.
SendToken(t) ==
  /\ turn[t].pc = "running" /\ turn[t].sent < MaxTokens
  /\ IF turn[t].kind = "chain" /\ streaming # t
     THEN turn' = [turn EXCEPT ![t] = Fails(t)] /\ Release(t)
     ELSE turn' = [turn EXCEPT ![t].sent = @ + 1] /\ UNCHANGED holder
  /\ UNCHANGED <<inner, target, draft, draft_slot, streaming>>

\* The reply is complete: the draft goes back to its slot, then Delta::Done.
Finish(t) ==
  /\ turn[t].pc = "running"
  /\ draft_slot' = IF turn[t].lifted = None THEN draft_slot ELSE turn[t].lifted
  /\ turn' = [turn EXCEPT ![t] = Over(t, "done")]
  /\ Release(t)
  /\ UNCHANGED <<inner, target, draft, streaming>>

\* Generation fails: the draft was consumed, its slot stays empty.
RunFails(t) ==
  /\ turn[t].pc = "running"
  /\ turn' = [turn EXCEPT ![t] = Fails(t)]
  /\ Release(t)
  /\ UNCHANGED <<inner, target, draft, draft_slot, streaming>>

Advance(t) ==
  \/ ReadTarget(t) \/ ReadDraft(t) \/ Ensure(t) \/ EnsureDraft(t) \/ LockModel(t)
  \/ Connect(t) \/ LiftDraft(t) \/ SendToken(t) \/ Finish(t)

DriverStep(t) == Advance(t) \/ ConnectFails(t) \/ RunFails(t)
=============================================================================
