-------------------------- MODULE InterfaceProofs ---------------------------
(* Proofs about the terminal interface: the turns of the chat (what stands in *)
(* a reply, and who holds the model and the draft, whatever the user presses  *)
(* meanwhile), the model picker (what it shows and what may be chosen), and   *)
(* the prompt editor (where the caret may be, the rows that are drawn, and    *)
(* what of a text the transcript shows).                                      *)
EXTENDS ChatTurns, ModelPicker, PromptEditor, RecursionProofs, FiniteSetTheorems

-----------------------------------------------------------------------------
(* The inductive invariant of the chat.                                       *)

Holding == {"locked", "connected", "running"}

\* A turn's thread: before it holds the model, a model is loaded that no other
\* turn unloads, and its route is short enough for the notices of failover.
ThreadOK(t) ==
  /\ turn[t].pc = "off" => turn[t] = Idle
  /\ turn[t].pc \in {"start", "targeted"} => turn[t].model # None /\ turn[t].sent = 0
  /\ turn[t].pc \in {"start", "targeted", "ensured", "ready", "locked"} =>
       turn[t].sent + Len(turn[t].route) <= MaxTokens + 1
  /\ turn[t].pc \in {"ensured", "ready"} => inner[turn[t].kind] # None
  /\ turn[t].pc \in {"locked", "connected"} => turn[t].kind = "chain"
  /\ turn[t].pc \in Holding => holder[turn[t].kind] = t /\ turn[t].uses # None
  /\ \A k \in Kinds : holder[k] = t => turn[t].pc \in Holding /\ turn[t].kind = k
  /\ turn[t].lifted # None => turn[t].pc = "running" /\ turn[t].kind = "chain"

\* The last reply is as long as what was taken of its turn, and open as long as
\* the interface listens to that turn.
LastOK ==
  history # <<>> /\ Last(history).role = "assistant" =>
    /\ Last(history).of \in Turns
    /\ turn[Last(history).of].pc # "off"
    /\ Len(Last(history).text) = taken[Last(history).of]
    /\ Last(history).open <=> Last(history).of = streaming

TakenOK ==
  /\ \A t \in Turns : taken[t] <= turn[t].sent
  /\ streaming # 0 => turn[streaming].pc # "off"

ChatInv ==
  /\ TypeOK /\ Len(target) <= MaxTokens + 1
  /\ \A t \in Turns : ThreadOK(t)
  /\ OwnPrefix /\ LastOK /\ TakenOK

-----------------------------------------------------------------------------
(* The threads of the turns.                                                  *)

\* What a step of t's thread may do to the rest of the driver.
StepOf(t) ==
  /\ turn'[t] \in Turn /\ turn' = [turn EXCEPT ![t] = turn'[t]]
  /\ turn[t].pc # "off" /\ turn'[t].pc # "off"
  /\ turn[t].sent <= turn'[t].sent
  /\ inner' \in [Kinds -> Models \cup {None}]
  /\ \A k \in Kinds : inner[k] # None => inner'[k] # None
  /\ holder' \in [Kinds -> Turns \cup {0}]
  /\ \A k \in Kinds, u \in Turns \ {t} : holder'[k] = u <=> holder[k] = u
  /\ target' \in Seq(Peers) /\ Len(target') <= MaxTokens + 1
  /\ draft_slot' \in Drafts \cup {None} /\ draft' = draft
  /\ streaming' = streaming
  /\ ThreadOK(t)'

LEMMA OverIs ==
  ASSUME ChatInv, NEW t \in Turns, NEW end \in {"done", "error"}
  PROVE /\ Over(t, end) \in Turn /\ Over(t, end).pc = "over"
        /\ Over(t, end).sent = turn[t].sent /\ Over(t, end).lifted = None
        /\ Over(t, end).end = end
<1>1. turn[t] \in Turn /\ MaxTokens \in Nat
  BY DriverAssumption DEF ChatInv, TypeOK, DriverTypeOK
<1>2. Idle \in Turn /\ Idle.lifted = None
  <2>1. <<>> \in Seq(Peers)
    OBVIOUS
  <2> QED BY <1>1, <2>1 DEF Idle, Turn, Kinds, Steps
<1>3. turn[t].sent \in 0 .. MaxTokens
  BY <1>1 DEF Turn
<1> HIDE DEF Idle
<1> QED BY <1>2, <1>3 DEF Over, Turn, Steps

\* A turn that ends gives back the model if it holds it.
LEMMA EndsOK ==
  ASSUME ChatInv, NEW t \in Turns, NEW end \in {"done", "error"},
         turn[t].pc # "off",
         turn' = [turn EXCEPT ![t] = Over(t, end)],
         IF turn[t].pc \in Holding THEN holder' = [holder EXCEPT ![turn[t].kind] = 0]
                                   ELSE UNCHANGED holder,
         draft_slot' \in Drafts \cup {None},
         UNCHANGED <<inner, target, draft, streaming>>
  PROVE StepOf(t)
<1>0. /\ turn \in [Turns -> Turn] /\ turn[t] \in Turn /\ 0 \notin Turns
      /\ holder \in [Kinds -> Turns \cup {0}] /\ turn[t].kind \in Kinds
      /\ inner \in [Kinds -> Models \cup {None}]
      /\ target \in Seq(Peers) /\ Len(target) <= MaxTokens + 1
  BY DriverAssumption DEF ChatInv, TypeOK, DriverTypeOK, Turn
<1>1. turn'[t] = Over(t, end)
  BY <1>0
<1>2. turn'[t] \in Turn /\ turn' = [turn EXCEPT ![t] = turn'[t]]
  BY <1>0, <1>1, OverIs
<1>3. turn'[t].pc = "over" /\ turn[t].sent <= turn'[t].sent
  <2>1. turn[t].sent \in Nat
    BY <1>0, DriverAssumption DEF Turn
  <2> QED BY <1>1, <2>1, OverIs
<1>4. /\ holder' \in [Kinds -> Turns \cup {0}]
      /\ \A k \in Kinds : holder'[k] # t
      /\ \A k \in Kinds, u \in Turns \ {t} : holder'[k] = u <=> holder[k] = u
  <2>1. ThreadOK(t)
    BY DEF ChatInv
  <2>2. CASE turn[t].pc \in Holding
    <3>1. holder[turn[t].kind] = t /\ \A k \in Kinds : holder[k] = t => turn[t].kind = k
      BY <2>1, <2>2 DEF ThreadOK
    <3>2. \A k \in Kinds : holder'[k] = IF k = turn[t].kind THEN 0 ELSE holder[k]
      BY <1>0, <2>2
    <3>3. holder' \in [Kinds -> Turns \cup {0}]
      BY <1>0, <2>2
    <3> QED BY <1>0, <3>1, <3>2, <3>3
  <2>3. CASE turn[t].pc \notin Holding
    BY <1>0, <2>1, <2>3 DEF ThreadOK
  <2> QED BY <2>2, <2>3
<1>5. ThreadOK(t)'
  <2>1. turn'[t].lifted = None
    BY <1>1, OverIs
  <2> QED BY <1>3, <1>4, <2>1 DEF ThreadOK, Holding
<1> QED BY <1>0, <1>2, <1>3, <1>4, <1>5 DEF StepOf

\* The driver's state, typed.
LEMMA DriverTypes ==
  ASSUME ChatInv, NEW t \in Turns
  PROVE /\ turn \in [Turns -> Turn] /\ turn[t] \in Turn /\ ThreadOK(t) /\ 0 \notin Turns
        /\ holder \in [Kinds -> Turns \cup {0}] /\ inner \in [Kinds -> Models \cup {None}]
        /\ target \in Seq(Peers) /\ Len(target) <= MaxTokens + 1 /\ draft \in Drafts \cup {None}
        /\ draft_slot \in Drafts \cup {None} /\ None \notin Models \cup Drafts
        /\ MaxTokens \in Nat \ {0} /\ turn[t].kind \in Kinds /\ turn[t].sent \in 0 .. MaxTokens
BY DriverAssumption DEF ChatInv, TypeOK, DriverTypeOK, Turn

LEMMA ReadTargetSteps ==
  ASSUME ChatInv, NEW t \in Turns, ReadTarget(t)
  PROVE StepOf(t)
<1>0. turn[t].pc = "start" /\ ThreadOK(t)
  BY DriverTypes DEF ReadTarget
<1>1. CASE target = <<>>
  BY <1>0, <1>1, DriverTypes, EndsOK DEF ReadTarget, Fails, Holding
<1>2. CASE target # <<>>
  <2>1. turn' = [turn EXCEPT ![t] = [turn[t] EXCEPT !.pc = "targeted", !.route = target]]
    BY <1>2 DEF ReadTarget
  <2>2. /\ turn'[t] = [turn[t] EXCEPT !.pc = "targeted", !.route = target]
        /\ turn'[t] \in Turn /\ turn' = [turn EXCEPT ![t] = turn'[t]]
    <3> DEFINE x == [turn[t] EXCEPT !.pc = "targeted", !.route = target]
    <3>1. turn' = [turn EXCEPT ![t] = x]
      BY <2>1
    <3>2. x \in Turn
      <4>1. turn[t] \in Turn /\ target \in Seq(Peers) /\ "targeted" \in Steps
        BY DriverTypes DEF Steps
      <4> QED BY <4>1 DEF Turn
    <3> HIDE DEF x
    <3>3. turn'[t] = x /\ turn' = [turn EXCEPT ![t] = turn'[t]]
      BY <3>1, DriverTypes
    <3> QED BY <3>2, <3>3 DEF x
  <2>3. /\ turn'[t].pc = "targeted" /\ turn'[t].sent = turn[t].sent
        /\ turn'[t].kind = turn[t].kind /\ turn'[t].model = turn[t].model
        /\ turn'[t].lifted = turn[t].lifted /\ turn'[t].route = target
    BY <1>0, <2>2, DriverTypes DEF Turn
  <2>4. UNCHANGED <<inner, holder, target, draft, draft_slot, streaming>>
    BY DEF ReadTarget
  <2>5. ThreadOK(t)'
    BY <1>0, <2>3, <2>4, DriverTypes DEF ThreadOK, Holding
  <2> QED BY <1>0, <2>2, <2>3, <2>4, <2>5, DriverTypes DEF StepOf
<1> QED BY <1>1, <1>2

LEMMA ReadDraftSteps ==
  ASSUME ChatInv, NEW t \in Turns, ReadDraft(t)
  PROVE StepOf(t)
<1>0. turn[t].pc = "targeted" /\ ThreadOK(t)
  BY DriverTypes DEF ReadDraft
<1> DEFINE x == [turn[t] EXCEPT !.pc = "start", !.draft = draft]
<1>1. turn' = [turn EXCEPT ![t] = x]
  BY DEF ReadDraft
<1>2. x \in Turn
  <2>1. turn[t] \in Turn /\ draft \in Drafts \cup {None} /\ "start" \in Steps
    BY DriverTypes DEF Steps
  <2> QED BY <2>1 DEF Turn
<1>3. /\ x.pc = "start" /\ x.sent = turn[t].sent /\ x.kind = turn[t].kind
      /\ x.model = turn[t].model /\ x.lifted = turn[t].lifted /\ x.route = turn[t].route
  BY DriverTypes DEF Turn
<1> HIDE DEF x
<1>4. turn'[t] = x /\ turn' = [turn EXCEPT ![t] = turn'[t]]
  BY <1>1, DriverTypes
<1>5. UNCHANGED <<inner, holder, target, draft, draft_slot, streaming>>
  BY DEF ReadDraft
<1>6. ThreadOK(t)'
  BY <1>0, <1>3, <1>4, <1>5, DriverTypes DEF ThreadOK, Holding
<1> QED BY <1>0, <1>2, <1>3, <1>4, <1>5, <1>6, DriverTypes DEF StepOf

LEMMA EnsureSteps ==
  ASSUME ChatInv, NEW t \in Turns, Ensure(t)
  PROVE StepOf(t)
<1>0. turn[t].pc = "start" /\ ThreadOK(t) /\ turn[t].model \in Models
  BY DriverTypes DEF Ensure, ThreadOK, Turn
<1>1. CASE turn' = [turn EXCEPT ![t] = Fails(t)] /\ UNCHANGED inner
  BY <1>0, <1>1, DriverTypes, EndsOK DEF Ensure, Fails, Holding
<1>2. CASE /\ turn' = [turn EXCEPT ![t].pc = "ensured"]
           /\ inner' = [inner EXCEPT ![turn[t].kind] = turn[t].model]
  <2>1. /\ turn'[t] = [turn[t] EXCEPT !.pc = "ensured"]
        /\ turn'[t] \in Turn /\ turn' = [turn EXCEPT ![t] = turn'[t]]
    <3> DEFINE x == [turn[t] EXCEPT !.pc = "ensured"]
    <3>1. turn' = [turn EXCEPT ![t] = x]
      BY <1>2
    <3>2. x \in Turn
      <4>1. turn[t] \in Turn /\ "ensured" \in Steps
        BY DriverTypes DEF Steps
      <4> QED BY <4>1 DEF Turn
    <3> HIDE DEF x
    <3>3. turn'[t] = x /\ turn' = [turn EXCEPT ![t] = turn'[t]]
      BY <3>1, DriverTypes
    <3> QED BY <3>2, <3>3 DEF x
  <2>2. /\ turn'[t].pc = "ensured" /\ turn'[t].sent = turn[t].sent /\ turn'[t].kind = turn[t].kind
        /\ turn'[t].route = turn[t].route /\ turn'[t].lifted = turn[t].lifted
    BY <2>1, DriverTypes DEF Turn
  <2>3. UNCHANGED <<holder, target, draft, draft_slot, streaming>>
    BY DEF Ensure
  <2>4. /\ inner' \in [Kinds -> Models \cup {None}] /\ inner'[turn[t].kind] # None
        /\ \A k \in Kinds : inner[k] # None => inner'[k] # None
    BY <1>0, <1>2, DriverTypes
  <2>5. ThreadOK(t)'
    BY <1>0, <2>2, <2>3, <2>4, DriverTypes DEF ThreadOK, Holding
  <2> QED BY <1>0, <2>1, <2>2, <2>3, <2>4, <2>5, DriverTypes DEF StepOf
<1> QED BY <1>1, <1>2 DEF Ensure

LEMMA EnsureDraftSteps ==
  ASSUME ChatInv, NEW t \in Turns, EnsureDraft(t)
  PROVE StepOf(t)
<1>0. turn[t].pc = "ensured" /\ ThreadOK(t) /\ turn[t].draft \in Drafts \cup {None}
  BY DriverTypes DEF EnsureDraft, Turn
<1>1. CASE turn' = [turn EXCEPT ![t] = Fails(t)] /\ UNCHANGED draft_slot
  BY <1>0, <1>1, DriverTypes, EndsOK DEF EnsureDraft, Fails, Holding
<1>2. CASE /\ turn' = [turn EXCEPT ![t].pc = "ready"]
           /\ draft_slot' = IF turn[t].draft = None THEN draft_slot ELSE turn[t].draft
  <2>1. /\ turn'[t] = [turn[t] EXCEPT !.pc = "ready"]
        /\ turn'[t] \in Turn /\ turn' = [turn EXCEPT ![t] = turn'[t]]
    <3> DEFINE x == [turn[t] EXCEPT !.pc = "ready"]
    <3>1. turn' = [turn EXCEPT ![t] = x]
      BY <1>2
    <3>2. x \in Turn
      <4>1. turn[t] \in Turn /\ "ready" \in Steps
        BY DriverTypes DEF Steps
      <4> QED BY <4>1 DEF Turn
    <3> HIDE DEF x
    <3>3. turn'[t] = x /\ turn' = [turn EXCEPT ![t] = turn'[t]]
      BY <3>1, DriverTypes
    <3> QED BY <3>2, <3>3 DEF x
  <2>2. /\ turn'[t].pc = "ready" /\ turn'[t].sent = turn[t].sent /\ turn'[t].kind = turn[t].kind
        /\ turn'[t].route = turn[t].route /\ turn'[t].lifted = turn[t].lifted
    BY <2>1, DriverTypes DEF Turn
  <2>3. UNCHANGED <<inner, holder, target, draft, streaming>>
    BY DEF EnsureDraft
  <2>4. draft_slot' \in Drafts \cup {None}
    BY <1>0, <1>2, DriverTypes
  <2>5. ThreadOK(t)'
    BY <1>0, <2>2, <2>3, DriverTypes DEF ThreadOK, Holding
  <2> QED BY <1>0, <2>1, <2>2, <2>3, <2>4, <2>5, DriverTypes DEF StepOf
<1> QED BY <1>1, <1>2 DEF EnsureDraft

LEMMA LockModelSteps ==
  ASSUME ChatInv, NEW t \in Turns, LockModel(t)
  PROVE StepOf(t)
<1>0. /\ turn[t].pc = "ready" /\ ThreadOK(t) /\ holder[turn[t].kind] = 0
      /\ turn[t].kind \in {"local", "chain"}
  BY DriverTypes DEF LockModel, Free, Kinds
<1> DEFINE next == IF turn[t].kind = "local" THEN "running" ELSE "locked"
<1>1. /\ turn' = [turn EXCEPT ![t].pc = next, ![t].uses = inner[turn[t].kind]]
      /\ holder' = [holder EXCEPT ![turn[t].kind] = t]
      /\ UNCHANGED <<inner, target, draft, draft_slot, streaming>>
  BY DEF LockModel
<1>2. /\ turn'[t] = [turn[t] EXCEPT !.pc = next, !.uses = inner[turn[t].kind]]
      /\ turn'[t] \in Turn /\ turn' = [turn EXCEPT ![t] = turn'[t]]
  <2> DEFINE m == inner[turn[t].kind]
             x == [turn[t] EXCEPT !.pc = next, !.uses = m]
  <2>1. turn' = [turn EXCEPT ![t] = x]
    BY <1>1
  <2>2. next \in Steps /\ m \in Models \cup {None} /\ turn[t] \in Turn
    <3>1. turn[t] \in Turn /\ turn[t].kind \in Kinds
      BY DriverTypes
    <3>2. m \in Models \cup {None}
      BY <3>1, DriverTypes
    <3> QED BY <3>1, <3>2 DEF Steps
  <2> HIDE DEF m, next
  <2>3. x \in Turn
    BY <2>2 DEF Turn
  <2> HIDE DEF x
  <2>4. turn'[t] = x /\ turn' = [turn EXCEPT ![t] = turn'[t]]
    BY <2>1, DriverTypes
  <2> QED BY <2>3, <2>4 DEF x, m
<1>3. /\ turn'[t].pc = next /\ turn'[t].sent = turn[t].sent /\ turn'[t].kind = turn[t].kind
      /\ turn'[t].route = turn[t].route /\ turn'[t].lifted = turn[t].lifted
      /\ turn'[t].uses = inner[turn[t].kind]
  BY <1>2, DriverTypes DEF Turn
<1>4. /\ holder' \in [Kinds -> Turns \cup {0}]
      /\ \A k \in Kinds : holder'[k] = IF k = turn[t].kind THEN t ELSE holder[k]
      /\ \A k \in Kinds, u \in Turns \ {t} : holder'[k] = u <=> holder[k] = u
  BY <1>0, <1>1, DriverTypes
<1>5. ThreadOK(t)'
  BY <1>0, <1>1, <1>3, <1>4, DriverTypes DEF ThreadOK, Holding
<1> QED BY <1>0, <1>1, <1>2, <1>3, <1>4, <1>5, DriverTypes DEF StepOf

LEMMA ConnectSteps ==
  ASSUME ChatInv, NEW t \in Turns, Connect(t)
  PROVE StepOf(t)
<1>0. /\ turn[t].pc = "locked" /\ ThreadOK(t) /\ turn[t].route \in Seq(Peers)
  BY DriverTypes DEF Connect, Turn
<1>1. /\ turn' = [turn EXCEPT ![t].pc = "connected"] /\ target' = turn[t].route
      /\ UNCHANGED <<inner, holder, draft, draft_slot, streaming>>
  BY DEF Connect
<1>2. /\ turn'[t] = [turn[t] EXCEPT !.pc = "connected"]
      /\ turn'[t] \in Turn /\ turn' = [turn EXCEPT ![t] = turn'[t]]
  <2> DEFINE x == [turn[t] EXCEPT !.pc = "connected"]
  <2>1. turn' = [turn EXCEPT ![t] = x]
    BY <1>1
  <2>2. x \in Turn
    <3>1. turn[t] \in Turn /\ "connected" \in Steps
      BY DriverTypes DEF Steps
    <3> QED BY <3>1 DEF Turn
  <2> HIDE DEF x
  <2>3. turn'[t] = x /\ turn' = [turn EXCEPT ![t] = turn'[t]]
    BY <2>1, DriverTypes
  <2> QED BY <2>2, <2>3 DEF x
<1>3. /\ turn'[t].pc = "connected" /\ turn'[t].sent = turn[t].sent /\ turn'[t].kind = turn[t].kind
      /\ turn'[t].uses = turn[t].uses /\ turn'[t].lifted = turn[t].lifted
  BY <1>2, DriverTypes DEF Turn
<1>4. target' \in Seq(Peers) /\ Len(target') <= MaxTokens + 1
  <2>1. /\ turn[t].sent + Len(turn[t].route) <= MaxTokens + 1 /\ Len(turn[t].route) \in Nat
    BY <1>0 DEF ThreadOK
  <2> QED BY <1>0, <1>1, <2>1, DriverTypes
<1>5. ThreadOK(t)'
  BY <1>0, <1>1, <1>3, DriverTypes DEF ThreadOK, Holding
<1> QED BY <1>0, <1>1, <1>2, <1>3, <1>4, <1>5, DriverTypes DEF StepOf

LEMMA ConnectFailsSteps ==
  ASSUME ChatInv, NEW t \in Turns, ConnectFails(t)
  PROVE StepOf(t)
<1>0. /\ turn[t].pc = "locked" /\ ThreadOK(t) /\ turn[t].route \in Seq(Peers)
      /\ turn[t].sent + Len(turn[t].route) <= MaxTokens + 1 /\ Len(turn[t].route) \in Nat
      /\ UNCHANGED <<inner, target, draft, draft_slot, streaming>>
  BY DriverTypes DEF ConnectFails, Turn, ThreadOK
<1>1. CASE ~(Len(turn[t].route) > 1)
  BY <1>0, <1>1, DriverTypes, EndsOK DEF ConnectFails, Fails, Holding, Release
<1>2. CASE Len(turn[t].route) > 1
  <2>1. /\ turn' = [turn EXCEPT ![t].route = Tail(turn[t].route), ![t].sent = turn[t].sent + 1]
        /\ holder' = holder
    BY <1>2, DriverTypes DEF ConnectFails, Turn
  <2>2. /\ Tail(turn[t].route) \in Seq(Peers) /\ Len(Tail(turn[t].route)) = Len(turn[t].route) - 1
        /\ turn[t].sent + 1 \in 0 .. MaxTokens
    BY <1>0, <1>2, DriverTypes, HeadTailProperties
  <2>3. /\ turn'[t] = [turn[t] EXCEPT !.route = Tail(turn[t].route), !.sent = turn[t].sent + 1]
        /\ turn'[t] \in Turn /\ turn' = [turn EXCEPT ![t] = turn'[t]]
    <3> DEFINE x == [turn[t] EXCEPT !.route = Tail(turn[t].route), !.sent = turn[t].sent + 1]
    <3>1. turn' = [turn EXCEPT ![t] = x]
      BY <2>1
    <3>2. x \in Turn
      <4>1. turn[t] \in Turn /\ Tail(turn[t].route) \in Seq(Peers) /\ turn[t].sent + 1 \in 0 .. MaxTokens
        BY <2>2, DriverTypes
      <4> QED BY <4>1 DEF Turn
    <3> HIDE DEF x
    <3>3. turn'[t] = x /\ turn' = [turn EXCEPT ![t] = turn'[t]]
      BY <3>1, DriverTypes
    <3> QED BY <3>2, <3>3 DEF x
  <2>4. /\ turn'[t].pc = "locked" /\ turn'[t].sent = turn[t].sent + 1
        /\ turn'[t].kind = turn[t].kind /\ turn'[t].route = Tail(turn[t].route)
        /\ turn'[t].uses = turn[t].uses /\ turn'[t].lifted = turn[t].lifted
    BY <1>0, <2>3, DriverTypes DEF Turn
  <2>5. ThreadOK(t)'
    <3>1. turn'[t].sent + Len(turn'[t].route) <= MaxTokens + 1
      <4>1. turn[t].sent \in Nat /\ MaxTokens \in Nat
        BY DriverTypes
      <4> QED BY ONLY <1>0, <2>2, <2>4, <4>1
    <3> QED BY <1>0, <2>1, <2>4, <3>1 DEF ThreadOK, Holding
  <2> QED BY <1>0, <2>1, <2>3, <2>4, <2>5, DriverTypes DEF StepOf
<1> QED BY <1>1, <1>2

LEMMA LiftDraftSteps ==
  ASSUME ChatInv, NEW t \in Turns, LiftDraft(t)
  PROVE StepOf(t)
<1>0. /\ turn[t].pc = "connected" /\ ThreadOK(t)
      /\ UNCHANGED <<inner, target, draft, streaming>>
  BY DriverTypes DEF LiftDraft
<1>1. CASE turn[t].draft # None /\ draft_slot = None
  BY <1>0, <1>1, DriverTypes, EndsOK DEF LiftDraft, Fails, Holding, Release
<1>2. CASE ~(turn[t].draft # None /\ draft_slot = None)
  <2> DEFINE lift == IF turn[t].draft = None THEN None ELSE draft_slot
  <2>1. /\ turn' = [turn EXCEPT ![t].pc = "running", ![t].lifted = lift]
        /\ holder' = holder
        /\ draft_slot' = IF turn[t].draft = None THEN draft_slot ELSE None
    BY <1>2 DEF LiftDraft
  <2>2. lift \in Drafts \cup {None} /\ draft_slot' \in Drafts \cup {None}
    BY <2>1, DriverTypes
  <2> HIDE DEF lift
  <2>3. /\ turn'[t] = [turn[t] EXCEPT !.pc = "running", !.lifted = lift]
        /\ turn'[t] \in Turn /\ turn' = [turn EXCEPT ![t] = turn'[t]]
    <3> DEFINE x == [turn[t] EXCEPT !.pc = "running", !.lifted = lift]
    <3>1. turn' = [turn EXCEPT ![t] = x]
      BY <2>1
    <3>2. x \in Turn
      <4>1. turn[t] \in Turn /\ "running" \in Steps /\ lift \in Drafts \cup {None}
        BY <2>2, DriverTypes DEF Steps
      <4> QED BY <4>1 DEF Turn
    <3> HIDE DEF x
    <3>3. turn'[t] = x /\ turn' = [turn EXCEPT ![t] = turn'[t]]
      BY <3>1, DriverTypes
    <3> QED BY <3>2, <3>3 DEF x
  <2>4. /\ turn'[t].pc = "running" /\ turn'[t].sent = turn[t].sent
        /\ turn'[t].kind = turn[t].kind /\ turn'[t].uses = turn[t].uses
    BY <2>3, DriverTypes DEF Turn
  <2>5. ThreadOK(t)'
    BY <1>0, <2>1, <2>4, DriverTypes DEF ThreadOK, Holding
  <2> QED BY <1>0, <2>1, <2>2, <2>3, <2>4, <2>5, DriverTypes DEF StepOf
<1> QED BY <1>1, <1>2

LEMMA SendTokenSteps ==
  ASSUME ChatInv, NEW t \in Turns, SendToken(t)
  PROVE StepOf(t)
<1>0. /\ turn[t].pc = "running" /\ turn[t].sent < MaxTokens /\ ThreadOK(t)
      /\ UNCHANGED <<inner, target, draft, draft_slot, streaming>>
  BY DriverTypes DEF SendToken
<1>1. CASE turn[t].kind = "chain" /\ streaming # t
  BY <1>0, <1>1, DriverTypes, EndsOK DEF SendToken, Fails, Holding, Release
<1>2. CASE ~(turn[t].kind = "chain" /\ streaming # t)
  <2>1. turn' = [turn EXCEPT ![t].sent = turn[t].sent + 1] /\ holder' = holder
    BY <1>2, DriverTypes DEF SendToken, Turn
  <2>2. turn[t].sent + 1 \in 0 .. MaxTokens
    BY <1>0, DriverTypes
  <2>3. /\ turn'[t] = [turn[t] EXCEPT !.sent = turn[t].sent + 1]
        /\ turn'[t] \in Turn /\ turn' = [turn EXCEPT ![t] = turn'[t]]
    <3> DEFINE x == [turn[t] EXCEPT !.sent = turn[t].sent + 1]
    <3>1. turn' = [turn EXCEPT ![t] = x]
      BY <2>1
    <3>2. x \in Turn
      <4>1. turn[t] \in Turn /\ turn[t].sent + 1 \in 0 .. MaxTokens
        BY <2>2, DriverTypes
      <4> QED BY <4>1 DEF Turn
    <3> HIDE DEF x
    <3>3. turn'[t] = x /\ turn' = [turn EXCEPT ![t] = turn'[t]]
      BY <3>1, DriverTypes
    <3> QED BY <3>2, <3>3 DEF x
  <2>4. /\ turn'[t].pc = "running" /\ turn'[t].sent = turn[t].sent + 1
        /\ turn'[t].kind = turn[t].kind /\ turn'[t].uses = turn[t].uses
        /\ turn'[t].lifted = turn[t].lifted
    BY <1>0, <2>3, DriverTypes DEF Turn
  <2>5. ThreadOK(t)'
    BY <1>0, <2>1, <2>4, DriverTypes DEF ThreadOK, Holding
  <2> QED BY <1>0, <2>1, <2>3, <2>4, <2>5, DriverTypes DEF StepOf
<1> QED BY <1>1, <1>2

LEMMA FinishSteps ==
  ASSUME ChatInv, NEW t \in Turns, Finish(t)
  PROVE StepOf(t)
<1>1. draft_slot' \in Drafts \cup {None}
  BY DriverTypes DEF Finish, Turn
<1> QED BY <1>1, DriverTypes, EndsOK DEF Finish, Holding, Release

LEMMA RunFailsSteps ==
  ASSUME ChatInv, NEW t \in Turns, RunFails(t)
  PROVE StepOf(t)
BY DriverTypes, EndsOK DEF RunFails, Fails, Holding, Release

LEMMA ThreadSteps ==
  ASSUME ChatInv, NEW t \in Turns, DriverStep(t)
  PROVE StepOf(t)
BY ReadTargetSteps, ReadDraftSteps, EnsureSteps, EnsureDraftSteps, LockModelSteps, ConnectSteps,
   ConnectFailsSteps, LiftDraftSteps, SendTokenSteps, FinishSteps, RunFailsSteps, Zenon DEF DriverStep, Advance

\* The other turns' threads, and the interface, are as they were.
LEMMA ThreadKeeps ==
  ASSUME ChatInv, NEW t \in Turns, Thread(t)
  PROVE ChatInv'
<1>1. StepOf(t) /\ UNCHANGED <<history, taken, mode, model, setting, edits>>
  BY ThreadSteps DEF Thread, chatVars
<1>2. /\ turn' \in [Turns -> Turn] /\ \A u \in Turns \ {t} : turn'[u] = turn[u]
  BY <1>1, DriverTypes DEF StepOf
<1>3. TypeOK' /\ Len(target') <= MaxTokens + 1
  BY <1>1, <1>2 DEF StepOf, ChatInv, TypeOK, DriverTypeOK
<1>4. ASSUME NEW u \in Turns \ {t} PROVE ThreadOK(u)'
  <2>1. ThreadOK(u) /\ turn'[u] = turn[u] /\ turn[u].kind \in Kinds
    BY <1>2, DriverTypes
  <2>2. /\ \A k \in Kinds : holder'[k] = u <=> holder[k] = u
        /\ \A k \in Kinds : inner[k] # None => inner'[k] # None
    BY <1>1 DEF StepOf
  <2> QED BY <2>1, <2>2 DEF ThreadOK
<1>5. ThreadOK(t)'
  BY <1>1 DEF StepOf
<1>6. OwnPrefix' /\ LastOK'
  <2>1. OwnPrefix'
    BY <1>1 DEF ChatInv, OwnPrefix
  <2>2. streaming' = streaming /\ turn'[t].pc # "off"
    BY <1>1 DEF StepOf
  <2> QED BY <1>1, <1>2, <2>1, <2>2 DEF ChatInv, LastOK
<1>7. TakenOK'
  <2>1. /\ streaming' = streaming /\ turn'[t].pc # "off" /\ turn[t].sent <= turn'[t].sent
        /\ turn[t].sent \in Nat /\ turn'[t].sent \in Nat /\ taken[t] \in Nat /\ taken' = taken
    BY <1>1, DriverTypes, DriverAssumption DEF StepOf, ChatInv, TypeOK, Turn
  <2>2. taken'[t] <= turn'[t].sent
    BY <2>1 DEF ChatInv, TakenOK
  <2>3. streaming # 0 => streaming \in Turns
    BY DEF ChatInv, TypeOK, DriverTypeOK
  <2> QED BY <1>2, <2>1, <2>2, <2>3 DEF ChatInv, TakenOK
<1> QED BY <1>3, <1>4, <1>5, <1>6, <1>7 DEF ChatInv
-----------------------------------------------------------------------------
(* The transcript.                                                            *)

Entry == [role : {"user", "assistant", "system"}, open : BOOLEAN, of : Turns \cup {0},
          text : Seq(Turns \X (1 .. MaxTokens))]

LEMMA ChatTypes ==
  ASSUME ChatInv
  PROVE /\ history \in Seq(Entry) /\ Len(history) \in Nat
        /\ taken \in [Turns -> 0 .. MaxTokens] /\ mode \in Kinds /\ model \in Models
        /\ edits \in 0 .. MaxEdits /\ streaming \in Turns \cup {0} /\ DriverTypeOK
        /\ Turns \subseteq Nat \ {0} /\ MaxTokens \in Nat \ {0} /\ MaxEdits \in Nat
BY DriverAssumption, ChatAssumption DEF ChatInv, TypeOK, Entry, DriverTypeOK

LEMMA MessageTypes ==
  /\ User \in Entry /\ System \in Entry /\ User.text = <<>> /\ System.text = <<>>
  /\ System.role = "system" /\ User.role = "user"
BY DEF User, System, Entry

\* The tokens of a reply, up to some number.
Tokens(t, n) == [j \in 1 .. n |-> <<t, j>>]

LEMMA TokensIs ==
  ASSUME NEW t, NEW n \in Nat
  PROVE /\ Tokens(t, n) \in Seq({t} \X (1 .. n)) /\ Len(Tokens(t, n)) = n
        /\ DOMAIN Tokens(t, n) = 1 .. n
        /\ Tokens(t, n) = [j \in DOMAIN Tokens(t, n) |-> <<t, j>>]
BY DEF Tokens

\* A transcript whose replies are beginnings of what their turns generated.
Clean(h) ==
  /\ h \in Seq(Entry)
  /\ \A i \in DOMAIN h : h[i].text = [j \in DOMAIN h[i].text |-> <<h[i].of, j>>]

LEMMA CleanIs ==
  /\ ChatInv => Clean(history)
  /\ Clean(history) => OwnPrefix /\ history \in Seq(Entry)
BY ChatTypes DEF Clean, ChatInv, OwnPrefix

\* A message without text behind the transcript.
LEMMA AppendKeeps ==
  ASSUME NEW s, Clean(s), NEW e \in Entry, e.text = <<>>
  PROVE Clean(Append(s, e)) /\ Append(s, e) # <<>> /\ Last(Append(s, e)) = e
<1> DEFINE h == Append(s, e)
<1>0. s \in Seq(Entry) /\ Len(s) \in Nat /\ DOMAIN s = 1 .. Len(s)
  BY DEF Clean
<1>1. /\ h \in Seq(Entry) /\ Len(h) = Len(s) + 1 /\ h[Len(s) + 1] = e
      /\ \A i \in 1 .. Len(s) : h[i] = s[i]
      /\ DOMAIN h = 1 .. (Len(s) + 1)
  BY <1>0, AppendProperties
<1> HIDE DEF h
<1>2. ASSUME NEW i \in DOMAIN h
      PROVE h[i].text = [j \in DOMAIN h[i].text |-> <<h[i].of, j>>]
  <2>1. CASE i = Len(s) + 1
    <3>1. h[i].text = <<>> /\ DOMAIN <<>> = {}
      BY <1>1, <2>1
    <3> QED BY <3>1
  <2>2. CASE i \in 1 .. Len(s)
    <3>1. h[i] = s[i] /\ i \in DOMAIN s
      BY <1>0, <1>1, <2>2
    <3> QED BY <3>1 DEF Clean
  <2>3. i = Len(s) + 1 \/ i \in 1 .. Len(s)
    BY <1>0, <1>1
  <2> QED BY <2>1, <2>2, <2>3
<1>3. h # <<>> /\ Last(h) = e
  BY <1>0, <1>1 DEF Last
<1> QED BY <1>1, <1>2, <1>3 DEF h, Clean

TurnTokens == Turns \X (1 .. MaxTokens)

\* The tokens of t, one by one.
Numbered(s, t) == s = [j \in DOMAIN s |-> <<t, j>>]

LEMMA EachOf ==
  ASSUME NEW s \in Seq(TurnTokens), NEW t, \A j \in DOMAIN s : s[j] = <<t, j>>
  PROVE Numbered(s, t)
<1> DEFINE f == [j \in DOMAIN s |-> s[j]]
<1>1. s = f
  OBVIOUS
<1>2. f = [j \in DOMAIN s |-> <<t, j>>]
  OBVIOUS
<1> QED BY <1>1, <1>2 DEF Numbered

LEMMA TwoBehind ==
  ASSUME NEW S, NEW s \in Seq(S), NEW a \in S, NEW b \in S
  PROVE s \o <<a, b>> = Append(Append(s, a), b)
<1> DEFINE p == <<a, b>>
           q == Append(s, a)
<1>0. p \in Seq(S) /\ Len(p) = 2 /\ p[1] = a /\ p[2] = b /\ Len(s) \in Nat
  OBVIOUS
<1>1. q \in Seq(S) /\ Len(q) = Len(s) + 1 /\ q[Len(s) + 1] = a /\ \A i \in 1 .. Len(s) : q[i] = s[i]
  BY AppendProperties
<1> HIDE DEF p, q
<1>2. /\ Append(q, b) \in Seq(S) /\ Len(Append(q, b)) = Len(s) + 2
      /\ Append(q, b)[Len(s) + 2] = b /\ Append(q, b)[Len(s) + 1] = a
      /\ \A i \in 1 .. Len(s) : Append(q, b)[i] = s[i]
  <2>1. /\ Append(q, b) \in Seq(S) /\ Len(Append(q, b)) = Len(q) + 1
        /\ Append(q, b)[Len(q) + 1] = b /\ \A i \in 1 .. Len(q) : Append(q, b)[i] = q[i]
    BY <1>1, AppendProperties
  <2> QED BY <1>0, <1>1, <2>1
<1>3. /\ s \o p \in Seq(S) /\ Len(s \o p) = Len(s) + 2
      /\ \A i \in 1 .. (Len(s) + 2) : (s \o p)[i] = IF i <= Len(s) THEN s[i] ELSE p[i - Len(s)]
  <2>1. Len(s) + Len(p) = Len(s) + 2
    BY <1>0
  <2>2. /\ s \o p \in Seq(S) /\ Len(s \o p) = Len(s) + Len(p)
        /\ \A i \in 1 .. Len(s) + Len(p) :
              (s \o p)[i] = IF i <= Len(s) THEN s[i] ELSE p[i - Len(s)]
    <3>1. s \in Seq(S) /\ p \in Seq(S)
      BY <1>0
    <3> QED BY ONLY <3>1, ConcatProperties
  <2> QED BY ONLY <2>1, <2>2
<1>4. ASSUME NEW i \in 1 .. (Len(s) + 2) PROVE (s \o p)[i] = Append(q, b)[i]
  <2>1. CASE i \in 1 .. Len(s)
    BY <1>0, <1>2, <1>3, <2>1
  <2>2. CASE i = Len(s) + 1
    <3>1. i - Len(s) = 1 /\ ~(i <= Len(s))
      BY <1>0, <2>2
    <3> QED BY <1>0, <1>2, <1>3, <2>2, <3>1
  <2>3. CASE i = Len(s) + 2
    <3>1. i - Len(s) = 2 /\ ~(i <= Len(s))
      BY <1>0, <2>3
    <3> QED BY <1>0, <1>2, <1>3, <2>3, <3>1
  <2>4. i \in 1 .. Len(s) \/ i = Len(s) + 1 \/ i = Len(s) + 2
    BY <1>0
  <2> QED BY <2>1, <2>2, <2>3, <2>4, Zenon
<1>5. s \o p = Append(q, b)
  BY <1>2, <1>3, <1>4, SeqEqual
<1> QED BY <1>5 DEF p, q

\* Where the driver's threads are as they were, and the interface listens to the
\* same turn, a system message behind the transcript is all right.
LEMMA WithSystemKeeps ==
  ASSUME ChatInv, history' = WithSystem(history),
         UNCHANGED <<inner, holder, turn, streaming, taken>>,
         target' \in Seq(Peers), Len(target') <= MaxTokens + 1,
         draft' \in Drafts \cup {None}, draft_slot' \in Drafts \cup {None},
         mode' \in Kinds, model' \in Models, setting' \subseteq Drafts \cup {None},
         edits' \in 0 .. MaxEdits
  PROVE ChatInv'
<1>1. Clean(history') /\ history' # <<>> /\ Last(history').role = "system"
  <2>1. CASE history # <<>> /\ Last(history).role = "system"
    BY <2>1, CleanIs DEF WithSystem
  <2>2. CASE ~(history # <<>> /\ Last(history).role = "system")
    <3>1. history' = Append(history, System)
      BY <2>2 DEF WithSystem
    <3> QED BY <3>1, CleanIs, AppendKeeps, MessageTypes
  <2> QED BY <2>1, <2>2
<1>2. TypeOK' /\ Len(target') <= MaxTokens + 1
  BY <1>1 DEF Clean, ChatInv, TypeOK, DriverTypeOK, Entry
<1>3. \A t \in Turns : ThreadOK(t)'
  BY DEF ChatInv, ThreadOK
<1>4. OwnPrefix' /\ LastOK' /\ TakenOK'
  BY <1>1 DEF Clean, OwnPrefix, LastOK, ChatInv, TakenOK
<1> QED BY <1>2, <1>3, <1>4 DEF ChatInv

LEMMA SettingsKeep ==
  ASSUME ChatInv,
         \/ Notice \/ JobReport
         \/ \E m \in Kinds, mo \in Models : Choose(m, mo)
         \/ \E r \in Targets \cup {<<>>} : Peer(r)
         \/ (\E d \in Drafts \cup {None} : Draft(d)) \/ DraftIsSet
  PROVE ChatInv'
<1>0. /\ target \in Seq(Peers) /\ Len(target) <= MaxTokens + 1
      /\ draft \in Drafts \cup {None} /\ draft_slot \in Drafts \cup {None}
      /\ mode \in Kinds /\ model \in Models /\ edits \in 0 .. MaxEdits /\ MaxEdits \in Nat
      /\ setting \subseteq Drafts \cup {None}
  BY ChatTypes DEF ChatInv, TypeOK, DriverTypeOK
<1>1. CASE Notice \/ JobReport
  BY <1>0, <1>1, WithSystemKeeps DEF Notice, JobReport, driverVars
<1>2. CASE \E m \in Kinds, mo \in Models : Choose(m, mo)
  <2>1. edits' \in 0 .. MaxEdits /\ mode' \in Kinds /\ model' \in Models
    BY <1>0, <1>2 DEF Choose
  <2> QED BY <1>0, <1>2, <2>1, WithSystemKeeps DEF Choose, driverVars
<1>3. CASE \E r \in Targets \cup {<<>>} : Peer(r)
  <2>1. PICK r \in Targets \cup {<<>>} : Peer(r)
    BY <1>3
  <2>2. r \in Seq(Peers) /\ Len(r) <= MaxTokens + 1
    <3>1. <<>> \in Seq(Peers) /\ Len(<<>>) = 0
      OBVIOUS
    <3>2. 0 <= MaxTokens + 1
      BY DriverAssumption
    <3>3. CASE r = <<>>
      BY ONLY <3>1, <3>2, <3>3
    <3>4. CASE r \in Targets
      BY <3>4, DriverAssumption, Zenon
    <3> QED BY <3>3, <3>4
  <2>3. edits' \in 0 .. MaxEdits
    BY <1>0, <2>1 DEF Peer
  <2> QED BY <1>0, <2>1, <2>2, <2>3, WithSystemKeeps DEF Peer, SetTarget
<1>4. CASE \E d \in Drafts \cup {None} : Draft(d)
  <2>1. PICK d \in Drafts \cup {None} : Draft(d)
    BY <1>4
  <2>2. /\ edits' \in 0 .. MaxEdits /\ setting' \subseteq Drafts \cup {None}
        /\ draft_slot' \in Drafts \cup {None}
        /\ UNCHANGED <<inner, holder, target, draft, turn, streaming, history, taken, mode, model>>
    BY <1>0, <2>1 DEF Draft, EvictDraft
  <2>3. TypeOK' /\ Len(target') <= MaxTokens + 1
    BY <1>0, <2>2 DEF ChatInv, TypeOK, DriverTypeOK
  <2>4. \A t \in Turns : ThreadOK(t)'
    BY <2>2 DEF ChatInv, ThreadOK
  <2>5. OwnPrefix' /\ LastOK' /\ TakenOK'
    BY <2>2 DEF ChatInv, OwnPrefix, LastOK, TakenOK
  <2> QED BY <2>3, <2>4, <2>5 DEF ChatInv
<1>5. CASE DraftIsSet
  <2>1. draft' \in Drafts \cup {None} /\ setting' = {}
    BY <1>0, <1>5 DEF DraftIsSet, SetDraft
  <2> QED BY <1>0, <1>5, <2>1, WithSystemKeeps DEF DraftIsSet, SetDraft
<1> QED BY <1>1, <1>2, <1>3, <1>4, <1>5

LEMMA ClearKeeps == ChatInv /\ Clear => ChatInv'
<1> SUFFICES ASSUME ChatInv, Clear PROVE ChatInv'
  OBVIOUS
<1>1. history' = <<>> /\ <<>> \in Seq(Entry) /\ DOMAIN <<>> = {}
  BY DEF Clear
<1>2. UNCHANGED <<inner, holder, target, draft, draft_slot, turn, streaming, taken, mode, model,
                  setting, edits>>
  BY DEF Clear, driverVars
<1>3. TypeOK'
  BY <1>1, <1>2 DEF ChatInv, TypeOK, DriverTypeOK, Entry
<1>4. \A t \in Turns : ThreadOK(t)'
  BY <1>2 DEF ChatInv, ThreadOK
<1>5. OwnPrefix' /\ LastOK' /\ TakenOK'
  BY <1>1, <1>2 DEF ChatInv, OwnPrefix, LastOK, TakenOK
<1> QED BY <1>2, <1>3, <1>4, <1>5 DEF ChatInv

\* The last message is replaced by another of the same turn.
LEMMA WithLastIs ==
  ASSUME ChatInv, history # <<>>, NEW e \in Entry,
         e.text = [j \in DOMAIN e.text |-> <<e.of, j>>]
  PROVE /\ Clean(WithLast(history, e)) /\ WithLast(history, e) # <<>>
        /\ Last(WithLast(history, e)) = e
<1> DEFINE h == WithLast(history, e)
<1>0. history \in Seq(Entry) /\ Len(history) \in Nat \ {0} /\ DOMAIN history = 1 .. Len(history)
  BY ChatTypes, EmptySeq
<1>1. /\ h \in Seq(Entry) /\ Len(h) = Len(history) /\ DOMAIN h = 1 .. Len(history)
      /\ h[Len(history)] = e
      /\ \A i \in 1 .. Len(history) : i # Len(history) => h[i] = history[i]
  <2>1. h = [history EXCEPT ![Len(history)] = e]
    BY DEF WithLast
  <2>2. Len(history) \in 1 .. Len(history)
    BY <1>0
  <2> HIDE DEF h
  <2>3. h \in Seq(Entry) /\ Len(h) = Len(history)
    BY <1>0, <2>1, <2>2, ExceptSeq
  <2>4. \A i \in 1 .. Len(history) : h[i] = IF i = Len(history) THEN e ELSE history[i]
    BY <1>0, <2>1
  <2>5. DOMAIN h = 1 .. Len(h)
    BY <2>3, LenProperties
  <2> QED BY <1>0, <2>2, <2>3, <2>4, <2>5
<1> HIDE DEF h
<1>2. ASSUME NEW i \in DOMAIN h
      PROVE h[i].text = [j \in DOMAIN h[i].text |-> <<h[i].of, j>>]
  <2>1. CASE i = Len(history)
    BY <1>1, <2>1
  <2>2. CASE i # Len(history)
    <3>1. h[i] = history[i] /\ i \in DOMAIN history
      BY <1>0, <1>1, <2>2
    <3>2. history[i].text = [j \in DOMAIN history[i].text |-> <<history[i].of, j>>]
      BY <3>1 DEF ChatInv, OwnPrefix
    <3> QED BY <3>1, <3>2
  <2> QED BY <2>1, <2>2
<1>3. h # <<>> /\ Last(h) = e
  BY <1>0, <1>1 DEF Last
<1> QED BY <1>1, <1>2, <1>3 DEF h, Clean

LEMMA LastIs ==
  ASSUME ChatInv, history # <<>>
  PROVE /\ Last(history) \in Entry
        /\ Last(history).text = [j \in DOMAIN Last(history).text |-> <<Last(history).of, j>>]
<1>1. Len(history) \in DOMAIN history /\ history[Len(history)] \in Entry
  BY ChatTypes, EmptySeq
<1> QED BY <1>1 DEF Last, ChatInv, OwnPrefix

LEMMA StopKeyKeeps == ChatInv /\ StopKey => ChatInv'
<1> SUFFICES ASSUME ChatInv, StopKey PROVE ChatInv'
  OBVIOUS
<1>1. /\ history' = Stop(history) /\ streaming' = 0
      /\ UNCHANGED <<inner, holder, target, draft, draft_slot, turn, taken, mode, model, setting,
                  edits>>
  BY DEF StopKey
<1>2. 0 \notin Turns
  BY DriverAssumption
<1>3. Clean(history') /\ LastOK'
  <2>1. CASE history = <<>>
    BY <1>1, <2>1, CleanIs DEF Stop, LastOK
  <2>2. CASE history # <<>>
    <3> DEFINE l == Last(history)
               e == [Last(history) EXCEPT !.open = FALSE]
    <3>1. l \in Entry /\ l.text = [j \in DOMAIN l.text |-> <<l.of, j>>]
      BY <2>2, LastIs
    <3> HIDE DEF l
    <3>2. /\ e \in Entry /\ e.role = l.role /\ e.of = l.of /\ e.text = l.text /\ e.open = FALSE
      BY <3>1 DEF Entry, l
    <3> HIDE DEF e
    <3>3. history' = WithLast(history, e)
      BY <1>1, <2>2 DEF Stop, e
    <3>4. Clean(history') /\ Last(history') = e
      BY <2>2, <3>1, <3>2, <3>3, WithLastIs
    <3>5. LastOK'
      BY <1>1, <1>2, <2>2, <3>2, <3>4 DEF ChatInv, LastOK, l
    <3> QED BY <3>4, <3>5
  <2> QED BY <2>1, <2>2
<1>4. TypeOK'
  BY <1>1, <1>3 DEF ChatInv, TypeOK, DriverTypeOK, Entry, Clean
<1>5. \A t \in Turns : ThreadOK(t)'
  BY <1>1 DEF ChatInv, ThreadOK
<1>6. OwnPrefix' /\ TakenOK'
  BY <1>1, <1>3 DEF ChatInv, OwnPrefix, TakenOK, Clean
<1> QED BY <1>1, <1>3, <1>4, <1>5, <1>6 DEF ChatInv
\* A new reply behind the transcript: open for the turn that starts, or closed
\* at once when none does.
LEMMA ReplyBehind ==
  ASSUME ChatInv, NEW e \in Entry, e.text = <<>>, history' = history \o <<User, e>>
  PROVE Clean(history') /\ history' # <<>> /\ Last(history') = e
<1>1. history \in Seq(Entry) /\ User \in Entry /\ User.text = <<>> /\ Clean(history)
  BY CleanIs, MessageTypes
<1>2. history' = Append(Append(history, User), e)
  BY <1>1, TwoBehind
<1>3. Clean(Append(history, User))
  BY <1>1, AppendKeeps
<1> QED BY <1>2, <1>3, AppendKeeps

LEMMA ReplyTypes ==
  ASSUME NEW t \in Turns
  PROVE /\ AssistantOpen(t) \in Entry
        /\ AssistantOpen(t).of = t /\ AssistantOpen(t).text = <<>>
        /\ AssistantOpen(t).open = TRUE
BY DEF AssistantOpen, Entry

\* A turn of the driver that moves on, or starts with a mode and a model.
LEMMA TurnMoves ==
  ASSUME NEW v \in Turn, NEW p \in Steps, NEW k \in Kinds, NEW m \in Models
  PROVE /\ [v EXCEPT !.pc = p] \in Turn
        /\ [v EXCEPT !.pc = p, !.kind = k, !.model = m] \in Turn
BY DEF Turn

LEMMA SubmitKeeps ==
  ASSUME ChatInv, NEW t \in Turns, Submit(t)
  PROVE ChatInv'
<1>0. /\ turn[t].pc = "off" /\ turn[t] = Idle /\ turn[t].sent = 0 /\ Idle.pc = "off"
      /\ turn \in [Turns -> Turn] /\ Idle \in Turn /\ 0 \notin Turns /\ 0 \in 0 .. MaxTokens
      /\ \A k \in Kinds : holder[k] # t
      /\ UNCHANGED <<taken, mode, model, setting, edits>> /\ mode \in Kinds /\ model \in Models
      /\ streaming # t /\ taken[t] = 0 /\ streaming \in Turns \cup {0}
  <2>1. turn[t].pc = "off" /\ ThreadOK(t) /\ turn[t] \in Turn
    BY DriverTypes DEF Submit
  <2>2. turn[t] = Idle /\ \A k \in Kinds : holder[k] # t
    BY <2>1 DEF ThreadOK, Holding
  <2>3. Idle.pc = "off" /\ Idle.sent = 0 /\ 0 \in 0 .. MaxTokens
    BY DriverTypes DEF Idle
  <2>4. streaming # t /\ taken[t] = 0
    <3>1. taken[t] <= turn[t].sent /\ taken[t] \in Nat
      BY ChatTypes, DriverTypes DEF ChatInv, TakenOK
    <3>2. streaming # t
      BY <2>1, DriverTypes DEF ChatInv, TakenOK
    <3> QED BY <2>2, <2>3, <3>1, <3>2
  <2> QED BY <2>1, <2>2, <2>3, <2>4, DriverTypes, ChatTypes DEF Submit
<1>1. CASE /\ Start(t, mode, model) /\ streaming' = t
           /\ history' = history \o <<User, AssistantOpen(t)>>
  <2> DEFINE x == [Idle EXCEPT !.pc = "start", !.kind = mode, !.model = model]
  <2>1. /\ turn' = [turn EXCEPT ![t] = x]
        /\ UNCHANGED <<inner, holder, target, draft, draft_slot>>
    BY <1>1 DEF Start
  <2>2. /\ x \in Turn /\ x.pc = "start" /\ x.model = model /\ x.sent = 0 /\ x.route = <<>>
        /\ x.lifted = None
    <3>1. /\ Idle.sent = 0 /\ Idle.route = <<>> /\ Idle.lifted = None
      BY DEF Idle
    <3>2. x \in Turn
      BY <1>0, TurnMoves DEF Steps
    <3>3. /\ x.pc = "start" /\ x.model = model /\ x.sent = Idle.sent /\ x.route = Idle.route
          /\ x.lifted = Idle.lifted
      BY <1>0 DEF Turn
    <3> QED BY <3>1, <3>2, <3>3
  <2> HIDE DEF x
  <2>3. turn' \in [Turns -> Turn] /\ turn'[t] = x /\ \A u \in Turns \ {t} : turn'[u] = turn[u]
    BY <1>0, <2>1, <2>2
  <2>4. /\ Clean(history') /\ history' # <<>> /\ Last(history').of = t
        /\ Last(history').text = <<>> /\ Last(history').open = TRUE
    BY <1>1, ReplyTypes, ReplyBehind
  <2>5. TypeOK' /\ Len(target') <= MaxTokens + 1
    BY <1>0, <1>1, <2>1, <2>3, <2>4 DEF ChatInv, TypeOK, DriverTypeOK, Clean, Entry
  <2>6. ThreadOK(t)'
    <3>1. 0 + Len(<<>>) <= MaxTokens + 1 /\ None \notin Models
      BY DriverAssumption
    <3> QED BY <1>0, <2>1, <2>2, <2>3, <3>1 DEF ThreadOK, Holding
  <2>7. \A u \in Turns \ {t} : ThreadOK(u)'
    BY <2>1, <2>3 DEF ChatInv, ThreadOK
  <2>8. TakenOK'
    BY <1>0, <1>1, <2>2, <2>3 DEF ChatInv, TakenOK
  <2>9. LastOK'
    <3>1. turn'[t].pc = "start" /\ Len(<<>>) = 0
      BY <2>2, <2>3
    <3> QED BY <1>0, <1>1, <2>4, <3>1 DEF LastOK
  <2>10. OwnPrefix'
    BY <2>4 DEF Clean, OwnPrefix
  <2> QED BY <2>5, <2>6, <2>7, <2>8, <2>9, <2>10 DEF ChatInv
<1>2. CASE /\ turn' = [turn EXCEPT ![t].pc = "over"]
           /\ history' = history \o <<User, [AssistantOpen(t) EXCEPT !.open = FALSE]>>
           /\ UNCHANGED <<streaming, inner, holder, target, draft, draft_slot>>
  <2> DEFINE x == [Idle EXCEPT !.pc = "over"]
  <2>1. turn' = [turn EXCEPT ![t] = x]
    BY <1>0, <1>2
  <2>2. x \in Turn /\ x.pc = "over" /\ x.sent = 0 /\ x.lifted = None
    <3>1. Idle.sent = 0 /\ Idle.lifted = None
      BY DEF Idle
    <3>2. x \in Turn
      BY <1>0, TurnMoves DEF Steps
    <3>3. x.pc = "over" /\ x.sent = Idle.sent /\ x.lifted = Idle.lifted
      BY <1>0 DEF Turn
    <3> QED BY <3>1, <3>2, <3>3
  <2> HIDE DEF x
  <2>3. turn' \in [Turns -> Turn] /\ turn'[t] = x /\ \A u \in Turns \ {t} : turn'[u] = turn[u]
    BY <1>0, <2>1, <2>2
  <2>4. /\ Clean(history') /\ history' # <<>> /\ Last(history').of = t
        /\ Last(history').text = <<>> /\ Last(history').open = FALSE
    <3> DEFINE r == AssistantOpen(t)
               e == [r EXCEPT !.open = FALSE]
    <3>0. r \in Entry /\ r.of = t /\ r.text = <<>>
      BY ReplyTypes
    <3> HIDE DEF r
    <3>1. e \in Entry /\ e.of = t /\ e.text = <<>> /\ e.open = FALSE
      BY <3>0 DEF Entry
    <3> HIDE DEF e
    <3>2. history' = history \o <<User, e>>
      BY <1>2 DEF e, r
    <3> QED BY <3>1, <3>2, ReplyBehind
  <2>5. TypeOK' /\ Len(target') <= MaxTokens + 1
    BY <1>0, <1>2, <2>3, <2>4 DEF ChatInv, TypeOK, DriverTypeOK, Clean, Entry
  <2>6. ThreadOK(t)'
    BY <1>0, <1>2, <2>2, <2>3 DEF ThreadOK, Holding
  <2>7. \A u \in Turns \ {t} : ThreadOK(u)'
    BY <1>2, <2>3 DEF ChatInv, ThreadOK
  <2>8. TakenOK'
    BY <1>0, <1>2, <2>2, <2>3 DEF ChatInv, TakenOK
  <2>9. LastOK'
    <3>1. turn'[t].pc = "over" /\ Len(<<>>) = 0
      BY <2>2, <2>3
    <3> QED BY <1>0, <1>2, <2>4, <3>1 DEF LastOK
  <2>10. OwnPrefix'
    BY <2>4 DEF Clean, OwnPrefix
  <2> QED BY <2>5, <2>6, <2>7, <2>8, <2>9, <2>10 DEF ChatInv
<1> QED BY <1>1, <1>2 DEF Submit
\* A batch of deltas for the last reply, which is open: its text grows to what
\* the turn has sent.
LEMMA BatchIs ==
  ASSUME ChatInv, streaming # 0, history # <<>>, LastIsOpen(history)
  PROVE LET l == Last(history)
            t == streaming
            e == [l EXCEPT !.text = l.text \o NewTokens(t), !.open = turn[t].end = "none"]
        IN /\ l.of = t /\ e \in Entry /\ e.of = t
           /\ e.text = [j \in DOMAIN e.text |-> <<e.of, j>>]
           /\ Len(e.text) = turn[t].sent
           /\ e.open <=> turn[t].end = "none"
<1> DEFINE l == Last(history)
           t == streaming
           n == taken[streaming]
           m == turn[streaming].sent
           a == l.text
           b == NewTokens(t)
<1>0. /\ l \in Entry /\ a = [j \in DOMAIN a |-> <<l.of, j>>]
      /\ l.of = t /\ Len(a) = n /\ t \in Turns
  <2>1. l \in Entry /\ a = [j \in DOMAIN a |-> <<l.of, j>>]
    BY LastIs
  <2>2. l.role = "assistant" /\ l.open
    BY DEF LastIsOpen
  <2>3. l.of \in Turns /\ Len(a) = taken[l.of] /\ (l.open <=> l.of = streaming)
    BY <2>2 DEF ChatInv, LastOK
  <2> QED BY <2>1, <2>2, <2>3
<1>1. n \in 0 .. MaxTokens /\ m \in 0 .. MaxTokens /\ n <= m /\ MaxTokens \in Nat
  <2>1. taken \in [Turns -> 0 .. MaxTokens] /\ MaxTokens \in Nat
    BY ChatTypes
  <2>2. m \in 0 .. MaxTokens
    BY <1>0, DriverTypes
  <2>3. n <= m
    BY <1>0 DEF ChatInv, TakenOK
  <2> QED BY <1>0, <2>1, <2>2, <2>3
<1> DEFINE D == Turns \X (1 .. MaxTokens)
<1>2. a \in Seq(D) /\ \A j \in 1 .. n : a[j] = <<t, j>>
  <2>1. a \in Seq(D)
    BY <1>0 DEF Entry
  <2>2. DOMAIN a = 1 .. n
    BY <1>0, <2>1
  <2> HIDE DEF a
  <2> QED BY <1>0, <2>1, <2>2
<1>3. b \in Seq(D) /\ Len(b) = m - n /\ \A j \in 1 .. m - n : b[j] = <<t, n + j>>
  <2>1. b = [i \in 1 .. m - n |-> <<t, n + i>>]
    BY DEF NewTokens
  <2>2. \A i \in 1 .. m - n : <<t, n + i>> \in D
    BY <1>0, <1>1
  <2>3. m - n \in Nat
    BY <1>1
  <2> HIDE DEF b, D, m, n, t
  <2> QED BY <2>1, <2>2, <2>3
<1> HIDE DEF a, b, m, n, D, t, l
<1>4. /\ a \o b \in Seq(D) /\ Len(a \o b) = m
      /\ \A j \in 1 .. m : (a \o b)[j] = <<t, j>>
  <2>1. n + (m - n) = m /\ n \in Nat /\ m \in Nat
    BY <1>1
  <2>2. /\ a \o b \in Seq(D) /\ Len(a \o b) = m
        /\ \A j \in 1 .. m : (a \o b)[j] = IF j <= n THEN a[j] ELSE b[j - n]
    <3>1. Len(a) = n /\ Len(b) = m - n /\ Len(a) + Len(b) = m
      BY <1>0, <1>3, <2>1
    <3>2. /\ a \o b \in Seq(D) /\ Len(a \o b) = Len(a) + Len(b)
          /\ \A j \in 1 .. Len(a) + Len(b) :
                (a \o b)[j] = IF j <= Len(a) THEN a[j] ELSE b[j - Len(a)]
      BY ONLY <1>2, <1>3, ConcatProperties
    <3> QED BY ONLY <3>1, <3>2
  <2>3. ASSUME NEW j \in 1 .. m PROVE (a \o b)[j] = <<t, j>>
    <3>1. CASE j <= n
      BY <1>2, <2>1, <2>2, <3>1
    <3>2. CASE ~(j <= n)
      <4>1. j - n \in 1 .. m - n /\ n + (j - n) = j
        BY <2>1, <3>2
      <4> QED BY <1>3, <2>2, <3>2, <4>1
    <3> QED BY <3>1, <3>2
  <2> QED BY <2>2, <2>3
<1> DEFINE c == a \o b
           o == turn[t].end = "none"
           e == [l EXCEPT !.text = c, !.open = o]
<1> HIDE DEF c
<1>5. e \in Entry /\ e.of = t /\ e.text = c /\ (e.open <=> turn[t].end = "none")
  <2>1. c \in Seq(Turns \X (1 .. MaxTokens))
    BY <1>4 DEF c, D
  <2>2. o \in BOOLEAN
    OBVIOUS
  <2> HIDE DEF o
  <2>3. e \in Entry /\ e.of = t /\ e.text = c /\ e.open = o
    BY <1>0, <2>1, <2>2 DEF Entry
  <2> QED BY <2>3 DEF o
<1>6. c = [j \in DOMAIN c |-> <<t, j>>]
  <2> HIDE DEF D, t, m
  <2>1. c \in Seq(D) /\ Len(c) = m /\ \A j \in 1 .. m : c[j] = <<t, j>>
    BY <1>4 DEF c
  <2>2. DOMAIN c = 1 .. m
    BY ONLY <2>1
  <2>3. \A j \in DOMAIN c : c[j] = <<t, j>>
    BY ONLY <2>1, <2>2
  <2>4. c \in Seq(TurnTokens)
    BY <2>1 DEF D, TurnTokens
  <2>5. Numbered(c, t)
    BY ONLY <2>3, <2>4, EachOf
  <2> QED BY <2>5 DEF Numbered
<1>7. l.of = t /\ Len(c) = m
  BY <1>0, <1>4 DEF c
<1>8. /\ l.of = t /\ e \in Entry /\ e.of = t
      /\ e.text = [j \in DOMAIN e.text |-> <<e.of, j>>] /\ Len(e.text) = m
      /\ (e.open <=> turn[t].end = "none")
  <2> HIDE DEF e, l, t, m
  <2> QED BY <1>5, <1>6, <1>7
<1> QED BY <1>8 DEF a, b, c, t, l, m

LEMMA DrainStreamKeeps == ChatInv /\ DrainStream => ChatInv'
<1> SUFFICES ASSUME ChatInv, DrainStream PROVE ChatInv'
  OBVIOUS
<1> DEFINE t == streaming
<1>0. /\ t # 0 /\ t \in Turns /\ 0 \notin Turns
      /\ history' = Received(history, t)
      /\ taken' = [taken EXCEPT ![t] = turn[t].sent]
      /\ streaming' = IF turn[t].end = "none" THEN t ELSE 0
      /\ UNCHANGED <<inner, holder, target, draft, draft_slot, turn, mode, model, setting, edits>>
  BY ChatTypes, DriverAssumption DEF DrainStream
<1>1. /\ turn[t].sent \in 0 .. MaxTokens /\ taken \in [Turns -> 0 .. MaxTokens]
      /\ turn[t].sent \in Nat
  BY <1>0, ChatTypes, DriverTypes
<1>2. /\ taken' \in [Turns -> 0 .. MaxTokens] /\ taken'[t] = turn[t].sent
      /\ \A u \in Turns : u # t => taken'[u] = taken[u]
  BY <1>0, <1>1
<1>3. Clean(history') /\ LastOK'
  <2>1. CASE LastIsOpen(history)
    <3> DEFINE l == Last(history)
               e == [l EXCEPT !.text = l.text \o NewTokens(t), !.open = turn[t].end = "none"]
    <3>0. history # <<>>
      BY <2>1 DEF LastIsOpen
    <3>1. /\ l.of = t /\ e \in Entry /\ e.of = t
          /\ e.text = [j \in DOMAIN e.text |-> <<e.of, j>>]
          /\ Len(e.text) = turn[t].sent
          /\ e.open <=> turn[t].end = "none"
      BY <1>0, <2>1, <3>0, BatchIs
    <3>2. history' = WithLast(history, e)
      BY <1>0, <2>1 DEF Received
    <3>3. turn[t].pc # "off"
      BY <1>0 DEF ChatInv, TakenOK
    <3> HIDE DEF e, l
    <3>4. Clean(history') /\ Last(history') = e
      BY <3>0, <3>1, <3>2, WithLastIs
    <3>5. LastOK'
      BY <1>0, <1>2, <3>1, <3>3, <3>4 DEF LastOK
    <3> QED BY <3>4, <3>5
  <2>2. CASE ~LastIsOpen(history) /\ turn[t].end = "error" /\ history = <<>>
    <3>1. history' = <<System>>
      BY <1>0, <2>2 DEF Received
    <3>2. /\ Clean(<<System>>) /\ Last(<<System>>) = System
      <4>1. <<System>> \in Seq(Entry) /\ Len(<<System>>) = 1 /\ <<System>>[1] = System
            /\ DOMAIN <<System>> = 1 .. 1
        BY MessageTypes
      <4>2. System.text = [j \in DOMAIN System.text |-> <<System.of, j>>]
        <5>1. System.text = <<>> /\ DOMAIN <<>> = {}
          BY MessageTypes
        <5> QED BY <5>1
      <4> QED BY <4>1, <4>2 DEF Clean, Last
    <3> QED BY <3>1, <3>2, MessageTypes DEF LastOK
  <2>3. CASE ~LastIsOpen(history) /\ ~(turn[t].end = "error" /\ history = <<>>)
    <3>1. history' = history
      BY <1>0, <2>3 DEF Received
    <3>2. LastOK'
      BY <1>0, <1>2, <2>3, <3>1 DEF ChatInv, LastOK, LastIsOpen
    <3> QED BY <3>1, <3>2, CleanIs
  <2> QED BY <2>1, <2>2, <2>3
<1>4. TypeOK' /\ Len(target') <= MaxTokens + 1
  BY <1>0, <1>2, <1>3 DEF ChatInv, TypeOK, DriverTypeOK, Clean, Entry
<1>5. \A u \in Turns : ThreadOK(u)'
  BY <1>0 DEF ChatInv, ThreadOK
<1>6. TakenOK'
  <2>1. \A u \in Turns : taken'[u] <= turn'[u].sent
    BY <1>0, <1>1, <1>2 DEF ChatInv, TakenOK
  <2>2. streaming' # 0 => turn'[streaming'].pc # "off"
    BY <1>0 DEF ChatInv, TakenOK
  <2> QED BY <2>1, <2>2 DEF TakenOK
<1>7. OwnPrefix'
  BY <1>3 DEF Clean, OwnPrefix
<1> QED BY <1>3, <1>4, <1>5, <1>6, <1>7 DEF ChatInv

-----------------------------------------------------------------------------
(* The inductive argument.                                                    *)

LEMMA InitKeeps == Init => ChatInv
<1> SUFFICES ASSUME Init PROVE ChatInv
  OBVIOUS
<1>0. /\ MaxTokens \in Nat \ {0} /\ Turns \subseteq Nat \ {0}
      /\ Mode0 \in Kinds /\ Model0 \in Models /\ MaxEdits \in Nat
  BY DriverAssumption, ChatAssumption
<1>1. /\ history = <<System>> /\ <<System>> \in Seq(Entry) /\ Last(history) = System
      /\ DOMAIN history = 1 .. 1 /\ history[1] = System
  <2>1. history = <<System>> /\ Len(<<System>>) = 1 /\ <<System>>[1] = System
    BY DEF Init
  <2>2. <<System>> \in Seq(Entry)
    BY MessageTypes
  <2> QED BY <2>1, <2>2 DEF Last
<1>2. Target0 \in Seq(Peers) /\ Len(Target0) <= MaxTokens + 1
  <2>1. <<>> \in Seq(Peers) /\ Len(<<>>) = 0
    OBVIOUS
  <2>2. CASE Target0 = <<>>
    BY <1>0, <2>1, <2>2
  <2>3. CASE Target0 \in Targets
    BY <2>3, DriverAssumption, Zenon
  <2> QED BY <2>2, <2>3, DriverAssumption
<1>3. /\ Idle \in Turn /\ Idle.pc = "off" /\ Idle.sent = 0 /\ Idle.lifted = None
  <2>1. <<>> \in Seq(Peers) /\ 0 \in 0 .. MaxTokens
    BY <1>0
  <2> QED BY <2>1 DEF Idle, Turn, Kinds, Steps
<1> HIDE DEF Idle
<1>4. /\ turn = [t \in Turns |-> Idle] /\ taken = [t \in Turns |-> 0] /\ streaming = 0
      /\ holder = [k \in Kinds |-> 0] /\ inner = [k \in Kinds |-> None]
      /\ target = Target0 /\ draft = Draft0 /\ draft_slot = None
      /\ mode = Mode0 /\ model = Model0 /\ setting = {} /\ edits = 0
  BY DEF Init, DriverInit
<1>5. TypeOK
  <2>1. Draft0 \in Drafts \cup {None} /\ 0 \in 0 .. MaxTokens /\ 0 \in 0 .. MaxEdits
    BY <1>0, DriverAssumption
  <2> QED BY <1>0, <1>1, <1>2, <1>3, <1>4, <2>1 DEF TypeOK, DriverTypeOK, Entry
<1>6. ASSUME NEW t \in Turns PROVE ThreadOK(t)
  <2>1. turn[t] = Idle /\ \A k \in Kinds : holder[k] # t
    BY <1>0, <1>4
  <2> QED BY <1>3, <2>1 DEF ThreadOK, Holding
<1>7. OwnPrefix
  <2>1. System.text = [j \in DOMAIN System.text |-> <<System.of, j>>]
    <3>1. System.text = <<>> /\ DOMAIN <<>> = {}
      BY MessageTypes
    <3> QED BY <3>1
  <2> QED BY <1>1, <2>1 DEF OwnPrefix
<1>8. LastOK /\ TakenOK
  BY <1>1, <1>3, <1>4, MessageTypes DEF LastOK, TakenOK
<1> QED BY <1>2, <1>4, <1>5, <1>6, <1>7, <1>8 DEF ChatInv

LEMMA NextKeeps == ChatInv /\ [Next]_vars => ChatInv'
<1> SUFFICES ASSUME ChatInv, [Next]_vars PROVE ChatInv'
  OBVIOUS
<1>1. CASE \E t \in Turns : Submit(t) \/ Thread(t)
  BY <1>1, SubmitKeeps, ThreadKeeps
<1>2. CASE DrainStream \/ StopKey \/ Clear
  BY <1>2, DrainStreamKeeps, StopKeyKeeps, ClearKeeps
<1>3. CASE \/ Notice \/ JobReport
           \/ \E m \in Kinds, mo \in Models : Choose(m, mo)
           \/ \E r \in Targets \cup {<<>>} : Peer(r)
           \/ (\E d \in Drafts \cup {None} : Draft(d)) \/ DraftIsSet
  BY <1>3, SettingsKeep
<1>4. CASE UNCHANGED vars
  <2>1. UNCHANGED <<inner, holder, target, draft, draft_slot, turn, streaming, history, taken,
                    mode, model, setting, edits>>
    BY <1>4 DEF vars, driverVars, chatVars
  <2> QED BY <2>1 DEF ChatInv, TypeOK, DriverTypeOK, ThreadOK, OwnPrefix, LastOK, TakenOK
<1> QED BY <1>1, <1>2, <1>3, <1>4 DEF Next, Loop

LEMMA ChatInvariant == Spec => []ChatInv
<1> QED BY InitKeeps, NextKeeps, PTL DEF Spec

\* What stands in a reply is a beginning, without a gap, of what its own turn
\* generated, whatever is submitted, stopped or cleared meanwhile (drain_stream,
\* submit).
THEOREM RepliesAreTheirOwn == Spec => []OwnPrefix
<1>1. ChatInv => OwnPrefix
  BY DEF ChatInv
<1> QED BY <1>1, ChatInvariant, PTL

\* A reply that is still last when its turn was received to the end is complete
\* and closed (drain_stream).
THEOREM LastReplyComplete == Spec => []LastReplyWhole
<1>1. ChatInv => LastReplyWhole
  <2> SUFFICES ASSUME ChatInv, history # <<>>, Last(history).role = "assistant",
                      streaming = 0, taken[Last(history).of] = turn[Last(history).of].sent
               PROVE /\ Len(Last(history).text) = turn[Last(history).of].sent
                     /\ ~Last(history).open
    BY DEF LastReplyWhole
  <2> QED BY DriverAssumption DEF ChatInv, LastOK
<1> QED BY <1>1, ChatInvariant, PTL

\* A turn that holds the mutex of the model has a model, and a draft that was
\* lifted out of its slot is in the hands of the turn that holds the chain's
\* mutex; every variable has its type (run, run_blocking).
THEOREM ModelStaysLoaded == Spec => []NeverUnloaded
<1>1. ChatInv => NeverUnloaded
  <2> SUFFICES ASSUME ChatInv, NEW t \in Turns
               PROVE /\ holder[turn[t].kind] = t => turn[t].uses # None
                     /\ turn[t].lifted # None => holder["chain"] = t
    BY DEF NeverUnloaded, ChatInv
  <2>1. ThreadOK(t) /\ turn[t].kind \in Kinds
    BY DriverTypes
  <2> QED BY <2>1 DEF ThreadOK, Holding
<1> QED BY <1>1, ChatInvariant, PTL

-----------------------------------------------------------------------------
(* The model picker.                                                          *)

\* A finite set in some order: all of its elements, and no others.
LEMMA SetToSeqIs ==
  ASSUME NEW S, IsFiniteSet(S)
  PROVE /\ SetToSeq(S) \in Seq(S)
        /\ \A x \in S : \E i \in 1 .. Len(SetToSeq(S)) : SetToSeq(S)[i] = x
<1> DEFINE n == Cardinality(S)
<1>0. n \in Nat /\ IsFiniteSet(1 .. n) /\ Cardinality(1 .. n) = n
  <2>1. n \in Nat
    BY FS_CardinalityType
  <2> HIDE DEF n
  <2>2. IsFiniteSet(1 .. n) /\ Cardinality(1 .. n) = IF 1 > n THEN 0 ELSE n - 1 + 1
    BY <2>1, FS_Interval
  <2> QED BY <2>1, <2>2
<1>1. \E f \in [1 .. n -> S] : IsInjective(f)
  <2>1. ExistsBijection(1 .. n, S)
    BY FS_CardinalityType
  <2> HIDE DEF n
  <2> QED BY <2>1 DEF ExistsBijection, Bijection, Injection, IsInjective
<1>2. SetToSeq(S) \in [1 .. n -> S] /\ IsInjective(SetToSeq(S))
  <2> HIDE DEF n
  <2>1. SetToSeq(S) = CHOOSE f \in [1 .. n -> S] : IsInjective(f)
    BY DEF SetToSeq, n
  <2> QED BY <1>1, <2>1
<1> DEFINE s == SetToSeq(S)
<1>3. s \in Surjection(1 .. n, S)
  <2>1. s \in Injection(1 .. n, S)
    BY <1>2 DEF Injection, IsInjective
  <2> HIDE DEF s
  <2>2. Cardinality(1 .. n) = Cardinality(S)
    BY <1>0
  <2> QED BY <2>1, <2>2, FS_Injection
<1>4. s \in Seq(S) /\ Len(s) = n
  <2> HIDE DEF n, s
  <2> QED BY <1>0, <1>2 DEF s
<1> HIDE DEF n, s
<1>5. \A x \in S : \E i \in 1 .. n : s[i] = x
  BY <1>3 DEF Surjection
<1> QED BY <1>4, <1>5 DEF s

\* The image of a finite set under a function.
LEMMA ImageFinite ==
  ASSUME NEW S, IsFiniteSet(S), NEW f, f = [x \in S |-> f[x]]
  PROVE IsFiniteSet({f[x] : x \in S})
<1> DEFINE T == {f[x] : x \in S}
<1>1. f \in [S -> T] /\ \A t \in T : \E x \in S : f[x] = t
  OBVIOUS
<1> HIDE DEF T
<1>2. f \in Surjection(S, T)
  BY <1>1 DEF Surjection
<1>3. IsFiniteSet(T)
  BY <1>2, FS_Surjection
<1> QED BY <1>3 DEF T

\* What a row of the picker may be: a local one of a model the last look at the
\* directory found usable, a swarm one as the cache has it, one of the catalog.
PickerRow(r, usable, sw) ==
  /\ r \in Row
  /\ r.kind = "local" => r.model \in usable
  /\ r.kind = "swarm" => r.model \in DOMAIN sw /\ r.enabled = sw[r.model]

\* The fields of a row, and of each kind of row.
LEMMA RowFields ==
  ASSUME NEW kind \in {"local", "swarm", "hub"}, NEW m \in Names, NEW enabled \in BOOLEAN,
         NEW contribute \in BOOLEAN
  PROVE /\ RowOf(kind, m, enabled, contribute) \in Row
        /\ RowOf(kind, m, enabled, contribute).kind = kind
        /\ RowOf(kind, m, enabled, contribute).model = m
        /\ RowOf(kind, m, enabled, contribute).enabled = enabled
BY DEF RowOf, Row

LEMMA RowKinds ==
  ASSUME NEW m \in Names
  PROVE /\ LocalRow(m) \in Row /\ LocalRow(m).kind = "local"
        /\ LocalRow(m).model = m
        /\ HubRow(m) \in Row /\ HubRow(m).kind = "hub"
        /\ HubRow(m).model = m
<1> DEFINE c == m \in Catalog
           f == m \in Fits
           yes == TRUE
<1>1. c \in BOOLEAN /\ f \in BOOLEAN /\ yes \in BOOLEAN
  OBVIOUS
<1>2. LocalRow(m) = RowOf("local", m, yes, c)
  BY DEF LocalRow
<1>3. HubRow(m) = RowOf("hub", m, f, f)
  BY DEF HubRow
<1> HIDE DEF c, f, yes
<1>4. /\ RowOf("local", m, yes, c) \in Row
      /\ RowOf("local", m, yes, c).kind = "local"
      /\ RowOf("local", m, yes, c).model = m
  BY <1>1, RowFields
<1>5. /\ RowOf("hub", m, f, f) \in Row
      /\ RowOf("hub", m, f, f).kind = "hub" /\ RowOf("hub", m, f, f).model = m
  BY <1>1, RowFields
<1> QED BY <1>2, <1>3, <1>4, <1>5

\* The rows are such rows, and every model that is usable, and every model of the
\* catalog that is not listed, has one.
LEMMA RowsAre ==
  ASSUME NEW sc \in [listed : SUBSET Names, usable : SUBSET Names],
         NEW sw \in Coverage
  PROVE /\ build_rows(sc, sw) \in Seq(Row)
        /\ \A i \in 1 .. Len(build_rows(sc, sw)) :
             PickerRow(build_rows(sc, sw)[i], sc.usable, sw)
        /\ \A m \in sc.usable \cup (Catalog \ sc.listed) :
             \E i \in 1 .. Len(build_rows(sc, sw)) : build_rows(sc, sw)[i].model = m
<1>0. /\ Catalog \subseteq Names /\ IsFiniteSet(Names)
      /\ sc.usable \subseteq Names /\ sc.listed \subseteq Names
  BY PickerAssumption DEF PickerAssumption
<1>1. PICK S \in SUBSET (Names \ Catalog) : sw \in [S -> BOOLEAN]
  BY DEF Coverage
<1>2. IsFiniteSet(sc.usable) /\ IsFiniteSet(DOMAIN sw \ Catalog) /\ IsFiniteSet(Catalog \ sc.listed)
  BY <1>0, <1>1, FS_Subset
<1> DEFINE A == {LocalRow(m) : m \in sc.usable}
           B == {SwarmRow(sw, m) : m \in DOMAIN sw \ Catalog}
           C == {HubRow(m) : m \in Catalog \ sc.listed}
           Good(r) == PickerRow(r, sc.usable, sw)
           Named(T, M) == \A m \in M : \E r \in T : r.model = m
<1>3. IsFiniteSet(A) /\ (\A r \in A : Good(r)) /\ Named(A, sc.usable)
  <2>1. IsFiniteSet(A)
    <3> DEFINE f == [m \in sc.usable |-> LocalRow(m)]
    <3>1. f = [m \in sc.usable |-> f[m]] /\ A = {f[m] : m \in sc.usable}
      OBVIOUS
    <3> HIDE DEF f, A
    <3> QED BY <1>2, <3>1, ImageFinite
  <2>2. \A r \in A : Good(r)
    <3> SUFFICES ASSUME NEW m \in sc.usable PROVE Good(LocalRow(m))
      OBVIOUS
    <3>1. m \in Names
      BY <1>0
    <3> QED BY <3>1, RowKinds DEF PickerRow
  <2>3. Named(A, sc.usable)
    <3> SUFFICES ASSUME NEW m \in sc.usable PROVE \E r \in A : r.model = m
      OBVIOUS
    <3>1. m \in Names /\ LocalRow(m) \in A
      BY <1>0
    <3> QED BY <3>1, RowKinds
  <2> QED BY <2>1, <2>2, <2>3
<1>4. IsFiniteSet(B) /\ \A r \in B : Good(r)
  <2>1. IsFiniteSet(B)
    <3> DEFINE f == [m \in DOMAIN sw \ Catalog |-> SwarmRow(sw, m)]
    <3>1. f = [m \in DOMAIN sw \ Catalog |-> f[m]] /\ B = {f[m] : m \in DOMAIN sw \ Catalog}
      OBVIOUS
    <3> HIDE DEF f, B
    <3> QED BY <1>2, <3>1, ImageFinite
  <2>2. \A r \in B : Good(r)
    <3> SUFFICES ASSUME NEW m \in DOMAIN sw \ Catalog PROVE Good(SwarmRow(sw, m))
      OBVIOUS
    <3>1. m \in Names /\ sw[m] \in BOOLEAN /\ m \in DOMAIN sw
      BY <1>1
    <3>2. SwarmRow(sw, m) = RowOf("swarm", m, sw[m], TRUE)
      BY DEF SwarmRow
    <3> DEFINE e == sw[m]
               yes == TRUE
               r == RowOf("swarm", m, e, yes)
    <3>3. e \in BOOLEAN /\ yes \in BOOLEAN
      BY <3>1
    <3> HIDE DEF e, yes
    <3>4. r \in Row /\ r.kind = "swarm" /\ r.model = m /\ r.enabled = e
      BY <3>1, <3>3, RowFields
    <3> HIDE DEF r
    <3> QED BY <3>1, <3>2, <3>4 DEF PickerRow, r, e, yes
  <2> QED BY <2>1, <2>2
<1>5. IsFiniteSet(C) /\ (\A r \in C : Good(r)) /\ Named(C, Catalog \ sc.listed)
  <2>1. IsFiniteSet(C)
    <3> DEFINE f == [m \in Catalog \ sc.listed |-> HubRow(m)]
    <3>1. f = [m \in Catalog \ sc.listed |-> f[m]] /\ C = {f[m] : m \in Catalog \ sc.listed}
      OBVIOUS
    <3> HIDE DEF f, C
    <3> QED BY <1>2, <3>1, ImageFinite
  <2>2. \A r \in C : Good(r)
    <3> SUFFICES ASSUME NEW m \in Catalog \ sc.listed PROVE Good(HubRow(m))
      OBVIOUS
    <3>1. m \in Names
      BY <1>0
    <3> QED BY <3>1, RowKinds DEF PickerRow
  <2>3. Named(C, Catalog \ sc.listed)
    <3> SUFFICES ASSUME NEW m \in Catalog \ sc.listed PROVE \E r \in C : r.model = m
      OBVIOUS
    <3>1. m \in Names /\ HubRow(m) \in C
      BY <1>0
    <3> QED BY <3>1, RowKinds
  <2> QED BY <2>1, <2>2, <2>3
<1> DEFINE a == SetToSeq(A)
           b == SetToSeq(B)
           c == SetToSeq(C)
<1>6. build_rows(sc, sw) = a \o b \o c
  BY DEF build_rows
<1> HIDE DEF A, B, C, Good
<1>7. /\ a \in Seq(A) /\ \A r \in A : \E i \in 1 .. Len(a) : a[i] = r
      /\ b \in Seq(B)
      /\ c \in Seq(C) /\ \A r \in C : \E i \in 1 .. Len(c) : c[i] = r
  BY <1>3, <1>4, <1>5, SetToSeqIs
<1> HIDE DEF a, b, c
<1> DEFINE rows == a \o b \o c
<1>8. /\ \A i \in 1 .. Len(rows) : rows[i] \in A \cup B \cup C
      /\ \A r \in A \cup C : \E i \in 1 .. Len(rows) : rows[i] = r
      /\ rows \in Seq(A \cup B \cup C)
  <2>1. /\ Len(rows) = Len(a) + Len(b) + Len(c) /\ rows \in Seq(A \cup B \cup C)
        /\ Len(a) \in Nat /\ Len(b) \in Nat /\ Len(c) \in Nat
    BY <1>7
  <2>2. \A i \in 1 .. Len(a) : i \in 1 .. Len(rows) /\ rows[i] = a[i]
    BY <1>7, <2>1
  <2>3. \A i \in 1 .. Len(c) : /\ Len(a) + Len(b) + i \in 1 .. Len(rows)
                               /\ rows[Len(a) + Len(b) + i] = c[i]
    BY <1>7, <2>1
  <2> HIDE DEF rows
  <2>4. \A i \in 1 .. Len(rows) : rows[i] \in A \cup B \cup C
    BY <2>1
  <2>5. ASSUME NEW r \in A \cup C PROVE \E i \in 1 .. Len(rows) : rows[i] = r
    BY <1>7, <2>2, <2>3
  <2> QED BY <2>1, <2>4, <2>5
<1> HIDE DEF rows
<1>9. \A i \in 1 .. Len(rows) : Good(rows[i])
  BY <1>3, <1>4, <1>5, <1>8
<1>10. rows \in Seq(Row)
  <2>1. \A r \in A \cup B \cup C : r \in Row
    BY <1>3, <1>4, <1>5 DEF Good, PickerRow
  <2> QED BY <1>8, <2>1
<1>11. \A m \in sc.usable \cup (Catalog \ sc.listed) : \E i \in 1 .. Len(rows) : rows[i].model = m
  <2> SUFFICES ASSUME NEW m \in sc.usable \cup (Catalog \ sc.listed)
               PROVE \E i \in 1 .. Len(rows) : rows[i].model = m
    OBVIOUS
  <2>1. PICK r \in A \cup C : r.model = m
    BY <1>3, <1>5
  <2> QED BY <1>8, <2>1
<1> QED BY <1>6, <1>9, <1>10, <1>11 DEF Good, rows
\* A browser of rows selects one of them, if there is one.
ViewOK(v) ==
  /\ v \in [rows : Seq(Row), sel : Nat]
  /\ v.sel \in 0 .. Len(v.rows)
  /\ v.rows # <<>> => v.sel \in 1 .. Len(v.rows)

LEMMA ShownIs ==
  ASSUME NEW rows \in Seq(Row)
  PROVE  ViewOK(Shown(rows)) /\ Shown(rows).rows = rows
<1> DEFINE I == {i \in 1 .. Len(rows) : rows[i].enabled}
           sel == Shown(rows).sel
<1>1. Shown(rows).rows = rows /\ Shown(rows) = [rows |-> rows, sel |-> sel]
  BY DEF Shown
<1>2. Len(rows) \in Nat /\ DOMAIN rows = 1 .. Len(rows) /\ (rows # <<>> => 1 \in 1 .. Len(rows))
  OBVIOUS
<1>3. I # {} => Min(I) \in I
  <2>1. I \subseteq Nat
    OBVIOUS
  <2> HIDE DEF I
  <2>2. I # {} => \E n \in I : \A m \in I : n <= m
    BY <2>1, Least
  <2> QED BY <2>2 DEF Min
<1>4. sel = IF rows = <<>> THEN 0 ELSE IF I # {} THEN Min(I) ELSE 1
  BY <1>2 DEF Shown, SelectInSeq
<1>5. sel \in 0 .. Len(rows) /\ (rows # <<>> => sel \in 1 .. Len(rows))
  <2>1. I \subseteq 1 .. Len(rows)
    OBVIOUS
  <2> HIDE DEF I, sel
  <2> QED BY <1>2, <1>3, <1>4, <2>1
<1> HIDE DEF sel
<1> QED BY <1>1, <1>2, <1>5 DEF ViewOK

-----------------------------------------------------------------------------
(* The invariant of the picker.                                               *)

\* Every row on the screen is one that may be shown, a local one of a model that
\* is complete on disk.
RowsOK ==
  \A i \in 1 .. Len(browser.rows) :
    PickerRow(browser.rows[i], {m \in Names : Usable(m)}, swarm)

\* The tokenizer of a model is there before its weights.
FilesOK ==
  /\ \A m \in Names : disk[m].gguf => disk[m].tok
  /\ \A i \in 1 .. Len(tasks) :
       /\ tasks[i].step \in {"gguf", "done"} => disk[tasks[i].model].tok
       /\ tasks[i].step = "done" => disk[tasks[i].model].gguf

\* The one download at work is the one that is listened to, and what is complete
\* and not listed is what it has still to report.
ReportOK ==
  /\ \A i \in 1 .. Len(tasks) : tasks[i].step \in {"tokenizer", "gguf"} => i = download
  /\ \A m \in scan.usable : Usable(m)
  /\ \A m \in Names : Usable(m) => \/ m \in scan.usable
                                   \/ /\ download # 0
                                      /\ tasks[download].model = m
                                      /\ tasks[download].step = "done"
  /\ chosen.mode = "local" => chosen.model \in Names /\ Usable(chosen.model)

PickerInv == PickerTypeOK /\ ViewOK(browser) /\ RowsOK /\ FilesOK /\ ReportOK

\* The state of the picker, typed.
LEMMA PickerTypes ==
  ASSUME PickerInv
  PROVE /\ disk \in [Names -> [gguf : BOOLEAN, tok : BOOLEAN]] /\ kept \subseteq Names
        /\ scan \in [listed : SUBSET Names, usable : SUBSET Names]
        /\ swarm \in Coverage
        /\ refresh \in [state : {"none", "asked", "answered"}, models : Coverage]
        /\ chosen \in [mode : {"none", "local", "network"}, model : Names \cup {"none"}]
        /\ tasks \in Seq([model : Names, step : {"tokenizer", "gguf", "done", "error"}])
        /\ download \in 0 .. Len(tasks) /\ Len(tasks) \in Nat
        /\ asked \in 0 .. MaxRefresh
BY DEF PickerInv, PickerTypeOK

LEMMA TaskTypes ==
  ASSUME PickerInv, NEW i \in 1 .. Len(tasks)
  PROVE /\ tasks[i] \in [model : Names, step : {"tokenizer", "gguf", "done", "error"}]
        /\ tasks[i].model \in Names
<1> DEFINE Task == [model : Names, step : {"tokenizer", "gguf", "done", "error"}]
<1>1. tasks \in Seq(Task)
  BY PickerTypes
<1> HIDE DEF Task
<1>2. tasks[i] \in Task
  BY <1>1
<1> QED BY <1>2 DEF Task

\* A look at the directory.
LEMMA ScannedIs ==
        /\ Scanned \in [listed : SUBSET Names, usable : SUBSET Names]
        /\ \A m \in Names : m \in Scanned.usable <=> Usable(m)
        /\ \A m \in Names : m \in Scanned.listed <=> disk[m].gguf
BY DEF Scanned

\* Without rows, nothing is selected and nothing can be wrong with them.
LEMMA ChatIs ==
  /\ ViewOK(Chat) /\ Chat.rows = <<>> /\ Len(<<>>) = 0
  /\ Quiet.models \in Coverage
  /\ Quiet \in [state : {"none", "asked", "answered"}, models : Coverage]
<1>1. Chat = [rows |-> <<>>, sel |-> 0] /\ <<>> \in Seq(Row) /\ Len(<<>>) = 0
  BY DEF Chat
<1>2. Quiet.models \in [{} -> BOOLEAN] /\ {} \in SUBSET (Names \ Catalog)
  BY DEF Quiet
<1>3. Quiet.models \in Coverage
  BY <1>2 DEF Coverage
<1>4. Quiet = [state |-> "none", models |-> Quiet.models]
  BY DEF Quiet
<1> QED BY <1>1, <1>3, <1>4 DEF ViewOK

\* The current row of an open picker.
LEMMA CurrentIs ==
  ASSUME PickerInv, InBrowser
  PROVE /\ Current \in Row
        /\ Current.kind = "local" => Usable(Current.model)
        /\ Current.model \in Names
<1>1. browser.sel \in 1 .. Len(browser.rows) /\ Current = browser.rows[browser.sel]
  BY DEF PickerInv, ViewOK, InBrowser, Current
<1>2. PickerRow(Current, {m \in Names : Usable(m)}, swarm)
  BY <1>1 DEF PickerInv, RowsOK
<1> QED BY <1>2 DEF PickerRow, Row
LEMMA PickerInvInit == PickerInit => PickerInv
<1> SUFFICES ASSUME PickerInit PROVE PickerInv
  OBVIOUS
<1>1. /\ disk \in [Names -> [gguf : BOOLEAN, tok : BOOLEAN]]
      /\ \A m \in Names : disk[m].gguf => disk[m].tok
  <2> DEFINE no == [gguf |-> FALSE, tok |-> FALSE]
             yes == [gguf |-> TRUE, tok |-> TRUE]
  <2>1. disk \in [Names -> {no, yes}]
    BY DEF PickerInit
  <2>2. /\ no \in [gguf : BOOLEAN, tok : BOOLEAN] /\ (no.gguf => no.tok)
        /\ yes \in [gguf : BOOLEAN, tok : BOOLEAN] /\ (yes.gguf => yes.tok)
    OBVIOUS
  <2> HIDE DEF no, yes
  <2>3. \A m \in Names : disk[m] = no \/ disk[m] = yes
    BY <2>1
  <2>4. disk \in [Names -> [gguf : BOOLEAN, tok : BOOLEAN]]
    BY <2>1, <2>2
  <2> QED BY <2>2, <2>3, <2>4
<1>2. /\ kept \subseteq Names /\ scan = Scanned /\ swarm = Quiet.models
      /\ refresh = Quiet /\ browser = Chat /\ chosen = NoModel
      /\ tasks = <<>> /\ download = 0 /\ asked = 0 /\ MaxRefresh \in Nat
  BY PickerAssumption DEF PickerInit, PickerAssumption
<1>3. PickerTypeOK
  <2>1. /\ <<>> \in Seq([model : Names, step : {"tokenizer", "gguf", "done", "error"}])
        /\ Len(<<>>) = 0 /\ 0 \in 0 .. Len(<<>>) /\ asked \in 0 .. MaxRefresh
    BY <1>2
  <2>2. chosen \in [mode : {"none", "local", "network"}, model : Names \cup {"none"}]
    BY <1>2 DEF NoModel
  <2>3. browser.rows \in Seq(Row) /\ browser.sel \in 0 .. Len(browser.rows)
    BY <1>2, ChatIs DEF ViewOK
  <2> QED BY <1>1, <1>2, <2>1, <2>2, <2>3, ChatIs, ScannedIs DEF PickerTypeOK
<1>4. ViewOK(browser) /\ RowsOK
  BY <1>2, ChatIs DEF RowsOK
<1>5. FilesOK
  BY <1>1, <1>2 DEF FilesOK
<1>6. ReportOK
  <2>1. chosen.mode = "none"
    BY <1>2 DEF NoModel
  <2>2. scan.usable \subseteq Names
    BY <1>2, ScannedIs
  <2> QED BY <1>2, <2>1, <2>2, ScannedIs DEF ReportOK
<1> QED BY <1>3, <1>4, <1>5, <1>6 DEF PickerInv

\* What the picker shows after a look at the directory and with what is known of
\* the swarm.
LEMMA ShowsRows ==
  ASSUME PickerInv,
         NEW sc \in [listed : SUBSET Names, usable : SUBSET Names],
         \A m \in sc.usable : Usable(m), NEW sw \in Coverage
  PROVE LET v == Shown(build_rows(sc, sw)) IN
        /\ ViewOK(v)
        /\ \A i \in 1 .. Len(v.rows) :
             PickerRow(v.rows[i], {m \in Names : Usable(m)}, sw)
<1> DEFINE rows == build_rows(sc, sw)
<1>1. rows \in Seq(Row) /\ \A i \in 1 .. Len(rows) : PickerRow(rows[i], sc.usable, sw)
  BY RowsAre
<1> HIDE DEF rows
<1>2. ViewOK(Shown(rows)) /\ Shown(rows).rows = rows
  BY <1>1, ShownIs
<1>3. sc.usable \subseteq {m \in Names : Usable(m)}
  OBVIOUS
<1>4. \A i \in 1 .. Len(rows) : PickerRow(rows[i], {m \in Names : Usable(m)}, sw)
  BY <1>1, <1>3 DEF PickerRow
<1> QED BY <1>2, <1>4 DEF rows

LEMMA OpenBrowserSteps ==
  ASSUME PickerInv, OpenBrowser
  PROVE PickerInv'
<1>1. /\ scan' = Scanned /\ asked' = asked + 1 /\ asked < MaxRefresh
      /\ browser' = Shown(build_rows(scan', swarm))
      /\ refresh' = [Quiet EXCEPT !.state = "asked"]
      /\ UNCHANGED <<disk, kept, swarm, chosen, tasks, download>>
  BY DEF OpenBrowser
<1>2. /\ scan' \in [listed : SUBSET Names, usable : SUBSET Names]
      /\ \A m \in Names : m \in scan'.usable <=> Usable(m)
  BY <1>1, ScannedIs
<1>3. \A m : Usable(m)' <=> Usable(m)
  BY <1>1 DEF Usable
<1>4. ViewOK(browser') /\ RowsOK'
  <2>1. \A m \in scan'.usable : Usable(m)
    BY <1>2
  <2>2. /\ ViewOK(browser')
        /\ \A i \in 1 .. Len(browser'.rows) :
             PickerRow(browser'.rows[i], {m \in Names : Usable(m)}, swarm)
    BY <1>1, <1>2, <2>1, PickerTypes, ShowsRows
  <2>3. {m \in Names : Usable(m)} = {m \in Names : Usable(m)'}
    BY <1>3
  <2> QED BY <1>1, <2>2, <2>3 DEF RowsOK
<1>5. PickerTypeOK'
  <2>1. asked' \in 0 .. MaxRefresh
    BY <1>1, PickerTypes, PickerAssumption DEF PickerAssumption
  <2>2. refresh' \in [state : {"none", "asked", "answered"}, models : Coverage]
    BY <1>1, ChatIs
  <2>3. browser'.rows \in Seq(Row) /\ browser'.sel \in 0 .. Len(browser'.rows)
    BY <1>4 DEF ViewOK
  <2> QED BY <1>1, <1>2, <2>1, <2>2, <2>3, PickerTypes DEF PickerTypeOK
<1>6. FilesOK'
  BY <1>1 DEF PickerInv, FilesOK
<1>7. ReportOK'
  <2>1. scan'.usable \subseteq Names
    BY <1>2
  <2> QED BY <1>1, <1>2, <1>3, <2>1 DEF PickerInv, ReportOK
<1> QED BY <1>4, <1>5, <1>6, <1>7 DEF PickerInv, ViewOK

LEMMA RefreshAnswersSteps ==
  ASSUME PickerInv, RefreshAnswers
  PROVE PickerInv'
<1>1. PICK answer \in [kept \ Catalog -> BOOLEAN] :
        refresh' = [state |-> "answered", models |-> answer]
  BY DEF RefreshAnswers
<1>2. UNCHANGED <<disk, kept, scan, swarm, browser, chosen, tasks, download, asked>>
  BY DEF RefreshAnswers
<1>3. answer \in Coverage
  <2>1. kept \ Catalog \in SUBSET (Names \ Catalog)
    BY PickerTypes
  <2> QED BY <2>1 DEF Coverage
<1>4. refresh' \in [state : {"none", "asked", "answered"}, models : Coverage]
  BY <1>1, <1>3
<1>5. PickerTypeOK'
  BY <1>2, <1>4 DEF PickerInv, PickerTypeOK
<1>6. ViewOK(browser)' /\ RowsOK' /\ FilesOK' /\ ReportOK'
  BY <1>2 DEF PickerInv, ViewOK, RowsOK, FilesOK, ReportOK, Usable
<1> QED BY <1>5, <1>6 DEF PickerInv

LEMMA DrainSwarmSteps ==
  ASSUME PickerInv, DrainSwarm
  PROVE PickerInv'
<1>1. /\ swarm' = refresh.models /\ refresh' = Quiet
      /\ browser' = IF InBrowser THEN Shown(build_rows(scan, swarm')) ELSE browser
      /\ UNCHANGED <<disk, kept, scan, chosen, tasks, download, asked>>
  BY DEF DrainSwarm
<1>2. swarm' \in Coverage
  BY <1>1, PickerTypes
<1>3. \A m : Usable(m)' <=> Usable(m)
  BY <1>1 DEF Usable
<1>4. ViewOK(browser') /\ RowsOK'
  <2>1. CASE InBrowser
    <3>1. \A m \in scan.usable : Usable(m)
      BY DEF PickerInv, ReportOK
    <3>2. /\ ViewOK(browser')
          /\ \A i \in 1 .. Len(browser'.rows) :
               PickerRow(browser'.rows[i], {m \in Names : Usable(m)}, swarm')
      BY <1>1, <1>2, <2>1, <3>1, PickerTypes, ShowsRows
    <3>3. {m \in Names : Usable(m)} = {m \in Names : Usable(m)'}
      BY <1>3
    <3> QED BY <3>2, <3>3 DEF RowsOK
  <2>2. CASE ~InBrowser
    <3>1. browser' = browser /\ browser.rows = <<>> /\ Len(<<>>) = 0
      BY <1>1, <2>2 DEF InBrowser
    <3> QED BY <3>1 DEF RowsOK, PickerInv
  <2> QED BY <2>1, <2>2
<1>5. PickerTypeOK'
  <2>1. browser'.rows \in Seq(Row) /\ browser'.sel \in 0 .. Len(browser'.rows)
    BY <1>4 DEF ViewOK
  <2> QED BY <1>1, <1>2, <2>1, ChatIs, PickerTypes DEF PickerTypeOK
<1>6. FilesOK' /\ ReportOK'
  BY <1>1, <1>3 DEF PickerInv, FilesOK, ReportOK
<1> QED BY <1>4, <1>5, <1>6 DEF PickerInv, ViewOK

\* Steps of the picker's window alone: the rows stay, with another one selected, or
\* are closed.
LEMMA WindowSteps ==
  ASSUME PickerInv, ViewOK(browser'), browser'.rows = browser.rows \/ browser' = Chat,
         UNCHANGED <<disk, scan, swarm, refresh, tasks, download, asked>>,
         kept' \subseteq Names,
         chosen' \in [mode : {"none", "local", "network"}, model : Names \cup {"none"}],
         chosen'.mode = "local" => chosen'.model \in Names /\ Usable(chosen'.model)
  PROVE PickerInv'
<1>1. \A m : Usable(m)' <=> Usable(m)
  BY DEF Usable
<1>2. RowsOK'
  <2>1. {m \in Names : Usable(m)} = {m \in Names : Usable(m)'}
    BY <1>1
  <2>2. CASE browser'.rows = browser.rows
    BY <2>1, <2>2 DEF RowsOK, PickerInv
  <2>3. CASE browser' = Chat
    BY <2>3, ChatIs DEF RowsOK
  <2> QED BY <2>2, <2>3
<1>3. PickerTypeOK'
  <2>1. browser'.rows \in Seq(Row) /\ browser'.sel \in 0 .. Len(browser'.rows)
    BY DEF ViewOK
  <2> QED BY <2>1, PickerTypes DEF PickerTypeOK
<1>4. FilesOK'
  BY DEF PickerInv, FilesOK
<1>5. ReportOK'
  BY <1>1 DEF PickerInv, ReportOK
<1> QED BY <1>2, <1>3, <1>4, <1>5 DEF PickerInv, ViewOK

LEMMA MoveSteps ==
  ASSUME PickerInv, Move PROVE PickerInv'
<1>1. PICK i \in Selectable : browser' = [browser EXCEPT !.sel = i]
  BY DEF Move
<1>2. UNCHANGED <<disk, kept, scan, swarm, refresh, chosen, tasks, download, asked>>
  BY DEF Move
<1>3. browser \in [rows : Seq(Row), sel : Nat] /\ i \in 1 .. Len(browser.rows)
  BY DEF PickerInv, ViewOK, Selectable
<1>4. ViewOK(browser') /\ browser'.rows = browser.rows
  <2>1. browser' \in [rows : Seq(Row), sel : Nat] /\ browser'.sel = i
        /\ browser'.rows = browser.rows /\ Len(browser.rows) \in Nat
    BY <1>1, <1>3
  <2> QED BY <1>3, <2>1 DEF ViewOK
<1>5. /\ kept \subseteq Names
      /\ chosen \in [mode : {"none", "local", "network"}, model : Names \cup {"none"}]
      /\ chosen.mode = "local" => chosen.model \in Names /\ Usable(chosen.model)
  BY PickerTypes DEF PickerInv, ReportOK
<1> QED BY <1>2, <1>4, <1>5, WindowSteps

LEMMA CommitSteps ==
  ASSUME PickerInv,
         CloseBrowser \/ CommitLocal \/ CommitSwarm \/ Contribute
  PROVE PickerInv'
<1>1. /\ browser' = Chat /\ ViewOK(browser') /\ InBrowser
      /\ UNCHANGED <<disk, scan, swarm, refresh, tasks, download, asked>>
  BY ChatIs DEF CloseBrowser, CommitLocal, CommitSwarm, Contribute
<1>2. kept' \subseteq Names
  <2>1. kept \subseteq Names /\ Current.model \in Names
    BY <1>1, PickerTypes, CurrentIs
  <2>2. kept' \in {kept, kept \cup {Current.model}}
    BY DEF CloseBrowser, CommitLocal, CommitSwarm, Contribute
  <2> QED BY <2>1, <2>2
<1>3. /\ chosen' \in [mode : {"none", "local", "network"}, model : Names \cup {"none"}]
      /\ chosen'.mode = "local" => chosen'.model \in Names /\ Usable(chosen'.model)
  <2>1. CASE chosen' = chosen
    BY <2>1, PickerTypes DEF PickerInv, ReportOK
  <2>2. CASE chosen' = [mode |-> "network", model |-> Current.model]
    BY <1>1, <2>2, CurrentIs
  <2>3. CASE /\ Current.kind = "local"
             /\ chosen' = [mode |-> "local", model |-> Current.model]
    BY <1>1, <2>3, CurrentIs
  <2> QED BY <2>1, <2>2, <2>3 DEF CloseBrowser, CommitLocal,
                                  CommitSwarm, Contribute
<1> QED BY <1>1, <1>2, <1>3, WindowSteps
\* Steps that change neither the directory, nor the rows, but the downloads.
LEMMA StartInstallSteps ==
  ASSUME PickerInv, StartInstall PROVE PickerInv'
<1>1. /\ browser' = Chat /\ ViewOK(browser') /\ InBrowser
      /\ UNCHANGED <<disk, kept, scan, swarm, refresh, chosen, asked>>
  BY ChatIs DEF StartInstall
<1>2. kept \subseteq Names
      /\ chosen \in [mode : {"none", "local", "network"}, model : Names \cup {"none"}]
      /\ (chosen.mode = "local" => chosen.model \in Names /\ Usable(chosen.model))
  BY PickerTypes DEF PickerInv, ReportOK
<1>3. CASE download # 0
  <2>1. UNCHANGED <<tasks, download>>
    BY <1>3 DEF StartInstall
  <2> QED BY <1>1, <1>2, <2>1, WindowSteps
<1>4. CASE download = 0
  <2> DEFINE new == [model |-> Current.model, step |-> "tokenizer"]
             Task == [model : Names, step : {"tokenizer", "gguf", "done", "error"}]
  <2>1. tasks' = Append(tasks, new) /\ download' = Len(tasks')
    BY <1>4 DEF StartInstall
  <2>2. new \in Task /\ new.step = "tokenizer"
    BY <1>1, CurrentIs
  <2>3. tasks \in Seq(Task)
    BY PickerTypes
  <2> HIDE DEF new, Task
  <2>4. /\ tasks' \in Seq(Task) /\ Len(tasks) \in Nat /\ Len(tasks') = Len(tasks) + 1
        /\ \A i \in 1 .. Len(tasks) : tasks'[i] = tasks[i]
        /\ tasks'[Len(tasks) + 1] = new
        /\ \A i \in 1 .. Len(tasks') : i \in 1 .. Len(tasks) \/ i = Len(tasks) + 1
    BY <2>1, <2>2, <2>3
  <2>5. \A m : Usable(m)' <=> Usable(m)
    BY <1>1 DEF Usable
  <2>6. PickerTypeOK'
    <3>1. download' \in 0 .. Len(tasks')
      BY <2>1, <2>4
    <3>2. browser'.rows \in Seq(Row) /\ browser'.sel \in 0 .. Len(browser'.rows)
      BY <1>1 DEF ViewOK
    <3> QED BY <1>1, <2>4, <3>1, <3>2, PickerTypes DEF PickerTypeOK, Task
  <2>7. RowsOK'
    BY <1>1, ChatIs DEF RowsOK
  <2>8. FilesOK'
    BY <1>1, <2>2, <2>4 DEF PickerInv, FilesOK
  <2>9. ReportOK'
    <3>1. \A i \in 1 .. Len(tasks) : tasks[i].step \notin {"tokenizer", "gguf"}
      BY <1>4 DEF PickerInv, ReportOK
    <3>2. \A i \in 1 .. Len(tasks') : tasks'[i].step \in {"tokenizer", "gguf"} => i = download'
      BY <2>1, <2>4, <3>1
    <3>3. \A m \in Names : Usable(m) => m \in scan.usable
      BY <1>4 DEF PickerInv, ReportOK
    <3> QED BY <1>1, <2>5, <3>2, <3>3 DEF PickerInv, ReportOK
  <2> QED BY <1>1, <2>6, <2>7, <2>8, <2>9 DEF PickerInv, ViewOK
<1> QED BY <1>3, <1>4

\* A step of a download that is at work, which is the one that is listened to: its
\* next step is s, and a file that arrives takes nothing off the directory.
LEMMA TaskSteps ==
  ASSUME PickerInv, NEW i \in 1 .. Len(tasks), tasks[i].step \in {"tokenizer", "gguf"},
         NEW s \in {"gguf", "done", "error"}, tasks' = [tasks EXCEPT ![i].step = s],
         disk' \in [Names -> [gguf : BOOLEAN, tok : BOOLEAN]],
         \A m \in Names : Usable(m) => Usable(m)',
         \A m \in Names : Usable(m)' => \/ Usable(m)
                                        \/ m = tasks[i].model /\ s = "done",
         FilesOK', UNCHANGED <<kept, scan, swarm, refresh, browser, chosen, download, asked>>
  PROVE PickerInv'
<1> DEFINE Task == [model : Names, step : {"tokenizer", "gguf", "done", "error"}]
<1>1. tasks \in Seq(Task) /\ Len(tasks) \in Nat
  BY PickerTypes
<1>2. /\ tasks' \in Seq(Task) /\ Len(tasks') = Len(tasks)
      /\ \A j \in 1 .. Len(tasks) : /\ tasks'[j].model = tasks[j].model
                                    /\ tasks'[j].step = IF j = i THEN s ELSE tasks[j].step
  <2>1. /\ tasks[i] \in Task /\ [tasks[i] EXCEPT !.step = s] \in Task
        /\ [tasks[i] EXCEPT !.step = s].model = tasks[i].model
        /\ [tasks[i] EXCEPT !.step = s].step = s
    BY TaskTypes
  <2> HIDE DEF Task
  <2> QED BY <1>1, <2>1
<1> HIDE DEF Task
<1>3. i = download
  BY DEF PickerInv, ReportOK
<1>4. PickerTypeOK'
  BY <1>2, PickerTypes DEF PickerInv, PickerTypeOK, Task
<1>5. ViewOK(browser)' /\ RowsOK'
  <2>1. {m \in Names : Usable(m)} \subseteq {m \in Names : Usable(m)'}
    OBVIOUS
  <2>2. \A j \in 1 .. Len(browser.rows) :
          PickerRow(browser.rows[j], {m \in Names : Usable(m)'}, swarm)
    BY <2>1 DEF PickerInv, RowsOK, PickerRow
  <2> QED BY <2>2 DEF PickerInv, RowsOK, ViewOK
<1>6. ReportOK'
  <2>1. \A j \in 1 .. Len(tasks') : tasks'[j].step \in {"tokenizer", "gguf"} => j = download'
    BY <1>2 DEF PickerInv, ReportOK
  <2>2. scan.usable \subseteq Names
    BY PickerTypes
  <2>3. \A m \in scan'.usable : Usable(m)'
    BY <2>2 DEF PickerInv, ReportOK
  <2>4. ASSUME NEW m \in Names, Usable(m)'
        PROVE  \/ m \in scan'.usable
               \/ download' # 0 /\ tasks'[download'].model = m /\ tasks'[download'].step = "done"
    <3>1. CASE m = tasks[i].model /\ s = "done"
      BY <1>2, <1>3, <3>1
    <3>2. CASE Usable(m)
      <4>1. m \in scan.usable \/ tasks[download].step = "done"
        BY <3>2 DEF PickerInv, ReportOK
      <4>2. tasks[download].step # "done"
        BY <1>3
      <4> QED BY <4>1, <4>2
    <3> QED BY <2>4, <3>1, <3>2
  <2>5. chosen.mode = "local" => chosen.model \in Names /\ Usable(chosen.model)'
    <3>1. chosen.mode = "local" => chosen.model \in Names /\ Usable(chosen.model)
      BY DEF PickerInv, ReportOK
    <3> QED BY <3>1
  <2>6. (chosen.mode = "local" => chosen.model \in Names /\ Usable(chosen.model))'
    BY <2>5 DEF Usable
  <2> QED BY <2>1, <2>3, <2>4, <2>6 DEF ReportOK
<1> QED BY <1>4, <1>5, <1>6 DEF PickerInv

LEMMA DownloadFailsSteps ==
  ASSUME PickerInv, NEW i \in 1 .. Len(tasks), DownloadFails(i) PROVE PickerInv'
<1>1. /\ tasks[i].step \in {"tokenizer", "gguf"} /\ tasks' = [tasks EXCEPT ![i].step = "error"]
      /\ UNCHANGED <<disk, kept, scan, swarm, refresh, browser, chosen, download, asked>>
  BY DEF DownloadFails
<1>2. \A m : Usable(m)' <=> Usable(m)
  BY <1>1 DEF Usable
<1>3. FilesOK'
  <2>1. /\ Len(tasks') = Len(tasks)
        /\ \A j \in 1 .. Len(tasks) : /\ tasks'[j].model = tasks[j].model
                                      /\ tasks'[j].step = IF j = i THEN "error" ELSE tasks[j].step
    BY <1>1, PickerTypes
  <2> QED BY <1>1, <2>1 DEF PickerInv, FilesOK
<1>4. disk' \in [Names -> [gguf : BOOLEAN, tok : BOOLEAN]]
  BY <1>1, PickerTypes
<1> QED BY <1>1, <1>2, <1>3, <1>4, TaskSteps

LEMMA FileArrivesSteps ==
  ASSUME PickerInv, NEW i \in 1 .. Len(tasks), FileArrives(i) PROVE PickerInv'
<1> DEFINE m == tasks[i].model
<1>0. /\ tasks[i].step \in {"tokenizer", "gguf"} /\ m \in Names
      /\ disk \in [Names -> [gguf : BOOLEAN, tok : BOOLEAN]]
      /\ UNCHANGED <<kept, scan, swarm, refresh, browser, chosen, download, asked>>
  BY PickerTypes, TaskTypes DEF FileArrives
<1>1. disk[m] \in [gguf : BOOLEAN, tok : BOOLEAN]
  BY <1>0
<1>2. \A s \in {"gguf", "done"} : tasks' = [tasks EXCEPT ![i].step = s] =>
        /\ Len(tasks') = Len(tasks)
        /\ \A j \in 1 .. Len(tasks) : /\ tasks'[j].model = tasks[j].model
                                      /\ tasks'[j].step = IF j = i THEN s ELSE tasks[j].step
  BY PickerTypes
<1>3. CASE tasks[i].step = "tokenizer"
  <2>1. disk' = [disk EXCEPT ![m].tok = TRUE] /\ tasks' = [tasks EXCEPT ![i].step = "gguf"]
    BY <1>3 DEF FileArrives
  <2> HIDE DEF m
  <2>2. /\ disk' \in [Names -> [gguf : BOOLEAN, tok : BOOLEAN]]
        /\ \A n \in Names : /\ disk'[n].gguf = disk[n].gguf
                            /\ disk'[n].tok = IF n = m THEN TRUE ELSE disk[n].tok
    BY <1>0, <1>1, <2>1
  <2>3. \A n \in Names : disk[n].gguf => disk[n].tok
    BY DEF PickerInv, FilesOK
  <2>4. \A n \in Names : Usable(n)' <=> Usable(n)
    BY <2>2, <2>3 DEF Usable
  <2>5. FilesOK'
    <3>1. \A j \in 1 .. Len(tasks) : tasks[j].model \in Names
      BY TaskTypes
    <3> QED BY <1>2, <2>1, <2>2, <3>1 DEF PickerInv, FilesOK, m
  <2> QED BY <1>0, <2>1, <2>2, <2>4, <2>5, TaskSteps
<1>4. CASE tasks[i].step = "gguf"
  <2>1. disk' = [disk EXCEPT ![m].gguf = TRUE] /\ tasks' = [tasks EXCEPT ![i].step = "done"]
    BY <1>4 DEF FileArrives
  <2>2. disk[m].tok
    BY <1>4 DEF PickerInv, FilesOK
  <2> HIDE DEF m
  <2>3. /\ disk' \in [Names -> [gguf : BOOLEAN, tok : BOOLEAN]]
        /\ \A n \in Names : /\ disk'[n].tok = disk[n].tok
                            /\ disk'[n].gguf = IF n = m THEN TRUE ELSE disk[n].gguf
    BY <1>0, <1>1, <2>1
  <2>4. /\ \A n \in Names : Usable(n) => Usable(n)'
        /\ \A n \in Names : Usable(n)' => Usable(n) \/ n = m
    BY <2>3 DEF Usable
  <2>5. FilesOK'
    <3>1. \A j \in 1 .. Len(tasks) : tasks[j].model \in Names
      BY TaskTypes
    <3> QED BY <1>2, <2>1, <2>2, <2>3, <3>1 DEF PickerInv, FilesOK, m
  <2> QED BY <1>0, <2>1, <2>3, <2>4, <2>5, TaskSteps DEF m
<1> QED BY <1>0, <1>3, <1>4

LEMMA DrainDownloadSteps ==
  ASSUME PickerInv, DrainDownload PROVE PickerInv'
<1>1. /\ download # 0 /\ tasks[download].step \in {"done", "error"} /\ download' = 0
      /\ UNCHANGED <<disk, kept, swarm, refresh, browser, tasks, asked>>
      /\ download \in 1 .. Len(tasks)
  BY PickerTypes DEF DrainDownload
<1>2. \A m : Usable(m)' <=> Usable(m)
  BY <1>1 DEF Usable
<1>3. ViewOK(browser)' /\ RowsOK' /\ FilesOK'
  BY <1>1, <1>2 DEF PickerInv, ViewOK, RowsOK, FilesOK
<1>4. \A i \in 1 .. Len(tasks) : tasks[i].step \notin {"tokenizer", "gguf"}
  BY <1>1 DEF PickerInv, ReportOK
<1>5. CASE tasks[download].step = "done"
  <2>1. /\ scan' = Scanned
        /\ chosen' = [mode |-> "local", model |-> tasks[download].model]
    BY <1>5 DEF DrainDownload
  <2>2. tasks[download].model \in Names /\ Usable(tasks[download].model)
    BY <1>1, <1>5, TaskTypes DEF PickerInv, FilesOK, Usable
  <2>3. PickerTypeOK'
    <3>1. chosen' \in [mode : {"none", "local", "network"}, model : Names \cup {"none"}]
      BY <2>1, <2>2
    <3>2. download' \in 0 .. Len(tasks)
      BY <1>1, PickerTypes
    <3> QED BY <1>1, <2>1, <3>1, <3>2, ScannedIs, PickerTypes DEF PickerInv, PickerTypeOK
  <2>4. ReportOK'
    <3>1. scan'.usable \subseteq Names
      BY <2>1, ScannedIs
    <3>2. \A m \in Names : m \in scan'.usable <=> Usable(m)
      BY <2>1, ScannedIs
    <3>3. chosen'.model = tasks[download].model
      BY <2>1
    <3> QED BY <1>1, <1>2, <1>4, <2>2, <3>1, <3>2, <3>3 DEF ReportOK
  <2> QED BY <1>3, <2>3, <2>4 DEF PickerInv
<1>6. CASE tasks[download].step = "error"
  <2>1. UNCHANGED <<scan, chosen>>
    BY <1>6 DEF DrainDownload
  <2>2. PickerTypeOK'
    <3>1. download' \in 0 .. Len(tasks)
      BY <1>1, PickerTypes
    <3> QED BY <1>1, <2>1, <3>1, PickerTypes DEF PickerInv, PickerTypeOK
  <2>3. ReportOK'
    <3>1. \A m \in Names : Usable(m) => m \in scan.usable
      BY <1>6 DEF PickerInv, ReportOK
    <3> QED BY <1>1, <1>2, <1>4, <2>1, <3>1 DEF PickerInv, ReportOK
  <2> QED BY <1>3, <2>2, <2>3 DEF PickerInv
<1> QED BY <1>1, <1>5, <1>6

LEMMA RestartSteps ==
  ASSUME PickerInv, Restart PROVE PickerInv'
<1> DEFINE Task == [model : Names, step : {"tokenizer", "gguf", "done", "error"}]
           After(i) == IF tasks[i].step = "done" THEN tasks[i]
                       ELSE [tasks[i] EXCEPT !.step = "error"]
<1>1. /\ tasks' = [i \in DOMAIN tasks |-> After(i)] /\ scan' = Scanned
      /\ swarm' = Quiet.models /\ refresh' = Quiet /\ browser' = Chat
      /\ chosen' = NoModel /\ download' = 0 /\ UNCHANGED <<disk, kept, asked>>
  BY DEF Restart
<1>2. \A m : Usable(m)' <=> Usable(m)
  BY <1>1 DEF Usable
<1>3. tasks \in Seq(Task) /\ Len(tasks) \in Nat
  BY PickerTypes
<1>4. ASSUME NEW i \in 1 .. Len(tasks)
      PROVE  /\ After(i) \in Task /\ After(i).model = tasks[i].model
             /\ After(i).step \in {"done", "error"}
             /\ After(i).step = "done" => tasks[i].step = "done"
  <2>1. tasks[i] \in Task
    BY TaskTypes
  <2> QED BY <2>1
<1> HIDE DEF After, Task
<1>5. /\ tasks' \in Seq(Task) /\ Len(tasks') = Len(tasks)
      /\ \A i \in 1 .. Len(tasks) : tasks'[i] = After(i)
  BY <1>1, <1>3, <1>4
<1>6. ViewOK(browser') /\ RowsOK'
  BY <1>1, ChatIs DEF RowsOK
<1>7. PickerTypeOK'
  <2>1. chosen' \in [mode : {"none", "local", "network"}, model : Names \cup {"none"}]
    BY <1>1 DEF NoModel
  <2>2. download' \in 0 .. Len(tasks')
    BY <1>1, <1>3, <1>5
  <2>3. browser'.rows \in Seq(Row) /\ browser'.sel \in 0 .. Len(browser'.rows)
    BY <1>6 DEF ViewOK
  <2> QED BY <1>1, <1>5, <2>1, <2>2, <2>3, ScannedIs, ChatIs, PickerTypes
          DEF PickerTypeOK, Task
<1>8. FilesOK'
  <2>1. \A m \in Names : disk'[m].gguf => disk'[m].tok
    BY <1>1 DEF PickerInv, FilesOK
  <2>2. \A i \in 1 .. Len(tasks') :
          /\ tasks'[i].step \in {"gguf", "done"} => disk'[tasks'[i].model].tok
          /\ tasks'[i].step = "done" => disk'[tasks'[i].model].gguf
    BY <1>1, <1>4, <1>5 DEF PickerInv, FilesOK
  <2> QED BY <2>1, <2>2 DEF FilesOK
<1>9. ReportOK'
  <2>1. chosen'.mode = "none"
    BY <1>1 DEF NoModel
  <2>2. scan'.usable \subseteq Names
    BY <1>1, ScannedIs
  <2>3. \A m \in Names : m \in scan'.usable <=> Usable(m)
    BY <1>1, ScannedIs
  <2> QED BY <1>2, <1>4, <1>5, <2>1, <2>2, <2>3 DEF ReportOK
<1> QED BY <1>6, <1>7, <1>8, <1>9 DEF PickerInv, ViewOK
LEMMA PickerInvNext ==
  PickerInv /\ [PickerNext]_picker_vars => PickerInv'
<1> SUFFICES ASSUME PickerInv, [PickerNext]_picker_vars
             PROVE PickerInv'
  OBVIOUS
<1>1. CASE OpenBrowser \/ RefreshAnswers \/ DrainSwarm \/ Move
  BY <1>1, OpenBrowserSteps, RefreshAnswersSteps, DrainSwarmSteps, MoveSteps
<1>2. CASE \/ CloseBrowser \/ CommitLocal \/ CommitSwarm
           \/ Contribute
  BY <1>2, CommitSteps
<1>3. CASE StartInstall \/ DrainDownload \/ Restart
  BY <1>3, StartInstallSteps, DrainDownloadSteps, RestartSteps
<1>4. CASE \E i \in DOMAIN tasks : FileArrives(i) \/ DownloadFails(i)
  <2>1. DOMAIN tasks = 1 .. Len(tasks)
    BY PickerTypes
  <2>2. PICK i \in 1 .. Len(tasks) : FileArrives(i) \/ DownloadFails(i)
    BY <1>4, <2>1
  <2> QED BY <2>2, FileArrivesSteps, DownloadFailsSteps
<1>5. CASE UNCHANGED picker_vars
  <2>1. UNCHANGED <<disk, kept, scan, swarm, refresh, browser, chosen, tasks, download, asked>>
    BY <1>5 DEF picker_vars
  <2>2. \A m : Usable(m)' <=> Usable(m)
    BY <2>1 DEF Usable
  <2>3. PickerTypeOK' /\ ViewOK(browser') /\ FilesOK'
    BY <2>1 DEF PickerInv, PickerTypeOK, ViewOK, FilesOK
  <2>4. {m \in Names : Usable(m)} = {m \in Names : Usable(m)'}
    BY <2>2
  <2>5. RowsOK' /\ ReportOK'
    BY <2>1, <2>2, <2>4 DEF PickerInv, RowsOK, ReportOK
  <2> QED BY <2>3, <2>5 DEF PickerInv, ViewOK
<1> QED BY <1>1, <1>2, <1>3, <1>4, <1>5 DEF PickerNext

LEMMA PickerInvariant ==
  PickerSpec => []PickerInv
<1>1. PickerInit => PickerInv
  BY PickerInvInit
<1>2. PickerInv /\ [PickerNext]_picker_vars => PickerInv'
  BY PickerInvNext
<1> QED BY <1>1, <1>2, PTL DEF PickerSpec

\* A swarm row on the screen is always one of a model in the cache, and as enabled
\* as the cache says, however refreshes come in while the picker is open
\* (drain_swarm, commit_browser).
THEOREM RowsAreCached ==
  PickerSpec => []SwarmRowsKnown
<1>1. PickerInv => SwarmRowsKnown
  <2> SUFFICES ASSUME PickerInv, NEW i \in DOMAIN browser.rows, browser.rows[i].kind = "swarm"
               PROVE  /\ browser.rows[i].model \in DOMAIN swarm
                      /\ browser.rows[i].enabled = swarm[browser.rows[i].model]
    BY DEF PickerInv, SwarmRowsKnown
  <2>1. i \in 1 .. Len(browser.rows)
    BY DEF PickerInv, ViewOK
  <2> QED BY <2>1 DEF PickerInv, RowsOK, PickerRow
<1> QED BY <1>1, PickerInvariant, PTL

\* A model of the catalog always has a row, to run it or to install it, in what a
\* look at the directory would show next: install_entry's order of the two files,
\* and build_rows, leave none out, wherever a download ended.
THEOREM CatalogIsShown ==
  PickerSpec => []NothingVanishes
<1>1. PickerInv => NothingVanishes
  <2> SUFFICES ASSUME PickerInv, NEW m \in Catalog
               PROVE  \E r \in Range(build_rows(Scanned, swarm)) : r.model = m
    BY DEF NothingVanishes
  <2> DEFINE rows == build_rows(Scanned, swarm)
  <2>1. m \in Scanned.usable \cup (Catalog \ Scanned.listed)
    <3>1. m \in Names /\ (disk[m].gguf => disk[m].tok)
      BY PickerAssumption DEF PickerInv, FilesOK, PickerAssumption
    <3> QED BY <3>1, ScannedIs DEF Usable
  <2>2. rows \in Seq(Row) /\ \E i \in 1 .. Len(rows) : rows[i].model = m
    <3> DEFINE sc == Scanned
    <3>1. sc \in [listed : SUBSET Names, usable : SUBSET Names] /\ swarm \in Coverage
      BY ScannedIs, PickerTypes
    <3>2. m \in sc.usable \cup (Catalog \ sc.listed) /\ rows = build_rows(sc, swarm)
      BY <2>1
    <3> HIDE DEF sc, rows
    <3> QED BY <3>1, <3>2, RowsAre
  <2> HIDE DEF rows
  <2>3. \E r \in Range(rows) : r.model = m
    BY <2>2 DEF Range
  <2> QED BY <2>3 DEF rows
<1> QED BY <1>1, PickerInvariant, PTL

\* What is complete on disk is listed, or is what the running download reports
\* next, and what is chosen to run locally is there (drain_download,
\* commit_browser).
THEOREM CompleteIsListed ==
  PickerSpec => []InstalledIsListed
<1>1. PickerInv => InstalledIsListed
  BY DEF PickerInv, ReportOK, InstalledIsListed
<1> QED BY <1>1, PickerInvariant, PTL

-----------------------------------------------------------------------------
(* Folds over a sequence. FoldLeft is a recursion over sets of indices.        *)

\* g is the fold over the sets of indices up to n that starts at a and takes the
\* element at i by step[i].
Folds(n, U, a, step, g) ==
  /\ g \in [SUBSET (1 .. n) -> U]
  /\ \A S \in SUBSET (1 .. n) :
       g[S] = IF S = {} THEN a ELSE step[Max(S)][g[S \ {Max(S)}]]

\* The greatest index of a set of them.
LEMMA Greatest ==
  ASSUME NEW n \in Nat, NEW S \in SUBSET (0 .. n), S # {}
  PROVE  Max(S) \in S /\ \A i \in S : i <= Max(S)
<1> DEFINE T == {k \in 0 .. n : \A i \in S : i <= k}
<1>1. T \subseteq Nat /\ n \in T
  OBVIOUS
<1>2. PICK k \in T : \A m \in T : k <= m
  <2> HIDE DEF T
  <2> QED BY <1>1, Least
<1>3. k \in S
  <2> SUFFICES ASSUME k \notin S PROVE FALSE
    OBVIOUS
  <2>1. \A i \in S : i <= k - 1 /\ i \in 0 .. n
    BY <1>2
  <2>2. k \in 0 .. n /\ k - 1 >= 0
    <3>1. PICK i \in S : i <= k - 1 /\ i \in 0 .. n
      BY <2>1
    <3>2. k \in 0 .. n
      BY <1>2
    <3> QED BY <3>1, <3>2
  <2>3. k - 1 \in T /\ ~(k <= k - 1)
    BY <2>1, <2>2
  <2> QED BY <1>2, <2>3
<1>4. \E x \in S : \A y \in S : x >= y
  BY <1>2, <1>3
<1>5. Max(S) \in S /\ \A y \in S : Max(S) >= y
  BY <1>4 DEF Max
<1> QED BY <1>5

\* The last of the indices up to i, and the others.
LEMMA MaxUpTo ==
  ASSUME NEW n \in Nat, NEW i \in 1 .. n
  PROVE  Max(1 .. i) = i /\ (1 .. i) \ {i} = 1 .. (i - 1) /\ 1 .. i # {}
<1>1. 1 .. i \in SUBSET (0 .. n) /\ 1 .. i # {} /\ i \in 1 .. i
  OBVIOUS
<1>2. Max(1 .. i) \in 1 .. i /\ i <= Max(1 .. i)
  BY <1>1, Greatest
<1> QED BY <1>1, <1>2

\* There is such a fold, by induction over n.
LEMMA FoldExists ==
  ASSUME NEW n \in Nat, NEW U, NEW a \in U, NEW step \in [1 .. n -> [U -> U]]
  PROVE  \E g : Folds(n, U, a, step, g)
<1> DEFINE Has(m) == \E g : Folds(m, U, a, step, g)
           P == {m \in 0 .. n : Has(m)}
<1>1. Has(0)
  <2> DEFINE g == [S \in SUBSET (1 .. 0) |-> a]
  <2>1. Folds(0, U, a, step, g)
    <3>1. \A S \in SUBSET (1 .. 0) : S = {}
      OBVIOUS
    <3> QED BY <3>1 DEF Folds
  <2> HIDE DEF g
  <2> QED BY <2>1
<1>2. ASSUME NEW m \in 1 .. n, m - 1 \in P PROVE m \in P
  <2>1. PICK g : Folds(m - 1, U, a, step, g)
    BY <1>2
  <2>2. /\ g \in [SUBSET (1 .. (m - 1)) -> U]
        /\ \A S \in SUBSET (1 .. (m - 1)) :
             g[S] = IF S = {} THEN a ELSE step[Max(S)][g[S \ {Max(S)}]]
    BY <2>1 DEF Folds
  <2>3. ASSUME NEW S \in SUBSET (1 .. m)
        PROVE  /\ S \ {m} \in SUBSET (1 .. (m - 1)) /\ (m \notin S => S \ {m} = S)
               /\ m \in S => Max(S) = m
               /\ S # {} => Max(S) \in S
    <3>1. S \in SUBSET (0 .. m) /\ m \in Nat
      OBVIOUS
    <3>2. S # {} => Max(S) \in S /\ \A i \in S : i <= Max(S)
      BY <3>1, Greatest
    <3>3. m \in S => Max(S) = m
      <4> SUFFICES ASSUME m \in S PROVE Max(S) = m
        OBVIOUS
      <4>1. Max(S) \in 1 .. m /\ m <= Max(S)
        BY <3>2
      <4> QED BY <3>1, <4>1
    <3>4. S \ {m} \in SUBSET (1 .. (m - 1))
      BY <3>1
    <3> QED BY <3>2, <3>3, <3>4
  <2> DEFINE h == [S \in SUBSET (1 .. m) |->
                     IF m \in S THEN step[m][g[S \ {m}]] ELSE g[S \ {m}]]
  <2>4. h \in [SUBSET (1 .. m) -> U]
    <3> SUFFICES ASSUME NEW S \in SUBSET (1 .. m)
                 PROVE  (IF m \in S THEN step[m][g[S \ {m}]] ELSE g[S \ {m}]) \in U
      OBVIOUS
    <3>1. g[S \ {m}] \in U
      BY <2>2, <2>3
    <3> QED BY <3>1
  <2>5. ASSUME NEW S \in SUBSET (1 .. m)
        PROVE  h[S] = IF S = {} THEN a ELSE step[Max(S)][h[S \ {Max(S)}]]
    <3>1. CASE m \in S
      <4>1. S # {} /\ Max(S) = m
        BY <2>3, <3>1
      <4>2. S \ {m} \in SUBSET (1 .. m) /\ m \notin S \ {m} /\ (S \ {m}) \ {m} = S \ {m}
        OBVIOUS
      <4>3. h[S] = step[m][g[S \ {m}]] /\ h[S \ {m}] = g[S \ {m}]
        BY <3>1, <4>2
      <4> HIDE DEF h
      <4> QED BY <4>1, <4>3
    <3>2. CASE m \notin S
      <4>1. S \in SUBSET (1 .. (m - 1)) /\ h[S] = g[S]
        BY <2>3, <3>2
      <4>2. CASE S = {}
        <5> HIDE DEF h
        <5> QED BY <2>2, <4>1, <4>2
      <4>3. CASE S # {}
        <5> DEFINE R == S \ {Max(S)}
        <5>1. R \in SUBSET (1 .. m) /\ m \notin R /\ R \ {m} = R
          BY <3>2
        <5>2. h[R] = g[R]
          BY <5>1
        <5>3. g[S] = step[Max(S)][g[R]]
          BY <2>2, <4>1, <4>3
        <5> HIDE DEF h
        <5> QED BY <4>1, <4>3, <5>2, <5>3
      <4> QED BY <4>2, <4>3
    <3> QED BY <3>1, <3>2
  <2>6. Folds(m, U, a, step, h)
    <3> HIDE DEF h
    <3> QED BY <2>4, <2>5 DEF Folds
  <2> HIDE DEF h
  <2> QED BY <2>6
<1> HIDE DEF Has
<1>3. \A i \in 0 .. n : i \in P
  <2>1. 0 \in P
    BY <1>1
  <2> HIDE DEF P
  <2> QED BY <1>2, <2>1, UpTo
<1>4. Has(n)
  BY <1>3
<1> QED BY <1>4 DEF Has

\* A function that goes by the steps where it has a value of U is their fold.
LEMMA FoldTyped ==
  ASSUME NEW n \in Nat, NEW U, NEW a \in U, NEW step \in [1 .. n -> [U -> U]],
         NEW g, g = [S \in SUBSET (1 .. n) |-> g[S]],
         \A S \in SUBSET (1 .. n) :
           /\ S = {} => g[S] = a
           /\ S # {} /\ g[S \ {Max(S)}] \in U => g[S] = step[Max(S)][g[S \ {Max(S)}]]
  PROVE  Folds(n, U, a, step, g)
<1> DEFINE InU(m) == \A S \in SUBSET (1 .. m) : g[S] \in U
           P == {m \in 0 .. n : InU(m)}
<1>1. InU(0)
  <2> SUFFICES ASSUME NEW S \in SUBSET (1 .. 0) PROVE g[S] \in U
    OBVIOUS
  <2>1. S = {} /\ S \in SUBSET (1 .. n)
    OBVIOUS
  <2> QED BY <2>1
<1>2. ASSUME NEW m \in 1 .. n, m - 1 \in P PROVE InU(m)
  <2> SUFFICES ASSUME NEW S \in SUBSET (1 .. m) PROVE g[S] \in U
    OBVIOUS
  <2>1. S \in SUBSET (1 .. n) /\ S \in SUBSET (0 .. m) /\ m \in Nat
    OBVIOUS
  <2>2. CASE S = {}
    BY <2>1, <2>2
  <2>3. CASE S # {}
    <3>1. Max(S) \in S /\ \A i \in S : i <= Max(S)
      BY <2>1, <2>3, Greatest
    <3> DEFINE k == Max(S)
    <3>2. k \in S /\ \A i \in S : i <= k
      BY <3>1
    <3> HIDE DEF k
    <3>3. S \ {k} \in SUBSET (1 .. (m - 1)) /\ k \in 1 .. n
      BY <2>1, <3>2
    <3>4. g[S \ {k}] \in U
      BY <1>2, <3>3
    <3>5. g[S] = step[k][g[S \ {k}]]
      BY <2>1, <2>3, <3>4 DEF k
    <3> QED BY <3>3, <3>4, <3>5
  <2> QED BY <2>2, <2>3
<1> HIDE DEF InU
<1>3. \A i \in 0 .. n : i \in P
  <2>1. 0 \in P /\ \A m \in 1 .. n : m - 1 \in P => m \in P
    BY <1>1, <1>2
  <2> HIDE DEF P
  <2> QED BY <2>1, UpTo
<1>4. \A S \in SUBSET (1 .. n) : g[S] \in U
  <2>1. InU(n)
    BY <1>3
  <2> QED BY <2>1 DEF InU
<1>5. g \in [SUBSET (1 .. n) -> U]
  BY <1>4
<1>6. ASSUME NEW S \in SUBSET (1 .. n), S # {} PROVE S \ {Max(S)} \in SUBSET (1 .. n)
  OBVIOUS
<1>7. \A S \in SUBSET (1 .. n) : g[S] = IF S = {} THEN a ELSE step[Max(S)][g[S \ {Max(S)}]]
  BY <1>4, <1>6
<1> QED BY <1>5, <1>7 DEF Folds

\* Folds over two sequences agree as far as their steps do.
LEMMA FoldsAgree ==
  ASSUME NEW n \in Nat, NEW m \in Nat, n <= m, NEW U, NEW a, NEW step, NEW more,
         NEW g, NEW h, Folds(n, U, a, step, g), Folds(m, U, a, more, h),
         \A i \in 1 .. n : step[i] = more[i]
  PROVE  g[1 .. n] = h[1 .. n]
<1> DEFINE P == {i \in 0 .. n : g[1 .. i] = h[1 .. i]}
<1>1. \A i \in 0 .. n : 1 .. i \in SUBSET (1 .. n) /\ 1 .. i \in SUBSET (1 .. m)
  OBVIOUS
<1>2. 0 \in P
  <2>1. 1 .. 0 = {} /\ 0 \in 0 .. n /\ {} \in SUBSET (1 .. n) /\ {} \in SUBSET (1 .. m)
    OBVIOUS
  <2>2. g[{}] = a /\ h[{}] = a
    BY <2>1 DEF Folds
  <2> QED BY <2>1, <2>2
<1>3. ASSUME NEW i \in 1 .. n, i - 1 \in P PROVE i \in P
  <2>1. Max(1 .. i) = i /\ (1 .. i) \ {i} = 1 .. (i - 1) /\ 1 .. i # {} /\ i \in 0 .. n
    BY MaxUpTo
  <2> DEFINE S == 1 .. i
             R == 1 .. (i - 1)
  <2>2. S \in SUBSET (1 .. n) /\ S \in SUBSET (1 .. m) /\ Max(S) = i /\ S \ {i} = R /\ S # {}
        /\ g[R] = h[R]
    BY <1>1, <1>3, <2>1
  <2> HIDE DEF S, R
  <2>3. g[S] = step[i][g[R]]
    BY <2>2 DEF Folds
  <2>4. h[S] = more[i][h[R]]
    BY <2>2 DEF Folds
  <2>5. g[S] = h[S]
    BY <2>2, <2>3, <2>4
  <2> QED BY <2>1, <2>5 DEF S
<1> HIDE DEF P
<1>4. \A i \in 0 .. n : i \in P
  BY <1>2, <1>3, UpTo
<1>5. n \in 0 .. n
  OBVIOUS
<1> QED BY <1>4, <1>5 DEF P

\* The steps of op over a sequence.
Along(op, s) == [i \in 1 .. Len(s) |-> op[s[i]]]

\* F folds op over the sequences of elements of D.
FoldOf(D, U, a, op, F) ==
  /\ a \in U /\ op \in [D -> [U -> U]] /\ F = [s \in Seq(D) |-> F[s]]
  /\ \A s \in Seq(D) :
       \E g : Folds(Len(s), U, a, Along(op, s), g) /\ F[s] = g[1 .. Len(s)]

\* F does so one element at a time.
Adds(D, U, a, op, F) ==
  /\ F \in [Seq(D) -> U] /\ F[<<>>] = a
  /\ \A s \in Seq(D), c \in D : F[Append(s, c)] = op[c][F[s]]

\* A fold goes from a sequence to the one with an element more by one step.
LEMMA FoldAdds ==
  ASSUME NEW D, NEW U, NEW a, NEW op, NEW F, FoldOf(D, U, a, op, F)
  PROVE  Adds(D, U, a, op, F)
<1> USE DEF FoldOf
<1>1. ASSUME NEW s \in Seq(D) PROVE F[s] \in U
  <2>1. PICK g : Folds(Len(s), U, a, Along(op, s), g) /\ F[s] = g[1 .. Len(s)]
    OBVIOUS
  <2>2. 1 .. Len(s) \in SUBSET (1 .. Len(s))
    OBVIOUS
  <2> QED BY <2>1, <2>2 DEF Folds
<1>2. F[<<>>] = a
  <2>1. <<>> \in Seq(D) /\ Len(<<>>) = 0 /\ 1 .. 0 = {} /\ {} \in SUBSET (1 .. 0)
    OBVIOUS
  <2>2. PICK g : Folds(Len(<<>>), U, a, Along(op, <<>>), g) /\ F[<<>>] = g[1 .. Len(<<>>)]
    BY <2>1
  <2> QED BY <2>1, <2>2 DEF Folds
<1>3. ASSUME NEW s \in Seq(D), NEW c \in D PROVE F[Append(s, c)] = op[c][F[s]]
  <2> DEFINE t == Append(s, c)
             n == Len(s)
             m == Len(t)
  <2>1. /\ t \in Seq(D) /\ m = n + 1 /\ n \in Nat /\ m \in Nat /\ t[m] = c
        /\ \A i \in 1 .. n : s[i] = t[i]
    OBVIOUS
  <2>2. PICK g : Folds(n, U, a, Along(op, s), g) /\ F[s] = g[1 .. n]
    OBVIOUS
  <2> HIDE DEF t
  <2>3. PICK h : Folds(m, U, a, Along(op, t), h) /\ F[t] = h[1 .. m]
    BY <2>1
  <2>4. /\ \A i \in 1 .. n : Along(op, s)[i] = Along(op, t)[i]
        /\ Along(op, t)[m] = op[c]
    BY <2>1 DEF Along
  <2> HIDE DEF n, m
  <2>5. g[1 .. n] = h[1 .. n]
    <3>1. n <= m
      BY <2>1
    <3> QED BY <2>1, <2>2, <2>3, <2>4, <3>1, FoldsAgree
  <2>6. Max(1 .. m) = m /\ (1 .. m) \ {m} = 1 .. n /\ 1 .. m # {}
    <3>1. m \in 1 .. m /\ m - 1 = n
      BY <2>1
    <3> QED BY <2>1, <3>1, MaxUpTo
  <2>7. h[1 .. m] = op[c][h[1 .. n]]
    <3> DEFINE S == 1 .. m
               R == 1 .. n
    <3>1. S \in SUBSET (1 .. m) /\ Max(S) = m /\ S \ {m} = R /\ S # {}
      BY <2>6
    <3> HIDE DEF S, R
    <3>2. h[S] = Along(op, t)[m][h[R]]
      BY <2>3, <3>1 DEF Folds
    <3>3. h[S] = op[c][h[R]]
      BY <2>4, <3>2
    <3> QED BY <3>3 DEF S, R
  <2>8. F[t] = op[c][F[s]]
    BY <2>2, <2>3, <2>5, <2>7
  <2> QED BY <2>8 DEF t
<1> QED BY <1>1, <1>2, <1>3 DEF Adds

\* What holds of the empty text, and goes on to hold as characters are added, holds
\* of every text.
LEMMA TextsUp ==
  ASSUME NEW D, NEW P, <<>> \in P,
         \A s \in Seq(D), c \in D : s \in P => Append(s, c) \in P
  PROVE  Seq(D) \subseteq P
<1> SUFFICES ASSUME NEW s \in Seq(D) PROVE s \in P
  OBVIOUS
<1> DEFINE n == Len(s)
           Q == {i \in 0 .. n : SubSeq(s, 1, i) \in P}
<1>1. n \in Nat /\ SubSeq(s, 1, 0) = <<>> /\ SubSeq(s, 1, n) = s /\ n \in 0 .. n /\ 0 \in 0 .. n
  BY SubSeqFull
<1>2. 0 \in Q
  <2> DEFINE e == SubSeq(s, 1, 0)
  <2>1. e \in P
    BY <1>1
  <2> QED BY <1>1, <2>1
<1>3. ASSUME NEW i \in 1 .. n, i - 1 \in Q PROVE i \in Q
  <2> DEFINE p == SubSeq(s, 1, i - 1)
  <2>1. p \in Seq(D) /\ s[i] \in D /\ SubSeq(s, 1, i) = Append(p, s[i]) /\ i \in 0 .. n
    OBVIOUS
  <2>2. p \in P
    BY <1>3
  <2> HIDE DEF p
  <2>3. Append(p, s[i]) \in P
    BY <2>1, <2>2
  <2> QED BY <2>1, <2>3
<1> HIDE DEF Q
<1>4. \A i \in 0 .. n : i \in Q
  BY <1>1, <1>2, <1>3, UpTo
<1> QED BY <1>1, <1>4 DEF Q

\* g is a function over the indices of s that folds op from a, wherever it has
\* values of U.
Follows(D, U, a, op, s, g) ==
  /\ g = [S \in SUBSET DOMAIN s |-> g[S]] /\ g[{}] = a
  /\ \A S \in SUBSET DOMAIN s :
       S # {} /\ s[Max(S)] \in D /\ g[S \ {Max(S)}] \in U
         => g[S] = op[s[Max(S)]][g[S \ {Max(S)}]]

\* It has them everywhere.
Stays(D, U, s, g) ==
  \A S \in SUBSET DOMAIN s : S # {} => s[Max(S)] \in D /\ g[S \ {Max(S)}] \in U

\* The fold over a sequence exists, and what goes by its steps is the fold.
LEMMA FoldAlong ==
  ASSUME NEW D, NEW U, NEW a \in U, NEW op \in [D -> [U -> U]], NEW s \in Seq(D)
  PROVE  /\ \E h : Follows(D, U, a, op, s, h) /\ Stays(D, U, s, h)
         /\ \A g : Follows(D, U, a, op, s, g)
              => Folds(Len(s), U, a, Along(op, s), g) /\ DOMAIN s = 1 .. Len(s)
<1> DEFINE n == Len(s)
           step == Along(op, s)
<1>1. n \in Nat /\ DOMAIN s = 1 .. n /\ \A i \in 1 .. n : s[i] \in D
  OBVIOUS
<1>2. step \in [1 .. n -> [U -> U]] /\ \A i \in 1 .. n : step[i] = op[s[i]]
  BY <1>1 DEF Along
<1> HIDE DEF n, step
<1>3. PICK h : Folds(n, U, a, step, h)
  BY <1>1, <1>2, FoldExists
<1>4. ASSUME NEW S \in SUBSET (1 .. n), S # {}
      PROVE  /\ s[Max(S)] \in D /\ h[S \ {Max(S)}] \in U
             /\ h[S] = op[s[Max(S)]][h[S \ {Max(S)}]]
  <2> DEFINE k == Max(S)
  <2>1. k \in 1 .. n /\ h[S \ {k}] \in U /\ h[S] = step[k][h[S \ {k}]]
    <3>1. S \in SUBSET (0 .. n) /\ S # {}
      BY <1>4
    <3>2. k \in S
      BY <1>1, <3>1, Greatest
    <3> HIDE DEF k
    <3>3. k \in 1 .. n /\ S \ {k} \in SUBSET (1 .. n)
      BY <3>2
    <3>4. h[S \ {k}] \in U
      BY <1>3, <3>3 DEF Folds
    <3>5. h[S] = step[k][h[S \ {k}]]
      BY <1>3, <1>4 DEF Folds, k
    <3> QED BY <3>3, <3>4, <3>5
  <2> HIDE DEF k
  <2>2. s[k] \in D /\ h[S] = op[s[k]][h[S \ {k}]]
    BY <1>1, <1>2, <2>1
  <2> QED BY <2>1, <2>2 DEF k
<1>5. h = [S \in SUBSET (1 .. n) |-> h[S]] /\ h[{}] = a
  BY <1>3 DEF Folds
<1>6. Follows(D, U, a, op, s, h)
  BY <1>1, <1>4, <1>5 DEF Follows
<1>7. Stays(D, U, s, h)
  BY <1>1, <1>4 DEF Stays
<1>8. ASSUME NEW g, Follows(D, U, a, op, s, g) PROVE Folds(n, U, a, step, g)
  <2>1. g = [S \in SUBSET (1 .. n) |-> g[S]] /\ g[{}] = a
    BY <1>1, <1>8 DEF Follows
  <2>2. ASSUME NEW S \in SUBSET (1 .. n), S # {}, g[S \ {Max(S)}] \in U
        PROVE  g[S] = step[Max(S)][g[S \ {Max(S)}]]
    <3>1. S \in SUBSET (0 .. n)
      OBVIOUS
    <3>2. Max(S) \in S
      BY <1>1, <2>2, <3>1, Greatest
    <3>3. Max(S) \in 1 .. n /\ s[Max(S)] \in D
      BY <1>1, <3>2
    <3>4. g[S] = op[s[Max(S)]][g[S \ {Max(S)}]]
      BY <1>1, <1>8, <2>2, <3>3 DEF Follows
    <3> QED BY <1>2, <3>3, <3>4
  <2> QED BY <1>1, <1>2, <2>1, <2>2, FoldTyped
<1> QED BY <1>1, <1>6, <1>7, <1>8 DEF n, step

-----------------------------------------------------------------------------
(* The length of a text in bytes and its width in columns.                     *)

\* What the fold of a sum over s looks for.
Summing(s, w, g) ==
  g = [S \in SUBSET DOMAIN s |-> IF S = {} THEN 0 ELSE g[S \ {Max(S)}] + w[s[Max(S)]]]

\* L adds up w over a text.
Additive(L, w) ==
  /\ L \in [Seq(Chars) -> Nat]
  /\ L[<<>>] = 0
  /\ \A s \in Seq(Chars), c \in Chars : L[Append(s, c)] = L[s] + w[c]

\* The fold of a sum adds up one element after the other.
LEMMA SumAdds ==
  ASSUME NEW w \in [Chars -> Nat], NEW L,
         L = [s \in Seq(Chars) |-> (CHOOSE g : Summing(s, w, g))[DOMAIN s]]
  PROVE  Additive(L, w)
<1> DEFINE op == [c \in Chars |-> [x \in Nat |-> x + w[c]]]
<1>1. /\ 0 \in Nat /\ op \in [Chars -> [Nat -> Nat]]
      /\ \A c \in Chars, x \in Nat : op[c][x] = x + w[c]
  OBVIOUS
<1> HIDE DEF op
<1>2. ASSUME NEW s \in Seq(Chars)
      PROVE  \E g : Folds(Len(s), Nat, 0, Along(op, s), g) /\ L[s] = g[1 .. Len(s)]
  <2>1. L[s] = (CHOOSE g : Summing(s, w, g))[DOMAIN s]
    OBVIOUS
  <2>2. PICK h : Follows(Chars, Nat, 0, op, s, h) /\ Stays(Chars, Nat, s, h)
    BY <1>1, FoldAlong
  <2>3. Summing(s, w, h)
    BY <1>1, <2>2 DEF Follows, Stays, Summing
  <2> DEFINE g == CHOOSE g : Summing(s, w, g)
  <2>4. Summing(s, w, g)
    BY <2>3
  <2> HIDE DEF g
  <2>5. Follows(Chars, Nat, 0, op, s, g)
    BY <1>1, <2>4 DEF Follows, Summing
  <2>6. Folds(Len(s), Nat, 0, Along(op, s), g) /\ DOMAIN s = 1 .. Len(s)
    BY <1>1, <2>5, FoldAlong
  <2> QED BY <2>1, <2>6 DEF g
<1>3. L = [s \in Seq(Chars) |-> L[s]]
  OBVIOUS
<1>4. FoldOf(Chars, Nat, 0, op, L)
  BY <1>1, <1>2, <1>3 DEF FoldOf
<1>5. Adds(Chars, Nat, 0, op, L)
  BY <1>4, FoldAdds
<1>6. ASSUME NEW s \in Seq(Chars), NEW c \in Chars PROVE L[Append(s, c)] = L[s] + w[c]
  <2>1. L[Append(s, c)] = op[c][L[s]]
    BY <1>5 DEF Adds
  <2>2. L[s] \in Nat
    BY <1>5 DEF Adds
  <2> QED BY <1>1, <2>1, <2>2
<1> QED BY <1>5, <1>6 DEF Adds, Additive

LengthOf == [s \in Seq(Chars) |-> Length(s)]
WidthOf == [s \in Seq(Chars) |-> Wide(s)]

\* Length in bytes and width in columns add up over the characters.
LEMMA LengthAdds == Additive(LengthOf, Bytes)
<1>1. Bytes \in [Chars -> Nat]
  BY PromptAssumption DEF PromptAssumption
<1>2. LengthOf = [s \in Seq(Chars) |-> (CHOOSE g : Summing(s, Bytes, g))[DOMAIN s]]
  BY DEF LengthOf, Length, FoldLeft, MapThenFoldSet, Summing
<1> QED BY <1>1, <1>2, SumAdds

LEMMA WidthAdds == Additive(WidthOf, Cols)
<1>1. Cols \in [Chars -> Nat]
  BY PromptAssumption DEF PromptAssumption
<1>2. WidthOf = [s \in Seq(Chars) |-> (CHOOSE g : Summing(s, Cols, g))[DOMAIN s]]
  BY DEF WidthOf, Wide, FoldLeft, MapThenFoldSet, Summing
<1> QED BY <1>1, <1>2, SumAdds

\* One character more behind two texts.
LEMMA AppendBehind ==
  \A s, t \in Seq(Chars), c \in Chars : s \o Append(t, c) = Append(s \o t, c)
OBVIOUS

\* A sum over two texts, one behind the other.
LEMMA AdditiveConcat ==
  ASSUME NEW L, NEW w \in [Chars -> Nat], Additive(L, w),
         NEW s \in Seq(Chars), NEW t \in Seq(Chars)
  PROVE  L[s \o t] = L[s] + L[t]
<1> DEFINE n == Len(t)
           P == {i \in 0 .. n : L[s \o SubSeq(t, 1, i)] = L[s] + L[SubSeq(t, 1, i)]}
<1>1. n \in Nat /\ SubSeq(t, 1, 0) = <<>> /\ SubSeq(t, 1, n) = t /\ n \in 0 .. n
  OBVIOUS
<1>2. 0 \in P
  <2>1. L[s] \in Nat /\ L[<<>>] = 0
    BY DEF Additive
  <2>2. L[s \o SubSeq(t, 1, 0)] = L[s] + L[SubSeq(t, 1, 0)]
    <3> DEFINE e == SubSeq(t, 1, 0)
    <3>1. e = <<>> /\ s \o <<>> = s
      BY <1>1, ConcatEmptySeq
    <3> HIDE DEF e
    <3>2. L[s \o e] = L[s] + L[e]
      BY <2>1, <3>1
    <3> QED BY <3>2 DEF e
  <2>3. 0 \in 0 .. n
    BY <1>1
  <2> QED BY <2>2, <2>3
<1>3. ASSUME NEW i \in 1 .. n, i - 1 \in P PROVE i \in P
  <2> DEFINE p == SubSeq(t, 1, i - 1)
  <2>1. /\ p \in Seq(Chars) /\ t[i] \in Chars
        /\ SubSeq(t, 1, i) = Append(p, t[i]) /\ s \o p \in Seq(Chars)
    OBVIOUS
  <2>2. s \o SubSeq(t, 1, i) = Append(s \o p, t[i])
    <3> HIDE DEF p
    <3>1. s \o Append(p, t[i]) = Append(s \o p, t[i])
      <4> DEFINE c == t[i]
      <4>1. p \in Seq(Chars) /\ c \in Chars
        BY <2>1
      <4> HIDE DEF c
      <4>2. s \o Append(p, c) = Append(s \o p, c)
        BY <4>1, AppendBehind, Zenon
      <4> QED BY <4>2 DEF c
    <3> QED BY <2>1, <3>1
  <2>3. L[s \o p] = L[s] + L[p] /\ i \in 0 .. n
    BY <1>3
  <2> HIDE DEF p
  <2>4. L[Append(s \o p, t[i])] = L[s \o p] + w[t[i]] /\ L[Append(p, t[i])] = L[p] + w[t[i]]
    BY <2>1 DEF Additive
  <2>5. w[t[i]] \in Nat /\ L[s] \in Nat /\ L[p] \in Nat /\ L[Append(p, t[i])] \in Nat
    <3>1. Append(p, t[i]) \in Seq(Chars)
      BY <2>1
    <3> QED BY <2>1, <3>1 DEF Additive
  <2>6. L[s] + L[p] + w[t[i]] = L[s] + L[Append(p, t[i])]
    BY <2>4, <2>5
  <2> QED BY <2>1, <2>2, <2>3, <2>4, <2>6
<1> HIDE DEF P
<1>4. \A i \in 0 .. n : i \in P
  BY <1>1, <1>2, <1>3, UpTo
<1> QED BY <1>1, <1>4 DEF P
\* The length in bytes, over texts.
LEMMA Lengths ==
  /\ Length(<<>>) = 0
  /\ \A s \in Seq(Chars) : Length(s) \in Nat
  /\ \A s, t \in Seq(Chars) : Length(s \o t) = Length(s) + Length(t)
  /\ \A s \in Seq(Chars), c \in Chars : Length(Append(s, c)) = Length(s) + Bytes[c]
<1>1. \A s \in Seq(Chars) : LengthOf[s] = Length(s)
  BY DEF LengthOf
<1>2. Bytes \in [Chars -> Nat]
  BY PromptAssumption DEF PromptAssumption
<1>3. \A s, t \in Seq(Chars) : LengthOf[s \o t] = LengthOf[s] + LengthOf[t]
  BY <1>2, LengthAdds, AdditiveConcat
<1>4. \A s \in Seq(Chars), c \in Chars : LengthOf[Append(s, c)] = LengthOf[s] + Bytes[c]
  BY LengthAdds DEF Additive
<1>5. LengthOf[<<>>] = 0 /\ \A s \in Seq(Chars) : LengthOf[s] \in Nat
  BY LengthAdds DEF Additive
<1>6. <<>> \in Seq(Chars)
  OBVIOUS
<1>7. ASSUME NEW s \in Seq(Chars), NEW t \in Seq(Chars) PROVE s \o t \in Seq(Chars)
  OBVIOUS
<1>8. ASSUME NEW s \in Seq(Chars), NEW c \in Chars PROVE Append(s, c) \in Seq(Chars)
  OBVIOUS
<1>9. Length(<<>>) = 0 /\ \A s \in Seq(Chars) : Length(s) \in Nat
  BY <1>1, <1>5, <1>6
<1>10. ASSUME NEW s \in Seq(Chars), NEW t \in Seq(Chars)
       PROVE  Length(s \o t) = Length(s) + Length(t)
  BY <1>1, <1>3, <1>7
<1>11. ASSUME NEW s \in Seq(Chars), NEW c \in Chars
       PROVE  Length(Append(s, c)) = Length(s) + Bytes[c]
  BY <1>1, <1>4, <1>8
<1> QED BY <1>9, <1>10, <1>11

\* A beginning of a text, and what is behind it.
LEMMA PrefixIs ==
  ASSUME NEW s \in Seq(Chars), NEW n \in 0 .. Len(s)
  PROVE  /\ Prefix(s, n) \in Seq(Chars) /\ Len(Prefix(s, n)) = n
         /\ \A i \in 1 .. n : Prefix(s, n)[i] = s[i]
         /\ SubSeq(s, n + 1, Len(s)) \in Seq(Chars)
         /\ s = Prefix(s, n) \o SubSeq(s, n + 1, Len(s))
         /\ Length(Prefix(s, n)) \in Nat
<1>1. /\ Prefix(s, n) \in Seq(Chars) /\ Len(Prefix(s, n)) = n
      /\ \A i \in 1 .. n : Prefix(s, n)[i] = s[i]
  BY DEF Prefix
<1>2. SubSeq(s, n + 1, Len(s)) \in Seq(Chars)
  OBVIOUS
<1>3. s = Prefix(s, n) \o SubSeq(s, n + 1, Len(s))
  <2> DEFINE r == SubSeq(s, n + 1, Len(s))
             t == Prefix(s, n) \o r
  <2>1. /\ r \in Seq(Chars) /\ Len(r) = Len(s) - n /\ Len(s) \in Nat
        /\ \A i \in 1 .. Len(r) : r[i] = s[n + i]
    OBVIOUS
  <2> HIDE DEF r
  <2>2. /\ t \in Seq(Chars) /\ Len(t) = Len(s)
        /\ \A i \in 1 .. Len(s) : t[i] = IF i <= n THEN Prefix(s, n)[i] ELSE r[i - n]
    BY <1>1, <2>1
  <2>3. \A i \in 1 .. Len(s) : t[i] = s[i]
    <3> SUFFICES ASSUME NEW i \in 1 .. Len(s) PROVE t[i] = s[i]
      OBVIOUS
    <3>1. CASE i <= n
      BY <1>1, <2>2, <3>1
    <3>2. CASE ~(i <= n)
      <4>1. i - n \in 1 .. Len(r) /\ n + (i - n) = i
        BY <2>1, <3>2
      <4> HIDE DEF t
      <4> QED BY <2>1, <2>2, <3>2, <4>1
    <3> QED BY <3>1, <3>2
  <2> HIDE DEF t
  <2>4. s = t
    BY <2>2, <2>3, SeqEqual
  <2> QED BY <2>4 DEF t, r
<1> QED BY <1>1, <1>2, <1>3, Lengths

\* The offset behind a character.
LEMMA PrefixStep ==
  ASSUME NEW s \in Seq(Chars), NEW n \in 1 .. Len(s)
  PROVE  /\ s[n] \in Chars /\ Prefix(s, n) = Append(Prefix(s, n - 1), s[n])
         /\ Length(Prefix(s, n)) = Length(Prefix(s, n - 1)) + Bytes[s[n]]
         /\ Bytes[s[n]] \in 1 .. 4
<1>1. s[n] \in Chars /\ Prefix(s, n) = Append(Prefix(s, n - 1), s[n])
  BY DEF Prefix
<1>2. n - 1 \in 0 .. Len(s)
  OBVIOUS
<1>3. Prefix(s, n - 1) \in Seq(Chars)
  BY <1>2, PrefixIs
<1>4. Bytes[s[n]] \in 1 .. 4
  BY <1>1, PromptAssumption DEF PromptAssumption
<1> QED BY <1>1, <1>3, <1>4, Lengths

\* Later characters begin at later bytes.
LEMMA OffsetsGrow ==
  ASSUME NEW s \in Seq(Chars)
  PROVE  \A k \in 0 .. Len(s) : \A j \in 0 .. (k - 1) :
           Length(Prefix(s, j)) < Length(Prefix(s, k))
<1> DEFINE n == Len(s)
           at(k) == Length(Prefix(s, k))
           P == {k \in 0 .. n : \A j \in 0 .. (k - 1) : at(j) < at(k)}
<1>1. n \in Nat /\ \A k \in 0 .. n : at(k) \in Nat
  BY PrefixIs
<1>2. \A k \in 1 .. n : \E b \in 1 .. 4 : at(k) = at(k - 1) + b
  BY PrefixStep
<1> HIDE DEF at, n
<1>3. 0 \in P
  BY <1>1
<1>4. ASSUME NEW k \in 1 .. n, k - 1 \in P PROVE k \in P
  <2> SUFFICES ASSUME NEW j \in 0 .. (k - 1) PROVE at(j) < at(k)
    BY <1>1
  <2>1. /\ k - 1 \in 0 .. n /\ k \in 0 .. n /\ j \in 0 .. n
        /\ (j = k - 1 \/ j \in 0 .. (k - 1 - 1))
    BY <1>1
  <2>2. at(k) \in Nat /\ at(k - 1) \in Nat /\ at(j) \in Nat
    BY <1>1, <2>1
  <2>3. PICK b \in 1 .. 4 : at(k) = at(k - 1) + b
    BY <1>2
  <2>4. j = k - 1 \/ at(j) < at(k - 1)
    BY <1>4, <2>1
  <2>5. at(k - 1) < at(k)
    BY <2>2, <2>3
  <2> QED BY <2>2, <2>4, <2>5
<1> HIDE DEF P
<1>5. \A k \in 0 .. n : k \in P
  BY <1>1, <1>3, <1>4, UpTo
<1> QED BY <1>5 DEF P, n, at
\* What is before a boundary is that many bytes long, and the text goes on behind
\* it.
LEMMA BeforeIs ==
  ASSUME NEW s \in Seq(Chars), NEW b \in Boundaries(s)
  PROVE  /\ Before(s, b) \in Seq(Chars) /\ Behind(s, b) \in Seq(Chars)
         /\ s = Before(s, b) \o Behind(s, b)
         /\ Length(Before(s, b)) = b /\ b \in Nat
         /\ \E k \in 0 .. Len(s) :
              b = Length(Prefix(s, k)) /\ Before(s, b) = Prefix(s, k)
              /\ Behind(s, b) = SubSeq(s, k + 1, Len(s))
<1>1. PICK k \in 0 .. Len(s) : b = Length(Prefix(s, k))
  BY DEF Boundaries
<1> DEFINE Early == {n \in 1 .. Len(s) : Length(Prefix(s, n - 1)) < b}
<1>2. Early = 1 .. k
  <2> SUFFICES ASSUME NEW n \in 1 .. Len(s)
               PROVE  Length(Prefix(s, n - 1)) < b <=> n <= k
    OBVIOUS
  <2>1. n - 1 \in 0 .. Len(s)
    OBVIOUS
  <2>2. Length(Prefix(s, n - 1)) \in Nat /\ Length(Prefix(s, k)) \in Nat
    BY <2>1, PrefixIs
  <2>3. CASE n <= k
    <3>1. n - 1 \in 0 .. (k - 1)
      BY <2>3
    <3> QED BY <1>1, <2>3, <3>1, OffsetsGrow
  <2>4. CASE ~(n <= k)
    <3>1. k = n - 1 \/ k \in 0 .. (n - 1 - 1)
      BY <2>4
    <3>2. k = n - 1 \/ Length(Prefix(s, k)) < Length(Prefix(s, n - 1))
      BY <2>1, <3>1, OffsetsGrow
    <3> QED BY <1>1, <2>2, <2>4, <3>2
  <2> QED BY <2>3, <2>4
<1>3. Cardinality(Early) = k
  <2>1. k \in Int /\ 1 \in Int /\ (1 > k => k = 0)
    OBVIOUS
  <2>2. Cardinality(1 .. k) = IF 1 > k THEN 0 ELSE k - 1 + 1
    BY <2>1, FS_Interval
  <2>3. Cardinality(1 .. k) = k
    BY <2>1, <2>2
  <2> HIDE DEF Early
  <2> QED BY <1>2, <2>3
<1>4. Before(s, b) = Prefix(s, k)
  BY <1>3 DEF Before
<1>5. Behind(s, b) = SubSeq(s, k + 1, Len(s))
  BY <1>4, PrefixIs DEF Behind
<1>6. /\ Prefix(s, k) \in Seq(Chars) /\ SubSeq(s, k + 1, Len(s)) \in Seq(Chars)
      /\ s = Prefix(s, k) \o SubSeq(s, k + 1, Len(s))
      /\ Length(Prefix(s, k)) \in Nat
  BY PrefixIs
<1> HIDE DEF Early
<1>7. s = Before(s, b) \o Behind(s, b)
  BY <1>4, <1>5, <1>6
<1>8. /\ Before(s, b) \in Seq(Chars) /\ Behind(s, b) \in Seq(Chars)
      /\ Length(Before(s, b)) = b /\ b \in Nat
  BY <1>1, <1>4, <1>5, <1>6
<1> QED BY <1>1, <1>4, <1>5, <1>7, <1>8

\* A boundary of the first of two texts is one of both.
LEMMA LeftEdge ==
  ASSUME NEW s \in Seq(Chars), NEW t \in Seq(Chars)
  PROVE  /\ Length(s) \in Boundaries(s \o t)
         /\ Boundaries(s) \subseteq Boundaries(s \o t)
<1>1. ASSUME NEW k \in 0 .. Len(s) PROVE Length(Prefix(s, k)) \in Boundaries(s \o t)
  <2>1. k \in 0 .. Len(s \o t) /\ Prefix(s \o t, k) = Prefix(s, k)
    BY DEF Prefix
  <2> QED BY <2>1 DEF Boundaries
<1>2. Boundaries(s) \subseteq Boundaries(s \o t)
  BY <1>1 DEF Boundaries
<1>3. Len(s) \in 0 .. Len(s) /\ Prefix(s, Len(s)) = s
  BY SubSeqFull DEF Prefix
<1> QED BY <1>1, <1>2, <1>3

\* The caret behind what is put in its place is on a boundary.
LEMMA SpliceIs ==
  ASSUME NEW u \in Seq(Chars), NEW m \in Seq(Chars), NEW v \in Seq(Chars)
  PROVE  /\ u \o m \o v \in Seq(Chars)
         /\ Length(u) + Length(m) \in Boundaries(u \o m \o v)
         /\ u \o v \in Seq(Chars) /\ Length(u) \in Boundaries(u \o v)
<1>1. u \o m \in Seq(Chars) /\ Length(u \o m) = Length(u) + Length(m)
  BY Lengths
<1>2. u \o m \o v \in Seq(Chars) /\ u \o v \in Seq(Chars)
  OBVIOUS
<1> QED BY <1>1, <1>2, LeftEdge

\* Both ends of a text are between characters.
LEMMA EndsAre ==
  ASSUME NEW s \in Seq(Chars)
  PROVE  Length(s) \in Boundaries(s) /\ 0 \in Boundaries(s) /\ Boundaries(s) \subseteq Nat
<1>1. Len(s) \in 0 .. Len(s) /\ 0 \in 0 .. Len(s) /\ Prefix(s, 0) = <<>>
  BY DEF Prefix
<1>2. Prefix(s, Len(s)) = s
  BY SubSeqFull DEF Prefix
<1>3. Length(s) \in Boundaries(s) /\ 0 \in Boundaries(s)
  BY <1>1, <1>2, Lengths DEF Boundaries
<1>4. Boundaries(s) \subseteq Nat
  BY PrefixIs DEF Boundaries
<1> QED BY <1>3, <1>4

\* The boundaries next to one are boundaries.
LEMMA NeighboursAre ==
  ASSUME NEW s \in Seq(Chars), NEW b \in Boundaries(s)
  PROVE  /\ prev_char_boundary(s, b) \in Boundaries(s)
         /\ next_char_boundary(s, b) \in Boundaries(s)
<1>1. /\ Boundaries(s) \subseteq Nat /\ 0 \in Boundaries(s)
      /\ Length(s) \in Boundaries(s) /\ b \in Nat
  BY EndsAre
<1> DEFINE S == {0} \cup {c \in Boundaries(s) : c < b}
           T == {Length(s)} \cup {c \in Boundaries(s) : c > b}
<1>2. Max(S) \in S
  <2>1. S \in SUBSET (0 .. b) /\ S # {}
    BY <1>1
  <2> HIDE DEF S
  <2> QED BY <1>1, <2>1, Greatest
<1>3. Min(T) \in T
  <2>1. T \subseteq Nat /\ T # {}
    BY <1>1
  <2> HIDE DEF T
  <2>2. \E x \in T : \A y \in T : x <= y
    BY <2>1, Least
  <2> QED BY <2>2 DEF Min
<1>4. S \subseteq Boundaries(s) /\ T \subseteq Boundaries(s)
  BY <1>1
<1>5. prev_char_boundary(s, b) = Max(S) /\ next_char_boundary(s, b) = Min(T)
  BY DEF prev_char_boundary, next_char_boundary
<1> HIDE DEF S, T
<1> QED BY <1>2, <1>3, <1>4, <1>5

\* What is remembered of a text is a text.
LEMMA TrimIs ==
  ASSUME NEW s \in Seq(Chars)
  PROVE  Trim(s) \in Seq(Chars)
<1> DEFINE dark == {i \in DOMAIN s : s[i] \notin White}
<1>1. CASE dark = {}
  BY <1>1 DEF Trim
<1>2. CASE dark # {}
  <2>1. Len(s) \in Nat /\ DOMAIN s = 1 .. Len(s)
    OBVIOUS
  <2>2. dark \in SUBSET (0 .. Len(s)) /\ dark \subseteq Nat /\ dark \subseteq 1 .. Len(s)
    BY <2>1
  <2>3. Trim(s) = SubSeq(s, Min(dark), Max(dark))
    BY <1>2 DEF Trim
  <2> HIDE DEF dark
  <2>4. Max(dark) \in 1 .. Len(s)
    BY <1>2, <2>1, <2>2, Greatest
  <2>5. Min(dark) \in 1 .. Len(s)
    <3>1. \E x \in dark : \A y \in dark : x <= y
      BY <1>2, <2>2, Least
    <3> QED BY <2>2, <3>1 DEF Min
  <2> DEFINE a == Min(dark)
             z == Max(dark)
  <2>6. a \in 1 .. Len(s) /\ z \in 1 .. Len(s) /\ \A i \in a .. z : s[i] \in Chars
    BY <2>1, <2>4, <2>5
  <2> HIDE DEF a, z
  <2>7. SubSeq(s, a, z) \in Seq(Chars)
    BY <2>1, <2>6, SubSeqProperties
  <2> QED BY <2>3, <2>7 DEF a, z
<1> QED BY <1>1, <1>2

-----------------------------------------------------------------------------
(* The walk to the caret.                                                      *)

Place == [row : Nat, col : Nat, start : Nat, at : Nat]
Origin == [row |-> 0, col |-> 0, start |-> 0, at |-> 0]

\* Walk's step over one character.
Pace(w, c) ==
  IF c = Newline THEN [row |-> w.row + 1, col |-> 0, start |-> w.at + 1, at |-> w.at + 1]
  ELSE IF Wraps(w.col, c)
  THEN [row |-> w.row + 1, col |-> Cols[c], start |-> w.at, at |-> w.at + Bytes[c]]
  ELSE [w EXCEPT !.col = @ + Cols[c], !.at = @ + Bytes[c]]

\* What the fold of Walk looks for.
Walking(p, g) ==
  g = [S \in SUBSET DOMAIN p |-> IF S = {} THEN Origin ELSE Pace(g[S \ {Max(S)}], p[Max(S)])]

\* A step goes on by the bytes of the character; the row begins where it did,
\* before it or behind it.
LEMMA PaceIs ==
  ASSUME NEW w \in Place, NEW c \in Chars
  PROVE  /\ Pace(w, c) \in Place
         /\ Pace(w, c).at = w.at + Bytes[c]
         /\ Pace(w, c).start \in {w.start, w.at, w.at + Bytes[c]}
<1>1. Bytes[c] \in 1 .. 4 /\ Cols[c] \in 0 .. 2 /\ (c = Newline => Bytes[c] = 1)
  BY PromptAssumption DEF PromptAssumption
<1>2. w.row + 1 \in Nat /\ w.at + 1 \in Nat /\ w.at + Bytes[c] \in Nat /\ w.col + Cols[c] \in Nat
      /\ w.start \in Nat /\ w.row \in Nat /\ w.at \in Nat /\ Cols[c] \in Nat
  BY <1>1 DEF Place
<1>3. CASE c = Newline
  BY <1>1, <1>2, <1>3 DEF Pace, Place
<1>4. CASE c # Newline /\ Wraps(w.col, c)
  BY <1>2, <1>4 DEF Pace, Place
<1>5. CASE c # Newline /\ ~Wraps(w.col, c)
  <2>1. Pace(w, c) = [w EXCEPT !.col = w.col + Cols[c], !.at = w.at + Bytes[c]]
    BY <1>5 DEF Pace
  <2> QED BY <1>2, <2>1 DEF Place
<1> QED BY <1>3, <1>4, <1>5

Walked == [p \in Seq(Chars) |-> FoldLeft(Pace, Origin, p)]

\* The walk, one character at a time.
LEMMA WalkedAdds ==
  /\ Walked \in [Seq(Chars) -> Place] /\ Walked[<<>>] = Origin
  /\ \A p \in Seq(Chars), c \in Chars : Walked[Append(p, c)] = Pace(Walked[p], c)
<1> DEFINE op == [c \in Chars |-> [w \in Place |-> Pace(w, c)]]
<1>1. /\ Origin \in Place /\ op \in [Chars -> [Place -> Place]]
      /\ \A c \in Chars, w \in Place : op[c][w] = Pace(w, c)
  BY PaceIs DEF Origin, Place
<1> HIDE DEF op
<1>2. ASSUME NEW s \in Seq(Chars)
      PROVE  \E g : Folds(Len(s), Place, Origin, Along(op, s), g) /\ Walked[s] = g[1 .. Len(s)]
  <2>1. Walked[s] = (CHOOSE g : Walking(s, g))[DOMAIN s]
    BY DEF Walked, FoldLeft, MapThenFoldSet, Walking
  <2>2. PICK h : Follows(Chars, Place, Origin, op, s, h) /\ Stays(Chars, Place, s, h)
    BY <1>1, FoldAlong
  <2>3. Walking(s, h)
    BY <1>1, <2>2 DEF Follows, Stays, Walking
  <2> DEFINE g == CHOOSE g : Walking(s, g)
  <2>4. Walking(s, g)
    BY <2>3
  <2> HIDE DEF g
  <2>5. Follows(Chars, Place, Origin, op, s, g)
    BY <1>1, <2>4 DEF Follows, Walking
  <2>6. Folds(Len(s), Place, Origin, Along(op, s), g) /\ DOMAIN s = 1 .. Len(s)
    BY <1>1, <2>5, FoldAlong
  <2> QED BY <2>1, <2>6 DEF g
<1>3. Walked = [s \in Seq(Chars) |-> Walked[s]]
  BY DEF Walked
<1>4. FoldOf(Chars, Place, Origin, op, Walked)
  BY <1>1, <1>2, <1>3 DEF FoldOf
<1>5. Adds(Chars, Place, Origin, op, Walked)
  BY <1>4, FoldAdds
<1>6. ASSUME NEW s \in Seq(Chars), NEW c \in Chars PROVE Walked[Append(s, c)] = Pace(Walked[s], c)
  BY <1>1, <1>5 DEF Adds
<1> QED BY <1>5, <1>6 DEF Adds

-----------------------------------------------------------------------------
(* The rows of a text, and a text without one of its characters.               *)

Texts == Seq(Chars)
Blocks == {b \in Seq(Texts) : b # <<>>}

\* The step of Rows.
Put(rows, c) ==
  IF c = Newline THEN Append(rows, <<>>)
  ELSE IF Wide(Last(rows)) + Cols[c] > Width THEN Append(rows, <<c>>)
  ELSE Append(Front(rows), Append(Last(rows), c))

Putting(s, g) ==
  g = [S \in SUBSET DOMAIN s |-> IF S = {} THEN <<<<>>>> ELSE Put(g[S \ {Max(S)}], s[Max(S)])]

\* The step of Without.
Drop(out, c, d) == IF c = d THEN out ELSE Append(out, c)

Dropping(s, d, g) ==
  g = [S \in SUBSET DOMAIN s |-> IF S = {} THEN <<>> ELSE Drop(g[S \ {Max(S)}], s[Max(S)], d)]

RowsOf == [s \in Seq(Chars) |-> Rows(s)]
Left(d) == [s \in Seq(Chars) |-> Without(s, d)]

\* A sequence of rows that is not empty is all but the last of them, and the last.
LEMMA BlockIs ==
  ASSUME NEW b \in Blocks
  PROVE  /\ Len(b) \in Nat \ {0} /\ Last(b) \in Texts /\ Front(b) \in Seq(Texts)
         /\ Len(Front(b)) = Len(b) - 1 /\ b = Append(Front(b), Last(b))
<1> HIDE DEF Texts
<1>1. b \in Seq(Texts) /\ Len(b) \in Nat \ {0}
  BY DEF Blocks
<1>2. Front(b) \in Seq(Texts) /\ Len(Front(b)) = Len(b) - 1 /\ Last(b) \in Texts
  <2>1. Len(b) \in 1 .. Len(b) /\ \A i \in 1 .. Len(b) : b[i] \in Texts
    BY <1>1
  <2>2. Last(b) \in Texts
    BY <2>1 DEF Last
  <2>3. Front(b) \in Seq(Texts) /\ Len(Front(b)) = Len(b) - 1
    <3> DEFINE n == Len(b) - 1
    <3>1. n \in Nat /\ \A i \in 1 .. n : b[i] \in Texts
      BY <1>1, <2>1
    <3> HIDE DEF n
    <3>2. SubSeq(b, 1, n) \in Seq(Texts) /\ Len(SubSeq(b, 1, n)) = n
      BY <3>1, SubSeqProperties
    <3> QED BY <3>2 DEF Front, n
  <2> QED BY <2>2, <2>3
<1>3. b = Append(Front(b), Last(b))
  BY <1>1 DEF Front, Last
<1> QED BY <1>1, <1>2, <1>3

LEMMA PutIs ==
  ASSUME NEW b \in Blocks, NEW c \in Chars
  PROVE  Put(b, c) \in Blocks
<1> DEFINE l == Last(b)
           f == Front(b)
<1>1. l \in Texts /\ f \in Seq(Texts) /\ b \in Seq(Texts)
  BY BlockIs DEF Blocks
<1> HIDE DEF l, f
<1>2. <<>> \in Texts /\ <<c>> \in Texts /\ Append(l, c) \in Texts
  BY <1>1 DEF Texts
<1> HIDE DEF Texts
<1>3. ASSUME NEW r \in Texts, NEW q \in Seq(Texts) PROVE Append(q, r) \in Blocks
  BY DEF Blocks
<1>4. Put(b, c) \in {Append(b, <<>>), Append(b, <<c>>), Append(f, Append(l, c))}
  BY DEF Put, l, f
<1> QED BY <1>1, <1>2, <1>3, <1>4

\* The rows of the box, one character at a time.
LEMMA RowsAdd ==
  /\ RowsOf \in [Seq(Chars) -> Blocks] /\ RowsOf[<<>>] = <<<<>>>>
  /\ \A p \in Seq(Chars), c \in Chars : RowsOf[Append(p, c)] = Put(RowsOf[p], c)
<1> DEFINE op == [c \in Chars |-> [b \in Blocks |-> Put(b, c)]]
           one == <<<<>>>>
<1>1. /\ op \in [Chars -> [Blocks -> Blocks]]
      /\ \A c \in Chars, b \in Blocks : op[c][b] = Put(b, c)
  BY PutIs
<1>2. one \in Blocks
  <2>1. <<>> \in Texts
    BY DEF Texts
  <2> HIDE DEF Texts
  <2> QED BY <2>1 DEF Blocks
<1> HIDE DEF op
<1>3. ASSUME NEW s \in Seq(Chars)
      PROVE  \E g : Folds(Len(s), Blocks, one, Along(op, s), g) /\ RowsOf[s] = g[1 .. Len(s)]
  <2>1. RowsOf[s] = (CHOOSE g : Putting(s, g))[DOMAIN s]
    BY DEF RowsOf, Rows, FoldLeft, MapThenFoldSet, Putting, Put
  <2> HIDE DEF one
  <2>2. PICK h : Follows(Chars, Blocks, one, op, s, h) /\ Stays(Chars, Blocks, s, h)
    BY <1>1, <1>2, FoldAlong
  <2>3. Putting(s, h)
    BY <1>1, <2>2 DEF Follows, Stays, Putting, one
  <2> DEFINE g == CHOOSE g : Putting(s, g)
  <2>4. Putting(s, g)
    BY <2>3
  <2> HIDE DEF g
  <2>5. Follows(Chars, Blocks, one, op, s, g)
    BY <1>1, <2>4 DEF Follows, Putting, one
  <2>6. Folds(Len(s), Blocks, one, Along(op, s), g) /\ DOMAIN s = 1 .. Len(s)
    BY <1>1, <1>2, <2>5, FoldAlong
  <2> QED BY <2>1, <2>6 DEF g
<1>4. RowsOf = [s \in Seq(Chars) |-> RowsOf[s]]
  BY DEF RowsOf
<1> HIDE DEF one
<1>5. FoldOf(Chars, Blocks, one, op, RowsOf)
  BY <1>1, <1>2, <1>3, <1>4 DEF FoldOf
<1>6. Adds(Chars, Blocks, one, op, RowsOf)
  BY <1>5, FoldAdds
<1>7. ASSUME NEW s \in Seq(Chars), NEW c \in Chars PROVE RowsOf[Append(s, c)] = Put(RowsOf[s], c)
  BY <1>1, <1>6 DEF Adds
<1> QED BY <1>6, <1>7 DEF Adds, one

\* What is left without the character d, one character at a time.
LEMMA WithoutAdds ==
  ASSUME NEW d
  PROVE  /\ Left(d) \in [Seq(Chars) -> Seq(Chars)] /\ Left(d)[<<>>] = <<>>
         /\ \A p \in Seq(Chars), c \in Chars : Left(d)[Append(p, c)] = Drop(Left(d)[p], c, d)
<1> DEFINE op == [c \in Chars |-> [t \in Texts |-> Drop(t, c, d)]]
           none == <<>>
           L == Left(d)
<1>1. /\ op \in [Chars -> [Texts -> Texts]] /\ none \in Texts
      /\ \A c \in Chars, t \in Texts : op[c][t] = Drop(t, c, d)
  <2>1. none \in Texts
    BY DEF Texts
  <2>2. ASSUME NEW c \in Chars, NEW t \in Texts PROVE Drop(t, c, d) \in Texts
    BY DEF Texts, Drop
  <2> QED BY <2>1, <2>2
<1> HIDE DEF op
<1>2. ASSUME NEW s \in Seq(Chars)
      PROVE  \E g : Folds(Len(s), Texts, none, Along(op, s), g) /\ L[s] = g[1 .. Len(s)]
  <2>1. L[s] = (CHOOSE g : Dropping(s, d, g))[DOMAIN s]
    BY DEF Left, Without, FoldLeft, MapThenFoldSet, Dropping, Drop
  <2> HIDE DEF none, L
  <2>2. PICK h : Follows(Chars, Texts, none, op, s, h) /\ Stays(Chars, Texts, s, h)
    BY <1>1, FoldAlong
  <2>3. Dropping(s, d, h)
    BY <1>1, <2>2 DEF Follows, Stays, Dropping, none
  <2> DEFINE g == CHOOSE g : Dropping(s, d, g)
  <2>4. Dropping(s, d, g)
    BY <2>3
  <2> HIDE DEF g
  <2>5. Follows(Chars, Texts, none, op, s, g)
    BY <1>1, <2>4 DEF Follows, Dropping, none
  <2>6. Folds(Len(s), Texts, none, Along(op, s), g) /\ DOMAIN s = 1 .. Len(s)
    BY <1>1, <2>5, FoldAlong
  <2> QED BY <2>1, <2>6 DEF g
<1>3. L = [s \in Seq(Chars) |-> L[s]]
  BY DEF Left
<1> HIDE DEF none, L
<1>4. FoldOf(Chars, Texts, none, op, L)
  BY <1>1, <1>2, <1>3 DEF FoldOf
<1>5. Adds(Chars, Texts, none, op, L)
  BY <1>4, FoldAdds
<1>6. ASSUME NEW s \in Seq(Chars), NEW c \in Chars PROVE L[Append(s, c)] = Drop(L[s], c, d)
  <2>1. L[s] \in Texts /\ L[Append(s, c)] = op[c][L[s]]
    BY <1>5 DEF Adds
  <2> QED BY <1>1, <2>1
<1> QED BY <1>5, <1>6 DEF Adds, none, L, Texts

-----------------------------------------------------------------------------
(* The rows of a block, one behind the other.                                  *)

\* f has the texts of the beginnings of b.
Joined(b, f) ==
  /\ f \in [0 .. Len(b) -> Texts] /\ f[0] = <<>>
  /\ \A i \in 1 .. Len(b) : f[i] = f[i - 1] \o b[i]

\* What the recursion of FlattenSeq looks for.
Flattening(b, g) == g = [i \in 1 .. Len(b) |-> IF i = 1 THEN b[i] ELSE g[i - 1] \o b[i]]

LEMMA FlattenIs ==
  ASSUME NEW b \in Seq(Texts)
  PROVE  \E f : Joined(b, f) /\ FlattenSeq(b) = f[Len(b)]
<1> DEFINE n == Len(b)
           step == [i \in 1 .. n |-> [u \in Texts |-> u \o b[i]]]
           none == <<>>
<1>1. n \in Nat /\ none \in Texts /\ \A i \in 1 .. n : b[i] \in Texts
  <2>1. none \in Texts
    BY DEF Texts
  <2> HIDE DEF Texts
  <2> QED BY <2>1
<1>2. /\ step \in StepFunctions(n, Texts)
      /\ \A i \in 1 .. n, u \in Texts : step[i][u] = u \o b[i]
  <2>1. ASSUME NEW i \in 1 .. n, NEW u \in Texts PROVE u \o b[i] \in Texts
    <3> DEFINE r == b[i]
    <3>1. r \in Texts
      BY <1>1
    <3> HIDE DEF r
    <3>2. u \o r \in Texts
      BY <3>1 DEF Texts
    <3> QED BY <3>2 DEF r
  <2> HIDE DEF Texts, n
  <2> QED BY <2>1 DEF StepFunctions
<1> HIDE DEF step, n, none
<1>3. PICK f \in [0 .. n -> Texts] :
        \A i \in 0 .. n : f[i] = IF i = 0 THEN none ELSE step[i][f[i - 1]]
  <2>1. Solvable(n, Texts, none, step)
    BY <1>1, <1>2, RecursionExists
  <2> QED BY <2>1 DEF Solvable
<1>4. f[0] = none
  BY <1>1, <1>3
<1>5. ASSUME NEW i \in 1 .. n PROVE f[i] = f[i - 1] \o b[i]
  <2>1. i \in 0 .. n /\ i - 1 \in 0 .. n /\ i # 0
    BY <1>1
  <2>2. f[i - 1] \in Texts
    BY <2>1
  <2> QED BY <1>2, <1>3, <2>1, <2>2
<1>6. Joined(b, f)
  BY <1>3, <1>4, <1>5 DEF Joined, n, none
<1>7. CASE n = 0
  <2>1. b = <<>>
    BY <1>7 DEF n
  <2>2. FlattenSeq(b) = <<>>
    BY <1>7, <2>1 DEF FlattenSeq, n
  <2> QED BY <1>4, <1>6, <1>7, <2>2 DEF n, none
<1>8. CASE n # 0
  <2> DEFINE h == [i \in 1 .. n |-> f[i]]
  <2>1. Flattening(b, h)
    <3>1. ASSUME NEW i \in 1 .. n PROVE f[i] = IF i = 1 THEN b[i] ELSE h[i - 1] \o b[i]
      <4>1. CASE i = 1
        <5> DEFINE r == b[1]
        <5>1. r \in Texts /\ f[1] = <<>> \o r
          <6>1. i - 1 = 0 /\ b[i] \in Texts
            BY <1>1, <4>1
          <6> QED BY <1>4, <1>5, <4>1, <6>1 DEF none
        <5> HIDE DEF r
        <5>2. f[1] = r
          BY <5>1, ConcatEmptySeq DEF Texts
        <5> QED BY <4>1, <5>2 DEF r
      <4>2. CASE i # 1
        <5>1. i - 1 \in 1 .. n
          BY <1>1, <4>2
        <5>2. h[i - 1] = f[i - 1]
          BY <5>1
        <5> HIDE DEF h
        <5> QED BY <1>5, <4>2, <5>2
      <4> QED BY <4>1, <4>2
    <3> DEFINE e(i) == IF i = 1 THEN b[i] ELSE h[i - 1] \o b[i]
    <3>2. \A i \in 1 .. n : f[i] = e(i)
      BY <3>1
    <3> HIDE DEF e
    <3>3. h = [i \in 1 .. n |-> e(i)]
      BY <3>2
    <3> QED BY <3>3 DEF Flattening, n, e
  <2> HIDE DEF h
  <2> DEFINE g == CHOOSE g : Flattening(b, g)
  <2>2. Flattening(b, g)
    BY <2>1
  <2>3. FlattenSeq(b) = g[n]
    BY <1>8 DEF FlattenSeq, Flattening, n
  <2> HIDE DEF g
  <2>4. \A i \in 1 .. n : g[i] = IF i = 1 THEN b[i] ELSE g[i - 1] \o b[i]
    BY <2>2 DEF Flattening, n
  <2>5. \A i \in 1 .. n : h[i] = IF i = 1 THEN b[i] ELSE h[i - 1] \o b[i]
    BY <2>1 DEF Flattening, n
  <2> DEFINE P == {i \in 0 .. n : i = 0 \/ g[i] = h[i]}
  <2>6. 0 \in P
    BY <1>1
  <2>7. ASSUME NEW i \in 1 .. n, i - 1 \in P PROVE i \in P
    <3>1. i \in 0 .. n /\ i # 0
      BY <1>1
    <3>2. i # 1 => g[i - 1] = h[i - 1]
      BY <2>7
    <3>3. g[i] = h[i]
      BY <2>4, <2>5, <3>2
    <3> QED BY <3>1, <3>3
  <2> HIDE DEF P
  <2>8. \A i \in 0 .. n : i \in P
    BY <1>1, <2>6, <2>7, UpTo
  <2>9. n \in 0 .. n /\ n \in 1 .. n
    BY <1>1, <1>8
  <2>10. g[n] = h[n]
    BY <1>8, <2>8, <2>9 DEF P
  <2>11. h[n] = f[n]
    BY <2>9 DEF h
  <2> QED BY <1>6, <2>3, <2>10, <2>11 DEF n
<1> QED BY <1>7, <1>8

\* The rows of a block and one more.
LEMMA FlattenAppend ==
  ASSUME NEW b \in Seq(Texts), NEW r \in Texts
  PROVE  /\ FlattenSeq(b) \in Texts /\ FlattenSeq(<<>>) = <<>>
         /\ FlattenSeq(Append(b, r)) = FlattenSeq(b) \o r
<1> DEFINE t == Append(b, r)
           n == Len(b)
           m == Len(t)
<1>1. /\ t \in Seq(Texts) /\ n \in Nat /\ m = n + 1 /\ t[m] = r
      /\ \A i \in 1 .. n : b[i] = t[i]
  <2> HIDE DEF Texts
  <2> QED OBVIOUS
<1> HIDE DEF t
<1>2. PICK f : Joined(b, f) /\ FlattenSeq(b) = f[n]
  BY FlattenIs
<1>3. PICK h : Joined(t, h) /\ FlattenSeq(t) = h[m]
  BY <1>1, FlattenIs
<1>4. FlattenSeq(b) \in Texts
  <2>1. n \in 0 .. n
    BY <1>1
  <2> QED BY <1>2, <2>1 DEF Joined
<1>5. FlattenSeq(<<>>) = <<>>
  BY DEF FlattenSeq
<1> DEFINE P == {i \in 0 .. n : f[i] = h[i]}
<1>6. f[n] = h[n]
  <2>1. f[0] = <<>> /\ h[0] = <<>> /\ \A i \in 1 .. n : f[i] = f[i - 1] \o b[i]
    BY <1>2 DEF Joined
  <2>2. ASSUME NEW i \in 1 .. n PROVE h[i] = h[i - 1] \o t[i]
    <3>1. i \in 1 .. m
      BY <1>1
    <3> QED BY <1>3, <3>1 DEF Joined
  <2>3. h[0] = <<>>
    BY <1>3 DEF Joined
  <2>4. 0 \in P
    BY <1>1, <2>1, <2>3
  <2>5. ASSUME NEW i \in 1 .. n, i - 1 \in P PROVE i \in P
    <3>1. f[i] = h[i]
      BY <1>1, <2>1, <2>2, <2>5
    <3>2. i \in 0 .. n
      BY <1>1
    <3> QED BY <3>1, <3>2
  <2> HIDE DEF P
  <2>6. \A i \in 0 .. n : i \in P
    BY <1>1, <2>4, <2>5, UpTo
  <2>7. n \in 0 .. n
    BY <1>1
  <2> QED BY <2>6, <2>7 DEF P
<1>7. h[m] = h[n] \o r
  <2>1. m \in 1 .. m /\ m - 1 = n
    BY <1>1
  <2>2. h[m] = h[m - 1] \o t[m]
    BY <1>3, <2>1 DEF Joined
  <2> QED BY <1>1, <2>1, <2>2
<1> QED BY <1>2, <1>3, <1>4, <1>5, <1>6, <1>7 DEF t

-----------------------------------------------------------------------------
(* The caret's walk and the rows the box draws.                                *)

\* Three texts, one behind the other, however they are grouped.
Regroups(s, t, u) == (s \o t) \o u = s \o (t \o u)

LEMMA Grouped == \A s, t, u \in Texts : Regroups(s, t, u)
BY ConcatAssociative DEF Texts, Regroups

LEMMA Pushed == \A s, t \in Texts, c \in Chars : s \o Append(t, c) = Append(s \o t, c)
BY AppendBehind DEF Texts

\* Texts, and how they are put one behind the other.
LEMMA TextsAre ==
  /\ <<>> \in Texts
  /\ \A c \in Chars : <<c>> \in Texts
  /\ \A s \in Texts : s \o <<>> = s /\ <<>> \o s = s
  /\ \A s \in Texts, c \in Chars : Append(s, c) \in Texts /\ Append(s, c) = s \o <<c>>
  /\ \A s, t \in Texts : s \o t \in Texts
  /\ \A s, t, u \in Texts : (s \o t) \o u = s \o (t \o u)
  /\ \A s, t \in Texts, c \in Chars : s \o Append(t, c) = Append(s \o t, c)
<1>1. <<>> \in Texts /\ \A c \in Chars : <<c>> \in Texts
  BY DEF Texts
<1>2. ASSUME NEW s \in Texts PROVE s \o <<>> = s /\ <<>> \o s = s
  BY ConcatEmptySeq DEF Texts
<1>3. ASSUME NEW s \in Texts, NEW c \in Chars
      PROVE  Append(s, c) \in Texts /\ Append(s, c) = s \o <<c>>
  BY DEF Texts
<1>4. ASSUME NEW s \in Texts, NEW t \in Texts PROVE s \o t \in Texts
  BY DEF Texts
<1>5. ASSUME NEW s \in Texts, NEW t \in Texts, NEW u \in Texts
      PROVE  (s \o t) \o u = s \o (t \o u)
  BY ConcatAssociative DEF Texts
<1>6. ASSUME NEW s \in Texts, NEW t \in Texts, NEW c \in Chars
      PROVE  s \o Append(t, c) = Append(s \o t, c)
  BY DEF Texts
<1> HIDE DEF Texts
<1>7. \A s \in Texts : s \o <<>> = s /\ <<>> \o s = s
  BY <1>2
<1>8. \A s, t, u \in Texts : (s \o t) \o u = s \o (t \o u)
  BY <1>5
<1>9. \A s, t \in Texts, c \in Chars : s \o Append(t, c) = Append(s \o t, c)
  BY <1>6
<1>10. \A s \in Texts, c \in Chars : Append(s, c) \in Texts /\ Append(s, c) = s \o <<c>>
  BY <1>3
<1> QED BY <1>1, <1>4, <1>7, <1>8, <1>9, <1>10

LEMMA Regroup ==
  ASSUME NEW s \in Texts, NEW t \in Texts, NEW u \in Texts
  PROVE  (s \o t) \o u = s \o (t \o u) /\ t \o u \in Texts /\ s \o t \in Texts
<1>1. (s \o t) \o u = s \o (t \o u)
  BY ConcatAssociative DEF Texts
<1> QED BY <1>1 DEF Texts

\* The width in columns, over texts.
LEMMA Widths ==
  /\ Wide(<<>>) = 0
  /\ \A s \in Texts : Wide(s) \in Nat
  /\ \A s \in Texts, c \in Chars : Wide(Append(s, c)) = Wide(s) + Cols[c]
  /\ \A s, t \in Texts : Wide(s \o t) = Wide(s) + Wide(t)
  /\ \A c \in Chars : Wide(<<c>>) = Cols[c] /\ Cols[c] \in 0 .. 2
<1>1. \A s \in Texts : WidthOf[s] = Wide(s)
  BY DEF WidthOf, Texts
<1>2. Cols \in [Chars -> Nat] /\ \A c \in Chars : Cols[c] \in 0 .. 2
  BY PromptAssumption DEF PromptAssumption
<1>3. <<>> \in Texts
  BY DEF Texts
<1>4. ASSUME NEW s \in Texts, NEW c \in Chars PROVE Append(s, c) \in Texts
  BY DEF Texts
<1>5. ASSUME NEW s \in Texts, NEW t \in Texts
      PROVE  s \o t \in Texts /\ WidthOf[s \o t] = WidthOf[s] + WidthOf[t]
  BY <1>2, WidthAdds, AdditiveConcat DEF Texts
<1>6. /\ WidthOf[<<>>] = 0 /\ \A s \in Texts : WidthOf[s] \in Nat
      /\ \A s \in Texts, c \in Chars : WidthOf[Append(s, c)] = WidthOf[s] + Cols[c]
  BY WidthAdds DEF Additive, Texts
<1> HIDE DEF Texts
<1>7. Wide(<<>>) = 0 /\ \A s \in Texts : Wide(s) \in Nat
  BY <1>1, <1>3, <1>6
<1>8. ASSUME NEW s \in Texts, NEW c \in Chars PROVE Wide(Append(s, c)) = Wide(s) + Cols[c]
  BY <1>1, <1>4, <1>6
<1>9. ASSUME NEW s \in Texts, NEW t \in Texts PROVE Wide(s \o t) = Wide(s) + Wide(t)
  BY <1>1, <1>5
<1>10. ASSUME NEW c \in Chars PROVE Wide(<<c>>) = Cols[c] /\ Cols[c] \in 0 .. 2
  <2> DEFINE one == <<c>>
  <2>1. one = <<>> \o one /\ one = Append(<<>>, c)
    BY TextsAre
  <2> HIDE DEF one
  <2>2. Wide(one) = Cols[c]
    <3> DEFINE none == <<>>
    <3>1. none \in Texts /\ Wide(none) = 0 /\ one = Append(none, c)
      BY <1>3, <1>7, <2>1
    <3> HIDE DEF none
    <3>2. Wide(one) = 0 + Cols[c]
      BY <1>8, <3>1
    <3> QED BY <1>2, <3>2
  <2> QED BY <1>2, <2>2 DEF one
<1> QED BY <1>7, <1>8, <1>9, <1>10

\* p ends in the row l, which begins where the walk says.
Ends(p, l, w) ==
  /\ Wide(l) = w.col /\ w.col <= Width
  /\ \A i \in 1 .. Len(l) : l[i] # Newline
  /\ \E u \in Texts : p = u \o l /\ Length(u) = w.start

\* The rows of p and the walk over it agree.
Drawn(p) ==
  LET w == Walked[p]
      b == RowsOf[p] IN
  /\ Len(b) = w.row + 1 /\ Ends(p, Last(b), w)
  /\ w.at = Length(p)
  /\ FlattenSeq(b) = Left(Newline)[p]

\* One more character is drawn where the walk goes.
LEMMA DrawnStep ==
  ASSUME NEW p \in Texts, NEW c \in Chars, Drawn(p)
  PROVE  Drawn(Append(p, c)) /\ Walked[p].row <= Walked[Append(p, c)].row
<1> DEFINE w == Walked[p]
           v == Walked[Append(p, c)]
           b == RowsOf[p]
           d == RowsOf[Append(p, c)]
           l == Last(b)
           f == Front(b)
           t == Left(Newline)[p]
<1>1. /\ w \in Place /\ v = Pace(w, c) /\ b \in Blocks /\ d = Put(b, c) /\ t \in Texts
      /\ Left(Newline)[Append(p, c)] = Drop(t, c, Newline)
  BY WalkedAdds, RowsAdd, WithoutAdds DEF Texts
<1>2. /\ Len(b) \in Nat \ {0} /\ l \in Texts /\ f \in Seq(Texts)
      /\ Len(f) = Len(b) - 1 /\ b = Append(f, l) /\ b \in Seq(Texts)
  BY <1>1, BlockIs DEF Blocks
<1>3. PICK u \in Texts : p = u \o l /\ Length(u) = w.start
  BY DEF Drawn, Ends
<1>4. /\ Len(b) = w.row + 1 /\ w.at = Length(p) /\ Wide(l) = w.col /\ w.col <= Width
      /\ \A i \in 1 .. Len(l) : l[i] # Newline
      /\ FlattenSeq(b) = t
  BY DEF Drawn, Ends
<1> HIDE DEF w, v, b, d, l, f, t
<1>5. w.row \in Nat /\ w.col \in Nat /\ w.start \in Nat /\ w.at \in Nat
  BY <1>1 DEF Place
<1> DEFINE none == <<>>
           one == <<c>>
           pc == Append(p, c)
           lc == Append(l, c)
<1>6. /\ pc \in Texts /\ lc \in Texts /\ one \in Texts /\ none \in Texts
      /\ pc = p \o one /\ lc = l \o one /\ Append(t, c) = t \o one
      /\ pc \o none = pc /\ t \o none = t
      /\ pc = u \o lc
  <2>1. Append(u \o l, c) = u \o lc
    <3> HIDE DEF l
    <3>1. u \o Append(l, c) = Append(u \o l, c)
      BY <1>2, <1>3, Pushed, Zenon
    <3> QED BY <3>1
  <2>2. pc \in Texts /\ lc \in Texts /\ one \in Texts /\ none \in Texts
    BY <1>2, TextsAre
  <2>3. pc = p \o one /\ lc = l \o one /\ Append(t, c) = t \o one
    BY <1>1, <1>2, TextsAre
  <2>4. pc \o none = pc /\ t \o none = t
    BY <1>1, <2>2, TextsAre
  <2> QED BY <1>3, <2>1, <2>2, <2>3, <2>4
<1>7. /\ Length(pc) = w.at + Bytes[c] /\ Bytes[c] \in 1 .. 4
      /\ (c = Newline => Bytes[c] = 1)
      /\ v.at = w.at + Bytes[c]
  <2>1. Bytes[c] \in 1 .. 4 /\ (c = Newline => Bytes[c] = 1)
    BY PromptAssumption DEF PromptAssumption
  <2>2. v.at = w.at + Bytes[c]
    BY <1>1, PaceIs
  <2>3. Length(pc) = w.at + Bytes[c]
    BY <1>4, Lengths DEF Texts
  <2> QED BY <2>1, <2>2, <2>3
<1>8. /\ Wide(none) = 0 /\ Wide(one) = Cols[c] /\ Cols[c] \in 0 .. 2
      /\ Wide(lc) = w.col + Cols[c] /\ Width \in Nat /\ 2 <= Width
  <2>1. Wide(none) = 0 /\ Wide(one) = Cols[c] /\ Cols[c] \in 0 .. 2
    BY Widths
  <2>2. Wide(lc) = w.col + Cols[c]
    BY <1>2, <1>4, Widths
  <2>3. Width \in Nat /\ 2 <= Width
    BY PromptAssumption DEF PromptAssumption
  <2> QED BY <2>1, <2>2, <2>3
<1>0. Len(none) = 0 /\ \A i \in 1 .. Len(one) : one[i] # Newline \/ c = Newline
  OBVIOUS
<1>13. ASSUME c # Newline PROVE \A i \in 1 .. Len(lc) : lc[i] # Newline
  <2> SUFFICES ASSUME NEW i \in 1 .. Len(lc) PROVE lc[i] # Newline
    OBVIOUS
  <2>1. (i \in 1 .. Len(l) /\ lc[i] = l[i]) \/ lc[i] = c
    BY <1>2 DEF Texts
  <2> QED BY <1>4, <1>13, <2>1
<1> HIDE DEF none, one, pc, lc
<1>9. ASSUME NEW q \in Seq(Texts), NEW r \in Texts, d = Append(q, r),
             Len(q) = v.row, Wide(r) = v.col, v.col <= Width,
             \A i \in 1 .. Len(r) : r[i] # Newline,
             \E x \in Texts : pc = x \o r /\ Length(x) = v.start,
             FlattenSeq(q) \o r = Drop(t, c, Newline)
      PROVE  Drawn(pc)
  <2>1. Len(d) = v.row + 1 /\ Last(d) = r
    <3> HIDE DEF Texts
    <3>1. Len(d) = Len(q) + 1 /\ d[Len(d)] = r
      BY <1>9
    <3> QED BY <1>9, <3>1 DEF Last
  <2>2. FlattenSeq(d) = Left(Newline)[pc]
    BY <1>1, <1>9, FlattenAppend DEF pc
  <2>3. Ends(pc, Last(d), v)
    BY <1>9, <2>1 DEF Ends
  <2> QED BY <1>7, <2>1, <2>2, <2>3 DEF Drawn, v, d, pc
<1>10. CASE c = Newline
  <2>1. v = [row |-> w.row + 1, col |-> 0, start |-> w.at + 1, at |-> w.at + 1]
    BY <1>1, <1>10 DEF Pace
  <2>2. v.row = w.row + 1 /\ v.col = 0 /\ v.start = w.at + 1
    BY <2>1
  <2>3. d = Append(b, none)
    BY <1>1, <1>10 DEF Put, none
  <2>4. Drop(t, c, Newline) = t
    BY <1>10 DEF Drop
  <2>5. pc = pc \o none /\ Length(pc) = v.start
    BY <1>6, <1>7, <1>10, <2>2
  <2>6. \A i \in 1 .. Len(none) : none[i] # Newline
    BY <1>0
  <2>7. FlattenSeq(b) \o none = Drop(t, c, Newline)
    BY <1>4, <1>6, <2>4
  <2>8. v.col <= Width /\ Wide(none) = v.col /\ Len(b) = v.row /\ b \in Seq(Texts)
    BY <1>2, <1>4, <1>8, <2>2
  <2>9. \E x \in Texts : pc = x \o none /\ Length(x) = v.start
    BY <1>6, <2>5
  <2>10. d = Append(b, none)
    BY <2>3
  <2>11. Drawn(pc)
    BY <1>6, <1>9, <2>6, <2>7, <2>8, <2>9, <2>10
  <2> QED BY <1>5, <2>2, <2>11 DEF w, v, pc
<1>11. CASE c # Newline /\ w.col + Cols[c] > Width
  <2>1. v = [row |-> w.row + 1, col |-> Cols[c], start |-> w.at, at |-> w.at + Bytes[c]]
    BY <1>1, <1>11 DEF Pace, Wraps
  <2>2. v.row = w.row + 1 /\ v.col = Cols[c] /\ v.start = w.at
    BY <2>1
  <2>3. d = Append(b, one)
    BY <1>1, <1>4, <1>11 DEF Put, l, one
  <2>4. Drop(t, c, Newline) = t \o one
    BY <1>6, <1>11 DEF Drop
  <2>5. pc = p \o one /\ Length(p) = v.start
    BY <1>4, <1>6, <2>2
  <2>6. \A i \in 1 .. Len(one) : one[i] # Newline
    BY <1>0, <1>11
  <2>7. FlattenSeq(b) \o one = Drop(t, c, Newline)
    BY <1>4, <2>4
  <2>8. v.col <= Width
    BY <1>8, <2>2
  <2>9. Drawn(pc)
    BY <1>2, <1>4, <1>6, <1>8, <1>9, <2>2, <2>3, <2>5, <2>6, <2>7, <2>8
  <2> QED BY <1>5, <2>2, <2>9 DEF w, v, pc
<1>12. CASE c # Newline /\ ~(w.col + Cols[c] > Width)
  <2>1. v = [w EXCEPT !.col = w.col + Cols[c], !.at = w.at + Bytes[c]]
    BY <1>1, <1>12 DEF Pace, Wraps
  <2>2. v.row = w.row /\ v.col = w.col + Cols[c] /\ v.start = w.start
    BY <1>1, <2>1 DEF Place
  <2>3. d = Append(f, lc)
    BY <1>1, <1>4, <1>12 DEF Put, l, f, lc
  <2>4. Drop(t, c, Newline) = t \o one
    BY <1>6, <1>12 DEF Drop
  <2>5. pc = u \o lc /\ Length(u) = v.start
    BY <1>3, <1>6, <2>2
  <2>6. \A i \in 1 .. Len(lc) : lc[i] # Newline
    BY <1>12, <1>13
  <2>7. FlattenSeq(f) \o lc = Drop(t, c, Newline)
    <3>1. FlattenSeq(b) = FlattenSeq(f) \o l /\ FlattenSeq(f) \in Texts
      BY <1>2, FlattenAppend
    <3>2. (FlattenSeq(f) \o l) \o one = FlattenSeq(f) \o (l \o one)
      <4> DEFINE e == FlattenSeq(f)
      <4>1. e \in Texts /\ l \in Texts /\ one \in Texts
        BY <1>2, <1>6, <3>1
      <4> HIDE DEF e, l, one
      <4>2. Regroups(e, l, one)
        BY ONLY <4>1, Grouped
      <4> QED BY <4>2 DEF e, Regroups
    <3> QED BY <1>4, <1>6, <2>4, <3>1, <3>2
  <2>8. Len(f) = v.row /\ v.col <= Width
    BY <1>2, <1>4, <1>5, <1>8, <1>12, <2>2
  <2>9. Drawn(pc)
    BY <1>2, <1>3, <1>6, <1>8, <1>9, <2>2, <2>3, <2>5, <2>6, <2>7, <2>8
  <2> QED BY <1>5, <2>2, <2>9 DEF w, v, pc
<1> QED BY <1>10, <1>11, <1>12 DEF pc

\* input_visual_rows and cursor_visual_pos agree on every text.
LEMMA AllDrawn == \A p \in Texts : Drawn(p)
<1> DEFINE P == {p \in Texts : Drawn(p)}
<1>1. <<>> \in P
  <2>1. <<>> \in Texts /\ Walked[<<>>] = Origin /\ RowsOf[<<>>] = <<<<>>>> /\ Left(Newline)[<<>>] = <<>>
    BY WalkedAdds, RowsAdd, WithoutAdds DEF Texts
  <2>2. Origin.row = 0 /\ Origin.col = 0 /\ Origin.start = 0 /\ Origin.at = 0
    BY DEF Origin
  <2>3. Len(<<<<>>>>) = 1 /\ Last(<<<<>>>>) = <<>>
    BY DEF Last
  <2>4. FlattenSeq(<<<<>>>>) = <<>>
    <3> DEFINE none == <<>>
    <3>1. none \in Texts /\ none \in Seq(Texts) /\ <<none>> = Append(<<>>, none)
      BY <2>1
    <3>2. FlattenSeq(<<>>) = <<>> /\ <<>> \o none = none
      BY <3>1, FlattenAppend, TextsAre
    <3>3. FlattenSeq(Append(<<>>, none)) = FlattenSeq(<<>>) \o none
      BY <3>1, FlattenAppend
    <3> QED BY <3>1, <3>2, <3>3
  <2>5. Ends(<<>>, <<>>, Origin)
    <3>1. Wide(<<>>) = 0 /\ 0 <= Width /\ <<>> = <<>> \o <<>> /\ Length(<<>>) = 0
      BY Widths, Lengths, PromptAssumption DEF PromptAssumption
    <3>2. \A i \in 1 .. Len(<<>>) : <<>>[i] # Newline
      OBVIOUS
    <3> QED BY <2>1, <2>2, <3>1, <3>2 DEF Ends
  <2>6. Drawn(<<>>)
    BY <2>1, <2>2, <2>3, <2>4, <2>5, Lengths DEF Drawn
  <2> QED BY <2>1, <2>6
<1>2. ASSUME NEW p \in Seq(Chars), NEW c \in Chars, p \in P PROVE Append(p, c) \in P
  <2>1. Append(p, c) \in Texts
    BY DEF Texts
  <2> QED BY <1>2, <2>1, DrawnStep
<1> HIDE DEF P
<1>3. Seq(Chars) \subseteq P
  BY <1>1, <1>2, TextsUp
<1> QED BY <1>3 DEF P, Texts

\* The walk over a longer text is no fewer rows down.
LEMMA RowsGrow ==
  ASSUME NEW p \in Texts, NEW q \in Texts
  PROVE  Walked[p].row <= Walked[p \o q].row
<1> DEFINE P == {t \in Texts : Walked[p].row <= Walked[p \o t].row}
<1>1. Walked[p].row \in Nat
  BY WalkedAdds DEF Place, Texts
<1>2. <<>> \in P
  <2>1. <<>> \in Texts /\ p \o <<>> = p
    BY DEF Texts
  <2> QED BY <1>1, <2>1
<1>3. ASSUME NEW t \in Seq(Chars), NEW c \in Chars, t \in P PROVE Append(t, c) \in P
  <2>1. /\ t \in Texts /\ Append(t, c) \in Texts /\ p \o t \in Texts
        /\ p \o Append(t, c) = Append(p \o t, c) /\ Append(p \o t, c) \in Texts
    BY TextsAre DEF Texts
  <2>2. Walked[p \o t].row <= Walked[Append(p \o t, c)].row
    BY <2>1, AllDrawn, DrawnStep
  <2>3. Walked[p \o t].row \in Nat /\ Walked[Append(p \o t, c)].row \in Nat
    BY <2>1, WalkedAdds DEF Place, Texts
  <2>4. Walked[p].row <= Walked[p \o t].row
    BY <1>3
  <2>5. Walked[p].row <= Walked[Append(p \o t, c)].row
    BY <1>1, <2>2, <2>3, <2>4
  <2>6. Walked[p].row <= Walked[p \o Append(t, c)].row
    BY <2>1, <2>5
  <2> QED BY <2>1, <2>6
<1> HIDE DEF P
<1>4. Seq(Chars) \subseteq P
  BY <1>2, <1>3, TextsUp
<1> QED BY <1>4 DEF P, Texts

\* Where a text that is cut in two is cut.
LEMMA BeforeOf ==
  ASSUME NEW u \in Texts, NEW v \in Texts
  PROVE  /\ u \o v \in Texts /\ Length(u) \in Boundaries(u \o v)
         /\ Before(u \o v, Length(u)) = u /\ Behind(u \o v, Length(u)) = v
<1> DEFINE s == u \o v
           b == Length(u)
<1>1. s \in Seq(Chars) /\ b \in Boundaries(s)
  BY LeftEdge DEF Texts
<1>2. PICK k \in 0 .. Len(s) :
        /\ b = Length(Prefix(s, k)) /\ Before(s, b) = Prefix(s, k)
        /\ Behind(s, b) = SubSeq(s, k + 1, Len(s))
  BY <1>1, BeforeIs
<1> DEFINE n == Len(u)
<1>3. n \in 0 .. Len(s) /\ Prefix(s, n) = u
  BY DEF Prefix, Texts
<1>4. k = n
  <2>1. Len(s) \in Nat
    BY <1>1
  <2>2. k = n \/ k \in 0 .. (n - 1) \/ n \in 0 .. (k - 1)
    BY <1>3, <2>1
  <2>3. Length(Prefix(s, k)) = Length(Prefix(s, n)) /\ Length(Prefix(s, n)) \in Nat
    BY <1>1, <1>2, <1>3, PrefixIs
  <2> HIDE DEF s, n
  <2> QED BY <1>1, <1>3, <2>2, <2>3, OffsetsGrow
<1>5. Before(s, b) = u
  BY <1>2, <1>3, <1>4
<1>6. s = Before(s, b) \o Behind(s, b) /\ Behind(s, b) \in Texts
  BY <1>1, BeforeIs DEF Texts
<1>7. Behind(s, b) = v
  <2> DEFINE r == Behind(s, b)
  <2>1. u \o r = u \o v /\ r \in Texts
    BY <1>5, <1>6
  <2> HIDE DEF r
  <2>2. r = v
    BY <2>1, ConcatSimplifications DEF Texts
  <2> QED BY <2>2 DEF r
<1>8. s \in Texts
  BY <1>1 DEF Texts
<1> QED BY <1>1, <1>5, <1>7, <1>8

LEMMA WalkWalked ==
  ASSUME NEW s, NEW b, Before(s, b) \in Texts
  PROVE  Walk(s, b) = Walked[Before(s, b)]
<1> DEFINE p == Before(s, b)
<1>1. Walk(s, b) = (CHOOSE g : Walking(p, g))[DOMAIN p]
  BY DEF Walk, FoldLeft, MapThenFoldSet, Walking, Pace, Origin
<1>2. Walked[p] = (CHOOSE g : Walking(p, g))[DOMAIN p]
  <2> HIDE DEF p
  <2>1. p \in Texts
    BY DEF p
  <2> QED BY <2>1 DEF Walked, Texts, FoldLeft, MapThenFoldSet, Walking
<1> QED BY <1>1, <1>2

\* The caret's row, from its first character to the caret and on to the row's end.
LEMMA RowIs ==
  ASSUME NEW p \in Texts, NEW q \in Texts
  PROVE  LET s == p \o q
             b == Length(p)
             w == Walk(s, b)
             e == RowEnd(s, b) IN
         /\ w = Walked[p] /\ w.col <= Width
         /\ w.start <= b /\ b <= e
         /\ {w.start, e} \subseteq Boundaries(s)
         /\ Newline \notin Range(Behind(Before(s, e), w.start))
<1> DEFINE s == p \o q
           b == Length(p)
           w == Walk(s, b)
           e == RowEnd(s, b)
           l == Last(RowsOf[p])
           rest == Behind(s, w.start)
           Fitting(n) == /\ \A i \in 1 .. n : rest[i] # Newline
                      /\ Wide(Prefix(rest, n)) <= Width
           S == {n \in 0 .. Len(rest) : Fitting(n)}
           m == Max(S)
           x == Prefix(rest, m)
           y == SubSeq(rest, m + 1, Len(rest))
<1>1. /\ s \in Texts /\ b \in Boundaries(s) /\ Before(s, b) = p
      /\ b \in Nat
  BY BeforeOf, Lengths DEF Texts
<1>2. w = Walked[p]
  BY <1>1, WalkWalked
<1>3. l \in Texts
  <2>1. RowsOf[p] \in Blocks
    BY RowsAdd DEF Texts
  <2> QED BY <2>1, BlockIs
<1>4. Ends(p, l, w)
  BY <1>2, AllDrawn DEF Drawn
<1>5. PICK u \in Texts : p = u \o l /\ Length(u) = w.start
  BY <1>4 DEF Ends
<1> DEFINE lq == l \o q
<1>6. lq \in Texts /\ s = u \o lq
  <2>1. (u \o l) \o q = u \o lq /\ lq \in Texts
    <3> HIDE DEF l
    <3>1. u \in Texts /\ l \in Texts /\ q \in Texts
      BY <1>3, <1>5
    <3>2. Regroups(u, l, q)
      BY ONLY <3>1, Grouped
    <3> QED BY <1>3, <3>2, TextsAre DEF Regroups
  <2> HIDE DEF l, lq
  <2> QED BY <1>5, <2>1 DEF s
<1>7. rest = lq
  <2> HIDE DEF s, w, lq
  <2>1. Behind(u \o lq, Length(u)) = lq
    BY <1>6, BeforeOf
  <2> QED BY <1>5, <1>6, <2>1
<1>8. e = w.start + Length(x)
  BY DEF RowEnd, Fitting
<1> HIDE DEF s, b, w, e, rest, lq, l
<1>9. Len(l) \in 0 .. Len(rest) /\ Prefix(rest, Len(l)) = l
      /\ \A i \in 1 .. Len(l) : rest[i] = l[i]
  BY <1>3, <1>7 DEF Prefix, Texts, lq
<1>10. Fitting(Len(l))
  BY <1>4, <1>9 DEF Ends
<1> HIDE DEF Fitting
<1>11. m \in S /\ Len(l) <= m
  <2>1. Len(rest) \in Nat /\ S \in SUBSET (0 .. Len(rest)) /\ Len(l) \in S
    BY <1>6, <1>7, <1>9, <1>10 DEF Texts
  <2> HIDE DEF S
  <2> QED BY <2>1, Greatest
<1>12. m \in 0 .. Len(rest) /\ Fitting(m)
  BY <1>11
<1> HIDE DEF S, m
<1>13. x \in Texts /\ y \in Texts /\ rest = x \o y
  BY <1>6, <1>7, <1>12, PrefixIs DEF Texts
<1>14. Length(l) <= Length(x)
  <2>1. rest \in Seq(Chars) /\ Len(l) \in Nat /\ m \in Nat
    BY <1>3, <1>6, <1>7, <1>12 DEF Texts
  <2>2. Len(l) = m \/ Len(l) \in 0 .. (m - 1)
    BY <1>11, <2>1
  <2>3. Length(Prefix(rest, Len(l))) \in Nat
    BY <1>9, <2>1, PrefixIs
  <2>4. Len(l) = m \/ Length(Prefix(rest, Len(l))) < Length(x)
    BY <1>12, <2>1, <2>2, OffsetsGrow
  <2>5. Len(l) = m => x = l
    BY <1>9
  <2>6. Length(l) \in Nat /\ Length(x) \in Nat
    BY <1>3, <1>13, Lengths DEF Texts
  <2> QED BY <1>9, <2>4, <2>5, <2>6
<1> HIDE DEF x, y
<1> DEFINE ux == u \o x
<1>15. ux \in Texts /\ s = ux \o y
  <2>1. (u \o x) \o y = u \o (x \o y) /\ ux \in Texts
    BY <1>13, Regroup
  <2> HIDE DEF ux
  <2> QED BY <1>6, <1>7, <1>13, <2>1 DEF ux
<1>16. /\ b = w.start + Length(l) /\ Length(ux) = e
       /\ w.start \in Nat /\ Length(l) \in Nat /\ Length(x) \in Nat
  <2>1. Length(l) \in Nat /\ Length(x) \in Nat /\ Length(u) \in Nat
    BY <1>3, <1>13, Lengths DEF Texts
  <2>2. Length(u \o l) = Length(u) + Length(l)
    BY <1>3, Lengths DEF Texts
  <2>3. Length(u \o x) = Length(u) + Length(x)
    BY <1>13, Lengths DEF Texts
  <2> QED BY <1>5, <1>8, <2>1, <2>2, <2>3 DEF b
<1>17. w.start <= b /\ b <= e
  BY <1>8, <1>14, <1>16
<1>18. w.start \in Boundaries(s)
  BY <1>5, <1>6, BeforeOf
<1>19. e \in Boundaries(s) /\ Before(s, e) = ux
  <2> HIDE DEF ux
  <2>1. Length(ux) \in Boundaries(ux \o y) /\ Before(ux \o y, Length(ux)) = ux
    BY <1>13, <1>15, BeforeOf
  <2> QED BY <1>15, <1>16, <2>1
<1>20. Behind(ux, w.start) = x
  BY <1>5, <1>13, BeforeOf
<1>21. Newline \notin Range(x)
  <2>1. Len(x) = m /\ \A i \in 1 .. m : x[i] = rest[i]
    BY <1>6, <1>7, <1>12, PrefixIs DEF x, Texts
  <2>2. \A i \in 1 .. m : rest[i] # Newline
    BY <1>12 DEF Fitting
  <2>3. DOMAIN x = 1 .. m
    BY <1>13, <2>1 DEF Texts
  <2> QED BY <2>1, <2>2, <2>3 DEF Range
<1>22. Newline \notin Range(Behind(Before(s, e), w.start))
  BY <1>19, <1>20, <1>21
<1> QED BY <1>2, <1>4, <1>17, <1>18, <1>19, <1>22 DEF Ends, s, b, w, e

\* Home and End stop between two characters.
LEMMA RowEdges ==
  ASSUME NEW s \in Seq(Chars), NEW b \in Boundaries(s)
  PROVE  {Walk(s, b).start, RowEnd(s, b)} \subseteq Boundaries(s)
<1> DEFINE p == Before(s, b)
           q == Behind(s, b)
<1>1. p \in Texts /\ q \in Texts /\ s = p \o q /\ Length(p) = b
  BY BeforeIs DEF Texts
<1> HIDE DEF p, q
<1> QED BY <1>1, RowIs

-----------------------------------------------------------------------------
(* The invariant of the editor.                                               *)

\* The caret is between two characters of its text.
CaretOK(s, b) == s \in Seq(Chars) /\ b \in Boundaries(s)

UndoOK(u) ==
  /\ u \in Seq(Seq(Chars) \X Nat) /\ Len(u) <= UndoCap
  /\ \A i \in 1 .. Len(u) : CaretOK(u[i][1], u[i][2])

PromptsOK == prompts \in Seq(Seq(Chars)) /\ history_idx \in 0 .. Len(prompts)

FlagsOK ==
  /\ armed \in [exit : BOOLEAN, clear : BOOLEAN]
  /\ view \in {"chat", "overlay", "gone"} /\ replying \in BOOLEAN

EditorInv == CaretOK(input, cursor) /\ UndoOK(undo) /\ PromptsOK /\ FlagsOK

\* The invariant holds what is promised of the caret.
LEMMA EditorInvIs == EditorInv => CaretOnBoundary
<1> SUFFICES ASSUME EditorInv PROVE CaretOnBoundary
  OBVIOUS
<1>1. input \in Seq(Chars) /\ cursor \in Boundaries(input) /\ cursor \in Nat
  BY EndsAre DEF EditorInv, CaretOK
<1>2. DOMAIN undo = 1 .. Len(undo)
  BY DEF EditorInv, UndoOK
<1>3. \A i \in DOMAIN undo : undo[i][2] \in Boundaries(undo[i][1])
  BY <1>2 DEF EditorInv, UndoOK, CaretOK
<1>4. EditorTypeOK
  BY <1>1 DEF EditorInv, UndoOK, PromptsOK, FlagsOK, EditorTypeOK
<1> QED BY <1>1, <1>3, <1>4 DEF CaretOnBoundary

LEMMA EditorInvInit == EditorInit => EditorInv
<1> SUFFICES ASSUME EditorInit PROVE EditorInv
  OBVIOUS
<1>1. <<>> \in Seq(Chars) /\ Len(<<>>) = 0 /\ <<>> \in Seq(Seq(Chars))
      /\ <<>> \in Seq(Seq(Chars) \X Nat)
  OBVIOUS
<1>2. CaretOK(input, cursor)
  BY <1>1, EndsAre DEF EditorInit, CaretOK
<1>3. UndoOK(undo)
  <2>1. 0 <= UndoCap
    BY PromptAssumption DEF PromptAssumption
  <2> QED BY <1>1, <2>1 DEF EditorInit, UndoOK
<1>4. PromptsOK
  BY <1>1 DEF EditorInit, PromptsOK
<1>5. FlagsOK
  BY DEF EditorInit, FlagsOK
<1> QED BY <1>2, <1>3, <1>4, <1>5 DEF EditorInv
LEMMA ArmedIs ==
  ASSUME EditorInv
  PROVE  /\ [armed EXCEPT !.exit = FALSE] \in [exit : BOOLEAN, clear : BOOLEAN]
         /\ [armed EXCEPT !.exit = TRUE] \in [exit : BOOLEAN, clear : BOOLEAN]
         /\ [armed EXCEPT !.clear = FALSE] \in [exit : BOOLEAN, clear : BOOLEAN]
         /\ [exit |-> FALSE, clear |-> FALSE] \in [exit : BOOLEAN, clear : BOOLEAN]
         /\ [exit |-> FALSE, clear |-> TRUE] \in [exit : BOOLEAN, clear : BOOLEAN]
<1>1. armed \in [exit : BOOLEAN, clear : BOOLEAN]
  BY DEF EditorInv, FlagsOK
<1> DEFINE yes == TRUE
           no == FALSE
<1>2. yes \in BOOLEAN /\ no \in BOOLEAN
  OBVIOUS
<1> HIDE DEF yes, no
<1>3. /\ [armed EXCEPT !.exit = no] \in [exit : BOOLEAN, clear : BOOLEAN]
      /\ [armed EXCEPT !.exit = yes] \in [exit : BOOLEAN, clear : BOOLEAN]
      /\ [armed EXCEPT !.clear = no] \in [exit : BOOLEAN, clear : BOOLEAN]
  BY <1>1, <1>2
<1>4. /\ [exit |-> no, clear |-> no] \in [exit : BOOLEAN, clear : BOOLEAN]
      /\ [exit |-> no, clear |-> yes] \in [exit : BOOLEAN, clear : BOOLEAN]
  BY <1>2
<1> QED BY <1>3, <1>4 DEF yes, no

\* push_undo keeps snapshots that can be gone back to.
LEMMA PushUndoKeeps ==
  ASSUME EditorInv, PushUndo PROVE UndoOK(undo')
<1> DEFINE old == IF Len(undo) < UndoCap THEN undo ELSE Tail(undo)
           snap == <<input, cursor>>
           Snap == Seq(Chars) \X Nat
<1>1. undo \in Seq(Snap) /\ Len(undo) <= UndoCap /\ Len(undo) \in Nat /\ UndoCap \in Nat \ {0}
  BY PromptAssumption DEF EditorInv, UndoOK, PromptAssumption
<1>2. snap \in Snap /\ CaretOK(snap[1], snap[2])
  <2>1. cursor \in Nat
    BY EndsAre DEF EditorInv, CaretOK
  <2> QED BY <2>1 DEF EditorInv, CaretOK
<1>3. \A i \in 1 .. Len(undo) : CaretOK(undo[i][1], undo[i][2])
  BY DEF EditorInv, UndoOK
<1> HIDE DEF snap, Snap
<1>4. /\ old \in Seq(Snap) /\ Len(old) \in Nat /\ Len(old) < UndoCap
      /\ \A i \in 1 .. Len(old) : CaretOK(old[i][1], old[i][2])
  <2>1. CASE Len(undo) < UndoCap
    BY <1>1, <1>3, <2>1
  <2>2. CASE ~(Len(undo) < UndoCap)
    <3>1. undo # <<>> /\ Len(undo) = UndoCap
      BY <1>1, <2>2
    <3>2. /\ Tail(undo) \in Seq(Snap) /\ Len(Tail(undo)) = Len(undo) - 1
          /\ \A i \in 1 .. Len(Tail(undo)) : Tail(undo)[i] = undo[i + 1] /\ i + 1 \in 1 .. Len(undo)
      BY <1>1, <3>1
    <3> QED BY <1>1, <1>3, <2>2, <3>1, <3>2
  <2> QED BY <2>1, <2>2
<1>5. undo' = Append(old, snap)
  BY DEF PushUndo, old, snap
<1> HIDE DEF old
<1>6. /\ undo' \in Seq(Snap) /\ Len(undo') = Len(old) + 1
      /\ \A i \in 1 .. Len(undo') : undo'[i] = IF i = Len(old) + 1 THEN snap ELSE old[i]
  BY <1>2, <1>4, <1>5
<1>7. Len(undo') <= UndoCap
  BY <1>1, <1>4, <1>6
<1>8. \A i \in 1 .. Len(undo') : CaretOK(undo'[i][1], undo'[i][2])
  <2> SUFFICES ASSUME NEW i \in 1 .. Len(undo') PROVE CaretOK(undo'[i][1], undo'[i][2])
    OBVIOUS
  <2>1. i = Len(old) + 1 \/ i \in 1 .. Len(old)
    BY <1>4, <1>6
  <2>2. undo'[i] = IF i = Len(old) + 1 THEN snap ELSE old[i]
    BY <1>6
  <2>3. CASE i = Len(old) + 1
    BY <1>2, <2>2, <2>3
  <2>4. CASE i # Len(old) + 1
    BY <1>4, <2>1, <2>2, <2>4
  <2> QED BY <2>3, <2>4
<1> QED BY <1>6, <1>7, <1>8 DEF UndoOK, Snap

\* An edit before or behind the caret leaves the caret between two characters.
LEMMA SpotIs ==
  ASSUME EditorInv
  PROVE  /\ Before(input, cursor) \in Seq(Chars) /\ Behind(input, cursor) \in Seq(Chars)
         /\ Length(Before(input, cursor)) = cursor
         /\ cursor \in Nat /\ input \in Seq(Chars) /\ cursor \in Boundaries(input)
         /\ \A b \in Boundaries(input) : /\ Before(input, b) \in Seq(Chars)
                                         /\ Behind(input, b) \in Seq(Chars)
                                         /\ Length(Before(input, b)) = b /\ b \in Nat
<1>1. input \in Seq(Chars) /\ cursor \in Boundaries(input)
  BY DEF EditorInv, CaretOK
<1> QED BY <1>1, BeforeIs

LEMMA InsertKeeps ==
  ASSUME EditorInv, NEW b \in Boundaries(input), NEW m \in Seq(Chars)
  PROVE  CaretOK(Before(input, b) \o m \o Behind(input, cursor), b + Length(m))
BY SpotIs, SpliceIs DEF CaretOK

LEMMA CutKeeps ==
  ASSUME EditorInv, NEW b \in Boundaries(input), NEW c \in Boundaries(input)
  PROVE  CaretOK(Before(input, b) \o Behind(input, c), b)
BY SpotIs, SpliceIs DEF CaretOK

LEMMA ReplacedKeeps ==
  ASSUME NEW s \in Seq(Chars), Replaced(s) PROVE CaretOK(input', cursor')
BY EndsAre DEF Replaced, Edited, CaretOK

LEMMA OneChar ==
  ASSUME NEW c \in Chars
  PROVE  <<c>> \in Seq(Chars) /\ Length(<<c>>) = Bytes[c]
<1>1. <<>> \in Seq(Chars) /\ Append(<<>>, c) = <<c>> /\ <<c>> \in Seq(Chars)
  OBVIOUS
<1>2. Bytes[c] \in Nat
  BY PromptAssumption DEF PromptAssumption
<1>3. Length(<<c>>) = 0 + Bytes[c]
  BY <1>1, Lengths
<1> QED BY <1>1, <1>2, <1>3
\* The characters that are put in by name.
LEMMA NamedChars ==
  /\ Space \in Chars /\ Newline \in Chars /\ Slash \in Chars /\ Backslash \in Chars
  /\ Bytes[Newline] = 1 /\ Typed \subseteq Chars
  /\ Commands \subseteq Seq(Chars) /\ Pastes \subseteq Seq(Chars)
BY PromptAssumption DEF PromptAssumption

\* Keys and pastes put no harm to what they leave alone.
LEMMA Untouched ==
  ASSUME EditorInv
  PROVE  /\ UNCHANGED <<input, cursor>> => CaretOK(input', cursor')
         /\ UNCHANGED undo => UndoOK(undo')
         /\ UNCHANGED <<prompts, history_idx>> => PromptsOK'
         /\ UNCHANGED prompts /\ history_idx' = 0 => PromptsOK'
         /\ prompts \in Seq(Seq(Chars)) /\ Len(prompts) \in Nat
<1>1. /\ CaretOK(input, cursor) /\ UndoOK(undo) /\ prompts \in Seq(Seq(Chars))
      /\ history_idx \in 0 .. Len(prompts) /\ Len(prompts) \in Nat
  BY DEF EditorInv, PromptsOK
<1>2. UNCHANGED <<prompts, history_idx>> => PromptsOK'
  BY <1>1 DEF PromptsOK
<1>3. UNCHANGED prompts /\ history_idx' = 0 => PromptsOK'
  BY <1>1 DEF PromptsOK
<1> QED BY <1>1, <1>2, <1>3

\* An empty text.
LEMMA EmptiedIs == CaretOK(<<>>, 0)
<1>1. <<>> \in Seq(Chars)
  OBVIOUS
<1> QED BY <1>1, EndsAre DEF CaretOK

LEMMA FlagsAre ==
  ASSUME EditorInv, replying' \in BOOLEAN, view' \in {"chat", "overlay", "gone"},
         armed' \in [exit : BOOLEAN, clear : BOOLEAN]
  PROVE  FlagsOK'
BY DEF FlagsOK

LEMMA FlagsWere ==
  ASSUME EditorInv
  PROVE  /\ replying \in BOOLEAN /\ view \in {"chat", "overlay", "gone"}
         /\ armed \in [exit : BOOLEAN, clear : BOOLEAN]
BY DEF EditorInv, FlagsOK

LEMMA PlainFlags ==
  ASSUME EditorInv, Plain, UNCHANGED replying PROVE FlagsOK'
BY ArmedIs, FlagsWere, FlagsAre DEF Plain

LEMMA TypeKeeps ==
  ASSUME EditorInv, NEW c \in Typed, Type(c) PROVE EditorInv'
<1>1. c \in Chars /\ <<c>> \in Seq(Chars) /\ Length(<<c>>) = Bytes[c]
  BY NamedChars, OneChar
<1>2. CaretOK(input', cursor')
  <2>1. CaretOK(Before(input, cursor) \o <<c>> \o Behind(input, cursor), cursor + Length(<<c>>))
    BY <1>1, SpotIs, InsertKeeps
  <2> QED BY <1>1, <2>1 DEF Type, Edited
<1>3. UndoOK(undo') /\ PromptsOK'
  BY PushUndoKeeps, Untouched DEF Type
<1>4. FlagsOK'
  BY ArmedIs, FlagsWere, FlagsAre DEF Type
<1> QED BY <1>2, <1>3, <1>4 DEF EditorInv

LEMMA BreakLineKeeps ==
  ASSUME EditorInv, BreakLine PROVE EditorInv'
<1>1. <<Newline>> \in Seq(Chars) /\ Length(<<Newline>>) = 1
  BY NamedChars, OneChar
<1>2. CaretOK(input', cursor')
  <2>1. \A b \in Boundaries(input) :
          CaretOK(Before(input, b) \o <<Newline>> \o Behind(input, cursor), b + 1)
    BY <1>1, InsertKeeps
  <2>2. prev_char_boundary(input, cursor) \in Boundaries(input)
    BY SpotIs, NeighboursAre
  <2>3. CASE Edited(Before(input, cursor) \o <<Newline>> \o Behind(input, cursor), cursor + 1)
    BY <2>1, <2>3, SpotIs DEF Edited
  <2>4. CASE LET prev == prev_char_boundary(input, cursor) IN
             Edited(Before(input, prev) \o <<Newline>> \o Behind(input, cursor), prev + 1)
    BY <2>1, <2>2, <2>4 DEF Edited
  <2> QED BY <2>3, <2>4 DEF BreakLine
<1>3. UndoOK(undo') /\ PromptsOK'
  BY PushUndoKeeps, Untouched DEF BreakLine
<1>4. FlagsOK'
  BY PlainFlags DEF BreakLine, Unsuggested
<1> QED BY <1>2, <1>3, <1>4 DEF EditorInv

LEMMA BackspaceKeeps ==
  ASSUME EditorInv, Backspace PROVE EditorInv'
<1>1. prev_char_boundary(input, cursor) \in Boundaries(input)
  BY SpotIs, NeighboursAre
<1>2. CaretOK(input', cursor')
  BY <1>1, SpotIs, CutKeeps DEF Backspace, Edited
<1>3. UndoOK(undo') /\ PromptsOK'
  BY PushUndoKeeps, Untouched DEF Backspace
<1>4. FlagsOK'
  BY PlainFlags DEF Backspace
<1> QED BY <1>2, <1>3, <1>4 DEF EditorInv

LEMMA DeleteKeeps ==
  ASSUME EditorInv, Delete PROVE EditorInv'
<1>1. next_char_boundary(input, cursor) \in Boundaries(input)
  BY SpotIs, NeighboursAre
<1>2. CaretOK(input', cursor')
  BY <1>1, SpotIs, CutKeeps DEF Delete, Edited
<1>3. UndoOK(undo') /\ PromptsOK'
  BY PushUndoKeeps, Untouched DEF Delete
<1>4. FlagsOK'
  BY PlainFlags DEF Delete
<1> QED BY <1>2, <1>3, <1>4 DEF EditorInv

LEMMA MoveCaretKeeps ==
  ASSUME EditorInv, MoveCaret PROVE EditorInv'
<1>1. input' = input /\ cursor' \in Boundaries(input)
  BY SpotIs, NeighboursAre, RowEdges DEF MoveCaret
<1>2. CaretOK(input', cursor')
  BY <1>1, SpotIs DEF CaretOK
<1>3. UndoOK(undo') /\ PromptsOK'
  BY Untouched DEF MoveCaret
<1>4. FlagsOK'
  BY PlainFlags DEF MoveCaret
<1> QED BY <1>2, <1>3, <1>4 DEF EditorInv

LEMMA HistoryKeeps ==
  ASSUME EditorInv, history_up \/ history_down PROVE EditorInv'
<1>1. /\ prompts \in Seq(Seq(Chars)) /\ Len(prompts) \in Nat /\ history_idx \in 0 .. Len(prompts)
  BY DEF EditorInv, PromptsOK
<1>2. CASE history_up
  <2>1. Len(prompts) \in 1 .. Len(prompts)
    BY <1>1, <1>2 DEF history_up
  <2>2. history_idx' \in 1 .. Len(prompts)
    <3>1. CASE history_idx = 0
      BY <1>2, <2>1, <3>1 DEF history_up
    <3>2. CASE history_idx = 1
      BY <1>1, <1>2, <2>1, <3>2 DEF history_up
    <3>3. CASE history_idx \notin {0, 1}
      <4>1. history_idx' = history_idx - 1
        BY <1>2, <3>3 DEF history_up
      <4> QED BY <1>1, <3>3, <4>1
    <3> QED BY <3>1, <3>2, <3>3
  <2>3. CaretOK(input', cursor')
    <3>1. prompts[history_idx'] \in Seq(Chars)
      BY <1>1, <2>2
    <3> QED BY <1>2, <3>1, ReplacedKeeps DEF history_up
  <2>4. UndoOK(undo') /\ PromptsOK'
    BY <1>1, <1>2, <2>2, Untouched DEF history_up, PromptsOK
  <2>5. FlagsOK'
    BY <1>2, PlainFlags DEF history_up, Unsuggested
  <2> QED BY <2>3, <2>4, <2>5 DEF EditorInv
<1>3. CASE history_down
  <2>1. history_idx' \in 0 .. Len(prompts)
    BY <1>1, <1>3 DEF history_down
  <2>2. CaretOK(input', cursor')
    <3> DEFINE s == IF history_idx' = 0 THEN <<>> ELSE prompts[history_idx']
    <3>1. s \in Seq(Chars)
      BY <1>1, <2>1
    <3>2. Replaced(s)
      BY <1>3 DEF history_down
    <3> HIDE DEF s
    <3> QED BY <3>1, <3>2, ReplacedKeeps
  <2>3. UndoOK(undo') /\ PromptsOK'
    BY <1>1, <1>3, <2>1, Untouched DEF history_down, PromptsOK
  <2>4. FlagsOK'
    BY <1>3, PlainFlags DEF history_down, Unsuggested
  <2> QED BY <2>2, <2>3, <2>4 DEF EditorInv
<1> QED BY <1>2, <1>3

LEMMA AcceptKeeps ==
  ASSUME EditorInv, accept_suggestion PROVE EditorInv'
<1>1. PICK name \in Suggestions :
        Replaced(<<Slash>> \o name) \/ Replaced(<<Slash>> \o name \o <<Space>>)
  BY DEF accept_suggestion
<1>2. name \in Seq(Chars)
  BY <1>1, NamedChars DEF Suggestions
<1>3. <<Slash>> \in Seq(Chars) /\ <<Space>> \in Seq(Chars)
  BY NamedChars, OneChar
<1>4. <<Slash>> \o name \in Seq(Chars) /\ <<Slash>> \o name \o <<Space>> \in Seq(Chars)
  BY <1>2, <1>3
<1>5. CaretOK(input', cursor')
  BY <1>1, <1>4, ReplacedKeeps
<1>6. UndoOK(undo') /\ PromptsOK'
  BY Untouched DEF accept_suggestion
<1>7. FlagsOK'
  BY PlainFlags DEF accept_suggestion
<1> QED BY <1>5, <1>6, <1>7 DEF EditorInv
LEMMA SubmitTextKeeps ==
  ASSUME EditorInv, submit PROVE EditorInv'
<1>1. CaretOK(input', cursor')
  BY EmptiedIs DEF submit, Emptied
<1>2. UndoOK(undo')
  BY Untouched DEF submit
<1> DEFINE said == Trim(input)
<1>3. said \in Seq(Chars)
  BY SpotIs, TrimIs
<1>4. /\ history_idx' = 0 /\ armed' = [armed EXCEPT !.exit = FALSE]
      /\ prompts' = prompts \/ prompts' = Append(prompts, said)
      /\ view' \in {"chat", "overlay", "gone", view} /\ replying' \in {TRUE, replying}
  <2>1. history_idx' = 0 /\ armed' = [armed EXCEPT !.exit = FALSE]
    BY DEF submit
  <2>2. CASE said = <<>> /\ UNCHANGED <<prompts, view, replying>>
    BY <2>1, <2>2
  <2>3. CASE /\ said # <<>> /\ Head(said) = Slash
             /\ view' \in {"chat", "overlay", "gone"}
             /\ UNCHANGED <<prompts, replying>>
    BY <2>1, <2>3
  <2>4. CASE /\ said # <<>> /\ Head(said) # Slash
             /\ IF prompts # <<>> /\ Last(prompts) = said THEN UNCHANGED prompts
                ELSE Len(prompts) < MaxPrompts /\ prompts' = Append(prompts, said)
             /\ replying' \in {TRUE, replying}
             /\ UNCHANGED view
    BY <2>1, <2>4
  <2> QED BY <2>2, <2>3, <2>4 DEF submit
<1> HIDE DEF said
<1>5. PromptsOK'
  <2>1. prompts \in Seq(Seq(Chars))
    BY Untouched
  <2>2. prompts \in Seq(Texts) /\ said \in Texts
    BY <1>3, <2>1 DEF Texts
  <2>3. prompts' \in Seq(Texts) /\ Len(prompts') \in Nat
    BY <1>4, <2>2
  <2> QED BY <1>4, <2>3 DEF PromptsOK, Texts
<1>6. FlagsOK'
  BY <1>4, ArmedIs, FlagsWere, FlagsAre
<1> QED BY <1>1, <1>2, <1>5, <1>6 DEF EditorInv

LEMMA EscapeKeeps ==
  ASSUME EditorInv, Escape PROVE EditorInv'
<1>1. /\ UNCHANGED <<view, prompts>>
      /\ \/ /\ Emptied /\ armed' = [armed EXCEPT !.exit = FALSE]
            /\ UNCHANGED <<history_idx, undo, replying>>
         \/ /\ replying' \in {FALSE, replying}
            /\ armed' \in {[exit |-> FALSE, clear |-> FALSE], [exit |-> FALSE, clear |-> TRUE]}
            /\ UNCHANGED <<input, cursor, history_idx, undo>>
         \/ /\ PushUndo /\ Emptied /\ history_idx' = 0
            /\ armed' = [exit |-> FALSE, clear |-> FALSE]
            /\ UNCHANGED replying
  <2>1. CASE Suggestions # {}
    BY <2>1 DEF Escape
  <2>2. CASE Suggestions = {} /\ replying
    BY <2>2 DEF Escape
  <2>3. CASE Suggestions = {} /\ ~replying /\ input # <<>> /\ ~armed.clear
    BY <2>3 DEF Escape
  <2>4. CASE Suggestions = {} /\ ~replying /\ ~(input # <<>> /\ ~armed.clear)
    BY <2>4 DEF Escape
  <2> QED BY <2>1, <2>2, <2>3, <2>4
<1>2. CaretOK(input', cursor')
  BY <1>1, EmptiedIs, Untouched DEF Emptied
<1>3. UndoOK(undo') /\ PromptsOK'
  BY <1>1, PushUndoKeeps, Untouched
<1>4. FlagsOK'
  BY <1>1, ArmedIs, FlagsWere, FlagsAre
<1> QED BY <1>2, <1>3, <1>4 DEF EditorInv

LEMMA InterruptKeeps ==
  ASSUME EditorInv, Interrupt \/ Leave PROVE EditorInv'
<1>1. CASE Interrupt
  <2>1. /\ UNCHANGED text \/ (Emptied /\ history_idx' = 0 /\ UNCHANGED <<prompts, undo>>)
        /\ armed' = armed \/ armed' = [armed EXCEPT !.exit = TRUE]
        /\ view' \in {"gone", "chat", view} /\ replying' \in {replying, FALSE}
    <3>1. CASE armed.exit
      BY <1>1, <3>1 DEF Interrupt
    <3>2. CASE ~armed.exit
      BY <1>1, <3>2 DEF Interrupt
    <3> QED BY <3>1, <3>2
  <2>2. CaretOK(input', cursor')
    BY <2>1, EmptiedIs, Untouched DEF Emptied, text
  <2>3. UndoOK(undo') /\ PromptsOK'
    BY <2>1, Untouched DEF text
  <2>4. FlagsOK'
    BY <2>1, ArmedIs, FlagsWere, FlagsAre
  <2> QED BY <2>2, <2>3, <2>4 DEF EditorInv
<1>2. CASE Leave
  <2>1. UNCHANGED text /\ UNCHANGED armed /\ UNCHANGED replying /\ view' = "gone"
    BY <1>2 DEF Leave
  <2>2. CaretOK(input', cursor') /\ UndoOK(undo') /\ PromptsOK'
    BY <2>1, Untouched DEF text
  <2>3. FlagsOK'
    BY <2>1, FlagsWere, FlagsAre
  <2> QED BY <2>2, <2>3 DEF EditorInv
<1> QED BY <1>1, <1>2

LEMMA UndoKeeps ==
  ASSUME EditorInv, Undo PROVE EditorInv'
<1>1. FlagsOK'
  BY ArmedIs, FlagsWere, FlagsAre DEF Undo, Disarmed
<1>2. CASE undo = <<>>
  <2>1. UNCHANGED text
    BY <1>2 DEF Undo
  <2> QED BY <1>1, <2>1, Untouched DEF EditorInv, text
<1>3. CASE undo # <<>>
  <2> DEFINE n == Len(undo)
  <2>1. /\ input' = Last(undo)[1] /\ cursor' = Last(undo)[2] /\ undo' = Front(undo)
        /\ history_idx' = 0 /\ UNCHANGED prompts
    BY <1>3 DEF Undo
  <2>2. /\ undo \in Seq(Seq(Chars) \X Nat) /\ n \in Nat /\ n # 0 /\ n <= UndoCap
        /\ UndoCap \in Nat /\ \A i \in 1 .. n : CaretOK(undo[i][1], undo[i][2])
    BY <1>3, PromptAssumption DEF EditorInv, UndoOK, PromptAssumption
  <2>3. CaretOK(input', cursor')
    BY <2>1, <2>2 DEF Last
  <2>4. UndoOK(undo')
    <3> DEFINE Snap == Seq(Chars) \X Nat
    <3>1. undo \in Seq(Snap) /\ n \in Nat /\ n # 0 /\ n = Len(undo)
      BY <2>2
    <3> HIDE DEF Snap, n
    <3>2. undo' = SubSeq(undo, 1, n - 1)
      BY <2>1 DEF Front, n
    <3>3. /\ undo' \in Seq(Snap) /\ Len(undo') = n - 1
          /\ \A i \in 1 .. (n - 1) : undo'[i] = undo[i]
      BY <3>1, <3>2
    <3>4. Len(undo') <= UndoCap /\ \A i \in 1 .. Len(undo') : i \in 1 .. n
      BY <2>2, <3>3
    <3> QED BY <2>2, <3>3, <3>4 DEF UndoOK, Snap
  <2>5. PromptsOK'
    BY <2>1, Untouched
  <2> QED BY <1>1, <2>3, <2>4, <2>5 DEF EditorInv
<1> QED BY <1>2, <1>3
LEMMA EditorKeeps ==
  ASSUME EditorInv, ExternalEditor PROVE EditorInv'
<1>1. UndoOK(undo')
  BY PushUndoKeeps DEF ExternalEditor
<1>2. FlagsOK'
  BY ArmedIs, FlagsWere, FlagsAre DEF ExternalEditor, Disarmed
<1>3. CASE UNCHANGED <<input, cursor, history_idx>>
  BY <1>1, <1>2, <1>3, Untouched DEF ExternalEditor, EditorInv
<1>4. CASE history_idx' = 0 /\ \E s \in Pastes \cup {<<>>} : Replaced(s)
  <2>1. PICK s \in Pastes \cup {<<>>} : Replaced(s)
    BY <1>4
  <2>2. <<>> \in Seq(Chars)
    OBVIOUS
  <2>3. s \in Seq(Chars)
    BY <2>1, <2>2, NamedChars
  <2>4. CaretOK(input', cursor')
    BY <2>1, <2>3, ReplacedKeeps
  <2>5. PromptsOK'
    BY <1>4, Untouched DEF ExternalEditor
  <2> QED BY <1>1, <1>2, <2>4, <2>5 DEF EditorInv
<1> QED BY <1>3, <1>4 DEF ExternalEditor

LEMMA PasteKeeps ==
  ASSUME EditorInv, NEW s \in Pastes, insert_paste(s) PROVE EditorInv'
<1>1. s \in Seq(Chars)
  BY NamedChars
<1>2. CaretOK(input', cursor')
  BY <1>1, SpotIs, InsertKeeps DEF insert_paste, Edited
<1>3. UndoOK(undo') /\ PromptsOK'
  BY Untouched DEF insert_paste
<1>4. FlagsOK'
  BY FlagsWere, FlagsAre DEF insert_paste
<1> QED BY <1>2, <1>3, <1>4 DEF EditorInv

LEMMA AsideKeeps ==
  ASSUME EditorInv, OverlayKey \/ Tick PROVE EditorInv'
<1>1. UNCHANGED text
  BY DEF OverlayKey, Tick
<1>2. CaretOK(input', cursor') /\ UndoOK(undo') /\ PromptsOK'
  BY <1>1, Untouched DEF text
<1>3. FlagsOK'
  <2>1. CASE OverlayKey
    BY <2>1, ArmedIs, FlagsWere, FlagsAre DEF OverlayKey
  <2>2. CASE Tick
    BY <2>2, ArmedIs, FlagsWere, FlagsAre DEF Tick
  <2> QED BY <2>1, <2>2
<1> QED BY <1>2, <1>3 DEF EditorInv

\* No key, paste or tick breaks the invariant.
LEMMA EditorInvNext == EditorInv /\ [EditorNext]_editor_vars => EditorInv'
<1> SUFFICES ASSUME EditorInv, [EditorNext]_editor_vars PROVE EditorInv'
  OBVIOUS
<1>1. CASE Key
  <2>1. CASE \E c \in Typed : Type(c)
    BY <2>1, TypeKeeps
  <2>2. CASE BreakLine \/ Backspace \/ Delete \/ MoveCaret
    BY <2>2, BreakLineKeeps, BackspaceKeeps, DeleteKeeps, MoveCaretKeeps
  <2>3. CASE history_up \/ history_down \/ accept_suggestion
    BY <2>3, HistoryKeeps, AcceptKeeps
  <2>4. CASE submit \/ Escape \/ Interrupt \/ Leave \/ Undo \/ ExternalEditor
    BY <2>4, SubmitTextKeeps, EscapeKeeps, InterruptKeeps, UndoKeeps, EditorKeeps
  <2>5. CASE \E s \in Pastes : insert_paste(s)
    BY <2>5, PasteKeeps
  <2>6. CASE OverlayKey \/ Tick
    BY <2>6, AsideKeeps
  <2> QED BY <1>1, <2>1, <2>2, <2>3, <2>4, <2>5, <2>6 DEF Key
<1>2. CASE UNCHANGED editor_vars
  <2>1. UNCHANGED text /\ UNCHANGED armed /\ UNCHANGED view /\ UNCHANGED replying
    BY <1>2 DEF editor_vars
  <2>2. CaretOK(input', cursor') /\ UndoOK(undo') /\ PromptsOK'
    BY <2>1, Untouched DEF text
  <2>3. FlagsOK'
    BY <2>1, FlagsWere, FlagsAre
  <2> QED BY <2>2, <2>3 DEF EditorInv
<1> QED BY <1>1, <1>2 DEF EditorNext

\* No sequence of keys, pastes, undone edits and recalled prompts leaves the caret,
\* or that of a snapshot, inside a character, where String::insert, drain and
\* replace_range panic: for any alphabet, text, width and undo ring.
THEOREM CaretNeverInside == EditorSpec => []CaretOnBoundary
<1>1. EditorInv /\ [EditorNext]_editor_vars => EditorInv'
  BY EditorInvNext
<1> QED BY <1>1, EditorInvInit, EditorInvIs, PTL DEF EditorSpec

\* The rows that are drawn are those the caret walks through.
LEMMA AgreeIs == EditorInv => BoxAgrees
<1> SUFFICES ASSUME EditorInv PROVE BoxAgrees
  OBVIOUS
<1> DEFINE p == Before(input, cursor)
           q == Behind(input, cursor)
           n == Length(input)
<1>1. input \in Texts /\ cursor \in Boundaries(input)
  BY DEF EditorInv, CaretOK, Texts
<1>2. p \in Texts /\ q \in Texts /\ input = p \o q /\ Length(p) = cursor
  BY <1>1, BeforeIs DEF Texts
<1> HIDE DEF p, q
<1>3. LET w == Walk(input, cursor)
          e == RowEnd(input, cursor) IN
      /\ w = Walked[p] /\ w.col <= Width
      /\ w.start <= cursor /\ cursor <= e
      /\ {w.start, e} \subseteq Boundaries(input)
      /\ Newline \notin Range(Behind(Before(input, e), w.start))
  BY <1>2, RowIs
<1>4. Walk(input, n) = Walked[input]
  <2> DEFINE none == <<>>
  <2>1. none \in Texts /\ input \o none = input
    BY <1>1, TextsAre
  <2> HIDE DEF none
  <2>2. Before(input \o none, n) = input
    BY <1>1, <2>1, BeforeOf
  <2>3. Before(input, n) = input
    BY <2>1, <2>2
  <2> QED BY <1>1, <2>3, WalkWalked
<1>5. /\ Len(Rows(input)) = Walked[input].row + 1
      /\ FlattenSeq(Rows(input)) = Without(input, Newline)
  <2>1. Drawn(input)
    BY <1>1, AllDrawn
  <2>2. RowsOf[input] = Rows(input) /\ Left(Newline)[input] = Without(input, Newline)
    BY <1>1 DEF RowsOf, Left, Texts
  <2> QED BY <2>1, <2>2 DEF Drawn
<1>6. /\ Walked[p].row <= Walked[input].row
      /\ Walked[p].row \in Nat /\ Walked[input].row \in Nat
  BY <1>1, <1>2, RowsGrow, WalkedAdds DEF Place, Texts
<1>7. Walk(input, cursor).row < Len(Rows(input))
  BY <1>3, <1>5, <1>6
<1> QED BY <1>3, <1>4, <1>5, <1>7 DEF BoxAgrees

\* Up and Down know the rows the box draws, in every reachable state
\* (cursor_visual_pos, input_visual_rows, visual_row_start, visual_row_end).
THEOREM BoxMatches == EditorSpec => []BoxAgrees
<1>1. EditorInit => EditorInv
  BY EditorInvInit
<1>2. EditorInv /\ [EditorNext]_editor_vars => EditorInv'
  BY EditorInvNext
<1>3. EditorInv => BoxAgrees
  BY AgreeIs
<1> QED BY <1>1, <1>2, <1>3, PTL DEF EditorSpec

-----------------------------------------------------------------------------
(* The lines of the transcript.                                                *)

\* Rows no wider than the box.
Narrow == {t \in Texts : Wide(t) <= Width}

LEMMA NarrowAre ==
  /\ <<>> \in Narrow /\ \A c \in Chars : <<c>> \in Narrow
  /\ Narrow \subseteq Texts /\ \A t \in Texts : Wide(t) <= Width => t \in Narrow
  /\ \A q \in Seq(Narrow) : q \in Seq(Texts)
<1>1. ASSUME NEW c \in Chars PROVE <<c>> \in Narrow
  <2>1. Cols[c] \in 0 .. 2 /\ Wide(<<c>>) = Cols[c]
    BY Widths
  <2>2. <<c>> \in Texts /\ Width \in Nat /\ 2 <= Width
    BY TextsAre, PromptAssumption DEF PromptAssumption
  <2>3. Wide(<<c>>) <= Width
    BY <2>1, <2>2
  <2> QED BY <2>2, <2>3 DEF Narrow
<1>2. <<>> \in Narrow
  <2>1. Wide(<<>>) = 0 /\ <<>> \in Texts /\ 0 <= Width
    BY Widths, TextsAre, PromptAssumption DEF PromptAssumption
  <2> QED BY <2>1 DEF Narrow
<1>3. Narrow \subseteq Texts /\ \A t \in Texts : Wide(t) <= Width => t \in Narrow
  BY DEF Narrow
<1>4. ASSUME NEW q \in Seq(Narrow) PROVE q \in Seq(Texts)
  <2> HIDE DEF Narrow, Texts
  <2> QED BY <1>3
<1> QED BY <1>1, <1>2, <1>3, <1>4

\* The first rows of a block.
LEMMA FirstRows ==
  ASSUME NEW b \in Seq(Narrow), NEW n \in Nat, n <= Len(b)
  PROVE  SubSeq(b, 1, n) \in Seq(Narrow)
<1>1. \A i \in 1 .. n : b[i] \in Narrow
  <2> HIDE DEF Narrow
  <2> QED OBVIOUS
<1> QED BY <1>1, SubSeqProperties

\* The rows of the box are.
LEMMA RowsFit == \A p \in Texts : RowsOf[p] \in Seq(Narrow)
<1> DEFINE P == {p \in Texts : RowsOf[p] \in Seq(Narrow)}
<1>1. <<>> \in P
  <2>1. <<<<>>>> \in Seq(Narrow)
    <3> DEFINE none == <<>>
    <3>1. none \in Narrow
      BY NarrowAre
    <3> HIDE DEF none
    <3>2. <<none>> \in Seq(Narrow)
      BY <3>1
    <3> QED BY <3>2 DEF none
  <2> QED BY <2>1, RowsAdd, TextsAre
<1>2. ASSUME NEW p \in Seq(Chars), NEW c \in Chars, p \in P PROVE Append(p, c) \in P
  <2> DEFINE b == RowsOf[p]
             l == Last(b)
             f == Front(b)
             lc == Append(l, c)
  <2>1. /\ b \in Blocks /\ b \in Seq(Narrow) /\ RowsOf[Append(p, c)] = Put(b, c)
        /\ Append(p, c) \in Texts
    BY <1>2, RowsAdd, TextsAre DEF Texts
  <2>2. Len(b) \in Nat \ {0} /\ l \in Texts /\ Len(f) = Len(b) - 1
    BY <2>1, BlockIs
  <2> HIDE DEF b
  <2>3. f \in Seq(Narrow)
    <3> DEFINE n == Len(b) - 1
    <3>1. n \in Nat /\ n <= Len(b)
      BY <2>2
    <3> HIDE DEF n
    <3>2. SubSeq(b, 1, n) \in Seq(Narrow)
      BY <2>1, <3>1, FirstRows
    <3> QED BY <3>2 DEF Front, n
  <2>4. Wide(lc) = Wide(l) + Cols[c] /\ lc \in Texts
    BY <2>2, Widths, TextsAre
  <2> HIDE DEF l, f, lc
  <2>5. CASE c = Newline
    <3> DEFINE none == <<>>
    <3>1. none \in Narrow /\ Put(b, c) = Append(b, none)
      BY <2>5, NarrowAre DEF Put
    <3> HIDE DEF none
    <3>2. Append(b, none) \in Seq(Narrow)
      BY <2>1, <3>1
    <3> QED BY <2>1, <3>1, <3>2
  <2>6. CASE c # Newline /\ Wide(l) + Cols[c] > Width
    <3> DEFINE one == <<c>>
    <3>1. one \in Narrow /\ Put(b, c) = Append(b, one)
      BY <2>6, NarrowAre DEF Put, l
    <3> HIDE DEF one
    <3>2. Append(b, one) \in Seq(Narrow)
      BY <2>1, <3>1
    <3> QED BY <2>1, <3>1, <3>2
  <2>7. CASE c # Newline /\ ~(Wide(l) + Cols[c] > Width)
    <3>1. Put(b, c) = Append(f, lc)
      BY <2>7 DEF Put, l, f, lc
    <3>2. Wide(l) + Cols[c] <= Width
      <4>1. Wide(l) \in Nat /\ Cols[c] \in 0 .. 2 /\ Width \in Nat
        BY <2>2, Widths, PromptAssumption DEF PromptAssumption
      <4> QED BY <2>7, <4>1
    <3>3. lc \in Narrow
      BY <2>4, <3>2, NarrowAre
    <3>4. Append(f, lc) \in Seq(Narrow)
      BY <2>3, <3>3
    <3> QED BY <2>1, <3>1, <3>4
  <2> QED BY <2>5, <2>6, <2>7
<1> HIDE DEF P
<1>3. Seq(Chars) \subseteq P
  BY <1>1, <1>2, TextsUp
<1> QED BY <1>3 DEF P, Texts

\* s has no character d.
Lacks(s, d) == \A i \in 1 .. Len(s) : s[i] # d

\* A text that lacks d, and the character behind it.
LEMMA LacksAppend ==
  ASSUME NEW s \in Texts, NEW c \in Chars, NEW d, Lacks(Append(s, c), d)
  PROVE  Lacks(s, d) /\ c # d
<1> DEFINE t == Append(s, c)
           n == Len(s)
<1>1. Len(t) = n + 1 /\ n \in Nat /\ t[n + 1] = c /\ \A i \in 1 .. n : t[i] = s[i]
  BY DEF Texts
<1>2. Lacks(t, d)
  OBVIOUS
<1> HIDE DEF t, n
<1>3. \A i \in 1 .. n : i \in 1 .. Len(t)
  BY <1>1
<1>4. n + 1 \in 1 .. Len(t)
  BY <1>1
<1> QED BY <1>1, <1>2, <1>3, <1>4 DEF Lacks, n

\* A word without newlines is all in its pieces, and one that fits is one piece.
LEMMA PiecesAre ==
  ASSUME NEW p \in Texts, Lacks(p, Newline)
  PROVE  /\ FlattenSeq(RowsOf[p]) = p
         /\ p \in Narrow => RowsOf[p] = <<p>>
<1> DEFINE Q(t) == /\ Left(Newline)[t] = t
                   /\ t \in Narrow => RowsOf[t] = <<t>>
           P == {t \in Texts : Lacks(t, Newline) => Q(t)}
<1>1. <<>> \in P
  BY WithoutAdds, RowsAdd, TextsAre
<1>2. ASSUME NEW t \in Seq(Chars), NEW c \in Chars, t \in P PROVE Append(t, c) \in P
  <2> DEFINE tc == Append(t, c)
  <2>1. t \in Texts /\ tc \in Texts /\ tc \in Seq(Chars)
    BY TextsAre DEF Texts
  <2> SUFFICES ASSUME Lacks(tc, Newline) PROVE Q(tc)
    BY <2>1
  <2>2. Lacks(t, Newline) /\ c # Newline
    BY <2>1, LacksAppend
  <2>3. Left(Newline)[t] = t /\ (t \in Narrow => RowsOf[t] = <<t>>)
    BY <1>2, <2>2
  <2>4. Left(Newline)[tc] = tc
    <3>1. Left(Newline)[Append(t, c)] = Drop(Left(Newline)[t], c, Newline)
      BY WithoutAdds
    <3>2. Drop(t, c, Newline) = Append(t, c)
      BY <2>2 DEF Drop
    <3> QED BY <2>3, <3>1, <3>2
  <2>5. ASSUME tc \in Narrow PROVE RowsOf[tc] = <<tc>>
    <3>1. /\ Wide(tc) = Wide(t) + Cols[c] /\ Wide(tc) <= Width /\ Cols[c] \in 0 .. 2
          /\ Wide(t) \in Nat /\ Width \in Nat
      BY <2>1, <2>5, Widths, PromptAssumption DEF Narrow, PromptAssumption
    <3>2. t \in Narrow /\ ~(Wide(t) + Cols[c] > Width)
      BY <2>1, <3>1 DEF Narrow
    <3>3. RowsOf[tc] = Put(<<t>>, c)
      BY <2>3, <3>2, RowsAdd
    <3> HIDE DEF tc
    <3>4. Last(<<t>>) = t /\ Front(<<t>>) = <<>>
      BY DEF Last, Front
    <3>5. Put(<<t>>, c) = Append(<<>>, tc)
      BY <2>2, <3>2, <3>4 DEF Put, tc
    <3> QED BY <3>3, <3>5
  <2> QED BY <2>4, <2>5
<1> HIDE DEF P
<1>3. Seq(Chars) \subseteq P
  BY <1>1, <1>2, TextsUp
<1>4. Q(p)
  BY <1>3 DEF P, Texts
<1>5. FlattenSeq(RowsOf[p]) = Left(Newline)[p]
  BY AllDrawn DEF Drawn
<1> QED BY <1>4, <1>5

LEMMA FlattenConcat ==
  ASSUME NEW a \in Seq(Texts), NEW b \in Seq(Texts)
  PROVE  FlattenSeq(a \o b) = FlattenSeq(a) \o FlattenSeq(b)
<1> DEFINE F(q) == FlattenSeq(q)
           P == {q \in Seq(Texts) : F(a \o q) = F(a) \o F(q)}
<1> HIDE DEF F
<1>1. F(a) \in Texts /\ F(<<>>) = <<>> /\ <<>> \in Texts
  BY FlattenAppend, TextsAre DEF F
<1>2. <<>> \in P
  <2> DEFINE e == <<>>
  <2>1. e \in Seq(Texts) /\ a \o e = a /\ F(e) = e /\ F(a) \o e = F(a)
    BY <1>1, ConcatEmptySeq, TextsAre
  <2> HIDE DEF e
  <2>2. e \in P
    BY <2>1
  <2> QED BY <2>2 DEF e
<1>3. ASSUME NEW q \in Seq(Texts), NEW r \in Texts, q \in P PROVE Append(q, r) \in P
  <2> DEFINE aq == a \o q
             qr == Append(q, r)
  <2>1. aq \in Seq(Texts) /\ qr \in Seq(Texts) /\ a \o qr = Append(aq, r)
    <3> HIDE DEF Texts
    <3> QED OBVIOUS
  <2>2. F(qr) = F(q) \o r /\ F(q) \in Texts
    BY FlattenAppend DEF F
  <2> HIDE DEF aq, qr
  <2>3. F(a \o qr) = F(aq) \o r
    BY <2>1, FlattenAppend DEF F
  <2>4. F(aq) = F(a) \o F(q)
    BY <1>3 DEF aq
  <2>5. (F(a) \o F(q)) \o r = F(a) \o (F(q) \o r)
    <3> DEFINE x == F(a)
               y == F(q)
    <3>1. x \in Texts /\ y \in Texts /\ r \in Texts
      BY <1>1, <2>2
    <3> HIDE DEF x, y
    <3>2. Regroups(x, y, r)
      BY ONLY <3>1, Grouped
    <3> QED BY <3>2 DEF x, y, Regroups
  <2> QED BY <2>1, <2>2, <2>3, <2>4, <2>5 DEF qr
<1> HIDE DEF P
<1>4. Seq(Texts) \subseteq P
  BY <1>2, <1>3, TextsUp
<1> QED BY <1>4 DEF P, F

\* What is left of two texts.
LEMMA LeftConcat ==
  ASSUME NEW s \in Texts, NEW t \in Texts, NEW d
  PROVE  /\ Left(d)[s] \in Texts /\ Left(d)[<<>>] = <<>>
         /\ Left(d)[s \o t] = Left(d)[s] \o Left(d)[t]
<1> DEFINE L == Left(d)
           P == {q \in Texts : L[s \o q] = L[s] \o L[q]}
<1>1. /\ L[s] \in Texts /\ L[<<>>] = <<>> /\ \A q \in Texts : L[q] \in Texts
      /\ \A q \in Texts, c \in Chars : L[Append(q, c)] = Drop(L[q], c, d)
  BY WithoutAdds DEF Texts
<1> HIDE DEF L
<1>2. <<>> \in P
  <2> DEFINE e == <<>>
  <2>1. e \in Texts /\ s \o e = s /\ L[e] = e /\ L[s] \o e = L[s]
    BY <1>1, TextsAre
  <2> HIDE DEF e
  <2>2. e \in P
    BY <2>1
  <2> QED BY <2>2 DEF e
<1>3. ASSUME NEW q \in Seq(Chars), NEW c \in Chars, q \in P PROVE Append(q, c) \in P
  <2> DEFINE sq == s \o q
             qc == Append(q, c)
             lq == L[q]
             ls == L[s]
  <2>1. /\ q \in Texts /\ sq \in Texts /\ qc \in Texts /\ s \o qc = Append(sq, c)
        /\ lq \in Texts /\ ls \in Texts
    <3>1. q \in Texts
      BY DEF Texts
    <3>2. sq \in Texts /\ qc \in Texts /\ s \o qc = Append(sq, c)
      BY <3>1, TextsAre
    <3> QED BY <1>1, <3>1, <3>2
  <2>2. L[sq] = ls \o lq
    BY <1>3
  <2>3. L[s \o qc] = Drop(L[sq], c, d) /\ L[qc] = Drop(lq, c, d)
    BY <1>1, <2>1
  <2> HIDE DEF sq, qc, lq, ls
  <2>4. ls \o Append(lq, c) = Append(ls \o lq, c)
    BY <2>1, Pushed, Zenon
  <2>5. L[s \o qc] = ls \o L[qc]
    BY <2>2, <2>3, <2>4 DEF Drop
  <2> QED BY <2>1, <2>5 DEF qc, ls
<1> HIDE DEF P
<1>4. Seq(Chars) \subseteq P
  BY <1>2, <1>3, TextsUp
<1> QED BY <1>1, <1>4 DEF P, L, Texts

\* The rows of a paragraph so far: those that are finished, the one that is being
\* filled, and the word behind it.
Wrapping == [out : Seq(Narrow), row : Narrow, word : Texts]
Laid(w) == FlattenSeq(w.out) \o w.row

\* The text m is part of a row.
Holds(row, m) == \E a, z \in Texts : row = (a \o m) \o z
Shows(w, m) == \E t \in Range(w.out) \cup {w.row} : Holds(t, m)

LEMMA HoldsMore ==
  ASSUME NEW m \in Texts, NEW t \in Texts, NEW r \in Texts
  PROVE  /\ Holds(t, m) => Holds(t \o r, m)
         /\ Holds(t \o m, m) /\ Holds(m, m)
         /\ m # <<>> => ~Holds(<<>>, m)
<1>1. ASSUME Holds(t, m) PROVE Holds(t \o r, m)
  <2>1. PICK a \in Texts, z \in Texts : t = (a \o m) \o z
    BY <1>1 DEF Holds
  <2> DEFINE am == a \o m
             zr == z \o r
  <2>2. am \in Texts /\ zr \in Texts /\ z \in Texts /\ r \in Texts
    BY TextsAre
  <2>3. (am \o z) \o r = am \o zr
    <3> HIDE DEF am
    <3>1. Regroups(am, z, r)
      BY ONLY <2>2, Grouped
    <3> QED BY <3>1 DEF Regroups
  <2> HIDE DEF zr
  <2>4. t \o r = am \o zr
    BY <2>1, <2>3
  <2> QED BY <2>2, <2>4 DEF Holds
<1>2. Holds(t \o m, m)
  <2> DEFINE none == <<>>
             tm == t \o m
  <2>1. tm \in Texts /\ none \in Texts /\ tm \o none = tm
    BY TextsAre
  <2> HIDE DEF none
  <2> QED BY <2>1 DEF Holds
<1>3. Holds(m, m)
  <2> DEFINE none == <<>>
  <2>1. none \in Texts /\ none \o m = m /\ m \o none = m
    BY TextsAre
  <2> HIDE DEF none
  <2>2. (none \o m) \o none = m
    BY <2>1
  <2> QED BY <2>1, <2>2 DEF Holds
<1>4. ASSUME m # <<>>, Holds(<<>>, m) PROVE FALSE
  <2>1. PICK a \in Texts, z \in Texts : <<>> = (a \o m) \o z
    BY <1>4 DEF Holds
  <2> DEFINE am == a \o m
  <2>2. am \in Texts
    BY TextsAre
  <2>3. am = <<>>
    <3> HIDE DEF am
    <3>1. am \o z = <<>>
      BY <2>1 DEF am
    <3> QED BY <2>2, <3>1, ConcatEqualIffEmpty DEF Texts
  <2>4. m = <<>>
    BY <2>3, ConcatEqualIffEmpty DEF Texts
  <2> QED BY <1>4, <2>4
<1> QED BY <1>1, <1>2, <1>3, <1>4

\* A word that is put behind the row, or on rows of its own, takes nothing away.
LEMMA FlushIs ==
  ASSUME NEW w \in Wrapping
  PROVE  /\ flush_word(w) \in Wrapping /\ flush_word(w).word = <<>>
         /\ \A m \in Texts : m # <<>> /\ Shows(w, m) => Shows(flush_word(w), m)
         /\ Lacks(w.word, Newline) =>
              /\ Laid(flush_word(w)) = Laid(w) \o w.word
              /\ w.word \in Narrow => Shows(flush_word(w), w.word)
<1> DEFINE o == w.out
           r == w.row
           d == w.word
           f == flush_word(w)
           F(q) == FlattenSeq(q)
<1>1. o \in Seq(Narrow) /\ r \in Narrow /\ d \in Texts /\ o \in Seq(Texts) /\ r \in Texts
  BY NarrowAre DEF Wrapping
<1>2. F(o) \in Texts /\ Laid(w) = F(o) \o r
  BY <1>1, FlattenAppend DEF Laid
<1>3. CASE Wide(r) + Wide(d) <= Width
  <2> DEFINE rd == r \o d
  <2>1. f = [w EXCEPT !.row = rd, !.word = <<>>]
    BY <1>3 DEF flush_word
  <2>2. rd \in Texts /\ Wide(rd) = Wide(r) + Wide(d)
    BY <1>1, Widths, TextsAre
  <2>3. rd \in Narrow
    BY <1>3, <2>2, NarrowAre
  <2> HIDE DEF rd
  <2>4. f.out = o /\ f.row = rd /\ f.word = <<>> /\ f \in Wrapping
    <3> DEFINE none == <<>>
    <3>1. none \in Texts
      BY TextsAre
    <3> HIDE DEF none
    <3>2. f = [w EXCEPT !.row = rd, !.word = none]
      BY <2>1 DEF none
    <3> HIDE DEF f
    <3>3. f.out = o /\ f.row = rd /\ f.word = none /\ f \in Wrapping
      BY <1>1, <2>3, <3>1, <3>2 DEF Wrapping
    <3> QED BY <3>3 DEF none
  <2> HIDE DEF f
  <2>5. Laid(f) = Laid(w) \o d
    <3> DEFINE x == F(o)
    <3>1. x \in Texts
      BY <1>2
    <3> HIDE DEF x
    <3>2. (x \o r) \o d = x \o rd
      BY <1>1, <3>1, Regroup DEF rd
    <3> QED BY <1>2, <2>4, <3>2 DEF Laid, x
  <2>6. ASSUME NEW m \in Texts, Shows(w, m) PROVE Shows(f, m)
    <3>1. PICK t \in Range(o) \cup {r} : Holds(t, m)
      BY <2>6 DEF Shows
    <3>2. Holds(r, m) => Holds(rd, m)
      BY <1>1, HoldsMore DEF rd
    <3> QED BY <2>4, <3>1, <3>2 DEF Shows
  <2>7. Shows(f, d)
    <3>1. Holds(rd, d)
      BY <1>1, HoldsMore DEF rd
    <3> QED BY <2>4, <3>1 DEF Shows
  <2> QED BY <2>4, <2>5, <2>6, <2>7 DEF f
<1>4. CASE ~(Wide(r) + Wide(d) <= Width)
  <2> DEFINE b == RowsOf[d]
             k == IF r = <<>> THEN <<>> ELSE <<r>>
             h == Front(b)
             l == Last(b)
  <2>1. b = Rows(d)
    BY <1>1 DEF RowsOf, Texts
  <2>2. f = [out |-> (o \o k) \o h, row |-> l, word |-> <<>>]
    BY <1>4, <2>1 DEF flush_word
  <2>3. /\ b \in Blocks /\ b \in Seq(Narrow)
        /\ Lacks(d, Newline) => F(b) = d /\ (d \in Narrow => b = <<d>>)
    BY <1>1, RowsAdd, RowsFit, PiecesAre DEF Texts
  <2>4. /\ Len(b) \in Nat \ {0} /\ l \in Texts /\ h \in Seq(Texts) /\ b = Append(h, l)
        /\ Len(h) = Len(b) - 1
    BY <2>3, BlockIs
  <2> HIDE DEF b
  <2>5. l \in Narrow /\ h \in Seq(Narrow)
    <3>1. l \in Narrow
      BY <2>3, <2>4 DEF Last
    <3> DEFINE n == Len(b) - 1
    <3>2. n \in Nat /\ n <= Len(b)
      BY <2>4
    <3> HIDE DEF n
    <3>3. SubSeq(b, 1, n) \in Seq(Narrow)
      BY <2>3, <3>2, FirstRows
    <3> QED BY <3>1, <3>3 DEF Front, n
  <2>6. Lacks(d, Newline) /\ d \in Narrow => l = d
    <3> DEFINE one == <<d>>
    <3>1. one[Len(one)] = d
      OBVIOUS
    <3>2. Lacks(d, Newline) /\ d \in Narrow => b = one
      BY <2>3
    <3>3. l = b[Len(b)]
      BY DEF Last
    <3> HIDE DEF one, l
    <3> QED BY ONLY <3>1, <3>2, <3>3
  <2> HIDE DEF h, l
  <2>7. k \in Seq(Narrow) /\ F(k) = r /\ (r # <<>> => Range(k) = {r})
    <3> DEFINE none == <<>>
    <3>1. none \in Seq(Narrow) /\ none \in Seq(Texts) /\ F(none) = none /\ <<r>> \in Seq(Narrow)
          /\ <<r>> = Append(none, r) /\ none \o r = r
      BY <1>1, FlattenAppend, TextsAre
    <3>2. F(Append(none, r)) = F(none) \o r
      BY <1>1, <3>1, FlattenAppend
    <3>3. F(<<r>>) = r
      BY <3>1, <3>2
    <3>4. Range(<<r>>) = {r}
      BY DEF Range
    <3>5. CASE r = <<>>
      BY <3>1, <3>5
    <3>6. CASE r # <<>>
      BY <3>1, <3>3, <3>4, <3>6
    <3> QED BY <3>5, <3>6
  <2> HIDE DEF k
  <2> DEFINE ok == o \o k
             okh == ok \o h
  <2>8. /\ ok \in Seq(Narrow) /\ Range(ok) = Range(o) \cup Range(k)
        /\ ok \in Seq(Texts) /\ k \in Seq(Texts)
    BY <1>1, <2>7, RangeConcatenation, NarrowAre, ConcatProperties
  <2> HIDE DEF ok
  <2>9. okh \in Seq(Narrow) /\ Range(okh) = Range(ok) \cup Range(h)
    BY <2>5, <2>8, RangeConcatenation, ConcatProperties
  <2>10. F(ok) = F(o) \o r /\ F(okh) = F(ok) \o F(h) /\ F(h) \in Texts /\ F(b) = F(h) \o l
    <3>1. F(ok) = F(o) \o F(k)
      BY <1>1, <2>8, FlattenConcat DEF ok
    <3>2. F(okh) = F(ok) \o F(h)
      BY <2>4, <2>8, FlattenConcat
    <3>3. F(h) \in Texts /\ F(b) = F(h) \o l
      BY <2>4, FlattenAppend
    <3> QED BY <2>7, <3>1, <3>2, <3>3
  <2> HIDE DEF okh
  <2>11. f.out = okh /\ f.row = l /\ f.word = <<>> /\ f \in Wrapping
    <3> DEFINE none == <<>>
    <3>1. none \in Texts
      BY TextsAre
    <3> HIDE DEF none
    <3>2. f = [out |-> okh, row |-> l, word |-> none]
      BY <2>2 DEF none, ok, okh
    <3> HIDE DEF f
    <3>3. f.out = okh /\ f.row = l /\ f.word = none /\ f \in Wrapping
      BY <2>5, <2>9, <3>1, <3>2 DEF Wrapping
    <3> QED BY <3>3 DEF none
  <2> HIDE DEF f
  <2>12. ASSUME Lacks(d, Newline) PROVE Laid(f) = Laid(w) \o d
    <3> DEFINE x == F(ok)
               y == F(h)
    <3>1. x \in Texts /\ y \in Texts /\ d = y \o l /\ F(okh) = x \o y /\ Laid(w) = x
      BY <1>2, <2>3, <2>8, <2>10, <2>12, FlattenAppend
    <3> HIDE DEF x, y
    <3>2. (x \o y) \o l = x \o (y \o l)
      <4>1. x \in Texts /\ y \in Texts /\ l \in Texts
        BY <2>4, <3>1
      <4> QED BY <4>1, Regroup
    <3> QED BY <2>11, <3>1, <3>2 DEF Laid
  <2>13. ASSUME NEW m \in Texts, m # <<>>, Shows(w, m) PROVE Shows(f, m)
    <3>1. PICK t \in Range(o) \cup {r} : Holds(t, m)
      BY <2>13 DEF Shows
    <3>2. t # <<>>
      BY <2>13, <3>1, HoldsMore, TextsAre
    <3>3. t \in Range(okh)
      BY <2>7, <2>8, <2>9, <3>1, <3>2
    <3> QED BY <2>11, <3>1, <3>3 DEF Shows
  <2>14. ASSUME Lacks(d, Newline), d \in Narrow PROVE Shows(f, d)
    <3>1. Holds(d, d) /\ l = d
      BY <1>1, <2>6, <2>14, HoldsMore
    <3> QED BY <2>11, <3>1 DEF Shows
  <2> QED BY <2>11, <2>12, <2>13, <2>14 DEF f
<1> QED BY <1>3, <1>4

\* wrap_visual's step over a space, when the word before it is in its row.
Part(f) ==
  IF Wide(f.row) + 1 > Width THEN [f EXCEPT !.out = Append(@, f.row), !.row = <<>>]
  ELSE IF f.row # <<>> THEN [f EXCEPT !.row = Append(@, Space)] ELSE f

\* Its step over a character.
Lay(w, c) == IF c # Space THEN [w EXCEPT !.word = Append(@, c)] ELSE Part(flush_word(w))

Blank == [out |-> <<>>, row |-> <<>>, word |-> <<>>]

\* The paragraph whose first n characters have been laid.
LEMMA PartIs ==
  ASSUME NEW f \in Wrapping, f.word = <<>>
  PROVE  /\ Part(f) \in Wrapping /\ Part(f).word = <<>>
         /\ Laid(Part(f)) \in {Laid(f), Append(Laid(f), Space)}
         /\ \A m \in Texts : m # <<>> /\ Shows(f, m) => Shows(Part(f), m)
<1> DEFINE o == f.out
           r == f.row
           v == Part(f)
           F(q) == FlattenSeq(q)
           none == <<>>
<1>1. /\ o \in Seq(Narrow) /\ r \in Narrow /\ o \in Seq(Texts) /\ r \in Texts
      /\ none \in Narrow /\ none \in Texts /\ Space \in Chars
  BY NarrowAre, TextsAre, PromptAssumption DEF Wrapping, PromptAssumption
<1>2. F(o) \in Texts /\ Laid(f) = F(o) \o r
  BY <1>1, FlattenAppend DEF Laid
<1>3. CASE Wide(r) + 1 > Width
  <2> DEFINE q == Append(o, r)
  <2>1. v = [f EXCEPT !.out = q, !.row = none]
    BY <1>3 DEF Part
  <2>2. q \in Seq(Narrow) /\ Range(q) = Range(o) \cup {r} /\ q = o \o <<r>>
    <3>1. q \in Seq(Narrow) /\ q = o \o <<r>> /\ <<r>> \in Seq(Narrow)
      BY <1>1
    <3>2. Range(<<r>>) = {r}
      BY DEF Range
    <3> DEFINE k == <<r>>
    <3>3. k \in Seq(Narrow) /\ q = o \o k /\ Range(k) = {r}
      BY <3>1, <3>2
    <3> HIDE DEF k
    <3>4. Range(o \o k) = Range(o) \cup Range(k)
      BY <1>1, <3>3, RangeConcatenation
    <3> QED BY <3>1, <3>3, <3>4
  <2>3. F(q) = F(o) \o r /\ F(q) \in Texts
    <3>1. F(q) = F(o) \o r
      BY <1>1, FlattenAppend
    <3> QED BY <1>1, <1>2, <3>1, TextsAre
  <2> HIDE DEF q, none, v
  <2>4. v.out = q /\ v.row = none /\ v.word = f.word /\ v \in Wrapping
    BY <1>1, <2>1, <2>2 DEF Wrapping
  <2>5. Laid(v) = Laid(f)
    <3>1. F(q) \o none = F(q)
      BY <2>3, TextsAre DEF none
    <3> QED BY <1>2, <2>3, <2>4, <3>1 DEF Laid
  <2>6. ASSUME NEW m \in Texts, Shows(f, m) PROVE Shows(v, m)
    BY <2>2, <2>4, <2>6 DEF Shows
  <2> QED BY <2>4, <2>5, <2>6 DEF v
<1>4. CASE ~(Wide(r) + 1 > Width) /\ r # <<>>
  <2> DEFINE rs == Append(r, Space)
  <2>1. v = [f EXCEPT !.row = rs]
    BY <1>4 DEF Part
  <2>2. rs \in Texts /\ Wide(rs) = Wide(r) + Cols[Space] /\ rs = r \o <<Space>> /\ <<Space>> \in Texts
    BY <1>1, Widths, TextsAre
  <2>3. rs \in Narrow
    <3>1. Wide(r) \in Nat /\ Width \in Nat /\ Cols[Space] = 1
      BY <1>1, Widths, PromptAssumption DEF PromptAssumption
    <3> QED BY <1>4, <2>2, <3>1, NarrowAre
  <2> DEFINE one == <<Space>>
  <2>4. rs = r \o one /\ one \in Texts
    BY <2>2
  <2> HIDE DEF rs, v, one
  <2>5. v.out = o /\ v.row = rs /\ v.word = f.word /\ v \in Wrapping
    BY <1>1, <2>1, <2>3 DEF Wrapping
  <2>6. Laid(v) = Append(Laid(f), Space)
    <3> DEFINE x == F(o)
    <3>1. x \in Texts
      BY <1>2
    <3> HIDE DEF x
    <3>2. x \o rs = Append(x \o r, Space)
      BY <1>1, <3>1, TextsAre DEF rs
    <3> QED BY <1>2, <2>5, <3>2 DEF Laid, x
  <2>7. ASSUME NEW m \in Texts, Shows(f, m) PROVE Shows(v, m)
    <3>1. PICK t \in Range(o) \cup {r} : Holds(t, m)
      BY <2>7 DEF Shows
    <3>2. Holds(r, m) => Holds(rs, m)
      BY <1>1, <2>4, HoldsMore
    <3> QED BY <2>5, <3>1, <3>2 DEF Shows
  <2> QED BY <2>5, <2>6, <2>7 DEF v
<1>5. CASE ~(Wide(r) + 1 > Width) /\ r = <<>>
  <2>1. v = f
    BY <1>5 DEF Part
  <2> QED BY <2>1
<1> QED BY <1>3, <1>4, <1>5

LEMMA LayTypes ==
  ASSUME NEW w \in Wrapping, NEW c \in Chars
  PROVE  c # Space => /\ Lay(w, c) = [w EXCEPT !.word = Append(w.word, c)]
                      /\ Lay(w, c) \in Wrapping /\ Lay(w, c).word = Append(w.word, c)
                      /\ Lay(w, c).out = w.out /\ Lay(w, c).row = w.row
<1> SUFFICES ASSUME c # Space
             PROVE  /\ Lay(w, c) = [w EXCEPT !.word = Append(w.word, c)]
                    /\ Lay(w, c) \in Wrapping /\ Lay(w, c).word = Append(w.word, c)
                    /\ Lay(w, c).out = w.out /\ Lay(w, c).row = w.row
  OBVIOUS
<1> DEFINE d == Append(w.word, c)
<1>1. Lay(w, c) = [w EXCEPT !.word = d]
  BY DEF Lay
<1>2. w.word \in Texts /\ d \in Texts
  BY TextsAre DEF Wrapping
<1> HIDE DEF d
<1> QED BY <1>1, <1>2 DEF Wrapping, d

Wrapped == [p \in Seq(Chars) |-> FoldLeft(Lay, Blank, p)]

Laying(s, g) ==
  g = [S \in SUBSET DOMAIN s |-> IF S = {} THEN Blank ELSE Lay(g[S \ {Max(S)}], s[Max(S)])]

\* A step of wrap_visual leaves rows that fit.
LEMMA LayIs ==
  ASSUME NEW w \in Wrapping, NEW c \in Chars
  PROVE  Lay(w, c) \in Wrapping
<1>1. CASE c # Space
  BY <1>1, LayTypes
<1>2. CASE c = Space
  <2> DEFINE f == flush_word(w)
  <2>1. f \in Wrapping /\ f.word = <<>>
    BY FlushIs
  <2> HIDE DEF f
  <2>2. Part(f) \in Wrapping
    BY <2>1, PartIs
  <2> QED BY <1>2, <2>2 DEF Lay, f
<1> QED BY <1>1, <1>2

\* wrap_visual, one character at a time.
LEMMA WrappedAdds ==
  /\ Wrapped \in [Seq(Chars) -> Wrapping] /\ Wrapped[<<>>] = Blank
  /\ \A p \in Seq(Chars), c \in Chars : Wrapped[Append(p, c)] = Lay(Wrapped[p], c)
<1> DEFINE op == [c \in Chars |-> [w \in Wrapping |-> Lay(w, c)]]
<1>1. /\ op \in [Chars -> [Wrapping -> Wrapping]]
      /\ \A c \in Chars, w \in Wrapping : op[c][w] = Lay(w, c)
  BY LayIs
<1>2. Blank \in Wrapping
  <2> DEFINE none == <<>>
  <2>1. none \in Narrow /\ none \in Texts /\ none \in Seq(Narrow)
    BY NarrowAre, TextsAre
  <2>2. Blank = [out |-> none, row |-> none, word |-> none]
    BY DEF Blank
  <2> HIDE DEF none
  <2> QED BY <2>1, <2>2 DEF Wrapping
<1> HIDE DEF op
<1>3. ASSUME NEW s \in Seq(Chars)
      PROVE  \E g : Folds(Len(s), Wrapping, Blank, Along(op, s), g) /\ Wrapped[s] = g[1 .. Len(s)]
  <2>1. Wrapped[s] = (CHOOSE g : Laying(s, g))[DOMAIN s]
    BY DEF Wrapped, FoldLeft, MapThenFoldSet, Laying
  <2>2. PICK h : Follows(Chars, Wrapping, Blank, op, s, h) /\ Stays(Chars, Wrapping, s, h)
    BY <1>1, <1>2, FoldAlong
  <2>3. Laying(s, h)
    BY <1>1, <2>2 DEF Follows, Stays, Laying
  <2> DEFINE g == CHOOSE g : Laying(s, g)
  <2>4. Laying(s, g)
    BY <2>3
  <2> HIDE DEF g
  <2>5. Follows(Chars, Wrapping, Blank, op, s, g)
    BY <1>1, <2>4 DEF Follows, Laying
  <2>6. Folds(Len(s), Wrapping, Blank, Along(op, s), g) /\ DOMAIN s = 1 .. Len(s)
    BY <1>1, <1>2, <2>5, FoldAlong
  <2> QED BY <2>1, <2>6 DEF g
<1>4. Wrapped = [s \in Seq(Chars) |-> Wrapped[s]]
  BY DEF Wrapped
<1>5. FoldOf(Chars, Wrapping, Blank, op, Wrapped)
  BY <1>1, <1>2, <1>3, <1>4 DEF FoldOf
<1>6. Adds(Chars, Wrapping, Blank, op, Wrapped)
  BY <1>5, FoldAdds
<1>7. ASSUME NEW s \in Seq(Chars), NEW c \in Chars PROVE Wrapped[Append(s, c)] = Lay(Wrapped[s], c)
  BY <1>1, <1>6 DEF Adds
<1> QED BY <1>6, <1>7 DEF Adds

\* The word from i on is not preceded by another character of a word.
Begins(p, i) == i = 1 \/ p[i - 1] = Space
Solid(p, i, j) == \A k \in i .. j : p[k] # Space

\* A word of p that a space ends.
Ended(p, i, j) ==
  /\ i \in 1 .. j /\ j \in 1 .. (Len(p) - 1)
  /\ Solid(p, i, j) /\ Begins(p, i) /\ p[j + 1] = Space

Spaced(x) == x = <<>> \/ x[Len(x)] = Space

\* The last word is what is behind the last space.
LEMMA LastWord ==
  ASSUME NEW x \in Texts, NEW t \in Texts, NEW i \in 1 .. Len(x \o t), Spaced(x),
         Lacks(t, Space), Solid(x \o t, i, Len(x \o t)), Begins(x \o t, i)
  PROVE  SubSeq(x \o t, i, Len(x \o t)) = t
<1> DEFINE p == x \o t
           n == Len(x)
           m == Len(t)
<1>1. /\ p \in Texts /\ Len(p) = n + m /\ n \in Nat /\ m \in Nat
      /\ \A k \in 1 .. n : p[k] = x[k]
      /\ \A k \in 1 .. m : p[n + k] = t[k]
  BY DEF Texts
<1>2. n = 0 \/ x[n] = Space
  BY DEF Spaced
<1>3. Solid(p, i, n + m) /\ Begins(p, i) /\ i \in 1 .. (n + m)
  BY <1>1
<1> HIDE DEF p, n, m
<1>4. ~(i <= n)
  <2> SUFFICES ASSUME i <= n PROVE FALSE
    OBVIOUS
  <2>1. n \in 1 .. n /\ n \in i .. (n + m)
    BY <1>1, <1>3
  <2>2. p[n] = Space
    BY <1>1, <1>2, <2>1
  <2> QED BY <1>3, <2>1, <2>2 DEF Solid
<1>5. ~(i > n + 1)
  <2> SUFFICES ASSUME i > n + 1 PROVE FALSE
    OBVIOUS
  <2>1. i # 1 /\ i - 1 - n \in 1 .. m /\ n + (i - 1 - n) = i - 1
    BY <1>1, <1>3
  <2>2. p[i - 1] = t[i - 1 - n]
    BY <1>1, <2>1
  <2>3. p[i - 1] = Space
    BY <1>3, <2>1 DEF Begins
  <2> QED BY <2>1, <2>2, <2>3 DEF Lacks, m
<1>6. i = n + 1
  BY <1>1, <1>3, <1>4, <1>5
<1> DEFINE q == SubSeq(p, i, n + m)
<1>7. q \in Texts /\ Len(q) = m /\ \A k \in 1 .. m : q[k] = p[n + k]
  <2>1. \A k \in i .. (n + m) : p[k] \in Chars
    BY <1>1, <1>6 DEF Texts
  <2>2. /\ q \in Seq(Chars) /\ Len(q) = (IF i <= n + m THEN n + m - i + 1 ELSE 0)
        /\ \A k \in 1 .. (n + m - i + 1) : q[k] = p[i + k - 1]
    BY <1>1, <1>3, <2>1, SubSeqProperties
  <2> HIDE DEF q
  <2>3. n + m - i + 1 = m /\ \A k \in 1 .. m : i + k - 1 = n + k
    BY <1>1, <1>6
  <2>4. Len(q) = m
    BY <1>1, <1>3, <2>2, <2>3
  <2>5. \A k \in 1 .. m : q[k] = p[n + k]
    BY <2>2, <2>3
  <2> QED BY <2>2, <2>4, <2>5 DEF Texts
<1> HIDE DEF q
<1>8. q = t
  <2>1. Len(q) = Len(t) /\ q \in Seq(Chars) /\ t \in Seq(Chars)
    BY <1>7 DEF m, Texts
  <2>2. \A k \in 1 .. Len(q) : q[k] = t[k]
    BY <1>1, <1>7
  <2> QED BY <2>1, <2>2, SeqEqual
<1> QED BY <1>1, <1>8 DEF p, q

\* The word from i to j ended in p, or c ends it.
EndedBy(p, c, i, j) ==
  /\ i \in 1 .. j /\ j \in 1 .. Len(p) /\ SubSeq(Append(p, c), i, j) = SubSeq(p, i, j)
  /\ SubSeq(p, i, j) \in Texts /\ SubSeq(p, i, j) # <<>>
  /\ j # Len(p) => Ended(p, i, j)
  /\ j = Len(p) => c = Space /\ Solid(p, i, j) /\ Begins(p, i)

\* A word that ended before a character more.
LEMMA EndedIs ==
  ASSUME NEW p \in Texts, NEW c \in Chars, NEW i, NEW j, Ended(Append(p, c), i, j)
  PROVE  EndedBy(p, c, i, j)
<1> DEFINE t == Append(p, c)
           n == Len(p)
<1>1. Len(t) = n + 1 /\ n \in Nat /\ t[n + 1] = c /\ \A k \in 1 .. n : t[k] = p[k]
  BY DEF Texts
<1>2. Ended(t, i, j)
  OBVIOUS
<1>9. \A k \in 1 .. n : p[k] \in Chars
  BY DEF Texts
<1>3. i \in 1 .. j /\ j \in 1 .. n /\ Solid(t, i, j) /\ Begins(t, i) /\ t[j + 1] = Space
  BY <1>1, <1>2 DEF Ended
<1>4. SubSeq(t, i, j) = SubSeq(p, i, j) /\ SubSeq(p, i, j) \in Texts /\ SubSeq(p, i, j) # <<>>
  <2> DEFINE a == SubSeq(t, i, j)
             b == SubSeq(p, i, j)
  <2>1. /\ i \in Int /\ j \in Int /\ i <= j /\ \A k \in i .. j : k \in 1 .. n
    BY <1>1, <1>3
  <2>2. \A k \in i .. j : p[k] \in Chars /\ t[k] \in Chars
    BY <1>1, <1>9, <2>1
  <2>3. /\ a \in Seq(Chars) /\ Len(a) = j - i + 1
        /\ \A k \in 1 .. (j - i + 1) : a[k] = t[i + k - 1]
    <3> HIDE DEF t
    <3> QED BY <2>1, <2>2, SubSeqProperties
  <2>4. /\ b \in Seq(Chars) /\ Len(b) = j - i + 1
        /\ \A k \in 1 .. (j - i + 1) : b[k] = p[i + k - 1]
    BY <2>1, <2>2, SubSeqProperties
  <2> HIDE DEF a, b, t
  <2>5. \A k \in 1 .. (j - i + 1) : i + k - 1 \in 1 .. n
    BY <2>1
  <2>6. \A k \in 1 .. Len(a) : a[k] = b[k]
    BY <1>1, <2>3, <2>4, <2>5
  <2>7. a = b
    BY <2>3, <2>4, <2>6, SeqEqual
  <2>8. b # <<>>
    <3>1. Len(b) # 0
      BY <2>1, <2>4
    <3> QED BY <3>1
  <2> QED BY <2>4, <2>7, <2>8 DEF a, b, Texts
<1> HIDE DEF t, n
<1>5. Solid(p, i, j)
  <2>1. \A k \in i .. j : k \in 1 .. n
    BY <1>1, <1>3
  <2> QED BY <1>1, <1>3, <2>1 DEF Solid
<1>6. Begins(p, i)
  <2>1. i = 1 \/ i - 1 \in 1 .. n
    BY <1>1, <1>3
  <2> QED BY <1>1, <1>3, <2>1 DEF Begins
<1>7. ASSUME j # n PROVE Ended(p, i, j)
  <2>1. j + 1 \in 1 .. n /\ j \in 1 .. (n - 1)
    BY <1>1, <1>3, <1>7
  <2>2. p[j + 1] = Space
    BY <1>1, <1>3, <2>1
  <2> QED BY <1>3, <1>5, <1>6, <2>1, <2>2 DEF Ended, n
<1>8. j = n => c = Space
  BY <1>1, <1>3
<1> QED BY <1>3, <1>4, <1>5, <1>6, <1>7, <1>8 DEF t, n, EndedBy

\* The part p of a paragraph is in the rows and the word of w: nothing but spaces
\* is lost, the word is what is behind the last space, and every word before it
\* that fits a row is in one.
Entire(p, w) ==
  /\ Lacks(w.word, Newline) /\ Lacks(w.word, Space)
  /\ Left(Space)[Laid(w) \o w.word] = Left(Space)[p]
  /\ \E x \in Texts : p = x \o w.word /\ Spaced(x)
  /\ \A i, j \in 1 .. Len(p) :
       Ended(p, i, j) /\ Wide(SubSeq(p, i, j)) <= Width => Shows(w, SubSeq(p, i, j))

LEMMA LacksMore ==
  ASSUME NEW s \in Texts, NEW c \in Chars, NEW d, Lacks(s, d), c # d
  PROVE  Lacks(Append(s, c), d)
<1> DEFINE t == Append(s, c)
           n == Len(s)
<1>1. Len(t) = n + 1 /\ n \in Nat /\ t[n + 1] = c /\ \A i \in 1 .. n : t[i] = s[i]
  BY DEF Texts
<1>2. \A i \in 1 .. n : s[i] # d
  BY DEF Lacks
<1> HIDE DEF t, n
<1>3. \A i \in 1 .. Len(t) : i \in 1 .. n \/ i = n + 1
  BY <1>1
<1>4. \A i \in 1 .. Len(t) : t[i] # d
  BY <1>1, <1>2, <1>3
<1>5. Lacks(t, d)
  BY <1>4 DEF Lacks
<1> QED BY <1>5 DEF t

LEMMA LaidTypes ==
  ASSUME NEW w \in Wrapping
  PROVE  Laid(w) \in Texts /\ w.word \in Texts /\ Laid(w) \o w.word \in Texts
<1>1. w.out \in Seq(Texts) /\ w.row \in Texts /\ w.word \in Texts
  BY NarrowAre DEF Wrapping
<1>2. FlattenSeq(w.out) \in Texts
  BY <1>1, FlattenAppend
<1>3. Laid(w) \in Texts
  BY <1>1, <1>2, TextsAre DEF Laid
<1> QED BY <1>1, <1>3, TextsAre

\* A character of a word.
LEMMA EntireWord ==
  ASSUME NEW p \in Texts, NEW w \in Wrapping, NEW c \in Chars, Entire(p, w),
         c # Space, c # Newline
  PROVE  Entire(Append(p, c), Lay(w, c))
<1> DEFINE v == Lay(w, c)
           d == w.word
           dc == Append(d, c)
           pc == Append(p, c)
<1>1. d \in Texts /\ Laid(w) \in Texts /\ dc \in Texts /\ pc \in Texts
  BY LaidTypes, TextsAre
<1>2. v.word = dc /\ v.out = w.out /\ v.row = w.row
  BY LayTypes
<1> HIDE DEF v
<1>3. Laid(v) = Laid(w) /\ \A m : Shows(w, m) => Shows(v, m)
  BY <1>2 DEF Laid, Shows
<1>4. Lacks(dc, Newline) /\ Lacks(dc, Space)
  BY <1>1, LacksMore DEF Entire
<1>5. Left(Space)[Laid(v) \o dc] = Left(Space)[pc]
  <2> DEFINE y == Laid(w)
  <2>1. y \in Texts
    BY <1>1
  <2> HIDE DEF y
  <2> DEFINE yd == y \o d
  <2>2. y \o dc = Append(yd, c) /\ yd \in Texts
    <3>1. y \o Append(d, c) = Append(y \o d, c)
      BY <1>1, <2>1, Pushed, Zenon
    <3>2. y \o d \in Texts
      BY <1>1, <2>1, TextsAre, Zenon
    <3> QED BY <3>1, <3>2
  <2>3. Left(Space)[yd] = Left(Space)[p]
    BY DEF Entire, y
  <2> HIDE DEF yd
  <2>4. /\ Left(Space)[Append(yd, c)] = Drop(Left(Space)[yd], c, Space)
        /\ Left(Space)[pc] = Drop(Left(Space)[p], c, Space)
    BY <2>2, WithoutAdds DEF Texts
  <2>5. Laid(v) \o dc = Append(yd, c)
    BY <1>3, <2>2 DEF y
  <2> QED BY <2>3, <2>4, <2>5
<1>6. \E x \in Texts : pc = x \o dc /\ Spaced(x)
  <2>1. PICK x \in Texts : p = x \o d /\ Spaced(x)
    BY DEF Entire
  <2>2. x \o dc = Append(x \o d, c)
    BY <1>1, Pushed, Zenon
  <2> QED BY <2>1, <2>2
<1>7. ASSUME NEW i, NEW j, Ended(pc, i, j), Wide(SubSeq(pc, i, j)) <= Width
      PROVE  Shows(v, SubSeq(pc, i, j))
  <2>1. /\ i \in 1 .. j /\ j \in 1 .. Len(p) /\ SubSeq(pc, i, j) = SubSeq(p, i, j)
        /\ Ended(p, i, j) /\ Len(p) \in Nat
    <3>1. Len(p) \in Nat
      BY DEF Texts
    <3>2. p \in Texts /\ c \in Chars /\ Ended(Append(p, c), i, j)
      BY <1>1, <1>7
    <3>3. EndedBy(p, c, i, j)
      BY ONLY <3>2, EndedIs
    <3> QED BY <3>1, <3>3 DEF EndedBy
  <2>2. i \in 1 .. Len(p)
    BY <2>1
  <2>3. Wide(SubSeq(p, i, j)) <= Width
    BY <1>7, <2>1
  <2>4. Shows(w, SubSeq(p, i, j))
    BY <2>1, <2>2, <2>3 DEF Entire
  <2>5. SubSeq(pc, i, j) = SubSeq(p, i, j)
    BY <2>1
  <2> QED BY <1>3, <2>4, <2>5
<1> HIDE DEF pc, dc
<1>8. Entire(pc, v)
  BY <1>2, <1>4, <1>5, <1>6, <1>7 DEF Entire
<1> QED BY <1>8 DEF v, pc

\* A space.
LEMMA EntireSpace ==
  ASSUME NEW p \in Texts, NEW w \in Wrapping, Entire(p, w)
  PROVE  Entire(Append(p, Space), Lay(w, Space))
<1> DEFINE f == flush_word(w)
           v == Lay(w, Space)
           d == w.word
           pc == Append(p, Space)
           none == <<>>
<1>1. d \in Texts /\ Laid(w) \in Texts /\ pc \in Texts /\ Space \in Chars /\ none \in Texts
  BY LaidTypes, TextsAre, PromptAssumption DEF PromptAssumption
<1>2. v = Part(f)
  BY DEF Lay
<1>3. /\ f \in Wrapping /\ f.word = <<>>
      /\ \A m \in Texts : m # <<>> /\ Shows(w, m) => Shows(f, m)
      /\ Laid(f) = Laid(w) \o d
      /\ d \in Narrow => Shows(f, d)
  BY FlushIs DEF Entire
<1> HIDE DEF f, v
<1>4. /\ v \in Wrapping /\ v.word = <<>> /\ Laid(v) \in {Laid(f), Append(Laid(f), Space)}
      /\ \A m \in Texts : m # <<>> /\ Shows(f, m) => Shows(v, m)
  BY <1>2, <1>3, PartIs
<1>5. Lacks(v.word, Newline) /\ Lacks(v.word, Space)
  BY <1>4 DEF Lacks
<1>6. Left(Space)[Laid(v) \o v.word] = Left(Space)[pc]
  <2> DEFINE y == Laid(f)
             u == Laid(v)
  <2>1. y \in Texts /\ u \in Texts
    BY <1>3, <1>4, LaidTypes
  <2>2. Left(Space)[y] = Left(Space)[p]
    BY <1>3 DEF Entire
  <2> HIDE DEF y, u
  <2>3. /\ Left(Space)[Append(y, Space)] = Drop(Left(Space)[y], Space, Space)
        /\ Left(Space)[pc] = Drop(Left(Space)[p], Space, Space)
    BY <1>1, <2>1, WithoutAdds DEF Texts
  <2>4. Left(Space)[u] = Left(Space)[p]
    BY <1>4, <2>2, <2>3 DEF Drop, u, y
  <2>5. u \o none = u
    BY <2>1, TextsAre
  <2> HIDE DEF pc
  <2>6. Left(Space)[pc] = Left(Space)[p]
    BY <2>2, <2>3 DEF Drop
  <2>7. Laid(v) \o v.word = u
    BY <1>4, <2>5 DEF u
  <2> QED BY <2>4, <2>6, <2>7
<1>7. \E x \in Texts : pc = x \o v.word /\ Spaced(x)
  <2>1. pc[Len(pc)] = Space
    BY DEF Texts
  <2>2. Spaced(pc)
    BY <2>1 DEF Spaced
  <2>3. pc \o none = pc
    BY <1>1, TextsAre
  <2> HIDE DEF pc
  <2> QED BY <1>1, <1>4, <2>2, <2>3
<1>8. ASSUME NEW i, NEW j, Ended(pc, i, j), Wide(SubSeq(pc, i, j)) <= Width
      PROVE  Shows(v, SubSeq(pc, i, j))
  <2> DEFINE m == SubSeq(p, i, j)
  <2>1. /\ i \in 1 .. j /\ j \in 1 .. Len(p) /\ SubSeq(pc, i, j) = m
        /\ m \in Texts /\ m # <<>> /\ Len(p) \in Nat
        /\ j # Len(p) => Ended(p, i, j)
        /\ j = Len(p) => Solid(p, i, j) /\ Begins(p, i)
    <3>1. Len(p) \in Nat
      BY DEF Texts
    <3>2. p \in Texts /\ Space \in Chars /\ Ended(Append(p, Space), i, j)
      BY <1>1, <1>8
    <3> HIDE DEF Texts
    <3>3. EndedBy(p, Space, i, j)
      BY ONLY <3>2, EndedIs
    <3> QED BY <3>1, <3>3 DEF EndedBy
  <2>2. i \in 1 .. Len(p) /\ Wide(m) <= Width
    BY <1>8, <2>1
  <2>3. CASE j # Len(p)
    <3>1. Ended(p, i, j) /\ Shows(w, m)
      BY <2>1, <2>2, <2>3 DEF Entire
    <3> HIDE DEF m
    <3>2. Shows(f, m)
      BY <1>3, <2>1, <3>1
    <3> QED BY <1>4, <2>1, <3>2
  <2>4. CASE j = Len(p)
    <3>1. PICK x \in Texts : p = x \o d /\ Spaced(x)
      BY DEF Entire
    <3>2. Lacks(d, Space)
      BY DEF Entire
    <3>3. Solid(p, i, Len(p)) /\ Begins(p, i) /\ m = SubSeq(p, i, Len(p))
      BY <2>1, <2>4
    <3>4. SubSeq(p, i, Len(p)) = d
      <4>1. i \in 1 .. Len(x \o d) /\ Solid(x \o d, i, Len(x \o d)) /\ Begins(x \o d, i)
        BY <2>2, <3>1, <3>3
      <4>2. SubSeq(x \o d, i, Len(x \o d)) = d
        BY <1>1, <3>1, <3>2, <4>1, LastWord
      <4> QED BY <3>1, <4>2
    <3> HIDE DEF m
    <3>5. m = d
      BY <3>3, <3>4
    <3>6. d \in Narrow
      BY <1>1, <2>2, <3>5, NarrowAre
    <3>7. Shows(f, m)
      BY <1>3, <3>5, <3>6
    <3> QED BY <1>4, <2>1, <3>7
  <2> QED BY <2>3, <2>4
<1> HIDE DEF pc
<1>9. Entire(pc, v)
  BY <1>5, <1>6, <1>7, <1>8 DEF Entire
<1> QED BY <1>9 DEF v, pc

\* wrap_visual keeps every part of a paragraph entire.
LEMMA AllEntire == \A p \in Texts : Lacks(p, Newline) => Entire(p, Wrapped[p])
<1> DEFINE P == {p \in Texts : Lacks(p, Newline) => Entire(p, Wrapped[p])}
<1>1. <<>> \in P
  <2> DEFINE none == <<>>
             w == Wrapped[none]
  <2>1. none \in Texts /\ none \o none = none /\ w.word = none /\ Laid(w) = none
    <3>1. w = [out |-> none, row |-> none, word |-> none] /\ none \in Texts
      BY WrappedAdds, TextsAre DEF Blank
    <3>2. none \o none = none
      BY <3>1, TextsAre
    <3>4. FlattenSeq(none) = none
      <4>1. none \in Seq(Texts)
        OBVIOUS
      <4> QED BY <3>1, <4>1, FlattenAppend
    <3> HIDE DEF none, w
    <3>3. w.out = none /\ w.row = none /\ w.word = none
      BY <3>1
    <3> QED BY <3>1, <3>2, <3>3, <3>4 DEF Laid
  <2>2. Len(none) = 0 /\ Spaced(none) /\ Lacks(none, Newline) /\ Lacks(none, Space)
    BY DEF Spaced, Lacks
  <2> HIDE DEF none, w
  <2>3. 1 .. Len(none) = {}
    BY <2>2
  <2>4. Entire(none, w)
    BY <2>1, <2>2, <2>3 DEF Entire
  <2>5. none \in P
    BY <2>1, <2>4 DEF w
  <2> QED BY <2>5 DEF none
<1>2. ASSUME NEW p \in Seq(Chars), NEW c \in Chars, p \in P PROVE Append(p, c) \in P
  <2> DEFINE pc == Append(p, c)
  <2>1. p \in Texts /\ pc \in Texts /\ Wrapped[pc] = Lay(Wrapped[p], c) /\ Wrapped[p] \in Wrapping
    BY WrappedAdds, TextsAre DEF Texts
  <2> SUFFICES ASSUME Lacks(pc, Newline) PROVE Entire(pc, Wrapped[pc])
    BY <2>1
  <2>2. Lacks(p, Newline) /\ c # Newline
    BY <2>1, LacksAppend
  <2>3. Entire(p, Wrapped[p])
    BY <1>2, <2>2
  <2>4. CASE c # Space
    BY <2>1, <2>2, <2>3, <2>4, EntireWord
  <2>5. CASE c = Space
    BY <2>1, <2>3, <2>5, EntireSpace
  <2> QED BY <2>4, <2>5
<1> HIDE DEF P
<1>3. Seq(Chars) \subseteq P
  BY <1>1, <1>2, TextsUp
<1> QED BY <1>3 DEF P, Texts

\* wrap_visual flushes the last word, and drops an empty last row.
LEMMA WrapIs ==
  ASSUME NEW s \in Seq(Chars)
  PROVE  LET e == flush_word(Wrapped[s]) IN
         wrap_visual(s) = IF e.row # <<>> \/ e.out = <<>> THEN Append(e.out, e.row) ELSE e.out
<1> DEFINE end == flush_word((CHOOSE g : Laying(s, g))[DOMAIN s])
<1>1. Wrapped[s] = (CHOOSE g : Laying(s, g))[DOMAIN s]
  BY DEF Wrapped, FoldLeft, MapThenFoldSet, Laying
<1>2. wrap_visual(s) = IF end.row # <<>> \/ end.out = <<>> THEN Append(end.out, end.row) ELSE end.out
  BY DEF wrap_visual, FoldLeft, MapThenFoldSet, Laying, Lay, Part, Blank
<1> QED BY <1>1, <1>2

\* The rows of the paragraph, when its last word is in them.
LEMMA LinesAre ==
  ASSUME NEW e \in Wrapping
  PROVE  LET rows == IF e.row # <<>> \/ e.out = <<>> THEN Append(e.out, e.row) ELSE e.out IN
         /\ rows \in Seq(Narrow) /\ FlattenSeq(rows) = Laid(e)
         /\ \A m \in Texts : m # <<>> /\ Shows(e, m) => \E n \in DOMAIN rows : Holds(rows[n], m)
<1> DEFINE o == e.out
           r == e.row
           F(q) == FlattenSeq(q)
           none == <<>>
<1>1. /\ o \in Seq(Narrow) /\ r \in Narrow /\ o \in Seq(Texts) /\ r \in Texts
      /\ F(o) \in Texts /\ Laid(e) = F(o) \o r
  <2>1. o \in Seq(Narrow) /\ r \in Narrow /\ o \in Seq(Texts) /\ r \in Texts
    BY NarrowAre DEF Wrapping
  <2> QED BY <2>1, FlattenAppend DEF Laid
<1>2. CASE r # <<>> \/ o = <<>>
  <2> DEFINE rows == Append(o, r)
             n == Len(o)
  <2>1. /\ rows \in Seq(Narrow) /\ n \in Nat /\ DOMAIN rows = 1 .. (n + 1) /\ rows[n + 1] = r
        /\ DOMAIN o = 1 .. n /\ \A i \in 1 .. n : rows[i] = o[i]
    BY <1>1
  <2>2. F(rows) = Laid(e)
    BY <1>1, FlattenAppend
  <2> HIDE DEF rows, n
  <2>3. ASSUME NEW m \in Texts, Shows(e, m) PROVE \E i \in DOMAIN rows : Holds(rows[i], m)
    <3>1. PICK t \in Range(o) \cup {r} : Holds(t, m)
      BY <2>3 DEF Shows
    <3>2. CASE t = r
      <4>1. n + 1 \in DOMAIN rows
        BY <2>1
      <4> QED BY <2>1, <3>1, <3>2, <4>1
    <3>3. CASE t \in Range(o)
      <4>1. PICK i \in DOMAIN o : o[i] = t
        BY <3>3 DEF Range
      <4>2. i \in 1 .. n /\ i \in DOMAIN rows
        BY <2>1, <4>1
      <4> QED BY <2>1, <3>1, <4>1, <4>2
    <3> QED BY <3>1, <3>2, <3>3
  <2> QED BY <1>2, <2>1, <2>2, <2>3 DEF rows
<1>3. CASE ~(r # <<>> \/ o = <<>>)
  <2>1. r = none
    BY <1>3
  <2> DEFINE x == F(o)
  <2>2. x \o none = x
    <3>1. x \in Texts
      BY <1>1
    <3> HIDE DEF x, none
    <3>2. x \o <<>> = x
      BY <3>1, TextsAre
    <3> QED BY <3>2 DEF none
  <2>3. Laid(e) = F(o)
    BY <1>1, <2>1, <2>2
  <2>4. ASSUME NEW m \in Texts, m # <<>>, Shows(e, m) PROVE \E i \in DOMAIN o : Holds(o[i], m)
    <3>1. PICK t \in Range(o) \cup {r} : Holds(t, m)
      BY <2>4 DEF Shows
    <3>2. ~Holds(none, m)
      BY <2>4, HoldsMore, TextsAre
    <3>3. t \in Range(o)
      BY <2>1, <3>1, <3>2
    <3> QED BY <3>1, <3>3 DEF Range
  <2> QED BY <1>1, <1>3, <2>3, <2>4
<1> QED BY <1>2, <1>3

\* A part of a row, by its place in the row.
LEMMA HoldsWithin ==
  ASSUME NEW row \in Texts, NEW m \in Texts, Holds(row, m)
  PROVE  \E k \in 0 .. Len(row) - Len(m) : SubSeq(row, k + 1, k + Len(m)) = m
<1>1. PICK a \in Texts, z \in Texts : row = (a \o m) \o z
  BY DEF Holds
<1> DEFINE am == a \o m
           k == Len(a)
           n == Len(m)
           l == Len(row)
<1>2. /\ am \in Texts /\ Len(am) = k + n /\ k \in Nat /\ n \in Nat
      /\ \A i \in 1 .. n : am[k + i] = m[i]
  BY DEF Texts
<1> HIDE DEF am
<1>3. row = am \o z
  BY <1>1 DEF am
<1> HIDE DEF k, n
<1>4. /\ l = (k + n) + Len(z) /\ Len(z) \in Nat /\ l \in Nat
      /\ \A i \in 1 .. (k + n) : row[i] = am[i]
  <2>1. am \in Seq(Chars) /\ z \in Seq(Chars)
    BY <1>2 DEF Texts
  <2>2. /\ Len(am \o z) = Len(am) + Len(z) /\ Len(z) \in Nat
        /\ \A i \in 1 .. Len(am) : (am \o z)[i] = am[i]
    BY <2>1
  <2> QED BY <1>2, <1>3, <2>2 DEF l
<1> HIDE DEF l
<1>5. \A i \in 1 .. n : k + i \in 1 .. (k + n) /\ row[k + i] = m[i]
  <2>1. \A i \in 1 .. n : k + i \in 1 .. (k + n)
    BY <1>2
  <2> QED BY <1>2, <1>4, <2>1
<1> DEFINE u == k + 1
           v == k + n
           q == SubSeq(row, u, v)
<1>6. q \in Texts /\ Len(q) = n /\ \A i \in 1 .. n : q[i] = m[i]
  <2>1. \A i \in u .. v : row[i] \in Chars
    <3>1. \A i \in u .. v : i \in 1 .. l
      BY <1>2, <1>4
    <3> QED BY <3>1 DEF Texts, l
  <2>2. u \in Int /\ v \in Int /\ v - u + 1 = n /\ n \in Nat /\ \A i \in 1 .. n : u + i - 1 = k + i
    BY <1>2
  <2> HIDE DEF u, v
  <2>3. /\ q \in Seq(Chars) /\ Len(q) = (IF u <= v THEN v - u + 1 ELSE 0)
        /\ \A i \in 1 .. (v - u + 1) : q[i] = row[u + i - 1]
    BY <2>1, <2>2, SubSeqProperties
  <2> HIDE DEF q
  <2>4. Len(q) = n
    BY <2>2, <2>3
  <2>5. \A i \in 1 .. n : q[i] = row[k + i]
    BY <2>2, <2>3
  <2> QED BY <1>5, <2>3, <2>4, <2>5 DEF Texts
<1> HIDE DEF q
<1>7. q = m
  <2>1. Len(q) = Len(m) /\ q \in Seq(Chars) /\ m \in Seq(Chars)
    BY <1>6 DEF n, Texts
  <2>2. \A i \in 1 .. Len(q) : q[i] = m[i]
    BY <1>6
  <2> QED BY <2>1, <2>2, SeqEqual
<1>8. k \in 0 .. l - n
  BY <1>2, <1>4
<1> QED BY <1>7, <1>8 DEF q, u, v, k, n, l

\* A paragraph is shown whole.
LEMMA WholeIs ==
  ASSUME NEW s \in Texts, Lacks(s, Newline)
  PROVE  ShownWhole(s)
<1> DEFINE w == Wrapped[s]
           d == w.word
           e == flush_word(w)
           rows == wrap_visual(s)
           word(i, j) == /\ \A k \in i .. j : s[k] # Space
                         /\ (i = 1 \/ s[i - 1] = Space) /\ (j = Len(s) \/ s[j + 1] = Space)
           within(part, row) ==
             \E k \in 0 .. Len(row) - Len(part) : SubSeq(row, k + 1, k + Len(part)) = part
<1>1. w \in Wrapping /\ Entire(s, w)
  BY WrappedAdds, AllEntire DEF Texts
<1> HIDE DEF w
<1>2. /\ e \in Wrapping
      /\ \A m \in Texts : m # <<>> /\ Shows(w, m) => Shows(e, m)
      /\ Laid(e) = Laid(w) \o d
      /\ d \in Narrow => Shows(e, d)
  BY <1>1, FlushIs DEF Entire
<1> HIDE DEF e
<1>3. rows = IF e.row # <<>> \/ e.out = <<>> THEN Append(e.out, e.row) ELSE e.out
  BY WrapIs DEF Texts, e, w
<1> HIDE DEF rows
<1>4. /\ rows \in Seq(Narrow) /\ FlattenSeq(rows) = Laid(e)
      /\ \A m \in Texts : m # <<>> /\ Shows(e, m) => \E n \in DOMAIN rows : Holds(rows[n], m)
  BY <1>2, <1>3, LinesAre
<1>5. Without(FlattenSeq(rows), Space) = Without(s, Space)
  <2> DEFINE y == Laid(e)
  <2>1. y \in Texts /\ Left(Space)[y] = Left(Space)[s]
    BY <1>1, <1>2, LaidTypes DEF Entire
  <2> HIDE DEF y
  <2>2. Left(Space)[y] = Without(y, Space) /\ Left(Space)[s] = Without(s, Space)
    BY <2>1 DEF Left, Texts
  <2> QED BY <1>4, <2>1, <2>2 DEF y
<1>6. \A n \in DOMAIN rows : Wide(rows[n]) <= Width
  <2>1. \A n \in DOMAIN rows : rows[n] \in Narrow
    BY <1>4
  <2> QED BY <2>1 DEF Narrow
<1>7. ASSUME NEW i \in DOMAIN s, NEW j \in DOMAIN s, i <= j, word(i, j),
             Wide(SubSeq(s, i, j)) <= Width
      PROVE  \E n \in DOMAIN rows : within(SubSeq(s, i, j), rows[n])
  <2> DEFINE m == SubSeq(s, i, j)
             l == Len(s)
  <2>1. i \in 1 .. l /\ j \in 1 .. l /\ l \in Nat /\ i \in 1 .. j /\ \A k \in 1 .. l : s[k] \in Chars
    BY <1>7 DEF Texts
  <2>2. Solid(s, i, j) /\ Begins(s, i) /\ (j = l \/ s[j + 1] = Space)
    BY <1>7 DEF Solid, Begins
  <2>3. m \in Texts /\ m # <<>>
    <3>1. \A k \in i .. j : k \in 1 .. l
      BY <2>1
    <3>2. i \in Int /\ j \in Int /\ \A k \in i .. j : s[k] \in Chars
      BY <2>1, <3>1
    <3>3. m \in Seq(Chars) /\ Len(m) = (IF i <= j THEN j - i + 1 ELSE 0)
      BY <3>2, SubSeqProperties
    <3> HIDE DEF m
    <3>4. Len(m) # 0
      BY <2>1, <3>3
    <3> QED BY <3>3, <3>4 DEF Texts
  <2>4. Shows(e, m)
    <3>1. CASE j = l
      <4>1. PICK x \in Texts : s = x \o d /\ Spaced(x)
        BY <1>1 DEF Entire
      <4>2. d \in Texts /\ Lacks(d, Space)
        BY <1>1, LaidTypes DEF Entire
      <4>3. i \in 1 .. Len(x \o d) /\ Solid(x \o d, i, Len(x \o d)) /\ Begins(x \o d, i)
        BY <2>1, <2>2, <3>1, <4>1
      <4>4. SubSeq(x \o d, i, Len(x \o d)) = d
        BY <4>1, <4>2, <4>3, LastWord
      <4>5. m = d
        BY <3>1, <4>1, <4>4
      <4> HIDE DEF m
      <4>6. d \in Narrow
        <5>1. Wide(m) <= Width
          BY <1>7 DEF m
        <5> QED BY <4>2, <4>5, <5>1, NarrowAre
      <4> QED BY <1>2, <4>5, <4>6
    <3>2. CASE j # l
      <4>1. j \in 1 .. (l - 1) /\ s[j + 1] = Space
        BY <2>1, <2>2, <3>2
      <4>2. Ended(s, i, j)
        BY <2>1, <2>2, <4>1 DEF Ended
      <4>3. Shows(w, m)
        BY <1>1, <1>7, <2>1, <4>2 DEF Entire
      <4> HIDE DEF m
      <4> QED BY <1>2, <2>3, <4>3
    <3> QED BY <3>1, <3>2
  <2> HIDE DEF m
  <2>5. PICK n \in DOMAIN rows : Holds(rows[n], m)
    BY <1>4, <2>3, <2>4
  <2>6. rows[n] \in Texts
    BY <1>4, <2>5, NarrowAre
  <2>7. within(m, rows[n])
    BY <2>3, <2>5, <2>6, HoldsWithin
  <2> QED BY <2>7 DEF m
<1> QED BY <1>5, <1>6, <1>7 DEF ShownWhole, rows

\* A text without newlines is one paragraph.
LEMMA SentIs == EditorInv => SentWhole
<1> SUFFICES ASSUME EditorInv, Newline \notin Range(input) PROVE ShownWhole(input)
  BY DEF SentWhole
<1>1. input \in Texts
  BY DEF EditorInv, CaretOK, Texts
<1>2. Lacks(input, Newline)
  <2>1. \A i \in 1 .. Len(input) : i \in DOMAIN input
    BY <1>1 DEF Texts
  <2> QED BY <2>1 DEF Lacks, Range
<1> QED BY <1>1, <1>2, WholeIs

\* What is typed is shown whole once it is sent, in every reachable state and for
\* every width of the box and of the characters.
THEOREM SentIsShown == EditorSpec => []SentWhole
<1>1. EditorInit => EditorInv
  BY EditorInvInit
<1>2. EditorInv /\ [EditorNext]_editor_vars => EditorInv'
  BY EditorInvNext
<1>3. EditorInv => SentWhole
  BY SentIs
<1> QED BY <1>1, <1>2, <1>3, PTL DEF EditorSpec

\* The box, the caret in it and the transcript agree about every text, in every
\* reachable state: the four loops of wrap.rs, each with its own rules.
THEOREM RowsMatch == EditorSpec => []RowsAgree
<1>1. BoxAgrees /\ SentWhole => RowsAgree
  BY DEF RowsAgree
<1> QED BY <1>1, BoxMatches, SentIsShown, PTL
=============================================================================
