------------------------------ MODULE ChatTurns ------------------------------
(* The conversation of the terminal interface (app/src/tui/mod.rs): the       *)
(* transcript, the turn whose deltas it receives, and what the user does      *)
(* meanwhile: submit again, stop, clear, change the settings, run commands    *)
(* and overlays' jobs that push system messages.  The event loop drains the   *)
(* stream, then handles one key at a time; the turns run in their own threads *)
(* (ChainDriver).                                                             *)
EXTENDS ChainDriver, SequencesExt

CONSTANTS Mode0, Model0, \* the mode and the model the window opens with
          MaxEdits       \* bound: settings changed by the user

ASSUME ChatAssumption == Mode0 \in Kinds /\ Model0 \in Models /\ MaxEdits \in Nat

VARIABLES history,   \* the transcript
          taken,     \* deltas of each turn the interface has received
          mode,      \* the driver of the next turn
          model,     \* the model of the next turn
          setting,   \* the draft that set_draft is setting, if any
          edits      \* how often the user has changed a setting

chatVars == <<history, taken, mode, model, setting, edits>>
vars == <<driverVars, chatVars>>

\* text: the tokens in the turn, each <<turn of the driver, its number>>.
User == [role |-> "user", open |-> FALSE, of |-> 0, text |-> <<>>]
System == [role |-> "system", open |-> FALSE, of |-> 0, text |-> <<>>]
AssistantOpen(t) == [role |-> "assistant", open |-> TRUE, of |-> t, text |-> <<>>]

TypeOK ==
  /\ DriverTypeOK
  /\ history \in Seq([role : {"user", "assistant", "system"}, open : BOOLEAN,
                      of : Turns \cup {0}, text : Seq(Turns \X (1 .. MaxTokens))])
  /\ taken \in [Turns -> 0 .. MaxTokens]
  /\ mode \in Kinds /\ model \in Models
  /\ setting \subseteq Drafts \cup {None}
  /\ edits \in 0 .. MaxEdits

Init ==
  /\ DriverInit
  /\ history = <<System>>
  /\ taken = [t \in Turns |-> 0]
  /\ mode = Mode0 /\ model = Model0
  /\ setting = {}
  /\ edits = 0

-----------------------------------------------------------------------------
\* The event loop is at no other thing: set_draft takes two locks in a row.
LoopFree == setting = {}

\* A system message ends up last.  System messages in a row count as one.
WithSystem(h) == IF h # <<>> /\ Last(h).role = "system" THEN h ELSE Append(h, System)

\* Mutation of LastIsOpen: tokens go to the last reply, also when it is closed.
LastIsReply(h) == h # <<>> /\ Last(h).role = "assistant"

\* The last turn is a reply still being written.
LastIsOpen(h) == h # <<>> /\ Last(h).role = "assistant" /\ Last(h).open

WithLast(h, turn_) == [h EXCEPT ![Len(h)] = turn_]

\* t's deltas the interface has not seen.
Pending(t) == turn[t].sent > taken[t] \/ turn[t].end # "none"

NewTokens(t) == [i \in 1 .. turn[t].sent - taken[t] |-> <<t, taken[t] + i>>]

\* Mutation of Received: the end of the turn overtakes its last tokens.
ReceivedEndFirst(h, t) ==
  IF LastIsOpen(h)
  THEN WithLast(h, IF turn[t].end # "none" THEN [Last(h) EXCEPT !.open = FALSE]
                   ELSE [Last(h) EXCEPT !.text = @ \o NewTokens(t)])
  ELSE h

\* What a batch of t's deltas makes of the transcript: tokens go to the last
\* turn if it is an open reply, and are lost otherwise; Done closes the last
\* turn if it is a reply; an error closes it if it is an open one, and is shown
\* as a message of its own only when there is no transcript at all.
Received(h, t) ==
  IF LastIsOpen(h)
  THEN WithLast(h, [Last(h) EXCEPT !.text = @ \o NewTokens(t),
                                   !.open = turn[t].end = "none"])
  ELSE IF turn[t].end = "error" /\ h = <<>> THEN <<System>> ELSE h

DrainStream ==
  LET t == streaming IN
  /\ t # 0 /\ Pending(t)
  /\ history' = Received(history, t)
  /\ taken' = [taken EXCEPT ![t] = turn[t].sent]
  /\ streaming' = IF turn[t].end = "none" THEN t ELSE 0
  /\ UNCHANGED <<inner, holder, target, draft, draft_slot, turn,
                 mode, model, setting, edits>>

\* Enter on a prompt.  What is missing (a model, its tokenizer, a chain) is
\* said in the reply itself, and a turn that runs stays subscribed to;
\* otherwise the new turn replaces it.
Submit(t) ==
  /\ turn[t].pc = "off" /\ \A u \in Turns : u < t => turn[u].pc # "off"
  /\ \/ /\ mode = "chain" => target # <<>>
        /\ Start(t, mode, model)
        /\ streaming' = t
        /\ history' = history \o <<User, AssistantOpen(t)>>
     \/ /\ turn' = [turn EXCEPT ![t].pc = "over"]
        /\ history' = history \o <<User, [AssistantOpen(t) EXCEPT !.open = FALSE]>>
        /\ UNCHANGED <<streaming, inner, holder, target, draft, draft_slot>>
  /\ UNCHANGED <<taken, mode, model, setting, edits>>

\* Ctrl+C and Esc while a reply streams: the last turn is marked complete,
\* whatever it is.
Stop(h) == IF h = <<>> THEN h ELSE WithLast(h, [Last(h) EXCEPT !.open = FALSE])

StopKey ==
  /\ streaming # 0
  /\ streaming' = 0
  /\ history' = Stop(history)
  /\ UNCHANGED <<inner, holder, target, draft, draft_slot, turn,
                 taken, mode, model, setting, edits>>

\* /clear and Ctrl+L.
Clear ==
  /\ history # <<>>
  /\ history' = <<>>
  /\ UNCHANGED <<driverVars, taken, mode, model, setting, edits>>

\* /help, /hosting, /leave, /service, a setting that is refused: a system message.
Notice ==
  /\ history' = WithSystem(history)
  /\ UNCHANGED <<driverVars, taken, mode, model, setting, edits>>

\* drain_split, drain_pull: a split or a pull that was started reports, at a time
\* of its own, between any two words of a reply.
JobReport ==
  /\ history' = WithSystem(history)
  /\ UNCHANGED <<driverVars, taken, mode, model, setting, edits>>

\* /mode, /model, Alt+P, a row of the model picker, a finished download.
Choose(m, mo) ==
  /\ <<m, mo>> # <<mode, model>>
  /\ edits < MaxEdits /\ edits' = edits + 1
  /\ mode' = m /\ model' = mo
  /\ history' = WithSystem(history)
  /\ UNCHANGED <<driverVars, taken, setting>>

\* /peers, /peers clear, a swarm row of the model picker.
Peer(r) ==
  /\ r # target
  /\ edits < MaxEdits /\ edits' = edits + 1
  /\ SetTarget(r)
  /\ history' = WithSystem(history)
  /\ UNCHANGED <<streaming, taken, mode, model, setting>>

\* /draft, /draft clear: set_draft, then a system message.
Draft(d) ==
  /\ edits < MaxEdits /\ edits' = edits + 1
  /\ EvictDraft /\ setting' = {d}
  /\ UNCHANGED <<streaming, history, taken, mode, model>>

DraftIsSet ==
  /\ \E d \in setting : SetDraft(d)
  /\ setting' = {}
  /\ history' = WithSystem(history)
  /\ UNCHANGED <<streaming, taken, mode, model, edits>>

Thread(t) == DriverStep(t) /\ UNCHANGED chatVars

\* One pass of the event loop: what has come in, or a key.
Loop ==
  \/ DrainStream \/ StopKey \/ Clear \/ Notice \/ JobReport
  \/ \E t \in Turns : Submit(t)
  \/ \E m \in Kinds, mo \in Models : Choose(m, mo)
  \/ \E r \in Targets \cup {<<>>} : Peer(r)
  \/ \E d \in Drafts \cup {None} : Draft(d)

Next ==
  \/ LoopFree /\ Loop
  \/ DraftIsSet
  \/ \E t \in Turns : Thread(t)

\* The loop of the interface and the threads of the turns run on; nothing
\* fails or is pressed of necessity.
Spec ==
  /\ Init /\ [][Next]_vars
  /\ WF_vars(LoopFree /\ DrainStream) /\ WF_vars(DraftIsSet)
  /\ \A t \in Turns : WF_vars(Advance(t) /\ UNCHANGED chatVars)

-----------------------------------------------------------------------------
(* Properties.                                                               *)

\* What stands in a reply is a beginning, without a gap, of what its own turn
\* generated: nothing of a turn that was stopped or replaced gets into the next
\* one's reply, although both may be sending (drain_stream, submit, emit_fatal).
OwnPrefix ==
  \A i \in DOMAIN history :
    history[i].text = [j \in DOMAIN history[i].text |-> <<history[i].of, j>>]

\* A reply that is still last when its turn has been received to the end is
\* there to the last token, and closed (drain_stream).
LastReplyWhole ==
  LET t == Last(history).of IN
  (history # <<>> /\ Last(history).role = "assistant"
     /\ turn[t].pc = "over" /\ streaming = 0 /\ taken[t] = turn[t].sent)
  => Len(Last(history).text) = turn[t].sent /\ ~Last(history).open

\* "model unloaded mid-flight" cannot happen: a turn that has the mutex has a
\* model. A loaded draft is never in two hands: a turn that has lifted one has the
\* mutex of the model as well (run, run_blocking).
NeverUnloaded ==
  /\ TypeOK
  /\ \A t \in Turns : /\ holder[turn[t].kind] = t => turn[t].uses # None
                      /\ turn[t].lifted # None => holder["chain"] = t

\* Whatever the user presses, a turn that was started comes to its end, also when
\* nobody listens to it any more, and the interface stops waiting for it: the
\* model is free for the next turn (run_loop, drain_stream, on_token).
TurnEnds ==
  \A t \in Turns : (turn[t].pc = "start") ~> (turn[t].pc = "over" /\ streaming # t)
=============================================================================
