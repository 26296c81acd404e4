---------------------------- MODULE GreedyDecode ----------------------------
(***************************************************************************)
(* What a turn promises: with temperature 0 the target model has one       *)
(* greedy continuation of the prompt, and the tokens a turn says are that  *)
(* continuation, in order, up to the end-of-sequence token or the limit of *)
(* new tokens. A turn that succeeds has said all of it; one that fails     *)
(* stops somewhere.                                                        *)
(***************************************************************************)
EXTENDS Naturals, Sequences

CONSTANTS Tokens, Eos, MaxNew

VARIABLES greedy, \* the continuation: what the target model would say for ever
          said,   \* tokens said so far
          result  \* "idle", "running", "ok" or "failed"

\* How many tokens of a continuation are said.
ReplyLen(g) ==
    CHOOSE n \in 0..MaxNew :
        /\ \A i \in 1..n : g[i] # Eos
        /\ n = MaxNew \/ g[n + 1] = Eos
Reply(g) == SubSeq(g, 1, ReplyLen(g))

GreedyInit == said = <<>> /\ result = "idle"

Begin == result = "idle" /\ result' = "running" /\ UNCHANGED <<greedy, said>>

Say == /\ result = "running"
       /\ \E n \in 1..ReplyLen(greedy) : n > Len(said) /\ said' = SubSeq(greedy, 1, n)
       /\ result' \in {"running", "failed"}
       /\ UNCHANGED greedy

\* The last tokens and the end of the turn may come in one step.
End == /\ result = "running"
       /\ \/ result' = "ok" /\ said' = Reply(greedy)
          \/ result' = "failed" /\ UNCHANGED said
       /\ UNCHANGED greedy

GreedySpec ==
    /\ GreedyInit
    /\ [][Begin \/ Say \/ End]_<<greedy, said, result>>
=============================================================================
