---------------------------- MODULE SliceLifecycle ----------------------------
(***************************************************************************)
(* What a host promises about a slice, without counters, locks or release   *)
(* tasks: chains are admitted only while the slice is announced, a drain     *)
(* ends only when the chains it serves have ended, and the one exception is  *)
(* a cut, which stops every draining slice at once and after which the end   *)
(* of a drain of that slice means nothing until the daemon restarts.         *)
(***************************************************************************)
CONSTANTS Slices, Chains

VARIABLES
  stage,    \* where the slice stands
  serving,  \* the chains that run through it
  cut       \* the slices that lost a chain to a cut

vars == <<stage, serving, cut>>

Init ==
  /\ stage = [s \in Slices |-> "absent"]
  /\ serving = [s \in Slices |-> {}]
  /\ cut = {}

Begin(seed) ==
  /\ stage' = [s \in Slices |-> IF s \in seed THEN "announcing" ELSE "absent"]
  /\ serving' = [s \in Slices |-> {}]
  /\ cut' = {}

Open(s) ==
  /\ stage' = [stage EXCEPT ![s] = "announcing"]
  /\ UNCHANGED <<serving, cut>>

Close(s) ==
  /\ stage[s] = "announcing"
  /\ stage' = [stage EXCEPT ![s] = "draining"]
  /\ UNCHANGED <<serving, cut>>

Admit(c, s) ==
  /\ stage[s] = "announcing"
  /\ \A t \in Slices : c \notin serving[t]
  /\ serving' = [serving EXCEPT ![s] = @ \cup {c}]
  /\ UNCHANGED <<stage, cut>>

Finish(c, s) ==
  /\ c \in serving[s]
  /\ serving' = [serving EXCEPT ![s] = @ \ {c}]
  /\ UNCHANGED <<stage, cut>>

\* Slices whose drain is complete.
Settle(S) ==
  /\ \A s \in S : stage[s] = "draining" /\ (s \in cut \/ serving[s] = {})
  /\ stage' = [s \in Slices |-> IF s \in S THEN "stopped" ELSE stage[s]]
  /\ UNCHANGED <<serving, cut>>

\* Every drain ends now; who still serves a chain is marked.
Cut ==
  /\ stage' = [s \in Slices |->
                 IF stage[s] = "draining" THEN "stopped" ELSE stage[s]]
  /\ cut' \in SUBSET Slices
  /\ cut \subseteq cut'
  /\ \A s \in Slices :
       stage[s] = "draining" /\ serving[s] # {} => s \in cut'
  /\ UNCHANGED serving

Next ==
  \/ \E seed \in SUBSET Slices : Begin(seed) \/ Settle(seed)
  \/ \E s \in Slices : Open(s) \/ Close(s)
  \/ \E c \in Chains, s \in Slices : Admit(c, s) \/ Finish(c, s)
  \/ Cut

Spec == Init /\ [][Next]_vars
===============================================================================
