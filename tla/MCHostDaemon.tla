----------------------------- MODULE MCHostDaemon -----------------------------
(***************************************************************************)
(* Small hosts: two slices of two models, two slices of one model, and one   *)
(* slice, the environment of each run being the Events of its cfg.          *)
(***************************************************************************)
EXTENDS HostDaemon, TLC

CONSTANTS m1, m2, s1

OneModel == [s \in Slices |-> m1]
TwoModels == [s \in Slices |-> IF s = s1 THEN m1 ELSE m2]

\* Two slices of one model, both on record at the first boot, are alike: a
\* SYMMETRY for invariants and action properties.
Interchangeable == Permutations(Slices)
===============================================================================
