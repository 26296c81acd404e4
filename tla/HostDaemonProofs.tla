---------------------------- MODULE HostDaemonProofs ----------------------------
(***************************************************************************)
(* The slice map counts its chains right, for any sets of slices and guards. *)
(* The host daemon uses the map only through its critical sections, so what  *)
(* is shown of the map holds of it; and its announce loop respects drains,   *)
(* however its steps interleave with everyone else's.                        *)
(***************************************************************************)
EXTENDS HostDaemon, FiniteSetTheorems, TLAPS

-----------------------------------------------------------------------------
(* The slice map (ControlState).                                              *)

\* The conjunction is inductive: the count of a slice that was never forced is
\* the number of guards attached to it, so a count of zero means no guard.
ControlInv ==
  /\ ControlTypeOK
  /\ NeverOvercounts
  /\ CountsAreExact
  /\ StoppedMeansIdle

-------------------------------------------------------------------------------

\* The guards attached to a slice are finitely many.
LEMMA AttachedFinite ==
  ASSUME NEW s
  PROVE  /\ IsFiniteSet(Attached(s))
         /\ Cardinality(Attached(s)) \in Nat
         /\ Cardinality(Attached(s)) = 0 <=> Attached(s) = {}
<1>1. Attached(s) \in SUBSET Guards
  BY DEF Attached
<1>2. IsFiniteSet(Attached(s))
  BY <1>1, FS_Subset, ControlAssumption
<1> QED
  BY <1>2, FS_CardinalityType, FS_EmptySet

\* accept_chain attaches one guard more to its slice and to no other.
LEMMA AcceptAttaches ==
  ASSUME ControlTypeOK,
         NEW g \in Guards, NEW s \in Slices,
         holds[g] = NoSlice, holds' = [holds EXCEPT ![g] = s],
         NEW t \in Slices
  PROVE  /\ t # s => Attached(t)' = Attached(t)
         /\ Attached(s)' = Attached(s) \cup {g}
         /\ Cardinality(Attached(s)') = Cardinality(Attached(s)) + 1
<1>1. holds'[g] = s /\ \A h \in Guards \ {g} : holds'[h] = holds[h]
  BY DEF ControlTypeOK
<1>2. t # s => Attached(t)' = Attached(t)
  BY <1>1, ControlAssumption DEF Attached
<1>3. Attached(s)' = Attached(s) \cup {g} /\ g \notin Attached(s)
  BY <1>1, ControlAssumption DEF Attached
<1>4. Cardinality(Attached(s) \cup {g}) = Cardinality(Attached(s)) + 1
  BY <1>3, AttachedFinite, FS_AddElement
<1> QED
  BY <1>2, <1>3, <1>4

\* release_chain detaches one guard from its slice and from no other.
LEMMA ReleaseDetaches ==
  ASSUME ControlTypeOK,
         NEW g \in Guards, holds[g] # NoSlice,
         holds' = [holds EXCEPT ![g] = NoSlice],
         NEW t \in Slices
  PROVE  /\ t # holds[g] => Attached(t)' = Attached(t)
         /\ t = holds[g] =>
              /\ Attached(t)' = Attached(t) \ {g}
              /\ Cardinality(Attached(t)) > 0
              /\ Cardinality(Attached(t)') = Cardinality(Attached(t)) - 1
<1>1. holds'[g] = NoSlice /\ \A h \in Guards \ {g} : holds'[h] = holds[h]
  BY DEF ControlTypeOK
<1>2. t # holds[g] => Attached(t)' = Attached(t)
  BY <1>1, ControlAssumption DEF Attached
<1>3. ASSUME t = holds[g]
      PROVE  /\ Attached(t)' = Attached(t) \ {g}
             /\ Cardinality(Attached(t)) > 0
             /\ Cardinality(Attached(t)') = Cardinality(Attached(t)) - 1
  <2>1. Attached(t)' = Attached(t) \ {g} /\ g \in Attached(t)
    BY <1>1, <1>3, ControlAssumption DEF Attached
  <2>2. Cardinality(Attached(t) \ {g}) = Cardinality(Attached(t)) - 1
    BY <2>1, AttachedFinite, FS_RemoveElement
  <2>3. Cardinality(Attached(t)) > 0
    BY <2>1, AttachedFinite
  <2> QED
    BY <2>1, <2>2, <2>3
<1> QED
  BY <1>2, <1>3

-------------------------------------------------------------------------------

\* The empty map of a process that has not booted.
LEMMA ControlInitInv == ControlInit => ControlInv
<1> SUFFICES ASSUME ControlInit PROVE ControlInv
  OBVIOUS
<1> USE DEF ControlInit, Seeded, NoChains, NoGuards
<1>1. ControlTypeOK
  BY DEF ControlTypeOK, SliceStatus, Draining
<1>2. \A s \in Slices : Attached(s) = {}
  BY ControlAssumption DEF Attached
<1>3. \A s \in Slices : active[s] = 0 /\ Cardinality(Attached(s)) = 0
  BY <1>2, FS_EmptySet
<1> QED
  BY <1>1, <1>2, <1>3 DEF ControlInv, NeverOvercounts, CountsAreExact, StoppedMeansIdle

\* A new process starts from a map without chains.
LEMMA RestartInv ==
  ASSUME NEW seed \in SUBSET Slices, Restart(seed)
  PROVE  ControlInv'
<1> USE DEF Restart, Seeded, NoChains, NoGuards
<1>1. ControlTypeOK'
  BY DEF ControlTypeOK, SliceStatus, Draining
<1>2. \A s \in Slices : Attached(s)' = {}
  BY ControlAssumption DEF Attached
<1>3. \A s \in Slices : active'[s] = 0 /\ Cardinality(Attached(s)') = 0
  BY <1>2, FS_EmptySet
<1> QED
  BY <1>1, <1>2, <1>3 DEF ControlInv, NeverOvercounts, CountsAreExact, StoppedMeansIdle

\* A step that touches neither guards nor counts, forgets no cut, and stops a
\* slice only when its count is zero keeps the invariant.
LEMMA QuietStepInv ==
  ASSUME ControlInv, ControlTypeOK',
         UNCHANGED <<active, holds, forced>>,
         \A s \in Slices :
           status'[s] \in {"absent", "stopped"} =>
             status[s] \in {"absent", "stopped"} \/ active[s] = 0
  PROVE  ControlInv'
<1>1. \A s \in Slices : Attached(s)' = Attached(s)
  BY DEF Attached
<1>2. NeverOvercounts' /\ CountsAreExact'
  BY <1>1 DEF ControlInv, NeverOvercounts, CountsAreExact
<1>3. StoppedMeansIdle'
  BY <1>1, AttachedFinite DEF ControlInv, CountsAreExact, StoppedMeansIdle
<1> QED
  BY <1>2, <1>3 DEF ControlInv

\* accept_chain counts the guard it issues, on an announcing slice only.
LEMMA AcceptChainInv ==
  ASSUME ControlInv, NEW g \in Guards, NEW s \in Slices, AcceptChain(g, s)
  PROVE  ControlInv'
<1> USE DEF AcceptChain
<1>0. ControlTypeOK
  BY DEF ControlInv
<1>1. ControlTypeOK'
  BY <1>0 DEF ControlTypeOK, SliceStatus, Draining
<1>2. \A t \in Slices :
        /\ t # s => Attached(t)' = Attached(t) /\ active'[t] = active[t]
        /\ Cardinality(Attached(s)') = Cardinality(Attached(s)) + 1
        /\ active'[s] = active[s] + 1
  BY <1>0, AcceptAttaches DEF ControlTypeOK
<1>3. \A t \in Slices : Cardinality(Attached(t)) \in Nat /\ active[t] \in Nat
  BY <1>0, AttachedFinite DEF ControlTypeOK
<1>4. NeverOvercounts'
  BY <1>2, <1>3 DEF ControlInv, NeverOvercounts
<1>5. CountsAreExact'
  BY <1>2, <1>3 DEF ControlInv, CountsAreExact
<1>6. StoppedMeansIdle'
  BY <1>2 DEF ControlInv, StoppedMeansIdle
<1> QED
  BY <1>1, <1>4, <1>5, <1>6 DEF ControlInv

\* release_chain takes one off the count of the slice it detaches from, and
\* stops a draining slice only at zero.
LEMMA ReleaseChainInv ==
  ASSUME ControlInv, NEW g \in Guards, ReleaseChain(g)
  PROVE  ControlInv'
<1> DEFINE s == holds[g]
<1> USE DEF ReleaseChain
<1>0. ControlTypeOK
  BY DEF ControlInv
<1>1. s \in Slices /\ s # NoSlice
  BY <1>0 DEF ControlTypeOK
<1>2. \A t \in Slices :
        /\ active[t] \in Nat
        /\ t # s => active'[t] = active[t] /\ status'[t] = status[t]
  BY <1>0, <1>1 DEF ControlTypeOK, Stopped
<1>3. /\ active'[s] = CountAfterRelease(s)
      /\ CountAfterRelease(s) \in Nat
      /\ status'[s] = IF status[s] = "draining" /\ CountAfterRelease(s) = 0
                      THEN "stopped" ELSE status[s]
  BY <1>0, <1>1 DEF ControlTypeOK, Stopped, CountAfterRelease
<1>4. ControlTypeOK'
  <2>1. active' \in [Slices -> Nat]
    BY <1>0, <1>1, <1>3 DEF ControlTypeOK
  <2>2. status' \in [Slices -> SliceStatus]
    BY <1>0, <1>1 DEF ControlTypeOK, Stopped, SliceStatus
  <2>3. holds' \in [Guards -> Slices \cup {NoSlice}]
    BY <1>0 DEF ControlTypeOK
  <2>4. dropping' \subseteq {h \in Guards : holds'[h] # NoSlice}
    BY <1>0 DEF ControlTypeOK
  <2>5. overdue' \subseteq Draining'
    BY <1>0 DEF ControlTypeOK, DrainsGoOn, Draining
  <2> QED
    BY <1>0, <2>1, <2>2, <2>3, <2>4, <2>5 DEF ControlTypeOK
<1>5. \A t \in Slices :
        /\ t # s => Attached(t)' = Attached(t)
        /\ t = s => /\ Cardinality(Attached(t)) > 0
                    /\ Cardinality(Attached(t)') = Cardinality(Attached(t)) - 1
                    /\ Attached(t)' \subseteq Attached(t)
  BY <1>0, <1>1, ReleaseDetaches
<1>6. \A t \in Slices :
        /\ Cardinality(Attached(t)) \in Nat
        /\ Cardinality(Attached(t)') \in Nat
  <2>1. \A t \in Slices : Cardinality(Attached(t)) \in Nat
    BY AttachedFinite
  <2> QED
    BY <1>5, <2>1
<1>7. NeverOvercounts'
  BY <1>2, <1>3, <1>5, <1>6 DEF ControlInv, NeverOvercounts, CountAfterRelease
<1>8. CountsAreExact'
  BY <1>2, <1>3, <1>5, <1>6 DEF ControlInv, CountsAreExact, CountAfterRelease
<1>9. StoppedMeansIdle'
  <2> SUFFICES ASSUME NEW t \in Slices \ forced',
                      status'[t] \in {"absent", "stopped"}
               PROVE  Attached(t)' = {}
    BY DEF StoppedMeansIdle
  <2>1. CASE status[t] \in {"absent", "stopped"}
    BY <1>5, <2>1 DEF ControlInv, StoppedMeansIdle
  <2>2. CASE status[t] \notin {"absent", "stopped"}
    <3>1. t = s /\ active'[t] = 0
      BY <1>2, <1>3, <2>2
    <3>2. Cardinality(Attached(t)') = 0
      BY <1>8, <3>1 DEF CountsAreExact
    <3>3. IsFiniteSet(Attached(t)')
      <4>1. Attached(t)' \subseteq Attached(t) /\ IsFiniteSet(Attached(t))
        BY <1>5, <3>1, AttachedFinite
      <4> QED
        BY <4>1, FS_Subset
    <3> QED
      BY <3>2, <3>3, FS_EmptySet
  <2> QED
    BY <2>1, <2>2
<1> QED
  BY <1>4, <1>7, <1>8, <1>9 DEF ControlInv

\* force_stop_all_draining zeroes counts of chains that are alive, and those
\* slices it remembers in forced.
LEMMA ForceStopInv ==
  ASSUME ControlInv, ForceStopAllDraining
  PROVE  ControlInv'
<1> USE DEF ForceStopAllDraining
<1>0. ControlTypeOK
  BY DEF ControlInv
<1>1. ControlTypeOK'
  BY <1>0 DEF ControlTypeOK, SliceStatus, Stopped, Draining
<1>2. \A s \in Slices : Attached(s)' = Attached(s)
  BY DEF Attached
<1>3. \A s \in Slices :
        /\ active[s] \in Nat
        /\ Cardinality(Attached(s)) \in Nat
        /\ Cardinality(Attached(s)) = 0 <=> Attached(s) = {}
        /\ active'[s] = IF s \in Draining THEN 0 ELSE active[s]
        /\ status'[s] = IF s \in Draining THEN "stopped" ELSE status[s]
  BY <1>0, AttachedFinite DEF ControlTypeOK, Stopped
<1>4. \A s \in Slices \ forced' :
        s \notin forced /\ (s \in Draining => active[s] = 0)
  BY <1>3 DEF Draining
<1>5. NeverOvercounts'
  BY <1>2, <1>3 DEF ControlInv, NeverOvercounts
<1>6. CountsAreExact'
  BY <1>2, <1>3, <1>4 DEF ControlInv, CountsAreExact
<1>7. StoppedMeansIdle'
  BY <1>2, <1>3, <1>4 DEF ControlInv, CountsAreExact, StoppedMeansIdle
<1> QED
  BY <1>1, <1>5, <1>6, <1>7 DEF ControlInv

\* One step of any caller, one case per critical section.
LEMMA ControlNextInv == ControlInv /\ [ControlNext]_controlVars => ControlInv'
<1> SUFFICES ASSUME ControlInv, [ControlNext]_controlVars PROVE ControlInv'
  OBVIOUS
<1>0. ControlTypeOK
  BY DEF ControlInv
<1>1. ASSUME NEW s \in Slices, UpsertAnnouncing(s) PROVE ControlInv'
  <2>1. ControlTypeOK'
    BY <1>0, <1>1 DEF UpsertAnnouncing, ControlTypeOK, SliceStatus, DrainsGoOn, Draining
  <2> QED
    BY <1>0, <1>1, <2>1, QuietStepInv DEF UpsertAnnouncing, ControlTypeOK
<1>2. ASSUME NEW s \in Slices, BeginDrain(s) PROVE ControlInv'
  <2>1. ControlTypeOK'
    BY <1>0, <1>2 DEF BeginDrain, ControlTypeOK, SliceStatus, Draining
  <2> QED
    BY <1>0, <1>2, <2>1, QuietStepInv DEF BeginDrain, ControlTypeOK
<1>3. ASSUME NEW s \in Slices, GraceElapses(s) PROVE ControlInv'
  <2>1. ControlTypeOK'
    BY <1>0, <1>3 DEF GraceElapses, ControlTypeOK, Draining
  <2> QED
    BY <1>3, <2>1, QuietStepInv DEF GraceElapses
<1>4. ASSUME NEW g \in Guards, DropGuard(g) PROVE ControlInv'
  <2>1. ControlTypeOK'
    BY <1>0, <1>4 DEF DropGuard, ControlTypeOK, Draining
  <2> QED
    BY <1>4, <2>1, QuietStepInv DEF DropGuard
<1>5. ASSUME DrainIdle PROVE ControlInv'
  <2>1. ControlTypeOK'
    BY <1>0, <1>5 DEF DrainIdle, ControlTypeOK, SliceStatus, Stopped, DrainsGoOn, Draining
  <2> QED
    BY <1>0, <1>5, <2>1, QuietStepInv DEF DrainIdle, Stopped, IdleDraining, ControlTypeOK
<1>6. CASE UNCHANGED controlVars
  <2>1. ControlTypeOK'
    BY <1>0, <1>6 DEF controlVars, ControlTypeOK, Draining
  <2> QED
    BY <1>6, <2>1, QuietStepInv DEF controlVars
<1> QED
  BY <1>1, <1>2, <1>3, <1>4, <1>5, <1>6,
     AcceptChainInv, ReleaseChainInv, ForceStopInv, RestartInv DEF ControlNext

-------------------------------------------------------------------------------

\* Type correctness and the three count properties of the slice map, whatever
\* its callers do: accept_chain, release_chain, drain_idle and
\* force_stop_all_draining in any order and any number.
THEOREM ControlStateCorrect ==
  ControlSpec => [](ControlTypeOK /\ NeverOvercounts /\ CountsAreExact /\ StoppedMeansIdle)
<1>1. ControlInv => ControlTypeOK /\ NeverOvercounts /\ CountsAreExact /\ StoppedMeansIdle
  BY DEF ControlInv
<1> QED
  BY <1>1, ControlInitInv, ControlNextInv, PTL DEF ControlSpec

-------------------------------------------------------------------------------

\* The chains a slice serves, as the abstract lifecycle sees them.
Serving(s) == Attached(s) \ dropping

\* A slice of count zero that was never forced serves no chain.
LEMMA ZeroMeansNoChain ==
  ASSUME ControlInv, NEW s \in Slices, s \notin forced, active[s] = 0
  PROVE  Attached(s) = {}
BY AttachedFinite DEF ControlInv, CountsAreExact

\* Before the boot the map is empty, and so is the lifecycle.
LEMMA LifecycleInit == ControlInit => Lifecycle!Init
BY ControlAssumption
DEF ControlInit, Seeded, NoGuards, Attached, Lifecycle!Init

\* Each critical section is one step of the lifecycle or leaves it alone.
LEMMA LifecycleStep ==
  ControlInv /\ [ControlNext]_controlVars => [Lifecycle!Next]_(Lifecycle!vars)
<1> SUFFICES ASSUME ControlInv, [ControlNext]_controlVars
             PROVE  [Lifecycle!Next]_(Lifecycle!vars)
  OBVIOUS
<1> USE DEF Lifecycle!vars
<1>0. ControlTypeOK
  BY DEF ControlInv
<1>1. ASSUME NEW s \in Slices, UpsertAnnouncing(s) PROVE Lifecycle!Next
  <2>1. Lifecycle!Open(s)
    BY <1>1 DEF UpsertAnnouncing, Attached, Lifecycle!Open
  <2> QED
    BY <2>1 DEF Lifecycle!Next
<1>2. ASSUME NEW s \in Slices, BeginDrain(s) PROVE Lifecycle!Next
  <2>1. Lifecycle!Close(s)
    BY <1>2 DEF BeginDrain, Attached, Lifecycle!Close
  <2> QED
    BY <2>1 DEF Lifecycle!Next
<1>3. ASSUME NEW s \in Slices, GraceElapses(s) PROVE UNCHANGED Lifecycle!vars
  BY <1>3 DEF GraceElapses, Attached
<1>4. ASSUME NEW g \in Guards, NEW s \in Slices, AcceptChain(g, s)
      PROVE  Lifecycle!Next
  <2>1. \A t \in Slices : g \notin Attached(t)
    BY <1>4, ControlAssumption DEF AcceptChain, Attached
  <2>2. g \notin dropping
    BY <1>0, <1>4 DEF AcceptChain, ControlTypeOK
  <2>3. \A t \in Slices : Attached(t)' =
          IF t = s THEN Attached(t) \cup {g} ELSE Attached(t)
    BY <1>0, <1>4, AcceptAttaches DEF AcceptChain
  <2>4. [t \in Slices |-> Serving(t)]' =
          [[t \in Slices |-> Serving(t)] EXCEPT ![s] = @ \cup {g}]
    BY <1>4, <2>2, <2>3 DEF AcceptChain, Serving
  <2>5. Lifecycle!Admit(g, s)
    BY <1>4, <2>1, <2>4 DEF AcceptChain, Lifecycle!Admit, Serving
  <2> QED
    BY <2>5 DEF Lifecycle!Next
<1>5. ASSUME NEW g \in Guards, DropGuard(g) PROVE Lifecycle!Next
  <2> PICK s \in Slices : s = holds[g]
    BY <1>0, <1>5 DEF DropGuard, ControlTypeOK
  <2>1. g \in Serving(s)
    BY <1>5 DEF DropGuard, Attached, Serving
  <2>2. \A t \in Slices : Attached(t)' = Attached(t) /\ (g \in Attached(t) => t = s)
    BY <1>5 DEF DropGuard, Attached
  <2>3. [t \in Slices |-> Serving(t)]' =
          [[t \in Slices |-> Serving(t)] EXCEPT ![s] = @ \ {g}]
    BY <1>5, <2>2 DEF DropGuard, Serving
  <2>4. Lifecycle!Finish(g, s)
    BY <1>5, <2>1, <2>3 DEF DropGuard, Lifecycle!Finish, Serving
  <2> QED
    BY <2>1, <2>4 DEF Lifecycle!Next
<1>6. ASSUME NEW g \in Guards, ReleaseChain(g)
      PROVE  Lifecycle!Next \/ UNCHANGED Lifecycle!vars
  <2> PICK s \in Slices : s = holds[g] /\ g \in dropping
    BY <1>0, <1>6 DEF ReleaseChain, ControlTypeOK
  <2>1. \A t \in Slices : Attached(t)' \ dropping' = Attached(t) \ dropping
    BY <1>0, <1>6, ControlAssumption DEF ReleaseChain, ControlTypeOK, Attached
  <2>2. [t \in Slices |-> Serving(t)]' = [t \in Slices |-> Serving(t)]
    BY <2>1 DEF Serving
  <2>3. CASE status[s] = "draining" /\ CountAfterRelease(s) = 0
    <3>1. s \in forced \/ Serving(s) = {}
      <4> SUFFICES ASSUME s \notin forced PROVE Attached(s) \ dropping = {}
        BY DEF Serving
      <4>1. ControlInv'
        BY <1>6, ReleaseChainInv
      <4>2. active'[s] = 0 /\ forced' = forced
        BY <1>0, <1>6, <2>3 DEF ReleaseChain, ControlTypeOK
      <4>3. status'[s] = "stopped"
        BY <1>6, <2>3 DEF ReleaseChain, Stopped
      <4>4. Attached(s)' = {}
        BY <4>1, <4>2, <4>3 DEF ControlInv, StoppedMeansIdle
      <4>5. Attached(s)' \ dropping' = Attached(s) \ dropping
        BY <2>1
      <4> QED
        BY <4>4, <4>5
    <3>2. Lifecycle!Settle({s})
      BY <1>6, <2>2, <2>3, <3>1
      DEF ReleaseChain, Stopped, Lifecycle!Settle, Serving
    <3> QED
      BY <3>2 DEF Lifecycle!Next
  <2>4. CASE ~(status[s] = "draining" /\ CountAfterRelease(s) = 0)
    BY <1>6, <2>2, <2>4 DEF ReleaseChain, Serving
  <2> QED
    BY <2>3, <2>4
<1>7. ASSUME DrainIdle PROVE Lifecycle!Next
  <2>1. \A s \in IdleDraining : s \in forced \/ Serving(s) = {}
    BY ZeroMeansNoChain DEF IdleDraining, Serving
  <2>2. Lifecycle!Settle(IdleDraining)
    BY <1>7, <2>1
    DEF DrainIdle, Stopped, IdleDraining, Attached, Lifecycle!Settle, Serving
  <2>3. IdleDraining \in SUBSET Slices
    BY DEF IdleDraining
  <2> QED
    BY <2>2, <2>3 DEF Lifecycle!Next
<1>8. ASSUME ForceStopAllDraining PROVE Lifecycle!Next
  <2>1. \A s \in Slices : s \in Draining /\ Serving(s) # {} => s \in forced'
    <3> SUFFICES ASSUME NEW s \in Slices, s \in Draining, Serving(s) # {},
                        s \notin forced
                 PROVE  active[s] > 0
      BY <1>8 DEF ForceStopAllDraining
    <3>1. active[s] # 0
      BY ZeroMeansNoChain DEF Serving
    <3> QED
      BY <1>0, <3>1 DEF ControlTypeOK
  <2>2. forced' \in SUBSET Slices
    BY <1>0, <1>8 DEF ForceStopAllDraining, ControlTypeOK, Draining
  <2>3. Lifecycle!Cut
    BY <1>8, <2>1, <2>2
    DEF ForceStopAllDraining, Stopped, Draining, Attached, Lifecycle!Cut, Serving
  <2> QED
    BY <2>3 DEF Lifecycle!Next
<1>9. ASSUME NEW seed \in SUBSET Slices, Restart(seed) PROVE Lifecycle!Next
  <2>1. Lifecycle!Begin(seed)
    BY <1>9, ControlAssumption
    DEF Restart, Seeded, NoGuards, Attached, Lifecycle!Begin
  <2> QED
    BY <2>1 DEF Lifecycle!Next
<1>10. CASE UNCHANGED controlVars
  BY <1>10 DEF controlVars, Attached
<1> QED
  BY <1>1, <1>2, <1>3, <1>4, <1>5, <1>6, <1>7, <1>8, <1>9, <1>10 DEF ControlNext

\* The slice map keeps the promise of SliceLifecycle: chains are admitted only
\* while announcing, and a drain ends only when its chains have ended or after
\* the watchdog cut one off.
THEOREM ControlRefinesLifecycle == ControlSpec => LifecycleSpec
BY ControlInitInv, ControlNextInv, LifecycleInit, LifecycleStep, PTL
DEF ControlSpec, LifecycleSpec, Lifecycle!Spec

-----------------------------------------------------------------------------
(* The daemon.                                                                *)

\* Where a loop has a slice at hand.
CurPoints == {"truncate", "write", "recheck", "register", "put"}

LoopsOK ==
  /\ pc \in [Loops -> LoopPoints]
  /\ todo \in [Loops -> SUBSET Slices]
  /\ cur \in [Loops -> Slices \cup {NoSlice}]
  /\ loaded \in [Loops -> SUBSET Slices]
  /\ \A l \in Loops : pc[l] \in CurPoints => cur[l] \in Slices

\* What a process leaves behind when it is gone.
DownOK ==
  phase = "down" =>
    /\ \A s \in Slices : status[s] = "absent"
    /\ \A g \in Guards : holds[g] = NoSlice
    /\ \A l \in Loops : pc[l] = "none"
    /\ late = {}

DaemonInv == TypeOK /\ LoopsOK /\ DownOK

-------------------------------------------------------------------------------

\* Taking up keys leaves a loop well-formed, at a point without a slice at hand.
LEMMA BeginOK ==
  ASSUME LoopsOK, NEW l \in Loops, NEW S \in SUBSET Slices,
         NEW point \in LoopPoints \ CurPoints, NEW after \in LoopPoints \ CurPoints,
         Begin(l, S, point, after),
         loaded' \in [Loops -> SUBSET Slices],
         cur' = cur \/ cur' = [cur EXCEPT ![l] = NoSlice]
  PROVE  LoopsOK'
<1> USE DEF Begin, Goto, LoopsOK
<1>1. pc' \in [Loops -> LoopPoints] /\ todo' \in [Loops -> SUBSET Slices]
  OBVIOUS
<1>2. cur' \in [Loops -> Slices \cup {NoSlice}]
  OBVIOUS
<1>3. ASSUME NEW k \in Loops, pc'[k] \in CurPoints PROVE cur'[k] \in Slices
  <2>1. k # l
    BY <1>3
  <2> QED
    BY <1>3, <2>1
<1> QED
  BY <1>1, <1>2, <1>3

\* Going on to the next key does too.
LEMMA NextKeyOK ==
  ASSUME LoopsOK, NEW l \in Loops,
         NEW point \in LoopPoints \ CurPoints, NEW after \in LoopPoints \ CurPoints,
         NextKey(l, point, after),
         loaded' \in [Loops -> SUBSET Slices]
  PROVE  LoopsOK'
<1>1. todo[l] \ {cur[l]} \in SUBSET Slices
  BY DEF LoopsOK
<1> QED
  BY <1>1, BeginOK DEF NextKey

\* Taking a key up gives the loop a slice at hand.
LEMMA PickOK ==
  ASSUME LoopsOK, NEW l \in Loops, NEW s, NEW point \in LoopPoints,
         Pick(l, s, point), UNCHANGED todo,
         loaded' \in [Loops -> SUBSET Slices]
  PROVE  LoopsOK'
BY DEF LoopsOK, Pick, Goto

\* A loop that moves with the slice at hand, or without one, keeps it.
LEMMA GotoOK ==
  ASSUME LoopsOK, NEW l \in Loops, NEW point \in LoopPoints,
         Goto(l, point), UNCHANGED <<todo, cur, loaded>>,
         point \in CurPoints => cur[l] \in Slices
  PROVE  LoopsOK'
BY DEF LoopsOK, Goto

\* Every step of the daemon leaves the loops well-formed.
LEMMA LoopsStep == TypeOK /\ LoopsOK /\ [Next]_vars => LoopsOK'
<1> SUFFICES ASSUME TypeOK, LoopsOK, [Next]_vars PROVE LoopsOK'
  OBVIOUS
<1> USE DEF LoopPoints, PersistPoints, CurPoints
<1>a. Announcer \in Loops /\ Watchdog \in Loops /\ Announcer # Watchdog
  BY DEF Announcer, Watchdog, Loops
<1>b. ASSUME UNCHANGED loopVars PROVE LoopsOK'
  BY <1>b DEF loopVars, LoopsOK
<1>c. \A l \in Loops : AfterPersist(l) \in {"scan", "idle"}
  BY DEF AfterPersist
<1>d. ASSUME NEW l \in Loops, PersistDrained(l) PROVE LoopsOK'
  BY <1>c, <1>d, BeginOK DEF PersistDrained, IdleDraining, LoopsOK
<1>e. ASSUME NEW l \in Loops, SaveDone(l) PROVE LoopsOK'
  <2>1. loaded' \in [Loops -> SUBSET Slices]
    BY <1>e DEF SaveDone, LoopsOK
  <2> QED
    BY <1>c, <1>e, <2>1, NextKeyOK DEF SaveDone
<1>1. ASSUME NEW l \in Loops, Persist(l) \/ SaveFails(l) PROVE LoopsOK'
  <2>1. CASE LoadDisabled(l)
    <3>1. PICK s \in todo[l] :
            /\ Pick(l, s, "truncate")
            /\ loaded' = [loaded EXCEPT ![l] = (disabled \cap SameFile(s)) \cup {s}]
      BY <2>1 DEF LoadDisabled
    <3>2. loaded' \in [Loops -> SUBSET Slices]
      BY <3>1 DEF LoopsOK, SameFile
    <3> QED
      BY <2>1, <3>1, <3>2, PickOK DEF LoadDisabled
  <2>2. CASE TruncateDisabled(l)
    BY <2>2, GotoOK DEF TruncateDisabled, At, LoopsOK
  <2> QED
    BY <1>1, <1>e, <2>1, <2>2 DEF Persist, WriteDisabled, SaveFails
<1>2. CASE WatchdogStep
  <2>1. CASE WatchdogTick
    BY <1>a, <2>1, GotoOK DEF WatchdogTick
  <2>2. CASE WatchdogForce
    BY <1>a, <2>2, GotoOK DEF WatchdogForce
  <2> QED
    BY <1>2, <1>a, <1>d, <2>1, <2>2 DEF WatchdogStep, WatchdogDrain
<1>3. CASE AnnounceStep
  <2>1. CASE AnnounceScan
    BY <1>a, <2>1, BeginOK DEF AnnounceScan, Hosted, LoopsOK, TypeOK
  <2>2. CASE AnnounceCheck
    <3>1. PICK s \in todo[Announcer] :
            Pick(Announcer, s, IF status[s] = "announcing" THEN "put" ELSE "recheck")
      BY <2>2 DEF AnnounceCheck
    <3>2. UNCHANGED <<todo, loaded>>
      BY <2>2 DEF AnnounceCheck
    <3> DEFINE point == IF status[s] = "announcing" THEN "put" ELSE "recheck"
    <3>3. point \in LoopPoints
      OBVIOUS
    <3> HIDE DEF point
    <3> QED
      BY <1>a, <3>1, <3>2, <3>3, PickOK DEF LoopsOK, point
  <2>3. CASE AnnounceRecheck
    <3>1. CASE Unhosted(cur[Announcer])
      BY <1>a, <2>3, <3>1, GotoOK DEF AnnounceRecheck, At, LoopsOK
    <3>2. CASE ~Unhosted(cur[Announcer])
      BY <1>a, <2>3, <3>2, NextKeyOK DEF AnnounceRecheck, LoopsOK
    <3> QED
      BY <3>1, <3>2
  <2>4. CASE AnnounceRegister
    BY <1>a, <2>4, GotoOK DEF AnnounceRegister, At, LoopsOK
  <2>5. CASE AnnouncePut
    BY <1>a, <2>5, NextKeyOK DEF AnnouncePut, LoopsOK
  <2> QED
    BY <1>3, <1>a, <1>d, <2>1, <2>2, <2>3, <2>4, <2>5 DEF AnnounceStep, AnnounceTick
<1>4. CASE User
  BY <1>4, <1>b DEF User, Leave, Join, Contribute
<1>5. CASE Consumers
  BY <1>5, <1>b DEF Consumers, ConnectionEnds, GuardReleased, SessionInit
<1>6. ASSUME NEW s \in Slices, TimePasses(s) PROVE LoopsOK'
  BY <1>6, <1>b DEF TimePasses
<1>7. CASE Boot
  BY <1>7 DEF Boot, LoopsOK
<1>8. ASSUME ProcessGone PROVE LoopsOK'
  BY <1>8 DEF ProcessGone, LoopsOK
<1>9. CASE Shutdown
  BY <1>9, <1>b, <1>8 DEF Shutdown, Signal, SignalDrain, PollIdle, BudgetSpent, Exit
<1>10. CASE UNCHANGED vars
  BY <1>10, <1>b DEF vars, loopVars
<1> QED
  BY <1>1, <1>2, <1>3, <1>4, <1>5, <1>6, <1>7, <1>8, <1>9, <1>10 DEF Next, Crash

-------------------------------------------------------------------------------

\* Each step of the daemon is one critical section of the map, or none.
LEMMA DaemonStepIsControlStep ==
  TypeOK /\ LoopsOK /\ [Next]_vars => [ControlNext]_controlVars
<1> SUFFICES ASSUME TypeOK, LoopsOK, [Next]_vars
             PROVE  ControlNext \/ UNCHANGED controlVars
  OBVIOUS
<1>1. ASSUME NEW l \in Loops, Persist(l) \/ SaveFails(l)
      PROVE  UNCHANGED controlVars
  BY <1>1 DEF Persist, SaveFails, SaveDone, LoadDisabled, TruncateDisabled, WriteDisabled
<1>2. CASE WatchdogStep
  BY <1>2
  DEF WatchdogStep, WatchdogTick, WatchdogForce, WatchdogDrain, PersistDrained, ControlNext
<1>3. CASE AnnounceStep
  <2>1. CASE AnnounceRegister
    <3>1. cur[Announcer] \in Slices
      BY <2>1 DEF AnnounceRegister, At, LoopsOK, CurPoints, Loops
    <3> QED
      BY <2>1, <3>1 DEF AnnounceRegister, ControlNext
  <2> QED
    BY <1>3, <2>1
    DEF AnnounceStep, AnnounceTick, PersistDrained, AnnounceScan, AnnounceCheck,
        AnnounceRecheck, AnnouncePut, ControlNext
<1>4. CASE User
  BY <1>4 DEF User, Leave, Join, Contribute, ControlNext
<1>5. CASE Consumers
  BY <1>5 DEF Consumers, ConnectionEnds, GuardReleased, SessionInit, ControlNext
<1>6. ASSUME NEW s \in Slices, TimePasses(s) PROVE ControlNext
  BY <1>6 DEF TimePasses, ControlNext
<1>7. CASE Boot
  <2>1. Hosted \in SUBSET Slices
    BY DEF Hosted, TypeOK
  <2> QED
    BY <1>7, <2>1 DEF Boot, ControlNext
<1>8. ASSUME ProcessGone PROVE ControlNext
  BY <1>8 DEF ProcessGone, ControlNext
<1>9. CASE Shutdown
  <2>1. CASE SignalDrain
    <3>1. toDrain \subseteq Slices
      BY DEF TypeOK
    <3> QED
      BY <2>1, <3>1 DEF SignalDrain, ControlNext
  <2> QED
    BY <1>8, <1>9, <2>1 DEF Shutdown, Signal, PollIdle, BudgetSpent, Exit
<1>10. CASE UNCHANGED vars
  BY <1>10 DEF vars
<1> QED
  BY <1>1, <1>2, <1>3, <1>4, <1>5, <1>6, <1>7, <1>8, <1>9, <1>10 DEF Next, Crash

-------------------------------------------------------------------------------

\* The sidecars, the shutdown and the histories keep their shape.
LEMMA RestStep ==
  ASSUME TypeOK, LoopsOK, [Next]_vars
  PROVE  /\ kept' \subseteq Slices /\ disabled' \subseteq Slices
         /\ phase' \in Phases /\ toDrain' \subseteq Slices
         /\ left' \subseteq Slices /\ recorded' \subseteq Slices
         /\ risked' \subseteq Slices
<1> DEFINE Goal == /\ kept' \subseteq Slices /\ disabled' \subseteq Slices
                   /\ phase' \in Phases /\ toDrain' \subseteq Slices
                   /\ left' \subseteq Slices /\ recorded' \subseteq Slices
                   /\ risked' \subseteq Slices
<1> USE DEF TypeOK, diskVars, stopVars, historyVars
<1>a. \A s : SameFile(s) \subseteq Slices
  BY DEF SameFile
<1>1. ASSUME NEW l \in Loops, Persist(l) \/ SaveFails(l) PROVE Goal
  <2>1. CASE WriteDisabled(l)
    <3>1. cur[l] \in Slices
      BY <2>1 DEF WriteDisabled, At, LoopsOK, CurPoints
    <3> QED
      BY <2>1, <3>1 DEF WriteDisabled, SaveDone
  <2>2. CASE LoadDisabled(l)
    <3>1. risked' \subseteq Slices
      BY <2>2, <1>a DEF LoadDisabled
    <3> QED
      BY <2>2, <3>1 DEF LoadDisabled
  <2>3. CASE SaveFails(l)
    <3>1. risked' \subseteq Slices
      BY <2>3, <1>a DEF SaveFails
    <3> QED
      BY <2>3, <3>1 DEF SaveFails, SaveDone
  <2> QED
    BY <1>1, <2>1, <2>2, <2>3 DEF Persist, TruncateDisabled
<1>2. CASE WatchdogStep
  BY <1>2 DEF WatchdogStep, WatchdogTick, WatchdogForce, WatchdogDrain, PersistDrained
<1>3. CASE AnnounceStep
  BY <1>3
  DEF AnnounceStep, AnnounceTick, PersistDrained, AnnounceScan, AnnounceCheck,
      AnnounceRecheck, AnnounceRegister, AnnouncePut
<1>4. CASE User
  <2>1. ASSUME NEW s \in Slices, Leave(s) \/ Join(s) PROVE Goal
    BY <2>1 DEF Leave, Join
  <2>2. ASSUME NEW s \in Slices, Contribute(s) PROVE Goal
    BY <2>2 DEF Contribute
  <2> QED
    BY <1>4, <2>1, <2>2 DEF User
<1>5. CASE Consumers
  BY <1>5 DEF Consumers, ConnectionEnds, GuardReleased, SessionInit
<1>6. ASSUME NEW s \in Slices, TimePasses(s) PROVE Goal
  BY <1>6 DEF TimePasses
<1>7. CASE Boot
  BY <1>7 DEF Boot, Phases
<1>8. CASE Exit \/ Crash
  <2>1. ProcessGone
    BY <1>8 DEF Exit, Crash
  <2>2. risked' \subseteq Slices
    <3>1. \A S \in {SameFile(cur[l]) : l \in {k \in Loops : At(k, "write")}} : S \subseteq Slices
      BY <1>a
    <3>2. UNION {SameFile(cur[l]) : l \in {k \in Loops : At(k, "write")}} \subseteq Slices
      BY <3>1
    <3> QED
      BY <1>8, <3>2 DEF Exit, Crash
  <2> QED
    BY <2>1, <2>2 DEF ProcessGone, Phases
<1>9. CASE Shutdown
  BY <1>8, <1>9 DEF Shutdown, Signal, SignalDrain, PollIdle, BudgetSpent, Phases, Announced
<1>10. CASE UNCHANGED vars
  BY <1>10 DEF vars
<1> QED
  BY <1>1, <1>2, <1>3, <1>4, <1>5, <1>6, <1>7, <1>8, <1>9, <1>10 DEF Next

\* No step brings anything to life in a process that is not there.
LEMMA DownStep == TypeOK /\ DownOK /\ [Next]_vars => DownOK'
<1> SUFFICES ASSUME TypeOK, DownOK, [Next]_vars, phase' = "down" PROVE DownOK'
  BY DEF DownOK
<1>a. ASSUME ProcessGone PROVE DownOK'
  BY <1>a DEF ProcessGone, Restart, Seeded, NoGuards, DownOK
<1>b. ASSUME phase # "down" PROVE ProcessGone
  <2>1. ASSUME NEW l \in Loops, Persist(l) \/ SaveFails(l) PROVE FALSE
    BY <1>b, <2>1
    DEF Persist, LoadDisabled, TruncateDisabled, WriteDisabled, SaveFails, SaveDone, stopVars
  <2>2. ~ WatchdogStep
    BY <1>b
    DEF WatchdogStep, WatchdogTick, WatchdogForce, WatchdogDrain, PersistDrained, stopVars
  <2>3. ~ AnnounceStep
    BY <1>b
    DEF AnnounceStep, AnnounceTick, PersistDrained, AnnounceScan, AnnounceCheck,
        AnnounceRecheck, AnnounceRegister, AnnouncePut, stopVars
  <2>4. ~ User /\ ~ Consumers /\ ~ \E s \in Slices : TimePasses(s)
    BY <1>b
    DEF User, Leave, Join, Contribute, Consumers, ConnectionEnds, GuardReleased,
        SessionInit, TimePasses, stopVars
  <2>5. ~ (Signal \/ SignalDrain \/ PollIdle \/ BudgetSpent \/ Boot)
    BY <1>b DEF Signal, SignalDrain, PollIdle, BudgetSpent, Boot
  <2> QED
    BY <1>b, <2>1, <2>2, <2>3, <2>4, <2>5 DEF Next, Shutdown, Exit, Crash, vars, stopVars
<1>c. ASSUME phase = "down" PROVE UNCHANGED <<status, holds, pc, late>>
  <2> USE <1>c DEF DownOK
  <2>1. ASSUME NEW l \in Loops, Persist(l) \/ SaveFails(l) PROVE FALSE
    BY <2>1 DEF Persist, LoadDisabled, TruncateDisabled, WriteDisabled, SaveFails, At
  <2>2. ~ WatchdogStep /\ ~ AnnounceStep
    BY DEF WatchdogStep, WatchdogTick, WatchdogForce, WatchdogDrain, AnnounceStep,
           AnnounceTick, AnnounceScan, AnnounceCheck, AnnounceRecheck,
           AnnounceRegister, AnnouncePut, CanRun
  <2>3. User => UNCHANGED <<status, holds, pc, late>>
    BY DEF User, Leave, Join, Contribute, up, controlVars, loopVars
  <2>4. ~ Consumers /\ ~ \E s \in Slices : TimePasses(s)
    BY DEF Consumers, ConnectionEnds, GuardReleased, SessionInit, AcceptChain,
           DropGuard, ReleaseChain, TimePasses, GraceElapses, TypeOK, ControlTypeOK
  <2>5. ~ Boot /\ ~ Shutdown /\ ~ Crash
    BY DEF Boot, Shutdown, Signal, SignalDrain, PollIdle, BudgetSpent, Exit, Crash, up
  <2> QED
    BY <2>1, <2>2, <2>3, <2>4, <2>5 DEF Next, vars, controlVars, loopVars, historyVars
<1> QED
  BY <1>a, <1>b, <1>c DEF DownOK

\* A drain may end, or a record go out late, but every late record is of a slice
\* that is not announcing, and the record at hand is of no slice it is late for.
LEMMA LateStep ==
  TypeOK /\ LoopsOK /\ DownOK /\ OneRecordUntilAnnouncedAnew /\ [Next]_vars
    => late' \subseteq Slices \ Announced' /\ OneRecordUntilAnnouncedAnew'
<1> SUFFICES ASSUME TypeOK, LoopsOK, DownOK, OneRecordUntilAnnouncedAnew, [Next]_vars
             PROVE  late' \subseteq Slices \ Announced' /\ OneRecordUntilAnnouncedAnew'
  OBVIOUS
<1> DEFINE Goal == late' \subseteq Slices \ Announced' /\ OneRecordUntilAnnouncedAnew'
<1>a. late \subseteq Slices /\ \A s \in late : status[s] # "announcing"
  BY DEF TypeOK, Announced
<1>b. pc \in [Loops -> LoopPoints] /\ cur \in [Loops -> Slices \cup {NoSlice}]
  BY DEF LoopsOK
<1>c. Announcer \in Loops /\ Watchdog \in Loops /\ Announcer # Watchdog
  BY DEF Announcer, Watchdog, Loops
<1>k. status \in [Slices -> SliceStatus]
  BY DEF TypeOK, ControlTypeOK
\* The slice is announced anew.
<1>d. ASSUME NEW s \in Slices, UpsertAnnouncing(s), DueAgain(s)
      PROVE  /\ late' \subseteq Slices \ Announced' /\ late' \subseteq late
             /\ s \notin late'
  BY <1>a, <1>d, <1>k DEF UpsertAnnouncing, DueAgain, Announced
\* No slice is.
<1>e. ASSUME UNCHANGED late,
             \A s \in Slices : status'[s] = "announcing" => status[s] = "announcing"
      PROVE  late' \subseteq Slices \ Announced' /\ late' \subseteq late
  BY <1>a, <1>e DEF Announced
<1>l. ASSUME DrainIdle \/ ForceStopAllDraining
      PROVE  \A s \in Slices : status'[s] = "announcing" => status[s] = "announcing"
  BY <1>k, <1>l DEF DrainIdle, ForceStopAllDraining, Stopped
\* The announce loop stays where it is, with the slice it has at hand.
<1>f. ASSUME UNCHANGED cur, pc'[Announcer] = pc[Announcer], late' \subseteq late
      PROVE  OneRecordUntilAnnouncedAnew'
  BY <1>f DEF OneRecordUntilAnnouncedAnew, At
\* It moves to some other point.
<1>g. ASSUME pc'[Announcer] # "put" PROVE OneRecordUntilAnnouncedAnew'
  BY <1>g DEF OneRecordUntilAnnouncedAnew, At
<1>1. ASSUME NEW l \in Loops, PersistDrained(l) PROVE Goal
  <2>1. late' \subseteq Slices \ Announced' /\ late' \subseteq late
    BY <1>1, <1>e, <1>l DEF PersistDrained, historyVars
  <2>2. l # Announcer => pc'[Announcer] = pc[Announcer] /\ UNCHANGED cur
    BY <1>1, <1>b, <1>c DEF PersistDrained, Begin, Goto
  <2>3. l = Announcer => pc'[Announcer] # "put"
    BY <1>1, <1>b, <1>c DEF PersistDrained, Begin, Goto, AfterPersist
  <2> QED
    BY <2>1, <2>2, <2>3, <1>f, <1>g
<1>2. ASSUME NEW l \in Loops, Persist(l) \/ SaveFails(l) PROVE Goal
  <2>1. UNCHANGED <<late, status>>
    BY <1>2
    DEF Persist, SaveFails, LoadDisabled, TruncateDisabled, WriteDisabled, SaveDone,
        historyVars, controlVars
  <2>2. pc'[l] # "put" /\ \A k \in Loops \ {l} : pc'[k] = pc[k] /\ cur'[k] = cur[k]
    BY <1>2, <1>b
    DEF Persist, SaveFails, LoadDisabled, TruncateDisabled, WriteDisabled, SaveDone,
        Pick, NextKey, Begin, Goto, AfterPersist
  <2> QED
    BY <1>c, <1>e, <1>g, <2>1, <2>2 DEF OneRecordUntilAnnouncedAnew, At
<1>3. CASE WatchdogStep
  <2>1. CASE WatchdogTick
    BY <1>b, <1>c, <1>e, <1>f, <2>1 DEF WatchdogTick, Goto, historyVars, controlVars
  <2>2. CASE WatchdogForce
    BY <1>b, <1>c, <1>e, <1>l, <1>f, <2>2 DEF WatchdogForce, Goto, historyVars
  <2> QED
    BY <1>1, <1>3, <1>c, <2>1, <2>2 DEF WatchdogStep, WatchdogDrain
<1>4. CASE AnnounceStep
  <2>1. CASE AnnounceScan
    BY <1>b, <1>c, <1>e, <1>g, <2>1 DEF AnnounceScan, Begin, Goto, historyVars, controlVars
  <2>2. CASE AnnounceCheck
    <3>1. PICK s \in todo[Announcer] :
            Pick(Announcer, s, IF status[s] = "announcing" THEN "put" ELSE "recheck")
      BY <2>2 DEF AnnounceCheck
    <3>2. UNCHANGED <<late, status>>
      BY <2>2 DEF AnnounceCheck, historyVars, controlVars
    <3>3. pc'[Announcer] = "put" => status[s] = "announcing" /\ cur'[Announcer] = s
      BY <1>b, <1>c, <3>1 DEF Pick, Goto
    <3>4. pc'[Announcer] = "put" => s \notin late
      BY <1>a, <3>3
    <3> QED
      BY <1>e, <3>2, <3>3, <3>4 DEF OneRecordUntilAnnouncedAnew, At
  <2>3. CASE AnnounceRecheck
    BY <1>b, <1>c, <1>e, <1>g, <2>3
    DEF AnnounceRecheck, NextKey, Begin, Goto, historyVars, controlVars
  <2>4. CASE AnnounceRegister
    <3>1. cur[Announcer] \in Slices
      BY <2>4, <1>c DEF AnnounceRegister, At, LoopsOK, CurPoints
    <3>2. late' \subseteq Slices \ Announced' /\ cur[Announcer] \notin late'
      BY <1>d, <2>4, <3>1 DEF AnnounceRegister
    <3> QED
      BY <2>4, <3>2 DEF AnnounceRegister, OneRecordUntilAnnouncedAnew
  <2>5. CASE AnnouncePut
    <3>0. cur[Announcer] \in Slices
      BY <2>5, <1>c DEF AnnouncePut, At, LoopsOK, CurPoints
    <3>1. late' \subseteq Slices \ Announced /\ status' = status
      BY <1>a, <2>5, <3>0 DEF AnnouncePut, controlVars, Announced
    <3>2. pc'[Announcer] # "put"
      BY <1>b, <1>c, <2>5 DEF AnnouncePut, NextKey, Begin, Goto
    <3> QED
      BY <1>g, <3>1, <3>2 DEF Announced
  <2> QED
    BY <1>1, <1>4, <1>c, <2>1, <2>2, <2>3, <2>4, <2>5 DEF AnnounceStep, AnnounceTick
<1>5. CASE User
  <2>1. ASSUME NEW s \in Slices, Leave(s) PROVE Goal
    BY <1>e, <1>f, <1>k, <2>1 DEF Leave, BeginDrain, loopVars
  <2>2. ASSUME NEW s \in Slices, Join(s) PROVE Goal
    BY <1>d, <1>f, <2>2 DEF Join, loopVars
  <2>3. ASSUME NEW s \in Slices, Contribute(s) PROVE Goal
    BY <1>e, <1>f, <2>3 DEF Contribute, loopVars, controlVars
  <2> QED
    BY <1>5, <2>1, <2>2, <2>3 DEF User
<1>6. CASE Consumers
  <2>1. ASSUME NEW g \in Guards, GuardReleased(g) PROVE Goal
    BY <1>e, <1>f, <1>k, <2>1 DEF GuardReleased, ReleaseChain, Stopped, loopVars, historyVars
  <2>2. ASSUME NEW g \in Guards,
               ConnectionEnds(g) \/ \E s \in Slices : SessionInit(g, s)
        PROVE  Goal
    BY <1>e, <1>f, <2>2
    DEF ConnectionEnds, DropGuard, SessionInit, AcceptChain, loopVars, historyVars
  <2> QED
    BY <1>6, <2>1, <2>2 DEF Consumers
<1>7. ASSUME NEW s \in Slices, TimePasses(s) PROVE Goal
  BY <1>e, <1>f, <1>7 DEF TimePasses, GraceElapses, loopVars, historyVars
<1>8. CASE Boot
  <2>1. late = {}
    BY <1>8 DEF Boot, DownOK
  <2>2. late' = {} /\ pc'[Announcer] # "put"
    BY <1>8, <1>c, <2>1 DEF Boot, historyVars
  <2> QED
    BY <1>g, <2>2
<1>9. ASSUME ProcessGone PROVE Goal
  BY <1>9, <1>c, <1>g DEF ProcessGone
<1>10. CASE Shutdown
  <2>1. CASE SignalDrain
    BY <1>e, <1>f, <1>k, <2>1
    DEF SignalDrain, BeginDrain, loopVars, historyVars, controlVars
  <2>2. CASE Signal \/ PollIdle \/ BudgetSpent
    BY <1>e, <1>f, <2>2
    DEF Signal, PollIdle, BudgetSpent, loopVars, historyVars, controlVars
  <2> QED
    BY <1>9, <1>10, <2>1, <2>2 DEF Shutdown, Exit
<1>11. CASE UNCHANGED vars
  BY <1>e, <1>f, <1>11 DEF vars, loopVars, historyVars, controlVars
<1> QED
  BY <1>2, <1>3, <1>4, <1>5, <1>6, <1>7, <1>8, <1>9, <1>10, <1>11 DEF Next, Crash

-------------------------------------------------------------------------------

\* Before the first boot there is no process, and no step of it to come.
LEMMA DaemonInit == Init => DaemonInv /\ OneRecordUntilAnnouncedAnew
<1> SUFFICES ASSUME Init PROVE DaemonInv /\ OneRecordUntilAnnouncedAnew
  OBVIOUS
<1> USE DEF Init
<1>1. ControlTypeOK
  BY ControlInitInv DEF ControlInv
<1>2. TypeOK
  BY <1>1, DaemonAssumption DEF TypeOK, Phases, LoopPoints
<1>3. LoopsOK
  BY DEF LoopsOK, LoopPoints, CurPoints
<1>4. DownOK
  BY DEF DownOK, ControlInit, Seeded, NoGuards
<1>5. OneRecordUntilAnnouncedAnew
  BY DEF OneRecordUntilAnnouncedAnew
<1> QED
  BY <1>2, <1>3, <1>4, <1>5 DEF DaemonInv

\* What the invariant of the slice map and that of the loops say together.
LEMMA DaemonNext ==
  ControlInv /\ DaemonInv /\ OneRecordUntilAnnouncedAnew /\ [Next]_vars
    => ControlInv' /\ DaemonInv' /\ OneRecordUntilAnnouncedAnew'
<1> SUFFICES ASSUME ControlInv, DaemonInv, OneRecordUntilAnnouncedAnew, [Next]_vars
             PROVE  ControlInv' /\ DaemonInv' /\ OneRecordUntilAnnouncedAnew'
  OBVIOUS
<1> USE DEF DaemonInv
<1>1. ControlInv'
  BY DaemonStepIsControlStep, ControlNextInv
<1>2. LoopsOK' /\ DownOK'
  BY LoopsStep, DownStep
<1>3. late' \subseteq Slices \ Announced' /\ OneRecordUntilAnnouncedAnew'
  BY LateStep
<1>4. TypeOK'
  BY <1>1, <1>2, <1>3, RestStep DEF TypeOK, LoopsOK, ControlInv
<1> QED
  BY <1>1, <1>2, <1>3, <1>4

\* The daemon drives the slice map through its critical sections only: every
\* theorem about ControlSpec is one about the daemon.
THEOREM DaemonUsesControlState == Spec => ControlSpec
<1>1. Init => ControlInit /\ ControlInv /\ DaemonInv /\ OneRecordUntilAnnouncedAnew
  BY DaemonInit, ControlInitInv DEF Init
<1>2. DaemonInv /\ [Next]_vars => [ControlNext]_controlVars
  BY DaemonStepIsControlStep DEF DaemonInv
<1> QED
  BY <1>1, <1>2, DaemonNext, PTL DEF Spec, ControlSpec

\* Type correctness of the daemon, and "a Leave stops announces": the announce
\* loop, which reads the map key by key under a lock taken anew, puts at most one
\* record for a slice from the moment it left until the map announces it anew,
\* through the end of its drain and whatever ended it.
THEOREM DaemonAnnounces == Spec => [](TypeOK /\ OneRecordUntilAnnouncedAnew)
<1>1. Init => ControlInv /\ DaemonInv /\ OneRecordUntilAnnouncedAnew
  BY DaemonInit, ControlInitInv DEF Init
<1>2. DaemonInv => TypeOK
  BY DEF DaemonInv
<1> QED
  BY <1>1, <1>2, DaemonNext, PTL DEF Spec

-------------------------------------------------------------------------------

\* Unless a Join comes in, the slice announce_all is about to register is
\* still what its second look found: nobody else announces a slice, so nobody
\* can have begun a drain of it.
RegistersUnhosted == At(Announcer, "register") => Unhosted(cur[Announcer])

\* One step of anyone keeps it, and turns no draining slice to announcing.
LEMMA NoDrainStep ==
  DaemonInv /\ RegistersUnhosted /\ "join" \notin Events /\ [Next]_vars
    => /\ RegistersUnhosted'
       /\ \A s \in Slices : status[s] = "draining" => status'[s] # "announcing"
<1> SUFFICES ASSUME DaemonInv, RegistersUnhosted, "join" \notin Events, [Next]_vars
             PROVE  /\ RegistersUnhosted'
                    /\ \A s \in Slices :
                         status[s] = "draining" => status'[s] # "announcing"
  OBVIOUS
<1> DEFINE Goal == /\ RegistersUnhosted'
                   /\ \A s \in Slices :
                        status[s] = "draining" => status'[s] # "announcing"
<1>a. /\ pc \in [Loops -> LoopPoints] /\ cur \in [Loops -> Slices \cup {NoSlice}]
      /\ \A l \in Loops : pc[l] \in CurPoints => cur[l] \in Slices
      /\ status \in [Slices -> SliceStatus]
  BY DEF DaemonInv, LoopsOK, TypeOK, ControlTypeOK
<1>b. Announcer \in Loops /\ Watchdog \in Loops /\ Announcer # Watchdog
  BY DEF Announcer, Watchdog, Loops
\* Slices only ever begin to drain from announcing, and stop.
<1>c. ASSUME \A s \in Slices :
               \/ status'[s] = status[s]
               \/ status[s] = "announcing" /\ status'[s] = "draining"
               \/ status'[s] = "stopped",
             \/ pc'[Announcer] # "register"
             \/ pc'[Announcer] = pc[Announcer] /\ cur'[Announcer] = cur[Announcer]
      PROVE  Goal
  BY <1>a, <1>b, <1>c DEF RegistersUnhosted, At, Unhosted, CurPoints
<1>d. ASSUME UNCHANGED controlVars \/ DrainIdle \/ ForceStopAllDraining
      PROVE  \A s \in Slices : status'[s] = status[s] \/ status'[s] = "stopped"
  BY <1>d DEF controlVars, DrainIdle, ForceStopAllDraining, Stopped
<1>1. ASSUME NEW l \in Loops, PersistDrained(l) PROVE Goal
  <2>1. \/ pc'[Announcer] # "register"
        \/ pc'[Announcer] = pc[Announcer] /\ cur'[Announcer] = cur[Announcer]
    BY <1>1, <1>a, <1>b DEF PersistDrained, Begin, Goto, AfterPersist
  <2> QED
    BY <1>1, <1>c, <1>d, <2>1 DEF PersistDrained
<1>2. ASSUME NEW l \in Loops, Persist(l) \/ SaveFails(l) PROVE Goal
  <2>1. UNCHANGED controlVars
    BY <1>2
    DEF Persist, SaveFails, LoadDisabled, TruncateDisabled, WriteDisabled, SaveDone
  <2>2. pc'[l] # "register" /\ \A k \in Loops \ {l} : pc'[k] = pc[k] /\ cur'[k] = cur[k]
    BY <1>2, <1>a
    DEF Persist, SaveFails, LoadDisabled, TruncateDisabled, WriteDisabled, SaveDone,
        Pick, NextKey, Begin, Goto, AfterPersist
  <2> QED
    BY <1>b, <1>c, <1>d, <2>1, <2>2
<1>3. CASE WatchdogStep
  <2>1. CASE WatchdogTick \/ WatchdogForce
    BY <1>a, <1>b, <1>c, <1>d, <2>1 DEF WatchdogTick, WatchdogForce, Goto
  <2> QED
    BY <1>1, <1>3, <1>b, <2>1 DEF WatchdogStep, WatchdogDrain
<1>4. CASE AnnounceStep
  <2>1. CASE AnnounceScan
    BY <1>a, <1>b, <1>c, <1>d, <2>1 DEF AnnounceScan, Begin, Goto
  <2>2. CASE AnnounceCheck
    BY <1>a, <1>b, <1>c, <1>d, <2>2 DEF AnnounceCheck, Pick, Goto
  <2>3. CASE AnnounceRecheck
    <3>1. CASE Unhosted(cur[Announcer])
      BY <1>a, <1>b, <2>3, <3>1
      DEF AnnounceRecheck, controlVars, RegistersUnhosted, At, Unhosted
    <3>2. CASE ~Unhosted(cur[Announcer])
      BY <1>a, <1>b, <1>c, <1>d, <2>3, <3>2 DEF AnnounceRecheck, NextKey, Begin, Goto
    <3> QED
      BY <3>1, <3>2
  <2>4. CASE AnnounceRegister
    <3>1. Unhosted(cur[Announcer])
      BY <2>4 DEF AnnounceRegister, RegistersUnhosted
    <3>2. \A s \in Slices : status'[s] = IF s = cur[Announcer] THEN "announcing" ELSE status[s]
      BY <1>a, <2>4 DEF AnnounceRegister, UpsertAnnouncing
    <3>3. pc'[Announcer] # "register"
      BY <1>a, <1>b, <2>4 DEF AnnounceRegister, Goto
    <3> QED
      BY <3>1, <3>2, <3>3 DEF Unhosted, RegistersUnhosted, At
  <2>5. CASE AnnouncePut
    BY <1>a, <1>b, <1>c, <1>d, <2>5 DEF AnnouncePut, NextKey, Begin, Goto
  <2> QED
    BY <1>1, <1>4, <1>b, <2>1, <2>2, <2>3, <2>4, <2>5 DEF AnnounceStep, AnnounceTick
<1>e. ASSUME NEW s \in Slices, BeginDrain(s), UNCHANGED loopVars PROVE Goal
  BY <1>a, <1>c, <1>e DEF BeginDrain, loopVars
<1>f. ASSUME UNCHANGED <<status, pc, cur>> PROVE Goal
  BY <1>c, <1>f
<1>5. CASE User
  BY <1>5, <1>e, <1>f DEF User, Leave, Join, Contribute, controlVars, loopVars
<1>6. CASE Consumers
  <2>1. ASSUME NEW g \in Guards, GuardReleased(g) PROVE Goal
    BY <1>a, <1>c, <2>1 DEF GuardReleased, ReleaseChain, Stopped, loopVars
  <2>2. ASSUME NEW g \in Guards,
               ConnectionEnds(g) \/ \E s \in Slices : SessionInit(g, s)
        PROVE  Goal
    BY <1>f, <2>2
    DEF ConnectionEnds, DropGuard, SessionInit, AcceptChain, loopVars
  <2> QED
    BY <1>6, <2>1, <2>2 DEF Consumers
<1>7. ASSUME NEW s \in Slices, TimePasses(s) PROVE Goal
  BY <1>f, <1>7 DEF TimePasses, GraceElapses, loopVars
<1>8. CASE Boot
  BY <1>8, <1>b DEF Boot, RegistersUnhosted, At, DaemonInv, DownOK
<1>9. ASSUME ProcessGone PROVE Goal
  BY <1>9, <1>b DEF ProcessGone, Restart, Seeded, RegistersUnhosted, At
<1>10. CASE Shutdown
  <2>1. CASE SignalDrain
    <3>1. toDrain \subseteq Slices
      BY DEF DaemonInv, TypeOK
    <3> QED
      BY <1>e, <1>f, <2>1, <3>1 DEF SignalDrain, controlVars, loopVars
  <2>2. CASE Signal \/ PollIdle \/ BudgetSpent
    BY <1>f, <2>2 DEF Signal, PollIdle, BudgetSpent, controlVars, loopVars
  <2> QED
    BY <1>9, <1>10, <2>1, <2>2 DEF Shutdown, Exit
<1>11. CASE UNCHANGED vars
  BY <1>f, <1>11 DEF vars, loopVars, controlVars
<1> QED
  BY <1>2, <1>3, <1>4, <1>5, <1>6, <1>7, <1>8, <1>9, <1>10, <1>11 DEF Next, Crash

\* announce_all checks a slice and registers it under two locks, and yet it
\* never cancels the drain of a leave or of the shutdown in between.
THEOREM DaemonKeepsDrains == Spec => NoDrainCancelled
<1>1. Init => ControlInv /\ DaemonInv /\ OneRecordUntilAnnouncedAnew /\ RegistersUnhosted
  BY DaemonInit, ControlInitInv DEF Init, RegistersUnhosted, At, Announcer, Loops
<1>2. CASE "join" \in Events
  <2>1. [Next]_vars
          => [("join" \notin Events) =>
                \A s \in Slices :
                  status[s] = "draining" => status'[s] # "announcing"]_vars
    BY <1>2
  <2> QED
    BY <2>1, PTL DEF Spec, NoDrainCancelled
<1>3. CASE "join" \notin Events
  <2>1. DaemonInv /\ RegistersUnhosted /\ [Next]_vars
          => /\ RegistersUnhosted'
             /\ [("join" \notin Events) =>
                    \A s \in Slices :
                      status[s] = "draining" => status'[s] # "announcing"]_vars
    BY <1>3, NoDrainStep
  <2> QED
    BY <1>1, <2>1, DaemonNext, PTL DEF Spec, NoDrainCancelled
<1> QED
  BY <1>2, <1>3

-------------------------------------------------------------------------------

\* Only slices without chains are stopped, in the daemon as in the slice map:
\* what drain_idle, a late release or the watchdog stops carries no chain, unless
\* the watchdog cut it off.
THEOREM DaemonStopsIdle == Spec => []StoppedMeansIdle
<1>1. ControlInv => StoppedMeansIdle
  BY DEF ControlInv
<1> QED
  BY <1>1, DaemonUsesControlState, ControlInitInv, ControlNextInv, PTL DEF ControlSpec

-------------------------------------------------------------------------------

\* Two loops save one file at once only where that is held against its ranges.
OneSaverEach ==
  \A k, l \in Loops :
    k # l /\ pc[k] \in {"truncate", "write"} /\ Saving(l, cur[k])
      => SameFile(cur[k]) \subseteq risked

\* A loop is about to write back what its file recorded, and the slice at hand.
SavesRecord ==
  \A l \in Loops : pc[l] \in {"truncate", "write"} =>
    /\ cur[l] \in loaded[l]
    /\ (recorded \ risked) \cap SameFile(cur[l]) \subseteq loaded[l]

\* A saved leave is on record, or about to be written again.
LeavesOnRecord ==
  \A s \in recorded \ risked :
    s \in disabled \/ \E l \in Loops :
                       pc[l] = "write" /\ cur[l] \in SameFile(s) /\ s \in loaded[l]

SaveInv == OneSaverEach /\ SavesRecord /\ LeavesOnRecord

\* The slices whose leaves share a file are those of one model.
LEMMA SameFileIsOne ==
  \A s, t \in Slices :
    /\ s \in SameFile(s)
    /\ t \in SameFile(s) => SameFile(t) = SameFile(s) /\ s \in SameFile(t)
BY DEF SameFile

\* Steps that save nothing, of anyone.
LEMMA OthersKeepSaves ==
  ASSUME DaemonInv, SaveInv,
         recorded' \subseteq recorded, UNCHANGED <<disabled, risked>>,
         \A l \in Loops :
           \/ UNCHANGED <<pc[l], cur[l], loaded[l]>>
           \/ pc[l] \notin {"truncate", "write"} /\ pc'[l] \notin {"truncate", "write"}
  PROVE  SaveInv'
<1> USE DEF SaveInv
<1>1. OneSaverEach'
  BY DEF OneSaverEach, Saving, SameFile
<1>2. SavesRecord'
  BY DEF SavesRecord, SameFile
<1>3. LeavesOnRecord'
  BY DEF LeavesOnRecord, SameFile
<1> QED
  BY <1>1, <1>2, <1>3

\* A loop reads the record of the slice it has to save.
LEMMA LoadKeepsSaves ==
  ASSUME DaemonInv, SaveInv, NEW l \in Loops, LoadDisabled(l)
  PROVE  SaveInv'
<1>1. PICK s \in todo[l] :
        /\ Pick(l, s, "truncate")
        /\ loaded' = [loaded EXCEPT ![l] = (disabled \cap SameFile(s)) \cup {s}]
        /\ risked' = IF SavedMeanwhile(l, s) THEN risked \cup SameFile(s) ELSE risked
  BY DEF LoadDisabled
<1>2. s \in Slices
  BY DEF DaemonInv, LoopsOK
<1>3. /\ pc[l] = "load" /\ pc'[l] = "truncate" /\ cur'[l] = s
      /\ loaded'[l] = (disabled \cap SameFile(s)) \cup {s}
      /\ \A k \in Loops \ {l} :
           pc'[k] = pc[k] /\ cur'[k] = cur[k] /\ loaded'[k] = loaded[k]
      /\ UNCHANGED <<disabled, recorded>> /\ risked \subseteq risked'
  BY <1>1 DEF LoadDisabled, Pick, Goto, At, DaemonInv, LoopsOK, diskVars
<1>4. \A k \in Loops : pc[k] \in {"truncate", "write"} => cur[k] \in Slices
  BY DEF DaemonInv, LoopsOK, CurPoints
<1>5. OneSaverEach'
  <2> SUFFICES ASSUME NEW j \in Loops, NEW k \in Loops, j # k,
                      pc'[j] \in {"truncate", "write"},
                      pc'[k] \in {"truncate", "write"}, cur'[k] \in SameFile(cur'[j])
               PROVE  SameFile(cur'[j]) \subseteq risked'
    BY DEF OneSaverEach, Saving, SameFile
  <2>1. ASSUME j = l PROVE SameFile(cur'[j]) \subseteq risked'
    <3>1. SavedMeanwhile(l, s)
      BY <1>3, <2>1 DEF SavedMeanwhile, Saving
    <3> QED BY <1>1, <1>3, <2>1, <3>1
  <2>2. ASSUME k = l PROVE SameFile(cur'[j]) \subseteq risked'
    <3>1. SameFile(cur[j]) = SameFile(s) /\ cur[j] \in SameFile(s)
      BY <1>2, <1>3, <1>4, <2>2, SameFileIsOne
    <3>2. SavedMeanwhile(l, s)
      BY <1>3, <2>2, <3>1 DEF SavedMeanwhile, Saving
    <3> QED BY <1>1, <1>3, <2>2, <3>1, <3>2
  <2>3. ASSUME j # l, k # l PROVE SameFile(cur'[j]) \subseteq risked'
    BY <1>3, <2>3 DEF SaveInv, OneSaverEach, Saving
  <2> QED BY <2>1, <2>2, <2>3
<1>6. SavesRecord'
  <2>1. ASSUME ~SavedMeanwhile(l, s), NEW t \in recorded \ risked, t \in SameFile(s)
        PROVE  t \in disabled
    <3> SUFFICES ASSUME NEW k \in Loops, pc[k] = "write", cur[k] \in SameFile(t)
                 PROVE  FALSE
      BY <2>1 DEF SaveInv, LeavesOnRecord
    <3>1. t \in Slices
      BY <2>1 DEF SameFile
    <3>2. cur[k] \in SameFile(s)
      BY <1>2, <2>1, <3>1, SameFileIsOne
    <3> QED BY <1>3, <2>1, <3>2 DEF SavedMeanwhile, Saving
  <2>2. cur'[l] \in loaded'[l]
    BY <1>3
  <2>3. (recorded' \ risked') \cap SameFile(s) \subseteq loaded'[l]
    BY <1>1, <1>3, <2>1
  <2>4. ASSUME NEW k \in Loops \ {l}, pc'[k] \in {"truncate", "write"}
        PROVE  /\ cur'[k] \in loaded'[k]
               /\ (recorded' \ risked') \cap SameFile(cur'[k]) \subseteq loaded'[k]
    BY <1>3, <2>4 DEF SaveInv, SavesRecord
  <2> QED BY <1>3, <2>2, <2>3, <2>4 DEF SavesRecord, SameFile
<1>7. LeavesOnRecord'
  BY <1>3 DEF SaveInv, LeavesOnRecord, SameFile
<1> QED
  BY <1>5, <1>6, <1>7 DEF SaveInv

\* It truncates the file, whose ranges it holds.
LEMMA TruncateKeepsSaves ==
  ASSUME DaemonInv, SaveInv, NEW l \in Loops, TruncateDisabled(l)
  PROVE  SaveInv'
<1>1. /\ pc[l] = "truncate" /\ pc'[l] = "write"
      /\ \A k \in Loops \ {l} : pc'[k] = pc[k]
      /\ UNCHANGED <<cur, loaded, recorded, risked>>
      /\ disabled' = disabled \ SameFile(cur[l])
  BY DEF TruncateDisabled, Goto, At, historyVars, DaemonInv, LoopsOK
<1>2. cur[l] \in Slices /\ recorded \subseteq Slices
  BY <1>1 DEF DaemonInv, TypeOK, LoopsOK, CurPoints
<1>3. OneSaverEach'
  BY <1>1 DEF SaveInv, OneSaverEach, Saving, SameFile
<1>4. SavesRecord'
  BY <1>1 DEF SaveInv, SavesRecord, SameFile
<1>5. ASSUME NEW s \in recorded \ risked
      PROVE  s \in disabled' \/ \E k \in Loops :
                pc'[k] = "write" /\ cur[k] \in SameFile(s) /\ s \in loaded[k]
  <2>1. CASE s \in SameFile(cur[l])
    <3>1. s \in loaded[l]
      BY <1>1, <2>1 DEF SaveInv, SavesRecord
    <3>2. cur[l] \in SameFile(s)
      BY <1>2, <2>1, SameFileIsOne
    <3> QED BY <1>1, <3>1, <3>2
  <2>2. CASE s \notin SameFile(cur[l])
    BY <1>1, <2>2 DEF SaveInv, LeavesOnRecord
  <2> QED BY <2>1, <2>2
<1>6. LeavesOnRecord'
  BY <1>1, <1>5 DEF LeavesOnRecord, SameFile
<1> QED
  BY <1>3, <1>4, <1>6 DEF SaveInv

\* It goes on to its next key, whether the save succeeded or not.
LEMMA SaveDoneMoves ==
  ASSUME DaemonInv, NEW l \in Loops, SaveDone(l)
  PROVE  /\ pc'[l] \in {"load", "scan", "idle"}
         /\ \A k \in Loops \ {l} :
              pc'[k] = pc[k] /\ cur'[k] = cur[k] /\ loaded'[k] = loaded[k]
BY DEF SaveDone, NextKey, Begin, Goto, AfterPersist, DaemonInv, LoopsOK

\* It fills the file with what it holds.
LEMMA WriteKeepsSaves ==
  ASSUME DaemonInv, SaveInv, NEW l \in Loops, WriteDisabled(l)
  PROVE  SaveInv'
<1> DEFINE s == cur[l]
<1>1. /\ pc[l] = "write" /\ SaveDone(l)
      /\ disabled' = (disabled \ SameFile(s)) \cup loaded[l]
      /\ recorded' = recorded \cup {s}
      /\ risked' = IF SavedMeanwhile(l, s) THEN risked ELSE risked \ {s}
  BY DEF WriteDisabled, At
<1>2. /\ s \in Slices /\ recorded \subseteq Slices
      /\ \A k \in Loops : pc[k] \in {"truncate", "write"} => cur[k] \in Slices
  BY <1>1 DEF DaemonInv, TypeOK, LoopsOK, CurPoints
<1>3. /\ s \in loaded[l]
      /\ (recorded \ risked) \cap SameFile(s) \subseteq loaded[l]
  BY <1>1 DEF SaveInv, SavesRecord
<1>4. /\ pc'[l] \in {"load", "scan", "idle"}
      /\ \A k \in Loops \ {l} :
           pc'[k] = pc[k] /\ cur'[k] = cur[k] /\ loaded'[k] = loaded[k]
  BY <1>1, SaveDoneMoves
\* No other loop holds the file of s, or its ranges stay at risk.
<1>5. ASSUME NEW k \in Loops \ {l}, pc[k] \in {"truncate", "write"}, s \in SameFile(cur[k])
      PROVE  SameFile(cur[k]) \subseteq risked /\ risked' = risked
  <2>1. SameFile(cur[k]) \subseteq risked
    BY <1>1, <1>5 DEF SaveInv, OneSaverEach, Saving
  <2>2. cur[k] \in SameFile(s)
    BY <1>2, <1>5, SameFileIsOne
  <2> QED BY <1>1, <1>5, <2>1, <2>2 DEF SavedMeanwhile, Saving
<1>6. OneSaverEach'
  <2> SUFFICES ASSUME NEW j \in Loops, NEW k \in Loops, j # k,
                      pc'[j] \in {"truncate", "write"},
                      pc'[k] \in {"truncate", "write"}, cur'[k] \in SameFile(cur'[j])
               PROVE  SameFile(cur'[j]) \subseteq risked'
    BY DEF OneSaverEach, Saving, SameFile
  <2>1. j # l /\ k # l
    BY <1>4
  <2>2. SameFile(cur[j]) \subseteq risked
    BY <1>4, <2>1 DEF SaveInv, OneSaverEach, Saving
  <2>3. CASE s \in SameFile(cur[j])
    BY <1>4, <1>5, <2>1, <2>2, <2>3
  <2>4. CASE s \notin SameFile(cur[j])
    BY <1>1, <1>4, <2>1, <2>2, <2>4
  <2> QED BY <2>3, <2>4
<1>7. SavesRecord'
  <2> SUFFICES ASSUME NEW k \in Loops, pc'[k] \in {"truncate", "write"}
               PROVE  /\ cur'[k] \in loaded'[k]
                      /\ (recorded' \ risked') \cap SameFile(cur'[k]) \subseteq loaded'[k]
    BY DEF SavesRecord, SameFile
  <2>1. k # l
    BY <1>4
  <2>2. /\ cur[k] \in loaded[k]
        /\ (recorded \ risked) \cap SameFile(cur[k]) \subseteq loaded[k]
    BY <1>4, <2>1 DEF SaveInv, SavesRecord
  <2>3. CASE s \in SameFile(cur[k])
    BY <1>4, <1>5, <2>1, <2>2, <2>3
  <2>4. CASE s \notin SameFile(cur[k])
    BY <1>1, <1>4, <2>1, <2>2, <2>4
  <2> QED BY <2>3, <2>4
<1>8. ASSUME NEW t \in recorded' \ risked'
      PROVE  t \in disabled' \/ \E k \in Loops :
                pc'[k] = "write" /\ cur'[k] \in SameFile(t) /\ t \in loaded'[k]
  <2>1. CASE t = s
    BY <1>1, <1>3, <2>1
  <2>2. CASE t # s
    <3>1. t \in recorded \ risked
      BY <1>1, <1>8, <2>2
    <3>2. CASE t \in SameFile(s)
      BY <1>1, <1>3, <3>1, <3>2
    <3>3. CASE t \notin SameFile(s)
      <4>1. s \notin SameFile(t)
        BY <1>2, <3>1, <3>3, SameFileIsOne
      <4>2. t \in disabled \/ \E k \in Loops \ {l} :
              pc[k] = "write" /\ cur[k] \in SameFile(t) /\ t \in loaded[k]
        BY <3>1, <4>1 DEF SaveInv, LeavesOnRecord
      <4> QED BY <1>1, <1>4, <3>3, <4>2
    <3> QED BY <3>2, <3>3
  <2> QED BY <2>1, <2>2
<1>9. LeavesOnRecord'
  BY <1>8 DEF LeavesOnRecord, SameFile
<1> QED
  BY <1>6, <1>7, <1>9 DEF SaveInv

\* It cannot open the file, or not fill it.
LEMMA FailKeepsSaves ==
  ASSUME DaemonInv, SaveInv, NEW l \in Loops, SaveFails(l)
  PROVE  SaveInv'
<1>1. /\ SaveDone(l) /\ UNCHANGED <<disabled, recorded>>
      /\ \/ pc[l] = "truncate" /\ UNCHANGED risked
         \/ pc[l] = "write" /\ risked' = risked \cup SameFile(cur[l])
  BY DEF SaveFails, At
<1>2. /\ pc'[l] \in {"load", "scan", "idle"}
      /\ \A k \in Loops \ {l} :
           pc'[k] = pc[k] /\ cur'[k] = cur[k] /\ loaded'[k] = loaded[k]
  BY <1>1, SaveDoneMoves
<1>3. cur[l] \in Slices /\ recorded \subseteq Slices
  BY <1>1 DEF DaemonInv, TypeOK, LoopsOK, CurPoints
<1>4. OneSaverEach' /\ SavesRecord'
  BY <1>1, <1>2 DEF SaveInv, OneSaverEach, SavesRecord, Saving, SameFile
<1>5. ASSUME NEW t \in recorded \ risked'
      PROVE  t \in disabled \/ \E k \in Loops :
                pc'[k] = "write" /\ cur'[k] \in SameFile(t) /\ t \in loaded'[k]
  <2>1. ASSUME pc[l] = "write" PROVE cur[l] \notin SameFile(t)
    BY <1>1, <1>3, <1>5, <2>1, SameFileIsOne
  <2>2. t \in disabled \/ \E k \in Loops \ {l} :
          pc[k] = "write" /\ cur[k] \in SameFile(t) /\ t \in loaded[k]
    BY <1>1, <1>5, <2>1 DEF SaveInv, LeavesOnRecord
  <2> QED BY <1>2, <2>2
<1>6. LeavesOnRecord'
  BY <1>1, <1>5 DEF LeavesOnRecord, SameFile
<1> QED
  BY <1>4, <1>6 DEF SaveInv

\* The process is killed, perhaps while a loop has truncated a file.
LEMMA CrashKeepsSaves ==
  ASSUME DaemonInv, SaveInv, Crash
  PROVE  SaveInv'
<1>1. /\ \A l \in Loops : pc'[l] = "none"
      /\ UNCHANGED <<disabled, recorded>>
  BY DEF Crash, ProcessGone, diskVars
<1>2. risked' = risked \cup UNION {SameFile(cur[l]) : l \in {k \in Loops : At(k, "write")}}
  BY DEF Crash
<1>3. recorded \subseteq Slices
      /\ \A l \in Loops : pc[l] = "write" => cur[l] \in Slices
  BY DEF DaemonInv, TypeOK, LoopsOK, CurPoints
<1>4. ASSUME NEW t \in recorded \ risked' PROVE t \in disabled
  <2> SUFFICES ASSUME NEW k \in Loops, pc[k] = "write", cur[k] \in SameFile(t)
               PROVE  FALSE
    BY <1>2, <1>4 DEF SaveInv, LeavesOnRecord
  <2>1. t \in SameFile(cur[k])
    BY <1>3, <1>4, SameFileIsOne
  <2> QED BY <1>2, <1>4, <2>1 DEF At
<1>5. LeavesOnRecord'
  BY <1>1, <1>4 DEF LeavesOnRecord
<1>6. OneSaverEach' /\ SavesRecord'
  BY <1>1 DEF OneSaverEach, SavesRecord
<1> QED
  BY <1>5, <1>6 DEF SaveInv

\* One step of anyone.
LEMMA SaveStep == DaemonInv /\ SaveInv /\ [Next]_vars => SaveInv'
<1> SUFFICES ASSUME DaemonInv, SaveInv, [Next]_vars PROVE SaveInv'
  OBVIOUS
<1>a. pc \in [Loops -> LoopPoints] /\ cur \in [Loops -> Slices \cup {NoSlice}]
  BY DEF DaemonInv, LoopsOK
<1>b. Announcer \in Loops /\ Watchdog \in Loops /\ Announcer # Watchdog
  BY DEF Announcer, Watchdog, Loops
<1>c. ASSUME UNCHANGED <<loopVars, disabled, risked>>, recorded' \subseteq recorded
      PROVE  SaveInv'
  BY <1>c, OthersKeepSaves DEF loopVars
\* A loop moves, and holds no file before or after.
<1>d. ASSUME NEW l \in Loops, UNCHANGED <<loaded, disabled, recorded, risked>>,
             pc[l] \notin {"truncate", "write"}, pc'[l] \notin {"truncate", "write"},
             \A k \in Loops \ {l} : pc'[k] = pc[k] /\ cur'[k] = cur[k]
      PROVE  SaveInv'
  BY <1>d, OthersKeepSaves
<1>1. ASSUME NEW l \in Loops, pc[l] \in {"idle", "drain"}, PersistDrained(l) PROVE SaveInv'
  BY <1>1, <1>a, <1>d
  DEF PersistDrained, Begin, Goto, AfterPersist, diskVars, historyVars
<1>2. ASSUME NEW l \in Loops, Persist(l) \/ SaveFails(l) PROVE SaveInv'
  BY <1>2, LoadKeepsSaves, TruncateKeepsSaves, WriteKeepsSaves, FailKeepsSaves DEF Persist
<1>3. CASE WatchdogStep
  <2>1. CASE WatchdogTick \/ WatchdogForce
    BY <1>a, <1>b, <1>d, <2>1
    DEF WatchdogTick, WatchdogForce, Goto, At, diskVars, historyVars
  <2> QED BY <1>1, <1>3, <1>b, <2>1 DEF WatchdogStep, WatchdogDrain, At
<1>4. CASE AnnounceStep
  <2>1. CASE AnnounceScan
    BY <1>a, <1>b, <1>d, <2>1
    DEF AnnounceScan, Begin, Goto, At, diskVars, historyVars
  <2>2. CASE AnnounceCheck
    BY <1>a, <1>b, <1>d, <2>2
    DEF AnnounceCheck, Pick, Goto, At, diskVars, historyVars
  <2>3. CASE AnnounceRecheck
    BY <1>a, <1>b, <1>d, <2>3
    DEF AnnounceRecheck, NextKey, Begin, Goto, At, diskVars, historyVars
  <2>4. CASE AnnounceRegister
    BY <1>a, <1>b, <1>d, <2>4 DEF AnnounceRegister, Goto, At, diskVars
  <2>5. CASE AnnouncePut
    BY <1>a, <1>b, <1>d, <2>5 DEF AnnouncePut, NextKey, Begin, Goto, At, diskVars
  <2> QED BY <1>1, <1>4, <1>b, <2>1, <2>2, <2>3, <2>4, <2>5 DEF AnnounceStep, AnnounceTick, At
<1>5. CASE User
  BY <1>5, <1>c DEF User, Leave, Join, Contribute, diskVars
<1>6. CASE Consumers
  BY <1>6, <1>c DEF Consumers, ConnectionEnds, GuardReleased, SessionInit, diskVars, historyVars
<1>7. ASSUME NEW s \in Slices, TimePasses(s) PROVE SaveInv'
  BY <1>7, <1>c DEF TimePasses, diskVars, historyVars
<1>8. CASE Boot
  <2>1. \A l \in Loops : pc[l] = "none" /\ pc'[l] \in {"none", "idle"}
    BY <1>8, <1>b DEF Boot, DaemonInv, DownOK
  <2> QED BY <1>8, <2>1, OthersKeepSaves DEF Boot, diskVars, historyVars
<1>9. CASE Exit
  <2>1. \A l \in Loops : pc[l] \notin {"truncate", "write"} /\ pc'[l] = "none"
    BY <1>9 DEF Exit, PersistPoints, ProcessGone
  <2>2. UNCHANGED <<disabled, recorded, risked>>
    BY <1>9 DEF Exit, ProcessGone, diskVars
  <2> QED BY <2>1, <2>2, OthersKeepSaves
<1>10. CASE Signal \/ SignalDrain \/ PollIdle \/ BudgetSpent
  BY <1>10, <1>c DEF Signal, SignalDrain, PollIdle, BudgetSpent, diskVars, historyVars
<1>11. CASE UNCHANGED vars
  BY <1>11, <1>c DEF vars, diskVars, historyVars
<1> QED
  BY <1>2, <1>3, <1>4, <1>5, <1>6, <1>7, <1>8, <1>9, <1>10, <1>11, CrashKeepsSaves
  DEF Next, Shutdown

\* "A daemon restart honours the leave": whatever the loops of the daemon save at
\* the same time, and whatever crashes and failing saves come, a leave that was
\* saved is on record when no process runs, but for the ranges of a file whose save
\* was broken off between truncating and filling it, or that both loops saved at
\* once. Of any number of models and of ranges per model.
THEOREM LeavesSurvive == Spec => []RecordedLeaveSurvives
<1> DEFINE Inv == ControlInv /\ DaemonInv /\ OneRecordUntilAnnouncedAnew /\ SaveInv
<1>1. Init => Inv
  BY DaemonInit, ControlInitInv
  DEF Init, SaveInv, OneSaverEach, SavesRecord, LeavesOnRecord
<1>2. Inv /\ [Next]_vars => Inv'
  BY DaemonNext, SaveStep
<1>3. Inv => RecordedLeaveSurvives
  BY DEF DaemonInv, DownOK, SaveInv, LeavesOnRecord, RecordedLeaveSurvives
<1> QED
  BY <1>1, <1>2, <1>3, PTL DEF Spec

-------------------------------------------------------------------------------

\* What start_split and start_pull leave in a model's directory: one range. With
\* two that share disabled_ranges.json, a scan may find the file truncated while the
\* record of one is rewritten, and take the other for kept.
OneRangeEach == \A s, t \in Slices : ModelOf[s] = ModelOf[t] => s = t

\* A save adds the slice at hand to a file that lists no other.
SavesOwn == \A l \in Loops : pc[l] \in {"truncate", "write"} => loaded[l] = {cur[l]}

\* Only slices the map knows are being recorded; and what the announce loop goes
\* through, if the map does not know it, is not on record as left.
UnknownNotLeft ==
  /\ \A l \in Loops : pc[l] \in PersistPoints =>
       \A s \in todo[l] : status[s] # "absent"
  /\ \A l \in Loops : pc[l] \in {"truncate", "write"} => status[cur[l]] # "absent"
  /\ pc[Announcer] \in {"check", "recheck", "register", "put"} =>
       \A s \in todo[Announcer] : status[s] = "absent" => s \notin disabled
  /\ pc[Announcer] \in {"recheck", "register"} => cur[Announcer] \in todo[Announcer]

\* The step honours the leaves on record.
Honours ==
  \A s \in disabled \cap recorded :
    status[s] = "absent" => (status'[s] = "absent" \/ Join(s))

\* One step of anyone.
LEMMA RecordStep ==
  ASSUME OneRangeEach, DaemonInv, SavesOwn, UnknownNotLeft, [Next]_vars
  PROVE  SavesOwn' /\ UnknownNotLeft' /\ Honours
<1> DEFINE Goal == SavesOwn' /\ UnknownNotLeft' /\ Honours
           Known == \A s \in Slices : status[s] # "absent" <=> status'[s] # "absent"
<1>a. /\ pc \in [Loops -> LoopPoints] /\ cur \in [Loops -> Slices \cup {NoSlice}]
      /\ todo \in [Loops -> SUBSET Slices] /\ loaded \in [Loops -> SUBSET Slices]
      /\ \A l \in Loops : pc[l] \in CurPoints => cur[l] \in Slices
      /\ status \in [Slices -> SliceStatus]
      /\ disabled \subseteq Slices /\ kept \subseteq Slices /\ toDrain \subseteq Slices
      /\ recorded \subseteq Slices
  BY DEF DaemonInv, LoopsOK, TypeOK, ControlTypeOK
<1>b. Announcer \in Loops /\ Watchdog \in Loops /\ Announcer # Watchdog
  BY DEF Announcer, Watchdog, Loops
\* A step of others.
<1>c. ASSUME UNCHANGED <<pc, todo, cur, loaded, disabled>>, recorded' \subseteq recorded,
             \A s \in Slices : /\ status[s] # "absent" => status'[s] # "absent"
                               /\ status[s] = "absent" => status'[s] = "absent" \/ Join(s)
      PROVE  Goal
  <2>1. SavesOwn'
    BY <1>c DEF SavesOwn
  <2>2. UnknownNotLeft'
    BY <1>a, <1>b, <1>c DEF UnknownNotLeft, CurPoints
  <2>3. Honours
    BY <1>a, <1>c DEF Honours
  <2> QED BY <2>1, <2>2, <2>3
\* What the critical sections but upsert_announcing do to the map.
<1>d. ASSUME UNCHANGED controlVars \/ DrainIdle \/ ForceStopAllDraining
      PROVE  Known
  BY <1>a, <1>d DEF controlVars, DrainIdle, ForceStopAllDraining, Stopped, IdleDraining,
                   Draining
<1>f. ASSUME Known PROVE Honours
  BY <1>a, <1>f DEF Honours
<1>1. ASSUME NEW l \in Loops, pc[l] \in {"idle", "drain"}, PersistDrained(l) PROVE Goal
  <2>1. Known /\ \A s \in IdleDraining : s \in Slices /\ status'[s] # "absent"
    BY <1>1, <1>a, <1>d DEF PersistDrained, DrainIdle, Stopped, IdleDraining
  <2>2. /\ pc'[l] \in {"load", "scan", "idle"} /\ todo'[l] = IdleDraining
        /\ UNCHANGED <<cur, loaded, disabled, recorded>>
        /\ \A k \in Loops \ {l} : pc'[k] = pc[k] /\ todo'[k] = todo[k]
    BY <1>1, <1>a DEF PersistDrained, Begin, Goto, AfterPersist, diskVars, historyVars
  <2>3. SavesOwn'
    BY <2>2 DEF SavesOwn
  <2>4. UnknownNotLeft'
    BY <2>1, <2>2, <1>a, <1>b DEF UnknownNotLeft, CurPoints, PersistPoints
  <2> QED BY <1>f, <2>1, <2>3, <2>4
<1>2. ASSUME NEW l \in Loops, LoadDisabled(l) PROVE Goal
  <2>1. PICK s \in todo[l] :
          /\ Pick(l, s, "truncate")
          /\ loaded' = [loaded EXCEPT ![l] = (disabled \cap SameFile(s)) \cup {s}]
    BY <1>2 DEF LoadDisabled
  <2>2. s \in Slices /\ SameFile(s) = {s}
    BY <1>a, DaemonAssumption DEF OneRangeEach, SameFile
  <2>3. /\ pc'[l] = "truncate" /\ cur'[l] = s /\ loaded'[l] = {s} /\ pc[l] = "load"
        /\ UNCHANGED <<todo, disabled, recorded>> /\ Known
        /\ \A k \in Loops \ {l} :
             pc'[k] = pc[k] /\ cur'[k] = cur[k] /\ loaded'[k] = loaded[k]
    BY <1>2, <1>a, <1>d, <2>1, <2>2 DEF LoadDisabled, Pick, Goto, At, diskVars, historyVars
  <2>4. SavesOwn'
    BY <2>3 DEF SavesOwn
  <2>5. UnknownNotLeft'
    BY <2>1, <2>2, <2>3, <1>a, <1>b DEF UnknownNotLeft, CurPoints, PersistPoints
  <2> QED BY <1>f, <2>3, <2>4, <2>5
<1>3. ASSUME NEW l \in Loops, TruncateDisabled(l) PROVE Goal
  <2>1. /\ pc[l] = "truncate" /\ pc'[l] = "write" /\ cur[l] \in Slices
        /\ UNCHANGED <<todo, cur, loaded, recorded>> /\ Known
        /\ \A k \in Loops \ {l} : pc'[k] = pc[k]
    BY <1>3, <1>a, <1>d DEF TruncateDisabled, Goto, At, historyVars, CurPoints
  <2>2. SameFile(cur[l]) = {cur[l]} /\ disabled' = disabled \ {cur[l]}
    BY <1>3, <2>1, DaemonAssumption DEF OneRangeEach, SameFile, TruncateDisabled
  <2>3. SavesOwn'
    BY <2>1 DEF SavesOwn
  <2>4. UnknownNotLeft'
    BY <2>1, <2>2, <1>a, <1>b DEF UnknownNotLeft, CurPoints, PersistPoints
  <2> QED BY <1>f, <2>1, <2>3, <2>4
<1>g. ASSUME NEW l \in Loops, pc[l] \in {"truncate", "write"}, SaveDone(l),
             disabled' \subseteq disabled \cup {cur[l]}
      PROVE  /\ SavesOwn' /\ UnknownNotLeft' /\ Known
             /\ \A k \in Loops \ {l} : pc'[k] = pc[k] /\ cur'[k] = cur[k]
  <2>1. /\ pc'[l] \in {"load", "scan", "idle"} /\ todo'[l] \subseteq todo[l]
        /\ \A k \in Loops \ {l} :
             /\ pc'[k] = pc[k] /\ cur'[k] = cur[k]
             /\ todo'[k] = todo[k] /\ loaded'[k] = loaded[k]
    BY <1>g, <1>a DEF SaveDone, NextKey, Begin, Goto, AfterPersist
  <2>2. Known /\ status' = status
    BY <1>g, <1>d DEF SaveDone, controlVars
  <2>3. SavesOwn'
    BY <2>1 DEF SavesOwn
  <2>4. UnknownNotLeft'
    BY <1>g, <2>1, <2>2, <1>a, <1>b DEF UnknownNotLeft, CurPoints, PersistPoints
  <2> QED BY <2>1, <2>2, <2>3, <2>4
<1>4. ASSUME NEW l \in Loops, WriteDisabled(l) PROVE Goal
  <2>1. /\ pc[l] = "write" /\ cur[l] \in Slices /\ loaded[l] = {cur[l]} /\ SaveDone(l)
        /\ recorded' = recorded \cup {cur[l]}
    BY <1>4, <1>a DEF WriteDisabled, At, SavesOwn, CurPoints
  <2>2. disabled' = disabled \cup {cur[l]}
    BY <1>4, <2>1, DaemonAssumption DEF OneRangeEach, SameFile, WriteDisabled
  <2>3. SavesOwn' /\ UnknownNotLeft' /\ Known
        /\ \A k \in Loops \ {l} : pc'[k] = pc[k] /\ cur'[k] = cur[k]
    BY <2>1, <2>2, <1>g
  <2> QED BY <1>f, <2>3
<1>5. ASSUME NEW l \in Loops, SaveFails(l) PROVE Goal
  <2>1. pc[l] \in {"truncate", "write"} /\ SaveDone(l) /\ disabled' = disabled
    BY <1>5 DEF SaveFails, At
  <2> QED BY <1>f, <1>g, <2>1
<1>6. CASE WatchdogStep
  <2>1. ASSUME WatchdogTick \/ WatchdogForce PROVE Goal
    <3>1. /\ pc[Watchdog] # "write" /\ pc'[Watchdog] \in {"force", "drain"}
          /\ UNCHANGED <<todo, cur, loaded, disabled, recorded>> /\ Known
          /\ \A k \in Loops \ {Watchdog} : pc'[k] = pc[k]
      <4>1. pc[Watchdog] # "write" /\ UNCHANGED <<todo, cur, loaded, disabled, recorded>>
        BY <2>1 DEF WatchdogTick, WatchdogForce, At, diskVars, historyVars
      <4>2. /\ pc'[Watchdog] \in {"force", "drain"}
            /\ \A k \in Loops \ {Watchdog} : pc'[k] = pc[k]
        BY <2>1, <1>a, <1>b DEF WatchdogTick, WatchdogForce, Goto
      <4>3. Known
        BY <2>1, <1>d DEF WatchdogTick, WatchdogForce
      <4> QED BY <4>1, <4>2, <4>3
    <3>2. SavesOwn'
      BY <3>1 DEF SavesOwn
    <3>3. UnknownNotLeft'
      BY <3>1, <1>a, <1>b DEF UnknownNotLeft, CurPoints, PersistPoints
    <3> QED BY <1>f, <3>1, <3>2, <3>3
  <2>2. ASSUME WatchdogDrain PROVE Goal
    BY <1>1, <1>b, <2>2 DEF WatchdogDrain, At
  <2> QED BY <1>6, <2>1, <2>2 DEF WatchdogStep
\* A move of the announce loop between two keys, or with the key at hand.
<1>h. ASSUME pc[Announcer] \notin PersistPoints,
             pc'[Announcer] \in {"idle", "check", "recheck", "register", "put"},
             \/ todo'[Announcer] \subseteq Hosted
             \/ /\ todo'[Announcer] \subseteq todo[Announcer]
                /\ pc[Announcer] \in {"check", "recheck", "register", "put"},
             pc'[Announcer] \in {"recheck", "register"} =>
               cur'[Announcer] \in todo'[Announcer],
             UNCHANGED <<loaded, disabled, recorded>>,
             \A k \in Loops \ {Announcer} :
               pc'[k] = pc[k] /\ cur'[k] = cur[k] /\ todo'[k] = todo[k],
             \A s \in Slices : status[s] # "absent" => status'[s] # "absent"
      PROVE  SavesOwn' /\ UnknownNotLeft'
  <2>1. SavesOwn'
    BY <1>h, <1>b DEF SavesOwn
  <2>2. UnknownNotLeft'
    BY <1>h, <1>a, <1>b DEF UnknownNotLeft, CurPoints, PersistPoints, Hosted
  <2> QED BY <2>1, <2>2
<1>7. CASE AnnounceStep
  <2> USE DEF PersistPoints
  <2>1. ASSUME AnnounceTick PROVE Goal
    BY <1>1, <1>b, <2>1 DEF AnnounceTick, At
  <2>2. ASSUME AnnounceScan PROVE Goal
    <3>1. /\ pc[Announcer] = "scan" /\ pc'[Announcer] \in {"check", "idle"}
          /\ todo'[Announcer] \subseteq Hosted /\ UNCHANGED <<cur, loaded, disabled, recorded>>
          /\ \A k \in Loops \ {Announcer} : pc'[k] = pc[k] /\ todo'[k] = todo[k]
          /\ Known
      BY <2>2, <1>a, <1>b, <1>d DEF AnnounceScan, Begin, Goto, At, diskVars, historyVars
    <3> QED BY <1>f, <1>h, <3>1
  <2>3. ASSUME AnnounceCheck PROVE Goal
    <3>1. /\ pc[Announcer] = "check" /\ pc'[Announcer] \in {"put", "recheck"}
          /\ UNCHANGED <<todo, loaded, disabled, recorded>>
          /\ cur'[Announcer] \in todo'[Announcer]
          /\ \A k \in Loops \ {Announcer} : pc'[k] = pc[k] /\ cur'[k] = cur[k]
          /\ Known
      BY <2>3, <1>a, <1>b, <1>d DEF AnnounceCheck, Pick, Goto, At, diskVars, historyVars
    <3> QED BY <1>f, <1>h, <3>1
  <2>4. ASSUME AnnounceRecheck PROVE Goal
    <3>1. /\ pc[Announcer] = "recheck"
          /\ pc'[Announcer] \in {"register", "check", "idle"}
          /\ UNCHANGED <<loaded, disabled, recorded>> /\ Known
          /\ \A k \in Loops \ {Announcer} :
               pc'[k] = pc[k] /\ cur'[k] = cur[k] /\ todo'[k] = todo[k]
      BY <2>4, <1>a, <1>b, <1>d
      DEF AnnounceRecheck, NextKey, Begin, Goto, At, diskVars, historyVars
    <3>2. /\ todo'[Announcer] \subseteq todo[Announcer]
          /\ pc'[Announcer] = "register" => cur'[Announcer] \in todo'[Announcer]
      BY <2>4, <3>1, <1>a, <1>b DEF AnnounceRecheck, NextKey, Begin, Goto, UnknownNotLeft
    <3> QED BY <1>f, <1>h, <3>1, <3>2
  <2>5. ASSUME AnnounceRegister PROVE Goal
    <3>1. /\ pc[Announcer] = "register" /\ pc'[Announcer] = "put"
          /\ UNCHANGED <<todo, cur, loaded, disabled, recorded>>
          /\ \A k \in Loops \ {Announcer} : pc'[k] = pc[k]
          /\ cur[Announcer] \in Slices
      BY <2>5, <1>a, <1>b DEF AnnounceRegister, Goto, At, diskVars, historyVars, CurPoints
    <3>2. \A s \in Slices :
            status'[s] = IF s = cur[Announcer] THEN "announcing" ELSE status[s]
      BY <2>5, <3>1, <1>a DEF AnnounceRegister, UpsertAnnouncing
    <3>3. cur[Announcer] \in todo[Announcer]
          /\ (status[cur[Announcer]] = "absent" => cur[Announcer] \notin disabled)
      BY <3>1 DEF UnknownNotLeft
    <3>4. Honours
      BY <3>2, <3>3, <1>a DEF Honours
    <3> QED BY <1>h, <3>1, <3>2, <3>4
  <2>6. ASSUME AnnouncePut PROVE Goal
    <3>1. /\ pc[Announcer] = "put" /\ pc'[Announcer] \in {"check", "idle"}
          /\ todo'[Announcer] \subseteq todo[Announcer]
          /\ UNCHANGED <<loaded, disabled, recorded>> /\ Known
          /\ \A k \in Loops \ {Announcer} :
               pc'[k] = pc[k] /\ cur'[k] = cur[k] /\ todo'[k] = todo[k]
      BY <2>6, <1>a, <1>b, <1>d
      DEF AnnouncePut, NextKey, Begin, Goto, At, diskVars, historyVars
    <3> QED BY <1>f, <1>h, <3>1
  <2> QED BY <1>7, <2>1, <2>2, <2>3, <2>4, <2>5, <2>6 DEF AnnounceStep
<1>i. ASSUME NEW s \in Slices, BeginDrain(s), UNCHANGED <<loopVars, disabled, recorded>>
      PROVE Goal
  BY <1>a, <1>c, <1>i DEF BeginDrain, loopVars
<1>j. ASSUME UNCHANGED <<status, loopVars, disabled>>, recorded' \subseteq recorded PROVE Goal
  BY <1>c, <1>j DEF loopVars
<1>8. CASE User
  <2>1. ASSUME NEW s \in Slices, Join(s) PROVE Goal
    <3>1. \A u \in Slices : u # s => status'[u] = status[u]
      BY <2>1, <1>a DEF Join, UpsertAnnouncing
    <3>2. status'[s] = "announcing"
      BY <2>1, <1>a DEF Join, UpsertAnnouncing
    <3>3. UNCHANGED <<pc, todo, cur, loaded, disabled, recorded>>
      BY <2>1 DEF Join, loopVars, diskVars
    <3> QED BY <1>c, <2>1, <3>1, <3>2, <3>3
  <2> QED BY <1>8, <1>i, <1>j, <2>1 DEF User, Leave, Contribute, controlVars, diskVars
<1>9. CASE Consumers
  <2>1. ASSUME NEW g \in Guards, GuardReleased(g) PROVE Goal
    BY <1>a, <1>c, <2>1
    DEF GuardReleased, ReleaseChain, Stopped, loopVars, diskVars, historyVars
  <2>2. ASSUME NEW g \in Guards,
               ConnectionEnds(g) \/ \E s \in Slices : SessionInit(g, s)
        PROVE  Goal
    BY <1>j, <2>2
    DEF ConnectionEnds, DropGuard, SessionInit, AcceptChain, diskVars, historyVars
  <2> QED BY <1>9, <2>1, <2>2 DEF Consumers
<1>10. ASSUME NEW s \in Slices, TimePasses(s) PROVE Goal
  BY <1>j, <1>10 DEF TimePasses, GraceElapses, diskVars, historyVars
<1>11. CASE Boot
  <2>1. \A l \in Loops : pc[l] = "none" /\ pc'[l] \in {"none", "idle"}
    BY <1>11, <1>b DEF Boot, DaemonInv, DownOK
  <2>2. UNCHANGED <<todo, cur, loaded, disabled, recorded>>
    BY <1>11 DEF Boot, diskVars, historyVars
  <2>3. \A s \in disabled : s \in Slices => status'[s] = "absent"
    BY <1>11 DEF Boot, Restart, Seeded, Hosted
  <2>4. SavesOwn'
    BY <2>1 DEF SavesOwn
  <2>5. UnknownNotLeft'
    BY <2>1, <1>b DEF UnknownNotLeft, PersistPoints
  <2>6. Honours
    BY <2>3, <1>a DEF Honours
  <2> QED BY <2>4, <2>5, <2>6
<1>12. ASSUME ProcessGone PROVE Goal
  <2>1. \A l \in Loops : pc'[l] = "none"
    BY <1>12 DEF ProcessGone
  <2>3. \A s \in Slices : status'[s] = "absent"
    BY <1>12 DEF ProcessGone, Restart, Seeded
  <2>4. SavesOwn'
    BY <2>1 DEF SavesOwn
  <2>5. UnknownNotLeft'
    BY <2>1, <1>b DEF UnknownNotLeft, PersistPoints
  <2>6. Honours
    BY <2>3, <1>a DEF Honours
  <2> QED BY <2>4, <2>5, <2>6
<1>13. CASE Shutdown
  <2>1. CASE SignalDrain
    BY <1>a, <1>i, <1>j, <2>1 DEF SignalDrain, controlVars, diskVars, historyVars
  <2>2. CASE Signal \/ PollIdle \/ BudgetSpent
    BY <1>j, <2>2 DEF Signal, PollIdle, BudgetSpent, controlVars, diskVars, historyVars
  <2>3. CASE Exit
    BY <1>12, <2>3 DEF Exit
  <2> QED BY <1>13, <2>1, <2>2, <2>3 DEF Shutdown
<1>14. CASE Crash
  BY <1>12, <1>14 DEF Crash
<1>15. CASE UNCHANGED vars
  BY <1>j, <1>15 DEF vars, controlVars, diskVars, historyVars
<1> QED
  BY <1>2, <1>3, <1>4, <1>5, <1>6, <1>7, <1>8, <1>9, <1>10, <1>11, <1>13, <1>14, <1>15
  DEF Next, Persist

LEMMA RecordInit == Init => SavesOwn /\ UnknownNotLeft
BY DEF Init, SavesOwn, UnknownNotLeft, PersistPoints, Loops, Announcer

\* A leave on record holds for the whole life of the process that boots with it,
\* whatever saves fail, crashes and contributions come: only a Join ends it. Of a
\* host with one range per model.
THEOREM LeavesHonoured ==
  ASSUME OneRangeEach
  PROVE  Spec => RecordedLeaveHonoured
<1> DEFINE Inv == /\ ControlInv /\ DaemonInv /\ OneRecordUntilAnnouncedAnew
                  /\ SavesOwn /\ UnknownNotLeft
<1>1. Init => Inv
  BY DaemonInit, RecordInit, ControlInitInv DEF Init
<1>2. Inv /\ [Next]_vars => Inv' /\ Honours
  BY DaemonNext, RecordStep
<1>3. Inv /\ [Next]_vars =>
        [\A s \in disabled \cap recorded :
           status[s] = "absent" => (status'[s] = "absent" \/ Join(s))]_vars
  BY <1>2 DEF Honours
<1> QED
  BY <1>1, <1>2, <1>3, PTL DEF Spec, RecordedLeaveHonoured

===============================================================================
