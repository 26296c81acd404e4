----------------------------- MODULE ControlState -----------------------------
(***************************************************************************)
(* The slice map of the host daemon (crates/app/src/control.rs): for every  *)
(* (cid, start, end) the daemon knows, its status, the count of chains that *)
(* run through it and the instant its drain began.  One action is one       *)
(* critical section of the mutex `ControlState::slices`; who calls it, and   *)
(* when, is the business of HostDaemon.                                     *)
(*                                                                         *)
(* A ChainGuard is a value of Guards while it is alive.  Dropping it only    *)
(* spawns a task, so a guard is first dropped and later released: the count  *)
(* lags behind the connections.                                             *)
(***************************************************************************)
EXTENDS Integers, FiniteSets

CONSTANTS
  Slices,   \* the slice keys
  Guards,   \* identities of ChainGuards, bounds the chains alive at once
  NoSlice   \* what a guard that does not exist is attached to

ASSUME ControlAssumption ==
  /\ IsFiniteSet(Guards)
  /\ NoSlice \notin Slices

VARIABLES
  status,     \* "absent" when the map has no entry for the slice
  active,     \* active_chains
  overdue,    \* the draining slices whose grace period has elapsed
  holds,      \* the slice a guard was issued for
  dropping,   \* guards whose Drop ran and whose release task has not run yet
  forced      \* history: slices force-stopped with chains since the boot

controlVars == <<status, active, overdue, holds, dropping, forced>>

SliceStatus == {"absent", "announcing", "draining", "stopped"}

Attached(s) == {g \in Guards : holds[g] = s}

\* What the poll of the shutdown and /hosting see: the sum over the entries.
NoActiveChains == \A s \in Slices : active[s] = 0

\* Mutation of IdleDraining: drain_idle does not look at the chains.
DrainingBusyOrIdle == {s \in Slices : status[s] = "draining"}

IdleDraining == {s \in Slices : status[s] = "draining" /\ active[s] = 0}

Draining == {s \in Slices : status[s] = "draining"}

\* Mutation of ExpiredDraining: the watchdog spares slices with chains.
ExpiredIdle == overdue \cap IdleDraining

\* draining_since is read of a draining slice only.
ExpiredDraining == overdue \cap Draining

DrainsGoOn == overdue' = {s \in overdue : status'[s] = "draining"}

\* The status map after every slice of S was flipped to Stopped.
Stopped(S) == [s \in Slices |-> IF s \in S THEN "stopped" ELSE status[s]]

\* The map of a process that has upserted the seed at boot and nothing since.
Seeded(seed) ==
  [s \in Slices |-> IF s \in seed THEN "announcing" ELSE "absent"]

NoChains == [s \in Slices |-> 0]
NoGuards == [g \in Guards |-> NoSlice]

ControlInit ==
  /\ status = Seeded({})
  /\ active = NoChains
  /\ overdue = {}
  /\ holds = NoGuards
  /\ dropping = {}
  /\ forced = {}

\* A process boots with this seed, or is gone and leaves the empty one.
Restart(seed) ==
  /\ status' = Seeded(seed)
  /\ active' = NoChains
  /\ overdue' = {}
  /\ holds' = NoGuards
  /\ dropping' = {}
  /\ forced' = {}

(***************************************************************************)
(* The critical sections.  upsert_announcing keeps active_chains and         *)
(* draining_since of an entry that exists.                                  *)
(***************************************************************************)
UpsertAnnouncing(s) ==
  /\ status' = [status EXCEPT ![s] = "announcing"]
  /\ DrainsGoOn
  /\ UNCHANGED <<active, holds, dropping, forced>>

BeginDrain(s) ==
  /\ status[s] = "announcing"
  /\ status' = [status EXCEPT ![s] = "draining"]
  /\ UNCHANGED <<active, overdue, holds, dropping, forced>>

\* Five minutes pass after begin_drain.
GraceElapses(s) ==
  /\ status[s] = "draining"
  /\ s \notin overdue
  /\ overdue' = overdue \cup {s}
  /\ UNCHANGED <<status, active, holds, dropping, forced>>

\* Mutation of AcceptChain: whatever is in the map admits chains.
AcceptChainUnchecked(g, s) ==
  /\ holds[g] = NoSlice
  /\ status[s] # "absent"
  /\ active' = [active EXCEPT ![s] = @ + 1]
  /\ holds' = [holds EXCEPT ![g] = s]
  /\ UNCHANGED <<status, overdue, dropping, forced>>

AcceptChain(g, s) ==
  /\ holds[g] = NoSlice
  /\ status[s] = "announcing"
  /\ active' = [active EXCEPT ![s] = @ + 1]
  /\ holds' = [holds EXCEPT ![g] = s]
  /\ UNCHANGED <<status, overdue, dropping, forced>>

\* The connection ends, or a second SessionInit replaces its guard.
DropGuard(g) ==
  /\ holds[g] # NoSlice
  /\ g \notin dropping
  /\ dropping' = dropping \cup {g}
  /\ UNCHANGED <<status, active, overdue, holds, forced>>

\* Mutation of CountAfterRelease: the last but one release counts for two.
CountDropsTwo(s) == IF active[s] <= 2 THEN 0 ELSE active[s] - 1

\* saturating_sub
CountAfterRelease(s) == IF active[s] = 0 THEN 0 ELSE active[s] - 1

\* The task that Drop spawned takes the lock.
ReleaseChain(g) ==
  /\ g \in dropping
  /\ LET s == holds[g]
     IN /\ active' = [active EXCEPT ![s] = CountAfterRelease(s)]
        /\ status' = IF status[s] = "draining" /\ CountAfterRelease(s) = 0
                     THEN Stopped({s}) ELSE status
  /\ holds' = [holds EXCEPT ![g] = NoSlice]
  /\ dropping' = dropping \ {g}
  /\ DrainsGoOn
  /\ UNCHANGED forced

DrainIdle ==
  /\ status' = Stopped(IdleDraining)
  /\ DrainsGoOn
  /\ UNCHANGED <<active, holds, dropping, forced>>

ForceStopAllDraining ==
  /\ status' = Stopped(Draining)
  /\ active' = [s \in Slices |-> IF s \in Draining THEN 0 ELSE active[s]]
  /\ forced' = forced \cup {s \in Draining : active[s] > 0}
  /\ overdue' = {}
  /\ UNCHANGED <<holds, dropping>>

ControlNext ==
  \/ \E s \in Slices : UpsertAnnouncing(s) \/ BeginDrain(s) \/ GraceElapses(s)
  \/ \E g \in Guards, s \in Slices : AcceptChain(g, s)
  \/ \E g \in Guards : DropGuard(g) \/ ReleaseChain(g)
  \/ DrainIdle
  \/ ForceStopAllDraining
  \/ \E seed \in SUBSET Slices : Restart(seed)

ControlSpec == ControlInit /\ [][ControlNext]_controlVars

(***************************************************************************)
(* Properties                                                              *)
(***************************************************************************)

\* The shape of the map; a guard that is being released is one that exists.
ControlTypeOK ==
  /\ status \in [Slices -> SliceStatus]
  /\ active \in [Slices -> Nat]
  /\ overdue \subseteq Draining
  /\ holds \in [Guards -> Slices \cup {NoSlice}]
  /\ dropping \subseteq {g \in Guards : holds[g] # NoSlice}
  /\ forced \subseteq Slices

\* active_chains never exceeds the guards alive, whatever the order of
\* admissions, late releases and force-stops: no drain and no shutdown waits
\* for a chain that is gone (accept_chain, release_chain, saturating_sub).
NeverOvercounts ==
  \A s \in Slices : active[s] <= Cardinality(Attached(s))

\* Until the watchdog cuts a chain off, the count is the number of guards,
\* although guards are released by detached tasks in any order.
CountsAreExact ==
  \A s \in Slices \ forced : active[s] = Cardinality(Attached(s))

\* A slice that is Stopped, or not in the map, carries no chain unless the
\* watchdog cut one off: "in-flight chains keep streaming until they finish".
StoppedMeansIdle ==
  \A s \in Slices \ forced :
    status[s] \in {"absent", "stopped"} => Attached(s) = {}

\* What the slice map promises its callers, in terms of whole chains.
Lifecycle == INSTANCE SliceLifecycle WITH
  Chains  <- Guards,
  stage   <- status,
  serving <- [s \in Slices |-> Attached(s) \ dropping],
  cut     <- forced
LifecycleSpec == Lifecycle!Spec
===============================================================================
