------------------------------ MODULE HostDaemon ------------------------------
(***************************************************************************)
(* The host daemon around the slice map (crates/app/src/swarm_node.rs): the *)
(* announce loop, the drain watchdog, the control RPC, the connections of    *)
(* the forward listener and the shutdown, on the multi-threaded runtime of   *)
(* intelnav-node.  They share the map, whose mutex is held for one lookup at *)
(* a time, and the sidecar files, which nothing locks.  A step of a loop is   *)
(* what it does between two points where another thread can get in.          *)
(***************************************************************************)
EXTENDS ControlState

CONSTANTS
  Models,   \* content ids: one shard directory, hence one pair of sidecars
  ModelOf,  \* the model a slice belongs to
  InitKept, \* the ranges in the kept_ranges.json files before the first boot
  Events    \* which of DaemonEvents the environment may produce

\* leave, join: the RPCs; contribute: the chat client writes kept_ranges.json;
\* chain: consumers connect; signal: SIGTERM; crash: the process is killed;
\* savefail: a sidecar cannot be written.
DaemonEvents ==
  {"leave", "join", "contribute", "chain", "signal", "crash", "savefail"}

ASSUME DaemonAssumption ==
  /\ ModelOf \in [Slices -> Models]
  /\ InitKept \subseteq Slices
  /\ Events \subseteq DaemonEvents

Announcer == "announcer"
Watchdog  == "watchdog"
Loops     == {Announcer, Watchdog}

VARIABLES
  kept,      \* the ranges listed by the kept_ranges.json files
  disabled,  \* the ranges DisabledRanges::load finds: none in a torn file
  phase,     \* of serve_forever, "down" while no process runs
  toDrain,   \* shutdown: slices of the snapshot still to be drained
  pc,        \* where each loop is; "none" if it was not spawned
  todo,      \* the slices the loop has still to go through
  cur,       \* the slice at hand
  loaded,    \* the DisabledRanges the loop holds in memory
  left,      \* history: slices the user has left
  late,      \* history: slices a record was put for since they left
  recorded,  \* history: slices whose leave was saved, until contributed again
  risked     \* history: slices whose record a broken save, or two at once, may cost

diskVars   == <<kept, disabled>>
loopVars   == <<pc, todo, cur, loaded>>
stopVars   == <<phase, toDrain>>
historyVars == <<left, late, recorded, risked>>
vars == <<controlVars, diskVars, loopVars, stopVars, historyVars>>

Phases == {"down", "serving", "draining", "polling", "leaving"}

PersistPoints == {"load", "truncate", "write"}
LoopPoints ==
  {"none", "idle", "force", "drain", "scan", "check", "recheck", "register",
   "put"} \cup PersistPoints

up == phase # "down"

\* The ranges whose leaves are recorded in the same file.
SameFile(s) == {t \in Slices : ModelOf[t] = ModelOf[s]}

\* Mutation of Hosted: the scan forgets disabled_ranges.json.
HostedUnfiltered == kept

\* scan_kept_ranges
Hosted == kept \ disabled

\* Conjunct of the steps that announce a slice: its records are due again.
DueAgain(s) == late' = late \ {s}

\* Loop l has read the file that holds the record of s and not yet written it back.
Saving(l, s) == pc[l] \in {"truncate", "write"} /\ cur[l] \in SameFile(s)

SavedMeanwhile(l, s) == \E k \in Loops \ {l} : Saving(k, s)

(***************************************************************************)
(* Moves of a loop                                                         *)
(***************************************************************************)

\* No task is polled again once the SwarmHandle is dropped.
CanRun == phase \in {"serving", "draining", "polling"}

At(l, point) == pc[l] = point

Goto(l, point) == pc' = [pc EXCEPT ![l] = point]

\* Take up the keys of S at this point, or go on when there are none.
Begin(l, S, point, after) ==
  /\ todo' = [todo EXCEPT ![l] = S]
  /\ Goto(l, IF S = {} THEN after ELSE point)

Pick(l, s, point) ==
  /\ s \in todo[l]
  /\ cur' = [cur EXCEPT ![l] = s]
  /\ Goto(l, point)

\* Done with the slice at hand.
NextKey(l, point, after) ==
  /\ Begin(l, todo[l] \ {cur[l]}, point, after)
  /\ cur' = [cur EXCEPT ![l] = NoSlice]

(***************************************************************************)
(* persist_drained_slices, run by both loops.  From drain_idle to the last   *)
(* save it never awaits, but the other loop runs on another thread; and      *)
(* fs::write truncates the file before it fills it.                         *)
(***************************************************************************)
AfterPersist(l) == IF l = Announcer THEN "scan" ELSE "idle"

PersistDrained(l) ==
  /\ DrainIdle
  /\ Begin(l, IdleDraining, "load", AfterPersist(l))
  /\ UNCHANGED <<cur, loaded, diskVars, stopVars, historyVars>>

LoadDisabled(l) ==
  /\ At(l, "load")
  /\ \E s \in todo[l] :
       /\ Pick(l, s, "truncate")
       /\ loaded' = [loaded EXCEPT ![l] = (disabled \cap SameFile(s)) \cup {s}]
       /\ risked' = IF SavedMeanwhile(l, s) THEN risked \cup SameFile(s) ELSE risked
  /\ UNCHANGED <<todo, controlVars, diskVars, stopVars, left, late, recorded>>

TruncateDisabled(l) ==
  /\ At(l, "truncate")
  /\ disabled' = disabled \ SameFile(cur[l])
  /\ Goto(l, "write")
  /\ UNCHANGED <<todo, cur, loaded, controlVars, kept, stopVars, historyVars>>

SaveDone(l) ==
  /\ NextKey(l, "load", AfterPersist(l))
  /\ loaded' = [loaded EXCEPT ![l] = {}]
  /\ UNCHANGED <<controlVars, kept, stopVars, left, late>>

WriteDisabled(l) ==
  /\ At(l, "write")
  /\ disabled' = (disabled \ SameFile(cur[l])) \cup loaded[l]
  /\ recorded' = recorded \cup {cur[l]}
  /\ risked' = IF SavedMeanwhile(l, cur[l]) THEN risked ELSE risked \ {cur[l]}
  /\ SaveDone(l)

\* The file cannot be opened, or not be filled; the loop only warns.
SaveFails(l) ==
  /\ "savefail" \in Events
  /\ \/ At(l, "truncate") /\ UNCHANGED risked
     \/ At(l, "write") /\ risked' = risked \cup SameFile(cur[l])
  /\ SaveDone(l)
  /\ UNCHANGED <<disabled, recorded>>

(***************************************************************************)
(* spawn_drain_watchdog: expired_draining, force_stop_all_draining and       *)
(* drain_idle lock the map one after the other.                             *)
(***************************************************************************)
WatchdogTick ==
  /\ CanRun
  /\ At(Watchdog, "idle")
  /\ ExpiredDraining # {}
  /\ Goto(Watchdog, "force")
  /\ UNCHANGED <<todo, cur, loaded, controlVars, diskVars, stopVars, historyVars>>

WatchdogForce ==
  /\ CanRun
  /\ At(Watchdog, "force")
  /\ ForceStopAllDraining
  /\ Goto(Watchdog, "drain")
  /\ UNCHANGED <<todo, cur, loaded, diskVars, stopVars, historyVars>>

WatchdogDrain ==
  /\ CanRun
  /\ At(Watchdog, "drain")
  /\ PersistDrained(Watchdog)

(***************************************************************************)
(* spawn_announce_loop and announce_all: for every key the scan found, look   *)
(* at its state, perhaps look again, perhaps register it, and put a record.  *)
(***************************************************************************)
AnnounceTick ==
  /\ CanRun
  /\ At(Announcer, "idle")
  /\ PersistDrained(Announcer)

AnnounceScan ==
  /\ CanRun
  /\ At(Announcer, "scan")
  /\ Begin(Announcer, Hosted, "check", "idle")
  /\ UNCHANGED <<cur, loaded, controlVars, diskVars, stopVars, historyVars>>

\* Mutation of AnnounceCheck: a draining slice passes for an announcing one.
AnnounceCheckLax ==
  /\ CanRun
  /\ At(Announcer, "check")
  /\ \E s \in todo[Announcer] :
       Pick(Announcer, s, IF status[s] \in {"announcing", "draining"}
                          THEN "put" ELSE "recheck")
  /\ UNCHANGED <<todo, loaded, controlVars, diskVars, stopVars, historyVars>>

\* is_announcing
AnnounceCheck ==
  /\ CanRun
  /\ At(Announcer, "check")
  /\ \E s \in todo[Announcer] :
       Pick(Announcer, s, IF status[s] = "announcing" THEN "put" ELSE "recheck")
  /\ UNCHANGED <<todo, loaded, controlVars, diskVars, stopVars, historyVars>>

\* Mutation of Unhosted: whatever is not announcing is taken for new.
UnhostedOrDraining(s) == status[s] # "announcing"

Unhosted(s) == status[s] \in {"stopped", "absent"}

\* state_status, read under a second lock
AnnounceRecheck ==
  /\ CanRun
  /\ At(Announcer, "recheck")
  /\ IF Unhosted(cur[Announcer])
     THEN Goto(Announcer, "register") /\ UNCHANGED <<todo, cur>>
     ELSE NextKey(Announcer, "check", "idle")
  /\ UNCHANGED <<loaded, controlVars, diskVars, stopVars, historyVars>>

AnnounceRegister ==
  /\ CanRun
  /\ At(Announcer, "register")
  /\ UpsertAnnouncing(cur[Announcer])
  /\ Goto(Announcer, "put")
  /\ DueAgain(cur[Announcer])
  /\ UNCHANGED <<todo, cur, loaded, diskVars, stopVars, left, recorded, risked>>

Announced == {s \in Slices : status[s] = "announcing"}

\* announce_shard; a failed put is only logged
AnnouncePut ==
  /\ CanRun
  /\ At(Announcer, "put")
  /\ late' = late \cup ({cur[Announcer]} \ Announced)
  /\ NextKey(Announcer, "check", "idle")
  /\ UNCHANGED <<loaded, controlVars, diskVars, stopVars, left, recorded, risked>>

(***************************************************************************)
(* Control RPC, chat client and consumers                                  *)
(***************************************************************************)

\* A Leave of a slice that is not announcing is answered with an error.
Leave(s) ==
  /\ "leave" \in Events
  /\ up
  /\ BeginDrain(s)
  /\ left' = left \cup {s}
  /\ UNCHANGED <<diskVars, loopVars, stopVars, late, recorded, risked>>

Join(s) ==
  /\ "join" \in Events
  /\ up
  /\ UpsertAnnouncing(s)
  /\ DueAgain(s)
  /\ UNCHANGED <<diskVars, loopVars, stopVars, left, recorded, risked>>

\* start_split and start_pull end with a kept_ranges.json that lists one range.
Contribute(s) ==
  /\ "contribute" \in Events
  /\ kept' = (kept \ SameFile(s)) \cup {s}
  /\ recorded' = recorded \ {s}
  /\ UNCHANGED <<disabled, controlVars, loopVars, stopVars, left, late, risked>>

SessionInit(g, s) ==
  /\ "chain" \in Events
  /\ AcceptChain(g, s)
  /\ UNCHANGED <<diskVars, loopVars, stopVars, historyVars>>

ConnectionEnds(g) ==
  /\ DropGuard(g)
  /\ UNCHANGED <<diskVars, loopVars, stopVars, historyVars>>

GuardReleased(g) ==
  /\ ReleaseChain(g)
  /\ UNCHANGED <<diskVars, loopVars, stopVars, historyVars>>

TimePasses(s) ==
  /\ GraceElapses(s)
  /\ UNCHANGED <<diskVars, loopVars, stopVars, historyVars>>

(***************************************************************************)
(* Boot, shutdown and crash                                                *)
(***************************************************************************)

\* spawn_inner seeds the map and announces once before any other task exists;
\* without a range to announce there is no announce loop.
Boot ==
  /\ phase = "down"
  /\ phase' = "serving"
  /\ Restart(Hosted)
  /\ pc' = [l \in Loops |->
              IF l = Announcer /\ Hosted = {} THEN "none" ELSE "idle"]
  /\ UNCHANGED <<diskVars, todo, cur, loaded, toDrain, historyVars>>

Signal ==
  /\ "signal" \in Events
  /\ phase = "serving"
  /\ toDrain' = Announced
  /\ phase' = IF toDrain' = {} THEN "polling" ELSE "draining"
  /\ UNCHANGED <<controlVars, diskVars, loopVars, historyVars>>

SignalDrain ==
  /\ phase = "draining"
  /\ \E s \in toDrain :
       /\ BeginDrain(s) \/ (status[s] # "announcing" /\ UNCHANGED controlVars)
       /\ toDrain' = toDrain \ {s}
  /\ phase' = IF toDrain' = {} THEN "polling" ELSE "draining"
  /\ UNCHANGED <<diskVars, loopVars, historyVars>>

PollIdle ==
  /\ phase = "polling"
  /\ NoActiveChains
  /\ phase' = "leaving"
  /\ UNCHANGED <<controlVars, diskVars, loopVars, toDrain, historyVars>>

\* Mutation of BudgetSpent: the poll waits for the last chain.
BudgetIgnored ==
  /\ phase = "polling"
  /\ NoActiveChains
  /\ phase' = "leaving"
  /\ UNCHANGED <<controlVars, diskVars, loopVars, toDrain, historyVars>>

\* SHUTDOWN_DRAIN_BUDGET, thirty seconds
BudgetSpent ==
  /\ phase = "polling"
  /\ phase' = "leaving"
  /\ UNCHANGED <<controlVars, diskVars, loopVars, toDrain, historyVars>>

ProcessGone ==
  /\ phase' = "down"
  /\ Restart({})
  /\ toDrain' = {}
  /\ pc' = [l \in Loops |-> "none"]
  /\ todo' = [l \in Loops |-> {}]
  /\ cur' = [l \in Loops |-> NoSlice]
  /\ loaded' = [l \in Loops |-> {}]
  /\ late' = {}
  /\ UNCHANGED <<diskVars, left, recorded>>

\* Mutation of Exit: the process does not wait for a save in progress.
ExitAtOnce ==
  /\ phase = "leaving"
  /\ ProcessGone
  /\ UNCHANGED risked

\* The runtime waits for a poll in progress, hence for a save, and goes.
Exit ==
  /\ phase = "leaving"
  /\ \A l \in Loops : pc[l] \notin PersistPoints
  /\ ProcessGone
  /\ UNCHANGED risked

Crash ==
  /\ "crash" \in Events
  /\ up
  /\ ProcessGone
  /\ risked' = risked \cup UNION {SameFile(cur[l]) : l \in {k \in Loops : At(k, "write")}}

(***************************************************************************)
(* Specification                                                           *)
(***************************************************************************)
Init ==
  /\ ControlInit
  /\ kept = InitKept
  /\ disabled = {}
  /\ phase = "down"
  /\ toDrain = {}
  /\ pc = [l \in Loops |-> "none"]
  /\ todo = [l \in Loops |-> {}]
  /\ cur = [l \in Loops |-> NoSlice]
  /\ loaded = [l \in Loops |-> {}]
  /\ left = {}
  /\ late = {}
  /\ recorded = {}
  /\ risked = {}

Persist(l) == LoadDisabled(l) \/ TruncateDisabled(l) \/ WriteDisabled(l)

WatchdogStep == WatchdogTick \/ WatchdogForce \/ WatchdogDrain

AnnounceStep ==
  \/ AnnounceTick \/ AnnounceScan \/ AnnounceCheck
  \/ AnnounceRecheck \/ AnnounceRegister \/ AnnouncePut

User == \E s \in Slices : Leave(s) \/ Join(s) \/ Contribute(s)

Consumers ==
  \E g \in Guards :
    ConnectionEnds(g) \/ GuardReleased(g) \/ \E s \in Slices : SessionInit(g, s)

Shutdown == Signal \/ SignalDrain \/ PollIdle \/ BudgetSpent \/ Exit

Next ==
  \/ \E l \in Loops : Persist(l) \/ SaveFails(l)
  \/ WatchdogStep
  \/ AnnounceStep
  \/ User
  \/ Consumers
  \/ \E s \in Slices : TimePasses(s)
  \/ Boot
  \/ Shutdown
  \/ Crash

Spec == Init /\ [][Next]_vars

\* The runtime schedules every loop, timers fire and DHT queries end; nothing
\* is assumed of users, consumers, signals or the service manager.
FairSpec ==
  /\ Spec
  /\ \A l \in Loops : WF_vars(Persist(l))
  /\ WF_vars(WatchdogStep)
  /\ WF_vars(AnnounceStep)
  /\ \A s \in Slices : WF_vars(TimePasses(s))
  /\ WF_vars(SignalDrain) /\ WF_vars(BudgetSpent) /\ WF_vars(Exit)

(***************************************************************************)
(* Properties                                                              *)
(***************************************************************************)

\* Where the loops are, and what they hold there.
TypeOK ==
  /\ ControlTypeOK
  /\ kept \subseteq Slices
  /\ disabled \subseteq Slices
  /\ phase \in Phases
  /\ toDrain \subseteq Slices
  /\ pc \in [Loops -> LoopPoints]
  /\ todo \in [Loops -> SUBSET Slices]
  /\ cur \in [Loops -> Slices \cup {NoSlice}]
  /\ loaded \in [Loops -> SUBSET Slices]
  /\ left \subseteq Slices
  /\ late \subseteq Slices \ Announced
  /\ recorded \subseteq Slices
  /\ risked \subseteq Slices

\* "A Leave stops announces immediately": until the map announces the slice anew,
\* all that can still go out is the one record the announce loop had decided on.
\* That the map announces it anew without a Join is the subject of LeaveSticks.
OneRecordUntilAnnouncedAnew == At(Announcer, "put") => cur[Announcer] \notin late

\* However the announce loop's reads and writes of the map interleave with
\* leaves, releases and the watchdog, it never turns a draining slice back
\* into an announcing one; only the Join RPC can.
NoDrainCancelled ==
  [][("join" \notin Events) =>
       \A s \in Slices :
         status[s] = "draining" => status'[s] # "announcing"]_vars

\* Only a slice the user has left is on record as disabled, whatever fails.
DisabledOnlyIfLeft == disabled \subseteq left

\* "A daemon restart honours the leave": whenever no process runs, the leaves
\* that were saved are on record, unless a save of their file was broken off once
\* it had truncated it, or the other loop was saving the same file.
RecordedLeaveSurvives == phase = "down" => recorded \ risked \subseteq disabled

\* A leave on record at boot holds for the whole life of that process: unless
\* the Join RPC names the slice, it stays out of the map although the sidecar
\* still lists it, whatever saves, crashes and contributions came before.
RecordedLeaveHonoured ==
  [][\A s \in disabled \cap recorded :
       status[s] = "absent" => (status'[s] = "absent" \/ Join(s))]_vars

\* A drain ends, with or without its chains, within the grace period.
DrainEnds ==
  \A s \in Slices : (status[s] = "draining") ~> (status[s] # "draining")

\* A signalled daemon exits, wedged chains or not.
ShutdownEnds == (phase \notin {"down", "serving"}) ~> (phase = "down")

\* "Make sure new sidecars get registered": a daemon that has an announce loop
\* comes to announce a range it has not heard of since it booted, once a sidecar
\* lists it and as long as no leave on record excludes it.
NewRangesHosted ==
  \A s \in Slices :
    (up /\ status[s] = "absent" /\ s \in Hosted /\ pc[Announcer] # "none")
      ~> (status[s] = "announcing" \/ ~up \/ s \notin Hosted)

\* "Skip slices in Draining / Stopped so a Leave stops announces": a slice the
\* user left is not announced again unless it is joined or contributed again.
LeaveSticks ==
  [][(Events \cap {"join", "contribute"} = {}) =>
       \A s \in left : status[s] = "stopped" => status'[s] # "announcing"]_vars

\* Without the watchdog, a drain ends only when the last chain has hung up.
DrainEndsWhenIdle ==
  [][\A s \in Slices :
       /\ status[s] = "draining" /\ status'[s] = "stopped"
       /\ ~ForceStopAllDraining
       => Attached(s)' \subseteq dropping']_vars
===============================================================================
