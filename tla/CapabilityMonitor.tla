------------------------- MODULE CapabilityMonitor -------------------------
(***************************************************************************)
(* The capability monitor of a native peer: run_native_capability_monitor  *)
(* (burn_dragon_p2p/src/native_runtime.rs), the reprobe tracker and        *)
(* backoff (capability_reprobe.rs) and the downgrade file                  *)
(* (capability_state/native.rs).                                           *)
(*                                                                         *)
(* A trainer whose window runs out of memory becomes read-only, live       *)
(* (roles) and for the next startup (the file); probes of the host memory  *)
(* bring the trainer roles back.  The node's roles, the file and the       *)
(* monitor's own trainer_active change at different moments, any call may  *)
(* fail, and the process may die between two of them.  A call that timed   *)
(* out stays with the node, which may execute it at any later time, but    *)
(* before it answers a newer one: it handles what it is sent in order.     *)
(***************************************************************************)
EXTENDS Naturals

CONSTANTS Cooldown,           \* cooldown_secs, in ticks
          Interval,           \* interval_secs
          MaxInterval,        \* max_interval_secs
          RequiredSuccesses,  \* required_successes
          MaxCount,           \* bound: counts are not told apart from here on
          ControlFails,       \* calls into the node may fail or time out
          DiskFails           \* writes of the downgrade file may fail

ASSUME PolicyAssumption ==  \* DragonNativeCapabilityReprobePolicy::validate
    /\ Cooldown \in Nat
    /\ Interval \in Nat \ {0}
    /\ MaxInterval \in Nat
    /\ MaxInterval >= Interval
    /\ RequiredSuccesses \in Nat \ {0}
    /\ MaxCount \in Nat \ {0}
    /\ MaxCount >= RequiredSuccesses
    /\ ControlFails \in BOOLEAN
    /\ DiskFails \in BOOLEAN

\* What the proofs need to know of the powers of two; there are no others.
ASSUME PowerAssumption == \A n \in 0 .. 20 : 2 ^ n \in Nat

VARIABLES
    roles,           \* the node's live roles: "trainer" or "viewer"
    window,          \* a training window is running
    error,           \* the node's last_error: "none", a "fit" failure or some "other"
    late,            \* the kinds of calls that timed out and are still to be executed
    memory,          \* a probe of the host memory would succeed
    record,          \* failure_count of the record on disk, 0 without a record
    torn,            \* the file is on disk but does not parse
    pc,              \* where the monitor stands; "off" when the process is dead
    draft,           \* the failure_count about to be written
    snapshot,        \* the last_error that the monitor read is a fit failure
    trainer_active,
    failure_count,
    probe_failures,
    streak,          \* NativeReprobeTracker.consecutive_successes
    timer,           \* ticks until next_probe_at
    quiet,           \* history: ticks since the node was last a trainer
    successes,       \* history: successful probes since then, or since a failed one
    unhandled,       \* history: error arose under trainer roles the node still has
    entitled         \* history: the trainer roles were last asked for in due form

nodeVars == <<roles, window, error, unhandled, late, entitled>>
fileVars == <<record, torn, draft>>
probeVars == <<failure_count, probe_failures, streak>>
timeVars == <<timer, quiet, successes>>
vars == <<nodeVars, memory, fileVars, pc, snapshot, trainer_active, probeVars,
          timeVars>>

MonitorPc == {"off", "sleep", "decide", "persist", "persisting", "recount",
              "ack", "restore", "clear", "clearing"}

Larger(a, b) == IF a > b THEN a ELSE b
Smaller(a, b) == IF a < b THEN a ELSE b
Counted(n) == Smaller(n + 1, MaxCount)

\* Mutant: the backoff has no maximum.
Unbounded(n) == Interval * 2 ^ (IF n = 0 THEN 0 ELSE n - 1)

Backoff(n) ==
    LET exponent == Smaller(IF n = 0 THEN 0 ELSE n - 1, 20)
    IN  Smaller(Interval * 2 ^ exponent, MaxInterval)

-----------------------------------------------------------------------------
(* Startup and death. *)

\* prepare_native_peer and spawn_prepared_native_peer: apply_native_downgrade_state
\* reads the file, and the peer does not start when that fails.
StartAs(initial) ==
    /\ roles' = initial
    /\ window' = FALSE
    /\ error' = "none"
    /\ late' = {}
    /\ unhandled' = FALSE
    /\ entitled' = FALSE
    /\ pc' = "sleep"
    /\ snapshot' = FALSE
    /\ trainer_active' = (initial = "trainer")
    /\ failure_count' = record
    /\ probe_failures' = 0
    /\ streak' = 0
    /\ timer' = IF initial = "trainer" THEN 0 ELSE Cooldown
    /\ quiet' = 0
    /\ successes' = 0

\* Mutant: the record on disk is not applied.
ForgetfulRestart ==
    /\ pc = "off"
    /\ ~torn
    /\ StartAs("trainer")
    /\ UNCHANGED <<memory, fileVars>>

Restart ==
    /\ pc = "off"
    /\ ~torn
    /\ StartAs(IF record > 0 THEN "viewer" ELSE "trainer")
    /\ UNCHANGED <<memory, fileVars>>

\* The process is killed, or shut down, at any point.
Crash ==
    /\ pc # "off"
    /\ pc' = "off"
    /\ window' = FALSE
    /\ error' = "none"
    /\ late' = {}
    /\ unhandled' = FALSE
    /\ entitled' = FALSE
    /\ UNCHANGED <<roles, memory, fileVars, snapshot, trainer_active,
                   probeVars, timeVars>>

\* burn_dragon_p2p_native clear-downgrade and mark-runtime-failure, on a peer that
\* is down: both read the file first.
OperatorClear ==
    /\ pc = "off"
    /\ ~torn
    /\ record' = 0
    /\ UNCHANGED <<nodeVars, memory, torn, draft, pc, snapshot, trainer_active,
                   probeVars, timeVars>>

OperatorMark ==
    /\ pc = "off"
    /\ ~torn
    /\ record' = Counted(record)
    /\ UNCHANGED <<nodeVars, memory, torn, draft, pc, snapshot, trainer_active,
                   probeVars, timeVars>>

Init ==
    /\ roles = "trainer" /\ window = FALSE /\ error = "none" /\ late = {}
    /\ unhandled = FALSE /\ entitled = FALSE
    /\ memory = TRUE
    /\ record = 0 /\ torn = FALSE /\ draft = 0
    /\ pc = "sleep" /\ snapshot = FALSE /\ trainer_active = TRUE
    /\ failure_count = 0 /\ probe_failures = 0 /\ streak = 0
    /\ timer = 0 /\ quiet = 0 /\ successes = 0

-----------------------------------------------------------------------------
(* The node and the host (burn_p2p, as native_runtime.rs uses it). *)

monitorVars == <<memory, fileVars, pc, snapshot, trainer_active, probeVars,
                 timeVars>>

StartWindow ==
    /\ pc # "off"
    /\ roles = "trainer"
    /\ ~window
    /\ window' = TRUE
    /\ UNCHANGED <<roles, error, late, unhandled, entitled, monitorVars>>

EndWindow ==
    /\ window
    /\ window' = FALSE
    /\ UNCHANGED <<roles, error, late, unhandled, entitled, monitorVars>>

\* Out of memory, failed allocation or device loss; a window that is still
\* draining after a downgrade can fail too.
WindowFails ==
    /\ window
    /\ window' = FALSE
    /\ error' = "fit"
    /\ unhandled' = (unhandled \/ roles = "trainer")
    /\ UNCHANGED <<roles, late, entitled, monitorVars>>

\* Anything else that goes wrong takes the place of the failure in last_error.
OtherError ==
    /\ pc # "off"
    /\ error' = "other"
    /\ unhandled' = FALSE
    /\ UNCHANGED <<roles, window, late, entitled, monitorVars>>

MemoryChanges ==
    /\ memory' = ~memory
    /\ UNCHANGED <<nodeVars, fileVars, pc, snapshot, trainer_active, probeVars,
                   timeVars>>

Tick ==
    /\ pc # "off"
    /\ timer > 0 \/ quiet < Cooldown
    /\ timer' = IF timer > 0 THEN timer - 1 ELSE 0
    /\ quiet' = Smaller(quiet + 1, Cooldown)
    /\ UNCHANGED <<nodeVars, memory, fileVars, pc, snapshot, trainer_active,
                   probeVars, successes>>

-----------------------------------------------------------------------------
(* The monitor: look. *)

Snapshot ==
    /\ pc = "sleep"
    /\ snapshot' = (error = "fit")
    /\ pc' = "decide"
    /\ UNCHANGED <<nodeVars, memory, fileVars, trainer_active, probeVars,
                   timeVars>>

Idle ==
    /\ pc = "decide"
    /\ IF trainer_active THEN ~snapshot ELSE timer > 0
    /\ pc' = "sleep"
    /\ UNCHANGED <<nodeVars, memory, fileVars, snapshot, trainer_active,
                   probeVars, timeVars>>

-----------------------------------------------------------------------------
(* The monitor: downgrade.  last_handled_fit_error never suppresses one: it  *)
(* is None whenever trainer_active holds.                                    *)

BecomeViewer ==
    /\ roles' = "viewer"
    /\ unhandled' = FALSE
    /\ entitled' = FALSE
    /\ quiet' = 0
    /\ successes' = 0
    /\ UNCHANGED <<window, error, timer>>

DowngradeRoles ==
    /\ pc = "decide"
    /\ trainer_active
    /\ snapshot
    /\ BecomeViewer
    /\ late' = {}
    /\ pc' = "persist"
    /\ UNCHANGED <<memory, fileVars, snapshot, trainer_active, probeVars>>

\* Mutant: a downgrade that was refused counts as done.
GiveUpDowngrade ==
    /\ ControlFails
    /\ pc = "decide"
    /\ trainer_active
    /\ snapshot
    /\ pc' = "sleep"
    /\ trainer_active' = FALSE
    /\ UNCHANGED <<nodeVars, memory, fileVars, snapshot, probeVars, timeVars>>

\* update_roles fails, or is still to be executed when its two seconds are over.
DowngradeRefused ==
    /\ ControlFails
    /\ pc = "decide"
    /\ trainer_active
    /\ snapshot
    /\ late' \in {late, late \cup {"viewer"}}
    /\ pc' = "sleep"
    /\ UNCHANGED <<roles, window, error, unhandled, entitled, memory, fileVars,
                   snapshot, trainer_active, probeVars, timeVars>>

diskVars == <<nodeVars, memory, snapshot, trainer_active, probeVars, timeVars>>

\* persist_native_downgrade reads the file; fs::write then truncates it.
PersistOpen ==
    /\ pc = "persist"
    /\ IF torn
       THEN pc' = "recount" /\ UNCHANGED fileVars
       ELSE /\ draft' = Counted(record)
            /\ record' = 0
            /\ torn' = TRUE
            /\ pc' = "persisting"
    /\ UNCHANGED diskVars

PersistWrite ==
    /\ pc = "persisting"
    /\ record' = draft
    /\ torn' = FALSE
    /\ pc' = "recount"
    /\ UNCHANGED <<draft, diskVars>>

\* The result of persisting is ignored.
PersistFails ==
    /\ DiskFails
    /\ pc \in {"persist", "persisting"}
    /\ pc' = "recount"
    /\ UNCHANGED <<fileVars, diskVars>>

Downgraded ==
    /\ pc = "recount"
    /\ failure_count' = IF torn THEN Counted(failure_count) ELSE record
    /\ trainer_active' = FALSE
    /\ streak' = 0
    /\ probe_failures' = 0
    /\ timer' = Larger(Cooldown, Backoff(Larger(failure_count', 1)))
    /\ pc' = "sleep"
    /\ UNCHANGED <<nodeVars, memory, fileVars, snapshot, quiet, successes>>

-----------------------------------------------------------------------------
(* The monitor: probe and recover. *)

Due == pc = "decide" /\ ~trainer_active /\ timer = 0

\* Mutant: a failed probe leaves the streak as it was.
StreakSurvives ==
    /\ Due
    /\ ~memory
    /\ successes' = 0
    /\ probe_failures' = Counted(probe_failures)
    /\ timer' = Backoff(probe_failures')
    /\ pc' = "sleep"
    /\ UNCHANGED <<nodeVars, memory, fileVars, snapshot, trainer_active,
                   failure_count, streak, quiet>>

ProbeFails ==
    /\ Due
    /\ ~memory
    /\ streak' = 0
    /\ successes' = 0
    /\ probe_failures' = Counted(probe_failures)
    /\ timer' = Backoff(probe_failures')
    /\ pc' = "sleep"
    /\ UNCHANGED <<nodeVars, memory, fileVars, snapshot, trainer_active,
                   failure_count, quiet>>

\* Mutant: a successful probe that is not the last of its streak resets it.
StreakRestarts ==
    /\ Due
    /\ memory
    /\ successes' = Counted(successes)
    /\ IF streak + 1 >= RequiredSuccesses
       THEN /\ streak' = Counted(streak)
            /\ pc' = IF snapshot THEN "ack" ELSE "restore"
            /\ UNCHANGED <<probe_failures, timer>>
       ELSE /\ streak' = 0
            /\ pc' = "sleep"
            /\ probe_failures' = 0
            /\ timer' = Interval
    /\ UNCHANGED <<nodeVars, memory, fileVars, snapshot, trainer_active,
                   failure_count, quiet>>

ProbeSucceeds ==
    /\ Due
    /\ memory
    /\ streak' = Counted(streak)
    /\ successes' = Counted(successes)
    /\ IF streak + 1 >= RequiredSuccesses
       THEN /\ pc' = IF snapshot THEN "ack" ELSE "restore"
            /\ UNCHANGED <<probe_failures, timer>>
       ELSE /\ pc' = "sleep"
            /\ probe_failures' = 0
            /\ timer' = Interval
    /\ UNCHANGED <<nodeVars, memory, fileVars, snapshot, trainer_active,
                   failure_count, quiet>>

\* What an acknowledgement does to the node: it is told which error is meant.
Acknowledged ==
    /\ error' = IF error = "fit" THEN "none" ELSE error
    /\ unhandled' = FALSE

\* Role updates that were late have been executed before the answer comes.
Acknowledge ==
    /\ pc = "ack"
    /\ Acknowledged
    /\ roles' = IF "trainer" \in late THEN "trainer" ELSE roles
    /\ late' = {}
    /\ pc' = "restore"
    /\ UNCHANGED <<window, entitled, memory, fileVars, snapshot, trainer_active,
                   probeVars, timeVars>>

\* The monitor has waited and probed as long as it must, as it asks for the roles.
Entitled == quiet >= Cooldown /\ successes >= RequiredSuccesses

\* Mutant: the recovery is reported without the role update.
RecoverWithoutRoles ==
    /\ pc = "restore"
    /\ pc' = "clear"
    /\ UNCHANGED <<nodeVars, memory, fileVars, snapshot, trainer_active,
                   probeVars, timeVars>>

\* A late acknowledgement is executed before, and may find its error.
RestoreRoles ==
    /\ pc = "restore"
    /\ roles' = "trainer"
    /\ entitled' = Entitled
    /\ \/ UNCHANGED <<error, unhandled>>
       \/ "ack" \in late /\ Acknowledged
    /\ late' = {}
    /\ pc' = "clear"
    /\ UNCHANGED <<window, memory, fileVars, snapshot, trainer_active, probeVars,
                   timeVars>>

\* clear_native_downgrade: read, truncate, write.
ClearOpen ==
    /\ pc = "clear"
    /\ ~torn
    /\ draft' = 0
    /\ record' = 0
    /\ torn' = TRUE
    /\ pc' = "clearing"
    /\ UNCHANGED diskVars

Recovered ==
    /\ pc = "clearing"
    /\ record' = draft
    /\ torn' = FALSE
    /\ trainer_active' = TRUE
    /\ failure_count' = 0
    /\ probe_failures' = 0
    /\ streak' = 0
    /\ pc' = "sleep"
    /\ UNCHANGED <<nodeVars, memory, draft, snapshot, timeVars>>

\* The Err arm of the transition, which leaves what has been done so far.
TransitionErr ==
    /\ probe_failures' = Counted(probe_failures)
    /\ timer' = Backoff(probe_failures')
    /\ pc' = "sleep"
    /\ UNCHANGED <<roles, window, error, unhandled, memory, fileVars, snapshot,
                   trainer_active, failure_count, streak, quiet, successes>>

\* A call of the transition fails, or is still to be executed when it times out.
TransitionRefused ==
    /\ ControlFails
    /\ \/ /\ pc = "ack"
          /\ late' \in {late, late \cup {"ack"}}
          /\ UNCHANGED entitled
       \/ /\ pc = "restore"
          /\ late' \in {late, late \cup {"trainer"}}
          /\ entitled' = Entitled
    /\ TransitionErr

ClearFails ==
    /\ \/ pc = "clear" /\ torn
       \/ DiskFails /\ pc \in {"clear", "clearing"}
    /\ TransitionErr
    /\ UNCHANGED <<late, entitled>>

-----------------------------------------------------------------------------
(* The node executes calls whose caller has stopped waiting.  More calls of  *)
(* the kind may be behind the one executed.                                  *)

LateViewer ==
    /\ "viewer" \in late
    /\ late' \in {late, late \ {"viewer"}}
    /\ BecomeViewer
    /\ UNCHANGED <<memory, fileVars, pc, snapshot, trainer_active, probeVars>>

LateTrainer ==
    /\ "trainer" \in late
    /\ late' \in {late, late \ {"trainer"}}
    /\ roles' = "trainer"
    /\ UNCHANGED <<window, error, unhandled, entitled, monitorVars>>

\* The error may be another one by then, which stays.
LateAcknowledge ==
    /\ "ack" \in late
    /\ late' \in {late, late \ {"ack"}}
    /\ \/ UNCHANGED <<error, unhandled>>
       \/ Acknowledged
    /\ UNCHANGED <<roles, window, entitled, monitorVars>>

-----------------------------------------------------------------------------
MonitorStep ==
    \/ Snapshot \/ Idle
    \/ DowngradeRoles \/ DowngradeRefused
    \/ PersistOpen \/ PersistWrite \/ PersistFails \/ Downgraded
    \/ ProbeFails \/ ProbeSucceeds
    \/ Acknowledge \/ RestoreRoles \/ ClearOpen \/ Recovered
    \/ TransitionRefused \/ ClearFails

Environment ==
    \/ StartWindow \/ EndWindow \/ WindowFails \/ OtherError \/ MemoryChanges
    \/ LateViewer \/ LateTrainer \/ LateAcknowledge

Next ==
    \/ MonitorStep \/ Tick \/ Environment
    \/ Crash \/ Restart \/ OperatorClear \/ OperatorMark

Spec == Init /\ [][Next]_vars

(***************************************************************************)
(* The monitor thread runs and time passes.  A control call that is made   *)
(* again and again is answered in time at some point.  Nothing is promised *)
(* of the training windows, the memory, the operator or the process.       *)
(***************************************************************************)
Fairness ==
    /\ WF_vars(MonitorStep)
    /\ WF_vars(Tick)
    /\ SF_vars(DowngradeRoles)
    /\ SF_vars(Acknowledge)
    /\ SF_vars(RestoreRoles)

FairSpec == Spec /\ Fairness

-----------------------------------------------------------------------------
(* Properties. *)

Counts == 0 .. MaxCount

\* Types and ranges.
TypeOK ==
    /\ roles \in {"trainer", "viewer"}
    /\ window \in BOOLEAN
    /\ error \in {"none", "fit", "other"}
    /\ late \in SUBSET {"viewer", "trainer", "ack"}
    /\ unhandled \in BOOLEAN
    /\ entitled \in BOOLEAN
    /\ memory \in BOOLEAN
    /\ record \in Counts
    /\ torn \in BOOLEAN
    /\ pc \in MonitorPc
    /\ draft \in Counts
    /\ snapshot \in BOOLEAN
    /\ trainer_active \in BOOLEAN
    /\ failure_count \in Counts
    /\ probe_failures \in Counts
    /\ streak \in Counts
    /\ successes \in Counts
    /\ timer \in 0 .. Larger(Cooldown, MaxInterval)
    /\ quiet \in 0 .. Cooldown

\* Between two polls a process that died now would come back as it is: the record
\* is on disk exactly while the monitor holds the peer back (with a disk that
\* works; between the two calls of a transition a crash does lose it).
DiskAgrees == pc = "sleep" => ~torn /\ (trainer_active <=> record = 0)

\* A monitor that takes a read-only node for a trainer still has the fit error in
\* front of it, and will downgrade it properly; no role change is left half done
\* in that direction. The exception is an error that another one has replaced on the
\* node before the monitor got to see it.
NeverStrandedReadOnly ==
    pc # "off" /\ trainer_active /\ roles = "viewer" =>
        error # "none" \/ pc \in {"persist", "persisting", "recount"}

\* Trainer roles come back to a running node only because the monitor, since the
\* node became read-only, asked for them after the cooldown and an unbroken streak of
\* successful probes. An update that is executed late may do so after a probe that
\* failed since, and never after the next downgrade.
Hysteresis ==
    [][pc # "off" /\ roles = "viewer" /\ roles' = "trainer" => entitled']_vars

\* A fit failure of a trainer that the monitor watches takes the trainer roles away,
\* unless another error replaces it first.
FailureDowngrades ==
    (pc # "off" /\ trainer_active /\ error = "fit") ~>
        (roles = "viewer" \/ pc = "off" \/ error = "other")

\* When the host keeps enough memory, a downgraded peer trains again.
RecoversWithMemory ==
    <>[]memory => ((pc = "sleep" /\ ~trainer_active) ~>
                       (pc = "off" \/ (trainer_active /\ roles = "trainer")))

\* "acknowledges the handled runtime error" (docs/p2p-production-readiness.md): the
\* error that is acknowledged has made the node read-only before.
AcknowledgesHandledError == [][pc = "ack" /\ pc' = "restore" => ~unhandled]_vars

\* "native peers can also clear it explicitly" (burn_dragon_p2p/README.md): the
\* file of a peer that is down can be read, which clear-downgrade, and the next
\* startup, both do first.
OperatorCanClear == pc = "off" => ~torn
=============================================================================
