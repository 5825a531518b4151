----------------------- MODULE CapabilityMonitorProofs -----------------------
(***************************************************************************)
(* Theorems about CapabilityMonitor, for every cooldown, interval, number  *)
(* of required successes and bound on the counts, and wherever calls into  *)
(* the node or writes of the file fail, or the calls take effect late.     *)
(***************************************************************************)
EXTENDS CapabilityMonitor, TLAPS

Downgrading == {"persist", "persisting", "recount"}
Recovering == {"ack", "restore", "clear", "clearing"}

\* In the middle of a transition trainer_active still has its old value.
Phases ==
    /\ pc \in Downgrading => trainer_active
    /\ pc \in Recovering => ~trainer_active

\* What is left of the cooldown is on the timer, the streak counts no more than
\* the probes that succeeded, and a recovery begins when both are complete.
Patience ==
    /\ pc # "off" /\ ~trainer_active =>
          timer + quiet >= Cooldown /\ streak <= successes
    /\ pc \in Recovering =>
          quiet >= Cooldown /\ successes >= RequiredSuccesses

\* No call of one transition is late in the next: an answer has let it be executed.
Queued ==
    /\ pc \in Downgrading \cup {"clear", "clearing"} => late = {}
    /\ "viewer" \in late => trainer_active /\ error # "none"
    /\ "trainer" \in late \/ "ack" \in late => ~trainer_active

\* A fit error the monitor has seen is still there when it acts on it, and the
\* roles are back before the record is cleared.
Sighted ==
    /\ pc = "decide" /\ trainer_active /\ snapshot => error # "none"
    /\ pc \in {"clear", "clearing"} => roles = "trainer"
    /\ NeverStrandedReadOnly
    /\ Queued

\* An update that is late was asked for in due form.
LateIsDue == "trainer" \in late => entitled

\* The file between two polls and inside a transition, on a disk that works.
FileFollows ==
    /\ pc \notin {"off", "persisting", "clearing"} => ~torn
    /\ pc \in {"sleep", "decide"} => (trainer_active <=> record = 0)
    /\ pc = "persisting" => draft > 0
    /\ pc = "recount" => record > 0
    /\ pc \in {"ack", "restore", "clear"} => record > 0
    /\ pc = "clearing" => draft = 0

-----------------------------------------------------------------------------
(* The arithmetic of the counts and the backoff. *)

\* A count goes up by one until it reaches its bound.
LEMMA CountedType ==
    ASSUME NEW n \in Counts
    PROVE  /\ Counted(n) \in Counts
           /\ Counted(n) > 0
           /\ Counted(n) = n + 1 \/ Counted(n) = MaxCount
BY PolicyAssumption DEF Counts, Counted, Smaller

\* A backoff never exceeds its maximum.
LEMMA BackoffType ==
    ASSUME NEW n \in Nat
    PROVE  Backoff(n) \in 0 .. MaxInterval
<1> DEFINE exponent == Smaller(IF n = 0 THEN 0 ELSE n - 1, 20)
<1>1. exponent \in 0 .. 20
  BY DEF Smaller
<1>2. 2 ^ exponent \in Nat
  BY <1>1, PowerAssumption
<1>3. Interval * 2 ^ exponent \in Nat
  BY <1>2, PolicyAssumption
<1>4. Backoff(n) = Smaller(Interval * 2 ^ exponent, MaxInterval)
  BY DEF Backoff
<1> HIDE DEF exponent
<1>5. QED
  BY <1>3, <1>4, PolicyAssumption DEF Smaller

-----------------------------------------------------------------------------
(* Type correctness. *)

LEMMA TypeInit == Init => TypeOK
<1>1. /\ 0 \in Counts
      /\ 0 \in 0 .. Cooldown
      /\ 0 \in 0 .. Larger(Cooldown, MaxInterval)
  BY PolicyAssumption DEF Counts, Larger
<1>2. QED
  BY <1>1 DEF Init, TypeOK, MonitorPc

\* Starting up, with whatever record the file holds.
LEMMA StartType ==
    ASSUME TypeOK, NEW initial \in {"trainer", "viewer"}, StartAs(initial),
           UNCHANGED <<memory, fileVars>>
    PROVE  TypeOK'
<1>1. {0, Cooldown} \subseteq 0 .. Larger(Cooldown, MaxInterval)
  BY PolicyAssumption DEF Larger
<1>2. 0 \in Counts /\ 0 \in 0 .. Cooldown
  BY PolicyAssumption DEF Counts
<1>3. QED
  BY <1>1, <1>2 DEF TypeOK, StartAs, fileVars, MonitorPc

\* Every step keeps the types.
LEMMA TypeStep == TypeOK /\ [Next]_vars => TypeOK'
<1> SUFFICES ASSUME TypeOK, [Next]_vars
             PROVE  TypeOK'
  OBVIOUS
<1> DEFINE Timers == 0 .. Larger(Cooldown, MaxInterval)
<1>1. /\ 0 \in Counts
      /\ 0 \in 0 .. Cooldown
      /\ 0 \in Timers
      /\ Interval \in Timers
      /\ Counts \subseteq Nat
  BY PolicyAssumption DEF Counts, Larger
<1>2. \A n \in Counts : Counted(n) \in Counts
  BY CountedType
<1>3. \A n \in Nat : Backoff(n) \in Timers /\ Larger(Cooldown, Backoff(n)) \in Timers
  BY BackoffType, PolicyAssumption DEF Larger
<1>4. \A n \in Counts : Larger(n, 1) \in Nat
  BY <1>1 DEF Larger
<1> HIDE DEF Timers
<1>5. CASE Restart
  BY <1>5, StartType DEF Restart
<1>6. CASE Crash \/ OperatorClear
  BY <1>1, <1>6 DEF Crash, OperatorClear, TypeOK, MonitorPc, fileVars, probeVars,
                    timeVars, nodeVars
<1>7. CASE OperatorMark
  BY <1>2, <1>7 DEF OperatorMark, TypeOK, probeVars, timeVars, nodeVars
<1>8. CASE StartWindow \/ EndWindow \/ WindowFails \/ OtherError \/ MemoryChanges
           \/ LateTrainer \/ LateAcknowledge
  <2>1. /\ error' \in {"none", "fit", "other"}
        /\ late' \in SUBSET {"viewer", "trainer", "ack"}
    BY <1>8 DEF StartWindow, EndWindow, WindowFails, OtherError, MemoryChanges,
                LateTrainer, LateAcknowledge, Acknowledged, TypeOK, nodeVars
  <2>2. unhandled' \in BOOLEAN
    BY <1>8 DEF StartWindow, EndWindow, WindowFails, OtherError, MemoryChanges,
                LateTrainer, LateAcknowledge, Acknowledged, TypeOK, nodeVars
  <2>3. QED
    BY <1>8, <2>1, <2>2
       DEF StartWindow, EndWindow, WindowFails, OtherError, MemoryChanges, LateTrainer,
           LateAcknowledge, TypeOK, monitorVars, nodeVars, fileVars, probeVars, timeVars
<1>9. CASE Tick
  <2>1. timer' \in Timers /\ quiet' \in 0 .. Cooldown
    BY <1>9, PolicyAssumption DEF Tick, TypeOK, Smaller, Larger, Timers
  <2>2. QED
    BY <1>9, <2>1 DEF Tick, TypeOK, Timers, nodeVars, fileVars, probeVars
<1>10. CASE Snapshot \/ Idle
  BY <1>10 DEF Snapshot, Idle, TypeOK, MonitorPc, nodeVars, fileVars, probeVars, timeVars
<1>11. CASE DowngradeRoles \/ DowngradeRefused \/ LateViewer
  <2>1. late' \in SUBSET {"viewer", "trainer", "ack"}
    BY <1>11 DEF DowngradeRoles, DowngradeRefused, LateViewer, TypeOK
  <2>2. QED
    BY <1>1, <1>11, <2>1 DEF DowngradeRoles, DowngradeRefused, LateViewer, BecomeViewer,
                             TypeOK, MonitorPc, nodeVars, fileVars, probeVars, timeVars
<1>12. CASE PersistOpen
  BY <1>1, <1>2, <1>12 DEF PersistOpen, TypeOK, MonitorPc, diskVars,
                           nodeVars, fileVars, probeVars, timeVars
<1>13. CASE PersistWrite \/ PersistFails
  BY <1>13 DEF PersistWrite, PersistFails, TypeOK, MonitorPc, diskVars,
               nodeVars, fileVars, probeVars, timeVars
<1>14. CASE Downgraded
  <2>1. failure_count' \in Counts
    BY <1>2, <1>14 DEF Downgraded, TypeOK
  <2>2. timer' \in Timers
    BY <1>3, <1>4, <1>14, <2>1 DEF Downgraded
  <2>3. QED
    BY <1>1, <1>14, <2>1, <2>2 DEF Downgraded, TypeOK, MonitorPc, Timers, nodeVars, fileVars
<1>15. CASE ProbeFails
  <2>1. probe_failures' \in Counts /\ timer' \in Timers
    BY <1>1, <1>2, <1>3, <1>15 DEF ProbeFails, TypeOK
  <2>2. QED
    BY <1>1, <1>15, <2>1 DEF ProbeFails, TypeOK, MonitorPc, Timers, nodeVars, fileVars
<1>16. CASE ProbeSucceeds
  <2>1. streak' \in Counts /\ successes' \in Counts
    BY <1>2, <1>16 DEF ProbeSucceeds, TypeOK
  <2>2. /\ pc' \in MonitorPc
        /\ probe_failures' \in Counts
        /\ timer' \in Timers
    BY <1>1, <1>16 DEF ProbeSucceeds, TypeOK, MonitorPc, Timers
  <2>3. QED
    BY <1>16, <2>1, <2>2 DEF ProbeSucceeds, TypeOK, Timers, nodeVars, fileVars
<1>17. CASE Acknowledge \/ RestoreRoles
  BY <1>17 DEF Acknowledge, Acknowledged, RestoreRoles, Entitled, TypeOK, MonitorPc,
               fileVars, probeVars, timeVars
<1>18. CASE ClearOpen \/ Recovered
  BY <1>1, <1>18 DEF ClearOpen, Recovered, TypeOK, MonitorPc, diskVars,
                     nodeVars, fileVars, probeVars, timeVars
<1>19. CASE TransitionRefused \/ ClearFails
  <2>1. probe_failures' \in Counts /\ timer' \in Timers
    BY <1>1, <1>2, <1>3, <1>19 DEF TransitionRefused, ClearFails, TransitionErr, TypeOK
  <2>2. late' \in SUBSET {"viewer", "trainer", "ack"} /\ entitled' \in BOOLEAN
    BY <1>19 DEF TransitionRefused, ClearFails, Entitled, TypeOK
  <2>3. QED
    BY <1>19, <2>1, <2>2 DEF TransitionRefused, ClearFails, TransitionErr, TypeOK,
                             MonitorPc, Timers, fileVars
<1>20. CASE UNCHANGED vars
  BY <1>20 DEF vars, TypeOK, nodeVars, fileVars, probeVars, timeVars
<1>21. QED
  BY <1>5, <1>6, <1>7, <1>8, <1>9, <1>10, <1>11, <1>12, <1>13, <1>14, <1>15, <1>16,
     <1>17, <1>18, <1>19, <1>20 DEF Next, MonitorStep, Environment

\* The variables keep their types, for every policy; the counts and the time to
\* the next probe stay within their bounds.
THEOREM TypeCorrect == Spec => []TypeOK
BY TypeInit, TypeStep, PTL DEF Spec

-----------------------------------------------------------------------------
(* Where the monitor stands in a transition. *)

LEMMA PhasesInit == Init => Phases
BY DEF Init, Phases, Downgrading, Recovering

LEMMA PhasesStep == TypeOK /\ Phases /\ [Next]_vars => Phases'
<1> SUFFICES ASSUME TypeOK, Phases, [Next]_vars
             PROVE  Phases'
  OBVIOUS
<1> USE DEF Phases, Downgrading, Recovering
<1>1. CASE Restart \/ Crash \/ OperatorClear \/ OperatorMark
  BY <1>1 DEF Restart, StartAs, Crash, OperatorClear, OperatorMark
<1>2. CASE Environment \/ Tick \/ UNCHANGED vars
  BY <1>2 DEF Environment, StartWindow, EndWindow, WindowFails, OtherError,
              MemoryChanges, Tick, LateViewer, LateTrainer, LateAcknowledge, Acknowledged,
              monitorVars, vars
<1>3. CASE Snapshot \/ Idle
  BY <1>3 DEF Snapshot, Idle
<1>4. CASE DowngradeRoles \/ DowngradeRefused
  BY <1>4 DEF DowngradeRoles, DowngradeRefused
<1>5. CASE PersistOpen \/ PersistWrite \/ PersistFails
  BY <1>5 DEF PersistOpen, PersistWrite, PersistFails, diskVars
<1>6. CASE Downgraded \/ ProbeFails \/ ProbeSucceeds
  BY <1>6 DEF Downgraded, ProbeFails, ProbeSucceeds, Due
<1>7. CASE Acknowledge \/ RestoreRoles \/ TransitionRefused \/ ClearFails
  BY <1>7 DEF Acknowledge, Acknowledged, RestoreRoles, TransitionRefused, ClearFails,
              TransitionErr
<1>8. CASE ClearOpen \/ Recovered
  BY <1>8 DEF ClearOpen, Recovered, diskVars
<1>9. QED
  BY <1>1, <1>2, <1>3, <1>4, <1>5, <1>6, <1>7, <1>8 DEF Next, MonitorStep

-----------------------------------------------------------------------------
(* The monitor never believes in a trainer that is read-only. *)

LEMMA SightedInit == Init => Sighted
BY DEF Init, Sighted, NeverStrandedReadOnly, Queued, Downgrading

LEMMA SightedStep == TypeOK /\ Phases /\ Sighted /\ [Next]_vars => Sighted'
<1> SUFFICES ASSUME TypeOK, Phases, Sighted, [Next]_vars
             PROVE  Sighted'
  OBVIOUS
<1> USE DEF Sighted, NeverStrandedReadOnly, Queued, Phases, Downgrading, Recovering
<1>1. CASE Restart \/ Crash \/ OperatorClear \/ OperatorMark
  <2>1. CASE Restart
    <3>1. pc' = "sleep" /\ late' = {}
      BY <2>1 DEF Restart, StartAs
    <3>2. roles' = "viewer" => ~trainer_active'
      BY <2>1 DEF Restart, StartAs
    <3>3. QED
      BY <3>1, <3>2
  <2>2. CASE Crash \/ OperatorClear \/ OperatorMark
    BY <2>2 DEF Crash, OperatorClear, OperatorMark, nodeVars
  <2>3. QED
    BY <1>1, <2>1, <2>2
<1>2. CASE Environment \/ Tick \/ UNCHANGED vars
  <2>1. CASE LateViewer \/ LateTrainer \/ LateAcknowledge
    BY <2>1 DEF LateViewer, LateTrainer, LateAcknowledge, Acknowledged, BecomeViewer,
                TypeOK, monitorVars
  <2>2. CASE StartWindow \/ EndWindow \/ WindowFails \/ OtherError \/ MemoryChanges \/ Tick
             \/ UNCHANGED vars
    BY <2>2 DEF StartWindow, EndWindow, WindowFails, OtherError, MemoryChanges, Tick,
                monitorVars, nodeVars, vars
  <2>3. QED
    BY <1>2, <2>1, <2>2 DEF Environment
<1>3. CASE Snapshot \/ Idle
  <2>1. CASE Snapshot
    <3>1. snapshot' => error' # "none"
      BY <2>1 DEF Snapshot, nodeVars
    <3>2. QED
      BY <2>1, <3>1 DEF Snapshot, nodeVars
  <2>2. CASE Idle
    BY <2>2 DEF Idle, nodeVars
  <2>3. QED
    BY <1>3, <2>1, <2>2
<1>4. CASE DowngradeRoles \/ DowngradeRefused
  BY <1>4 DEF DowngradeRoles, DowngradeRefused, BecomeViewer, nodeVars
<1>5. CASE PersistOpen \/ PersistWrite \/ PersistFails
  BY <1>5 DEF PersistOpen, PersistWrite, PersistFails, diskVars, nodeVars
<1>6. CASE Downgraded \/ ProbeFails \/ ProbeSucceeds
  BY <1>6 DEF Downgraded, ProbeFails, ProbeSucceeds, Due, nodeVars
<1>7. CASE Acknowledge \/ RestoreRoles \/ TransitionRefused \/ ClearFails
  BY <1>7 DEF Acknowledge, Acknowledged, RestoreRoles, TransitionRefused, ClearFails,
              TransitionErr
<1>8. CASE ClearOpen \/ Recovered
  BY <1>8 DEF ClearOpen, Recovered, diskVars, nodeVars
<1>9. QED
  BY <1>1, <1>2, <1>3, <1>4, <1>5, <1>6, <1>7, <1>8 DEF Next, MonitorStep

\* While the monitor takes the node for a trainer and the node is read-only, the
\* error that made it so is still there to be handled, or another took its place: a role
\* update that timed out, a failed write or a restart strands no peer.
THEOREM NobodyStranded == Spec => []NeverStrandedReadOnly
<1>1. Init => TypeOK /\ Phases /\ Sighted
  BY TypeInit, PhasesInit, SightedInit
<1>2. TypeOK /\ Phases /\ Sighted /\ [Next]_vars => (TypeOK /\ Phases /\ Sighted)'
  BY TypeStep, PhasesStep, SightedStep
<1>3. Sighted => NeverStrandedReadOnly
  BY DEF Sighted
<1>4. QED
  BY <1>1, <1>2, <1>3, PTL DEF Spec

-----------------------------------------------------------------------------
(* Hysteresis. *)

LEMMA PatienceInit == Init => Patience
BY DEF Init, Patience, Recovering

\* A probe that completes the streak finds the cooldown over.
LEMMA StreakComplete ==
    ASSUME TypeOK, Phases, Patience, ProbeSucceeds
    PROVE  Patience'
<1> USE DEF Recovering
<1>1. /\ timer = 0
      /\ ~trainer_active
      /\ pc = "decide"
      /\ timer + quiet >= Cooldown
      /\ streak <= successes
  BY DEF ProbeSucceeds, Due, Patience
<1>2. /\ timer \in Nat /\ quiet \in Nat
      /\ streak \in Nat /\ successes \in Nat
      /\ streak <= MaxCount /\ successes <= MaxCount
      /\ Cooldown \in Nat /\ Interval \in Nat
      /\ RequiredSuccesses \in Nat
      /\ MaxCount \in Nat /\ MaxCount >= RequiredSuccesses
  BY PolicyAssumption DEF TypeOK, Counts
<1>3. quiet >= Cooldown
  BY <1>1, <1>2
<1>4. /\ streak' = Counted(streak)
      /\ successes' = Counted(successes)
      /\ quiet' = quiet
      /\ timer' = timer \/ timer' = Interval
  BY DEF ProbeSucceeds
<1>5. /\ streak' <= successes'
      /\ streak + 1 >= RequiredSuccesses => successes' >= RequiredSuccesses
  BY <1>1, <1>2, <1>4 DEF Counted, Smaller
<1>6. timer' + quiet' >= Cooldown
  <2>1. timer' \in Nat
    BY <1>2, <1>4, PolicyAssumption
  <2>2. quiet' \in Nat /\ quiet' >= Cooldown
    BY <1>2, <1>3, <1>4
  <2>3. \A t, q, c \in Nat : q >= c => t + q >= c
    OBVIOUS
  <2>4. QED
    BY <1>2, <2>1, <2>2, <2>3
<1>7. pc' \in Recovering => streak + 1 >= RequiredSuccesses
  BY DEF ProbeSucceeds
<1>8. QED
  BY <1>3, <1>4, <1>5, <1>6, <1>7 DEF Patience

LEMMA PatienceStep ==
    TypeOK /\ Phases /\ Sighted /\ Patience /\ [Next]_vars => Patience'
<1> SUFFICES ASSUME TypeOK, Phases, Sighted, Patience, [Next]_vars
             PROVE  Patience'
  OBVIOUS
<1>1. /\ timer \in Nat /\ quiet \in 0 .. Cooldown
      /\ streak \in Nat /\ successes \in Nat
      /\ Cooldown \in Nat
  BY PolicyAssumption DEF TypeOK, Counts, Larger
<1>2. \A n \in Nat : Backoff(n) \in Nat
  BY BackoffType
<1>3. probe_failures' \in Nat /\ failure_count' \in Nat
  BY TypeStep, PolicyAssumption DEF TypeOK, Counts
<1>4. CASE Restart
  <2>1. CASE record > 0
    <3>1. timer' = Cooldown /\ quiet' = 0 /\ streak' = 0 /\ successes' = 0
      BY <1>4, <2>1 DEF Restart, StartAs
    <3>2. timer' + quiet' >= Cooldown /\ streak' <= successes'
      BY <1>1, <3>1
    <3>3. QED
      BY <1>4, <3>2 DEF Restart, StartAs, Patience, Recovering
  <2>2. CASE ~(record > 0)
    BY <1>4, <2>2 DEF Restart, StartAs, Patience, Recovering
  <2>3. QED
    BY <2>1, <2>2
<1>5. CASE Crash \/ OperatorClear \/ OperatorMark
  BY <1>5 DEF Crash, OperatorClear, OperatorMark, Patience, Recovering
<1>6. CASE Environment \/ UNCHANGED vars
  <2>1. CASE LateViewer
    BY <2>1 DEF LateViewer, Sighted, Queued, Phases, Patience, Recovering
  <2>2. CASE LateTrainer \/ LateAcknowledge
    BY <2>2 DEF LateTrainer, LateAcknowledge, Acknowledged, monitorVars, probeVars,
                timeVars, Patience, Recovering
  <2>3. CASE StartWindow \/ EndWindow \/ WindowFails \/ OtherError \/ MemoryChanges
             \/ UNCHANGED vars
    BY <2>3 DEF StartWindow, EndWindow, WindowFails, OtherError, MemoryChanges,
                monitorVars, probeVars, timeVars, vars, Patience, Recovering
  <2>4. QED
    BY <1>6, <2>1, <2>2, <2>3 DEF Environment
<1>7. CASE Tick
  <2>1. timer' + quiet' >= timer + quiet \/ quiet' = Cooldown
    BY <1>1, <1>7 DEF Tick, Smaller
  <2>2. quiet' >= quiet /\ timer' \in Nat /\ quiet' \in Nat
    BY <1>1, <1>7 DEF Tick, Smaller
  <2>3. QED
    BY <1>1, <1>7, <2>1, <2>2 DEF Tick, Patience, Recovering, probeVars
<1>8. CASE Snapshot \/ Idle
  BY <1>8 DEF Snapshot, Idle, Patience, Recovering, probeVars, timeVars
<1>9. CASE DowngradeRoles \/ DowngradeRefused
  BY <1>9 DEF DowngradeRoles, DowngradeRefused, Patience, Recovering
<1>10. CASE PersistOpen \/ PersistWrite \/ PersistFails
  BY <1>10 DEF PersistOpen, PersistWrite, PersistFails, diskVars, Patience, Recovering,
               Phases, Downgrading, probeVars, timeVars
<1>11. CASE Downgraded
  <2>1. Larger(failure_count', 1) \in Nat
    BY <1>3 DEF Larger
  <2>2. timer' >= Cooldown /\ timer' \in Nat
    BY <1>1, <1>2, <1>11, <2>1 DEF Downgraded, Larger
  <2>3. QED
    BY <1>1, <1>11, <2>2 DEF Downgraded, Patience, Recovering
<1>12. CASE ProbeFails
  <2>1. timer' \in Nat
    BY <1>2, <1>3, <1>12 DEF ProbeFails
  <2>2. quiet >= Cooldown
    BY <1>1, <1>12 DEF ProbeFails, Due, Patience
  <2>3. QED
    BY <1>1, <1>12, <2>1, <2>2 DEF ProbeFails, Patience, Recovering
<1>13. CASE ProbeSucceeds
  BY <1>13, StreakComplete
<1>14. CASE Acknowledge \/ RestoreRoles
  BY <1>14 DEF Acknowledge, Acknowledged, RestoreRoles, Patience, Recovering, probeVars,
               timeVars
<1>15. CASE ClearOpen \/ Recovered
  BY <1>15 DEF ClearOpen, Recovered, diskVars, Patience, Recovering, probeVars, timeVars
<1>16. CASE TransitionRefused \/ ClearFails
  <2> USE DEF TransitionRefused, ClearFails, TransitionErr
  <2>1. timer' \in Nat
    BY <1>2, <1>3, <1>16
  <2>2. quiet >= Cooldown /\ streak <= successes
    BY <1>16 DEF Patience, Phases, Recovering
  <2>3. QED
    BY <1>1, <1>16, <2>1, <2>2 DEF Patience, Recovering
<1>17. QED
  BY <1>4, <1>5, <1>6, <1>7, <1>8, <1>9, <1>10, <1>11, <1>12, <1>13, <1>14, <1>15, <1>16
     DEF Next, MonitorStep

LEMMA DueInit == Init => LateIsDue
BY DEF Init, LateIsDue

\* The monitor asks in due form, and a downgrade leaves no request behind.
LEMMA DueStep ==
    TypeOK /\ Phases /\ Sighted /\ Patience /\ LateIsDue /\ [Next]_vars => LateIsDue'
<1> SUFFICES ASSUME TypeOK, Phases, Sighted, Patience, LateIsDue, [Next]_vars
             PROVE  LateIsDue'
  OBVIOUS
<1> USE DEF LateIsDue
<1>1. CASE Restart \/ Crash \/ OperatorClear \/ OperatorMark
  BY <1>1 DEF Restart, StartAs, Crash, OperatorClear, OperatorMark, nodeVars
<1>2. CASE LateViewer
  BY <1>2 DEF LateViewer, Sighted, Queued
<1>3. CASE LateTrainer \/ LateAcknowledge
  BY <1>3 DEF LateTrainer, LateAcknowledge, Acknowledged
<1>4. CASE StartWindow \/ EndWindow \/ WindowFails \/ OtherError \/ MemoryChanges \/ Tick
           \/ UNCHANGED vars
  BY <1>4 DEF StartWindow, EndWindow, WindowFails, OtherError, MemoryChanges, Tick,
              nodeVars, vars
<1>5. CASE DowngradeRoles \/ DowngradeRefused
  BY <1>5 DEF DowngradeRoles, DowngradeRefused
<1>6. CASE Snapshot \/ Idle \/ Downgraded \/ ProbeFails \/ ProbeSucceeds
  BY <1>6 DEF Snapshot, Idle, Downgraded, ProbeFails, ProbeSucceeds, nodeVars
<1>7. CASE PersistOpen \/ PersistWrite \/ PersistFails \/ ClearOpen \/ Recovered
  BY <1>7 DEF PersistOpen, PersistWrite, PersistFails, ClearOpen, Recovered, diskVars,
              nodeVars
<1>8. CASE Acknowledge \/ RestoreRoles
  BY <1>8 DEF Acknowledge, Acknowledged, RestoreRoles
<1>9. CASE TransitionRefused \/ ClearFails
  <2>1. pc \in Recovering => Entitled
    BY DEF Entitled, Patience
  <2>2. CASE TransitionRefused
    <3>1. CASE pc = "ack"
      BY <2>2, <3>1 DEF TransitionRefused
    <3>2. CASE pc = "restore"
      <4>1. entitled' = Entitled
        BY <2>2, <3>2 DEF TransitionRefused
      <4>2. QED
        BY <2>1, <3>2, <4>1 DEF Recovering
    <3>3. QED
      BY <2>2, <3>1, <3>2 DEF TransitionRefused
  <2>3. CASE ClearFails
    BY <2>3 DEF ClearFails
  <2>4. QED
    BY <1>9, <2>2, <2>3
<1>10. QED
  BY <1>1, <1>2, <1>3, <1>4, <1>5, <1>6, <1>7, <1>8, <1>9
     DEF Next, MonitorStep, Environment

\* Only a call of the monitor, at once or late, gives a running node its trainer roles
\* back.
LEMMA RolesComeBack ==
    ASSUME TypeOK, Phases, Patience, LateIsDue, [Next]_vars,
           pc # "off", roles = "viewer", roles' = "trainer"
    PROVE  entitled'
<1>1. CASE RestoreRoles
  BY <1>1 DEF RestoreRoles, Acknowledged, Entitled, Patience, Recovering
<1>2. CASE Acknowledge
  BY <1>2 DEF Acknowledge, Acknowledged, LateIsDue
<1>3. CASE LateTrainer
  BY <1>3 DEF LateTrainer, LateIsDue
<1>4. CASE Restart \/ Crash \/ OperatorClear \/ OperatorMark \/ Tick \/ UNCHANGED vars
  BY <1>4 DEF Restart, Crash, OperatorClear, OperatorMark, Tick, nodeVars, vars
<1>5. CASE StartWindow \/ EndWindow \/ WindowFails \/ OtherError \/ MemoryChanges
           \/ LateViewer \/ LateAcknowledge
  BY <1>5 DEF StartWindow, EndWindow, WindowFails, OtherError, MemoryChanges, LateViewer,
              BecomeViewer, LateAcknowledge, Acknowledged, nodeVars
<1>6. CASE Snapshot \/ Idle \/ DowngradeRoles \/ DowngradeRefused \/ Downgraded
           \/ ProbeFails \/ ProbeSucceeds
  BY <1>6 DEF Snapshot, Idle, DowngradeRoles, DowngradeRefused, BecomeViewer,
              Downgraded, ProbeFails, ProbeSucceeds, nodeVars
<1>7. CASE PersistOpen \/ PersistWrite \/ PersistFails \/ ClearOpen \/ Recovered
           \/ TransitionRefused \/ ClearFails
  BY <1>7 DEF PersistOpen, PersistWrite, PersistFails, ClearOpen, Recovered, diskVars,
              TransitionRefused, ClearFails, TransitionErr, nodeVars
<1>8. QED
  BY <1>1, <1>2, <1>3, <1>4, <1>5, <1>6, <1>7 DEF Next, MonitorStep, Environment

\* A running peer that was taken off training is given its trainer roles back only by a
\* request that the monitor made, since then, after the cooldown and enough successful
\* probes in a row, whichever calls fail, and whichever take effect late.
THEOREM RecoveryIsPatient == Spec => Hysteresis
<1> DEFINE Inv == TypeOK /\ Phases /\ Sighted /\ Patience /\ LateIsDue
<1>1. Init => Inv
  BY TypeInit, PhasesInit, SightedInit, PatienceInit, DueInit
<1>2. Inv /\ [Next]_vars => Inv'
  BY TypeStep, PhasesStep, SightedStep, PatienceStep, DueStep
<1>3. Inv /\ [Next]_vars =>
          [pc # "off" /\ roles = "viewer" /\ roles' = "trainer" => entitled']_vars
  BY RolesComeBack
<1> HIDE DEF Inv
<1>4. QED
  BY <1>1, <1>2, <1>3, PTL DEF Spec, Hysteresis

-----------------------------------------------------------------------------
(* The file. *)

LEMMA FileInit == Init => FileFollows
BY DEF Init, FileFollows

\* Reading, truncating and writing the file, on a disk that works.
LEMMA FileStep ==
    ASSUME ~DiskFails
    PROVE  TypeOK /\ Phases /\ FileFollows /\ [Next]_vars => FileFollows'
<1> SUFFICES ASSUME TypeOK, Phases, FileFollows, [Next]_vars
             PROVE  FileFollows'
  OBVIOUS
<1>1. record \in Nat /\ Counted(record) > 0
  BY CountedType, PolicyAssumption DEF TypeOK, Counts
<1> USE DEF FileFollows
<1>2. CASE Restart
  <2>1. CASE record > 0
    <3>1. trainer_active' = FALSE
      BY <1>2, <2>1 DEF Restart, StartAs
    <3>2. QED
      BY <1>1, <1>2, <2>1, <3>1 DEF Restart, StartAs, fileVars
  <2>2. CASE ~(record > 0)
    <3>1. trainer_active' = TRUE
      BY <1>2, <2>2 DEF Restart, StartAs
    <3>2. record = 0
      BY <1>1, <2>2
    <3>3. QED
      BY <1>2, <3>1, <3>2 DEF Restart, StartAs, fileVars
  <2>3. QED
    BY <2>1, <2>2
<1>3. CASE Crash \/ OperatorClear \/ OperatorMark
  BY <1>3 DEF Crash, OperatorClear, OperatorMark, fileVars
<1>4. CASE Environment \/ Tick \/ UNCHANGED vars
  BY <1>4 DEF Environment, StartWindow, EndWindow, WindowFails, OtherError,
              MemoryChanges, Tick, LateViewer, LateTrainer, LateAcknowledge, Acknowledged,
              monitorVars, fileVars, vars
<1>5. CASE Snapshot \/ Idle
  BY <1>5 DEF Snapshot, Idle, fileVars
<1>6. CASE DowngradeRoles \/ DowngradeRefused
  BY <1>6 DEF DowngradeRoles, DowngradeRefused, fileVars
<1>7. CASE PersistOpen \/ PersistWrite \/ PersistFails
  BY <1>1, <1>7 DEF PersistOpen, PersistWrite, PersistFails
<1>8. CASE Downgraded
  BY <1>1, <1>8 DEF Downgraded, fileVars
<1>9. CASE ProbeFails
  BY <1>9 DEF ProbeFails, Due, fileVars
<1>10. CASE ProbeSucceeds
  BY <1>1, <1>10 DEF ProbeSucceeds, Due, fileVars
<1>11. CASE Acknowledge \/ RestoreRoles
  BY <1>11 DEF Acknowledge, Acknowledged, RestoreRoles, fileVars
<1>12. CASE ClearOpen \/ Recovered
  BY <1>12 DEF ClearOpen, Recovered, diskVars
<1>13. CASE TransitionRefused \/ ClearFails
  BY <1>1, <1>13 DEF TransitionRefused, ClearFails, TransitionErr, fileVars, Phases,
                     Recovering
<1>14. QED
  BY <1>2, <1>3, <1>4, <1>5, <1>6, <1>7, <1>8, <1>9, <1>10, <1>11, <1>12, <1>13
     DEF Next, MonitorStep

\* On a disk that works the file says, whenever the monitor rests, what the monitor
\* believes: a peer that is killed and started again comes back as it was.
THEOREM FileIsCurrent ==
    ASSUME ~DiskFails
    PROVE  Spec => []DiskAgrees
<1>1. Init => TypeOK /\ Phases /\ FileFollows
  BY TypeInit, PhasesInit, FileInit
<1>2. TypeOK /\ Phases /\ FileFollows /\ [Next]_vars
          => (TypeOK /\ Phases /\ FileFollows)'
  BY TypeStep, PhasesStep, FileStep
<1>3. FileFollows => DiskAgrees
  BY DEF FileFollows, DiskAgrees
<1>4. QED
  BY <1>1, <1>2, <1>3, PTL DEF Spec
=============================================================================
