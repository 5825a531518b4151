---------------------------- MODULE ContextRouting ----------------------------
(***************************************************************************)
(* Predictive context routing: PredictiveContextRoutingRuntime in          *)
(* burn_dragon_language/src/train/context_routing.rs.                      *)
(*                                                                         *)
(* Every context owns a sparse mask, an optimizer and a recurrent state.   *)
(* A batch is trained under the context in force; when a probe is due, the *)
(* bank, which belongs to the burn_pc dependency, may choose another one,  *)
(* open a new slot or hand an old slot to a new generation.  Losses decide *)
(* that, and are abstracted to a choice; masks never change once made.     *)
(***************************************************************************)
EXTENDS Naturals

CONSTANTS MaxContexts,    \* slots of the bank
          MaxGeneration,  \* bound: how often a slot may change hands
          ProbeEvery,     \* probe_every_steps
          Nobody          \* Option::None

ASSUME RoutingAssumption ==
    /\ MaxContexts \in Nat \ {0}
    /\ MaxGeneration \in Nat \ {0}
    /\ ProbeEvery \in Nat \ {0}
    /\ Nobody \notin [slot : Nat, generation : Nat]

VARIABLES
    known_contexts,  \* slots in use
    generation,      \* generation[c]: of the context the bank has in slot c
    current,         \* the context in force, or Nobody
    optimizers,      \* optimizers[c]: the generation whose moments these are
    stream_states    \* stream_states[c]: the recurrent state of slot c

routingVars == <<known_contexts, generation, current, optimizers,
                 stream_states>>

Slots == 0 .. MaxContexts - 1
Identity(c, g) == [slot |-> c, generation |-> g]

\* PredictiveContextRoutingRuntime::new
RoutingInit ==
    /\ known_contexts = 0
    /\ generation = [c \in Slots |-> 0]
    /\ current = Nobody
    /\ optimizers = [c \in Slots |-> 0]
    /\ stream_states = [c \in Slots |-> Nobody]

ProbeDue(absolute_step) == current = Nobody \/ absolute_step % ProbeEvery = 0

\* allocate, for a slot that is new: ensure_slot makes its parts.
Create(c) ==
    /\ c = known_contexts
    /\ known_contexts < MaxContexts
    /\ known_contexts' = known_contexts + 1
    /\ generation' = [generation EXCEPT ![c] = 1]
    /\ optimizers' = [optimizers EXCEPT ![c] = 1]

\* Mutant: the next generation goes on with the optimizer of the last one.
ReplaceLazily(c) ==
    /\ c < known_contexts
    /\ known_contexts = MaxContexts
    /\ generation[c] < MaxGeneration
    /\ generation' = [generation EXCEPT ![c] = @ + 1]
    /\ UNCHANGED <<known_contexts, optimizers>>

\* allocate, for a slot that changes hands: optimizer and state start afresh.
Replace(c) ==
    /\ c < known_contexts
    /\ known_contexts = MaxContexts
    /\ generation[c] < MaxGeneration
    /\ generation' = [generation EXCEPT ![c] = @ + 1]
    /\ optimizers' = [optimizers EXCEPT ![c] = generation[c] + 1]
    /\ UNCHANGED known_contexts

\* A known context is chosen, or kept because no probe is due.
Select(c, absolute_step) ==
    /\ c < known_contexts
    /\ ~ProbeDue(absolute_step) => c = current.slot
    /\ UNCHANGED <<known_contexts, generation, optimizers>>

\* What the slot holds once the batch is routed: a slot that changes hands is
\* emptied.
KeptStateOf(c) == IF generation'[c] = generation[c] THEN stream_states[c]
                  ELSE Nobody

\* take_stream_state: a reset drops the state of the routed context.
TakenState(c, reset) == IF reset THEN Nobody ELSE KeptStateOf(c)

\* route, take_stream_state, the step and store_stream_state, one after the
\* other on the training thread; `state` is what the step leaves behind.
RoutedStep(c, absolute_step, state) ==
    /\ \/ Create(c) /\ (known_contexts > 0 => ProbeDue(absolute_step))
       \/ Replace(c) /\ ProbeDue(absolute_step)
       \/ Select(c, absolute_step)
    /\ current' = Identity(c, generation'[c])
    /\ stream_states' = [stream_states EXCEPT ![c] = state]

\* restore_checkpoint: what save_checkpoint wrote, which is everything.
RestoreRouting(saved) ==
    /\ known_contexts' = saved.known_contexts
    /\ generation' = saved.generation
    /\ current' = saved.current
    /\ optimizers' = saved.optimizers
    /\ stream_states' = saved.stream_states
=============================================================================
