---------------------------- MODULE OrderedFeed ----------------------------
(***************************************************************************)
(* What a training data loader promises the training loop, with no         *)
(* mention of threads: the absolute steps Start, Start+1, ... are handed   *)
(* out in order, each exactly once, grouped in epochs of at most           *)
(* StepsPerEpoch steps, never beyond Limit.  Every request is answered; it *)
(* is answered with the end of the epoch before the epoch is used up only  *)
(* when batch construction has failed somewhere.  The constants are        *)
(* natural numbers with Start <= Limit, which the modules that use this    *)
(* one assume of their own.                                                *)
(***************************************************************************)
EXTENDS Naturals, Sequences

CONSTANTS StepsPerEpoch,  \* batches per epoch
          Start,          \* steps already consumed when the loader is built
          Limit           \* total training steps

VARIABLES feed,    \* the absolute steps handed out so far
          left,    \* batches left in the epoch that is open
          phase,   \* "idle", "open", or "asked" (a request is outstanding)
          failed   \* some batch could not be built

vars == <<feed, left, phase, failed>>

Position == Start + Len(feed)

EpochLength == IF Limit - Position < StepsPerEpoch
               THEN Limit - Position ELSE StepsPerEpoch

Init ==
    /\ feed = <<>>
    /\ left = 0
    /\ phase = "idle"
    /\ failed = FALSE

Open ==
    /\ phase = "idle"
    /\ left' = EpochLength
    /\ phase' = "open"
    /\ UNCHANGED <<feed, failed>>

Ask ==
    /\ phase = "open"
    /\ left > 0
    /\ phase' = "asked"
    /\ UNCHANGED <<feed, left, failed>>

Answer ==
    /\ phase = "asked"
    /\ feed' = Append(feed, Position)
    /\ left' = left - 1
    /\ phase' = "open"
    /\ UNCHANGED failed

\* The epoch ends short of its length.
CutShort ==
    /\ phase = "asked"
    /\ failed
    /\ phase' = "idle"
    /\ UNCHANGED <<feed, left, failed>>

\* The epoch is used up, or the training loop stops asking.
Close ==
    /\ phase = "open"
    /\ phase' = "idle"
    /\ UNCHANGED <<feed, left, failed>>

Fail ==
    /\ ~failed
    /\ failed' = TRUE
    /\ UNCHANGED <<feed, left, phase>>

Next == Open \/ Ask \/ Answer \/ CutShort \/ Close \/ Fail

Spec == Init /\ [][Next]_vars

FairSpec == Spec /\ WF_vars(Answer \/ CutShort)
=============================================================================
