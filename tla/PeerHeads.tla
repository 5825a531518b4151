------------------------------ MODULE PeerHeads ------------------------------
(***************************************************************************)
(* The heads of one experiment revision and what a native peer learns of   *)
(* them: sync_or_initialize_latest_head_provider and its neighbours in     *)
(* burn_dragon_p2p/src/bin/burn_dragon_p2p_native.rs.                      *)
(*                                                                         *)
(* A head is numbered in the order of created_at.  The swarm itself        *)
(* (burn_p2p) is external: a published head is announced at once, and      *)
(* every answer of a node may be an error or late.                         *)
(***************************************************************************)
EXTENDS Naturals, Sequences

CONSTANTS Deployments,   \* sets of the processes that are run together
          MaxHeads(_),   \* bound: heads that are ever made in a deployment
          None           \* Option::None

Processes == {"mirror", "daemon", "trainer", "admin"}

ASSUME HeadsAssumption ==
    /\ Deployments \subseteq SUBSET Processes
    /\ \A d \in Deployments : MaxHeads(d) \in Nat \ {0}
    /\ None \notin Nat

VARIABLES
    heads,       \* heads[h]: global_step, parent, and who announced it
    reachable,   \* heads whose announced provider answers
    deployed     \* the processes there are; never changes

headVars == <<heads, reachable, deployed>>

Genesis == 1
Known == DOMAIN heads

Announcers == {"swarm", "daemon", "trainer"}   \* the swarm's heads are promoted
HeadRecords == [step : Nat, by : Announcers, parent : Nat \cup {None}]

HeadsInit ==
    /\ heads = <<[step |-> 0, by |-> "swarm", parent |-> None]>>
    /\ reachable = {Genesis}
    /\ deployed \in Deployments

\* By global_step, then created_at.
Newer(a, b) ==
    \/ heads[a].step > heads[b].step
    \/ heads[a].step = heads[b].step /\ a > b

Newest(hs) == CHOOSE h \in hs : \A g \in hs \ {h} : Newer(h, g)

Promoted == {h \in Known : heads[h].by = "swarm"}
Canonical == Newest(Promoted)

\* A new head on top of base.  A window leaves room for the head that merges it.
Publish(base, by) ==
    /\ Len(heads) + (IF by = "swarm" THEN 0 ELSE 1) < MaxHeads(deployed)
    /\ heads' = Append(heads, [step |-> heads[base].step + 1, by |-> by,
                               parent |-> base])
    /\ reachable' = reachable \cup {Len(heads) + 1}
    /\ UNCHANGED deployed

\* A process that starts from a head it announced itself announces it again.
Serves(h, by) ==
    /\ reachable' = reachable \cup {g \in Known : g = h /\ heads[g].by = by}
    /\ UNCHANGED <<heads, deployed>>

\* The announcing process is gone.  Promoted heads have other providers.
Leaves(by) ==
    /\ reachable' = {h \in reachable : heads[h].by # by}
    /\ UNCHANGED <<heads, deployed>>

\* A validator, or the settlement pass of a trainer, merges the windows trained on
\* the canonical head into the next one.
Promote ==
    /\ \E h \in Known : h \notin Promoted /\ heads[h].parent = Canonical
    /\ Publish(Canonical, "swarm")

-----------------------------------------------------------------------------
(* Sync. *)

\* What a sync of the latest promoted head may return: nothing or a promoted head.  Of
\* the swarm it is assumed that a node which holds a promoted head gets none before it;
\* one that holds another head may get any, an older one too.
Synced(view) ==
    {None} \cup {h \in Promoted : view \in Promoted => h >= view}

\* Mutant: the restored head wins whatever the network has.
PreferRestored(restored, synced) ==
    IF restored # None THEN restored ELSE synced

\* select_latest_head_candidate.
Selected(restored, synced) ==
    IF restored # None /\ (synced = None \/ heads[restored].step > heads[synced].step)
    THEN restored ELSE synced
=============================================================================
