-------------------------- MODULE PeerNetworkProofs --------------------------
(***************************************************************************)
(* What the directory names is served, and a daemon trains one window on a *)
(* head, for any number of heads and any company of processes.             *)
(***************************************************************************)
EXTENDS PeerNetwork, SequenceTheorems, TLAPS

-----------------------------------------------------------------------------
(* The edge. *)

\* Whatever has got past a call has what that call gives it, and an old copy of the
\* directory names a head that was registered when it was made.
EdgeShape ==
    registration = [r \in Registrants |->
        [stage |-> registration[r].stage, head |-> registration[r].head]]

CallsInOrder ==
    \A r \in Registrants :
        /\ registration[r].stage = "live" => registration[r].head \in artifacts
        /\ registration[r].stage \in {"fetch", "rollout"} =>
              registration[r].head \in live

CopiesAreServed ==
    /\ directory # None => directory \in live
    /\ rollout.head # None => rollout.head \in live

EdgeInv ==
    /\ EdgeShape
    /\ live \subseteq artifacts
    /\ CallsInOrder
    /\ CopiesAreServed

\* A registration that begins, or is forgotten, leaves the edge as it is.
LEMMA RegistrationBegins ==
    ASSUME EdgeInv, NEW r \in Registrants, NEW h, NEW stage,
           stage \in {"idle", "artifact"},
           registration' =
               [registration EXCEPT ![r] = [stage |-> stage, head |-> h]],
           UNCHANGED <<artifacts, live, directory, rollout>>
    PROVE  EdgeInv'
<1>1. registration' = [q \in Registrants |->
          IF q = r THEN [stage |-> stage, head |-> h] ELSE registration[q]]
  BY DEF EdgeInv, EdgeShape
<1>2. \A q \in Registrants :
          registration[q] =
              [stage |-> registration[q].stage, head |-> registration[q].head]
  BY DEF EdgeInv, EdgeShape
<1>3. EdgeShape'
  BY <1>1, <1>2 DEF EdgeShape
<1>4. CallsInOrder'
  BY <1>1 DEF EdgeInv, CallsInOrder
<1>5. CopiesAreServed'
  BY DEF EdgeInv, CopiesAreServed
<1> QED
  BY <1>3, <1>4, <1>5 DEF EdgeInv

\* A registration that proceeds.
LEMMA RegistrationProceeds ==
    ASSUME EdgeInv, NEW r \in Registrants, NEW stage, Proceed(r, stage)
    PROVE  /\ EdgeShape'
           /\ registration'[r].stage = stage
           /\ registration'[r].head = registration[r].head
           /\ \A q \in Registrants \ {r} : registration'[q] = registration[q]
<1>1. registration' = [q \in Registrants |->
          IF q = r THEN [registration[r] EXCEPT !.stage = stage]
                   ELSE registration[q]]
  BY DEF EdgeInv, EdgeShape, Proceed
<1>2. \A q \in Registrants :
          registration[q] =
              [stage |-> registration[q].stage, head |-> registration[q].head]
  BY DEF EdgeInv, EdgeShape
<1>3. [registration[r] EXCEPT !.stage = stage] =
          [stage |-> stage, head |-> registration[r].head]
  <2> DEFINE c == registration[r]
  <2>1. c = [stage |-> c.stage, head |-> c.head]
    BY <1>2
  <2> HIDE DEF c
  <2>2. [c EXCEPT !.stage = stage] = [stage |-> stage, head |-> c.head]
    <3>1. PICK s, h : c = [stage |-> s, head |-> h]
      BY <2>1
    <3> QED
      BY <3>1
  <2> QED
    BY <2>2 DEF c
<1> QED
  BY <1>1, <1>2, <1>3 DEF EdgeShape

\* A call to the edge, with its effect or without it.
LEMMA CallKeeps ==
    ASSUME EdgeInv, NEW r \in Registrants, EdgeCall(r)
    PROVE  EdgeInv'
<1>1. CASE MirrorArtifact(r)
  <2>1. Proceed(r, "live") /\ artifacts' = artifacts \cup {registration[r].head}
        /\ UNCHANGED <<live, directory, rollout>>
    BY <1>1 DEF MirrorArtifact, TakeArtifact
  <2> QED
    BY <2>1, RegistrationProceeds DEF EdgeInv, CallsInOrder, CopiesAreServed
<1>2. CASE RegisterLiveHead(r)
  <2>1. /\ registration[r].head \in artifacts
        /\ Proceed(r, "fetch") /\ live' = live \cup {registration[r].head}
        /\ UNCHANGED <<artifacts, directory, rollout>>
    BY <1>2 DEF RegisterLiveHead, At, TakeHead, EdgeInv, CallsInOrder
  <2> QED
    BY <2>1, RegistrationProceeds DEF EdgeInv, CallsInOrder, CopiesAreServed
<1>3. CASE FetchDirectory(r)
  <2>1. /\ registration[r].head \in live
        /\ UNCHANGED <<artifacts, live, directory, rollout>>
    BY <1>3 DEF FetchDirectory, At, EdgeInv, CallsInOrder
  <2>2. CASE Proceed(r, "done")
    BY <2>1, <2>2, RegistrationProceeds DEF EdgeInv, CallsInOrder, CopiesAreServed
  <2>3. CASE Proceed(r, "rollout")
    BY <2>1, <2>3, RegistrationProceeds DEF EdgeInv, CallsInOrder, CopiesAreServed
  <2> QED
    BY <1>3, <2>2, <2>3 DEF FetchDirectory
<1>4. CASE RolloutEntry(r)
  <2>1. /\ registration[r].head \in live
        /\ directory' = registration[r].head /\ Proceed(r, "done")
        /\ UNCHANGED <<artifacts, live, rollout>>
    BY <1>4 DEF RolloutEntry, At, TakeEntry, EdgeInv, CallsInOrder
  <2> QED
    BY <2>1, RegistrationProceeds DEF EdgeInv, CallsInOrder, CopiesAreServed
<1>5. CASE CallFails(r)
  <2>1. Proceed(r, "failed") /\ UNCHANGED rollout
    BY <1>5 DEF CallFails
  <2>2. CASE UNCHANGED <<artifacts, live, directory>>
    BY <2>1, <2>2, RegistrationProceeds DEF EdgeInv, CallsInOrder, CopiesAreServed
  <2>3. CASE TakeArtifact(r) /\ UNCHANGED <<live, directory>>
    BY <2>1, <2>3, RegistrationProceeds
    DEF TakeArtifact, EdgeInv, CallsInOrder, CopiesAreServed
  <2>4. CASE At(r, "live") /\ TakeHead(r) /\ UNCHANGED <<artifacts, directory>>
    <3>1. registration[r].head \in artifacts
      BY <2>4 DEF At, EdgeInv, CallsInOrder
    <3> QED
      BY <2>1, <2>4, <3>1, RegistrationProceeds
      DEF TakeHead, EdgeInv, CallsInOrder, CopiesAreServed
  <2>5. CASE At(r, "rollout") /\ TakeEntry(r) /\ UNCHANGED <<artifacts, live>>
    <3>1. registration[r].head \in live
      BY <2>5 DEF At, EdgeInv, CallsInOrder
    <3> QED
      BY <2>1, <2>5, <3>1, RegistrationProceeds
      DEF TakeEntry, EdgeInv, CallsInOrder, CopiesAreServed
  <2> QED
    BY <1>5, <2>2, <2>3, <2>4, <2>5 DEF CallFails
<1> QED
  BY <1>1, <1>2, <1>3, <1>4, <1>5 DEF EdgeCall

\* The administrator writes back what was fetched, or a head of the edge.
LEMMA AdministratorKeeps ==
    ASSUME EdgeInv, AdminStep
    PROVE  EdgeInv'
<1>1. CASE AdminFetch
  <2>1. PICK h \in {directory, None} \cup (live \cap {Genesis}) :
            rollout' = [stage |-> "rollout", head |-> h]
    BY <1>1 DEF AdminFetch
  <2>2. rollout'.head # None => rollout'.head \in live
    BY <2>1 DEF EdgeInv, CopiesAreServed
  <2> QED
    BY <1>1, <2>2 DEF AdminFetch, EdgeInv, EdgeShape, CallsInOrder, CopiesAreServed
<1>2. CASE AdminRollout
  <2>1. rollout'.head = None
    BY <1>2 DEF AdminRollout, NoRollout
  <2> QED
    BY <1>2, <2>1 DEF AdminRollout, EdgeInv, EdgeShape, CallsInOrder, CopiesAreServed
<1> QED
  BY <1>1, <1>2 DEF AdminStep

LEMMA EdgeStart == Init => EdgeInv
<1> SUFFICES ASSUME Init PROVE EdgeInv
  OBVIOUS
<1>1. EdgeInit
  BY DEF Init
<1> QED
  BY <1>1 DEF EdgeInit, NoRegistration, NoRollout, EdgeInv, EdgeShape, CallsInOrder,
              CopiesAreServed

LEMMA EdgeStep == EdgeInv /\ [Next]_vars => EdgeInv'
<1> SUFFICES ASSUME EdgeInv, [Next]_vars PROVE EdgeInv'
  OBVIOUS
<1>0. CASE UNCHANGED edgeVars
  BY <1>0 DEF edgeVars, EdgeInv, EdgeShape, CallsInOrder, CopiesAreServed
<1>1. CASE Mirror
  <2>1. CASE MirrorStart \/ MirrorSync
    BY <1>0, <2>1 DEF MirrorStart, MirrorSync, SyncTo
  <2>2. CASE MirrorChoose
    <3>1. UNCHANGED <<artifacts, live, directory, rollout, writer>>
      BY <2>2 DEF MirrorChoose
    <3>2. CASE UNCHANGED registration
      BY <1>0, <3>1, <3>2 DEF edgeVars
    <3>3. CASE Register("mirror", Candidate)
      BY <3>1, <3>3, RegistrationBegins DEF Register, Registrants
    <3> QED
      BY <2>2, <3>2, <3>3 DEF MirrorChoose
  <2>3. CASE MirrorRegistered
    BY <2>3, RegistrationBegins
    DEF MirrorRegistered, Forget, NoRegistration, Registrants
  <2>4. CASE MirrorFallsBack
    <3>1. UNCHANGED <<artifacts, live, directory, rollout>>
      BY <2>4 DEF MirrorFallsBack
    <3>2. CASE Register("mirror", stored)
      BY <3>1, <3>2, RegistrationBegins DEF Register, Registrants
    <3>3. CASE Forget("mirror")
      BY <3>1, <3>3, RegistrationBegins DEF Forget, NoRegistration, Registrants
    <3> QED
      BY <2>4, <3>2, <3>3 DEF MirrorFallsBack
  <2>5. CASE MirrorEnds
    BY <2>5, RegistrationBegins
    DEF MirrorEnds, Forget, NoRegistration, Registrants
  <2> QED
    BY <1>1, <2>1, <2>2, <2>3, <2>4, <2>5 DEF Mirror, MirrorStep
<1>2. CASE Trainers
  <2>1. CASE DaemonStep \/ DaemonEnds
    <3>1. UNCHANGED edgeVars
      BY <2>1 DEF DaemonStep, DaemonStart, DaemonSync, SyncsTo, DaemonSkipsSync,
                  DaemonStops, DaemonLooks, DaemonOpens, DaemonCompletes, DaemonFails,
                  DaemonGivesUp, DaemonSettles, DaemonEnds, DaemonGone
    <3> QED
      BY <1>0, <3>1
  <2>2. CASE OnceStart \/ OnceTrains
    BY <1>0, <2>2 DEF OnceStart, OnceTrains
  <2>3. CASE OnceRegisters
    BY <2>3, RegistrationBegins DEF OnceRegisters, Register, Registrants
  <2>4. CASE OnceEnds
    BY <2>4, RegistrationBegins DEF OnceEnds, Forget, NoRegistration, Registrants
  <2> QED
    BY <1>2, <2>1, <2>2, <2>3, <2>4 DEF Trainers, OnceStep
<1>3. CASE Calls
  BY <1>3, CallKeeps DEF Calls
<1>4. CASE Administrator
  BY <1>4, AdministratorKeeps DEF Administrator
<1>5. CASE Swarm
  BY <1>0, <1>5 DEF Swarm
<1>6. CASE UNCHANGED vars
  BY <1>0, <1>6 DEF vars
<1> QED
  BY <1>1, <1>2, <1>3, <1>4, <1>5, <1>6 DEF Next

\* The head the directory names is in the edge's head set and the edge has its
\* artifact, however many processes write it from however old copies and wherever their
\* calls fail (register_edge_head_and_directory, admin_rollout_profile).
THEOREM DirectoryIsServed == Spec => []AdvertisedIsServed
<1>1. EdgeInv => AdvertisedIsServed
  BY DEF EdgeInv, CopiesAreServed, AdvertisedIsServed
<1> QED
  BY <1>1, EdgeStart, EdgeStep, PTL DEF Spec

-----------------------------------------------------------------------------
(* The daemon. *)

\* A head is a number: its place among the heads.
HeadsAreASequence == \E S : heads \in Seq(S)

\* A window for h would be the first for it, and h later than the promoted heads that
\* had one; a head that is not promoted is held only until the first window on it.
Ahead(h) ==
    IF h \in Promoted THEN \A o \in opened \cap Promoted : o < h ELSE opened = {}

\* The same, when h may have had its window.
UpTo(h) ==
    IF h \in Promoted THEN \A o \in opened \cap Promoted : o =< h
                      ELSE opened \subseteq {h}

DaemonTypes ==
    /\ served \in Known \cup {None}
    /\ opened \subseteq Known

Idle ==
    daemon \in {"sync", "limit", "train"} =>
        /\ pending = None => Ahead(served)
        /\ pending # None => served = pending /\ UpTo(served)

Working ==
    /\ daemon = "off" => opened = {} /\ pending = None
    /\ daemon \in {"train", "training", "settle"} => pending = None /\ served # None
    /\ daemon = "training" => base = served /\ Ahead(served)
    /\ daemon = "settle" => base = served /\ UpTo(served)

DaemonInv == HeadsAreASequence /\ DaemonTypes /\ Idle /\ Working

\* Nothing takes a head away, or changes it.
Grows == HeadsAreASequence' /\ \A h \in Known : h \in Known' /\ heads'[h] = heads[h]

LEMMA PublishGrows ==
    ASSUME HeadsAreASequence, NEW h, NEW by, Publish(h, by)
    PROVE  Grows
<1>1. PICK S : heads \in Seq(S)
  BY DEF HeadsAreASequence
<1>2. PICK e : heads' = Append(heads, e)
  BY DEF Publish
<1> DEFINE T == S \cup {e}
<1>3. heads \in Seq(T) /\ e \in T
  BY <1>1
<1> HIDE DEF T
<1>4. Append(heads, e) \in Seq(T)
  BY <1>3, AppendProperties
<1>5. \A g \in DOMAIN heads :
          g \in DOMAIN Append(heads, e) /\ Append(heads, e)[g] = heads[g]
  BY <1>3
<1> QED
  BY <1>2, <1>4, <1>5 DEF Grows, HeadsAreASequence, Known

LEMMA HeadsGrow ==
    ASSUME HeadsAreASequence, [Next]_vars
    PROVE  Grows
<1>1. ASSUME UNCHANGED heads PROVE Grows
  BY <1>1 DEF HeadsAreASequence, Grows, Known
<1>2. ASSUME Promote PROVE Grows
  BY <1>2, PublishGrows DEF Promote
<1>3. ASSUME DaemonGone PROVE Grows
  BY <1>1, <1>3 DEF DaemonGone, Leaves
<1>4. CASE Mirror
  BY <1>1, <1>4
  DEF Mirror, MirrorStep, MirrorStart, MirrorSync, SyncTo, MirrorChoose,
      MirrorRegistered, MirrorFallsBack, MirrorEnds, headVars
<1>5. CASE DaemonStep \/ DaemonEnds
  <2>1. CASE DaemonStart \/ DaemonSync \/ DaemonSkipsSync \/ DaemonLooks \/ DaemonOpens
    BY <1>1, <2>1 DEF DaemonStart, Serves, DaemonSync, SyncsTo, DaemonSkipsSync,
                      DaemonLooks, DaemonOpens, headVars
  <2>2. CASE DaemonStops \/ DaemonGivesUp \/ DaemonEnds
    BY <1>3, <2>2 DEF DaemonStops, DaemonGivesUp, DaemonEnds
  <2>3. CASE DaemonCompletes
    BY <2>3, PublishGrows DEF DaemonCompletes
  <2>4. CASE DaemonFails
    BY <1>1, <2>4, PublishGrows DEF DaemonFails, headVars
  <2>5. CASE DaemonSettles
    BY <1>1, <1>2, <2>5 DEF DaemonSettles, headVars
  <2> QED
    BY <1>5, <2>1, <2>2, <2>3, <2>4, <2>5 DEF DaemonStep
<1>6. CASE OnceStep
  BY <1>1, <1>6, PublishGrows
  DEF OnceStep, OnceStart, Serves, OnceTrains, OnceRegisters, OnceEnds, Leaves, headVars
<1>7. CASE Calls \/ Administrator \/ UNCHANGED vars
  BY <1>1, <1>7 DEF Calls, Administrator, vars, headVars
<1>8. CASE Swarm
  BY <1>2, <1>8 DEF Swarm
<1> QED
  BY <1>4, <1>5, <1>6, <1>7, <1>8 DEF Next, Trainers

LEMMA HeadsAreNumbers == HeadsAreASequence => Known \subseteq Nat /\ None \notin Known
<1> SUFFICES ASSUME HeadsAreASequence PROVE DOMAIN heads \subseteq Nat
  BY HeadsAssumption DEF Known
<1>1. PICK S : heads \in Seq(S)
  BY DEF HeadsAreASequence
<1> QED
  BY <1>1

\* A head stays promoted, or not, and the order with it.
LEMMA OrderStays ==
    ASSUME HeadsAreASequence, Grows, opened \subseteq Known, opened' = opened
    PROVE  \A h \in Known \cup {None} : (Ahead(h) => Ahead(h)') /\ (UpTo(h) => UpTo(h)')
<1>1. \A h \in Known \cup {None} : h \in Promoted' <=> h \in Promoted
  BY HeadsAreNumbers, HeadsAssumption DEF Grows, Promoted, HeadsAreASequence, Known
<1> QED
  BY <1>1 DEF Ahead, UpTo

\* What a sync returns is a later promoted head than any that had a window.
LEMMA SyncIsAhead ==
    ASSUME HeadsAreASequence, DaemonTypes, NEW h \in Synced(served), h # None,
           Ahead(served) \/ (UpTo(served) /\ h # served)
    PROVE  h \in Known /\ Ahead(h)
<1>1. h \in Promoted /\ (served \in Promoted => h >= served)
  BY DEF Synced
<1>2. Known \subseteq Nat /\ Promoted \subseteq Known
  BY HeadsAreNumbers DEF Promoted
<1>3. \A o \in opened \cap Promoted : o < h
  <2>1. CASE served \in Promoted
    <3>1. served \in Nat /\ h \in Nat /\ served =< h /\ opened \cap Promoted \subseteq Nat
      BY <1>1, <1>2, <2>1
    <3>2. CASE Ahead(served)
      <4>1. \A o \in opened \cap Promoted : o < served
        BY <2>1, <3>2 DEF Ahead
      <4> QED
        BY <3>1, <4>1
    <3>3. CASE UpTo(served) /\ h # served
      <4>1. \A o \in opened \cap Promoted : o =< served
        BY <2>1, <3>3 DEF UpTo
      <4> QED
        BY <3>1, <3>3, <4>1
    <3> QED
      BY <3>2, <3>3
  <2>2. CASE served \notin Promoted
    BY <2>2 DEF Ahead, UpTo
  <2> QED
    BY <2>1, <2>2
<1> QED
  BY <1>1, <1>2, <1>3 DEF Ahead

LEMMA DaemonInit == Init => DaemonInv
<1> SUFFICES ASSUME Init PROVE DaemonInv
  OBVIOUS
<1>1. HeadsAreASequence
  <2> DEFINE e == [step |-> 0, by |-> "swarm", parent |-> None]
  <2>1. heads = <<e>>
    BY DEF Init, HeadsInit
  <2>2. <<e>> \in Seq({e})
    OBVIOUS
  <2> QED
    BY <2>1, <2>2 DEF HeadsAreASequence
<1> QED
  BY <1>1 DEF Init, TrainersInit, DaemonInv, DaemonTypes, Idle, Working, Ahead

\* The steps of the daemon that leave the heads as they are.
LEMMA QuietStepKeeps ==
    ASSUME DaemonInv, heads' = heads,
           \/ DaemonStart \/ DaemonSync \/ DaemonSkipsSync \/ DaemonStops \/ DaemonLooks
           \/ DaemonOpens \/ DaemonGivesUp \/ DaemonEnds
    PROVE  DaemonTypes' /\ Idle' /\ Working'
<1> USE DEF DaemonInv, DaemonTypes
<1>0. Known' = Known /\ Promoted' = Promoted
  BY DEF Known, Promoted
<1>1. CASE DaemonStart
  <2>1. served' \in Known \cup {None}
    BY <1>1 DEF DaemonStart, StartHeads
  <2>2. opened = {} /\ pending = None
    BY <1>1 DEF DaemonStart, Working
  <2>3. Ahead(served)'
    BY <1>1, <2>2 DEF DaemonStart, Ahead
  <2> QED
    BY <1>0, <1>1, <2>1, <2>2, <2>3 DEF DaemonStart, Idle, Working
<1>2. CASE DaemonSync
  <2>1. PICK latest \in Synced(served) : SyncsTo(latest)
    BY <1>2 DEF DaemonSync
  <2>2. /\ daemon = "sync" /\ daemon' = "limit" /\ opened' = opened
        /\ served' = IF latest = None THEN served ELSE latest
        /\ pending' = IF pending # None /\ Advanced(latest) THEN None ELSE pending
    BY <2>1 DEF SyncsTo
  <2>3. /\ pending = None => Ahead(served)
        /\ pending # None => served = pending /\ UpTo(served)
    BY <2>2 DEF Idle
  <2>4. CASE latest = None \/ latest = pending
    <3>1. served' = served /\ pending' = pending
      BY <2>2, <2>3, <2>4 DEF Advanced
    <3> QED
      BY <1>0, <2>2, <2>3, <3>1 DEF Idle, Working, Ahead, UpTo
  <2>5. CASE latest # None /\ latest # pending
    <3>1. latest \in Known /\ Ahead(latest)
      BY <2>3, <2>5, SyncIsAhead
    <3>2. served' = latest /\ pending' = None
      BY <2>2, <2>5 DEF Advanced
    <3> QED
      BY <1>0, <2>2, <3>1, <3>2 DEF Idle, Working, Ahead
  <2> QED
    BY <2>4, <2>5
<1>3. CASE DaemonSkipsSync
  BY <1>0, <1>3 DEF DaemonSkipsSync, Idle, Working, Ahead, UpTo
<1>4. CASE DaemonStops \/ DaemonGivesUp \/ DaemonEnds
  BY <1>4 DEF DaemonStops, DaemonGivesUp, DaemonEnds, DaemonGone, Idle, Working
<1>5. CASE DaemonLooks
  BY <1>0, <1>5 DEF DaemonLooks, Idle, Working, Ahead, UpTo
<1>6. CASE DaemonOpens
  <2>1. /\ base' \in {served} \cup (Synced(served) \ {None}) /\ served' = base'
        /\ daemon = "train" /\ daemon' = "training"
        /\ UNCHANGED <<pending, opened>>
    BY <1>6 DEF DaemonOpens
  <2>2. pending = None /\ served # None /\ Ahead(served)
    BY <2>1 DEF Idle, Working
  <2>3. base' \in Known /\ base' # None /\ Ahead(served)'
    <3>1. CASE base' = served
      BY <1>0, <2>1, <2>2, <3>1 DEF Ahead
    <3>2. CASE base' \in Synced(served) \ {None}
      <4> DEFINE b == base'
      <4>1. b \in Synced(served) /\ b # None
        BY <3>2
      <4> HIDE DEF b
      <4>2. b \in Known /\ Ahead(b)
        BY <2>2, <4>1, SyncIsAhead
      <4> QED
        BY <1>0, <2>1, <3>2, <4>2 DEF b, Ahead
    <3> QED
      BY <2>1, <3>1, <3>2
  <2> QED
    BY <1>0, <2>1, <2>2, <2>3 DEF Idle, Working
<1> QED
  BY <1>1, <1>2, <1>3, <1>4, <1>5, <1>6

\* The steps of the daemon around a window, in which heads are published.
LEMMA WindowStepKeeps ==
    ASSUME DaemonInv, Grows, DaemonCompletes \/ DaemonFails \/ DaemonSettles
    PROVE  DaemonTypes' /\ Idle' /\ Working'
<1> USE DEF DaemonInv, DaemonTypes
<1>0. \A h \in Known : h \in Known'
  BY DEF Grows
<1>1. CASE DaemonCompletes
  <2>1. /\ daemon = "training" /\ daemon' = "settle"
        /\ opened' = opened \cup {base} /\ UNCHANGED <<served, pending, base>>
    BY <1>1 DEF DaemonCompletes
  <2>2. base = served /\ Ahead(served) /\ pending = None /\ served # None
    BY <2>1 DEF Working
  <2>3. \A h \in Known : h \in Promoted' <=> h \in Promoted
    BY DEF Grows, Promoted
  <2>4. UpTo(served)'
    <3>1. CASE served \in Promoted
      <4>1. served \in Nat
        BY <2>2, HeadsAreNumbers
      <4>2. \A o \in opened' \cap Promoted' : o = served \/ o \in opened \cap Promoted
        BY <2>1, <2>2, <2>3
      <4>3. \A o \in opened \cap Promoted : o < served /\ o \in Nat
        BY <2>2, <3>1, HeadsAreNumbers DEF Ahead
      <4>4. ASSUME NEW o \in opened' \cap Promoted' PROVE o =< served
        <5>1. CASE o = served
          BY <4>1, <5>1
        <5>2. CASE o \in opened \cap Promoted
          <6>1. o < served /\ o \in Nat
            BY <4>3, <5>2
          <6> QED
            BY <4>1, <6>1
        <5> QED
          BY <4>2, <5>1, <5>2
      <4> QED
        BY <2>1, <2>2, <2>3, <3>1, <4>4 DEF UpTo
    <3>2. CASE served \notin Promoted
      <4>1. opened' = {served}
        BY <2>1, <2>2, <3>2 DEF Ahead
      <4> QED
        BY <2>1, <2>2, <2>3, <3>2, <4>1 DEF UpTo
    <3> QED
      BY <3>1, <3>2
  <2> QED
    BY <1>0, <2>1, <2>2, <2>4 DEF Idle, Working
<1>2. CASE DaemonFails
  <2>1. /\ daemon = "training" /\ daemon' = "sync"
        /\ UNCHANGED <<served, pending, opened>>
    BY <1>2 DEF DaemonFails
  <2>2. Ahead(served) /\ pending = None
    BY <2>1 DEF Working
  <2>3. Ahead(served)'
    BY <2>1, <2>2, OrderStays DEF Ahead
  <2> QED
    BY <1>0, <2>1, <2>2, <2>3 DEF Idle, Working
<1>3. CASE DaemonSettles
  <2>1. /\ daemon = "settle" /\ daemon' = "sync"
        /\ pending' = base /\ UNCHANGED <<served, opened>>
    BY <1>3 DEF DaemonSettles
  <2>2. base = served /\ UpTo(served) /\ served # None
    BY <2>1 DEF Working
  <2>3. UpTo(served)'
    BY <2>1, <2>2, OrderStays DEF UpTo
  <2> QED
    BY <1>0, <2>1, <2>2, <2>3 DEF Idle, Working
<1> QED
  BY <1>1, <1>2, <1>3

\* Everybody else's steps only add heads.
LEMMA OthersKeep ==
    ASSUME DaemonInv, Grows, UNCHANGED daemonVars
    PROVE  DaemonTypes' /\ Idle' /\ Working'
<1> USE DEF DaemonInv, DaemonTypes
<1>1. UNCHANGED <<daemon, served, pending, base, opened>>
  BY DEF daemonVars
<1>2. (Ahead(served) => Ahead(served)') /\ (UpTo(served) => UpTo(served)')
  BY <1>1, OrderStays DEF Ahead, UpTo
<1>3. DaemonTypes'
  BY <1>1 DEF Grows
<1> QED
  BY <1>1, <1>2, <1>3 DEF Idle, Working

LEMMA DaemonKeeps == DaemonInv /\ [Next]_vars => DaemonInv'
<1> SUFFICES ASSUME DaemonInv, [Next]_vars PROVE DaemonInv'
  OBVIOUS
<1>1. Grows /\ HeadsAreASequence'
  BY HeadsGrow DEF DaemonInv, Grows
<1>2. CASE UNCHANGED daemonVars
  BY <1>1, <1>2, OthersKeep DEF DaemonInv
<1>3. CASE Mirror \/ Calls \/ Administrator \/ Swarm \/ UNCHANGED vars
  BY <1>2, <1>3 DEF Mirror, Calls, Administrator, Swarm, vars, trainerVars
<1>4. CASE OnceStep
  BY <1>2, <1>4 DEF OnceStep, OnceStart, OnceTrains, OnceRegisters, OnceEnds
<1>5. CASE DaemonCompletes \/ DaemonFails \/ DaemonSettles
  BY <1>1, <1>5, WindowStepKeeps DEF DaemonInv
<1>6. CASE \/ DaemonStart \/ DaemonSync \/ DaemonSkipsSync \/ DaemonStops \/ DaemonLooks
           \/ DaemonOpens \/ DaemonGivesUp \/ DaemonEnds
  <2>1. heads' = heads
    BY <1>6 DEF DaemonStart, Serves, DaemonSync, SyncsTo, DaemonSkipsSync, DaemonStops,
                DaemonLooks, DaemonOpens, DaemonGivesUp, DaemonEnds, DaemonGone, Leaves,
                headVars
  <2> QED
    BY <1>1, <1>6, <2>1, QuietStepKeeps DEF DaemonInv
<1> QED
  BY <1>3, <1>4, <1>5, <1>6 DEF Next, Trainers, DaemonStep

\* While it lives, a daemon completes one window for a head at most, and after one for a
\* promoted head only windows for later ones: whatever head it starts from, promoted or
\* not, whichever promoted heads its syncs miss, and however many windows fail
\* (run_prepared_peer).  That no sync goes back behind a promoted head it returned
\* before is an assumption about the swarm (Synced).
THEOREM OneWindow == Spec => OneWindowPerBase
<1>1. DaemonInv /\ [Next]_vars =>
          [daemon = "training" /\ daemon' = "settle" =>
              /\ base \notin opened
              /\ \A o \in opened \cap Promoted : o < base]_vars
  <2> SUFFICES ASSUME DaemonInv, daemon = "training"
               PROVE  base \notin opened /\ \A o \in opened \cap Promoted : o < base
    OBVIOUS
  <2>1. Ahead(base) /\ opened \subseteq Nat
    BY HeadsAreNumbers DEF DaemonInv, DaemonTypes, Working
  <2>2. CASE base \in Promoted
    <3>1. \A o \in opened \cap Promoted : o \in Nat /\ o < base
      BY <2>1, <2>2 DEF Ahead
    <3>2. base \notin opened
      <4> SUFFICES ASSUME base \in opened PROVE FALSE
        OBVIOUS
      <4>1. base \in Nat /\ base < base
        BY <2>2, <3>1
      <4> QED
        BY <4>1
    <3> QED
      BY <3>1, <3>2
  <2>3. CASE base \notin Promoted
    BY <2>1, <2>3 DEF Ahead
  <2> QED
    BY <2>2, <2>3
<1> QED
  BY <1>1, DaemonInit, DaemonKeeps, PTL DEF Spec, OneWindowPerBase
=============================================================================
