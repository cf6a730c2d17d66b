--------------------------- MODULE PipelineProofs ---------------------------
(***************************************************************************)
(* Proofs about Pipeline.  For any number of ranks, boxes, steps and       *)
(* particles: its variables keep their types.  For the usual pipeline of   *)
(* any number of ranks, steps and particles: every message answers the     *)
(* receive that takes it, and no send buffer is touched too early; and the *)
(* pipeline implements the safety part of Wavefront: no rank solves a box  *)
(* before the previous step has left its beam there, nor a tail slice      *)
(* before the previous step has pushed the ghost slice behind it.          *)
(***************************************************************************)
EXTENDS PipelineInvariants, FiniteSetTheorems, SequenceTheorems, WellFoundedInduction, TLAPS

-----------------------------------------------------------------------------
(* Numbers and sets                                                        *)

\* A nonempty set of naturals has a least element.
LEMMA LeastElement ==
    ASSUME NEW T, T \subseteq Nat, T # {}
    PROVE  \E x \in T : \A y \in T : x <= y
<1> DEFINE R == OpToRel(<, Nat)
<1>1. PICK x \in T : \A y \in T : ~ (<<y, x>> \in R)
  <2>1. IsWellFoundedOn(R, Nat)
    BY NatLessThanWellFounded
  <2> HIDE DEF R
  <2> QED
    BY <2>1, WFMin, Zenon
<1>2. ASSUME NEW y \in T
      PROVE  x <= y
  <2>1. x \in Nat /\ y \in Nat
    OBVIOUS
  <2>2. ~ (y < x)
    <3>1. <<y, x>> \in Nat \X Nat /\ <<y, x>>[1] = y /\ <<y, x>>[2] = x
      BY <2>1
    <3> QED
      BY <1>1, <3>1 DEF OpToRel
  <2> QED
    BY <2>1, <2>2
<1> QED
  BY <1>2

\* The image of a finite set under a function is finite.
LEMMA FiniteImage ==
    ASSUME NEW S, IsFiniteSet(S), NEW f
    PROVE  IsFiniteSet({f[x] : x \in S})
<1> DEFINE T == {f[x] : x \in S}
           g == [x \in S |-> f[x]]
<1>1. g \in Surjection(S, T)
  BY DEF Surjection
<1> QED
  BY <1>1, FS_Surjection

\* leftmostBoxWithParticles returns a box of the domain, for any beam: the scan
\* stops at the last box at the latest.
LEMMA LeftmostType ==
    ASSUME NEW S
    PROVE  Leftmost(S) \in Ranks
<1> DEFINE Stops == {b \in Ranks : InBox(S, b) # {} \/ b = N - 1}
<1>1. N \in Nat /\ N - 1 \in Stops /\ Stops \subseteq Nat
  BY PipelineAssumption DEF Ranks
<1>2. PICK b \in Stops : \A c \in Stops : b <= c
  BY <1>1, LeastElement
<1>3. \A c \in 0 .. b - 1 : InBox(S, c) = {}
  <2>1. SUFFICES ASSUME NEW c \in 0 .. b - 1, InBox(S, c) # {}
                 PROVE  FALSE
    OBVIOUS
  <2>2. c \in Stops
    BY <1>1, <2>1 DEF Ranks
  <2> QED
    BY <1>1, <1>2, <2>2
<1> QED
  BY <1>2, <1>3 DEF Leftmost

\* Pushing the particles of a bin gives particles.
LEMMA PushedType ==
    ASSUME NEW S \in Beams, NEW T \in Pushed(S)
    PROVE  T \in Beams
<1>1. PICK slip \in [S -> 0 .. MaxSlip] : T = {Push(p, slip[p]) : p \in S}
  BY DEF Pushed
<1> DEFINE f == [p \in S |-> Push(p, slip[p])]
<1>2. T = {f[p] : p \in S}
  BY <1>1
<1>3. IsFiniteSet(T)
  <2>1. IsFiniteSet(S)
    BY DEF Beams
  <2> HIDE DEF f
  <2> QED
    BY <1>2, <2>1, FiniteImage
<1>4. ASSUME NEW p \in S
      PROVE  Push(p, slip[p]) \in Particle
  <2>1. p \in Particle /\ slip[p] \in 0 .. MaxSlip /\ MaxSlip \in Nat
    BY PipelineAssumption DEF Beams
  <2> QED
    BY <2>1 DEF Push, Particle
<1> QED
  BY <1>1, <1>3, <1>4 DEF Beams

\* Beams are closed under the set operations of the handlers.
LEMMA BeamsClosed ==
    /\ {} \in Beams
    /\ \A S \in Beams : \A T \in SUBSET S : T \in Beams
    /\ \A S, T \in Beams : S \union T \in Beams
    /\ \A S \in Beams : Cardinality(S) \in Nat
  BY FS_EmptySet, FS_Subset, FS_Union, FS_CardinalityType, Zenon DEF Beams

-----------------------------------------------------------------------------
(* Messages                                                                *)

LEMMA Constants ==
    /\ N \in Nat \ {0} /\ NumBoxes \in Nat \ {0} /\ MaxStep \in Nat
    /\ N - 1 \in Ranks /\ Ranks \subseteq Nat
    /\ N <= NumBoxes
    /\ Boxes = 0 .. NumBoxes - 1
    /\ \A r \in Ranks : Upstream(r) \in Ranks
    /\ EagerSmall \in BOOLEAN
  BY PipelineAssumption DEF NumBoxes, Ranks, Boxes, Upstream

LEMMA MinOfType ==
    ASSUME NEW a \in 0 .. NumBoxes, NEW b \in 0 .. NumBoxes
    PROVE  MinOf(a, b) \in 0 .. NumBoxes
  BY DEF MinOf

LEMMA KindsOfMessages ==
    ASSUME NEW np
    PROVE  /\ WithParticles("counts", "particles", np) \subseteq Kinds
           /\ WithParticles("ghostCounts", "ghostParticles", np) \subseteq Kinds
           /\ GhostKinds \subseteq Kinds
           /\ \A b : FinishKinds(b) \subseteq Kinds
  BY DEF WithParticles, GhostKinds, FinishKinds, Kinds, Small

\* A receive keeps the channels typed and returns messages of its kinds.
LEMMA ReceiveType ==
    ASSUME NEW r \in Ranks, NEW K \in SUBSET Kinds, ChanOK, Receive(K, r)
    PROVE  /\ ChanOK'
           /\ \A k \in K : Received(k, r) \in Msg(k)
<1> DEFINE u == Upstream(r)
<1>1. u \in Ranks
  BY Constants
<1>2. ASSUME NEW k \in K
      PROVE  Received(k, r) \in Msg(k) /\ Tail(chan[k][u]) \in Seq(Msg(k))
  <2>1. k \in Kinds /\ chan[k][u] \in Seq(Msg(k)) /\ chan[k][u] # <<>>
    BY <1>1 DEF ChanOK, Receive
  <2> QED
    BY <2>1, HeadTailProperties DEF Received
<1>3. chan' = [k \in Kinds |->
                 IF k \in K THEN [chan[k] EXCEPT ![u] = Tail(@)] ELSE chan[k]]
  BY DEF Receive
<1>4. ASSUME NEW k \in Kinds
      PROVE  chan'[k] \in [Ranks -> Seq(Msg(k))]
  <2>1. chan[k] \in [Ranks -> Seq(Msg(k))]
    BY DEF ChanOK
  <2>2. CASE k \in K
    <3>1. chan'[k] = [chan[k] EXCEPT ![u] = Tail(chan[k][u])]
      BY <1>3, <2>2
    <3> QED
      BY <1>2, <2>1, <2>2, <3>1
  <2>3. CASE k \notin K
    BY <1>3, <2>1, <2>3
  <2> QED
    BY <2>2, <2>3
<1>5. ChanOK'
  BY <1>3, <1>4 DEF ChanOK
<1> QED
  BY <1>2, <1>5

\* A send keeps the channels and the buffers typed.
LEMMA SendType ==
    ASSUME NEW r \in Ranks, NEW done \in SUBSET Kinds, NEW out, ChanOK, BufOK,
           DOMAIN out \subseteq Kinds, \A k \in DOMAIN out : out[k] \in Data(k),
           step[r] \in Nat, box[r] \in Boxes,
           FinishAndSend(r, done, out)
    PROVE  ChanOK' /\ BufOK'
<1>1. PICK kept \in SUBSET (DOMAIN out \ Small) :
         /\ chan' = [k \in Kinds |->
                       IF k \in DOMAIN out
                         THEN [chan[k] EXCEPT ![r] = Append(@, Message(r, k, out[k], kept))]
                         ELSE chan[k]]
         /\ buf' = [k \in Kinds |->
                      CASE k \in DOMAIN out ->
                             [buf[k] EXCEPT ![r] = {Message(r, k, out[k], kept)}]
                        [] k \in done \ DOMAIN out -> [buf[k] EXCEPT ![r] = {}]
                        [] OTHER -> buf[k]]
  BY Zenon DEF FinishAndSend
<1>2. ASSUME NEW k \in DOMAIN out
      PROVE  Message(r, k, out[k], kept) \in Msg(k)
  <2> DEFINE ref == IF k \in Small THEN ~EagerSmall ELSE k \in kept
  <2>1. ref \in BOOLEAN
    <3>1. (~EagerSmall) \in BOOLEAN /\ (k \in kept) \in BOOLEAN
      OBVIOUS
    <3>2. CASE k \in Small
      <4>1. ref = ~EagerSmall
        BY <3>2, Zenon
      <4> QED
        BY <3>1, <4>1, Zenon
    <3>3. CASE k \notin Small
      <4>1. ref = (k \in kept)
        BY <3>3, Zenon
      <4> QED
        BY <3>1, <4>1, Zenon
    <3> QED
      BY <3>2, <3>3
  <2>2. Message(r, k, out[k], kept) =
          [step |-> step[r], box |-> box[r], data |-> out[k], ref |-> ref]
    BY Zenon DEF Message
  <2> HIDE DEF ref
  <2> QED
    BY <2>1, <2>2 DEF Msg
<1>3. ASSUME NEW k \in Kinds
      PROVE  chan'[k] \in [Ranks -> Seq(Msg(k))]
  <2>1. chan[k] \in [Ranks -> Seq(Msg(k))]
    BY DEF ChanOK
  <2>2. CASE k \in DOMAIN out
    <3> DEFINE m == Message(r, k, out[k], kept)
    <3>1. chan'[k] = [chan[k] EXCEPT ![r] = Append(chan[k][r], m)]
      BY <1>1, <2>2
    <3>2. Append(chan[k][r], m) \in Seq(Msg(k))
      <4>1. m \in Msg(k) /\ chan[k][r] \in Seq(Msg(k))
        BY <1>2, <2>1, <2>2
      <4> HIDE DEF m
      <4> QED
        BY <4>1
    <3> QED
      BY <2>1, <3>1, <3>2
  <2>3. CASE k \notin DOMAIN out
    BY <1>1, <2>1, <2>3
  <2> QED
    BY <2>2, <2>3
<1>4. ASSUME NEW k \in Kinds
      PROVE  buf'[k] \in [Ranks -> SUBSET Msg(k)]
  <2>1. buf[k] \in [Ranks -> SUBSET Msg(k)]
    BY DEF BufOK
  <2>2. CASE k \in DOMAIN out
    <3> DEFINE m == Message(r, k, out[k], kept)
    <3>1. buf'[k] = [buf[k] EXCEPT ![r] = {m}]
      BY <1>1, <2>2
    <3>2. m \in Msg(k)
      BY <1>2, <2>2
    <3> HIDE DEF m
    <3> QED
      BY <2>1, <3>1, <3>2
  <2>3. CASE k \in done \ DOMAIN out
    BY <1>1, <2>1, <2>3
  <2>4. CASE k \notin DOMAIN out /\ k \notin done
    BY <1>1, <2>1, <2>4
  <2> QED
    BY <2>2, <2>3, <2>4
<1> QED
  BY <1>1, <1>3, <1>4 DEF ChanOK, BufOK

LEMMA DataTypes ==
    /\ Data("time") = Nat
    /\ Data("counts") = Counts /\ Data("ghostCounts") = Counts
    /\ Data("particles") = Beams /\ Data("ghostParticles") = Beams
  BY DEF Data

-----------------------------------------------------------------------------
(* Type correctness                                                        *)

LEMMA InitType == Init => TypeOK
<1> SUFFICES ASSUME Init
             PROVE  TypeOK
  OBVIOUS
<1>1. PICK place \in [ParticleId -> 0 .. 2 * NumBoxes - 1] :
        beam = [r \in Ranks |->
                  IF HasBeam(r)
                    THEN {[id |-> i, z |-> place[i], age |-> 0] : i \in ParticleId}
                    ELSE {}]
  BY DEF Init
<1>2. {[id |-> i, z |-> place[i], age |-> 0] : i \in ParticleId} \in Beams
  <2> DEFINE f == [i \in ParticleId |-> [id |-> i, z |-> place[i], age |-> 0]]
             S == {[id |-> i, z |-> place[i], age |-> 0] : i \in ParticleId}
  <2>1. S = {f[i] : i \in ParticleId}
    OBVIOUS
  <2>2. IsFiniteSet(S)
    <3>1. IsFiniteSet(ParticleId)
      BY PipelineAssumption
    <3> HIDE DEF f, S
    <3> QED
      BY <2>1, <3>1, FiniteImage
  <2>3. S \subseteq Particle
    BY Constants DEF Particle
  <2> QED
    BY <2>2, <2>3 DEF Beams
<1>3. beam \in [Ranks -> Beams]
  BY <1>1, <1>2, BeamsClosed
<1>4. ChanOK
  <2>2. \A k \in Kinds : <<>> \in Seq(Msg(k))
    BY EmptySeq
  <2> QED
    BY <2>2 DEF Init, ChanOK
<1>5. BufOK
  BY DEF Init, BufOK
<1> QED
  BY <1>3, <1>4, <1>5, Constants, BeamsClosed DEF Init, TypeOK, Labels, Ranks, Boxes

LEMMA NextType == TypeOK /\ [Next]_vars => TypeOK'
<1> SUFFICES ASSUME TypeOK, [Next]_vars
             PROVE  TypeOK'
  OBVIOUS
<1> USE DEF TypeOK
<1>1. ASSUME NEW r \in Ranks, StartStep(r)
      PROVE  TypeOK'
  BY <1>1 DEF StartStep, Goto, Labels, ChanOK, BufOK
<1>2. ASSUME NEW r \in Ranks, WaitReturns(r)
      PROVE  TypeOK'
  BY <1>2 DEF WaitReturns, Goto, Labels, ChanOK, BufOK
<1>3. ASSUME NEW r \in Ranks, WaitReceives(r)
      PROVE  TypeOK'
  <2> DEFINE n == Received("counts", r).data
             time == IF box[r] = N - 1 THEN {"time"} ELSE {}
             K == time \union WithParticles("counts", "particles", n.np)
  <2>1. K \in SUBSET Kinds /\ "counts" \in K
    BY KindsOfMessages DEF Kinds, Small, WithParticles
  <2>2. Receive(K, r)
    BY <1>3 DEF WaitReceives
  <2>3. ChanOK' /\ \A k \in K : Received(k, r).data \in Data(k)
    <3> HIDE DEF K
    <3> QED
      BY <2>1, <2>2, ReceiveType DEF Msg
  <2>4. n \in Counts
    BY <2>1, <2>3, DataTypes
  <2>5. physicalTime' \in [Ranks -> Nat]
    <3>1. CASE box[r] = N - 1
      <4>1. Received("time", r).data \in Nat
        BY <2>3, <3>1, DataTypes
      <4>2. physicalTime' = [physicalTime EXCEPT ![r] = Received("time", r).data]
        BY <1>3, <3>1 DEF WaitReceives
      <4> QED
        BY <4>1, <4>2
    <3>2. CASE box[r] # N - 1
      BY <1>3, <3>2 DEF WaitReceives
    <3> QED
      BY <3>1, <3>2
  <2>6. leftmostRcv' \in [Ranks -> 0 .. NumBoxes]
    <3>1. leftmostRcv' = [leftmostRcv EXCEPT ![r] = MinOf(n.leftmost, leftmostRcv[r])]
      BY <1>3 DEF WaitReceives
    <3>2. n.leftmost \in 0 .. NumBoxes
      BY <2>4 DEF Counts
    <3> HIDE DEF n
    <3> QED
      BY <3>1, <3>2, MinOfType
  <2>7. beam' \in [Ranks -> Beams]
    <3>1. CASE n.np > 0
      <4>1. Received("particles", r).data \in Beams
        BY <2>3, <3>1, DataTypes DEF WithParticles
      <4>2. beam' = [beam EXCEPT ![r] = beam[r] \union Received("particles", r).data]
        BY <1>3, <3>1 DEF WaitReceives
      <4>3. beam[r] \union Received("particles", r).data \in Beams
        BY <4>1, BeamsClosed
      <4> QED
        BY <4>2, <4>3
    <3>2. CASE ~ (n.np > 0)
      BY <1>3, <3>2 DEF WaitReceives
    <3> QED
      BY <3>1, <3>2
  <2> QED
    BY <1>3, <2>3, <2>5, <2>6, <2>7 DEF WaitReceives, Goto, Labels, BufOK
<1>4. ASSUME NEW r \in Ranks, SolveHead(r)
      PROVE  TypeOK'
  <2> DEFINE mine == InBox(beam[r], box[r])
             head == {p \in mine : p.z = HeadRegion(box[r])}
  <2>1. mine \in Beams /\ head \in Beams /\ mine \ head \in Beams
        /\ beam[r] \ mine \in Beams /\ LocalGhosts(r) \in Beams
    <3>1. /\ beam[r] \in Beams /\ mine \subseteq beam[r]
          /\ LocalGhosts(r) \subseteq beam[r]
      BY DEF InBox, LocalGhosts
    <3> QED
      BY <3>1, BeamsClosed
  <2>2. leftmostSnd' \in [Ranks -> 0 .. NumBoxes]
    <3>1. Leftmost(beam[r]) \in 0 .. NumBoxes
      <4>1. Leftmost(beam[r]) \in 0 .. N - 1
        BY LeftmostType DEF Ranks
      <4> QED
        BY <4>1, Constants
    <3>2. leftmostSnd' = [leftmostSnd EXCEPT ![r] = MinOf(Leftmost(beam[r]), leftmostSnd[r])]
      BY <1>4 DEF SolveHead
    <3> QED
      BY <3>1, <3>2, MinOfType
  <2>3. PICK S \in Pushed(head) : headBin' = [headBin EXCEPT ![r] = S]
    BY <1>4 DEF SolveHead
  <2>4. headBin' \in [Ranks -> Beams]
    BY <2>1, <2>3, PushedType
  <2>5. /\ ghosts' \in [Ranks -> Beams]
        /\ restBin' \in [Ranks -> Beams]
        /\ beam' \in [Ranks -> Beams]
    BY <1>4, <2>1 DEF SolveHead
  <2> QED
    BY <1>4, <2>2, <2>4, <2>5 DEF SolveHead, Goto, Labels, ChanOK, BufOK
<1>5. ASSUME NEW r \in Ranks, NotifyGhostReturns(r)
      PROVE  TypeOK'
  BY <1>5 DEF NotifyGhostReturns, Goto, Labels, ChanOK, BufOK
<1>6. ASSUME NEW r \in Ranks, NotifyGhostLastStep(r)
      PROVE  TypeOK'
  <2>1. ChanOK' /\ BufOK'
    <3>1. FinishAndSend(r, GhostKinds, <<>>) /\ DOMAIN <<>> = {}
      BY <1>6 DEF NotifyGhostLastStep
    <3> QED
      BY <3>1, SendType, KindsOfMessages
  <2> QED
    BY <1>6, <2>1 DEF NotifyGhostLastStep, Goto, Labels
<1>7. ASSUME NEW r \in Ranks, NotifyGhostSends(r)
      PROVE  TypeOK'
  <2> DEFINE np == Cardinality(headBin[r])
             kinds == IF SkipSend(r) THEN {}
                      ELSE WithParticles("ghostCounts", "ghostParticles", np)
             out == [k \in kinds |-> IF k = "ghostCounts"
                                       THEN [np |-> np, leftmost |-> Least(r)]
                                       ELSE headBin[r]]
  <2>1. Least(r) \in 0 .. NumBoxes
    BY MinOfType DEF Least
  <2>2. ASSUME NEW k \in DOMAIN out
        PROVE  k \in Kinds /\ out[k] \in Data(k)
    <3>1. k \in {"ghostCounts", "ghostParticles"}
      BY DEF WithParticles
    <3>2. np \in Nat
      BY BeamsClosed
    <3>3. [np |-> np, leftmost |-> Least(r)] \in Counts
      BY <2>1, <3>2 DEF Counts
    <3> QED
      BY <3>1, <3>3, DataTypes DEF Kinds, Small
  <2>3. ChanOK' /\ BufOK'
    <3>1. FinishAndSend(r, GhostKinds, out)
      BY <1>7 DEF NotifyGhostSends
    <3> HIDE DEF out
    <3> QED
      BY <2>2, <3>1, SendType, KindsOfMessages
  <2>4. leftmostSnd' \in [Ranks -> 0 .. NumBoxes]
    BY <1>7, <2>1 DEF NotifyGhostSends
  <2> QED
    BY <1>7, <2>3, <2>4 DEF NotifyGhostSends, Goto, Labels
<1>8. ASSUME NEW r \in Ranks, WaitGhostReturns(r)
      PROVE  TypeOK'
  BY <1>8 DEF WaitGhostReturns, Goto, Labels, ChanOK, BufOK
<1>9. ASSUME NEW r \in Ranks, WaitGhostReceives(r)
      PROVE  TypeOK'
  <2> DEFINE np == Received("ghostCounts", r).data.np
             K == WithParticles("ghostCounts", "ghostParticles", np)
  <2>1. Receive(K, r)
    BY <1>9 DEF WaitGhostReceives
  <2>2. ChanOK' /\ \A k \in K : Received(k, r).data \in Data(k)
    <3>1. K \in SUBSET Kinds
      BY KindsOfMessages
    <3> HIDE DEF K
    <3> QED
      BY <2>1, <3>1, ReceiveType DEF Msg
  <2>3. ghosts' \in [Ranks -> Beams]
    <3>1. CASE np > 0
      <4>1. Received("ghostParticles", r).data \in Beams
        BY <2>2, <3>1, DataTypes DEF WithParticles
      <4>2. ghosts' = [ghosts EXCEPT ![r] =
                         ghosts[r] \union Received("ghostParticles", r).data]
        BY <1>9, <3>1 DEF WaitGhostReceives
      <4>3. ghosts[r] \union Received("ghostParticles", r).data \in Beams
        BY <4>1, BeamsClosed
      <4> QED
        BY <4>2, <4>3
    <3>2. CASE ~ (np > 0)
      BY <1>9, <3>2 DEF WaitGhostReceives
    <3> QED
      BY <3>1, <3>2
  <2> QED
    BY <1>9, <2>2, <2>3 DEF WaitGhostReceives, Goto, Labels, BufOK
<1>10. ASSUME NEW r \in Ranks, SolveTail(r)
       PROVE  TypeOK'
  <2>1. PICK S \in Pushed(restBin[r]) : restBin' = [restBin EXCEPT ![r] = S]
    BY <1>10 DEF SolveTail
  <2>2. restBin' \in [Ranks -> Beams]
    BY <2>1, PushedType
  <2>3. nextSlice' \in [Ranks -> SUBSET ParticleId]
    <3>1. ghosts[r] \subseteq Particle
      BY DEF Beams
    <3> QED
      BY <1>10, <3>1 DEF SolveTail, Particle
  <2>4. ghosts' \in [Ranks -> Beams]
    BY <1>10, BeamsClosed DEF SolveTail
  <2> QED
    BY <1>10, <2>2, <2>3, <2>4 DEF SolveTail, Goto, Labels, ChanOK, BufOK
<1>11. ASSUME NEW r \in Ranks, Notify(r)
       PROVE  TypeOK'
  <2>1. Solved(r) \in Beams
    BY BeamsClosed DEF Solved
  <2>2. ASSUME KeepBox(r) \/ DropBox(r)
        PROVE  beam' \in [Ranks -> Beams]
    <3>1. beam[r] \union Solved(r) \in Beams /\ BelowBox(beam[r], box[r]) \in Beams
      BY <2>1, BeamsClosed DEF BelowBox
    <3> QED
      BY <2>2, <3>1 DEF KeepBox, DropBox
  <2>3. /\ ChanOK' /\ BufOK'
        /\ leftmostSnd' \in [Ranks -> 0 .. NumBoxes]
        /\ beam' \in [Ranks -> Beams]
    <3>1. CASE UseMPI /\ NotifyLastStep(r)
      <4>1. FinishAndSend(r, FinishKinds(box[r]), <<>>) /\ DOMAIN <<>> = {}
        BY <3>1 DEF NotifyLastStep
      <4>2. ChanOK' /\ BufOK'
        BY <4>1, SendType, KindsOfMessages
      <4> QED
        BY <2>2, <3>1, <4>2 DEF NotifyLastStep
    <3>2. CASE UseMPI /\ NotifySends(r)
      <4> DEFINE np == Cardinality(Solved(r))
                 time == IF box[r] = N - 1 THEN {"time"} ELSE {}
                 kinds == time \union (IF SkipSend(r) THEN {}
                                       ELSE WithParticles("counts", "particles", np))
                 out == [k \in kinds |->
                           CASE k = "time" -> TimeToSend(r)
                             [] k = "counts" -> [np |-> np, leftmost |-> Least(r)]
                             [] OTHER -> Solved(r)]
      <4>1. Least(r) \in 0 .. NumBoxes
        BY MinOfType DEF Least
      <4>2. ASSUME NEW k \in DOMAIN out
            PROVE  k \in Kinds /\ out[k] \in Data(k)
        <5>1. k \in {"time", "counts", "particles"}
          BY DEF WithParticles
        <5>2. [np |-> np, leftmost |-> Least(r)] \in Counts
          BY <2>1, <4>1, BeamsClosed DEF Counts
        <5>3. TimeToSend(r) \in Nat
          BY DEF TimeToSend
        <5> QED
          BY <2>1, <5>1, <5>2, <5>3, DataTypes DEF Kinds, Small
      <4>3. /\ FinishAndSend(r, FinishKinds(box[r]), out)
            /\ KeepBox(r) \/ DropBox(r)
            /\ leftmostSnd' = [leftmostSnd EXCEPT ![r] = Least(r)]
        BY <3>2 DEF NotifySends
      <4>4. ChanOK' /\ BufOK'
        <5> HIDE DEF out
        <5> QED
          BY <4>2, <4>3, SendType, KindsOfMessages
      <4> QED
        BY <2>2, <4>1, <4>3, <4>4
    <3>3. CASE ~UseMPI
      BY <1>11, <2>2, <3>3 DEF Notify, ChanOK, BufOK
    <3> QED
      BY <1>11, <3>1, <3>2, <3>3 DEF Notify
  <2>4. /\ pc' \in [Ranks -> Labels]
        /\ step' \in [Ranks -> Nat]
        /\ box' \in [Ranks -> Boxes]
        /\ physicalTime' \in [Ranks -> Nat]
    <3>1. NextBox(r)
      BY <1>11 DEF Notify
    <3>2. CASE IsLastBox(box[r])
      <4>1. NumBoxes - 1 \in Boxes
        BY Constants
      <4>2. step[r] + N \in Nat /\ physicalTime[r] + 1 \in Nat
        <5>1. step[r] \in Nat /\ physicalTime[r] \in Nat /\ N \in Nat
          BY Constants
        <5> QED
          BY <5>1
      <4>3. /\ box' = [box EXCEPT ![r] = NumBoxes - 1]
            /\ pc' = [pc EXCEPT ![r] = "StartStep"]
            /\ step' = [step EXCEPT ![r] = step[r] + N]
            /\ physicalTime' = [physicalTime EXCEPT ![r] = physicalTime[r] + 1]
        BY <3>1, <3>2 DEF NextBox, Goto
      <4>4. pc' \in [Ranks -> Labels]
        BY <4>3 DEF Labels
      <4>5. box' \in [Ranks -> Boxes]
        BY <4>1, <4>3
      <4>6. step' \in [Ranks -> Nat] /\ physicalTime' \in [Ranks -> Nat]
        BY <4>2, <4>3
      <4> QED
        BY <4>4, <4>5, <4>6
    <3>3. CASE ~IsLastBox(box[r])
      <4>1. box[r] - 1 \in Boxes
        <5>1. box[r] \in 0 .. NumBoxes - 1 /\ box[r] # 0
          BY <3>3, Constants DEF IsLastBox
        <5>2. NumBoxes \in Nat /\ Boxes = 0 .. NumBoxes - 1
          BY Constants
        <5> HIDE DEF TypeOK
        <5> QED
          BY ONLY <5>1, <5>2
      <4>2. /\ box' = [box EXCEPT ![r] = box[r] - 1]
            /\ pc' = [pc EXCEPT ![r] = "Wait"]
            /\ step' = step /\ physicalTime' = physicalTime
        BY <3>1, <3>3 DEF NextBox, Goto
      <4>3. pc' \in [Ranks -> Labels]
        BY <4>2 DEF Labels
      <4>4. box' \in [Ranks -> Boxes]
        BY <4>1, <4>2
      <4>5. step' \in [Ranks -> Nat] /\ physicalTime' \in [Ranks -> Nat]
        BY <4>2
      <4> QED
        BY <4>3, <4>4, <4>5
    <3> QED
      BY <3>2, <3>3
  <2>5. headBin' \in [Ranks -> Beams] /\ restBin' \in [Ranks -> Beams]
    BY <1>11, BeamsClosed DEF Notify
  <2> QED
    BY <1>11, <2>3, <2>4, <2>5 DEF Notify
<1>12. ASSUME NEW r \in Ranks, Destroy(r)
       PROVE  TypeOK'
  <2>1. BufOK'
    BY <1>12 DEF Destroy, BufOK
  <2> QED
    BY <1>12, <2>1 DEF Destroy, Goto, Labels, ChanOK
<1>13. CASE UNCHANGED vars
  BY <1>13 DEF vars, ChanOK, BufOK
<1> QED
  BY <1>1, <1>2, <1>3, <1>4, <1>5, <1>6, <1>7, <1>8, <1>9, <1>10, <1>11, <1>12, <1>13
     DEF Next, RankNext, Terminating

\* The handlers never leave the types, whatever the number of ranks, steps and
\* particles: in particular leftmostBoxWithParticles is always a box, and no
\* receive delivers a message of another kind.
THEOREM TypeCorrect == Spec => []TypeOK
<1>1. Init => TypeOK
  BY InitType
<1>2. TypeOK /\ [Next]_vars => TypeOK'
  BY NextType
<1> QED
  BY <1>1, <1>2, PTL DEF Spec

-----------------------------------------------------------------------------
(***************************************************************************)
(* Messages                                                                *)
(***************************************************************************)

-----------------------------------------------------------------------------
(* Chains and pairs of messages                                            *)

LEMMA PrecedesTransitive ==
    ASSUME NEW a \in Int, NEW b \in Int, NEW c \in Int, NEW d \in Int, NEW e \in Int,
           NEW f \in Int, Precedes(<<a, b>>, <<c, d>>), Precedes(<<c, d>>, <<e, f>>)
    PROVE  Precedes(<<a, b>>, <<e, f>>)
  BY DEF Precedes

LEMMA AfterFollows ==
    ASSUME NEW k, NEW s \in Int, NEW b \in Int
    PROVE  /\ Precedes(<<s, b>>, After(k, <<s, b>>))
           /\ After(k, <<s, b>>)[1] \in Int /\ After(k, <<s, b>>)[2] \in Int
  BY Constants DEF Precedes, After, FirstBox

\* Sending the message a chain expects next extends the chain.
LEMMA ChainAppend ==
    ASSUME NEW k, NEW M, NEW c \in Seq(M), NEW m \in M, NEW first, NEW last,
           \A n \in M : n.step \in Nat /\ n.box \in Int,
           Chain(k, c, first, last), Label(m) = last, m.ref = ~EagerSmall
    PROVE  Chain(k, Append(c, m), first, After(k, last))
<1> DEFINE d == Append(c, m)
<1>1. /\ Len(c) \in Nat /\ Len(d) = Len(c) + 1 /\ d # <<>>
      /\ \A i \in 1 .. Len(c) : d[i] = c[i] /\ c[i] \in M
      /\ d[Len(d)] = m
  BY AppendProperties
<1>2. Label(d[1]) = first
  BY <1>1 DEF Chain
<1>3. \A i \in 1 .. Len(d) - 1 : Label(d[i + 1]) = After(k, Label(d[i]))
  BY <1>1 DEF Chain
<1>4. \A i, j \in 1 .. Len(d) : i < j => Precedes(Label(d[i]), Label(d[j]))
  <2>1. ASSUME NEW i \in 1 .. Len(c)
        PROVE  Precedes(Label(c[i]), Label(m))
    <3> DEFINE n == c[Len(c)]
    <3>1. Len(c) \in 1 .. Len(c)
      BY <1>1
    <3>2. c[i] \in M /\ n \in M
      BY <1>1, <3>1
    <3>3. Label(m) = After(k, Label(n))
      BY <1>1 DEF Chain
    <3>4. i = Len(c) \/ Precedes(Label(c[i]), Label(n))
      BY <1>1, <3>1 DEF Chain
    <3> HIDE DEF n
    <3>5. Precedes(Label(n), After(k, Label(n)))
      <4>1. n.step \in Int /\ n.box \in Int
        BY <3>2
      <4> QED
        BY <4>1, AfterFollows DEF Label
    <3>6. CASE i = Len(c)
      BY <3>3, <3>5, <3>6 DEF n
    <3>7. CASE Precedes(Label(c[i]), Label(n))
      <4>1. After(k, Label(n)) = Label(m) /\ m.step \in Nat /\ m.box \in Int
        BY <3>3
      <4>2. /\ n.step \in Int /\ n.box \in Int
            /\ c[i].step \in Int /\ c[i].box \in Int
        BY <3>2
      <4>3. Precedes(<<n.step, n.box>>, <<m.step, m.box>>)
        BY <3>3, <3>5 DEF Label
      <4> QED
        BY <3>7, <4>1, <4>2, <4>3, PrecedesTransitive DEF Label
    <3> QED
      BY <3>4, <3>6, <3>7
  <2>2. ASSUME NEW i \in 1 .. Len(d), NEW j \in 1 .. Len(d), i < j
        PROVE  Precedes(Label(d[i]), Label(d[j]))
    <3>1. i \in 1 .. Len(c) /\ d[i] = c[i]
      BY <1>1, <2>2
    <3>2. CASE j = Len(d)
      BY <1>1, <2>1, <3>1, <3>2
    <3>3. CASE j # Len(d)
      <4>1. j \in 1 .. Len(c) /\ d[j] = c[j]
        BY <1>1, <3>3
      <4> QED
        BY <2>2, <3>1, <4>1 DEF Chain
    <3> QED
      BY <3>2, <3>3
  <2> QED
    BY <2>2
<1>5. \A i \in 1 .. Len(d) : d[i].ref = ~EagerSmall
  BY <1>1 DEF Chain
<1> HIDE DEF d
<1>6. d # <<>> => Label(d[1]) = first /\ After(k, Label(d[Len(d)])) = After(k, last)
  BY <1>1, <1>2
<1>7. Chain(k, d, first, After(k, last))
  BY <1>1, <1>3, <1>4, <1>5, <1>6, Zenon DEF Chain
<1> QED
  BY <1>7 DEF d

LEMMA ChainSteps ==
    ASSUME NEW k, NEW M, NEW c \in Seq(M), \A n \in M : n.step \in Nat,
           NEW first, NEW last, Chain(k, c, first, last)
    PROVE  \A i, j \in 1 .. Len(c) : i < j => c[i].step <= c[j].step
<1>1. SUFFICES ASSUME NEW i \in 1 .. Len(c), NEW j \in 1 .. Len(c), i < j
               PROVE  c[i].step <= c[j].step
  OBVIOUS
<1>2. Precedes(Label(c[i]), Label(c[j]))
  BY <1>1 DEF Chain
<1>3. c[i] \in M /\ c[j] \in M
  BY ElementOfSeq
<1> QED
  BY <1>2, <1>3 DEF Precedes, Label

\* What is sent next is never before what is received next.
LEMMA ChainBounds ==
    ASSUME NEW k, NEW M, NEW c \in Seq(M),
           \A n \in M : n.step \in Nat /\ n.box \in Int,
           NEW first, NEW last, Chain(k, c, first, last)
    PROVE  first = last \/ Precedes(first, last)
<1>1. CASE c = <<>>
  BY <1>1 DEF Chain
<1>2. CASE c # <<>>
  <2> DEFINE m == c[1]
             n == c[Len(c)]
  <2>1. Len(c) \in Nat \ {0} /\ m \in M /\ n \in M
    BY <1>2, EmptySeq, ElementOfSeq
  <2>2. Label(m) = first /\ After(k, Label(n)) = last
    BY <1>2, <2>1, Zenon DEF Chain
  <2>3. Len(c) = 1 \/ Precedes(Label(m), Label(n))
    <3>1. Len(c) \in Nat /\ Len(c) >= 1
      BY <1>2, EmptySeq
    <3>2. Len(c) = 1 \/ 1 < Len(c)
      BY <3>1
    <3>3. 1 \in 1 .. Len(c) /\ Len(c) \in 1 .. Len(c)
      BY <3>1
    <3> QED
      BY <3>2, <3>3, Zenon DEF Chain
  <2>4. /\ Precedes(Label(n), last)
        /\ last = <<last[1], last[2]>> /\ last[1] \in Int /\ last[2] \in Int
    <3>1. n.step \in Int /\ n.box \in Int
      BY <2>1
    <3>2. last = After(k, <<n.step, n.box>>)
      BY <2>2 DEF Label
    <3>3. last = <<last[1], last[2]>>
      BY <3>2 DEF After
    <3> QED
      BY <3>1, <3>2, <3>3, AfterFollows DEF Label
  <2>5. CASE Len(c) = 1
    BY <2>2, <2>4, <2>5
  <2> HIDE DEF m, n
  <2>6. CASE Precedes(Label(m), Label(n))
    <3>1. m.step \in Int /\ m.box \in Int /\ n.step \in Int /\ n.box \in Int
      BY <2>1
    <3>2. Precedes(Label(m), last)
      BY <2>4, <2>6, <3>1, PrecedesTransitive DEF Label
    <3> QED
      BY <2>2, <3>2
  <2> QED
    BY <2>3, <2>5, <2>6
<1> QED
  BY <1>1, <1>2

\* Receiving the first message of a chain moves its first label on.
LEMMA ChainTail ==
    ASSUME NEW k, NEW M, NEW c \in Seq(M), c # <<>>, NEW first, NEW last,
           Chain(k, c, first, last)
    PROVE  /\ Label(c[1]) = first
           /\ Chain(k, Tail(c), After(k, first), last)
<1> DEFINE d == Tail(c)
<1>1. /\ Len(c) \in Nat \ {0} /\ Len(d) = Len(c) - 1
      /\ \A i \in 1 .. Len(d) : d[i] = c[i + 1]
      /\ d = <<>> <=> Len(c) = 1
  <2>1. Len(c) \in Nat \ {0}
    BY EmptySeq
  <2>2. /\ d \in Seq(M) /\ Len(d) = Len(c) - 1
        /\ \A i \in 1 .. Len(d) : d[i] = c[i + 1]
    BY HeadTailProperties
  <2> HIDE DEF d
  <2>3. d = <<>> <=> Len(d) = 0
    BY <2>2, EmptySeq
  <2> QED
    BY <2>1, <2>2, <2>3
<1>2. Label(c[1]) = first
  BY DEF Chain
<1>3. d = <<>> => After(k, first) = last
  BY <1>1, <1>2 DEF Chain
<1>4. d # <<>> => Label(d[1]) = After(k, first) /\ After(k, Label(d[Len(d)])) = last
  BY <1>1, <1>2 DEF Chain
<1>5. \A i \in 1 .. Len(d) - 1 : Label(d[i + 1]) = After(k, Label(d[i]))
  BY <1>1 DEF Chain
<1>6. \A i, j \in 1 .. Len(d) : i < j => Precedes(Label(d[i]), Label(d[j]))
  BY <1>1 DEF Chain
<1>7. \A i \in 1 .. Len(d) : d[i].ref = ~EagerSmall
  BY <1>1 DEF Chain
<1> HIDE DEF d
<1>8. Chain(k, d, After(k, first), last)
  BY <1>3, <1>4, <1>5, <1>6, <1>7, Zenon DEF Chain
<1> QED
  BY <1>2, <1>8 DEF d

\* A count of zero may be sent alone.
LEMMA PairedAppendCount ==
    ASSUME NEW C, NEW P, NEW c \in Seq(C), NEW p \in Seq(P), NEW n \in C,
           Paired(c, p), ~ (n.data.np > 0)
    PROVE  Paired(Append(c, n), p)
<1>1. PICK f \in [1 .. Len(p) -> 1 .. Len(c)] : Pairs(f, c, p)
  BY DEF Paired
<1> DEFINE d == Append(c, n)
<1>2. /\ Len(c) \in Nat /\ Len(d) = Len(c) + 1
      /\ \A i \in 1 .. Len(c) : d[i] = c[i]
      /\ d[Len(c) + 1] = n
  BY AppendProperties
<1>3. f \in [1 .. Len(p) -> 1 .. Len(d)]
  BY <1>2
<1>4. Pairs(f, d, p)
  BY <1>1, <1>2 DEF Pairs
<1> HIDE DEF d
<1>5. Paired(d, p)
  BY <1>3, <1>4 DEF Paired
<1> QED
  BY <1>5 DEF d

\* A count above zero is sent with its particles.
LEMMA PairedAppendBoth ==
    ASSUME NEW C, NEW P, NEW c \in Seq(C), NEW p \in Seq(P), NEW n \in C, NEW m \in P,
           Paired(c, p), Announces(n, m)
    PROVE  Paired(Append(c, n), Append(p, m))
<1>1. PICK f \in [1 .. Len(p) -> 1 .. Len(c)] : Pairs(f, c, p)
  BY DEF Paired
<1> DEFINE d == Append(c, n)
           q == Append(p, m)
           g == [i \in 1 .. Len(p) + 1 |-> IF i = Len(p) + 1 THEN Len(c) + 1 ELSE f[i]]
<1>2. /\ Len(c) \in Nat /\ Len(d) = Len(c) + 1
      /\ \A i \in 1 .. Len(c) : d[i] = c[i]
      /\ d[Len(c) + 1] = n
  BY AppendProperties
<1>3. /\ Len(p) \in Nat /\ Len(q) = Len(p) + 1
      /\ \A i \in 1 .. Len(p) : q[i] = p[i]
      /\ q[Len(p) + 1] = m
  BY AppendProperties
<1>4. \A i \in 1 .. Len(p) : g[i] = f[i] /\ f[i] \in 1 .. Len(c)
  BY <1>3
<1>5. g[Len(p) + 1] = Len(c) + 1
  BY <1>3
<1>6. g \in [1 .. Len(q) -> 1 .. Len(d)]
  BY <1>2, <1>3, <1>4
<1> HIDE DEF d, q, g
<1>7. \A i, j \in 1 .. Len(q) : i < j => g[i] < g[j]
  <2>1. \A i, j \in 1 .. Len(p) : i < j => f[i] < f[j]
    BY <1>1 DEF Pairs
  <2> QED
    BY <1>2, <1>3, <1>4, <1>5, <2>1
<1>8. \A i \in 1 .. Len(q) : Announces(d[g[i]], q[i])
  <2>1. \A i \in 1 .. Len(p) : Announces(c[f[i]], p[i])
    BY <1>1 DEF Pairs
  <2>2. ASSUME NEW i \in 1 .. Len(q)
        PROVE  Announces(d[g[i]], q[i])
    <3>1. CASE i = Len(p) + 1
      BY <1>2, <1>3, <1>5, <3>1
    <3>2. CASE i # Len(p) + 1
      <4>1. i \in 1 .. Len(p)
        BY <1>3, <3>2
      <4>2. d[g[i]] = c[f[i]] /\ q[i] = p[i]
        BY <1>2, <1>3, <1>4, <4>1
      <4> QED
        BY <2>1, <4>1, <4>2
    <3> QED
      BY <3>1, <3>2
  <2> QED
    BY <2>2
<1>9. \A j \in 1 .. Len(d) : d[j].data.np > 0 => \E i \in 1 .. Len(q) : g[i] = j
  <2>1. \A j \in 1 .. Len(c) : c[j].data.np > 0 => \E i \in 1 .. Len(p) : f[i] = j
    BY <1>1 DEF Pairs
  <2>2. ASSUME NEW j \in 1 .. Len(d), d[j].data.np > 0
        PROVE  \E i \in 1 .. Len(q) : g[i] = j
    <3>1. CASE j = Len(c) + 1
      BY <1>3, <1>5, <3>1
    <3>2. CASE j # Len(c) + 1
      <4>1. j \in 1 .. Len(c) /\ c[j].data.np > 0
        BY <1>2, <2>2, <3>2
      <4> QED
        BY <1>3, <1>4, <2>1, <4>1
    <3> QED
      BY <3>1, <3>2
  <2> QED
    BY <2>2
<1>10. Paired(d, q)
  BY <1>6, <1>7, <1>8, <1>9 DEF Paired, Pairs
<1> QED
  BY <1>10 DEF d, q

\* The first count announces the first particles, and both may be received.
LEMMA PairedTail ==
    ASSUME NEW C, NEW P, NEW c \in Seq(C), NEW p \in Seq(P), c # <<>>, Paired(c, p)
    PROVE  /\ c[1].data.np > 0 => p # <<>> /\ Announces(c[1], p[1])
                                  /\ Paired(Tail(c), Tail(p))
           /\ ~ (c[1].data.np > 0) => Paired(Tail(c), p)
<1>1. PICK f \in [1 .. Len(p) -> 1 .. Len(c)] : Pairs(f, c, p)
  BY DEF Paired
<1>2. /\ \A i, j \in 1 .. Len(p) : i < j => f[i] < f[j]
      /\ \A i \in 1 .. Len(p) : Announces(c[f[i]], p[i])
      /\ \A j \in 1 .. Len(c) : c[j].data.np > 0 => \E i \in 1 .. Len(p) : f[i] = j
  BY <1>1 DEF Pairs
<1> DEFINE d == Tail(c)
<1>3. /\ Len(c) \in Nat \ {0} /\ Len(d) = Len(c) - 1 /\ Len(p) \in Nat
      /\ \A i \in 1 .. Len(d) : d[i] = c[i + 1]
  BY HeadTailProperties, EmptySeq
<1> HIDE DEF d
<1>4. \A i \in 1 .. Len(p) : f[i] \in 1 .. Len(c)
  OBVIOUS
<1>5. ASSUME c[1].data.np > 0
      PROVE  p # <<>> /\ Announces(c[1], p[1]) /\ Paired(d, Tail(p))
  <2>1. PICK i \in 1 .. Len(p) : f[i] = 1
    BY <1>2, <1>3, <1>5
  <2>2. 1 \in 1 .. Len(p) /\ f[1] = 1
    BY <1>2, <1>3, <1>4, <2>1
  <2>3. p # <<>>
    BY <2>2, EmptySeq
  <2> DEFINE q == Tail(p)
             g == [j \in 1 .. Len(p) - 1 |-> f[j + 1] - 1]
  <2>4. /\ Len(q) = Len(p) - 1
        /\ \A j \in 1 .. Len(q) : q[j] = p[j + 1]
    BY <2>3, HeadTailProperties
  <2>5. \A j \in 1 .. Len(q) :
          /\ j + 1 \in 1 .. Len(p)
          /\ g[j] = f[j + 1] - 1
          /\ g[j] \in 1 .. Len(d)
    <3>1. \A j \in 1 .. Len(q) : j + 1 \in 1 .. Len(p) /\ 1 < j + 1
      BY <1>3, <2>4
    <3>2. \A j \in 1 .. Len(q) : f[j + 1] \in 1 .. Len(c) /\ 1 < f[j + 1]
      BY <1>2, <1>4, <2>2, <3>1
    <3> QED
      BY <1>3, <2>4, <3>1, <3>2
  <2>6. g \in [1 .. Len(q) -> 1 .. Len(d)]
    BY <2>4, <2>5
  <2> HIDE DEF q, g
  <2>7. \A h, j \in 1 .. Len(q) : h < j => g[h] < g[j]
    <3>1. ASSUME NEW h \in 1 .. Len(q), NEW j \in 1 .. Len(q), h < j
          PROVE  g[h] < g[j]
      <4>1. h + 1 < j + 1 /\ h + 1 \in 1 .. Len(p) /\ j + 1 \in 1 .. Len(p)
        BY <1>3, <2>4, <2>5, <3>1
      <4>2. f[h + 1] < f[j + 1] /\ f[h + 1] \in Int /\ f[j + 1] \in Int
        BY <1>2, <1>4, <4>1
      <4> QED
        BY <2>5, <4>2
    <3> QED
      BY <3>1
  <2>8. \A j \in 1 .. Len(q) : Announces(d[g[j]], q[j])
    <3>1. ASSUME NEW j \in 1 .. Len(q)
          PROVE  Announces(d[g[j]], q[j])
      <4>1. d[g[j]] = c[f[j + 1]] /\ q[j] = p[j + 1]
        <5>1. j + 1 \in 1 .. Len(p) /\ f[j + 1] \in Int /\ g[j] + 1 = f[j + 1]
          BY <1>4, <2>5
        <5> QED
          BY <1>3, <2>4, <2>5, <5>1
      <4> QED
        BY <1>2, <2>5, <4>1
    <3> QED
      BY <3>1
  <2>9. \A j \in 1 .. Len(d) : d[j].data.np > 0 => \E k \in 1 .. Len(q) : g[k] = j
    <3>1. ASSUME NEW j \in 1 .. Len(d), d[j].data.np > 0
          PROVE  \E k \in 1 .. Len(q) : g[k] = j
      <4>1. PICK k \in 1 .. Len(p) : f[k] = j + 1
        <5>1. j + 1 \in 1 .. Len(c) /\ c[j + 1].data.np > 0
          BY <1>3, <3>1
        <5> QED
          BY <1>2, <5>1
      <4>2. k # 1
        BY <2>2, <4>1
      <4>3. k - 1 \in 1 .. Len(q) /\ g[k - 1] = f[(k - 1) + 1] - 1 /\ (k - 1) + 1 = k
        BY <1>3, <2>4, <2>5, <4>2
      <4> QED
        BY <4>1, <4>3
    <3> QED
      BY <3>1
  <2>10. Paired(d, q)
    BY <2>6, <2>7, <2>8, <2>9 DEF Paired, Pairs
  <2>11. Announces(c[1], p[1])
    BY <1>2, <2>2
  <2> QED
    BY <2>3, <2>10, <2>11 DEF q
<1>6. ASSUME ~ (c[1].data.np > 0)
      PROVE  Paired(d, p)
  <2> DEFINE g == [j \in 1 .. Len(p) |-> f[j] - 1]
  <2>1. \A j \in 1 .. Len(p) : f[j] # 1
    BY <1>2, <1>6 DEF Announces
  <2>2. \A j \in 1 .. Len(p) : g[j] = f[j] - 1 /\ g[j] \in 1 .. Len(d)
    BY <1>3, <1>4, <2>1
  <2>3. g \in [1 .. Len(p) -> 1 .. Len(d)]
    BY <2>2
  <2> HIDE DEF g
  <2>4. \A i, j \in 1 .. Len(p) : i < j => g[i] < g[j]
    BY <1>2, <1>3, <1>4, <2>2
  <2>5. \A j \in 1 .. Len(p) : Announces(d[g[j]], p[j])
    <3>1. \A j \in 1 .. Len(p) : d[g[j]] = c[f[j]]
      BY <1>3, <1>4, <2>2
    <3> QED
      BY <1>2, <3>1
  <2>6. \A j \in 1 .. Len(d) : d[j].data.np > 0 => \E k \in 1 .. Len(p) : g[k] = j
    <3>1. ASSUME NEW j \in 1 .. Len(d), d[j].data.np > 0
          PROVE  \E k \in 1 .. Len(p) : g[k] = j
      <4>1. PICK k \in 1 .. Len(p) : f[k] = j + 1
        <5>1. j + 1 \in 1 .. Len(c) /\ c[j + 1].data.np > 0
          BY <1>3, <3>1
        <5> QED
          BY <1>2, <5>1
      <4>2. g[k] = j
        BY <1>3, <2>2, <4>1
      <4> QED
        BY <4>2
    <3> QED
      BY <3>1
  <2> QED
    BY <2>3, <2>4, <2>5, <2>6 DEF Paired, Pairs
<1> QED
  BY <1>5, <1>6 DEF d

-----------------------------------------------------------------------------
(* Where the sender and the receiver of a channel are                      *)

\* A handler without a message of kind k leaves its positions where they are.
LEMMA PositionsStay ==
    ASSUME NEW s \in Nat, NEW b \in 0 .. N - 1, s <= MaxStep
    PROVE  /\ \A k \in Heads :
                /\ SendAt(k, s, b, "Wait") = SendAt(k, s, b, "StartStep")
                /\ SendAt(k, s, b, "SolveHead") = SendAt(k, s, b, "Wait")
                /\ SendAt(k, s, b, "NotifyGhost") = SendAt(k, s, b, "SolveHead")
                /\ s >= MaxStep \/ b = N - 1 =>
                     SendAt(k, s, b, "WaitGhost") = SendAt(k, s, b, "NotifyGhost")
                /\ SendAt(k, s, b, "SolveTail") = SendAt(k, s, b, "WaitGhost")
                /\ SendAt(k, s, b, "Notify") = SendAt(k, s, b, "SolveTail")
           /\ \A k \in Heads :
                /\ RecvAt(k, s, b, "Wait") = RecvAt(k, s, b, "StartStep")
                /\ s = 0 => RecvAt(k, s, b, "SolveHead") = RecvAt(k, s, b, "Wait")
                /\ RecvAt(k, s, b, "NotifyGhost") = RecvAt(k, s, b, "SolveHead")
                /\ RecvAt(k, s, b, "WaitGhost") = RecvAt(k, s, b, "NotifyGhost")
                /\ s = 0 \/ b = 0 =>
                     RecvAt(k, s, b, "SolveTail") = RecvAt(k, s, b, "WaitGhost")
                /\ RecvAt(k, s, b, "Notify") = RecvAt(k, s, b, "SolveTail")
<1> USE Constants
<1> SUFFICES ASSUME NEW k \in Heads
             PROVE  /\ SendAt(k, s, b, "Wait") = SendAt(k, s, b, "StartStep")
                    /\ SendAt(k, s, b, "SolveHead") = SendAt(k, s, b, "Wait")
                    /\ SendAt(k, s, b, "NotifyGhost") = SendAt(k, s, b, "SolveHead")
                    /\ s >= MaxStep \/ b = N - 1 =>
                         SendAt(k, s, b, "WaitGhost") = SendAt(k, s, b, "NotifyGhost")
                    /\ SendAt(k, s, b, "SolveTail") = SendAt(k, s, b, "WaitGhost")
                    /\ SendAt(k, s, b, "Notify") = SendAt(k, s, b, "SolveTail")
                    /\ RecvAt(k, s, b, "Wait") = RecvAt(k, s, b, "StartStep")
                    /\ s = 0 => RecvAt(k, s, b, "SolveHead") = RecvAt(k, s, b, "Wait")
                    /\ RecvAt(k, s, b, "NotifyGhost") = RecvAt(k, s, b, "SolveHead")
                    /\ RecvAt(k, s, b, "WaitGhost") = RecvAt(k, s, b, "NotifyGhost")
                    /\ s = 0 \/ b = 0 =>
                         RecvAt(k, s, b, "SolveTail") = RecvAt(k, s, b, "WaitGhost")
                    /\ RecvAt(k, s, b, "Notify") = RecvAt(k, s, b, "SolveTail")
  OBVIOUS
<1>1. CASE k = "time"
  BY <1>1 DEF SendAt, RecvAt
<1>2. CASE k = "counts"
  BY <1>2 DEF SendAt, RecvAt
<1>3. CASE k = "ghostCounts"
  BY <1>3 DEF SendAt, RecvAt, FirstBox
<1> QED
  BY <1>1, <1>2, <1>3 DEF Heads

\* The end of a box: nothing is received, and before the last step the counts,
\* and in the first box the time, are sent.
LEMMA PositionsAtBox ==
    ASSUME NEW s \in Nat, NEW b \in 0 .. N - 1, s <= MaxStep, b # 0
    PROVE  /\ \A k \in Heads : RecvAt(k, s, b - 1, "Wait") = RecvAt(k, s, b, "Notify")
           /\ s = MaxStep =>
                \A k \in Heads : SendAt(k, s, b - 1, "Wait") = SendAt(k, s, b, "Notify")
           /\ s < MaxStep =>
                /\ SendAt("counts", s, b, "Notify") = <<s, b>>
                /\ SendAt("counts", s, b - 1, "Wait") = After("counts", <<s, b>>)
                /\ b = N - 1 =>
                     /\ SendAt("time", s, b, "Notify") = <<s, b>>
                     /\ SendAt("time", s, b - 1, "Wait") = After("time", <<s, b>>)
                /\ b # N - 1 =>
                     SendAt("time", s, b - 1, "Wait") = SendAt("time", s, b, "Notify")
                /\ N > 1 =>
                     SendAt("ghostCounts", s, b - 1, "Wait")
                       = SendAt("ghostCounts", s, b, "Notify")
<1> USE Constants
<1>1. RecvAt("time", s, b - 1, "Wait") = RecvAt("time", s, b, "Notify")
  BY DEF RecvAt, FirstBox
<1>2. RecvAt("counts", s, b - 1, "Wait") = RecvAt("counts", s, b, "Notify")
  BY DEF RecvAt, After, LastBox, FirstBox
<1>3. N > 1 => RecvAt("ghostCounts", s, b - 1, "Wait") = RecvAt("ghostCounts", s, b, "Notify")
  BY DEF RecvAt, FirstBox
<1>4. s = MaxStep =>
        \A k \in Heads : SendAt(k, s, b - 1, "Wait") = SendAt(k, s, b, "Notify")
  BY DEF SendAt, FirstBox
<1>5. s < MaxStep =>
        /\ SendAt("counts", s, b, "Notify") = <<s, b>>
        /\ SendAt("counts", s, b - 1, "Wait") = After("counts", <<s, b>>)
  BY DEF SendAt, After, LastBox, FirstBox
<1>6. s < MaxStep /\ b = N - 1 =>
        /\ SendAt("time", s, b, "Notify") = <<s, b>>
        /\ SendAt("time", s, b - 1, "Wait") = After("time", <<s, b>>)
  BY DEF SendAt, After, LastBox, FirstBox
<1>7. s < MaxStep /\ b # N - 1 =>
        SendAt("time", s, b - 1, "Wait") = SendAt("time", s, b, "Notify")
  BY DEF SendAt, After, LastBox, FirstBox
<1>8. s < MaxStep /\ N > 1 =>
        SendAt("ghostCounts", s, b - 1, "Wait") = SendAt("ghostCounts", s, b, "Notify")
  BY DEF SendAt, After, LastBox, FirstBox
<1> QED
  BY <1>1, <1>2, <1>3, <1>4, <1>5, <1>6, <1>7, <1>8 DEF Heads

\* The same at the end of the last box, where the next step starts.
LEMMA PositionsAtLastBox ==
    ASSUME NEW s \in Nat, NEW b \in 0 .. N - 1, s <= MaxStep, b = 0
    PROVE  /\ \A k \in Heads : RecvAt(k, s + N, N - 1, "StartStep") = RecvAt(k, s, b, "Notify")
           /\ s = MaxStep =>
                \A k \in Heads : SendAt(k, s + N, N - 1, "StartStep") = SendAt(k, s, b, "Notify")
           /\ s < MaxStep =>
                /\ SendAt("counts", s, b, "Notify") = <<s, b>>
                /\ SendAt("counts", s + N, N - 1, "StartStep") = After("counts", <<s, b>>)
                /\ b = N - 1 =>
                     /\ SendAt("time", s, b, "Notify") = <<s, b>>
                     /\ SendAt("time", s + N, N - 1, "StartStep") = After("time", <<s, b>>)
                /\ b # N - 1 =>
                     SendAt("time", s + N, N - 1, "StartStep") = SendAt("time", s, b, "Notify")
                /\ N > 1 =>
                     SendAt("ghostCounts", s + N, N - 1, "StartStep")
                       = SendAt("ghostCounts", s, b, "Notify")
<1> USE Constants
<1>1. RecvAt("time", s + N, N - 1, "StartStep") = RecvAt("time", s, b, "Notify")
  BY DEF RecvAt, FirstBox
<1>2. RecvAt("counts", s + N, N - 1, "StartStep") = RecvAt("counts", s, b, "Notify")
  BY DEF RecvAt, After, LastBox, FirstBox
<1>3. N > 1 => RecvAt("ghostCounts", s + N, N - 1, "StartStep") = RecvAt("ghostCounts", s, b, "Notify")
  <2>1. s + N # 0 /\ ~ ((N - 1) - 1 < 0 /\ N > 1)
    OBVIOUS
  <2>2. N > 1 => RecvAt("ghostCounts", s + N, N - 1, "StartStep") = <<(s + N) - 1, (N - 1) - 1>>
    BY <2>1 DEF RecvAt
  <2>3. RecvAt("ghostCounts", s, b, "Notify") = IF s = 0 THEN <<N - 1, N - 2>> ELSE <<s - 1 + N, N - 2>>
    BY DEF RecvAt, FirstBox
  <2>4. (s + N) - 1 = s - 1 + N /\ (N - 1) - 1 = N - 2 /\ (s = 0 => s - 1 + N = N - 1)
    OBVIOUS
  <2> QED
    BY <2>2, <2>3, <2>4
<1>4. s = MaxStep =>
        \A k \in Heads : SendAt(k, s + N, N - 1, "StartStep") = SendAt(k, s, b, "Notify")
  BY DEF SendAt, FirstBox
<1>5. s < MaxStep =>
        /\ SendAt("counts", s, b, "Notify") = <<s, b>>
        /\ SendAt("counts", s + N, N - 1, "StartStep") = After("counts", <<s, b>>)
  BY DEF SendAt, After, LastBox, FirstBox
<1>6. s < MaxStep /\ b = N - 1 =>
        /\ SendAt("time", s, b, "Notify") = <<s, b>>
        /\ SendAt("time", s + N, N - 1, "StartStep") = After("time", <<s, b>>)
  BY DEF SendAt, After, LastBox, FirstBox
<1>7. s < MaxStep /\ b # N - 1 =>
        SendAt("time", s + N, N - 1, "StartStep") = SendAt("time", s, b, "Notify")
  BY DEF SendAt, After, LastBox, FirstBox
<1>8. s < MaxStep /\ N > 1 =>
        SendAt("ghostCounts", s + N, N - 1, "StartStep") = SendAt("ghostCounts", s, b, "Notify")
  <2>1. s < MaxStep => s + N # MaxStep + N /\ ~ (s >= MaxStep)
    OBVIOUS
  <2>2. N > 1 => N - 1 # 0 /\ (N - 1) - 1 = N - 2
    OBVIOUS
  <2>3. s < MaxStep /\ N > 1 =>
          SendAt("ghostCounts", s + N, N - 1, "StartStep") = <<s + N, N - 2>>
    BY <2>1, <2>2 DEF SendAt, FirstBox
  <2>4. s < MaxStep => SendAt("ghostCounts", s, b, "Notify") = <<s + N, N - 2>>
    BY <2>1 DEF SendAt
  <2> QED
    BY <2>3, <2>4
<1> QED
  BY <1>1, <1>2, <1>3, <1>4, <1>5, <1>6, <1>7, <1>8 DEF Heads

\* Wait(step, it) moves past the counts, and in the first box past the time.
LEMMA PositionsAtWait ==
    ASSUME NEW s \in Nat, NEW b \in 0 .. N - 1, s > 0
    PROVE  /\ RecvAt("counts", s, b, "Wait") = <<s - 1, b>>
           /\ RecvAt("counts", s, b, "SolveHead") = After("counts", <<s - 1, b>>)
           /\ b = N - 1 => /\ RecvAt("time", s, b, "Wait") = <<s - 1, b>>
                           /\ RecvAt("time", s, b, "SolveHead") = After("time", <<s - 1, b>>)
           /\ b # N - 1 => RecvAt("time", s, b, "SolveHead") = RecvAt("time", s, b, "Wait")
           /\ N > 1 => RecvAt("ghostCounts", s, b, "SolveHead")
                         = RecvAt("ghostCounts", s, b, "Wait")
<1> USE Constants
<1>1. /\ RecvAt("counts", s, b, "Wait") = <<s - 1, b>>
      /\ RecvAt("counts", s, b, "SolveHead") = After("counts", <<s - 1, b>>)
  BY DEF RecvAt
<1>2. b = N - 1 => RecvAt("time", s, b, "Wait") = <<s - 1, b>>
  BY DEF RecvAt
<1>3. b = N - 1 => RecvAt("time", s, b, "SolveHead") = After("time", <<s - 1, b>>)
  BY DEF RecvAt, After, LastBox, FirstBox
<1>4. b # N - 1 => RecvAt("time", s, b, "SolveHead") = RecvAt("time", s, b, "Wait")
  BY DEF RecvAt
<1>5. RecvAt("ghostCounts", s, b, "SolveHead") = RecvAt("ghostCounts", s, b, "Wait")
  BY DEF RecvAt
<1> QED
  BY <1>1, <1>2, <1>3, <1>4, <1>5

\* The ghost counts are sent by NotifyGhost and received by WaitGhost, nothing else.
LEMMA PositionsAtGhosts ==
    ASSUME NEW s \in Nat, NEW b \in 0 .. N - 1
    PROVE  /\ s < MaxStep /\ b < N - 1 =>
                /\ SendAt("ghostCounts", s, b, "NotifyGhost") = <<s, b>>
                /\ SendAt("ghostCounts", s, b, "WaitGhost") = After("ghostCounts", <<s, b>>)
           /\ s > 0 /\ b > 0 =>
                /\ RecvAt("ghostCounts", s, b, "WaitGhost") = <<s - 1, b - 1>>
                /\ RecvAt("ghostCounts", s, b, "SolveTail")
                     = After("ghostCounts", <<s - 1, b - 1>>)
           /\ \A k \in {"time", "counts"} :
                /\ SendAt(k, s, b, "WaitGhost") = SendAt(k, s, b, "NotifyGhost")
                /\ RecvAt(k, s, b, "SolveTail") = RecvAt(k, s, b, "WaitGhost")
<1> USE Constants
<1>1. s < MaxStep /\ b < N - 1 =>
        /\ SendAt("ghostCounts", s, b, "NotifyGhost") = <<s, b>>
        /\ SendAt("ghostCounts", s, b, "WaitGhost") = After("ghostCounts", <<s, b>>)
  BY DEF SendAt, After, LastBox, FirstBox
<1>2. s > 0 /\ b > 0 =>
        /\ RecvAt("ghostCounts", s, b, "WaitGhost") = <<s - 1, b - 1>>
        /\ RecvAt("ghostCounts", s, b, "SolveTail") = After("ghostCounts", <<s - 1, b - 1>>)
  <2>0. b > 0 => ~ (b - 1 < 0)
    OBVIOUS
  <2>1. s > 0 /\ b > 0 => RecvAt("ghostCounts", s, b, "WaitGhost") = <<s - 1, b - 1>>
    BY <2>0 DEF RecvAt
  <2>2. s > 0 /\ b > 0 =>
          RecvAt("ghostCounts", s, b, "SolveTail") = After("ghostCounts", <<s - 1, b - 1>>)
    <3>1. After("ghostCounts", <<s - 1, b - 1>>)
            = IF b - 1 > 0 THEN <<s - 1, (b - 1) - 1>> ELSE <<s - 1 + N, N - 2>>
      BY DEF After, LastBox, FirstBox
    <3>2. s > 0 => RecvAt("ghostCounts", s, b, "SolveTail")
                     = IF b - 2 < 0 THEN <<s - 1 + N, N - 2>> ELSE <<s - 1, b - 2>>
      BY DEF RecvAt
    <3>3. b > 0 => (b - 1) - 1 = b - 2 /\ (b - 1 > 0 <=> ~ (b - 2 < 0))
      OBVIOUS
    <3> QED
      BY <3>1, <3>2, <3>3
  <2> QED
    BY <2>1, <2>2
<1>3. \A k \in {"time", "counts"} :
        /\ SendAt(k, s, b, "WaitGhost") = SendAt(k, s, b, "NotifyGhost")
        /\ RecvAt(k, s, b, "SolveTail") = RecvAt(k, s, b, "WaitGhost")
  BY DEF SendAt, RecvAt
<1> QED
  BY <1>1, <1>2, <1>3

\* At the start the sender and the receiver of a channel are at the same place.
LEMMA PositionsAtInit ==
    ASSUME Usual, NEW r \in Ranks, NEW k \in Heads
    PROVE  RecvAt(k, N - 1 - r, N - 1, "StartStep")
             = SendAt(k, N - 1 - Upstream(r), N - 1, "StartStep")
<1> DEFINE s == N - 1 - r
           u == N - 1 - Upstream(r)
<1>1. N \in Nat \ {0} /\ MaxStep \in Nat /\ N <= MaxStep + 1 /\ s \in 0 .. N - 1
  BY PipelineAssumption DEF Ranks
<1>2. u = IF s = 0 THEN N - 1 ELSE s - 1
  BY <1>1 DEF Upstream, Ranks
<1> HIDE DEF s, u
<1>3. RecvAt(k, s, N - 1, "StartStep") = <<u, FirstBox(k)>>
  BY <1>1, <1>2 DEF RecvAt, Heads, FirstBox
<1>4. u \in 0 .. N - 1 /\ u # MaxStep + N
  BY <1>1, <1>2
<1>5. SendAt(k, u, N - 1, "StartStep") = <<u, FirstBox(k)>>
  BY <1>1, <1>4 DEF SendAt, Heads, FirstBox
<1> QED
  BY <1>3, <1>5 DEF s, u

-----------------------------------------------------------------------------
(* What a send and a receive do to the channels                            *)

\* The messages that rank r puts in flight.
LEMMA SendEffect ==
    ASSUME NEW r \in Ranks, NEW done, NEW out, ChanOK, ChanOK',
           DOMAIN out \subseteq Kinds, FinishAndSend(r, done, out)
    PROVE  /\ \A k \in Kinds, x \in Ranks :
                x # r \/ k \notin DOMAIN out => chan'[k][x] = chan[k][x]
           /\ \A k \in DOMAIN out : \E m \in Msg(k) :
                /\ chan'[k][r] = Append(chan[k][r], m)
                /\ Label(m) = <<step[r], box[r]>>
                /\ m.data = out[k]
                /\ k \in Small => m.ref = ~EagerSmall
<1>1. PICK kept \in SUBSET (DOMAIN out \ Small) :
        chan' = [k \in Kinds |->
                   IF k \in DOMAIN out
                     THEN [chan[k] EXCEPT ![r] = Append(@, Message(r, k, out[k], kept))]
                     ELSE chan[k]]
  BY Zenon DEF FinishAndSend
<1>2. ASSUME NEW k \in Kinds, NEW x \in Ranks, x # r \/ k \notin DOMAIN out
      PROVE  chan'[k][x] = chan[k][x]
  <2>1. chan[k] \in [Ranks -> Seq(Msg(k))]
    BY DEF ChanOK
  <2> QED
    BY <1>1, <1>2, <2>1
<1>3. ASSUME NEW k \in DOMAIN out
      PROVE  \E m \in Msg(k) :
                /\ chan'[k][r] = Append(chan[k][r], m)
                /\ Label(m) = <<step[r], box[r]>>
                /\ m.data = out[k]
                /\ k \in Small => m.ref = ~EagerSmall
  <2> DEFINE m == Message(r, k, out[k], kept)
  <2>1. chan[k] \in [Ranks -> Seq(Msg(k))] /\ chan'[k] \in [Ranks -> Seq(Msg(k))]
    BY DEF ChanOK
  <2>2. chan'[k][r] = Append(chan[k][r], m)
    BY <1>1, <2>1
  <2>3. Label(m) = <<step[r], box[r]>> /\ m.data = out[k]
    BY DEF Message, Label
  <2>4. k \in Small => m.ref = ~EagerSmall
    BY Zenon DEF Message
  <2> HIDE DEF m
  <2>5. m \in Msg(k)
    <3>1. chan[k][r] \in Seq(Msg(k)) /\ chan'[k][r] \in Seq(Msg(k))
      BY <2>1
    <3>2. Len(chan'[k][r]) = Len(chan[k][r]) + 1 /\ chan'[k][r][Len(chan[k][r]) + 1] = m
      BY <2>2, <3>1
    <3>3. Len(chan[k][r]) + 1 \in 1 .. Len(chan'[k][r])
      BY <3>1, <3>2
    <3> QED
      BY <3>1, <3>2, <3>3, ElementOfSeq
  <2> QED
    BY <2>2, <2>3, <2>4, <2>5
<1> QED
  BY <1>2, <1>3

\* A receive takes the first message of each of its kinds, and nothing else.
LEMMA ReceiveEffect ==
    ASSUME NEW r \in Ranks, NEW K \in SUBSET Kinds, ChanOK, Receive(K, r)
    PROVE  /\ \A k \in Kinds, x \in Ranks :
                x # Upstream(r) \/ k \notin K => chan'[k][x] = chan[k][x]
           /\ \A k \in K : /\ chan[k][Upstream(r)] # <<>>
                           /\ chan'[k][Upstream(r)] = Tail(chan[k][Upstream(r)])
<1> DEFINE u == Upstream(r)
<1>1. u \in Ranks
  BY Constants
<1>2. chan' = [k \in Kinds |->
                 IF k \in K THEN [chan[k] EXCEPT ![u] = Tail(@)] ELSE chan[k]]
  BY DEF Receive
<1> HIDE DEF u
<1>3. ASSUME NEW k \in Kinds, NEW x \in Ranks, x # u \/ k \notin K
      PROVE  chan'[k][x] = chan[k][x]
  <2>1. chan[k] \in [Ranks -> Seq(Msg(k))]
    BY DEF ChanOK
  <2> QED
    BY <1>2, <1>3, <2>1
<1>4. ASSUME NEW k \in K
      PROVE  chan[k][u] # <<>> /\ chan'[k][u] = Tail(chan[k][u])
  <2>1. chan[k] \in [Ranks -> Seq(Msg(k))]
    BY DEF ChanOK
  <2> QED
    BY <1>1, <1>2, <2>1 DEF Receive, u
<1> QED
  BY <1>3, <1>4 DEF u

\* Two ranks have two neighbours upstream.
LEMMA UpstreamInjective ==
    ASSUME NEW r \in Ranks, NEW x \in Ranks, x # r
    PROVE  Upstream(x) # Upstream(r)
  BY Constants DEF Ranks, Upstream

LEMMA HeadsAreSmall ==
    ASSUME NEW k \in Heads
    PROVE  k \in Small /\ k \in Kinds
  BY DEF Heads, Small, Kinds

\* A step that touches no channel and moves no position.
LEMMA QuietExact ==
    ASSUME ChannelsExact, \A k \in Kinds : chan'[k] = chan[k],
           \A k \in Heads, x \in Ranks :
              SendPos(k, x)' = SendPos(k, x) /\ RecvPos(k, x)' = RecvPos(k, x)
    PROVE  ChannelsExact'
<1>1. SUFFICES ASSUME NEW x \in Ranks
               PROVE  /\ \A k \in Heads : Chain(k, chan'[k][Upstream(x)], RecvPos(k, x)',
                                                SendPos(k, Upstream(x))')
                      /\ Paired(chan'["counts"][Upstream(x)], chan'["particles"][Upstream(x)])
                      /\ Paired(chan'["ghostCounts"][Upstream(x)],
                                chan'["ghostParticles"][Upstream(x)])
  BY DEF ChannelsExact
<1>2. /\ Upstream(x) \in Ranks
      /\ \A k \in Heads : k \in Kinds
      /\ {"counts", "particles", "ghostCounts", "ghostParticles"} \subseteq Kinds
  BY Constants, HeadsAreSmall DEF Kinds, Small
<1> QED
  BY <1>2 DEF ChannelsExact

\* What Notify sends: particles if and only if it announces some.
SentTogether(out, c, p) ==
    /\ p \in DOMAIN out <=> (c \in DOMAIN out /\ out[c].np > 0)
    /\ p \in DOMAIN out => Cardinality(out[p]) = out[c].np

LEMMA SendPaired ==
    ASSUME NEW r \in Ranks, NEW done, NEW out, ChanOK, ChanOK',
           DOMAIN out \subseteq Kinds, FinishAndSend(r, done, out),
           NEW c \in Kinds, NEW p \in Kinds, SentTogether(out, c, p), NEW x \in Ranks,
           Paired(chan[c][x], chan[p][x])
    PROVE  Paired(chan'[c][x], chan'[p][x])
<1>1. chan[c][x] \in Seq(Msg(c)) /\ chan[p][x] \in Seq(Msg(p))
  BY DEF ChanOK
<1>2. CASE x # r \/ c \notin DOMAIN out
  <2>1. x # r \/ (c \notin DOMAIN out /\ p \notin DOMAIN out)
    BY <1>2 DEF SentTogether
  <2>2. chan'[c][x] = chan[c][x] /\ chan'[p][x] = chan[p][x]
    BY <2>1, SendEffect
  <2> QED
    BY <2>2
<1>3. CASE x = r /\ c \in DOMAIN out
  <2>1. PICK n \in Msg(c) :
           /\ chan'[c][r] = Append(chan[c][r], n)
           /\ Label(n) = <<step[r], box[r]>>
           /\ n.data = out[c]
    BY <1>3, SendEffect
  <2>2. CASE p \in DOMAIN out
    <3>1. PICK m \in Msg(p) :
             /\ chan'[p][r] = Append(chan[p][r], m)
             /\ Label(m) = <<step[r], box[r]>>
             /\ m.data = out[p]
      BY <2>2, SendEffect
    <3>2. Announces(n, m)
      BY <2>1, <2>2, <3>1 DEF Announces, SentTogether
    <3> QED
      BY <1>1, <1>3, <2>1, <3>1, <3>2, PairedAppendBoth
  <2>3. CASE p \notin DOMAIN out
    <3>1. chan'[p][r] = chan[p][r]
      BY <2>3, SendEffect
    <3>2. ~ (n.data.np > 0)
      BY <1>3, <2>1, <2>3 DEF SentTogether
    <3> QED
      BY <1>1, <1>3, <2>1, <3>1, <3>2, PairedAppendCount
  <2> QED
    BY <2>2, <2>3
<1> QED
  BY <1>2, <1>3

\* A step that sends what its channels expect next.
LEMMA SendExact ==
    ASSUME NEW r \in Ranks, NEW done, NEW out, ChanOK, ChanOK', ChannelsExact,
           DOMAIN out \subseteq Kinds, FinishAndSend(r, done, out),
           SentTogether(out, "counts", "particles"),
           SentTogether(out, "ghostCounts", "ghostParticles"),
           \A k \in Heads, x \in Ranks :
              /\ RecvPos(k, x)' = RecvPos(k, x)
              /\ x # r \/ k \notin DOMAIN out => SendPos(k, x)' = SendPos(k, x),
           \A k \in Heads : k \in DOMAIN out =>
              /\ SendPos(k, r) = <<step[r], box[r]>>
              /\ SendPos(k, r)' = After(k, <<step[r], box[r]>>)
    PROVE  ChannelsExact'
<1>1. SUFFICES ASSUME NEW x \in Ranks
               PROVE  /\ \A k \in Heads : Chain(k, chan'[k][Upstream(x)], RecvPos(k, x)',
                                                SendPos(k, Upstream(x))')
                      /\ Paired(chan'["counts"][Upstream(x)], chan'["particles"][Upstream(x)])
                      /\ Paired(chan'["ghostCounts"][Upstream(x)],
                                chan'["ghostParticles"][Upstream(x)])
  BY DEF ChannelsExact
<1> DEFINE u == Upstream(x)
<1>2. /\ u \in Ranks
      /\ \A k \in Heads : Chain(k, chan[k][u], RecvPos(k, x), SendPos(k, u))
      /\ Paired(chan["counts"][u], chan["particles"][u])
      /\ Paired(chan["ghostCounts"][u], chan["ghostParticles"][u])
  BY Constants DEF ChannelsExact
<1> HIDE DEF u
<1>3. ASSUME NEW k \in Heads
      PROVE  Chain(k, chan'[k][u], RecvPos(k, x)', SendPos(k, u)')
  <2>1. k \in Small /\ k \in Kinds
    BY HeadsAreSmall
  <2>2. CASE u # r \/ k \notin DOMAIN out
    <3>1. chan'[k][u] = chan[k][u]
      BY <1>2, <2>1, <2>2, SendEffect
    <3> QED
      BY <1>2, <2>2, <3>1
  <2>3. CASE u = r /\ k \in DOMAIN out
    <3>1. PICK m \in Msg(k) :
             /\ chan'[k][r] = Append(chan[k][r], m)
             /\ Label(m) = <<step[r], box[r]>>
             /\ m.ref = ~EagerSmall
      BY <2>1, <2>3, SendEffect
    <3>2. chan[k][r] \in Seq(Msg(k)) /\ \A n \in Msg(k) : n.step \in Nat /\ n.box \in Int
      BY <2>1 DEF ChanOK, Msg, Boxes
    <3>3. Chain(k, chan[k][r], RecvPos(k, x), <<step[r], box[r]>>)
      BY <1>2, <2>3
    <3>4. Chain(k, Append(chan[k][r], m), RecvPos(k, x), After(k, <<step[r], box[r]>>))
      BY <3>1, <3>2, <3>3, ChainAppend, Zenon
    <3> QED
      BY <2>3, <3>1, <3>4
  <2> QED
    BY <2>2, <2>3
<1>4. /\ Paired(chan'["counts"][u], chan'["particles"][u])
      /\ Paired(chan'["ghostCounts"][u], chan'["ghostParticles"][u])
  BY <1>2, SendPaired DEF Kinds, Small
<1> QED
  BY <1>3, <1>4 DEF u

LEMMA ReceivePaired ==
    ASSUME NEW r \in Ranks, NEW K \in SUBSET Kinds, ChanOK, Receive(K, r),
           NEW c \in Kinds, NEW p \in Kinds, NEW x \in Ranks,
           p \in K => c \in K,
           c \in K => (p \in K <=> Received(c, r).data.np > 0),
           Paired(chan[c][x], chan[p][x])
    PROVE  Paired(chan'[c][x], chan'[p][x])
<1>1. chan[c][x] \in Seq(Msg(c)) /\ chan[p][x] \in Seq(Msg(p))
  BY DEF ChanOK
<1>2. CASE x # Upstream(r) \/ c \notin K
  BY <1>2, ReceiveEffect
<1>3. CASE x = Upstream(r) /\ c \in K
  <2>1. chan[c][x] # <<>> /\ chan'[c][x] = Tail(chan[c][x])
    BY <1>3, ReceiveEffect
  <2>2. Received(c, r) = chan[c][x][1]
    BY <1>1, <1>3, <2>1 DEF Received
  <2>3. CASE p \in K
    <3>1. chan'[p][x] = Tail(chan[p][x])
      BY <1>3, <2>3, ReceiveEffect
    <3>2. chan[c][x][1].data.np > 0
      BY <1>3, <2>2, <2>3
    <3> QED
      BY <1>1, <2>1, <3>1, <3>2, PairedTail
  <2>4. CASE p \notin K
    <3>1. chan'[p][x] = chan[p][x]
      BY <1>3, <2>4, ReceiveEffect
    <3>2. ~ (chan[c][x][1].data.np > 0)
      BY <1>3, <2>2, <2>4
    <3> QED
      BY <1>1, <2>1, <3>1, <3>2, PairedTail
  <2> QED
    BY <2>3, <2>4
<1> QED
  BY <1>2, <1>3

\* A step that receives what its channels deliver next.
LEMMA ReceiveExact ==
    ASSUME NEW r \in Ranks, NEW K \in SUBSET Kinds, ChanOK, ChannelsExact, Receive(K, r),
           \A c \in {<<"counts", "particles">>, <<"ghostCounts", "ghostParticles">>} :
              /\ c[2] \in K => c[1] \in K
              /\ c[1] \in K => (c[2] \in K <=> Received(c[1], r).data.np > 0),
           \A k \in Heads, x \in Ranks :
              /\ SendPos(k, x)' = SendPos(k, x)
              /\ x # r \/ k \notin K => RecvPos(k, x)' = RecvPos(k, x),
           \A k \in Heads : k \in K => RecvPos(k, r)' = After(k, RecvPos(k, r))
    PROVE  ChannelsExact'
<1>1. SUFFICES ASSUME NEW x \in Ranks
               PROVE  /\ \A k \in Heads : Chain(k, chan'[k][Upstream(x)], RecvPos(k, x)',
                                                SendPos(k, Upstream(x))')
                      /\ Paired(chan'["counts"][Upstream(x)], chan'["particles"][Upstream(x)])
                      /\ Paired(chan'["ghostCounts"][Upstream(x)],
                                chan'["ghostParticles"][Upstream(x)])
  BY DEF ChannelsExact
<1> DEFINE u == Upstream(x)
<1>2. /\ u \in Ranks
      /\ \A k \in Heads : Chain(k, chan[k][u], RecvPos(k, x), SendPos(k, u))
      /\ Paired(chan["counts"][u], chan["particles"][u])
      /\ Paired(chan["ghostCounts"][u], chan["ghostParticles"][u])
  BY Constants DEF ChannelsExact
<1>3. x # r => u # Upstream(r)
  BY UpstreamInjective
<1>4. x = r => u = Upstream(r)
  OBVIOUS
<1> HIDE DEF u
<1>5. ASSUME NEW k \in Heads
      PROVE  Chain(k, chan'[k][u], RecvPos(k, x)', SendPos(k, u)')
  <2>1. k \in Kinds
    BY HeadsAreSmall
  <2>2. CASE x # r \/ k \notin K
    <3>1. chan'[k][u] = chan[k][u]
      BY <1>2, <1>3, <2>1, <2>2, ReceiveEffect
    <3> QED
      BY <1>2, <2>2, <3>1
  <2>3. CASE x = r /\ k \in K
    <3>1. chan[k][u] # <<>> /\ chan'[k][u] = Tail(chan[k][u])
      BY <1>4, <2>3, ReceiveEffect
    <3>2. chan[k][u] \in Seq(Msg(k))
      BY <1>2, <2>1 DEF ChanOK
    <3>3. Chain(k, Tail(chan[k][u]), After(k, RecvPos(k, x)), SendPos(k, u))
      BY <1>2, <3>1, <3>2, ChainTail
    <3> QED
      BY <1>2, <2>3, <3>1, <3>3
  <2> QED
    BY <2>2, <2>3
<1>6. /\ Paired(chan'["counts"][u], chan'["particles"][u])
      /\ Paired(chan'["ghostCounts"][u], chan'["ghostParticles"][u])
  <2>1. /\ "particles" \in K => "counts" \in K
        /\ "counts" \in K => ("particles" \in K <=> Received("counts", r).data.np > 0)
        /\ "ghostParticles" \in K => "ghostCounts" \in K
        /\ "ghostCounts" \in K =>
             ("ghostParticles" \in K <=> Received("ghostCounts", r).data.np > 0)
    OBVIOUS
  <2> QED
    BY <1>2, <2>1, ReceivePaired DEF Kinds, Small
<1> QED
  BY <1>5, <1>6 DEF u

-----------------------------------------------------------------------------
(* The steps of the pipeline                                               *)

\* A handler that stays in its box moves its rank from one label to another.
Moves(r, p, q) ==
    /\ pc[r] = p
    /\ pc' = [pc EXCEPT ![r] = q]
    /\ UNCHANGED <<step, box>>

\* The moves of the handlers but StartStep, Notify and Destroy.
Within == {<<"Wait", "SolveHead">>, <<"SolveHead", "NotifyGhost">>,
           <<"NotifyGhost", "WaitGhost">>, <<"WaitGhost", "SolveTail">>,
           <<"SolveTail", "Notify">>}

LEMMA TypeOfControl ==
    ASSUME TypeOK, Usual
    PROVE  /\ pc \in [Ranks -> Labels] /\ step \in [Ranks -> Nat]
           /\ box \in [Ranks -> 0 .. N - 1]
           /\ NumBoxes = N /\ ChanOK
  BY DEF TypeOK, Usual, Boxes, NumBoxes

\* What each handler does to the control variables of its rank.
LEMMA ControlOfActions ==
    ASSUME NEW r \in Ranks
    PROVE  /\ StartStep(r) => Moves(r, "StartStep", "Wait") /\ step[r] <= MaxStep
           /\ WaitReturns(r) \/ WaitReceives(r) => Moves(r, "Wait", "SolveHead")
           /\ SolveHead(r) => Moves(r, "SolveHead", "NotifyGhost")
           /\ NotifyGhostReturns(r) \/ NotifyGhostLastStep(r) \/ NotifyGhostSends(r) =>
                Moves(r, "NotifyGhost", "WaitGhost")
           /\ WaitGhostReturns(r) \/ WaitGhostReceives(r) =>
                Moves(r, "WaitGhost", "SolveTail")
           /\ SolveTail(r) => Moves(r, "SolveTail", "Notify")
           /\ Destroy(r) => Moves(r, "StartStep", "Gone") /\ step[r] > MaxStep
<1>1. StartStep(r) => Moves(r, "StartStep", "Wait") /\ step[r] <= MaxStep
  BY DEF Moves, StartStep, Goto
<1>2. WaitReturns(r) \/ WaitReceives(r) => Moves(r, "Wait", "SolveHead")
  BY DEF Moves, WaitReturns, WaitReceives, Goto
<1>3. SolveHead(r) => Moves(r, "SolveHead", "NotifyGhost")
  BY DEF Moves, SolveHead, Goto
<1>4. NotifyGhostReturns(r) \/ NotifyGhostLastStep(r) \/ NotifyGhostSends(r) =>
        Moves(r, "NotifyGhost", "WaitGhost")
  BY DEF Moves, NotifyGhostReturns, NotifyGhostLastStep, NotifyGhostSends, Goto
<1>5. WaitGhostReturns(r) \/ WaitGhostReceives(r) => Moves(r, "WaitGhost", "SolveTail")
  BY DEF Moves, WaitGhostReturns, WaitGhostReceives, Goto
<1>6. SolveTail(r) => Moves(r, "SolveTail", "Notify")
  BY DEF Moves, SolveTail, Goto
<1>7. Destroy(r) => Moves(r, "StartStep", "Gone") /\ step[r] > MaxStep
  BY DEF Moves, Destroy, Goto
<1> QED
  BY <1>1, <1>2, <1>3, <1>4, <1>5, <1>6, <1>7

\* The end of a box, with one box per rank.
LEMMA ControlOfNotify ==
    ASSUME TypeOK, Usual, NEW r \in Ranks, Notify(r)
    PROVE  /\ pc[r] = "Notify"
           /\ \A x \in Ranks \ {r} :
                pc'[x] = pc[x] /\ step'[x] = step[x] /\ box'[x] = box[x]
           /\ box[r] = 0 =>
                pc'[r] = "StartStep" /\ step'[r] = step[r] + N /\ box'[r] = N - 1
           /\ box[r] # 0 =>
                pc'[r] = "Wait" /\ step'[r] = step[r] /\ box'[r] = box[r] - 1
<1>1. NextBox(r) /\ pc[r] = "Notify"
  BY DEF Notify
<1>2. CASE box[r] = 0
  BY <1>1, <1>2, TypeOfControl DEF NextBox, IsLastBox, Goto
<1>3. CASE box[r] # 0
  BY <1>1, <1>3, TypeOfControl DEF NextBox, IsLastBox, Goto
<1> QED
  BY <1>1, <1>2, <1>3

LEMMA ControlStep ==
    ASSUME TypeOK, Usual, ControlOK, [Next]_vars
    PROVE  ControlOK'
<1> USE TypeOfControl
<1>1. ASSUME NEW r \in Ranks, StartStep(r) \/ Destroy(r)
      PROVE  ControlOK'
  BY <1>1, ControlOfActions DEF Moves, ControlOK
<1>2. ASSUME NEW r \in Ranks, NEW m \in Within, Moves(r, m[1], m[2])
      PROVE  ControlOK'
  <2>1. /\ pc[r] \notin {"StartStep", "Gone"} /\ pc'[r] \notin {"StartStep", "Gone"}
        /\ step' = step /\ box' = box /\ \A x \in Ranks \ {r} : pc'[x] = pc[x]
    BY <1>2 DEF Moves, Within
  <2> QED
    BY <2>1 DEF ControlOK
<1>3. ASSUME NEW r \in Ranks, Notify(r)
      PROVE  ControlOK'
  <2>1. step[r] <= MaxStep /\ step[r] \in Nat /\ N \in Nat /\ MaxStep \in Nat
    BY <1>3, ControlOfNotify, Constants DEF ControlOK
  <2>2. ASSUME NEW x \in Ranks \ {r}
        PROVE  pc'[x] = pc[x] /\ step'[x] = step[x] /\ box'[x] = box[x]
    BY <1>3, ControlOfNotify
  <2>3. /\ step'[r] <= MaxStep + N
        /\ pc'[r] \in {"StartStep", "Gone"} => box'[r] = N - 1
        /\ pc'[r] \notin {"StartStep", "Gone"} => step'[r] <= MaxStep
        /\ pc'[r] # "Gone"
    <3>1. CASE box[r] = 0
      BY <1>3, <2>1, <3>1, ControlOfNotify
    <3>2. CASE box[r] # 0
      BY <1>3, <2>1, <3>2, ControlOfNotify
    <3> QED
      BY <3>1, <3>2
  <2> QED
    BY <2>2, <2>3 DEF ControlOK
<1>4. CASE UNCHANGED vars
  BY <1>4 DEF vars, ControlOK
<1> QED
  <2>1. ASSUME NEW r \in Ranks, RankNext(r)
        PROVE  ControlOK'
    <3>1. /\ <<"Wait", "SolveHead">> \in Within /\ <<"SolveHead", "NotifyGhost">> \in Within
          /\ <<"NotifyGhost", "WaitGhost">> \in Within
          /\ <<"WaitGhost", "SolveTail">> \in Within /\ <<"SolveTail", "Notify">> \in Within
      BY DEF Within
    <3>2. \/ StartStep(r) \/ Destroy(r) \/ Notify(r)
          \/ \E m \in Within : Moves(r, m[1], m[2])
      BY <2>1, <3>1, ControlOfActions DEF RankNext
    <3> QED
      BY <1>1, <1>2, <1>3, <3>2
  <2> QED
    BY <1>4, <2>1 DEF Next, Terminating

\* Only the rank that acts moves.
LEMMA PositionsMove ==
    ASSUME TypeOK, Usual, NEW r \in Ranks, NEW p, NEW q, Moves(r, p, q)
    PROVE  /\ \A k \in Heads, x \in Ranks \ {r} :
                SendPos(k, x)' = SendPos(k, x) /\ RecvPos(k, x)' = RecvPos(k, x)
           /\ \A k \in Heads :
                /\ SendPos(k, r) = SendAt(k, step[r], box[r], p)
                /\ SendPos(k, r)' = SendAt(k, step[r], box[r], q)
                /\ RecvPos(k, r) = RecvAt(k, step[r], box[r], p)
                /\ RecvPos(k, r)' = RecvAt(k, step[r], box[r], q)
<1>1. /\ pc[r] = p /\ pc'[r] = q /\ step' = step /\ box' = box
      /\ \A x \in Ranks \ {r} : pc'[x] = pc[x]
  BY TypeOfControl DEF Moves
<1> QED
  BY <1>1 DEF SendPos, RecvPos

\* A move without messages, of a rank whose positions stay.
LEMMA QuietMove ==
    ASSUME TypeOK, Usual, ChannelsExact, \A k \in Kinds : chan'[k] = chan[k],
           NEW r \in Ranks, NEW p, NEW q, Moves(r, p, q),
           \A k \in Heads :
              /\ SendAt(k, step[r], box[r], q) = SendAt(k, step[r], box[r], p)
              /\ RecvAt(k, step[r], box[r], q) = RecvAt(k, step[r], box[r], p)
    PROVE  ChannelsExact'
<1>1. \A k \in Heads, x \in Ranks :
         SendPos(k, x)' = SendPos(k, x) /\ RecvPos(k, x)' = RecvPos(k, x)
  BY PositionsMove
<1> QED
  BY <1>1, QuietExact

\* NotifyFinish alone sends nothing.
LEMMA FinishOnly ==
    ASSUME NEW r \in Ranks, NEW done, ChanOK, FinishAndSend(r, done, <<>>)
    PROVE  \A k \in Kinds : chan'[k] = chan[k]
<1>1. PICK kept :
        chan' = [k \in Kinds |->
                   IF k \in DOMAIN <<>>
                     THEN [chan[k] EXCEPT ![r] = Append(@, Message(r, k, <<>>[k], kept))]
                     ELSE chan[k]]
  BY Zenon DEF FinishAndSend
<1>2. DOMAIN <<>> = {}
  OBVIOUS
<1> QED
  BY <1>1, <1>2

LEMMA ReceiveExactAtWait ==
    ASSUME TypeOK, Usual, ControlOK, ChannelsExact, NEW r \in Ranks, WaitReceives(r)
    PROVE  ChannelsExact'
<1> USE TypeOfControl
<1> DEFINE np == Received("counts", r).data.np
           time == IF box[r] = N - 1 THEN {"time"} ELSE {}
           K == time \union WithParticles("counts", "particles", np)
<1>1. Receive(K, r) /\ step[r] > 0
  BY DEF WaitReceives
<1>2. /\ K \in SUBSET Kinds
      /\ "counts" \in K /\ "ghostCounts" \notin K /\ "ghostParticles" \notin K
      /\ "particles" \in K <=> np > 0
      /\ "time" \in K <=> box[r] = N - 1
  BY DEF WithParticles, Kinds, Small
<1> HIDE DEF K, np
<1>3. Moves(r, "Wait", "SolveHead")
  BY ControlOfActions
<1>4. /\ step[r] \in Nat /\ box[r] \in 0 .. N - 1 /\ step[r] <= MaxStep
  BY <1>3 DEF ControlOK, Moves
<1>5. /\ RecvPos("counts", r)' = After("counts", RecvPos("counts", r))
      /\ "time" \in K => RecvPos("time", r)' = After("time", RecvPos("time", r))
      /\ "time" \notin K => RecvPos("time", r)' = RecvPos("time", r)
      /\ N > 1 => RecvPos("ghostCounts", r)' = RecvPos("ghostCounts", r)
  <2>1. \A k \in Heads :
           /\ RecvPos(k, r) = RecvAt(k, step[r], box[r], "Wait")
           /\ RecvPos(k, r)' = RecvAt(k, step[r], box[r], "SolveHead")
    BY <1>3, PositionsMove
  <2>2. "time" \in Heads /\ "counts" \in Heads /\ (N > 1 => "ghostCounts" \in Heads)
    BY DEF Heads
  <2>3. /\ RecvAt("counts", step[r], box[r], "SolveHead")
             = After("counts", RecvAt("counts", step[r], box[r], "Wait"))
        /\ box[r] = N - 1 =>
             RecvAt("time", step[r], box[r], "SolveHead")
               = After("time", RecvAt("time", step[r], box[r], "Wait"))
        /\ box[r] # N - 1 =>
             RecvAt("time", step[r], box[r], "SolveHead")
               = RecvAt("time", step[r], box[r], "Wait")
        /\ N > 1 => RecvAt("ghostCounts", step[r], box[r], "SolveHead")
                      = RecvAt("ghostCounts", step[r], box[r], "Wait")
    BY <1>1, <1>4, PositionsAtWait
  <2> QED
    BY <1>2, <2>1, <2>2, <2>3
<1>6. \A k \in Heads, x \in Ranks :
        /\ SendPos(k, x)' = SendPos(k, x)
        /\ x # r \/ k \notin K => RecvPos(k, x)' = RecvPos(k, x)
  <2>1. \A k \in Heads : SendPos(k, r)' = SendPos(k, r)
    BY <1>3, <1>4, PositionsMove, PositionsStay
  <2>2. \A k \in Heads : k \notin K => RecvPos(k, r)' = RecvPos(k, r)
    BY <1>2, <1>5 DEF Heads
  <2> QED
    BY <1>3, <2>1, <2>2, PositionsMove
<1>7. \A k \in Heads : k \in K => RecvPos(k, r)' = After(k, RecvPos(k, r))
  BY <1>2, <1>5 DEF Heads
<1>8. \A c \in {<<"counts", "particles">>, <<"ghostCounts", "ghostParticles">>} :
        /\ c[2] \in K => c[1] \in K
        /\ c[1] \in K => (c[2] \in K <=> Received(c[1], r).data.np > 0)
  BY <1>2 DEF np
<1> QED
  BY <1>1, <1>2, <1>6, <1>7, <1>8, ReceiveExact

LEMMA ReceiveExactAtWaitGhost ==
    ASSUME TypeOK, Usual, ControlOK, ChannelsExact, NEW r \in Ranks, WaitGhostReceives(r)
    PROVE  ChannelsExact'
<1> USE TypeOfControl
<1> DEFINE np == Received("ghostCounts", r).data.np
           K == WithParticles("ghostCounts", "ghostParticles", np)
<1>1. Receive(K, r) /\ step[r] > 0 /\ box[r] > 0
  <2>1. Receive(K, r) /\ step[r] # 0 /\ box[r] # 0
    BY DEF WaitGhostReceives, NoGhostToWait
  <2>2. step[r] \in Nat /\ box[r] \in 0 .. N - 1
    OBVIOUS
  <2> HIDE DEF K
  <2> QED
    BY <2>1, <2>2
<1>2. /\ K \in SUBSET Kinds
      /\ "ghostCounts" \in K /\ "counts" \notin K /\ "particles" \notin K /\ "time" \notin K
      /\ "ghostParticles" \in K <=> np > 0
  BY DEF WithParticles, Kinds, Small
<1> HIDE DEF K, np
<1>3. Moves(r, "WaitGhost", "SolveTail")
  BY ControlOfActions
<1>4. /\ step[r] \in Nat /\ box[r] \in 0 .. N - 1 /\ step[r] <= MaxStep
  BY <1>3 DEF ControlOK, Moves
<1>5. /\ N > 1
      /\ RecvPos("ghostCounts", r)' = After("ghostCounts", RecvPos("ghostCounts", r))
      /\ \A k \in {"time", "counts"} : RecvPos(k, r)' = RecvPos(k, r)
  <2>1. \A k \in Heads :
           /\ RecvPos(k, r) = RecvAt(k, step[r], box[r], "WaitGhost")
           /\ RecvPos(k, r)' = RecvAt(k, step[r], box[r], "SolveTail")
    BY <1>3, PositionsMove
  <2>2. N > 1
    BY <1>1, <1>4, Constants
  <2>3. "time" \in Heads /\ "counts" \in Heads /\ "ghostCounts" \in Heads
    BY <2>2 DEF Heads
  <2>4. /\ RecvAt("ghostCounts", step[r], box[r], "SolveTail")
             = After("ghostCounts", RecvAt("ghostCounts", step[r], box[r], "WaitGhost"))
        /\ \A k \in {"time", "counts"} :
             RecvAt(k, step[r], box[r], "SolveTail") = RecvAt(k, step[r], box[r], "WaitGhost")
    BY <1>1, <1>4, PositionsAtGhosts
  <2> QED
    BY <2>1, <2>2, <2>3, <2>4
<1>6. \A k \in Heads, x \in Ranks :
        /\ SendPos(k, x)' = SendPos(k, x)
        /\ x # r \/ k \notin K => RecvPos(k, x)' = RecvPos(k, x)
  <2>1. \A k \in Heads : SendPos(k, r)' = SendPos(k, r)
    BY <1>3, <1>4, PositionsMove, PositionsStay
  <2>2. \A k \in Heads : k \notin K => RecvPos(k, r)' = RecvPos(k, r)
    BY <1>2, <1>5 DEF Heads
  <2> QED
    BY <1>3, <2>1, <2>2, PositionsMove
<1>7. \A k \in Heads : k \in K => RecvPos(k, r)' = After(k, RecvPos(k, r))
  BY <1>2, <1>5 DEF Heads
<1>8. \A c \in {<<"counts", "particles">>, <<"ghostCounts", "ghostParticles">>} :
        /\ c[2] \in K => c[1] \in K
        /\ c[1] \in K => (c[2] \in K <=> Received(c[1], r).data.np > 0)
  BY <1>2 DEF np
<1> QED
  BY <1>1, <1>2, <1>6, <1>7, <1>8, ReceiveExact

LEMMA SendExactAtNotifyGhost ==
    ASSUME TypeOK, Usual, ControlOK, ChannelsExact, ChanOK',
           NEW r \in Ranks, NotifyGhostSends(r)
    PROVE  ChannelsExact'
<1> USE TypeOfControl
<1> DEFINE np == Cardinality(headBin[r])
           kinds == IF SkipSend(r) THEN {}
                    ELSE WithParticles("ghostCounts", "ghostParticles", np)
           out == [k \in kinds |-> IF k = "ghostCounts"
                                     THEN [np |-> np, leftmost |-> Least(r)]
                                     ELSE headBin[r]]
<1>1. FinishAndSend(r, GhostKinds, out) /\ ~NoGhostToSend(r) /\ ~IsLastStep(step[r])
  BY DEF NotifyGhostSends
<1>2. kinds = WithParticles("ghostCounts", "ghostParticles", np)
  BY DEF SkipSend, Usual
<1>3. /\ DOMAIN out \subseteq {"ghostCounts", "ghostParticles"}
      /\ "ghostCounts" \in DOMAIN out
      /\ "ghostParticles" \in DOMAIN out <=> np > 0
  BY <1>2 DEF WithParticles
<1>4. /\ out["ghostCounts"].np = np
      /\ "ghostParticles" \in DOMAIN out => Cardinality(out["ghostParticles"]) = np
  BY <1>3
<1> HIDE DEF out, np
<1>5. Moves(r, "NotifyGhost", "WaitGhost")
  BY ControlOfActions
<1>6. /\ step[r] \in Nat /\ box[r] \in 0 .. N - 1 /\ step[r] < MaxStep /\ box[r] < N - 1
  <2>1. step[r] <= MaxStep /\ step[r] # MaxStep
    BY <1>1, <1>5 DEF ControlOK, Moves, IsLastStep
  <2>2. ~ (box[r] >= N - 1) /\ box[r] \in 0 .. N - 1 /\ step[r] \in Nat
    BY <1>1 DEF NoGhostToSend
  <2> QED
    BY <2>1, <2>2, Constants
<1>7. N > 1
  BY <1>6, Constants
<1>8. /\ SendPos("ghostCounts", r) = <<step[r], box[r]>>
      /\ SendPos("ghostCounts", r)' = After("ghostCounts", <<step[r], box[r]>>)
      /\ \A k \in {"time", "counts"} : SendPos(k, r)' = SendPos(k, r)
  <2>1. \A k \in Heads :
           /\ SendPos(k, r) = SendAt(k, step[r], box[r], "NotifyGhost")
           /\ SendPos(k, r)' = SendAt(k, step[r], box[r], "WaitGhost")
    BY <1>5, PositionsMove
  <2>2. "time" \in Heads /\ "counts" \in Heads /\ "ghostCounts" \in Heads
    BY <1>7 DEF Heads
  <2>3. /\ SendAt("ghostCounts", step[r], box[r], "NotifyGhost") = <<step[r], box[r]>>
        /\ SendAt("ghostCounts", step[r], box[r], "WaitGhost")
             = After("ghostCounts", <<step[r], box[r]>>)
        /\ \A k \in {"time", "counts"} :
             SendAt(k, step[r], box[r], "WaitGhost")
               = SendAt(k, step[r], box[r], "NotifyGhost")
    BY <1>6, PositionsAtGhosts
  <2> QED
    BY <2>1, <2>2, <2>3
<1>9. \A k \in Heads, x \in Ranks :
        /\ RecvPos(k, x)' = RecvPos(k, x)
        /\ x # r \/ k \notin DOMAIN out => SendPos(k, x)' = SendPos(k, x)
  <2>1. \A k \in Heads : RecvPos(k, r)' = RecvPos(k, r)
    <3>1. step[r] <= MaxStep
      BY <1>6, Constants
    <3>2. \A k \in Heads : RecvAt(k, step[r], box[r], "WaitGhost")
                              = RecvAt(k, step[r], box[r], "NotifyGhost")
      BY <1>6, <3>1, PositionsStay
    <3> QED
      BY <1>5, <3>2, PositionsMove
  <2>2. \A k \in Heads : k \notin DOMAIN out => SendPos(k, r)' = SendPos(k, r)
    BY <1>3, <1>8 DEF Heads
  <2> QED
    BY <1>5, <2>1, <2>2, PositionsMove
<1>10. \A k \in Heads : k \in DOMAIN out =>
          /\ SendPos(k, r) = <<step[r], box[r]>>
          /\ SendPos(k, r)' = After(k, <<step[r], box[r]>>)
  BY <1>3, <1>8 DEF Heads
<1>11. /\ SentTogether(out, "counts", "particles")
       /\ SentTogether(out, "ghostCounts", "ghostParticles")
  BY <1>3, <1>4 DEF SentTogether
<1>12. DOMAIN out \subseteq Kinds
  BY <1>3 DEF Kinds, Small
<1> QED
  BY <1>1, <1>9, <1>10, <1>11, <1>12, SendExact

\* At the end of a box the other ranks stay and nothing is received.
LEMMA PositionsNotify ==
    ASSUME TypeOK, Usual, ControlOK, NEW r \in Ranks, Notify(r)
    PROVE  /\ step[r] \in Nat /\ step[r] <= MaxStep /\ box[r] \in 0 .. N - 1
           /\ \A k \in Heads, x \in Ranks :
                /\ RecvPos(k, x)' = RecvPos(k, x)
                /\ x # r => SendPos(k, x)' = SendPos(k, x)
           /\ step[r] = MaxStep => \A k \in Heads : SendPos(k, r)' = SendPos(k, r)
           /\ step[r] < MaxStep =>
                /\ SendPos("counts", r) = <<step[r], box[r]>>
                /\ SendPos("counts", r)' = After("counts", <<step[r], box[r]>>)
                /\ box[r] = N - 1 =>
                     /\ SendPos("time", r) = <<step[r], box[r]>>
                     /\ SendPos("time", r)' = After("time", <<step[r], box[r]>>)
                /\ box[r] # N - 1 => SendPos("time", r)' = SendPos("time", r)
                /\ N > 1 => SendPos("ghostCounts", r)' = SendPos("ghostCounts", r)
<1>1. step[r] \in Nat /\ step[r] <= MaxStep /\ box[r] \in 0 .. N - 1
  BY TypeOfControl, ControlOfNotify DEF ControlOK
<1>2. \A k \in Heads, x \in Ranks \ {r} :
        RecvPos(k, x)' = RecvPos(k, x) /\ SendPos(k, x)' = SendPos(k, x)
  <2>1. \A x \in Ranks \ {r} : pc'[x] = pc[x] /\ step'[x] = step[x] /\ box'[x] = box[x]
    BY ControlOfNotify
  <2> QED
    BY <2>1 DEF SendPos, RecvPos
<1>3. pc[r] = "Notify"
  BY ControlOfNotify
<1>4. \A k : /\ SendPos(k, r) = SendAt(k, step[r], box[r], "Notify")
             /\ RecvPos(k, r) = RecvAt(k, step[r], box[r], "Notify")
  BY <1>3 DEF SendPos, RecvPos
<1>5. CASE box[r] = 0
  <2> DEFINE s == step[r]
             b == box[r]
  <2>1. \A k : /\ SendPos(k, r)' = SendAt(k, s + N, N - 1, "StartStep")
               /\ RecvPos(k, r)' = RecvAt(k, s + N, N - 1, "StartStep")
    BY <1>5, ControlOfNotify DEF SendPos, RecvPos
  <2>2. s \in Nat /\ s <= MaxStep /\ b \in 0 .. N - 1 /\ b = 0
    BY <1>1, <1>5
  <2> HIDE DEF s, b
  <2>3. /\ \A k \in Heads : RecvAt(k, s + N, N - 1, "StartStep") = RecvAt(k, s, b, "Notify")
        /\ s = MaxStep =>
             \A k \in Heads : SendAt(k, s + N, N - 1, "StartStep") = SendAt(k, s, b, "Notify")
        /\ s < MaxStep =>
             /\ SendAt("counts", s, b, "Notify") = <<s, b>>
             /\ SendAt("counts", s + N, N - 1, "StartStep") = After("counts", <<s, b>>)
             /\ b = N - 1 =>
                  /\ SendAt("time", s, b, "Notify") = <<s, b>>
                  /\ SendAt("time", s + N, N - 1, "StartStep") = After("time", <<s, b>>)
             /\ b # N - 1 =>
                  SendAt("time", s + N, N - 1, "StartStep") = SendAt("time", s, b, "Notify")
             /\ N > 1 =>
                  SendAt("ghostCounts", s + N, N - 1, "StartStep") = SendAt("ghostCounts", s, b, "Notify")
    BY <2>2, PositionsAtLastBox
  <2> QED
    BY <1>1, <1>2, <1>4, <2>1, <2>3 DEF s, b
<1>6. CASE box[r] # 0
  <2> DEFINE s == step[r]
             b == box[r]
  <2>1. \A k : /\ SendPos(k, r)' = SendAt(k, s, b - 1, "Wait")
               /\ RecvPos(k, r)' = RecvAt(k, s, b - 1, "Wait")
    BY <1>6, ControlOfNotify DEF SendPos, RecvPos
  <2>2. s \in Nat /\ s <= MaxStep /\ b \in 0 .. N - 1 /\ b # 0
    BY <1>1, <1>6
  <2> HIDE DEF s, b
  <2>3. /\ \A k \in Heads : RecvAt(k, s, b - 1, "Wait") = RecvAt(k, s, b, "Notify")
        /\ s = MaxStep =>
             \A k \in Heads : SendAt(k, s, b - 1, "Wait") = SendAt(k, s, b, "Notify")
        /\ s < MaxStep =>
             /\ SendAt("counts", s, b, "Notify") = <<s, b>>
             /\ SendAt("counts", s, b - 1, "Wait") = After("counts", <<s, b>>)
             /\ b = N - 1 =>
                  /\ SendAt("time", s, b, "Notify") = <<s, b>>
                  /\ SendAt("time", s, b - 1, "Wait") = After("time", <<s, b>>)
             /\ b # N - 1 =>
                  SendAt("time", s, b - 1, "Wait") = SendAt("time", s, b, "Notify")
             /\ N > 1 =>
                  SendAt("ghostCounts", s, b - 1, "Wait") = SendAt("ghostCounts", s, b, "Notify")
    BY <2>2, PositionsAtBox
  <2> QED
    BY <1>1, <1>2, <1>4, <2>1, <2>3 DEF s, b
<1> QED
  BY <1>5, <1>6

LEMMA SendExactAtNotify ==
    ASSUME TypeOK, Usual, ControlOK, ChannelsExact, ChanOK',
           NEW r \in Ranks, Notify(r), NotifySends(r)
    PROVE  ChannelsExact'
<1> DEFINE np == Cardinality(Solved(r))
           time == IF box[r] = N - 1 THEN {"time"} ELSE {}
           kinds == time \union (IF SkipSend(r) THEN {}
                                 ELSE WithParticles("counts", "particles", np))
           out == [k \in kinds |->
                     CASE k = "time" -> TimeToSend(r)
                       [] k = "counts" -> [np |-> np, leftmost |-> Least(r)]
                       [] OTHER -> Solved(r)]
<1>1. FinishAndSend(r, FinishKinds(box[r]), out) /\ ~IsLastStep(step[r])
  BY DEF NotifySends
<1>2. kinds = time \union WithParticles("counts", "particles", np)
  BY DEF SkipSend, Usual
<1>3. /\ DOMAIN out \subseteq {"time", "counts", "particles"}
      /\ "counts" \in DOMAIN out
      /\ "particles" \in DOMAIN out <=> np > 0
      /\ "time" \in DOMAIN out <=> box[r] = N - 1
  BY <1>2 DEF WithParticles
<1>4. /\ out["counts"].np = np
      /\ "particles" \in DOMAIN out => Cardinality(out["particles"]) = np
  BY <1>3
<1> HIDE DEF out, np
<1>5. step[r] < MaxStep
  <2>1. step[r] \in Nat /\ step[r] <= MaxStep /\ step[r] # MaxStep
    BY <1>1, PositionsNotify DEF IsLastStep
  <2> QED
    BY <2>1, Constants
<1>6. \A k \in Heads, x \in Ranks :
        /\ RecvPos(k, x)' = RecvPos(k, x)
        /\ x # r \/ k \notin DOMAIN out => SendPos(k, x)' = SendPos(k, x)
  <2>1. \A k \in Heads : k \notin DOMAIN out => SendPos(k, r)' = SendPos(k, r)
    BY <1>3, <1>5, PositionsNotify DEF Heads
  <2> QED
    BY <2>1, PositionsNotify
<1>7. \A k \in Heads : k \in DOMAIN out =>
          /\ SendPos(k, r) = <<step[r], box[r]>>
          /\ SendPos(k, r)' = After(k, <<step[r], box[r]>>)
  BY <1>3, <1>5, PositionsNotify DEF Heads
<1>8. /\ SentTogether(out, "counts", "particles")
      /\ SentTogether(out, "ghostCounts", "ghostParticles")
  BY <1>3, <1>4 DEF SentTogether
<1>9. DOMAIN out \subseteq Kinds /\ ChanOK
  BY <1>3, TypeOfControl DEF Kinds, Small
<1> QED
  BY <1>1, <1>6, <1>7, <1>8, <1>9, SendExact

LEMMA ChannelsStep ==
    ASSUME TypeOK, TypeOK', Usual, ControlOK, ChannelsExact, [Next]_vars
    PROVE  ChannelsExact'
<1>1. ChanOK /\ ChanOK'
  BY DEF TypeOK
<1>2. ASSUME NEW r \in Ranks, NEW p, NEW q, Moves(r, p, q),
             \A k \in Kinds : chan'[k] = chan[k],
             p \in {"Wait", "WaitGhost"} => step[r] = 0 \/ (p = "WaitGhost" /\ box[r] = 0),
             p = "NotifyGhost" => step[r] = MaxStep \/ box[r] = N - 1,
             <<p, q>> \in Within \union {<<"StartStep", "Wait">>},
             step[r] <= MaxStep
      PROVE  ChannelsExact'
  <2>1. step[r] \in Nat /\ box[r] \in 0 .. N - 1
    BY TypeOfControl
  <2>2. \A k \in Heads :
           /\ SendAt(k, step[r], box[r], q) = SendAt(k, step[r], box[r], p)
           /\ RecvAt(k, step[r], box[r], q) = RecvAt(k, step[r], box[r], p)
    BY <1>2, <2>1, PositionsStay, Constants DEF Within
  <2> QED
    BY <1>2, <2>2, QuietMove
<1>3. ASSUME NEW r \in Ranks, StartStep(r)
      PROVE  ChannelsExact'
  <2>1. chan' = chan
    BY <1>3 DEF StartStep
  <2> QED
    BY <1>2, <1>3, <2>1, ControlOfActions
<1>4. ASSUME NEW r \in Ranks, pc[r] \notin {"StartStep", "Gone"}
      PROVE  step[r] <= MaxStep
  BY <1>4 DEF ControlOK
<1>5. ASSUME NEW r \in Ranks, WaitReturns(r)
      PROVE  ChannelsExact'
  <2>1. chan' = chan /\ pc[r] = "Wait"
    BY <1>5 DEF WaitReturns
  <2>2. step[r] = 0
    BY <1>5 DEF WaitReturns, SkipRecv, Usual
  <2> QED
    BY <1>2, <1>4, <1>5, <2>1, <2>2, ControlOfActions DEF Within
<1>6. ASSUME NEW r \in Ranks, SolveHead(r)
      PROVE  ChannelsExact'
  <2>1. chan' = chan /\ pc[r] = "SolveHead"
    BY <1>6 DEF SolveHead
  <2> QED
    BY <1>2, <1>4, <1>6, <2>1, ControlOfActions DEF Within
<1>7. ASSUME NEW r \in Ranks, NotifyGhostReturns(r)
      PROVE  ChannelsExact'
  <2>1. chan' = chan /\ pc[r] = "NotifyGhost" /\ box[r] >= N - 1
    BY <1>7 DEF NotifyGhostReturns, NoGhostToSend, Usual
  <2>2. box[r] = N - 1
    BY <2>1, TypeOfControl, Constants
  <2> QED
    BY <1>2, <1>4, <1>7, <2>1, <2>2, ControlOfActions DEF Within
<1>8. ASSUME NEW r \in Ranks, NotifyGhostLastStep(r)
      PROVE  ChannelsExact'
  <2>1. pc[r] = "NotifyGhost" /\ step[r] = MaxStep
    BY <1>8 DEF NotifyGhostLastStep, IsLastStep
  <2>2. \A k \in Kinds : chan'[k] = chan[k]
    BY <1>1, <1>8, FinishOnly DEF NotifyGhostLastStep
  <2> QED
    BY <1>2, <1>4, <1>8, <2>1, <2>2, ControlOfActions DEF Within
<1>9. ASSUME NEW r \in Ranks, WaitGhostReturns(r)
      PROVE  ChannelsExact'
  <2>1. chan' = chan /\ pc[r] = "WaitGhost"
    BY <1>9 DEF WaitGhostReturns
  <2>2. step[r] = 0 \/ box[r] = 0
    BY <1>9 DEF WaitGhostReturns, NoGhostToWait, SkipRecv, Usual
  <2> QED
    BY <1>2, <1>4, <1>9, <2>1, <2>2, ControlOfActions DEF Within
<1>10. ASSUME NEW r \in Ranks, SolveTail(r)
       PROVE  ChannelsExact'
  <2>1. chan' = chan /\ pc[r] = "SolveTail"
    BY <1>10 DEF SolveTail
  <2> QED
    BY <1>2, <1>4, <1>10, <2>1, ControlOfActions DEF Within
<1>11. ASSUME NEW r \in Ranks, Notify(r)
       PROVE  ChannelsExact'
  <2>1. CASE NotifyLastStep(r)
    <3>1. \A k \in Kinds : chan'[k] = chan[k]
      BY <1>1, <2>1, FinishOnly DEF NotifyLastStep
    <3>2. step[r] = MaxStep
      BY <2>1 DEF NotifyLastStep, IsLastStep
    <3>3. \A k \in Heads, x \in Ranks :
             SendPos(k, x)' = SendPos(k, x) /\ RecvPos(k, x)' = RecvPos(k, x)
      BY <1>11, <3>2, PositionsNotify
    <3> QED
      BY <3>1, <3>3, QuietExact
  <2>2. CASE NotifySends(r)
    BY <1>1, <1>11, <2>2, SendExactAtNotify
  <2> QED
    BY <1>11, <2>1, <2>2 DEF Notify, Usual
<1>12. ASSUME NEW r \in Ranks, Destroy(r)
       PROVE  ChannelsExact'
  <2>1. chan' = chan
    BY <1>12 DEF Destroy
  <2>2. Moves(r, "StartStep", "Gone")
    BY <1>12, ControlOfActions
  <2>3. step[r] \in Nat /\ box[r] \in 0 .. N - 1
    BY TypeOfControl
  <2>4. \A k \in Heads :
           /\ SendAt(k, step[r], box[r], "Gone") = SendAt(k, step[r], box[r], "StartStep")
           /\ RecvAt(k, step[r], box[r], "Gone") = RecvAt(k, step[r], box[r], "StartStep")
    BY <2>3 DEF SendAt, RecvAt, Heads
  <2> QED
    BY <2>1, <2>2, <2>4, QuietMove
<1>13. CASE UNCHANGED vars
  BY <1>13, QuietExact DEF vars, SendPos, RecvPos
<1>14. ASSUME NEW r \in Ranks, WaitReceives(r)
       PROVE  ChannelsExact'
  BY <1>14, ReceiveExactAtWait
<1>15. ASSUME NEW r \in Ranks, WaitGhostReceives(r)
       PROVE  ChannelsExact'
  BY <1>15, ReceiveExactAtWaitGhost
<1>16. ASSUME NEW r \in Ranks, NotifyGhostSends(r)
       PROVE  ChannelsExact'
  BY <1>1, <1>16, SendExactAtNotifyGhost
<1> QED
  BY <1>3, <1>5, <1>6, <1>7, <1>8, <1>9, <1>10, <1>11, <1>12, <1>13, <1>14, <1>15, <1>16
     DEF Next, RankNext, Terminating

-----------------------------------------------------------------------------
(* Every message answers the receive that takes it                         *)

LEMMA InitMessages == Usual /\ Init => MessageInv
<1> SUFFICES ASSUME Usual, Init
             PROVE  MessageInv
  OBVIOUS
<1>1. TypeOK
  BY InitType
<1>2. ASSUME NEW r \in Ranks
      PROVE  pc[r] = "StartStep" /\ step[r] = N - 1 - r /\ box[r] = N - 1
  BY DEF Init, Usual, NumBoxes
<1>3. ControlOK
  <2>1. ASSUME NEW r \in Ranks
        PROVE  N - 1 - r <= MaxStep + N
    BY Constants DEF Ranks
  <2> QED
    BY <1>2, <2>1 DEF ControlOK
<1>4. \A k \in Kinds, r \in Ranks : chan[k][r] = <<>>
  BY DEF Init
<1>5. \A c, p : c = <<>> /\ p = <<>> => Paired(c, p)
  <2>1. ASSUME NEW f \in [1 .. 0 -> 1 .. 0]
        PROVE  Pairs(f, <<>>, <<>>)
    BY DEF Pairs
  <2>2. [i \in 1 .. 0 |-> i] \in [1 .. 0 -> 1 .. 0]
    OBVIOUS
  <2>3. Len(<<>>) = 0
    OBVIOUS
  <2> QED
    BY <2>1, <2>2, <2>3 DEF Paired
<1>6. ASSUME NEW r \in Ranks, NEW k \in Heads
      PROVE  Chain(k, chan[k][Upstream(r)], RecvPos(k, r), SendPos(k, Upstream(r)))
  <2>1. Upstream(r) \in Ranks /\ k \in Kinds
    BY Constants, HeadsAreSmall
  <2>2. RecvPos(k, r) = SendPos(k, Upstream(r))
    BY <1>2, <2>1, PositionsAtInit DEF RecvPos, SendPos
  <2>3. chan[k][Upstream(r)] = <<>> /\ Len(<<>>) = 0
    BY <1>4, <2>1
  <2> QED
    BY <2>2, <2>3 DEF Chain
<1>7. ChannelsExact
  <2>1. ASSUME NEW r \in Ranks
        PROVE  /\ Paired(chan["counts"][Upstream(r)], chan["particles"][Upstream(r)])
               /\ Paired(chan["ghostCounts"][Upstream(r)],
                         chan["ghostParticles"][Upstream(r)])
    BY <1>4, <1>5, Constants DEF Kinds, Small
  <2> QED
    BY <1>6, <2>1 DEF ChannelsExact
<1> QED
  BY <1>1, <1>3, <1>7 DEF MessageInv

LEMMA NextMessages == Usual /\ MessageInv /\ [Next]_vars => MessageInv'
<1> SUFFICES ASSUME Usual, MessageInv, [Next]_vars
             PROVE  MessageInv'
  OBVIOUS
<1>1. TypeOK /\ ControlOK /\ ChannelsExact
  BY DEF MessageInv
<1>2. TypeOK'
  BY <1>1, NextType
<1>3. ControlOK'
  BY <1>1, ControlStep
<1>4. ChannelsExact'
  BY <1>1, <1>2, ChannelsStep
<1> QED
  BY <1>2, <1>3, <1>4 DEF MessageInv

\* What a rank takes from its channels is what it waits for.
LEMMA InvMatches == Usual /\ MessageInv => MessageMatches
<1> SUFFICES ASSUME Usual, MessageInv, NEW r \in Ranks
             PROVE  /\ pc[r] = "Wait" /\ step[r] > 0 =>
                         /\ box[r] = N - 1 => IsFor("time", r, box[r])
                         /\ IsFor("counts", r, box[r])
                         /\ Announced("counts", "particles", r, box[r])
                    /\ pc[r] = "WaitGhost" /\ step[r] > 0 /\ box[r] > 0 =>
                         /\ IsFor("ghostCounts", r, box[r] - 1)
                         /\ Announced("ghostCounts", "ghostParticles", r, box[r] - 1)
  BY DEF MessageMatches
<1> DEFINE u == Upstream(r)
<1>1. TypeOK /\ ChannelsExact /\ u \in Ranks
  BY Constants DEF MessageInv
<1>2. step[r] \in Nat /\ box[r] \in 0 .. N - 1 /\ ChanOK
  BY <1>1, TypeOfControl
<1>3. /\ \A k \in Heads : Chain(k, chan[k][u], RecvPos(k, r), SendPos(k, u))
      /\ Paired(chan["counts"][u], chan["particles"][u])
      /\ Paired(chan["ghostCounts"][u], chan["ghostParticles"][u])
  BY <1>1 DEF ChannelsExact
<1> HIDE DEF u
<1>4. ASSUME NEW k \in Heads, NEW b, RecvPos(k, r) = <<step[r] - 1, b>>
      PROVE  IsFor(k, r, b)
  <2>1. Chain(k, chan[k][u], RecvPos(k, r), SendPos(k, u))
    BY <1>3
  <2>2. chan[k][u] # <<>> => Label(chan[k][u][1]) = <<step[r] - 1, b>>
    BY <1>4, <2>1 DEF Chain
  <2> QED
    BY <2>2 DEF IsFor, Label, u
<1>5. ASSUME NEW c \in Heads, NEW p \in Kinds, NEW b, IsFor(c, r, b),
             Paired(chan[c][u], chan[p][u])
      PROVE  Announced(c, p, r, b)
  <2>1. chan[c][u] \in Seq(Msg(c)) /\ chan[p][u] \in Seq(Msg(p))
    BY <1>1, <1>2, HeadsAreSmall DEF ChanOK
  <2>2. SUFFICES ASSUME chan[c][u] # <<>>, chan[c][u][1].data.np > 0
                 PROVE  /\ chan[p][u] # <<>>
                        /\ IsFor(p, r, b)
                        /\ Cardinality(chan[p][u][1].data) = chan[c][u][1].data.np
    BY DEF Announced, u
  <2>3. chan[p][u] # <<>> /\ Announces(chan[c][u][1], chan[p][u][1])
    BY <1>5, <2>1, <2>2, PairedTail
  <2>4. chan[c][u][1].step = step[r] - 1 /\ chan[c][u][1].box = b
    BY <1>5, <2>2 DEF IsFor, u
  <2> QED
    BY <2>3, <2>4 DEF Announces, Label, IsFor, u
<1>6. ASSUME pc[r] = "Wait", step[r] > 0
      PROVE  /\ box[r] = N - 1 => IsFor("time", r, box[r])
             /\ IsFor("counts", r, box[r])
             /\ Announced("counts", "particles", r, box[r])
  <2>1. /\ RecvPos("counts", r) = <<step[r] - 1, box[r]>>
        /\ box[r] = N - 1 => RecvPos("time", r) = <<step[r] - 1, box[r]>>
    BY <1>2, <1>6, PositionsAtWait DEF RecvPos
  <2>2. "time" \in Heads /\ "counts" \in Heads /\ "particles" \in Kinds
    BY DEF Heads, Kinds
  <2>3. IsFor("counts", r, box[r]) /\ (box[r] = N - 1 => IsFor("time", r, box[r]))
    BY <1>4, <2>1, <2>2
  <2> QED
    BY <1>3, <1>5, <2>2, <2>3
<1>7. ASSUME pc[r] = "WaitGhost", step[r] > 0, box[r] > 0
      PROVE  /\ IsFor("ghostCounts", r, box[r] - 1)
             /\ Announced("ghostCounts", "ghostParticles", r, box[r] - 1)
  <2>1. RecvPos("ghostCounts", r) = <<step[r] - 1, box[r] - 1>>
    BY <1>2, <1>7, PositionsAtGhosts DEF RecvPos
  <2>2. N > 1
    BY <1>2, <1>7, Constants
  <2>3. "ghostCounts" \in Heads /\ "ghostParticles" \in Kinds
    BY <2>2 DEF Heads, Kinds
  <2>4. IsFor("ghostCounts", r, box[r] - 1)
    BY <1>4, <2>1, <2>3
  <2> QED
    BY <1>3, <1>5, <2>3, <2>4
<1> QED
  BY <1>6, <1>7

\* The inductive invariant of the messages holds in every state.
THEOREM MessagesInvariant == Usual => (Spec => []MessageInv)
<1> SUFFICES ASSUME Usual
             PROVE  Spec => []MessageInv
  OBVIOUS
<1>1. Init => MessageInv
  BY InitMessages
<1>2. MessageInv /\ [Next]_vars => MessageInv'
  BY NextMessages
<1> QED
  BY <1>1, <1>2, PTL DEF Spec

\* The channels hold exactly what lies between sender and receiver, whatever
\* the number of ranks, steps and particles.
THEOREM ChannelsAreExact == Usual => (Spec => []ChannelsExact)
<1> SUFFICES ASSUME Usual
             PROVE  Spec => []ChannelsExact
  OBVIOUS
<1>1. Spec => []MessageInv
  BY MessagesInvariant
<1>2. MessageInv => ChannelsExact
  BY DEF MessageInv
<1> QED
  BY <1>1, <1>2, PTL

\* Messages carry no label, yet Wait always takes the time, counts and
\* particles of the box it solves, and of the ghost slice of the box behind.
THEOREM MessagesInOrder == Usual => (Spec => []MessageMatches)
<1> SUFFICES ASSUME Usual
             PROVE  Spec => []MessageMatches
  OBVIOUS
<1>1. Spec => []MessageInv
  BY MessagesInvariant
<1>2. MessageInv => MessageMatches
  BY InvMatches
<1> QED
  BY <1>1, <1>2, PTL

-----------------------------------------------------------------------------
(* No send buffer is touched while MPI reads from it                       *)

\* A handler that waits for every kind it sends keeps the other requests safe.
LEMMA SendKeepsBuffers ==
    ASSUME NEW r \in Ranks, NEW done \in SUBSET Kinds, NEW out, ChanOK, BufOK, BufferIntact,
           DOMAIN out \subseteq done, FinishAndSend(r, done, out)
    PROVE  BufferIntact'
<1>1. PICK kept \in SUBSET (DOMAIN out \ Small) :
        /\ chan' = [k \in Kinds |->
                      IF k \in DOMAIN out
                        THEN [chan[k] EXCEPT ![r] = Append(@, Message(r, k, out[k], kept))]
                        ELSE chan[k]]
        /\ buf' = [k \in Kinds |->
                     CASE k \in DOMAIN out ->
                            [buf[k] EXCEPT ![r] = {Message(r, k, out[k], kept)}]
                       [] k \in done \ DOMAIN out -> [buf[k] EXCEPT ![r] = {}]
                       [] OTHER -> buf[k]]
  BY Zenon DEF FinishAndSend
<1>2. \A k \in done : Completed(k, r)
  BY DEF FinishAndSend
<1>3. SUFFICES ASSUME NEW k \in Kinds, NEW x \in Ranks, NEW i \in 1 .. Len(chan'[k][x]),
                      chan'[k][x][i].ref
               PROVE  buf'[k][x] = {chan'[k][x][i]}
  BY DEF BufferIntact
<1>4. chan[k] \in [Ranks -> Seq(Msg(k))] /\ buf[k] \in [Ranks -> SUBSET Msg(k)]
  BY DEF ChanOK, BufOK
<1>5. CASE x # r \/ k \notin done
  <2>1. chan'[k][x] = chan[k][x]
    BY <1>1, <1>4, <1>5
  <2>2. buf'[k][x] = buf[k][x]
    <3>1. CASE k \in DOMAIN out
      <4>1. buf'[k] = [buf[k] EXCEPT ![r] = {Message(r, k, out[k], kept)}]
        BY <1>1, <3>1
      <4> QED
        BY <1>4, <1>5, <3>1, <4>1
    <3>2. CASE k \in done \ DOMAIN out
      <4>1. buf'[k] = [buf[k] EXCEPT ![r] = {}]
        BY <1>1, <3>2
      <4> QED
        BY <1>4, <1>5, <3>2, <4>1
    <3>3. CASE k \notin done
      BY <1>1, <3>3
    <3> QED
      BY <3>1, <3>2, <3>3
  <2> QED
    BY <1>3, <2>1, <2>2 DEF BufferIntact
<1>6. CASE x = r /\ k \in done
  <2>1. \A j \in 1 .. Len(chan[k][r]) : ~chan[k][r][j].ref
    BY <1>2, <1>6 DEF Completed
  <2>2. CASE k \in DOMAIN out
    <3> DEFINE m == Message(r, k, out[k], kept)
    <3>1. chan'[k] = [chan[k] EXCEPT ![r] = Append(chan[k][r], m)]
      BY <1>1, <2>2
    <3>2. buf'[k] = [buf[k] EXCEPT ![r] = {m}]
      BY <1>1, <2>2
    <3> HIDE DEF m
    <3>3. chan'[k][r] = Append(chan[k][r], m) /\ buf'[k][r] = {m}
      BY <1>4, <3>1, <3>2
    <3>4. chan[k][r] \in Seq(Msg(k))
      BY <1>4
    <3>5. i \in 1 .. Len(chan[k][r]) \/ i = Len(chan[k][r]) + 1
      BY <1>3, <1>6, <3>3, <3>4
    <3>6. i # Len(chan[k][r]) + 1 => chan'[k][r][i] = chan[k][r][i]
      BY <3>3, <3>4, <3>5
    <3>7. i = Len(chan[k][r]) + 1
      BY <1>3, <1>6, <2>1, <3>5, <3>6, Zenon
    <3> QED
      BY <1>6, <3>3, <3>4, <3>7
  <2>3. CASE k \notin DOMAIN out
    <3>1. chan'[k][r] = chan[k][r]
      BY <1>1, <2>3
    <3> QED
      BY <1>3, <1>6, <2>1, <3>1
  <2> QED
    BY <2>2, <2>3
<1> QED
  BY <1>5, <1>6

LEMMA ReceiveKeepsBuffers ==
    ASSUME NEW r \in Ranks, NEW K \in SUBSET Kinds, ChanOK, BufferIntact, Receive(K, r),
           buf' = buf
    PROVE  BufferIntact'
<1>1. SUFFICES ASSUME NEW k \in Kinds, NEW x \in Ranks, NEW i \in 1 .. Len(chan'[k][x]),
                      chan'[k][x][i].ref
               PROVE  buf[k][x] = {chan'[k][x][i]}
  BY DEF BufferIntact
<1>2. CASE x # Upstream(r) \/ k \notin K
  <2>1. chan'[k][x] = chan[k][x]
    BY <1>2, ReceiveEffect
  <2> QED
    BY <1>1, <2>1 DEF BufferIntact
<1>3. CASE x = Upstream(r) /\ k \in K
  <2>1. chan[k][x] # <<>> /\ chan'[k][x] = Tail(chan[k][x])
    BY <1>3, ReceiveEffect
  <2>2. chan[k][x] \in Seq(Msg(k))
    BY DEF ChanOK
  <2>3. i + 1 \in 1 .. Len(chan[k][x]) /\ chan'[k][x][i] = chan[k][x][i + 1]
    <3>1. /\ Len(chan[k][x]) \in Nat /\ Len(Tail(chan[k][x])) = Len(chan[k][x]) - 1
          /\ \A j \in 1 .. Len(Tail(chan[k][x])) :
                Tail(chan[k][x])[j] = chan[k][x][j + 1]
      BY <2>1, <2>2, HeadTailProperties
    <3> QED
      BY <2>1, <3>1
  <2> QED
    BY <1>1, <2>3 DEF BufferIntact
<1> QED
  BY <1>2, <1>3

\* ~Hipace does not wait for the last time it sent.  It waits for the counts,
\* and whoever received the counts of a box has received its time.
LEMMA DestroyKeepsBuffers ==
    ASSUME Usual, MessageInv, BufferIntact, NEW r \in Ranks, Destroy(r)
    PROVE  BufferIntact'
<1>1. /\ pc[r] = "StartStep" /\ step[r] > MaxStep /\ chan' = chan
      /\ \A k \in FinishKinds(0) \union GhostKinds : Completed(k, r)
      /\ buf' = [k \in Kinds |-> [buf[k] EXCEPT ![r] = {}]]
  BY DEF Destroy
<1>2. TypeOK /\ ControlOK /\ ChannelsExact
  BY DEF MessageInv
<1>3. ChanOK /\ BufOK /\ \A x \in Ranks : step[x] \in Nat /\ box[x] \in 0 .. N - 1
  BY <1>2, TypeOfControl DEF TypeOK
<1>4. \A k \in Kinds : Completed(k, r)
  <2>1. \A k \in Kinds \ {"time"} : Completed(k, r)
    BY <1>1 DEF Kinds, Small, FinishKinds, GhostKinds
  <2>2. PICK x \in Ranks : Upstream(x) = r
    <3>1. r = 0 => Upstream(N - 1) = r
      BY DEF Upstream
    <3>2. r # 0 => r - 1 \in Ranks /\ Upstream(r - 1) = r
      BY Constants DEF Ranks, Upstream
    <3> QED
      BY <3>1, <3>2, Constants
  <2>3. /\ Chain("time", chan["time"][r], RecvPos("time", x), SendPos("time", r))
        /\ Chain("counts", chan["counts"][r], RecvPos("counts", x), SendPos("counts", r))
    BY <1>2, <2>2 DEF ChannelsExact, Heads
  <2>4. chan["counts"][r] \in Seq(Msg("counts")) /\ chan["time"][r] \in Seq(Msg("time"))
    BY <1>3 DEF ChanOK, Kinds, Small
  <2>5. CASE EagerSmall
    BY <2>1, <2>3, <2>5 DEF Chain, Completed
  <2>6. CASE ~EagerSmall
    <3>1. chan["counts"][r] = <<>>
      <4>1. SUFFICES ASSUME chan["counts"][r] # <<>>
                     PROVE  FALSE
        OBVIOUS
      <4>2. 1 \in 1 .. Len(chan["counts"][r])
        BY <2>4, <4>1, EmptySeq
      <4>3. chan["counts"][r][1].ref
        BY <2>3, <2>6, <4>2 DEF Chain
      <4>4. Completed("counts", r)
        BY <2>1 DEF Kinds, Small
      <4> QED
        BY <4>2, <4>3, <4>4 DEF Completed
    <3>2. RecvPos("counts", x) = SendPos("counts", r)
      BY <2>3, <3>1 DEF Chain
    <3> DEFINE S == IF step[r] = MaxStep + N THEN MaxStep ELSE step[r]
    <3>3. SendPos("counts", r) = <<S, N - 1>> /\ SendPos("time", r) = <<S, N - 1>>
      BY <1>1, <1>3, Constants DEF SendPos, SendAt, FirstBox
    <3> HIDE DEF S
    <3>4. RecvPos("time", x) = RecvPos("counts", x)
      <4>1. step[x] \in Nat /\ box[x] \in 0 .. N - 1
        BY <1>3
      <4>2. CASE step[x] = 0
        BY <4>2 DEF RecvPos, RecvAt, FirstBox
      <4>3. CASE step[x] # 0 /\ pc[x] \in {"StartStep", "Wait", "Gone"}
        <5>1. RecvPos("counts", x) = <<step[x] - 1, box[x]>>
          BY <4>3 DEF RecvPos, RecvAt
        <5>2. box[x] = N - 1
          BY <3>2, <3>3, <5>1
        <5>3. RecvPos("time", x) = <<step[x] - 1, N - 1>>
          BY <4>3, <5>2 DEF RecvPos, RecvAt
        <5> QED
          BY <5>1, <5>2, <5>3
      <4>4. CASE step[x] # 0 /\ pc[x] \notin {"StartStep", "Wait", "Gone"}
        <5>1. RecvPos("counts", x) = IF box[x] > 0 THEN <<step[x] - 1, box[x] - 1>>
                                                   ELSE <<step[x] - 1 + N, N - 1>>
          BY <4>1, <4>4 DEF RecvPos, RecvAt, After, LastBox, FirstBox
        <5>2. box[x] = 0
          <6>1. SUFFICES ASSUME box[x] > 0
                         PROVE  FALSE
            BY <4>1
          <6>2. box[x] - 1 = N - 1
            BY <3>2, <3>3, <5>1, <6>1
          <6> QED
            BY <4>1, <6>2, Constants
        <5>3. RecvPos("time", x) = <<step[x] - 1 + N, N - 1>>
          BY <4>4 DEF RecvPos, RecvAt
        <5> QED
          BY <5>1, <5>2, <5>3
      <4> QED
        BY <4>2, <4>3, <4>4
    <3>5. chan["time"][r] = <<>>
      <4> DEFINE c == chan["time"][r]
      <4>1. Chain("time", c, <<S, N - 1>>, <<S, N - 1>>)
        BY <2>3, <3>2, <3>3, <3>4
      <4>2. SUFFICES ASSUME c # <<>>
                     PROVE  FALSE
        OBVIOUS
      <4>3. c \in Seq(Msg("time"))
        BY <2>4
      <4> HIDE DEF c
      <4>4. Len(c) \in Nat /\ Len(c) >= 1
        BY <4>2, <4>3, EmptySeq
      <4>5. c[1].step \in Nat /\ c[Len(c)].step \in Nat /\ c[Len(c)].box \in 0 .. N - 1
        <5>1. c[1] \in Msg("time") /\ c[Len(c)] \in Msg("time")
          BY <4>3, <4>4, ElementOfSeq
        <5> QED
          BY <1>2, <5>1, TypeOfControl DEF Msg, Boxes
      <4>6. c[1].step <= c[Len(c)].step
        <5>1. \A i, j \in 1 .. Len(c) : i < j => c[i].step <= c[j].step
          <6>1. \A n \in Msg("time") : n.step \in Nat
            BY DEF Msg
          <6> QED
            BY <4>1, <4>3, <6>1, ChainSteps
        <5> QED
          BY <4>4, <4>5, <5>1
      <4>7. c[1].step = S /\ After("time", <<c[Len(c)].step, c[Len(c)].box>>) = <<S, N - 1>>
        BY <4>1, <4>2 DEF Chain, Label
      <4>8. c[Len(c)].step + N = S
        BY <4>5, <4>7, Constants DEF After, LastBox
      <4> QED
        BY <4>5, <4>6, <4>7, <4>8, Constants
    <3>6. Len(<<>>) = 0
      OBVIOUS
    <3> QED
      BY <2>1, <3>5, <3>6 DEF Completed
  <2> QED
    BY <2>5, <2>6
<1>5. SUFFICES ASSUME NEW k \in Kinds, NEW x \in Ranks, NEW i \in 1 .. Len(chan'[k][x]),
                      chan'[k][x][i].ref
               PROVE  buf'[k][x] = {chan'[k][x][i]}
  BY DEF BufferIntact
<1>6. i \in 1 .. Len(chan[k][x]) /\ chan[k][x][i].ref
  BY <1>1, <1>5
<1>7. x # r
  BY <1>4, <1>6 DEF Completed
<1>8. buf'[k][x] = buf[k][x]
  BY <1>1, <1>3, <1>7 DEF BufOK
<1> QED
  BY <1>1, <1>6, <1>8 DEF BufferIntact

LEMMA InitBuffers == Init => BufferIntact
<1> SUFFICES ASSUME Init, NEW k \in Kinds, NEW r \in Ranks, NEW i \in 1 .. Len(chan[k][r])
             PROVE  FALSE
  BY DEF BufferIntact
<1>1. chan[k][r] = <<>> /\ Len(<<>>) = 0
  BY DEF Init
<1> QED
  BY <1>1

LEMMA NextBuffers ==
    ASSUME Usual, MessageInv, BufferIntact, [Next]_vars
    PROVE  BufferIntact'
<1>1. TypeOK /\ ChanOK /\ BufOK
  BY DEF MessageInv, TypeOK
<1>2. ASSUME chan' = chan, buf' = buf
      PROVE  BufferIntact'
  BY <1>2 DEF BufferIntact
<1>3. ASSUME NEW r \in Ranks,
             \/ StartStep(r) \/ WaitReturns(r) \/ SolveHead(r) \/ NotifyGhostReturns(r)
             \/ WaitGhostReturns(r) \/ SolveTail(r)
      PROVE  BufferIntact'
  <2>1. chan' = chan /\ buf' = buf
    BY <1>3 DEF StartStep, WaitReturns, SolveHead, NotifyGhostReturns, WaitGhostReturns,
                SolveTail
  <2> QED
    BY <1>2, <2>1
<1>4. ASSUME NEW r \in Ranks, WaitReceives(r) \/ WaitGhostReceives(r)
      PROVE  BufferIntact'
  <2>1. PICK K \in SUBSET Kinds : Receive(K, r)
    <3>1. CASE WaitReceives(r)
      <4> DEFINE n == Received("counts", r).data
                 time == IF box[r] = N - 1 THEN {"time"} ELSE {}
                 K == time \union WithParticles("counts", "particles", n.np)
      <4>1. K \in SUBSET Kinds
        BY KindsOfMessages DEF Kinds, Small
      <4>2. Receive(K, r)
        BY <3>1 DEF WaitReceives
      <4> QED
        BY <4>1, <4>2
    <3>2. CASE WaitGhostReceives(r)
      BY <3>2, KindsOfMessages DEF WaitGhostReceives
    <3> QED
      BY <1>4, <3>1, <3>2
  <2>2. buf' = buf
    BY <1>4 DEF WaitReceives, WaitGhostReceives
  <2> QED
    BY <1>1, <2>1, <2>2, ReceiveKeepsBuffers
<1>5. ASSUME NEW r \in Ranks, NotifyGhostLastStep(r)
      PROVE  BufferIntact'
  <2>1. FinishAndSend(r, GhostKinds, <<>>) /\ DOMAIN <<>> \subseteq GhostKinds
    BY <1>5 DEF NotifyGhostLastStep
  <2> QED
    BY <1>1, <2>1, KindsOfMessages, SendKeepsBuffers
<1>6. ASSUME NEW r \in Ranks, NotifyGhostSends(r)
      PROVE  BufferIntact'
  <2> DEFINE np == Cardinality(headBin[r])
             kinds == IF SkipSend(r) THEN {}
                      ELSE WithParticles("ghostCounts", "ghostParticles", np)
             out == [k \in kinds |-> IF k = "ghostCounts"
                                       THEN [np |-> np, leftmost |-> Least(r)]
                                       ELSE headBin[r]]
  <2>1. FinishAndSend(r, GhostKinds, out)
    BY <1>6 DEF NotifyGhostSends
  <2>2. DOMAIN out \subseteq GhostKinds
    BY DEF WithParticles, GhostKinds
  <2> HIDE DEF out
  <2> QED
    BY <1>1, <2>1, <2>2, KindsOfMessages, SendKeepsBuffers
<1>7. ASSUME NEW r \in Ranks, NotifyLastStep(r)
      PROVE  BufferIntact'
  <2>1. FinishAndSend(r, FinishKinds(box[r]), <<>>) /\ DOMAIN <<>> \subseteq FinishKinds(box[r])
    BY <1>7 DEF NotifyLastStep
  <2> QED
    BY <1>1, <2>1, KindsOfMessages, SendKeepsBuffers
<1>8. ASSUME NEW r \in Ranks, NotifySends(r)
      PROVE  BufferIntact'
  <2> DEFINE np == Cardinality(Solved(r))
             time == IF box[r] = N - 1 THEN {"time"} ELSE {}
             kinds == time \union (IF SkipSend(r) THEN {}
                                   ELSE WithParticles("counts", "particles", np))
             out == [k \in kinds |->
                       CASE k = "time" -> TimeToSend(r)
                         [] k = "counts" -> [np |-> np, leftmost |-> Least(r)]
                         [] OTHER -> Solved(r)]
  <2>1. FinishAndSend(r, FinishKinds(box[r]), out)
    BY <1>8 DEF NotifySends
  <2>2. DOMAIN out \subseteq FinishKinds(box[r])
    BY DEF WithParticles, FinishKinds
  <2> HIDE DEF out
  <2> QED
    BY <1>1, <2>1, <2>2, KindsOfMessages, SendKeepsBuffers
<1>9. ASSUME NEW r \in Ranks, Notify(r)
      PROVE  BufferIntact'
  BY <1>7, <1>8, <1>9 DEF Notify, Usual
<1>10. ASSUME NEW r \in Ranks, Destroy(r)
       PROVE  BufferIntact'
  BY <1>10, DestroyKeepsBuffers
<1>11. CASE UNCHANGED vars
  BY <1>2, <1>11 DEF vars
<1> QED
  BY <1>3, <1>4, <1>5, <1>6, <1>9, <1>10, <1>11 DEF Next, RankNext, Terminating

\* No send buffer is reused, freed or destroyed while MPI may still read it,
\* although Notify reuses one buffer per kind in every box, and although ~Hipace
\* with several ranks does not wait for the request of the time buffer.
THEOREM BuffersIntact == Usual => (Spec => []BufferIntact)
<1> SUFFICES ASSUME Usual
             PROVE  Spec => []BufferIntact
  OBVIOUS
<1>1. Init => MessageInv /\ BufferIntact
  BY InitMessages, InitBuffers
<1>2. MessageInv /\ BufferIntact /\ [Next]_vars => MessageInv' /\ BufferIntact'
  BY NextMessages, NextBuffers
<1> QED
  BY <1>1, <1>2, PTL DEF Spec

-----------------------------------------------------------------------------
(* The physical time                                                       *)

\* A move that neither changes a time nor gives the rank a new claim on it.
LEMMA TimeKept ==
    ASSUME TypeOK, Usual, TimeInv, physicalTime' = physicalTime,
           NEW r \in Ranks, NEW p, NEW q, Moves(r, p, q), HasTime(r)' => HasTime(r)
    PROVE  \A x \in Ranks : HasTime(x)' => physicalTime'[x] = step'[x]
<1>1. step' = step /\ box' = box /\ \A x \in Ranks \ {r} : pc'[x] = pc[x]
  BY TypeOfControl DEF Moves
<1>2. \A x \in Ranks \ {r} : HasTime(x)' => HasTime(x)
  BY <1>1 DEF HasTime, Computing
<1> QED
  BY <1>1, <1>2 DEF TimeInv

LEMMA TimeOfRanks ==
    ASSUME TypeOK, Usual, ControlOK, ChannelsExact, TimeInv, [Next]_vars
    PROVE  \A x \in Ranks : HasTime(x)' => physicalTime'[x] = step'[x]
<1> DEFINE Goal == \A x \in Ranks : HasTime(x)' => physicalTime'[x] = step'[x]
<1>1. ASSUME NEW r \in Ranks, StartStep(r) \/ Destroy(r)
      PROVE  Goal
  <2>1. PICK q \in {"Wait", "Gone"} : Moves(r, "StartStep", q)
    BY <1>1, ControlOfActions
  <2>2. HasTime(r)' => HasTime(r)
    BY <2>1, TypeOfControl DEF HasTime, Computing, Moves, ControlOK
  <2>3. physicalTime' = physicalTime
    BY <1>1 DEF StartStep, Destroy
  <2> QED
    BY <2>1, <2>2, <2>3, TimeKept
<1>2. ASSUME NEW r \in Ranks, WaitReturns(r)
      PROVE  Goal
  <2>1. step[r] = 0 /\ physicalTime' = physicalTime
    BY <1>2 DEF WaitReturns, SkipRecv, Usual
  <2> QED
    BY <1>2, <2>1, ControlOfActions, TimeKept DEF HasTime
<1>3. ASSUME NEW r \in Ranks, NEW m \in Within, Moves(r, m[1], m[2]), m[1] # "Wait",
             physicalTime' = physicalTime
      PROVE  Goal
  <2>1. HasTime(r)
    BY <1>3 DEF Within, Moves, HasTime, Computing
  <2> QED
    BY <1>3, <2>1, TimeKept
<1>4. ASSUME NEW r \in Ranks, WaitReceives(r)
      PROVE  Goal
  <2>1. Moves(r, "Wait", "SolveHead")
    BY <1>4, ControlOfActions
  <2>2. CASE box[r] # N - 1
    <3>1. HasTime(r)
      BY <2>1, <2>2 DEF HasTime, Moves
    <3>2. physicalTime' = physicalTime
      BY <1>4, <2>2 DEF WaitReceives
    <3> QED
      BY <2>1, <3>1, <3>2, TimeKept
  <2>3. CASE box[r] = N - 1
    <3> DEFINE u == Upstream(r)
    <3>1. u \in Ranks /\ step[r] \in Nat /\ step[r] > 0
      BY <1>4, Constants, TypeOfControl DEF WaitReceives
    <3>2. chan["time"][u] \in Seq(Msg("time"))
      BY <3>1, TypeOfControl DEF ChanOK, Kinds, Small
    <3>3. chan["time"][u] # <<>> /\ Received("time", r) = chan["time"][u][1]
      <4>1. chan["time"][u] # <<>>
        BY <1>4, <2>3 DEF WaitReceives, Receive
      <4> QED
        BY <3>2, <4>1 DEF Received
    <3>4. Label(chan["time"][u][1]) = <<step[r] - 1, box[r]>>
      <4>1. Chain("time", chan["time"][u], RecvPos("time", r), SendPos("time", u))
        BY DEF ChannelsExact, Heads
      <4>2. RecvPos("time", r) = <<step[r] - 1, box[r]>>
        BY <2>1, <2>3, <3>1, TypeOfControl, PositionsAtWait DEF RecvPos, Moves
      <4> QED
        BY <3>3, <4>1, <4>2 DEF Chain
    <3>5. Received("time", r).data = step[r]
      <4>1. 1 \in 1 .. Len(chan["time"][u])
        BY <3>2, <3>3, EmptySeq
      <4>2. chan["time"][u][1].data = chan["time"][u][1].step + 1
        BY <3>1, <4>1 DEF TimeInv
      <4> QED
        BY <3>1, <3>3, <3>4, <4>2 DEF Label
    <3>6. physicalTime' = [physicalTime EXCEPT ![r] = step[r]]
      BY <1>4, <2>3, <3>5 DEF WaitReceives
    <3>7. physicalTime'[r] = step[r] /\ \A x \in Ranks \ {r} : physicalTime'[x] = physicalTime[x]
      BY <3>6 DEF TypeOK
    <3>8. step' = step /\ box' = box /\ \A x \in Ranks \ {r} : pc'[x] = pc[x]
      BY <2>1, TypeOfControl DEF Moves
    <3>9. \A x \in Ranks \ {r} : HasTime(x)' => HasTime(x)
      BY <3>8 DEF HasTime, Computing
    <3> QED
      BY <3>7, <3>8, <3>9 DEF TimeInv
  <2> QED
    BY <2>2, <2>3
<1>5. ASSUME NEW r \in Ranks, Notify(r)
      PROVE  Goal
  <2>1. /\ pc[r] = "Notify" /\ step[r] \in Nat /\ N \in Nat \ {0}
        /\ \A x \in Ranks \ {r} :
             pc'[x] = pc[x] /\ step'[x] = step[x] /\ box'[x] = box[x]
    BY <1>5, ControlOfNotify, TypeOfControl, Constants
  <2>2. \A x \in Ranks \ {r} : physicalTime'[x] = physicalTime[x]
    BY <1>5 DEF Notify, NextBox, TypeOK
  <2>3. \A x \in Ranks \ {r} : HasTime(x)' => HasTime(x)
    BY <2>1 DEF HasTime, Computing
  <2>4. HasTime(r)' => physicalTime'[r] = step'[r]
    <3>1. CASE box[r] = 0
      <4>1. pc'[r] = "StartStep" /\ step'[r] # 0
        BY <1>5, <2>1, <3>1, ControlOfNotify
      <4> QED
        BY <4>1 DEF HasTime, Computing
    <3>2. CASE box[r] # 0
      <4>1. step'[r] = step[r]
        BY <1>5, <3>2, ControlOfNotify
      <4>2. physicalTime' = physicalTime
        BY <1>5, <3>2 DEF Notify, NextBox, IsLastBox
      <4>3. HasTime(r)
        BY <2>1 DEF HasTime, Computing
      <4> QED
        BY <4>1, <4>2, <4>3 DEF TimeInv
    <3> QED
      BY <3>1, <3>2
  <2> QED
    BY <2>1, <2>2, <2>3, <2>4 DEF TimeInv
<1>6. ASSUME NEW r \in Ranks,
             \/ SolveHead(r) \/ NotifyGhostReturns(r) \/ NotifyGhostLastStep(r)
             \/ NotifyGhostSends(r) \/ WaitGhostReturns(r) \/ WaitGhostReceives(r)
             \/ SolveTail(r)
      PROVE  Goal
  <2>1. physicalTime' = physicalTime
    BY <1>6 DEF SolveHead, NotifyGhostReturns, NotifyGhostLastStep, NotifyGhostSends,
                WaitGhostReturns, WaitGhostReceives, SolveTail
  <2>2. \E m \in Within : m[1] # "Wait" /\ Moves(r, m[1], m[2])
    <3>1. /\ <<"SolveHead", "NotifyGhost">> \in Within
          /\ <<"NotifyGhost", "WaitGhost">> \in Within
          /\ <<"WaitGhost", "SolveTail">> \in Within /\ <<"SolveTail", "Notify">> \in Within
      BY DEF Within
    <3> QED
      BY <1>6, <3>1, ControlOfActions
  <2> QED
    BY <1>3, <2>1, <2>2
<1>7. CASE UNCHANGED vars
  BY <1>7 DEF vars, TimeInv, HasTime, Computing
<1> QED
  BY <1>1, <1>2, <1>4, <1>5, <1>6, <1>7 DEF Next, RankNext, Terminating

\* What a channel holds of times after a step.
LEMMA TimeOfMessages ==
    ASSUME TypeOK, TypeOK', Usual, TimeInv, [Next]_vars
    PROVE  \A x \in Ranks : \A i \in 1 .. Len(chan'["time"][x]) :
              chan'["time"][x][i].data = chan'["time"][x][i].step + 1
<1> DEFINE Right(c) == \A i \in 1 .. Len(c) : c[i].data = c[i].step + 1
           Goal == \A x \in Ranks : Right(chan'["time"][x])
<1>1. /\ ChanOK /\ ChanOK' /\ \A x \in Ranks : Right(chan["time"][x])
      /\ \A x \in Ranks : chan["time"][x] \in Seq(Msg("time"))
  BY DEF TypeOK, TimeInv, ChanOK, Kinds, Small
<1>0. "time" \in Kinds
  BY DEF Kinds, Small
<1>2. ASSUME NEW r \in Ranks, NEW K \in SUBSET Kinds, Receive(K, r)
      PROVE  Goal
  <2>1. ASSUME NEW x \in Ranks
        PROVE  Right(chan'["time"][x])
    <3>1. CASE x # Upstream(r) \/ "time" \notin K
      <4>1. chan'["time"][x] = chan["time"][x]
        BY <1>0, <1>1, <1>2, <3>1, ReceiveEffect
      <4> QED
        BY <1>1, <4>1
    <3>2. CASE x = Upstream(r) /\ "time" \in K
      <4>1. chan["time"][x] # <<>> /\ chan'["time"][x] = Tail(chan["time"][x])
        BY <1>1, <1>2, <3>2, ReceiveEffect
      <4> DEFINE c == chan["time"][x]
      <4>2. c \in Seq(Msg("time")) /\ c # <<>> /\ Right(c)
        BY <1>1, <4>1
      <4> HIDE DEF c
      <4>3. /\ Len(c) \in Nat /\ Len(Tail(c)) = Len(c) - 1
            /\ \A i \in 1 .. Len(Tail(c)) : Tail(c)[i] = c[i + 1]
        BY <4>2, HeadTailProperties
      <4>4. Right(Tail(c))
        BY <4>2, <4>3
      <4> QED
        BY <4>1, <4>4 DEF c
    <3> QED
      BY <3>1, <3>2
  <2> QED
    BY <2>1
<1>3. ASSUME NEW r \in Ranks, NEW done, NEW out, DOMAIN out \subseteq Kinds,
             FinishAndSend(r, done, out),
             "time" \in DOMAIN out => out["time"] = step[r] + 1
      PROVE  Goal
  <2>1. ASSUME NEW x \in Ranks
        PROVE  Right(chan'["time"][x])
    <3>1. CASE x # r \/ "time" \notin DOMAIN out
      <4>1. chan'["time"][x] = chan["time"][x]
        BY <1>0, <1>1, <1>3, <3>1, SendEffect
      <4> QED
        BY <1>1, <4>1
    <3>2. CASE x = r /\ "time" \in DOMAIN out
      <4> DEFINE c == chan["time"][r]
      <4>1. PICK m \in Msg("time") :
              /\ chan'["time"][r] = Append(c, m)
              /\ Label(m) = <<step[r], box[r]>>
              /\ m.data = out["time"]
        BY <1>1, <1>3, <3>2, SendEffect
      <4>2. m.data = m.step + 1
        BY <1>3, <3>2, <4>1 DEF Label
      <4>3. c \in Seq(Msg("time")) /\ Right(c)
        BY <1>1
      <4> HIDE DEF c
      <4>4. /\ Len(c) \in Nat /\ Len(Append(c, m)) = Len(c) + 1
            /\ \A i \in 1 .. Len(c) : Append(c, m)[i] = c[i]
            /\ Append(c, m)[Len(c) + 1] = m
        BY <4>3, AppendProperties
      <4>5. Right(Append(c, m))
        BY <4>2, <4>3, <4>4
      <4> QED
        BY <3>2, <4>1, <4>5
    <3> QED
      BY <3>1, <3>2
  <2> QED
    BY <2>1
<1>4. ASSUME \A k \in Kinds : chan'[k] = chan[k]
      PROVE  Goal
  BY <1>1, <1>4 DEF Kinds, Small
<1>5. ASSUME NEW r \in Ranks,
             \/ StartStep(r) \/ WaitReturns(r) \/ SolveHead(r) \/ NotifyGhostReturns(r)
             \/ WaitGhostReturns(r) \/ SolveTail(r) \/ Destroy(r)
      PROVE  Goal
  <2>1. chan' = chan
    BY <1>5 DEF StartStep, WaitReturns, SolveHead, NotifyGhostReturns, WaitGhostReturns,
                SolveTail, Destroy
  <2> QED
    BY <1>4, <2>1
<1>6. ASSUME NEW r \in Ranks, WaitReceives(r)
      PROVE  Goal
  <2> DEFINE n == Received("counts", r).data
             time == IF box[r] = N - 1 THEN {"time"} ELSE {}
             K == time \union WithParticles("counts", "particles", n.np)
  <2>1. K \in SUBSET Kinds
    BY KindsOfMessages DEF Kinds, Small
  <2>2. Receive(K, r)
    BY <1>6 DEF WaitReceives
  <2> HIDE DEF K
  <2> QED
    BY <1>2, <2>1, <2>2
<1>7. ASSUME NEW r \in Ranks, WaitGhostReceives(r)
      PROVE  Goal
  BY <1>2, <1>7, KindsOfMessages DEF WaitGhostReceives
<1>8. ASSUME NEW r \in Ranks, NotifyGhostLastStep(r) \/ NotifyLastStep(r)
      PROVE  Goal
  <2>1. \A k \in Kinds : chan'[k] = chan[k]
    BY <1>1, <1>8, FinishOnly DEF NotifyGhostLastStep, NotifyLastStep
  <2> QED
    BY <1>4, <2>1
<1>9. ASSUME NEW r \in Ranks, NotifyGhostSends(r)
      PROVE  Goal
  <2> DEFINE np == Cardinality(headBin[r])
             kinds == IF SkipSend(r) THEN {}
                      ELSE WithParticles("ghostCounts", "ghostParticles", np)
             out == [k \in kinds |-> IF k = "ghostCounts"
                                       THEN [np |-> np, leftmost |-> Least(r)]
                                       ELSE headBin[r]]
  <2>1. FinishAndSend(r, GhostKinds, out)
    BY <1>9 DEF NotifyGhostSends
  <2>2. DOMAIN out \subseteq Kinds /\ "time" \notin DOMAIN out
    BY DEF WithParticles, Kinds, Small
  <2> HIDE DEF out
  <2> QED
    BY <1>3, <2>1, <2>2
<1>10. ASSUME NEW r \in Ranks, Notify(r), NotifySends(r)
       PROVE  Goal
  <2> DEFINE np == Cardinality(Solved(r))
             time == IF box[r] = N - 1 THEN {"time"} ELSE {}
             kinds == time \union (IF SkipSend(r) THEN {}
                                   ELSE WithParticles("counts", "particles", np))
             out == [k \in kinds |->
                       CASE k = "time" -> TimeToSend(r)
                         [] k = "counts" -> [np |-> np, leftmost |-> Least(r)]
                         [] OTHER -> Solved(r)]
  <2>1. FinishAndSend(r, FinishKinds(box[r]), out)
    BY <1>10 DEF NotifySends
  <2>2. DOMAIN out \subseteq Kinds
    BY DEF WithParticles, Kinds, Small
  <2>3. "time" \in DOMAIN out => out["time"] = step[r] + 1
    <3>1. physicalTime[r] = step[r]
      BY <1>10 DEF Notify, TimeInv, HasTime, Computing
    <3> QED
      BY <3>1 DEF TimeToSend
  <2> HIDE DEF out
  <2> QED
    BY <1>3, <2>1, <2>2, <2>3
<1>11. ASSUME NEW r \in Ranks, Notify(r)
       PROVE  Goal
  BY <1>8, <1>10, <1>11 DEF Notify, Usual
<1>12. CASE UNCHANGED vars
  BY <1>4, <1>12 DEF vars
<1> QED
  BY <1>5, <1>6, <1>7, <1>8, <1>9, <1>11, <1>12 DEF Next, RankNext, Terminating

\* A rank that computes a step has the physical time of that step, although
\* the time is sent with the first box and advanced at the last one.
THEOREM TimeIsOfStep == Usual => (Spec => []TimeOfStep)
<1> SUFFICES ASSUME Usual
             PROVE  Spec => []TimeOfStep
  OBVIOUS
<1>1. Init => MessageInv /\ TimeInv
  <2> SUFFICES ASSUME Init
               PROVE  MessageInv /\ TimeInv
    OBVIOUS
  <2>1. /\ \A r \in Ranks : pc[r] = "StartStep" /\ physicalTime[r] = 0
        /\ \A r \in Ranks : chan["time"][r] = <<>>
    BY DEF Init, Kinds, Small
  <2>2. Len(<<>>) = 0
    OBVIOUS
  <2> QED
    BY <2>1, <2>2, InitMessages DEF TimeInv, HasTime, Computing
<1>2. MessageInv /\ TimeInv /\ [Next]_vars => MessageInv' /\ TimeInv'
  <2> SUFFICES ASSUME MessageInv, TimeInv, [Next]_vars
               PROVE  MessageInv' /\ TimeInv'
    OBVIOUS
  <2>1. MessageInv'
    BY NextMessages
  <2>2. TypeOK /\ TypeOK' /\ ControlOK /\ ChannelsExact
    BY <2>1 DEF MessageInv
  <2> QED
    BY <2>1, <2>2, TimeOfRanks, TimeOfMessages DEF TimeInv
<1>3. TimeInv => TimeOfStep
  BY DEF TimeInv, HasTime, TimeOfStep
<1> QED
  BY <1>1, <1>2, <1>3, PTL DEF Spec

-----------------------------------------------------------------------------
(***************************************************************************)
(* The wavefront                                                           *)
(***************************************************************************)

-----------------------------------------------------------------------------
(* Remainders                                                              *)

LEMMA Division ==
    ASSUME NEW n \in Nat \ {0}, NEW s \in Nat
    PROVE  /\ s \div n \in Nat
           /\ s % n \in 0 .. n - 1
           /\ s % n = s - n * (s \div n)
  OBVIOUS

LEMMA RemainderUnique ==
    ASSUME NEW n \in Nat \ {0}, NEW q \in Nat, NEW m \in Nat, m < n
    PROVE  (n * q + m) % n = m
  OBVIOUS

LEMMA RemainderShift ==
    ASSUME NEW n \in Nat \ {0}, NEW s \in Nat
    PROVE  (s + n) % n = s % n
<1> DEFINE q == s \div n
           m == s % n
<1>1. q \in Nat /\ m \in 0 .. n - 1 /\ m = s - n * q
  BY Division
<1> HIDE DEF q, m
<1>2. s + n = n * (q + 1) + m
  BY <1>1
<1>3. (n * (q + 1) + m) % n = m
  <2>1. q + 1 \in Nat /\ m \in Nat /\ m < n
    BY <1>1
  <2> QED
    BY <2>1, RemainderUnique
<1> QED
  BY <1>2, <1>3 DEF m

\* Two steps of one rank are N apart at least.
LEMMA RemainderGap ==
    ASSUME NEW n \in Nat \ {0}, NEW s \in Nat, NEW t \in Nat, s % n = t % n, s < t
    PROVE  s + n <= t
<1> DEFINE q == s \div n
           p == t \div n
           m == s % n
<1>1. q \in Nat /\ p \in Nat /\ m \in 0 .. n - 1 /\ m = s - n * q /\ m = t - n * p
  BY Division
<1> HIDE DEF q, p, m
<1>2. s = n * q + m /\ t = n * p + m
  BY <1>1
<1>3. n * q < n * p
  BY <1>1, <1>2
<1>4. p >= q + 1
  BY <1>1, <1>3
<1>5. n * p >= n * (q + 1) /\ n * (q + 1) = n * q + n
  BY <1>1, <1>4
<1> QED
  BY <1>1, <1>2, <1>5

LEMMA RemainderBefore ==
    ASSUME NEW n \in Nat \ {0}, NEW s \in Nat, s > 0
    PROVE  (s - 1) % n = IF s % n = 0 THEN n - 1 ELSE (s % n) - 1
<1> DEFINE q == s \div n
           m == s % n
<1>1. q \in Nat /\ m \in 0 .. n - 1 /\ m = s - n * q
  BY Division
<1> HIDE DEF q, m
<1>2. CASE m = 0
  <2>1. n * q = s
    BY <1>1, <1>2
  <2>2. q # 0
    BY <1>1, <2>1
  <2>3. q - 1 \in Nat /\ n - 1 \in Nat /\ n - 1 < n
    BY <1>1, <2>2
  <2>4. n * (q - 1) = n * q - n
    BY <1>1
  <2>5. s - 1 = n * (q - 1) + (n - 1)
    BY <1>1, <2>1, <2>4
  <2>6. (n * (q - 1) + (n - 1)) % n = n - 1
    BY <2>3, RemainderUnique
  <2> QED
    BY <1>2, <2>5, <2>6 DEF m
<1>3. CASE m # 0
  <2>1. s - 1 = n * q + (m - 1) /\ m - 1 \in Nat /\ m - 1 < n
    BY <1>1, <1>3
  <2> QED
    BY <1>1, <1>3, <2>1, RemainderUnique DEF m
<1> QED
  BY <1>2, <1>3

-----------------------------------------------------------------------------
(* Who solves which step                                                   *)

LEMMA OwnerIsRank ==
    ASSUME NEW s \in Nat
    PROVE  Owner(s) \in Ranks /\ Owner(s + N) = Owner(s)
<1> DEFINE m == s % N
<1>1. m \in 0 .. N - 1 /\ (s + N) % N = m /\ N \in Nat
  BY PipelineAssumption, Division, RemainderShift
<1>2. Owner(s) = N - 1 - m /\ Owner(s + N) = N - 1 - m
  BY <1>1 DEF Owner
<1> HIDE DEF m
<1>3. N - 1 - m \in Ranks
  BY <1>1 DEF Ranks
<1> QED
  BY <1>2, <1>3

\* The step before is solved by the rank upstream.
LEMMA OwnerUpstream ==
    ASSUME NEW s \in Nat, s > 0
    PROVE  Owner(s - 1) = Upstream(Owner(s))
<1>1. s % N \in 0 .. N - 1
  BY PipelineAssumption, Division
<1>2. (s - 1) % N = IF s % N = 0 THEN N - 1 ELSE (s % N) - 1
  BY PipelineAssumption, RemainderBefore
<1> QED
  BY <1>1, <1>2, Constants DEF Owner, Upstream

\* A rank does every N-th step.
LEMMA OwnerGap ==
    ASSUME NEW s \in Nat, NEW t \in Nat, Owner(s) = Owner(t), s < t
    PROVE  s + N <= t
<1>1. s % N \in 0 .. N - 1 /\ t % N \in 0 .. N - 1
  BY PipelineAssumption, Division
<1>2. s % N = t % N
  BY <1>1, Constants DEF Owner
<1> QED
  BY <1>2, PipelineAssumption, RemainderGap

LEMMA InitDealt == Init => StepsDealt
<1> SUFFICES ASSUME Init, NEW r \in Ranks
             PROVE  Owner(step[r]) = r
  BY DEF StepsDealt
<1>1. step[r] = N - 1 - r
  BY DEF Init
<1>2. N - 1 - r \in Nat /\ N - 1 - r < N /\ N \in Nat \ {0} /\ 0 \in Nat
  BY PipelineAssumption DEF Ranks
<1>3. N * 0 + (N - 1 - r) = N - 1 - r
  BY <1>2
<1>4. (N - 1 - r) % N = N - 1 - r
  BY <1>2, <1>3, RemainderUnique
<1> QED
  BY <1>1, <1>2, <1>4 DEF Owner, Ranks

LEMMA NextDealt ==
    ASSUME Usual, TypeOK, StepsDealt, [Next]_vars
    PROVE  StepsDealt'
<1> SUFFICES ASSUME NEW x \in Ranks
             PROVE  Owner(step'[x]) = x
  BY DEF StepsDealt
<1>1. Owner(step[x]) = x /\ step[x] \in Nat
  BY TypeOfControl DEF StepsDealt
<1>2. step'[x] = step[x] \/ step'[x] = step[x] + N
  <2>1. ASSUME NEW r \in Ranks, Notify(r)
        PROVE  step'[x] = step[x] \/ step'[x] = step[x] + N
    BY <2>1, ControlOfNotify, TypeOfControl
  <2>2. ASSUME NEW r \in Ranks, NEW p, NEW q, Moves(r, p, q)
        PROVE  step'[x] = step[x]
    BY <2>2 DEF Moves
  <2>3. CASE UNCHANGED vars
    BY <2>3 DEF vars
  <2> QED
    BY <2>1, <2>2, <2>3, ControlOfActions, Zenon DEF Next, RankNext, Terminating
<1> QED
  BY <1>1, <1>2, OwnerIsRank

-----------------------------------------------------------------------------
(* What a rank knows of the step before, when it solves                    *)

LEMMA ChannelTypes ==
    ASSUME ChanOK, NEW k \in Kinds, NEW r \in Ranks
    PROVE  /\ chan[k][r] \in Seq(Msg(k))
           /\ \A m \in Msg(k) : m.step \in Nat /\ m.box \in Int
<1>1. chan[k][r] \in Seq(Msg(k))
  BY DEF ChanOK
<1>2. Boxes \subseteq Int
  BY Constants
<1>3. \A m \in Msg(k) : m.step \in Nat /\ m.box \in Int
  BY <1>2 DEF Msg
<1> QED
  BY <1>1, <1>3

LEMMA RanksAreSomewhere ==
    ASSUME Usual, TypeOK, ControlOK, NEW r \in Ranks
    PROVE  /\ step[r] \in Nat /\ box[r] \in 0 .. N - 1 /\ N \in Nat \ {0} /\ MaxStep \in Nat
           /\ pc[r] \notin {"StartStep", "Gone"} => step[r] <= MaxStep
           /\ Upstream(r) \in Ranks
  BY TypeOfControl, Constants DEF ControlOK

\* A rank that has received the beam of its box knows that the previous step
\* is done with the box.
LEMMA BeamIsThere ==
    ASSUME Usual, MessageInv, StepsDealt, NEW r \in Ranks,
           pc[r] = "SolveHead", step[r] > 0
    PROVE  TailDone(step[r] - 1, box[r])
<1> DEFINE u == Upstream(r)
           s == step[r] - 1
           b == box[r]
<1>1. TypeOK /\ ControlOK /\ ChannelsExact /\ u \in Ranks
  BY Constants DEF MessageInv
<1>2. /\ step[r] \in Nat /\ b \in 0 .. N - 1 /\ step[r] <= MaxStep
      /\ step[u] \in Nat /\ box[u] \in 0 .. N - 1 /\ s \in Nat /\ N \in Nat /\ MaxStep \in Nat
  BY <1>1, RanksAreSomewhere
<1>3. Owner(s) = u
  <2>1. Owner(step[r]) = r
    BY DEF StepsDealt
  <2> QED
    BY <1>2, <2>1, OwnerUpstream
<1>4. Chain("counts", chan["counts"][u], RecvPos("counts", r), SendPos("counts", u))
  BY <1>1 DEF ChannelsExact, Heads
<1>5. RecvPos("counts", r) = After("counts", <<s, b>>)
  BY <1>2, PositionsAtWait DEF RecvPos
<1>6. /\ chan["counts"][u] \in Seq(Msg("counts"))
      /\ \A m \in Msg("counts") : m.step \in Nat /\ m.box \in Int
  BY <1>1, TypeOfControl, ChannelTypes DEF Kinds, Small
<1> HIDE DEF u, s, b
<1>7. \/ RecvPos("counts", r) = SendPos("counts", u)
      \/ Precedes(RecvPos("counts", r), SendPos("counts", u))
  BY <1>4, <1>6, ChainBounds, Zenon
<1>8. step[u] > s \/ (step[u] = s /\ box[u] < b)
  <2>1. CASE step[u] >= MaxStep
    BY <1>2, <2>1 DEF s
  <2>2. CASE step[u] < MaxStep
    <3>1. SendPos("counts", u) = <<step[u], box[u]>>
      BY <1>2, <2>2 DEF SendPos, SendAt
    <3>2. Precedes(<<s, b>>, RecvPos("counts", r))
      BY <1>2, <1>5, AfterFollows
    <3> QED
      BY <1>2, <1>5, <1>7, <3>1, <3>2 DEF Precedes, After, LastBox, FirstBox
  <2> QED
    BY <1>2, <2>1, <2>2
<1> QED
  BY <1>3, <1>8 DEF TailDone, s, b

\* A rank that has received the ghosts of box b, and no later ones, knows that
\* the previous step has pushed the head slice of that box.
LEMMA GhostsHaveCome ==
    ASSUME Usual, MessageInv, StepsDealt, NEW r \in Ranks, step[r] > 0, step[r] <= MaxStep,
           NEW b \in 0 .. N - 2,
           RecvPos("ghostCounts", r) = After("ghostCounts", <<step[r] - 1, b>>)
    PROVE  HeadDone(step[r] - 1, b)
<1> DEFINE u == Upstream(r)
           s == step[r] - 1
<1>1. TypeOK /\ ControlOK /\ ChannelsExact /\ u \in Ranks
  BY Constants DEF MessageInv
<1>2. /\ step[r] \in Nat /\ b \in 0 .. N - 2
      /\ step[u] \in Nat /\ box[u] \in 0 .. N - 1 /\ s \in Nat /\ N \in Nat /\ MaxStep \in Nat
      /\ N > 1
  BY <1>1, RanksAreSomewhere
<1>3. Owner(s) = u /\ Owner(step[u]) = u
  <2>1. Owner(step[r]) = r /\ Owner(step[u]) = u
    BY <1>1 DEF StepsDealt
  <2> QED
    BY <1>2, <2>1, OwnerUpstream
<1>4. Chain("ghostCounts", chan["ghostCounts"][u], RecvPos("ghostCounts", r),
            SendPos("ghostCounts", u))
  BY <1>1, <1>2 DEF ChannelsExact, Heads
<1>5. RecvPos("ghostCounts", r) = After("ghostCounts", <<s, b>>)
  OBVIOUS
<1>6. /\ chan["ghostCounts"][u] \in Seq(Msg("ghostCounts"))
      /\ \A m \in Msg("ghostCounts") : m.step \in Nat /\ m.box \in Int
  BY <1>1, TypeOfControl, ChannelTypes DEF Kinds, Small
<1> HIDE DEF u, s
<1>7. \/ RecvPos("ghostCounts", r) = SendPos("ghostCounts", u)
      \/ Precedes(RecvPos("ghostCounts", r), SendPos("ghostCounts", u))
  BY <1>4, <1>6, ChainBounds, Zenon
<1> DEFINE sent == pc[u] \in {"WaitGhost", "SolveTail", "Notify"}
<1>8. \/ step[u] > s
      \/ step[u] = s /\ box[u] < b
      \/ step[u] = s /\ box[u] = b /\ sent
  <2>1. CASE step[u] >= MaxStep
    BY <1>2, <2>1 DEF s
  <2>2. CASE step[u] < MaxStep
    <3>1. SendPos("ghostCounts", u) =
            IF sent \/ box[u] = N - 1
              THEN IF box[u] = 0 THEN <<step[u] + N, N - 2>> ELSE <<step[u], box[u] - 1>>
              ELSE <<step[u], box[u]>>
      BY <1>2, <2>2 DEF SendPos, SendAt
    <3> HIDE DEF sent
    <3>2. Precedes(<<s, b>>, RecvPos("ghostCounts", r))
      BY <1>2, <1>5, AfterFollows
    <3>3. Precedes(<<s, b>>, SendPos("ghostCounts", u))
      BY <1>2, <1>5, <1>7, <3>1, <3>2 DEF Precedes, After, LastBox, FirstBox
    <3>4. step[u] >= s
      <4>1. SUFFICES ASSUME step[u] < s
                     PROVE  FALSE
        BY <1>2
      <4>2. step[u] + N <= s
        BY <1>2, <1>3, <4>1, OwnerGap
      <4> QED
        BY <1>2, <3>1, <3>3, <4>2 DEF Precedes
    <3> QED
      BY <1>2, <3>1, <3>3, <3>4 DEF Precedes
  <2> QED
    BY <1>2, <2>1, <2>2
<1> QED
  BY <1>3, <1>8 DEF HeadDone, s

LEMMA GhostIsThere ==
    ASSUME Usual, MessageInv, StepsDealt, NEW r \in Ranks,
           pc[r] = "SolveTail", step[r] > 0, box[r] > 0
    PROVE  HeadDone(step[r] - 1, box[r] - 1)
<1>1. /\ step[r] \in Nat /\ box[r] \in 0 .. N - 1 /\ step[r] <= MaxStep /\ N \in Nat
  BY RanksAreSomewhere DEF MessageInv
<1>2. RecvPos("ghostCounts", r) = After("ghostCounts", <<step[r] - 1, box[r] - 1>>)
  BY <1>1, PositionsAtGhosts DEF RecvPos
<1>3. box[r] - 1 \in 0 .. N - 2
  BY <1>1
<1> QED
  BY <1>1, <1>2, <1>3, GhostsHaveCome

-----------------------------------------------------------------------------
(* How the handlers move the wavefront                                     *)

Column == 0 .. MaxStep

\* A handler that solves neither slice moves nothing.
LEMMA FrontStays ==
    ASSUME Usual, TypeOK, NEW r \in Ranks, NEW p, NEW q, Moves(r, p, q),
           p \in PastHead <=> q \in PastHead, p = "Notify" <=> q = "Notify",
           NEW s \in Column, NEW b \in Boxes
    PROVE  (HeadDone(s, b)' <=> HeadDone(s, b)) /\ (TailDone(s, b)' <=> TailDone(s, b))
<1> DEFINE x == Owner(s)
<1>1. x \in Ranks
  BY OwnerIsRank, Constants DEF Column
<1> HIDE DEF x
<1>2. /\ step' = step /\ box' = box
      /\ pc'[x] \in PastHead <=> pc[x] \in PastHead
      /\ pc'[x] = "Notify" <=> pc[x] = "Notify"
  BY <1>1, TypeOfControl DEF Moves
<1>3. HeadDone(s, b) <=>
        \/ step[x] > s
        \/ step[x] = s /\ box[x] < b
        \/ step[x] = s /\ box[x] = b /\ pc[x] \in PastHead
  BY DEF HeadDone, PastHead, x
<1>4. HeadDone(s, b)' <=>
        \/ step'[x] > s
        \/ step'[x] = s /\ box'[x] < b
        \/ step'[x] = s /\ box'[x] = b /\ pc'[x] \in PastHead
  BY DEF HeadDone, PastHead, x
<1>5. TailDone(s, b)' <=> TailDone(s, b)
  BY <1>2 DEF TailDone, x
<1> QED
  BY <1>2, <1>3, <1>4, <1>5, Zenon

\* SolveHead does the head slice of the rank's box.
LEMMA FrontAtHead ==
    ASSUME Usual, TypeOK, StepsDealt, NEW r \in Ranks, Moves(r, "SolveHead", "NotifyGhost"),
           NEW s \in Column, NEW b \in Boxes
    PROVE  /\ (HeadDone(s, b)' <=> (HeadDone(s, b) \/ <<s, b>> = <<step[r], box[r]>>))
           /\ (TailDone(s, b)' <=> TailDone(s, b))
<1> DEFINE x == Owner(s)
<1>1. x \in Ranks /\ Owner(step[r]) = r
  BY OwnerIsRank, Constants DEF Column, StepsDealt
<1> HIDE DEF x
<1>2. /\ step' = step /\ box' = box /\ pc'[r] = "NotifyGhost" /\ pc[r] = "SolveHead"
      /\ x # r => pc'[x] = pc[x]
  BY <1>1, TypeOfControl DEF Moves
<1>3. <<s, b>> = <<step[r], box[r]>> => x = r
  BY <1>1 DEF x
<1>4. TailDone(s, b)' <=> TailDone(s, b)
  BY <1>2 DEF TailDone, x
<1>5. CASE x = r
  BY <1>2, <1>4, <1>5 DEF HeadDone, x
<1>6. CASE x # r
  BY <1>2, <1>3, <1>4, <1>6 DEF HeadDone, x
<1> QED
  BY <1>4, <1>5, <1>6

\* SolveTail does the tail slice of the rank's box.
LEMMA FrontAtTail ==
    ASSUME Usual, TypeOK, StepsDealt, NEW r \in Ranks, Moves(r, "SolveTail", "Notify"),
           NEW s \in Column, NEW b \in Boxes
    PROVE  /\ (TailDone(s, b)' <=> (TailDone(s, b) \/ <<s, b>> = <<step[r], box[r]>>))
           /\ (HeadDone(s, b)' <=> HeadDone(s, b))
<1> DEFINE x == Owner(s)
<1>1. x \in Ranks /\ Owner(step[r]) = r
  BY OwnerIsRank, Constants DEF Column, StepsDealt
<1> HIDE DEF x
<1>2. /\ step' = step /\ box' = box /\ pc'[r] = "Notify" /\ pc[r] = "SolveTail"
      /\ x # r => pc'[x] = pc[x]
  BY <1>1, TypeOfControl DEF Moves
<1>3. <<s, b>> = <<step[r], box[r]>> => x = r
  BY <1>1 DEF x
<1>4. HeadDone(s, b)' <=> HeadDone(s, b)
  BY <1>2 DEF HeadDone, x
<1>5. CASE x = r
  BY <1>2, <1>4, <1>5 DEF TailDone, x
<1>6. CASE x # r
  BY <1>2, <1>3, <1>4, <1>6 DEF TailDone, x
<1> QED
  BY <1>4, <1>5, <1>6

\* The end of a box or of a step moves nothing: what was done stays done, and
\* the next box and the next step of the rank are not begun.
LEMMA FrontAtNotify ==
    ASSUME Usual, TypeOK, ControlOK, StepsDealt, NEW r \in Ranks, Notify(r),
           NEW s \in Column, NEW b \in Boxes
    PROVE  (HeadDone(s, b)' <=> HeadDone(s, b)) /\ (TailDone(s, b)' <=> TailDone(s, b))
<1> DEFINE x == Owner(s)
<1>1. x \in Ranks /\ Owner(step[r]) = r /\ s \in Nat /\ b \in 0 .. N - 1
  BY OwnerIsRank, Constants, TypeOfControl DEF Column, StepsDealt
<1>2. /\ step[r] \in Nat /\ box[r] \in 0 .. N - 1 /\ N \in Nat \ {0} /\ pc[r] = "Notify"
  BY RanksAreSomewhere, ControlOfNotify
<1>3. x = r /\ step[r] < s => step[r] + N <= s
  BY <1>1, <1>2, OwnerGap
<1> HIDE DEF x
<1>4. CASE x # r
  <2>1. pc'[x] = pc[x] /\ step'[x] = step[x] /\ box'[x] = box[x]
    BY <1>1, <1>4, ControlOfNotify
  <2> QED
    BY <2>1 DEF HeadDone, TailDone, x
<1>5. CASE x = r
  <2>1. CASE box[r] = 0
    <3>1. pc'[r] = "StartStep" /\ step'[r] = step[r] + N /\ box'[r] = N - 1
      BY <2>1, ControlOfNotify
    <3>2. step'[r] > s <=> step[r] >= s
      BY <1>1, <1>2, <1>3, <1>5, <3>1
    <3>3. ~ (box'[r] < b)
      BY <1>1, <1>2, <3>1
    <3>4. (HeadDone(s, b)' <=> step[r] >= s) /\ (TailDone(s, b)' <=> step[r] >= s)
      BY <1>5, <3>1, <3>2, <3>3 DEF HeadDone, TailDone, x
    <3>5. (HeadDone(s, b) <=> step[r] >= s) /\ (TailDone(s, b) <=> step[r] >= s)
      BY <1>1, <1>2, <1>5, <2>1 DEF HeadDone, TailDone, x
    <3> QED
      BY <3>4, <3>5
  <2>2. CASE box[r] # 0
    <3>1. pc'[r] = "Wait" /\ step'[r] = step[r] /\ box'[r] = box[r] - 1
      BY <2>2, ControlOfNotify
    <3>2. box'[r] < b <=> box[r] <= b
      BY <1>1, <1>2, <3>1
    <3>3. box[r] <= b <=> box[r] < b \/ box[r] = b
      BY <1>1, <1>2
    <3> QED
      BY <1>2, <1>5, <3>1, <3>2, <3>3 DEF HeadDone, TailDone, x
  <2> QED
    BY <2>1, <2>2
<1> QED
  BY <1>4, <1>5

-----------------------------------------------------------------------------
(* The refinement                                                          *)

\* What the refinement mapping gives the variables of Wavefront.
HeadCells == {c \in (0 .. MaxStep) \X Boxes : HeadDone(c[1], c[2])}

TailCells == {c \in (0 .. MaxStep) \X Boxes : TailDone(c[1], c[2])}

LEMMA FrontInit == Usual /\ Init => Front!WInit
<1> SUFFICES ASSUME Usual, Init, NEW s \in Column, NEW b \in Boxes
             PROVE  ~HeadDone(s, b) /\ ~TailDone(s, b)
  BY DEF Front!WInit, Column
<1> DEFINE x == Owner(s)
<1>1. TypeOK /\ StepsDealt
  BY InitType, InitDealt
<1>2. x \in Ranks /\ Owner(step[x]) = x /\ s \in Nat /\ b \in 0 .. N - 1 /\ N \in Nat \ {0}
  <2>1. s \in Nat /\ x \in Ranks
    BY OwnerIsRank, Constants DEF Column
  <2>2. Owner(step[x]) = x
    BY <1>1, <2>1 DEF StepsDealt
  <2>3. b \in 0 .. N - 1 /\ N \in Nat \ {0}
    BY <1>1, TypeOfControl, Constants
  <2> QED
    BY <2>1, <2>2, <2>3
<1>3. /\ step[x] = N - 1 - x /\ box[x] = NumBoxes - 1 /\ pc[x] = "StartStep"
      /\ NumBoxes = N
  BY <1>1, <1>2, TypeOfControl DEF Init
<1>4. step[x] \in Nat /\ step[x] < N
  BY <1>2, <1>3 DEF Ranks
<1>5. ~ (step[x] > s)
  BY <1>2, <1>4, OwnerGap
<1> HIDE DEF x
<1>6. ~ (box[x] < b)
  BY <1>2, <1>3
<1> QED
  BY <1>3, <1>5, <1>6 DEF HeadDone, TailDone, x

\* SolveHead finds the box ahead complete and the beam of its box in place.
LEMMA HeadSliceStep ==
    ASSUME Usual, MessageInv, StepsDealt, NEW r \in Ranks, SolveHead(r)
    PROVE  Front!SolveHeadSlice(step[r], box[r]) /\ <<step[r], box[r]>> \in Front!Cells
<1> DEFINE s == step[r]
           b == box[r]
<1>1. Moves(r, "SolveHead", "NotifyGhost") /\ TypeOK /\ ControlOK
  BY ControlOfActions DEF MessageInv
<1>2. /\ s \in Nat /\ b \in 0 .. N - 1 /\ pc[r] = "SolveHead" /\ s <= MaxStep
      /\ NumBoxes = N /\ Boxes = 0 .. N - 1 /\ Owner(s) = r /\ N \in Nat /\ MaxStep \in Nat
  BY <1>1, RanksAreSomewhere, TypeOfControl DEF Moves, Boxes, StepsDealt
<1>3. ~HeadDone(s, b)
  BY <1>2 DEF HeadDone
<1>4. b < NumBoxes - 1 => b + 1 \in Boxes /\ TailDone(s, b + 1)
  BY <1>2 DEF TailDone
<1>5. s > 0 => s - 1 \in Column /\ TailDone(s - 1, b)
  BY <1>2, BeamIsThere DEF Column
<1>6. \A t \in Column, c \in Boxes :
        /\ HeadDone(t, c)' <=> (HeadDone(t, c) \/ <<t, c>> = <<s, b>>)
        /\ TailDone(t, c)' <=> TailDone(t, c)
  BY <1>1, FrontAtHead
<1>7. s \in Column /\ b \in Boxes
  BY <1>2 DEF Column
<1> HIDE DEF s, b
<1>8. HeadCells' = HeadCells \union {<<s, b>>} /\ TailCells' = TailCells
  BY <1>6, <1>7 DEF HeadCells, TailCells, Column, Boxes, NumBoxes
<1>9. /\ <<s, b>> \notin HeadCells
      /\ b < NumBoxes - 1 => <<s, b + 1>> \in TailCells
      /\ s > 0 => <<s - 1, b>> \in TailCells
  BY <1>3, <1>4, <1>5, <1>7 DEF HeadCells, TailCells, Column
<1>10. Front!SolveHeadSlice(s, b)
  BY <1>8, <1>9 DEF Front!SolveHeadSlice, HeadCells, TailCells
<1>11. <<s, b>> \in Front!Cells
  BY <1>7 DEF Front!Cells, Column, Boxes
<1> QED
  BY <1>10, <1>11 DEF s, b

\* SolveTail finds the ghost slice behind as the previous step left it.
LEMMA TailSliceStep ==
    ASSUME Usual, MessageInv, StepsDealt, NEW r \in Ranks, SolveTail(r)
    PROVE  Front!SolveTailSlice(step[r], box[r]) /\ <<step[r], box[r]>> \in Front!Cells
<1> DEFINE s == step[r]
           b == box[r]
<1>1. Moves(r, "SolveTail", "Notify") /\ TypeOK /\ ControlOK
  BY ControlOfActions DEF MessageInv
<1>2. /\ s \in Nat /\ b \in 0 .. N - 1 /\ pc[r] = "SolveTail" /\ s <= MaxStep
      /\ NumBoxes = N /\ Boxes = 0 .. N - 1 /\ Owner(s) = r /\ N \in Nat /\ MaxStep \in Nat
  BY <1>1, RanksAreSomewhere, TypeOfControl DEF Moves, Boxes, StepsDealt
<1>3. HeadDone(s, b) /\ ~TailDone(s, b)
  BY <1>2 DEF HeadDone, TailDone
<1>4. s > 0 /\ b > 0 => s - 1 \in Column /\ b - 1 \in Boxes /\ HeadDone(s - 1, b - 1)
  BY <1>2, GhostIsThere DEF Column
<1>5. \A t \in Column, c \in Boxes :
        /\ TailDone(t, c)' <=> (TailDone(t, c) \/ <<t, c>> = <<s, b>>)
        /\ HeadDone(t, c)' <=> HeadDone(t, c)
  BY <1>1, FrontAtTail
<1>6. s \in Column /\ b \in Boxes
  BY <1>2 DEF Column
<1> HIDE DEF s, b
<1>7. TailCells' = TailCells \union {<<s, b>>} /\ HeadCells' = HeadCells
  BY <1>5, <1>6 DEF HeadCells, TailCells, Column, Boxes, NumBoxes
<1>8. /\ <<s, b>> \in HeadCells \ TailCells
      /\ s > 0 /\ b > 0 => <<s - 1, b - 1>> \in HeadCells
  BY <1>3, <1>4, <1>6 DEF HeadCells, TailCells, Column
<1>9. Front!SolveTailSlice(s, b)
  BY <1>7, <1>8 DEF Front!SolveTailSlice, HeadCells, TailCells
<1>10. <<s, b>> \in Front!Cells
  BY <1>6 DEF Front!Cells, Column, Boxes
<1> QED
  BY <1>9, <1>10 DEF s, b

LEMMA FrontUnmoved ==
    ASSUME \A s \in Column, b \in Boxes :
              /\ HeadDone(s, b)' <=> HeadDone(s, b)
              /\ TailDone(s, b)' <=> TailDone(s, b)
    PROVE  UNCHANGED Front!wvars
<1>1. HeadCells' = HeadCells /\ TailCells' = TailCells
  BY DEF HeadCells, TailCells, Column, Boxes, NumBoxes
<1> QED
  BY <1>1 DEF Front!wvars, HeadCells, TailCells

LEMMA FrontStep ==
    ASSUME Usual, MessageInv, StepsDealt, [Next]_vars
    PROVE  [Front!WNext]_(Front!wvars)
<1>1. TypeOK /\ ControlOK
  BY DEF MessageInv
<1>2. ASSUME NEW r \in Ranks, SolveHead(r)
      PROVE  Front!WNext
  BY <1>2, HeadSliceStep DEF Front!WNext
<1>3. ASSUME NEW r \in Ranks, SolveTail(r)
      PROVE  Front!WNext
  BY <1>3, TailSliceStep DEF Front!WNext
<1>4. ASSUME NEW r \in Ranks, Notify(r)
      PROVE  UNCHANGED Front!wvars
  BY <1>1, <1>4, FrontAtNotify, FrontUnmoved
<1>5. ASSUME NEW r \in Ranks, NEW p, NEW q, Moves(r, p, q),
             p \in PastHead <=> q \in PastHead, p = "Notify" <=> q = "Notify"
      PROVE  UNCHANGED Front!wvars
  BY <1>1, <1>5, FrontStays, FrontUnmoved
<1>6. ASSUME NEW r \in Ranks,
             \/ StartStep(r) \/ WaitReturns(r) \/ WaitReceives(r) \/ NotifyGhostReturns(r)
             \/ NotifyGhostLastStep(r) \/ NotifyGhostSends(r) \/ WaitGhostReturns(r)
             \/ WaitGhostReceives(r) \/ Destroy(r)
      PROVE  UNCHANGED Front!wvars
  <2>1. \/ Moves(r, "StartStep", "Wait") \/ Moves(r, "Wait", "SolveHead")
        \/ Moves(r, "NotifyGhost", "WaitGhost") \/ Moves(r, "WaitGhost", "SolveTail")
        \/ Moves(r, "StartStep", "Gone")
    BY <1>6, ControlOfActions
  <2> QED
    BY <1>5, <2>1 DEF PastHead
<1>7. CASE UNCHANGED vars
  BY <1>7, FrontUnmoved DEF vars, HeadDone, TailDone
<1> QED
  BY <1>2, <1>3, <1>4, <1>6, <1>7 DEF Next, RankNext, Terminating

\* The pipeline does what Wavefront promises, up to liveness: whatever the number
\* of ranks and the order in which messages arrive, Evolve solves a box only
\* behind the solved box ahead, with the beam that the previous step left in it,
\* and its tail slice only once the previous step has pushed the ghost slice.
THEOREM PipelineFollowsFront == Usual => (Spec => Front!WSafety)
<1> SUFFICES ASSUME Usual
             PROVE  Spec => Front!WSafety
  OBVIOUS
<1>1. Init => Front!WInit /\ StepsDealt
  BY FrontInit, InitDealt
<1>2. MessageInv /\ StepsDealt /\ [Next]_vars => StepsDealt'
  BY NextDealt DEF MessageInv
<1>3. MessageInv /\ StepsDealt /\ [Next]_vars => [Front!WNext]_(Front!wvars)
  BY FrontStep
<1>4. Spec => []MessageInv
  BY MessagesInvariant
<1> QED
  BY <1>1, <1>2, <1>3, <1>4, PTL DEF Spec, Front!WSafety
=============================================================================
