------------------------------ MODULE Pipeline ------------------------------
(***************************************************************************)
(* The longitudinal pipeline of HiPACE++: Hipace::Evolve and the handlers  *)
(* it calls, Wait, Notify and NotifyFinish, on a ring of MPI ranks.        *)
(*                                                                         *)
(* Time steps are dealt to the ranks in turn, step 0 to the head rank      *)
(* N - 1, and every rank solves its step box by box from the head of the   *)
(* domain to its tail.  Having solved a box, a rank sends the beam         *)
(* particles of that box to the rank downstream, which solves the next     *)
(* step.  The head slice of a box goes ahead of the box as a "ghost"       *)
(* message: the receiver needs it for the tail slice of the box before.    *)
(*                                                                         *)
(* Abstractions.  A longitudinal position is a region: each box has the    *)
(* region of its head slice and the region of its other slices.  One beam  *)
(* stands for all species.  The time step dt is the unit of time and the   *)
(* initial time is zero.  Handlers run from one blocking call to the next; *)
(* successive blocking calls of one handler wait for conditions that stay  *)
(* true once true, so that one action waits for all of them.               *)
(***************************************************************************)
EXTENDS Integers, Sequences, FiniteSets

CONSTANTS
    N,            \* m_numprocs_z, number of longitudinal ranks
    BoxesInZ,     \* m_boxes_in_z
    MaxStep,      \* m_max_step
    SkipEmpty,    \* m_skip_empty_comms
    UseMPI,       \* built with AMREX_USE_MPI
    EagerSmall,   \* MPI copies times and counts out of the send buffer at once
    ParticleId,   \* the beam particles
    MaxSlip       \* regions a particle may fall back in one step (a bound)

ASSUME PipelineAssumption ==
    /\ N \in Nat \ {0}
    /\ BoxesInZ \in Nat \ {0}
    /\ BoxesInZ > 1 => N = 1
    /\ MaxStep \in Nat
    /\ N <= MaxStep + 1
    /\ SkipEmpty \in BOOLEAN
    /\ UseMPI \in BOOLEAN
    /\ ~UseMPI => N = 1
    /\ EagerSmall \in BOOLEAN
    /\ IsFiniteSet(ParticleId)
    /\ MaxSlip \in Nat

VARIABLES
    pc,           \* the next handler of each rank
    step,         \* time step a rank works on
    box,          \* box `it' of that step
    beam,         \* particles outside the current box, in the rank's tile
    headBin,      \* particles of the current box binned in its head slice
    restBin,      \* particles of the current box binned in its other slices
    ghosts,       \* ghost particles at the end of the tile
    nextSlice,    \* particles last deposited in WhichSlice::Next by a tail slice
    physicalTime, \* m_physical_time
    plasmaTime,   \* physical time the plasma density was evaluated at
    leftmostSnd,  \* m_leftmost_box_snd
    leftmostRcv,  \* m_leftmost_box_rcv
    chan,         \* messages of each kind a rank sent and its downstream did not receive
    buf           \* send buffers: the message, or nothing

vars == <<pc, step, box, beam, headBin, restBin, ghosts, nextSlice, physicalTime,
          plasmaTime, leftmostSnd, leftmostRcv, chan, buf>>

-----------------------------------------------------------------------------
(* Ranks, boxes and positions                                              *)

Ranks == 0 .. N - 1

HeadRank == N - 1

\* (m_rank_z + 1) % m_numprocs_z
Upstream(r) == IF r = N - 1 THEN 0 ELSE r + 1

NumBoxes == IF BoxesInZ = 1 THEN N ELSE BoxesInZ

Boxes == 0 .. NumBoxes - 1

\* Regions 2b (central and tail slices) and 2b + 1 (head slice) make box b;
\* negative regions are behind the domain.
BoxOf(z) == z \div 2

HeadRegion(b) == 2 * b + 1

Particle == [id : ParticleId, z : Int, age : Nat]  \* age: number of pushes

Beams == {S \in SUBSET Particle : IsFiniteSet(S)}

MinOf(a, b) == IF a <= b THEN a ELSE b

\* BoxSorter: the particles of box b.
InBox(S, b) == {p \in S : BoxOf(p.z) = b}

\* Faulty variant of BelowBox: the offset of the box before.
BelowBoxBefore(S, b) == {p \in S : BoxOf(p.z) \in 0 .. b - 2}

\* ptile.resize(offset_box): boxes are stored in order, and the particles
\* that left the domain after the last box.
BelowBox(S, b) == {p \in S : BoxOf(p.z) \in 0 .. b - 1}

\* leftmostBoxWithParticles: the scan ends at box NProcs() - 1, occupied or not.
Leftmost(S) ==
    CHOOSE b \in Ranks :
        /\ InBox(S, b) # {} \/ b = N - 1
        /\ \A c \in 0 .. b - 1 : InBox(S, c) = {}

\* The particles of S pushed once: each keeps its place or slips backwards.
Push(p, d) == [id |-> p.id, z |-> p.z - d, age |-> p.age + 1]

Pushed(S) == {{Push(p, slip[p]) : p \in S} : slip \in [S -> 0 .. MaxSlip]}

-----------------------------------------------------------------------------
(* Messages.  A message carries the step and box it was sent for; the code *)
(* has no such label and trusts the order of the messages, so the model    *)
(* only ever reads it in properties.  "ref" says that MPI still reads the  *)
(* message from the sender's buffer: its request is not complete.          *)

Small == {"time", "counts", "ghostCounts"}

Kinds == Small \union {"particles", "ghostParticles"}

Counts == [np : Nat, leftmost : 0 .. NumBoxes]

Data(k) == CASE k = "time" -> Nat
             [] k \in {"counts", "ghostCounts"} -> Counts
             [] OTHER -> Beams

Msg(k) == [step : Nat, box : Boxes, data : Data(k), ref : BOOLEAN]

\* MPI_Wait on the last MPI_Isend of this kind returns.
Completed(k, r) == \A i \in 1 .. Len(chan[k][r]) : ~chan[k][r][i].ref

Received(k, r) == Head(chan[k][Upstream(r)])

\* MPI_Recv of one message of each kind in K.
Receive(K, r) ==
    /\ \A k \in K : chan[k][Upstream(r)] # <<>>
    /\ chan' = [k \in Kinds |->
                  IF k \in K THEN [chan[k] EXCEPT ![Upstream(r)] = Tail(@)] ELSE chan[k]]

\* What MPI_Isend of data d puts in flight.  MPI copies a particle message out
\* of the buffer at once (kinds in kept excepted) or when it is received.
Message(r, k, d, kept) ==
    [step |-> step[r], box |-> box[r], data |-> d,
     ref |-> IF k \in Small THEN ~EagerSmall ELSE k \in kept]

\* NotifyFinish on the kinds in done, then MPI_Isend of the data in out.
FinishAndSend(r, done, out) ==
    /\ \A k \in done : Completed(k, r)
    /\ \E kept \in SUBSET (DOMAIN out \ Small) :
         /\ chan' = [k \in Kinds |->
                       IF k \in DOMAIN out
                         THEN [chan[k] EXCEPT ![r] = Append(@, Message(r, k, out[k], kept))]
                         ELSE chan[k]]
         /\ buf' = [k \in Kinds |->
                      CASE k \in DOMAIN out ->
                             [buf[k] EXCEPT ![r] = {Message(r, k, out[k], kept)}]
                        [] k \in done \ DOMAIN out -> [buf[k] EXCEPT ![r] = {}]
                        [] OTHER -> buf[k]]

\* Faulty variant of FinishKinds: the counts are not waited for.
FinishParticlesOnly(b) == {"particles"} \union (IF b = N - 1 THEN {"time"} ELSE {})

\* What NotifyFinish(it) and NotifyFinish(it, true) wait for.
FinishKinds(b) == {"counts", "particles"} \union (IF b = N - 1 THEN {"time"} ELSE {})

GhostKinds == {"ghostCounts", "ghostParticles"}

\* The kinds a message with this many particles is made of.
WithParticles(counts, particles, np) ==
    {counts} \union (IF np > 0 THEN {particles} ELSE {})

\* Faulty variant of SkipRecv: empty boxes are skipped whatever the option.
SkipRecvAlways(r) == box[r] < leftmostRcv[r] /\ box[r] < N - 1

\* The empty-box tests of Wait and of Notify.
SkipRecv(r) == SkipEmpty /\ box[r] < leftmostRcv[r] /\ box[r] < N - 1

Least(r) == MinOf(leftmostSnd[r], leftmostRcv[r])

SkipSend(r) == SkipEmpty /\ box[r] < Least(r) /\ box[r] < N - 1

\* Notify has nothing to send after the last step.
IsLastStep(s) == s = MaxStep

-----------------------------------------------------------------------------
(* The handlers                                                            *)

Goto(r, label) == pc' = [pc EXCEPT ![r] = label]

\* Head of the loop over time steps: ResetAllQuantities evaluates the plasma
\* density at the physical time the rank has now.
StartStep(r) ==
    /\ pc[r] = "StartStep"
    /\ step[r] <= MaxStep
    /\ plasmaTime' = [plasmaTime EXCEPT ![r] = physicalTime[r]]
    /\ Goto(r, "Wait")
    /\ UNCHANGED <<step, box, beam, headBin, restBin, ghosts, nextSlice, physicalTime,
                   leftmostSnd, leftmostRcv, chan, buf>>

\* Wait(step, it) returns without a message.
WaitReturns(r) ==
    /\ pc[r] = "Wait"
    /\ ~UseMPI \/ step[r] = 0 \/ SkipRecv(r)
    /\ Goto(r, "SolveHead")
    /\ UNCHANGED <<step, box, beam, headBin, restBin, ghosts, nextSlice, physicalTime,
                   plasmaTime, leftmostSnd, leftmostRcv, chan, buf>>

\* Wait(step, it) receives the time (first box), the counts and the particles.
WaitReceives(r) ==
    /\ pc[r] = "Wait"
    /\ UseMPI /\ step[r] > 0 /\ ~SkipRecv(r)
    /\ chan["counts"][Upstream(r)] # <<>>
    /\ LET n == Received("counts", r).data
           time == IF box[r] = N - 1 THEN {"time"} ELSE {}
       IN  /\ Receive(time \union WithParticles("counts", "particles", n.np), r)
           /\ physicalTime' = IF box[r] = N - 1
                                THEN [physicalTime EXCEPT ![r] = Received("time", r).data]
                                ELSE physicalTime
           /\ leftmostRcv' = [leftmostRcv EXCEPT ![r] = MinOf(n.leftmost, @)]
           /\ beam' = IF n.np > 0
                        THEN [beam EXCEPT ![r] = @ \union Received("particles", r).data]
                        ELSE beam
    /\ Goto(r, "SolveHead")
    /\ UNCHANGED <<step, box, headBin, restBin, ghosts, nextSlice, plasmaTime,
                   leftmostSnd, buf>>

\* Faulty variant of LocalGhosts: only what upstream sends is used.
NoLocalGhosts(r) == {}

\* PackLocalGhostParticles: the beam of the box behind that is here already.
LocalGhosts(r) == IF box[r] > 0 THEN InBox(beam[r], box[r] - 1) ELSE {}

\* Sort by box, pack the local ghosts, bin the box by slice, solve the head
\* slice, which pushes its bin.
SolveHead(r) ==
    /\ pc[r] = "SolveHead"
    /\ LET mine == InBox(beam[r], box[r])
           head == {p \in mine : p.z = HeadRegion(box[r])}
       IN  /\ leftmostSnd' = [leftmostSnd EXCEPT ![r] = MinOf(Leftmost(beam[r]), @)]
           /\ ghosts' = [ghosts EXCEPT ![r] = LocalGhosts(r)]
           /\ \E S \in Pushed(head) : headBin' = [headBin EXCEPT ![r] = S]
           /\ restBin' = [restBin EXCEPT ![r] = mine \ head]
           /\ beam' = [beam EXCEPT ![r] = @ \ mine]
    /\ Goto(r, "NotifyGhost")
    /\ UNCHANGED <<step, box, nextSlice, physicalTime, plasmaTime, leftmostRcv, chan, buf>>

\* Faulty variant of NoGhostToSend: the box that receives a ghost is taken for
\* the box that sends it.
NoGhostBehind(r) == ~UseMPI \/ box[r] = 0

\* Notify(step, it, bins, true) is called for all boxes but the first.
NoGhostToSend(r) == ~UseMPI \/ box[r] >= N - 1

NotifyGhostReturns(r) ==
    /\ pc[r] = "NotifyGhost"
    /\ NoGhostToSend(r)
    /\ Goto(r, "WaitGhost")
    /\ UNCHANGED <<step, box, beam, headBin, restBin, ghosts, nextSlice, physicalTime,
                   plasmaTime, leftmostSnd, leftmostRcv, chan, buf>>

NotifyGhostLastStep(r) ==
    /\ pc[r] = "NotifyGhost"
    /\ ~NoGhostToSend(r) /\ IsLastStep(step[r])
    /\ FinishAndSend(r, GhostKinds, <<>>)
    /\ Goto(r, "WaitGhost")
    /\ UNCHANGED <<step, box, beam, headBin, restBin, ghosts, nextSlice, physicalTime,
                   plasmaTime, leftmostSnd, leftmostRcv>>

NotifyGhostSends(r) ==
    /\ pc[r] = "NotifyGhost"
    /\ ~NoGhostToSend(r) /\ ~IsLastStep(step[r])
    /\ leftmostSnd' = [leftmostSnd EXCEPT ![r] = Least(r)]
    /\ LET np == Cardinality(headBin[r])
           kinds == IF SkipSend(r) THEN {}
                    ELSE WithParticles("ghostCounts", "ghostParticles", np)
       IN  FinishAndSend(r, GhostKinds,
                         [k \in kinds |-> IF k = "ghostCounts"
                                            THEN [np |-> np, leftmost |-> Least(r)]
                                            ELSE headBin[r]])
    /\ Goto(r, "WaitGhost")
    /\ UNCHANGED <<step, box, beam, headBin, restBin, ghosts, nextSlice, physicalTime,
                   plasmaTime, leftmostRcv>>

\* Faulty variant of NoGhostToWait: the received ghosts are never waited for.
NeverWait(r) == TRUE

\* Faulty variant of NoGhostToWait: the first step waits for ghosts too.
FirstStepWaits(r) == box[r] = 0 \/ ~UseMPI \/ SkipRecv(r)

\* Wait(step, it, true) is called for all boxes but the last.
NoGhostToWait(r) == box[r] = 0 \/ ~UseMPI \/ step[r] = 0 \/ SkipRecv(r)

WaitGhostReturns(r) ==
    /\ pc[r] = "WaitGhost"
    /\ NoGhostToWait(r)
    /\ Goto(r, "SolveTail")
    /\ UNCHANGED <<step, box, beam, headBin, restBin, ghosts, nextSlice, physicalTime,
                   plasmaTime, leftmostSnd, leftmostRcv, chan, buf>>

WaitGhostReceives(r) ==
    /\ pc[r] = "WaitGhost"
    /\ ~NoGhostToWait(r)
    /\ chan["ghostCounts"][Upstream(r)] # <<>>
    /\ LET np == Received("ghostCounts", r).data.np
       IN  /\ Receive(WithParticles("ghostCounts", "ghostParticles", np), r)
           /\ ghosts' = IF np > 0
                          THEN [ghosts EXCEPT ![r] =
                                  @ \union Received("ghostParticles", r).data]
                          ELSE ghosts
    /\ Goto(r, "SolveTail")
    /\ UNCHANGED <<step, box, beam, headBin, restBin, nextSlice, physicalTime, plasmaTime,
                   leftmostSnd, leftmostRcv, buf>>

\* Central slices, CheckGhostSlice, tail slice, RemoveGhosts.
SolveTail(r) ==
    /\ pc[r] = "SolveTail"
    /\ nextSlice' = [nextSlice EXCEPT ![r] =
                       {p.id : p \in {g \in ghosts[r] : g.z = HeadRegion(box[r] - 1)}}]
    /\ \E S \in Pushed(restBin[r]) : restBin' = [restBin EXCEPT ![r] = S]
    /\ ghosts' = [ghosts EXCEPT ![r] = {}]
    /\ Goto(r, "Notify")
    /\ UNCHANGED <<step, box, beam, headBin, physicalTime, plasmaTime, leftmostSnd,
                   leftmostRcv, chan, buf>>

\* Faulty variant of IsLastBox: one box too many.
IsBoxAfterLast(b) == b = -1

IsLastBox(b) == b = 0

\* End of the loop over boxes; after the last box, of the loop over steps.
NextBox(r) ==
    IF IsLastBox(box[r])
      THEN /\ box' = [box EXCEPT ![r] = NumBoxes - 1]
           /\ step' = [step EXCEPT ![r] = @ + N]
           /\ physicalTime' = [physicalTime EXCEPT ![r] = @ + 1]
           /\ Goto(r, "StartStep")
      ELSE /\ box' = [box EXCEPT ![r] = @ - 1]
           /\ Goto(r, "Wait")
           /\ UNCHANGED <<step, physicalTime>>

Solved(r) == headBin[r] \union restBin[r]

\* The box stays in the tile, or is sent away or dropped with all behind it.
KeepBox(r) == beam' = [beam EXCEPT ![r] = @ \union Solved(r)]

DropBox(r) == beam' = [beam EXCEPT ![r] = BelowBox(@, box[r])]

\* Faulty variant of TimeToSend: the time the sender has.
TimeOfSender(r) == physicalTime[r]

\* m_tsend_buffer = m_physical_time + m_dt
TimeToSend(r) == physicalTime[r] + 1

NotifyLastStep(r) ==
    /\ IsLastStep(step[r])
    /\ FinishAndSend(r, FinishKinds(box[r]), <<>>)
    /\ DropBox(r)
    /\ UNCHANGED leftmostSnd

NotifySends(r) ==
    /\ ~IsLastStep(step[r])
    /\ leftmostSnd' = [leftmostSnd EXCEPT ![r] = Least(r)]
    /\ LET np == Cardinality(Solved(r))
           time == IF box[r] = N - 1 THEN {"time"} ELSE {}
           kinds == time \union (IF SkipSend(r) THEN {}
                                 ELSE WithParticles("counts", "particles", np))
       IN  /\ FinishAndSend(r, FinishKinds(box[r]),
                            [k \in kinds |->
                               CASE k = "time" -> TimeToSend(r)
                                 [] k = "counts" -> [np |-> np, leftmost |-> Least(r)]
                                 [] OTHER -> Solved(r)])
           /\ IF "particles" \in kinds THEN DropBox(r) ELSE KeepBox(r)

\* Notify(step, it, bins), which does nothing without MPI, and the end of the box.
Notify(r) ==
    /\ pc[r] = "Notify"
    /\ IF UseMPI THEN NotifyLastStep(r) \/ NotifySends(r)
                 ELSE KeepBox(r) /\ UNCHANGED <<leftmostSnd, chan, buf>>
    /\ headBin' = [headBin EXCEPT ![r] = {}]
    /\ restBin' = [restBin EXCEPT ![r] = {}]
    /\ NextBox(r)
    /\ UNCHANGED <<ghosts, nextSlice, plasmaTime, leftmostRcv>>

\* ~Hipace: NotifyFinish(), NotifyFinish(0, true), and the buffers are gone.
Destroy(r) ==
    /\ pc[r] = "StartStep"
    /\ step[r] > MaxStep
    /\ \A k \in FinishKinds(0) \union GhostKinds : Completed(k, r)
    /\ buf' = [k \in Kinds |-> [buf[k] EXCEPT ![r] = {}]]
    /\ Goto(r, "Gone")
    /\ UNCHANGED <<step, box, beam, headBin, restBin, ghosts, nextSlice, physicalTime,
                   plasmaTime, leftmostSnd, leftmostRcv, chan>>

-----------------------------------------------------------------------------
\* Faulty variant of HasBeam: every rank injects the beam.
AnyRankHasBeam(r) == TRUE

\* Beam particles are injected on the head rank only.
HasBeam(r) == r = HeadRank

Init ==
    /\ pc = [r \in Ranks |-> "StartStep"]
    /\ step = [r \in Ranks |-> N - 1 - r]
    /\ box = [r \in Ranks |-> NumBoxes - 1]
    /\ \E place \in [ParticleId -> 0 .. 2 * NumBoxes - 1] :
         beam = [r \in Ranks |->
                   IF HasBeam(r)
                     THEN {[id |-> i, z |-> place[i], age |-> 0] : i \in ParticleId}
                     ELSE {}]
    /\ headBin = [r \in Ranks |-> {}]
    /\ restBin = [r \in Ranks |-> {}]
    /\ ghosts = [r \in Ranks |-> {}]
    /\ nextSlice = [r \in Ranks |-> {}]
    /\ physicalTime = [r \in Ranks |-> 0]
    /\ plasmaTime = [r \in Ranks |-> 0]
    /\ leftmostSnd = [r \in Ranks |-> NumBoxes]   \* stands for the largest int
    /\ leftmostRcv = [r \in Ranks |-> NumBoxes]
    /\ chan = [k \in Kinds |-> [r \in Ranks |-> <<>>]]
    /\ buf = [k \in Kinds |-> [r \in Ranks |-> {}]]

RankNext(r) ==
    \/ StartStep(r)
    \/ WaitReturns(r)
    \/ WaitReceives(r)
    \/ SolveHead(r)
    \/ NotifyGhostReturns(r)
    \/ NotifyGhostLastStep(r)
    \/ NotifyGhostSends(r)
    \/ WaitGhostReturns(r)
    \/ WaitGhostReceives(r)
    \/ SolveTail(r)
    \/ Notify(r)
    \/ Destroy(r)

AllGone == \A r \in Ranks : pc[r] = "Gone"

Terminating == AllGone /\ UNCHANGED vars

Next == (\E r \in Ranks : RankNext(r)) \/ Terminating

\* Every rank is an operating-system process: it runs unless it waits for MPI.
Fairness == \A r \in Ranks : WF_vars(RankNext(r))

Spec == Init /\ [][Next]_vars /\ Fairness

-----------------------------------------------------------------------------
(* Properties                                                              *)

Labels == {"StartStep", "Wait", "SolveHead", "NotifyGhost", "WaitGhost", "SolveTail",
           "Notify", "Gone"}

ChanOK == DOMAIN chan = Kinds /\ \A k \in Kinds : chan[k] \in [Ranks -> Seq(Msg(k))]

BufOK == DOMAIN buf = Kinds /\ \A k \in Kinds : buf[k] \in [Ranks -> SUBSET Msg(k)]

\* Every variable keeps its type: no rank leaves the range of boxes, tiles
\* and bins hold particles, and every channel carries what its receiver takes.
TypeOK ==
    /\ pc \in [Ranks -> Labels]
    /\ step \in [Ranks -> Nat]
    /\ box \in [Ranks -> Boxes]
    /\ beam \in [Ranks -> Beams]
    /\ headBin \in [Ranks -> Beams]
    /\ restBin \in [Ranks -> Beams]
    /\ ghosts \in [Ranks -> Beams]
    /\ nextSlice \in [Ranks -> SUBSET ParticleId]
    /\ physicalTime \in [Ranks -> Nat]
    /\ plasmaTime \in [Ranks -> Nat]
    /\ leftmostSnd \in [Ranks -> 0 .. NumBoxes]
    /\ leftmostRcv \in [Ranks -> 0 .. NumBoxes]
    /\ ChanOK
    /\ BufOK

\* A message answers the receive that takes it.  Messages of a kind differ in
\* nothing but their order, so a rank that solves box b of step s must find
\* at the head of each channel what upstream sent for that box of step s - 1
\* (for the ghost slice: for box b - 1), and as many particles as announced.
IsFor(k, r, b) ==
    LET c == chan[k][Upstream(r)]
    IN  c # <<>> => c[1].step = step[r] - 1 /\ c[1].box = b

Announced(counts, particles, r, b) ==
    LET c == chan[counts][Upstream(r)]
        p == chan[particles][Upstream(r)]
    IN  c # <<>> /\ c[1].data.np > 0 =>
            p # <<>> /\ IsFor(particles, r, b) /\ Cardinality(p[1].data) = c[1].data.np

MessageMatches ==
    \A r \in Ranks :
        /\ pc[r] = "Wait" /\ step[r] > 0 =>
               /\ box[r] = N - 1 => IsFor("time", r, box[r])
               /\ IsFor("counts", r, box[r])
               /\ Announced("counts", "particles", r, box[r])
        /\ pc[r] = "WaitGhost" /\ step[r] > 0 /\ box[r] > 0 =>
               /\ IsFor("ghostCounts", r, box[r] - 1)
               /\ Announced("ghostCounts", "ghostParticles", r, box[r] - 1)

\* A send buffer is not reused, freed or destroyed while MPI reads from it,
\* the time buffer that ~Hipace does not wait for included.
BufferIntact ==
    \A k \in Kinds, r \in Ranks : \A i \in 1 .. Len(chan[k][r]) :
        chan[k][r][i].ref => buf[k][r] = {chan[k][r][i]}

\* In each step each particle of the box is pushed once, in the slice it was
\* binned in, and has been pushed once in every step before.
PushedOncePerStep ==
    \A r \in Ranks :
        /\ \A p \in headBin[r] : p.age = step[r] + 1
        /\ \A p \in restBin[r] : p.age = step[r] + (IF pc[r] = "Notify" THEN 1 ELSE 0)

\* Where a particle is: in the tile of a rank or in a particle message.
Tile(r) == beam[r] \union headBin[r] \union restBin[r]

InTile(i) == {c \in UNION {{r} \X Tile(r) : r \in Ranks} : c[2].id = i}

InMessage(i) ==
    {c \in UNION {UNION {{r} \X chan["particles"][r][n].data \X {n} :
                            n \in 1 .. Len(chan["particles"][r])} : r \in Ranks} :
        c[2].id = i}

\* No particle is ever in two places: a rank gives up what it sends.
NoParticleTwice ==
    \A i \in ParticleId : Cardinality(InTile(i)) + Cardinality(InMessage(i)) <= 1

\* A particle that disappears has left the domain or done all its steps.
NoParticleLost ==
    [][\A i \in ParticleId :
         (InTile(i) \union InMessage(i) # {} /\ (InTile(i) \union InMessage(i))' = {}) =>
             \A c \in InTile(i) \union InMessage(i) :
                 c[2].z < 0 \/ c[2].age = MaxStep + 1]_vars

\* The beam current that the tail slice of a box deposited in the slice behind
\* it comes from the very particles then found in the head slice of the next
\* box: the ghosts are complete and none is stale.
GhostSliceExact ==
    \A r \in Ranks :
        pc[r] \in {"NotifyGhost", "WaitGhost"} /\ box[r] < NumBoxes - 1 =>
            nextSlice[r] = {p.id : p \in headBin[r]}

Computing(r) == pc[r] \in {"SolveHead", "NotifyGhost", "WaitGhost", "SolveTail", "Notify"}

\* A rank that computes step s has the physical time of step s.
TimeOfStep == \A r \in Ranks : Computing(r) => physicalTime[r] = step[r]

\* The plasma density of step s is evaluated at the physical time of step s.
PlasmaTimeOfStep == \A r \in Ranks : Computing(r) => plasmaTime[r] = step[r]

\* Every rank ends its last step and its destructor.
AllStepsDone == <>AllGone

-----------------------------------------------------------------------------
(* The pipeline implements the wavefront: which slices have been solved.   *)

Owner(s) == N - 1 - (s % N)

HeadDone(s, b) ==
    LET r == Owner(s)
    IN  \/ step[r] > s
        \/ step[r] = s /\ box[r] < b
        \/ step[r] = s /\ box[r] = b
             /\ pc[r] \in {"NotifyGhost", "WaitGhost", "SolveTail", "Notify"}

TailDone(s, b) ==
    LET r == Owner(s)
    IN  \/ step[r] > s
        \/ step[r] = s /\ box[r] < b
        \/ step[r] = s /\ box[r] = b /\ pc[r] = "Notify"

Front == INSTANCE Wavefront WITH
    headSolved <- {c \in (0 .. MaxStep) \X Boxes : HeadDone(c[1], c[2])},
    solved <- {c \in (0 .. MaxStep) \X Boxes : TailDone(c[1], c[2])}

\* No rank runs ahead of the beam it needs or of the wake it extends, and
\* the whole wavefront is swept.
ImplementsWavefront == Front!WSpec
=============================================================================
