------------------------------ MODULE TimeStep ------------------------------
(***************************************************************************)
(* The adaptive time step (hipace.dt = adaptive) in the pipeline: which    *)
(* dt pushes the beam of a step, what it is calculated from, and which     *)
(* physical time goes with it.                                             *)
(*                                                                         *)
(* AdaptiveTimeStep::Calculate adds up the beam box by box while a step is *)
(* solved and sets a new dt at the last box.  The first dt comes from the  *)
(* beam that InitData injects on the head rank and is handed down.         *)
(*                                                                         *)
(* Abstractions.  A dt is named by what it was calculated from, and a time *)
(* is the sequence of the dt's it is the sum of.  Whether the beam is too  *)
(* slow for a new dt (chosen_min_uz <= 1) is a choice.  The beam of a box  *)
(* is one message, sent without waiting: that messages match and that      *)
(* their buffers last is the subject of Pipeline.  A particle falls back   *)
(* by at most one box per step.  There is one transverse rank, NProcs()    *)
(* is N.                                                                   *)
(***************************************************************************)
EXTENDS Integers, Sequences, FiniteSets

CONSTANTS
    N,           \* m_numprocs_z, number of longitudinal ranks
    BoxesInZ,    \* m_boxes_in_z
    MaxStep,     \* m_max_step
    UseMPI,      \* built with AMREX_USE_MPI
    ParticleId,  \* the beam particles
    MaxSlip      \* boxes a particle may fall back in one step (a bound)

ASSUME TimeStepAssumption ==
    /\ N \in Nat \ {0}
    /\ BoxesInZ \in Nat \ {0}
    /\ BoxesInZ > 1 => N = 1
    /\ MaxStep \in Nat
    /\ N <= MaxStep + 1
    /\ UseMPI \in BOOLEAN
    /\ ~UseMPI => N = 1
    /\ IsFiniteSet(ParticleId)
    /\ MaxSlip \in {0, 1}

VARIABLES
    pc,           \* the next handler of each rank
    step,         \* time step a rank works on
    box,          \* box `it' of that step
    dt,           \* m_dt
    counted,      \* m_timestep_data: what the sums over the beam contain
    beam,         \* particles in the rank's tile but those just pushed
    pushed,       \* particles of the current box, pushed
    physicalTime, \* m_physical_time
    dtChan,       \* dt's sent in InitData and not received
    timeChan,     \* times sent and not received by the rank downstream
    beamChan,     \* beams of boxes sent and not received
    whole         \* the particles pushed in each step; only properties read it

vars == <<pc, step, box, dt, counted, beam, pushed, physicalTime, dtChan, timeChan,
          beamChan, whole>>

-----------------------------------------------------------------------------
(* Ranks, boxes, particles, time steps                                     *)

Ranks == 0 .. N - 1

HeadRank == N - 1

Upstream(r) == IF r = N - 1 THEN 0 ELSE r + 1

NumBoxes == IF BoxesInZ = 1 THEN N ELSE BoxesInZ

Boxes == 0 .. NumBoxes - 1

Steps == 0 .. MaxStep

\* A dt is a record: the step at whose end it was calculated, or -1 for the
\* first dt, and the terms of the sums it was calculated from, particles after
\* so many pushes.  Before that m_dt is zero:
NoDt == [step |-> -1, of |-> {}]

\* A particle has an id, a box, -1 behind the domain, and the time, the
\* sequence of the dt's it was pushed with.
InBox(S, b) == {p \in S : p.box = b}

\* ptile.resize(offset_box): the boxes ahead and what left the domain go too.
BelowBox(S, b) == {p \in S : p.box \in 0 .. b - 1}

Push(p, d, slip) == [id |-> p.id, box |-> p.box - slip, time |-> Append(p.time, d)]

Pushes(S, d) == {{Push(p, d, slip[p]) : p \in S} : slip \in [S -> 0 .. MaxSlip]}

TermsOf(S) == {<<p.id, Len(p.time)>> : p \in S}

-----------------------------------------------------------------------------
(* AdaptiveTimeStep::Calculate                                             *)

\* Faulty variant of IsFirstBox: the sums are never reset.
NeverFirst(b) == FALSE

\* it == NProcs() - 1: the sums are reset.
IsFirstBox(b) == b = N - 1

\* The sums with the particles S of box b added.
Sums(r, b, S) == (IF IsFirstBox(b) THEN {} ELSE counted[r]) \union TermsOf(S)

\* The dt's that the sums may give: a new one, or the old one for a slow beam.
NewDts(r, s, sums) == {[step |-> s, of |-> sums], dt[r]}

\* Faulty variant of HasInitial: the head rank takes part in the exchange.
HasInitialNever(r) == FALSE

\* Faulty variant of HasInitial: no rank does.
HasInitialAlways(r) == TRUE

\* The head rank calculates the initial dt, the other ranks receive it.
HasInitial(r) == r = HeadRank

\* InitData, Calculate(..., initial = true).
CalculateInitial(r) ==
    /\ pc[r] = "Calculate"
    /\ IF r # HeadRank
         THEN /\ pc' = [pc EXCEPT ![r] = "WaitTimeStep"]
              /\ UNCHANGED <<dt, counted>>
         ELSE LET sums == Sums(r, 0, beam[r])
              IN  /\ counted' = [counted EXCEPT ![r] = sums]
                  /\ IF sums = {}
                       THEN pc' = [pc EXCEPT ![r] = "Abort"] /\ UNCHANGED dt
                       ELSE /\ pc' = [pc EXCEPT ![r] = "WaitTimeStep"]
                            /\ \E d \in NewDts(r, -1, sums) : dt' = [dt EXCEPT ![r] = d]
    /\ UNCHANGED <<step, box, beam, pushed, physicalTime, dtChan, timeChan, beamChan, whole>>

\* WaitTimeStep, on every rank but the head rank.
WaitTimeStep(r) ==
    /\ pc[r] = "WaitTimeStep"
    /\ IF HasInitial(r) \/ ~UseMPI
         THEN UNCHANGED <<dt, dtChan>>
         ELSE LET u == Upstream(r)
              IN  /\ dtChan[u] # <<>>
                  /\ dt' = [dt EXCEPT ![r] = Head(dtChan[u])]
                  /\ dtChan' = [dtChan EXCEPT ![u] = Tail(@)]
    /\ pc' = [pc EXCEPT ![r] = "NotifyTimeStep"]
    /\ UNCHANGED <<step, box, counted, beam, pushed, physicalTime, timeChan, beamChan, whole>>

\* NotifyTimeStep, on every rank but rank 0, up to the return of MPI_Send.
NotifyTimeStep(r) ==
    /\ pc[r] = "NotifyTimeStep"
    /\ dtChan' = IF r >= 1 THEN [dtChan EXCEPT ![r] = Append(@, dt[r])] ELSE dtChan
    /\ pc' = [pc EXCEPT ![r] = "Sent"]
    /\ UNCHANGED <<step, box, dt, counted, beam, pushed, physicalTime, timeChan, beamChan,
                   whole>>

\* MPI_Send may return at once, and must when the dt is received; the rank
\* enters Evolve.
EnterEvolve(r) ==
    /\ pc[r] = "Sent"
    /\ pc' = [pc EXCEPT ![r] = "Wait"]
    /\ UNCHANGED <<step, box, dt, counted, beam, pushed, physicalTime, dtChan, timeChan,
                   beamChan, whole>>

-----------------------------------------------------------------------------
(* Hipace::Evolve                                                          *)

\* it == 0: the end of the step, and the new dt.
IsLastBox(b) == b = 0

\* Wait(step, it): the time with the first box, then the beam.
Wait(r) ==
    LET u == Upstream(r)
    IN  /\ pc[r] = "Wait"
        /\ IF step[r] = 0 \/ ~UseMPI
             THEN UNCHANGED <<physicalTime, timeChan, beam, beamChan>>
             ELSE /\ IF box[r] = N - 1
                       THEN /\ timeChan[u] # <<>>
                            /\ physicalTime' = [physicalTime EXCEPT ![r] = Head(timeChan[u]).data]
                            /\ timeChan' = [timeChan EXCEPT ![u] = Tail(@)]
                       ELSE UNCHANGED <<physicalTime, timeChan>>
                  /\ beamChan[u] # <<>>
                  /\ beam' = [beam EXCEPT ![r] = @ \union Head(beamChan[u]).data]
                  /\ beamChan' = [beamChan EXCEPT ![u] = Tail(@)]
        /\ pc' = [pc EXCEPT ![r] = "Solve"]
        /\ UNCHANGED <<step, box, dt, counted, pushed, dtChan, whole>>

\* The slices of the box, each pushing its particles with m_dt, and
\* Calculate(..., it, ..., initial = false) behind the tail slice.
Solve(r) ==
    /\ pc[r] = "Solve"
    /\ \E S \in Pushes(InBox(beam[r], box[r]), dt[r]) :
          LET sums == Sums(r, box[r], S)
          IN  /\ pushed' = [pushed EXCEPT ![r] = S]
              /\ counted' = [counted EXCEPT ![r] = sums]
              /\ IF ~IsLastBox(box[r])
                   THEN pc' = [pc EXCEPT ![r] = "Notify"] /\ UNCHANGED dt
                   ELSE IF sums = {}
                     THEN pc' = [pc EXCEPT ![r] = "Abort"] /\ UNCHANGED dt
                     ELSE /\ pc' = [pc EXCEPT ![r] = "Notify"]
                          /\ \E d \in NewDts(r, step[r], sums) : dt' = [dt EXCEPT ![r] = d]
    /\ beam' = [beam EXCEPT ![r] = @ \ InBox(@, box[r])]
    /\ whole' = [whole EXCEPT ![step[r]] = @ \union {p.id : p \in InBox(beam[r], box[r])}]
    /\ UNCHANGED <<step, box, physicalTime, dtChan, timeChan, beamChan>>

\* Faulty variant of TimeToSend: the time of the sender's own step.
TimeOfSender(r) == physicalTime[r]

TimeToSend(r) == Append(physicalTime[r], dt[r])

\* What a rank sends for its box; the receiver reads the data only, the step
\* and the box are there to tell messages apart in invariants.
Message(r, data) == [step |-> step[r], box |-> box[r], data |-> data]

\* The end of a box and, after the last one, of a step.
NextBox(r) ==
    IF ~IsLastBox(box[r])
      THEN /\ box' = [box EXCEPT ![r] = @ - 1]
           /\ pc' = [pc EXCEPT ![r] = "Wait"]
           /\ UNCHANGED <<step, physicalTime>>
      ELSE /\ box' = [box EXCEPT ![r] = NumBoxes - 1]
           /\ step' = [step EXCEPT ![r] = @ + N]
           /\ physicalTime' = [physicalTime EXCEPT ![r] = Append(@, dt[r])]
           /\ pc' = [pc EXCEPT ![r] = IF step[r] + N <= MaxStep THEN "Wait" ELSE "Gone"]

\* Notify(step, it, bins) and the end of the box.
Notify(r) ==
    /\ pc[r] = "Notify"
    /\ IF UseMPI /\ step[r] # MaxStep
         THEN /\ timeChan' = IF box[r] = N - 1
                               THEN [timeChan EXCEPT ![r] = Append(@, Message(r, TimeToSend(r)))]
                               ELSE timeChan
              /\ beamChan' = [beamChan EXCEPT ![r] = Append(@, Message(r, pushed[r]))]
         ELSE UNCHANGED <<timeChan, beamChan>>
    /\ beam' = [beam EXCEPT ![r] = IF UseMPI THEN BelowBox(@, box[r]) ELSE @ \union pushed[r]]
    /\ pushed' = [pushed EXCEPT ![r] = {}]
    /\ NextBox(r)
    /\ UNCHANGED <<dt, counted, dtChan, whole>>

Init ==
    /\ pc = [r \in Ranks |-> "Calculate"]
    /\ step = [r \in Ranks |-> N - 1 - r]
    /\ box = [r \in Ranks |-> NumBoxes - 1]
    /\ dt = [r \in Ranks |-> NoDt]
    /\ counted = [r \in Ranks |-> {}]
    /\ \E place \in [ParticleId -> Boxes] :
         beam = [r \in Ranks |->
                   IF r = HeadRank
                     THEN {[id |-> i, box |-> place[i], time |-> <<>>] : i \in ParticleId}
                     ELSE {}]
    /\ pushed = [r \in Ranks |-> {}]
    /\ physicalTime = [r \in Ranks |-> <<>>]
    /\ dtChan = [r \in Ranks |-> <<>>]
    /\ timeChan = [r \in Ranks |-> <<>>]
    /\ beamChan = [r \in Ranks |-> <<>>]
    /\ whole = [s \in Steps |-> {}]

RankNext(r) ==
    \/ CalculateInitial(r)
    \/ WaitTimeStep(r)
    \/ NotifyTimeStep(r)
    \/ (dtChan[r] = <<>> /\ EnterEvolve(r))
    \/ Wait(r)
    \/ Solve(r)
    \/ Notify(r)

\* A failed assertion of one rank ends the job.
Aborted == \E r \in Ranks : pc[r] = "Abort"

AllGone == \A r \in Ranks : pc[r] = "Gone"

Terminating == (Aborted \/ AllGone) /\ UNCHANGED vars

Next == (~Aborted /\ \E r \in Ranks : RankNext(r) \/ EnterEvolve(r)) \/ Terminating

\* Every rank is an operating-system process: it runs unless it waits for MPI.
\* MPI_Send need not return before its dt is received.
Fairness == \A r \in Ranks : WF_vars(~Aborted /\ RankNext(r))

Spec == Init /\ [][Next]_vars /\ Fairness

-----------------------------------------------------------------------------
(* Properties                                                              *)

\* The beam of a box has been pushed, when the box is solved, with exactly
\* the dt's that add up to the physical time of the fields.  The time comes
\* with the first box and the dt changes at the last one, on other ranks.
BeamAtTime ==
    \A r \in Ranks : pc[r] = "Solve" =>
        \A p \in InBox(beam[r], box[r]) :
            p.time = physicalTime[r] /\ Len(p.time) = step[r]

\* The particles whose sums make the dt of step s, each counted as it was
\* after the push of that step.
WholeBeam(s) == (IF s = -1 THEN ParticleId ELSE whole[s]) \X {s + 1}

\* A dt is calculated from the full beam of one step: all its boxes, each
\* particle once, and nothing of an earlier step.
DtFromWholeBeam == \A r \in Ranks : dt[r] # NoDt => dt[r].of = WholeBeam(dt[r].step)

\* Ranks in their first step use the dt of the head rank, all the same.
SameFirstDt ==
    \A q, r \in Ranks :
        pc[q] \in {"Wait", "Solve"} /\ pc[r] \in {"Wait", "Solve"} /\ step[q] < N /\ step[r] < N
            => dt[q] = dt[r]

\* The exchange of the first dt ends and every step is done.
AllStepsDone == <>(Aborted \/ AllGone)
=============================================================================
