--------------------------- MODULE PlasmaParticles ---------------------------
(***************************************************************************)
(* The particles of an ionizable plasma and of the plasma its electrons go *)
(* to, one by one, in the slices of one rank: pushes that stay and pushes  *)
(* of the predictor-corrector loop that are taken back, the boundary of    *)
(* the box, particles that are invalidated, field ionization, which grows  *)
(* the electron tile, and the reset at the start of a step, which shrinks  *)
(* it again.                                                               *)
(*                                                                         *)
(* Abstractions.  The transverse plane is a row of cells, a position is a  *)
(* cell, and a push moves a particle by at most MaxMove cells, whatever    *)
(* its force terms are (SliceSolver has the force terms and the fields).   *)
(* Both plasmas are on one level and no tiles are used.  The identifier of *)
(* a particle is only its sign.  A weight is the step whose density it was *)
(* calculated with.  Which particles violate the quasi-static              *)
(* approximation, and which ions are ionized, is a choice; for an ion that *)
(* has lost all electrons it is a choice too, because the code reads the   *)
(* prefactors past their end.                                              *)
(***************************************************************************)
EXTENDS Integers, Sequences, FiniteSets, Functions

CONSTANTS
    NX,        \* cells across the box
    NSlices,   \* slices of the box
    MaxStep,   \* m_max_step
    MaxIter,   \* m_predcorr_max_iterations
    MaxMove,   \* cells a push moves a particle by
    MaxLost,   \* particles a deposition may discard at once
    Configs    \* the input parameters to check

Cells == 0 .. NX - 1

\* The input parameters.
Configuration ==
    [explicit : BOOLEAN,        \* m_explicit
     periodic : BOOLEAN,        \* is_per of the transverse directions
     initIonLev : 0 .. 1,       \* m_init_ion_lev of the ions
     ions : SUBSET Cells,       \* cells between hollow core and radius: ions,
     electrons : SUBSET Cells]  \* and electrons that are there from the start

ASSUME PlasmaParticlesAssumption ==
    /\ NX \in Nat \ {0}
    /\ NSlices \in Nat \ {0}
    /\ MaxStep \in Nat
    /\ MaxIter \in Nat \ {0}
    /\ MaxMove \in 0 .. NX
    /\ MaxLost \in Nat
    /\ Configs \subseteq Configuration

VARIABLES
    conf,   \* the input parameters, constant
    pc,     \* the next part of the solver
    step,   \* time step
    isl,    \* islice
    iter,   \* i_iter
    ions,   \* the ion tile, a sequence of particles
    elecs   \* the electron tile

vars == <<conf, pc, step, isl, iter, ions, elecs>>

-----------------------------------------------------------------------------
(* Particles                                                               *)

\* A particle has the sign of its identifier, its initial position x0, its
\* position, x_prev, the step of its weight w and its ionization level.  The
\* weight 0 of an invalid particle is NoStep.
NoStep == -1

\* A particle as InitParticles and ResetPlasmaParticles(initial = true) leave it.
Fresh(c, lev, s) ==
    [valid |-> TRUE, x0 |-> c, x |-> c, prev |-> 0, w |-> s, lev |-> lev]

\* The n-th of the cells that are filled, in the order of their indices.
NthCell(S, n) == CHOOSE c \in S : Cardinality({d \in S : d <= c}) = n

\* InitParticles: the offset of a cell is the number of particles of the
\* cells before it, and with one particle per cell slot n has the n-th cell.
InitParticles(S, lev) == [n \in 1 .. Cardinality(S) |-> Fresh(NthCell(S, n), lev, 0)]

\* m_init_num_par of the ions and of the electrons.
InitNumIons == Cardinality(conf.ions)
InitNumElecs == Cardinality(conf.electrons)

\* Faulty variant of ResetSize: the tile keeps the particles that were added.
KeepSize(tile, n) == tile

\* resize to the initial size.
ResetSize(tile, n) == [k \in 1 .. n |-> tile[k]]

\* ResetPlasmaParticles(initial = true).
ResetInitial(tile, n, lev) ==
    LET T == ResetSize(tile, n)
    IN  [k \in DOMAIN T |-> Fresh(T[k].x0, lev, step)]

\* ResetPlasmaParticles(initial = false): every particle, valid or not.
ResetPosition(q) == [q EXCEPT !.x = q.prev]

\* Faulty variant of Inside: no position is ever moved.
WhereverItIs(y) == y

\* enforcePeriodic: the position moved into the box.
Inside(y) == y % NX

Invalid(q) == [q EXCEPT !.w = NoStep, !.valid = FALSE]

\* EnforceBC: a particle set to position y is moved into the box, and is
\* invalid if that moved it and the box is not periodic.
Leaves(y) == Inside(y) # y /\ ~conf.periodic

\* PlasmaParticlePush to stay, by d cells.  x_prev is the position it was
\* pushed to, before it is moved into the box, and is not set for a particle
\* that leaves.
Push(q, d) ==
    LET y == q.x + d
        AtY == [q EXCEPT !.x = Inside(y)]
    IN  IF ~q.valid THEN q
        ELSE IF Leaves(y) THEN Invalid(AtY)
        ELSE [AtY EXCEPT !.prev = y]

\* PlasmaParticlePush to a temporary position, from x_prev.
PushTemporarily(q, d) ==
    LET y == q.prev + d
        AtY == [q EXCEPT !.x = Inside(y)]
    IN  IF ~q.valid THEN q
        ELSE IF Leaves(y) THEN Invalid(AtY) ELSE AtY

\* The particles of a tile the deposition discards: valid ones that violate
\* the quasi-static approximation.
Discarded(tile, lost) == [k \in DOMAIN tile |-> IF k \in lost THEN Invalid(tile[k])
                                                 ELSE tile[k]]

ValidOf(tile) == {k \in DOMAIN tile : tile[k].valid}

\* Faulty variant of Ionizable: also the ions that left the box.
AllIons == DOMAIN ions

\* The ions that field ionization looks at.
Ionizable == ValidOf(ions)

\* Faulty variant of ElectronOf: at the initial position of the ion.
ElectronOfInitial(q) == Fresh(q.x0, 0, q.w)

\* The electron an ion is ionized to: position, x_prev, x0 and weight of the
\* ion, and the ionization level of its own plasma, which is not used.
ElectronOf(q) == [q EXCEPT !.valid = TRUE, !.lev = 0]

-----------------------------------------------------------------------------
(* The slices                                                              *)

Init ==
    /\ conf \in Configs
    /\ pc = "step"
    /\ step = 0
    /\ isl = NSlices - 1
    /\ iter = 0
    /\ ions = InitParticles(conf.ions, conf.initIonLev)
    /\ elecs = InitParticles(conf.electrons, 0)

\* ResetAllQuantities at the start of a step.
ResetAllQuantities ==
    /\ pc = "step"
    /\ step <= MaxStep
    /\ ions' = ResetInitial(ions, InitNumIons, conf.initIonLev)
    /\ elecs' = ResetInitial(elecs, InitNumElecs, 0)
    /\ isl' = NSlices - 1
    /\ pc' = IF conf.explicit THEN "deposit" ELSE "push"
    /\ UNCHANGED <<conf, step, iter>>

\* Every particle of both plasmas is pushed, by its own forces.
PushAll(PushOne(_, _)) ==
    \E d \in [DOMAIN ions -> -MaxMove .. MaxMove],
       e \in [DOMAIN elecs -> -MaxMove .. MaxMove] :
           /\ ions' = [k \in DOMAIN ions |-> PushOne(ions[k], d[k])]
           /\ elecs' = [k \in DOMAIN elecs |-> PushOne(elecs[k], e[k])]

\* AdvanceParticles of a slice: after the fields are known with the explicit
\* solver, first of all with the predictor-corrector solver.
AdvanceParticles ==
    /\ pc = "push"
    /\ PushAll(Push)
    /\ iter' = 0
    /\ pc' = IF conf.explicit THEN "ionize" ELSE "deposit"
    /\ UNCHANGED <<conf, step, isl>>

\* Both plasmas are deposited, which may discard particles.
DepositAll ==
    \E lostIons \in SUBSET ValidOf(ions), lostElecs \in SUBSET ValidOf(elecs) :
        /\ Cardinality(lostIons) + Cardinality(lostElecs) <= MaxLost
        /\ ions' = Discarded(ions, lostIons)
        /\ elecs' = Discarded(elecs, lostElecs)

\* DepositCurrent in this slice.
DepositCurrent ==
    /\ pc = "deposit"
    /\ DepositAll
    /\ pc' = IF conf.explicit THEN "push" ELSE "predict"
    /\ UNCHANGED <<conf, step, isl, iter>>

\* An iteration of the predictor-corrector loop: both plasmas are pushed to
\* the next slice,
Predict ==
    /\ pc = "predict"
    /\ PushAll(PushTemporarily)
    /\ iter' = iter + 1
    /\ pc' = "correct"
    /\ UNCHANGED <<conf, step, isl>>

\* and deposited there.  The loop ends if the field has converged or after
\* the last iteration.
Correct ==
    /\ pc = "correct"
    /\ DepositAll
    /\ pc' \in IF iter < MaxIter THEN {"predict", "reset"} ELSE {"reset"}
    /\ UNCHANGED <<conf, step, isl, iter>>

\* ResetParticles after the loop.
ResetParticles ==
    /\ pc = "reset"
    /\ ions' = [k \in DOMAIN ions |-> ResetPosition(ions[k])]
    /\ elecs' = [k \in DOMAIN elecs |-> ResetPosition(elecs[k])]
    /\ pc' = "ionize"
    /\ UNCHANGED <<conf, step, isl, iter>>

\* The orders in which the threads of the second kernel may get their slots.
Orders(S) == {o \in [1 .. Cardinality(S) -> S] : \A i, j \in DOMAIN o : o[i] = o[j] => i = j}

\* DoFieldIonization: the mask and the count of the first kernel, the resize
\* of the electron tile, and the second kernel.  Then the next slice or step.
DoFieldIonization ==
    /\ pc = "ionize"
    /\ \E mask \in SUBSET Ionizable : \E slots \in Orders(mask) :
           /\ ions' = [k \in DOMAIN ions |-> IF k \in mask THEN [ions[k] EXCEPT !.lev = @ + 1]
                                             ELSE ions[k]]
           /\ elecs' = elecs \o [n \in DOMAIN slots |-> ElectronOf(ions[slots[n]])]
    /\ IF isl > 0
       THEN /\ isl' = isl - 1
            /\ step' = step
            /\ pc' = IF conf.explicit THEN "deposit" ELSE "push"
       ELSE /\ isl' = isl
            /\ step' = step + 1
            /\ pc' = "step"
    /\ UNCHANGED <<conf, iter>>

\* The time steps are done.
Done ==
    /\ pc = "step"
    /\ step > MaxStep
    /\ UNCHANGED vars

Next ==
    \/ ResetAllQuantities
    \/ AdvanceParticles
    \/ DepositCurrent
    \/ Predict
    \/ Correct
    \/ ResetParticles
    \/ DoFieldIonization
    \/ Done

Spec == Init /\ [][Next]_vars

-----------------------------------------------------------------------------
(* Properties                                                              *)

\* The levels the ions that started in cell c have gained, and the electrons
\* that were added for them.
LevelsGained(c) ==
    SumFunctionOnSet([k \in DOMAIN ions |-> ions[k].lev - conf.initIonLev],
                     {k \in DOMAIN ions : ions[k].x0 = c})

ElectronsAdded(c) ==
    Cardinality({k \in DOMAIN elecs : k > InitNumElecs /\ elecs[k].x0 = c})

\* Every level an ion has gained in this step is one electron in the electron
\* tile, and there is no other: whatever was added in the slices before, the
\* mask of the first kernel (PlasmaParticleContainer.cpp:293), the size and
\* the slots of the second (PlasmaParticleContainer.cpp:327) and the size the
\* tile is reset to (PlasmaParticleAdvance.cpp:213) agree.
ElectronsOfIons == \A c \in Cells : ElectronsAdded(c) = LevelsGained(c)

\* What the valid particles in cell y put on the grid, with the weights of
\* their step: can_ionize multiplies the charge by the ionization level.
Charge(y) ==
    SumFunctionOnSet([k \in DOMAIN ions |-> ions[k].lev * (ions[k].w + 1)],
                     {k \in ValidOf(ions) : ions[k].x = y})
    - SumFunctionOnSet([k \in DOMAIN elecs |-> elecs[k].w + 1],
                       {k \in ValidOf(elecs) : elecs[k].x = y})

\* Field ionization does not change the charge in any cell: the electron is
\* where its ion is at that time, with its weight, although ions have been
\* pushed, pushed for the next slice and taken back, or lost.
IonizationKeepsCharge ==
    [][pc = "ionize" => \A y \in Cells : Charge(y)' = Charge(y)]_vars

\* Every step starts with the same plasma, the weights but for the density of
\* the step: particles that were lost are valid again, ions are at their
\* initial level and the electrons of the step before are gone.
StepStartsAlike ==
    [][ResetAllQuantities =>
           /\ ions' = [k \in 1 .. InitNumIons |->
                          Fresh(NthCell(conf.ions, k), conf.initIonLev, step)]
           /\ elecs' = [k \in 1 .. InitNumElecs |->
                          Fresh(NthCell(conf.electrons, k), 0, step)]]_vars

\* A particle that was invalidated is out of the step: no push, deposition or
\* ionization of a later slice or iteration brings it back, gives it weight
\* or raises its level, and it is lost in the slice after the loop even if
\* only a temporary push took it out of the box.
LostStaysLost ==
    [][pc # "step" =>
           /\ \A k \in DOMAIN ions : ~ions[k].valid =>
                  /\ ~ions'[k].valid
                  /\ ions'[k].w = NoStep
                  /\ ions'[k].lev = ions[k].lev
           /\ \A k \in DOMAIN elecs : ~elecs[k].valid =>
                  ~elecs'[k].valid /\ elecs'[k].w = NoStep]_vars

\* Every valid particle is in the box whenever its fields are gathered, it is
\* deposited, or it is sorted into a tile.
StaysInDomain ==
    /\ \A k \in ValidOf(ions) : ions[k].x \in Cells
    /\ \A k \in ValidOf(elecs) : elecs[k].x \in Cells
=============================================================================
