----------------------------- MODULE SliceSolver -----------------------------
(***************************************************************************)
(* One rank solving its slices, from the head to the tail, on up to two    *)
(* levels of mesh refinement: what the field arrays hold when a solver     *)
(* reads them, which fields the plasma and the beam are pushed with, and   *)
(* whether the temporary data of the predictor-corrector loop ever leaks.  *)
(*                                                                         *)
(* Abstractions.  A component of a field array holds the bag of what was   *)
(* added to it: current of a plasma or of a beam slice, ions, or one field *)
(* label for the solution that overwrote it.  The cells of the transverse  *)
(* plane, its guard cells, and all arithmetic are left out, so that a      *)
(* component stands for all its cells.  Refinement is transverse only (the *)
(* documented use, ref_ratio_z = 1).  At most one plasma is assigned to a  *)
(* level, it has a neutralizing background, and there is one beam.  The    *)
(* boxes of a step are one: what a box hands to the next is the subject of *)
(* Pipeline.  Whether the B field converged, and whether an ion is ionized *)
(* in a slice, is a choice.  The B-field tolerance is below 1.             *)
(***************************************************************************)
EXTENDS Integers, Sequences, FiniteSets, Bags

CONSTANTS
    NSlices,   \* slices of the box
    MaxStep,   \* m_max_step
    MaxIter,   \* m_predcorr_max_iterations
    Configs    \* the input parameters to check

Slices == 0 .. NSlices - 1

Levels == {0, 1}

\* The input parameters of a simulation.
Configuration ==
    [explicit : BOOLEAN,             \* m_explicit
     tiling : BOOLEAN,               \* m_do_tiling
     ionization : BOOLEAN,           \* IonizationOn()
     beamJxJy : BOOLEAN,             \* m_do_beam_jx_jy_deposition
     finestLevel : Levels,           \* finestLevel()
     patch : SUBSET Slices,          \* slices between patch_lo and patch_hi
     plasmas : SUBSET Levels,        \* m_level of the plasmas
     beamLevel : Levels,             \* m_finest_level of the beam
     gridLevel : Levels \union {-1}] \* m_finest_level of the grid current, -1: unused

ASSUME SliceSolverAssumption ==
    /\ NSlices \in Nat \ {0}
    /\ MaxStep \in Nat
    /\ MaxIter \in Nat \ {0}
    /\ Configs \subseteq Configuration
    /\ \A c \in Configs :
           /\ c.explicit => c.finestLevel = 0
           /\ c.beamLevel <= c.finestLevel
           /\ \A l \in c.plasmas : l <= c.finestLevel
           /\ \A s, t \in c.patch : s .. t \subseteq c.patch

VARIABLES
    conf,    \* the input parameters, constant
    pc,      \* the next part of the solver
    step,    \* time step
    isl,     \* islice
    lev,     \* lev
    iter,    \* i_iter
    fields,  \* m_slices: for a level, a WhichSlice and an index, what was added up
    plasma,  \* the particles of the plasma of each level
    bins,    \* m_all_bins of that plasma
    beam     \* number of pushes of the particles of each slice

vars == <<conf, pc, step, isl, lev, iter, fields, plasma, bins, beam>>

-----------------------------------------------------------------------------
(* The field arrays                                                        *)

WhichSlice == {"Next", "This", "Previous1", "Previous2", "RhoIons"}

Comps ==
    [Next      |-> [jx |-> 0, jx_beam |-> 1, jy |-> 2, jy_beam |-> 3, N |-> 4],
     This      |-> [ExmBy |-> 0, EypBx |-> 1, Ez |-> 2, Bx |-> 3, By |-> 4, Bz |-> 5,
                    jx |-> 6, jx_beam |-> 7, jy |-> 8, jy_beam |-> 9, jz |-> 10,
                    jz_beam |-> 11, rho |-> 12, Psi |-> 13, jxx |-> 14, jxy |-> 15,
                    jyy |-> 16, N |-> 17],
     Previous1 |-> [Ez |-> 0, Bx |-> 1, By |-> 2, Bz |-> 3, jx |-> 4, jx_beam |-> 5,
                    jy |-> 6, jy_beam |-> 7, rho |-> 8, Psi |-> 9, N |-> 10],
     Previous2 |-> [Bx |-> 0, By |-> 1, N |-> 2],
     RhoIons   |-> [rho |-> 0, N |-> 1]]

Zero(w) == [k \in 0 .. Comps[w].N - 1 |-> EmptyBag]

\* What a component of an array holds.
Get(F, l, w, c) == F[l][w][Comps[w][c]]

\* setVal(0) on n components of an array from component `first' on.
SetZero(F, l, w, first, n) ==
    [F EXCEPT ![l][w] = [k \in DOMAIN @ |-> IF k \in first .. first + n - 1
                                            THEN EmptyBag ELSE @[k]]]

\* A bag is added to some components of an array, or replaces them.
Add(F, l, w, cs, b) ==
    [F EXCEPT ![l][w] = [k \in DOMAIN @ |-> IF \E c \in cs : Comps[w][c] = k
                                            THEN @[k] (+) b ELSE @[k]]]

Set(F, l, w, cs, b) ==
    [F EXCEPT ![l][w] = [k \in DOMAIN @ |-> IF \E c \in cs : Comps[w][c] = k
                                            THEN b ELSE @[k]]]

\* MultiFab::Copy of n consecutive components between two arrays.
Copy(F, l, dst, src, dcomp, scomp, n) ==
    [F EXCEPT ![l][dst] =
        [k \in DOMAIN @ |-> IF k \in dcomp .. dcomp + n - 1
                            THEN F[l][src][scomp + (k - dcomp)] ELSE @[k]]]

\* The labels: current of a plasma after so many pushes, its last one taken
\* back before iteration `temp' if that is not 0; current of the beam
\* particles of a slice after so many pushes; ions put on the grid of a
\* level; grid current; a field of a slice after so many iterations.
One(kind, a, b, c) == SetToBag({<<kind, a, b, c>>})

PlasmaCurrent(p, pushes, temp) == One("plasma", p, pushes, temp)
BeamCurrent(s, pushes) == One("beam", s, pushes, 0)
Ions(p, geometry) == One("ions", p, geometry, 0)
GridCurrent(s) == One("grid", s, 0, 0)
Field(name, l, s, n) == One(name, l, s, n)

-----------------------------------------------------------------------------
(* The plasma                                                              *)

\* `pushes' counts the pushes of the momentum.  The position has had the
\* same pushes if `temp' is 0, one more by the forces of iteration `temp'
\* if that is positive, and is wrong for good if `temp' is -1.  `prev' says
\* which push x_prev, y_prev are of, -1 before the first.  F[k] is what the
\* k-th force terms were gathered from, wherever the particles were then.
InitialPlasma == [pushes |-> 0, temp |-> 0, prev |-> -1, F |-> [k \in 1 .. 5 |-> {}]]

\* The bins have all, some or none of the particles, by their positions then.
Unsorted == [found |-> "none", pushes |-> 0, temp |-> 0]

\* TileSort: looks for the particles on level 0 whatever their level is, and
\* with the geometry of level l.
TileSort(P, l) ==
    [p \in Levels |->
        [found |-> IF p # 0 THEN "none" ELSE IF l = 0 THEN "all" ELSE "some",
         pushes |-> P[p].pushes, temp |-> P[p].temp]]

\* The bins after a call of TileSort, which is made only with tiling.
Sort(P, l) == IF conf.tiling THEN TileSort(P, l) ELSE bins

\* The plasma operations of level l reach a plasma if one is assigned to the
\* level and, with tiling, is in the bins.
Reached(l, B) ==
    /\ l \in conf.plasmas
    /\ conf.tiling => B[l].found # "none"

\* The labels of the fields the forces of plasma p are gathered from.
Gathered(F, l) ==
    UNION {BagToSet(Get(F, l, "This", c)) :
               c \in {"ExmBy", "EypBx", "Ez", "Bx", "By", "Bz"}}

\* Faulty variant of ShiftForceTerms: the swaps in the opposite order.
ShiftForceTermsUp(q) == [q EXCEPT !.F = <<q.F[2], q.F[3], q.F[4], q.F[5], q.F[1]>>]

ShiftForceTerms(q) == [q EXCEPT !.F = <<q.F[5], q.F[1], q.F[2], q.F[3], q.F[4]>>]

UpdateForceTerms(q, F, l) == [q EXCEPT !.F[1] = Gathered(F, l)]

\* PlasmaParticlePush, to stay or for a temporary slice.
Push(q) == [q EXCEPT !.pushes = @ + 1, !.temp = IF @ = 0 THEN 0 ELSE -1,
                     !.prev = q.pushes + 1]

PushTemporarily(q, n) == [q EXCEPT !.temp = IF q.prev = q.pushes THEN n ELSE -1]

\* Faulty variant of ResetPosition: it is left out.
StayPut(q) == q

\* ResetPlasmaParticles(initial = false): back to x_prev, y_prev.
ResetPosition(q) == [q EXCEPT !.temp = IF q.prev = q.pushes THEN 0 ELSE -1]

\* AdvanceParticles of MultiPlasma: the plasma of level l becomes q, if it
\* is reached.
AdvanceParticles(q, l) == [plasma EXCEPT ![l] = IF Reached(l, bins) THEN q ELSE @]

DepositPlasma(F, l, w, cs, P, B) ==
    IF Reached(l, B) THEN Add(F, l, w, cs, PlasmaCurrent(l, P[l].pushes, P[l].temp))
                        ELSE F

-----------------------------------------------------------------------------
(* The beam                                                                *)

\* The beam is deposited up to its finest level and pushed on that level.
DepositsBeam(l) == conf.beamLevel >= l

PushesBeam(l) == conf.beamLevel = l

\* DepositCurrentSlice of the beam: of slice isl into This, of the slice
\* below it into Next.
DepositBeam(F, l, w) ==
    LET s == IF w = "This" THEN isl ELSE isl - 1
        transverse == IF conf.beamJxJy THEN {"jx_beam", "jy_beam"} ELSE {}
        longitudinal == IF w = "This" THEN {"jz_beam"} ELSE {}
    IN  IF DepositsBeam(l) /\ s \in Slices
        THEN Add(F, l, w, transverse \union longitudinal, BeamCurrent(s, beam[s]))
        ELSE F

DepositGridCurrent(F, l) ==
    IF conf.gridLevel >= l THEN Add(F, l, "This", {"jz_beam"}, GridCurrent(isl)) ELSE F

\* Faulty variant of AddBeamCurrents: it is left out.
KeepCurrents(F, l, w) == F

AddBeamCurrents(F, l, w) ==
    LET AddJx == Add(F, l, w, {"jx"}, Get(F, l, w, "jx_beam"))
        AddJy == Add(AddJx, l, w, {"jy"}, Get(F, l, w, "jy_beam"))
    IN  IF w = "This" THEN Add(AddJy, l, w, {"jz"}, Get(F, l, w, "jz_beam")) ELSE AddJy

AddRhoIons(F, l) == Add(F, l, "This", {"rho"}, Get(F, l, "RhoIons", "rho"))

SubtractRhoIons(F, l) ==
    Set(F, l, "This", {"rho"}, Get(F, l, "This", "rho") (-) Get(F, l, "RhoIons", "rho"))

-----------------------------------------------------------------------------
(* The solver                                                              *)

\* Faulty variant of ClearButGuess: only what is in front of Bx is set to 0.
ClearUpToGuess(F, l) == SetZero(F, l, "This", 0, Comps.This.Bx)

\* The array of this slice set to 0, but for Bx and By, the initial guess of
\* the explicit solver.
ClearButGuess(F, l) ==
    LET iby == Comps.This.By
    IN  SetZero(ClearUpToGuess(F, l), l, "This", iby + 1, Comps.This.N - iby - 1)

\* The slices a level has: all of level 0.
OnLevel(s, l) == l = 0 \/ s \in conf.patch

\* ResetParticles(initial = true) of all levels.
ResetPlasma == [p \in Levels |-> InitialPlasma]

Init ==
    /\ conf \in Configs
    /\ pc = "step"
    /\ step = 0
    /\ isl = NSlices - 1
    /\ lev = 0
    /\ iter = 0
    /\ fields = [l \in Levels |-> [w \in WhichSlice |-> Zero(w)]]
    /\ plasma = [p \in Levels |-> InitialPlasma]
    /\ bins = [p \in Levels |-> Unsorted]
    /\ beam = [s \in Slices |-> 0]

\* ResetAllQuantities, and the neutralizing background of all levels, which
\* is put on the grid with the geometry of level 0.
ResetAllQuantities ==
    /\ pc = "step"
    /\ step <= MaxStep
    /\ plasma' = ResetPlasma
    /\ bins' = Sort(plasma', 0)
    /\ fields' = [l \in Levels |-> [w \in WhichSlice |->
           IF w = "RhoIons" /\ Reached(l, bins')
           THEN [k \in DOMAIN Zero(w) |-> Ions(l, 0)]
           ELSE Zero(w)]]
    /\ isl' = NSlices - 1
    /\ lev' = 0
    /\ pc' = "clear"
    /\ UNCHANGED <<conf, step, iter, beam>>

\* The array of this slice is set to 0, up to the initial guess of the
\* explicit solver; the predictor-corrector solver pushes the plasma here.
Clear ==
    /\ pc = "clear"
    /\ IF conf.explicit
       THEN fields' = ClearButGuess(fields, lev) /\ UNCHANGED plasma
       ELSE /\ fields' = SetZero(fields, lev, "This", 0, Comps.This.N)
            /\ plasma' = AdvanceParticles(Push(plasma[lev]), lev)
    /\ bins' = Sort(plasma', lev)
    /\ pc' = "deposit"
    /\ UNCHANGED <<conf, step, isl, lev, iter, beam>>

\* The plasma is deposited in this slice and, for the explicit solver, the
\* beam of the next slice in Next; the ions are added.
Deposit ==
    /\ pc = "deposit"
    /\ LET squared == IF conf.explicit THEN {"jxx", "jxy", "jyy"} ELSE {}
           Here == DepositPlasma(fields, lev, "This", {"jx", "jy", "jz", "rho"} \union squared,
                                 plasma, bins)
           Below == SetZero(Here, lev, "Next", Comps.Next.jx, 4)
           BelowBeam == AddBeamCurrents(DepositBeam(Below, lev, "Next"), lev, "Next")
       IN  fields' = AddRhoIons(IF conf.explicit THEN BelowBeam ELSE Here, lev)
    /\ pc' = "psi"
    /\ UNCHANGED <<conf, step, isl, lev, iter, plasma, bins, beam>>

\* SolvePoissonExmByAndEypBx, then the currents that are not plasma.
SolvePsi ==
    /\ pc = "psi"
    /\ LET Psi == Set(fields, lev, "This", {"Psi", "ExmBy", "EypBx"},
                      Field("Psi", lev, isl, 0))
           NotPlasma == DepositBeam(DepositGridCurrent(Psi, lev), lev, "This")
       IN  fields' = AddBeamCurrents(NotPlasma, lev, "This")
    /\ pc' = "ezbz"
    /\ UNCHANGED <<conf, step, isl, lev, iter, plasma, bins, beam>>

\* SolvePoissonEz and SolvePoissonBz.  The explicit solver takes the ions
\* out of rho here.
SolveEzBz ==
    /\ pc = "ezbz"
    /\ LET EzBz == Set(fields, lev, "This", {"Ez", "Bz"}, Field("EzBz", lev, isl, 0))
       IN  fields' = IF conf.explicit THEN SubtractRhoIons(EzBz, lev) ELSE EzBz
    /\ pc' = IF conf.explicit THEN "explicit" ELSE "guess"
    /\ UNCHANGED <<conf, step, isl, lev, iter, plasma, bins, beam>>

\* ExplicitSolveBxBy; the force terms are shifted and updated and the plasma
\* pushed; the ions are put back.
ExplicitSolveBxBy ==
    /\ pc = "explicit"
    /\ LET BxBy == Set(fields, lev, "This", {"Bx", "By"}, Field("B", lev, isl, 1))
           updated == UpdateForceTerms(ShiftForceTerms(plasma[lev]), BxBy, lev)
       IN  /\ fields' = AddRhoIons(BxBy, lev)
           /\ plasma' = AdvanceParticles(Push(updated), lev)
    /\ pc' = "beam"
    /\ UNCHANGED <<conf, step, isl, lev, iter, bins, beam>>

\* InitialBfieldGuess from the two slices before, and the forces of the guess.
Guess ==
    /\ pc = "guess"
    /\ fields' = Set(fields, lev, "This", {"Bx", "By"}, Field("B", lev, isl, 0))
    /\ plasma' = AdvanceParticles(UpdateForceTerms(ShiftForceTerms(plasma[lev]), fields', lev),
                                  lev)
    /\ iter' = 0
    /\ pc' = "predict"
    /\ UNCHANGED <<conf, step, isl, lev, bins, beam>>

\* An iteration starts: the plasma is pushed to the next slice, and it and
\* the beam of the next slice are deposited in Next.
Predict ==
    /\ pc = "predict"
    /\ iter < MaxIter
    /\ iter' = iter + 1
    /\ plasma' = AdvanceParticles(PushTemporarily(plasma[lev], iter + 1), lev)
    /\ bins' = Sort(plasma', lev)
    /\ LET NextPlasma == DepositPlasma(fields, lev, "Next", {"jx", "jy"}, plasma', bins')
       IN  fields' = AddBeamCurrents(DepositBeam(NextPlasma, lev, "Next"), lev, "Next")
    /\ pc' = "correct"
    /\ UNCHANGED <<conf, step, isl, lev, beam>>

\* Faulty variant of TemporaryComps: the beam currents are forgotten.
PlasmaComps == {"jx", "jy"}

\* What an iteration leaves in Next is temporary.
TemporaryComps == {"jx", "jy", "jx_beam", "jy_beam"}

\* The iteration ends: Bx and By are solved for and mixed with those of the
\* earlier iterations in this slice (the label is the number of iterations),
\* the currents of the next slice cleaned, and the forces updated.
Correct ==
    /\ pc = "correct"
    /\ LET BxBy == Set(fields, lev, "This", {"Bx", "By"}, Field("B", lev, isl, iter))
       IN  /\ fields' = Set(BxBy, lev, "Next", TemporaryComps, EmptyBag)
           /\ plasma' = AdvanceParticles(UpdateForceTerms(plasma[lev], BxBy, lev), lev)
    /\ pc' \in IF iter < MaxIter THEN {"predict", "reset"} ELSE {"reset"}
    /\ UNCHANGED <<conf, step, isl, lev, iter, bins, beam>>

\* The loop is left: ResetParticles, whether the particles are in bins or not.
ResetParticles ==
    /\ pc = "reset"
    /\ plasma' = [p \in Levels |-> IF p = lev /\ p \in conf.plasmas
                                   THEN ResetPosition(plasma[p]) ELSE plasma[p]]
    /\ pc' = "beam"
    /\ UNCHANGED <<conf, step, isl, lev, iter, fields, bins, beam>>

\* AdvanceBeamParticlesSlice: the beam is pushed on its finest level.
PushBeam ==
    /\ pc = "beam"
    /\ beam' = IF PushesBeam(lev) THEN [beam EXCEPT ![isl] = @ + 1] ELSE beam
    /\ pc' = "ionize"
    /\ UNCHANGED <<conf, step, isl, lev, iter, fields, plasma, bins>>

\* Faulty variant of SortIonized: the bins are left as they are.
NotSorted(B) == B

\* The bins after ionization, sorted anew if a plasma can be ionized.
SortIonized(B) == IF conf.ionization /\ conf.tiling THEN TileSort(plasma, lev) ELSE B

\* DoFieldIonization may add electrons, that no bin has yet; then the next
\* level of this slice, if it has one.
Ionize ==
    /\ pc = "ionize"
    /\ \E ionized \in {FALSE, conf.ionization} :
           LET left == [p \in Levels |-> IF p = lev /\ ionized /\ bins[p].found = "all"
                                         THEN [bins[p] EXCEPT !.found = "some"]
                                         ELSE bins[p]]
           IN  bins' = SortIonized(left)
    /\ IF lev < conf.finestLevel /\ OnLevel(isl, lev + 1)
       THEN lev' = lev + 1 /\ pc' = "clear"
       ELSE lev' = lev /\ pc' = "shift"
    /\ UNCHANGED <<conf, step, isl, iter, fields, plasma, beam>>

\* The three copies of ShiftSlices on one level.
ShiftB(F, l) ==
    Copy(F, l, "Previous2", "Previous1", Comps.Previous2.Bx, Comps.Previous1.Bx, 2)

ShiftFields(F, l) ==
    Copy(F, l, "Previous1", "This", Comps.Previous1.Ez, Comps.This.Ez, 8)

ShiftRhoPsi(F, l) ==
    Copy(F, l, "Previous1", "This", Comps.Previous1.rho, Comps.This.rho, 2)

\* Faulty variant of ShiftLevel: Previous1 is overwritten before it is saved.
ShiftLevelNewestFirst(F, l) == ShiftB(ShiftRhoPsi(ShiftFields(F, l), l), l)

\* Faulty variant of ShiftLevel: rho and Psi are not shifted.
ShiftLevelButPsi(F, l) == ShiftFields(ShiftB(F, l), l)

\* ShiftSlices on one level: Bx and By of Previous1 to Previous2; then Ez,
\* Bx, By, Bz and the transverse currents, and rho and Psi, to Previous1.
ShiftLevel(F, l) == ShiftRhoPsi(ShiftFields(ShiftB(F, l), l), l)

\* ShiftSlices of all levels that have this slice; the next slice or step.
ShiftSlices ==
    /\ pc = "shift"
    /\ fields' = [l \in Levels |-> IF l <= conf.finestLevel /\ OnLevel(isl, l)
                                   THEN ShiftLevel(fields, l)[l] ELSE fields[l]]
    /\ lev' = 0
    /\ IF isl > 0
       THEN isl' = isl - 1 /\ pc' = "clear" /\ UNCHANGED step
       ELSE step' = step + 1 /\ pc' = "step" /\ UNCHANGED isl
    /\ UNCHANGED <<conf, iter, plasma, bins, beam>>

\* The last step is done.
Done == pc = "step" /\ step > MaxStep /\ UNCHANGED vars

Next ==
    \/ ResetAllQuantities \/ Clear \/ Deposit \/ SolvePsi \/ SolveEzBz
    \/ ExplicitSolveBxBy \/ Guess \/ Predict \/ Correct \/ ResetParticles
    \/ PushBeam \/ Ionize \/ ShiftSlices \/ Done

Spec == Init /\ [][Next]_vars

-----------------------------------------------------------------------------
(* Properties                                                              *)

Solved(s, l) == s \in Slices /\ OnLevel(s, l)

\* How often the plasma of level l has been pushed when it is deposited in
\* slice s: once per slice of the level down to s, the explicit solver
\* pushing only after it solved a slice.
Pushes(s, l) ==
    Cardinality({t \in s .. NSlices - 1 : OnLevel(t, l)}) - (IF conf.explicit THEN 1 ELSE 0)

\* The currents a slice of a level must have, each once; the beam not
\* pushed in this step yet.
PlasmaOf(s, l) ==
    IF Solved(s, l) /\ l \in conf.plasmas THEN PlasmaCurrent(l, Pushes(s, l), 0)
                                          ELSE EmptyBag

BeamOf(s, l) == IF s \in Slices /\ conf.beamLevel >= l THEN BeamCurrent(s, step)
                                                     ELSE EmptyBag

TransverseBeamOf(s, l) == IF conf.beamJxJy THEN BeamOf(s, l) ELSE EmptyBag

IonsOf(l) == IF l \in conf.plasmas THEN Ions(l, l) ELSE EmptyBag

GridOf(s, l) == IF conf.gridLevel >= l THEN GridCurrent(s) ELSE EmptyBag

\* Component c of array w on the level being solved.
Now(w, c) == Get(fields, lev, w, c)

\* Psi is solved for with the electrons and the ions of this slice, once
\* each, and with no beam: not with what an earlier slice, level or time step
\* left in the arrays (SolvePoissonExmByAndEypBx, 1/ep0 * -(rho - Jz/c)).
PsiSource ==
    pc = "psi" =>
        /\ Now("This", "rho") = PlasmaOf(isl, lev) (+) IonsOf(lev)
        /\ Now("This", "jz") = PlasmaOf(isl, lev)

\* Ez and Bz are solved for with the plasma and the beam current of this
\* slice, once each: beam currents are added to the full ones once, and the
\* beam of the slice is not pushed yet (SolvePoissonEz, SolvePoissonBz).
EzBzSource ==
    pc = "ezbz" =>
        \A c \in {"jx", "jy"} :
            Now("This", c) = PlasmaOf(isl, lev) (+) TransverseBeamOf(isl, lev)

\* Bx and By of the predictor-corrector solver come from the currents of the
\* slice before, of this slice, and of the next slice: there the plasma of
\* this iteration only, and the beam before it is pushed
\* (SolvePoissonBx, SolvePoissonBy).
BxBySource ==
    pc = "correct" =>
        /\ Now("This", "jz") = PlasmaOf(isl, lev) (+) BeamOf(isl, lev) (+) GridOf(isl, lev)
        /\ \A c \in {"jx", "jy"} :
               /\ Now("Next", c) = (IF lev \in conf.plasmas
                                    THEN PlasmaCurrent(lev, Pushes(isl, lev), iter)
                                    ELSE EmptyBag) (+) TransverseBeamOf(isl - 1, lev)
               /\ Now("Previous1", c) =
                      IF Solved(isl + 1, lev)
                      THEN PlasmaOf(isl + 1, lev) (+) TransverseBeamOf(isl + 1, lev)
                      ELSE EmptyBag

\* The explicit solver reads rho of the electrons alone, the beam currents
\* by themselves in the slices before and after, and both currents in this
\* one, so that it can take their difference (ExplicitSolveBxBy).
ExplicitSource ==
    pc = "explicit" =>
        /\ Now("This", "rho") = PlasmaOf(isl, lev)
        /\ Now("This", "jz_beam") = BeamOf(isl, lev) (+) GridOf(isl, lev)
        /\ Now("This", "jz") = PlasmaOf(isl, lev) (+) Now("This", "jz_beam")
        /\ \A c \in {"jxx", "jxy", "jyy"} : Now("This", c) = PlasmaOf(isl, lev)
        /\ \A c \in {"jx_beam", "jy_beam"} :
               /\ Now("This", c) = TransverseBeamOf(isl, lev)
               /\ Now("Next", c) = TransverseBeamOf(isl - 1, lev)
               /\ Now("Previous1", c) = IF Solved(isl + 1, lev)
                                        THEN TransverseBeamOf(isl + 1, lev) ELSE EmptyBag

\* A component holds the field of slice s alone, or nothing if the level
\* has no such slice.
HoldsField(w, c, name, s) ==
    LET b == Now(w, c)
    IN  /\ Solved(s, lev) => BagCardinality(b) = 1
        /\ \A f \in BagToSet(b) : f[1] = name /\ f[2] = lev /\ f[3] = s /\ f[4] # 0

\* The guess of Bx and By is extrapolated from the final B of the two slices
\* before this one (InitialBfieldGuess), and the multigrid solver starts from
\* that of the slice before, which the array of this slice still holds.
GuessFromSlicesBefore ==
    \A c \in {"Bx", "By"} :
        /\ pc = "guess" => /\ HoldsField("Previous1", c, "B", isl + 1)
                           /\ HoldsField("Previous2", c, "B", isl + 2)
        /\ pc = "explicit" => HoldsField("This", c, "B", isl + 1)

\* The coarse fields that give a slice of level 1 its boundary are final and
\* are those of the same slice and of the slice before (SetBoundaryCondition
\* and InterpolateFromLev0toLev1 read This and Previous1 of level 0).
CoarseBoundary ==
    lev = 1 /\ pc \in {"psi", "ezbz", "correct"} =>
        \A w \in {"This", "Previous1"}, c \in {"Psi", "Ez", "Bx", "By", "Bz"} :
            LET s == IF w = "This" THEN isl ELSE isl + 1
                b == Get(fields, 0, w, c)
            IN  /\ s \in Slices => BagCardinality(b) = 1
                /\ \A f \in BagToSet(b) :
                       f[2] = 0 /\ f[3] = s /\ (c \in {"Bx", "By"} => f[4] # 0)

\* When a slice of a level is solved, all its fields are of this slice and
\* final: this is what the beam is pushed with and ions are ionized by.  The
\* plasma is back where its last push put it, and the predictor-corrector
\* loop leaves no temporary current in the next slice.
SliceSolved ==
    pc \in {"beam", "ionize"} =>
        /\ \A c \in {"ExmBy", "EypBx", "Psi"} :
               Now("This", c) = Field("Psi", lev, isl, 0)
        /\ \A c \in {"Ez", "Bz"} : Now("This", c) = Field("EzBz", lev, isl, 0)
        /\ \A c \in {"Bx", "By"} : HoldsField("This", c, "B", isl)
        /\ lev \in conf.plasmas =>
               /\ plasma[lev].temp = 0
               /\ plasma[lev].pushes = Pushes(isl, lev) + (IF conf.explicit THEN 1 ELSE 0)
        /\ ~conf.explicit =>
               \A k \in DOMAIN fields[lev].Next : fields[lev].Next[k] = EmptyBag

\* The five force terms of the plasma are of the last five slices of its
\* level, one slice each and newest first, all of a slice from its final
\* fields, and none from before the time step: what the fifth-order
\* Adams-Bashforth push supposes (ShiftForceTerms, PlasmaParticlePush).
ForcesOfLastSlices ==
    pc = "beam" /\ lev \in conf.plasmas =>
        \A k \in 1 .. 5 :
            LET s == isl + k - 1
            IN  IF Solved(s, lev)
                THEN \E n \in 1 .. MaxIter :
                        /\ plasma[lev].F[k] = {<<"Psi", lev, s, 0>>, <<"EzBz", lev, s, 0>>,
                                               <<"B", lev, s, n>>}
                        /\ k = 1 => Now("This", "Bx") = Field("B", lev, s, n)
                ELSE plasma[lev].F[k] = {}

\* With tiling, the plasma is gathered, pushed and deposited through bins
\* that have all its particles, electrons ionized in the last slice among
\* them; and when it is deposited, by the positions the particles have, a
\* temporary tile array having room for no others (MultiPlasma::TileSort).
BinsReady ==
    conf.tiling =>
        \A p \in conf.plasmas :
            p = lev =>
                /\ pc \in {"deposit", "guess", "predict", "correct", "explicit", "clear"}
                       => bins[p].found = "all"
                /\ pc \in {"deposit", "correct"}
                       => <<bins[p].pushes, bins[p].temp>> = <<plasma[p].pushes, plasma[p].temp>>

=============================================================================
