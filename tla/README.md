# A verification project for HiPACE++

HiPACE++ is a quasi-static particle-in-cell code.  It follows a particle beam through a plasma in
time steps; within a step it solves the domain slice by slice from its head to its tail, because
the wake of a slice depends only on the slices ahead of it.  With several MPI ranks the domain is
cut into one *box* per rank and the *time steps* are dealt to the ranks in turn: while a rank solves
the tail of step `s`, the next one already solves the head of step `s+1` with the beam it was sent.
Most of what is hard to test in this program happens in that pipeline, which is modelled first; then
what a rank does with one slice, with single plasma particles, with its output and a restart from it,
and what the Poisson solvers under the fields do with their arrays.

## Inventory

| Component | State | Operations | What makes it correct |
|---|---|---|---|
| Longitudinal pipeline (`Hipace::Evolve`, `Wait`, `Notify`, `NotifyFinish`, `~Hipace`) | step and box of each rank, send buffers and requests, physical time, leftmost occupied boxes | receive and send time, counts, particles, ghost particles; end of a box, of a step, of the run | messages meet the receives they are for; buffers outlive the sends; no rank runs ahead of what it needs; every step is done |
| Beam boxes, slices, ghosts (`BoxSorter`, `findParticlesInEachSlice`, `MultiBeam`) | particle tile sorted by box, bins by slice, number of real particles | sort, bin, pack local ghosts, check and remove ghosts, resize | a particle is in one place, pushed once per step, deposited once in a ghost slice |
| Slice solver (`Hipace::SolveOneSlice`, `PredictorCorrectorLoopToSolveBxBy`, `Fields`) | slices Next, This, Previous1, Previous2, RhoIons, component by component | set, deposit, solve, mix, shift | every component read was written for this slice; temporary currents are gone at the end |
| Plasma particles (`PlasmaParticleContainer`, `MultiPlasma`, `TileSort`) | committed and temporary positions and momenta, force history, tile bins, ion levels | push, reset, deposit, ionize, bin | temporary pushes are undone; bins match the particles they index |
| Adaptive time step (`AdaptiveTimeStep`) | partial sums over boxes, dt | calculate per box, send and receive dt at the start | dt comes from the whole beam; the time announced is the time the beam was pushed to |
| Output (`OpenPMDWriter`, `Diagnostic`) | series, last step dumped, chunk offsets, field boxes | open, write beams, write fields, reset | chunks of a dump are disjoint and cover it; all of a dump is of one time; coarse cells have all their contributions |
| Domain decomposition (`PostProcessBaseGrids`, `DefineSliceGDB`, `MakeNewLevelFromScratch`) | boxes and their ranks | cut the domain, derive slices | boxes tile the domain, one per rank |
| Beam initialisation (`BeamParticleContainerInit.cpp`) | counts, offsets, identifiers, initial time | inject per cell, per weight, from file | every particle allocated is written once, identifiers are unique, a restart has the beam that was dumped |
| Poisson solvers and FFT wrappers (`fft_poisson_solver/`) | staging area, spectral and expanded arrays, eigenvalues, plans | define, transform, multiply, transform back | kernels stay in their arrays; all libraries compute the same transform; the solution solves the equation |
| Particle kernels, grid current, constants, parser | none that outlives a call | numerics | outside model checking, but for the boundary condition and the discarding of particles |

Ranks interact by messages only: point-to-point along the ring (`m_comm_z`), each rank receiving
from `(m_rank_z+1) % m_numprocs_z` and sending to the rank below; collectives exist only inside the
transverse communicator.  There are five message kinds, told apart by tag.  Within a rank the code
is sequential.  The hard behaviours are therefore: interleavings of ranks that are up to `N` steps
apart, nonblocking sends whose buffers are reused, receives that rely on nothing but order, and
state (time, ghosts, leftmost box) that is read at one point of the step and refreshed at another.
`PROJECT.json` lists them as hazards with the line at which each bites.

## Plan

Done, in this order:
1. `Wavefront`, `Pipeline` and the proofs about its messages, its refinement of `Wavefront` and its
   beam: the core.
2. `TimeStep`: adaptive dt, initial exchange, physical time; its proofs.
3. `SliceSolver`: what the slices hold through `SolveOneSlice`, the predictor-corrector loop, the
   explicit solver and `ShiftSlices`; its proofs.
4. `PlasmaParticles`: single plasma particles, which may be invalid, at the boundary, or new by
   ionization; its proofs.
5. `BeamInjection` and `OpenPMDWriter`, composed: what a run starts with, dumps, and starts with again;
   proofs.
6. `PrimeField` and `PoissonSolver`: the solvers and transforms, kernel by kernel; its proofs.

Left: level 1 and slice output in the output module; transverse ranks.

## Modules

### Wavefront
What the pipeline promises, without ranks or messages: a set of cells `<<step, box>>` whose head
slice has been solved and a set whose tail slice has been solved.  The head slice of a box needs the
box ahead (the wake) and the same box of the previous step (the beam).  The tail slice also needs
the head slice of the next box of the previous step: the ghost slice.

### Pipeline
The code.  One action per stretch of code between two blocking calls, for each rank:

| Action | Code |
|---|---|
| `StartStep` | head of the loop over steps in `Evolve`: `CheckDensity`, `ResetAllQuantities` |
| `WaitReturns`, `WaitReceives` | `Wait(step, it)` with its early returns |
| `SolveHead` | sort, leftmost box, local ghosts, bins, `SolveOneSlice` of the head slice |
| `NotifyGhostReturns`, `NotifyGhostLastStep`, `NotifyGhostSends` | `Notify(step, it, bins, true)` and the condition in front of it |
| `WaitGhostReturns`, `WaitGhostReceives` | `Wait(step, it, true)` and the condition in front of it |
| `SolveTail` | central slices, `CheckGhostSlice`, tail slice, `RemoveGhosts` |
| `Notify` | `Notify(step, it, bins)` (its last step, its sends), end of the box and of the step |
| `Destroy` | `~Hipace` |

State: `pc`, `step`, `box` are the program counter and the loop indices; `beam`, `headBin`,
`restBin`, `ghosts` are the particle tile cut as the code cuts it (`beam` outside the current box,
the two bins inside it, `ghosts` after the real particles); `nextSlice` is the beam current that a
tail slice deposited behind its box; `physicalTime`, `leftmostSnd`, `leftmostRcv` are the members of
that name; `chan` and `buf` are the messages between two `MPI_Isend` / `MPI_Recv` pairs and the send
buffers.  `plasmaTime` records the time at which the plasma density was last evaluated.

Abstractions, each named in the module:
* A longitudinal position is a region.  A box has two: its head slice, which is what the ghost
  message carries, and the rest.  A particle only falls back (the code subtracts from z), by at most
  `MaxSlip` regions in a push.  Particles that leave the domain sideways are not modelled.
* One beam stands for all species: counts are summed and all species are packed into one message.
* dt is constant and the unit of time; the initial time is zero.
* MPI is modelled from its use: messages of one kind between two ranks keep their order; a small
  message is copied out of the buffer at once (`EagerSmall`) or only when received, and a particle
  message in either of the two ways, chosen at each send.  `ref` in a message says that MPI still
  reads the buffer, and `NotifyFinish` waits until it does not.
* The receives and waits inside one handler form one action.  Each waits for a condition that stays
  true until this rank acts, so nothing of another rank can tell the difference.
* `age` of a particle and the labels `step` and `box` of a message exist only in the model.  No
  action reads them; properties do.

### PipelineInvariants, MCPipeline
`PipelineInvariants` names, as functions of two ranks' positions, the messages that must be on their
way between them (`ChannelsExact`), when a rank waits for a neighbour (`Blocked`, `SomeRankGoes`), and the
inductive invariants of the proofs, those about ages, places and ghosts of beam particles included.  `MCPipeline`
extends it, so that TLC can check each before it is proved, and checks `ChannelsExact` and `SomeRankGoes` beside the
proofs.

### TimeStep, MCTimeStep
`hipace.dt = adaptive` on the same ring.  `Calculate` adds the particles of each box to
`m_timestep_data`, and at box 0 it replaces `m_dt`; meanwhile the time of the next step has left with
the first box, and the rank advances its own time after the last one.

| Action | Code |
|---|---|
| `CalculateInitial` | `Calculate(...)` of `InitData`, on the head rank |
| `WaitTimeStep`, `NotifyTimeStep`, `EnterEvolve` | the exchange of the first dt, up to the return of the blocking `MPI_Send` |
| `Wait` | the time with the first box, the beam of every box |
| `Solve` | all slices of a box, and `Calculate(..., it, ..., false)` |
| `Notify` | send the time and the beam, end of the box and of the step |

A dt is not a number but the set of particles (and the age of each) it was calculated from, and a
time is the sequence of dt's it is the sum of; equality of two times then means that they were
reached by the same dt's.  Whether the beam is fast enough for a new dt is a choice.  The counts,
ghosts, buffers and completions of `Pipeline` are left out: the beam of a box is one message.

### SliceSolver, MCSliceSolver
One rank, and what its field arrays hold while `SolveOneSlice` works through the slices and levels.

| Action | Code |
|---|---|
| `ResetAllQuantities` | head of a step: plasma reset, arrays set to 0, first `TileSort`, neutralizing background |
| `Clear` | array This set to 0 (but for the guess of the explicit solver), plasma push, `TileSort` |
| `Deposit` | plasma into This; for the explicit solver the beam into Next; `AddRhoIons` |
| `SolvePsi` | `SolvePoissonExmByAndEypBx`, then grid current and beam into This, `AddBeamCurrents` |
| `SolveEzBz` | `SolvePoissonEz`, `SolvePoissonBz`, for the explicit solver `AddRhoIons(lev, true)` |
| `ExplicitSolveBxBy` | the function, the plasma push and `AddRhoIons` after it |
| `Guess` | `InitialBfieldGuess` and the forces from the guess |
| `Predict`, `Correct` | the two halves of an iteration of the predictor-corrector loop |
| `ResetParticles` | after the loop |
| `PushBeam`, `Ionize` | `AdvanceBeamParticlesSlice`; `DoFieldIonization` and the `TileSort` after it, next level |
| `ShiftSlices` | `ShiftSlices` of all levels, next slice, next step |

State: `fields` is `m_slices`, with the components of each array at the index that `Comps` gives them,
since `setVal` and `MultiFab::Copy` work on ranges of indices.  A component holds the bag of what was
added to it; a label says whose current it is (which plasma after how many pushes, which beam slice
after how many) or which slice and level a field is the solution of.  A sum of the wrong things, of one
thing twice, or of something from an earlier slice, iteration or step, is then another bag.
`plasma` holds, for the plasma of each level, the number of its pushes, the temporary one it is at,
what `x_prev` is of, and what each force term was gathered from; `bins` says whether the tile bins
have its particles and at which positions they were sorted; `beam` counts the pushes of each slice of
the beam.  `conf` holds the input parameters and never changes: one run checks a set of them.

Abstractions, each named in the module: the transverse plane and its guard cells are one cell;
`ref_ratio_z` is 1; at most one plasma on a level, one beam, one box; convergence of the B field and
ionization are choices; the tolerance of the B field is below 1, so that the loop is entered.  The
force terms say from which fields they were gathered and not from where: within the loop the code
gathers at the temporary position.  `FillDiagnostics` only reads the arrays and is left out.

### PlasmaParticles, MCPlasmaParticles
One rank, the tile of an ionizable plasma and the tile of the plasma its electrons go to, particle by
particle.  `SliceSolver` treats the plasma as a whole; here are the things that happen to one particle.

| Action | Code |
|---|---|
| `Init` | `InitParticles`: cells in the order of their indices, one slot each |
| `ResetAllQuantities` | `ResetPlasmaParticles(initial = true)`: resize, positions, levels, weights |
| `AdvanceParticles` | `PlasmaParticlePush` to stay, with `EnforceBC` |
| `DepositCurrent` | deposition, which invalidates particles that violate the quasi-static approximation |
| `Predict`, `Correct` | an iteration: temporary push from `x_prev`, deposition in the next slice |
| `ResetParticles` | `ResetPlasmaParticles(initial = false)`, of valid and invalid particles alike |
| `DoFieldIonization` | the mask, the resize of the electron tile, the slots the threads get in any order |

A particle is a record of its validity, `x0`, position, `x_prev`, weight (the step whose density it
was calculated with) and ionization level.  A push moves each particle by any number of cells up to
`MaxMove`, a deposition discards at most `MaxLost`; which ions are ionized is a choice.

### BeamInjection, OpenPMDWriter, MCOpenPMDWriter
`OpenPMDWriter` extends `BeamInjection`: a behaviour is the injection of the beams of a simulation, its
time steps on one rank with their dumps, and the injection of the beams of a second simulation that
reads the last dump.

| Action | Code |
|---|---|
| `CountFixedPPC`, `FillFixedPPC` | `InitBeamFixedPPC`: the counting kernel, the scan and the resize; the kernel that writes |
| `InjectFixedWeight` | `InitBeamFixedWeight`, with and without `do_symmetrize` |
| `InjectFromFile`, `AbortFromFile` | `InitBeamFromFile` and its helper, which look for iteration and species |
| `EnterEvolve`, `StartStep` | `InitData` and the head of a step: `InitDiagnostics`; what the other ranks did to the beam meanwhile |
| `Wait`, `Sort` | receive the box, `sortParticlesByBox` |
| `WriteBeams` | `WriteDiagnostics(..., beams)`: `SetupPos`, offsets, chunks of positions, momenta, identifiers |
| `SolveBox` | the slices of the box: pushes, `ResizeFDiagFAB`, `FillDiagnostics` |
| `WriteFields` | `WriteDiagnostics(..., fields)`: data set and chunk of the box |
| `Notify`, `EndStep` | what leaves the tile, next box, next step |
| `Restart` | a second run with `injection_type = from_file` |

A lattice point has integer coordinates, so that a coarser injection can be compared with the fine
one.  A beam row says which particle it is of and after how many pushes; a coarse cell is the set of
its contributions `<<step, slice, weight>>` with weights as fractions.  Units are exponents of the
factors they are made of: `OfWriter` has the plasma density of the dump (1 in `SetupPos`), `OfReader`
that density or the `plasma_density` of the beam that is read.  The other ranks are what they send: the particles of a box after the
pushes of their steps.  openPMD is modelled from its use: a data set that is reset to the extent it
has keeps what was stored in it.

### PrimeField, PoissonSolver, MCPoissonSolver
`PrimeField` replaces the real numbers by the field of integers modulo a prime, in which sines and
cosines of fractions of a turn exist as powers of a generator.  Every identity that makes a discrete
transform work holds there exactly, so that "this transform is that one" and "this is a solution" can
be decided by evaluation.  `PoissonSolver` is the Dirichlet solver over FFTW's sine transform, over
the transform by two passes of small Fourier transforms, or over the transform of an expanded array,
and the periodic solver.

| Action | Code |
|---|---|
| `Define` | `define` of the solver and `CreatePlan` of the wrapper: sizes and coefficients |
| `LinCombination`, `SetBoundaryCondition` | the source in the staging area, the boundary values of a refined level |
| `LaunchToComplex`, `LaunchC2Rfft`, `LaunchToSine`, `LaunchTranspose` | kernels of the small transform, each twice |
| `LaunchExpandR2R`, `LaunchR2Cfft`, `LaunchShrinkC2R` | kernels of the expanded transform |
| `LaunchR2R`; `LaunchR2C`, `LaunchC2R` | FFTW; the periodic solver |
| `Multiply`, `CopySolution` | the product in Fourier space, the copy to the component |

The arrays are flat and have the sizes they are allocated with; new memory holds junk where the code
does not clear it; a read outside gives a value that no number has.  The transforms of cuFFT,
rocFFT and FFTW are external: the sums they are documented to compute.

## Runs

| Run | Instance | Shows |
|---|---|---|
| `ring` | 3 ranks, 4 steps, 1 particle, slip 0-2, late completion of sends | `SomeRankGoes`, `BufferIntact`, `GhostSliceExact`, `ImplementsWavefront`, `AllStepsDone` |
| `beam` | 2 ranks, 4 steps, 2 particles, slip 0-1, small messages copied at once | `TypeOK`, `PushedOncePerStep`, `NoParticleTwice`, `NoParticleLost`, `TimeOfStep`, `ChannelsExact` |
| `skip_empty_comms` | 3 ranks, 3 steps, option on | `AllStepsDone` is violated |
| `plasma_time` | 2 ranks, 3 steps | `PlasmaTimeOfStep` is violated |
| `adaptive` | 3 ranks, 5 steps, 2 particles, slip 0-1 | `BeamAtTime`, `DtFromWholeBeam`, `SameFirstDt`, `AllStepsDone` |
| `adaptive_one_rank` | 1 rank, 3 steps, MPI build | `BeamAtTime` is violated |
| `slices` | 6 slices, 2 steps, up to 2 iterations; both solvers, all options on one level, and two levels | the nine properties of `SliceSolver` |
| `plasma` | 2 cells, 2 slices, 2 steps, up to 2 iterations; both solvers, neutral and ionized ions | `ElectronsOfIons`, `StaysInDomain`, `IonizationKeepsCharge`, `StepStartsAlike`, `LostStaysLost` |
| `output` | 2 by 1 by 12 cells, 1 to 3 ranks, 4 steps, none to two beams of every injection | `SlotsWrittenOnce`, `UniqueIds`, `InjectsTheSame`, `EachParticleOnce`, `DumpOfOneTime`, `FieldsInterpolated`, `RestartKeepsBeam` |
| `output_ids` | 2 ranks, 2 steps, a beam of two particles | `IdsOfRows` is violated |
| `poisson` | boxes of 1 to 5 cells across, odd and even, 2 solves; four libraries | `KernelsInBounds`, `SineTransformed`, `PoissonSolved`, `PeriodicSolved` |
| `periodic_modes` | a 4 by 3 box, 1 solve | `LaplacianIsSource` is violated |

Bounds.  Three ranks are the least for which the two neighbours of a rank differ; four steps make
the ring wrap (the head rank solves step 0 and step 3) and put the last step on a rank that others
outlast.  The `beam` run has two ranks so that all placements of two particles (same slice, same
box, different boxes, out of the domain) fit.  `MaxSlip` 2 lets a particle cross a whole box in one
push.  Channels need no bound: a rank cannot be further ahead than the boxes it was sent.  In
`adaptive` five steps let two ranks take a second step, with a dt of their own, and two particles let
a box of a step be empty, or the whole of it once both have left.

In `slices` six slices fill the five force terms and shift the first one out; the second step shows
what a first one leaves behind, the second iteration what the first one does; the patch of
level 1 leaves out a slice at each end, so that the level is entered and left.  The two levels are
checked with tiling off, see "Known deviations".

In `plasma` two cells are the least in which a particle can move, stay, leave, and be in the cell of
another; the second slice is ionized with the electrons of the first one there, the second step
starts after both.  Periodic boxes are checked with the explicit solver only, see "Known deviations".

In `output` boxes have 12, 6 or 4 slices; coarsenings that divide the box, or for one rank any; four
steps let each of three ranks dump, the last step and periods of 1 to 3 included.  Two beams let one be
dumped and the other not, and share identifiers if these were handed out wrongly.  One simulation has no beams: it
begins its steps at once.

In `poisson` the prime is 241, so that the angles of boxes of 1 to 5 cells exist.  A solve is linear in
source and boundary values: the first one has one of them set, for every cell and every guard cell,
so all sources are covered; the second one has all set and finds in memory what the first one left.
The tile of `Transpose` is 2 wide instead of 32, so that boxes have several blocks and partial ones.

Fairness.  Weak fairness of each rank: a rank is an operating-system process that runs unless MPI
blocks it.  Nothing else is assumed; in particular sends are not assumed to complete unless they
were eager or received; in `TimeStep` the blocking send of the first dt may return early, and is only
sure to return once the dt is received.  The other modules are of one sequential rank and check safety
only.  `Terminating` or `Done` makes the end of a run a stuttering step, so that deadlock is checked in
all passing runs.

### What the violations show
* `skip_empty_comms`: `Wait` for the ghost slice of box `it-1` tests box `it`, `Notify` for it tests
  box `it-1`.  With the leftmost occupied box at `k >= 1` the receiver at box `k` waits for a message
  that was skipped.
* `plasma_time`: the density table is looked up at the head of the step, with the time the rank had
  at the end of its previous step; the time of the step arrives in the first `Wait`.
* `adaptive_one_rank`: with one box per step the first box is the last.  `Calculate` has replaced
  `m_dt` when the time for the next step is sent (or, without MPI, advanced), so the time moves by the
  dt that comes next, while the beam was pushed with the one before.
* `output_ids`: positions and momenta of a box are read from its offset in the sorted tile,
  identifiers from the start of the tile.
* `periodic_modes`: the condition that avoids a division by zero drops all modes with one wave number
  equal to 0.  `PeriodicSolved` of the passing run says what the solver does instead.

### Known deviations
Met while modelling, outside of what the passing runs instantiate and without a run of their own:
* `boxes_in_z > 1`, one MPI rank: the ghost slice is never sent (`Hipace.cpp:434`) but is received
  (`Hipace.cpp:440`).  Without MPI nothing removes a solved box from the tile, and a particle that
  fell back is pushed again (`Hipace.cpp:411`).  `AdaptiveTimeStep.cpp:73` and `OpenPMDWriter.cpp:213`
  reset their sums and offsets at `NProcs()-1`, which then is box 0, the last one.
* A beam whose finest level is 1 is not pushed in slices outside the patch
  (`BeamParticleAdvance.cpp:18`, `Hipace.cpp:482`).
* `TileSort` looks for particles on level 0 only (`MultiPlasma.cpp:161`) and bins them with the
  geometry of the level being solved: with tiling, a plasma on level 1 is in no bin, and particles
  of level 0 outside the patch get no valid tile.
* The ions of all plasmas are deposited with the geometry of level 0 (`Hipace.cpp:402`), those of a
  plasma on level 1 too.
* `MultiBeam::InitData` overwrites the initial time with that of each beam; `parameters.rst:406-407`
  says a restart continues from the time of the file.
* A periodic box with the predictor-corrector solver: `x_prev` is stored before the particle is moved
  into the box (`PushPlasmaParticles.H:111`), so `ResetParticles` puts it outside.
* `do_symmetrize` reserves a quarter of the identifiers it uses; the next species gets some of them.
* `random_ppc` with `min_density`: both kernels draw a position, and may disagree on whether it counts.
  `beam_injection_cr` that does not divide the cells injects outside of the domain.
* Coarsened output whose ratio does not divide the length of a box: two boxes store the same cell.
* A dump has a row for every initial particle; the rows of lost ones are never written, and a restart
  reads them.  Without `openPMD_species_name` and a species of the beam's name, the last species of
  the file is read.
* The prefactors of ionization are read past their end for an ion that has lost all its electrons.

## Proofs

All theorems are about `Spec` of their module for every value of the constants; tlapm checks every
leaf.

### Pipeline
`PipelineProofs` and, on top of it, `PipelineBeamProofs` assume of the constants `PipelineAssumption` of `Pipeline`:
at least one rank, no more ranks than steps, several boxes only on one rank, as the constructor
asserts, and one rank without MPI.

* `TypeCorrect`: `Spec => []TypeOK`, from that assumption alone.  It is inductive as it stands.  The
  lemma `LeftmostType` in it, that the scan for the leftmost occupied box ends at a box of the domain,
  is what keeps `skip_empty_comms` in range.
* All others assume `Usual` as well: MPI, one box per rank, `skip_empty_comms` off.  The run
  `skip_empty_comms` and the deviations above show why; without MPI there are no messages.

The argument about messages.  The code relies on order only: no message says which box of
which step it is for.  The labels that the model puts on messages (no action reads them) make this
statable.  `MessageMatches` alone is not inductive, since it says nothing of the messages behind the
first.  `ChannelsExact` says everything: between rank `r` and its upstream rank are, for each kind,
exactly the messages from the one the receiver takes next up to the one before the sender's next,
labelled one after the other (`Chain`), and each count above zero is paired with a particle message
(`Paired`).  The position of a rank for one kind (`SendPos`, `RecvPos`) is the label of the message it
sends or receives next, computed from its `step`, `box` and `pc`.  A rank in step `s` receives what its
upstream sent in step `s-1`; the ring closes because the steps of a rank are `N` apart.
The invariant is `MessageInv`: `TypeOK`, the control part (`ControlOK`: which `pc` goes with which box
and step) and `ChannelsExact`.  Each action moves at most one position by one and adds or removes the
message there.

* `ChannelsAreExact`, `MessagesInOrder`: as above; the second is `MessageMatches`, what a receive finds at the head
  of the chain.  It follows from `ChannelsExact`, which the run `beam` checks, and has no run of its own.
* `BuffersIntact`: a buffer is written only after `NotifyFinish` has waited for the send from it, except
  that the destructor waits for counts and particles, not for the time.  The counts of a box are sent
  after the time, and received after it, so a completed send of the last counts of the step leaves no
  time in the channel; this needs `ChannelsExact` too.
* `TimeIsOfStep`: the time in a message is the number of its step, and the receive takes it with the
  first box.

The refinement, `PipelineFollowsFront`: `Spec => Front!WSafety`, where `Front` is `Wavefront` with the
cells that ranks have solved.  `SolveHead` maps to `SolveHeadSlice`, `SolveTail` to `SolveTailSlice`, all
else stutters.  The box ahead is complete because a rank works from box `N-1` down.  That the step before
is done with the box is what the received message says: the position of the upstream rank is past
that box, by `ChannelsExact`, and that upstream has had step `s-1` at all is `StepsDealt` (step `s` is of
rank `N-1-s % N` for ever), with arithmetic on remainders.  For the tail slice it is the ghost message.

The beam, `PipelineBeamProofs`:
* `PushesOncePerStep`: `AgeInv` says what age the particles of the tile have by the box they are in: one
  push per step before, one more behind the current box in this step; and that a particle message has
  the particles of its box, once more pushed.
* `ParticlesInOnePlace`: `OnePlace` says that two spots (the tile, its bins, a message) never hold the
  same particle.  In `SpotsMove` every action maps the spots after it to spots before it one to one,
  so it is inductive.  The last step, which sends nothing, and particles out of the domain
  (`MayGo`) are where a spot ends.
* `NoneLost`: read in the other direction the same map shows that only such particles go.
* `GhostsAreExact`: what a rank left in the head slice of a box (`Left`), in its bin or in its particle
  message, is what its ghost message says, until downstream has solved the tail slice ahead of it.
  `SentInv` bounds how old a message in flight can be, `GhostsTrue` is about the ghost messages in
  flight, `GhostsOK` about the ghosts received and the slice the tail deposited.
* `RingGoesOn`: `SomeRankGoes`, the ranks never all wait for one another.  `AwaitsUpstream` and `AwaitsDownstream`
  spell out when an `MPI_Recv` and the `MPI_Wait` of a send cannot return.  `Reached` measures how far a rank is,
  a step counting as much as a box.  By `ChannelsExact` an empty channel tells where its sender is, and a message in
  flight (`SentInv`) where its receiver can be at most: the rank waited for, upstream (`UpstreamIsBehind`) or
  downstream (`DownstreamIsBehind`), has not reached as far.  So the busy rank that is furthest behind goes on.  This
  is why the blocking calls of a closed ring do not deadlock even if MPI completes no send before its receive.
  That the guards of the actions are what `Blocked` denies is beyond the prover (`ENABLED`): on the instance of `ring`
  TLC checks deadlock as well as `SomeRankGoes`.  That every step is done is liveness, `AllStepsDone`.

### TimeStep
`TimeStepProofs` assumes `TimeStepAssumption` and, but for the last theorem, `Several`: more than one
rank.  With one rank the box that is first is also last, and the run `adaptive_one_rank` shows that
`BeamAtTime` is violated there.  The labels `step` and `box` of messages are as in `Pipeline`; no action
reads them.

`Base` (`TypeOK`, `ControlOK`, `StepsDealt`, `ChannelsExact`) is as in `Pipeline`, but a rank may be in its
first exchange while others have passed it, and a time travels a whole round ahead of its last beam.
* `BeamIsAtTime`: `TimeInv` says that there is one sequence of times `T`, a time for each step, such that
  all that belongs to a step has its time (the ranks, their beams, the particles and times in
  messages), and that the dt a rank pushes with is the difference of two of them.  The sequence is a
  bound variable of the invariant: when the first box of a step has been solved, its next element is
  fixed, and `T` is replaced by one that has it.
* `DtIsOfWholeBeam`: `DtInv` says that the sums of a rank are those of the boxes of its step so far,
  that steps it has yet to do have none, and that its dt is of a step it has done, or the first one.
* `FirstDtIsSame`: `FirstInv`, that one dt is that of all ranks which have the first one and of every
  message of the exchange.  For one rank there is nothing to compare.

### SliceSolver
`SliceSolverProofs` assumes `SliceSolverAssumption`, which is about the input parameters that are
modelled, and hypotheses that the theorems name, each for a deviation above:
* `TiledOnOneLevel`, of all theorems: with tiling there is one level (`TileSort`).
* `BeamInPatch`, of the theorems about sources: a beam whose finest level is 1 has a patch of all slices,
  else it is not pushed outside of it.
* For Psi, plasmas are on level 0: the ions of a plasma of level 1 are deposited with the geometry of
  level 0.

The runs' input parameters satisfy all three.  `SliceInv` has five parts.  `TypeOK` and `ControlOK`: which
parts belong to which solver, and that all levels with the slice are solved before `ShiftSlices`.
`FieldsOK`: the arrays of each level have the fields of definite slices (`ThisHolds`, `PreviousHolds`,
`Newest`), or nothing where the level has no such slice.  It speaks of levels that have a slice here or
below (`Ahead`): once the patch is passed, its arrays keep old fields that nothing reads.  `PlasmaOK`:
pushes are counted by the slices of the level, and the five force terms are of the last five slices.
`BinsOK`.  The parts lean on each other: that a force term is of one slice and final needs the
fields it is gathered from, which need the order of the parts.

What makes the arrays tractable is one lemma per operation on them (`SetZeroEffect`, `AddEffect`,
`CopyEffect` and so on), which says by name what each component holds afterwards, and one per action
(`ClearFields` to `ShiftSlicesFields`): only these know of indices.  That runs of components shifted
between arrays of different layouts meet the right ones is proved there (`ShiftLevelEffect`).

* `GuessesFromSlicesBefore`, `CoarseFieldsAreFinal`, `SlicesAreSolved`, `ForcesAreOfLastSlices`,
  `BinsAreReady` follow from `SliceInv`.
* `PsiSourceIsExact`, `EzBzSourceIsExact`, `BxBySourceIsExact`, `ExplicitSourceIsExact` need `CurrentInv`
  on top: the beam has been pushed once per step down to this slice (`BeamOK`); the arrays of a level
  have the currents of definite slices (`CurrentsOK`) or none; in each part of the solver the sums are
  those of the currents deposited so far (`SourcesOK`), the ions once on the grid (`RhoIonsOK`).  Sums
  are bags, so it rests on lemmas about bags: what is added and taken out again leaves no trace
  (`SumMinus`, for the ions), and the order of additions does not matter.

### PlasmaParticles
`PlasmaParticlesProofs` assumes `PlasmaParticlesAssumption` only.  The invariant is `Inv`: each tile is a
sequence of particles with its initial ones first, each in the slot of its cell (`TileOK`), and every
valid particle is in the box, its `x_prev` too unless the box is periodic (`ParticleOK`).  `x_prev` is
part of it because a temporary push starts there and the reset after the loop goes there.  That
`InitParticles` finds a cell for every slot is `NthCellExists`, proved from the least element of a set
of natural numbers.  `Keeps` says what a step within a time step does to the tiles: initial positions
stay, an invalid particle stays invalid and is not ionized.
* `ParticlesStayInDomain`: `StaysInDomain`, if every configuration that is periodic uses the explicit
  solver (`Bounded`); the deviation on `x_prev` above shows why.
* `LostParticlesStayLost`, `StepsStartAlike`: the action properties, without further assumption.
* `OneElectronPerLevel`: `ElectronsOfIons`, inductive beside `TileOK`.  `IonizationStep` says what an ionization
  is, whatever order the threads take the slots in: a one-to-one map from the ionized ions to the slots
  behind the electrons.  `IonizationAdds` sums any quantity of ions and of electrons over it: if it
  rises by as much per ion as it has per new electron, both sums rise by the same.  It is cited once
  with levels and electrons by initial cell, and by
* `ChargeIsKept`, `IonizationKeepsCharge`, once with levels times weights by present cell.

### Sums
`SumLemmas` has the facts about `SumFunctionOnSet` that the proofs above and below need: a sum exists, does not
depend on the order, splits over unions, adds up, and is carried along one-to-one maps.  The library's induction
theorems cannot be instantiated with the provers at hand; a statement about all finite sets is shown by its
least counterexample instead (`LeastNumber`, `MinimalSubset`, from the well-foundedness of `<` and of strict
inclusion).

### PoissonSolver
`PoissonSolverProofs` assumes `SolverAssumption` and is independent of the arithmetic: `SizesKept` says
that the arrays have the sizes they were allocated with, that the kernel is one of `Kernels`, and that
nothing was read or written outside.  One lemma per kernel bounds its indices, for odd and even rows;
`RoomForBothPasses` is the fact that one allocation is enough for rows and for columns.
* `SolverStaysInBounds`: `KernelsInBounds`, for boxes of any size and any number of solves.

### OpenPMDWriter
`OpenPMDWriterProofs` assumes `InjectionAssumption` and `WriterAssumption`: the types of the input parameters, and what
`PostProcessBaseGrids` and `WriterAssumption` say of boxes.  All seven properties of the run are theorems.  What they
assume beyond holds of all simulations of the run:

| Hypothesis | Says | Why |
|---|---|---|
| `CoarseningFits` | the coarsening divides a box, or there is one box | otherwise two boxes store the same cell, a deviation above |
| `WithMPI` | the build is one for several ranks | without MPI nothing removes a solved box from the tile, a deviation above |
| `BoxPerRank` | one box per rank | the offsets of a dump are reset at `NProcs()-1`, a deviation above |
| `OneDraw` | a randomly spaced beam has no layer where its density may be too low | each kernel draws there for itself, a deviation above |
| `SymmetrizedLast` | a symmetrized beam is the last one | it reserves a quarter of its identifiers, a deviation above |

* `FieldsAreInterpolated`: `FieldsInterpolated`, if `CoarseningFits`.  `FieldOK` says which coarse cells of a dump
  are written: those of the boxes from the present one on, each the interpolation (`Interpolated`) already.  One box is
  `BoxIsInterpolated`: the slices of a box contribute to just the cells of the box (`SliceInBox`), the range of
  cells a slice is copied to, which is rounded, has all that it contributes to (`SliceIsNear`), and the
  weights are those of the hat function (`RelZIsHat`).  All are arithmetic of quotients (`QuotientBounds`).

The injection.  `InjectedOK` holds in every state without a hypothesis: where the program is (`Control`), how many beams
have been injected and that each has a tile and a total, that the slots which `FillFixedPPC` finds are those of a count
(`InjectionOK`), and that data sets are sequences (`PositionsOK`).
* `SlotsAreWritten`: `SlotsWrittenOnce`, if `OneDraw`.  Accepted particles are ordered by cell and then by number.  In
  any finite order the ranks are the numbers from 0 on, each once (`RanksAre`); the scan of the counts gives a cell the
  number of particles in the cells before it (`OffsetsAre`, from `CountsOfKeys` and from cells having different
  numbers, `CellsDiffer`), so a slot is a rank (`LatticeOnce`).  `WeightedOnce` and `ReadOnce` are the other injections.
* `IdsAreUnique`: `UniqueIds`, if `SymmetrizedLast`.  `IdsOK` adds that as long as beams are injected the identifiers of
  the beams before are below `nextID`.
* `CoarseInjectionIsSame`: `InjectsTheSame`, without a hypothesis.  `SameOK` says that what is written to a tile of
  evenly spaced particles is `Injected`.  Cell by cell and particle by particle the lattice is the grid of all
  numbers below cells times particles per cell (`PositionsAre`, `PointsAre`); the grid of the coarse cells has that of
  the domain in it, and the rest of it is outside (`FinePoints`).

The dumps.  `BeamsOK` adds four parts to `InjectedOK`, preserved together:
`PlacesOK`, where particles are: in the tile with the age of the step or the one before, by the box they are in, or
`Away` on another rank (`HereOK`, `AwayOK`), and that the slots of a tile are sorted by box while boxes are written
(`SortedOK`); `TimeOK`, when `physicalTime` is that of the step; `DumpOK`, that no two rows of a data set are equal;
`RowsOK`, that a row of the dump that is being written is a particle of one of the boxes written so far, with this step.
* `DumpIsOfOneTime`: `DumpOfOneTime`, if `WithMPI`.
* `EachIsDumpedOnce`: `EachParticleOnce`, if `WithMPI`, `OneDraw` and `BoxPerRank`.  `RowsOK` says that there is nothing
  in a dump but its particles; `CompleteOK` is the other direction, and that the rows so far have no gaps.  It needs
  that a chunk fits behind the ones before (`ChunkFits`): all rows are different particles of the tile, which are no more
  than the total, and this is the number of slots with an identifier, by `SlotsAreWritten` all.
* `RestartIsDump`: `RestartKeepsBeam`, if `WithMPI`.  `ReadOK` says that the file has the dump and a tile that was read
  holds its rows one to one; `UnitRules` are the laws of exponents that `SameUnits` follows from.

## Only model-checked

* Liveness, `AllStepsDone` of both modules and the fairness in `ImplementsWavefront`: out of the prover's
  reach.
* `SineTransformed`, `PoissonSolved`, `PeriodicSolved`: identities of sums of sines, checked for all
  sources of the given boxes.  Such a sum is `MapThenSumSet` of an operator, and no fact about all operators can be
  cited with the provers at hand.
* The violations: a counterexample on one instance is enough.

## Not modelled, and why

* The multigrid solver: it is AMReX's, and only called.
* Shape functions, gathers, pushers, density profiles and the weights of the boundary of level 1 as
  formulas, and the rounding of any formula: floating-point numerics, on which a finite-state model
  decides nothing.  The boundary of rho on level 1 is left out too (`CoarseBoundary`).
* Level 1, slice output and metadata of the output; `ErrorEst` and `DefineSliceGDB`; more than one rank
  across: the next extensions of `OpenPMDWriter`.
* Input, parser, constants: they run once and keep nothing; what they may yield is in the assumptions.
* Widths of the integers in messages: a hazard in `PROJECT.json`.
* GPU execution: kernels are taken as whole, their atomics as sums or as slots in any order.
