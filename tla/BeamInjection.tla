---------------------------- MODULE BeamInjection ----------------------------
(***************************************************************************)
(* The particles a simulation starts with, species by species, on the head *)
(* rank: particles per cell, counted by one kernel and written by another; *)
(* a number of particles, which may be symmetrized; or the particles of an *)
(* openPMD file.                                                           *)
(*                                                                         *)
(* Abstractions.  The lattice points of the fixed_ppc injection have       *)
(* coordinates, in units of half the distance of two points; the density   *)
(* profile is the layers of cells in which it is below min_density.  Of a  *)
(* random position only its cell is known.  Units are exponents of their   *)
(* factors.  Of the names in a file only those of the species matter: each *)
(* species has one record of every kind.                                   *)
(***************************************************************************)
EXTENDS Integers, Sequences, FiniteSets, Functions

CONSTANTS
    NCells,     \* cells of the domain in x, y and z
    Simulations \* the inputs of a run and of a restart from its output

\* The parameters of a beam: particles per cell, of a number of particles, or
\* of a file.
FixedPPC ==
    [injection : {"fixed_ppc"}, ppc : [1 .. 3 -> Nat \ {0}], cr : Nat \ {0},
     random : BOOLEAN, zmin : Int, zmax : Int, radius : Nat, thin : SUBSET Int]

FixedWeight == [injection : {"fixed_weight"}, num : Nat, symmetrize : BOOLEAN]

FromFile ==
    [injection : {"from_file"}, iteration : Int, species : Nat, specified : BOOLEAN]

BeamParameters == FixedPPC \union FixedWeight \union FromFile

ASSUME InjectionAssumption ==
    /\ NCells \in [1 .. 3 -> Nat \ {0}]
    /\ \A c \in Simulations : /\ c.beams \in Seq(BeamParameters)
                             /\ c.restart \in Seq(BeamParameters)

VARIABLES
    conf,         \* the inputs, constant
    pc,           \* the next part of the program
    species,      \* the beams being injected, a sequence of parameters
    ibeam,        \* the beam being injected
    offsets,      \* offsets of the cells, from the scan of the counts
    tile,         \* the slots of every beam
    outside,      \* slots behind the end of a tile that were written
    nextID,       \* what ParticleType::NextID() returns next
    total,        \* m_total_num_particles of every beam
    initialTime,  \* m_initial_time
    file          \* the openPMD file read: a set of iterations

injectionVars ==
    <<species, ibeam, offsets, tile, outside, nextID, total, initialTime>>

-----------------------------------------------------------------------------
(* Slots                                                                   *)

\* A slot of a tile: its identifier, 0 if it has none, and what was written.
Unwritten == [id |-> 0, written |-> {}]

\* AddOneBeamParticle, for a set of writes <<slot, what>>, slots from 0.
AddBeamParticles(slots, pid, writes) ==
    [k \in DOMAIN slots |->
        LET W == {w \in writes : w[1] = k - 1}
        IN  IF W = {} THEN slots[k]
            ELSE [id |-> pid + k - 1, written |-> {w[2] : w \in W}]]

\* A tile of n slots, none written yet.
Resized(n) == [k \in 1 .. n |-> Unwritten]

\* TotalNumberOfParticles: the valid particles of all ranks; only the head
\* rank has any.
TotalNumberOfParticles(slots) == Cardinality({k \in DOMAIN slots : slots[k].id > 0})

-----------------------------------------------------------------------------
(* Particles per cell                                                      *)

\* The coarsened domain and particles per coarse cell: x and y by cr.
CoarseningRatio(sp) == <<sp.cr, sp.cr, 1>>

CoarseCells(sp) == [d \in 1 .. 3 |-> (NCells[d] - 1) \div CoarseningRatio(sp)[d] + 1]

\* Faulty variant of CoarsePPC: larger cells with as many particles.
SamePPC(sp) == sp.ppc

CoarsePPC(sp) == [d \in 1 .. 3 |-> sp.ppc[d] * CoarseningRatio(sp)[d]]

CellsOf(sp) ==
    LET n == CoarseCells(sp) IN (0 .. n[1] - 1) \X (0 .. n[2] - 1) \X (0 .. n[3] - 1)

CellId(sp, c) == LET n == CoarseCells(sp) IN (c[1] * n[2] + c[2]) * n[3] + c[3]

NumPPC(sp) == LET n == CoarsePPC(sp) IN n[1] * n[2] * n[3]

\* get_position_unit_cell: where in a cell with n particles in x, y and z the
\* i-th of them is.
PositionInCell(n, i) ==
    <<i \div (n[2] * n[3]), (i % (n[2] * n[3])) % n[2], (i % (n[2] * n[3])) \div n[2]>>

\* The lattice point of particle i of cell c.
LatticePoint(sp, c, i) ==
    LET n == CoarsePPC(sp)
    IN  [d \in 1 .. 3 |-> 2 * (c[d] * n[d] + PositionInCell(n, i)[d]) + 1]

\* Inside of zmin, zmax and radius, p in half lattice distances.
InRange(sp, p) ==
    LET X == p[1] - NCells[1] * sp.ppc[1]
        Y == p[2] - NCells[2] * sp.ppc[2]
    IN  /\ 2 * sp.ppc[3] * sp.zmin <= p[3] /\ p[3] < 2 * sp.ppc[3] * sp.zmax
        /\ X * X + Y * Y <= sp.radius * sp.radius

\* Evenly spaced particles are discarded one by one, randomly spaced ones by
\* the lower corner of their cell.
Kept(sp, c, i) ==
    InRange(sp, IF sp.random THEN [d \in 1 .. 3 |-> 2 * c[d] * CoarsePPC(sp)[d]]
                             ELSE LatticePoint(sp, c, i))

Candidates(sp) == {p \in CellsOf(sp) \X (0 .. NumPPC(sp) - 1) : Kept(sp, p[1], p[2])}

\* The particles whose density is not below min_density.  A random position
\* in a layer where that may be so is drawn by each kernel for itself.
Accepted(sp) ==
    LET Thin == {p \in Candidates(sp) : p[1][3] \in sp.thin}
    IN  IF sp.random THEN {Candidates(sp) \ T : T \in SUBSET Thin}
                     ELSE {Candidates(sp) \ Thin}

\* Faulty variant of Counts: the particles of the whole lattice are counted.
CountsOfLattice(sp, A) == [c \in {CellId(sp, c) : c \in CellsOf(sp)} |-> NumPPC(sp)]

\* pcount: how many particles of a cell are accepted.
Counts(sp, A) ==
    [id \in {CellId(sp, c) : c \in CellsOf(sp)} |->
        Cardinality({p \in A : CellId(sp, p[1]) = id})]

ExclusiveSum(counts) ==
    [c \in DOMAIN counts |-> SumFunctionOnSet(counts, {d \in DOMAIN counts : d < c})]

\* What the second kernel writes: the particles of a cell one after the other.
Writes(sp, A) ==
    {<<offsets[CellId(sp, p[1])] - offsets[0]
         + Cardinality({q \in A : q[1] = p[1] /\ q[2] < p[2]}),
       IF sp.random THEN p[1] ELSE LatticePoint(sp, p[1], p[2])>> : p \in A}

-----------------------------------------------------------------------------
(* Units                                                                   *)

\* kp: skin depth, n: plasma density, of the run that writes a file or as given
\* to the beam that reads it; dx: volume of a cell; c: speed of light; m: mass.
Factors == {"kp", "n", "kp given", "n given", "c", "m", "dx written", "dx read"}

One == [f \in Factors |-> 0]
Factor(f) == [One EXCEPT ![f] = 1]
Times(u, v) == [f \in Factors |-> u[f] + v[f]]
Over(u, v) == [f \in Factors |-> u[f] - v[f]]
Power(u, k) == [f \in Factors |-> k * u[f]]

\* What the units of the run that writes a file are made of, and those of the
\* run that reads it: the density is the one of the file unless the beam has one.
OfWriter == [kp |-> "kp", n |-> "n", dx |-> "dx written"]
OfReader(given) == [kp |-> IF given THEN "kp given" ELSE "kp",
                    n |-> IF given THEN "n given" ELSE "n", dx |-> "dx read"]

\* InitBeamFromFile aborts in normalized units when the beam has no density
\* and neither has the file, which only a run in normalized units writes.
DensityKnown(writer, reader, given) == reader => writer \/ given

WeightUnit(run) == Times(Times(Factor(run.n), Factor(run.dx)), Power(Factor(run.kp), 3))

\* Faulty variant of ReferenceUnits: momenta are in units of m_e c throughout.
ReferenceUnitsOfMomentum(normalized) ==
    [position |-> IF normalized THEN Factor("kp") ELSE One,
     momentum |-> Times(Factor("m"), Factor("c")),
     weight |-> IF normalized THEN WeightUnit(OfWriter) ELSE One]

\* The SI units SetupPos writes next to the data of a dump, for the units of
\* the simulation.  Those of momentum are not the unitSI of the record.
ReferenceUnits(normalized) ==
    [position |-> IF normalized THEN Factor("kp") ELSE One,
     momentum |-> IF normalized THEN Times(Factor("m"), Factor("c")) ELSE Factor("m"),
     weight |-> IF normalized THEN WeightUnit(OfWriter) ELSE One]

\* The factors InitBeamFromFile multiplies the data with: momenta are divided
\* by m_e c and then multiplied by the speed of light of this run.
UnitsRead(reference, normalized, run) ==
    [position |-> Over(reference.position, IF normalized THEN Factor(run.kp) ELSE One),
     momentum |-> Times(Over(reference.momentum, Times(Factor("m"), Factor("c"))),
                        IF normalized THEN One ELSE Factor("c")),
     weight |-> Over(reference.weight, IF normalized THEN WeightUnit(run) ELSE One)]

\* The SI value of the number 1 in a simulation.
SimulationUnits(normalized, run) ==
    [position |-> IF normalized THEN Factor(run.kp) ELSE One,
     momentum |-> IF normalized THEN Times(Factor("m"), Factor("c")) ELSE Factor("m"),
     weight |-> IF normalized THEN WeightUnit(run) ELSE One]

-----------------------------------------------------------------------------
(* Injection                                                               *)

Beam == species[ibeam]

InjectionInit ==
    /\ conf \in Simulations
    /\ pc = IF conf.beams = <<>> THEN "injected" ELSE "inject"
    /\ species = conf.beams
    /\ ibeam = 1
    /\ offsets = <<>>
    /\ tile = <<>>
    /\ outside = {}
    /\ nextID = 1
    /\ total = <<>>
    /\ initialTime = 0
    /\ file = {}

\* Faulty variant of NextIDAfter: one identifier is reserved.
NextIDAfterOne(pid, n) == pid + 1

\* NextID(pid + n): n identifiers are reserved, from pid = NextID() on.
NextIDAfter(pid, n) == pid + n

\* The end of InitData of a beam, with its tile and time: the next beam, or
\* the rest of the program.  MultiBeam::InitData overwrites the time of the
\* beams before.
BeamDone(slots, ptime) ==
    /\ tile' = Append(SubSeq(tile, 1, ibeam - 1), slots)
    /\ total' = Append(total, TotalNumberOfParticles(slots))
    /\ initialTime' = ptime
    /\ ibeam' = ibeam + 1
    /\ pc' = IF ibeam < Len(species) THEN "inject" ELSE "injected"

\* InitBeamFixedPPC up to the resize: the first kernel and the scan.
CountFixedPPC ==
    /\ pc = "inject"
    /\ Beam.injection = "fixed_ppc"
    /\ \E A \in Accepted(Beam) :
           LET counts == Counts(Beam, A)
           IN  /\ offsets' = ExclusiveSum(counts)
               /\ LET slots == Resized(SumFunction(counts))
                  IN  IF slots = <<>>
                      THEN BeamDone(slots, 0)
                      ELSE /\ tile' = Append(tile, slots)
                           /\ pc' = "fill"
                           /\ UNCHANGED <<ibeam, total, initialTime>>
    /\ UNCHANGED <<conf, species, outside, nextID, file>>

\* The rest of InitBeamFixedPPC: identifiers are reserved, the second kernel.
FillFixedPPC ==
    /\ pc = "fill"
    /\ \E A \in Accepted(Beam) :
           LET W == Writes(Beam, A)
               slots == tile[ibeam]
           IN  /\ BeamDone(AddBeamParticles(slots, nextID, W), 0)
               /\ outside' = outside \union {w[1] : w \in {v \in W : v[1] >= Len(slots)}}
               /\ nextID' = NextIDAfter(nextID, Len(slots))
    /\ UNCHANGED <<conf, species, offsets, file>>

\* The slot of image j of particle i.
SymmetrizedSlot(sp, i, j) == IF sp.symmetrize THEN 4 * i + j ELSE i

\* InitBeamFixedWeight: num_to_add is a quarter of the particles with
\* do_symmetrize, and that many identifiers are reserved.
InjectFixedWeight ==
    /\ pc = "inject"
    /\ Beam.injection = "fixed_weight"
    /\ LET num == IF Beam.symmetrize THEN Beam.num \div 4 ELSE Beam.num
           images == IF Beam.symmetrize THEN 4 ELSE 1
           W == {<<SymmetrizedSlot(Beam, i, j), <<i, j>>>> :
                    i \in 0 .. num - 1, j \in 0 .. images - 1}
       IN  /\ BeamDone(AddBeamParticles(Resized(images * num), nextID, W), 0)
           /\ nextID' = NextIDAfter(nextID, num)
    /\ UNCHANGED <<conf, species, offsets, outside, file>>

\* The iteration asked for.
IterationOf(sp) == {i \in file : i.iteration = sp.iteration}

\* InitBeamFromFileHelper: the species asked for by openPMD_species_name, or
\* by the name of the beam; without the former any will do, and the last one
\* in the file is read.
SpeciesRead(sp, iter) ==
    LET names == DOMAIN iter.data
    IN  IF sp.species \in names THEN {sp.species}
        ELSE IF sp.specified THEN {} ELSE {n \in names : \A m \in names : m <= n}

\* InitBeamFromFile: as many particles as the records have rows, written or
\* not, with identifiers of their own.
InjectFromFile ==
    /\ pc = "inject"
    /\ Beam.injection = "from_file"
    /\ \E iter \in IterationOf(Beam) : \E name \in SpeciesRead(Beam, iter) :
           LET rows == iter.data[name].position
               W == {<<k - 1, rows[k]>> : k \in DOMAIN rows}
           IN  /\ BeamDone(AddBeamParticles(Resized(Len(rows)), nextID, W), iter.time)
               /\ nextID' = NextIDAfter(nextID, Len(rows))
    /\ UNCHANGED <<conf, species, offsets, outside, file>>

\* amrex::Abort: no such iteration, or no such species.
AbortFromFile ==
    /\ pc = "inject"
    /\ Beam.injection = "from_file"
    /\ \A iter \in IterationOf(Beam) : SpeciesRead(Beam, iter) = {}
    /\ pc' = "aborted"
    /\ UNCHANGED <<conf, injectionVars, file>>

InjectionNext ==
    \/ CountFixedPPC \/ FillFixedPPC \/ InjectFixedWeight
    \/ InjectFromFile \/ AbortFromFile
=============================================================================
