---------------------------- MODULE OpenPMDWriter ----------------------------
(***************************************************************************)
(* The dumps of one rank, from the injection of the beams to a restart     *)
(* from the last dump: which time steps are dumped, where the particles of *)
(* a box and the slices of a box go in the data sets of the time step, and *)
(* what a second simulation reads from them.                               *)
(*                                                                         *)
(* Abstractions.  Of the other ranks there are the beams they send, box by *)
(* box (Pipeline has the messages).  A position is a box: of the domain,   *)
(* or Lost outside of it; a push takes a particle one box back or out of   *)
(* the domain.  Ghost particles come after a dump and are gone before the  *)
(* next one.  There is one level, and the fields have one column of cells. *)
(* External, from their use: openPMD keeps what was stored in a data set   *)
(* when it is reset to the same extent.                                    *)
(***************************************************************************)
EXTENDS BeamInjection, SequencesExt

CONSTANT MaxStep   \* m_max_step

VARIABLES
    step,          \* time step
    it,            \* box
    physicalTime,  \* m_physical_time, in time steps
    box,           \* box of every particle <<beam, number>>
    from,          \* box it was sorted into last, by this rank or another
    age,           \* pushes so far
    here,          \* the beams' tiles on this rank: particles in their order
    counts,        \* m_box_counts of the box sorters
    series,        \* how many openPMD::Series were opened
    lastDumped,    \* m_last_output_dumped
    chunkOffset,   \* m_offset of the beams
    chunkSize,     \* m_tmp_offset of the beams
    fab,           \* m_F: the coarse cells of the box, as sets of contributions
    dump           \* the iteration of this time step

writerVars ==
    <<step, it, physicalTime, box, from, age, here, counts, series, lastDumped,
      chunkOffset, chunkSize, fab, dump>>

vars == <<conf, pc, injectionVars, file, writerVars>>

-----------------------------------------------------------------------------
(* Boxes                                                                   *)

\* numprocs_z and the rank of the head.
NProcs == conf.nprocs
HeadRank == conf.rank = NProcs - 1

\* PostProcessBaseGrids: boxes of equal length, one per rank or boxes_in_z.
NBoxes == IF conf.boxesInZ = 1 THEN NProcs ELSE conf.boxesInZ
BoxLength == NCells[3] \div NBoxes
SmallEnd(b) == b * BoxLength
BigEnd(b) == (b + 1) * BoxLength - 1

\* The numbers among the input parameters, and what is asserted of the boxes.
BoxesAllowed(c) ==
    LET n == IF c.boxesInZ = 1 THEN c.nprocs ELSE c.boxesInZ
    IN  /\ c.nprocs \in Nat \ {0} /\ c.rank \in 0 .. c.nprocs - 1
        /\ c.boxesInZ \in Nat \ {0} /\ c.coarsening \in Nat \ {0}
        /\ c.period \in Int \ {0}
        /\ c.boxesInZ > 1 => c.nprocs = 1
        /\ c.nprocs <= MaxStep + 1
        /\ NCells[3] % n = 0
        /\ NCells[3] \div n >= 3

ASSUME WriterAssumption ==
    /\ MaxStep \in Nat
    /\ \A c \in Simulations : BoxesAllowed(c) /\ c.dumped \subseteq DOMAIN c.beams

Boxes == 0 .. NBoxes - 1
Lost == NBoxes

Beams == DOMAIN conf.beams

\* Dump every m_output_period steps and after the last step; a negative period,
\* never zero, stands for no output.
IsOutputStep(s) == conf.period >= 0 /\ (s = MaxStep \/ s % conf.period = 0)

-----------------------------------------------------------------------------
(* Data sets                                                               *)

\* A data set of n rows, and a chunk stored in it from row offset on.  A
\* chunk that does not fit changes nothing: openPMD throws.
DataSet(n) == [k \in 1 .. n |-> <<>>]

Fits(data, offset, chunk) == offset + Len(chunk) <= Len(data)

StoreChunk(data, offset, chunk) ==
    IF Fits(data, offset, chunk)
    THEN [k \in DOMAIN data |-> IF k \in offset + 1 .. offset + Len(chunk)
                                THEN chunk[k - offset] ELSE data[k]]
    ELSE data

\* A new iteration has no data sets and no time yet.
NewIteration(s) ==
    [step |-> s, time |-> -1,
     position |-> [b \in Beams |-> <<>>],
     momentum |-> [b \in Beams |-> <<>>],
     id |-> [b \in Beams |-> <<>>],
     field |-> <<>>]

-----------------------------------------------------------------------------
(* Coarsened fields                                                        *)

\* Cells of the coarsened domain, and of a box of it.
NCoarse == (NCells[3] - 1) \div conf.coarsening + 1
CoarseBox(b) == SmallEnd(b) \div conf.coarsening .. BigEnd(b) \div conf.coarsening

\* The position of the centre of coarse cell k between the slices is Centre(k)
\* over Unit; Unit is also the denominator of all weights.
Unit == 2 * NCoarse
Centre(k) == (2 * k + 1) * NCells[3] - NCoarse

\* Faulty variant of RelZ: all of a coarse cell comes from one slice.
RelZNearest(k, i) == IF i = Centre(k) \div Unit THEN Unit ELSE 0

\* m_rel_z_vec: the shape factor of order 1 of coarse cell k at slice i.
RelZ(k, i) ==
    LET kcell == Centre(k) \div Unit
    IN  IF i = kcell THEN Unit - (Centre(k) % Unit)
        ELSE IF i = kcell + 1 THEN Centre(k) % Unit ELSE 0

\* The coarse cells slice i could contribute to, k_min to k_max: where slices
\* i-1 and i+1 are, rounded.
CoarseNear(i) ==
    ((2 * i - 1) * NCoarse) \div (2 * NCells[3]) .. ((2 * i + 3) * NCoarse) \div (2 * NCells[3])

\* ResizeFDiagFAB: the cells of the box, set to 0.
ResizeFDiagFAB(b) == [k \in CoarseBox(b) |-> {}]

\* FillDiagnostics of every slice of the box: Fields::Copy.
FillDiagnostics(F, b) ==
    [k \in DOMAIN F |->
        F[k] \union {<<step, i, RelZ(k, i)>> :
                        i \in {j \in SmallEnd(b) .. BigEnd(b) : k \in CoarseNear(j) /\ RelZ(k, j) # 0}}]

-----------------------------------------------------------------------------
(* Particles                                                               *)

\* The particles of beam b on this rank, and all that are not here.
Here(b) == {p \in DOMAIN box : p[1] = b /\ p[2] \in ToSet(here[b])}
Away == {p \in DOMAIN box : p[2] \notin ToSet(here[p[1]])}

CountOf(b, k) == counts[b][k]
OffsetOf(b, k) == SumFunctionOnSet(counts[b], {j \in 0 .. Lost : j < k})

\* The boxes a push may take a particle to.
PushedTo(k) == IF k = 0 \/ k = Lost THEN {k, Lost} ELSE {k - 1, k, Lost}

\* The orders a sort may leave a tile in: by box, within a box as the threads
\* happen to count.
SortedTiles(b) ==
    {s \in SetToSeqs(ToSet(here[b])) :
        \A i, j \in DOMAIN s : i < j => box[<<b, s[i]>>] <= box[<<b, s[j]>>]}

\* The particles of box k that another rank sends, in an order.
FromBox(b, k) ==
    SetToSeq({p[2] : p \in {q \in Away : q[1] = b /\ from[q] = k}})

-----------------------------------------------------------------------------
(* Time steps                                                              *)

WriterInit ==
    /\ InjectionInit
    /\ step = conf.nprocs - 1 - conf.rank
    /\ it = NBoxes - 1
    /\ physicalTime = 0
    /\ box = <<>> /\ from = <<>> /\ age = <<>> /\ here = <<>> /\ counts = <<>>
    /\ series = 0
    /\ lastDumped = -1
    /\ chunkOffset = [b \in Beams |-> 0]
    /\ chunkSize = [b \in Beams |-> 0]
    /\ fab = <<>>
    /\ dump = NewIteration(-1)

\* The box of the layer of cells of a particle of the first injection; other
\* particles may be anywhere, in the domain or not.
InitialBoxes(p) ==
    LET sp == conf.beams[p[1]]
        Layer(w) == IF sp.random THEN w[3] ELSE w[3] \div (2 * sp.ppc[3])
        InDomain(w) == sp.random \/ \A d \in 1 .. 2 : w[d] < 2 * sp.ppc[d] * NCells[d]
    IN  IF sp.injection # "fixed_ppc" THEN 0 .. Lost
        ELSE {IF InDomain(w) THEN Layer(w) \div BoxLength ELSE Lost :
                 w \in tile[p[1]][p[2]].written}

\* The beams are injected: all their particles are on the head rank.
EnterEvolve ==
    /\ pc = "injected"
    /\ file = {}
    /\ LET P == UNION {{b} \X DOMAIN tile[b] : b \in Beams}
       IN  /\ \E place \in [P -> 0 .. Lost] :
                  /\ \A p \in P : place[p] \in InitialBoxes(p)
                  /\ box' = place
                  /\ from' = place
           /\ age' = [p \in P |-> 0]
    /\ here' = [b \in Beams |-> [n \in IF HeadRank THEN DOMAIN tile[b] ELSE {} |-> n]]
    /\ counts' = [b \in Beams |-> [k \in 0 .. Lost |-> 0]]
    /\ physicalTime' = initialTime
    /\ pc' = "step"
    /\ UNCHANGED <<conf, injectionVars, file, step, it, series, lastDumped, chunkOffset,
                   chunkSize, fab, dump>>

\* The time steps of the other ranks since this rank's last one: all but the
\* first push of them may move a particle before it is sorted a last time.
OtherSteps == IF step < NProcs THEN step ELSE NProcs - 1

\* The next step of this rank: InitDiagnostics; meanwhile the other ranks
\* have pushed what they had been sent.
StartStep ==
    /\ pc = "step"
    /\ step <= MaxStep
    /\ IF IsOutputStep(step)
       THEN series' = series + 1 /\ dump' = NewIteration(step)
       ELSE UNCHANGED <<series, dump>>
    /\ IF OtherSteps = 0
       THEN UNCHANGED <<from, box>>
       ELSE /\ from' \in [DOMAIN box -> 0 .. Lost]
            /\ box' \in [DOMAIN box -> 0 .. Lost]
            /\ \A p \in DOMAIN box :
                   /\ from'[p] = Lost \/ from'[p] \in box[p] - (OtherSteps - 1) .. box[p]
                   /\ box[p] = Lost => from'[p] = Lost
                   /\ OtherSteps = 1 => from'[p] = box[p]
                   /\ box'[p] \in PushedTo(from'[p])
    /\ age' = [p \in DOMAIN age |-> age[p] + OtherSteps]
    /\ it' = NBoxes - 1
    /\ pc' = "wait"
    /\ UNCHANGED <<conf, injectionVars, file, step, physicalTime, here, counts, lastDumped,
                   chunkOffset, chunkSize, fab>>

\* Wait: the time and the particles of the box are received, with MPI.
Wait ==
    /\ pc = "wait"
    /\ IF step = 0 \/ ~conf.mpi
       THEN UNCHANGED <<here, physicalTime>>
       ELSE /\ here' = [b \in Beams |-> here[b] \o FromBox(b, it)]
            /\ physicalTime' = IF it = NBoxes - 1 THEN initialTime + step ELSE physicalTime
    /\ pc' = "sort"
    /\ UNCHANGED <<conf, injectionVars, file, step, it, box, from, age, counts, series,
                   lastDumped, chunkOffset, chunkSize, fab, dump>>

\* The counts of the box sorters.
BoxCounts ==
    [b \in Beams |-> [k \in 0 .. Lost |-> Cardinality({p \in Here(b) : box[p] = k})]]

\* sortParticlesByBox.
Sort ==
    /\ pc = "sort"
    /\ counts' = BoxCounts
    /\ here' \in [Beams -> UNION {SortedTiles(b) : b \in Beams}]
    /\ \A b \in Beams : here'[b] \in SortedTiles(b)
    /\ from' = [p \in DOMAIN box |-> IF p \in Away THEN from[p] ELSE box[p]]
    /\ pc' = "beams"
    /\ UNCHANGED <<conf, injectionVars, file, step, it, physicalTime, box, age, series,
                   lastDumped, chunkOffset, chunkSize, fab, dump>>

\* SetupPos and SetupRealProperties: data sets with a row for every particle
\* the beam had at first.
SetupBeam(data, b) ==
    IF lastDumped # step /\ Len(data[b]) # total[b] THEN DataSet(total[b]) ELSE data[b]

\* Faulty variant of FirstBox: the last box.
LastBox == it = 0

\* Where chunk offsets start.  The comment calls it the first box.
FirstBox == it = NProcs - 1

\* What a row of a data set says of a particle: which it is, and when.
BeamRow(b, n) == <<n, age[<<b, n>>]>>

\* WriteBeamParticleData: the particles of the box, from its offset in the
\* tile on; but the identifiers from the start of the tile on.
Chunk(b) == [k \in 1 .. CountOf(b, it) |-> here[b][OffsetOf(b, it) + k]]

IdChunk(b) == [k \in 1 .. CountOf(b, it) |-> here[b][k]]

\* WriteDiagnostics of the beams.
WriteBeams ==
    /\ pc = "beams"
    /\ IF ~IsOutputStep(step)
       THEN UNCHANGED <<chunkOffset, chunkSize, dump>>
       ELSE LET offset == [b \in Beams |->
                    IF b \notin conf.dumped THEN chunkOffset[b]
                    ELSE IF FirstBox THEN 0 ELSE chunkOffset[b] + chunkSize[b]]
                Stored(data, b, chunk) ==
                    IF b \in conf.dumped THEN StoreChunk(SetupBeam(data, b), offset[b], chunk)
                                         ELSE data[b]
                Rows(b) == [k \in DOMAIN Chunk(b) |-> BeamRow(b, Chunk(b)[k])]
            IN  /\ chunkOffset' = offset
                /\ chunkSize' = [b \in Beams |-> IF b \in conf.dumped THEN CountOf(b, it)
                                                 ELSE chunkSize[b]]
                /\ dump' = [dump EXCEPT
                       !.time = physicalTime,
                       !.position = [b \in Beams |-> Stored(@, b, Rows(b))],
                       !.momentum = [b \in Beams |-> Stored(@, b, Rows(b))],
                       !.id = [b \in Beams |->
                           Stored(@, b, [k \in DOMAIN IdChunk(b) |->
                                            <<tile[b][IdChunk(b)[k]].id>>])]]
    /\ pc' = "solve"
    /\ UNCHANGED <<conf, injectionVars, file, step, it, physicalTime, box, from, age, here,
                   counts, series, lastDumped, fab>>

\* The slices of the box: its particles are pushed, its fields interpolated.
SolveBox ==
    /\ pc = "solve"
    /\ fab' = FillDiagnostics(ResizeFDiagFAB(it), it)
    /\ LET pushed == {p \in DOMAIN box : p \notin Away /\ box[p] = it}
       IN  /\ box' \in [DOMAIN box -> 0 .. Lost]
           /\ \A p \in DOMAIN box :
                  box'[p] \in IF p \in pushed THEN PushedTo(it) ELSE {box[p]}
           /\ age' = [p \in DOMAIN age |-> IF p \in pushed THEN age[p] + 1 ELSE age[p]]
    /\ pc' = "fields"
    /\ UNCHANGED <<conf, injectionVars, file, step, it, physicalTime, from, here, counts,
                   series, lastDumped, chunkOffset, chunkSize, dump>>

\* WriteDiagnostics of the fields: the chunk of the box in the data set of the
\* time step, which the first box makes.
WriteFields ==
    /\ pc = "fields"
    /\ IF ~IsOutputStep(step)
       THEN UNCHANGED <<lastDumped, dump>>
       ELSE LET data == IF lastDumped # step THEN DataSet(NCoarse) ELSE dump.field
                offset == SmallEnd(it) \div conf.coarsening
                chunk == [k \in 1 .. Cardinality(DOMAIN fab) |-> fab[offset + k - 1]]
            IN  /\ dump' = [dump EXCEPT !.field = StoreChunk(data, offset, chunk)]
                /\ lastDumped' = step
    /\ pc' = "notify"
    /\ UNCHANGED <<conf, injectionVars, file, step, it, physicalTime, box, from, age, here,
                   counts, series, chunkOffset, chunkSize, fab>>

\* Faulty variant of Remaining: nothing is removed.
RemainingAll(b) == here[b]

\* The tile without the particles of the box and those sorted behind them.
Remaining(b) == SubSeq(here[b], 1, OffsetOf(b, it))

\* Notify: with MPI, the particles of the box and those behind them in the
\* tile leave it.  Then the next box, or the end of the step.
Notify ==
    /\ pc = "notify"
    /\ here' = IF conf.mpi THEN [b \in Beams |-> Remaining(b)] ELSE here
    /\ IF it > 0
       THEN it' = it - 1 /\ pc' = "wait"
       ELSE it' = it /\ pc' = "end"
    /\ UNCHANGED <<conf, injectionVars, file, step, physicalTime, box, from, age, counts,
                   series, lastDumped, chunkOffset, chunkSize, fab, dump>>

\* The end of a time step.
EndStep ==
    /\ pc = "end"
    /\ physicalTime' = physicalTime + 1
    /\ step' = step + NProcs
    /\ pc' = "step"
    /\ UNCHANGED <<conf, injectionVars, file, it, box, from, age, here, counts, series,
                   lastDumped, chunkOffset, chunkSize, fab, dump>>

\* A second simulation, some of whose beams are read from the last dump.
Restart ==
    /\ pc = "step"
    /\ step > MaxStep
    /\ dump.step >= 0
    /\ conf.restart # <<>>
    /\ file' = {[iteration |-> dump.step, time |-> dump.time,
                 data |-> [b \in conf.dumped |-> [position |-> dump.position[b]]]]}
    /\ species' = conf.restart
    /\ ibeam' = 1 /\ tile' = <<>> /\ total' = <<>> /\ outside' = {}
    /\ offsets' = <<>> /\ nextID' = 1 /\ initialTime' = 0
    /\ pc' = "inject"
    /\ UNCHANGED <<conf, writerVars>>

\* The program has ended.
Done ==
    /\ \/ pc = "step" /\ step > MaxStep /\ (dump.step < 0 \/ conf.restart = <<>>)
       \/ pc = "injected" /\ file # {}
       \/ pc = "aborted"
    /\ UNCHANGED vars

Next ==
    \/ InjectionNext /\ UNCHANGED writerVars
    \/ EnterEvolve \/ StartStep \/ Wait \/ Sort \/ WriteBeams \/ SolveBox \/ WriteFields
    \/ Notify \/ EndStep \/ Restart \/ Done

Spec == WriterInit /\ [][Next]_vars

-----------------------------------------------------------------------------
(* Properties                                                              *)

\* The count of the first kernel, the scan and the second kernel agree
\* (BeamParticleContainerInit.cpp:114, 160, 183): every slot the tile was
\* resized to is written by one particle, and nothing behind it is.
SlotsWrittenOnce ==
    /\ outside = {}
    /\ \A b \in 1 .. ibeam - 1 : \A k \in DOMAIN tile[b] :
           Cardinality(tile[b][k].written) = 1 /\ tile[b][k].id > 0

\* No two particles of a simulation, of one species or of two, have the same
\* identifier: NextID is advanced by as many as are used.
UniqueIds ==
    \A b, c \in DOMAIN tile : \A i \in DOMAIN tile[b], j \in DOMAIN tile[c] :
        tile[b][i].id = tile[c][j].id /\ tile[b][i].id # 0 => b = c /\ i = j

\* beam_injection_cr "injects the same": the particles in the domain are
\* those of a lattice of the cells and particles per cell that were asked for.
InjectsTheSame ==
    pc = "injected" => \A b \in DOMAIN species :
        LET sp == species[b]
            fine == [sp EXCEPT !.cr = 1]
        IN  sp.injection = "fixed_ppc" /\ ~sp.random =>
                {w \in UNION {tile[b][k].written : k \in DOMAIN tile[b]} :
                    \A d \in 1 .. 3 : w[d] < 2 * NCells[d] * sp.ppc[d]}
                = {LatticePoint(fine, p[1], p[2]) :
                      p \in {q \in Candidates(fine) : q[1][3] \notin sp.thin}}

Dumped == pc = "end" /\ IsOutputStep(step)

RowsOf(data) == {k \in DOMAIN data : data[k] # <<>>}

\* When a step is dumped, the rows of a beam are, from the first one on, the
\* particles that were in the domain at this step, once each: whatever boxes
\* they were in, moved to or were empty, and whatever was lost before
\* (WriteBeamParticleData: m_offset, m_tmp_offset, the box sorters).
EachParticleOnce ==
    Dumped => \A b \in conf.dumped :
        LET rows == RowsOf(dump.position[b])
        IN  /\ rows = 1 .. Cardinality(rows)
            /\ {dump.position[b][k][1] : k \in rows}
                   = {p[2] : p \in {q \in DOMAIN from : q[1] = b /\ from[q] # Lost}}
            /\ Cardinality(rows) = Cardinality({dump.position[b][k][1] : k \in rows})

\* All rows of a dump and its time attribute are of the same time, although
\* boxes are dumped one by one and pushed in between: a particle that falls
\* back into the next box is not dumped again or later
\* (Hipace.cpp:416, setTime).
DumpOfOneTime ==
    Dumped => \A b \in conf.dumped : \A k \in RowsOf(dump.position[b]) :
        /\ dump.position[b][k][2] = step
        /\ dump.time = initialTime + dump.position[b][k][2]
        /\ dump.momentum[b][k] = dump.position[b][k]

\* The identifier of a row is that of the particle whose position the row has.
IdsOfRows ==
    Dumped => \A b \in conf.dumped : \A k \in RowsOf(dump.position[b]) :
        dump.id[b][k] = <<tile[b][dump.position[b][k][1]].id>>

\* The coarse output is the linear interpolation of the slices of this step,
\* for every coarse cell, whatever the boxes it was put together from
\* (Fields::Copy, WriteFieldData).
FieldsInterpolated ==
    Dumped =>
        /\ Len(dump.field) = NCoarse
        /\ \A k \in 0 .. NCoarse - 1 :
               LET Hat(i) == Unit - (IF Unit * i > Centre(k) THEN Unit * i - Centre(k)
                                                             ELSE Centre(k) - Unit * i)
               IN  dump.field[k + 1] = {<<step, i, Hat(i)>> : i \in {j \in 0 .. NCells[3] - 1 : Hat(j) > 0}}

Restarted == pc = "injected" /\ file # {}

\* The beams of the second simulation that are read from the dump.
ReadBeams == {b \in DOMAIN species : species[b].injection = "from_file"}

\* A restart has all particles of the dump, once each, and with the units of
\* either simulation the same positions, momenta and weights, whichever plasma
\* density the restart has (SetupPos, InitBeamFromFile: HiPACE++_reference_unitSI).
RestartKeepsBeam ==
    Restarted =>
        \A b \in ReadBeams : \A iter \in IterationOf(species[b]) :
        \A name \in SpeciesRead(species[b], iter) :
            LET data == dump.position[name]
            IN  /\ \A k \in RowsOf(data) :
                       Cardinality({j \in DOMAIN tile[b] : tile[b][j].written = {data[k]}}) = 1
                /\ \A wn, rn, given \in BOOLEAN :
                       DensityKnown(wn, rn, given) =>
                           LET read == UnitsRead(ReferenceUnits(wn), rn, OfReader(given))
                           IN  \A q \in {"position", "momentum", "weight"} :
                                   Times(read[q], SimulationUnits(rn, OfReader(given))[q])
                                       = SimulationUnits(wn, OfWriter)[q]

=============================================================================
