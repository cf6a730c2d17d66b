--------------------------- MODULE MCOpenPMDWriter ---------------------------
(* Small instances of OpenPMDWriter: the inputs of the simulations.        *)
EXTENDS OpenPMDWriter

\* Two cells across, so that a coarser injection has one in x, and in y none
\* of its own; 12 slices, in boxes of 12, 6 or 4.
WriterCells == <<2, 1, 12>>

\* Beams of fixed_ppc in layers zmin to zmax - 1; of fixed_weight; of a file.
Lattice(cr, radius, zmin, zmax, random, thin) ==
    [injection |-> "fixed_ppc", ppc |-> <<1, 1, 1>>, cr |-> cr, random |-> random,
     zmin |-> zmin, zmax |-> zmax, radius |-> radius, thin |-> thin]

Weighted(num, symmetrize) ==
    [injection |-> "fixed_weight", num |-> num, symmetrize |-> symmetrize]

ReadFromFile(iteration, name, specified) ==
    [injection |-> "from_file", iteration |-> iteration, species |-> name,
     specified |-> specified]

Simulation(beams, dumped, period, nprocs, rank, coarsening, restart) ==
    [beams |-> beams, dumped |-> dumped, period |-> period, nprocs |-> nprocs,
     rank |-> rank, mpi |-> TRUE, boxesInZ |-> 1, coarsening |-> coarsening,
     restart |-> restart]

\* Two beams on the ranks of two and of three, with boxes of 6 and of 4
\* slices; the coarsening divides them.
Parallel ==
    {Simulation(<<Lattice(2, 1, 5, 6, FALSE, {}), Weighted(1, FALSE)>>, {1, 2}, 2, 2, r, 3,
                <<ReadFromFile(2 + r, 1, TRUE)>>) : r \in 0 .. 1}
    \union
    {Simulation(<<Weighted(2, FALSE)>>, {1}, 1, 3, r, c, <<>>) : r \in 0 .. 2, c \in {2, 4}}

\* One rank: one box, any coarsening; randomly spaced particles, lattices with
\* and without a coarser injection, symmetrized particles; beams that are not
\* dumped, none at all, and files that lack what is asked for.
OneRank ==
    {Simulation(<<lattice>>, {1}, 2, 1, 0, 5, <<ReadFromFile(3, 2, s)>>) :
        s \in BOOLEAN,
        lattice \in {Lattice(2, 3, 4, 5, FALSE, {}), Lattice(2, 1, 4, 6, FALSE, {5}),
                     Lattice(1, 1, 4, 6, FALSE, {4, 5})}}
    \union
    {Simulation(<<Lattice(1, 2, 5, 6, TRUE, {}), Weighted(1, FALSE)>>, {2}, 3, 1, 0, 7,
                <<ReadFromFile(i, 2, FALSE)>>) : i \in {0, 3}}
    \union
    {Simulation(<<Weighted(4, TRUE)>>, {1}, -1, 1, 0, 1, <<>>),
     Simulation(<<>>, {}, 1, 1, 0, 3, <<>>)}

WriterSimulations == Parallel \union OneRank

\* A beam on two ranks.
TwoRanks == {Simulation(<<Weighted(2, FALSE)>>, {1}, 1, 2, 1, 1, <<>>)}

=============================================================================
