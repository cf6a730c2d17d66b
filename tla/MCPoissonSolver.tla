-------------------------- MODULE MCPoissonSolver --------------------------
(* Small instances of PoissonSolver: libraries and sizes of boxes, with    *)
(* rows and columns that are even, odd and of one cell.                    *)
EXTENDS PoissonSolver

Solver(library, x, y, junk) ==
    [library |-> library, nx |-> x, ny |-> y, dx2 |-> 2, dy2 |-> 3,
     dkx |-> 3, dky |-> 5, junk |-> junk]

AllSolvers ==
    {Solver("small", s[1], s[2], 7) : s \in {<<1, 3>>, <<3, 2>>, <<4, 3>>, <<2, 5>>, <<4, 4>>, <<5, 4>>}}
    \union {Solver("expanded", s[1], s[2], 7) : s \in {<<1, 2>>, <<3, 2>>, <<2, 3>>}}
    \union {Solver("fftw", s[1], s[2], 7) : s \in {<<3, 2>>, <<4, 3>>}}
    \union {Solver("periodic", s[1], s[2], 7) : s \in {<<3, 4>>, <<4, 3>>, <<2, 5>>}}

PeriodicSolvers == {Solver("periodic", 4, 3, 0)}
=============================================================================
