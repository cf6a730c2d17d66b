--------------------------- MODULE MCSliceSolver ---------------------------
(* Small instances of SliceSolver: the input parameters to check.          *)
EXTENDS SliceSolver

\* One level, both solvers, all options.
OneLevel ==
    {c \in [explicit : BOOLEAN, tiling : BOOLEAN, ionization : BOOLEAN, beamJxJy : BOOLEAN,
            finestLevel : {0}, patch : {{}}, plasmas : {{0}}, beamLevel : {0},
            gridLevel : {0}] :
        c.ionization => c.tiling}

\* A plasma on level 0 and a patch: the beam on level 0, or on both levels
\* with a patch of all slices.  Tiling is off, see the README.
Refined ==
    {[explicit |-> FALSE, tiling |-> FALSE, ionization |-> FALSE, beamJxJy |-> TRUE,
      finestLevel |-> 1, patch |-> IF b = 0 THEN 1 .. NSlices - 2 ELSE Slices,
      plasmas |-> {0}, beamLevel |-> b, gridLevel |-> 1] : b \in {0, 1}}

SolverConfigs == OneLevel \union Refined

=============================================================================
