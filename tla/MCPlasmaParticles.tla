-------------------------- MODULE MCPlasmaParticles --------------------------
(* Small instances of PlasmaParticles: the input parameters to check.      *)
EXTENDS PlasmaParticles

\* Both solvers, a box that particles leave and, with the explicit solver, a
\* periodic one; neutral and singly ionized ions, the latter with electrons and,
\* with the predictor-corrector solver, in one cell only.
PlasmaConfigs ==
    {c \in [explicit : BOOLEAN, periodic : BOOLEAN, initIonLev : 0 .. 1,
            ions : {Cells, {0}}, electrons : {{}, {0}}] :
        /\ c.periodic => c.explicit
        /\ c.initIonLev = Cardinality(c.electrons)
        /\ c.ions = Cells <=> c.explicit \/ c.initIonLev = 0}

=============================================================================
