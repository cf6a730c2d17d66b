----------------------------- MODULE Wavefront -----------------------------
(***************************************************************************)
(* What the longitudinal pipeline of HiPACE++ promises, whatever the       *)
(* number of ranks and however messages travel: the boxes of every time    *)
(* step are solved from the head of the domain to its tail, and a box of a *)
(* step is solved only with the beam that the previous step left in it.    *)
(*                                                                         *)
(* A box is solved in two parts.  Its head slice comes first; its tail     *)
(* slice comes last and needs the beam of the ghost slice, that is of the  *)
(* head slice of the box behind it, as the previous step left it.          *)
(***************************************************************************)
EXTENDS Integers

CONSTANTS MaxStep,   \* last time step, a natural number
          NumBoxes   \* longitudinal boxes, at least one; box NumBoxes - 1 is the head

VARIABLES headSolved,  \* <<step, box>> whose head slice has been solved
          solved       \* <<step, box>> solved down to the tail slice

wvars == <<headSolved, solved>>

Cells == (0 .. MaxStep) \X (0 .. NumBoxes - 1)

WInit ==
    /\ headSolved = {}
    /\ solved = {}

\* The wake propagates from head to tail: the box ahead is complete.  The
\* beam comes from the previous step: that step is done with this box.
SolveHeadSlice(s, b) ==
    /\ <<s, b>> \notin headSolved
    /\ b < NumBoxes - 1 => <<s, b + 1>> \in solved
    /\ s > 0 => <<s - 1, b>> \in solved
    /\ headSolved' = headSolved \union {<<s, b>>}
    /\ UNCHANGED solved

\* The tail slice reads the beam one slice behind the box.
SolveTailSlice(s, b) ==
    /\ <<s, b>> \in headSolved \ solved
    /\ s > 0 /\ b > 0 => <<s - 1, b - 1>> \in headSolved
    /\ solved' = solved \union {<<s, b>>}
    /\ UNCHANGED headSolved

WNext == \E c \in Cells : SolveHeadSlice(c[1], c[2]) \/ SolveTailSlice(c[1], c[2])

WSafety == WInit /\ [][WNext]_wvars

WSpec == WSafety /\ WF_wvars(WNext)
=============================================================================
