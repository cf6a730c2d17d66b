---------------------------- MODULE PoissonSolver ----------------------------
(***************************************************************************)
(* The transverse Poisson solvers of the fields and the sine transforms    *)
(* under them: a solver is defined once and called several times per       *)
(* slice, always with the same arrays.  Every kernel is an action over     *)
(* flat arrays of the size they are allocated with, so what an earlier     *)
(* solve or direction leaves in them is there.                             *)
(*                                                                         *)
(* Abstractions.  Real numbers are those of PrimeField, a complex number   *)
(* is a record.  A read outside of an array gives Beyond, a write outside  *)
(* is lost, and both are recorded.  External, from their use: the Fourier  *)
(* transforms of the vendors and FFTW's sine transform, by the sums they   *)
(* are defined by.                                                         *)
(***************************************************************************)
EXTENDS PrimeField

CONSTANTS
    Solvers,     \* possible builds, inputs and sizes, see SolverAssumption
    TileDim,     \* tile_dim of Transpose, 32 in the code
    BlockRows,   \* block_rows of Transpose, 8 in the code
    MaxSolves    \* calls of SolvePoissonEquation

\* A solver: library is the sine transform of the build (FFTW on CPUs, the
\* kernels of this repository on GPUs with use_small_dst or without) or the
\* periodic solver; nx and ny are the size of the box; dx2 and dy2 are the
\* squares of the cell sizes, dkx and dky of the periodic solver likewise 2 pi
\* over the length; junk is what newly allocated memory holds.
ASSUME SolverAssumption ==
    /\ \A s \in Solvers :
           /\ s.library \in {"fftw", "small", "expanded", "periodic"}
           /\ s.nx \in Nat \ {0} /\ s.ny \in Nat \ {0}
           /\ FullTurn % (4 * (s.nx + 1)) = 0 /\ FullTurn % (4 * (s.ny + 1)) = 0
           /\ s.library = "periodic" => FullTurn % s.nx = 0 /\ FullTurn % s.ny = 0
           /\ {s.dx2, s.dy2, s.dkx, s.dky, s.junk} \subseteq Reals
           /\ s.dx2 # 0 /\ s.dy2 # 0
    /\ BlockRows \in Nat \ {0} /\ TileDim \in Nat \ {0} /\ TileDim % BlockRows = 0
    /\ MaxSolves \in Nat

VARIABLES
    solver,      \* the element of Solvers of this run
    pc,          \* where SolvePoissonEquation, or its caller, is
    kernel,      \* number of the kernel of Execute that comes next
    mem,         \* the arrays of the solver
    multiplier,  \* m_eigenvalue_matrix or -m_inv_k2
    rhs,         \* staging area as the caller left it, without boundary values
    boundary,    \* values around the box, as on a refined level
    lhs,         \* component that is solved for
    outside,     \* kernels that read or wrote outside of an array
    solves       \* calls so far

vars == <<solver, pc, kernel, mem, multiplier, rhs, boundary, lhs, outside, solves>>

nx == solver.nx
ny == solver.ny
Dirichlet == solver.library # "periodic"

\* Position of cell (i, j) in a flat array of rows of n cells.
At(n, i, j) == i + n * j
Column(n, k) == k % n
Row(n, k) == k \div n

Cells == 0 .. nx * ny - 1

-----------------------------------------------------------------------------
(* Arrays                                                                  *)

Beyond == P
Complex(re, im) == [re |-> re % P, im |-> im % P]

Read(a, k) == IF k \in DOMAIN a THEN a[k] ELSE Beyond

\* Array a with the values of w written to it.
Written(a, w) == [k \in DOMAIN a |-> IF k \in DOMAIN w THEN w[k] ELSE a[k]]

Larger(x, y) == IF x > y THEN x ELSE y

\* Faulty variant of RealSize: room for the columns of the first pass only.
RealSizeOfPlan == (nx + 1) * ny

\* real_1d_size and complex_1d_size of CreatePlan.
RealSize == Larger((nx + 1) * ny, (ny + 1) * nx)
ComplexSize == Larger(((nx + 1) \div 2 + 1) * ny, ((ny + 1) \div 2 + 1) * nx)

\* expanded_size of CreatePlan.
Width == 2 * nx + 2
Height == 2 * ny + 2

\* CreatePlan: how many elements m_expanded_position_array has,
NumReal ==
    CASE solver.library = "small" -> RealSize
      [] solver.library = "expanded" -> Width * Height
      [] OTHER -> 0

\* and m_expanded_fourier_array, or m_tmpSpectralField of the periodic solver.
NumComplex ==
    CASE solver.library = "small" -> ComplexSize
      [] solver.library = "expanded" -> (nx + 2) * Height
      [] solver.library = "periodic" -> (nx \div 2 + 1) * ny
      [] OTHER -> 0

-----------------------------------------------------------------------------
(* Kernels of the sine transform by a small Fourier transform              *)

NHalf(n) == (n + 1) \div 2

Bit(b) == IF b THEN 1 ELSE 0

\* Faulty variant of ImagIndex: an even number of rows as an odd one.
ImagIndexOfOdd(n, i) == 2 * i - 1 + Bit(i = 0) - Bit(i = NHalf(n))

\* Where ToComplex reads element i of a column of n: the two elements of the
\* real part and the one of the imaginary part.
BeforeIndex(n, i) == 2 * i - 2 + 2 * Bit(i = 0)
AfterIndex(n, i) == 2 * i - (IF n % 2 = 1 THEN 2 ELSE 1) * Bit(i = NHalf(n))
ImagIndex(n, i) == 2 * i - 1 + Bit(i = 0) - Bit(n % 2 = 1 /\ i = NHalf(n))

AfterFactor(n, i) ==
    IF i # NHalf(n) THEN 1 ELSE IF n % 2 = 1 THEN -1 ELSE 0
ImagFactor(n, i) == Bit(i # 0 /\ ~(n % 2 = 1 /\ i = NHalf(n)))

\* Elements of the columns of the complex array.
HalfSpectrum(n, batch) == (0 .. NHalf(n)) \X (0 .. batch - 1)

ToComplex(in, n, batch) ==
    [k \in {At(NHalf(n) + 1, e[1], e[2]) : e \in HalfSpectrum(n, batch)} |->
        LET i == Column(NHalf(n) + 1, k)
            first == n * Row(NHalf(n) + 1, k)
        IN  Complex(-Read(in, first + BeforeIndex(n, i)) * (1 - 2 * Bit(i = 0))
                        + Read(in, first + AfterIndex(n, i)) * AfterFactor(n, i),
                    Read(in, first + ImagIndex(n, i)) * ImagFactor(n, i))]

ToComplexReads(n, batch) ==
    UNION {{n * e[2] + BeforeIndex(n, e[1]), n * e[2] + AfterIndex(n, e[1]),
            n * e[2] + ImagIndex(n, e[1])} : e \in HalfSpectrum(n, batch)}

\* C2Rfft: the unnormalised transform of batch half spectra to columns of len
\* numbers.  The imaginary parts of the ends are not used.
Conjugates(len, k) == IF k = 0 \/ 2 * k = len THEN 1 ELSE 2

C2RSum(in, len, m) ==
    LET first == (len \div 2 + 1) * Row(len, m)
        angle(k) == k * Column(len, m) * (FullTurn \div len)
    IN  SumOf(LAMBDA k : LET c == Read(in, first + k)
                         IN  Conjugates(len, k) * (c.re * Cos(angle(k)) - c.im * Sin(angle(k))),
              0 .. len \div 2)

C2Rfft(in, len, batch) == [m \in 0 .. len * batch - 1 |-> C2RSum(in, len, m)]

\* Elements i of a column of the Fourier transform that ToSine goes over, each
\* with its mirror image n + 1 - i.
SinePairs(n) == 1 .. (n + 1) \div 2

ToSine(in, n, batch) ==
    [k \in {n * j + i - 1 : i \in SinePairs(n) \union {n + 1 - i : i \in SinePairs(n)},
                            j \in 0 .. batch - 1} |->
        LET i == Column(n, k) + 1
            first == (n + 1) * Row(n, k)
            a == Read(in, first + i)
            b == Read(in, first + n + 1 - i)
        IN  Over(b - a + Over(a + b, 2 * Sin(i * PiOver(n + 1))), 2)]

\* Transpose: the blocks of a matrix of batch rows of n, and the rows of a
\* block, which its threads go over in steps of BlockRows.
Blocks(n, batch) ==
    (0 .. (n + TileDim - 1) \div TileDim - 1) \X (0 .. (batch + TileDim - 1) \div TileDim - 1)
TileRows == {y + i : y \in 0 .. BlockRows - 1,
                     i \in {BlockRows * m : m \in 0 .. TileDim \div BlockRows - 1}}
TileColumns == 0 .. TileDim - 1

\* The tile of a block after all of its threads have read.
Tile(in, n, batch, block) ==
    [s \in 0 .. TileDim * (TileDim + 1) - 1 |->
        LET x == block[1] * TileDim + Column(TileDim + 1, s)
            y == block[2] * TileDim + Row(TileDim + 1, s)
        IN  IF /\ Column(TileDim + 1, s) \in TileColumns /\ Row(TileDim + 1, s) \in TileRows
               /\ x < n /\ y < batch
            THEN Read(in, y * n + x) ELSE solver.junk]

\* Where the thread of column x takes element y of the transposed tile.
TileIndex(x, y) == x * (TileDim + 1) + y

Transpose(in, n, batch) ==
    LET writes == {w \in Blocks(n, batch) \X (TileColumns \X TileRows) :
                      /\ w[1][2] * TileDim + w[2][1] < batch
                      /\ w[1][1] * TileDim + w[2][2] < n}
        index(w) == (w[1][1] * TileDim + w[2][2]) * batch + w[1][2] * TileDim + w[2][1]
    IN  [k \in {index(w) : w \in writes} |->
            LET w == CHOOSE w \in writes : index(w) = k
            IN  Tile(in, n, batch, w[1])[TileIndex(w[2][1], w[2][2])]]

-----------------------------------------------------------------------------
(* Kernels of the sine transform by a large Fourier transform              *)

\* ExpandR2R: cell (i, j) of the box goes to column i+1 and row j+1, and is
\* mirrored with a change of sign to column 2nx+1-i, to row 2ny+1-j, and with
\* two changes to both.
ExpandR2R(src) ==
    [k \in {At(Width, i, j) : i \in 1 .. nx \union nx + 2 .. 2 * nx + 1,
                              j \in 1 .. ny \union ny + 2 .. 2 * ny + 1} |->
        LET i == Column(Width, k)
            j == Row(Width, k)
            cell == At(nx, IF i <= nx THEN i - 1 ELSE nx - 1 - (i - nx - 2),
                           IF j <= ny THEN j - 1 ELSE ny - 1 - (j - ny - 2))
        IN  IF (i <= nx) = (j <= ny) THEN src[cell] ELSE (-src[cell]) % P]

\* The transform of a real array of w columns and h rows, the first half of
\* the columns of it.
Angle(w, h, k, m) ==
    Column(w \div 2 + 1, k) * Column(w, m) * (FullTurn \div w)
    + Row(w \div 2 + 1, k) * Row(w, m) * (FullTurn \div h)

R2CSum(in, w, h, k) ==
    LET support == {m \in DOMAIN in : in[m] # 0}
    IN  Complex(SumOf(LAMBDA m : Times(in[m], Cos(Angle(w, h, k, m))), support),
                -SumOf(LAMBDA m : Times(in[m], Sin(Angle(w, h, k, m))), support))

R2Cfft(in, w, h) == [k \in 0 .. (w \div 2 + 1) * h - 1 |-> R2CSum(in, w, h, k)]

\* Its inverse, not normalised.
C2RSum2D(in, w, h, m) ==
    SumOf(LAMBDA k : Times(Conjugates(w, Column(w \div 2 + 1, k)),
                           in[k].re * Cos(Angle(w, h, k, m)) - in[k].im * Sin(Angle(w, h, k, m))),
          {k \in DOMAIN in : in[k] # Complex(0, 0)})

C2Rfft2D(in, w, h) == [m \in 0 .. w * h - 1 |-> C2RSum2D(in, w, h, m)]

ShrinkC2R(src) ==
    [k \in Cells |-> (-src[At(nx + 2, Column(nx, k) + 1, Row(nx, k) + 1)].re) % P]

\* The sine transform of type I in both directions, as FFTW defines it.
DstSum(in, k) ==
    LET sine(n, p, q) == Sin((p + 1) * (q + 1) * PiOver(n + 1))
    IN  SumOf(LAMBDA m : Times(Times(4 * in[m], sine(nx, Column(nx, k), Column(nx, m))),
                               sine(ny, Row(nx, k), Row(nx, m))),
              {m \in Cells : in[m] # 0})

Dst(in) == [k \in Cells |-> DstSum(in, k)]

-----------------------------------------------------------------------------
(* Coefficients and boundary values                                        *)

\* Faulty variant of NormFac: the size instead of the size plus 1.
NormFacOfSize == Over(1, 2 * 2 * nx * ny)

NormFac == Over(1, 2 * (2 * ((nx + 1) * (ny + 1))))

SinSquared(k, n) == LET s == Sin((k + 1) * PiOver(2 * (n + 1))) IN Times(s, s)

\* m_eigenvalue_matrix of the Dirichlet solver.
EigenvalueMatrix ==
    [k \in Cells |->
        LET x == SinSquared(Column(nx, k), nx)
            y == SinSquared(Row(nx, k), ny)
        IN  IF x # 0 /\ y # 0
            THEN Over(NormFac, -4 * (Over(x, solver.dx2) + Over(y, solver.dy2))) ELSE 0]

\* Faulty variant of Ky: all wave numbers are positive.
KyPositive(j) == j

\* Wave number of row j in y: the second half is negative.
Ky(j) == IF j < (ny + 1) \div 2 THEN j ELSE j - ny

\* -m_inv_k2 of the periodic solver.
InvK2 ==
    [k \in 0 .. (nx \div 2 + 1) * ny - 1 |->
        LET i == Column(nx \div 2 + 1, k)
            j == Row(nx \div 2 + 1, k)
            kx == solver.dkx * i
            ky == solver.dky * Ky(j)
        IN  IF i # 0 /\ j # 0 THEN Over(-1, kx * kx + ky * ky) ELSE 0]

\* Cells around the box that are next to one of it.
Guards ==
    ({-1, nx} \X (0 .. ny - 1)) \union ((0 .. nx - 1) \X {-1, ny})

\* SetDirichletBoundaries: the threads, and the cell and the guard cell of each.
EdgeBox == (0 .. nx + ny - 1) \X (0 .. 1)
ChangesX(e) == e[1] < nx

EdgeCell(e) ==
    IF ChangesX(e) THEN <<e[1], e[2] * (ny - 1)>> ELSE <<e[2] * (nx - 1), e[1] - nx>>
EdgeGuard(e) ==
    LET away == 2 * e[2] - 1
    IN  IF ChangesX(e) THEN <<e[1], EdgeCell(e)[2] + away>>
        ELSE <<EdgeCell(e)[1] + away, EdgeCell(e)[2]>>

BoundaryTerms(values, k) ==
    SumOf(LAMBDA e : Over(values[EdgeGuard(e)], IF ChangesX(e) THEN solver.dy2 ELSE solver.dx2),
          {e \in EdgeBox : At(nx, EdgeCell(e)[1], EdgeCell(e)[2]) = k})

SetDirichletBoundaries(a, values) ==
    [k \in DOMAIN a |-> (a[k] - BoundaryTerms(values, k)) % P]

-----------------------------------------------------------------------------
(* Actions                                                                 *)

\* What Execute calls, in this order.
Kernels ==
    CASE solver.library = "small" ->
             <<"ToComplex", "C2Rfft", "ToSine", "Transpose",
               "ToComplex", "C2Rfft", "ToSine", "Transpose">>
      [] solver.library = "expanded" -> <<"ExpandR2R", "R2Cfft", "ShrinkC2R">>
      [] solver.library = "fftw" -> <<"R2R">>
      [] solver.library = "periodic" -> <<IF pc = "forward" THEN "R2C" ELSE "C2R">>

\* pos_arr and fourier_arr of Execute<direction>, which backward swaps.
Pos == IF pc = "forward" THEN "staging" ELSE "spectral"
Fourier == IF pc = "forward" THEN "spectral" ELSE "staging"

\* Rows and columns of the small transform: y is contiguous in the second pass.
FirstPass == kernel <= 4
NData == IF FirstPass THEN nx ELSE ny
NBatch == IF FirstPass THEN ny ELSE nx

Zeros(S) == [k \in S |-> 0]

Init ==
    /\ solver \in Solvers
    /\ pc = "define"
    /\ kernel = 1
    /\ mem = <<>>
    /\ multiplier = <<>>
    /\ rhs = Zeros(Cells)
    /\ boundary = Zeros(Guards)
    /\ lhs = Zeros(Cells)
    /\ outside = {}
    /\ solves = 0

\* define: the arrays, of which only the expanded one of CreatePlan is set to 0,
\* the coefficients and the plans.
Define ==
    /\ pc = "define"
    /\ mem' = [staging |-> [k \in Cells |-> IF Dirichlet THEN 0 ELSE solver.junk],
               spectral |-> [k \in IF Dirichlet THEN Cells ELSE {} |-> 0],
               real |-> [k \in 0 .. NumReal - 1 |->
                            IF solver.library = "expanded" THEN 0 ELSE solver.junk],
               complex |-> [k \in 0 .. NumComplex - 1 |-> Complex(solver.junk, solver.junk)]]
    /\ multiplier' = IF Dirichlet THEN EigenvalueMatrix ELSE InvK2
    /\ pc' = "idle"
    /\ UNCHANGED <<solver, kernel, rhs, boundary, lhs, outside, solves>>

\* Sources and boundary values: everything is linear in them, so the first
\* solve has one of them different from 0, and the next ones have all.
Unit(S, e) == [k \in S |-> IF k = e THEN 1 ELSE 0]
Inputs ==
    IF solves > 0
    THEN {[rhs |-> [k \in Cells |-> k + 1],
           boundary |-> [g \in Guards |-> IF Dirichlet THEN 2 * g[1] + g[2] + 5 ELSE 0]]}
    ELSE {[rhs |-> Unit(Cells, c), boundary |-> Zeros(Guards)] : c \in Cells}
         \union {[rhs |-> Zeros(Cells), boundary |-> Unit(Guards, g)] :
                    g \in IF Dirichlet THEN Guards ELSE {}}

\* LinCombination writes the source to the staging area.
LinCombination ==
    /\ pc = "idle"
    /\ solves < MaxSolves
    /\ \E input \in Inputs :
           /\ rhs' = input.rhs
           /\ boundary' = input.boundary
           /\ mem' = [mem EXCEPT !.staging = input.rhs]
    /\ pc' = "boundary"
    /\ UNCHANGED <<solver, kernel, multiplier, lhs, outside, solves>>

\* SetBoundaryCondition of a refined level; SolvePoissonEquation follows.
SetBoundaryCondition ==
    /\ pc = "boundary"
    /\ mem' = [mem EXCEPT !.staging = SetDirichletBoundaries(@, boundary)]
    /\ pc' = "forward"
    /\ UNCHANGED <<solver, kernel, multiplier, rhs, boundary, lhs, outside, solves>>

\* The end of a kernel: the next one, or the end of Execute.
NextKernel ==
    IF kernel < Len(Kernels)
    THEN kernel' = kernel + 1 /\ UNCHANGED pc
    ELSE kernel' = 1 /\ pc' = IF pc = "forward" THEN "multiply" ELSE "copy"

\* Kernel name writes w to array out; it has read positions reads of array in.
Launch(name, in, reads, out, w, after) ==
    /\ pc \in {"forward", "backward"}
    /\ Kernels[kernel] = name
    /\ mem' = [after EXCEPT ![out] = Written(@, w)]
    /\ outside' = IF reads \subseteq DOMAIN mem[in] /\ DOMAIN w \subseteq DOMAIN mem[out]
                  THEN outside ELSE outside \union {name}
    /\ NextKernel
    /\ UNCHANGED <<solver, multiplier, rhs, boundary, lhs, solves>>

\* Arrays of which a transform to real numbers has used up the complex one.
Consumed == [mem EXCEPT !.complex = [k \in DOMAIN @ |-> Complex(solver.junk, solver.junk)]]

LaunchToComplex ==
    LET in == IF FirstPass THEN Pos ELSE Fourier
    IN  Launch("ToComplex", in, ToComplexReads(NData, NBatch), "complex",
               ToComplex(mem[in], NData, NBatch), mem)

\* m_plan in the first pass and m_plan_b in the second one.
LaunchC2Rfft ==
    Launch("C2Rfft", "complex", 0 .. (NHalf(NData) + 1) * NBatch - 1, "real",
           C2Rfft(mem["complex"], NData + 1, NBatch), Consumed)

LaunchToSine ==
    Launch("ToSine", "real", 1 .. (NData + 1) * NBatch - 1, Pos,
           ToSine(mem["real"], NData, NBatch), mem)

LaunchTranspose ==
    Launch("Transpose", Pos, Cells, Fourier, Transpose(mem[Pos], NData, NBatch), mem)

LaunchExpandR2R ==
    Launch("ExpandR2R", Pos, Cells, "real", ExpandR2R(mem[Pos]), mem)

LaunchR2Cfft ==
    Launch("R2Cfft", "real", 0 .. Width * Height - 1, "complex",
           R2Cfft(mem["real"], Width, Height), mem)

LaunchShrinkC2R ==
    Launch("ShrinkC2R", "complex", {At(nx + 2, i, j) : i \in 1 .. nx, j \in 1 .. ny}, Fourier,
           ShrinkC2R(mem["complex"]), mem)

LaunchR2R == Launch("R2R", Pos, Cells, Fourier, Dst(mem[Pos]), mem)

LaunchR2C ==
    Launch("R2C", "staging", Cells, "complex", R2Cfft(mem["staging"], nx, ny), mem)

LaunchC2R ==
    Launch("C2R", "complex", 0 .. (nx \div 2 + 1) * ny - 1, "staging",
           C2Rfft2D(mem["complex"], nx, ny), Consumed)

Execute ==
    \/ LaunchToComplex \/ LaunchC2Rfft \/ LaunchToSine \/ LaunchTranspose
    \/ LaunchExpandR2R \/ LaunchR2Cfft \/ LaunchShrinkC2R
    \/ LaunchR2R \/ LaunchR2C \/ LaunchC2R

Scaled(c, factor) == Complex(Times(c.re, factor), Times(c.im, factor))

\* The product with the eigenvalues in Fourier space.
Multiply ==
    /\ pc = "multiply"
    /\ mem' = IF Dirichlet
              THEN [mem EXCEPT !.spectral = [k \in DOMAIN @ |-> Times(@[k], multiplier[k])]]
              ELSE [mem EXCEPT !.complex = [k \in DOMAIN @ |-> Scaled(@[k], multiplier[k])]]
    /\ pc' = "backward"
    /\ UNCHANGED <<solver, kernel, multiplier, rhs, boundary, lhs, outside, solves>>

\* The copy to the component, normalised by the periodic solver.
CopySolution ==
    /\ pc = "copy"
    /\ lhs' = [k \in Cells |-> IF Dirichlet THEN mem.staging[k]
                               ELSE Over(mem.staging[k], nx * ny)]
    /\ solves' = solves + 1
    /\ pc' = "idle"
    /\ UNCHANGED <<solver, kernel, mem, multiplier, rhs, boundary, outside>>

Terminating == pc = "idle" /\ solves = MaxSolves /\ UNCHANGED vars

Next ==
    \/ Define \/ LinCombination \/ SetBoundaryCondition \/ Execute \/ Multiply
    \/ CopySolution \/ Terminating

Spec == Init /\ [][Next]_vars

-----------------------------------------------------------------------------
(* Properties                                                              *)

\* No kernel reads or writes outside of its arrays, whose sizes CreatePlan
\* chooses once for both passes of both directions and for odd and even sizes.
KernelsInBounds == outside = {}

\* The source with the boundary values moved into it.
Source == SetDirichletBoundaries(rhs, boundary)

\* All sine transforms are the same: after the forward one the spectral array
\* has the sums that define FFTW's, and after the backward one the staging area
\* is their transform back, so that one normalisation does for all libraries.
SineTransformed ==
    Dirichlet =>
        /\ pc = "multiply" => mem.spectral = Dst(Source)
        /\ pc = "copy" =>
               LET norm == Times(4 * (nx + 1), ny + 1)
                   back == Dst(mem.staging)
               IN  \A k \in Cells :
                       back[k] = Times(norm, Times(Dst(Source)[k], multiplier[k]))

\* The value of the solution in a cell or beside the box.
ValueAt(i, j) ==
    IF <<i, j>> \in Guards THEN boundary[<<i, j>>] ELSE lhs[At(nx, i, j)]

\* The solution of a Dirichlet solver is one of the equation it is for,
\* Laplace of lhs = rhs on the grid: with the second differences of all cells
\* and the boundary values beside them, whatever is left of solves before.
PoissonSolved ==
    Dirichlet /\ pc = "idle" /\ solves > 0 =>
        \A i \in 0 .. nx - 1, j \in 0 .. ny - 1 :
            (Over(ValueAt(i - 1, j) + ValueAt(i + 1, j) - 2 * ValueAt(i, j), solver.dx2)
             + Over(ValueAt(i, j - 1) + ValueAt(i, j + 1) - 2 * ValueAt(i, j), solver.dy2)) % P
            = rhs[At(nx, i, j)]

\* A mode of a real array of the box.
Mode(a, i, j) == R2Cfft(a, nx, ny)[At(nx \div 2 + 1, i, j)]

\* Second derivatives of the solution in Fourier space at wave numbers (i, j).
LaplaceMode(i, j) ==
    Scaled(Mode(lhs, i, j),
           -(solver.dkx * i * solver.dkx * i + solver.dky * Ky(j) * solver.dky * Ky(j)))

\* The periodic solver inverts the Laplace operator in all modes that vary
\* along both directions, and its solution has no other modes.
PeriodicSolved ==
    ~Dirichlet /\ pc = "idle" /\ solves > 0 =>
        \A i \in 0 .. nx \div 2, j \in 0 .. ny - 1 :
            IF i # 0 /\ j # 0 THEN LaplaceMode(i, j) = Mode(rhs, i, j)
            ELSE Mode(lhs, i, j) = Complex(0, 0)

\* FFTPoissonSolverPeriodic.H:16: "For a given source S, it solves equation
\* Laplacian(F) = S and returns F", up to the mean, which has no solution.
LaplacianIsSource ==
    ~Dirichlet /\ pc = "idle" /\ solves > 0 =>
        \A i \in 0 .. nx \div 2, j \in 0 .. ny - 1 :
            i # 0 \/ j # 0 => LaplaceMode(i, j) = Mode(rhs, i, j)
=============================================================================
