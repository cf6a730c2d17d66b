------------------------ MODULE PoissonSolverProofs ------------------------
(***************************************************************************)
(* Proofs about PoissonSolver, for boxes of any size: the arrays that      *)
(* CreatePlan allocates are large enough for every kernel.                 *)
(***************************************************************************)
EXTENDS PoissonSolver, TLAPS

-----------------------------------------------------------------------------
(* Flat arrays                                                             *)

\* An element of a matrix of h rows of w has a place in the flat array.
LEMMA FlatIndex ==
    ASSUME NEW w \in Nat, NEW h \in Nat, NEW a \in 0 .. w - 1, NEW b \in 0 .. h - 1
    PROVE  w * b + a \in 0 .. w * h - 1 /\ a + w * b \in 0 .. w * h - 1
<1>1. w * b >= 0 /\ w * b \in Int /\ w * h \in Int
  OBVIOUS
<1>2. w * (h - 1 - b) >= 0
  OBVIOUS
<1>3. w * (h - 1 - b) = w * h - w - w * b
  OBVIOUS
<1> QED
  BY <1>1, <1>2, <1>3

LEMMA SmallerRange ==
    ASSUME NEW x \in Int, NEW y \in Int, x <= y
    PROVE  0 .. x - 1 \subseteq 0 .. y - 1
  OBVIOUS

LEMMA LargerIsBound ==
    ASSUME NEW x \in Int, NEW y \in Int
    PROVE  Larger(x, y) \in Int /\ x <= Larger(x, y) /\ y <= Larger(x, y)
  BY DEF Larger

-----------------------------------------------------------------------------
(* Kernels                                                                 *)

\* ToComplex reads within each column, for odd and even columns.
LEMMA ColumnReads ==
    ASSUME NEW n \in Nat \ {0}, NEW i \in 0 .. NHalf(n)
    PROVE  /\ BeforeIndex(n, i) \in 0 .. n - 1
           /\ AfterIndex(n, i) \in 0 .. n - 1
           /\ ImagIndex(n, i) \in 0 .. n - 1
<1>1. CASE n % 2 = 1
  <2>1. PICK h \in Nat : n = 2 * h + 1
    BY <1>1
  <2>2. NHalf(n) = h + 1
    BY <2>1 DEF NHalf
  <2> QED
    BY <1>1, <2>1, <2>2 DEF BeforeIndex, AfterIndex, ImagIndex, Bit
<1>2. CASE n % 2 # 1
  <2>1. PICK h \in Nat : n = 2 * h
    BY <1>2
  <2>2. NHalf(n) = h
    BY <2>1 DEF NHalf
  <2> QED
    BY <1>2, <2>1, <2>2 DEF BeforeIndex, AfterIndex, ImagIndex, Bit
<1> QED
  BY <1>1, <1>2

LEMMA ToComplexInBounds ==
    ASSUME NEW n \in Nat \ {0}, NEW batch \in Nat \ {0}, NEW in
    PROVE  /\ ToComplexReads(n, batch) \subseteq 0 .. n * batch - 1
           /\ DOMAIN ToComplex(in, n, batch) \subseteq 0 .. (NHalf(n) + 1) * batch - 1
<1>1. NHalf(n) \in Nat
  BY DEF NHalf
<1>2. ASSUME NEW e \in HalfSpectrum(n, batch)
      PROVE  e[1] \in 0 .. NHalf(n) /\ e[2] \in 0 .. batch - 1
  BY <1>2 DEF HalfSpectrum
<1>3. ASSUME NEW e \in HalfSpectrum(n, batch)
      PROVE  /\ n * e[2] + BeforeIndex(n, e[1]) \in 0 .. n * batch - 1
             /\ n * e[2] + AfterIndex(n, e[1]) \in 0 .. n * batch - 1
             /\ n * e[2] + ImagIndex(n, e[1]) \in 0 .. n * batch - 1
             /\ At(NHalf(n) + 1, e[1], e[2]) \in 0 .. (NHalf(n) + 1) * batch - 1
  <2>1. e[1] \in 0 .. NHalf(n) /\ e[2] \in 0 .. batch - 1
    BY <1>2
  <2>2. /\ BeforeIndex(n, e[1]) \in 0 .. n - 1
        /\ AfterIndex(n, e[1]) \in 0 .. n - 1
        /\ ImagIndex(n, e[1]) \in 0 .. n - 1
    BY <2>1, ColumnReads
  <2>3. e[1] \in 0 .. (NHalf(n) + 1) - 1 /\ NHalf(n) + 1 \in Nat
    BY <1>1, <2>1
  <2> QED
    BY <2>1, <2>2, <2>3, FlatIndex DEF At
<1>4. ToComplexReads(n, batch) \subseteq 0 .. n * batch - 1
  BY <1>3 DEF ToComplexReads
<1>5. DOMAIN ToComplex(in, n, batch) =
          {At(NHalf(n) + 1, e[1], e[2]) : e \in HalfSpectrum(n, batch)}
  BY DEF ToComplex
<1> QED
  BY <1>3, <1>4, <1>5

LEMMA ToSineInBounds ==
    ASSUME NEW n \in Nat \ {0}, NEW batch \in Nat \ {0}, NEW in
    PROVE  DOMAIN ToSine(in, n, batch) \subseteq 0 .. n * batch - 1
<1> DEFINE Pairs == SinePairs(n) \union {n + 1 - i : i \in SinePairs(n)}
<1>1. Pairs \subseteq 1 .. n
  BY DEF SinePairs
<1>2. ASSUME NEW i \in Pairs, NEW j \in 0 .. batch - 1
      PROVE  n * j + i - 1 \in 0 .. n * batch - 1
  <2>1. i - 1 \in 0 .. n - 1
    BY <1>1
  <2>2. n * j + (i - 1) \in 0 .. n * batch - 1
    BY <2>1, FlatIndex
  <2>3. n * j \in Int /\ i \in Int
    BY <1>1
  <2> QED
    BY <2>2, <2>3
<1>3. DOMAIN ToSine(in, n, batch) = {n * j + i - 1 : i \in Pairs, j \in 0 .. batch - 1}
  BY DEF ToSine
<1> HIDE DEF Pairs
<1> QED
  BY <1>2, <1>3

LEMMA TransposeInBounds ==
    ASSUME NEW n \in Nat \ {0}, NEW batch \in Nat \ {0}, NEW in
    PROVE  DOMAIN Transpose(in, n, batch) \subseteq 0 .. n * batch - 1
<1> DEFINE Writes == {w \in Blocks(n, batch) \X (TileColumns \X TileRows) :
                         /\ w[1][2] * TileDim + w[2][1] < batch
                         /\ w[1][1] * TileDim + w[2][2] < n}
           Index(w) == (w[1][1] * TileDim + w[2][2]) * batch + w[1][2] * TileDim + w[2][1]
<1>1. TileDim \in Nat /\ BlockRows \in Nat \ {0}
  BY SolverAssumption
<1>2. TileRows \subseteq Nat /\ TileColumns \subseteq Nat
  BY <1>1 DEF TileRows, TileColumns
<1>3. ASSUME NEW w \in Writes
      PROVE  Index(w) \in 0 .. n * batch - 1
  <2>1. /\ w[1][1] \in Nat /\ w[1][2] \in Nat
        /\ w[2][1] \in Nat /\ w[2][2] \in Nat
    <3>1. w[1] \in Blocks(n, batch) /\ w[2] \in TileColumns \X TileRows
      OBVIOUS
    <3>2. w[2][1] \in Nat /\ w[2][2] \in Nat
      BY <1>2, <3>1
    <3>3. Blocks(n, batch) \subseteq Nat \X Nat
      BY DEF Blocks
    <3>4. w[1][1] \in Nat /\ w[1][2] \in Nat
      BY <3>1, <3>3
    <3> QED
      BY <3>2, <3>4
  <2> DEFINE x == w[1][2] * TileDim + w[2][1]
             y == w[1][1] * TileDim + w[2][2]
  <2>2. x \in 0 .. batch - 1 /\ y \in 0 .. n - 1
    BY <1>1, <2>1
  <2>3. batch * y + x \in 0 .. batch * n - 1
    BY <2>2, FlatIndex
  <2>4. w[1][2] * TileDim \in Int /\ y * batch \in Int
    BY <1>1, <2>1, <2>2
  <2>5. Index(w) = batch * y + x
    BY <2>1, <2>2, <2>4
  <2> QED
    BY <2>3, <2>5
<1>4. DOMAIN Transpose(in, n, batch) = {Index(w) : w \in Writes}
  BY DEF Transpose
<1> HIDE DEF Index, Writes
<1> QED
  BY <1>3, <1>4

LEMMA ExpandR2RInBounds ==
    ASSUME nx \in Nat, ny \in Nat, NEW src
    PROVE  DOMAIN ExpandR2R(src) \subseteq 0 .. Width * Height - 1
<1> DEFINE Columns == 1 .. nx \union nx + 2 .. 2 * nx + 1
           Rows == 1 .. ny \union ny + 2 .. 2 * ny + 1
<1>1. Width \in Nat /\ Height \in Nat
  BY DEF Width, Height
<1>2. Columns \subseteq 0 .. Width - 1 /\ Rows \subseteq 0 .. Height - 1
  BY DEF Width, Height
<1>3. DOMAIN ExpandR2R(src) = {At(Width, i, j) : i \in Columns, j \in Rows}
  BY DEF ExpandR2R
<1> HIDE DEF Columns, Rows
<1>4. ASSUME NEW i \in Columns, NEW j \in Rows
      PROVE  At(Width, i, j) \in 0 .. Width * Height - 1
  <2>1. i \in 0 .. Width - 1 /\ j \in 0 .. Height - 1
    BY <1>2
  <2> QED
    BY <1>1, <2>1, FlatIndex DEF At
<1> QED
  BY <1>3, <1>4

LEMMA ShrinkC2RInBounds ==
    ASSUME nx \in Nat, ny \in Nat
    PROVE  {At(nx + 2, i, j) : i \in 1 .. nx, j \in 1 .. ny} \subseteq 0 .. (nx + 2) * Height - 1
<1>1. Height \in Nat
  BY DEF Height
<1>2. ASSUME NEW i \in 1 .. nx, NEW j \in 1 .. ny
      PROVE  At(nx + 2, i, j) \in 0 .. (nx + 2) * Height - 1
  <2>1. i \in 0 .. (nx + 2) - 1 /\ j \in 0 .. Height - 1 /\ nx + 2 \in Nat
    BY DEF Height
  <2> QED
    BY <1>1, <2>1, FlatIndex DEF At
<1> QED
  BY <1>2

-----------------------------------------------------------------------------
(* The arrays                                                              *)

ArrayNames == {"staging", "spectral", "real", "complex"}

\* The arrays with the sizes they were allocated with.
Allocated ==
    /\ DOMAIN mem = ArrayNames
    /\ mem = [name \in ArrayNames |-> mem[name]]
    /\ DOMAIN mem["staging"] = Cells
    /\ Dirichlet => DOMAIN mem["spectral"] = Cells
    /\ DOMAIN mem["real"] = 0 .. NumReal - 1
    /\ DOMAIN mem["complex"] = 0 .. NumComplex - 1

\* The inductive invariant: arrays never change their size, so that every
\* kernel finds the room that CreatePlan made.
SizesKept ==
    /\ solver \in Solvers
    /\ kernel \in 1 .. Len(Kernels)
    /\ pc # "define" => Allocated
    /\ KernelsInBounds

\* The box has cells in both directions.
LEMMA SizesOfBox ==
    ASSUME solver \in Solvers
    PROVE  /\ nx \in Nat \ {0} /\ ny \in Nat \ {0}
           /\ NData \in Nat \ {0} /\ NBatch \in Nat \ {0}
           /\ Cells = 0 .. NData * NBatch - 1
<1>1. nx \in Nat \ {0} /\ ny \in Nat \ {0}
  BY SolverAssumption DEF nx, ny
<1>2. nx * ny = ny * nx
  BY <1>1
<1> QED
  BY <1>1, <1>2 DEF NData, NBatch, FirstPass, Cells

\* CreatePlan makes room for both passes of the small transform.
LEMMA RoomForBothPasses ==
    ASSUME solver \in Solvers, solver.library = "small"
    PROVE  /\ (NData + 1) * NBatch <= NumReal /\ NumReal \in Int
           /\ (NHalf(NData) + 1) * NBatch <= NumComplex /\ NumComplex \in Int
<1>1. nx \in Nat \ {0} /\ ny \in Nat \ {0}
  BY SizesOfBox
<1>2. NHalf(nx) \in Nat /\ NHalf(ny) \in Nat
  BY <1>1 DEF NHalf
<1>3. /\ (nx + 1) * ny \in Int /\ (ny + 1) * nx \in Int
      /\ (NHalf(nx) + 1) * ny \in Int /\ (NHalf(ny) + 1) * nx \in Int
  BY <1>1, <1>2
<1>4. NumReal = Larger((nx + 1) * ny, (ny + 1) * nx)
  BY DEF NumReal, RealSize
<1>5. NumComplex = Larger((NHalf(nx) + 1) * ny, (NHalf(ny) + 1) * nx)
  BY DEF NumComplex, ComplexSize, NHalf
<1>6. \/ NData = nx /\ NBatch = ny
      \/ NData = ny /\ NBatch = nx
  BY DEF NData, NBatch
<1>7. /\ (nx + 1) * ny <= NumReal /\ (ny + 1) * nx <= NumReal /\ NumReal \in Int
  BY <1>3, <1>4, LargerIsBound
<1>8. /\ (NHalf(nx) + 1) * ny <= NumComplex /\ (NHalf(ny) + 1) * nx <= NumComplex
      /\ NumComplex \in Int
  BY <1>3, <1>5, LargerIsBound
<1> QED
  BY <1>6, <1>7, <1>8

\* Both directions call the same number of kernels.
LEMMA KernelCount ==
    ASSUME solver \in Solvers, solver' = solver
    PROVE  Len(Kernels) \in Nat \ {0} /\ Len(Kernels)' = Len(Kernels)
<1>1. solver.library \in {"fftw", "small", "expanded", "periodic"}
  BY SolverAssumption
<1>2. CASE solver.library = "small"
  <2>1. /\ Kernels = <<"ToComplex", "C2Rfft", "ToSine", "Transpose",
                       "ToComplex", "C2Rfft", "ToSine", "Transpose">>
        /\ Kernels' = <<"ToComplex", "C2Rfft", "ToSine", "Transpose",
                        "ToComplex", "C2Rfft", "ToSine", "Transpose">>
    BY <1>2 DEF Kernels
  <2> QED
    BY <2>1
<1>3. CASE solver.library = "expanded"
  <2>1. /\ Kernels = <<"ExpandR2R", "R2Cfft", "ShrinkC2R">>
        /\ Kernels' = <<"ExpandR2R", "R2Cfft", "ShrinkC2R">>
    BY <1>3 DEF Kernels
  <2> QED
    BY <2>1
<1>4. CASE solver.library = "fftw"
  <2>1. Kernels = <<"R2R">> /\ Kernels' = <<"R2R">>
    BY <1>4 DEF Kernels
  <2> QED
    BY <2>1
<1>5. CASE solver.library = "periodic"
  <2>1. /\ Kernels = <<"R2C">> \/ Kernels = <<"C2R">>
        /\ Kernels' = <<"R2C">> \/ Kernels' = <<"C2R">>
    BY <1>5 DEF Kernels
  <2> QED
    BY <2>1
<1> QED
  BY <1>1, <1>2, <1>3, <1>4, <1>5

\* A kernel that stays in bounds keeps the invariant.
LEMMA LaunchKeepsSizes ==
    ASSUME SizesKept, pc # "define",
           NEW name, NEW in, NEW reads, NEW out \in ArrayNames, NEW w,
           NEW after \in {mem, Consumed},
           reads \subseteq DOMAIN mem[in], DOMAIN w \subseteq DOMAIN mem[out],
           Launch(name, in, reads, out, w, after)
    PROVE  SizesKept'
<1>1. solver' = solver /\ outside' = {}
  BY DEF Launch, SizesKept, KernelsInBounds
<1>2. mem' = [after EXCEPT ![out] = Written(@, w)]
  BY DEF Launch
<1>3. Allocated
  BY DEF SizesKept
<1>4. /\ DOMAIN after = ArrayNames
      /\ \A a \in ArrayNames : DOMAIN after[a] = DOMAIN mem[a]
  <2>1. CASE after = mem
    BY <1>3, <2>1 DEF Allocated
  <2>2. CASE after = Consumed
    <3>1. DOMAIN Consumed = ArrayNames
      BY <1>3 DEF Consumed, Allocated
    <3>2. Consumed["complex"] =
              [k \in DOMAIN mem["complex"] |-> Complex(solver.junk, solver.junk)]
      BY <1>3 DEF Consumed, Allocated, ArrayNames
    <3>3. \A a \in ArrayNames : a # "complex" => Consumed[a] = mem[a]
      BY <1>3 DEF Consumed, Allocated
    <3>4. DOMAIN Consumed["complex"] = DOMAIN mem["complex"]
      BY <3>2
    <3> QED
      BY <2>2, <3>1, <3>3, <3>4
  <2> QED
    BY <2>1, <2>2
<1>5. /\ DOMAIN mem' = ArrayNames
      /\ mem' = [a \in ArrayNames |-> mem'[a]]
      /\ \A a \in ArrayNames : DOMAIN mem'[a] = DOMAIN mem[a]
  <2>1. \A a \in ArrayNames : mem'[a] = IF a = out THEN Written(after[a], w) ELSE after[a]
    BY <1>2, <1>4
  <2>2. \A a \in ArrayNames : DOMAIN Written(after[a], w) = DOMAIN after[a]
    BY DEF Written
  <2> QED
    BY <1>2, <1>4, <2>1, <2>2
<1>6. /\ Cells' = Cells /\ Dirichlet' = Dirichlet
      /\ NumReal' = NumReal /\ NumComplex' = NumComplex
  BY <1>1 DEF Cells, Dirichlet, NumReal, NumComplex, RealSize, ComplexSize, Width, Height,
              nx, ny
<1>7. Allocated'
  BY <1>3, <1>5, <1>6 DEF Allocated, ArrayNames
<1>8. kernel' \in 1 .. Len(Kernels)'
  <2>1. Len(Kernels) \in Nat \ {0} /\ Len(Kernels)' = Len(Kernels)
    BY <1>1, KernelCount DEF SizesKept
  <2>2. (kernel' = kernel + 1 /\ kernel < Len(Kernels)) \/ kernel' = 1
    BY DEF Launch, NextKernel
  <2> QED
    BY <2>1, <2>2 DEF SizesKept
<1> QED
  BY <1>1, <1>7, <1>8 DEF SizesKept, KernelsInBounds

-----------------------------------------------------------------------------
(* Steps                                                                   *)

\* Kernels belong to one library.
LEMMA LibraryOfKernel ==
    ASSUME solver \in Solvers, NEW name,
           kernel \in 1 .. Len(Kernels), Kernels[kernel] = name
    PROVE  /\ name \in {"ToComplex", "C2Rfft", "ToSine", "Transpose"} => solver.library = "small"
           /\ name \in {"ExpandR2R", "R2Cfft", "ShrinkC2R"} => solver.library = "expanded"
           /\ name = "R2R" => solver.library = "fftw"
           /\ name \in {"R2C", "C2R"} => solver.library = "periodic"
<1>1. solver.library \in {"fftw", "small", "expanded", "periodic"}
  BY SolverAssumption
<1>2. CASE solver.library = "small"
  <2>1. Kernels = <<"ToComplex", "C2Rfft", "ToSine", "Transpose",
                    "ToComplex", "C2Rfft", "ToSine", "Transpose">>
    BY <1>2 DEF Kernels
  <2> QED
    BY <1>2, <2>1
<1>3. CASE solver.library = "expanded"
  <2>1. Kernels = <<"ExpandR2R", "R2Cfft", "ShrinkC2R">>
    BY <1>3 DEF Kernels
  <2> QED
    BY <1>3, <2>1
<1>4. CASE solver.library = "fftw"
  <2>1. Kernels = <<"R2R">>
    BY <1>4 DEF Kernels
  <2> QED
    BY <1>4, <2>1
<1>5. CASE solver.library = "periodic"
  <2>1. Kernels = <<"R2C">> \/ Kernels = <<"C2R">>
    BY <1>5 DEF Kernels
  <2> QED
    BY <1>5, <2>1
<1> QED
  BY <1>1, <1>2, <1>3, <1>4, <1>5

\* Every kernel of Execute.
LEMMA ExecuteKeepsSizes ==
    ASSUME SizesKept, Execute
    PROVE  SizesKept'
<1>1. pc \in {"forward", "backward"}
  BY DEF Execute, Launch, LaunchToComplex, LaunchC2Rfft, LaunchToSine, LaunchTranspose,
         LaunchExpandR2R, LaunchR2Cfft, LaunchShrinkC2R, LaunchR2R, LaunchR2C, LaunchC2R
<1>2. solver \in Solvers /\ Allocated /\ kernel \in 1 .. Len(Kernels)
  BY <1>1 DEF SizesKept
<1>3. /\ Pos \in ArrayNames /\ Fourier \in ArrayNames
      /\ Dirichlet => DOMAIN mem[Pos] = Cells /\ DOMAIN mem[Fourier] = Cells
  BY <1>2 DEF Pos, Fourier, Allocated, ArrayNames
<1>4. /\ nx \in Nat \ {0} /\ ny \in Nat \ {0}
      /\ NData \in Nat \ {0} /\ NBatch \in Nat \ {0}
      /\ Cells = 0 .. NData * NBatch - 1
  BY <1>2, SizesOfBox
<1>5. /\ mem \in {mem, Consumed} /\ Consumed \in {mem, Consumed}
      /\ "staging" \in ArrayNames /\ "real" \in ArrayNames /\ "complex" \in ArrayNames
  BY DEF ArrayNames
<1>6. /\ DOMAIN mem["staging"] = Cells
      /\ DOMAIN mem["real"] = 0 .. NumReal - 1 /\ DOMAIN mem["complex"] = 0 .. NumComplex - 1
  BY <1>2 DEF Allocated
<1>7. pc # "define"
  BY <1>1
<1>8. ASSUME solver.library = "small"
      PROVE  /\ 0 .. (NData + 1) * NBatch - 1 \subseteq DOMAIN mem["real"]
             /\ 0 .. (NHalf(NData) + 1) * NBatch - 1 \subseteq DOMAIN mem["complex"]
  <2>1. /\ (NData + 1) * NBatch <= NumReal /\ NumReal \in Int
        /\ (NHalf(NData) + 1) * NBatch <= NumComplex /\ NumComplex \in Int
    BY <1>2, <1>8, RoomForBothPasses
  <2>2. (NData + 1) * NBatch \in Int /\ (NHalf(NData) + 1) * NBatch \in Int
    BY <1>4 DEF NHalf
  <2>3. /\ 0 .. (NData + 1) * NBatch - 1 \subseteq 0 .. NumReal - 1
        /\ 0 .. (NHalf(NData) + 1) * NBatch - 1 \subseteq 0 .. NumComplex - 1
    BY <2>1, <2>2, SmallerRange
  <2> QED
    BY <1>6, <2>3
<1>9. CASE LaunchToComplex
  <2> DEFINE in == IF FirstPass THEN Pos ELSE Fourier
             w == ToComplex(mem[in], NData, NBatch)
  <2>1. solver.library = "small"
    BY <1>2, <1>9, LibraryOfKernel DEF LaunchToComplex, Launch
  <2>2. DOMAIN mem[in] = Cells
    BY <1>3, <2>1 DEF Dirichlet
  <2>3. ToComplexReads(NData, NBatch) \subseteq DOMAIN mem[in]
    BY <1>4, <2>2, ToComplexInBounds
  <2>4. DOMAIN w \subseteq DOMAIN mem["complex"]
    BY <1>4, <1>8, <2>1, ToComplexInBounds
  <2>5. Launch("ToComplex", in, ToComplexReads(NData, NBatch), "complex", w, mem)
    BY <1>9 DEF LaunchToComplex
  <2> HIDE DEF in, w
  <2> QED
    BY <1>5, <1>7, <2>3, <2>4, <2>5, LaunchKeepsSizes
<1>10. CASE LaunchC2Rfft
  <2> DEFINE w == C2Rfft(mem["complex"], NData + 1, NBatch)
  <2>1. solver.library = "small"
    BY <1>2, <1>10, LibraryOfKernel DEF LaunchC2Rfft, Launch
  <2>2. DOMAIN w = 0 .. (NData + 1) * NBatch - 1
    BY DEF C2Rfft
  <2>3. Launch("C2Rfft", "complex", 0 .. (NHalf(NData) + 1) * NBatch - 1, "real", w, Consumed)
    BY <1>10 DEF LaunchC2Rfft
  <2> HIDE DEF w
  <2> QED
    BY <1>5, <1>7, <1>8, <2>1, <2>2, <2>3, LaunchKeepsSizes
<1>11. CASE LaunchToSine
  <2> DEFINE w == ToSine(mem["real"], NData, NBatch)
  <2>1. solver.library = "small"
    BY <1>2, <1>11, LibraryOfKernel DEF LaunchToSine, Launch
  <2>2. DOMAIN w \subseteq DOMAIN mem[Pos]
    BY <1>3, <1>4, <2>1, ToSineInBounds DEF Dirichlet
  <2>3. 1 .. (NData + 1) * NBatch - 1 \subseteq DOMAIN mem["real"]
    <3>1. 1 .. (NData + 1) * NBatch - 1 \subseteq 0 .. (NData + 1) * NBatch - 1
      OBVIOUS
    <3> QED
      BY <1>8, <2>1, <3>1
  <2>4. Launch("ToSine", "real", 1 .. (NData + 1) * NBatch - 1, Pos, w, mem)
    BY <1>11 DEF LaunchToSine
  <2> HIDE DEF w
  <2> QED
    BY <1>3, <1>5, <1>7, <2>2, <2>3, <2>4, LaunchKeepsSizes
<1>12. CASE LaunchTranspose
  <2> DEFINE w == Transpose(mem[Pos], NData, NBatch)
  <2>1. solver.library = "small"
    BY <1>2, <1>12, LibraryOfKernel DEF LaunchTranspose, Launch
  <2>2. DOMAIN w \subseteq DOMAIN mem[Fourier] /\ Cells \subseteq DOMAIN mem[Pos]
    BY <1>3, <1>4, <2>1, TransposeInBounds DEF Dirichlet
  <2>3. Launch("Transpose", Pos, Cells, Fourier, w, mem)
    BY <1>12 DEF LaunchTranspose
  <2> HIDE DEF w
  <2> QED
    BY <1>3, <1>5, <1>7, <2>2, <2>3, LaunchKeepsSizes
<1>13. CASE LaunchExpandR2R
  <2> DEFINE w == ExpandR2R(mem[Pos])
  <2>1. solver.library = "expanded"
    BY <1>2, <1>13, LibraryOfKernel DEF LaunchExpandR2R, Launch
  <2>2. NumReal = Width * Height
    BY <2>1 DEF NumReal
  <2>3. DOMAIN w \subseteq DOMAIN mem["real"] /\ Cells \subseteq DOMAIN mem[Pos]
    BY <1>3, <1>4, <1>6, <2>1, <2>2, ExpandR2RInBounds DEF Dirichlet
  <2>4. Launch("ExpandR2R", Pos, Cells, "real", w, mem)
    BY <1>13 DEF LaunchExpandR2R
  <2> HIDE DEF w
  <2> QED
    BY <1>3, <1>5, <1>7, <2>3, <2>4, LaunchKeepsSizes
<1>14. CASE LaunchR2Cfft
  <2> DEFINE w == R2Cfft(mem["real"], Width, Height)
  <2>1. solver.library = "expanded"
    BY <1>2, <1>14, LibraryOfKernel DEF LaunchR2Cfft, Launch
  <2>2. NumReal = Width * Height /\ NumComplex = (nx + 2) * Height
    BY <2>1 DEF NumReal, NumComplex
  <2>3. Width \div 2 + 1 = nx + 2
    BY <1>4 DEF Width
  <2>4. DOMAIN w = 0 .. (nx + 2) * Height - 1
    BY <2>3 DEF R2Cfft
  <2>5. Launch("R2Cfft", "real", 0 .. Width * Height - 1, "complex", w, mem)
    BY <1>14 DEF LaunchR2Cfft
  <2> HIDE DEF w
  <2> QED
    BY <1>5, <1>6, <1>7, <2>2, <2>4, <2>5, LaunchKeepsSizes
<1>15. CASE LaunchShrinkC2R
  <2> DEFINE w == ShrinkC2R(mem["complex"])
             reads == {At(nx + 2, i, j) : i \in 1 .. nx, j \in 1 .. ny}
  <2>1. solver.library = "expanded"
    BY <1>2, <1>15, LibraryOfKernel DEF LaunchShrinkC2R, Launch
  <2>2. NumComplex = (nx + 2) * Height
    BY <2>1 DEF NumComplex
  <2>3. reads \subseteq DOMAIN mem["complex"]
    BY <1>4, <1>6, <2>2, ShrinkC2RInBounds
  <2>4. DOMAIN w \subseteq DOMAIN mem[Fourier]
    BY <1>3, <2>1 DEF ShrinkC2R, Dirichlet
  <2>5. Launch("ShrinkC2R", "complex", reads, Fourier, w, mem)
    BY <1>15 DEF LaunchShrinkC2R
  <2> HIDE DEF w, reads
  <2> QED
    BY <1>3, <1>5, <1>7, <2>3, <2>4, <2>5, LaunchKeepsSizes
<1>16. CASE LaunchR2R
  <2> DEFINE w == Dst(mem[Pos])
  <2>1. solver.library = "fftw"
    BY <1>2, <1>16, LibraryOfKernel DEF LaunchR2R, Launch
  <2>2. DOMAIN w \subseteq DOMAIN mem[Fourier] /\ Cells \subseteq DOMAIN mem[Pos]
    BY <1>3, <2>1 DEF Dst, Dirichlet
  <2>3. Launch("R2R", Pos, Cells, Fourier, w, mem)
    BY <1>16 DEF LaunchR2R
  <2> HIDE DEF w
  <2> QED
    BY <1>3, <1>5, <1>7, <2>2, <2>3, LaunchKeepsSizes
<1>17. CASE LaunchR2C
  <2> DEFINE w == R2Cfft(mem["staging"], nx, ny)
  <2>1. solver.library = "periodic"
    BY <1>2, <1>17, LibraryOfKernel DEF LaunchR2C, Launch
  <2>2. DOMAIN w \subseteq DOMAIN mem["complex"]
    BY <1>6, <2>1 DEF R2Cfft, NumComplex
  <2>3. Launch("R2C", "staging", Cells, "complex", w, mem)
    BY <1>17 DEF LaunchR2C
  <2> HIDE DEF w
  <2> QED
    BY <1>5, <1>6, <1>7, <2>2, <2>3, LaunchKeepsSizes
<1>18. CASE LaunchC2R
  <2> DEFINE w == C2Rfft2D(mem["complex"], nx, ny)
             reads == 0 .. (nx \div 2 + 1) * ny - 1
  <2>1. solver.library = "periodic"
    BY <1>2, <1>18, LibraryOfKernel DEF LaunchC2R, Launch
  <2>2. reads \subseteq DOMAIN mem["complex"]
    BY <1>6, <2>1 DEF NumComplex
  <2>3. DOMAIN w \subseteq DOMAIN mem["staging"]
    BY <1>6 DEF C2Rfft2D, Cells
  <2>4. Launch("C2R", "complex", reads, "staging", w, Consumed)
    BY <1>18 DEF LaunchC2R
  <2> HIDE DEF w, reads
  <2> QED
    BY <1>5, <1>7, <2>2, <2>3, <2>4, LaunchKeepsSizes
<1> QED
  BY <1>9, <1>10, <1>11, <1>12, <1>13, <1>14, <1>15, <1>16, <1>17, <1>18 DEF Execute

LEMMA InitSizes ==
    ASSUME Init
    PROVE  SizesKept
<1>1. solver \in Solvers /\ pc = "define" /\ kernel = 1 /\ outside = {}
  BY DEF Init
<1>2. solver.library \in {"fftw", "small", "expanded", "periodic"}
  BY <1>1, SolverAssumption
<1>3. Len(Kernels) \in Nat \ {0}
  BY <1>2 DEF Kernels
<1> QED
  BY <1>1, <1>3 DEF SizesKept, KernelsInBounds

\* A step of the caller or of the solver between kernels: the arrays keep
\* their sizes.
LEMMA OtherStepsKeepSizes ==
    ASSUME SizesKept, solver' = solver, kernel' = kernel, outside' = outside,
           pc' # "define" => Allocated'
    PROVE  SizesKept'
<1>1. Len(Kernels)' = Len(Kernels)
  BY KernelCount DEF SizesKept
<1> QED
  BY <1>1 DEF SizesKept, KernelsInBounds

\* The sizes of the arrays follow from the solver.
LEMMA SizesOfSolver ==
    ASSUME solver' = solver
    PROVE  /\ Cells' = Cells /\ Dirichlet' = Dirichlet
           /\ NumReal' = NumReal /\ NumComplex' = NumComplex
  BY DEF Cells, Dirichlet, NumReal, NumComplex, RealSize, ComplexSize, Width, Height, nx, ny

\* An array replaced by one of the same size.
LEMMA ReplaceKeepsSizes ==
    ASSUME Allocated, solver' = solver, NEW name \in ArrayNames, NEW a,
           DOMAIN a = DOMAIN mem[name], mem' = [mem EXCEPT ![name] = a]
    PROVE  Allocated'
<1>1. /\ DOMAIN mem' = ArrayNames /\ mem' = [n \in ArrayNames |-> mem'[n]]
      /\ \A n \in ArrayNames : DOMAIN mem'[n] = DOMAIN mem[n]
  BY DEF Allocated
<1>2. /\ Cells' = Cells /\ Dirichlet' = Dirichlet
      /\ NumReal' = NumReal /\ NumComplex' = NumComplex
  BY SizesOfSolver
<1> QED
  BY <1>1, <1>2 DEF Allocated, ArrayNames

LEMMA NextKeepsSizes ==
    ASSUME SizesKept, [Next]_vars
    PROVE  SizesKept'
<1>1. CASE Define
  <2>1. solver' = solver /\ kernel' = kernel /\ outside' = outside
    BY <1>1 DEF Define
  <2>2. /\ Cells' = Cells /\ Dirichlet' = Dirichlet
        /\ NumReal' = NumReal /\ NumComplex' = NumComplex
    BY <2>1, SizesOfSolver
  <2>3. /\ DOMAIN mem' = ArrayNames
        /\ mem' = [n \in ArrayNames |-> mem'[n]]
        /\ DOMAIN mem'["staging"] = Cells
        /\ DOMAIN mem'["spectral"] = IF Dirichlet THEN Cells ELSE {}
        /\ DOMAIN mem'["real"] = 0 .. NumReal - 1
        /\ DOMAIN mem'["complex"] = 0 .. NumComplex - 1
    BY <1>1 DEF Define, ArrayNames
  <2>4. Allocated'
    BY <2>2, <2>3 DEF Allocated
  <2> QED
    BY <2>1, <2>4, OtherStepsKeepSizes
<1>2. CASE LinCombination
  <2>1. PICK input \in Inputs : mem' = [mem EXCEPT !["staging"] = input.rhs]
    BY <1>2 DEF LinCombination
  <2>2. Allocated /\ solver' = solver /\ kernel' = kernel /\ outside' = outside
    BY <1>2 DEF LinCombination, SizesKept
  <2>3. DOMAIN input.rhs = Cells
    BY DEF Inputs, Unit, Zeros
  <2>4. Allocated'
    BY <2>1, <2>2, <2>3, ReplaceKeepsSizes DEF Allocated, ArrayNames
  <2> QED
    BY <2>2, <2>4, OtherStepsKeepSizes
<1>3. CASE SetBoundaryCondition
  <2> DEFINE a == SetDirichletBoundaries(mem["staging"], boundary)
  <2>1. Allocated /\ solver' = solver /\ kernel' = kernel /\ outside' = outside
    BY <1>3 DEF SetBoundaryCondition, SizesKept
  <2>2. mem' = [mem EXCEPT !["staging"] = a]
    BY <1>3 DEF SetBoundaryCondition
  <2>3. DOMAIN a = DOMAIN mem["staging"]
    BY DEF SetDirichletBoundaries
  <2> HIDE DEF a
  <2>4. Allocated'
    BY <2>1, <2>2, <2>3, ReplaceKeepsSizes DEF ArrayNames
  <2> QED
    BY <2>1, <2>4, OtherStepsKeepSizes
<1>4. CASE Execute
  BY <1>4, ExecuteKeepsSizes
<1>5. CASE Multiply
  <2>1. Allocated /\ solver' = solver /\ kernel' = kernel /\ outside' = outside
    BY <1>5 DEF Multiply, SizesKept
  <2>2. \E name \in ArrayNames : \E a :
            DOMAIN a = DOMAIN mem[name] /\ mem' = [mem EXCEPT ![name] = a]
    <3> DEFINE products == [k \in DOMAIN mem["spectral"] |->
                               Times(mem["spectral"][k], multiplier[k])]
               scaled == [k \in DOMAIN mem["complex"] |->
                             Scaled(mem["complex"][k], multiplier[k])]
    <3>1. mem' = [mem EXCEPT !["spectral"] = products]
          \/ mem' = [mem EXCEPT !["complex"] = scaled]
      BY <1>5 DEF Multiply
    <3>2. DOMAIN products = DOMAIN mem["spectral"] /\ DOMAIN scaled = DOMAIN mem["complex"]
      OBVIOUS
    <3> HIDE DEF products, scaled
    <3> QED
      BY <3>1, <3>2 DEF ArrayNames
  <2>3. Allocated'
    BY <2>1, <2>2, ReplaceKeepsSizes
  <2> QED
    BY <2>1, <2>3, OtherStepsKeepSizes
<1>6. CASE CopySolution
  <2>1. Allocated /\ solver' = solver /\ kernel' = kernel /\ outside' = outside /\ mem' = mem
    BY <1>6 DEF CopySolution, SizesKept
  <2>2. Allocated'
    BY <2>1, SizesOfSolver DEF Allocated
  <2> QED
    BY <2>1, <2>2, OtherStepsKeepSizes
<1>7. CASE Terminating \/ UNCHANGED vars
  <2>1. solver' = solver /\ kernel' = kernel /\ outside' = outside /\ mem' = mem /\ pc' = pc
    BY <1>7 DEF Terminating, vars
  <2>2. pc' # "define" => Allocated'
    BY <2>1, SizesOfSolver DEF Allocated, SizesKept
  <2> QED
    BY <2>1, <2>2, OtherStepsKeepSizes
<1> QED
  BY <1>1, <1>2, <1>3, <1>4, <1>5, <1>6, <1>7 DEF Next

-----------------------------------------------------------------------------
(* Theorem                                                                 *)

\* For every size of the box, every library and any number of solves, no
\* kernel reads or writes outside of the arrays that define and CreatePlan
\* allocated once.
THEOREM SolverStaysInBounds == Spec => []KernelsInBounds
<1>1. Init => SizesKept
  BY InitSizes
<1>2. SizesKept /\ [Next]_vars => SizesKept'
  BY NextKeepsSizes
<1>3. SizesKept => KernelsInBounds
  BY DEF SizesKept
<1> QED
  BY <1>1, <1>2, <1>3, PTL DEF Spec
=============================================================================
