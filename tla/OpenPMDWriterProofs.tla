------------------------- MODULE OpenPMDWriterProofs -------------------------
(***************************************************************************)
(* Proofs about OpenPMDWriter, for a domain of any length and any number   *)
(* of ranks, boxes, beams and particles.  First the fields: the coarse     *)
(* cells put together box by box are the interpolation of all slices.      *)
(* Then the beams, from their injection to a restart: what a tile holds,   *)
(* where its particles are, what time they have, which rows of a dump they *)
(* get, the slots and identifiers of the injection, what a second run      *)
(* reads, and that no particle is missing or twice in a dump.              *)
(***************************************************************************)
EXTENDS OpenPMDWriter, SumLemmas

\* The coarsening divides the boxes, or there is one box: otherwise two boxes
\* store the same coarse cell.
CoarseningFits ==
    \A c \in Simulations :
        LET n == IF c.boxesInZ = 1 THEN c.nprocs ELSE c.boxesInZ
        IN  n = 1 \/ (NCells[3] \div n) % c.coarsening = 0

-----------------------------------------------------------------------------
(* The invariant                                                           *)

\* The coarse cells of a box.
PerBox == IF NBoxes = 1 THEN NCoarse ELSE BoxLength \div conf.coarsening

\* The linear interpolation: weight of slice i in coarse cell k, and all of it.
Hat(k, i) ==
    Unit - (IF Unit * i > Centre(k) THEN Unit * i - Centre(k) ELSE Centre(k) - Unit * i)

Interpolated(k) ==
    {<<step, i, Hat(k, i)>> : i \in {j \in 0 .. NCells[3] - 1 : Hat(k, j) > 0}}

\* The parts of a time step, and whether one of its boxes has been written.
InStep == {"wait", "sort", "beams", "solve", "fields", "notify", "end"}

Written(b) == b > it \/ (b = it /\ pc \in {"notify", "end"})

Begun == it < NBoxes - 1 \/ pc \in {"notify", "end"}

Injecting == {"inject", "fill", "injected", "aborted"}

\* Where the program is.  A step is the last one dumped from its first box on.
Control ==
    /\ conf \in Simulations
    /\ step \in Nat
    /\ it \in Boxes
    /\ pc \in Injecting \union {"step"} \union InStep
    /\ pc = "end" => it = 0
    /\ file # {} => pc \in Injecting
    /\ lastDumped \in Int
    /\ pc \in InStep =>
           IF Begun /\ IsOutputStep(step) THEN lastDumped = step ELSE lastDumped < step
    /\ pc \notin InStep /\ file = {} => lastDumped < step

\* A sequence of n.
HasRows(data, n) ==
    DOMAIN data = 1 .. n /\ Len(data) = n /\ data = [k \in 1 .. n |-> data[k]]

\* The box being written, and what has been written in this step.
FieldOK ==
    /\ "field" \in DOMAIN dump
    /\ pc = "fields" => fab = FillDiagnostics(ResizeFDiagFAB(it), it)
    /\ pc \in InStep /\ Begun /\ IsOutputStep(step) =>
           /\ HasRows(dump.field, NCoarse)
           /\ \A b \in Boxes : Written(b) =>
                  \A k \in CoarseBox(b) : dump.field[k + 1] = Interpolated(k)

-----------------------------------------------------------------------------
(* Division                                                                *)

LEMMA Quotient ==
    ASSUME NEW a \in Int, NEW c \in Nat \ {0}
    PROVE  /\ a \div c \in Int /\ a % c \in Int
           /\ 0 <= a % c /\ a % c < c
           /\ a = c * (a \div c) + (a % c)
  OBVIOUS

LEMMA QuotientIs ==
    ASSUME NEW c \in Nat \ {0}, NEW q \in Int, NEW r \in Int, 0 <= r, r < c
    PROVE  (c * q + r) \div c = q
<1> DEFINE a == c * q + r
           p == a \div c
           s == a % c
<1>1. a \in Int /\ p \in Int /\ s \in Int /\ 0 <= s /\ s < c /\ a = c * p + s
  BY Quotient
<1> HIDE DEF p, s
<1>2. CASE p < q
  <2>1. c * p + c <= c * q
    <3>1. p + 1 <= q
      BY <1>1, <1>2
    <3>2. c * (p + 1) <= c * q
      BY <1>1, <3>1
    <3> QED
      BY <1>1, <3>2
  <2> QED
    BY <1>1, <2>1
<1>3. CASE q < p
  <2>1. c * q + c <= c * p
    <3>1. q + 1 <= p
      BY <1>1, <1>3
    <3>2. c * (q + 1) <= c * p
      BY <1>1, <3>1
    <3> QED
      BY <1>1, <3>2
  <2> QED
    BY <1>1, <2>1
<1>4. p = q
  BY <1>1, <1>2, <1>3
<1> QED
  BY <1>4 DEF p

\* The quotient is at least q, or below it.
LEMMA QuotientBounds ==
    ASSUME NEW a \in Int, NEW c \in Nat \ {0}, NEW q \in Int
    PROVE  /\ c * q <= a => q <= a \div c
           /\ a < c * q => a \div c < q
<1> DEFINE p == a \div c
           s == a % c
<1>1. p \in Int /\ s \in Int /\ 0 <= s /\ s < c /\ a = c * p + s
  BY Quotient
<1> HIDE DEF p, s
<1>2. ASSUME c * q <= a, p < q PROVE FALSE
  <2>1. p + 1 <= q
    BY <1>1, <1>2
  <2>2. c * (p + 1) <= c * q
    BY <1>1, <2>1
  <2>3. c * (p + 1) = c * p + c
    BY <1>1
  <2> QED
    BY <1>1, <1>2, <2>2, <2>3
<1>3. ASSUME a < c * q, q <= p PROVE FALSE
  <2>1. c * q <= c * p
    BY <1>1, <1>3
  <2> QED
    BY <1>1, <1>3, <2>1
<1>4. (c * q <= a => q <= p) /\ (a < c * q => p < q)
  BY <1>1, <1>2, <1>3
<1> QED
  BY <1>4 DEF p

-----------------------------------------------------------------------------
(* Boxes and coarse cells                                                  *)

\* What is known of the boxes.
LEMMA BoxFacts ==
    ASSUME conf \in Simulations
    PROVE  /\ NBoxes \in Nat \ {0} /\ BoxLength \in Nat \ {0} /\ NCells[3] \in Nat \ {0}
           /\ NCells[3] = NBoxes * BoxLength
           /\ conf.coarsening \in Nat \ {0} /\ NCoarse \in Nat \ {0}
           /\ NProcs \in Nat \ {0} /\ conf.rank \in 0 .. NProcs - 1
<1>1. BoxesAllowed(conf) /\ NCells[3] \in Nat \ {0}
  BY WriterAssumption, InjectionAssumption
<1>2. NProcs \in Nat \ {0} /\ conf.rank \in 0 .. NProcs - 1 /\ NBoxes \in Nat \ {0}
  BY <1>1 DEF BoxesAllowed, NBoxes, NProcs
<1>3. NCells[3] % NBoxes = 0 /\ BoxLength >= 3 /\ conf.coarsening \in Nat \ {0}
  BY <1>1 DEF BoxesAllowed, NBoxes, NProcs, BoxLength
<1>4. BoxLength \in Int /\ NCells[3] = NBoxes * BoxLength + (NCells[3] % NBoxes)
  <2> DEFINE N == NCells[3]
             n == NBoxes
  <2>1. N \in Int /\ n \in Nat \ {0} /\ BoxLength = N \div n
    BY <1>1, <1>2 DEF BoxLength
  <2> HIDE DEF N, n
  <2>2. BoxLength \in Int /\ N = n * BoxLength + (N % n)
    BY <2>1, Quotient
  <2> QED
    BY <2>2 DEF N, n
<1>5. NCoarse \in Nat \ {0}
  <2> DEFINE q == (NCells[3] - 1) \div conf.coarsening
  <2>1. conf.coarsening * 0 <= NCells[3] - 1 /\ NCells[3] - 1 \in Int
    BY <1>1, <1>3
  <2>2. 0 <= q /\ q \in Int
    BY <1>3, <2>1, QuotientBounds, Quotient
  <2> HIDE DEF q
  <2> QED
    BY <2>2 DEF NCoarse, q
<1>6. NBoxes * BoxLength \in Int
  BY <1>2, <1>4
<1> QED
  BY <1>1, <1>2, <1>3, <1>4, <1>5, <1>6

\* One box has all coarse cells; several have as many each, side by side.
LEMMA CoarseBoxIs ==
    ASSUME CoarseningFits, conf \in Simulations
    PROVE  /\ PerBox \in Nat \ {0} /\ NCoarse = NBoxes * PerBox
           /\ \A b \in Boxes : /\ SmallEnd(b) \div conf.coarsening = b * PerBox
                               /\ BigEnd(b) \div conf.coarsening = b * PerBox + (PerBox - 1)
<1>0. /\ NBoxes \in Nat \ {0} /\ BoxLength \in Nat \ {0} /\ NCells[3] \in Nat \ {0}
      /\ NCells[3] = NBoxes * BoxLength /\ conf.coarsening \in Nat \ {0} /\ NCoarse \in Nat \ {0}
  BY BoxFacts
<1> DEFINE c == conf.coarsening
           m == PerBox
           n == NBoxes
           L == BoxLength
           N == NCells[3]
<1>1. CASE n = 1
  <2>1. \A b \in Boxes : b = 0
    BY <1>1 DEF Boxes
  <2>2. SmallEnd(0) = c * 0 + 0 /\ BigEnd(0) = NCells[3] - 1
    BY <1>0, <1>1 DEF SmallEnd, BigEnd
  <2>3. SmallEnd(0) \div c = 0
    <3>1. (c * 0 + 0) \div c = 0
      BY <1>0, QuotientIs
    <3> QED
      BY <2>2, <3>1
  <2>4. m = NCoarse /\ NCoarse = (NCells[3] - 1) \div c + 1
    BY <1>1 DEF PerBox, NCoarse
  <2>5. (NCells[3] - 1) \div c \in Int
    BY <1>0, Quotient
  <2>6. BigEnd(0) \div c = 0 * m + (m - 1) /\ 0 = 0 * m /\ m \in Nat \ {0} /\ NCoarse = 1 * m
    BY <1>0, <2>2, <2>4, <2>5
  <2> QED
    BY <1>1, <2>1, <2>3, <2>6
<1>2. CASE n # 1
  <2>1. L % c = 0
    BY <1>2 DEF CoarseningFits, NBoxes, NProcs, BoxLength
  <2>2. m = L \div c /\ m \in Int
    BY <1>0, <1>2, Quotient DEF PerBox
  <2>3. L = c * m
    <3>1. L \in Int /\ c \in Nat \ {0} /\ L % c = 0 /\ m = L \div c
      BY <1>0, <2>1, <2>2
    <3> HIDE DEF L, c, m
    <3>2. L = c * (L \div c) + (L % c) /\ L \div c \in Int
      BY <3>1, Quotient
    <3> QED
      BY <3>1, <3>2
  <2>4. m >= 1
    <3>1. c * 0 < c * m
      BY <1>0, <2>3
    <3>2. CASE m <= 0
      <4>1. c * m <= c * 0
        BY <1>0, <2>2, <3>2
      <4> QED
        BY <1>0, <2>2, <3>1, <4>1
    <3> QED
      BY <2>2, <3>2
  <2> HIDE DEF c, m, n, L, N
  <2>5. /\ c \in Nat \ {0} /\ m \in Nat \ {0} /\ n \in Nat \ {0} /\ L = c * m /\ N = n * L
        /\ L \in Int /\ N \in Int
    BY <1>0, <2>2, <2>3, <2>4 DEF c, n, L, N
  <2>6. ASSUME NEW x \in Int
        PROVE  (x * L) \div c = x * m /\ (x * L - 1) \div c = x * m - 1
    <3>1. x * m \in Int /\ x * L = c * (x * m)
      BY <2>5
    <3>2. c * (x * m - 1) = c * (x * m) - c
      BY <2>5, <3>1
    <3>3. x * L = c * (x * m) + 0 /\ x * L - 1 = c * (x * m - 1) + (c - 1)
      BY <2>5, <3>1, <3>2
    <3>4. (c * (x * m) + 0) \div c = x * m
      BY <2>5, <3>1, QuotientIs
    <3>5. (c * (x * m - 1) + (c - 1)) \div c = x * m - 1
      BY <2>5, <3>1, QuotientIs
    <3> QED
      BY <3>3, <3>4, <3>5
  <2>7. NCoarse = n * m
    <3>1. (N - 1) \div c = n * m - 1
      BY <2>5, <2>6
    <3>2. NCoarse = (N - 1) \div c + 1
      BY DEF NCoarse, N, c
    <3> QED
      BY <2>5, <3>1, <3>2
  <2>8. ASSUME NEW b \in Boxes
        PROVE  SmallEnd(b) \div c = b * m /\ BigEnd(b) \div c = b * m + (m - 1)
    <3>1. b \in Int
      BY <2>5 DEF Boxes, n
    <3>2. SmallEnd(b) = b * L /\ BigEnd(b) = (b + 1) * L - 1
      BY DEF SmallEnd, BigEnd, L
    <3>3. (b + 1) * m = b * m + m /\ b * m \in Int
      BY <2>5, <3>1
    <3>4. (b * L) \div c = b * m /\ ((b + 1) * L - 1) \div c = (b + 1) * m - 1
      BY <2>6, <3>1
    <3> QED
      BY <2>5, <3>2, <3>3, <3>4
  <2> QED
    BY <2>5, <2>7, <2>8 DEF c, m, n
<1> QED
  BY <1>1, <1>2

\* The coarse cell of a slice that contributes to it is near the slice.
LEMMA NearEnough ==
    ASSUME NEW C \in Nat \ {0}, NEW N \in Nat \ {0}, NEW k \in Int, NEW i \in Int,
           NEW z \in Int, z = (2 * k + 1) * N - C,
           2 * C * i - z < 2 * C, z - 2 * C * i < 2 * C
    PROVE  /\ ((2 * i - 1) * C) \div (2 * N) <= k
           /\ k <= ((2 * i + 3) * C) \div (2 * N)
<1> DEFINE x == C * i
           y == N * k
<1>1. /\ x \in Int /\ y \in Int /\ 2 * C * i = 2 * x /\ z = 2 * y + N - C
      /\ (2 * i - 1) * C = 2 * x - C /\ (2 * i + 3) * C = 2 * x + 3 * C
      /\ (2 * N) * k = 2 * y /\ (2 * N) * (k + 1) = 2 * y + 2 * N
  OBVIOUS
<1> HIDE DEF x, y
<1>2. (2 * N) * k <= (2 * i + 3) * C /\ (2 * i - 1) * C < (2 * N) * (k + 1)
  BY <1>1
<1>3. (2 * i + 3) * C \in Int /\ (2 * i - 1) * C \in Int /\ 2 * N \in Nat \ {0} /\ k + 1 \in Int
  BY <1>1
<1>4. k <= ((2 * i + 3) * C) \div (2 * N)
  BY <1>2, <1>3, QuotientBounds
<1>5. ((2 * i - 1) * C) \div (2 * N) < k + 1 /\ ((2 * i - 1) * C) \div (2 * N) \in Int
  BY <1>2, <1>3, QuotientBounds, Quotient
<1> QED
  BY <1>4, <1>5

\* The shape factor is the linear interpolation, where that is positive.
LEMMA RelZIsHat ==
    ASSUME conf \in Simulations, NEW k \in Int, NEW i \in Int
    PROVE  /\ RelZ(k, i) = IF Hat(k, i) > 0 THEN Hat(k, i) ELSE 0
           /\ Hat(k, i) \in Int
<1> DEFINE u == Unit
           z == Centre(k)
           q == z \div u
           r == z % u
<1>1. u \in Nat \ {0} /\ z \in Int
  BY BoxFacts DEF Unit, Centre
<1> HIDE DEF u, z
<1>2. q \in Int /\ r \in Int /\ 0 <= r /\ r < u /\ z = u * q + r
  BY <1>1, Quotient
<1> HIDE DEF q, r
<1>3. u * i \in Int /\ u * q \in Int
  BY <1>1, <1>2
<1>4. Hat(k, i) = u - (IF u * i > z THEN u * i - z ELSE z - u * i)
  BY DEF Hat, u, z
<1>5. RelZ(k, i) = IF i = q THEN u - r ELSE IF i = q + 1 THEN r ELSE 0
  BY DEF RelZ, u, z, q, r
<1>6. CASE i = q
  BY <1>1, <1>2, <1>3, <1>4, <1>5, <1>6
<1>7. CASE i = q + 1
  <2>1. u * i = u * q + u
    BY <1>1, <1>2, <1>7
  <2> QED
    BY <1>1, <1>2, <1>3, <1>4, <1>5, <1>7, <2>1
<1>8. CASE i < q
  <2>1. u * i <= u * q - u
    <3>1. i + 1 <= q
      BY <1>2, <1>8
    <3>2. u * (i + 1) <= u * q /\ u * (i + 1) = u * i + u
      BY <1>1, <1>2, <3>1
    <3> QED
      BY <1>1, <1>3, <3>2
  <2> QED
    BY <1>1, <1>2, <1>3, <1>4, <1>5, <1>8, <2>1
<1>9. CASE i > q + 1
  <2>1. u * i >= u * q + 2 * u
    <3>1. q + 2 <= i
      BY <1>2, <1>9
    <3>2. u * (q + 2) <= u * i /\ u * (q + 2) = u * q + 2 * u
      BY <1>1, <1>2, <3>1
    <3> QED
      BY <1>1, <1>3, <3>2
  <2> QED
    BY <1>1, <1>2, <1>3, <1>4, <1>5, <1>9, <2>1
<1> QED
  BY <1>2, <1>6, <1>7, <1>8, <1>9

\* Where it is positive.
LEMMA HatIsPositive ==
    ASSUME conf \in Simulations, NEW k \in Int, NEW i \in Int, Hat(k, i) > 0
    PROVE  /\ 2 * NCoarse * i - Centre(k) < 2 * NCoarse
           /\ Centre(k) - 2 * NCoarse * i < 2 * NCoarse
           /\ Centre(k) \in Int
<1>1. NCoarse \in Nat \ {0} /\ NCells[3] \in Nat \ {0}
  BY BoxFacts
<1> DEFINE x == 2 * NCoarse * i
           z == Centre(k)
<1>2. x \in Int /\ z \in Int /\ Unit * i = x /\ Unit = 2 * NCoarse
  BY <1>1 DEF Unit, Centre
<1>3. Hat(k, i) = Unit - (IF x > z THEN x - z ELSE z - x)
  BY <1>2 DEF Hat
<1> HIDE DEF x, z
<1>4. x - z < 2 * NCoarse /\ z - x < 2 * NCoarse
  BY <1>1, <1>2, <1>3
<1> QED
  BY <1>2, <1>4 DEF x, z

LEMMA SliceIsNear ==
    ASSUME conf \in Simulations, NEW k \in Int, NEW i \in Int, Hat(k, i) > 0
    PROVE  k \in CoarseNear(i)
<1> DEFINE C == NCoarse
           N == NCells[3]
           z == Centre(k)
<1>1. /\ C \in Nat \ {0} /\ N \in Nat \ {0} /\ z \in Int /\ z = (2 * k + 1) * N - C
      /\ 2 * C * i - z < 2 * C /\ z - 2 * C * i < 2 * C
  BY BoxFacts, HatIsPositive DEF Centre
<1> HIDE DEF C, N, z
<1>2. ((2 * i - 1) * C) \div (2 * N) <= k /\ k <= ((2 * i + 3) * C) \div (2 * N)
  BY <1>1, NearEnough
<1>3. ((2 * i - 1) * C) \div (2 * N) \in Int /\ ((2 * i + 3) * C) \div (2 * N) \in Int
  BY <1>1, Quotient
<1> QED
  BY <1>2, <1>3 DEF CoarseNear, C, N

\* It is in the box of the coarse cell.
LEMMA SliceInBox ==
    ASSUME CoarseningFits, conf \in Simulations, NEW b \in Boxes, NEW k \in CoarseBox(b),
           NEW i \in 0 .. NCells[3] - 1, Hat(k, i) > 0
    PROVE  i \in SmallEnd(b) .. BigEnd(b)
<1>0. /\ NBoxes \in Nat \ {0} /\ BoxLength \in Nat \ {0} /\ NCells[3] \in Nat \ {0}
      /\ NCells[3] = NBoxes * BoxLength /\ conf.coarsening \in Nat \ {0} /\ NCoarse \in Nat \ {0}
      /\ b \in Int
  BY BoxFacts DEF Boxes
<1>1. CASE NBoxes = 1
  <2>1. SmallEnd(b) = 0 /\ BigEnd(b) = NCells[3] - 1
    BY <1>0, <1>1 DEF Boxes, SmallEnd, BigEnd
  <2> QED
    BY <2>1
<1>2. CASE NBoxes # 1
  <2> DEFINE c == conf.coarsening
             m == PerBox
             n == NBoxes
             C == NCoarse
             L == BoxLength
             z == Centre(k)
  <2>1. L % c = 0 /\ m = L \div c /\ L \in Int
    BY <1>0, <1>2 DEF CoarseningFits, NBoxes, NProcs, BoxLength, PerBox
  <2>2. m \in Nat \ {0} /\ C = n * m
    BY CoarseBoxIs
  <2>3. L = c * m
    <3> HIDE DEF L, c, m
    <3>1. L = c * (L \div c) + (L % c) /\ L \div c \in Int /\ c \in Nat \ {0}
      BY <1>0, <2>1, Quotient DEF c
    <3> QED
      BY <2>1, <3>1
  <2>4. k \in b * m .. b * m + (m - 1)
    BY CoarseBoxIs DEF CoarseBox
  <2>5. /\ z = (2 * k + 1) * NCells[3] - C /\ z \in Int
        /\ 2 * C * i - z < 2 * C /\ z - 2 * C * i < 2 * C
    BY <1>0, <2>4, HatIsPositive DEF Centre
  <2>6. SmallEnd(b) = b * L /\ BigEnd(b) = (b + 1) * L - 1 /\ NCells[3] = n * L
    BY <1>0 DEF SmallEnd, BigEnd
  <2>7. c \in Nat \ {0} /\ n \in Nat \ {0} /\ C \in Nat \ {0} /\ k \in Int /\ i \in Int
    BY <1>0, <2>2, <2>4
  <2> HIDE DEF c, m, n, C, L, z
  <2>8. NCells[3] = C * c
    BY <2>2, <2>3, <2>6, <2>7
  <2> DEFINE kc == k * c
  <2>9. kc \in Int /\ z = C * (2 * kc + c - 1)
    BY <2>5, <2>7, <2>8
  <2> HIDE DEF kc
  <2>10. C * (2 * i - 2 * kc - c - 1) < 0 /\ C * (2 * kc + c - 3 - 2 * i) < 0
    BY <2>5, <2>7, <2>9
  <2>11. 2 * i - 2 * kc - c - 1 < 0 /\ 2 * kc + c - 3 - 2 * i < 0
    BY <2>7, <2>9, <2>10
  <2>12. kc <= i /\ i <= kc + c - 1
    BY <2>7, <2>9, <2>11
  <2>13. (b * m) * c <= kc /\ kc <= (b * m + (m - 1)) * c
    BY <1>0, <2>2, <2>4, <2>7 DEF kc
  <2>14. (b * m) * c = b * L /\ (b * m + (m - 1)) * c = (b + 1) * L - c /\ b * L \in Int /\ (b + 1) * L \in Int
    BY <1>0, <2>2, <2>3, <2>7
  <2> QED
    BY <2>6, <2>7, <2>9, <2>12, <2>13, <2>14
<1> QED
  BY <1>1, <1>2

\* What one box writes is the interpolation of all slices.
LEMMA BoxIsInterpolated ==
    ASSUME CoarseningFits, conf \in Simulations, NEW b \in Boxes, NEW k \in CoarseBox(b)
    PROVE  FillDiagnostics(ResizeFDiagFAB(b), b)[k] = Interpolated(k)
<1> DEFINE near == {j \in SmallEnd(b) .. BigEnd(b) : k \in CoarseNear(j) /\ RelZ(k, j) # 0}
           all == {j \in 0 .. NCells[3] - 1 : Hat(k, j) > 0}
<1>1. FillDiagnostics(ResizeFDiagFAB(b), b)[k] = {<<step, i, RelZ(k, i)>> : i \in near}
  BY DEF FillDiagnostics, ResizeFDiagFAB
<1>2. k \in Int
  BY CoarseBoxIs, BoxFacts DEF CoarseBox, Boxes
<1>3. /\ SmallEnd(b) \in Int /\ BigEnd(b) \in Int /\ 0 <= SmallEnd(b) /\ BigEnd(b) <= NCells[3] - 1
      /\ NCells[3] \in Int
  <2> DEFINE n == NBoxes
             L == BoxLength
  <2>1. n \in Nat \ {0} /\ L \in Nat \ {0} /\ b \in 0 .. n - 1 /\ NCells[3] = n * L
        /\ SmallEnd(b) = b * L /\ BigEnd(b) = (b + 1) * L - 1
    BY BoxFacts DEF Boxes, SmallEnd, BigEnd
  <2> HIDE DEF n, L
  <2>2. 0 <= b * L /\ (b + 1) * L <= n * L /\ b * L \in Int /\ (b + 1) * L \in Int /\ n * L \in Int
    BY <2>1
  <2> QED
    BY <2>1, <2>2
<1>4. \A i \in Int : /\ RelZ(k, i) = IF Hat(k, i) > 0 THEN Hat(k, i) ELSE 0
                     /\ Hat(k, i) \in Int
  BY <1>2, RelZIsHat
<1>5. \A i \in near : i \in all /\ RelZ(k, i) = Hat(k, i)
  BY <1>3, <1>4
<1>6. \A i \in all : i \in near
  <2> TAKE i \in all
  <2>1. i \in SmallEnd(b) .. BigEnd(b)
    BY SliceInBox
  <2>2. k \in CoarseNear(i)
    BY <1>2, SliceIsNear
  <2>3. RelZ(k, i) # 0
    BY <1>4
  <2> QED
    BY <2>1, <2>2, <2>3
<1> HIDE DEF near, all
<1>7. near = all /\ \A i \in near : RelZ(k, i) = Hat(k, i)
  BY <1>5, <1>6
<1>8. {<<step, i, RelZ(k, i)>> : i \in near} = {<<step, i, Hat(k, i)>> : i \in all}
  BY <1>7
<1> QED
  BY <1>1, <1>8 DEF Interpolated, all

-----------------------------------------------------------------------------
(* Data sets                                                               *)

\* A function of 1 to n is a sequence of n.
LEMMA RowsOfFunction ==
    ASSUME NEW n \in Nat, NEW f, f = [k \in 1 .. n |-> f[k]]
    PROVE  HasRows(f, n)
<1> DEFINE S == {f[k] : k \in 1 .. n}
<1>1. f \in [1 .. n -> S]
  OBVIOUS
<1> HIDE DEF S
<1>2. f \in Seq(S) /\ DOMAIN f = 1 .. n
  BY <1>1
<1>3. Len(f) \in Nat /\ DOMAIN f = 1 .. Len(f)
  BY <1>2
<1>4. Len(f) = n
  BY <1>2, <1>3
<1> QED
  BY <1>2, <1>4 DEF HasRows

LEMMA DataSetRows ==
    ASSUME NEW n \in Nat
    PROVE  HasRows(DataSet(n), n)
  BY RowsOfFunction DEF DataSet

\* A chunk that fits is put into its rows, and changes no other.
LEMMA ChunkStored ==
    ASSUME NEW n \in Nat, NEW data, HasRows(data, n), NEW offset \in Nat,
           NEW l \in Nat, NEW chunk, HasRows(chunk, l), offset + l <= n
    PROVE  /\ HasRows(StoreChunk(data, offset, chunk), n)
           /\ \A k \in 1 .. n : StoreChunk(data, offset, chunk)[k] =
                  IF k \in offset + 1 .. offset + l THEN chunk[k - offset] ELSE data[k]
<1> DEFINE new == [k \in 1 .. n |-> IF k \in offset + 1 .. offset + l
                                    THEN chunk[k - offset] ELSE data[k]]
<1>1. StoreChunk(data, offset, chunk) = new
  BY DEF StoreChunk, Fits, HasRows
<1>2. new = [k \in 1 .. n |-> new[k]]
  OBVIOUS
<1>3. HasRows(new, n)
  <2> HIDE DEF new
  <2> QED
    BY <1>2, RowsOfFunction
<1> QED
  BY <1>1, <1>3

\* One that does not fit changes none.
LEMMA ChunkRows ==
    ASSUME NEW n \in Nat, NEW data, HasRows(data, n), NEW offset, NEW chunk
    PROVE  HasRows(StoreChunk(data, offset, chunk), n)
<1> DEFINE new == StoreChunk(data, offset, chunk)
<1>1. CASE Fits(data, offset, chunk)
  <2> DEFINE stored == [k \in 1 .. n |-> IF k \in offset + 1 .. offset + Len(chunk)
                                    THEN chunk[k - offset] ELSE data[k]]
  <2>1. new = stored
    BY <1>1 DEF StoreChunk, HasRows
  <2>2. stored = [k \in 1 .. n |-> stored[k]]
    OBVIOUS
  <2> HIDE DEF stored, new
  <2> QED
    BY <2>1, <2>2, RowsOfFunction DEF new
<1>2. CASE ~Fits(data, offset, chunk)
  BY <1>2 DEF StoreChunk
<1> QED
  BY <1>1, <1>2

-----------------------------------------------------------------------------
(* Control                                                                 *)

\* The inputs do not change, and with them the boxes.
LEMMA ConfStays ==
    ASSUME Next \/ UNCHANGED vars
    PROVE  conf' = conf
  BY DEF Next, InjectionNext, CountFixedPPC, FillFixedPPC, InjectFixedWeight, InjectFromFile,
         AbortFromFile, EnterEvolve, StartStep, Wait, Sort, WriteBeams, SolveBox, WriteFields,
         Notify, EndStep, Restart, Done, vars

LEMMA BoxesStay ==
    ASSUME conf' = conf
    PROVE  /\ NProcs' = NProcs /\ NBoxes' = NBoxes /\ Boxes' = Boxes /\ NCoarse' = NCoarse
           /\ \A b : CoarseBox(b)' = CoarseBox(b)
           /\ \A s : IsOutputStep(s)' = IsOutputStep(s)
           /\ step' = step => \A k : Interpolated(k)' = Interpolated(k)
  BY DEF NProcs, NBoxes, Boxes, NCoarse, CoarseBox, SmallEnd, BigEnd, BoxLength, IsOutputStep,
         Interpolated, Hat, Unit, Centre

\* What the injection changes of the control.
LEMMA InjectionControl ==
    ASSUME InjectionNext
    PROVE  pc \in {"inject", "fill"} /\ pc' \in Injecting /\ file' = file
<1>0. \A slots, t : BeamDone(slots, t) => pc' \in {"inject", "injected"}
  BY DEF BeamDone
<1>1. CASE CountFixedPPC
  <2>1. pc = "inject" /\ file' = file /\ pc' \in {"inject", "injected", "fill"}
    BY <1>0, <1>1 DEF CountFixedPPC
  <2> QED
    BY <2>1 DEF Injecting
<1>2. CASE FillFixedPPC
  BY <1>0, <1>2 DEF FillFixedPPC, Injecting
<1>3. CASE InjectFixedWeight
  BY <1>0, <1>3 DEF InjectFixedWeight, Injecting
<1>4. CASE InjectFromFile
  BY <1>0, <1>4 DEF InjectFromFile, Injecting
<1>5. CASE AbortFromFile
  BY <1>5 DEF AbortFromFile, Injecting
<1> QED
  BY <1>1, <1>2, <1>3, <1>4, <1>5 DEF InjectionNext

LEMMA InitControl ==
    ASSUME WriterInit
    PROVE  Control
<1>1. conf \in Simulations /\ pc \in {"inject", "injected"} /\ file = {} /\ lastDumped = -1
      /\ step = conf.nprocs - 1 - conf.rank /\ it = NBoxes - 1
  BY DEF WriterInit, InjectionInit
<1>2. NBoxes \in Nat \ {0} /\ NProcs \in Nat \ {0} /\ conf.rank \in 0 .. NProcs - 1
  BY <1>1, BoxFacts
<1>3. step \in Nat /\ it \in Boxes
  BY <1>1, <1>2 DEF NProcs, Boxes
<1> QED
  BY <1>1, <1>3 DEF Control, Injecting, InStep

LEMMA NextControl ==
    ASSUME Control, Next \/ UNCHANGED vars
    PROVE  Control'
<1>0. /\ conf' = conf /\ Boxes' = Boxes /\ NBoxes' = NBoxes /\ NProcs' = NProcs
      /\ \A s : IsOutputStep(s)' = IsOutputStep(s)
  BY ConfStays, BoxesStay
<1>1. NBoxes \in Nat \ {0} /\ NProcs \in Nat \ {0} /\ Boxes = 0 .. NBoxes - 1
  BY BoxFacts DEF Control, Boxes
<1> USE DEF Control, Begun, InStep, Injecting
<1>2. CASE InjectionNext /\ UNCHANGED writerVars
  BY <1>0, <1>2, InjectionControl DEF writerVars
<1>3. CASE EnterEvolve
  BY <1>0, <1>3 DEF EnterEvolve
<1>4. CASE StartStep
  BY <1>0, <1>1, <1>4 DEF StartStep
<1>5. CASE Wait
  BY <1>0, <1>5 DEF Wait
<1>6. CASE Sort
  BY <1>0, <1>6 DEF Sort
<1>7. CASE WriteBeams
  BY <1>0, <1>7 DEF WriteBeams
<1>8. CASE SolveBox
  BY <1>0, <1>8 DEF SolveBox
<1>9. CASE WriteFields
  BY <1>0, <1>9 DEF WriteFields
<1>10. CASE Notify
  BY <1>0, <1>1, <1>10 DEF Notify
<1>11. CASE EndStep
  BY <1>0, <1>1, <1>11 DEF EndStep
<1>12. CASE Restart
  BY <1>0, <1>12 DEF Restart, writerVars
<1>13. CASE UNCHANGED vars
  BY <1>0, <1>13 DEF vars, writerVars
<1> QED
  BY <1>2, <1>3, <1>4, <1>5, <1>6, <1>7, <1>8, <1>9, <1>10, <1>11, <1>12, <1>13 DEF Next, Done

-----------------------------------------------------------------------------
(* Fields                                                                  *)

\* Nothing of the fields, the box or the step changes but the part of the step.
LEMMA FieldStays ==
    ASSUME Control, FieldOK, conf' = conf, it' = it, step' = step, pc \in InStep,
           pc \notin {"fields", "notify", "end"}, pc' \in InStep \ {"fields", "notify", "end"},
           dump'.field = dump.field, "field" \in DOMAIN dump'
    PROVE  FieldOK'
<1>1. /\ NCoarse' = NCoarse /\ Boxes' = Boxes /\ NBoxes' = NBoxes
      /\ \A b : CoarseBox(b)' = CoarseBox(b)
      /\ \A s : IsOutputStep(s)' = IsOutputStep(s)
      /\ \A k : Interpolated(k)' = Interpolated(k)
  BY BoxesStay
<1> QED
  BY <1>1 DEF FieldOK, Begun, Written

\* Outside of a step nothing is said.
LEMMA NoField ==
    ASSUME pc' \notin InStep, "field" \in DOMAIN dump'
    PROVE  FieldOK'
  BY DEF FieldOK, InStep

LEMMA SolveBoxField ==
    ASSUME Control, FieldOK, SolveBox
    PROVE  FieldOK'
<1>1. /\ conf' = conf /\ it' = it /\ step' = step /\ dump' = dump /\ pc = "solve" /\ pc' = "fields"
      /\ fab' = FillDiagnostics(ResizeFDiagFAB(it), it)
  BY DEF SolveBox
<1>2. /\ NCoarse' = NCoarse /\ Boxes' = Boxes /\ NBoxes' = NBoxes
      /\ \A b : CoarseBox(b)' = CoarseBox(b)
      /\ \A s : IsOutputStep(s)' = IsOutputStep(s)
      /\ \A k : Interpolated(k)' = Interpolated(k)
  BY <1>1, BoxesStay
<1>3. FillDiagnostics(ResizeFDiagFAB(it), it)' = FillDiagnostics(ResizeFDiagFAB(it), it)
  BY <1>1 DEF FillDiagnostics, ResizeFDiagFAB, CoarseBox, SmallEnd, BigEnd, BoxLength, NBoxes,
              NProcs, CoarseNear, RelZ, NCoarse, Unit, Centre
<1> QED
  BY <1>1, <1>2, <1>3 DEF FieldOK, Begun, Written, InStep

\* The chunk of the box comes behind those of the boxes below it and before
\* those of the boxes above it, and fits.
LEMMA WriteFieldsField ==
    ASSUME CoarseningFits, Control, FieldOK, WriteFields
    PROVE  FieldOK'
<1>1. /\ conf' = conf /\ it' = it /\ step' = step /\ pc = "fields" /\ pc' = "notify"
      /\ conf \in Simulations
  BY DEF WriteFields, Control
<1>2. /\ NCoarse' = NCoarse /\ Boxes' = Boxes /\ NBoxes' = NBoxes
      /\ \A b : CoarseBox(b)' = CoarseBox(b)
      /\ \A s : IsOutputStep(s)' = IsOutputStep(s)
      /\ \A k : Interpolated(k)' = Interpolated(k)
  BY <1>1, BoxesStay
<1>3. CASE ~IsOutputStep(step)
  BY <1>1, <1>2, <1>3 DEF WriteFields, FieldOK, Begun
<1>4. CASE IsOutputStep(step)
  <2> DEFINE m == PerBox
             c == conf.coarsening
             data == IF lastDumped # step THEN DataSet(NCoarse) ELSE dump.field
             offset == SmallEnd(it) \div c
             chunk == [k \in 1 .. Cardinality(DOMAIN fab) |-> fab[offset + k - 1]]
             new == StoreChunk(data, offset, chunk)
  <2>1. dump' = [dump EXCEPT !.field = new]
    BY <1>4 DEF WriteFields
  <2>2. dump'.field = new /\ "field" \in DOMAIN dump'
    BY <2>1 DEF FieldOK
  <2>3. /\ m \in Nat \ {0} /\ NCoarse = NBoxes * m /\ offset = it * m
        /\ NBoxes \in Nat \ {0} /\ it \in 0 .. NBoxes - 1 /\ it \in Boxes
        /\ \A b \in Boxes : CoarseBox(b) = b * m .. b * m + (m - 1)
    BY <1>1, CoarseBoxIs, BoxFacts DEF Control, Boxes, CoarseBox
  <2>4. /\ offset \in Nat /\ offset + m <= NCoarse /\ NCoarse \in Nat
        /\ \A b \in Boxes : b > it => b * m \in Int /\ b * m >= offset + m
    <3> HIDE DEF m, offset
    <3>1. \A b \in Int : b * m \in Int /\ (b > it => b * m >= (it + 1) * m)
      BY <2>3
    <3>2. (it + 1) * m = it * m + m /\ it * m \in Nat /\ (it + 1) * m <= NBoxes * m
      BY <2>3
    <3>3. Boxes \subseteq Int
      BY <2>3 DEF Boxes
    <3> QED
      BY <2>3, <3>1, <3>2, <3>3
  <2>5. fab = FillDiagnostics(ResizeFDiagFAB(it), it)
    BY <1>1 DEF FieldOK
  <2>6. DOMAIN fab = CoarseBox(it) /\ \A k \in CoarseBox(it) : fab[k] = Interpolated(k)
    BY <1>1, <2>3, <2>5, BoxIsInterpolated DEF FillDiagnostics, ResizeFDiagFAB
  <2>7. Cardinality(DOMAIN fab) = m
    <3>1. DOMAIN fab = offset .. offset + (m - 1)
      BY <2>3, <2>6
    <3> HIDE DEF offset, m
    <3>2. Cardinality(offset .. offset + (m - 1)) = m
      <4>1. offset \in Int /\ offset + (m - 1) \in Int /\ ~(offset > offset + (m - 1))
            /\ (offset + (m - 1)) - offset + 1 = m
        BY <2>3, <2>4
      <4> QED
        BY <4>1, FS_Interval
    <3> QED
      BY <3>1, <3>2
  <2>8. HasRows(chunk, m) /\ \A k \in 1 .. m : chunk[k] = fab[offset + k - 1]
    <3>1. chunk = [k \in 1 .. m |-> fab[offset + k - 1]]
      BY <2>7
    <3>2. \A k \in 1 .. m : chunk[k] = fab[offset + k - 1]
      BY <3>1
    <3>3. chunk = [k \in 1 .. m |-> chunk[k]]
      BY <3>1
    <3> HIDE DEF chunk, m
    <3> QED
      BY <2>3, <3>2, <3>3, RowsOfFunction
  <2>9. HasRows(data, NCoarse)
    <3>1. CASE lastDumped # step
      BY <2>4, <3>1, DataSetRows
    <3>2. CASE lastDumped = step
      BY <1>1, <1>4, <3>2 DEF Control, FieldOK, InStep
    <3> QED
      BY <3>1, <3>2
  <2>10. \A b \in Boxes : b > it =>
             data = dump.field /\ \A k \in CoarseBox(b) : dump.field[k + 1] = Interpolated(k)
    <3> TAKE b \in Boxes
    <3> HAVE b > it
    <3>1. Begun
      BY <2>3 DEF Begun, Boxes
    <3>2. lastDumped = step /\ Written(b)
      BY <1>1, <1>4, <3>1 DEF Control, InStep, Written
    <3> QED
      BY <1>1, <1>4, <3>1, <3>2 DEF FieldOK, InStep
  <2> HIDE DEF data, chunk, offset, m
  <2>11. /\ HasRows(new, NCoarse)
         /\ \A k \in 1 .. NCoarse : new[k] = IF k \in offset + 1 .. offset + m
                                             THEN chunk[k - offset] ELSE data[k]
    BY <2>3, <2>4, <2>8, <2>9, ChunkStored
  <2> HIDE DEF new
  <2>12. ASSUME NEW b \in Boxes, b >= it, NEW k \in CoarseBox(b)
         PROVE  new[k + 1] = Interpolated(k)
    <3>1. CASE b = it
      <4>1. k \in offset .. offset + (m - 1)
        BY <2>3, <2>12, <3>1
      <4>2. k + 1 \in 1 .. NCoarse /\ k + 1 \in offset + 1 .. offset + m
        BY <2>3, <2>4, <4>1
      <4>3. new[k + 1] = chunk[(k + 1) - offset]
        BY <2>11, <4>2
      <4>4. (k + 1) - offset \in 1 .. m /\ offset + ((k + 1) - offset) - 1 = k
        BY <2>3, <2>4, <4>1
      <4>5. chunk[(k + 1) - offset] = fab[k]
        BY <2>8, <4>4
      <4> QED
        BY <2>6, <2>12, <3>1, <4>3, <4>5
    <3>2. CASE b > it
      <4>0. b * m >= offset + m /\ b * m \in Int /\ (b + 1) * m <= NBoxes * m /\ (b + 1) * m = b * m + m
        BY <2>3, <2>4, <3>2 DEF Boxes
      <4>1. k \in b * m .. b * m + (m - 1)
        BY <2>3, <2>12
      <4>2. k + 1 \in 1 .. NCoarse /\ k + 1 \notin offset + 1 .. offset + m
        BY <2>3, <2>4, <4>0, <4>1
      <4>3. new[k + 1] = data[k + 1]
        BY <2>11, <4>2
      <4> QED
        BY <2>10, <2>12, <3>2, <4>3
    <3> QED
      BY <2>3, <2>12, <3>1, <3>2 DEF Boxes
  <2>13. \A b \in Boxes : Written(b)' => b >= it
    BY <1>1, <2>3 DEF Written, Boxes
  <2> QED
    BY <1>1, <1>2, <2>2, <2>11, <2>12, <2>13 DEF FieldOK
<1> QED
  BY <1>3, <1>4

LEMMA NotifyField ==
    ASSUME Control, FieldOK, Notify
    PROVE  FieldOK'
<1>1. /\ conf' = conf /\ step' = step /\ dump' = dump /\ pc = "notify" /\ conf \in Simulations
      /\ (it > 0 /\ it' = it - 1 /\ pc' = "wait") \/ (it = 0 /\ it' = it /\ pc' = "end")
  BY DEF Notify, Control, Boxes
<1>2. /\ NCoarse' = NCoarse /\ Boxes' = Boxes /\ NBoxes' = NBoxes
      /\ \A b : CoarseBox(b)' = CoarseBox(b)
      /\ \A s : IsOutputStep(s)' = IsOutputStep(s)
      /\ \A k : Interpolated(k)' = Interpolated(k)
  BY <1>1, BoxesStay
<1>3. \A b \in Boxes : Written(b)' => Written(b)
  BY <1>1, BoxFacts DEF Written, Control, Boxes
<1>4. Begun
  BY <1>1 DEF Begun
<1> QED
  BY <1>1, <1>2, <1>3, <1>4 DEF FieldOK, InStep

LEMMA NextField ==
    ASSUME CoarseningFits, Control, FieldOK, Next \/ UNCHANGED vars
    PROVE  FieldOK'
<1>0. conf' = conf /\ "field" \in DOMAIN dump
  BY ConfStays DEF FieldOK
<1>1. CASE InjectionNext /\ UNCHANGED writerVars
  BY <1>0, <1>1, InjectionControl, NoField DEF writerVars, Injecting, InStep
<1>2. CASE EnterEvolve
  BY <1>0, <1>2, NoField DEF EnterEvolve, InStep
<1>3. CASE StartStep
  <2>1. pc' = "wait" /\ it' = NBoxes - 1 /\ (dump' = dump \/ dump' = NewIteration(step))
    BY <1>3 DEF StartStep
  <2>2. NBoxes' = NBoxes
    BY <1>0, BoxesStay
  <2>3. "field" \in DOMAIN dump'
    BY <1>0, <2>1 DEF NewIteration
  <2>4. NBoxes \in Nat
    BY BoxFacts DEF Control
  <2> QED
    BY <2>1, <2>2, <2>3, <2>4 DEF FieldOK, Begun
<1>4. CASE Wait
  BY <1>0, <1>4, FieldStays DEF Wait, InStep
<1>5. CASE Sort
  BY <1>0, <1>5, FieldStays DEF Sort, InStep
<1>6. CASE WriteBeams
  <2>1. dump'.field = dump.field /\ "field" \in DOMAIN dump'
    <3>1. CASE ~IsOutputStep(step)
      BY <1>0, <1>6, <3>1 DEF WriteBeams
    <3>2. CASE IsOutputStep(step)
      <4>1. \A t, p, m, i :
                LET d == [dump EXCEPT !.time = t, !.position = p, !.momentum = m, !.id = i]
                IN  d.field = dump.field /\ "field" \in DOMAIN d
        BY <1>0
      <4> QED
        BY <1>6, <3>2, <4>1 DEF WriteBeams
    <3> QED
      BY <3>1, <3>2
  <2> QED
    BY <1>0, <1>6, <2>1, FieldStays DEF WriteBeams, InStep
<1>7. CASE SolveBox
  BY <1>7, SolveBoxField
<1>8. CASE WriteFields
  BY <1>8, WriteFieldsField
<1>9. CASE Notify
  BY <1>9, NotifyField
<1>10. CASE EndStep
  BY <1>0, <1>10, NoField DEF EndStep, InStep
<1>11. CASE Restart
  BY <1>0, <1>11, NoField DEF Restart, InStep, writerVars
<1>12. CASE UNCHANGED vars
  <2>1. /\ NCoarse' = NCoarse /\ Boxes' = Boxes /\ NBoxes' = NBoxes
        /\ \A b : CoarseBox(b)' = CoarseBox(b)
        /\ \A s : IsOutputStep(s)' = IsOutputStep(s)
        /\ \A k : Interpolated(k)' = Interpolated(k)
    BY <1>12, BoxesStay DEF vars, writerVars
  <2>2. FillDiagnostics(ResizeFDiagFAB(it), it)' = FillDiagnostics(ResizeFDiagFAB(it), it)
    BY <1>12 DEF FillDiagnostics, ResizeFDiagFAB, CoarseBox, SmallEnd, BigEnd, BoxLength, NBoxes,
                NProcs, CoarseNear, RelZ, NCoarse, Unit, Centre, vars, writerVars
  <2> QED
    BY <1>12, <2>1, <2>2 DEF vars, writerVars, FieldOK, Begun, Written
<1> QED
  BY <1>1, <1>2, <1>3, <1>4, <1>5, <1>6, <1>7, <1>8, <1>9, <1>10, <1>11, <1>12 DEF Next, Done

\* Every coarse cell is in a box.
LEMMA BoxOfCoarse ==
    ASSUME CoarseningFits, conf \in Simulations, NEW k \in 0 .. NCoarse - 1
    PROVE  \E b \in Boxes : k \in CoarseBox(b)
<1> DEFINE m == PerBox
           b == k \div m
           r == k % m
<1>1. /\ m \in Nat \ {0} /\ NCoarse = NBoxes * m /\ NBoxes \in Nat \ {0}
      /\ \A d \in Boxes : CoarseBox(d) = d * m .. d * m + (m - 1)
  BY CoarseBoxIs, BoxFacts DEF CoarseBox
<1>2. k \in Nat /\ k < NBoxes * m
  BY <1>1
<1> HIDE DEF m
<1>3. b \in Int /\ r \in Int /\ 0 <= r /\ r < m /\ k = m * b + r
  BY <1>1, <1>2, Quotient
<1>4. 0 <= b /\ b < NBoxes
  <2>1. m * 0 <= k /\ k < m * NBoxes
    BY <1>1, <1>2
  <2> QED
    BY <1>1, <1>2, <2>1, QuotientBounds
<1> HIDE DEF b, r
<1>5. b \in Boxes
  BY <1>1, <1>3, <1>4 DEF Boxes
<1>6. k \in b * m .. b * m + (m - 1)
  BY <1>1, <1>3
<1> QED
  BY <1>1, <1>5, <1>6

-----------------------------------------------------------------------------
(* Theorems                                                                *)

\* When a step is dumped, every coarse cell has the linear interpolation of
\* the slices of this step, for a domain of any length, any number of boxes
\* and any coarsening that divides a box: the boxes store side by side, none
\* overwrites another, and no slice of another box belongs to a coarse cell.
THEOREM FieldsAreInterpolated == CoarseningFits => (Spec => []FieldsInterpolated)
<1> SUFFICES ASSUME CoarseningFits PROVE Spec => []FieldsInterpolated
  OBVIOUS
<1>1. WriterInit => Control /\ FieldOK
  <2> SUFFICES ASSUME WriterInit PROVE Control /\ FieldOK
    OBVIOUS
  <2>1. "field" \in DOMAIN dump /\ pc \in {"inject", "injected"}
    BY DEF WriterInit, InjectionInit, NewIteration
  <2> QED
    BY <2>1, InitControl DEF FieldOK, InStep
<1>2. Control /\ FieldOK /\ [Next]_vars => (Control /\ FieldOK)'
  BY NextControl, NextField
<1>3. Control /\ FieldOK => FieldsInterpolated
  <2> SUFFICES ASSUME Control, FieldOK, Dumped PROVE
           /\ Len(dump.field) = NCoarse
           /\ \A k \in 0 .. NCoarse - 1 : dump.field[k + 1] = Interpolated(k)
    BY DEF FieldsInterpolated, Interpolated, Hat
  <2>1. pc = "end" /\ IsOutputStep(step) /\ it = 0 /\ Begun /\ pc \in InStep
    BY DEF Dumped, Control, Begun, InStep
  <2>2. \A b \in Boxes : Written(b)
    BY <2>1, BoxFacts DEF Control, Boxes, Written
  <2>3. \A k \in 0 .. NCoarse - 1 : \E b \in Boxes : k \in CoarseBox(b)
    BY BoxOfCoarse DEF Control
  <2> QED
    BY <2>1, <2>2, <2>3 DEF FieldOK, HasRows
<1> QED
  BY <1>1, <1>2, <1>3, PTL DEF Spec

-----------------------------------------------------------------------------
(* Injection                                                               *)

\* A tile of some slots.
IsTile(slots) == \E n \in Nat : HasRows(slots, n)

\* The tiles filled so far, one for each beam; those of the second simulation
\* are injected when there is a file.  The slots that are filled have been
\* counted.
InjectionOK ==
    /\ species = IF file = {} THEN conf.beams ELSE conf.restart
    /\ ibeam \in 1 .. Len(species) + 1
    /\ file = {} => initialTime = 0
    /\ HasRows(tile, IF pc = "fill" THEN ibeam ELSE ibeam - 1)
    /\ HasRows(total, ibeam - 1)
    /\ \A b \in DOMAIN tile : IsTile(tile[b])
    /\ \A b \in 1 .. ibeam - 1 : total[b] = TotalNumberOfParticles(tile[b])
    /\ pc \in {"inject", "fill"} => ibeam <= Len(species)
    /\ pc \in {"injected", "step"} \union InStep => ibeam = Len(species) + 1
    /\ pc = "fill" =>
           /\ Beam.injection = "fixed_ppc"
           /\ \E A \in Accepted(Beam) : /\ tile[ibeam] = Resized(SumFunction(Counts(Beam, A)))
                                        /\ offsets = ExclusiveSum(Counts(Beam, A))

\* The data sets of a dump and of a file have rows.
PositionsOK ==
    /\ DOMAIN dump = {"step", "time", "position", "momentum", "id", "field"}
    /\ \A b \in Beams : IsTile(dump.position[b])
    /\ \A iter \in file : \A name \in DOMAIN iter.data : IsTile(iter.data[name].position)

\* Rows are a sequence; a row more is appended, the first ones are taken.
LEMMA RowsAreSeq ==
    ASSUME NEW n \in Nat, NEW data, HasRows(data, n)
    PROVE  \E S : data \in Seq(S)
<1> DEFINE S == {data[k] : k \in 1 .. n}
<1>1. [k \in 1 .. n |-> data[k]] \in [1 .. n -> S]
  OBVIOUS
<1> HIDE DEF S
<1>2. data \in Seq(S)
  BY <1>1 DEF HasRows
<1> QED
  BY <1>2

IsAppended(new, data, row, m) ==
    HasRows(new, m) /\ \A k \in 1 .. m : new[k] = IF k = m THEN row ELSE data[k]

LEMMA RowAppended ==
    ASSUME NEW m \in Nat \ {0}, NEW data, HasRows(data, m - 1), NEW row
    PROVE  IsAppended(Append(data, row), data, row, m)
<1>1. PICK S : data \in Seq(S)
  <2>1. m - 1 \in Nat
    OBVIOUS
  <2> QED
    BY <2>1, RowsAreSeq
<1> DEFINE T == S \union {row}
           new == Append(data, row)
<1>2. data \in Seq(T) /\ row \in T /\ Len(data) = m - 1
  BY <1>1 DEF HasRows
<1> HIDE DEF T
<1>3. new \in Seq(T) /\ Len(new) = m
  BY <1>2
<1>4. \A k \in 1 .. m : new[k] = IF k = m THEN row ELSE data[k]
  BY <1>2
<1> HIDE DEF new
<1>5. new \in [1 .. m -> T] /\ DOMAIN new = 1 .. m
  BY <1>3
<1>6. HasRows(new, m)
  BY <1>3, <1>5 DEF HasRows
<1> QED
  BY <1>4, <1>6 DEF new, IsAppended

LEMMA FirstRows ==
    ASSUME NEW n \in Nat, NEW data, HasRows(data, n), NEW m \in 0 .. n
    PROVE  /\ HasRows(SubSeq(data, 1, m), m)
           /\ \A k \in 1 .. m : SubSeq(data, 1, m)[k] = data[k]
<1> DEFINE new == [k \in 1 .. m |-> data[k]]
<1>1. SubSeq(data, 1, m) = new
  BY DEF HasRows
<1>2. new = [k \in 1 .. m |-> new[k]]
  OBVIOUS
<1> HIDE DEF new
<1>3. HasRows(new, m)
  BY <1>2, RowsOfFunction
<1> QED
  BY <1>1, <1>3 DEF new

LEMMA BeamIs ==
    ASSUME Control, InjectionOK
    PROVE  /\ species \in Seq(BeamParameters) /\ Len(species) \in Nat /\ ibeam \in Nat \ {0}
           /\ ibeam <= Len(species) =>
                  /\ Beam \in BeamParameters
                  /\ Beam.injection = "fixed_ppc" => Beam \in FixedPPC
                  /\ Beam.injection = "fixed_weight" => Beam \in FixedWeight
<1>1. species \in Seq(BeamParameters)
  BY InjectionAssumption DEF Control, InjectionOK
<1>2. Len(species) \in Nat /\ ibeam \in Nat \ {0}
  BY <1>1 DEF InjectionOK
<1>3. ibeam <= Len(species) => Beam \in BeamParameters
  BY <1>1, <1>2 DEF Beam
<1> QED
  BY <1>1, <1>2, <1>3 DEF BeamParameters, FixedPPC, FixedWeight, FromFile

LEMMA ResizedIsTile ==
    ASSUME NEW n \in Nat
    PROVE  HasRows(Resized(n), n)
  BY RowsOfFunction DEF Resized

LEMMA AddedIsTile ==
    ASSUME NEW n \in Nat, NEW slots, HasRows(slots, n), NEW pid, NEW W
    PROVE  HasRows(AddBeamParticles(slots, pid, W), n)
<1> DEFINE new == [k \in 1 .. n |->
                LET V == {w \in W : w[1] = k - 1}
                IN  IF V = {} THEN slots[k]
                    ELSE [id |-> pid + k - 1, written |-> {w[2] : w \in V}]]
<1>1. AddBeamParticles(slots, pid, W) = new
  BY DEF AddBeamParticles, HasRows
<1>2. new = [k \in 1 .. n |-> new[k]]
  OBVIOUS
<1> HIDE DEF new
<1> QED
  BY <1>1, <1>2, RowsOfFunction

\* The cells and the particles of a coarse cell are numbers.
LEMMA CoarseNumbers ==
    ASSUME NEW sp \in FixedPPC
    PROVE  /\ CoarseCells(sp) \in [1 .. 3 -> Nat \ {0}]
           /\ CoarsePPC(sp) \in [1 .. 3 -> Nat \ {0}]
           /\ NumPPC(sp) \in Nat \ {0}
<1>1. sp.cr \in Nat \ {0} /\ sp.ppc \in [1 .. 3 -> Nat \ {0}]
  BY DEF FixedPPC
<1>2. CoarseningRatio(sp) \in [1 .. 3 -> Nat \ {0}]
  BY <1>1 DEF CoarseningRatio
<1>3. \A d \in 1 .. 3 : (NCells[d] - 1) \div CoarseningRatio(sp)[d] \in Nat
  <2> SUFFICES ASSUME NEW d \in 1 .. 3
               PROVE  (NCells[d] - 1) \div CoarseningRatio(sp)[d] \in Nat
    OBVIOUS
  <2>1. NCells[d] - 1 \in Nat /\ CoarseningRatio(sp)[d] \in Nat \ {0}
    BY <1>2, InjectionAssumption
  <2> QED
    BY <2>1, QuotientBounds
<1>4. \A a, b \in Nat \ {0} : a * b \in Nat \ {0}
  BY SMT
<1>5. CoarseCells(sp) \in [1 .. 3 -> Nat \ {0}]
  BY <1>3 DEF CoarseCells
<1>6. \A d \in 1 .. 3 : sp.ppc[d] * CoarseningRatio(sp)[d] \in Nat \ {0}
  BY <1>1, <1>2, <1>4
<1>7. CoarsePPC(sp) \in [1 .. 3 -> Nat \ {0}]
  BY <1>6 DEF CoarsePPC
<1>8. NumPPC(sp) \in Nat \ {0}
  BY <1>4, <1>7 DEF NumPPC
<1> QED
  BY <1>5, <1>7, <1>8

\* The candidates are finitely many, and so are the cells.
LEMMA CandidatesAreFinite ==
    ASSUME NEW sp \in FixedPPC
    PROVE  /\ IsFiniteSet(CellsOf(sp)) /\ IsFiniteSet(Candidates(sp))
           /\ IsFiniteSet({CellId(sp, c) : c \in CellsOf(sp)})
           /\ \A A \in Accepted(sp) : A \subseteq Candidates(sp) /\ IsFiniteSet(A)
<1>1. IsFiniteSet(CellsOf(sp))
  <2> DEFINE n == CoarseCells(sp)
             X == 0 .. n[1] - 1
             Y == 0 .. n[2] - 1
             Z == 0 .. n[3] - 1
  <2>1. n[1] - 1 \in Nat /\ n[2] - 1 \in Nat /\ n[3] - 1 \in Nat
    BY CoarseNumbers
  <2>2. IsFiniteSet(X) /\ IsFiniteSet(Y) /\ IsFiniteSet(Z)
    <3>1. \A m \in Nat : IsFiniteSet(0 .. m)
      BY FS_Interval
    <3> HIDE DEF n
    <3> QED
      BY <2>1, <3>1
  <2>3. CellsOf(sp) = X \X Y \X Z
    BY DEF CellsOf
  <2> HIDE DEF X, Y, Z, n
  <2> DEFINE o == [p \in (X \X Y) \X Z |-> <<p[1][1], p[1][2], p[2]>>]
  <2>4. IsFiniteSet((X \X Y) \X Z)
    BY <2>2, FS_Product
  <2>5. o \in Surjection((X \X Y) \X Z, X \X Y \X Z)
    <3>1. \A p \in (X \X Y) \X Z : o[p] \in X \X Y \X Z
      OBVIOUS
    <3>2. \A q \in X \X Y \X Z : o[<<<<q[1], q[2]>>, q[3]>>] = q /\ <<<<q[1], q[2]>>, q[3]>> \in (X \X Y) \X Z
      OBVIOUS
    <3> HIDE DEF o
    <3>3. o \in [(X \X Y) \X Z -> X \X Y \X Z]
      <4>1. o = [p \in (X \X Y) \X Z |-> o[p]]
        BY DEF o
      <4> QED
        BY <3>1, <4>1
    <3> QED
      BY <3>2, <3>3 DEF Surjection
  <2> QED
    BY <2>3, <2>4, <2>5, FS_Surjection
<1>2. IsFiniteSet(0 .. NumPPC(sp) - 1)
  <2>1. NumPPC(sp) - 1 \in Int
    BY CoarseNumbers
  <2> QED
    BY <2>1, FS_Interval
<1>3. IsFiniteSet(CellsOf(sp) \X (0 .. NumPPC(sp) - 1))
  BY <1>1, <1>2, FS_Product
<1>4. Candidates(sp) \subseteq CellsOf(sp) \X (0 .. NumPPC(sp) - 1)
  BY DEF Candidates
<1>5. IsFiniteSet(Candidates(sp))
  BY <1>3, <1>4, FS_Subset
<1>6. \A A \in Accepted(sp) : A \subseteq Candidates(sp)
  BY DEF Accepted
<1>7. IsFiniteSet({CellId(sp, c) : c \in CellsOf(sp)})
  <2> DEFINE o == [c \in CellsOf(sp) |-> CellId(sp, c)]
             T == {CellId(sp, c) : c \in CellsOf(sp)}
  <2>1. o \in Surjection(CellsOf(sp), T)
    BY DEF Surjection
  <2> HIDE DEF o, T
  <2>2. IsFiniteSet(T)
    BY <1>1, <2>1, FS_Surjection
  <2> QED
    BY <2>2 DEF T
<1> QED
  BY <1>1, <1>5, <1>6, <1>7, FS_Subset

LEMMA CountsAreNumbers ==
    ASSUME NEW sp \in FixedPPC, NEW A \in Accepted(sp)
    PROVE  SumFunction(Counts(sp, A)) \in Nat
<1> DEFINE K == {CellId(sp, c) : c \in CellsOf(sp)}
<1>1. IsFiniteSet(K) /\ IsFiniteSet(A)
  BY CandidatesAreFinite
<1>2. \A id \in K : Cardinality({p \in A : CellId(sp, p[1]) = id}) \in Nat
  BY <1>1, FS_Subset, FS_CardinalityType
<1>3. DOMAIN Counts(sp, A) = K /\ \A id \in K : Counts(sp, A)[id] \in Nat
  BY <1>2 DEF Counts
<1> QED
  BY <1>1, <1>3, SumNat DEF SumFunction

\* The end of InitData: the tiles so far, and one more.
TilesSoFar(tiles, slots) ==
    /\ HasRows(tiles, ibeam) /\ tiles[ibeam] = slots
    /\ \A b \in 1 .. ibeam - 1 : tiles[b] = tile[b]

LEMMA BeamDoneIs ==
    ASSUME Control, InjectionOK, pc \in {"inject", "fill"},
           NEW slots, NEW ptime, BeamDone(slots, ptime)
    PROVE  /\ TilesSoFar(tile', slots) /\ HasRows(total', ibeam)
           /\ \A b \in 1 .. ibeam :
                  total'[b] = IF b = ibeam THEN TotalNumberOfParticles(slots) ELSE total[b]
           /\ ibeam \in Nat \ {0} /\ ibeam <= Len(species) /\ Len(species) \in Nat
           /\ ibeam' = ibeam + 1 /\ initialTime' = ptime
           /\ pc' = IF ibeam < Len(species) THEN "inject" ELSE "injected"
<1>1. ibeam \in Nat \ {0} /\ ibeam <= Len(species) /\ Len(species) \in Nat
  BY BeamIs DEF InjectionOK
<1>2. PICK n \in Nat : HasRows(tile, n) /\ n >= ibeam - 1 /\ n <= ibeam
  BY <1>1 DEF InjectionOK
<1> DEFINE rest == SubSeq(tile, 1, ibeam - 1)
           new == Append(rest, slots)
           totals == Append(total, TotalNumberOfParticles(slots))
<1>3. ibeam - 1 \in 0 .. n /\ ibeam - 1 \in Nat /\ ibeam \in Nat \ {0}
  BY <1>1, <1>2
<1>4. HasRows(rest, ibeam - 1) /\ \A b \in 1 .. ibeam - 1 : rest[b] = tile[b]
  BY <1>2, <1>3, FirstRows
<1>5. HasRows(total, ibeam - 1)
  BY DEF InjectionOK
<1> HIDE DEF rest
<1>6. /\ HasRows(new, ibeam)
      /\ \A b \in 1 .. ibeam : new[b] = IF b = ibeam THEN slots ELSE rest[b]
  <2>1. IsAppended(new, rest, slots, ibeam)
    BY <1>3, <1>4, RowAppended
  <2> QED
    BY <2>1 DEF IsAppended
<1>7. /\ HasRows(totals, ibeam)
      /\ \A b \in 1 .. ibeam : totals[b] = IF b = ibeam THEN TotalNumberOfParticles(slots)
                                                          ELSE total[b]
  <2>1. IsAppended(totals, total, TotalNumberOfParticles(slots), ibeam)
    BY <1>3, <1>5, RowAppended
  <2> QED
    BY <2>1 DEF IsAppended
<1>8. /\ tile' = new /\ total' = totals /\ initialTime' = ptime /\ ibeam' = ibeam + 1
      /\ pc' = IF ibeam < Len(species) THEN "inject" ELSE "injected"
  BY DEF BeamDone, rest
<1> HIDE DEF new, totals
<1>9. new[ibeam] = slots /\ \A b \in 1 .. ibeam - 1 : new[b] = tile[b]
  BY <1>1, <1>4, <1>6
<1> QED
  BY <1>1, <1>6, <1>7, <1>8, <1>9 DEF TilesSoFar

LEMMA BeamDoneOK ==
    ASSUME Control, InjectionOK, pc \in {"inject", "fill"},
           NEW slots, IsTile(slots), NEW ptime, BeamDone(slots, ptime), file = {} => ptime = 0,
           species' = species, file' = file, conf' = conf
    PROVE  InjectionOK'
<1>1. /\ HasRows(tile', ibeam) /\ tile'[ibeam] = slots
      /\ \A b \in 1 .. ibeam - 1 : tile'[b] = tile[b]
      /\ HasRows(total', ibeam)
      /\ \A b \in 1 .. ibeam :
             total'[b] = IF b = ibeam THEN TotalNumberOfParticles(slots) ELSE total[b]
      /\ ibeam \in Nat \ {0} /\ ibeam <= Len(species) /\ Len(species) \in Nat
      /\ ibeam' = ibeam + 1 /\ initialTime' = ptime
      /\ pc' = IF ibeam < Len(species) THEN "inject" ELSE "injected"
  BY BeamDoneIs DEF TilesSoFar
<1>2. \A b \in 1 .. ibeam : IsTile(tile'[b])
  <2>1. PICK n \in Nat : DOMAIN tile = 1 .. n /\ n >= ibeam - 1
    BY <1>1 DEF InjectionOK, HasRows
  <2>2. \A b \in 1 .. ibeam - 1 : b \in DOMAIN tile
    BY <1>1, <2>1
  <2>3. \A b \in 1 .. ibeam - 1 : IsTile(tile[b])
    BY <2>2 DEF InjectionOK
  <2> QED
    BY <1>1, <2>3
<1>3. \A b \in 1 .. ibeam : total'[b] = TotalNumberOfParticles(tile'[b])
  <2>1. \A b \in 1 .. ibeam - 1 : total[b] = TotalNumberOfParticles(tile[b])
    BY DEF InjectionOK
  <2> QED
    BY <1>1, <2>1
<1>4. ibeam' - 1 = ibeam /\ pc' # "fill"
  BY <1>1
<1>5. /\ species' = IF file' = {} THEN conf'.beams ELSE conf'.restart
      /\ ibeam' \in 1 .. Len(species') + 1
      /\ file' = {} => initialTime' = 0
  BY <1>1 DEF InjectionOK
<1>6. /\ pc' \in {"inject", "fill"} => ibeam' <= Len(species')
      /\ pc' \in {"injected", "step"} \union InStep => ibeam' = Len(species') + 1
  BY <1>1 DEF InStep
<1>7. /\ HasRows(tile', ibeam' - 1) /\ HasRows(total', ibeam' - 1)
      /\ \A b \in DOMAIN tile' : IsTile(tile'[b])
      /\ \A b \in 1 .. ibeam' - 1 : total'[b] = TotalNumberOfParticles(tile'[b])
  BY <1>1, <1>2, <1>3, <1>4 DEF HasRows
<1> QED
  BY <1>4, <1>5, <1>6, <1>7 DEF InjectionOK

LEMMA InitInjection ==
    ASSUME WriterInit
    PROVE  InjectionOK
<1>1. /\ conf \in Simulations /\ species = conf.beams /\ ibeam = 1 /\ initialTime = 0
      /\ tile = <<>> /\ total = <<>> /\ file = {}
      /\ pc = IF conf.beams = <<>> THEN "injected" ELSE "inject"
  BY DEF WriterInit, InjectionInit
<1>2. conf.beams \in Seq(BeamParameters)
  BY <1>1, InjectionAssumption
<1>3. Len(species) \in Nat /\ (species = <<>> <=> Len(species) = 0)
  BY <1>1, <1>2
<1>4. HasRows(<<>>, 0)
  <2>1. <<>> = [k \in 1 .. 0 |-> <<>>[k]] /\ DOMAIN <<>> = 1 .. 0 /\ Len(<<>>) = 0
    OBVIOUS
  <2> QED
    BY <2>1 DEF HasRows
<1>5. DOMAIN tile = {} /\ 1 .. ibeam - 1 = {}
  BY <1>1
<1> QED
  BY <1>1, <1>3, <1>4, <1>5 DEF InjectionOK, InStep

LEMMA CountFixedPPCOK ==
    ASSUME Control, InjectionOK, CountFixedPPC
    PROVE  InjectionOK'
<1>1. pc = "inject" /\ ibeam <= Len(species) /\ ibeam \in Nat \ {0} /\ Len(species) \in Nat
  BY BeamIs DEF CountFixedPPC, InjectionOK
<1>2. Beam \in FixedPPC /\ Beam.injection = "fixed_ppc"
  BY <1>1, BeamIs DEF CountFixedPPC
<1>3. PICK A \in Accepted(Beam) :
           LET counts_1 == Counts(Beam, A)
               slots == Resized(SumFunction(counts_1))
           IN  /\ offsets' = ExclusiveSum(counts_1)
               /\ \/ BeamDone(slots, 0)
                  \/ /\ tile' = Append(tile, slots)
                     /\ pc' = "fill"
                     /\ UNCHANGED <<ibeam, total, initialTime>>
  BY DEF CountFixedPPC
<1> DEFINE slots == Resized(SumFunction(Counts(Beam, A)))
<1>4. IsTile(slots)
  BY <1>2, CountsAreNumbers, ResizedIsTile DEF IsTile
<1>5. species' = species /\ file' = file /\ conf' = conf
  BY DEF CountFixedPPC
<1> HIDE DEF slots
<1>6. CASE BeamDone(slots, 0)
  BY <1>1, <1>4, <1>5, <1>6, BeamDoneOK
<1>7. CASE tile' = Append(tile, slots) /\ pc' = "fill" /\ UNCHANGED <<ibeam, total, initialTime>>
  <2>1. ibeam - 1 \in Nat /\ HasRows(tile, ibeam - 1) /\ ibeam \in Nat \ {0}
    BY <1>1 DEF InjectionOK
  <2>2. /\ HasRows(tile', ibeam)
        /\ \A b \in 1 .. ibeam : tile'[b] = IF b = ibeam THEN slots ELSE tile[b]
    <3>1. IsAppended(tile', tile, slots, ibeam)
      BY <1>7, <2>1, RowAppended
    <3> QED
      BY <3>1 DEF IsAppended
  <2>3. \A b \in 1 .. ibeam - 1 : IsTile(tile[b]) /\ total[b] = TotalNumberOfParticles(tile[b])
    BY <2>1 DEF InjectionOK, HasRows
  <2>4. \A b \in 1 .. ibeam : IsTile(tile'[b])
    BY <1>4, <2>1, <2>2, <2>3
  <2>5. \A b \in 1 .. ibeam - 1 : total[b] = TotalNumberOfParticles(tile'[b])
    BY <1>1, <2>2, <2>3
  <2>6. pc' \notin {"injected", "step"} \union InStep
    BY <1>7 DEF InStep
  <2>7. /\ Beam' = Beam
        /\ Beam'.injection = "fixed_ppc"
        /\ \E B \in Accepted(Beam') : /\ tile'[ibeam'] = Resized(SumFunction(Counts(Beam', B)))
                                      /\ offsets' = ExclusiveSum(Counts(Beam', B))
    <3>1. Beam' = Beam
      BY <1>5, <1>7 DEF Beam
    <3>2. A \in Accepted(Beam') /\ offsets' = ExclusiveSum(Counts(Beam', A))
      BY <1>3, <3>1
    <3>3. tile'[ibeam'] = slots
      <4>1. ibeam \in 1 .. ibeam /\ ibeam' = ibeam
        BY <1>1, <1>7
      <4> QED
        BY <2>2, <4>1
    <3>4. slots = Resized(SumFunction(Counts(Beam', A)))
      BY <3>1 DEF slots
    <3> QED
      BY <1>2, <3>1, <3>2, <3>3, <3>4
  <2>8. \A b \in DOMAIN tile' : IsTile(tile'[b])
    BY <2>2, <2>4 DEF HasRows
  <2> QED
    BY <1>1, <1>5, <1>7, <2>2, <2>5, <2>6, <2>7, <2>8 DEF InjectionOK
<1> QED
  BY <1>3, <1>6, <1>7 DEF slots

LEMMA FillFixedPPCOK ==
    ASSUME Control, InjectionOK, FillFixedPPC
    PROVE  InjectionOK'
<1>1. pc = "fill" /\ ibeam \in Nat \ {0} /\ HasRows(tile, ibeam)
  BY BeamIs DEF FillFixedPPC, InjectionOK
<1>2. PICK n \in Nat : HasRows(tile[ibeam], n)
  <2>1. ibeam \in DOMAIN tile
    BY <1>1 DEF HasRows
  <2> QED
    BY <2>1 DEF InjectionOK, IsTile
<1>3. PICK W : BeamDone(AddBeamParticles(tile[ibeam], nextID, W), 0)
  BY DEF FillFixedPPC
<1>4. IsTile(AddBeamParticles(tile[ibeam], nextID, W))
  BY <1>2, AddedIsTile DEF IsTile
<1>5. species' = species /\ file' = file /\ conf' = conf
  BY DEF FillFixedPPC
<1> QED
  BY <1>1, <1>3, <1>4, <1>5, BeamDoneOK

LEMMA InjectFixedWeightOK ==
    ASSUME Control, InjectionOK, InjectFixedWeight
    PROVE  InjectionOK'
<1>1. pc = "inject" /\ ibeam <= Len(species)
  BY DEF InjectFixedWeight, InjectionOK
<1>2. Beam.num \in Nat
  BY <1>1, BeamIs DEF InjectFixedWeight, FixedWeight
<1>3. PICK n \in Nat : \E W : BeamDone(AddBeamParticles(Resized(n), nextID, W), 0)
  <2>1. Beam.num \div 4 \in Nat /\ 4 * (Beam.num \div 4) \in Nat
    BY <1>2
  <2> QED
    BY <1>2, <2>1 DEF InjectFixedWeight
<1>4. \A W : IsTile(AddBeamParticles(Resized(n), nextID, W))
  BY ResizedIsTile, AddedIsTile DEF IsTile
<1>5. species' = species /\ file' = file /\ conf' = conf
  BY DEF InjectFixedWeight
<1> QED
  BY <1>1, <1>3, <1>4, <1>5, BeamDoneOK

LEMMA InjectFromFileOK ==
    ASSUME Control, InjectionOK, PositionsOK, InjectFromFile
    PROVE  InjectionOK'
<1>1. pc = "inject"
  BY DEF InjectFromFile
<1>2. PICK iter \in IterationOf(Beam) : \E name \in SpeciesRead(Beam, iter) :
          LET rows == iter.data[name].position
              W == {<<k - 1, rows[k]>> : k \in DOMAIN rows}
          IN  BeamDone(AddBeamParticles(Resized(Len(rows)), nextID, W), iter.time)
  BY DEF InjectFromFile
<1>3. PICK name \in SpeciesRead(Beam, iter) :
          \E W : BeamDone(AddBeamParticles(Resized(Len(iter.data[name].position)), nextID, W), iter.time)
  BY <1>2
<1>4. iter \in file /\ name \in DOMAIN iter.data
  BY DEF IterationOf, SpeciesRead
<1>5. Len(iter.data[name].position) \in Nat
  BY <1>4 DEF PositionsOK, IsTile, HasRows
<1>6. \A W : IsTile(AddBeamParticles(Resized(Len(iter.data[name].position)), nextID, W))
  BY <1>5, ResizedIsTile, AddedIsTile DEF IsTile
<1>7. species' = species /\ file' = file /\ conf' = conf
  BY DEF InjectFromFile
<1> QED
  BY <1>1, <1>3, <1>4, <1>6, <1>7, BeamDoneOK

LEMMA NextInjection ==
    ASSUME Control, InjectionOK, PositionsOK, Next \/ UNCHANGED vars
    PROVE  InjectionOK'
<1>0. conf' = conf
  BY ConfStays
<1>1. CASE InjectionNext
  <2>1. CASE AbortFromFile
    <3>1. pc' = "aborted" /\ pc' # "fill" /\ pc # "fill"
          /\ pc' \notin {"inject", "fill", "injected", "step"} \union InStep
      BY <2>1 DEF AbortFromFile, InStep
    <3> QED
      BY <1>0, <2>1, <3>1 DEF InjectionOK, AbortFromFile, injectionVars
  <2> QED
    BY <1>1, <2>1, CountFixedPPCOK, FillFixedPPCOK, InjectFixedWeightOK, InjectFromFileOK
       DEF InjectionNext
<1>2. CASE Restart
  <2>1. /\ file' # {} /\ species' = conf.restart /\ conf.restart # <<>>
        /\ ibeam' = 1 /\ tile' = <<>> /\ total' = <<>> /\ pc' = "inject"
    BY <1>2 DEF Restart
  <2>2. conf.restart \in Seq(BeamParameters)
    BY InjectionAssumption DEF Control
  <2>3. Len(species') \in Nat /\ Len(species') >= 1
    BY <2>1, <2>2
  <2>4. HasRows(<<>>, 0)
    <3>1. <<>> = [k \in 1 .. 0 |-> <<>>[k]] /\ DOMAIN <<>> = 1 .. 0 /\ Len(<<>>) = 0
      OBVIOUS
    <3> QED
      BY <3>1 DEF HasRows
  <2>5. DOMAIN tile' = {} /\ 1 .. ibeam' - 1 = {} /\ ibeam' - 1 = 0
    BY <2>1
  <2> QED
    BY <1>0, <2>1, <2>3, <2>4, <2>5 DEF InjectionOK, InStep
<1>3. CASE UNCHANGED vars
  <2>1. UNCHANGED <<conf, species, ibeam, tile, total, initialTime, offsets, file, pc>>
    BY <1>3 DEF vars, injectionVars
  <2>2. Beam' = Beam
    BY <2>1 DEF Beam
  <2> QED
    BY <2>1, <2>2 DEF InjectionOK
<1>4. CASE \/ EnterEvolve \/ StartStep \/ Wait \/ Sort \/ WriteBeams \/ SolveBox \/ WriteFields
           \/ Notify \/ EndStep
  <2>1. /\ UNCHANGED <<conf, injectionVars, file>>
        /\ pc \in {"injected", "step"} \union InStep /\ pc' \in {"step"} \union InStep
    BY <1>4 DEF EnterEvolve, StartStep, Wait, Sort, WriteBeams, SolveBox, WriteFields, Notify, EndStep,
                InStep
  <2>2. UNCHANGED <<species, ibeam, tile, total, initialTime>>
    BY <2>1 DEF injectionVars
  <2>3. pc' \notin {"inject", "fill"} /\ pc \notin {"inject", "fill"}
    BY <2>1 DEF InStep
  <2> QED
    BY <2>1, <2>2, <2>3 DEF InjectionOK
<1> QED
  BY <1>1, <1>2, <1>3, <1>4 DEF Next, Done

\* What is written of a beam.
BeamRows(b) == [k \in DOMAIN Chunk(b) |-> BeamRow(b, Chunk(b)[k])]

LEMMA WriteBeamsIs ==
    ASSUME WriteBeams, IsOutputStep(step), PositionsOK
    PROVE  /\ DOMAIN dump' = {"step", "time", "position", "momentum", "id", "field"}
           /\ dump'.time = physicalTime
           /\ chunkOffset' = [b \in Beams |->
                  IF b \notin conf.dumped THEN chunkOffset[b]
                  ELSE IF FirstBox THEN 0 ELSE chunkOffset[b] + chunkSize[b]]
           /\ chunkSize' = [b \in Beams |-> IF b \in conf.dumped THEN CountOf(b, it) ELSE chunkSize[b]]
           /\ \A b \in Beams \ conf.dumped : dump'.position[b] = dump.position[b]
           /\ \A b \in Beams \cap conf.dumped :
                  /\ dump'.position[b] = StoreChunk(SetupBeam(dump.position, b), chunkOffset'[b], BeamRows(b))
                  /\ dump'.momentum[b] = StoreChunk(SetupBeam(dump.momentum, b), chunkOffset'[b], BeamRows(b))
<1> DEFINE offset == [b \in Beams |->
                    IF b \notin conf.dumped THEN chunkOffset[b]
                    ELSE IF FirstBox THEN 0 ELSE chunkOffset[b] + chunkSize[b]]
           Stored(data, b, chunk) ==
               IF b \in conf.dumped THEN StoreChunk(SetupBeam(data, b), offset[b], chunk) ELSE data[b]
           ids(b) == [k \in DOMAIN IdChunk(b) |-> <<tile[b][IdChunk(b)[k]].id>>]
<1>1. /\ chunkOffset' = offset
      /\ chunkSize' = [b \in Beams |-> IF b \in conf.dumped THEN CountOf(b, it) ELSE chunkSize[b]]
      /\ dump' = [dump EXCEPT
                       !.time = physicalTime,
                       !.position = [b \in Beams |-> Stored(@, b, BeamRows(b))],
                       !.momentum = [b \in Beams |-> Stored(@, b, BeamRows(b))],
                       !.id = [b \in Beams |-> Stored(@, b, ids(b))]]
  BY DEF WriteBeams, BeamRows
<1> HIDE DEF offset, Stored, ids
<1>2. /\ DOMAIN dump' = {"step", "time", "position", "momentum", "id", "field"}
      /\ dump'.time = physicalTime
      /\ dump'.position = [b \in Beams |-> Stored(dump.position, b, BeamRows(b))]
      /\ dump'.momentum = [b \in Beams |-> Stored(dump.momentum, b, BeamRows(b))]
  BY <1>1 DEF PositionsOK
<1> QED
  BY <1>1, <1>2 DEF Stored, offset

LEMMA InitPositions ==
    ASSUME WriterInit
    PROVE  PositionsOK
<1>1. dump = NewIteration(-1) /\ file = {}
  BY DEF WriterInit, InjectionInit
<1>2. IsTile(<<>>)
  <2>1. HasRows(<<>>, 0)
    BY DEF HasRows
  <2> QED
    BY <2>1 DEF IsTile
<1> QED
  BY <1>1, <1>2 DEF PositionsOK, NewIteration

LEMMA NextPositions ==
    ASSUME Control, InjectionOK, PositionsOK, Next \/ UNCHANGED vars
    PROVE  PositionsOK'
<1>0. Beams' = Beams
  BY ConfStays DEF Beams
<1>1. CASE dump' = dump /\ file' = file
  BY <1>0, <1>1 DEF PositionsOK
<1>2. CASE InjectionNext /\ UNCHANGED writerVars
  BY <1>1, <1>2, InjectionControl DEF writerVars
<1>3. CASE StartStep
  <2>1. file' = file /\ dump' = IF IsOutputStep(step) THEN NewIteration(step) ELSE dump
    BY <1>3 DEF StartStep
  <2>2. IsTile(<<>>)
    <3>1. HasRows(<<>>, 0)
      BY DEF HasRows
    <3> QED
      BY <3>1 DEF IsTile
  <2>3. CASE IsOutputStep(step)
    BY <1>0, <2>1, <2>2, <2>3 DEF PositionsOK, NewIteration
  <2> QED
    BY <1>1, <2>1, <2>3
<1>4. CASE WriteBeams
  <2>1. file' = file /\ pc = "beams"
    BY <1>4 DEF WriteBeams
  <2>2. CASE ~IsOutputStep(step)
    BY <1>1, <1>4, <2>1, <2>2 DEF WriteBeams
  <2>3. CASE IsOutputStep(step)
    <3>1. /\ DOMAIN dump' = {"step", "time", "position", "momentum", "id", "field"}
          /\ \A b \in Beams \ conf.dumped : dump'.position[b] = dump.position[b]
          /\ \A b \in Beams \cap conf.dumped :
                 dump'.position[b] = StoreChunk(SetupBeam(dump.position, b), chunkOffset'[b], BeamRows(b))
      BY <1>4, <2>3, WriteBeamsIs
    <3>4. \A b \in Beams : IsTile(dump'.position[b])
      <4> SUFFICES ASSUME NEW b \in Beams PROVE IsTile(dump'.position[b])
        OBVIOUS
      <4>1. IsTile(SetupBeam(dump.position, b))
        <5>1. total[b] \in Nat
          <6>1. file = {} /\ InjectionOK /\ ibeam = Len(species) + 1
            BY <2>1 DEF Control, InjectionOK, InStep, Injecting
          <6>2. Beams = 1 .. Len(species) /\ Len(species) \in Nat
            BY <6>1, BeamIs DEF InjectionOK, Beams
          <6>3. b \in 1 .. ibeam - 1 /\ b \in DOMAIN tile /\ pc # "fill"
            BY <2>1, <6>1, <6>2 DEF InjectionOK, HasRows
          <6>4. total[b] = TotalNumberOfParticles(tile[b]) /\ IsTile(tile[b])
            BY <6>3 DEF InjectionOK
          <6>5. PICK n \in Nat : DOMAIN tile[b] = 1 .. n
            BY <6>4 DEF IsTile, HasRows
          <6>6. IsFiniteSet(1 .. n)
            BY FS_Interval
          <6>7. {k \in DOMAIN tile[b] : tile[b][k].id > 0} \subseteq 1 .. n
            BY <6>5
          <6> QED
            BY <6>4, <6>6, <6>7, FS_Subset, FS_CardinalityType DEF TotalNumberOfParticles
        <5>2. IsTile(DataSet(total[b]))
          BY <5>1, DataSetRows DEF IsTile
        <5> QED
          BY <5>2 DEF SetupBeam, PositionsOK
      <4>2. PICK n \in Nat : HasRows(SetupBeam(dump.position, b), n)
        BY <4>1 DEF IsTile
      <4>3. \A o, r : HasRows(StoreChunk(SetupBeam(dump.position, b), o, r), n)
        BY <4>2, ChunkRows
      <4>4. b \in conf.dumped => IsTile(dump'.position[b])
        BY <3>1, <4>3 DEF IsTile
      <4>5. b \notin conf.dumped => IsTile(dump'.position[b])
        BY <3>1 DEF PositionsOK
      <4> QED
        BY <4>4, <4>5
    <3> QED
      BY <1>0, <2>1, <3>1, <3>4 DEF PositionsOK
  <2> QED
    BY <2>2, <2>3
<1>5. CASE WriteFields
  <2>1. file' = file /\ \E f : dump' = dump \/ dump' = [dump EXCEPT !.field = f]
    BY <1>5 DEF WriteFields
  <2>2. DOMAIN dump' = DOMAIN dump /\ dump'.position = dump.position
    BY <2>1 DEF PositionsOK
  <2> QED
    BY <1>0, <2>1, <2>2 DEF PositionsOK
<1>6. CASE Restart
  <2>1. dump' = dump
    BY <1>6 DEF Restart, writerVars
  <2>2. \A iter \in file' : iter.data = [b \in conf.dumped |-> [position |-> dump.position[b]]]
    BY <1>6 DEF Restart
  <2>3. conf.dumped \subseteq Beams
    BY WriterAssumption DEF Control, Beams
  <2>4. \A iter \in file' : \A name \in DOMAIN iter.data :
            name \in Beams /\ iter.data[name].position = dump.position[name]
    <3> SUFFICES ASSUME NEW iter \in file', NEW name \in DOMAIN iter.data
                 PROVE  name \in Beams /\ iter.data[name].position = dump.position[name]
      OBVIOUS
    <3>1. iter.data = [b \in conf.dumped |-> [position |-> dump.position[b]]]
      BY <2>2
    <3>2. name \in conf.dumped /\ iter.data[name] = [position |-> dump.position[name]]
      BY <3>1
    <3> QED
      BY <2>3, <3>2
  <2> QED
    BY <1>0, <2>1, <2>4 DEF PositionsOK
<1>7. CASE EnterEvolve \/ Wait \/ Sort \/ SolveBox \/ Notify \/ EndStep \/ Done \/ UNCHANGED vars
  BY <1>1, <1>7 DEF EnterEvolve, Wait, Sort, SolveBox, Notify, EndStep, Done, vars, writerVars
<1> QED
  BY <1>2, <1>3, <1>4, <1>5, <1>6, <1>7 DEF Next

-----------------------------------------------------------------------------
(* Tiles                                                                   *)

\* A tile has no particle twice.
Distinct(s) ==
    /\ HasRows(s, Len(s)) /\ Len(s) \in Nat
    /\ \A i, j \in 1 .. Len(s) : s[i] = s[j] => i = j

\* An order of a finite set has each of its elements once.
LEMMA OrderIsDistinct ==
    ASSUME NEW S, IsFiniteSet(S), NEW s \in [1 .. Cardinality(S) -> S],
           \A i, j \in 1 .. Cardinality(S) : i # j => s[i] # s[j]
    PROVE  Distinct(s) /\ ToSet(s) = S
<1>1. Cardinality(S) \in Nat
  BY FS_CardinalityType
<1>2. s = [k \in 1 .. Cardinality(S) |-> s[k]]
  OBVIOUS
<1>3. HasRows(s, Cardinality(S))
  BY <1>1, <1>2, RowsOfFunction
<1>4. Len(s) = Cardinality(S) /\ DOMAIN s = 1 .. Cardinality(S)
  BY <1>3 DEF HasRows
<1>5. \A x \in S : \E i \in 1 .. Cardinality(S) : s[i] = x
  <2>1. \A i, j \in 1 .. Cardinality(S) : s[i] = s[j] => i = j
    OBVIOUS
  <2> QED
    BY <2>1, OrderIsOnto
<1>6. \A i \in 1 .. Cardinality(S) : s[i] \in S
  OBVIOUS
<1>7. ToSet(s) = S
  BY <1>4, <1>5, <1>6 DEF ToSet
<1> QED
  BY <1>1, <1>3, <1>4, <1>7 DEF Distinct

LEMMA SetToSeqIsOrder ==
    ASSUME NEW S, IsFiniteSet(S)
    PROVE  Distinct(SetToSeq(S)) /\ ToSet(SetToSeq(S)) = S
<1> DEFINE n == Cardinality(S)
<1>1. PICK f \in Bijection(1 .. n, S) : TRUE
  BY FS_CardinalityType DEF ExistsBijection
<1>2. f \in [1 .. n -> S] /\ IsInjective(f)
  BY <1>1 DEF Bijection, Injection, IsInjective
<1>3. SetToSeq(S) \in [1 .. n -> S] /\ IsInjective(SetToSeq(S))
  BY <1>2 DEF SetToSeq
<1>4. \A i, j \in 1 .. n : i # j => SetToSeq(S)[i] # SetToSeq(S)[j]
  BY <1>3 DEF IsInjective
<1> HIDE DEF n
<1> QED
  BY <1>3, <1>4, OrderIsDistinct DEF n

LEMMA JoinedIsDistinct ==
    ASSUME NEW s, NEW t, Distinct(s), Distinct(t), ToSet(s) \cap ToSet(t) = {}
    PROVE  Distinct(s \o t) /\ ToSet(s \o t) = ToSet(s) \union ToSet(t)
<1> DEFINE m == Len(s)
           n == Len(t)
           u == s \o t
<1>1. m \in Nat /\ n \in Nat /\ HasRows(s, m) /\ HasRows(t, n)
  BY DEF Distinct
<1>2. PICK S : s \in Seq(S)
  BY <1>1, RowsAreSeq
<1>3. PICK T : t \in Seq(T)
  BY <1>1, RowsAreSeq
<1> DEFINE U == S \union T
<1>4. s \in Seq(U) /\ t \in Seq(U)
  BY <1>2, <1>3
<1> HIDE DEF U
<1>5. u \in Seq(U) /\ Len(u) = m + n
  BY <1>4
<1>6. \A k \in 1 .. m + n : u[k] = IF k <= m THEN s[k] ELSE t[k - m]
  BY <1>4
<1> HIDE DEF u
<1>7. u \in [1 .. m + n -> U] /\ DOMAIN u = 1 .. m + n
  BY <1>1, <1>5
<1>8. HasRows(u, Len(u)) /\ Len(u) \in Nat
  BY <1>1, <1>5, <1>7 DEF HasRows
<1>9. (\A i \in 1 .. m : s[i] \in ToSet(s)) /\ (\A i \in 1 .. n : t[i] \in ToSet(t))
  BY <1>1 DEF HasRows, ToSet
<1>12. /\ \A i, j \in 1 .. m : s[i] = s[j] => i = j
       /\ \A i, j \in 1 .. n : t[i] = t[j] => i = j
  BY DEF Distinct
<1>10. \A i, j \in 1 .. m + n : u[i] = u[j] => i = j
  <2> SUFFICES ASSUME NEW i \in 1 .. m + n, NEW j \in 1 .. m + n, u[i] = u[j] PROVE i = j
    OBVIOUS
  <2> HIDE DEF m, n
  <2>0. i \in Int /\ j \in Int /\ m \in Int /\ n \in Int
    BY <1>1
  <2>1. /\ u[i] = IF i <= m THEN s[i] ELSE t[i - m]
        /\ u[j] = IF j <= m THEN s[j] ELSE t[j - m]
    BY <1>6
  <2>2. /\ i <= m => i \in 1 .. m
        /\ j <= m => j \in 1 .. m
        /\ i > m => i - m \in 1 .. n
        /\ j > m => j - m \in 1 .. n
    BY <1>1
  <2>3. CASE i <= m /\ j <= m
    BY <1>12, <2>1, <2>2, <2>3
  <2>4. CASE i > m /\ j > m
    <3>1. i - m \in 1 .. n /\ j - m \in 1 .. n
      BY <2>2, <2>4
    <3>2. t[i - m] = t[j - m]
      <4>1. ~(i <= m) /\ ~(j <= m)
        BY <2>0, <2>4
      <4> QED
        BY <2>1, <4>1
    <3>3. i - m = j - m
      BY <1>12, <3>1, <3>2
    <3> QED
      BY <1>1, <3>3
  <2>5. CASE i <= m /\ j > m
    <3>1. u[i] = s[i] /\ u[j] = t[j - m]
      <4>1. ~(j <= m)
        BY <2>0, <2>5
      <4> QED
        BY <2>1, <2>5, <4>1
    <3> QED
      BY <1>9, <2>2, <2>5, <3>1
  <2>6. CASE i > m /\ j <= m
    <3>1. u[i] = t[i - m] /\ u[j] = s[j]
      <4>1. ~(i <= m)
        BY <2>0, <2>6
      <4> QED
        BY <2>1, <2>6, <4>1
    <3> QED
      BY <1>9, <2>2, <2>6, <3>1
  <2> QED
    BY <1>1, <2>3, <2>4, <2>5, <2>6
<1>11. ToSet(u) = ToSet(s) \union ToSet(t)
  <2>1. \A x \in ToSet(u) : x \in ToSet(s) \union ToSet(t)
    <3> SUFFICES ASSUME NEW k \in 1 .. m + n PROVE u[k] \in ToSet(s) \union ToSet(t)
      BY <1>7 DEF ToSet
    <3>1. k <= m => k \in 1 .. m
      BY <1>1
    <3>2. k > m => k - m \in 1 .. n
      BY <1>1
    <3> QED
      BY <1>1, <1>6, <1>9, <3>1, <3>2
  <2>2. \A x \in ToSet(s) : x \in ToSet(u)
    <3> SUFFICES ASSUME NEW k \in 1 .. m PROVE s[k] \in ToSet(u)
      BY <1>1 DEF ToSet, HasRows
    <3>1. k \in 1 .. m + n /\ u[k] = s[k]
      BY <1>1, <1>6
    <3> QED
      BY <1>7, <3>1 DEF ToSet
  <2>3. \A x \in ToSet(t) : x \in ToSet(u)
    <3> SUFFICES ASSUME NEW k \in 1 .. n PROVE t[k] \in ToSet(u)
      BY <1>1 DEF ToSet, HasRows
    <3>1. k + m \in 1 .. m + n /\ u[k + m] = t[k]
      <4>1. k + m \in 1 .. m + n /\ ~(k + m <= m) /\ (k + m) - m = k
        BY <1>1
      <4> QED
        BY <1>6, <4>1
    <3> QED
      BY <1>7, <3>1 DEF ToSet
  <2> QED
    BY <2>1, <2>2, <2>3
<1> QED
  BY <1>5, <1>8, <1>10, <1>11 DEF u, Distinct

LEMMA FirstAreDistinct ==
    ASSUME NEW s, Distinct(s), NEW m \in 0 .. Len(s)
    PROVE  /\ Distinct(SubSeq(s, 1, m))
           /\ ToSet(SubSeq(s, 1, m)) = {s[i] : i \in 1 .. m}
<1> DEFINE t == SubSeq(s, 1, m)
<1>1. HasRows(t, m) /\ \A k \in 1 .. m : t[k] = s[k]
  BY FirstRows DEF Distinct
<1> HIDE DEF t
<1>2. Len(t) = m /\ m \in Nat /\ DOMAIN t = 1 .. m
  BY <1>1 DEF HasRows
<1>3. Distinct(t)
  BY <1>1, <1>2 DEF Distinct
<1>4. ToSet(t) = {s[i] : i \in 1 .. m}
  BY <1>1, <1>2 DEF ToSet
<1> QED
  BY <1>3, <1>4 DEF t

\* The sum of the counts of the boxes before box k is where box k starts in a
\* sorted tile, and with the count of box k where it ends.
LEMMA OffsetsOfSorted ==
    ASSUME NEW n \in Nat, NEW L \in Nat, NEW key \in [1 .. n -> 0 .. L],
           \A i, j \in 1 .. n : i < j => key[i] <= key[j],
           NEW c, \A k \in 0 .. L : c[k] = Cardinality({i \in 1 .. n : key[i] = k}),
           NEW k \in 0 .. L
    PROVE  LET m == SumFunctionOnSet(c, {j \in 0 .. L : j < k})
           IN  /\ m \in Nat /\ c[k] \in Nat /\ m + c[k] <= n
               /\ \A i \in 1 .. n : /\ i <= m <=> key[i] < k
                                    /\ i <= m + c[k] <=> key[i] <= k
<1> DEFINE m == SumFunctionOnSet(c, {j \in 0 .. L : j < k})
           K == {j \in 0 .. L : j < k}
           before == {i \in 1 .. n : key[i] < k}
           upto == {i \in 1 .. n : key[i] <= k}
<1>1. IsFiniteSet(1 .. n) /\ IsFiniteSet(K)
  <2>1. IsFiniteSet(1 .. n) /\ IsFiniteSet(0 .. L)
    BY FS_Interval
  <2>2. K \subseteq 0 .. L
    OBVIOUS
  <2> HIDE DEF K
  <2> QED
    BY <2>1, <2>2, FS_Subset
<1>2. \A j \in 0 .. L : c[j] \in Nat
  <2> SUFFICES ASSUME NEW j \in 0 .. L PROVE c[j] \in Nat
    OBVIOUS
  <2> DEFINE I == {i \in 1 .. n : key[i] = j}
  <2>1. I \subseteq 1 .. n /\ c[j] = Cardinality(I)
    OBVIOUS
  <2> HIDE DEF I
  <2>2. IsFiniteSet(I)
    BY <1>1, <2>1, FS_Subset, Zenon
  <2>3. Cardinality(I) \in Nat
    BY <2>2, FS_CardinalityType, Zenon
  <2> QED
    BY <2>1, <2>3, Zenon
<1>3. m = Cardinality(before)
  <2>1. m = Cardinality({i \in 1 .. n : key[i] \in K})
    <3>1. AreCounts(c, 1 .. n, key, K)
      BY DEF AreCounts
    <3> HIDE DEF K
    <3>2. SumFunctionOnSet(c, K) = Cardinality(WithKeys(1 .. n, key, K))
      BY <1>1, <3>1, CountsOfKeys
    <3> QED
      BY <3>2 DEF K, WithKeys
  <2>2. {i \in 1 .. n : key[i] \in K} = before
    OBVIOUS
  <2> QED
    BY <2>1, <2>2
<1>4. m + c[k] = Cardinality(upto)
  <2>1. IsFiniteSet(K \union {k})
    BY <1>1, FS_AddElement
  <2>2. SumFunctionOnSet(c, K \union {k}) = Cardinality({i \in 1 .. n : key[i] \in K \union {k}})
    <3>1. AreCounts(c, 1 .. n, key, K \union {k})
      BY DEF AreCounts
    <3> HIDE DEF K
    <3>2. SumFunctionOnSet(c, K \union {k}) = Cardinality(WithKeys(1 .. n, key, K \union {k}))
      BY <1>1, <2>1, <3>1, CountsOfKeys
    <3> QED
      BY <3>2 DEF WithKeys
  <2>3. {i \in 1 .. n : key[i] \in K \union {k}} = upto
    OBVIOUS
  <2>4. SumFunctionOnSet(c, K \union {k}) = c[k] + SumFunctionOnSet(c, K)
    <3>1. (\A j \in K : c[j] \in Int) /\ k \notin K /\ c[k] \in Int
      BY <1>2
    <3> HIDE DEF K
    <3> QED
      BY <1>1, <3>1, SumAdd
  <2>5. SumFunctionOnSet(c, K) \in Int
    <3>1. \A j \in K : c[j] \in Int
      BY <1>2
    <3> HIDE DEF K
    <3> QED
      BY <1>1, <3>1, SumInt
  <2>6. m = SumFunctionOnSet(c, K) /\ c[k] \in Int
    BY <1>2
  <2> DEFINE sum == SumFunctionOnSet(c, K)
             sumUpto == SumFunctionOnSet(c, K \union {k})
  <2>7. sumUpto = Cardinality(upto)
    BY <2>2, <2>3
  <2>8. sumUpto = c[k] + sum /\ m = sum /\ sum \in Int /\ c[k] \in Int
    BY <2>4, <2>5, <2>6
  <2> HIDE DEF m, K, upto, sum, sumUpto
  <2> QED
    BY <2>7, <2>8
<1>5. before = 1 .. m /\ m \in 0 .. n
  <2>1. \A i \in 1 .. n : \A j \in before : i < j => i \in before
    OBVIOUS
  <2>2. before \subseteq 1 .. n
    OBVIOUS
  <2> HIDE DEF before, m
  <2> QED
    BY <1>3, <2>1, <2>2, InitialPart
<1>6. upto = 1 .. m + c[k] /\ m + c[k] \in 0 .. n
  <2>1. \A i \in 1 .. n : \A j \in upto : i < j => i \in upto
    OBVIOUS
  <2>2. upto \subseteq 1 .. n
    OBVIOUS
  <2> HIDE DEF upto, m
  <2> QED
    BY <1>4, <2>1, <2>2, InitialPart
<1>7. c[k] \in Nat
  BY <1>2
<1>8. \A i \in 1 .. n : (i \in before <=> key[i] < k) /\ (i \in upto <=> key[i] <= k)
  OBVIOUS
<1> HIDE DEF before, upto, m, K
<1>9. \A i \in 1 .. n : (i <= m <=> key[i] < k) /\ (i <= m + c[k] <=> key[i] <= k)
  BY <1>5, <1>6, <1>7, <1>8
<1> QED
  BY <1>5, <1>6, <1>7, <1>9 DEF m

-----------------------------------------------------------------------------
(* Particles of this rank                                                  *)

Particles == UNION {{b} \X DOMAIN tile[b] : b \in Beams}

\* Each beam has a tile, of some of its particles, each once.
TilesOK ==
    /\ here = [b \in Beams |-> here[b]]
    /\ \A b \in Beams :
           Distinct(here[b]) /\ \A i \in DOMAIN here[b] : <<b, here[b][i]>> \in Particles

ParticleTypes ==
    /\ box \in [Particles -> 0 .. Lost] /\ from \in [Particles -> 0 .. Lost]
    /\ age \in [Particles -> Nat]

\* The tile of a beam is sorted by boxes, and the box sorter knows where each
\* box starts and ends.
SortedOK(b) ==
    \A k \in 0 .. Lost :
        /\ CountOf(b, k) \in Nat /\ OffsetOf(b, k) \in Nat
        /\ OffsetOf(b, k) + CountOf(b, k) <= Len(here[b])
        /\ \A i \in DOMAIN here[b] :
               /\ i <= OffsetOf(b, k) <=> from[<<b, here[b][i]>>] < k
               /\ i <= OffsetOf(b, k) + CountOf(b, k) <=> from[<<b, here[b][i]>>] <= k

\* A particle, its beam and its number.
LEMMA ParticleIs ==
    /\ \A p \in Particles : p[1] \in Beams /\ p[2] \in DOMAIN tile[p[1]] /\ p = <<p[1], p[2]>>
    /\ \A b \in Beams : \A k \in DOMAIN tile[b] : <<b, k>> \in Particles
    /\ \A b, k : <<b, k>> \in Particles => b \in Beams /\ k \in DOMAIN tile[b]
<1>1. \A p \in Particles : \E b \in Beams : \E k \in DOMAIN tile[b] : p = <<b, k>>
  BY DEF Particles
<1>2. \A b \in Beams : \A k \in DOMAIN tile[b] : <<b, k>> \in Particles
  BY DEF Particles
<1>3. \A b, k : <<b, k>> \in Particles => b \in Beams /\ k \in DOMAIN tile[b]
  BY DEF Particles
<1> QED
  BY <1>1, <1>2, <1>3

LEMMA HereIs ==
    ASSUME TilesOK, ParticleTypes
    PROVE  /\ \A p \in Particles : p \in Away <=> p[2] \notin ToSet(here[p[1]])
           /\ Away \subseteq Particles
           /\ \A b \in Beams : Here(b) = {p \in Particles : p[1] = b /\ p \notin Away}
           /\ \A b \in Beams : \A i \in DOMAIN here[b] :
                  <<b, here[b][i]>> \in Particles \ Away
           /\ \A p \in Particles \ Away : \E i \in DOMAIN here[p[1]] : here[p[1]][i] = p[2]
<1>1. DOMAIN box = Particles
  BY DEF ParticleTypes
<1>2. /\ \A p \in Particles : p \in Away <=> p[2] \notin ToSet(here[p[1]])
      /\ Away \subseteq Particles
      /\ \A b \in Beams : Here(b) = {p \in Particles : p[1] = b /\ p \notin Away}
  BY <1>1 DEF Away, Here
<1>3. \A b \in Beams : \A i \in DOMAIN here[b] : <<b, here[b][i]>> \in Particles \ Away
  <2> SUFFICES ASSUME NEW b \in Beams, NEW i \in DOMAIN here[b]
               PROVE  <<b, here[b][i]>> \in Particles \ Away
    OBVIOUS
  <2>1. <<b, here[b][i]>> \in Particles
    BY DEF TilesOK
  <2>2. here[b][i] \in ToSet(here[b])
    BY DEF ToSet
  <2> QED
    BY <1>2, <2>1, <2>2
<1>4. \A p \in Particles \ Away : \E i \in DOMAIN here[p[1]] : here[p[1]][i] = p[2]
  <2> SUFFICES ASSUME NEW p \in Particles \ Away
               PROVE  \E i \in DOMAIN here[p[1]] : here[p[1]][i] = p[2]
    OBVIOUS
  <2>1. p[2] \in ToSet(here[p[1]])
    BY <1>2
  <2> QED
    BY <2>1 DEF ToSet
<1> QED
  BY <1>2, <1>3, <1>4

\* A sort keeps the particles of the tile and finds where the boxes are.
LEMMA SortSorts ==
    ASSUME Control, TilesOK, ParticleTypes, Sort
    PROVE  /\ TilesOK' /\ ParticleTypes' /\ Away' = Away
           /\ \A p \in Particles \ Away : from'[p] = box[p]
           /\ \A p \in Away : from'[p] = from[p]
           /\ \A b \in Beams : SortedOK(b)'
<1>1. /\ UNCHANGED <<conf, injectionVars, box, age>>
      /\ counts' = BoxCounts
      /\ here' \in [Beams -> UNION {SortedTiles(b) : b \in Beams}]
      /\ \A b \in Beams : here'[b] \in SortedTiles(b)
      /\ from' = [p \in DOMAIN box |-> IF p \in Away THEN from[p] ELSE box[p]]
  BY DEF Sort
<1>2. /\ Beams' = Beams /\ Particles' = Particles /\ Lost' = Lost /\ DOMAIN box = Particles
  BY <1>1 DEF Beams, Particles, Lost, NBoxes, NProcs, injectionVars, ParticleTypes
<1>3. \A b \in Beams : Distinct(here'[b]) /\ ToSet(here'[b]) = ToSet(here[b])
  <2> SUFFICES ASSUME NEW b \in Beams
               PROVE  Distinct(here'[b]) /\ ToSet(here'[b]) = ToSet(here[b])
    OBVIOUS
  <2> DEFINE S == ToSet(here[b])
  <2>1. here'[b] \in SetToSeqs(S)
    BY <1>1 DEF SortedTiles
  <2>2. /\ here'[b] \in [1 .. Cardinality(S) -> S]
        /\ \A i, j \in 1 .. Cardinality(S) : i # j => here'[b][i] # here'[b][j]
    BY <2>1 DEF SetToSeqs
  <2>3. IsFiniteSet(S)
    <3>1. Len(here[b]) \in Nat /\ DOMAIN here[b] = 1 .. Len(here[b])
      BY DEF TilesOK, Distinct, HasRows
    <3> DEFINE o == [i \in 1 .. Len(here[b]) |-> here[b][i]]
    <3>2. o \in Surjection(1 .. Len(here[b]), S)
      BY <3>1 DEF Surjection, ToSet
    <3> HIDE DEF o, S
    <3>3. IsFiniteSet(1 .. Len(here[b]))
      <4>1. 1 \in Int /\ Len(here[b]) \in Int
        BY <3>1
      <4> QED
        BY <4>1, FS_Interval, Zenon
    <3> QED
      BY <3>2, <3>3, FS_Surjection
  <2> HIDE DEF S
  <2>4. Distinct(here'[b]) /\ ToSet(here'[b]) = S
    BY <2>2, <2>3, OrderIsDistinct
  <2> QED
    BY <2>4 DEF S
<1>4. here' = [b \in Beams |-> here'[b]]
  BY <1>1
<1>5. Away' = Away
  <2>1. \A p \in Particles : ToSet(here'[p[1]]) = ToSet(here[p[1]])
    BY <1>3, ParticleIs
  <2> QED
    BY <1>1, <1>2, <2>1 DEF Away
<1>6. \A b \in Beams : \A i \in DOMAIN here'[b] : <<b, here'[b][i]>> \in Particles \ Away
  <2> SUFFICES ASSUME NEW b \in Beams, NEW i \in DOMAIN here'[b]
               PROVE  <<b, here'[b][i]>> \in Particles \ Away
    OBVIOUS
  <2>1. here'[b][i] \in ToSet(here[b])
    BY <1>3 DEF ToSet
  <2>2. PICK j \in DOMAIN here[b] : here[b][j] = here'[b][i]
    BY <2>1 DEF ToSet
  <2> QED
    BY <2>2, HereIs
<1>7. TilesOK'
  BY <1>2, <1>3, <1>4, <1>6 DEF TilesOK
<1>8. ParticleTypes'
  <2>1. from' \in [Particles -> 0 .. Lost]
    BY <1>1, <1>2 DEF ParticleTypes
  <2> QED
    BY <1>1, <1>2, <2>1 DEF ParticleTypes
<1>9. /\ \A p \in Particles \ Away : from'[p] = box[p]
      /\ \A p \in Away : from'[p] = from[p]
  BY <1>1, <1>2, HereIs
<1>10. \A b \in Beams : SortedOK(b)'
  <2> SUFFICES ASSUME NEW b \in Beams, NEW k \in 0 .. Lost
               PROVE  /\ CountOf(b, k)' \in Nat /\ OffsetOf(b, k)' \in Nat
                      /\ OffsetOf(b, k)' + CountOf(b, k)' <= Len(here'[b])
                      /\ \A i \in DOMAIN here'[b] :
                             /\ i <= OffsetOf(b, k)' <=> from'[<<b, here'[b][i]>>] < k
                             /\ i <= OffsetOf(b, k)' + CountOf(b, k)'
                                    <=> from'[<<b, here'[b][i]>>] <= k
    BY <1>2 DEF SortedOK
  <2> DEFINE s == here'[b]
             n == Len(s)
             key == [i \in 1 .. n |-> box[<<b, s[i]>>]]
             c == counts'[b]
  <2>1. n \in Nat /\ DOMAIN s = 1 .. n /\ \A i, j \in 1 .. n : s[i] = s[j] => i = j
    BY <1>3 DEF Distinct, HasRows
  <2>2. Lost \in Nat
    BY BoxFacts DEF Control, Lost
  <2>3. key \in [1 .. n -> 0 .. Lost]
    BY <1>6, <2>1 DEF ParticleTypes
  <2>4. \A i, j \in 1 .. n : i < j => key[i] <= key[j]
    BY <1>1, <2>1 DEF SortedTiles
  <2>5. \A l \in 0 .. Lost : c[l] = Cardinality({i \in 1 .. n : key[i] = l})
    <3> SUFFICES ASSUME NEW l \in 0 .. Lost
                 PROVE  c[l] = Cardinality({i \in 1 .. n : key[i] = l})
      OBVIOUS
    <3> DEFINE I == {i \in 1 .. n : key[i] = l}
               P == {p \in Here(b) : box[p] = l}
               o == [i \in I |-> <<b, s[i]>>]
    <3>1. c[l] = Cardinality(P)
      BY <1>1 DEF BoxCounts
    <3>2. o \in Bijection(I, P)
      <4>1. \A i \in I : o[i] \in P
        BY <1>6, <2>1, HereIs
      <4>2. \A i, j \in I : o[i] = o[j] => i = j
        BY <2>1
      <4>3. \A p \in P : \E i \in I : o[i] = p
        <5> SUFFICES ASSUME NEW p \in P PROVE \E i \in I : o[i] = p
          OBVIOUS
        <5>1. p \in Particles /\ p[1] = b /\ p \notin Away /\ box[p] = l
          BY HereIs
        <5>2. p[2] \in ToSet(s)
          BY <1>3, <5>1, HereIs
        <5>3. PICK i \in 1 .. n : s[i] = p[2]
          BY <2>1, <5>2 DEF ToSet
        <5>4. <<b, s[i]>> = p
          BY <5>1, <5>3, ParticleIs
        <5> QED
          BY <5>1, <5>4
      <4> HIDE DEF P, I
      <4>4. o \in [I -> P]
        BY <4>1
      <4> HIDE DEF o
      <4> QED
        BY <4>2, <4>3, <4>4 DEF Bijection, Injection, Surjection, IsInjective
    <3>3. IsFiniteSet(I)
      <4>1. IsFiniteSet(1 .. n)
        <5> HIDE DEF n
        <5> QED
          BY <2>1, FS_Interval
      <4>2. I \subseteq 1 .. n
        OBVIOUS
      <4> HIDE DEF I
      <4> QED
        BY <4>1, <4>2, FS_Subset
    <3> HIDE DEF I, P, o
    <3>4. Cardinality(P) = Cardinality(I)
      BY <3>2, <3>3, FS_Bijection DEF ExistsBijection
    <3> QED
      BY <3>1, <3>4 DEF I
  <2>6. CountOf(b, k)' = c[k] /\ OffsetOf(b, k)' = SumFunctionOnSet(c, {j \in 0 .. Lost : j < k})
    BY <1>2 DEF CountOf, OffsetOf
  <2>7. \A i \in 1 .. n : from'[<<b, s[i]>>] = key[i]
    BY <1>6, <1>9, <2>1
  <2> HIDE DEF key, c, n, s
  <2>8. LET m == SumFunctionOnSet(c, {j \in 0 .. Lost : j < k})
        IN  /\ m \in Nat /\ c[k] \in Nat /\ m + c[k] <= n
            /\ \A i \in 1 .. n : /\ i <= m <=> key[i] < k
                                 /\ i <= m + c[k] <=> key[i] <= k
    BY <2>1, <2>2, <2>3, <2>4, <2>5, OffsetsOfSorted
  <2>9. \A i \in 1 .. n : from'[<<b, s[i]>>] = key[i]
    BY <2>7
  <2> QED
    BY <2>1, <2>6, <2>8, <2>9 DEF s, n
<1> QED
  BY <1>5, <1>7, <1>8, <1>9, <1>10

\* With MPI, as it is built for more than one rank: particles leave the tile
\* with the box they are in, also for the rank itself.
WithMPI == \A c \in Simulations : c.mpi

-----------------------------------------------------------------------------
(* Where particles are                                                     *)

\* The boxes from Frontier on have had their particles sent to this rank.
Frontier == IF pc = "wait" THEN it + 1 ELSE it

\* A particle that is not on this rank: lost; or still to come, pushed by the
\* other ranks only; or solved and sent on.
AwayOK(p) ==
    /\ box[p] \in PushedTo(from[p])
    /\ from[p] < Frontier => step > 0 /\ age[p] = step
    /\ from[p] >= Frontier /\ from[p] # Lost => age[p] = step + 1
    /\ pc # "end" => from[p] # it \/ from[p] < Frontier

\* A particle on this rank, before it is sorted, before and after it is pushed.
HereOK(p) ==
    /\ pc # "end"
    /\ pc \in {"wait", "sort"} =>
           /\ box[p] <= it \/ box[p] = Lost
           /\ it < NBoxes - 1 => from[p] <= it
           /\ age[p] = step
    /\ pc \in {"beams", "solve"} =>
           /\ from[p] = box[p] /\ (from[p] <= it \/ from[p] = Lost)
           /\ age[p] = step
    /\ pc \in {"fields", "notify"} =>
           IF from[p] = it THEN box[p] \in PushedTo(it) /\ age[p] = step + 1
           ELSE from[p] = box[p] /\ (from[p] <= it \/ from[p] = Lost) /\ age[p] = step

\* Between two steps of this rank its particles are with others, unless the
\* first step is to come.
BetweenOK(p) ==
    IF p \in Away
    THEN /\ step > 0
         /\ box[p] \in PushedTo(from[p])
         /\ from[p] # Lost => age[p] = step - OtherSteps
    ELSE step = 0 /\ age[p] = 0

PlacesOK ==
    /\ file = {} /\ pc \in {"step"} \union InStep =>
           /\ TilesOK /\ ParticleTypes
           /\ pc = "step" => \A p \in Particles : BetweenOK(p)
           /\ pc \in InStep => \A p \in Particles : IF p \in Away THEN AwayOK(p) ELSE HereOK(p)
           /\ pc \in {"beams", "solve", "fields", "notify"} => \A b \in Beams : SortedOK(b)
    /\ pc \in Injecting /\ file = {} => step = NProcs - 1 - conf.rank

\* Neither the beams nor their boxes change.
LEMMA SameParticles ==
    ASSUME conf' = conf, tile' = tile
    PROVE  /\ Beams' = Beams /\ Particles' = Particles /\ Lost' = Lost
           /\ \A k : PushedTo(k)' = PushedTo(k)
  BY DEF Beams, Particles, Lost, NBoxes, NProcs, PushedTo

LEMMA SameTiles ==
    ASSUME conf' = conf, tile' = tile, here' = here
    PROVE  /\ TilesOK => TilesOK'
           /\ UNCHANGED <<box, from, age>> /\ ParticleTypes => ParticleTypes'
           /\ box' = box => Away' = Away
           /\ UNCHANGED <<from, counts>> => \A b : SortedOK(b) => SortedOK(b)'
<1>1. Beams' = Beams /\ Particles' = Particles /\ Lost' = Lost
  BY SameParticles
<1>2. counts' = counts => \A b, k : CountOf(b, k)' = CountOf(b, k) /\ OffsetOf(b, k)' = OffsetOf(b, k)
  BY <1>1 DEF CountOf, OffsetOf
<1> QED
  BY <1>1, <1>2 DEF TilesOK, ParticleTypes, Away, SortedOK

\* A push.
LEMMA Pushes ==
    ASSUME Control
    PROVE  /\ Lost = NBoxes /\ NBoxes \in Nat \ {0} /\ it \in 0 .. NBoxes - 1
           /\ \A k \in 0 .. Lost :
                  /\ k \in PushedTo(k) /\ Lost \in PushedTo(k) /\ PushedTo(k) \subseteq 0 .. Lost
                  /\ \A l \in PushedTo(k) : l <= k \/ l = Lost
           /\ PushedTo(Lost) = {Lost}
<1>1. Lost = NBoxes /\ NBoxes \in Nat \ {0} /\ it \in 0 .. NBoxes - 1
  BY BoxFacts DEF Control, Boxes, Lost
<1> QED
  BY <1>1 DEF PushedTo

LEMMA NoneOutside ==
    ASSUME Control, pc \in {"step"} \union InStep
    PROVE  file = {} /\ pc \notin Injecting /\ NProcs \in Nat \ {0} /\ step \in Nat
<1>1. file = {} /\ pc \notin Injecting /\ step \in Nat
  BY DEF Control, InStep, Injecting
<1> QED
  BY <1>1, BoxFacts DEF Control, NProcs

-----------------------------------------------------------------------------
(* Steps and places                                                        *)

LEMMA EnterEvolvePlaces ==
    ASSUME Control, InjectionOK, PlacesOK, EnterEvolve
    PROVE  PlacesOK'
<1>1. /\ pc = "injected" /\ pc' = "step" /\ file = {} /\ file' = {}
      /\ conf' = conf /\ tile' = tile /\ step' = step
      /\ \E place \in [Particles -> 0 .. Lost] : box' = place /\ from' = place
      /\ age' = [p \in Particles |-> 0]
      /\ here' = [b \in Beams |-> [n \in IF HeadRank THEN DOMAIN tile[b] ELSE {} |-> n]]
  BY DEF EnterEvolve, Particles, injectionVars
<1>2. Beams' = Beams /\ Particles' = Particles /\ Lost' = Lost
  BY <1>1, SameParticles
<1>3. step = NProcs - 1 - conf.rank /\ NProcs \in Nat \ {0} /\ conf.rank \in 0 .. NProcs - 1
  BY <1>1, BoxFacts DEF PlacesOK, Injecting, Control, NProcs
<1>4. HeadRank <=> step = 0
  BY <1>3 DEF HeadRank
<1>5. \A b \in Beams : \E n \in Nat : HasRows(tile[b], n)
  <2>1. DOMAIN tile = Beams
    <3>1. species = conf.beams /\ ibeam = Len(species) + 1 /\ HasRows(tile, ibeam - 1)
      BY <1>1 DEF InjectionOK
    <3>2. species \in Seq(BeamParameters)
      BY <3>1, InjectionAssumption DEF Control
    <3> QED
      BY <3>1, <3>2 DEF HasRows, Beams
  <2> QED
    BY <1>1, <2>1 DEF InjectionOK, IsTile
<1>6. \A b \in Beams : Distinct(here'[b]) /\ ToSet(here'[b]) = IF HeadRank THEN DOMAIN tile[b] ELSE {}
  <2> SUFFICES ASSUME NEW b \in Beams
               PROVE  Distinct(here'[b]) /\ ToSet(here'[b]) = IF HeadRank THEN DOMAIN tile[b] ELSE {}
    OBVIOUS
  <2>1. PICK m \in Nat : (IF HeadRank THEN DOMAIN tile[b] ELSE {}) = 1 .. m
    <3>1. CASE HeadRank
      BY <1>5, <3>1 DEF HasRows
    <3>2. CASE ~HeadRank
      <4>1. {} = 1 .. 0
        OBVIOUS
      <4> QED
        BY <3>2, <4>1
    <3> QED
      BY <3>1, <3>2
  <2> DEFINE s == [n \in 1 .. m |-> n]
  <2>2. here'[b] = s
    BY <1>1, <2>1
  <2>3. s = [n \in 1 .. m |-> s[n]] /\ \A n \in 1 .. m : s[n] = n
    OBVIOUS
  <2> HIDE DEF s
  <2>4. HasRows(s, m)
    BY <2>3, RowsOfFunction
  <2>5. Len(s) = m /\ DOMAIN s = 1 .. m
    BY <2>4 DEF HasRows
  <2>6. Distinct(s)
    BY <2>3, <2>4, <2>5 DEF Distinct
  <2>7. ToSet(s) = 1 .. m
    BY <2>3, <2>5 DEF ToSet
  <2> QED
    BY <2>1, <2>2, <2>6, <2>7
<1>7. TilesOK'
  <2>1. here' = [b \in Beams |-> here'[b]]
    BY <1>1
  <2>2. \A b \in Beams : \A i \in DOMAIN here'[b] : <<b, here'[b][i]>> \in Particles
    <3> SUFFICES ASSUME NEW b \in Beams, NEW i \in DOMAIN here'[b]
                 PROVE  <<b, here'[b][i]>> \in Particles
      OBVIOUS
    <3>1. here'[b][i] \in DOMAIN tile[b]
      BY <1>6 DEF ToSet
    <3> QED
      BY <3>1, ParticleIs
  <2> QED
    BY <1>2, <1>6, <2>1, <2>2 DEF TilesOK
<1>8. ParticleTypes' /\ box' = from'
  BY <1>1, <1>2 DEF ParticleTypes
<1>9. \A p \in Particles : p \in Away' <=> ~HeadRank
  <2>1. DOMAIN box' = Particles
    BY <1>1
  <2> SUFFICES ASSUME NEW p \in Particles PROVE p[2] \in ToSet(here'[p[1]]) <=> HeadRank
    BY <2>1 DEF Away
  <2>2. p[1] \in Beams /\ p[2] \in DOMAIN tile[p[1]]
    BY ParticleIs
  <2> QED
    BY <1>6, <2>2
<1>10. \A p \in Particles : BetweenOK(p)'
  <2> SUFFICES ASSUME NEW p \in Particles PROVE BetweenOK(p)'
    OBVIOUS
  <2>1. box'[p] \in PushedTo(from'[p])
    BY <1>1, <1>8, Pushes
  <2>2. age'[p] = 0 /\ \A k : PushedTo(k)' = PushedTo(k)
    BY <1>1, SameParticles
  <2>3. CASE HeadRank
    BY <1>1, <1>4, <1>9, <2>2, <2>3 DEF BetweenOK
  <2>4. CASE ~HeadRank
    <3>1. step \in Nat /\ step > 0 /\ OtherSteps' = step
      BY <1>1, <1>3, <1>4, <2>4 DEF OtherSteps, NProcs
    <3> QED
      BY <1>1, <1>9, <2>1, <2>2, <2>4, <3>1 DEF BetweenOK
  <2> QED
    BY <2>3, <2>4
<1> QED
  BY <1>1, <1>2, <1>7, <1>8, <1>10 DEF PlacesOK, InStep, Injecting

LEMMA StartStepPlaces ==
    ASSUME Control, PlacesOK, StartStep
    PROVE  PlacesOK'
<1>1. /\ pc = "step" /\ pc' = "wait" /\ it' = NBoxes - 1
      /\ conf' = conf /\ tile' = tile /\ step' = step /\ here' = here
      /\ age' = [p \in DOMAIN age |-> age[p] + OtherSteps]
  BY DEF StartStep, injectionVars
<1>2. file = {} /\ NProcs \in Nat \ {0} /\ step \in Nat
  BY <1>1, NoneOutside
<1>3. /\ Beams' = Beams /\ Particles' = Particles /\ Lost' = Lost /\ Lost = NBoxes
      /\ NBoxes \in Nat \ {0} /\ NBoxes' = NBoxes
      /\ \A k : PushedTo(k)' = PushedTo(k)
  BY <1>1, SameParticles, Pushes DEF Lost
<1>4. TilesOK /\ ParticleTypes /\ \A p \in Particles : BetweenOK(p)
  BY <1>1, <1>2 DEF PlacesOK
<1>5. OtherSteps \in Nat /\ (OtherSteps = 0 => step = 0 \/ NProcs = 1)
  BY <1>2 DEF OtherSteps
<1>6. /\ box' \in [Particles -> 0 .. Lost] /\ from' \in [Particles -> 0 .. Lost]
      /\ \A p \in Particles :
             IF OtherSteps = 0 THEN box'[p] = box[p] /\ from'[p] = from[p]
             ELSE box'[p] \in PushedTo(from'[p]) /\ (box[p] = Lost => from'[p] = Lost)
  <2>1. CASE OtherSteps = 0
    BY <1>4, <2>1 DEF StartStep, ParticleTypes
  <2>2. CASE OtherSteps # 0
    BY <1>4, <2>2 DEF StartStep, ParticleTypes
  <2> QED
    BY <2>1, <2>2
<1>7. ParticleTypes'
  <2>1. age' \in [Particles -> Nat]
    BY <1>1, <1>4, <1>5 DEF ParticleTypes
  <2> QED
    BY <1>3, <1>6, <2>1 DEF ParticleTypes
<1>8. TilesOK'
  BY <1>1, <1>4, SameTiles
<1>9. \A p \in Particles : p \in Away' <=> p \in Away
  <2>1. DOMAIN box' = Particles /\ DOMAIN box = Particles
    BY <1>4, <1>6 DEF ParticleTypes
  <2> QED
    BY <1>1, <2>1 DEF Away
<1>10. \A p \in Particles : IF p \in Away' THEN AwayOK(p)' ELSE HereOK(p)'
  <2> SUFFICES ASSUME NEW p \in Particles PROVE IF p \in Away' THEN AwayOK(p)' ELSE HereOK(p)'
    OBVIOUS
  <2>1. box[p] \in 0 .. Lost /\ from[p] \in 0 .. Lost /\ age[p] \in Nat /\ BetweenOK(p)
    BY <1>4 DEF ParticleTypes
  <2>2. box'[p] \in 0 .. Lost /\ from'[p] \in 0 .. Lost /\ age'[p] = age[p] + OtherSteps
    BY <1>1, <1>4, <1>6 DEF ParticleTypes
  <2>3. CASE p \in Away
    <3>1. /\ step > 0 /\ box[p] \in PushedTo(from[p])
          /\ from[p] # Lost => age[p] = step - OtherSteps
      BY <2>1, <2>3 DEF BetweenOK
    <3>2. box'[p] \in PushedTo(from'[p])
      BY <1>6, <3>1
    <3>3. from'[p] # Lost => from[p] # Lost
      <4>1. from[p] = Lost => box[p] = Lost
        BY <3>1, Pushes
      <4> QED
        BY <1>6, <4>1
    <3>4. from'[p] # Lost => age'[p] = step
      BY <1>2, <1>5, <2>1, <2>2, <3>1, <3>3
    <3>5. Frontier' = NBoxes
      BY <1>1, <1>3 DEF Frontier
    <3>6. AwayOK(p)'
      BY <1>1, <1>3, <2>2, <3>1, <3>2, <3>4, <3>5 DEF AwayOK
    <3> QED
      BY <1>9, <2>3, <3>6
  <2>4. CASE p \notin Away
    <3>1. step = 0 /\ age[p] = 0 /\ OtherSteps = 0
      BY <1>2, <2>1, <2>4 DEF BetweenOK, OtherSteps
    <3>2. box'[p] <= it' \/ box'[p] = Lost
      BY <1>1, <1>3, <2>2
    <3>3. HereOK(p)'
      BY <1>1, <1>3, <2>2, <3>1, <3>2 DEF HereOK
    <3> QED
      BY <1>9, <2>4, <3>3
  <2> QED
    BY <2>3, <2>4
<1> QED
  BY <1>1, <1>3, <1>7, <1>8, <1>10 DEF PlacesOK, InStep, Injecting

\* The tiles of the beams have slots.
LEMMA TilesAre ==
    ASSUME Control, InjectionOK, pc \in {"injected", "step"} \union InStep, file = {}
    PROVE  /\ DOMAIN tile = Beams /\ IsFiniteSet(Beams)
           /\ \A b \in Beams : \E n \in Nat : HasRows(tile[b], n)
           /\ \A b \in Beams : IsFiniteSet(DOMAIN tile[b]) /\ total[b] = TotalNumberOfParticles(tile[b])
<1>1. /\ species = conf.beams /\ ibeam = Len(species) + 1
      /\ HasRows(tile, ibeam - 1)
      /\ \A b \in DOMAIN tile : IsTile(tile[b])
      /\ \A b \in 1 .. ibeam - 1 : total[b] = TotalNumberOfParticles(tile[b])
  BY DEF InjectionOK, InStep
<1>2. species \in Seq(BeamParameters)
  BY <1>1, InjectionAssumption DEF Control
<1>3. DOMAIN tile = Beams /\ Beams = 1 .. Len(species) /\ Len(species) \in Nat /\ ibeam - 1 = Len(species)
  BY <1>1, <1>2 DEF HasRows, Beams
<1>4. \A n \in Nat : IsFiniteSet(1 .. n)
  <2> SUFFICES ASSUME NEW n \in Nat PROVE IsFiniteSet(1 .. n)
    OBVIOUS
  <2> QED
    BY FS_Interval
<1>5. \A b \in Beams : \E n \in Nat : HasRows(tile[b], n)
  BY <1>1, <1>3 DEF IsTile
<1> QED
  BY <1>1, <1>3, <1>4, <1>5 DEF HasRows

\* Nothing of what PlacesOK says of a particle has changed.
LEMMA SamePlaces ==
    ASSUME Control, PlacesOK, pc \in InStep, pc' \in InStep, pc' # "end",
           UNCHANGED <<conf, tile, here, box, from, age, counts, it, step, file>>,
           \/ pc = "beams" /\ pc' = "solve"
           \/ pc = "fields" /\ pc' = "notify"
    PROVE  PlacesOK'
<1>1. file = {} /\ pc' \notin Injecting
  BY NoneOutside DEF InStep, Injecting
<1>2. /\ TilesOK /\ ParticleTypes
      /\ \A p \in Particles : IF p \in Away THEN AwayOK(p) ELSE HereOK(p)
      /\ \A b \in Beams : SortedOK(b)
  BY <1>1 DEF PlacesOK
<1>3. Beams' = Beams /\ Particles' = Particles /\ Lost' = Lost /\ \A k : PushedTo(k)' = PushedTo(k)
  BY SameParticles
<1>4. TilesOK' /\ ParticleTypes' /\ Away' = Away /\ \A b \in Beams : SortedOK(b)'
  BY <1>2, SameTiles
<1>5. \A p \in Particles : (AwayOK(p) => AwayOK(p)') /\ (HereOK(p) => HereOK(p)')
  <2> SUFFICES ASSUME NEW p \in Particles
               PROVE  (AwayOK(p) => AwayOK(p)') /\ (HereOK(p) => HereOK(p)')
    OBVIOUS
  <2>1. Frontier' = Frontier
    BY DEF Frontier
  <2>2. AwayOK(p) => AwayOK(p)'
    BY <1>3, <2>1 DEF AwayOK
  <2>3. HereOK(p) => HereOK(p)'
    BY <1>3 DEF HereOK
  <2> QED
    BY <2>2, <2>3
<1> QED
  BY <1>1, <1>2, <1>3, <1>4, <1>5 DEF PlacesOK

\* The particles of box it come, and no others.
LEMMA WaitMoves ==
    ASSUME WithMPI, Control, InjectionOK, PlacesOK, Wait
    PROVE  /\ TilesOK'
           /\ \A p \in Particles : p \in Away' <=> p \in Away /\ ~(step > 0 /\ from[p] = it)
<1>1. /\ pc = "wait" /\ conf' = conf /\ tile' = tile /\ box' = box
      /\ here' = IF step = 0 THEN here ELSE [b \in Beams |-> here[b] \o FromBox(b, it)]
  BY DEF Wait, WithMPI, Control, injectionVars
<1>2. file = {} /\ step \in Nat
  BY <1>1, NoneOutside DEF InStep
<1>3. TilesOK /\ ParticleTypes
  BY <1>1, <1>2 DEF PlacesOK, InStep
<1>4. Beams' = Beams /\ Particles' = Particles
  BY <1>1, SameParticles
<1>5. CASE step = 0
  <2>1. here' = here
    BY <1>1, <1>5
  <2>2. TilesOK' /\ Away' = Away
    BY <1>1, <1>3, <2>1, SameTiles
  <2> QED
    BY <1>5, <2>2
<1>6. CASE step # 0
  <2> DEFINE New(b) == {p[2] : p \in {q \in Away : q[1] = b /\ from[q] = it}}
  <2>1. here' = [b \in Beams |-> here[b] \o FromBox(b, it)]
    BY <1>1, <1>6
  <2>2. \A b \in Beams : /\ Distinct(FromBox(b, it)) /\ ToSet(FromBox(b, it)) = New(b)
                         /\ \A n \in New(b) : n \in DOMAIN tile[b] /\ n \notin ToSet(here[b])
                         /\ \A n \in DOMAIN tile[b] : n \in New(b) <=> <<b, n>> \in Away /\ from[<<b, n>>] = it
    <3> SUFFICES ASSUME NEW b \in Beams
                 PROVE  /\ Distinct(FromBox(b, it)) /\ ToSet(FromBox(b, it)) = New(b)
                        /\ \A n \in New(b) : n \in DOMAIN tile[b] /\ n \notin ToSet(here[b])
                        /\ \A n \in DOMAIN tile[b] : n \in New(b) <=> <<b, n>> \in Away /\ from[<<b, n>>] = it
      OBVIOUS
    <3>1. \A p \in Away : p \in Particles /\ p[2] \notin ToSet(here[p[1]])
      BY <1>3, HereIs
    <3>2. \A n \in New(b) : <<b, n>> \in Away /\ from[<<b, n>>] = it /\ n \in DOMAIN tile[b] /\ n \notin ToSet(here[b])
      <4> SUFFICES ASSUME NEW p \in Away, p[1] = b, from[p] = it
                   PROVE  /\ <<b, p[2]>> \in Away /\ from[<<b, p[2]>>] = it
                          /\ p[2] \in DOMAIN tile[b] /\ p[2] \notin ToSet(here[b])
        OBVIOUS
      <4>1. p = <<b, p[2]>> /\ p[2] \in DOMAIN tile[b]
        BY <3>1, ParticleIs
      <4> QED
        BY <3>1, <4>1
    <3>3. \A n : <<b, n>> \in Away /\ from[<<b, n>>] = it => n \in New(b)
      <4> SUFFICES ASSUME NEW n, <<b, n>> \in Away, from[<<b, n>>] = it PROVE n \in New(b)
        OBVIOUS
      <4>1. <<b, n>>[1] = b /\ <<b, n>>[2] = n
        OBVIOUS
      <4> QED
        BY <4>1
    <3>4. IsFiniteSet(New(b))
      <4>1. IsFiniteSet(DOMAIN tile[b])
        BY <1>1, <1>2, TilesAre DEF InStep
      <4>2. New(b) \subseteq DOMAIN tile[b]
        BY <3>2
      <4> HIDE DEF New
      <4> QED
        BY <4>1, <4>2, FS_Subset
    <3>5. FromBox(b, it) = SetToSeq(New(b))
      BY DEF FromBox
    <3> HIDE DEF New
    <3>6. Distinct(FromBox(b, it)) /\ ToSet(FromBox(b, it)) = New(b)
      BY <3>4, <3>5, SetToSeqIsOrder
    <3> QED
      BY <3>2, <3>3, <3>6
  <2> HIDE DEF New
  <2>3. \A b \in Beams : Distinct(here'[b]) /\ ToSet(here'[b]) = ToSet(here[b]) \union New(b)
    <3> SUFFICES ASSUME NEW b \in Beams
                 PROVE  Distinct(here'[b]) /\ ToSet(here'[b]) = ToSet(here[b]) \union New(b)
      OBVIOUS
    <3>1. here'[b] = here[b] \o FromBox(b, it)
      BY <2>1
    <3>2. Distinct(here[b]) /\ ToSet(here[b]) \cap ToSet(FromBox(b, it)) = {}
      BY <1>3, <2>2 DEF TilesOK
    <3> QED
      BY <2>2, <3>1, <3>2, JoinedIsDistinct
  <2>4. TilesOK'
    <3>1. here' = [b \in Beams |-> here'[b]]
      BY <2>1
    <3>2. \A b \in Beams : \A i \in DOMAIN here'[b] : <<b, here'[b][i]>> \in Particles
      <4> SUFFICES ASSUME NEW b \in Beams, NEW i \in DOMAIN here'[b]
                   PROVE  <<b, here'[b][i]>> \in Particles
        OBVIOUS
      <4>1. here'[b][i] \in ToSet(here[b]) \union New(b)
        BY <2>3 DEF ToSet
      <4>2. CASE here'[b][i] \in New(b)
        BY <2>2, <4>2, ParticleIs
      <4>3. CASE here'[b][i] \in ToSet(here[b])
        <5>1. PICK j \in DOMAIN here[b] : here[b][j] = here'[b][i]
          BY <4>3 DEF ToSet
        <5> QED
          BY <1>3, <5>1 DEF TilesOK
      <4> QED
        BY <4>1, <4>2, <4>3
    <3> QED
      BY <1>4, <2>3, <3>1, <3>2 DEF TilesOK
  <2>5. \A p \in Particles : p \in Away' <=> p \in Away /\ from[p] # it
    <3> SUFFICES ASSUME NEW p \in Particles PROVE p \in Away' <=> p \in Away /\ from[p] # it
      OBVIOUS
    <3>1. p[1] \in Beams /\ p[2] \in DOMAIN tile[p[1]] /\ p = <<p[1], p[2]>>
      BY ParticleIs
    <3>2. p \in Away' <=> p[2] \notin ToSet(here'[p[1]])
      <4>1. DOMAIN box' = Particles
        BY <1>1, <1>3 DEF ParticleTypes
      <4> QED
        BY <4>1 DEF Away
    <3>3. p \in Away <=> p[2] \notin ToSet(here[p[1]])
      BY <1>3, HereIs
    <3>4. p[2] \in New(p[1]) <=> p \in Away /\ from[p] = it
      BY <2>2, <3>1
    <3> QED
      BY <2>3, <3>1, <3>2, <3>3, <3>4
  <2> QED
    BY <1>2, <1>6, <2>4, <2>5
<1> QED
  BY <1>5, <1>6

LEMMA WaitPlaces ==
    ASSUME WithMPI, Control, InjectionOK, PlacesOK, Wait
    PROVE  PlacesOK'
<1>1. /\ pc = "wait" /\ pc' = "sort" /\ conf' = conf /\ tile' = tile
      /\ UNCHANGED <<it, step, box, from, age, file>>
  BY DEF Wait, injectionVars
<1>2. file = {} /\ step \in Nat
  BY <1>1, NoneOutside DEF InStep
<1>3. /\ TilesOK /\ ParticleTypes
      /\ \A p \in Particles : IF p \in Away THEN AwayOK(p) ELSE HereOK(p)
  BY <1>1, <1>2 DEF PlacesOK, InStep
<1>4. Beams' = Beams /\ Particles' = Particles /\ Lost' = Lost /\ \A k : PushedTo(k)' = PushedTo(k)
  BY <1>1, SameParticles
<1>5. TilesOK' /\ \A p \in Particles : p \in Away' <=> p \in Away /\ ~(step > 0 /\ from[p] = it)
  BY WaitMoves
<1>6. ParticleTypes'
  BY <1>1, <1>3, <1>4 DEF ParticleTypes
<1>7. \A p \in Particles : IF p \in Away' THEN AwayOK(p)' ELSE HereOK(p)'
  <2> SUFFICES ASSUME NEW p \in Particles PROVE IF p \in Away' THEN AwayOK(p)' ELSE HereOK(p)'
    OBVIOUS
  <2>1. /\ box[p] \in 0 .. Lost /\ from[p] \in 0 .. Lost /\ age[p] \in Nat
        /\ it \in 0 .. NBoxes - 1 /\ Lost = NBoxes /\ NBoxes \in Nat \ {0}
    BY <1>3, Pushes DEF ParticleTypes
  <2>2. Frontier = it + 1 /\ Frontier' = it
    BY <1>1 DEF Frontier
  <2>3. CASE p \in Away
    <3>1. /\ box[p] \in PushedTo(from[p])
          /\ from[p] < it + 1 => step > 0 /\ age[p] = step
          /\ from[p] >= it + 1 /\ from[p] # Lost => age[p] = step + 1
      BY <1>3, <2>2, <2>3 DEF AwayOK
    <3>2. CASE step > 0 /\ from[p] = it
      <4>1. age[p] = step /\ (box[p] <= it \/ box[p] = Lost)
        BY <2>1, <3>1, <3>2, Pushes
      <4>2. HereOK(p)'
        BY <1>1, <1>4, <2>1, <3>2, <4>1 DEF HereOK
      <4> QED
        BY <1>5, <3>2, <4>2
    <3>3. CASE ~(step > 0 /\ from[p] = it)
      <4>1. from[p] # it
        BY <1>2, <2>1, <3>1, <3>3
      <4>2. AwayOK(p)'
        BY <1>1, <1>4, <2>1, <2>2, <3>1, <4>1 DEF AwayOK
      <4> QED
        BY <1>5, <2>3, <3>3, <4>2
    <3> QED
      BY <3>2, <3>3
  <2>4. CASE p \notin Away
    <3>1. HereOK(p)
      BY <1>3, <2>4
    <3>2. HereOK(p)'
      BY <1>1, <1>4, <3>1 DEF HereOK, NBoxes, NProcs
    <3> QED
      BY <1>5, <2>4, <3>2
  <2> QED
    BY <2>3, <2>4
<1> QED
  BY <1>1, <1>2, <1>4, <1>5, <1>6, <1>7 DEF PlacesOK, InStep, Injecting

LEMMA SortPlaces ==
    ASSUME Control, PlacesOK, Sort
    PROVE  PlacesOK'
<1>1. /\ pc = "sort" /\ pc' = "beams" /\ conf' = conf /\ tile' = tile
      /\ UNCHANGED <<it, step, box, age, file>>
  BY DEF Sort, injectionVars
<1>2. file = {} /\ step \in Nat
  BY <1>1, NoneOutside DEF InStep
<1>3. /\ TilesOK /\ ParticleTypes
      /\ \A p \in Particles : IF p \in Away THEN AwayOK(p) ELSE HereOK(p)
  BY <1>1, <1>2 DEF PlacesOK, InStep
<1>4. Beams' = Beams /\ Particles' = Particles /\ Lost' = Lost /\ \A k : PushedTo(k)' = PushedTo(k)
  BY <1>1, SameParticles
<1>5. /\ TilesOK' /\ ParticleTypes' /\ Away' = Away
      /\ \A p \in Particles \ Away : from'[p] = box[p]
      /\ \A p \in Away : from'[p] = from[p]
      /\ \A b \in Beams : SortedOK(b)'
  BY <1>3, SortSorts
<1>6. \A p \in Particles : IF p \in Away THEN AwayOK(p)' ELSE HereOK(p)'
  <2> SUFFICES ASSUME NEW p \in Particles PROVE IF p \in Away THEN AwayOK(p)' ELSE HereOK(p)'
    OBVIOUS
  <2>1. Frontier = it /\ Frontier' = it
    BY <1>1 DEF Frontier
  <2>2. CASE p \in Away
    <3>1. AwayOK(p) /\ from'[p] = from[p]
      BY <1>3, <1>5, <2>2
    <3>2. AwayOK(p)'
      BY <1>1, <1>4, <2>1, <3>1 DEF AwayOK
    <3> QED
      BY <2>2, <3>2
  <2>3. CASE p \notin Away
    <3>1. HereOK(p) /\ from'[p] = box[p]
      BY <1>3, <1>5, <2>3
    <3>2. HereOK(p)'
      BY <1>1, <1>4, <3>1 DEF HereOK
    <3> QED
      BY <2>3, <3>2
  <2> QED
    BY <2>2, <2>3
<1> QED
  BY <1>1, <1>2, <1>4, <1>5, <1>6 DEF PlacesOK, InStep, Injecting

LEMMA SolvePlaces ==
    ASSUME Control, PlacesOK, SolveBox
    PROVE  PlacesOK'
<1> DEFINE pushed == {p \in DOMAIN box : p \notin Away /\ box[p] = it}
<1>1. /\ pc = "solve" /\ pc' = "fields" /\ conf' = conf /\ tile' = tile /\ here' = here
      /\ UNCHANGED <<it, step, from, counts, file>>
      /\ box' \in [DOMAIN box -> 0 .. Lost]
      /\ \A p \in DOMAIN box : box'[p] \in IF p \in pushed THEN PushedTo(it) ELSE {box[p]}
      /\ age' = [p \in DOMAIN age |-> IF p \in pushed THEN age[p] + 1 ELSE age[p]]
  BY DEF SolveBox, injectionVars
<1>2. file = {} /\ step \in Nat
  BY <1>1, NoneOutside DEF InStep
<1>3. /\ TilesOK /\ ParticleTypes
      /\ \A p \in Particles : IF p \in Away THEN AwayOK(p) ELSE HereOK(p)
      /\ \A b \in Beams : SortedOK(b)
  BY <1>1, <1>2 DEF PlacesOK, InStep
<1>4. Beams' = Beams /\ Particles' = Particles /\ Lost' = Lost /\ \A k : PushedTo(k)' = PushedTo(k)
  BY <1>1, SameParticles
<1>5. TilesOK' /\ \A b \in Beams : SortedOK(b)'
  BY <1>1, <1>3, SameTiles
<1>6. DOMAIN box = Particles /\ DOMAIN age = Particles /\ DOMAIN box' = Particles
  BY <1>1, <1>3 DEF ParticleTypes
<1>7. Away' = Away
  BY <1>1, <1>6 DEF Away
<1>8. ParticleTypes'
  <2>1. age' \in [Particles -> Nat]
    BY <1>1, <1>3, <1>6 DEF ParticleTypes
  <2> QED
    BY <1>1, <1>3, <1>4, <1>6, <2>1 DEF ParticleTypes
<1>9. \A p \in Particles : IF p \in Away THEN AwayOK(p)' ELSE HereOK(p)'
  <2> SUFFICES ASSUME NEW p \in Particles PROVE IF p \in Away THEN AwayOK(p)' ELSE HereOK(p)'
    OBVIOUS
  <2>1. Frontier = it /\ Frontier' = it
    BY <1>1 DEF Frontier
  <2>2. /\ p \in pushed <=> p \notin Away /\ box[p] = it
        /\ box'[p] \in IF p \in pushed THEN PushedTo(it) ELSE {box[p]}
        /\ age'[p] = IF p \in pushed THEN age[p] + 1 ELSE age[p]
    BY <1>1, <1>6
  <2> HIDE DEF pushed
  <2>3. CASE p \in Away
    <3>1. AwayOK(p) /\ box'[p] = box[p] /\ age'[p] = age[p]
      BY <1>3, <2>2, <2>3
    <3>2. AwayOK(p)'
      BY <1>1, <1>4, <2>1, <3>1 DEF AwayOK
    <3> QED
      BY <2>3, <3>2
  <2>4. CASE p \notin Away
    <3>1. HereOK(p)
      BY <1>3, <2>4
    <3>2. from[p] = box[p] /\ (from[p] <= it \/ from[p] = Lost) /\ age[p] = step
      BY <1>1, <3>1 DEF HereOK
    <3>3. CASE box[p] = it
      <4>1. box'[p] \in PushedTo(it) /\ age'[p] = step + 1
        BY <2>2, <2>4, <3>2, <3>3
      <4>2. HereOK(p)'
        BY <1>1, <1>4, <3>2, <3>3, <4>1 DEF HereOK
      <4> QED
        BY <2>4, <4>2
    <3>4. CASE box[p] # it
      <4>1. box'[p] = box[p] /\ age'[p] = age[p]
        BY <2>2, <3>4
      <4>2. HereOK(p)'
        BY <1>1, <1>4, <3>2, <3>4, <4>1 DEF HereOK
      <4> QED
        BY <2>4, <4>2
    <3> QED
      BY <3>3, <3>4
  <2> QED
    BY <2>3, <2>4
<1> QED
  BY <1>1, <1>2, <1>4, <1>5, <1>7, <1>8, <1>9 DEF PlacesOK, InStep, Injecting

\* The particles of the box and the lost ones leave.
LEMMA NotifyMoves ==
    ASSUME WithMPI, Control, PlacesOK, Notify
    PROVE  /\ TilesOK'
           /\ \A p \in Particles : p \in Away' <=> p \in Away \/ from[p] >= it
<1>1. /\ pc = "notify" /\ conf' = conf /\ tile' = tile /\ box' = box
      /\ here' = [b \in Beams |-> Remaining(b)]
  BY DEF Notify, WithMPI, Control, injectionVars
<1>2. file = {} /\ it \in 0 .. Lost
  BY <1>1, NoneOutside, Pushes DEF InStep
<1>3. TilesOK /\ ParticleTypes /\ \A b \in Beams : SortedOK(b)
  BY <1>1, <1>2 DEF PlacesOK, InStep
<1>4. Beams' = Beams /\ Particles' = Particles
  BY <1>1, SameParticles
<1>5. \A b \in Beams : /\ Distinct(here'[b])
                       /\ ToSet(here'[b]) = {here[b][i] : i \in 1 .. OffsetOf(b, it)}
                       /\ OffsetOf(b, it) \in 0 .. Len(here[b])
  <2> SUFFICES ASSUME NEW b \in Beams
               PROVE  /\ Distinct(here'[b])
                      /\ ToSet(here'[b]) = {here[b][i] : i \in 1 .. OffsetOf(b, it)}
                      /\ OffsetOf(b, it) \in 0 .. Len(here[b])
    OBVIOUS
  <2>1. /\ CountOf(b, it) \in Nat /\ OffsetOf(b, it) \in Nat
        /\ OffsetOf(b, it) + CountOf(b, it) <= Len(here[b])
    BY <1>2, <1>3 DEF SortedOK
  <2>2. Distinct(here[b]) /\ Len(here[b]) \in Nat
    BY <1>3 DEF TilesOK, Distinct
  <2>3. OffsetOf(b, it) \in 0 .. Len(here[b])
    BY <2>1, <2>2
  <2>4. here'[b] = SubSeq(here[b], 1, OffsetOf(b, it))
    BY <1>1 DEF Remaining
  <2> QED
    BY <2>2, <2>3, <2>4, FirstAreDistinct
<1>6. \A b \in Beams : DOMAIN here[b] = 1 .. Len(here[b]) /\ Len(here[b]) \in Nat
  BY <1>3 DEF TilesOK, Distinct, HasRows
<1>7. TilesOK'
  <2>1. here' = [b \in Beams |-> here'[b]]
    BY <1>1
  <2>2. \A b \in Beams : \A i \in DOMAIN here'[b] : <<b, here'[b][i]>> \in Particles
    <3> SUFFICES ASSUME NEW b \in Beams, NEW i \in DOMAIN here'[b]
                 PROVE  <<b, here'[b][i]>> \in Particles
      OBVIOUS
    <3>1. here'[b][i] \in {here[b][j] : j \in 1 .. OffsetOf(b, it)}
      BY <1>5 DEF ToSet
    <3>2. PICK j \in 1 .. OffsetOf(b, it) : here'[b][i] = here[b][j]
      BY <3>1
    <3>3. j \in DOMAIN here[b]
      BY <1>5, <1>6
    <3> QED
      BY <1>3, <3>2, <3>3 DEF TilesOK
  <2> QED
    BY <1>4, <1>5, <2>1, <2>2 DEF TilesOK
<1>8. \A p \in Particles : p \in Away' <=> p \in Away \/ from[p] >= it
  <2> SUFFICES ASSUME NEW p \in Particles PROVE p \in Away' <=> p \in Away \/ from[p] >= it
    OBVIOUS
  <2>1. p[1] \in Beams /\ p = <<p[1], p[2]>> /\ from[p] \in 0 .. Lost
    BY <1>3, ParticleIs DEF ParticleTypes
  <2>2. p \in Away' <=> p[2] \notin ToSet(here'[p[1]])
    <3>1. DOMAIN box' = Particles
      BY <1>1, <1>3 DEF ParticleTypes
    <3> QED
      BY <3>1 DEF Away
  <2>3. p \in Away <=> p[2] \notin ToSet(here[p[1]])
    BY <1>3, HereIs
  <2>4. \A i \in DOMAIN here[p[1]] :
            i <= OffsetOf(p[1], it) <=> from[<<p[1], here[p[1]][i]>>] < it
    BY <1>2, <1>3, <2>1 DEF SortedOK
  <2>5. p[2] \in ToSet(here'[p[1]]) <=> p[2] \in ToSet(here[p[1]]) /\ from[p] < it
    <3>1. ASSUME p[2] \in ToSet(here'[p[1]]) PROVE p[2] \in ToSet(here[p[1]]) /\ from[p] < it
      <4>1. PICK i \in 1 .. OffsetOf(p[1], it) : p[2] = here[p[1]][i]
        BY <1>5, <2>1, <3>1
      <4>2. i \in DOMAIN here[p[1]] /\ i <= OffsetOf(p[1], it)
        BY <1>5, <1>6, <2>1
      <4>3. from[p] < it
        BY <2>1, <2>4, <4>1, <4>2
      <4> QED
        BY <4>1, <4>2, <4>3 DEF ToSet
    <3>2. ASSUME p[2] \in ToSet(here[p[1]]), from[p] < it PROVE p[2] \in ToSet(here'[p[1]])
      <4>1. PICK i \in DOMAIN here[p[1]] : p[2] = here[p[1]][i]
        BY <3>2 DEF ToSet
      <4>2. i <= OffsetOf(p[1], it)
        BY <2>1, <2>4, <3>2, <4>1
      <4>3. i \in 1 .. OffsetOf(p[1], it)
        BY <1>5, <1>6, <2>1, <4>2
      <4> QED
        BY <1>5, <2>1, <4>1, <4>3
    <3> QED
      BY <3>1, <3>2
  <2>6. from[p] >= it <=> ~(from[p] < it)
    BY <1>2, <2>1
  <2> QED
    BY <2>2, <2>3, <2>5, <2>6
<1> QED
  BY <1>7, <1>8

LEMMA NotifyPlaces ==
    ASSUME WithMPI, Control, PlacesOK, Notify
    PROVE  PlacesOK'
<1>1. /\ pc = "notify" /\ conf' = conf /\ tile' = tile
      /\ IF it > 0 THEN it' = it - 1 /\ pc' = "wait" ELSE it' = it /\ pc' = "end"
      /\ UNCHANGED <<step, box, from, age, file>>
  BY DEF Notify, injectionVars
<1>2. file = {} /\ step \in Nat
  BY <1>1, NoneOutside DEF InStep
<1>3. /\ TilesOK /\ ParticleTypes
      /\ \A p \in Particles : IF p \in Away THEN AwayOK(p) ELSE HereOK(p)
  BY <1>1, <1>2 DEF PlacesOK, InStep
<1>4. Beams' = Beams /\ Particles' = Particles /\ Lost' = Lost /\ \A k : PushedTo(k)' = PushedTo(k)
  BY <1>1, SameParticles
<1>5. TilesOK' /\ \A p \in Particles : p \in Away' <=> p \in Away \/ from[p] >= it
  BY NotifyMoves
<1>6. ParticleTypes'
  BY <1>1, <1>3, <1>4 DEF ParticleTypes
<1>7. it \in 0 .. NBoxes - 1 /\ Lost = NBoxes /\ NBoxes \in Nat \ {0}
  BY Pushes
<1>8. \A p \in Particles : IF p \in Away' THEN AwayOK(p)' ELSE HereOK(p)'
  <2> SUFFICES ASSUME NEW p \in Particles PROVE IF p \in Away' THEN AwayOK(p)' ELSE HereOK(p)'
    OBVIOUS
  <2>1. box[p] \in 0 .. Lost /\ from[p] \in 0 .. Lost /\ age[p] \in Nat
    BY <1>3 DEF ParticleTypes
  <2>2. Frontier = it /\ Frontier' = it
    BY <1>1, <1>7 DEF Frontier
  <2>3. CASE p \in Away
    <3>1. AwayOK(p)
      BY <1>3, <2>3
    <3>2. AwayOK(p)'
      BY <1>1, <1>4, <1>7, <2>1, <2>2, <3>1 DEF AwayOK
    <3> QED
      BY <1>5, <2>3, <3>2
  <2>4. CASE p \notin Away
    <3>1. IF from[p] = it THEN box[p] \in PushedTo(it) /\ age[p] = step + 1
          ELSE from[p] = box[p] /\ (from[p] <= it \/ from[p] = Lost) /\ age[p] = step
      BY <1>1, <1>3, <2>4 DEF HereOK
    <3>2. CASE from[p] >= it
      <4>1. /\ box[p] \in PushedTo(from[p])
            /\ from[p] # Lost => age[p] = step + 1
        BY <1>7, <2>1, <3>1, <3>2, Pushes
      <4>2. AwayOK(p)'
        BY <1>1, <1>4, <1>7, <2>1, <2>2, <3>2, <4>1 DEF AwayOK
      <4> QED
        BY <1>5, <3>2, <4>2
    <3>3. CASE from[p] < it
      <4>1. from[p] = box[p] /\ age[p] = step
        BY <1>7, <2>1, <3>1, <3>3
      <4>2. it > 0 /\ it' = it - 1 /\ pc' = "wait"
        BY <1>1, <1>7, <2>1, <3>3
      <4>3. HereOK(p)'
        BY <1>1, <1>4, <1>7, <2>1, <3>3, <4>1, <4>2 DEF HereOK
      <4>4. ~(from[p] >= it)
        BY <1>7, <2>1, <3>3
      <4> QED
        BY <1>5, <2>4, <4>3, <4>4
    <3> QED
      BY <1>7, <2>1, <3>2, <3>3
  <2> QED
    BY <2>3, <2>4
<1>9. pc' \in {"wait", "end"}
  BY <1>1
<1> QED
  BY <1>1, <1>2, <1>4, <1>5, <1>6, <1>8, <1>9 DEF PlacesOK, InStep, Injecting

LEMMA EndPlaces ==
    ASSUME Control, PlacesOK, EndStep
    PROVE  PlacesOK'
<1>1. /\ pc = "end" /\ pc' = "step" /\ step' = step + NProcs /\ conf' = conf /\ tile' = tile
      /\ here' = here
      /\ UNCHANGED <<it, box, from, age, counts, file>>
  BY DEF EndStep, injectionVars
<1>2. file = {} /\ step \in Nat /\ NProcs \in Nat \ {0} /\ it = 0
  BY <1>1, NoneOutside DEF InStep, Control
<1>3. /\ TilesOK /\ ParticleTypes
      /\ \A p \in Particles : IF p \in Away THEN AwayOK(p) ELSE HereOK(p)
  BY <1>1, <1>2 DEF PlacesOK, InStep
<1>4. Beams' = Beams /\ Particles' = Particles /\ Lost' = Lost /\ \A k : PushedTo(k)' = PushedTo(k)
  BY <1>1, SameParticles
<1>5. TilesOK' /\ ParticleTypes' /\ Away' = Away
  BY <1>1, <1>3, SameTiles
<1>6. \A p \in Particles : BetweenOK(p)'
  <2> SUFFICES ASSUME NEW p \in Particles PROVE BetweenOK(p)'
    OBVIOUS
  <2>1. p \in Away
    BY <1>1, <1>3 DEF HereOK
  <2>2. /\ box[p] \in PushedTo(from[p]) /\ from[p] \in 0 .. Lost
        /\ from[p] >= Frontier /\ from[p] # Lost => age[p] = step + 1
    BY <1>3, <2>1 DEF AwayOK, ParticleTypes
  <2>3. Frontier = 0
    BY <1>1, <1>2 DEF Frontier
  <2>4. from[p] # Lost => age[p] = step + 1
    BY <2>2, <2>3
  <2>5. OtherSteps' = NProcs - 1
    <3>1. NProcs' = NProcs
      BY <1>1 DEF NProcs
    <3> QED
      BY <1>1, <1>2, <3>1 DEF OtherSteps
  <2> QED
    BY <1>1, <1>2, <1>4, <1>5, <2>1, <2>2, <2>4, <2>5 DEF BetweenOK
<1> QED
  BY <1>1, <1>2, <1>4, <1>5, <1>6 DEF PlacesOK, InStep, Injecting

LEMMA InitPlaces ==
    ASSUME WriterInit
    PROVE  PlacesOK
  BY DEF WriterInit, InjectionInit, PlacesOK, InStep, Injecting, NProcs

LEMMA NextPlaces ==
    ASSUME WithMPI, Control, InjectionOK, PlacesOK, Next \/ UNCHANGED vars
    PROVE  PlacesOK'
<1>1. CASE InjectionNext /\ UNCHANGED writerVars
  <2>1. pc \in Injecting /\ pc' \in Injecting /\ file' = file /\ step' = step
    BY <1>1, InjectionControl DEF Injecting, writerVars
  <2>2. conf' = conf /\ NProcs' = NProcs
    BY ConfStays DEF NProcs
  <2> QED
    BY <2>1, <2>2 DEF PlacesOK, InStep, Injecting
<1>2. CASE EnterEvolve
  BY <1>2, EnterEvolvePlaces
<1>3. CASE StartStep
  BY <1>3, StartStepPlaces
<1>4. CASE Wait
  BY <1>4, WaitPlaces
<1>5. CASE Sort
  BY <1>5, SortPlaces
<1>6. CASE WriteBeams
  <2>1. /\ pc = "beams" /\ pc' = "solve"
        /\ UNCHANGED <<conf, tile, here, box, from, age, counts, it, step, file>>
    BY <1>6 DEF WriteBeams, injectionVars
  <2> QED
    BY <2>1, SamePlaces DEF InStep
<1>7. CASE SolveBox
  BY <1>7, SolvePlaces
<1>8. CASE WriteFields
  <2>1. /\ pc = "fields" /\ pc' = "notify"
        /\ UNCHANGED <<conf, tile, here, box, from, age, counts, it, step, file>>
    BY <1>8 DEF WriteFields, injectionVars
  <2> QED
    BY <2>1, SamePlaces DEF InStep
<1>9. CASE Notify
  BY <1>9, NotifyPlaces
<1>10. CASE EndStep
  BY <1>10, EndPlaces
<1>11. CASE Restart
  BY <1>11 DEF Restart, PlacesOK, InStep, Injecting
<1>12. CASE Done \/ UNCHANGED vars
  <2>1. UNCHANGED vars
    BY <1>12 DEF Done
  <2>2. UNCHANGED <<conf, tile, here, box, from, age, counts, it, step, file, pc>>
    BY <2>1 DEF vars, injectionVars, writerVars
  <2>3. /\ Beams' = Beams /\ Particles' = Particles /\ Lost' = Lost
        /\ \A k : PushedTo(k)' = PushedTo(k)
    BY <2>2, SameParticles
  <2>4. /\ TilesOK => TilesOK'
        /\ ParticleTypes => ParticleTypes'
        /\ Away' = Away /\ \A b : SortedOK(b) => SortedOK(b)'
    BY <2>2, SameTiles
  <2>5. NProcs' = NProcs /\ NBoxes' = NBoxes /\ OtherSteps' = OtherSteps /\ Frontier' = Frontier
    BY <2>2 DEF NProcs, NBoxes, OtherSteps, Frontier
  <2>6. \A p : /\ BetweenOK(p) => BetweenOK(p)'
               /\ AwayOK(p) => AwayOK(p)'
               /\ HereOK(p) => HereOK(p)'
    BY <2>2, <2>3, <2>4, <2>5 DEF BetweenOK, AwayOK, HereOK
  <2> QED
    BY <2>2, <2>3, <2>4, <2>5, <2>6 DEF PlacesOK
<1> QED
  BY <1>1, <1>2, <1>3, <1>4, <1>5, <1>6, <1>7, <1>8, <1>9, <1>10, <1>11, <1>12 DEF Next

-----------------------------------------------------------------------------
(* Rows                                                                    *)

\* The particles that are in the dump once their box is, which it is from
\* "solve" on.
InDump(p) ==
    /\ from[p] # Lost
    /\ from[p] = it => pc \in {"solve", "fields", "notify", "end"}
    /\ from[p] >= it

DumpBegun == it < NBoxes - 1 \/ pc \in {"solve", "fields", "notify", "end"}

\* The time of the box that is solved.
TimeOK ==
    file = {} =>
        /\ pc = "step" /\ step = 0 => physicalTime = 0
        /\ pc \in InStep /\ ~(pc = "wait" /\ it = NBoxes - 1 /\ step > 0) => physicalTime = step

\* Rows that are written differ.
DifferentRows(data) ==
    /\ Len(data) \in Nat /\ HasRows(data, Len(data))
    /\ \A j, k \in RowsOf(data) : data[j] = data[k] => j = k

DumpOK ==
    /\ chunkOffset \in [Beams -> Nat] /\ chunkSize \in [Beams -> Nat]
    /\ \A b \in Beams : DifferentRows(dump.position[b])

\* The rows of the data set of a beam are particles of the beam, of this step.
RowsOK ==
    file = {} /\ pc \in InStep /\ IsOutputStep(step) => \A b \in conf.dumped :
        /\ dump.momentum[b] = dump.position[b]
        /\ IF DumpBegun THEN dump.time = step /\ HasRows(dump.position[b], total[b])
                        ELSE dump.position[b] = <<>>
        /\ \A k \in RowsOf(dump.position[b]) : \E n \in DOMAIN tile[b] :
               dump.position[b][k] = <<n, step>> /\ InDump(<<b, n>>)

\* All that are to be in the dump are, in the first rows.
CompleteOK ==
    file = {} /\ pc \in InStep /\ IsOutputStep(step) /\ DumpBegun => \A b \in conf.dumped :
        /\ RowsOf(dump.position[b]) = 1 .. chunkOffset[b] + chunkSize[b]
        /\ \A n \in DOMAIN tile[b] : InDump(<<b, n>>) =>
               \E k \in RowsOf(dump.position[b]) : dump.position[b][k] = <<n, step>>

\* A chunk of different rows that are not in the data set yet.
LEMMA DifferentStored ==
    ASSUME NEW n \in Nat, NEW data, HasRows(data, n), DifferentRows(data),
           NEW offset \in Nat, NEW l \in Nat, NEW chunk, HasRows(chunk, l),
           \A k \in 1 .. l : chunk[k] # <<>>,
           \A j, k \in 1 .. l : j # k => chunk[j] # chunk[k],
           \A k \in 1 .. l : \A j \in RowsOf(data) : data[j] # chunk[k],
           NEW new, new = StoreChunk(data, offset, chunk)
    PROVE  /\ HasRows(new, n) /\ DifferentRows(new)
           /\ \A k \in RowsOf(new) :
                  \/ k \in RowsOf(data) /\ new[k] = data[k]
                  \/ \E j \in 1 .. l : new[k] = chunk[j]
<1>1. CASE offset + l <= n
  <2>1. /\ HasRows(new, n)
        /\ \A k \in 1 .. n : new[k] = IF k \in offset + 1 .. offset + l
                                      THEN chunk[k - offset] ELSE data[k]
    BY <1>1, ChunkStored
  <2>2. DOMAIN new = 1 .. n /\ DOMAIN data = 1 .. n
    BY <2>1 DEF HasRows
  <2>3. \A k \in RowsOf(new) :
            \/ k \in RowsOf(data) /\ new[k] = data[k] /\ k \notin offset + 1 .. offset + l
            \/ k - offset \in 1 .. l /\ new[k] = chunk[k - offset]
    BY <2>1, <2>2 DEF RowsOf
  <2>4. \A j, k \in RowsOf(new) : new[j] = new[k] => j = k
    <3> SUFFICES ASSUME NEW j \in RowsOf(new), NEW k \in RowsOf(new), j # k PROVE new[j] # new[k]
      OBVIOUS
    <3>1. j \in Int /\ k \in Int
      BY <2>2 DEF RowsOf
    <3>2. CASE j \in RowsOf(data) /\ new[j] = data[j]
      <4>1. CASE k \in RowsOf(data) /\ new[k] = data[k]
        BY <3>2, <4>1 DEF DifferentRows
      <4>2. CASE k - offset \in 1 .. l /\ new[k] = chunk[k - offset]
        BY <3>2, <4>2
      <4> QED
        BY <2>3, <4>1, <4>2
    <3>3. CASE j - offset \in 1 .. l /\ new[j] = chunk[j - offset]
      <4>1. CASE k \in RowsOf(data) /\ new[k] = data[k]
        BY <3>3, <4>1
      <4>2. CASE k - offset \in 1 .. l /\ new[k] = chunk[k - offset]
        <5>1. j - offset # k - offset
          BY <3>1
        <5> QED
          BY <3>3, <4>2, <5>1
      <4> QED
        BY <2>3, <4>1, <4>2
    <3> QED
      BY <2>3, <3>2, <3>3
  <2>5. DifferentRows(new)
    BY <2>1, <2>4 DEF DifferentRows, HasRows
  <2> QED
    BY <2>1, <2>3, <2>5
<1>2. CASE ~(offset + l <= n)
  <2>1. new = data
    BY <1>2 DEF StoreChunk, Fits, HasRows
  <2> QED
    BY <2>1
<1> QED
  BY <1>1, <1>2

LEMMA NoRows ==
    /\ HasRows(<<>>, 0) /\ DifferentRows(<<>>) /\ RowsOf(<<>>) = {}
    /\ \A n \in Nat : HasRows(DataSet(n), n) /\ DifferentRows(DataSet(n)) /\ RowsOf(DataSet(n)) = {}
<1>1. HasRows(<<>>, 0)
  BY DEF HasRows
<1>2. RowsOf(<<>>) = {}
  BY DEF RowsOf
<1>3. \A n \in Nat : HasRows(DataSet(n), n) /\ RowsOf(DataSet(n)) = {}
  BY DataSetRows DEF RowsOf, DataSet
<1> QED
  BY <1>1, <1>2, <1>3 DEF DifferentRows, HasRows

LEMMA TotalsAre ==
    ASSUME Control, InjectionOK, pc \in {"step"} \union InStep, file = {}
    PROVE  /\ conf.dumped \subseteq Beams
           /\ initialTime = 0
           /\ \A b \in Beams : total[b] \in Nat
<1>1. conf.dumped \subseteq Beams
  BY WriterAssumption DEF Control, Beams
<1>2. initialTime = 0
  BY DEF InjectionOK
<1>3. \A b \in Beams : total[b] \in Nat
  <2> SUFFICES ASSUME NEW b \in Beams PROVE total[b] \in Nat
    OBVIOUS
  <2>1. IsFiniteSet(DOMAIN tile[b]) /\ total[b] = TotalNumberOfParticles(tile[b])
    BY TilesAre
  <2>2. {k \in DOMAIN tile[b] : tile[b][k].id > 0} \subseteq DOMAIN tile[b]
    OBVIOUS
  <2>3. IsFiniteSet({k \in DOMAIN tile[b] : tile[b][k].id > 0})
    BY <2>1, <2>2, FS_Subset
  <2> QED
    BY <2>1, <2>3, FS_CardinalityType DEF TotalNumberOfParticles
<1> QED
  BY <1>1, <1>2, <1>3

\* The chunk has the particles of the box, each once.
LEMMA ChunkIs ==
    ASSUME Control, PlacesOK, pc = "beams", NEW b \in Beams
    PROVE  /\ CountOf(b, it) \in Nat /\ DOMAIN Chunk(b) = 1 .. CountOf(b, it)
           /\ \A k \in 1 .. CountOf(b, it) :
                  /\ Chunk(b)[k] \in DOMAIN tile[b]
                  /\ from[<<b, Chunk(b)[k]>>] = it /\ age[<<b, Chunk(b)[k]>>] = step
           /\ \A j, k \in 1 .. CountOf(b, it) : j # k => Chunk(b)[j] # Chunk(b)[k]
           /\ \A n \in DOMAIN tile[b] : from[<<b, n>>] = it =>
                  \E k \in 1 .. CountOf(b, it) : Chunk(b)[k] = n
<1>1. file = {} /\ it \in 0 .. Lost /\ it # Lost
  BY NoneOutside, Pushes DEF InStep
<1>2. /\ TilesOK /\ ParticleTypes /\ SortedOK(b)
      /\ \A p \in Particles : IF p \in Away THEN AwayOK(p) ELSE HereOK(p)
  BY <1>1 DEF PlacesOK, InStep
<1> DEFINE c == CountOf(b, it)
           o == OffsetOf(b, it)
           s == here[b]
<1>3. /\ c \in Nat /\ o \in Nat /\ o + c <= Len(s)
      /\ \A i \in DOMAIN s : /\ i <= o <=> from[<<b, s[i]>>] < it
                             /\ i <= o + c <=> from[<<b, s[i]>>] <= it
  BY <1>1, <1>2 DEF SortedOK
<1>4. Distinct(s) /\ Len(s) \in Nat /\ DOMAIN s = 1 .. Len(s)
  BY <1>2 DEF TilesOK, Distinct, HasRows
<1>5. \A i \in DOMAIN s : /\ s[i] \in DOMAIN tile[b]
                          /\ from[<<b, s[i]>>] \in 0 .. Lost
                          /\ from[<<b, s[i]>>] = it => age[<<b, s[i]>>] = step
  <2> SUFFICES ASSUME NEW i \in DOMAIN s
               PROVE  /\ s[i] \in DOMAIN tile[b]
                      /\ from[<<b, s[i]>>] \in 0 .. Lost
                      /\ from[<<b, s[i]>>] = it => age[<<b, s[i]>>] = step
    OBVIOUS
  <2>1. <<b, s[i]>> \in Particles \ Away
    BY <1>2, HereIs
  <2>2. s[i] \in DOMAIN tile[b] /\ from[<<b, s[i]>>] \in 0 .. Lost
    BY <1>2, <2>1, ParticleIs DEF ParticleTypes
  <2>3. HereOK(<<b, s[i]>>)
    BY <1>2, <2>1
  <2> QED
    BY <2>2, <2>3 DEF HereOK
<1>6. Chunk(b) = [k \in 1 .. c |-> s[o + k]]
  BY DEF Chunk
<1> HIDE DEF c, o, s
<1>7. \A k \in 1 .. c : o + k \in DOMAIN s /\ ~(o + k <= o) /\ o + k <= o + c
  BY <1>3, <1>4
<1>8. \A k \in 1 .. c : s[o + k] \in DOMAIN tile[b] /\ from[<<b, s[o + k]>>] = it
  BY <1>1, <1>3, <1>5, <1>7
<1>9. \A j, k \in 1 .. c : j # k => s[o + j] # s[o + k]
  <2> SUFFICES ASSUME NEW j \in 1 .. c, NEW k \in 1 .. c, j # k PROVE s[o + j] # s[o + k]
    OBVIOUS
  <2>1. o + j # o + k
    BY <1>3
  <2> QED
    BY <1>4, <1>7, <2>1 DEF Distinct
<1>10. \A n \in DOMAIN tile[b] : from[<<b, n>>] = it => \E k \in 1 .. c : s[o + k] = n
  <2> SUFFICES ASSUME NEW n \in DOMAIN tile[b], from[<<b, n>>] = it
               PROVE  \E k \in 1 .. c : s[o + k] = n
    OBVIOUS
  <2>1. <<b, n>> \in Particles
    BY ParticleIs
  <2>2. <<b, n>> \notin Away
    <3>1. Frontier = it
      BY DEF Frontier
    <3> QED
      BY <1>1, <1>2, <2>1, <3>1 DEF AwayOK
  <2>3. PICK i \in DOMAIN s : s[i] = n
    BY <1>2, <2>1, <2>2, HereIs DEF s
  <2>4. ~(i <= o) /\ i <= o + c
    BY <1>1, <1>3, <2>3
  <2>5. i - o \in 1 .. c /\ o + (i - o) = i
    BY <1>3, <1>4, <2>4
  <2> QED
    BY <2>3, <2>5
<1>11. /\ c \in Nat /\ DOMAIN Chunk(b) = 1 .. c
       /\ \A k \in 1 .. c : Chunk(b)[k] = s[o + k]
  BY <1>3, <1>6
<1>12. \A k \in 1 .. c : age[<<b, s[o + k]>>] = step
  BY <1>5, <1>7, <1>8
<1> QED
  BY <1>8, <1>9, <1>10, <1>11, <1>12 DEF c

\* The data set of a beam before its box is stored.
LEMMA SetupIs ==
    ASSUME Control, InjectionOK, DumpOK, RowsOK, pc = "beams", IsOutputStep(step), file = {},
           NEW b \in conf.dumped
    PROVE  /\ b \in Beams /\ total[b] \in Nat
           /\ SetupBeam(dump.momentum, b) = SetupBeam(dump.position, b)
           /\ HasRows(SetupBeam(dump.position, b), total[b])
           /\ DifferentRows(SetupBeam(dump.position, b))
           /\ RowsOf(SetupBeam(dump.position, b)) = RowsOf(dump.position[b])
           /\ \A k \in RowsOf(dump.position[b]) :
                  SetupBeam(dump.position, b)[k] = dump.position[b][k]
<1>1. b \in Beams /\ total[b] \in Nat
  BY TotalsAre DEF InStep
<1>2. /\ dump.momentum[b] = dump.position[b] /\ DifferentRows(dump.position[b])
      /\ IF DumpBegun THEN HasRows(dump.position[b], total[b]) ELSE dump.position[b] = <<>>
  BY <1>1 DEF RowsOK, DumpOK, InStep
<1>3. CASE DumpBegun
  <2>1. Begun
    BY <1>3 DEF DumpBegun, Begun
  <2>2. lastDumped = step
    BY <2>1 DEF Control, InStep
  <2> QED
    BY <1>1, <1>2, <1>3, <2>2 DEF SetupBeam
<1>4. CASE ~DumpBegun
  <2>1. ~Begun
    BY <1>4 DEF DumpBegun, Begun
  <2>2. lastDumped < step /\ lastDumped \in Int /\ step \in Nat
    BY <2>1 DEF Control, InStep
  <2>3. lastDumped # step /\ dump.position[b] = <<>> /\ Len(dump.position[b]) = 0
    BY <1>2, <1>4, <2>2
  <2>4. CASE total[b] = 0
    <3>1. SetupBeam(dump.position, b) = <<>>
      BY <2>3, <2>4, <1>2 DEF SetupBeam
    <3> QED
      BY <1>1, <1>2, <2>3, <2>4, <3>1, NoRows DEF SetupBeam
  <2>5. CASE total[b] # 0
    <3>1. SetupBeam(dump.position, b) = DataSet(total[b]) /\ SetupBeam(dump.momentum, b) = DataSet(total[b])
      BY <1>2, <2>3, <2>5 DEF SetupBeam
    <3> QED
      BY <1>1, <2>3, <3>1, NoRows
  <2> QED
    BY <2>4, <2>5
<1> QED
  BY <1>3, <1>4

\* The rows of the box.
LEMMA BeamRowsAre ==
    ASSUME Control, PlacesOK, pc = "beams", NEW b \in Beams
    PROVE  /\ CountOf(b, it) \in Nat /\ HasRows(BeamRows(b), CountOf(b, it))
           /\ \A k \in 1 .. CountOf(b, it) :
                  /\ Chunk(b)[k] \in DOMAIN tile[b] /\ from[<<b, Chunk(b)[k]>>] = it
                  /\ BeamRows(b)[k] = <<Chunk(b)[k], step>> /\ BeamRows(b)[k] # <<>>
           /\ \A j, k \in 1 .. CountOf(b, it) : j # k => BeamRows(b)[j] # BeamRows(b)[k]
<1> DEFINE c == CountOf(b, it)
           rows == BeamRows(b)
<1>1. /\ c \in Nat /\ DOMAIN Chunk(b) = 1 .. c
      /\ \A k \in 1 .. c : /\ Chunk(b)[k] \in DOMAIN tile[b]
                           /\ from[<<b, Chunk(b)[k]>>] = it /\ age[<<b, Chunk(b)[k]>>] = step
      /\ \A j, k \in 1 .. c : j # k => Chunk(b)[j] # Chunk(b)[k]
  BY ChunkIs
<1>2. rows = [k \in 1 .. c |-> BeamRow(b, Chunk(b)[k])]
  BY <1>1 DEF BeamRows
<1> HIDE DEF rows, c
<1>3. rows = [k \in 1 .. c |-> rows[k]] /\ \A k \in 1 .. c : rows[k] = BeamRow(b, Chunk(b)[k])
  BY <1>2
<1>4. HasRows(rows, c)
  BY <1>1, <1>3, RowsOfFunction
<1>5. \A k \in 1 .. c : rows[k] = <<Chunk(b)[k], step>>
  BY <1>1, <1>3 DEF BeamRow
<1>6. \A x, y : <<x, y>> # <<>>
  OBVIOUS
<1>7. \A x, y, u, v : x # u => <<x, y>> # <<u, v>>
  OBVIOUS
<1>8. \A j, k \in 1 .. c : j # k => rows[j] # rows[k]
  BY <1>1, <1>5, <1>7
<1> QED
  BY <1>1, <1>4, <1>5, <1>6, <1>8 DEF c, rows

LEMMA BeamWritten ==
    ASSUME Control, InjectionOK, PositionsOK, PlacesOK, DumpOK, RowsOK, WriteBeams, IsOutputStep(step),
           file = {}, NEW b \in conf.dumped
    PROVE  /\ HasRows(dump'.position[b], total[b]) /\ DifferentRows(dump'.position[b])
           /\ dump'.momentum[b] = dump'.position[b]
           /\ \A k \in RowsOf(dump'.position[b]) :
                  \/ k \in RowsOf(dump.position[b]) /\ dump'.position[b][k] = dump.position[b][k]
                  \/ \E j \in 1 .. CountOf(b, it) : dump'.position[b][k] = <<Chunk(b)[j], step>>
<1>1. pc = "beams"
  BY DEF WriteBeams
<1> DEFINE data == SetupBeam(dump.position, b)
           rows == BeamRows(b)
           c == CountOf(b, it)
           n == total[b]
           offset == chunkOffset'[b]
           new == dump'.position[b]
<1>2. /\ b \in Beams /\ n \in Nat
      /\ SetupBeam(dump.momentum, b) = data
      /\ HasRows(data, n) /\ DifferentRows(data) /\ RowsOf(data) = RowsOf(dump.position[b])
      /\ \A k \in RowsOf(dump.position[b]) : data[k] = dump.position[b][k]
  BY <1>1, SetupIs
<1>3. /\ c \in Nat /\ HasRows(rows, c)
      /\ \A k \in 1 .. c :
             /\ Chunk(b)[k] \in DOMAIN tile[b] /\ from[<<b, Chunk(b)[k]>>] = it
             /\ rows[k] = <<Chunk(b)[k], step>> /\ rows[k] # <<>>
      /\ \A j, k \in 1 .. c : j # k => rows[j] # rows[k]
  BY <1>1, <1>2, BeamRowsAre
<1>4. /\ new = StoreChunk(data, offset, rows) /\ dump'.momentum[b] = new
      /\ offset \in Nat
  BY <1>2, WriteBeamsIs DEF DumpOK
<1>5. \A k \in 1 .. c : \A j \in RowsOf(data) : data[j] # rows[k]
  <2> SUFFICES ASSUME NEW k \in 1 .. c, NEW j \in RowsOf(data) PROVE data[j] # rows[k]
    OBVIOUS
  <2>1. PICK m \in DOMAIN tile[b] : data[j] = <<m, step>> /\ InDump(<<b, m>>)
    BY <1>1, <1>2 DEF RowsOK, InStep
  <2>2. from[<<b, m>>] # it
    BY <1>1, <2>1 DEF InDump
  <2>3. m # Chunk(b)[k] /\ rows[k] = <<Chunk(b)[k], step>>
    BY <1>3, <2>2
  <2>4. \A x, u, y : x # u => <<x, y>> # <<u, y>>
    OBVIOUS
  <2>5. <<m, step>> # <<Chunk(b)[k], step>>
    BY <2>3, <2>4
  <2> HIDE DEF data, rows
  <2> QED
    BY <2>1, <2>3, <2>5
<1> HIDE DEF data, rows, c, n, offset, new
<1>6. /\ HasRows(new, n) /\ DifferentRows(new)
      /\ \A k \in RowsOf(new) : \/ k \in RowsOf(data) /\ new[k] = data[k]
                                \/ \E j \in 1 .. c : new[k] = rows[j]
  <2>1. \A k \in 1 .. c : rows[k] # <<>>
    BY <1>3
  <2>2. \A j, k \in 1 .. c : j # k => rows[j] # rows[k]
    BY <1>3
  <2>3. n \in Nat /\ HasRows(data, n) /\ DifferentRows(data)
    BY <1>2
  <2>4. offset \in Nat /\ new = StoreChunk(data, offset, rows) /\ c \in Nat /\ HasRows(rows, c)
    BY <1>3, <1>4
  <2> QED
    BY <2>1, <2>2, <2>3, <2>4, <1>5, DifferentStored
<1>7. \A k \in RowsOf(new) :
          \/ k \in RowsOf(dump.position[b]) /\ new[k] = dump.position[b][k]
          \/ \E j \in 1 .. c : new[k] = <<Chunk(b)[j], step>>
  <2> SUFFICES ASSUME NEW k \in RowsOf(new)
               PROVE  \/ k \in RowsOf(dump.position[b]) /\ new[k] = dump.position[b][k]
                      \/ \E j \in 1 .. c : new[k] = <<Chunk(b)[j], step>>
    OBVIOUS
  <2>1. CASE k \in RowsOf(data) /\ new[k] = data[k]
    <3>1. k \in RowsOf(dump.position[b])
      BY <1>2, <2>1
    <3>2. data[k] = dump.position[b][k]
      BY <1>2, <3>1
    <3> QED
      BY <2>1, <3>1, <3>2
  <2>2. CASE \E j \in 1 .. c : new[k] = rows[j]
    <3>1. PICK j \in 1 .. c : new[k] = rows[j]
      BY <2>2
    <3>2. rows[j] = <<Chunk(b)[j], step>>
      BY <1>3
    <3> QED
      BY <3>1, <3>2
  <2> QED
    BY <1>6, <2>1, <2>2
<1> QED
  BY <1>4, <1>6, <1>7 DEF new, n, c

LEMMA WriteBeamsRows ==
    ASSUME Control, InjectionOK, PositionsOK, PlacesOK, TimeOK, DumpOK, RowsOK, WriteBeams
    PROVE  DumpOK' /\ RowsOK'
<1>1. /\ pc = "beams" /\ pc' = "solve"
      /\ UNCHANGED <<conf, tile, total, from, age, it, step, file, physicalTime>>
  BY DEF WriteBeams, injectionVars
<1>2. file = {}
  BY <1>1, NoneOutside DEF InStep
<1>3. /\ Beams' = Beams /\ Particles' = Particles /\ Lost' = Lost
      /\ IsOutputStep(step)' <=> IsOutputStep(step)
  BY <1>1, SameParticles DEF IsOutputStep
<1>4. conf.dumped \subseteq Beams
  BY <1>1, <1>2, TotalsAre DEF InStep
<1>5. CASE ~IsOutputStep(step)
  <2>1. UNCHANGED <<chunkOffset, chunkSize, dump>>
    BY <1>5 DEF WriteBeams
  <2>2. DumpOK'
    BY <1>3, <2>1 DEF DumpOK, DifferentRows, HasRows, RowsOf
  <2> QED
    BY <1>3, <1>5, <2>2 DEF RowsOK
<1>6. CASE IsOutputStep(step)
  <2>1. /\ DOMAIN dump' = {"step", "time", "position", "momentum", "id", "field"}
        /\ dump'.time = physicalTime
        /\ chunkOffset' = [b \in Beams |->
                  IF b \notin conf.dumped THEN chunkOffset[b]
                  ELSE IF FirstBox THEN 0 ELSE chunkOffset[b] + chunkSize[b]]
        /\ chunkSize' = [b \in Beams |-> IF b \in conf.dumped THEN CountOf(b, it) ELSE chunkSize[b]]
        /\ \A b \in Beams \ conf.dumped : dump'.position[b] = dump.position[b]
    BY <1>6, WriteBeamsIs
  <2>2. \A b \in conf.dumped :
            /\ HasRows(dump'.position[b], total[b]) /\ DifferentRows(dump'.position[b])
            /\ dump'.momentum[b] = dump'.position[b]
            /\ \A k \in RowsOf(dump'.position[b]) :
                  \/ k \in RowsOf(dump.position[b]) /\ dump'.position[b][k] = dump.position[b][k]
                  \/ \E j \in 1 .. CountOf(b, it) : dump'.position[b][k] = <<Chunk(b)[j], step>>
    BY <1>2, <1>6, BeamWritten
  <2>3. \A b \in Beams : CountOf(b, it) \in Nat
    BY <1>1, BeamRowsAre
  <2>4. chunkOffset' \in [Beams -> Nat] /\ chunkSize' \in [Beams -> Nat]
    BY <2>1, <2>3 DEF DumpOK
  <2>5. DumpOK'
    <3>1. \A b \in Beams : DifferentRows(dump'.position[b])
      BY <2>1, <2>2 DEF DumpOK
    <3> QED
      BY <1>3, <2>1, <2>4, <3>1 DEF DumpOK, DifferentRows, HasRows, RowsOf
  <2>6. dump'.time = step
    BY <1>1, <1>2, <2>1 DEF TimeOK, InStep
  <2>7. ASSUME NEW b \in conf.dumped, NEW k \in RowsOf(dump'.position[b])
        PROVE  \E n \in DOMAIN tile[b] : dump'.position[b][k] = <<n, step>> /\ InDump(<<b, n>>)'
    <3>0. Lost' = NBoxes /\ it \in 0 .. NBoxes - 1 /\ NBoxes \in Nat \ {0}
      BY <1>3, Pushes
    <3>1. CASE k \in RowsOf(dump.position[b]) /\ dump'.position[b][k] = dump.position[b][k]
      <4>1. PICK n \in DOMAIN tile[b] : dump.position[b][k] = <<n, step>> /\ InDump(<<b, n>>)
        BY <1>1, <1>2, <1>6, <3>1 DEF RowsOK, InStep
      <4>2. InDump(<<b, n>>)'
        BY <1>1, <1>3, <4>1 DEF InDump
      <4> QED
        BY <3>1, <4>1, <4>2
    <3>2. CASE \E j \in 1 .. CountOf(b, it) : dump'.position[b][k] = <<Chunk(b)[j], step>>
      <4>1. PICK j \in 1 .. CountOf(b, it) : dump'.position[b][k] = <<Chunk(b)[j], step>>
        BY <3>2
      <4>2. Chunk(b)[j] \in DOMAIN tile[b] /\ from[<<b, Chunk(b)[j]>>] = it
        BY <1>1, <1>4, BeamRowsAre
      <4>3. PICK n \in DOMAIN tile[b] : n = Chunk(b)[j]
        BY <4>2
      <4>4. from'[<<b, n>>] = it' /\ it' # Lost' /\ it' >= it' /\ pc' = "solve"
        BY <1>1, <3>0, <4>2, <4>3
      <4>5. InDump(<<b, n>>)'
        BY <4>4 DEF InDump
      <4> QED
        BY <4>1, <4>3, <4>5
    <3> QED
      BY <2>2, <3>1, <3>2
  <2>8. DumpBegun'
    BY <1>1 DEF DumpBegun
  <2>9. RowsOK'
    <3>1. conf' = conf /\ tile' = tile /\ total' = total /\ step' = step
      BY <1>1
    <3>2. ASSUME NEW b \in conf'.dumped
          PROVE  /\ dump'.momentum[b] = dump'.position[b]
                 /\ dump'.time = step' /\ HasRows(dump'.position[b], total'[b])
                 /\ \A k \in RowsOf(dump'.position[b]) : \E n \in DOMAIN tile'[b] :
                        dump'.position[b][k] = <<n, step'>> /\ InDump(<<b, n>>)'
      BY <2>2, <2>6, <2>7, <3>1
    <3> QED
      BY <2>8, <3>2, Zenon DEF RowsOK, HasRows, RowsOf
  <2> QED
    BY <2>5, <2>9
<1> QED
  BY <1>5, <1>6

LEMMA NextTime ==
    ASSUME WithMPI, Control, InjectionOK, TimeOK, Next \/ UNCHANGED vars
    PROVE  TimeOK'
<1> USE DEF InStep
<1>0. conf' = conf /\ NBoxes' = NBoxes /\ NProcs' = NProcs
  BY ConfStays DEF NBoxes, NProcs
<1>1. CASE InjectionNext /\ UNCHANGED writerVars
  <2>1. pc' \in Injecting
    BY <1>1, InjectionControl
  <2> QED
    BY <2>1 DEF TimeOK, Injecting
<1>2. CASE EnterEvolve
  <2>1. pc = "injected" /\ file = {} /\ physicalTime' = initialTime /\ pc' = "step"
    BY <1>2 DEF EnterEvolve
  <2>2. initialTime = 0
    BY <2>1 DEF InjectionOK
  <2> QED
    BY <2>1, <2>2 DEF TimeOK
<1>3. CASE StartStep
  <2>1. /\ pc = "step" /\ pc' = "wait" /\ it' = NBoxes - 1
        /\ UNCHANGED <<file, step, physicalTime>>
    BY <1>3 DEF StartStep
  <2>2. step \in Nat
    BY DEF Control
  <2> QED
    BY <1>0, <2>1, <2>2 DEF TimeOK
<1>4. CASE Wait
  <2>1. /\ pc = "wait" /\ pc' = "sort" /\ UNCHANGED <<file, step, it>>
        /\ IF step = 0 THEN physicalTime' = physicalTime
           ELSE physicalTime' = IF it = NBoxes - 1 THEN initialTime + step ELSE physicalTime
    BY <1>4 DEF Wait, WithMPI, Control
  <2>2. step \in Nat
    BY DEF Control
  <2>3. file = {} => initialTime = 0
    BY DEF InjectionOK
  <2> QED
    BY <2>1, <2>2, <2>3 DEF TimeOK
<1>5. CASE Sort \/ WriteBeams \/ SolveBox \/ WriteFields
  <2>1. /\ pc \in {"sort", "beams", "solve", "fields"} /\ pc' \in {"beams", "solve", "fields", "notify"}
        /\ UNCHANGED <<file, step, it, physicalTime>>
    BY <1>5 DEF Sort, WriteBeams, SolveBox, WriteFields
  <2> QED
    BY <2>1 DEF TimeOK
<1>6. CASE Notify
  <2>1. /\ pc = "notify" /\ UNCHANGED <<file, step, physicalTime>>
        /\ IF it > 0 THEN it' = it - 1 /\ pc' = "wait" ELSE it' = it /\ pc' = "end"
    BY <1>6 DEF Notify
  <2>2. it \in 0 .. NBoxes - 1 /\ NBoxes \in Nat \ {0}
    BY Pushes
  <2> QED
    BY <1>0, <2>1, <2>2 DEF TimeOK
<1>7. CASE EndStep
  <2>1. pc' = "step" /\ step' = step + NProcs
    BY <1>7 DEF EndStep
  <2>2. step \in Nat /\ NProcs \in Nat \ {0}
    BY BoxFacts DEF Control
  <2> QED
    BY <2>1, <2>2 DEF TimeOK
<1>8. CASE Restart
  BY <1>8 DEF Restart, TimeOK
<1>9. CASE Done \/ UNCHANGED vars
  <2>1. UNCHANGED <<pc, file, step, it, physicalTime>>
    BY <1>9 DEF Done, vars, writerVars
  <2> QED
    BY <1>0, <2>1 DEF TimeOK
<1> QED
  BY <1>1, <1>2, <1>3, <1>4, <1>5, <1>6, <1>7, <1>8, <1>9 DEF Next

\* A new iteration has no rows.
LEMMA NewIterationIs ==
    ASSUME NEW s
    PROVE  /\ DOMAIN NewIteration(s) = {"step", "time", "position", "momentum", "id", "field"}
           /\ \A b \in Beams : /\ NewIteration(s).position[b] = <<>>
                               /\ NewIteration(s).momentum[b] = <<>>
  BY DEF NewIteration

LEMMA InitDump ==
    ASSUME WriterInit
    PROVE  DumpOK
<1>1. /\ dump = NewIteration(-1)
      /\ chunkOffset = [b \in Beams |-> 0] /\ chunkSize = [b \in Beams |-> 0]
  BY DEF WriterInit
<1> QED
  BY <1>1, NewIterationIs, NoRows DEF DumpOK

\* Where nothing is written of the beams.
LEMMA RowsStay ==
    ASSUME Control, DumpOK, RowsOK, pc \in InStep,
           UNCHANGED <<conf, tile, total, step, file, chunkOffset, chunkSize>>,
           dump'.position = dump.position, dump'.momentum = dump.momentum, dump'.time = dump.time,
           pc' \in InStep => (DumpBegun' <=> DumpBegun),
           pc' \in InStep => \A p \in Particles : InDump(p) => InDump(p)'
    PROVE  DumpOK' /\ RowsOK'
<1>1. /\ Beams' = Beams /\ Particles' = Particles
      /\ IsOutputStep(step)' <=> IsOutputStep(step)
  BY SameParticles DEF IsOutputStep
<1>2. DumpOK'
  BY <1>1 DEF DumpOK, DifferentRows, HasRows, RowsOf
<1>3. ASSUME file = {}, pc' \in InStep, IsOutputStep(step), NEW b \in conf.dumped
      PROVE  /\ dump.momentum[b] = dump.position[b]
             /\ IF DumpBegun' THEN dump.time = step /\ HasRows(dump.position[b], total[b])
                              ELSE dump.position[b] = <<>>
             /\ \A k \in RowsOf(dump.position[b]) : \E n \in DOMAIN tile[b] :
                    dump.position[b][k] = <<n, step>> /\ InDump(<<b, n>>)'
  <2>1. \A n \in DOMAIN tile[b] : <<b, n>> \in Particles
    BY ParticleIs, WriterAssumption DEF Control, Beams
  <2> QED
    BY <1>3, <2>1 DEF RowsOK
<1>4. conf' = conf /\ tile' = tile /\ total' = total /\ step' = step /\ file' = file
  OBVIOUS
<1>5. \A b : /\ HasRows(dump.position[b], total[b])' <=> HasRows(dump.position[b], total[b])
             /\ RowsOf(dump.position[b])' = RowsOf(dump.position[b])
  BY <1>4 DEF HasRows, RowsOf
<1>6. RowsOK'
  <2> SUFFICES ASSUME file' = {}, pc' \in InStep, IsOutputStep(step)', NEW b \in conf'.dumped
               PROVE  /\ dump'.momentum[b] = dump'.position[b]
                      /\ IF DumpBegun' THEN dump'.time = step' /\ HasRows(dump.position[b], total[b])'
                                       ELSE dump'.position[b] = <<>>
                      /\ \A k \in RowsOf(dump.position[b])' : \E n \in DOMAIN tile'[b] :
                             dump'.position[b][k] = <<n, step'>> /\ InDump(<<b, n>>)'
    BY DEF RowsOK
  <2>1. file = {} /\ IsOutputStep(step) /\ b \in conf.dumped
    BY <1>1, <1>4
  <2>2. /\ dump.momentum[b] = dump.position[b]
        /\ IF DumpBegun' THEN dump.time = step /\ HasRows(dump.position[b], total[b])
                         ELSE dump.position[b] = <<>>
        /\ \A k \in RowsOf(dump.position[b]) : \E n \in DOMAIN tile[b] :
               dump.position[b][k] = <<n, step>> /\ InDump(<<b, n>>)'
    BY <1>3, <2>1
  <2> QED
    BY <1>4, <1>5, <2>2
<1> QED
  BY <1>2, <1>6

LEMMA NextRows ==
    ASSUME WithMPI, Control, InjectionOK, PositionsOK, PlacesOK, TimeOK, DumpOK, RowsOK, Next \/ UNCHANGED vars
    PROVE  DumpOK' /\ RowsOK'
<1>0. conf' = conf /\ Beams' = Beams
  BY ConfStays DEF Beams
<1>1. CASE pc' \notin InStep /\ UNCHANGED <<chunkOffset, chunkSize, dump>>
  BY <1>0, <1>1 DEF DumpOK, RowsOK, DifferentRows, HasRows, RowsOf
<1>2. CASE InjectionNext /\ UNCHANGED writerVars
  <2>1. pc' \in Injecting /\ UNCHANGED <<chunkOffset, chunkSize, dump>>
    BY <1>2, InjectionControl DEF writerVars
  <2> QED
    BY <1>1, <2>1 DEF Injecting, InStep
<1>3. CASE EnterEvolve
  BY <1>1, <1>3 DEF EnterEvolve, InStep
<1>4. CASE StartStep
  <2>1. /\ pc' = "wait" /\ it' = NBoxes - 1 /\ step' = step
        /\ UNCHANGED <<chunkOffset, chunkSize>>
        /\ dump' = IF IsOutputStep(step) THEN NewIteration(step) ELSE dump
    BY <1>4 DEF StartStep
  <2>2. ~DumpBegun' /\ (IsOutputStep(step)' <=> IsOutputStep(step))
    <3>1. NBoxes' = NBoxes /\ NBoxes \in Nat \ {0}
      BY <1>0, Pushes DEF NBoxes, NProcs
    <3> QED
      BY <1>0, <2>1, <3>1 DEF DumpBegun, IsOutputStep
  <2>3. CASE IsOutputStep(step)
    <3>1. /\ \A b \in Beams : dump'.position[b] = <<>> /\ dump'.momentum[b] = <<>>
      BY <2>1, <2>3, NewIterationIs
    <3>2. DumpOK'
      <4>1. \A b \in Beams : DifferentRows(dump'.position[b])
        BY <3>1, NoRows
      <4> QED
        BY <1>0, <2>1, <3>1, <4>1 DEF DumpOK, DifferentRows, HasRows, RowsOf
    <3>3. conf.dumped \subseteq Beams
      BY WriterAssumption DEF Control, Beams
    <3>4. RowsOK'
      <4>1. \A b \in conf.dumped : RowsOf(dump'.position[b]) = {}
        BY <3>1, <3>3, NoRows
      <4> QED
        BY <1>0, <2>2, <3>1, <3>3, <4>1 DEF RowsOK, RowsOf
    <3> QED
      BY <3>2, <3>4
  <2>4. CASE ~IsOutputStep(step)
    <3>1. dump' = dump
      BY <2>1, <2>4
    <3>2. DumpOK'
      BY <1>0, <2>1, <3>1 DEF DumpOK, DifferentRows, HasRows, RowsOf
    <3>3. RowsOK'
      BY <2>2, <2>4 DEF RowsOK
    <3> QED
      BY <3>2, <3>3
  <2> QED
    BY <2>3, <2>4
<1>5. CASE Wait
  <2>1. /\ pc = "wait" /\ pc' = "sort"
        /\ UNCHANGED <<conf, tile, total, step, file, chunkOffset, chunkSize, dump, it, from>>
    BY <1>5 DEF Wait, injectionVars
  <2>2. NBoxes' = NBoxes /\ Lost' = Lost
    BY <1>0 DEF Lost, NBoxes, NProcs
  <2>3. DumpBegun' <=> DumpBegun
    BY <2>1, <2>2 DEF DumpBegun
  <2>4. \A p \in Particles : InDump(p) => InDump(p)'
    BY <2>1, <2>2 DEF InDump
  <2> QED
    BY <2>1, <2>3, <2>4, RowsStay DEF InStep
<1>6. CASE Sort
  <2>1. /\ pc = "sort" /\ pc' = "beams"
        /\ UNCHANGED <<conf, tile, total, step, file, chunkOffset, chunkSize, dump, it>>
    BY <1>6 DEF Sort, injectionVars
  <2>2. file = {} /\ Lost' = Lost /\ NBoxes' = NBoxes /\ Lost = NBoxes /\ it \in 0 .. NBoxes - 1 /\ NBoxes \in Nat \ {0}
    BY <1>0, <2>1, NoneOutside, Pushes DEF Lost, NBoxes, NProcs, InStep
  <2>3. /\ TilesOK /\ ParticleTypes
        /\ \A p \in Particles : IF p \in Away THEN AwayOK(p) ELSE HereOK(p)
    BY <2>1, <2>2 DEF PlacesOK, InStep
  <2>4. DumpBegun' <=> DumpBegun
    BY <2>1, <2>2 DEF DumpBegun
  <2>5. \A p \in Particles : InDump(p) => InDump(p)'
    <3> SUFFICES ASSUME NEW p \in Particles, InDump(p) PROVE InDump(p)'
      OBVIOUS
    <3>1. from[p] \in 0 .. Lost /\ from[p] # Lost /\ from[p] > it
      BY <2>1, <2>2, <2>3 DEF InDump, ParticleTypes
    <3>2. p \in Away
      BY <2>1, <2>2, <2>3, <3>1 DEF HereOK
    <3>3. from'[p] = from[p]
      BY <1>6, <2>3, <3>2, SortSorts
    <3> QED
      BY <2>1, <2>2, <3>1, <3>3 DEF InDump
  <2> QED
    BY <2>1, <2>4, <2>5, RowsStay DEF InStep
<1>7. CASE WriteBeams
  BY <1>7, WriteBeamsRows
<1>8. CASE SolveBox \/ WriteFields
  <2>1. /\ pc \in {"solve", "fields"} /\ pc' \in {"fields", "notify"}
        /\ UNCHANGED <<conf, tile, total, step, file, chunkOffset, chunkSize, it, from>>
    BY <1>8 DEF SolveBox, WriteFields, injectionVars
  <2>2. /\ dump'.position = dump.position /\ dump'.momentum = dump.momentum /\ dump'.time = dump.time
    <3>1. \E f : dump' = dump \/ dump' = [dump EXCEPT !.field = f]
      BY <1>8 DEF SolveBox, WriteFields
    <3> QED
      BY <3>1 DEF PositionsOK
  <2>3. NBoxes' = NBoxes /\ Lost' = Lost
    BY <1>0 DEF Lost, NBoxes, NProcs
  <2>4. DumpBegun' <=> DumpBegun
    BY <2>1 DEF DumpBegun
  <2>5. \A p \in Particles : InDump(p) => InDump(p)'
    BY <2>1, <2>3 DEF InDump
  <2> QED
    BY <2>1, <2>2, <2>4, <2>5, RowsStay DEF InStep
<1>9. CASE Notify
  <2>1. /\ pc = "notify"
        /\ UNCHANGED <<conf, tile, total, step, file, chunkOffset, chunkSize, dump, from>>
        /\ IF it > 0 THEN it' = it - 1 /\ pc' = "wait" ELSE it' = it /\ pc' = "end"
    BY <1>9 DEF Notify, injectionVars
  <2>2. /\ file = {} /\ NBoxes' = NBoxes /\ Lost' = Lost /\ it \in 0 .. NBoxes - 1 /\ NBoxes \in Nat \ {0}
    BY <1>0, <2>1, NoneOutside, Pushes DEF Lost, NBoxes, NProcs, InStep
  <2>3. ParticleTypes
    BY <2>1, <2>2 DEF PlacesOK, InStep
  <2>4. DumpBegun' <=> DumpBegun
    BY <2>1, <2>2 DEF DumpBegun
  <2>5. \A p \in Particles : InDump(p) => InDump(p)'
    <3> SUFFICES ASSUME NEW p \in Particles, InDump(p) PROVE InDump(p)'
      OBVIOUS
    <3>1. from[p] \in 0 .. Lost /\ from[p] # Lost /\ from[p] >= it /\ Lost \in Int
      BY <2>2, <2>3, Pushes DEF InDump, ParticleTypes
    <3> QED
      BY <2>1, <2>2, <3>1 DEF InDump
  <2>6. pc' \in InStep
    BY <2>1 DEF InStep
  <2> QED
    BY <2>1, <2>4, <2>5, RowsStay DEF InStep
<1>10. CASE EndStep
  BY <1>1, <1>10 DEF EndStep, InStep
<1>11. CASE Restart
  <2>1. pc' = "inject" /\ UNCHANGED <<chunkOffset, chunkSize, dump>>
    BY <1>11 DEF Restart, writerVars
  <2> QED
    BY <1>1, <2>1 DEF InStep
<1>12. CASE Done \/ UNCHANGED vars
  <2>1. UNCHANGED <<conf, tile, total, step, file, chunkOffset, chunkSize, dump, it, from, pc>>
    BY <1>12 DEF Done, vars, injectionVars, writerVars
  <2>2. NBoxes' = NBoxes /\ Lost' = Lost
    BY <1>0 DEF Lost, NBoxes, NProcs
  <2>3. DumpBegun' <=> DumpBegun
    BY <2>1, <2>2 DEF DumpBegun
  <2>4. \A p \in Particles : InDump(p) => InDump(p)'
    BY <2>1, <2>2 DEF InDump
  <2>5. CASE pc \in InStep
    BY <2>1, <2>3, <2>4, <2>5, RowsStay
  <2>6. CASE pc \notin InStep
    BY <1>1, <2>1, <2>6
  <2> QED
    BY <2>5, <2>6
<1> QED
  BY <1>2, <1>3, <1>4, <1>5, <1>6, <1>7, <1>8, <1>9, <1>10, <1>11, <1>12 DEF Next

\* What is known of the beams and their dump in every state.
BeamsOK == Control /\ InjectionOK /\ PositionsOK /\ PlacesOK /\ TimeOK /\ DumpOK /\ RowsOK

LEMMA BeamsAlways == WithMPI => (Spec => []BeamsOK)
<1> SUFFICES ASSUME WithMPI PROVE Spec => []BeamsOK
  OBVIOUS
<1>1. WriterInit => BeamsOK
  <2> SUFFICES ASSUME WriterInit PROVE BeamsOK
    OBVIOUS
  <2>1. InjectionInit /\ pc \in {"inject", "injected"} /\ file = {}
    BY DEF WriterInit, InjectionInit
  <2>2. TimeOK /\ RowsOK
    BY <2>1 DEF TimeOK, RowsOK, InStep
  <2> QED
    BY <2>1, <2>2, InitControl, InitInjection, InitPositions, InitPlaces, InitDump DEF BeamsOK
<1>2. BeamsOK /\ [Next]_vars => BeamsOK'
  BY NextControl, NextInjection, NextPositions, NextPlaces, NextTime, NextRows DEF BeamsOK
<1> QED
  BY <1>1, <1>2, PTL DEF Spec

\* When a time step is dumped, the rows of every beam and the time of the
\* iteration are of this time step (Hipace.cpp:416, setTime).
THEOREM DumpIsOfOneTime == WithMPI => (Spec => []DumpOfOneTime)
<1>1. BeamsOK => DumpOfOneTime
  <2> SUFFICES ASSUME BeamsOK, Dumped, NEW b \in conf.dumped, NEW k \in RowsOf(dump.position[b])
               PROVE  /\ dump.position[b][k][2] = step
                      /\ dump.time = initialTime + dump.position[b][k][2]
                      /\ dump.momentum[b][k] = dump.position[b][k]
    BY DEF DumpOfOneTime
  <2>1. pc = "end" /\ IsOutputStep(step) /\ pc \in InStep /\ file = {}
    BY NoneOutside DEF Dumped, InStep, BeamsOK
  <2>2. initialTime = 0 /\ step \in Nat
    BY <2>1, NoneOutside, TotalsAre DEF BeamsOK
  <2>3. DumpBegun
    BY <2>1 DEF DumpBegun
  <2>4. /\ dump.momentum[b] = dump.position[b] /\ dump.time = step
        /\ \E n \in DOMAIN tile[b] : dump.position[b][k] = <<n, step>>
    BY <2>1, <2>3 DEF BeamsOK, RowsOK
  <2> QED
    BY <2>2, <2>4
<1> QED
  BY <1>1, BeamsAlways, PTL

-----------------------------------------------------------------------------
(* Slots                                                                   *)

\* No random position is drawn where one kernel may accept it and the other
\* not: the layers of randomly spaced beams are all dense enough.
OneDraw ==
    \A c \in Simulations : \A beams \in {c.beams, c.restart} : \A b \in DOMAIN beams :
        beams[b].injection = "fixed_ppc" /\ beams[b].random => beams[b].thin = {}

\* A number with a digit less than c is not one with others.
LEMMA DigitsDiffer ==
    \A c \in Nat \ {0} : \A q, p \in Int : \A r, s \in 0 .. c - 1 :
        q * c + r = p * c + s => q = p /\ r = s
<1> SUFFICES ASSUME NEW c \in Nat \ {0}, NEW q \in Int, NEW p \in Int,
                    NEW r \in 0 .. c - 1, NEW s \in 0 .. c - 1, q * c + r = p * c + s
             PROVE  q = p /\ r = s
  OBVIOUS
<1>1. (c * q + r) \div c = q /\ (c * p + s) \div c = p
  BY QuotientIs
<1>2. c * q + r = c * p + s
  <2>1. c * q = q * c /\ c * p = p * c
    OBVIOUS
  <2> QED
    BY <2>1
<1>3. q = p
  BY <1>1, <1>2
<1>4. c * q \in Int
  OBVIOUS
<1> QED
  BY <1>2, <1>3, <1>4

LEMMA CellsDiffer ==
    ASSUME NEW sp \in FixedPPC
    PROVE  /\ \A c \in CellsOf(sp) : CellId(sp, c) \in Nat
           /\ \A c, d \in CellsOf(sp) : CellId(sp, c) = CellId(sp, d) => c = d
           /\ \E c \in CellsOf(sp) : CellId(sp, c) = 0
<1> DEFINE n == CoarseCells(sp)
<1>1. n[1] \in Nat \ {0} /\ n[2] \in Nat \ {0} /\ n[3] \in Nat \ {0}
  BY CoarseNumbers
<1>2. /\ CellsOf(sp) = (0 .. n[1] - 1) \X (0 .. n[2] - 1) \X (0 .. n[3] - 1)
      /\ \A c : CellId(sp, c) = (c[1] * n[2] + c[2]) * n[3] + c[3]
  BY DEF CellsOf, CellId
<1> HIDE DEF n
<1>3. \A c \in CellsOf(sp) : c[1] \in 0 .. n[1] - 1 /\ c[2] \in 0 .. n[2] - 1 /\ c[3] \in 0 .. n[3] - 1
  BY <1>2
<1>4. \A a, b, m, r \in Nat : (a * b + m) \in Nat /\ (a * b + m) * r \in Nat
  BY SMT
<1>5. \A c \in CellsOf(sp) : c[1] * n[2] + c[2] \in Nat /\ CellId(sp, c) \in Nat
  <2> SUFFICES ASSUME NEW c \in CellsOf(sp)
               PROVE  c[1] * n[2] + c[2] \in Nat /\ CellId(sp, c) \in Nat
    OBVIOUS
  <2>1. c[1] \in Nat /\ c[2] \in Nat /\ c[3] \in Nat /\ n[2] \in Nat /\ n[3] \in Nat
    BY <1>1, <1>3
  <2>2. c[1] * n[2] + c[2] \in Nat /\ (c[1] * n[2] + c[2]) * n[3] \in Nat
    BY <1>4, <2>1
  <2> QED
    BY <1>2, <2>1, <2>2
<1>6. \A c, d \in CellsOf(sp) : CellId(sp, c) = CellId(sp, d) => c = d
  <2> SUFFICES ASSUME NEW c \in CellsOf(sp), NEW d \in CellsOf(sp), CellId(sp, c) = CellId(sp, d)
               PROVE  c = d
    OBVIOUS
  <2> DEFINE x == c[1] * n[2] + c[2]
             y == d[1] * n[2] + d[2]
  <2>1. x \in Int /\ y \in Int /\ x * n[3] + c[3] = y * n[3] + d[3]
    BY <1>2, <1>5
  <2>2. x = y /\ c[3] = d[3]
    <3> HIDE DEF x, y
    <3>1. n[3] \in Nat \ {0} /\ c[3] \in 0 .. n[3] - 1 /\ d[3] \in 0 .. n[3] - 1
      BY <1>1, <1>3
    <3>2. \A q, p \in Int : \A r, s \in 0 .. n[3] - 1 :
              q * n[3] + r = p * n[3] + s => q = p /\ r = s
      BY <3>1, DigitsDiffer
    <3>3. x \in Int /\ y \in Int
      BY <2>1
    <3>4. \A r, s \in 0 .. n[3] - 1 : x * n[3] + r = y * n[3] + s => x = y /\ r = s
      BY <3>2, <3>3, Zenon
    <3> QED
      BY <3>1, <3>4, <2>1, Zenon
  <2>3. c[1] \in Int /\ d[1] \in Int
    BY <1>1, <1>3
  <2>4. c[1] = d[1] /\ c[2] = d[2]
    <3>1. n[2] \in Nat \ {0} /\ c[2] \in 0 .. n[2] - 1 /\ d[2] \in 0 .. n[2] - 1
      BY <1>1, <1>3
    <3>2. \A q, p \in Int : \A r, s \in 0 .. n[2] - 1 :
              q * n[2] + r = p * n[2] + s => q = p /\ r = s
      BY <3>1, DigitsDiffer
    <3>3. \A r, s \in 0 .. n[2] - 1 :
              c[1] * n[2] + r = d[1] * n[2] + s => c[1] = d[1] /\ r = s
      BY <3>2, <2>3, Zenon
    <3> QED
      BY <3>1, <3>3, <2>2, Zenon
  <2>5. c = <<c[1], c[2], c[3]>> /\ d = <<d[1], d[2], d[3]>>
    BY <1>2
  <2> QED
    BY <2>2, <2>4, <2>5
<1>7. <<0, 0, 0>> \in CellsOf(sp) /\ CellId(sp, <<0, 0, 0>>) = 0
  BY <1>1, <1>2
<1> QED
  BY <1>5, <1>6, <1>7

-----------------------------------------------------------------------------
(* Ranks                                                                   *)

\* An order of the elements: their ranks are the numbers from 0 on.
LEMMA RanksAre ==
    ASSUME NEW A, IsFiniteSet(A), NEW rank, NEW before,
           \A p \in A : before[p] \subseteq A /\ p \notin before[p] /\ rank[p] = Cardinality(before[p]),
           \A p, q \in A : p # q => p \in before[q] \/ q \in before[p],
           \A p, q \in A : p \in before[q] => before[p] \subseteq before[q]
    PROVE  /\ \A p \in A : rank[p] \in 0 .. Cardinality(A) - 1
           /\ \A p, q \in A : rank[p] = rank[q] => p = q
           /\ \A k \in 0 .. Cardinality(A) - 1 : \E p \in A : rank[p] = k
<1> DEFINE n == Cardinality(A)
<1>1. n \in Nat
  BY FS_CardinalityType
<1>2. \A p \in A : IsFiniteSet(before[p]) /\ rank[p] \in Nat
  BY FS_Subset, FS_CardinalityType
<1>3. \A p \in A : rank[p] <= n - 1
  <2> SUFFICES ASSUME NEW p \in A PROVE rank[p] <= n - 1
    OBVIOUS
  <2>1. before[p] \subseteq A \ {p} /\ IsFiniteSet(A \ {p})
    BY FS_Subset
  <2>2. Cardinality(before[p]) <= Cardinality(A \ {p})
    BY <2>1, FS_Subset
  <2>3. Cardinality(A \ {p}) = n - 1
    BY FS_RemoveElement
  <2> QED
    BY <2>2, <2>3
<1>4. \A p, q \in A : p \in before[q] => rank[p] < rank[q]
  <2> SUFFICES ASSUME NEW p \in A, NEW q \in A, p \in before[q] PROVE rank[p] < rank[q]
    OBVIOUS
  <2>1. before[p] \subseteq before[q] \ {p} /\ IsFiniteSet(before[q] \ {p}) /\ IsFiniteSet(before[q])
    BY <1>2, FS_Subset
  <2>2. Cardinality(before[p]) <= Cardinality(before[q] \ {p})
    BY <2>1, FS_Subset
  <2>3. Cardinality(before[q] \ {p}) = Cardinality(before[q]) - 1
    BY <2>1, FS_RemoveElement
  <2> QED
    BY <1>2, <2>2, <2>3
<1>5. \A p, q \in A : rank[p] = rank[q] => p = q
  BY <1>2, <1>4
<1>6. \A p \in A : rank[p] \in 0 .. n - 1
  BY <1>1, <1>2, <1>3
<1>7. \A k \in 0 .. n - 1 : \E p \in A : rank[p] = k
  <2> DEFINE S == 0 .. n - 1
             o == [p \in A |-> rank[p]]
  <2>1. IsFiniteSet(S) /\ Cardinality(S) = n
    <3> HIDE DEF n
    <3>1. 0 \in Int /\ n - 1 \in Int
      BY <1>1
    <3>2. IsFiniteSet(0 .. n - 1) /\ Cardinality(0 .. n - 1) = IF n - 1 < 0 THEN 0 ELSE (n - 1) - 0 + 1
      BY <3>1, FS_Interval
    <3> QED
      BY <1>1, <3>2
  <2>2. o \in Injection(A, S)
    BY <1>5, <1>6 DEF Injection, IsInjective
  <2> HIDE DEF S, o
  <2>3. o \in Surjection(A, S)
    BY <2>1, <2>2, FS_Injection
  <2> QED
    BY <2>3 DEF Surjection, S, o
<1> QED
  BY <1>5, <1>6, <1>7

-----------------------------------------------------------------------------
(* Writes                                                                  *)

\* Each of n slots is written by one of the writes, and no other slot.
EachSlotOnce(W, n) ==
    /\ \A w \in W : w[1] \in 0 .. n - 1
    /\ \A k \in 0 .. n - 1 : \E w \in W : \A v \in W : v[1] = k <=> v = w

WrittenOnce(slots) ==
    \A k \in DOMAIN slots : Cardinality(slots[k].written) = 1 /\ slots[k].id > 0

LEMMA AddedOnce ==
    ASSUME NEW n \in Nat, NEW slots, HasRows(slots, n), NEW pid \in Nat \ {0},
           NEW W, EachSlotOnce(W, n)
    PROVE  WrittenOnce(AddBeamParticles(slots, pid, W))
<1> DEFINE new == AddBeamParticles(slots, pid, W)
<1>1. DOMAIN slots = 1 .. n
  BY DEF HasRows
<1>2. DOMAIN new = 1 .. n
  BY <1>1 DEF AddBeamParticles
<1>3. \A k \in 1 .. n : Cardinality(new[k].written) = 1 /\ new[k].id = pid + k - 1
  <2> SUFFICES ASSUME NEW k \in 1 .. n
               PROVE  Cardinality(new[k].written) = 1 /\ new[k].id = pid + k - 1
    OBVIOUS
  <2> DEFINE V == {w \in W : w[1] = k - 1}
  <2>1. k - 1 \in 0 .. n - 1
    OBVIOUS
  <2>2. PICK w \in W : \A v \in W : v[1] = k - 1 <=> v = w
    BY <2>1 DEF EachSlotOnce
  <2>3. V = {w}
    BY <2>2
  <2>4. new[k] = [id |-> pid + k - 1, written |-> {v[2] : v \in V}]
    BY <1>1, <2>3 DEF AddBeamParticles
  <2>5. {v[2] : v \in V} = {w[2]}
    BY <2>3
  <2>6. Cardinality({w[2]}) = 1
    BY FS_Singleton
  <2>7. new[k] = [id |-> pid + k - 1, written |-> {w[2]}]
    BY <2>4, <2>5
  <2> HIDE DEF new, V
  <2> QED
    BY <2>6, <2>7
<1>4. \A k \in 1 .. n : pid + k - 1 > 0
  OBVIOUS
<1> HIDE DEF new
<1>5. WrittenOnce(new)
  BY <1>2, <1>3, <1>4 DEF WrittenOnce
<1> QED
  BY <1>5 DEF new

\* A number of particles: all images of all particles.
Images(sp) == IF sp.symmetrize THEN 4 ELSE 1

WeightedWrites(sp, num) ==
    {<<SymmetrizedSlot(sp, i, j), <<i, j>>>> : i \in 0 .. num - 1, j \in 0 .. Images(sp) - 1}

LEMMA WeightedOnce ==
    ASSUME NEW sp, NEW num \in Nat
    PROVE  EachSlotOnce(WeightedWrites(sp, num), Images(sp) * num)
<1> DEFINE images == Images(sp)
<1>0. images = IF sp.symmetrize THEN 4 ELSE 1
  BY DEF Images
<1> HIDE DEF images
<1> DEFINE W == {<<SymmetrizedSlot(sp, i, j), <<i, j>>>> :
                    i \in 0 .. num - 1, j \in 0 .. images - 1}
           n == images * num
<1>1. images \in {1, 4} /\ n \in Nat
  BY <1>0
<1>2. \A i \in 0 .. num - 1, j \in 0 .. images - 1 : SymmetrizedSlot(sp, i, j) = images * i + j
  BY <1>0 DEF SymmetrizedSlot
<1>3. \A i \in 0 .. num - 1, j \in 0 .. images - 1 : images * i + j \in 0 .. n - 1
  BY <1>1
<1>4. \A w \in W : w[1] \in 0 .. n - 1
  BY <1>2, <1>3
<1> HIDE DEF n, W
<1>5. \A k \in 0 .. n - 1 : \E w \in W : \A v \in W : v[1] = k <=> v = w
  <2> SUFFICES ASSUME NEW k \in 0 .. n - 1
               PROVE  \E w \in W : \A v \in W : v[1] = k <=> v = w
    OBVIOUS
  <2> USE DEF n, W
  <2> DEFINE i == k \div images
             j == k % images
  <2>1. i \in 0 .. num - 1 /\ j \in 0 .. images - 1 /\ images * i + j = k
    BY <1>1
  <2> HIDE DEF i, j
  <2> DEFINE w == <<k, <<i, j>>>>
  <2>2. w \in W
    BY <1>2, <2>1
  <2>3. \A a \in 0 .. num - 1, b \in 0 .. images - 1 : images * a + b = k => a = i /\ b = j
    BY <1>1, <2>1
  <2>4. \A v \in W : v[1] = k => v = w
    <3> SUFFICES ASSUME NEW a \in 0 .. num - 1, NEW b \in 0 .. images - 1,
                        SymmetrizedSlot(sp, a, b) = k
                 PROVE  <<SymmetrizedSlot(sp, a, b), <<a, b>>>> = w
      OBVIOUS
    <3>1. a = i /\ b = j
      BY <1>2, <2>3
    <3> QED
      BY <3>1
  <2>5. w[1] = k
    OBVIOUS
  <2> HIDE DEF w, W
  <2> QED
    BY <2>2, <2>4, <2>5
<1>6. EachSlotOnce(W, n)
  BY <1>4, <1>5 DEF EachSlotOnce
<1> QED
  BY <1>6 DEF n, W, WeightedWrites, images

\* The rows of a file.
LEMMA ReadOnce ==
    ASSUME NEW n \in Nat, NEW rows, HasRows(rows, n)
    PROVE  EachSlotOnce({<<k - 1, rows[k]>> : k \in DOMAIN rows}, n)
<1> DEFINE W == {<<k - 1, rows[k]>> : k \in DOMAIN rows}
<1>1. DOMAIN rows = 1 .. n
  BY DEF HasRows
<1>2. \A w \in W : w[1] \in 0 .. n - 1
  BY <1>1
<1>3. \A k \in 0 .. n - 1 : \E w \in W : \A v \in W : v[1] = k <=> v = w
  <2> SUFFICES ASSUME NEW k \in 0 .. n - 1
               PROVE  \E w \in W : \A v \in W : v[1] = k <=> v = w
    OBVIOUS
  <2> DEFINE w == <<k, rows[k + 1]>>
  <2>1. k + 1 \in 1 .. n /\ (k + 1) - 1 = k
    OBVIOUS
  <2>2. w \in W
    BY <1>1, <2>1
  <2>3. \A v \in W : v[1] = k => v = w
    <3> SUFFICES ASSUME NEW m \in 1 .. n, m - 1 = k
                 PROVE  <<m - 1, rows[m]>> = w
      BY <1>1
    <3>1. m = k + 1
      OBVIOUS
    <3> QED
      BY <3>1
  <2>4. w[1] = k
    OBVIOUS
  <2> HIDE DEF w, W
  <2> QED
    BY <2>2, <2>3, <2>4
<1> QED
  BY <1>2, <1>3 DEF EachSlotOnce

-----------------------------------------------------------------------------
(* The lattice                                                             *)

\* The accepted particles before one, in the order of the second kernel.
LowerCells(sp, A, p) == {q \in A : CellId(sp, q[1]) < CellId(sp, p[1])}

SameCell(A, p) == {q \in A : q[1] = p[1] /\ q[2] < p[2]}

Earlier(sp, A) == [p \in A |-> LowerCells(sp, A, p) \union SameCell(A, p)]

LEMMA AcceptedAre ==
    ASSUME NEW sp \in FixedPPC, NEW A \in Accepted(sp)
    PROVE  \A p \in A : /\ p[1] \in CellsOf(sp) /\ p[2] \in Nat /\ p = <<p[1], p[2]>>
                        /\ CellId(sp, p[1]) \in Nat
<1>1. A \subseteq Candidates(sp)
  BY CandidatesAreFinite
<1>2. NumPPC(sp) - 1 \in Int
  BY CoarseNumbers
<1>3. \A p \in Candidates(sp) : p[1] \in CellsOf(sp) /\ p[2] \in Nat /\ p = <<p[1], p[2]>>
  <2> DEFINE C == CellsOf(sp)
             m == NumPPC(sp) - 1
  <2>1. \A p \in Candidates(sp) : p \in C \X (0 .. m)
    BY DEF Candidates
  <2> HIDE DEF C, m
  <2>2. \A p \in C \X (0 .. m) : p[1] \in C /\ p[2] \in 0 .. m /\ p = <<p[1], p[2]>>
    OBVIOUS
  <2>3. \A i \in 0 .. m : i \in Nat
    BY <1>2 DEF m
  <2> QED
    BY <2>1, <2>2, <2>3 DEF C
<1> QED
  BY <1>1, <1>3, CellsDiffer

\* The offset of a cell is the number of particles in the cells before.
LEMMA OffsetsAre ==
    ASSUME NEW sp \in FixedPPC, NEW A \in Accepted(sp)
    PROVE  /\ SumFunction(Counts(sp, A)) = Cardinality(A)
           /\ ExclusiveSum(Counts(sp, A))[0] = 0
           /\ \A p \in A : ExclusiveSum(Counts(sp, A))[CellId(sp, p[1])]
                               = Cardinality(LowerCells(sp, A, p))
<1> DEFINE K == {CellId(sp, c) : c \in CellsOf(sp)}
           key == [p \in A |-> CellId(sp, p[1])]
           number == Counts(sp, A)
           sums == ExclusiveSum(number)
<1>1. IsFiniteSet(K) /\ IsFiniteSet(A)
  BY CandidatesAreFinite
<1>2. K \subseteq Nat /\ 0 \in K
  BY CellsDiffer
<1>3. \A p \in A : key[p] = CellId(sp, p[1]) /\ key[p] \in K
  BY AcceptedAre
<1>4. DOMAIN number = K /\ \A id \in K : number[id] = Cardinality({p \in A : CellId(sp, p[1]) = id})
  BY DEF Counts
<1>5. \A id \in K : number[id] = Cardinality({p \in A : key[p] = id})
  <2> SUFFICES ASSUME NEW id \in K
               PROVE  {p \in A : CellId(sp, p[1]) = id} = {p \in A : key[p] = id}
    BY <1>4
  <2> QED
    BY <1>3
<1>6. \A id \in K : sums[id] = SumFunctionOnSet(number, {d \in K : d < id})
  BY <1>4 DEF ExclusiveSum
<1>7. SumFunction(number) = SumFunctionOnSet(number, K)
  BY <1>4 DEF SumFunction
<1> HIDE DEF K, key, number, sums
<1>8. \A s \in SUBSET K : SumFunctionOnSet(number, s) = Cardinality(WithKeys(A, key, s))
  <2> SUFFICES ASSUME NEW s \in SUBSET K
               PROVE  SumFunctionOnSet(number, s) = Cardinality(WithKeys(A, key, s))
    OBVIOUS
  <2>1. AreCounts(number, A, key, s)
    BY <1>5 DEF AreCounts
  <2>2. IsFiniteSet(s)
    BY <1>1, FS_Subset
  <2> QED
    BY <1>1, <2>1, <2>2, CountsOfKeys
<1>9. SumFunction(number) = Cardinality(A)
  <2>1. WithKeys(A, key, K) = A
    BY <1>3 DEF WithKeys
  <2> QED
    BY <1>7, <1>8, <2>1
<1>10. sums[0] = 0
  <2>1. \A d \in K : ~(d < 0)
    BY <1>2
  <2>2. {d \in K : d < 0} = {}
    BY <2>1, Zenon
  <2> QED
    BY <1>2, <1>6, <2>2, SumEmpty
<1>11. \A p \in A : sums[key[p]] = Cardinality(LowerCells(sp, A, p))
  <2> SUFFICES ASSUME NEW p \in A PROVE sums[key[p]] = Cardinality(LowerCells(sp, A, p))
    OBVIOUS
  <2> DEFINE s == {d \in K : d < key[p]}
  <2>1. sums[key[p]] = Cardinality(WithKeys(A, key, s))
    BY <1>3, <1>6, <1>8
  <2>2. WithKeys(A, key, s) = LowerCells(sp, A, p)
    BY <1>3 DEF WithKeys, LowerCells
  <2> QED
    BY <2>1, <2>2
<1>12. \A p \in A : sums[CellId(sp, p[1])] = Cardinality(LowerCells(sp, A, p))
  BY <1>3, <1>11
<1> QED
  BY <1>9, <1>10, <1>12 DEF number, sums

\* The second kernel writes the slots that the first one has counted.
LEMMA LatticeOnce ==
    ASSUME NEW sp \in FixedPPC, NEW A \in Accepted(sp), offsets = ExclusiveSum(Counts(sp, A))
    PROVE  EachSlotOnce(Writes(sp, A), SumFunction(Counts(sp, A)))
<1> DEFINE n == SumFunction(Counts(sp, A))
           before == Earlier(sp, A)
           rank == [p \in A |-> Cardinality(before[p])]
           what == [p \in A |-> IF sp.random THEN p[1] ELSE LatticePoint(sp, p[1], p[2])]
<1>1. IsFiniteSet(A) /\ n = Cardinality(A)
  BY CandidatesAreFinite, OffsetsAre
<1>2. \A p \in A : before[p] = LowerCells(sp, A, p) \union SameCell(A, p)
  BY DEF Earlier
<1>3. \A p \in A : rank[p] = Cardinality(before[p])
  OBVIOUS
<1>4. \A p \in A : what[p] = IF sp.random THEN p[1] ELSE LatticePoint(sp, p[1], p[2])
  OBVIOUS
<1> HIDE DEF before, rank, n, what
<1>5. \A p \in A : rank[p] = Cardinality(LowerCells(sp, A, p)) + Cardinality(SameCell(A, p))
  <2> SUFFICES ASSUME NEW p \in A
               PROVE  rank[p] = Cardinality(LowerCells(sp, A, p)) + Cardinality(SameCell(A, p))
    OBVIOUS
  <2>1. IsFiniteSet(LowerCells(sp, A, p)) /\ IsFiniteSet(SameCell(A, p))
    <3>1. LowerCells(sp, A, p) \subseteq A /\ SameCell(A, p) \subseteq A
      BY DEF LowerCells, SameCell
    <3> QED
      BY <1>1, <3>1, FS_Subset
  <2>2. LowerCells(sp, A, p) \intersect SameCell(A, p) = {}
    BY AcceptedAre DEF LowerCells, SameCell
  <2>3. Cardinality(LowerCells(sp, A, p) \union SameCell(A, p))
            = Cardinality(LowerCells(sp, A, p)) + Cardinality(SameCell(A, p)) - Cardinality({})
    BY <2>1, <2>2, FS_Union
  <2>4. Cardinality({}) = 0
    BY FS_EmptySet
  <2>5. Cardinality(LowerCells(sp, A, p)) \in Nat /\ Cardinality(SameCell(A, p)) \in Nat
    BY <2>1, FS_CardinalityType
  <2>6. rank[p] = Cardinality(LowerCells(sp, A, p) \union SameCell(A, p))
    BY <1>2, <1>3, Zenon
  <2>7. Cardinality(LowerCells(sp, A, p) \union SameCell(A, p))
            = Cardinality(LowerCells(sp, A, p)) + Cardinality(SameCell(A, p)) - 0
    BY <2>3, <2>4, Zenon
  <2> QED
    BY <2>5, <2>6, <2>7
<1>6. \A p \in A : before[p] \subseteq A /\ p \notin before[p]
  BY <1>2, AcceptedAre DEF LowerCells, SameCell
<1>7. \A p, q \in A : p # q => p \in before[q] \/ q \in before[p]
  <2> SUFFICES ASSUME NEW p \in A, NEW q \in A, p # q PROVE p \in before[q] \/ q \in before[p]
    OBVIOUS
  <2>1. /\ p[1] \in CellsOf(sp) /\ q[1] \in CellsOf(sp) /\ p[2] \in Nat /\ q[2] \in Nat
        /\ CellId(sp, p[1]) \in Nat /\ CellId(sp, q[1]) \in Nat
        /\ p = <<p[1], p[2]>> /\ q = <<q[1], q[2]>>
    BY AcceptedAre
  <2>2. CellId(sp, p[1]) < CellId(sp, q[1]) => p \in before[q]
    BY <1>2 DEF LowerCells
  <2>3. CellId(sp, q[1]) < CellId(sp, p[1]) => q \in before[p]
    BY <1>2 DEF LowerCells
  <2>4. ASSUME CellId(sp, p[1]) = CellId(sp, q[1]) PROVE p \in before[q] \/ q \in before[p]
    <3>1. p[1] = q[1]
      BY <2>1, <2>4, CellsDiffer
    <3>2. p[2] # q[2]
      BY <2>1, <3>1
    <3>3. p[2] < q[2] \/ q[2] < p[2]
      BY <2>1, <3>2
    <3>4. p[2] < q[2] => p \in SameCell(A, q)
      BY <3>1 DEF SameCell
    <3>5. q[2] < p[2] => q \in SameCell(A, p)
      BY <3>1 DEF SameCell
    <3> QED
      BY <1>2, <3>3, <3>4, <3>5
  <2>5. \/ CellId(sp, p[1]) < CellId(sp, q[1]) \/ CellId(sp, q[1]) < CellId(sp, p[1])
        \/ CellId(sp, p[1]) = CellId(sp, q[1])
    BY <2>1
  <2> QED
    BY <2>2, <2>3, <2>4, <2>5
<1>8. \A p, q \in A : p \in before[q] => before[p] \subseteq before[q]
  <2> SUFFICES ASSUME NEW p \in A, NEW q \in A, p \in before[q], NEW r \in before[p]
               PROVE  r \in before[q]
    OBVIOUS
  <2>1. r \in A /\ (r \in LowerCells(sp, A, p) \/ r \in SameCell(A, p))
    BY <1>2, <1>6
  <2>2. p \in LowerCells(sp, A, q) \/ p \in SameCell(A, q)
    BY <1>2
  <2>3. /\ r[2] \in Nat /\ p[2] \in Nat /\ q[2] \in Nat
        /\ CellId(sp, r[1]) \in Nat /\ CellId(sp, p[1]) \in Nat /\ CellId(sp, q[1]) \in Nat
    BY <2>1, AcceptedAre
  <2>4. r \in LowerCells(sp, A, q) \/ r \in SameCell(A, q)
    BY <2>1, <2>2, <2>3 DEF LowerCells, SameCell
  <2> QED
    BY <1>2, <2>4
<1>9. /\ \A p \in A : rank[p] \in 0 .. n - 1
      /\ \A p, q \in A : rank[p] = rank[q] => p = q
      /\ \A k \in 0 .. n - 1 : \E p \in A : rank[p] = k
  BY <1>1, <1>3, <1>6, <1>7, <1>8, RanksAre
<1>10. Writes(sp, A) = {<<rank[p], what[p]>> : p \in A}
  <2>1. \A p \in A : /\ offsets[CellId(sp, p[1])] = Cardinality(LowerCells(sp, A, p))
                     /\ offsets[0] = 0
    BY OffsetsAre
  <2>2. \A p \in A : Cardinality(LowerCells(sp, A, p)) \in Nat /\ Cardinality(SameCell(A, p)) \in Nat
    <3>1. \A p \in A : LowerCells(sp, A, p) \subseteq A /\ SameCell(A, p) \subseteq A
      BY DEF LowerCells, SameCell
    <3> QED
      BY <1>1, <3>1, FS_Subset, FS_CardinalityType
  <2>3. \A p \in A : offsets[CellId(sp, p[1])] - offsets[0]
                         + Cardinality({q \in A : q[1] = p[1] /\ q[2] < p[2]}) = rank[p]
    BY <1>5, <2>1, <2>2 DEF SameCell
  <2>4. \A p \in A : <<offsets[CellId(sp, p[1])] - offsets[0]
                           + Cardinality({q \in A : q[1] = p[1] /\ q[2] < p[2]}),
                       IF sp.random THEN p[1] ELSE LatticePoint(sp, p[1], p[2])>>
                     = <<rank[p], what[p]>>
    BY <1>4, <2>3
  <2> DEFINE written(p) == <<offsets[CellId(sp, p[1])] - offsets[0]
                                 + Cardinality({q \in A : q[1] = p[1] /\ q[2] < p[2]}),
                             IF sp.random THEN p[1] ELSE LatticePoint(sp, p[1], p[2])>>
  <2>5. Writes(sp, A) = {written(p) : p \in A}
    BY DEF Writes
  <2>6. \A p \in A : written(p) = <<rank[p], what[p]>>
    BY <2>4
  <2> HIDE DEF written
  <2> QED
    BY <2>5, <2>6
<1>11. \A k \in 0 .. n - 1 : \E w \in Writes(sp, A) : \A v \in Writes(sp, A) : v[1] = k <=> v = w
  <2> SUFFICES ASSUME NEW k \in 0 .. n - 1
               PROVE  \E w \in Writes(sp, A) : \A v \in Writes(sp, A) : v[1] = k <=> v = w
    OBVIOUS
  <2>1. PICK p \in A : rank[p] = k
    BY <1>9
  <2> DEFINE w == <<rank[p], what[p]>>
  <2>2. w \in Writes(sp, A)
    BY <1>10
  <2>3. \A q \in A : rank[q] = k => q = p
    BY <1>9, <2>1
  <2>4. \A v \in Writes(sp, A) : v[1] = k => v = w
    BY <1>10, <2>3
  <2>5. w[1] = k
    BY <2>1
  <2> HIDE DEF w
  <2> QED
    BY <2>2, <2>4, <2>5
<1>12. \A w \in Writes(sp, A) : w[1] \in 0 .. n - 1
  BY <1>9, <1>10
<1>13. EachSlotOnce(Writes(sp, A), n)
  BY <1>11, <1>12 DEF EachSlotOnce
<1> QED
  BY <1>13 DEF n

SlotsOK == SlotsWrittenOnce /\ nextID \in Nat \ {0}

LEMMA OneAccepted ==
    ASSUME OneDraw, Control, InjectionOK, ibeam <= Len(species), Beam.injection = "fixed_ppc",
           NEW A \in Accepted(Beam), NEW B \in Accepted(Beam)
    PROVE  A = B
<1>1. species \in Seq(BeamParameters) /\ ibeam \in 1 .. Len(species)
  BY BeamIs
<1>2. ibeam \in DOMAIN species
  BY <1>1
<1>3. species \in {conf.beams, conf.restart} /\ conf \in Simulations
  BY DEF InjectionOK, Control
<1>4. Beam.random => Beam.thin = {}
  BY <1>2, <1>3 DEF OneDraw, Beam
<1> DEFINE Thin == {p \in Candidates(Beam) : p[1][3] \in Beam.thin}
<1>5. Beam.random => Thin = {}
  BY <1>4
<1>6. Accepted(Beam) = IF Beam.random THEN {Candidates(Beam) \ T : T \in SUBSET Thin}
                                      ELSE {Candidates(Beam) \ Thin}
  BY DEF Accepted
<1> HIDE DEF Thin
<1>7. CASE Beam.random
  <2>1. Accepted(Beam) = {Candidates(Beam) \ T : T \in SUBSET Thin} /\ Thin = {}
    BY <1>5, <1>6, <1>7, Zenon
  <2> QED
    BY <2>1
<1>8. CASE ~Beam.random
  <2>1. Accepted(Beam) = {Candidates(Beam) \ Thin}
    BY <1>6, <1>8, Zenon
  <2> QED
    BY <2>1
<1> QED
  BY <1>7, <1>8

LEMMA BeamWrittenOnce ==
    ASSUME Control, InjectionOK, SlotsWrittenOnce, pc \in {"inject", "fill"},
           NEW slots, WrittenOnce(slots), NEW ptime, BeamDone(slots, ptime), outside' = {}
    PROVE  SlotsWrittenOnce'
<1>1. /\ tile'[ibeam] = slots /\ \A b \in 1 .. ibeam - 1 : tile'[b] = tile[b]
      /\ ibeam \in Nat \ {0} /\ ibeam' = ibeam + 1
  BY BeamDoneIs DEF TilesSoFar
<1>2. \A b \in 1 .. ibeam - 1 : WrittenOnce(tile[b])
  BY DEF SlotsWrittenOnce, WrittenOnce
<1>3. \A b \in 1 .. ibeam : WrittenOnce(tile'[b])
  BY <1>1, <1>2
<1>4. ibeam' - 1 = ibeam
  BY <1>1
<1> QED
  BY <1>3, <1>4 DEF SlotsWrittenOnce, WrittenOnce

LEMMA CountSlots ==
    ASSUME Control, InjectionOK, SlotsOK, CountFixedPPC
    PROVE  SlotsOK'
<1>1. pc = "inject" /\ outside' = outside /\ nextID' = nextID
  BY DEF CountFixedPPC
<1>2. CASE \E slots : slots = <<>> /\ BeamDone(slots, 0)
  <2>1. BeamDone(<<>>, 0) /\ WrittenOnce(<<>>) /\ outside' = {}
    BY <1>1, <1>2 DEF WrittenOnce, SlotsOK, SlotsWrittenOnce
  <2> QED
    BY <1>1, <2>1, BeamWrittenOnce DEF SlotsOK
<1>3. CASE ibeam' = ibeam /\ \E slots : tile' = Append(tile, slots)
  <2>1. PICK slots : tile' = Append(tile, slots)
    BY <1>3
  <2>2. HasRows(tile, ibeam - 1) /\ ibeam \in Nat \ {0}
    BY <1>1, BeamIs DEF InjectionOK
  <2>3. \A b \in 1 .. ibeam - 1 : Append(tile, slots)[b] = tile[b]
    <3>1. IsAppended(Append(tile, slots), tile, slots, ibeam)
      BY <2>2, RowAppended
    <3>2. \A b \in 1 .. ibeam - 1 : b \in 1 .. ibeam /\ b # ibeam
      BY <2>2
    <3>3. \A b \in 1 .. ibeam : Append(tile, slots)[b] = IF b = ibeam THEN slots ELSE tile[b]
      BY <3>1 DEF IsAppended
    <3> QED
      BY <3>2, <3>3, Zenon
  <2>4. \A b \in 1 .. ibeam - 1 : tile'[b] = tile[b]
    BY <2>1, <2>3
  <2> QED
    BY <1>1, <1>3, <2>4 DEF SlotsOK, SlotsWrittenOnce
<1>4. \/ \E slots : slots = <<>> /\ BeamDone(slots, 0)
      \/ ibeam' = ibeam /\ \E slots : tile' = Append(tile, slots)
  BY DEF CountFixedPPC
<1> QED
  BY <1>2, <1>3, <1>4

LEMMA FillSlots ==
    ASSUME OneDraw, Control, InjectionOK, SlotsOK, FillFixedPPC
    PROVE  SlotsOK'
<1>1. pc = "fill" /\ ibeam <= Len(species) /\ Beam.injection = "fixed_ppc" /\ Beam \in FixedPPC
  BY BeamIs DEF FillFixedPPC, InjectionOK
<1>2. PICK A \in Accepted(Beam) :
          /\ BeamDone(AddBeamParticles(tile[ibeam], nextID, Writes(Beam, A)), 0)
          /\ outside' = outside \union
                 {w[1] : w \in {v \in Writes(Beam, A) : v[1] >= Len(tile[ibeam])}}
          /\ nextID' = NextIDAfter(nextID, Len(tile[ibeam]))
  BY DEF FillFixedPPC
<1>3. PICK B \in Accepted(Beam) : /\ tile[ibeam] = Resized(SumFunction(Counts(Beam, B)))
                                  /\ offsets = ExclusiveSum(Counts(Beam, B))
  BY <1>1 DEF InjectionOK
<1>4. A = B
  BY <1>1, OneAccepted
<1> DEFINE n == SumFunction(Counts(Beam, A))
           W == Writes(Beam, A)
           slots == tile[ibeam]
<1>5. n \in Nat
  BY <1>1, CountsAreNumbers
<1>6. EachSlotOnce(W, n)
  BY <1>1, <1>3, <1>4, LatticeOnce
<1>7. slots = Resized(n)
  BY <1>3, <1>4
<1> HIDE DEF n, W, slots
<1>8. HasRows(slots, n) /\ Len(slots) = n
  BY <1>5, <1>7, ResizedIsTile DEF HasRows
<1>9. nextID \in Nat \ {0}
  BY DEF SlotsOK
<1>10. WrittenOnce(AddBeamParticles(slots, nextID, W))
  BY <1>5, <1>6, <1>8, <1>9, AddedOnce
<1>11. outside' = {}
  <2>1. \A v \in W : ~(v[1] >= Len(slots))
    BY <1>5, <1>6, <1>8 DEF EachSlotOnce
  <2>2. outside' = outside \union {w[1] : w \in {v \in W : v[1] >= Len(slots)}}
    BY <1>2 DEF W, slots
  <2>3. {v \in W : v[1] >= Len(slots)} = {}
    BY <2>1, Zenon
  <2>4. outside = {}
    BY DEF SlotsOK, SlotsWrittenOnce
  <2> QED
    BY <2>2, <2>3, <2>4
<1>12. BeamDone(AddBeamParticles(slots, nextID, W), 0)
  BY <1>2 DEF W, slots
<1>13. nextID' \in Nat \ {0}
  BY <1>2, <1>5, <1>8, <1>9 DEF NextIDAfter, slots
<1>14. SlotsWrittenOnce'
  BY <1>1, <1>10, <1>11, <1>12, BeamWrittenOnce DEF SlotsOK
<1> QED
  BY <1>13, <1>14 DEF SlotsOK

LEMMA WeightedSlots ==
    ASSUME Control, InjectionOK, SlotsOK, InjectFixedWeight
    PROVE  SlotsOK'
<1>1. pc = "inject" /\ ibeam <= Len(species) /\ Beam \in FixedWeight
  BY BeamIs DEF InjectFixedWeight, InjectionOK
<1> DEFINE num == IF Beam.symmetrize THEN Beam.num \div 4 ELSE Beam.num
           images == Images(Beam)
           W == WeightedWrites(Beam, num)
<1>2. /\ BeamDone(AddBeamParticles(Resized(images * num), nextID, W), 0)
      /\ nextID' = NextIDAfter(nextID, num) /\ outside' = outside
  BY DEF InjectFixedWeight, WeightedWrites, Images
<1>3. num \in Nat
  BY <1>1 DEF FixedWeight
<1>4. images \in {1, 4}
  BY DEF Images
<1> HIDE DEF num
<1>5. EachSlotOnce(W, images * num)
  BY <1>3, WeightedOnce
<1> HIDE DEF W, images
<1>6. images * num \in Nat
  BY <1>3, <1>4
<1>7. HasRows(Resized(images * num), images * num)
  BY <1>6, ResizedIsTile
<1>8. nextID \in Nat \ {0} /\ outside = {}
  BY DEF SlotsOK, SlotsWrittenOnce
<1>9. WrittenOnce(AddBeamParticles(Resized(images * num), nextID, W))
  BY <1>5, <1>6, <1>7, <1>8, AddedOnce
<1>10. SlotsWrittenOnce'
  BY <1>1, <1>2, <1>8, <1>9, BeamWrittenOnce DEF SlotsOK
<1> QED
  BY <1>2, <1>3, <1>8, <1>10 DEF SlotsOK, NextIDAfter

LEMMA FileSlots ==
    ASSUME Control, InjectionOK, PositionsOK, SlotsOK, InjectFromFile
    PROVE  SlotsOK'
<1>1. pc = "inject"
  BY DEF InjectFromFile
<1>2. PICK iter \in IterationOf(Beam) : \E name \in SpeciesRead(Beam, iter) :
          LET rows == iter.data[name].position
              W == {<<k - 1, rows[k]>> : k \in DOMAIN rows}
          IN  /\ BeamDone(AddBeamParticles(Resized(Len(rows)), nextID, W), iter.time)
              /\ nextID' = NextIDAfter(nextID, Len(rows))
  BY DEF InjectFromFile
<1>3. PICK name \in SpeciesRead(Beam, iter) :
          LET rows == iter.data[name].position
              W == {<<k - 1, rows[k]>> : k \in DOMAIN rows}
          IN  /\ BeamDone(AddBeamParticles(Resized(Len(rows)), nextID, W), iter.time)
              /\ nextID' = NextIDAfter(nextID, Len(rows))
  BY <1>2
<1> DEFINE rows == iter.data[name].position
           W == {<<k - 1, rows[k]>> : k \in DOMAIN rows}
<1>4. iter \in file /\ name \in DOMAIN iter.data
  BY DEF IterationOf, SpeciesRead
<1>5. PICK n \in Nat : HasRows(rows, n)
  BY <1>4 DEF PositionsOK, IsTile
<1>6. /\ BeamDone(AddBeamParticles(Resized(Len(rows)), nextID, W), iter.time)
      /\ nextID' = NextIDAfter(nextID, Len(rows)) /\ outside' = outside
  BY <1>3 DEF InjectFromFile
<1> HIDE DEF rows
<1>7. Len(rows) = n
  BY <1>5 DEF HasRows
<1>8. EachSlotOnce(W, n)
  BY <1>5, ReadOnce
<1> HIDE DEF W
<1>9. HasRows(Resized(n), n)
  BY ResizedIsTile
<1>10. nextID \in Nat \ {0} /\ outside = {}
  BY DEF SlotsOK, SlotsWrittenOnce
<1>11. WrittenOnce(AddBeamParticles(Resized(n), nextID, W))
  BY <1>8, <1>9, <1>10, AddedOnce
<1>12. SlotsWrittenOnce'
  BY <1>1, <1>6, <1>7, <1>10, <1>11, BeamWrittenOnce DEF SlotsOK
<1> QED
  BY <1>6, <1>7, <1>10, <1>12 DEF SlotsOK, NextIDAfter

\* What is known of the injection in every state.
InjectedOK == Control /\ InjectionOK /\ PositionsOK

LEMMA InjectedAlways == Spec => []InjectedOK
<1>1. WriterInit => InjectedOK
  BY InitControl, InitInjection, InitPositions DEF InjectedOK
<1>2. InjectedOK /\ [Next]_vars => InjectedOK'
  BY NextControl, NextInjection, NextPositions DEF InjectedOK
<1> QED
  BY <1>1, <1>2, PTL DEF Spec

LEMMA SlotsAlways == OneDraw => (Spec => []SlotsOK)
<1> SUFFICES ASSUME OneDraw PROVE Spec => []SlotsOK
  OBVIOUS
<1>1. WriterInit => SlotsOK
  BY DEF WriterInit, InjectionInit, SlotsOK, SlotsWrittenOnce
<1>2. InjectedOK /\ SlotsOK /\ [Next]_vars => SlotsOK'
  <2> SUFFICES ASSUME InjectedOK, SlotsOK, [Next]_vars PROVE SlotsOK'
    OBVIOUS
  <2>0. Control /\ InjectionOK /\ PositionsOK
    BY DEF InjectedOK
  <2>1. CASE InjectionNext
    <3>1. CASE AbortFromFile
      BY <3>1 DEF AbortFromFile, injectionVars, SlotsOK, SlotsWrittenOnce
    <3> QED
      BY <2>0, <2>1, <3>1, CountSlots, FillSlots, WeightedSlots, FileSlots DEF InjectionNext
  <2>2. CASE Restart
    BY <2>2 DEF Restart, SlotsOK, SlotsWrittenOnce
  <2>3. CASE UNCHANGED injectionVars
    BY <2>3 DEF injectionVars, SlotsOK, SlotsWrittenOnce
  <2>4. CASE \/ EnterEvolve \/ StartStep \/ Wait \/ Sort \/ WriteBeams \/ SolveBox \/ WriteFields
             \/ Notify \/ EndStep \/ Done \/ UNCHANGED vars
    <3>1. UNCHANGED injectionVars
      BY <2>4 DEF EnterEvolve, StartStep, Wait, Sort, WriteBeams, SolveBox, WriteFields, Notify,
                  EndStep, Done, vars, injectionVars
    <3> QED
      BY <2>3, <3>1
  <2> QED
    BY <2>1, <2>2, <2>4 DEF Next
<1> QED
  BY <1>1, <1>2, InjectedAlways, PTL DEF Spec

\* For any lattice, density and radius, any number of particles and any file,
\* every slot a tile was resized to is written by one particle and nothing
\* behind it is (BeamParticleContainerInit.cpp:114, 160, 183).
THEOREM SlotsAreWritten == OneDraw => (Spec => []SlotsWrittenOnce)
<1>1. SlotsOK => SlotsWrittenOnce
  BY DEF SlotsOK
<1> QED
  BY <1>1, SlotsAlways, PTL

-----------------------------------------------------------------------------
(* Lattices                                                                *)

\* The points of a cell after those of the cells before it: each number below
\* the product is one of them.
LEMMA PointsOfCells ==
    ASSUME NEW m \in Nat \ {0}, NEW n \in Nat \ {0}
    PROVE  /\ \A c \in 0 .. m - 1 : \A p \in 0 .. n - 1 :
                  /\ c * n + p \in 0 .. m * n - 1
                  /\ (c * n + p) \div n = c /\ (c * n + p) % n = p
           /\ \A g \in 0 .. m * n - 1 : \E c \in 0 .. m - 1 : \E p \in 0 .. n - 1 : g = c * n + p
<1>1. ASSUME NEW c \in 0 .. m - 1, NEW p \in 0 .. n - 1
      PROVE  /\ c * n + p \in 0 .. m * n - 1
             /\ (c * n + p) \div n = c /\ (c * n + p) % n = p
  <2>1. c * n = n * c /\ n * c \in Nat /\ m * n = n * m /\ n * m \in Nat
    BY SMT
  <2>2. n * c + n <= n * m
    <3>1. n * (c + 1) <= n * m
      <4>1. c + 1 \in Nat /\ m - (c + 1) \in Nat
        OBVIOUS
      <4>2. n * (m - (c + 1)) \in Nat
        BY <4>1, SMT
      <4>3. n * (m - (c + 1)) = n * m - n * (c + 1)
        BY <4>1, SMT
      <4>4. n * (c + 1) \in Int
        BY <4>1, SMT
      <4> QED
        BY <2>1, <4>2, <4>3, <4>4
    <3>2. n * (c + 1) = n * c + n
      OBVIOUS
    <3> QED
      BY <3>1, <3>2
  <2> DEFINE a == n * c
             b == n * m
  <2>3. (a + p) \div n = c
    BY QuotientIs
  <2>4. a + p = n * ((a + p) \div n) + ((a + p) % n)
    <3>1. a + p \in Int
      BY <2>1
    <3> HIDE DEF a
    <3> QED
      BY <3>1, Quotient
  <2>5. a + p = a + ((a + p) % n) /\ (a + p) % n \in Int
    <3>1. a + p \in Int
      BY <2>1
    <3>2. (a + p) % n \in Int
      BY <3>1, Quotient
    <3> QED
      BY <2>3, <2>4, <3>2
  <2>6. a \in Nat /\ b \in Nat /\ a + n <= b /\ c * n = a /\ m * n = b
    BY <2>1, <2>2
  <2> HIDE DEF a, b
  <2>7. a + p \in 0 .. b - 1 /\ (a + p) % n = p
    BY <2>5, <2>6
  <2> QED
    BY <2>3, <2>6, <2>7
<1>2. ASSUME NEW g \in 0 .. m * n - 1
      PROVE  \E c \in 0 .. m - 1 : \E p \in 0 .. n - 1 : g = c * n + p
  <2> DEFINE c == g \div n
             p == g % n
  <2>1. m * n \in Nat /\ n * m = m * n
    BY SMT
  <2>2. g \in Nat /\ g < n * m
    BY <2>1
  <2>3. c \in Int /\ p \in 0 .. n - 1 /\ g = n * c + p
    BY <2>2, Quotient
  <2>4. 0 <= c
    <3>1. n * 0 <= g
      BY <2>2
    <3> QED
      BY <2>2, <3>1, QuotientBounds
  <2>5. c < m
    BY <2>2, QuotientBounds
  <2> HIDE DEF c, p
  <2>6. n * c = c * n
    BY <2>3
  <2>7. c \in 0 .. m - 1 /\ g = c * n + p
    BY <2>3, <2>4, <2>5, <2>6
  <2> QED
    BY <2>3, <2>7
<1> QED
  BY <1>1, <1>2

\* The positions of the particles in a cell are all of its lattice.
LEMMA PositionsAre ==
    ASSUME NEW n, n[1] \in Nat \ {0}, n[2] \in Nat \ {0}, n[3] \in Nat \ {0}
    PROVE  /\ \A i \in 0 .. n[1] * n[2] * n[3] - 1 : \A d \in 1 .. 3 :
                  PositionInCell(n, i)[d] \in 0 .. n[d] - 1
           /\ \A x \in 0 .. n[1] - 1 : \A y \in 0 .. n[2] - 1 : \A z \in 0 .. n[3] - 1 :
                  \E i \in 0 .. n[1] * n[2] * n[3] - 1 : PositionInCell(n, i) = <<x, y, z>>
<1> DEFINE yz == n[2] * n[3]
<1>1. yz \in Nat \ {0} /\ yz = n[3] * n[2] /\ n[1] * n[2] * n[3] = n[1] * yz
  <2>1. \A a, b \in Nat \ {0} : a * b \in Nat \ {0} /\ a * b = b * a
    BY SMT
  <2>2. \A a, b, c \in Nat : (a * b) * c = a * (b * c)
    BY SMT
  <2>3. yz \in Nat \ {0} /\ yz = n[3] * n[2]
    BY <2>1
  <2>4. n[1] * n[2] * n[3] = n[1] * yz
    BY <2>2
  <2> QED
    BY <2>3, <2>4
<1>2. /\ \A x \in 0 .. n[1] - 1 : \A r \in 0 .. yz - 1 :
             /\ x * yz + r \in 0 .. n[1] * yz - 1
             /\ (x * yz + r) \div yz = x /\ (x * yz + r) % yz = r
      /\ \A i \in 0 .. n[1] * yz - 1 : \E x \in 0 .. n[1] - 1 : \E r \in 0 .. yz - 1 :
             i = x * yz + r
  <2> HIDE DEF yz
  <2> QED
    BY <1>1, PointsOfCells
<1>3. /\ \A z \in 0 .. n[3] - 1 : \A y \in 0 .. n[2] - 1 :
             /\ z * n[2] + y \in 0 .. n[3] * n[2] - 1
             /\ (z * n[2] + y) \div n[2] = z /\ (z * n[2] + y) % n[2] = y
      /\ \A r \in 0 .. n[3] * n[2] - 1 : \E z \in 0 .. n[3] - 1 : \E y \in 0 .. n[2] - 1 :
             r = z * n[2] + y
  BY PointsOfCells
<1>4. \A i : PositionInCell(n, i) = <<i \div yz, (i % yz) % n[2], (i % yz) \div n[2]>>
  BY DEF PositionInCell
<1> HIDE DEF yz
<1>5. ASSUME NEW x \in 0 .. n[1] - 1, NEW y \in 0 .. n[2] - 1, NEW z \in 0 .. n[3] - 1
      PROVE  \E i \in 0 .. n[1] * yz - 1 : PositionInCell(n, i) = <<x, y, z>>
  <2> DEFINE r == z * n[2] + y
             i == x * yz + r
  <2>1. r \in 0 .. yz - 1 /\ r \div n[2] = z /\ r % n[2] = y
    BY <1>1, <1>3
  <2> HIDE DEF r
  <2>2. i \in 0 .. n[1] * yz - 1 /\ i \div yz = x /\ i % yz = r
    BY <1>2, <2>1
  <2> HIDE DEF i
  <2>3. PositionInCell(n, i) = <<x, y, z>>
    BY <1>4, <2>1, <2>2
  <2> QED
    BY <2>2, <2>3
<1>6. ASSUME NEW i \in 0 .. n[1] * yz - 1, NEW d \in 1 .. 3
      PROVE  PositionInCell(n, i)[d] \in 0 .. n[d] - 1
  <2>1. PICK x \in 0 .. n[1] - 1, r \in 0 .. yz - 1 : i = x * yz + r
    BY <1>2
  <2>2. i \div yz = x /\ i % yz = r
    BY <1>2, <2>1
  <2>3. PICK z \in 0 .. n[3] - 1, y \in 0 .. n[2] - 1 : r = z * n[2] + y
    BY <1>1, <1>3
  <2>4. r \div n[2] = z /\ r % n[2] = y
    BY <1>3, <2>3
  <2>5. PositionInCell(n, i) = <<x, y, z>>
    BY <1>4, <2>2, <2>4
  <2> QED
    BY <2>5
<1> QED
  BY <1>1, <1>5, <1>6

\* The numbers of the points of the lattice of a beam, and a point.
GridOf(sp) ==
    {g \in [1 .. 3 -> Nat] : \A d \in 1 .. 3 : g[d] < CoarseCells(sp)[d] * CoarsePPC(sp)[d]}

PointOf(g) == [d \in 1 .. 3 |-> 2 * g[d] + 1]

\* The points a beam is injected at.
Injected(sp) ==
    {LatticePoint(sp, p[1], p[2]) : p \in {q \in Candidates(sp) : q[1][3] \notin sp.thin}}

InLayer(sp, g) ==
    InRange(sp, PointOf(g)) /\ g[3] \div CoarsePPC(sp)[3] \notin sp.thin

\* Every particle of a cell has a point of its layer, and every point has one.
LEMMA PointsAre ==
    ASSUME NEW sp \in FixedPPC
    PROVE  /\ \A c \in CellsOf(sp) : \A i \in 0 .. NumPPC(sp) - 1 : \E g \in GridOf(sp) :
                  LatticePoint(sp, c, i) = PointOf(g) /\ g[3] \div CoarsePPC(sp)[3] = c[3]
           /\ \A g \in GridOf(sp) : \E c \in CellsOf(sp) : \E i \in 0 .. NumPPC(sp) - 1 :
                  LatticePoint(sp, c, i) = PointOf(g) /\ g[3] \div CoarsePPC(sp)[3] = c[3]
<1> DEFINE m == CoarseCells(sp)
           n == CoarsePPC(sp)
           N == 0 .. NumPPC(sp) - 1
           p(i) == PositionInCell(n, i)
           number(c, i) == [d \in 1 .. 3 |-> c[d] * n[d] + p(i)[d]]
<1>1. m \in [1 .. 3 -> Nat \ {0}] /\ n \in [1 .. 3 -> Nat \ {0}]
  BY CoarseNumbers
<1>2. N = 0 .. n[1] * n[2] * n[3] - 1
  BY DEF NumPPC
<1>3. /\ CellsOf(sp) = (0 .. m[1] - 1) \X (0 .. m[2] - 1) \X (0 .. m[3] - 1)
      /\ \A g : g \in GridOf(sp) <=> g \in [1 .. 3 -> Nat] /\ \A d \in 1 .. 3 : g[d] < m[d] * n[d]
  BY DEF CellsOf, GridOf
<1>4. \A c, i : LatticePoint(sp, c, i) = [d \in 1 .. 3 |-> 2 * (c[d] * n[d] + p(i)[d]) + 1]
  BY DEF LatticePoint
<1>5. \A c, i : LatticePoint(sp, c, i) = PointOf(number(c, i))
  BY <1>4 DEF PointOf
<1>6. \A c, i : \A d \in 1 .. 3 : number(c, i)[d] = c[d] * n[d] + p(i)[d]
  OBVIOUS
<1>7. \A c, i : number(c, i) = [d \in 1 .. 3 |-> number(c, i)[d]]
  OBVIOUS
<1> HIDE DEF m, n, N, number
<1>8. /\ \A i \in N : \A d \in 1 .. 3 : p(i)[d] \in 0 .. n[d] - 1
      /\ \A x \in 0 .. n[1] - 1 : \A y \in 0 .. n[2] - 1 : \A z \in 0 .. n[3] - 1 :
             \E i \in N : p(i) = <<x, y, z>>
  <2>1. n[1] \in Nat \ {0} /\ n[2] \in Nat \ {0} /\ n[3] \in Nat \ {0}
    BY <1>1
  <2>2. /\ \A i \in 0 .. n[1] * n[2] * n[3] - 1 : \A d \in 1 .. 3 : p(i)[d] \in 0 .. n[d] - 1
        /\ \A x \in 0 .. n[1] - 1 : \A y \in 0 .. n[2] - 1 : \A z \in 0 .. n[3] - 1 :
               \E i \in 0 .. n[1] * n[2] * n[3] - 1 : p(i) = <<x, y, z>>
    BY ONLY <2>1, PositionsAre, Zenon
  <2> QED
    BY <1>2, <2>2, Zenon
<1> HIDE DEF p
<1>9. \A d \in 1 .. 3 :
         /\ \A c \in 0 .. m[d] - 1 : \A q \in 0 .. n[d] - 1 :
                c * n[d] + q \in 0 .. m[d] * n[d] - 1 /\ (c * n[d] + q) \div n[d] = c
         /\ \A g \in 0 .. m[d] * n[d] - 1 : \E c \in 0 .. m[d] - 1 : \E q \in 0 .. n[d] - 1 :
                g = c * n[d] + q
  <2> SUFFICES ASSUME NEW d \in 1 .. 3
               PROVE  /\ \A c \in 0 .. m[d] - 1 : \A q \in 0 .. n[d] - 1 :
                             /\ c * n[d] + q \in 0 .. m[d] * n[d] - 1
                             /\ (c * n[d] + q) \div n[d] = c
                      /\ \A g \in 0 .. m[d] * n[d] - 1 :
                             \E c \in 0 .. m[d] - 1 : \E q \in 0 .. n[d] - 1 : g = c * n[d] + q
    OBVIOUS
  <2>1. m[d] \in Nat \ {0} /\ n[d] \in Nat \ {0}
    BY <1>1
  <2>2. /\ \A c \in 0 .. m[d] - 1 : \A q \in 0 .. n[d] - 1 :
               /\ c * n[d] + q \in 0 .. m[d] * n[d] - 1
               /\ (c * n[d] + q) \div n[d] = c /\ (c * n[d] + q) % n[d] = q
        /\ \A g \in 0 .. m[d] * n[d] - 1 :
               \E c \in 0 .. m[d] - 1 : \E q \in 0 .. n[d] - 1 : g = c * n[d] + q
    BY ONLY <2>1, PointsOfCells, Zenon
  <2> QED
    BY <2>2, Zenon
<1>10. ASSUME NEW c \in CellsOf(sp), NEW i \in N
       PROVE  \E g \in GridOf(sp) : LatticePoint(sp, c, i) = PointOf(g) /\ g[3] \div n[3] = c[3]
  <2> DEFINE g == number(c, i)
  <2>1. \A d \in 1 .. 3 : c[d] \in 0 .. m[d] - 1
    BY <1>3
  <2>2. \A d \in 1 .. 3 : g[d] \in 0 .. m[d] * n[d] - 1 /\ g[d] \div n[d] = c[d]
    BY <1>6, <1>8, <1>9, <2>1
  <2>3. \A d \in 1 .. 3 : m[d] * n[d] \in Int
    BY <1>1, SMT
  <2>4. \A d \in 1 .. 3 : g[d] \in Nat /\ g[d] < m[d] * n[d]
    <3> SUFFICES ASSUME NEW d \in 1 .. 3 PROVE g[d] \in Nat /\ g[d] < m[d] * n[d]
      OBVIOUS
    <3> DEFINE b == m[d] * n[d]
    <3>1. b \in Int /\ g[d] \in 0 .. b - 1
      BY <2>2, <2>3
    <3> HIDE DEF b, g
    <3>2. g[d] \in Nat /\ g[d] < b
      BY <3>1
    <3> QED
      BY <3>2 DEF b
  <2>5. g \in [1 .. 3 -> Nat]
    BY <1>7, <2>4
  <2>6. g \in GridOf(sp)
    BY <1>3, <2>4, <2>5
  <2> QED
    BY <1>5, <2>2, <2>6
<1>11. ASSUME NEW g \in GridOf(sp)
       PROVE  \E c \in CellsOf(sp) : \E i \in N :
                  LatticePoint(sp, c, i) = PointOf(g) /\ g[3] \div n[3] = c[3]
  <2>1. g \in [1 .. 3 -> Nat] /\ \A d \in 1 .. 3 : g[d] < m[d] * n[d]
    BY <1>3
  <2>2. \A d \in 1 .. 3 : g[d] \in 0 .. m[d] * n[d] - 1
    <3> SUFFICES ASSUME NEW d \in 1 .. 3 PROVE g[d] \in 0 .. m[d] * n[d] - 1
      OBVIOUS
    <3> DEFINE b == m[d] * n[d]
    <3>1. b \in Int /\ g[d] \in Nat /\ g[d] < b
      BY <1>1, <2>1, SMT
    <3> HIDE DEF b
    <3>2. g[d] \in 0 .. b - 1
      BY <3>1
    <3> QED
      BY <3>2 DEF b
  <2>3. \A d \in 1 .. 3 : \E c \in 0 .. m[d] - 1 : \E q \in 0 .. n[d] - 1 :
            g[d] = c * n[d] + q /\ g[d] \div n[d] = c
    BY <1>9, <2>2
  <2>4. PICK cx \in 0 .. m[1] - 1, x \in 0 .. n[1] - 1 : g[1] = cx * n[1] + x
    BY <2>3
  <2>5. PICK cy \in 0 .. m[2] - 1, y \in 0 .. n[2] - 1 : g[2] = cy * n[2] + y
    BY <2>3
  <2>6. PICK cz \in 0 .. m[3] - 1, z \in 0 .. n[3] - 1 :
            g[3] = cz * n[3] + z /\ g[3] \div n[3] = cz
    BY <2>3
  <2>7. PICK i \in N : p(i) = <<x, y, z>>
    BY <1>8
  <2> DEFINE c == <<cx, cy, cz>>
  <2>8. c \in CellsOf(sp) /\ c[1] = cx /\ c[2] = cy /\ c[3] = cz
    BY <1>3
  <2>9. p(i)[1] = x /\ p(i)[2] = y /\ p(i)[3] = z
    BY <2>7
  <2> HIDE DEF c
  <2>10. \A d \in 1 .. 3 : number(c, i)[d] = g[d]
    <3>1. number(c, i)[1] = g[1]
      BY <1>6, <2>4, <2>8, <2>9
    <3>2. number(c, i)[2] = g[2]
      BY <1>6, <2>5, <2>8, <2>9
    <3>3. number(c, i)[3] = g[3]
      BY <1>6, <2>6, <2>8, <2>9
    <3> QED
      BY <3>1, <3>2, <3>3
  <2>11. number(c, i) = g
    BY <1>7, <2>1, <2>10
  <2> QED
    BY <1>5, <2>6, <2>8, <2>11
<1> QED
  BY <1>10, <1>11 DEF N, n

LEMMA InjectedIs ==
    ASSUME NEW sp \in FixedPPC, ~sp.random
    PROVE  Injected(sp) = {PointOf(g) : g \in {h \in GridOf(sp) : InLayer(sp, h)}}
<1>1. Candidates(sp) = {p \in CellsOf(sp) \X (0 .. NumPPC(sp) - 1) :
                            InRange(sp, LatticePoint(sp, p[1], p[2]))}
  BY DEF Candidates, Kept
<1>2. ASSUME NEW w \in Injected(sp)
      PROVE  \E g \in GridOf(sp) : InLayer(sp, g) /\ w = PointOf(g)
  <2>1. PICK p \in Candidates(sp) : w = LatticePoint(sp, p[1], p[2]) /\ p[1][3] \notin sp.thin
    BY DEF Injected
  <2>2. p[1] \in CellsOf(sp) /\ p[2] \in 0 .. NumPPC(sp) - 1 /\ InRange(sp, w)
    BY <1>1, <2>1
  <2>3. PICK g \in GridOf(sp) : w = PointOf(g) /\ g[3] \div CoarsePPC(sp)[3] = p[1][3]
    BY <2>1, <2>2, PointsAre
  <2> QED
    BY <2>1, <2>2, <2>3 DEF InLayer
<1>3. ASSUME NEW g \in GridOf(sp), InLayer(sp, g)
      PROVE  PointOf(g) \in Injected(sp)
  <2>1. PICK c \in CellsOf(sp), i \in 0 .. NumPPC(sp) - 1 :
            LatticePoint(sp, c, i) = PointOf(g) /\ g[3] \div CoarsePPC(sp)[3] = c[3]
    BY PointsAre
  <2>2. InRange(sp, LatticePoint(sp, c, i)) /\ c[3] \notin sp.thin
    BY <1>3, <2>1 DEF InLayer
  <2> DEFINE q == <<c, i>>
  <2>3. q \in CellsOf(sp) \X (0 .. NumPPC(sp) - 1) /\ q[1] = c /\ q[2] = i
    OBVIOUS
  <2> HIDE DEF q
  <2>4. q \in Candidates(sp) /\ q[1][3] \notin sp.thin
    BY <1>1, <2>2, <2>3
  <2>5. LatticePoint(sp, q[1], q[2]) \in Injected(sp)
    BY <2>4 DEF Injected
  <2> QED
    BY <2>1, <2>3, <2>5
<1> QED
  BY <1>2, <1>3

\* The coarse cells have the points of the domain, and maybe some behind it.
LEMMA FinePoints ==
    ASSUME NEW sp \in FixedPPC, NEW fine, fine = [sp EXCEPT !.cr = 1]
    PROVE  /\ fine \in FixedPPC
           /\ \A g : g \in GridOf(fine) <=>
                  g \in GridOf(sp) /\ \A d \in 1 .. 3 : PointOf(g)[d] < 2 * NCells[d] * sp.ppc[d]
           /\ \A g : InLayer(fine, g) <=> InLayer(sp, g)
<1>1. /\ sp.cr \in Nat \ {0} /\ sp.ppc \in [1 .. 3 -> Nat \ {0}]
      /\ NCells \in [1 .. 3 -> Nat \ {0}]
  BY InjectionAssumption DEF FixedPPC
<1>2. /\ fine \in FixedPPC /\ fine.cr = 1 /\ fine.ppc = sp.ppc /\ fine.thin = sp.thin
      /\ fine.zmin = sp.zmin /\ fine.zmax = sp.zmax /\ fine.radius = sp.radius
  BY DEF FixedPPC
<1>3. \A p : InRange(fine, p) <=> InRange(sp, p)
  BY <1>2 DEF InRange
<1>4. CoarsePPC(sp)[3] = sp.ppc[3] /\ CoarsePPC(fine)[3] = sp.ppc[3]
  BY <1>1, <1>2 DEF CoarsePPC, CoarseningRatio
<1>5. \A g : InLayer(fine, g) <=> InLayer(sp, g)
  BY <1>2, <1>3, <1>4 DEF InLayer
<1>6. \A d \in 1 .. 3 : CoarseCells(fine)[d] * CoarsePPC(fine)[d] = NCells[d] * sp.ppc[d]
  <2> SUFFICES ASSUME NEW d \in 1 .. 3
               PROVE  CoarseCells(fine)[d] * CoarsePPC(fine)[d] = NCells[d] * sp.ppc[d]
    OBVIOUS
  <2>1. CoarseningRatio(fine)[d] = 1
    BY <1>2 DEF CoarseningRatio
  <2>2. (NCells[d] - 1) \div 1 = NCells[d] - 1
    <3>1. (1 * (NCells[d] - 1) + 0) \div 1 = NCells[d] - 1
      BY <1>1, QuotientIs
    <3> QED
      BY <1>1, <3>1
  <2>3. CoarseCells(fine)[d] = NCells[d]
    BY <1>1, <2>1, <2>2 DEF CoarseCells
  <2>4. CoarsePPC(fine)[d] = sp.ppc[d]
    BY <1>1, <1>2, <2>1 DEF CoarsePPC
  <2> QED
    BY <2>3, <2>4
<1>7. \A d \in 1 .. 3 : /\ NCells[d] * sp.ppc[d] \in Nat
                        /\ CoarseCells(sp)[d] * CoarsePPC(sp)[d] \in Nat
                        /\ NCells[d] * sp.ppc[d] <= CoarseCells(sp)[d] * CoarsePPC(sp)[d]
  <2> SUFFICES ASSUME NEW d \in 1 .. 3
               PROVE  /\ NCells[d] * sp.ppc[d] \in Nat
                      /\ CoarseCells(sp)[d] * CoarsePPC(sp)[d] \in Nat
                      /\ NCells[d] * sp.ppc[d] <= CoarseCells(sp)[d] * CoarsePPC(sp)[d]
    OBVIOUS
  <2> DEFINE r == CoarseningRatio(sp)[d]
             N == NCells[d]
             k == sp.ppc[d]
             m == CoarseCells(sp)[d]
  <2>1. r \in Nat \ {0} /\ N \in Nat \ {0} /\ k \in Nat \ {0} /\ m \in Nat \ {0}
    BY <1>1, CoarseNumbers DEF CoarseningRatio
  <2>2. m = (N - 1) \div r + 1 /\ CoarsePPC(sp)[d] = k * r
    BY DEF CoarseCells, CoarsePPC
  <2> HIDE DEF r, N, k, m
  <2>3. N <= m * r
    <3> DEFINE q == (N - 1) \div r
               s == (N - 1) % r
    <3>1. q \in Int /\ s \in Int /\ s < r /\ N - 1 = r * q + s
      BY <2>1, Quotient
    <3> HIDE DEF q, s
    <3>2. r * q \in Int /\ (q + 1) * r = r * q + r
      BY <2>1, <3>1, SMT
    <3>3. m = q + 1
      BY <2>2 DEF q
    <3> QED
      BY <2>1, <3>1, <3>2, <3>3
  <2>4. m * r \in Nat /\ m * (k * r) = (m * r) * k
    BY <2>1, SMT
  <2> DEFINE a == m * r
  <2>5. a \in Nat /\ N <= a /\ m * (k * r) = a * k
    BY <2>3, <2>4
  <2> HIDE DEF a
  <2>6. N * k \in Nat /\ a * k \in Nat /\ N * k <= a * k
    <3>1. (a - N) * k \in Nat
      BY <2>1, <2>5, SMT
    <3>2. (a - N) * k = a * k - N * k /\ a * k \in Nat /\ N * k \in Nat
      BY <2>1, <2>5, SMT
    <3> QED
      BY <3>1, <3>2
  <2> QED
    BY <2>2, <2>5, <2>6 DEF N, k, m
<1>8. ASSUME NEW g
      PROVE  g \in GridOf(fine) <=>
                 g \in GridOf(sp) /\ \A d \in 1 .. 3 : PointOf(g)[d] < 2 * NCells[d] * sp.ppc[d]
  <2>1. /\ g \in GridOf(fine) <=>
               g \in [1 .. 3 -> Nat] /\ \A d \in 1 .. 3 : g[d] < NCells[d] * sp.ppc[d]
        /\ g \in GridOf(sp) <=>
               g \in [1 .. 3 -> Nat] /\ \A d \in 1 .. 3 : g[d] < CoarseCells(sp)[d] * CoarsePPC(sp)[d]
    BY <1>6 DEF GridOf
  <2>2. ASSUME g \in [1 .. 3 -> Nat], NEW d \in 1 .. 3
        PROVE  /\ PointOf(g)[d] < 2 * NCells[d] * sp.ppc[d] <=> g[d] < NCells[d] * sp.ppc[d]
               /\ g[d] < NCells[d] * sp.ppc[d] => g[d] < CoarseCells(sp)[d] * CoarsePPC(sp)[d]
    <3> DEFINE a == NCells[d] * sp.ppc[d]
               b == CoarseCells(sp)[d] * CoarsePPC(sp)[d]
    <3>1. a \in Nat /\ b \in Nat /\ a <= b /\ g[d] \in Nat /\ PointOf(g)[d] = 2 * g[d] + 1
      BY <1>7, <2>2 DEF PointOf
    <3>2. 2 * NCells[d] * sp.ppc[d] = 2 * a
      BY <1>1, SMT
    <3> HIDE DEF a, b
    <3>3. 2 * g[d] + 1 < 2 * a <=> g[d] < a
      BY <3>1
    <3>4. g[d] < a => g[d] < b
      BY <3>1
    <3> QED
      BY <3>1, <3>2, <3>3, <3>4 DEF a, b
  <2> QED
    BY <2>1, <2>2
<1> QED
  BY <1>2, <1>5, <1>8

LEMMA LatticesAgree ==
    ASSUME NEW sp \in FixedPPC, ~sp.random, NEW fine, fine = [sp EXCEPT !.cr = 1]
    PROVE  {w \in Injected(sp) : \A d \in 1 .. 3 : w[d] < 2 * NCells[d] * sp.ppc[d]}
               = {LatticePoint(fine, p[1], p[2]) :
                     p \in {q \in Candidates(fine) : q[1][3] \notin sp.thin}}
<1> DEFINE F == {LatticePoint(fine, p[1], p[2]) :
                    p \in {q \in Candidates(fine) : q[1][3] \notin sp.thin}}
<1>1. ~fine.random /\ fine.thin = sp.thin /\ fine \in FixedPPC
  BY FinePoints DEF FixedPPC
<1>2. F = Injected(fine)
  BY <1>1 DEF Injected
<1>3. Injected(fine) = {PointOf(g) : g \in {h \in GridOf(fine) : InLayer(fine, h)}}
  BY <1>1, InjectedIs
<1>4. Injected(sp) = {PointOf(g) : g \in {h \in GridOf(sp) : InLayer(sp, h)}}
  BY InjectedIs
<1> DEFINE inside(w) == \A d \in 1 .. 3 : w[d] < 2 * NCells[d] * sp.ppc[d]
<1>5. \A g : /\ g \in GridOf(fine) <=> g \in GridOf(sp) /\ inside(PointOf(g))
             /\ InLayer(fine, g) <=> InLayer(sp, g)
  BY FinePoints
<1> HIDE DEF inside, F
<1>6. {w \in Injected(sp) : inside(w)} = F
  BY <1>2, <1>3, <1>4, <1>5
<1> QED
  BY <1>6 DEF inside, F

\* What is written to the slots of a tile, and that this is the lattice.
WrittenTo(slots) == UNION {slots[k].written : k \in DOMAIN slots}

AsAsked(sp, slots) ==
    sp.injection = "fixed_ppc" /\ ~sp.random => WrittenTo(slots) = Injected(sp)

SameOK == \A b \in 1 .. ibeam - 1 : AsAsked(species[b], tile[b])

LEMMA AddedAre ==
    ASSUME NEW n \in Nat, NEW pid, NEW W, \A w \in W : w[1] \in 0 .. n - 1
    PROVE  WrittenTo(AddBeamParticles(Resized(n), pid, W)) = {w[2] : w \in W}
<1> DEFINE new == AddBeamParticles(Resized(n), pid, W)
           of(k) == {w \in W : w[1] = k - 1}
<1>1. DOMAIN new = 1 .. n
  BY DEF AddBeamParticles, Resized
<1>2. \A k \in 1 .. n : new[k].written = {w[2] : w \in of(k)}
  <2> SUFFICES ASSUME NEW k \in 1 .. n PROVE new[k].written = {w[2] : w \in of(k)}
    OBVIOUS
  <2>1. new[k] = IF of(k) = {} THEN Resized(n)[k]
                 ELSE [id |-> pid + k - 1, written |-> {w[2] : w \in of(k)}]
    BY DEF AddBeamParticles, Resized
  <2>2. Resized(n)[k].written = {}
    BY DEF Resized, Unwritten
  <2> HIDE DEF new, of
  <2>3. CASE of(k) = {}
    BY <2>1, <2>2, <2>3
  <2>4. CASE of(k) # {}
    BY <2>1, <2>4
  <2> QED
    BY <2>3, <2>4
<1>3. \A w \in W : \E k \in 1 .. n : w \in of(k)
  <2> SUFFICES ASSUME NEW w \in W PROVE \E k \in 1 .. n : w \in of(k)
    OBVIOUS
  <2>1. w[1] + 1 \in 1 .. n /\ w[1] = (w[1] + 1) - 1
    OBVIOUS
  <2> QED
    BY <2>1
<1>4. \A k \in 1 .. n : of(k) \subseteq W
  OBVIOUS
<1> HIDE DEF new, of
<1>5. WrittenTo(new) = {w[2] : w \in W}
  <2>1. WrittenTo(new) = UNION {new[k].written : k \in 1 .. n}
    BY <1>1 DEF WrittenTo
  <2>2. \A e \in WrittenTo(new) : \E w \in W : e = w[2]
    BY <1>2, <1>4, <2>1
  <2>3. \A w \in W : w[2] \in WrittenTo(new)
    BY <1>2, <1>3, <2>1
  <2> QED
    BY <2>2, <2>3
<1> QED
  BY <1>5 DEF new

\* Evenly spaced particles are accepted or not, and those that are, written.
LEMMA LatticeWritten ==
    ASSUME NEW sp \in FixedPPC, ~sp.random, NEW A \in Accepted(sp)
    PROVE  /\ A = {p \in Candidates(sp) : p[1][3] \notin sp.thin}
           /\ {w[2] : w \in Writes(sp, A)} = Injected(sp)
<1> DEFINE Thin == {p \in Candidates(sp) : p[1][3] \in sp.thin}
<1>1. Accepted(sp) = {Candidates(sp) \ Thin}
  BY DEF Accepted
<1>2. A = {p \in Candidates(sp) : p[1][3] \notin sp.thin}
  BY <1>1
<1> DEFINE to(p) == offsets[CellId(sp, p[1])] - offsets[0]
                        + Cardinality({q \in A : q[1] = p[1] /\ q[2] < p[2]})
           what(p) == LatticePoint(sp, p[1], p[2])
<1>3. Writes(sp, A) = {<<to(p), what(p)>> : p \in A}
  BY DEF Writes
<1>4. Injected(sp) = {what(p) : p \in A}
  BY <1>2 DEF Injected
<1> HIDE DEF to, what, Thin
<1>5. {w[2] : w \in Writes(sp, A)} = Injected(sp)
  <2>1. ASSUME NEW w \in Writes(sp, A) PROVE w[2] \in Injected(sp)
    <3>1. PICK p \in A : w = <<to(p), what(p)>>
      BY <1>3
    <3>2. w[2] = what(p)
      BY <3>1
    <3> QED
      BY <1>4, <3>2
  <2>2. ASSUME NEW e \in Injected(sp) PROVE \E w \in Writes(sp, A) : e = w[2]
    <3>1. PICK p \in A : e = what(p)
      BY <1>4
    <3>2. <<to(p), what(p)>> \in Writes(sp, A)
      BY <1>3
    <3>3. <<to(p), what(p)>>[2] = e
      BY <3>1
    <3> QED
      BY <3>2, <3>3
  <2> QED
    BY <2>1, <2>2
<1> QED
  BY <1>2, <1>5

LEMMA BeamAsAsked ==
    ASSUME Control, InjectionOK, SameOK, pc \in {"inject", "fill"}, species' = species,
           NEW slots, AsAsked(Beam, slots), NEW ptime, BeamDone(slots, ptime)
    PROVE  SameOK'
<1>1. /\ tile'[ibeam] = slots /\ \A b \in 1 .. ibeam - 1 : tile'[b] = tile[b]
      /\ ibeam \in Nat \ {0} /\ ibeam' = ibeam + 1
  BY BeamDoneIs DEF TilesSoFar
<1>2. \A b \in 1 .. ibeam : b = ibeam \/ b \in 1 .. ibeam - 1
  BY <1>1
<1>3. \A b \in 1 .. ibeam : AsAsked(species'[b], tile'[b])
  BY <1>1, <1>2 DEF SameOK, Beam
<1>4. ibeam' - 1 = ibeam
  BY <1>1
<1> QED
  BY <1>3, <1>4 DEF SameOK

LEMMA CountAsAsked ==
    ASSUME Control, InjectionOK, SameOK, CountFixedPPC
    PROVE  SameOK'
<1>1. /\ pc = "inject" /\ species' = species /\ ibeam <= Len(species)
      /\ Beam \in FixedPPC /\ Beam.injection = "fixed_ppc"
  BY BeamIs DEF CountFixedPPC, InjectionOK
<1>2. PICK A \in Accepted(Beam) :
          LET slots == Resized(SumFunction(Counts(Beam, A)))
          IN  IF slots = <<>> THEN BeamDone(slots, 0)
              ELSE tile' = Append(tile, slots) /\ UNCHANGED ibeam
  BY DEF CountFixedPPC
<1> DEFINE n == SumFunction(Counts(Beam, A))
           slots == Resized(n)
<1>3. n \in Nat /\ n = Cardinality(A) /\ IsFiniteSet(A)
  BY <1>1, OffsetsAre, CountsAreNumbers, CandidatesAreFinite
<1>4. IF slots = <<>> THEN BeamDone(slots, 0) ELSE tile' = Append(tile, slots) /\ ibeam' = ibeam
  BY <1>2
<1> HIDE DEF n
<1>5. CASE slots = <<>>
  <2>1. DOMAIN slots = 1 .. n
    BY DEF Resized
  <2>2. n = 0
    BY <1>3, <1>5, <2>1
  <2>3. A = {}
    BY <1>3, <2>2, FS_EmptySet
  <2>4. ~Beam.random => Injected(Beam) = {}
    <3> SUFFICES ASSUME ~Beam.random PROVE Injected(Beam) = {}
      OBVIOUS
    <3>1. {w[2] : w \in Writes(Beam, A)} = Injected(Beam)
      BY <1>1, LatticeWritten
    <3>2. Writes(Beam, A) = {}
      BY <2>3 DEF Writes
    <3> QED
      BY <3>1, <3>2
  <2>5. WrittenTo(slots) = {}
    BY <1>5 DEF WrittenTo
  <2>6. AsAsked(Beam, slots)
    BY <2>4, <2>5 DEF AsAsked
  <2>7. BeamDone(slots, 0)
    BY <1>4, <1>5
  <2> HIDE DEF slots
  <2> QED
    BY <1>1, <2>6, <2>7, BeamAsAsked
<1>6. CASE slots # <<>>
  <2>1. HasRows(tile, ibeam - 1) /\ ibeam \in Nat \ {0}
    BY <1>1, BeamIs DEF InjectionOK
  <2>2. tile' = Append(tile, slots) /\ ibeam' = ibeam
    BY <1>4, <1>6
  <2> HIDE DEF slots
  <2>3. \A b \in 1 .. ibeam : Append(tile, slots)[b] = IF b = ibeam THEN slots ELSE tile[b]
    <3>1. IsAppended(Append(tile, slots), tile, slots, ibeam)
      BY <2>1, RowAppended
    <3> QED
      BY <3>1 DEF IsAppended
  <2>4. \A b \in 1 .. ibeam - 1 : b \in 1 .. ibeam /\ b # ibeam
    BY <2>1
  <2>5. \A b \in 1 .. ibeam - 1 : tile'[b] = tile[b]
    BY <2>2, <2>3, <2>4
  <2> QED
    BY <1>1, <2>2, <2>5 DEF SameOK
<1> QED
  BY <1>5, <1>6

LEMMA FillAsAsked ==
    ASSUME Control, InjectionOK, SameOK, FillFixedPPC
    PROVE  SameOK'
<1>1. /\ pc = "fill" /\ species' = species /\ ibeam <= Len(species)
      /\ Beam \in FixedPPC /\ Beam.injection = "fixed_ppc"
  BY BeamIs DEF FillFixedPPC, InjectionOK
<1>2. PICK A \in Accepted(Beam) :
          BeamDone(AddBeamParticles(tile[ibeam], nextID, Writes(Beam, A)), 0)
  BY DEF FillFixedPPC
<1>3. PICK B \in Accepted(Beam) : /\ tile[ibeam] = Resized(SumFunction(Counts(Beam, B)))
                                  /\ offsets = ExclusiveSum(Counts(Beam, B))
  BY <1>1 DEF InjectionOK
<1> DEFINE n == SumFunction(Counts(Beam, A))
           W == Writes(Beam, A)
           slots == AddBeamParticles(tile[ibeam], nextID, W)
<1>4. ASSUME ~Beam.random PROVE WrittenTo(slots) = Injected(Beam)
  <2>1. A = B
    <3>1. /\ A = {p \in Candidates(Beam) : p[1][3] \notin Beam.thin}
          /\ B = {p \in Candidates(Beam) : p[1][3] \notin Beam.thin}
      BY <1>1, <1>4, LatticeWritten
    <3> QED
      BY <3>1, Zenon
  <2>2. tile[ibeam] = Resized(n) /\ n \in Nat
    BY <1>1, <1>3, <2>1, CountsAreNumbers
  <2>3. EachSlotOnce(W, n)
    BY <1>1, <1>3, <2>1, LatticeOnce
  <2>4. {w[2] : w \in W} = Injected(Beam)
    BY <1>1, <1>4, LatticeWritten
  <2> HIDE DEF n, W
  <2>5. WrittenTo(AddBeamParticles(Resized(n), nextID, W)) = {w[2] : w \in W}
    BY <2>2, <2>3, AddedAre DEF EachSlotOnce
  <2> QED
    BY <2>2, <2>4, <2>5
<1>5. AsAsked(Beam, slots)
  BY <1>4 DEF AsAsked
<1>6. BeamDone(slots, 0)
  BY <1>2
<1> HIDE DEF slots
<1> QED
  BY <1>1, <1>5, <1>6, BeamAsAsked

LEMMA SameAlways == Spec => []SameOK
<1>1. WriterInit => SameOK
  BY DEF WriterInit, InjectionInit, SameOK
<1>2. InjectedOK /\ SameOK /\ [Next]_vars => SameOK'
  <2> SUFFICES ASSUME InjectedOK, SameOK, [Next]_vars PROVE SameOK'
    OBVIOUS
  <2>0. Control /\ InjectionOK /\ PositionsOK
    BY DEF InjectedOK
  <2>1. CASE InjectFixedWeight
    <3>1. pc = "inject" /\ species' = species /\ Beam.injection = "fixed_weight"
      BY <2>1 DEF InjectFixedWeight
    <3>2. \E slots : BeamDone(slots, 0)
      BY <2>1 DEF InjectFixedWeight
    <3> QED
      BY <2>0, <3>1, <3>2, BeamAsAsked DEF AsAsked
  <2>2. CASE InjectFromFile
    <3>1. pc = "inject" /\ species' = species /\ Beam.injection = "from_file"
      BY <2>2 DEF InjectFromFile
    <3>2. \E slots, ptime : BeamDone(slots, ptime)
      BY <2>2 DEF InjectFromFile
    <3> QED
      BY <2>0, <3>1, <3>2, BeamAsAsked DEF AsAsked
  <2>3. CASE Restart
    BY <2>3 DEF Restart, SameOK
  <2>4. CASE UNCHANGED injectionVars
    BY <2>4 DEF injectionVars, SameOK
  <2>5. CASE \/ AbortFromFile \/ EnterEvolve \/ StartStep \/ Wait \/ Sort \/ WriteBeams
             \/ SolveBox \/ WriteFields \/ Notify \/ EndStep \/ Done \/ UNCHANGED vars
    <3>1. UNCHANGED injectionVars
      BY <2>5 DEF AbortFromFile, EnterEvolve, StartStep, Wait, Sort, WriteBeams, SolveBox,
                  WriteFields, Notify, EndStep, Done, vars, injectionVars
    <3> QED
      BY <2>4, <3>1
  <2> QED
    BY <2>0, <2>1, <2>2, <2>3, <2>5, CountAsAsked, FillAsAsked DEF Next, InjectionNext
<1> QED
  BY <1>1, <1>2, InjectedAlways, PTL DEF Spec

\* For any lattice, density, radius and cells: a beam injected with a coarser
\* grid has the particles in the domain that the grid of the cells would give
\* (BeamParticleContainerInit.cpp:86, beam_injection_cr).
THEOREM CoarseInjectionIsSame == Spec => []InjectsTheSame
<1>1. InjectedOK /\ SameOK => InjectsTheSame
  <2> SUFFICES ASSUME InjectedOK, SameOK, pc = "injected", NEW b \in DOMAIN species,
                      species[b].injection = "fixed_ppc", ~species[b].random
               PROVE  {w \in WrittenTo(tile[b]) :
                          \A d \in 1 .. 3 : w[d] < 2 * NCells[d] * species[b].ppc[d]}
                      = {LatticePoint([species[b] EXCEPT !.cr = 1], p[1], p[2]) :
                            p \in {q \in Candidates([species[b] EXCEPT !.cr = 1]) :
                                      q[1][3] \notin species[b].thin}}
    BY DEF InjectsTheSame, WrittenTo
  <2>1. species \in Seq(BeamParameters) /\ ibeam = Len(species) + 1
    BY BeamIs DEF InjectedOK, InjectionOK
  <2>2. b \in 1 .. ibeam - 1 /\ species[b] \in BeamParameters
    BY <2>1
  <2>3. species[b] \in FixedPPC
    BY <2>2 DEF BeamParameters, FixedPPC, FixedWeight, FromFile
  <2>4. WrittenTo(tile[b]) = Injected(species[b])
    BY <2>2 DEF SameOK, AsAsked
  <2> DEFINE sp == species[b]
             fine == [sp EXCEPT !.cr = 1]
             written == WrittenTo(tile[b])
  <2>5. sp \in FixedPPC /\ ~sp.random /\ fine = [sp EXCEPT !.cr = 1] /\ written = Injected(sp)
    BY <2>3, <2>4
  <2> HIDE DEF sp, fine, written
  <2>6. {w \in Injected(sp) : \A d \in 1 .. 3 : w[d] < 2 * NCells[d] * sp.ppc[d]}
            = {LatticePoint(fine, p[1], p[2]) :
                  p \in {q \in Candidates(fine) : q[1][3] \notin sp.thin}}
    BY <2>5, LatticesAgree
  <2>7. {w \in written : \A d \in 1 .. 3 : w[d] < 2 * NCells[d] * sp.ppc[d]}
            = {LatticePoint(fine, p[1], p[2]) :
                  p \in {q \in Candidates(fine) : q[1][3] \notin sp.thin}}
    BY <2>5, <2>6, Zenon
  <2> QED
    BY <2>7 DEF sp, fine, written
<1> QED
  BY <1>1, InjectedAlways, SameAlways, PTL

-----------------------------------------------------------------------------
(* Identifiers                                                             *)

\* A symmetrized beam, which reserves a quarter of the identifiers it uses, is
\* the last one.
SymmetrizedLast ==
    \A c \in Simulations : \A beams \in {c.beams, c.restart} : \A b \in DOMAIN beams :
        beams[b].injection = "fixed_weight" /\ beams[b].symmetrize => b = Len(beams)

\* The identifiers of a tile: none yet; some; some below a bound.
NoIds(slots) == \A k \in DOMAIN slots : slots[k].id = 0

AreIds(slots) == \A k \in DOMAIN slots : slots[k].id \in Nat

IdsBelow(slots, n) == \A k \in DOMAIN slots : slots[k].id < n

\* Those still to come are not in use.
IdsOK ==
    /\ nextID \in Nat \ {0}
    /\ UniqueIds
    /\ \A b \in DOMAIN tile : AreIds(tile[b])
    /\ pc \in {"inject", "fill"} => \A b \in 1 .. ibeam - 1 : IdsBelow(tile[b], nextID)

LEMMA ResizedHasNoIds == \A n : NoIds(Resized(n))
  BY DEF NoIds, Resized, Unwritten

\* The identifiers that a beam adds are its own.
LEMMA AddedIds ==
    ASSUME NEW n \in Nat, NEW slots, HasRows(slots, n), NoIds(slots),
           NEW pid \in Nat \ {0}, NEW W
    PROVE  LET new == AddBeamParticles(slots, pid, W)
           IN  /\ DOMAIN new = 1 .. n /\ AreIds(new)
               /\ \A k \in 1 .. n : new[k].id \in {0, pid + k - 1}
               /\ IdsBelow(new, pid + n)
<1> DEFINE new == AddBeamParticles(slots, pid, W)
<1>1. DOMAIN slots = 1 .. n
  BY DEF HasRows
<1>2. DOMAIN new = 1 .. n
  BY <1>1 DEF AddBeamParticles
<1>3. \A k \in 1 .. n : new[k].id \in {0, pid + k - 1}
  <2> SUFFICES ASSUME NEW k \in 1 .. n PROVE new[k].id \in {0, pid + k - 1}
    OBVIOUS
  <2>1. slots[k].id = 0
    BY <1>1 DEF NoIds
  <2> DEFINE V == {w \in W : w[1] = k - 1}
  <2>2. new[k] = IF V = {} THEN slots[k] ELSE [id |-> pid + k - 1, written |-> {w[2] : w \in V}]
    BY <1>1 DEF AddBeamParticles
  <2> HIDE DEF new, V
  <2> QED
    BY <2>1, <2>2
<1> HIDE DEF new
<1>4. AreIds(new) /\ IdsBelow(new, pid + n)
  BY <1>2, <1>3 DEF AreIds, IdsBelow
<1> QED
  BY <1>2, <1>3, <1>4 DEF new

LEMMA BeamIds ==
    ASSUME Control, InjectionOK, IdsOK, pc \in {"inject", "fill"},
           NEW n \in Nat, NEW slots, HasRows(slots, n), NoIds(slots), NEW W, NEW ptime,
           BeamDone(AddBeamParticles(slots, nextID, W), ptime),
           NEW m \in Nat, nextID' = nextID + m, ibeam < Len(species) => n <= m
    PROVE  IdsOK'
<1> DEFINE new == AddBeamParticles(slots, nextID, W)
<1>1. /\ DOMAIN tile' = 1 .. ibeam
      /\ tile'[ibeam] = new /\ \A b \in 1 .. ibeam - 1 : tile'[b] = tile[b]
      /\ ibeam \in Nat \ {0} /\ ibeam' = ibeam + 1
      /\ pc' = IF ibeam < Len(species) THEN "inject" ELSE "injected"
  BY BeamDoneIs DEF TilesSoFar, HasRows
<1>2. nextID \in Nat \ {0}
  BY DEF IdsOK
<1>3. /\ DOMAIN new = 1 .. n /\ AreIds(new)
      /\ \A k \in 1 .. n : new[k].id \in {0, nextID + k - 1}
      /\ IdsBelow(new, nextID + n)
  BY <1>2, AddedIds
<1> HIDE DEF new
<1>4. \A b \in 1 .. ibeam - 1 : b \in DOMAIN tile
  <2>1. PICK l \in Nat : DOMAIN tile = 1 .. l /\ l >= ibeam - 1
    BY <1>1 DEF InjectionOK, HasRows
  <2> QED
    BY <1>1, <2>1
<1>5. \A b \in 1 .. ibeam - 1 : AreIds(tile[b]) /\ IdsBelow(tile[b], nextID)
  BY <1>4 DEF IdsOK
<1>6. \A b \in DOMAIN tile' : b = ibeam \/ b \in 1 .. ibeam - 1
  BY <1>1
<1>7. \A b \in DOMAIN tile' : AreIds(tile'[b])
  BY <1>1, <1>3, <1>5, <1>6
<1>8. \A b, c \in 1 .. ibeam - 1 : \A i \in DOMAIN tile[b], j \in DOMAIN tile[c] :
          tile[b][i].id = tile[c][j].id /\ tile[b][i].id # 0 => b = c /\ i = j
  BY <1>4 DEF IdsOK, UniqueIds
<1>9. \A i, j \in DOMAIN new : new[i].id = new[j].id /\ new[i].id # 0 => i = j
  BY <1>2, <1>3
<1>10. \A c \in 1 .. ibeam - 1 : \A i \in DOMAIN new, j \in DOMAIN tile[c] :
           new[i].id = tile[c][j].id => new[i].id = 0
  <2> SUFFICES ASSUME NEW c \in 1 .. ibeam - 1, NEW i \in DOMAIN new, NEW j \in DOMAIN tile[c],
                      new[i].id = tile[c][j].id
               PROVE  new[i].id = 0
    OBVIOUS
  <2>1. tile[c][j].id < nextID
    BY <1>5 DEF IdsBelow
  <2>2. new[i].id \in {0, nextID + i - 1} /\ i \in 1 .. n
    BY <1>3
  <2> QED
    BY <1>2, <2>1, <2>2
<1>11. UniqueIds'
  <2> SUFFICES ASSUME NEW b \in DOMAIN tile', NEW c \in DOMAIN tile',
                      NEW i \in DOMAIN tile'[b], NEW j \in DOMAIN tile'[c],
                      tile'[b][i].id = tile'[c][j].id, tile'[b][i].id # 0
               PROVE  b = c /\ i = j
    BY DEF UniqueIds
  <2>1. CASE b = ibeam /\ c = ibeam
    BY <1>1, <1>9, <2>1
  <2>2. CASE b = ibeam /\ c \in 1 .. ibeam - 1
    BY <1>1, <1>10, <2>2
  <2>3. CASE b \in 1 .. ibeam - 1 /\ c = ibeam
    BY <1>1, <1>10, <2>3
  <2>4. CASE b \in 1 .. ibeam - 1 /\ c \in 1 .. ibeam - 1
    BY <1>1, <1>8, <2>4
  <2> QED
    BY <1>6, <2>1, <2>2, <2>3, <2>4
<1>12. nextID' \in Nat \ {0}
  BY <1>2
<1>13. ASSUME ibeam < Len(species), NEW b \in 1 .. ibeam PROVE IdsBelow(tile'[b], nextID')
  <2>1. n <= m
    BY <1>13
  <2>2. CASE b = ibeam
    <3>1. \A k \in DOMAIN new : new[k].id < nextID + m
      BY <1>2, <1>3, <2>1
    <3> QED
      BY <1>1, <2>2, <3>1 DEF IdsBelow
  <2>3. CASE b \in 1 .. ibeam - 1
    <3>1. \A k \in DOMAIN tile[b] : tile[b][k].id \in Nat /\ tile[b][k].id < nextID
      BY <1>5, <2>3 DEF AreIds, IdsBelow
    <3>2. \A k \in DOMAIN tile[b] : tile[b][k].id < nextID + m
      BY <1>2, <3>1
    <3> QED
      BY <1>1, <2>3, <3>2 DEF IdsBelow
  <2> QED
    BY <1>1, <2>2, <2>3
<1>14. pc' \in {"inject", "fill"} => \A b \in 1 .. ibeam' - 1 : IdsBelow(tile'[b], nextID')
  <2> SUFFICES ASSUME pc' \in {"inject", "fill"} PROVE \A b \in 1 .. ibeam : IdsBelow(tile'[b], nextID')
    BY <1>1
  <2>1. ibeam < Len(species)
    BY <1>1
  <2> QED
    BY <1>13, <2>1
<1> QED
  BY <1>7, <1>11, <1>12, <1>14 DEF IdsOK

LEMMA CountIds ==
    ASSUME Control, InjectionOK, IdsOK, CountFixedPPC
    PROVE  IdsOK'
<1>1. pc = "inject" /\ nextID' = nextID /\ nextID \in Nat \ {0}
  BY DEF CountFixedPPC, IdsOK
<1>2. CASE BeamDone(<<>>, 0)
  <2>1. HasRows(<<>>, 0) /\ NoIds(<<>>)
    BY DEF HasRows, NoIds
  <2>2. AddBeamParticles(<<>>, nextID, {}) = <<>>
    BY DEF AddBeamParticles
  <2>3. nextID' = nextID + 0 /\ 0 <= 0
    BY <1>1
  <2>4. BeamDone(AddBeamParticles(<<>>, nextID, {}), 0)
    BY <1>2, <2>2
  <2> QED
    BY <1>1, <2>1, <2>3, <2>4, BeamIds
<1>3. CASE pc' = "fill" /\ ibeam' = ibeam /\ \E n : tile' = Append(tile, Resized(n))
  <2>1. PICK n : tile' = Append(tile, Resized(n))
    BY <1>3
  <2>2. HasRows(tile, ibeam - 1) /\ ibeam \in Nat \ {0} /\ DOMAIN tile = 1 .. ibeam - 1
    BY <1>1, BeamIs DEF InjectionOK, HasRows
  <2>3. /\ DOMAIN tile' = 1 .. ibeam
        /\ \A b \in 1 .. ibeam : tile'[b] = IF b = ibeam THEN Resized(n) ELSE tile[b]
    <3>1. IsAppended(Append(tile, Resized(n)), tile, Resized(n), ibeam)
      BY <2>2, RowAppended
    <3> QED
      BY <2>1, <3>1 DEF IsAppended, HasRows
  <2>4. \A b \in 1 .. ibeam : b = ibeam \/ b \in 1 .. ibeam - 1
    BY <2>2
  <2>5. \A b \in 1 .. ibeam - 1 : b # ibeam /\ b \in 1 .. ibeam
    BY <2>2
  <2>6. tile'[ibeam] = Resized(n) /\ \A b \in 1 .. ibeam - 1 : tile'[b] = tile[b]
    BY <2>2, <2>3, <2>5
  <2>7. \A b \in 1 .. ibeam - 1 : AreIds(tile[b]) /\ IdsBelow(tile[b], nextID)
    BY <1>1, <2>2 DEF IdsOK
  <2>8. \A k \in DOMAIN Resized(n) : Resized(n)[k].id = 0
    BY ResizedHasNoIds DEF NoIds
  <2>9. \A b \in DOMAIN tile' : AreIds(tile'[b])
    <3>1. AreIds(Resized(n))
      BY <2>8 DEF AreIds
    <3> QED
      BY <2>3, <2>4, <2>6, <2>7, <3>1
  <2>10. UniqueIds'
    <3> SUFFICES ASSUME NEW b \in DOMAIN tile', NEW c \in DOMAIN tile',
                        NEW i \in DOMAIN tile'[b], NEW j \in DOMAIN tile'[c],
                        tile'[b][i].id = tile'[c][j].id, tile'[b][i].id # 0
                 PROVE  b = c /\ i = j
      BY DEF UniqueIds
    <3>1. b # ibeam /\ c # ibeam
      BY <2>6, <2>8
    <3>2. b \in DOMAIN tile /\ c \in DOMAIN tile /\ tile'[b] = tile[b] /\ tile'[c] = tile[c]
      BY <2>2, <2>3, <2>4, <2>6, <3>1
    <3> QED
      BY <3>2 DEF IdsOK, UniqueIds
  <2>11. \A b \in 1 .. ibeam' - 1 : IdsBelow(tile'[b], nextID')
    BY <1>1, <1>3, <2>6, <2>7
  <2> QED
    BY <1>1, <2>9, <2>10, <2>11 DEF IdsOK
<1>4. \/ BeamDone(<<>>, 0)
      \/ pc' = "fill" /\ ibeam' = ibeam /\ \E n : tile' = Append(tile, Resized(n))
  BY DEF CountFixedPPC
<1> QED
  BY <1>2, <1>3, <1>4

LEMMA FillIds ==
    ASSUME Control, InjectionOK, IdsOK, FillFixedPPC
    PROVE  IdsOK'
<1>1. pc = "fill" /\ ibeam <= Len(species) /\ Beam.injection = "fixed_ppc" /\ Beam \in FixedPPC
  BY BeamIs DEF FillFixedPPC, InjectionOK
<1>2. PICK W : /\ BeamDone(AddBeamParticles(tile[ibeam], nextID, W), 0)
               /\ nextID' = NextIDAfter(nextID, Len(tile[ibeam]))
  BY DEF FillFixedPPC
<1>3. PICK B \in Accepted(Beam) : tile[ibeam] = Resized(SumFunction(Counts(Beam, B)))
  BY <1>1 DEF InjectionOK
<1> DEFINE n == SumFunction(Counts(Beam, B))
           slots == tile[ibeam]
<1>4. n \in Nat
  BY <1>1, CountsAreNumbers
<1>5. slots = Resized(n)
  BY <1>3
<1>6. BeamDone(AddBeamParticles(slots, nextID, W), 0) /\ nextID' = NextIDAfter(nextID, Len(slots))
  BY <1>2
<1> HIDE DEF n, slots
<1>7. HasRows(slots, n) /\ Len(slots) = n /\ NoIds(slots)
  BY <1>4, <1>5, ResizedIsTile, ResizedHasNoIds DEF HasRows
<1>8. nextID' = nextID + n /\ n <= n
  BY <1>4, <1>6, <1>7 DEF NextIDAfter
<1> QED
  BY <1>1, <1>4, <1>6, <1>7, <1>8, BeamIds

LEMMA WeightedIds ==
    ASSUME SymmetrizedLast, Control, InjectionOK, IdsOK, InjectFixedWeight
    PROVE  IdsOK'
<1>1. pc = "inject" /\ ibeam <= Len(species) /\ Beam \in FixedWeight /\ Beam.injection = "fixed_weight"
  BY BeamIs DEF InjectFixedWeight, InjectionOK
<1> DEFINE num == IF Beam.symmetrize THEN Beam.num \div 4 ELSE Beam.num
           images == IF Beam.symmetrize THEN 4 ELSE 1
           n == images * num
<1>2. PICK W : /\ BeamDone(AddBeamParticles(Resized(n), nextID, W), 0)
               /\ nextID' = NextIDAfter(nextID, num)
  BY DEF InjectFixedWeight
<1>3. num \in Nat /\ images \in {1, 4} /\ (~Beam.symmetrize => images = 1)
  BY <1>1 DEF FixedWeight
<1>4. Beam.symmetrize => ibeam = Len(species)
  <2>1. species \in Seq(BeamParameters) /\ ibeam \in 1 .. Len(species)
    BY <1>1, BeamIs
  <2>2. ibeam \in DOMAIN species
    BY <2>1
  <2>3. species \in {conf.beams, conf.restart} /\ conf \in Simulations
    BY DEF InjectionOK, Control
  <2> QED
    BY <1>1, <2>2, <2>3 DEF SymmetrizedLast, Beam
<1> HIDE DEF num, images
<1>5. n \in Nat
  BY <1>3
<1>6. ibeam < Len(species) => n <= num
  <2> SUFFICES ASSUME ibeam < Len(species) PROVE n <= num
    OBVIOUS
  <2>1. ~Beam.symmetrize
    BY <1>1, <1>4, BeamIs
  <2>2. images = 1
    BY <1>3, <2>1
  <2> QED
    BY <1>3, <2>2
<1> HIDE DEF n
<1>7. HasRows(Resized(n), n) /\ NoIds(Resized(n))
  BY <1>5, ResizedIsTile, ResizedHasNoIds
<1>8. nextID' = nextID + num
  BY <1>2 DEF NextIDAfter
<1> QED
  BY <1>1, <1>2, <1>3, <1>5, <1>6, <1>7, <1>8, BeamIds

LEMMA FileIds ==
    ASSUME Control, InjectionOK, PositionsOK, IdsOK, InjectFromFile
    PROVE  IdsOK'
<1>1. pc = "inject"
  BY DEF InjectFromFile
<1>2. PICK iter \in IterationOf(Beam) : \E name \in SpeciesRead(Beam, iter) : \E W :
          /\ BeamDone(AddBeamParticles(Resized(Len(iter.data[name].position)), nextID, W), iter.time)
          /\ nextID' = NextIDAfter(nextID, Len(iter.data[name].position))
  BY DEF InjectFromFile
<1>3. PICK name \in SpeciesRead(Beam, iter) : \E W :
          /\ BeamDone(AddBeamParticles(Resized(Len(iter.data[name].position)), nextID, W), iter.time)
          /\ nextID' = NextIDAfter(nextID, Len(iter.data[name].position))
  BY <1>2
<1> DEFINE n == Len(iter.data[name].position)
<1>4. PICK W : /\ BeamDone(AddBeamParticles(Resized(n), nextID, W), iter.time)
               /\ nextID' = NextIDAfter(nextID, n)
  BY <1>3
<1>5. iter \in file /\ name \in DOMAIN iter.data
  BY DEF IterationOf, SpeciesRead
<1>6. n \in Nat
  BY <1>5 DEF PositionsOK, IsTile, HasRows
<1> HIDE DEF n
<1>7. HasRows(Resized(n), n) /\ NoIds(Resized(n)) /\ n <= n
  BY <1>6, ResizedIsTile, ResizedHasNoIds
<1>8. nextID' = nextID + n
  BY <1>4 DEF NextIDAfter
<1> QED
  BY <1>1, <1>4, <1>6, <1>7, <1>8, BeamIds

LEMMA IdsAlways == SymmetrizedLast => (Spec => []IdsOK)
<1> SUFFICES ASSUME SymmetrizedLast PROVE Spec => []IdsOK
  OBVIOUS
<1>1. WriterInit => IdsOK
  BY DEF WriterInit, InjectionInit, IdsOK, UniqueIds
<1>2. InjectedOK /\ IdsOK /\ [Next]_vars => IdsOK'
  <2> SUFFICES ASSUME InjectedOK, IdsOK, [Next]_vars PROVE IdsOK'
    OBVIOUS
  <2>0. Control /\ InjectionOK /\ PositionsOK
    BY DEF InjectedOK
  <2>1. CASE InjectionNext
    <3>1. CASE AbortFromFile
      BY <3>1 DEF AbortFromFile, injectionVars, IdsOK, UniqueIds
    <3> QED
      BY <2>0, <2>1, <3>1, CountIds, FillIds, WeightedIds, FileIds DEF InjectionNext
  <2>2. CASE Restart
    BY <2>2 DEF Restart, IdsOK, UniqueIds
  <2>3. CASE UNCHANGED injectionVars /\ pc' \notin {"inject", "fill"}
    BY <2>3 DEF injectionVars, IdsOK, UniqueIds
  <2>4. CASE UNCHANGED vars
    BY <2>4 DEF vars, injectionVars, IdsOK, UniqueIds
  <2>5. CASE \/ EnterEvolve \/ StartStep \/ Wait \/ Sort \/ WriteBeams \/ SolveBox \/ WriteFields
             \/ Notify \/ EndStep
    <3>1. UNCHANGED injectionVars /\ pc' \notin {"inject", "fill"}
      BY <2>5 DEF EnterEvolve, StartStep, Wait, Sort, WriteBeams, SolveBox, WriteFields, Notify,
                  EndStep
    <3> QED
      BY <2>3, <3>1
  <2> QED
    BY <2>1, <2>2, <2>4, <2>5 DEF Next, Done
<1> QED
  BY <1>1, <1>2, InjectedAlways, PTL DEF Spec

\* Unless a beam follows a symmetrized one, no identifier is given out twice,
\* however many beams there are and whatever they are injected with
\* (BeamParticleContainerInit.cpp:178, 271, 662, ParticleType::NextID).
THEOREM IdsAreUnique == SymmetrizedLast => (Spec => []UniqueIds)
<1>1. IdsOK => UniqueIds
  BY DEF IdsOK
<1> QED
  BY <1>1, IdsAlways, PTL

-----------------------------------------------------------------------------
(* Restart                                                                 *)

\* The particles of a tile are the rows of a file.
Holds(slots, rows) ==
    DOMAIN slots = DOMAIN rows /\ \A j \in DOMAIN rows : slots[j].written = {rows[j]}

DumpFile ==
    {[iteration |-> dump.step, time |-> dump.time,
      data |-> [b \in conf.dumped |-> [position |-> dump.position[b]]]]}

\* The file that is read is the dump, and what is read of it.
ReadOK ==
    file # {} =>
        /\ file = DumpFile
        /\ \A b \in 1 .. ibeam - 1 : species[b].injection = "from_file" =>
               \A iter \in IterationOf(species[b]) : \A name \in SpeciesRead(species[b], iter) :
                   Holds(tile[b], iter.data[name].position)

LEMMA RowsHeld ==
    ASSUME NEW n \in Nat, NEW rows, HasRows(rows, n), NEW pid
    PROVE  Holds(AddBeamParticles(Resized(Len(rows)), pid, {<<k - 1, rows[k]>> : k \in DOMAIN rows}),
                 rows)
<1> DEFINE W == {<<k - 1, rows[k]>> : k \in DOMAIN rows}
           new == AddBeamParticles(Resized(n), pid, W)
<1>1. DOMAIN rows = 1 .. n /\ Len(rows) = n
  BY DEF HasRows
<1>2. DOMAIN Resized(n) = 1 .. n
  BY DEF Resized
<1>3. DOMAIN new = 1 .. n
  BY <1>2 DEF AddBeamParticles
<1>4. \A j \in 1 .. n : new[j].written = {rows[j]}
  <2> SUFFICES ASSUME NEW j \in 1 .. n PROVE new[j].written = {rows[j]}
    OBVIOUS
  <2> DEFINE V == {w \in W : w[1] = j - 1}
  <2>1. V = {<<j - 1, rows[j]>>}
    <3>1. <<j - 1, rows[j]>> \in W /\ <<j - 1, rows[j]>>[1] = j - 1
      BY <1>1
    <3>2. \A k \in 1 .. n : k - 1 = j - 1 => <<k - 1, rows[k]>> = <<j - 1, rows[j]>>
      OBVIOUS
    <3>3. \A w \in W : w[1] = j - 1 => w = <<j - 1, rows[j]>>
      BY <1>1, <3>2
    <3> HIDE DEF W
    <3> QED
      BY <3>1, <3>3
  <2>2. new[j] = IF V = {} THEN Resized(n)[j]
                 ELSE [id |-> pid + j - 1, written |-> {w[2] : w \in V}]
    BY <1>2 DEF AddBeamParticles
  <2>3. V # {}
    BY <2>1
  <2>4. {w[2] : w \in V} = {rows[j]}
    <3> DEFINE w == <<j - 1, rows[j]>>
    <3>1. w[2] = rows[j] /\ V = {w}
      BY <2>1
    <3> HIDE DEF w, V
    <3> QED
      BY <3>1
  <2> HIDE DEF new, V
  <2> QED
    BY <2>2, <2>3, <2>4
<1> HIDE DEF new
<1>5. Holds(new, rows)
  BY <1>1, <1>3, <1>4 DEF Holds
<1> QED
  BY <1>1, <1>5 DEF new

\* What is read of a file is determined.
LEMMA ReadOnlyOne ==
    ASSUME Control, file = DumpFile,
           NEW sp, NEW i1 \in IterationOf(sp), NEW i2 \in IterationOf(sp),
           NEW n1 \in SpeciesRead(sp, i1), NEW n2 \in SpeciesRead(sp, i2)
    PROVE  i1 = i2 /\ n1 = n2
<1>1. i1 = i2 /\ DOMAIN i1.data = conf.dumped
  BY DEF IterationOf, DumpFile
<1>2. conf.dumped \subseteq Int
  <2>1. conf.beams \in Seq(BeamParameters) /\ conf.dumped \subseteq DOMAIN conf.beams
    BY InjectionAssumption, WriterAssumption DEF Control
  <2>2. DOMAIN conf.beams \subseteq Int
    BY <2>1
  <2> QED
    BY <2>1, <2>2
<1>3. \/ n1 = sp.species /\ n2 = sp.species
      \/ /\ n1 \in conf.dumped /\ \A m \in conf.dumped : m <= n1
         /\ n2 \in conf.dumped /\ \A m \in conf.dumped : m <= n2
  BY <1>1 DEF SpeciesRead
<1>4. n1 \in conf.dumped /\ n2 \in conf.dumped /\ n1 <= n2 /\ n2 <= n1 => n1 = n2
  BY <1>2
<1> QED
  BY <1>1, <1>3, <1>4

\* Another beam than the one injected is as it was.
LEMMA ReadKept ==
    ASSUME Control, InjectionOK, ReadOK, InjectionNext, UNCHANGED writerVars, file # {},
           \A b \in 1 .. ibeam - 1 : tile'[b] = tile[b],
           \/ ibeam' = ibeam
           \/ /\ ibeam' = ibeam + 1 /\ ibeam \in Nat
              /\ species[ibeam].injection = "from_file" =>
                     \A iter \in IterationOf(species[ibeam]) :
                     \A name \in SpeciesRead(species[ibeam], iter) :
                         Holds(tile'[ibeam], iter.data[name].position)
    PROVE  ReadOK'
<1>1. file' = file /\ conf' = conf /\ dump' = dump
  BY InjectionControl, ConfStays DEF Next, writerVars
<1>2. species' = species
  BY DEF InjectionNext, CountFixedPPC, FillFixedPPC, InjectFixedWeight, InjectFromFile, AbortFromFile,
         injectionVars
<1>3. \A sp : IterationOf(sp)' = IterationOf(sp)
  BY <1>1 DEF IterationOf
<1>4. DumpFile' = DumpFile
  BY <1>1 DEF DumpFile
<1>5. \A b \in 1 .. ibeam' - 1 : species[b].injection = "from_file" =>
          \A iter \in IterationOf(species[b]) : \A name \in SpeciesRead(species[b], iter) :
              Holds(tile'[b], iter.data[name].position)
  <2> SUFFICES ASSUME NEW b \in 1 .. ibeam' - 1, species[b].injection = "from_file",
                      NEW iter \in IterationOf(species[b]), NEW name \in SpeciesRead(species[b], iter)
               PROVE  Holds(tile'[b], iter.data[name].position)
    OBVIOUS
  <2>1. CASE b \in 1 .. ibeam - 1
    BY <2>1 DEF ReadOK
  <2>2. CASE b \notin 1 .. ibeam - 1
    <3>1. ibeam' = ibeam + 1 /\ b = ibeam
      BY <2>2
    <3> QED
      BY <3>1
  <2> QED
    BY <2>1, <2>2
<1>6. \A b \in 1 .. ibeam' - 1 : species'[b].injection = "from_file" =>
          \A iter \in {i \in file' : i.iteration = species'[b].iteration} :
          \A name \in SpeciesRead(species'[b], iter) : Holds(tile'[b], iter.data[name].position)
  BY <1>1, <1>2, <1>5 DEF IterationOf
<1> QED
  BY <1>1, <1>4, <1>6 DEF ReadOK, IterationOf

LEMMA InjectionRead ==
    ASSUME Control, InjectionOK, PositionsOK, ReadOK, InjectionNext, UNCHANGED writerVars, file # {}
    PROVE  ReadOK'
<1>0. pc \in {"inject", "fill"} /\ ibeam \in Nat \ {0} /\ Beam = species[ibeam]
  BY InjectionControl, BeamIs DEF Beam
<1>1. \A slots, t : BeamDone(slots, t) =>
          /\ tile'[ibeam] = slots /\ \A b \in 1 .. ibeam - 1 : tile'[b] = tile[b]
          /\ ibeam' = ibeam + 1
  BY <1>0, BeamDoneIs DEF TilesSoFar
<1>2. CASE Beam.injection # "from_file" /\ \E slots, t : BeamDone(slots, t)
  BY <1>0, <1>1, <1>2, ReadKept
<1>3. CASE InjectFromFile
  <2>1. PICK iter \in IterationOf(Beam) : \E name \in SpeciesRead(Beam, iter) :
            LET rows == iter.data[name].position
                W == {<<k - 1, rows[k]>> : k \in DOMAIN rows}
            IN  BeamDone(AddBeamParticles(Resized(Len(rows)), nextID, W), iter.time)
    BY <1>3 DEF InjectFromFile
  <2>2. PICK name \in SpeciesRead(Beam, iter) :
            LET rows == iter.data[name].position
                W == {<<k - 1, rows[k]>> : k \in DOMAIN rows}
            IN  BeamDone(AddBeamParticles(Resized(Len(rows)), nextID, W), iter.time)
    BY <2>1
  <2> DEFINE rows == iter.data[name].position
             new == AddBeamParticles(Resized(Len(rows)), nextID, {<<k - 1, rows[k]>> : k \in DOMAIN rows})
  <2>3. PICK n \in Nat : HasRows(rows, n)
    <3>1. iter \in file /\ name \in DOMAIN iter.data
      BY DEF IterationOf, SpeciesRead
    <3> QED
      BY <3>1 DEF PositionsOK, IsTile
  <2>4. BeamDone(new, iter.time)
    BY <2>2
  <2> HIDE DEF rows
  <2>5. Holds(new, rows)
    BY <2>3, RowsHeld
  <2> HIDE DEF new
  <2>6. tile'[ibeam] = new
    BY <1>1, <2>4
  <2>7. \A i \in IterationOf(species[ibeam]) : \A m \in SpeciesRead(species[ibeam], i) :
            Holds(tile'[ibeam], i.data[m].position)
    <3> SUFFICES ASSUME NEW i \in IterationOf(Beam), NEW m \in SpeciesRead(Beam, i)
                 PROVE  Holds(new, i.data[m].position)
      BY <1>0, <2>6
    <3>1. file = DumpFile
      BY DEF ReadOK
    <3>2. i = iter /\ m = name
      BY <3>1, ReadOnlyOne
    <3> QED
      BY <2>5, <3>2 DEF rows
  <2> QED
    BY <1>0, <1>1, <2>4, <2>7, ReadKept
<1>4. CASE ibeam' = ibeam /\ \E slots : tile' = Append(tile, slots) /\ pc = "inject"
  <2>1. PICK slots : tile' = Append(tile, slots)
    BY <1>4
  <2>2. HasRows(tile, ibeam - 1)
    BY <1>4 DEF InjectionOK
  <2>3. \A b \in 1 .. ibeam - 1 : Append(tile, slots)[b] = tile[b]
    <3>1. IsAppended(Append(tile, slots), tile, slots, ibeam)
      BY <1>0, <2>2, RowAppended
    <3>2. \A b \in 1 .. ibeam - 1 : b \in 1 .. ibeam /\ b # ibeam
      BY <1>0
    <3>3. \A b \in 1 .. ibeam : Append(tile, slots)[b] = IF b = ibeam THEN slots ELSE tile[b]
      BY <3>1 DEF IsAppended
    <3> QED
      BY <3>2, <3>3, Zenon
  <2> QED
    BY <1>4, <2>1, <2>3, ReadKept
<1>5. CASE AbortFromFile
  <2>1. tile' = tile /\ ibeam' = ibeam
    BY <1>5 DEF AbortFromFile, injectionVars
  <2> QED
    BY <2>1, ReadKept
<1>6. \/ Beam.injection # "from_file" /\ \E slots, t : BeamDone(slots, t)
      \/ InjectFromFile \/ AbortFromFile
      \/ ibeam' = ibeam /\ \E slots : tile' = Append(tile, slots) /\ pc = "inject"
  <2>1. CASE CountFixedPPC
    BY <2>1 DEF CountFixedPPC
  <2>2. CASE FillFixedPPC
    <3>1. Beam.injection = "fixed_ppc"
      BY <2>2 DEF FillFixedPPC, InjectionOK
    <3> QED
      BY <2>2, <3>1 DEF FillFixedPPC
  <2>3. CASE InjectFixedWeight
    BY <2>3 DEF InjectFixedWeight
  <2> QED
    BY <2>1, <2>2, <2>3 DEF InjectionNext
<1> QED
  BY <1>2, <1>3, <1>4, <1>5, <1>6

LEMMA ReadAlways == Spec => []ReadOK
<1>1. WriterInit => ReadOK
  BY DEF WriterInit, InjectionInit, ReadOK
<1>2. InjectedOK /\ ReadOK /\ [Next]_vars => ReadOK'
  <2> SUFFICES ASSUME InjectedOK, ReadOK, [Next]_vars PROVE ReadOK'
    OBVIOUS
  <2>0. Control /\ InjectionOK /\ PositionsOK
    BY DEF InjectedOK
  <2>1. CASE InjectionNext /\ UNCHANGED writerVars
    <3>1. CASE file = {}
      BY <2>1, <3>1, InjectionControl DEF ReadOK
    <3> QED
      BY <2>0, <2>1, <3>1, InjectionRead
  <2>2. CASE Restart
    <3>1. dump' = dump /\ conf' = conf /\ ibeam' = 1 /\ file' = DumpFile
      BY <2>2 DEF Restart, writerVars, DumpFile
    <3>2. file' = DumpFile' /\ 1 .. ibeam' - 1 = {}
      BY <3>1 DEF DumpFile
    <3> QED
      BY <3>2 DEF ReadOK
  <2>3. CASE UNCHANGED vars
    BY <2>3 DEF vars, injectionVars, writerVars, ReadOK, DumpFile, IterationOf
  <2>4. CASE \/ EnterEvolve \/ StartStep \/ Wait \/ Sort \/ WriteBeams \/ SolveBox \/ WriteFields
             \/ Notify \/ EndStep
    <3>1. file' = {}
      BY <2>0, <2>4, NoneOutside DEF EnterEvolve, StartStep, Wait, Sort, WriteBeams, SolveBox, WriteFields,
                  Notify, EndStep, InStep
    <3> QED
      BY <3>1 DEF ReadOK
  <2> QED
    BY <2>1, <2>2, <2>3, <2>4 DEF Next, Done
<1> QED
  BY <1>1, <1>2, InjectedAlways, PTL DEF Spec

-----------------------------------------------------------------------------
(* Units                                                                   *)

Exponents == [Factors -> Int]

LEMMA UnitTypes ==
    /\ One \in Exponents /\ \A f \in Factors : Factor(f) \in Exponents
    /\ \A u, v \in Exponents : Times(u, v) \in Exponents /\ Over(u, v) \in Exponents
    /\ \A u \in Exponents, k \in Int : Power(u, k) \in Exponents
  BY DEF Exponents, One, Factor, Times, Over, Power

LEMMA UnitRules ==
    /\ \A u, v \in Exponents : Times(Over(u, v), v) = u
    /\ \A u, v, w \in Exponents : Times(Times(Over(u, v), One), v) = u
    /\ \A u, v, w \in Exponents : Times(Times(Over(u, Times(v, w)), w), v) = u
<1>1. \A u \in Exponents : u = [f \in Factors |-> u[f]] /\ \A f \in Factors : u[f] \in Int
  BY DEF Exponents
<1>2. ASSUME NEW u \in Exponents, NEW v \in Exponents, NEW w \in Exponents
      PROVE  /\ Times(Over(u, v), v) = u
             /\ Times(Times(Over(u, v), One), v) = u
             /\ Times(Times(Over(u, Times(v, w)), w), v) = u
  <2> DEFINE U == [f \in Factors |-> u[f]]
  <2>1. u = U /\ \A f \in Factors : u[f] \in Int /\ v[f] \in Int /\ w[f] \in Int
    BY <1>1
  <2>2. Times(Over(u, v), v) = U
    <3>1. Times(Over(u, v), v) = [f \in Factors |-> (u[f] - v[f]) + v[f]]
      BY DEF Times, Over
    <3>2. \A f \in Factors : (u[f] - v[f]) + v[f] = u[f]
      BY <2>1
    <3> QED
      BY <3>1, <3>2
  <2>3. Times(Times(Over(u, v), One), v) = U
    <3>1. Times(Times(Over(u, v), One), v) = [f \in Factors |-> ((u[f] - v[f]) + 0) + v[f]]
      BY DEF Times, Over, One
    <3>2. \A f \in Factors : ((u[f] - v[f]) + 0) + v[f] = u[f]
      BY <2>1
    <3> QED
      BY <3>1, <3>2
  <2>4. Times(Times(Over(u, Times(v, w)), w), v) = U
    <3>1. Times(Times(Over(u, Times(v, w)), w), v)
              = [f \in Factors |-> ((u[f] - (v[f] + w[f])) + w[f]) + v[f]]
      BY DEF Times, Over
    <3>2. \A f \in Factors : ((u[f] - (v[f] + w[f])) + w[f]) + v[f] = u[f]
      BY <2>1
    <3> QED
      BY <3>1, <3>2
  <2> QED
    BY <2>1, <2>2, <2>3, <2>4
<1> QED
  BY <1>2

\* With the units of either simulation a number read is the number written.
LEMMA SameUnits ==
    \A wn, rn, given \in BOOLEAN :
        LET read == UnitsRead(ReferenceUnits(wn), rn, OfReader(given))
        IN  \A q \in {"position", "momentum", "weight"} :
                Times(read[q], SimulationUnits(rn, OfReader(given))[q])
                    = SimulationUnits(wn, OfWriter)[q]
<1> SUFFICES ASSUME NEW wn \in BOOLEAN, NEW rn \in BOOLEAN, NEW given \in BOOLEAN
             PROVE  LET read == UnitsRead(ReferenceUnits(wn), rn, OfReader(given))
                    IN  \A q \in {"position", "momentum", "weight"} :
                            Times(read[q], SimulationUnits(rn, OfReader(given))[q])
                                = SimulationUnits(wn, OfWriter)[q]
  OBVIOUS
<1> DEFINE run == OfReader(given)
           read == UnitsRead(ReferenceUnits(wn), rn, run)
           units == SimulationUnits(rn, run)
           there == SimulationUnits(wn, OfWriter)
           written == ReferenceUnits(wn)
           mc == Times(Factor("m"), Factor("c"))
<1>1. /\ One \in Exponents /\ Factor("kp") \in Exponents /\ Factor(run.kp) \in Exponents
      /\ Factor("m") \in Exponents /\ Factor("c") \in Exponents
  <2>1. {"kp", run.kp, "m", "c"} \subseteq Factors
    BY DEF Factors, OfReader
  <2> QED
    BY <2>1, UnitTypes
<1>2. mc \in Exponents
  BY <1>1, UnitTypes
<1>3. WeightUnit(run) \in Exponents /\ WeightUnit(OfWriter) \in Exponents
  <2>1. /\ run.kp \in Factors /\ run.n \in Factors /\ run.dx \in Factors
        /\ OfWriter.kp \in Factors /\ OfWriter.n \in Factors /\ OfWriter.dx \in Factors
    BY DEF Factors, OfReader, OfWriter
  <2>2. ASSUME NEW g \in Factors PROVE Power(Factor(g), 3) \in Exponents
    <3>1. \A f \in Factors : Factor(g)[f] \in Int
      BY UnitTypes DEF Exponents
    <3>2. \A f \in Factors : 3 * Factor(g)[f] \in Int
      BY <3>1
    <3> QED
      BY <3>2 DEF Power, Exponents
  <2>3. \A u, v, w \in Exponents : Times(Times(u, v), w) \in Exponents
    BY UnitTypes
  <2> QED
    BY <2>1, <2>2, <2>3, UnitTypes DEF WeightUnit
<1>4. /\ written.position = there.position /\ written.momentum = there.momentum
      /\ written.weight = there.weight
  BY DEF ReferenceUnits, SimulationUnits, OfWriter
<1>5. there.position \in Exponents /\ there.momentum \in Exponents /\ there.weight \in Exponents
  BY <1>1, <1>2, <1>3 DEF SimulationUnits, OfWriter
<1>6. units.position \in Exponents /\ units.weight \in Exponents
  BY <1>1, <1>3 DEF SimulationUnits
<1>7. read.position = Over(written.position, units.position)
  BY DEF UnitsRead, SimulationUnits
<1>8. read.weight = Over(written.weight, units.weight)
  BY DEF UnitsRead, SimulationUnits
<1>9. /\ read.momentum = Times(Over(written.momentum, mc), IF rn THEN One ELSE Factor("c"))
      /\ units.momentum = IF rn THEN mc ELSE Factor("m")
  BY DEF UnitsRead, SimulationUnits
<1> HIDE DEF read, units, there, written, mc
<1>10. Times(read.position, units.position) = there.position
  <2>1. read.position = Over(there.position, units.position)
    BY <1>4, <1>7
  <2> QED
    BY <1>5, <1>6, <2>1, UnitRules
<1>11. Times(read.weight, units.weight) = there.weight
  <2>1. read.weight = Over(there.weight, units.weight)
    BY <1>4, <1>8
  <2> QED
    BY <1>5, <1>6, <2>1, UnitRules
<1>12. Times(read.momentum, units.momentum) = there.momentum
  <2>1. CASE rn
    <3>1. read.momentum = Times(Over(there.momentum, mc), One) /\ units.momentum = mc
      BY <1>4, <1>9, <2>1
    <3> QED
      BY <1>2, <1>5, <3>1, UnitRules
  <2>2. CASE ~rn
    <3>1. /\ read.momentum = Times(Over(there.momentum, Times(Factor("m"), Factor("c"))), Factor("c"))
          /\ units.momentum = Factor("m")
      BY <1>4, <1>9, <2>2 DEF mc
    <3>2. Times(Times(Over(there.momentum, Times(Factor("m"), Factor("c"))), Factor("c")),
                Factor("m")) = there.momentum
      BY <1>1, <1>5, UnitRules, Zenon
    <3> QED
      BY <3>1, <3>2, Zenon
  <2> QED
    BY <2>1, <2>2
<1>13. \A q \in {"position", "momentum", "weight"} : Times(read[q], units[q]) = there[q]
  BY <1>10, <1>11, <1>12
<1> QED
  BY <1>13 DEF read, units, there

\* A restart has every particle that is dumped in one slot only, and with the
\* factors of the file the same particle, for normalized and SI units of the
\* run that wrote it and of the one that reads it (InitBeamFromFile, SetupPos).
THEOREM RestartIsDump == WithMPI => (Spec => []RestartKeepsBeam)
<1>1. BeamsOK /\ ReadOK => RestartKeepsBeam
  <2> SUFFICES ASSUME BeamsOK, ReadOK, Restarted, NEW b \in ReadBeams,
                      NEW iter \in IterationOf(species[b]), NEW name \in SpeciesRead(species[b], iter),
                      NEW k \in RowsOf(dump.position[name])
               PROVE  Cardinality({j \in DOMAIN tile[b] :
                                       tile[b][j].written = {dump.position[name][k]}}) = 1
    BY SameUnits, Zenon DEF RestartKeepsBeam
  <2>1. Control /\ InjectionOK /\ DumpOK
    BY DEF BeamsOK
  <2>2. file = DumpFile /\ pc = "injected" /\ file # {}
    BY DEF ReadOK, Restarted
  <2>3. b \in 1 .. ibeam - 1 /\ species[b].injection = "from_file"
    <3>1. species \in Seq(BeamParameters) /\ Len(species) \in Nat /\ ibeam = Len(species) + 1
      BY <2>1, <2>2, BeamIs DEF InjectionOK
    <3> QED
      BY <3>1 DEF ReadBeams
  <2> DEFINE rows == dump.position[name]
  <2>4. name \in conf.dumped /\ iter.data[name].position = rows
    BY <2>2 DEF IterationOf, SpeciesRead, DumpFile
  <2>5. Holds(tile[b], rows)
    BY <2>2, <2>3, <2>4 DEF ReadOK
  <2>6. DifferentRows(rows)
    <3>1. name \in Beams
      BY <2>1, <2>4, WriterAssumption DEF Control, Beams
    <3> QED
      BY <2>1, <3>1 DEF DumpOK
  <2>7. k \in RowsOf(rows)
    OBVIOUS
  <2> HIDE DEF rows
  <2>8. k \in DOMAIN rows /\ rows[k] # <<>>
    BY <2>7 DEF RowsOf
  <2>9. \A j \in DOMAIN rows : rows[j] = rows[k] => j = k
    BY <2>6, <2>7, <2>8 DEF DifferentRows, RowsOf
  <2>10. \A j \in DOMAIN tile[b] : tile[b][j].written = {rows[k]} <=> j = k
    BY <2>5, <2>8, <2>9 DEF Holds
  <2>11. {j \in DOMAIN tile[b] : tile[b][j].written = {rows[k]}} = {k}
    BY <2>5, <2>8, <2>10 DEF Holds
  <2>12. Cardinality({k}) = 1
    BY FS_Singleton
  <2> QED
    BY <2>11, <2>12 DEF rows
<1> QED
  BY <1>1, BeamsAlways, ReadAlways, PTL

-----------------------------------------------------------------------------
(* All particles                                                           *)

\* One box for each rank, of which the first one of a step is FirstBox.
BoxPerRank == \A c \in Simulations : c.boxesInZ = 1

LEMMA TotalIsLength ==
    ASSUME Control, InjectionOK, SlotsWrittenOnce, pc \in InStep, file = {}, NEW b \in Beams
    PROVE  IsFiniteSet(DOMAIN tile[b]) /\ total[b] = Cardinality(DOMAIN tile[b])
<1>1. IsFiniteSet(DOMAIN tile[b]) /\ total[b] = TotalNumberOfParticles(tile[b])
  BY TilesAre
<1>2. b \in 1 .. ibeam - 1
  <2>1. ibeam = Len(species) + 1 /\ species = conf.beams
    BY DEF InjectionOK
  <2>2. species \in Seq(BeamParameters) /\ Len(species) \in Nat
    BY BeamIs
  <2> QED
    BY <2>1, <2>2 DEF Beams
<1>3. \A k \in DOMAIN tile[b] : tile[b][k].id > 0
  BY <1>2 DEF SlotsWrittenOnce
<1>4. {k \in DOMAIN tile[b] : tile[b][k].id > 0} = DOMAIN tile[b]
  BY <1>3
<1> QED
  BY <1>1, <1>4 DEF TotalNumberOfParticles

\* The first rows of a data set and a chunk are different elements of S.
DifferentChunk(S, s, data, offset, chunk, l) ==
    /\ \A k \in 1 .. offset : \E n \in S : data[k] = <<n, s>>
    /\ \A j, k \in 1 .. offset : data[j] = data[k] => j = k
    /\ \A k \in 1 .. l : chunk[k] \in S
    /\ \A j, k \in 1 .. l : j # k => chunk[j] # chunk[k]
    /\ \A k \in 1 .. l : \A j \in 1 .. offset : data[j] # <<chunk[k], s>>

LEMMA ChunkFits ==
    ASSUME NEW S, IsFiniteSet(S), NEW s, NEW data, NEW offset \in Nat, NEW chunk, NEW l \in Nat,
           DifferentChunk(S, s, data, offset, chunk, l)
    PROVE  offset + l <= Cardinality(S)
<1> USE DEF DifferentChunk
<1> DEFINE m == offset + l
           f == [k \in 1 .. m |-> IF k <= offset THEN data[k][1] ELSE chunk[k - offset]]
<1>1. \A k \in 1 .. m : IF k <= offset THEN k \in 1 .. offset ELSE k - offset \in 1 .. l
  OBVIOUS
<1>2. \A k \in 1 .. offset : data[k][1] \in S /\ data[k] = <<data[k][1], s>>
  OBVIOUS
<1>3. \A k \in 1 .. m : f[k] = IF k <= offset THEN data[k][1] ELSE chunk[k - offset]
  OBVIOUS
<1>4. f \in [1 .. m -> S]
  BY <1>1, <1>2
<1> HIDE DEF f, m
<1>5. ASSUME NEW j \in 1 .. m, NEW k \in 1 .. m, f[j] = f[k] PROVE j = k
  <2>1. CASE j <= offset /\ k <= offset
    <3>1. data[j][1] = data[k][1] /\ j \in 1 .. offset /\ k \in 1 .. offset
      BY <1>1, <1>3, <1>5, <2>1
    <3>2. data[j] = data[k]
      BY <1>2, <3>1
    <3> QED
      BY <3>1, <3>2
  <2>2. CASE j <= offset /\ ~(k <= offset)
    <3>1. data[j][1] = chunk[k - offset] /\ j \in 1 .. offset /\ k - offset \in 1 .. l
      BY <1>1, <1>3, <1>5, <2>2
    <3>2. data[j] = <<chunk[k - offset], s>>
      BY <1>2, <3>1
    <3> QED
      BY <3>1, <3>2
  <2>3. CASE ~(j <= offset) /\ k <= offset
    <3>1. data[k][1] = chunk[j - offset] /\ k \in 1 .. offset /\ j - offset \in 1 .. l
      BY <1>1, <1>3, <1>5, <2>3
    <3>2. data[k] = <<chunk[j - offset], s>>
      BY <1>2, <3>1
    <3> QED
      BY <3>1, <3>2
  <2>4. CASE ~(j <= offset) /\ ~(k <= offset)
    <3>1. chunk[j - offset] = chunk[k - offset] /\ j - offset \in 1 .. l /\ k - offset \in 1 .. l
      BY <1>1, <1>3, <1>5, <2>4
    <3>2. j - offset = k - offset
      BY <3>1
    <3>3. j \in Int /\ k \in Int
      OBVIOUS
    <3> QED
      BY <3>2, <3>3
  <2> QED
    BY <2>1, <2>2, <2>3, <2>4
<1>6. f \in Injection(1 .. m, S)
  BY <1>4, <1>5 DEF Injection, IsInjective
<1>7. m \in Nat
  BY DEF m
<1>8. Cardinality(1 .. m) = m
  <2>1. Cardinality(1 .. m) = IF 1 > m THEN 0 ELSE m - 1 + 1
    BY <1>7, FS_Interval
  <2> QED
    BY <1>7, <2>1
<1>9. Cardinality(1 .. m) <= Cardinality(S)
  BY <1>6, FS_Injection
<1> QED
  BY <1>8, <1>9 DEF m

LEMMA BeamComplete ==
    ASSUME BoxPerRank, Control, InjectionOK, PositionsOK, PlacesOK, DumpOK, RowsOK,
           SlotsWrittenOnce, CompleteOK, WriteBeams, IsOutputStep(step), file = {},
           NEW b \in conf.dumped
    PROVE  /\ RowsOf(dump'.position[b]) = 1 .. chunkOffset'[b] + chunkSize'[b]
           /\ \A n \in DOMAIN tile[b] : from[<<b, n>>] # Lost /\ from[<<b, n>>] >= it =>
                  \E k \in RowsOf(dump'.position[b]) : dump'.position[b][k] = <<n, step>>
<1>1. pc = "beams" /\ pc \in InStep
  BY DEF WriteBeams, InStep
<1> DEFINE data == SetupBeam(dump.position, b)
           rows == BeamRows(b)
           c == CountOf(b, it)
           n == total[b]
           offset == chunkOffset'[b]
           new == dump'.position[b]
<1>2. /\ b \in Beams /\ n \in Nat
      /\ HasRows(data, n) /\ DifferentRows(data) /\ RowsOf(data) = RowsOf(dump.position[b])
      /\ \A k \in RowsOf(dump.position[b]) : data[k] = dump.position[b][k]
  BY <1>1, SetupIs
<1>3. /\ c \in Nat /\ HasRows(rows, c)
      /\ \A k \in 1 .. c :
             /\ Chunk(b)[k] \in DOMAIN tile[b] /\ from[<<b, Chunk(b)[k]>>] = it
             /\ rows[k] = <<Chunk(b)[k], step>> /\ rows[k] # <<>>
  BY <1>1, <1>2, BeamRowsAre
<1>4. /\ \A j, k \in 1 .. c : j # k => Chunk(b)[j] # Chunk(b)[k]
      /\ \A m \in DOMAIN tile[b] : from[<<b, m>>] = it => \E k \in 1 .. c : Chunk(b)[k] = m
  BY <1>1, <1>2, ChunkIs
<1>5. /\ new = StoreChunk(data, offset, rows)
      /\ offset = (IF FirstBox THEN 0 ELSE chunkOffset[b] + chunkSize[b]) /\ chunkSize'[b] = c
      /\ offset \in Nat
  BY <1>2, WriteBeamsIs DEF DumpOK
<1>6. /\ Lost = NBoxes /\ it \in 0 .. NBoxes - 1 /\ NBoxes \in Nat \ {0}
      /\ FirstBox <=> it = NBoxes - 1
  <2>1. conf.boxesInZ = 1
    BY DEF BoxPerRank, Control
  <2>2. NBoxes = NProcs
    BY <2>1 DEF NBoxes, NProcs
  <2> QED
    BY <2>2, Pushes DEF FirstBox
<1>7. \A m \in DOMAIN tile[b] : from[<<b, m>>] \in 0 .. Lost
  <2>1. ParticleTypes
    BY <1>1 DEF PlacesOK
  <2> QED
    BY <1>2, <2>1, ParticleIs DEF ParticleTypes
<1>8. DumpBegun <=> it < NBoxes - 1
  BY <1>1 DEF DumpBegun
<1>9. /\ RowsOf(data) = 1 .. offset
      /\ \A m \in DOMAIN tile[b] : from[<<b, m>>] # Lost /\ from[<<b, m>>] > it =>
             \E k \in 1 .. offset : data[k] = <<m, step>>
  <2>1. CASE DumpBegun
    <3>1. ~FirstBox
      BY <1>6, <1>8, <2>1
    <3>2. /\ RowsOf(dump.position[b]) = 1 .. offset
          /\ \A m \in DOMAIN tile[b] : InDump(<<b, m>>) =>
                 \E k \in RowsOf(dump.position[b]) : dump.position[b][k] = <<m, step>>
      BY <1>1, <1>5, <2>1, <3>1 DEF CompleteOK
    <3>3. \A m \in DOMAIN tile[b] : from[<<b, m>>] # Lost /\ from[<<b, m>>] > it => InDump(<<b, m>>)
      BY <1>1, <1>6, <1>7 DEF InDump
    <3> HIDE DEF data, offset
    <3> QED
      BY <1>2, <3>2, <3>3
  <2>2. CASE ~DumpBegun
    <3>1. it = NBoxes - 1 /\ offset = 0
      BY <1>5, <1>6, <1>8, <2>2
    <3>2. dump.position[b] = <<>>
      BY <1>1, <2>2 DEF RowsOK
    <3>3. RowsOf(data) = {}
      BY <1>2, <3>2, NoRows
    <3>4. \A m \in DOMAIN tile[b] : ~(from[<<b, m>>] # Lost /\ from[<<b, m>>] > it)
      BY <1>6, <1>7, <3>1
    <3> HIDE DEF data, offset
    <3> QED
      BY <3>1, <3>3, <3>4
  <2> QED
    BY <2>1, <2>2
<1>10. \A k \in 1 .. offset : \E m \in DOMAIN tile[b] : data[k] = <<m, step>> /\ from[<<b, m>>] # it
  <2> SUFFICES ASSUME NEW k \in 1 .. offset
               PROVE  \E m \in DOMAIN tile[b] : data[k] = <<m, step>> /\ from[<<b, m>>] # it
    OBVIOUS
  <2>1. k \in RowsOf(dump.position[b]) /\ data[k] = dump.position[b][k]
    BY <1>2, <1>9
  <2>2. PICK m \in DOMAIN tile[b] : dump.position[b][k] = <<m, step>> /\ InDump(<<b, m>>)
    BY <1>1, <2>1 DEF RowsOK
  <2>3. from[<<b, m>>] # it
    BY <1>1, <2>2 DEF InDump
  <2> QED
    BY <2>1, <2>2, <2>3
<1> HIDE DEF data, rows, c, n, offset, new
<1>11. offset + c <= n
  <2> DEFINE S == DOMAIN tile[b]
             chunk == Chunk(b)
  <2>1. IsFiniteSet(S) /\ n = Cardinality(S)
    BY <1>1, <1>2, TotalIsLength DEF n
  <2>2. \A k \in 1 .. offset : \E m \in S : data[k] = <<m, step>>
    BY <1>10
  <2>3. \A j, k \in 1 .. offset : data[j] = data[k] => j = k
    BY <1>2, <1>9 DEF DifferentRows
  <2>4. \A k \in 1 .. c : chunk[k] \in S
    BY <1>3
  <2>5. \A j, k \in 1 .. c : j # k => chunk[j] # chunk[k]
    BY <1>4
  <2>6. \A k \in 1 .. c : \A j \in 1 .. offset : data[j] # <<chunk[k], step>>
    <3> SUFFICES ASSUME NEW k \in 1 .. c, NEW j \in 1 .. offset PROVE data[j] # <<chunk[k], step>>
      OBVIOUS
    <3>1. PICK m \in DOMAIN tile[b] : data[j] = <<m, step>> /\ from[<<b, m>>] # it
      BY <1>10
    <3>2. m # chunk[k]
      BY <1>3, <3>1
    <3>3. \A x, u, y : x # u => <<x, y>> # <<u, y>>
      OBVIOUS
    <3> HIDE DEF chunk
    <3> QED
      BY <3>1, <3>2, <3>3
  <2> HIDE DEF S, chunk
  <2>7. DifferentChunk(S, step, data, offset, chunk, c)
    BY <2>2, <2>3, <2>4, <2>5, <2>6 DEF DifferentChunk
  <2>8. offset + c <= Cardinality(S)
    BY <1>3, <1>5, <2>1, <2>7, ChunkFits
  <2> QED
    BY <2>1, <2>8
<1>12. /\ HasRows(new, n)
       /\ \A k \in 1 .. n : new[k] = IF k \in offset + 1 .. offset + c
                                     THEN rows[k - offset] ELSE data[k]
  <2>1. n \in Nat /\ HasRows(data, n) /\ offset \in Nat /\ c \in Nat /\ HasRows(rows, c)
    BY <1>2, <1>3, <1>5
  <2>2. new = StoreChunk(data, offset, rows)
    BY <1>5
  <2>3. /\ HasRows(StoreChunk(data, offset, rows), n)
        /\ \A k \in 1 .. n : StoreChunk(data, offset, rows)[k] =
               IF k \in offset + 1 .. offset + c THEN rows[k - offset] ELSE data[k]
    BY ONLY <1>11, <2>1, ChunkStored
  <2> QED
    BY <2>2, <2>3, Zenon
<1>13. DOMAIN new = 1 .. n /\ DOMAIN data = 1 .. n
  BY <1>2, <1>12 DEF HasRows
<1>14. \A k \in 1 .. n : new[k] # <<>> <=> k \in 1 .. offset + c
  <2> SUFFICES ASSUME NEW k \in 1 .. n PROVE new[k] # <<>> <=> k \in 1 .. offset + c
    OBVIOUS
  <2>1. CASE k \in offset + 1 .. offset + c
    <3>1. k - offset \in 1 .. c /\ k \in 1 .. offset + c
      BY <1>3, <1>5, <2>1
    <3> QED
      BY <1>3, <1>12, <2>1, <3>1
  <2>2. CASE k \notin offset + 1 .. offset + c
    <3>1. k \in 1 .. offset + c <=> k \in 1 .. offset
      BY <1>3, <1>5, <2>2
    <3>2. data[k] # <<>> <=> k \in 1 .. offset
      BY <1>9, <1>13 DEF RowsOf
    <3> QED
      BY <1>12, <2>2, <3>1, <3>2
  <2> QED
    BY <2>1, <2>2
<1>15. RowsOf(new) = 1 .. offset + c
  <2>1. \A k \in 1 .. offset + c : k \in 1 .. n
    BY <1>2, <1>3, <1>5, <1>11
  <2> QED
    BY <1>13, <1>14, <2>1 DEF RowsOf
<1>16. ASSUME NEW m \in DOMAIN tile[b], from[<<b, m>>] # Lost, from[<<b, m>>] >= it
       PROVE  \E k \in 1 .. offset + c : new[k] = <<m, step>>
  <2>1. CASE from[<<b, m>>] = it
    <3>1. PICK j \in 1 .. c : Chunk(b)[j] = m
      BY <1>4, <2>1
    <3>2. offset + j \in 1 .. n /\ offset + j \in offset + 1 .. offset + c /\ (offset + j) - offset = j
          /\ offset + j \in 1 .. offset + c
      BY <1>2, <1>3, <1>5, <1>11
    <3>3. new[offset + j] = rows[j]
      BY <1>12, <3>2
    <3>4. rows[j] = <<m, step>>
      BY <1>3, <3>1
    <3> QED
      BY <3>2, <3>3, <3>4
  <2>2. CASE from[<<b, m>>] # it
    <3>1. from[<<b, m>>] > it
      BY <1>6, <1>7, <1>16, <2>2
    <3>2. PICK k \in 1 .. offset : data[k] = <<m, step>>
      BY <1>9, <1>16, <3>1
    <3>3. k \in 1 .. n /\ k \notin offset + 1 .. offset + c /\ k \in 1 .. offset + c
      BY <1>2, <1>3, <1>5, <1>11
    <3>4. new[k] = data[k]
      BY <1>12, <3>3
    <3> QED
      BY <3>2, <3>3, <3>4
  <2> QED
    BY <2>1, <2>2
<1> QED
  BY <1>5, <1>15, <1>16 DEF new, offset

\* Where nothing is written of the beams, and no particle is added to those
\* that are to be in the dump.
LEMMA CompleteStays ==
    ASSUME Control, CompleteOK, pc \in InStep,
           UNCHANGED <<conf, tile, step, file, chunkOffset, chunkSize>>,
           dump'.position = dump.position,
           pc' \in InStep => (DumpBegun' <=> DumpBegun),
           pc' \in InStep => \A p \in Particles : InDump(p)' => InDump(p)
    PROVE  CompleteOK'
<1>1. /\ Particles' = Particles /\ (IsOutputStep(step)' <=> IsOutputStep(step))
      /\ conf' = conf /\ tile' = tile /\ step' = step /\ file' = file
      /\ \A b : RowsOf(dump.position[b])' = RowsOf(dump.position[b])
  BY SameParticles DEF IsOutputStep, RowsOf
<1>2. SUFFICES ASSUME file' = {}, pc' \in InStep, IsOutputStep(step)', DumpBegun', NEW b \in conf'.dumped
               PROVE  /\ RowsOf(dump.position[b])' = 1 .. chunkOffset'[b] + chunkSize'[b]
                      /\ \A n \in DOMAIN tile'[b] : InDump(<<b, n>>)' =>
                             \E k \in RowsOf(dump.position[b])' : dump'.position[b][k] = <<n, step'>>
  BY DEF CompleteOK
<1>3. /\ RowsOf(dump.position[b]) = 1 .. chunkOffset[b] + chunkSize[b]
      /\ \A n \in DOMAIN tile[b] : InDump(<<b, n>>) =>
             \E k \in RowsOf(dump.position[b]) : dump.position[b][k] = <<n, step>>
  BY <1>1, <1>2 DEF CompleteOK
<1>4. \A n \in DOMAIN tile[b] : <<b, n>> \in Particles
  BY <1>1, ParticleIs, WriterAssumption DEF Control, Beams
<1>5. \A n \in DOMAIN tile[b] : InDump(<<b, n>>)' => InDump(<<b, n>>)
  BY <1>2, <1>4
<1> QED
  BY <1>1, <1>3, <1>5

LEMMA WriteBeamsComplete ==
    ASSUME BoxPerRank, BeamsOK, SlotsWrittenOnce, CompleteOK, WriteBeams
    PROVE  CompleteOK'
<1>1. /\ pc = "beams" /\ pc' = "solve"
      /\ conf' = conf /\ tile' = tile /\ from' = from /\ it' = it /\ step' = step /\ file' = file
  BY DEF WriteBeams, injectionVars
<1>2. file = {} /\ Control /\ Lost' = Lost
  BY <1>1, NoneOutside, SameParticles DEF InStep, BeamsOK
<1>3. SUFFICES ASSUME IsOutputStep(step), NEW b \in conf.dumped
               PROVE  /\ RowsOf(dump.position[b])' = 1 .. chunkOffset'[b] + chunkSize'[b]
                      /\ \A n \in DOMAIN tile[b] : InDump(<<b, n>>)' =>
                             \E k \in RowsOf(dump.position[b])' : dump'.position[b][k] = <<n, step>>
  <2>1. IsOutputStep(step)' <=> IsOutputStep(step)
    BY <1>1 DEF IsOutputStep
  <2> QED
    BY <1>1, <2>1 DEF CompleteOK
<1>4. \A n \in DOMAIN tile[b] : InDump(<<b, n>>)' => from[<<b, n>>] # Lost /\ from[<<b, n>>] >= it
  BY <1>1, <1>2 DEF InDump
<1>5. /\ RowsOf(dump'.position[b]) = 1 .. chunkOffset'[b] + chunkSize'[b]
      /\ \A n \in DOMAIN tile[b] : from[<<b, n>>] # Lost /\ from[<<b, n>>] >= it =>
             \E k \in RowsOf(dump'.position[b]) : dump'.position[b][k] = <<n, step>>
  BY <1>2, <1>3, BeamComplete DEF BeamsOK
<1> QED
  BY <1>4, <1>5 DEF RowsOf

LEMMA NextComplete ==
    ASSUME BoxPerRank, BeamsOK, SlotsWrittenOnce, CompleteOK, Next \/ UNCHANGED vars
    PROVE  CompleteOK'
<1>0. /\ Control /\ InjectionOK /\ PlacesOK
      /\ conf' = conf /\ Lost' = Lost /\ NBoxes' = NBoxes
      /\ Lost = NBoxes /\ it \in 0 .. NBoxes - 1 /\ NBoxes \in Nat \ {0}
  BY ConfStays, Pushes DEF BeamsOK, Lost, NBoxes, NProcs
<1>1. CASE pc' \notin InStep
  BY <1>1 DEF CompleteOK
<1>2. CASE InjectionNext /\ UNCHANGED writerVars
  BY <1>1, <1>2, InjectionControl DEF Injecting, InStep
<1>3. CASE EnterEvolve \/ EndStep \/ Restart
  BY <1>1, <1>3 DEF EnterEvolve, EndStep, Restart, InStep
<1>4. CASE StartStep
  <2>1. pc' = "wait" /\ it' = NBoxes - 1
    BY <1>4 DEF StartStep
  <2>2. ~DumpBegun'
    BY <1>0, <2>1 DEF DumpBegun
  <2> QED
    BY <2>2 DEF CompleteOK
<1>5. CASE WriteBeams
  BY <1>5, WriteBeamsComplete
<1>6. CASE Sort
  <2>1. /\ pc = "sort" /\ pc' = "beams"
        /\ UNCHANGED <<conf, tile, step, file, chunkOffset, chunkSize, dump, it>>
    BY <1>6 DEF Sort, injectionVars
  <2>2. file = {}
    BY <1>0, <2>1, NoneOutside DEF InStep
  <2>3. /\ TilesOK /\ ParticleTypes
        /\ \A p \in Particles : IF p \in Away THEN AwayOK(p) ELSE HereOK(p)
    BY <1>0, <2>1, <2>2 DEF PlacesOK, InStep
  <2>4. DumpBegun' <=> DumpBegun
    BY <1>0, <2>1 DEF DumpBegun
  <2>5. \A p \in Particles : InDump(p)' => InDump(p)
    <3> SUFFICES ASSUME NEW p \in Particles, InDump(p)' PROVE InDump(p)
      OBVIOUS
    <3>1. from'[p] # Lost /\ from'[p] # it /\ from'[p] >= it
      BY <1>0, <2>1 DEF InDump
    <3>2. p \in Away
      <4>1. SUFFICES ASSUME p \notin Away PROVE FALSE
        OBVIOUS
      <4>2. from'[p] = box[p]
        BY <1>0, <1>6, <2>3, <4>1, SortSorts
      <4>3. box[p] <= it \/ box[p] = Lost
        BY <2>1, <2>3, <4>1 DEF HereOK
      <4>4. box[p] \in 0 .. Lost
        BY <2>3 DEF ParticleTypes
      <4> QED
        BY <1>0, <3>1, <4>2, <4>3, <4>4
    <3>3. from'[p] = from[p]
      BY <1>0, <1>6, <2>3, <3>2, SortSorts
    <3> QED
      BY <3>1, <3>3 DEF InDump
  <2>6. pc \in InStep /\ dump'.position = dump.position
    BY <2>1 DEF InStep
  <2> QED
    BY <1>0, <2>1, <2>4, <2>5, <2>6, CompleteStays
<1>7. CASE Notify
  <2>1. /\ pc = "notify" /\ pc \in InStep
        /\ UNCHANGED <<conf, tile, step, file, chunkOffset, chunkSize, dump, from>>
        /\ IF it > 0 THEN it' = it - 1 /\ pc' = "wait" ELSE it' = it /\ pc' = "end"
    BY <1>7 DEF Notify, injectionVars, InStep
  <2>2. file = {}
    BY <1>0, <2>1, NoneOutside
  <2>3. ParticleTypes
    BY <1>0, <2>1, <2>2 DEF PlacesOK
  <2>4. DumpBegun' <=> DumpBegun
    BY <1>0, <2>1 DEF DumpBegun
  <2>5. \A p \in Particles : InDump(p)' => InDump(p)
    <3> SUFFICES ASSUME NEW p \in Particles, InDump(p)' PROVE InDump(p)
      OBVIOUS
    <3>1. from[p] \in 0 .. Lost /\ from[p] # Lost
      BY <1>0, <2>1, <2>3 DEF InDump, ParticleTypes
    <3>2. from[p] >= it
      BY <1>0, <2>1, <3>1 DEF InDump
    <3> QED
      BY <2>1, <3>1, <3>2 DEF InDump
  <2>6. dump'.position = dump.position
    BY <2>1
  <2> QED
    BY <1>0, <2>1, <2>4, <2>5, <2>6, CompleteStays
<1>8. CASE Wait \/ SolveBox \/ WriteFields
  <2>1. /\ pc \in {"wait", "solve", "fields"} /\ pc \in InStep
        /\ pc' = IF pc = "wait" THEN "sort" ELSE IF pc = "solve" THEN "fields" ELSE "notify"
        /\ UNCHANGED <<conf, tile, step, file, chunkOffset, chunkSize, it, from>>
    BY <1>8 DEF Wait, SolveBox, WriteFields, injectionVars, InStep
  <2>2. dump'.position = dump.position
    <3>1. \E f : dump' = dump \/ dump' = [dump EXCEPT !.field = f]
      BY <1>8 DEF Wait, SolveBox, WriteFields
    <3> QED
      BY <3>1 DEF BeamsOK, PositionsOK
  <2>3. DumpBegun' <=> DumpBegun
    BY <1>0, <2>1 DEF DumpBegun
  <2>4. \A p \in Particles : InDump(p)' => InDump(p)
    BY <1>0, <2>1 DEF InDump
  <2> QED
    BY <1>0, <2>1, <2>2, <2>3, <2>4, CompleteStays
<1>9. CASE Done \/ UNCHANGED vars
  <2>1. UNCHANGED <<conf, tile, step, file, chunkOffset, chunkSize, dump, it, from, pc>>
    BY <1>9 DEF Done, vars, injectionVars, writerVars
  <2>2. dump'.position = dump.position /\ (DumpBegun' <=> DumpBegun)
        /\ \A p \in Particles : InDump(p)' => InDump(p)
    BY <1>0, <2>1 DEF DumpBegun, InDump
  <2>3. CASE pc \in InStep
    BY <1>0, <2>1, <2>2, <2>3, CompleteStays
  <2> QED
    BY <1>1, <2>1, <2>3
<1> QED
  BY <1>2, <1>3, <1>4, <1>5, <1>6, <1>7, <1>8, <1>9 DEF Next

\* For any number of beams, particles and ranks, each with a box of its own,
\* the first rows of a beam are the particles that are in the domain, once
\* each, and the other rows are empty (WriteBeamParticleData: m_offset,
\* m_tmp_offset, the box sorters).
THEOREM EachIsDumpedOnce ==
    WithMPI /\ OneDraw /\ BoxPerRank => (Spec => []EachParticleOnce)
<1> SUFFICES ASSUME WithMPI, OneDraw, BoxPerRank PROVE Spec => []EachParticleOnce
  OBVIOUS
<1>1. WriterInit => CompleteOK
  BY DEF WriterInit, InjectionInit, CompleteOK, InStep
<1>2. BeamsOK /\ SlotsOK /\ CompleteOK /\ [Next]_vars => CompleteOK'
  BY NextComplete DEF SlotsOK
<1>3. BeamsOK /\ CompleteOK => EachParticleOnce
  <2> SUFFICES ASSUME BeamsOK, CompleteOK, Dumped, NEW b \in conf.dumped
               PROVE  LET rows == RowsOf(dump.position[b])
                      IN  /\ rows = 1 .. Cardinality(rows)
                          /\ {dump.position[b][k][1] : k \in rows}
                                 = {p[2] : p \in {q \in DOMAIN from : q[1] = b /\ from[q] # Lost}}
                          /\ Cardinality(rows) = Cardinality({dump.position[b][k][1] : k \in rows})
    BY DEF EachParticleOnce
  <2> DEFINE data == dump.position[b]
             rows == RowsOf(data)
             number == [k \in rows |-> data[k][1]]
             N == {data[k][1] : k \in rows}
             m == chunkOffset[b] + chunkSize[b]
  <2>1. /\ pc = "end" /\ IsOutputStep(step) /\ pc \in InStep /\ file = {}
        /\ Control /\ InjectionOK /\ PlacesOK /\ RowsOK /\ DumpOK
    BY NoneOutside DEF Dumped, InStep, BeamsOK
  <2>2. b \in Beams /\ it = 0 /\ DumpBegun
    BY <2>1, TotalsAre DEF Control, DumpBegun
  <2>3. rows = 1 .. m
    BY <2>1, <2>2 DEF CompleteOK
  <2>4. m \in Nat
    BY <2>1, <2>2 DEF DumpOK
  <2>5. \A k \in rows : \E n \in DOMAIN tile[b] : data[k] = <<n, step>> /\ InDump(<<b, n>>)
    BY <2>1 DEF RowsOK
  <2>6. \A n \in DOMAIN tile[b] : InDump(<<b, n>>) => \E k \in rows : data[k] = <<n, step>>
    BY <2>1, <2>2 DEF CompleteOK
  <2>7. \A j, k \in rows : data[j] = data[k] => j = k
    BY <2>1, <2>2 DEF DumpOK, DifferentRows
  <2>8. DOMAIN from = Particles /\ \A p \in Particles : from[p] \in 0 .. Lost
    BY <2>1 DEF PlacesOK, ParticleTypes
  <2>9. Lost = NBoxes /\ NBoxes \in Nat \ {0}
    BY <2>1, Pushes
  <2>10. \A n \in DOMAIN tile[b] : InDump(<<b, n>>) <=> from[<<b, n>>] # Lost
    <3> SUFFICES ASSUME NEW n \in DOMAIN tile[b] PROVE InDump(<<b, n>>) <=> from[<<b, n>>] # Lost
      OBVIOUS
    <3>1. from[<<b, n>>] \in 0 .. Lost
      BY <2>2, <2>8, ParticleIs
    <3> QED
      BY <2>1, <2>2, <2>9, <3>1 DEF InDump
  <2> HIDE DEF data, rows, m
  <2>11. N = {n \in DOMAIN tile[b] : from[<<b, n>>] # Lost}
    <3>1. \A k \in rows : data[k][1] \in DOMAIN tile[b] /\ from[<<b, data[k][1]>>] # Lost
      <4> SUFFICES ASSUME NEW k \in rows
                   PROVE  data[k][1] \in DOMAIN tile[b] /\ from[<<b, data[k][1]>>] # Lost
        OBVIOUS
      <4>1. PICK n \in DOMAIN tile[b] : data[k] = <<n, step>> /\ InDump(<<b, n>>)
        BY <2>5
      <4>2. data[k][1] = n
        BY <4>1
      <4> QED
        BY <2>10, <4>1, <4>2
    <3>2. \A n \in DOMAIN tile[b] : from[<<b, n>>] # Lost => \E k \in rows : data[k][1] = n
      <4> SUFFICES ASSUME NEW n \in DOMAIN tile[b], from[<<b, n>>] # Lost
                   PROVE  \E k \in rows : data[k][1] = n
        OBVIOUS
      <4>1. PICK k \in rows : data[k] = <<n, step>>
        BY <2>6, <2>10
      <4>2. data[k][1] = n
        BY <4>1
      <4> QED
        BY <4>2
    <3> QED
      BY <3>1, <3>2
  <2>12. {p[2] : p \in {q \in DOMAIN from : q[1] = b /\ from[q] # Lost}}
             = {n \in DOMAIN tile[b] : from[<<b, n>>] # Lost}
    <3> DEFINE Q == {q \in Particles : q[1] = b /\ from[q] # Lost}
    <3>1. \A q \in Q : q[2] \in DOMAIN tile[b] /\ from[<<b, q[2]>>] # Lost
      BY ParticleIs
    <3>2. \A n \in DOMAIN tile[b] : from[<<b, n>>] # Lost => <<b, n>> \in Q
      BY <2>2, ParticleIs
    <3>3. \A n : <<b, n>>[2] = n
      OBVIOUS
    <3>4. Q = {q \in DOMAIN from : q[1] = b /\ from[q] # Lost}
      BY <2>8
    <3> HIDE DEF Q
    <3>5. {q[2] : q \in Q} = {n \in DOMAIN tile[b] : from[<<b, n>>] # Lost}
      BY <3>1, <3>2, <3>3
    <3> QED
      BY <3>4, <3>5
  <2>13. IsFiniteSet(rows) /\ Cardinality(rows) = m
    <3>1. IsFiniteSet(1 .. m) /\ Cardinality(1 .. m) = IF 1 > m THEN 0 ELSE m - 1 + 1
      BY <2>4, FS_Interval
    <3> QED
      BY <2>3, <2>4, <3>1
  <2>14. Cardinality(N) = Cardinality(rows)
    <3>1. \A j, k \in rows : data[j][1] = data[k][1] => j = k
      <4> SUFFICES ASSUME NEW j \in rows, NEW k \in rows, data[j][1] = data[k][1] PROVE j = k
        OBVIOUS
      <4>1. PICK n \in DOMAIN tile[b] : data[j] = <<n, step>>
        BY <2>5
      <4>2. PICK l \in DOMAIN tile[b] : data[k] = <<l, step>>
        BY <2>5
      <4>3. data[j] = data[k]
        BY <4>1, <4>2
      <4> QED
        BY <2>7, <4>3
    <3>2. number \in Bijection(rows, N)
      BY <3>1 DEF Bijection, Injection, Surjection, IsInjective
    <3> HIDE DEF number, N
    <3>3. ExistsBijection(rows, N)
      BY <3>2 DEF ExistsBijection
    <3> QED
      BY <2>13, <3>3, FS_Bijection
  <2> QED
    BY <2>3, <2>11, <2>12, <2>13, <2>14 DEF rows, data
<1> QED
  BY <1>1, <1>2, <1>3, BeamsAlways, SlotsAlways, PTL DEF Spec
=============================================================================
