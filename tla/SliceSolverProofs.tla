-------------------------- MODULE SliceSolverProofs --------------------------
(***************************************************************************)
(* Proofs about SliceSolver, for any number of slices, steps and           *)
(* iterations and any input parameters within the stated limits: the       *)
(* fields, forces, bins and currents are those of the slice when they are  *)
(* used.                                                                   *)
(***************************************************************************)
EXTENDS SliceSolver, FiniteSetTheorems, TLAPS

-----------------------------------------------------------------------------
(* The invariant                                                           *)

\* With tiling there is one level: TileSort looks for particles on level 0
\* only and bins them with the geometry of the level being solved.
TiledOnOneLevel == \A c \in Configs : c.tiling => c.finestLevel = 0

Parts == {"step", "clear", "deposit", "psi", "ezbz", "explicit", "guess", "predict",
          "correct", "reset", "beam", "ionize", "shift"}

Names(w) == DOMAIN Comps[w] \ {"N"}

Shaped(F) ==
    /\ DOMAIN F = Levels
    /\ \A l \in Levels :
           /\ DOMAIN F[l] = WhichSlice
           /\ \A w \in WhichSlice : DOMAIN F[l][w] = 0 .. Comps[w].N - 1

IsPlasma(q) ==
    /\ DOMAIN q = {"pushes", "temp", "prev", "F"}
    /\ q.pushes \in Int
    /\ DOMAIN q.F = 1 .. 5

IsBin(b) == DOMAIN b = {"found", "pushes", "temp"}

TypeOK ==
    /\ conf \in Configs
    /\ pc \in Parts
    /\ step \in Nat
    /\ isl \in Slices
    /\ lev \in Levels /\ lev <= conf.finestLevel
    /\ iter \in 0 .. MaxIter
    /\ Shaped(fields)
    /\ DOMAIN plasma = Levels /\ \A p \in Levels : IsPlasma(plasma[p])
    /\ DOMAIN bins = Levels /\ \A p \in Levels : IsBin(bins[p])
    /\ beam \in [Slices -> Nat]

\* The parts of the two solvers; the levels a slice has been solved on.
ControlOK ==
    /\ IF pc = "step" THEN lev = 0 ELSE OnLevel(isl, lev)
    /\ pc = "explicit" => conf.explicit
    /\ pc \in {"guess", "predict", "correct", "reset"} => ~conf.explicit
    /\ pc \in {"correct", "reset"} => iter > 0
    /\ pc = "shift" => \A l \in Levels : l > lev /\ l <= conf.finestLevel => ~OnLevel(isl, l)

\* The parts after the fields of a slice of a level are final.
Finished == {"beam", "ionize", "shift"}

\* The last slice that was solved on level l, if that is this slice or the
\* one before.
Newest(l) == IF l < lev \/ (l = lev /\ pc \in Finished) THEN isl ELSE isl + 1

\* Slice s of level l exists.
SliceOf(c, s, l) == s \in Slices /\ (l = 0 \/ s \in c.patch)

\* Level l has slice s or one below it.
Ahead(c, s, l) == l <= c.finestLevel /\ \E t \in Slices : t <= s /\ SliceOf(c, t, l)

\* Components of an array hold the field of slice s, or nothing if the level
\* has no such slice.
Holds(F, c, l, w, cs, name, s, ns) ==
    IF SliceOf(c, s, l)
    THEN \E n \in ns : \A d \in cs : Get(F, l, w, d) = Field(name, l, s, n)
    ELSE \A d \in cs : Get(F, l, w, d) = EmptyBag

Final == 1 .. MaxIter

PsiHolds(F, c, l, s) == Holds(F, c, l, "This", {"ExmBy", "EypBx", "Psi"}, "Psi", s, {0})

EzBzHolds(F, c, l, s) == Holds(F, c, l, "This", {"Ez", "Bz"}, "EzBz", s, {0})

BHolds(F, c, l, s, ns) == Holds(F, c, l, "This", {"Bx", "By"}, "B", s, ns)

\* The array of this slice has the final fields of slice s.
ThisHolds(F, c, l, s) ==
    PsiHolds(F, c, l, s) /\ EzBzHolds(F, c, l, s) /\ BHolds(F, c, l, s, Final)

\* The arrays of the slices before have those of slices s and s + 1.
PreviousHolds(F, c, l, s) ==
    /\ Holds(F, c, l, "Previous1", {"Psi"}, "Psi", s, {0})
    /\ Holds(F, c, l, "Previous1", {"Ez", "Bz"}, "EzBz", s, {0})
    /\ Holds(F, c, l, "Previous1", {"Bx", "By"}, "B", s, Final)
    /\ Holds(F, c, l, "Previous2", {"Bx", "By"}, "B", s + 1, Final)

\* While a slice of a level is solved.
SolvingOK ==
    /\ pc \in {"ezbz", "explicit", "guess", "predict", "correct", "reset"} =>
           PsiHolds(fields, conf, lev, isl)
    /\ pc \in {"explicit", "guess", "predict", "correct", "reset"} =>
           EzBzHolds(fields, conf, lev, isl)
    /\ pc \in {"predict", "reset"} => BHolds(fields, conf, lev, isl, {iter})
    /\ conf.explicit /\ pc \in {"deposit", "psi", "ezbz", "explicit"} =>
           BHolds(fields, conf, lev, isl + 1, Final)

\* The predictor-corrector solver leaves nothing in the next slice.
NextEmpty ==
    ~conf.explicit =>
        \A l \in Levels, c \in Names("Next") :
            ~(pc = "correct" /\ l = lev) => Get(fields, l, "Next", c) = EmptyBag

LevelOK(l) ==
    /\ PreviousHolds(fields, conf, l, isl + 1)
    /\ l # lev \/ pc \in {"clear"} \union Finished => ThisHolds(fields, conf, l, Newest(l))

FieldsOK ==
    pc # "step" =>
        /\ \A l \in Levels : Ahead(conf, isl, l) => LevelOK(l)
        /\ SolvingOK
        /\ NextEmpty

\* The slices of level l from the head down to slice s.
CountOf(c, s, l) == Cardinality({t \in s .. NSlices - 1 : l = 0 \/ t \in c.patch})

\* The labels of all fields of a slice.
AllOf(l, s, n) == {<<"Psi", l, s, 0>>, <<"EzBz", l, s, 0>>, <<"B", l, s, n>>}

\* A force term is of slice s, or missing if the level has no such slice.
ForceOf(f, c, l, s) ==
    IF SliceOf(c, s, l) THEN \E n \in Final : f = AllOf(l, s, n) ELSE f = {}

\* The plasma of level l has been pushed in this slice.
Pushed(l) ==
    l < lev \/ (l = lev /\ (pc \in Finished \/ (~conf.explicit /\ pc # "clear")))

\* The force terms have been shifted in this slice, and the first one is not
\* final.
Shifted(l) == l = lev /\ pc \in {"predict", "correct", "reset"}

\* The k-th force term is of slice s + k - 1, from the first-th on.
ForcesFrom(f, c, l, first, s) == \A k \in first .. 5 : ForceOf(f[k], c, l, s + k - 1)

ForcesOK(l) ==
    /\ IF Shifted(l) THEN ForcesFrom(plasma[l].F, conf, l, 2, isl)
                     ELSE ForcesFrom(plasma[l].F, conf, l, 1, Newest(l))
    /\ l = lev /\ pc \in {"predict", "reset"} => plasma[l].F[1] = AllOf(l, isl, iter)
    /\ l = lev /\ pc \in Finished =>
           \E n \in Final : /\ plasma[l].F[1] = AllOf(l, isl, n)
                            /\ Get(fields, l, "This", "Bx") = Field("B", l, isl, n)

ParticlesOK(l) ==
    /\ plasma[l].pushes = CountOf(conf, IF Pushed(l) THEN isl ELSE isl + 1, l)
    /\ plasma[l].temp = IF Shifted(l) THEN iter ELSE 0
    /\ l = lev /\ Pushed(l) /\ pc \notin Finished => plasma[l].prev = plasma[l].pushes

PlasmaOK ==
    pc # "step" =>
        \A l \in conf.plasmas : Ahead(conf, isl, l) => ParticlesOK(l) /\ ForcesOK(l)

BinsOK ==
    conf.tiling /\ pc # "step" =>
        \A p \in conf.plasmas :
            /\ bins[p].found = "all"
            /\ pc \in {"deposit", "correct"} =>
                   bins[p].pushes = plasma[p].pushes /\ bins[p].temp = plasma[p].temp

SliceInv == TypeOK /\ ControlOK /\ FieldsOK /\ PlasmaOK /\ BinsOK

-----------------------------------------------------------------------------
(* The field arrays                                                        *)

NextNames == {"jx", "jx_beam", "jy", "jy_beam"}

ThisNames == {"ExmBy", "EypBx", "Ez", "Bx", "By", "Bz", "jx", "jx_beam", "jy", "jy_beam",
              "jz", "jz_beam", "rho", "Psi", "jxx", "jxy", "jyy"}

PreviousNames == {"Ez", "Bx", "By", "Bz", "jx", "jx_beam", "jy", "jy_beam", "rho", "Psi"}

LEMMA NamesAre ==
    /\ Names("Next") = NextNames
    /\ Names("This") = ThisNames
    /\ Names("Previous1") = PreviousNames
    /\ Names("Previous2") = {"Bx", "By"}
    /\ Names("RhoIons") = {"rho"}
<1>1. Names("Next") = NextNames
  BY DEF Names, NextNames, Comps
<1>2. Names("This") = ThisNames
  BY DEF Names, ThisNames, Comps
<1>3. Names("Previous1") = PreviousNames
  BY DEF Names, PreviousNames, Comps
<1>4. Names("Previous2") = {"Bx", "By"} /\ Names("RhoIons") = {"rho"}
  BY DEF Names, Comps
<1> QED
  BY <1>1, <1>2, <1>3, <1>4

LEMMA NextComps ==
    /\ Comps["Next"]["jx"] = 0 /\ Comps["Next"]["jx_beam"] = 1
    /\ Comps["Next"]["jy"] = 2 /\ Comps["Next"]["jy_beam"] = 3
    /\ Comps["Next"].N = 4
  BY DEF Comps

LEMMA ThisComps ==
    /\ Comps["This"]["ExmBy"] = 0 /\ Comps["This"]["EypBx"] = 1
    /\ Comps["This"]["Ez"] = 2 /\ Comps["This"]["Bx"] = 3
    /\ Comps["This"]["By"] = 4 /\ Comps["This"]["Bz"] = 5
    /\ Comps["This"]["jx"] = 6 /\ Comps["This"]["jx_beam"] = 7
    /\ Comps["This"]["jy"] = 8 /\ Comps["This"]["jy_beam"] = 9
    /\ Comps["This"]["jz"] = 10 /\ Comps["This"]["jz_beam"] = 11
    /\ Comps["This"]["rho"] = 12 /\ Comps["This"]["Psi"] = 13
    /\ Comps["This"]["jxx"] = 14 /\ Comps["This"]["jxy"] = 15
    /\ Comps["This"]["jyy"] = 16 /\ Comps["This"].N = 17
  BY DEF Comps

LEMMA PreviousComps ==
    /\ Comps["Previous1"]["Ez"] = 0 /\ Comps["Previous1"]["Bx"] = 1
    /\ Comps["Previous1"]["By"] = 2 /\ Comps["Previous1"]["Bz"] = 3
    /\ Comps["Previous1"]["jx"] = 4 /\ Comps["Previous1"]["jx_beam"] = 5
    /\ Comps["Previous1"]["jy"] = 6 /\ Comps["Previous1"]["jy_beam"] = 7
    /\ Comps["Previous1"]["rho"] = 8 /\ Comps["Previous1"]["Psi"] = 9
    /\ Comps["Previous1"].N = 10
    /\ Comps["Previous2"]["Bx"] = 0 /\ Comps["Previous2"]["By"] = 1
    /\ Comps["Previous2"].N = 2
  BY DEF Comps

LEMMA IonComps == Comps["RhoIons"]["rho"] = 0 /\ Comps["RhoIons"].N = 1
  BY DEF Comps

\* The components of an array are at different indices.
LEMMA CompsDistinct ==
    ASSUME NEW w \in WhichSlice, NEW c \in Names(w)
    PROVE  /\ Comps[w][c] \in 0 .. Comps[w].N - 1
           /\ \A d \in Names(w) : Comps[w][d] = Comps[w][c] => d = c
<1>1. CASE w = "Next"
  BY <1>1, NamesAre, NextComps DEF NextNames
<1>2. CASE w = "This"
  <2>1. c \in ThisNames /\ Names(w) = ThisNames
    BY <1>2, NamesAre
  <2>2. Comps["This"][c] \in 0 .. 16
    BY <2>1, ThisComps DEF ThisNames
  <2>3. ASSUME NEW d \in ThisNames, Comps["This"][d] = Comps["This"][c] PROVE d = c
    BY <2>1, <2>3, ThisComps DEF ThisNames
  <2> QED
    BY <1>2, <2>1, <2>2, <2>3, ThisComps
<1>3. CASE w = "Previous1"
  BY <1>3, NamesAre, PreviousComps DEF PreviousNames
<1>4. CASE w = "Previous2"
  BY <1>4, NamesAre, PreviousComps
<1>5. CASE w = "RhoIons"
  BY <1>5, NamesAre, IonComps
<1> QED
  BY <1>1, <1>2, <1>3, <1>4, <1>5 DEF WhichSlice

\* One array replaced by another of its size.
Replaces(G, F, l, w, h) == DOMAIN h = DOMAIN F[l][w] /\ G = [F EXCEPT ![l][w] = h]

\* The other arrays stay.
LEMMA ReplaceEffect ==
    ASSUME NEW F, Shaped(F), NEW l \in Levels, NEW w \in WhichSlice,
           NEW h, NEW G, Replaces(G, F, l, w, h)
    PROVE  /\ Shaped(G)
           /\ \A m \in Levels, v \in WhichSlice : \A c \in Names(v) :
                  Get(G, m, v, c) =
                      IF m = l /\ v = w THEN h[Comps[w][c]] ELSE Get(F, m, v, c)
<1>1. /\ DOMAIN F = Levels
      /\ \A m \in Levels : DOMAIN F[m] = WhichSlice
      /\ \A m \in Levels, v \in WhichSlice : DOMAIN F[m][v] = 0 .. Comps[v].N - 1
  BY DEF Shaped
<1>2. /\ DOMAIN G = Levels
      /\ \A m \in Levels : DOMAIN G[m] = WhichSlice
      /\ \A m \in Levels, v \in WhichSlice : m # l \/ v # w => G[m][v] = F[m][v]
      /\ G[l][w] = h
  BY <1>1 DEF Replaces
<1>3. Shaped(G)
  BY <1>1, <1>2 DEF Shaped, Replaces
<1>4. \A m \in Levels, v \in WhichSlice : \A c \in Names(v) :
          Get(G, m, v, c) = IF m = l /\ v = w THEN h[Comps[w][c]] ELSE Get(F, m, v, c)
  BY <1>2 DEF Get
<1> QED
  BY <1>3, <1>4

\* What Set does to each component.
LEMMA SetEffect ==
    ASSUME NEW F, Shaped(F), NEW l \in Levels, NEW w \in WhichSlice,
           NEW cs \in SUBSET Names(w), NEW b
    PROVE  /\ Shaped(Set(F, l, w, cs, b))
           /\ \A m \in Levels, v \in WhichSlice : \A c \in Names(v) :
                  Get(Set(F, l, w, cs, b), m, v, c) =
                      IF m = l /\ v = w /\ c \in cs THEN b ELSE Get(F, m, v, c)
<1> DEFINE h == [k \in DOMAIN F[l][w] |->
                     IF \E c \in cs : Comps[w][c] = k THEN b ELSE F[l][w][k]]
<1> DEFINE G == Set(F, l, w, cs, b)
<1>1. Replaces(G, F, l, w, h)
  BY DEF Set, Replaces
<1>3. ASSUME NEW c \in Names(w)
      PROVE  h[Comps[w][c]] = IF c \in cs THEN b ELSE F[l][w][Comps[w][c]]
  <2>1. Comps[w][c] \in DOMAIN F[l][w]
    <3>1. Comps[w][c] \in 0 .. Comps[w].N - 1
      BY CompsDistinct
    <3> QED
      BY <3>1 DEF Shaped
  <2>2. CASE c \in cs
    BY <2>1, <2>2
  <2>3. CASE c \notin cs
    <3>1. ~ \E d \in cs : Comps[w][d] = Comps[w][c]
      BY <2>3, CompsDistinct
    <3> QED
      BY <2>1, <2>3, <3>1
  <2> QED
    BY <2>2, <2>3
<1> HIDE DEF h, G
<1>4. /\ Shaped(G)
      /\ \A m \in Levels, v \in WhichSlice : \A c \in Names(v) :
             Get(G, m, v, c) =
                 IF m = l /\ v = w THEN h[Comps[w][c]] ELSE Get(F, m, v, c)
  BY <1>1, ReplaceEffect
<1>5. ASSUME NEW m \in Levels, NEW v \in WhichSlice, NEW c \in Names(v)
      PROVE  Get(G, m, v, c) =
              IF m = l /\ v = w /\ c \in cs THEN b ELSE Get(F, m, v, c)
  <2>1. CASE m = l /\ v = w
    BY <1>3, <1>4, <2>1 DEF Get
  <2>2. CASE ~(m = l /\ v = w)
    BY <1>4, <2>2
  <2> QED
    BY <2>1, <2>2
<1> QED
  BY <1>4, <1>5 DEF G

\* What Add does to each component.
LEMMA AddEffect ==
    ASSUME NEW F, Shaped(F), NEW l \in Levels, NEW w \in WhichSlice,
           NEW cs \in SUBSET Names(w), NEW b
    PROVE  /\ Shaped(Add(F, l, w, cs, b))
           /\ \A m \in Levels, v \in WhichSlice : \A c \in Names(v) :
                  Get(Add(F, l, w, cs, b), m, v, c) =
                      IF m = l /\ v = w /\ c \in cs THEN Get(F, m, v, c) (+) b
                                                    ELSE Get(F, m, v, c)
<1> DEFINE h == [k \in DOMAIN F[l][w] |->
                     IF \E c \in cs : Comps[w][c] = k THEN F[l][w][k] (+) b ELSE F[l][w][k]]
<1> DEFINE G == Add(F, l, w, cs, b)
<1>1. Replaces(G, F, l, w, h)
  BY DEF Add, Replaces
<1>3. ASSUME NEW c \in Names(w)
      PROVE  h[Comps[w][c]] = IF c \in cs THEN F[l][w][Comps[w][c]] (+) b
                                          ELSE F[l][w][Comps[w][c]]
  <2>1. Comps[w][c] \in DOMAIN F[l][w]
    <3>1. Comps[w][c] \in 0 .. Comps[w].N - 1
      BY CompsDistinct
    <3> QED
      BY <3>1 DEF Shaped
  <2>2. CASE c \in cs
    BY <2>1, <2>2
  <2>3. CASE c \notin cs
    <3>1. ~ \E d \in cs : Comps[w][d] = Comps[w][c]
      BY <2>3, CompsDistinct
    <3> QED
      BY <2>1, <2>3, <3>1
  <2> QED
    BY <2>2, <2>3
<1> HIDE DEF h, G
<1>4. /\ Shaped(G)
      /\ \A m \in Levels, v \in WhichSlice : \A c \in Names(v) :
             Get(G, m, v, c) =
                 IF m = l /\ v = w THEN h[Comps[w][c]] ELSE Get(F, m, v, c)
  BY <1>1, ReplaceEffect
<1>5. ASSUME NEW m \in Levels, NEW v \in WhichSlice, NEW c \in Names(v)
      PROVE  Get(G, m, v, c) =
              IF m = l /\ v = w /\ c \in cs THEN Get(F, m, v, c) (+) b ELSE Get(F, m, v, c)
  <2>1. CASE m = l /\ v = w
    BY <1>3, <1>4, <2>1 DEF Get
  <2>2. CASE ~(m = l /\ v = w)
    BY <1>4, <2>2
  <2> QED
    BY <2>1, <2>2
<1> QED
  BY <1>4, <1>5 DEF G

\* What setVal(0) does to each component.
LEMMA SetZeroEffect ==
    ASSUME NEW F, Shaped(F), NEW l \in Levels, NEW w \in WhichSlice,
           NEW first \in Int, NEW n \in Int
    PROVE  /\ Shaped(SetZero(F, l, w, first, n))
           /\ \A m \in Levels, v \in WhichSlice : \A c \in Names(v) :
                  Get(SetZero(F, l, w, first, n), m, v, c) =
                      IF m = l /\ v = w /\ Comps[w][c] \in first .. first + n - 1
                      THEN EmptyBag ELSE Get(F, m, v, c)
<1> DEFINE h == [k \in DOMAIN F[l][w] |->
                     IF k \in first .. first + n - 1 THEN EmptyBag ELSE F[l][w][k]]
<1> DEFINE G == SetZero(F, l, w, first, n)
<1>1. Replaces(G, F, l, w, h)
  BY DEF SetZero, Replaces
<1>3. ASSUME NEW c \in Names(w)
      PROVE  h[Comps[w][c]] = IF Comps[w][c] \in first .. first + n - 1
                              THEN EmptyBag ELSE F[l][w][Comps[w][c]]
  <2>1. Comps[w][c] \in DOMAIN F[l][w]
    <3>1. Comps[w][c] \in 0 .. Comps[w].N - 1
      BY CompsDistinct
    <3> QED
      BY <3>1 DEF Shaped
  <2> QED
    BY <2>1
<1> HIDE DEF h, G
<1>4. /\ Shaped(G)
      /\ \A m \in Levels, v \in WhichSlice : \A c \in Names(v) :
             Get(G, m, v, c) =
                 IF m = l /\ v = w THEN h[Comps[w][c]] ELSE Get(F, m, v, c)
  BY <1>1, ReplaceEffect
<1>5. ASSUME NEW m \in Levels, NEW v \in WhichSlice, NEW c \in Names(v)
      PROVE  Get(G, m, v, c) =
              IF m = l /\ v = w /\ Comps[w][c] \in first .. first + n - 1
              THEN EmptyBag ELSE Get(F, m, v, c)
  <2>1. CASE m = l /\ v = w
    BY <1>3, <1>4, <2>1 DEF Get
  <2>2. CASE ~(m = l /\ v = w)
    BY <1>4, <2>2
  <2> QED
    BY <2>1, <2>2
<1> QED
  BY <1>4, <1>5 DEF G

\* What a copy of components between two arrays does to each component.
LEMMA CopyEffect ==
    ASSUME NEW F, Shaped(F), NEW l \in Levels, NEW dst \in WhichSlice, NEW src \in WhichSlice,
           NEW dcomp \in Int, NEW scomp \in Int, NEW n \in Int
    PROVE  /\ Shaped(Copy(F, l, dst, src, dcomp, scomp, n))
           /\ \A m \in Levels, v \in WhichSlice : \A c \in Names(v) :
                  Get(Copy(F, l, dst, src, dcomp, scomp, n), m, v, c) =
                      IF m = l /\ v = dst /\ Comps[dst][c] \in dcomp .. dcomp + n - 1
                      THEN F[l][src][scomp + (Comps[dst][c] - dcomp)] ELSE Get(F, m, v, c)
<1> DEFINE h == [k \in DOMAIN F[l][dst] |->
                     IF k \in dcomp .. dcomp + n - 1 THEN F[l][src][scomp + (k - dcomp)]
                                                     ELSE F[l][dst][k]]
<1> DEFINE G == Copy(F, l, dst, src, dcomp, scomp, n)
<1>1. Replaces(G, F, l, dst, h)
  BY DEF Copy, Replaces
<1>3. ASSUME NEW c \in Names(dst)
      PROVE  h[Comps[dst][c]] = IF Comps[dst][c] \in dcomp .. dcomp + n - 1
                                THEN F[l][src][scomp + (Comps[dst][c] - dcomp)]
                                ELSE F[l][dst][Comps[dst][c]]
  <2>1. Comps[dst][c] \in DOMAIN F[l][dst]
    <3>1. Comps[dst][c] \in 0 .. Comps[dst].N - 1
      BY CompsDistinct
    <3> QED
      BY <3>1 DEF Shaped
  <2> QED
    BY <2>1
<1> HIDE DEF h, G
<1>4. /\ Shaped(G)
      /\ \A m \in Levels, v \in WhichSlice : \A c \in Names(v) :
             Get(G, m, v, c) =
                 IF m = l /\ v = dst THEN h[Comps[dst][c]] ELSE Get(F, m, v, c)
  BY <1>1, ReplaceEffect
<1>5. ASSUME NEW m \in Levels, NEW v \in WhichSlice, NEW c \in Names(v)
      PROVE  Get(G, m, v, c) =
              IF m = l /\ v = dst /\ Comps[dst][c] \in dcomp .. dcomp + n - 1
              THEN F[l][src][scomp + (Comps[dst][c] - dcomp)] ELSE Get(F, m, v, c)
  <2>1. CASE m = l /\ v = dst
    BY <1>3, <1>4, <2>1 DEF Get
  <2>2. CASE ~(m = l /\ v = dst)
    BY <1>4, <2>2
  <2> QED
    BY <2>1, <2>2
<1> QED
  BY <1>4, <1>5 DEF G

\* ShiftSlices moves every component of This that Previous1 has, and B of
\* Previous1, by one slice.
LEMMA ShiftLevelEffect ==
    ASSUME NEW F, Shaped(F), NEW l \in Levels
    PROVE  /\ Shaped(ShiftLevel(F, l))
           /\ \A c \in Names("Previous2") :
                  Get(ShiftLevel(F, l), l, "Previous2", c) = Get(F, l, "Previous1", c)
           /\ \A c \in Names("Previous1") :
                  Get(ShiftLevel(F, l), l, "Previous1", c) = Get(F, l, "This", c)
           /\ \A m \in Levels, v \in WhichSlice : \A c \in Names(v) :
                  ~(m = l /\ v \in {"Previous1", "Previous2"}) =>
                      Get(ShiftLevel(F, l), m, v, c) = Get(F, m, v, c)
<1> DEFINE G1 == ShiftB(F, l)
           G2 == ShiftFields(G1, l)
           G3 == ShiftRhoPsi(G2, l)
<1>0. {"This", "Previous1", "Previous2"} \subseteq WhichSlice
  BY DEF WhichSlice
<1>1. /\ G1 = Copy(F, l, "Previous2", "Previous1", 0, 1, 2)
      /\ G2 = Copy(G1, l, "Previous1", "This", 0, 2, 8)
      /\ G3 = Copy(G2, l, "Previous1", "This", 8, 12, 2)
  BY ThisComps, PreviousComps DEF ShiftB, ShiftFields, ShiftRhoPsi
<1>2. ShiftLevel(F, l) = G3
  BY DEF ShiftLevel
<1> HIDE DEF G1, G2, G3
<1>3. /\ Shaped(G1)
      /\ \A m \in Levels, v \in WhichSlice : \A c \in Names(v) :
             Get(G1, m, v, c) =
                 IF m = l /\ v = "Previous2" /\ Comps["Previous2"][c] \in 0 .. 0 + 2 - 1
                 THEN F[l]["Previous1"][1 + (Comps["Previous2"][c] - 0)]
                 ELSE Get(F, m, v, c)
  BY <1>0, <1>1, CopyEffect
<1>4. /\ Shaped(G2)
      /\ \A m \in Levels, v \in WhichSlice : \A c \in Names(v) :
             Get(G2, m, v, c) =
                 IF m = l /\ v = "Previous1" /\ Comps["Previous1"][c] \in 0 .. 0 + 8 - 1
                 THEN G1[l]["This"][2 + (Comps["Previous1"][c] - 0)]
                 ELSE Get(G1, m, v, c)
  BY <1>0, <1>1, <1>3, CopyEffect
<1>5. /\ Shaped(G3)
      /\ \A m \in Levels, v \in WhichSlice : \A c \in Names(v) :
             Get(G3, m, v, c) =
                 IF m = l /\ v = "Previous1" /\ Comps["Previous1"][c] \in 8 .. 8 + 2 - 1
                 THEN G2[l]["This"][12 + (Comps["Previous1"][c] - 8)]
                 ELSE Get(G2, m, v, c)
  BY <1>0, <1>1, <1>4, CopyEffect
<1>6. ASSUME NEW c \in Names("Previous2")
      PROVE  Get(G3, l, "Previous2", c) = Get(F, l, "Previous1", c)
  <2>1. Get(G3, l, "Previous2", c) = Get(G1, l, "Previous2", c)
    BY <1>0, <1>4, <1>5
  <2>2. Get(G1, l, "Previous2", c) = Get(F, l, "Previous1", c)
    <3>1. CASE c = "Bx"
      BY <1>0, <1>3, <3>1, PreviousComps DEF Get
    <3>2. CASE c = "By"
      BY <1>0, <1>3, <3>2, PreviousComps DEF Get
    <3> QED
      BY <3>1, <3>2, NamesAre
  <2> QED
    BY <2>1, <2>2
<1>7. ASSUME NEW c \in Names("This")
      PROVE  /\ Get(G2, l, "This", c) = Get(F, l, "This", c)
             /\ Get(G1, l, "This", c) = Get(F, l, "This", c)
  BY <1>0, <1>3, <1>4
<1>8. ASSUME NEW c \in Names("Previous1")
      PROVE  Get(G3, l, "Previous1", c) = Get(F, l, "This", c)
  <2>1. c \in Names("This") /\ c \in PreviousNames
    BY NamesAre DEF PreviousNames, ThisNames
  <2>2. CASE c \in {"rho", "Psi"}
    <3>1. Get(G3, l, "Previous1", c) = G2[l]["This"][12 + (Comps["Previous1"][c] - 8)]
      BY <1>0, <1>5, <2>2, PreviousComps
    <3>2. 12 + (Comps["Previous1"][c] - 8) = Comps["This"][c]
      BY <2>2, PreviousComps, ThisComps
    <3> QED
      BY <1>7, <2>1, <3>1, <3>2 DEF Get
  <2>3. CASE c \notin {"rho", "Psi"}
    <3>1. /\ Comps["Previous1"][c] \in 0 .. 7
          /\ 2 + (Comps["Previous1"][c] - 0) = Comps["This"][c]
      BY <2>1, <2>3, PreviousComps, ThisComps DEF PreviousNames
    <3>2. Get(G3, l, "Previous1", c) = Get(G2, l, "Previous1", c)
      BY <1>0, <1>5, <3>1
    <3>3. Get(G2, l, "Previous1", c) = G1[l]["This"][2 + (Comps["Previous1"][c] - 0)]
      BY <1>0, <1>4, <3>1
    <3> QED
      BY <1>7, <2>1, <3>1, <3>2, <3>3 DEF Get
  <2> QED
    BY <2>2, <2>3
<1>9. \A m \in Levels, v \in WhichSlice : \A c \in Names(v) :
          ~(m = l /\ v \in {"Previous1", "Previous2"}) => Get(G3, m, v, c) = Get(F, m, v, c)
  BY <1>3, <1>4, <1>5
<1> QED
  BY <1>2, <1>5, <1>6, <1>8, <1>9

\* The array of this slice but for the guess.
LEMMA ClearButGuessEffect ==
    ASSUME NEW F, Shaped(F), NEW l \in Levels
    PROVE  /\ Shaped(ClearButGuess(F, l))
           /\ \A m \in Levels, v \in WhichSlice : \A c \in Names(v) :
                  Get(ClearButGuess(F, l), m, v, c) =
                      IF m = l /\ v = "This" /\ c \notin {"Bx", "By"} THEN EmptyBag
                                                               ELSE Get(F, m, v, c)
<1> DEFINE G1 == ClearUpToGuess(F, l)
           G2 == ClearButGuess(F, l)
<1>0. "This" \in WhichSlice
  BY DEF WhichSlice
<1>1. G1 = SetZero(F, l, "This", 0, 3) /\ G2 = SetZero(G1, l, "This", 5, 12)
  BY ThisComps DEF ClearUpToGuess, ClearButGuess
<1> HIDE DEF G1, G2
<1>2. /\ Shaped(G1)
      /\ \A m \in Levels, v \in WhichSlice : \A c \in Names(v) :
             Get(G1, m, v, c) = IF m = l /\ v = "This" /\ Comps["This"][c] \in 0 .. 0 + 3 - 1
                                THEN EmptyBag ELSE Get(F, m, v, c)
  BY <1>0, <1>1, SetZeroEffect
<1>3. /\ Shaped(G2)
      /\ \A m \in Levels, v \in WhichSlice : \A c \in Names(v) :
             Get(G2, m, v, c) = IF m = l /\ v = "This" /\ Comps["This"][c] \in 5 .. 5 + 12 - 1
                                THEN EmptyBag ELSE Get(G1, m, v, c)
  BY <1>0, <1>1, <1>2, SetZeroEffect
<1>4. ASSUME NEW c \in Names("This")
      PROVE  Comps["This"][c] \in 0 .. 0 + 3 - 1 \/ Comps["This"][c] \in 5 .. 5 + 12 - 1 <=>
                 c \notin {"Bx", "By"}
  BY NamesAre, ThisComps DEF ThisNames
<1>5. \A m \in Levels, v \in WhichSlice : \A c \in Names(v) :
          Get(G2, m, v, c) = IF m = l /\ v = "This" /\ c \notin {"Bx", "By"} THEN EmptyBag
                                                                      ELSE Get(F, m, v, c)
  BY <1>2, <1>3, <1>4
<1> QED
  BY <1>3, <1>5 DEF G2

LEMMA DepositPlasmaEffect ==
    ASSUME NEW F, Shaped(F), NEW l \in Levels, NEW w \in WhichSlice,
           NEW cs \in SUBSET Names(w), NEW P, NEW B
    PROVE  /\ Shaped(DepositPlasma(F, l, w, cs, P, B))
           /\ \A m \in Levels, v \in WhichSlice : \A c \in Names(v) :
                  Get(DepositPlasma(F, l, w, cs, P, B), m, v, c) =
                      IF Reached(l, B) /\ m = l /\ v = w /\ c \in cs
                      THEN Get(F, m, v, c) (+) PlasmaCurrent(l, P[l].pushes, P[l].temp)
                      ELSE Get(F, m, v, c)
<1> DEFINE b == PlasmaCurrent(l, P[l].pushes, P[l].temp)
<1>1. DepositPlasma(F, l, w, cs, P, B) = IF Reached(l, B) THEN Add(F, l, w, cs, b) ELSE F
  BY DEF DepositPlasma
<1> HIDE DEF b
<1>2. CASE Reached(l, B)
  BY <1>1, <1>2, AddEffect DEF b
<1>3. CASE ~Reached(l, B)
  BY <1>1, <1>3
<1> QED
  BY <1>2, <1>3

\* The components the beam is deposited in.
BeamComps(w) ==
    (IF conf.beamJxJy THEN {"jx_beam", "jy_beam"} ELSE {})
        \union (IF w = "This" THEN {"jz_beam"} ELSE {})

BeamSlice(w) == IF w = "This" THEN isl ELSE isl - 1

LEMMA DepositBeamEffect ==
    ASSUME NEW F, Shaped(F), NEW l \in Levels, NEW w \in {"This", "Next"}
    PROVE  /\ Shaped(DepositBeam(F, l, w))
           /\ \A m \in Levels, v \in WhichSlice : \A c \in Names(v) :
                  Get(DepositBeam(F, l, w), m, v, c) =
                      IF /\ DepositsBeam(l) /\ BeamSlice(w) \in Slices
                         /\ m = l /\ v = w /\ c \in BeamComps(w)
                      THEN Get(F, m, v, c) (+) BeamCurrent(BeamSlice(w), beam[BeamSlice(w)])
                      ELSE Get(F, m, v, c)
<1> DEFINE s == BeamSlice(w)
           b == BeamCurrent(s, beam[s])
<1>1. DepositBeam(F, l, w) = IF DepositsBeam(l) /\ s \in Slices
                             THEN Add(F, l, w, BeamComps(w), b) ELSE F
  BY DEF DepositBeam, BeamSlice, BeamComps
<1>2. w \in WhichSlice /\ BeamComps(w) \in SUBSET Names(w)
  BY NamesAre DEF WhichSlice, BeamComps, ThisNames, NextNames
<1> HIDE DEF s, b
<1>3. CASE DepositsBeam(l) /\ s \in Slices
  <2>1. DepositBeam(F, l, w) = Add(F, l, w, BeamComps(w), b)
    BY <1>1, <1>3
  <2>2. /\ Shaped(DepositBeam(F, l, w))
        /\ \A m \in Levels, v \in WhichSlice : \A c \in Names(v) :
               Get(DepositBeam(F, l, w), m, v, c) =
                   IF m = l /\ v = w /\ c \in BeamComps(w)
                   THEN Get(F, m, v, c) (+) b ELSE Get(F, m, v, c)
    BY <1>2, <2>1, AddEffect
  <2> QED
    BY <1>3, <2>2 DEF s, b
<1>4. CASE ~(DepositsBeam(l) /\ s \in Slices)
  <2>1. DepositBeam(F, l, w) = F
    BY <1>1, <1>4
  <2> QED
    BY <1>4, <2>1 DEF s
<1> QED
  BY <1>3, <1>4

LEMMA DepositGridCurrentEffect ==
    ASSUME NEW F, Shaped(F), NEW l \in Levels
    PROVE  /\ Shaped(DepositGridCurrent(F, l))
           /\ \A m \in Levels, v \in WhichSlice : \A c \in Names(v) :
                  Get(DepositGridCurrent(F, l), m, v, c) =
                      IF conf.gridLevel >= l /\ m = l /\ v = "This" /\ c = "jz_beam"
                      THEN Get(F, m, v, c) (+) GridCurrent(isl) ELSE Get(F, m, v, c)
<1>1. "This" \in WhichSlice /\ {"jz_beam"} \in SUBSET Names("This")
  BY NamesAre DEF WhichSlice, ThisNames
<1>2. CASE conf.gridLevel >= l
  BY <1>1, <1>2, AddEffect DEF DepositGridCurrent
<1>3. CASE ~(conf.gridLevel >= l)
  BY <1>3 DEF DepositGridCurrent
<1> QED
  BY <1>2, <1>3

\* The full currents get what is in the components of the beam.
LEMMA AddBeamCurrentsEffect ==
    ASSUME NEW F, Shaped(F), NEW l \in Levels, NEW w \in {"This", "Next"}
    PROVE  /\ Shaped(AddBeamCurrents(F, l, w))
           /\ \A m \in Levels, v \in WhichSlice : \A c \in Names(v) :
                  ~(m = l /\ v = w /\ c \in {"jx", "jy", "jz"}) =>
                      Get(AddBeamCurrents(F, l, w), m, v, c) = Get(F, m, v, c)
           /\ Get(AddBeamCurrents(F, l, w), l, w, "jx") =
                  Get(F, l, w, "jx") (+) Get(F, l, w, "jx_beam")
           /\ Get(AddBeamCurrents(F, l, w), l, w, "jy") =
                  Get(F, l, w, "jy") (+) Get(F, l, w, "jy_beam")
           /\ w = "This" => Get(AddBeamCurrents(F, l, w), l, w, "jz") =
                                Get(F, l, w, "jz") (+) Get(F, l, w, "jz_beam")
<1> DEFINE G1 == Add(F, l, w, {"jx"}, Get(F, l, w, "jx_beam"))
           G2 == Add(G1, l, w, {"jy"}, Get(F, l, w, "jy_beam"))
           G3 == IF w = "This" THEN Add(G2, l, w, {"jz"}, Get(F, l, w, "jz_beam")) ELSE G2
<1>0. /\ w \in WhichSlice /\ {"jx", "jy", "jx_beam", "jy_beam"} \subseteq Names(w)
      /\ w = "This" => {"jz", "jz_beam"} \subseteq Names(w)
  BY NamesAre DEF WhichSlice, ThisNames, NextNames
<1>1. AddBeamCurrents(F, l, w) = G3
  BY DEF AddBeamCurrents
<1>2. /\ Shaped(G1)
      /\ \A m \in Levels, v \in WhichSlice : \A c \in Names(v) :
             Get(G1, m, v, c) = IF m = l /\ v = w /\ c \in {"jx"}
                                THEN Get(F, m, v, c) (+) Get(F, l, w, "jx_beam")
                                ELSE Get(F, m, v, c)
  BY <1>0, AddEffect
<1> HIDE DEF G1
<1>3. /\ Shaped(G2)
      /\ \A m \in Levels, v \in WhichSlice : \A c \in Names(v) :
             Get(G2, m, v, c) = IF m = l /\ v = w /\ c \in {"jy"}
                                THEN Get(G1, m, v, c) (+) Get(F, l, w, "jy_beam")
                                ELSE Get(G1, m, v, c)
  BY <1>0, <1>2, AddEffect
<1> HIDE DEF G2
<1>4. /\ Shaped(G3)
      /\ \A m \in Levels, v \in WhichSlice : \A c \in Names(v) :
             Get(G3, m, v, c) = IF w = "This" /\ m = l /\ v = w /\ c \in {"jz"}
                                THEN Get(G2, m, v, c) (+) Get(F, l, w, "jz_beam")
                                ELSE Get(G2, m, v, c)
  <2>1. CASE w = "This"
    <3>1. G3 = Add(G2, l, w, {"jz"}, Get(F, l, w, "jz_beam"))
      BY <2>1
    <3>2. {"jz"} \in SUBSET Names(w)
      BY <1>0, <2>1
    <3> HIDE DEF G3
    <3>3. /\ Shaped(G3)
          /\ \A m \in Levels, v \in WhichSlice : \A c \in Names(v) :
                 Get(G3, m, v, c) = IF m = l /\ v = w /\ c \in {"jz"}
                                    THEN Get(G2, m, v, c) (+) Get(F, l, w, "jz_beam")
                                    ELSE Get(G2, m, v, c)
      BY <1>0, <1>3, <3>1, <3>2, AddEffect
    <3> QED
      BY <2>1, <3>3
  <2>2. CASE w # "This"
    BY <1>3, <2>2
  <2> QED
    BY <2>1, <2>2
<1> HIDE DEF G3
<1>5. \A m \in Levels, v \in WhichSlice : \A c \in Names(v) :
          ~(m = l /\ v = w /\ c \in {"jx", "jy", "jz"}) => Get(G3, m, v, c) = Get(F, m, v, c)
  BY <1>2, <1>3, <1>4
<1>6. Get(G3, l, w, "jx") = Get(F, l, w, "jx") (+) Get(F, l, w, "jx_beam")
  BY <1>0, <1>2, <1>3, <1>4
<1>7. Get(G3, l, w, "jy") = Get(F, l, w, "jy") (+) Get(F, l, w, "jy_beam")
  <2>1. Get(G1, l, w, "jy") = Get(F, l, w, "jy")
    BY <1>0, <1>2
  <2> QED
    BY <1>0, <1>3, <1>4, <2>1
<1>8. w = "This" => Get(G3, l, w, "jz") = Get(F, l, w, "jz") (+) Get(F, l, w, "jz_beam")
  <2>1. SUFFICES ASSUME w = "This"
                 PROVE  Get(G3, l, w, "jz") = Get(F, l, w, "jz") (+) Get(F, l, w, "jz_beam")
    OBVIOUS
  <2>2. Get(G2, l, w, "jz") = Get(F, l, w, "jz")
    BY <1>0, <1>2, <1>3, <2>1
  <2> QED
    BY <1>0, <1>4, <2>1, <2>2
<1> QED
  BY <1>1, <1>4, <1>5, <1>6, <1>7, <1>8

\* The ions put into rho of this slice, or taken out.
LEMMA RhoIonsEffect ==
    ASSUME NEW F, Shaped(F), NEW l \in Levels
    PROVE  /\ Shaped(AddRhoIons(F, l))
           /\ \A m \in Levels, v \in WhichSlice : \A c \in Names(v) :
                  Get(AddRhoIons(F, l), m, v, c) =
                      IF m = l /\ v = "This" /\ c = "rho"
                      THEN Get(F, m, v, c) (+) Get(F, l, "RhoIons", "rho") ELSE Get(F, m, v, c)
           /\ Shaped(SubtractRhoIons(F, l))
           /\ \A m \in Levels, v \in WhichSlice : \A c \in Names(v) :
                  Get(SubtractRhoIons(F, l), m, v, c) =
                      IF m = l /\ v = "This" /\ c = "rho"
                      THEN Get(F, l, "This", "rho") (-) Get(F, l, "RhoIons", "rho")
                      ELSE Get(F, m, v, c)
<1>1. "This" \in WhichSlice /\ {"rho"} \in SUBSET Names("This")
  BY NamesAre DEF WhichSlice, ThisNames
<1> DEFINE a == Get(F, l, "RhoIons", "rho")
           b == Get(F, l, "This", "rho") (-) Get(F, l, "RhoIons", "rho")
<1>2. /\ AddRhoIons(F, l) = Add(F, l, "This", {"rho"}, a)
      /\ SubtractRhoIons(F, l) = Set(F, l, "This", {"rho"}, b)
  BY DEF AddRhoIons, SubtractRhoIons
<1> HIDE DEF a, b
<1>3. /\ Shaped(AddRhoIons(F, l))
      /\ \A m \in Levels, v \in WhichSlice : \A c \in Names(v) :
             Get(AddRhoIons(F, l), m, v, c) =
                 IF m = l /\ v = "This" /\ c \in {"rho"} THEN Get(F, m, v, c) (+) a
                                                         ELSE Get(F, m, v, c)
  BY <1>1, <1>2, AddEffect
<1>4. /\ Shaped(SubtractRhoIons(F, l))
      /\ \A m \in Levels, v \in WhichSlice : \A c \in Names(v) :
             Get(SubtractRhoIons(F, l), m, v, c) =
                 IF m = l /\ v = "This" /\ c \in {"rho"} THEN b ELSE Get(F, m, v, c)
  BY <1>1, <1>2, SetEffect
<1> QED
  BY <1>3, <1>4 DEF a, b

-----------------------------------------------------------------------------
(* What the actions do to the field arrays                                 *)

Same(m, v, c) == Get(fields', m, v, c) = Get(fields, m, v, c)

LEMMA ClearFields ==
    ASSUME TypeOK, Clear
    PROVE  /\ Shaped(fields')
           /\ \A m \in Levels, v \in WhichSlice : \A c \in Names(v) :
                  Get(fields', m, v, c) =
                      IF m = lev /\ v = "This" /\ (conf.explicit => c \notin {"Bx", "By"})
                      THEN EmptyBag ELSE Get(fields, m, v, c)
<1>1. Shaped(fields) /\ lev \in Levels /\ "This" \in WhichSlice
  BY DEF TypeOK, WhichSlice
<1>2. CASE conf.explicit
  <2>1. fields' = ClearButGuess(fields, lev)
    BY <1>2 DEF Clear
  <2> QED
    BY <1>1, <1>2, <2>1, ClearButGuessEffect
<1>3. CASE ~conf.explicit
  <2>1. fields' = SetZero(fields, lev, "This", 0, 17)
    BY <1>3, ThisComps DEF Clear
  <2>2. /\ Shaped(fields')
        /\ \A m \in Levels, v \in WhichSlice : \A c \in Names(v) :
               Get(fields', m, v, c) =
                   IF m = lev /\ v = "This" /\ Comps["This"][c] \in 0 .. 0 + 17 - 1
                   THEN EmptyBag ELSE Get(fields, m, v, c)
    BY <1>1, <2>1, SetZeroEffect
  <2>3. \A c \in Names("This") : Comps["This"][c] \in 0 .. 0 + 17 - 1
    BY <1>1, CompsDistinct, ThisComps
  <2> QED
    BY <1>3, <2>2, <2>3
<1> QED
  BY <1>2, <1>3

LEMMA DepositFields ==
    ASSUME TypeOK, Deposit
    PROVE  LET squared == IF conf.explicit THEN {"jxx", "jxy", "jyy"} ELSE {}
               current == PlasmaCurrent(lev, plasma[lev].pushes, plasma[lev].temp)
           IN  /\ Shaped(fields')
               /\ \A m \in Levels, v \in WhichSlice : \A c \in Names(v) :
                      \/ m = lev /\ v = "This" /\ c \in {"jx", "jy", "jz", "rho"} \union squared
                      \/ conf.explicit /\ m = lev /\ v = "Next"
                      \/ Same(m, v, c)
               /\ \A c \in {"jx", "jy", "jz"} \union squared :
                      Get(fields', lev, "This", c) =
                          IF Reached(lev, bins) THEN Get(fields, lev, "This", c) (+) current
                                                ELSE Get(fields, lev, "This", c)
               /\ Get(fields', lev, "This", "rho") =
                      (IF Reached(lev, bins) THEN Get(fields, lev, "This", "rho") (+) current
                                             ELSE Get(fields, lev, "This", "rho"))
                          (+) Get(fields, lev, "RhoIons", "rho")
               /\ conf.explicit => \A c \in {"jx_beam", "jy_beam"} :
                      Get(fields', lev, "Next", c) =
                          IF conf.beamJxJy /\ DepositsBeam(lev) /\ isl - 1 \in Slices
                          THEN EmptyBag (+) BeamCurrent(isl - 1, beam[isl - 1]) ELSE EmptyBag
<1> DEFINE squared == IF conf.explicit THEN {"jxx", "jxy", "jyy"} ELSE {}
           current == PlasmaCurrent(lev, plasma[lev].pushes, plasma[lev].temp)
           cs == {"jx", "jy", "jz", "rho"} \union squared
           Here == DepositPlasma(fields, lev, "This", cs, plasma, bins)
           Below == SetZero(Here, lev, "Next", 0, 4)
           Beam == DepositBeam(Below, lev, "Next")
           BelowBeam == AddBeamCurrents(Beam, lev, "Next")
           All == IF conf.explicit THEN BelowBeam ELSE Here
<1>0. /\ Shaped(fields) /\ lev \in Levels /\ {"This", "Next", "RhoIons"} \subseteq WhichSlice
      /\ cs \in SUBSET Names("This") /\ "rho" \in cs /\ "rho" \in Names("RhoIons")
      /\ {"jx_beam", "jy_beam"} \subseteq Names("Next")
  BY NamesAre DEF TypeOK, WhichSlice, ThisNames, NextNames
<1>1. fields' = AddRhoIons(All, lev)
  BY NextComps DEF Deposit
<1>h. Here = DepositPlasma(fields, lev, "This", cs, plasma, bins)
  OBVIOUS
<1> HIDE DEF Here, cs
<1>2. /\ Shaped(Here)
      /\ \A m \in Levels, v \in WhichSlice : \A c \in Names(v) :
             Get(Here, m, v, c) = IF Reached(lev, bins) /\ m = lev /\ v = "This" /\ c \in cs
                                  THEN Get(fields, m, v, c) (+) current ELSE Get(fields, m, v, c)
  BY <1>0, <1>h, DepositPlasmaEffect
<1>3. /\ Shaped(Below)
      /\ \A m \in Levels, v \in WhichSlice : \A c \in Names(v) :
             Get(Below, m, v, c) = IF m = lev /\ v = "Next" /\ Comps["Next"][c] \in 0 .. 0 + 4 - 1
                                   THEN EmptyBag ELSE Get(Here, m, v, c)
  BY <1>0, <1>2, SetZeroEffect
<1> HIDE DEF Below
<1>4. /\ Shaped(Beam)
      /\ \A m \in Levels, v \in WhichSlice : \A c \in Names(v) :
             Get(Beam, m, v, c) =
                 IF /\ DepositsBeam(lev) /\ BeamSlice("Next") \in Slices
                    /\ m = lev /\ v = "Next" /\ c \in BeamComps("Next")
                 THEN Get(Below, m, v, c) (+)
                          BeamCurrent(BeamSlice("Next"), beam[BeamSlice("Next")])
                 ELSE Get(Below, m, v, c)
  BY <1>0, <1>3, DepositBeamEffect
<1> HIDE DEF Beam
<1>5. /\ Shaped(BelowBeam)
      /\ \A m \in Levels, v \in WhichSlice : \A c \in Names(v) :
             ~(m = lev /\ v = "Next" /\ c \in {"jx", "jy", "jz"}) =>
                 Get(BelowBeam, m, v, c) = Get(Beam, m, v, c)
  BY <1>0, <1>4, AddBeamCurrentsEffect
<1> HIDE DEF BelowBeam
<1>6. /\ Shaped(All)
      /\ \A m \in Levels, v \in WhichSlice : \A c \in Names(v) :
             ~(conf.explicit /\ m = lev /\ v = "Next") => Get(All, m, v, c) = Get(Here, m, v, c)
  <2>1. CASE conf.explicit
    <3>1. All = BelowBeam
      BY <2>1
    <3>2. \A m \in Levels, v \in WhichSlice : \A c \in Names(v) :
              ~(m = lev /\ v = "Next") => Get(BelowBeam, m, v, c) = Get(Here, m, v, c)
      BY <1>3, <1>4, <1>5
    <3> QED
      BY <1>5, <2>1, <3>1, <3>2
  <2>2. CASE ~conf.explicit
    BY <1>2, <2>2
  <2> QED
    BY <2>1, <2>2
<1>7. conf.explicit => \A c \in {"jx_beam", "jy_beam"} :
          Get(All, lev, "Next", c) =
              IF conf.beamJxJy /\ DepositsBeam(lev) /\ isl - 1 \in Slices
              THEN EmptyBag (+) BeamCurrent(isl - 1, beam[isl - 1]) ELSE EmptyBag
  <2>1. SUFFICES ASSUME conf.explicit, NEW c \in {"jx_beam", "jy_beam"}
                 PROVE  Get(BelowBeam, lev, "Next", c) =
                            IF conf.beamJxJy /\ DepositsBeam(lev) /\ isl - 1 \in Slices
                            THEN EmptyBag (+) BeamCurrent(isl - 1, beam[isl - 1]) ELSE EmptyBag
    OBVIOUS
  <2>2. Get(Below, lev, "Next", c) = EmptyBag
    BY <1>0, <1>3, <2>1, NextComps
  <2>3. Get(BelowBeam, lev, "Next", c) = Get(Beam, lev, "Next", c)
    BY <1>0, <1>5, <2>1
  <2>4. BeamSlice("Next") = isl - 1 /\ (c \in BeamComps("Next") <=> conf.beamJxJy)
    BY <2>1 DEF BeamSlice, BeamComps
  <2> QED
    BY <1>0, <1>4, <2>1, <2>2, <2>3, <2>4
<1> HIDE DEF All
<1>8. /\ Shaped(fields')
      /\ \A m \in Levels, v \in WhichSlice : \A c \in Names(v) :
             Get(fields', m, v, c) =
                 IF m = lev /\ v = "This" /\ c = "rho"
                 THEN Get(All, m, v, c) (+) Get(All, lev, "RhoIons", "rho") ELSE Get(All, m, v, c)
  BY <1>0, <1>1, <1>6, RhoIonsEffect
<1>9. \A m \in Levels, v \in WhichSlice : \A c \in Names(v) :
          \/ m = lev /\ v = "This" /\ c \in cs
          \/ conf.explicit /\ m = lev /\ v = "Next"
          \/ Same(m, v, c)
  BY <1>0, <1>2, <1>6, <1>8 DEF Same
<1>10. \A c \in {"jx", "jy", "jz"} \union squared :
           Get(fields', lev, "This", c) =
               IF Reached(lev, bins) THEN Get(fields, lev, "This", c) (+) current
                                     ELSE Get(fields, lev, "This", c)
  <2>1. SUFFICES ASSUME NEW c \in {"jx", "jy", "jz"} \union squared
                 PROVE  Get(fields', lev, "This", c) =
                            IF Reached(lev, bins) THEN Get(fields, lev, "This", c) (+) current
                                                  ELSE Get(fields, lev, "This", c)
    OBVIOUS
  <2>2. c \in cs /\ c \in Names("This") /\ c # "rho"
    BY <1>0, <2>1 DEF cs
  <2> HIDE DEF cs, current, squared
  <2>3. Get(fields', lev, "This", c) = Get(Here, lev, "This", c)
    BY <1>0, <1>6, <1>8, <2>2
  <2> QED
    BY <1>0, <1>2, <2>2, <2>3
<1>11. Get(fields', lev, "This", "rho") =
           (IF Reached(lev, bins) THEN Get(fields, lev, "This", "rho") (+) current
                                  ELSE Get(fields, lev, "This", "rho"))
               (+) Get(fields, lev, "RhoIons", "rho")
  <2>1. "rho" \in cs /\ "rho" \in Names("This")
    BY <1>0 DEF cs
  <2> HIDE DEF cs, current, squared
  <2>2. /\ Get(All, lev, "This", "rho") = Get(Here, lev, "This", "rho")
        /\ Get(All, lev, "RhoIons", "rho") = Get(fields, lev, "RhoIons", "rho")
    BY <1>0, <1>2, <1>6, <2>1
  <2>3. Get(fields', lev, "This", "rho") =
            Get(Here, lev, "This", "rho") (+) Get(fields, lev, "RhoIons", "rho")
    BY <1>0, <1>8, <2>1, <2>2
  <2> QED
    BY <1>0, <1>2, <2>1, <2>3
<1>12. conf.explicit => \A c \in {"jx_beam", "jy_beam"} :
           Get(fields', lev, "Next", c) =
               IF conf.beamJxJy /\ DepositsBeam(lev) /\ isl - 1 \in Slices
               THEN EmptyBag (+) BeamCurrent(isl - 1, beam[isl - 1]) ELSE EmptyBag
  <2>1. \A c \in {"jx_beam", "jy_beam"} :
            Get(fields', lev, "Next", c) = Get(All, lev, "Next", c)
    BY <1>0, <1>8
  <2> QED
    BY <1>7, <2>1
<1> QED
  BY <1>8, <1>9, <1>10, <1>11, <1>12 DEF cs

LEMMA SolvePsiFields ==
    ASSUME TypeOK, SolvePsi
    PROVE  LET Grid(b) == IF conf.gridLevel >= lev THEN b (+) GridCurrent(isl) ELSE b
               Beam(b) == IF DepositsBeam(lev) THEN b (+) BeamCurrent(isl, beam[isl]) ELSE b
           IN  /\ Shaped(fields')
               /\ \A m \in Levels, v \in WhichSlice : \A c \in Names(v) :
                      \/ /\ m = lev /\ v = "This"
                         /\ c \in {"Psi", "ExmBy", "EypBx", "jx", "jy", "jz", "jx_beam",
                                   "jy_beam", "jz_beam"}
                      \/ Same(m, v, c)
               /\ \A c \in {"Psi", "ExmBy", "EypBx"} :
                      Get(fields', lev, "This", c) = Field("Psi", lev, isl, 0)
               /\ \A c \in {"jx_beam", "jy_beam"} :
                      Get(fields', lev, "This", c) =
                          IF conf.beamJxJy THEN Beam(Get(fields, lev, "This", c))
                                           ELSE Get(fields, lev, "This", c)
               /\ Get(fields', lev, "This", "jz_beam") =
                      Beam(Grid(Get(fields, lev, "This", "jz_beam")))
               /\ Get(fields', lev, "This", "jx") =
                      Get(fields, lev, "This", "jx") (+) Get(fields', lev, "This", "jx_beam")
               /\ Get(fields', lev, "This", "jy") =
                      Get(fields, lev, "This", "jy") (+) Get(fields', lev, "This", "jy_beam")
               /\ Get(fields', lev, "This", "jz") =
                      Get(fields, lev, "This", "jz") (+) Get(fields', lev, "This", "jz_beam")
<1> DEFINE cs == {"Psi", "ExmBy", "EypBx"}
           b == Field("Psi", lev, isl, 0)
           Psi == Set(fields, lev, "This", cs, b)
           Grid == DepositGridCurrent(Psi, lev)
           NotPlasma == DepositBeam(Grid, lev, "This")
<1>0. /\ Shaped(fields) /\ lev \in Levels /\ "This" \in WhichSlice /\ isl \in Slices
      /\ cs \in SUBSET Names("This")
      /\ {"jx", "jy", "jz", "jx_beam", "jy_beam", "jz_beam"} \subseteq Names("This") \ cs
  BY NamesAre DEF TypeOK, WhichSlice, ThisNames
<1>1. fields' = AddBeamCurrents(NotPlasma, lev, "This")
  BY DEF SolvePsi
<1>h. Psi = Set(fields, lev, "This", cs, b)
  OBVIOUS
<1> HIDE DEF Psi, cs, b
<1>2. /\ Shaped(Psi)
      /\ \A m \in Levels, v \in WhichSlice : \A c \in Names(v) :
             Get(Psi, m, v, c) = IF m = lev /\ v = "This" /\ c \in cs
                                 THEN b ELSE Get(fields, m, v, c)
  BY <1>0, <1>h, SetEffect
<1>3. /\ Shaped(Grid)
      /\ \A m \in Levels, v \in WhichSlice : \A c \in Names(v) :
             Get(Grid, m, v, c) =
                 IF conf.gridLevel >= lev /\ m = lev /\ v = "This" /\ c = "jz_beam"
                 THEN Get(Psi, m, v, c) (+) GridCurrent(isl) ELSE Get(Psi, m, v, c)
  BY <1>0, <1>2, DepositGridCurrentEffect
<1> HIDE DEF Grid
<1>4. /\ Shaped(NotPlasma)
      /\ \A m \in Levels, v \in WhichSlice : \A c \in Names(v) :
             Get(NotPlasma, m, v, c) =
                 IF /\ DepositsBeam(lev) /\ BeamSlice("This") \in Slices
                    /\ m = lev /\ v = "This" /\ c \in BeamComps("This")
                 THEN Get(Grid, m, v, c) (+)
                          BeamCurrent(BeamSlice("This"), beam[BeamSlice("This")])
                 ELSE Get(Grid, m, v, c)
  BY <1>0, <1>3, DepositBeamEffect
<1> HIDE DEF NotPlasma
<1>5. BeamSlice("This") = isl /\ isl \in Slices
  BY <1>0 DEF BeamSlice
<1>6. /\ Shaped(fields')
      /\ \A m \in Levels, v \in WhichSlice : \A c \in Names(v) :
             ~(m = lev /\ v = "This" /\ c \in {"jx", "jy", "jz"}) =>
                 Get(fields', m, v, c) = Get(NotPlasma, m, v, c)
      /\ Get(fields', lev, "This", "jx") =
             Get(NotPlasma, lev, "This", "jx") (+) Get(NotPlasma, lev, "This", "jx_beam")
      /\ Get(fields', lev, "This", "jy") =
             Get(NotPlasma, lev, "This", "jy") (+) Get(NotPlasma, lev, "This", "jy_beam")
      /\ Get(fields', lev, "This", "jz") =
             Get(NotPlasma, lev, "This", "jz") (+) Get(NotPlasma, lev, "This", "jz_beam")
  BY <1>0, <1>1, <1>4, AddBeamCurrentsEffect
<1>7. ASSUME NEW m \in Levels, NEW v \in WhichSlice, NEW c \in Names(v),
             ~(m = lev /\ v = "This" /\ c \in cs \union {"jx", "jy", "jz", "jx_beam",
                                                         "jy_beam", "jz_beam"})
      PROVE  Same(m, v, c)
  <2>1. Get(fields', m, v, c) = Get(NotPlasma, m, v, c)
    BY <1>6, <1>7
  <2>2. Get(NotPlasma, m, v, c) = Get(Grid, m, v, c)
    BY <1>4, <1>7 DEF BeamComps
  <2>3. Get(Grid, m, v, c) = Get(Psi, m, v, c)
    BY <1>3, <1>7
  <2>4. Get(Psi, m, v, c) = Get(fields, m, v, c)
    BY <1>2, <1>7
  <2> QED
    BY <2>1, <2>2, <2>3, <2>4 DEF Same
<1>8. ASSUME NEW c \in cs PROVE Get(fields', lev, "This", c) = b
  <2>1. c \notin {"jx", "jy", "jz", "jx_beam", "jy_beam", "jz_beam"} /\ c \in Names("This")
    BY <1>0
  <2>2. c \notin BeamComps("This")
    BY <2>1 DEF BeamComps
  <2> QED
    BY <1>0, <1>2, <1>3, <1>4, <1>6, <2>1, <2>2
<1>9. ASSUME NEW c \in {"jx", "jy", "jz"}
      PROVE  Get(NotPlasma, lev, "This", c) = Get(fields, lev, "This", c)
  <2>1. c \in Names("This") /\ c \notin cs
    BY <1>0
  <2>2. c \notin BeamComps("This")
    BY DEF BeamComps
  <2> QED
    BY <1>0, <1>2, <1>3, <1>4, <2>1, <2>2
<1>10. ASSUME NEW c \in {"jx_beam", "jy_beam"}
       PROVE  /\ Get(NotPlasma, lev, "This", c) =
                     IF conf.beamJxJy /\ DepositsBeam(lev)
                     THEN Get(fields, lev, "This", c) (+) BeamCurrent(isl, beam[isl])
                     ELSE Get(fields, lev, "This", c)
              /\ Get(fields', lev, "This", c) = Get(NotPlasma, lev, "This", c)
  <2>1. c \in Names("This") /\ c \notin cs
    BY <1>0
  <2>2. c \in BeamComps("This") <=> conf.beamJxJy
    BY DEF BeamComps
  <2>3. Get(Grid, lev, "This", c) = Get(fields, lev, "This", c)
    BY <1>0, <1>2, <1>3, <2>1
  <2> QED
    BY <1>0, <1>4, <1>5, <1>6, <2>1, <2>2, <2>3
<1>11. /\ Get(NotPlasma, lev, "This", "jz_beam") =
              IF DepositsBeam(lev)
              THEN Get(Grid, lev, "This", "jz_beam") (+) BeamCurrent(isl, beam[isl])
              ELSE Get(Grid, lev, "This", "jz_beam")
       /\ Get(Grid, lev, "This", "jz_beam") =
              IF conf.gridLevel >= lev
              THEN Get(fields, lev, "This", "jz_beam") (+) GridCurrent(isl)
              ELSE Get(fields, lev, "This", "jz_beam")
       /\ Get(fields', lev, "This", "jz_beam") = Get(NotPlasma, lev, "This", "jz_beam")
  <2>1. "jz_beam" \in BeamComps("This")
    BY DEF BeamComps
  <2> QED
    BY <1>0, <1>2, <1>3, <1>4, <1>5, <1>6, <2>1
<1>12. \A m \in Levels, v \in WhichSlice : \A c \in Names(v) :
           \/ /\ m = lev /\ v = "This"
              /\ c \in {"Psi", "ExmBy", "EypBx", "jx", "jy", "jz", "jx_beam", "jy_beam", "jz_beam"}
           \/ Same(m, v, c)
  BY <1>7 DEF cs
<1>13. \A c \in {"Psi", "ExmBy", "EypBx"} :
           Get(fields', lev, "This", c) = Field("Psi", lev, isl, 0)
  BY <1>8 DEF cs, b
<1>14. /\ Get(fields', lev, "This", "jx") =
              Get(fields, lev, "This", "jx") (+) Get(fields', lev, "This", "jx_beam")
       /\ Get(fields', lev, "This", "jy") =
              Get(fields, lev, "This", "jy") (+) Get(fields', lev, "This", "jy_beam")
       /\ Get(fields', lev, "This", "jz") =
              Get(fields, lev, "This", "jz") (+) Get(fields', lev, "This", "jz_beam")
  BY <1>6, <1>9, <1>10, <1>11
<1> QED
  BY <1>6, <1>10, <1>11, <1>12, <1>13, <1>14

LEMMA SolveEzBzFields ==
    ASSUME TypeOK, SolveEzBz
    PROVE  /\ Shaped(fields')
           /\ \A m \in Levels, v \in WhichSlice : \A c \in Names(v) :
                  \/ m = lev /\ v = "This" /\ c \in {"Ez", "Bz"}
                  \/ conf.explicit /\ m = lev /\ v = "This" /\ c = "rho"
                  \/ Same(m, v, c)
           /\ \A c \in {"Ez", "Bz"} :
                  Get(fields', lev, "This", c) = Field("EzBz", lev, isl, 0)
           /\ conf.explicit =>
                  Get(fields', lev, "This", "rho") =
                      Get(fields, lev, "This", "rho") (-) Get(fields, lev, "RhoIons", "rho")
<1> DEFINE b == Field("EzBz", lev, isl, 0)
           EzBz == Set(fields, lev, "This", {"Ez", "Bz"}, b)
<1>0. /\ Shaped(fields) /\ lev \in Levels /\ {"This", "RhoIons"} \subseteq WhichSlice
      /\ {"Ez", "Bz"} \in SUBSET Names("This") /\ "rho" \in Names("This")
      /\ "rho" \in Names("RhoIons")
  BY NamesAre DEF TypeOK, WhichSlice, ThisNames
<1>1. fields' = IF conf.explicit THEN SubtractRhoIons(EzBz, lev) ELSE EzBz
  BY DEF SolveEzBz
<1>h. EzBz = Set(fields, lev, "This", {"Ez", "Bz"}, b)
  OBVIOUS
<1> HIDE DEF EzBz, b
<1>2. /\ Shaped(EzBz)
      /\ \A m \in Levels, v \in WhichSlice : \A c \in Names(v) :
             Get(EzBz, m, v, c) = IF m = lev /\ v = "This" /\ c \in {"Ez", "Bz"}
                                  THEN b ELSE Get(fields, m, v, c)
  BY <1>0, <1>h, SetEffect
<1>3. CASE conf.explicit
  <2>1. /\ Shaped(fields')
        /\ \A m \in Levels, v \in WhichSlice : \A c \in Names(v) :
               Get(fields', m, v, c) =
                   IF m = lev /\ v = "This" /\ c = "rho"
                   THEN Get(EzBz, lev, "This", "rho") (-) Get(EzBz, lev, "RhoIons", "rho")
                   ELSE Get(EzBz, m, v, c)
    BY <1>0, <1>1, <1>2, <1>3, RhoIonsEffect
  <2>2. /\ Get(EzBz, lev, "This", "rho") = Get(fields, lev, "This", "rho")
        /\ Get(EzBz, lev, "RhoIons", "rho") = Get(fields, lev, "RhoIons", "rho")
    BY <1>0, <1>2
  <2> QED
    BY <1>0, <1>2, <1>3, <2>1, <2>2 DEF Same, b
<1>4. CASE ~conf.explicit
  <2>1. fields' = EzBz
    BY <1>1, <1>4
  <2> QED
    BY <1>0, <1>2, <1>4, <2>1 DEF Same, b
<1> QED
  BY <1>3, <1>4

LEMMA ExplicitFields ==
    ASSUME TypeOK, ExplicitSolveBxBy
    PROVE  /\ Shaped(fields')
           /\ \A m \in Levels, v \in WhichSlice : \A c \in Names(v) :
                  (m = lev /\ v = "This" /\ c \in {"Bx", "By", "rho"}) \/ Same(m, v, c)
           /\ \A c \in {"Bx", "By"} :
                  Get(fields', lev, "This", c) = Field("B", lev, isl, 1)
           /\ Get(fields', lev, "This", "rho") =
                  Get(fields, lev, "This", "rho") (+) Get(fields, lev, "RhoIons", "rho")
<1> DEFINE b == Field("B", lev, isl, 1)
           BxBy == Set(fields, lev, "This", {"Bx", "By"}, b)
<1>0. /\ Shaped(fields) /\ lev \in Levels /\ {"This", "RhoIons"} \subseteq WhichSlice
      /\ {"Bx", "By"} \in SUBSET Names("This") /\ "rho" \in Names("This")
      /\ "rho" \in Names("RhoIons")
  BY NamesAre DEF TypeOK, WhichSlice, ThisNames
<1>1. fields' = AddRhoIons(BxBy, lev)
  BY DEF ExplicitSolveBxBy
<1>h. BxBy = Set(fields, lev, "This", {"Bx", "By"}, b)
  OBVIOUS
<1> HIDE DEF BxBy, b
<1>2. /\ Shaped(BxBy)
      /\ \A m \in Levels, v \in WhichSlice : \A c \in Names(v) :
             Get(BxBy, m, v, c) = IF m = lev /\ v = "This" /\ c \in {"Bx", "By"}
                                  THEN b ELSE Get(fields, m, v, c)
  BY <1>0, <1>h, SetEffect
<1>3. /\ Shaped(fields')
      /\ \A m \in Levels, v \in WhichSlice : \A c \in Names(v) :
             Get(fields', m, v, c) =
                 IF m = lev /\ v = "This" /\ c = "rho"
                 THEN Get(BxBy, m, v, c) (+) Get(BxBy, lev, "RhoIons", "rho")
                 ELSE Get(BxBy, m, v, c)
  BY <1>0, <1>1, <1>2, RhoIonsEffect
<1>4. /\ Get(BxBy, lev, "This", "rho") = Get(fields, lev, "This", "rho")
      /\ Get(BxBy, lev, "RhoIons", "rho") = Get(fields, lev, "RhoIons", "rho")
  BY <1>0, <1>2
<1> QED
  BY <1>0, <1>2, <1>3, <1>4 DEF Same, b

LEMMA GuessFields ==
    ASSUME TypeOK, Guess
    PROVE  /\ Shaped(fields')
           /\ \A m \in Levels, v \in WhichSlice : \A c \in Names(v) :
                  Get(fields', m, v, c) =
                      IF m = lev /\ v = "This" /\ c \in {"Bx", "By"}
                      THEN Field("B", lev, isl, 0) ELSE Get(fields, m, v, c)
<1>1. /\ Shaped(fields) /\ lev \in Levels /\ "This" \in WhichSlice
      /\ {"Bx", "By"} \in SUBSET Names("This")
  BY NamesAre DEF TypeOK, WhichSlice, ThisNames
<1>2. fields' = Set(fields, lev, "This", {"Bx", "By"}, Field("B", lev, isl, 0))
  BY DEF Guess
<1> QED
  BY <1>1, <1>2, SetEffect

LEMMA PredictFields ==
    ASSUME TypeOK, Predict
    PROVE  LET current == PlasmaCurrent(lev, plasma'[lev].pushes, plasma'[lev].temp)
           IN  /\ Shaped(fields')
               /\ \A m \in Levels, v \in WhichSlice : \A c \in Names(v) :
                      (m = lev /\ v = "Next") \/ Same(m, v, c)
               /\ \A c \in {"jx_beam", "jy_beam"} :
                      Get(fields', lev, "Next", c) =
                          IF conf.beamJxJy /\ DepositsBeam(lev) /\ isl - 1 \in Slices
                          THEN Get(fields, lev, "Next", c) (+) BeamCurrent(isl - 1, beam[isl - 1])
                          ELSE Get(fields, lev, "Next", c)
               /\ Get(fields', lev, "Next", "jx") =
                      (IF Reached(lev, bins') THEN Get(fields, lev, "Next", "jx") (+) current
                                              ELSE Get(fields, lev, "Next", "jx"))
                          (+) Get(fields', lev, "Next", "jx_beam")
               /\ Get(fields', lev, "Next", "jy") =
                      (IF Reached(lev, bins') THEN Get(fields, lev, "Next", "jy") (+) current
                                              ELSE Get(fields, lev, "Next", "jy"))
                          (+) Get(fields', lev, "Next", "jy_beam")
<1> DEFINE current == PlasmaCurrent(lev, plasma'[lev].pushes, plasma'[lev].temp)
           NextPlasma == DepositPlasma(fields, lev, "Next", {"jx", "jy"}, plasma', bins')
           Beam == DepositBeam(NextPlasma, lev, "Next")
<1>0. /\ Shaped(fields) /\ lev \in Levels /\ "Next" \in WhichSlice
      /\ {"jx", "jy"} \in SUBSET Names("Next") /\ {"jx_beam", "jy_beam"} \subseteq Names("Next")
  BY NamesAre DEF TypeOK, WhichSlice, NextNames
<1>1. fields' = AddBeamCurrents(Beam, lev, "Next")
  BY DEF Predict
<1>2. /\ Shaped(NextPlasma)
      /\ \A m \in Levels, v \in WhichSlice : \A c \in Names(v) :
             Get(NextPlasma, m, v, c) =
                 IF Reached(lev, bins') /\ m = lev /\ v = "Next" /\ c \in {"jx", "jy"}
                 THEN Get(fields, m, v, c) (+) current ELSE Get(fields, m, v, c)
  BY <1>0, DepositPlasmaEffect
<1> HIDE DEF NextPlasma
<1>3. /\ Shaped(Beam)
      /\ \A m \in Levels, v \in WhichSlice : \A c \in Names(v) :
             Get(Beam, m, v, c) =
                 IF /\ DepositsBeam(lev) /\ BeamSlice("Next") \in Slices
                    /\ m = lev /\ v = "Next" /\ c \in BeamComps("Next")
                 THEN Get(NextPlasma, m, v, c) (+)
                          BeamCurrent(BeamSlice("Next"), beam[BeamSlice("Next")])
                 ELSE Get(NextPlasma, m, v, c)
  BY <1>0, <1>2, DepositBeamEffect
<1> HIDE DEF Beam, current
<1>4. /\ Shaped(fields')
      /\ \A m \in Levels, v \in WhichSlice : \A c \in Names(v) :
             ~(m = lev /\ v = "Next" /\ c \in {"jx", "jy", "jz"}) =>
                 Get(fields', m, v, c) = Get(Beam, m, v, c)
      /\ Get(fields', lev, "Next", "jx") =
             Get(Beam, lev, "Next", "jx") (+) Get(Beam, lev, "Next", "jx_beam")
      /\ Get(fields', lev, "Next", "jy") =
             Get(Beam, lev, "Next", "jy") (+) Get(Beam, lev, "Next", "jy_beam")
  BY <1>0, <1>1, <1>3, AddBeamCurrentsEffect
<1>5. /\ BeamSlice("Next") = isl - 1
      /\ BeamComps("Next") = IF conf.beamJxJy THEN {"jx_beam", "jy_beam"} ELSE {}
  BY DEF BeamSlice, BeamComps
<1>6. \A m \in Levels, v \in WhichSlice : \A c \in Names(v) :
          (m = lev /\ v = "Next") \/ Same(m, v, c)
  BY <1>2, <1>3, <1>4 DEF Same
<1>7. ASSUME NEW c \in {"jx_beam", "jy_beam"}
      PROVE  /\ Get(fields', lev, "Next", c) = Get(Beam, lev, "Next", c)
             /\ Get(Beam, lev, "Next", c) =
                    IF conf.beamJxJy /\ DepositsBeam(lev) /\ isl - 1 \in Slices
                    THEN Get(fields, lev, "Next", c) (+) BeamCurrent(isl - 1, beam[isl - 1])
                    ELSE Get(fields, lev, "Next", c)
  <2>1. Get(NextPlasma, lev, "Next", c) = Get(fields, lev, "Next", c)
    BY <1>0, <1>2
  <2> QED
    BY <1>0, <1>3, <1>4, <1>5, <2>1
<1>8. ASSUME NEW c \in {"jx", "jy"}
      PROVE  Get(Beam, lev, "Next", c) =
                 IF Reached(lev, bins') THEN Get(fields, lev, "Next", c) (+) current
                                        ELSE Get(fields, lev, "Next", c)
  <2>1. c \notin BeamComps("Next") /\ c \in Names("Next")
    BY <1>0, <1>5
  <2>2. Get(Beam, lev, "Next", c) = Get(NextPlasma, lev, "Next", c)
    BY <1>0, <1>3, <2>1
  <2> QED
    BY <1>0, <1>2, <2>1, <2>2
<1> QED
  BY <1>4, <1>6, <1>7, <1>8 DEF current

LEMMA CorrectFields ==
    ASSUME TypeOK, Correct
    PROVE  /\ Shaped(fields')
           /\ \A m \in Levels, v \in WhichSlice : \A c \in Names(v) :
                  Get(fields', m, v, c) =
                      IF m = lev /\ v = "This" /\ c \in {"Bx", "By"} THEN Field("B", lev, isl, iter)
                      ELSE IF m = lev /\ v = "Next" THEN EmptyBag ELSE Get(fields, m, v, c)
<1> DEFINE b == Field("B", lev, isl, iter)
           BxBy == Set(fields, lev, "This", {"Bx", "By"}, b)
<1>0. /\ Shaped(fields) /\ lev \in Levels /\ {"This", "Next"} \subseteq WhichSlice
      /\ {"Bx", "By"} \in SUBSET Names("This") /\ NextNames = Names("Next")
      /\ NextNames \in SUBSET Names("Next")
  BY NamesAre DEF TypeOK, WhichSlice, ThisNames
<1>1. fields' = Set(BxBy, lev, "Next", NextNames, EmptyBag)
  <2>1. NextNames = TemporaryComps
    BY DEF NextNames, TemporaryComps
  <2> QED
    BY <2>1 DEF Correct
<1>h. BxBy = Set(fields, lev, "This", {"Bx", "By"}, b)
  OBVIOUS
<1> HIDE DEF BxBy, b
<1>2. /\ Shaped(BxBy)
      /\ \A m \in Levels, v \in WhichSlice : \A c \in Names(v) :
             Get(BxBy, m, v, c) = IF m = lev /\ v = "This" /\ c \in {"Bx", "By"}
                                  THEN b ELSE Get(fields, m, v, c)
  BY <1>0, <1>h, SetEffect
<1>3. /\ Shaped(fields')
      /\ \A m \in Levels, v \in WhichSlice : \A c \in Names(v) :
             Get(fields', m, v, c) = IF m = lev /\ v = "Next" /\ c \in NextNames
                                     THEN EmptyBag ELSE Get(BxBy, m, v, c)
  BY <1>0, <1>1, <1>2, SetEffect
<1> QED
  BY <1>0, <1>2, <1>3 DEF b

\* All levels that have this slice are shifted.
Shifts(l) == l <= conf.finestLevel /\ OnLevel(isl, l)

LEMMA ShiftSlicesFields ==
    ASSUME TypeOK, ShiftSlices
    PROVE  /\ Shaped(fields')
           /\ \A l \in Levels : Shifts(l) =>
                  /\ \A c \in Names("Previous2") :
                         Get(fields', l, "Previous2", c) = Get(fields, l, "Previous1", c)
                  /\ \A c \in Names("Previous1") :
                         Get(fields', l, "Previous1", c) = Get(fields, l, "This", c)
           /\ \A l \in Levels, v \in WhichSlice : \A c \in Names(v) :
                  (Shifts(l) /\ v \in {"Previous1", "Previous2"}) \/ Same(l, v, c)
<1>0. Shaped(fields) /\ {"Previous1", "Previous2"} \subseteq WhichSlice
  BY DEF TypeOK, WhichSlice
<1>1. fields' = [l \in Levels |-> IF Shifts(l) THEN ShiftLevel(fields, l)[l] ELSE fields[l]]
  BY DEF ShiftSlices, Shifts
<1>2. \A l \in Levels : Shaped(ShiftLevel(fields, l))
  BY <1>0, ShiftLevelEffect
<1>3. Shaped(fields')
  BY <1>0, <1>1, <1>2 DEF Shaped
<1>4. ASSUME NEW l \in Levels, Shifts(l), NEW v, NEW c
      PROVE  Get(fields', l, v, c) = Get(ShiftLevel(fields, l), l, v, c)
  <2>1. fields'[l] = ShiftLevel(fields, l)[l]
    BY <1>1, <1>4
  <2> QED
    BY <2>1 DEF Get
<1>5. ASSUME NEW l \in Levels, ~Shifts(l), NEW v, NEW c
      PROVE  Same(l, v, c)
  <2>1. fields'[l] = fields[l]
    BY <1>1, <1>5
  <2> QED
    BY <2>1 DEF Get, Same
<1>6. ASSUME NEW l \in Levels, Shifts(l)
      PROVE  /\ \A c \in Names("Previous2") :
                    Get(fields', l, "Previous2", c) = Get(fields, l, "Previous1", c)
             /\ \A c \in Names("Previous1") :
                    Get(fields', l, "Previous1", c) = Get(fields, l, "This", c)
             /\ \A v \in WhichSlice : \A c \in Names(v) :
                    v \in {"Previous1", "Previous2"} \/ Same(l, v, c)
  BY <1>0, <1>4, <1>6, ShiftLevelEffect DEF Same
<1> QED
  BY <1>3, <1>5, <1>6

-----------------------------------------------------------------------------
(* Slices and levels                                                       *)

LEMMA ConfigOK ==
    ASSUME TypeOK
    PROVE  /\ NSlices \in Nat \ {0} /\ MaxIter \in Nat \ {0} /\ MaxStep \in Nat
           /\ conf.finestLevel \in Levels /\ conf.plasmas \subseteq Levels
           /\ conf.beamLevel \in Levels /\ conf.patch \subseteq Slices
           /\ conf.explicit \in BOOLEAN /\ conf.tiling \in BOOLEAN
           /\ conf.ionization \in BOOLEAN /\ conf.beamJxJy \in BOOLEAN
           /\ conf.gridLevel \in Levels \union {-1}
           /\ conf.explicit => conf.finestLevel = 0
           /\ conf.beamLevel <= conf.finestLevel
           /\ \A l \in conf.plasmas : l <= conf.finestLevel
           /\ \A s, t \in conf.patch : s .. t \subseteq conf.patch
<1>1. conf \in Configs
  BY DEF TypeOK
<1>2. conf \in Configuration
  BY <1>1, SliceSolverAssumption
<1>3. /\ NSlices \in Nat \ {0} /\ MaxIter \in Nat \ {0} /\ MaxStep \in Nat
      /\ conf.explicit => conf.finestLevel = 0
      /\ conf.beamLevel <= conf.finestLevel
      /\ \A l \in conf.plasmas : l <= conf.finestLevel
      /\ \A s, t \in conf.patch : s .. t \subseteq conf.patch
  BY <1>1, SliceSolverAssumption
<1> QED
  BY <1>2, <1>3 DEF Configuration

LEMMA SolvedIs == \A s, l : Solved(s, l) <=> SliceOf(conf, s, l)
  BY DEF Solved, SliceOf, OnLevel

\* Between two slices of a level are slices of it: above a level that is
\* still ahead, without this slice, there is none.
LEMMA NoneAbove ==
    ASSUME TypeOK, NEW l \in Levels, NEW s \in Slices, Ahead(conf, s, l), ~SliceOf(conf, s, l),
           NEW t \in Int, t >= s
    PROVE  ~SliceOf(conf, t, l)
<1>1. SUFFICES ASSUME SliceOf(conf, t, l) PROVE FALSE
  OBVIOUS
<1>2. PICK u \in Slices : u <= s /\ SliceOf(conf, u, l)
  BY DEF Ahead
<1>3. l # 0 /\ t \in conf.patch /\ u \in conf.patch /\ s \notin conf.patch
  BY <1>1, <1>2 DEF SliceOf
<1>4. u .. t \subseteq conf.patch
  BY <1>3, ConfigOK
<1>5. s \in u .. t
  BY <1>2 DEF Slices
<1> QED
  BY <1>3, <1>4, <1>5

LEMMA NotBeyond ==
    ASSUME TypeOK, NEW l, NEW t \in Int, t >= NSlices
    PROVE  ~SliceOf(conf, t, l)
  BY ConfigOK DEF SliceOf, Slices

LEMMA CountFinite ==
    ASSUME NEW c, NEW s \in Int, NEW l
    PROVE  /\ IsFiniteSet({t \in s .. NSlices - 1 : l = 0 \/ t \in c.patch})
           /\ CountOf(c, s, l) \in Nat
<1>1. NSlices - 1 \in Int
  BY SliceSolverAssumption
<1>2. IsFiniteSet(s .. NSlices - 1)
  BY <1>1, FS_Interval
<1>3. IsFiniteSet({t \in s .. NSlices - 1 : l = 0 \/ t \in c.patch})
  BY <1>2, FS_Subset
<1> QED
  BY <1>3, FS_CardinalityType DEF CountOf

\* One slice further, one more if the level has it.
LEMMA CountStep ==
    ASSUME NEW c, NEW s \in Slices, NEW l
    PROVE  CountOf(c, s, l) = CountOf(c, s + 1, l) + IF SliceOf(c, s, l) THEN 1 ELSE 0
<1> DEFINE S(u) == {t \in u .. NSlices - 1 : l = 0 \/ t \in c.patch}
<1>1. s \in Int /\ s + 1 \in Int /\ NSlices - 1 \in Int /\ s <= NSlices - 1
  BY SliceSolverAssumption DEF Slices
<1>2. IsFiniteSet(S(s + 1)) /\ Cardinality(S(s + 1)) \in Nat
  BY <1>1, CountFinite DEF CountOf
<1>5. CountOf(c, s, l) = Cardinality(S(s)) /\ CountOf(c, s + 1, l) = Cardinality(S(s + 1))
  BY DEF CountOf
<1>3. CASE SliceOf(c, s, l)
  <2>1. S(s) = S(s + 1) \union {s} /\ s \notin S(s + 1)
    BY <1>1, <1>3 DEF SliceOf
  <2>2. Cardinality(S(s)) = Cardinality(S(s + 1)) + 1
    BY <1>2, <2>1, FS_AddElement
  <2> QED
    BY <1>3, <1>5, <2>2
<1>4. CASE ~SliceOf(c, s, l)
  <2>1. S(s) = S(s + 1)
    BY <1>1, <1>4 DEF SliceOf
  <2> QED
    BY <1>2, <1>4, <1>5, <2>1
<1> QED
  BY <1>3, <1>4

LEMMA CountNone ==
    ASSUME NEW c, NEW l PROVE CountOf(c, NSlices, l) = 0
<1>1. NSlices .. NSlices - 1 = {}
  BY SliceSolverAssumption
<1>2. {t \in NSlices .. NSlices - 1 : l = 0 \/ t \in c.patch} = {}
  BY <1>1
<1> QED
  BY <1>2, FS_EmptySet DEF CountOf

LEMMA PushesIs ==
    \A s, l : Pushes(s, l) = CountOf(conf, s, l) - (IF conf.explicit THEN 1 ELSE 0)
  BY DEF Pushes, CountOf, OnLevel

-----------------------------------------------------------------------------
(* Labels                                                                  *)

LEMMA BagOfOne ==
    ASSUME NEW x
    PROVE  BagToSet(SetToBag({x})) = {x} /\ BagCardinality(SetToBag({x})) = 1
<1> DEFINE b == SetToBag({x})
           dom == SUBSET DOMAIN b
           Body(f) == [S \in dom |-> LET elt == CHOOSE e \in S : TRUE
                                     IN  IF S = {} THEN 0 ELSE b[elt] + f[S \ {elt}]]
           D == CHOOSE f : f = Body(f)
           W == [S \in dom |-> IF S = {} THEN 0 ELSE 1]
<1>1. b = [e \in {x} |-> 1] /\ DOMAIN b = {x} /\ b[x] = 1
  BY DEF SetToBag
<1>2. dom = {{}, {x}}
  BY <1>1
<1>3. BagCardinality(b) = D[{x}]
  BY <1>1 DEF BagCardinality
<1> HIDE DEF b
<1>4. W = Body(W)
  <2>1. ASSUME NEW S \in dom
        PROVE  W[S] = LET elt == CHOOSE e \in S : TRUE
                      IN  IF S = {} THEN 0 ELSE b[elt] + W[S \ {elt}]
    <3>1. CASE S = {}
      BY <2>1, <3>1
    <3>2. CASE S = {x}
      <4>1. (CHOOSE e \in S : TRUE) = x
        BY <3>2
      <4>2. S \ {x} = {} /\ {} \in dom
        BY <3>2, <1>2
      <4> QED
        BY <1>1, <2>1, <3>2, <4>1, <4>2
    <3> QED
      BY <1>2, <2>1, <3>1, <3>2
  <2> QED
    BY <2>1
<1>5. D = Body(D)
  BY <1>4
<1> HIDE DEF D
<1>6. {} \in dom /\ {x} \in dom /\ (CHOOSE e \in {x} : TRUE) = x /\ {x} \ {x} = {}
  BY <1>2
<1>7. D[{}] = 0
  BY <1>5, <1>6
<1>8. D[{x}] = b[x] + D[{x} \ {x}]
  BY <1>5, <1>6
<1>9. D[{x}] = 1
  BY <1>1, <1>6, <1>7, <1>8
<1> QED
  BY <1>1, <1>3, <1>9 DEF BagToSet, b

LEMMA FieldIs ==
    ASSUME NEW name, NEW l, NEW s, NEW n
    PROVE  /\ BagToSet(Field(name, l, s, n)) = {<<name, l, s, n>>}
           /\ BagCardinality(Field(name, l, s, n)) = 1
  BY BagOfOne DEF Field, One

LEMMA EmptyBagIs == BagToSet(EmptyBag) = {}
  BY DEF BagToSet, EmptyBag, SetToBag

\* What the forces are gathered from, once all fields of a slice are there.
LEMMA GatheredIs ==
    ASSUME NEW F, NEW l, NEW s, NEW n,
           \A c \in {"ExmBy", "EypBx"} : Get(F, l, "This", c) = Field("Psi", l, s, 0),
           \A c \in {"Ez", "Bz"} : Get(F, l, "This", c) = Field("EzBz", l, s, 0),
           \A c \in {"Bx", "By"} : Get(F, l, "This", c) = Field("B", l, s, n)
    PROVE  Gathered(F, l) = AllOf(l, s, n)
<1>1. {BagToSet(Get(F, l, "This", c)) : c \in {"ExmBy", "EypBx", "Ez", "Bx", "By", "Bz"}} =
          {{<<"Psi", l, s, 0>>}, {<<"EzBz", l, s, 0>>}, {<<"B", l, s, n>>}}
  <2>1. \A c \in {"ExmBy", "EypBx"} : BagToSet(Get(F, l, "This", c)) = {<<"Psi", l, s, 0>>}
    BY FieldIs
  <2>2. \A c \in {"Ez", "Bz"} : BagToSet(Get(F, l, "This", c)) = {<<"EzBz", l, s, 0>>}
    BY FieldIs
  <2>3. \A c \in {"Bx", "By"} : BagToSet(Get(F, l, "This", c)) = {<<"B", l, s, n>>}
    BY FieldIs
  <2> DEFINE g(c) == BagToSet(Get(F, l, "This", c))
  <2> HIDE DEF g
  <2>4. /\ g("ExmBy") = {<<"Psi", l, s, 0>>} /\ g("EypBx") = {<<"Psi", l, s, 0>>}
        /\ g("Ez") = {<<"EzBz", l, s, 0>>} /\ g("Bz") = {<<"EzBz", l, s, 0>>}
        /\ g("Bx") = {<<"B", l, s, n>>} /\ g("By") = {<<"B", l, s, n>>}
    BY <2>1, <2>2, <2>3 DEF g
  <2>5. {g(c) : c \in {"ExmBy", "EypBx", "Ez", "Bx", "By", "Bz"}} =
            {g("ExmBy"), g("EypBx"), g("Ez"), g("Bx"), g("By"), g("Bz")}
    OBVIOUS
  <2>6. {g("ExmBy"), g("EypBx"), g("Ez"), g("Bx"), g("By"), g("Bz")} =
            {{<<"Psi", l, s, 0>>}, {<<"EzBz", l, s, 0>>}, {<<"B", l, s, n>>}}
    BY <2>4
  <2> QED
    BY <2>5, <2>6 DEF g
<1> QED
  BY <1>1 DEF Gathered, AllOf

-----------------------------------------------------------------------------
(* The plasma                                                              *)

LEMMA PushEffect ==
    ASSUME NEW q, IsPlasma(q)
    PROVE  /\ IsPlasma(Push(q))
           /\ Push(q).pushes = q.pushes + 1
           /\ Push(q).temp = IF q.temp = 0 THEN 0 ELSE -1
           /\ Push(q).prev = q.pushes + 1
           /\ Push(q).F = q.F
  BY DEF Push, IsPlasma

LEMMA PushTemporarilyEffect ==
    ASSUME NEW q, IsPlasma(q), NEW n
    PROVE  /\ IsPlasma(PushTemporarily(q, n))
           /\ PushTemporarily(q, n).pushes = q.pushes
           /\ PushTemporarily(q, n).temp = IF q.prev = q.pushes THEN n ELSE -1
           /\ PushTemporarily(q, n).prev = q.prev
           /\ PushTemporarily(q, n).F = q.F
  BY DEF PushTemporarily, IsPlasma

LEMMA ResetPositionEffect ==
    ASSUME NEW q, IsPlasma(q)
    PROVE  /\ IsPlasma(ResetPosition(q))
           /\ ResetPosition(q).pushes = q.pushes
           /\ ResetPosition(q).temp = IF q.prev = q.pushes THEN 0 ELSE -1
           /\ ResetPosition(q).prev = q.prev
           /\ ResetPosition(q).F = q.F
  BY DEF ResetPosition, IsPlasma

LEMMA ShiftForceTermsEffect ==
    ASSUME NEW q, IsPlasma(q)
    PROVE  /\ IsPlasma(ShiftForceTerms(q))
           /\ ShiftForceTerms(q).pushes = q.pushes
           /\ ShiftForceTerms(q).temp = q.temp
           /\ ShiftForceTerms(q).prev = q.prev
           /\ \A k \in 2 .. 5 : ShiftForceTerms(q).F[k] = q.F[k - 1]
<1> DEFINE f == <<q.F[5], q.F[1], q.F[2], q.F[3], q.F[4]>>
           r == ShiftForceTerms(q)
<1>1. DOMAIN f = 1 .. 5 /\ f[2] = q.F[1] /\ f[3] = q.F[2] /\ f[4] = q.F[3] /\ f[5] = q.F[4]
  OBVIOUS
<1>2. \A k \in 2 .. 5 : f[k] = q.F[k - 1]
  <2>1. \A k \in 2 .. 5 : k = 2 \/ k = 3 \/ k = 4 \/ k = 5
    OBVIOUS
  <2> HIDE DEF f
  <2>2. f[2] = q.F[2 - 1] /\ f[3] = q.F[3 - 1] /\ f[4] = q.F[4 - 1] /\ f[5] = q.F[5 - 1]
    BY <1>1
  <2> QED
    BY <2>1, <2>2
<1>3. r = [q EXCEPT !.F = f]
  BY DEF ShiftForceTerms
<1> HIDE DEF f, r
<1>4. /\ DOMAIN r = DOMAIN q /\ r.F = f /\ r.pushes = q.pushes
      /\ r.temp = q.temp /\ r.prev = q.prev
  BY <1>3 DEF IsPlasma
<1>5. IsPlasma(r)
  BY <1>1, <1>4 DEF IsPlasma
<1> QED
  BY <1>2, <1>4, <1>5 DEF r

LEMMA UpdateForceTermsEffect ==
    ASSUME NEW q, IsPlasma(q), NEW F, NEW l
    PROVE  /\ IsPlasma(UpdateForceTerms(q, F, l))
           /\ UpdateForceTerms(q, F, l).pushes = q.pushes
           /\ UpdateForceTerms(q, F, l).temp = q.temp
           /\ UpdateForceTerms(q, F, l).prev = q.prev
           /\ UpdateForceTerms(q, F, l).F[1] = Gathered(F, l)
           /\ \A k \in 2 .. 5 : UpdateForceTerms(q, F, l).F[k] = q.F[k]
<1> DEFINE r == UpdateForceTerms(q, F, l)
           f == [q.F EXCEPT ![1] = Gathered(F, l)]
<1>1. r = [q EXCEPT !.F = f]
  BY DEF UpdateForceTerms
<1>2. DOMAIN f = 1 .. 5 /\ f[1] = Gathered(F, l) /\ \A k \in 2 .. 5 : f[k] = q.F[k]
  BY DEF IsPlasma
<1> HIDE DEF f, r
<1>3. /\ DOMAIN r = DOMAIN q /\ r.F = f /\ r.pushes = q.pushes
      /\ r.temp = q.temp /\ r.prev = q.prev
  BY <1>1 DEF IsPlasma
<1>4. IsPlasma(r)
  BY <1>2, <1>3 DEF IsPlasma
<1> QED
  BY <1>2, <1>3, <1>4 DEF r

\* An operation reaches the plasma of a level if there is one: with tiling
\* there is one level and its particles are in bins.
LEMMA ReachedIs ==
    ASSUME TiledOnOneLevel, TypeOK, BinsOK, pc # "step", NEW l \in Levels
    PROVE  Reached(l, bins) <=> l \in conf.plasmas
<1>1. l \in conf.plasmas /\ conf.tiling => bins[l].found = "all"
  BY DEF BinsOK
<1> QED
  BY <1>1 DEF Reached

LEMMA AdvanceEffect ==
    ASSUME TiledOnOneLevel, TypeOK, BinsOK, pc # "step", NEW q, IsPlasma(q),
           NEW P, P = AdvanceParticles(q, lev)
    PROVE  /\ DOMAIN P = Levels /\ \A l \in Levels : IsPlasma(P[l])
           /\ \A l \in Levels \ {lev} : P[l] = plasma[l]
           /\ lev \in conf.plasmas => P[lev] = q
<1>1. lev \in Levels /\ DOMAIN plasma = Levels /\ \A l \in Levels : IsPlasma(plasma[l])
  BY DEF TypeOK
<1>2. Reached(lev, bins) <=> lev \in conf.plasmas
  BY <1>1, ReachedIs
<1>3. P = [plasma EXCEPT ![lev] = IF Reached(lev, bins) THEN q ELSE plasma[lev]]
  BY DEF AdvanceParticles
<1>4. /\ DOMAIN P = Levels
      /\ \A l \in Levels \ {lev} : P[l] = plasma[l]
      /\ P[lev] = IF Reached(lev, bins) THEN q ELSE plasma[lev]
  BY <1>1, <1>3
<1> QED
  BY <1>1, <1>2, <1>4

\* The bins after a sort on the level being solved.
LEMMA SortEffect ==
    ASSUME TiledOnOneLevel, TypeOK, NEW P
    PROVE  /\ DOMAIN Sort(P, lev) = Levels /\ \A l \in Levels : IsBin(Sort(P, lev)[l])
           /\ conf.tiling => \A p \in conf.plasmas :
                  /\ Sort(P, lev)[p].found = "all"
                  /\ Sort(P, lev)[p].pushes = P[p].pushes
                  /\ Sort(P, lev)[p].temp = P[p].temp
           /\ Reached(lev, Sort(P, lev)) <=> lev \in conf.plasmas
<1>1. /\ conf \in Configs /\ lev \in Levels /\ lev <= conf.finestLevel
      /\ DOMAIN bins = Levels /\ \A l \in Levels : IsBin(bins[l])
  BY DEF TypeOK
<1>2. CASE conf.tiling
  <2>1. Sort(P, lev) = TileSort(P, lev)
    BY <1>2 DEF Sort
  <2>2. conf.finestLevel = 0 /\ lev = 0 /\ conf.plasmas \subseteq {0}
    <3>1. conf.finestLevel = 0
      BY <1>1, <1>2 DEF TiledOnOneLevel
    <3> QED
      BY <1>1, <3>1, ConfigOK DEF Levels
  <2> DEFINE B == TileSort(P, 0)
  <2>3. B = [p \in Levels |-> [found |-> IF p # 0 THEN "none" ELSE "all",
                               pushes |-> P[p].pushes, temp |-> P[p].temp]]
    BY DEF TileSort
  <2> HIDE DEF B
  <2>4. DOMAIN B = Levels /\ \A l \in Levels : IsBin(B[l])
    BY <2>3 DEF IsBin
  <2>5. B[0].found = "all" /\ B[0].pushes = P[0].pushes /\ B[0].temp = P[0].temp
    BY <2>3 DEF Levels
  <2>6. Sort(P, lev) = B
    BY <2>1, <2>2 DEF B
  <2> QED
    BY <1>2, <2>2, <2>4, <2>5, <2>6 DEF Reached
<1>3. CASE ~conf.tiling
  <2>1. Sort(P, lev) = bins
    BY <1>3 DEF Sort
  <2> QED
    BY <1>1, <1>3, <2>1 DEF Reached
<1> QED
  BY <1>2, <1>3

-----------------------------------------------------------------------------
(* What a step leaves alone                                                *)

LEMMA HoldsKept ==
    ASSUME NEW F, NEW G, NEW c, NEW l, NEW w, NEW cs, NEW name, NEW s, NEW ns,
           \A d \in cs : Get(G, l, w, d) = Get(F, l, w, d),
           Holds(F, c, l, w, cs, name, s, ns)
    PROVE  Holds(G, c, l, w, cs, name, s, ns)
  BY DEF Holds

FieldNames == {"ExmBy", "EypBx", "Psi", "Ez", "Bz", "Bx", "By"}

LEMMA ThisKept ==
    ASSUME NEW F, NEW G, NEW c, NEW l, NEW s,
           \A d \in FieldNames : Get(G, l, "This", d) = Get(F, l, "This", d),
           ThisHolds(F, c, l, s)
    PROVE  ThisHolds(G, c, l, s)
<1>1. PsiHolds(G, c, l, s)
  BY HoldsKept DEF ThisHolds, PsiHolds, FieldNames
<1>2. EzBzHolds(G, c, l, s)
  BY HoldsKept DEF ThisHolds, EzBzHolds, FieldNames
<1>3. BHolds(G, c, l, s, Final)
  BY HoldsKept DEF ThisHolds, BHolds, FieldNames
<1> QED
  BY <1>1, <1>2, <1>3 DEF ThisHolds

LEMMA PreviousKept ==
    ASSUME NEW F, NEW G, NEW c, NEW l, NEW s,
           \A d \in {"Psi", "Ez", "Bz", "Bx", "By"} :
               Get(G, l, "Previous1", d) = Get(F, l, "Previous1", d),
           \A d \in {"Bx", "By"} : Get(G, l, "Previous2", d) = Get(F, l, "Previous2", d),
           PreviousHolds(F, c, l, s)
    PROVE  PreviousHolds(G, c, l, s)
<1>1. Holds(G, c, l, "Previous1", {"Psi"}, "Psi", s, {0})
  BY HoldsKept DEF PreviousHolds
<1>2. Holds(G, c, l, "Previous1", {"Ez", "Bz"}, "EzBz", s, {0})
  BY HoldsKept DEF PreviousHolds
<1>3. Holds(G, c, l, "Previous1", {"Bx", "By"}, "B", s, Final)
  BY HoldsKept DEF PreviousHolds
<1>4. Holds(G, c, l, "Previous2", {"Bx", "By"}, "B", s + 1, Final)
  BY HoldsKept DEF PreviousHolds
<1> QED
  BY <1>1, <1>2, <1>3, <1>4 DEF PreviousHolds

LEMMA NamesOfFields ==
    /\ FieldNames \subseteq Names("This")
    /\ {"Psi", "Ez", "Bz", "Bx", "By"} \subseteq Names("Previous1")
    /\ {"Bx", "By"} \subseteq Names("Previous2")
  BY NamesAre DEF FieldNames, ThisNames, PreviousNames

LEMMA LevIsAhead ==
    ASSUME TypeOK, ControlOK, pc # "step"
    PROVE  Ahead(conf, isl, lev) /\ SliceOf(conf, isl, lev)
<1>1. isl \in Slices /\ lev <= conf.finestLevel /\ OnLevel(isl, lev)
  BY DEF TypeOK, ControlOK
<1>2. SliceOf(conf, isl, lev) /\ isl <= isl
  BY <1>1, SliceSolverAssumption DEF SliceOf, OnLevel, Slices
<1> QED
  BY <1>1, <1>2 DEF Ahead

\* A step within a slice of a level, that writes This and Next of the level.
WithinLevel ==
    /\ pc # "step" /\ pc' # "step"
    /\ UNCHANGED <<conf, isl, lev>>
    /\ \A m \in Levels, v \in WhichSlice : \A c \in Names(v) :
           (m = lev /\ v \in {"This", "Next"}) \/ Same(m, v, c)

LEMMA FieldsStep ==
    ASSUME TypeOK, FieldsOK, WithinLevel,
           pc' \in {"clear"} \union Finished => ThisHolds(fields', conf, lev, Newest(lev)'),
           SolvingOK', NextEmpty'
    PROVE  FieldsOK'
<1>0. /\ pc # "step" /\ conf' = conf /\ isl' = isl /\ lev' = lev
      /\ {"This", "Previous1", "Previous2"} \subseteq WhichSlice
  BY DEF WithinLevel, WhichSlice
<1>1. ASSUME NEW l \in Levels, Ahead(conf, isl, l)
      PROVE  LevelOK(l)'
  <2>1. LevelOK(l)
    BY <1>0, <1>1 DEF FieldsOK
  <2>2. /\ \A d \in {"Psi", "Ez", "Bz", "Bx", "By"} :
               Get(fields', l, "Previous1", d) = Get(fields, l, "Previous1", d)
        /\ \A d \in {"Bx", "By"} : Get(fields', l, "Previous2", d) = Get(fields, l, "Previous2", d)
    BY <1>0, NamesOfFields DEF WithinLevel, Same
  <2>3. PreviousHolds(fields', conf, l, isl + 1)
    BY <2>1, <2>2, PreviousKept DEF LevelOK
  <2>4. CASE l = lev
    BY <1>0, <2>3, <2>4 DEF LevelOK
  <2>5. CASE l # lev
    <3>1. \A d \in FieldNames : Get(fields', l, "This", d) = Get(fields, l, "This", d)
      BY <1>0, <2>5, NamesOfFields DEF WithinLevel, Same
    <3>2. ThisHolds(fields, conf, l, Newest(l))
      BY <2>1, <2>5 DEF LevelOK
    <3>3. ThisHolds(fields', conf, l, Newest(l))
      BY <3>1, <3>2, ThisKept
    <3>4. Newest(l)' = Newest(l)
      BY <1>0, <2>5 DEF Newest
    <3> QED
      BY <1>0, <2>3, <3>3, <3>4 DEF LevelOK
  <2> QED
    BY <2>4, <2>5
<1> QED
  BY <1>0, <1>1 DEF FieldsOK

LEMMA PlasmaStep ==
    ASSUME TypeOK, PlasmaOK, WithinLevel,
           \A l \in Levels \ {lev} : plasma'[l] = plasma[l],
           lev \in conf.plasmas => ParticlesOK(lev)' /\ ForcesOK(lev)'
    PROVE  PlasmaOK'
<1>0. pc # "step" /\ conf' = conf /\ isl' = isl /\ lev' = lev
  BY DEF WithinLevel
<1>1. ASSUME NEW l \in conf.plasmas, Ahead(conf, isl, l)
      PROVE  ParticlesOK(l)' /\ ForcesOK(l)'
  <2>1. l \in Levels
    BY ConfigOK
  <2>2. CASE l = lev
    BY <1>0, <1>1, <2>2
  <2>3. CASE l # lev
    <3>1. ParticlesOK(l) /\ ForcesOK(l) /\ plasma'[l] = plasma[l]
      BY <1>0, <1>1, <2>1, <2>3 DEF PlasmaOK
    <3>2. Newest(l)' = Newest(l) /\ (Pushed(l)' <=> Pushed(l)) /\ ~Shifted(l) /\ ~Shifted(l)'
      BY <1>0, <2>3 DEF Newest, Pushed, Shifted
    <3>3. ParticlesOK(l)'
      BY <1>0, <2>3, <3>1, <3>2 DEF ParticlesOK
    <3>4. ForcesOK(l)'
      BY <1>0, <2>3, <3>1, <3>2 DEF ForcesOK
    <3> QED
      BY <3>3, <3>4
  <2> QED
    BY <2>2, <2>3
<1> QED
  BY <1>0, <1>1 DEF PlasmaOK

-----------------------------------------------------------------------------
(* The steps                                                               *)

\* What each component is without the steps before, and what it needs.
LEMMA ClearInv ==
    ASSUME TiledOnOneLevel, SliceInv, Clear
    PROVE  SliceInv'
<1>0. /\ TypeOK /\ ControlOK /\ FieldsOK /\ PlasmaOK /\ BinsOK
      /\ pc = "clear" /\ pc' = "deposit"
      /\ UNCHANGED <<conf, step, isl, lev, iter, beam>>
      /\ bins' = Sort(plasma', lev)
      /\ isl \in Slices /\ lev \in Levels /\ IsPlasma(plasma[lev]) /\ DOMAIN plasma = Levels
      /\ \A l \in Levels : IsPlasma(plasma[l])
  BY DEF SliceInv, Clear, TypeOK
<1>1. /\ Shaped(fields')
      /\ \A m \in Levels, v \in WhichSlice : \A c \in Names(v) :
             Get(fields', m, v, c) =
                 IF m = lev /\ v = "This" /\ (conf.explicit => c \notin {"Bx", "By"})
                 THEN EmptyBag ELSE Get(fields, m, v, c)
  BY <1>0, ClearFields
<1>2. /\ DOMAIN plasma' = Levels /\ \A l \in Levels : IsPlasma(plasma'[l])
      /\ \A l \in Levels \ {lev} : plasma'[l] = plasma[l]
      /\ lev \in conf.plasmas =>
             plasma'[lev] = IF conf.explicit THEN plasma[lev] ELSE Push(plasma[lev])
  <2>1. CASE conf.explicit
    BY <1>0, <2>1 DEF Clear
  <2>2. CASE ~conf.explicit
    <3>1. plasma' = AdvanceParticles(Push(plasma[lev]), lev) /\ IsPlasma(Push(plasma[lev]))
      BY <1>0, <2>2, PushEffect DEF Clear
    <3> QED
      BY <1>0, <2>2, <3>1, AdvanceEffect
  <2> QED
    BY <2>1, <2>2
<1>3. /\ DOMAIN bins' = Levels /\ \A l \in Levels : IsBin(bins'[l])
      /\ conf.tiling => \A p \in conf.plasmas :
             bins'[p].found = "all" /\ bins'[p].pushes = plasma'[p].pushes
                 /\ bins'[p].temp = plasma'[p].temp
  BY <1>0, SortEffect
<1>4. TypeOK'
  BY <1>0, <1>1, <1>2, <1>3 DEF TypeOK, Parts
<1>5. ControlOK'
  BY <1>0 DEF ControlOK, OnLevel
<1>6. WithinLevel
  BY <1>0, <1>1 DEF WithinLevel, Same
<1>7. FieldsOK'
  <2>1. SolvingOK'
    <3>1. SUFFICES ASSUME conf.explicit
                   PROVE  BHolds(fields', conf, lev, isl + 1, Final)
      BY <1>0 DEF SolvingOK
    <3>2. Newest(lev) = isl + 1 /\ LevelOK(lev)
      BY <1>0, LevIsAhead DEF Newest, Finished, Levels, FieldsOK
    <3>3. BHolds(fields, conf, lev, isl + 1, Final)
      BY <1>0, <3>2 DEF LevelOK, ThisHolds
    <3>4. \A d \in {"Bx", "By"} : Get(fields', lev, "This", d) = Get(fields, lev, "This", d)
      BY <1>0, <1>1, <3>1, NamesOfFields DEF WhichSlice, FieldNames
    <3> QED
      BY <3>3, <3>4, HoldsKept DEF BHolds
  <2>2. NextEmpty'
    BY <1>0, <1>1 DEF NextEmpty, FieldsOK, WhichSlice
  <2> QED
    BY <1>0, <1>6, <2>1, <2>2, FieldsStep DEF Finished
<1>8. PlasmaOK'
  <2>1. SUFFICES ASSUME lev \in conf.plasmas
                 PROVE  ParticlesOK(lev)' /\ ForcesOK(lev)'
    BY <1>0, <1>2, <1>6, PlasmaStep
  <2>2. ParticlesOK(lev) /\ ForcesOK(lev) /\ SliceOf(conf, isl, lev)
    BY <1>0, <2>1, LevIsAhead DEF PlasmaOK
  <2>3. /\ plasma[lev].pushes = CountOf(conf, isl + 1, lev) /\ plasma[lev].temp = 0
        /\ Newest(lev) = isl + 1 /\ Newest(lev)' = isl + 1
        /\ ~Shifted(lev) /\ ~Shifted(lev)' /\ (Pushed(lev)' <=> ~conf.explicit)
    BY <1>0, <2>2 DEF ParticlesOK, Pushed, Shifted, Newest, Finished, Levels
  <2>4. /\ plasma'[lev].F = plasma[lev].F /\ plasma'[lev].temp = 0
        /\ plasma'[lev].pushes = CountOf(conf, IF conf.explicit THEN isl + 1 ELSE isl, lev)
        /\ ~conf.explicit => plasma'[lev].prev = plasma'[lev].pushes
    <3>1. CASE conf.explicit
      BY <1>2, <2>1, <2>3, <3>1
    <3>2. CASE ~conf.explicit
      <4>1. CountOf(conf, isl, lev) = CountOf(conf, isl + 1, lev) + 1
        BY <1>0, <2>2, CountStep
      <4> QED
        BY <1>0, <1>2, <2>1, <2>3, <3>2, <4>1, PushEffect
    <3> QED
      BY <3>1, <3>2
  <2>5. ParticlesOK(lev)'
    <3>1. CASE conf.explicit
      BY <1>0, <2>4, <3>1 DEF ParticlesOK, Pushed, Shifted, Finished, Levels
    <3>2. CASE ~conf.explicit
      BY <1>0, <2>4, <3>2 DEF ParticlesOK, Pushed, Shifted, Finished, Levels
    <3> QED
      BY <3>1, <3>2
  <2>6. ForcesOK(lev)'
    <3>1. ForcesFrom(plasma[lev].F, conf, lev, 1, isl + 1)
      BY <2>2, <2>3 DEF ForcesOK
    <3> QED
      BY <1>0, <2>3, <2>4, <3>1 DEF ForcesOK, Finished
  <2> QED
    BY <2>5, <2>6
<1>9. BinsOK'
  BY <1>0, <1>3 DEF BinsOK
<1> QED
  BY <1>4, <1>5, <1>7, <1>8, <1>9 DEF SliceInv


\* The parts from the deposition to the transverse fields leave the plasma.
LEMMA PlasmaLeft ==
    ASSUME TypeOK, ControlOK, PlasmaOK, WithinLevel, plasma' = plasma,
           pc \in {"deposit", "psi", "ezbz"}, pc' \in {"psi", "ezbz", "explicit", "guess"}
    PROVE  PlasmaOK'
<1>0. conf' = conf /\ isl' = isl /\ lev' = lev /\ lev \in Levels /\ pc # "step"
  BY DEF WithinLevel, TypeOK
<1>1. SUFFICES ASSUME lev \in conf.plasmas
               PROVE  ParticlesOK(lev)' /\ ForcesOK(lev)'
  BY <1>0, PlasmaStep
<1>2. ParticlesOK(lev) /\ ForcesOK(lev)
  <2>1. Ahead(conf, isl, lev)
    BY <1>0, LevIsAhead DEF PlasmaOK
  <2> QED
    BY <1>0, <1>1, <2>1 DEF PlasmaOK
<1>3. /\ ~Shifted(lev) /\ ~Shifted(lev)' /\ Newest(lev) = isl + 1 /\ Newest(lev)' = isl + 1
      /\ Pushed(lev)' <=> Pushed(lev)
  BY <1>0 DEF Shifted, Newest, Pushed, Finished, Levels
<1>4. ParticlesOK(lev)'
  BY <1>0, <1>2, <1>3 DEF ParticlesOK, Finished
<1>5. ForcesOK(lev)'
  BY <1>0, <1>2, <1>3 DEF ForcesOK, Finished
<1> QED
  BY <1>4, <1>5

LEMMA DepositInv ==
    ASSUME SliceInv, Deposit
    PROVE  SliceInv'
<1>0. /\ TypeOK /\ ControlOK /\ FieldsOK /\ PlasmaOK /\ BinsOK
      /\ pc = "deposit" /\ pc' = "psi"
      /\ UNCHANGED <<conf, step, isl, lev, iter, plasma, bins, beam>>
  BY DEF SliceInv, Deposit
<1>1. /\ Shaped(fields')
      /\ \A m \in Levels, v \in WhichSlice : \A c \in Names(v) :
             \/ m = lev /\ v = "This" /\ c \notin {"Bx", "By"}
             \/ conf.explicit /\ m = lev /\ v = "Next"
             \/ Same(m, v, c)
  BY <1>0, DepositFields
<1>4. TypeOK'
  BY <1>0, <1>1 DEF TypeOK, Parts
<1>5. ControlOK'
  BY <1>0 DEF ControlOK, OnLevel
<1>6. WithinLevel
  BY <1>0, <1>1 DEF WithinLevel
<1>7. FieldsOK'
  <2>1. SolvingOK'
    <3>1. SUFFICES ASSUME conf.explicit
                   PROVE  BHolds(fields', conf, lev, isl + 1, Final)
      BY <1>0 DEF SolvingOK
    <3>2. BHolds(fields, conf, lev, isl + 1, Final)
      BY <1>0, <3>1 DEF FieldsOK, SolvingOK
    <3>3. lev \in Levels /\ "This" \in WhichSlice /\ {"Bx", "By"} \subseteq Names("This")
      BY <1>0, NamesOfFields DEF TypeOK, WhichSlice, FieldNames
    <3>4. \A d \in {"Bx", "By"} : Get(fields', lev, "This", d) = Get(fields, lev, "This", d)
      BY <1>1, <3>3 DEF Same
    <3> QED
      BY <3>2, <3>4, HoldsKept DEF BHolds
  <2>2. NextEmpty'
    <3>1. SUFFICES ASSUME ~conf.explicit, NEW l \in Levels, NEW c \in Names("Next")
                   PROVE  Get(fields', l, "Next", c) = EmptyBag
      BY <1>0 DEF NextEmpty
    <3>2. Get(fields, l, "Next", c) = EmptyBag /\ "Next" \in WhichSlice
      BY <1>0, <3>1 DEF FieldsOK, NextEmpty, WhichSlice
    <3> QED
      BY <1>1, <3>1, <3>2 DEF Same
  <2> QED
    BY <1>0, <1>6, <2>1, <2>2, FieldsStep DEF Finished
<1>8. PlasmaOK'
  BY <1>0, <1>6, PlasmaLeft
<1>9. BinsOK'
  BY <1>0 DEF BinsOK
<1> QED
  BY <1>4, <1>5, <1>7, <1>8, <1>9 DEF SliceInv

LEMMA SolvePsiInv ==
    ASSUME SliceInv, SolvePsi
    PROVE  SliceInv'
<1>0. /\ TypeOK /\ ControlOK /\ FieldsOK /\ PlasmaOK /\ BinsOK
      /\ pc = "psi" /\ pc' = "ezbz"
      /\ UNCHANGED <<conf, step, isl, lev, iter, plasma, bins, beam>>
  BY DEF SliceInv, SolvePsi
<1>1. /\ Shaped(fields')
      /\ \A m \in Levels, v \in WhichSlice : \A c \in Names(v) :
             (m = lev /\ v = "This" /\ c \notin {"Bx", "By"}) \/ Same(m, v, c)
      /\ \A c \in {"ExmBy", "EypBx", "Psi"} :
             Get(fields', lev, "This", c) = Field("Psi", lev, isl, 0)
  BY <1>0, SolvePsiFields
<1>2. SliceOf(conf, isl, lev) /\ lev \in Levels
  BY <1>0, LevIsAhead DEF TypeOK
<1>4. TypeOK'
  BY <1>0, <1>1 DEF TypeOK, Parts
<1>5. ControlOK'
  BY <1>0 DEF ControlOK, OnLevel
<1>6. WithinLevel
  BY <1>0, <1>1 DEF WithinLevel
<1>7. FieldsOK'
  <2>1. PsiHolds(fields', conf, lev, isl)
    BY <1>1, <1>2 DEF PsiHolds, Holds
  <2>2. conf.explicit => BHolds(fields', conf, lev, isl + 1, Final)
    <3>1. SUFFICES ASSUME conf.explicit
                   PROVE  BHolds(fields', conf, lev, isl + 1, Final)
      OBVIOUS
    <3>2. BHolds(fields, conf, lev, isl + 1, Final)
      BY <1>0, <3>1 DEF FieldsOK, SolvingOK
    <3>3. "This" \in WhichSlice /\ {"Bx", "By"} \subseteq Names("This")
      BY NamesOfFields DEF WhichSlice, FieldNames
    <3>4. \A d \in {"Bx", "By"} : Get(fields', lev, "This", d) = Get(fields, lev, "This", d)
      BY <1>1, <1>2, <3>3 DEF Same
    <3> QED
      BY <3>2, <3>4, HoldsKept DEF BHolds
  <2>3. SolvingOK'
    BY <1>0, <2>1, <2>2 DEF SolvingOK
  <2>4. NextEmpty'
    <3>1. SUFFICES ASSUME ~conf.explicit, NEW l \in Levels, NEW c \in Names("Next")
                   PROVE  Get(fields', l, "Next", c) = EmptyBag
      BY <1>0 DEF NextEmpty
    <3>2. Get(fields, l, "Next", c) = EmptyBag /\ "Next" \in WhichSlice
      BY <1>0, <3>1 DEF FieldsOK, NextEmpty, WhichSlice
    <3> QED
      BY <1>1, <3>1, <3>2 DEF Same
  <2> QED
    BY <1>0, <1>6, <2>3, <2>4, FieldsStep DEF Finished
<1>8. PlasmaOK'
  BY <1>0, <1>6, PlasmaLeft
<1>9. BinsOK'
  BY <1>0 DEF BinsOK
<1> QED
  BY <1>4, <1>5, <1>7, <1>8, <1>9 DEF SliceInv

LEMMA SolveEzBzInv ==
    ASSUME SliceInv, SolveEzBz
    PROVE  SliceInv'
<1>0. /\ TypeOK /\ ControlOK /\ FieldsOK /\ PlasmaOK /\ BinsOK
      /\ pc = "ezbz" /\ pc' = IF conf.explicit THEN "explicit" ELSE "guess"
      /\ UNCHANGED <<conf, step, isl, lev, iter, plasma, bins, beam>>
  BY DEF SliceInv, SolveEzBz
<1>1. /\ Shaped(fields')
      /\ \A m \in Levels, v \in WhichSlice : \A c \in Names(v) :
             (m = lev /\ v = "This" /\ c \in {"Ez", "Bz", "rho"}) \/ Same(m, v, c)
      /\ \A c \in {"Ez", "Bz"} :
             Get(fields', lev, "This", c) = Field("EzBz", lev, isl, 0)
  BY <1>0, SolveEzBzFields
<1>2. SliceOf(conf, isl, lev) /\ lev \in Levels /\ pc' \in {"explicit", "guess"}
  BY <1>0, LevIsAhead DEF TypeOK
<1>3. \A d \in {"ExmBy", "EypBx", "Psi", "Bx", "By"} :
          Get(fields', lev, "This", d) = Get(fields, lev, "This", d)
  <2>1. "This" \in WhichSlice /\ {"ExmBy", "EypBx", "Psi", "Bx", "By"} \subseteq Names("This")
    BY NamesOfFields DEF WhichSlice, FieldNames
  <2> QED
    BY <1>1, <1>2, <2>1 DEF Same
<1>4. TypeOK'
  BY <1>0, <1>1 DEF TypeOK, Parts
<1>5. ControlOK'
  BY <1>0, <1>2 DEF ControlOK, OnLevel
<1>6. WithinLevel
  BY <1>0, <1>1, <1>2 DEF WithinLevel
<1>7. FieldsOK'
  <2>1. EzBzHolds(fields', conf, lev, isl)
    BY <1>1, <1>2 DEF EzBzHolds, Holds
  <2>2. PsiHolds(fields', conf, lev, isl)
    <3>1. PsiHolds(fields, conf, lev, isl)
      BY <1>0 DEF FieldsOK, SolvingOK
    <3> QED
      BY <1>3, <3>1, HoldsKept DEF PsiHolds
  <2>3. conf.explicit => BHolds(fields', conf, lev, isl + 1, Final)
    <3>1. SUFFICES ASSUME conf.explicit
                   PROVE  BHolds(fields', conf, lev, isl + 1, Final)
      OBVIOUS
    <3>2. BHolds(fields, conf, lev, isl + 1, Final)
      BY <1>0, <3>1 DEF FieldsOK, SolvingOK
    <3> QED
      BY <1>3, <3>2, HoldsKept DEF BHolds
  <2>4. SolvingOK'
    BY <1>0, <1>2, <2>1, <2>2, <2>3 DEF SolvingOK
  <2>5. NextEmpty'
    <3>1. SUFFICES ASSUME ~conf.explicit, NEW l \in Levels, NEW c \in Names("Next")
                   PROVE  Get(fields', l, "Next", c) = EmptyBag
      BY <1>0 DEF NextEmpty
    <3>2. Get(fields, l, "Next", c) = EmptyBag /\ "Next" \in WhichSlice
      BY <1>0, <3>1 DEF FieldsOK, NextEmpty, WhichSlice
    <3> QED
      BY <1>1, <3>1, <3>2 DEF Same
  <2> QED
    BY <1>0, <1>2, <1>6, <2>4, <2>5, FieldsStep DEF Finished
<1>8. PlasmaOK'
  BY <1>0, <1>2, <1>6, PlasmaLeft
<1>9. BinsOK'
  BY <1>0, <1>2 DEF BinsOK
<1> QED
  BY <1>4, <1>5, <1>7, <1>8, <1>9 DEF SliceInv

\* The force terms shifted by one slice; the first one gathered again.
LEMMA ForcesShifted ==
    ASSUME NEW f, NEW g, NEW c, NEW l, NEW s \in Int, ForcesFrom(f, c, l, 1, s + 1),
           \A k \in 2 .. 5 : g[k] = f[k - 1]
    PROVE  ForcesFrom(g, c, l, 2, s)
<1>1. SUFFICES ASSUME NEW k \in 2 .. 5 PROVE ForceOf(g[k], c, l, s + k - 1)
  BY DEF ForcesFrom
<1>2. k - 1 \in 1 .. 5 /\ (s + 1) + (k - 1) - 1 = s + k - 1
  OBVIOUS
<1>3. ForceOf(f[k - 1], c, l, (s + 1) + (k - 1) - 1)
  BY <1>2 DEF ForcesFrom
<1> QED
  BY <1>2, <1>3

LEMMA ForcesFirst ==
    ASSUME NEW f, NEW c, NEW l, NEW s \in Int, ForcesFrom(f, c, l, 2, s), NEW n \in Final,
           f[1] = AllOf(l, s, n), SliceOf(c, s, l)
    PROVE  ForcesFrom(f, c, l, 1, s)
<1>1. SUFFICES ASSUME NEW k \in 1 .. 5 PROVE ForceOf(f[k], c, l, s + k - 1)
  BY DEF ForcesFrom
<1>2. CASE k = 1
  <2>1. ForceOf(f[1], c, l, s) /\ s + 1 - 1 = s
    BY DEF ForceOf
  <2> QED
    BY <1>2, <2>1
<1>3. CASE k # 1
  BY <1>3 DEF ForcesFrom
<1> QED
  BY <1>2, <1>3

LEMMA ForcesKept ==
    ASSUME NEW f, NEW g, NEW c, NEW l, NEW s, ForcesFrom(f, c, l, 2, s),
           \A k \in 2 .. 5 : g[k] = f[k]
    PROVE  ForcesFrom(g, c, l, 2, s)
  BY DEF ForcesFrom

\* The labels of one slice.
LEMMA FieldsOfSlice ==
    ASSUME NEW F, NEW c, NEW l, NEW s, NEW n, SliceOf(c, s, l),
           PsiHolds(F, c, l, s), EzBzHolds(F, c, l, s), BHolds(F, c, l, s, {n})
    PROVE  /\ \A d \in {"ExmBy", "EypBx"} : Get(F, l, "This", d) = Field("Psi", l, s, 0)
           /\ \A d \in {"Ez", "Bz"} : Get(F, l, "This", d) = Field("EzBz", l, s, 0)
           /\ \A d \in {"Bx", "By"} : Get(F, l, "This", d) = Field("B", l, s, n)
  BY DEF PsiHolds, EzBzHolds, BHolds, Holds

LEMMA FinalHolds ==
    ASSUME NEW F, NEW c, NEW l, NEW s, NEW n \in Final, SliceOf(c, s, l),
           BHolds(F, c, l, s, {n})
    PROVE  BHolds(F, c, l, s, Final)
  BY DEF BHolds, Holds

LEMMA SolvedNow ==
    ASSUME NEW F, NEW c, NEW l, NEW s, NEW n, SliceOf(c, s, l),
           \A d \in {"Bx", "By"} : Get(F, l, "This", d) = Field("B", l, s, n)
    PROVE  BHolds(F, c, l, s, {n})
  BY DEF BHolds, Holds

LEMMA ExplicitInv ==
    ASSUME TiledOnOneLevel, SliceInv, ExplicitSolveBxBy
    PROVE  SliceInv'
<1> DEFINE BxBy == Set(fields, lev, "This", {"Bx", "By"}, Field("B", lev, isl, 1))
           shifted == ShiftForceTerms(plasma[lev])
           updated == UpdateForceTerms(shifted, BxBy, lev)
<1>0. /\ TypeOK /\ ControlOK /\ FieldsOK /\ PlasmaOK /\ BinsOK
      /\ pc = "explicit" /\ pc' = "beam" /\ conf.explicit
      /\ UNCHANGED <<conf, step, isl, lev, iter, bins, beam>>
      /\ plasma' = AdvanceParticles(Push(updated), lev)
      /\ lev \in Levels /\ isl \in Slices /\ IsPlasma(plasma[lev])
      /\ Shaped(fields) /\ {"Bx", "By"} \in SUBSET Names("This") /\ "This" \in WhichSlice
  BY NamesOfFields DEF SliceInv, ExplicitSolveBxBy, ControlOK, TypeOK, FieldNames, WhichSlice
<1>s. /\ SliceOf(conf, isl, lev) /\ 1 \in Final /\ isl \in Int
      /\ {"ExmBy", "EypBx", "Psi", "Ez", "Bz", "Bx", "By"} \subseteq Names("This")
      /\ {"ExmBy", "EypBx", "Psi", "Ez", "Bz"} \cap {"Bx", "By"} = {}
  BY <1>0, LevIsAhead, ConfigOK, NamesOfFields DEF Final, Slices, FieldNames
<1>1. /\ Shaped(fields')
      /\ \A m \in Levels, v \in WhichSlice : \A c \in Names(v) :
             (m = lev /\ v = "This" /\ c \in {"Bx", "By", "rho"}) \/ Same(m, v, c)
      /\ \A c \in {"Bx", "By"} : Get(fields', lev, "This", c) = Field("B", lev, isl, 1)
  BY <1>0, ExplicitFields
<1>2. \A m \in Levels, v \in WhichSlice : \A c \in Names(v) :
          Get(BxBy, m, v, c) = IF m = lev /\ v = "This" /\ c \in {"Bx", "By"}
                               THEN Field("B", lev, isl, 1) ELSE Get(fields, m, v, c)
  BY <1>0, SetEffect
<1>h. /\ updated = UpdateForceTerms(shifted, BxBy, lev)
      /\ shifted = ShiftForceTerms(plasma[lev])
  OBVIOUS
<1> HIDE DEF BxBy, shifted, updated
<1>3. PsiHolds(fields, conf, lev, isl) /\ EzBzHolds(fields, conf, lev, isl)
  BY <1>0 DEF FieldsOK, SolvingOK
<1>4. /\ IsPlasma(updated) /\ updated.pushes = plasma[lev].pushes
      /\ updated.temp = plasma[lev].temp
      /\ updated.F[1] = Gathered(BxBy, lev)
      /\ \A k \in 2 .. 5 : updated.F[k] = plasma[lev].F[k - 1]
  BY <1>0, <1>h, ShiftForceTermsEffect, UpdateForceTermsEffect
<1>5. Gathered(BxBy, lev) = AllOf(lev, isl, 1)
  <2>1. PsiHolds(BxBy, conf, lev, isl)
    <3>1. \A d \in {"ExmBy", "EypBx", "Psi"} :
              Get(BxBy, lev, "This", d) = Get(fields, lev, "This", d)
      BY <1>0, <1>s, <1>2
    <3> QED
      BY <1>3, <3>1, HoldsKept DEF PsiHolds
  <2>2. EzBzHolds(BxBy, conf, lev, isl)
    <3>1. \A d \in {"Ez", "Bz"} : Get(BxBy, lev, "This", d) = Get(fields, lev, "This", d)
      BY <1>0, <1>s, <1>2
    <3> QED
      BY <1>3, <3>1, HoldsKept DEF EzBzHolds
  <2>3. \A d \in {"Bx", "By"} : Get(BxBy, lev, "This", d) = Field("B", lev, isl, 1)
    BY <1>0, <1>2
  <2>4. BHolds(BxBy, conf, lev, isl, {1})
    BY <1>s, <2>3, SolvedNow
  <2>5. /\ \A d \in {"ExmBy", "EypBx"} : Get(BxBy, lev, "This", d) = Field("Psi", lev, isl, 0)
        /\ \A d \in {"Ez", "Bz"} : Get(BxBy, lev, "This", d) = Field("EzBz", lev, isl, 0)
    BY <1>s, <2>1, <2>2, <2>4, FieldsOfSlice
  <2> QED
    BY <2>3, <2>5, GatheredIs
<1>6. /\ DOMAIN plasma' = Levels /\ \A l \in Levels : IsPlasma(plasma'[l])
      /\ \A l \in Levels \ {lev} : plasma'[l] = plasma[l]
      /\ lev \in conf.plasmas => plasma'[lev] = Push(updated)
  <2>1. IsPlasma(Push(updated))
    BY <1>4, PushEffect
  <2> QED
    BY <1>0, <2>1, AdvanceEffect
<1>7. TypeOK'
  BY <1>0, <1>1, <1>6 DEF TypeOK, Parts
<1>8. ControlOK'
  BY <1>0 DEF ControlOK, OnLevel
<1>9. WithinLevel
  BY <1>0, <1>1 DEF WithinLevel
<1>10. FieldsOK'
  <2>1. ThisHolds(fields', conf, lev, isl)
    <3>1. \A d \in {"ExmBy", "EypBx", "Psi", "Ez", "Bz"} :
              Get(fields', lev, "This", d) = Get(fields, lev, "This", d)
      BY <1>0, <1>s, <1>1 DEF Same
    <3>2. PsiHolds(fields', conf, lev, isl) /\ EzBzHolds(fields', conf, lev, isl)
      BY <1>3, <3>1, HoldsKept DEF PsiHolds, EzBzHolds
    <3>3. BHolds(fields', conf, lev, isl, Final)
      BY <1>1, <1>s, SolvedNow, FinalHolds
    <3> QED
      BY <3>2, <3>3 DEF ThisHolds
  <2>2. SolvingOK' /\ NextEmpty'
    BY <1>0 DEF SolvingOK, NextEmpty
  <2>3. Newest(lev)' = isl
    BY <1>0 DEF Newest, Finished
  <2> QED
    BY <1>0, <1>9, <2>1, <2>2, <2>3, FieldsStep
<1>11. PlasmaOK'
  <2>1. SUFFICES ASSUME lev \in conf.plasmas
                 PROVE  ParticlesOK(lev)' /\ ForcesOK(lev)'
    BY <1>0, <1>6, <1>9, PlasmaStep
  <2>2. ParticlesOK(lev) /\ ForcesOK(lev)
    BY <1>0, <2>1, LevIsAhead DEF PlasmaOK
  <2>3. /\ ~Shifted(lev) /\ ~Shifted(lev)' /\ Newest(lev) = isl + 1 /\ Newest(lev)' = isl
        /\ ~Pushed(lev) /\ Pushed(lev)'
    BY <1>0 DEF Shifted, Newest, Pushed, Finished, Levels
  <2>4. /\ plasma'[lev].F = updated.F
        /\ plasma'[lev].pushes = plasma[lev].pushes + 1
        /\ plasma'[lev].temp = IF plasma[lev].temp = 0 THEN 0 ELSE -1
    BY <1>4, <1>6, <2>1, PushEffect
  <2>5. ParticlesOK(lev)'
    <3>1. CountOf(conf, isl, lev) = CountOf(conf, isl + 1, lev) + 1
      BY <1>0, <1>s, CountStep
    <3> QED
      BY <1>0, <2>2, <2>3, <2>4, <3>1 DEF ParticlesOK, Finished
  <2>6. ForcesOK(lev)'
    <3>1. ForcesFrom(plasma[lev].F, conf, lev, 1, isl + 1)
      BY <2>2, <2>3 DEF ForcesOK
    <3>2. ForcesFrom(updated.F, conf, lev, 2, isl)
      BY <1>4, <1>s, <3>1, ForcesShifted
    <3>3. ForcesFrom(updated.F, conf, lev, 1, isl)
      BY <1>4, <1>5, <1>s, <3>2, ForcesFirst
    <3> QED
      BY <1>0, <1>1, <1>4, <1>5, <1>s, <2>3, <2>4, <3>3 DEF ForcesOK
  <2> QED
    BY <2>5, <2>6
<1>12. BinsOK'
  BY <1>0 DEF BinsOK
<1> QED
  BY <1>7, <1>8, <1>10, <1>11, <1>12 DEF SliceInv

LEMMA GuessInv ==
    ASSUME TiledOnOneLevel, SliceInv, Guess
    PROVE  SliceInv'
<1> DEFINE shifted == ShiftForceTerms(plasma[lev])
           updated == UpdateForceTerms(shifted, fields', lev)
<1>0. /\ TypeOK /\ ControlOK /\ FieldsOK /\ PlasmaOK /\ BinsOK
      /\ pc = "guess" /\ pc' = "predict" /\ ~conf.explicit /\ iter' = 0
      /\ UNCHANGED <<conf, step, isl, lev, bins, beam>>
      /\ plasma' = AdvanceParticles(updated, lev)
      /\ lev \in Levels /\ isl \in Slices /\ IsPlasma(plasma[lev])
      /\ "This" \in WhichSlice /\ "Next" \in WhichSlice
  BY DEF SliceInv, Guess, ControlOK, TypeOK, WhichSlice
<1>s. /\ SliceOf(conf, isl, lev) /\ isl \in Int /\ iter' \in 0 .. MaxIter
      /\ {"ExmBy", "EypBx", "Psi", "Ez", "Bz", "Bx", "By"} \subseteq Names("This")
      /\ {"ExmBy", "EypBx", "Psi", "Ez", "Bz"} \cap {"Bx", "By"} = {}
  BY <1>0, LevIsAhead, ConfigOK, NamesOfFields DEF Slices, FieldNames
<1>1. /\ Shaped(fields')
      /\ \A m \in Levels, v \in WhichSlice : \A c \in Names(v) :
             Get(fields', m, v, c) = IF m = lev /\ v = "This" /\ c \in {"Bx", "By"}
                                     THEN Field("B", lev, isl, 0) ELSE Get(fields, m, v, c)
  BY <1>0, GuessFields
<1>h. /\ updated = UpdateForceTerms(shifted, fields', lev)
      /\ shifted = ShiftForceTerms(plasma[lev])
  OBVIOUS
<1> HIDE DEF shifted, updated
<1>2. /\ IsPlasma(updated) /\ updated.pushes = plasma[lev].pushes
      /\ updated.temp = plasma[lev].temp /\ updated.prev = plasma[lev].prev
      /\ updated.F[1] = Gathered(fields', lev)
      /\ \A k \in 2 .. 5 : updated.F[k] = plasma[lev].F[k - 1]
  BY <1>0, <1>h, ShiftForceTermsEffect, UpdateForceTermsEffect
<1>3. /\ DOMAIN plasma' = Levels /\ \A l \in Levels : IsPlasma(plasma'[l])
      /\ \A l \in Levels \ {lev} : plasma'[l] = plasma[l]
      /\ lev \in conf.plasmas => plasma'[lev] = updated
  BY <1>0, <1>2, AdvanceEffect
<1>4. /\ PsiHolds(fields', conf, lev, isl) /\ EzBzHolds(fields', conf, lev, isl)
      /\ BHolds(fields', conf, lev, isl, {0})
  <2>1. PsiHolds(fields, conf, lev, isl) /\ EzBzHolds(fields, conf, lev, isl)
    BY <1>0 DEF FieldsOK, SolvingOK
  <2>2. \A d \in {"ExmBy", "EypBx", "Psi", "Ez", "Bz"} :
            Get(fields', lev, "This", d) = Get(fields, lev, "This", d)
    BY <1>0, <1>s, <1>1
  <2>3. \A d \in {"Bx", "By"} : Get(fields', lev, "This", d) = Field("B", lev, isl, 0)
    BY <1>0, <1>s, <1>1
  <2> QED
    BY <1>s, <2>1, <2>2, <2>3, HoldsKept, SolvedNow DEF PsiHolds, EzBzHolds
<1>5. Gathered(fields', lev) = AllOf(lev, isl, 0)
  <2>1. /\ \A d \in {"ExmBy", "EypBx"} : Get(fields', lev, "This", d) = Field("Psi", lev, isl, 0)
        /\ \A d \in {"Ez", "Bz"} : Get(fields', lev, "This", d) = Field("EzBz", lev, isl, 0)
        /\ \A d \in {"Bx", "By"} : Get(fields', lev, "This", d) = Field("B", lev, isl, 0)
    BY <1>s, <1>4, FieldsOfSlice
  <2> QED
    BY <2>1, GatheredIs
<1>7. TypeOK'
  BY <1>0, <1>s, <1>1, <1>3 DEF TypeOK, Parts
<1>8. ControlOK'
  BY <1>0 DEF ControlOK, OnLevel
<1>9. WithinLevel
  BY <1>0, <1>1 DEF WithinLevel, Same
<1>10. FieldsOK'
  <2>1. SolvingOK'
    BY <1>0, <1>4 DEF SolvingOK
  <2>2. NextEmpty'
    BY <1>0, <1>1 DEF NextEmpty, FieldsOK
  <2> QED
    BY <1>0, <1>9, <2>1, <2>2, FieldsStep DEF Finished
<1>11. PlasmaOK'
  <2>1. SUFFICES ASSUME lev \in conf.plasmas
                 PROVE  ParticlesOK(lev)' /\ ForcesOK(lev)'
    BY <1>0, <1>3, <1>9, PlasmaStep
  <2>2. ParticlesOK(lev) /\ ForcesOK(lev)
    BY <1>0, <2>1, LevIsAhead DEF PlasmaOK
  <2>3. ~Shifted(lev) /\ Shifted(lev)' /\ Newest(lev) = isl + 1 /\ Pushed(lev) /\ Pushed(lev)'
    BY <1>0 DEF Shifted, Newest, Pushed, Finished, Levels
  <2>4. ParticlesOK(lev)'
    BY <1>0, <1>2, <1>3, <2>1, <2>2, <2>3 DEF ParticlesOK, Finished
  <2>5. ForcesOK(lev)'
    <3>1. ForcesFrom(plasma[lev].F, conf, lev, 1, isl + 1)
      BY <2>2, <2>3 DEF ForcesOK
    <3>2. ForcesFrom(updated.F, conf, lev, 2, isl)
      BY <1>2, <1>s, <3>1, ForcesShifted
    <3> QED
      BY <1>0, <1>2, <1>3, <1>5, <2>1, <2>3, <3>2 DEF ForcesOK, Finished
  <2> QED
    BY <2>4, <2>5
<1>12. BinsOK'
  BY <1>0 DEF BinsOK
<1> QED
  BY <1>7, <1>8, <1>10, <1>11, <1>12 DEF SliceInv

LEMMA PredictInv ==
    ASSUME TiledOnOneLevel, SliceInv, Predict
    PROVE  SliceInv'
<1> DEFINE pushed == PushTemporarily(plasma[lev], iter')
<1>0. /\ TypeOK /\ ControlOK /\ FieldsOK /\ PlasmaOK /\ BinsOK
      /\ pc = "predict" /\ pc' = "correct" /\ ~conf.explicit
      /\ iter' = iter + 1 /\ iter' \in 1 .. MaxIter
      /\ UNCHANGED <<conf, step, isl, lev, beam>>
      /\ plasma' = AdvanceParticles(pushed, lev)
      /\ bins' = Sort(plasma', lev)
      /\ lev \in Levels /\ isl \in Slices /\ IsPlasma(plasma[lev])
      /\ "This" \in WhichSlice /\ "Next" \in WhichSlice
  <2>1. iter \in 0 .. MaxIter /\ iter < MaxIter /\ MaxIter \in Nat
    BY SliceSolverAssumption DEF SliceInv, TypeOK, Predict
  <2> QED
    BY <2>1 DEF SliceInv, Predict, ControlOK, TypeOK, WhichSlice
<1>1. /\ Shaped(fields')
      /\ \A m \in Levels, v \in WhichSlice : \A c \in Names(v) :
             (m = lev /\ v = "Next") \/ Same(m, v, c)
  BY <1>0, PredictFields
<1>2. /\ IsPlasma(pushed) /\ pushed.pushes = plasma[lev].pushes /\ pushed.F = plasma[lev].F
      /\ pushed.prev = plasma[lev].prev
      /\ pushed.temp = IF plasma[lev].prev = plasma[lev].pushes THEN iter' ELSE -1
  BY <1>0, PushTemporarilyEffect
<1> HIDE DEF pushed
<1>3. /\ DOMAIN plasma' = Levels /\ \A l \in Levels : IsPlasma(plasma'[l])
      /\ \A l \in Levels \ {lev} : plasma'[l] = plasma[l]
      /\ lev \in conf.plasmas => plasma'[lev] = pushed
  BY <1>0, <1>2, AdvanceEffect
<1>4. /\ DOMAIN bins' = Levels /\ \A l \in Levels : IsBin(bins'[l])
      /\ conf.tiling => \A p \in conf.plasmas :
             bins'[p].found = "all" /\ bins'[p].pushes = plasma'[p].pushes
                 /\ bins'[p].temp = plasma'[p].temp
  BY <1>0, SortEffect
<1>7. TypeOK'
  BY <1>0, <1>1, <1>3, <1>4 DEF TypeOK, Parts
<1>8. ControlOK'
  BY <1>0 DEF ControlOK, OnLevel
<1>9. WithinLevel
  BY <1>0, <1>1 DEF WithinLevel
<1>10. FieldsOK'
  <2>1. PsiHolds(fields', conf, lev, isl) /\ EzBzHolds(fields', conf, lev, isl)
    <3>1. PsiHolds(fields, conf, lev, isl) /\ EzBzHolds(fields, conf, lev, isl)
      BY <1>0 DEF FieldsOK, SolvingOK
    <3>2. \A d \in {"ExmBy", "EypBx", "Psi", "Ez", "Bz"} :
              Get(fields', lev, "This", d) = Get(fields, lev, "This", d)
      BY <1>0, <1>1, NamesOfFields DEF Same, FieldNames
    <3> QED
      BY <3>1, <3>2, HoldsKept DEF PsiHolds, EzBzHolds
  <2>2. SolvingOK'
    BY <1>0, <2>1 DEF SolvingOK
  <2>3. NextEmpty'
    <3>1. SUFFICES ASSUME NEW l \in Levels, l # lev, NEW c \in Names("Next")
                   PROVE  Get(fields', l, "Next", c) = EmptyBag
      BY <1>0 DEF NextEmpty
    <3>2. Get(fields, l, "Next", c) = EmptyBag
      BY <1>0, <3>1 DEF FieldsOK, NextEmpty
    <3> QED
      BY <1>0, <1>1, <3>1, <3>2 DEF Same
  <2> QED
    BY <1>0, <1>9, <2>2, <2>3, FieldsStep DEF Finished
<1>11. PlasmaOK'
  <2>1. SUFFICES ASSUME lev \in conf.plasmas
                 PROVE  ParticlesOK(lev)' /\ ForcesOK(lev)'
    BY <1>0, <1>3, <1>9, PlasmaStep
  <2>2. ParticlesOK(lev) /\ ForcesOK(lev)
    BY <1>0, <2>1, LevIsAhead DEF PlasmaOK
  <2>3. Shifted(lev) /\ Shifted(lev)' /\ Pushed(lev) /\ Pushed(lev)'
    BY <1>0 DEF Shifted, Pushed, Finished, Levels
  <2>4. ParticlesOK(lev)'
    BY <1>0, <1>2, <1>3, <2>1, <2>2, <2>3 DEF ParticlesOK, Finished
  <2>5. ForcesOK(lev)'
    BY <1>0, <1>2, <1>3, <2>1, <2>2, <2>3 DEF ForcesOK, Finished
  <2> QED
    BY <2>4, <2>5
<1>12. BinsOK'
  BY <1>0, <1>4 DEF BinsOK
<1> QED
  BY <1>7, <1>8, <1>10, <1>11, <1>12 DEF SliceInv

LEMMA CorrectInv ==
    ASSUME TiledOnOneLevel, SliceInv, Correct
    PROVE  SliceInv'
<1> DEFINE BxBy == Set(fields, lev, "This", {"Bx", "By"}, Field("B", lev, isl, iter))
           updated == UpdateForceTerms(plasma[lev], BxBy, lev)
<1>0. /\ TypeOK /\ ControlOK /\ FieldsOK /\ PlasmaOK /\ BinsOK
      /\ pc = "correct" /\ pc' \in {"predict", "reset"} /\ ~conf.explicit /\ iter > 0
      /\ UNCHANGED <<conf, step, isl, lev, iter, bins, beam>>
      /\ plasma' = AdvanceParticles(updated, lev)
      /\ lev \in Levels /\ isl \in Slices /\ IsPlasma(plasma[lev]) /\ Shaped(fields)
      /\ "This" \in WhichSlice /\ "Next" \in WhichSlice /\ "This" # "Next"
      /\ {"Bx", "By"} \in SUBSET Names("This")
  BY NamesOfFields DEF SliceInv, Correct, ControlOK, TypeOK, WhichSlice, FieldNames
<1>s. /\ SliceOf(conf, isl, lev) /\ isl \in Int
      /\ {"ExmBy", "EypBx", "Psi", "Ez", "Bz", "Bx", "By"} \subseteq Names("This")
      /\ {"ExmBy", "EypBx", "Psi", "Ez", "Bz"} \cap {"Bx", "By"} = {}
  BY <1>0, LevIsAhead, NamesOfFields DEF Slices, FieldNames
<1>1. /\ Shaped(fields')
      /\ \A m \in Levels, v \in WhichSlice : \A c \in Names(v) :
             Get(fields', m, v, c) =
                 IF m = lev /\ v = "This" /\ c \in {"Bx", "By"} THEN Field("B", lev, isl, iter)
                 ELSE IF m = lev /\ v = "Next" THEN EmptyBag ELSE Get(fields, m, v, c)
  BY <1>0, CorrectFields
<1>2. \A m \in Levels, v \in WhichSlice : \A c \in Names(v) :
          Get(BxBy, m, v, c) = IF m = lev /\ v = "This" /\ c \in {"Bx", "By"}
                               THEN Field("B", lev, isl, iter) ELSE Get(fields, m, v, c)
  BY <1>0, SetEffect
<1>h. updated = UpdateForceTerms(plasma[lev], BxBy, lev)
  OBVIOUS
<1> HIDE DEF BxBy, updated
<1>3. /\ PsiHolds(fields', conf, lev, isl) /\ EzBzHolds(fields', conf, lev, isl)
      /\ BHolds(fields', conf, lev, isl, {iter})
  <2>1. PsiHolds(fields, conf, lev, isl) /\ EzBzHolds(fields, conf, lev, isl)
    BY <1>0 DEF FieldsOK, SolvingOK
  <2>2. \A d \in {"ExmBy", "EypBx", "Psi", "Ez", "Bz"} :
            Get(fields', lev, "This", d) = Get(fields, lev, "This", d)
    BY <1>0, <1>s, <1>1
  <2>3. \A d \in {"Bx", "By"} : Get(fields', lev, "This", d) = Field("B", lev, isl, iter)
    BY <1>0, <1>s, <1>1
  <2> QED
    BY <1>s, <2>1, <2>2, <2>3, HoldsKept, SolvedNow DEF PsiHolds, EzBzHolds
<1>4. /\ IsPlasma(updated) /\ updated.pushes = plasma[lev].pushes
      /\ updated.temp = plasma[lev].temp /\ updated.prev = plasma[lev].prev
      /\ updated.F[1] = Gathered(BxBy, lev)
      /\ \A k \in 2 .. 5 : updated.F[k] = plasma[lev].F[k]
  BY <1>0, <1>h, UpdateForceTermsEffect
<1>5. Gathered(BxBy, lev) = AllOf(lev, isl, iter)
  <2>1. /\ \A d \in {"ExmBy", "EypBx"} : Get(fields', lev, "This", d) = Field("Psi", lev, isl, 0)
        /\ \A d \in {"Ez", "Bz"} : Get(fields', lev, "This", d) = Field("EzBz", lev, isl, 0)
        /\ \A d \in {"Bx", "By"} : Get(fields', lev, "This", d) = Field("B", lev, isl, iter)
    BY <1>s, <1>3, FieldsOfSlice
  <2>2. \A d \in {"ExmBy", "EypBx", "Ez", "Bz", "Bx", "By"} :
            Get(BxBy, lev, "This", d) = Get(fields', lev, "This", d)
    BY <1>0, <1>s, <1>1, <1>2
  <2> QED
    BY <2>1, <2>2, GatheredIs
<1>6. /\ DOMAIN plasma' = Levels /\ \A l \in Levels : IsPlasma(plasma'[l])
      /\ \A l \in Levels \ {lev} : plasma'[l] = plasma[l]
      /\ lev \in conf.plasmas => plasma'[lev] = updated
  BY <1>0, <1>4, AdvanceEffect
<1>7. TypeOK'
  BY <1>0, <1>1, <1>6 DEF TypeOK, Parts
<1>8. ControlOK'
  BY <1>0 DEF ControlOK, OnLevel
<1>9. WithinLevel
  BY <1>0, <1>1 DEF WithinLevel, Same
<1>10. FieldsOK'
  <2>1. SolvingOK'
    BY <1>0, <1>3 DEF SolvingOK
  <2>2. NextEmpty'
    BY <1>0, <1>1 DEF NextEmpty, FieldsOK
  <2> QED
    BY <1>0, <1>9, <2>1, <2>2, FieldsStep DEF Finished
<1>11. PlasmaOK'
  <2>1. SUFFICES ASSUME lev \in conf.plasmas
                 PROVE  ParticlesOK(lev)' /\ ForcesOK(lev)'
    BY <1>0, <1>6, <1>9, PlasmaStep
  <2>2. ParticlesOK(lev) /\ ForcesOK(lev)
    BY <1>0, <2>1, LevIsAhead DEF PlasmaOK
  <2>3. Shifted(lev) /\ Shifted(lev)' /\ Pushed(lev) /\ Pushed(lev)'
    BY <1>0 DEF Shifted, Pushed, Finished, Levels
  <2>4. ParticlesOK(lev)'
    BY <1>0, <1>4, <1>6, <2>1, <2>2, <2>3 DEF ParticlesOK, Finished
  <2>5. ForcesOK(lev)'
    <3>1. ForcesFrom(plasma[lev].F, conf, lev, 2, isl)
      BY <2>2, <2>3 DEF ForcesOK
    <3>2. ForcesFrom(updated.F, conf, lev, 2, isl)
      BY <1>4, <3>1, ForcesKept
    <3> QED
      BY <1>0, <1>4, <1>5, <1>6, <2>1, <2>3, <3>2 DEF ForcesOK, Finished
  <2> QED
    BY <2>4, <2>5
<1>12. BinsOK'
  BY <1>0 DEF BinsOK
<1> QED
  BY <1>7, <1>8, <1>10, <1>11, <1>12 DEF SliceInv

LEMMA ResetInv ==
    ASSUME TiledOnOneLevel, SliceInv, ResetParticles
    PROVE  SliceInv'
<1> DEFINE back == ResetPosition(plasma[lev])
<1>0. /\ TypeOK /\ ControlOK /\ FieldsOK /\ PlasmaOK /\ BinsOK
      /\ pc = "reset" /\ pc' = "beam" /\ ~conf.explicit /\ iter \in Final
      /\ UNCHANGED <<conf, step, isl, lev, iter, fields, bins, beam>>
      /\ plasma' = [p \in Levels |-> IF p = lev /\ p \in conf.plasmas
                                     THEN ResetPosition(plasma[p]) ELSE plasma[p]]
      /\ lev \in Levels /\ isl \in Slices /\ DOMAIN plasma = Levels
      /\ \A l \in Levels : IsPlasma(plasma[l])
  <2>1. iter \in 0 .. MaxIter /\ iter > 0 /\ MaxIter \in Nat
    BY SliceSolverAssumption DEF SliceInv, TypeOK, ControlOK, ResetParticles
  <2> QED
    BY <2>1 DEF SliceInv, ResetParticles, ControlOK, TypeOK, Final
<1>s. SliceOf(conf, isl, lev) /\ isl \in Int
  BY <1>0, LevIsAhead DEF Slices
<1>1. /\ IsPlasma(back) /\ back.pushes = plasma[lev].pushes /\ back.F = plasma[lev].F
      /\ back.prev = plasma[lev].prev
      /\ back.temp = IF plasma[lev].prev = plasma[lev].pushes THEN 0 ELSE -1
  BY <1>0, ResetPositionEffect
<1>h. back = ResetPosition(plasma[lev])
  OBVIOUS
<1> HIDE DEF back
<1>2. /\ DOMAIN plasma' = Levels /\ \A l \in Levels : IsPlasma(plasma'[l])
      /\ \A l \in Levels \ {lev} : plasma'[l] = plasma[l]
      /\ lev \in conf.plasmas => plasma'[lev] = back
  BY <1>0, <1>1, <1>h
<1>3. /\ PsiHolds(fields, conf, lev, isl) /\ EzBzHolds(fields, conf, lev, isl)
      /\ BHolds(fields, conf, lev, isl, {iter})
  BY <1>0 DEF FieldsOK, SolvingOK
<1>4. TypeOK'
  BY <1>0, <1>2 DEF TypeOK, Parts
<1>5. ControlOK'
  BY <1>0 DEF ControlOK, OnLevel
<1>6. WithinLevel
  BY <1>0 DEF WithinLevel, Same
<1>7. FieldsOK'
  <2>1. ThisHolds(fields', conf, lev, isl)
    BY <1>0, <1>3, <1>s, FinalHolds DEF ThisHolds
  <2>2. SolvingOK' /\ NextEmpty'
    BY <1>0 DEF SolvingOK, NextEmpty, FieldsOK
  <2>3. Newest(lev)' = isl
    BY <1>0 DEF Newest, Finished
  <2> QED
    BY <1>0, <1>6, <2>1, <2>2, <2>3, FieldsStep
<1>8. PlasmaOK'
  <2>1. SUFFICES ASSUME lev \in conf.plasmas
                 PROVE  ParticlesOK(lev)' /\ ForcesOK(lev)'
    BY <1>0, <1>2, <1>6, PlasmaStep
  <2>2. ParticlesOK(lev) /\ ForcesOK(lev)
    BY <1>0, <2>1, LevIsAhead DEF PlasmaOK
  <2>3. Shifted(lev) /\ ~Shifted(lev)' /\ Pushed(lev) /\ Pushed(lev)' /\ Newest(lev)' = isl
    BY <1>0 DEF Shifted, Pushed, Finished, Levels, Newest
  <2>4. ParticlesOK(lev)'
    BY <1>0, <1>1, <1>2, <2>1, <2>2, <2>3 DEF ParticlesOK, Finished
  <2>5. ForcesOK(lev)'
    <3>1. ForcesFrom(plasma[lev].F, conf, lev, 2, isl) /\ plasma[lev].F[1] = AllOf(lev, isl, iter)
      BY <1>0, <2>2, <2>3 DEF ForcesOK
    <3>2. ForcesFrom(plasma[lev].F, conf, lev, 1, isl)
      BY <1>0, <1>s, <3>1, ForcesFirst
    <3>3. Get(fields, lev, "This", "Bx") = Field("B", lev, isl, iter)
      BY <1>s, <1>3, FieldsOfSlice
    <3> QED
      BY <1>0, <1>1, <1>2, <2>1, <2>3, <3>1, <3>2, <3>3 DEF ForcesOK
  <2> QED
    BY <2>4, <2>5
<1>9. BinsOK'
  BY <1>0 DEF BinsOK
<1> QED
  BY <1>4, <1>5, <1>7, <1>8, <1>9 DEF SliceInv

LEMMA PushBeamInv ==
    ASSUME SliceInv, PushBeam
    PROVE  SliceInv'
<1>0. /\ TypeOK /\ ControlOK /\ FieldsOK /\ PlasmaOK /\ BinsOK
      /\ pc = "beam" /\ pc' = "ionize"
      /\ UNCHANGED <<conf, step, isl, lev, iter, fields, plasma, bins>>
  BY DEF SliceInv, PushBeam
<1>1. beam' \in [Slices -> Nat]
  BY <1>0 DEF PushBeam, TypeOK
<1>2. TypeOK'
  BY <1>0, <1>1 DEF TypeOK, Parts
<1>3. ControlOK'
  BY <1>0 DEF ControlOK, OnLevel
<1>4. WithinLevel
  BY <1>0 DEF WithinLevel, Same
<1>5. Newest(lev)' = Newest(lev) /\ Shifted(lev)' = Shifted(lev) /\ (Pushed(lev)' <=> Pushed(lev))
  BY <1>0 DEF Newest, Finished, Shifted, Pushed
<1>6. Ahead(conf, isl, lev)
  BY <1>0, LevIsAhead
<1>7. FieldsOK'
  <2>1. ThisHolds(fields, conf, lev, Newest(lev)) /\ NextEmpty /\ lev \in Levels
    BY <1>0, <1>6 DEF FieldsOK, LevelOK, Finished, TypeOK
  <2>2. SolvingOK' /\ NextEmpty'
    BY <1>0, <2>1 DEF SolvingOK, NextEmpty
  <2> QED
    BY <1>0, <1>4, <1>5, <2>1, <2>2, FieldsStep
<1>8. PlasmaOK'
  <2>1. lev \in conf.plasmas => ParticlesOK(lev) /\ ForcesOK(lev)
    BY <1>0, <1>6 DEF PlasmaOK
  <2>2. lev \in conf.plasmas => ParticlesOK(lev)'
    BY <1>0, <1>5, <2>1 DEF ParticlesOK, Finished
  <2>3. lev \in conf.plasmas => ForcesOK(lev)'
    BY <1>0, <1>5, <2>1 DEF ForcesOK, Finished
  <2> QED
    BY <1>0, <1>4, <2>2, <2>3, PlasmaStep
<1>9. BinsOK'
  BY <1>0 DEF BinsOK
<1> QED
  BY <1>2, <1>3, <1>7, <1>8, <1>9 DEF SliceInv

LEMMA IonizeInv ==
    ASSUME TiledOnOneLevel, SliceInv, Ionize
    PROVE  SliceInv'
<1>0. /\ TypeOK /\ ControlOK /\ FieldsOK /\ PlasmaOK /\ BinsOK
      /\ pc = "ionize" /\ pc' \in {"clear", "shift"}
      /\ UNCHANGED <<conf, step, isl, iter, fields, plasma, beam>>
      /\ lev \in Levels /\ lev' \in Levels /\ lev' <= conf.finestLevel
      /\ OnLevel(isl, lev')
      /\ \/ lev = 0 /\ lev' = 1 /\ pc' = "clear"
         \/ /\ lev' = lev /\ pc' = "shift"
            /\ \A l \in Levels : l > lev /\ l <= conf.finestLevel => ~OnLevel(isl, l)
  <2>1. /\ TypeOK /\ ControlOK /\ FieldsOK /\ PlasmaOK /\ BinsOK
        /\ pc = "ionize" /\ lev \in Levels /\ lev <= conf.finestLevel /\ OnLevel(isl, lev)
        /\ UNCHANGED <<conf, step, isl, iter, fields, plasma, beam>>
    BY DEF SliceInv, Ionize, TypeOK, ControlOK
  <2>2. conf.finestLevel \in Levels
    BY <2>1, ConfigOK
  <2>3. CASE lev < conf.finestLevel /\ OnLevel(isl, lev + 1)
    <3>1. lev' = lev + 1 /\ pc' = "clear"
      BY <2>3 DEF Ionize
    <3>2. lev = 0 /\ conf.finestLevel = 1
      BY <2>1, <2>2, <2>3 DEF Levels
    <3> QED
      BY <2>1, <2>3, <3>1, <3>2 DEF Levels
  <2>4. CASE ~(lev < conf.finestLevel /\ OnLevel(isl, lev + 1))
    <3>1. lev' = lev /\ pc' = "shift"
      BY <2>4 DEF Ionize
    <3>2. \A l \in Levels : l > lev /\ l <= conf.finestLevel => ~OnLevel(isl, l)
      BY <2>1, <2>2, <2>4 DEF Levels
    <3> QED
      BY <2>1, <3>1, <3>2
  <2> QED
    BY <2>3, <2>4
<1>1. /\ DOMAIN bins' = Levels /\ \A l \in Levels : IsBin(bins'[l])
      /\ conf.tiling => \A p \in conf.plasmas : bins'[p].found = "all"
  <2>1. PICK ionized \in {FALSE, conf.ionization} :
            LET left == [p \in Levels |-> IF p = lev /\ ionized /\ bins[p].found = "all"
                                          THEN [bins[p] EXCEPT !.found = "some"]
                                          ELSE bins[p]]
            IN  bins' = SortIonized(left)
    BY DEF Ionize
  <2> DEFINE left == [p \in Levels |-> IF p = lev /\ ionized /\ bins[p].found = "all"
                                       THEN [bins[p] EXCEPT !.found = "some"]
                                       ELSE bins[p]]
  <2>2. bins' = SortIonized(left)
    BY <2>1
  <2>3. DOMAIN left = Levels /\ \A l \in Levels : IsBin(left[l])
    BY <1>0 DEF TypeOK, IsBin
  <2>4. ~ionized => \A l \in Levels : left[l] = bins[l]
    OBVIOUS
  <2> HIDE DEF left
  <2>5. CASE conf.ionization /\ conf.tiling
    <3>1. bins' = TileSort(plasma, lev) /\ TileSort(plasma, lev) = Sort(plasma, lev)
      BY <2>2, <2>5 DEF SortIonized, Sort
    <3> QED
      BY <1>0, <3>1, SortEffect
  <2>6. CASE ~(conf.ionization /\ conf.tiling)
    <3>1. bins' = left
      BY <2>2, <2>6 DEF SortIonized
    <3>2. conf.tiling => ~ionized
      BY <2>1, <2>6
    <3>3. conf.plasmas \subseteq Levels /\ conf.tiling \in BOOLEAN
      BY <1>0, ConfigOK
    <3>4. conf.tiling => \A p \in conf.plasmas : bins[p].found = "all"
      BY <1>0 DEF BinsOK
    <3> QED
      BY <2>3, <2>4, <3>1, <3>2, <3>3, <3>4
  <2> QED
    BY <2>5, <2>6
<1>2. TypeOK'
  BY <1>0, <1>1 DEF TypeOK, Parts
<1>3. ControlOK'
  BY <1>0 DEF ControlOK, OnLevel
<1>4. ASSUME NEW l \in Levels
      PROVE  /\ Newest(l)' = Newest(l) /\ ~Shifted(l) /\ ~Shifted(l)' /\ (Pushed(l)' <=> Pushed(l))
             /\ l = lev' /\ pc' \in Finished => l = lev
             /\ l # lev \/ pc \in {"clear"} \union Finished
  <2>1. CASE lev = 0 /\ lev' = 1 /\ pc' = "clear"
    BY <1>0, <2>1 DEF Newest, Pushed, Shifted, Finished, Levels
  <2>2. CASE lev' = lev /\ pc' = "shift"
    BY <1>0, <2>2 DEF Newest, Pushed, Shifted, Finished
  <2> QED
    BY <1>0, <2>1, <2>2
<1>5. FieldsOK'
  <2>1. \A l \in Levels : Ahead(conf, isl, l) => LevelOK(l)
    BY <1>0 DEF FieldsOK
  <2>2. ASSUME NEW l \in Levels, Ahead(conf, isl, l)
        PROVE  LevelOK(l)'
    BY <1>0, <1>4, <2>1, <2>2 DEF LevelOK
  <2>3. SolvingOK' /\ NextEmpty'
    BY <1>0 DEF SolvingOK, NextEmpty, FieldsOK
  <2> QED
    BY <1>0, <2>2, <2>3 DEF FieldsOK
<1>6. PlasmaOK'
  <2>1. ASSUME NEW l \in conf.plasmas, Ahead(conf, isl, l)
        PROVE  ParticlesOK(l)' /\ ForcesOK(l)'
    <3>1. ParticlesOK(l) /\ ForcesOK(l) /\ l \in Levels
      BY <1>0, <2>1, ConfigOK DEF PlasmaOK
    <3>2. ~(l = lev' /\ Pushed(l)' /\ pc' \notin Finished)
      BY <1>0 DEF Pushed, Finished, Levels
    <3>3. ParticlesOK(l)'
      BY <1>0, <1>4, <3>1, <3>2 DEF ParticlesOK
    <3>4. l = lev' /\ pc' \in Finished => l = lev /\ pc \in Finished
      BY <1>0, <1>4, <3>1 DEF Finished
    <3>5. ForcesOK(l)'
      BY <1>0, <1>4, <3>1, <3>4 DEF ForcesOK
    <3> QED
      BY <3>3, <3>5
  <2> QED
    BY <1>0, <2>1 DEF PlasmaOK
<1>7. BinsOK'
  BY <1>0, <1>1 DEF BinsOK
<1> QED
  BY <1>2, <1>3, <1>5, <1>6, <1>7 DEF SliceInv

\* Where a level has no slices, it holds nothing, whatever the slice.
LEMMA HoldsNone ==
    ASSUME NEW F, NEW c, NEW l, NEW w, NEW cs, NEW name, NEW s, NEW t, NEW ns, NEW ms,
           ~SliceOf(c, s, l), ~SliceOf(c, t, l), Holds(F, c, l, w, cs, name, s, ns)
    PROVE  Holds(F, c, l, w, cs, name, t, ms)
  BY DEF Holds

LEMMA HoldsEmpty ==
    ASSUME NEW F, NEW c, NEW l, NEW s, ~SliceOf(c, s, l), ~SliceOf(c, s + 1, l),
           \A d \in FieldNames : Get(F, l, "This", d) = EmptyBag,
           \A d \in {"Psi", "Ez", "Bz", "Bx", "By"} : Get(F, l, "Previous1", d) = EmptyBag,
           \A d \in {"Bx", "By"} : Get(F, l, "Previous2", d) = EmptyBag
    PROVE  ThisHolds(F, c, l, s) /\ PreviousHolds(F, c, l, s)
<1>1. ThisHolds(F, c, l, s)
  BY DEF ThisHolds, PsiHolds, EzBzHolds, BHolds, Holds, FieldNames
<1>2. PreviousHolds(F, c, l, s)
  BY DEF PreviousHolds, Holds
<1> QED
  BY <1>1, <1>2

LEMMA CountNat == \A c, l : \A s \in Int : CountOf(c, s, l) \in Nat
  BY CountFinite

LEMMA ForcesNone ==
    ASSUME NEW f, NEW c, NEW l, NEW s \in Int, NEW t \in Int, t >= s,
           \A u \in Int : u >= s => ~SliceOf(c, u, l),
           ForcesFrom(f, c, l, 1, t)
    PROVE  ForcesFrom(f, c, l, 1, s)
<1>1. SUFFICES ASSUME NEW k \in 1 .. 5 PROVE ForceOf(f[k], c, l, s + k - 1)
  BY DEF ForcesFrom
<1>2. s + k - 1 \in Int /\ t + k - 1 \in Int /\ s + k - 1 >= s /\ t + k - 1 >= s
  OBVIOUS
<1>3. ForceOf(f[k], c, l, t + k - 1)
  BY DEF ForcesFrom
<1> QED
  BY <1>2, <1>3 DEF ForceOf

LEMMA ResetAllInv ==
    ASSUME TiledOnOneLevel, SliceInv, ResetAllQuantities
    PROVE  SliceInv'
<1>0. /\ TypeOK /\ ControlOK
      /\ pc = "step" /\ pc' = "clear" /\ lev = 0 /\ lev' = 0 /\ isl' = NSlices - 1
      /\ UNCHANGED <<conf, step, iter, beam>>
      /\ plasma' = ResetPlasma /\ bins' = Sort(plasma', lev)
      /\ fields' = [l \in Levels |-> [w \in WhichSlice |->
             IF w = "RhoIons" /\ Reached(l, bins')
             THEN [k \in DOMAIN Zero(w) |-> Ions(l, 0)] ELSE Zero(w)]]
  BY DEF SliceInv, ResetAllQuantities, ControlOK
<1>s. /\ isl' \in Slices /\ isl' + 1 = NSlices /\ NSlices \in Int /\ 0 <= conf'.finestLevel
      /\ conf.plasmas \subseteq Levels
  BY <1>0, ConfigOK DEF Slices, Levels
<1>1. /\ Shaped(fields')
      /\ \A l \in Levels, w \in WhichSlice \ {"RhoIons"} : \A c \in Names(w) :
             Get(fields', l, w, c) = EmptyBag
  <2>1. /\ DOMAIN fields' = Levels
        /\ \A l \in Levels : DOMAIN fields'[l] = WhichSlice
        /\ \A l \in Levels, w \in WhichSlice : DOMAIN fields'[l][w] = 0 .. Comps[w].N - 1
        /\ \A l \in Levels, w \in WhichSlice \ {"RhoIons"} :
               \A k \in 0 .. Comps[w].N - 1 : fields'[l][w][k] = EmptyBag
    BY <1>0 DEF Zero
  <2>2. \A w \in WhichSlice : \A c \in Names(w) : Comps[w][c] \in 0 .. Comps[w].N - 1
    BY CompsDistinct
  <2> QED
    BY <2>1, <2>2 DEF Shaped, Get
<1>2. /\ DOMAIN plasma' = Levels
      /\ \A l \in Levels : /\ IsPlasma(plasma'[l]) /\ plasma'[l].pushes = 0
                           /\ plasma'[l].temp = 0
                           /\ \A k \in 1 .. 5 : plasma'[l].F[k] = {}
  BY <1>0 DEF ResetPlasma, InitialPlasma, IsPlasma
<1>3. /\ DOMAIN bins' = Levels /\ \A l \in Levels : IsBin(bins'[l])
      /\ conf.tiling => \A p \in conf.plasmas : bins'[p].found = "all"
  BY <1>0, SortEffect
<1>4. TypeOK'
  BY <1>0, <1>s, <1>1, <1>2, <1>3 DEF TypeOK, Parts, Levels
<1>5. ControlOK'
  BY <1>0 DEF ControlOK, OnLevel
<1>6. ASSUME NEW l \in Levels
      PROVE  ~SliceOf(conf, NSlices, l) /\ ~SliceOf(conf, NSlices + 1, l) /\ Newest(l)' = NSlices
  <2>1. Newest(l)' = NSlices
    BY <1>0, <1>s DEF Newest, Finished, Levels
  <2> QED
    BY <1>0, <1>s, <2>1, NotBeyond
<1>7. FieldsOK'
  <2>1. ASSUME NEW l \in Levels
        PROVE  ThisHolds(fields', conf, l, NSlices) /\ PreviousHolds(fields', conf, l, NSlices)
    <3>1. /\ \A d \in FieldNames : Get(fields', l, "This", d) = EmptyBag
          /\ \A d \in {"Psi", "Ez", "Bz", "Bx", "By"} : Get(fields', l, "Previous1", d) = EmptyBag
          /\ \A d \in {"Bx", "By"} : Get(fields', l, "Previous2", d) = EmptyBag
      BY <1>1, NamesOfFields DEF WhichSlice
    <3> QED
      BY <1>6, <3>1, HoldsEmpty
  <2>2. \A l \in Levels : LevelOK(l)'
    BY <1>0, <1>s, <1>6, <2>1 DEF LevelOK
  <2>3. SolvingOK'
    BY <1>0 DEF SolvingOK
  <2>4. NextEmpty'
    BY <1>0, <1>1 DEF NextEmpty, WhichSlice
  <2> QED
    BY <2>2, <2>3, <2>4 DEF FieldsOK
<1>8. PlasmaOK'
  <2>1. ASSUME NEW l \in conf.plasmas
        PROVE  ParticlesOK(l)' /\ ForcesOK(l)'
    <3>1. l \in Levels /\ ~Shifted(l)' /\ ~Pushed(l)'
      BY <1>0, <1>s, <2>1 DEF Shifted, Pushed, Finished, Levels
    <3>2. ParticlesOK(l)'
      BY <1>0, <1>s, <1>2, <3>1, CountNone DEF ParticlesOK
    <3>3. ForcesFrom(plasma'[l].F, conf, l, 1, NSlices)
      <4>1. SUFFICES ASSUME NEW k \in 1 .. 5
                     PROVE  ForceOf(plasma'[l].F[k], conf, l, NSlices + k - 1)
        BY DEF ForcesFrom
      <4>2. ~SliceOf(conf, NSlices + k - 1, l)
        BY <1>0, <1>s, NotBeyond
      <4> QED
        BY <1>2, <3>1, <4>2 DEF ForceOf
    <3>4. ForcesOK(l)'
      BY <1>0, <1>6, <3>1, <3>3 DEF ForcesOK, Finished
    <3> QED
      BY <3>2, <3>4
  <2> QED
    BY <1>0, <2>1 DEF PlasmaOK
<1>9. BinsOK'
  BY <1>0, <1>3 DEF BinsOK
<1> QED
  BY <1>4, <1>5, <1>7, <1>8, <1>9 DEF SliceInv

LEMMA ShiftInv ==
    ASSUME SliceInv, ShiftSlices
    PROVE  SliceInv'
<1>0. /\ TypeOK /\ ControlOK /\ FieldsOK /\ PlasmaOK /\ BinsOK
      /\ pc = "shift" /\ lev' = 0 /\ pc' \in {"clear", "step"}
      /\ UNCHANGED <<conf, iter, plasma, bins, beam>>
      /\ pc' = "clear" => isl > 0 /\ isl' = isl - 1 /\ step' = step
      /\ pc' = "step" => isl' = isl /\ step' = step + 1
      /\ lev \in Levels /\ isl \in Slices /\ isl' \in Slices /\ step' \in Nat
  <2>1. TypeOK /\ isl \in Slices /\ step \in Nat
    BY DEF SliceInv, TypeOK
  <2>2. isl > 0 => isl - 1 \in Slices
    BY <2>1, ConfigOK DEF Slices
  <2> QED
    BY <2>1, <2>2 DEF SliceInv, ShiftSlices, TypeOK
<1>1. /\ Shaped(fields')
      /\ \A l \in Levels : Shifts(l) =>
             /\ \A c \in Names("Previous2") :
                    Get(fields', l, "Previous2", c) = Get(fields, l, "Previous1", c)
             /\ \A c \in Names("Previous1") :
                    Get(fields', l, "Previous1", c) = Get(fields, l, "This", c)
      /\ \A l \in Levels, v \in WhichSlice : \A c \in Names(v) :
             (Shifts(l) /\ v \in {"Previous1", "Previous2"}) \/ Same(l, v, c)
  BY <1>0, ShiftSlicesFields
<1>2. TypeOK'
  <2>1. conf.finestLevel \in Levels
    BY <1>0, ConfigOK
  <2> QED
    BY <1>0, <1>1, <2>1 DEF TypeOK, Parts, Levels
<1>3. ControlOK'
  BY <1>0 DEF ControlOK, OnLevel
<1>4. SUFFICES ASSUME pc' = "clear" PROVE FieldsOK' /\ PlasmaOK' /\ BinsOK'
  BY <1>0, <1>2, <1>3 DEF SliceInv, FieldsOK, PlasmaOK, BinsOK
<1>s. isl > 0 /\ isl' = isl - 1 /\ isl' + 1 = isl /\ isl \in Int
  BY <1>0, <1>4 DEF Slices
<1>5. ASSUME NEW l \in Levels, Ahead(conf, isl', l)
      PROVE  /\ Ahead(conf, isl, l) /\ Newest(l)' = isl /\ ~Shifted(l)' /\ ~Pushed(l)'
             /\ ~Shifted(l)
             /\ SliceOf(conf, isl, l) =>
                    Shifts(l) /\ Newest(l) = isl /\ Pushed(l)
             /\ ~SliceOf(conf, isl, l) =>
                    ~Shifts(l) /\ \A t \in Int : t >= isl => ~SliceOf(conf, t, l)
  <2>1. PICK t \in Slices : t <= isl' /\ SliceOf(conf, t, l)
    BY <1>5 DEF Ahead
  <2>2. Ahead(conf, isl, l)
    <3>1. t <= isl /\ l <= conf.finestLevel
      BY <1>0, <1>5, <1>s, <2>1 DEF Slices, Ahead
    <3> QED
      BY <2>1, <3>1 DEF Ahead
  <2>3. Newest(l)' = isl /\ ~Shifted(l)' /\ ~Pushed(l)' /\ ~Shifted(l)
    BY <1>0, <1>4, <1>s DEF Newest, Shifted, Pushed, Finished, Levels
  <2>4. l <= conf.finestLevel /\ (SliceOf(conf, isl, l) <=> OnLevel(isl, l))
    BY <1>0, <1>5 DEF Ahead, SliceOf, OnLevel
  <2>5. SliceOf(conf, isl, l) => Shifts(l) /\ Newest(l) = isl /\ Pushed(l)
    <3>1. SUFFICES ASSUME SliceOf(conf, isl, l) PROVE Shifts(l) /\ Newest(l) = isl /\ Pushed(l)
      OBVIOUS
    <3>2. l < lev \/ l = lev
      BY <1>0, <2>4, <3>1 DEF ControlOK, Levels
    <3> QED
      BY <1>0, <2>4, <3>1, <3>2 DEF Shifts, Newest, Pushed, Finished
  <2>6. ~SliceOf(conf, isl, l) => ~Shifts(l) /\ \A u \in Int : u >= isl => ~SliceOf(conf, u, l)
    BY <1>0, <2>2, <2>4, NoneAbove DEF Shifts
  <2> QED
    BY <2>2, <2>3, <2>5, <2>6
<1>6. FieldsOK'
  <2>1. ASSUME NEW l \in Levels, Ahead(conf, isl', l)
        PROVE  LevelOK(l)'
    <3>0. /\ LevelOK(l) /\ {"This", "Previous1", "Previous2"} \subseteq WhichSlice
          /\ Newest(l)' = isl
      BY <1>0, <1>5, <2>1 DEF FieldsOK, WhichSlice
    <3>1. ThisHolds(fields, conf, l, Newest(l)) /\ PreviousHolds(fields, conf, l, isl + 1)
      BY <1>0, <3>0 DEF LevelOK, Finished
    <3>2. \A d \in FieldNames : Get(fields', l, "This", d) = Get(fields, l, "This", d)
      BY <1>1, <3>0, NamesOfFields DEF Same
    <3>3. ThisHolds(fields', conf, l, Newest(l))
      BY <3>1, <3>2, ThisKept
    <3>4. CASE SliceOf(conf, isl, l)
      <4>1. Shifts(l) /\ Newest(l) = isl
        BY <1>5, <2>1, <3>4
      <4>2. /\ \A d \in {"Bx", "By"} :
                   Get(fields', l, "Previous2", d) = Get(fields, l, "Previous1", d)
            /\ \A d \in {"Psi", "Ez", "Bz", "Bx", "By"} :
                   Get(fields', l, "Previous1", d) = Get(fields, l, "This", d)
        BY <1>1, <4>1, NamesOfFields
      <4>3. PreviousHolds(fields', conf, l, isl)
        <5>1. ThisHolds(fields, conf, l, isl)
          BY <3>1, <4>1
        <5>2. Holds(fields', conf, l, "Previous1", {"Psi"}, "Psi", isl, {0})
          BY <3>4, <4>2, <5>1 DEF ThisHolds, PsiHolds, Holds
        <5>3. Holds(fields', conf, l, "Previous1", {"Ez", "Bz"}, "EzBz", isl, {0})
          BY <3>4, <4>2, <5>1 DEF ThisHolds, EzBzHolds, Holds
        <5>4. Holds(fields', conf, l, "Previous1", {"Bx", "By"}, "B", isl, Final)
          BY <3>4, <4>2, <5>1 DEF ThisHolds, BHolds, Holds
        <5>5. Holds(fields', conf, l, "Previous2", {"Bx", "By"}, "B", isl + 1, Final)
          <6>1. Holds(fields, conf, l, "Previous1", {"Bx", "By"}, "B", isl + 1, Final)
            BY <3>1 DEF PreviousHolds
          <6> QED
            BY <4>2, <6>1 DEF Holds
        <5> QED
          BY <5>2, <5>3, <5>4, <5>5 DEF PreviousHolds
      <4> QED
        BY <1>0, <1>s, <3>0, <3>3, <4>1, <4>3 DEF LevelOK
    <3>5. CASE ~SliceOf(conf, isl, l)
      <4>1. /\ ~Shifts(l) /\ ~SliceOf(conf, isl + 1, l) /\ ~SliceOf(conf, (isl + 1) + 1, l)
            /\ ~SliceOf(conf, Newest(l), l)
        <5>1. Newest(l) \in {isl, isl + 1}
          BY DEF Newest
        <5> QED
          BY <1>s, <1>5, <2>1, <3>5, <5>1
      <4>2. /\ \A d \in {"Psi", "Ez", "Bz", "Bx", "By"} :
                   Get(fields', l, "Previous1", d) = Get(fields, l, "Previous1", d)
            /\ \A d \in {"Bx", "By"} :
                   Get(fields', l, "Previous2", d) = Get(fields, l, "Previous2", d)
        BY <1>1, <3>0, <4>1, NamesOfFields DEF Same
      <4>3. PreviousHolds(fields', conf, l, isl + 1)
        BY <3>1, <4>2, PreviousKept
      <4>4. PreviousHolds(fields', conf, l, isl)
        BY <3>5, <4>1, <4>3, HoldsNone DEF PreviousHolds
      <4>5. ThisHolds(fields', conf, l, isl)
        BY <3>3, <3>5, <4>1, HoldsNone DEF ThisHolds, PsiHolds, EzBzHolds, BHolds
      <4> QED
        BY <1>0, <1>s, <3>0, <4>4, <4>5 DEF LevelOK
    <3> QED
      BY <3>4, <3>5
  <2>2. SolvingOK'
    BY <1>4 DEF SolvingOK
  <2>3. NextEmpty'
    <3>1. SUFFICES ASSUME ~conf.explicit, NEW l \in Levels, NEW c \in Names("Next")
                   PROVE  Get(fields', l, "Next", c) = EmptyBag
      BY <1>0 DEF NextEmpty
    <3>2. Get(fields, l, "Next", c) = EmptyBag /\ "Next" \in WhichSlice
      BY <1>0, <3>1 DEF FieldsOK, NextEmpty, WhichSlice
    <3> QED
      BY <1>1, <3>1, <3>2 DEF Same
  <2> QED
    BY <1>0, <2>1, <2>2, <2>3 DEF FieldsOK
<1>7. PlasmaOK'
  <2>1. ASSUME NEW l \in conf.plasmas, Ahead(conf, isl', l)
        PROVE  ParticlesOK(l)' /\ ForcesOK(l)'
    <3>0. l \in Levels
      BY <1>0, <2>1, ConfigOK
    <3>1. ParticlesOK(l) /\ ForcesOK(l) /\ ~Shifted(l) /\ ~Shifted(l)' /\ ~Pushed(l)'
          /\ Newest(l)' = isl
      BY <1>0, <1>5, <2>1, <3>0 DEF PlasmaOK
    <3>2. /\ plasma[l].pushes = CountOf(conf, IF Pushed(l) THEN isl ELSE isl + 1, l)
          /\ plasma[l].temp = 0 /\ ForcesFrom(plasma[l].F, conf, l, 1, Newest(l))
      BY <3>1 DEF ParticlesOK, ForcesOK
    <3>3. plasma[l].pushes = CountOf(conf, isl, l) /\ ForcesFrom(plasma[l].F, conf, l, 1, isl)
      <4>1. CASE SliceOf(conf, isl, l)
        BY <1>5, <2>1, <3>0, <3>2, <4>1
      <4>2. CASE ~SliceOf(conf, isl, l)
        <5>1. CountOf(conf, isl, l) = CountOf(conf, isl + 1, l)
          <6>1. CountOf(conf, isl + 1, l) \in Nat
            BY <1>s, CountNat
          <6>2. CountOf(conf, isl, l) =
                    CountOf(conf, isl + 1, l) + IF SliceOf(conf, isl, l) THEN 1 ELSE 0
            BY <1>0, CountStep
          <6>3. CountOf(conf, isl, l) = CountOf(conf, isl + 1, l) + 0
            BY <4>2, <6>2
          <6> QED
            BY <6>1, <6>3
        <5>2. Newest(l) \in {isl, isl + 1}
          BY DEF Newest
        <5>3. Newest(l) \in Int /\ Newest(l) >= isl
          BY <1>s, <5>2
        <5>4. \A u \in Int : u >= isl => ~SliceOf(conf, u, l)
          BY <1>5, <2>1, <3>0, <4>2
        <5>5. ForcesFrom(plasma[l].F, conf, l, 1, isl)
          BY <1>s, <3>2, <5>3, <5>4, ForcesNone
        <5> QED
          BY <3>2, <5>1, <5>5
      <4> QED
        BY <4>1, <4>2
    <3>4. ParticlesOK(l)'
      BY <1>0, <1>s, <3>1, <3>2, <3>3 DEF ParticlesOK
    <3>5. ForcesOK(l)'
      BY <1>0, <1>4, <3>1, <3>3 DEF ForcesOK, Finished
    <3> QED
      BY <3>4, <3>5
  <2> QED
    BY <1>0, <2>1 DEF PlasmaOK
<1>8. BinsOK'
  BY <1>0, <1>4 DEF BinsOK
<1> QED
  BY <1>6, <1>7, <1>8

LEMMA InitInv == Init => SliceInv
<1>1. SUFFICES ASSUME Init PROVE SliceInv
  OBVIOUS
<1>2. /\ conf \in Configs /\ pc = "step" /\ step = 0 /\ isl = NSlices - 1 /\ lev = 0 /\ iter = 0
      /\ 0 \in Nat /\ isl \in Slices /\ 0 \in 0 .. MaxIter
  BY <1>1, SliceSolverAssumption DEF Init, Slices
<1>3. lev <= conf.finestLevel /\ lev \in Levels
  <2>1. conf.finestLevel \in Levels
    BY <1>2, SliceSolverAssumption DEF Configuration
  <2> QED
    BY <1>2, <2>1 DEF Levels
<1>4. Shaped(fields)
  BY <1>1 DEF Init, Shaped, Zero
<1>5. DOMAIN plasma = Levels /\ \A p \in Levels : IsPlasma(plasma[p])
  BY <1>1 DEF Init, InitialPlasma, IsPlasma
<1>6. DOMAIN bins = Levels /\ \A p \in Levels : IsBin(bins[p])
  BY <1>1 DEF Init, Unsorted, IsBin
<1>7. beam \in [Slices -> Nat]
  BY <1>1 DEF Init
<1>8. TypeOK
  BY <1>2, <1>3, <1>4, <1>5, <1>6, <1>7 DEF TypeOK, Parts
<1> QED
  BY <1>2, <1>8 DEF SliceInv, ControlOK, FieldsOK, PlasmaOK, BinsOK

LEMMA StutterInv ==
    ASSUME SliceInv, UNCHANGED vars
    PROVE  SliceInv'
<1>1. /\ conf' = conf /\ pc' = pc /\ step' = step /\ isl' = isl /\ lev' = lev /\ iter' = iter
      /\ fields' = fields /\ plasma' = plasma /\ bins' = bins /\ beam' = beam
  BY DEF vars
<1>2. TypeOK' /\ ControlOK'
  BY <1>1 DEF SliceInv, TypeOK, ControlOK, OnLevel
<1>3. \A l : /\ Newest(l)' = Newest(l) /\ (Shifted(l)' <=> Shifted(l))
             /\ (Pushed(l)' <=> Pushed(l))
  BY <1>1 DEF Newest, Shifted, Pushed
<1>4. FieldsOK'
  <2>1. \A l : LevelOK(l) => LevelOK(l)'
    BY <1>1, <1>3 DEF LevelOK
  <2>2. SolvingOK => SolvingOK'
    BY <1>1 DEF SolvingOK
  <2>3. NextEmpty => NextEmpty'
    BY <1>1 DEF NextEmpty
  <2> QED
    BY <1>1, <2>1, <2>2, <2>3 DEF SliceInv, FieldsOK
<1>5. PlasmaOK'
  <2>1. \A l : ParticlesOK(l) => ParticlesOK(l)'
    BY <1>1, <1>3 DEF ParticlesOK
  <2>2. \A l : ForcesOK(l) => ForcesOK(l)'
    BY <1>1, <1>3 DEF ForcesOK
  <2> QED
    BY <1>1, <2>1, <2>2 DEF SliceInv, PlasmaOK
<1>6. BinsOK'
  BY <1>1 DEF SliceInv, BinsOK
<1> QED
  BY <1>2, <1>4, <1>5, <1>6 DEF SliceInv

LEMMA SliceNext ==
    ASSUME TiledOnOneLevel, SliceInv, [Next]_vars
    PROVE  SliceInv'
<1>1. CASE ResetAllQuantities
  BY <1>1, ResetAllInv
<1>2. CASE Clear
  BY <1>2, ClearInv
<1>3. CASE Deposit
  BY <1>3, DepositInv
<1>4. CASE SolvePsi
  BY <1>4, SolvePsiInv
<1>5. CASE SolveEzBz
  BY <1>5, SolveEzBzInv
<1>6. CASE ExplicitSolveBxBy
  BY <1>6, ExplicitInv
<1>7. CASE Guess
  BY <1>7, GuessInv
<1>8. CASE Predict
  BY <1>8, PredictInv
<1>9. CASE Correct
  BY <1>9, CorrectInv
<1>10. CASE ResetParticles
  BY <1>10, ResetInv
<1>11. CASE PushBeam
  BY <1>11, PushBeamInv
<1>12. CASE Ionize
  BY <1>12, IonizeInv
<1>13. CASE ShiftSlices
  BY <1>13, ShiftInv
<1>14. CASE Done \/ UNCHANGED vars
  BY <1>14, StutterInv DEF Done
<1> QED
  BY <1>1, <1>2, <1>3, <1>4, <1>5, <1>6, <1>7, <1>8, <1>9, <1>10, <1>11, <1>12,
     <1>13, <1>14 DEF Next

\* The invariant holds in every state: by the action that was taken.
LEMMA SliceInvariant == TiledOnOneLevel => (Spec => []SliceInv)
<1> SUFFICES ASSUME TiledOnOneLevel
             PROVE  Spec => []SliceInv
  OBVIOUS
<1> QED
  BY InitInv, SliceNext, PTL DEF Spec

-----------------------------------------------------------------------------
(* The properties                                                          *)

LEMMA FieldOfSlice ==
    ASSUME NEW F, NEW c, NEW l, NEW w, NEW cs, NEW d \in cs, NEW name, NEW s, NEW ns,
           Holds(F, c, l, w, cs, name, s, ns)
    PROVE  /\ SliceOf(c, s, l) => BagCardinality(Get(F, l, w, d)) = 1
           /\ \A f \in BagToSet(Get(F, l, w, d)) :
                  f[1] = name /\ f[2] = l /\ f[3] = s /\ f[4] \in ns
<1>1. CASE SliceOf(c, s, l)
  <2>1. PICK n \in ns : Get(F, l, w, d) = Field(name, l, s, n)
    BY <1>1 DEF Holds
  <2> DEFINE g == <<name, l, s, n>>
  <2>2. BagToSet(Get(F, l, w, d)) = {g} /\ BagCardinality(Get(F, l, w, d)) = 1
    BY <2>1, FieldIs
  <2>3. g[1] = name /\ g[2] = l /\ g[3] = s /\ g[4] = n
    OBVIOUS
  <2> HIDE DEF g
  <2> QED
    BY <2>2, <2>3
<1>2. CASE ~SliceOf(c, s, l)
  <2>1. Get(F, l, w, d) = EmptyBag
    BY <1>2 DEF Holds
  <2> QED
    BY <1>2, <2>1, EmptyBagIs
<1> QED
  BY <1>1, <1>2

LEMMA HoldsFieldIs ==
    ASSUME NEW w, NEW cs, NEW d \in cs, NEW name, NEW s, NEW ns, 0 \notin ns,
           Holds(fields, conf, lev, w, cs, name, s, ns)
    PROVE  HoldsField(w, d, name, s)
<1>1. /\ SliceOf(conf, s, lev) => BagCardinality(Now(w, d)) = 1
      /\ \A f \in BagToSet(Now(w, d)) : f[1] = name /\ f[2] = lev /\ f[3] = s /\ f[4] \in ns
  BY FieldOfSlice DEF Now
<1> QED
  BY <1>1, SolvedIs DEF HoldsField

\* The slices before, and this one while the explicit solver has not written
\* it, are those the guess of Bx and By is made from.
THEOREM GuessesFromSlicesBefore == TiledOnOneLevel => (Spec => []GuessFromSlicesBefore)
<1> SUFFICES ASSUME TiledOnOneLevel
             PROVE  Spec => []GuessFromSlicesBefore
  OBVIOUS
<1>1. SliceInv => GuessFromSlicesBefore
  <2> SUFFICES ASSUME SliceInv, NEW d \in {"Bx", "By"}
               PROVE  /\ pc = "guess" => /\ HoldsField("Previous1", d, "B", isl + 1)
                                         /\ HoldsField("Previous2", d, "B", isl + 2)
                      /\ pc = "explicit" => HoldsField("This", d, "B", isl + 1)
    BY DEF GuessFromSlicesBefore
  <2>1. TypeOK /\ ControlOK /\ FieldsOK /\ lev \in Levels /\ 0 \notin Final
        /\ (isl + 1) + 1 = isl + 2
    BY SliceSolverAssumption DEF SliceInv, TypeOK, Final, Slices
  <2>2. CASE pc = "guess"
    <3>1. PreviousHolds(fields, conf, lev, isl + 1)
      BY <2>1, <2>2, LevIsAhead DEF FieldsOK, LevelOK
    <3>2. /\ Holds(fields, conf, lev, "Previous1", {"Bx", "By"}, "B", isl + 1, Final)
          /\ Holds(fields, conf, lev, "Previous2", {"Bx", "By"}, "B", isl + 2, Final)
      BY <2>1, <3>1 DEF PreviousHolds
    <3> QED
      BY <2>1, <2>2, <3>2, HoldsFieldIs
  <2>3. CASE pc = "explicit"
    <3>1. BHolds(fields, conf, lev, isl + 1, Final)
      BY <2>1, <2>3 DEF FieldsOK, SolvingOK, ControlOK
    <3>2. Holds(fields, conf, lev, "This", {"Bx", "By"}, "B", isl + 1, Final)
      BY <3>1 DEF BHolds
    <3> QED
      BY <2>1, <2>3, <3>2, HoldsFieldIs
  <2> QED
    BY <2>2, <2>3
<1> QED
  BY <1>1, SliceInvariant, PTL

\* What level 1 takes its boundary from: the fields of level 0 are final
\* before level 1 starts, and only ShiftSlices moves them on.
THEOREM CoarseFieldsAreFinal == TiledOnOneLevel => (Spec => []CoarseBoundary)
<1> SUFFICES ASSUME TiledOnOneLevel
             PROVE  Spec => []CoarseBoundary
  OBVIOUS
<1>1. SliceInv => CoarseBoundary
  <2> DEFINE At(w) == IF w = "This" THEN isl ELSE isl + 1
             Right(w, d) ==
                 /\ At(w) \in Slices => BagCardinality(Get(fields, 0, w, d)) = 1
                 /\ \A f \in BagToSet(Get(fields, 0, w, d)) :
                        f[2] = 0 /\ f[3] = At(w) /\ (d \in {"Bx", "By"} => f[4] # 0)
  <2> SUFFICES ASSUME SliceInv, lev = 1, pc \in {"psi", "ezbz", "correct"},
                      NEW w \in {"This", "Previous1"}, NEW d \in {"Psi", "Ez", "Bx", "By", "Bz"}
               PROVE  Right(w, d)
    BY DEF CoarseBoundary
  <2>1. TypeOK /\ FieldsOK /\ isl \in Slices /\ 0 \in Levels /\ 0 \notin Final
    BY DEF SliceInv, TypeOK, Levels, Final
  <2>2. Ahead(conf, isl, 0)
    <3>1. 0 <= conf.finestLevel /\ isl <= isl
      BY <2>1, ConfigOK DEF Levels, Slices
    <3> QED
      BY <2>1, <3>1 DEF Ahead, SliceOf
  <2>3. LevelOK(0) /\ Newest(0) = isl
    BY <2>1, <2>2 DEF FieldsOK, Newest
  <2>4. ThisHolds(fields, conf, 0, isl) /\ PreviousHolds(fields, conf, 0, isl + 1)
    BY <2>3 DEF LevelOK
  <2>5. At(w) \in Slices => SliceOf(conf, At(w), 0)
    BY DEF SliceOf
  <2>6. ASSUME NEW cs, d \in cs, NEW name, NEW ns, d \in {"Bx", "By"} => 0 \notin ns,
               Holds(fields, conf, 0, w, cs, name, At(w), ns)
        PROVE  Right(w, d)
    <3> HIDE DEF At
    <3>1. /\ SliceOf(conf, At(w), 0) => BagCardinality(Get(fields, 0, w, d)) = 1
          /\ \A f \in BagToSet(Get(fields, 0, w, d)) : f[2] = 0 /\ f[3] = At(w) /\ f[4] \in ns
      BY <2>6, FieldOfSlice
    <3> QED
      BY <2>5, <2>6, <3>1
  <2>7. \/ Holds(fields, conf, 0, w, {"ExmBy", "EypBx", "Psi"}, "Psi", At(w), {0}) /\ d = "Psi"
        \/ Holds(fields, conf, 0, w, {"Psi"}, "Psi", At(w), {0}) /\ d = "Psi"
        \/ Holds(fields, conf, 0, w, {"Ez", "Bz"}, "EzBz", At(w), {0}) /\ d \in {"Ez", "Bz"}
        \/ Holds(fields, conf, 0, w, {"Bx", "By"}, "B", At(w), Final) /\ d \in {"Bx", "By"}
    <3>1. CASE w = "This"
      BY <2>4, <3>1 DEF ThisHolds, PsiHolds, EzBzHolds, BHolds
    <3>2. CASE w = "Previous1"
      BY <2>4, <3>2 DEF PreviousHolds
    <3> QED
      BY <3>1, <3>2
  <2> HIDE DEF At, Right
  <2> QED
    BY <2>1, <2>6, <2>7
<1> QED
  BY <1>1, SliceInvariant, PTL

\* A slice of a level is solved with its own fields, final ones, when the beam
\* is pushed and ions are ionized; the plasma was pushed once per slice.
THEOREM SlicesAreSolved == TiledOnOneLevel => (Spec => []SliceSolved)
<1> SUFFICES ASSUME TiledOnOneLevel
             PROVE  Spec => []SliceSolved
  OBVIOUS
<1>1. SliceInv => SliceSolved
  <2> SUFFICES ASSUME SliceInv, pc \in {"beam", "ionize"}
               PROVE  SliceSolved
    BY DEF SliceSolved
  <2>1. /\ TypeOK /\ FieldsOK /\ PlasmaOK /\ lev \in Levels /\ 0 \notin Final
        /\ Ahead(conf, isl, lev) /\ SliceOf(conf, isl, lev) /\ isl \in Slices
    BY LevIsAhead DEF SliceInv, TypeOK, Final
  <2>2. ThisHolds(fields, conf, lev, isl)
    BY <2>1 DEF FieldsOK, LevelOK, Newest, Finished
  <2>3. /\ \A c \in {"ExmBy", "EypBx", "Psi"} : Now("This", c) = Field("Psi", lev, isl, 0)
        /\ \A c \in {"Ez", "Bz"} : Now("This", c) = Field("EzBz", lev, isl, 0)
    BY <2>1, <2>2 DEF ThisHolds, PsiHolds, EzBzHolds, Holds, Now
  <2>4. \A c \in {"Bx", "By"} : HoldsField("This", c, "B", isl)
    <3>1. Holds(fields, conf, lev, "This", {"Bx", "By"}, "B", isl, Final)
      BY <2>2 DEF ThisHolds, BHolds
    <3> QED
      BY <2>1, <3>1, HoldsFieldIs
  <2>5. lev \in conf.plasmas =>
            /\ plasma[lev].temp = 0
            /\ plasma[lev].pushes = Pushes(isl, lev) + (IF conf.explicit THEN 1 ELSE 0)
    <3>1. SUFFICES ASSUME lev \in conf.plasmas
                   PROVE  /\ plasma[lev].temp = 0
                          /\ plasma[lev].pushes =
                                 Pushes(isl, lev) + (IF conf.explicit THEN 1 ELSE 0)
      OBVIOUS
    <3>2. ParticlesOK(lev) /\ Pushed(lev) /\ ~Shifted(lev)
      BY <2>1, <3>1 DEF PlasmaOK, Pushed, Shifted, Finished
    <3>3. plasma[lev].temp = 0 /\ plasma[lev].pushes = CountOf(conf, isl, lev)
      BY <3>2 DEF ParticlesOK
    <3>4. CountOf(conf, isl, lev) \in Nat
      BY <2>1, CountNat DEF Slices
    <3>5. Pushes(isl, lev) = CountOf(conf, isl, lev) - (IF conf.explicit THEN 1 ELSE 0)
      BY PushesIs
    <3> QED
      BY <3>3, <3>4, <3>5
  <2>6. ~conf.explicit => \A k \in DOMAIN fields[lev].Next : fields[lev].Next[k] = EmptyBag
    <3>1. SUFFICES ASSUME ~conf.explicit, NEW k \in DOMAIN fields[lev].Next
                   PROVE  fields[lev]["Next"][k] = EmptyBag
      OBVIOUS
    <3>2. k \in 0 .. 3
      BY <2>1, <3>1, NextComps DEF TypeOK, Shaped, WhichSlice
    <3>3. \E c \in Names("Next") : Comps["Next"][c] = k
      BY <3>2, NamesAre, NextComps DEF NextNames
    <3>4. \A c \in Names("Next") : Get(fields, lev, "Next", c) = EmptyBag
      BY <2>1, <3>1 DEF FieldsOK, NextEmpty
    <3> QED
      BY <3>3, <3>4 DEF Get
  <2> QED
    BY <2>3, <2>4, <2>5, <2>6 DEF SliceSolved
<1> QED
  BY <1>1, SliceInvariant, PTL

\* The five force terms of the Adams-Bashforth push are those of the last five
\* slices of the level, whatever the number of iterations of each.
THEOREM ForcesAreOfLastSlices == TiledOnOneLevel => (Spec => []ForcesOfLastSlices)
<1> SUFFICES ASSUME TiledOnOneLevel
             PROVE  Spec => []ForcesOfLastSlices
  OBVIOUS
<1>1. SliceInv => ForcesOfLastSlices
  <2> SUFFICES ASSUME SliceInv, pc = "beam", lev \in conf.plasmas, NEW k \in 1 .. 5
               PROVE  IF Solved(isl + k - 1, lev)
                      THEN \E n \in 1 .. MaxIter :
                              /\ plasma[lev].F[k] =
                                     {<<"Psi", lev, isl + k - 1, 0>>,
                                      <<"EzBz", lev, isl + k - 1, 0>>,
                                      <<"B", lev, isl + k - 1, n>>}
                              /\ k = 1 => Now("This", "Bx") = Field("B", lev, isl + k - 1, n)
                      ELSE plasma[lev].F[k] = {}
    BY DEF ForcesOfLastSlices
  <2> DEFINE s == isl + k - 1
  <2>1. /\ TypeOK /\ PlasmaOK /\ isl \in Int
        /\ Ahead(conf, isl, lev) /\ SliceOf(conf, isl, lev)
    BY LevIsAhead DEF SliceInv, TypeOK, Slices
  <2>2. ForcesOK(lev) /\ ~Shifted(lev) /\ Newest(lev) = isl
    BY <2>1 DEF PlasmaOK, Shifted, Newest, Finished
  <2>3. ForceOf(plasma[lev].F[k], conf, lev, s)
    BY <2>2 DEF ForcesOK, ForcesFrom
  <2>4. CASE k = 1
    <3>1. s = isl
      BY <2>1, <2>4
    <3>2. \E n \in Final : /\ plasma[lev].F[1] = AllOf(lev, isl, n)
                           /\ Get(fields, lev, "This", "Bx") = Field("B", lev, isl, n)
      BY <2>2 DEF ForcesOK, Finished
    <3> QED
      BY <2>1, <2>4, <3>1, <3>2, SolvedIs DEF AllOf, Final, Now
  <2>5. CASE k # 1
    BY <2>3, <2>5, SolvedIs DEF ForceOf, AllOf, Final
  <2> QED
    BY <2>4, <2>5
<1> QED
  BY <1>1, SliceInvariant, PTL

\* With tiling, the bins have all particles whenever the plasma is reached
\* through them, and are of the positions it is deposited at.
THEOREM BinsAreReady == TiledOnOneLevel => (Spec => []BinsReady)
<1> SUFFICES ASSUME TiledOnOneLevel
             PROVE  Spec => []BinsReady
  OBVIOUS
<1>1. SliceInv => BinsReady
  BY DEF SliceInv, BinsOK, BinsReady
<1> QED
  BY <1>1, SliceInvariant, PTL

-----------------------------------------------------------------------------
(* Bags                                                                    *)

LEMMA OneIsBag == \A k, a, b, c : IsABag(One(k, a, b, c))
  BY DEF One, SetToBag, IsABag

LEMMA EmptyIsBag == IsABag(EmptyBag)
  BY DEF EmptyBag, SetToBag, IsABag

LEMMA SumIsBag ==
    ASSUME NEW a, NEW b, IsABag(a), IsABag(b)
    PROVE  IsABag(a (+) b)
<1> DEFINE s == a (+) b
<1>1. DOMAIN s = DOMAIN a \union DOMAIN b
  BY DEF (+)
<1>2. \A e \in DOMAIN s :
          s[e] = (IF e \in DOMAIN a THEN a[e] ELSE 0) + (IF e \in DOMAIN b THEN b[e] ELSE 0)
  BY DEF (+)
<1>3. s = [e \in DOMAIN s |-> s[e]]
  BY DEF (+)
<1>4. \A e \in DOMAIN s : s[e] \in {n \in Nat : n > 0}
  BY <1>1, <1>2 DEF IsABag
<1> HIDE DEF s
<1>5. s \in [DOMAIN s -> {n \in Nat : n > 0}]
  BY <1>3, <1>4
<1> QED
  BY <1>5 DEF IsABag, s

\* Bags with the same copies of everything are the same.
LEMMA BagsEqual ==
    ASSUME NEW a, NEW b, IsABag(a), IsABag(b), DOMAIN a = DOMAIN b,
           \A e \in DOMAIN a : a[e] = b[e]
    PROVE  a = b
  BY DEF IsABag

LEMMA SumWithEmpty ==
    ASSUME NEW a, IsABag(a)
    PROVE  EmptyBag (+) a = a /\ a (+) EmptyBag = a
<1>1. DOMAIN EmptyBag = {} /\ IsABag(EmptyBag)
  BY EmptyIsBag DEF EmptyBag, SetToBag
<1>2. \A e \in DOMAIN a : a[e] \in Nat
  BY DEF IsABag
<1>3. /\ DOMAIN (EmptyBag (+) a) = DOMAIN a
      /\ \A e \in DOMAIN a : (EmptyBag (+) a)[e] = a[e]
  BY <1>1, <1>2 DEF (+)
<1>4. /\ DOMAIN (a (+) EmptyBag) = DOMAIN a
      /\ \A e \in DOMAIN a : (a (+) EmptyBag)[e] = a[e]
  BY <1>1, <1>2 DEF (+)
<1>5. IsABag(EmptyBag (+) a) /\ IsABag(a (+) EmptyBag)
  BY <1>1, SumIsBag
<1> QED
  BY <1>3, <1>4, <1>5, BagsEqual

LEMMA SumCommutes ==
    ASSUME NEW a, NEW b, IsABag(a), IsABag(b)
    PROVE  a (+) b = b (+) a
<1>1. /\ \A e \in DOMAIN a : a[e] \in Nat
      /\ \A e \in DOMAIN b : b[e] \in Nat
  BY DEF IsABag
<1>2. /\ DOMAIN (a (+) b) = DOMAIN (b (+) a)
      /\ \A e \in DOMAIN (a (+) b) : (a (+) b)[e] = (b (+) a)[e]
  BY <1>1 DEF (+)
<1>3. IsABag(a (+) b) /\ IsABag(b (+) a)
  BY SumIsBag
<1> QED
  BY <1>2, <1>3, BagsEqual

LEMMA SumAssociates ==
    ASSUME NEW a, NEW b, NEW c, IsABag(a), IsABag(b), IsABag(c)
    PROVE  (a (+) b) (+) c = a (+) (b (+) c)
<1> DEFINE l == (a (+) b) (+) c
           r == a (+) (b (+) c)
           n(d, e) == IF e \in DOMAIN d THEN d[e] ELSE 0
<1>1. \A d, e : IsABag(d) => n(d, e) \in Nat
  BY DEF IsABag
<1>2. \A d, f, e : IsABag(d) /\ IsABag(f) => n(d (+) f, e) = n(d, e) + n(f, e)
  <2>1. SUFFICES ASSUME NEW d, NEW f, NEW e, IsABag(d), IsABag(f)
                 PROVE  n(d (+) f, e) = n(d, e) + n(f, e)
    OBVIOUS
  <2>2. DOMAIN (d (+) f) = DOMAIN d \union DOMAIN f
    BY DEF (+)
  <2>3. CASE e \in DOMAIN d \union DOMAIN f
    BY <2>3 DEF (+)
  <2>4. CASE e \notin DOMAIN d \union DOMAIN f
    BY <2>2, <2>4
  <2> QED
    BY <2>3, <2>4
<1>3. DOMAIN l = DOMAIN r
  BY DEF (+)
<1>4. IsABag(a (+) b) /\ IsABag(b (+) c) /\ IsABag(l) /\ IsABag(r)
  BY SumIsBag
<1>5. \A e \in DOMAIN l : l[e] = n(l, e) /\ r[e] = n(r, e)
  BY <1>3
<1>6. \A e : n(l, e) = (n(a, e) + n(b, e)) + n(c, e) /\ n(r, e) = n(a, e) + (n(b, e) + n(c, e))
  BY <1>2, <1>4
<1>7. \A e : n(l, e) = n(r, e)
  <2> HIDE DEF n
  <2> QED
    BY <1>1, <1>6
<1> HIDE DEF n, l, r
<1>8. l = r
  BY <1>3, <1>4, <1>5, <1>7, BagsEqual
<1> QED
  BY <1>8 DEF l, r

\* What was added can be taken out again.
LEMMA SumMinus ==
    ASSUME NEW a, NEW b, IsABag(a), IsABag(b)
    PROVE  (a (+) b) (-) b = a
<1> DEFINE s == a (+) b
           d == s (-) b
           m == [e \in DOMAIN s |-> IF e \in DOMAIN b THEN s[e] - b[e] ELSE s[e]]
<1>1. /\ \A e \in DOMAIN a : a[e] \in Nat /\ a[e] > 0
      /\ \A e \in DOMAIN b : b[e] \in Nat /\ b[e] > 0
  BY DEF IsABag
<1>2. /\ DOMAIN s = DOMAIN a \union DOMAIN b
      /\ \A e \in DOMAIN s :
             s[e] = (IF e \in DOMAIN a THEN a[e] ELSE 0) + (IF e \in DOMAIN b THEN b[e] ELSE 0)
  BY DEF (+)
<1>3. d = [e \in {x \in DOMAIN m : m[x] > 0} |-> m[e]]
  BY DEF (-)
<1> HIDE DEF s, d
<1>4. DOMAIN m = DOMAIN s /\ \A e \in DOMAIN s : m[e] = IF e \in DOMAIN a THEN a[e] ELSE 0
  BY <1>1, <1>2
<1> HIDE DEF m
<1>5. {x \in DOMAIN m : m[x] > 0} = DOMAIN a
  <2>1. \A x \in DOMAIN s : m[x] > 0 <=> x \in DOMAIN a
    BY <1>1, <1>4
  <2>2. DOMAIN a \subseteq DOMAIN s /\ DOMAIN m = DOMAIN s
    BY <1>2, <1>4
  <2> QED
    BY <2>1, <2>2
<1>6. d = [e \in DOMAIN a |-> a[e]]
  BY <1>2, <1>3, <1>4, <1>5
<1>7. a = [e \in DOMAIN a |-> a[e]]
  BY DEF IsABag
<1> QED
  BY <1>6, <1>7 DEF s, d

-----------------------------------------------------------------------------
(* The currents                                                            *)

\* A beam whose finest level is 1 is in the patch: elsewhere it is not pushed.
BeamInPatch == \A c \in Configs : c.beamLevel = 1 => c.patch = Slices

\* The beam of this slice has been pushed.
BeamPushed ==
    conf.beamLevel < lev \/ (lev = conf.beamLevel /\ pc \in {"ionize", "shift"})

BeamOK ==
    \A s \in Slices :
        beam[s] = step + IF pc # "step" /\ (s > isl \/ (s = isl /\ BeamPushed)) THEN 1 ELSE 0

\* The currents of slice s of level l in step n.
PlasmaIn(c, s, l) ==
    IF SliceOf(c, s, l) /\ l \in c.plasmas
    THEN PlasmaCurrent(l, CountOf(c, s, l) - (IF c.explicit THEN 1 ELSE 0), 0)
    ELSE EmptyBag

BeamIn(c, n, s, l) ==
    IF s \in Slices /\ c.beamLevel >= l THEN BeamCurrent(s, n) ELSE EmptyBag

TransverseIn(c, n, s, l) == IF c.beamJxJy THEN BeamIn(c, n, s, l) ELSE EmptyBag

GridIn(c, s, l) == IF c.gridLevel >= l THEN GridCurrent(s) ELSE EmptyBag

\* The ions are those of the plasma of the level, with the geometry of level 0.
IonsIn(c, l) == IF l \in c.plasmas THEN Ions(l, 0) ELSE EmptyBag

BeamNames == {"jx_beam", "jy_beam"}

\* An array has the currents of slice s, or nothing if there is none.
CurrentsHold(F, c, n, l, w, s) ==
    /\ \A d \in {"jx", "jy"} :
           Get(F, l, w, d) = IF SliceOf(c, s, l) THEN PlasmaIn(c, s, l) (+) TransverseIn(c, n, s, l)
                                                 ELSE EmptyBag
    /\ \A d \in BeamNames :
           Get(F, l, w, d) = IF SliceOf(c, s, l) THEN TransverseIn(c, n, s, l) ELSE EmptyBag

\* The parts between those that put the currents into an array of level lev.
Deposited ==
    {"ezbz", "explicit", "guess", "predict", "correct", "reset"} \union Finished

LastCurrents(l) == IF l < lev \/ (l = lev /\ pc \in Deposited) THEN isl ELSE isl + 1

CurrentsOK(l) ==
    /\ CurrentsHold(fields, conf, step, l, "Previous1", isl + 1)
    /\ l # lev \/ pc \notin {"deposit", "psi"} =>
           CurrentsHold(fields, conf, step, l, "This", LastCurrents(l))

\* What a component of the array of this slice holds.
This(F, l, cs, b) == \A d \in cs : Get(F, l, "This", d) = b

Squared == {"jxx", "jxy", "jyy"}

\* The longitudinal currents, alone and together.
LongitudinalIs(F, c, n, l, s) ==
    /\ This(F, l, {"jz_beam"}, BeamIn(c, n, s, l) (+) GridIn(c, s, l))
    /\ This(F, l, {"jz"}, PlasmaIn(c, s, l) (+) (BeamIn(c, n, s, l) (+) GridIn(c, s, l)))

\* The plasma in the next slice of the predictor-corrector solver.
NextPlasmaIn(c, l, s, i) ==
    IF l \in c.plasmas THEN PlasmaCurrent(l, CountOf(c, s, l), i) ELSE EmptyBag

SourcesOK ==
    LET P == PlasmaIn(conf, isl, lev)
        I == IonsIn(conf, lev)
        Below == TransverseIn(conf, step, isl - 1, lev)
    IN  /\ pc = "deposit" => This(fields, lev, Names("This") \ {"Bx", "By"}, EmptyBag)
        /\ pc = "psi" =>
               /\ This(fields, lev, {"jx", "jy", "jz"}, P)
               /\ This(fields, lev, {"rho"}, P (+) I)
               /\ This(fields, lev, {"jx_beam", "jy_beam", "jz_beam"}, EmptyBag)
        /\ pc \in Deposited \ Finished => LongitudinalIs(fields, conf, step, lev, isl)
        /\ conf.explicit /\ pc = "ezbz" => This(fields, lev, {"rho"}, P (+) I)
        /\ pc = "explicit" => This(fields, lev, {"rho"}, P)
        /\ conf.explicit /\ pc \in {"psi", "ezbz", "explicit"} =>
               /\ This(fields, lev, Squared, P)
               /\ \A d \in BeamNames : Get(fields, lev, "Next", d) = Below
        /\ pc = "correct" =>
               \A d \in {"jx", "jy"} :
                   Get(fields, lev, "Next", d) = NextPlasmaIn(conf, lev, isl, iter) (+) Below

RhoIonsOK == \A l \in Levels : Get(fields, l, "RhoIons", "rho") = IonsIn(conf, l)

CurrentInv ==
    /\ BeamOK
    /\ pc # "step" =>
           /\ \A l \in Levels : Ahead(conf, isl, l) => CurrentsOK(l)
           /\ SourcesOK
           /\ RhoIonsOK

LEMMA CurrentsAreBags ==
    ASSUME NEW c, NEW n, NEW s, NEW l
    PROVE  /\ IsABag(PlasmaIn(c, s, l)) /\ IsABag(BeamIn(c, n, s, l))
           /\ IsABag(TransverseIn(c, n, s, l)) /\ IsABag(GridIn(c, s, l)) /\ IsABag(IonsIn(c, l))
           /\ \A i : IsABag(NextPlasmaIn(c, l, s, i))
<1>1. /\ \A p, i, t : IsABag(PlasmaCurrent(p, i, t))
      /\ \A t, i : IsABag(BeamCurrent(t, i))
      /\ \A t : IsABag(GridCurrent(t))
      /\ \A p, g : IsABag(Ions(p, g))
  BY OneIsBag DEF PlasmaCurrent, BeamCurrent, GridCurrent, Ions
<1> QED
  BY <1>1, EmptyIsBag DEF PlasmaIn, BeamIn, TransverseIn, GridIn, IonsIn, NextPlasmaIn

CurrentNames == {"jx", "jy", "jx_beam", "jy_beam"}

LEMMA NamesOfCurrents ==
    /\ CurrentNames \subseteq Names("This") /\ CurrentNames \subseteq Names("Previous1")
    /\ CurrentNames \subseteq Names("Next")
    /\ {"jz", "jz_beam", "rho"} \union Squared \subseteq Names("This")
    /\ "rho" \in Names("RhoIons") /\ BeamNames \subseteq CurrentNames
    /\ {"This", "Next", "Previous1", "RhoIons"} \subseteq WhichSlice
  BY NamesAre DEF CurrentNames, ThisNames, PreviousNames, NextNames, Squared, BeamNames, WhichSlice

LEMMA CurrentsKept ==
    ASSUME NEW F, NEW G, NEW c, NEW n, NEW l, NEW w, NEW s,
           \A d \in CurrentNames : Get(G, l, w, d) = Get(F, l, w, d),
           CurrentsHold(F, c, n, l, w, s)
    PROVE  CurrentsHold(G, c, n, l, w, s)
  BY DEF CurrentsHold, CurrentNames, BeamNames

LEMMA ThisSame ==
    ASSUME NEW F, NEW G, NEW l, NEW cs, NEW b,
           \A d \in cs : Get(G, l, "This", d) = Get(F, l, "This", d), This(F, l, cs, b)
    PROVE  This(G, l, cs, b)
  BY DEF This

\* Before it is pushed, the beam has had a push in each step before.
LEMMA BeamNotPushed ==
    ASSUME TypeOK, BeamOK, pc # "step"
    PROVE  /\ ~BeamPushed => beam[isl] = step
           /\ isl - 1 \in Slices => beam[isl - 1] = step
<1>1. isl \in Slices /\ isl \in Int /\ step \in Nat
  BY DEF TypeOK, Slices
<1>2. ~(isl > isl) /\ ~(isl - 1 > isl) /\ isl - 1 # isl
  BY <1>1
<1>3. ~BeamPushed => beam[isl] = step + 0
  BY <1>1, <1>2 DEF BeamOK
<1>4. isl - 1 \in Slices => beam[isl - 1] = step + 0
  BY <1>1, <1>2 DEF BeamOK
<1> QED
  BY <1>1, <1>3, <1>4

\* A beam that is deposited on the level is pushed only afterwards.
LEMMA DepositedBefore ==
    ASSUME TypeOK, pc \notin {"ionize", "shift"}, DepositsBeam(lev)
    PROVE  ~BeamPushed
  BY ConfigOK DEF TypeOK, DepositsBeam, BeamPushed, Levels

LEMMA BeamKept ==
    ASSUME BeamOK, WithinLevel, step' = step, beam' = beam,
           pc \notin {"ionize", "shift"}, pc' \notin {"ionize", "shift"}
    PROVE  BeamOK'
<1>1. pc # "step" /\ pc' # "step" /\ conf' = conf /\ isl' = isl /\ lev' = lev
  BY DEF WithinLevel
<1>2. BeamPushed' <=> BeamPushed
  BY <1>1 DEF BeamPushed
<1> QED
  BY <1>1, <1>2 DEF BeamOK

\* What is left for a step within a slice of a level.
LEMMA CurrentsStep ==
    ASSUME TypeOK, CurrentInv, WithinLevel, step' = step, BeamOK', SourcesOK',
           pc' \notin {"deposit", "psi"} =>
               CurrentsHold(fields', conf, step, lev, "This", LastCurrents(lev)')
    PROVE  CurrentInv'
<1>0. /\ pc # "step" /\ pc' # "step" /\ conf' = conf /\ isl' = isl /\ lev' = lev
      /\ {"This", "Previous1", "RhoIons"} \subseteq WhichSlice
  BY DEF WithinLevel, WhichSlice
<1>1. ASSUME NEW l \in Levels, Ahead(conf, isl, l)
      PROVE  CurrentsOK(l)'
  <2>1. CurrentsOK(l)
    BY <1>0, <1>1 DEF CurrentInv
  <2>2. \A d \in CurrentNames : Get(fields', l, "Previous1", d) = Get(fields, l, "Previous1", d)
    BY <1>0, NamesOfCurrents DEF WithinLevel, Same
  <2>3. CurrentsHold(fields', conf, step, l, "Previous1", isl + 1)
    BY <2>1, <2>2, CurrentsKept DEF CurrentsOK
  <2>4. CASE l = lev
    BY <1>0, <2>3, <2>4 DEF CurrentsOK
  <2>5. CASE l # lev
    <3>1. \A d \in CurrentNames : Get(fields', l, "This", d) = Get(fields, l, "This", d)
      BY <1>0, <2>5, NamesOfCurrents DEF WithinLevel, Same
    <3>2. CurrentsHold(fields, conf, step, l, "This", LastCurrents(l))
      BY <2>1, <2>5 DEF CurrentsOK
    <3>3. CurrentsHold(fields', conf, step, l, "This", LastCurrents(l))
      BY <3>1, <3>2, CurrentsKept
    <3>4. LastCurrents(l)' = LastCurrents(l)
      BY <1>0, <2>5 DEF LastCurrents
    <3> QED
      BY <1>0, <2>3, <3>3, <3>4 DEF CurrentsOK
  <2> QED
    BY <2>4, <2>5
<1>2. RhoIonsOK'
  <2>1. \A l \in Levels : Get(fields', l, "RhoIons", "rho") = Get(fields, l, "RhoIons", "rho")
    BY <1>0, NamesOfCurrents DEF WithinLevel, Same
  <2> QED
    BY <1>0, <2>1 DEF CurrentInv, RhoIonsOK
<1> QED
  BY <1>0, <1>1, <1>2 DEF CurrentInv

\* The plasma is deposited once per slice, after all its pushes.
LEMMA PlasmaDeposited ==
    ASSUME TypeOK, ControlOK, PlasmaOK, pc = "deposit", lev \in conf.plasmas
    PROVE  PlasmaCurrent(lev, plasma[lev].pushes, plasma[lev].temp) = PlasmaIn(conf, isl, lev)
<1>1. /\ ParticlesOK(lev) /\ SliceOf(conf, isl, lev) /\ isl \in Slices /\ isl \in Int
      /\ conf.explicit \in BOOLEAN
  BY LevIsAhead, ConfigOK DEF PlasmaOK, TypeOK, Slices
<1>2. ~Shifted(lev) /\ (Pushed(lev) <=> ~conf.explicit)
  BY <1>1 DEF Shifted, Pushed, Finished, TypeOK, Levels
<1>3. plasma[lev].pushes = CountOf(conf, isl, lev) - (IF conf.explicit THEN 1 ELSE 0)
  <2>1. CASE conf.explicit
    <3>1. CountOf(conf, isl, lev) = CountOf(conf, isl + 1, lev) + 1
      BY <1>1, CountStep
    <3>2. plasma[lev].pushes = CountOf(conf, isl + 1, lev) /\ CountOf(conf, isl + 1, lev) \in Nat
      BY <1>1, <1>2, <2>1, CountNat DEF ParticlesOK
    <3> QED
      BY <2>1, <3>1, <3>2
  <2>2. CASE ~conf.explicit
    <3>1. plasma[lev].pushes = CountOf(conf, isl, lev) /\ CountOf(conf, isl, lev) \in Nat
      BY <1>1, <1>2, <2>2, CountNat DEF ParticlesOK
    <3> QED
      BY <2>2, <3>1
  <2> QED
    BY <1>1, <2>1, <2>2
<1>4. plasma[lev].temp = 0
  BY <1>1, <1>2 DEF ParticlesOK
<1> QED
  BY <1>1, <1>3, <1>4 DEF PlasmaIn

LEMMA ClearCurrents ==
    ASSUME SliceInv, CurrentInv, Clear
    PROVE  CurrentInv'
<1>0. /\ TypeOK /\ pc = "clear" /\ pc' = "deposit"
      /\ UNCHANGED <<conf, step, isl, lev, iter, beam>> /\ lev \in Levels
  BY DEF SliceInv, Clear, TypeOK
<1>1. \A m \in Levels, v \in WhichSlice : \A c \in Names(v) :
          Get(fields', m, v, c) =
              IF m = lev /\ v = "This" /\ (conf.explicit => c \notin {"Bx", "By"})
              THEN EmptyBag ELSE Get(fields, m, v, c)
  BY <1>0, ClearFields
<1>2. WithinLevel
  BY <1>0, <1>1 DEF WithinLevel, Same
<1>3. BeamOK'
  BY <1>0, <1>2, BeamKept DEF CurrentInv
<1>4. This(fields', lev, Names("This") \ {"Bx", "By"}, EmptyBag)
  BY <1>0, <1>1, NamesOfCurrents DEF This
<1>5. SourcesOK'
  BY <1>0, <1>4 DEF SourcesOK, Deposited, Finished
<1> QED
  BY <1>0, <1>2, <1>3, <1>5, CurrentsStep

LEMMA DepositCurrents ==
    ASSUME TiledOnOneLevel, SliceInv, CurrentInv, Deposit
    PROVE  CurrentInv'
<1> DEFINE P == PlasmaIn(conf, isl, lev)
           I == IonsIn(conf, lev)
           squared == IF conf.explicit THEN {"jxx", "jxy", "jyy"} ELSE {}
           current == PlasmaCurrent(lev, plasma[lev].pushes, plasma[lev].temp)
           Beam == TransverseIn(conf, step, isl - 1, lev)
<1>0. /\ TypeOK /\ ControlOK /\ PlasmaOK /\ BinsOK /\ pc = "deposit" /\ pc' = "psi"
      /\ UNCHANGED <<conf, step, isl, lev, iter, plasma, bins, beam>> /\ lev \in Levels
  BY DEF SliceInv, Deposit, TypeOK
<1>1. /\ \A m \in Levels, v \in WhichSlice : \A c \in Names(v) :
             \/ m = lev /\ v = "This" /\ c \in {"jx", "jy", "jz", "rho"} \union squared
             \/ conf.explicit /\ m = lev /\ v = "Next"
             \/ Same(m, v, c)
      /\ \A c \in {"jx", "jy", "jz"} \union squared :
             Get(fields', lev, "This", c) =
                 IF Reached(lev, bins) THEN Get(fields, lev, "This", c) (+) current
                                       ELSE Get(fields, lev, "This", c)
      /\ Get(fields', lev, "This", "rho") =
             (IF Reached(lev, bins) THEN Get(fields, lev, "This", "rho") (+) current
                                    ELSE Get(fields, lev, "This", "rho"))
                 (+) Get(fields, lev, "RhoIons", "rho")
      /\ conf.explicit => \A c \in {"jx_beam", "jy_beam"} :
             Get(fields', lev, "Next", c) =
                 IF conf.beamJxJy /\ DepositsBeam(lev) /\ isl - 1 \in Slices
                 THEN EmptyBag (+) BeamCurrent(isl - 1, beam[isl - 1]) ELSE EmptyBag
  BY <1>0, DepositFields
<1>2. WithinLevel
  BY <1>0, <1>1 DEF WithinLevel
<1>3. BeamOK'
  BY <1>0, <1>2, BeamKept DEF CurrentInv
<1>4. /\ IsABag(P) /\ IsABag(I)
      /\ Reached(lev, bins) => P = current
      /\ ~Reached(lev, bins) => P = EmptyBag
  <2>1. Reached(lev, bins) <=> lev \in conf.plasmas
    BY <1>0, ReachedIs
  <2>2. lev \in conf.plasmas => P = current
    BY <1>0, PlasmaDeposited
  <2>3. lev \notin conf.plasmas => P = EmptyBag
    BY DEF PlasmaIn
  <2> QED
    BY <2>1, <2>2, <2>3, CurrentsAreBags
<1> HIDE DEF P, I, current
<1>5. /\ This(fields, lev, Names("This") \ {"Bx", "By"}, EmptyBag)
      /\ Get(fields, lev, "RhoIons", "rho") = I
  BY <1>0 DEF CurrentInv, SourcesOK, RhoIonsOK, I
<1>6. EmptyBag (+) P = P
  BY <1>4, SumWithEmpty
<1>7. \A c \in {"jx", "jy", "jz", "rho"} \union squared :
          (IF Reached(lev, bins) THEN Get(fields, lev, "This", c) (+) current
                                 ELSE Get(fields, lev, "This", c)) = P
  <2>1. \A c \in {"jx", "jy", "jz", "rho"} \union squared : Get(fields, lev, "This", c) = EmptyBag
    BY <1>5, NamesAre DEF This, ThisNames
  <2> QED
    BY <1>4, <1>6, <2>1
<1>8. This(fields', lev, {"jx", "jy", "jz"}, P) /\ (conf.explicit => This(fields', lev, Squared, P))
  BY <1>1, <1>7 DEF This, Squared
<1>9. This(fields', lev, {"rho"}, P (+) I)
  BY <1>1, <1>5, <1>7 DEF This
<1>10. This(fields', lev, {"jx_beam", "jy_beam", "jz_beam"}, EmptyBag)
  <2>1. \A c \in {"jx_beam", "jy_beam", "jz_beam"} :
            Get(fields', lev, "This", c) = Get(fields, lev, "This", c)
    BY <1>0, <1>1, NamesAre, NamesOfCurrents DEF Same, ThisNames
  <2> QED
    BY <1>5, <2>1, NamesAre DEF This, ThisNames
<1>11. conf.explicit => \A d \in BeamNames : Get(fields', lev, "Next", d) = Beam
  <2>1. isl - 1 \in Slices =>
            EmptyBag (+) BeamCurrent(isl - 1, beam[isl - 1]) = BeamCurrent(isl - 1, step)
    <3>1. IsABag(BeamCurrent(isl - 1, step))
      BY OneIsBag DEF BeamCurrent
    <3>2. isl - 1 \in Slices => beam[isl - 1] = step
      BY <1>0, BeamNotPushed DEF CurrentInv
    <3> QED
      BY <3>1, <3>2, SumWithEmpty
  <2>2. Beam = IF conf.beamJxJy /\ DepositsBeam(lev) /\ isl - 1 \in Slices
               THEN BeamCurrent(isl - 1, step) ELSE EmptyBag
    BY DEF TransverseIn, BeamIn, DepositsBeam
  <2> HIDE DEF Beam
  <2> QED
    BY <1>1, <2>1, <2>2 DEF BeamNames
<1>12. SourcesOK'
  BY <1>0, <1>8, <1>9, <1>10, <1>11 DEF SourcesOK, Deposited, Finished, P, I
<1> QED
  BY <1>0, <1>2, <1>3, <1>12, CurrentsStep

LEMMA SolvePsiCurrents ==
    ASSUME SliceInv, CurrentInv, SolvePsi
    PROVE  CurrentInv'
<1> DEFINE P == PlasmaIn(conf, isl, lev)
           I == IonsIn(conf, lev)
           B == BeamIn(conf, step, isl, lev)
           T == TransverseIn(conf, step, isl, lev)
           G == GridIn(conf, isl, lev)
           Grid(b) == IF conf.gridLevel >= lev THEN b (+) GridCurrent(isl) ELSE b
           Beam(b) == IF DepositsBeam(lev) THEN b (+) BeamCurrent(isl, beam[isl]) ELSE b
           New(c) == Get(fields', lev, "This", c)
           Old(c) == Get(fields, lev, "This", c)
<1>0. /\ TypeOK /\ ControlOK /\ pc = "psi" /\ pc' = "ezbz"
      /\ UNCHANGED <<conf, step, isl, lev, iter, plasma, bins, beam>>
      /\ lev \in Levels /\ isl \in Slices
  BY DEF SliceInv, SolvePsi, TypeOK
<1>1. /\ \A m \in Levels, v \in WhichSlice : \A c \in Names(v) :
             \/ /\ m = lev /\ v = "This"
                /\ c \in {"Psi", "ExmBy", "EypBx", "jx", "jy", "jz",
                          "jx_beam", "jy_beam", "jz_beam"}
             \/ Same(m, v, c)
      /\ \A c \in {"jx_beam", "jy_beam"} : New(c) = IF conf.beamJxJy THEN Beam(Old(c)) ELSE Old(c)
      /\ New("jz_beam") = Beam(Grid(Old("jz_beam")))
      /\ New("jx") = Old("jx") (+) New("jx_beam")
      /\ New("jy") = Old("jy") (+) New("jy_beam")
      /\ New("jz") = Old("jz") (+) New("jz_beam")
  BY <1>0, SolvePsiFields
<1>2. WithinLevel
  BY <1>0, <1>1 DEF WithinLevel
<1>3. BeamOK'
  BY <1>0, <1>2, BeamKept DEF CurrentInv
<1>4. SourcesOK /\ BeamOK /\ SliceOf(conf, isl, lev)
  BY <1>0, LevIsAhead DEF CurrentInv
<1>5. /\ \A c \in {"jx", "jy", "jz"} : Old(c) = P
      /\ Old("rho") = P (+) I
      /\ \A c \in {"jx_beam", "jy_beam", "jz_beam"} : Old(c) = EmptyBag
      /\ conf.explicit => /\ This(fields, lev, Squared, P)
                          /\ \A d \in BeamNames : Get(fields, lev, "Next", d) =
                                                      TransverseIn(conf, step, isl - 1, lev)
  BY <1>0, <1>4 DEF SourcesOK, This
<1>6. /\ DepositsBeam(lev) => B = BeamCurrent(isl, beam[isl])
      /\ ~DepositsBeam(lev) => B = EmptyBag
      /\ conf.gridLevel >= lev => G = GridCurrent(isl)
      /\ ~(conf.gridLevel >= lev) => G = EmptyBag
      /\ T = IF conf.beamJxJy THEN B ELSE EmptyBag
  <2>1. DepositsBeam(lev) => beam[isl] = step
    BY <1>0, <1>4, DepositedBefore, BeamNotPushed
  <2> QED
    BY <1>0, <2>1 DEF BeamIn, GridIn, TransverseIn, DepositsBeam
<1>7. IsABag(B) /\ IsABag(G) /\ IsABag(P)
  BY CurrentsAreBags
<1> HIDE DEF P, I, B, T, G
<1>8. Beam(EmptyBag) = B /\ Beam(Grid(EmptyBag)) = B (+) G
  <2>1. /\ EmptyBag (+) B = B /\ EmptyBag (+) G = G /\ G (+) B = B (+) G
        /\ B (+) EmptyBag = B /\ EmptyBag (+) EmptyBag = EmptyBag /\ EmptyBag (+) G = G
    BY <1>7, SumWithEmpty, SumCommutes, EmptyIsBag
  <2>2. Grid(EmptyBag) = G
    BY <1>6, <2>1
  <2>3. Beam(G) = B (+) G
    BY <1>6, <2>1
  <2> QED
    BY <1>6, <2>1, <2>2, <2>3
<1> HIDE DEF Beam, Grid
<1>9. /\ \A c \in BeamNames : New(c) = T
      /\ New("jz_beam") = B (+) G
      /\ New("jx") = P (+) T /\ New("jy") = P (+) T
      /\ New("jz") = P (+) (B (+) G)
  BY <1>1, <1>5, <1>6, <1>8 DEF BeamNames
<1>10. LongitudinalIs(fields', conf, step, lev, isl)
  BY <1>9 DEF LongitudinalIs, This, B, G, P
<1>11. CurrentsHold(fields', conf, step, lev, "This", isl)
  BY <1>4, <1>9 DEF CurrentsHold, P, T
<1>12. conf.explicit => /\ This(fields', lev, {"rho"}, P (+) I)
                        /\ This(fields', lev, Squared, P)
                        /\ \A d \in BeamNames : Get(fields', lev, "Next", d) =
                                                    TransverseIn(conf, step, isl - 1, lev)
  <2>1. /\ \A c \in {"rho"} \union Squared : New(c) = Old(c)
        /\ \A d \in BeamNames : Get(fields', lev, "Next", d) = Get(fields, lev, "Next", d)
    BY <1>0, <1>1, NamesOfCurrents DEF Same, Squared
  <2> QED
    BY <1>5, <2>1 DEF This
<1>13. SourcesOK'
  BY <1>0, <1>10, <1>12 DEF SourcesOK, P, I
<1>14. LastCurrents(lev)' = isl
  BY <1>0 DEF LastCurrents, Deposited
<1> QED
  BY <1>0, <1>2, <1>3, <1>11, <1>13, <1>14, CurrentsStep

\* After the beam was deposited, the currents of this slice stay.
LEMMA CurrentsLeft ==
    ASSUME SliceInv, CurrentInv, WithinLevel, step' = step, pc \in Deposited, pc' \in Deposited,
           \A d \in CurrentNames : Get(fields', lev, "This", d) = Get(fields, lev, "This", d)
    PROVE  CurrentsHold(fields', conf, step, lev, "This", LastCurrents(lev)')
<1>1. /\ conf' = conf /\ isl' = isl /\ lev' = lev /\ lev \in Levels /\ pc # "step"
      /\ Ahead(conf, isl, lev)
  BY LevIsAhead DEF WithinLevel, SliceInv, TypeOK
<1>2. LastCurrents(lev) = isl /\ LastCurrents(lev)' = isl
  BY <1>1 DEF LastCurrents
<1>3. pc \notin {"deposit", "psi"}
  BY DEF Deposited, Finished
<1>4. CurrentsHold(fields, conf, step, lev, "This", isl)
  BY <1>1, <1>2, <1>3 DEF CurrentInv, CurrentsOK
<1> QED
  BY <1>2, <1>4, CurrentsKept

LEMMA LongitudinalLeft ==
    ASSUME LongitudinalIs(fields, conf, step, lev, isl),
           \A d \in {"jz", "jz_beam"} : Get(fields', lev, "This", d) = Get(fields, lev, "This", d)
    PROVE  LongitudinalIs(fields', conf, step, lev, isl)
  BY ThisSame DEF LongitudinalIs

LEMMA SolveEzBzCurrents ==
    ASSUME SliceInv, CurrentInv, SolveEzBz
    PROVE  CurrentInv'
<1> DEFINE P == PlasmaIn(conf, isl, lev)
           I == IonsIn(conf, lev)
<1>0. /\ TypeOK /\ ControlOK /\ pc = "ezbz" /\ pc' = IF conf.explicit THEN "explicit" ELSE "guess"
      /\ pc' \in {"explicit", "guess"} /\ lev \in Levels
      /\ UNCHANGED <<conf, step, isl, lev, iter, plasma, bins, beam>>
      /\ pc \in Deposited \ Finished /\ pc' \in Deposited \ Finished
  BY DEF SliceInv, SolveEzBz, TypeOK, Deposited, Finished
<1>1. /\ \A m \in Levels, v \in WhichSlice : \A c \in Names(v) :
             \/ m = lev /\ v = "This" /\ c \in {"Ez", "Bz"}
             \/ conf.explicit /\ m = lev /\ v = "This" /\ c = "rho"
             \/ Same(m, v, c)
      /\ conf.explicit =>
             Get(fields', lev, "This", "rho") =
                 Get(fields, lev, "This", "rho") (-) Get(fields, lev, "RhoIons", "rho")
  BY <1>0, SolveEzBzFields
<1>2. WithinLevel
  BY <1>0, <1>1 DEF WithinLevel
<1>3. BeamOK'
  BY <1>0, <1>2, BeamKept DEF CurrentInv
<1>4. SourcesOK /\ RhoIonsOK
  BY <1>0 DEF CurrentInv
<1>5. \A d \in CurrentNames \union {"jz", "jz_beam"} \union Squared :
          Get(fields', lev, "This", d) = Get(fields, lev, "This", d)
  BY <1>0, <1>1, NamesOfCurrents DEF Same, CurrentNames, Squared
<1>6. CurrentsHold(fields', conf, step, lev, "This", LastCurrents(lev)')
  BY <1>0, <1>2, <1>5, CurrentsLeft
<1>7. LongitudinalIs(fields', conf, step, lev, isl)
  <2>1. LongitudinalIs(fields, conf, step, lev, isl)
    BY <1>0, <1>4 DEF SourcesOK
  <2> QED
    BY <1>5, <2>1, LongitudinalLeft
<1>8. conf.explicit =>
          /\ This(fields', lev, {"rho"}, P)
          /\ This(fields', lev, Squared, P)
          /\ \A d \in BeamNames : Get(fields', lev, "Next", d) =
                                      TransverseIn(conf, step, isl - 1, lev)
  <2>1. SUFFICES ASSUME conf.explicit
                 PROVE  /\ This(fields', lev, {"rho"}, P)
                        /\ This(fields', lev, Squared, P)
                        /\ \A d \in BeamNames : Get(fields', lev, "Next", d) =
                                                    TransverseIn(conf, step, isl - 1, lev)
    OBVIOUS
  <2>2. /\ This(fields, lev, {"rho"}, P (+) I) /\ This(fields, lev, Squared, P)
        /\ \A d \in BeamNames : Get(fields, lev, "Next", d) =
                                    TransverseIn(conf, step, isl - 1, lev)
    BY <1>0, <1>4, <2>1 DEF SourcesOK
  <2>3. Get(fields, lev, "RhoIons", "rho") = I
    BY <1>0, <1>4 DEF RhoIonsOK
  <2>4. IsABag(P) /\ IsABag(I)
    BY CurrentsAreBags
  <2> HIDE DEF P, I
  <2>5. Get(fields', lev, "This", "rho") = P
    BY <1>1, <2>1, <2>2, <2>3, <2>4, SumMinus DEF This
  <2>6. \A d \in BeamNames : Get(fields', lev, "Next", d) = Get(fields, lev, "Next", d)
    BY <1>0, <1>1, NamesOfCurrents DEF Same
  <2> QED
    BY <1>5, <2>2, <2>5, <2>6 DEF This
<1>9. SourcesOK'
  BY <1>0, <1>7, <1>8 DEF SourcesOK
<1> QED
  BY <1>0, <1>2, <1>3, <1>6, <1>9, CurrentsStep

LEMMA ExplicitCurrents ==
    ASSUME SliceInv, CurrentInv, ExplicitSolveBxBy
    PROVE  CurrentInv'
<1>0. /\ TypeOK /\ pc = "explicit" /\ pc' = "beam" /\ lev \in Levels
      /\ UNCHANGED <<conf, step, isl, lev, iter, bins, beam>>
      /\ pc \in Deposited /\ pc' \in Deposited
  BY DEF SliceInv, ExplicitSolveBxBy, TypeOK, Deposited, Finished
<1>1. \A m \in Levels, v \in WhichSlice : \A c \in Names(v) :
          (m = lev /\ v = "This" /\ c \in {"Bx", "By", "rho"}) \/ Same(m, v, c)
  BY <1>0, ExplicitFields
<1>2. WithinLevel
  BY <1>0, <1>1 DEF WithinLevel
<1>3. BeamOK'
  BY <1>0, <1>2, BeamKept DEF CurrentInv
<1>4. \A d \in CurrentNames : Get(fields', lev, "This", d) = Get(fields, lev, "This", d)
  BY <1>0, <1>1, NamesOfCurrents DEF Same, CurrentNames
<1>5. CurrentsHold(fields', conf, step, lev, "This", LastCurrents(lev)')
  BY <1>0, <1>2, <1>4, CurrentsLeft
<1>6. SourcesOK'
  BY <1>0 DEF SourcesOK, Finished
<1> QED
  BY <1>0, <1>2, <1>3, <1>5, <1>6, CurrentsStep

LEMMA GuessCurrents ==
    ASSUME SliceInv, CurrentInv, Guess
    PROVE  CurrentInv'
<1>0. /\ TypeOK /\ ControlOK /\ pc = "guess" /\ pc' = "predict" /\ ~conf.explicit /\ lev \in Levels
      /\ UNCHANGED <<conf, step, isl, lev, bins, beam>>
      /\ pc \in Deposited \ Finished /\ pc' \in Deposited \ Finished
  BY DEF SliceInv, ControlOK, Guess, TypeOK, Deposited, Finished
<1>1. \A m \in Levels, v \in WhichSlice : \A c \in Names(v) :
          Get(fields', m, v, c) = IF m = lev /\ v = "This" /\ c \in {"Bx", "By"}
                                  THEN Field("B", lev, isl, 0) ELSE Get(fields, m, v, c)
  BY <1>0, GuessFields
<1>2. WithinLevel
  BY <1>0, <1>1 DEF WithinLevel, Same
<1>3. BeamOK'
  BY <1>0, <1>2, BeamKept DEF CurrentInv
<1>4. \A d \in CurrentNames \union {"jz", "jz_beam"} :
          Get(fields', lev, "This", d) = Get(fields, lev, "This", d)
  BY <1>0, <1>1, NamesOfCurrents DEF CurrentNames
<1>5. CurrentsHold(fields', conf, step, lev, "This", LastCurrents(lev)')
  BY <1>0, <1>2, <1>4, CurrentsLeft
<1>6. LongitudinalIs(fields', conf, step, lev, isl)
  <2>1. LongitudinalIs(fields, conf, step, lev, isl)
    BY <1>0 DEF CurrentInv, SourcesOK
  <2> QED
    BY <1>4, <2>1, LongitudinalLeft
<1>7. SourcesOK'
  BY <1>0, <1>6 DEF SourcesOK
<1> QED
  BY <1>0, <1>2, <1>3, <1>5, <1>7, CurrentsStep

LEMMA PredictCurrents ==
    ASSUME TiledOnOneLevel, SliceInv, SliceInv', CurrentInv, Predict
    PROVE  CurrentInv'
<1> DEFINE Below == TransverseIn(conf, step, isl - 1, lev)
           current == PlasmaCurrent(lev, plasma'[lev].pushes, plasma'[lev].temp)
           N == NextPlasmaIn(conf, lev, isl, iter')
           Old(c) == Get(fields, lev, "Next", c)
           New(c) == Get(fields', lev, "Next", c)
<1>0. /\ TypeOK /\ ControlOK /\ pc = "predict" /\ pc' = "correct" /\ ~conf.explicit
      /\ lev \in Levels /\ isl \in Slices
      /\ UNCHANGED <<conf, step, isl, lev, beam>> /\ bins' = Sort(plasma', lev)
      /\ pc \in Deposited \ Finished /\ pc' \in Deposited \ Finished
  BY DEF SliceInv, ControlOK, Predict, TypeOK, Deposited, Finished
<1>1. /\ \A m \in Levels, v \in WhichSlice : \A c \in Names(v) :
             (m = lev /\ v = "Next") \/ Same(m, v, c)
      /\ \A c \in {"jx_beam", "jy_beam"} :
             New(c) = IF conf.beamJxJy /\ DepositsBeam(lev) /\ isl - 1 \in Slices
                      THEN Old(c) (+) BeamCurrent(isl - 1, beam[isl - 1]) ELSE Old(c)
      /\ New("jx") = (IF Reached(lev, bins') THEN Old("jx") (+) current ELSE Old("jx"))
                         (+) New("jx_beam")
      /\ New("jy") = (IF Reached(lev, bins') THEN Old("jy") (+) current ELSE Old("jy"))
                         (+) New("jy_beam")
  BY <1>0, PredictFields
<1>2. WithinLevel
  BY <1>0, <1>1 DEF WithinLevel
<1>3. BeamOK'
  BY <1>0, <1>2, BeamKept DEF CurrentInv
<1>4. \A d \in CurrentNames \union {"jz", "jz_beam"} :
          Get(fields', lev, "This", d) = Get(fields, lev, "This", d)
  BY <1>0, <1>1, NamesOfCurrents DEF Same, CurrentNames
<1>5. CurrentsHold(fields', conf, step, lev, "This", LastCurrents(lev)')
  BY <1>0, <1>2, <1>4, CurrentsLeft
<1>6. LongitudinalIs(fields', conf, step, lev, isl)
  <2>1. LongitudinalIs(fields, conf, step, lev, isl)
    BY <1>0 DEF CurrentInv, SourcesOK
  <2> QED
    BY <1>4, <2>1, LongitudinalLeft
<1>7. \A c \in {"jx", "jy", "jx_beam", "jy_beam"} : Old(c) = EmptyBag
  BY <1>0, NamesOfCurrents DEF SliceInv, FieldsOK, NextEmpty, CurrentNames
<1>8. /\ Reached(lev, bins') => N = current
      /\ ~Reached(lev, bins') => N = EmptyBag
      /\ IsABag(N) /\ EmptyBag (+) N = N
  <2>1. Reached(lev, bins') <=> lev \in conf.plasmas
    BY <1>0, SortEffect
  <2>2. lev \in conf.plasmas => N = current
    <3>1. SUFFICES ASSUME lev \in conf.plasmas PROVE N = current
      OBVIOUS
    <3>2. ParticlesOK(lev)'
      <4>1. Ahead(conf, isl, lev)
        BY <1>0, LevIsAhead
      <4> QED
        BY <1>0, <3>1, <4>1 DEF SliceInv, PlasmaOK
    <3>3. Pushed(lev)' /\ Shifted(lev)'
      BY <1>0 DEF Pushed, Shifted
    <3>4. plasma'[lev].pushes = CountOf(conf, isl, lev) /\ plasma'[lev].temp = iter'
      BY <1>0, <3>2, <3>3 DEF ParticlesOK
    <3> QED
      BY <3>1, <3>4 DEF NextPlasmaIn
  <2>3. lev \notin conf.plasmas => N = EmptyBag
    BY DEF NextPlasmaIn
  <2>4. IsABag(N)
    BY CurrentsAreBags
  <2> QED
    BY <2>1, <2>2, <2>3, <2>4, SumWithEmpty
<1>9. \A c \in {"jx_beam", "jy_beam"} : New(c) = Below
  <2>1. isl - 1 \in Slices =>
            EmptyBag (+) BeamCurrent(isl - 1, beam[isl - 1]) = BeamCurrent(isl - 1, step)
    <3>1. IsABag(BeamCurrent(isl - 1, step))
      BY OneIsBag DEF BeamCurrent
    <3>2. isl - 1 \in Slices => beam[isl - 1] = step
      BY <1>0, BeamNotPushed DEF CurrentInv
    <3> QED
      BY <3>1, <3>2, SumWithEmpty
  <2>2. Below = IF conf.beamJxJy /\ DepositsBeam(lev) /\ isl - 1 \in Slices
                THEN BeamCurrent(isl - 1, step) ELSE EmptyBag
    BY DEF TransverseIn, BeamIn, DepositsBeam
  <2> HIDE DEF Below
  <2> QED
    BY <1>1, <1>7, <2>1, <2>2
<1>10. \A c \in {"jx", "jy"} : New(c) = N (+) Below
  <2> HIDE DEF N, current, Below
  <2> QED
    BY <1>1, <1>7, <1>8, <1>9
<1>11. SourcesOK'
  BY <1>0, <1>6, <1>10 DEF SourcesOK
<1> QED
  BY <1>0, <1>2, <1>3, <1>5, <1>11, CurrentsStep

LEMMA CorrectCurrents ==
    ASSUME SliceInv, CurrentInv, Correct
    PROVE  CurrentInv'
<1>0. /\ TypeOK /\ ControlOK /\ pc = "correct" /\ pc' \in {"predict", "reset"} /\ ~conf.explicit
      /\ lev \in Levels
      /\ UNCHANGED <<conf, step, isl, lev, iter, bins, beam>>
      /\ pc \in Deposited \ Finished /\ pc' \in Deposited \ Finished
  BY DEF SliceInv, ControlOK, Correct, TypeOK, Deposited, Finished
<1>1. \A m \in Levels, v \in WhichSlice : \A c \in Names(v) :
          Get(fields', m, v, c) =
              IF m = lev /\ v = "This" /\ c \in {"Bx", "By"} THEN Field("B", lev, isl, iter)
              ELSE IF m = lev /\ v = "Next" THEN EmptyBag ELSE Get(fields, m, v, c)
  BY <1>0, CorrectFields
<1>2. WithinLevel
  BY <1>0, <1>1 DEF WithinLevel, Same
<1>3. BeamOK'
  BY <1>0, <1>2, BeamKept DEF CurrentInv
<1>4. \A d \in CurrentNames \union {"jz", "jz_beam"} :
          Get(fields', lev, "This", d) = Get(fields, lev, "This", d)
  BY <1>0, <1>1, NamesOfCurrents DEF CurrentNames
<1>5. CurrentsHold(fields', conf, step, lev, "This", LastCurrents(lev)')
  BY <1>0, <1>2, <1>4, CurrentsLeft
<1>6. LongitudinalIs(fields', conf, step, lev, isl)
  <2>1. LongitudinalIs(fields, conf, step, lev, isl)
    BY <1>0 DEF CurrentInv, SourcesOK
  <2> QED
    BY <1>4, <2>1, LongitudinalLeft
<1>7. SourcesOK'
  BY <1>0, <1>6 DEF SourcesOK
<1> QED
  BY <1>0, <1>2, <1>3, <1>5, <1>7, CurrentsStep

LEMMA ResetCurrents ==
    ASSUME SliceInv, CurrentInv, ResetParticles
    PROVE  CurrentInv'
<1>0. /\ TypeOK /\ ControlOK /\ pc = "reset" /\ pc' = "beam" /\ ~conf.explicit /\ lev \in Levels
      /\ UNCHANGED <<conf, step, isl, lev, iter, fields, bins, beam>>
      /\ pc \in Deposited /\ pc' \in Deposited
  BY DEF SliceInv, ControlOK, ResetParticles, TypeOK, Deposited, Finished
<1>1. WithinLevel
  BY <1>0 DEF WithinLevel, Same
<1>2. BeamOK'
  BY <1>0, <1>1, BeamKept DEF CurrentInv
<1>3. CurrentsHold(fields', conf, step, lev, "This", LastCurrents(lev)')
  BY <1>0, <1>1, CurrentsLeft
<1>4. SourcesOK'
  BY <1>0 DEF SourcesOK, Finished
<1> QED
  BY <1>0, <1>1, <1>2, <1>3, <1>4, CurrentsStep

LEMMA PushBeamCurrents ==
    ASSUME SliceInv, CurrentInv, PushBeam
    PROVE  CurrentInv'
<1>0. /\ TypeOK /\ pc = "beam" /\ pc' = "ionize" /\ lev \in Levels /\ isl \in Slices
      /\ UNCHANGED <<conf, step, isl, lev, iter, fields, plasma, bins>>
      /\ beam' = IF PushesBeam(lev) THEN [beam EXCEPT ![isl] = @ + 1] ELSE beam
      /\ pc \in Deposited /\ pc' \in Deposited /\ step \in Nat
      /\ beam \in [Slices -> Nat] /\ lev \in Int /\ conf.beamLevel \in Int
  BY ConfigOK DEF SliceInv, PushBeam, TypeOK, Deposited, Finished, Levels
<1>1. WithinLevel
  BY <1>0 DEF WithinLevel, Same
<1>2. BeamOK'
  <2>1. BeamOK
    BY DEF CurrentInv
  <2>2. CASE conf.beamLevel = lev
    <3>1. ~BeamPushed /\ BeamPushed'
      BY <1>0, <2>2 DEF BeamPushed
    <3>2. beam' = [beam EXCEPT ![isl] = beam[isl] + 1] /\ beam[isl] = step
      BY <1>0, <2>1, <2>2, <3>1, BeamNotPushed DEF PushesBeam
    <3>3. SUFFICES ASSUME NEW s \in Slices
                   PROVE  beam'[s] = step + IF s > isl \/ s = isl THEN 1 ELSE 0
      BY <1>0, <3>1 DEF BeamOK
    <3>4. beam[s] = step + IF s > isl \/ (s = isl /\ BeamPushed) THEN 1 ELSE 0
      BY <1>0, <2>1 DEF BeamOK
    <3>5. CASE s = isl
      BY <1>0, <3>2, <3>5
    <3>6. CASE s # isl
      <4>1. beam'[s] = beam[s]
        BY <1>0, <3>2, <3>6
      <4> QED
        BY <3>4, <3>6, <4>1
    <3> QED
      BY <3>5, <3>6
  <2>3. CASE conf.beamLevel # lev
    <3>1. beam' = beam /\ (BeamPushed' <=> BeamPushed)
      BY <1>0, <2>3 DEF BeamPushed, PushesBeam
    <3> QED
      BY <1>0, <2>1, <3>1 DEF BeamOK
  <2> QED
    BY <2>2, <2>3
<1>3. CurrentsHold(fields', conf, step, lev, "This", LastCurrents(lev)')
  BY <1>0, <1>1, CurrentsLeft
<1>4. SourcesOK'
  BY <1>0 DEF SourcesOK, Finished
<1> QED
  BY <1>0, <1>1, <1>2, <1>3, <1>4, CurrentsStep

LEMMA IonizeCurrents ==
    ASSUME SliceInv, CurrentInv, Ionize
    PROVE  CurrentInv'
<1>0. /\ TypeOK /\ ControlOK /\ pc = "ionize" /\ pc' \in {"clear", "shift"}
      /\ UNCHANGED <<conf, step, isl, iter, fields, plasma, beam>>
      /\ lev \in Levels /\ conf.finestLevel \in Levels
      /\ conf.beamLevel \in Levels /\ conf.beamLevel <= conf.finestLevel
  BY ConfigOK DEF SliceInv, Ionize, TypeOK, ControlOK
<1>1. \/ lev = 0 /\ lev' = 1 /\ pc' = "clear"
      \/ lev' = lev /\ pc' = "shift"
  <2>1. CASE lev < conf.finestLevel /\ OnLevel(isl, lev + 1)
    <3>1. lev' = lev + 1 /\ pc' = "clear"
      BY <2>1 DEF Ionize
    <3>2. lev = 0
      BY <1>0, <2>1 DEF Levels
    <3> QED
      BY <3>1, <3>2
  <2>2. CASE ~(lev < conf.finestLevel /\ OnLevel(isl, lev + 1))
    BY <2>2 DEF Ionize
  <2> QED
    BY <2>1, <2>2
<1>2. BeamOK'
  <2>1. BeamPushed' <=> BeamPushed
    <3>1. CASE lev' = lev /\ pc' = "shift"
      BY <1>0, <3>1 DEF BeamPushed
    <3>2. CASE lev = 0 /\ lev' = 1 /\ pc' = "clear"
      BY <1>0, <3>2 DEF BeamPushed, Levels
    <3> QED
      BY <1>1, <3>1, <3>2
  <2> QED
    BY <1>0, <2>1 DEF CurrentInv, BeamOK
<1>3. ASSUME NEW l \in Levels
      PROVE  LastCurrents(l)' = LastCurrents(l) /\ (l # lev \/ pc \notin {"deposit", "psi"})
  <2>1. CASE lev' = lev /\ pc' = "shift"
    BY <1>0, <2>1 DEF LastCurrents, Deposited, Finished
  <2>2. CASE lev = 0 /\ lev' = 1 /\ pc' = "clear"
    BY <1>0, <2>2 DEF LastCurrents, Deposited, Finished, Levels
  <2> QED
    BY <1>0, <1>1, <2>1, <2>2
<1>4. ASSUME NEW l \in Levels, Ahead(conf, isl, l)
      PROVE  CurrentsOK(l)'
  <2>1. CurrentsOK(l)
    BY <1>0, <1>4 DEF CurrentInv
  <2> QED
    BY <1>0, <1>3, <2>1 DEF CurrentsOK
<1>5. SourcesOK'
  BY <1>0 DEF SourcesOK, Deposited, Finished
<1>6. RhoIonsOK'
  BY <1>0 DEF CurrentInv, RhoIonsOK
<1> QED
  BY <1>0, <1>2, <1>4, <1>5, <1>6 DEF CurrentInv

\* Where a level has no slice, there is no current.
LEMMA NoCurrents ==
    ASSUME NEW F, NEW c, NEW n, NEW l, NEW w, NEW s, ~SliceOf(c, s, l),
           \A d \in CurrentNames : Get(F, l, w, d) = EmptyBag
    PROVE  CurrentsHold(F, c, n, l, w, s)
  BY DEF CurrentsHold, CurrentNames, BeamNames

\* Where a level has no slices, it has no current, whatever the slice.
LEMMA CurrentsNone ==
    ASSUME NEW F, NEW c, NEW n, NEW l, NEW w, NEW s, NEW t,
           ~SliceOf(c, s, l), ~SliceOf(c, t, l), CurrentsHold(F, c, n, l, w, s)
    PROVE  CurrentsHold(F, c, n, l, w, t)
  BY DEF CurrentsHold

LEMMA ResetAllCurrents ==
    ASSUME TiledOnOneLevel, SliceInv, CurrentInv, ResetAllQuantities
    PROVE  CurrentInv'
<1>0. /\ TypeOK /\ ControlOK
      /\ pc = "step" /\ pc' = "clear" /\ lev = 0 /\ lev' = 0 /\ isl' = NSlices - 1
      /\ UNCHANGED <<conf, step, iter, beam>>
      /\ plasma' = ResetPlasma /\ bins' = Sort(plasma', lev)
      /\ fields' = [l \in Levels |-> [w \in WhichSlice |->
             IF w = "RhoIons" /\ Reached(l, bins')
             THEN [k \in DOMAIN Zero(w) |-> Ions(l, 0)] ELSE Zero(w)]]
  BY DEF SliceInv, ResetAllQuantities, ControlOK
<1>s. /\ isl' \in Slices /\ isl' + 1 = NSlices /\ NSlices \in Int /\ step \in Nat
      /\ conf.plasmas \subseteq Levels /\ conf.beamLevel \in Levels /\ conf.tiling \in BOOLEAN
  BY <1>0, ConfigOK DEF Slices, TypeOK
<1>1. /\ \A l \in Levels, w \in {"This", "Previous1"} : \A c \in CurrentNames :
             Get(fields', l, w, c) = EmptyBag
      /\ \A l \in Levels : Get(fields', l, "RhoIons", "rho") =
                               IF Reached(l, bins') THEN Ions(l, 0) ELSE EmptyBag
  <2>1. /\ \A l \in Levels, w \in WhichSlice \ {"RhoIons"} :
               \A k \in 0 .. Comps[w].N - 1 : fields'[l][w][k] = EmptyBag
        /\ \A l \in Levels : \A k \in 0 .. Comps["RhoIons"].N - 1 :
               fields'[l]["RhoIons"][k] = IF Reached(l, bins') THEN Ions(l, 0) ELSE EmptyBag
    BY <1>0, NamesOfCurrents DEF Zero
  <2>2. \A w \in WhichSlice : \A c \in Names(w) : Comps[w][c] \in 0 .. Comps[w].N - 1
    BY CompsDistinct
  <2>3. {"This", "Previous1"} \subseteq WhichSlice \ {"RhoIons"} /\ "RhoIons" \in WhichSlice
    BY DEF WhichSlice
  <2> QED
    BY <2>1, <2>2, <2>3, NamesOfCurrents DEF Get
<1>2. \A l \in Levels : Reached(l, bins') <=> l \in conf.plasmas
  <2>1. conf.tiling => \A p \in conf.plasmas : bins'[p].found = "all"
    BY <1>0, SortEffect
  <2> QED
    BY <1>0, <1>s, <2>1 DEF Reached
<1>3. RhoIonsOK'
  BY <1>0, <1>1, <1>2 DEF RhoIonsOK, IonsIn
<1>4. ASSUME NEW l \in Levels
      PROVE  CurrentsOK(l)'
  <2>1. ~SliceOf(conf, NSlices, l)
    BY <1>0, <1>s, NotBeyond
  <2>2. LastCurrents(l)' = NSlices
    BY <1>0, <1>s DEF LastCurrents, Deposited, Finished, Levels
  <2>3. /\ CurrentsHold(fields', conf, step, l, "Previous1", NSlices)
        /\ CurrentsHold(fields', conf, step, l, "This", NSlices)
    BY <1>1, <2>1, NoCurrents
  <2> QED
    BY <1>0, <1>s, <2>2, <2>3 DEF CurrentsOK
<1>5. SourcesOK'
  BY <1>0 DEF SourcesOK, Deposited, Finished
<1>6. BeamOK'
  <2>1. SUFFICES ASSUME NEW s \in Slices
                 PROVE  beam'[s] =
                            step' + IF pc' # "step" /\ (s > isl' \/ (s = isl' /\ BeamPushed'))
                                    THEN 1 ELSE 0
    BY DEF BeamOK
  <2>2. ~BeamPushed' /\ ~(s > isl')
    BY <1>0, <1>s DEF BeamPushed, Levels, Slices
  <2>3. beam[s] = step + 0
    BY <1>0 DEF CurrentInv, BeamOK
  <2> QED
    BY <1>0, <2>2, <2>3
<1> QED
  BY <1>0, <1>3, <1>4, <1>5, <1>6 DEF CurrentInv

LEMMA ShiftCurrents ==
    ASSUME BeamInPatch, SliceInv, CurrentInv, ShiftSlices
    PROVE  CurrentInv'
<1>0. /\ TypeOK /\ ControlOK
      /\ pc = "shift" /\ lev' = 0 /\ pc' \in {"clear", "step"}
      /\ UNCHANGED <<conf, iter, plasma, bins, beam>>
      /\ pc' = "clear" => isl > 0 /\ isl' = isl - 1 /\ step' = step
      /\ pc' = "step" => isl = 0 /\ isl' = isl /\ step' = step + 1
      /\ lev \in Levels /\ isl \in Slices /\ step \in Nat /\ conf \in Configs
  <2>1. TypeOK /\ isl \in Slices /\ step \in Nat /\ conf \in Configs
    BY DEF SliceInv, TypeOK
  <2>2. ~(isl > 0) => isl = 0
    BY <2>1, ConfigOK DEF Slices
  <2> QED
    BY <2>1, <2>2 DEF SliceInv, ShiftSlices, TypeOK
<1>1. /\ \A l \in Levels : Shifts(l) =>
             \A c \in Names("Previous1") :
                 Get(fields', l, "Previous1", c) = Get(fields, l, "This", c)
      /\ \A l \in Levels, v \in WhichSlice : \A c \in Names(v) :
             (Shifts(l) /\ v \in {"Previous1", "Previous2"}) \/ Same(l, v, c)
  BY <1>0, ShiftSlicesFields
<1>2. BeamPushed
  <2>1. conf.beamLevel \in Levels /\ conf.beamLevel <= conf.finestLevel
    BY <1>0, ConfigOK
  <2>2. conf.beamLevel = 1 => OnLevel(isl, 1)
    BY <1>0 DEF BeamInPatch, OnLevel
  <2>3. conf.beamLevel <= lev
    BY <1>0, <2>1, <2>2 DEF ControlOK, Levels
  <2> QED
    BY <1>0, <2>1, <2>3 DEF BeamPushed, Levels
<1>3. \A s \in Slices : beam[s] = step + IF s > isl \/ s = isl THEN 1 ELSE 0
  BY <1>0, <1>2 DEF CurrentInv, BeamOK
<1>4. BeamOK'
  <2>1. CASE pc' = "step"
    <3>1. \A s \in Slices : s > isl \/ s = isl
      BY <1>0, <2>1, ConfigOK DEF Slices
    <3>2. \A s \in Slices : beam'[s] = step' + 0
      BY <1>0, <1>3, <2>1, <3>1
    <3> QED
      BY <2>1, <3>2 DEF BeamOK
  <2>2. CASE pc' = "clear"
    <3>1. ~BeamPushed'
      BY <1>0, <2>2, ConfigOK DEF BeamPushed, Levels
    <3>2. \A s \in Slices : s > isl' <=> (s > isl \/ s = isl)
      BY <1>0, <2>2, ConfigOK DEF Slices
    <3> QED
      BY <1>0, <1>3, <2>2, <3>1, <3>2 DEF BeamOK
  <2> QED
    BY <1>0, <2>1, <2>2
<1>5. SUFFICES ASSUME pc' = "clear"
               PROVE  /\ \A l \in Levels : Ahead(conf', isl', l) => CurrentsOK(l)'
                      /\ SourcesOK' /\ RhoIonsOK'
  BY <1>0, <1>4 DEF CurrentInv
<1>s. isl > 0 /\ isl' = isl - 1 /\ isl' + 1 = isl /\ isl \in Int /\ pc # "step"
  BY <1>0, <1>5 DEF Slices
<1>6. ASSUME NEW l \in Levels, Ahead(conf, isl', l)
      PROVE  CurrentsOK(l)'
  <2>1. Ahead(conf, isl, l) /\ l <= conf.finestLevel
    <3>1. PICK t \in Slices : t <= isl' /\ SliceOf(conf, t, l)
      BY <1>6 DEF Ahead
    <3>2. t <= isl /\ l <= conf.finestLevel
      BY <1>0, <1>6, <1>s, <3>1 DEF Slices, Ahead
    <3> QED
      BY <3>1, <3>2 DEF Ahead
  <2>2. LastCurrents(l)' = isl
    BY <1>0, <1>5, <1>s DEF LastCurrents, Deposited, Finished, Levels
  <2>3. /\ CurrentsHold(fields, conf, step, l, "Previous1", isl + 1)
        /\ CurrentsHold(fields, conf, step, l, "This", LastCurrents(l))
    BY <1>0, <1>s, <2>1 DEF CurrentInv, CurrentsOK
  <2>4. {"This", "Previous1"} \subseteq WhichSlice
    BY DEF WhichSlice
  <2>5. \A d \in CurrentNames : Get(fields', l, "This", d) = Get(fields, l, "This", d)
    BY <1>1, <2>4, NamesOfCurrents DEF Same
  <2>6. CurrentsHold(fields', conf, step, l, "This", LastCurrents(l))
    BY <2>3, <2>5, CurrentsKept
  <2>7. SliceOf(conf, isl, l) <=> Shifts(l)
    BY <1>0, <2>1 DEF SliceOf, Shifts, OnLevel
  <2>8. CASE SliceOf(conf, isl, l)
    <3>1. LastCurrents(l) = isl
      <4>1. l < lev \/ l = lev
        BY <1>0, <2>7, <2>8 DEF ControlOK, Shifts, Levels
      <4> QED
        BY <1>0, <4>1 DEF LastCurrents, Deposited, Finished
    <3>2. \A d \in CurrentNames : Get(fields', l, "Previous1", d) = Get(fields, l, "This", d)
      BY <1>1, <2>7, <2>8, NamesOfCurrents
    <3>3. CurrentsHold(fields', conf, step, l, "Previous1", isl)
      BY <2>3, <2>8, <3>1, <3>2 DEF CurrentsHold, CurrentNames, BeamNames
    <3> QED
      BY <1>0, <1>5, <1>s, <2>2, <2>6, <3>1, <3>3 DEF CurrentsOK
  <2>9. CASE ~SliceOf(conf, isl, l)
    <3>1. LastCurrents(l) \in {isl, isl + 1}
      BY DEF LastCurrents
    <3>2. ~SliceOf(conf, isl + 1, l)
      BY <1>0, <1>s, <2>1, <2>9, NoneAbove
    <3>3. \A d \in CurrentNames :
              Get(fields', l, "Previous1", d) = Get(fields, l, "Previous1", d)
      BY <1>1, <2>4, <2>7, <2>9, NamesOfCurrents DEF Same
    <3>4. CurrentsHold(fields', conf, step, l, "Previous1", isl)
      BY <2>3, <2>9, <3>2, <3>3, CurrentsKept, CurrentsNone
    <3>5. CurrentsHold(fields', conf, step, l, "This", isl)
      BY <2>6, <2>9, <3>1, <3>2, CurrentsNone
    <3> QED
      BY <1>0, <1>5, <1>s, <2>2, <3>4, <3>5 DEF CurrentsOK
  <2> QED
    BY <2>8, <2>9
<1>7. SourcesOK'
  BY <1>5 DEF SourcesOK, Deposited, Finished
<1>8. RhoIonsOK'
  <2>1. \A l \in Levels : Same(l, "RhoIons", "rho")
    BY <1>1, NamesOfCurrents
  <2> QED
    BY <1>0, <1>s, <2>1 DEF CurrentInv, RhoIonsOK, Same
<1> QED
  BY <1>0, <1>6, <1>7, <1>8

LEMMA CurrentInit == Init => CurrentInv
  BY DEF Init, CurrentInv, BeamOK

LEMMA CurrentStutter ==
    ASSUME CurrentInv, UNCHANGED vars
    PROVE  CurrentInv'
<1>1. /\ conf' = conf /\ pc' = pc /\ step' = step /\ isl' = isl /\ lev' = lev /\ iter' = iter
      /\ fields' = fields /\ beam' = beam
  BY DEF vars
<1>2. BeamOK'
  BY <1>1 DEF CurrentInv, BeamOK, BeamPushed
<1>3. \A l : CurrentsOK(l) => CurrentsOK(l)'
  BY <1>1 DEF CurrentsOK, LastCurrents
<1>4. pc # "step" => SourcesOK' /\ RhoIonsOK'
  BY <1>1 DEF CurrentInv, SourcesOK, RhoIonsOK
<1> QED
  BY <1>1, <1>2, <1>3, <1>4 DEF CurrentInv

LEMMA CurrentNext ==
    ASSUME TiledOnOneLevel, BeamInPatch, SliceInv, SliceInv', CurrentInv, [Next]_vars
    PROVE  CurrentInv'
<1>1. CASE ResetAllQuantities
  BY <1>1, ResetAllCurrents
<1>2. CASE Clear
  BY <1>2, ClearCurrents
<1>3. CASE Deposit
  BY <1>3, DepositCurrents
<1>4. CASE SolvePsi
  BY <1>4, SolvePsiCurrents
<1>5. CASE SolveEzBz
  BY <1>5, SolveEzBzCurrents
<1>6. CASE ExplicitSolveBxBy
  BY <1>6, ExplicitCurrents
<1>7. CASE Guess
  BY <1>7, GuessCurrents
<1>8. CASE Predict
  BY <1>8, PredictCurrents
<1>9. CASE Correct
  BY <1>9, CorrectCurrents
<1>10. CASE ResetParticles
  BY <1>10, ResetCurrents
<1>11. CASE PushBeam
  BY <1>11, PushBeamCurrents
<1>12. CASE Ionize
  BY <1>12, IonizeCurrents
<1>13. CASE ShiftSlices
  BY <1>13, ShiftCurrents
<1>14. CASE Done \/ UNCHANGED vars
  BY <1>14, CurrentStutter DEF Done
<1> QED
  BY <1>1, <1>2, <1>3, <1>4, <1>5, <1>6, <1>7, <1>8, <1>9, <1>10, <1>11, <1>12, <1>13, <1>14
     DEF Next

LEMMA CurrentInvariant ==
    TiledOnOneLevel /\ BeamInPatch => (Spec => [](SliceInv /\ CurrentInv))
<1> SUFFICES ASSUME TiledOnOneLevel, BeamInPatch
             PROVE  Spec => [](SliceInv /\ CurrentInv)
  OBVIOUS
<1>1. Init => SliceInv /\ CurrentInv
  BY InitInv, CurrentInit
<1>2. SliceInv /\ CurrentInv /\ [Next]_vars => (SliceInv /\ CurrentInv)'
  BY SliceNext, CurrentNext
<1> QED
  BY <1>1, <1>2, PTL DEF Spec

\* What the properties call the currents of a slice.
LEMMA CurrentsAre ==
    /\ \A s, l : PlasmaOf(s, l) = PlasmaIn(conf, s, l)
    /\ \A s, l : BeamOf(s, l) = BeamIn(conf, step, s, l)
    /\ \A s, l : TransverseBeamOf(s, l) = TransverseIn(conf, step, s, l)
    /\ \A s, l : GridOf(s, l) = GridIn(conf, s, l)
<1>1. \A s, l : PlasmaOf(s, l) = PlasmaIn(conf, s, l)
  BY SolvedIs, PushesIs DEF PlasmaOf, PlasmaIn
<1>2. \A s, l : BeamOf(s, l) = BeamIn(conf, step, s, l)
  BY DEF BeamOf, BeamIn
<1>3. \A s, l : TransverseBeamOf(s, l) = TransverseIn(conf, step, s, l)
  BY <1>2 DEF TransverseBeamOf, TransverseIn
<1>4. \A s, l : GridOf(s, l) = GridIn(conf, s, l)
  BY DEF GridOf, GridIn
<1> QED
  BY <1>1, <1>2, <1>3, <1>4

\* The currents of the level being solved, once they are there.
LEMMA CurrentsNow ==
    ASSUME SliceInv, CurrentInv, pc # "step"
    PROVE  /\ CurrentsHold(fields, conf, step, lev, "Previous1", isl + 1)
           /\ pc \in Deposited => CurrentsHold(fields, conf, step, lev, "This", isl)
           /\ SliceOf(conf, isl, lev)
<1>1. /\ lev \in Levels /\ Ahead(conf, isl, lev) /\ SliceOf(conf, isl, lev)
  BY LevIsAhead DEF SliceInv, TypeOK
<1>2. CurrentsOK(lev)
  BY <1>1 DEF CurrentInv
<1>3. pc \in Deposited => LastCurrents(lev) = isl /\ pc \notin {"deposit", "psi"}
  BY DEF LastCurrents, Deposited, Finished
<1> QED
  BY <1>1, <1>2, <1>3 DEF CurrentsOK

\* Psi is solved for with the electrons and ions of the slice alone, in every
\* slice of every step: what was in the arrays before is gone.  The plasmas
\* are on level 0, where the ions are put on the grid of their level.
THEOREM PsiSourceIsExact ==
    TiledOnOneLevel /\ BeamInPatch /\ (\A c \in Configs : c.plasmas \subseteq {0}) =>
        (Spec => []PsiSource)
<1> SUFFICES ASSUME TiledOnOneLevel, BeamInPatch, \A c \in Configs : c.plasmas \subseteq {0}
             PROVE  Spec => []PsiSource
  OBVIOUS
<1>1. SliceInv /\ CurrentInv => PsiSource
  <2> SUFFICES ASSUME SliceInv, CurrentInv, pc = "psi"
               PROVE  /\ Now("This", "rho") = PlasmaOf(isl, lev) (+) IonsOf(lev)
                      /\ Now("This", "jz") = PlasmaOf(isl, lev)
    BY DEF PsiSource
  <2>1. /\ This(fields, lev, {"jx", "jy", "jz"}, PlasmaIn(conf, isl, lev))
        /\ This(fields, lev, {"rho"}, PlasmaIn(conf, isl, lev) (+) IonsIn(conf, lev))
    BY DEF CurrentInv, SourcesOK
  <2>2. IonsOf(lev) = IonsIn(conf, lev)
    <3>1. conf.plasmas \subseteq {0}
      BY DEF SliceInv, TypeOK
    <3> QED
      BY <3>1 DEF IonsOf, IonsIn
  <2> QED
    BY <2>1, <2>2, CurrentsAre DEF This, Now
<1> QED
  BY <1>1, CurrentInvariant, PTL

\* Ez and Bz are solved for with the plasma and the beam of the slice, each
\* once, the beam before its push of this step.
THEOREM EzBzSourceIsExact ==
    TiledOnOneLevel /\ BeamInPatch => (Spec => []EzBzSource)
<1> SUFFICES ASSUME TiledOnOneLevel, BeamInPatch
             PROVE  Spec => []EzBzSource
  OBVIOUS
<1>1. SliceInv /\ CurrentInv => EzBzSource
  <2> SUFFICES ASSUME SliceInv, CurrentInv, pc = "ezbz", NEW d \in {"jx", "jy"}
               PROVE  Now("This", d) = PlasmaOf(isl, lev) (+) TransverseBeamOf(isl, lev)
    BY DEF EzBzSource
  <2>1. CurrentsHold(fields, conf, step, lev, "This", isl) /\ SliceOf(conf, isl, lev)
    BY CurrentsNow DEF Deposited
  <2> QED
    BY <2>1, CurrentsAre DEF CurrentsHold, Now
<1> QED
  BY <1>1, CurrentInvariant, PTL

\* Bx and By come from the currents of the slice before, of this one and of
\* the next, where only the plasma of the current iteration is.
THEOREM BxBySourceIsExact ==
    TiledOnOneLevel /\ BeamInPatch => (Spec => []BxBySource)
<1> SUFFICES ASSUME TiledOnOneLevel, BeamInPatch
             PROVE  Spec => []BxBySource
  OBVIOUS
<1>1. SliceInv /\ CurrentInv => BxBySource
  <2> DEFINE P == PlasmaIn(conf, isl, lev)
             B == BeamIn(conf, step, isl, lev)
             G == GridIn(conf, isl, lev)
             N == NextPlasmaIn(conf, lev, isl, iter)
  <2> SUFFICES ASSUME SliceInv, CurrentInv, pc = "correct"
               PROVE  /\ Now("This", "jz") =
                             PlasmaOf(isl, lev) (+) BeamOf(isl, lev) (+) GridOf(isl, lev)
                      /\ \A c \in {"jx", "jy"} :
                             /\ Now("Next", c) =
                                    (IF lev \in conf.plasmas
                                     THEN PlasmaCurrent(lev, Pushes(isl, lev), iter)
                                     ELSE EmptyBag) (+) TransverseBeamOf(isl - 1, lev)
                             /\ Now("Previous1", c) =
                                    IF Solved(isl + 1, lev)
                                    THEN PlasmaOf(isl + 1, lev)
                                             (+) TransverseBeamOf(isl + 1, lev)
                                    ELSE EmptyBag
    BY DEF BxBySource
  <2>1. /\ CurrentsHold(fields, conf, step, lev, "Previous1", isl + 1) /\ SourcesOK
        /\ ~conf.explicit /\ isl \in Int
    BY CurrentsNow DEF SliceInv, ControlOK, CurrentInv, TypeOK, Slices
  <2>2. Now("This", "jz") = (P (+) B) (+) G
    <3>1. LongitudinalIs(fields, conf, step, lev, isl)
      BY <2>1 DEF SourcesOK, Deposited, Finished
    <3>2. Now("This", "jz") = P (+) (B (+) G)
      BY <3>1 DEF LongitudinalIs, This, Now
    <3>3. IsABag(P) /\ IsABag(B) /\ IsABag(G)
      BY CurrentsAreBags
    <3> HIDE DEF P, B, G
    <3> QED
      BY <3>2, <3>3, SumAssociates
  <2>3. N = IF lev \in conf.plasmas THEN PlasmaCurrent(lev, Pushes(isl, lev), iter) ELSE EmptyBag
    <3>1. CountOf(conf, isl, lev) \in Nat
      BY <2>1, CountNat
    <3>2. Pushes(isl, lev) = CountOf(conf, isl, lev)
      BY <2>1, <3>1, PushesIs
    <3> QED
      BY <3>2 DEF NextPlasmaIn
  <2>4. \A c \in {"jx", "jy"} : Now("Next", c) = N (+) TransverseIn(conf, step, isl - 1, lev)
    BY <2>1 DEF SourcesOK, Now
  <2>5. \A c \in {"jx", "jy"} :
            Now("Previous1", c) = IF SliceOf(conf, isl + 1, lev)
                                  THEN PlasmaIn(conf, isl + 1, lev)
                                           (+) TransverseIn(conf, step, isl + 1, lev)
                                  ELSE EmptyBag
    BY <2>1 DEF CurrentsHold, Now
  <2> HIDE DEF N
  <2> QED
    BY <2>2, <2>3, <2>4, <2>5, CurrentsAre, SolvedIs
<1> QED
  BY <1>1, CurrentInvariant, PTL

\* The explicit solver reads the electrons alone in rho, the beam alone in
\* the slices before and after, and both currents in this one.
THEOREM ExplicitSourceIsExact ==
    TiledOnOneLevel /\ BeamInPatch => (Spec => []ExplicitSource)
<1> SUFFICES ASSUME TiledOnOneLevel, BeamInPatch
             PROVE  Spec => []ExplicitSource
  OBVIOUS
<1>1. SliceInv /\ CurrentInv => ExplicitSource
  <2> SUFFICES ASSUME SliceInv, CurrentInv, pc = "explicit"
               PROVE  ExplicitSource
    BY DEF ExplicitSource
  <2>1. /\ CurrentsHold(fields, conf, step, lev, "Previous1", isl + 1)
        /\ CurrentsHold(fields, conf, step, lev, "This", isl)
        /\ SliceOf(conf, isl, lev) /\ conf.explicit /\ SourcesOK
    BY CurrentsNow DEF SliceInv, ControlOK, CurrentInv, Deposited
  <2>2. Now("This", "rho") = PlasmaOf(isl, lev)
    BY <2>1, CurrentsAre DEF SourcesOK, This, Now
  <2>3. /\ Now("This", "jz_beam") = BeamOf(isl, lev) (+) GridOf(isl, lev)
        /\ Now("This", "jz") = PlasmaOf(isl, lev) (+) Now("This", "jz_beam")
    <3>1. LongitudinalIs(fields, conf, step, lev, isl)
      BY <2>1 DEF SourcesOK, Deposited, Finished
    <3> QED
      BY <3>1, CurrentsAre DEF LongitudinalIs, This, Now
  <2>4. \A c \in {"jxx", "jxy", "jyy"} : Now("This", c) = PlasmaOf(isl, lev)
    BY <2>1, CurrentsAre DEF SourcesOK, This, Now, Squared
  <2>5. \A c \in {"jx_beam", "jy_beam"} :
            /\ Now("This", c) = TransverseBeamOf(isl, lev)
            /\ Now("Next", c) = TransverseBeamOf(isl - 1, lev)
            /\ Now("Previous1", c) = IF Solved(isl + 1, lev)
                                     THEN TransverseBeamOf(isl + 1, lev) ELSE EmptyBag
    BY <2>1, CurrentsAre, SolvedIs DEF SourcesOK, CurrentsHold, BeamNames, Now
  <2> QED
    BY <2>2, <2>3, <2>4, <2>5 DEF ExplicitSource
<1> QED
  BY <1>1, CurrentInvariant, PTL
=============================================================================
