------------------------ MODULE PlasmaParticlesProofs ------------------------
(***************************************************************************)
(* Proofs about PlasmaParticles, for any box, number of slices and steps,  *)
(* and for pushes and losses of any size: valid particles stay in the box, *)
(* invalid ones stay out of the step, every step starts alike, and field   *)
(* ionization adds one electron for every level, and no charge.            *)
(***************************************************************************)
EXTENDS PlasmaParticles, SumLemmas

-----------------------------------------------------------------------------
(* Cells                                                                   *)

\* The cells of S up to c.
UpTo(S, c) == {d \in S : d <= c}

LEMMA CellsAreFinite ==
    ASSUME NEW S \in SUBSET Cells
    PROVE  /\ S \subseteq Nat
           /\ IsFiniteSet(S)
           /\ Cardinality(S) \in Nat
<1>1. NX \in Nat
  BY PlasmaParticlesAssumption
<1>2. IsFiniteSet(Cells)
  BY <1>1, FS_Interval DEF Cells
<1>3. IsFiniteSet(S)
  BY <1>2, FS_Subset
<1> QED
  BY <1>1, <1>3, FS_CardinalityType DEF Cells

\* A cell of S above c that has none of S between them is one more.
LEMMA NextCell ==
    ASSUME NEW S \in SUBSET Cells, NEW c \in Int, NEW e \in S, e > c,
           \A d \in S : d > c => d >= e
    PROVE  Cardinality(UpTo(S, e)) = Cardinality(UpTo(S, c)) + 1
<1>1. S \subseteq Int /\ IsFiniteSet(S)
  BY CellsAreFinite
<1>2. UpTo(S, e) = UpTo(S, c) \union {e}
  <2>1. \A d \in S : d <= e <=> d <= c \/ d = e
    BY <1>1
  <2> QED
    BY <2>1 DEF UpTo
<1>3. e \notin UpTo(S, c)
  BY <1>1 DEF UpTo
<1>4. IsFiniteSet(UpTo(S, c))
  BY <1>1, FS_Subset DEF UpTo
<1> QED
  BY <1>2, <1>3, <1>4, FS_AddElement

\* There is a cell for every slot of InitParticles.
LEMMA NthCellExists ==
    ASSUME NEW S \in SUBSET Cells, NEW n \in 1 .. Cardinality(S)
    PROVE  \E c \in S : Cardinality(UpTo(S, c)) = n
<1> DEFINE Missing == {k \in 1 .. Cardinality(S) : \A c \in S : Cardinality(UpTo(S, c)) # k}
<1>1. S \subseteq Nat /\ IsFiniteSet(S) /\ Cardinality(S) \in Nat
  BY CellsAreFinite
<1>2. SUFFICES ASSUME Missing # {} PROVE FALSE
  OBVIOUS
<1>3. Missing \in SUBSET Nat
  OBVIOUS
<1> HIDE DEF Missing
<1>4. \E k \in Missing : \A y \in Missing : k <= y
  BY <1>2, <1>3, LeastNumber
<1>5. PICK k \in Missing : \A y \in Missing : k <= y
  BY <1>4
<1>6. k \in 1 .. Cardinality(S)
  BY DEF Missing
\* The cells before the missing one, and where they end.
<1>7. \E c \in Int : Cardinality(UpTo(S, c)) = k - 1
  <2>1. CASE k = 1
    <3>1. \A d \in S : ~(d <= -1)
      BY <1>1
    <3>2. UpTo(S, -1) = {}
      BY <3>1 DEF UpTo
    <3> QED
      BY <2>1, <3>2, FS_EmptySet
  <2>2. CASE k # 1
    <3>1. k - 1 \in 1 .. Cardinality(S) /\ k - 1 \notin Missing
      BY <1>1, <1>5, <1>6, <2>2 DEF Missing
    <3>2. \E c \in S : Cardinality(UpTo(S, c)) = k - 1
      BY <3>1 DEF Missing
    <3> QED
      BY <1>1, <3>2
  <2> QED
    BY <2>1, <2>2
<1>8. PICK c \in Int : Cardinality(UpTo(S, c)) = k - 1
  BY <1>7
<1> DEFINE Above == {d \in S : d > c}
<1>9. Above # {}
  <2>1. SUFFICES ASSUME Above = {} PROVE FALSE
    OBVIOUS
  <2>2. \A d \in S : d <= c
    BY <1>1, <2>1
  <2>3. UpTo(S, c) = S
    BY <2>2 DEF UpTo
  <2> QED
    BY <1>1, <1>6, <1>8, <2>3
<1>10. Above \in SUBSET Nat
  BY <1>1
<1>11. PICK e \in Above : \A d \in Above : e <= d
  BY <1>9, <1>10, LeastNumber
<1>12. Cardinality(UpTo(S, e)) = Cardinality(UpTo(S, c)) + 1
  <2>1. e \in S /\ e > c /\ e \in Int
    BY <1>1
  <2>2. \A d \in S : d > c => d >= e
    BY <1>1, <1>11, <2>1
  <2> QED
    BY <1>8, <2>1, <2>2, NextCell
<1>13. Cardinality(UpTo(S, e)) = k
  BY <1>1, <1>6, <1>8, <1>12
<1> QED
  BY <1>11, <1>13 DEF Missing

LEMMA NthCellInside ==
    ASSUME NEW S \in SUBSET Cells, NEW n \in 1 .. Cardinality(S)
    PROVE  NthCell(S, n) \in Cells
<1>1. \E c \in S : Cardinality({d \in S : d <= c}) = n
  BY NthCellExists DEF UpTo
<1>2. NthCell(S, n) \in S
  BY <1>1 DEF NthCell
<1> QED
  BY <1>2

-----------------------------------------------------------------------------
(* One particle                                                            *)

Particle == [valid : BOOLEAN, x0 : Cells, x : Int, prev : Int, w : Int, lev : Nat]

\* The predictor-corrector solver is used in boxes that particles leave.
Bounded == conf.periodic => conf.explicit

\* A valid particle is in the box, and so is its x_prev in a box that
\* particles leave; an invalid one has no weight.
ParticleOK(q) ==
    /\ q \in Particle
    /\ Bounded /\ q.valid => q.x \in Cells /\ (~conf.periodic => q.prev \in Cells)
    /\ ~q.valid => q.w = NoStep

\* What a step may do with a particle other than reset it.
Kept(q, r) ==
    /\ ParticleOK(r)
    /\ r.x0 = q.x0
    /\ ~q.valid => ~r.valid /\ r.w = NoStep /\ r.lev = q.lev

LEMMA FreshOK ==
    ASSUME NEW c \in Cells, NEW lev \in Nat, NEW s \in Int
    PROVE  ParticleOK(Fresh(c, lev, s)) /\ Fresh(c, lev, s).x0 = c
<1>1. 0 \in Cells /\ c \in Int
  BY PlasmaParticlesAssumption DEF Cells
<1> QED
  BY <1>1 DEF Fresh, ParticleOK, Particle

LEMMA InsideIsCell ==
    ASSUME NEW y \in Int
    PROVE  Inside(y) \in Cells /\ Inside(y) \in Int
  BY PlasmaParticlesAssumption DEF Inside, Cells

LEMMA InvalidOK ==
    ASSUME NEW q \in Particle
    PROVE  Kept(q, Invalid(q))
<1> DEFINE light == [q EXCEPT !.w = NoStep]
           r == [light EXCEPT !.valid = FALSE]
<1>1. light \in Particle /\ light.x0 = q.x0 /\ light.lev = q.lev /\ light.w = NoStep
  BY DEF Particle, NoStep
<1> HIDE DEF light
<1>2. r \in Particle /\ r.x0 = q.x0 /\ r.lev = q.lev /\ r.w = NoStep /\ ~r.valid
  BY <1>1 DEF Particle
<1>3. Invalid(q) = r
  BY DEF Invalid, light
<1> HIDE DEF r
<1>4. Kept(q, r)
  BY <1>2 DEF Kept, ParticleOK
<1> QED
  BY <1>3, <1>4

LEMMA PushOK ==
    ASSUME NEW q, ParticleOK(q), NEW d \in Int
    PROVE  Kept(q, Push(q, d))
<1> DEFINE y == q.x + d
           AtY == [q EXCEPT !.x = Inside(y)]
<1>1. q \in Particle /\ y \in Int
  BY DEF ParticleOK, Particle
<1>2. Inside(y) \in Cells /\ Inside(y) \in Int
  BY <1>1, InsideIsCell
<1>3. AtY \in Particle /\ AtY.x0 = q.x0 /\ AtY.lev = q.lev /\ AtY.valid = q.valid /\ AtY.x = Inside(y)
  BY <1>1, <1>2 DEF Particle
<1>4. CASE ~q.valid
  BY <1>4 DEF Push, Kept, ParticleOK
<1>5. CASE q.valid /\ Leaves(y)
  <2>1. Push(q, d) = Invalid(AtY)
    BY <1>5 DEF Push
  <2> HIDE DEF AtY, y
  <2>2. Kept(AtY, Invalid(AtY))
    BY <1>3, InvalidOK
  <2> QED
    BY <1>3, <1>5, <2>1, <2>2 DEF Kept
<1>6. CASE q.valid /\ ~Leaves(y)
  <2>1. Push(q, d) = [AtY EXCEPT !.prev = y]
    BY <1>6 DEF Push
  <2>2. ~conf.periodic => y \in Cells
    BY <1>2, <1>6 DEF Leaves
  <2> HIDE DEF AtY, y
  <2> QED
    BY <1>1, <1>2, <1>3, <1>6, <2>1, <2>2 DEF Kept, ParticleOK, Particle
<1> QED
  BY <1>4, <1>5, <1>6

LEMMA PushTemporarilyOK ==
    ASSUME NEW q, ParticleOK(q), NEW d \in Int
    PROVE  Kept(q, PushTemporarily(q, d))
<1> DEFINE y == q.prev + d
           AtY == [q EXCEPT !.x = Inside(y)]
<1>1. q \in Particle /\ y \in Int
  BY DEF ParticleOK, Particle
<1>2. Inside(y) \in Cells /\ Inside(y) \in Int
  BY <1>1, InsideIsCell
<1>3. /\ AtY \in Particle /\ AtY.x0 = q.x0 /\ AtY.lev = q.lev /\ AtY.valid = q.valid
      /\ AtY.x = Inside(y) /\ AtY.prev = q.prev
  BY <1>1, <1>2 DEF Particle
<1>4. CASE ~q.valid
  BY <1>4 DEF PushTemporarily, Kept, ParticleOK
<1>5. CASE q.valid /\ Leaves(y)
  <2>1. PushTemporarily(q, d) = Invalid(AtY)
    BY <1>5 DEF PushTemporarily
  <2> HIDE DEF AtY, y
  <2>2. Kept(AtY, Invalid(AtY))
    BY <1>3, InvalidOK
  <2> QED
    BY <1>3, <1>5, <2>1, <2>2 DEF Kept
<1>6. CASE q.valid /\ ~Leaves(y)
  <2>1. PushTemporarily(q, d) = AtY
    BY <1>6 DEF PushTemporarily
  <2> HIDE DEF AtY, y
  <2> QED
    BY <1>2, <1>3, <1>6, <2>1 DEF Kept, ParticleOK
<1> QED
  BY <1>4, <1>5, <1>6

\* In a box that particles leave, x_prev is a position in the box.
LEMMA ResetPositionOK ==
    ASSUME NEW q, ParticleOK(q), ~conf.explicit
    PROVE  Kept(q, ResetPosition(q))
  BY DEF ResetPosition, Kept, ParticleOK, Particle, Bounded

\* The electron of a valid ion; that ion one level up.
LEMMA ElectronOK ==
    ASSUME NEW q, ParticleOK(q), q.valid
    PROVE  ParticleOK(ElectronOf(q))
  BY DEF ElectronOf, ParticleOK, Particle

LEMMA IonizedOK ==
    ASSUME NEW q, ParticleOK(q), q.valid
    PROVE  Kept(q, [q EXCEPT !.lev = @ + 1])
  BY DEF Kept, ParticleOK, Particle

-----------------------------------------------------------------------------
(* Tiles                                                                   *)

\* A tile that starts with the particles of the cells of S.
TileOK(tile, S) ==
    /\ tile \in Seq(Particle)
    /\ Cardinality(S) <= Len(tile)
    /\ \A k \in 1 .. Cardinality(S) : tile[k].x0 = NthCell(S, k)
    /\ \A k \in DOMAIN tile : ParticleOK(tile[k])

\* A step that does something with each particle.
KeptTile(tile, new) ==
    /\ DOMAIN new = DOMAIN tile
    /\ \A k \in DOMAIN tile : Kept(tile[k], new[k])

LEMMA KeptTileOK ==
    ASSUME NEW tile, NEW S \in SUBSET Cells, TileOK(tile, S),
           NEW new, new = [k \in DOMAIN tile |-> new[k]], KeptTile(tile, new)
    PROVE  TileOK(new, S) /\ Len(new) = Len(tile)
<1>1. tile \in Seq(Particle) /\ Len(tile) \in Nat /\ DOMAIN tile = 1 .. Len(tile)
  BY DEF TileOK
<1>2. \A k \in 1 .. Len(tile) : ParticleOK(new[k]) /\ new[k].x0 = tile[k].x0
  BY <1>1 DEF KeptTile, Kept
<1>3. \A k \in 1 .. Len(tile) : new[k] \in Particle
  BY <1>2 DEF ParticleOK
<1>4. new \in Seq(Particle) /\ Len(new) = Len(tile) /\ DOMAIN new = 1 .. Len(tile)
  BY <1>1, <1>3
<1>5. Cardinality(S) \in Nat
  BY CellsAreFinite
<1>6. TileOK(new, S)
  BY <1>1, <1>2, <1>4, <1>5 DEF TileOK
<1> QED
  BY <1>4, <1>6
LEMMA DiscardedOK ==
    ASSUME NEW tile, NEW S \in SUBSET Cells, TileOK(tile, S), NEW lost
    PROVE  KeptTile(tile, Discarded(tile, lost))
<1>1. ASSUME NEW k \in DOMAIN tile PROVE Kept(tile[k], Discarded(tile, lost)[k])
  <2>1. ParticleOK(tile[k])
    BY DEF TileOK
  <2>2. CASE k \in lost
    <3>1. Kept(tile[k], Invalid(tile[k]))
      BY <2>1, InvalidOK DEF ParticleOK
    <3> QED
      BY <2>2, <3>1 DEF Discarded
  <2>3. CASE k \notin lost
    BY <2>1, <2>3 DEF Discarded, Kept, ParticleOK
  <2> QED
    BY <2>2, <2>3
<1> QED
  BY <1>1 DEF KeptTile, Discarded

\* The tile of the particles of the cells of S at the start of step s.
FreshTile(S, lev, s) == [k \in 1 .. Cardinality(S) |-> Fresh(NthCell(S, k), lev, s)]

LEMMA FreshTileOK ==
    ASSUME NEW S \in SUBSET Cells, NEW lev \in Nat, NEW s \in Int
    PROVE  TileOK(FreshTile(S, lev, s), S) /\ Len(FreshTile(S, lev, s)) = Cardinality(S)
<1> DEFINE tile == FreshTile(S, lev, s)
<1>1. Cardinality(S) \in Nat
  BY CellsAreFinite
<1>2. ASSUME NEW k \in 1 .. Cardinality(S)
      PROVE  ParticleOK(tile[k]) /\ tile[k].x0 = NthCell(S, k)
  <2>1. NthCell(S, k) \in Cells
    BY NthCellInside
  <2>2. tile[k] = Fresh(NthCell(S, k), lev, s)
    BY DEF FreshTile
  <2> QED
    BY <2>1, <2>2, FreshOK
<1>3. \A k \in 1 .. Cardinality(S) : tile[k] \in Particle
  BY <1>2 DEF ParticleOK
<1>4. tile \in Seq(Particle) /\ Len(tile) = Cardinality(S) /\ DOMAIN tile = 1 .. Cardinality(S)
  BY <1>1, <1>3 DEF FreshTile
<1> QED
  BY <1>1, <1>2, <1>4 DEF TileOK

\* The reset of a tile gives that tile, whatever has become of its particles.
LEMMA ResetInitialIsFresh ==
    ASSUME NEW tile, NEW S \in SUBSET Cells, TileOK(tile, S), NEW lev
    PROVE  ResetInitial(tile, Cardinality(S), lev) = FreshTile(S, lev, step)
<1>1. \A k \in 1 .. Cardinality(S) : ResetSize(tile, Cardinality(S))[k].x0 = NthCell(S, k)
  BY DEF TileOK, ResetSize
<1>2. DOMAIN ResetSize(tile, Cardinality(S)) = 1 .. Cardinality(S)
  BY DEF ResetSize
<1> QED
  BY <1>1, <1>2 DEF ResetInitial, FreshTile
\* Particles added behind a tile, as many as new has.
LEMMA AppendedOK ==
    ASSUME NEW tile, NEW S \in SUBSET Cells, TileOK(tile, S),
           NEW n \in Nat, NEW new \in [1 .. n -> Particle],
           \A k \in 1 .. n : ParticleOK(new[k])
    PROVE  /\ TileOK(tile \o new, S)
           /\ \A k \in DOMAIN tile : (tile \o new)[k] = tile[k]
<1>1. new \in Seq(Particle) /\ Len(new) = n
  OBVIOUS
<1>2. tile \in Seq(Particle) /\ Len(tile) \in Nat /\ DOMAIN tile = 1 .. Len(tile)
  BY DEF TileOK
<1> DEFINE both == tile \o new
<1>3. both \in Seq(Particle) /\ Len(both) = Len(tile) + n /\ DOMAIN both = 1 .. Len(tile) + n
  BY <1>1, <1>2
<1>4. \A k \in 1 .. Len(tile) : both[k] = tile[k]
  BY <1>1, <1>2
<1>5. \A k \in 1 .. n : both[Len(tile) + k] = new[k]
  BY <1>1, <1>2
<1>6. ASSUME NEW k \in 1 .. Len(tile) + n PROVE ParticleOK(both[k])
  <2>1. CASE k <= Len(tile)
    <3>1. k \in 1 .. Len(tile)
      BY <1>2, <2>1
    <3> QED
      BY <1>2, <1>4, <3>1 DEF TileOK
  <2>2. CASE ~(k <= Len(tile))
    <3>1. k - Len(tile) \in 1 .. n /\ Len(tile) + (k - Len(tile)) = k
      BY <1>2, <2>2
    <3>2. both[k] = new[k - Len(tile)]
      BY <1>5, <3>1
    <3> QED
      BY <3>1, <3>2
  <2> QED
    BY <2>1, <2>2
<1> HIDE DEF both
<1>7. Cardinality(S) \in Nat
  BY CellsAreFinite
<1>8. TileOK(both, S)
  BY <1>2, <1>3, <1>4, <1>6, <1>7 DEF TileOK
<1> QED
  BY <1>2, <1>4, <1>8 DEF both

-----------------------------------------------------------------------------
(* The inductive invariant                                                 *)

Phases == {"step", "push", "deposit", "predict", "correct", "reset", "ionize"}

Inv ==
    /\ conf \in Configs
    /\ pc \in Phases
    /\ step \in Nat
    /\ pc \in {"predict", "correct", "reset"} => ~conf.explicit
    /\ TileOK(ions, conf.ions) /\ Len(ions) = Cardinality(conf.ions)
    /\ TileOK(elecs, conf.electrons)

LEMMA ConfigTypes ==
    ASSUME conf \in Configs
    PROVE  /\ conf.ions \in SUBSET Cells /\ conf.electrons \in SUBSET Cells
           /\ conf.initIonLev \in Nat
  BY PlasmaParticlesAssumption DEF Configuration

\* What the actions between two resets do: both tiles are kept, particle by
\* particle, but for new electrons.
Keeps ==
    /\ KeptTile(ions, ions')
    /\ ions' = [k \in DOMAIN ions |-> ions'[k]]
    /\ DOMAIN elecs \subseteq DOMAIN elecs'
    /\ \A k \in DOMAIN elecs : Kept(elecs[k], elecs'[k])
    /\ TileOK(elecs', conf.electrons)

LEMMA KeepsFromTiles ==
    ASSUME conf \in Configs, TileOK(elecs, conf.electrons),
           KeptTile(ions, ions'), ions' = [k \in DOMAIN ions |-> ions'[k]],
           KeptTile(elecs, elecs'), elecs' = [k \in DOMAIN elecs |-> elecs'[k]]
    PROVE  Keeps
<1>1. TileOK(elecs', conf.electrons)
  BY ConfigTypes, KeptTileOK
<1> QED
  BY <1>1 DEF Keeps, KeptTile

LEMMA PushAllKeeps ==
    ASSUME Inv, PushAll(Push)
    PROVE  Keeps
<1>1. PICK d \in [DOMAIN ions -> -MaxMove .. MaxMove], e \in [DOMAIN elecs -> -MaxMove .. MaxMove] :
          /\ ions' = [k \in DOMAIN ions |-> Push(ions[k], d[k])]
          /\ elecs' = [k \in DOMAIN elecs |-> Push(elecs[k], e[k])]
  BY DEF PushAll
<1>2. -MaxMove .. MaxMove \subseteq Int
  OBVIOUS
<1>3. ASSUME NEW k \in DOMAIN ions PROVE Kept(ions[k], ions'[k])
  BY <1>1, <1>2, PushOK DEF Inv, TileOK
<1>4. ASSUME NEW k \in DOMAIN elecs PROVE Kept(elecs[k], elecs'[k])
  BY <1>1, <1>2, PushOK DEF Inv, TileOK
<1>5. ions' = [k \in DOMAIN ions |-> ions'[k]] /\ elecs' = [k \in DOMAIN elecs |-> elecs'[k]]
  BY <1>1
<1>6. KeptTile(ions, ions') /\ KeptTile(elecs, elecs')
  BY <1>1, <1>3, <1>4 DEF KeptTile
<1> QED
  BY <1>5, <1>6, KeepsFromTiles DEF Inv

LEMMA PushAllTemporarilyKeeps ==
    ASSUME Inv, PushAll(PushTemporarily)
    PROVE  Keeps
<1>1. PICK d \in [DOMAIN ions -> -MaxMove .. MaxMove], e \in [DOMAIN elecs -> -MaxMove .. MaxMove] :
          /\ ions' = [k \in DOMAIN ions |-> PushTemporarily(ions[k], d[k])]
          /\ elecs' = [k \in DOMAIN elecs |-> PushTemporarily(elecs[k], e[k])]
  BY DEF PushAll
<1>2. -MaxMove .. MaxMove \subseteq Int
  OBVIOUS
<1>3. ASSUME NEW k \in DOMAIN ions PROVE Kept(ions[k], ions'[k])
  BY <1>1, <1>2, PushTemporarilyOK DEF Inv, TileOK
<1>4. ASSUME NEW k \in DOMAIN elecs PROVE Kept(elecs[k], elecs'[k])
  BY <1>1, <1>2, PushTemporarilyOK DEF Inv, TileOK
<1>5. ions' = [k \in DOMAIN ions |-> ions'[k]] /\ elecs' = [k \in DOMAIN elecs |-> elecs'[k]]
  BY <1>1
<1>6. KeptTile(ions, ions') /\ KeptTile(elecs, elecs')
  BY <1>1, <1>3, <1>4 DEF KeptTile
<1> QED
  BY <1>5, <1>6, KeepsFromTiles DEF Inv

LEMMA DepositAllKeeps ==
    ASSUME Inv, DepositAll
    PROVE  Keeps
<1>1. PICK lostIons \in SUBSET ValidOf(ions), lostElecs \in SUBSET ValidOf(elecs) :
          ions' = Discarded(ions, lostIons) /\ elecs' = Discarded(elecs, lostElecs)
  BY DEF DepositAll
<1>2. KeptTile(ions, ions') /\ KeptTile(elecs, elecs')
  BY <1>1, ConfigTypes, DiscardedOK DEF Inv
<1>3. ions' = [k \in DOMAIN ions |-> ions'[k]] /\ elecs' = [k \in DOMAIN elecs |-> elecs'[k]]
  BY <1>1 DEF Discarded
<1> QED
  BY <1>2, <1>3, KeepsFromTiles DEF Inv

LEMMA ResetParticlesKeeps ==
    ASSUME Inv, ResetParticles
    PROVE  Keeps
<1>1. ~conf.explicit
  BY DEF Inv, ResetParticles
<1>2. ASSUME NEW k \in DOMAIN ions PROVE Kept(ions[k], ions'[k])
  BY <1>1, ResetPositionOK DEF Inv, TileOK, ResetParticles
<1>3. ASSUME NEW k \in DOMAIN elecs PROVE Kept(elecs[k], elecs'[k])
  BY <1>1, ResetPositionOK DEF Inv, TileOK, ResetParticles
<1>4. ions' = [k \in DOMAIN ions |-> ions'[k]] /\ elecs' = [k \in DOMAIN elecs |-> elecs'[k]]
  BY DEF ResetParticles
<1>5. KeptTile(ions, ions') /\ KeptTile(elecs, elecs')
  BY <1>2, <1>3 DEF KeptTile, ResetParticles
<1> QED
  BY <1>4, <1>5, KeepsFromTiles DEF Inv

\* The electrons are those of valid ions, and go behind all others.
LEMMA DoFieldIonizationKeeps ==
    ASSUME Inv, DoFieldIonization
    PROVE  Keeps
<1>1. PICK mask \in SUBSET Ionizable : \E slots \in Orders(mask) :
          /\ ions' = [k \in DOMAIN ions |-> IF k \in mask THEN [ions[k] EXCEPT !.lev = @ + 1]
                                             ELSE ions[k]]
          /\ elecs' = elecs \o [n \in DOMAIN slots |-> ElectronOf(ions[slots[n]])]
  BY DEF DoFieldIonization
<1>2. PICK slots \in Orders(mask) :
          elecs' = elecs \o [n \in DOMAIN slots |-> ElectronOf(ions[slots[n]])]
  BY <1>1
<1>3. /\ mask \subseteq DOMAIN ions /\ \A k \in mask : ions[k].valid
      /\ \A k \in DOMAIN ions : ParticleOK(ions[k])
      /\ TileOK(elecs, conf.electrons)
      /\ conf.electrons \in SUBSET Cells
  BY ConfigTypes DEF Ionizable, ValidOf, Inv, TileOK
<1>4. ASSUME NEW k \in DOMAIN ions PROVE Kept(ions[k], ions'[k])
  <2>1. CASE k \in mask
    BY <1>1, <1>3, <2>1, IonizedOK
  <2>2. CASE k \notin mask
    BY <1>1, <1>3, <2>2 DEF Kept, ParticleOK
  <2> QED
    BY <2>1, <2>2
<1>5. KeptTile(ions, ions') /\ ions' = [k \in DOMAIN ions |-> ions'[k]]
  BY <1>1, <1>4 DEF KeptTile
<1> DEFINE n == Cardinality(mask)
           new == [i \in DOMAIN slots |-> ElectronOf(ions[slots[i]])]
<1>6. n \in Nat
  <2>1. IsFiniteSet(DOMAIN ions)
    <3>1. DOMAIN ions = 1 .. Len(ions) /\ Len(ions) \in Int
      BY DEF Inv, TileOK
    <3> QED
      BY <3>1, FS_Interval
  <2>2. IsFiniteSet(mask)
    BY <1>3, <2>1, FS_Subset
  <2> QED
    BY <2>2, FS_CardinalityType
<1>7. slots \in [1 .. n -> mask]
  BY <1>2 DEF Orders
<1>8. \A i \in 1 .. n : ParticleOK(ElectronOf(ions[slots[i]]))
  BY <1>3, <1>7, ElectronOK
<1>9. new \in [1 .. n -> Particle] /\ \A i \in 1 .. n : ParticleOK(new[i])
  BY <1>7, <1>8 DEF ParticleOK
<1> HIDE DEF new, n
<1>10. TileOK(elecs \o new, conf.electrons) /\ \A k \in DOMAIN elecs : (elecs \o new)[k] = elecs[k]
  BY <1>3, <1>6, <1>9, AppendedOK
<1>11. elecs' = elecs \o new
  BY <1>2 DEF new
<1>12. DOMAIN elecs \subseteq DOMAIN elecs'
  <2>1. elecs \in Seq(Particle) /\ new \in Seq(Particle)
    BY <1>3, <1>6, <1>9 DEF TileOK
  <2> QED
    BY <1>11, <2>1
<1>13. \A k \in DOMAIN elecs : Kept(elecs[k], elecs'[k])
  BY <1>3, <1>10, <1>11 DEF Kept, TileOK, ParticleOK
<1> QED
  BY <1>5, <1>10, <1>11, <1>12, <1>13 DEF Keeps
\* Every action but the reset at the start of a step keeps both tiles.
LEMMA ActionsKeep ==
    ASSUME Inv, Next, ~ResetAllQuantities, ~UNCHANGED vars
    PROVE  Keeps
<1>1. CASE AdvanceParticles
  BY <1>1, PushAllKeeps DEF AdvanceParticles
<1>2. CASE DepositCurrent
  BY <1>2, DepositAllKeeps DEF DepositCurrent
<1>3. CASE Predict
  BY <1>3, PushAllTemporarilyKeeps DEF Predict
<1>4. CASE Correct
  BY <1>4, DepositAllKeeps DEF Correct
<1>5. CASE ResetParticles
  BY <1>5, ResetParticlesKeeps
<1>6. CASE DoFieldIonization
  BY <1>6, DoFieldIonizationKeeps
<1>7. ~Done
  BY DEF Done
<1> QED
  BY <1>1, <1>2, <1>3, <1>4, <1>5, <1>6, <1>7 DEF Next

\* Where the program may go on, but for that reset.
LEMMA ActionsControl ==
    ASSUME Inv, Next, ~ResetAllQuantities, ~UNCHANGED vars
    PROVE  /\ conf' = conf /\ pc' \in Phases /\ step' \in Nat
           /\ pc' \in {"predict", "correct", "reset"} => ~conf.explicit
<1>1. CASE AdvanceParticles
  BY <1>1 DEF AdvanceParticles, Inv, Phases
<1>2. CASE DepositCurrent
  BY <1>2 DEF DepositCurrent, Inv, Phases
<1>3. CASE Predict
  BY <1>3 DEF Predict, Inv, Phases
<1>4. CASE Correct
  BY <1>4 DEF Correct, Inv, Phases
<1>5. CASE ResetParticles
  BY <1>5 DEF ResetParticles, Inv, Phases
<1>6. CASE DoFieldIonization
  BY <1>6 DEF DoFieldIonization, Inv, Phases
<1>7. ~Done
  BY DEF Done
<1> QED
  BY <1>1, <1>2, <1>3, <1>4, <1>5, <1>6, <1>7 DEF Next

\* What is said of a tile depends on no variable but the parameters.
LEMMA TilePrimed ==
    ASSUME conf' = conf
    PROVE  /\ TileOK(ions', conf.ions) => TileOK(ions, conf.ions)'
           /\ TileOK(elecs', conf.electrons) => TileOK(elecs, conf.electrons)'
  BY DEF TileOK, ParticleOK, Bounded

LEMMA InitInv == Init => Inv
<1> SUFFICES ASSUME Init PROVE Inv
  OBVIOUS
<1>1. /\ conf \in Configs /\ pc = "step" /\ step = 0
      /\ ions = FreshTile(conf.ions, conf.initIonLev, 0)
      /\ elecs = FreshTile(conf.electrons, 0, 0)
  BY DEF Init, InitParticles, FreshTile
<1>2. TileOK(ions, conf.ions) /\ Len(ions) = Cardinality(conf.ions)
  BY <1>1, ConfigTypes, FreshTileOK
<1>3. TileOK(elecs, conf.electrons)
  <2>1. ASSUME NEW S \in SUBSET Cells PROVE TileOK(FreshTile(S, 0, 0), S)
    <3>1. 0 \in Nat /\ 0 \in Int
      OBVIOUS
    <3>2. \A lev \in Nat, s \in Int : TileOK(FreshTile(S, lev, s), S)
      BY FreshTileOK
    <3> QED
      BY <3>1, <3>2
  <2> QED
    BY <1>1, <2>1, ConfigTypes
<1> QED
  BY <1>1, <1>2, <1>3 DEF Inv, Phases

\* The reset gives the tiles of a new step.
LEMMA ResetGivesFresh ==
    ASSUME Inv, ResetAllQuantities
    PROVE  /\ ions' = FreshTile(conf.ions, conf.initIonLev, step)
           /\ elecs' = FreshTile(conf.electrons, 0, step)
<1>1. /\ ions' = ResetInitial(ions, Cardinality(conf.ions), conf.initIonLev)
      /\ elecs' = ResetInitial(elecs, Cardinality(conf.electrons), 0)
  BY DEF ResetAllQuantities, InitNumIons, InitNumElecs
<1>2. ResetInitial(ions, Cardinality(conf.ions), conf.initIonLev)
          = FreshTile(conf.ions, conf.initIonLev, step)
  BY ConfigTypes, ResetInitialIsFresh DEF Inv
<1>3. ResetInitial(elecs, Cardinality(conf.electrons), 0) = FreshTile(conf.electrons, 0, step)
  BY ConfigTypes, ResetInitialIsFresh DEF Inv
<1> QED
  BY <1>1, <1>2, <1>3

LEMMA NextInv == Inv /\ [Next]_vars => Inv'
<1> SUFFICES ASSUME Inv, [Next]_vars PROVE Inv'
  OBVIOUS
<1>1. CASE ResetAllQuantities
  <2>1. /\ conf' = conf /\ step' = step
        /\ pc' \in Phases /\ pc' \notin {"predict", "correct", "reset"}
    BY <1>1 DEF ResetAllQuantities, Phases
  <2>2. TileOK(ions', conf.ions) /\ Len(ions') = Cardinality(conf.ions)
    BY <1>1, ResetGivesFresh, ConfigTypes, FreshTileOK DEF Inv
  <2>3. TileOK(elecs', conf.electrons)
    BY <1>1, ResetGivesFresh, ConfigTypes, FreshTileOK DEF Inv
  <2> QED
    BY <2>1, <2>2, <2>3, TilePrimed DEF Inv
<1>2. CASE UNCHANGED vars
  BY <1>2 DEF Inv, vars, TileOK, ParticleOK, Bounded
<1>3. CASE Next /\ ~ResetAllQuantities /\ ~UNCHANGED vars
  <2>1. Keeps
    BY <1>3, ActionsKeep
  <2>2. /\ conf' = conf /\ pc' \in Phases /\ step' \in Nat
        /\ pc' \in {"predict", "correct", "reset"} => ~conf.explicit
    BY <1>3, ActionsControl
  <2>3. TileOK(ions', conf.ions) /\ Len(ions') = Len(ions)
    BY <2>1, ConfigTypes, KeptTileOK DEF Keeps, Inv
  <2> QED
    BY <2>1, <2>2, <2>3, TilePrimed DEF Inv, Keeps
<1> QED
  BY <1>1, <1>2, <1>3

-----------------------------------------------------------------------------
(* Sums over particles                                                     *)

\* A slot behind the electrons, and the slots that are for the ions in P.
NewSlot(n) == Len(elecs) + n
SlotsFor(mask, slots, P) ==
    {NewSlot(n) : n \in {i \in 1 .. Cardinality(mask) : slots[i] \in P}}

\* What field ionization does to the ions of mask and to the electrons.
Ionized(mask, slots) ==
    /\ DOMAIN ions' = DOMAIN ions
    /\ \A k \in DOMAIN ions :
           ions'[k] = IF k \in mask THEN [ions[k] EXCEPT !.lev = @ + 1] ELSE ions[k]
    /\ DOMAIN elecs' = DOMAIN elecs \union {NewSlot(n) : n \in 1 .. Cardinality(mask)}
    /\ \A k \in DOMAIN elecs : elecs'[k] = elecs[k]
    /\ \A n \in 1 .. Cardinality(mask) :
           elecs'[NewSlot(n)] = ElectronOf(ions[slots[n]])

\* The slots behind l others.
LEMMA IntervalUnion ==
    ASSUME NEW l \in Nat, NEW m \in Nat
    PROVE  1 .. l + m = (1 .. l) \union {l + n : n \in 1 .. m}
<1>1. \A k \in 1 .. l + m : k \in 1 .. l \/ (k - l \in 1 .. m /\ k = l + (k - l))
  OBVIOUS
<1>2. \A k \in 1 .. l : k \in 1 .. l + m
  OBVIOUS
<1>3. \A n \in 1 .. m : l + n \in 1 .. l + m
  OBVIOUS
<1> QED
  BY <1>1, <1>2, <1>3

\* The slots of a tile and what they hold.
LEMMA TileDomain ==
    ASSUME NEW tile, NEW S \in SUBSET Cells, TileOK(tile, S)
    PROVE  /\ Len(tile) \in Nat /\ DOMAIN tile = 1 .. Len(tile) /\ IsFiniteSet(DOMAIN tile)
           /\ \A k \in DOMAIN tile : tile[k] \in Particle
<1>1. Len(tile) \in Nat /\ DOMAIN tile = 1 .. Len(tile)
  BY DEF TileOK
<1>2. IsFiniteSet(DOMAIN tile)
  BY <1>1, FS_Interval
<1> QED
  BY <1>1, <1>2 DEF TileOK

\* A sequence behind another.
LEMMA Appended ==
    ASSUME NEW s \in Seq(Particle), NEW t \in Seq(Particle)
    PROVE  /\ DOMAIN (s \o t) = 1 .. Len(s) + Len(t)
           /\ \A k \in 1 .. Len(s) : (s \o t)[k] = s[k]
           /\ \A n \in 1 .. Len(t) : (s \o t)[Len(s) + n] = t[n]
<1>1. Len(s) \in Nat /\ Len(t) \in Nat
  OBVIOUS
<1>2. Len(s \o t) = Len(s) + Len(t) /\ s \o t \in Seq(Particle)
  OBVIOUS
<1>3. \A k \in 1 .. Len(s) : (s \o t)[k] = s[k]
  OBVIOUS
<1>4. \A n \in 1 .. Len(t) : (s \o t)[Len(s) + n] = t[n]
  <2> TAKE n \in 1 .. Len(t)
  <2>1. /\ Len(s) + n \in 1 .. Len(s) + Len(t) /\ ~(Len(s) + n <= Len(s))
        /\ (Len(s) + n) - Len(s) = n
    BY <1>1
  <2> QED
    BY <1>1, <2>1
<1> QED
  BY <1>1, <1>2, <1>3, <1>4

\* Field ionization, slot by slot.
LEMMA IonizationStep ==
    ASSUME Inv, DoFieldIonization
    PROVE  \E mask \in SUBSET Ionizable : \E slots \in Orders(mask) : Ionized(mask, slots)
<1>1. PICK mask \in SUBSET Ionizable : \E slots \in Orders(mask) :
          /\ ions' = [k \in DOMAIN ions |-> IF k \in mask THEN [ions[k] EXCEPT !.lev = @ + 1]
                                             ELSE ions[k]]
          /\ elecs' = elecs \o [n \in DOMAIN slots |-> ElectronOf(ions[slots[n]])]
  BY DEF DoFieldIonization
<1>2. PICK slots \in Orders(mask) :
          elecs' = elecs \o [n \in DOMAIN slots |-> ElectronOf(ions[slots[n]])]
  BY <1>1
<1> DEFINE m == Cardinality(mask)
           new == [n \in 1 .. m |-> ElectronOf(ions[slots[n]])]
<1>3. IsFiniteSet(mask) /\ m \in Nat
  <2>1. IsFiniteSet(DOMAIN ions)
    BY ConfigTypes, TileDomain DEF Inv
  <2> QED
    BY <2>1, FS_Subset, FS_CardinalityType DEF Ionizable, ValidOf
<1>4. elecs' = elecs \o new
  BY <1>2 DEF Orders
<1>5. Len(elecs) \in Nat /\ elecs \in Seq(Particle) /\ DOMAIN elecs = 1 .. Len(elecs)
  BY DEF Inv, TileOK
<1>6. /\ DOMAIN new = 1 .. m
      /\ \A n \in 1 .. m : new[n] = ElectronOf(ions[slots[n]])
  OBVIOUS
<1>7. new \in Seq(Particle) /\ Len(new) = m
  <2>1. slots \in [1 .. m -> mask]
    BY <1>2 DEF Orders
  <2>2. \A n \in 1 .. m : ParticleOK(ElectronOf(ions[slots[n]]))
    BY <2>1, ElectronOK DEF Inv, TileOK, Ionizable, ValidOf
  <2> QED
    BY <1>3, <2>2 DEF ParticleOK
<1> HIDE DEF new, m
<1>8. /\ DOMAIN elecs' = 1 .. Len(elecs) + m
      /\ \A k \in 1 .. Len(elecs) : elecs'[k] = elecs[k]
      /\ \A n \in 1 .. m : elecs'[Len(elecs) + n] = new[n]
  <2>1. DOMAIN (elecs \o new) = 1 .. Len(elecs) + m
    BY <1>3, <1>5, <1>7, Appended
  <2>2. \A k \in 1 .. Len(elecs) : (elecs \o new)[k] = elecs[k]
    BY <1>3, <1>5, <1>7, Appended
  <2>3. \A n \in 1 .. m : (elecs \o new)[Len(elecs) + n] = new[n]
    BY <1>3, <1>5, <1>7, Appended
  <2> QED
    BY <1>4, <2>1, <2>2, <2>3
<1>9. DOMAIN elecs' = DOMAIN elecs \union {Len(elecs) + n : n \in 1 .. m}
  BY <1>3, <1>5, <1>8, IntervalUnion
<1>10. Ionized(mask, slots)
  BY <1>1, <1>5, <1>6, <1>8, <1>9 DEF Ionized, NewSlot, m
<1> QED
  BY <1>10

\* What two sums that ionization adds to are about: ions in P and electrons in
\* Q, with the summands f and u before and g and v after it.  An ionized ion
\* adds W, and so does its electron.
Summands(mask, slots, P, Q, W, f, g, u, v) ==
    /\ mask \in SUBSET Ionizable /\ slots \in Orders(mask) /\ Ionized(mask, slots)
    /\ P \in SUBSET DOMAIN ions /\ Q \in SUBSET DOMAIN elecs
    /\ \A k \in DOMAIN ions : W[k] \in Int
    /\ \A k \in P : f[k] \in Int /\ g[k] = IF k \in mask THEN f[k] + W[k] ELSE f[k]
    /\ \A k \in Q : u[k] \in Int /\ v[k] = u[k]
    /\ \A n \in 1 .. Cardinality(mask) : v[NewSlot(n)] = W[slots[n]]

\* Both sums grow by the same.
LEMMA IonizationAdds ==
    ASSUME Inv, NEW mask, NEW slots, NEW P, NEW Q, NEW W, NEW f, NEW g, NEW u, NEW v,
           Summands(mask, slots, P, Q, W, f, g, u, v)
    PROVE  \E added \in Int :
              /\ SumFunctionOnSet(g, P) = SumFunctionOnSet(f, P) + added
              /\ SumFunctionOnSet(v, Q \union SlotsFor(mask, slots, P))
                     = SumFunctionOnSet(u, Q) + added
              /\ SumFunctionOnSet(f, P) \in Int /\ SumFunctionOnSet(u, Q) \in Int
<1> USE DEF Summands
<1> DEFINE B == SlotsFor(mask, slots, P)
           R == {k \in mask : k \in P}
           added == SumFunctionOnSet(W, R)
           d == [k \in P |-> IF k \in mask THEN W[k] ELSE 0]
<1>1. /\ IsFiniteSet(DOMAIN ions) /\ IsFiniteSet(DOMAIN elecs)
      /\ Len(elecs) \in Nat /\ DOMAIN elecs = 1 .. Len(elecs)
  BY ConfigTypes, TileDomain DEF Inv
<1>2. IsFiniteSet(P) /\ IsFiniteSet(Q) /\ IsFiniteSet(mask) /\ mask \subseteq DOMAIN ions
  BY <1>1, FS_Subset DEF Ionizable, ValidOf
<1>3. SumFunctionOnSet(d, P) = added
  <2>1. \A k \in P : W[k] \in Int /\ (k \in R => d[k] = W[k]) /\ (k \notin R => d[k] = 0)
    OBVIOUS
  <2>2. R \in SUBSET P
    OBVIOUS
  <2> HIDE DEF d, R
  <2> QED
    BY ONLY <1>2, <2>1, <2>2, SumWithin DEF added
<1>4. SumFunctionOnSet(g, P) = SumFunctionOnSet(f, P) + SumFunctionOnSet(d, P)
  <2>1. \A k \in P : f[k] \in Int /\ d[k] \in Int /\ g[k] = f[k] + d[k]
    OBVIOUS
  <2> HIDE DEF d
  <2> QED
    BY <1>2, <2>1, SumPlus
<1>5. IsFiniteSet(B) /\ SumFunctionOnSet(v, B) = added
  <2> DEFINE m == Cardinality(mask)
             L == Len(elecs)
             C == {L + n : n \in {i \in 1 .. m : slots[i] \in P}}
             o == [k \in C |-> slots[k - L]]
  <2>0. \A n \in 1 .. m : v[L + n] = W[slots[n]]
    BY DEF NewSlot
  <2>1. /\ m \in Nat /\ slots \in [1 .. m -> mask]
        /\ \A i, j \in 1 .. m : slots[i] = slots[j] => i = j
        /\ L \in Nat /\ \A k \in mask : W[k] \in Int
    BY <1>1, <1>2, FS_CardinalityType DEF Orders
  <2>2. \A x \in mask : \E i \in 1 .. m : slots[i] = x
    BY <1>2, <2>1, OrderIsOnto
  <2> HIDE DEF m, L
  <2>3. \A k \in C : k - L \in 1 .. m /\ slots[k - L] \in P /\ L + (k - L) = k /\ k \in Int
    BY <2>1
  <2>4. IsFiniteSet(C)
    <3>1. C \subseteq L + 1 .. L + m
      BY <2>1
    <3>2. IsFiniteSet(L + 1 .. L + m)
      BY <2>1, FS_Interval
    <3> QED
      BY <3>1, <3>2, FS_Subset
  <2>5. \A j, k \in C : o[j] = o[k] => j = k
    <3> TAKE j, k \in C
    <3> HAVE o[j] = o[k]
    <3>1. slots[j - L] = slots[k - L]
      OBVIOUS
    <3>2. j - L = k - L
      BY <2>1, <2>3, <3>1
    <3> QED
      BY <2>3, <3>2
  <2>6. \A k \in C : v[k] \in Int /\ W[o[k]] = v[k]
    <3> TAKE k \in C
    <3>1. o[k] = slots[k - L]
      OBVIOUS
    <3>2. v[L + (k - L)] = W[slots[k - L]]
      BY <2>3, <2>0
    <3>3. slots[k - L] \in mask
      BY <2>1, <2>3
    <3> QED
      BY <2>3, <3>1, <3>2, <3>3
  <2>7. {o[k] : k \in C} = R
    <3>1. \A k \in C : o[k] \in R
      BY <2>1, <2>3
    <3>2. ASSUME NEW x \in R PROVE \E k \in C : o[k] = x
      <4>1. PICK i \in 1 .. m : slots[i] = x
        BY <2>2
      <4>2. L + i \in C /\ (L + i) - L = i
        BY <2>1, <4>1
      <4> QED
        BY <4>1, <4>2
    <3> HIDE DEF C, o
    <3> QED
      BY <3>1, <3>2
  <2> HIDE DEF C, o
  <2>8. SumFunctionOnSet(W, {o[k] : k \in C}) = SumFunctionOnSet(v, C)
    BY <2>4, <2>5, <2>6, SumOfImage
  <2>9. SumFunctionOnSet(v, C) = SumFunctionOnSet(W, R)
    BY ONLY <2>7, <2>8, Zenon
  <2>10. C = SlotsFor(mask, slots, P)
    BY DEF SlotsFor, NewSlot, C, m, L
  <2> QED
    BY ONLY <2>4, <2>9, <2>10, Zenon DEF added, B
<1>6. Q \cap B = {} /\ \A k \in B : v[k] \in Int
  <2>1. slots \in [1 .. Cardinality(mask) -> mask] /\ Cardinality(mask) \in Nat
    BY <1>2, FS_CardinalityType DEF Orders
  <2>2. \A n \in 1 .. Cardinality(mask) : NewSlot(n) \notin Q /\ v[NewSlot(n)] \in Int
    BY <1>1, <1>2, <2>1 DEF NewSlot
  <2> QED
    BY <2>2 DEF SlotsFor
<1>7. SumFunctionOnSet(v, Q) = SumFunctionOnSet(u, Q)
  BY <1>2, SumSame
<1> HIDE DEF B
<1>8. SumFunctionOnSet(v, Q \union B) = SumFunctionOnSet(v, Q) + SumFunctionOnSet(v, B)
  <2>1. \A k \in Q \union B : v[k] \in Int
    BY <1>6
  <2> QED
    BY <1>2, <1>5, <1>6, <2>1, SumOfUnion
<1>9. added \in Int
  <2>1. IsFiniteSet(R) /\ \A k \in R : W[k] \in Int
    BY <1>2, FS_Subset
  <2> QED
    BY <2>1, SumInt
<1>10. SumFunctionOnSet(f, P) \in Int /\ SumFunctionOnSet(u, Q) \in Int
  BY <1>2, SumInt
<1> HIDE DEF added, d
<1>11. /\ SumFunctionOnSet(g, P) = SumFunctionOnSet(f, P) + added
       /\ SumFunctionOnSet(v, Q \union B) = SumFunctionOnSet(u, Q) + added
  BY <1>3, <1>4, <1>5, <1>7, <1>8
<1> QED
  BY <1>9, <1>10, <1>11 DEF B

\* What the sums of ElectronsOfIons are over.
Gained == [k \in DOMAIN ions |-> ions[k].lev - conf.initIonLev]
IonsFrom(c) == {k \in DOMAIN ions : ions[k].x0 = c}
AddedFor(c) == {k \in DOMAIN elecs : k > InitNumElecs /\ elecs[k].x0 = c}

\* The tiles at the start of a step.
FreshTiles ==
    /\ conf \in Configs
    /\ \E s \in Int : /\ ions = FreshTile(conf.ions, conf.initIonLev, s)
                      /\ elecs = FreshTile(conf.electrons, 0, s)

\* No level is gained and no electron added when a step starts.
LEMMA FreshTilesBalance == FreshTiles => ElectronsOfIons
<1> SUFFICES ASSUME FreshTiles, NEW c \in Cells PROVE ElectronsAdded(c) = LevelsGained(c)
  BY DEF ElectronsOfIons
<1>0. PICK s \in Int : /\ ions = FreshTile(conf.ions, conf.initIonLev, s)
                       /\ elecs = FreshTile(conf.electrons, 0, s)
  BY DEF FreshTiles
<1>1. /\ conf.ions \in SUBSET Cells /\ conf.initIonLev \in Nat
      /\ Cardinality(conf.ions) \in Nat /\ Cardinality(conf.electrons) \in Nat
  BY ConfigTypes, CellsAreFinite DEF FreshTiles
<1>2. DOMAIN ions = 1 .. Cardinality(conf.ions) /\ \A k \in DOMAIN ions : ions[k].lev = conf.initIonLev
  BY <1>0 DEF FreshTile, Fresh
<1>3. IsFiniteSet(IonsFrom(c))
  <2>1. IsFiniteSet(1 .. Cardinality(conf.ions))
    BY <1>1, FS_Interval
  <2> QED
    BY <1>2, <2>1, FS_Subset DEF IonsFrom
<1>4. \A k \in IonsFrom(c) : Gained[k] = 0
  BY <1>1, <1>2 DEF IonsFrom, Gained
<1>5. SumFunctionOnSet(Gained, IonsFrom(c)) = 0
  BY <1>3, <1>4, SumOfZeros
<1>6. AddedFor(c) = {}
  BY <1>0, <1>1 DEF AddedFor, FreshTile, InitNumElecs
<1> QED
  BY <1>5, <1>6, FS_EmptySet DEF LevelsGained, ElectronsAdded, Gained, IonsFrom, AddedFor

\* What a push, a reset of the position or a loss leaves as it is.
LEMMA SameLevel ==
    ASSUME NEW q \in Particle, NEW d \in Int
    PROVE  /\ Push(q, d).lev = q.lev /\ PushTemporarily(q, d).lev = q.lev
           /\ ResetPosition(q).lev = q.lev /\ Invalid(q).lev = q.lev
  BY DEF Particle, Push, PushTemporarily, ResetPosition, Invalid

\* Only ionization and the reset of a step change a level or the size of a tile.
SameLevels ==
    /\ DOMAIN ions' = DOMAIN ions /\ DOMAIN elecs' = DOMAIN elecs
    /\ \A k \in DOMAIN ions : ions'[k].lev = ions[k].lev

\* A push of all particles does neither.
LEMMA PushesKeepLevels ==
    ASSUME Inv, PushAll(Push) \/ PushAll(PushTemporarily)
    PROVE  SameLevels
<1>1. \A k \in DOMAIN ions : ions[k] \in Particle
  BY ConfigTypes, TileDomain DEF Inv
<1>2. -MaxMove .. MaxMove \subseteq Int
  OBVIOUS
<1>3. CASE PushAll(Push)
  <2>1. PICK d \in [DOMAIN ions -> -MaxMove .. MaxMove], e \in [DOMAIN elecs -> -MaxMove .. MaxMove] :
          /\ ions' = [k \in DOMAIN ions |-> Push(ions[k], d[k])]
          /\ elecs' = [k \in DOMAIN elecs |-> Push(elecs[k], e[k])]
    BY <1>3 DEF PushAll
  <2> QED
    BY <1>1, <1>2, <2>1, SameLevel DEF SameLevels
<1>4. CASE PushAll(PushTemporarily)
  <2>1. PICK d \in [DOMAIN ions -> -MaxMove .. MaxMove], e \in [DOMAIN elecs -> -MaxMove .. MaxMove] :
          /\ ions' = [k \in DOMAIN ions |-> PushTemporarily(ions[k], d[k])]
          /\ elecs' = [k \in DOMAIN elecs |-> PushTemporarily(elecs[k], e[k])]
    BY <1>4 DEF PushAll
  <2> QED
    BY <1>1, <1>2, <2>1, SameLevel DEF SameLevels
<1> QED
  BY <1>3, <1>4

\* Nor does any other action between.
LEMMA OthersKeepLevels ==
    ASSUME Inv, Next, ~ResetAllQuantities, ~DoFieldIonization, ~UNCHANGED vars
    PROVE  conf' = conf /\ SameLevels
<1>1. \A k \in DOMAIN ions : ions[k] \in Particle
  BY ConfigTypes, TileDomain DEF Inv
<1>2. CASE AdvanceParticles
  BY <1>2, PushesKeepLevels DEF AdvanceParticles
<1>3. CASE Predict
  BY <1>3, PushesKeepLevels DEF Predict
<1>4. CASE DepositCurrent \/ Correct
  <2>1. PICK lostIons \in SUBSET ValidOf(ions), lostElecs \in SUBSET ValidOf(elecs) :
            ions' = Discarded(ions, lostIons) /\ elecs' = Discarded(elecs, lostElecs)
    BY <1>4 DEF DepositCurrent, Correct, DepositAll
  <2>2. SameLevels
    BY <1>1, <2>1, SameLevel DEF SameLevels, Discarded
  <2> QED
    BY <1>4, <2>2 DEF DepositCurrent, Correct
<1>5. CASE ResetParticles
  BY <1>1, <1>5, SameLevel DEF ResetParticles, SameLevels
<1> QED
  BY <1>2, <1>3, <1>4, <1>5 DEF Next, Done

\* Such a step changes neither sum.
LEMMA OthersBalance ==
    ASSUME Inv, ElectronsOfIons, Next, ~ResetAllQuantities, ~DoFieldIonization,
           ~UNCHANGED vars
    PROVE  ElectronsOfIons'
<1>1. conf' = conf /\ SameLevels
  BY OthersKeepLevels
<1>2. /\ \A k \in DOMAIN ions : ions'[k].x0 = ions[k].x0
      /\ \A k \in DOMAIN elecs : elecs'[k].x0 = elecs[k].x0
  BY ActionsKeep DEF Keeps, KeptTile, Kept
<1>3. Gained' = Gained
  BY <1>1 DEF SameLevels, Gained
<1>4. \A c : IonsFrom(c)' = IonsFrom(c) /\ AddedFor(c)' = AddedFor(c)
  BY <1>1, <1>2 DEF SameLevels, IonsFrom, AddedFor, InitNumElecs
<1>5. ElectronsOfIons <=> \A c \in Cells : Cardinality(AddedFor(c)) = SumFunctionOnSet(Gained, IonsFrom(c))
  BY DEF ElectronsOfIons, ElectronsAdded, LevelsGained, Gained, IonsFrom, AddedFor
<1>6. ElectronsOfIons' <=> \A c \in Cells : Cardinality(AddedFor(c)') = SumFunctionOnSet(Gained', IonsFrom(c)')
  BY DEF ElectronsOfIons, ElectronsAdded, LevelsGained, Gained, IonsFrom, AddedFor
<1> QED
  BY <1>3, <1>4, <1>5, <1>6

\* The thread with slot n has an ion.
LEMMA SlotsAreIons ==
    ASSUME Inv, NEW mask \in SUBSET Ionizable, NEW slots \in Orders(mask)
    PROVE  /\ Cardinality(mask) \in Nat /\ IsFiniteSet(mask) /\ mask \subseteq DOMAIN ions
           /\ slots \in [1 .. Cardinality(mask) -> mask]
           /\ \A n \in 1 .. Cardinality(mask) : slots[n] \in DOMAIN ions
<1>1. IsFiniteSet(mask) /\ mask \subseteq DOMAIN ions
  BY ConfigTypes, TileDomain, FS_Subset DEF Inv, Ionizable, ValidOf
<1>2. Cardinality(mask) \in Nat
  BY <1>1, FS_CardinalityType
<1> QED
  BY <1>1, <1>2 DEF Orders

\* Ionization adds the same to both.
LEMMA IonizationBalances ==
    ASSUME Inv, ElectronsOfIons, DoFieldIonization
    PROVE  ElectronsOfIons'
<1>0. PICK mask \in SUBSET Ionizable : \E slots \in Orders(mask) : Ionized(mask, slots)
  BY IonizationStep
<1>1. PICK slots \in Orders(mask) : Ionized(mask, slots)
  BY <1>0
<1>2. conf' = conf
  BY DEF DoFieldIonization
<1>3. /\ IsFiniteSet(DOMAIN ions) /\ IsFiniteSet(DOMAIN elecs) /\ IsFiniteSet(DOMAIN elecs')
      /\ DOMAIN elecs = 1 .. Len(elecs) /\ Len(elecs) \in Nat
      /\ Cardinality(conf.electrons) \in Nat /\ Cardinality(conf.electrons) <= Len(elecs)
      /\ conf.initIonLev \in Nat
  BY ConfigTypes, CellsAreFinite, TileDomain, DoFieldIonizationKeeps DEF Inv, Keeps, TileOK
<1> SUFFICES ASSUME NEW c \in Cells PROVE (ElectronsAdded(c) = LevelsGained(c))'
  BY DEF ElectronsOfIons
<1> DEFINE P == IonsFrom(c)
           Q == AddedFor(c)
           W == [k \in DOMAIN ions |-> 1]
           u == [k \in DOMAIN elecs |-> 1]
           v == [k \in DOMAIN elecs' |-> 1]
           f == Gained
           g == Gained'
           new == Q \union SlotsFor(mask, slots, P)
<1>4. /\ P \in SUBSET DOMAIN ions /\ Q \in SUBSET DOMAIN elecs
      /\ \A k \in DOMAIN ions : W[k] \in Int
      /\ \A k \in P : f[k] \in Int /\ g[k] = IF k \in mask THEN f[k] + W[k] ELSE f[k]
      /\ \A k \in Q : u[k] \in Int /\ v[k] = u[k]
      /\ \A n \in 1 .. Cardinality(mask) : v[NewSlot(n)] = W[slots[n]]
  <2>1. P \in SUBSET DOMAIN ions /\ Q \in SUBSET DOMAIN elecs
    BY DEF IonsFrom, AddedFor
  <2>2. \A k \in P : f[k] \in Int /\ g[k] = IF k \in mask THEN f[k] + W[k] ELSE f[k]
    <3> TAKE k \in P
    <3>1. k \in DOMAIN ions /\ ions[k] \in Particle
      BY <2>1, ConfigTypes, TileDomain DEF Inv
    <3>2. ions[k].lev \in Nat /\ ions'[k].lev = IF k \in mask THEN ions[k].lev + 1 ELSE ions[k].lev
      BY <1>1, <3>1 DEF Ionized, Particle
    <3>3. f[k] = ions[k].lev - conf.initIonLev /\ g[k] = ions'[k].lev - conf.initIonLev /\ W[k] = 1
      BY <1>1, <1>2, <3>1 DEF Gained, Ionized
    <3> QED
      BY <1>3, <3>2, <3>3
  <2>3. \A n \in 1 .. Cardinality(mask) : NewSlot(n) \in DOMAIN elecs' /\ slots[n] \in DOMAIN ions
    BY <1>1, SlotsAreIons DEF Ionized
  <2>4. DOMAIN elecs \subseteq DOMAIN elecs'
    BY <1>1 DEF Ionized
  <2> HIDE DEF f, g, P, Q
  <2> QED
    BY <2>1, <2>2, <2>3, <2>4
<1>5. IonsFrom(c)' = P /\ AddedFor(c)' = new
  <2>1. \A k \in DOMAIN ions : ions[k] \in Particle
    BY ConfigTypes, TileDomain DEF Inv
  <2>2. \A k \in DOMAIN ions : ions'[k].x0 = ions[k].x0
    BY <1>1, <2>1 DEF Ionized, Particle
  <2>3. IonsFrom(c)' = P
    BY <1>1, <2>2 DEF Ionized, IonsFrom
  <2>4. \A n \in 1 .. Cardinality(mask) :
            /\ NewSlot(n) > InitNumElecs /\ slots[n] \in DOMAIN ions
            /\ elecs'[NewSlot(n)].x0 = ions[slots[n]].x0
    <3> TAKE n \in 1 .. Cardinality(mask)
    <3>1. slots[n] \in DOMAIN ions /\ Cardinality(mask) \in Nat
      BY SlotsAreIons
    <3>2. elecs'[NewSlot(n)] = ElectronOf(ions[slots[n]])
      BY <1>1 DEF Ionized
    <3>3. NewSlot(n) > InitNumElecs
      BY <1>3, <3>1 DEF NewSlot, InitNumElecs
    <3> QED
      BY <2>1, <3>1, <3>2, <3>3 DEF ElectronOf, Particle
  <2>5. \A k : k \in AddedFor(c)' <=> k \in new
    <3> TAKE k
    <3>1. k \in AddedFor(c)' <=> k \in DOMAIN elecs' /\ k > InitNumElecs /\ elecs'[k].x0 = c
      BY <1>2 DEF AddedFor, InitNumElecs
    <3>2. k \in DOMAIN elecs' <=> k \in DOMAIN elecs \/ \E n \in 1 .. Cardinality(mask) : k = NewSlot(n)
      BY <1>1 DEF Ionized
    <3>3. k \in Q <=> k \in DOMAIN elecs /\ k > InitNumElecs /\ elecs[k].x0 = c
      BY DEF AddedFor
    <3>4. k \in SlotsFor(mask, slots, P)
             <=> \E n \in 1 .. Cardinality(mask) : k = NewSlot(n) /\ ions[slots[n]].x0 = c
      BY <2>4 DEF SlotsFor, IonsFrom
    <3>5. k \in DOMAIN elecs => elecs'[k] = elecs[k]
      BY <1>1 DEF Ionized
    <3> HIDE DEF Q, P
    <3> QED
      BY <2>4, <3>1, <3>2, <3>3, <3>4, <3>5
  <2> QED
    BY <2>3, <2>5
<1> HIDE DEF P, Q, W, u, v, f, g
<1>6. PICK added \in Int :
         /\ SumFunctionOnSet(g, P) = SumFunctionOnSet(f, P) + added
         /\ SumFunctionOnSet(v, new) = SumFunctionOnSet(u, Q) + added
         /\ SumFunctionOnSet(f, P) \in Int /\ SumFunctionOnSet(u, Q) \in Int
  <2>1. Summands(mask, slots, P, Q, W, f, g, u, v)
    BY <1>1, <1>4 DEF Summands
  <2> QED
    BY <2>1, IonizationAdds
<1>7. SumFunctionOnSet(u, Q) = Cardinality(Q) /\ SumFunctionOnSet(v, new) = Cardinality(new)
  <2>1. IsFiniteSet(Q) /\ \A k \in Q : u[k] = 1
    BY <1>3, <1>4, FS_Subset DEF u
  <2>2. new \subseteq DOMAIN elecs'
    BY <1>5 DEF AddedFor
  <2>3. IsFiniteSet(new) /\ \A k \in new : v[k] = 1
    BY <1>3, <2>2, FS_Subset DEF v
  <2> HIDE DEF new
  <2> QED
    BY <2>1, <2>3, SumOfOnes
<1>8. Cardinality(Q) = SumFunctionOnSet(f, P)
  BY DEF ElectronsOfIons, ElectronsAdded, LevelsGained, Gained, IonsFrom, AddedFor, f, P, Q
<1>9. ElectronsAdded(c)' = Cardinality(AddedFor(c)') /\ LevelsGained(c)' = SumFunctionOnSet(g, IonsFrom(c)')
  BY DEF ElectronsAdded, LevelsGained, Gained, IonsFrom, AddedFor, g
<1> QED
  BY <1>5, <1>6, <1>7, <1>8, <1>9

\* What the sums of Charge are over.
IonCharge == [k \in DOMAIN ions |-> ions[k].lev * (ions[k].w + 1)]
ElecCharge == [k \in DOMAIN elecs |-> elecs[k].w + 1]
IonsAt(y) == {k \in ValidOf(ions) : ions[k].x = y}
ElecsAt(y) == {k \in ValidOf(elecs) : elecs[k].x = y}

\* The charge of an ion with one more level.
LEMMA OneLevelMore ==
    ASSUME NEW l \in Nat, NEW a \in Int
    PROVE  (l + 1) * a = l * a + a /\ l * a \in Int
OBVIOUS

\* Ionization adds the charge of an ion's electrons and of its levels alike.
LEMMA IonizationIsNeutral ==
    ASSUME Inv, DoFieldIonization, NEW y \in Cells
    PROVE  Charge(y)' = Charge(y)
<1>0. PICK mask \in SUBSET Ionizable : \E slots \in Orders(mask) : Ionized(mask, slots)
  BY IonizationStep
<1>1. PICK slots \in Orders(mask) : Ionized(mask, slots)
  BY <1>0
<1>2. /\ \A k \in DOMAIN ions : ions[k] \in Particle
      /\ \A k \in DOMAIN elecs : elecs[k] \in Particle
  BY ConfigTypes, TileDomain DEF Inv
<1> DEFINE P == IonsAt(y)
           Q == ElecsAt(y)
           W == [k \in DOMAIN ions |-> ions[k].w + 1]
           u == ElecCharge
           v == ElecCharge'
           f == IonCharge
           g == IonCharge'
           new == Q \union SlotsFor(mask, slots, P)
<1>3. \A n \in 1 .. Cardinality(mask) :
          /\ NewSlot(n) \in DOMAIN elecs' /\ slots[n] \in DOMAIN ions /\ slots[n] \in ValidOf(ions)
          /\ elecs'[NewSlot(n)].x = ions[slots[n]].x
          /\ elecs'[NewSlot(n)].w = ions[slots[n]].w
          /\ elecs'[NewSlot(n)].valid
  <2> TAKE n \in 1 .. Cardinality(mask)
  <2>1. slots[n] \in DOMAIN ions /\ slots[n] \in mask /\ mask \subseteq ValidOf(ions)
    BY SlotsAreIons DEF Ionizable
  <2>2. elecs'[NewSlot(n)] = ElectronOf(ions[slots[n]]) /\ NewSlot(n) \in DOMAIN elecs'
    BY <1>1 DEF Ionized
  <2>3. ions[slots[n]] \in Particle
    BY <1>2, <2>1
  <2> QED
    BY <2>1, <2>2, <2>3 DEF ElectronOf, Particle
<1>4. \A k \in DOMAIN ions :
          /\ ions'[k].x = ions[k].x /\ ions'[k].w = ions[k].w /\ ions'[k].valid = ions[k].valid
          /\ ions'[k].lev = IF k \in mask THEN ions[k].lev + 1 ELSE ions[k].lev
  BY <1>1, <1>2 DEF Ionized, Particle
<1>5. DOMAIN elecs \subseteq DOMAIN elecs' /\ \A k \in DOMAIN elecs : elecs'[k] = elecs[k]
  BY <1>1 DEF Ionized
<1>6. /\ P \in SUBSET DOMAIN ions /\ Q \in SUBSET DOMAIN elecs
      /\ \A k \in DOMAIN ions : W[k] \in Int
      /\ \A k \in P : f[k] \in Int /\ g[k] = IF k \in mask THEN f[k] + W[k] ELSE f[k]
      /\ \A k \in Q : u[k] \in Int /\ v[k] = u[k]
      /\ \A n \in 1 .. Cardinality(mask) : v[NewSlot(n)] = W[slots[n]]
  <2>1. P \in SUBSET DOMAIN ions /\ Q \in SUBSET DOMAIN elecs
    BY DEF IonsAt, ElecsAt, ValidOf
  <2>2. \A k \in P : f[k] \in Int /\ g[k] = IF k \in mask THEN f[k] + W[k] ELSE f[k]
    <3> TAKE k \in P
    <3>1. k \in DOMAIN ions /\ ions[k].lev \in Nat /\ ions[k].w + 1 \in Int
      BY <1>2, <2>1 DEF Particle
    <3> DEFINE a == ions[k].w + 1
               l == ions[k].lev
    <3>2. f[k] = l * a /\ W[k] = a /\ g[k] = (IF k \in mask THEN l + 1 ELSE l) * a
      BY <1>1, <1>4, <3>1 DEF IonCharge, Ionized
    <3>3. l \in Nat /\ a \in Int
      BY <3>1
    <3> HIDE DEF a, l, f, g, W
    <3>4. (l + 1) * a = l * a + a /\ l * a \in Int
      BY <3>3, OneLevelMore
    <3> QED
      BY <3>2, <3>4
  <2>3. \A k \in Q : u[k] \in Int /\ v[k] = u[k]
    BY <1>2, <1>5, <2>1 DEF ElecCharge, Particle
  <2>4. \A n \in 1 .. Cardinality(mask) : v[NewSlot(n)] = W[slots[n]]
    BY <1>3 DEF ElecCharge
  <2>5. \A k \in DOMAIN ions : W[k] \in Int
    BY <1>2 DEF Particle
  <2> HIDE DEF f, g, P, Q, u, v, W
  <2> QED
    BY <2>1, <2>2, <2>3, <2>4, <2>5
<1>7. IonsAt(y)' = P /\ ElecsAt(y)' = new
  <2>1. IonsAt(y)' = P
    BY <1>1, <1>4 DEF IonsAt, ValidOf, Ionized
  <2>2. \A k : k \in ElecsAt(y)' <=> k \in new
    <3> TAKE k
    <3>1. k \in ElecsAt(y)' <=> k \in DOMAIN elecs' /\ elecs'[k].valid /\ elecs'[k].x = y
      BY DEF ElecsAt, ValidOf
    <3>2. k \in DOMAIN elecs' <=> k \in DOMAIN elecs \/ \E n \in 1 .. Cardinality(mask) : k = NewSlot(n)
      BY <1>1 DEF Ionized
    <3>3. k \in Q <=> k \in DOMAIN elecs /\ elecs[k].valid /\ elecs[k].x = y
      BY DEF ElecsAt, ValidOf
    <3>4. k \in SlotsFor(mask, slots, P)
             <=> \E n \in 1 .. Cardinality(mask) : k = NewSlot(n) /\ ions[slots[n]].x = y
      BY <1>3 DEF SlotsFor, IonsAt
    <3> HIDE DEF Q, P
    <3> QED
      BY <1>3, <1>5, <3>1, <3>2, <3>3, <3>4
  <2> QED
    BY <2>1, <2>2
<1> HIDE DEF P, Q, W, u, v, f, g
<1>8. PICK added \in Int :
         /\ SumFunctionOnSet(g, P) = SumFunctionOnSet(f, P) + added
         /\ SumFunctionOnSet(v, new) = SumFunctionOnSet(u, Q) + added
         /\ SumFunctionOnSet(f, P) \in Int /\ SumFunctionOnSet(u, Q) \in Int
  <2>1. Summands(mask, slots, P, Q, W, f, g, u, v)
    BY <1>1, <1>6 DEF Summands
  <2> QED
    BY <2>1, IonizationAdds
<1>9. Charge(y) = SumFunctionOnSet(f, P) - SumFunctionOnSet(u, Q)
  BY DEF Charge, IonCharge, ElecCharge, IonsAt, ElecsAt, f, P, u, Q
<1>10. Charge(y)' = SumFunctionOnSet(g, IonsAt(y)') - SumFunctionOnSet(v, ElecsAt(y)')
  BY DEF Charge, IonCharge, ElecCharge, IonsAt, ElecsAt, g, v
<1> QED
  BY <1>7, <1>8, <1>9, <1>10

-----------------------------------------------------------------------------
(* Theorems                                                                *)

\* If the predictor-corrector solver is only used in boxes that particles
\* leave, every valid particle is in the box at any time: EnforceBC moves it
\* there or invalidates it in every push, temporary or not, and a push that is
\* taken back goes back to a position in the box.
THEOREM ParticlesStayInDomain ==
    (\A c \in Configs : c.periodic => c.explicit) => (Spec => []StaysInDomain)
<1> SUFFICES ASSUME \A c \in Configs : c.periodic => c.explicit
             PROVE  Spec => []StaysInDomain
  OBVIOUS
<1>1. Inv => StaysInDomain
  BY DEF Inv, TileOK, ParticleOK, Bounded, StaysInDomain, ValidOf
<1> QED
  BY <1>1, InitInv, NextInv, PTL DEF Spec

\* A particle that was invalidated, by a push, a temporary push or a
\* deposition, stays so until the next step, without weight, and is ionized no
\* further, whatever the slices and iterations that follow do.
THEOREM LostParticlesStayLost == Spec => LostStaysLost
<1>1. Inv /\ [Next]_vars =>
          [pc # "step" =>
               /\ \A k \in DOMAIN ions : ~ions[k].valid =>
                      /\ ~ions'[k].valid
                      /\ ions'[k].w = NoStep
                      /\ ions'[k].lev = ions[k].lev
               /\ \A k \in DOMAIN elecs : ~elecs[k].valid =>
                      ~elecs'[k].valid /\ elecs'[k].w = NoStep]_vars
  <2> SUFFICES ASSUME Inv, Next, pc # "step", ~UNCHANGED vars
               PROVE  /\ \A k \in DOMAIN ions : ~ions[k].valid =>
                             /\ ~ions'[k].valid
                             /\ ions'[k].w = NoStep
                             /\ ions'[k].lev = ions[k].lev
                      /\ \A k \in DOMAIN elecs : ~elecs[k].valid =>
                             ~elecs'[k].valid /\ elecs'[k].w = NoStep
    OBVIOUS
  <2>1. ~ResetAllQuantities
    BY DEF ResetAllQuantities
  <2>2. Keeps
    BY <2>1, ActionsKeep
  <2> QED
    BY <2>2 DEF Keeps, KeptTile, Kept
<1> QED
  BY <1>1, InitInv, NextInv, PTL DEF Spec, LostStaysLost

\* Every step starts with the particles of the first one, in the same slots,
\* whatever was lost, ionized and added before.
THEOREM StepsStartAlike == Spec => StepStartsAlike
<1>1. Inv /\ [Next]_vars =>
          [ResetAllQuantities =>
               /\ ions' = [k \in 1 .. InitNumIons |->
                              Fresh(NthCell(conf.ions, k), conf.initIonLev, step)]
               /\ elecs' = [k \in 1 .. InitNumElecs |->
                              Fresh(NthCell(conf.electrons, k), 0, step)]]_vars
  BY ResetGivesFresh DEF FreshTile, InitNumIons, InitNumElecs
<1> QED
  BY <1>1, InitInv, NextInv, PTL DEF Spec, StepStartsAlike

\* Every level an ion has gained since the step began is an electron that was
\* added for it, and there is no other, for any number of ions, slices and
\* ionization levels: the kernel that counts and the one that fills the slots
\* agree, and nothing between two ionizations changes either number.
THEOREM OneElectronPerLevel == Spec => []ElectronsOfIons
<1>1. Init => ElectronsOfIons
  BY FreshTilesBalance DEF Init, InitParticles, FreshTile, FreshTiles
<1>3. (FreshTiles => ElectronsOfIons)'
  BY FreshTilesBalance, PTL
<1>2. Inv /\ ElectronsOfIons /\ [Next]_vars => ElectronsOfIons'
  <2> SUFFICES ASSUME Inv, ElectronsOfIons, [Next]_vars PROVE ElectronsOfIons'
    OBVIOUS
  <2>1. CASE UNCHANGED vars
    BY <2>1 DEF vars, ElectronsOfIons, ElectronsAdded, LevelsGained, InitNumElecs
  <2>2. CASE ResetAllQuantities
    <3>1. FreshTiles'
      BY <2>2, ResetGivesFresh DEF Inv, ResetAllQuantities, FreshTiles
    <3> QED
      BY <1>3, <3>1
  <2>3. CASE DoFieldIonization
    BY <2>3, IonizationBalances
  <2> QED
    BY <2>1, <2>2, <2>3, OthersBalance
<1> QED
  BY <1>1, <1>2, InitInv, NextInv, PTL DEF Spec

\* Field ionization leaves the charge in every cell as it is, for any number
\* of ions of any level: the electron is put where its ion is, with its
\* weight, after pushes that stay, pushes that are taken back and losses.
THEOREM ChargeIsKept == Spec => IonizationKeepsCharge
<1>1. Inv /\ [Next]_vars =>
          [pc = "ionize" => \A y \in Cells : Charge(y)' = Charge(y)]_vars
  <2> SUFFICES ASSUME Inv, Next, pc = "ionize"
               PROVE  \A y \in Cells : Charge(y)' = Charge(y)
    OBVIOUS
  <2>1. DoFieldIonization
    BY DEF Next, ResetAllQuantities, AdvanceParticles, DepositCurrent, Predict, Correct,
           ResetParticles, Done
  <2> QED
    BY <2>1, IonizationIsNeutral
<1> QED
  BY <1>1, InitInv, NextInv, PTL DEF Spec, IonizationKeepsCharge
=============================================================================
