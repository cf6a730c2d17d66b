------------------------- MODULE PipelineBeamProofs -------------------------
(***************************************************************************)
(* Proofs about the usual pipeline, for any number of ranks, steps and     *)
(* particles.  The beam particles: each is pushed once per step, none is   *)
(* duplicated, none is lost inside the domain, and the ghosts of a slice   *)
(* are the particles then found in it.  And the ranks, of which some one   *)
(* can always go on.                                                       *)
(***************************************************************************)
EXTENDS PipelineProofs

-----------------------------------------------------------------------------
(* What a step does to the channels                                        *)

\* A message sent in a step: its label, and its data by kind.
Sends(r, k, m) ==
    /\ Label(m) = <<step[r], box[r]>> /\ step[r] < MaxStep
    /\ k \in {"ghostCounts", "ghostParticles"} => NotifyGhostSends(r) /\ box[r] < N - 1
    /\ k \notin {"ghostCounts", "ghostParticles"} => Notify(r)
    /\ k = "particles" => m.data = Solved(r)
    /\ k = "counts" => m.data.np = Cardinality(Solved(r))
    /\ k = "ghostCounts" => m.data.np = Cardinality(headBin[r])
    /\ k = "ghostParticles" => m.data = headBin[r]

ChannelMove(r, k) ==
    \/ chan'[k][r] = chan[k][r]
    \/ chan[k][r] # <<>> /\ chan'[k][r] = Tail(chan[k][r])
    \/ \E m \in Msg(k) : chan'[k][r] = Append(chan[k][r], m) /\ Sends(r, k, m)

\* In a step a channel keeps its messages, loses the first or gains one.
LEMMA ChannelMoves ==
    ASSUME Usual, TypeOK, TypeOK', ControlOK, [Next]_vars, NEW k \in Kinds, NEW x \in Ranks
    PROVE  ChannelMove(x, k)
<1>1. ChanOK /\ ChanOK'
  BY DEF TypeOK
<1>2. ASSUME NEW r \in Ranks, NEW K \in SUBSET Kinds, Receive(K, r)
      PROVE  ChannelMove(x, k)
  BY <1>1, <1>2, ReceiveEffect, Zenon DEF ChannelMove
<1>3. CASE \A j \in Kinds : chan'[j] = chan[j]
  BY <1>3 DEF ChannelMove
<1>4. ASSUME NEW r \in Ranks, NEW done, NEW out, DOMAIN out \subseteq Kinds,
             FinishAndSend(r, done, out),
             \A m \in Msg(k) :
                Label(m) = <<step[r], box[r]>> /\ k \in DOMAIN out /\ m.data = out[k]
                  => Sends(r, k, m)
      PROVE  ChannelMove(x, k)
  <2>1. CASE x # r \/ k \notin DOMAIN out
    <3>1. chan'[k][x] = chan[k][x]
      BY <1>1, <1>4, <2>1, SendEffect
    <3> QED
      BY <3>1 DEF ChannelMove
  <2>2. CASE x = r /\ k \in DOMAIN out
    <3>1. PICK m \in Msg(k) :
            /\ chan'[k][r] = Append(chan[k][r], m)
            /\ Label(m) = <<step[r], box[r]>>
            /\ m.data = out[k]
      BY <1>1, <1>4, <2>2, SendEffect
    <3>2. Sends(r, k, m)
      BY <1>4, <2>2, <3>1
    <3> QED
      BY <2>2, <3>1, <3>2 DEF ChannelMove
  <2> QED
    BY <2>1, <2>2
<1>5. ASSUME NEW r \in Ranks,
             \/ StartStep(r) \/ WaitReturns(r) \/ SolveHead(r) \/ NotifyGhostReturns(r)
             \/ WaitGhostReturns(r) \/ SolveTail(r) \/ Destroy(r)
      PROVE  ChannelMove(x, k)
  <2>1. chan' = chan
    BY <1>5 DEF StartStep, WaitReturns, SolveHead, NotifyGhostReturns, WaitGhostReturns,
                SolveTail, Destroy
  <2> QED
    BY <2>1 DEF ChannelMove
<1>6. ASSUME NEW r \in Ranks, WaitReceives(r)
      PROVE  ChannelMove(x, k)
  <2> DEFINE n == Received("counts", r).data
             time == IF box[r] = N - 1 THEN {"time"} ELSE {}
             K == time \union WithParticles("counts", "particles", n.np)
  <2>1. K \in SUBSET Kinds
    BY KindsOfMessages DEF Kinds, Small
  <2>2. Receive(K, r)
    BY <1>6 DEF WaitReceives
  <2> HIDE DEF K
  <2> QED
    BY <1>2, <2>1, <2>2
<1>7. ASSUME NEW r \in Ranks, WaitGhostReceives(r)
      PROVE  ChannelMove(x, k)
  BY <1>2, <1>7, KindsOfMessages DEF WaitGhostReceives
<1>8. ASSUME NEW r \in Ranks, NotifyGhostLastStep(r) \/ NotifyLastStep(r)
      PROVE  ChannelMove(x, k)
  <2>1. \A j \in Kinds : chan'[j] = chan[j]
    BY <1>1, <1>8, FinishOnly DEF NotifyGhostLastStep, NotifyLastStep
  <2> QED
    BY <1>3, <2>1
<1>9. ASSUME NEW r \in Ranks, NotifyGhostSends(r)
      PROVE  ChannelMove(x, k)
  <2> DEFINE np == Cardinality(headBin[r])
             kinds == IF SkipSend(r) THEN {}
                      ELSE WithParticles("ghostCounts", "ghostParticles", np)
             out == [j \in kinds |-> IF j = "ghostCounts"
                                       THEN [np |-> np, leftmost |-> Least(r)]
                                       ELSE headBin[r]]
  <2>1. FinishAndSend(r, GhostKinds, out)
    BY <1>9 DEF NotifyGhostSends
  <2>4. step[r] < MaxStep /\ box[r] < N - 1
    <3>1. /\ step[r] <= MaxStep /\ step[r] \in Nat /\ MaxStep \in Nat
          /\ box[r] \in 0 .. N - 1 /\ N \in Nat
      BY <1>9, RanksAreSomewhere DEF NotifyGhostSends
    <3>2. step[r] # MaxStep /\ ~ (box[r] >= N - 1)
      BY <1>9 DEF NotifyGhostSends, IsLastStep, NoGhostToSend
    <3> QED
      BY <3>1, <3>2
  <2>2. /\ DOMAIN out \subseteq {"ghostCounts", "ghostParticles"}
        /\ DOMAIN out \subseteq Kinds
    BY DEF WithParticles, Kinds, Small
  <2>3. k \in DOMAIN out =>
          /\ k = "ghostCounts" => out[k].np = np
          /\ k = "ghostParticles" => out[k] = headBin[r]
    OBVIOUS
  <2> HIDE DEF out
  <2>5. \A m \in Msg(k) :
           Label(m) = <<step[r], box[r]>> /\ k \in DOMAIN out /\ m.data = out[k]
             => Sends(r, k, m)
    BY <1>9, <2>2, <2>3, <2>4 DEF Sends
  <2> QED
    BY <1>4, <2>1, <2>2, <2>5
<1>10. ASSUME NEW r \in Ranks, Notify(r), NotifySends(r)
       PROVE  ChannelMove(x, k)
  <2> DEFINE np == Cardinality(Solved(r))
             time == IF box[r] = N - 1 THEN {"time"} ELSE {}
             kinds == time \union (IF SkipSend(r) THEN {}
                                   ELSE WithParticles("counts", "particles", np))
             out == [j \in kinds |->
                       CASE j = "time" -> TimeToSend(r)
                         [] j = "counts" -> [np |-> np, leftmost |-> Least(r)]
                         [] OTHER -> Solved(r)]
  <2>1. FinishAndSend(r, FinishKinds(box[r]), out) /\ pc[r] = "Notify"
    BY <1>10 DEF Notify, NotifySends
  <2>2. DOMAIN out \subseteq {"time", "counts", "particles"} /\ DOMAIN out \subseteq Kinds
    BY DEF WithParticles, Kinds, Small
  <2>3. k \in DOMAIN out =>
          /\ k = "counts" => out[k].np = np
          /\ k = "particles" => out[k] = Solved(r)
    OBVIOUS
  <2>4. step[r] < MaxStep
    <3>1. step[r] <= MaxStep /\ step[r] \in Nat /\ MaxStep \in Nat
      BY <2>1, RanksAreSomewhere
    <3>2. step[r] # MaxStep
      BY <1>10 DEF NotifySends, IsLastStep
    <3> QED
      BY <3>1, <3>2
  <2> HIDE DEF out
  <2>5. \A m \in Msg(k) :
           Label(m) = <<step[r], box[r]>> /\ k \in DOMAIN out /\ m.data = out[k]
             => Sends(r, k, m)
    BY <1>10, <2>2, <2>3, <2>4 DEF Sends
  <2> QED
    BY <1>4, <2>1, <2>2, <2>5
<1>11. ASSUME NEW r \in Ranks, Notify(r)
       PROVE  ChannelMove(x, k)
  BY <1>8, <1>10, <1>11 DEF Notify, Usual
<1>12. CASE UNCHANGED vars
  BY <1>3, <1>12 DEF vars
<1> QED
  BY <1>5, <1>6, <1>7, <1>8, <1>9, <1>11, <1>12 DEF Next, RankNext, Terminating

\* What is in flight after a step was so before, or has just been sent.
LEMMA MessagesComeFrom ==
    ASSUME Usual, TypeOK, TypeOK', ControlOK, [Next]_vars, NEW k \in Kinds, NEW x \in Ranks,
           NEW m \in InFlight(k, x)'
    PROVE  m \in InFlight(k, x) \/ Sends(x, k, m)
<1> DEFINE c == chan[k][x]
<1>1. c \in Seq(Msg(k)) /\ Len(c) \in Nat
  BY TypeOfControl, ChannelTypes
<1>2. PICK i \in 1 .. Len(chan'[k][x]) : m = chan'[k][x][i]
  BY DEF InFlight
<1>3. ChannelMove(x, k)
  BY ChannelMoves
<1>4. CASE chan'[k][x] = chan[k][x]
  BY <1>2, <1>4 DEF InFlight
<1>5. CASE c # <<>> /\ chan'[k][x] = Tail(c)
  <2> DEFINE d == Tail(c)
  <2>1. Len(d) = Len(c) - 1 /\ \A j \in 1 .. Len(d) : d[j] = c[j + 1]
    <3> HIDE DEF c
    <3> QED
      BY <1>1, <1>5, HeadTailProperties
  <2> HIDE DEF d
  <2>2. i \in 1 .. Len(d) /\ m = d[i]
    BY <1>2, <1>5 DEF d
  <2>3. m = c[i + 1] /\ i + 1 \in 1 .. Len(c)
    BY <1>1, <2>1, <2>2
  <2> QED
    BY <2>3 DEF InFlight
<1>6. ASSUME NEW w \in Msg(k), chan'[k][x] = Append(c, w), Sends(x, k, w)
      PROVE  m \in InFlight(k, x) \/ Sends(x, k, m)
  <2> DEFINE d == Append(c, w)
  <2>1. /\ Len(d) = Len(c) + 1 /\ d[Len(c) + 1] = w
        /\ \A j \in 1 .. Len(c) : d[j] = c[j]
    <3> HIDE DEF c
    <3> QED
      BY <1>1, AppendProperties
  <2> HIDE DEF d
  <2>2. i \in 1 .. Len(d) /\ m = d[i]
    BY <1>2, <1>6 DEF d
  <2>3. m = w \/ (i \in 1 .. Len(c) /\ m = c[i])
    BY <1>1, <2>1, <2>2
  <2> QED
    BY <1>6, <2>3 DEF InFlight
<1> QED
  BY <1>3, <1>4, <1>5, <1>6 DEF ChannelMove

-----------------------------------------------------------------------------
(* Once per step                                                           *)

LEMMA BeamTypes ==
    ASSUME Usual, TypeOK, NEW r \in Ranks
    PROVE  /\ beam \in [Ranks -> Beams] /\ beam[r] \in Beams
           /\ headBin \in [Ranks -> Beams] /\ headBin[r] \in Beams
           /\ restBin \in [Ranks -> Beams] /\ restBin[r] \in Beams
           /\ \A S \in Beams : \A p \in S :
                 p \in Particle /\ p.id \in ParticleId /\ p.z \in Int /\ p.age \in Nat
           /\ \A b \in Int : HeadRegion(b) = 2 * b + 1 /\ HeadRegion(b) \in Int
<1>1. \A S \in Beams : \A p \in S :
         p \in Particle /\ p.id \in ParticleId /\ p.z \in Int /\ p.age \in Nat
  BY DEF Beams, Particle
<1>2. \A b \in Int : HeadRegion(b) = 2 * b + 1 /\ HeadRegion(b) \in Int
  BY DEF HeadRegion
<1> QED
  BY <1>1, <1>2 DEF TypeOK

\* A box is made of its head region and the region below it.
LEMMA BoxRegions ==
    ASSUME NEW z \in Int, NEW b \in Int
    PROVE  /\ BoxOf(z) = b <=> z = 2 * b \/ z = 2 * b + 1
           /\ BoxOf(z) \in 0 .. b - 1 <=> 0 <= z /\ z < 2 * b
  BY DEF BoxOf

\* The particles that a count at the head of its channel announces.
LEMMA FirstParcel ==
    ASSUME Usual, MessageInv, NEW r \in Ranks, WaitReceives(r),
           Received("counts", r).data.np > 0
    PROVE  LET c == chan["particles"][Upstream(r)]
           IN  /\ c \in Seq(Msg("particles")) /\ c # <<>> /\ Len(c) \in Nat \ {0}
               /\ c[1] = Received("particles", r) /\ c[1] \in Msg("particles")
               /\ c[1].step = step[r] - 1 /\ c[1].box = box[r]
<1> DEFINE u == Upstream(r)
           c == chan["particles"][u]
           n == chan["counts"][u]
<1>1. TypeOK /\ ControlOK /\ u \in Ranks /\ MessageMatches
  BY Constants, InvMatches DEF MessageInv
<1>2. c \in Seq(Msg("particles")) /\ n \in Seq(Msg("counts"))
  BY <1>1, TypeOfControl, ChannelTypes DEF Kinds, Small
<1>3. pc[r] = "Wait" /\ step[r] > 0 /\ n # <<>>
  BY DEF WaitReceives
<1>4. Received("counts", r) = n[1]
  BY <1>2, <1>3 DEF Received
<1>5. Announced("counts", "particles", r, box[r])
  BY <1>1, <1>3 DEF MessageMatches
<1>6. c # <<>> /\ c[1].step = step[r] - 1 /\ c[1].box = box[r]
  BY <1>3, <1>4, <1>5 DEF Announced, IsFor
<1> HIDE DEF c
<1>7. Len(c) \in Nat \ {0} /\ c[1] \in Msg("particles")
  BY <1>2, <1>6, EmptySeq, ElementOfSeq
<1> QED
  BY <1>2, <1>6, <1>7 DEF Received, c

LEMMA TileFrame ==
    ASSUME NEW x, TileOK(x), pc'[x] = pc[x], step'[x] = step[x], box'[x] = box[x],
           beam'[x] = beam[x], headBin'[x] = headBin[x], restBin'[x] = restBin[x]
    PROVE  TileOK(x)'
<1>1. Unbinned(x)' = Unbinned(x)
  BY DEF Unbinned
<1> QED
  BY <1>1 DEF TileOK

\* A handler that touches no particles.
LEMMA TileStays ==
    ASSUME Usual, TypeOK, TileInv, NEW r \in Ranks, NEW p, NEW q, Moves(r, p, q),
           p \in PastHead <=> q \in PastHead, p = "Notify" <=> q = "Notify",
           UNCHANGED <<beam, headBin, restBin>>
    PROVE  TileInv'
<1> SUFFICES ASSUME NEW x \in Ranks
             PROVE  TileOK(x)'
  BY DEF TileInv
<1>1. /\ step' = step /\ box' = box /\ TileOK(x)
      /\ pc'[x] \in PastHead <=> pc[x] \in PastHead
      /\ pc'[x] = "Notify" <=> pc[x] = "Notify"
  BY TypeOfControl DEF Moves, TileInv
<1>2. Unbinned(x)' = Unbinned(x)
  BY <1>1 DEF Unbinned
<1> QED
  BY <1>1, <1>2 DEF TileOK

LEMMA TileAtWait ==
    ASSUME Usual, MessageInv, AgeInv, NEW r \in Ranks, WaitReceives(r)
    PROVE  TileInv'
<1> DEFINE u == Upstream(r)
           m == Received("particles", r)
           np == Received("counts", r).data.np
<1>1. TypeOK /\ ControlOK /\ Moves(r, "Wait", "SolveHead") /\ TileInv
  BY ControlOfActions DEF MessageInv, AgeInv
<1>2. CASE ~ (np > 0)
  <2>1. UNCHANGED <<beam, headBin, restBin>>
    BY <1>2 DEF WaitReceives
  <2> QED
    BY <1>1, <2>1, TileStays DEF PastHead
<1>3. CASE np > 0
  <2>1. /\ headBin' = headBin /\ restBin' = restBin
        /\ beam' = [beam EXCEPT ![r] = @ \union m.data]
    BY <1>3 DEF WaitReceives
  <2>2. \A x \in Ranks \ {r} : beam'[x] = beam[x]
    BY <1>1, <2>1, BeamTypes
  <2>3. beam'[r] = beam[r] \union m.data
    BY <1>1, <2>1, BeamTypes
  <2>4. /\ step' = step /\ box' = box /\ pc'[r] = "SolveHead" /\ pc[r] = "Wait"
        /\ \A x \in Ranks \ {r} : pc'[x] = pc[x]
    BY <1>1, TypeOfControl DEF Moves
  <2>5. \A p \in m.data : p.z <= HeadRegion(box[r]) /\ p.age = step[r]
    <3>1. m = chan["particles"][u][1] /\ 1 \in 1 .. Len(chan["particles"][u]) /\ u \in Ranks
      BY <1>3, FirstParcel, Constants
    <3>2. ParcelOK(m)
      BY <3>1 DEF AgeInv, ParcelInv, InFlight
    <3>3. m.step = step[r] - 1 /\ m.box = box[r] /\ step[r] \in Nat
      BY <1>1, <1>3, FirstParcel, RanksAreSomewhere
    <3>4. m.step + 1 = step[r]
      BY <3>3
    <3> QED
      BY <3>2, <3>3, <3>4 DEF ParcelOK
  <2> HIDE DEF m
  <2>6. TileOK(r)'
    <3>1. TileOK(r)
      BY <1>1 DEF TileInv
    <3>2. Unbinned(r) = box[r] /\ Unbinned(r)' = box[r]
      BY <2>4 DEF Unbinned, PastHead
    <3>3. \A p \in beam[r] \union m.data :
             p.z <= HeadRegion(box[r]) /\ (p.z >= 0 => p.age = step[r])
      BY <2>5, <3>1, <3>2 DEF TileOK
    <3>4. headBin[r] = {} /\ restBin[r] = {}
      BY <2>4, <3>1 DEF TileOK, PastHead
    <3> QED
      BY <2>1, <2>3, <2>4, <3>2, <3>3, <3>4 DEF TileOK
  <2> QED
    BY <1>1, <2>1, <2>2, <2>4, <2>6, TileFrame DEF TileInv
<1> QED
  BY <1>2, <1>3

\* What SolveHead does with the particles: Mine(r) is its box, Head(r) its bin.
MineOf(r) == InBox(beam[r], box[r])

HeadOf(r) == {p \in MineOf(r) : p.z = HeadRegion(box[r])}

LEMMA HeadEffect ==
    ASSUME Usual, TypeOK, NEW r \in Ranks, SolveHead(r)
    PROVE  /\ \E slip \in [HeadOf(r) -> 0 .. MaxSlip] :
                 headBin'[r] = {Push(p, slip[p]) : p \in HeadOf(r)}
           /\ restBin'[r] = MineOf(r) \ HeadOf(r)
           /\ beam'[r] = beam[r] \ MineOf(r)
           /\ \A x \in Ranks \ {r} :
                 beam'[x] = beam[x] /\ headBin'[x] = headBin[x] /\ restBin'[x] = restBin[x]
           /\ chan' = chan
<1>1. PICK S \in Pushed(HeadOf(r)) : headBin' = [headBin EXCEPT ![r] = S]
  BY DEF SolveHead, MineOf, HeadOf
<1>2. /\ restBin' = [restBin EXCEPT ![r] = MineOf(r) \ HeadOf(r)]
      /\ beam' = [beam EXCEPT ![r] = @ \ MineOf(r)]
      /\ chan' = chan
  BY DEF SolveHead, MineOf, HeadOf
<1>3. \E slip \in [HeadOf(r) -> 0 .. MaxSlip] : S = {Push(p, slip[p]) : p \in HeadOf(r)}
  BY <1>1 DEF Pushed
<1> QED
  BY <1>1, <1>2, <1>3, BeamTypes

LEMMA TailEffect ==
    ASSUME Usual, TypeOK, NEW r \in Ranks, SolveTail(r)
    PROVE  /\ \E slip \in [restBin[r] -> 0 .. MaxSlip] :
                 restBin'[r] = {Push(p, slip[p]) : p \in restBin[r]}
           /\ \A x \in Ranks \ {r} : restBin'[x] = restBin[x]
           /\ beam' = beam /\ headBin' = headBin /\ chan' = chan
<1>1. PICK S \in Pushed(restBin[r]) : restBin' = [restBin EXCEPT ![r] = S]
  BY DEF SolveTail
<1>2. \E slip \in [restBin[r] -> 0 .. MaxSlip] : S = {Push(p, slip[p]) : p \in restBin[r]}
  BY <1>1 DEF Pushed
<1>3. beam' = beam /\ headBin' = headBin /\ chan' = chan
  BY DEF SolveTail
<1> QED
  BY <1>1, <1>2, <1>3, BeamTypes

\* Notify sends the box away, with a message for its particles, unless it is
\* empty or the step is the last one.
LEMMA NotifyEffect ==
    ASSUME Usual, TypeOK, TypeOK', ControlOK, NEW r \in Ranks, Notify(r)
    PROVE  /\ headBin'[r] = {} /\ restBin'[r] = {}
           /\ \A x \in Ranks \ {r} :
                 /\ beam'[x] = beam[x] /\ headBin'[x] = headBin[x] /\ restBin'[x] = restBin[x]
                 /\ chan'["particles"][x] = chan["particles"][x]
           /\ \/ /\ step[r] = MaxStep
                 /\ beam'[r] = BelowBox(beam[r], box[r])
                 /\ chan'["particles"][r] = chan["particles"][r]
              \/ /\ step[r] < MaxStep /\ Solved(r) = {}
                 /\ beam'[r] = beam[r]
                 /\ chan'["particles"][r] = chan["particles"][r]
              \/ /\ step[r] < MaxStep /\ Solved(r) # {}
                 /\ beam'[r] = BelowBox(beam[r], box[r])
                 /\ \E m \in Msg("particles") :
                       /\ chan'["particles"][r] = Append(chan["particles"][r], m)
                       /\ Label(m) = <<step[r], box[r]>>
                       /\ m.data = Solved(r)
<1> DEFINE np == Cardinality(Solved(r))
           time == IF box[r] = N - 1 THEN {"time"} ELSE {}
           kinds == time \union (IF SkipSend(r) THEN {}
                                 ELSE WithParticles("counts", "particles", np))
           out == [j \in kinds |->
                     CASE j = "time" -> TimeToSend(r)
                       [] j = "counts" -> [np |-> np, leftmost |-> Least(r)]
                       [] OTHER -> Solved(r)]
<1>1. /\ ChanOK /\ ChanOK' /\ "particles" \in Kinds
      /\ beam \in [Ranks -> Beams] /\ headBin \in [Ranks -> Beams] /\ restBin \in [Ranks -> Beams]
  BY BeamTypes DEF TypeOK, Kinds, Small
<1>2. /\ headBin' = [headBin EXCEPT ![r] = {}] /\ restBin' = [restBin EXCEPT ![r] = {}]
      /\ pc[r] = "Notify"
      /\ NotifyLastStep(r) \/ NotifySends(r)
  BY DEF Notify, Usual
<1>3. step[r] <= MaxStep /\ step[r] \in Nat /\ MaxStep \in Nat
  BY <1>2, RanksAreSomewhere
<1>4. CASE NotifyLastStep(r)
  <2>1. \A k \in Kinds : chan'[k] = chan[k]
    BY <1>1, <1>4, FinishOnly DEF NotifyLastStep
  <2>2. step[r] = MaxStep /\ beam' = [beam EXCEPT ![r] = BelowBox(@, box[r])]
    BY <1>4 DEF NotifyLastStep, IsLastStep, DropBox
  <2> QED
    BY <1>1, <1>2, <2>1, <2>2
<1>5. CASE NotifySends(r)
  <2>1. FinishAndSend(r, FinishKinds(box[r]), out) /\ step[r] < MaxStep
    BY <1>3, <1>5 DEF NotifySends, IsLastStep
  <2>2. DOMAIN out \subseteq Kinds
    BY DEF WithParticles, Kinds, Small
  <2>3. "particles" \in kinds <=> np > 0
    BY DEF WithParticles, SkipSend, Usual
  <2>4. IF "particles" \in kinds THEN DropBox(r) ELSE KeepBox(r)
    BY <1>5 DEF NotifySends
  <2>5. IsFiniteSet(Solved(r)) /\ np \in Nat /\ (np = 0 <=> Solved(r) = {})
    <3>1. Solved(r) \in Beams
      BY <1>1, BeamsClosed DEF Solved
    <3> QED
      BY <3>1, FS_CardinalityType, FS_EmptySet DEF Beams
  <2>6. DOMAIN out = kinds /\ ("particles" \in kinds => out["particles"] = Solved(r))
    OBVIOUS
  <2> HIDE DEF out, kinds, np
  <2>7. \A x \in Ranks : x # r \/ "particles" \notin kinds =>
           chan'["particles"][x] = chan["particles"][x]
    BY <1>1, <2>1, <2>2, <2>6, SendEffect
  <2>8. \A x \in Ranks \ {r} :
           /\ beam'[x] = beam[x] /\ headBin'[x] = headBin[x] /\ restBin'[x] = restBin[x]
    BY <1>1, <1>2, <2>4 DEF DropBox, KeepBox
  <2>9. headBin'[r] = {} /\ restBin'[r] = {}
    BY <1>1, <1>2
  <2>10. CASE "particles" \in kinds
    <3>1. \E m \in Msg("particles") :
            /\ chan'["particles"][r] = Append(chan["particles"][r], m)
            /\ Label(m) = <<step[r], box[r]>>
            /\ m.data = Solved(r)
      BY <1>1, <2>1, <2>2, <2>6, <2>10, SendEffect
    <3>2. beam'[r] = BelowBox(beam[r], box[r])
      BY <1>1, <2>4, <2>10 DEF DropBox
    <3>3. Solved(r) # {}
      BY <2>3, <2>5, <2>10
    <3> QED
      BY <2>1, <2>7, <2>8, <2>9, <3>1, <3>2, <3>3
  <2>11. CASE "particles" \notin kinds
    <3>1. Solved(r) = {}
      BY <2>3, <2>5, <2>11
    <3>2. beam'[r] = beam[r]
      BY <1>1, <2>4, <2>11, <3>1 DEF KeepBox
    <3> QED
      BY <2>1, <2>7, <2>8, <2>9, <2>11, <3>1, <3>2
  <2> QED
    BY <2>10, <2>11
<1> QED
  BY <1>2, <1>4, <1>5

\* A pushed particle keeps its name, does not move ahead and is a step older.
LEMMA PushEffect ==
    ASSUME NEW S \in Beams, NEW slip \in [S -> 0 .. MaxSlip],
           NEW q \in {Push(p, slip[p]) : p \in S}
    PROVE  \E p \in S : q.id = p.id /\ q.z <= p.z /\ q.age = p.age + 1
<1>1. PICK p \in S : q = Push(p, slip[p])
  OBVIOUS
<1>2. p.z \in Int /\ slip[p] \in 0 .. MaxSlip /\ MaxSlip \in Nat
  BY PipelineAssumption DEF Beams, Particle
<1>3. slip[p] \in Nat
  BY <1>2
<1>4. q.id = p.id /\ q.z = p.z - slip[p] /\ q.age = p.age + 1
  BY <1>1 DEF Push
<1>5. q.z <= p.z
  BY <1>2, <1>3, <1>4
<1> QED
  BY <1>4, <1>5

LEMMA TileAtHead ==
    ASSUME Usual, TypeOK, ControlOK, TileInv, NEW r \in Ranks, SolveHead(r)
    PROVE  TileInv'
<1> DEFINE b == box[r]
<1>1. /\ Moves(r, "SolveHead", "NotifyGhost") /\ step[r] \in Nat /\ b \in 0 .. N - 1 /\ N \in Nat
      /\ TileOK(r)
  BY ControlOfActions, RanksAreSomewhere DEF TileInv
<1>2. /\ step' = step /\ box' = box /\ pc'[r] = "NotifyGhost" /\ pc[r] = "SolveHead"
      /\ \A x \in Ranks \ {r} : pc'[x] = pc[x]
  BY <1>1, TypeOfControl DEF Moves
<1>3. b \in Int /\ HeadRegion(b) = 2 * b + 1 /\ HeadRegion(b - 1) = 2 * b - 1
  BY <1>1 DEF HeadRegion
<1>4. ASSUME NEW p \in beam[r]
      PROVE  p.z \in Int /\ p.age \in Nat /\ p.z <= 2 * b + 1 /\ (p.z >= 0 => p.age = step[r])
  <2>1. Unbinned(r) = b
    BY <1>2 DEF Unbinned, PastHead
  <2> QED
    BY <1>1, <1>3, <2>1, BeamTypes DEF TileOK
<1> HIDE DEF b
<1>5. ASSUME NEW p \in beam'[r]
      PROVE  p.z <= HeadRegion(b - 1) /\ (p.z >= 0 => p.age = step[r])
  <2>1. p \in beam[r] /\ BoxOf(p.z) # b
    BY <1>5, HeadEffect DEF MineOf, InBox, b
  <2>2. p.z \in Int /\ p.z <= 2 * b + 1 /\ (p.z >= 0 => p.age = step[r])
    BY <1>4, <2>1
  <2>3. p.z # 2 * b /\ p.z # 2 * b + 1
    BY <1>3, <2>1, <2>2, BoxRegions
  <2> QED
    BY <1>3, <2>2, <2>3
<1>6. ASSUME NEW q \in headBin'[r]
      PROVE  q.z <= HeadRegion(b) /\ q.age = step[r] + 1
  <2>1. HeadOf(r) \in Beams /\ \A p \in HeadOf(r) : p \in beam[r] /\ p.z = HeadRegion(b)
    BY BeamTypes, BeamsClosed DEF HeadOf, MineOf, InBox, b
  <2>2. PICK p \in HeadOf(r) : q.z <= p.z /\ q.age = p.age + 1
    BY <1>6, <2>1, HeadEffect, PushEffect
  <2>3. p.age = step[r] /\ p.z = HeadRegion(b)
    BY <1>1, <1>3, <1>4, <2>1 DEF b
  <2> QED
    BY <2>2, <2>3
<1>7. ASSUME NEW p \in restBin'[r]
      PROVE  p.z < HeadRegion(b) /\ p.age = step[r]
  <2>1. p \in beam[r] /\ BoxOf(p.z) = b /\ p.z # HeadRegion(b)
    BY <1>7, HeadEffect DEF MineOf, HeadOf, InBox, b
  <2>2. p.z = 2 * b
    BY <1>3, <1>4, <2>1, BoxRegions
  <2>3. 2 * b >= 0
    BY <1>1 DEF b
  <2> QED
    BY <1>3, <1>4, <2>1, <2>2, <2>3
<1>8. TileOK(r)'
  <2>1. Unbinned(r)' = b - 1
    BY <1>2 DEF Unbinned, PastHead, b
  <2> QED
    BY <1>1, <1>2, <1>5, <1>6, <1>7, <2>1 DEF TileOK, PastHead, b
<1> QED
  BY <1>2, <1>8, HeadEffect, TileFrame DEF TileInv

LEMMA TileAtTail ==
    ASSUME Usual, TypeOK, ControlOK, TileInv, NEW r \in Ranks, SolveTail(r)
    PROVE  TileInv'
<1>1. Moves(r, "SolveTail", "Notify") /\ step[r] \in Nat /\ box[r] \in Int /\ TileOK(r)
  BY ControlOfActions, RanksAreSomewhere DEF TileInv
<1>2. /\ step' = step /\ box' = box /\ pc'[r] = "Notify" /\ pc[r] = "SolveTail"
      /\ \A x \in Ranks \ {r} : pc'[x] = pc[x]
  BY <1>1, TypeOfControl DEF Moves
<1>3. /\ beam' = beam /\ headBin' = headBin
      /\ \A x \in Ranks \ {r} : restBin'[x] = restBin[x]
  BY TailEffect
<1>4. ASSUME NEW q \in restBin'[r]
      PROVE  q.z < HeadRegion(box[r]) /\ q.age = step[r] + 1
  <2>1. PICK p \in restBin[r] : q.z <= p.z /\ q.age = p.age + 1
    BY <1>4, BeamTypes, TailEffect, PushEffect
  <2>2. p.z < HeadRegion(box[r]) /\ p.age = step[r]
    BY <1>1, <1>2 DEF TileOK
  <2>3. q.z \in Int /\ p.z \in Int /\ HeadRegion(box[r]) \in Int
    <3>1. PICK slip \in [restBin[r] -> 0 .. MaxSlip] :
            restBin'[r] = {Push(w, slip[w]) : w \in restBin[r]}
      BY TailEffect
    <3>2. PICK w \in restBin[r] : q = Push(w, slip[w])
      BY <1>4, <3>1
    <3>3. w.z \in Int /\ slip[w] \in Int
      BY BeamTypes, PipelineAssumption
    <3>4. q.z \in Int
      BY <3>2, <3>3 DEF Push
    <3> QED
      BY <1>1, <3>4, BeamTypes
  <2> QED
    BY <2>1, <2>2, <2>3
<1>5. TileOK(r)'
  <2>1. Unbinned(r)' = Unbinned(r)
    BY <1>2 DEF Unbinned, PastHead
  <2> QED
    BY <1>1, <1>2, <1>3, <1>4, <2>1 DEF TileOK, PastHead
<1> QED
  BY <1>2, <1>3, <1>5, TileFrame DEF TileInv

LEMMA TileAtNotify ==
    ASSUME Usual, TypeOK, TypeOK', ControlOK, TileInv, NEW r \in Ranks, Notify(r)
    PROVE  TileInv'
<1>1. /\ step[r] \in Nat /\ box[r] \in 0 .. N - 1 /\ N \in Nat \ {0} /\ TileOK(r)
      /\ pc[r] = "Notify"
  BY RanksAreSomewhere, ControlOfNotify DEF TileInv
<1>2. beam'[r] \subseteq beam[r] /\ headBin'[r] = {} /\ restBin'[r] = {}
  BY NotifyEffect DEF BelowBox
<1>3. Unbinned(r) = box[r] - 1
  BY <1>1 DEF Unbinned, PastHead
<1>4. \A p \in beam'[r] : p.z \in Int /\ p.z <= 2 * box[r] - 1 /\ (p.z >= 0 => p.age = step[r])
  <2>1. HeadRegion(box[r] - 1) = 2 * box[r] - 1
    BY <1>1 DEF HeadRegion
  <2> QED
    BY <1>1, <1>2, <1>3, <2>1, BeamTypes DEF TileOK
<1>5. pc'[r] \notin PastHead /\ Unbinned(r)' = box'[r]
  BY <1>1, ControlOfNotify DEF Unbinned, PastHead
<1>6. \A p \in beam'[r] : p.z <= HeadRegion(box'[r]) /\ (p.z >= 0 => p.age = step'[r])
  <2>1. CASE box[r] = 0
    <3>1. HeadRegion(box'[r]) >= 0
      BY <1>1, <2>1, ControlOfNotify DEF HeadRegion
    <3>2. HeadRegion(box'[r]) \in Int
      BY <1>1, <2>1, ControlOfNotify DEF HeadRegion
    <3> QED
      BY <1>4, <2>1, <3>1, <3>2
  <2>2. CASE box[r] # 0
    <3>1. HeadRegion(box'[r]) = 2 * box[r] - 1 /\ step'[r] = step[r]
      BY <1>1, <2>2, ControlOfNotify DEF HeadRegion
    <3> QED
      BY <1>4, <3>1
  <2> QED
    BY <2>1, <2>2
<1>7. TileOK(r)'
  BY <1>2, <1>5, <1>6 DEF TileOK
<1> QED
  BY <1>7, NotifyEffect, ControlOfNotify, TileFrame DEF TileInv

LEMMA TileStep ==
    ASSUME Usual, MessageInv, MessageInv', AgeInv, [Next]_vars
    PROVE  TileInv'
<1>1. TypeOK /\ TypeOK' /\ ControlOK /\ TileInv
  BY DEF MessageInv, AgeInv
<1>2. ASSUME NEW r \in Ranks,
             \/ StartStep(r) \/ WaitReturns(r) \/ NotifyGhostReturns(r)
             \/ NotifyGhostLastStep(r) \/ NotifyGhostSends(r) \/ WaitGhostReturns(r)
             \/ WaitGhostReceives(r) \/ Destroy(r)
      PROVE  TileInv'
  <2>1. \/ Moves(r, "StartStep", "Wait") \/ Moves(r, "Wait", "SolveHead")
        \/ Moves(r, "NotifyGhost", "WaitGhost") \/ Moves(r, "WaitGhost", "SolveTail")
        \/ Moves(r, "StartStep", "Gone")
    BY <1>2, ControlOfActions
  <2>2. UNCHANGED <<beam, headBin, restBin>>
    BY <1>2 DEF StartStep, WaitReturns, NotifyGhostReturns, NotifyGhostLastStep,
                NotifyGhostSends, WaitGhostReturns, WaitGhostReceives, Destroy
  <2> QED
    BY <1>1, <2>1, <2>2, TileStays DEF PastHead
<1>3. CASE UNCHANGED vars
  BY <1>1, <1>3, TileFrame DEF vars, TileInv
<1> QED
  BY <1>1, <1>2, <1>3, TileAtWait, TileAtHead, TileAtTail, TileAtNotify
  DEF Next, RankNext, Terminating

\* What Notify sends of a box has been pushed in the sender's step.
LEMMA ParcelStep ==
    ASSUME Usual, MessageInv, MessageInv', AgeInv, [Next]_vars
    PROVE  ParcelInv'
<1>1. TypeOK /\ TypeOK' /\ ControlOK /\ ChanOK /\ "particles" \in Kinds /\ ParcelInv /\ TileInv
  BY TypeOfControl DEF MessageInv, AgeInv, Kinds, Small
<1>2. SUFFICES ASSUME NEW x \in Ranks, NEW m \in InFlight("particles", x)'
               PROVE  ParcelOK(m)
  BY DEF ParcelInv, ParcelOK
<1>3. CASE m \in InFlight("particles", x)
  BY <1>1, <1>3 DEF ParcelInv
<1>4. CASE Sends(x, "particles", m)
  <2>1. /\ pc[x] = "Notify" /\ m.data = headBin[x] \union restBin[x]
        /\ m.step = step[x] /\ m.box = box[x]
    BY <1>4 DEF Sends, Solved, Label, Notify
  <2>2. \A p \in restBin[x] : p.z < HeadRegion(box[x]) /\ p.age = step[x] + 1
    BY <1>1, <2>1 DEF TileInv, TileOK
  <2>3. \A p \in restBin[x] : p.z <= HeadRegion(box[x])
    <3>1. HeadRegion(box[x]) \in Int /\ \A p \in restBin[x] : p.z \in Int
      BY <1>1, RanksAreSomewhere, BeamTypes
    <3> QED
      BY <2>2, <3>1
  <2>4. \A p \in headBin[x] : p.z <= HeadRegion(box[x]) /\ p.age = step[x] + 1
    BY <1>1 DEF TileInv, TileOK
  <2> QED
    BY <2>1, <2>2, <2>3, <2>4 DEF ParcelOK
<1> QED
  BY <1>1, <1>3, <1>4, MessagesComeFrom

LEMMA InitAge == Usual /\ Init => AgeInv
<1> SUFFICES ASSUME Usual, Init
             PROVE  AgeInv
  OBVIOUS
<1>1. TypeOK
  BY InitType
<1>2. /\ \A r \in Ranks : chan["particles"][r] = <<>>
      /\ Len(<<>>) = 0
  BY DEF Init, Kinds, Small
<1>3. PICK place \in [ParticleId -> 0 .. 2 * NumBoxes - 1] :
        beam = [r \in Ranks |->
                  IF HasBeam(r)
                    THEN {[id |-> i, z |-> place[i], age |-> 0] : i \in ParticleId}
                    ELSE {}]
  BY DEF Init
<1>4. ASSUME NEW r \in Ranks
      PROVE  TileOK(r)
  <2>1. /\ pc[r] = "StartStep" /\ headBin[r] = {} /\ restBin[r] = {}
        /\ step[r] = N - 1 - r /\ box[r] = NumBoxes - 1
    BY DEF Init
  <2>2. Unbinned(r) = NumBoxes - 1 /\ HeadRegion(NumBoxes - 1) = 2 * NumBoxes - 1
    BY <2>1, Constants DEF Unbinned, PastHead, HeadRegion
  <2>3. ASSUME NEW p \in beam[r]
        PROVE  p.z <= HeadRegion(Unbinned(r)) /\ p.age = step[r]
    <3>1. HasBeam(r) /\ p \in {[id |-> i, z |-> place[i], age |-> 0] : i \in ParticleId}
      BY <1>3, <2>3
    <3>2. PICK i \in ParticleId : p = [id |-> i, z |-> place[i], age |-> 0]
      BY <3>1
    <3>3. place[i] \in Int /\ place[i] <= 2 * NumBoxes - 1 /\ step[r] = 0
      BY <2>1, <3>1, Constants DEF HasBeam, HeadRank
    <3> QED
      BY <2>2, <3>2, <3>3
  <2> QED
    BY <2>1, <2>3 DEF TileOK, PastHead
<1> QED
  BY <1>2, <1>4 DEF AgeInv, TileInv, ParcelInv, InFlight

LEMMA NextAge == Usual /\ MessageInv /\ MessageInv' /\ AgeInv /\ [Next]_vars => AgeInv'
  BY TileStep, ParcelStep DEF AgeInv

\* Each particle of a box is pushed once in each step, in the slice it was
\* binned in: the beam that Wait receives from upstream, and the beam that was
\* in the tile all along, come to SolveSlice with the same number of pushes.
THEOREM PushesOncePerStep == Usual => (Spec => []PushedOncePerStep)
<1> SUFFICES ASSUME Usual
             PROVE  Spec => []PushedOncePerStep
  OBVIOUS
<1>1. Init => MessageInv /\ AgeInv
  BY InitMessages, InitAge
<1>2. MessageInv /\ AgeInv /\ [Next]_vars => MessageInv' /\ AgeInv'
  BY NextMessages, NextAge
<1>3. AgeInv => PushedOncePerStep
  BY DEF AgeInv, TileInv, TileOK, PushedOncePerStep
<1> QED
  BY <1>1, <1>2, <1>3, PTL DEF Spec

-----------------------------------------------------------------------------
(* In one place                                                            *)

LEMMA SpotsAre ==
    /\ \A r, n, p : <<r, n, p>> \in Spots <=>
          r \in Ranks /\ n \in Int /\ p \in Particle /\ p \in At(r, n)
    /\ \A r, n, p : <<r, n, p>> \in Spots' <=>
          r \in Ranks /\ n \in Int /\ p \in Particle /\ p \in At(r, n)'
    /\ \A c \in Spots : c = <<c[1], c[2], c[3]>>
    /\ \A c \in Spots' : c = <<c[1], c[2], c[3]>>
  BY DEF Spots

\* A particle behind the domain or done with its steps may go.
MayGo(p) == p.z < 0 \/ p.age = MaxStep + 1

Places == Ranks \X Int \X Particle

\* The handlers move particles: g tells where from each place.
SpotsMove ==
    \E g \in [Spots -> Places] :
        /\ \A d \in Spots' : \E c \in Spots : c[3].id = d[3].id /\ d = g[c]
        /\ \A c \in Spots : (g[c] \in Spots' /\ g[c][3].id = c[3].id) \/ MayGo(c[3])

LEMMA OnePlaceKept ==
    ASSUME OnePlace, SpotsMove
    PROVE  OnePlace'
<1>1. PICK g : \A d \in Spots' : \E c \in Spots : c[3].id = d[3].id /\ d = g[c]
  BY Zenon DEF SpotsMove
<1>2. ASSUME NEW d \in Spots', NEW e \in Spots', d[3].id = e[3].id
      PROVE  d = e
  <2>1. PICK b \in Spots : b[3].id = d[3].id /\ d = g[b]
    BY <1>1, Zenon
  <2>2. PICK c \in Spots : c[3].id = e[3].id /\ e = g[c]
    BY <1>1, Zenon
  <2>3. b = c
    BY <1>2, <2>1, <2>2 DEF OnePlace
  <2> QED
    BY <2>1, <2>2, <2>3
<1> QED
  BY <1>2 DEF OnePlace

LEMMA NothingMoves ==
    ASSUME \A x \in Ranks, n \in Int : At(x, n)' = At(x, n)
    PROVE  SpotsMove
<1> DEFINE g == [c \in Spots |-> c]
<1>1. Spots' = Spots /\ Spots \subseteq Places
  BY DEF Spots, Places
<1>2. g \in [Spots -> Places]
  BY <1>1
<1>3. \A c \in Spots : g[c] = c
  OBVIOUS
<1> HIDE DEF g
<1> QED
  BY <1>1, <1>2, <1>3 DEF SpotsMove

\* The first message of u comes to the tile of r.
LEMMA FirstMessageMoves ==
    ASSUME NEW r \in Ranks, NEW u \in Ranks,
           At(r, 0)' = At(r, 0) \union At(u, 1),
           \A n \in Int : n >= 1 => At(u, n)' = At(u, n + 1),
           \A x \in Ranks, n \in Int :
              ~ (x = r /\ n = 0) /\ ~ (x = u /\ n >= 1) => At(x, n)' = At(x, n)
    PROVE  SpotsMove
<1> DEFINE g == [c \in Spots |->
                   IF c[1] = u /\ c[2] = 1
                     THEN <<r, 0, c[3]>>
                     ELSE IF c[1] = u /\ c[2] > 1 THEN <<u, c[2] - 1, c[3]>> ELSE c]
<1>1. /\ \A p : <<u, 1, p>> \in Spots => g[<<u, 1, p>>] = <<r, 0, p>>
      /\ \A n \in Int : \A p :
            n > 1 /\ <<u, n, p>> \in Spots => g[<<u, n, p>>] = <<u, n - 1, p>>
      /\ \A n \in Int : \A x, p :
            ~ (x = u /\ n >= 1) /\ <<x, n, p>> \in Spots => g[<<x, n, p>>] = <<x, n, p>>
  OBVIOUS
<1>2. \A c \in Spots : c \in Places
  BY DEF Spots, Places
<1>3. g \in [Spots -> Places]
  <2>1. ASSUME NEW c \in Spots
        PROVE  g[c] \in Places
    <3>1. c[1] \in Ranks /\ c[2] \in Int /\ c[3] \in Particle
      BY <1>2 DEF Places
    <3> QED
      BY <1>2, <3>1 DEF Places
  <2> QED
    BY <2>1
<1> HIDE DEF g
<1>4. ASSUME NEW d \in Spots'
      PROVE  \E c \in Spots : c[3].id = d[3].id /\ d = g[c]
  <2>1. PICK x, n, p : d = <<x, n, p>>
    BY <1>4, SpotsAre
  <2>2. x \in Ranks /\ n \in Int /\ p \in Particle /\ p \in At(x, n)'
    BY <1>4, <2>1, SpotsAre
  <2>3. CASE x = r /\ n = 0 /\ p \in At(u, 1)
    <3>1. <<u, 1, p>> \in Spots
      BY <2>2, <2>3, SpotsAre
    <3>2. g[<<u, 1, p>>] = d
      BY <1>1, <2>1, <2>3, <3>1
    <3> QED
      BY <2>1, <3>1, <3>2
  <2>4. CASE x = u /\ n >= 1
    <3>1. n + 1 \in Int /\ n + 1 >= 1 /\ n + 1 # 1 /\ (n + 1) - 1 = n
      BY <2>2, <2>4
    <3>2. <<u, n + 1, p>> \in Spots
      BY <2>2, <2>4, <3>1, SpotsAre
    <3>3. g[<<u, n + 1, p>>] = d
      BY <1>1, <2>1, <2>4, <3>1, <3>2
    <3> QED
      BY <2>1, <3>2, <3>3
  <2>5. CASE ~ (x = r /\ n = 0 /\ p \in At(u, 1)) /\ ~ (x = u /\ n >= 1)
    <3>1. p \in At(x, n)
      BY <2>2, <2>5
    <3>2. d \in Spots
      BY <2>1, <2>2, <3>1, SpotsAre
    <3>3. g[d] = d
      BY <1>1, <2>1, <2>2, <2>5, <3>2
    <3> QED
      BY <3>2, <3>3
  <2> QED
    BY <2>3, <2>4, <2>5
<1>5. ASSUME NEW c \in Spots
      PROVE  g[c] \in Spots' /\ g[c][3].id = c[3].id
  <2>1. PICK x, n, p : c = <<x, n, p>>
    BY <1>5, SpotsAre
  <2>2. x \in Ranks /\ n \in Int /\ p \in Particle /\ p \in At(x, n)
    BY <1>5, <2>1, SpotsAre
  <2>3. CASE x = u /\ n = 1
    <3>1. g[c] = <<r, 0, p>> /\ p \in At(r, 0)'
      BY <1>1, <1>5, <2>1, <2>2, <2>3
    <3> QED
      BY <2>1, <2>2, <3>1, SpotsAre
  <2>4. CASE x = u /\ n > 1
    <3>1. g[c] = <<u, n - 1, p>> /\ n - 1 \in Int /\ n - 1 >= 1 /\ (n - 1) + 1 = n
      BY <1>1, <1>5, <2>1, <2>2, <2>4
    <3>2. p \in At(u, n - 1)'
      BY <2>2, <2>4, <3>1
    <3> QED
      BY <2>1, <2>2, <3>1, <3>2, SpotsAre
  <2>5. CASE ~ (x = u /\ n >= 1)
    <3>1. g[c] = c /\ p \in At(x, n)'
      BY <1>1, <1>5, <2>1, <2>2, <2>5
    <3> QED
      BY <2>1, <2>2, <3>1, SpotsAre
  <2> QED
    BY <2>2, <2>3, <2>4, <2>5
<1> QED
  BY <1>3, <1>4, <1>5 DEF SpotsMove

\* The box of r goes from its tile to its bins, and a bin H of it is pushed.
LEMMA BoxIsBinned ==
    ASSUME NEW r \in Ranks, NEW M, NEW H, H \subseteq M, M \subseteq At(r, 0),
           At(r, 0) \subseteq Particle, NEW slip,
           \A p \in H : Push(p, slip[p]) \in Particle,
           At(r, -1) = {}, At(r, -2) = {},
           At(r, 0)' = At(r, 0) \ M,
           At(r, -1)' = {Push(p, slip[p]) : p \in H},
           At(r, -2)' = M \ H,
           \A x \in Ranks, n \in Int : ~ (x = r /\ n \in {0, -1, -2}) => At(x, n)' = At(x, n)
    PROVE  SpotsMove
<1> DEFINE Next1(p) == <<r, -1, Push(p, slip[p])>>
           g == [c \in Spots |->
                   IF c[1] = r /\ c[2] = 0 /\ c[3] \in H
                     THEN Next1(c[3])
                     ELSE IF c[1] = r /\ c[2] = 0 /\ c[3] \in M THEN <<r, -2, c[3]>> ELSE c]
<1>1. /\ \A p : p \in H /\ <<r, 0, p>> \in Spots => g[<<r, 0, p>>] = Next1(p)
      /\ \A p : p \in M \ H /\ <<r, 0, p>> \in Spots => g[<<r, 0, p>>] = <<r, -2, p>>
      /\ \A x, n, p : ~ (x = r /\ n = 0 /\ p \in M) /\ <<x, n, p>> \in Spots =>
                         g[<<x, n, p>>] = <<x, n, p>>
  OBVIOUS
<1>2. \A c \in Spots : c \in Places
  BY DEF Spots, Places
<1>3. g \in [Spots -> Places]
  <2>1. ASSUME NEW c \in Spots
        PROVE  g[c] \in Places
    <3>1. c[1] \in Ranks /\ c[2] \in Int /\ c[3] \in Particle
      BY <1>2 DEF Places
    <3> QED
      BY <1>2, <3>1 DEF Places
  <2> QED
    BY <2>1
<1> HIDE DEF g
<1>4. \A p : Push(p, slip[p]).id = p.id
  BY DEF Push
<1>5. ASSUME NEW d \in Spots'
      PROVE  \E c \in Spots : c[3].id = d[3].id /\ d = g[c]
  <2>1. PICK x, n, p : d = <<x, n, p>>
    BY <1>5, SpotsAre
  <2>2. x \in Ranks /\ n \in Int /\ p \in Particle /\ p \in At(x, n)'
    BY <1>5, <2>1, SpotsAre
  <2>3. CASE x = r /\ n = -1
    <3>1. PICK q \in H : p = Push(q, slip[q])
      BY <2>2, <2>3
    <3>2. q \in At(r, 0) /\ q \in Particle
      OBVIOUS
    <3>3. <<r, 0, q>> \in Spots
      BY <3>2, SpotsAre
    <3>4. g[<<r, 0, q>>] = d
      BY <1>1, <2>1, <2>3, <3>1, <3>3
    <3>5. <<r, 0, q>>[3].id = d[3].id
      BY <1>4, <2>1, <3>1
    <3> HIDE DEF Next1
    <3> QED
      BY <3>3, <3>4, <3>5, Zenon
  <2>4. CASE x = r /\ n = -2
    <3>1. p \in M \ H
      BY <2>2, <2>4
    <3>2. <<r, 0, p>> \in Spots
      BY <2>2, <3>1, SpotsAre
    <3>3. g[<<r, 0, p>>] = d
      BY <1>1, <2>1, <2>4, <3>1, <3>2
    <3> QED
      BY <2>1, <3>2, <3>3
  <2>5. CASE ~ (x = r /\ n \in {-1, -2})
    <3>1. p \in At(x, n) /\ ~ (x = r /\ n = 0 /\ p \in M)
      BY <2>2, <2>5
    <3>2. d \in Spots
      BY <2>1, <2>2, <3>1, SpotsAre
    <3>3. g[d] = d
      BY <1>1, <2>1, <3>1, <3>2
    <3> QED
      BY <3>2, <3>3
  <2> QED
    BY <2>3, <2>4, <2>5
<1>6. ASSUME NEW c \in Spots
      PROVE  g[c] \in Spots' /\ g[c][3].id = c[3].id
  <2>1. PICK x, n, p : c = <<x, n, p>>
    BY <1>6, SpotsAre
  <2>2. x \in Ranks /\ n \in Int /\ p \in Particle /\ p \in At(x, n)
    BY <1>6, <2>1, SpotsAre
  <2>3. CASE x = r /\ n = 0 /\ p \in H
    <3>1. g[c] = Next1(p) /\ Push(p, slip[p]) \in At(r, -1)'
      BY <1>1, <1>6, <2>1, <2>3
    <3>2. Push(p, slip[p]) \in Particle /\ -1 \in Int
      BY <2>3
    <3>3. Next1(p) \in Spots'
      BY <3>1, <3>2, SpotsAre
    <3> QED
      BY <1>4, <2>1, <3>1, <3>3
  <2>4. CASE x = r /\ n = 0 /\ p \in M \ H
    <3>1. g[c] = <<r, -2, p>> /\ p \in At(r, -2)' /\ -2 \in Int
      BY <1>1, <1>6, <2>1, <2>4
    <3> QED
      BY <2>1, <2>2, <3>1, SpotsAre
  <2>5. CASE ~ (x = r /\ n = 0 /\ p \in M)
    <3>1. g[c] = c /\ p \in At(x, n)'
      BY <1>1, <1>6, <2>1, <2>2, <2>5
    <3> QED
      BY <2>1, <2>2, <3>1, SpotsAre
  <2> QED
    BY <2>2, <2>3, <2>4, <2>5
<1> QED
  BY <1>3, <1>5, <1>6 DEF SpotsMove

\* The other slices of the box are pushed where they are.
LEMMA BinIsPushed ==
    ASSUME NEW r \in Ranks, NEW slip,
           \A p \in At(r, -2) : p \in Particle /\ Push(p, slip[p]) \in Particle,
           At(r, -2)' = {Push(p, slip[p]) : p \in At(r, -2)},
           \A x \in Ranks, n \in Int : ~ (x = r /\ n = -2) => At(x, n)' = At(x, n)
    PROVE  SpotsMove
<1> DEFINE g == [c \in Spots |->
                   IF c[1] = r /\ c[2] = -2 THEN <<r, -2, Push(c[3], slip[c[3]])>> ELSE c]
<1>1. /\ \A p : <<r, -2, p>> \in Spots => g[<<r, -2, p>>] = <<r, -2, Push(p, slip[p])>>
      /\ \A x, n, p : ~ (x = r /\ n = -2) /\ <<x, n, p>> \in Spots =>
                         g[<<x, n, p>>] = <<x, n, p>>
  OBVIOUS
<1>2. \A c \in Spots : c \in Places
  BY DEF Spots, Places
<1>3. g \in [Spots -> Places]
  <2>1. ASSUME NEW c \in Spots
        PROVE  g[c] \in Places
    <3>1. c = <<c[1], c[2], c[3]>> /\ c[3] \in At(c[1], c[2])
      BY SpotsAre DEF Spots
    <3>2. c[1] = r /\ c[2] = -2 => Push(c[3], slip[c[3]]) \in Particle
      BY <3>1
    <3> QED
      BY <1>2, <3>2 DEF Places
  <2> QED
    BY <2>1
<1> HIDE DEF g
<1>4. \A p : Push(p, slip[p]).id = p.id
  BY DEF Push
<1>5. -2 \in Int
  OBVIOUS
<1>6. ASSUME NEW d \in Spots'
      PROVE  \E c \in Spots : c[3].id = d[3].id /\ d = g[c]
  <2>1. PICK x, n, p : d = <<x, n, p>>
    BY <1>6, SpotsAre
  <2>2. x \in Ranks /\ n \in Int /\ p \in Particle /\ p \in At(x, n)'
    BY <1>6, <2>1, SpotsAre
  <2>3. CASE x = r /\ n = -2
    <3>1. PICK q \in At(r, -2) : p = Push(q, slip[q])
      BY <2>2, <2>3
    <3>2. <<r, -2, q>> \in Spots
      BY <1>5, <3>1, SpotsAre
    <3>3. g[<<r, -2, q>>] = d
      BY <1>1, <2>1, <2>3, <3>1, <3>2
    <3>4. <<r, -2, q>>[3].id = d[3].id
      BY <1>4, <2>1, <3>1
    <3> QED
      BY <3>2, <3>3, <3>4, Zenon
  <2>4. CASE ~ (x = r /\ n = -2)
    <3>1. d \in Spots
      BY <2>1, <2>2, <2>4, SpotsAre
    <3>2. g[d] = d
      BY <1>1, <2>1, <2>4, <3>1
    <3> QED
      BY <3>1, <3>2
  <2> QED
    BY <2>3, <2>4
<1>7. ASSUME NEW c \in Spots
      PROVE  g[c] \in Spots' /\ g[c][3].id = c[3].id
  <2>1. PICK x, n, p : c = <<x, n, p>>
    BY <1>7, SpotsAre
  <2>2. x \in Ranks /\ n \in Int /\ p \in Particle /\ p \in At(x, n)
    BY <1>7, <2>1, SpotsAre
  <2>3. CASE x = r /\ n = -2
    <3>1. g[c] = <<r, -2, Push(p, slip[p])>> /\ Push(p, slip[p]) \in At(r, -2)'
      BY <1>1, <1>7, <2>1, <2>2, <2>3
    <3>2. Push(p, slip[p]) \in Particle
      BY <2>2, <2>3
    <3> QED
      BY <1>4, <1>5, <2>1, <3>1, <3>2, SpotsAre
  <2>4. CASE ~ (x = r /\ n = -2)
    <3>1. g[c] = c /\ p \in At(x, n)'
      BY <1>1, <1>7, <2>1, <2>2, <2>4
    <3> QED
      BY <2>1, <2>2, <3>1, SpotsAre
  <2> QED
    BY <2>3, <2>4
<1> QED
  BY <1>3, <1>6, <1>7 DEF SpotsMove

\* The bins of r go to a new place, or they may go, as what leaves the tile may.
LEMMA BinsLeave ==
    ASSUME NEW r \in Ranks, NEW l \in Int, l \notin {0, -1, -2}, At(r, l) \subseteq At(r, l)',
           At(r, -1)' = {}, At(r, -2)' = {}, At(r, 0)' \subseteq At(r, 0),
           \A p \in At(r, 0) \ At(r, 0)' : MayGo(p),
           At(r, l)' \subseteq At(r, l) \union At(r, -1) \union At(r, -2),
           \A p \in At(r, -1) \union At(r, -2) : p \in At(r, l)' \/ MayGo(p),
           \A x \in Ranks, n \in Int :
              ~ (x = r /\ n \in {0, -1, -2, l}) => At(x, n)' = At(x, n)
    PROVE  SpotsMove
<1> DEFINE g == [c \in Spots |->
                   IF c[1] = r /\ c[2] \in {-1, -2} THEN <<r, l, c[3]>> ELSE c]
<1>1. /\ \A n, p : n \in {-1, -2} /\ <<r, n, p>> \in Spots => g[<<r, n, p>>] = <<r, l, p>>
      /\ \A x, n, p : ~ (x = r /\ n \in {-1, -2}) /\ <<x, n, p>> \in Spots =>
                         g[<<x, n, p>>] = <<x, n, p>>
  OBVIOUS
<1>2. \A c \in Spots : c \in Places
  BY DEF Spots, Places
<1>3. g \in [Spots -> Places]
  BY <1>2 DEF Places
<1> HIDE DEF g
<1>4. -1 \in Int /\ -2 \in Int
  OBVIOUS
<1>5. ASSUME NEW d \in Spots'
      PROVE  \E c \in Spots : c[3].id = d[3].id /\ d = g[c]
  <2>1. PICK x, n, p : d = <<x, n, p>>
    BY <1>5, SpotsAre
  <2>2. x \in Ranks /\ n \in Int /\ p \in Particle /\ p \in At(x, n)'
    BY <1>5, <2>1, SpotsAre
  <2>3. ~ (x = r /\ n \in {-1, -2})
    BY <2>2
  <2>4. CASE p \in At(x, n)
    <3>1. d \in Spots
      BY <2>1, <2>2, <2>4, SpotsAre
    <3>2. g[d] = d
      BY <1>1, <2>1, <2>3, <3>1
    <3> QED
      BY <3>1, <3>2
  <2>5. CASE p \notin At(x, n)
    <3>1. x = r /\ n = l
      BY <2>2, <2>3, <2>5
    <3>2. PICK k \in {-1, -2} : p \in At(r, k)
      BY <2>2, <2>5, <3>1
    <3>3. <<r, k, p>> \in Spots
      BY <1>4, <2>2, <3>2, SpotsAre
    <3>4. g[<<r, k, p>>] = d
      BY <1>1, <2>1, <3>1, <3>3
    <3> QED
      BY <2>1, <3>3, <3>4
  <2> QED
    BY <2>4, <2>5
<1>6. ASSUME NEW c \in Spots, ~ MayGo(c[3])
      PROVE  g[c] \in Spots' /\ g[c][3].id = c[3].id
  <2>1. PICK x, n, p : c = <<x, n, p>>
    BY <1>6, SpotsAre
  <2>2. x \in Ranks /\ n \in Int /\ p \in Particle /\ p \in At(x, n) /\ ~ MayGo(p)
    BY <1>6, <2>1, SpotsAre
  <2>3. CASE x = r /\ n \in {-1, -2}
    <3>1. g[c] = <<r, l, p>>
      BY <1>1, <1>6, <2>1, <2>3
    <3>2. p \in At(r, l)'
      BY <2>2, <2>3
    <3> QED
      BY <2>1, <2>2, <3>1, <3>2, SpotsAre
  <2>4. CASE ~ (x = r /\ n \in {-1, -2})
    <3>1. g[c] = c
      BY <1>1, <1>6, <2>1, <2>4
    <3>2. p \in At(x, n)'
      BY <2>2, <2>4
    <3> QED
      BY <2>1, <2>2, <3>1, <3>2, SpotsAre
  <2> QED
    BY <2>3, <2>4
<1> QED
  BY <1>3, <1>5, <1>6 DEF SpotsMove

LEMMA PlacesAre ==
    ASSUME NEW x
    PROVE  /\ At(x, 0) = beam[x] /\ At(x, -1) = headBin[x] /\ At(x, -2) = restBin[x]
           /\ At(x, 0)' = beam'[x] /\ At(x, -1)' = headBin'[x] /\ At(x, -2)' = restBin'[x]
  BY DEF At

LEMMA MessagePlaces ==
    ASSUME NEW x, NEW n \in Int, n \notin {0, -1, -2}
    PROVE  /\ At(x, n) = IF n \in 1 .. Len(chan["particles"][x])
                           THEN chan["particles"][x][n].data ELSE {}
           /\ At(x, n)' = IF n \in 1 .. Len(chan'["particles"][x])
                            THEN chan'["particles"][x][n].data ELSE {}
  BY DEF At

LEMMA PlaceKept ==
    ASSUME NEW x, NEW n \in Int,
           n = 0 => beam'[x] = beam[x],
           n = -1 => headBin'[x] = headBin[x],
           n = -2 => restBin'[x] = restBin[x],
           n \notin {0, -1, -2} => chan'["particles"][x] = chan["particles"][x]
    PROVE  At(x, n)' = At(x, n)
  BY DEF At

\* A handler that touches no particles.
LEMMA QuietMoves ==
    ASSUME UNCHANGED <<beam, headBin, restBin>>,
           \A x \in Ranks : chan'["particles"][x] = chan["particles"][x]
    PROVE  SpotsMove
  BY PlaceKept, NothingMoves

\* The handlers other than Wait, SolveSlice and Notify for the beam itself.
LEMMA GhostHandlersAreQuiet ==
    ASSUME TypeOK, TypeOK', NEW r \in Ranks,
           \/ StartStep(r) \/ WaitReturns(r) \/ NotifyGhostReturns(r)
           \/ NotifyGhostLastStep(r) \/ NotifyGhostSends(r) \/ WaitGhostReturns(r)
           \/ WaitGhostReceives(r) \/ Destroy(r)
    PROVE  /\ UNCHANGED <<beam, headBin, restBin>>
           /\ \A x \in Ranks : chan'["particles"][x] = chan["particles"][x]
<1>1. UNCHANGED <<beam, headBin, restBin>>
  BY DEF StartStep, WaitReturns, NotifyGhostReturns, NotifyGhostLastStep,
         NotifyGhostSends, WaitGhostReturns, WaitGhostReceives, Destroy
<1>2. ChanOK /\ ChanOK' /\ "particles" \in Kinds
  BY DEF TypeOK, Kinds, Small
<1>3. CASE StartStep(r) \/ WaitReturns(r) \/ NotifyGhostReturns(r) \/ WaitGhostReturns(r)
           \/ Destroy(r)
  <2>1. chan' = chan
    BY <1>3 DEF StartStep, WaitReturns, NotifyGhostReturns, WaitGhostReturns, Destroy
  <2> QED
    BY <1>1, <2>1
<1>4. CASE NotifyGhostLastStep(r)
  <2>1. \A k \in Kinds : chan'[k] = chan[k]
    BY <1>2, <1>4, FinishOnly DEF NotifyGhostLastStep
  <2> QED
    BY <1>1, <1>2, <2>1
<1>5. CASE NotifyGhostSends(r)
  <2> DEFINE np == Cardinality(headBin[r])
             kinds == IF SkipSend(r) THEN {}
                      ELSE WithParticles("ghostCounts", "ghostParticles", np)
             out == [j \in kinds |-> IF j = "ghostCounts"
                                       THEN [np |-> np, leftmost |-> Least(r)]
                                       ELSE headBin[r]]
  <2>1. FinishAndSend(r, GhostKinds, out)
    BY <1>5 DEF NotifyGhostSends
  <2>2. DOMAIN out \subseteq Kinds /\ "particles" \notin DOMAIN out
    BY DEF WithParticles, Kinds, Small
  <2> HIDE DEF out
  <2>3. \A x \in Ranks : chan'["particles"][x] = chan["particles"][x]
    BY <1>2, <2>1, <2>2, SendEffect
  <2> QED
    BY <1>1, <2>3
<1>6. CASE WaitGhostReceives(r)
  <2> DEFINE K == WithParticles("ghostCounts", "ghostParticles",
                                Received("ghostCounts", r).data.np)
  <2>1. Receive(K, r)
    BY <1>6 DEF WaitGhostReceives
  <2>2. K \in SUBSET Kinds /\ "particles" \notin K
    BY DEF WithParticles, Kinds, Small
  <2> HIDE DEF K
  <2>3. \A x \in Ranks : chan'["particles"][x] = chan["particles"][x]
    BY <1>2, <2>1, <2>2, ReceiveEffect
  <2> QED
    BY <1>1, <2>3
<1> QED
  BY <1>3, <1>4, <1>5, <1>6

LEMMA SpotsAtWait ==
    ASSUME Usual, MessageInv, NEW r \in Ranks, WaitReceives(r)
    PROVE  SpotsMove
<1>0. PICK u \in Ranks : u = Upstream(r)
  BY Constants
<1> DEFINE np == Received("counts", r).data.np
           time == IF box[r] = N - 1 THEN {"time"} ELSE {}
           K == time \union WithParticles("counts", "particles", np)
<1>1. TypeOK /\ ChanOK /\ "particles" \in Kinds
  BY TypeOfControl DEF MessageInv, Kinds, Small
<1>2. Receive(K, r) /\ K \in SUBSET Kinds /\ ("particles" \in K <=> np > 0)
  BY DEF WaitReceives, WithParticles, Kinds, Small
<1>3. headBin' = headBin /\ restBin' = restBin
  BY DEF WaitReceives
<1> HIDE DEF K
<1>4. \A x \in Ranks : x # u \/ ~ (np > 0) => chan'["particles"][x] = chan["particles"][x]
  BY <1>0, <1>1, <1>2, ReceiveEffect
<1>5. CASE ~ (np > 0)
  <2>1. beam' = beam
    BY <1>5 DEF WaitReceives
  <2> QED
    BY <1>3, <1>4, <1>5, <2>1, QuietMoves
<1>6. CASE np > 0
  <2> DEFINE c == chan["particles"][u]
  <2>1. /\ c \in Seq(Msg("particles")) /\ c # <<>> /\ Len(c) \in Nat \ {0}
        /\ c[1] = Received("particles", r)
    BY <1>0, <1>6, FirstParcel
  <2>2. chan'["particles"][u] = Tail(c)
    BY <1>0, <1>1, <1>2, <1>6, ReceiveEffect
  <2>3. beam' = [beam EXCEPT ![r] = @ \union Received("particles", r).data]
    BY <1>6 DEF WaitReceives
  <2>4. /\ \A x \in Ranks : x # r => beam'[x] = beam[x]
        /\ beam'[r] = beam[r] \union c[1].data
    BY <1>1, <2>1, <2>3, BeamTypes
  <2>5. At(u, 1) = c[1].data
    <3>1. 1 \in 1 .. Len(c)
      BY <2>1
    <3> QED
      BY <3>1, MessagePlaces DEF c
  <2>6. At(r, 0)' = At(r, 0) \union At(u, 1)
    BY <2>4, <2>5, PlacesAre
  <2>7. ASSUME NEW n \in Int, n >= 1
        PROVE  At(u, n)' = At(u, n + 1)
    <3> DEFINE d == Tail(c)
    <3>1. Len(d) = Len(c) - 1 /\ \A i \in 1 .. Len(d) : d[i] = c[i + 1]
      <4> HIDE DEF c
      <4> QED
        BY <2>1, HeadTailProperties
    <3> HIDE DEF d
    <3>2. At(u, n)' = IF n \in 1 .. Len(d) THEN d[n].data ELSE {}
      <4>1. chan'["particles"][u] = d /\ n \notin {0, -1, -2}
        BY <2>2, <2>7 DEF d
      <4>2. At(u, n)' = IF n \in 1 .. Len(chan'["particles"][u])
                          THEN chan'["particles"][u][n].data ELSE {}
        BY <4>1, MessagePlaces
      <4> QED
        BY <4>1, <4>2
    <3>3. At(u, n + 1) = IF n + 1 \in 1 .. Len(c) THEN c[n + 1].data ELSE {}
      <4>1. n + 1 \in Int /\ n + 1 \notin {0, -1, -2}
        BY <2>7
      <4> QED
        BY <4>1, MessagePlaces
    <3>4. n \in 1 .. Len(d) <=> n + 1 \in 1 .. Len(c)
      BY <2>1, <2>7, <3>1
    <3> QED
      BY <3>1, <3>2, <3>3, <3>4
  <2>8. ASSUME NEW x \in Ranks, NEW n \in Int, ~ (x = r /\ n = 0), ~ (x = u /\ n >= 1)
        PROVE  At(x, n)' = At(x, n)
    <3>1. CASE n \in {0, -1, -2}
      BY <1>3, <2>4, <2>8, <3>1, PlaceKept
    <3>2. CASE n \notin {0, -1, -2} /\ n >= 1
      BY <1>4, <2>8, <3>2, PlaceKept
    <3>3. CASE n \notin {0, -1, -2} /\ ~ (n >= 1)
      <4>1. \A m : n \notin 1 .. m
        BY <3>3
      <4> QED
        BY <3>3, <4>1, MessagePlaces
    <3> QED
      BY <3>1, <3>2, <3>3
  <2> QED
    BY <1>1, <2>6, <2>7, <2>8, FirstMessageMoves
<1> QED
  BY <1>5, <1>6

\* What Push makes of a particle is one.
LEMMA PushedParticles ==
    ASSUME NEW S \in Beams, NEW slip \in [S -> 0 .. MaxSlip], NEW p \in S
    PROVE  p \in Particle /\ Push(p, slip[p]) \in Particle
<1>1. p \in Particle /\ slip[p] \in 0 .. MaxSlip /\ MaxSlip \in Nat
  BY PipelineAssumption DEF Beams
<1> QED
  BY <1>1 DEF Push, Particle

LEMMA SpotsAtHead ==
    ASSUME Usual, TypeOK, TileInv, NEW r \in Ranks, SolveHead(r)
    PROVE  SpotsMove
<1>1. PICK slip \in [HeadOf(r) -> 0 .. MaxSlip] :
        headBin'[r] = {Push(p, slip[p]) : p \in HeadOf(r)}
  BY HeadEffect
<1>2. /\ restBin'[r] = MineOf(r) \ HeadOf(r) /\ beam'[r] = beam[r] \ MineOf(r)
      /\ \A x \in Ranks \ {r} :
            beam'[x] = beam[x] /\ headBin'[x] = headBin[x] /\ restBin'[x] = restBin[x]
      /\ chan' = chan
  BY HeadEffect
<1>3. HeadOf(r) \subseteq MineOf(r) /\ MineOf(r) \subseteq beam[r] /\ HeadOf(r) \in Beams
  BY BeamTypes, BeamsClosed DEF HeadOf, MineOf, InBox
<1>4. beam[r] \subseteq Particle
  BY BeamTypes DEF Beams
<1>5. headBin[r] = {} /\ restBin[r] = {}
  <2>1. pc[r] = "SolveHead"
    BY DEF SolveHead
  <2> QED
    BY <2>1 DEF TileInv, TileOK, PastHead
<1>6. \A p \in HeadOf(r) : Push(p, slip[p]) \in Particle
  BY <1>3, PushedParticles
<1>7. \A x \in Ranks, n \in Int : ~ (x = r /\ n \in {0, -1, -2}) => At(x, n)' = At(x, n)
  BY <1>2, PlaceKept
<1> DEFINE M == MineOf(r)
           H == HeadOf(r)
<1>8. /\ H \subseteq M /\ M \subseteq At(r, 0) /\ At(r, 0) \subseteq Particle
      /\ \A p \in H : Push(p, slip[p]) \in Particle
      /\ At(r, -1) = {} /\ At(r, -2) = {}
      /\ At(r, 0)' = At(r, 0) \ M
      /\ At(r, -1)' = {Push(p, slip[p]) : p \in H}
      /\ At(r, -2)' = M \ H
  BY <1>1, <1>2, <1>3, <1>4, <1>5, <1>6, PlacesAre
<1> HIDE DEF M, H
<1> QED
  BY <1>7, <1>8, BoxIsBinned

LEMMA SpotsAtTail ==
    ASSUME Usual, TypeOK, NEW r \in Ranks, SolveTail(r)
    PROVE  SpotsMove
<1>1. PICK slip \in [restBin[r] -> 0 .. MaxSlip] :
        restBin'[r] = {Push(p, slip[p]) : p \in restBin[r]}
  BY TailEffect
<1>2. /\ \A x \in Ranks \ {r} : restBin'[x] = restBin[x]
      /\ beam' = beam /\ headBin' = headBin /\ chan' = chan
  BY TailEffect
<1>3. \A p \in At(r, -2) : p \in Particle /\ Push(p, slip[p]) \in Particle
  <2>1. restBin[r] \in Beams /\ At(r, -2) = restBin[r]
    BY BeamTypes, PlacesAre
  <2> QED
    BY <2>1, PushedParticles
<1>4. At(r, -2)' = {Push(p, slip[p]) : p \in At(r, -2)}
  BY <1>1, PlacesAre
<1>5. \A x \in Ranks, n \in Int : ~ (x = r /\ n = -2) => At(x, n)' = At(x, n)
  BY <1>2, PlaceKept
<1> QED
  BY <1>3, <1>4, <1>5, BinIsPushed

\* Notify drops from the tile only what is behind the domain.
LEMMA DroppedIsBehind ==
    ASSUME Usual, TypeOK, ControlOK, TileInv, NEW r \in Ranks, pc[r] = "Notify",
           NEW p \in beam[r] \ BelowBox(beam[r], box[r])
    PROVE  p.z < 0
<1>1. box[r] \in Int /\ p.z \in Int /\ TileOK(r)
  BY RanksAreSomewhere, BeamTypes DEF TileInv
<1>2. p.z <= 2 * box[r] - 1
  <2>1. Unbinned(r) = box[r] - 1
    BY DEF Unbinned, PastHead
  <2>2. HeadRegion(box[r] - 1) = 2 * box[r] - 1
    BY <1>1 DEF HeadRegion
  <2> QED
    BY <1>1, <2>1, <2>2 DEF TileOK
<1>3. ~ (BoxOf(p.z) \in 0 .. box[r] - 1)
  BY DEF BelowBox
<1>4. ~ (0 <= p.z /\ p.z < 2 * box[r])
  BY <1>1, <1>3, BoxRegions
<1> QED
  BY <1>1, <1>2, <1>4

LEMMA SpotsAtNotify ==
    ASSUME Usual, TypeOK, TypeOK', ControlOK, TileInv, NEW r \in Ranks, Notify(r)
    PROVE  SpotsMove
<1> DEFINE c == chan["particles"][r]
<1>1. /\ c \in Seq(Msg("particles")) /\ Len(c) \in Nat
      /\ pc[r] = "Notify" /\ step[r] \in Nat /\ MaxStep \in Nat
  <2>1. c \in Seq(Msg("particles"))
    BY TypeOfControl, ChannelTypes DEF Kinds, Small
  <2> HIDE DEF c
  <2> QED
    BY <2>1, RanksAreSomewhere, ControlOfNotify
<1>place. PICK l \in Int : l = Len(c) + 1
  BY <1>1
<1>2. l \notin {0, -1, -2} /\ l \notin 1 .. Len(c)
  BY <1>1, <1>place
<1>3. At(r, l) = {}
  <2>1. At(r, l) = IF l \in 1 .. Len(c) THEN c[l].data ELSE {}
    BY <1>2, MessagePlaces DEF c
  <2> QED
    BY <1>2, <2>1
<1>4. /\ At(r, -1)' = {} /\ At(r, -2)' = {}
      /\ At(r, -1) \union At(r, -2) = Solved(r)
  BY NotifyEffect, PlacesAre DEF Solved
<1>5. At(r, 0)' \subseteq At(r, 0) /\ \A p \in At(r, 0) \ At(r, 0)' : MayGo(p)
  <2>1. beam'[r] = beam[r] \/ beam'[r] = BelowBox(beam[r], box[r])
    BY NotifyEffect
  <2>2. \A p \in beam[r] \ BelowBox(beam[r], box[r]) : MayGo(p)
    BY <1>1, DroppedIsBehind DEF MayGo
  <2>3. BelowBox(beam[r], box[r]) \subseteq beam[r]
    BY DEF BelowBox
  <2> QED
    BY <2>1, <2>2, <2>3, PlacesAre
<1>6. \/ /\ chan'["particles"][r] = c
         /\ \A p \in Solved(r) : MayGo(p)
      \/ \E m \in Msg("particles") :
            chan'["particles"][r] = Append(c, m) /\ m.data = Solved(r)
  <2>1. \A p \in Solved(r) : p.age = step[r] + 1
    BY <1>1 DEF TileInv, TileOK, Solved
  <2> QED
    BY <2>1, NotifyEffect DEF MayGo
<1> HIDE DEF c
<1>7. /\ At(r, l)' \subseteq Solved(r)
      /\ \A p \in Solved(r) : p \in At(r, l)' \/ MayGo(p)
      /\ \A n \in Int : n \notin {0, -1, -2, l} => At(r, n)' = At(r, n)
  <2>1. CASE chan'["particles"][r] = c /\ \A p \in Solved(r) : MayGo(p)
    <3>1. At(r, l)' = At(r, l)
      BY <1>2, <2>1, PlaceKept DEF c
    <3> QED
      BY <1>3, <2>1, <3>1, PlaceKept DEF c
  <2>2. ASSUME NEW m \in Msg("particles"), chan'["particles"][r] = Append(c, m),
               m.data = Solved(r)
        PROVE  /\ At(r, l)' = Solved(r)
               /\ \A n \in Int : n \notin {0, -1, -2, l} => At(r, n)' = At(r, n)
    <3> DEFINE d == Append(c, m)
    <3>1. /\ Len(d) = Len(c) + 1 /\ d[Len(c) + 1] = m
          /\ \A i \in 1 .. Len(c) : d[i] = c[i]
      BY <1>1, AppendProperties
    <3> HIDE DEF d
    <3>2. chan'["particles"][r] = d
      BY <2>2 DEF d
    <3>3. At(r, l)' = Solved(r)
      <4>1. At(r, l)' = IF l \in 1 .. Len(d) THEN d[l].data ELSE {}
        BY <1>2, <3>2, MessagePlaces
      <4>2. l \in 1 .. Len(d) /\ d[l] = m
        BY <1>1, <1>place, <3>1
      <4> QED
        BY <2>2, <4>1, <4>2
    <3>4. ASSUME NEW n \in Int, n \notin {0, -1, -2, l}
          PROVE  At(r, n)' = At(r, n)
      <4>1. n \notin {0, -1, -2} /\ n # l
        BY <3>4
      <4>2. At(r, n)' = IF n \in 1 .. Len(d) THEN d[n].data ELSE {}
        BY <3>2, <4>1, MessagePlaces
      <4>3. At(r, n) = IF n \in 1 .. Len(c) THEN c[n].data ELSE {}
        BY <4>1, MessagePlaces DEF c
      <4>4. n \in 1 .. Len(d) <=> n \in 1 .. Len(c)
        BY <1>1, <1>place, <3>1, <4>1
      <4> QED
        BY <3>1, <4>2, <4>3, <4>4
    <3> QED
      BY <3>3, <3>4
  <2> QED
    BY <1>6, <2>1, <2>2
<1>8. ASSUME NEW x \in Ranks, NEW n \in Int, ~ (x = r /\ n \in {0, -1, -2, l})
      PROVE  At(x, n)' = At(x, n)
  <2>1. CASE x = r
    BY <1>7, <1>8, <2>1
  <2>2. CASE x # r
    BY <2>2, NotifyEffect, PlaceKept
  <2> QED
    BY <2>1, <2>2
<1>9. /\ At(r, l) \subseteq At(r, l)'
      /\ At(r, l)' \subseteq At(r, l) \union At(r, -1) \union At(r, -2)
      /\ \A p \in At(r, -1) \union At(r, -2) : p \in At(r, l)' \/ MayGo(p)
  BY <1>3, <1>4, <1>7
<1> QED
  BY <1>2, <1>4, <1>5, <1>8, <1>9, BinsLeave

LEMMA SpotsStep ==
    ASSUME Usual, MessageInv, MessageInv', TileInv, [Next]_vars
    PROVE  SpotsMove
<1>1. TypeOK /\ TypeOK' /\ ControlOK
  BY DEF MessageInv
<1>2. ASSUME NEW r \in Ranks,
             \/ StartStep(r) \/ WaitReturns(r) \/ NotifyGhostReturns(r)
             \/ NotifyGhostLastStep(r) \/ NotifyGhostSends(r) \/ WaitGhostReturns(r)
             \/ WaitGhostReceives(r) \/ Destroy(r)
      PROVE  SpotsMove
  BY <1>1, <1>2, GhostHandlersAreQuiet, QuietMoves
<1>3. CASE UNCHANGED vars
  BY <1>3, QuietMoves DEF vars
<1> QED
  BY <1>1, <1>2, <1>3, SpotsAtWait, SpotsAtHead, SpotsAtTail, SpotsAtNotify
  DEF Next, RankNext, Terminating

LEMMA InitOnePlace == Usual /\ Init => OnePlace
<1> SUFFICES ASSUME Usual, Init, NEW c \in Spots, NEW d \in Spots, c[3].id = d[3].id
             PROVE  c = d
  BY DEF OnePlace
<1>1. PICK place \in [ParticleId -> 0 .. 2 * NumBoxes - 1] :
        beam = [r \in Ranks |->
                  IF HasBeam(r)
                    THEN {[id |-> i, z |-> place[i], age |-> 0] : i \in ParticleId}
                    ELSE {}]
  BY DEF Init
<1>2. ASSUME NEW e \in Spots
      PROVE  /\ e[1] = HeadRank /\ e[2] = 0 /\ e = <<e[1], e[2], e[3]>>
             /\ \E i \in ParticleId : e[3] = [id |-> i, z |-> place[i], age |-> 0]
  <2>1. PICK r, n, p : e = <<r, n, p>>
    BY <1>2, SpotsAre
  <2>2. r \in Ranks /\ n \in Int /\ p \in At(r, n)
    BY <1>2, <2>1, SpotsAre
  <2>3. headBin[r] = {} /\ restBin[r] = {} /\ chan["particles"][r] = <<>> /\ Len(<<>>) = 0
    BY <2>2 DEF Init, Kinds, Small
  <2>4. n = 0
    <3>1. CASE n \in {-1, -2}
      BY <2>2, <2>3, <3>1, PlacesAre
    <3>2. CASE n \notin {0, -1, -2}
      <4>1. n \notin 1 .. Len(chan["particles"][r])
        BY <2>3
      <4> QED
        BY <2>2, <3>2, <4>1, MessagePlaces
    <3> QED
      BY <3>1, <3>2
  <2>5. p \in beam[r]
    BY <2>2, <2>4, PlacesAre
  <2>6. HasBeam(r) /\ p \in {[id |-> i, z |-> place[i], age |-> 0] : i \in ParticleId}
    BY <1>1, <2>2, <2>5
  <2> QED
    BY <2>1, <2>4, <2>6 DEF HasBeam
<1>3. PICK i \in ParticleId : c[3] = [id |-> i, z |-> place[i], age |-> 0]
  BY <1>2
<1>4. PICK j \in ParticleId : d[3] = [id |-> j, z |-> place[j], age |-> 0]
  BY <1>2
<1>5. i = j
  BY <1>3, <1>4
<1> QED
  BY <1>2, <1>3, <1>4, <1>5

LEMMA PlacesInvariant == Usual => (Spec => [](MessageInv /\ AgeInv /\ OnePlace))
<1> SUFFICES ASSUME Usual
             PROVE  Spec => [](MessageInv /\ AgeInv /\ OnePlace)
  OBVIOUS
<1>1. Init => MessageInv /\ AgeInv /\ OnePlace
  BY InitMessages, InitAge, InitOnePlace
<1>2. MessageInv /\ AgeInv /\ OnePlace /\ [Next]_vars => MessageInv' /\ AgeInv' /\ OnePlace'
  BY NextMessages, NextAge, SpotsStep, OnePlaceKept DEF AgeInv
<1> QED
  BY <1>1, <1>2, PTL DEF Spec

LEMMA TileSpots ==
    ASSUME Usual, TypeOK, NEW i, NEW c \in InTile(i)
    PROVE  \E n \in {0, -1, -2} : /\ <<c[1], n, c[2]>> \in Spots /\ c[2].id = i
                                  /\ c = <<c[1], c[2]>>
<1>1. PICK r \in Ranks : c \in {r} \X Tile(r)
  BY DEF InTile
<1>2. c = <<c[1], c[2]>> /\ c[1] = r /\ c[2] \in Tile(r) /\ c[2].id = i
  BY <1>1 DEF InTile
<1>3. PICK n \in {0, -1, -2} : c[2] \in At(r, n)
  BY <1>2, PlacesAre DEF Tile
<1>4. c[2] \in Particle
  BY <1>2, BeamTypes DEF Tile
<1>5. n \in Int
  BY <1>3
<1>6. <<r, n, c[2]>> \in Spots
  BY <1>3, <1>4, <1>5, SpotsAre
<1> QED
  BY <1>2, <1>6

LEMMA MessageSpots ==
    ASSUME Usual, TypeOK, NEW i, NEW c \in InMessage(i)
    PROVE  /\ <<c[1], c[3], c[2]>> \in Spots /\ c[2].id = i
           /\ c = <<c[1], c[2], c[3]>> /\ c[3] \notin {0, -1, -2}
<1>0. PICK r \in Ranks :
        c \in UNION {{r} \X chan["particles"][r][n].data \X {n} :
                        n \in 1 .. Len(chan["particles"][r])}
  BY DEF InMessage
<1>1. PICK n \in 1 .. Len(chan["particles"][r]) :
        c \in {r} \X chan["particles"][r][n].data \X {n}
  BY <1>0
<1>2. /\ c = <<c[1], c[2], c[3]>> /\ c[1] = r /\ c[3] = n /\ c[2].id = i
      /\ c[2] \in chan["particles"][r][n].data
  BY <1>1 DEF InMessage
<1>3. n \in Int /\ n >= 1 /\ n \notin {0, -1, -2}
  OBVIOUS
<1>4. c[2] \in At(r, n)
  BY <1>2, <1>3, MessagePlaces
<1>5. c[2] \in Particle
  <2>1. chan["particles"][r] \in Seq(Msg("particles"))
    BY TypeOfControl, ChannelTypes DEF Kinds, Small
  <2>2. chan["particles"][r][n] \in Msg("particles")
    BY <2>1, ElementOfSeq
  <2>3. chan["particles"][r][n].data \in Beams
    BY <2>2 DEF Msg, Data
  <2> QED
    BY <1>2, <2>3 DEF Beams
<1>6. <<r, n, c[2]>> \in Spots
  BY <1>3, <1>4, <1>5, SpotsAre
<1> QED
  BY <1>2, <1>3, <1>6

\* What is in a place is counted, before and after a step.
LEMMA SpotsAreCounted ==
    /\ \A c \in Spots : InTile(c[3].id) \union InMessage(c[3].id) # {}
    /\ \A c \in Spots' : InTile(c[3].id)' \union InMessage(c[3].id)' # {}
<1>1. ASSUME NEW r, NEW n, NEW p, <<r, n, p>> \in Spots
      PROVE  InTile(p.id) \union InMessage(p.id) # {}
  <2>1. r \in Ranks /\ n \in Int /\ p \in At(r, n)
    BY <1>1, SpotsAre
  <2>2. CASE n \in {0, -1, -2}
    <3>1. p \in Tile(r)
      BY <2>1, <2>2, PlacesAre DEF Tile
    <3>2. <<r, p>> \in InTile(p.id)
      BY <2>1, <3>1 DEF InTile
    <3> QED
      BY <3>2
  <2>3. CASE n \notin {0, -1, -2}
    <3>1. n \in 1 .. Len(chan["particles"][r]) /\ p \in chan["particles"][r][n].data
      BY <2>1, <2>3, MessagePlaces
    <3>2. <<r, p, n>> \in InMessage(p.id)
      BY <2>1, <3>1 DEF InMessage
    <3> QED
      BY <3>2
  <2> QED
    BY <2>2, <2>3
<1>2. ASSUME NEW r, NEW n, NEW p, <<r, n, p>> \in Spots'
      PROVE  InTile(p.id)' \union InMessage(p.id)' # {}
  <2>1. r \in Ranks /\ n \in Int /\ p \in At(r, n)'
    BY <1>2, SpotsAre
  <2>2. CASE n \in {0, -1, -2}
    <3>1. p \in Tile(r)'
      BY <2>1, <2>2, PlacesAre DEF Tile
    <3>2. <<r, p>> \in InTile(p.id)'
      BY <2>1, <3>1 DEF InTile
    <3> QED
      BY <3>2
  <2>3. CASE n \notin {0, -1, -2}
    <3>1. n \in 1 .. Len(chan'["particles"][r]) /\ p \in chan'["particles"][r][n].data
      BY <2>1, <2>3, MessagePlaces
    <3>2. <<r, p, n>> \in InMessage(p.id)'
      BY <2>1, <3>1 DEF InMessage
    <3> QED
      BY <3>2
  <2> QED
    BY <2>2, <2>3
<1>3. ASSUME NEW c \in Spots
      PROVE  InTile(c[3].id) \union InMessage(c[3].id) # {}
  <2>1. c = <<c[1], c[2], c[3]>>
    BY SpotsAre
  <2> QED
    BY <1>1, <2>1
<1>4. ASSUME NEW c \in Spots'
      PROVE  InTile(c[3].id)' \union InMessage(c[3].id)' # {}
  <2>1. c = <<c[1], c[2], c[3]>>
    BY SpotsAre
  <2> QED
    BY <1>2, <2>1
<1> QED
  BY <1>3, <1>4

LEMMA OnePlaceCounts == Usual /\ TypeOK /\ OnePlace => NoParticleTwice
<1> SUFFICES ASSUME Usual, TypeOK, OnePlace, NEW i \in ParticleId
             PROVE  Cardinality(InTile(i)) + Cardinality(InMessage(i)) <= 1
  BY DEF NoParticleTwice
<1>1. ASSUME NEW c \in InTile(i), NEW d \in InTile(i)
      PROVE  c = d
  <2>1. PICK n \in {0, -1, -2} :
          <<c[1], n, c[2]>> \in Spots /\ c[2].id = i /\ c = <<c[1], c[2]>>
    BY TileSpots
  <2>2. PICK m \in {0, -1, -2} :
          <<d[1], m, d[2]>> \in Spots /\ d[2].id = i /\ d = <<d[1], d[2]>>
    BY TileSpots
  <2>3. <<c[1], n, c[2]>> = <<d[1], m, d[2]>>
    BY <2>1, <2>2 DEF OnePlace
  <2> QED
    BY <2>1, <2>2, <2>3
<1>2. ASSUME NEW c \in InMessage(i), NEW d \in InMessage(i)
      PROVE  c = d
  <2>1. /\ <<c[1], c[3], c[2]>> \in Spots /\ c[2].id = i /\ c = <<c[1], c[2], c[3]>>
        /\ <<d[1], d[3], d[2]>> \in Spots /\ d[2].id = i /\ d = <<d[1], d[2], d[3]>>
    BY MessageSpots
  <2>2. <<c[1], c[3], c[2]>> = <<d[1], d[3], d[2]>>
    BY <2>1 DEF OnePlace
  <2> QED
    BY <2>1, <2>2
<1>3. InTile(i) = {} \/ InMessage(i) = {}
  <2>1. SUFFICES ASSUME NEW c \in InTile(i), NEW d \in InMessage(i)
                 PROVE  FALSE
    OBVIOUS
  <2>2. PICK n \in {0, -1, -2} : <<c[1], n, c[2]>> \in Spots /\ c[2].id = i
    BY TileSpots
  <2>3. <<d[1], d[3], d[2]>> \in Spots /\ d[2].id = i /\ d[3] \notin {0, -1, -2}
    BY MessageSpots
  <2>4. <<c[1], n, c[2]>> = <<d[1], d[3], d[2]>>
    BY <2>2, <2>3 DEF OnePlace
  <2> QED
    BY <2>3, <2>4
<1>4. Cardinality({}) = 0 /\ \A c : Cardinality({c}) = 1
  BY FS_EmptySet, FS_Singleton
<1>5. Cardinality(InTile(i)) = 0 \/ Cardinality(InTile(i)) = 1
  <2>1. CASE InTile(i) = {}
    BY <1>4, <2>1
  <2>2. ASSUME NEW c \in InTile(i)
        PROVE  Cardinality(InTile(i)) = 1
    <3>1. InTile(i) = {c}
      BY <1>1
    <3> QED
      BY <1>4, <3>1
  <2> QED
    BY <2>1, <2>2
<1>6. Cardinality(InMessage(i)) = 0 \/ Cardinality(InMessage(i)) = 1
  <2>1. CASE InMessage(i) = {}
    BY <1>4, <2>1
  <2>2. ASSUME NEW c \in InMessage(i)
        PROVE  Cardinality(InMessage(i)) = 1
    <3>1. InMessage(i) = {c}
      BY <1>2
    <3> QED
      BY <1>4, <3>1
  <2> QED
    BY <2>1, <2>2
<1>7. Cardinality(InTile(i)) = 0 \/ Cardinality(InMessage(i)) = 0
  BY <1>3, <1>4
<1> QED
  BY <1>5, <1>6, <1>7

\* No beam particle is ever in two places, whatever the order in which the
\* ranks run: Notify takes out of the tile, and out of the bins, what it sends,
\* and Wait adds to the tile only what upstream has given up.
THEOREM ParticlesInOnePlace == Usual => (Spec => []NoParticleTwice)
<1> SUFFICES ASSUME Usual
             PROVE  Spec => []NoParticleTwice
  OBVIOUS
<1>1. MessageInv /\ AgeInv /\ OnePlace => NoParticleTwice
  BY OnePlaceCounts DEF MessageInv
<1>2. Spec => [](MessageInv /\ AgeInv /\ OnePlace)
  BY PlacesInvariant
<1> QED
  BY <1>1, <1>2, PTL

\* One step of NoParticleLost.
Keeps ==
    \A i \in ParticleId :
        (InTile(i) \union InMessage(i) # {} /\ (InTile(i) \union InMessage(i))' = {}) =>
            \A c \in InTile(i) \union InMessage(i) :
                c[2].z < 0 \/ c[2].age = MaxStep + 1

LEMMA MoveKeeps ==
    ASSUME Usual, TypeOK, SpotsMove
    PROVE  Keeps
<1> SUFFICES ASSUME NEW i \in ParticleId, (InTile(i) \union InMessage(i))' = {},
                    NEW c \in InTile(i) \union InMessage(i)
             PROVE  c[2].z < 0 \/ c[2].age = MaxStep + 1
  BY DEF Keeps
<1>1. \E r, n : <<r, n, c[2]>> \in Spots /\ c[2].id = i
  <2>1. CASE c \in InTile(i)
    BY <2>1, TileSpots
  <2>2. CASE c \in InMessage(i)
    BY <2>2, MessageSpots
  <2> QED
    BY <2>1, <2>2
<1>2. PICK r, n : <<r, n, c[2]>> \in Spots /\ c[2].id = i
  BY <1>1
<1>3. PICK g : \A s \in Spots : (g[s] \in Spots' /\ g[s][3].id = s[3].id) \/ MayGo(s[3])
  BY Zenon DEF SpotsMove
<1> DEFINE s == <<r, n, c[2]>>
<1>4. s \in Spots /\ s[3] = c[2] /\ s[3].id = i
  BY <1>2
<1> HIDE DEF s
<1>5. CASE MayGo(s[3])
  BY <1>4, <1>5 DEF MayGo
<1>6. CASE g[s] \in Spots' /\ g[s][3].id = s[3].id
  <2>1. InTile(g[s][3].id)' \union InMessage(g[s][3].id)' # {}
    BY <1>6, SpotsAreCounted
  <2>2. g[s][3].id = i
    BY <1>4, <1>6
  <2> QED
    BY <2>1, <2>2
<1> QED
  BY <1>3, <1>4, <1>5, <1>6

\* No step loses a particle inside the domain: what Notify drops with the boxes
\* it gives up has left the domain, or has been sent, or has done all its steps.
THEOREM NoneLost == Usual => (Spec => NoParticleLost)
<1> SUFFICES ASSUME Usual
             PROVE  Spec => NoParticleLost
  OBVIOUS
<1>1. MessageInv /\ MessageInv' /\ AgeInv /\ [Next]_vars => Keeps
  BY SpotsStep, MoveKeeps DEF MessageInv, AgeInv
<1>2. Spec => [](MessageInv /\ AgeInv /\ OnePlace)
  BY PlacesInvariant
<1>3. Spec => [][Keeps]_vars
  BY <1>1, <1>2, PTL DEF Spec
<1> QED
  BY <1>3 DEF NoParticleLost, Keeps

-----------------------------------------------------------------------------
(* What was sent before                                                    *)

Behind == {"WaitGhost", "SolveTail", "Notify"}

\* A rank goes from handler to handler, from box to box and from step to step.
Progress(x) ==
    \/ /\ step'[x] = step[x] /\ box'[x] = box[x]
       /\ pc[x] \in Behind => pc'[x] \in Behind
       /\ pc[x] \in PastHead => pc'[x] \in PastHead
    \/ step'[x] = step[x] /\ box'[x] = box[x] - 1
    \/ step'[x] = step[x] + N

LEMMA RanksProgress ==
    ASSUME Usual, TypeOK, [Next]_vars, NEW x \in Ranks
    PROVE  Progress(x)
<1>1. ASSUME NEW r \in Ranks, Notify(r)
      PROVE  Progress(x)
  BY <1>1, ControlOfNotify, Zenon DEF Progress
<1>2. ASSUME NEW r \in Ranks, NEW p, NEW q, Moves(r, p, q),
             p \in Behind => q \in Behind, p \in PastHead => q \in PastHead
      PROVE  Progress(x)
  <2>1. pc \in [Ranks -> Labels]
    BY TypeOfControl
  <2>2. step' = step /\ box' = box /\ pc[r] = p /\ pc' = [pc EXCEPT ![r] = q]
    BY <1>2 DEF Moves
  <2>3. x # r => pc'[x] = pc[x]
    BY <2>1, <2>2
  <2>4. x = r => pc'[x] = q
    BY <2>1, <2>2
  <2> QED
    BY <1>2, <2>2, <2>3, <2>4 DEF Progress
<1>3. CASE UNCHANGED vars
  BY <1>3 DEF vars, Progress
<1>4. ASSUME NEW r \in Ranks, RankNext(r), ~ Notify(r)
      PROVE  \E p, q : Moves(r, p, q) /\ (p \in Behind => q \in Behind)
                       /\ (p \in PastHead => q \in PastHead)
  <2>1. \/ Moves(r, "StartStep", "Wait") \/ Moves(r, "Wait", "SolveHead")
        \/ Moves(r, "SolveHead", "NotifyGhost") \/ Moves(r, "NotifyGhost", "WaitGhost")
        \/ Moves(r, "WaitGhost", "SolveTail") \/ Moves(r, "SolveTail", "Notify")
        \/ Moves(r, "StartStep", "Gone")
    BY <1>4, ControlOfActions, Zenon DEF RankNext
  <2> QED
    BY <2>1 DEF Behind, PastHead
<1> QED
  BY <1>1, <1>2, <1>3, <1>4 DEF Next, Terminating

LEMMA InitSent == Usual /\ Init => SentInv
<1> SUFFICES ASSUME Usual, Init, NEW k \in Kinds, NEW r \in Ranks, NEW m \in InFlight(k, r)
             PROVE  FALSE
  BY DEF SentInv
<1>1. chan[k][r] = <<>>
  BY DEF Init
<1> QED
  BY <1>1 DEF InFlight

\* What is in flight was sent in an earlier box or step.
LEMMA NextSent ==
    ASSUME Usual, MessageInv, MessageInv', SentInv, [Next]_vars
    PROVE  SentInv'
<1> SUFFICES ASSUME NEW k \in Kinds, NEW r \in Ranks, NEW m \in InFlight(k, r)'
             PROVE  SentBefore(k, r, m)'
  BY DEF SentInv
<1>1. TypeOK /\ TypeOK' /\ ControlOK
  BY DEF MessageInv
<1>2. /\ step[r] \in Nat /\ box[r] \in 0 .. N - 1 /\ N \in Nat \ {0}
  BY <1>1, RanksAreSomewhere
<1>3. m.step \in Nat /\ m.box \in Int
  <2>1. ChanOK'
    BY <1>1 DEF TypeOK
  <2>2. chan'[k][r] \in Seq(Msg(k)) /\ \A w \in Msg(k) : w.step \in Nat /\ w.box \in Int
    <3>1. chan'[k][r] \in Seq(Msg(k))
      BY <2>1 DEF ChanOK
    <3>2. \A w \in Msg(k) : w.step \in Nat /\ w.box \in Int
      BY Constants DEF Msg
    <3> QED
      BY <3>1, <3>2
  <2> QED
    BY <2>2, ElementOfSeq DEF InFlight
<1>4. m \in InFlight(k, r) \/ Sends(r, k, m)
  BY <1>1, MessagesComeFrom
<1>5. Progress(r)
  BY <1>1, RanksProgress
<1>6. CASE m \in InFlight(k, r)
  <2>1. SentBefore(k, r, m)
    BY <1>6 DEF SentInv
  <2> QED
    BY <1>2, <1>3, <1>5, <2>1 DEF SentBefore, Progress, Behind
<1>7. CASE Sends(r, k, m)
  <2>1. m.step = step[r] /\ m.box = box[r] /\ step[r] < MaxStep
    BY <1>7 DEF Sends, Label
  <2>2. CASE k \in GhostKinds
    <3>1. NotifyGhostSends(r) /\ box[r] < N - 1
      BY <1>7, <2>2 DEF Sends, GhostKinds
    <3>2. Moves(r, "NotifyGhost", "WaitGhost")
      BY <3>1, ControlOfActions
    <3>3. step' = step /\ box' = box /\ pc'[r] = "WaitGhost"
      BY <1>1, <3>2, TypeOfControl DEF Moves
    <3> QED
      BY <2>1, <2>2, <3>1, <3>3 DEF SentBefore
  <2>3. CASE k \notin GhostKinds
    <3>1. Notify(r)
      BY <1>7, <2>3 DEF Sends, GhostKinds
    <3>2. \/ step'[r] = step[r] + N
          \/ step'[r] = step[r] /\ box'[r] = box[r] - 1
      BY <1>1, <3>1, ControlOfNotify
    <3> QED
      BY <1>2, <2>1, <2>3, <3>2 DEF SentBefore
  <2> QED
    BY <2>2, <2>3
<1> QED
  BY <1>4, <1>6, <1>7

-----------------------------------------------------------------------------
(* What a rank left in the head slice of a box                             *)

\* Rank x holds the solved head slice of box b of step s.
Holds(x, s, b) == step[x] = s /\ box[x] = b /\ pc[x] \in PastHead

\* Rank x is past the head slice of box b of step s.
HeadOver(x, s, b) == step[x] > s \/ (step[x] = s /\ box[x] < b) \/ Holds(x, s, b)

LEMMA LeftIs ==
    ASSUME NEW x, NEW s, NEW b
    PROVE  /\ Left(x, s, b) = HeadIds(IF Holds(x, s, b) THEN headBin[x] ELSE Parcel(x, s, b), b)
           /\ Left(x, s, b)' =
                HeadIds(IF Holds(x, s, b)' THEN headBin'[x] ELSE Parcel(x, s, b)', b)
  BY DEF Left, Holds

LEMMA HeadIdsRules ==
    ASSUME NEW b
    PROVE  /\ \A S, T : HeadIds(S \union T, b) = HeadIds(S, b) \union HeadIds(T, b)
           /\ \A S : (\A p \in S : p.z # HeadRegion(b)) => HeadIds(S, b) = {}
           /\ HeadIds({}, b) = {}
           /\ \A S, T : T \subseteq S /\ (\A p \in S \ T : p.z # HeadRegion(b)) =>
                 HeadIds(T, b) = HeadIds(S, b)
  BY DEF HeadIds

LEMMA ParcelKept ==
    ASSUME NEW x, chan'["particles"][x] = chan["particles"][x], NEW s, NEW b
    PROVE  Parcel(x, s, b)' = Parcel(x, s, b)
<1>1. InFlight("particles", x)' = InFlight("particles", x)
  BY DEF InFlight
<1> QED
  BY <1>1 DEF Parcel

LEMMA InFlightAppend ==
    ASSUME NEW x, NEW m \in Msg("particles"), chan["particles"][x] \in Seq(Msg("particles")),
           chan'["particles"][x] = Append(chan["particles"][x], m)
    PROVE  InFlight("particles", x)' = InFlight("particles", x) \union {m}
<1> DEFINE c == chan["particles"][x]
           d == Append(c, m)
<1>1. /\ Len(d) = Len(c) + 1 /\ d[Len(c) + 1] = m /\ Len(c) \in Nat
      /\ \A j \in 1 .. Len(c) : d[j] = c[j]
  <2>1. c \in Seq(Msg("particles"))
    OBVIOUS
  <2> HIDE DEF c
  <2> QED
    BY <2>1, AppendProperties, LenProperties
<1>2. InFlight("particles", x) = {c[i] : i \in 1 .. Len(c)}
  BY DEF InFlight
<1>3. InFlight("particles", x)' = {d[i] : i \in 1 .. Len(d)}
  BY DEF InFlight
<1> HIDE DEF c, d
<1>4. 1 .. Len(d) = (1 .. Len(c)) \union {Len(c) + 1}
  BY <1>1
<1> QED
  BY <1>1, <1>2, <1>3, <1>4

LEMMA InFlightTail ==
    ASSUME NEW x, chan["particles"][x] \in Seq(Msg("particles")), chan["particles"][x] # <<>>,
           chan'["particles"][x] = Tail(chan["particles"][x])
    PROVE  /\ InFlight("particles", x) =
                InFlight("particles", x)' \union {chan["particles"][x][1]}
<1> DEFINE c == chan["particles"][x]
           d == Tail(c)
<1>1. /\ Len(d) = Len(c) - 1 /\ Len(c) \in Nat \ {0}
      /\ \A j \in 1 .. Len(d) : d[j] = c[j + 1]
  <2>1. c \in Seq(Msg("particles")) /\ c # <<>>
    OBVIOUS
  <2> HIDE DEF c
  <2> QED
    BY <2>1, HeadTailProperties, EmptySeq
<1>2. InFlight("particles", x) = {c[i] : i \in 1 .. Len(c)}
  BY DEF InFlight
<1>3. InFlight("particles", x)' = {d[i] : i \in 1 .. Len(d)}
  BY DEF InFlight
<1> HIDE DEF c, d
<1>4. \A i \in 1 .. Len(c) : i = 1 \/ i - 1 \in 1 .. Len(d)
  BY <1>1
<1>5. \A i \in 1 .. Len(c) : i = 1 \/ c[i] = d[i - 1]
  BY <1>1, <1>4
<1>6. \A i \in 1 .. Len(d) : i + 1 \in 1 .. Len(c) /\ d[i] = c[i + 1]
  BY <1>1
<1>7. {c[i] : i \in 1 .. Len(c)} \subseteq {d[i] : i \in 1 .. Len(d)} \union {c[1]}
  BY <1>4, <1>5
<1>8. {d[i] : i \in 1 .. Len(d)} \union {c[1]} \subseteq {c[i] : i \in 1 .. Len(c)}
  <2>1. 1 \in 1 .. Len(c)
    BY <1>1
  <2> QED
    BY <1>6, <2>1
<1> QED
  BY <1>2, <1>3, <1>7, <1>8 DEF c

LEMMA ParcelAppend ==
    ASSUME NEW x, NEW m \in Msg("particles"), chan["particles"][x] \in Seq(Msg("particles")),
           chan'["particles"][x] = Append(chan["particles"][x], m), NEW s, NEW b
    PROVE  Parcel(x, s, b)' =
             IF Label(m) = <<s, b>> THEN Parcel(x, s, b) \union m.data ELSE Parcel(x, s, b)
<1>1. InFlight("particles", x)' = InFlight("particles", x) \union {m}
  BY InFlightAppend
<1> DEFINE A == InFlight("particles", x)
           L == {w \in A : Label(w) = <<s, b>>}
<1>2. Parcel(x, s, b)' = UNION {w.data : w \in {v \in A \union {m} : Label(v) = <<s, b>>}}
  BY <1>1 DEF Parcel, Label
<1>3. Parcel(x, s, b) = UNION {w.data : w \in L}
  BY DEF Parcel
<1> HIDE DEF A
<1>4. CASE Label(m) = <<s, b>>
  <2>1. {v \in A \union {m} : Label(v) = <<s, b>>} = L \union {m}
    BY <1>4
  <2> HIDE DEF L
  <2> QED
    BY <1>2, <1>3, <1>4, <2>1
<1>5. CASE Label(m) # <<s, b>>
  <2>1. {v \in A \union {m} : Label(v) = <<s, b>>} = L
    BY <1>5
  <2> QED
    BY <1>2, <1>3, <1>5, <2>1
<1> QED
  BY <1>4, <1>5

LEMMA ParcelTail ==
    ASSUME NEW x, chan["particles"][x] \in Seq(Msg("particles")), chan["particles"][x] # <<>>,
           chan'["particles"][x] = Tail(chan["particles"][x]), NEW s, NEW b,
           Label(chan["particles"][x][1]) # <<s, b>>
    PROVE  Parcel(x, s, b)' = Parcel(x, s, b)
<1> DEFINE A == InFlight("particles", x)'
           m == chan["particles"][x][1]
<1>1. InFlight("particles", x) = A \union {m}
  BY InFlightTail
<1>2. Parcel(x, s, b)' = UNION {w.data : w \in {v \in A : Label(v) = <<s, b>>}}
  BY DEF Parcel, Label
<1>3. Parcel(x, s, b) = UNION {w.data : w \in {v \in A \union {m} : Label(v) = <<s, b>>}}
  BY <1>1 DEF Parcel
<1> HIDE DEF A
<1>4. {v \in A \union {m} : Label(v) = <<s, b>>} = {v \in A : Label(v) = <<s, b>>}
  OBVIOUS
<1> QED
  BY <1>2, <1>3, <1>4

LEMMA LeftKept ==
    ASSUME NEW x, NEW s, NEW b, Holds(x, s, b)' <=> Holds(x, s, b),
           headBin'[x] = headBin[x], chan'["particles"][x] = chan["particles"][x]
    PROVE  Left(x, s, b)' = Left(x, s, b)
<1>1. Parcel(x, s, b)' = Parcel(x, s, b)
  BY ParcelKept
<1> QED
  BY <1>1, LeftIs

LEMMA HoldsKept ==
    ASSUME Usual, TypeOK, NEW r \in Ranks, NEW p, NEW q, Moves(r, p, q),
           p \in PastHead <=> q \in PastHead, NEW x \in Ranks, NEW s, NEW b
    PROVE  Holds(x, s, b)' <=> Holds(x, s, b)
<1>1. step' = step /\ box' = box /\ (pc'[x] \in PastHead <=> pc[x] \in PastHead)
  BY TypeOfControl DEF Moves
<1> QED
  BY <1>1 DEF Holds

\* The handlers that solve no head slice and move no particles.
LEMMA LeftAtGhosts ==
    ASSUME Usual, TypeOK, TypeOK', NEW r \in Ranks,
           \/ StartStep(r) \/ WaitReturns(r) \/ NotifyGhostReturns(r)
           \/ NotifyGhostLastStep(r) \/ NotifyGhostSends(r) \/ WaitGhostReturns(r)
           \/ WaitGhostReceives(r) \/ SolveTail(r) \/ Destroy(r),
           NEW x \in Ranks, NEW s, NEW b
    PROVE  Left(x, s, b)' = Left(x, s, b)
<1>1. headBin' = headBin /\ chan'["particles"][x] = chan["particles"][x]
  <2>1. CASE SolveTail(r)
    BY <2>1, TailEffect
  <2>2. CASE ~ SolveTail(r)
    BY <2>2, GhostHandlersAreQuiet
  <2> QED
    BY <2>1, <2>2
<1>2. \/ Moves(r, "StartStep", "Wait") \/ Moves(r, "Wait", "SolveHead")
      \/ Moves(r, "NotifyGhost", "WaitGhost") \/ Moves(r, "WaitGhost", "SolveTail")
      \/ Moves(r, "SolveTail", "Notify") \/ Moves(r, "StartStep", "Gone")
  BY ControlOfActions, Zenon
<1>3. \E p, q : Moves(r, p, q) /\ (p \in PastHead <=> q \in PastHead)
  BY <1>2 DEF PastHead
<1>4. Holds(x, s, b)' <=> Holds(x, s, b)
  BY <1>3, HoldsKept
<1> QED
  BY <1>1, <1>4, LeftKept

\* Wait takes the parcel of its own box only.
LEMMA LeftAtWait ==
    ASSUME Usual, MessageInv, NEW r \in Ranks, WaitReceives(r),
           NEW x \in Ranks, NEW s, NEW b,
           Upstream(r) = x => <<s, b>> # <<step[r] - 1, box[r]>>
    PROVE  Left(x, s, b)' = Left(x, s, b)
<1> DEFINE np == Received("counts", r).data.np
           time == IF box[r] = N - 1 THEN {"time"} ELSE {}
           K == time \union WithParticles("counts", "particles", np)
           c == chan["particles"][x]
<1>1. TypeOK /\ ChanOK /\ "particles" \in Kinds
  BY TypeOfControl DEF MessageInv, Kinds, Small
<1>2. Receive(K, r) /\ K \in SUBSET Kinds /\ ("particles" \in K <=> np > 0)
  BY DEF WaitReceives, WithParticles, Kinds, Small
<1>3. headBin' = headBin
  BY DEF WaitReceives
<1>4. Holds(x, s, b)' <=> Holds(x, s, b)
  <2>1. Moves(r, "Wait", "SolveHead")
    BY ControlOfActions
  <2> QED
    BY <1>1, <2>1, HoldsKept DEF PastHead
<1> HIDE DEF K, np
<1>5. CASE x # Upstream(r) \/ ~ (np > 0)
  <2>1. chan'["particles"][x] = chan["particles"][x]
    BY <1>1, <1>2, <1>5, ReceiveEffect
  <2> QED
    BY <1>3, <1>4, <2>1, LeftKept
<1>6. CASE x = Upstream(r) /\ np > 0
  <2>1. /\ c \in Seq(Msg("particles")) /\ c # <<>>
        /\ c[1].step = step[r] - 1 /\ c[1].box = box[r]
    BY <1>6, FirstParcel DEF np
  <2>2. chan'["particles"][x] = Tail(c)
    BY <1>1, <1>2, <1>6, ReceiveEffect
  <2>3. Label(c[1]) # <<s, b>>
    BY <1>6, <2>1 DEF Label
  <2>4. Parcel(x, s, b)' = Parcel(x, s, b)
    BY <2>1, <2>2, <2>3, ParcelTail
  <2> QED
    BY <1>3, <1>4, <2>4, LeftIs
<1> QED
  BY <1>5, <1>6

\* The next head slice a rank solves is of another box or step.
LEMMA LeftAtHead ==
    ASSUME Usual, TypeOK, NEW r \in Ranks, SolveHead(r),
           NEW x \in Ranks, NEW s, NEW b, HeadOver(x, s, b)
    PROVE  Left(x, s, b)' = Left(x, s, b)
<1>1. /\ step' = step /\ box' = box /\ pc[r] = "SolveHead" /\ pc'[r] = "NotifyGhost"
      /\ \A y \in Ranks \ {r} : pc'[y] = pc[y]
      /\ step[r] \in Nat /\ box[r] \in Int
  BY ControlOfActions, TypeOfControl DEF Moves
<1>2. chan' = chan /\ \A y \in Ranks \ {r} : headBin'[y] = headBin[y]
  BY HeadEffect
<1>3. CASE x # r
  BY <1>1, <1>2, <1>3, LeftKept DEF Holds
<1>4. CASE x = r
  <2>1. ~ Holds(r, s, b) /\ ~ Holds(r, s, b)'
    BY <1>1, <1>4 DEF Holds, HeadOver, PastHead
  <2>2. Parcel(r, s, b)' = Parcel(r, s, b)
    BY <1>2, ParcelKept
  <2> QED
    BY <1>4, <2>1, <2>2, LeftIs
<1> QED
  BY <1>3, <1>4

\* No parcel is on its way yet for the box a rank has in hand.
LEMMA NoParcelYet ==
    ASSUME Usual, TypeOK, ControlOK, SentInv, NEW r \in Ranks, NEW s, NEW b, s \in Nat, b \in Int,
           step[r] = s /\ box[r] >= b
    PROVE  Parcel(r, s, b) = {}
<1>1. "particles" \in Kinds /\ "particles" \notin GhostKinds
  BY DEF Kinds, Small, GhostKinds
<1>2. box[r] \in Int
  BY RanksAreSomewhere
<1>3. ASSUME NEW m \in InFlight("particles", r)
      PROVE  Label(m) # <<s, b>>
  <2>1. SentBefore("particles", r, m)
    BY <1>1 DEF SentInv
  <2> QED
    BY <1>1, <1>2, <2>1 DEF SentBefore, Label
<1> QED
  BY <1>3 DEF Parcel

\* Notify sends off what its rank held of the head slice.
LEMMA LeftAtNotify ==
    ASSUME Usual, MessageInv, TypeOK', AgeInv, SentInv, NEW r \in Ranks, Notify(r),
           NEW x \in Ranks, NEW s \in Nat, NEW b \in 0 .. N - 1, s < MaxStep, HeadOver(x, s, b)
    PROVE  Left(x, s, b)' = Left(x, s, b)
<1>1. TypeOK /\ ControlOK /\ TileOK(r) /\ ChanOK /\ "particles" \in Kinds
  BY TypeOfControl DEF MessageInv, AgeInv, TileInv, Kinds, Small
<1>2. /\ \A y \in Ranks \ {r} :
            /\ pc'[y] = pc[y] /\ step'[y] = step[y] /\ box'[y] = box[y]
            /\ headBin'[y] = headBin[y] /\ chan'["particles"][y] = chan["particles"][y]
      /\ pc[r] = "Notify" /\ pc'[r] \in {"Wait", "StartStep"}
  BY <1>1, ControlOfNotify, NotifyEffect
<1>3. step[r] \in Nat /\ box[r] \in 0 .. N - 1 /\ MaxStep \in Nat
  BY <1>1, RanksAreSomewhere
<1>4. CASE x # r
  BY <1>2, <1>4, LeftKept DEF Holds
<1>5. CASE x = r
  <2> DEFINE c == chan["particles"][r]
  <2>1. c \in Seq(Msg("particles"))
    BY <1>1, ChannelTypes
  <2>2. ~ Holds(r, s, b)'
    BY <1>2 DEF Holds, PastHead
  <2>3. Left(r, s, b)' = HeadIds(Parcel(r, s, b)', b)
    BY <2>2, LeftIs
  <2>4. CASE Holds(r, s, b)
    <3>1. step[r] = s /\ box[r] = b
      BY <2>4 DEF Holds
    <3>2. Left(r, s, b) = HeadIds(headBin[r], b) /\ Parcel(r, s, b) = {}
      BY <1>1, <1>3, <2>4, <3>1, LeftIs, NoParcelYet
    <3>3. HeadIds(Solved(r), b) = HeadIds(headBin[r], b)
      <4>1. \A p \in restBin[r] : p.z < HeadRegion(b) /\ p.z \in Int
        BY <1>1, <3>1, BeamTypes DEF TileOK
      <4>2. HeadIds(restBin[r], b) = {}
        <5>1. HeadRegion(b) \in Int
          BY DEF HeadRegion
        <5>2. \A p \in restBin[r] : p.z # HeadRegion(b)
          BY <4>1, <5>1
        <5> QED
          BY <5>2, HeadIdsRules
      <4>3. HeadIds(Solved(r), b) = HeadIds(headBin[r], b) \union HeadIds(restBin[r], b)
        BY DEF HeadIds, Solved
      <4> QED
        BY <4>2, <4>3
    <3>4. Parcel(r, s, b)' = Solved(r)
      <4>1. CASE Solved(r) = {}
        <5>1. chan'["particles"][r] = c
          BY <1>1, <1>3, <3>1, <4>1, NotifyEffect
        <5> QED
          BY <3>2, <4>1, <5>1, ParcelKept
      <4>2. CASE Solved(r) # {}
        <5>1. PICK m \in Msg("particles") :
                /\ chan'["particles"][r] = Append(c, m)
                /\ Label(m) = <<step[r], box[r]>>
                /\ m.data = Solved(r)
          BY <1>1, <1>3, <3>1, <4>2, NotifyEffect
        <5>2. Label(m) = <<s, b>>
          BY <3>1, <5>1
        <5>3. Parcel(r, s, b)' = IF Label(m) = <<s, b>> THEN Parcel(r, s, b) \union m.data
                                                        ELSE Parcel(r, s, b)
          BY <2>1, <5>1, ParcelAppend
        <5> QED
          BY <3>2, <5>1, <5>2, <5>3
      <4> QED
        BY <4>1, <4>2
    <3> QED
      BY <1>5, <2>3, <3>2, <3>3, <3>4
  <2>5. CASE ~ Holds(r, s, b)
    <3>1. <<step[r], box[r]>> # <<s, b>>
      BY <1>2, <2>5 DEF Holds, PastHead
    <3>2. Parcel(r, s, b)' = Parcel(r, s, b)
      <4>1. CASE chan'["particles"][r] = c
        BY <4>1, ParcelKept
      <4>2. CASE chan'["particles"][r] # c
        <5>1. PICK m \in Msg("particles") :
                /\ chan'["particles"][r] = Append(c, m)
                /\ Label(m) = <<step[r], box[r]>>
          BY <1>1, <4>2, NotifyEffect
        <5>2. Label(m) # <<s, b>>
          BY <3>1, <5>1
        <5>3. Parcel(r, s, b)' = IF Label(m) = <<s, b>> THEN Parcel(r, s, b) \union m.data
                                                        ELSE Parcel(r, s, b)
          BY <2>1, <5>1, ParcelAppend
        <5> QED
          BY <5>2, <5>3
      <4> QED
        BY <4>1, <4>2
    <3> QED
      BY <1>5, <2>3, <2>5, <3>2, LeftIs
  <2> QED
    BY <1>5, <2>4, <2>5
<1> QED
  BY <1>4, <1>5

\* What a rank left in a head slice is what it left, until it is received.
LEMMA LeftStays ==
    ASSUME Usual, MessageInv, MessageInv', AgeInv, SentInv, [Next]_vars,
           NEW x \in Ranks, NEW s \in Nat, NEW b \in 0 .. N - 1, s < MaxStep, HeadOver(x, s, b),
           \A r \in Ranks : WaitReceives(r) /\ Upstream(r) = x =>
              <<s, b>> # <<step[r] - 1, box[r]>>
    PROVE  Left(x, s, b)' = Left(x, s, b)
<1>1. TypeOK /\ TypeOK'
  BY DEF MessageInv
<1>2. CASE UNCHANGED vars
  BY <1>2, LeftKept DEF vars, Holds
<1>3. ASSUME NEW r \in Ranks, RankNext(r)
      PROVE  Left(x, s, b)' = Left(x, s, b)
  <2>1. CASE WaitReceives(r)
    BY <2>1, LeftAtWait
  <2>2. CASE SolveHead(r)
    BY <1>1, <2>2, LeftAtHead
  <2>3. CASE Notify(r)
    BY <1>1, <2>3, LeftAtNotify
  <2> QED
    BY <1>1, <1>3, <2>1, <2>2, <2>3, LeftAtGhosts DEF RankNext
<1> QED
  BY <1>2, <1>3 DEF Next, Terminating

-----------------------------------------------------------------------------
(* What the labels on the way say                                          *)

\* Rank r has the ghosts of box b, and is still to receive the box.
Awaits(r, b) ==
    /\ b >= 0
    /\ \/ pc[r] = "Wait" /\ b = box[r] /\ b < N - 1
       \/ pc[r] \in {"SolveTail", "Notify"} /\ b = box[r] - 1

LEMMA AwaitedIsOver ==
    ASSUME Usual, MessageInv, StepsDealt, NEW r \in Ranks, NEW b \in Int, Awaits(r, b), step[r] > 0
    PROVE  /\ HeadOver(Upstream(r), step[r] - 1, b) /\ step[r] - 1 \in Nat
           /\ step[r] - 1 < MaxStep /\ b \in 0 .. N - 2
<1>1. TypeOK /\ ControlOK
  BY DEF MessageInv
<1>2. /\ step[r] \in Nat /\ box[r] \in 0 .. N - 1 /\ N \in Nat /\ MaxStep \in Nat
      /\ step[r] <= MaxStep
  BY <1>1, RanksAreSomewhere DEF Awaits
<1>3. b \in 0 .. N - 2
  BY <1>2 DEF Awaits
<1>4. RecvPos("ghostCounts", r) = After("ghostCounts", <<step[r] - 1, b>>)
  BY <1>2, <1>3 DEF Awaits, RecvPos, RecvAt, After, LastBox, FirstBox
<1>5. HeadDone(step[r] - 1, b)
  BY <1>2, <1>3, <1>4, GhostsHaveCome
<1>6. Owner(step[r] - 1) = Upstream(r)
  BY <1>2, OwnerUpstream DEF StepsDealt
<1>7. HeadOver(Upstream(r), step[r] - 1, b)
  BY <1>5, <1>6 DEF HeadDone, HeadOver, Holds, PastHead
<1> QED
  BY <1>2, <1>3, <1>7

\* The ghost messages a rank has yet to receive are for boxes behind the one
\* it waits for.
LEMMA GhostsAreAhead ==
    ASSUME Usual, MessageInv, SentInv, NEW r \in Ranks, pc[r] = "Wait", step[r] > 0,
           NEW k \in GhostKinds, NEW m \in InFlight(k, Upstream(r))
    PROVE  Label(m) # <<step[r] - 1, box[r]>>
<1>0. PICK u \in Ranks : u = Upstream(r)
  BY Constants
<1> DEFINE c == chan["ghostCounts"][u]
           p == chan["ghostParticles"][u]
           first == RecvPos("ghostCounts", r)
<1>1. TypeOK /\ ControlOK /\ ChannelsExact /\ ChanOK
  BY TypeOfControl DEF MessageInv
<1>2. step[r] \in Nat /\ box[r] \in 0 .. N - 1 /\ N \in Nat \ {0} /\ MaxStep \in Nat
  BY <1>1, RanksAreSomewhere
<1>3. /\ c \in Seq(Msg("ghostCounts")) /\ p \in Seq(Msg("ghostParticles"))
      /\ Len(c) \in Nat /\ \A n \in Msg("ghostCounts") : n.step \in Nat /\ n.box \in Int
  BY <1>1, ChannelTypes DEF Kinds, Small
<1>4. first = IF box[r] = 0 THEN <<step[r] - 1 + N, N - 2>> ELSE <<step[r] - 1, box[r] - 1>>
  BY <1>2 DEF RecvPos, RecvAt
<1>5. CASE N = 1
  <2>1. SentBefore(k, u, m)
    BY <1>0 DEF SentInv, GhostKinds, Kinds, Small
  <2>2. m.box < 0
    BY <1>2, <1>5, <2>1 DEF SentBefore
  <2> QED
    BY <1>2, <2>2 DEF Label
<1>6. CASE N > 1
  <2>1. Chain("ghostCounts", c, first, SendPos("ghostCounts", u)) /\ Paired(c, p)
    BY <1>0, <1>1, <1>6 DEF ChannelsExact, Heads
  <2> HIDE DEF c, p, first
  <2>2. ASSUME NEW i \in 1 .. Len(c)
        PROVE  Label(c[i]) # <<step[r] - 1, box[r]>>
    <3>1. Label(c[i]) = first \/ Precedes(first, Label(c[i]))
      <4>1. c # <<>> /\ 1 \in 1 .. Len(c)
        BY <1>3, <2>2, EmptySeq
      <4>2. Label(c[1]) = first
        BY <2>1, <4>1 DEF Chain
      <4>3. i # 1 => Precedes(Label(c[1]), Label(c[i]))
        <5>1. 1 < i \/ i = 1
          BY <1>3, <2>2
        <5> QED
          BY <2>1, <2>2, <4>1, <5>1 DEF Chain
      <4> QED
        BY <4>2, <4>3
    <3>2. CASE Label(c[i]) = first
      BY <1>2, <1>4, <3>2
    <3>3. CASE Precedes(first, Label(c[i]))
      BY <1>2, <1>4, <3>3 DEF Precedes
    <3> QED
      BY <3>1, <3>2, <3>3
  <2>3. CASE k = "ghostCounts"
    BY <1>0, <2>2, <2>3 DEF InFlight, c
  <2>4. CASE k = "ghostParticles"
    <3>1. PICK f \in [1 .. Len(p) -> 1 .. Len(c)] : Pairs(f, c, p)
      BY <2>1 DEF Paired
    <3>2. PICK i \in 1 .. Len(p) : m = p[i]
      BY <1>0, <2>4 DEF InFlight, p
    <3>3. f[i] \in 1 .. Len(c) /\ Label(m) = Label(c[f[i]])
      BY <3>1, <3>2 DEF Pairs, Announces
    <3> QED
      BY <2>2, <3>3
  <2> QED
    BY <2>3, <2>4 DEF GhostKinds
<1> QED
  BY <1>2, <1>5, <1>6

\* Wait takes all that upstream left of the box.
LEMMA LeftIsReceived ==
    ASSUME Usual, MessageInv, SentInv, NEW r \in Ranks, WaitReceives(r)
    PROVE  Left(Upstream(r), step[r] - 1, box[r]) =
             HeadIds(IF Received("counts", r).data.np > 0
                       THEN Received("particles", r).data ELSE {}, box[r])
<1>0. PICK u \in Ranks : u = Upstream(r)
  BY Constants
<1> DEFINE c == chan["counts"][u]
           p == chan["particles"][u]
           l == <<step[r] - 1, box[r]>>
           np == Received("counts", r).data.np
<1>1. TypeOK /\ ControlOK /\ ChannelsExact /\ MessageMatches /\ ChanOK
  BY TypeOfControl, InvMatches DEF MessageInv
<1>2. /\ step[r] \in Nat /\ box[r] \in 0 .. N - 1 /\ pc[r] = "Wait" /\ step[r] > 0
      /\ c # <<>>
  BY <1>0, <1>1, RanksAreSomewhere DEF WaitReceives
<1>3. c \in Seq(Msg("counts")) /\ p \in Seq(Msg("particles")) /\ Len(c) \in Nat /\ Len(p) \in Nat
  BY <1>1, ChannelTypes DEF Kinds, Small
<1>4. c[1] = Received("counts", r) /\ c[1].step = step[r] - 1 /\ c[1].box = box[r]
  <2>1. IsFor("counts", r, box[r])
    BY <1>1, <1>2 DEF MessageMatches
  <2> QED
    BY <1>0, <1>2, <2>1 DEF IsFor, Received
<1>5. Chain("counts", c, RecvPos("counts", r), SendPos("counts", u)) /\ Paired(c, p)
  BY <1>0, <1>1 DEF ChannelsExact, Heads
<1> HIDE DEF c, p, l
<1>6. 1 \in 1 .. Len(c) /\ c[1] \in Msg("counts")
  BY <1>2, <1>3, EmptySeq, ElementOfSeq
<1>7. ~ Holds(u, step[r] - 1, box[r])
  <2>1. c[1] \in InFlight("counts", u) /\ "counts" \in Kinds /\ "counts" \notin GhostKinds
    BY <1>6 DEF InFlight, c, Kinds, Small, GhostKinds
  <2>2. SentBefore("counts", u, c[1])
    BY <2>1 DEF SentInv
  <2>3. step[u] \in Nat /\ box[u] \in Int
    BY <1>1, RanksAreSomewhere
  <2> QED
    BY <1>2, <1>4, <2>1, <2>2, <2>3 DEF SentBefore, Holds
<1>8. PICK f \in [1 .. Len(p) -> 1 .. Len(c)] : Pairs(f, c, p)
  BY <1>5 DEF Paired
<1>9. ASSUME NEW j \in 1 .. Len(c), Label(c[j]) = l
      PROVE  j = 1
  <2>1. Label(c[1]) = l
    BY <1>4 DEF Label, l
  <2>2. j > 1 => Precedes(Label(c[1]), Label(c[j]))
    BY <1>5, <1>6 DEF Chain
  <2>3. ~ Precedes(l, l)
    BY <1>2 DEF Precedes, l
  <2> QED
    BY <1>3, <1>9, <2>1, <2>2, <2>3
<1>10. ASSUME NEW i \in 1 .. Len(p), Label(p[i]) = l
       PROVE  f[i] = 1 /\ np > 0
  <2>1. f[i] \in 1 .. Len(c) /\ Label(c[f[i]]) = l /\ c[f[i]].data.np > 0
    BY <1>8, <1>10 DEF Pairs, Announces
  <2>2. f[i] = 1
    BY <1>9, <2>1
  <2> QED
    BY <1>4, <2>1, <2>2
<1>11. Parcel(u, step[r] - 1, box[r]) = IF np > 0 THEN Received("particles", r).data ELSE {}
  <2> DEFINE L == {w \in InFlight("particles", u) : Label(w) = l}
  <2>1. Parcel(u, step[r] - 1, box[r]) = UNION {w.data : w \in L}
    BY DEF Parcel, l
  <2>2. CASE ~ (np > 0)
    <3>1. ASSUME NEW w \in L
          PROVE  FALSE
      <4>1. PICK i \in 1 .. Len(p) : w = p[i]
        BY DEF InFlight, p
      <4> QED
        BY <1>10, <2>2, <4>1
    <3>2. UNION {w.data : w \in L} = {}
      BY <3>1
    <3> HIDE DEF L
    <3> QED
      BY <2>1, <2>2, <3>2
  <2>3. CASE np > 0
    <3>1. /\ p # <<>> /\ p[1] = Received("particles", r)
          /\ p[1].step = step[r] - 1 /\ p[1].box = box[r]
      BY <1>0, <2>3, FirstParcel DEF p
    <3>2. 1 \in 1 .. Len(p)
      BY <1>3, <3>1, EmptySeq
    <3>3. ASSUME NEW i \in 1 .. Len(p), Label(p[i]) = l
          PROVE  i = 1
      <4>1. f[i] = 1 /\ f[1] \in 1 .. Len(c)
        BY <1>10, <3>2, <3>3
      <4>2. i > 1 => f[1] < f[i]
        BY <1>8, <3>2 DEF Pairs
      <4> QED
        BY <1>3, <4>1, <4>2
    <3>4. L = {p[1]}
      BY <3>1, <3>2, <3>3 DEF InFlight, p, Label, l
    <3> HIDE DEF L
    <3> QED
      BY <2>1, <2>3, <3>1, <3>4
  <2> QED
    BY <2>2, <2>3
<1> QED
  BY <1>0, <1>7, <1>11, LeftIs

-----------------------------------------------------------------------------
(* The ghosts on their way                                                 *)

LEMMA GhostLabels ==
    ASSUME Usual, TypeOK, ControlOK, SentInv, NEW r \in Ranks, NEW k \in GhostKinds,
           NEW m \in InFlight(k, r)
    PROVE  /\ HeadOver(r, m.step, m.box) /\ m.step \in Nat /\ m.step < MaxStep
           /\ m.box \in 0 .. N - 1 /\ m \in Msg(k)
<1>1. k \in Kinds
  BY DEF GhostKinds, Kinds, Small
<1>2. SentBefore(k, r, m)
  BY <1>1 DEF SentInv
<1>3. m \in Msg(k)
  <2>1. chan[k][r] \in Seq(Msg(k))
    BY <1>1, ChannelTypes DEF TypeOK
  <2> QED
    BY <2>1, ElementOfSeq DEF InFlight
<1>4. m.step \in Nat /\ m.box \in 0 .. N - 1
  <2>1. m.step \in Nat /\ m.box \in Boxes
    BY <1>3 DEF Msg
  <2>2. Boxes = 0 .. N - 1
    BY TypeOfControl DEF Boxes
  <2> QED
    BY <2>1, <2>2
<1>5. step[r] \in Nat /\ box[r] \in 0 .. N - 1
  BY RanksAreSomewhere
<1> QED
  BY <1>2, <1>3, <1>4, <1>5 DEF SentBefore, HeadOver, Holds, PastHead

LEMMA GhostsKeepTrue ==
    ASSUME Usual, MessageInv, MessageInv', AgeInv, SentInv, [Next]_vars,
           NEW r \in Ranks, NEW k \in GhostKinds, NEW m \in InFlight(k, r)
    PROVE  Left(r, m.step, m.box)' = Left(r, m.step, m.box)
<1>1. TypeOK /\ ControlOK
  BY DEF MessageInv
<1>2. /\ HeadOver(r, m.step, m.box) /\ m.step \in Nat /\ m.step < MaxStep
      /\ m.box \in 0 .. N - 1
  BY <1>1, GhostLabels
<1>3. ASSUME NEW d \in Ranks, WaitReceives(d), Upstream(d) = r
      PROVE  <<m.step, m.box>> # <<step[d] - 1, box[d]>>
  <2>1. pc[d] = "Wait" /\ step[d] > 0
    BY <1>3 DEF WaitReceives
  <2> QED
    BY <1>3, <2>1, GhostsAreAhead DEF Label
<1> QED
  BY <1>2, <1>3, LeftStays

\* A ghost message sent now is what the rank has just left in the head slice.
LEMMA NewGhostsTrue ==
    ASSUME Usual, TypeOK, TypeOK', NEW r \in Ranks, NotifyGhostSends(r)
    PROVE  Left(r, step[r], box[r])' = HeadIds(headBin[r], box[r])
<1>1. Moves(r, "NotifyGhost", "WaitGhost") /\ headBin' = headBin
  BY ControlOfActions, GhostHandlersAreQuiet
<1>2. step' = step /\ box' = box /\ pc'[r] = "WaitGhost"
  BY <1>1, TypeOfControl DEF Moves
<1>3. PICK s \in Nat : s = step[r]
  BY TypeOfControl
<1>4. PICK b \in 0 .. N - 1 : b = box[r]
  BY TypeOfControl
<1>5. Holds(r, s, b)'
  BY <1>2, <1>3, <1>4 DEF Holds, PastHead
<1>6. Left(r, s, b)' = HeadIds(headBin[r], b)
  BY <1>1, <1>5, LeftIs
<1>7. Left(r, step[r], box[r])' = Left(r, s, b)'
  BY <1>2, <1>3, <1>4 DEF Left, Parcel
<1> QED
  BY <1>4, <1>6, <1>7

LEMMA NextGhostsTrue ==
    ASSUME Usual, MessageInv, MessageInv', AgeInv, SentInv, GhostsTrue, [Next]_vars
    PROVE  GhostsTrue'
<1>1. TypeOK /\ TypeOK' /\ ControlOK /\ "ghostCounts" \in Kinds /\ "ghostParticles" \in Kinds
  BY DEF MessageInv, Kinds, Small
<1>2. ASSUME NEW r \in Ranks, NEW n \in InFlight("ghostCounts", r)', n.data.np = 0
      PROVE  Left(r, n.step, n.box)' = {}
  <2>1. n \in InFlight("ghostCounts", r) \/ Sends(r, "ghostCounts", n)
    BY <1>1, MessagesComeFrom
  <2>2. CASE n \in InFlight("ghostCounts", r)
    <3>1. Left(r, n.step, n.box) = {}
      BY <1>2, <2>2 DEF GhostsTrue
    <3>2. Left(r, n.step, n.box)' = Left(r, n.step, n.box)
      BY <2>2, GhostsKeepTrue DEF GhostKinds
    <3> QED
      BY <3>1, <3>2
  <2>3. CASE Sends(r, "ghostCounts", n)
    <3>1. /\ NotifyGhostSends(r) /\ n.step = step[r] /\ n.box = box[r]
          /\ Cardinality(headBin[r]) = 0
      BY <1>2, <2>3 DEF Sends, Label
    <3>2. headBin[r] = {}
      BY <1>1, <3>1, BeamTypes, FS_EmptySet DEF Beams
    <3>3. step' = step /\ box' = box
      BY <3>1 DEF NotifyGhostSends
    <3>4. Left(r, step[r], box[r])' = {}
      BY <1>1, <3>1, <3>2, NewGhostsTrue, HeadIdsRules
    <3> QED
      BY <3>1, <3>3, <3>4
  <2> QED
    BY <2>1, <2>2, <2>3
<1>3. ASSUME NEW r \in Ranks, NEW m \in InFlight("ghostParticles", r)'
      PROVE  HeadIds(m.data, m.box) = Left(r, m.step, m.box)'
  <2>1. m \in InFlight("ghostParticles", r) \/ Sends(r, "ghostParticles", m)
    BY <1>1, MessagesComeFrom
  <2>2. CASE m \in InFlight("ghostParticles", r)
    <3>1. HeadIds(m.data, m.box) = Left(r, m.step, m.box)
      BY <2>2 DEF GhostsTrue
    <3>2. Left(r, m.step, m.box)' = Left(r, m.step, m.box)
      BY <2>2, GhostsKeepTrue DEF GhostKinds
    <3> QED
      BY <3>1, <3>2
  <2>3. CASE Sends(r, "ghostParticles", m)
    <3>1. /\ NotifyGhostSends(r) /\ m.step = step[r] /\ m.box = box[r]
          /\ m.data = headBin[r]
      BY <2>3 DEF Sends, Label
    <3>2. step' = step /\ box' = box
      BY <3>1 DEF NotifyGhostSends
    <3>3. Left(r, step[r], box[r])' = HeadIds(headBin[r], box[r])
      BY <1>1, <3>1, NewGhostsTrue
    <3> QED
      BY <3>1, <3>2, <3>3
  <2> QED
    BY <2>1, <2>2, <2>3
<1> QED
  BY <1>2, <1>3 DEF GhostsTrue

-----------------------------------------------------------------------------
(* From the ghosts to the head slice                                       *)

\* What is still to come for a head slice comes.
LEMMA ComingStays ==
    ASSUME Usual, MessageInv, MessageInv', StepsDealt, AgeInv, SentInv, [Next]_vars,
           NEW r \in Ranks, NEW b \in Int, Awaits(r, b), step'[r] = step[r], ~ WaitReceives(r)
    PROVE  Coming(r, b)' = Coming(r, b)
<1>1. CASE step[r] = 0
  BY <1>1 DEF Coming
<1>2. CASE step[r] # 0
  <2>1. PICK u \in Ranks : u = Upstream(r)
    BY Constants
  <2>2. PICK s \in Nat : s = step[r] - 1 /\ HeadOver(u, s, b) /\ s < MaxStep /\ b \in 0 .. N - 1
    <3>1. step[r] \in Nat /\ N \in Nat
      BY RanksAreSomewhere DEF MessageInv
    <3> QED
      BY <1>2, <2>1, <3>1, AwaitedIsOver
  <2>3. \A d \in Ranks : WaitReceives(d) => Upstream(d) # u
    BY <2>1, UpstreamInjective
  <2>4. Left(u, s, b)' = Left(u, s, b)
    BY <2>2, <2>3, LeftStays
  <2>5. Coming(r, b) = Left(u, s, b)
    BY <1>2, <2>1, <2>2 DEF Coming
  <2>6. Coming(r, b)' = Left(u, s, b)'
    BY <1>2, <2>1, <2>2 DEF Coming
  <2> QED
    BY <2>4, <2>5, <2>6
<1> QED
  BY <1>1, <1>2

\* The particles of the box behind that are here already are its local ghosts.
LEMMA HeadsInBox ==
    ASSUME NEW S \in Beams, NEW b \in Int
    PROVE  /\ HeadIds(InBox(S, b), b) = HeadIds(S, b)
           /\ HeadIds(S, b) = {p.id : p \in {q \in InBox(S, b) : q.z = HeadRegion(b)}}
           /\ b >= 0 => HeadIds(BelowBox(S, b + 1), b) = HeadIds(S, b)
<1>1. \A p \in S : p.z = HeadRegion(b) => p \in InBox(S, b)
  <2>1. ASSUME NEW p \in S, p.z = HeadRegion(b)
        PROVE  BoxOf(p.z) = b
    <3>1. p.z \in Int /\ p.z = 2 * b + 1
      BY <2>1 DEF Beams, Particle, HeadRegion
    <3> QED
      BY <3>1, BoxRegions
  <2> QED
    BY <2>1 DEF InBox
<1>2. ASSUME b >= 0
      PROVE  \A p \in S : p.z = HeadRegion(b) => p \in BelowBox(S, b + 1)
  <2>1. ASSUME NEW p \in S, p.z = HeadRegion(b)
        PROVE  BoxOf(p.z) \in 0 .. (b + 1) - 1
    <3>1. p \in InBox(S, b)
      BY <1>1, <2>1
    <3>2. BoxOf(p.z) = b
      BY <3>1 DEF InBox
    <3> QED
      BY <1>2, <3>2
  <2> QED
    BY <2>1 DEF BelowBox
<1>3. BelowBox(S, b + 1) \subseteq S /\ InBox(S, b) \subseteq S
  BY DEF BelowBox, InBox
<1> QED
  BY <1>1, <1>2, <1>3 DEF HeadIds

\* The handlers of other ranks.
LEMMA GhostsOKElsewhere ==
    ASSUME Usual, MessageInv, MessageInv', StepsDealt, AgeInv, SentInv, [Next]_vars,
           NEW r \in Ranks, GhostsOK(r), ~ WaitReceives(r),
           pc'[r] = pc[r], step'[r] = step[r], box'[r] = box[r], beam'[r] = beam[r],
           headBin'[r] = headBin[r], ghosts'[r] = ghosts[r], nextSlice'[r] = nextSlice[r]
    PROVE  GhostsOK(r)'
<1>0. box[r] \in Int
  BY RanksAreSomewhere DEF MessageInv
<1>1. ASSUME pc[r] \in {"SolveTail", "Notify"}, box[r] - 1 >= 0
      PROVE  Coming(r, box[r] - 1)' = Coming(r, box[r] - 1)
  <2>1. PICK b \in Int : b = box[r] - 1
    BY <1>0
  <2>2. Awaits(r, b)
    BY <1>1, <2>1 DEF Awaits
  <2>3. Coming(r, b)' = Coming(r, b)
    BY <2>2, ComingStays
  <2> QED
    BY <2>1, <2>3 DEF Coming
<1>2. ASSUME pc[r] = "Wait", box[r] < N - 1
      PROVE  Coming(r, box[r])' = Coming(r, box[r])
  <2>1. PICK b \in Int : b = box[r]
    BY <1>0
  <2>2. Awaits(r, b)
    BY <1>2, <2>1, RanksAreSomewhere DEF Awaits, MessageInv
  <2>3. Coming(r, b)' = Coming(r, b)
    BY <2>2, ComingStays
  <2> QED
    BY <2>1, <2>3 DEF Coming
<1>3. LocalGhosts(r)' = LocalGhosts(r)
  BY DEF LocalGhosts
<1> QED
  BY <1>1, <1>2, <1>3 DEF GhostsOK

\* The handlers of the rank itself.  Wait completes the box with what came.
LEMMA GhostsOKAtWait ==
    ASSUME Usual, MessageInv, SentInv, NEW r \in Ranks, GhostsOK(r), WaitReceives(r)
    PROVE  GhostsOK(r)'
<1> DEFINE np == Received("counts", r).data.np
           D == IF np > 0 THEN Received("particles", r).data ELSE {}
           b == box[r]
<1>1. TypeOK /\ Moves(r, "Wait", "SolveHead") /\ step[r] > 0 /\ step[r] \in Nat
  BY ControlOfActions, TypeOfControl DEF MessageInv, WaitReceives
<1>2. pc[r] = "Wait" /\ pc'[r] = "SolveHead" /\ box'[r] = box[r]
  BY <1>1, TypeOfControl DEF Moves
<1>3. nextSlice' = nextSlice
  BY DEF WaitReceives
<1>4. beam'[r] = beam[r] \union D
  <2>1. beam' = IF np > 0 THEN [beam EXCEPT ![r] = @ \union D] ELSE beam
    BY DEF WaitReceives
  <2> QED
    BY <1>1, <2>1, BeamTypes
<1>5. Coming(r, b) = HeadIds(D, b)
  BY <1>1, LeftIsReceived DEF Coming
<1>6. b < N - 1 => nextSlice[r] = HeadIds(beam[r], b) \union Coming(r, b)
  BY <1>2 DEF GhostsOK
<1>7. HeadIds(beam'[r], b) = HeadIds(beam[r], b) \union HeadIds(D, b)
  BY <1>4 DEF HeadIds
<1>8. b < N - 1 => nextSlice'[r] = HeadIds(beam'[r], b)
  BY <1>3, <1>5, <1>6, <1>7
<1> QED
  BY <1>2, <1>8 DEF GhostsOK

LEMMA GhostsOKAtHead ==
    ASSUME Usual, TypeOK, TypeOK', NEW r \in Ranks, GhostsOK(r), SolveHead(r)
    PROVE  GhostsOK(r)'
<1> DEFINE b == box[r]
<1>1. PICK slip \in [HeadOf(r) -> 0 .. MaxSlip] :
        headBin'[r] = {Push(p, slip[p]) : p \in HeadOf(r)}
  BY HeadEffect
<1>2. beam'[r] = beam[r] \ MineOf(r)
  BY HeadEffect
<1>3. /\ pc[r] = "SolveHead" /\ pc'[r] = "NotifyGhost" /\ box'[r] = box[r]
      /\ b \in Int
  BY ControlOfActions, TypeOfControl DEF Moves
<1>4. ghosts'[r] = LocalGhosts(r) /\ nextSlice' = nextSlice
  <2>1. ghosts' = [ghosts EXCEPT ![r] = LocalGhosts(r)]
    BY DEF SolveHead
  <2> QED
    BY <2>1 DEF SolveHead, TypeOK
<1>5. LocalGhosts(r)' = LocalGhosts(r)
  <2>1. InBox(beam[r] \ MineOf(r), b - 1) = InBox(beam[r], b - 1)
    BY <1>3 DEF InBox, MineOf
  <2>2. LocalGhosts(r)' = IF b > 0 THEN InBox(beam'[r], b - 1) ELSE {}
    BY <1>3 DEF LocalGhosts
  <2> QED
    BY <1>2, <2>1, <2>2 DEF LocalGhosts
<1>6. {p.id : p \in headBin'[r]} = HeadIds(beam[r], b)
  <2>1. HeadIds(beam[r], b) = {p.id : p \in HeadOf(r)}
    BY <1>3, BeamTypes, HeadsInBox DEF HeadOf, MineOf
  <2>2. \A p \in HeadOf(r) : Push(p, slip[p]).id = p.id
    BY DEF Push
  <2> QED
    BY <1>1, <2>1, <2>2
<1>7. b < N - 1 => nextSlice'[r] = {p.id : p \in headBin'[r]}
  BY <1>3, <1>4, <1>6 DEF GhostsOK
<1>8. ghosts'[r] = LocalGhosts(r)'
  BY <1>4, <1>5
<1> QED
  BY <1>3, <1>7, <1>8 DEF GhostsOK

\* The ghost message completes the local ghosts.
LEMMA GhostsOKAtWaitGhost ==
    ASSUME Usual, MessageInv, TypeOK', GhostsTrue, NEW r \in Ranks, GhostsOK(r),
           WaitGhostReceives(r)
    PROVE  GhostsOK(r)'
<1>0. PICK u \in Ranks : u = Upstream(r)
  BY Constants
<1>1. TypeOK /\ ControlOK /\ ChanOK /\ MessageMatches
  BY TypeOfControl, InvMatches DEF MessageInv
<1>2. PICK s \in Nat : step[r] > 0 /\ s = step[r] - 1
  <2>1. step[r] > 0 /\ step[r] \in Nat
    BY <1>1, TypeOfControl DEF WaitGhostReceives, NoGhostToWait
  <2> QED
    BY <2>1
<1>3. PICK b \in Nat : b = box[r] - 1 /\ box[r] > 0
  <2>1. box[r] # 0 /\ box[r] \in 0 .. N - 1
    BY <1>1, TypeOfControl DEF WaitGhostReceives, NoGhostToWait
  <2> QED
    BY <2>1
<1> DEFINE c == chan["ghostCounts"][u]
           p == chan["ghostParticles"][u]
           np == Received("ghostCounts", r).data.np
           D == IF np > 0 THEN Received("ghostParticles", r).data ELSE {}
<1>4. /\ step' = step /\ box' = box /\ pc[r] = "WaitGhost" /\ pc'[r] = "SolveTail"
      /\ beam' = beam /\ c # <<>>
  <2>1. Moves(r, "WaitGhost", "SolveTail")
    BY ControlOfActions
  <2>2. beam' = beam /\ c # <<>>
    BY <1>0 DEF WaitGhostReceives
  <2> QED
    BY <1>1, <2>1, <2>2, TypeOfControl DEF Moves
<1>5. c \in Seq(Msg("ghostCounts")) /\ p \in Seq(Msg("ghostParticles"))
  BY <1>1, ChannelTypes DEF Kinds, Small
<1>6. ghosts'[r] = ghosts[r] \union D
  <2>1. ghosts' = IF np > 0 THEN [ghosts EXCEPT ![r] = @ \union D] ELSE ghosts
    BY DEF WaitGhostReceives
  <2> QED
    BY <1>1, <2>1 DEF TypeOK
<1>7. ghosts[r] = InBox(beam[r], b)
  BY <1>3, <1>4 DEF GhostsOK, LocalGhosts
<1>8. IsFor("ghostCounts", r, b) /\ Announced("ghostCounts", "ghostParticles", r, b)
  BY <1>1, <1>2, <1>3, <1>4 DEF MessageMatches
<1>9. c[1] = Received("ghostCounts", r) /\ c[1].step = s /\ c[1].box = b
  BY <1>0, <1>2, <1>4, <1>8 DEF IsFor, Received
<1>10. HeadIds(D, b) = Left(u, s, b)
  <2> HIDE DEF c, p, np
  <2>1. c[1] \in InFlight("ghostCounts", u) /\ c[1] \in Msg("ghostCounts")
    <3>1. 1 \in 1 .. Len(c) /\ c[1] \in Msg("ghostCounts")
      BY <1>4, <1>5, EmptySeq, ElementOfSeq
    <3> QED
      BY <3>1 DEF InFlight, c
  <2>2. CASE ~ (np > 0)
    <3>1. np = 0
      <4>1. np \in Nat
        BY <1>9, <2>1 DEF Msg, Data, Counts, np
      <4> QED
        BY <2>2, <4>1
    <3>2. Left(u, s, b) = {}
      BY <1>9, <2>1, <3>1 DEF GhostsTrue, np
    <3> QED
      BY <2>2, <3>2, HeadIdsRules
  <2>3. CASE np > 0
    <3>1. p # <<>> /\ p[1] = Received("ghostParticles", r) /\ p[1].step = s /\ p[1].box = b
      BY <1>0, <1>2, <1>4, <1>8, <1>9, <2>3 DEF Announced, IsFor, Received, c, p, np
    <3>2. p[1] \in InFlight("ghostParticles", u)
      <4>1. 1 \in 1 .. Len(p)
        BY <1>5, <3>1, EmptySeq
      <4> QED
        BY <4>1 DEF InFlight, p
    <3>3. HeadIds(p[1].data, b) = Left(u, s, b)
      BY <3>1, <3>2 DEF GhostsTrue
    <3> QED
      BY <2>3, <3>1, <3>3
  <2> QED
    BY <2>2, <2>3
<1>11. Coming(r, b)' = Left(u, s, b)
  <2>1. Left(u, s, b)' = Left(u, s, b)
    BY <1>1, LeftAtGhosts
  <2>2. Coming(r, b)' = Left(u, s, b)'
    BY <1>0, <1>2, <1>4 DEF Coming
  <2> QED
    BY <2>1, <2>2
<1>12. HeadIds(ghosts'[r], b) = HeadIds(beam'[r], b) \union Coming(r, b)'
  <2>1. HeadIds(ghosts[r], b) = HeadIds(beam[r], b)
    BY <1>1, <1>7, BeamTypes, HeadsInBox
  <2>2. HeadIds(ghosts'[r], b) = HeadIds(ghosts[r], b) \union HeadIds(D, b)
    BY <1>6 DEF HeadIds
  <2> QED
    BY <1>4, <1>10, <1>11, <2>1, <2>2
<1>13. box'[r] - 1 = b
  BY <1>3, <1>4
<1> QED
  BY <1>4, <1>12, <1>13 DEF GhostsOK

\* Handlers that receive nothing: a rank in its first step, the first box.
LEMMA GhostsOKAtReturns ==
    ASSUME Usual, TypeOK, TypeOK', ControlOK, NEW r \in Ranks, GhostsOK(r),
           \/ StartStep(r) \/ WaitReturns(r) \/ NotifyGhostReturns(r)
           \/ NotifyGhostLastStep(r) \/ NotifyGhostSends(r) \/ WaitGhostReturns(r)
           \/ Destroy(r)
    PROVE  GhostsOK(r)'
<1>1. /\ UNCHANGED <<beam, headBin>> /\ UNCHANGED <<ghosts, nextSlice>>
  <2>1. UNCHANGED <<beam, headBin, restBin>>
    BY GhostHandlersAreQuiet
  <2>2. UNCHANGED <<ghosts, nextSlice>>
    BY DEF StartStep, WaitReturns, NotifyGhostReturns, NotifyGhostLastStep,
           NotifyGhostSends, WaitGhostReturns, Destroy
  <2> QED
    BY <2>1, <2>2
<1>2. ASSUME NEW p, NEW q, Moves(r, p, q)
      PROVE  step' = step /\ box' = box /\ pc[r] = p /\ pc'[r] = q
  BY <1>2, TypeOfControl DEF Moves
<1>3. LocalGhosts(r)' = LocalGhosts(r)
  <2>1. box' = box
    BY DEF StartStep, WaitReturns, NotifyGhostReturns, NotifyGhostLastStep,
           NotifyGhostSends, WaitGhostReturns, Destroy
  <2> QED
    BY <1>1, <2>1 DEF LocalGhosts
<1>4. CASE StartStep(r)
  <2>1. pc'[r] = "Wait" /\ pc[r] = "StartStep" /\ box' = box
    BY <1>2, <1>4, ControlOfActions
  <2>2. box[r] = N - 1
    BY <2>1 DEF ControlOK
  <2> QED
    BY <2>1, <2>2, Constants DEF GhostsOK
<1>5. CASE WaitReturns(r)
  <2>1. pc'[r] = "SolveHead" /\ pc[r] = "Wait" /\ box' = box
    BY <1>2, <1>5, ControlOfActions
  <2>2. step[r] = 0
    BY <1>5 DEF WaitReturns, Usual, SkipRecv
  <2>3. Coming(r, box[r]) = {}
    BY <2>2 DEF Coming
  <2> QED
    BY <1>1, <2>1, <2>3 DEF GhostsOK
<1>6. CASE NotifyGhostReturns(r) \/ NotifyGhostLastStep(r) \/ NotifyGhostSends(r)
  <2>1. pc'[r] = "WaitGhost" /\ pc[r] = "NotifyGhost" /\ box' = box
    BY <1>2, <1>6, ControlOfActions
  <2> QED
    BY <1>1, <1>3, <2>1 DEF GhostsOK
<1>7. CASE WaitGhostReturns(r)
  <2>1. pc'[r] = "SolveTail" /\ pc[r] = "WaitGhost" /\ box' = box /\ step' = step
    BY <1>2, <1>7, ControlOfActions
  <2>2. box[r] = 0 \/ step[r] = 0
    BY <1>7 DEF WaitGhostReturns, NoGhostToWait, Usual, SkipRecv
  <2>3. ASSUME box[r] - 1 >= 0
        PROVE  /\ HeadIds(ghosts[r], box[r] - 1) = HeadIds(beam[r], box[r] - 1)
               /\ step[r] = 0
    <3>1. PICK b \in Nat : b = box[r] - 1 /\ box[r] > 0
      BY <2>3, TypeOfControl
    <3>2. ghosts[r] = InBox(beam[r], b)
      BY <2>1, <3>1 DEF GhostsOK, LocalGhosts
    <3>3. HeadIds(ghosts[r], b) = HeadIds(beam[r], b)
      BY <3>2, BeamTypes, HeadsInBox
    <3> QED
      BY <2>2, <3>1, <3>3
  <2>4. step[r] = 0 => Coming(r, box[r] - 1)' = {}
    BY <2>1 DEF Coming
  <2> QED
    BY <1>1, <2>1, <2>3, <2>4 DEF GhostsOK
<1>8. CASE Destroy(r)
  <2>1. pc'[r] = "Gone"
    BY <1>2, <1>8, ControlOfActions
  <2> QED
    BY <2>1 DEF GhostsOK
<1> QED
  BY <1>4, <1>5, <1>6, <1>7, <1>8

\* The tail slice deposits the ghosts.
LEMMA GhostsOKAtTail ==
    ASSUME Usual, TypeOK, TypeOK', NEW r \in Ranks, GhostsOK(r), SolveTail(r)
    PROVE  GhostsOK(r)'
<1> DEFINE b == box[r] - 1
<1>1. /\ step' = step /\ box' = box /\ pc[r] = "SolveTail" /\ pc'[r] = "Notify"
  BY ControlOfActions, TypeOfControl DEF Moves
<1>2. beam' = beam
  BY TailEffect
<1>3. nextSlice'[r] = HeadIds(ghosts[r], b)
  <2>1. nextSlice' = [nextSlice EXCEPT ![r] =
                        {p.id : p \in {g \in ghosts[r] : g.z = HeadRegion(box[r] - 1)}}]
    BY DEF SolveTail
  <2> QED
    BY <2>1 DEF HeadIds, TypeOK
<1>4. b >= 0 => HeadIds(ghosts[r], b) = HeadIds(beam[r], b) \union Coming(r, b)
  BY <1>1 DEF GhostsOK
<1>5. Coming(r, box[r] - 1)' = Coming(r, box[r] - 1)
  <2>1. PICK c \in Int : c = box[r] - 1
    BY TypeOfControl
  <2>2. PICK u \in Ranks : u = Upstream(r)
    BY Constants
  <2>3. PICK s \in Int : s = step[r] - 1
    BY TypeOfControl
  <2>4. Left(u, s, c)' = Left(u, s, c)
    BY LeftAtGhosts
  <2>5. Coming(r, box[r] - 1) = IF step[r] = 0 THEN {} ELSE Left(u, s, c)
    BY <2>1, <2>2, <2>3 DEF Coming
  <2>6. Coming(r, box[r] - 1)' = IF step[r] = 0 THEN {} ELSE Left(u, s, c)'
    BY <1>1, <2>1, <2>2, <2>3 DEF Coming
  <2> QED
    BY <2>4, <2>5, <2>6
<1>6. box'[r] - 1 = b
  BY <1>1
<1>7. b >= 0 => nextSlice'[r] = HeadIds(beam'[r], b) \union Coming(r, box[r] - 1)'
  BY <1>2, <1>3, <1>4, <1>5
<1> QED
  BY <1>1, <1>6, <1>7 DEF GhostsOK

\* The box goes, what is in the head slice of the next stays.
LEMMA GhostsOKAtNotify ==
    ASSUME Usual, MessageInv, MessageInv', StepsDealt, AgeInv, SentInv, [Next]_vars,
           NEW r \in Ranks, GhostsOK(r), Notify(r)
    PROVE  GhostsOK(r)'
<1>1. TypeOK /\ TypeOK' /\ ControlOK /\ pc[r] = "Notify"
  BY DEF MessageInv, Notify
<1>2. CASE box[r] = 0
  <2>1. pc'[r] = "StartStep"
    BY <1>1, <1>2, ControlOfNotify
  <2> QED
    BY <2>1 DEF GhostsOK
<1>3. CASE box[r] # 0
  <2>1. pc'[r] = "Wait" /\ step'[r] = step[r] /\ box'[r] = box[r] - 1 /\ nextSlice' = nextSlice
    BY <1>1, <1>3, ControlOfNotify DEF Notify
  <2>2. PICK b \in Int : b = box[r] - 1 /\ b >= 0 /\ box[r] = b + 1
    <3>1. box[r] \in 0 .. N - 1
      BY <1>1, TypeOfControl
    <3> QED
      BY <1>3, <3>1
  <2>3. nextSlice[r] = HeadIds(beam[r], b) \union Coming(r, b)
    BY <1>1, <2>2 DEF GhostsOK
  <2>4. HeadIds(beam'[r], b) = HeadIds(beam[r], b)
    <3>1. beam'[r] = beam[r] \/ beam'[r] = BelowBox(beam[r], b + 1)
      BY <1>1, <2>2, NotifyEffect
    <3> QED
      BY <1>1, <2>2, <3>1, BeamTypes, HeadsInBox
  <2>5. Coming(r, b)' = Coming(r, b)
    <3>1. Awaits(r, b)
      BY <1>1, <2>2 DEF Awaits
    <3>2. ~ WaitReceives(r)
      BY <1>1 DEF WaitReceives
    <3> QED
      BY <2>1, <3>1, <3>2, ComingStays
  <2>6. nextSlice'[r] = HeadIds(beam'[r], b) \union Coming(r, b)'
    BY <2>1, <2>3, <2>4, <2>5
  <2>7. box'[r] = b
    BY <2>1, <2>2
  <2> QED
    BY <2>1, <2>6, <2>7 DEF GhostsOK
<1> QED
  BY <1>2, <1>3

\* A handler leaves the tiles, the bins and the ghosts of other ranks alone.
LEMMA OthersUntouched ==
    ASSUME Usual, MessageInv, MessageInv', NEW r \in Ranks, RankNext(r), NEW x \in Ranks, x # r
    PROVE  /\ pc'[x] = pc[x] /\ step'[x] = step[x] /\ box'[x] = box[x]
           /\ beam'[x] = beam[x] /\ headBin'[x] = headBin[x]
           /\ ghosts'[x] = ghosts[x] /\ nextSlice'[x] = nextSlice[x]
<1>1. TypeOK /\ TypeOK' /\ ControlOK /\ pc \in [Ranks -> Labels]
  BY TypeOfControl DEF MessageInv
<1>2. pc'[x] = pc[x] /\ step'[x] = step[x] /\ box'[x] = box[x]
  <2>1. CASE Notify(r)
    BY <1>1, <2>1, ControlOfNotify
  <2>2. CASE ~ Notify(r)
    <3>1. \E p, q : Moves(r, p, q)
      BY <2>2, ControlOfActions, Zenon DEF RankNext
    <3> QED
      BY <1>1, <3>1 DEF Moves
  <2> QED
    BY <2>1, <2>2
<1>3. beam'[x] = beam[x] /\ headBin'[x] = headBin[x]
  <2>1. CASE WaitReceives(r)
    <3>1. headBin' = headBin
      BY <2>1 DEF WaitReceives
    <3>2. beam' = IF Received("counts", r).data.np > 0
                    THEN [beam EXCEPT ![r] = @ \union Received("particles", r).data] ELSE beam
      BY <2>1 DEF WaitReceives
    <3> QED
      BY <1>1, <3>1, <3>2, BeamTypes
  <2>2. CASE SolveHead(r)
    BY <1>1, <2>2, HeadEffect
  <2>3. CASE SolveTail(r)
    BY <1>1, <2>3, TailEffect
  <2>4. CASE Notify(r)
    BY <1>1, <2>4, NotifyEffect
  <2>5. CASE \/ StartStep(r) \/ WaitReturns(r) \/ NotifyGhostReturns(r)
             \/ NotifyGhostLastStep(r) \/ NotifyGhostSends(r) \/ WaitGhostReturns(r)
             \/ WaitGhostReceives(r) \/ Destroy(r)
    BY <1>1, <2>5, GhostHandlersAreQuiet
  <2> QED
    BY <2>1, <2>2, <2>3, <2>4, <2>5 DEF RankNext
<1>4. ghosts'[x] = ghosts[x]
  <2>1. ghosts \in [Ranks -> Beams]
    BY <1>1 DEF TypeOK
  <2>2. \/ ghosts' = ghosts
        \/ ghosts' = [ghosts EXCEPT ![r] = LocalGhosts(r)]
        \/ ghosts' = [ghosts EXCEPT ![r] = @ \union Received("ghostParticles", r).data]
        \/ ghosts' = [ghosts EXCEPT ![r] = {}]
    BY DEF RankNext, StartStep, WaitReturns, WaitReceives, SolveHead, NotifyGhostReturns,
           NotifyGhostLastStep, NotifyGhostSends, WaitGhostReturns, WaitGhostReceives,
           SolveTail, Notify, Destroy
  <2> QED
    BY <2>1, <2>2
<1>5. nextSlice'[x] = nextSlice[x]
  <2>1. nextSlice \in [Ranks -> SUBSET ParticleId]
    BY <1>1 DEF TypeOK
  <2>2. \/ nextSlice' = nextSlice
        \/ nextSlice' = [nextSlice EXCEPT ![r] =
                           {p.id : p \in {g \in ghosts[r] : g.z = HeadRegion(box[r] - 1)}}]
    BY DEF RankNext, StartStep, WaitReturns, WaitReceives, SolveHead, NotifyGhostReturns,
           NotifyGhostLastStep, NotifyGhostSends, WaitGhostReturns, WaitGhostReceives,
           SolveTail, Notify, Destroy
  <2> QED
    BY <2>1, <2>2
<1> QED
  BY <1>2, <1>3, <1>4, <1>5

LEMMA NextGhostsOK ==
    ASSUME Usual, MessageInv, MessageInv', StepsDealt, AgeInv, GhostInv, [Next]_vars,
           NEW x \in Ranks
    PROVE  GhostsOK(x)'
<1>1. /\ TypeOK /\ TypeOK' /\ ControlOK /\ SentInv /\ GhostsTrue /\ GhostsOK(x)
  BY DEF MessageInv, GhostInv
<1>2. CASE UNCHANGED vars
  <2>1. ~ WaitReceives(x)
    <3>1. Moves(x, "Wait", "SolveHead") => pc'[x] # pc[x]
      BY <1>1, TypeOfControl DEF Moves
    <3> QED
      BY <1>2, <3>1, ControlOfActions DEF vars
  <2> QED
    BY <1>1, <1>2, <2>1, GhostsOKElsewhere DEF vars
<1>3. ASSUME NEW r \in Ranks, RankNext(r)
      PROVE  GhostsOK(x)'
  <2>1. CASE x = r
    <3>1. CASE WaitReceives(r)
      BY <1>1, <2>1, <3>1, GhostsOKAtWait
    <3>2. CASE SolveHead(r)
      BY <1>1, <2>1, <3>2, GhostsOKAtHead
    <3>3. CASE WaitGhostReceives(r)
      BY <1>1, <2>1, <3>3, GhostsOKAtWaitGhost
    <3>4. CASE SolveTail(r)
      BY <1>1, <2>1, <3>4, GhostsOKAtTail
    <3>5. CASE Notify(r)
      BY <1>1, <2>1, <3>5, GhostsOKAtNotify
    <3> QED
      BY <1>1, <1>3, <2>1, <3>1, <3>2, <3>3, <3>4, <3>5, GhostsOKAtReturns DEF RankNext
  <2>2. CASE x # r
    <3>1. ~ WaitReceives(x)
      <4>1. Moves(x, "Wait", "SolveHead") => pc'[x] # pc[x]
        BY <1>1, TypeOfControl DEF Moves
      <4>2. pc'[x] = pc[x]
        BY <1>3, <2>2, OthersUntouched
      <4> QED
        BY <4>1, <4>2, ControlOfActions
    <3> QED
      BY <1>1, <1>3, <2>2, <3>1, OthersUntouched, GhostsOKElsewhere
  <2> QED
    BY <2>1, <2>2
<1> QED
  BY <1>2, <1>3 DEF Next, Terminating

LEMMA InitGhosts == Usual /\ Init => GhostInv
<1> SUFFICES ASSUME Usual, Init
             PROVE  GhostInv
  OBVIOUS
<1>1. \A k \in Kinds, r \in Ranks : InFlight(k, r) = {}
  BY DEF Init, InFlight
<1>2. GhostsTrue
  BY <1>1 DEF GhostsTrue, Kinds, Small
<1>3. \A r \in Ranks : GhostsOK(r)
  BY DEF Init, GhostsOK
<1> QED
  BY <1>2, <1>3, InitSent DEF GhostInv

LEMMA NextGhosts ==
    Usual /\ MessageInv /\ MessageInv' /\ StepsDealt /\ AgeInv /\ GhostInv /\ [Next]_vars
      => GhostInv'
<1> SUFFICES ASSUME Usual, MessageInv, MessageInv', StepsDealt, AgeInv, GhostInv, [Next]_vars
             PROVE  GhostInv'
  OBVIOUS
<1>1. SentInv /\ GhostsTrue
  BY DEF GhostInv
<1>2. SentInv' /\ GhostsTrue'
  BY <1>1, NextSent, NextGhostsTrue
<1>3. \A x \in Ranks : GhostsOK(x)'
  BY NextGhostsOK
<1> QED
  BY <1>2, <1>3 DEF GhostInv

\* The particles whose current the tail slice of a box deposits in the slice
\* behind it are those found in the head slice of the next box: the local
\* ghosts and the ghost message together miss none and bring none that is
\* stale, although the next box arrives only later, with messages of its own.
THEOREM GhostsAreExact == Usual => (Spec => []GhostSliceExact)
<1> SUFFICES ASSUME Usual
             PROVE  Spec => []GhostSliceExact
  OBVIOUS
<1> DEFINE IInv == MessageInv /\ StepsDealt /\ AgeInv /\ GhostInv
<1>1. Init => IInv
  BY InitMessages, InitDealt, InitAge, InitGhosts
<1>2. IInv /\ [Next]_vars => IInv'
  <2> SUFFICES ASSUME IInv, [Next]_vars
               PROVE  IInv'
    OBVIOUS
  <2>1. MessageInv'
    BY NextMessages
  <2>2. StepsDealt'
    BY NextDealt DEF MessageInv
  <2>3. AgeInv' /\ GhostInv'
    BY <2>1, NextAge, NextGhosts
  <2> QED
    BY <2>1, <2>2, <2>3
<1>3. IInv => GhostSliceExact
  <2> SUFFICES ASSUME IInv, NEW r \in Ranks, pc[r] \in {"NotifyGhost", "WaitGhost"},
                      box[r] < NumBoxes - 1
               PROVE  nextSlice[r] = {p.id : p \in headBin[r]}
    BY DEF GhostSliceExact
  <2>1. NumBoxes = N /\ GhostsOK(r)
    BY TypeOfControl DEF MessageInv, GhostInv
  <2> QED
    BY <2>1 DEF GhostsOK
<1> QED
  BY <1>1, <1>2, <1>3, PTL DEF Spec

-----------------------------------------------------------------------------
(* No ring of waits                                                        *)

LEMMA StageOf ==
    ASSUME NEW p \in Labels
    PROVE  /\ Stage(p) \in 0 .. 2
           /\ p \in {"Wait", "Gone"} => Stage(p) = 0
           /\ p \in {"StartStep", "SolveHead", "NotifyGhost"} => Stage(p) = 1
           /\ p \in {"WaitGhost", "SolveTail", "Notify"} => Stage(p) = 2
  BY DEF Stage, Labels

\* A rank in step s, box b, handler p is behind another in step t, box c, handler q.
IsBehind(s, b, p, t, c, q) ==
    s <= MaxStep /\ 4 * (s + (N - 1 - b)) + Stage(p) < 4 * (t + (N - 1 - c)) + Stage(q)

\* A rank whose next message is the one that another waits for is behind it.
LEMMA SenderIsBehind ==
    ASSUME NEW s \in Nat, NEW b \in 0 .. N - 1, NEW p \in Labels,
           NEW t \in Nat, NEW c \in 0 .. N - 1, NEW q \in Labels, 0 < t, t <= MaxStep
    PROVE  /\ SendAt("counts", s, b, p) = <<t - 1, c>> => IsBehind(s, b, p, t, c, q)
           /\ SendAt("time", s, b, p) = <<t - 1, N - 1>> /\ c = N - 1 =>
                 IsBehind(s, b, p, t, c, q)
           /\ SendAt("ghostCounts", s, b, p) = <<t - 1, c - 1>> /\ c > 0 /\ q = "WaitGhost" =>
                 IsBehind(s, b, p, t, c, q)
<1>1. N \in Nat \ {0} /\ MaxStep \in Nat
  BY Constants
<1>2. Stage(p) \in 0 .. 2 /\ Stage(q) \in 0 .. 2 /\ (q = "WaitGhost" => Stage(q) = 2)
  BY StageOf
<1>3. ASSUME SendAt("counts", s, b, p) = <<t - 1, c>>
      PROVE  IsBehind(s, b, p, t, c, q)
  <2>1. s = t - 1 /\ b = c
    BY <1>1, <1>3 DEF SendAt, FirstBox
  <2> QED
    BY <1>1, <1>2, <2>1 DEF IsBehind
<1>4. ASSUME SendAt("time", s, b, p) = <<t - 1, N - 1>>, c = N - 1
      PROVE  IsBehind(s, b, p, t, c, q)
  <2>1. (s = t - 1 /\ b = c) \/ s + N = t - 1
    BY <1>1, <1>4 DEF SendAt, FirstBox
  <2> QED
    BY <1>1, <1>2, <1>4, <2>1 DEF IsBehind
<1>5. ASSUME SendAt("ghostCounts", s, b, p) = <<t - 1, c - 1>>, c > 0, q = "WaitGhost"
      PROVE  IsBehind(s, b, p, t, c, q)
  <2> DEFINE sent == p \in {"WaitGhost", "SolveTail", "Notify"}
  <2>1. ~ sent => Stage(p) <= 1
    BY StageOf DEF Labels
  <2>2. \/ s + N = t - 1
        \/ s = t - 1 /\ b = c
        \/ s = t - 1 /\ b = c - 1 /\ ~ sent
    <3>1. s < MaxStep
      BY <1>1, <1>5 DEF SendAt
    <3>2. SendAt("ghostCounts", s, b, p) =
            IF sent \/ b = N - 1
              THEN IF b = 0 THEN <<s + N, N - 2>> ELSE <<s, b - 1>>
              ELSE <<s, b>>
      BY <1>1, <3>1 DEF SendAt
    <3> HIDE DEF sent
    <3> QED
      BY <1>1, <1>5, <3>2
  <2> HIDE DEF sent
  <2> QED
    BY <1>1, <1>2, <1>5, <2>1, <2>2 DEF IsBehind
<1> QED
  BY <1>3, <1>4, <1>5

\* A rank at a receive is ahead of its upstream, if that has not sent.
LEMMA UpstreamIsBehind ==
    ASSUME Usual, MessageInv, NEW r \in Ranks, AwaitsUpstream(r)
    PROVE  pc[Upstream(r)] # "Gone" /\ Reached(Upstream(r)) < Reached(r)
<1> DEFINE u == Upstream(r)
<1>1. TypeOK /\ ControlOK /\ ChannelsExact /\ MessageMatches /\ u \in Ranks
  BY InvMatches, Constants DEF MessageInv
<1>2. /\ step[r] \in Nat /\ box[r] \in 0 .. N - 1 /\ pc[r] \in Labels
      /\ step[u] \in Nat /\ box[u] \in 0 .. N - 1 /\ pc[u] \in Labels
      /\ pc[u] = "Gone" => step[u] > MaxStep
      /\ N \in Nat /\ MaxStep \in Nat
  BY <1>1, TypeOfControl, RanksAreSomewhere DEF ControlOK
<1>3. SUFFICES IsBehind(step[u], box[u], pc[u], step[r], box[r], pc[r])
  BY <1>2 DEF IsBehind, Reached
<1>4. \A k \in Heads : chan[k][u] = <<>> => RecvPos(k, r) = SendPos(k, u)
  BY <1>1 DEF ChannelsExact, Chain
<1> HIDE DEF u
<1>5. CASE pc[r] = "Wait"
  <2>1. step[r] > 0 /\ step[r] <= MaxStep
    BY <1>1, <1>5, RanksAreSomewhere DEF AwaitsUpstream
  <2>2. /\ RecvPos("counts", r) = <<step[r] - 1, box[r]>>
        /\ box[r] = N - 1 => RecvPos("time", r) = <<step[r] - 1, N - 1>>
    BY <1>2, <1>5, <2>1 DEF RecvPos, RecvAt
  <2>3. \/ chan["counts"][u] = <<>>
        \/ box[r] = N - 1 /\ chan["time"][u] = <<>>
    <3>1. Announced("counts", "particles", r, box[r])
      BY <1>1, <1>5, <2>1 DEF MessageMatches
    <3> QED
      BY <1>5, <3>1 DEF AwaitsUpstream, Missing, Announced, u
  <2>4. "counts" \in Heads /\ "time" \in Heads
    BY DEF Heads
  <2>5. \/ SendAt("counts", step[u], box[u], pc[u]) = <<step[r] - 1, box[r]>>
        \/ SendAt("time", step[u], box[u], pc[u]) = <<step[r] - 1, N - 1>> /\ box[r] = N - 1
    BY <1>4, <2>2, <2>3, <2>4 DEF SendPos
  <2> QED
    BY <1>2, <2>1, <2>5, SenderIsBehind
<1>6. CASE pc[r] = "WaitGhost"
  <2>1. step[r] > 0 /\ step[r] <= MaxStep /\ box[r] > 0
    BY <1>1, <1>2, <1>6, RanksAreSomewhere DEF AwaitsUpstream, NoGhostToWait
  <2>2. RecvPos("ghostCounts", r) = <<step[r] - 1, box[r] - 1>>
    BY <1>2, <1>6, <2>1 DEF RecvPos, RecvAt
  <2>3. chan["ghostCounts"][u] = <<>>
    <3>1. Announced("ghostCounts", "ghostParticles", r, box[r] - 1)
      BY <1>1, <1>6, <2>1 DEF MessageMatches
    <3> QED
      BY <1>6, <3>1 DEF AwaitsUpstream, Missing, Announced, u
  <2>4. "ghostCounts" \in Heads
    BY <1>2, <2>1 DEF Heads
  <2>5. SendAt("ghostCounts", step[u], box[u], pc[u]) = <<step[r] - 1, box[r] - 1>>
    BY <1>4, <2>2, <2>3, <2>4 DEF SendPos
  <2> QED
    BY <1>2, <1>6, <2>1, <2>5, SenderIsBehind
<1> QED
  BY <1>5, <1>6 DEF AwaitsUpstream

-----------------------------------------------------------------------------
\* What a rank receives next was sent no later than what is in flight.
LEMMA ReceivedFirst ==
    ASSUME Usual, TypeOK, ChannelsExact, NEW d \in Ranks, NEW k \in Heads,
           NEW m \in InFlight(k, Upstream(d))
    PROVE  /\ RecvPos(k, d) = <<RecvPos(k, d)[1], RecvPos(k, d)[2]>>
           /\ RecvPos(k, d)[1] \in Nat /\ RecvPos(k, d)[2] \in Int
           /\ m.step \in Nat /\ m.box \in 0 .. N - 1
           /\ \/ RecvPos(k, d)[1] < m.step
              \/ RecvPos(k, d)[1] = m.step /\ RecvPos(k, d)[2] >= m.box
<1> DEFINE u == Upstream(d)
           c == chan[k][u]
           first == RecvPos(k, d)
<1>1. u \in Ranks /\ k \in Kinds /\ Boxes = 0 .. N - 1
  BY Constants, HeadsAreSmall, TypeOfControl DEF Boxes
<1>2. c \in Seq(Msg(k))
  BY <1>1, TypeOfControl, ChannelTypes
<1>3. Chain(k, c, first, SendPos(k, u))
  BY DEF ChannelsExact
<1>4. PICK i \in 1 .. Len(c) : m = c[i]
  BY DEF InFlight
<1> HIDE DEF u, c, first
<1>5. 1 \in 1 .. Len(c) /\ c # <<>> /\ Len(c) \in Nat
  BY <1>2, <1>4, EmptySeq
<1>6. c[1] \in Msg(k) /\ m \in Msg(k)
  BY <1>2, <1>4, <1>5, ElementOfSeq
<1>7. c[1].step \in Nat /\ c[1].box \in 0 .. N - 1 /\ m.step \in Nat /\ m.box \in 0 .. N - 1
  BY <1>1, <1>6 DEF Msg
<1>8. first = <<c[1].step, c[1].box>>
  BY <1>3, <1>5 DEF Chain, Label
<1>9. i = 1 \/ Precedes(Label(c[1]), Label(m))
  <2>1. i = 1 \/ 1 < i
    BY <1>4
  <2> QED
    BY <1>3, <1>4, <1>5, <2>1 DEF Chain
<1>10. \/ c[1].step < m.step
       \/ c[1].step = m.step /\ c[1].box >= m.box
  BY <1>4, <1>7, <1>9 DEF Precedes, Label
<1> QED
  BY <1>7, <1>8, <1>10 DEF first

\* A rank receives what its upstream sent in its own steps.
LEMMA ReceivedFromOwner ==
    ASSUME Usual, MessageInv, StepsDealt, NEW d \in Ranks, NEW k \in Heads
    PROVE  Owner(RecvPos(k, d)[1]) = Upstream(d)
<1> DEFINE t == step[d]
<1>1. t \in Nat /\ N \in Nat \ {0} /\ Owner(t) = d /\ 0 \in Nat
  BY RanksAreSomewhere DEF MessageInv, StepsDealt
<1> HIDE DEF t
<1>2. CASE t = 0
  <2>1. Owner(0 + N) = d /\ 0 + N = N
    BY <1>1, <1>2, OwnerIsRank
  <2>2. Owner(N - 1) = Upstream(d)
    BY <1>1, <2>1, OwnerUpstream
  <2>3. RecvPos(k, d)[1] = N - 1
    BY <1>2 DEF RecvPos, RecvAt, t
  <2> QED
    BY <2>2, <2>3
<1>3. CASE t > 0
  <2>1. Owner(t - 1) = Upstream(d) /\ t - 1 \in Nat
    BY <1>1, <1>3, OwnerUpstream
  <2>2. Owner(t - 1 + N) = Upstream(d)
    BY <2>1, OwnerIsRank
  <2>3. RecvPos(k, d)[1] \in {t - 1, t - 1 + N}
    BY <1>1, <1>3 DEF RecvPos, RecvAt, t, Heads, After
  <2> QED
    BY <2>1, <2>2, <2>3
<1> QED
  BY <1>1, <1>2, <1>3

\* A rank at s, b, p waits for a message sent for an earlier box or step (ms, mb),
\* that was not sent before the one a rank at t, c, q receives next.
Waiting(s, b, p, first, ms, mb) ==
    /\ first[1] < ms \/ (first[1] = ms /\ first[2] >= mb)
    /\ first[1] = s \/ first[1] + N <= s
    /\ ms < MaxStep
    /\ ms < s \/ (ms = s /\ mb > b)

LEMMA ReceiverOfTime ==
    ASSUME NEW t \in Nat, NEW c \in 0 .. N - 1, NEW q \in Labels,
           NEW s \in Nat, NEW b \in 0 .. N - 1, NEW p \in Labels,
           NEW ms \in Nat, NEW mb \in 0 .. N - 1,
           q = "StartStep" => c = N - 1,
           Waiting(s, b, p, RecvAt("time", t, c, q), ms, mb),
           \/ p = "Notify" /\ b = N - 1
           \/ p = "StartStep" /\ b = N - 1 /\ s > MaxStep
    PROVE  IsBehind(t, c, q, s, b, p)
<1> DEFINE early == q \in {"StartStep", "Wait", "Gone"}
           first == RecvAt("time", t, c, q)
<1>1. N \in Nat \ {0} /\ MaxStep \in Nat
  BY Constants
<1>2. /\ Stage(p) \in 1 .. 2 /\ Stage(q) \in 0 .. 2
      /\ early => Stage(q) <= 1
      /\ Stage(p) = 2 \/ s > MaxStep
  BY StageOf DEF Labels
<1>3. first = IF t = 0 THEN <<N - 1, N - 1>>
              ELSE IF early /\ c = N - 1 THEN <<t - 1, N - 1>> ELSE <<t - 1 + N, N - 1>>
  BY DEF RecvAt, FirstBox
<1>4. Waiting(s, b, p, first, ms, mb)
  OBVIOUS
<1> HIDE DEF early, first
<1> QED
  BY <1>1, <1>2, <1>3, <1>4 DEF Waiting, IsBehind

LEMMA ReceiverOfCounts ==
    ASSUME NEW t \in Nat, NEW c \in 0 .. N - 1, NEW q \in Labels,
           NEW s \in Nat, NEW b \in 0 .. N - 1, NEW p \in Labels,
           NEW ms \in Nat, NEW mb \in 0 .. N - 1,
           q = "StartStep" => c = N - 1,
           Waiting(s, b, p, RecvAt("counts", t, c, q), ms, mb),
           \/ p = "Notify"
           \/ p = "StartStep" /\ b = N - 1 /\ s > MaxStep
    PROVE  IsBehind(t, c, q, s, b, p)
<1> DEFINE early == q \in {"StartStep", "Wait", "Gone"}
           first == RecvAt("counts", t, c, q)
<1>1. N \in Nat \ {0} /\ MaxStep \in Nat
  BY Constants
<1>2. /\ Stage(p) \in 1 .. 2 /\ Stage(q) \in 0 .. 2
      /\ early => Stage(q) = 0 \/ (Stage(q) = 1 /\ c = N - 1)
      /\ Stage(p) = 2 \/ (s > MaxStep /\ b = N - 1)
  BY StageOf DEF Labels
<1>3. first = IF t = 0 THEN <<N - 1, N - 1>>
              ELSE IF early THEN <<t - 1, c>>
              ELSE IF c > 0 THEN <<t - 1, c - 1>> ELSE <<t - 1 + N, N - 1>>
  BY DEF RecvAt, FirstBox, After, LastBox
<1>4. Waiting(s, b, p, first, ms, mb)
  OBVIOUS
<1> HIDE DEF early, first
<1>5. CASE t = 0
  BY <1>1, <1>2, <1>3, <1>4, <1>5 DEF Waiting, IsBehind
<1>6. CASE t > 0 /\ early
  BY <1>1, <1>2, <1>3, <1>4, <1>6 DEF Waiting, IsBehind
<1>7. CASE t > 0 /\ ~ early /\ c > 0
  BY <1>1, <1>2, <1>3, <1>4, <1>7 DEF Waiting, IsBehind
<1>8. CASE t > 0 /\ ~ early /\ c = 0
  BY <1>1, <1>2, <1>3, <1>4, <1>8 DEF Waiting, IsBehind
<1> QED
  BY <1>5, <1>6, <1>7, <1>8

LEMMA ReceiverOfGhosts ==
    ASSUME NEW t \in Nat, NEW c \in 0 .. N - 1, NEW q \in Labels,
           NEW s \in Nat, NEW b \in 0 .. N - 1, NEW p \in Labels,
           NEW ms \in Nat, NEW mb \in 0 .. N - 1,
           Waiting(s, b, p, RecvAt("ghostCounts", t, c, q), ms, mb),
           \/ p = "NotifyGhost" /\ b < N - 1
           \/ p = "StartStep" /\ b = N - 1 /\ s > MaxStep
    PROVE  IsBehind(t, c, q, s, b, p)
<1> DEFINE late == q \in {"SolveTail", "Notify"}
           first == RecvAt("ghostCounts", t, c, q)
           next == IF late THEN c - 2 ELSE c - 1
<1>1. N \in Nat \ {0} /\ MaxStep \in Nat
  BY Constants
<1>2. /\ Stage(p) = 1 /\ Stage(q) \in 0 .. 2
      /\ b < N - 1 \/ (s > MaxStep /\ b = N - 1)
  BY StageOf DEF Labels
<1>3. first = IF t = 0 THEN <<N - 1, N - 2>>
              ELSE IF next < 0 THEN <<t - 1 + N, N - 2>> ELSE <<t - 1, next>>
  BY DEF RecvAt, FirstBox
<1>4. Waiting(s, b, p, first, ms, mb)
  OBVIOUS
<1>5. next \in {c - 1, c - 2}
  OBVIOUS
<1> HIDE DEF late, first, next
<1>6. CASE t = 0
  BY <1>1, <1>2, <1>3, <1>4, <1>6 DEF Waiting, IsBehind
<1>7. CASE t > 0 /\ next < 0
  BY <1>1, <1>2, <1>3, <1>4, <1>5, <1>7 DEF Waiting, IsBehind
<1>8. CASE t > 0 /\ next >= 0
  BY <1>1, <1>2, <1>3, <1>4, <1>5, <1>8 DEF Waiting, IsBehind
<1> QED
  BY <1>1, <1>5, <1>6, <1>7, <1>8

\* A message of a kind that is not complete is in flight; particles have their
\* counts in flight with them.
LEMMA CountsInFlight ==
    ASSUME Usual, MessageInv, NEW r \in Ranks,
           NEW c \in {"counts", "ghostCounts"}, NEW p \in Kinds, chan[p][r] # <<>>,
           Paired(chan[c][r], chan[p][r])
    PROVE  chan[c][r] # <<>>
<1>1. PICK f \in [1 .. Len(chan[p][r]) -> 1 .. Len(chan[c][r])] :
         Pairs(f, chan[c][r], chan[p][r])
  BY DEF Paired
<1>2. chan[p][r] \in Seq(Msg(p)) /\ chan[c][r] \in Seq(Msg(c))
  <2>1. c \in Kinds /\ ChanOK
    BY TypeOfControl DEF MessageInv, Kinds, Small
  <2> QED
    BY <2>1, ChannelTypes
<1>3. 1 \in 1 .. Len(chan[p][r])
  BY <1>2, EmptySeq
<1>4. f[1] \in 1 .. Len(chan[c][r])
  BY <1>1, <1>3
<1> QED
  BY <1>2, <1>4

\* The head kind that goes with each kind.
HeadKind(k) ==
    CASE k = "time" -> "time"
      [] k \in {"counts", "particles"} -> "counts"
      [] OTHER -> "ghostCounts"

\* Until a message is complete, it or its count is in flight.
LEMMA HeadInFlight ==
    ASSUME Usual, MessageInv, NEW d \in Ranks, NEW k \in Kinds, ~ Completed(k, Upstream(d))
    PROVE  InFlight(HeadKind(k), Upstream(d)) # {}
<1> DEFINE r == Upstream(d)
           h == HeadKind(k)
<1>1. r \in Ranks /\ ChanOK
  BY Constants, TypeOfControl DEF MessageInv
<1>2. /\ Paired(chan["counts"][r], chan["particles"][r])
      /\ Paired(chan["ghostCounts"][r], chan["ghostParticles"][r])
  BY DEF MessageInv, ChannelsExact
<1> HIDE DEF r
<1>3. chan[k][r] # <<>>
  <2>1. PICK i \in 1 .. Len(chan[k][r]) : chan[k][r][i].ref
    BY DEF Completed, r
  <2>2. chan[k][r] \in Seq(Msg(k))
    BY <1>1, ChannelTypes
  <2> QED
    BY <2>1, <2>2
<1>4. \/ k \in {"time", "counts", "ghostCounts"} /\ h = k
      \/ k = "particles" /\ h = "counts"
      \/ k = "ghostParticles" /\ h = "ghostCounts"
  BY DEF Kinds, Small, HeadKind
<1> HIDE DEF h
<1>5. chan[h][r] # <<>>
  BY <1>1, <1>2, <1>3, <1>4, CountsInFlight
<1>6. chan[h][r] \in Seq(Msg(h))
  <2>1. h \in Kinds
    BY <1>4 DEF Kinds, Small
  <2> QED
    BY <1>1, <2>1, ChannelTypes
<1>7. 1 \in 1 .. Len(chan[h][r])
  BY <1>5, <1>6, EmptySeq
<1> QED
  BY <1>7 DEF InFlight, r, h

\* A rank at an MPI_Wait is ahead of its downstream, if that has not received.
LEMMA DownstreamIsBehind ==
    ASSUME Usual, MessageInv, StepsDealt, SentInv, NEW d \in Ranks,
           AwaitsDownstream(Upstream(d))
    PROVE  pc[d] # "Gone" /\ Reached(d) < Reached(Upstream(d))
<1> DEFINE r == Upstream(d)
<1>1. TypeOK /\ ControlOK /\ ChannelsExact /\ r \in Ranks
  BY Constants DEF MessageInv
<1>2. /\ step[r] \in Nat /\ box[r] \in 0 .. N - 1 /\ pc[r] \in Labels
      /\ step[d] \in Nat /\ box[d] \in 0 .. N - 1 /\ pc[d] \in Labels
      /\ pc[d] = "Gone" => step[d] > MaxStep
      /\ pc[d] = "StartStep" => box[d] = N - 1
      /\ pc[r] = "StartStep" => box[r] = N - 1
      /\ N \in Nat \ {0} /\ MaxStep \in Nat
  BY <1>1, TypeOfControl, RanksAreSomewhere DEF ControlOK
<1>3. SUFFICES IsBehind(step[d], box[d], pc[d], step[r], box[r], pc[r])
  BY <1>2 DEF IsBehind, Reached
<1>4. PICK k \in Kinds :
        /\ ~ Completed(k, r)
        /\ \/ pc[r] = "NotifyGhost" /\ box[r] < N - 1 /\ k \in GhostKinds
           \/ pc[r] = "Notify" /\ k \in FinishKinds(box[r])
           \/ pc[r] = "StartStep" /\ step[r] > MaxStep
  <2>1. GhostKinds \subseteq Kinds /\ FinishKinds(box[r]) \subseteq Kinds
        /\ FinishKinds(0) \subseteq Kinds
    BY KindsOfMessages
  <2>2. box[r] < N - 1 <=> ~ (box[r] >= N - 1)
    BY <1>2
  <2> HIDE DEF r
  <2> QED
    BY <2>1, <2>2 DEF AwaitsDownstream, NoGhostToSend, r
<1> DEFINE h == HeadKind(k)
<1>5. /\ h \in {"time", "counts", "ghostCounts"}
      /\ k \in GhostKinds => h = "ghostCounts"
      /\ k \in FinishKinds(box[r]) => h = "counts" \/ (h = "time" /\ box[r] = N - 1)
  BY <1>2 DEF HeadKind, GhostKinds, FinishKinds
<1>6. PICK m \in InFlight(h, r) : TRUE
  BY <1>4, HeadInFlight
<1> HIDE DEF h
<1>7. SentBefore(h, r, m)
  BY <1>1, <1>5 DEF SentInv, Kinds, Small
<1>8. m.box \in 0 .. N - 1
  <2>1. h \in Kinds /\ ChanOK /\ Boxes = 0 .. N - 1
    BY <1>1, <1>5, TypeOfControl DEF Kinds, Small, Boxes
  <2>2. chan[h][r] \in Seq(Msg(h))
    BY <1>1, <2>1, ChannelTypes
  <2>3. m \in Msg(h)
    BY <2>2, ElementOfSeq DEF InFlight
  <2> QED
    BY <2>1, <2>3 DEF Msg
<1>9. h \in Heads
  <2>1. h = "ghostCounts" => N > 1
    BY <1>2, <1>7, <1>8 DEF SentBefore, GhostKinds
  <2> QED
    BY <1>5, <2>1 DEF Heads
<1> DEFINE first == RecvAt(h, step[d], box[d], pc[d])
<1>10. /\ first[1] \in Nat /\ first[2] \in Int /\ m.step \in Nat
       /\ first[1] < m.step \/ (first[1] = m.step /\ first[2] >= m.box)
  BY <1>1, <1>6, <1>9, ReceivedFirst DEF RecvPos
<1>11. Owner(first[1]) = r /\ Owner(step[r]) = r
  BY <1>1, <1>9, ReceivedFromOwner DEF RecvPos, StepsDealt
<1> HIDE DEF first, r
<1>12. ASSUME pc[r] \in {"NotifyGhost", "StartStep"} \/ h # "ghostCounts"
       PROVE  Waiting(step[r], box[r], pc[r], first, m.step, m.box)
  <2>1. m.step < MaxStep /\ (m.step < step[r] \/ (m.step = step[r] /\ m.box > box[r]))
    BY <1>5, <1>7, <1>12 DEF SentBefore, GhostKinds
  <2>2. first[1] = step[r] \/ first[1] < step[r]
    BY <1>2, <1>10, <2>1
  <2>3. first[1] = step[r] \/ first[1] + N <= step[r]
    BY <1>2, <1>10, <1>11, <2>2, OwnerGap
  <2> QED
    BY <1>10, <2>1, <2>3 DEF Waiting
<1>13. CASE h = "time"
  <2>1. \/ pc[r] = "Notify" /\ box[r] = N - 1
        \/ pc[r] = "StartStep" /\ box[r] = N - 1 /\ step[r] > MaxStep
    BY <1>2, <1>4, <1>5, <1>13
  <2> QED
    BY <1>2, <1>8, <1>10, <1>12, <1>13, <2>1, ReceiverOfTime DEF first
<1>14. CASE h = "counts"
  <2>1. \/ pc[r] = "Notify"
        \/ pc[r] = "StartStep" /\ box[r] = N - 1 /\ step[r] > MaxStep
    BY <1>2, <1>4, <1>5, <1>14
  <2> QED
    BY <1>2, <1>8, <1>10, <1>12, <1>14, <2>1, ReceiverOfCounts DEF first
<1>15. CASE h = "ghostCounts"
  <2>1. \/ pc[r] = "NotifyGhost" /\ box[r] < N - 1
        \/ pc[r] = "StartStep" /\ box[r] = N - 1 /\ step[r] > MaxStep
    BY <1>2, <1>4, <1>5, <1>15
  <2> QED
    BY <1>2, <1>8, <1>10, <1>12, <1>15, <2>1, ReceiverOfGhosts DEF first
<1> QED
  BY <1>5, <1>13, <1>14, <1>15

-----------------------------------------------------------------------------
\* Every rank is the upstream of one.
LEMMA HasDownstream ==
    ASSUME NEW r \in Ranks
    PROVE  \E d \in Ranks : Upstream(d) = r
<1>1. (IF r = 0 THEN N - 1 ELSE r - 1) \in Ranks
  BY Constants DEF Ranks
<1>2. Upstream(IF r = 0 THEN N - 1 ELSE r - 1) = r
  BY Constants DEF Ranks, Upstream
<1> QED
  BY <1>1, <1>2

\* Of the ranks that are not done, the one that is furthest behind goes on.
LEMMA LastRankGoes ==
    ASSUME Usual, MessageInv, StepsDealt, SentInv
    PROVE  SomeRankGoes
<1> DEFINE Busy == {r \in Ranks : pc[r] # "Gone"}
           T == {Reached(r) : r \in Busy}
<1>1. SUFFICES ASSUME Busy # {}
               PROVE  \E r \in Busy : ~ Blocked(r)
  BY DEF SomeRankGoes, AllGone
<1>2. ASSUME NEW r \in Ranks
      PROVE  Reached(r) \in Nat
  <2>1. /\ step[r] \in Nat /\ box[r] \in 0 .. N - 1 /\ N \in Nat
    BY RanksAreSomewhere DEF MessageInv
  <2>2. Stage(pc[r]) \in 0 .. 2
    BY TypeOfControl, StageOf DEF MessageInv
  <2> QED
    BY <2>1, <2>2 DEF Reached
<1>3. PICK r \in Busy : \A q \in Busy : Reached(r) <= Reached(q)
  <2>1. T \subseteq Nat /\ T # {}
    BY <1>1, <1>2
  <2>2. PICK x \in T : \A y \in T : x <= y
    BY <2>1, LeastElement
  <2> QED
    BY <2>2
<1>4. ASSUME NEW q \in Busy, Reached(q) < Reached(r)
      PROVE  FALSE
  BY <1>2, <1>3, <1>4
<1>5. ~ AwaitsUpstream(r)
  <2>1. Upstream(r) \in Ranks
    BY Constants
  <2> QED
    BY <1>4, <2>1, UpstreamIsBehind
<1>6. ~ AwaitsDownstream(r)
  <2>1. PICK d \in Ranks : Upstream(d) = r
    BY HasDownstream
  <2> QED
    BY <1>4, <2>1, DownstreamIsBehind
<1> QED
  BY <1>3, <1>5, <1>6 DEF Blocked

\* The ring of ranks never deadlocks, however many ranks and steps there are
\* and however late MPI lets a send complete.
THEOREM RingGoesOn == Usual => (Spec => []SomeRankGoes)
<1> SUFFICES ASSUME Usual
             PROVE  Spec => []SomeRankGoes
  OBVIOUS
<1> DEFINE IInv == MessageInv /\ StepsDealt /\ SentInv
<1>1. Init => IInv
  BY InitMessages, InitDealt, InitSent
<1>2. IInv /\ [Next]_vars => IInv'
  <2> SUFFICES ASSUME IInv, [Next]_vars
               PROVE  IInv'
    OBVIOUS
  <2>1. MessageInv'
    BY NextMessages
  <2> QED
    BY <2>1, NextDealt, NextSent DEF MessageInv
<1>3. IInv => SomeRankGoes
  BY LastRankGoes
<1> QED
  BY <1>1, <1>2, <1>3, PTL DEF Spec
=============================================================================
