--------------------------- MODULE TimeStepProofs ---------------------------
(***************************************************************************)
(* Proofs about the adaptive time step, for any number of ranks, steps and *)
(* particles: ranks in their first step have the same dt, and with more    *)
(* than one rank the beam is always at the time that goes with it and a dt *)
(* is made of the whole beam of one step.                                  *)
(***************************************************************************)
EXTENDS TimeStep, TLAPS, SequenceTheorems

\* More than one rank: there is MPI, and as many boxes as ranks.
Several == N > 1

Dt == [step : Int, of : SUBSET (ParticleId \X Nat)]

Time == Seq(Dt)

Particle == [id : ParticleId, box : Int, time : Time]

TimeMessage == [step : Nat, box : Boxes, data : Time]

BeamMessage == [step : Nat, box : Boxes, data : SUBSET Particle]

\* The handlers of InitData.
Early == {"Calculate", "WaitTimeStep", "NotifyTimeStep", "Sent"}

TypeOK ==
    /\ pc \in [Ranks -> Early \union {"Wait", "Solve", "Notify", "Gone", "Abort"}]
    /\ step \in [Ranks -> Nat]
    /\ box \in [Ranks -> Boxes]
    /\ dt \in [Ranks -> Dt]
    /\ counted \in [Ranks -> SUBSET (ParticleId \X Nat)]
    /\ beam \in [Ranks -> SUBSET Particle]
    /\ pushed \in [Ranks -> SUBSET Particle]
    /\ physicalTime \in [Ranks -> Time]
    /\ dtChan \in [Ranks -> Seq(Dt)]
    /\ timeChan \in [Ranks -> Seq(TimeMessage)]
    /\ beamChan \in [Ranks -> Seq(BeamMessage)]
    /\ whole \in [Steps -> SUBSET ParticleId]

\* Where a rank can be between its handlers.
ControlOK ==
    \A r \in Ranks :
        /\ step[r] <= MaxStep + N
        /\ pc[r] \in Early => step[r] = N - 1 - r
        /\ pc[r] \in Early \union {"Gone"} => box[r] = N - 1
        /\ step[r] > MaxStep <=> pc[r] = "Gone"

-----------------------------------------------------------------------------
(* What is on its way                                                      *)

\* Steps are dealt to the ranks in turn.
Dealt(r, s) == s % N = N - 1 - r

StepsDealt ==
    \A r \in Ranks :
        /\ Dealt(r, step[r])
        /\ \A i \in 1 .. Len(timeChan[r]) : Dealt(r, timeChan[r][i].step)
        /\ \A i \in 1 .. Len(beamChan[r]) : Dealt(r, beamChan[r][i].step)

\* The place of box b of step s among all that its rank does: one more with
\* every box, the last box of a step being followed by the first of step s + N.
Mark(s, b) == s - b

\* The rank has received the beam of its box.
Got(r) == pc[r] \in {"Solve", "Notify", "Abort"}

\* Nothing is sent from the last step on: a rank that has done it stays there.
SendStep(r) == IF step[r] = MaxStep + N THEN MaxStep ELSE step[r]

\* The places of the next beam sent and of the next one received.
SendMark(r) ==
    IF step[r] >= MaxStep THEN Mark(SendStep(r), N - 1) ELSE Mark(step[r], box[r])

RecvMark(r) ==
    IF step[r] = 0
      THEN 0
      ELSE IF Got(r) THEN Mark(step[r], box[r]) ELSE Mark(step[r] - 1, box[r])

\* The steps of the next time sent and of the next one received.
SendTime(r) ==
    IF step[r] >= MaxStep
      THEN SendStep(r)
      ELSE IF box[r] = N - 1 THEN step[r] ELSE step[r] + N

RecvTime(r) ==
    IF step[r] = 0
      THEN N - 1
      ELSE IF Got(r) \/ box[r] # N - 1 THEN step[r] - 1 + N ELSE step[r] - 1

\* The beams on their way are those between the two places.
BeamChain(c, first, last) ==
    /\ Len(c) = last - first
    /\ \A i \in 1 .. Len(c) : Mark(c[i].step, c[i].box) = first + i - 1

\* The times on their way are those of every N-th step between the two.
TimeChain(c, first, last) ==
    /\ c = <<>> => first = last
    /\ c # <<>> => c[1].step = first /\ c[Len(c)].step + N = last
    /\ \A i \in 1 .. Len(c) - 1 : c[i + 1].step = c[i].step + N
    /\ \A i \in 1 .. Len(c) : c[i].step < last

ChannelsExact ==
    \A r \in Ranks :
        /\ BeamChain(beamChan[Upstream(r)], RecvMark(r), SendMark(Upstream(r)))
        /\ TimeChain(timeChan[Upstream(r)], RecvTime(r), SendTime(Upstream(r)))

Base == TypeOK /\ ControlOK /\ StepsDealt /\ ChannelsExact

-----------------------------------------------------------------------------
(* Times                                                                   *)

\* A rank has the time and the beam of its step.
HasTime(r) == step[r] = 0 \/ Got(r) \/ (pc[r] = "Wait" /\ box[r] # N - 1)

\* A rank has pushed with its dt, and will do so again in this step or send it.
Pushing(r) ==
    \/ pc[r] = "Notify" /\ box[r] # 0
    \/ pc[r] \in {"Wait", "Solve"} /\ box[r] # N - 1

\* The times a beam can have had in every step.
Times == {T \in [Nat -> Time] : \A s \in Nat : Len(T[s]) = s}

\* T gives the time of every step: whatever belongs to the step agrees on it.
RankTimes(T, r) ==
    /\ HasTime(r) => /\ physicalTime[r] = T[step[r]]
                     /\ \A p \in beam[r] : p.time = T[step[r]]
    /\ ~HasTime(r) => beam[r] = {}
    /\ Pushing(r) => T[step[r] + 1] = Append(T[step[r]], dt[r])
    /\ \A p \in pushed[r] : p.time = T[step[r] + 1]

MessageTimes(T, r) ==
    /\ \A i \in 1 .. Len(timeChan[r]) : timeChan[r][i].data = T[timeChan[r][i].step + 1]
    /\ \A i \in 1 .. Len(beamChan[r]) :
          \A p \in beamChan[r][i].data : p.time = T[beamChan[r][i].step + 1]

TimesAre(T) == \A r \in Ranks : RankTimes(T, r) /\ MessageTimes(T, r)

TimeInv == \E T \in Times : TimesAre(T)

-----------------------------------------------------------------------------
(* What a dt is made of                                                    *)

\* A box of the step has been solved.
Begun(r) == box[r] # N - 1 \/ pc[r] \in {"Notify", "Abort"}

\* A dt calculated at the end of an earlier step of the rank, or of this one.
OfPast(r, s) ==
    /\ s \in Steps
    /\ Dealt(r, s)
    /\ s < step[r] \/ (s = step[r] /\ pc[r] = "Notify" /\ box[r] = 0)

\* Of one rank: its sums, the steps it has yet to do, and its dt.
RankDt(r) ==
    /\ Begun(r) => counted[r] = whole[step[r]] \X {step[r] + 1}
    /\ \A s \in Steps :
          Dealt(r, s) /\ (s > step[r] \/ (s = step[r] /\ ~Begun(r))) => whole[s] = {}
    /\ dt[r] # NoDt => /\ dt[r].of = WholeBeam(dt[r].step)
                       /\ dt[r].step = -1 \/ OfPast(r, dt[r].step)
    /\ pc[r] \in Early => dt[r].step = -1

\* A dt of the first exchange.
DtOnWay(d) == d.step = -1 /\ (d = NoDt \/ d.of = ParticleId \X {0})

\* The beam that InitData has injected is there for the first dt.
HeadReady ==
    pc[HeadRank] = "Calculate" =>
        counted[HeadRank] = {} /\ TermsOf(beam[HeadRank]) = ParticleId \X {0}

DtInv ==
    /\ \A r \in Ranks : RankDt(r) /\ \A i \in 1 .. Len(dtChan[r]) : DtOnWay(dtChan[r][i])
    /\ HeadReady

-----------------------------------------------------------------------------
(* The first dt                                                            *)

\* A rank has the first dt and has not set one of its own.
HasFirst(r) ==
    /\ step[r] < N
    /\ \/ pc[r] \in {"NotifyTimeStep", "Sent", "Wait", "Solve"}
       \/ pc[r] = "WaitTimeStep" /\ r = HeadRank
       \/ pc[r] = "Notify" /\ box[r] # 0

\* All who have it and all that is on its way to a rank is the same dt.
FirstIs(d) ==
    /\ \A r \in Ranks : HasFirst(r) => dt[r] = d
    /\ \A r \in Ranks : \A i \in 1 .. Len(dtChan[r]) : dtChan[r][i] = d
    /\ pc[HeadRank] = "Calculate" => \A r \in Ranks : ~HasFirst(r) /\ dtChan[r] = <<>>

FirstInv == \E d \in Dt : FirstIs(d)

-----------------------------------------------------------------------------
(* Constants and types                                                     *)

LEMMA Constants ==
    /\ N \in Nat \ {0} /\ MaxStep \in Nat /\ N <= MaxStep + 1
    /\ NumBoxes \in Nat \ {0} /\ N <= NumBoxes
    /\ Boxes = 0 .. NumBoxes - 1 /\ NumBoxes - 1 \in Boxes
    /\ Several => UseMPI /\ NumBoxes = N /\ Boxes = Ranks
    /\ ~Several => Ranks = {0} /\ HeadRank = 0
    /\ HeadRank \in Ranks
    /\ \A r \in Ranks : Upstream(r) \in Ranks
    /\ NoDt \in Dt /\ <<>> \in Time
  BY TimeStepAssumption
  DEF NumBoxes, Boxes, Several, Ranks, HeadRank, Upstream, NoDt, Dt, Time

LEMMA SumsTyped ==
    ASSUME TypeOK, NEW r \in Ranks, NEW b, NEW S \in SUBSET Particle
    PROVE  Sums(r, b, S) \in SUBSET (ParticleId \X Nat)
  BY DEF TypeOK, Sums, TermsOf, Particle, Time

LEMMA NewDtsTyped ==
    ASSUME TypeOK, NEW r \in Ranks, NEW s \in Int, NEW sums \in SUBSET (ParticleId \X Nat)
    PROVE  NewDts(r, s, sums) \in SUBSET Dt
  BY DEF TypeOK, NewDts, Dt

LEMMA PushesTyped ==
    ASSUME NEW S \in SUBSET Particle, NEW d \in Dt, NEW P \in Pushes(S, d)
    PROVE  /\ P \in SUBSET Particle
           /\ \A p \in P : \E q \in S : p.id = q.id /\ p.time = Append(q.time, d)
           /\ \A q \in S : \E p \in P : p.id = q.id
<1>1. PICK slip \in [S -> 0 .. MaxSlip] : P = {Push(p, d, slip[p]) : p \in S}
  BY DEF Pushes
<1>2. ASSUME NEW p \in S
      PROVE  /\ Push(p, d, slip[p]) \in Particle
             /\ Push(p, d, slip[p]).id = p.id
             /\ Push(p, d, slip[p]).time = Append(p.time, d)
  <2>1. slip[p] \in Int
    BY <1>1, TimeStepAssumption
  <2>2. p.id \in ParticleId /\ p.box - slip[p] \in Int /\ p.time \in Time
    BY <2>1 DEF Particle
  <2>3. Append(p.time, d) \in Time
    BY <2>2, AppendProperties DEF Time
  <2> QED
    BY <2>2, <2>3 DEF Push, Particle
<1> QED
  BY <1>1, <1>2

LEMMA InitTyped == Init => TypeOK
<1>1. SUFFICES ASSUME Init PROVE TypeOK
  OBVIOUS
<1>2. step \in [Ranks -> Nat]
  BY <1>1, Constants DEF Init, Ranks
<1>3. beam \in [Ranks -> SUBSET Particle]
  <2>1. PICK place \in [ParticleId -> Boxes] :
            beam = [r \in Ranks |->
                     IF r = HeadRank
                       THEN {[id |-> i, box |-> place[i], time |-> <<>>] : i \in ParticleId}
                       ELSE {}]
    BY <1>1 DEF Init
  <2>2. \A i \in ParticleId : [id |-> i, box |-> place[i], time |-> <<>>] \in Particle
    BY Constants DEF Particle
  <2> QED
    BY <2>1, <2>2
<1>4. /\ dt \in [Ranks -> Dt] /\ box \in [Ranks -> Boxes]
      /\ physicalTime \in [Ranks -> Time]
  BY <1>1, Constants DEF Init
<1>5. /\ dtChan \in [Ranks -> Seq(Dt)]
      /\ timeChan \in [Ranks -> Seq(TimeMessage)]
      /\ beamChan \in [Ranks -> Seq(BeamMessage)]
  BY <1>1 DEF Init
<1> QED
  BY <1>1, <1>2, <1>3, <1>4, <1>5 DEF Init, TypeOK, Early

\* What the handlers of InitData leave alone.
LEMMA EarlyTyped ==
    ASSUME TypeOK, NEW r \in Ranks,
           CalculateInitial(r) \/ WaitTimeStep(r) \/ NotifyTimeStep(r) \/ EnterEvolve(r)
    PROVE  TypeOK'
<1>1. CASE CalculateInitial(r)
  <2>1. beam[r] \in SUBSET Particle
    BY DEF TypeOK
  <2>2. Sums(r, 0, beam[r]) \in SUBSET (ParticleId \X Nat)
    BY <2>1, SumsTyped
  <2>3. NewDts(r, -1, Sums(r, 0, beam[r])) \in SUBSET Dt
    BY <2>2, NewDtsTyped
  <2>4. dt' \in [Ranks -> Dt]
    BY <1>1, <2>3 DEF CalculateInitial, TypeOK
  <2>5. counted' \in [Ranks -> SUBSET (ParticleId \X Nat)]
    BY <1>1, <2>2 DEF CalculateInitial, TypeOK
  <2>6. pc' \in [Ranks -> Early \union {"Wait", "Solve", "Notify", "Gone", "Abort"}]
    BY <1>1 DEF CalculateInitial, TypeOK, Early
  <2> QED
    BY <1>1, <2>4, <2>5, <2>6 DEF CalculateInitial, TypeOK
<1>2. CASE WaitTimeStep(r)
  <2>1. dtChan[Upstream(r)] # <<>> =>
            /\ Head(dtChan[Upstream(r)]) \in Dt
            /\ Tail(dtChan[Upstream(r)]) \in Seq(Dt)
    BY Constants, HeadTailProperties DEF TypeOK
  <2>2. dt' \in [Ranks -> Dt] /\ dtChan' \in [Ranks -> Seq(Dt)]
    <3>1. Upstream(r) \in Ranks
      BY Constants
    <3> QED
      BY <1>2, <2>1, <3>1 DEF WaitTimeStep, TypeOK
  <2>3. pc' \in [Ranks -> Early \union {"Wait", "Solve", "Notify", "Gone", "Abort"}]
    BY <1>2 DEF WaitTimeStep, TypeOK, Early
  <2> QED
    BY <1>2, <2>2, <2>3 DEF WaitTimeStep, TypeOK
<1>3. CASE NotifyTimeStep(r)
  <2>1. Append(dtChan[r], dt[r]) \in Seq(Dt)
    BY AppendProperties DEF TypeOK
  <2>2. dtChan' \in [Ranks -> Seq(Dt)]
    BY <1>3, <2>1 DEF NotifyTimeStep, TypeOK
  <2>3. pc' \in [Ranks -> Early \union {"Wait", "Solve", "Notify", "Gone", "Abort"}]
    BY <1>3 DEF NotifyTimeStep, TypeOK, Early
  <2> QED
    BY <1>3, <2>2, <2>3 DEF NotifyTimeStep, TypeOK
<1>4. CASE EnterEvolve(r)
  BY <1>4 DEF EnterEvolve, TypeOK
<1> QED
  BY <1>1, <1>2, <1>3, <1>4

LEMMA WaitTyped ==
    ASSUME TypeOK, NEW r \in Ranks, Wait(r)
    PROVE  TypeOK'
<1>1. timeChan[Upstream(r)] # <<>> =>
          /\ Head(timeChan[Upstream(r)]).data \in Time
          /\ Tail(timeChan[Upstream(r)]) \in Seq(TimeMessage)
  <2>1. timeChan[Upstream(r)] \in Seq(TimeMessage)
    BY Constants DEF TypeOK
  <2>2. \A m \in TimeMessage : m.data \in Time
    BY DEF TimeMessage
  <2> QED
    BY <2>1, <2>2, HeadTailProperties
<1>2. beamChan[Upstream(r)] # <<>> =>
          /\ Head(beamChan[Upstream(r)]).data \in SUBSET Particle
          /\ Tail(beamChan[Upstream(r)]) \in Seq(BeamMessage)
  <2>1. beamChan[Upstream(r)] \in Seq(BeamMessage)
    BY Constants DEF TypeOK
  <2>2. \A m \in BeamMessage : m.data \in SUBSET Particle
    BY DEF BeamMessage
  <2> QED
    BY <2>1, <2>2, HeadTailProperties
<1>3. Upstream(r) \in Ranks
  BY Constants
<1>4. physicalTime' \in [Ranks -> Time] /\ timeChan' \in [Ranks -> Seq(TimeMessage)]
  BY <1>1, <1>3 DEF Wait, TypeOK
<1>5. beam' \in [Ranks -> SUBSET Particle]
  <2>1. beamChan[Upstream(r)] # <<>> =>
            beam[r] \union Head(beamChan[Upstream(r)]).data \in SUBSET Particle
    BY <1>2 DEF TypeOK
  <2> QED
    BY <2>1 DEF Wait, TypeOK
<1>6. beamChan' \in [Ranks -> Seq(BeamMessage)]
  BY <1>2, <1>3 DEF Wait, TypeOK
<1>7. pc' \in [Ranks -> Early \union {"Wait", "Solve", "Notify", "Gone", "Abort"}]
  BY DEF Wait, TypeOK
<1> QED
  BY <1>4, <1>5, <1>6, <1>7 DEF Wait, TypeOK

\* The particles of a box once they are pushed.
SolvedBox(r, S) == S \in Pushes(InBox(beam[r], box[r]), dt[r])

LEMMA SolvedBoxTyped ==
    ASSUME TypeOK, NEW r \in Ranks, NEW S, SolvedBox(r, S)
    PROVE  /\ S \in SUBSET Particle
           /\ \A p \in S : \E q \in beam[r] :
                 q.box = box[r] /\ p.id = q.id /\ p.time = Append(q.time, dt[r])
           /\ {p.id : p \in S} = {p.id : p \in InBox(beam[r], box[r])}
           /\ {p.id : p \in S} \in SUBSET ParticleId
<1>1. InBox(beam[r], box[r]) \in SUBSET Particle /\ dt[r] \in Dt
  BY DEF TypeOK, InBox
<1>2. /\ S \in SUBSET Particle
      /\ \A p \in S : \E q \in InBox(beam[r], box[r]) :
            p.id = q.id /\ p.time = Append(q.time, dt[r])
      /\ \A q \in InBox(beam[r], box[r]) : \E p \in S : p.id = q.id
  BY <1>1, PushesTyped DEF SolvedBox
<1> QED
  BY <1>2 DEF InBox, Particle

LEMMA SolveTyped ==
    ASSUME TypeOK, NEW r \in Ranks, Solve(r)
    PROVE  TypeOK'
<1>1. PICK S : /\ SolvedBox(r, S)
               /\ LET sums == Sums(r, box[r], S)
                  IN  /\ pushed' = [pushed EXCEPT ![r] = S]
                      /\ counted' = [counted EXCEPT ![r] = sums]
                      /\ IF ~IsLastBox(box[r])
                           THEN pc' = [pc EXCEPT ![r] = "Notify"] /\ UNCHANGED dt
                           ELSE IF sums = {}
                             THEN pc' = [pc EXCEPT ![r] = "Abort"] /\ UNCHANGED dt
                             ELSE /\ pc' = [pc EXCEPT ![r] = "Notify"]
                                  /\ \E d \in NewDts(r, step[r], sums) :
                                        dt' = [dt EXCEPT ![r] = d]
  BY DEF Solve, SolvedBox
<1>2. S \in SUBSET Particle
  BY <1>1, SolvedBoxTyped
<1>3. Sums(r, box[r], S) \in SUBSET (ParticleId \X Nat)
  BY <1>2, SumsTyped
<1>4. NewDts(r, step[r], Sums(r, box[r], S)) \in SUBSET Dt
  <2>1. step[r] \in Int
    BY DEF TypeOK
  <2> QED
    BY <1>3, <2>1, NewDtsTyped
<1>5. dt' \in [Ranks -> Dt]
  BY <1>1, <1>4 DEF TypeOK
<1>6. /\ pushed' \in [Ranks -> SUBSET Particle]
      /\ counted' \in [Ranks -> SUBSET (ParticleId \X Nat)]
  BY <1>1, <1>2, <1>3 DEF TypeOK
<1>7. pc' \in [Ranks -> Early \union {"Wait", "Solve", "Notify", "Gone", "Abort"}]
  BY <1>1 DEF TypeOK
<1>8. beam' \in [Ranks -> SUBSET Particle]
  BY DEF Solve, TypeOK
<1>9. whole' \in [Steps -> SUBSET ParticleId]
  <2>1. {p.id : p \in InBox(beam[r], box[r])} \in SUBSET ParticleId
    BY DEF TypeOK, InBox, Particle
  <2> QED
    BY <2>1 DEF Solve, TypeOK
<1> QED
  BY <1>5, <1>6, <1>7, <1>8, <1>9 DEF Solve, TypeOK

LEMMA NotifyTyped ==
    ASSUME TypeOK, NEW r \in Ranks, Notify(r)
    PROVE  TypeOK'
<1>1. Append(physicalTime[r], dt[r]) \in Time
  BY AppendProperties DEF TypeOK, Time
<1>2. /\ Message(r, TimeToSend(r)) \in TimeMessage
      /\ Message(r, pushed[r]) \in BeamMessage
  BY <1>1 DEF Message, TimeToSend, TimeMessage, BeamMessage, TypeOK
<1>3. /\ Append(timeChan[r], Message(r, TimeToSend(r))) \in Seq(TimeMessage)
      /\ Append(beamChan[r], Message(r, pushed[r])) \in Seq(BeamMessage)
  BY <1>2, AppendProperties DEF TypeOK
<1>4. /\ timeChan' \in [Ranks -> Seq(TimeMessage)]
      /\ beamChan' \in [Ranks -> Seq(BeamMessage)]
  BY <1>3 DEF Notify, TypeOK
<1>5. beam' \in [Ranks -> SUBSET Particle] /\ pushed' \in [Ranks -> SUBSET Particle]
  BY DEF Notify, TypeOK, BelowBox
<1>6. /\ box' \in [Ranks -> Boxes] /\ step' \in [Ranks -> Nat]
      /\ physicalTime' \in [Ranks -> Time]
      /\ pc' \in [Ranks -> Early \union {"Wait", "Solve", "Notify", "Gone", "Abort"}]
  <2>1. NextBox(r)
    BY DEF Notify
  <2>2. CASE IsLastBox(box[r])
    <3>1. NumBoxes - 1 \in Boxes /\ step[r] + N \in Nat
      BY Constants DEF TypeOK
    <3>2. box' \in [Ranks -> Boxes] /\ step' \in [Ranks -> Nat]
      <4>1. box \in [Ranks -> Boxes] /\ step \in [Ranks -> Nat]
        BY DEF TypeOK
      <4>2. /\ box' = [box EXCEPT ![r] = NumBoxes - 1]
            /\ step' = [step EXCEPT ![r] = step[r] + N]
        BY <2>1, <2>2 DEF NextBox
      <4> QED
        BY <3>1, <4>1, <4>2
    <3>3. physicalTime' \in [Ranks -> Time]
      BY <1>1, <2>1, <2>2 DEF NextBox, TypeOK
    <3>4. pc' \in [Ranks -> Early \union {"Wait", "Solve", "Notify", "Gone", "Abort"}]
      BY <2>1, <2>2 DEF NextBox, TypeOK
    <3> QED
      BY <3>2, <3>3, <3>4
  <2>3. CASE ~IsLastBox(box[r])
    <3>1. box[r] - 1 \in Boxes
      BY <2>3, Constants DEF IsLastBox, TypeOK
    <3> QED
      BY <2>1, <2>3, <3>1 DEF NextBox, TypeOK
  <2> QED
    BY <2>2, <2>3
<1> QED
  BY <1>4, <1>5, <1>6 DEF Notify, TypeOK

-----------------------------------------------------------------------------
(* Remainders                                                              *)

LEMMA Division ==
    ASSUME NEW n \in Nat \ {0}, NEW s \in Nat
    PROVE  /\ s \div n \in Nat
           /\ s % n \in 0 .. n - 1
           /\ s % n = s - n * (s \div n)
  OBVIOUS

LEMMA RemainderUnique ==
    ASSUME NEW n \in Nat \ {0}, NEW q \in Nat, NEW m \in Nat, m < n
    PROVE  (n * q + m) % n = m
  OBVIOUS

LEMMA RemainderOfLess ==
    ASSUME NEW n \in Nat \ {0}, NEW m \in Nat, m < n
    PROVE  m % n = m
  OBVIOUS

LEMMA RemainderShift ==
    ASSUME NEW n \in Nat \ {0}, NEW s \in Nat
    PROVE  (s + n) % n = s % n
<1> DEFINE q == s \div n
           m == s % n
<1>1. q \in Nat /\ m \in 0 .. n - 1 /\ m = s - n * q
  BY Division
<1> HIDE DEF q, m
<1>2. s + n = n * (q + 1) + m
  BY <1>1
<1>3. (n * (q + 1) + m) % n = m
  <2>1. q + 1 \in Nat /\ m \in Nat /\ m < n
    BY <1>1
  <2> QED
    BY <2>1, RemainderUnique
<1> QED
  BY <1>2, <1>3 DEF m

\* Steps with the same remainder that are less than N apart are the same.
LEMMA RemainderClose ==
    ASSUME NEW n \in Nat \ {0}, NEW s \in Nat, NEW t \in Nat, s % n = t % n,
           s - t < n, t - s < n
    PROVE  s = t
<1> DEFINE q == s \div n
           p == t \div n
           m == s % n
<1>1. q \in Nat /\ p \in Nat /\ m \in 0 .. n - 1 /\ m = s - n * q /\ m = t - n * p
  BY Division
<1> HIDE DEF q, p, m
<1>2. s = n * q + m /\ t = n * p + m
  BY <1>1
<1>3. CASE q < p
  <2>1. p >= q + 1
    BY <1>1, <1>3
  <2>2. n * p >= n * (q + 1) /\ n * (q + 1) = n * q + n
    BY <1>1, <2>1
  <2> QED
    BY <1>1, <1>2, <2>2
<1>4. CASE p < q
  <2>1. q >= p + 1
    BY <1>1, <1>4
  <2>2. n * q >= n * (p + 1) /\ n * (p + 1) = n * p + n
    BY <1>1, <2>1
  <2> QED
    BY <1>1, <1>2, <2>2
<1>5. q = p => s = t
  BY <1>2
<1> QED
  BY <1>1, <1>3, <1>4, <1>5

\* The step before a step of a rank is its upstream's.
LEMMA DealtUpstream ==
    ASSUME NEW r \in Ranks, NEW s \in Nat, Dealt(r, s + 1)
    PROVE  Dealt(Upstream(r), s)
<1> DEFINE q == (s + 1) \div N
           m == (s + 1) % N
<1>1. N \in Nat \ {0} /\ r \in 0 .. N - 1
  BY Constants DEF Ranks
<1>2. q \in Nat /\ m \in 0 .. N - 1 /\ m = (s + 1) - N * q /\ m = N - 1 - r
  <2>1. s + 1 \in Nat
    OBVIOUS
  <2>2. q \in Nat /\ m \in 0 .. N - 1 /\ m = (s + 1) - N * q
    BY <1>1, <2>1, Division
  <2> QED
    BY <2>2 DEF Dealt
<1> HIDE DEF q, m
<1>3. s + 1 = N * q + m
  BY <1>1, <1>2
<1>4. CASE r # N - 1
  <2>1. m - 1 \in Nat /\ m - 1 < N /\ s = N * q + (m - 1)
    BY <1>1, <1>2, <1>3, <1>4
  <2>2. s % N = m - 1
    BY <1>1, <1>2, <2>1, RemainderUnique
  <2> QED
    BY <1>1, <1>2, <1>4, <2>2 DEF Dealt, Upstream
<1>5. CASE r = N - 1
  <2>1. m = 0
    BY <1>1, <1>2, <1>5
  <2>2. q # 0
    BY <1>1, <1>3, <2>1
  <2>3. q - 1 \in Nat /\ N - 1 \in Nat /\ N - 1 < N
    BY <1>1, <1>2, <2>2
  <2>4. N * q = N * (q - 1) + N
    BY <1>1, <1>2, <2>3
  <2>5. s = N * (q - 1) + (N - 1)
    BY <1>1, <1>2, <1>3, <2>1, <2>4
  <2>6. s % N = N - 1
    BY <1>1, <2>3, <2>5, RemainderUnique
  <2> QED
    BY <1>1, <1>5, <2>6 DEF Dealt, Upstream
<1> QED
  BY <1>4, <1>5

LEMMA DealtOnce ==
    ASSUME NEW q \in Ranks, NEW r \in Ranks, NEW s, Dealt(q, s), Dealt(r, s)
    PROVE  q = r
<1>1. q \in 0 .. N - 1 /\ r \in 0 .. N - 1 /\ N - 1 - q = N - 1 - r /\ N \in Nat
  BY Constants, Zenon DEF Dealt, Ranks
<1> QED
  BY <1>1

LEMMA UpstreamOnce ==
    ASSUME NEW q \in Ranks, NEW r \in Ranks, Upstream(q) = Upstream(r)
    PROVE  q = r
  BY Constants DEF Upstream, Ranks

-----------------------------------------------------------------------------
(* Messages                                                                *)

LEMMA BeamChainAppend ==
    ASSUME NEW c \in Seq(BeamMessage), NEW m \in BeamMessage, NEW first \in Int, NEW last \in Int,
           BeamChain(c, first, last), Mark(m.step, m.box) = last
    PROVE  BeamChain(Append(c, m), first, last + 1)
<1> DEFINE d == Append(c, m)
<1>1. /\ Len(c) \in Nat /\ Len(d) = Len(c) + 1
      /\ \A i \in 1 .. Len(c) : d[i] = c[i]
      /\ d[Len(c) + 1] = m
  BY AppendProperties
<1> HIDE DEF d
<1>2. Len(c) = last - first
      /\ \A i \in 1 .. Len(c) : Mark(c[i].step, c[i].box) = first + i - 1
  BY DEF BeamChain
<1>3. ASSUME NEW i \in 1 .. Len(d) PROVE Mark(d[i].step, d[i].box) = first + i - 1
  <2>1. CASE i = Len(c) + 1
    BY <1>1, <1>2, <2>1
  <2>2. CASE i # Len(c) + 1
    <3>1. i \in 1 .. Len(c)
      BY <1>1, <2>2
    <3> QED
      BY <1>1, <1>2, <3>1
  <2> QED
    BY <2>1, <2>2
<1>4. Len(d) = (last + 1) - first
  BY <1>1, <1>2
<1>5. BeamChain(d, first, last + 1)
  BY <1>3, <1>4, Zenon DEF BeamChain
<1> QED
  BY <1>5 DEF d

LEMMA BeamChainTail ==
    ASSUME NEW c \in Seq(BeamMessage), c # <<>>, NEW first \in Int, NEW last \in Int,
           BeamChain(c, first, last)
    PROVE  BeamChain(Tail(c), first + 1, last)
<1> DEFINE d == Tail(c)
<1>1. /\ Len(c) \in Nat /\ Len(d) = Len(c) - 1 /\ Len(d) \in Nat
      /\ \A i \in 1 .. Len(d) : d[i] = c[i + 1]
  BY HeadTailProperties, LenProperties
<1> HIDE DEF d
<1>2. Len(c) = last - first
      /\ \A i \in 1 .. Len(c) : Mark(c[i].step, c[i].box) = first + i - 1
  BY DEF BeamChain
<1>3. ASSUME NEW i \in 1 .. Len(d) PROVE Mark(d[i].step, d[i].box) = (first + 1) + i - 1
  <2>1. i + 1 \in 1 .. Len(c)
    BY <1>1
  <2>2. d[i] = c[i + 1] /\ Mark(c[i + 1].step, c[i + 1].box) = first + (i + 1) - 1
    BY <1>1, <1>2, <2>1
  <2> QED
    BY <2>2
<1>4. BeamChain(d, first + 1, last)
  BY <1>1, <1>2, <1>3 DEF BeamChain
<1> QED
  BY <1>4 DEF d

LEMMA TimeChainAppend ==
    ASSUME NEW c \in Seq(TimeMessage), NEW m \in TimeMessage, NEW first, NEW last \in Int,
           TimeChain(c, first, last), m.step = last
    PROVE  TimeChain(Append(c, m), first, last + N)
<1> DEFINE d == Append(c, m)
<1>1. /\ Len(c) \in Nat /\ Len(d) = Len(c) + 1 /\ d # <<>>
      /\ \A i \in 1 .. Len(c) : d[i] = c[i] /\ c[i] \in TimeMessage
      /\ d[Len(c) + 1] = m
  BY AppendProperties, ElementOfSeq
<1> HIDE DEF d
<1>2. N \in Nat \ {0}
  BY Constants
<1>3. \A i \in 1 .. Len(c) : c[i].step < last /\ c[i].step \in Nat
  BY <1>1 DEF TimeChain, TimeMessage
<1>4. CASE c = <<>>
  <2>1. Len(c) = 0
    BY <1>4
  <2>2. d[1] = m /\ Len(d) = 1 /\ first = last
    BY <1>1, <1>4, <2>1 DEF TimeChain
  <2>3. \A i \in 1 .. Len(d) : i = 1
    BY <2>2
  <2>4. TimeChain(d, first, last + N)
    BY <1>1, <1>2, <2>2, <2>3 DEF TimeChain
  <2> QED
    BY <2>4 DEF d
<1>5. CASE c # <<>>
  <2>1. Len(c) >= 1
    BY <1>1, <1>5, EmptySeq
  <2>2. d[1].step = first /\ d[Len(d)].step + N = last + N
    <3>1. d[1] = c[1]
      BY <1>1, <2>1
    <3> QED
      BY <1>1, <1>5, <3>1 DEF TimeChain
  <2>3. ASSUME NEW i \in 1 .. Len(d) - 1 PROVE d[i + 1].step = d[i].step + N
    <3>1. CASE i = Len(c)
      <4>1. d[i + 1] = m /\ d[i] = c[i] /\ c[i].step + N = last
        BY <1>1, <1>5, <2>1, <3>1 DEF TimeChain
      <4> QED
        BY <4>1
    <3>2. CASE i # Len(c)
      <4>1. i \in 1 .. Len(c) - 1 /\ i + 1 \in 1 .. Len(c) /\ i \in 1 .. Len(c)
        BY <1>1, <3>2
      <4>2. d[i] = c[i] /\ d[i + 1] = c[i + 1] /\ c[i + 1].step = c[i].step + N
        BY <1>1, <4>1 DEF TimeChain
      <4> QED
        BY <4>2
    <3> QED
      BY <3>1, <3>2
  <2>4. ASSUME NEW i \in 1 .. Len(d) PROVE d[i].step < last + N
    <3>1. CASE i = Len(c) + 1
      BY <1>1, <1>2, <3>1
    <3>2. CASE i # Len(c) + 1
      <4>1. i \in 1 .. Len(c)
        BY <1>1, <3>2
      <4>2. d[i] = c[i] /\ c[i].step < last /\ c[i].step \in Nat
        BY <1>1, <1>3, <4>1
      <4> QED
        BY <1>2, <4>2
    <3> QED
      BY <3>1, <3>2
  <2>5. TimeChain(d, first, last + N)
    BY <1>1, <2>2, <2>3, <2>4 DEF TimeChain
  <2> QED
    BY <2>5 DEF d
<1> QED
  BY <1>4, <1>5

LEMMA TimeChainTail ==
    ASSUME NEW c \in Seq(TimeMessage), c # <<>>, NEW first, NEW last,
           TimeChain(c, first, last)
    PROVE  Head(c).step = first /\ TimeChain(Tail(c), first + N, last)
<1> DEFINE d == Tail(c)
<1>1. /\ Len(c) \in Nat \ {0} /\ Len(d) = Len(c) - 1 /\ Len(d) \in Nat
      /\ \A i \in 1 .. Len(d) : d[i] = c[i + 1]
      /\ d = <<>> <=> Len(c) = 1
      /\ Head(c) = c[1]
  <2>1. Len(c) \in Nat \ {0}
    BY EmptySeq
  <2>2. /\ d \in Seq(TimeMessage) /\ Len(d) = Len(c) - 1
        /\ \A i \in 1 .. Len(d) : d[i] = c[i + 1]
    BY HeadTailProperties
  <2> HIDE DEF d
  <2>3. d = <<>> <=> Len(d) = 0
    BY <2>2, EmptySeq
  <2> QED
    BY <2>1, <2>2, <2>3
<1>2. c[1].step = first
  BY DEF TimeChain
<1>3. d = <<>> => first + N = last
  BY <1>1, <1>2 DEF TimeChain
<1>4. d # <<>> => d[1].step = first + N /\ d[Len(d)].step + N = last
  BY <1>1, <1>2 DEF TimeChain
<1>5. \A i \in 1 .. Len(d) - 1 : d[i + 1].step = d[i].step + N
  <2>1. ASSUME NEW i \in 1 .. Len(d) - 1 PROVE d[i + 1].step = d[i].step + N
    <3>1. /\ i \in 1 .. Len(d) /\ i + 1 \in 1 .. Len(d)
          /\ i + 1 \in 1 .. Len(c) - 1
      BY <1>1
    <3>2. d[i] = c[i + 1] /\ d[i + 1] = c[(i + 1) + 1]
      BY <1>1, <3>1
    <3> QED
      BY <3>1, <3>2 DEF TimeChain
  <2> QED
    BY <2>1
<1>6. \A i \in 1 .. Len(d) : d[i].step < last
  BY <1>1 DEF TimeChain
<1> HIDE DEF d
<1>7. TimeChain(d, first + N, last)
  BY <1>3, <1>4, <1>5, <1>6 DEF TimeChain
<1> QED
  BY <1>1, <1>2, <1>7 DEF d

-----------------------------------------------------------------------------
(* What the handlers do with more than one rank                            *)

Initialises(r) ==
    CalculateInitial(r) \/ WaitTimeStep(r) \/ NotifyTimeStep(r) \/ EnterEvolve(r)

LEMMA InitialisesMoves ==
    ASSUME TypeOK, NEW r \in Ranks, Initialises(r)
    PROVE  /\ pc[r] \in Early /\ pc'[r] \in Early \union {"Wait", "Abort"}
           /\ pc'[r] = "Abort" => r = HeadRank
           /\ \A q \in Ranks : q # r => pc'[q] = pc[q]
           /\ UNCHANGED <<step, box, beam, pushed, physicalTime, timeChan, beamChan, whole>>
<1>1. pc \in [Ranks -> Early \union {"Wait", "Solve", "Notify", "Gone", "Abort"}]
  BY DEF TypeOK
<1>2. CASE CalculateInitial(r)
  BY <1>1, <1>2 DEF CalculateInitial, Early
<1>3. CASE WaitTimeStep(r)
  BY <1>1, <1>3 DEF WaitTimeStep, Early
<1>4. CASE NotifyTimeStep(r)
  BY <1>1, <1>4 DEF NotifyTimeStep, Early
<1>5. CASE EnterEvolve(r)
  BY <1>1, <1>5 DEF EnterEvolve, Early
<1> QED
  BY <1>2, <1>3, <1>4, <1>5 DEF Initialises

LEMMA WaitMoves ==
    ASSUME Several, TypeOK, NEW r \in Ranks, Wait(r)
    PROVE  /\ pc[r] = "Wait" /\ pc' = [pc EXCEPT ![r] = "Solve"]
           /\ UNCHANGED <<step, box, dt, counted, pushed, dtChan, whole>>
           /\ step[r] = 0 => UNCHANGED <<physicalTime, timeChan, beam, beamChan>>
           /\ step[r] # 0 =>
                 /\ beamChan[Upstream(r)] # <<>>
                 /\ beamChan' = [beamChan EXCEPT ![Upstream(r)] = Tail(@)]
                 /\ beam' = [beam EXCEPT ![r] = @ \union Head(beamChan[Upstream(r)]).data]
                 /\ box[r] # N - 1 => UNCHANGED <<physicalTime, timeChan>>
                 /\ box[r] = N - 1 =>
                       /\ timeChan[Upstream(r)] # <<>>
                       /\ timeChan' = [timeChan EXCEPT ![Upstream(r)] = Tail(@)]
                       /\ physicalTime' =
                             [physicalTime EXCEPT ![r] = Head(timeChan[Upstream(r)]).data]
<1>1. UseMPI
  BY Constants
<1> QED
  BY <1>1 DEF Wait

LEMMA SolveMoves ==
    ASSUME TypeOK, NEW r \in Ranks, Solve(r)
    PROVE  /\ pc[r] = "Solve" /\ pc'[r] \in {"Notify", "Abort"}
           /\ \A q \in Ranks : q # r => pc'[q] = pc[q]
           /\ UNCHANGED <<step, box, physicalTime, dtChan, timeChan, beamChan>>
           /\ beam' = [beam EXCEPT ![r] = @ \ InBox(@, box[r])]
<1>1. pc \in [Ranks -> Early \union {"Wait", "Solve", "Notify", "Gone", "Abort"}]
  BY DEF TypeOK
<1>2. /\ pc' = [pc EXCEPT ![r] = "Notify"] \/ pc' = [pc EXCEPT ![r] = "Abort"]
  BY DEF Solve
<1> QED
  BY <1>1, <1>2 DEF Solve

LEMMA NotifyMoves ==
    ASSUME Several, TypeOK, NEW r \in Ranks, Notify(r)
    PROVE  /\ pc[r] = "Notify"
           /\ UNCHANGED <<dt, counted, dtChan, whole>>
           /\ beam' = [beam EXCEPT ![r] = BelowBox(@, box[r])]
           /\ pushed' = [pushed EXCEPT ![r] = {}]
           /\ step[r] = MaxStep => UNCHANGED <<timeChan, beamChan>>
           /\ step[r] # MaxStep =>
                 /\ beamChan' = [beamChan EXCEPT ![r] = Append(@, Message(r, pushed[r]))]
                 /\ box[r] # N - 1 => UNCHANGED timeChan
                 /\ box[r] = N - 1 =>
                       timeChan' =
                          [timeChan EXCEPT ![r] = Append(@, Message(r, TimeToSend(r)))]
           /\ box[r] # 0 =>
                 /\ box' = [box EXCEPT ![r] = @ - 1]
                 /\ pc' = [pc EXCEPT ![r] = "Wait"]
                 /\ UNCHANGED <<step, physicalTime>>
           /\ box[r] = 0 =>
                 /\ box' = [box EXCEPT ![r] = N - 1]
                 /\ step' = [step EXCEPT ![r] = @ + N]
                 /\ physicalTime' = [physicalTime EXCEPT ![r] = Append(@, dt[r])]
                 /\ pc' = [pc EXCEPT ![r] = IF step[r] + N <= MaxStep THEN "Wait" ELSE "Gone"]
<1>1. UseMPI /\ NumBoxes = N
  BY Constants
<1>2. NextBox(r)
  BY DEF Notify
<1>3. box[r] # 0 =>
          /\ box' = [box EXCEPT ![r] = @ - 1]
          /\ pc' = [pc EXCEPT ![r] = "Wait"]
          /\ UNCHANGED <<step, physicalTime>>
  BY <1>2 DEF NextBox, IsLastBox
<1>4. box[r] = 0 =>
          /\ box' = [box EXCEPT ![r] = N - 1]
          /\ step' = [step EXCEPT ![r] = @ + N]
          /\ physicalTime' = [physicalTime EXCEPT ![r] = Append(@, dt[r])]
          /\ pc' = [pc EXCEPT ![r] = IF step[r] + N <= MaxStep THEN "Wait" ELSE "Gone"]
  BY <1>1, <1>2 DEF NextBox, IsLastBox
<1>5. /\ pc[r] = "Notify"
      /\ UNCHANGED <<dt, counted, dtChan, whole>>
      /\ beam' = [beam EXCEPT ![r] = BelowBox(@, box[r])]
      /\ pushed' = [pushed EXCEPT ![r] = {}]
  BY <1>1 DEF Notify
<1>6. /\ step[r] = MaxStep => UNCHANGED <<timeChan, beamChan>>
      /\ step[r] # MaxStep =>
            /\ beamChan' = [beamChan EXCEPT ![r] = Append(@, Message(r, pushed[r]))]
            /\ box[r] # N - 1 => UNCHANGED timeChan
            /\ box[r] = N - 1 =>
                  timeChan' = [timeChan EXCEPT ![r] = Append(@, Message(r, TimeToSend(r)))]
  BY <1>1 DEF Notify
<1> QED
  BY <1>3, <1>4, <1>5, <1>6

-----------------------------------------------------------------------------
(* Every message answers the receive that takes it                         *)

LEMMA InitBase ==
    ASSUME Several, Init
    PROVE  Base
<1>1. TypeOK
  BY InitTyped
<1>2. N \in Nat \ {0} /\ N > 1 /\ MaxStep \in Nat /\ N <= MaxStep + 1 /\ NumBoxes = N
  BY Constants DEF Several
<1>3. ControlOK
  BY <1>2 DEF Init, ControlOK, Early, Ranks
<1>4. StepsDealt
  <2>1. ASSUME NEW r \in Ranks
        PROVE  Dealt(r, step[r]) /\ Len(timeChan[r]) = 0 /\ Len(beamChan[r]) = 0
    <3>1. step[r] = N - 1 - r /\ N - 1 - r \in Nat /\ N - 1 - r < N
      BY <1>2 DEF Init, Ranks
    <3>2. (N - 1 - r) % N = N - 1 - r
      BY <1>2, <3>1, RemainderOfLess
    <3> QED
      BY <3>1, <3>2 DEF Dealt, Init
  <2> QED
    BY <2>1 DEF StepsDealt
<1>5. ChannelsExact
  <2>1. ASSUME NEW r \in Ranks
        PROVE  /\ BeamChain(beamChan[Upstream(r)], RecvMark(r), SendMark(Upstream(r)))
               /\ TimeChain(timeChan[Upstream(r)], RecvTime(r), SendTime(Upstream(r)))
    <3>1. PICK u \in Ranks : u = Upstream(r)
      BY Constants
    <3>2. beamChan[u] = <<>> /\ timeChan[u] = <<>>
      BY DEF Init
    <3>3. /\ step[r] = N - 1 - r /\ box[r] = N - 1 /\ ~Got(r)
          /\ step[u] = N - 1 - u /\ box[u] = N - 1
      BY <1>2 DEF Init, Got
    <3>4. r \in 0 .. N - 1 /\ u = IF r = N - 1 THEN 0 ELSE r + 1
      BY <3>1 DEF Ranks, Upstream
    <3>5. step[u] <= MaxStep /\ step[u] # MaxStep + N
      BY <1>2, <3>3, <3>4
    <3>6. SendMark(u) = RecvMark(r)
      BY <1>2, <3>3, <3>4, <3>5 DEF SendMark, RecvMark, SendStep, Mark
    <3>7. SendTime(u) = RecvTime(r) /\ RecvMark(r) \in Int
      BY <1>2, <3>3, <3>4, <3>5 DEF SendTime, RecvTime, SendStep, RecvMark, Mark
    <3>8. BeamChain(<<>>, RecvMark(r), SendMark(u))
      BY <3>6, <3>7 DEF BeamChain
    <3>9. TimeChain(<<>>, RecvTime(r), SendTime(u))
      BY <3>7 DEF TimeChain
    <3> QED
      BY <3>1, <3>2, <3>8, <3>9
  <2> QED
    BY <2>1 DEF ChannelsExact
<1> QED
  BY <1>1, <1>3, <1>4, <1>5 DEF Base

\* Initialising, or solving a box, moves no place and no message.
LEMMA ChannelsStay ==
    ASSUME Base, NEW r \in Ranks,
           UNCHANGED <<step, box, timeChan, beamChan>>,
           \A q \in Ranks : step[q] # 0 => Got(q)' = Got(q)
    PROVE  ChannelsExact'
<1>1. ASSUME NEW q \in Ranks
      PROVE  /\ RecvMark(q)' = RecvMark(q) /\ SendMark(q)' = SendMark(q)
             /\ RecvTime(q)' = RecvTime(q) /\ SendTime(q)' = SendTime(q)
  <2>1. CASE step[q] = 0
    BY <2>1 DEF RecvMark, SendMark, RecvTime, SendTime, SendStep
  <2>2. CASE step[q] # 0
    <3>1. Got(q)' = Got(q)
      BY <2>2
    <3> QED
      BY <3>1 DEF RecvMark, SendMark, RecvTime, SendTime, SendStep
  <2> QED
    BY <2>1, <2>2
<1>2. SUFFICES ASSUME NEW q \in Ranks
               PROVE  /\ BeamChain(beamChan'[Upstream(q)], RecvMark(q)', SendMark(Upstream(q))')
                      /\ TimeChain(timeChan'[Upstream(q)], RecvTime(q)', SendTime(Upstream(q))')
  BY DEF ChannelsExact
<1>3. Upstream(q) \in Ranks
  BY Constants
<1> QED
  BY <1>1, <1>3 DEF Base, ChannelsExact

\* The places and steps are numbers.
LEMMA MarksTyped ==
    ASSUME TypeOK, NEW r \in Ranks
    PROVE  /\ step[r] \in Nat /\ box[r] \in Nat
           /\ RecvMark(r) \in Int /\ SendMark(r) \in Int
           /\ RecvTime(r) \in Int /\ SendTime(r) \in Int
<1>1. step[r] \in Nat /\ box[r] \in Nat /\ N \in Nat /\ MaxStep \in Nat
  BY Constants DEF TypeOK
<1> QED
  BY <1>1 DEF RecvMark, SendMark, RecvTime, SendTime, SendStep, Mark

LEMMA WaitMarks ==
    ASSUME Several, Base, NEW r \in Ranks, Wait(r), NEW q \in Ranks
    PROVE  /\ SendMark(q)' = SendMark(q) /\ SendTime(q)' = SendTime(q)
           /\ RecvMark(q)' = IF q = r /\ step[r] # 0 THEN RecvMark(q) + 1 ELSE RecvMark(q)
           /\ RecvTime(q)' = IF q = r /\ step[r] # 0 /\ box[r] = N - 1
                               THEN RecvTime(q) + N
                               ELSE RecvTime(q)
<1>1. TypeOK /\ pc \in [Ranks -> Early \union {"Wait", "Solve", "Notify", "Gone", "Abort"}]
  BY DEF Base, TypeOK
<1>2. pc[r] = "Wait" /\ pc' = [pc EXCEPT ![r] = "Solve"] /\ UNCHANGED <<step, box>>
  BY <1>1, WaitMoves
<1>3. SendMark(q)' = SendMark(q) /\ SendTime(q)' = SendTime(q)
  BY <1>2 DEF SendMark, SendTime, SendStep
<1>4. q # r => (Got(q)' <=> Got(q))
  BY <1>1, <1>2 DEF Got
<1>5. Got(r)' /\ ~Got(r)
  BY <1>1, <1>2 DEF Got
<1>6. CASE q # r
  BY <1>2, <1>3, <1>4, <1>6 DEF RecvMark, RecvTime
<1>7. CASE q = r
  <2>1. step[r] \in Nat /\ box[r] \in Nat /\ N \in Nat
    BY <1>1, MarksTyped, Constants
  <2> QED
    BY <1>2, <1>3, <1>5, <1>7, <2>1 DEF RecvMark, RecvTime, Mark
<1> QED
  BY <1>6, <1>7

LEMMA NotifyMarks ==
    ASSUME Several, Base, NEW r \in Ranks, Notify(r), NEW q \in Ranks
    PROVE  /\ RecvMark(q)' = RecvMark(q) /\ RecvTime(q)' = RecvTime(q)
           /\ SendMark(q)' = IF q = r /\ step[r] # MaxStep THEN SendMark(q) + 1 ELSE SendMark(q)
           /\ SendTime(q)' = IF q = r /\ step[r] # MaxStep /\ box[r] = N - 1
                               THEN SendTime(q) + N
                               ELSE SendTime(q)
<1>1. TypeOK /\ pc \in [Ranks -> Early \union {"Wait", "Solve", "Notify", "Gone", "Abort"}]
      /\ step \in [Ranks -> Nat] /\ box \in [Ranks -> Boxes]
  BY DEF Base, TypeOK
<1>2. /\ N \in Nat /\ N > 1 /\ MaxStep \in Nat
      /\ step[r] \in Nat /\ box[r] \in Nat /\ box[r] <= N - 1
  BY <1>1, Constants DEF Several
<1>3. pc[r] = "Notify" /\ step[r] <= MaxStep
  <2>1. pc[r] = "Notify"
    BY <1>1, NotifyMoves
  <2> QED
    BY <1>2, <2>1 DEF Base, ControlOK
<1>4. CASE q # r
  <2>1. step'[q] = step[q] /\ box'[q] = box[q] /\ pc'[q] = pc[q]
    <3>1. CASE box[r] = 0
      BY <1>1, <1>4, <3>1, NotifyMoves
    <3>2. CASE box[r] # 0
      BY <1>1, <1>4, <3>2, NotifyMoves
    <3> QED
      BY <3>1, <3>2
  <2> QED
    BY <1>4, <2>1 DEF RecvMark, RecvTime, SendMark, SendTime, SendStep, Got
<1>5. CASE q = r /\ box[r] # 0
  <2>1. step'[r] = step[r] /\ box'[r] = box[r] - 1 /\ pc'[r] = "Wait"
    BY <1>1, <1>5, NotifyMoves
  <2>2. Got(r) /\ ~Got(r)'
    BY <1>3, <2>1 DEF Got
  <2>3. RecvMark(r)' = RecvMark(r) /\ RecvTime(r)' = RecvTime(r)
    BY <1>2, <1>5, <2>1, <2>2 DEF RecvMark, RecvTime, Mark
  <2>4. SendMark(r)' = IF step[r] # MaxStep THEN SendMark(r) + 1 ELSE SendMark(r)
    BY <1>2, <1>3, <1>5, <2>1 DEF SendMark, SendStep, Mark
  <2>5. SendTime(r)' = IF step[r] # MaxStep /\ box[r] = N - 1
                         THEN SendTime(r) + N ELSE SendTime(r)
    BY <1>2, <1>3, <1>5, <2>1 DEF SendTime, SendStep
  <2> QED
    BY <1>5, <2>3, <2>4, <2>5
<1>6. CASE q = r /\ box[r] = 0
  <2>1. step'[r] = step[r] + N /\ box'[r] = N - 1 /\ pc'[r] \in {"Wait", "Gone"}
    BY <1>1, <1>6, NotifyMoves
  <2>2. Got(r) /\ ~Got(r)'
    BY <1>3, <2>1 DEF Got
  <2>3. RecvMark(r)' = RecvMark(r) /\ RecvTime(r)' = RecvTime(r)
    BY <1>2, <1>6, <2>1, <2>2 DEF RecvMark, RecvTime, Mark
  <2>4. SendMark(r)' = IF step[r] # MaxStep THEN SendMark(r) + 1 ELSE SendMark(r)
    BY <1>2, <1>3, <1>6, <2>1 DEF SendMark, SendStep, Mark
  <2>5. SendTime(r)' = IF step[r] # MaxStep /\ box[r] = N - 1
                         THEN SendTime(r) + N ELSE SendTime(r)
    BY <1>2, <1>3, <1>6, <2>1 DEF SendTime, SendStep
  <2> QED
    BY <1>6, <2>3, <2>4, <2>5
<1> QED
  BY <1>4, <1>5, <1>6

LEMMA ControlStep ==
    ASSUME Several, Base, NEW r \in Ranks, Initialises(r) \/ Wait(r) \/ Solve(r) \/ Notify(r)
    PROVE  ControlOK'
<1>1. TypeOK /\ pc \in [Ranks -> Early \union {"Wait", "Solve", "Notify", "Gone", "Abort"}]
      /\ step \in [Ranks -> Nat] /\ box \in [Ranks -> Boxes]
  BY DEF Base, TypeOK
<1>2. N \in Nat /\ N > 1 /\ MaxStep \in Nat /\ N <= MaxStep + 1
  BY Constants DEF Several
<1>3. ASSUME NEW q \in Ranks
      PROVE  /\ step[q] <= MaxStep + N
             /\ pc[q] \in Early => step[q] = N - 1 - q
             /\ pc[q] \in Early \union {"Gone"} => box[q] = N - 1
             /\ step[q] > MaxStep <=> pc[q] = "Gone"
  BY DEF Base, ControlOK
<1>4. CASE Initialises(r)
  <2>1. /\ pc[r] \in Early /\ pc'[r] \in Early \union {"Wait", "Abort"}
        /\ \A q \in Ranks : q # r => pc'[q] = pc[q]
        /\ UNCHANGED <<step, box>>
    BY <1>1, <1>4, InitialisesMoves
  <2> QED
    BY <1>3, <2>1 DEF ControlOK, Early
<1>5. CASE Wait(r)
  <2>1. pc[r] = "Wait" /\ pc' = [pc EXCEPT ![r] = "Solve"] /\ UNCHANGED <<step, box>>
    BY <1>1, <1>5, WaitMoves
  <2> QED
    BY <1>1, <1>3, <2>1 DEF ControlOK, Early
<1>6. CASE Solve(r)
  <2>1. /\ pc[r] = "Solve" /\ pc'[r] \in {"Notify", "Abort"}
        /\ \A q \in Ranks : q # r => pc'[q] = pc[q]
        /\ UNCHANGED <<step, box>>
    BY <1>1, <1>6, SolveMoves
  <2> QED
    BY <1>3, <2>1 DEF ControlOK, Early
<1>7. CASE Notify(r) /\ box[r] # 0
  <2>1. /\ pc[r] = "Notify" /\ pc' = [pc EXCEPT ![r] = "Wait"]
        /\ box' = [box EXCEPT ![r] = @ - 1] /\ UNCHANGED step
    BY <1>1, <1>7, NotifyMoves
  <2> QED
    BY <1>1, <1>3, <2>1 DEF ControlOK, Early
<1>8. CASE Notify(r) /\ box[r] = 0
  <2>1. /\ pc[r] = "Notify"
        /\ pc' = [pc EXCEPT ![r] = IF step[r] + N <= MaxStep THEN "Wait" ELSE "Gone"]
        /\ box' = [box EXCEPT ![r] = N - 1] /\ step' = [step EXCEPT ![r] = @ + N]
    BY <1>1, <1>8, NotifyMoves
  <2>2. ASSUME NEW q \in Ranks
        PROVE  /\ step'[q] <= MaxStep + N
               /\ pc'[q] \in Early => step'[q] = N - 1 - q
               /\ pc'[q] \in Early \union {"Gone"} => box'[q] = N - 1
               /\ step'[q] > MaxStep <=> pc'[q] = "Gone"
    <3>1. CASE q # r
      BY <1>1, <1>3, <2>1, <3>1
    <3>2. CASE q = r
      <4>1. step[r] \in Nat /\ step[r] <= MaxStep
        BY <1>1, <1>2, <1>3, <2>1
      <4>2. /\ pc'[r] = IF step[r] + N <= MaxStep THEN "Wait" ELSE "Gone"
            /\ box'[r] = N - 1 /\ step'[r] = step[r] + N
        BY <1>1, <2>1
      <4> QED
        BY <1>2, <3>2, <4>1, <4>2 DEF Early
    <3> QED
      BY <3>1, <3>2
  <2> QED
    BY <2>2 DEF ControlOK
<1> QED
  BY <1>4, <1>5, <1>6, <1>7, <1>8

LEMMA DealtStep ==
    ASSUME Several, Base, NEW r \in Ranks, Initialises(r) \/ Wait(r) \/ Solve(r) \/ Notify(r)
    PROVE  StepsDealt'
<1>1. /\ TypeOK /\ StepsDealt /\ N \in Nat \ {0}
      /\ step \in [Ranks -> Nat]
      /\ timeChan \in [Ranks -> Seq(TimeMessage)] /\ beamChan \in [Ranks -> Seq(BeamMessage)]
  BY Constants DEF Base, TypeOK
<1>2. CASE Initialises(r) \/ Solve(r)
  <2>1. UNCHANGED <<step, timeChan, beamChan>>
    BY <1>1, <1>2, InitialisesMoves, SolveMoves
  <2> QED
    BY <1>1, <2>1 DEF StepsDealt
<1>3. CASE Wait(r)
  <2>1. PICK u \in Ranks : u = Upstream(r)
    BY Constants
  <2>2. UNCHANGED step
    BY <1>1, <1>3, WaitMoves
  <2>3. timeChan'[u] = timeChan[u] \/ (timeChan[u] # <<>> /\ timeChan'[u] = Tail(timeChan[u]))
    BY <1>1, <1>3, <2>1, WaitMoves
  <2>4. beamChan'[u] = beamChan[u] \/ (beamChan[u] # <<>> /\ beamChan'[u] = Tail(beamChan[u]))
    BY <1>1, <1>3, <2>1, WaitMoves
  <2>5. \A q \in Ranks : q # u => timeChan'[q] = timeChan[q] /\ beamChan'[q] = beamChan[q]
    BY <1>1, <1>3, <2>1, WaitMoves
  <2>6. \A i \in 1 .. Len(timeChan'[u]) : Dealt(u, timeChan'[u][i].step)
    <3>1. CASE timeChan'[u] = Tail(timeChan[u]) /\ timeChan[u] # <<>>
      <4>1. /\ Len(timeChan'[u]) = Len(timeChan[u]) - 1 /\ Len(timeChan[u]) \in Nat
            /\ \A i \in 1 .. Len(timeChan'[u]) : timeChan'[u][i] = timeChan[u][i + 1]
        BY <1>1, <3>1, HeadTailProperties, LenProperties
      <4>2. \A i \in 1 .. Len(timeChan'[u]) : i + 1 \in 1 .. Len(timeChan[u])
        BY <4>1
      <4> QED
        BY <1>1, <4>1, <4>2 DEF StepsDealt
    <3> QED
      BY <1>1, <2>3, <3>1 DEF StepsDealt
  <2>7. \A i \in 1 .. Len(beamChan'[u]) : Dealt(u, beamChan'[u][i].step)
    <3>1. CASE beamChan'[u] = Tail(beamChan[u]) /\ beamChan[u] # <<>>
      <4>1. /\ Len(beamChan'[u]) = Len(beamChan[u]) - 1 /\ Len(beamChan[u]) \in Nat
            /\ \A i \in 1 .. Len(beamChan'[u]) : beamChan'[u][i] = beamChan[u][i + 1]
        BY <1>1, <3>1, HeadTailProperties, LenProperties
      <4>2. \A i \in 1 .. Len(beamChan'[u]) : i + 1 \in 1 .. Len(beamChan[u])
        BY <4>1
      <4> QED
        BY <1>1, <4>1, <4>2 DEF StepsDealt
    <3> QED
      BY <1>1, <2>4, <3>1 DEF StepsDealt
  <2> QED
    BY <1>1, <2>2, <2>5, <2>6, <2>7 DEF StepsDealt
<1>4. CASE Notify(r)
  <2>1. Dealt(r, step[r]) /\ step[r] \in Nat
    BY <1>1 DEF StepsDealt
  <2>2. step'[r] \in {step[r], step[r] + N} /\ \A q \in Ranks : q # r => step'[q] = step[q]
    <3>1. CASE box[r] = 0
      BY <1>1, <1>4, <3>1, NotifyMoves
    <3>2. CASE box[r] # 0
      BY <1>1, <1>4, <3>2, NotifyMoves
    <3> QED
      BY <3>1, <3>2
  <2>3. Dealt(r, step'[r])
    <3>1. (step[r] + N) % N = step[r] % N
      BY <1>1, <2>1, RemainderShift
    <3> QED
      BY <2>1, <2>2, <3>1 DEF Dealt
  <2>0. /\ \/ timeChan' = timeChan
           \/ timeChan' = [timeChan EXCEPT ![r] = Append(@, Message(r, TimeToSend(r)))]
        /\ \/ beamChan' = beamChan
           \/ beamChan' = [beamChan EXCEPT ![r] = Append(@, Message(r, pushed[r]))]
    <3>1. CASE step[r] = MaxStep
      BY <1>1, <1>4, <3>1, NotifyMoves
    <3>2. CASE step[r] # MaxStep
      BY <1>1, <1>4, <3>2, NotifyMoves, Zenon
    <3> QED
      BY <3>1, <3>2
  <2>4. \A q \in Ranks : q # r => timeChan'[q] = timeChan[q] /\ beamChan'[q] = beamChan[q]
    BY <1>1, <2>0
  <2>5. /\ \/ timeChan'[r] = timeChan[r]
           \/ timeChan'[r] = Append(timeChan[r], Message(r, TimeToSend(r)))
        /\ \/ beamChan'[r] = beamChan[r]
           \/ beamChan'[r] = Append(beamChan[r], Message(r, pushed[r]))
    BY <1>1, <2>0
  <2>6. ASSUME NEW M, NEW c \in Seq(M), NEW m, Dealt(r, m.step),
               \A i \in 1 .. Len(c) : Dealt(r, c[i].step)
        PROVE  \A i \in 1 .. Len(Append(c, m)) : Dealt(r, Append(c, m)[i].step)
    <3>1. Len(c) \in Nat /\ Len(Append(c, m)) = Len(c) + 1
      OBVIOUS
    <3>2. \A i \in 1 .. Len(c) + 1 : Append(c, m)[i] = IF i = Len(c) + 1 THEN m ELSE c[i]
      OBVIOUS
    <3>3. \A i \in 1 .. Len(c) + 1 : i # Len(c) + 1 => i \in 1 .. Len(c)
      BY <3>1
    <3> QED
      BY <2>6, <3>1, <3>2, <3>3
  <2>7. \A d : Message(r, d).step = step[r]
    BY DEF Message
  <2>8. \A i \in 1 .. Len(timeChan'[r]) : Dealt(r, timeChan'[r][i].step)
    <3> DEFINE m == Message(r, TimeToSend(r))
    <3>1. Dealt(r, m.step)
      BY <2>1, <2>7
    <3> HIDE DEF m
    <3>2. /\ timeChan[r] \in Seq(TimeMessage)
          /\ \A i \in 1 .. Len(timeChan[r]) : Dealt(r, timeChan[r][i].step)
      BY <1>1 DEF StepsDealt
    <3>3. \A i \in 1 .. Len(Append(timeChan[r], m)) : Dealt(r, Append(timeChan[r], m)[i].step)
      BY <2>6, <3>1, <3>2
    <3> QED
      BY <2>5, <3>2, <3>3 DEF m
  <2>9. \A i \in 1 .. Len(beamChan'[r]) : Dealt(r, beamChan'[r][i].step)
    <3> DEFINE m == Message(r, pushed[r])
    <3>1. Dealt(r, m.step)
      BY <2>1, <2>7
    <3> HIDE DEF m
    <3>2. /\ beamChan[r] \in Seq(BeamMessage)
          /\ \A i \in 1 .. Len(beamChan[r]) : Dealt(r, beamChan[r][i].step)
      BY <1>1 DEF StepsDealt
    <3>3. \A i \in 1 .. Len(Append(beamChan[r], m)) : Dealt(r, Append(beamChan[r], m)[i].step)
      BY <2>6, <3>1, <3>2
    <3> QED
      BY <2>5, <3>2, <3>3 DEF m
  <2> QED
    BY <1>1, <2>2, <2>3, <2>4, <2>8, <2>9 DEF StepsDealt
<1> QED
  BY <1>2, <1>3, <1>4

LEMMA WaitChannels ==
    ASSUME Several, Base, NEW r \in Ranks, Wait(r)
    PROVE  ChannelsExact'
<1>1. SUFFICES ASSUME NEW q \in Ranks
               PROVE  /\ BeamChain(beamChan'[Upstream(q)], RecvMark(q)', SendMark(Upstream(q))')
                      /\ TimeChain(timeChan'[Upstream(q)], RecvTime(q)', SendTime(Upstream(q))')
  BY DEF ChannelsExact
<1>2. PICK u \in Ranks : u = Upstream(q)
  BY Constants
<1>3. /\ TypeOK
      /\ timeChan \in [Ranks -> Seq(TimeMessage)] /\ beamChan \in [Ranks -> Seq(BeamMessage)]
      /\ BeamChain(beamChan[u], RecvMark(q), SendMark(u))
      /\ TimeChain(timeChan[u], RecvTime(q), SendTime(u))
  BY <1>2 DEF Base, TypeOK, ChannelsExact
<1>4. RecvMark(q) \in Int /\ SendMark(u) \in Int
  BY <1>3, MarksTyped
<1>5. SendMark(u)' = SendMark(u) /\ SendTime(u)' = SendTime(u)
  BY WaitMarks
<1>6. CASE q # r
  <2>1. u # Upstream(r)
    BY <1>2, <1>6, UpstreamOnce
  <2>2. beamChan'[u] = beamChan[u] /\ timeChan'[u] = timeChan[u]
    BY <1>3, <2>1, WaitMoves
  <2>3. RecvMark(q)' = RecvMark(q) /\ RecvTime(q)' = RecvTime(q)
    BY <1>6, WaitMarks
  <2> QED
    BY <1>2, <1>3, <1>5, <2>2, <2>3
<1>7. CASE q = r /\ step[r] = 0
  <2>1. beamChan'[u] = beamChan[u] /\ timeChan'[u] = timeChan[u]
    BY <1>3, <1>7, WaitMoves
  <2>2. RecvMark(q)' = RecvMark(q) /\ RecvTime(q)' = RecvTime(q)
    BY <1>7, WaitMarks
  <2> QED
    BY <1>2, <1>3, <1>5, <2>1, <2>2
<1>8. CASE q = r /\ step[r] # 0
  <2>1. beamChan[u] # <<>> /\ beamChan'[u] = Tail(beamChan[u])
    BY <1>2, <1>3, <1>8, WaitMoves
  <2>2. RecvMark(q)' = RecvMark(q) + 1
    BY <1>8, WaitMarks
  <2>3. BeamChain(beamChan'[u], RecvMark(q)', SendMark(u)')
    BY <1>3, <1>4, <1>5, <2>1, <2>2, BeamChainTail
  <2>4. TimeChain(timeChan'[u], RecvTime(q)', SendTime(u)')
    <3>1. CASE box[r] = N - 1
      <4>1. timeChan[u] # <<>> /\ timeChan'[u] = Tail(timeChan[u])
        BY <1>2, <1>3, <1>8, <3>1, WaitMoves
      <4>2. RecvTime(q)' = RecvTime(q) + N
        BY <1>8, <3>1, WaitMarks
      <4> QED
        BY <1>3, <1>5, <4>1, <4>2, TimeChainTail
    <3>2. CASE box[r] # N - 1
      <4>1. timeChan'[u] = timeChan[u]
        BY <1>3, <1>8, <3>2, WaitMoves
      <4>2. RecvTime(q)' = RecvTime(q)
        BY <1>8, <3>2, WaitMarks
      <4> QED
        BY <1>3, <1>5, <4>1, <4>2
    <3> QED
      BY <3>1, <3>2
  <2> QED
    BY <1>2, <2>3, <2>4
<1> QED
  BY <1>6, <1>7, <1>8

LEMMA NotifyChannels ==
    ASSUME Several, Base, NEW r \in Ranks, Notify(r)
    PROVE  ChannelsExact'
<1>1. SUFFICES ASSUME NEW q \in Ranks
               PROVE  /\ BeamChain(beamChan'[Upstream(q)], RecvMark(q)', SendMark(Upstream(q))')
                      /\ TimeChain(timeChan'[Upstream(q)], RecvTime(q)', SendTime(Upstream(q))')
  BY DEF ChannelsExact
<1>2. PICK u \in Ranks : u = Upstream(q)
  BY Constants
<1>3. /\ TypeOK
      /\ timeChan \in [Ranks -> Seq(TimeMessage)] /\ beamChan \in [Ranks -> Seq(BeamMessage)]
      /\ BeamChain(beamChan[u], RecvMark(q), SendMark(u))
      /\ TimeChain(timeChan[u], RecvTime(q), SendTime(u))
  BY <1>2 DEF Base, TypeOK, ChannelsExact
<1>4. RecvMark(q) \in Int /\ SendMark(u) \in Int /\ SendTime(u) \in Int
  BY <1>3, MarksTyped
<1>5. RecvMark(q)' = RecvMark(q) /\ RecvTime(q)' = RecvTime(q)
  BY NotifyMarks
<1>6. CASE u # r \/ step[r] = MaxStep
  <2>1. beamChan'[u] = beamChan[u] /\ timeChan'[u] = timeChan[u]
    <3>1. CASE step[r] = MaxStep
      BY <1>3, <3>1, NotifyMoves
    <3>2. CASE step[r] # MaxStep /\ u # r
      <4>1. beamChan'[u] = beamChan[u]
        BY <1>3, <3>2, NotifyMoves
      <4>2. timeChan'[u] = timeChan[u]
        <5>1. \/ timeChan' = timeChan
              \/ timeChan' = [timeChan EXCEPT ![r] = Append(@, Message(r, TimeToSend(r)))]
          BY <1>3, <3>2, NotifyMoves, Zenon
        <5> QED
          BY <1>3, <3>2, <5>1
      <4> QED
        BY <4>1, <4>2
    <3> QED
      BY <1>6, <3>1, <3>2
  <2>2. SendMark(u)' = SendMark(u) /\ SendTime(u)' = SendTime(u)
    BY <1>6, NotifyMarks
  <2> QED
    BY <1>2, <1>3, <1>5, <2>1, <2>2
<1>7. CASE u = r /\ step[r] # MaxStep
  <2>1. beamChan' = [beamChan EXCEPT ![r] = Append(@, Message(r, pushed[r]))]
    BY <1>3, <1>7, NotifyMoves, Zenon
  <2>2. SendMark(u)' = SendMark(u) + 1
    BY <1>7, NotifyMarks
  <2>3. step[r] < MaxStep /\ step[r] \in Nat
    <3>1. pc[r] = "Notify"
      BY <1>3, NotifyMoves
    <3>2. ~ (step[r] > MaxStep)
      BY <3>1 DEF Base, ControlOK
    <3>3. step[r] \in Nat /\ MaxStep \in Nat
      BY Constants DEF Base, TypeOK
    <3> QED
      BY <1>7, <3>2, <3>3
  <2>4. /\ Message(r, pushed[r]) \in BeamMessage
        /\ Message(r, TimeToSend(r)) \in TimeMessage
    <3>1. Append(physicalTime[r], dt[r]) \in Time
      BY <1>3, AppendProperties DEF TypeOK, Time
    <3> QED
      BY <1>3, <3>1 DEF Message, TimeToSend, TimeMessage, BeamMessage, TypeOK
  <2>5. /\ \A d : Message(r, d).step = step[r] /\ Message(r, d).box = box[r]
        /\ SendMark(r) = Mark(step[r], box[r])
    BY <2>3, Constants DEF Message, SendMark
  <2>6. BeamChain(beamChan'[u], RecvMark(q)', SendMark(u)')
    <3> DEFINE m == Message(r, pushed[r])
    <3>1. m \in BeamMessage /\ Mark(m.step, m.box) = SendMark(u)
      BY <1>7, <2>4, <2>5
    <3>2. beamChan'[u] = Append(beamChan[u], m)
      BY <1>3, <1>7, <2>1
    <3> HIDE DEF m
    <3>3. BeamChain(Append(beamChan[u], m), RecvMark(q), SendMark(u) + 1)
      BY <1>3, <1>4, <3>1, BeamChainAppend
    <3> QED
      BY <1>5, <2>2, <3>2, <3>3
  <2>7. TimeChain(timeChan'[u], RecvTime(q)', SendTime(u)')
    <3>1. CASE box[r] = N - 1
      <4> DEFINE m == Message(r, TimeToSend(r))
      <4>1. SendTime(r) = step[r]
        BY <2>3, <3>1, Constants DEF SendTime
      <4>2. m \in TimeMessage /\ m.step = SendTime(u)
        BY <1>7, <2>4, <2>5, <4>1
      <4>3. timeChan' = [timeChan EXCEPT ![r] = Append(@, Message(r, TimeToSend(r)))]
        BY <1>3, <1>7, <3>1, NotifyMoves, Zenon
      <4>4. timeChan'[u] = Append(timeChan[u], m)
        BY <1>3, <1>7, <4>3
      <4> HIDE DEF m
      <4>5. TimeChain(Append(timeChan[u], m), RecvTime(q), SendTime(u) + N)
        BY <1>3, <1>4, <4>2, TimeChainAppend
      <4>6. SendTime(u)' = SendTime(u) + N
        BY <1>7, <3>1, NotifyMarks
      <4> QED
        BY <1>5, <4>4, <4>5, <4>6
    <3>2. CASE box[r] # N - 1
      <4>1. timeChan' = timeChan
        BY <1>3, <1>7, <3>2, NotifyMoves, Zenon
      <4>2. SendTime(u)' = SendTime(u)
        BY <3>2, NotifyMarks
      <4> QED
        BY <1>3, <1>5, <4>1, <4>2
    <3> QED
      BY <3>1, <3>2
  <2> QED
    BY <1>2, <2>6, <2>7
<1> QED
  BY <1>6, <1>7

LEMMA BaseRankStep ==
    ASSUME Several, Base, NEW r \in Ranks, Initialises(r) \/ Wait(r) \/ Solve(r) \/ Notify(r)
    PROVE  Base'
<1>1. TypeOK /\ ControlOK
      /\ pc \in [Ranks -> Early \union {"Wait", "Solve", "Notify", "Gone", "Abort"}]
  BY DEF Base, TypeOK
<1>2. TypeOK'
  BY <1>1, EarlyTyped, WaitTyped, SolveTyped, NotifyTyped DEF Initialises
<1>3. ControlOK'
  BY ControlStep
<1>4. StepsDealt'
  BY DealtStep
<1>5. ChannelsExact'
  <2>1. CASE Initialises(r)
    <3>1. /\ pc[r] \in Early /\ pc'[r] \in Early \union {"Wait", "Abort"}
          /\ pc'[r] = "Abort" => r = HeadRank
          /\ \A q \in Ranks : q # r => pc'[q] = pc[q]
          /\ UNCHANGED <<step, box, timeChan, beamChan>>
      BY <1>1, <2>1, InitialisesMoves
    <3>2. ASSUME NEW q \in Ranks, step[q] # 0
          PROVE  Got(q)' = Got(q)
      <4>1. q = r => pc'[r] # "Abort"
        <5>1. q = HeadRank /\ q = r => step[q] = 0
          BY <1>1, <3>1, Constants DEF ControlOK, HeadRank
        <5> QED
          BY <3>1, <3>2, <5>1
      <4> QED
        BY <3>1, <4>1 DEF Got, Early
    <3> QED
      BY <3>1, <3>2, ChannelsStay
  <2>2. CASE Wait(r)
    BY <2>2, WaitChannels
  <2>3. CASE Solve(r)
    <3>1. /\ pc[r] = "Solve" /\ pc'[r] \in {"Notify", "Abort"}
          /\ \A q \in Ranks : q # r => pc'[q] = pc[q]
          /\ UNCHANGED <<step, box, timeChan, beamChan>>
      BY <1>1, <2>3, SolveMoves
    <3>2. \A q \in Ranks : Got(q)' = Got(q)
      BY <3>1 DEF Got
    <3> QED
      BY <3>1, <3>2, ChannelsStay
  <2>4. CASE Notify(r)
    BY <2>4, NotifyChannels
  <2> QED
    BY <2>1, <2>2, <2>3, <2>4
<1> QED
  BY <1>2, <1>3, <1>4, <1>5 DEF Base

\* A step of the system is one of a rank or none.
LEMMA NextCases ==
    ASSUME [Next]_vars
    PROVE  \/ UNCHANGED vars
           \/ \E r \in Ranks : Initialises(r) \/ Wait(r) \/ Solve(r) \/ Notify(r)
  BY DEF Next, Terminating, RankNext, Initialises

LEMMA BaseStep ==
    ASSUME Several, Base, [Next]_vars
    PROVE  Base'
<1>1. CASE UNCHANGED vars
  BY <1>1 DEF vars, Base, TypeOK, ControlOK, StepsDealt, ChannelsExact, SendMark, RecvMark,
              SendTime, RecvTime, SendStep, Got
<1>2. CASE \E r \in Ranks : Initialises(r) \/ Wait(r) \/ Solve(r) \/ Notify(r)
  BY <1>2, BaseRankStep
<1> QED
  BY <1>1, <1>2, NextCases

\* The first message on its way is the one the rank waits for.
LEMMA HeadMessages ==
    ASSUME Several, Base, NEW r \in Ranks, Wait(r), step[r] # 0
    PROVE  /\ Head(beamChan[Upstream(r)]).step = step[r] - 1
           /\ Head(beamChan[Upstream(r)]).box = box[r]
           /\ box[r] = N - 1 => Head(timeChan[Upstream(r)]).step = step[r] - 1
           /\ step[r] - 1 \in Nat
<1>1. PICK u \in Ranks : u = Upstream(r)
  BY Constants
<1>2. /\ TypeOK /\ StepsDealt /\ N \in Nat \ {0} /\ N > 1 /\ Boxes = 0 .. N - 1
      /\ timeChan[u] \in Seq(TimeMessage) /\ beamChan[u] \in Seq(BeamMessage)
      /\ BeamChain(beamChan[u], RecvMark(r), SendMark(u))
      /\ TimeChain(timeChan[u], RecvTime(r), SendTime(u))
      /\ step[r] \in Nat /\ box[r] \in Boxes
  BY <1>1, Constants DEF Base, TypeOK, ChannelsExact, Several
<1>3. pc[r] = "Wait" /\ beamChan[u] # <<>> /\ (box[r] = N - 1 => timeChan[u] # <<>>)
  BY <1>1, <1>2, WaitMoves
<1>4. ~Got(r)
  BY <1>3 DEF Got
<1>5. step[r] - 1 \in Nat
  BY <1>2
<1>6. ASSUME box[r] = N - 1 PROVE Head(timeChan[u]).step = step[r] - 1
  <2>1. RecvTime(r) = step[r] - 1
    BY <1>4, <1>6 DEF RecvTime
  <2> QED
    BY <1>2, <1>3, <1>6, <2>1, TimeChainTail
<1>7. PICK m \in BeamMessage : m = Head(beamChan[u]) /\ m = beamChan[u][1]
  BY <1>2, <1>3, HeadTailProperties
<1>8. 1 \in 1 .. Len(beamChan[u])
  BY <1>2, <1>3, EmptySeq, LenProperties
<1>9. Mark(m.step, m.box) = Mark(step[r] - 1, box[r])
  <2>1. RecvMark(r) = Mark(step[r] - 1, box[r])
    BY <1>4 DEF RecvMark
  <2>2. RecvMark(r) \in Int
    BY <1>2, MarksTyped
  <2>3. Mark(m.step, m.box) = RecvMark(r) + 1 - 1
    BY <1>2, <1>7, <1>8 DEF BeamChain
  <2> QED
    BY <2>1, <2>2, <2>3
<1>10. m.step \in Nat /\ m.box \in 0 .. N - 1
  BY <1>2, <1>7 DEF BeamMessage
<1>11. m.step = step[r] - 1
  <2>1. Dealt(u, m.step)
    BY <1>2, <1>7, <1>8 DEF StepsDealt
  <2>2. Dealt(u, step[r] - 1)
    <3>1. Dealt(r, (step[r] - 1) + 1)
      <4>1. (step[r] - 1) + 1 = step[r]
        BY <1>2
      <4> QED
        BY <1>2, <4>1 DEF StepsDealt
    <3> QED
      BY <1>1, <1>5, <3>1, DealtUpstream
  <2>3. m.step % N = (step[r] - 1) % N
    BY <2>1, <2>2 DEF Dealt
  <2>4. m.step - (step[r] - 1) < N /\ (step[r] - 1) - m.step < N
    BY <1>2, <1>9, <1>10 DEF Mark
  <2> QED
    BY <1>2, <1>5, <1>10, <2>3, <2>4, RemainderClose
<1>12. m.box = box[r]
  BY <1>2, <1>9, <1>10, <1>11 DEF Mark
<1> QED
  BY <1>1, <1>5, <1>6, <1>7, <1>11, <1>12

-----------------------------------------------------------------------------
(* The beam is at the time that goes with it                               *)

LEMMA InitialisesDt ==
    ASSUME TypeOK, NEW r \in Ranks, Initialises(r), NEW q \in Ranks, q # r
    PROVE  dt'[q] = dt[q] /\ counted'[q] = counted[q]
<1>1. dt \in [Ranks -> Dt] /\ counted \in [Ranks -> SUBSET (ParticleId \X Nat)]
  BY DEF TypeOK
<1>2. CASE CalculateInitial(r)
  BY <1>1, <1>2 DEF CalculateInitial
<1>3. CASE WaitTimeStep(r)
  BY <1>1, <1>3 DEF WaitTimeStep
<1>4. CASE NotifyTimeStep(r)
  BY <1>1, <1>4 DEF NotifyTimeStep
<1>5. CASE EnterEvolve(r)
  BY <1>1, <1>5 DEF EnterEvolve
<1> QED
  BY <1>2, <1>3, <1>4, <1>5 DEF Initialises

LEMMA InitTimes ==
    ASSUME Several, Init
    PROVE  TimeInv
<1> DEFINE T == [s \in Nat |-> [i \in 1 .. s |-> NoDt]]
<1>1. T \in Times
  <2>1. ASSUME NEW s \in Nat
        PROVE  T[s] \in Time /\ Len(T[s]) = s
    <3>1. [i \in 1 .. s |-> NoDt] \in Seq(Dt)
      BY <2>1, Constants, IsASeq
    <3>2. Len([i \in 1 .. s |-> NoDt]) = s
      BY <2>1, <3>1, LenProperties
    <3> QED
      BY <3>1, <3>2 DEF Time
  <2> QED
    BY <2>1 DEF Times
<1>2. ASSUME NEW r \in Ranks
      PROVE  RankTimes(T, r) /\ MessageTimes(T, r)
  <2>1. /\ pc[r] = "Calculate" /\ step[r] = N - 1 - r /\ box[r] = N - 1
        /\ physicalTime[r] = <<>> /\ pushed[r] = {}
        /\ Len(timeChan[r]) = 0 /\ Len(beamChan[r]) = 0
    BY <1>2, Constants DEF Init
  <2>2. N \in Nat /\ N > 1 /\ r \in 0 .. N - 1
    BY Constants DEF Several, Ranks
  <2>3. ~Got(r) /\ ~Pushing(r)
    BY <2>1 DEF Got, Pushing
  <2>4. HasTime(r) <=> r = HeadRank
    BY <2>1, <2>2, <2>3 DEF HasTime, HeadRank
  <2>5. (r # HeadRank => beam[r] = {}) /\ \A p \in beam[r] : p.time = <<>>
    BY <1>2 DEF Init
  <2>6. r = HeadRank => T[step[r]] = <<>>
    <3>1. r = HeadRank => step[r] = 0
      BY <2>1, <2>2 DEF HeadRank
    <3>2. T[0] = <<>>
      <4>1. T[0] \in Seq(Dt) /\ Len(T[0]) = 0
        BY <1>1 DEF Times, Time
      <4> QED
        BY <4>1, EmptySeq
    <3> QED
      BY <3>1, <3>2
  <2> HIDE DEF T
  <2>7. RankTimes(T, r)
    BY <2>1, <2>3, <2>4, <2>5, <2>6 DEF RankTimes
  <2>8. MessageTimes(T, r)
    BY <2>1 DEF MessageTimes
  <2> QED
    BY <2>7, <2>8
<1> HIDE DEF T
<1> QED
  BY <1>1, <1>2 DEF TimeInv, TimesAre

\* A rank that initialises neither gets nor uses a time.
LEMMA InitialisesTimes ==
    ASSUME Several, Base, NEW r \in Ranks, Initialises(r), NEW T, TimesAre(T)
    PROVE  TimesAre(T)'
<1>1. TypeOK /\ ControlOK /\ StepsDealt
  BY DEF Base
<1>2. /\ pc[r] \in Early /\ pc'[r] \in Early \union {"Wait", "Abort"}
      /\ pc'[r] = "Abort" => r = HeadRank
      /\ \A q \in Ranks : q # r => pc'[q] = pc[q]
      /\ UNCHANGED <<step, box, beam, pushed, physicalTime, timeChan, beamChan, whole>>
  BY <1>1, InitialisesMoves
<1>3. SUFFICES ASSUME NEW q \in Ranks
               PROVE  RankTimes(T, q)' /\ MessageTimes(T, q)'
  BY DEF TimesAre
<1>4. RankTimes(T, q) /\ MessageTimes(T, q)
  BY DEF TimesAre
<1>5. MessageTimes(T, q)'
  BY <1>2, <1>4 DEF MessageTimes
<1>6. CASE q # r
  <2>1. dt'[q] = dt[q] /\ pc'[q] = pc[q]
    BY <1>1, <1>2, <1>6, InitialisesDt
  <2>2. (HasTime(q)' <=> HasTime(q)) /\ (Pushing(q)' <=> Pushing(q))
    BY <1>2, <2>1 DEF HasTime, Got, Pushing
  <2>3. RankTimes(T, q)'
    BY <1>2, <1>4, <2>1, <2>2 DEF RankTimes
  <2> QED
    BY <1>5, <2>3
<1>7. CASE q = r
  <2>1. box[q] = N - 1 /\ step[q] = N - 1 - q
    BY <1>1, <1>2, <1>7 DEF ControlOK
  <2>2. q = HeadRank => step[q] = 0
    BY <2>1, Constants DEF HeadRank
  <2>3. (HasTime(q)' <=> HasTime(q)) /\ ~Pushing(q)'
    BY <1>2, <1>7, <2>1, <2>2 DEF HasTime, Got, Pushing, Early
  <2>4. RankTimes(T, q)'
    BY <1>2, <1>4, <2>3 DEF RankTimes
  <2> QED
    BY <1>5, <2>4
<1> QED
  BY <1>6, <1>7

\* The messages left after one is taken are messages that were there.
LEMMA TailTimes ==
    ASSUME TypeOK, NEW u \in Ranks, NEW T, MessageTimes(T, u),
           \/ timeChan'[u] = timeChan[u]
           \/ timeChan[u] # <<>> /\ timeChan'[u] = Tail(timeChan[u]),
           \/ beamChan'[u] = beamChan[u]
           \/ beamChan[u] # <<>> /\ beamChan'[u] = Tail(beamChan[u])
    PROVE  MessageTimes(T, u)'
<1>1. timeChan[u] \in Seq(TimeMessage) /\ beamChan[u] \in Seq(BeamMessage)
  BY DEF TypeOK
<1>2. \A i \in 1 .. Len(timeChan'[u]) : timeChan'[u][i].data = T[timeChan'[u][i].step + 1]
  <2>1. CASE timeChan'[u] = Tail(timeChan[u]) /\ timeChan[u] # <<>>
    <3>1. /\ Len(timeChan'[u]) = Len(timeChan[u]) - 1 /\ Len(timeChan[u]) \in Nat
          /\ \A i \in 1 .. Len(timeChan'[u]) : timeChan'[u][i] = timeChan[u][i + 1]
      BY <1>1, <2>1, HeadTailProperties, LenProperties
    <3>2. \A i \in 1 .. Len(timeChan'[u]) : i + 1 \in 1 .. Len(timeChan[u])
      BY <3>1
    <3> QED
      BY <3>1, <3>2 DEF MessageTimes
  <2> QED
    BY <2>1 DEF MessageTimes
<1>3. \A i \in 1 .. Len(beamChan'[u]) :
          \A p \in beamChan'[u][i].data : p.time = T[beamChan'[u][i].step + 1]
  <2>1. CASE beamChan'[u] = Tail(beamChan[u]) /\ beamChan[u] # <<>>
    <3>1. /\ Len(beamChan'[u]) = Len(beamChan[u]) - 1 /\ Len(beamChan[u]) \in Nat
          /\ \A i \in 1 .. Len(beamChan'[u]) : beamChan'[u][i] = beamChan[u][i + 1]
      BY <1>1, <2>1, HeadTailProperties, LenProperties
    <3>2. \A i \in 1 .. Len(beamChan'[u]) : i + 1 \in 1 .. Len(beamChan[u])
      BY <3>1
    <3> QED
      BY <3>1, <3>2 DEF MessageTimes
  <2> QED
    BY <2>1 DEF MessageTimes
<1> QED
  BY <1>2, <1>3 DEF MessageTimes

LEMMA WaitTimes ==
    ASSUME Several, Base, NEW r \in Ranks, Wait(r), NEW T \in Times, TimesAre(T)
    PROVE  TimesAre(T)'
<1>1. /\ TypeOK
      /\ pc \in [Ranks -> Early \union {"Wait", "Solve", "Notify", "Gone", "Abort"}]
      /\ beam \in [Ranks -> SUBSET Particle] /\ physicalTime \in [Ranks -> Time]
      /\ timeChan \in [Ranks -> Seq(TimeMessage)] /\ beamChan \in [Ranks -> Seq(BeamMessage)]
      /\ step[r] \in Nat
  BY DEF Base, TypeOK
<1>2. /\ pc[r] = "Wait" /\ pc' = [pc EXCEPT ![r] = "Solve"]
      /\ UNCHANGED <<step, box, dt, counted, pushed, dtChan, whole>>
  BY <1>1, WaitMoves
<1>3. PICK u \in Ranks : u = Upstream(r)
  BY Constants
<1>4. \A q \in Ranks : RankTimes(T, q) /\ MessageTimes(T, q)
  BY DEF TimesAre
<1>5. CASE step[r] = 0
  <2>1. UNCHANGED <<physicalTime, timeChan, beam, beamChan>>
    BY <1>1, <1>5, WaitMoves
  <2>2. ASSUME NEW q \in Ranks
        PROVE  (HasTime(q)' <=> HasTime(q)) /\ (Pushing(q)' <=> Pushing(q))
    BY <1>1, <1>2, <1>5 DEF HasTime, Got, Pushing
  <2>3. ASSUME NEW q \in Ranks
        PROVE  RankTimes(T, q)' /\ MessageTimes(T, q)'
    BY <1>2, <1>4, <2>1, <2>2 DEF RankTimes, MessageTimes
  <2> QED
    BY <2>3 DEF TimesAre
<1>6. CASE step[r] # 0
  <2>1. /\ beamChan[u] # <<>>
        /\ beamChan' = [beamChan EXCEPT ![u] = Tail(@)]
        /\ beam' = [beam EXCEPT ![r] = @ \union Head(beamChan[u]).data]
    BY <1>1, <1>3, <1>6, WaitMoves
  <2>3. \/ /\ box[r] # N - 1
           /\ UNCHANGED <<physicalTime, timeChan>>
        \/ /\ box[r] = N - 1
           /\ timeChan[u] # <<>>
           /\ timeChan' = [timeChan EXCEPT ![u] = Tail(@)]
           /\ physicalTime' = [physicalTime EXCEPT ![r] = Head(timeChan[u]).data]
    BY <1>1, <1>3, <1>6, WaitMoves
  <2>4. /\ Head(beamChan[u]).step = step[r] - 1
        /\ box[r] = N - 1 => Head(timeChan[u]).step = step[r] - 1
    BY <1>3, <1>6, HeadMessages
  <2>5. \A p \in Head(beamChan[u]).data : p.time = T[step[r]]
    <3>1. Head(beamChan[u]) = beamChan[u][1] /\ 1 \in 1 .. Len(beamChan[u])
      BY <1>1, <2>1, EmptySeq, LenProperties
    <3>2. \A p \in beamChan[u][1].data : p.time = T[beamChan[u][1].step + 1]
      BY <1>4, <3>1 DEF MessageTimes
    <3>3. beamChan[u][1].step + 1 = step[r]
      BY <1>1, <2>4, <3>1
    <3> QED
      BY <3>1, <3>2, <3>3
  <2>6. physicalTime'[r] = T[step[r]]
    <3>1. CASE box[r] = N - 1
      <4>1. Head(timeChan[u]) = timeChan[u][1] /\ 1 \in 1 .. Len(timeChan[u])
        BY <1>1, <2>3, <3>1, EmptySeq, LenProperties
      <4>2. timeChan[u][1].data = T[timeChan[u][1].step + 1]
        BY <1>4, <4>1 DEF MessageTimes
      <4>3. timeChan[u][1].step + 1 = step[r]
        <5>1. timeChan[u][1].step = step[r] - 1
          BY <2>4, <3>1, <4>1
        <5>2. step[r] \in Nat
          BY <1>1
        <5> QED
          BY <5>1, <5>2
      <4>4. physicalTime' = [physicalTime EXCEPT ![r] = Head(timeChan[u]).data]
        BY <2>3, <3>1
      <4>5. physicalTime'[r] = Head(timeChan[u]).data
        BY <1>1, <4>4
      <4> QED
        BY <4>1, <4>2, <4>3, <4>5
    <3>2. CASE box[r] # N - 1
      <4>1. HasTime(r)
        BY <1>2, <3>2 DEF HasTime
      <4> QED
        BY <1>4, <2>3, <3>2, <4>1 DEF RankTimes
    <3> QED
      BY <3>1, <3>2
  <2>7. \A p \in beam[r] : p.time = T[step[r]]
    BY <1>4 DEF RankTimes
  <2>8. RankTimes(T, r)'
    <3>1. Pushing(r)' <=> Pushing(r)
      BY <1>1, <1>2 DEF Pushing
    <3>2. HasTime(r)'
      BY <1>1, <1>2 DEF HasTime, Got
    <3>3. \A p \in beam'[r] : p.time = T[step[r]]
      BY <1>1, <2>1, <2>5, <2>7
    <3>4. /\ Pushing(r) => T[step[r] + 1] = Append(T[step[r]], dt[r])
          /\ \A p \in pushed[r] : p.time = T[step[r] + 1]
      BY <1>4 DEF RankTimes
    <3>5. step' = step /\ dt' = dt /\ pushed' = pushed
      BY <1>2
    <3> QED
      BY <2>6, <3>1, <3>2, <3>3, <3>4, <3>5 DEF RankTimes
  <2>9. ASSUME NEW q \in Ranks, q # r
        PROVE  RankTimes(T, q)'
    <3>1. pc'[q] = pc[q] /\ beam'[q] = beam[q] /\ physicalTime'[q] = physicalTime[q]
      BY <1>1, <1>2, <2>1, <2>3, <2>9
    <3>2. (Pushing(q)' <=> Pushing(q)) /\ (HasTime(q)' <=> HasTime(q))
      BY <1>2, <3>1 DEF Pushing, HasTime, Got
    <3>3. RankTimes(T, q)
      BY <1>4
    <3> QED
      BY <1>2, <3>1, <3>2, <3>3 DEF RankTimes
  <2>10. ASSUME NEW q \in Ranks
         PROVE  MessageTimes(T, q)'
    <3>1. CASE q = u
      <4>1. \/ timeChan'[u] = timeChan[u]
            \/ timeChan[u] # <<>> /\ timeChan'[u] = Tail(timeChan[u])
        BY <1>1, <2>3
      <4>2. beamChan[u] # <<>> /\ beamChan'[u] = Tail(beamChan[u])
        BY <1>1, <2>1
      <4> QED
        BY <1>1, <1>4, <3>1, <4>1, <4>2, TailTimes
    <3>2. CASE q # u
      <4>1. timeChan'[q] = timeChan[q] /\ beamChan'[q] = beamChan[q]
        BY <1>1, <2>1, <2>3, <3>2
      <4> QED
        BY <1>4, <4>1 DEF MessageTimes
    <3> QED
      BY <3>1, <3>2
  <2> QED
    BY <2>8, <2>9, <2>10 DEF TimesAre
<1> QED
  BY <1>5, <1>6

\* Nothing belongs yet to the step after the one whose first box is solved.
LEMMA NothingOfNextStep ==
    ASSUME Several, Base, NEW r \in Ranks, pc[r] = "Solve", box[r] = N - 1, NEW q \in Ranks
    PROVE  /\ \A i \in 1 .. Len(timeChan[q]) : timeChan[q][i].step # step[r]
           /\ \A i \in 1 .. Len(beamChan[q]) : beamChan[q][i].step # step[r]
           /\ step[q] = step[r] + 1 => ~HasTime(q)
           /\ step[q] = step[r] => q = r
<1>1. /\ TypeOK /\ StepsDealt /\ N \in Nat \ {0} /\ N > 1 /\ Boxes = 0 .. N - 1
      /\ \A v \in Ranks : timeChan[v] \in Seq(TimeMessage) /\ beamChan[v] \in Seq(BeamMessage)
      /\ step[r] \in Nat /\ step[q] \in Nat /\ box[q] \in 0 .. N - 1
      /\ MaxStep \in Nat
  BY Constants DEF Base, TypeOK, Several
<1>2. PICK d \in Ranks : r = Upstream(d)
  <2>1. r \in 0 .. N - 1
    BY DEF Ranks
  <2>2. CASE r = 0
    <3>1. N - 1 \in Ranks /\ Upstream(N - 1) = 0
      BY <1>1 DEF Ranks, Upstream
    <3> QED
      BY <2>2, <3>1
  <2>3. CASE r # 0
    <3>1. r - 1 \in Ranks /\ Upstream(r - 1) = r
      BY <1>1, <2>1, <2>3 DEF Ranks, Upstream
    <3> QED
      BY <3>1
  <2> QED
    BY <2>2, <2>3
<1>3. /\ BeamChain(beamChan[r], RecvMark(d), SendMark(r))
      /\ TimeChain(timeChan[r], RecvTime(d), SendTime(r))
      /\ RecvMark(d) \in Int /\ SendMark(r) \in Int
  BY <1>1, <1>2, MarksTyped DEF Base, ChannelsExact
<1>4. step[r] <= MaxStep
  <2>1. ~ (step[r] > MaxStep)
    BY DEF Base, ControlOK
  <2> QED
    BY <1>1, <2>1
<1>5. SendMark(r) = step[r] - (N - 1) /\ SendTime(r) = step[r]
  BY <1>1, <1>4 DEF SendMark, SendTime, SendStep, Mark
<1>6. ASSUME NEW i \in 1 .. Len(timeChan[q]), timeChan[q][i].step = step[r]
      PROVE  FALSE
  <2>1. q = r
    BY <1>1, <1>6, DealtOnce DEF StepsDealt
  <2>2. timeChan[r][i].step < SendTime(r)
    BY <1>3, <2>1 DEF TimeChain
  <2> QED
    BY <1>1, <1>5, <1>6, <2>1, <2>2
<1>7. ASSUME NEW i \in 1 .. Len(beamChan[q]), beamChan[q][i].step = step[r]
      PROVE  FALSE
  <2>1. q = r
    BY <1>1, <1>7, DealtOnce DEF StepsDealt
  <2>2. /\ Mark(beamChan[r][i].step, beamChan[r][i].box) = RecvMark(d) + i - 1
        /\ Len(beamChan[r]) = SendMark(r) - RecvMark(d)
    BY <1>3, <2>1 DEF BeamChain
  <2>3. PICK m \in BeamMessage : m = beamChan[r][i]
    BY <1>1, <2>1, ElementOfSeq
  <2>4. m.box \in 0 .. N - 1 /\ m.step = step[r]
    BY <1>1, <1>7, <2>1, <2>3 DEF BeamMessage
  <2>5. step[r] - m.box = RecvMark(d) + i - 1
    BY <2>2, <2>3, <2>4 DEF Mark
  <2>6. i <= SendMark(r) - RecvMark(d) /\ i \in Int
    BY <2>1, <2>2
  <2> QED
    BY <1>1, <1>3, <1>5, <2>4, <2>5, <2>6
<1>8. ASSUME step[q] = step[r] + 1, HasTime(q)
      PROVE  FALSE
  <2>1. Dealt(q, step[r] + 1)
    BY <1>1, <1>8 DEF StepsDealt
  <2>2. Dealt(Upstream(q), step[r])
    BY <1>1, <2>1, DealtUpstream
  <2>3. Upstream(q) = r
    BY <1>1, <2>2, Constants, DealtOnce DEF StepsDealt
  <2>4. q = d
    BY <1>2, <2>3, UpstreamOnce
  <2>5. Got(q) \/ box[q] # N - 1
    BY <1>1, <1>8 DEF HasTime
  <2>6. RecvMark(q) > step[r] - (N - 1) \/ (Got(q) /\ RecvMark(q) = step[q] - box[q])
    BY <1>1, <1>8, <2>5 DEF RecvMark, Mark
  <2>7. RecvMark(q) > SendMark(r)
    BY <1>1, <1>5, <1>8, <2>6
  <2>8. Len(beamChan[r]) \in Nat
    BY <1>1, LenProperties
  <2> QED
    BY <1>3, <1>5, <2>4, <2>7, <2>8 DEF BeamChain
<1>9. step[q] = step[r] => q = r
  BY <1>1, DealtOnce DEF StepsDealt
<1> QED
  BY <1>6, <1>7, <1>8, <1>9

\* A new time is agreed on by choosing it before anything belongs to it.
LEMMA TimesExtended ==
    ASSUME Several, Base, NEW r \in Ranks, pc[r] = "Solve", box[r] = N - 1,
           NEW T \in Times, TimesAre(T)
    PROVE  LET U == [T EXCEPT ![step[r] + 1] = Append(T[step[r]], dt[r])]
           IN  /\ U \in Times
               /\ U[step[r]] = T[step[r]] /\ U[step[r] + 1] = Append(T[step[r]], dt[r])
               /\ \A q \in Ranks : MessageTimes(U, q) /\ (q # r => RankTimes(U, q))
<1> DEFINE U == [T EXCEPT ![step[r] + 1] = Append(T[step[r]], dt[r])]
<1>1. /\ TypeOK /\ step \in [Ranks -> Nat]
      /\ \A v \in Ranks : timeChan[v] \in Seq(TimeMessage) /\ beamChan[v] \in Seq(BeamMessage)
  BY DEF Base, TypeOK
<1>2. PICK s \in Nat : s = step[r]
  BY <1>1
<1>3. T \in [Nat -> Time] /\ \A n \in Nat : Len(T[n]) = n
  BY DEF Times
<1>4. Append(T[s], dt[r]) \in Time /\ Len(Append(T[s], dt[r])) = s + 1
  BY <1>1, <1>2, <1>3, AppendProperties DEF TypeOK, Time
<1>5. /\ U \in [Nat -> Time]
      /\ U[s + 1] = Append(T[s], dt[r])
      /\ \A n \in Nat : n # s + 1 => U[n] = T[n]
  BY <1>2, <1>3, <1>4
<1> HIDE DEF U
<1>6. U \in Times
  BY <1>3, <1>4, <1>5 DEF Times
<1>7. ASSUME NEW q \in Ranks
      PROVE  MessageTimes(U, q)
  <2>1. /\ \A i \in 1 .. Len(timeChan[q]) : timeChan[q][i].step # s
        /\ \A i \in 1 .. Len(beamChan[q]) : beamChan[q][i].step # s
    BY <1>2, NothingOfNextStep
  <2>2. /\ \A i \in 1 .. Len(timeChan[q]) : timeChan[q][i].step \in Nat
        /\ \A i \in 1 .. Len(beamChan[q]) : beamChan[q][i].step \in Nat
    <3>1. /\ \A i \in 1 .. Len(timeChan[q]) : timeChan[q][i] \in TimeMessage
          /\ \A i \in 1 .. Len(beamChan[q]) : beamChan[q][i] \in BeamMessage
      BY <1>1, ElementOfSeq
    <3>2. /\ \A m \in TimeMessage : m.step \in Nat
          /\ \A m \in BeamMessage : m.step \in Nat
      BY DEF TimeMessage, BeamMessage
    <3> QED
      BY <3>1, <3>2
  <2>3. \A n \in Nat : n # s => U[n + 1] = T[n + 1]
    BY <1>5
  <2>4. MessageTimes(T, q)
    BY DEF TimesAre
  <2> QED
    BY <2>1, <2>2, <2>3, <2>4 DEF MessageTimes
<1>8. ASSUME NEW q \in Ranks, q # r
      PROVE  RankTimes(U, q)
  <2>1. PICK n \in Nat : n = step[q]
    BY <1>1
  <2>2. n # s /\ (n = s + 1 => ~HasTime(q))
    BY <1>2, <1>8, <2>1, NothingOfNextStep
  <2>3. U[n + 1] = T[n + 1]
    BY <1>5, <2>2
  <2>4. HasTime(q) => U[n] = T[n]
    BY <1>5, <2>2
  <2>5. Pushing(q) => HasTime(q)
    <3>1. CASE pc[q] = "Wait"
      BY <3>1 DEF Pushing, HasTime
    <3>2. CASE pc[q] # "Wait"
      BY <3>2 DEF Pushing, HasTime, Got
    <3> QED
      BY <3>1, <3>2
  <2>6. RankTimes(T, q)
    BY DEF TimesAre
  <2> QED
    BY <2>1, <2>3, <2>4, <2>5, <2>6 DEF RankTimes
<1>9. U[s] = T[s]
  BY <1>5
<1> QED
  BY <1>2, <1>5, <1>6, <1>7, <1>8, <1>9 DEF U

LEMMA SolveTimes ==
    ASSUME Several, Base, NEW r \in Ranks, Solve(r), NEW T \in Times, TimesAre(T)
    PROVE  \E U \in Times : TimesAre(U)'
<1>1. /\ TypeOK
      /\ pc \in [Ranks -> Early \union {"Wait", "Solve", "Notify", "Gone", "Abort"}]
      /\ beam \in [Ranks -> SUBSET Particle] /\ pushed \in [Ranks -> SUBSET Particle]
      /\ dt \in [Ranks -> Dt] /\ N > 1 /\ N \in Nat
      /\ box[r] \in Nat
  BY Constants, MarksTyped DEF Base, TypeOK, Several
<1>2. /\ pc[r] = "Solve" /\ pc'[r] \in {"Notify", "Abort"}
      /\ \A q \in Ranks : q # r => pc'[q] = pc[q]
      /\ UNCHANGED <<step, box, physicalTime, dtChan, timeChan, beamChan>>
      /\ beam' = [beam EXCEPT ![r] = @ \ InBox(@, box[r])]
  BY <1>1, SolveMoves
<1>3. PICK S : SolvedBox(r, S) /\ pushed' = [pushed EXCEPT ![r] = S]
  BY DEF Solve, SolvedBox
<1>4. dt' = dt \/ (box[r] = 0 /\ \E d : dt' = [dt EXCEPT ![r] = d])
  BY DEF Solve, IsLastBox
<1>5. PICK U \in Times :
          /\ U[step[r]] = T[step[r]] /\ U[step[r] + 1] = Append(T[step[r]], dt[r])
          /\ \A q \in Ranks : MessageTimes(U, q) /\ (q # r => RankTimes(U, q))
  <2>1. CASE box[r] = N - 1
    BY <1>2, <2>1, TimesExtended
  <2>2. CASE box[r] # N - 1
    <3>1. Pushing(r)
      BY <1>2, <2>2 DEF Pushing
    <3>2. T[step[r] + 1] = Append(T[step[r]], dt[r])
      BY <3>1 DEF TimesAre, RankTimes
    <3> QED
      BY <3>2 DEF TimesAre
  <2> QED
    BY <2>1, <2>2
<1>6. Got(r) /\ HasTime(r)
  BY <1>2 DEF Got, HasTime
<1>7. /\ physicalTime[r] = U[step[r]]
      /\ \A p \in beam[r] : p.time = U[step[r]]
  BY <1>5, <1>6 DEF TimesAre, RankTimes
<1>8. \A p \in S : p.time = U[step[r] + 1]
  BY <1>1, <1>3, <1>5, <1>7, SolvedBoxTyped
<1>9. RankTimes(U, r)'
  <2>1. Got(r)' /\ HasTime(r)'
    BY <1>2 DEF Got, HasTime
  <2>2. Pushing(r)' => dt'[r] = dt[r]
    BY <1>1, <1>2, <1>4 DEF Pushing
  <2>3. beam'[r] \subseteq beam[r] /\ pushed'[r] = S
    BY <1>1, <1>2, <1>3
  <2> QED
    BY <1>2, <1>5, <1>7, <1>8, <2>1, <2>2, <2>3 DEF RankTimes
<1>10. ASSUME NEW q \in Ranks, q # r
       PROVE  RankTimes(U, q)'
  <2>1. /\ pc'[q] = pc[q] /\ beam'[q] = beam[q] /\ pushed'[q] = pushed[q] /\ dt'[q] = dt[q]
    BY <1>1, <1>2, <1>3, <1>4, <1>10
  <2>2. (Pushing(q)' <=> Pushing(q)) /\ (HasTime(q)' <=> HasTime(q))
    BY <1>2, <2>1 DEF Pushing, HasTime, Got
  <2>3. RankTimes(U, q)
    BY <1>5, <1>10
  <2> QED
    BY <1>2, <2>1, <2>2, <2>3 DEF RankTimes
<1>11. ASSUME NEW q \in Ranks
       PROVE  MessageTimes(U, q)'
  BY <1>2, <1>5 DEF MessageTimes
<1> QED
  BY <1>9, <1>10, <1>11 DEF TimesAre

\* The messages after one is sent are those before and the new one.
LEMMA AppendTimes ==
    ASSUME TypeOK, NEW r \in Ranks, NEW T, MessageTimes(T, r),
           \/ timeChan'[r] = timeChan[r]
           \/ /\ timeChan'[r] = Append(timeChan[r], Message(r, TimeToSend(r)))
              /\ TimeToSend(r) = T[step[r] + 1],
           \/ beamChan'[r] = beamChan[r]
           \/ /\ beamChan'[r] = Append(beamChan[r], Message(r, pushed[r]))
              /\ \A p \in pushed[r] : p.time = T[step[r] + 1]
    PROVE  MessageTimes(T, r)'
<1>1. timeChan[r] \in Seq(TimeMessage) /\ beamChan[r] \in Seq(BeamMessage)
  BY DEF TypeOK
<1>2. \A d : Message(r, d).step = step[r] /\ Message(r, d).data = d
  BY DEF Message
<1>3. \A i \in 1 .. Len(timeChan'[r]) : timeChan'[r][i].data = T[timeChan'[r][i].step + 1]
  <2>1. CASE /\ timeChan'[r] = Append(timeChan[r], Message(r, TimeToSend(r)))
             /\ TimeToSend(r) = T[step[r] + 1]
    <3> DEFINE m == Message(r, TimeToSend(r))
               c == timeChan[r]
    <3>1. m.data = T[m.step + 1]
      BY <1>2, <2>1
    <3>2. c \in Seq(TimeMessage) /\ \A i \in 1 .. Len(c) : c[i].data = T[c[i].step + 1]
      BY <1>1 DEF MessageTimes
    <3>3. timeChan'[r] = Append(c, m)
      BY <2>1
    <3> HIDE DEF m, c
    <3>4. /\ Len(c) \in Nat /\ Len(Append(c, m)) = Len(c) + 1
          /\ \A i \in 1 .. Len(c) + 1 : Append(c, m)[i] = IF i = Len(c) + 1 THEN m ELSE c[i]
          /\ \A i \in 1 .. Len(c) + 1 : i # Len(c) + 1 => i \in 1 .. Len(c)
      BY <3>2
    <3> QED
      BY <3>1, <3>2, <3>3, <3>4
  <2> QED
    BY <2>1 DEF MessageTimes
<1>4. \A i \in 1 .. Len(beamChan'[r]) :
          \A p \in beamChan'[r][i].data : p.time = T[beamChan'[r][i].step + 1]
  <2>1. CASE /\ beamChan'[r] = Append(beamChan[r], Message(r, pushed[r]))
             /\ \A p \in pushed[r] : p.time = T[step[r] + 1]
    <3> DEFINE m == Message(r, pushed[r])
               c == beamChan[r]
    <3>1. \A p \in m.data : p.time = T[m.step + 1]
      BY <1>2, <2>1
    <3>2. /\ c \in Seq(BeamMessage)
          /\ \A i \in 1 .. Len(c) : \A p \in c[i].data : p.time = T[c[i].step + 1]
      BY <1>1 DEF MessageTimes
    <3>3. beamChan'[r] = Append(c, m)
      BY <2>1
    <3> HIDE DEF m, c
    <3>4. /\ Len(c) \in Nat /\ Len(Append(c, m)) = Len(c) + 1
          /\ \A i \in 1 .. Len(c) + 1 : Append(c, m)[i] = IF i = Len(c) + 1 THEN m ELSE c[i]
          /\ \A i \in 1 .. Len(c) + 1 : i # Len(c) + 1 => i \in 1 .. Len(c)
      BY <3>2
    <3> QED
      BY <3>1, <3>2, <3>3, <3>4
  <2> QED
    BY <2>1 DEF MessageTimes
<1> QED
  BY <1>3, <1>4 DEF MessageTimes

LEMMA NotifyTimes ==
    ASSUME Several, Base, NEW r \in Ranks, Notify(r), NEW T \in Times, TimesAre(T)
    PROVE  TimesAre(T)'
<1>1. /\ TypeOK
      /\ pc \in [Ranks -> Early \union {"Wait", "Solve", "Notify", "Gone", "Abort"}]
      /\ step \in [Ranks -> Nat] /\ box \in [Ranks -> Boxes]
      /\ beam \in [Ranks -> SUBSET Particle] /\ pushed \in [Ranks -> SUBSET Particle]
      /\ physicalTime \in [Ranks -> Time]
      /\ timeChan \in [Ranks -> Seq(TimeMessage)] /\ beamChan \in [Ranks -> Seq(BeamMessage)]
      /\ N > 1 /\ N \in Nat /\ step[r] \in Nat /\ box[r] \in 0 .. N - 1
  BY Constants DEF Base, TypeOK, Several
<1>2. /\ pc[r] = "Notify"
      /\ UNCHANGED <<dt, counted, dtChan, whole>>
      /\ beam' = [beam EXCEPT ![r] = BelowBox(@, box[r])]
      /\ pushed' = [pushed EXCEPT ![r] = {}]
  BY <1>1, NotifyMoves
<1>3. RankTimes(T, r) /\ Got(r) /\ HasTime(r)
  BY <1>2 DEF TimesAre, Got, HasTime
<1>4. /\ \A p \in pushed[r] : p.time = T[step[r] + 1]
      /\ physicalTime[r] = T[step[r]]
      /\ \A p \in beam[r] : p.time = T[step[r]]
      /\ box[r] # 0 => T[step[r] + 1] = Append(T[step[r]], dt[r])
  BY <1>2, <1>3 DEF RankTimes, Pushing
<1>5. box[r] = N - 1 => TimeToSend(r) = T[step[r] + 1]
  BY <1>1, <1>4 DEF TimeToSend
<1>6. /\ \/ timeChan' = timeChan
         \/ /\ timeChan' = [timeChan EXCEPT ![r] = Append(@, Message(r, TimeToSend(r)))]
            /\ TimeToSend(r) = T[step[r] + 1]
      /\ \/ beamChan' = beamChan
         \/ beamChan' = [beamChan EXCEPT ![r] = Append(@, Message(r, pushed[r]))]
  <2>1. CASE step[r] = MaxStep
    BY <1>1, <2>1, NotifyMoves
  <2>2. CASE step[r] # MaxStep
    BY <1>1, <1>5, <2>2, NotifyMoves, Zenon
  <2> QED
    BY <2>1, <2>2
<1>7. ASSUME NEW q \in Ranks
      PROVE  MessageTimes(T, q)'
  <2>1. MessageTimes(T, q)
    BY DEF TimesAre
  <2>2. CASE q # r
    <3>1. timeChan'[q] = timeChan[q] /\ beamChan'[q] = beamChan[q]
      BY <1>1, <1>6, <2>2
    <3> QED
      BY <2>1, <3>1 DEF MessageTimes
  <2>3. CASE q = r
    <3>1. /\ \/ timeChan'[r] = timeChan[r]
             \/ /\ timeChan'[r] = Append(timeChan[r], Message(r, TimeToSend(r)))
                /\ TimeToSend(r) = T[step[r] + 1]
          /\ \/ beamChan'[r] = beamChan[r]
             \/ beamChan'[r] = Append(beamChan[r], Message(r, pushed[r]))
      BY <1>1, <1>6
    <3> QED
      BY <1>1, <1>4, <2>1, <2>3, <3>1, AppendTimes
  <2> QED
    BY <2>2, <2>3
<1>8. ASSUME NEW q \in Ranks, q # r
      PROVE  RankTimes(T, q)'
  <2>1. beam'[q] = beam[q] /\ pushed'[q] = pushed[q]
    BY <1>1, <1>2, <1>8
  <2>2. /\ pc'[q] = pc[q] /\ step'[q] = step[q] /\ box'[q] = box[q]
        /\ physicalTime'[q] = physicalTime[q]
    <3>1. CASE box[r] = 0
      BY <1>1, <1>8, <3>1, NotifyMoves
    <3>2. CASE box[r] # 0
      BY <1>1, <1>8, <3>2, NotifyMoves
    <3> QED
      BY <3>1, <3>2
  <2>3. (Pushing(q)' <=> Pushing(q)) /\ (HasTime(q)' <=> HasTime(q))
    BY <2>2 DEF Pushing, HasTime, Got
  <2>4. RankTimes(T, q)
    BY DEF TimesAre
  <2> QED
    BY <1>2, <2>1, <2>2, <2>3, <2>4 DEF RankTimes
<1>9. RankTimes(T, r)'
  <2>1. pushed'[r] = {} /\ beam'[r] = BelowBox(beam[r], box[r])
    BY <1>1, <1>2
  <2>2. CASE box[r] # 0
    <3>1. /\ box'[r] = box[r] - 1 /\ pc'[r] = "Wait"
          /\ UNCHANGED <<step, physicalTime>>
      BY <1>1, <2>2, NotifyMoves
    <3>2. box'[r] # N - 1
      BY <1>1, <3>1
    <3>3. HasTime(r)'
      BY <3>1, <3>2 DEF HasTime
    <3>4. \A p \in beam'[r] : p.time = T[step[r]]
      BY <1>4, <2>1 DEF BelowBox
    <3> QED
      BY <1>2, <1>4, <2>1, <2>2, <3>1, <3>3, <3>4 DEF RankTimes
  <2>3. CASE box[r] = 0
    <3>1. /\ box'[r] = N - 1 /\ pc'[r] \in {"Wait", "Gone"}
          /\ step'[r] = step[r] + N
      BY <1>1, <2>3, NotifyMoves
    <3>2. step'[r] # 0
      BY <1>1, <3>1
    <3>3. ~HasTime(r)' /\ ~Pushing(r)'
      BY <3>1, <3>2 DEF HasTime, Got, Pushing
    <3>4. beam'[r] = {}
      BY <2>1, <2>3 DEF BelowBox
    <3> QED
      BY <2>1, <3>3, <3>4 DEF RankTimes
  <2> QED
    BY <2>2, <2>3
<1> QED
  BY <1>7, <1>8, <1>9 DEF TimesAre

LEMMA TimesStep ==
    ASSUME Several, Base, TimeInv, [Next]_vars
    PROVE  TimeInv'
<1>1. PICK T \in Times : TimesAre(T)
  BY DEF TimeInv
<1>2. CASE UNCHANGED vars
  <2>1. TimesAre(T)'
    BY <1>1, <1>2 DEF vars, TimesAre, RankTimes, MessageTimes, HasTime, Got, Pushing
  <2> QED
    BY <2>1 DEF TimeInv
<1>3. CASE \E r \in Ranks : Initialises(r) \/ Wait(r) \/ Solve(r) \/ Notify(r)
  <2>1. PICK r \in Ranks : Initialises(r) \/ Wait(r) \/ Solve(r) \/ Notify(r)
    BY <1>3
  <2>2. \E U \in Times : TimesAre(U)'
    BY <1>1, <2>1, InitialisesTimes, WaitTimes, SolveTimes, NotifyTimes
  <2> QED
    BY <2>2 DEF TimeInv
<1> QED
  BY <1>2, <1>3, NextCases

LEMMA BaseAlways == Several => (Spec => []Base)
<1> SUFFICES ASSUME Several
             PROVE  Spec => []Base
  OBVIOUS
<1>1. Init => Base
  BY InitBase
<1>2. Base /\ [Next]_vars => Base'
  BY BaseStep
<1> QED
  BY <1>1, <1>2, PTL DEF Spec

\* Whatever the rank that pushes it, the beam of a box is pushed with exactly
\* the dt's that add up to the time of the fields it is pushed in, and with
\* one dt per step: the time sent ahead with the first box (Notify) and the
\* dt's used for the other boxes (Solve) agree, although they travel apart.
THEOREM BeamIsAtTime == Several => (Spec => []BeamAtTime)
<1> SUFFICES ASSUME Several
             PROVE  Spec => []BeamAtTime
  OBVIOUS
<1>0. Spec => []Base
  BY BaseAlways
<1>1. Init => TimeInv
  BY InitTimes
<1>2. Base /\ TimeInv /\ [Next]_vars => TimeInv'
  BY TimesStep
<1>3. Base /\ TimeInv => BeamAtTime
  <2>1. SUFFICES ASSUME Base, TimeInv, NEW r \in Ranks, pc[r] = "Solve",
                        NEW p \in InBox(beam[r], box[r])
                 PROVE  p.time = physicalTime[r] /\ Len(p.time) = step[r]
    BY DEF BeamAtTime
  <2>2. PICK T \in Times : TimesAre(T)
    BY <2>1 DEF TimeInv
  <2>3. HasTime(r)
    BY <2>1 DEF HasTime, Got
  <2>4. p \in beam[r] /\ step[r] \in Nat
    BY <2>1 DEF InBox, Base, TypeOK
  <2>5. p.time = T[step[r]] /\ physicalTime[r] = T[step[r]]
    BY <2>2, <2>3, <2>4 DEF TimesAre, RankTimes
  <2> QED
    BY <2>4, <2>5 DEF Times
<1> QED
  BY <1>0, <1>1, <1>2, <1>3, PTL DEF Spec

-----------------------------------------------------------------------------
(* A dt is made of the whole beam of one step                              *)

LEMMA InitDt ==
    ASSUME Several, Init
    PROVE  DtInv
<1>1. N > 1 /\ N \in Nat /\ NumBoxes = N /\ HeadRank \in Ranks
  BY Constants DEF Several
<1>2. ASSUME NEW r \in Ranks
      PROVE  /\ pc[r] = "Calculate" /\ box[r] = N - 1 /\ dt[r] = NoDt /\ counted[r] = {}
             /\ dtChan[r] = <<>>
  BY <1>1, <1>2 DEF Init
<1>3. \A r \in Ranks : ~Begun(r)
  BY <1>2 DEF Begun
<1>4. \A s \in Steps : whole[s] = {}
  BY DEF Init
<1>5. TermsOf(beam[HeadRank]) = ParticleId \X {0}
  <2>1. PICK place \in [ParticleId -> Boxes] :
            beam[HeadRank] = {[id |-> i, box |-> place[i], time |-> <<>>] : i \in ParticleId}
    BY <1>1 DEF Init
  <2>2. /\ \A p \in beam[HeadRank] : p.id \in ParticleId /\ p.time = <<>>
        /\ \A i \in ParticleId : \E p \in beam[HeadRank] : p.id = i
    <3>1. ASSUME NEW p \in beam[HeadRank]
          PROVE  p.id \in ParticleId /\ p.time = <<>>
      <4>1. PICK i \in ParticleId : p = [id |-> i, box |-> place[i], time |-> <<>>]
        BY <2>1
      <4> QED
        BY <4>1
    <3>2. ASSUME NEW i \in ParticleId
          PROVE  \E p \in beam[HeadRank] : p.id = i
      <4>1. [id |-> i, box |-> place[i], time |-> <<>>] \in beam[HeadRank]
        BY <2>1
      <4> QED
        BY <4>1
    <3> QED
      BY <3>1, <3>2
  <2>3. Len(<<>>) = 0
    OBVIOUS
  <2>4. \A p \in beam[HeadRank] : Len(p.time) = 0
    BY <2>2, <2>3
  <2> QED
    BY <2>2, <2>4 DEF TermsOf
<1>6. NoDt.step = -1
  BY DEF NoDt
<1> QED
  BY <1>1, <1>2, <1>3, <1>4, <1>5, <1>6 DEF DtInv, RankDt, HeadReady

LEMMA InitialisesDtInv ==
    ASSUME Several, Base, DtInv, NEW r \in Ranks, Initialises(r)
    PROVE  DtInv'
<1>1. /\ TypeOK /\ ControlOK
      /\ pc \in [Ranks -> Early \union {"Wait", "Solve", "Notify", "Gone", "Abort"}]
      /\ dt \in [Ranks -> Dt] /\ counted \in [Ranks -> SUBSET (ParticleId \X Nat)]
      /\ dtChan \in [Ranks -> Seq(Dt)]
      /\ N > 1 /\ N \in Nat
  BY Constants DEF Base, TypeOK, Several
<1>2. /\ pc[r] \in Early /\ pc'[r] \in Early \union {"Wait", "Abort"}
      /\ pc'[r] = "Abort" => r = HeadRank
      /\ \A q \in Ranks : q # r => pc'[q] = pc[q]
      /\ UNCHANGED <<step, box, beam, pushed, physicalTime, timeChan, beamChan, whole>>
  BY <1>1, InitialisesMoves
<1>3. /\ \A q \in Ranks : RankDt(q) /\ \A i \in 1 .. Len(dtChan[q]) : DtOnWay(dtChan[q][i])
      /\ HeadReady
  BY DEF DtInv
<1>4. box[r] = N - 1 /\ step[r] = N - 1 - r /\ ~Begun(r)
  BY <1>1, <1>2 DEF ControlOK, Begun, Early
<1>5. WholeBeam(-1) = ParticleId \X {0} /\ WholeBeam(-1)' = ParticleId \X {0}
  BY DEF WholeBeam
<1>6. DtOnWay(dt[r])
  BY <1>2, <1>3, <1>5 DEF RankDt, DtOnWay
\* Enough for every handler:
<1>7. ASSUME DtOnWay(dt'[r]),
             pc'[r] = "Abort" => counted'[r] = {} /\ whole[step[r]] = {},
             \A q \in Ranks : \A i \in 1 .. Len(dtChan'[q]) : DtOnWay(dtChan'[q][i]),
             pc'[r] # "Calculate"
      PROVE  DtInv'
  <2>1. ASSUME NEW q \in Ranks, q # r
        PROVE  RankDt(q)'
    <3>1. pc'[q] = pc[q] /\ dt'[q] = dt[q] /\ counted'[q] = counted[q]
      BY <1>1, <1>2, <2>1, InitialisesDt
    <3>2. Begun(q)' <=> Begun(q)
      BY <1>2, <3>1 DEF Begun
    <3>3. OfPast(q, dt[q].step)' <=> OfPast(q, dt[q].step)
      BY <1>2, <3>1 DEF OfPast
    <3>4. WholeBeam(dt[q].step)' = WholeBeam(dt[q].step)
      BY <1>2, <3>1 DEF WholeBeam
    <3>5. RankDt(q)
      BY <1>3
    <3> QED
      BY <1>2, <3>1, <3>2, <3>3, <3>4, <3>5 DEF RankDt
  <2>2. RankDt(r)'
    <3>1. Begun(r)' <=> pc'[r] = "Abort"
      BY <1>2, <1>4 DEF Begun, Early
    <3>2. Begun(r)' => counted'[r] = whole[step[r]] \X {step[r] + 1}
      BY <1>7, <3>1
    <3>3. \A s \in Steps : Dealt(r, s) /\ (s > step[r] \/ s = step[r]) => whole[s] = {}
      BY <1>3, <1>4 DEF RankDt
    <3>4. dt'[r].step = -1 /\ (dt'[r] # NoDt => dt'[r].of = ParticleId \X {0})
      BY <1>7 DEF DtOnWay
    <3>5. dt'[r] # NoDt => dt'[r].of = WholeBeam(dt[r].step)'
      BY <3>4 DEF WholeBeam
    <3> QED
      BY <1>2, <3>2, <3>3, <3>4, <3>5 DEF RankDt
  <2>4. HeadReady'
    <3>1. CASE r = HeadRank
      BY <1>7, <3>1 DEF HeadReady
    <3>2. CASE r # HeadRank
      <4>1. HeadRank \in Ranks
        BY Constants
      <4>2. pc'[HeadRank] = pc[HeadRank] /\ counted'[HeadRank] = counted[HeadRank]
        BY <1>1, <1>2, <3>2, <4>1, InitialisesDt
      <4> QED
        BY <1>2, <1>3, <4>2 DEF HeadReady
    <3> QED
      BY <3>1, <3>2
  <2>5. \A q \in Ranks : RankDt(q)'
    BY <2>1, <2>2
  <2> QED
    BY <1>7, <2>4, <2>5 DEF DtInv
<1>8. CASE CalculateInitial(r)
  <2>1. pc[r] = "Calculate" /\ UNCHANGED dtChan
    BY <1>8 DEF CalculateInitial
  <2>2. CASE r # HeadRank
    <3>1. dt' = dt /\ pc'[r] = "WaitTimeStep"
      BY <1>1, <1>8, <2>2 DEF CalculateInitial
    <3> QED
      BY <1>3, <1>6, <1>7, <2>1, <3>1
  <2>3. CASE r = HeadRank
    <3> DEFINE sums == Sums(r, 0, beam[r])
    <3>1. sums = ParticleId \X {0}
      <4>1. counted[r] = {} /\ TermsOf(beam[r]) = ParticleId \X {0}
        BY <1>3, <2>1, <2>3 DEF HeadReady
      <4> QED
        BY <1>1, <4>1 DEF Sums, IsFirstBox
    <3>2. CASE sums = {}
      <4>1. dt' = dt /\ counted'[r] = {} /\ pc'[r] = "Abort"
        BY <1>1, <1>8, <2>3, <3>2 DEF CalculateInitial
      <4>2. step[r] = 0 /\ 0 \in Steps /\ Dealt(r, 0)
        <5>1. step[r] = 0
          BY <1>1, <1>4, <2>3 DEF HeadRank
        <5>2. Dealt(r, step[r])
          BY DEF Base, StepsDealt
        <5> QED
          BY <5>1, <5>2, Constants DEF Steps
      <4>3. whole[step[r]] = {}
        BY <1>3, <1>4, <4>2 DEF RankDt
      <4> QED
        BY <1>3, <1>6, <1>7, <2>1, <4>1, <4>3
    <3>3. CASE sums # {}
      <4>1. pc'[r] = "WaitTimeStep" /\ \E d \in NewDts(r, -1, sums) : dt'[r] = d
        BY <1>1, <1>8, <2>3, <3>3 DEF CalculateInitial
      <4>2. dt'[r] = [step |-> -1, of |-> sums] \/ dt'[r] = dt[r]
        BY <4>1 DEF NewDts
      <4>3. DtOnWay([step |-> -1, of |-> sums])
        BY <3>1 DEF DtOnWay
      <4>4. DtOnWay(dt'[r])
        BY <1>6, <4>2, <4>3
      <4> QED
        BY <1>3, <1>7, <2>1, <4>1, <4>4
    <3> QED
      BY <3>2, <3>3
  <2> QED
    BY <2>2, <2>3
<1>9. CASE WaitTimeStep(r)
  <2>1. pc'[r] = "NotifyTimeStep"
    BY <1>1, <1>9 DEF WaitTimeStep
  <2>2. CASE HasInitial(r) \/ ~UseMPI
    <3>1. UNCHANGED <<dt, dtChan>>
      BY <1>9, <2>2 DEF WaitTimeStep
    <3> QED
      BY <1>3, <1>6, <1>7, <2>1, <3>1
  <2>3. CASE ~(HasInitial(r) \/ ~UseMPI)
    <3>1. PICK u \in Ranks : u = Upstream(r)
      BY Constants
    <3>2. /\ dtChan[u] # <<>>
          /\ dt' = [dt EXCEPT ![r] = Head(dtChan[u])]
          /\ dtChan' = [dtChan EXCEPT ![u] = Tail(@)]
      BY <1>9, <2>3, <3>1 DEF WaitTimeStep
    <3>3. /\ dtChan[u] \in Seq(Dt) /\ Head(dtChan[u]) = dtChan[u][1]
          /\ Len(dtChan[u]) \in Nat /\ 1 \in 1 .. Len(dtChan[u])
      BY <1>1, <3>2, EmptySeq, LenProperties
    <3>4. DtOnWay(dt'[r])
      BY <1>1, <1>3, <3>2, <3>3
    <3>5. ASSUME NEW q \in Ranks, NEW i \in 1 .. Len(dtChan'[q])
          PROVE  DtOnWay(dtChan'[q][i])
      <4>1. CASE q = u
        <5>1. /\ dtChan'[q] = Tail(dtChan[u])
              /\ Len(Tail(dtChan[u])) = Len(dtChan[u]) - 1
              /\ \A j \in 1 .. Len(Tail(dtChan[u])) : Tail(dtChan[u])[j] = dtChan[u][j + 1]
          BY <1>1, <3>2, <3>3, <4>1, HeadTailProperties
        <5>2. i + 1 \in 1 .. Len(dtChan[u]) /\ dtChan'[q][i] = dtChan[u][i + 1]
          BY <3>3, <3>5, <5>1
        <5> QED
          BY <1>3, <5>2
      <4>2. CASE q # u
        BY <1>1, <1>3, <3>2, <3>5, <4>2
      <4> QED
        BY <4>1, <4>2
    <3> QED
      BY <1>7, <2>1, <3>4, <3>5
  <2> QED
    BY <2>2, <2>3
<1>10. CASE NotifyTimeStep(r)
  <2>1. pc'[r] = "Sent" /\ dt' = dt
    BY <1>1, <1>10 DEF NotifyTimeStep
  <2>2. dtChan' = dtChan \/ dtChan' = [dtChan EXCEPT ![r] = Append(@, dt[r])]
    BY <1>10 DEF NotifyTimeStep
  <2>3. ASSUME NEW q \in Ranks, NEW i \in 1 .. Len(dtChan'[q])
        PROVE  DtOnWay(dtChan'[q][i])
    <3>1. CASE dtChan'[q] = dtChan[q]
      BY <1>3, <2>3, <3>1
    <3>2. CASE q = r /\ dtChan'[q] = Append(dtChan[r], dt[r])
      <4>1. /\ dtChan[r] \in Seq(Dt) /\ Len(dtChan[r]) \in Nat
            /\ Len(Append(dtChan[r], dt[r])) = Len(dtChan[r]) + 1
            /\ \A j \in 1 .. Len(dtChan[r]) + 1 :
                  Append(dtChan[r], dt[r])[j] =
                      IF j = Len(dtChan[r]) + 1 THEN dt[r] ELSE dtChan[r][j]
        BY <1>1
      <4>2. i = Len(dtChan[r]) + 1 \/ i \in 1 .. Len(dtChan[r])
        BY <2>3, <3>2, <4>1
      <4> QED
        BY <1>3, <1>6, <2>3, <3>2, <4>1, <4>2
    <3> QED
      BY <1>1, <2>2, <3>1, <3>2
  <2> QED
    BY <1>6, <1>7, <2>1, <2>3
<1>11. CASE EnterEvolve(r)
  <2>1. pc'[r] = "Wait" /\ dt' = dt /\ dtChan' = dtChan
    BY <1>1, <1>11 DEF EnterEvolve
  <2> QED
    BY <1>3, <1>6, <1>7, <2>1
<1> QED
  BY <1>8, <1>9, <1>10, <1>11 DEF Initialises

LEMMA WaitDtInv ==
    ASSUME Several, Base, DtInv, NEW r \in Ranks, Wait(r)
    PROVE  DtInv'
<1>1. /\ TypeOK
      /\ pc \in [Ranks -> Early \union {"Wait", "Solve", "Notify", "Gone", "Abort"}]
  BY DEF Base, TypeOK
<1>2. /\ pc[r] = "Wait" /\ pc' = [pc EXCEPT ![r] = "Solve"]
      /\ UNCHANGED <<step, box, dt, counted, pushed, dtChan, whole>>
  BY <1>1, WaitMoves
<1>3. /\ \A q \in Ranks : RankDt(q) /\ \A i \in 1 .. Len(dtChan[q]) : DtOnWay(dtChan[q][i])
      /\ HeadReady
  BY DEF DtInv
<1>4. ASSUME NEW q \in Ranks
      PROVE  RankDt(q)'
  <2>1. /\ Begun(q)' <=> Begun(q)
        /\ pc'[q] \in Early => pc[q] \in Early
        /\ OfPast(q, dt[q].step)' <=> OfPast(q, dt[q].step)
    BY <1>1, <1>2 DEF Begun, Early, OfPast
  <2>2. WholeBeam(dt[q].step)' = WholeBeam(dt[q].step)
    BY <1>2 DEF WholeBeam
  <2>3. RankDt(q)
    BY <1>3
  <2> QED
    BY <1>2, <2>1, <2>2, <2>3 DEF RankDt
<1>5. \A q \in Ranks : \A i \in 1 .. Len(dtChan'[q]) : DtOnWay(dtChan'[q][i])
  BY <1>2, <1>3
<1>6. HeadReady'
  <2>1. HeadRank \in Ranks
    BY Constants
  <2>2. CASE pc'[HeadRank] = "Calculate"
    <3>1. pc[HeadRank] = "Calculate" /\ HeadRank # r
      BY <1>1, <1>2, <2>1, <2>2
    <3>2. beam'[HeadRank] = beam[HeadRank]
      <4>1. beam \in [Ranks -> SUBSET Particle]
        BY <1>1 DEF TypeOK
      <4> QED
        BY <1>1, <2>1, <3>1, <4>1, WaitMoves
    <3> QED
      BY <1>2, <1>3, <3>1, <3>2 DEF HeadReady, TermsOf
  <2> QED
    BY <2>2 DEF HeadReady
<1> QED
  BY <1>4, <1>5, <1>6 DEF DtInv

\* The sums after a box hold every particle pushed so far in the step once.
LEMMA SolveCounts ==
    ASSUME Several, Base, TimeInv, DtInv, NEW r \in Ranks, pc[r] = "Solve",
           NEW S, SolvedBox(r, S),
           NEW ids, ids = {p.id : p \in InBox(beam[r], box[r])}
    PROVE  Sums(r, box[r], S) = (whole[step[r]] \union ids) \X {step[r] + 1}
<1>1. /\ TypeOK /\ counted \in [Ranks -> SUBSET (ParticleId \X Nat)]
      /\ step[r] \in Nat /\ whole \in [Steps -> SUBSET ParticleId]
  BY DEF Base, TypeOK
<1>2. PICK T \in Times : TimesAre(T)
  BY DEF TimeInv
<1>3. \A q \in beam[r] : q.time = T[step[r]]
  <2>1. HasTime(r)
    BY DEF HasTime, Got
  <2> QED
    BY <1>2, <2>1 DEF TimesAre, RankTimes
<1>4. T[step[r]] \in Seq(Dt) /\ Len(T[step[r]]) = step[r] /\ dt[r] \in Dt
  BY <1>1 DEF Times, Time, TypeOK
<1>5. Len(Append(T[step[r]], dt[r])) = step[r] + 1
  BY <1>4
<1>6. /\ \A p \in S : Len(p.time) = step[r] + 1
      /\ {p.id : p \in S} = ids
  <2>1. /\ \A p \in S : \E q \in beam[r] :
              q.box = box[r] /\ p.id = q.id /\ p.time = Append(q.time, dt[r])
        /\ {p.id : p \in S} = {p.id : p \in InBox(beam[r], box[r])}
    BY <1>1, SolvedBoxTyped, Zenon
  <2>2. \A p \in S : p.time = Append(T[step[r]], dt[r])
    BY <1>3, <2>1
  <2> QED
    BY <1>5, <2>1, <2>2
<1>7. TermsOf(S) = ids \X {step[r] + 1}
  <2>1. TermsOf(S) = {<<p.id, step[r] + 1>> : p \in S}
    BY <1>6 DEF TermsOf
  <2>2. /\ \A p \in S : p.id \in ids
        /\ \A i \in ids : \E p \in S : p.id = i
    BY <1>6
  <2> QED
    BY <2>1, <2>2
<1>8. (IF IsFirstBox(box[r]) THEN {} ELSE counted[r]) = whole[step[r]] \X {step[r] + 1}
  <2>1. RankDt(r)
    BY DEF DtInv
  <2>2. CASE box[r] = N - 1
    <3>1. ~Begun(r)
      BY <2>2 DEF Begun
    <3>2. Dealt(r, step[r])
      BY DEF Base, StepsDealt
    <3>3. step[r] \in Steps
      <4>1. ~ (step[r] > MaxStep)
        BY DEF Base, ControlOK
      <4> QED
        BY <1>1, <4>1, Constants DEF Steps
    <3>4. whole[step[r]] = {}
      BY <2>1, <3>1, <3>2, <3>3 DEF RankDt
    <3> QED
      BY <2>2, <3>4 DEF IsFirstBox
  <2>3. CASE box[r] # N - 1
    <3>1. Begun(r)
      BY <2>3 DEF Begun
    <3> QED
      BY <2>1, <2>3, <3>1 DEF RankDt, IsFirstBox
  <2> QED
    BY <2>2, <2>3
<1>9. Sums(r, box[r], S) = (whole[step[r]] \X {step[r] + 1}) \union (ids \X {step[r] + 1})
  BY <1>7, <1>8 DEF Sums
<1> QED
  BY <1>9

LEMMA SolveDtInv ==
    ASSUME Several, Base, TimeInv, DtInv, NEW r \in Ranks, Solve(r)
    PROVE  DtInv'
<1>1. /\ TypeOK /\ StepsDealt
      /\ pc \in [Ranks -> Early \union {"Wait", "Solve", "Notify", "Gone", "Abort"}]
      /\ dt \in [Ranks -> Dt] /\ counted \in [Ranks -> SUBSET (ParticleId \X Nat)]
      /\ whole \in [Steps -> SUBSET ParticleId]
      /\ \A q \in Ranks : step[q] \in Nat
      /\ beam \in [Ranks -> SUBSET Particle]
      /\ N > 1 /\ N \in Nat /\ MaxStep \in Nat
  BY Constants DEF Base, TypeOK, Several
<1>2. /\ pc[r] = "Solve" /\ pc'[r] \in {"Notify", "Abort"}
      /\ \A q \in Ranks : q # r => pc'[q] = pc[q]
      /\ UNCHANGED <<step, box, physicalTime, dtChan, timeChan, beamChan>>
      /\ beam' = [beam EXCEPT ![r] = @ \ InBox(@, box[r])]
  BY <1>1, SolveMoves
<1>3. /\ \A q \in Ranks : RankDt(q) /\ \A i \in 1 .. Len(dtChan[q]) : DtOnWay(dtChan[q][i])
      /\ HeadReady
  BY DEF DtInv
<1>4. PICK s \in Steps : s = step[r] /\ s \in Nat /\ Dealt(r, s)
  <2>1. ~ (step[r] > MaxStep)
    BY <1>2 DEF Base, ControlOK
  <2> QED
    BY <1>1, <2>1 DEF Steps, StepsDealt
<1>5. PICK S, ids :
          /\ SolvedBox(r, S)
          /\ ids = {p.id : p \in InBox(beam[r], box[r])}
          /\ whole' = [whole EXCEPT ![s] = @ \union ids]
          /\ counted' = [counted EXCEPT ![r] = Sums(r, box[r], S)]
          /\ \/ dt' = dt
             \/ /\ box[r] = 0 /\ pc' = [pc EXCEPT ![r] = "Notify"]
                /\ \E d \in NewDts(r, s, Sums(r, box[r], S)) : dt' = [dt EXCEPT ![r] = d]
  BY <1>4 DEF Solve, SolvedBox, IsLastBox
<1>6. /\ whole'[s] = whole[s] \union ids
      /\ \A t \in Steps : t # s => whole'[t] = whole[t]
      /\ counted'[r] = Sums(r, box[r], S)
      /\ \A q \in Ranks : q # r => counted'[q] = counted[q] /\ dt'[q] = dt[q]
  BY <1>1, <1>4, <1>5
<1>7. Sums(r, box[r], S) = whole'[s] \X {s + 1}
  <2>1. Sums(r, box[r], S) = (whole[step[r]] \union ids) \X {step[r] + 1}
    BY <1>2, <1>5, SolveCounts, Zenon
  <2> QED
    BY <1>4, <1>6, <2>1
<1>8. ASSUME NEW q \in Ranks
      PROVE  \A t \in Steps :
                Dealt(q, t) /\ (t > step'[q] \/ (t = step'[q] /\ ~Begun(q)')) => whole'[t] = {}
  <2>1. SUFFICES ASSUME NEW t \in Steps, Dealt(q, t),
                        t > step[q] \/ (t = step[q] /\ ~Begun(q)')
                 PROVE  whole'[t] = {}
    BY <1>2
  <2>2. RankDt(q)
    BY <1>3
  <2>3. CASE q = r
    <3>1. Begun(r)'
      BY <1>2 DEF Begun
    <3>2. t > step[q] /\ t # s
      BY <1>1, <1>4, <2>1, <2>3, <3>1 DEF Steps
    <3> QED
      BY <1>6, <2>1, <2>2, <3>2 DEF RankDt
  <2>4. CASE q # r
    <3>1. Begun(q)' <=> Begun(q)
      BY <1>2, <2>4 DEF Begun
    <3>2. t # s
      BY <1>4, <2>1, <2>4, DealtOnce
    <3> QED
      BY <1>6, <2>1, <2>2, <3>1, <3>2 DEF RankDt
  <2> QED
    BY <2>3, <2>4
\* The sums of another step, and the dt's made of them, stay.
<1>9. ASSUME NEW q \in Ranks, dt[q] # NoDt, NEW t, t = dt[q].step
      PROVE  dt[q].of = WholeBeam(t)'
  <2>1. RankDt(q)
    BY <1>3
  <2>2. dt[q].of = WholeBeam(t) /\ (t = -1 \/ OfPast(q, t))
    BY <1>9, <2>1 DEF RankDt
  <2>3. CASE t = -1
    BY <2>2, <2>3 DEF WholeBeam
  <2>4. CASE t # -1
    <3>1. OfPast(q, t)
      BY <2>2, <2>4
    <3>2. t # s
      <4>1. CASE q = r
        <5>1. t < s
          BY <1>2, <1>4, <3>1, <4>1 DEF OfPast
        <5> QED
          BY <1>4, <3>1, <5>1 DEF OfPast, Steps
      <4>2. CASE q # r
        BY <1>4, <3>1, <4>2, DealtOnce DEF OfPast
      <4> QED
        BY <4>1, <4>2
    <3>3. whole'[t] = whole[t]
      BY <1>6, <3>1, <3>2 DEF OfPast
    <3>4. WholeBeam(t)' = WholeBeam(t)
      BY <2>4, <3>3 DEF WholeBeam
    <3> QED
      BY <2>2, <3>4
  <2> QED
    BY <2>3, <2>4
<1>10. ASSUME NEW q \in Ranks, q # r
       PROVE  RankDt(q)'
  <2>1. RankDt(q)
    BY <1>3
  <2>2. /\ Begun(q)' <=> Begun(q)
        /\ pc'[q] = pc[q]
        /\ OfPast(q, dt[q].step)' <=> OfPast(q, dt[q].step)
        /\ dt'[q] = dt[q] /\ counted'[q] = counted[q]
    BY <1>2, <1>6, <1>10 DEF Begun, OfPast
  <2>3. Begun(q)' => counted'[q] = whole'[step[q]] \X {step[q] + 1}
    <3>1. step[q] # s
      <4>1. Dealt(q, step[q])
        BY <1>1 DEF StepsDealt
      <4> QED
        BY <1>4, <1>10, <4>1, DealtOnce
    <3>2. Begun(q) => step[q] \in Steps
      <4>1. Begun(q) => pc[q] # "Gone"
        BY DEF Begun, Base, ControlOK
      <4>2. pc[q] # "Gone" => ~ (step[q] > MaxStep)
        BY DEF Base, ControlOK
      <4> QED
        BY <1>1, <4>1, <4>2 DEF Steps
    <3> QED
      BY <1>6, <2>1, <2>2, <3>1, <3>2 DEF RankDt
  <2>4. dt'[q] # NoDt => dt'[q].of = WholeBeam(dt[q].step)'
    <3>1. PICK t : t = dt[q].step
      OBVIOUS
    <3>2. dt[q] # NoDt => dt[q].of = WholeBeam(t)'
      BY <1>9, <3>1
    <3>3. dt'[q].step = t
      BY <2>2, <3>1
    <3> QED
      BY <2>2, <3>2, <3>3
  <2> QED
    BY <1>2, <1>8, <2>1, <2>2, <2>3, <2>4 DEF RankDt
<1>11. RankDt(r)'
  <2>1. counted'[r] = whole'[step[r]] \X {step[r] + 1}
    BY <1>4, <1>6, <1>7
  <2>2. pc'[r] \notin Early
    BY <1>2 DEF Early
  <2>3. CASE dt'[r] = dt[r]
    <3>1. RankDt(r)
      BY <1>3
    <3>2. dt[r] # NoDt => dt[r].step = -1 \/ OfPast(r, dt[r].step)'
      BY <1>2, <2>3, <3>1 DEF RankDt, OfPast
    <3>3. dt'[r] # NoDt => dt'[r].of = WholeBeam(dt[r].step)'
      <4>1. PICK t : t = dt[r].step
        OBVIOUS
      <4>2. dt[r] # NoDt => dt[r].of = WholeBeam(t)'
        BY <1>9, <4>1
      <4>3. dt'[r].step = t
        BY <2>3, <4>1
      <4> QED
        BY <2>3, <4>2, <4>3
    <3> QED
      BY <1>2, <1>8, <2>1, <2>2, <2>3, <3>2, <3>3 DEF RankDt
  <2>4. CASE dt'[r] # dt[r]
    <3>1. box[r] = 0 /\ pc'[r] = "Notify"
      BY <1>1, <1>5, <2>4
    <3>2. dt'[r] = [step |-> s, of |-> Sums(r, box[r], S)]
      <4>1. \E d \in NewDts(r, s, Sums(r, box[r], S)) : dt'[r] = d
        BY <1>1, <1>5, <2>4
      <4> QED
        BY <2>4, <4>1 DEF NewDts
    <3>3. dt'[r].step = s /\ dt'[r].of = whole'[s] \X {s + 1}
      BY <1>7, <3>2
    <3>4. s # -1
      BY <1>4
    <3>5. dt'[r].of = WholeBeam(dt[r].step)'
      BY <3>3, <3>4 DEF WholeBeam
    <3>6. OfPast(r, dt[r].step)'
      BY <1>2, <1>4, <3>1, <3>3 DEF OfPast
    <3> QED
      BY <1>2, <1>8, <2>1, <2>2, <3>5, <3>6 DEF RankDt
  <2> QED
    BY <2>3, <2>4
<1>12. \A q \in Ranks : \A i \in 1 .. Len(dtChan'[q]) : DtOnWay(dtChan'[q][i])
  BY <1>2, <1>3
<1>13. HeadReady'
  <2>1. HeadRank \in Ranks
    BY Constants
  <2>2. CASE pc'[HeadRank] = "Calculate"
    <3>1. pc[HeadRank] = "Calculate" /\ HeadRank # r
      BY <1>1, <1>2, <2>1, <2>2
    <3>2. beam'[HeadRank] = beam[HeadRank] /\ counted'[HeadRank] = counted[HeadRank]
      BY <1>1, <1>2, <1>6, <2>1, <3>1
    <3> QED
      BY <1>3, <3>1, <3>2 DEF HeadReady, TermsOf
  <2> QED
    BY <2>2 DEF HeadReady
<1>14. \A q \in Ranks : RankDt(q)'
  BY <1>10, <1>11
<1> QED
  BY <1>12, <1>13, <1>14 DEF DtInv

LEMMA NotifyDtInv ==
    ASSUME Several, Base, DtInv, NEW r \in Ranks, Notify(r)
    PROVE  DtInv'
<1>1. /\ TypeOK
      /\ pc \in [Ranks -> Early \union {"Wait", "Solve", "Notify", "Gone", "Abort"}]
      /\ step \in [Ranks -> Nat] /\ box \in [Ranks -> Boxes]
      /\ beam \in [Ranks -> SUBSET Particle]
      /\ N > 1 /\ N \in Nat /\ step[r] \in Nat /\ box[r] \in 0 .. N - 1
  BY Constants DEF Base, TypeOK, Several
<1>2. /\ pc[r] = "Notify"
      /\ UNCHANGED <<dt, counted, dtChan, whole>>
      /\ beam' = [beam EXCEPT ![r] = BelowBox(@, box[r])]
  BY <1>1, NotifyMoves
<1>3. /\ \A q \in Ranks : RankDt(q) /\ \A i \in 1 .. Len(dtChan[q]) : DtOnWay(dtChan[q][i])
      /\ HeadReady
  BY DEF DtInv
<1>4. ASSUME NEW q \in Ranks, q # r
      PROVE  pc'[q] = pc[q] /\ step'[q] = step[q] /\ box'[q] = box[q]
  <2>1. CASE box[r] = 0
    BY <1>1, <1>4, <2>1, NotifyMoves
  <2>2. CASE box[r] # 0
    BY <1>1, <1>4, <2>2, NotifyMoves
  <2> QED
    BY <2>1, <2>2
<1>5. ASSUME NEW q \in Ranks
      PROVE  WholeBeam(dt[q].step)' = WholeBeam(dt[q].step)
  BY <1>2 DEF WholeBeam
<1>6. ASSUME NEW q \in Ranks, q # r
      PROVE  RankDt(q)'
  <2>1. /\ Begun(q)' <=> Begun(q)
        /\ OfPast(q, dt[q].step)' <=> OfPast(q, dt[q].step)
    BY <1>2, <1>4, <1>6 DEF Begun, OfPast
  <2>2. RankDt(q)
    BY <1>3
  <2> QED
    BY <1>2, <1>4, <1>5, <1>6, <2>1, <2>2 DEF RankDt
<1>7. RankDt(r)'
  <2>1. RankDt(r) /\ Begun(r)
    BY <1>2, <1>3 DEF Begun
  <2>2. dt'[r] # NoDt => dt'[r].of = WholeBeam(dt[r].step)'
    BY <1>2, <1>5, <2>1 DEF RankDt
  <2>3. CASE box[r] # 0
    <3>1. step'[r] = step[r] /\ box'[r] = box[r] - 1 /\ pc'[r] = "Wait"
      BY <1>1, <2>3, NotifyMoves
    <3>2. Begun(r)'
      BY <1>1, <3>1 DEF Begun
    <3>3. OfPast(r, dt[r].step) => OfPast(r, dt[r].step)'
      BY <1>2, <2>3, <3>1 DEF OfPast
    <3> QED
      BY <1>2, <2>1, <2>2, <3>1, <3>2, <3>3 DEF RankDt, Early
  <2>4. CASE box[r] = 0
    <3>1. step'[r] = step[r] + N /\ box'[r] = N - 1 /\ pc'[r] \in {"Wait", "Gone"}
      BY <1>1, <2>4, NotifyMoves
    <3>2. ~Begun(r)'
      BY <3>1 DEF Begun
    <3>3. OfPast(r, dt[r].step) => OfPast(r, dt[r].step)'
      <4>1. ASSUME NEW t, OfPast(r, t)
            PROVE  t \in Nat /\ t < step'[r]
        <5>1. t \in Nat /\ t <= step[r]
          BY <1>1, <4>1, Constants DEF OfPast, Steps
        <5> QED
          BY <1>1, <3>1, <5>1
      <4> QED
        BY <1>2, <4>1 DEF OfPast
    <3>4. \A t \in Steps : t > step'[r] \/ t = step'[r] => t > step[r]
      BY <1>1, <3>1, Constants DEF Steps
    <3> QED
      BY <1>2, <2>1, <2>2, <3>1, <3>2, <3>3, <3>4 DEF RankDt, Early
  <2> QED
    BY <2>3, <2>4
<1>8. \A q \in Ranks : \A i \in 1 .. Len(dtChan'[q]) : DtOnWay(dtChan'[q][i])
  BY <1>2, <1>3
<1>9. HeadReady'
  <2>1. HeadRank \in Ranks
    BY Constants
  <2>2. pc'[r] # "Calculate"
    <3>1. CASE box[r] = 0
      BY <1>1, <3>1, NotifyMoves
    <3>2. CASE box[r] # 0
      BY <1>1, <3>2, NotifyMoves
    <3> QED
      BY <3>1, <3>2
  <2>3. HeadRank # r => /\ pc'[HeadRank] = pc[HeadRank]
                        /\ beam'[HeadRank] = beam[HeadRank]
    BY <1>1, <1>2, <1>4, <2>1
  <2> QED
    BY <1>2, <1>3, <2>2, <2>3 DEF HeadReady, TermsOf
<1>10. \A q \in Ranks : RankDt(q)'
  BY <1>6, <1>7
<1> QED
  BY <1>8, <1>9, <1>10 DEF DtInv

LEMMA DtStep ==
    ASSUME Several, Base, TimeInv, DtInv, [Next]_vars
    PROVE  DtInv'
<1>1. CASE UNCHANGED vars
  BY <1>1 DEF vars, DtInv, RankDt, HeadReady, Begun, OfPast, WholeBeam, TermsOf
<1>2. CASE \E r \in Ranks : Initialises(r) \/ Wait(r) \/ Solve(r) \/ Notify(r)
  BY <1>2, InitialisesDtInv, WaitDtInv, SolveDtInv, NotifyDtInv
<1> QED
  BY <1>1, <1>2, NextCases

LEMMA TimeInvAlways == Several => (Spec => [](Base /\ TimeInv))
<1> SUFFICES ASSUME Several
             PROVE  Spec => [](Base /\ TimeInv)
  OBVIOUS
<1>1. Spec => []Base
  BY BaseAlways
<1>2. Init => TimeInv
  BY InitTimes
<1>3. Base /\ TimeInv /\ [Next]_vars => TimeInv'
  BY TimesStep
<1> QED
  BY <1>1, <1>2, <1>3, PTL DEF Spec

\* AdaptiveTimeStep::Calculate, called box by box with sums that live from one
\* call to the next, makes each dt of the whole beam of one step: every box,
\* each particle once as it was after that step, and nothing of another step.
THEOREM DtIsOfWholeBeam == Several => (Spec => []DtFromWholeBeam)
<1> SUFFICES ASSUME Several
             PROVE  Spec => []DtFromWholeBeam
  OBVIOUS
<1>1. Spec => [](Base /\ TimeInv)
  BY TimeInvAlways
<1>2. Init => DtInv
  BY InitDt
<1>3. Base /\ TimeInv /\ DtInv /\ [Next]_vars => DtInv'
  BY DtStep
<1>4. DtInv => DtFromWholeBeam
  BY DEF DtInv, RankDt, DtFromWholeBeam
<1> QED
  BY <1>1, <1>2, <1>3, <1>4, PTL DEF Spec

-----------------------------------------------------------------------------
(* The first dt                                                            *)

LEMMA InitFirst ==
    ASSUME Several, Init
    PROVE  FirstInv
<1>1. FirstIs(NoDt)
  <2>1. ASSUME NEW r \in Ranks
        PROVE  ~HasFirst(r) /\ dtChan[r] = <<>>
    BY <2>1 DEF Init, HasFirst
  <2>2. Len(<<>>) = 0
    OBVIOUS
  <2> QED
    BY <2>1, <2>2 DEF FirstIs
<1> QED
  BY <1>1, Constants DEF FirstInv

\* A step that gives nobody the first dt nor sends one, nor changes one.
LEMMA FirstStays ==
    ASSUME NEW d \in Dt, FirstIs(d), dtChan' = dtChan,
           \A q \in Ranks : HasFirst(q)' => HasFirst(q) /\ dt'[q] = dt[q],
           pc'[HeadRank] = "Calculate" => pc[HeadRank] = "Calculate"
    PROVE  FirstIs(d)'
  BY DEF FirstIs

LEMMA FirstStep ==
    ASSUME Several, Base, FirstInv, [Next]_vars
    PROVE  FirstInv'
<1>1. /\ TypeOK
      /\ pc \in [Ranks -> Early \union {"Wait", "Solve", "Notify", "Gone", "Abort"}]
      /\ dt \in [Ranks -> Dt] /\ dtChan \in [Ranks -> Seq(Dt)]
      /\ \A r \in Ranks : step[r] \in Nat /\ box[r] \in 0 .. N - 1
      /\ UseMPI /\ N \in Nat /\ N > 1 /\ HeadRank \in Ranks
      /\ step \in [Ranks -> Nat] /\ box \in [Ranks -> Boxes]
  BY Constants DEF Base, TypeOK, Several
<1>2. PICK d \in Dt : FirstIs(d)
  BY DEF FirstInv
<1>3. SUFFICES \E e \in Dt : FirstIs(e)'
  BY DEF FirstInv
<1>4. CASE UNCHANGED vars
  BY <1>2, <1>4 DEF vars, FirstIs, HasFirst
<1>5. ASSUME NEW r \in Ranks, Wait(r)
      PROVE  FirstIs(d)'
  <2>1. /\ pc[r] = "Wait" /\ pc' = [pc EXCEPT ![r] = "Solve"]
        /\ UNCHANGED <<step, box, dt, dtChan>>
    BY <1>1, <1>5, WaitMoves
  <2>2. \A q \in Ranks : HasFirst(q)' => HasFirst(q)
    BY <1>1, <2>1 DEF HasFirst
  <2>3. pc'[HeadRank] = "Calculate" => pc[HeadRank] = "Calculate"
    BY <1>1, <2>1
  <2> QED
    BY <1>2, <2>1, <2>2, <2>3, FirstStays
<1>6. ASSUME NEW r \in Ranks, Solve(r)
      PROVE  FirstIs(d)'
  <2>1. /\ pc[r] = "Solve" /\ pc'[r] \in {"Notify", "Abort"}
        /\ \A q \in Ranks : q # r => pc'[q] = pc[q]
        /\ UNCHANGED <<step, box, dtChan>>
    BY <1>1, <1>6, SolveMoves
  <2>2. dt' = dt \/ (box[r] = 0 /\ \E e : dt' = [dt EXCEPT ![r] = e])
    BY <1>6 DEF Solve, IsLastBox
  <2>3. ASSUME NEW q \in Ranks, HasFirst(q)'
        PROVE  HasFirst(q) /\ dt'[q] = dt[q]
    <3>1. CASE q = r
      BY <1>1, <2>1, <2>2, <2>3, <3>1 DEF HasFirst
    <3>2. CASE q # r
      BY <1>1, <2>1, <2>2, <2>3, <3>2 DEF HasFirst
    <3> QED
      BY <3>1, <3>2
  <2>4. pc'[HeadRank] = "Calculate" => pc[HeadRank] = "Calculate"
    BY <1>1, <2>1
  <2> QED
    BY <1>2, <2>1, <2>3, <2>4, FirstStays
<1>7. ASSUME NEW r \in Ranks, Notify(r)
      PROVE  FirstIs(d)'
  <2>1. pc[r] = "Notify" /\ UNCHANGED <<dt, dtChan>>
    BY <1>1, <1>7, NotifyMoves
  <2>2. ASSUME NEW q \in Ranks, q # r
        PROVE  pc'[q] = pc[q] /\ step'[q] = step[q] /\ box'[q] = box[q]
    <3>1. CASE box[r] = 0
      BY <1>1, <1>7, <2>2, <3>1, NotifyMoves
    <3>2. CASE box[r] # 0
      BY <1>1, <1>7, <2>2, <3>2, NotifyMoves
    <3> QED
      BY <3>1, <3>2
  <2>3. pc'[r] \in {"Wait", "Gone"} /\ (HasFirst(r)' => HasFirst(r))
    <3>1. CASE box[r] = 0
      <4>1. step'[r] = step[r] + N /\ pc'[r] \in {"Wait", "Gone"}
        BY <1>1, <1>7, <3>1, NotifyMoves
      <4>2. ~ (step'[r] < N)
        BY <1>1, <4>1
      <4> QED
        BY <4>1, <4>2 DEF HasFirst
    <3>2. CASE box[r] # 0
      <4>1. step'[r] = step[r] /\ pc'[r] = "Wait"
        BY <1>1, <1>7, <3>2, NotifyMoves
      <4> QED
        BY <2>1, <3>2, <4>1 DEF HasFirst
    <3> QED
      BY <3>1, <3>2
  <2>4. \A q \in Ranks : HasFirst(q)' => HasFirst(q)
    BY <2>2, <2>3 DEF HasFirst
  <2>5. pc'[HeadRank] = "Calculate" => pc[HeadRank] = "Calculate"
    BY <1>1, <2>2, <2>3
  <2> QED
    BY <1>2, <2>1, <2>4, <2>5, FirstStays
<1>8. ASSUME NEW r \in Ranks, CalculateInitial(r)
      PROVE  \E e \in Dt : FirstIs(e)'
  <2>1. /\ pc[r] = "Calculate" /\ pc'[r] \in {"Abort", "WaitTimeStep"}
        /\ \A q \in Ranks : q # r => pc'[q] = pc[q]
        /\ UNCHANGED <<step, box, dtChan>>
    <3>1. pc' = [pc EXCEPT ![r] = "Abort"] \/ pc' = [pc EXCEPT ![r] = "WaitTimeStep"]
      BY <1>8 DEF CalculateInitial
    <3> QED
      BY <1>1, <1>8, <3>1 DEF CalculateInitial
  <2>2. \A q \in Ranks : q # r => dt'[q] = dt[q]
    BY <1>1, <1>8, InitialisesDt DEF Initialises
  <2>3. CASE r # HeadRank
    <3>1. ~HasFirst(r)'
      BY <2>1, <2>3 DEF HasFirst
    <3>2. \A q \in Ranks : HasFirst(q)' => HasFirst(q) /\ dt'[q] = dt[q]
      BY <2>1, <2>2, <3>1 DEF HasFirst
    <3>3. pc'[HeadRank] = "Calculate" => pc[HeadRank] = "Calculate"
      BY <1>1, <2>1, <2>3
    <3> QED
      BY <1>2, <2>1, <3>2, <3>3, FirstStays
  <2>4. CASE r = HeadRank
    <3>1. \A q \in Ranks : ~HasFirst(q) /\ dtChan[q] = <<>>
      BY <1>2, <2>1, <2>4 DEF FirstIs
    <3>2. \A q \in Ranks : q # r => ~HasFirst(q)'
      BY <2>1, <3>1 DEF HasFirst
    <3>3. dt'[r] \in Dt
      <4>1. TypeOK'
        BY <1>1, <1>8, EarlyTyped
      <4> QED
        BY <4>1 DEF TypeOK
    <3>4. PICK e \in Dt : e = dt'[r]
      BY <3>3
    <3>5. \A q \in Ranks : Len(dtChan'[q]) = 0
      BY <2>1, <3>1
    <3>6. pc'[HeadRank] # "Calculate"
      BY <2>1, <2>4
    <3>7. FirstIs(e)'
      BY <3>2, <3>4, <3>5, <3>6 DEF FirstIs
    <3> QED
      BY <3>7
  <2> QED
    BY <2>3, <2>4
<1>9. ASSUME NEW r \in Ranks, WaitTimeStep(r)
      PROVE  FirstIs(d)'
  <2>1. /\ pc[r] = "WaitTimeStep" /\ pc' = [pc EXCEPT ![r] = "NotifyTimeStep"]
        /\ UNCHANGED <<step, box>>
    BY <1>9 DEF WaitTimeStep
  <2>2. CASE r = HeadRank
    <3>1. UNCHANGED <<dt, dtChan>>
      BY <1>9, <2>2 DEF WaitTimeStep, HasInitial
    <3>2. \A q \in Ranks : HasFirst(q)' => HasFirst(q)
      BY <1>1, <2>1, <2>2 DEF HasFirst
    <3>3. pc'[HeadRank] = "Calculate" => pc[HeadRank] = "Calculate"
      BY <1>1, <2>1
    <3> QED
      BY <1>2, <3>1, <3>2, <3>3, FirstStays
  <2>3. CASE r # HeadRank
    <3>1. PICK u \in Ranks : u = Upstream(r)
      BY Constants
    <3>2. /\ dtChan[u] # <<>>
          /\ dt' = [dt EXCEPT ![r] = Head(dtChan[u])]
          /\ dtChan' = [dtChan EXCEPT ![u] = Tail(@)]
      BY <1>1, <1>9, <2>3, <3>1 DEF WaitTimeStep, HasInitial
    <3>3. /\ dtChan[u] \in Seq(Dt) /\ Head(dtChan[u]) = dtChan[u][1]
          /\ Len(dtChan[u]) \in Nat /\ 1 \in 1 .. Len(dtChan[u])
      BY <1>1, <3>2, EmptySeq, LenProperties
    <3>4. dt'[r] = d
      BY <1>1, <1>2, <3>2, <3>3 DEF FirstIs
    <3>5. ASSUME NEW q \in Ranks, NEW i \in 1 .. Len(dtChan'[q])
          PROVE  dtChan'[q][i] = d
      <4>1. CASE q = u
        <5>1. /\ dtChan'[q] = Tail(dtChan[u])
              /\ Len(Tail(dtChan[u])) = Len(dtChan[u]) - 1
              /\ \A j \in 1 .. Len(Tail(dtChan[u])) : Tail(dtChan[u])[j] = dtChan[u][j + 1]
          BY <1>1, <3>2, <3>3, <4>1, HeadTailProperties
        <5>2. i + 1 \in 1 .. Len(dtChan[u]) /\ dtChan'[q][i] = dtChan[u][i + 1]
          BY <3>3, <3>5, <5>1
        <5> QED
          BY <1>2, <5>2 DEF FirstIs
      <4>2. CASE q # u
        BY <1>1, <1>2, <3>2, <3>5, <4>2 DEF FirstIs
      <4> QED
        BY <4>1, <4>2
    <3>6. \A q \in Ranks : HasFirst(q)' => dt'[q] = d
      <4>1. \A q \in Ranks : q # r => (HasFirst(q)' => HasFirst(q)) /\ dt'[q] = dt[q]
        BY <1>1, <2>1, <3>2 DEF HasFirst
      <4> QED
        BY <1>2, <3>4, <4>1 DEF FirstIs
    <3>7. pc'[HeadRank] # "Calculate"
      <4>1. pc[HeadRank] # "Calculate"
        BY <1>2, <3>1, <3>2 DEF FirstIs
      <4> QED
        BY <1>1, <2>1, <4>1
    <3> QED
      BY <3>5, <3>6, <3>7 DEF FirstIs
  <2> QED
    BY <2>2, <2>3
<1>10. ASSUME NEW r \in Ranks, NotifyTimeStep(r)
       PROVE  FirstIs(d)'
  <2>1. /\ pc[r] = "NotifyTimeStep" /\ pc' = [pc EXCEPT ![r] = "Sent"]
        /\ UNCHANGED <<step, box, dt>>
        /\ dtChan' = dtChan \/ dtChan' = [dtChan EXCEPT ![r] = Append(@, dt[r])]
    BY <1>10 DEF NotifyTimeStep
  <2>2. HasFirst(r)
    <3>1. step[r] = N - 1 - r /\ r \in 0 .. N - 1
      BY <2>1 DEF Base, ControlOK, Early, Ranks
    <3> QED
      BY <1>1, <2>1, <3>1 DEF HasFirst
  <2>3. dt[r] = d /\ pc[HeadRank] # "Calculate"
    BY <1>2, <2>2 DEF FirstIs
  <2>4. ASSUME NEW q \in Ranks, NEW i \in 1 .. Len(dtChan'[q])
        PROVE  dtChan'[q][i] = d
    <3>1. CASE dtChan'[q] = dtChan[q]
      BY <1>2, <2>4, <3>1 DEF FirstIs
    <3>2. CASE q = r /\ dtChan'[q] = Append(dtChan[r], dt[r])
      <4>1. /\ dtChan[r] \in Seq(Dt) /\ Len(dtChan[r]) \in Nat
            /\ Len(Append(dtChan[r], dt[r])) = Len(dtChan[r]) + 1
            /\ \A j \in 1 .. Len(dtChan[r]) + 1 :
                  Append(dtChan[r], dt[r])[j] =
                      IF j = Len(dtChan[r]) + 1 THEN dt[r] ELSE dtChan[r][j]
        <5>1. dtChan[r] \in Seq(Dt)
          BY <1>1
        <5> QED
          BY <5>1
      <4>2. i = Len(dtChan[r]) + 1 \/ i \in 1 .. Len(dtChan[r])
        BY <2>4, <3>2, <4>1
      <4> QED
        BY <1>2, <2>3, <2>4, <3>2, <4>1, <4>2 DEF FirstIs
    <3> QED
      BY <1>1, <2>1, <3>1, <3>2
  <2>5. \A q \in Ranks : HasFirst(q)' => HasFirst(q)
    BY <1>1, <2>1, <2>2 DEF HasFirst
  <2>6. pc'[HeadRank] # "Calculate"
    BY <1>1, <2>1, <2>3
  <2> QED
    BY <1>2, <2>1, <2>4, <2>5, <2>6 DEF FirstIs
<1>11. ASSUME NEW r \in Ranks, EnterEvolve(r)
       PROVE  FirstIs(d)'
  <2>1. /\ pc[r] = "Sent" /\ pc' = [pc EXCEPT ![r] = "Wait"]
        /\ UNCHANGED <<step, box, dt, dtChan>>
    BY <1>11 DEF EnterEvolve
  <2>2. \A q \in Ranks : HasFirst(q)' => HasFirst(q)
    BY <1>1, <2>1 DEF HasFirst
  <2>3. pc'[HeadRank] = "Calculate" => pc[HeadRank] = "Calculate"
    BY <1>1, <2>1
  <2> QED
    BY <1>2, <2>1, <2>2, <2>3, FirstStays
<1>12. CASE \E r \in Ranks : Initialises(r) \/ Wait(r) \/ Solve(r) \/ Notify(r)
  BY <1>2, <1>5, <1>6, <1>7, <1>8, <1>9, <1>10, <1>11, <1>12 DEF Initialises
<1> QED
  BY <1>4, <1>12, NextCases, <1>2

\* The dt of the head rank, handed down by WaitTimeStep and NotifyTimeStep, is
\* the dt of every rank in its first step, whatever rank is ahead of another.
THEOREM FirstDtIsSame == Spec => []SameFirstDt
<1>1. CASE Several
  <2>1. Spec => []Base
    BY <1>1, BaseAlways
  <2>2. Init => FirstInv
    BY <1>1, InitFirst
  <2>3. Base /\ FirstInv /\ [Next]_vars => FirstInv'
    BY <1>1, FirstStep
  <2>4. FirstInv => SameFirstDt
    BY DEF FirstInv, FirstIs, HasFirst, SameFirstDt
  <2> QED
    BY <2>1, <2>2, <2>3, <2>4, PTL DEF Spec
<1>2. CASE ~Several
  <2>1. SameFirstDt
    BY <1>2, Constants DEF SameFirstDt
  <2> QED
    BY <2>1, PTL
<1> QED
  BY <1>1, <1>2
=============================================================================
