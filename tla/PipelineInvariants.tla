------------------------- MODULE PipelineInvariants -------------------------
(***************************************************************************)
(* Why the messages of the pipeline need no labels: in every state, the    *)
(* messages of a kind that travel between two neighbours are exactly those *)
(* between the one the receiver takes next and the one the sender sends    *)
(* next, in order.  This holds for the usual set-up, one box per rank,     *)
(* with MPI and without skip_empty_comms.                                  *)
(***************************************************************************)
EXTENDS Pipeline

Usual == BoxesInZ = 1 /\ UseMPI /\ ~SkipEmpty

Label(m) == <<m.step, m.box>>

\* The kinds that announce themselves; a single rank has no ghost messages.
Heads == {"time", "counts"} \union (IF N > 1 THEN {"ghostCounts"} ELSE {})

\* Of a step, a rank sends a kind for these boxes, in decreasing order.
FirstBox(k) == IF k = "ghostCounts" THEN N - 2 ELSE N - 1

LastBox(k) == IF k = "time" THEN N - 1 ELSE 0

\* The label after l: the next box, or the first box of the sender's next step.
After(k, l) == IF l[2] > LastBox(k) THEN <<l[1], l[2] - 1>> ELSE <<l[1] + N, FirstBox(k)>>

\* The order of labels: steps go up, boxes of a step go down.
Precedes(l, m) == l[1] < m[1] \/ (l[1] = m[1] /\ l[2] > m[2])

\* The next message of kind k sent by a rank at handler p of box b of step s.
\* Nothing is sent from the last step on: a rank that has done it stays there.
SendAt(k, s, b, p) ==
    IF s >= MaxStep
      THEN <<IF s = MaxStep + N THEN MaxStep ELSE s, FirstBox(k)>>
      ELSE CASE k = "time" -> <<IF b = N - 1 THEN s ELSE s + N, N - 1>>
             [] k = "counts" -> <<s, b>>
             [] k = "ghostCounts" ->
                  IF p \in {"WaitGhost", "SolveTail", "Notify"} \/ b = N - 1
                    THEN IF b = 0 THEN <<s + N, N - 2>> ELSE <<s, b - 1>>
                    ELSE <<s, b>>

\* The next message of kind k received by a rank at handler p of box b of step s.
RecvAt(k, s, b, p) ==
    IF s = 0
      THEN <<N - 1, FirstBox(k)>>
      ELSE CASE k = "time" ->
                  <<IF p \in {"StartStep", "Wait", "Gone"} /\ b = N - 1
                      THEN s - 1 ELSE s - 1 + N, N - 1>>
             [] k = "counts" ->
                  IF p \in {"StartStep", "Wait", "Gone"}
                    THEN <<s - 1, b>>
                    ELSE After(k, <<s - 1, b>>)
             [] k = "ghostCounts" ->
                  LET c == IF p \in {"SolveTail", "Notify"} THEN b - 2 ELSE b - 1
                  IN  IF c < 0 THEN <<s - 1 + N, N - 2>> ELSE <<s - 1, c>>

SendPos(k, r) == SendAt(k, step[r], box[r], pc[r])

RecvPos(k, r) == RecvAt(k, step[r], box[r], pc[r])

\* The messages of c run from label `first' to just before label `last'.
Chain(k, c, first, last) ==
    /\ c = <<>> => first = last
    /\ c # <<>> => Label(c[1]) = first /\ After(k, Label(c[Len(c)])) = last
    /\ \A i \in 1 .. Len(c) - 1 : Label(c[i + 1]) = After(k, Label(c[i]))
    /\ \A i, j \in 1 .. Len(c) : i < j => Precedes(Label(c[i]), Label(c[j]))
    /\ \A i \in 1 .. Len(c) : c[i].ref = ~EagerSmall

\* Particle message m is the one that count n announces.
Announces(n, m) ==
    /\ Label(m) = Label(n)
    /\ Cardinality(m.data) = n.data.np
    /\ n.data.np > 0

\* Every count above zero in c has its particles in p, in order, and p has
\* nothing else: f tells which count a particle message belongs to.
Pairs(f, c, p) ==
    /\ \A i, j \in 1 .. Len(p) : i < j => f[i] < f[j]
    /\ \A i \in 1 .. Len(p) : Announces(c[f[i]], p[i])
    /\ \A j \in 1 .. Len(c) : c[j].data.np > 0 => \E i \in 1 .. Len(p) : f[i] = j

Paired(c, p) == \E f \in [1 .. Len(p) -> 1 .. Len(c)] : Pairs(f, c, p)

\* Where a rank can be between its handlers.
ControlOK ==
    \A r \in Ranks :
        /\ step[r] <= MaxStep + N
        /\ pc[r] \in {"StartStep", "Gone"} => box[r] = N - 1
        /\ pc[r] \notin {"StartStep", "Gone"} => step[r] <= MaxStep
        /\ pc[r] = "Gone" => step[r] > MaxStep

\* Each channel holds what lies between its sender and its receiver: no
\* message that Notify sends is lost, taken twice or taken by a Wait for
\* another box, although Wait tells messages apart by their tag only.
ChannelsExact ==
    \A r \in Ranks :
        LET u == Upstream(r)
        IN  /\ \A k \in Heads : Chain(k, chan[k][u], RecvPos(k, r), SendPos(k, u))
            /\ Paired(chan["counts"][u], chan["particles"][u])
            /\ Paired(chan["ghostCounts"][u], chan["ghostParticles"][u])

MessageInv == TypeOK /\ ControlOK /\ ChannelsExact

\* Time steps are dealt to the ranks in turn and stay where they were dealt.
StepsDealt == \A r \in Ranks : Owner(step[r]) = r

\* A rank has the physical time of its step once it has received it.
HasTime(r) == Computing(r) \/ (pc[r] = "Wait" /\ box[r] # N - 1) \/ step[r] = 0

\* A time on its way is the time of the step after the sender's.
TimeInv ==
    /\ \A r \in Ranks : HasTime(r) => physicalTime[r] = step[r]
    /\ \A r \in Ranks : \A i \in 1 .. Len(chan["time"][r]) :
          chan["time"][r][i].data = chan["time"][r][i].step + 1

\* The messages of a kind that r sent and its downstream has not received.
InFlight(k, r) == {chan[k][r][i] : i \in 1 .. Len(chan[k][r])}

\* What is in flight was sent in an earlier box or step; a ghost message, in
\* this box perhaps.  The head box of the domain has no ghosts.
SentBefore(k, r, m) ==
    /\ m.step < MaxStep
    /\ k \in GhostKinds => m.box < N - 1
    /\ \/ m.step < step[r]
       \/ m.step = step[r] /\ m.box > box[r]
       \/ /\ k \in GhostKinds /\ m.step = step[r] /\ m.box = box[r]
          /\ pc[r] \in {"WaitGhost", "SolveTail", "Notify"}

SentInv == \A k \in Kinds, r \in Ranks : \A m \in InFlight(k, r) : SentBefore(k, r, m)

-----------------------------------------------------------------------------
(* Who waits for whom                                                      *)

\* A count, or the particles it announces, that r has to receive is not sent.
Missing(r, counts, particles) ==
    LET u == Upstream(r)
    IN  chan[counts][u] = <<>> \/ (chan[counts][u][1].data.np > 0 /\ chan[particles][u] = <<>>)

\* An MPI_Recv of rank r cannot return.
AwaitsUpstream(r) ==
    \/ /\ pc[r] = "Wait" /\ UseMPI /\ step[r] > 0 /\ ~SkipRecv(r)
       /\ \/ Missing(r, "counts", "particles")
          \/ box[r] = N - 1 /\ chan["time"][Upstream(r)] = <<>>
    \/ /\ pc[r] = "WaitGhost" /\ ~NoGhostToWait(r)
       /\ Missing(r, "ghostCounts", "ghostParticles")

\* An MPI_Wait of rank r, on a message it sent, cannot return.
AwaitsDownstream(r) ==
    \/ /\ pc[r] = "NotifyGhost" /\ ~NoGhostToSend(r)
       /\ \E k \in GhostKinds : ~Completed(k, r)
    \/ /\ pc[r] = "Notify" /\ UseMPI
       /\ \E k \in FinishKinds(box[r]) : ~Completed(k, r)
    \/ /\ pc[r] = "StartStep" /\ step[r] > MaxStep
       /\ \E k \in FinishKinds(0) \union GhostKinds : ~Completed(k, r)

Blocked(r) == AwaitsUpstream(r) \/ AwaitsDownstream(r)

\* The ranks never all wait for one another: although each of them waits for
\* its upstream to send and for its downstream to receive, and the ring is
\* closed, some rank that is not done can go on.
SomeRankGoes == AllGone \/ \E r \in Ranks : pc[r] # "Gone" /\ ~Blocked(r)

Stage(p) ==
    CASE p \in {"Wait", "Gone"} -> 0
      [] p \in {"WaitGhost", "SolveTail", "Notify"} -> 2
      [] OTHER -> 1

\* How far a rank is: a step ahead is as far as a box further down.
Reached(r) == 4 * (step[r] + (N - 1 - box[r])) + Stage(pc[r])

-----------------------------------------------------------------------------
(* The particles                                                           *)

PastHead == {"NotifyGhost", "WaitGhost", "SolveTail", "Notify"}

\* The box a rank has yet to bin, and all behind it, may be in its tile.
Unbinned(r) == IF pc[r] \in PastHead THEN box[r] - 1 ELSE box[r]

\* What a rank holds has not run ahead of the box it solves, and has been
\* pushed in every step but once too often; what is behind the domain may lag.
TileOK(r) ==
    /\ \A p \in beam[r] : p.z <= HeadRegion(Unbinned(r)) /\ (p.z >= 0 => p.age = step[r])
    /\ pc[r] \notin PastHead => headBin[r] = {} /\ restBin[r] = {}
    /\ \A p \in headBin[r] : p.z <= HeadRegion(box[r]) /\ p.age = step[r] + 1
    /\ \A p \in restBin[r] :
          /\ p.z < HeadRegion(box[r])
          /\ p.age = step[r] + (IF pc[r] = "Notify" THEN 1 ELSE 0)

TileInv == \A r \in Ranks : TileOK(r)

\* The particles on their way have been pushed in the sender's step.
ParcelOK(m) == \A p \in m.data : p.z <= HeadRegion(m.box) /\ p.age = m.step + 1

ParcelInv == \A r \in Ranks : \A m \in InFlight("particles", r) : ParcelOK(m)

AgeInv == TileInv /\ ParcelInv

\* Place n of rank r: its tile, its two bins, and the n-th message it sent.
At(r, n) ==
    CASE n = 0 -> beam[r]
      [] n = -1 -> headBin[r]
      [] n = -2 -> restBin[r]
      [] OTHER -> IF n \in 1 .. Len(chan["particles"][r])
                    THEN chan["particles"][r][n].data ELSE {}

Spots == {c \in Ranks \X Int \X Particle : c[3] \in At(c[1], c[2])}

\* A particle is in one place only.
OnePlace == \A c, d \in Spots : c[3].id = d[3].id => c = d

-----------------------------------------------------------------------------
(* The ghosts                                                              *)

\* The particles of S in the head slice of box b.
HeadIds(S, b) == {p.id : p \in {q \in S : q.z = HeadRegion(b)}}

\* The particles on their way for box b of step s.
Parcel(r, s, b) ==
    UNION {m.data : m \in {w \in InFlight("particles", r) : Label(w) = <<s, b>>}}

\* What rank r left, or leaves, in the head slice of box b of step s.
Left(r, s, b) ==
    HeadIds(IF step[r] = s /\ box[r] = b /\ pc[r] \in PastHead
              THEN headBin[r] ELSE Parcel(r, s, b), b)

\* The particles for the head slice of box b that rank r has yet to receive.
Coming(r, b) == IF step[r] = 0 THEN {} ELSE Left(Upstream(r), step[r] - 1, b)

\* The ghosts on their way are what the sender left in that head slice.
GhostsTrue ==
    \A r \in Ranks :
        /\ \A n \in InFlight("ghostCounts", r) :
              n.data.np = 0 => Left(r, n.step, n.box) = {}
        /\ \A m \in InFlight("ghostParticles", r) :
              HeadIds(m.data, m.box) = Left(r, m.step, m.box)

\* From the ghosts of a tail slice to the head slice behind it: the same
\* particles, those here early and those that come with the box.
GhostsOK(r) ==
    LET b == box[r] - 1
    IN  /\ pc[r] \in {"NotifyGhost", "WaitGhost"} => ghosts[r] = LocalGhosts(r)
        /\ pc[r] = "SolveTail" /\ b >= 0 =>
              HeadIds(ghosts[r], b) = HeadIds(beam[r], b) \union Coming(r, b)
        /\ pc[r] = "Notify" /\ b >= 0 =>
              nextSlice[r] = HeadIds(beam[r], b) \union Coming(r, b)
        /\ pc[r] = "Wait" /\ box[r] < N - 1 =>
              nextSlice[r] = HeadIds(beam[r], box[r]) \union Coming(r, box[r])
        /\ pc[r] = "SolveHead" /\ box[r] < N - 1 => nextSlice[r] = HeadIds(beam[r], box[r])
        /\ pc[r] \in {"NotifyGhost", "WaitGhost"} /\ box[r] < N - 1 =>
              nextSlice[r] = {p.id : p \in headBin[r]}

GhostInv == SentInv /\ GhostsTrue /\ \A r \in Ranks : GhostsOK(r)
=============================================================================
