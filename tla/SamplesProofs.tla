---------------------------- MODULE SamplesProofs ----------------------------
(***************************************************************************)
(* The theorems about the samples' lives and timers.  TimeSimulated speaks *)
(* of the sample a frame is about to update, so it needs to know that this *)
(* one is running: the two invariants are proved together.  The main loop  *)
(* adds what it draws, which rests on both.  The geometry is an invariant  *)
(* of its own, however often shapes are added.  And what the samples with  *)
(* a border keep in the window stays near it.                              *)
(***************************************************************************)
EXTENDS MainLoop, Window, TLAPS

IInv == TypeOK /\ TimeSimulated /\ OnlyCurrentRuns

\* Sample::Init starts a sample's timer and its World's time together.
LEMMA InitSampleStep ==
  ASSUME TypeOK, NEW i \in Indices, InitSample(i)
  PROVE  /\ startTime' \in [Indices -> Nat] /\ deltaTime' \in [Indices -> Int]
         /\ simulated' \in [Indices -> Int] /\ initAt' \in [Indices -> Nat]
         /\ simulated'[i] = startTime'[i] - initAt'[i]
         /\ \A j \in Indices \ {i} : /\ simulated'[j] = simulated[j]
                                     /\ startTime'[j] = startTime[j]
                                     /\ initAt'[j] = initAt[j]
  BY DEF TypeOK, InitSample

\* Before the first sample is started, none is running.
LEMMA InitHolds == Init => IInv
<1>1. 0 \in Indices
  BY SamplesAssumption DEF Indices
<1> SUFFICES ASSUME Init PROVE IInv
  OBVIOUS
<1>2. now \in Nat /\ stage = "start" /\ quit \in BOOLEAN /\ current \in Indices
  BY <1>1 DEF Init
<1>3. /\ startTime \in [Indices -> Nat] /\ deltaTime \in [Indices -> Int]
      /\ simulated \in [Indices -> Int] /\ initAt \in [Indices -> Nat]
  BY DEF Init
<1>4. running = {}
  BY DEF Init
<1> QED
  BY <1>2, <1>3, <1>4 DEF IInv, TypeOK, TimeSimulated, OnlyCurrentRuns

\* No step of the main loop disturbs the two invariants.
LEMMA StepHolds == IInv /\ [Next]_vars => IInv'
<1> SUFFICES ASSUME IInv, [Next]_vars
             PROVE  IInv'
  OBVIOUS
<1>1. TypeOK /\ TimeSimulated /\ OnlyCurrentRuns
  BY DEF IInv
<1>2. CASE Elapse
  BY <1>1, <1>2 DEF Elapse, IInv, TypeOK, TimeSimulated, OnlyCurrentRuns, timers
<1>3. CASE Start
  <2>1. InitSample(current) /\ running' = {current} /\ stage' = "inputs"
        /\ UNCHANGED <<now, quit, current>>
    BY <1>3 DEF Start
  <2> QED
    BY <1>1, <2>1, InitSampleStep DEF IInv, TypeOK, TimeSimulated, OnlyCurrentRuns
<1>4. CASE PollEvents
  BY <1>1, <1>4 DEF PollEvents, IInv, TypeOK, TimeSimulated, OnlyCurrentRuns, timers
<1>5. CASE UpdateCurrentSample
  <2>1. /\ startTime' = [startTime EXCEPT ![current] = now]
        /\ deltaTime' = [deltaTime EXCEPT ![current] = now - startTime[current]]
        /\ simulated' = [simulated EXCEPT ![current] = @ + deltaTime'[current]]
        /\ stage = "update" /\ stage' = "window"
        /\ UNCHANGED <<now, quit, current, running, initAt>>
    BY <1>5 DEF UpdateCurrentSample, Tick
  <2>2. TypeOK'
    BY <1>1, <2>1 DEF TypeOK
  <2>3. simulated'[current] = now - initAt[current]
    BY <1>1, <2>1 DEF TypeOK, TimeSimulated, OnlyCurrentRuns
  <2>4. TimeSimulated' /\ OnlyCurrentRuns'
    BY <1>1, <2>1, <2>3 DEF TypeOK, TimeSimulated, OnlyCurrentRuns
  <2> QED
    BY <2>2, <2>4 DEF IInv
<1>6. ASSUME NEW i \in Indices, ChangeSample(i)
      PROVE  IInv'
  <2>1. /\ InitSample(i) /\ running' = (running \ {current}) \union {i}
        /\ current' = i /\ stage = "window" /\ stage' = "render"
        /\ UNCHANGED <<now, quit>>
    BY <1>6 DEF ChangeSample
  <2>2. running' = {i}
    BY <1>1, <2>1 DEF OnlyCurrentRuns
  <2> QED
    BY <1>1, <2>1, <2>2, InitSampleStep DEF IInv, TypeOK, TimeSimulated, OnlyCurrentRuns
<1>7. CASE RestartSample
  <2>1. /\ InitSample(current) /\ stage = "window" /\ stage' = "render"
        /\ UNCHANGED <<now, quit, current, running>>
    BY <1>7 DEF RestartSample
  <2> QED
    BY <1>1, <2>1, InitSampleStep DEF IInv, TypeOK, TimeSimulated, OnlyCurrentRuns
<1>8. CASE KeepSample
  BY <1>1, <1>8 DEF KeepSample, IInv, TypeOK, TimeSimulated, OnlyCurrentRuns, timers
<1>9. CASE RenderCurrentSample
  BY <1>1, <1>9 DEF RenderCurrentSample, IInv, TypeOK, TimeSimulated, OnlyCurrentRuns, timers
<1>10. CASE UNCHANGED vars
  BY <1>1, <1>10 DEF vars, IInv, TypeOK, TimeSimulated, OnlyCurrentRuns, timers
<1> QED
  BY <1>2, <1>3, <1>4, <1>5, <1>6, <1>7, <1>8, <1>9, <1>10 DEF Next, Frame

\* Every World is given exactly the time its sample was shown since its Init,
\* for any number of samples and any order of switches and restarts.
THEOREM TimeIsSimulatedOnce == Spec => []TimeSimulated
<1>1. IInv => TimeSimulated
  BY DEF IInv
<1> QED
  BY <1>1, InitHolds, StepHolds, PTL DEF Spec

\* No sample but the one shown is initialised.
THEOREM OneSampleRuns == Spec => []OnlyCurrentRuns
<1>1. IInv => OnlyCurrentRuns
  BY DEF IInv
<1> QED
  BY <1>1, InitHolds, StepHolds, PTL DEF Spec

-----------------------------------------------------------------------------
(* The picture.                                                            *)

\* The buffers are empty from the events to the drawing, and whoever draws is
\* current.
ArtistsInv ==
  /\ stage \in {"update", "window"} => artists = {}
  /\ stage = "render" => artists \subseteq {current}

LEMMA LoopStepIsStep == [LoopNext]_loopVars => [Next]_vars
<1>1. BeginFrame => Next
  BY DEF BeginFrame, Next, Frame
<1>2. Draw => UNCHANGED vars
  BY DEF Draw
<1>3. OtherStage => Next
  BY DEF OtherStage, Next, Frame
<1>4. UNCHANGED loopVars => UNCHANGED vars
  BY DEF loopVars
<1> QED
  BY <1>1, <1>2, <1>3, <1>4 DEF LoopNext

LEMMA ArtistsStep == IInv /\ ArtistsInv /\ [LoopNext]_loopVars => ArtistsInv'
<1> SUFFICES ASSUME IInv, ArtistsInv, [LoopNext]_loopVars
             PROVE  ArtistsInv'
  OBVIOUS
<1>1. CASE BeginFrame
  BY <1>1 DEF BeginFrame, PollEvents, ArtistsInv
<1>2. CASE Draw
  <2>1. /\ stage = "render" /\ stage' = "render" /\ current' = current
        /\ artists' = artists \union {current}
    BY <1>2 DEF Draw, vars
  <2> QED
    BY <2>1 DEF ArtistsInv
<1>3. CASE OtherStage
  <2>1. artists' = artists
    BY <1>3 DEF OtherStage
  <2>2. \/ UNCHANGED <<stage, current>>
        \/ stage' \in {"inputs", "over"}
        \/ stage = "update" /\ stage' = "window"
        \/ stage = "window" /\ stage' = "render"
    BY <1>3 DEF OtherStage, Elapse, Start, UpdateCurrentSample, ChangeSample,
                RestartSample, KeepSample, RenderCurrentSample
  <2> QED
    BY <2>1, <2>2 DEF ArtistsInv
<1>4. CASE UNCHANGED loopVars
  BY <1>4 DEF loopVars, vars, ArtistsInv
<1> QED
  BY <1>1, <1>2, <1>3, <1>4 DEF LoopNext

\* A picture shows the sample that is running and no other, whenever the user
\* changes the sample within a frame.
THEOREM PictureOfCurrent == LoopSpec => []PictureIsCurrent
<1>1. LoopInit => IInv /\ ArtistsInv
  BY InitHolds DEF LoopInit, Init, ArtistsInv
<1>2. IInv /\ ArtistsInv /\ [LoopNext]_loopVars => IInv' /\ ArtistsInv'
  BY LoopStepIsStep, StepHolds, ArtistsStep
<1>3. IInv /\ ArtistsInv => PictureIsCurrent
  BY DEF IInv, OnlyCurrentRuns, ArtistsInv, PictureIsCurrent
<1> QED
  BY <1>1, <1>2, <1>3, PTL DEF LoopSpec

-----------------------------------------------------------------------------
(* The geometry of a frame.                                                *)

\* Each of the first p indices of I is that of one of the first n vertices of V, every
\* three corners belong to one shape, and no vertex is left out.
Points(V, n, I, p) ==
  /\ n \in Nat /\ p \in Nat /\ p % 3 = 0
  /\ \A k \in 1 .. p : I[k] \in 0 .. n - 1
  /\ \A j \in 1 .. p \div 3 :
       V[I[3 * j - 2] + 1] = V[I[3 * j - 1] + 1] /\ V[I[3 * j - 1] + 1] = V[I[3 * j] + 1]
  /\ \A v \in 0 .. n - 1 : \E k \in 1 .. p : I[k] = v

\* U holds the n vertices of V and then the m of W, L the p indices of I and then the
\* q of J, moved behind the vertices of V.
Joined(V, n, I, p, W, m, J, q, U, L) ==
  /\ \A k \in 1 .. n : U[k] = V[k]
  /\ \A k \in 1 .. m : U[n + k] = W[k]
  /\ \A k \in 1 .. p : L[k] = I[k]
  /\ \A k \in 1 .. q : L[p + k] = n + J[k]

\* The arithmetic of indices in threes.
LEMMA ThreeJoins ==
  ASSUME NEW p \in Nat, NEW q \in Nat, p % 3 = 0, q % 3 = 0
  PROVE  /\ (p + q) % 3 = 0 /\ (p + q) \div 3 = p \div 3 + q \div 3
         /\ 3 * (p \div 3) = p /\ 3 * (q \div 3) = q
OBVIOUS

\* The three indices of a triangle are in range.
LEMMA ThreeSplits ==
  ASSUME NEW p \in Nat, p % 3 = 0, NEW j \in 1 .. p \div 3
  PROVE  3 * j - 2 \in 1 .. p /\ 3 * j - 1 \in 1 .. p /\ 3 * j \in 1 .. p
OBVIOUS

\* Whole pictures, one drawn after the other, make a whole picture.
LEMMA PointsJoined ==
  ASSUME NEW V, NEW I, NEW W, NEW J, NEW U, NEW L,
         NEW n \in Nat, NEW m \in Nat, NEW p \in Nat, NEW q \in Nat,
         Points(V, n, I, p), Points(W, m, J, q), Joined(V, n, I, p, W, m, J, q, U, L)
  PROVE  Points(U, n + m, L, p + q)
<1>1. /\ p % 3 = 0 /\ q % 3 = 0
      /\ \A k \in 1 .. p : I[k] \in 0 .. n - 1
      /\ \A k \in 1 .. q : J[k] \in 0 .. m - 1
      /\ \A v \in 0 .. n - 1 : \E k \in 1 .. p : I[k] = v
      /\ \A v \in 0 .. m - 1 : \E k \in 1 .. q : J[k] = v
  BY DEF Points
<1>2. /\ \A j \in 1 .. p \div 3 :
           V[I[3 * j - 2] + 1] = V[I[3 * j - 1] + 1] /\ V[I[3 * j - 1] + 1] = V[I[3 * j] + 1]
      /\ \A j \in 1 .. q \div 3 :
           W[J[3 * j - 2] + 1] = W[J[3 * j - 1] + 1] /\ W[J[3 * j - 1] + 1] = W[J[3 * j] + 1]
  BY DEF Points
<1>3. ASSUME NEW k \in 1 .. p
      PROVE  L[k] \in 0 .. n + m - 1 /\ L[k] = I[k] /\ U[L[k] + 1] = V[I[k] + 1]
  <2>1. L[k] = I[k] /\ I[k] \in 0 .. n - 1
    BY <1>1 DEF Joined
  <2>2. I[k] + 1 \in 1 .. n
    BY <2>1
  <2>3. U[I[k] + 1] = V[I[k] + 1]
    BY <2>2 DEF Joined
  <2> QED
    BY <2>1, <2>3
<1>4. ASSUME NEW k \in 1 .. q
      PROVE  L[p + k] \in 0 .. n + m - 1 /\ L[p + k] = n + J[k] /\ U[L[p + k] + 1] = W[J[k] + 1]
  <2>1. L[p + k] = n + J[k] /\ J[k] \in 0 .. m - 1
    BY <1>1 DEF Joined
  <2>2. J[k] + 1 \in 1 .. m /\ L[p + k] + 1 = n + (J[k] + 1)
    BY <2>1
  <2>3. U[n + (J[k] + 1)] = W[J[k] + 1]
    BY <2>2 DEF Joined
  <2> QED
    BY <2>1, <2>2, <2>3
<1>5. ASSUME NEW k \in 1 .. p + q PROVE L[k] \in 0 .. n + m - 1
  <2>1. CASE k <= p
    BY <1>3, <2>1
  <2>2. CASE k > p
    <3>1. k - p \in 1 .. q /\ p + (k - p) = k
      BY <2>2
    <3> QED
      BY <1>4, <3>1
  <2> QED
    BY <2>1, <2>2
<1>6. /\ (p + q) % 3 = 0 /\ (p + q) \div 3 = p \div 3 + q \div 3
      /\ p \div 3 \in Nat /\ q \div 3 \in Nat
      /\ 3 * (p \div 3) = p /\ 3 * (q \div 3) = q
  BY <1>1, ThreeJoins
<1>7. ASSUME NEW j \in 1 .. (p + q) \div 3
      PROVE  /\ U[L[3 * j - 2] + 1] = U[L[3 * j - 1] + 1]
             /\ U[L[3 * j - 1] + 1] = U[L[3 * j] + 1]
  <2>1. CASE j <= p \div 3
    <3>1. j \in 1 .. p \div 3
      BY <2>1
    <3>2. 3 * j - 2 \in 1 .. p /\ 3 * j - 1 \in 1 .. p /\ 3 * j \in 1 .. p
      BY <1>1, <3>1, ThreeSplits
    <3>3. /\ U[L[3 * j - 2] + 1] = V[I[3 * j - 2] + 1]
          /\ U[L[3 * j - 1] + 1] = V[I[3 * j - 1] + 1]
          /\ U[L[3 * j] + 1] = V[I[3 * j] + 1]
      BY <1>3, <3>2
    <3> QED
      BY <1>2, <3>1, <3>3
  <2>2. CASE j > p \div 3
    <3>1. PICK i \in 1 .. q \div 3 : j = p \div 3 + i
      <4>1. j - p \div 3 \in 1 .. q \div 3 /\ j = p \div 3 + (j - p \div 3)
        BY <1>6, <2>2
      <4> QED
        BY <4>1
    <3>2. 3 * i - 2 \in 1 .. q /\ 3 * i - 1 \in 1 .. q /\ 3 * i \in 1 .. q
      BY <1>1, ThreeSplits
    <3>3. 3 * j - 2 = p + (3 * i - 2) /\ 3 * j - 1 = p + (3 * i - 1) /\ 3 * j = p + 3 * i
      BY <1>6, <3>1
    <3>4. /\ U[L[p + (3 * i - 2)] + 1] = W[J[3 * i - 2] + 1]
          /\ U[L[p + (3 * i - 1)] + 1] = W[J[3 * i - 1] + 1]
          /\ U[L[p + 3 * i] + 1] = W[J[3 * i] + 1]
      BY <1>4, <3>2
    <3> QED
      BY <1>2, <3>3, <3>4
  <2> QED
    BY <1>6, <2>1, <2>2
<1>8. ASSUME NEW v \in 0 .. n + m - 1 PROVE \E k \in 1 .. p + q : L[k] = v
  <2>1. CASE v < n
    <3>1. PICK k \in 1 .. p : I[k] = v
      BY <1>1, <2>1
    <3>2. k \in 1 .. p + q /\ L[k] = v
      BY <1>3, <3>1
    <3> QED
      BY <3>2
  <2>2. CASE v >= n
    <3>1. v - n \in 0 .. m - 1
      BY <2>2
    <3>2. PICK k \in 1 .. q : J[k] = v - n
      BY <1>1, <3>1
    <3>3. L[p + k] = n + (v - n) /\ n + (v - n) = v
      BY <1>4, <3>2
    <3>4. p + k \in 1 .. p + q
      OBVIOUS
    <3> QED
      BY <3>3, <3>4
  <2> QED
    BY <2>1, <2>2
<1>9. n + m \in Nat /\ p + q \in Nat
  OBVIOUS
<1> QED
  BY <1>5, <1>6, <1>7, <1>8, <1>9 DEF Points

\* The vertices and indices of a frame are whole.
Whole(V, I) == V \in Seq(Nat) /\ I \in Seq(Nat) /\ Points(V, Len(V), I, Len(I))

\* A function on 1 .. n is a sequence of that length.
LEMMA FunctionIsSequence ==
  ASSUME NEW n \in Nat, NEW F, DOMAIN F = 1 .. n, F = [k \in 1 .. n |-> F[k]],
         \A k \in 1 .. n : F[k] \in Nat
  PROVE  F \in Seq(Nat) /\ Len(F) = n
<1>1. F \in [1 .. n -> Nat]
  OBVIOUS
<1> QED
  BY <1>1

\* What a sequence of numbers behind another one holds.
LEMMA Concatenated ==
  ASSUME NEW A \in Seq(Nat), NEW B \in Seq(Nat)
  PROVE  /\ A \o B \in Seq(Nat) /\ Len(A \o B) = Len(A) + Len(B)
         /\ \A k \in 1 .. Len(A) : (A \o B)[k] = A[k]
         /\ \A k \in 1 .. Len(B) : (A \o B)[Len(A) + k] = B[k]
<1>1. Len(A) \in Nat /\ Len(B) \in Nat
  OBVIOUS
<1>2. A \o B \in Seq(Nat) /\ Len(A \o B) = Len(A) + Len(B)
  OBVIOUS
<1>3. \A k \in 1 .. Len(A) : (A \o B)[k] = A[k]
  OBVIOUS
<1>4. ASSUME NEW k \in 1 .. Len(B) PROVE (A \o B)[Len(A) + k] = B[k]
  <2>1. Len(A) + k \in 1 .. Len(A) + Len(B) /\ Len(A) + k > Len(A)
    BY <1>1
  <2> QED
    BY <1>1, <2>1
<1> QED
  BY <1>2, <1>3, <1>4

\* The first m vertices of W and q indices of J behind those of V and I.
Behind(V, I, W, m, J, q, U, L) ==
  /\ DOMAIN W = 1 .. m /\ W = [k \in 1 .. m |-> W[k]] /\ U = V \o W
  /\ L = I \o [k \in 1 .. q |-> Len(V) + J[k]]

\* A whole picture stays whole when a whole one is put behind it.
LEMMA WholeJoined ==
  ASSUME NEW V, NEW I, NEW W, NEW J, NEW U, NEW L, NEW m, NEW q,
         Whole(V, I), Points(W, m, J, q), \A k \in 1 .. m : W[k] \in Nat,
         Behind(V, I, W, m, J, q, U, L)
  PROVE  Whole(U, L)
<1>1. /\ m \in Nat /\ q \in Nat /\ V \in Seq(Nat) /\ I \in Seq(Nat)
      /\ Len(V) \in Nat /\ Len(I) \in Nat
  BY DEF Whole, Points
<1> DEFINE n == Len(V)
           p == Len(I)
           K == [k \in 1 .. q |-> n + J[k]]
<1>2. \A k \in 1 .. q : J[k] \in 0 .. m - 1
  BY DEF Points
<1>3. W \in Seq(Nat) /\ Len(W) = m
  BY <1>1, FunctionIsSequence DEF Behind
<1>4. K \in Seq(Nat) /\ Len(K) = q /\ \A k \in 1 .. q : K[k] = n + J[k]
  <2>1. K \in [1 .. q -> Nat]
    BY <1>1, <1>2
  <2> QED
    BY <1>1, <2>1
<1>5. U = V \o W /\ L = I \o K
  BY DEF Behind
<1> HIDE DEF K
<1>6. /\ U \in Seq(Nat) /\ Len(U) = n + m
      /\ \A k \in 1 .. n : U[k] = V[k]
      /\ \A k \in 1 .. m : U[n + k] = W[k]
  <2>1. /\ V \o W \in Seq(Nat) /\ Len(V \o W) = Len(V) + Len(W)
        /\ \A k \in 1 .. Len(V) : (V \o W)[k] = V[k]
        /\ \A k \in 1 .. Len(W) : (V \o W)[Len(V) + k] = W[k]
    BY <1>1, <1>3, Concatenated
  <2> QED
    BY <1>3, <1>5, <2>1
<1>7. /\ L \in Seq(Nat) /\ Len(L) = p + q
      /\ \A k \in 1 .. p : L[k] = I[k]
      /\ \A k \in 1 .. q : L[p + k] = n + J[k]
  <2>1. /\ I \o K \in Seq(Nat) /\ Len(I \o K) = Len(I) + Len(K)
        /\ \A k \in 1 .. Len(I) : (I \o K)[k] = I[k]
        /\ \A k \in 1 .. Len(K) : (I \o K)[Len(I) + k] = K[k]
    BY <1>1, <1>4, Concatenated
  <2> QED
    BY <1>4, <1>5, <2>1
<1>8. Joined(V, n, I, p, W, m, J, q, U, L)
  BY <1>6, <1>7 DEF Joined
<1>9. Points(V, n, I, p)
  BY DEF Whole
<1>10. Points(U, n + m, L, p + q)
  BY <1>1, <1>8, <1>9, PointsJoined
<1> QED
  BY <1>6, <1>7, <1>10 DEF Whole

\* l triangles over the vertices 0 .. n - 1 of a shape, with no vertex left out.
Covers(tr, l, n) ==
  /\ \A j \in 1 .. l : \A i \in 1 .. 3 : tr[j][i] \in 0 .. n - 1
  /\ \A v \in 0 .. n - 1 : \E j \in 1 .. l : \E i \in 1 .. 3 : tr[j][i] = v

\* Within its range a number is its own remainder.
LEMMA SmallQuotient ==
  ASSUME NEW n \in Nat \ {0}, NEW k \in 0 .. n - 1
  PROVE  k \div n = 0 /\ k % n = k
OBVIOUS

\* An index names a triangle and one of its corners.
LEMMA ThreeDivides ==
  ASSUME NEW l \in Nat, NEW k \in 1 .. 3 * l
  PROVE  (k - 1) \div 3 + 1 \in 1 .. l /\ ((k - 1) % 3) + 1 \in 1 .. 3
OBVIOUS

\* A corner of a triangle has an index.
LEMMA ThreeMeets ==
  ASSUME NEW l \in Nat, NEW j \in 1 .. l, NEW i \in 1 .. 3, NEW k, k = 3 * (j - 1) + i
  PROVE  k \in 1 .. 3 * l /\ (k - 1) \div 3 + 1 = j /\ ((k - 1) % 3) + 1 = i
<1>1. k \in 1 .. 3 * l /\ k - 1 = 3 * (j - 1) + (i - 1) /\ i - 1 \in 0 .. 2 /\ j - 1 \in Nat
  OBVIOUS
<1>2. (k - 1) \div 3 = j - 1 /\ (k - 1) % 3 = i - 1
  BY <1>1
<1> QED
  BY <1>1, <1>2

\* The corners of a shape's triangles, in the order of the indices.
Corner(tr, r) == tr[(r \div 3) + 1][(r % 3) + 1]

\* A single shape of n vertices and l triangles, s being the shapes before it.
Single(W, n, J, l, s, tr) ==
  /\ \A k \in 1 .. n : W[k] = s + 1
  /\ \A k \in 1 .. 3 * l : J[k] = Corner(tr, k - 1)

\* A shape whose triangles leave out no vertex is whole.
LEMMA SinglePoints ==
  ASSUME NEW W, NEW J, NEW s, NEW tr, NEW n \in Nat, NEW l \in Nat,
         Covers(tr, l, n), Single(W, n, J, l, s, tr)
  PROVE  Points(W, n, J, 3 * l)
<1>1. ASSUME NEW k \in 1 .. 3 * l PROVE J[k] \in 0 .. n - 1 /\ W[J[k] + 1] = s + 1
  <2>1. (k - 1) \div 3 + 1 \in 1 .. l /\ ((k - 1) % 3) + 1 \in 1 .. 3
    BY ThreeDivides
  <2>2. J[k] \in 0 .. n - 1
    BY <2>1 DEF Single, Corner, Covers
  <2>3. J[k] + 1 \in 1 .. n
    BY <2>2
  <2> QED
    BY <2>2, <2>3 DEF Single
<1>2. (3 * l) % 3 = 0 /\ (3 * l) \div 3 = l /\ 3 * l \in Nat
  OBVIOUS
<1>3. ASSUME NEW j \in 1 .. l
      PROVE  W[J[3 * j - 2] + 1] = W[J[3 * j - 1] + 1] /\ W[J[3 * j - 1] + 1] = W[J[3 * j] + 1]
  <2>1. 3 * j - 2 \in 1 .. 3 * l /\ 3 * j - 1 \in 1 .. 3 * l /\ 3 * j \in 1 .. 3 * l
    OBVIOUS
  <2> QED
    BY <1>1, <2>1
<1>4. ASSUME NEW v \in 0 .. n - 1 PROVE \E k \in 1 .. 3 * l : J[k] = v
  <2>1. PICK j \in 1 .. l : \E i \in 1 .. 3 : tr[j][i] = v
    BY DEF Covers
  <2>2. PICK i \in 1 .. 3 : tr[j][i] = v
    BY <2>1
  <2> DEFINE k == 3 * (j - 1) + i
  <2>3. k \in 1 .. 3 * l /\ (k - 1) \div 3 + 1 = j /\ ((k - 1) % 3) + 1 = i
    BY ThreeMeets
  <2> HIDE DEF k
  <2>4. J[k] = v
    BY <2>2, <2>3 DEF Single, Corner
  <2> QED
    BY <2>3, <2>4
<1> QED
  BY <1>1, <1>2, <1>3, <1>4 DEF Points

\* The arithmetic of blocks of four vertices and of six indices.
LEMMA SixDivides ==
  ASSUME NEW m \in Nat, NEW k \in 1 .. m * 6
  PROVE  (k - 1) \div 6 \in 0 .. m - 1 /\ (k - 1) % 6 \in 0 .. 5
OBVIOUS

\* An index is found from its block and its place in the block.
LEMMA SixJoins ==
  ASSUME NEW m \in Nat, NEW d \in 0 .. m - 1, NEW r \in 0 .. 5, NEW k, k = 6 * d + r + 1
  PROVE  k \in 1 .. m * 6 /\ (k - 1) \div 6 = d /\ (k - 1) % 6 = r
<1>1. k - 1 = 6 * d + r /\ k \in 1 .. m * 6
  OBVIOUS
<1> QED
  BY <1>1

\* The three indices of a triangle are in one block.
LEMMA SixInThrees ==
  ASSUME NEW m \in Nat, NEW j \in 1 .. m * 2
  PROVE  /\ 3 * j - 2 \in 1 .. m * 6 /\ 3 * j - 1 \in 1 .. m * 6 /\ 3 * j \in 1 .. m * 6
         /\ ((3 * j - 2) - 1) \div 6 = ((3 * j - 1) - 1) \div 6
         /\ ((3 * j - 1) - 1) \div 6 = ((3 * j) - 1) \div 6
<1>1. PICK h \in Nat : j = 2 * h + 1 \/ j = 2 * h + 2
  <2>1. (j - 1) \div 2 \in Nat /\ (j = 2 * ((j - 1) \div 2) + 1 \/ j = 2 * ((j - 1) \div 2) + 2)
    OBVIOUS
  <2> QED
    BY <2>1
<1>2. CASE j = 2 * h + 1
  <2>1. (6 * h) \div 6 = h /\ (6 * h + 1) \div 6 = h /\ (6 * h + 2) \div 6 = h
    OBVIOUS
  <2>2. (3 * j - 2) - 1 = 6 * h /\ (3 * j - 1) - 1 = 6 * h + 1 /\ (3 * j) - 1 = 6 * h + 2
    BY <1>2
  <2> QED
    BY <1>2, <2>1, <2>2
<1>3. CASE j = 2 * h + 2
  <2>1. (6 * h + 3) \div 6 = h /\ (6 * h + 4) \div 6 = h /\ (6 * h + 5) \div 6 = h
    OBVIOUS
  <2>2. (3 * j - 2) - 1 = 6 * h + 3 /\ (3 * j - 1) - 1 = 6 * h + 4 /\ (3 * j) - 1 = 6 * h + 5
    BY <1>3
  <2> QED
    BY <1>3, <2>1, <2>2
<1> QED
  BY <1>1, <1>2, <1>3

\* A vertex is found from its block and its place in the block.
LEMMA FourJoins ==
  ASSUME NEW m \in Nat, NEW d \in 0 .. m - 1, NEW c \in 0 .. 3, NEW v, v = 4 * d + c
  PROVE  v \in 0 .. m * 4 - 1 /\ v \div 4 = d
OBVIOUS

\* Every vertex is in a block.
LEMMA FourDivides ==
  ASSUME NEW m \in Nat, NEW v \in 0 .. m * 4 - 1
  PROVE  \E d \in 0 .. m - 1 : \E c \in 0 .. 3 : v = 4 * d + c
<1>1. v \div 4 \in 0 .. m - 1 /\ v % 4 \in 0 .. 3 /\ v = 4 * (v \div 4) + (v % 4)
  OBVIOUS
<1> QED
  BY <1>1

\* The two triangles of a rectangle.
RectangleTriples == << <<0, 1, 2>>, <<0, 2, 3>> >>

\* The six corners of a rectangle, in the order of the indices.
LEMMA RectangleCorners ==
  /\ Corner(RectangleTriples, 0) = 0 /\ Corner(RectangleTriples, 1) = 1
  /\ Corner(RectangleTriples, 2) = 2 /\ Corner(RectangleTriples, 3) = 0
  /\ Corner(RectangleTriples, 4) = 2 /\ Corner(RectangleTriples, 5) = 3
BY DEF Corner, RectangleTriples

\* m rectangles, s being the shapes before them.
Rectangles(W, m, J, s) ==
  /\ \A k \in 1 .. m * 4 : W[k] = s + 1 + (k - 1) \div 4
  /\ \A k \in 1 .. m * 6 :
       J[k] = 4 * ((k - 1) \div 6) + Corner(RectangleTriples, (k - 1) % 6)

\* Any number of rectangles is whole.
LEMMA RectanglesPoints ==
  ASSUME NEW m \in Nat, NEW s \in Nat, NEW W, NEW J, Rectangles(W, m, J, s)
  PROVE  Points(W, m * 4, J, m * 6)
<1>1. \A r \in 0 .. 5 : Corner(RectangleTriples, r) \in 0 .. 3
  <2>1. \A r \in 0 .. 5 : r = 0 \/ r = 1 \/ r = 2 \/ r = 3 \/ r = 4 \/ r = 5
    OBVIOUS
  <2> QED
    BY <2>1, RectangleCorners
<1>2. ASSUME NEW k \in 1 .. m * 6
      PROVE  J[k] \in 0 .. m * 4 - 1 /\ W[J[k] + 1] = s + 1 + (k - 1) \div 6
  <2> DEFINE d == (k - 1) \div 6
             c == Corner(RectangleTriples, (k - 1) % 6)
             v == J[k]
  <2>1. d \in 0 .. m - 1 /\ c \in 0 .. 3
    BY <1>1, SixDivides
  <2>2. v = 4 * d + c
    BY DEF Rectangles
  <2> HIDE DEF d, c, v
  <2>3. v \in 0 .. m * 4 - 1 /\ v \div 4 = d
    BY <2>1, <2>2, FourJoins
  <2>4. v + 1 \in 1 .. m * 4 /\ (v + 1) - 1 = v
    BY <2>3
  <2>5. W[v + 1] = s + 1 + ((v + 1) - 1) \div 4
    BY <2>4 DEF Rectangles
  <2> QED
    BY <2>3, <2>4, <2>5 DEF d, v
<1>3. (m * 6) % 3 = 0 /\ (m * 6) \div 3 = m * 2 /\ m * 4 \in Nat /\ m * 6 \in Nat
  OBVIOUS
<1>4. ASSUME NEW j \in 1 .. m * 2
      PROVE  W[J[3 * j - 2] + 1] = W[J[3 * j - 1] + 1] /\ W[J[3 * j - 1] + 1] = W[J[3 * j] + 1]
  <2>1. /\ 3 * j - 2 \in 1 .. m * 6 /\ 3 * j - 1 \in 1 .. m * 6 /\ 3 * j \in 1 .. m * 6
        /\ ((3 * j - 2) - 1) \div 6 = ((3 * j - 1) - 1) \div 6
        /\ ((3 * j - 1) - 1) \div 6 = ((3 * j) - 1) \div 6
    BY SixInThrees
  <2>2. /\ W[J[3 * j - 2] + 1] = s + 1 + ((3 * j - 2) - 1) \div 6
        /\ W[J[3 * j - 1] + 1] = s + 1 + ((3 * j - 1) - 1) \div 6
        /\ W[J[3 * j] + 1] = s + 1 + ((3 * j) - 1) \div 6
    BY <1>2, <2>1
  <2> QED
    BY <2>1, <2>2
<1>5. ASSUME NEW v \in 0 .. m * 4 - 1 PROVE \E k \in 1 .. m * 6 : J[k] = v
  <2>1. PICK d \in 0 .. m - 1 : \E c \in 0 .. 3 : v = 4 * d + c
    BY FourDivides
  <2>2. PICK c \in 0 .. 3 : v = 4 * d + c
    BY <2>1
  <2>3. PICK r \in 0 .. 5 : Corner(RectangleTriples, r) = c
    <3>1. c = 0 \/ c = 1 \/ c = 2 \/ c = 3
      OBVIOUS
    <3> QED
      BY <3>1, RectangleCorners
  <2> DEFINE k == 6 * d + r + 1
  <2>4. k \in 1 .. m * 6 /\ (k - 1) \div 6 = d /\ (k - 1) % 6 = r
    BY SixJoins
  <2> HIDE DEF k
  <2>5. J[k] = 4 * d + c
    BY <2>3, <2>4 DEF Rectangles
  <2> QED
    BY <2>2, <2>4, <2>5
<1> QED
  BY <1>2, <1>3, <1>4, <1>5 DEF Points

\* What Add adds for shapes of n vertices each, s being the shapes before them.
Adds(V, I, s, times, n, tr, U, L) ==
  /\ U = V \o [k \in 1 .. times * n |-> s + 1 + (k - 1) \div n]
  /\ L = I \o [k \in 1 .. times * (3 * Len(tr)) |->
                 Len(V) + (n * ((k - 1) \div (3 * Len(tr)))
                             + Corner(tr, (k - 1) % (3 * Len(tr))))]

\* A shape added to a whole picture leaves it whole.
LEMMA SingleAdded ==
  ASSUME NEW V, NEW I, NEW s \in Nat, NEW n \in Nat \ {0}, NEW tr, NEW U, NEW L,
         NEW l \in Nat, l = Len(tr), Whole(V, I), Covers(tr, l, n),
         Adds(V, I, s, 1, n, tr, U, L)
  PROVE  Whole(U, L)
<1> DEFINE W == [k \in 1 .. n |-> s + 1]
           J == [k \in 1 .. 3 * l |-> Corner(tr, k - 1)]
           W1 == [k \in 1 .. 1 * n |-> s + 1 + (k - 1) \div n]
           J1 == [k \in 1 .. 1 * (3 * l) |->
                    Len(V) + (n * ((k - 1) \div (3 * l)) + Corner(tr, (k - 1) % (3 * l)))]
           J2 == [k \in 1 .. 3 * l |-> Len(V) + J[k]]
<1>1. W1 = W
  <2>1. ASSUME NEW k \in 1 .. n PROVE s + 1 + (k - 1) \div n = s + 1
    <3>1. k - 1 \in 0 .. n - 1
      OBVIOUS
    <3>2. (k - 1) \div n = 0
      BY <3>1, SmallQuotient
    <3> QED
      BY <3>2
  <2>2. 1 .. 1 * n = 1 .. n
    OBVIOUS
  <2> QED
    BY <2>1, <2>2
<1>2. Points(W, n, J, 3 * l)
  <2>1. Single(W, n, J, l, s, tr)
    BY DEF Single
  <2> QED
    BY <2>1, SinglePoints
<1>3. J1 = J2
  <2>1. ASSUME NEW k \in 1 .. 3 * l
        PROVE  Len(V) + (n * ((k - 1) \div (3 * l)) + Corner(tr, (k - 1) % (3 * l)))
                 = Len(V) + J[k]
    <3>1. k - 1 \in 0 .. 3 * l - 1 /\ 3 * l \in Nat \ {0}
      OBVIOUS
    <3>2. (k - 1) \div (3 * l) = 0 /\ (k - 1) % (3 * l) = k - 1
      BY <3>1, SmallQuotient
    <3>3. J[k] = Corner(tr, k - 1) /\ J[k] \in 0 .. n - 1
      BY <1>2 DEF Points
    <3>4. n * 0 + J[k] = J[k]
      BY <3>3
    <3> QED
      BY <3>2, <3>3, <3>4
  <2>2. 1 .. 1 * (3 * l) = 1 .. 3 * l
    OBVIOUS
  <2> QED
    BY <2>1, <2>2
<1>4. U = V \o W1 /\ L = I \o J1
  BY DEF Adds
<1>5. DOMAIN W = 1 .. n /\ W = [k \in 1 .. n |-> W[k]] /\ \A k \in 1 .. n : W[k] \in Nat
  OBVIOUS
<1> HIDE DEF W, J, W1, J1
<1>6. Behind(V, I, W, n, J, 3 * l, U, L)
  BY <1>1, <1>3, <1>4, <1>5 DEF Behind
<1> QED
  BY <1>2, <1>5, <1>6, WholeJoined

\* Rectangles added to a whole picture leave it whole.
LEMMA RectanglesAdded ==
  ASSUME NEW V, NEW I, NEW s \in Nat, NEW m \in Nat, NEW U, NEW L, Whole(V, I),
         Adds(V, I, s, m, 4, RectangleTriples, U, L)
  PROVE  Whole(U, L)
<1> DEFINE W == [k \in 1 .. m * 4 |-> s + 1 + (k - 1) \div 4]
           J == [k \in 1 .. m * 6 |->
                   4 * ((k - 1) \div 6) + Corner(RectangleTriples, (k - 1) % 6)]
           J1 == [k \in 1 .. m * 6 |->
                    Len(V) + (4 * ((k - 1) \div 6) + Corner(RectangleTriples, (k - 1) % 6))]
           J2 == [k \in 1 .. m * 6 |-> Len(V) + J[k]]
<1>1. 3 * Len(RectangleTriples) = 6
  BY DEF RectangleTriples
<1>2. U = V \o W /\ L = I \o J1
  BY <1>1 DEF Adds
<1>3. J1 = J2
  OBVIOUS
<1>4. Points(W, m * 4, J, m * 6)
  <2>1. Rectangles(W, m, J, s)
    BY DEF Rectangles
  <2> QED
    BY <2>1, RectanglesPoints
<1>5. /\ DOMAIN W = 1 .. m * 4 /\ W = [k \in 1 .. m * 4 |-> W[k]]
      /\ \A k \in 1 .. m * 4 : W[k] \in Nat
  OBVIOUS
<1> HIDE DEF W, J, J1
<1>6. Behind(V, I, W, m * 4, J, m * 6, U, L)
  BY <1>2, <1>3, <1>5 DEF Behind
<1> QED
  BY <1>4, <1>5, <1>6, WholeJoined

\* A fan of l triangles and a last one that closes it.
Closed(tr, l, a, c) ==
  /\ Len(tr) = l + 1
  /\ \A k \in 1 .. l : tr[k] = <<0, a + k - 1, a + k>>
  /\ tr[l + 1] = <<0, a + l, c>>

\* The type of a triangle.
Triples == Nat \X Nat \X Nat

\* What a sequence of triangles behind another one holds.
LEMMA TriplesConcatenated ==
  ASSUME NEW A \in Seq(Triples), NEW B \in Seq(Triples)
  PROVE  /\ A \o B \in Seq(Triples) /\ Len(A \o B) = Len(A) + Len(B)
         /\ \A k \in 1 .. Len(A) : (A \o B)[k] = A[k]
         /\ \A k \in 1 .. Len(B) : (A \o B)[Len(A) + k] = B[k]
<1>1. Len(A) \in Nat /\ Len(B) \in Nat
  OBVIOUS
<1>2. A \o B \in Seq(Triples) /\ Len(A \o B) = Len(A) + Len(B)
  OBVIOUS
<1>3. \A k \in 1 .. Len(A) : (A \o B)[k] = A[k]
  OBVIOUS
<1>4. ASSUME NEW k \in 1 .. Len(B) PROVE (A \o B)[Len(A) + k] = B[k]
  <2>1. Len(A) + k \in 1 .. Len(A) + Len(B) /\ Len(A) + k > Len(A)
    BY <1>1
  <2> QED
    BY <1>1, <2>1
<1> QED
  BY <1>2, <1>3, <1>4

\* A fan and the last triangle make a closed fan.
LEMMA FanClosed ==
  ASSUME NEW a \in Nat, NEW l \in Nat, NEW b, b = a + l, NEW c \in Nat
  PROVE  Closed(G!Fan(a, b) \o << <<0, b, c>> >>, l, a, c)
<1> DEFINE F == G!Fan(a, b)
           E == << <<0, b, c>> >>
<1>1. F \in Seq(Triples) /\ Len(F) = l /\ \A k \in 1 .. l : F[k] = <<0, a + k - 1, a + k>>
  <2>1. b - a = l /\ \A k \in 1 .. l : <<0, a + k - 1, a + k>> \in Triples
    BY DEF Triples
  <2>2. F = [k \in 1 .. l |-> <<0, a + k - 1, a + k>>]
    BY <2>1 DEF G!Fan
  <2> HIDE DEF F
  <2>3. F \in [1 .. l -> Triples] /\ \A k \in 1 .. l : F[k] = <<0, a + k - 1, a + k>>
    BY <2>1, <2>2
  <2>4. F \in Seq(Triples) /\ Len(F) = l
    BY <2>3
  <2> QED
    BY <2>3, <2>4
<1>2. E \in Seq(Triples) /\ Len(E) = 1 /\ E[1] = <<0, b, c>>
  <2>1. <<0, b, c>> \in Triples
    BY DEF Triples
  <2> QED
    BY <2>1
<1> HIDE DEF F, E
<1>3. /\ Len(F \o E) = Len(F) + Len(E)
      /\ \A k \in 1 .. Len(F) : (F \o E)[k] = F[k]
      /\ \A k \in 1 .. Len(E) : (F \o E)[Len(F) + k] = E[k]
  BY <1>1, <1>2, TriplesConcatenated
<1>4. (F \o E)[l + 1] = <<0, b, c>>
  <2>1. 1 \in 1 .. Len(E)
    BY <1>2
  <2> QED
    BY <1>1, <1>2, <1>3, <2>1
<1>5. Closed(F \o E, l, a, c)
  BY <1>1, <1>2, <1>3, <1>4 DEF Closed
<1> QED
  BY <1>5 DEF F, E

\* It leaves out no vertex.
LEMMA ClosedCovers ==
  ASSUME NEW a \in {0, 1}, NEW l \in Nat, NEW c \in 0 .. a + l, NEW tr, Closed(tr, l, a, c)
  PROVE  Covers(tr, l + 1, a + l + 1)
<1>1. ASSUME NEW j \in 1 .. l + 1
      PROVE  tr[j][1] = 0 /\ tr[j][2] = a + j - 1 /\ tr[j][3] \in 0 .. a + l
  <2>1. CASE j \in 1 .. l
    <3>1. tr[j] = <<0, a + j - 1, a + j>>
      BY <2>1 DEF Closed
    <3>2. a + j \in 0 .. a + l
      BY <2>1
    <3>3. tr[j][1] = 0 /\ tr[j][2] = a + j - 1 /\ tr[j][3] = a + j
      BY <3>1
    <3> QED
      BY <3>2, <3>3
  <2>2. CASE j = l + 1
    <3>1. tr[j] = <<0, a + l, c>>
      BY <2>2 DEF Closed
    <3>2. a + l = a + j - 1
      BY <2>2
    <3>3. tr[j][1] = 0 /\ tr[j][2] = a + l /\ tr[j][3] = c
      BY <3>1
    <3> QED
      BY <3>2, <3>3
  <2>3. j \in 1 .. l \/ j = l + 1
    OBVIOUS
  <2> QED
    BY <2>1, <2>2, <2>3
<1>2. ASSUME NEW j \in 1 .. l + 1, NEW i \in 1 .. 3 PROVE tr[j][i] \in 0 .. (a + l + 1) - 1
  <2>1. i = 1 \/ i = 2 \/ i = 3
    OBVIOUS
  <2>2. a + j - 1 \in 0 .. a + l /\ 0 \in 0 .. a + l /\ (a + l + 1) - 1 = a + l
    OBVIOUS
  <2>3. tr[j][1] \in 0 .. a + l /\ tr[j][2] \in 0 .. a + l /\ tr[j][3] \in 0 .. a + l
    BY <1>1, <2>2
  <2> QED
    BY <2>1, <2>2, <2>3
<1>3. ASSUME NEW v \in 0 .. (a + l + 1) - 1
      PROVE  \E j \in 1 .. l + 1 : \E i \in 1 .. 3 : tr[j][i] = v
  <2>1. CASE v < a
    <3>1. 1 \in 1 .. l + 1 /\ v = 0 /\ 1 \in 1 .. 3
      BY <2>1
    <3>2. tr[1][1] = v
      BY <1>1, <3>1
    <3> QED
      BY <3>1, <3>2
  <2>2. CASE v >= a
    <3> DEFINE j == v - a + 1
    <3>1. j \in 1 .. l + 1 /\ a + j - 1 = v /\ 2 \in 1 .. 3
      BY <2>2
    <3> HIDE DEF j
    <3>2. tr[j][2] = v
      BY <1>1, <3>1
    <3> QED
      BY <3>1, <3>2
  <2> QED
    BY <2>1, <2>2
<1> QED
  BY <1>2, <1>3 DEF Covers

\* The rectangle is an open fan of two triangles.
LEMMA FanIsRectangle == G!RectangleTriangles = RectangleTriples
<1>1. 1 .. 3 - 1 = 1 .. 2
  OBVIOUS
<1>2. G!RectangleTriangles = [k \in 1 .. 2 |-> <<0, 1 + k - 1, 1 + k>>]
  BY <1>1 DEF G!RectangleTriangles, G!Fan
<1>3. \A k \in 1 .. 2 : RectangleTriples[k] = <<0, 1 + k - 1, 1 + k>>
  <2>1. \A k \in 1 .. 2 : k = 1 \/ k = 2
    OBVIOUS
  <2>2. RectangleTriples[1] = <<0, 1, 2>> /\ RectangleTriples[2] = <<0, 2, 3>>
    BY DEF RectangleTriples
  <2> QED
    BY <2>1, <2>2
<1>4. RectangleTriples = [k \in 1 .. 2 |-> RectangleTriples[k]]
  BY DEF RectangleTriples
<1> QED
  BY <1>2, <1>3, <1>4

\* An action of the geometry adds what Adds says.
LEMMA AddAdds ==
  ASSUME NEW times, NEW n, NEW tr, G!Add(times, n, tr)
  PROVE  /\ shapes' = shapes + times
         /\ Adds(Vertices, TriangleIndices, shapes, times, n, tr, Vertices', TriangleIndices')
BY DEF G!Add, G!Offset, Adds, Corner

\* The inductive invariant of the geometry.
Picture == shapes \in Nat /\ Whole(Vertices, TriangleIndices)

\* Every shape leaves the picture whole.
LEMMA ShapeKeepsPicture == Picture /\ G!Shape => Picture'
<1> SUFFICES ASSUME Picture, G!Shape PROVE Picture'
  OBVIOUS
<1>1. shapes \in Nat /\ Whole(Vertices, TriangleIndices)
  BY DEF Picture
<1>2. ASSUME NEW a \in {0, 1}, NEW b \in Nat, a <= b, NEW c \in 0 .. b,
             G!Add(1, b + 1, G!Fan(a, b) \o << <<0, b, c>> >>)
      PROVE  Picture'
  <2> DEFINE tr == G!Fan(a, b) \o << <<0, b, c>> >>
           l == b - a
  <2>0. l \in Nat /\ b = a + l /\ l + 1 \in Nat /\ a \in Nat /\ c \in Nat
    BY <1>2
  <2> HIDE DEF l
  <2>1. Len(tr) = l + 1 /\ Covers(tr, l + 1, b + 1)
    <3>1. Closed(tr, l, a, c)
      BY <2>0, FanClosed
    <3> HIDE DEF tr
    <3>2. c \in 0 .. a + l
      BY <2>0
    <3>3. Covers(tr, l + 1, a + l + 1)
      BY <2>0, <3>1, <3>2, ClosedCovers
    <3> QED
      BY <2>0, <3>1, <3>3 DEF Closed
  <2>2. /\ shapes' = shapes + 1
        /\ Adds(Vertices, TriangleIndices, shapes, 1, b + 1, tr, Vertices', TriangleIndices')
    BY <1>2, AddAdds
  <2> HIDE DEF tr
  <2>3. b + 1 \in Nat \ {0}
    OBVIOUS
  <2>4. Whole(Vertices', TriangleIndices')
    BY <1>1, <2>0, <2>1, <2>2, <2>3, SingleAdded
  <2>5. shapes' \in Nat
    BY <1>1, <2>2
  <2> QED
    BY <2>4, <2>5 DEF Picture
<1>3. ASSUME NEW lines \in {0, 1, 2, 4}, G!Add(lines, 4, G!RectangleTriangles) PROVE Picture'
  <2>1. /\ shapes' = shapes + lines /\ lines \in Nat
        /\ Adds(Vertices, TriangleIndices, shapes, lines, 4, RectangleTriples,
                Vertices', TriangleIndices')
    BY <1>3, AddAdds, FanIsRectangle
  <2>2. Whole(Vertices', TriangleIndices')
    BY <1>1, <2>1, RectanglesAdded
  <2>3. shapes' \in Nat
    BY <1>1, <2>1
  <2> QED
    BY <2>2, <2>3 DEF Picture
<1>4. CASE G!Circle
  <2> DEFINE b == CircleSegmentCount - 1
  <2>1. b \in Nat /\ b + 1 = CircleSegmentCount /\ 0 <= b /\ 0 \in 0 .. b
    BY GeometryAssumption
  <2>2. G!Add(1, b + 1, G!Fan(0, b) \o << <<0, b, 0>> >>)
    BY <1>4, <2>1 DEF G!Circle, G!CircleTriangles
  <2> HIDE DEF b
  <2> QED
    BY <1>2, <2>1, <2>2
<1>5. CASE \E n \in PolygonSizes : G!Polygon(n)
  <2>1. PICK n \in PolygonSizes : G!Polygon(n)
    BY <1>5
  <2> DEFINE b == n - 1
  <2>2. n \in Nat /\ n >= 3
    BY <2>1, GeometryAssumption DEF G!Polygon
  <2>3. b \in Nat /\ b + 1 = n /\ 1 <= b /\ 1 \in 0 .. b
    BY <2>2
  <2>4. G!Add(1, b + 1, G!Fan(1, b) \o << <<0, b, 1>> >>)
    BY <2>1, <2>3 DEF G!Polygon, G!PolygonTriangles
  <2> HIDE DEF b
  <2> QED
    BY <1>2, <2>3, <2>4
<1>6. CASE G!FilledRectangle
  BY <1>3, <1>6 DEF G!FilledRectangle
<1>7. CASE G!EmptyRectangle
  BY <1>3, <1>7 DEF G!EmptyRectangle
<1> QED
  BY <1>4, <1>5, <1>6, <1>7 DEF G!Shape

\* The buffers ClearGeometry leaves are whole.
LEMMA NothingWhole == Whole(<<>>, <<>>)
<1>1. <<>> \in Seq(Nat) /\ Len(<<>>) = 0 /\ 0 % 3 = 0 /\ 0 \div 3 = 0
  OBVIOUS
<1>2. 1 .. 0 = {} /\ 0 .. 0 - 1 = {}
  OBVIOUS
<1> QED
  BY <1>1, <1>2 DEF Whole, Points

\* What is whole here is what the property says.
LEMMA PictureImplies == Picture => PictureWhole
<1> SUFFICES ASSUME Picture PROVE PictureWhole
  OBVIOUS
<1>1. Points(Vertices, Len(Vertices), TriangleIndices, Len(TriangleIndices))
  BY DEF Picture, Whole
<1>2. G!TrianglesWhole
  BY <1>1 DEF G!TrianglesWhole, G!VertexOf, Points
<1>3. G!VerticesUsed
  BY <1>1 DEF G!VerticesUsed, Points
<1> QED
  BY <1>2, <1>3 DEF PictureWhole

\* The geometry that SDL_RenderGeometry is given is whole, whatever was drawn: every
\* index is that of a vertex of this frame, the corners of each triangle belong to
\* one shape, and no vertex is left out, for every number of segments of a circle and
\* every size of a polygon.
THEOREM PictureStaysWhole == LoopSpec => []PictureWhole
<1>1. LoopInit => Picture
  BY NothingWhole DEF LoopInit, G!Init, Picture
<1>2. Picture /\ [LoopNext]_loopVars => Picture'
  <2> SUFFICES ASSUME Picture, [LoopNext]_loopVars PROVE Picture'
    OBVIOUS
  <2>1. CASE BeginFrame
    BY <2>1, NothingWhole DEF BeginFrame, G!ClearGeometry, Picture
  <2>2. CASE Draw
    BY <2>2, ShapeKeepsPicture DEF Draw
  <2>3. CASE UNCHANGED geometry
    BY <2>3 DEF geometry, Picture
  <2> QED
    BY <2>1, <2>2, <2>3 DEF LoopNext, OtherStage, loopVars
<1> QED
  BY <1>1, <1>2, PictureImplies, PTL DEF LoopSpec

-----------------------------------------------------------------------------
(* The border of the window, for objects of one extent.                    *)

\* Circles and rectangles: one pair of half sizes.
OneExtent == \A s \in Shapes : Len(s) = 1 /\ s[1].X >= 0 /\ s[1].Y >= 0

\* The way of a frame is at most this.
Way == MaxSpeed * MaxStep

HalfX == shape[1].X
HalfY == shape[1].Y

\* The object is at a border, or beyond it.
AtLeft == position.X - HalfX <= 0
AtRight == position.X + HalfX >= Width
AtBottom == position.Y - HalfY <= Height
AtTop == position.Y + HalfY >= 0

\* An object that is at a border is on its way out, beyond it by the way of one
\* frame, and along the X axis by that of a second one if the first was spent at
\* another border, which it then has left.
Kept ==
  /\ AtLeft => velocity.X < 0
  /\ AtRight => velocity.X > 0
  /\ AtBottom => velocity.Y < 0
  /\ AtTop => velocity.Y > 0
  /\ position.Y \in Height + HalfY - Way .. Way - HalfY
  /\ \/ position.X \in HalfX - Way .. Width - HalfX + Way
     \/ /\ position.X \in HalfX - 2 * Way .. Width - HalfX + 2 * Way
        /\ ~AtBottom /\ ~AtTop

WindowTyped ==
  /\ shape \in Shapes
  /\ position \in [X : Int, Y : Int]
  /\ velocity \in [X : Speeds, Y : Speeds]

WindowInv == WindowTyped /\ Kept

\* The way of a frame.
LEMMA WayOfFrame ==
  ASSUME NEW v \in Speeds, NEW dt \in Steps
  PROVE  /\ Way \in Nat /\ v * dt \in -Way .. Way
         /\ v > 0 => v * dt > 0
         /\ v < 0 => v * dt < 0
         /\ v = 0 => v * dt = 0
<1>1. /\ v \in Int /\ -MaxSpeed <= v /\ v <= MaxSpeed /\ MaxSpeed \in Nat
      /\ dt \in Int /\ 1 <= dt /\ dt <= MaxStep /\ MaxStep \in Nat
  BY WindowAssumption
<1>2. Way \in Nat
  BY <1>1 DEF Way
<1>3. MaxSpeed * dt <= Way
  BY <1>1 DEF Way
<1>4. v * dt <= MaxSpeed * dt /\ -(MaxSpeed * dt) <= v * dt
  <2>1. (MaxSpeed - v) * dt >= 0 /\ (MaxSpeed + v) * dt >= 0
    BY <1>1
  <2>2. /\ (MaxSpeed - v) * dt = MaxSpeed * dt - v * dt
        /\ (MaxSpeed + v) * dt = MaxSpeed * dt + v * dt
    BY <1>1
  <2>3. MaxSpeed * dt \in Int /\ v * dt \in Int
    BY <1>1
  <2> QED
    BY <2>1, <2>2, <2>3
<1>5. v * dt \in Int /\ MaxSpeed * dt \in Int
  BY <1>1
<1>6. /\ v > 0 => v * dt > 0
      /\ v < 0 => v * dt < 0
      /\ v = 0 => v * dt = 0
  BY <1>1
<1> QED
  BY <1>2, <1>3, <1>4, <1>5, <1>6

\* What an object of one extent is given.
LEMMA ExtentsFit ==
  ASSUME OneExtent, WindowTyped
  PROVE  /\ Len(shape) = 1 /\ HalfX \in Nat /\ HalfY \in Nat
         /\ HalfX < Margin /\ HalfY < Margin /\ Margin \in Nat
         /\ Width \in Nat /\ Height \in Int /\ Way \in Nat
         /\ 2 * Margin + Way <= Width /\ 2 * Margin + Way <= -Height
<1>1. shape \in Seq([X : Int, Y : Int]) /\ Len(shape) = 1
  BY WindowAssumption DEF OneExtent, WindowTyped
<1>2. 1 \in 1 .. Len(shape) /\ shape[1] \in [X : Int, Y : Int]
  <2>1. \A S : \A s \in Seq(S) : \A k \in 1 .. Len(s) : s[k] \in S
    OBVIOUS
  <2>2. 1 \in 1 .. Len(shape)
    BY <1>1
  <2> QED
    BY <1>1, <2>1, <2>2
<1>3. shape[1].X >= 0 /\ shape[1].Y >= 0 /\ shape[1].X < Margin /\ shape[1].Y < Margin
  BY <1>2, WindowAssumption DEF OneExtent, WindowTyped
<1>4. MaxSpeed * MaxStep \in Nat
  BY WindowAssumption
<1>5. /\ Width \in Nat /\ Height \in Int /\ Margin \in Nat
      /\ 2 * Margin + MaxSpeed * MaxStep <= Width /\ 2 * Margin + MaxSpeed * MaxStep <= -Height
  BY WindowAssumption
<1> QED
  BY <1>1, <1>2, <1>3, <1>4, <1>5 DEF HalfX, HalfY, Way

\* Of the corrections that apply the last one counts.
LEMMA LastCounts ==
  ASSUME NEW S, S \subseteq {1} \X (1 .. 4), NEW n \in 1 .. 4, <<1, n>> \in S,
         \A m \in 1 .. 4 : <<1, m>> \in S => m <= n
  PROVE  (CHOOSE t \in S : \A s \in S : ~Later(s, t)) = <<1, n>>
<1> DEFINE last == <<1, n>>
<1>1. \A s \in S : ~Later(s, last)
  <2>1. \A s \in S : s[1] = 1 /\ s[2] \in 1 .. 4 /\ s = <<1, s[2]>>
    OBVIOUS
  <2> QED
    BY <2>1 DEF Later
<1>2. ASSUME NEW t \in S, \A s \in S : ~Later(s, t) PROVE t = last
  <2>1. t[1] = 1 /\ t[2] \in 1 .. 4 /\ t = <<1, t[2]>>
    OBVIOUS
  <2>2. ~Later(last, t)
    BY <1>2
  <2>3. n <= t[2]
    BY <2>1, <2>2 DEF Later
  <2>4. t[2] <= n
    BY <2>1
  <2> QED
    BY <2>1, <2>3, <2>4
<1> QED
  BY <1>1, <1>2

\* maintainObjectsInWindow, for one extent: the Y axis goes first.
TopCorrection ==
  Correction(AtTop, Vec(position.X, -HalfY), Vec(velocity.X, -velocity.Y))
BottomCorrection ==
  Correction(AtBottom, Vec(position.X, Height + HalfY), Vec(velocity.X, -velocity.Y))
LeftCorrection ==
  Correction(AtLeft, Vec(HalfX, position.Y), Vec(-velocity.X, velocity.Y))
RightCorrection ==
  Correction(AtRight, Vec(Width - HalfX, position.Y), Vec(-velocity.X, velocity.Y))

LEMMA MaintainedIs ==
  ASSUME Len(shape) = 1
  PROVE  Maintained = IF AtTop THEN TopCorrection ELSE IF AtBottom THEN BottomCorrection
                      ELSE IF AtLeft THEN LeftCorrection ELSE IF AtRight THEN RightCorrection
                      ELSE Correction(FALSE, position, velocity)
<1>1. Tests = {1} \X (1 .. 4)
  <2>1. 1 .. Len(shape) = {1}
    OBVIOUS
  <2> QED
    BY <2>1 DEF Tests
<1>2. /\ CorrectionAt(<<1, 1>>) = RightCorrection /\ CorrectionAt(<<1, 2>>) = LeftCorrection
      /\ CorrectionAt(<<1, 3>>) = BottomCorrection /\ CorrectionAt(<<1, 4>>) = TopCorrection
  BY DEF CorrectionAt, Corrections, RightCorrection, LeftCorrection, BottomCorrection,
         TopCorrection, AtTop, AtBottom, AtLeft, AtRight, HalfX, HalfY
<1>3. /\ RightCorrection.applies = AtRight /\ LeftCorrection.applies = AtLeft
      /\ BottomCorrection.applies = AtBottom /\ TopCorrection.applies = AtTop
  BY DEF RightCorrection, LeftCorrection, BottomCorrection, TopCorrection, Correction
<1> DEFINE A == {t \in Tests : CorrectionAt(t).applies}
           last == CHOOSE t \in A : \A s \in A : ~Later(s, t)
<1>4. Maintained = IF A = {} THEN Correction(FALSE, position, velocity) ELSE CorrectionAt(last)
  BY DEF Maintained
<1>5. A \subseteq {1} \X (1 .. 4)
  BY <1>1
<1>6. \A n \in 1 .. 4 : <<1, n>> \in A <=> CorrectionAt(<<1, n>>).applies
  BY <1>1
<1>7. \A n \in 1 .. 4 : n = 1 \/ n = 2 \/ n = 3 \/ n = 4
  OBVIOUS
<1>8. \A t \in {1} \X (1 .. 4) : \E n \in 1 .. 4 : t = <<1, n>>
  OBVIOUS
<1> HIDE DEF A, last
<1>9. /\ <<1, 1>> \in A <=> AtRight
      /\ <<1, 2>> \in A <=> AtLeft
      /\ <<1, 3>> \in A <=> AtBottom
      /\ <<1, 4>> \in A <=> AtTop
  BY <1>2, <1>3, <1>6
<1>10. ASSUME NEW n \in 1 .. 4, <<1, n>> \in A, \A m \in 1 .. 4 : <<1, m>> \in A => m <= n
       PROVE  Maintained = CorrectionAt(<<1, n>>)
  <2>1. last = <<1, n>>
    BY <1>5, <1>10, LastCounts DEF last
  <2> QED
    BY <1>4, <1>10, <2>1
<1>11. CASE AtTop
  <2>1. \A m \in 1 .. 4 : <<1, m>> \in A => m <= 4
    OBVIOUS
  <2> QED
    BY <1>2, <1>9, <1>10, <1>11, <2>1
<1>12. CASE ~AtTop /\ AtBottom
  <2>1. \A m \in 1 .. 4 : <<1, m>> \in A => m <= 3
    BY <1>7, <1>9, <1>12
  <2> QED
    BY <1>2, <1>9, <1>10, <1>12, <2>1
<1>13. CASE ~AtTop /\ ~AtBottom /\ AtLeft
  <2>1. \A m \in 1 .. 4 : <<1, m>> \in A => m <= 2
    BY <1>7, <1>9, <1>13
  <2> QED
    BY <1>2, <1>9, <1>10, <1>13, <2>1
<1>14. CASE ~AtTop /\ ~AtBottom /\ ~AtLeft /\ AtRight
  <2>1. \A m \in 1 .. 4 : <<1, m>> \in A => m <= 1
    BY <1>7, <1>9, <1>14
  <2> QED
    BY <1>2, <1>9, <1>10, <1>14, <2>1
<1>15. CASE ~AtTop /\ ~AtBottom /\ ~AtLeft /\ ~AtRight
  <2>1. A = {}
    BY <1>5, <1>7, <1>8, <1>9, <1>15
  <2> QED
    BY <1>4, <1>15, <2>1
<1> QED
  BY <1>11, <1>12, <1>13, <1>14, <1>15

\* One axis: from a place that is not at a border, or from the border itself inwards,
\* the way of a frame leads at most that far beyond a border, and then outwards.
LEMMA OneAxis ==
  ASSUME NEW low \in Int, NEW high \in Int, NEW way \in Nat, low < high,
         NEW p \in Int, NEW step \in -way .. way,
         low < p \/ (low <= p /\ step > 0), p < high \/ (p <= high /\ step < 0)
  PROVE  /\ p + step \in low - way .. high + way
         /\ p + step <= low => step < 0
         /\ p + step >= high => step > 0
  OBVIOUS

\* StaysNear, said with the half sizes.
LEMMA KeptStaysNear ==
  ASSUME OneExtent, WindowInv
  PROVE  StaysNear
<1>1. WindowTyped
  BY DEF WindowInv
<1>2. /\ Len(shape) = 1 /\ HalfX \in Nat /\ HalfY \in Nat
      /\ Width \in Nat /\ Height \in Int /\ Way \in Nat
  BY <1>1, ExtentsFit
<1>3. \A x \in Int : Greatest({x}) = x
  <2> SUFFICES ASSUME NEW x \in Int PROVE Greatest({x}) = x
    OBVIOUS
  <2>1. \A y \in {x} : x >= y
    OBVIOUS
  <2> QED
    BY <2>1 DEF Greatest
<1>4. \A n \in {1, 2} : {IF n = 1 THEN shape[k].X ELSE shape[k].Y : k \in 1 .. 1}
                          = {IF n = 1 THEN HalfX ELSE HalfY}
  <2>1. 1 .. 1 = {1}
    OBVIOUS
  <2> QED
    BY <2>1 DEF HalfX, HalfY
<1>5. Extent(1) = HalfX /\ Extent(2) = HalfY
  <2>1. Extent(1) = Greatest({HalfX})
    BY <1>2, <1>4 DEF Extent
  <2>2. Extent(2) = Greatest({HalfY})
    BY <1>2, <1>4 DEF Extent
  <2> QED
    BY <1>2, <1>3, <2>1, <2>2
<1>6. Reach = 2 * Way
  BY DEF Reach, Way
<1>7. position.X \in Int /\ position.Y \in Int
  BY <1>1 DEF WindowTyped
<1>8. position.X \in HalfX - 2 * Way .. Width - HalfX + 2 * Way
  BY <1>2, <1>7 DEF WindowInv, Kept
<1>9. position.Y \in Height + HalfY - 2 * Way .. -HalfY + 2 * Way
  BY <1>2, <1>7 DEF WindowInv, Kept
<1> QED
  BY <1>5, <1>6, <1>8, <1>9 DEF StaysNear

\* An object is made inside the margin, so at no border.
LEMMA WindowInitHolds ==
  ASSUME OneExtent, WindowInit
  PROVE  WindowInv
<1>1. /\ shape \in Shapes /\ velocity \in [X : Speeds, Y : Speeds]
      /\ position \in [X : Margin .. Width - Margin, Y : Height + Margin .. -Margin]
  BY DEF WindowInit
<1>2. /\ Margin <= position.X /\ position.X <= Width - Margin /\ position.X \in Int
      /\ Height + Margin <= position.Y /\ position.Y <= -Margin /\ position.Y \in Int
      /\ position \in [X : Int, Y : Int]
  <2>1. Margin \in Int /\ Width - Margin \in Int /\ Height + Margin \in Int /\ -Margin \in Int
    BY WindowAssumption
  <2> QED
    BY <1>1, <2>1
<1>3. WindowTyped
  BY <1>1, <1>2 DEF WindowTyped
<1>4. /\ HalfX \in Nat /\ HalfY \in Nat /\ HalfX < Margin /\ HalfY < Margin /\ Margin \in Nat
      /\ Width \in Nat /\ Height \in Int /\ Way \in Nat
  BY <1>3, ExtentsFit
<1>5. ~AtLeft /\ ~AtRight /\ ~AtBottom /\ ~AtTop
  BY <1>2, <1>4 DEF AtLeft, AtRight, AtBottom, AtTop
<1>6. /\ position.X \in HalfX - Way .. Width - HalfX + Way
      /\ position.Y \in Height + HalfY - Way .. Way - HalfY
  BY <1>2, <1>4
<1> QED
  BY <1>3, <1>5, <1>6 DEF WindowInv, Kept

\* A frame: first the Y axis, which knows nothing of the other one, then the X axis.
LEMMA FrameHolds ==
  ASSUME OneExtent, WindowInv, NEW dt \in Steps, WindowFrame(dt)
  PROVE  WindowInv'
<1> DEFINE x == position.X
           y == position.Y
           u == velocity.X
           v == velocity.Y
           kept == Maintained
           x1 == kept.position.X
           y1 == kept.position.Y
           u1 == kept.velocity.X
           v1 == kept.velocity.Y
<1>1. WindowTyped /\ Kept
  BY DEF WindowInv
<1>2. /\ Len(shape) = 1 /\ HalfX \in Nat /\ HalfY \in Nat
      /\ HalfX < Margin /\ HalfY < Margin /\ Margin \in Nat
      /\ Width \in Nat /\ Height \in Int /\ Way \in Nat
      /\ 2 * Margin + Way <= Width /\ 2 * Margin + Way <= -Height
  BY <1>1, ExtentsFit
<1>3. /\ x \in Int /\ y \in Int /\ u \in Speeds /\ v \in Speeds
      /\ position = Vec(x, y) /\ velocity = Vec(u, v)
  BY <1>1 DEF WindowTyped, Vec
<1>4. Speeds \subseteq Int /\ \A w \in Speeds : -w \in Speeds
  BY WindowAssumption
<1>5. /\ shape' = shape /\ velocity' = kept.velocity
      /\ position' = Vec(x1 + u1 * dt, y1 + v1 * dt)
  BY DEF WindowFrame
<1>6. kept = IF AtTop THEN TopCorrection ELSE IF AtBottom THEN BottomCorrection
             ELSE IF AtLeft THEN LeftCorrection ELSE IF AtRight THEN RightCorrection
             ELSE Correction(FALSE, position, velocity)
  BY <1>2, MaintainedIs
<1>7. HalfX' = HalfX /\ HalfY' = HalfY
  BY <1>5 DEF HalfX, HalfY
<1> HIDE DEF kept
\* What is kept of each coordinate.
<1>8. /\ y1 = (IF AtTop THEN -HalfY ELSE IF AtBottom THEN Height + HalfY ELSE y)
      /\ v1 = (IF AtTop \/ AtBottom THEN -v ELSE v)
  BY <1>3, <1>6 DEF RightCorrection, LeftCorrection, BottomCorrection, TopCorrection,
                      Correction, Vec
<1>9. /\ x1 = (IF AtTop \/ AtBottom THEN x
               ELSE IF AtLeft THEN HalfX ELSE IF AtRight THEN Width - HalfX ELSE x)
      /\ u1 = (IF ~AtTop /\ ~AtBottom /\ (AtLeft \/ AtRight) THEN -u ELSE u)
  BY <1>3, <1>6 DEF RightCorrection, LeftCorrection, BottomCorrection, TopCorrection,
                      Correction, Vec
<1>10. kept.velocity = Vec(u1, v1)
  BY <1>3, <1>6 DEF RightCorrection, LeftCorrection, BottomCorrection, TopCorrection,
                      Correction, Vec
<1>11. u1 \in Speeds /\ v1 \in Speeds
  BY <1>3, <1>4, <1>8, <1>9
<1>12. x1 \in Int /\ y1 \in Int
  BY <1>2, <1>3, <1>8, <1>9
<1> DEFINE dx == u1 * dt
           dy == v1 * dt
<1>13. /\ dx \in -Way .. Way /\ (u1 > 0 => dx > 0) /\ (u1 < 0 => dx < 0) /\ (u1 = 0 => dx = 0)
       /\ dy \in -Way .. Way /\ (v1 > 0 => dy > 0) /\ (v1 < 0 => dy < 0) /\ (v1 = 0 => dy = 0)
  BY <1>11, WayOfFrame
<1> HIDE DEF dx, dy
<1>14. /\ u \in Int /\ v \in Int /\ u1 \in Int /\ v1 \in Int /\ dx \in Int /\ dy \in Int
  <2>1. -Way .. Way \subseteq Int
    BY <1>2
  <2> QED
    BY <1>3, <1>4, <1>11, <1>13, <2>1
<1>15. /\ AtLeft <=> x - HalfX <= 0
       /\ AtRight <=> x + HalfX >= Width
       /\ AtBottom <=> y - HalfY <= Height
       /\ AtTop <=> y + HalfY >= 0
  BY DEF AtLeft, AtRight, AtBottom, AtTop
<1>16. /\ position'.X = x1 + dx /\ position'.Y = y1 + dy
       /\ velocity'.X = u1 /\ velocity'.Y = v1
  BY <1>5, <1>10 DEF Vec, dx, dy
<1>17. /\ AtLeft' <=> (x1 + dx) - HalfX <= 0
       /\ AtRight' <=> x1 + dx + HalfX >= Width
       /\ AtBottom' <=> (y1 + dy) - HalfY <= Height
       /\ AtTop' <=> y1 + dy + HalfY >= 0
  BY <1>7, <1>16 DEF AtLeft, AtRight, AtBottom, AtTop
<1>18. /\ AtLeft => u < 0
       /\ AtRight => u > 0
       /\ AtBottom => v < 0
       /\ AtTop => v > 0
       /\ y \in Height + HalfY - Way .. Way - HalfY
       /\ \/ x \in HalfX - Way .. Width - HalfX + Way
          \/ /\ x \in HalfX - 2 * Way .. Width - HalfX + 2 * Way
             /\ ~AtBottom /\ ~AtTop
  BY <1>1 DEF Kept
<1>19. WindowTyped'
  <2>1. position' \in [X : Int, Y : Int] /\ velocity' \in [X : Speeds, Y : Speeds]
    BY <1>5, <1>10, <1>11, <1>12, <1>14 DEF Vec, dx, dy
  <2> QED
    BY <1>1, <1>5, <2>1 DEF WindowTyped
<1> HIDE DEF x, y, u, v, x1, y1, u1, v1
\* The Y axis.
<1>20. /\ Height + HalfY < y1 \/ (Height + HalfY <= y1 /\ dy > 0)
       /\ y1 < -HalfY \/ (y1 <= -HalfY /\ dy < 0)
  BY <1>2, <1>3, <1>8, <1>13, <1>14, <1>15, <1>18
<1>21. /\ y1 + dy \in Height + HalfY - Way .. -HalfY + Way
       /\ y1 + dy <= Height + HalfY => dy < 0
       /\ y1 + dy >= -HalfY => dy > 0
  <2>1. Height + HalfY \in Int /\ -HalfY \in Int /\ Height + HalfY < -HalfY
    BY <1>2
  <2> QED
    BY <1>2, <1>12, <1>13, <1>20, <2>1, OneAxis
<1>22. /\ AtBottom' => v1 < 0
       /\ AtTop' => v1 > 0
  BY <1>2, <1>12, <1>13, <1>14, <1>17, <1>21
\* The X axis.
<1>23. CASE ~AtTop /\ ~AtBottom
  <2>1. /\ HalfX < x1 \/ (HalfX <= x1 /\ dx > 0)
        /\ x1 < Width - HalfX \/ (x1 <= Width - HalfX /\ dx < 0)
    BY <1>2, <1>3, <1>9, <1>13, <1>14, <1>15, <1>18, <1>23
  <2>2. /\ x1 + dx \in HalfX - Way .. (Width - HalfX) + Way
        /\ x1 + dx <= HalfX => dx < 0
        /\ x1 + dx >= Width - HalfX => dx > 0
    <3>1. HalfX \in Int /\ Width - HalfX \in Int /\ HalfX < Width - HalfX
      BY <1>2
    <3> QED
      BY <1>2, <1>12, <1>13, <2>1, <3>1, OneAxis
  <2>3. /\ AtLeft' => u1 < 0
        /\ AtRight' => u1 > 0
    BY <1>2, <1>12, <1>13, <1>14, <1>17, <2>2
  <2>4. Kept'
    BY <1>2, <1>7, <1>14, <1>16, <1>21, <1>22, <2>2, <2>3 DEF Kept
  <2> QED
    BY <1>19, <2>4 DEF WindowInv
<1>24. CASE AtTop \/ AtBottom
  <2>1. x1 = x /\ u1 = u
    BY <1>9, <1>24
  <2>2. x \in HalfX - Way .. Width - HalfX + Way
    BY <1>18, <1>24
  <2>3. x1 + dx \in HalfX - 2 * Way .. Width - HalfX + 2 * Way
    BY <1>2, <1>3, <1>13, <1>14, <2>1, <2>2
  <2>4. ~AtBottom' /\ ~AtTop'
    BY <1>2, <1>3, <1>8, <1>13, <1>14, <1>15, <1>17, <1>18, <1>24
  <2>5. /\ AtLeft' => u1 < 0
        /\ AtRight' => u1 > 0
    BY <1>2, <1>3, <1>13, <1>14, <1>15, <1>17, <1>18, <2>1
  <2>6. Kept'
    BY <1>2, <1>7, <1>14, <1>16, <1>21, <2>3, <2>4, <2>5 DEF Kept
  <2> QED
    BY <1>19, <2>6 DEF WindowInv
<1> QED
  BY <1>23, <1>24

\* maintainObjectsInWindow, for circles and rectangles of any size below the margin,
\* in any window and with any speeds and frame times it has room for: an object is
\* never beyond a border by more than the way of two frames.
THEOREM ObjectsStayNear ==
  ASSUME OneExtent
  PROVE  WindowSpec => []StaysNear
<1>1. WindowInit => WindowInv
  BY WindowInitHolds
<1>2. WindowInv /\ [WindowNext]_windowVars => WindowInv'
  <2> SUFFICES ASSUME WindowInv, [WindowNext]_windowVars PROVE WindowInv'
    OBVIOUS
  <2>1. CASE WindowNext
    BY <2>1, FrameHolds DEF WindowNext
  <2>2. CASE UNCHANGED windowVars
    BY <2>2 DEF windowVars, WindowInv, WindowTyped, Kept, AtLeft, AtRight, AtBottom, AtTop,
                HalfX, HalfY
  <2> QED
    BY <2>1, <2>2
<1>3. WindowInv => StaysNear
  BY KeptStaysNear
<1> QED
  BY <1>1, <1>2, <1>3, PTL DEF WindowSpec
=============================================================================
