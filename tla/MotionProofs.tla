---------------------------- MODULE MotionProofs ----------------------------
(***************************************************************************)
(* Proofs about Motion, for every size of the ring, delay and set of       *)
(* poses: the ring stays in order, what is read from it lies on the line   *)
(* through its samples, and the animation graph follows the flags it was   *)
(* given.                                                                  *)
(***************************************************************************)
EXTENDS Motion, WellFoundedInduction, FiniteSetTheorems, TLAPS

(* A set of natural numbers that is not empty has a least element. *)
LEMMA Least ==
    ASSUME NEW S, S \subseteq Nat, S # {}
    PROVE  \E m \in S : \A n \in S : m =< n
<1>1. \E m \in S : \A n \in S : ~(<<n, m>> \in OpToRel(<, Nat))
    BY NatLessThanWellFounded, WFMin, Zenon
<1>2. PICK m \in S : \A n \in S : ~(<<n, m>> \in OpToRel(<, Nat))
    BY <1>1, Zenon
<1>3. ASSUME NEW n \in S PROVE m =< n
  <2>1. <<n, m>> \notin OpToRel(<, Nat)
      BY <1>2, Zenon
  <2>2. ~(n < m)
      BY <2>1 DEF OpToRel
  <2>3. n \in Nat /\ m \in Nat
      OBVIOUS
  <2>4. QED
      BY <2>2, <2>3
<1>4. QED
    BY <1>3

(* A part of a distance, rounded down, is no more than the distance. *)
LEMMA Part ==
    ASSUME NEW d \in Nat, NEW t \in Nat, NEW s \in Nat, s > 0, t =< s
    PROVE  /\ (d * t) \div s \in 0..d
           /\ t = 0 => (d * t) \div s = 0
<1>1. d * t \in Nat /\ d * s \in Nat
    OBVIOUS
<1>2. d * t =< d * s
    BY <1>1
<1>3. (d * t) \div s \in Int /\ (d * t) \div s >= 0
    BY <1>1
<1>4. ((d * t) \div s) * s =< d * t
    BY <1>1
<1>5. (d * t) \div s =< d
    BY <1>1, <1>2, <1>3, <1>4
<1>6. QED
    BY <1>3, <1>5

-----------------------------------------------------------------------------
(* The ring *)

LEMMA SampleFields ==
    ASSUME NEW s \in Sample
    PROVE  /\ s = [x |-> s.x, v |-> s.v, flags |-> s.flags, age |-> s.age]
           /\ s.x \in Nat /\ s.v \in Nat /\ s.flags \subseteq Flags
           /\ s.age \in 0..MaxAge
           /\ \A a \in 0..MaxAge : [s EXCEPT !.age = a] \in Sample
<1>1. PICK p \in Poses, a \in 0..MaxAge :
         s = [x |-> p.x, v |-> p.v, flags |-> p.flags, age |-> a]
    BY DEF Sample
<1>2. p.x \in Nat /\ p.v \in Nat /\ p.flags \subseteq Flags
    BY MotionAssumption
<1>3. ASSUME NEW b \in 0..MaxAge PROVE [s EXCEPT !.age = b] \in Sample
  <2>1. [s EXCEPT !.age = b] = [x |-> p.x, v |-> p.v, flags |-> p.flags, age |-> b]
      BY <1>1
  <2>2. QED
      BY <2>1 DEF Sample
<1>4. QED
    BY <1>1, <1>2, <1>3

LEMMA TimedSample ==
    ASSUME NEW p \in Poses
    PROVE  /\ Timed(p) \in Sample /\ Timed(p).age = 0
           /\ Timed(p).x = p.x /\ p.x \in Nat
    BY MotionAssumption DEF Timed, Sample

(* The samples are in the order of their arrival. *)
Sorted == \A i, j \in DOMAIN ring : i =< j => ring[i].age >= ring[j].age

RingOK == ring \in Seq(Sample) /\ ring # <<>>

LEMMA RingIs ==
    ASSUME RingOK
    PROVE  /\ Len(ring) \in Nat /\ Len(ring) >= 1 /\ DOMAIN ring = 1..Len(ring)
           /\ \A i \in DOMAIN ring :
                 /\ ring[i] \in Sample
                 /\ ring[i].x \in Nat /\ ring[i].v \in Nat /\ ring[i].flags \subseteq Flags
                 /\ ring[i].age \in 0..MaxAge
           /\ Last(ring) = ring[Len(ring)]
<1>1. /\ Len(ring) \in Nat /\ Len(ring) >= 1 /\ DOMAIN ring = 1..Len(ring)
      /\ \A i \in DOMAIN ring : ring[i] \in Sample
    BY DEF RingOK
<1>2. QED
    BY <1>1, SampleFields DEF Last

(* PoseRing::push of a pose p keeps the order, the size and the rule that  *)
(* no pose stands twice in a row.                                          *)
LEMMA PushKeeps ==
    ASSUME RingOK, Sorted, RingOrdered, NEW p \in Poses, ring' = Push(Timed(p))
    PROVE  RingOK' /\ Sorted' /\ RingOrdered'
<1> DEFINE s == Timed(p)
           n == Len(ring)
           more == Append(ring, s)
<1>1. s \in Sample /\ s.age = 0
    BY TimedSample
<1>2. /\ n \in Nat /\ n >= 1 /\ DOMAIN ring = 1..n /\ ring \in Seq(Sample)
      /\ \A i \in 1..n : ring[i] \in Sample /\ ring[i].age \in Nat
      /\ Last(ring) = ring[n]
    BY RingIs, MotionAssumption DEF RingOK
<1>3. /\ n =< kPoseRingSize
      /\ \A i \in 1..(n - 1) : ~SamePose(ring[i], ring[i + 1])
    BY DEF RingOrdered
<1>n. n = Len(ring)
    OBVIOUS
<1> HIDE DEF s, n
<1>4. CASE SamePose(s, ring[n])
  <2>1. /\ ring' = [ring EXCEPT ![n] = s] /\ s.x = ring[n].x /\ s.v = ring[n].v
        /\ s.flags = ring[n].flags
      BY <1>2, <1>4, <1>n DEF Push, SamePose, s
  <2>2. /\ ring' \in Seq(Sample) /\ Len(ring') = n /\ DOMAIN ring' = 1..n /\ ring'[n] = s
        /\ \A i \in 1..(n - 1) : ring'[i] = ring[i]
      BY <1>1, <1>2, <1>n, <2>1
  <2>3. RingOK'
      BY <1>2, <2>2 DEF RingOK
  <2>4. Sorted'
      BY <1>1, <1>2, <2>2 DEF Sorted
  <2>5. \A i \in 1..(n - 1) : ring'[i].age >= ring'[i + 1].age
      BY <1>2, <2>2, <2>4 DEF Sorted
  <2>6. \A i \in 1..(n - 1) : ~SamePose(ring'[i], ring'[i + 1])
      BY <1>2, <1>3, <2>1, <2>2 DEF SamePose
  <2>7. QED
      BY <1>3, <2>2, <2>3, <2>4, <2>5, <2>6 DEF RingOrdered
<1>5. CASE ~SamePose(s, ring[n])
  <2>0. ring' = Newest(more, kPoseRingSize)
      BY <1>2, <1>5, <1>n DEF Push, s
  <2>1. /\ more \in Seq(Sample) /\ Len(more) = n + 1 /\ DOMAIN more = 1..(n + 1)
        /\ more[n + 1] = s /\ \A i \in 1..n : more[i] = ring[i]
      BY <1>1, <1>2, <1>n
  <2>2. \A i, j \in 1..(n + 1) : i =< j => more[i].age >= more[j].age
      BY <1>1, <1>2, <2>1 DEF Sorted
  <2>3. \A i \in 1..n : ~SamePose(more[i], more[i + 1])
    <3>1. ~SamePose(more[n], more[n + 1])
        BY <1>2, <1>5, <2>1 DEF SamePose
    <3>2. ASSUME NEW i \in 1..n, i # n PROVE ~SamePose(more[i], more[i + 1])
      <4>1. i \in 1..(n - 1) /\ i + 1 \in 1..n
          BY <1>2, <3>2
      <4>2. more[i] = ring[i] /\ more[i + 1] = ring[i + 1]
          BY <2>1, <4>1
      <4>3. QED
          BY <1>3, <4>1, <4>2
    <3>3. QED
        BY <3>1, <3>2
  <2> HIDE DEF more
  <2>4. PICK o \in Nat : /\ o =< n /\ Len(ring') = n + 1 - o /\ ring' \in Seq(Sample)
                         /\ Len(ring') =< kPoseRingSize
                         /\ \A i \in 1..(n + 1 - o) : ring'[i] = more[i + o]
    <3>0. kPoseRingSize \in Nat \ {0}
        BY MotionAssumption
    <3>1. CASE n + 1 > kPoseRingSize
      <4>1. ring' = SubSeq(more, (n + 1) - kPoseRingSize + 1, n + 1)
          BY <2>0, <2>1, <3>1 DEF Newest
      <4>2. PICK o \in Nat : o = (n + 1) - kPoseRingSize
          BY <1>2, <3>0, <3>1
      <4>3. /\ o =< n /\ Len(ring') = n + 1 - o /\ ring' \in Seq(Sample)
            /\ Len(ring') =< kPoseRingSize
          BY <1>2, <2>1, <3>0, <4>1, <4>2
      <4>4. \A i \in 1..(n + 1 - o) : ring'[i] = more[i + o]
          BY <1>2, <2>1, <3>0, <4>1, <4>2
      <4>5. QED
          BY <4>3, <4>4
    <3>2. CASE ~(n + 1 > kPoseRingSize)
      <4>1. ring' = more
          BY <2>0, <2>1, <3>2 DEF Newest
      <4>2. /\ 0 =< n /\ Len(ring') = n + 1 - 0 /\ ring' \in Seq(Sample)
            /\ Len(ring') =< kPoseRingSize
            /\ \A i \in 1..(n + 1 - 0) : ring'[i] = more[i + 0]
          BY <1>2, <2>1, <3>0, <3>2, <4>1
      <4>3. QED
          BY <4>2
    <3>3. QED
        BY <3>1, <3>2
  <2>5. RingOK' /\ DOMAIN ring' = 1..(n + 1 - o)
      BY <1>2, <2>4 DEF RingOK
  <2>6. Sorted'
    <3>1. ASSUME NEW i \in 1..(n + 1 - o), NEW j \in 1..(n + 1 - o), i =< j
          PROVE  ring'[i].age >= ring'[j].age
      <4>1. i + o \in 1..(n + 1) /\ j + o \in 1..(n + 1) /\ i + o =< j + o
          BY <1>2, <2>4, <3>1
      <4>2. QED
          BY <2>2, <2>4, <4>1
    <3>2. QED
        BY <2>5, <3>1 DEF Sorted
  <2>7. ASSUME NEW i \in 1..(n + 1 - o - 1)
        PROVE  ring'[i].age >= ring'[i + 1].age /\ ~SamePose(ring'[i], ring'[i + 1])
    <3>1. i + o \in 1..n /\ ring'[i] = more[i + o] /\ ring'[i + 1] = more[(i + o) + 1]
        BY <1>2, <2>4
    <3>2. i + o \in 1..(n + 1) /\ (i + o) + 1 \in 1..(n + 1) /\ i + o =< (i + o) + 1
        BY <1>2, <3>1
    <3>3. QED
        BY <2>2, <2>3, <3>1, <3>2
  <2>8. QED
      BY <1>2, <2>4, <2>5, <2>6, <2>7 DEF RingOrdered
<1>6. QED
    BY <1>4, <1>5

(* So does a tick. *)
LEMMA AgedKeeps ==
    ASSUME RingOK, Sorted, RingOrdered, ring' = Aged
    PROVE  RingOK' /\ Sorted' /\ RingOrdered'
<1> DEFINE n == Len(ring)
<1>1. /\ n \in Nat /\ n >= 1 /\ DOMAIN ring = 1..n /\ MaxAge \in Nat
      /\ \A i \in 1..n : ring[i] \in Sample /\ ring[i].age \in 0..MaxAge
    BY RingIs, MotionAssumption
<1>n. n = Len(ring)
    OBVIOUS
<1> HIDE DEF n
<1>2. ASSUME NEW s \in Sample
      PROVE  /\ Older(s) \in Sample /\ Older(s).x = s.x /\ Older(s).v = s.v
             /\ Older(s).flags = s.flags
             /\ Older(s).age = IF s.age < MaxAge THEN s.age + 1 ELSE MaxAge
  <2>1. /\ s = [x |-> s.x, v |-> s.v, flags |-> s.flags, age |-> s.age] /\ s.age \in 0..MaxAge
        /\ \A a \in 0..MaxAge : [s EXCEPT !.age = a] \in Sample
      BY SampleFields
  <2>2. PICK a : a = IF s.age < MaxAge THEN s.age + 1 ELSE MaxAge
      OBVIOUS
  <2>3. a \in 0..MaxAge /\ Older(s) = [s EXCEPT !.age = a]
      BY <1>1, <2>1, <2>2 DEF Older
  <2>4. QED
      BY <2>1, <2>2, <2>3
<1>3. /\ Len(ring') = n /\ DOMAIN ring' = 1..n /\ ring' \in Seq(Sample)
      /\ \A i \in 1..n : ring'[i] = Older(ring[i])
  <2>1. ring' = [i \in 1..n |-> Older(ring[i])]
      BY <1>1 DEF Aged
  <2>2. QED
      BY <1>1, <1>2, <2>1
<1>4. RingOK'
    BY <1>1, <1>3 DEF RingOK
<1>5. Sorted'
  <2>1. ASSUME NEW i \in 1..n, NEW j \in 1..n, i =< j PROVE ring'[i].age >= ring'[j].age
    <3>1. ring[i].age >= ring[j].age /\ ring[i].age \in 0..MaxAge /\ ring[j].age \in 0..MaxAge
        BY <1>1, <2>1 DEF Sorted
    <3>2. /\ ring'[i].age = IF ring[i].age < MaxAge THEN ring[i].age + 1 ELSE MaxAge
          /\ ring'[j].age = IF ring[j].age < MaxAge THEN ring[j].age + 1 ELSE MaxAge
        BY <1>1, <1>2, <1>3
    <3>3. QED
        BY <1>1, <3>1, <3>2
  <2>2. QED
      BY <1>3, <2>1 DEF Sorted
<1>6. ASSUME NEW i \in 1..(n - 1)
      PROVE  ring'[i].age >= ring'[i + 1].age /\ ~SamePose(ring'[i], ring'[i + 1])
  <2>1. i \in 1..n /\ i + 1 \in 1..n /\ i =< i + 1
      BY <1>1
  <2>2. ring'[i].age >= ring'[i + 1].age
      BY <1>3, <1>5, <2>1 DEF Sorted
  <2>3. ~SamePose(ring[i], ring[i + 1])
      BY <1>n DEF RingOrdered
  <2>4. ~SamePose(ring'[i], ring'[i + 1])
      BY <1>1, <1>2, <1>3, <2>1, <2>3 DEF SamePose
  <2>5. QED
      BY <2>2, <2>4
<1>7. QED
    BY <1>3, <1>4, <1>5, <1>6, <1>n DEF RingOrdered

-----------------------------------------------------------------------------
(* What is read from it *)

LEMMA SampleIs ==
    ASSUME NEW s
    PROVE  AtSample(s) = [x |-> s.x, speed |-> s.v, flags |-> s.flags]
    BY DEF AtSample

(* A part of the way between two numbers. *)
LEMMA LerpIs ==
    ASSUME NEW a \in Nat, NEW b \in Nat,
           NEW togo \in Nat, NEW span \in Nat, span > 0, togo =< span
    PROVE  /\ Lerp(a, b, togo, span) \in Nat
           /\ Lerp(a, b, togo, span) \in a..b \/ Lerp(a, b, togo, span) \in b..a
           /\ togo = 0 => Lerp(a, b, togo, span) = b
<1> DEFINE d    == Dist(a, b)
           back == (d * togo) \div span
<1>1. d \in Nat /\ d = IF a < b THEN b - a ELSE a - b
    BY DEF Dist
<1>2. Lerp(a, b, togo, span) = IF a < b THEN b - back ELSE b + back
    BY DEF Lerp
<1> HIDE DEF d
<1>3. back \in 0..d /\ (togo = 0 => back = 0)
    BY <1>1, Part
<1> HIDE DEF back
<1>4. QED
    BY <1>1, <1>2, <1>3

(* Between two samples. *)
LEMMA BetweenIs ==
    ASSUME NEW a \in Sample, NEW b \in Sample, a.age >= Delay, Delay >= b.age
    PROVE  /\ Between(a, b).x \in Nat /\ Between(a, b).speed \in Nat
           /\ Between(a, b).flags \in {a.flags, b.flags}
           /\ \/ Between(a, b).x \in a.x..b.x
              \/ Between(a, b).x \in b.x..a.x
           /\ a.age > Delay /\ Delay = b.age => Between(a, b) = AtSample(b)
<1>1. /\ a.x \in Nat /\ a.v \in Nat /\ a.age \in Nat
      /\ b.x \in Nat /\ b.v \in Nat /\ b.age \in Nat
      /\ Delay \in Nat
    BY SampleFields, MotionAssumption
<1> DEFINE span == a.age - b.age
           togo == Delay - b.age
           late == 2 * togo > span
<1>2. span \in Nat /\ togo \in Nat /\ togo =< span
    BY <1>1
<1>3. CASE span = 0
  <2>1. Between(a, b) = AtSample(b)
      BY <1>3 DEF Between
  <2>2. /\ Between(a, b).x = b.x /\ Between(a, b).speed = b.v
        /\ Between(a, b).flags = b.flags
      BY <2>1, SampleIs
  <2>3. QED
      BY <1>1, <1>3, <2>1, <2>2
<1>4. CASE span # 0
  <2>1. PICK x, v : x = Lerp(a.x, b.x, togo, span) /\ v = Lerp(a.v, b.v, togo, span)
      OBVIOUS
  <2>2. Between(a, b) = [x |-> x, speed |-> v, flags |-> IF late THEN a.flags ELSE b.flags]
      BY <1>4, <2>1 DEF Between
  <2>3. /\ x \in Nat /\ v \in Nat /\ (x \in a.x..b.x \/ x \in b.x..a.x)
        /\ togo = 0 => x = b.x /\ v = b.v
    <3>1. span > 0
        BY <1>2, <1>4
    <3>2. PICK s \in Nat, t \in Nat : s = span /\ t = togo
        BY <1>2
    <3>3. x = Lerp(a.x, b.x, t, s) /\ v = Lerp(a.v, b.v, t, s) /\ s > 0 /\ t =< s
        BY <1>2, <2>1, <3>1, <3>2
    <3>4. \A p, q \in Nat :
             /\ Lerp(p, q, t, s) \in Nat /\ (t = 0 => Lerp(p, q, t, s) = q)
             /\ Lerp(p, q, t, s) \in p..q \/ Lerp(p, q, t, s) \in q..p
      <4> SUFFICES ASSUME NEW p \in Nat, NEW q \in Nat
                   PROVE  /\ Lerp(p, q, t, s) \in Nat /\ (t = 0 => Lerp(p, q, t, s) = q)
                          /\ Lerp(p, q, t, s) \in p..q \/ Lerp(p, q, t, s) \in q..p
          OBVIOUS
      <4>1. s > 0 /\ t =< s
          BY <3>3
      <4>2. Lerp(p, q, t, s) \in Nat
          BY <4>1, LerpIs
      <4>3. Lerp(p, q, t, s) \in p..q \/ Lerp(p, q, t, s) \in q..p
          BY <4>1, LerpIs
      <4>4. t = 0 => Lerp(p, q, t, s) = q
          BY <4>1, LerpIs
      <4>5. QED
          BY <4>2, <4>3, <4>4
    <3>5. /\ x \in Nat /\ (t = 0 => x = b.x)
          /\ x \in a.x..b.x \/ x \in b.x..a.x
          /\ v \in Nat /\ (t = 0 => v = b.v)
        BY <1>1, <3>3, <3>4
    <3>6. QED
        BY <3>2, <3>5
  <2>4. ASSUME a.age > Delay, Delay = b.age PROVE Between(a, b) = AtSample(b)
    <3>1. togo = 0 /\ ~late
        BY <1>1, <2>4
    <3>2. QED
        BY <2>2, <2>3, <3>1, SampleIs
  <2>5. Between(a, b).x = x /\ Between(a, b).speed = v
      BY <2>2
  <2>6. Between(a, b).flags \in {a.flags, b.flags}
      BY <2>2
  <2>7. QED
      BY <2>3, <2>4, <2>5, <2>6
<1>5. QED
    BY <1>3, <1>4

(* Past the newest. *)
LEMMA Longer ==
    ASSUME NEW v \in Nat, NEW t \in Nat, NEW u \in Nat, t =< u
    PROVE  /\ v * t \in Nat /\ u * v \in Nat /\ v * t =< u * v
           /\ t = 0 => v * t = 0
    OBVIOUS

LEMMA BeyondIs ==
    ASSUME NEW s \in Sample, s.age >= Delay
    PROVE  /\ Beyond(s).x \in Nat /\ Beyond(s).x \in s.x..(s.x + ExtrapCap * s.v)
           /\ Beyond(s).speed \in Nat /\ Beyond(s).flags = s.flags
           /\ s.age = Delay => Beyond(s) = AtSample(s)
<1>1. s.x \in Nat /\ s.v \in Nat /\ s.age \in Nat /\ Delay \in Nat /\ ExtrapCap \in Nat
    BY SampleFields, MotionAssumption
<1> DEFINE dt == IF s.age - Delay < ExtrapCap THEN s.age - Delay ELSE ExtrapCap
<1>2. Beyond(s) = [AtSample(s) EXCEPT !.x = s.x + s.v * dt]
    BY DEF Beyond
<1>3. dt \in Nat /\ dt =< ExtrapCap /\ (s.age = Delay => dt = 0)
    BY <1>1
<1> HIDE DEF dt
<1>4. /\ s.v * dt \in Nat /\ (dt = 0 => s.v * dt = 0)
      /\ s.v * dt =< ExtrapCap * s.v /\ ExtrapCap * s.v \in Nat
    BY <1>1, <1>3, Longer
<1>5. PICK x : x = s.x + s.v * dt
    OBVIOUS
<1>6. /\ x \in Nat /\ x \in s.x..(s.x + ExtrapCap * s.v)
      /\ s.age = Delay => x = s.x
    BY <1>1, <1>3, <1>4, <1>5
<1>7. Beyond(s) = [x |-> x, speed |-> s.v, flags |-> s.flags]
    BY <1>2, <1>5, SampleIs
<1>8. Beyond(s).x = x /\ Beyond(s).flags = s.flags
    BY <1>7
<1>9. Beyond(s).speed \in Nat
    BY <1>1, <1>7
<1>10. QED
    BY <1>6, <1>7, <1>8, <1>9, SampleIs

(* The bracket that SampleAt looks for is there. *)
LEMMA BracketFound ==
    ASSUME RingOK, Sorted, Delay < ring[1].age, Delay > Last(ring).age
    PROVE  /\ First(Bracket) \in Bracket
           /\ \A j \in Bracket : First(Bracket) =< j
           /\ Bracket \subseteq 1..(Len(ring) - 1)
<1> DEFINE n == Len(ring)
           T == {i \in 1..n : ring[i].age =< Delay}
<1>1. /\ n \in Nat /\ n >= 1 /\ DOMAIN ring = 1..n /\ Delay \in Nat /\ Last(ring) = ring[n]
      /\ \A i \in 1..n : ring[i].age \in Nat
    BY RingIs, MotionAssumption
<1>2. n \in T /\ T \subseteq Nat
    BY <1>1
<1>3. PICK m \in T : \A k \in T : m =< k
  <2> HIDE DEF T
  <2>1. QED
      BY <1>2, Least
<1>4. m \in 1..n /\ ring[m].age =< Delay /\ m # 1
    BY <1>1, <1>3
<1>5. m - 1 \in 1..n /\ m - 1 \notin T
    BY <1>1, <1>3, <1>4
<1>6. ring[m - 1].age > Delay
    BY <1>1, <1>5
<1>7. m - 1 \in Bracket
    BY <1>1, <1>4, <1>6 DEF Bracket
<1>8. Bracket \subseteq 1..(n - 1) /\ Bracket \subseteq Nat
    BY <1>1 DEF Bracket
<1>9. \E k \in Bracket : \A j \in Bracket : k =< j
    BY <1>7, <1>8, Least
<1>10. QED
    BY <1>8, <1>9 DEF First

(* Where the bracket is. *)
LEMMA BracketAt ==
    ASSUME RingOK, Sorted, NEW i \in 1..(Len(ring) - 1),
           ring[i].age > Delay, Delay >= ring[i + 1].age, Delay > Last(ring).age,
           \A j \in DOMAIN ring \ {i + 1} : ring[j].age # Delay
    PROVE  Delay < ring[1].age /\ First(Bracket) = i
<1> DEFINE n == Len(ring)
           k == First(Bracket)
<1>1. /\ n \in Nat /\ n >= 1 /\ DOMAIN ring = 1..n /\ Delay \in Nat
      /\ \A j \in 1..n : ring[j].age \in Nat
    BY RingIs, MotionAssumption
<1>2. i \in 1..n /\ i + 1 \in 1..n /\ 1 \in 1..n
    BY <1>1
<1>3. ring[1].age >= ring[i].age
    BY <1>1, <1>2 DEF Sorted
<1>4. Delay < ring[1].age
    BY <1>1, <1>2, <1>3
<1>5. i \in Bracket
    BY <1>1, <1>2 DEF Bracket
<1>6. k \in Bracket /\ k =< i /\ k \in 1..(n - 1)
    BY <1>4, <1>5, BracketFound
<1> HIDE DEF k
<1>7. k + 1 \in 1..n /\ Delay >= ring[k + 1].age
    BY <1>1, <1>6 DEF Bracket
<1>8. ASSUME k < i PROVE FALSE
  <2>1. k + 1 =< i
      BY <1>1, <1>6, <1>8
  <2>2. ring[k + 1].age >= ring[i].age
      BY <1>1, <1>2, <1>7, <2>1 DEF Sorted
  <2>3. QED
      BY <1>1, <1>2, <1>7, <2>2
<1>9. k = i
    BY <1>1, <1>6, <1>8
<1>10. QED
    BY <1>4, <1>9 DEF k

LEMMA SampleType ==
    ASSUME RingOK, Sorted
    PROVE  /\ SampleAt.x \in Nat /\ SampleAt.speed \in Nat
           /\ SampleAt.flags \subseteq Flags
<1>1. /\ Len(ring) \in Nat /\ Len(ring) >= 1 /\ DOMAIN ring = 1..Len(ring)
      /\ Last(ring) = ring[Len(ring)] /\ Delay \in Nat
      /\ \A i \in 1..Len(ring) :
            /\ ring[i] \in Sample /\ ring[i].x \in Nat /\ ring[i].v \in Nat
            /\ ring[i].flags \subseteq Flags /\ ring[i].age \in Nat
    BY RingIs, MotionAssumption
<1>2. CASE Len(ring) = 1 \/ Delay >= ring[1].age
  <2>1. SampleAt = AtSample(ring[1])
      BY <1>2 DEF SampleAt
  <2>2. SampleAt.x = ring[1].x /\ SampleAt.flags = ring[1].flags
      BY <2>1, SampleIs
  <2>3. SampleAt.speed = ring[1].v
      BY <2>1, SampleIs
  <2>4. 1 \in 1..Len(ring)
      BY <1>1
  <2>5. QED
      BY <1>1, <2>2, <2>3, <2>4
<1>3. CASE ~(Len(ring) = 1 \/ Delay >= ring[1].age) /\ Delay =< Last(ring).age
  <2>1. SampleAt = Beyond(Last(ring))
      BY <1>3 DEF SampleAt
  <2>2. QED
      BY <1>1, <1>3, <2>1, BeyondIs
<1>4. CASE ~(Len(ring) = 1 \/ Delay >= ring[1].age) /\ ~(Delay =< Last(ring).age)
  <2>1. PICK k : k = First(Bracket)
      OBVIOUS
  <2>2. SampleAt = Between(ring[k], ring[k + 1])
      BY <1>4, <2>1 DEF SampleAt
  <2>3. 1 \in 1..Len(ring) /\ Delay < ring[1].age /\ Delay > Last(ring).age
      BY <1>1, <1>4
  <2>4. k \in Bracket /\ k \in 1..(Len(ring) - 1)
      BY <2>1, <2>3, BracketFound
  <2>5. /\ k \in 1..Len(ring) /\ k + 1 \in 1..Len(ring)
        /\ ring[k].age >= Delay /\ Delay >= ring[k + 1].age
      BY <1>1, <2>4 DEF Bracket
  <2>6. QED
      BY <1>1, <2>2, <2>5, BetweenIs
<1>5. QED
    BY <1>2, <1>3, <1>4

(* The parts of SampleInterpolates.  At a sample alone at its time: *)
LEMMA AtASample ==
    ASSUME RingOK, Sorted, NEW i \in DOMAIN ring, ring[i].age = Delay,
           \A j \in DOMAIN ring \ {i} : ring[j].age # Delay
    PROVE  SampleAt = AtSample(ring[i])
<1> DEFINE n == Len(ring)
<1>1. /\ n \in Nat /\ n >= 1 /\ DOMAIN ring = 1..n /\ Delay \in Nat /\ Last(ring) = ring[n]
      /\ \A j \in 1..n : ring[j] \in Sample /\ ring[j].age \in Nat
    BY RingIs, MotionAssumption
<1>2. ring[1].age >= Delay /\ Delay >= ring[n].age /\ 1 \in 1..n /\ n \in 1..n
    BY <1>1 DEF Sorted
<1>3. CASE n = 1 \/ Delay >= ring[1].age
  <2>1. i = 1
      BY <1>1, <1>2, <1>3
  <2>2. QED
      BY <1>3, <2>1 DEF SampleAt
<1>4. CASE ~(n = 1 \/ Delay >= ring[1].age) /\ Delay =< ring[n].age
  <2>1. i = n
      BY <1>1, <1>2, <1>4
  <2>2. SampleAt = Beyond(ring[n])
      BY <1>1, <1>4 DEF SampleAt
  <2>3. QED
      BY <1>1, <2>1, <2>2, BeyondIs
<1>5. CASE ~(n = 1 \/ Delay >= ring[1].age) /\ ~(Delay =< ring[n].age)
  <2>1. i # 1 /\ i # n
      BY <1>1, <1>5
  <2>2. PICK m : m = i - 1
      OBVIOUS
  <2>3. m \in 1..(n - 1) /\ m \in 1..n /\ m + 1 = i /\ m # i
      BY <1>1, <2>1, <2>2
  <2>4. ring[m].age > Delay
      BY <1>1, <2>3 DEF Sorted
  <2>5. First(Bracket) = m
      BY <1>1, <1>5, <2>3, <2>4, BracketAt
  <2>6. SampleAt = Between(ring[m], ring[i])
      BY <1>1, <1>5, <2>3, <2>5 DEF SampleAt
  <2>7. QED
      BY <1>1, <2>3, <2>4, <2>6, BetweenIs
<1>6. QED
    BY <1>3, <1>4, <1>5

(* between two: *)
LEMMA BetweenSamples ==
    ASSUME RingOK, Sorted, NEW i \in 1..(Len(ring) - 1),
           ring[i].age > Delay, Delay > ring[i + 1].age
    PROVE  /\ \/ SampleAt.x \in ring[i].x..ring[i + 1].x
              \/ SampleAt.x \in ring[i + 1].x..ring[i].x
           /\ SampleAt.flags \in {ring[i].flags, ring[i + 1].flags}
<1> DEFINE n == Len(ring)
<1>1. /\ n \in Nat /\ n >= 1 /\ DOMAIN ring = 1..n /\ Delay \in Nat /\ Last(ring) = ring[n]
      /\ \A j \in 1..n : ring[j] \in Sample /\ ring[j].age \in Nat
    BY RingIs, MotionAssumption
<1>2. i \in 1..n /\ i + 1 \in 1..n /\ 1 \in 1..n /\ n \in 1..n /\ n # 1
    BY <1>1
<1>3. ring[i + 1].age >= ring[n].age
    BY <1>1, <1>2 DEF Sorted
<1>4. Delay > ring[n].age
    BY <1>1, <1>2, <1>3
<1>5. ASSUME NEW j \in 1..n PROVE ring[j].age # Delay
  <2>1. CASE j =< i
      BY <1>1, <1>2, <2>1 DEF Sorted
  <2>2. CASE i + 1 =< j
      BY <1>1, <1>2, <2>2 DEF Sorted
  <2>3. QED
      BY <1>1, <2>1, <2>2
<1>6. Delay < ring[1].age /\ First(Bracket) = i
    BY <1>1, <1>2, <1>4, <1>5, BracketAt
<1>7. SampleAt = Between(ring[i], ring[i + 1])
    BY <1>1, <1>2, <1>4, <1>6 DEF SampleAt
<1>8. QED
    BY <1>1, <1>2, <1>7, BetweenIs

(* and past the newest. *)
LEMMA PastNewest ==
    ASSUME RingOK, Sorted, Last(ring).age > Delay
    PROVE  /\ SampleAt.x \in Last(ring).x..(Last(ring).x + ExtrapCap * Last(ring).v)
           /\ SampleAt.flags = Last(ring).flags
<1> DEFINE n == Len(ring)
<1>1. /\ n \in Nat /\ n >= 1 /\ DOMAIN ring = 1..n /\ Delay \in Nat /\ ExtrapCap \in Nat
      /\ Last(ring) = ring[n]
      /\ \A j \in 1..n : /\ ring[j] \in Sample /\ ring[j].age \in Nat
                         /\ ring[j].x \in Nat /\ ring[j].v \in Nat
    BY RingIs, MotionAssumption
<1>2. ring[1].age >= ring[n].age /\ 1 \in 1..n /\ n \in 1..n
    BY <1>1 DEF Sorted
<1>3. CASE n = 1
  <2>1. SampleAt = AtSample(ring[n])
      BY <1>3 DEF SampleAt
  <2>2. SampleAt.x = ring[n].x /\ SampleAt.flags = ring[n].flags
      BY <2>1, SampleIs
  <2>3. ExtrapCap * ring[n].v \in Nat
      BY <1>1, <1>2
  <2>4. QED
      BY <1>1, <1>2, <2>2, <2>3
<1>4. CASE n # 1
  <2>1. ~(Delay >= ring[1].age) /\ Delay =< ring[n].age
      BY <1>1, <1>2
  <2>2. SampleAt = Beyond(ring[n])
      BY <1>1, <1>4, <2>1 DEF SampleAt
  <2>3. QED
      BY <1>1, <1>2, <2>1, <2>2, BeyondIs
<1>5. QED
    BY <1>3, <1>4

LEMMA Interpolates == ASSUME RingOK, Sorted PROVE SampleInterpolates
    BY AtASample, BetweenSamples, PastNewest DEF SampleInterpolates

-----------------------------------------------------------------------------
(* The puppet *)

PrevOK(pv) ==
    /\ pv.have \in BOOLEAN /\ pv.flags \subseteq Flags
    /\ pv.moving \in BOOLEAN /\ pv.sticky \in 0..(kStickyRetryTicks - 1)

LEMMA MovingIs == ASSUME NEW v PROVE Moving(v) \in BOOLEAN
    BY DEF Moving

LEMMA NoPrevOK == PrevOK(NoPrev) /\ ~NoPrev.have
    BY MotionAssumption DEF PrevOK, NoPrev

LEMMA FireType ==
    ASSUME NEW pv, NEW g \in SUBSET States, NEW on \in SUBSET States, NEW off,
           NEW taken \in BOOLEAN, told \in BOOLEAN, Fire(pv, g, on, off, taken)
    PROVE  graph' \subseteq States /\ told' \in BOOLEAN
<1>1. graph' \subseteq States
    BY DEF Fire
<1>2. told' \in BOOLEAN
    BY DEF Fire
<1>3. QED
    BY <1>1, <1>2

(* The events of one call, if they are taken, or none, leave the graph in  *)
(* the combat states of the flags f.                                       *)
LEMMA FireFollows ==
    ASSUME NEW pv, pv.have \in BOOLEAN, NEW g, NEW on, NEW off, NEW f, NEW taken \in BOOLEAN,
           pv.have /\ told => g \cap Combat = pv.flags \cap Combat,
           Fire(pv, g, on, off, taken),
           Starts(pv, Combat, f) \subseteq on, on \cap Combat \subseteq f,
           off \cap Combat = Stops(pv, Combat, f), told'
    PROVE  graph' \cap Combat = f \cap Combat
<1>1. /\ graph' = IF taken THEN (g \cup on) \ off ELSE g
      /\ IF pv.have THEN told ELSE g \cap Combat \subseteq on
      /\ taken \/ on \cup off = {}
    BY DEF Fire
<1>2. CASE pv.have
  <2>1. g \cap Combat = pv.flags \cap Combat
      BY <1>1, <1>2
  <2>2. /\ \A s \in Combat \cap f : s \notin pv.flags => s \in on
        /\ \A s \in Combat : s \in off <=> s \notin f /\ s \in pv.flags
      BY <1>2 DEF Starts, Stops
  <2>3. CASE taken
    <3>1. graph' = (g \cup on) \ off
        BY <1>1, <2>3
    <3>2. QED
        BY <2>1, <2>2, <3>1
  <2>4. CASE ~taken
    <3>1. graph' = g /\ on = {} /\ off = {}
        BY <1>1, <2>4
    <3>2. QED
        BY <2>1, <2>2, <3>1
  <2>5. QED
      BY <2>3, <2>4
<1>3. CASE ~pv.have
  <2>1. g \cap Combat \subseteq on
      BY <1>1, <1>3
  <2>2. (\A s \in Combat \cap f : s \in on) /\ off \cap Combat = {}
      BY <1>3 DEF Starts, Stops
  <2>3. CASE taken
    <3>1. graph' = (g \cup on) \ off
        BY <1>1, <2>3
    <3>2. QED
        BY <2>1, <2>2, <3>1
  <2>4. CASE ~taken
    <3>1. graph' = g /\ on = {}
        BY <1>1, <2>4
    <3>2. QED
        BY <2>1, <2>2, <3>1
  <2>5. QED
      BY <2>3, <2>4
<1>4. QED
    BY <1>2, <1>3

(* The gait and the movement are no combat states. *)
LEMMA Apart ==
    /\ "Sneak" \notin Combat /\ "Sprint" \notin Combat /\ "Move" \notin Combat
    /\ Combat \subseteq States /\ Gait \subseteq States /\ Sticky \subseteq States
    /\ "Move" \in States /\ Gait = {"Sneak", "Sprint"}
    BY DEF Combat, Gait, Sticky, States

LEMMA Puppet ==
    ASSUME NEW pv, PrevOK(pv), NEW g \in SUBSET States, NEW f \in SUBSET Flags,
           NEW speeding \in BOOLEAN, NEW taken \in BOOLEAN,
           told \in BOOLEAN, drawn \in BOOLEAN,
           pv.have /\ told => g \cap Combat = pv.flags \cap Combat,
           ApplyGhostPuppet(pv, g, f, speeding, taken)
    PROVE  /\ PrevOK(prev)' /\ graph' \subseteq States /\ drawn' \in BOOLEAN
           /\ told' \in BOOLEAN /\ CombatFollows'
<1>1. drawn' \in BOOLEAN
  <2>1. drawn' = IF taken THEN "Drawn" \in f ELSE drawn
      BY DEF ApplyGhostPuppet
  <2>2. CASE taken
    <3>1. drawn' = ("Drawn" \in f)
        BY <2>1, <2>2
    <3>2. QED
        BY <3>1
  <2>3. CASE ~taken
      BY <2>1, <2>3
  <2>4. QED
      BY <2>2, <2>3
<1>2. /\ pv.have \in BOOLEAN /\ pv.sticky \in 0..(kStickyRetryTicks - 1)
      /\ kStickyRetryTicks \in Nat \ {0}
    BY MotionAssumption DEF PrevOK
<1>3. CASE "Dead" \in f
  <2> DEFINE on  == Starts(pv, Combat, f)
             off == Stops(pv, Combat, f)
  <2>1. /\ Fire(pv, g, on, off, taken)
        /\ prev' = [have |-> TRUE, flags |-> f, moving |-> FALSE, sticky |-> pv.sticky]
      BY <1>3 DEF ApplyGhostPuppet, PuppetDead
  <2>2. PrevOK(prev)' /\ prev'.flags = f
      BY <1>2, <2>1 DEF PrevOK
  <2>3. on \subseteq Combat /\ on \subseteq f /\ off \subseteq Combat
      BY DEF Starts, Stops
  <2> HIDE DEF on, off
  <2>4. graph' \subseteq States /\ told' \in BOOLEAN
      BY <2>1, <2>3, Apart, FireType
  <2>5. told' => graph' \cap Combat = f \cap Combat
      BY <1>2, <2>1, <2>3, FireFollows DEF on, off
  <2>6. QED
      BY <1>1, <2>2, <2>4, <2>5 DEF CombatFollows
<1>4. CASE "Dead" \notin f
  <2> DEFINE moving == speeding /\ f \cap {"Pipboy", "Menu"} = {}
             move   == MoveEdge(pv, moving)
             on0    == Starts(pv, Gait \cup Combat, f) \cup Retried(pv, f)
             off0   == Stops(pv, Gait \cup Combat, f)
  <2>1. /\ IF moving THEN Fire(pv, g, on0 \cup move, off0, taken)
           ELSE Fire(pv, g, on0, off0 \cup move, taken)
        /\ prev' = [have |-> TRUE, flags |-> f, moving |-> moving, sticky |-> StickyTicks(pv)]
      BY <1>4 DEF ApplyGhostPuppet, PuppetAlive
  <2>2. moving \in BOOLEAN
      OBVIOUS
  <2>3. move \subseteq {"Move"}
      BY DEF MoveEdge
  <2>4. StickyTicks(pv) \in 0..(kStickyRetryTicks - 1)
      BY <1>2 DEF StickyTicks, RetryDue
  <2> HIDE DEF moving, move
  <2>5. PrevOK(prev)' /\ prev'.flags = f
      BY <2>1, <2>2, <2>4 DEF PrevOK
  <2>6. /\ on0 \subseteq States /\ on0 \subseteq f /\ Starts(pv, Combat, f) \subseteq on0
        /\ off0 \cap Combat = Stops(pv, Combat, f)
    <3>1. Starts(pv, Gait \cup Combat, f) \subseteq (Gait \cup Combat) \cap f
        BY DEF Starts
    <3>2. Retried(pv, f) \subseteq Sticky \cap f
        BY DEF Retried
    <3>3. Starts(pv, Combat, f) \subseteq Starts(pv, Gait \cup Combat, f)
        BY DEF Starts
    <3>4. off0 \cap Combat = Stops(pv, Combat, f)
        BY DEF Stops
    <3>5. QED
        BY <3>1, <3>2, <3>3, <3>4, Apart
  <2>7. PICK on, off : /\ Fire(pv, g, on, off, taken)
                       /\ on0 \subseteq on /\ on \subseteq on0 \cup {"Move"}
                       /\ off0 \subseteq off /\ off \subseteq off0 \cup {"Move"}
    <3>1. CASE moving
      <4>1. Fire(pv, g, on0 \cup move, off0, taken)
          BY <2>1, <3>1
      <4>2. on0 \subseteq on0 \cup move /\ on0 \cup move \subseteq on0 \cup {"Move"}
          BY <2>3
      <4>3. QED
          BY <4>1, <4>2
    <3>2. CASE ~moving
      <4>1. Fire(pv, g, on0, off0 \cup move, taken)
          BY <2>1, <3>2
      <4>2. off0 \subseteq off0 \cup move /\ off0 \cup move \subseteq off0 \cup {"Move"}
          BY <2>3
      <4>3. QED
          BY <4>1, <4>2
    <3>3. QED
        BY <3>1, <3>2
  <2> HIDE DEF on0, off0
  <2>8. graph' \subseteq States /\ told' \in BOOLEAN
      BY <2>6, <2>7, Apart, FireType
  <2>9. /\ Starts(pv, Combat, f) \subseteq on /\ on \cap Combat \subseteq f
        /\ off \cap Combat = Stops(pv, Combat, f)
      BY <2>6, <2>7, Apart
  <2>10. told' => graph' \cap Combat = f \cap Combat
      BY <1>2, <2>7, <2>9, FireFollows
  <2>11. QED
      BY <1>1, <2>5, <2>8, <2>10 DEF CombatFollows
<1>5. QED
    BY <1>3, <1>4

-----------------------------------------------------------------------------
(* The steps *)

BodyOK == pos \in Nat
PuppetOK == PrevOK(prev) /\ graph \subseteq States /\ drawn \in BOOLEAN /\ told \in BOOLEAN
ForcedOK == override \subseteq Overrides /\ Cardinality(override) =< 1
LooksOK == blobs \in 0..MaxBlobs

LEMMA MotionParts ==
    MotionTypeOK <=> RingOK /\ BodyOK /\ PuppetOK /\ ForcedOK /\ LooksOK
    BY DEF MotionTypeOK, RingOK, BodyOK, PuppetOK, PrevOK, ForcedOK, LooksOK

RingInv == RingOK /\ Sorted /\ RingOrdered

MotionIInv ==
    /\ RingInv /\ BodyOK /\ ForcedOK /\ LooksOK
    /\ PuppetOK /\ CombatFollows

(* A step ends on the line. *)
LEMMA StepIs ==
    ASSUME BodyOK, NEW to \in Nat, NEW speed \in Nat
    PROVE  StepToward(to, speed) \in Nat
<1> DEFINE d == Dist(pos, to)
           r == Reach(d, speed)
<1>1. pos \in Nat /\ SnapUu \in Nat /\ CatchUpUu \in Nat
    BY MotionAssumption DEF BodyOK
<1>2. d \in Nat /\ d = IF pos < to THEN to - pos ELSE pos - to
    BY <1>1 DEF Dist
<1>3. r \in Nat
  <2>1. PICK v \in Nat, m \in Nat : r = v * m
      BY MotionAssumption DEF Reach
  <2>2. v * m \in Nat
      OBVIOUS
  <2>3. QED
      BY <2>1, <2>2
<1>4. StepToward(to, speed) = IF d > SnapUu \/ Delay = 0 \/ d =< r THEN to
                              ELSE IF to > pos THEN pos + r ELSE pos - r
    BY DEF StepToward
<1> HIDE DEF d, r
<1>5. QED
    BY <1>1, <1>2, <1>3, <1>4

LEMMA PoseStep == ASSUME MotionIInv, NEW p \in Poses, PoseArrives(p) PROVE MotionIInv'
<1>1. /\ ring' = Push(Timed(p))
      /\ UNCHANGED <<pos, prev, graph, drawn, override, told, blobs>>
    BY DEF PoseArrives
<1>2. RingInv'
    BY <1>1, PushKeeps DEF MotionIInv, RingInv
<1>3. BodyOK' /\ ForcedOK' /\ LooksOK'
    BY <1>1 DEF MotionIInv, BodyOK, ForcedOK, LooksOK
<1>4. PuppetOK'
    BY <1>1 DEF MotionIInv, PuppetOK, PrevOK
<1>5. CombatFollows'
  <2>1. told' = told
      BY <1>1
  <2>2. QED
      BY <1>1, <2>1 DEF MotionIInv, CombatFollows, Combat
<1>6. QED
    BY <1>2, <1>3, <1>4, <1>5 DEF MotionIInv

LEMMA TickStep ==
    ASSUME MotionIInv, NEW taken \in BOOLEAN, NEW marked \in BOOLEAN, Tick(taken, marked)
    PROVE  MotionIInv'
<1>1. RingInv /\ BodyOK /\ ForcedOK /\ LooksOK /\ PuppetOK /\ CombatFollows
    BY DEF MotionIInv
<1>2. PICK s : s = SampleAt
    OBVIOUS
<1>3. /\ pos' = IF marked THEN pose.x ELSE StepToward(s.x, s.speed)
      /\ ApplyGhostPuppet(prev, graph, Shown(s.flags), Moving(s.speed), taken)
      /\ ring' = Aged /\ UNCHANGED <<override, blobs>>
    BY <1>2 DEF Tick
<1>4. s.x \in Nat /\ s.speed \in Nat /\ s.flags \subseteq Flags
    BY <1>1, <1>2, SampleType DEF RingInv
<1>5. RingInv'
    BY <1>1, <1>3, AgedKeeps DEF RingInv
<1>6. BodyOK'
  <2>1. pose.x \in Nat
      BY <1>1, RingIs DEF pose, RingInv
  <2>2. QED
      BY <1>1, <1>3, <1>4, <2>1, StepIs DEF BodyOK
<1>7. ForcedOK' /\ LooksOK'
    BY <1>1, <1>3 DEF ForcedOK, LooksOK
<1>8. Shown(s.flags) \subseteq Flags
    BY <1>1, <1>4, MotionAssumption DEF Shown, ForcedOK
<1>9. PuppetOK' /\ CombatFollows'
    BY <1>1, <1>3, <1>4, <1>8, MovingIs, Puppet DEF PuppetOK, CombatFollows
<1>10. QED
    BY <1>5, <1>6, <1>7, <1>9 DEF MotionIInv

(* The pose that came last. *)
LEMMA PoseIs == ASSUME RingOK PROVE pose.flags \subseteq Flags
    BY RingIs DEF pose

LEMMA LookStep ==
    ASSUME MotionIInv, NEW taken \in BOOLEAN, LookApplied(taken) PROVE MotionIInv'
<1>1. RingInv /\ BodyOK /\ ForcedOK /\ LooksOK /\ PuppetOK /\ CombatFollows
    BY DEF MotionIInv
<1>2. PICK g \in {graph, {}} :
         ApplyGhostPuppet(NoPrev, g, pose.flags, Moving(pose.v), taken)
    BY DEF LookApplied
<1>3. blobs < MaxBlobs /\ blobs' = blobs + 1 /\ UNCHANGED <<ring, pos, override>>
    BY DEF LookApplied
<1>4. BodyOK' /\ ForcedOK' /\ LooksOK'
    BY <1>1, <1>3, MotionAssumption DEF BodyOK, ForcedOK, LooksOK
<1>5. RingInv'
    BY <1>1, <1>3 DEF RingInv, RingOK, Sorted, RingOrdered, SamePose
<1>6. PuppetOK' /\ CombatFollows'
    BY <1>1, <1>2, NoPrevOK, PoseIs, MovingIs, Puppet DEF PuppetOK, RingInv
<1>7. QED
    BY <1>4, <1>5, <1>6 DEF MotionIInv

LEMMA ForceStep ==
    ASSUME MotionIInv, NEW taken \in BOOLEAN, NEW f \in Overrides, ForceAnim(f, taken)
    PROVE  MotionIInv'
<1>1. RingInv /\ BodyOK /\ ForcedOK /\ LooksOK /\ PuppetOK /\ CombatFollows
    BY DEF MotionIInv
<1>2. /\ ApplyGhostPuppet(prev, graph, f, Moving(pose.v), taken)
      /\ override' = {f} /\ UNCHANGED <<ring, pos, blobs>>
    BY DEF ForceAnim
<1>3. BodyOK' /\ LooksOK'
    BY <1>1, <1>2 DEF BodyOK, LooksOK
<1>4. ForcedOK'
  <2>1. Cardinality({f}) = 1
      BY FS_Singleton
  <2>2. QED
      BY <1>2, <2>1 DEF ForcedOK
<1>5. RingInv'
    BY <1>1, <1>2 DEF RingInv, RingOK, Sorted, RingOrdered, SamePose
<1>6. f \subseteq Flags
    BY MotionAssumption
<1>7. PuppetOK' /\ CombatFollows'
    BY <1>1, <1>2, <1>6, MovingIs, Puppet DEF PuppetOK, CombatFollows
<1>8. QED
    BY <1>3, <1>4, <1>5, <1>7 DEF MotionIInv

LEMMA RestStep ==
    ASSUME MotionIInv, OverrideEnds \/ UNCHANGED motionVars PROVE MotionIInv'
<1>1. RingInv /\ BodyOK /\ ForcedOK /\ LooksOK /\ PuppetOK /\ CombatFollows
    BY DEF MotionIInv
<1>2. /\ override' \in {override, {}}
      /\ UNCHANGED <<ring, pos, prev, graph, drawn, told, blobs>>
    BY DEF OverrideEnds, motionVars
<1>3. BodyOK' /\ LooksOK'
    BY <1>1, <1>2 DEF BodyOK, LooksOK
<1>4. ForcedOK'
  <2>1. Cardinality({}) = 0
      BY FS_EmptySet
  <2>2. QED
      BY <1>1, <1>2, <2>1 DEF ForcedOK
<1>5. RingInv'
    BY <1>1, <1>2 DEF RingInv, RingOK, Sorted, RingOrdered, SamePose
<1>6. PuppetOK'
    BY <1>1, <1>2 DEF PuppetOK, PrevOK
<1>7. CombatFollows'
  <2>1. told' = told
      BY <1>2
  <2>2. QED
      BY <1>1, <1>2, <2>1 DEF CombatFollows, Combat
<1>8. QED
    BY <1>3, <1>4, <1>5, <1>6, <1>7 DEF MotionIInv

LEMMA MotionStep == MotionIInv /\ [MotionNext]_motionVars => MotionIInv'
    BY PoseStep, TickStep, LookStep, ForceStep, RestStep DEF MotionNext

LEMMA MotionInitInv == MotionInit => MotionIInv
<1> SUFFICES ASSUME MotionInit PROVE MotionIInv
    OBVIOUS
<1>1. PICK p \in Poses : ring = <<Timed(p)>> /\ pos = p.x
    BY DEF MotionInit
<1>2. /\ prev = NoPrev /\ graph = {} /\ override = {} /\ blobs = 0
      /\ drawn \in BOOLEAN /\ told \in BOOLEAN
    BY DEF MotionInit
<1>3. Timed(p) \in Sample /\ p.x \in Nat /\ Timed(p).age = 0
    BY TimedSample
<1>4. RingInv
    BY <1>1, <1>3, MotionAssumption DEF RingInv, RingOK, Sorted, RingOrdered
<1>5. BodyOK /\ LooksOK
    BY <1>1, <1>2, <1>3, MotionAssumption DEF BodyOK, LooksOK
<1>6. ForcedOK
    BY <1>2, FS_EmptySet DEF ForcedOK
<1>7. PuppetOK /\ CombatFollows
    BY <1>2, NoPrevOK DEF PuppetOK, CombatFollows
<1>8. QED
    BY <1>4, <1>5, <1>6, <1>7 DEF MotionIInv

LEMMA MotionAlways == MotionSpec => []MotionIInv
    BY MotionInitInv, MotionStep, PTL DEF MotionSpec

-----------------------------------------------------------------------------
(* The theorems *)

(* PoseRing::push keeps the ring in order and within kPoseRingSize, and    *)
(* SampleAt finds its bracket and gives a place between its samples, or no *)
(* more than ExtrapCap past the newest, whatever is lost, repeated or late *)
(* and for every delay.                                                    *)
THEOREM MotionSafe == MotionSpec => []MotionInv
<1>1. MotionIInv => MotionInv
    BY MotionParts, Interpolates DEF MotionIInv, RingInv, MotionInv
<1>2. QED
    BY <1>1, MotionAlways, PTL

(* As long as the engine takes the events of CMP_ApplyGhostPuppet, the     *)
(* graph is in the combat states of the last flags, through deaths, looks, *)
(* forced poses and retries (ApplyCombatFlags, RetryStickyFlags).          *)
THEOREM MotionCombat == MotionSpec => []CombatFollows
<1>1. MotionIInv => CombatFollows
    BY DEF MotionIInv
<1>2. QED
    BY <1>1, MotionAlways, PTL
=============================================================================
