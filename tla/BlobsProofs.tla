---------------------------- MODULE BlobsProofs ----------------------------
(***************************************************************************)
(* Proofs about Blobs, for every outfit, size of a chunk and limit: what   *)
(* the assemblies put together is a whole blob, and the server admits no   *)
(* more chunks than its limit allows.                                      *)
(***************************************************************************)
EXTENDS Blobs, SequenceTheorems, WellFoundedInduction, FiniteSetTheorems, TLAPS

(* A set of natural numbers that is not empty has a least element. *)
LEMMA Least ==
    ASSUME NEW S, S \subseteq Nat, S # {}
    PROVE  \E m \in S : \A n \in S : m =< n
<1>1. PICK m \in S : \A n \in S : ~(<<n, m>> \in OpToRel(<, Nat))
    BY NatLessThanWellFounded, WFMin, Zenon
<1>2. ASSUME NEW n \in S PROVE m =< n
  <2>1. <<n, m>> \notin OpToRel(<, Nat)
      BY <1>1, Zenon
  <2>2. ~(n < m)
      BY <2>1 DEF OpToRel
  <2>3. n \in Nat /\ m \in Nat
      OBVIOUS
  <2>4. QED
      BY <2>2, <2>3
<1>3. QED
    BY <1>2

LEMMA Lengths == ASSUME NEW m \in Nat, NEW n \in Nat, 1..m = 1..n PROVE m = n
    OBVIOUS

-----------------------------------------------------------------------------
(* Chunks of a blob of n fields: chunk i has the fields after Start(i), up *)
(* to End(n, i).                                                           *)

Count(n) == (n + kBlobPayloadMax - 1) \div kBlobPayloadMax
Start(i) == (i - 1) * kBlobPayloadMax
End(n, i) == IF i * kBlobPayloadMax < n THEN i * kBlobPayloadMax ELSE n
Part(b, i) == SubSeq(b, Start(i) + 1, End(Len(b), i))

LEMMA CountIs ==
    ASSUME NEW n \in Nat \ {0}
    PROVE  /\ Count(n) \in Nat \ {0}
           /\ n =< Count(n) * kBlobPayloadMax
           /\ (Count(n) - 1) * kBlobPayloadMax < n
<1> DEFINE p == kBlobPayloadMax
           x == n + p - 1
           c == x \div p
<1>1. p \in Nat \ {0} /\ x \in Nat
    BY BlobsAssumption
<1> HIDE DEF p
<1>2. c \in Int /\ c * p =< x /\ x < (c + 1) * p
    BY <1>1
<1> HIDE DEF c
<1>3. (c + 1) * p = c * p + p /\ (c - 1) * p = c * p - p
    BY <1>1, <1>2
<1>4. c * p \in Int
    BY <1>1, <1>2
<1>5. n =< c * p /\ (c - 1) * p < n
    BY <1>1, <1>2, <1>3, <1>4
<1>6. c > 0
  <2>1. CASE c =< 0
    <3>1. c * p =< 0
        BY <1>1, <1>2, <2>1
    <3>2. QED
        BY <1>4, <1>5, <3>1
  <2>2. QED
      BY <1>2, <2>1
<1>7. QED
    BY <1>2, <1>5, <1>6 DEF Count, c, p

LEMMA StartIs ==
    ASSUME NEW i \in Nat \ {0}
    PROVE  /\ Start(i) \in Nat /\ Start(1) = 0
           /\ Start(i + 1) = i * kBlobPayloadMax
           /\ Start(i + 1) = Start(i) + kBlobPayloadMax
           /\ \A j \in Nat : j >= i => Start(i) =< Start(j)
<1> DEFINE p == kBlobPayloadMax
<1>1. p \in Nat \ {0}
    BY BlobsAssumption
<1> HIDE DEF p
<1>2. (i - 1) * p \in Nat /\ (1 - 1) * p = 0 /\ i * p = (i - 1) * p + p
    BY <1>1
<1>3. ASSUME NEW j \in Nat, j >= i PROVE (i - 1) * p =< (j - 1) * p
    BY <1>1, <1>3
<1>4. QED
    BY <1>2, <1>3 DEF Start, p

LEMMA EndIs ==
    ASSUME NEW n \in Nat \ {0}, NEW i \in 1..Count(n)
    PROVE  /\ Start(i) \in Nat /\ Start(i) < End(n, i) /\ End(n, i) \in 1..n
           /\ i < Count(n) => End(n, i) = Start(i + 1)
           /\ i = Count(n) => End(n, i) = n
<1>1. /\ kBlobPayloadMax \in Nat \ {0} /\ Count(n) \in Nat \ {0} /\ i \in Nat \ {0}
      /\ n =< Count(n) * kBlobPayloadMax /\ Start(Count(n)) < n
    BY CountIs, BlobsAssumption DEF Start
<1>2. Start(i) \in Nat /\ Start(i + 1) = i * kBlobPayloadMax
      /\ Start(i + 1) = Start(i) + kBlobPayloadMax /\ Start(i) =< Start(Count(n))
    BY <1>1, StartIs
<1>3. Start(Count(n)) \in Nat
    BY <1>1, StartIs
<1>4. i < Count(n) => Start(i + 1) =< Start(Count(n))
    BY <1>1, StartIs
<1>5. CASE i < Count(n)
  <2>1. End(n, i) = Start(i + 1)
      BY <1>1, <1>2, <1>3, <1>4, <1>5 DEF End
  <2>2. QED
      BY <1>1, <1>2, <1>3, <1>4, <1>5, <2>1
<1>6. CASE i = Count(n)
  <2>1. End(n, i) = n
      BY <1>1, <1>2, <1>6 DEF End
  <2>2. QED
      BY <1>1, <1>2, <1>3, <1>6, <2>1
<1>7. QED
    BY <1>1, <1>5, <1>6

(* Each field is in one chunk. *)
LEMMA Located ==
    ASSUME NEW n \in Nat \ {0}, NEW j \in 1..n
    PROVE  \E i \in 1..Count(n) : Start(i) < j /\ j =< End(n, i)
<1> DEFINE S == {i \in 1..Count(n) : j =< End(n, i)}
<1>1. Count(n) \in Nat \ {0}
    BY CountIs
<1>2. Count(n) \in S
    BY <1>1, EndIs
<1>3. PICK i \in S : \A h \in S : i =< h
  <2>1. S \subseteq Nat /\ S # {}
      BY <1>1, <1>2
  <2> HIDE DEF S
  <2>2. QED
      BY <2>1, Least
<1>4. i \in 1..Count(n) /\ j =< End(n, i)
    OBVIOUS
<1>5. Start(i) < j
  <2>1. CASE i = 1
    <3>1. Start(1) = 0
        BY StartIs
    <3>2. QED
        BY <2>1, <3>1
  <2>2. CASE i # 1
    <3>1. i - 1 \in 1..Count(n) /\ i - 1 \notin S
        BY <1>1, <1>3, <1>4, <2>2
    <3>2. ~(j =< End(n, i - 1)) /\ End(n, i - 1) = Start(i) /\ End(n, i - 1) \in 1..n
        BY <1>1, <1>4, <3>1, EndIs
    <3>3. QED
        BY <3>2
  <2>3. QED
      BY <2>1, <2>2
<1>6. QED
    BY <1>4, <1>5

LEMMA Apart ==
    ASSUME NEW n \in Nat \ {0}, NEW h \in 1..Count(n), NEW i \in 1..Count(n), h < i
    PROVE  End(n, h) =< Start(i)
<1>1. Count(n) \in Nat \ {0}
    BY CountIs
<1>2. End(n, h) = Start(h + 1) /\ Start(h + 1) =< Start(i)
  <2>1. h < Count(n) /\ h + 1 \in Nat \ {0} /\ i \in Nat /\ i >= h + 1
      BY <1>1
  <2>2. End(n, h) = Start(h + 1)
      BY <2>1, EndIs
  <2>3. Start(h + 1) =< Start(i)
      BY <2>1, StartIs
  <2>4. QED
      BY <2>2, <2>3
<1>3. End(n, h) \in Int /\ Start(i) \in Int
    BY EndIs
<1>4. QED
    BY <1>2, <1>3

LEMMA PartIs ==
    ASSUME NEW S, NEW b \in Seq(S), b # <<>>, NEW i \in 1..Count(Len(b))
    PROVE  /\ Len(b) \in Nat \ {0}
           /\ Part(b, i) \in Seq(S) /\ Part(b, i) # <<>>
           /\ Len(Part(b, i)) = End(Len(b), i) - Start(i)
           /\ \A j \in 1..(End(Len(b), i) - Start(i)) : Part(b, i)[j] = b[Start(i) + j]
<1>1. Len(b) \in Nat \ {0}
    BY EmptySeq
<1> DEFINE s == Start(i)
           e == End(Len(b), i)
<1>2. s \in Nat /\ s < e /\ e \in 1..Len(b)
    BY <1>1, EndIs
<1>3. \A j \in (s + 1)..e : b[j] \in S
    BY <1>2, ElementOfSeq
<1> HIDE DEF s, e
<1>4. /\ SubSeq(b, s + 1, e) \in Seq(S)
      /\ Len(SubSeq(b, s + 1, e)) = e - s
      /\ \A j \in 1..(e - s) : SubSeq(b, s + 1, e)[j] = b[s + j]
  <2>1. s + 1 \in Int /\ e \in Int
      BY <1>2
  <2>2. /\ SubSeq(b, s + 1, e) \in Seq(S)
        /\ Len(SubSeq(b, s + 1, e)) = IF s + 1 <= e THEN e - (s + 1) + 1 ELSE 0
        /\ \A j \in 1..(e - (s + 1) + 1) : SubSeq(b, s + 1, e)[j] = b[(s + 1) + j - 1]
      BY <1>3, <2>1, SubSeqProperties
  <2>3. e - (s + 1) + 1 = e - s /\ \A j \in Int : (s + 1) + j - 1 = s + j
      BY <1>2
  <2>4. QED
      BY <1>2, <2>2, <2>3
<1>5. SubSeq(b, s + 1, e) # <<>>
    BY <1>2, <1>4, EmptySeq
<1>6. QED
    BY <1>1, <1>4, <1>5 DEF Part, s, e

LEMMA SplitIs ==
    ASSUME NEW k, NEW b
    PROVE  Split(k, b) =
             [i \in 1..Count(Len(b)) |->
                [kind |-> k, chunkIndex |-> i, chunkCount |-> Count(Len(b)),
                 blobBytes |-> Len(b), payload |-> Part(b, i)]]
    BY DEF Split, Count, Part, Start, End

(* g[i] is what the first i of the n members of s make together. *)
Grows(s, n, g) ==
    /\ n \in Nat \ {0} /\ Len(s) = n
    /\ DOMAIN g = 1..n /\ g[1] = s[1]
    /\ \A i \in 2..n : g[i] = g[i - 1] \o s[i]

(* FlattenSeq satisfies its equation when something does, and nothing else *)
(* does.                                                                   *)
LEMMA Flattened == ASSUME NEW s, NEW n, NEW g, Grows(s, n, g) PROVE FlattenSeq(s) = g[n]
<1>1. /\ n \in Nat \ {0} /\ Len(s) = n
      /\ DOMAIN g = 1..n /\ g[1] = s[1]
      /\ \A i \in 2..n : g[i] = g[i - 1] \o s[i]
    BY DEF Grows
<1> DEFINE flat == CHOOSE f : f = [i \in 1..n |-> IF i = 1 THEN s[i] ELSE f[i - 1] \o s[i]]
<1>2. FlattenSeq(s) = flat[n]
    BY <1>1 DEF FlattenSeq
<1>3. \E f : f = [i \in 1..n |-> IF i = 1 THEN s[i] ELSE f[i - 1] \o s[i]]
  <2> DEFINE h == [i \in 1..n |-> g[i]]
  <2>1. h = [i \in 1..n |-> IF i = 1 THEN s[i] ELSE h[i - 1] \o s[i]]
    <3>1. ASSUME NEW i \in 1..n
          PROVE  h[i] = IF i = 1 THEN s[i] ELSE h[i - 1] \o s[i]
      <4>1. CASE i = 1
          BY <1>1, <4>1
      <4>2. CASE i # 1
        <5>1. i \in 2..n /\ i - 1 \in 1..n
            BY <1>1, <4>2
        <5>2. QED
            BY <1>1, <4>2, <5>1
      <4>3. QED
          BY <4>1, <4>2
    <3>2. h = [i \in 1..n |-> h[i]]
        OBVIOUS
    <3> HIDE DEF h
    <3>3. QED
        BY <3>1, <3>2
  <2> HIDE DEF h
  <2>2. QED
      BY <2>1
<1>4. flat = [i \in 1..n |-> IF i = 1 THEN s[i] ELSE flat[i - 1] \o s[i]]
    BY <1>3
<1> HIDE DEF flat
<1>5. \A i \in 1..n : flat[i] = IF i = 1 THEN s[i] ELSE flat[i - 1] \o s[i]
    BY <1>4
<1>6. \A i \in 1..n : flat[i] = g[i]
  <2> DEFINE W == {i \in 1..n : flat[i] # g[i]}
  <2> SUFFICES ASSUME W # {} PROVE FALSE
      OBVIOUS
  <2>1. PICK i \in W : \A j \in W : i =< j
    <3>1. W \subseteq Nat
        BY <1>1
    <3> HIDE DEF W
    <3>2. QED
        BY <3>1, Least
  <2>2. i \in 1..n /\ flat[i] # g[i]
      OBVIOUS
  <2>3. i # 1
      BY <1>1, <1>5, <2>2
  <2>4. i - 1 \in 1..n /\ i - 1 \notin W /\ i \in 2..n
      BY <1>1, <2>1, <2>2, <2>3
  <2>5. flat[i - 1] = g[i - 1]
      BY <2>4
  <2>6. QED
    <3>1. flat[i] = flat[i - 1] \o s[i]
        BY <1>5, <2>2, <2>3
    <3>2. g[i] = g[i - 1] \o s[i]
        BY <1>1, <2>4
    <3>3. QED
        BY <2>2, <2>5, <3>1, <3>2
<1>7. QED
    BY <1>1, <1>2, <1>6

(* The parts of a blob make the blob. *)
LEMMA JoinedParts ==
    ASSUME NEW S, NEW b \in Seq(S), b # <<>>,
           NEW c, c = Count(Len(b)), NEW s, s = [i \in 1..c |-> Part(b, i)]
    PROVE  FlattenSeq(s) = b
<1>1. Len(b) \in Nat \ {0}
    BY EmptySeq
<1>2. c \in Nat \ {0}
    BY <1>1, CountIs
<1>3. Len(s) = c
  <2>1. \A i \in 1..c : Part(b, i) \in Seq(S)
      BY PartIs
  <2>2. s \in [1..c -> Seq(S)]
      BY <2>1
  <2>3. s \in Seq(Seq(S))
    <3>1. \A T : \A f \in [1..c -> T] : f \in Seq(T)
        BY <1>2, SeqDef
    <3>2. QED
        BY <2>2, <3>1
  <2>4. DOMAIN s = 1..Len(s) /\ Len(s) \in Nat /\ DOMAIN s = 1..c
      BY <2>2, <2>3, LenProperties
  <2>5. QED
      BY <1>2, <2>4
<1>4. PICK g : g = [i \in 1..c |-> SubSeq(b, 1, End(Len(b), i))]
    OBVIOUS
<1>5. g[1] = s[1]
  <2>1. Start(1) + 1 = 1
      BY StartIs
  <2>2. s[1] = SubSeq(b, Start(1) + 1, End(Len(b), 1)) /\ g[1] = SubSeq(b, 1, End(Len(b), 1))
    <3>1. 1 \in 1..c
        BY <1>2
    <3>2. s[1] = Part(b, 1) /\ g[1] = SubSeq(b, 1, End(Len(b), 1))
        BY <1>4, <3>1
    <3>3. QED
        BY <3>2 DEF Part
  <2>3. QED
      BY <2>1, <2>2
<1>6. ASSUME NEW i \in 2..c PROVE g[i] = g[i - 1] \o s[i]
  <2>1. i \in 1..c /\ i - 1 \in 1..c /\ i - 1 < c
      BY <1>2
  <2>2. /\ End(Len(b), i - 1) = Start(i) /\ End(Len(b), i) \in 1..Len(b)
        /\ Start(i) \in Nat /\ Start(i) < End(Len(b), i)
      BY <1>1, <1>2, <2>1, EndIs
  <2>3. PICK k \in Nat, e \in Nat : k = Start(i) /\ e = End(Len(b), i)
      BY <2>2
  <2>4. SubSeq(b, 1, k) \o SubSeq(b, k + 1, e) = SubSeq(b, 1, e)
    <3>1. 1 \in 1..(Len(b) + 1) /\ k \in (1 - 1)..Len(b) /\ e \in k..Len(b)
        BY <1>1, <2>2, <2>3
    <3>2. QED
        BY <3>1, ConcatAdjacentSubSeq
  <2>5. /\ g[i - 1] = SubSeq(b, 1, k) /\ g[i] = SubSeq(b, 1, e)
        /\ s[i] = SubSeq(b, k + 1, e)
      BY <1>4, <2>1, <2>2, <2>3 DEF Part
  <2>6. QED
      BY <2>4, <2>5
<1>7. FlattenSeq(s) = g[c]
  <2>1. DOMAIN g = 1..c
      BY <1>4
  <2>2. Grows(s, c, g)
      BY <1>2, <1>3, <1>5, <1>6, <2>1 DEF Grows
  <2>3. QED
      BY <2>2, Flattened
<1>8. g[c] = SubSeq(b, 1, Len(b))
    BY <1>1, <1>2, <1>4, EndIs
<1>9. QED
    BY <1>7, <1>8, SubSeqFull

-----------------------------------------------------------------------------
(* Blobs, chunks and assemblies, whoever's fields they have.  Blobs of one *)
(* length have their magic and count in the same places, so that a mixture *)
(* of them has, too.                                                       *)

Field == {"app", "inv"} \cup Nat \cup {PackForm(f) : f \in Nat}
Shaped(k) ==
    {b \in Seq(Field) : Len(b) \in 2..(kMaxWorn + 2) /\ b[1] = k /\ b[2] = Len(b) - 2}

Cut(k, b, i) ==
    [kind |-> k, chunkIndex |-> i, chunkCount |-> Count(Len(b)),
     blobBytes |-> Len(b), payload |-> Part(b, i)]
Chunk == UNION {UNION {{Cut(k, b, i) : i \in 1..Count(Len(b))} : b \in Shaped(k)} : k \in Kinds}

LEMMA ChunkIs ==
    /\ \A c \in Chunk : \E k \in Kinds : \E b \in Shaped(k) : \E i \in 1..Count(Len(b)) :
          c = Cut(k, b, i)
    /\ \A k \in Kinds : \A b \in Shaped(k) : \A i \in 1..Count(Len(b)) : Cut(k, b, i) \in Chunk
    BY DEF Chunk

LEMMA ShapedIs ==
    ASSUME NEW k, NEW b \in Shaped(k)
    PROVE  /\ b \in Seq(Field) /\ b # <<>> /\ Len(b) \in Nat \ {0} /\ Len(b) \in 2..(kMaxWorn + 2)
           /\ b[1] = k /\ b[2] = Len(b) - 2 /\ b[2] \in 0..kMaxWorn
           /\ Count(Len(b)) \in Nat \ {0}
<1>1. b \in Seq(Field) /\ Len(b) \in 2..(kMaxWorn + 2) /\ b[1] = k /\ b[2] = Len(b) - 2
    BY DEF Shaped
<1>2. Len(b) \in Nat \ {0} /\ b # <<>> /\ b[2] \in 0..kMaxWorn
    BY <1>1, EmptySeq, BlobsAssumption
<1>3. QED
    BY <1>1, <1>2, CountIs

(* split_blob_chunks cuts a blob into its chunks. *)
LEMMA SplitType ==
    ASSUME NEW k \in Kinds, NEW b \in Shaped(k)
    PROVE  /\ Split(k, b) \in Seq(Chunk) /\ Len(Split(k, b)) = Count(Len(b))
           /\ Split(k, b) # <<>>
           /\ \A i \in 1..Count(Len(b)) : Split(k, b)[i] = Cut(k, b, i)
<1>1. PICK n \in Nat \ {0} : n = Count(Len(b))
    BY ShapedIs
<1>2. PICK s : s = Split(k, b)
    OBVIOUS
<1>3. s = [i \in 1..n |-> Cut(k, b, i)]
    BY <1>1, <1>2, SplitIs DEF Cut
<1>4. s \in [1..n -> Chunk]
    BY <1>1, <1>3, ChunkIs
<1>5. s \in Seq(Chunk)
    BY <1>4, SeqDef
<1>6. Len(s) = n
  <2>1. DOMAIN s = 1..Len(s) /\ Len(s) \in Nat /\ DOMAIN s = 1..n
      BY <1>4, <1>5, LenProperties
  <2>2. QED
      BY <1>1, <2>1
<1>7. s # <<>>
    BY <1>6, EmptySeq
<1>8. QED
    BY <1>1, <1>2, <1>3, <1>5, <1>6, <1>7

AsmOf(k, a, n) ==
    /\ a = [chunkCount |-> Count(n), blobBytes |-> n, chunks |-> a.chunks]
    /\ a.chunks \in [1..Count(n) -> Seq(Field)]
    /\ \A i \in 1..Count(n) :
          a.chunks[i] = <<>> \/ \E b \in Shaped(k) : Len(b) = n /\ a.chunks[i] = Part(b, i)
AsmOK(k, a) == a = NoAssembly \/ \E n \in 2..(kMaxWorn + 2) : AsmOf(k, a, n)

LEMMA PlacedIs ==
    ASSUME NEW k, NEW a, AsmOK(k, a), NEW b \in Shaped(k), NEW i \in 1..Count(Len(b)),
           NEW c, c = Cut(k, b, i)
    PROVE  /\ AsmOf(k, Placed(a, c), Len(b))
           /\ Placed(a, c).chunks[i] = Part(b, i)
           /\ \A j \in 1..Count(Len(b)) :
                 j # i => Placed(a, c).chunks[j] = IF OtherBlob(a, c) THEN <<>> ELSE a.chunks[j]
           /\ ~OtherBlob(a, c) => AsmOf(k, a, Len(b))
<1>1. PICK n, p : n = Count(Len(b)) /\ p = Part(b, i)
    OBVIOUS
<1>2. /\ c.chunkIndex = i /\ c.chunkCount = n /\ c.blobBytes = Len(b) /\ c.payload = p
      /\ n \in Nat \ {0} /\ i \in 1..n /\ Len(b) \in 2..(kMaxWorn + 2)
    BY <1>1, ShapedIs DEF Cut
<1>3. p \in Seq(Field)
    BY <1>1, ShapedIs, PartIs
<1>4. <<>> \in Seq(Field)
    OBVIOUS
<1>5. ~OtherBlob(a, c) => AsmOf(k, a, Len(b))
  <2>1. SUFFICES ASSUME a.chunkCount = n, a.blobBytes = Len(b) PROVE AsmOf(k, a, Len(b))
      BY <1>2 DEF OtherBlob
  <2>2. a # NoAssembly
      BY <1>2, <2>1 DEF NoAssembly
  <2>3. PICK m \in 2..(kMaxWorn + 2) : AsmOf(k, a, m)
      BY <2>2 DEF AsmOK
  <2>4. m = Len(b)
      BY <2>1, <2>3 DEF AsmOf
  <2>5. QED
      BY <2>3, <2>4
<1>6. PICK base : base = IF OtherBlob(a, c)
                         THEN [chunkCount |-> n, blobBytes |-> Len(b), chunks |-> [j \in 1..n |-> <<>>]]
                         ELSE a
    OBVIOUS
<1>7. /\ base = [chunkCount |-> n, blobBytes |-> Len(b), chunks |-> base.chunks]
      /\ base.chunks \in [1..n -> Seq(Field)]
      /\ \A j \in 1..n :
            base.chunks[j] = <<>> \/ \E d \in Shaped(k) : Len(d) = Len(b) /\ base.chunks[j] = Part(d, j)
      /\ \A j \in 1..n : base.chunks[j] = IF OtherBlob(a, c) THEN <<>> ELSE a.chunks[j]
  <2>1. CASE OtherBlob(a, c)
      BY <1>4, <1>6, <2>1
  <2>2. CASE ~OtherBlob(a, c)
    <3>1. base = a /\ AsmOf(k, a, Len(b))
        BY <1>5, <1>6, <2>2
    <3>2. QED
        BY <1>1, <2>2, <3>1 DEF AsmOf
  <2>3. QED
      BY <2>1, <2>2
<1>8. PICK r : r = Placed(a, c)
    OBVIOUS
<1>9. r = [base EXCEPT !.chunks[i] = p]
    BY <1>2, <1>6, <1>8 DEF Placed
<1>10. r = [chunkCount |-> n, blobBytes |-> Len(b), chunks |-> [base.chunks EXCEPT ![i] = p]]
    BY <1>7, <1>9
<1>11. /\ r.chunks \in [1..n -> Seq(Field)] /\ r.chunks[i] = p
       /\ \A j \in 1..n : j # i => r.chunks[j] = base.chunks[j]
    BY <1>2, <1>3, <1>7, <1>10
<1>12. AsmOf(k, r, Len(b))
  <2>1. \A j \in 1..n :
           r.chunks[j] = <<>> \/ \E d \in Shaped(k) : Len(d) = Len(b) /\ r.chunks[j] = Part(d, j)
      BY <1>1, <1>7, <1>11
  <2>2. r = [chunkCount |-> n, blobBytes |-> Len(b), chunks |-> r.chunks]
      BY <1>10
  <2>3. QED
      BY <1>1, <1>11, <2>1, <2>2 DEF AsmOf
<1>13. \A j \in 1..n : j # i => r.chunks[j] = IF OtherBlob(a, c) THEN <<>> ELSE a.chunks[j]
    BY <1>7, <1>11
<1>14. QED
    BY <1>1, <1>5, <1>8, <1>11, <1>12, <1>13

(* An assembly without a hole holds one blob, of its own kind and length.  *)
LEMMA Gathered ==
    ASSUME NEW k \in {"app", "inv"}, NEW a, NEW n \in 2..(kMaxWorn + 2), AsmOf(k, a, n),
           \A i \in 1..Count(n) : a.chunks[i] # <<>>
    PROVE  \E b \in Shaped(k) :
              /\ Len(b) = n /\ Joined(a) = b
              /\ \A i \in 1..Count(n) : a.chunks[i] = Part(b, i)
<1>1. n \in Nat \ {0} /\ n >= 2
    BY BlobsAssumption
<1>2. PICK c \in Nat \ {0} : c = Count(n)
    BY <1>1, CountIs
<1>3. /\ a = [chunkCount |-> c, blobBytes |-> n, chunks |-> a.chunks]
      /\ a.chunks \in [1..c -> Seq(Field)]
    BY <1>2 DEF AsmOf
<1>4. \A i \in 1..c : \E b \in Shaped(k) : Len(b) = n /\ a.chunks[i] = Part(b, i)
    BY <1>2 DEF AsmOf
<1>5. PICK src \in [1..c -> Shaped(k)] :
         \A i \in 1..c : Len(src[i]) = n /\ a.chunks[i] = Part(src[i], i)
  <2> DEFINE f == [i \in 1..c |-> CHOOSE b \in Shaped(k) : Len(b) = n /\ a.chunks[i] = Part(b, i)]
  <2>1. f \in [1..c -> Shaped(k)] /\ \A i \in 1..c : Len(f[i]) = n /\ a.chunks[i] = Part(f[i], i)
      BY <1>4
  <2> HIDE DEF f
  <2>2. QED
      BY <2>1
<1>6. PICK at \in [1..n -> 1..c] : \A j \in 1..n : Start(at[j]) < j /\ j =< End(n, at[j])
  <2>1. \A j \in 1..n : \E i \in 1..c : Start(i) < j /\ j =< End(n, i)
      BY <1>1, <1>2, Located
  <2> DEFINE f == [j \in 1..n |-> CHOOSE i \in 1..c : Start(i) < j /\ j =< End(n, i)]
  <2>2. f \in [1..n -> 1..c] /\ \A j \in 1..n : Start(f[j]) < j /\ j =< End(n, f[j])
      BY <2>1
  <2> HIDE DEF f
  <2>3. QED
      BY <2>2
<1>7. \A j \in 1..n, i \in 1..c : Start(i) < j /\ j =< End(n, i) => i = at[j]
  <2>1. SUFFICES ASSUME NEW j \in 1..n, NEW i \in 1..c, NEW h \in 1..c, i < h,
                        Start(i) < j, j =< End(n, i), Start(h) < j, j =< End(n, h)
                 PROVE  FALSE
    <3>1. \A j \in 1..n : at[j] \in 1..c
        BY <1>6
    <3>2. QED
        BY <1>6, <2>1, <3>1
  <2>2. End(n, i) =< Start(h)
      BY <1>1, <1>2, <2>1, Apart
  <2>3. End(n, i) \in Int /\ Start(h) \in Int
      BY <1>1, <1>2, EndIs
  <2>4. QED
      BY <2>1, <2>2, <2>3
<1>8. PICK b : b = [j \in 1..n |-> src[at[j]][j]]
    OBVIOUS
<1>9. \A i \in 1..c : src[i] \in Seq(Field) /\ src[i] # <<>> /\ Len(src[i]) = n
                      /\ src[i][1] = k /\ src[i][2] = n - 2
    BY <1>5, ShapedIs
<1>10. b \in Seq(Field) /\ Len(b) = n
  <2>1. \A j \in 1..n : src[at[j]][j] \in Field
      BY <1>6, <1>9, ElementOfSeq
  <2>2. b \in [1..n -> Field]
      BY <1>8, <2>1
  <2>3. b \in Seq(Field)
      BY <1>1, <2>2, SeqDef
  <2>4. Len(b) \in Nat /\ 1..Len(b) = 1..n
      BY <2>2, <2>3, LenProperties
  <2>5. QED
      BY <1>1, <2>3, <2>4, Lengths
<1>11. b[1] = k /\ b[2] = Len(b) - 2
    BY <1>1, <1>6, <1>8, <1>9, <1>10
<1>12. b \in Shaped(k) /\ b # <<>>
    BY <1>1, <1>10, <1>11, EmptySeq DEF Shaped
<1>13. ASSUME NEW i \in 1..c PROVE a.chunks[i] = Part(b, i)
  <2>1. PICK d : d = src[i]
      OBVIOUS
  <2>2. d \in Seq(Field) /\ d # <<>> /\ Len(d) = n /\ a.chunks[i] = Part(d, i)
      BY <1>5, <1>9, <2>1
  <2>3. PICK s \in Nat, e \in Nat : s = Start(i) /\ e = End(n, i) /\ s < e /\ e =< n
      BY <1>1, <1>2, EndIs
  <2>4. /\ Part(d, i) \in Seq(Field) /\ Len(Part(d, i)) = e - s
        /\ \A j \in 1..(e - s) : Part(d, i)[j] = d[s + j]
    <3>1. d \in Seq(Field) /\ d # <<>> /\ i \in 1..Count(Len(d))
        BY <1>2, <2>2
    <3>2. /\ Part(d, i) \in Seq(Field)
          /\ Len(Part(d, i)) = End(Len(d), i) - Start(i)
          /\ \A j \in 1..(End(Len(d), i) - Start(i)) : Part(d, i)[j] = d[Start(i) + j]
        BY <3>1, PartIs
    <3>3. QED
        BY <2>2, <2>3, <3>2
  <2>5. /\ Part(b, i) \in Seq(Field) /\ Len(Part(b, i)) = e - s
        /\ \A j \in 1..(e - s) : Part(b, i)[j] = b[s + j]
    <3>1. b \in Seq(Field) /\ b # <<>> /\ i \in 1..Count(Len(b))
        BY <1>2, <1>10, <1>12
    <3>2. /\ Part(b, i) \in Seq(Field)
          /\ Len(Part(b, i)) = End(Len(b), i) - Start(i)
          /\ \A j \in 1..(End(Len(b), i) - Start(i)) : Part(b, i)[j] = b[Start(i) + j]
        BY <3>1, PartIs
    <3>3. QED
        BY <1>10, <1>12, <2>3, <3>2
  <2>6. \A j \in 1..(e - s) : b[s + j] = d[s + j]
    <3>1. SUFFICES ASSUME NEW j \in 1..(e - s) PROVE b[s + j] = d[s + j]
        OBVIOUS
    <3>2. s + j \in 1..n /\ s < s + j /\ s + j =< e
      <4>1. s \in Nat /\ e \in Nat /\ s < e /\ e =< n
          BY <2>3
      <4>2. QED
          BY <1>1, <3>1, <4>1
    <3>3. at[s + j] = i
        BY <1>7, <2>3, <3>2
    <3>4. QED
        BY <1>8, <2>1, <3>2, <3>3
  <2>7. Part(b, i) = Part(d, i)
    <3>1. /\ Len(Part(b, i)) = Len(Part(d, i))
          /\ \A j \in 1..Len(Part(b, i)) : Part(b, i)[j] = Part(d, i)[j]
        BY <2>4, <2>5, <2>6
    <3>2. QED
        BY <2>4, <2>5, <3>1, SeqEqual
  <2>8. QED
      BY <2>2, <2>7
<1>14. Joined(a) = b
  <2>1. a.chunks = [i \in 1..c |-> Part(b, i)]
      BY <1>3, <1>13
  <2>2. QED
      BY <1>2, <1>10, <1>12, <2>1, JoinedParts DEF Joined
<1>15. QED
    BY <1>2, <1>10, <1>12, <1>13, <1>14

LEMMA CompleteIs ==
    ASSUME NEW k \in {"app", "inv"}, NEW a, NEW n \in 2..(kMaxWorn + 2), AsmOf(k, a, n)
    PROVE  Complete(a) <=> \A i \in 1..Count(n) : a.chunks[i] # <<>>
<1>1. a.blobBytes = n /\ DOMAIN a.chunks = 1..Count(n)
    BY DEF AsmOf
<1>2. (\A i \in 1..Count(n) : a.chunks[i] # <<>>) => Len(Joined(a)) = n
    BY Gathered
<1>3. QED
    BY <1>1, <1>2 DEF Complete

(* What an assembly is after a chunk from a stream of chunks. *)
LEMMA TakenType ==
    ASSUME NEW q \in Seq(Chunk), q # <<>>, NEW asm,
           \A k \in Kinds : AsmOK(k, asm[k]),
           NEW c, c = Head(q), NEW a, a = Placed(asm[c.kind], c)
    PROVE  /\ c.kind \in Kinds /\ Tail(q) \in Seq(Chunk)
           /\ AsmOK(c.kind, Rest(a)) /\ a # NoAssembly
           /\ Complete(a) => Joined(a) \in Shaped(c.kind)
<1>1. c \in Chunk /\ Tail(q) \in Seq(Chunk)
    BY HeadTailProperties
<1>2. PICK k \in Kinds : \E d \in Shaped(k) : \E j \in 1..Count(Len(d)) : c = Cut(k, d, j)
    BY <1>1, ChunkIs
<1>3. PICK b \in Shaped(k) : \E j \in 1..Count(Len(b)) : c = Cut(k, b, j)
    BY <1>2
<1>4. PICK i \in 1..Count(Len(b)) : c = Cut(k, b, i)
    BY <1>3
<1>5. c.kind = k /\ k \in {"app", "inv"} /\ Len(b) \in 2..(kMaxWorn + 2) /\ Count(Len(b)) # 0
    BY <1>4, ShapedIs, BlobsAssumption DEF Cut
<1>6. AsmOf(k, a, Len(b))
    BY <1>4, <1>5, PlacedIs
<1>7. a # NoAssembly
    BY <1>5, <1>6 DEF AsmOf, NoAssembly
<1>8. Complete(a) => Joined(a) \in Shaped(k)
  <2>1. SUFFICES ASSUME Complete(a) PROVE Joined(a) \in Shaped(k)
      OBVIOUS
  <2>2. \A j \in 1..Count(Len(b)) : a.chunks[j] # <<>>
      BY <1>5, <1>6, <2>1, CompleteIs
  <2>3. QED
      BY <1>5, <1>6, <2>2, Gathered
<1>9. AsmOK(k, Rest(a))
    BY <1>5, <1>6 DEF AsmOK, Rest
<1>10. QED
    BY <1>1, <1>5, <1>7, <1>8, <1>9

-----------------------------------------------------------------------------
(* Streams.  After each chunk the rest of its blob follows; then another   *)
(* blob begins, and the assembly that the stream meets has the chunks of   *)
(* the first blob that have been taken already.                            *)

Whole(k) == {Encode(k, o) : o \in Outfits}

Ahead(q, i, b) ==
    /\ q[i].chunkIndex \in 1..Count(Len(b))
    /\ \A j \in q[i].chunkIndex..Count(Len(b)) :
          /\ i + j - q[i].chunkIndex \in 1..Len(q)
          /\ q[i + j - q[i].chunkIndex] = Cut(q[i].kind, b, j)
Begun(a, b, c) ==
    c.chunkIndex > 1 =>
      ~OtherBlob(a, c) /\ \A j \in 1..(c.chunkIndex - 1) : a.chunks[j] = Part(b, j)

Follow(q) == \A i \in 1..Len(q) : \E b \in Whole(q[i].kind) : Ahead(q, i, b)
Begin(q) ==
    \A i \in 1..(Len(q) - 1) : q[i].chunkIndex = q[i].chunkCount => q[i + 1].chunkIndex = 1
Meet(q, asm) ==
    q # <<>> => \E b \in Whole(q[1].kind) : Ahead(q, 1, b) /\ Begun(asm[q[1].kind], b, q[1])
InStep(q, asm) == Follow(q) /\ Begin(q) /\ Meet(q, asm)

(* An assembly in step lacks its last chunks. *)
Filled(a) ==
    a = NoAssembly \/ \E m \in 1..(a.chunkCount - 1) :
                         \A i \in 1..a.chunkCount : a.chunks[i] # <<>> <=> i <= m

LEMMA WholeShaped == ASSUME NEW k \in Kinds, NEW o \in Outfits PROVE Encode(k, o) \in Shaped(k)
<1>1. o \in Seq(Nat) /\ kMaxWorn \in Nat /\ k \in {"app", "inv"}
    BY BlobsAssumption
<1> DEFINE Packed == {PackForm(f) : f \in Nat}
<1>2. PICK w : w = AtMost(CollectWornItems(o), kMaxWorn)
    OBVIOUS
<1>3. w \in Seq(Packed) /\ Len(w) \in 0..kMaxWorn
  <2>1. PICK s : s = CollectWornItems(o)
      OBVIOUS
  <2>2. \A i \in 1..Len(o) : o[i] \in Nat
      BY <1>1
  <2>3. s \in [1..Len(o) -> Packed] /\ Len(o) \in Nat
      BY <1>1, <2>1, <2>2 DEF CollectWornItems
  <2> HIDE DEF Packed
  <2>4. s \in Seq(Packed)
      BY <2>3, SeqDef
  <2>5. CASE Len(s) > kMaxWorn
    <3>1. w = SubSeq(s, 1, kMaxWorn)
        BY <1>2, <2>1, <2>5 DEF AtMost
    <3>2. \A i \in 1..kMaxWorn : s[i] \in Packed
        BY <1>1, <2>4, <2>5
    <3>3. QED
        BY <1>1, <3>1, <3>2, SubSeqProperties
  <2>6. CASE ~(Len(s) > kMaxWorn)
      BY <1>1, <1>2, <2>1, <2>4, <2>6 DEF AtMost
  <2>7. QED
      BY <2>5, <2>6
<1>4. PICK h : h = <<k, Len(w)>>
    OBVIOUS
<1>5. h \in Seq(Field) /\ Len(h) = 2 /\ h[1] = k /\ h[2] = Len(w)
  <2>1. k \in Field /\ Len(w) \in Field
      BY <1>1, <1>3 DEF Field
  <2>2. QED
      BY <1>4, <2>1
<1>6. w \in Seq(Field)
    BY <1>3, SeqMonotonic DEF Field
<1>7. Encode(k, o) = h \o w
    BY <1>1, <1>2, <1>4 DEF Encode, ExtractBlob, ExtractInventory, EncodeInventorySheet
<1>8. PICK l \in Nat : l = Len(w) /\ l \in 0..kMaxWorn
    BY <1>1, <1>3
<1>9. PICK x : x = h \o w
    OBVIOUS
<1>10. /\ x \in Seq(Field) /\ Len(x) = Len(h) + Len(w)
       /\ \A i \in 1..(Len(h) + Len(w)) : x[i] = IF i <= Len(h) THEN h[i] ELSE w[i - Len(h)]
  <2>1. h \in Seq(Field)
      BY <1>5
  <2>2. /\ h \o w \in Seq(Field) /\ Len(h \o w) = Len(h) + Len(w)
        /\ \A i \in 1..(Len(h) + Len(w)) : (h \o w)[i] = IF i <= Len(h) THEN h[i] ELSE w[i - Len(h)]
      BY <2>1, <1>6, ConcatProperties
  <2>3. QED
      BY <1>9, <2>2
<1>11. x \in Seq(Field) /\ Len(x) = 2 + l
    BY <1>5, <1>8, <1>10
<1>12. x[1] = k /\ x[2] = l
  <2>1. \A i \in 1..(2 + l) : x[i] = IF i <= 2 THEN h[i] ELSE w[i - 2]
      BY <1>5, <1>8, <1>10
  <2>2. 1 \in 1..(2 + l) /\ 2 \in 1..(2 + l)
      BY <1>8
  <2>3. QED
      BY <1>5, <1>8, <2>1, <2>2
<1>13. l = Len(x) - 2 /\ Len(x) \in 2..(kMaxWorn + 2)
    BY <1>1, <1>8, <1>11
<1>14. QED
    BY <1>7, <1>9, <1>11, <1>12, <1>13 DEF Shaped

LEMMA WholeIs ==
    ASSUME NEW k \in Kinds, NEW b \in Whole(k)
    PROVE  /\ b \in Shaped(k) /\ k \in {"app", "inv"}
           /\ Len(b) \in 2..(kMaxWorn + 2) /\ Count(Len(b)) \in Nat \ {0}
    BY WholeShaped, ShapedIs, BlobsAssumption DEF Whole

LEMMA AheadKept ==
    ASSUME NEW q, NEW r, NEW l \in Nat, l = Len(q), NEW m \in Nat, m = Len(r), l =< m,
           \A j \in 1..l : r[j] = q[j],
           NEW i \in 1..l, NEW b, Count(Len(b)) \in Nat, Ahead(q, i, b)
    PROVE  Ahead(r, i, b)
<1>1. PICK n \in Nat : n = Count(Len(b))
    OBVIOUS
<1>2. r[i] = q[i]
    OBVIOUS
<1>3. PICK x \in 1..n : x = q[i].chunkIndex
    BY <1>1 DEF Ahead
<1>4. \A j \in x..n : i + j - x \in 1..l /\ q[i + j - x] = Cut(q[i].kind, b, j)
    BY <1>1, <1>3 DEF Ahead
<1>5. \A j \in x..n : i + j - x \in 1..m /\ r[i + j - x] = Cut(r[i].kind, b, j)
    BY <1>2, <1>4
<1>6. QED
    BY <1>1, <1>2, <1>3, <1>5 DEF Ahead

LEMMA AheadTail ==
    ASSUME NEW q, NEW r, NEW m \in Nat, m = Len(r), Len(q) = m + 1,
           \A j \in 1..m : r[j] = q[j + 1],
           NEW i \in 1..m, NEW b, Count(Len(b)) \in Nat, Ahead(q, i + 1, b)
    PROVE  Ahead(r, i, b)
<1>1. PICK n \in Nat : n = Count(Len(b))
    OBVIOUS
<1>2. r[i] = q[i + 1]
    OBVIOUS
<1>3. PICK x \in 1..n : x = q[i + 1].chunkIndex
    BY <1>1 DEF Ahead
<1>4. \A j \in x..n : (i + 1) + j - x \in 1..(m + 1) /\ q[(i + 1) + j - x] = Cut(q[i + 1].kind, b, j)
    BY <1>1, <1>3 DEF Ahead
<1>5. ASSUME NEW j \in x..n PROVE i + j - x \in 1..m /\ r[i + j - x] = Cut(r[i].kind, b, j)
  <2>1. PICK z : z = (i + 1) + j - x
      OBVIOUS
  <2>2. z \in 1..(m + 1) /\ q[z] = Cut(q[i + 1].kind, b, j)
      BY <1>4, <1>5, <2>1, Zenon
  <2>3. n \in Nat /\ x \in 1..n /\ j \in x..n /\ z \in 1..(m + 1)
      BY <1>1, <1>3, <1>5, <2>2, Zenon
  <2>4. i \in 1..m /\ m \in Nat
      OBVIOUS
  <2>5. z = (i + j - x) + 1 /\ i + j - x \in 1..m
      BY <2>1, <2>3, <2>4
  <2>6. (i + 1) + j - x = z
      BY <2>1
  <2>7. PICK y : y = i + j - x
      OBVIOUS
  <2>8. r[y] = q[z]
      BY <2>5, <2>7
  <2>9. QED
      BY <1>2, <2>2, <2>5, <2>7, <2>8
<1>6. QED
    BY <1>1, <1>2, <1>3, <1>5 DEF Ahead

(* A blob may be cut and added to a stream: Send and the server's Pass. *)
LEMMA PushInStep ==
    ASSUME NEW q \in Seq(Chunk), NEW asm, InStep(q, asm),
           NEW k \in Kinds, NEW b \in Whole(k), NEW r, r = q \o Split(k, b)
    PROVE  InStep(r, asm)
<1>1. PICK n \in Nat \ {0} : n = Count(Len(b))
    BY WholeIs
<1>2. PICK s : s = Split(k, b)
    OBVIOUS
<1>3. /\ s \in Seq(Chunk) /\ Len(s) = n
      /\ \A i \in 1..n : s[i] = Cut(k, b, i)
    BY <1>1, <1>2, WholeIs, SplitType
<1>4. PICK l \in Nat : l = Len(q)
    BY LenProperties
<1>5. /\ Len(r) = l + n /\ r \in Seq(Chunk)
      /\ \A i \in 1..(l + n) : r[i] = IF i <= l THEN q[i] ELSE s[i - l]
  <2>1. /\ q \o s \in Seq(Chunk) /\ Len(q \o s) = Len(q) + Len(s)
        /\ \A i \in 1..(Len(q) + Len(s)) : (q \o s)[i] = IF i <= Len(q) THEN q[i] ELSE s[i - Len(q)]
      BY <1>3, ConcatProperties
  <2>2. QED
      BY <1>2, <1>3, <1>4, <2>1
<1>6. \A i \in 1..l : r[i] = q[i]
    BY <1>5
<1>7. ASSUME NEW i \in (l + 1)..(l + n) PROVE r[i] = Cut(k, b, i - l) /\ i - l \in 1..n
  <2>1. PICK j : j = i - l
      OBVIOUS
  <2>2. j \in 1..n /\ i \in 1..(l + n) /\ ~(i <= l)
      BY <1>1, <1>4, <1>7, <2>1
  <2>3. r[i] = s[j]
      BY <1>5, <2>1, <2>2
  <2>4. QED
      BY <1>3, <2>1, <2>2, <2>3
<1>8. \A i \in 1..l : \A d \in Whole(q[i].kind) : Ahead(q, i, d) => Ahead(r, i, d)
  <2>1. SUFFICES ASSUME NEW i \in 1..l, NEW d \in Whole(q[i].kind), Ahead(q, i, d) PROVE Ahead(r, i, d)
      OBVIOUS
  <2>2. q[i] \in Chunk
      BY <1>4
  <2>3. q[i].kind \in Kinds
      BY <2>2 DEF Chunk, Cut
  <2>4. Count(Len(d)) \in Nat
      BY <2>3, WholeIs
  <2>5. l + n \in Nat /\ l =< l + n
      OBVIOUS
  <2>6. QED
      BY <1>4, <1>5, <1>6, <2>1, <2>4, <2>5, AheadKept
<1>9. ASSUME NEW i \in (l + 1)..(l + n)
      PROVE  /\ Ahead(r, i, b) /\ r[i].kind = k
             /\ r[i].chunkIndex = i - l /\ r[i].chunkCount = n
  <2>1. r[i].kind = k /\ r[i].chunkIndex = i - l /\ r[i].chunkCount = n /\ i - l \in 1..n
    <3>1. r[i] = Cut(k, b, i - l) /\ i - l \in 1..n
        BY <1>7, <1>9
    <3>2. QED
        BY <1>1, <3>1 DEF Cut
  <2>2. PICK x \in 1..n : x = i - l
      BY <2>1
  <2>3. ASSUME NEW h \in x..n PROVE i + h - x \in 1..(l + n) /\ r[i + h - x] = Cut(k, b, h)
    <3>1. PICK y : y = i + h - x
        OBVIOUS
    <3>2. y \in (l + 1)..(l + n) /\ y - l = h
        BY <1>1, <1>4, <1>9, <2>2, <2>3, <3>1
    <3>3. r[y] = Cut(k, b, h)
        BY <1>7, <3>2
    <3>4. QED
        BY <1>1, <1>4, <3>1, <3>2, <3>3
  <2>4. QED
      BY <1>1, <1>5, <2>1, <2>2, <2>3 DEF Ahead
<1>10. Follow(r)
  <2>1. SUFFICES ASSUME NEW i \in 1..(l + n) PROVE \E d \in Whole(r[i].kind) : Ahead(r, i, d)
      BY <1>5 DEF Follow
  <2>2. CASE i \in 1..l
      BY <1>4, <1>6, <1>8, <2>2 DEF InStep, Follow
  <2>3. CASE i \notin 1..l
    <3>1. i \in (l + 1)..(l + n)
        BY <1>1, <1>4, <2>1, <2>3
    <3>2. QED
        BY <1>9, <3>1
  <2>4. QED
      BY <2>2, <2>3
<1>11. Begin(r)
  <2>1. SUFFICES ASSUME NEW i \in 1..(l + n - 1), r[i].chunkIndex = r[i].chunkCount
                 PROVE  r[i + 1].chunkIndex = 1
      BY <1>5 DEF Begin
  <2>2. CASE i < l
    <3>1. i \in 1..(l - 1) /\ i \in 1..l /\ i + 1 \in 1..l
        BY <1>1, <1>4, <2>1, <2>2
    <3>2. r[i] = q[i] /\ r[i + 1] = q[i + 1]
        BY <1>6, <3>1
    <3>3. QED
        BY <1>4, <2>1, <3>1, <3>2 DEF InStep, Begin
  <2>3. CASE i = l
    <3>1. i + 1 \in (l + 1)..(l + n) /\ (i + 1) - l = 1
        BY <1>1, <1>4, <2>3
    <3>2. QED
        BY <1>9, <3>1
  <2>4. CASE i > l
    <3>1. i \in (l + 1)..(l + n) /\ i - l # n
        BY <1>1, <1>4, <2>1, <2>4
    <3>2. r[i].chunkIndex = i - l /\ r[i].chunkCount = n
        BY <1>9, <3>1
    <3>3. QED
        BY <2>1, <3>1, <3>2
  <2>5. i < l \/ i = l \/ i > l
      BY <1>1, <1>4, <2>1
  <2>6. QED
      BY <2>2, <2>3, <2>4, <2>5
<1>12. Meet(r, asm)
  <2>1. CASE q = <<>>
    <3>1. l = 0
        BY <1>4, <2>1
    <3>2. 1 \in (l + 1)..(l + n) /\ 1 - l = 1
        BY <1>1, <3>1
    <3>3. Ahead(r, 1, b) /\ r[1].kind = k /\ r[1].chunkIndex = 1
        BY <1>9, <3>2
    <3>4. QED
        BY <3>3 DEF Meet, Begun
  <2>2. CASE q # <<>>
    <3>1. 1 \in 1..l
        BY <1>4, <2>2, EmptySeq
    <3>2. QED
        BY <1>6, <1>8, <2>2, <3>1 DEF InStep, Meet
  <2>3. QED
      BY <2>1, <2>2
<1>13. QED
    BY <1>10, <1>11, <1>12 DEF InStep

LEMMA EmptyInStep == ASSUME NEW asm PROVE InStep(<<>>, asm)
<1>1. 1..0 = {} /\ 1..(0 - 1) = {} /\ Len(<<>>) = 0
    OBVIOUS
<1>2. QED
    BY <1>1 DEF InStep, Follow, Begin, Meet

LEMMA AheadNext ==
    ASSUME NEW q, NEW k, NEW b, NEW n \in Nat, n = Count(Len(b)), Ahead(q, 1, b), q[1].kind = k,
           q[1].chunkIndex # n
    PROVE  /\ q[2] = Cut(k, b, q[1].chunkIndex + 1) /\ Ahead(q, 1 + 1, b)
<1>1. PICK x \in 1..n : x = q[1].chunkIndex
    BY DEF Ahead
<1>2. \A j \in x..n : 1 + j - x \in 1..Len(q) /\ q[1 + j - x] = Cut(k, b, j)
    BY <1>1 DEF Ahead
<1>3. PICK y \in 1..n : y = x + 1
    BY <1>1
<1>4. q[2] = Cut(k, b, y)
  <2>1. y \in x..n /\ 1 + y - x = 2
      BY <1>1, <1>3
  <2>2. q[1 + y - x] = Cut(k, b, y)
      BY <1>2, <2>1
  <2>3. QED
      BY <2>1, <2>2
<1>5. q[2].kind = k /\ q[2].chunkIndex = y
    BY <1>4 DEF Cut
<1>6. ASSUME NEW j \in y..n PROVE 2 + j - y \in 1..Len(q) /\ q[2 + j - y] = Cut(k, b, j)
  <2>1. j \in x..n /\ 1 + j - x = 2 + j - y
    <3>1. x \in 1..n /\ y \in 1..n /\ y = x + 1 /\ j \in y..n
        BY <1>1, <1>3, <1>6
    <3>2. QED
        BY <3>1
  <2>2. 1 + j - x \in 1..Len(q) /\ q[1 + j - x] = Cut(k, b, j)
      BY <1>2, <2>1, Zenon
  <2>3. QED
      BY <2>1, <2>2
<1>7. Ahead(q, 2, b)
    BY <1>3, <1>5, <1>6 DEF Ahead
<1>8. QED
    BY <1>1, <1>3, <1>4, <1>7

(* A chunk that the assembly meets: the parts up to it are those of the    *)
(* blob, and the assembly is whole with the last one only.                 *)
LEMMA PlacedInStep ==
    ASSUME NEW k \in Kinds, NEW old, AsmOK(k, old), Filled(old),
           NEW b \in Whole(k), NEW n, n = Count(Len(b)), NEW i \in 1..n,
           NEW c, c = Cut(k, b, i), Begun(old, b, c), NEW a, a = Placed(old, c)
    PROVE  /\ AsmOf(k, a, Len(b)) /\ \A j \in 1..i : a.chunks[j] = Part(b, j)
           /\ Complete(a) <=> i = n
           /\ Complete(a) => Joined(a) = b
           /\ Filled(Rest(a))
<1>1. /\ b \in Shaped(k) /\ k \in {"app", "inv"} /\ n \in Nat \ {0}
      /\ Len(b) \in 2..(kMaxWorn + 2) /\ b \in Seq(Field) /\ b # <<>>
    BY WholeIs, ShapedIs
<1>2. /\ AsmOf(k, a, Len(b)) /\ a.chunks[i] = Part(b, i)
      /\ \A j \in 1..n : j # i => a.chunks[j] = IF OtherBlob(old, c) THEN <<>> ELSE old.chunks[j]
      /\ ~OtherBlob(old, c) => AsmOf(k, old, Len(b))
    BY <1>1, PlacedIs
<1>3. c.chunkIndex = i
    BY DEF Cut
<1>4. ASSUME NEW j \in 1..i PROVE j \in 1..n /\ a.chunks[j] = Part(b, j)
  <2>1. CASE j = i
      BY <1>1, <1>2, <2>1
  <2>2. CASE j # i
    <3>1. i > 1 /\ j \in 1..(i - 1) /\ j \in 1..n
        BY <1>1, <1>4, <2>2
    <3>2. ~OtherBlob(old, c) /\ old.chunks[j] = Part(b, j)
        BY <1>3, <3>1 DEF Begun
    <3>3. QED
        BY <1>2, <2>2, <3>1, <3>2
  <2>3. QED
      BY <2>1, <2>2
<1>5. \A j \in 1..i : a.chunks[j] # <<>>
    BY <1>1, <1>4, PartIs
<1>6. \E m \in 0..(n - 1) : \A j \in 1..n : j # i => (a.chunks[j] # <<>> <=> j <= m)
  <2>1. CASE OtherBlob(old, c)
    <3>1. \A j \in 1..n : j # i => (a.chunks[j] # <<>> <=> j <= 0)
        BY <1>1, <1>2, <2>1
    <3>2. 0 \in 0..(n - 1)
        BY <1>1
    <3>3. QED
        BY <3>1, <3>2
  <2>2. CASE ~OtherBlob(old, c)
    <3>1. old.chunkCount = n /\ old # NoAssembly
        BY <1>1, <1>2, <2>2 DEF AsmOf, NoAssembly
    <3>2. PICK m \in 1..(n - 1) : \A j \in 1..n : old.chunks[j] # <<>> <=> j <= m
        BY <3>1 DEF Filled
    <3>3. QED
        BY <1>2, <2>2, <3>2
  <2>3. QED
      BY <2>1, <2>2
<1>7. PICK m \in 0..(n - 1) : \A j \in 1..n : j # i => (a.chunks[j] # <<>> <=> j <= m)
    BY <1>6
<1>8. i =< m + 1
  <2>1. SUFFICES ASSUME i > m + 1 PROVE FALSE
      BY <1>1, <1>7
  <2>2. PICK j \in 1..n : j = i - 1 /\ j # i /\ j \in 1..i /\ ~(j <= m)
      BY <1>1, <1>7, <2>1
  <2>3. QED
      BY <1>5, <1>7, <2>2
<1>9. PICK h \in 1..n : (h = n <=> i = n) /\ \A j \in 1..n : a.chunks[j] # <<>> <=> j <= h
  <2>1. PICK h \in 1..n : h = IF i = m + 1 THEN i ELSE m
      BY <1>1, <1>7, <1>8
  <2>2. (h = n <=> i = n) /\ i =< h /\ m =< h /\ (h # m => h = i)
      BY <1>1, <1>7, <1>8, <2>1
  <2>3. ASSUME NEW j \in 1..n PROVE a.chunks[j] # <<>> <=> j <= h
    <3>1. CASE j = i
      <4>1. i \in 1..i
          BY <1>1
      <4>2. QED
          BY <1>5, <2>2, <3>1, <4>1
    <3>2. CASE j # i
      <4>1. a.chunks[j] # <<>> <=> j <= m
          BY <1>7, <3>2
      <4>2. j <= m <=> j <= h
          BY <1>1, <1>7, <1>8, <2>1, <2>2, <3>2
      <4>3. QED
          BY <4>1, <4>2
    <3>3. QED
        BY <3>1, <3>2
  <2>4. QED
      BY <2>2, <2>3
<1>10. Complete(a) <=> i = n
  <2>1. Complete(a) <=> \A j \in 1..n : a.chunks[j] # <<>>
      BY <1>1, <1>2, CompleteIs
  <2>2. (\A j \in 1..n : a.chunks[j] # <<>>) <=> h = n
      BY <1>1, <1>9
  <2>3. QED
      BY <1>9, <2>1, <2>2
<1>11. Complete(a) => Joined(a) = b
  <2>1. SUFFICES ASSUME i = n PROVE Joined(a) = b
      BY <1>10
  <2>2. a.chunks \in [1..n -> Seq(Field)]
      BY <1>2 DEF AsmOf
  <2>3. a.chunks = [j \in 1..n |-> Part(b, j)]
      BY <1>4, <2>1, <2>2
  <2>4. QED
      BY <1>1, <2>3, JoinedParts DEF Joined
<1>12. Filled(Rest(a))
  <2>1. CASE Complete(a)
      BY <2>1 DEF Rest, Filled
  <2>2. CASE ~Complete(a)
    <3>1. Rest(a) = a /\ a.chunkCount = n /\ h \in 1..(n - 1)
        BY <1>1, <1>2, <1>9, <1>10, <2>2 DEF Rest, AsmOf
    <3>2. QED
        BY <1>9, <3>1 DEF Filled
  <2>3. QED
      BY <2>1, <2>2
<1>13. QED
    BY <1>2, <1>4, <1>10, <1>11, <1>12

(* The next chunk may be taken: ServerRecv and HandleBlobChunk.  What is   *)
(* made whole is a blob that was sent.                                     *)
Takes(q, asm, c, a, asm2) ==
    /\ q \in Seq(Chunk) /\ q # <<>> /\ InStep(q, asm)
    /\ \A k \in Kinds : AsmOK(k, asm[k]) /\ Filled(asm[k])
    /\ c = Head(q) /\ a = Placed(asm[c.kind], c)
    /\ \A k \in Kinds : asm2[k] = IF k = c.kind THEN Rest(a) ELSE asm[k]

LEMMA TakeInStep ==
    ASSUME NEW q, NEW asm, NEW c, NEW a, NEW asm2, Takes(q, asm, c, a, asm2)
    PROVE  /\ InStep(Tail(q), asm2)
           /\ \A k \in Kinds : Filled(asm2[k])
           /\ Complete(a) => Joined(a) \in Whole(c.kind)
<1>1. /\ q \in Seq(Chunk) /\ q # <<>> /\ InStep(q, asm)
      /\ \A k \in Kinds : AsmOK(k, asm[k]) /\ Filled(asm[k])
      /\ c = Head(q) /\ a = Placed(asm[c.kind], c)
      /\ \A k \in Kinds : asm2[k] = IF k = c.kind THEN Rest(a) ELSE asm[k]
    BY DEF Takes
<1> USE <1>1
<1>2. PICK m \in Nat : Len(q) = m + 1
  <2>1. Len(q) \in Nat /\ Len(q) # 0
      BY EmptySeq
  <2>2. Len(q) - 1 \in Nat /\ Len(q) = (Len(q) - 1) + 1
      BY <2>1
  <2>3. QED
      BY <2>2
<1>3. /\ c = q[1] /\ 1 \in 1..Len(q)
      /\ \A i \in 1..Len(q) : q[i] \in Chunk /\ q[i].kind \in Kinds
  <2>1. \A i \in 1..Len(q) : q[i] \in Chunk
      BY ElementOfSeq
  <2>2. \A d \in Chunk : d.kind \in Kinds
      BY DEF Chunk, Cut
  <2>3. QED
      BY <1>2, <2>1, <2>2
<1>4. PICK t : t = Tail(q)
    OBVIOUS
<1>5. t \in Seq(Chunk) /\ Len(t) = m /\ \A i \in 1..m : t[i] = q[i + 1]
  <2>1. Tail(q) \in Seq(Chunk) /\ Len(Tail(q)) = Len(q) - 1 /\ \A i \in 1..Len(Tail(q)) : Tail(q)[i] = q[i + 1]
      BY HeadTailProperties
  <2>2. QED
      BY <1>2, <1>4, <2>1
<1>6. PICK k \in Kinds : k = c.kind
    BY <1>3
<1>7. PICK b \in Whole(k) : Ahead(q, 1, b) /\ Begun(asm[k], b, c)
    BY <1>3, <1>6 DEF InStep, Meet
<1>8. PICK n \in Nat \ {0} : n = Count(Len(b))
    BY WholeIs
<1>9. PICK i \in 1..n : i = c.chunkIndex
    BY <1>3, <1>7, <1>8 DEF Ahead
<1>10. c = Cut(k, b, i)
  <2>1. \A j \in i..n : q[1 + j - i] = Cut(k, b, j)
      BY <1>3, <1>6, <1>7, <1>8, <1>9 DEF Ahead
  <2>2. i \in i..n /\ 1 + i - i = 1
      BY <1>8, <1>9
  <2>3. q[1 + i - i] = Cut(k, b, i)
      BY <2>1, <2>2, Zenon
  <2>4. QED
      BY <1>3, <2>2, <2>3
<1>11. /\ AsmOf(k, a, Len(b)) /\ \A j \in 1..i : a.chunks[j] = Part(b, j)
       /\ Complete(a) <=> i = n
       /\ Complete(a) => Joined(a) = b
       /\ Filled(Rest(a))
    BY <1>6, <1>7, <1>8, <1>9, <1>10, PlacedInStep
<1>12. Complete(a) => Joined(a) \in Whole(c.kind)
    BY <1>6, <1>7, <1>11
<1>13. \A h \in Kinds : Filled(asm2[h])
    BY <1>6, <1>11
<1>14. \A j \in 1..m : \A d \in Whole(t[j].kind) : Ahead(q, j + 1, d) => Ahead(t, j, d)
  <2>1. SUFFICES ASSUME NEW j \in 1..m, NEW d \in Whole(t[j].kind), Ahead(q, j + 1, d)
                 PROVE  Ahead(t, j, d)
      OBVIOUS
  <2>2. t[j].kind \in Kinds
    <3>1. j + 1 \in 1..Len(q) /\ t[j] = q[j + 1]
        BY <1>2, <1>5, <2>1
    <3>2. QED
        BY <1>3, <3>1
  <2>3. Count(Len(d)) \in Nat
      BY <2>2, WholeIs
  <2>4. QED
      BY <1>2, <1>5, <2>1, <2>3, AheadTail
<1>15. Follow(t)
  <2>1. SUFFICES ASSUME NEW j \in 1..m PROVE \E d \in Whole(t[j].kind) : Ahead(t, j, d)
      BY <1>5 DEF Follow
  <2>2. j + 1 \in 1..Len(q) /\ t[j] = q[j + 1]
      BY <1>2, <1>5
  <2>3. PICK d \in Whole(t[j].kind) : Ahead(q, j + 1, d)
      BY <2>2 DEF InStep, Follow
  <2>4. QED
      BY <1>14, <2>3
<1>16. Begin(t)
  <2>1. SUFFICES ASSUME NEW j \in 1..(m - 1), t[j].chunkIndex = t[j].chunkCount
                 PROVE  t[j + 1].chunkIndex = 1
      BY <1>5 DEF Begin
  <2>2. PICK h : h = j + 1
      OBVIOUS
  <2>3. j \in 1..m /\ h \in 1..m /\ h \in 1..(Len(q) - 1)
      BY <1>2, <2>1, <2>2
  <2>4. t[j] = q[h] /\ t[h] = q[h + 1]
      BY <1>5, <2>2, <2>3
  <2>5. q[h].chunkIndex = q[h].chunkCount => q[h + 1].chunkIndex = 1
      BY <2>3 DEF InStep, Begin
  <2>6. QED
      BY <2>1, <2>2, <2>4, <2>5
<1>17. Meet(t, asm2)
  <2>1. SUFFICES ASSUME t # <<>>
                 PROVE \E d \in Whole(t[1].kind) : Ahead(t, 1, d) /\ Begun(asm2[t[1].kind], d, t[1])
      BY DEF Meet
  <2>2. 1 \in 1..m /\ t[1] = q[2] /\ 1 \in 1..(Len(q) - 1)
    <3>1. m # 0
        BY <1>5, <2>1, EmptySeq
    <3>2. QED
        BY <1>2, <1>5, <3>1
  <2>3. CASE i = n
    <3>1. c.chunkIndex = c.chunkCount
        BY <1>8, <1>9, <1>10, <2>3 DEF Cut
    <3>2. q[1].chunkIndex = q[1].chunkCount => q[1 + 1].chunkIndex = 1
        BY <2>2 DEF InStep, Begin
    <3>3. t[1].chunkIndex = 1
        BY <1>3, <2>2, <3>1, <3>2
    <3>4. PICK d \in Whole(t[1].kind) : Ahead(t, 1, d)
        BY <1>5, <1>15, <2>2 DEF Follow
    <3>5. QED
        BY <3>3, <3>4 DEF Begun
  <2>4. CASE i # n
    <3>1. q[2] = Cut(k, b, i + 1) /\ Ahead(q, 1 + 1, b)
        BY <1>3, <1>6, <1>7, <1>8, <1>9, <2>4, AheadNext
    <3>2. t[1] = Cut(k, b, i + 1) /\ t[1].kind = k
        BY <2>2, <3>1 DEF Cut
    <3>3. Ahead(t, 1, b)
        BY <1>7, <1>14, <2>2, <3>1, <3>2
    <3>4. asm2[k] = a
        BY <1>6, <1>11, <2>4 DEF Rest
    <3>5. /\ t[1].chunkIndex = i + 1 /\ t[1].chunkCount = n /\ t[1].blobBytes = Len(b)
          /\ a.chunkCount = n /\ a.blobBytes = Len(b) /\ (i + 1) - 1 = i
      <4>1. t[1].chunkIndex = i + 1 /\ t[1].chunkCount = n /\ t[1].blobBytes = Len(b)
          BY <1>8, <3>2 DEF Cut
      <4>2. a.chunkCount = n /\ a.blobBytes = Len(b)
        <5>1. AsmOf(k, a, Len(b))
            BY <1>11
        <5>2. QED
            BY <1>8, <5>1 DEF AsmOf
      <4>3. (i + 1) - 1 = i
          BY <1>8, <1>9
      <4>4. QED
          BY <4>1, <4>2, <4>3
    <3>6. Begun(a, b, t[1])
        BY <1>11, <3>5 DEF Begun, OtherBlob
    <3>7. QED
        BY <1>7, <3>2, <3>3, <3>4, <3>6
  <2>5. QED
      BY <2>3, <2>4
<1>18. QED
    BY <1>4, <1>12, <1>13, <1>15, <1>16, <1>17 DEF InStep

-----------------------------------------------------------------------------
(* The rate.  g[n] is what was admitted within the last n ticks.  What the *)
(* window before this one admitted is less than the limit, as the chunk    *)
(* that opened it is older than a window.                                  *)
Rates(b, adm, g) ==
    /\ b \in [age : 0..Window, count : 0..(Limit + 1)]
    /\ adm \in [0..(Window - 1) -> Nat]
    /\ g \in [0..Window -> Nat] /\ g[0] = 0
    /\ \A n \in 1..Window : g[n] = g[n - 1] + adm[n - 1]
    /\ IF b.age = Window THEN adm[0] = 0 /\ g[Window] =< Limit - 1
       ELSE /\ g[b.age + 1] =< b.count /\ g[b.age + 1] =< Limit
            /\ g[Window] =< g[b.age + 1] + Limit - 1
            /\ adm[b.age] >= 1

LEMMA BucketType ==
    ASSUME NEW x \in 0..Window, NEW y \in 0..(Limit + 1)
    PROVE  [age |-> x, count |-> y] \in [age : 0..Window, count : 0..(Limit + 1)]
    OBVIOUS

LEMMA TotalsIs ==
    ASSUME NEW b, NEW g, Rates(b, admitted, g)
    PROVE  Totals[Window] =< 2 * Limit - 1
<1>1. /\ Window \in Nat \ {0} /\ Limit \in Nat \ {0}
      /\ g \in [0..Window -> Nat] /\ g[0] = 0
      /\ \A n \in 1..Window : g[n] = g[n - 1] + admitted[n - 1]
    BY BlobsAssumption DEF Rates
<1>2. PICK t : t = Totals
    OBVIOUS
<1>3. \E f : f = [n \in 0..Window |-> IF n = 0 THEN 0 ELSE f[n - 1] + admitted[n - 1]]
  <2>1. ASSUME NEW n \in 0..Window
        PROVE  g[n] = IF n = 0 THEN 0 ELSE g[n - 1] + admitted[n - 1]
    <3>1. n # 0 => n \in 1..Window
        BY <1>1
    <3>2. QED
        BY <1>1, <3>1
  <2>2. g = [n \in 0..Window |-> g[n]]
      BY <1>1
  <2>3. g = [n \in 0..Window |-> IF n = 0 THEN 0 ELSE g[n - 1] + admitted[n - 1]]
      BY <2>1, <2>2
  <2>4. QED
      BY <2>3
<1>4. t = [n \in 0..Window |-> IF n = 0 THEN 0 ELSE t[n - 1] + admitted[n - 1]]
    BY <1>2, <1>3 DEF Totals
<1>5. \A n \in 0..Window : t[n] = IF n = 0 THEN 0 ELSE t[n - 1] + admitted[n - 1]
    BY <1>4
<1>6. \A n \in 0..Window : t[n] = g[n]
  <2> DEFINE W == {n \in 0..Window : t[n] # g[n]}
  <2> SUFFICES ASSUME W # {} PROVE FALSE
      OBVIOUS
  <2>1. PICK n \in W : \A j \in W : n =< j
    <3>1. W \subseteq Nat
        BY <1>1
    <3> HIDE DEF W
    <3>2. QED
        BY <3>1, Least
  <2>2. n \in 0..Window /\ t[n] # g[n]
      OBVIOUS
  <2>3. n # 0
      BY <1>1, <1>5, <2>2
  <2>4. n \in 1..Window /\ n - 1 \in 0..Window /\ n - 1 \notin W
      BY <1>1, <2>1, <2>2, <2>3
  <2>5. t[n - 1] = g[n - 1]
      BY <2>4
  <2>6. QED
      BY <1>1, <1>5, <2>2, <2>3, <2>4, <2>5
<1>7. Totals[Window] = g[Window]
    BY <1>1, <1>2, <1>6
<1>8. g[Window] =< 2 * Limit - 1
  <2>1. b.age \in 0..Window
      BY DEF Rates
  <2>2. CASE b.age = Window
      BY <1>1, <2>2 DEF Rates
  <2>3. CASE b.age # Window
    <3>1. b.age + 1 \in 0..Window
        BY <1>1, <2>1, <2>3
    <3>2. PICK x \in Nat, y \in Nat : x = g[b.age + 1] /\ y = g[Window]
        BY <1>1, <3>1
    <3>3. x =< Limit /\ y =< x + Limit - 1
        BY <2>3, <3>2 DEF Rates
    <3>4. QED
        BY <1>1, <3>2, <3>3
  <2>4. QED
      BY <2>2, <2>3
<1>9. QED
    BY <1>7, <1>8

(* allow_rate, whether it admits the chunk or not. *)
Admission(b, adm, g, b1, b2, adm2) ==
    /\ Rates(b, adm, g)
    /\ b1 = IF b.age >= Window THEN [age |-> 0, count |-> 1] ELSE [b EXCEPT !.count = @ + 1]
    /\ b2 = [b1 EXCEPT !.count = IF @ > Limit THEN Limit + 1 ELSE @]
    /\ adm2 = IF b1.count <= Limit THEN [adm EXCEPT ![0] = @ + 1] ELSE adm

LEMMA RateTaken ==
    ASSUME NEW b, NEW adm, NEW g, NEW b1, NEW b2, NEW adm2, Admission(b, adm, g, b1, b2, adm2)
    PROVE  \E g2 : Rates(b2, adm2, g2)
<1>1. /\ Rates(b, adm, g)
      /\ b1 = IF b.age >= Window THEN [age |-> 0, count |-> 1] ELSE [b EXCEPT !.count = @ + 1]
      /\ b2 = [b1 EXCEPT !.count = IF @ > Limit THEN Limit + 1 ELSE @]
      /\ adm2 = IF b1.count <= Limit THEN [adm EXCEPT ![0] = @ + 1] ELSE adm
    BY DEF Admission
<1>2. /\ Window \in Nat \ {0} /\ Limit \in Nat \ {0}
      /\ adm \in [0..(Window - 1) -> Nat]
      /\ g \in [0..Window -> Nat] /\ g[0] = 0
      /\ \A n \in 1..Window : g[n] = g[n - 1] + adm[n - 1]
    BY <1>1, BlobsAssumption DEF Rates
<1>3. PICK p \in 0..Window, y \in 0..(Limit + 1) : b = [age |-> p, count |-> y]
    BY <1>1 DEF Rates
<1>4. b.age = p /\ b.count = y
    BY <1>3
<1>5. CASE b1.count > Limit
  <2>1. b.age # Window
      BY <1>1, <1>2, <1>3, <1>4, <1>5
  <2>2. /\ b2 = [age |-> b.age, count |-> Limit + 1] /\ adm2 = adm
      BY <1>1, <1>2, <1>3, <1>4, <1>5, <2>1
  <2>3. /\ g[b.age + 1] =< Limit /\ g[Window] =< g[b.age + 1] + Limit - 1 /\ adm[b.age] >= 1
      BY <1>1, <2>1 DEF Rates
  <2>4. g[b.age + 1] \in Nat
      BY <1>2, <1>3, <1>4, <2>1
  <2>5. g[b.age + 1] =< Limit + 1
    <3>1. PICK r \in Nat : r = g[b.age + 1]
        BY <2>4
    <3>2. Limit \in Nat /\ r =< Limit
        BY <1>2, <2>3, <3>1
    <3>3. QED
        BY <3>1, <3>2
  <2>6. b2.age = b.age /\ b2.count = Limit + 1 /\ b2 \in [age : 0..Window, count : 0..(Limit + 1)]
    <3>1. Limit + 1 \in 0..(Limit + 1) /\ b2 = [age |-> p, count |-> Limit + 1]
      <4>1. Limit + 1 \in 0..(Limit + 1)
          BY <1>2
      <4>2. b2 = [age |-> p, count |-> Limit + 1]
          BY <1>4, <2>2, Zenon
      <4>3. QED
          BY <4>1, <4>2, Zenon
    <3>2. b2 \in [age : 0..Window, count : 0..(Limit + 1)]
        BY <3>1, BucketType
    <3>3. QED
        BY <1>4, <3>1, <3>2
  <2>7. Rates(b2, adm2, g)
      BY <1>2, <1>3, <1>4, <2>1, <2>2, <2>3, <2>5, <2>6 DEF Rates
  <2>8. QED
      BY <2>7
<1>6. CASE ~(b1.count > Limit)
  <2>1. PICK g2 : g2 = [n \in 0..Window |-> IF n = 0 THEN 0 ELSE g[n] + 1]
      OBVIOUS
  <2>2. g2 \in [0..Window -> Nat] /\ g2[0] = 0 /\ \A n \in 1..Window : g2[n] = g[n] + 1
    <3>1. \A n \in 0..Window : (IF n = 0 THEN 0 ELSE g[n] + 1) \in Nat
        BY <1>2
    <3>2. g2 \in [0..Window -> Nat]
        BY <2>1, <3>1
    <3>3. Window \in Nat
        BY <1>2
    <3>4. g2[0] = 0 /\ \A n \in 1..Window : g2[n] = g[n] + 1
        BY <2>1, <3>3
    <3>5. QED
        BY <3>2, <3>4
  <2>3. b1.count \in Nat /\ b1.count <= Limit /\ b2 = b1
    <3>1. CASE b.age = Window
        BY <1>1, <1>2, <1>3, <1>4, <1>6, <3>1
    <3>2. CASE b.age # Window
        BY <1>1, <1>2, <1>3, <1>4, <1>6, <3>2
    <3>3. QED
        BY <3>1, <3>2
  <2>4. /\ adm2 \in [0..(Window - 1) -> Nat] /\ adm2[0] = adm[0] + 1
        /\ \A n \in 1..(Window - 1) : adm2[n] = adm[n]
    <3>1. adm2 = [adm EXCEPT ![0] = adm[0] + 1]
        BY <1>1, <2>3
    <3>2. 0 \in 0..(Window - 1) /\ adm[0] \in Nat
        BY <1>2
    <3>3. QED
        BY <1>2, <3>1, <3>2
  <2>5. \A n \in 1..Window : g2[n] = g2[n - 1] + adm2[n - 1]
    <3>1. SUFFICES ASSUME NEW n \in 1..Window PROVE g2[n] = g2[n - 1] + adm2[n - 1]
        OBVIOUS
    <3>2. CASE n = 1
      <4>1. g2[1] = g[1] + 1 /\ g[1] = g[0] + adm[0] /\ adm[0] \in Nat
        <5>1. 1 \in 1..Window /\ 0 \in 0..(Window - 1) /\ 1 - 1 = 0
            BY <1>2
        <5>2. QED
            BY <1>2, <1>3, <1>4, <2>2, <5>1
      <4>2. QED
          BY <1>2, <1>3, <1>4, <2>2, <2>4, <3>2, <4>1
    <3>3. CASE n # 1
      <4>1. PICK m \in 1..(Window - 1) : m = n - 1
          BY <1>2, <1>3, <1>4, <3>3
      <4>2. /\ g2[n] = g[n] + 1 /\ g2[m] = g[m] + 1 /\ adm2[m] = adm[m] /\ g[n] = g[m] + adm[m]
            /\ g[m] \in Nat /\ adm[m] \in Nat
        <5>1. n \in 1..Window /\ m \in 1..Window /\ n - 1 = m /\ m \in 0..(Window - 1) /\ m \in 0..Window
            BY <1>2, <4>1
        <5>2. g2[n] = g[n] + 1 /\ g2[m] = g[m] + 1 /\ adm2[m] = adm[m]
            BY <2>2, <2>4, <4>1, <5>1
        <5>3. g[n] = g[m] + adm[m]
            BY <1>2, <5>1
        <5>4. QED
            BY <1>2, <5>1, <5>2, <5>3
      <4>3. QED
          BY <4>1, <4>2
    <3>4. QED
        BY <3>2, <3>3
  <2>6. CASE b.age = Window
    <3>1. b2 = [age |-> 0, count |-> 1] /\ adm[0] = 0 /\ g[Window] =< Limit - 1
        BY <1>1, <1>2, <1>3, <1>4, <2>3, <2>6 DEF Rates
    <3>2. g2[1] = 1
      <4>1. 1 \in 1..Window /\ 1 - 1 = 0
          BY <1>2
      <4>2. QED
        <5>1. g2[1] = g[1] + 1
            BY <2>2, <4>1
        <5>2. g[1] = g[0] + adm[0]
            BY <1>2, <4>1
        <5>3. QED
            BY <1>2, <3>1, <5>1, <5>2
    <3>3. g2[Window] = g[Window] + 1 /\ g[Window] \in Nat
        BY <1>2, <1>3, <1>4, <2>2
    <3>4. g2[Window] =< g2[1] + Limit - 1 /\ 1 =< Limit /\ adm2[0] = 1
        BY <1>2, <1>3, <1>4, <2>4, <3>1, <3>2, <3>3
    <3>5. b2 \in [age : 0..Window, count : 0..(Limit + 1)] /\ b2.age = 0 /\ b2.count = 1 /\ 0 # Window
      <4>1. 0 \in 0..Window /\ 1 \in 0..(Limit + 1) /\ 0 # Window
          BY <1>2
      <4>2. b2 \in [age : 0..Window, count : 0..(Limit + 1)]
          BY <3>1, <4>1, BucketType
      <4>3. QED
          BY <3>1, <4>1, <4>2
    <3>6. /\ g2[b2.age + 1] =< b2.count /\ g2[b2.age + 1] =< Limit
          /\ g2[Window] =< g2[b2.age + 1] + Limit - 1 /\ adm2[b2.age] >= 1
      <4>1. b2.age + 1 = 1
          BY <3>5
      <4>2. PICK v \in Nat : v = g2[Window]
          BY <3>3
      <4>3. v =< 1 + Limit - 1 /\ 1 =< Limit
          BY <3>2, <3>4, <4>2
      <4>4. g2[b2.age + 1] = 1
          BY <3>2, <4>1
      <4>5. adm2[b2.age] = 1
          BY <3>4, <3>5
      <4>6. g2[b2.age + 1] =< b2.count /\ g2[b2.age + 1] =< Limit /\ adm2[b2.age] >= 1
        <5>1. b2.count = 1
            BY <3>5
        <5>2. QED
            BY <4>3, <4>4, <4>5, <5>1
      <4>7. g2[Window] =< g2[b2.age + 1] + Limit - 1
          BY <4>2, <4>3, <4>4
      <4>8. QED
          BY <4>6, <4>7
    <3>7. Rates(b2, adm2, g2)
        BY <2>2, <2>4, <2>5, <3>5, <3>6 DEF Rates
    <3>8. QED
        BY <3>7
  <2>7. CASE b.age # Window
    <3>1. PICK x \in 1..Window : x = b.age + 1
        BY <1>2, <1>3, <1>4, <2>7
    <3>2. b2 = [age |-> b.age, count |-> b.count + 1]
      <4>1. ~(p >= Window)
          BY <1>2, <1>4, <2>7
      <4>2. b1 = [b EXCEPT !.count = y + 1]
          BY <1>1, <1>4, <4>1
      <4>3. [b EXCEPT !.count = y + 1] = [age |-> p, count |-> y + 1]
          BY <1>3
      <4>4. QED
          BY <1>4, <2>3, <4>2, <4>3
    <3>3. /\ g[x] =< b.count /\ g[Window] =< g[x] + Limit - 1 /\ adm[b.age] >= 1
        BY <1>1, <2>7, <3>1 DEF Rates
    <3>4. /\ g2[x] = g[x] + 1 /\ g2[Window] = g[Window] + 1 /\ g[x] \in Nat /\ g[Window] \in Nat
        BY <1>1, <1>2, <1>3, <1>4, <2>2, <3>1
    <3>5. b2.age = b.age /\ b2.count = b.count + 1 /\ b2.count <= Limit
        BY <2>3, <3>2
    <3>6. g2[x] =< b2.count /\ g2[x] =< Limit /\ g2[Window] =< g2[x] + Limit - 1
      <4>1. Limit \in Nat
          BY <1>2
      <4>2. PICK u \in Nat, v \in Nat : u = g[x] /\ v = g[Window]
          BY <3>4
      <4>3. g2[x] = u + 1 /\ g2[Window] = v + 1 /\ u =< y /\ v =< u + Limit - 1
          BY <1>4, <3>3, <3>4, <4>2
      <4>4. b2.count = y + 1 /\ y + 1 =< Limit
          BY <1>4, <3>5
      <4>5. u + 1 =< y + 1 /\ u + 1 =< Limit /\ v + 1 =< (u + 1) + Limit - 1
          BY <4>1, <4>3, <4>4
      <4>6. QED
          BY <4>3, <4>4, <4>5
    <3>7. adm2[b.age] >= 1
      <4>1. b.age \in 0..(Window - 1) /\ adm[b.age] \in Nat
          BY <1>2, <1>3, <1>4, <2>7
      <4>2. QED
          BY <1>1, <1>2, <1>3, <1>4, <2>4, <3>3, <4>1
    <3>8. b2 \in [age : 0..Window, count : 0..(Limit + 1)]
      <4>1. y + 1 \in 0..(Limit + 1) /\ b2 = [age |-> p, count |-> y + 1]
          BY <1>2, <1>4, <3>2, <3>5
      <4>2. QED
          BY <4>1, BucketType
    <3>9. Rates(b2, adm2, g2)
        BY <2>2, <2>4, <2>5, <2>7, <3>1, <3>5, <3>6, <3>7, <3>8 DEF Rates
    <3>10. QED
        BY <3>9
  <2>8. QED
      BY <2>6, <2>7
<1>7. QED
    BY <1>5, <1>6

(* Time passes. *)
LEMMA RateTick ==
    ASSUME NEW b, NEW adm, NEW g, Rates(b, adm, g),
           NEW b2, b2 = [b EXCEPT !.age = Older(@, Window)],
           NEW adm2, adm2 = [i \in 0..(Window - 1) |-> IF i = 0 THEN 0 ELSE adm[i - 1]]
    PROVE  \E g2 : Rates(b2, adm2, g2)
<1>1. /\ Window \in Nat \ {0} /\ Limit \in Nat \ {0}
      /\ adm \in [0..(Window - 1) -> Nat]
      /\ g \in [0..Window -> Nat] /\ g[0] = 0
      /\ \A n \in 1..Window : g[n] = g[n - 1] + adm[n - 1]
    BY BlobsAssumption DEF Rates
<1>2. PICK p \in 0..Window, y \in 0..(Limit + 1) : b = [age |-> p, count |-> y]
    BY DEF Rates
<1>3. b.age = p /\ b.count = y
    BY <1>2
<1>4. PICK g2 : g2 = [n \in 0..Window |-> IF n = 0 THEN 0 ELSE g[n - 1]]
    OBVIOUS
<1>5. g2 \in [0..Window -> Nat] /\ g2[0] = 0 /\ \A n \in 1..Window : g2[n] = g[n - 1]
    BY <1>1, <1>2, <1>3, <1>4
<1>6. /\ adm2 \in [0..(Window - 1) -> Nat] /\ adm2[0] = 0
      /\ \A n \in 1..(Window - 1) : adm2[n] = adm[n - 1]
    BY <1>1
<1>7. \A n \in 1..Window : g2[n] = g2[n - 1] + adm2[n - 1]
  <2>1. SUFFICES ASSUME NEW n \in 1..Window PROVE g2[n] = g2[n - 1] + adm2[n - 1]
      OBVIOUS
  <2>2. CASE n = 1
    <3>1. 1 \in 1..Window /\ 1 - 1 = 0
        BY <1>1
    <3>2. g2[1] = g[0]
        BY <1>5, <3>1
    <3>3. QED
        BY <1>1, <1>2, <1>3, <1>5, <1>6, <2>2, <3>1, <3>2
  <2>3. CASE n # 1
    <3>1. PICK m \in 1..(Window - 1) : m = n - 1
        BY <1>1, <1>2, <1>3, <2>3
    <3>2. m \in 1..Window
        BY <1>1, <1>2, <1>3, <3>1
    <3>3. g2[n] = g[m] /\ g2[m] = g[m - 1] /\ adm2[m] = adm[m - 1] /\ g[m] = g[m - 1] + adm[m - 1]
        BY <1>1, <1>2, <1>3, <1>5, <1>6, <3>1, <3>2
    <3>4. QED
        BY <3>1, <3>3
  <2>4. QED
      BY <2>2, <2>3
<1>8. PICK w \in 0..(Window - 1) : w = Window - 1
    BY <1>1
<1>9. /\ g2[Window] = g[w] /\ g[Window] = g[w] + adm[w]
      /\ g[w] \in Nat /\ adm[w] \in Nat /\ g[Window] \in Nat
  <2>1. Window \in 1..Window /\ w \in 0..Window
      BY <1>1, <1>2, <1>3, <1>8
  <2>2. QED
      BY <1>1, <1>2, <1>3, <1>5, <1>8, <2>1
<1>10. CASE b.age = Window
  <2>1. b2 = b
      BY <1>1, <1>2, <1>3, <1>10 DEF Older
  <2>2. g2[Window] =< Limit - 1
    <3>1. g[Window] =< Limit - 1
        BY <1>10 DEF Rates
    <3>2. QED
        BY <1>1, <1>2, <1>3, <1>9, <3>1
  <2>3. Rates(b2, adm2, g2)
      BY <1>1, <1>2, <1>3, <1>5, <1>6, <1>7, <1>10, <2>1, <2>2 DEF Rates
  <2>4. QED
      BY <2>3
<1>11. CASE b.age # Window
  <2>1. PICK x \in 1..Window : x = b.age + 1
      BY <1>1, <1>2, <1>3, <1>11
  <2>2. b2 = [age |-> x, count |-> y]
      BY <1>1, <1>2, <1>3, <1>11, <2>1 DEF Older, Never
  <2>3. /\ g[x] =< b.count /\ g[x] =< Limit /\ g[Window] =< g[x] + Limit - 1 /\ adm[b.age] >= 1
      BY <1>11, <2>1 DEF Rates
  <2>4. b2 \in [age : 0..Window, count : 0..(Limit + 1)] /\ b2.age = x /\ b2.count = b.count
    <3>1. x \in 0..Window
        BY <1>1, <2>1
    <3>2. b2 \in [age : 0..Window, count : 0..(Limit + 1)]
        BY <2>2, <3>1, BucketType
    <3>3. QED
        BY <1>3, <2>2, <3>2
  <2>5. CASE x = Window
    <3>1. g2[Window] =< Limit - 1
      <4>1. b.age = w
          BY <1>1, <1>2, <1>3, <1>8, <2>1, <2>5
      <4>2. QED
          BY <1>1, <1>2, <1>3, <1>9, <2>3, <2>5, <4>1
    <3>2. Rates(b2, adm2, g2)
        BY <1>5, <1>6, <1>7, <2>4, <2>5, <3>1 DEF Rates
    <3>3. QED
        BY <3>2
  <2>6. CASE x # Window
    <3>1. PICK z \in 1..Window : z = x + 1 /\ z - 1 = x
        BY <1>1, <1>2, <1>3, <2>1, <2>6
    <3>2. g2[z] = g[x] /\ adm2[x] = adm[b.age] /\ g[x] \in Nat
      <4>1. x \in 1..(Window - 1) /\ x - 1 = b.age /\ x \in 0..Window
        <5>1. x = p + 1 /\ b.age = p /\ Window \in Nat
            BY <1>1, <1>3, <2>1
        <5>2. QED
          <6>1. x \in Nat /\ x >= 1 /\ x =< Window
              BY <2>1, <5>1
          <6>2. x =< Window - 1
              BY <2>6, <5>1, <6>1
          <6>3. QED
              BY <1>2, <5>1, <6>1, <6>2
      <4>2. QED
        <5>1. g2[z] = g[x]
            BY <1>5, <3>1
        <5>2. adm2[x] = adm[b.age]
            BY <1>6, <4>1
        <5>3. g[x] \in Nat
            BY <1>1, <4>1
        <5>4. QED
            BY <5>1, <5>2, <5>3
    <3>3. g2[Window] =< g2[z] + Limit - 1
      <4>1. Limit \in Nat
          BY BlobsAssumption
      <4>2. PICK u \in Nat, v \in Nat : u = g[w] /\ v = adm[w]
          BY <1>9
      <4>3. g2[Window] = u /\ g[Window] = u + v
          BY <1>9, <4>2
      <4>4. PICK r \in Nat : r = g[x]
          BY <3>2
      <4>5. u + v =< r + Limit - 1
          BY <2>3, <4>3, <4>4
      <4>6. u =< r + Limit - 1
          BY <4>1, <4>2, <4>4, <4>5
      <4>7. QED
          BY <3>2, <4>3, <4>4, <4>6
    <3>4. Rates(b2, adm2, g2)
        BY <1>5, <1>6, <1>7, <2>3, <2>4, <2>6, <3>1, <3>2, <3>3 DEF Rates
    <3>5. QED
        BY <3>4
  <2>7. QED
      BY <2>5, <2>6
<1>12. QED
    BY <1>10, <1>11

-----------------------------------------------------------------------------
(* What is worn *)
WornOK(w) == Cardinality(w) <= kMaxWorn /\ NoForm \notin w

LEMMA DressIs ==
    ASSUME NEW k \in Kinds, NEW b \in Shaped(k)
    PROVE  Dress(k, b) = EquipForms(FormsOf(b)) /\ WornOK(Dress(k, b))
<1>1. /\ k \in {"app", "inv"} /\ kMaxWorn \in Nat /\ b[1] = k
      /\ Len(b) \in Nat /\ b[2] = Len(b) - 2 /\ b[2] \in 0..kMaxWorn
    BY ShapedIs, BlobsAssumption
<1>2. Dress(k, b) = EquipForms(FormsOf(b))
  <2>1. CASE k = "app"
      BY <1>1, <2>1 DEF Dress, ApplyAppearanceBlob, ApplyToNpc
  <2>2. CASE k = "inv"
    <3>1. b[1] = "inv" /\ b[2] <= kMaxWorn /\ Len(b) >= b[2] + 2
        BY <1>1, <2>2
    <3>2. QED
        BY <2>2, <3>1 DEF Dress, ApplyGhostInventory, DecodeInventorySheet
  <2>3. QED
      BY <1>1, <2>1, <2>2
<1>3. PICK n \in Nat : n = b[2] /\ n <= kMaxWorn
    BY <1>1
<1>4. IsFiniteSet(1..n) /\ Cardinality(1..n) = n
    BY FS_Interval
<1>5. PICK I : I = {j \in 1..n : j + 2 <= Len(b)}
    OBVIOUS
<1>6. IsFiniteSet(I) /\ Cardinality(I) <= n
    BY <1>4, <1>5, FS_Subset
<1>7. PICK f : f = [i \in I |-> ResolveForm(b[i + 2])]
    OBVIOUS
<1>8. PICK F : F = FormsOf(b)
    OBVIOUS
<1>9. F = {ResolveForm(b[i + 2]) : i \in I}
    BY <1>3, <1>5, <1>8 DEF FormsOf
<1>10. F = {f[i] : i \in I}
    BY <1>7, <1>9
<1>11. IsFiniteSet(F) /\ Cardinality(F) <= Cardinality(I)
  <2>1. f \in Surjection(I, F)
      BY <1>7, <1>10 DEF Surjection
  <2>2. QED
      BY <1>6, <2>1, FS_Surjection
<1>12. PICK W : W = EquipForms(F)
    OBVIOUS
<1>13. W \subseteq F /\ NoForm \notin W
    BY <1>12 DEF EquipForms, Fits
<1>14. IsFiniteSet(W) /\ Cardinality(W) <= Cardinality(F)
    BY <1>11, <1>13, FS_Subset
<1>15. Cardinality(W) \in Nat /\ Cardinality(F) \in Nat /\ Cardinality(I) \in Nat
    BY <1>6, <1>11, <1>14, FS_CardinalityType
<1>16. Cardinality(W) <= kMaxWorn
    BY <1>1, <1>3, <1>6, <1>11, <1>14, <1>15
<1>17. QED
    BY <1>2, <1>8, <1>12, <1>13, <1>16 DEF WornOK

-----------------------------------------------------------------------------
(* The invariant *)

SentOK(s) ==
    /\ s = [k \in Kinds |-> s[k]]
    /\ \A k \in Kinds : s[k] \in [age : 0..Period[k] \cup {Never}, key : Outfits]
Kept(asm) == asm = [k \in Kinds |-> asm[k]] /\ \A k \in Kinds : AsmOK(k, asm[k])
Held(s) == s = [k \in Kinds |-> s[k]] /\ \A k \in Kinds : s[k] = <<>> \/ s[k] \in Shaped(k)

SenderTyped == outfit \in Outfits /\ SentOK(sent) /\ up \in Seq(Chunk)
ServerTyped == (\E g : Rates(bucket, admitted, g)) /\ Kept(assemblies) /\ Held(stored)
ReceiverTyped ==
    /\ down \in Seq(Chunk) /\ Kept(parts) /\ partsAge \in [Kinds -> 0..(Ttl + 1)]
    /\ Held(looks) /\ WornOK(worn)
Typed ==
    /\ SenderTyped /\ ServerTyped /\ ReceiverTyped
    /\ whole \in BOOLEAN /\ faults \in 0..MaxFaults

(* As long as nothing is lost both streams are in step with the assemblies *)
(* they meet, and what is kept and seen is whole.                          *)
AllFilled(asm) == \A k \in Kinds : Filled(asm[k])
UpInStep == InStep(up, assemblies) /\ AllFilled(assemblies) /\ \A k \in Kinds : stored[k] \in Blob[k]
Seen(w) == w = {} \/ \E o \in Outfits : w \in AsSeen[o]
DownInStep ==
    /\ InStep(down, parts) /\ AllFilled(parts)
    /\ (\A k \in Kinds : looks[k] \in Blob[k]) /\ Seen(worn)
Streams == whole => UpInStep /\ DownInStep

BlobIs == \A k \in Kinds : Blob[k] = {<<>>} \cup Whole(k)

LEMMA BlobKinds == BlobIs
    BY DEF BlobIs, Blob, Whole

LEMMA EmptyAssemblies ==
    ASSUME NEW asm, asm = [k \in Kinds |-> NoAssembly]
    PROVE  Kept(asm) /\ AllFilled(asm)
    BY DEF Kept, AllFilled, AsmOK, Filled

LEMMA EmptyHeld ==
    ASSUME NEW s, s = [k \in Kinds |-> <<>>]
    PROVE  Held(s) /\ \A k \in Kinds : s[k] \in Blob[k]
    BY BlobKinds DEF Held, BlobIs

LEMMA EmptyWorn == WornOK({}) /\ Seen({})
    BY FS_EmptySet, BlobsAssumption DEF WornOK, Seen

(* The next chunk of a stream is taken. *)
OneTaken(q, asm, c, a, asm2) ==
    /\ q \in Seq(Chunk) /\ q # <<>> /\ Kept(asm)
    /\ c = Head(q) /\ a = Placed(asm[c.kind], c)
    /\ asm2 = [asm EXCEPT ![c.kind] = Rest(a)]

LEMMA Taken ==
    ASSUME NEW q, NEW asm, NEW c, NEW a, NEW asm2, OneTaken(q, asm, c, a, asm2)
    PROVE  /\ c.kind \in Kinds /\ Tail(q) \in Seq(Chunk) /\ Kept(asm2)
           /\ Complete(a) => Joined(a) \in Shaped(c.kind)
           /\ InStep(q, asm) /\ AllFilled(asm) =>
                /\ InStep(Tail(q), asm2) /\ AllFilled(asm2)
                /\ Complete(a) => Joined(a) \in Whole(c.kind)
<1>1. /\ q \in Seq(Chunk) /\ q # <<>> /\ Kept(asm)
      /\ c = Head(q) /\ a = Placed(asm[c.kind], c)
      /\ asm2 = [asm EXCEPT ![c.kind] = Rest(a)]
    BY DEF OneTaken
<1> USE <1>1
<1>2. \A k \in Kinds : AsmOK(k, asm[k])
    BY DEF Kept
<1>3. /\ c.kind \in Kinds /\ Tail(q) \in Seq(Chunk)
      /\ AsmOK(c.kind, Rest(a))
      /\ Complete(a) => Joined(a) \in Shaped(c.kind)
    BY <1>2, TakenType
<1>4. \A k \in Kinds : asm2[k] = IF k = c.kind THEN Rest(a) ELSE asm[k]
    BY DEF Kept
<1>5. Kept(asm2)
  <2>1. asm2 = [k \in Kinds |-> asm2[k]]
      BY DEF Kept
  <2>2. \A k \in Kinds : AsmOK(k, asm2[k])
      BY <1>2, <1>3, <1>4
  <2>3. QED
      BY <2>1, <2>2 DEF Kept
<1>6. ASSUME InStep(q, asm), AllFilled(asm)
      PROVE  /\ InStep(Tail(q), asm2) /\ AllFilled(asm2)
             /\ Complete(a) => Joined(a) \in Whole(c.kind)
  <2>1. \A k \in Kinds : AsmOK(k, asm[k]) /\ Filled(asm[k])
      BY <1>2, <1>6 DEF AllFilled
  <2>2. /\ InStep(Tail(q), asm2)
        /\ \A k \in Kinds : Filled(asm2[k])
        /\ Complete(a) => Joined(a) \in Whole(c.kind)
    <3>1. Takes(q, asm, c, a, asm2)
        BY <1>4, <1>6, <2>1 DEF Takes
    <3>2. QED
        BY <3>1, TakeInStep
  <2>3. QED
      BY <2>2 DEF AllFilled
<1>7. QED
    BY <1>3, <1>5, <1>6

(* The sequence of the chunks that are passed on, all or some. *)
LEMMA SomeChunks ==
    ASSUME NEW s \in Seq(Chunk), NEW n \in 0..(Len(s) - 1), NEW f \in [1..n -> DOMAIN s]
    PROVE  [i \in 1..n |-> s[f[i]]] \in Seq(Chunk)
<1>1. Len(s) \in Nat /\ n \in Nat
    OBVIOUS
<1>2. \A i \in 1..n : s[f[i]] \in Chunk
  <2>1. \A j \in DOMAIN s : s[j] \in Chunk
      BY <1>1, ElementOfSeq, LenProperties
  <2>2. QED
      BY <2>1
<1>3. PICK g : g = [i \in 1..n |-> s[f[i]]]
    OBVIOUS
<1>4. g \in [1..n -> Chunk]
    BY <1>2, <1>3
<1>5. g \in Seq(Chunk)
    BY <1>1, <1>4, SeqDef
<1>6. QED
    BY <1>3, <1>5

LEMMA SendKeeps ==
    ASSUME Typed, Streams, NEW k \in Kinds, Send(k)
    PROVE  Typed' /\ Streams'
<1>1. PICK b : b = Encode(k, outfit)
    OBVIOUS
<1>2. b \in Whole(k) /\ b \in Shaped(k) /\ up' = up \o Split(k, b)
    BY <1>1, WholeShaped DEF Typed, SenderTyped, Send, Packets, Whole
<1>3. SenderTyped'
  <2>1. up' \in Seq(Chunk)
      BY <1>2, SplitType, ConcatProperties DEF Typed, SenderTyped
  <2>2. sent' = [sent EXCEPT ![k] = [age |-> 0, key |-> outfit]] /\ outfit' = outfit
      BY DEF Send
  <2>3. [age |-> 0, key |-> outfit] \in [age : 0..Period[k] \cup {Never}, key : Outfits]
      BY BlobsAssumption DEF Typed, SenderTyped
  <2>4. SentOK(sent')
      BY <2>2, <2>3 DEF Typed, SenderTyped, SentOK
  <2>5. QED
      BY <2>1, <2>2, <2>4 DEF Typed, SenderTyped
<1>4. Typed'
    BY <1>3 DEF Typed, ServerTyped, ReceiverTyped, Send, serverVars, receiverVars
<1>5. whole => InStep(up', assemblies)
    BY <1>2, PushInStep DEF Typed, SenderTyped, Streams, UpInStep
<1>6. Streams'
    BY <1>5 DEF Streams, UpInStep, DownInStep, Send, serverVars, receiverVars
<1>7. QED
    BY <1>4, <1>6

LEMMA ChangeOutfitKeeps ==
    ASSUME Typed, Streams, NEW o \in Outfits, ChangeOutfit(o)
    PROVE  Typed' /\ Streams'
<1>1. Typed'
    BY DEF Typed, SenderTyped, ServerTyped, ReceiverTyped, ChangeOutfit, serverVars, receiverVars
<1>2. Streams'
    BY DEF Streams, UpInStep, DownInStep, ChangeOutfit, serverVars, receiverVars
<1>3. QED
    BY <1>1, <1>2

LEMMA SenderCutKeeps == ASSUME Typed, Streams, SenderCut PROVE Typed' /\ Streams'
<1>1. sent' = [k \in Kinds |-> [age |-> Never, key |-> outfit]] /\ up' = <<>> /\ outfit' = outfit
      /\ faults \in 0..MaxFaults /\ faults < MaxFaults /\ faults' = faults + 1 /\ whole' = whole
    BY DEF SenderCut, Typed
<1>2. SentOK(sent')
    BY <1>1 DEF SentOK, Typed, SenderTyped
<1>3. SenderTyped'
    BY <1>1, <1>2 DEF SenderTyped, Typed
<1>4. faults' \in 0..MaxFaults
    BY <1>1, BlobsAssumption
<1>5. Typed'
    BY <1>1, <1>3, <1>4 DEF Typed, ServerTyped, ReceiverTyped, SenderCut, serverVars, receiverVars
<1>6. InStep(up', assemblies)
    BY <1>1, EmptyInStep
<1>7. Streams'
    BY <1>6 DEF Streams, UpInStep, DownInStep, SenderCut, serverVars, receiverVars
<1>8. QED
    BY <1>5, <1>7

LEMMA ExpireKeeps == ASSUME Typed, Streams, Expire PROVE Typed' /\ Streams'
<1>1. Kept(parts')
  <2>1. parts' = [k \in Kinds |-> IF Expired(k) THEN NoAssembly ELSE parts[k]]
      BY DEF Expire
  <2>2. \A k \in Kinds : AsmOK(k, parts[k]) /\ AsmOK(k, NoAssembly)
      BY DEF Typed, ReceiverTyped, Kept, AsmOK
  <2>3. \A k \in Kinds : parts'[k] = NoAssembly \/ parts'[k] = parts[k]
      BY <2>1
  <2>4. parts' = [k \in Kinds |-> parts'[k]]
      BY <2>1
  <2>5. QED
      BY <2>2, <2>3, <2>4 DEF Kept
<1>2. partsAge' \in [Kinds -> 0..(Ttl + 1)]
  <2>1. partsAge' = [k \in Kinds |-> IF Expired(k) THEN 0 ELSE partsAge[k]]
      BY DEF Expire
  <2>2. 0 \in 0..(Ttl + 1)
      BY BlobsAssumption
  <2>3. QED
      BY <2>1, <2>2 DEF Typed, ReceiverTyped
<1>3. Typed'
    BY <1>1, <1>2 DEF Typed, SenderTyped, ServerTyped, ReceiverTyped, Expire, senderVars, serverVars
<1>4. Streams'
    BY DEF Streams, Expire
<1>5. QED
    BY <1>3, <1>4

LEMMA TickKeeps == ASSUME Typed, Streams, Tick PROVE Typed' /\ Streams'
<1>1. /\ sent' = [k \in Kinds |-> [sent[k] EXCEPT !.age = Older(@, Period[k])]]
      /\ bucket' = [bucket EXCEPT !.age = Older(@, Window)]
      /\ admitted' = [i \in 0..(Window - 1) |-> IF i = 0 THEN 0 ELSE admitted[i - 1]]
      /\ partsAge' = [k \in Kinds |-> IF parts[k] = NoAssembly THEN 0 ELSE Older(partsAge[k], Ttl + 1)]
    BY DEF Tick
<1>2. SentOK(sent')
  <2>1. SUFFICES ASSUME NEW k \in Kinds
                 PROVE  [sent[k] EXCEPT !.age = Older(@, Period[k])]
                          \in [age : 0..Period[k] \cup {Never}, key : Outfits]
      BY <1>1 DEF SentOK
  <2>2. sent[k] \in [age : 0..Period[k] \cup {Never}, key : Outfits]
      BY DEF Typed, SenderTyped, SentOK
  <2>3. Older(sent[k].age, Period[k]) \in 0..Period[k] \cup {Never}
      BY <2>2, BlobsAssumption DEF Older, Never
  <2>4. QED
      BY <2>2, <2>3
<1>3. \E g : Rates(bucket', admitted', g)
    BY <1>1, RateTick DEF Typed, ServerTyped
<1>4. partsAge' \in [Kinds -> 0..(Ttl + 1)]
  <2>1. \A k \in Kinds : Older(partsAge[k], Ttl + 1) \in 0..(Ttl + 1) /\ 0 \in 0..(Ttl + 1)
      BY BlobsAssumption DEF Typed, ReceiverTyped, Older, Never
  <2>2. QED
      BY <1>1, <2>1
<1>5. faults' \in 0..MaxFaults
    BY BlobsAssumption DEF Tick, Typed
<1>6. Typed'
    BY <1>2, <1>3, <1>4, <1>5 DEF Typed, SenderTyped, ServerTyped, ReceiverTyped, Tick
<1>7. Streams'
    BY DEF Streams, UpInStep, DownInStep, Tick
<1>8. QED
    BY <1>6, <1>7

LEMMA HandleBlobChunkKeeps ==
    ASSUME Typed, Streams, HandleBlobChunk
    PROVE  Typed' /\ Streams'
<1>1. PICK c : c = Head(down)
    OBVIOUS
<1>2. PICK a : a = Placed(parts[c.kind], c)
    OBVIOUS
<1>3. /\ down # <<>> /\ down' = Tail(down)
      /\ parts' = [parts EXCEPT ![c.kind] = Rest(a)]
      /\ \/ ~Complete(a) /\ looks' = looks /\ worn' = worn
         \/ /\ Complete(a)
            /\ looks' = [looks EXCEPT ![c.kind] = Joined(a)]
            /\ worn' = Dress(c.kind, Joined(a))
    BY <1>1, <1>2 DEF HandleBlobChunk
<1>4. down \in Seq(Chunk) /\ Kept(parts) /\ Held(looks) /\ WornOK(worn)
    BY DEF Typed, ReceiverTyped
<1>5. /\ c.kind \in Kinds /\ Tail(down) \in Seq(Chunk) /\ Kept(parts')
      /\ Complete(a) => Joined(a) \in Shaped(c.kind)
      /\ InStep(down, parts) /\ AllFilled(parts) =>
           /\ InStep(Tail(down), parts') /\ AllFilled(parts')
           /\ Complete(a) => Joined(a) \in Whole(c.kind)
  <2>1. OneTaken(down, parts, c, a, parts')
      BY <1>1, <1>2, <1>3, <1>4 DEF OneTaken
  <2>2. QED
      BY <2>1, Taken
<1>6. partsAge' \in [Kinds -> 0..(Ttl + 1)]
  <2>1. PICK d : d \in 0..(Ttl + 1) /\ partsAge' = [partsAge EXCEPT ![c.kind] = d]
    <3>1. partsAge[c.kind] \in 0..(Ttl + 1) /\ 0 \in 0..(Ttl + 1)
      <4>1. partsAge \in [Kinds -> 0..(Ttl + 1)] /\ c.kind \in Kinds
          BY <1>5 DEF Typed, ReceiverTyped
      <4>2. Ttl \in Nat
          BY BlobsAssumption
      <4>3. 0 \in 0..(Ttl + 1)
          BY <4>2
      <4>4. partsAge[c.kind] \in 0..(Ttl + 1)
          BY <4>1, Zenon
      <4>5. QED
          BY <4>3, <4>4
    <3>2. \/ partsAge' = [partsAge EXCEPT ![c.kind] = partsAge[c.kind]]
          \/ partsAge' = [partsAge EXCEPT ![c.kind] = 0]
        BY <1>1, <1>2 DEF HandleBlobChunk
    <3>3. QED
        BY <3>1, <3>2
  <2>2. QED
      BY <2>1 DEF Typed, ReceiverTyped
<1>7. Held(looks') /\ WornOK(worn')
  <2>1. CASE ~Complete(a)
      BY <1>3, <1>4, <2>1
  <2>2. CASE Complete(a)
    <3>1. /\ looks' = [looks EXCEPT ![c.kind] = Joined(a)] /\ worn' = Dress(c.kind, Joined(a))
          /\ Joined(a) \in Shaped(c.kind)
        BY <1>3, <1>5, <2>2
    <3>2. Held(looks')
      <4>1. \A k \in Kinds : looks'[k] = IF k = c.kind THEN Joined(a) ELSE looks[k]
          BY <1>4, <3>1 DEF Held
      <4>2. looks' = [k \in Kinds |-> looks'[k]]
          BY <1>4, <3>1 DEF Held
      <4>3. QED
          BY <1>4, <3>1, <4>1, <4>2 DEF Held
    <3>3. WornOK(worn')
        BY <1>5, <3>1, DressIs
    <3>4. QED
        BY <3>2, <3>3
  <2>3. QED
      BY <2>1, <2>2
<1>8. Typed'
    BY <1>3, <1>5, <1>6, <1>7
       DEF Typed, SenderTyped, ServerTyped, ReceiverTyped, HandleBlobChunk, senderVars, serverVars
<1>9. Streams'
  <2>1. SUFFICES ASSUME whole PROVE UpInStep' /\ DownInStep'
      BY DEF Streams, HandleBlobChunk
  <2>2. UpInStep /\ DownInStep
      BY <2>1 DEF Streams
  <2>3. UpInStep'
      BY <2>2 DEF UpInStep, HandleBlobChunk, senderVars, serverVars
  <2>4. /\ InStep(down', parts') /\ AllFilled(parts')
        /\ Complete(a) => Joined(a) \in Whole(c.kind)
      BY <1>3, <1>5, <2>2 DEF DownInStep
  <2>5. (\A k \in Kinds : looks'[k] \in Blob[k]) /\ Seen(worn')
    <3>1. CASE ~Complete(a)
        BY <1>3, <2>2, <3>1 DEF DownInStep
    <3>2. CASE Complete(a)
      <4>1. /\ looks' = [looks EXCEPT ![c.kind] = Joined(a)] /\ worn' = Dress(c.kind, Joined(a))
            /\ Joined(a) \in Shaped(c.kind) /\ Joined(a) \in Whole(c.kind)
          BY <1>3, <1>5, <2>4, <3>2
      <4>2. \A k \in Kinds : looks'[k] = IF k = c.kind THEN Joined(a) ELSE looks[k]
          BY <1>4, <4>1 DEF Held
      <4>3. \A k \in Kinds : looks'[k] \in Blob[k]
          BY <2>2, <4>1, <4>2, BlobKinds DEF DownInStep, BlobIs
      <4>4. PICK o \in Outfits : Joined(a) = Encode(c.kind, o)
          BY <4>1 DEF Whole
      <4>5. worn' = EquipForms(FormsOf(Encode(c.kind, o)))
          BY <1>5, <4>1, <4>4, DressIs
      <4>6. worn' \in AsSeen[o]
          BY <1>5, <4>5 DEF AsSeen
      <4>7. QED
          BY <4>3, <4>6 DEF Seen
    <3>3. QED
        BY <3>1, <3>2
  <2>6. QED
      BY <2>3, <2>4, <2>5 DEF DownInStep
<1>10. QED
    BY <1>8, <1>9

LEMMA ServerRecvKeeps ==
    ASSUME Typed, Streams, ServerRecv
    PROVE  Typed' /\ Streams'
<1>1. PICK c : c = Head(up)
    OBVIOUS
<1>2. PICK a : a = Placed(assemblies[c.kind], c)
    OBVIOUS
<1>3. PICK b : b = AllowRate
    OBVIOUS
<1>4. PICK ok : ok = (b.count <= Limit)
    OBVIOUS
<1>5. /\ up # <<>> /\ up' = Tail(up)
      /\ bucket' = [b EXCEPT !.count = IF @ > Limit THEN Limit + 1 ELSE @]
      /\ admitted' = IF b.count <= Limit THEN [admitted EXCEPT ![0] = @ + 1] ELSE admitted
      /\ assemblies' = IF b.count <= Limit THEN [assemblies EXCEPT ![c.kind] = Rest(a)] ELSE assemblies
      /\ outfit' = outfit /\ sent' = sent
      /\ parts' = parts /\ partsAge' = partsAge /\ looks' = looks /\ worn' = worn
    BY <1>1, <1>2, <1>3 DEF ServerRecv, senderVars, receiverVars
<1>6. \/ /\ ~(b.count <= Limit) /\ whole' = FALSE /\ stored' = stored /\ down' = down /\ faults' = faults
      \/ /\ b.count <= Limit /\ ~Complete(a) /\ stored' = stored /\ down' = down /\ whole' = whole
         /\ faults' = faults
      \/ /\ b.count <= Limit /\ Complete(a)
         /\ stored' = [stored EXCEPT ![c.kind] = Joined(a)]
         /\ Pass(Split(c.kind, Joined(a)))
    BY <1>1, <1>2, <1>3 DEF ServerRecv
<1>7. /\ up \in Seq(Chunk) /\ down \in Seq(Chunk) /\ Kept(assemblies) /\ Held(stored)
      /\ \E g : Rates(bucket, admitted, g)
    BY DEF Typed, SenderTyped, ServerTyped, ReceiverTyped
<1>8. \E g : Rates(bucket', admitted', g)
  <2>1. PICK g : Rates(bucket, admitted, g)
      BY <1>7
  <2>2. Admission(bucket, admitted, g, b, bucket', admitted')
      BY <1>3, <1>5, <2>1 DEF Admission, AllowRate
  <2>3. QED
      BY <2>2, RateTaken
<1>9. PICK asm2 : asm2 = [assemblies EXCEPT ![c.kind] = Rest(a)]
    OBVIOUS
<1>10. /\ c.kind \in Kinds /\ Tail(up) \in Seq(Chunk) /\ Kept(asm2)
       /\ Complete(a) => Joined(a) \in Shaped(c.kind)
       /\ InStep(up, assemblies) /\ AllFilled(assemblies) =>
            /\ InStep(Tail(up), asm2) /\ AllFilled(asm2)
            /\ Complete(a) => Joined(a) \in Whole(c.kind)
  <2>1. OneTaken(up, assemblies, c, a, asm2)
      BY <1>1, <1>2, <1>5, <1>7, <1>9 DEF OneTaken
  <2>2. QED
      BY <2>1, Taken
<1>11. SenderTyped' /\ Kept(assemblies')
    BY <1>5, <1>7, <1>9, <1>10 DEF Typed, SenderTyped
<1>12. CASE ~(b.count <= Limit)
  <2>1. whole' = FALSE /\ stored' = stored /\ down' = down /\ faults' = faults
      BY <1>6, <1>12
  <2>2. QED
      BY <1>5, <1>8, <1>11, <2>1 DEF Typed, ServerTyped, ReceiverTyped, Streams
<1>13. CASE b.count <= Limit /\ ~Complete(a)
  <2>1. whole' = whole /\ stored' = stored /\ down' = down /\ faults' = faults /\ assemblies' = asm2
      BY <1>5, <1>6, <1>9, <1>13
  <2>2. Typed'
      BY <1>5, <1>8, <1>11, <2>1 DEF Typed, ServerTyped, ReceiverTyped
  <2>3. Streams'
      BY <1>5, <1>10, <2>1 DEF Streams, UpInStep, DownInStep
  <2>4. QED
      BY <2>2, <2>3
<1>14. CASE b.count <= Limit /\ Complete(a)
  <2>1. PICK j \in Shaped(c.kind) : j = Joined(a)
      BY <1>10, <1>14
  <2>2. /\ stored' = [stored EXCEPT ![c.kind] = j] /\ Pass(Split(c.kind, j)) /\ assemblies' = asm2
      BY <1>5, <1>6, <1>9, <1>14, <2>1
  <2>3. PICK s : s = Split(c.kind, j)
      OBVIOUS
  <2>4. s \in Seq(Chunk)
      BY <1>10, <2>1, <2>3, SplitType
  <2>5. \A k \in Kinds : stored'[k] = IF k = c.kind THEN j ELSE stored[k]
      BY <1>7, <2>2 DEF Held
  <2>6. Held(stored')
    <3>1. stored' = [k \in Kinds |-> stored'[k]]
        BY <1>7, <2>2 DEF Held
    <3>2. QED
        BY <1>7, <2>1, <2>5, <3>1 DEF Held
  <2>7. PassAll(s) \/ PassSome(s)
      BY <2>2, <2>3 DEF Pass
  <2>8. CASE PassAll(s)
    <3>1. down' = down \o s /\ whole' = whole /\ faults' = faults
        BY <2>8 DEF PassAll
    <3>2. down' \in Seq(Chunk)
        BY <1>7, <2>4, <3>1, ConcatProperties
    <3>3. Typed'
        BY <1>5, <1>8, <1>11, <2>6, <3>1, <3>2 DEF Typed, ServerTyped, ReceiverTyped
    <3>4. Streams'
      <4>1. SUFFICES ASSUME whole PROVE UpInStep' /\ DownInStep'
          BY <3>1 DEF Streams
      <4>2. UpInStep /\ DownInStep
          BY <4>1 DEF Streams
      <4>3. InStep(up', assemblies') /\ AllFilled(assemblies') /\ j \in Whole(c.kind)
          BY <1>5, <1>10, <1>14, <2>1, <2>2, <4>2 DEF UpInStep
      <4>4. \A k \in Kinds : stored'[k] \in Blob[k]
          BY <2>5, <4>2, <4>3, BlobKinds DEF UpInStep, BlobIs
      <4>5. InStep(down', parts)
          BY <1>7, <1>10, <2>3, <3>1, <4>2, <4>3, PushInStep DEF DownInStep
      <4>6. QED
          BY <1>5, <4>2, <4>3, <4>4, <4>5 DEF UpInStep, DownInStep
    <3>5. QED
        BY <3>3, <3>4
  <2>9. CASE PassSome(s)
    <3>1. PICK n \in 0..(Len(s) - 1) :
             \E f \in [1..n -> DOMAIN s] : down' = down \o [i \in 1..n |-> s[f[i]]]
        BY <2>9 DEF PassSome
    <3>2. PICK f \in [1..n -> DOMAIN s] : down' = down \o [i \in 1..n |-> s[f[i]]]
        BY <3>1
    <3>3. [i \in 1..n |-> s[f[i]]] \in Seq(Chunk)
        BY <2>4, SomeChunks
    <3>4. down' \in Seq(Chunk)
        BY <1>7, <3>2, <3>3, ConcatProperties
    <3>5. whole' = FALSE /\ faults < MaxFaults /\ faults' = faults + 1
        BY <2>9 DEF PassSome
    <3>6. faults' \in 0..MaxFaults
        BY <3>5, BlobsAssumption DEF Typed
    <3>7. Typed'
        BY <1>5, <1>8, <1>11, <2>6, <3>4, <3>5, <3>6 DEF Typed, ServerTyped, ReceiverTyped
    <3>8. Streams'
        BY <3>5 DEF Streams
    <3>9. QED
        BY <3>7, <3>8
  <2>10. QED
      BY <2>7, <2>8, <2>9
<1>15. QED
    BY <1>12, <1>13, <1>14

(* A blob that is kept, if any, is added to a stream. *)
Added(q, k, r) ==
    IF k \in Kinds /\ stored[k] # <<>> THEN r = q \o Split(k, stored[k]) ELSE r = q

LEMMA AddedKeeps ==
    ASSUME Held(stored), NEW q \in Seq(Chunk), NEW k, NEW r, Added(q, k, r), NEW asm
    PROVE  /\ r \in Seq(Chunk)
           /\ InStep(q, asm) /\ (\A h \in Kinds : stored[h] \in Blob[h]) => InStep(r, asm)
<1>1. CASE k \in Kinds /\ stored[k] # <<>>
  <2>1. PICK b \in Shaped(k) : b = stored[k] /\ r = q \o Split(k, b)
      BY <1>1 DEF Held, Added
  <2>2. r \in Seq(Chunk)
      BY <1>1, <2>1, SplitType, ConcatProperties
  <2>3. ASSUME InStep(q, asm), \A h \in Kinds : stored[h] \in Blob[h] PROVE InStep(r, asm)
    <3>1. b \in Whole(k)
        BY <1>1, <2>1, <2>3, BlobKinds DEF BlobIs
    <3>2. QED
        BY <1>1, <2>1, <2>3, <3>1, PushInStep
  <2>4. QED
      BY <2>2, <2>3
<1>2. CASE ~(k \in Kinds /\ stored[k] # <<>>)
    BY <1>2 DEF Added
<1>3. QED
    BY <1>1, <1>2

LEMMA BacklogIs ==
    ASSUME Held(stored), NEW asm
    PROVE  /\ Backlog \in Seq(Chunk)
           /\ (\A h \in Kinds : stored[h] \in Blob[h]) => InStep(Backlog, asm)
<1>1. PICK of : of = [k \in {"app", "inv"} |->
                        IF k \in Kinds /\ stored[k] # <<>> THEN Split(k, stored[k]) ELSE <<>>]
    OBVIOUS
<1>2. Backlog = of["app"] \o of["inv"]
    BY <1>1 DEF Backlog
<1>3. PICK x, y : x = of["app"] /\ y = of["inv"]
    OBVIOUS
<1>4. /\ <<>> \in Seq(Chunk) /\ \A s \in Seq(Chunk) : s \o <<>> = s /\ <<>> \o s = s
    BY ConcatEmptySeq
<1>5. ASSUME NEW k \in Kinds, stored[k] # <<>> PROVE Split(k, stored[k]) \in Seq(Chunk)
    BY <1>5, SplitType DEF Held
<1>6. Added(<<>>, "app", x)
    BY <1>1, <1>3, <1>4, <1>5 DEF Added
<1>7. /\ x \in Seq(Chunk)
      /\ (\A h \in Kinds : stored[h] \in Blob[h]) => InStep(x, asm)
    BY <1>4, <1>6, AddedKeeps, EmptyInStep
<1>8. Added(x, "inv", x \o y)
    BY <1>1, <1>3, <1>4, <1>7 DEF Added
<1>9. QED
  <2>1. /\ x \o y \in Seq(Chunk)
        /\ InStep(x, asm) /\ (\A h \in Kinds : stored[h] \in Blob[h]) => InStep(x \o y, asm)
      BY <1>7, <1>8, AddedKeeps
  <2>2. QED
      BY <1>2, <1>3, <1>7, <2>1

LEMMA ReceiverCutKeeps == ASSUME Typed, Streams, ReceiverCut PROVE Typed' /\ Streams'
<1>1. /\ faults < MaxFaults /\ faults' = faults + 1 /\ faults \in 0..MaxFaults
      /\ down' = Backlog
      /\ parts' = [k \in Kinds |-> NoAssembly]
      /\ partsAge' = [k \in Kinds |-> 0]
      /\ looks' = [k \in Kinds |-> <<>>] /\ worn' = {}
      /\ outfit' = outfit /\ sent' = sent /\ up' = up
      /\ bucket' = bucket /\ assemblies' = assemblies /\ stored' = stored /\ admitted' = admitted
      /\ whole' = whole
    BY DEF ReceiverCut, senderVars, serverVars, Typed
<1>2. down' \in Seq(Chunk)
    BY <1>1, BacklogIs DEF Typed, ServerTyped
<1>3. Kept(parts') /\ AllFilled(parts')
    BY <1>1, EmptyAssemblies
<1>4. Held(looks') /\ \A k \in Kinds : looks'[k] \in Blob[k]
    BY <1>1, EmptyHeld
<1>5. WornOK(worn') /\ Seen(worn')
    BY <1>1, EmptyWorn
<1>6. partsAge' \in [Kinds -> 0..(Ttl + 1)] /\ faults' \in 0..MaxFaults
    BY <1>1, BlobsAssumption
<1>7. Typed'
    BY <1>1, <1>2, <1>3, <1>4, <1>5, <1>6 DEF Typed, SenderTyped, ServerTyped, ReceiverTyped
<1>8. Streams'
  <2>1. SUFFICES ASSUME whole PROVE UpInStep' /\ DownInStep'
      BY <1>1 DEF Streams
  <2>2. UpInStep
      BY <2>1 DEF Streams
  <2>3. InStep(down', parts')
      BY <1>1, <2>2, BacklogIs DEF UpInStep, Typed, ServerTyped
  <2>4. QED
      BY <1>1, <1>3, <1>4, <1>5, <2>2, <2>3 DEF UpInStep, DownInStep
<1>9. QED
    BY <1>7, <1>8

LEMMA BlobsStarts == ASSUME BlobsInit PROVE Typed /\ Streams
<1>1. /\ outfit \in Outfits
      /\ sent = [k \in Kinds |-> [age |-> Never, key |-> outfit]]
      /\ up = <<>> /\ bucket = [age |-> Window, count |-> 0]
      /\ assemblies = [k \in Kinds |-> NoAssembly] /\ stored = [k \in Kinds |-> <<>>]
      /\ down = <<>> /\ parts = [k \in Kinds |-> NoAssembly]
      /\ partsAge = [k \in Kinds |-> 0]
      /\ looks = [k \in Kinds |-> <<>>] /\ worn = {}
      /\ whole = TRUE /\ admitted = [i \in 0..(Window - 1) |-> 0] /\ faults = 0
    BY DEF BlobsInit
<1>2. SenderTyped
    BY <1>1 DEF SenderTyped, SentOK
<1>3. \E g : Rates(bucket, admitted, g)
  <2>1. Window \in Nat \ {0} /\ Limit \in Nat \ {0}
      BY BlobsAssumption
  <2>2. PICK g : g = [n \in 0..Window |-> 0]
      OBVIOUS
  <2>3. bucket \in [age : 0..Window, count : 0..(Limit + 1)]
      BY <1>1, <2>1
  <2>4. Rates(bucket, admitted, g)
      BY <1>1, <2>1, <2>2, <2>3 DEF Rates
  <2>5. QED
      BY <2>4
<1>4. Kept(assemblies) /\ AllFilled(assemblies) /\ Kept(parts) /\ AllFilled(parts)
    BY <1>1, EmptyAssemblies
<1>5. /\ Held(stored) /\ \A k \in Kinds : stored[k] \in Blob[k]
      /\ Held(looks) /\ \A k \in Kinds : looks[k] \in Blob[k]
    BY <1>1, EmptyHeld
<1>6. WornOK(worn) /\ Seen(worn)
    BY <1>1, EmptyWorn
<1>7. InStep(up, assemblies) /\ InStep(down, parts)
    BY <1>1, EmptyInStep
<1>8. partsAge \in [Kinds -> 0..(Ttl + 1)] /\ faults \in 0..MaxFaults
    BY <1>1, BlobsAssumption
<1>9. Typed
    BY <1>1, <1>2, <1>3, <1>4, <1>5, <1>6, <1>8 DEF Typed, ServerTyped, ReceiverTyped
<1>10. Streams
    BY <1>4, <1>5, <1>6, <1>7 DEF Streams, UpInStep, DownInStep
<1>11. QED
    BY <1>9, <1>10

LEMMA BlobsNextKeeps == ASSUME Typed, Streams, [BlobsNext]_blobVars PROVE Typed' /\ Streams'
<1>1. CASE UNCHANGED blobVars
    BY <1>1 DEF blobVars, senderVars, serverVars, receiverVars, Typed, SenderTyped, ServerTyped,
       ReceiverTyped, Streams, UpInStep, DownInStep
<1>2. ASSUME NEW k \in Kinds, Send(k) PROVE Typed' /\ Streams'
    BY <1>2, SendKeeps
<1>3. ASSUME NEW o \in Outfits, ChangeOutfit(o) PROVE Typed' /\ Streams'
    BY <1>3, ChangeOutfitKeeps
<1>4. CASE SenderCut
    BY <1>4, SenderCutKeeps
<1>5. CASE ServerRecv
    BY <1>5, ServerRecvKeeps
<1>6. CASE Expire
    BY <1>6, ExpireKeeps
<1>7. CASE HandleBlobChunk
    BY <1>7, HandleBlobChunkKeeps
<1>8. CASE ReceiverCut
    BY <1>8, ReceiverCutKeeps
<1>9. CASE Tick
    BY <1>9, TickKeeps
<1>10. QED
    BY <1>1, <1>2, <1>3, <1>4, <1>5, <1>6, <1>7, <1>8, <1>9 DEF BlobsNext

LEMMA BlobsInductive == BlobsSpec => [](Typed /\ Streams)
<1>1. BlobsInit => Typed /\ Streams
    BY BlobsStarts
<1>2. Typed /\ Streams /\ [BlobsNext]_blobVars => (Typed /\ Streams)'
    BY BlobsNextKeeps
<1>3. QED
    BY <1>1, <1>2, PTL DEF BlobsSpec

-----------------------------------------------------------------------------
(* What the properties say of an assembly. *)
LEMMA AssemblyType ==
    ASSUME NEW k \in Kinds, NEW a, AsmOK(k, a)
    PROVE  Len(a.chunks) = a.chunkCount /\ a.blobBytes <= kMaxWorn + 2
<1>1. kMaxWorn \in Nat
    BY BlobsAssumption
<1>2. CASE a = NoAssembly
    BY <1>1, <1>2 DEF NoAssembly
<1>3. CASE a # NoAssembly
  <2>1. PICK n \in 2..(kMaxWorn + 2) : AsmOf(k, a, n)
      BY <1>3 DEF AsmOK
  <2>2. PICK c \in Nat \ {0} : c = Count(n)
      BY <1>1, <2>1, CountIs
  <2>3. a.chunkCount = c /\ a.blobBytes = n /\ a.chunks \in [1..c -> Seq(Field)]
      BY <2>1, <2>2 DEF AsmOf
  <2>4. a.chunks \in Seq(Seq(Field))
    <3>1. \A T : \A f \in [1..c -> T] : f \in Seq(T)
        BY <2>2, SeqDef
    <3>2. QED
        BY <2>3, <3>1
  <2>5. Len(a.chunks) \in Nat /\ 1..Len(a.chunks) = 1..c
      BY <2>3, <2>4, LenProperties
  <2>6. Len(a.chunks) = c
      BY <2>2, <2>5, Lengths
  <2>7. QED
      BY <1>1, <2>1, <2>3, <2>6
<1>4. QED
    BY <1>2, <1>3

LEMMA TypedInv == ASSUME Typed PROVE BlobsInv
<1>1. outfit \in Outfits
    BY DEF Typed, SenderTyped
<1>2. \A k \in Kinds : sent[k].age \in 0..Period[k] \cup {Never} /\ sent[k].key \in Outfits
    BY DEF Typed, SenderTyped, SentOK
<1>3. bucket \in [age : 0..Window, count : 0..(Limit + 1)]
    BY DEF Typed, ServerTyped, Rates
<1>4. ASSUME NEW a \in Range(assemblies) \cup Range(parts)
      PROVE  Len(a.chunks) = a.chunkCount /\ a.blobBytes <= kMaxWorn + 2
  <2>1. Kept(assemblies) /\ Kept(parts)
      BY DEF Typed, ServerTyped, ReceiverTyped
  <2>2. DOMAIN assemblies = Kinds /\ DOMAIN parts = Kinds
      BY <2>1 DEF Kept
  <2>3. PICK k \in Kinds : a = assemblies[k] \/ a = parts[k]
      BY <1>4, <2>2 DEF Range
  <2>4. AsmOK(k, a)
      BY <2>1, <2>3 DEF Kept
  <2>5. QED
      BY <2>4, AssemblyType
<1>5. \A k \in Kinds : partsAge[k] \in 0..(Ttl + 1)
    BY DEF Typed, ReceiverTyped
<1>6. Cardinality(worn) <= kMaxWorn /\ NoForm \notin worn
    BY DEF Typed, ReceiverTyped, WornOK
<1>7. whole \in BOOLEAN /\ faults \in 0..MaxFaults
    BY DEF Typed
<1>8. BlobsTypeOK
    BY <1>1, <1>2, <1>3, <1>4, <1>5, <1>6, <1>7 DEF BlobsTypeOK
<1>9. RateBounded
    BY TotalsIs DEF RateBounded, Typed, ServerTyped
<1>10. QED
    BY <1>8, <1>9 DEF BlobsInv

(* BlobsInv: an assembly has as many places as its blob has chunks and is  *)
(* no longer than a sheet may be, no ghost wears more than a sheet holds   *)
(* nor a form that was not found, and no window of a second, wherever it   *)
(* starts, has twice the limit of chunks admitted in it (allow_rate,       *)
(* assemble_blob_chunk, ApplyToNpc).                                       *)
THEOREM BlobsSafe == BlobsSpec => []BlobsInv
<1>1. Typed /\ Streams => BlobsInv
    BY TypedInv
<1>2. QED
    BY <1>1, BlobsInductive, PTL

(* NoMixture: while no chunk has been refused, dropped or given up, what   *)
(* the server keeps and what a ghost shows is a blob the player sent, not  *)
(* the parts of two, wherever the connections were cut in between          *)
(* (take_blob, HandleBlobChunk).                                           *)
THEOREM BlobsWhole == BlobsSpec => []NoMixture
<1>1. Typed /\ Streams => NoMixture
    BY DEF Streams, UpInStep, DownInStep, Seen, NoMixture
<1>2. QED
    BY <1>1, BlobsInductive, PTL
=============================================================================
