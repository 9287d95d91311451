------------------------- MODULE ChunkFramingProofs -------------------------
(***************************************************************************)
(* What reading on in a wire makes of its data, for wires of any length.   *)
(***************************************************************************)
EXTENDS ChunkFraming, SequenceTheorems, FiniteSetTheorems, TLAPS

LEMMA DataBeforeType ==
  ASSUME NEW w, NEW i \in Int
  PROVE  /\ IsFiniteSet({j \in 1 .. i : w[j].kind = "data"})
         /\ DataBefore(w, i) \in Nat
<1>1. IsFiniteSet(1 .. i)
  BY FS_Interval
<1>2. IsFiniteSet({j \in 1 .. i : w[j].kind = "data"})
  BY <1>1, FS_Subset
<1> QED
  BY <1>2, FS_CardinalityType DEF DataBefore

LEMMA DataBeforeNone == ASSUME NEW w PROVE DataBefore(w, 0) = 0
<1>1. {j \in 1 .. 0 : w[j].kind = "data"} = {}
  OBVIOUS
<1> QED
  BY <1>1, FS_EmptySet DEF DataBefore

\* A token that is no data does not count.
LEMMA DataBeforeFraming ==
  ASSUME NEW w, NEW i \in Nat, w[i + 1].kind # "data"
  PROVE  DataBefore(w, i + 1) = DataBefore(w, i)
<1>1. {j \in 1 .. i + 1 : w[j].kind = "data"} = {j \in 1 .. i : w[j].kind = "data"}
  OBVIOUS
<1> QED
  BY <1>1 DEF DataBefore

\* A run of data counts whole.
LEMMA DataBeforeRun ==
  ASSUME NEW w, NEW i \in Nat, NEW n \in Nat,
         \A j \in 1 .. n : w[i + j].kind = "data"
  PROVE  DataBefore(w, i + n) = DataBefore(w, i) + n
<1> DEFINE old == {j \in 1 .. i : w[j].kind = "data"}
           run == (i + 1) .. (i + n)
<1>1. {j \in 1 .. i + n : w[j].kind = "data"} = old \cup run
  <2>1. \A j \in run : j - i \in 1 .. n /\ i + (j - i) = j
    OBVIOUS
  <2>2. \A j \in run : w[j].kind = "data"
    BY <2>1
  <2> QED
    BY <2>2
<1>2. old \cap run = {}
  OBVIOUS
<1>3. IsFiniteSet(old) /\ Cardinality(old) \in Nat
  <2>1. i \in Int
    OBVIOUS
  <2> QED
    BY <2>1, DataBeforeType DEF DataBefore
<1>4. IsFiniteSet(run) /\ Cardinality(run) = n
  <2>1. i + 1 \in Int /\ i + n \in Int
    OBVIOUS
  <2>2. IsFiniteSet(run) /\ Cardinality(run) = IF i + 1 > i + n THEN 0 ELSE (i + n) - (i + 1) + 1
    BY <2>1, FS_Interval
  <2>3. (IF i + 1 > i + n THEN 0 ELSE (i + n) - (i + 1) + 1) = n
    OBVIOUS
  <2> QED
    BY <2>2, <2>3
<1> HIDE DEF old, run
<1>5. Cardinality(old \cup run) = Cardinality(old) + Cardinality(run) - Cardinality(old \cap run)
  BY <1>3, <1>4, FS_Union
<1>6. Cardinality(old \cap run) = 0
  BY <1>2, FS_EmptySet
<1>7. Cardinality(old \cup run) = Cardinality(old) + n
  BY <1>3, <1>4, <1>5, <1>6
<1> QED
  BY <1>1, <1>7 DEF DataBefore, old

LEMMA SubSeqAhead ==
  ASSUME NEW S, NEW s \in Seq(S), NEW k \in Nat, NEW n \in Nat, k + n <= Len(s)
  PROVE  /\ SubSeq(s, k + 1, k + n) \in Seq(S) /\ Len(SubSeq(s, k + 1, k + n)) = n
         /\ \A j \in 1 .. n : SubSeq(s, k + 1, k + n)[j] = s[k + j]
  OBVIOUS

\* What is collected from a run of data goes on with the body.
LEMMA RunExtendsPrefix ==
  ASSUME NEW w \in Seq(Tokens), NEW body \in Seq(Int), CarriesBody(w, body),
         NEW i \in 0 .. Len(w), NEW more \in Seq(Int), i + Len(more) <= Len(w),
         \A j \in 1 .. Len(more) : w[i + j].kind = "data" /\ more[j] = w[i + j].n,
         NEW d, d = SubSeq(body, 1, Len(d)), Len(d) = DataBefore(w, i), Len(d) <= Len(body)
  PROVE  /\ Len(d \o more) = DataBefore(w, i + Len(more))
         /\ Len(d \o more) <= Len(body) /\ d \o more = SubSeq(body, 1, Len(d \o more))
<1> DEFINE n == Len(more)
           e == d \o more
           k == DataBefore(w, i)
<1>0. /\ n \in Nat /\ Len(more) = n /\ i + n <= Len(w)
      /\ \A j \in 1 .. n : w[i + j].kind = "data" /\ more[j] = w[i + j].n
  OBVIOUS
<1>1. k \in Nat /\ i \in Nat /\ Len(w) \in Nat /\ Len(body) \in Nat
  <2>1. i \in Nat /\ i \in Int
    OBVIOUS
  <2> QED
    BY <2>1, DataBeforeType
<1> HIDE DEF e, k, n
<1>2. \A j \in 1 .. n : /\ i + j \in DOMAIN w /\ w[i + j] \in Tokens
                       /\ w[i + j].kind = "data" /\ DataBefore(w, i + j) = k + j
  <2> TAKE j \in 1 .. n
  <2>1. j \in Nat /\ \A m \in 1 .. j : m \in 1 .. n
    BY <1>0
  <2>2. \A m \in 1 .. j : w[i + m].kind = "data"
    BY <1>0, <2>1
  <2>3. DataBefore(w, i + j) = k + j
    BY <1>1, <2>1, <2>2, DataBeforeRun DEF k
  <2>4. i + j \in DOMAIN w /\ w[i + j] \in Tokens
    BY <1>0, <1>1
  <2> QED
    BY <1>0, <2>3, <2>4
<1>3. \A j \in 1 .. n : k + j <= Len(body) /\ w[i + j].n = body[k + j]
  BY <1>2 DEF CarriesBody
<1>4. k + n <= Len(body)
  <2>1. CASE n = 0
    <3>1. k <= Len(body)
      BY DEF k
    <3> QED
      BY <1>1, <2>1, <3>1
  <2>2. CASE n # 0
    <3>1. n \in 1 .. n
      BY <1>0, <2>2
    <3> QED
      BY <1>3, <3>1
  <2> QED
    BY <2>1, <2>2
<1>5. more = SubSeq(body, k + 1, k + n)
  <2>1. /\ SubSeq(body, k + 1, k + n) \in Seq(Int) /\ Len(SubSeq(body, k + 1, k + n)) = n
        /\ \A j \in 1 .. n : SubSeq(body, k + 1, k + n)[j] = body[k + j]
    BY <1>0, <1>1, <1>4, SubSeqAhead
  <2>2. \A j \in 1 .. Len(more) : more[j] = body[k + j]
    BY <1>0, <1>3
  <2>3. \A j \in 1 .. Len(more) : more[j] = SubSeq(body, k + 1, k + n)[j]
    BY <1>0, <2>1, <2>2
  <2> QED
    BY <1>0, <2>1, <2>2, <2>3, SeqEqual
<1>6. d = SubSeq(body, 1, k)
  BY DEF k
<1>7. e = SubSeq(body, 1, k) \o SubSeq(body, k + 1, k + n)
  BY <1>5, <1>6 DEF e
<1>8. 1 \in 1 .. Len(body) + 1 /\ k \in 1 - 1 .. Len(body) /\ k + n \in k .. Len(body)
  BY <1>0, <1>1, <1>4
<1>9. e = SubSeq(body, 1, k + n)
  BY <1>7, <1>8, ConcatAdjacentSubSeq
<1>10. Len(e) = k + n
  <2>1. \A m \in Nat : m <= Len(body) => Len(SubSeq(body, 1, m)) = m
    OBVIOUS
  <2>2. k + n \in Nat
    BY <1>0, <1>1
  <2> QED
    BY <1>4, <1>9, <2>1, <2>2
<1>11. DataBefore(w, i + n) = k + n
  BY <1>0, <1>1, DataBeforeRun DEF k
<1> QED
  BY <1>0, <1>4, <1>9, <1>10, <1>11 DEF e, n
=============================================================================
