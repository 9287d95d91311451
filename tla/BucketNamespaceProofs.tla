------------------------ MODULE BucketNamespaceProofs ------------------------
(***************************************************************************)
(* Proofs about the key mapping, for every mapping root, bucket and key.   *)
(***************************************************************************)
EXTENDS BucketNamespace, SequenceTheorems, TLAPS

\* A concatenation falls apart into what it was made of.
LEMMA ConcatParts ==
  ASSUME NEW s \in Seq(Segments), NEW t \in Seq(Segments), s # << >>, t # << >>
  PROVE  /\ s \o t \in Seq(Segments) /\ Len(s \o t) = Len(s) + Len(t)
         /\ Len(s) \in Nat \ {0} /\ Len(t) \in Nat \ {0}
         /\ SubSeq(s \o t, 1, Len(s)) = s
         /\ SubSeq(s \o t, Len(s) + 1, Len(s \o t)) = t
<1>1. s \o t \in Seq(Segments) /\ Len(s \o t) = Len(s) + Len(t)
  BY ConcatProperties
<1>2. Len(s) \in Nat \ {0} /\ Len(t) \in Nat \ {0}
  BY EmptySeq
<1>3. SubSeq(s \o t, 1, Len(s)) = SubSeq(s, 1, Len(s))
  BY <1>2, SubSeqOfConcat1
<1>4. SubSeq(s \o t, Len(s) + 1, Len(s) + Len(t))
        = SubSeq(t, (Len(s) + 1) - Len(s), (Len(s) + Len(t)) - Len(s))
  <2>1. Len(s) + 1 \in Len(s) + 1 .. Len(s) + Len(t)
        /\ Len(s) + Len(t) \in Len(s) + 1 .. Len(s) + Len(t)
    BY <1>2
  <2> QED
    BY <2>1, SubSeqOfConcat2
<1>5. (Len(s) + 1) - Len(s) = 1 /\ (Len(s) + Len(t)) - Len(s) = Len(t)
  BY <1>2
<1> QED
  BY <1>1, <1>2, <1>3, <1>4, <1>5, SubSeqFull

\* The bucket segment and what follows it.
LEMMA HeadAndTail ==
  ASSUME NEW b \in Buckets, NEW t \in Paths
  PROVE  /\ <<b>> \in Seq(Segments) /\ <<b>> # << >> /\ t \in Seq(Segments) /\ t # << >>
         /\ <<b>> \o t \in Seq(Segments) /\ <<b>> \o t # << >>
         /\ Head(<<b>> \o t) = b /\ Tail(<<b>> \o t) = t /\ Len(<<b>> \o t) # 1
<1>1. b \in Segments /\ t \in Seq(Segments) /\ t # << >>
  BY BucketsAssumption DEF Paths
<1>2. <<b>> \in Seq(Segments) /\ <<b>> # << >> /\ Len(<<b>>) = 1
  BY <1>1
<1>3. /\ <<b>> \o t \in Seq(Segments)
      /\ Len(<<b>> \o t) = 1 + Len(t) /\ Len(t) \in Nat \ {0}
      /\ SubSeq(<<b>> \o t, 2, Len(<<b>> \o t)) = t
  BY <1>1, <1>2, ConcatParts
<1>4. <<b>> \o t # << >>
  BY <1>3
<1>5. (<<b>> \o t)[1] = b
  BY <1>1, <1>2, <1>3, ConcatProperties
<1>6. Tail(<<b>> \o t) = t
  BY <1>3, <1>4, TailIsSubSeq
<1>7. Head(<<b>> \o t) = b
  BY <1>3, <1>4, <1>5
<1> QED
  BY <1>1, <1>2, <1>3, <1>4, <1>6, <1>7

\* Everything below the mapping root, and nothing of the root, is left of a
\* path that starts with it.
LEMMA BelowRoot ==
  ASSUME root \in Roots, NEW b \in Buckets, NEW t \in Paths
  PROVE  InRoot(Under(b) \o t) /\ AfterRoot(Under(b) \o t) = <<b>> \o t
<1>1. CASE root = Empty
  <2>1. Under(b) = << >> \o <<b>>
    BY <1>1 DEF Under
  <2>2. Under(b) = <<b>>
    BY <2>1, HeadAndTail, ConcatEmptySeq
  <2> QED
    BY <1>1, <2>2 DEF InRoot, AfterRoot
<1>2. CASE root # Empty
  <2>1. root \in Seq(Segments) /\ root # << >>
    BY RootsAssumption DEF Paths
  <2>2. Under(b) \o t = root \o (<<b>> \o t)
    BY <1>2, <2>1, HeadAndTail, ConcatAssociative DEF Under
  <2> DEFINE below == <<b>> \o t
  <2>3. below \in Seq(Segments) /\ below # << >>
    BY HeadAndTail
  <2>4. /\ Len(root \o below) > Len(root)
        /\ SubSeq(root \o below, 1, Len(root)) = root
        /\ SubSeq(root \o below, Len(root) + 1, Len(root \o below)) = below
    <3> HIDE DEF below
    <3>1. /\ Len(root \o below) = Len(root) + Len(below)
          /\ Len(root) \in Nat \ {0} /\ Len(below) \in Nat \ {0}
          /\ SubSeq(root \o below, 1, Len(root)) = root
          /\ SubSeq(root \o below, Len(root) + 1, Len(root \o below)) = below
      BY <2>1, <2>3, ConcatParts
    <3> QED
      BY <3>1
  <2> QED
    BY <1>2, <2>2, <2>4 DEF InRoot, AfterRoot
<1> QED
  BY <1>1, <1>2

\* What unmapKey makes of a path below a bucket: it has a key, unless the path is
\* the marker of the bucket.
LEMMA UnmapBelow ==
  ASSUME root \in Roots, NEW b \in Buckets, NEW t \in Paths
  PROVE  UnmapKey(Under(b) \o t) = IF t = Empty THEN NotMapped ELSE Unmapped(b, t)
<1> DEFINE path == Under(b) \o t
           rest == AfterRoot(path)
<1>1. b # ""
  BY BucketsAssumption
<1>2. InRoot(path) /\ rest = <<b>> \o t
  BY BelowRoot
<1>3. Head(rest) = b /\ Tail(rest) = t /\ Len(rest) # 1
  <2>1. Head(<<b>> \o t) = b /\ Tail(<<b>> \o t) = t /\ Len(<<b>> \o t) # 1
    BY HeadAndTail
  <2> QED
    BY <1>2, <2>1, Zenon
<1>4. CASE t = Empty
  <2>1. UnmapKey(path) = NotMapped
    BY <1>3, <1>4, Zenon DEF UnmapKey
  <2> QED
    BY <1>4, <2>1, Zenon
<1>5. CASE t # Empty
  <2>1. UnmapKey(path) = Unmapped(Head(rest), Tail(rest))
    BY <1>1, <1>2, <1>3, <1>5, Zenon DEF UnmapKey
  <2> QED
    BY <1>3, <1>5, <2>1, Zenon
<1> QED
  BY <1>4, <1>5, Zenon

\* unmapKey(mapKey(b, k)) is (b, k) again, for every bucket and non-empty key.
THEOREM UnmapInvertsMap ==
  ASSUME root \in Roots, NEW b \in Buckets, NEW k \in Keys
  PROVE  UnmapKey(MapKey(b, k)) = Unmapped(b, k)
<1>1. k \in Paths /\ k # Empty
  BY KeysAssumption
<1> QED
  BY <1>1, UnmapBelow, Zenon DEF MapKey

LEMMA EmptyIsAPath == Empty \in Paths
<1>1. \A x \in Segments : <<x>> \in Seq(Segments) /\ <<x>> # << >>
  OBVIOUS
<1> QED
  BY <1>1, SegmentsAssumption, Zenon DEF Empty, Paths

LEMMA MarkersAreNotKeys ==
  ASSUME root \in Roots, NEW b \in Buckets, NEW c \in Buckets, NEW k \in Keys
  PROVE  ListPrefix(b) # MapKey(c, k)
<1>1. UnmapKey(ListPrefix(b)) = NotMapped
  BY EmptyIsAPath, UnmapBelow, Zenon DEF ListPrefix
<1>2. Unmapped(c, k).ok # NotMapped.ok
  BY DEF Unmapped, NotMapped
<1> QED
  BY <1>1, <1>2, UnmapInvertsMap

LEMMA ForeignIsOutside ==
  ASSUME root \in Roots, NEW b \in Buckets, NEW k \in Keys, NEW path, Outside(path)
  PROVE  path # MapKey(b, k)
<1>1. k \in Paths
  BY KeysAssumption
<1>2. CASE root = Empty
  <2>1. MapKey(b, k) = <<b>> \o k
    BY <1>1, <1>2, BelowRoot, Zenon DEF MapKey, AfterRoot
  <2>2. Len(<<b>> \o k) # 1
    BY <1>1, HeadAndTail
  <2> QED
    BY <1>2, <2>1, <2>2, Zenon DEF Outside
<1>3. CASE root # Empty
  <2>1. InRoot(MapKey(b, k))
    BY <1>1, BelowRoot DEF MapKey
  <2> QED
    BY <1>3, <2>1, Zenon DEF Outside
<1> QED
  BY <1>2, <1>3

\* Whatever clients create and write, in whatever order, and whatever others
\* write beside the mapping root, a key reads back exactly when it was put.
THEOREM KeysNeverAlias == Spec => []KeysDoNotAlias
<1> DEFINE Inv == root \in Roots /\ KeysDoNotAlias
<1>1. Init => Inv
  BY DEF Init, KeysDoNotAlias
<1>2. Inv /\ [Next]_vars => Inv'
  <2> SUFFICES ASSUME root \in Roots, KeysDoNotAlias, [Next]_vars
               PROVE  Inv'
    OBVIOUS
  <2>1. root' = root
    BY DEF Next, CreateBucket, Put, ForeignPut, vars
  <2>2. ASSUME NEW c \in Buckets, NEW l \in Keys
        PROVE  MapKey(c, l) \in physical' <=> <<c, l>> \in written'
    <3>1. MapKey(c, l) \in physical <=> <<c, l>> \in written
      BY DEF KeysDoNotAlias
    <3>2. ASSUME NEW b \in Buckets, CreateBucket(b)
          PROVE  MapKey(c, l) \in physical' <=> <<c, l>> \in written'
      BY <3>1, <3>2, MarkersAreNotKeys DEF CreateBucket
    <3>3. ASSUME NEW b \in Buckets, NEW k \in Keys, Put(b, k)
          PROVE  MapKey(c, l) \in physical' <=> <<c, l>> \in written'
      <4>1. MapKey(c, l) = MapKey(b, k) => c = b /\ l = k
        BY UnmapInvertsMap DEF Unmapped
      <4> QED
        BY <3>1, <3>3, <4>1 DEF Put
    <3>4. ASSUME NEW path \in Foreign \cap Paths, ForeignPut(path)
          PROVE  MapKey(c, l) \in physical' <=> <<c, l>> \in written'
      BY <3>1, <3>4, ForeignIsOutside DEF ForeignPut
    <3>5. CASE UNCHANGED vars
      BY <3>1, <3>5 DEF vars
    <3> QED
      BY <3>2, <3>3, <3>4, <3>5 DEF Next
  <2>3. \A c \in Buckets, l \in Keys : MapKey(c, l)' = MapKey(c, l)
    BY <2>1 DEF MapKey, Under
  <2> QED
    BY <2>1, <2>2, <2>3 DEF KeysDoNotAlias
<1>3. Inv => KeysDoNotAlias
  OBVIOUS
<1> QED
  BY <1>1, <1>2, <1>3, PTL DEF Spec

-----------------------------------------------------------------------------
(* The existence probe.                                                    *)

\* What was made and written is in the physical bucket, and nothing else is
\* but what lies beside the mapping root.
PhysicalInv ==
  /\ root \in Roots /\ made \subseteq Buckets /\ written \subseteq Buckets \X Keys
  /\ \A b \in made : ListPrefix(b) \in physical
  /\ \A b \in Buckets, k \in Keys : <<b, k>> \in written => MapKey(b, k) \in physical
  /\ \A p \in physical :
       \/ \E b \in made : p = ListPrefix(b)
       \/ \E b \in Buckets, k \in Keys : <<b, k>> \in written /\ p = MapKey(b, k)
       \/ p \in Paths /\ Outside(p)

LEMMA UnderFact ==
  ASSUME root \in Roots, NEW b \in Buckets
  PROVE  /\ Under(b) \in Seq(Segments) /\ Under(b) # << >>
         /\ Len(Under(b)) = (IF root = Empty THEN 1 ELSE Len(root) + 1)
         /\ Under(b)[Len(Under(b))] = b
         /\ root # Empty => Len(root) \in Nat \ {0} /\ SubSeq(Under(b), 1, Len(root)) = root
<1>1. <<b>> \in Seq(Segments) /\ <<b>> # << >> /\ Len(<<b>>) = 1 /\ <<b>>[1] = b
  <2>1. b \in Segments
    BY BucketsAssumption
  <2> QED
    BY <2>1
<1>2. CASE root = Empty
  <2>1. Under(b) = <<b>>
    BY <1>1, <1>2, ConcatEmptySeq DEF Under
  <2> QED
    BY <1>1, <1>2, <2>1
<1>3. CASE root # Empty
  <2>1. root \in Seq(Segments) /\ root # << >>
    BY RootsAssumption DEF Paths
  <2>2. Under(b) = root \o <<b>>
    BY <1>3 DEF Under
  <2> DEFINE last == <<b>>
  <2>3. last \in Seq(Segments) /\ last # << >> /\ Len(last) = 1 /\ last[1] = b
    BY <1>1
  <2> HIDE DEF last
  <2>4. /\ root \o last \in Seq(Segments) /\ Len(root \o last) = Len(root) + 1
        /\ Len(root) \in Nat \ {0} /\ SubSeq(root \o last, 1, Len(root)) = root
    BY <2>1, <2>3, ConcatParts
  <2>5. (root \o last)[Len(root) + 1] = b
    BY <2>1, <2>3, <2>4, ConcatProperties
  <2>6. root \o last # << >>
    BY <2>4
  <2> QED
    BY <1>3, <2>2, <2>4, <2>5, <2>6 DEF last
<1> QED
  BY <1>2, <1>3

\* The beginnings of a concatenation that reach into its second part.
LEMMA ConcatFront ==
  ASSUME NEW s \in Seq(Segments), NEW t \in Seq(Segments), NEW m \in 0 .. Len(t)
  PROVE  /\ SubSeq(s \o t, 1, Len(s) + m) = s \o SubSeq(t, 1, m)
         /\ m > 0 => (s \o t)[Len(s) + m] = t[m]
<1> DEFINE c == s \o t
           f == SubSeq(t, 1, m)
<1>1. /\ Len(s) \in Nat /\ Len(t) \in Nat /\ m \in Nat /\ m <= Len(t)
      /\ c \in Seq(Segments) /\ Len(c) = Len(s) + Len(t)
      /\ \A i \in 1 .. Len(s) + Len(t) : c[i] = IF i <= Len(s) THEN s[i] ELSE t[i - Len(s)]
  BY ConcatProperties
<1>2. f \in Seq(Segments) /\ Len(f) = m /\ \A i \in 1 .. m : f[i] = t[i]
  BY <1>1
<1>3. /\ s \o f \in Seq(Segments) /\ Len(s \o f) = Len(s) + m
      /\ \A i \in 1 .. Len(s) + m : (s \o f)[i] = IF i <= Len(s) THEN s[i] ELSE f[i - Len(s)]
  <2> HIDE DEF f
  <2> QED
    BY <1>2, ConcatProperties
<1> HIDE DEF c, f
<1>4. /\ SubSeq(c, 1, Len(s) + m) \in Seq(Segments) /\ Len(SubSeq(c, 1, Len(s) + m)) = Len(s) + m
      /\ \A i \in 1 .. Len(s) + m : SubSeq(c, 1, Len(s) + m)[i] = c[i]
  BY <1>1
<1>5. \A i \in 1 .. Len(s) + m : c[i] = (s \o f)[i]
  <2> TAKE i \in 1 .. Len(s) + m
  <2>1. i \in 1 .. Len(s) + Len(t)
    BY <1>1
  <2>2. CASE i <= Len(s)
    BY <1>1, <1>3, <2>1, <2>2
  <2>3. CASE ~(i <= Len(s))
    <3>1. i - Len(s) \in 1 .. m
      BY <1>1, <2>3
    <3> QED
      BY <1>1, <1>2, <1>3, <2>1, <2>3, <3>1
  <2> QED
    BY <2>2, <2>3
<1>6. SubSeq(c, 1, Len(s) + m) = s \o f
  BY <1>3, <1>4, <1>5, SeqEqual
<1>7. ASSUME m > 0 PROVE c[Len(s) + m] = t[m]
  <2>1. /\ Len(s) + m \in 1 .. Len(s) + Len(t) /\ ~(Len(s) + m <= Len(s))
        /\ (Len(s) + m) - Len(s) = m
    BY <1>1, <1>7
  <2> QED
    BY <1>1, <2>1
<1> QED
  BY <1>6, <1>7 DEF c, f

\* Concatenations of parts of the same lengths are equal only part by part.
LEMMA SameParts ==
  ASSUME NEW s \in Seq(Segments), NEW t \in Seq(Segments), Len(s) = Len(t),
         NEW x \in Seq(Segments), NEW y \in Seq(Segments), s \o x = t \o y
  PROVE  s = t /\ x = y
<1>1. /\ Len(s) \in Nat /\ Len(x) \in Nat /\ Len(y) \in Nat
      /\ \A i \in 1 .. Len(s) + Len(x) : (s \o x)[i] = IF i <= Len(s) THEN s[i] ELSE x[i - Len(s)]
  BY ConcatProperties
<1>2. \A i \in 1 .. Len(t) + Len(y) : (t \o y)[i] = IF i <= Len(t) THEN t[i] ELSE y[i - Len(t)]
  BY ConcatProperties
<1>3. \A i \in 1 .. Len(s) : s[i] = t[i]
  <2> TAKE i \in 1 .. Len(s)
  <2>1. i \in 1 .. Len(s) + Len(x) /\ i \in 1 .. Len(t) + Len(y) /\ i <= Len(s) /\ i <= Len(t)
    BY <1>1
  <2> QED
    BY <1>1, <1>2, <2>1
<1>4. s = t
  BY <1>3, SeqEqual
<1> QED
  BY <1>4, ConcatSimplifications

\* A path below a bucket begins with a prefix below a bucket exactly when it is
\* the same bucket, and what is below it begins so.
LEMMA PrefixBelow ==
  ASSUME root \in Roots, NEW b \in Buckets, NEW c \in Buckets, NEW t \in Paths, NEW p \in Paths
  PROVE  HasPrefix(Under(b) \o t, Under(c) \o p) <=> b = c /\ HasPrefix(t, p)
<1> DEFINE u    == Under(b)
           v    == Under(c)
           path == u \o t
           pre  == v \o p
           n    == Len(p) - 1
<1>1. /\ u \in Seq(Segments) /\ v \in Seq(Segments) /\ u # << >> /\ v # << >>
      /\ Len(u) = Len(v) /\ u[Len(u)] = b /\ v[Len(v)] = c
  BY UnderFact
<1>2. t \in Seq(Segments) /\ t # << >> /\ p \in Seq(Segments) /\ p # << >>
  BY DEF Paths
<1> HIDE DEF u, v
<1>3. /\ Len(path) = Len(u) + Len(t) /\ Len(pre) = Len(u) + Len(p)
      /\ Len(u) \in Nat \ {0} /\ Len(t) \in Nat \ {0} /\ Len(p) \in Nat \ {0}
  BY <1>1, <1>2, ConcatParts
<1>4. u = v <=> b = c
  <2>1. b = c => u = v
    BY DEF u, v
  <2> QED
    BY <1>1, <2>1
<1>5. Len(path) >= Len(pre) <=> Len(t) >= Len(p)
  BY <1>3
<1>6. n \in 0 .. Len(p) /\ Len(p) \in 0 .. Len(p) /\ Len(pre) - 1 = Len(u) + n
  BY <1>3
<1>7. pre[Len(pre)] = p[Len(p)] /\ SubSeq(pre, 1, Len(v) + n) = v \o SubSeq(p, 1, n)
  <2>1. SubSeq(pre, 1, Len(v) + n) = v \o SubSeq(p, 1, n)
    BY <1>1, <1>2, <1>6, ConcatFront
  <2>2. Len(p) > 0 => pre[Len(v) + Len(p)] = p[Len(p)]
    BY <1>1, <1>2, <1>6, ConcatFront
  <2> HIDE DEF pre
  <2> QED
    BY <1>1, <1>3, <2>1, <2>2
<1>8. ASSUME Len(t) >= Len(p)
      PROVE  /\ path[Len(pre)] = t[Len(p)]
             /\ SubSeq(path, 1, Len(u) + n) = u \o SubSeq(t, 1, n)
  <2>1. n \in 0 .. Len(t) /\ Len(p) \in 0 .. Len(t)
    BY <1>3, <1>8
  <2>2. SubSeq(path, 1, Len(u) + n) = u \o SubSeq(t, 1, n)
    BY <1>1, <1>2, <2>1, ConcatFront
  <2>3. Len(p) > 0 => path[Len(u) + Len(p)] = t[Len(p)]
    BY <1>1, <1>2, <2>1, ConcatFront
  <2> HIDE DEF path, pre
  <2> QED
    BY <1>3, <2>2, <2>3
<1>9. ASSUME Len(t) >= Len(p)
      PROVE  SubSeq(path, 1, Len(pre) - 1) = SubSeq(pre, 1, Len(pre) - 1)
               <=> u = v /\ SubSeq(t, 1, n) = SubSeq(p, 1, n)
  <2> DEFINE x == SubSeq(t, 1, n)
             y == SubSeq(p, 1, n)
  <2>1. x \in Seq(Segments) /\ y \in Seq(Segments)
    BY <1>2, <1>3, <1>9
  <2> HIDE DEF x, y
  <2>2. u \o x = v \o y <=> u = v /\ x = y
    BY <1>1, <2>1, SameParts
  <2>3. SubSeq(path, 1, Len(pre) - 1) = u \o x /\ SubSeq(pre, 1, Len(pre) - 1) = v \o y
    BY <1>1, <1>6, <1>7, <1>8, <1>9 DEF x, y
  <2> QED
    BY <2>2, <2>3 DEF x, y
<1> HIDE DEF path, pre
<1>10. CASE Len(t) >= Len(p)
  BY <1>4, <1>5, <1>7, <1>8, <1>9, <1>10 DEF HasPrefix, path, pre, u, v
<1>11. CASE ~(Len(t) >= Len(p))
  BY <1>5, <1>11 DEF HasPrefix, path, pre, u, v
<1> QED
  BY <1>10, <1>11

\* Every path begins with the empty prefix.
LEMMA PrefixEmpty ==
  ASSUME NEW t \in Paths
  PROVE  HasPrefix(t, Empty)
<1>1. t \in Seq(Segments) /\ Len(t) \in Nat \ {0} /\ Len(t) >= 1
  BY EmptySeq DEF Paths
<1>2. t[1] \in Segments
  BY <1>1
<1>3. \A x \in Segments : <<x>> \in Seq(Segments) /\ Len(<<x>>) = 1 /\ <<x>>[1] = x
  OBVIOUS
<1>4. Empty \in Seq(Segments) /\ Len(Empty) = 1 /\ Empty[1] = ""
  BY <1>3, SegmentsAssumption, Zenon DEF Empty
<1>5. <<t[1], "">> \in Begins
  BY <1>2, BeginsAssumption
<1>6. SubSeq(t, 1, 0) = << >> /\ SubSeq(Empty, 1, 0) = << >>
  <2>1. Empty \in Seq(Segments)
    BY <1>4, Zenon
  <2> QED
    BY <1>1, <2>1, SubSeqEmpty
<1>7. Len(Empty) - 1 = 0
  <2>1. Len(Empty) = 1
    BY <1>4, Zenon
  <2> QED
    BY <2>1
<1> QED
  BY <1>1, <1>4, <1>5, <1>6, <1>7 DEF HasPrefix

\* A path beside the mapping root begins with no prefix below a bucket.
LEMMA PrefixOutside ==
  ASSUME root \in Roots, NEW c \in Buckets, NEW p \in Paths, NEW q \in Paths, Outside(q)
  PROVE  ~HasPrefix(q, Under(c) \o p)
<1> DEFINE v   == Under(c)
           pre == v \o p
<1>1. /\ v \in Seq(Segments) /\ v # << >>
      /\ Len(v) = (IF root = Empty THEN 1 ELSE Len(root) + 1)
      /\ root # Empty => Len(root) \in Nat \ {0} /\ SubSeq(v, 1, Len(root)) = root
  BY UnderFact
<1>2. p \in Seq(Segments) /\ p # << >> /\ q \in Seq(Segments) /\ Len(q) \in Nat
  BY DEF Paths
<1> HIDE DEF v
<1>3. /\ Len(pre) = Len(v) + Len(p) /\ SubSeq(pre, 1, Len(v)) = v /\ pre \in Seq(Segments)
      /\ Len(v) \in Nat \ {0} /\ Len(p) \in Nat \ {0}
  BY <1>1, <1>2, ConcatParts
<1> HIDE DEF pre
<1> SUFFICES ASSUME HasPrefix(q, pre) PROVE FALSE
  BY DEF pre, v
<1>4. Len(q) >= Len(v) + 1 /\ \A i \in 1 .. Len(v) : q[i] = v[i]
  <2>1. /\ Len(q) >= Len(pre) /\ SubSeq(q, 1, Len(pre) - 1) = SubSeq(pre, 1, Len(pre) - 1)
    BY DEF HasPrefix
  <2>2. Len(q) >= Len(v) + 1 /\ Len(pre) - 1 >= Len(v)
    BY <1>2, <1>3, <2>1
  <2>3. \A i \in 1 .. Len(v) : q[i] = pre[i]
    <3> TAKE i \in 1 .. Len(v)
    <3>1. i \in 1 .. Len(pre) - 1 /\ Len(pre) - 1 <= Len(q) /\ Len(pre) \in Nat
      BY <1>2, <1>3, <2>1, <2>2
    <3>2. SubSeq(q, 1, Len(pre) - 1)[i] = q[i] /\ SubSeq(pre, 1, Len(pre) - 1)[i] = pre[i]
      BY <1>2, <1>3, <3>1
    <3> QED
      BY <2>1, <3>2
  <2>4. \A i \in 1 .. Len(v) : SubSeq(pre, 1, Len(v))[i] = pre[i]
    BY <1>3
  <2> QED
    BY <1>3, <2>2, <2>3, <2>4
<1>5. CASE root = Empty
  <2>1. Len(q) = 1 /\ Len(v) = 1
    BY <1>1, <1>5 DEF Outside
  <2> QED
    BY <1>4, <2>1
<1>6. CASE root # Empty
  <2>1. \A i \in 1 .. Len(root) : q[i] = v[i]
    BY <1>1, <1>4, <1>6
  <2>2. SubSeq(q, 1, Len(root)) = SubSeq(v, 1, Len(root))
    BY <1>1, <1>2, <1>4, <1>6, <2>1
  <2>3. Len(q) > Len(root)
    BY <1>1, <1>2, <1>4, <1>6
  <2> QED
    BY <1>1, <1>6, <2>2, <2>3 DEF Outside, InRoot
<1> QED
  BY <1>5, <1>6

LEMMA PhysicalStep == PhysicalInv /\ [Next]_vars => PhysicalInv'
<1> SUFFICES ASSUME PhysicalInv, [Next]_vars PROVE PhysicalInv'
  OBVIOUS
<1> USE DEF PhysicalInv
<1>1. root' = root
  BY DEF Next, CreateBucket, Put, ForeignPut, vars
<1>2. /\ \A b, k : MapKey(b, k)' = MapKey(b, k)
      /\ \A b : ListPrefix(b)' = ListPrefix(b)
      /\ \A p : Outside(p)' = Outside(p)
  BY <1>1 DEF MapKey, ListPrefix, Under, Outside, InRoot
<1>3. ASSUME NEW b \in Buckets, CreateBucket(b) PROVE PhysicalInv'
  BY <1>1, <1>2, <1>3 DEF CreateBucket
<1>4. ASSUME NEW b \in Buckets, NEW k \in Keys, Put(b, k) PROVE PhysicalInv'
  BY <1>1, <1>2, <1>4 DEF Put
<1>5. ASSUME NEW p \in Foreign \cap Paths, ForeignPut(p) PROVE PhysicalInv'
  BY <1>1, <1>2, <1>5 DEF ForeignPut
<1>6. CASE UNCHANGED vars
  BY <1>1, <1>2, <1>6 DEF vars
<1> QED
  BY <1>3, <1>4, <1>5, <1>6 DEF Next

\* s3Store.BucketExists: there are keys exactly of the overlay's buckets.
LEMMA HoldsExactly ==
  ASSUME PhysicalInv, NEW b \in Buckets
  PROVE  Holds(b) <=> InOverlay(b)
<1> SUFFICES (\E p \in physical : HasPrefix(p, ListPrefix(b))) <=> InOverlay(b)
  BY DEF Holds, List
<1>1. ASSUME NEW p \in physical, HasPrefix(p, ListPrefix(b)) PROVE InOverlay(b)
  <2>1. ASSUME NEW c \in made, p = ListPrefix(c) PROVE InOverlay(b)
    <3>1. c \in Buckets /\ HasPrefix(Under(c) \o Empty, ListPrefix(b))
      BY <1>1, <2>1 DEF PhysicalInv, ListPrefix
    <3>2. c = b
      BY <3>1, EmptyIsAPath, PrefixBelow DEF PhysicalInv, ListPrefix
    <3> QED
      BY <3>2 DEF InOverlay
  <2>2. ASSUME NEW c \in Buckets, NEW k \in Keys, <<c, k>> \in written, p = MapKey(c, k)
        PROVE  InOverlay(b)
    <3>1. HasPrefix(Under(c) \o k, ListPrefix(b)) /\ k \in Paths
      BY <1>1, <2>2, KeysAssumption DEF MapKey
    <3>2. c = b
      BY <3>1, EmptyIsAPath, PrefixBelow DEF PhysicalInv, ListPrefix
    <3> QED
      BY <2>2, <3>2 DEF InOverlay
  <2> QED
    BY <1>1, <2>1, <2>2, EmptyIsAPath, PrefixOutside DEF PhysicalInv, ListPrefix
<1>2. ASSUME InOverlay(b) PROVE \E p \in physical : HasPrefix(p, ListPrefix(b))
  <2>1. CASE b \in made
    <3>1. HasPrefix(Under(b) \o Empty, ListPrefix(b))
      BY EmptyIsAPath, PrefixBelow, PrefixEmpty DEF PhysicalInv, ListPrefix
    <3> QED
      BY <2>1, <3>1 DEF PhysicalInv, ListPrefix
  <2>2. ASSUME NEW k \in Keys, <<b, k>> \in written
        PROVE  \E p \in physical : HasPrefix(p, ListPrefix(b))
    <3>1. HasPrefix(Under(b) \o k, ListPrefix(b))
      BY KeysAssumption, EmptyIsAPath, PrefixBelow, PrefixEmpty DEF PhysicalInv, ListPrefix
    <3> QED
      BY <2>2, <3>1 DEF PhysicalInv, MapKey
  <2> QED
    BY <1>2, <2>1, <2>2 DEF InOverlay
<1> QED
  BY <1>1, <1>2

\* BucketExists finds a bucket exactly when it was created, holds an object or
\* is in the baseline, whatever other buckets' names it begins like.
THEOREM ProbesAreExact == Spec => []ProbeIsExact
<1>1. Init => PhysicalInv
  BY DEF Init, PhysicalInv
<1>2. PhysicalInv => ProbeIsExact
  BY HoldsExactly DEF ProbeIsExact, BucketExists
<1> QED
  BY <1>1, <1>2, PhysicalStep, PTL DEF Spec

-----------------------------------------------------------------------------
(* Listings.                                                               *)

\* The client keys that have a value in a bucket of the overlay.
KeysOf(b) == {k \in Keys : <<b, k>> \in written}

\* The physical keys a listing reads: the keys of the bucket that begin with the
\* client's prefix, and at most the marker of the bucket.
LEMMA FoundBelow ==
  ASSUME PhysicalInv, NEW b \in Buckets, NEW p \in Paths, NEW q
  PROVE  q \in physical /\ HasPrefix(q, Under(b) \o p)
           <=> \/ b \in made /\ HasPrefix(Empty, p) /\ q = Under(b) \o Empty
               \/ \E k \in KeysOf(b) : HasPrefix(k, p) /\ q = Under(b) \o k
<1>1. root \in Roots /\ Keys \subseteq Paths /\ Empty \in Paths
  BY KeysAssumption, EmptyIsAPath DEF PhysicalInv
<1>2. ASSUME q \in physical, HasPrefix(q, Under(b) \o p)
      PROVE  \/ b \in made /\ HasPrefix(Empty, p) /\ q = Under(b) \o Empty
             \/ \E k \in KeysOf(b) : HasPrefix(k, p) /\ q = Under(b) \o k
  <2>1. ASSUME NEW c \in made, q = ListPrefix(c)
        PROVE  b \in made /\ HasPrefix(Empty, p) /\ q = Under(b) \o Empty
    <3>1. c \in Buckets /\ q = Under(c) \o Empty
      BY <2>1 DEF PhysicalInv, ListPrefix
    <3>2. c = b /\ HasPrefix(Empty, p)
      BY <1>1, <1>2, <3>1, PrefixBelow
    <3> QED
      BY <3>1, <3>2
  <2>2. ASSUME NEW c \in Buckets, NEW k \in Keys, <<c, k>> \in written, q = MapKey(c, k)
        PROVE  \E l \in KeysOf(b) : HasPrefix(l, p) /\ q = Under(b) \o l
    <3>1. k \in Paths /\ q = Under(c) \o k
      BY <1>1, <2>2 DEF MapKey
    <3>2. c = b /\ HasPrefix(k, p)
      BY <1>1, <1>2, <3>1, PrefixBelow
    <3> QED
      BY <2>2, <3>1, <3>2 DEF KeysOf
  <2>3. ~(q \in Paths /\ Outside(q))
    BY <1>1, <1>2, PrefixOutside
  <2> QED
    BY <1>2, <2>1, <2>2, <2>3 DEF PhysicalInv
<1>3. ASSUME b \in made, HasPrefix(Empty, p), q = Under(b) \o Empty
      PROVE  q \in physical /\ HasPrefix(q, Under(b) \o p)
  <2>1. q \in physical
    BY <1>3 DEF PhysicalInv, ListPrefix
  <2> QED
    BY <1>1, <1>3, <2>1, PrefixBelow
<1>4. ASSUME NEW k \in KeysOf(b), HasPrefix(k, p), q = Under(b) \o k
      PROVE  q \in physical /\ HasPrefix(q, Under(b) \o p)
  <2>1. k \in Paths /\ q \in physical
    BY <1>1, <1>4 DEF PhysicalInv, MapKey, KeysOf
  <2> QED
    BY <1>1, <1>4, <2>1, PrefixBelow
<1> QED
  BY <1>2, <1>3, <1>4

\* A path below a bucket goes beyond a prefix below it as far as what is below
\* the bucket goes beyond the client's prefix, and folds into the same row.
LEMMA FoldBelow ==
  ASSUME root \in Roots, NEW b \in Buckets, NEW t \in Paths, NEW p \in Paths
  PROVE  /\ Len(Under(b) \o t) > Len(Under(b) \o p) <=> Len(t) > Len(p)
         /\ Len(t) > Len(p) =>
              SubSeq(Under(b) \o t, 1, Len(Under(b) \o p)) \o Empty
                = Under(b) \o (SubSeq(t, 1, Len(p)) \o Empty)
<1> DEFINE u == Under(b)
           front == SubSeq(t, 1, Len(p))
<1>1. u \in Seq(Segments) /\ u # << >>
  BY UnderFact
<1>2. t \in Seq(Segments) /\ t # << >> /\ p \in Seq(Segments) /\ p # << >>
  BY DEF Paths
<1>3. Empty \in Seq(Segments)
  BY EmptyIsAPath DEF Paths
<1> HIDE DEF u
<1>4. /\ Len(u \o t) = Len(u) + Len(t) /\ Len(u \o p) = Len(u) + Len(p)
      /\ Len(u) \in Nat \ {0} /\ Len(t) \in Nat \ {0} /\ Len(p) \in Nat \ {0}
  BY <1>1, <1>2, ConcatParts
<1>5. ASSUME Len(t) > Len(p)
      PROVE  SubSeq(u \o t, 1, Len(u \o p)) \o Empty = u \o (front \o Empty)
  <2>1. Len(p) \in 0 .. Len(t)
    BY <1>4, <1>5
  <2>2. SubSeq(u \o t, 1, Len(u) + Len(p)) = u \o front
    BY <1>1, <1>2, <2>1, ConcatFront
  <2>3. front \in Seq(Segments)
    BY <1>2, <2>1
  <2> HIDE DEF front
  <2>4. (u \o front) \o Empty = u \o (front \o Empty)
    BY <1>1, <1>3, <2>3, ConcatAssociative
  <2> QED
    BY <1>4, <2>2, <2>4
<1>6. Len(u \o t) > Len(u \o p) <=> Len(t) > Len(p)
  BY <1>4
<1> QED
  BY <1>5, <1>6 DEF u

\* The row of a folded key is a path, and no marker.
LEMMA RowIsAKey ==
  ASSUME NEW t \in Paths, NEW p \in Paths, Len(t) > Len(p)
  PROVE  SubSeq(t, 1, Len(p)) \o Empty \in Paths \ {Empty}
<1> DEFINE front == SubSeq(t, 1, Len(p))
<1>1. t \in Seq(Segments) /\ p \in Seq(Segments) /\ Len(p) \in Nat \ {0} /\ Len(t) \in Nat
  BY EmptySeq DEF Paths
<1>2. front \in Seq(Segments) /\ Len(front) = Len(p)
  BY <1>1
<1> HIDE DEF front
<1>3. front # << >>
  BY <1>1, <1>2
<1>4. Empty \in Seq(Segments) /\ Empty # << >>
  BY EmptyIsAPath DEF Paths
<1>5. Len(Empty) = 1
  BY DEF Empty
<1>6. /\ front \o Empty \in Seq(Segments) /\ Len(front \o Empty) = Len(front) + Len(Empty)
  BY <1>2, <1>3, <1>4, ConcatParts
<1>7. Len(front \o Empty) # 1
  BY <1>1, <1>2, <1>5, <1>6
<1>8. front \o Empty # << >>
  BY <1>1, <1>2, <1>5, <1>6
<1> QED
  BY <1>5, <1>6, <1>7, <1>8 DEF Paths, front

\* The marker of a bucket is never folded: it goes beyond no prefix.
LEMMA MarkerIsNotFolded ==
  ASSUME root \in Roots, NEW b \in Buckets, NEW p \in Paths
  PROVE  ~(Len(Under(b) \o Empty) > Len(Under(b) \o p))
<1>1. Len(p) \in Nat \ {0}
  BY EmptySeq DEF Paths
<1>2. Len(Empty) = 1
  BY DEF Empty
<1>3. ~(Len(Empty) > Len(p))
  BY <1>1, <1>2
<1> QED
  BY <1>3, EmptyIsAPath, FoldBelow

\* s3Store.ListPage: the objects of a page are the client's keys.
LEMMA ObjectsExact ==
  ASSUME PhysicalInv, NEW b \in Buckets, NEW p \in Paths, NEW delimited \in BOOLEAN
  PROVE  ListPage(b, p, delimited).objects = List(KeysOf(b), p, delimited).objects
<1> DEFINE rows == List(physical, Under(b) \o p, delimited).objects
<1>1. root \in Roots /\ KeysOf(b) \subseteq Paths \ {Empty} /\ Empty \in Paths
  BY KeysAssumption, EmptyIsAPath DEF PhysicalInv, KeysOf
<1>2. \A q : q \in rows <=>
        /\ q \in physical /\ HasPrefix(q, Under(b) \o p)
        /\ ~(delimited /\ Len(q) > Len(Under(b) \o p))
  BY DEF List
<1>3. \A k : k \in List(KeysOf(b), p, delimited).objects <=>
        k \in KeysOf(b) /\ HasPrefix(k, p) /\ ~(delimited /\ Len(k) > Len(p))
  BY DEF List
<1>4. ASSUME NEW k \in List(KeysOf(b), p, delimited).objects
      PROVE  k \in Unmap(b, rows)
  <2>1. k \in KeysOf(b) /\ HasPrefix(k, p) /\ ~(delimited /\ Len(k) > Len(p)) /\ k \in Paths /\ k # Empty
    BY <1>1, <1>3
  <2>2. Under(b) \o k \in physical /\ HasPrefix(Under(b) \o k, Under(b) \o p)
    BY <2>1, FoundBelow
  <2>3. Len(Under(b) \o k) > Len(Under(b) \o p) <=> Len(k) > Len(p)
    BY <1>1, <2>1, FoldBelow
  <2>4. Under(b) \o k \in rows
    BY <1>2, <2>1, <2>2, <2>3
  <2>5. UnmapKey(Under(b) \o k) = Unmapped(b, k)
    BY <1>1, <2>1, UnmapBelow, Zenon
  <2> QED
    BY <2>1, <2>4, <2>5 DEF Unmap, Unmapped
<1>5. ASSUME NEW k \in Unmap(b, rows)
      PROVE  k \in List(KeysOf(b), p, delimited).objects
  <2>1. PICK q \in rows : UnmapKey(q).ok /\ UnmapKey(q).bucket = b /\ k = UnmapKey(q).key
    BY <1>5 DEF Unmap
  <2>2. q \in physical /\ HasPrefix(q, Under(b) \o p) /\ ~(delimited /\ Len(q) > Len(Under(b) \o p))
    BY <1>2
  <2>3. q # Under(b) \o Empty
    <3>1. UnmapKey(Under(b) \o Empty) = NotMapped
      BY <1>1, UnmapBelow, Zenon
    <3>2. NotMapped.ok = FALSE
      BY DEF NotMapped
    <3> QED
      BY <2>1, <3>1, <3>2, Zenon
  <2>4. PICK l \in KeysOf(b) : HasPrefix(l, p) /\ q = Under(b) \o l
    BY <2>2, <2>3, FoundBelow
  <2>5. l \in Paths /\ l # Empty
    BY <1>1
  <2>6. UnmapKey(q) = Unmapped(b, l)
    BY <1>1, <2>4, <2>5, UnmapBelow, Zenon
  <2>7. k = l
    BY <2>1, <2>6 DEF Unmapped
  <2>8. Len(q) > Len(Under(b) \o p) <=> Len(l) > Len(p)
    BY <1>1, <2>4, <2>5, FoldBelow
  <2> QED
    BY <1>3, <2>2, <2>4, <2>7, <2>8
<1>6. ListPage(b, p, delimited).objects = Unmap(b, rows)
  BY DEF ListPage, BackendPrefix
<1> HIDE DEF rows
<1> QED
  BY <1>4, <1>5, <1>6

\* ... and its rows are the client's folded keys.
LEMMA PrefixesExact ==
  ASSUME PhysicalInv, NEW b \in Buckets, NEW p \in Paths, NEW delimited \in BOOLEAN
  PROVE  ListPage(b, p, delimited).prefixes = List(KeysOf(b), p, delimited).prefixes
<1> DEFINE rows == List(physical, Under(b) \o p, delimited).prefixes
           row(q) == SubSeq(q, 1, Len(Under(b) \o p)) \o Empty
           fold(k) == SubSeq(k, 1, Len(p)) \o Empty
<1>1. root \in Roots /\ KeysOf(b) \subseteq Paths \ {Empty} /\ Empty \in Paths
  BY KeysAssumption, EmptyIsAPath DEF PhysicalInv, KeysOf
<1>2. \A r : r \in rows <=> \E q \in physical :
        /\ HasPrefix(q, Under(b) \o p) /\ delimited /\ Len(q) > Len(Under(b) \o p)
        /\ r = row(q)
  BY DEF List
<1>3. \A r : r \in List(KeysOf(b), p, delimited).prefixes <=> \E k \in KeysOf(b) :
        HasPrefix(k, p) /\ delimited /\ Len(k) > Len(p) /\ r = fold(k)
  BY DEF List
<1>4. ASSUME NEW k \in KeysOf(b), Len(k) > Len(p)
      PROVE  /\ row(Under(b) \o k) = Under(b) \o fold(k) /\ fold(k) # Empty
             /\ UnmapKey(row(Under(b) \o k)) = Unmapped(b, fold(k))
             /\ Len(Under(b) \o k) > Len(Under(b) \o p)
  <2>1. k \in Paths /\ k # Empty
    BY <1>1
  <2>2. row(Under(b) \o k) = Under(b) \o fold(k) /\ Len(Under(b) \o k) > Len(Under(b) \o p)
    BY <1>1, <1>4, <2>1, FoldBelow
  <2>3. fold(k) \in Paths /\ fold(k) # Empty
    BY <1>4, <2>1, RowIsAKey
  <2> HIDE DEF row, fold
  <2>4. UnmapKey(Under(b) \o fold(k)) = Unmapped(b, fold(k))
    BY <1>1, <2>3, UnmapBelow, Zenon
  <2> QED
    BY <2>2, <2>3, <2>4
<1> HIDE DEF row, fold
<1>5. ASSUME NEW r \in List(KeysOf(b), p, delimited).prefixes
      PROVE  r \in Unmap(b, rows)
  <2>1. PICK k \in KeysOf(b) : HasPrefix(k, p) /\ delimited /\ Len(k) > Len(p) /\ r = fold(k)
    BY <1>3
  <2>2. Under(b) \o k \in physical /\ HasPrefix(Under(b) \o k, Under(b) \o p)
    BY <2>1, FoundBelow
  <2>3. row(Under(b) \o k) \in rows
    BY <1>2, <1>4, <2>1, <2>2
  <2>4. UnmapKey(row(Under(b) \o k)) = Unmapped(b, r) /\ r # Empty
    BY <1>4, <2>1
  <2>5. Unmapped(b, r).ok /\ Unmapped(b, r).bucket = b /\ Unmapped(b, r).key = r
    BY DEF Unmapped
  <2> DEFINE q == row(Under(b) \o k)
  <2>6. q \in rows /\ UnmapKey(q).ok /\ UnmapKey(q).bucket = b /\ UnmapKey(q).key = r /\ r # Empty
    BY <2>3, <2>4, <2>5
  <2> HIDE DEF rows, q
  <2> QED
    BY <2>6, Zenon DEF Unmap
<1>6. ASSUME NEW r \in Unmap(b, rows)
      PROVE  r \in List(KeysOf(b), p, delimited).prefixes
  <2>1. PICK s \in rows : UnmapKey(s).ok /\ UnmapKey(s).bucket = b /\ r = UnmapKey(s).key
    BY <1>6 DEF Unmap
  <2>2. PICK q \in physical :
          /\ HasPrefix(q, Under(b) \o p) /\ delimited /\ Len(q) > Len(Under(b) \o p)
          /\ s = row(q)
    BY <1>2
  <2>3. q # Under(b) \o Empty
    BY <1>1, <2>2, MarkerIsNotFolded
  <2>4. PICK k \in KeysOf(b) : HasPrefix(k, p) /\ q = Under(b) \o k
    BY <2>2, <2>3, FoundBelow
  <2>5. Len(k) > Len(p)
    BY <1>1, <2>2, <2>4, FoldBelow
  <2>6. r = fold(k)
    BY <1>4, <2>1, <2>2, <2>4, <2>5 DEF Unmapped
  <2> QED
    BY <1>3, <2>2, <2>4, <2>5, <2>6
<1>7. ListPage(b, p, delimited).prefixes = Unmap(b, rows)
  BY DEF ListPage, BackendPrefix
<1> HIDE DEF rows
<1> QED
  BY <1>5, <1>6, <1>7

\* A listing of a mapped bucket is what S3 would list of the client keys put in
\* it, with any prefix and delimiter: no marker, no foreign key and no key of a
\* bucket whose name begins alike shows in it.
THEOREM ListingsAreExact == Spec => []ListingIsTheBuckets
<1>1. Init => PhysicalInv
  BY DEF Init, PhysicalInv
<1>2. PhysicalInv => ListingIsTheBuckets
  <2> SUFFICES ASSUME PhysicalInv, NEW b \in Buckets, NEW p \in Prefixes,
                      NEW delimited \in BOOLEAN
               PROVE  ListPage(b, p, delimited) = List(KeysOf(b), p, delimited)
    BY DEF ListingIsTheBuckets, KeysOf
  <2>1. p \in Paths
    BY PrefixesAssumption
  <2>2. ListPage(b, p, delimited).objects = List(KeysOf(b), p, delimited).objects
    BY <2>1, ObjectsExact
  <2>3. ListPage(b, p, delimited).prefixes = List(KeysOf(b), p, delimited).prefixes
    BY <2>1, PrefixesExact
  <2> QED
    BY <2>2, <2>3 DEF ListPage, List
<1> QED
  BY <1>1, <1>2, PhysicalStep, PTL DEF Spec

-----------------------------------------------------------------------------
(* The list of buckets.                                                    *)

\* The first segment of everything the gateway wrote is a bucket.
LEMMA FirstSegment ==
  ASSUME root = Empty, root \in Roots, NEW b \in Buckets, NEW t \in Paths
  PROVE  /\ Under(b) \o t \in Seq(Segments) /\ Len(Under(b) \o t) > 1
         /\ SubSeq(Under(b) \o t, 1, 1) = <<b>> /\ (Under(b) \o t)[1] = b
<1> DEFINE path == Under(b) \o t
<1>1. /\ Under(b) \in Seq(Segments) /\ Under(b) # << >> /\ Len(Under(b)) = 1
      /\ Under(b)[1] = b /\ t \in Seq(Segments) /\ t # << >>
  BY UnderFact DEF Paths
<1>2. /\ path \in Seq(Segments) /\ Len(path) = 1 + Len(t) /\ Len(t) \in Nat \ {0}
      /\ SubSeq(path, 1, 1) = Under(b)
  BY <1>1, ConcatParts
<1>3. Under(b) = <<b>>
  BY <1>1
<1>4. path[1] = b
  BY <1>1, <1>2, ConcatProperties
<1> QED
  BY <1>2, <1>3, <1>4

\* The row of a bucket, where there is no mapping root.
RowOf(b) == <<b>> \o Empty

LEMMA TrimRow ==
  ASSUME NEW front \in Seq(Segments), front # << >>
  PROVE  TrimSlash(front \o Empty) = front
<1> DEFINE row == front \o Empty
<1>1. Empty \in Seq(Segments) /\ Empty # << >> /\ Len(Empty) = 1 /\ Empty[1] = ""
  BY EmptyIsAPath DEF Paths, Empty
<1>2. /\ row \in Seq(Segments) /\ Len(row) = Len(front) + 1
      /\ SubSeq(row, 1, Len(front)) = front /\ Len(front) \in Nat \ {0}
  BY <1>1, ConcatParts
<1>3. row[Len(front) + 1] = ""
  <2>1. \A n \in Nat : n + 1 \in 1 .. n + 1 /\ ~(n + 1 <= n) /\ (n + 1) - n = 1
    OBVIOUS
  <2>2. Len(front) + 1 \in 1 .. Len(front) + Len(Empty) /\ ~(Len(front) + 1 <= Len(front))
        /\ (Len(front) + 1) - Len(front) = 1
    BY <1>1, <1>2, <2>1
  <2>3. \A i \in 1 .. Len(front) + Len(Empty) :
          row[i] = IF i <= Len(front) THEN front[i] ELSE Empty[i - Len(front)]
    BY <1>1, ConcatProperties
  <2> QED
    BY <1>1, <2>2, <2>3
<1>4. Len(row) > 1 /\ Len(row) - 1 = Len(front)
  BY <1>2
<1> HIDE DEF row
<1>5. TrimSlash(row) = front
  BY <1>2, <1>3, <1>4 DEF TrimSlash
<1> QED
  BY <1>5 DEF row

LEMMA RowsAreNamed ==
  ASSUME root = Empty, NEW b \in Buckets
  PROVE  UnmapPrefixRoot(RowOf(b)) = Unmapped(b, Empty) /\ RowOf(b)[1] = b
<1>1. b \in Segments /\ b # ""
  BY BucketsAssumption
<1>2. <<b>> \in Seq(Segments) /\ <<b>> # << >> /\ Len(<<b>>) = 1 /\ Head(<<b>>) = b
  <2>1. b \in Segments
    BY <1>1
  <2>2. <<b>> \in Seq(Segments) /\ <<b>> # << >> /\ Len(<<b>>) = 1 /\ <<b>>[1] = b
    BY <2>1
  <2> QED
    BY <2>2
<1>3. TrimSlash(RowOf(b)) = <<b>>
  BY <1>2, TrimRow DEF RowOf
<1>4. UnmapKey(<<b>>) = Unmapped(b, Empty)
  <2>1. AfterRoot(<<b>>) = <<b>> /\ InRoot(<<b>>)
    BY DEF AfterRoot, InRoot
  <2>2. Tail(<<b>>) # Empty
    <3>1. Len(Tail(<<b>>)) = 0
      BY <1>2
    <3>2. Len(Empty) = 1
      BY DEF Empty
    <3> QED
      BY <3>1, <3>2
  <2> QED
    BY <1>1, <1>2, <2>1, <2>2 DEF UnmapKey
<1>5. RowOf(b)[1] = b
  BY <1>2, EmptyIsAPath, HeadAndTail DEF RowOf
<1> QED
  BY <1>3, <1>4, <1>5 DEF UnmapPrefixRoot

\* Without a mapping root, the rows are those of the overlay's buckets.
LEMMA RowsAreBuckets ==
  ASSUME PhysicalInv, root = Empty
  PROVE  FirstLevel = {RowOf(b) : b \in {c \in Buckets : InOverlay(c)}}
<1>0. Len(root) = 1 /\ root \in Roots
  BY DEF Empty, PhysicalInv
<1>4. root \in Seq(Segments)
  BY EmptyIsAPath DEF Paths
<1>1. FirstLevel = {SubSeq(k, 1, 1) \o Empty : k \in {p \in physical :
                      HasPrefix(p, root) /\ Len(p) > 1}}
  BY <1>0 DEF FirstLevel, List
<1>2. ASSUME NEW p \in physical, Len(p) > 1
      PROVE  \E b \in Buckets : InOverlay(b) /\ SubSeq(p, 1, 1) = <<b>>
  <2>1. ASSUME NEW b \in made, p = ListPrefix(b)
        PROVE  InOverlay(b) /\ SubSeq(p, 1, 1) = <<b>> /\ b \in Buckets
    BY <1>0, <2>1, EmptyIsAPath, FirstSegment DEF PhysicalInv, ListPrefix, InOverlay
  <2>2. ASSUME NEW b \in Buckets, NEW k \in Keys, <<b, k>> \in written, p = MapKey(b, k)
        PROVE  InOverlay(b) /\ SubSeq(p, 1, 1) = <<b>>
    BY <1>0, <2>2, KeysAssumption, FirstSegment DEF MapKey, InOverlay
  <2>3. ~(p \in Paths /\ Outside(p))
    <3> SUFFICES ASSUME p \in Paths, Outside(p) PROVE FALSE
      OBVIOUS
    <3>1. Len(p) = 1
      BY Zenon DEF Outside
    <3> QED
      BY <1>2, <3>1
  <2> QED
    BY <2>1, <2>2, <2>3 DEF PhysicalInv
<1>3. ASSUME NEW b \in Buckets, InOverlay(b)
      PROVE  \E p \in physical : HasPrefix(p, root) /\ Len(p) > 1 /\ SubSeq(p, 1, 1) = <<b>>
  <2>1. ASSUME NEW t \in Paths
        PROVE  /\ HasPrefix(Under(b) \o t, root) /\ Len(Under(b) \o t) > 1
               /\ SubSeq(Under(b) \o t, 1, 1) = <<b>>
    <3> DEFINE path == Under(b) \o t
    <3>1. path \in Seq(Segments) /\ Len(path) > 1 /\ SubSeq(path, 1, 1) = <<b>> /\ path[1] = b
      BY <1>0, FirstSegment
    <3> HIDE DEF path
    <3>2. <<path[1], root[1]>> \in Begins
      BY <3>1, BucketsAssumption, BeginsAssumption DEF Empty
    <3>3. SubSeq(path, 1, 0) = << >> /\ SubSeq(root, 1, 0) = << >>
      BY <3>1, <1>4, SubSeqEmpty
    <3> QED
      BY <1>0, <3>1, <3>2, <3>3 DEF HasPrefix, path
  <2>2. CASE b \in made
    BY <2>1, <2>2, EmptyIsAPath DEF PhysicalInv, ListPrefix
  <2>3. ASSUME NEW k \in Keys, <<b, k>> \in written
        PROVE  \E p \in physical : HasPrefix(p, root) /\ Len(p) > 1 /\ SubSeq(p, 1, 1) = <<b>>
    BY <2>1, <2>3, KeysAssumption DEF PhysicalInv, MapKey
  <2> QED
    BY <1>3, <2>2, <2>3 DEF InOverlay
<1> QED
  BY <1>1, <1>2, <1>3 DEF RowOf

\* With one, no row unmaps to a name.
LEMMA RowsAreUnnamed ==
  ASSUME PhysicalInv, root # Empty, NEW r \in FirstLevel
  PROVE  ~UnmapPrefixRoot(r).ok
<1>1. root \in Seq(Segments) /\ root # << >>
  BY RootsAssumption DEF PhysicalInv, Paths
<1>2. PICK p \in physical : Len(p) > Len(root) /\ r = SubSeq(p, 1, Len(root)) \o Empty
  BY DEF FirstLevel, List
<1>3. p \in Seq(Segments)
  <2>1. ASSUME NEW b \in made, p = ListPrefix(b) PROVE p \in Seq(Segments)
    BY <2>1, UnderFact, EmptyIsAPath, ConcatProperties DEF PhysicalInv, ListPrefix, Paths
  <2>2. ASSUME NEW b \in Buckets, NEW k \in Keys, p = MapKey(b, k) PROVE p \in Seq(Segments)
    BY <2>2, UnderFact, KeysAssumption, ConcatProperties DEF PhysicalInv, MapKey, Paths
  <2> QED
    BY <2>1, <2>2 DEF PhysicalInv, Paths
<1> DEFINE front == SubSeq(p, 1, Len(root))
<1>4. front \in Seq(Segments) /\ Len(front) = Len(root) /\ front # << >> /\ Len(root) \in Nat \ {0}
  BY <1>1, <1>2, <1>3
<1> HIDE DEF front
<1>5. TrimSlash(r) = front
  BY <1>2, <1>4, TrimRow DEF front
<1>6. ~InRoot(front)
  BY <1>4 DEF InRoot
<1>7. UnmapKey(front) = NotMapped
  BY <1>6 DEF UnmapKey
<1>8. ~NotMapped.ok
  BY DEF NotMapped
<1> QED
  BY <1>5, <1>7, <1>8 DEF UnmapPrefixRoot

\* What rows of the first level name.
LEMMA RowNames ==
  ASSUME PhysicalInv, NEW rows \in SUBSET FirstLevel
  PROVE  /\ NamesOf(rows) \subseteq {b \in Buckets : InOverlay(b)}
         /\ root = Empty => NamesOf(rows) = {b \in Buckets : RowOf(b) \in rows}
<1>1. CASE root # Empty
  <2>1. NamesOf(rows) = {}
    BY <1>1, RowsAreUnnamed DEF NamesOf
  <2> QED
    BY <1>1, <2>1
<1>2. CASE root = Empty
  <2>1. \A r \in rows : \E b \in Buckets : InOverlay(b) /\ r = RowOf(b)
    BY <1>2, RowsAreBuckets
  <2>2. \A b \in Buckets : /\ UnmapPrefixRoot(RowOf(b)).ok
                            /\ UnmapPrefixRoot(RowOf(b)).bucket = b
    BY <1>2, RowsAreNamed DEF Unmapped
  <2>3. NamesOf(rows) = {UnmapPrefixRoot(r).bucket : r \in {q \in rows : UnmapPrefixRoot(q).ok}}
    BY DEF NamesOf
  <2> QED
    BY <1>2, <2>1, <2>2, <2>3
<1> QED
  BY <1>1, <1>2

\* ListBuckets never names what is no bucket, and without a mapping root it
\* names every one.
THEOREM ListsNameBuckets == Spec => []ListedBucketsExist
<1>1. Init => PhysicalInv
  BY DEF Init, PhysicalInv
<1>2. PhysicalInv => ListedBucketsExist
  <2> SUFFICES ASSUME PhysicalInv PROVE ListedBucketsExist
    OBVIOUS
  <2>1. NamesOf(FirstLevel) \subseteq {b \in Buckets : InOverlay(b)}
    BY RowNames
  <2>2. root = Empty => NamesOf(FirstLevel) = {b \in Buckets : InOverlay(b)}
    BY RowNames, RowsAreBuckets
  <2> QED
    BY <2>1, <2>2 DEF ListedBucketsExist, ListBuckets, Existing
<1> QED
  BY <1>1, <1>2, PhysicalStep, PTL DEF Spec
=============================================================================
