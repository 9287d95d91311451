--------------------------- MODULE RangedGetProofs ---------------------------
(***************************************************************************)
(* Proofs about parseByteRange, for every header and object size, and      *)
(* about the ranged GET built on it, for all versions and backends.        *)
(***************************************************************************)
EXTENDS RangedGet, TLAPS

\* parseByteRange: a slice is not empty, lies in the object and is exactly the
\* bytes asked for; 416 means that none of them exists.
THEOREM ParseByteRangeCorrect ==
  ASSUME NEW h \in Headers, NEW size \in Nat
  PROVE  LET r == ParseByteRange(h, size) IN
         /\ r \in Ranges
         /\ r.kind = "slice" =>
              /\ r.start \in Nat /\ r.length >= 1 /\ r.start + r.length <= size
              /\ Positions(r) = AskedPositions(h, size)
         /\ r.kind = "unsatisfiable" => AskedPositions(h, size) = {}
<1> DEFINE r == ParseByteRange(h, size)
<1> USE DEF Headers, Part
<1>1. CASE h.form # "one"
  BY <1>1 DEF ParseByteRange, Whole, Ranges
<1>2. CASE h.form = "one" /\ h.first.kind = "empty"
  <2>1. r = SuffixRange(h.last, size)
    BY <1>2 DEF ParseByteRange
  <2>2. CASE h.last.kind # "number"
    BY <2>1, <2>2 DEF SuffixRange, Whole, Ranges
  <2>3. CASE h.last.kind = "number" /\ (h.last.n <= 0 \/ size = 0)
    <3>1. AskedPositions(h, size) = {}
      BY <1>2, <2>3 DEF AskedPositions
    <3> QED
      BY <2>1, <2>3, <3>1 DEF SuffixRange, Unsatisfiable, Ranges
  <2>4. CASE h.last.kind = "number" /\ h.last.n > 0 /\ size > 0
    <3> DEFINE n == Least(h.last.n, size)
    <3>1. n \in 1 .. size
      BY <2>4 DEF Least
    <3>2. r = Slice(size - n, n)
      BY <2>1, <2>4 DEF SuffixRange
    <3>3. AskedPositions(h, size) = (size - n) .. (size - 1)
      BY <1>2, <2>4, <3>1 DEF AskedPositions, Least
    <3> QED
      BY <3>1, <3>2, <3>3 DEF Slice, Positions, Ranges
  <2> QED
    BY <2>2, <2>3, <2>4
<1>3. CASE h.form = "one" /\ h.first.kind # "empty"
  <2>1. r = BoundedRange(h.first, h.last, size)
    BY <1>3 DEF ParseByteRange
  <2>2. CASE r = Whole
    BY <2>2 DEF Whole, Ranges
  <2>3. CASE r = Unsatisfiable
    <3>1. AskedPositions(h, size) = {}
      BY <1>3, <2>1, <2>3
      DEF BoundedRange, AskedPositions, Whole, Unsatisfiable, Slice
    <3> QED
      BY <2>3, <3>1 DEF Unsatisfiable, Ranges
  <2>4. CASE r # Whole /\ r # Unsatisfiable
    <3>1. PICK e \in Int :
             /\ h.first.n >= 0 /\ h.first.n <= e /\ e <= size - 1
             /\ r = Slice(h.first.n, e - h.first.n + 1)
             /\ \A i \in 0 .. (size - 1) :
                  (h.last.kind = "number" => i <= h.last.n) <=> i <= e
      <4>1. CASE h.last.kind = "empty"
        <5>1. h.first.n \in 0 .. (size - 1) /\ r = Slice(h.first.n, size - h.first.n)
          BY <1>3, <2>1, <2>4, <4>1 DEF BoundedRange, Least
        <5> QED
          BY <4>1, <5>1 DEF Slice
      <4>2. CASE h.last.kind # "empty"
        <5>1. /\ h.last.kind = "number" /\ h.first.n \in 0 .. (size - 1)
              /\ h.first.n <= h.last.n
              /\ r = Slice(h.first.n, Least(h.last.n, size - 1) - h.first.n + 1)
          BY <1>3, <2>1, <2>4, <4>2 DEF BoundedRange
        <5> QED
          BY <5>1 DEF Least
      <4> QED
        BY <4>1, <4>2
    <3>2. AskedPositions(h, size) = h.first.n .. e
      BY <1>3, <3>1 DEF AskedPositions
    <3>3. h.first.n + (e - h.first.n + 1) - 1 = e /\ e - h.first.n + 1 >= 1
          /\ h.first.n + (e - h.first.n + 1) <= size
      BY <3>1
    <3>4. r \in Ranges /\ r.kind = "slice" /\ r.start = h.first.n
          /\ r.length = e - h.first.n + 1
      BY <3>1 DEF Slice, Ranges
    <3>5. Positions(r) = h.first.n .. e
      BY <3>3, <3>4 DEF Positions
    <3> QED
      BY <3>1, <3>2, <3>3, <3>4, <3>5
  <2> QED
    BY <2>2, <2>3, <2>4
<1> QED
  BY <1>1, <1>2, <1>3

-----------------------------------------------------------------------------
\* A range is under way only for an object of a known version and size; a
\* reply carries bytes of that range.
RangeInv ==
  /\ stage = "head" => headed = None
  /\ headed # None => /\ total = SizeOf[headed]
                      /\ rng = ParseByteRange(hdr, total)
                      /\ obj # None
  /\ headed = None => rng = Whole
  /\ stage = "get" => headed # None /\ rng.kind # "unsatisfiable"
  /\ reply.status = 206 => stage = "done" /\ rng.kind = "slice" /\ headed # None

\* Only the slice of a whole answer may declare what it does not carry.
SliceInv == ~reply.broken => reply.declared = reply.written \/ "ignore" \in Modes

Invariants == TypeOK /\ RangeInv /\ SliceInv /\ BytesAreFromTheRange /\ FailedReadsAreShort

LEMMA InitInvariants == Init => Invariants
  BY VersionsAssumption
  DEF Init, Invariants, TypeOK, RangeInv, SliceInv, BytesAreFromTheRange, FailedReadsAreShort,
      ErrorReply, Reply, NoHeader, Headers, Part, Whole, Ranges

\* A slice is never empty and lies in the version the Head saw.
LEMMA SliceFits ==
  ASSUME Invariants, rng.kind = "slice"
  PROVE  /\ rng.start \in Nat /\ rng.length \in Nat /\ rng.length >= 1
         /\ headed \in Versions /\ rng.start + rng.length <= SizeOf[headed]
<1>1. headed \in Versions /\ SizeOf[headed] \in Nat
  BY VersionsAssumption DEF Invariants, TypeOK, RangeInv, Whole
<1>2. hdr \in Headers /\ rng = ParseByteRange(hdr, SizeOf[headed])
  BY <1>1, VersionsAssumption DEF Invariants, TypeOK, RangeInv
<1>3. rng.start \in Nat /\ rng.length >= 1 /\ rng.start + rng.length <= SizeOf[headed]
  BY <1>1, <1>2, ParseByteRangeCorrect
<1>4. rng.length \in Int
  BY DEF Invariants, TypeOK, Ranges
<1> QED
  BY <1>1, <1>3, <1>4

\* Every reply that carries bytes of the object carries w bytes of the range
\* from f on, and no more than the d it declares.
Carries(status, f, d, w) ==
  /\ w <= d
  /\ d = w \/ "ignore" \in Modes
  /\ status = 200 => d = SizeOf[obj]
  /\ status = 206 =>
       /\ rng.kind = "slice" /\ f = rng.start /\ w <= rng.length
       /\ w > 0 => f + w <= SizeOf[obj]
       /\ rng.start + rng.length <= SizeOf[obj] => w = rng.length /\ d = rng.length

LEMMA GetRepliesCarry ==
  ASSUME Invariants, stage = "get", NEW r \in GetReplies
  PROVE  \E status \in {200, 206}, f \in Nat, d \in Nat, w \in Nat :
           r = Reply(status, obj, f, d, w) /\ Carries(status, f, d, w)
<1>1. obj \in Versions /\ SizeOf[obj] \in Nat
  BY VersionsAssumption DEF Invariants, TypeOK
<1>2. CASE rng.kind = "whole"
  <2>1. r = Reply(200, obj, 0, SizeOf[obj], SizeOf[obj])
    BY <1>2 DEF GetReplies, WholeReply
  <2>2. Carries(200, 0, SizeOf[obj], SizeOf[obj])
    BY <1>1 DEF Carries
  <2> QED
    BY <1>1, <2>1, <2>2
<1>3. CASE rng.kind = "slice" /\ r = Sliced(obj, rng) /\ "ignore" \in Modes
  <2> DEFINE rest == IF rng.start < SizeOf[obj] THEN SizeOf[obj] - rng.start ELSE 0
             d == Least(SizeOf[obj], rng.length)
             w == Least(rest, rng.length)
  <2>1. r = Reply(206, obj, rng.start, d, w)
    BY <1>3 DEF Sliced
  <2>2. d \in Nat /\ w \in Nat /\ rng.start \in Nat /\ Carries(206, rng.start, d, w)
    BY <1>1, <1>3, SliceFits DEF Least, Carries
  <2> HIDE DEF d, w
  <2> QED
    BY <2>1, <2>2
<1>4. CASE rng.kind = "slice" /\ r = HonouredReply /\ rng.start < SizeOf[obj]
  <2> DEFINE n == Least(rng.length, SizeOf[obj] - rng.start)
  <2>1. r = Reply(206, obj, rng.start, n, n)
    BY <1>4 DEF HonouredReply
  <2>2. n \in Nat /\ rng.start \in Nat /\ Carries(206, rng.start, n, n)
    BY <1>1, <1>4, SliceFits DEF Least, Carries
  <2> HIDE DEF n
  <2> QED
    BY <2>1, <2>2
<1> QED
  <2>1. rng.kind \in {"whole", "slice"}
    BY DEF Invariants, TypeOK, RangeInv, Ranges
  <2>2. \/ rng.kind = "whole"
        \/ r = Sliced(obj, rng) /\ "ignore" \in Modes
        \/ r = HonouredReply /\ rng.start < SizeOf[obj]
    <3> SUFFICES ASSUME rng.kind # "whole"
                 PROVE  \/ r = Sliced(obj, rng) /\ "ignore" \in Modes
                        \/ r = HonouredReply /\ rng.start < SizeOf[obj]
      BY Zenon
    <3>1. r \in (IF "ignore" \in Modes THEN {Sliced(obj, rng)} ELSE {}) \cup
               (IF "honour" \in Modes /\ rng.start < SizeOf[obj] THEN {HonouredReply} ELSE {})
      BY Zenon DEF GetReplies
    <3> HIDE DEF GetReplies
    <3> QED
      BY <3>1
  <2> QED
    BY <1>2, <1>3, <1>4, <2>1, <2>2

\* A broken-off reply has error text only where net/http has room for it.
LEMMA ErrTextFits ==
  ASSUME NEW room \in Nat
  PROVE  LET t == ErrText(room) IN
         /\ t \in Nat /\ t <= room
         /\ t = room /\ room > 0 => room \in {ErrHead, ErrHead + ErrDoc}
  BY ErrTextAssumption DEF ErrText

LEMMA NextInvariants == Invariants /\ [Next]_vars => Invariants'
<1> SUFFICES ASSUME Invariants, [Next]_vars  PROVE Invariants'
  OBVIOUS
<1> USE VersionsAssumption
    DEF Invariants, TypeOK, RangeInv, SliceInv, BytesAreFromTheRange, FailedReadsAreShort
<1>0. ASSUME NEW status \in {404, 416, 500}, Answer(ErrorReply(status)),
             UNCHANGED <<obj, hdr, total, rng, headed>>
      PROVE  Invariants'
  BY <1>0 DEF Answer, ErrorReply, Reply
<1>1. ASSUME NEW v \in Versions, Overwrite(v)
      PROVE  Invariants'
  BY <1>1 DEF Overwrite
<1>2. ASSUME NEW h \in Asked, Request(h)
      PROVE  Invariants'
  BY <1>2, AskedAssumption DEF Request, ErrorReply, Reply, Whole, Ranges
<1>3. CASE HeadMissing
  BY <1>0, <1>3 DEF HeadMissing
<1>4. CASE HeadResolves
  <2>1. SizeOf[obj] \in Nat /\ rng' \in Ranges /\ obj # None
    BY <1>4, ParseByteRangeCorrect DEF HeadResolves
  <2>2. CASE rng'.kind = "unsatisfiable"
    <3>1. /\ reply' = [status |-> 416, version |-> None, from |-> 0, declared |-> 0,
                      written |-> 0, broken |-> FALSE, errText |-> 0]
          /\ stage' = "done" /\ UNCHANGED <<obj, hdr>>
          /\ total' = SizeOf[obj] /\ headed' = obj /\ rng' = ParseByteRange(hdr, SizeOf[obj])
      BY <1>4, <2>2 DEF HeadResolves, Answer, ErrorReply, Reply
    <3> QED
      BY <2>1, <2>2, <3>1
  <2>3. CASE rng'.kind # "unsatisfiable"
    BY <1>4, <2>1, <2>3 DEF HeadResolves
  <2> QED
    BY <2>2, <2>3
<1>5. CASE GetAnswers
  <2>1. PICK r \in GetReplies : Answer(r)
    BY <1>5 DEF GetAnswers
  <2>2. PICK status \in {200, 206}, f \in Nat, d \in Nat, w \in Nat :
          r = Reply(status, obj, f, d, w) /\ Carries(status, f, d, w)
    BY <1>5, <2>1, GetRepliesCarry DEF GetAnswers
  <2>3. /\ reply' = Reply(status, obj, f, d, w) /\ stage' = "done"
        /\ UNCHANGED <<obj, hdr, total, rng, headed>>
    BY <1>5, <2>1, <2>2 DEF GetAnswers, Answer
  <2>4. obj \in Versions /\ headed # None
    BY <1>5 DEF GetAnswers
  <2>5. TypeOK' /\ RangeInv' /\ SliceInv'
    BY <2>2, <2>3, <2>4 DEF Reply, Carries
  <2>6. BytesAreFromTheRange' /\ FailedReadsAreShort'
    BY <2>2, <2>3, <2>4 DEF Reply, Carries
  <2> QED
    BY <2>5, <2>6
<1>6. CASE GetUnsatisfiable
  BY <1>0, <1>6 DEF GetUnsatisfiable
<1>7. CASE StoreFails
  BY <1>0, <1>7 DEF StoreFails
<1>8. CASE StreamBreaks
  <2>1. PICK r \in GetReplies : \E n \in 0 .. (r.written - 1) : Answer(Broken(r, n))
    BY <1>8 DEF StreamBreaks
  <2>2. PICK n \in 0 .. (r.written - 1) : Answer(Broken(r, n))
    BY <2>1
  <2>3. PICK status \in {200, 206}, f \in Nat, d \in Nat, w \in Nat :
          r = Reply(status, obj, f, d, w) /\ Carries(status, f, d, w)
    BY <1>8, <2>1, GetRepliesCarry DEF StreamBreaks
  <2>4. n \in Nat /\ n < w /\ d - n \in Nat /\ d - n > 0
    BY <2>2, <2>3 DEF Reply, Carries
  <2> DEFINE t == ErrText(d - n)
  <2>5. /\ t \in Nat /\ n + t <= d
        /\ n + t = d => d - n \in {ErrHead, ErrHead + ErrDoc}
    BY <2>4, ErrTextFits
  <2>6. /\ reply' = [status |-> status, version |-> obj, from |-> f, declared |-> d,
                    written |-> n, broken |-> TRUE, errText |-> t]
        /\ stage' = "done" /\ UNCHANGED <<obj, hdr, total, rng, headed>>
    BY <1>8, <2>2, <2>3 DEF StreamBreaks, Answer, Broken, BrokenReply, Reply
  <2> HIDE DEF t
  <2>7. obj \in Versions /\ headed # None
    BY <1>8 DEF StreamBreaks
  <2>8. TypeOK' /\ RangeInv' /\ SliceInv'
    BY <2>3, <2>4, <2>5, <2>6, <2>7 DEF Carries
  <2>9. SizeOf[obj] \in Nat
    BY <2>7
  <2>10. BytesAreFromTheRange'
    BY <2>3, <2>4, <2>5, <2>6, <2>7, <2>9, SliceFits DEF Carries
  <2>11. FailedReadsAreShort'
    BY <2>3, <2>4, <2>5, <2>6 DEF Carries
  <2> QED
    BY <2>8, <2>10, <2>11
<1>9. CASE UNCHANGED vars
  BY <1>9 DEF vars
<1> QED
  BY <1>1, <1>2, <1>3, <1>4, <1>5, <1>6, <1>7, <1>8, <1>9 DEF Next, Serve

LEMMA SpecInvariants == Spec => []Invariants
  BY InitInvariants, NextInvariants, PTL DEF Spec

\* handleGetObject: every variable stays in its domain, and only an object that
\* exists is read.
THEOREM RangedTypeCorrect == Spec => []TypeOK
<1>1. Invariants => TypeOK
  BY DEF Invariants
<1> QED
  BY <1>1, SpecInvariants, PTL

\* handleGetObject: what the Head resolved is the bytes the header asks for.
THEOREM ResolvedRangeCorrect == Spec => []RangeIsWhatWasAsked
<1>1. Invariants => RangeIsWhatWasAsked
  <2> SUFFICES ASSUME Invariants, headed # None  PROVE RangeIsWhatWasAsked
    BY DEF RangeIsWhatWasAsked
  <2>1. hdr \in Headers /\ total \in Nat /\ rng = ParseByteRange(hdr, total)
    BY DEF Invariants, TypeOK, RangeInv
  <2> QED
    BY <2>1, ParseByteRangeCorrect DEF RangeIsWhatWasAsked
<1> QED
  BY <1>1, SpecInvariants, PTL

\* Store.Get: under any overwriting and either kind of backend, the bytes of a
\* 206 are bytes of one version that the range names.
THEOREM RangedBytesCorrect == Spec => []BytesAreFromTheRange
<1>1. Invariants => BytesAreFromTheRange
  BY DEF Invariants
<1> QED
  BY <1>1, SpecInvariants, PTL

\* s3Store.Get: with backends that honour ranges, a reply declares just what it
\* carries, although the object may be overwritten between the Head and the Get.
THEOREM HonouredRangesAreExact ==
  ASSUME "ignore" \notin Modes PROVE Spec => []DeclaredIsWritten
<1>1. Invariants => DeclaredIsWritten
  BY DEF Invariants, SliceInv, TypeOK, DeclaredIsWritten
<1> QED
  BY <1>1, SpecInvariants, PTL

\* ServeHTTP: whatever the object and the error text, a read that broke off is
\* short, except where what is missing is as long as the text.
THEOREM FailedReadsDetectable == Spec => []FailedReadsAreShort
<1>1. Invariants => FailedReadsAreShort
  BY DEF Invariants
<1> QED
  BY <1>1, SpecInvariants, PTL
=============================================================================
