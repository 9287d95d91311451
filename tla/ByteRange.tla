------------------------------ MODULE ByteRange ------------------------------
(***************************************************************************)
(* parseByteRange (handlers.go): the Range header resolved against the     *)
(* size of an object.  A header is what its parts parse to: either side of *)
(* the dash is empty, a number, or text strconv.ParseInt rejects.          *)
(***************************************************************************)
EXTENDS Integers

Part == [kind : {"empty", "number", "bad"}, n : Int]

\* "several" is a header the gateway ignores: not bytes=, a list, or no dash.
Headers == [form : {"one", "several"}, first : Part, last : Part]

\* The three outcomes: serve the whole object, a slice of it, or answer 416.
Whole         == [kind |-> "whole", start |-> 0, length |-> 0]
Unsatisfiable == [kind |-> "unsatisfiable", start |-> 0, length |-> 0]
Slice(s, n)   == [kind |-> "slice", start |-> s, length |-> n]
Ranges        == [kind : {"whole", "unsatisfiable", "slice"}, start : Int, length : Int]

Least(a, b) == IF a <= b THEN a ELSE b

\* "-n": the last n bytes.
Mutant_SuffixRange(last, size) ==           \* forgets to clamp to the object
  IF last.kind # "number" THEN Whole
  ELSE IF last.n <= 0 \/ size = 0 THEN Unsatisfiable
  ELSE Slice(size - last.n, last.n)

SuffixRange(last, size) ==
  IF last.kind # "number" THEN Whole
  ELSE IF last.n <= 0 \/ size = 0 THEN Unsatisfiable
  ELSE Slice(size - Least(last.n, size), Least(last.n, size))

\* "s-" and "s-e"; a start beyond the object wins over a malformed end.
Mutant_BoundedRange(first, last, size) ==   \* forgets to clamp the end
  IF first.kind = "bad" \/ first.n < 0 THEN Whole
  ELSE IF first.n >= size THEN Unsatisfiable
  ELSE IF last.kind = "bad" THEN Whole
  ELSE IF last.kind = "empty" THEN Slice(first.n, size - first.n)
  ELSE IF last.n < first.n THEN Unsatisfiable
  ELSE Slice(first.n, last.n - first.n + 1)

BoundedRange(first, last, size) ==
  IF first.kind = "bad" \/ first.n < 0 THEN Whole
  ELSE IF first.n >= size THEN Unsatisfiable
  ELSE IF last.kind = "bad" THEN Whole
  ELSE IF last.kind = "empty" THEN Slice(first.n, size - first.n)
  ELSE IF last.n < first.n THEN Unsatisfiable
  ELSE Slice(first.n, Least(last.n, size - 1) - first.n + 1)

ParseByteRange(h, size) ==
  IF h.form # "one" THEN Whole
  ELSE IF h.first.kind = "empty" THEN SuffixRange(h.last, size)
  ELSE BoundedRange(h.first, h.last, size)

\* The bytes a resolved range stands for.
Positions(r) == r.start .. (r.start + r.length - 1)

\* What the header asks for, whatever parseByteRange makes of it: the bytes of
\* the object the two numbers name.
AskedPositions(h, size) ==
  {i \in 0 .. (size - 1) :
     IF h.first.kind = "empty" THEN i >= size - h.last.n
     ELSE i >= h.first.n /\ (h.last.kind = "number" => i <= h.last.n)}
=============================================================================
