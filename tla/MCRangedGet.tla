---------------------------- MODULE MCRangedGet ----------------------------
(* RangedGet for TLC: three versions of sizes 0, 2 and 4.                  *)
EXTENDS RangedGet
CONSTANTS empty, short, long

Sizes == [v \in Versions |-> IF v = empty THEN 0 ELSE IF v = short THEN 2 ELSE 4]

\* A first part has no sign: the dash before it would be the separator.
Texts      == [kind : {"empty", "bad"}, n : {0}]
FirstParts == Texts \cup [kind : {"number"}, n : 0 .. 5]
LastParts  == Texts \cup [kind : {"number"}, n : -1 .. 5]
AllHeaders == [form : {"one"}, first : FirstParts, last : LastParts] \cup {NoHeader}
=============================================================================
