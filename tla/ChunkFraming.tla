---------------------------- MODULE ChunkFraming ----------------------------
(***************************************************************************)
(* A body on the wire, and the aws-chunked framing awsChunkedReader is     *)
(* written for (sigv4.go): "each chunk is <hex-size>[;...]\r\n<data>\r\n,  *)
(* terminated by a zero-size chunk".  A wire is a sequence of tokens:      *)
(* units of data, and the header lines and line ends around them.  What a  *)
(* client must do to be decoded is said of positions of the wire, not by   *)
(* decoding it.                                                            *)
(***************************************************************************)
EXTENDS Integers, Sequences, FiniteSets

Tokens         == [kind : {"header", "data", "crlf", "bad"}, n : Int]
Token(kind, n) == [kind |-> kind, n |-> n]
Header(n)      == Token("header", n)
Bytes(body)    == [i \in DOMAIN body |-> Token("data", body[i])]
LineEnd        == Token("crlf", 0)

\* What the tokens carry, framing or not.
Contents(w) == [i \in DOMAIN w |-> w[i].n]

\* How many of the first i tokens are data.
DataBefore(w, i) == Cardinality({j \in 1 .. i : w[j].kind = "data"})

\* The data on the wire are a beginning of the body.
CarriesBody(w, body) ==
  \A i \in DOMAIN w : w[i].kind = "data" =>
    DataBefore(w, i) <= Len(body) /\ w[i].n = body[DataBefore(w, i)]

\* n units of data, and the end of a line, are next behind i, as far as the wire goes.
InChunk(w, i, n) ==
  /\ \A j \in 1 .. n : i + j <= Len(w) => w[i + j].kind = "data"
  /\ i + n < Len(w) => w[i + n + 1] = LineEnd

\* Every chunk has the size its header says, where the wire is not cut.
CountsItsChunks(w) ==
  \A i \in DOMAIN w : w[i].kind = "header" /\ w[i].n > 0 => InChunk(w, i, w[i].n)

\* Behind i comes the header of a chunk.
HeaderNext(w, i) == i < Len(w) /\ w[i + 1].kind = "header"

\* Behind every chunk comes another, until a zero-size one when all was sent.
IsWhole(w, body) ==
  /\ HeaderNext(w, 0)
  /\ \A i \in DOMAIN w : w[i].kind = "header" =>
       IF w[i].n = 0 THEN DataBefore(w, i) = Len(body)
       ELSE w[i].n > 0 /\ HeaderNext(w, i + w[i].n + 1)
=============================================================================
