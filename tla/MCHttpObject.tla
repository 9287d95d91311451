---------------------------- MODULE MCHttpObject ----------------------------
(* HttpObject for TLC: bodies of up to three units, their framings cut     *)
(* everywhere, requests altered, late or unsigned, and every target.       *)
EXTENDS HttpObject

Body    == <<1, 2, 3>>
Altered == <<1, 2, 2>>
Bodies  == {SubSeq(Body, 1, n) : n \in 0 .. 3} \cup {Altered}
Lengths == [v \in Bodies |-> Len(v)]

Chunk(i, n)  == <<Header(n)>> \o Bytes(SubSeq(Body, i, i + n - 1)) \o <<LineEnd>>
OneChunk     == Chunk(1, 3) \o <<Header(0)>>
TwoChunks    == Chunk(1, 2) \o Chunk(3, 1) \o <<Header(0)>>

PutTarget == [method |-> "PUT", bucket |-> TRUE, key |-> TRUE, params |-> {},
              copySource |-> FALSE]
Fresh == [given |-> TRUE, at |-> Now]

SignAs(q, secret) == [q EXCEPT !.auth.signature = Sign(secret, StringToSign(q))]
Request0(target, payload, wire, ending, intact) ==
  SignAs([NoRequest EXCEPT
            !.target = target, !.date = Fresh, !.payload = payload, !.wire = wire,
            !.ending = ending, !.intact = intact, !.meant = Body,
            !.auth.form = "aws4",
            !.auth.signed = {"host", "x-amz-date", "x-amz-content-sha256"}], SecretKey)
Put(payload, wire, ending, intact) == Request0(PutTarget, payload, wire, ending, intact)

Cuts(w) == {SubSeq(w, 1, n) : n \in 0 .. Len(w) - 1}

\* Chunked uploads: whole, cut off or lost anywhere, and with broken sizes.
ChunkedPuts ==
  {Put(Streaming, w, "end", TRUE) : w \in {OneChunk, TwoChunks}}
  \cup {Put(Streaming, w, e, FALSE) : w \in Cuts(TwoChunks), e \in {"end", "lost"}}
  \cup {Put(Streaming, Chunk(1, 2) \o <<t>>, "end", FALSE) :
          t \in {Header(-1), Token("bad", 0)}}
  \cup {[Put(Streaming, OneChunk, "end", FALSE) EXCEPT !.lengthOK = FALSE]}

\* Plain uploads: whole, cut off, lost or altered, with and without a hash.
PlainPuts ==
  {Put(p, Bytes(Body), "end", TRUE) : p \in {Unsigned, HashOf(Body)}}
  \cup {Put(p, Bytes(b), e, FALSE) : p \in {Unsigned, HashOf(Body)},
          b \in {<<1, 2>>, Altered}, e \in {"end", "lost"}}

\* What the middleware must refuse: another secret, a late or early date, a
\* request or a hash changed after it was signed, a header that is not there.
Good == Put(HashOf(Body), Bytes(Body), "end", FALSE)
BadPuts ==
  {SignAs(Good, "guess")}
  \cup {SignAs([Good EXCEPT !.date.at = Now + d], SecretKey) : d \in {-2, -1, 1, 2}}
  \cup {[Good EXCEPT !.payload = HashOf(Altered), !.wire = Bytes(Altered)],
        [Good EXCEPT !.date.at = Now - 1],
        [Request0([PutTarget EXCEPT !.method = "GET"], HashOf(Body), Bytes(Body), "end", FALSE)
           EXCEPT !.target = PutTarget],
        SignAs([Good EXCEPT !.payload.kind = "otherStreaming"], SecretKey),
        SignAs([Good EXCEPT !.payload.kind = "odd"], SecretKey),
        SignAs([Good EXCEPT !.presigned = TRUE], SecretKey),
        SignAs([Good EXCEPT !.auth.keyID = "other"], SecretKey),
        SignAs([Good EXCEPT !.auth.signed = {"x-amz-date"}], SecretKey),
        SignAs([Good EXCEPT !.auth.signed = {"host", "x-amz-copy-source"}], SecretKey),
        SignAs([Good EXCEPT !.payload.kind = "none"], SecretKey), NoRequest}

Routed == {Request0(TargetOf(row), Unsigned, Bytes(Body), "end", FALSE) : row \in S3Api}

Uploads == ChunkedPuts \cup PlainPuts \cup BadPuts \cup Routed

\* A first part has no sign: the dash before it would be the separator.
Numbered(n)  == [kind |-> "number", n |-> n]
EmptyPart    == [kind |-> "empty", n |-> 0]
BadPart      == [kind |-> "bad", n |-> 0]
One(f, l)    == [form |-> "one", first |-> f, last |-> l]
FewHeaders   == {NoHeader, One(EmptyPart, Numbered(4)), One(Numbered(1), EmptyPart),
                 One(Numbered(1), Numbered(5))}
=============================================================================
