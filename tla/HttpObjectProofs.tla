-------------------------- MODULE HttpObjectProofs --------------------------
(***************************************************************************)
(* Proofs about uploads, for any set of requests, bodies of any length and *)
(* any chunks: requests are routed as S3 does; the payload readers hand on *)
(* beginnings of the body, and all of one that arrives intact; what is     *)
(* stored was signed, and no upload of a lost connection is; a download    *)
(* sees uploads as one-step overwrites.                                    *)
(***************************************************************************)
EXTENDS HttpObject, RangedGetProofs, ChunkFramingProofs

AcceptedPut(q) ==
  /\ q \in Sent /\ VerifySigV4(q)
  /\ ParseS3Request(q.target) = "PutObject"

UploadInv ==
  /\ HttpTypeOK /\ data \in Seq(Int)
  /\ phase \in {"body", "put"} \/ code = 200 => AcceptedPut(req)
  /\ phase = "put" \/ code = 200 => /\ req.ending = "end" \/ finished
                                    /\ BodyReader(req) = "hash" => data = req.payload.body
  /\ phase = "body" => req.ending \in {"end", "lost"}
  /\ phase \in {"body", "put"} => code = 0
  /\ code = 200 => obj = data

LEMMA WireType ==
  /\ \A q \in Sent : q.wire \in Seq(Tokens)
  /\ NoRequest.wire = <<>> /\ NoRequest.wire \in Seq(Tokens)
  BY SentAssumption DEF NoRequest

LEMMA InitUpload == HttpInit => UploadInv
<1> SUFFICES ASSUME HttpInit PROVE UploadInv
  OBVIOUS
<1>1. Len(NoRequest.wire) = 0 /\ data = <<>> /\ Len(data) = 0
  BY WireType DEF HttpInit
<1>2. HttpTypeOK
  <2>1. req \in Sent \cup {NoRequest}
    BY DEF HttpInit
  <2>2. phase \in {"idle", "body", "put", "done", "aborted"} /\ code \in {0, 200, 400, 403, 500, 501}
    BY DEF HttpInit
  <2>3. pos \in 0 .. Len(req.wire) /\ remaining \in Nat /\ Len(data) <= pos
    BY <1>1 DEF HttpInit
  <2>4. finished \in BOOLEAN
    BY Zenon DEF HttpInit
  <2> QED
    BY <2>1, <2>2, <2>3, <2>4 DEF HttpTypeOK
<1> QED
  BY <1>1, <1>2 DEF HttpInit, UploadInv

\* What a Read collects is as long as what it takes from the wire.
LEMMA CollectMore ==
  ASSUME UploadInv, NEW n \in Nat, DataAhead(n), Collect(n)
  PROVE  \E more \in Seq(Int) :
           Len(more) = n /\ data' = data \o more /\ \A i \in 1 .. n : more[i] = req.wire[pos + i].n
<1>1. req.wire \in Seq(Tokens) /\ pos \in Nat
  BY WireType DEF UploadInv, HttpTypeOK
<1> DEFINE more == [i \in 1 .. n |-> req.wire[pos + i].n]
<1>2. \A i \in 1 .. n : req.wire[pos + i] \in Tokens
  BY <1>1 DEF DataAhead
<1>3. \A i \in 1 .. n : req.wire[pos + i].n \in Int
  BY <1>2 DEF Tokens
<1>4. more \in [1 .. n -> Int] /\ \A i \in 1 .. n : more[i] = req.wire[pos + i].n
  BY <1>3
<1>5. data' = data \o more
  BY DEF Collect
<1> HIDE DEF more
<1>6. more \in Seq(Int) /\ Len(more) = n
  BY <1>4, SeqDef
<1> QED
  BY <1>4, <1>5, <1>6

LEMMA CollectType ==
  ASSUME UploadInv, NEW n \in Nat, DataAhead(n), Collect(n)
  PROVE  data' \in Seq(Int) /\ Len(data') = Len(data) + n /\ pos + n <= Len(req.wire)
<1>1. PICK more \in Seq(Int) : Len(more) = n /\ data' = data \o more
  BY CollectMore
<1>2. data \in Seq(Int)
  BY DEF UploadInv
<1>3. data' \in Seq(Int) /\ Len(data') = Len(data) + n
  BY <1>1, <1>2, ConcatProperties
<1> QED
  BY <1>3 DEF DataAhead

LEMMA ArriveUpload ==
  ASSUME UploadInv, NEW q \in Sent, Arrive(q)
  PROVE  UploadInv'
<1>1. /\ req' = q /\ code' = Admission(q) /\ pos' = 0 /\ remaining' = 0
      /\ finished' = FALSE /\ data' = <<>>
      /\ phase' = IF code' = 0 /\ ParseS3Request(q.target) = "PutObject" THEN "body" ELSE "done"
  BY DEF Arrive
<1>2. code' \in {0, 400, 403, 501} /\ (code' = 0 => VerifySigV4(q))
  BY <1>1 DEF Admission
<1>3. Len(q.wire) \in Nat /\ q.ending \in {"end", "lost"}
  BY SentAssumption
<1>4. Len(data') = 0 /\ data' \in Seq(Int)
  BY <1>1
<1>5. HttpTypeOK'
  <2>1. req' \in Sent \cup {NoRequest} /\ phase' \in {"idle", "body", "put", "done", "aborted"}
    BY <1>1
  <2>2. pos' \in 0 .. Len(req'.wire) /\ remaining' \in Nat /\ Len(data') <= pos'
    BY <1>1, <1>3, <1>4
  <2>3. finished' \in BOOLEAN
    BY <1>1, Zenon
  <2> QED
    BY <1>2, <2>1, <2>2, <2>3 DEF HttpTypeOK
<1> QED
  BY <1>1, <1>2, <1>3, <1>4, <1>5 DEF UploadInv, AcceptedPut

\* A Read that collects data and goes on.
LEMMA ReadMore ==
  ASSUME UploadInv, phase = "body", UNCHANGED <<obj, req, phase, code, finished>>,
         data' \in Seq(Int), pos' \in 0 .. Len(req.wire), remaining' \in Nat,
         Len(data') <= pos'
  PROVE  UploadInv'
<1>1. HttpTypeOK'
  BY DEF UploadInv, HttpTypeOK
<1> QED
  BY <1>1 DEF UploadInv

\* A Read after which the body is complete, or has failed.
LEMMA ReadEnds ==
  ASSUME UploadInv, phase = "body", BodyComplete \/ BodyFails,
         UNCHANGED <<obj, req>>, finished' \in BOOLEAN,
         data' \in Seq(Int), pos' \in 0 .. Len(req.wire), remaining' \in Nat,
         Len(data') <= pos',
         BodyComplete => /\ req.ending = "end" \/ finished'
                         /\ BodyReader(req) = "hash" => data' = req.payload.body
  PROVE  UploadInv'
<1>1. CASE BodyComplete
  <2>1. phase' = "put" /\ code' = 0
    BY <1>1 DEF BodyComplete, UploadInv
  <2>2. HttpTypeOK'
    BY <2>1 DEF UploadInv, HttpTypeOK
  <2> QED
    BY <1>1, <2>1, <2>2 DEF UploadInv
<1>2. CASE BodyFails
  <2>1. phase' = "done" /\ code' = 500
    BY <1>2 DEF BodyFails
  <2>2. HttpTypeOK'
    BY <2>1 DEF UploadInv, HttpTypeOK
  <2> QED
    BY <2>1, <2>2 DEF UploadInv
<1> QED
  BY <1>1, <1>2

\* The end of the wire completes the body only where the message ended.
LEMMA EndOfWireOutcome ==
  ASSUME UploadInv, phase = "body", EndOfWire
  PROVE  /\ BodyComplete \/ BodyFails
         /\ BodyComplete => req.ending = "end"
<1>1. req.ending \in {"end", "lost"}
  BY DEF UploadInv
<1>2. ~(BodyComplete /\ BodyFails)
  BY DEF BodyComplete, BodyFails
<1> QED
  BY <1>1, <1>2 DEF EndOfWire

LEMMA ChunkedUpload ==
  ASSUME UploadInv,
         \/ ReadChunkHeader \/ ReadLastChunk \/ ReadNegativeSize \/ ReadBadHeader
         \/ \E n \in 1 .. Len(req.wire) : ReadChunkData(n)
         \/ ReadChunkEnd \/ ReadChunkCut \/ ReadPastChunks
  PROVE  UploadInv'
<1>1. /\ req.wire \in Seq(Tokens) /\ Len(req.wire) \in Nat
      /\ pos \in 0 .. Len(req.wire) /\ remaining \in Nat /\ finished \in BOOLEAN
      /\ data \in Seq(Int) /\ Len(data) \in Nat /\ Len(data) <= pos
  BY WireType DEF UploadInv, HttpTypeOK
<1>2. AtHeader => /\ phase = "body" /\ BodyReader(req) = "chunked"
                  /\ pos + 1 \in 0 .. Len(req.wire) /\ Len(data) <= pos + 1
                  /\ Upcoming.n \in Int
  <2> SUFFICES ASSUME AtHeader
               PROVE  /\ phase = "body" /\ BodyReader(req) = "chunked"
                      /\ pos + 1 \in 0 .. Len(req.wire) /\ Len(data) <= pos + 1
                      /\ Upcoming.n \in Int
    OBVIOUS
  <2>1. phase = "body" /\ BodyReader(req) = "chunked" /\ pos # Len(req.wire)
    BY DEF AtHeader, Reading, AtEnd
  <2>2. pos + 1 \in 1 .. Len(req.wire) /\ Len(data) <= pos + 1
    BY <1>1, <2>1
  <2>3. req.wire[pos + 1] \in Tokens
    BY <1>1, <2>2
  <2> QED
    BY <2>1, <2>2, <2>3 DEF Upcoming, Tokens
<1>3. CASE ReadChunkHeader
  <2>1. /\ pos' = pos + 1 /\ remaining' \in Nat
        /\ UNCHANGED <<obj, req, phase, code, finished, data>>
    BY <1>2, <1>3 DEF ReadChunkHeader
  <2> QED
    BY <1>1, <1>2, <1>3, <2>1, ReadMore DEF ReadChunkHeader
<1>4. CASE ReadLastChunk
  <2>1. finished'
    BY <1>4 DEF ReadLastChunk
  <2>2. finished' \in BOOLEAN
    BY <1>4, Zenon DEF ReadLastChunk
  <2>3. BodyComplete /\ pos' = pos + 1 /\ UNCHANGED <<obj, req, remaining, data>>
    BY <1>4 DEF ReadLastChunk
  <2> QED
    BY <1>1, <1>2, <1>4, <2>1, <2>2, <2>3, ReadEnds DEF ReadLastChunk
<1>5. CASE ReadNegativeSize
  <2>1. phase = "body" /\ phase' = "aborted"
        /\ UNCHANGED <<obj, req, code, pos, remaining, finished, data>>
    BY <1>2, <1>5 DEF ReadNegativeSize
  <2>2. HttpTypeOK'
    BY <2>1 DEF UploadInv, HttpTypeOK
  <2> QED
    BY <2>1, <2>2 DEF UploadInv
<1>6. CASE ReadBadHeader
  <2>1. BodyFails /\ UNCHANGED <<obj, req, pos, remaining, finished, data>>
    BY <1>6 DEF ReadBadHeader
  <2>2. ~BodyComplete
    BY <2>1 DEF BodyFails, BodyComplete
  <2> QED
    BY <1>1, <1>2, <1>6, <2>1, <2>2, ReadEnds DEF ReadBadHeader
<1>7. ASSUME NEW n \in 1 .. Len(req.wire), ReadChunkData(n) PROVE UploadInv'
  <2>1. /\ phase = "body" /\ n < remaining /\ DataAhead(n) /\ Collect(n)
        /\ pos' = pos + n /\ remaining' = remaining - n
        /\ UNCHANGED <<obj, req, phase, code, finished>>
    BY <1>7 DEF ReadChunkData, Reading
  <2>2. data' \in Seq(Int) /\ Len(data') = Len(data) + n /\ pos + n <= Len(req.wire)
    BY <2>1, CollectType
  <2> QED
    BY <1>1, <2>1, <2>2, ReadMore
<1>8. CASE ReadChunkEnd
  <2>1. /\ phase = "body" /\ DataAhead(remaining) /\ Collect(remaining)
        /\ pos + remaining < Len(req.wire)
        /\ pos' = pos + remaining + 1 /\ remaining' = 0
        /\ UNCHANGED <<obj, req, phase, code, finished>>
    BY <1>8 DEF ReadChunkEnd, Reading
  <2>2. data' \in Seq(Int) /\ Len(data') = Len(data) + remaining
    BY <1>1, <2>1, CollectType
  <2> QED
    BY <1>1, <2>1, <2>2, ReadMore
<1>9. CASE ReadChunkCut
  <2>1. /\ phase = "body" /\ BodyReader(req) = "chunked"
        /\ DataAhead(remaining) /\ Collect(remaining)
        /\ pos + remaining = Len(req.wire)
        /\ pos' = Len(req.wire) /\ remaining' = 0
        /\ EndOfWire \/ BodyFails
        /\ UNCHANGED <<obj, req, finished>>
    BY <1>9 DEF ReadChunkCut, Reading
  <2>2. data' \in Seq(Int) /\ Len(data') = Len(data) + remaining
    BY <1>1, <2>1, CollectType
  <2>3. BodyComplete \/ BodyFails
    BY <2>1, EndOfWireOutcome
  <2>4. BodyComplete => req.ending = "end"
    <3>1. ~(BodyComplete /\ BodyFails)
      BY DEF BodyComplete, BodyFails
    <3> QED
      BY <2>1, <3>1, EndOfWireOutcome
  <2> QED
    BY <1>1, <2>1, <2>2, <2>3, <2>4, ReadEnds
<1>10. CASE ReadPastChunks
  <2>1. /\ phase = "body" /\ BodyReader(req) = "chunked" /\ EndOfWire
        /\ UNCHANGED <<obj, req, pos, remaining, finished, data>>
    BY <1>10 DEF ReadPastChunks, Reading
  <2> QED
    BY <1>1, <2>1, EndOfWireOutcome, ReadEnds
<1> QED
  BY <1>3, <1>4, <1>5, <1>6, <1>7, <1>8, <1>9, <1>10

LEMMA PlainUpload ==
  ASSUME UploadInv,
         (\E n \in 1 .. Len(req.wire) : ReadPlain(n)) \/ ReadPlainEnd \/ ReadHashEnd
  PROVE  UploadInv'
<1>1. /\ Len(req.wire) \in Nat
      /\ pos \in 0 .. Len(req.wire) /\ remaining \in Nat /\ finished \in BOOLEAN
      /\ data \in Seq(Int) /\ Len(data) \in Nat /\ Len(data) <= pos
  BY WireType DEF UploadInv, HttpTypeOK
<1>2. ASSUME NEW n \in 1 .. Len(req.wire), ReadPlain(n) PROVE UploadInv'
  <2>1. /\ phase = "body" /\ DataAhead(n) /\ Collect(n) /\ pos' = pos + n
        /\ UNCHANGED <<obj, req, phase, code, remaining, finished>>
    BY <1>2 DEF ReadPlain, Reading
  <2>2. data' \in Seq(Int) /\ Len(data') = Len(data) + n /\ pos + n <= Len(req.wire)
    BY <2>1, CollectType
  <2> QED
    BY <1>1, <2>1, <2>2, ReadMore
<1>3. CASE ReadPlainEnd
  <2>1. /\ phase = "body" /\ BodyReader(req) = "plain" /\ EndOfWire
        /\ UNCHANGED <<obj, req, pos, remaining, finished, data>>
    BY <1>3 DEF ReadPlainEnd, Reading
  <2> QED
    BY <1>1, <2>1, EndOfWireOutcome, ReadEnds
<1>4. CASE ReadHashEnd
  <2>1. /\ phase = "body"
        /\ IF data = req.payload.body THEN EndOfWire ELSE BodyFails
        /\ UNCHANGED <<obj, req, pos, remaining, finished, data>>
    BY <1>4 DEF ReadHashEnd, Reading
  <2>2. CASE data = req.payload.body
    BY <1>1, <2>1, <2>2, EndOfWireOutcome, ReadEnds
  <2>3. CASE data # req.payload.body
    <3>1. BodyFails /\ ~BodyComplete
      BY <2>1, <2>3 DEF BodyFails, BodyComplete
    <3> QED
      BY <1>1, <2>1, <3>1, ReadEnds
  <2> QED
    BY <2>2, <2>3
<1> QED
  BY <1>2, <1>3, <1>4

LEMMA StoreUpload ==
  ASSUME UploadInv, Store \/ StoreRefuses
  PROVE  UploadInv'
<1>1. /\ phase = "put" /\ phase' = "done" /\ code' \in {200, 500}
      /\ code' = 200 => obj' = data
      /\ UNCHANGED <<req, pos, remaining, finished, data>>
  BY DEF Store, StoreRefuses
<1>2. HttpTypeOK'
  BY <1>1 DEF UploadInv, HttpTypeOK
<1> QED
  BY <1>1, <1>2 DEF UploadInv

\* A download leaves the object and the upload alone.
LEMMA DownloadUpload ==
  ASSUME UploadInv, Download, UNCHANGED upVars
  PROVE  UploadInv'
<1>1. UNCHANGED obj
  BY DEF Download, Request, Serve, HeadMissing, HeadResolves, GetAnswers,
         GetUnsatisfiable, StoreFails, StreamBreaks
<1>2. HttpTypeOK'
  BY DEF UploadInv, HttpTypeOK, upVars
<1> QED
  BY <1>1, <1>2 DEF UploadInv, upVars

LEMMA NextUpload == UploadInv /\ [HttpNext]_allVars => UploadInv'
<1> SUFFICES ASSUME UploadInv, [HttpNext]_allVars PROVE UploadInv'
  OBVIOUS
<1>1. CASE Upload
  BY <1>1, ArriveUpload, ChunkedUpload, PlainUpload, StoreUpload DEF Upload
<1>2. CASE Download /\ UNCHANGED upVars
  BY <1>2, DownloadUpload
<1>3. CASE UNCHANGED allVars
  <2>1. HttpTypeOK'
    BY <1>3 DEF UploadInv, HttpTypeOK, allVars, upVars
  <2> QED
    BY <1>3, <2>1 DEF UploadInv, allVars, upVars
<1> QED
  BY <1>1, <1>2, <1>3 DEF HttpNext

LEMMA UploadInvariant == HttpSpec => []UploadInv
<1>1. HttpInit => UploadInv
  BY InitUpload
<1>2. UploadInv /\ [HttpNext]_allVars => UploadInv'
  BY NextUpload
<1> QED
  BY <1>1, <1>2, PTL DEF HttpSpec

\* What is taken for a PutObject is a PUT of a bucket's key.
LEMMA PutTargets ==
  ASSUME NEW t \in Targets, ParseS3Request(t) = "PutObject"
  PROVE  t.method = "PUT" /\ t.bucket /\ t.key
<1>1. t.bucket /\ t.key /\ ObjectOp(t) = "PutObject"
  BY DEF ParseS3Request, ServiceOp, BucketOp
<1>2. t.method \in {"GET", "HEAD", "PUT", "POST", "DELETE"}
  BY DEF Targets, Methods
<1>3. t.method = "PUT"
  BY <1>1, <1>2 DEF ObjectOp
<1> QED
  BY <1>1, <1>3

\* Every variable of the upload stays in its domain, and no Read collects more
\* than it took from the wire, whatever the chunks and the sizes of the Reads.
THEOREM UploadTypeCorrect == HttpSpec => []HttpTypeOK
<1>1. UploadInv => HttpTypeOK
  BY DEF UploadInv
<1> QED
  BY <1>1, UploadInvariant, PTL

\* putBody: an upload whose connection was lost is never stored, for all bodies
\* and readers, unless the chunks had already come to their end.
THEOREM LostUploadsCorrect == HttpSpec => []LostUploadsAreNotStored
<1>1. UploadInv => LostUploadsAreNotStored
  BY DEF UploadInv, LostUploadsAreNotStored
<1> QED
  BY <1>1, UploadInvariant, PTL

LEMMA AcceptedSigned ==
  ASSUME NEW q, AcceptedPut(q)
  PROVE  LET s == q.auth.signature IN
         /\ s.secret = SecretKey
         /\ s.of.request.method = "PUT" /\ s.of.request.path = <<TRUE, TRUE>>
         /\ Now - s.of.date.at \in -MaxClockSkew .. MaxClockSkew
         /\ q.payload.kind = "hash" => q.payload.body = q.meant
<1> DEFINE s == q.auth.signature
<1>1. q \in Sent /\ s = Sign(SecretKey, StringToSign(q))
      /\ Now - q.date.at \in -MaxClockSkew .. MaxClockSkew
  BY DEF AcceptedPut, VerifySigV4
<1>2. s.secret = SecretKey /\ s.of = StringToSign(q)
  BY <1>1 DEF Sign
<1>3. s.of.date = q.date /\ s.of.request = CanonicalRequest(q)
  BY <1>2 DEF StringToSign
<1>4. /\ CanonicalRequest(q).method = q.target.method
      /\ CanonicalRequest(q).path = <<q.target.bucket, q.target.key>>
      /\ CanonicalRequest(q).payload = PayloadHash(q)
  BY DEF CanonicalRequest
<1>5. q.target.method = "PUT" /\ q.target.bucket /\ q.target.key /\ q.target \in Targets
  BY <1>1, PutTargets, SentAssumption DEF AcceptedPut
<1>6. q.target.bucket = TRUE /\ q.target.key = TRUE
  <2>1. q.target.bucket \in BOOLEAN /\ q.target.key \in BOOLEAN
    BY <1>5 DEF Targets
  <2> QED
    BY <1>5, <2>1, Zenon
<1>7. s.of.request.path = <<TRUE, TRUE>>
  <2>1. s.of.request.path = <<q.target.bucket, q.target.key>>
    BY <1>3, <1>4
  <2> QED
    BY <1>6, <2>1, Zenon
<1>8. ASSUME q.payload.kind = "hash" PROVE q.payload.body = q.meant
  <2>1. s.of.request.payload = q.payload
    BY <1>3, <1>4, <1>8 DEF PayloadHash
  <2> QED
    BY <1>1, <1>2, <1>8, <2>1, HonestAssumption
<1> QED
  BY <1>1, <1>2, <1>3, <1>4, <1>5, <1>7, <1>8

\* sigv4Middleware: for any requests, clock and skew, a PUT that succeeds was
\* signed with the secret and stores the body whose hash was signed.
THEOREM StoredSignedCorrect == HttpSpec => []StoredIsAsSigned
<1>1. ASSUME UploadInv, phase = "put" \/ code = 200
      PROVE  /\ LET s == req.auth.signature IN
                /\ s.secret = SecretKey
                /\ s.of.request.method = "PUT" /\ s.of.request.path = <<TRUE, TRUE>>
                /\ Now - s.of.date.at \in -MaxClockSkew .. MaxClockSkew
             /\ req.payload.kind = "hash" => data = req.meant
             /\ code = 200 => obj = data
  <2>1. AcceptedPut(req)
    BY <1>1 DEF UploadInv
  <2>2. req.payload.kind = "hash" => data = req.payload.body
    <3>1. req.payload.kind = "hash" => BodyReader(req) = "hash"
      BY DEF BodyReader
    <3> QED
      BY <1>1, <3>1 DEF UploadInv
  <2>3. code = 200 => obj = data
    BY <1>1 DEF UploadInv
  <2> QED
    BY <2>1, <2>2, <2>3, AcceptedSigned
<1>2. UploadInv => StoredIsAsSigned
  BY <1>1 DEF StoredIsAsSigned
<1> QED
  BY <1>2, UploadInvariant, PTL

\* Every row of the S3 API that the gateway has an operation for is routed to it.
LEMMA RoutingFollowsS3 ==
  ASSUME NEW row \in S3Api, row.name # "-"
  PROVE  ParseS3Request(TargetOf(row)) = row.name
<1> DEFINE Right(r) == ParseS3Request(TargetOf(r)) = r.name
<1>1. Right(Row("ListBuckets", "GET", FALSE, {}, FALSE))
  BY DEF Row, TargetOf, ParseS3Request, ServiceOp
<1>2. ASSUME NEW p \in BucketMetaParams PROVE Right(Row("BucketMeta", "GET", FALSE, {p}, FALSE))
  BY DEF Row, TargetOf, ParseS3Request, BucketOp, BucketMetaParams
<1> USE DEF Row, TargetOf, ParseS3Request, BucketOp, BucketMetaParams, ObjectOp
<1>3. Right(Row("CreateBucket", "PUT", FALSE, {}, FALSE))
  OBVIOUS
<1>4. Right(Row("HeadBucket", "HEAD", FALSE, {}, FALSE))
  OBVIOUS
<1>5. Right(Row("BucketLocation", "GET", FALSE, {"location"}, FALSE))
  OBVIOUS
<1>6. Right(Row("ListMultipartUploads", "GET", FALSE, {"uploads"}, FALSE))
  OBVIOUS
<1>7. Right(Row("ListObjectsV2", "GET", FALSE, {}, FALSE))
  OBVIOUS
<1>8. Right(Row("GetObject", "GET", TRUE, {}, FALSE))
  OBVIOUS
<1>9. Right(Row("HeadObject", "HEAD", TRUE, {}, FALSE))
  OBVIOUS
<1>10. Right(Row("PutObject", "PUT", TRUE, {}, FALSE))
  OBVIOUS
<1>11. Right(Row("CopyObject", "PUT", TRUE, {}, TRUE))
  OBVIOUS
<1>12. Right(Row("CreateMultipartUpload", "POST", TRUE, {"uploads"}, FALSE))
  OBVIOUS
<1>13. Right(Row("UploadPart", "PUT", TRUE, {"partNumber", "uploadId"}, FALSE))
  OBVIOUS
<1>14. Right(Row("CompleteMultipartUpload", "POST", TRUE, {"uploadId"}, FALSE))
  OBVIOUS
<1>15. Right(Row("AbortMultipartUpload", "DELETE", TRUE, {"uploadId"}, FALSE))
  OBVIOUS
<1>16. Right(Row("ListParts", "GET", TRUE, {"uploadId"}, FALSE))
  OBVIOUS
<1> HIDE DEF Row, TargetOf, ParseS3Request, BucketOp, BucketMetaParams, ObjectOp, Right
<1>17. \/ row \in {Row("ListBuckets", "GET", FALSE, {}, FALSE),
                   Row("CreateBucket", "PUT", FALSE, {}, FALSE),
                   Row("HeadBucket", "HEAD", FALSE, {}, FALSE),
                   Row("BucketLocation", "GET", FALSE, {"location"}, FALSE),
                   Row("ListMultipartUploads", "GET", FALSE, {"uploads"}, FALSE),
                   Row("ListObjectsV2", "GET", FALSE, {}, FALSE),
                   Row("GetObject", "GET", TRUE, {}, FALSE),
                   Row("HeadObject", "HEAD", TRUE, {}, FALSE),
                   Row("PutObject", "PUT", TRUE, {}, FALSE),
                   Row("CopyObject", "PUT", TRUE, {}, TRUE),
                   Row("CreateMultipartUpload", "POST", TRUE, {"uploads"}, FALSE),
                   Row("UploadPart", "PUT", TRUE, {"partNumber", "uploadId"}, FALSE),
                   Row("CompleteMultipartUpload", "POST", TRUE, {"uploadId"}, FALSE),
                   Row("AbortMultipartUpload", "DELETE", TRUE, {"uploadId"}, FALSE),
                   Row("ListParts", "GET", TRUE, {"uploadId"}, FALSE)}
      \/ \E p \in BucketMetaParams : row = Row("BucketMeta", "GET", FALSE, {p}, FALSE)
  BY DEF S3Api, Row
<1>18. Right(row)
  BY <1>1, <1>2, <1>3, <1>4, <1>5, <1>6, <1>7, <1>8, <1>9, <1>10, <1>11, <1>12, <1>13, <1>14, <1>15, <1>16, <1>17
<1> QED
  BY <1>18 DEF Right

LEMMA RoutingCorrect ==
  ASSUME NEW q, S3Target(q), S3Name(q) # "-"
  PROVE  ParseS3Request(q) = S3Name(q)
<1> DEFINE row == CHOOSE r \in S3Api : TargetOf(r) = q
<1>1. row \in S3Api /\ TargetOf(row) = q
  BY DEF S3Target
<1> QED
  BY <1>1, RoutingFollowsS3 DEF S3Name

\* parseS3Request: a request of an operation the gateway has is taken for just
\* that operation, row by row of the S3 API's table.
THEOREM RoutingIsCorrect == HttpSpec => []RoutedAsS3Does
<1>1. RoutedAsS3Does
  BY RoutingCorrect DEF RoutedAsS3Does
<1> QED
  BY <1>1, PTL

-----------------------------------------------------------------------------
(* What the readers made of the body so far.                               *)

\* awsChunkedReader: the data before its position, and it knows where it is.
ChunkedInv ==
  BodyReader(req) = "chunked" =>
    /\ req \in Sent
    /\ Len(data) = DataBefore(req.wire, pos) /\ Len(data) <= Len(req.meant)
    /\ data = SubSeq(req.meant, 1, Len(data))
    /\ remaining > 0 => InChunk(req.wire, pos, remaining)

\* The other readers: just what the wire carries.
PlainInv ==
  BodyReader(req) # "chunked" =>
    /\ Len(data) = pos
    /\ \A i \in 1 .. pos : data[i] = req.wire[i].n
    /\ phase = "put" => req \in Sent /\ pos = Len(req.wire)

\* An upload that arrives as sent always has a chunk ahead, until it has all.
IntactInv ==
  req.intact =>
    /\ req \in Sent /\ phase \in {"body", "put", "done"}
    /\ phase = "body" /\ BodyReader(req) = "chunked" =>
         HeaderNext(req.wire, IF remaining > 0 THEN pos + remaining + 1 ELSE pos)
    /\ phase # "body" /\ code \in {0, 200, 500} => data = req.meant

BodyInv == ChunkedInv /\ PlainInv /\ IntactInv

LEMMA ReadFacts ==
  ASSUME UploadInv
  PROVE  /\ req.wire \in Seq(Tokens) /\ Len(req.wire) \in Nat
         /\ pos \in Nat /\ pos <= Len(req.wire) /\ remaining \in Nat
         /\ data \in Seq(Int) /\ Len(data) \in Nat
         /\ \A i \in 1 .. Len(req.wire) : req.wire[i] \in Tokens
<1>1. req.wire \in Seq(Tokens) /\ data \in Seq(Int)
  BY WireType DEF UploadInv, HttpTypeOK
<1>2. pos \in 0 .. Len(req.wire) /\ remaining \in Nat
  BY DEF UploadInv, HttpTypeOK
<1> QED
  BY <1>1, <1>2

LEMMA SentFraming ==
  ASSUME ChunkedInv, BodyReader(req) = "chunked"
  PROVE  /\ req \in Sent /\ req.meant \in Seq(Int)
         /\ CarriesBody(req.wire, req.meant) /\ CountsItsChunks(req.wire)
<1>1. req \in Sent
  BY DEF ChunkedInv
<1>2. req.meant \in Seq(Int)
  BY <1>1, FramingAssumption
<1>3. CarriesBody(req.wire, req.meant)
  BY <1>1, FramingAssumption
<1>4. CountsItsChunks(req.wire)
  BY <1>1, FramingAssumption
<1> QED
  BY <1>1, <1>2, <1>3, <1>4

LEMMA InitBody == HttpInit => BodyInv
<1> SUFFICES ASSUME HttpInit PROVE BodyInv
  OBVIOUS
<1>1. req = NoRequest /\ data = <<>> /\ pos = 0 /\ phase = "idle"
  BY DEF HttpInit
<1>2. BodyReader(req) = "plain" /\ Len(data) = 0
  BY <1>1 DEF BodyReader, NoRequest, Unsigned
<1>3. ~req.intact
  BY <1>1 DEF NoRequest
<1> QED
  BY <1>1, <1>2, <1>3 DEF BodyInv, ChunkedInv, PlainInv, IntactInv

\* An upload begins with nothing read.
LEMMA ArriveBody ==
  ASSUME UploadInv, NEW q \in Sent, Arrive(q)
  PROVE  BodyInv'
<1>1. /\ req' = q /\ code' = Admission(q) /\ pos' = 0 /\ remaining' = 0 /\ data' = <<>>
      /\ phase' = IF code' = 0 /\ ParseS3Request(q.target) = "PutObject" THEN "body" ELSE "done"
  BY DEF Arrive
<1>2. Len(data') = 0 /\ DataBefore(q.wire, 0) = 0
  BY <1>1, DataBeforeNone
<1>3. ChunkedInv'
  <2> SUFFICES ASSUME BodyReader(q) = "chunked"
               PROVE  0 <= Len(q.meant) /\ <<>> = SubSeq(q.meant, 1, 0)
    BY <1>1, <1>2 DEF ChunkedInv
  <2>1. q.meant \in Seq(Int)
    BY FramingAssumption
  <2> QED
    BY <2>1, SubSeqEmpty
<1>4. PlainInv'
  BY <1>1, <1>2 DEF PlainInv
<1>5. IntactInv'
  <2> SUFFICES ASSUME q.intact
               PROVE  /\ phase' = "body" /\ BodyReader(q) = "chunked" => HeaderNext(q.wire, 0)
                      /\ ~(phase' # "body" /\ code' \in {0, 200, 500})
    BY <1>1 DEF IntactInv
  <2>1. ParseS3Request(q.target) = "PutObject"
    BY IntactAssumption, RoutingCorrect
  <2>2. code' \in {0, 400, 403, 501}
    BY <1>1 DEF Admission
  <2>3. BodyReader(q) = "chunked" => HeaderNext(q.wire, 0)
    BY IntactAssumption DEF IsWhole
  <2> QED
    BY <1>1, <2>1, <2>2, <2>3
<1> QED
  BY <1>3, <1>4, <1>5 DEF BodyInv

\* A Read that meets a chunk's header goes into its chunk, or ends the body.
LEMMA HeaderBody ==
  ASSUME UploadInv, BodyInv, ReadChunkHeader \/ ReadLastChunk
  PROVE  BodyInv'
<1>1. /\ phase = "body" /\ BodyReader(req) = "chunked" /\ remaining = 0
      /\ pos # Len(req.wire) /\ req.wire[pos + 1].kind = "header"
      /\ pos' = pos + 1 /\ remaining' = req.wire[pos + 1].n
      /\ UNCHANGED <<req, data>>
  BY DEF ReadChunkHeader, ReadLastChunk, AtHeader, AtEnd, Upcoming, Reading
<1>2. pos \in Nat /\ pos + 1 \in DOMAIN req.wire /\ Len(data) \in Nat /\ data \in Seq(Int)
  BY <1>1, ReadFacts
<1>3. DataBefore(req.wire, pos') = Len(data)
  BY <1>1, <1>2, DataBeforeFraming DEF BodyInv, ChunkedInv
<1>4. ChunkedInv'
  <2>1. req.wire[pos + 1].n > 0 => InChunk(req.wire, pos + 1, req.wire[pos + 1].n)
    BY <1>1, <1>2, SentFraming DEF BodyInv, CountsItsChunks
  <2> QED
    BY <1>1, <1>3, <2>1 DEF BodyInv, ChunkedInv
<1>5. PlainInv'
  BY <1>1 DEF PlainInv
<1>6. IntactInv'
  <2> SUFFICES ASSUME req.intact PROVE IntactInv'
    BY <1>1 DEF IntactInv
  <2>1. req \in Sent /\ IsWhole(req.wire, req.meant) /\ req.meant \in Seq(Int)
    BY <1>1, IntactAssumption, FramingAssumption DEF BodyInv, ChunkedInv
  <2>2. IF req.wire[pos + 1].n = 0 THEN DataBefore(req.wire, pos + 1) = Len(req.meant)
        ELSE req.wire[pos + 1].n > 0 /\ HeaderNext(req.wire, pos + 1 + req.wire[pos + 1].n + 1)
    BY <1>1, <1>2, <2>1 DEF IsWhole
  <2>3. CASE ReadChunkHeader
    <3>1. phase' = "body" /\ req.wire[pos + 1].n > 0
      BY <1>1, <2>3 DEF ReadChunkHeader, Upcoming
    <3> QED
      BY <1>1, <2>1, <2>2, <3>1 DEF IntactInv
  <2>4. CASE ReadLastChunk
    <3>1. phase' = "put" /\ req.wire[pos + 1].n = 0
      BY <2>4 DEF ReadLastChunk, Upcoming, BodyComplete
    <3>2. Len(data) = Len(req.meant)
      BY <1>1, <1>3, <2>2, <3>1
    <3>3. data = req.meant
      BY <1>1, <2>1, <3>2, SubSeqFull DEF BodyInv, ChunkedInv
    <3> QED
      BY <1>1, <2>1, <3>1, <3>3 DEF IntactInv
  <2> QED
    BY <2>3, <2>4
<1> QED
  BY <1>4, <1>5, <1>6 DEF BodyInv

\* Reads inside a chunk, and those that end it, collect the body's next units.
LEMMA ChunkBody ==
  ASSUME UploadInv, BodyInv,
         \/ \E n \in 1 .. Len(req.wire) : ReadChunkData(n)
         \/ ReadChunkEnd \/ ReadChunkCut
  PROVE  BodyInv'
<1>1. /\ phase = "body" /\ BodyReader(req) = "chunked" /\ remaining > 0 /\ req' = req
  BY ReadFacts DEF ReadChunkData, ReadChunkEnd, ReadChunkCut, Reading
<1>2. /\ req \in Sent /\ InChunk(req.wire, pos, remaining)
      /\ Len(data) = DataBefore(req.wire, pos) /\ Len(data) <= Len(req.meant)
      /\ data = SubSeq(req.meant, 1, Len(data))
  BY <1>1 DEF BodyInv, ChunkedInv
<1>3. PlainInv'
  BY <1>1 DEF PlainInv
<1>4. ASSUME NEW n \in Nat, DataAhead(n), Collect(n)
      PROVE  /\ Len(data') = DataBefore(req.wire, pos + n) /\ Len(data') <= Len(req.meant)
             /\ data' = SubSeq(req.meant, 1, Len(data'))
  <2>1. /\ pos \in 0 .. Len(req.wire) /\ req.wire \in Seq(Tokens) /\ pos + n <= Len(req.wire)
        /\ \A i \in 1 .. n : req.wire[pos + i].kind = "data"
    BY <1>4, ReadFacts DEF DataAhead
  <2>2. req.meant \in Seq(Int) /\ CarriesBody(req.wire, req.meant)
    BY <1>1, SentFraming DEF BodyInv
  <2>3. PICK more \in Seq(Int) : Len(more) = n /\ data' = data \o more
                                  /\ \A i \in 1 .. n : more[i] = req.wire[pos + i].n
    BY <1>4, CollectMore
  <2> QED
    BY <1>2, <2>1, <2>2, <2>3, RunExtendsPrefix
<1>5. req.intact => HeaderNext(req.wire, pos + remaining + 1) /\ req \in Sent
  BY <1>1 DEF BodyInv, IntactInv
<1>6. ASSUME NEW n \in 1 .. Len(req.wire), ReadChunkData(n) PROVE BodyInv'
  <2>1. /\ n \in Nat /\ n < remaining /\ DataAhead(n) /\ Collect(n)
        /\ pos' = pos + n /\ remaining' = remaining - n /\ phase' = "body"
    BY <1>1, <1>6, ReadFacts DEF ReadChunkData
  <2>2. InChunk(req.wire, pos + n, remaining - n)
    <3>1. pos \in Nat /\ remaining \in Nat /\ Len(req.wire) \in Nat
      BY ReadFacts
    <3>2. \A j \in 1 .. remaining - n : n + j \in 1 .. remaining /\ pos + (n + j) = (pos + n) + j
      BY <2>1, <3>1
    <3>3. (pos + n) + (remaining - n) = pos + remaining
      BY <2>1, <3>1
    <3> QED
      BY <1>2, <3>2, <3>3 DEF InChunk
  <2>3. ChunkedInv'
    BY <1>1, <1>2, <1>4, <2>1, <2>2 DEF ChunkedInv
  <2>4. (pos + n) + (remaining - n) + 1 = pos + remaining + 1 /\ remaining - n > 0
    <3>1. pos \in Nat /\ remaining \in Nat
      BY ReadFacts
    <3> QED
      BY <2>1, <3>1
  <2>5. IntactInv'
    BY <1>1, <1>5, <2>1, <2>4 DEF IntactInv
  <2> QED
    BY <1>3, <2>3, <2>5 DEF BodyInv
<1>7. CASE ReadChunkEnd
  <2>1. /\ DataAhead(remaining) /\ Collect(remaining) /\ pos + remaining < Len(req.wire)
        /\ pos' = pos + remaining + 1 /\ remaining' = 0 /\ phase' = "body"
    BY <1>1, <1>7 DEF ReadChunkEnd
  <2>2. req.wire[pos + remaining + 1].kind # "data"
    BY <1>2, <2>1 DEF InChunk, LineEnd, Token
  <2>3. DataBefore(req.wire, pos') = DataBefore(req.wire, pos + remaining)
    <3>1. pos + remaining \in Nat
      BY ReadFacts
    <3> QED
      BY <2>1, <2>2, <3>1, DataBeforeFraming
  <2>4. remaining \in Nat
    BY ReadFacts
  <2>5. ChunkedInv'
    BY <1>1, <1>2, <1>4, <2>1, <2>3, <2>4 DEF ChunkedInv
  <2>6. IntactInv'
    BY <1>1, <1>5, <2>1 DEF IntactInv
  <2> QED
    BY <1>3, <2>5, <2>6 DEF BodyInv
<1>8. CASE ReadChunkCut
  <2>1. /\ DataAhead(remaining) /\ Collect(remaining) /\ pos + remaining = Len(req.wire)
        /\ pos' = pos + remaining /\ remaining' = 0
    BY <1>8 DEF ReadChunkCut
  <2>2. remaining \in Nat /\ pos \in Nat
    BY ReadFacts
  <2>3. ChunkedInv'
    BY <1>1, <1>2, <1>4, <2>1, <2>2 DEF ChunkedInv
  <2>4. ~req.intact
    BY <1>5, <2>1, <2>2 DEF HeaderNext
  <2>5. IntactInv'
    BY <1>1, <2>4 DEF IntactInv
  <2> QED
    BY <1>3, <2>3, <2>5 DEF BodyInv
<1> QED
  BY <1>6, <1>7, <1>8

\* Chunked Reads that fail or meet the end of the wire: no intact upload gets there.
LEMMA ChunkFailsBody ==
  ASSUME UploadInv, BodyInv, ReadNegativeSize \/ ReadBadHeader \/ ReadPastChunks
  PROVE  BodyInv'
<1>1. /\ phase = "body" /\ BodyReader(req) = "chunked"
      /\ UNCHANGED <<req, data, pos, remaining>>
  BY DEF ReadNegativeSize, ReadBadHeader, ReadPastChunks, AtHeader, Reading
<1>2. pos \in Nat /\ remaining \in Nat /\ Len(req.wire) \in Nat
  BY ReadFacts
<1>3. ~req.intact
  <2> SUFFICES ASSUME req.intact PROVE FALSE
    OBVIOUS
  <2>1. /\ HeaderNext(req.wire, IF remaining > 0 THEN pos + remaining + 1 ELSE pos)
        /\ IsWhole(req.wire, req.meant)
    BY <1>1, IntactAssumption DEF BodyInv, IntactInv
  <2>2. CASE ReadNegativeSize
    <3>1. /\ remaining = 0 /\ pos # Len(req.wire)
          /\ req.wire[pos + 1].kind = "header" /\ req.wire[pos + 1].n < 0
      BY <2>2 DEF ReadNegativeSize, AtHeader, AtEnd, Upcoming
    <3>2. pos + 1 \in DOMAIN req.wire /\ req.wire[pos + 1].n \in Int
      BY <3>1, ReadFacts DEF Tokens
    <3> QED
      BY <2>1, <3>1, <3>2 DEF IsWhole
  <2>3. CASE ReadBadHeader
    <3>1. remaining = 0 /\ req.wire[pos + 1].kind # "header"
      BY <2>3 DEF ReadBadHeader, AtHeader, Upcoming
    <3> QED
      BY <2>1, <3>1 DEF HeaderNext
  <2>4. CASE ReadPastChunks
    <3>1. pos = Len(req.wire)
      BY <2>4 DEF ReadPastChunks, AtEnd
    <3> QED
      BY <1>2, <2>1, <3>1 DEF HeaderNext
  <2> QED
    BY <2>2, <2>3, <2>4
<1>4. ChunkedInv' /\ PlainInv'
  BY <1>1 DEF BodyInv, ChunkedInv, PlainInv
<1>5. IntactInv'
  BY <1>1, <1>3 DEF IntactInv
<1> QED
  BY <1>4, <1>5 DEF BodyInv

\* The other readers hand on what they read, to the end of the wire.
LEMMA PlainBody ==
  ASSUME UploadInv, BodyInv,
         (\E n \in 1 .. Len(req.wire) : ReadPlain(n)) \/ ReadPlainEnd \/ ReadHashEnd
  PROVE  BodyInv'
<1>1. phase = "body" /\ BodyReader(req) # "chunked" /\ req' = req /\ AcceptedPut(req)
  BY DEF ReadPlain, ReadPlainEnd, ReadHashEnd, Reading, UploadInv
<1>2. /\ Len(data) = pos /\ \A i \in 1 .. pos : data[i] = req.wire[i].n
      /\ req \in Sent
  BY <1>1 DEF BodyInv, PlainInv, AcceptedPut
<1>3. ChunkedInv'
  BY <1>1 DEF ChunkedInv
<1>4. ASSUME NEW n \in 1 .. Len(req.wire), ReadPlain(n) PROVE BodyInv'
  <2>1. n \in Nat /\ DataAhead(n) /\ Collect(n) /\ pos' = pos + n /\ phase' = "body"
    BY <1>1, <1>4 DEF ReadPlain
  <2>2. PICK more \in Seq(Int) : Len(more) = n /\ data' = data \o more
                                  /\ \A i \in 1 .. n : more[i] = req.wire[pos + i].n
    BY <2>1, CollectMore
  <2>3. data \in Seq(Int) /\ pos \in Nat
    BY ReadFacts
  <2>4. /\ Len(data') = pos + n
        /\ \A i \in 1 .. pos + n : data'[i] = IF i <= pos THEN data[i] ELSE more[i - pos]
    <3>1. /\ Len(data \o more) = Len(data) + Len(more)
          /\ \A i \in 1 .. Len(data) + Len(more) :
               (data \o more)[i] = IF i <= Len(data) THEN data[i] ELSE more[i - Len(data)]
      BY <2>2, <2>3, ConcatProperties
    <3> QED
      BY <1>2, <2>2, <3>1
  <2>5. \A i \in 1 .. pos + n : data'[i] = req.wire[i].n
    <3> TAKE i \in 1 .. pos + n
    <3>1. CASE i <= pos
      BY <1>2, <2>3, <2>4, <3>1
    <3>2. CASE ~(i <= pos)
      <4>1. i - pos \in 1 .. n /\ pos + (i - pos) = i
        BY <2>1, <2>3, <3>2
      <4> QED
        BY <2>2, <2>4, <3>2, <4>1
    <3> QED
      BY <3>1, <3>2
  <2>6. PlainInv'
    BY <1>1, <2>1, <2>4, <2>5 DEF PlainInv
  <2>7. IntactInv'
    BY <1>1, <2>1 DEF BodyInv, IntactInv
  <2> QED
    BY <1>3, <2>6, <2>7 DEF BodyInv
<1>5. CASE ReadPlainEnd \/ ReadHashEnd
  <2>1. /\ pos = Len(req.wire) /\ UNCHANGED <<data, pos, remaining>>
        /\ EndOfWire \/ BodyFails
    BY <1>5 DEF ReadPlainEnd, ReadHashEnd, AtEnd
  <2>2. phase' \in {"put", "done"}
    BY <2>1, EndOfWireOutcome, <1>1 DEF BodyComplete, BodyFails
  <2>3. PlainInv'
    BY <1>1, <1>2, <2>1 DEF PlainInv
  <2>4. ASSUME req.intact PROVE data = req.meant
    <3>1. req.wire = Bytes(req.meant) /\ req.meant \in Seq(Int)
      BY <1>1, <1>2, <2>4, IntactAssumption, FramingAssumption
    <3>2. /\ DOMAIN req.wire = DOMAIN req.meant
          /\ \A i \in DOMAIN req.meant : req.wire[i].n = req.meant[i]
      BY <3>1 DEF Bytes, Token
    <3>3. Len(req.wire) = Len(req.meant)
      BY <3>1, <3>2, ReadFacts
    <3>4. \A i \in 1 .. Len(data) : data[i] = req.meant[i]
      BY <1>2, <2>1, <3>1, <3>2, <3>3
    <3> QED
      BY <1>2, <2>1, <3>1, <3>3, <3>4, ReadFacts, SeqEqual
  <2>5. IntactInv'
    BY <1>1, <1>2, <2>1, <2>2, <2>4 DEF IntactInv
  <2> QED
    BY <1>3, <2>3, <2>5 DEF BodyInv
<1> QED
  BY <1>4, <1>5

LEMMA StoreBody ==
  ASSUME UploadInv, BodyInv, Store \/ StoreRefuses
  PROVE  BodyInv'
<1>1. /\ phase = "put" /\ code = 0 /\ phase' = "done"
      /\ UNCHANGED <<req, pos, remaining, data>>
  BY DEF Store, StoreRefuses, UploadInv
<1>2. ChunkedInv' /\ PlainInv'
  BY <1>1 DEF BodyInv, ChunkedInv, PlainInv
<1> QED
  BY <1>1, <1>2 DEF BodyInv, IntactInv

LEMMA BodyInvariant == HttpSpec => [](UploadInv /\ BodyInv)
<1>1. HttpInit => UploadInv /\ BodyInv
  BY InitUpload, InitBody
<1>2. UploadInv /\ BodyInv /\ [HttpNext]_allVars => UploadInv' /\ BodyInv'
  <2> SUFFICES ASSUME UploadInv, BodyInv, [HttpNext]_allVars PROVE UploadInv' /\ BodyInv'
    OBVIOUS
  <2>1. UploadInv'
    BY NextUpload
  <2>2. ASSUME Upload PROVE BodyInv'
    <3>1. ASSUME NEW n \in 1 .. Len(req.wire), ReadChunkData(n) \/ ReadPlain(n) PROVE BodyInv'
      BY <3>1, ChunkBody, PlainBody
    <3>2. ASSUME NEW q \in Sent, Arrive(q) PROVE BodyInv'
      BY <3>2, ArriveBody
    <3>3. CASE ReadChunkHeader \/ ReadLastChunk
      BY <3>3, HeaderBody
    <3>4. CASE ReadChunkEnd \/ ReadChunkCut
      BY <3>4, ChunkBody
    <3>5. CASE ReadNegativeSize \/ ReadBadHeader \/ ReadPastChunks
      BY <3>5, ChunkFailsBody
    <3>6. CASE ReadPlainEnd \/ ReadHashEnd
      BY <3>6, PlainBody
    <3>7. CASE Store \/ StoreRefuses
      BY <3>7, StoreBody
    <3> QED
      BY <2>2, <3>1, <3>2, <3>3, <3>4, <3>5, <3>6, <3>7 DEF Upload
  <2>3. ASSUME UNCHANGED upVars PROVE BodyInv'
    <3>1. UNCHANGED <<req, phase, code, pos, remaining, data>>
      BY <2>3 DEF upVars
    <3>2. ChunkedInv' /\ PlainInv'
      BY <3>1 DEF BodyInv, ChunkedInv, PlainInv
    <3>3. IntactInv'
      BY <3>1 DEF BodyInv, IntactInv
    <3> QED
      BY <3>2, <3>3 DEF BodyInv
  <2> QED
    BY <2>1, <2>2, <2>3 DEF HttpNext, allVars
<1> QED
  BY <1>1, <1>2, PTL DEF HttpSpec

\* awsChunkedReader: for any body in any chunks, cut or lost anywhere and read in
\* any pieces, what it hands on is a beginning of the body.
THEOREM DecodingCorrect == HttpSpec => []DecodedIsAPrefix
<1>1. BodyInv => DecodedIsAPrefix
  BY DEF BodyInv, ChunkedInv, DecodedIsAPrefix
<1> QED
  BY <1>1, BodyInvariant, PTL

\* handlePutObject: any upload that arrives as it was sent reaches the backend
\* whole, by whichever reader.
THEOREM IntactUploadsCorrect == HttpSpec => []IntactUploadsAreWhole
<1>1. BodyInv => IntactUploadsAreWhole
  BY DEF BodyInv, IntactInv, IntactUploadsAreWhole
<1> QED
  BY <1>1, BodyInvariant, PTL

\* What is about to be stored is a version of the object.
LEMMA ReadBodiesAreVersions ==
  ASSUME UploadInv, BodyInv, phase = "put"
  PROVE  data \in Versions
<1>1. CASE BodyReader(req) = "chunked"
  <2>1. req \in Sent /\ Len(data) \in 0 .. Len(req.meant) /\ data = SubSeq(req.meant, 1, Len(data))
    <3>1. req \in Sent /\ Len(data) <= Len(req.meant) /\ data = SubSeq(req.meant, 1, Len(data))
      BY <1>1 DEF BodyInv, ChunkedInv
    <3>2. Len(data) \in Nat /\ Len(req.meant) \in Nat
      BY <1>1, ReadFacts, SentFraming DEF BodyInv
    <3> QED
      BY <3>1, <3>2
  <2> QED
    BY <1>1, <2>1, BodiesAssumption
<1>2. CASE BodyReader(req) # "chunked"
  <2>1. /\ req \in Sent /\ Len(data) = Len(req.wire)
        /\ \A i \in 1 .. Len(data) : data[i] = req.wire[i].n
    BY <1>2 DEF BodyInv, PlainInv
  <2>2. data = Contents(req.wire)
    <3>1. DOMAIN data = 1 .. Len(data) /\ data = [i \in DOMAIN data |-> data[i]]
      BY ReadFacts
    <3>2. DOMAIN req.wire = DOMAIN data
      BY <2>1, ReadFacts
    <3> QED
      BY <2>1, <3>1, <3>2 DEF Contents
  <2> QED
    BY <1>2, <2>1, <2>2, BodiesAssumption
<1> QED
  BY <1>1, <1>2

\* A download sees the uploads, all their Reads and failures, as the one-step
\* overwrites of RangedGet, whatever the bodies.
THEOREM HttpRefinesRangedGet == HttpSpec => ImplementsRangedGet
<1>1. HttpInit => Init
  BY DEF HttpInit
<1>2. UploadInv /\ BodyInv /\ [HttpNext]_allVars => [Next]_vars
  <2> SUFFICES ASSUME UploadInv, BodyInv, [HttpNext]_allVars PROVE [Next]_vars
    OBVIOUS
  <2>1. CASE Upload /\ UNCHANGED getVars
    <3>1. UNCHANGED obj \/ Store
      BY <2>1 DEF Upload, Arrive, ReadChunkHeader, ReadLastChunk, ReadNegativeSize,
         ReadBadHeader, ReadChunkData, ReadPlain, ReadChunkEnd, ReadChunkCut,
         ReadPastChunks, ReadPlainEnd, ReadHashEnd, StoreRefuses
    <3>2. CASE UNCHANGED obj
      BY <2>1, <3>2 DEF getVars, vars
    <3>3. CASE Store
      <4>1. data \in Versions /\ obj' = data
        BY <3>3, ReadBodiesAreVersions DEF Store
      <4> QED
        BY <2>1, <4>1 DEF getVars, Next, Overwrite
    <3> QED
      BY <3>1, <3>2, <3>3
  <2>2. CASE Download
    BY <2>2 DEF Download, Next
  <2>3. CASE UNCHANGED allVars
    BY <2>3 DEF allVars, getVars, vars
  <2> QED
    BY <2>1, <2>2, <2>3 DEF HttpNext
<1> QED
  BY <1>1, <1>2, BodyInvariant, PTL DEF HttpSpec, Spec, ImplementsRangedGet

-----------------------------------------------------------------------------
(* What is proved of RangedGet holds behind the whole HTTP side.           *)

\* While anything is uploaded, a download uses the range its header asks of the
\* upload its Head saw, a partial reply has bytes of that range of one uploaded
\* body only, and one that breaks off falls short of its declared length, but
\* where the error document is exactly what is missing.
THEOREM DownloadsCorrect ==
  HttpSpec => [](TypeOK /\ RangeIsWhatWasAsked /\ BytesAreFromTheRange /\ FailedReadsAreShort)
BY HttpRefinesRangedGet, RangedTypeCorrect, ResolvedRangeCorrect, RangedBytesCorrect,
   FailedReadsDetectable, PTL DEF ImplementsRangedGet
=============================================================================
