----------------------------- MODULE HttpObject -----------------------------
(***************************************************************************)
(* One object behind the gateway's HTTP side, uploads and downloads        *)
(* together.  An upload passes sigv4Middleware, parseS3Request and         *)
(* handlePutObject; its body reaches putBody through the reader the        *)
(* middleware chose, one Read at a time, and only a body read to its end   *)
(* goes to the backend.  A download is RangedGet, whose Overwrite is here  *)
(* the last step of an upload.  The backend's write is one step:           *)
(* OverlayObjects has its failures and retries.                            *)
(*                                                                         *)
(* A body cut inside a line is read as one cut before it.  The fields      *)
(* meant and intact of a request are history: the body its client is       *)
(* sending, and whether it is an object's upload that arrives as sent.     *)
(***************************************************************************)
EXTENDS RangedGet, SigV4, ChunkFraming

CONSTANT Sent   \* the requests that reach the gateway

ASSUME SentAssumption ==
  \A q \in Sent : /\ q.target \in Targets /\ q.wire \in Seq(Tokens)
                  /\ q.ending \in {"end", "lost"}
\* Only clients have the secret, and each signs the hash of the body it means.
ASSUME HonestAssumption ==
  \A q \in Sent : LET s == q.auth.signature IN
    s.secret = SecretKey /\ s.of.request.payload.kind = "hash" =>
      s.of.request.payload.body = q.meant
\* Clients that chunk a body send its data in order, in chunks of the said sizes.
ASSUME FramingAssumption ==
  \A q \in Sent :
    /\ q.meant \in Seq(Int)
    /\ BodyReader(q) = "chunked" => CarriesBody(q.wire, q.meant) /\ CountsItsChunks(q.wire)
\* What arrives as it was sent is the whole body, as a PutObject of the S3 API.
ASSUME IntactAssumption ==
  \A q \in Sent : q.intact =>
    /\ S3Target(q.target) /\ S3Name(q.target) = "PutObject" /\ q.ending = "end"
    /\ IF BodyReader(q) = "chunked" THEN IsWhole(q.wire, q.meant)
       ELSE q.wire = Bytes(q.meant)
\* Whatever a reader can make of a body is a version of the object.
ASSUME BodiesAssumption ==
  \A q \in Sent :
    IF BodyReader(q) = "chunked"
    THEN \A n \in 0 .. Len(q.meant) : SubSeq(q.meant, 1, n) \in Versions
    ELSE Contents(q.wire) \in Versions

VARIABLES
  req,        \* the request being served
  phase,      \* "idle", "body", "put", "done", "aborted"
  code,       \* the status answered; 0 for what other handlers answer
  pos,        \* tokens of the wire that were read
  remaining,  \* bytes of the current chunk still to be read
  finished,   \* the zero-size chunk was read
  data        \* what io.ReadAll has collected

upVars  == <<req, phase, code, pos, remaining, finished, data>>
getVars == <<stage, hdr, total, rng, reply, headed>>
allVars == <<obj, upVars, getVars>>

NoRequest ==
  [target |-> [method |-> "GET", bucket |-> FALSE, key |-> FALSE,
               params |-> {}, copySource |-> FALSE],
   date |-> [given |-> FALSE, at |-> 0], payload |-> Unsigned, presigned |-> FALSE,
   lengthOK |-> TRUE, wire |-> <<>>, ending |-> "end", meant |-> <<>>, intact |-> FALSE,
   auth |-> [form |-> "none", keyID |-> AccessKey, signed |-> {},
             signature |-> Sign("", {})]]

HttpInit ==
  /\ Init
  /\ req = NoRequest /\ phase = "idle" /\ code = 0
  /\ pos = 0 /\ remaining = 0 /\ finished = FALSE /\ data = <<>>

-----------------------------------------------------------------------------
\* sigv4Middleware, then ServeHTTP: 0 is the status of a request that goes on.
Admission(q) ==
  IF ~VerifySigV4(q) THEN 403
  ELSE IF q.payload.kind = "streaming" /\ ~q.lengthOK THEN 400
  ELSE IF Refused(q.target) THEN 501 ELSE 0

Arrive(q) ==
  /\ phase \in {"idle", "done", "aborted"}
  /\ req' = q
  /\ code' = Admission(q)
  /\ phase' = IF code' = 0 /\ ParseS3Request(q.target) = "PutObject" THEN "body" ELSE "done"
  /\ pos' = 0 /\ remaining' = 0 /\ finished' = FALSE /\ data' = <<>>
  /\ UNCHANGED obj

AtEnd == pos = Len(req.wire)
Upcoming == req.wire[pos + 1]       \* what the next Read meets first

\* The next n tokens are data.
DataAhead(n) == /\ pos + n <= Len(req.wire)
                /\ \A i \in 1 .. n : req.wire[pos + i].kind = "data"
Collect(n)   == data' = data \o [i \in 1 .. n |-> req.wire[pos + i].n]

BodyComplete == phase' = "put" /\ UNCHANGED code
BodyFails    == phase' = "done" /\ code' = 500

\* The wire is read out.  net/http reports io.EOF where the message ended, and
\* io.ErrUnexpectedEOF where the connection was lost before its end.
Mutant_EndOfWire == BodyComplete         \* every error is the end

EndOfWire == IF req.ending = "lost" THEN BodyFails ELSE BodyComplete

Reading(reader) == phase = "body" /\ BodyReader(req) = reader

-----------------------------------------------------------------------------
(* awsChunkedReader.Read                                                   *)

AtHeader == Reading("chunked") /\ remaining = 0 /\ ~AtEnd

ReadChunkHeader ==
  /\ AtHeader /\ Upcoming.kind = "header" /\ Upcoming.n > 0
  /\ pos' = pos + 1 /\ remaining' = Upcoming.n
  /\ UNCHANGED <<obj, req, phase, code, finished, data>>

ReadLastChunk ==
  /\ AtHeader /\ Upcoming.kind = "header" /\ Upcoming.n = 0
  /\ pos' = pos + 1 /\ finished' = TRUE
  /\ BodyComplete
  /\ UNCHANGED <<obj, req, remaining, data>>

\* A negative size is not refused: slicing with it panics, and net/http closes
\* the connection without an answer.
Mutant_ReadNegativeSize ==               \* takes it for a size
  /\ AtHeader /\ Upcoming.kind = "header" /\ Upcoming.n < 0
  /\ pos' = pos + 1 /\ remaining' = Upcoming.n
  /\ UNCHANGED <<obj, req, phase, code, finished, data>>

ReadNegativeSize ==
  /\ AtHeader /\ Upcoming.kind = "header" /\ Upcoming.n < 0
  /\ phase' = "aborted"
  /\ UNCHANGED <<obj, req, code, pos, remaining, finished, data>>

ReadBadHeader ==
  /\ AtHeader /\ Upcoming.kind # "header"
  /\ BodyFails
  /\ UNCHANGED <<obj, req, pos, remaining, finished, data>>

Mutant_ReadChunkData(n) ==               \* leaves the data on the wire
  /\ Reading("chunked") /\ n \in 1 .. remaining /\ DataAhead(n)
  /\ n < remaining
  /\ remaining' = remaining - n /\ Collect(n)
  /\ UNCHANGED <<obj, req, phase, code, pos, finished>>

ReadChunkData(n) ==
  /\ Reading("chunked") /\ n \in 1 .. remaining /\ DataAhead(n)
  /\ n < remaining
  /\ pos' = pos + n /\ remaining' = remaining - n /\ Collect(n)
  /\ UNCHANGED <<obj, req, phase, code, finished>>

\* The Read that ends a chunk discards the line end behind it.
Mutant_ReadChunkEnd ==                   \* leaves the line end on the wire
  /\ Reading("chunked") /\ remaining > 0 /\ DataAhead(remaining)
  /\ Collect(remaining) /\ remaining' = 0
  /\ pos' = pos + remaining
  /\ UNCHANGED <<obj, req, phase, code, finished>>

ReadChunkEnd ==
  /\ Reading("chunked") /\ remaining > 0 /\ DataAhead(remaining)
  /\ pos + remaining < Len(req.wire)
  /\ Collect(remaining) /\ remaining' = 0
  /\ pos' = pos + remaining + 1
  /\ UNCHANGED <<obj, req, phase, code, finished>>

\* There is no line end: Discard reports the end of the wire, unless it came
\* together with the data, where the Read makes it io.ErrUnexpectedEOF.
ReadChunkCut ==
  /\ Reading("chunked") /\ remaining > 0 /\ DataAhead(remaining)
  /\ pos + remaining = Len(req.wire)
  /\ Collect(remaining) /\ remaining' = 0 /\ pos' = Len(req.wire)
  /\ EndOfWire \/ BodyFails
  /\ UNCHANGED <<obj, req, finished>>

\* The end of the wire before a header or inside a chunk is passed on.
ReadPastChunks ==
  /\ Reading("chunked") /\ AtEnd
  /\ EndOfWire
  /\ UNCHANGED <<obj, req, pos, remaining, finished, data>>

-----------------------------------------------------------------------------
(* The plain body, with hashVerifyingReader around it or not.              *)

ReadPlain(n) ==
  /\ Reading("plain") \/ Reading("hash")
  /\ n > 0 /\ DataAhead(n)
  /\ pos' = pos + n /\ Collect(n)
  /\ UNCHANGED <<obj, req, phase, code, remaining, finished>>

ReadPlainEnd ==
  /\ Reading("plain") /\ AtEnd
  /\ EndOfWire
  /\ UNCHANGED <<obj, req, pos, remaining, finished, data>>

ReadHashEnd ==
  /\ Reading("hash") /\ AtEnd
  /\ IF data = req.payload.body THEN EndOfWire ELSE BodyFails
  /\ UNCHANGED <<obj, req, pos, remaining, finished, data>>

-----------------------------------------------------------------------------
\* s3Store.Put, after putBody returned the whole body.
Store ==
  /\ phase = "put"
  /\ phase' = "done" /\ code' = 200
  /\ obj' = data
  /\ UNCHANGED <<req, pos, remaining, finished, data>>

Mutant_StoreRefuses ==                   \* has removed the old object
  /\ phase = "put"
  /\ phase' = "done" /\ code' = 500
  /\ obj' = None
  /\ UNCHANGED <<req, pos, remaining, finished, data>>

StoreRefuses ==
  /\ phase = "put"
  /\ phase' = "done" /\ code' = 500
  /\ UNCHANGED <<obj, req, pos, remaining, finished, data>>

Upload ==
  \/ \E q \in Sent : Arrive(q)
  \/ ReadChunkHeader \/ ReadLastChunk \/ ReadNegativeSize \/ ReadBadHeader
  \/ \E n \in 1 .. Len(req.wire) : ReadChunkData(n) \/ ReadPlain(n)
  \/ ReadChunkEnd \/ ReadChunkCut \/ ReadPastChunks
  \/ ReadPlainEnd \/ ReadHashEnd
  \/ Store \/ StoreRefuses

Download == \/ \E h \in Asked : Request(h)
            \/ Serve

HttpNext == \/ Upload /\ UNCHANGED getVars
            \/ Download /\ UNCHANGED upVars

HttpSpec == HttpInit /\ [][HttpNext]_allVars

-----------------------------------------------------------------------------
\* Every variable stays in its domain, and a reader within its wire.
HttpTypeOK ==
  /\ req \in Sent \cup {NoRequest}
  /\ phase \in {"idle", "body", "put", "done", "aborted"}
  /\ code \in {0, 200, 400, 403, 500, 501}
  /\ pos \in 0 .. Len(req.wire) /\ remaining \in Nat /\ finished \in BOOLEAN
  /\ Len(data) <= pos

\* parseS3Request: a request of an operation the gateway has is taken for just
\* that operation, whatever other cases of the routing it matches.
RoutedAsS3Does ==
  S3Target(req.target) /\ S3Name(req.target) # "-" =>
    ParseS3Request(req.target) = S3Name(req.target)

\* sigv4Middleware and hashVerifyingReader: a PUT that succeeds was signed by the
\* holder of the secret, as a PUT of this object and not long ago; and where the
\* hash of the body is part of it, the object is the body the client hashed.
StoredIsAsSigned ==
  phase = "put" \/ code = 200 =>
    LET s == req.auth.signature IN
    /\ s.secret = SecretKey
    /\ s.of.request.method = "PUT" /\ s.of.request.path = <<TRUE, TRUE>>
    /\ Now - s.of.date.at \in -MaxClockSkew .. MaxClockSkew
    /\ req.payload.kind = "hash" => data = req.meant
    /\ code = 200 => obj = data

\* awsChunkedReader: what it hands on is always a beginning of the body the
\* client is sending, never framing, whatever the sizes of chunks and Reads.
DecodedIsAPrefix ==
  BodyReader(req) = "chunked" =>
    Len(data) <= Len(req.meant) /\ data = SubSeq(req.meant, 1, Len(data))

\* putBody: an upload whose connection was lost before its body ended is never
\* stored, also where the readers pass on every end of the wire.
LostUploadsAreNotStored ==
  phase = "put" \/ code = 200 => req.ending = "end" \/ finished

\* handlePutObject: an upload that arrives as it was sent is read to its end,
\* the whole body and nothing else, before it goes to the backend.
IntactUploadsAreWhole ==
  req.intact /\ phase # "body" /\ code \in {0, 200, 500} =>
    phase \in {"put", "done"} /\ data = req.meant

\* A download sees uploads only as the one-step overwrites RangedGet has.
ImplementsRangedGet == Spec

\* sigv4.go:125-128: "the aws-chunked body framing [...] terminated by a
\* zero-size chunk".
ChunksAreTerminated == code = 200 /\ BodyReader(req) = "chunked" => finished

\* protocol.go:66-67: "Unsupported operations map to opNotSupported".
UnsupportedIsRefused ==
  phase # "idle" /\ S3Target(req.target) /\ S3Name(req.target) = "-" => code # 200
=============================================================================
