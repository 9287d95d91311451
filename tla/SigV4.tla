-------------------------------- MODULE SigV4 --------------------------------
(***************************************************************************)
(* verifySigV4 (sigv4.go) and the choice of a body reader.  A signature is *)
(* symbolic: the secret and the string to sign it was made of, so that two *)
(* are equal only if those are.  Every refusal is the same 403, so the     *)
(* checks are a conjunction.  Repeated query parameters are left out.      *)
(***************************************************************************)
EXTENDS Routing, Integers

CONSTANTS AccessKey, SecretKey,
          MaxClockSkew,  \* in the unit of the dates
          Now            \* when the requests arrive

SignedNames == {"host", "x-amz-date", "x-amz-content-sha256", "x-amz-copy-source"}

\* x-amz-content-sha256.  "odd" is a value of another length than a hash has.
Unsigned       == [kind |-> "unsigned", body |-> <<>>]
HashOf(body)   == [kind |-> "hash", body |-> body]
Streaming      == [kind |-> "streaming", body |-> <<>>]
PayloadHash(q) == IF q.payload.kind = "none" THEN Unsigned ELSE q.payload

HasHeader(q, h) ==
  CASE h = "host" -> TRUE
    [] h = "x-amz-date" -> q.date.given
    [] h = "x-amz-content-sha256" -> q.payload.kind # "none"
    [] h = "x-amz-copy-source" -> q.target.copySource

HeaderValue(q, h) ==
  CASE h = "host" -> TRUE
    [] h = "x-amz-date" -> q.date
    [] h = "x-amz-content-sha256" -> q.payload
    [] h = "x-amz-copy-source" -> q.target.copySource

Mutant_CanonicalRequest(q) ==            \* the payload hash is left out
  [method |-> q.target.method,
   path   |-> <<q.target.bucket, q.target.key>>,
   query  |-> q.target.params,
   signed |-> q.auth.signed,
   payload |-> Unsigned]

CanonicalRequest(q) ==
  [method |-> q.target.method,
   path   |-> <<q.target.bucket, q.target.key>>,
   query  |-> q.target.params,
   signed |-> [h \in q.auth.signed |-> HeaderValue(q, h)],
   payload |-> PayloadHash(q)]

StringToSign(q) == [date |-> q.date, request |-> CanonicalRequest(q)]
Sign(secret, s) == [secret |-> secret, of |-> s]

VerifySigV4(q) ==
  /\ q.auth.form = "aws4"        \* all fields there, a Credential of five parts
  /\ q.auth.keyID = AccessKey
  /\ ~q.presigned
  /\ q.date.given /\ Now - q.date.at \in -MaxClockSkew .. MaxClockSkew
  /\ q.payload.kind # "otherStreaming"
  /\ "host" \in q.auth.signed
  /\ \A h \in q.auth.signed : HasHeader(q, h)
  /\ q.auth.signature = Sign(SecretKey, StringToSign(q))

\* The reader sigv4Middleware puts around the body.
BodyReader(q) ==
  CASE q.payload.kind = "streaming" -> "chunked"
    [] q.payload.kind = "hash"      -> "hash"
    [] OTHER                        -> "plain"
=============================================================================
