------------------------------ MODULE RangedGet ------------------------------
(***************************************************************************)
(* handleGetObject with a Range header: a Head of the object resolves the  *)
(* range, and only then is the object read, so another client's PUT may    *)
(* come in between.  The store is one atomic object, which OverlayObjects  *)
(* is proved to implement.  A backend may honour the range or ignore it    *)
(* and send the whole object, which s3Store.Get then slices itself.        *)
(***************************************************************************)
EXTENDS ByteRange

CONSTANTS Versions,  \* versions of the object
          None,      \* no object
          SizeOf,    \* SizeOf[v]: the size of version v
          Asked,     \* the Range headers clients send
          Modes,     \* what backends do with a range: "honour", "ignore"
          ErrHead,   \* length of the XML declaration of an error document
          ErrDoc     \* length of the document after it

ASSUME VersionsAssumption == None \notin Versions /\ SizeOf \in [Versions -> Nat]
ASSUME AskedAssumption    == Asked \subseteq Headers
ASSUME ModesAssumption    == Modes \subseteq {"honour", "ignore"}
ASSUME ErrTextAssumption  == ErrHead \in Nat \ {0} /\ ErrDoc \in Nat \ {0}

VARIABLES
  obj,    \* the stored version, or None
  stage,  \* "idle", "head", "get", "done"
  hdr,    \* the Range header of the request
  total,  \* the size the Head reported
  rng,    \* what parseByteRange made of the header
  reply,  \* the answer
  headed  \* the version the Head saw (history)

vars == <<obj, stage, hdr, total, rng, reply, headed>>

NoHeader == [form |-> "several", first |-> [kind |-> "bad", n |-> 0],
             last |-> [kind |-> "bad", n |-> 0]]
Reply(status, v, from, declared, written) ==
  [status |-> status, version |-> v, from |-> from, declared |-> declared,
   written |-> written, broken |-> FALSE, errText |-> 0]
ErrorReply(status) == Reply(status, None, 0, 0, 0)

Init ==
  /\ obj \in Versions \cup {None}
  /\ stage = "idle" /\ hdr = NoHeader /\ total = 0 /\ rng = Whole
  /\ reply = ErrorReply(0) /\ headed = None

Overwrite(v) ==
  /\ obj' = v
  /\ UNCHANGED <<stage, hdr, total, rng, reply, headed>>

Request(h) ==
  /\ stage \in {"idle", "done"}
  /\ stage' = "head" /\ hdr' = h
  /\ total' = 0 /\ rng' = Whole /\ reply' = ErrorReply(0) /\ headed' = None
  /\ UNCHANGED obj

Answer(r) == stage' = "done" /\ reply' = r

HeadMissing ==
  /\ stage = "head" /\ obj = None
  /\ Answer(ErrorReply(404))
  /\ UNCHANGED <<obj, hdr, total, rng, headed>>

HeadResolves ==
  /\ stage = "head" /\ obj # None
  /\ total'  = SizeOf[obj]
  /\ headed' = obj
  /\ rng'    = ParseByteRange(hdr, SizeOf[obj])
  /\ IF rng'.kind = "unsatisfiable" THEN Answer(ErrorReply(416))
     ELSE stage' = "get" /\ UNCHANGED reply
  /\ UNCHANGED <<obj, hdr>>

\* No range to apply: the whole object, whatever its version is by now.
WholeReply == Reply(200, obj, 0, SizeOf[obj], SizeOf[obj])

\* The backend slices: it sends what the object has of the range.
HonouredReply ==
  LET n == Least(rng.length, SizeOf[obj] - rng.start)
  IN  Reply(206, obj, rng.start, n, n)

\* s3Store.Get slices a full response: skips to the start (running off the end
\* is no error), limits the body, and declares at most the range's length.
Mutant_Sliced(v, r) ==                      \* forgets to skip to the start
  Reply(206, v, 0, Least(SizeOf[v], r.length), Least(SizeOf[v], r.length))
Sliced(v, r) ==
  LET rest == IF r.start < SizeOf[v] THEN SizeOf[v] - r.start ELSE 0
  IN  Reply(206, v, r.start, Least(SizeOf[v], r.length), Least(rest, r.length))

GetReplies ==
  IF rng.kind = "whole" THEN {WholeReply}
  ELSE (IF "ignore" \in Modes THEN {Sliced(obj, rng)} ELSE {}) \cup
       (IF "honour" \in Modes /\ rng.start < SizeOf[obj] THEN {HonouredReply} ELSE {})

GetAnswers ==
  /\ stage = "get"
  /\ \E r \in GetReplies : Answer(r)
  /\ UNCHANGED <<obj, hdr, total, rng, headed>>

\* The backend's own 416 is no error mapS3Error or backendAPIError knows.
GetUnsatisfiable ==
  /\ stage = "get" /\ rng.kind = "slice" /\ "honour" \in Modes
  /\ rng.start >= SizeOf[obj]
  /\ Answer(ErrorReply(500))
  /\ UNCHANGED <<obj, hdr, total, rng, headed>>

\* The Head or the Get fails: no answer has begun yet.
StoreFails ==
  /\ stage \in {"head", "get"}
  /\ Answer(ErrorReply(500))
  /\ UNCHANGED <<obj, hdr, total, rng, headed>>

\* ServeHTTP answers an error of the io.Copy with an XML error document, in a
\* response already begun; net/http refuses each of writeXML's two writes that
\* would exceed the declared length.
ErrText(room) == IF room < ErrHead THEN 0
                 ELSE IF room < ErrHead + ErrDoc THEN ErrHead ELSE ErrHead + ErrDoc

BrokenReply(r, n, declared, errText) ==
  [status |-> r.status, version |-> r.version, from |-> r.from,
   declared |-> declared, written |-> n, broken |-> TRUE, errText |-> errText]

Mutant_Broken(r, n) ==                      \* no Content-Length was declared
  BrokenReply(r, n, n + ErrHead + ErrDoc, ErrHead + ErrDoc)

Broken(r, n) == BrokenReply(r, n, r.declared, ErrText(r.declared - n))

\* The backend's body breaks off after n bytes of what was to be sent.
StreamBreaks ==
  /\ stage = "get"
  /\ \E r \in GetReplies : \E n \in 0 .. (r.written - 1) : Answer(Broken(r, n))
  /\ UNCHANGED <<obj, hdr, total, rng, headed>>

Serve ==
  \/ HeadMissing \/ HeadResolves
  \/ GetAnswers \/ GetUnsatisfiable
  \/ StoreFails \/ StreamBreaks

Next ==
  \/ \E v \in Versions : Overwrite(v)
  \/ \E h \in Asked : Request(h)
  \/ Serve

Spec == Init /\ [][Next]_vars

-----------------------------------------------------------------------------
\* Every variable stays in its domain; what is read is an existing version.
TypeOK ==
  /\ obj \in Versions \cup {None} /\ headed \in Versions \cup {None}
  /\ stage \in {"idle", "head", "get", "done"}
  /\ hdr \in Headers /\ total \in Nat /\ rng \in Ranges
  /\ stage = "get" => obj # None
  /\ reply \in [status : {0, 200, 206, 404, 416, 500},
                version : Versions \cup {None}, from : Nat,
                declared : Nat, written : Nat, broken : BOOLEAN, errText : Nat]

\* parseByteRange: a slice is exactly the bytes the header names and the object
\* has, and 416 is answered only when the header names none of them.
RangeIsWhatWasAsked ==
  headed # None =>
    /\ rng.kind = "slice" => /\ Positions(rng) = AskedPositions(hdr, total)
                             /\ rng.length >= 1 /\ rng.start + rng.length <= total
    /\ rng.kind = "unsatisfiable" => AskedPositions(hdr, total) = {}

\* Store.Get (store.go:81-83): whatever the backend does with the range, and
\* whatever is written meanwhile, the bytes sent are bytes of one version that
\* the range names, from its start on; and all of them, in a reply of just that
\* length, unless that version ends before the range or the body broke off.
BytesAreFromTheRange ==
  reply.status = 206 =>
    /\ reply.from = rng.start /\ reply.written <= rng.length
    /\ reply.written > 0 => reply.from + reply.written <= SizeOf[reply.version]
    /\ rng.start + rng.length <= SizeOf[reply.version] /\ ~reply.broken =>
         reply.written = rng.length /\ reply.declared = rng.length

\* handleGetObject and ServeHTTP: the size of the object is declared before it is
\* read, so a client sees from the length of the body that its read broke off, the
\* error text behind the object's bytes included, unless what is missing is
\* exactly as long as that text or its declaration.
FailedReadsAreShort ==
  reply.broken =>
    /\ reply.status = 200 => reply.declared = SizeOf[reply.version]
    /\ reply.written + reply.errText <= reply.declared
    /\ reply.written + reply.errText = reply.declared =>
         reply.declared - reply.written \in {ErrHead, ErrHead + ErrDoc}

\* handlers.go:351-352: "clamp anyway so the declared length can never exceed
\* what is written".
DeclaredIsWritten == ~reply.broken => reply.declared <= reply.written
=============================================================================
