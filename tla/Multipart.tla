------------------------------ MODULE Multipart ------------------------------
(***************************************************************************)
(* Multipart uploads: the handlers (handlers.go) hand each request to the  *)
(* overlay backend alone (overlay.go), through s3Store (remote.go) and the *)
(* S3 client, which repeats a call whose answer it did not get.  The       *)
(* listings of parts and of uploads are loops over the backend's pages, a  *)
(* step each, so uploads change between them.  The backend's own rules are *)
(* those of the S3 API: it knows nothing of attempts, clients or answers.  *)
(*                                                                         *)
(* Not even a missing upload has an answer of its own: s3Store never       *)
(* returns errUploadNotFound or errInvalidPart, so every refusal of the    *)
(* backend is a 500.  asked, due and begun are history variables.          *)
(***************************************************************************)
EXTENDS Integers, Sequences, FiniteSets

CONSTANTS Clients,      \* concurrent requests
          Keys,         \* object keys, numbers in the order of their names
          Bodies,       \* part bodies; ETags are equal iff bodies are
          Ids,          \* upload ids, numbers in the backend's order
          MaxPart,      \* highest part number of the backend
          IntRange,     \* how many values an int32 has
          MaxAttempts,  \* attempts the S3 client makes for one call
          MaxStrays,    \* bound on the given-up calls that may still arrive
          None,
          Requests      \* Requests[c]: what the requests of client c may be

PartNumbers == 1 .. MaxPart
MaybeBody   == Bodies \cup {None}

ASSUME NoneAssumption   == None \notin Bodies
ASSUME BoundsAssumption == /\ Keys \subseteq Nat \ {0} /\ Ids \subseteq Nat \ {0}
                           /\ MaxPart \in Nat /\ MaxAttempts \in Nat \ {0}
                           /\ MaxStrays \in Nat /\ IntRange \in Nat \ {0}

\* A request.  A listed part is the number and the ETag its client names.
Task(op, key, id, n, body, parts) ==
  [op |-> op, key |-> key, id |-> id, n |-> n, body |-> body, parts |-> parts]
NoTask           == Task("none", 0, 0, 0, None, <<>>)
InitiateTask(k)  == Task("initiate", k, 0, 0, None, <<>>)
PartTask(id, n, b) == Task("part", 0, id, n, b, <<>>)
CompleteTask(id, ps) == Task("complete", 0, id, 0, None, ps)
AbortTask(id)    == Task("abort", 0, id, 0, None, <<>>)
ListPartsTask(id) == Task("parts", 0, id, 0, None, <<>>)
ListUploadsTask  == Task("uploads", 0, 0, 0, None, <<>>)
MalformedTask(id) == Task("malformed", 0, id, 0, None, <<>>)  \* no XML to complete with

Tasks == [op : {"initiate", "part", "complete", "abort", "parts", "uploads", "malformed"},
          key : Keys \cup {0}, id : Nat, n : Int, body : MaybeBody,
          parts : Seq([n : Int, etag : Bodies])]
ASSUME RequestsAssumption ==
  \A c \in Clients : \A t \in Requests[c] :
    t \in Tasks /\ (t.op = "initiate" => t.key \in Keys)

VARIABLES
  uploads,   \* uploads[i]: the backend's upload i: state, key and parts
  objects,   \* objects[k]: the bodies the object of k was put together from
  task, stage, answer,  \* the request of each client, how far it is, its answer
  attempt,   \* attempt[c]: number of the attempt in flight, 0 before the call
  landed,    \* landed[c]: the last attempt the backend has served
  result,    \* result[c]: "ok" or "refused", what it made of it
  rows,      \* rows[c]: the rows a listing has collected
  marker,    \* marker[c]: where its next page begins
  strays,    \* calls given up by the gateway that may still reach the backend
  asked,     \* asked[k]: the ETags listed by the Complete that made k's object
  due,       \* due[c]: rows there when c's listing began and ever since
  begun      \* begun[c]: rows that were there at some time during c's listing

backend   == <<uploads, objects>>
gateway   == <<task, stage, answer, attempt, landed, result, rows, marker, strays>>
history   == <<asked, due, begun>>
vars      == <<backend, gateway, history>>

Upload(state, key) ==
  [state |-> state, key |-> key, parts |-> [n \in PartNumbers |-> None]]

Init ==
  /\ uploads = [i \in Ids |-> Upload("none", 0)]
  /\ objects = [k \in Keys |-> <<>>] /\ asked = [k \in Keys |-> <<>>]
  /\ task    = [c \in Clients |-> NoTask]
  /\ stage   = [c \in Clients |-> "idle"]
  /\ answer  = [c \in Clients |-> "none"]
  /\ attempt = [c \in Clients |-> 0] /\ landed = [c \in Clients |-> 0]
  /\ result  = [c \in Clients |-> "none"]
  /\ rows    = [c \in Clients |-> <<>>] /\ marker = [c \in Clients |-> <<0, 0>>]
  /\ strays  = {}
  /\ due = [c \in Clients |-> {}] /\ begun = [c \in Clients |-> {}]

-----------------------------------------------------------------------------
(* What is listed: a row is a pair, ordered by its first, then its second. *)

OpenIn(us) == {i \in Ids : us[i].state = "open"}
PartRows(us, id) ==
  IF id \in OpenIn(us) THEN {<<n, 0>> : n \in {m \in PartNumbers : us[id].parts[m] # None}}
  ELSE {}
UploadRows(us) == {<<us[i].key, i>> : i \in OpenIn(us)}
RowsOf(us, t) == IF t.op = "parts" THEN PartRows(us, t.id)
                 ELSE IF t.op = "uploads" THEN UploadRows(us) ELSE {}

Before(r, s) == r[1] < s[1] \/ (r[1] = s[1] /\ r[2] < s[2])

\* The backend changes its uploads: what listings under way owe, they owe no
\* longer once it is gone, and may show once it is there.
Change(us) ==
  /\ uploads' = us
  /\ due'   = [c \in Clients |-> due[c] \cap RowsOf(us, task[c])]
  /\ begun' = [c \in Clients |-> begun[c] \cup RowsOf(us, task[c])]

\* The int32 of an int.
Narrow(n) == ((n + IntRange \div 2) % IntRange) - IntRange \div 2

Mutant_Forwarded(parts) ==               \* loses the last part
  [i \in 1 .. Len(parts) - 1 |-> [n |-> Narrow(parts[i].n), etag |-> parts[i].etag]]

\* The parts of a Complete as handler and s3Store pass them on.
Forwarded(parts) ==
  [i \in DOMAIN parts |-> [n |-> Narrow(parts[i].n), etag |-> parts[i].etag]]

-----------------------------------------------------------------------------
(* The backend serves a call.                                              *)

Refuse == UNCHANGED <<backend, history>>

Initiates(t) ==
  LET free == {i \in Ids : uploads[i].state = "none"} IN
  IF free = {} THEN Refuse
  ELSE LET i == CHOOSE j \in free : \A k \in free : j <= k IN
       /\ Change([uploads EXCEPT ![i] = Upload("open", t.key)])
       /\ UNCHANGED <<objects, asked>>

CanStore(t) == t.id \in OpenIn(uploads) /\ Narrow(t.n) \in PartNumbers
StoresPart(t) ==
  IF CanStore(t)
  THEN /\ Change([uploads EXCEPT ![t.id].parts[Narrow(t.n)] = t.body])
       /\ UNCHANGED <<objects, asked>>
  ELSE Refuse

\* Every part named is there with that ETag, in ascending order.
CanComplete(t) ==
  LET ps == Forwarded(t.parts) IN
  /\ t.id \in OpenIn(uploads) /\ ps # <<>>
  /\ \A i \in DOMAIN ps : /\ ps[i].n \in PartNumbers
                          /\ uploads[t.id].parts[ps[i].n] = ps[i].etag
  /\ \A i, j \in DOMAIN ps : i < j => ps[i].n < ps[j].n

Completes(t) ==
  IF CanComplete(t)
  THEN LET ps == Forwarded(t.parts)
           u  == uploads[t.id]
       IN  /\ objects' = [objects EXCEPT ![u.key] = [i \in DOMAIN ps |-> u.parts[ps[i].n]]]
           /\ asked'   = [asked EXCEPT ![u.key] = [i \in DOMAIN t.parts |-> t.parts[i].etag]]
           /\ Change([uploads EXCEPT ![t.id] = Upload("gone", 0)])
  ELSE Refuse

Aborts(t) ==
  IF t.id \in OpenIn(uploads)
  THEN /\ Change([uploads EXCEPT ![t.id] = Upload("gone", 0)])
       /\ UNCHANGED <<objects, asked>>
  ELSE Refuse

Serves(t) ==
  CASE t.op = "initiate" -> Initiates(t)
    [] t.op = "part"     -> StoresPart(t)
    [] t.op = "complete" -> Completes(t)
    [] t.op = "abort"    -> Aborts(t)

Accepts(t) ==
  CASE t.op = "initiate" -> \E i \in Ids : uploads[i].state = "none"
    [] t.op = "part"     -> CanStore(t)
    [] t.op = "complete" -> CanComplete(t)
    [] t.op = "abort"    -> t.id \in OpenIn(uploads)

-----------------------------------------------------------------------------
(* The gateway.                                                            *)

IsListing(t) == t.op \in {"parts", "uploads"}
calls == <<attempt, landed, result, marker>>

\* The handler returns: what it kept of its calls is gone.
Answer(c, a) ==
  /\ stage'  = [stage EXCEPT ![c] = "done"]
  /\ answer' = [answer EXCEPT ![c] = a]
  /\ attempt' = [attempt EXCEPT ![c] = 0] /\ landed' = [landed EXCEPT ![c] = 0]
  /\ result' = [result EXCEPT ![c] = "none"] /\ marker' = [marker EXCEPT ![c] = <<0, 0>>]

\* What the handlers refuse without a call to the store.
BadRequest(t) == t.op = "malformed" \/ (t.op = "part" /\ t.n <= 0)

Request(c, t) ==
  /\ stage[c] \in {"idle", "done"}
  /\ task'    = [task EXCEPT ![c] = t]
  /\ IF BadRequest(t) THEN Answer(c, "badrequest")
     ELSE /\ stage'  = [stage EXCEPT ![c] = "call"]
          /\ answer' = [answer EXCEPT ![c] = "none"]
          /\ UNCHANGED calls
  /\ rows'    = [rows EXCEPT ![c] = <<>>]
  /\ due'     = [due EXCEPT ![c] = RowsOf(uploads, t)]
  /\ begun'   = [begun EXCEPT ![c] = RowsOf(uploads, t)]
  /\ UNCHANGED <<backend, strays, asked>>

Calling(c) == stage[c] = "call" /\ ~IsListing(task[c])

\* A part and the XML to complete with are read from the client, without a deadline.
AwaitsBody(c) == Calling(c) /\ task[c].op \in {"part", "complete"} /\ attempt[c] = 0

\* The body was read in full and the call is sent.
Send(c) ==
  /\ Calling(c) /\ attempt[c] = 0
  /\ attempt' = [attempt EXCEPT ![c] = 1]
  /\ UNCHANGED <<backend, history, task, stage, answer, landed, result, rows, marker, strays>>

Land(c) ==
  /\ Calling(c) /\ landed[c] < attempt[c]
  /\ landed' = [landed EXCEPT ![c] = attempt[c]]
  /\ result' = [result EXCEPT ![c] = IF Accepts(task[c]) THEN "ok" ELSE "refused"]
  /\ Serves(task[c])
  /\ UNCHANGED <<task, stage, answer, attempt, rows, marker, strays>>

\* The backend's answer arrives.
Return(c) ==
  /\ Calling(c) /\ attempt[c] > 0 /\ landed[c] = attempt[c]
  /\ Answer(c, IF result[c] = "ok" THEN "ok" ELSE "error")
  /\ UNCHANGED <<backend, history, task, rows, strays>>

\* A call given up before it was served may still be served later.
GiveUp(c) == \/ UNCHANGED strays
             \/ /\ landed[c] < attempt[c] /\ Cardinality(strays) < MaxStrays
                /\ strays' = strays \cup {task[c]}

Mutant_Retry(c) ==                       \* never gives up
  /\ Calling(c) /\ attempt[c] > 0
  /\ attempt' = [attempt EXCEPT ![c] = @ + 1]
  /\ GiveUp(c)
  /\ UNCHANGED <<backend, history, task, stage, answer, landed, result, rows, marker>>

Retry(c) ==
  /\ Calling(c) /\ attempt[c] \in 1 .. MaxAttempts - 1
  /\ attempt' = [attempt EXCEPT ![c] = @ + 1]
  /\ GiveUp(c)
  /\ UNCHANGED <<backend, history, task, stage, answer, landed, result, rows, marker>>

\* The body does not arrive, or no attempt is answered.
Fail(c) ==
  /\ Calling(c)
  /\ Answer(c, "error")
  /\ GiveUp(c)
  /\ UNCHANGED <<backend, history, task, rows>>

StrayServed(t) ==
  /\ t \in strays
  /\ strays' = strays \ {t}
  /\ Serves(t)
  /\ UNCHANGED <<task, stage, answer, attempt, landed, result, rows, marker>>

-----------------------------------------------------------------------------
(* The page loops of s3Store.ListParts and ListMultipartUploads.           *)

Listing(c) == stage[c] = "call" /\ IsListing(task[c])

\* The rows behind a marker, as the backend selects them: a list of uploads
\* continued without an upload id goes on behind the marker's key.
Behind(c) == {r \in RowsOf(uploads, task[c]) :
                IF task[c].op = "uploads" /\ marker[c][2] = 0 THEN marker[c][1] < r[1]
                ELSE Before(marker[c], r)}

Mutant_NextMarker(r) == <<r[1], 0>>      \* the upload id marker is dropped

\* NextPartNumberMarker, or NextKeyMarker and NextUploadIdMarker, of a page
\* whose last row is r.
NextMarker(r) == r

Found(c) == task[c].op = "parts" => task[c].id \in OpenIn(uploads)

\* A truncated page, of any length: the rows up to r, and there are more.
TruncatedPage(c, r) ==
  /\ Listing(c) /\ Found(c) /\ r \in Behind(c)
  /\ \E s \in Behind(c) : Before(r, s)
  /\ rows'   = [rows EXCEPT ![c] = Append(@, {s \in Behind(c) : ~Before(r, s)})]
  /\ marker' = [marker EXCEPT ![c] = NextMarker(r)]
  /\ UNCHANGED <<backend, history, task, stage, answer, attempt, landed, result, strays>>

Mutant_LastPage(c) ==                    \* goes on, without a marker
  /\ Listing(c) /\ Found(c)
  /\ rows'   = [rows EXCEPT ![c] = <<>>]
  /\ marker' = [marker EXCEPT ![c] = <<0, 0>>]
  /\ UNCHANGED <<backend, history, task, stage, answer, attempt, landed, result, strays>>

LastPage(c) ==
  /\ Listing(c) /\ Found(c)
  /\ rows' = [rows EXCEPT ![c] = Append(@, Behind(c))]
  /\ Answer(c, "ok")
  /\ UNCHANGED <<backend, history, task, strays>>

\* A page fails, its upload is gone, or it is truncated without a marker.
ListFails(c) ==
  /\ Listing(c)
  /\ Answer(c, "error")
  /\ UNCHANGED <<backend, history, task, rows, strays>>

Serve(c) == \/ Send(c) \/ Land(c) \/ Return(c) \/ Retry(c) \/ Fail(c)
            \/ \E r \in RowsOf(uploads, task[c]) : TruncatedPage(c, r)
            \/ LastPage(c) \/ ListFails(c)

Next ==
  \/ \E c \in Clients : \E t \in Requests[c] : Request(c, t)
  \/ \E c \in Clients : Serve(c)
  \/ \E t \in strays : StrayServed(t)

\* A call to the backend is served, answered or given up, and the handler goes
\* on; no client need send a request or a body, and no stray call need arrive.
Fairness == \A c \in Clients : WF_vars(~AwaitsBody(c) /\ Serve(c))

Spec == Init /\ [][Next]_vars /\ Fairness

-----------------------------------------------------------------------------
UploadRecords == [state : {"none", "open", "gone"}, key : Keys \cup {0},
                  parts : [PartNumbers -> MaybeBody]]

\* Every variable stays in its domain.
TypeOK ==
  /\ uploads \in [Ids -> UploadRecords]
  /\ objects \in [Keys -> Seq(Bodies)] /\ asked \in [Keys -> Seq(Bodies)]
  /\ \A c \in Clients : task[c] \in Requests[c] \cup {NoTask}
  /\ stage   \in [Clients -> {"idle", "call", "done"}]
  /\ answer  \in [Clients -> {"none", "ok", "badrequest", "error"}]
  /\ attempt \in [Clients -> 0 .. MaxAttempts]
  /\ landed  \in [Clients -> 0 .. MaxAttempts]
  /\ result  \in [Clients -> {"none", "ok", "refused"}]
  /\ strays  \subseteq UNION {Requests[c] : c \in Clients}

\* CompleteMultipart: the object is what a client listed, part by part and in its
\* order, with the bodies it named; whatever uploads, retries and late calls of
\* other clients came in between, no other mixture of parts becomes an object.
CompletedIsAsAsked == objects = asked

\* s3Store.ListParts and ListMultipartUploads: a listing that succeeds has every
\* row that was there all along and none that never was, and no row twice, while
\* parts and uploads come and go between its pages.
ListingsAreComplete ==
  \A c \in Clients : IsListing(task[c]) /\ answer[c] = "ok" =>
    /\ due[c] \subseteq UNION {rows[c][i] : i \in DOMAIN rows[c]}
    /\ UNION {rows[c][i] : i \in DOMAIN rows[c]} \subseteq begun[c]
    /\ \A i, j \in DOMAIN rows[c] : i < j =>
         \A r \in rows[c][i], s \in rows[c][j] : Before(r, s)

\* ServeHTTP: every multipart request is answered, and every page loop ends, unless
\* the request waits for its own client's body.
RequestsAreAnswered ==
  \A c \in Clients : stage[c] = "call" ~> stage[c] = "done" \/ AwaitsBody(c)
=============================================================================
