--------------------------- MODULE MultipartProofs ---------------------------
(***************************************************************************)
(* Proofs about multipart uploads, for any clients, keys, bodies, requests *)
(* and part numbers: what a Complete makes of the parts, and that the page *)
(* loops neither lose nor repeat a row while uploads come and go.          *)
(***************************************************************************)
EXTENDS Multipart, SequenceTheorems, TLAPS

Row == (Nat \ {0}) \X Nat

\* What the backend holds, and the requests there can be.
Uploads == {us \in [Ids -> UploadRecords] :
              \A i \in Ids : us[i].state = "open" => us[i].key \in Keys}
GoodTask(t) == t \in Tasks /\ (t.op = "initiate" => t.key \in Keys)

CallTask(t) == GoodTask(t) /\ t.op \in {"initiate", "part", "complete", "abort"}

DataInv ==
  /\ uploads \in Uploads
  /\ objects \in [Keys -> Seq(Bodies)] /\ objects = asked
  /\ task \in [Clients -> {t \in Tasks : GoodTask(t)} \cup {NoTask}]
  /\ \A c \in Clients : stage[c] = "call" =>
       CallTask(task[c]) \/ (GoodTask(task[c]) /\ IsListing(task[c]))
  /\ \A t \in strays : CallTask(t)

USE NoneAssumption, BoundsAssumption

LEMMA NarrowType == ASSUME NEW n \in Int PROVE Narrow(n) \in Int
  BY DEF Narrow

\* The open uploads listed are rows in the backend's order.
LEMMA RowsType ==
  ASSUME NEW us \in Uploads, NEW t
  PROVE  /\ RowsOf(us, t) \subseteq Row
         /\ t.op = "uploads" => \A r \in RowsOf(us, t) : r[2] # 0
<1>1. PartRows(us, t.id) \subseteq Row
  BY DEF PartRows, PartNumbers, Row
<1>2. ASSUME NEW r \in UploadRows(us)
      PROVE  r \in Row /\ r[2] # 0
  <2>1. PICK i \in Ids : us[i].state = "open" /\ r = <<us[i].key, i>>
    BY DEF UploadRows, OpenIn
  <2>2. us[i].key \in Nat \ {0} /\ i \in Nat \ {0}
    BY <2>1 DEF Uploads
  <2> QED
    BY <2>1, <2>2 DEF Row
<1> QED
  BY <1>1, <1>2 DEF RowsOf

LEMMA UploadType ==
  ASSUME NEW state \in {"none", "open", "gone"}, NEW k \in Keys \cup {0}
  PROVE  Upload(state, k) \in UploadRecords /\ Upload(state, k).state = state
         /\ Upload(state, k).key = k
  BY DEF Upload, UploadRecords, MaybeBody

\* Whatever call the backend serves, its data keep their types, and an object it
\* makes is the one its client asked for.
LEMMA ServesData ==
  ASSUME DataInv, NEW t, CallTask(t), Serves(t)
  PROVE  /\ uploads' \in Uploads
         /\ objects' \in [Keys -> Seq(Bodies)] /\ objects' = asked'
         /\ UNCHANGED <<uploads, due, begun>> \/ Change(uploads')
<1> USE DEF DataInv, CallTask
<1>0. CASE Refuse
  BY <1>0 DEF Refuse, backend, history
<1>1. CASE t.op = "initiate" /\ ~Refuse
  <2> DEFINE u == Upload("open", t.key)
  <2>1. PICK i : Change([uploads EXCEPT ![i] = u]) /\ UNCHANGED <<objects, asked>>
    BY <1>1 DEF Serves, Initiates
  <2>3. u \in UploadRecords /\ u.key \in Keys
    BY <1>1, UploadType DEF GoodTask
  <2>4. uploads' = [uploads EXCEPT ![i] = u] /\ Change(uploads')
    BY <2>1 DEF Change
  <2> HIDE DEF u
  <2>5. uploads' \in Uploads
    BY <2>3, <2>4 DEF Uploads
  <2> QED
    BY <2>1, <2>4, <2>5
<1>2. CASE t.op = "part" /\ ~Refuse
  <2>1. /\ CanStore(t) /\ UNCHANGED <<objects, asked>>
        /\ Change([uploads EXCEPT ![t.id].parts[Narrow(t.n)] = t.body])
    BY <1>2 DEF Serves, StoresPart
  <2> DEFINE old == uploads[t.id]
             u   == [old EXCEPT !.parts = [old.parts EXCEPT ![Narrow(t.n)] = t.body]]
  <2>2. old \in UploadRecords /\ t.id \in Ids /\ old.state = "open" /\ old.key \in Keys
    BY <2>1 DEF CanStore, OpenIn, Uploads
  <2>3. t.body \in MaybeBody
    BY DEF GoodTask, Tasks
  <2>4. u \in UploadRecords /\ u.key = old.key
    BY <2>2, <2>3 DEF UploadRecords
  <2>5. uploads' = [uploads EXCEPT ![t.id] = u] /\ Change(uploads')
    BY <2>1 DEF Change
  <2> HIDE DEF u, old
  <2>6. uploads' \in Uploads
    BY <2>2, <2>4, <2>5 DEF Uploads
  <2> QED
    BY <2>1, <2>5, <2>6
<1>3. ASSUME Change([uploads EXCEPT ![t.id] = Upload("gone", 0)])
      PROVE  uploads' \in Uploads /\ Change(uploads')
  <2> DEFINE u == Upload("gone", 0)
  <2>1. u \in UploadRecords /\ u.state = "gone"
    BY UploadType
  <2>2. uploads' = [uploads EXCEPT ![t.id] = u] /\ Change(uploads')
    BY <1>3 DEF Change
  <2> HIDE DEF u
  <2> QED
    BY <2>1, <2>2 DEF Uploads
<1>4. CASE t.op = "complete" /\ ~Refuse
  <2> DEFINE ps == Forwarded(t.parts)
             u  == uploads[t.id]
             made  == [i \in DOMAIN ps |-> u.parts[ps[i].n]]
             named == [i \in DOMAIN t.parts |-> t.parts[i].etag]
  <2>1. /\ CanComplete(t)
        /\ objects' = [objects EXCEPT ![u.key] = made]
        /\ asked' = [asked EXCEPT ![u.key] = named]
        /\ Change([uploads EXCEPT ![t.id] = Upload("gone", 0)])
    BY <1>4 DEF Serves, Completes
  <2>2. t.parts \in Seq([n : Int, etag : Bodies])
    BY DEF GoodTask, Tasks
  <2>3. /\ DOMAIN ps = DOMAIN t.parts
        /\ \A i \in DOMAIN ps : ps[i].etag = t.parts[i].etag
    BY DEF Forwarded
  <2>4. \A i \in DOMAIN ps : u.parts[ps[i].n] = t.parts[i].etag
    BY <2>1, <2>3 DEF CanComplete
  <2>5. made = named
    BY <2>3, <2>4
  <2>6. named \in Seq(Bodies)
    <3>1. /\ Len(t.parts) \in Nat /\ DOMAIN t.parts = 1 .. Len(t.parts)
          /\ \A i \in 1 .. Len(t.parts) : t.parts[i] \in [n : Int, etag : Bodies]
      <4> DEFINE S == [n : Int, etag : Bodies]
      <4>1. t.parts \in Seq(S)
        BY <2>2
      <4> HIDE DEF S
      <4>2. /\ Len(t.parts) \in Nat /\ DOMAIN t.parts = 1 .. Len(t.parts)
            /\ \A i \in 1 .. Len(t.parts) : t.parts[i] \in S
        BY <4>1
      <4> QED
        BY <4>2 DEF S
    <3>2. named \in [1 .. Len(t.parts) -> Bodies]
      BY <3>1
    <3> QED
      BY <3>1, <3>2, SeqDef
  <2> HIDE DEF made, named
  <2>7. objects' = asked' /\ objects' \in [Keys -> Seq(Bodies)]
    BY <2>1, <2>5, <2>6
  <2> QED
    BY <1>3, <2>1, <2>7
<1>5. CASE t.op = "abort" /\ ~Refuse
  <2>1. /\ Change([uploads EXCEPT ![t.id] = Upload("gone", 0)])
        /\ UNCHANGED <<objects, asked>>
    BY <1>5 DEF Serves, Aborts
  <2> QED
    BY <1>3, <2>1
<1> QED
  BY <1>0, <1>1, <1>2, <1>4, <1>5 DEF CallTask

-----------------------------------------------------------------------------
(* Types, and what a Complete makes.                                       *)

SafeInv ==
  /\ TypeOK /\ DataInv
  /\ due \in [Clients -> SUBSET Row] /\ begun \in [Clients -> SUBSET Row]
  /\ rows \in [Clients -> Seq(SUBSET Row)]
  /\ marker \in [Clients -> Nat \X Nat]

LEMMA InitSafe == Init => SafeInv
<1> SUFFICES ASSUME Init PROVE SafeInv
  OBVIOUS
<1>1. uploads \in Uploads
  <2> DEFINE u == Upload("none", 0)
  <2>1. u \in UploadRecords /\ u.state = "none"
    BY UploadType
  <2>2. uploads = [i \in Ids |-> u]
    BY DEF Init
  <2> HIDE DEF u
  <2> QED
    BY <2>1, <2>2 DEF Uploads
<1>2. DataInv
  BY <1>1 DEF Init, DataInv
<1>3. TypeOK
  BY <1>1 DEF Init, TypeOK, Uploads
<1> QED
  BY <1>2, <1>3 DEF Init, SafeInv

\* An answer leaves the call's variables in their domains.
LEMMA AnswerType ==
  ASSUME SafeInv, NEW c \in Clients, NEW a \in {"none", "ok", "badrequest", "error"},
         Answer(c, a)
  PROVE  /\ stage'   \in [Clients -> {"idle", "call", "done"}]
         /\ stage'[c] = "done" /\ \A d \in Clients \ {c} : stage'[d] = stage[d]
         /\ answer'  \in [Clients -> {"none", "ok", "badrequest", "error"}]
         /\ attempt' \in [Clients -> 0 .. MaxAttempts]
         /\ landed'  \in [Clients -> 0 .. MaxAttempts]
         /\ result'  \in [Clients -> {"none", "ok", "refused"}]
         /\ marker'  \in [Clients -> Nat \X Nat]
  BY DEF SafeInv, TypeOK, Answer

LEMMA ServesSafe ==
  ASSUME SafeInv, NEW t, CallTask(t), Serves(t)
  PROVE  /\ uploads' \in [Ids -> UploadRecords] /\ uploads' \in Uploads
         /\ objects' \in [Keys -> Seq(Bodies)] /\ asked' \in [Keys -> Seq(Bodies)]
         /\ objects' = asked'
         /\ due' \in [Clients -> SUBSET Row] /\ begun' \in [Clients -> SUBSET Row]
<1>1. /\ uploads' \in Uploads
      /\ objects' \in [Keys -> Seq(Bodies)] /\ objects' = asked'
      /\ UNCHANGED <<uploads, due, begun>> \/ Change(uploads')
  BY ServesData DEF SafeInv
<1>2. \A d \in Clients : RowsOf(uploads', task[d]) \subseteq Row
  BY <1>1, RowsType
<1>3. due' \in [Clients -> SUBSET Row] /\ begun' \in [Clients -> SUBSET Row]
  BY <1>1, <1>2 DEF SafeInv, Change
<1> QED
  BY <1>1, <1>3 DEF Uploads

\* The calls given up are requests that reach the backend.
LEMMA GiveUpSafe ==
  ASSUME SafeInv, NEW c \in Clients, Calling(c), GiveUp(c)
  PROVE  /\ strays' \subseteq UNION {Requests[d] : d \in Clients}
         /\ \A t \in strays' : CallTask(t)
<1>1. CallTask(task[c])
  BY DEF SafeInv, DataInv, Calling
<1>2. task[c] # NoTask
  BY <1>1 DEF CallTask, NoTask, Task
<1>3. task[c] \in Requests[c]
  BY <1>2 DEF SafeInv, TypeOK
<1>4. strays \subseteq UNION {Requests[d] : d \in Clients} /\ \A t \in strays : CallTask(t)
  BY DEF SafeInv, TypeOK, DataInv
<1>5. strays' \subseteq strays \cup {task[c]}
  BY DEF GiveUp
<1> QED
  BY <1>1, <1>3, <1>4, <1>5

LEMMA RequestSafe ==
  ASSUME SafeInv, NEW c \in Clients, NEW t \in Requests[c], Request(c, t)
  PROVE  SafeInv'
<1> USE DEF SafeInv
<1>1. GoodTask(t) /\ t \in Tasks
  BY RequestsAssumption DEF GoodTask
<1>2. task' = [task EXCEPT ![c] = t] /\ UNCHANGED <<uploads, objects, strays, asked>>
  BY DEF Request, backend
<1>3. /\ stage' \in [Clients -> {"idle", "call", "done"}]
      /\ \A d \in Clients \ {c} : stage'[d] = stage[d]
      /\ stage'[c] = "call" => ~BadRequest(t)
      /\ answer' \in [Clients -> {"none", "ok", "badrequest", "error"}]
      /\ attempt' \in [Clients -> 0 .. MaxAttempts] /\ landed' \in [Clients -> 0 .. MaxAttempts]
      /\ result' \in [Clients -> {"none", "ok", "refused"}]
      /\ marker' \in [Clients -> Nat \X Nat]
  <2>1. CASE BadRequest(t)
    <3>1. Answer(c, "badrequest")
      BY <2>1 DEF Request
    <3> QED
      BY <3>1, AnswerType
  <2>2. CASE ~BadRequest(t)
    BY <2>2 DEF Request, calls, TypeOK
  <2> QED
    BY <2>1, <2>2
<1>4. \A d \in Clients : task'[d] = IF d = c THEN t ELSE task[d]
  BY <1>2 DEF DataInv
<1>5. TypeOK'
  BY <1>2, <1>3, <1>4 DEF TypeOK
<1>6. ~BadRequest(t) => CallTask(t) \/ (GoodTask(t) /\ IsListing(t))
  BY <1>1 DEF BadRequest, CallTask, IsListing, Tasks
<1>7. DataInv'
  <2>1. task' \in [Clients -> {x \in Tasks : GoodTask(x)} \cup {NoTask}]
    BY <1>1, <1>2 DEF DataInv
  <2>2. \A d \in Clients : stage'[d] = "call" =>
          CallTask(task'[d]) \/ (GoodTask(task'[d]) /\ IsListing(task'[d]))
    BY <1>3, <1>4, <1>6 DEF DataInv
  <2> QED
    BY <1>2, <2>1, <2>2 DEF DataInv
<1>8. RowsOf(uploads, t) \subseteq Row
  BY RowsType DEF DataInv
<1>9. /\ due' \in [Clients -> SUBSET Row] /\ begun' \in [Clients -> SUBSET Row]
      /\ rows' \in [Clients -> Seq(SUBSET Row)]
  BY <1>8 DEF Request
<1> QED
  BY <1>3, <1>5, <1>7, <1>9

\* An action that leaves the backend and the requests alone.
LEMMA GatewaySafe ==
  ASSUME SafeInv, UNCHANGED <<backend, history, task>>,
         stage' \in [Clients -> {"idle", "call", "done"}],
         \A c \in Clients : stage'[c] = "call" => stage[c] = "call",
         answer' \in [Clients -> {"none", "ok", "badrequest", "error"}],
         attempt' \in [Clients -> 0 .. MaxAttempts], landed' \in [Clients -> 0 .. MaxAttempts],
         result' \in [Clients -> {"none", "ok", "refused"}],
         marker' \in [Clients -> Nat \X Nat], rows' \in [Clients -> Seq(SUBSET Row)],
         strays' \subseteq UNION {Requests[d] : d \in Clients},
         \A t \in strays' : CallTask(t)
  PROVE  SafeInv'
<1>1. TypeOK'
  BY DEF SafeInv, TypeOK, backend, history
<1>2. DataInv'
  BY DEF SafeInv, DataInv, backend, history
<1> QED
  BY <1>1, <1>2 DEF SafeInv, history

\* A call is sent, served, answered, sent again or given up.
LEMMA CallSafe ==
  ASSUME SafeInv, NEW c \in Clients,
         Send(c) \/ Land(c) \/ Return(c) \/ Retry(c) \/ Fail(c)
  PROVE  SafeInv'
<1> USE DEF SafeInv
<1>1. CASE Send(c)
  <2>1. attempt' \in [Clients -> 0 .. MaxAttempts]
    BY <1>1 DEF Send, TypeOK
  <2> QED
    BY <1>1, <2>1, GatewaySafe DEF Send, TypeOK, DataInv
<1>2. CASE Land(c)
  <2>1. CallTask(task[c]) /\ Serves(task[c])
    BY <1>2 DEF Land, Calling, DataInv
  <2>2. /\ uploads' \in [Ids -> UploadRecords] /\ uploads' \in Uploads
        /\ objects' \in [Keys -> Seq(Bodies)] /\ asked' \in [Keys -> Seq(Bodies)]
        /\ objects' = asked'
        /\ due' \in [Clients -> SUBSET Row] /\ begun' \in [Clients -> SUBSET Row]
    BY <2>1, ServesSafe
  <2>3. /\ landed' \in [Clients -> 0 .. MaxAttempts]
        /\ result' \in [Clients -> {"none", "ok", "refused"}]
    BY <1>2 DEF Land, TypeOK
  <2>4. UNCHANGED <<task, stage, answer, attempt, rows, marker, strays>>
    BY <1>2 DEF Land
  <2>5. TypeOK' /\ DataInv'
    BY <2>2, <2>3, <2>4 DEF TypeOK, DataInv
  <2> QED
    BY <2>2, <2>4, <2>5
<1>3. CASE Return(c)
  <2>1. PICK a \in {"ok", "error"} : Answer(c, a)
    BY <1>3 DEF Return
  <2>2. UNCHANGED <<backend, history, task, rows, strays>>
    BY <1>3 DEF Return
  <2> QED
    BY <2>1, <2>2, AnswerType, GatewaySafe DEF TypeOK, DataInv
<1>4. CASE Retry(c)
  <2>1. attempt' \in [Clients -> 0 .. MaxAttempts]
    BY <1>4 DEF Retry, TypeOK
  <2> QED
    BY <1>4, <2>1, GiveUpSafe, GatewaySafe DEF Retry, TypeOK
<1>5. CASE Fail(c)
  <2>1. Answer(c, "error") /\ Calling(c) /\ GiveUp(c) /\ UNCHANGED <<backend, history, task, rows>>
    BY <1>5 DEF Fail
  <2> QED
    BY <2>1, AnswerType, GiveUpSafe, GatewaySafe
<1> QED
  BY <1>1, <1>2, <1>3, <1>4, <1>5

LEMMA StraySafe ==
  ASSUME SafeInv, NEW t \in strays, StrayServed(t)
  PROVE  SafeInv'
<1> USE DEF SafeInv
<1>1. CallTask(t) /\ Serves(t)
  BY DEF StrayServed, DataInv
<1>2. /\ uploads' \in [Ids -> UploadRecords] /\ uploads' \in Uploads
      /\ objects' \in [Keys -> Seq(Bodies)] /\ asked' \in [Keys -> Seq(Bodies)]
      /\ objects' = asked'
      /\ due' \in [Clients -> SUBSET Row] /\ begun' \in [Clients -> SUBSET Row]
  BY <1>1, ServesSafe
<1>3. /\ strays' \subseteq strays
      /\ UNCHANGED <<task, stage, answer, attempt, landed, result, rows, marker>>
  BY DEF StrayServed
<1>4. TypeOK' /\ DataInv'
  BY <1>2, <1>3 DEF TypeOK, DataInv
<1> QED
  BY <1>2, <1>3, <1>4

\* What is behind a marker are rows of the backend, in its order.
LEMMA BehindRows ==
  ASSUME SafeInv, NEW c \in Clients
  PROVE  Behind(c) \subseteq RowsOf(uploads, task[c]) /\ RowsOf(uploads, task[c]) \subseteq Row
  BY RowsType DEF Behind, SafeInv, DataInv

LEMMA PageSafe ==
  ASSUME SafeInv, NEW c \in Clients,
         (\E r \in RowsOf(uploads, task[c]) : TruncatedPage(c, r)) \/ LastPage(c) \/ ListFails(c)
  PROVE  SafeInv'
<1> USE DEF SafeInv
<1>0. Behind(c) \in SUBSET Row /\ RowsOf(uploads, task[c]) \subseteq Row
  BY BehindRows
<1>1. ASSUME NEW r \in RowsOf(uploads, task[c]), TruncatedPage(c, r)
      PROVE  SafeInv'
  <2> DEFINE P == {s \in Behind(c) : ~Before(r, s)}
  <2>1. rows' = [rows EXCEPT ![c] = Append(@, P)] /\ marker' = [marker EXCEPT ![c] = r]
    BY <1>1 DEF TruncatedPage, NextMarker
  <2>2. P \in SUBSET Row /\ r \in Nat \X Nat
    BY <1>0 DEF Row
  <2> HIDE DEF P
  <2>3. rows' \in [Clients -> Seq(SUBSET Row)] /\ marker' \in [Clients -> Nat \X Nat]
    BY <2>1, <2>2
  <2> QED
    BY <1>1, <2>3, GatewaySafe DEF TruncatedPage, TypeOK, DataInv
<1>2. CASE LastPage(c)
  <2>1. rows' \in [Clients -> Seq(SUBSET Row)]
    BY <1>0, <1>2 DEF LastPage
  <2>2. Answer(c, "ok") /\ UNCHANGED <<backend, history, task, strays>>
    BY <1>2 DEF LastPage
  <2> QED
    BY <2>1, <2>2, AnswerType, GatewaySafe DEF TypeOK, DataInv
<1>3. CASE ListFails(c)
  <2>1. Answer(c, "error") /\ UNCHANGED <<backend, history, task, rows, strays>>
    BY <1>3 DEF ListFails
  <2> QED
    BY <2>1, AnswerType, GatewaySafe DEF TypeOK, DataInv
<1> QED
  BY <1>1, <1>2, <1>3

LEMMA StutterSafe == ASSUME SafeInv, UNCHANGED vars PROVE SafeInv'
<1>1. TypeOK'
  BY DEF vars, backend, gateway, history, SafeInv, TypeOK
<1>2. DataInv'
  BY DEF vars, backend, gateway, history, SafeInv, DataInv
<1> QED
  BY <1>1, <1>2 DEF vars, backend, gateway, history, SafeInv

LEMMA NextSafe == SafeInv /\ [Next]_vars => SafeInv'
<1> SUFFICES ASSUME SafeInv, [Next]_vars PROVE SafeInv'
  OBVIOUS
<1>1. ASSUME NEW c \in Clients, NEW t \in Requests[c], Request(c, t) PROVE SafeInv'
  BY <1>1, RequestSafe
<1>2. ASSUME NEW c \in Clients, Serve(c) PROVE SafeInv'
  BY <1>2, CallSafe, PageSafe DEF Serve
<1>3. ASSUME NEW t \in strays, StrayServed(t) PROVE SafeInv'
  BY <1>3, StraySafe
<1> QED
  BY <1>1, <1>2, <1>3, StutterSafe DEF Next

LEMMA SafeInvariant == Spec => []SafeInv
<1>1. Init => SafeInv
  BY InitSafe
<1>2. SafeInv /\ [Next]_vars => SafeInv'
  BY NextSafe
<1> QED
  BY <1>1, <1>2, PTL DEF Spec

\* Every variable of the gateway and of the backend stays in its domain, whatever
\* is requested, retried and served late.
THEOREM MultipartTypeCorrect == Spec => []TypeOK
<1>1. SafeInv => TypeOK
  BY DEF SafeInv
<1> QED
  BY <1>1, SafeInvariant, PTL

\* CompleteMultipart: an object is made of the parts some client listed, with the
\* bodies it named and in its order, for any clients, part numbers and retries.
THEOREM CompletedObjectsCorrect == Spec => []CompletedIsAsAsked
<1>1. SafeInv => CompletedIsAsAsked
  BY DEF SafeInv, DataInv, CompletedIsAsAsked
<1> QED
  BY <1>1, SafeInvariant, PTL

-----------------------------------------------------------------------------
(* What a page loop has collected, while uploads come and go.              *)

\* The pages R hold rows of B only and none twice, and of those in D all that
\* are not behind the marker m.
Collected(R, m, D, B) ==
  /\ \A i \in DOMAIN R : R[i] \subseteq B /\ \A r \in R[i] : ~Before(m, r)
  /\ \A i, j \in DOMAIN R : i < j => \A r \in R[i], s \in R[j] : Before(r, s)
  /\ \A r \in D : Before(m, r) \/ \E i \in DOMAIN R : r \in R[i]

\* The listing R is complete.
Complete(R, D, B) ==
  /\ D \subseteq UNION {R[i] : i \in DOMAIN R}
  /\ UNION {R[i] : i \in DOMAIN R} \subseteq B
  /\ \A i, j \in DOMAIN R : i < j => \A r \in R[i], s \in R[j] : Before(r, s)

PageInv(c) ==
  /\ due[c] \subseteq RowsOf(uploads, task[c]) /\ RowsOf(uploads, task[c]) \subseteq begun[c]
  /\ stage[c] # "call" => marker[c] = <<0, 0>>
  /\ stage[c] = "call" => answer[c] = "none"
  /\ Listing(c) =>
       /\ task[c].op = "uploads" => marker[c] = <<0, 0>> \/ marker[c][2] # 0
       /\ Collected(rows[c], marker[c], due[c], begun[c])
  /\ IsListing(task[c]) /\ answer[c] = "ok" => Complete(rows[c], due[c], begun[c])

ListInv == \A c \in Clients : PageInv(c)

\* With what is owed shrinking and what may be shown growing, pages stay good.
LEMMA CollectedMonotone ==
  ASSUME NEW R, NEW m, NEW D, NEW B, NEW D2, NEW B2, D2 \subseteq D, B \subseteq B2
  PROVE  /\ Collected(R, m, D, B) => Collected(R, m, D2, B2)
         /\ Complete(R, D, B) => Complete(R, D2, B2)
  BY DEF Collected, Complete

\* The next page, of the rows behind m up to x, and the pages before it.
LEMMA NextPage ==
  ASSUME NEW R \in Seq(SUBSET Row), NEW m \in Nat \X Nat, NEW D \in SUBSET Row, NEW B,
         NEW rs \in SUBSET Row, D \subseteq rs, rs \subseteq B, Collected(R, m, D, B),
         NEW x \in rs, Before(m, x),
         NEW P, P = {s \in rs : Before(m, s) /\ ~Before(x, s)}
  PROVE  Collected(Append(R, P), x, D, B)
<1> DEFINE R2 == Append(R, P)
<1>1. \A r \in Row : ~Before(m, r) => Before(r, x) /\ ~Before(x, r)
  BY DEF Before, Row
<1>2. \A r \in Row, s \in P : ~Before(m, r) => Before(r, s)
  BY DEF Before, Row
<1>3. \A i \in DOMAIN R : R[i] \subseteq Row
  BY ElementOfSeq
<1>4. \A r \in D : ~Before(m, r) \/ Before(x, r) \/ r \in P
  OBVIOUS
<1>5. P \subseteq B /\ \A s \in P : ~Before(x, s)
  OBVIOUS
<1>10. P \in SUBSET Row
  OBVIOUS
<1>6. /\ DOMAIN R = 1 .. Len(R) /\ DOMAIN R2 = 1 .. Len(R) + 1 /\ Len(R) \in Nat
      /\ \A i \in DOMAIN R : R2[i] = R[i]
      /\ R2[Len(R) + 1] = P
  BY <1>10
<1> HIDE DEF R2
<1>7. \A i \in DOMAIN R2 : R2[i] \subseteq B /\ \A r \in R2[i] : ~Before(x, r)
  BY <1>1, <1>3, <1>5, <1>6 DEF Collected
<1>8. ASSUME NEW i \in DOMAIN R2, NEW j \in DOMAIN R2, i < j, NEW r \in R2[i], NEW s \in R2[j]
      PROVE  Before(r, s)
  <2>1. CASE j \in DOMAIN R
    BY <1>6, <1>8, <2>1 DEF Collected
  <2>2. CASE j = Len(R) + 1
    BY <1>2, <1>3, <1>6, <1>8, <2>2 DEF Collected
  <2> QED
    BY <1>6, <2>1, <2>2
<1>9. \A r \in D : Before(x, r) \/ \E i \in DOMAIN R2 : r \in R2[i]
  BY <1>4, <1>6 DEF Collected
<1> QED
  BY <1>7, <1>8, <1>9 DEF Collected, R2

\* The last page, of all the rows behind m.
LEMMA FinalPage ==
  ASSUME NEW R \in Seq(SUBSET Row), NEW m \in Nat \X Nat, NEW D \in SUBSET Row, NEW B,
         NEW rs \in SUBSET Row, D \subseteq rs, rs \subseteq B, Collected(R, m, D, B),
         NEW P, P = {s \in rs : Before(m, s)}
  PROVE  Complete(Append(R, P), D, B)
<1> DEFINE R2 == Append(R, P)
<1>1. \A r \in Row, s \in P : ~Before(m, r) => Before(r, s)
  BY DEF Before, Row
<1>2. \A i \in DOMAIN R : R[i] \subseteq Row
  BY ElementOfSeq
<1>3. \A r \in D : ~Before(m, r) \/ r \in P
  OBVIOUS
<1>4. P \subseteq B
  OBVIOUS
<1>10. P \in SUBSET Row
  OBVIOUS
<1>5. /\ DOMAIN R = 1 .. Len(R) /\ DOMAIN R2 = 1 .. Len(R) + 1 /\ Len(R) \in Nat
      /\ \A i \in DOMAIN R : R2[i] = R[i]
      /\ R2[Len(R) + 1] = P
  BY <1>10
<1> HIDE DEF R2
<1>6. \A i \in DOMAIN R2 : R2[i] \subseteq B
  BY <1>4, <1>5 DEF Collected
<1>7. ASSUME NEW i \in DOMAIN R2, NEW j \in DOMAIN R2, i < j, NEW r \in R2[i], NEW s \in R2[j]
      PROVE  Before(r, s)
  <2>1. CASE j \in DOMAIN R
    BY <1>5, <1>7, <2>1 DEF Collected
  <2>2. CASE j = Len(R) + 1
    BY <1>1, <1>2, <1>5, <1>7, <2>2 DEF Collected
  <2> QED
    BY <1>5, <2>1, <2>2
<1>8. \A r \in D : \E i \in DOMAIN R2 : r \in R2[i]
  BY <1>3, <1>5 DEF Collected
<1> QED
  BY <1>6, <1>7, <1>8 DEF Complete, R2

LEMMA InitList == Init => ListInv
  BY DEF Init, ListInv, PageInv, Listing, IsListing, NoTask, Task, RowsOf

\* A client that starts listing has seen nothing and owes what there is.
LEMMA RequestList ==
  ASSUME SafeInv, ListInv, NEW c \in Clients, NEW t \in Requests[c], Request(c, t)
  PROVE  ListInv'
<1> USE DEF SafeInv
<1>1. ASSUME NEW d \in Clients, d # c PROVE PageInv(d)'
  <2>1. /\ UNCHANGED <<uploads, task[d], stage[d], answer[d], marker[d], rows[d], due[d], begun[d]>>
    BY <1>1 DEF Request, Answer, calls, backend, TypeOK, DataInv
  <2> QED
    BY <2>1 DEF ListInv, PageInv, Listing
<1>2. PageInv(c)'
  <2>1. /\ task'[c] = t /\ uploads' = uploads /\ rows'[c] = <<>>
        /\ due'[c] = RowsOf(uploads, t) /\ begun'[c] = RowsOf(uploads, t)
    BY DEF Request, backend, DataInv
  <2>2. marker'[c] = <<0, 0>> /\ stage'[c] \in {"call", "done"}
        /\ answer'[c] = IF stage'[c] = "call" THEN "none" ELSE "badrequest"
    BY DEF Request, Answer, calls, TypeOK, ListInv, PageInv
  <2>3. RowsOf(uploads, t) \subseteq Row
    BY RowsType DEF DataInv
  <2>4. \A r \in RowsOf(uploads, t) : Before(<<0, 0>>, r)
    BY <2>3 DEF Before, Row
  <2>5. Collected(rows'[c], marker'[c], due'[c], begun'[c])
    BY <2>1, <2>2, <2>4 DEF Collected
  <2> QED
    BY <2>1, <2>2, <2>5 DEF PageInv
<1> QED
  BY <1>1, <1>2 DEF ListInv

\* The backend serves a call while listings are under way.
LEMMA ServesList ==
  ASSUME SafeInv, ListInv, NEW t, CallTask(t), Serves(t),
         UNCHANGED <<task, stage, answer, rows, marker>>
  PROVE  ListInv'
<1> USE DEF SafeInv
<1>1. UNCHANGED <<uploads, due, begun>> \/ Change(uploads')
  BY ServesData
<1>2. ASSUME NEW c \in Clients PROVE PageInv(c)'
  <2>1. CASE UNCHANGED <<uploads, due, begun>>
    BY <2>1 DEF ListInv, PageInv, Listing
  <2>2. CASE Change(uploads')
    <3>1. /\ due'[c] = due[c] \cap RowsOf(uploads', task[c])
          /\ begun'[c] = begun[c] \cup RowsOf(uploads', task[c])
      BY <2>2 DEF Change
    <3>2. /\ Collected(rows[c], marker[c], due[c], begun[c])
               => Collected(rows[c], marker[c], due'[c], begun'[c])
          /\ Complete(rows[c], due[c], begun[c]) => Complete(rows[c], due'[c], begun'[c])
      BY <3>1, CollectedMonotone
    <3> QED
      BY <3>1, <3>2 DEF ListInv, PageInv, Listing
  <2> QED
    BY <1>1, <2>1, <2>2
<1> QED
  BY <1>2 DEF ListInv

\* An answer, other than the last page's, ends what its client was doing.
LEMMA AnswerList ==
  ASSUME SafeInv, ListInv, NEW c \in Clients, NEW a \in {"ok", "error"}, Answer(c, a),
         ~IsListing(task[c]) \/ a = "error", UNCHANGED <<uploads, task, rows, due, begun>>
  PROVE  ListInv'
<1> USE DEF SafeInv
<1>1. ASSUME NEW d \in Clients, d # c PROVE PageInv(d)'
  BY <1>1 DEF Answer, ListInv, PageInv, Listing
<1>2. PageInv(c)'
  BY DEF Answer, ListInv, PageInv, Listing, TypeOK
<1> QED
  BY <1>1, <1>2 DEF ListInv

LEMMA CallList ==
  ASSUME SafeInv, ListInv, NEW c \in Clients,
         Send(c) \/ Land(c) \/ Return(c) \/ Retry(c) \/ Fail(c)
  PROVE  ListInv'
<1>1. CASE Send(c) \/ Retry(c)
  <2>1. UNCHANGED <<uploads, task, stage, answer, rows, marker, due, begun>>
    BY <1>1 DEF Send, Retry, backend, history
  <2> QED
    BY <2>1 DEF ListInv, PageInv, Listing
<1>2. CASE Land(c)
  <2>1. CallTask(task[c]) /\ Serves(task[c])
    BY <1>2 DEF Land, Calling, SafeInv, DataInv
  <2>2. UNCHANGED <<task, stage, answer, rows, marker>>
    BY <1>2 DEF Land
  <2> QED
    BY <2>1, <2>2, ServesList
<1>3. CASE Return(c) \/ Fail(c)
  <2>1. PICK a \in {"ok", "error"} : Answer(c, a)
    BY <1>3 DEF Return, Fail
  <2>2. ~IsListing(task[c]) /\ UNCHANGED <<uploads, task, rows, due, begun>>
    BY <1>3 DEF Return, Fail, Calling, backend, history
  <2> QED
    BY <2>1, <2>2, AnswerList
<1> QED
  BY <1>1, <1>2, <1>3

\* Without an upload id, a marker is that of the first page.
LEMMA BehindMarker ==
  ASSUME SafeInv, ListInv, NEW c \in Clients, Listing(c)
  PROVE  Behind(c) = {r \in RowsOf(uploads, task[c]) : Before(marker[c], r)}
<1>1. RowsOf(uploads, task[c]) \subseteq Row
  BY BehindRows
<1>2. CASE task[c].op = "uploads" /\ marker[c][2] = 0
  <2>1. marker[c] = <<0, 0>>
    BY <1>2 DEF ListInv, PageInv
  <2>2. \A r \in Row : 0 < r[1] <=> Before(<<0, 0>>, r)
    BY DEF Before, Row
  <2> QED
    BY <1>1, <1>2, <2>1, <2>2 DEF Behind
<1>3. CASE ~(task[c].op = "uploads" /\ marker[c][2] = 0)
  BY <1>3 DEF Behind
<1> QED
  BY <1>2, <1>3

LEMMA PageList ==
  ASSUME SafeInv, ListInv, NEW c \in Clients,
         (\E r \in RowsOf(uploads, task[c]) : TruncatedPage(c, r)) \/ LastPage(c) \/ ListFails(c)
  PROVE  ListInv'
<1> USE DEF SafeInv
<1> DEFINE rs == RowsOf(uploads, task[c])
<1>0. /\ Listing(c) /\ PageInv(c) /\ rs \in SUBSET Row /\ due[c] \in SUBSET Row
      /\ due[c] \subseteq rs /\ rs \subseteq begun[c]
      /\ Collected(rows[c], marker[c], due[c], begun[c])
      /\ rows[c] \in Seq(SUBSET Row) /\ marker[c] \in Nat \X Nat
  BY BehindRows DEF TruncatedPage, LastPage, ListFails, ListInv, PageInv
<1>1. ASSUME NEW r \in rs, TruncatedPage(c, r)
      PROVE  ListInv'
  <2> DEFINE P == {s \in rs : Before(marker[c], s) /\ ~Before(r, s)}
  <2>1. {s \in Behind(c) : ~Before(r, s)} = P /\ Before(marker[c], r)
    BY <1>0, <1>1, BehindMarker DEF TruncatedPage
  <2>2. /\ rows' = [rows EXCEPT ![c] = Append(@, P)] /\ marker' = [marker EXCEPT ![c] = r]
        /\ UNCHANGED <<uploads, task, stage, answer, due, begun>>
    BY <1>1, <2>1 DEF TruncatedPage, NextMarker, backend, history
  <2>3. task[c].op = "uploads" => r[2] # 0
    BY RowsType DEF DataInv
  <2>4. P = {s \in rs : Before(marker[c], s) /\ ~Before(r, s)}
    OBVIOUS
  <2> HIDE DEF P, rs
  <2>5. Collected(Append(rows[c], P), r, due[c], begun[c])
    BY <1>0, <1>1, <2>1, <2>4, NextPage
  <2>6. ASSUME NEW d \in Clients, d # c PROVE PageInv(d)'
    BY <2>2, <2>6 DEF ListInv, PageInv, Listing
  <2>7. rows'[c] = Append(rows[c], P) /\ marker'[c] = r
    BY <2>2
  <2>8. PageInv(c)'
    BY <1>0, <2>2, <2>5, <2>3, <2>7 DEF PageInv, Listing
  <2> QED
    BY <2>6, <2>8 DEF ListInv
<1>2. CASE LastPage(c)
  <2> DEFINE P == {s \in rs : Before(marker[c], s)}
  <2>1. Behind(c) = P
    BY <1>0, BehindMarker
  <2>2. /\ rows' = [rows EXCEPT ![c] = Append(@, P)] /\ Answer(c, "ok")
        /\ UNCHANGED <<uploads, task, due, begun>>
    BY <1>2, <2>1 DEF LastPage, backend, history
  <2>3. P = {s \in rs : Before(marker[c], s)}
    OBVIOUS
  <2> HIDE DEF P, rs
  <2>4. Complete(Append(rows[c], P), due[c], begun[c])
    BY <1>0, <2>3, FinalPage
  <2>5. ASSUME NEW d \in Clients, d # c PROVE PageInv(d)'
    BY <2>2, <2>5 DEF Answer, ListInv, PageInv, Listing
  <2>6. /\ rows'[c] = Append(rows[c], P) /\ marker'[c] = <<0, 0>>
        /\ stage'[c] = "done"
    BY <2>2 DEF Answer, TypeOK
  <2>7. PageInv(c)'
    BY <1>0, <2>2, <2>4, <2>6 DEF PageInv, Listing, rs
  <2> QED
    BY <2>5, <2>7 DEF ListInv
<1>3. CASE ListFails(c)
  <2>1. Answer(c, "error") /\ UNCHANGED <<uploads, task, rows, due, begun>>
    BY <1>3 DEF ListFails, backend, history
  <2> QED
    BY <2>1, AnswerList
<1> QED
  BY <1>1, <1>2, <1>3

LEMMA NextList == SafeInv /\ ListInv /\ [Next]_vars => ListInv'
<1> SUFFICES ASSUME SafeInv, ListInv, [Next]_vars PROVE ListInv'
  OBVIOUS
<1>1. ASSUME NEW c \in Clients, NEW t \in Requests[c], Request(c, t) PROVE ListInv'
  BY <1>1, RequestList
<1>2. ASSUME NEW c \in Clients, Serve(c) PROVE ListInv'
  BY <1>2, CallList, PageList DEF Serve
<1>3. ASSUME NEW t \in strays, StrayServed(t) PROVE ListInv'
  BY <1>3, ServesList DEF StrayServed, SafeInv, DataInv
<1>4. CASE UNCHANGED vars
  BY <1>4 DEF vars, backend, gateway, history, ListInv, PageInv, Listing
<1> QED
  BY <1>1, <1>2, <1>3, <1>4 DEF Next

\* ListParts and ListMultipartUploads: whatever comes and goes between the pages, a
\* listing that succeeds has every row there was all along, no other and none twice.
THEOREM ListingsCorrect == Spec => []ListingsAreComplete
<1>1. Init => SafeInv /\ ListInv
  BY InitSafe, InitList
<1>2. SafeInv /\ ListInv /\ [Next]_vars => SafeInv' /\ ListInv'
  BY NextSafe, NextList
<1>3. ListInv => ListingsAreComplete
  BY DEF ListInv, PageInv, Complete, ListingsAreComplete
<1> QED
  BY <1>1, <1>2, <1>3, PTL DEF Spec
=============================================================================
