--------------------------- MODULE ObjectHandlers ---------------------------
(***************************************************************************)
(* The object handlers of handlers.go (GET, HEAD, PUT with its conditional *)
(* headers, CopyObject) as the sequence of Store calls each of them makes. *)
(* A Store read is a call that returns later; a Store write is an attempt  *)
(* of the backend client that may land, fail, be retried or land late.     *)
(*                                                                         *)
(* What a read returns and what a landing write changes belongs to the     *)
(* modules that extend this one: MergedStore, where the store is one       *)
(* atomic map, and OverlayObjects, the two-layer overlayStore.             *)
(***************************************************************************)
EXTENDS Naturals

CONSTANTS Clients,      \* concurrent requests, one goroutine each
          Keys,         \* object keys; the bucket is part of a key
          Values,       \* object versions; ETags are equal iff versions are
          None,         \* no object, or no If-Match header
          MaxAttempts,  \* attempts the S3 client makes for one PutObject
          Requests      \* the requests clients send

ASSUME NoneAssumption     == None \notin Values
ASSUME AttemptsAssumption == MaxAttempts \in Nat \ {0}

MaybeValue == Values \cup {None}

\* A request: src is the key its Store reads address, key the one it writes.
ReadTask(k)       == [op |-> "read", src |-> k, key |-> k, val |-> None,
                      ifNone |-> FALSE, ifMatch |-> None]
CopyTask(s, k)    == [op |-> "copy", src |-> s, key |-> k, val |-> None,
                      ifNone |-> FALSE, ifMatch |-> None]
PutTask(k, v, n, m) == [op |-> "put", src |-> k, key |-> k, val |-> v,
                        ifNone |-> n, ifMatch |-> m]
NoTask            == [op |-> "none", src |-> None, key |-> None, val |-> None,
                      ifNone |-> FALSE, ifMatch |-> None]

Tasks == {ReadTask(k) : k \in Keys}
           \cup {CopyTask(s, k) : s \in Keys, k \in Keys}
           \cup {PutTask(k, v, n, m) : k \in Keys, v \in Values,
                                       n \in BOOLEAN, m \in MaybeValue}

ASSUME RequestsAssumption == Requests \subseteq Tasks

VARIABLES
  task,     \* task[c]: the request c serves
  stage,    \* stage[c]: which Store call of its handler c has reached
  at,       \* at[c]: where the current Store read is
  got,      \* got[c]: what the last Store read returned
  attempt,  \* attempt[c]: number of the PutObject attempt in flight, 0 before
  landed,   \* landed[c]: the last attempt the backend applied, 0 if none
  ans,      \* ans[c]: the answer written to the client
  strays    \* writes given up by the gateway that may still reach the backend

handlerVars == <<task, stage, at, got, attempt, landed, ans, strays>>

Stages  == {"idle", "ifNone", "ifMatch", "get", "put", "done"}
Answers == {"none", "value", "notfound", "ok", "precondition", "error"}
Writes  == [key : Keys, val : Values]

HandlerInit ==
  /\ task    = [c \in Clients |-> NoTask]
  /\ stage   = [c \in Clients |-> "idle"]
  /\ at      = [c \in Clients |-> "none"]
  /\ got     = [c \in Clients |-> None]
  /\ attempt = [c \in Clients |-> 0]
  /\ landed  = [c \in Clients |-> 0]
  /\ ans     = [c \in Clients |-> "none"]
  /\ strays  = {}

\* handlePutObject looks at If-None-Match first, then at If-Match.
FirstStage(t) ==
  IF t.op # "put" THEN "get"
  ELSE IF t.ifNone THEN "ifNone"
  ELSE IF t.ifMatch # None THEN "ifMatch" ELSE "put"

EnterStage(c, s) ==
  /\ stage' = [stage EXCEPT ![c] = s]
  /\ at'    = [at EXCEPT ![c] = IF s = "put" THEN "none" ELSE "called"]

Invoke(c, t) ==
  /\ stage[c] \in {"idle", "done"}
  /\ task'    = [task EXCEPT ![c] = t]
  /\ EnterStage(c, FirstStage(t))
  /\ got'     = [got EXCEPT ![c] = None]
  /\ attempt' = [attempt EXCEPT ![c] = 0]
  /\ landed'  = [landed EXCEPT ![c] = 0]
  /\ ans'     = [ans EXCEPT ![c] = "none"]
  /\ UNCHANGED strays

Finish(c, a) ==
  /\ stage' = [stage EXCEPT ![c] = "done"]
  /\ at'    = [at EXCEPT ![c] = "none"]
  /\ ans'   = [ans EXCEPT ![c] = a]

-----------------------------------------------------------------------------
(* What a handler does with the answer of a Store read.                    *)

\* handleGetObject without a Range header, and handleHeadObject.
ReadAnswered(c) ==
  /\ at[c] = "returned" /\ stage[c] = "get" /\ task[c].op = "read"
  /\ Finish(c, IF got[c] = None THEN "notfound" ELSE "value")
  /\ UNCHANGED <<task, got, attempt, landed, strays>>

Mutant_CopySourceMissing(c) ==           \* keeps looking for the source
  /\ at[c] = "returned" /\ stage[c] = "get" /\ task[c].op = "copy"
  /\ got[c] = None
  /\ EnterStage(c, "get")
  /\ UNCHANGED <<task, got, attempt, landed, ans, strays>>

CopySourceMissing(c) ==
  /\ at[c] = "returned" /\ stage[c] = "get" /\ task[c].op = "copy"
  /\ got[c] = None
  /\ Finish(c, "notfound")
  /\ UNCHANGED <<task, got, attempt, landed, strays>>

CopySourceFound(c) ==
  /\ at[c] = "returned" /\ stage[c] = "get" /\ task[c].op = "copy"
  /\ got[c] # None
  /\ EnterStage(c, "put")
  /\ UNCHANGED <<task, got, attempt, landed, ans, strays>>

CreateOnlyRefused(c) ==
  /\ at[c] = "returned" /\ stage[c] = "ifNone" /\ got[c] # None
  /\ Finish(c, "precondition")
  /\ UNCHANGED <<task, got, attempt, landed, strays>>

CreateOnlyAllowed(c) ==
  /\ at[c] = "returned" /\ stage[c] = "ifNone" /\ got[c] = None
  /\ EnterStage(c, IF task[c].ifMatch # None THEN "ifMatch" ELSE "put")
  /\ UNCHANGED <<task, got, attempt, landed, ans, strays>>

IfMatchRefused(c) ==
  /\ at[c] = "returned" /\ stage[c] = "ifMatch" /\ got[c] # task[c].ifMatch
  /\ Finish(c, "precondition")
  /\ UNCHANGED <<task, got, attempt, landed, strays>>

IfMatchAllowed(c) ==
  /\ at[c] = "returned" /\ stage[c] = "ifMatch" /\ got[c] = task[c].ifMatch
  /\ EnterStage(c, "put")
  /\ UNCHANGED <<task, got, attempt, landed, ans, strays>>

-----------------------------------------------------------------------------
(* Store.Put: the body is buffered, then PutObject is attempted up to      *)
(* MaxAttempts times by the S3 client.                                     *)

Payload(c) == IF task[c].op = "copy" THEN got[c] ELSE task[c].val

\* putBody reads what the client sends, for as long as it takes: the server has
\* no deadline for a body.  A copy's body comes from the store.
AwaitsBody(c) == stage[c] = "put" /\ task[c].op = "put" /\ attempt[c] = 0

BodyFails(c) ==         \* putBody: nothing was sent to the backend
  /\ stage[c] = "put" /\ attempt[c] = 0
  /\ Finish(c, "error")
  /\ UNCHANGED <<task, got, attempt, landed, strays>>

Mutant_PutSent(c) ==                     \* sends again after every failure
  /\ stage[c] = "put"
  /\ attempt' = [attempt EXCEPT ![c] = @ + 1]
  /\ UNCHANGED <<task, stage, at, got, landed, ans, strays>>

PutSent(c) ==
  /\ stage[c] = "put" /\ attempt[c] = 0
  /\ attempt' = [attempt EXCEPT ![c] = 1]
  /\ UNCHANGED <<task, stage, at, got, landed, ans, strays>>

\* The backend applies the attempt in flight; the extending module says to what.
Lands(c) ==
  /\ stage[c] = "put" /\ landed[c] < attempt[c]
  /\ landed' = [landed EXCEPT ![c] = attempt[c]]
  /\ UNCHANGED <<task, stage, at, got, attempt, ans, strays>>

PutAcked(c) ==
  /\ stage[c] = "put" /\ attempt[c] > 0 /\ landed[c] = attempt[c]
  /\ Finish(c, "ok")
  /\ UNCHANGED <<task, got, attempt, landed, strays>>

\* An attempt the gateway gives up on before it landed may still land later.
GiveUp(c) ==
  \/ UNCHANGED strays
  \/ /\ landed[c] < attempt[c]
     /\ strays' = strays \cup {[key |-> task[c].key, val |-> Payload(c)]}

PutRetried(c) ==
  /\ stage[c] = "put" /\ attempt[c] \in 1 .. (MaxAttempts - 1)
  /\ attempt' = [attempt EXCEPT ![c] = @ + 1]
  /\ GiveUp(c)
  /\ UNCHANGED <<task, stage, at, got, landed, ans>>

PutFails(c) ==
  /\ stage[c] = "put" /\ attempt[c] > 0
  /\ Finish(c, "error")
  /\ GiveUp(c)
  /\ UNCHANGED <<task, got, attempt, landed>>

\* A given-up write reaches the backend after all.
StrayArrives(w) ==
  /\ w \in strays
  /\ strays' = strays \ {w}
  /\ UNCHANGED <<task, stage, at, got, attempt, landed, ans>>

\* The steps that touch neither layer of the store.
HandlerStep(c) ==
  \/ ReadAnswered(c)
  \/ CopySourceMissing(c)
  \/ CopySourceFound(c)
  \/ CreateOnlyRefused(c)
  \/ CreateOnlyAllowed(c)
  \/ IfMatchRefused(c)
  \/ IfMatchAllowed(c)
  \/ BodyFails(c)
  \/ PutSent(c)
  \/ PutRetried(c)
  \/ PutFails(c)
=============================================================================
