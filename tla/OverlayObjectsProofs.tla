------------------------ MODULE OverlayObjectsProofs ------------------------
(***************************************************************************)
(* Proofs about OverlayObjects, for any clients, keys, values and number   *)
(* of attempts: its type invariant, the two safety invariants its runs     *)
(* check, and that it implements MergedStore.                              *)
(***************************************************************************)
EXTENDS OverlayObjects, TLAPS

Reading == {"get", "ifNone", "ifMatch"}

\* A Store read is under way only in a reading stage, of a real request.
ReadsHaveTask ==
  \A c \in Clients :
    /\ stage[c] # "idle" => task[c] \in Tasks
    /\ at[c] # "none" => stage[c] \in Reading
    /\ stage[c] \in {"ifNone", "ifMatch"} => task[c].op = "put"

\* What a put is about to send, or has given up, is an object.
PayloadIsValue == \A c \in Clients : stage[c] = "put" => Payload(c) \in Values

\* The inductive invariant about typing.
TypeInv == TypeOK /\ ReadsHaveTask /\ PayloadIsValue

LEMMA TaskFacts ==
  ASSUME NEW t \in Tasks
  PROVE  /\ t.src \in Keys /\ t.key \in Keys
         /\ t.op \in {"read", "copy", "put"}
         /\ t.op = "put" => t.val \in Values /\ t.src = t.key
         /\ t.ifNone \in BOOLEAN /\ t.ifMatch \in MaybeValue
         /\ t.ifNone => t.op = "put"
<1>1. CASE \E k \in Keys : t = ReadTask(k)
  BY <1>1 DEF ReadTask, MaybeValue
<1>2. CASE \E s \in Keys, k \in Keys : t = CopyTask(s, k)
  BY <1>2 DEF CopyTask, MaybeValue
<1>3. CASE \E k \in Keys, v \in Values, n \in BOOLEAN, m \in MaybeValue :
             t = PutTask(k, v, n, m)
  BY <1>3 DEF PutTask
<1> QED
  BY <1>1, <1>2, <1>3 DEF Tasks

LEMMA FirstStageFacts ==
  ASSUME NEW t \in Tasks
  PROVE  /\ FirstStage(t) \in {"get", "ifNone", "ifMatch", "put"}
         /\ FirstStage(t) # "get" => t.op = "put"
         /\ FirstStage(t) \in {"put", "ifMatch"} => ~t.ifNone
  BY TaskFacts DEF FirstStage

LEMMA InitTypeInv == Init => TypeInv
  BY AttemptsAssumption DEF Init, HandlerInit, TypeInv, TypeOK, ReadsHaveTask, PayloadIsValue,
     Stages, Answers, ATs, MaybeValue, Writes

LEMMA CallTypeInv ==
  ASSUME TypeInv, NEW c \in Clients, NEW t \in Requests, Call(c, t)
  PROVE  TypeInv'
<1>1. t \in Tasks
  BY RequestsAssumption
<1>2. t.src \in Keys /\ FirstStage(t) \in {"get", "ifNone", "ifMatch", "put"}
      /\ (FirstStage(t) # "get" => t.op = "put" /\ t.val \in Values)
  BY <1>1, TaskFacts, FirstStageFacts
<1>3. TypeOK'
  BY <1>1, <1>2, AttemptsAssumption
  DEF TypeInv, TypeOK, Call, Invoke, EnterStage, Stages, ATs, MaybeValue,
      Answers, storeVars
<1>4. ReadsHaveTask'
  BY <1>1, <1>2
  DEF TypeInv, TypeOK, ReadsHaveTask, Call, Invoke, EnterStage, Reading
<1>5. PayloadIsValue'
  BY <1>1, <1>2
  DEF TypeInv, TypeOK, PayloadIsValue, Payload, Call, Invoke, EnterStage
<1> QED
  BY <1>3, <1>4, <1>5 DEF TypeInv

LEMMA ServeTypeInv ==
  ASSUME TypeInv, NEW c \in Clients, Serve(c)
  PROVE  TypeInv'
<1> USE DEF TypeInv, TypeOK, ReadsHaveTask, PayloadIsValue, Payload, Stages,
            ATs, MaybeValue, Answers, Writes, Reading, storeVars, history
<1>0. \A d \in Clients : stage[d] # "idle" =>
        task[d].src \in Keys /\ task[d].key \in Keys
        /\ (task[d].op = "put" => task[d].val \in Values)
        /\ task[d].op \in {"read", "copy", "put"}
        /\ (task[d].ifNone => task[d].op = "put")
  BY TaskFacts
<1>1. CASE OverlayHit(c)
  BY <1>0, <1>1 DEF OverlayHit
<1>2. CASE OverlayMiss(c)
  BY <1>2 DEF OverlayMiss
<1>3. CASE BaselineAnswers(c)
  BY <1>0, <1>3 DEF BaselineAnswers
<1>4. CASE OverlayFails(c) \/ BaselineFails(c)
  BY <1>4 DEF OverlayFails, BaselineFails, Finish
<1>5. CASE WriteLands(c)
  BY <1>0, <1>5 DEF WriteLands, Lands
<1>6. CASE Acknowledge(c)
  BY <1>0, <1>6 DEF Acknowledge, PutAcked, Finish
<1>7. CASE HandlerStep(c) /\ UNCHANGED <<storeVars, history>>
  <2>1. CASE ReadAnswered(c) \/ CopySourceMissing(c)
             \/ CreateOnlyRefused(c) \/ IfMatchRefused(c)
    BY <1>7, <2>1 DEF ReadAnswered, CopySourceMissing, CreateOnlyRefused,
                      IfMatchRefused, Finish
  <2>2. CASE CopySourceFound(c)
    BY <1>7, <2>2 DEF CopySourceFound, EnterStage
  <2>3. CASE CreateOnlyAllowed(c)
    BY <1>7, <1>0, <2>3 DEF CreateOnlyAllowed, EnterStage
  <2>4. CASE IfMatchAllowed(c)
    BY <1>7, <1>0, <2>4 DEF IfMatchAllowed, EnterStage
  <2>5. CASE BodyFails(c)
    BY <1>7, <2>5 DEF BodyFails, Finish
  <2>6. CASE PutSent(c)
    BY <1>7, <2>6, AttemptsAssumption DEF PutSent
  <2>7. CASE PutRetried(c)
    BY <1>7, <1>0, <2>7, AttemptsAssumption DEF PutRetried, GiveUp
  <2>8. CASE PutFails(c)
    BY <1>7, <1>0, <2>8 DEF PutFails, GiveUp, Finish
  <2> QED
    BY <1>7, <2>1, <2>2, <2>3, <2>4, <2>5, <2>6, <2>7, <2>8 DEF HandlerStep
<1> QED
  BY <1>1, <1>2, <1>3, <1>4, <1>5, <1>6, <1>7 DEF Serve

LEMMA StrayTypeInv ==
  ASSUME TypeInv, NEW w \in strays, StrayLands(w)
  PROVE  TypeInv'
  BY DEF TypeInv, TypeOK, ReadsHaveTask, PayloadIsValue, Payload, StrayLands,
         StrayArrives, Writes, MaybeValue, history

LEMMA StutterTypeInv == TypeInv /\ UNCHANGED vars => TypeInv'
  BY DEF TypeInv, TypeOK, ReadsHaveTask, PayloadIsValue, Payload, vars,
         handlerVars, storeVars, history

LEMMA NextTypeInv == TypeInv /\ [Next]_vars => TypeInv'
  BY CallTypeInv, ServeTypeInv, StrayTypeInv, StutterTypeInv DEF Next

LEMMA SpecTypeInv == Spec => []TypeInv
  BY InitTypeInv, NextTypeInv, PTL DEF Spec

\* Every variable of the object path stays in its domain.
THEOREM TypeCorrect == Spec => []TypeOK
<1>1. TypeInv => TypeOK
  BY DEF TypeInv
<1> QED
  BY <1>1, SpecTypeInv, PTL

-----------------------------------------------------------------------------
\* Overlay objects never disappear: a settled key, and the key of a write that
\* landed, is in the overlay; so is, all along, the key of a request that must
\* see it, whose reads therefore hit.
SettledInv ==
  /\ \A k \in settled : overlay[k] # None
  /\ \A c \in Clients : landed[c] > 0 =>
       stage[c] # "idle" /\ overlay[task[c].key] # None
  /\ \A c \in Clients : mustSee[c] =>
       /\ stage[c] # "idle" /\ overlay[task[c].src] # None
       /\ at[c] # "missed" /\ ans[c] # "notfound"
       /\ at[c] = "returned" => got[c] # None

LEMMA InitSettledInv == Init => SettledInv
  BY DEF Init, HandlerInit, SettledInv

LEMMA CallSettledInv ==
  ASSUME TypeInv, SettledInv, NEW c \in Clients, NEW t \in Requests, Call(c, t)
  PROVE  SettledInv'
<1>1. t \in Tasks /\ FirstStage(t) \in {"get", "ifNone", "ifMatch", "put"}
  BY RequestsAssumption, FirstStageFacts
<1> USE DEF TypeInv, TypeOK, Call, Invoke, EnterStage, storeVars
<1>2. /\ task'[c] = t /\ stage'[c] = FirstStage(t) /\ ans'[c] = "none"
      /\ at'[c] \in {"none", "called"} /\ landed'[c] = 0
      /\ mustSee'[c] = (t.src \in settled)
  OBVIOUS
<1>3. \A d \in Clients \ {c} :
        /\ task'[d] = task[d] /\ stage'[d] = stage[d] /\ ans'[d] = ans[d]
        /\ at'[d] = at[d] /\ got'[d] = got[d] /\ landed'[d] = landed[d]
        /\ mustSee'[d] = mustSee[d]
  OBVIOUS
<1>4. overlay' = overlay /\ settled' = settled
  OBVIOUS
<1>5. ASSUME NEW d \in Clients, mustSee'[d]
      PROVE  /\ stage'[d] # "idle" /\ overlay'[task'[d].src] # None
             /\ at'[d] # "missed" /\ ans'[d] # "notfound"
             /\ at'[d] = "returned" => got'[d] # None
  <2>1. CASE d = c
    BY <1>1, <1>2, <1>4, <1>5, <2>1 DEF SettledInv
  <2>2. CASE d # c
    BY <1>3, <1>4, <1>5, <2>2 DEF SettledInv
  <2> QED
    BY <2>1, <2>2
<1>6. ASSUME NEW d \in Clients, landed'[d] > 0
      PROVE  stage'[d] # "idle" /\ overlay'[task'[d].key] # None
  <2>1. d # c
    BY <1>2, <1>6
  <2> QED
    BY <1>3, <1>4, <1>6, <2>1 DEF SettledInv
<1> QED
  BY <1>4, <1>5, <1>6 DEF SettledInv

LEMMA ServeSettledInv ==
  ASSUME TypeInv, SettledInv, NEW c \in Clients, Serve(c)
  PROVE  SettledInv'
<1> USE DEF TypeInv, TypeOK, SettledInv, ReadsHaveTask, storeVars, history, MaybeValue
<1>1. CASE OverlayHit(c)
  <2>1. stage[c] # "idle"
    BY <1>1 DEF OverlayHit, Reading
  <2>2. task[c].src \in Keys
    BY <2>1, TaskFacts
  <2> QED
    BY <1>1, <2>2 DEF OverlayHit
<1>2. CASE OverlayMiss(c)
  BY <1>2 DEF OverlayMiss
<1>3. CASE BaselineAnswers(c)
  BY <1>3 DEF BaselineAnswers
<1>4. CASE OverlayFails(c) \/ BaselineFails(c)
  BY <1>4 DEF OverlayFails, BaselineFails, Finish, Answers
<1>5. CASE WriteLands(c)
  <2>1. Payload(c) \in Values /\ task[c].key \in Keys
    BY <1>5, TaskFacts DEF WriteLands, Lands, PayloadIsValue
  <2>2. \A k \in Keys : overlay[k] # None => overlay'[k] # None
    BY <1>5, <2>1, NoneAssumption DEF WriteLands
  <2>3. \A d \in Clients :
          stage[d] # "idle" => task[d].src \in Keys /\ task[d].key \in Keys
    BY TaskFacts
  <2>4. \A k \in settled' : overlay'[k] # None
    BY <1>5, <2>2 DEF WriteLands
  <2>5. \A d \in Clients : landed'[d] > 0 =>
          stage'[d] # "idle" /\ overlay'[task'[d].key] # None
    BY <1>5, <2>1, <2>2, <2>3, NoneAssumption DEF WriteLands, Lands
  <2> QED
    BY <1>5, <2>2, <2>3, <2>4, <2>5 DEF WriteLands, Lands
<1>6. CASE Acknowledge(c)
  BY <1>6 DEF Acknowledge, PutAcked, Finish
<1>7. CASE HandlerStep(c) /\ UNCHANGED <<storeVars, history>>
  BY <1>7
  DEF HandlerStep, ReadAnswered, CopySourceMissing, CopySourceFound,
      CreateOnlyRefused, CreateOnlyAllowed, IfMatchRefused, IfMatchAllowed,
      BodyFails, PutSent, PutRetried, PutFails, GiveUp, Finish, EnterStage
<1> QED
  BY <1>1, <1>2, <1>3, <1>4, <1>5, <1>6, <1>7 DEF Serve

LEMMA StraySettledInv ==
  ASSUME TypeInv, SettledInv, NEW w \in strays, StrayLands(w)
  PROVE  SettledInv'
<1> USE DEF TypeInv, TypeOK, StrayLands, StrayArrives, history, Writes
<1>1. \A k \in Keys : overlay[k] # None => overlay'[k] # None
  BY NoneAssumption
<1>2. \A d \in Clients :
        stage[d] # "idle" => task[d].src \in Keys /\ task[d].key \in Keys
  BY TaskFacts DEF ReadsHaveTask
<1> QED
  BY <1>1, <1>2 DEF SettledInv

LEMMA SpecSettledInv == Spec => []SettledInv
<1>1. TypeInv /\ SettledInv /\ [Next]_vars => SettledInv'
  <2>1. TypeInv /\ SettledInv /\ UNCHANGED vars => SettledInv'
    BY DEF SettledInv, vars, handlerVars, storeVars, history
  <2> QED
    BY <2>1, CallSettledInv, ServeSettledInv, StraySettledInv DEF Next
<1> QED
  BY <1>1, InitSettledInv, SpecTypeInv, PTL DEF Spec

\* overlayStore.Get and Head: a request that begins once its key is known to
\* be in the overlay is never answered from the baseline, or "not found".
THEOREM SettledKeysStaySettled == Spec => []SettledKeysNeverFallBack
<1>1. SettledInv => SettledKeysNeverFallBack
  BY DEF SettledInv, SettledKeysNeverFallBack
<1> QED
  BY <1>1, SpecSettledInv, PTL

-----------------------------------------------------------------------------
\* A create-only request whose key was visible when it began reads an object,
\* whichever layer it is answered from, and so never gets to its put.
CreateOnlyInv ==
  \A c \in Clients : hadKey[c] =>
    /\ stage[c] # "idle"
    /\ overlay[task[c].key] # None \/ baseline[task[c].key] # None
    /\ task[c].ifNone =>
         /\ stage[c] \in {"ifNone", "done"} /\ landed[c] = 0
         /\ at[c] = "missed" => baseline[task[c].key] # None
         /\ at[c] = "returned" => got[c] # None

LEMMA InitCreateOnlyInv == Init => CreateOnlyInv
  BY DEF Init, HandlerInit, CreateOnlyInv

LEMMA CallCreateOnlyInv ==
  ASSUME TypeInv, CreateOnlyInv, NEW c \in Clients, NEW t \in Requests, Call(c, t)
  PROVE  CreateOnlyInv'
<1>1. /\ t \in Tasks /\ t.key \in Keys
      /\ FirstStage(t) \in {"get", "ifNone", "ifMatch", "put"}
      /\ t.ifNone => FirstStage(t) = "ifNone"
  BY RequestsAssumption, TaskFacts, FirstStageFacts DEF FirstStage
<1> QED
  BY <1>1 DEF TypeInv, TypeOK, CreateOnlyInv, Call, Invoke, EnterStage,
              storeVars, View

LEMMA ServeCreateOnlyInv ==
  ASSUME TypeInv, CreateOnlyInv, NEW c \in Clients, Serve(c)
  PROVE  CreateOnlyInv'
<1> USE DEF TypeInv, TypeOK, CreateOnlyInv, ReadsHaveTask, storeVars, history
<1>0. \A d \in Clients : stage[d] # "idle" =>
        /\ task[d].src \in Keys /\ task[d].key \in Keys
        /\ task[d].op = "put" => task[d].src = task[d].key
        /\ task[d].ifNone \in BOOLEAN /\ (task[d].ifNone => task[d].op = "put")
  BY TaskFacts
<1>1. CASE OverlayHit(c)
  BY <1>0, <1>1 DEF OverlayHit
<1>2. CASE OverlayMiss(c)
  BY <1>0, <1>2 DEF OverlayMiss
<1>3. CASE BaselineAnswers(c)
  BY <1>0, <1>3 DEF BaselineAnswers
<1>4. CASE OverlayFails(c) \/ BaselineFails(c)
  BY <1>4 DEF OverlayFails, BaselineFails, Finish
<1>5. CASE WriteLands(c)
  <2>1. Payload(c) \in Values /\ task[c].key \in Keys
    BY <1>0, <1>5 DEF WriteLands, Lands, PayloadIsValue
  <2>2. \A k \in Keys : overlay[k] # None => overlay'[k] # None
    BY <1>5, <2>1, NoneAssumption DEF WriteLands
  <2> QED
    BY <1>0, <1>5, <2>2 DEF WriteLands, Lands
<1>6. CASE Acknowledge(c)
  BY <1>6 DEF Acknowledge, PutAcked, Finish
<1>7. CASE HandlerStep(c) /\ UNCHANGED <<storeVars, history>>
  <2>1. CASE ReadAnswered(c) \/ CopySourceMissing(c) \/ CreateOnlyRefused(c)
             \/ IfMatchRefused(c) \/ BodyFails(c)
    BY <1>7, <2>1 DEF ReadAnswered, CopySourceMissing, CreateOnlyRefused,
                      IfMatchRefused, BodyFails, Finish
  <2>2. CASE CopySourceFound(c) \/ CreateOnlyAllowed(c) \/ IfMatchAllowed(c)
    BY <1>7, <1>0, <2>2
    DEF CopySourceFound, CreateOnlyAllowed, IfMatchAllowed, EnterStage
  <2>3. CASE PutSent(c) \/ PutRetried(c) \/ PutFails(c)
    BY <1>7, <2>3 DEF PutSent, PutRetried, PutFails, GiveUp, Finish
  <2> QED
    BY <1>7, <2>1, <2>2, <2>3 DEF HandlerStep
<1> QED
  BY <1>1, <1>2, <1>3, <1>4, <1>5, <1>6, <1>7 DEF Serve

LEMMA StrayCreateOnlyInv ==
  ASSUME TypeInv, CreateOnlyInv, NEW w \in strays, StrayLands(w)
  PROVE  CreateOnlyInv'
<1> USE DEF TypeInv, TypeOK, StrayLands, StrayArrives, history, Writes
<1>1. \A k \in Keys : overlay[k] # None => overlay'[k] # None
  BY NoneAssumption
<1>2. \A d \in Clients : stage[d] # "idle" => task[d].key \in Keys
  BY TaskFacts DEF ReadsHaveTask
<1> QED
  BY <1>1, <1>2 DEF CreateOnlyInv

LEMMA SpecCreateOnlyInv == Spec => []CreateOnlyInv
<1>1. TypeInv /\ CreateOnlyInv /\ [Next]_vars => CreateOnlyInv'
  <2>1. TypeInv /\ CreateOnlyInv /\ UNCHANGED vars => CreateOnlyInv'
    BY DEF CreateOnlyInv, vars, handlerVars, storeVars, history
  <2> QED
    BY <2>1, CallCreateOnlyInv, ServeCreateOnlyInv, StrayCreateOnlyInv DEF Next
<1> QED
  BY <1>1, InitCreateOnlyInv, SpecTypeInv, PTL DEF Spec

\* handlePutObject: a create-only PUT never replaces a key that was visible
\* when it began, retries and late attempts included.
THEOREM CreateOnlyIsSafe == Spec => []CreateOnlyKeepsVisibleKeys
<1>1. TypeInv /\ CreateOnlyInv => CreateOnlyKeepsVisibleKeys
  BY DEF TypeInv, TypeOK, CreateOnlyInv, CreateOnlyKeepsVisibleKeys
<1> QED
  BY <1>1, SpecTypeInv, SpecCreateOnlyInv, PTL

-----------------------------------------------------------------------------
(* The refinement.  A step of the two-layer store is a step of the atomic  *)
(* one, or invisible: the overlay's answer is where a read takes effect.   *)

USE DEF Merged!handlerVars, Merged!MaybeValue, MaybeValue

LEMMA InitRefines == TypeOK /\ Init => Merged!Init
<1> SUFFICES ASSUME TypeOK, Init  PROVE Merged!Init
  OBVIOUS
<1>1. AbsAt = [c \in Clients |-> "none"] /\ AbsGot = [c \in Clients |-> None]
  BY DEF Init, HandlerInit, AbsAt, AbsGot
<1>2. View \in [Keys -> MaybeValue]
  BY DEF TypeOK, View
<1> QED
  BY <1>1, <1>2 DEF Init, HandlerInit, Merged!Init, Merged!HandlerInit,
                    NoTask, Merged!NoTask

LEMMA CallRefines ==
  ASSUME TypeInv, NEW c \in Clients, NEW t \in Requests, Call(c, t)
  PROVE  Merged!Call(c, t)
<1>1. FirstStage(t) = Merged!FirstStage(t)
  BY DEF FirstStage, Merged!FirstStage
<1>2. at' = [at EXCEPT ![c] = IF FirstStage(t) = "put" THEN "none" ELSE "called"]
      /\ got' = [got EXCEPT ![c] = None]
  BY DEF Call, Invoke, EnterStage
<1>3. (\A d \in Clients \ {c} : task'[d] = task[d]) /\ baseline' = baseline
  BY DEF Call, Invoke, storeVars, TypeInv, TypeOK
<1>4. /\ AbsAt' = [AbsAt EXCEPT ![c] = IF FirstStage(t) = "put" THEN "none" ELSE "called"]
      /\ AbsGot' = [AbsGot EXCEPT ![c] = None]
  BY <1>2, <1>3 DEF TypeInv, TypeOK, AbsAt, AbsGot
<1>5. View' = View
  BY DEF Call, storeVars, View
<1> QED
  BY <1>1, <1>4, <1>5
  DEF Call, Invoke, EnterStage, Merged!Call, Merged!Invoke, Merged!EnterStage

LEMMA ReadRefines ==
  ASSUME TypeInv, NEW c \in Clients,
         \/ OverlayHit(c) \/ OverlayMiss(c) \/ BaselineAnswers(c)
         \/ OverlayFails(c) \/ BaselineFails(c)
  PROVE  [Merged!Next]_(Merged!vars)
<1>1. task[c].src \in Keys
  BY TaskFacts DEF TypeInv, ReadsHaveTask, OverlayHit, OverlayMiss,
     BaselineAnswers, OverlayFails, BaselineFails, Reading
<1>2. View' = View /\ baseline' = baseline /\ task' = task
  BY DEF OverlayHit, OverlayMiss, BaselineAnswers, OverlayFails, BaselineFails,
         storeVars, View
<1>3. CASE OverlayHit(c) \/ OverlayMiss(c)
  <2>1. AbsAt[c] = "called"
    BY <1>3 DEF OverlayHit, OverlayMiss, AbsAt
  <2>2. AbsAt' = [AbsAt EXCEPT ![c] = "returned"]
        /\ AbsGot' = [AbsGot EXCEPT ![c] = View[task[c].src]]
    <3>1. CASE OverlayHit(c)
      BY <1>1, <1>2, <3>1 DEF OverlayHit, TypeInv, TypeOK, View, AbsAt, AbsGot
    <3>2. CASE OverlayMiss(c)
      BY <1>1, <1>2, <3>2 DEF OverlayMiss, TypeInv, TypeOK, View, AbsAt, AbsGot
    <3> QED
      BY <1>3, <3>1, <3>2
  <2>3. Merged!Observe(c)
    BY <1>2, <1>3, <2>1, <2>2 DEF OverlayHit, OverlayMiss, Merged!Observe
  <2> QED
    BY <2>3 DEF Merged!Next
<1>4. CASE BaselineAnswers(c)
  <2>1. AbsAt' = [AbsAt EXCEPT ![c] = "returned"]
        /\ AbsGot' = [AbsGot EXCEPT ![c] = baseline[task[c].src]]
    BY <1>2, <1>4 DEF BaselineAnswers, TypeInv, TypeOK, AbsAt, AbsGot
  <2>2. AbsAt[c] = "returned" /\ AbsGot[c] = baseline[task[c].src]
    BY <1>4 DEF BaselineAnswers, AbsAt, AbsGot
  <2>3. AbsAt' = AbsAt /\ AbsGot' = AbsGot
    BY <2>1, <2>2 DEF AbsAt, AbsGot
  <2> QED
    BY <1>2, <1>4, <2>3 DEF BaselineAnswers, Merged!vars
<1>5. CASE OverlayFails(c) \/ BaselineFails(c)
  <2>1. AbsAt[c] \in {"called", "returned"}
    BY <1>5 DEF OverlayFails, BaselineFails, AbsAt
  <2>2. AbsAt' = [AbsAt EXCEPT ![c] = "none"]
        /\ AbsGot' = [AbsGot EXCEPT ![c] = None]
    BY <1>2, <1>5 DEF OverlayFails, BaselineFails, Finish, TypeInv, TypeOK, AbsAt, AbsGot
  <2>3. Merged!CallFails(c)
    BY <1>2, <1>5, <2>1, <2>2
    DEF OverlayFails, BaselineFails, Finish, Merged!CallFails, Merged!Finish
  <2> QED
    BY <2>3 DEF Merged!Next
<1> QED
  BY <1>3, <1>4, <1>5

LEMMA WriteRefines ==
  ASSUME TypeInv, NEW c \in Clients, WriteLands(c) \/ Acknowledge(c)
  PROVE  Merged!Next
<1>1. stage[c] = "put" /\ at[c] = "none" /\ Payload(c) \in Values
      /\ task[c].key \in Keys
  BY TaskFacts DEF WriteLands, Lands, Acknowledge, PutAcked, TypeInv, TypeOK,
     ReadsHaveTask, PayloadIsValue, Reading, ATs
<1>2. Merged!Payload(c) = Payload(c)
  BY <1>1 DEF Merged!Payload, Payload, AbsGot
<1>3. CASE WriteLands(c)
  <2>1. AbsAt' = AbsAt /\ AbsGot' = AbsGot
    BY <1>3 DEF WriteLands, Lands, AbsAt, AbsGot
  <2>2. View' = [View EXCEPT ![task[c].key] = Payload(c)]
    BY <1>1, <1>3, NoneAssumption DEF WriteLands, View, TypeInv, TypeOK
  <2>3. Merged!WriteLands(c)
    BY <1>2, <1>3, <2>1, <2>2
    DEF WriteLands, Lands, Merged!WriteLands, Merged!Lands
  <2> QED
    BY <2>3 DEF Merged!Next
<1>4. CASE Acknowledge(c)
  <2>1. AbsAt' = [AbsAt EXCEPT ![c] = "none"] /\ AbsGot' = AbsGot
    BY <1>1, <1>4
    DEF Acknowledge, PutAcked, Finish, AbsAt, AbsGot, storeVars, TypeInv, TypeOK
  <2>2. Merged!PutAcked(c) /\ View' = View
    BY <1>4, <2>1
    DEF Acknowledge, PutAcked, Finish, Merged!PutAcked, Merged!Finish,
        storeVars, View
  <2> QED
    BY <2>2 DEF Merged!Next
<1> QED
  BY <1>3, <1>4

LEMMA HandlerRefines ==
  ASSUME TypeInv, NEW c \in Clients,
         HandlerStep(c), UNCHANGED <<storeVars, history>>
  PROVE  Merged!Next
<1>1. View' = View /\ baseline' = baseline
  BY DEF storeVars, View
<1>2. Merged!Payload(c) = Payload(c) \/ stage[c] # "put"
  BY DEF Merged!Payload, Payload, AbsGot, TypeInv, ReadsHaveTask, Reading
<1>3. at[c] # "missed" /\ AbsAt[c] = at[c] /\ AbsGot[c] = got[c]
  BY DEF AbsAt, AbsGot, HandlerStep, ReadAnswered, CopySourceMissing,
         CopySourceFound, CreateOnlyRefused, CreateOnlyAllowed, IfMatchRefused,
         IfMatchAllowed, BodyFails, PutSent, PutRetried, PutFails, TypeInv,
         ReadsHaveTask, Reading
<1>4. got' = got /\ task' = task
  BY DEF HandlerStep, ReadAnswered, CopySourceMissing, CopySourceFound,
         CreateOnlyRefused, CreateOnlyAllowed, IfMatchRefused,
         IfMatchAllowed, BodyFails, PutSent, PutRetried, PutFails
<1>5. CASE \/ ReadAnswered(c) \/ CopySourceMissing(c) \/ CreateOnlyRefused(c)
           \/ IfMatchRefused(c) \/ BodyFails(c) \/ PutFails(c)
  <2>1. AbsAt' = [AbsAt EXCEPT ![c] = "none"] /\ AbsGot' = AbsGot
    BY <1>1, <1>3, <1>4, <1>5
    DEF ReadAnswered, CopySourceMissing, CreateOnlyRefused, IfMatchRefused,
        BodyFails, PutFails, Finish, AbsAt, AbsGot, TypeInv, TypeOK
  <2>2. Merged!HandlerStep(c)
    BY <1>2, <1>3, <1>5, <2>1
    DEF ReadAnswered, CopySourceMissing, CreateOnlyRefused, IfMatchRefused,
        BodyFails, PutFails, Finish, GiveUp, Merged!HandlerStep,
        Merged!ReadAnswered, Merged!CopySourceMissing, Merged!CreateOnlyRefused,
        Merged!IfMatchRefused, Merged!BodyFails, Merged!PutFails,
        Merged!Finish, Merged!GiveUp
  <2> QED
    BY <1>1, <2>2 DEF Merged!Next
<1>6. CASE CopySourceFound(c) \/ CreateOnlyAllowed(c) \/ IfMatchAllowed(c)
  <2>1. AbsGot' = AbsGot
    BY <1>1, <1>4, <1>6
    DEF CopySourceFound, CreateOnlyAllowed, IfMatchAllowed, EnterStage, AbsGot,
        TypeInv, TypeOK
  <2>2. \A s \in {"put", "ifMatch"} : EnterStage(c, s) => Merged!EnterStage(c, s)
    BY DEF EnterStage, Merged!EnterStage, AbsAt, TypeInv, TypeOK
  <2>3. Merged!HandlerStep(c)
    <3>1. CASE CopySourceFound(c)
      BY <1>3, <2>1, <2>2, <3>1
      DEF CopySourceFound, Merged!CopySourceFound, Merged!HandlerStep
    <3>2. CASE CreateOnlyAllowed(c)
      BY <1>3, <2>1, <2>2, <3>2
      DEF CreateOnlyAllowed, Merged!CreateOnlyAllowed, Merged!HandlerStep
    <3>3. CASE IfMatchAllowed(c)
      BY <1>3, <2>1, <2>2, <3>3
      DEF IfMatchAllowed, Merged!IfMatchAllowed, Merged!HandlerStep
    <3> QED
      BY <1>6, <3>1, <3>2, <3>3
  <2> QED
    BY <1>1, <2>3 DEF Merged!Next
<1>7. CASE PutSent(c) \/ PutRetried(c)
  <2>1. AbsAt' = AbsAt /\ AbsGot' = AbsGot
    BY <1>1, <1>7 DEF PutSent, PutRetried, AbsAt, AbsGot
  <2>2. Merged!HandlerStep(c)
    BY <1>2, <1>7, <2>1
    DEF PutSent, PutRetried, GiveUp, Merged!HandlerStep, Merged!PutSent,
        Merged!PutRetried, Merged!GiveUp
  <2> QED
    BY <1>1, <2>2 DEF Merged!Next
<1> QED
  BY <1>5, <1>6, <1>7 DEF HandlerStep

LEMMA StrayRefines ==
  ASSUME TypeInv, NEW w \in strays, StrayLands(w)
  PROVE  Merged!StrayLands(w)
<1>1. w.key \in Keys /\ w.val \in Values
  BY DEF TypeInv, TypeOK, Writes
<1>2. AbsAt' = AbsAt /\ AbsGot' = AbsGot
  BY DEF StrayLands, StrayArrives, AbsAt, AbsGot
<1>3. View' = [View EXCEPT ![w.key] = w.val]
  BY <1>1, NoneAssumption DEF StrayLands, View, TypeInv, TypeOK
<1> QED
  BY <1>2, <1>3 DEF StrayLands, StrayArrives, Merged!StrayLands, Merged!StrayArrives

LEMMA NextRefines == TypeInv /\ [Next]_vars => [Merged!Next]_(Merged!vars)
<1> SUFFICES ASSUME TypeInv, [Next]_vars  PROVE [Merged!Next]_(Merged!vars)
  OBVIOUS
<1>1. ASSUME NEW c \in Clients, NEW t \in Requests, Call(c, t)
      PROVE  Merged!Next
  BY <1>1, CallRefines DEF Merged!Next
<1>2. ASSUME NEW c \in Clients, Serve(c)
      PROVE  [Merged!Next]_(Merged!vars)
  BY <1>2, ReadRefines, WriteRefines, HandlerRefines DEF Serve
<1>3. ASSUME NEW w \in strays, StrayLands(w)
      PROVE  Merged!Next
  BY <1>3, StrayRefines DEF Merged!Next
<1>4. CASE UNCHANGED vars
  BY <1>4 DEF vars, handlerVars, storeVars, Merged!vars, AbsAt, AbsGot, View
<1> QED
  BY <1>1, <1>2, <1>3, <1>4 DEF Next

\* The Store interface over two layers behaves as one atomic map.
THEOREM OverlayRefinesMerged == Spec => ImplementsMergedStore
<1>1. TypeInv => TypeOK
  BY DEF TypeInv
<1> QED
  BY <1>1, InitTypeInv, InitRefines, NextRefines, SpecTypeInv, PTL
  DEF Spec, ImplementsMergedStore, Merged!Spec
=============================================================================
