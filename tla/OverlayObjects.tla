--------------------------- MODULE OverlayObjects ---------------------------
(***************************************************************************)
(* The object path of overlayStore (overlay.go): a read asks the overlay   *)
(* backend first and the baseline backend only after the overlay answered  *)
(* "not found"; every write goes to the overlay backend.  Each question to *)
(* a backend is a step of its own, so other requests act between the two.  *)
(*                                                                         *)
(* settled, hadKey and mustSee are history variables: they only record.    *)
(***************************************************************************)
EXTENDS ObjectHandlers

VARIABLES
  overlay,   \* overlay[k]: the overlay backend's object for k, or None
  baseline,  \* baseline[k]: the baseline backend's
  settled,   \* keys some client was shown, or told, to be in the overlay
  hadKey,    \* hadKey[c]: c's key was visible when c's request began
  mustSee    \* mustSee[c]: the key c reads was settled when it began

storeVars == <<overlay, baseline>>
history   == <<settled, hadKey, mustSee>>
vars      == <<handlerVars, storeVars, history>>

\* The object a client sees under each key.
View == [k \in Keys |-> IF overlay[k] # None THEN overlay[k] ELSE baseline[k]]

Init ==
  /\ HandlerInit
  /\ overlay  \in [Keys -> MaybeValue]
  /\ baseline \in [Keys -> MaybeValue]
  /\ settled = {}
  /\ hadKey  = [c \in Clients |-> FALSE]
  /\ mustSee = [c \in Clients |-> FALSE]

Call(c, t) ==
  /\ Invoke(c, t)
  /\ hadKey'  = [hadKey EXCEPT ![c] = View[t.key] # None]
  /\ mustSee' = [mustSee EXCEPT ![c] = t.src \in settled]
  /\ UNCHANGED <<storeVars, settled>>

\* The Get (or Head) of the overlay backend finds the object.
OverlayHit(c) ==
  /\ at[c] = "called" /\ overlay[task[c].src] # None
  /\ at'  = [at EXCEPT ![c] = "returned"]
  /\ got' = [got EXCEPT ![c] = overlay[task[c].src]]
  /\ settled' = settled \cup {task[c].src}
  /\ UNCHANGED <<task, stage, attempt, landed, ans, strays,
                 storeVars, hadKey, mustSee>>

\* It answers ErrNotFound: only then is the baseline asked.
Mutant_OverlayMiss(c) ==                 \* the overlay's miss is the answer
  /\ at[c] = "called" /\ overlay[task[c].src] = None
  /\ at' = [at EXCEPT ![c] = "returned"]
  /\ got' = [got EXCEPT ![c] = None]
  /\ UNCHANGED <<task, stage, attempt, landed, ans, strays, storeVars, history>>

OverlayMiss(c) ==
  /\ at[c] = "called" /\ overlay[task[c].src] = None
  /\ at' = [at EXCEPT ![c] = "missed"]
  /\ got' = [got EXCEPT ![c] = None]
  /\ UNCHANGED <<task, stage, attempt, landed, ans, strays, storeVars, history>>

BaselineAnswers(c) ==
  /\ at[c] = "missed"
  /\ at'  = [at EXCEPT ![c] = "returned"]
  /\ got' = [got EXCEPT ![c] = baseline[task[c].src]]
  /\ UNCHANGED <<task, stage, attempt, landed, ans, strays, storeVars, history>>

\* Any other error of the overlay is the call's error: no fallback hides it.
Mutant_OverlayFails(c) ==                \* falls back on every error
  /\ at[c] = "called"
  /\ at' = [at EXCEPT ![c] = "missed"]
  /\ got' = [got EXCEPT ![c] = None]
  /\ UNCHANGED <<task, stage, attempt, landed, ans, strays, storeVars, history>>

OverlayFails(c) ==
  /\ at[c] = "called"
  /\ Finish(c, "error")
  /\ got' = [got EXCEPT ![c] = None]
  /\ UNCHANGED <<task, attempt, landed, strays, storeVars, history>>

BaselineFails(c) ==
  /\ at[c] = "missed"
  /\ Finish(c, "error")
  /\ got' = [got EXCEPT ![c] = None]
  /\ UNCHANGED <<task, attempt, landed, strays, storeVars, history>>

\* overlayStore.Put: the write lands in the overlay, never in the baseline.
Mutant_WriteLands(c) ==                  \* writes through to the wrong layer
  /\ Lands(c)
  /\ baseline' = [baseline EXCEPT ![task[c].key] = Payload(c)]
  /\ UNCHANGED <<overlay, history>>

WriteLands(c) ==
  /\ Lands(c)
  /\ overlay' = [overlay EXCEPT ![task[c].key] = Payload(c)]
  /\ UNCHANGED <<baseline, history>>

StrayLands(w) ==
  /\ StrayArrives(w)
  /\ overlay' = [overlay EXCEPT ![w.key] = w.val]
  /\ UNCHANGED <<baseline, history>>

Acknowledge(c) ==
  /\ PutAcked(c)
  /\ settled' = settled \cup {task[c].key}
  /\ UNCHANGED <<storeVars, hadKey, mustSee>>

\* What the gateway and its backends do for request c.
Serve(c) ==
  \/ OverlayHit(c)
  \/ OverlayMiss(c)
  \/ BaselineAnswers(c)
  \/ OverlayFails(c)
  \/ BaselineFails(c)
  \/ WriteLands(c)
  \/ Acknowledge(c)
  \/ HandlerStep(c) /\ UNCHANGED <<storeVars, history>>

Next ==
  \/ \E c \in Clients, t \in Requests : Call(c, t)
  \/ \E c \in Clients : Serve(c)
  \/ \E w \in strays : StrayLands(w)

\* A backend call returns or fails and a running handler goes on; nothing obliges
\* a client to send a request or the rest of a body, or a stray write to arrive.
Fairness == \A c \in Clients : WF_vars(~AwaitsBody(c) /\ Serve(c))

Spec == Init /\ [][Next]_vars /\ Fairness

-----------------------------------------------------------------------------
ATs == {"none", "called", "missed", "returned"}

\* Every variable stays in its domain.
TypeOK ==
  /\ task    \in [Clients -> Tasks \cup {NoTask}]
  /\ stage   \in [Clients -> Stages]
  /\ at      \in [Clients -> ATs]
  /\ got     \in [Clients -> MaybeValue]
  /\ attempt \in [Clients -> 0 .. MaxAttempts]
  /\ landed  \in [Clients -> 0 .. MaxAttempts]
  /\ ans     \in [Clients -> Answers]
  /\ strays  \subseteq Writes
  /\ overlay \in [Keys -> MaybeValue] /\ baseline \in [Keys -> MaybeValue]
  /\ settled \subseteq Keys
  /\ hadKey  \in [Clients -> BOOLEAN] /\ mustSee \in [Clients -> BOOLEAN]

\* overlayStore.Get and Head: once any client has been shown the overlay's
\* object of a key, or had a write of it acknowledged, no request that begins
\* later is answered from the baseline or told that the key does not exist.
SettledKeysNeverFallBack ==
  \A c \in Clients : mustSee[c] =>
    at[c] # "missed" /\ ans[c] # "notfound"

\* handlePutObject, If-None-Match: a create-only PUT never replaces a key that
\* was visible, in either layer, when its request began: not by an attempt, not
\* by a retry, and not by an attempt that lands after the gateway gave it up.
CreateOnlyKeepsVisibleKeys ==
  \A c \in Clients :
    task[c].ifNone /\ (stage[c] = "put" \/ landed[c] > 0) => ~hadKey[c]

\* The Store interface (store.go) over the two layers: overlayStore behaves as
\* one atomic map.  A read takes effect when the overlay is asked, also when
\* the answer comes from the baseline later.
AbsAt  == [c \in Clients |-> IF at[c] = "missed" THEN "returned" ELSE at[c]]
AbsGot == [c \in Clients |-> IF at[c] = "missed" THEN baseline[task[c].src]
                                                ELSE got[c]]
Merged == INSTANCE MergedStore WITH view <- View, at <- AbsAt, got <- AbsGot
ImplementsMergedStore == Merged!Spec

\* ServeHTTP: every request is answered, unless it waits for the rest of its body
\* from its own client; it never waits for another request or a given-up write.
RequestsAreAnswered ==
  \A c \in Clients :
    stage[c] \notin {"idle", "done"} ~> stage[c] = "done" \/ AwaitsBody(c)
=============================================================================
