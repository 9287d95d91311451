----------------------------- MODULE MergedStore -----------------------------
(***************************************************************************)
(* What the Store interface promises its handlers: one map from keys to    *)
(* objects.  A read takes the value of its key at one moment between call  *)
(* and return; a write replaces its key at one moment per attempt; a call  *)
(* may instead fail, and then it has shown nothing.  There are no layers.  *)
(***************************************************************************)
EXTENDS ObjectHandlers

VARIABLE view   \* view[k]: the object clients see under k, or None

vars == <<handlerVars, view>>

Init == /\ HandlerInit
        /\ view \in [Keys -> MaybeValue]

Call(c, t) == Invoke(c, t) /\ UNCHANGED view

Observe(c) ==
  /\ at[c] = "called"
  /\ at'  = [at EXCEPT ![c] = "returned"]
  /\ got' = [got EXCEPT ![c] = view[task[c].src]]
  /\ UNCHANGED <<task, stage, attempt, landed, ans, strays, view>>

CallFails(c) ==
  /\ at[c] \in {"called", "returned"}
  /\ Finish(c, "error")
  /\ UNCHANGED <<task, attempt, landed, strays, view>>
  /\ got' = [got EXCEPT ![c] = None]

WriteLands(c) ==
  /\ Lands(c)
  /\ view' = [view EXCEPT ![task[c].key] = Payload(c)]

StrayLands(w) ==
  /\ StrayArrives(w)
  /\ view' = [view EXCEPT ![w.key] = w.val]

Next ==
  \/ \E c \in Clients, t \in Requests : Call(c, t)
  \/ \E c \in Clients : \/ Observe(c)
                        \/ CallFails(c)
                        \/ HandlerStep(c) /\ UNCHANGED view
                        \/ PutAcked(c) /\ UNCHANGED view
                        \/ WriteLands(c)
  \/ \E w \in strays : StrayLands(w)

Spec == Init /\ [][Next]_vars
=============================================================================
