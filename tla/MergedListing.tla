---------------------------- MODULE MergedListing ----------------------------
(***************************************************************************)
(* What Store.ListPage promises the handler of a paginated listing: a walk *)
(* of the merged view in key order that leaves nothing out.  There are no  *)
(* cursors, no sessions and no backend pages; a listing may be sent back   *)
(* to its beginning, and is refused only where the baseline has nothing.   *)
(* A listing some page of which asked for a size that no backend is asked  *)
(* for may leave entries out: it still is a walk in key order of what is   *)
(* there.  And a listing may fail.                                         *)
(***************************************************************************)
EXTENDS Integers

CONSTANTS Clients,  \* each makes one listing
          Entries   \* ranks of keys and common prefixes

VARIABLES
  top, base,   \* entries of the overlay and of the baseline
  state,       \* state[c]: "new", "open", "finished", "refused" or "failed"
  owed,        \* owed[c]: the entries of both when c's listing began
  waived,      \* clients whose listing may leave entries out
  shown        \* shown[c]: the items of c's pages since it began, or began anew

vars == <<top, base, state, owed, waived, shown>>

Item(e, l) == [key |-> e, layer |-> l]
Objects    == {Item(e, "overlay") : e \in top} \cup {Item(e, "baseline") : e \in base}
Keys(s)    == {it.key : it \in s}
Owed(c)    == owed[c].overlay \cup owed[c].baseline

Init ==
  /\ top \in SUBSET Entries /\ base \in SUBSET Entries
  /\ state = [c \in Clients |-> "new"]
  /\ owed  = [c \in Clients |-> [overlay |-> {}, baseline |-> {}]]
  /\ waived = {}
  /\ shown = [c \in Clients |-> {}]

Write(e) ==
  /\ top' = top \cup {e}
  /\ UNCHANGED <<base, state, owed, waived, shown>>

Begin(c) ==
  /\ state[c] = "new"
  /\ state' = [state EXCEPT ![c] = "open"]
  /\ owed' = [owed EXCEPT ![c] = [overlay |-> top, baseline |-> base]]
  /\ waived' \in {waived, waived \cup {c}}
  /\ UNCHANGED <<top, base, shown>>

\* A page is asked for: the listing may have to begin anew.
Ask(c) ==
  /\ state[c] = "open"
  /\ shown' \in {shown, [shown EXCEPT ![c] = {}]}
  /\ waived' \in {waived, waived \cup {c}}
  /\ UNCHANGED <<top, base, state, owed>>

\* A page goes on behind what was shown, names no key twice, and shows the
\* overlay's object where the overlay had one when the listing began.
Page(c, items) ==
  /\ state[c] = "open"
  /\ items \subseteq Objects
  /\ \A x \in shown[c], y \in items : x.key < y.key
  /\ \A x, y \in items : x.key = y.key => x = y
  /\ c \notin waived =>
       \A x \in items : x.key \in owed[c].overlay => x.layer = "overlay"
  /\ shown' = [shown EXCEPT ![c] = @ \cup items]
  /\ UNCHANGED <<top, base, owed, waived>>

\* Nothing is left out between two items, nor behind the last.
NextPage(c, items) ==
  /\ Page(c, items) /\ items # {}
  /\ c \notin waived =>
       \A e \in Owed(c) \ Keys(shown[c] \cup items), x \in items : x.key < e
  /\ UNCHANGED state

LastPage(c, items) ==
  /\ Page(c, items)
  /\ c \notin waived => Owed(c) \subseteq Keys(shown[c] \cup items)
  /\ state' = [state EXCEPT ![c] = "finished"]

Refuse(c) ==
  /\ state[c] = "open" /\ base = {}
  /\ state' = [state EXCEPT ![c] = "refused"]
  /\ UNCHANGED <<top, base, owed, waived, shown>>

Fail(c) ==
  /\ state[c] = "open"
  /\ state' = [state EXCEPT ![c] = "failed"]
  /\ UNCHANGED <<top, base, owed, waived, shown>>

Next ==
  \/ \E e \in Entries : Write(e)
  \/ \E c \in Clients :
       \/ Begin(c) \/ Ask(c) \/ Refuse(c) \/ Fail(c)
       \/ \E items \in SUBSET Objects : NextPage(c, items) \/ LastPage(c, items)

Spec == Init /\ [][Next]_vars
=============================================================================
