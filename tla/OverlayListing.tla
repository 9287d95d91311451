--------------------------- MODULE OverlayListing ---------------------------
(***************************************************************************)
(* Paginated listings of one client bucket (overlayStore.ListPage in       *)
(* overlay.go): two backend listings are merged on the fly, and between    *)
(* pages the position in both is kept in the gateway's memory, as a        *)
(* session whose number is the token the client gets.                      *)
(*                                                                         *)
(* An entry (an object or a common prefix) is its rank in key order, so an *)
(* unconsumed tail, which mergePageEntries sorts, is a set of entries, and *)
(* its first entry the minimum.                                            *)
(* Fetching a backend page is one step; writers, other listings, session   *)
(* expiry and gateway restarts happen between any two.                     *)
(***************************************************************************)
EXTENDS Integers, FiniteSets, Sequences, FiniteSetsExt

CONSTANTS Clients,      \* each makes one listing
          Entries,      \* ranks of keys and common prefixes, from 1
          Hidden,       \* overlay entries unmap drops: the bucket's marker
          Writable,     \* entries a writer may add to the overlay
          MayBeAbsent,  \* backends whose bucket may not exist
          PageSizes,    \* max-keys values clients ask for
          DefaultPage,  \* what max-keys=0 becomes
          IntRange,     \* how many values an int32 has
          MaxFaults,    \* bound on failed calls, lost replies, lapsed sessions
          MaxRestarts   \* bound on gateway restarts

ASSUME EntriesAssumption == Entries \subseteq Nat \ {0} /\ IsFiniteSet(Entries)
ASSUME HiddenAssumption  == Hidden \subseteq Entries /\ Writable \subseteq Entries
ASSUME AbsentAssumption  == MayBeAbsent \subseteq {"overlay", "baseline"}
ASSUME PagesAssumption   == PageSizes \subseteq Nat /\ DefaultPage \in Nat \ {0}
ASSUME IntAssumption     == IntRange \in Nat /\ DefaultPage < IntRange \div 2
ASSUME BoundsAssumption  == MaxFaults \in Nat /\ MaxRestarts \in Nat

VARIABLES
  overlay,   \* entries the overlay backend lists for the bucket
  baseline,  \* entries the baseline backend lists
  absent,    \* backends that answer "no such bucket"
  active,    \* listSessions.active: token -> the two saved cursors
  nextID,    \* listSessions.nextID
  lapsed,    \* tokens untouched for longer than listSessionTTL
  pc,        \* pc[c]: where client c's listing is
  token,     \* token[c]: its continuation token, 0 for none
  seen,      \* seen[c]: what the pages delivered since c's listing began, or
             \* began anew because its session was gone, listed (history)
  oc, bc,    \* the overlay and baseline cursors of the ListPage serving c
  out,       \* out[c]: the page being built
  max,       \* max[c]: its MaxKeys
  resumed,   \* resumed[c]: the last lookup of c found its session
  start,     \* start[c]: the two backends when c's listing began (history)
  zeroed,    \* clients that asked for a page size whose int32 is 0 (history)
  faults, restarts

backends == <<overlay, baseline, absent>>
sessions == <<active, nextID, lapsed>>
calls    == <<oc, bc, out, max, resumed>>
clients  == <<pc, token>>
history  == <<seen, start, zeroed>>
budgets  == <<faults, restarts>>
vars     == <<backends, sessions, calls, clients, history, budgets>>

\* cursorState; position 0 is the empty token, before every entry.
Cursors   == [after : Nat, remaining : SUBSET Entries, done : BOOLEAN]
NewCursor == [after |-> 0, remaining |-> {}, done |-> FALSE]

Init ==
  /\ absent \in SUBSET MayBeAbsent
  /\ overlay \in SUBSET Entries /\ ("overlay" \in absent => overlay = {})
  /\ baseline \in SUBSET (Entries \ Hidden)
  /\ ("baseline" \in absent => baseline = {})
  /\ active = << >> /\ nextID = 0 /\ lapsed = {}
  /\ pc    = [c \in Clients |-> "new"]
  /\ token = [c \in Clients |-> 0]
  /\ seen  = [c \in Clients |-> << >>]
  /\ oc    = [c \in Clients |-> NewCursor]
  /\ bc    = [c \in Clients |-> NewCursor]
  /\ out   = [c \in Clients |-> << >>]
  /\ max   = [c \in Clients |-> DefaultPage]
  /\ resumed = [c \in Clients |-> FALSE]
  /\ start = [c \in Clients |-> [overlay |-> {}, baseline |-> {}]]
  /\ zeroed = {}
  /\ faults = 0 /\ restarts = 0

\* A ListPage call ends in state s of its client; its locals are gone.
EndCalls(ended, s) ==
  /\ pc'  = [c \in Clients |-> IF c \in ended THEN s ELSE pc[c]]
  /\ oc'  = [c \in Clients |-> IF c \in ended THEN NewCursor ELSE oc[c]]
  /\ bc'  = [c \in Clients |-> IF c \in ended THEN NewCursor ELSE bc[c]]
  /\ out' = [c \in Clients |-> IF c \in ended THEN << >> ELSE out[c]]
  /\ max' = [c \in Clients |-> IF c \in ended THEN DefaultPage ELSE max[c]]
  /\ resumed' = [c \in Clients |-> IF c \in ended THEN FALSE ELSE resumed[c]]

-----------------------------------------------------------------------------
(* Backends: ListObjectsV2 answers entries above the position in order, at *)
(* most n of them but at least one if there is any; a full answer may      *)
(* still be marked truncated.  Asked for none, it answers an empty last    *)
(* page, and to a negative n there is no page.                             *)

Pages(S, after, n) ==
  LET above == {e \in S : e > after} IN
  IF n = 0 THEN {[entries |-> {}, truncated |-> FALSE]} ELSE
  {p \in [entries : SUBSET above, truncated : BOOLEAN] :
     /\ Cardinality(p.entries) <= n
     /\ \A e \in p.entries, f \in above \ p.entries : e < f
     /\ p.entries = {} => above = {} /\ ~p.truncated
     /\ ~p.truncated => p.entries = above}

\* Put, or CreateBucket for a Hidden entry: only the overlay ever grows.
OverlayPut(e) ==
  /\ "overlay" \notin absent /\ e \notin overlay
  /\ overlay' = overlay \cup {e}
  /\ UNCHANGED <<baseline, absent, sessions, calls, clients, history, budgets>>

-----------------------------------------------------------------------------
(* ListPage.                                                               *)

\* ListPage replaces max-keys=0 by the default.
Mutant_PageSize(n) == n
PageSize(n) == IF n = 0 THEN DefaultPage ELSE n

\* s3Store.ListPage asks for int32(MaxKeys) entries: the size modulo 2^32,
\* which is none for 2^32 itself, and negative from 2^31 on.
Narrow(n) == ((n + IntRange \div 2) % IntRange) - IntRange \div 2

\* listSessions.lookup: an unknown token reads as the beginning; a known one
\* is kept, with its expiry renewed.
StartPage(c, n) ==
  /\ pc[c] \in {"new", "ready"}
  /\ pc' = [pc EXCEPT ![c] = "paging"]
  /\ LET known == token[c] \in DOMAIN active IN
     /\ oc' = [oc EXCEPT ![c] = IF known THEN active[token[c]].overlay ELSE NewCursor]
     /\ bc' = [bc EXCEPT ![c] = IF known THEN active[token[c]].baseline ELSE NewCursor]
     /\ resumed' = [resumed EXCEPT ![c] = known]
     /\ seen' = [seen EXCEPT ![c] = IF known THEN @ ELSE << >>]
  /\ lapsed' = lapsed \ {token[c]}
  /\ out' = [out EXCEPT ![c] = << >>]
  /\ max' = [max EXCEPT ![c] = PageSize(n)]
  /\ start' = IF pc[c] = "new"
              THEN [start EXCEPT ![c] = [overlay |-> overlay \ Hidden, baseline |-> baseline]]
              ELSE start
  /\ zeroed' = IF Narrow(PageSize(n)) = 0 THEN zeroed \cup {c} ELSE zeroed
  /\ UNCHANGED <<backends, active, nextID, token, budgets>>

\* listCursor.load asks its backend only when its tail is consumed.
NeedsLoad(cur) == cur.remaining = {} /\ ~cur.done

Mutant_Loaded(cur, page, hidden) ==      \* forgets c.done = !page.Truncated
  [after     |-> IF page.truncated THEN Max(page.entries) ELSE 0,
   remaining |-> page.entries \ hidden,
   done      |-> FALSE]

Loaded(cur, page, hidden) ==
  [after     |-> IF page.truncated THEN Max(page.entries) ELSE 0,
   remaining |-> page.entries \ hidden,
   done      |-> ~page.truncated]

LoadOverlay(c) ==
  /\ pc[c] = "paging" /\ NeedsLoad(oc[c])
  /\ IF "overlay" \in absent
     THEN oc' = [oc EXCEPT ![c].done = TRUE]     \* tolerateMissing
     ELSE \E page \in Pages(overlay, oc[c].after, Narrow(max[c])) :
            oc' = [oc EXCEPT ![c] = Loaded(@, page, Hidden)]
  /\ UNCHANGED <<backends, sessions, bc, out, max, resumed, clients, history, budgets>>

Room(c) == Len(out[c]) < max[c]

\* The baseline is peeked after the overlay, and for the final "more" only
\* when the overlay has nothing left.
BaselinePeeked(c) ==
  /\ pc[c] = "paging" /\ ~NeedsLoad(oc[c])
  /\ Room(c) \/ oc[c].remaining = {}

LoadBaseline(c) ==
  /\ BaselinePeeked(c) /\ NeedsLoad(bc[c]) /\ "baseline" \notin absent
  /\ \E page \in Pages(baseline, bc[c].after, Narrow(max[c])) :
       bc' = [bc EXCEPT ![c] = Loaded(@, page, {})]
  /\ UNCHANGED <<backends, sessions, oc, out, max, resumed, clients, history, budgets>>

\* The baseline bucket must exist: 404 NoSuchBucket.
RefuseListing(c) ==
  /\ BaselinePeeked(c) /\ NeedsLoad(bc[c]) /\ "baseline" \in absent
  /\ EndCalls({c}, "refused")
  /\ UNCHANGED <<backends, sessions, token, history, budgets>>

\* A backend refuses a negative size, and its error ends the listing.
RefuseSize(c) ==
  /\ pc[c] = "paging" /\ Narrow(max[c]) < 0
  /\ NeedsLoad(oc[c]) \/ (BaselinePeeked(c) /\ NeedsLoad(bc[c]))
  /\ EndCalls({c}, "failed")
  /\ UNCHANGED <<backends, sessions, token, history, budgets>>

Consume(cur, e) == [cur EXCEPT !.remaining = @ \ {e}]

\* overlay keys win on ties ...
Mutant_LayerOf(c, e) == IF e \in bc[c].remaining THEN "baseline" ELSE "overlay"
LayerOf(c, e)        == IF e \in oc[c].remaining THEN "overlay" ELSE "baseline"

\* ... and a tie advances both cursors.
Mutant_BaselineNext(c, e) ==             \* a tie leaves the baseline's entry
  IF e \in oc[c].remaining THEN bc[c] ELSE Consume(bc[c], e)
Mutant_BaselineSkips(c, e) ==            \* an overlay entry hides the next one too
  IF bc[c].remaining = {} THEN bc[c] ELSE Consume(bc[c], Min(bc[c].remaining))
BaselineNext(c, e) == Consume(bc[c], e)

\* The smaller head goes out.
MergeHead(c) ==
  LET heads == oc[c].remaining \cup bc[c].remaining
      e     == Min(heads) IN
  /\ BaselinePeeked(c) /\ ~NeedsLoad(bc[c]) /\ Room(c) /\ heads # {}
  /\ out' = [out EXCEPT ![c] = Append(@, [key |-> e, layer |-> LayerOf(c, e)])]
  /\ oc' = [oc EXCEPT ![c] = Consume(@, e)]
  /\ bc' = [bc EXCEPT ![c] = BaselineNext(c, e)]
  /\ UNCHANGED <<backends, sessions, max, resumed, clients, history, budgets>>

\* The page and its token reach the client, or the reply is lost and the
\* client will ask for the same page again.
Reply(c, tok, state) ==
  \/ /\ seen'  = [seen EXCEPT ![c] = @ \o out[c]]
     /\ token' = [token EXCEPT ![c] = tok]
     /\ EndCalls({c}, state)
     /\ UNCHANGED faults
  \/ /\ faults < MaxFaults /\ faults' = faults + 1
     /\ EndCalls({c}, "ready")
     /\ UNCHANGED <<seen, token>>

\* Both sides exhausted, before the page is full or just when it is.
LastPage(c) ==
  /\ BaselinePeeked(c) /\ ~NeedsLoad(bc[c])
  /\ oc[c].remaining \cup bc[c].remaining = {}
  /\ Reply(c, 0, "finished")
  /\ UNCHANGED <<backends, sessions, start, zeroed, restarts>>

\* snapshot: the unconsumed tail is saved with the backend position.
Mutant_Snapshot(cur) == [cur EXCEPT !.remaining = {}]
Snapshot(cur) == cur

\* The final peeks: is anything left after a full page?
Mutant_More(c) == ~oc[c].done \/ ~bc[c].done \/ oc[c].remaining \cup bc[c].remaining # {}
More(c) ==
  /\ ~NeedsLoad(oc[c])
  /\ \/ oc[c].remaining # {}
     \/ ~NeedsLoad(bc[c]) /\ bc[c].remaining # {}

\* A full page with more to come: listSessions.create sweeps the lapsed
\* sessions (gcLocked), then saves both cursors under a new number.
FullPage(c) ==
  /\ pc[c] = "paging" /\ ~Room(c) /\ More(c)
  /\ nextID' = nextID + 1
  /\ active' = [t \in (DOMAIN active \ lapsed) \cup {nextID'} |->
                  IF t = nextID' THEN [overlay |-> Snapshot(oc[c]), baseline |-> Snapshot(bc[c])]
                                 ELSE active[t]]
  /\ lapsed' = {}
  /\ Reply(c, nextID', "ready")
  /\ UNCHANGED <<backends, start, zeroed, restarts>>

\* A backend error, or a client gone: the call ends without a page, and the
\* client may ask again with the token it has.
PageFails(c) ==
  /\ pc[c] = "paging" /\ faults < MaxFaults
  /\ faults' = faults + 1
  /\ EndCalls({c}, "ready")
  /\ UNCHANGED <<backends, sessions, token, history, restarts>>

-----------------------------------------------------------------------------
(* Time and crashes.                                                       *)

\* listSessionTTL goes by without a lookup of t.
Lapse(t) ==
  /\ t \in DOMAIN active \ lapsed /\ faults < MaxFaults
  /\ lapsed' = lapsed \cup {t}
  /\ faults' = faults + 1
  /\ UNCHANGED <<backends, active, nextID, calls, clients, history, restarts>>

\* The gateway process is replaced: newListSessions, and calls die.
Restart ==
  /\ restarts < MaxRestarts
  /\ restarts' = restarts + 1
  /\ active' = << >> /\ nextID' = 0 /\ lapsed' = {}
  /\ EndCalls({c \in Clients : pc[c] = "paging"}, "ready")
  /\ UNCHANGED <<backends, token, history, faults>>

\* What the gateway does for c's listing.
Serve(c) ==
  \/ LoadOverlay(c)
  \/ LoadBaseline(c)
  \/ RefuseListing(c)
  \/ RefuseSize(c)
  \/ MergeHead(c)
  \/ LastPage(c)
  \/ FullPage(c)

NextPage(c) == \E n \in PageSizes : StartPage(c, n)

Next ==
  \/ \E c \in Clients : NextPage(c) \/ Serve(c) \/ PageFails(c)
  \/ \E e \in Writable : OverlayPut(e)
  \/ \E t \in DOMAIN active : Lapse(t)
  \/ Restart

\* A running handler goes on, its backend calls return, and a client that has
\* begun a listing keeps asking for its next page.
Fairness == \A c \in Clients :
  /\ WF_vars(Serve(c))
  /\ WF_vars(pc[c] = "ready" /\ NextPage(c))

Spec == Init /\ [][Next]_vars /\ Fairness

-----------------------------------------------------------------------------
Items == [key : Entries, layer : {"overlay", "baseline"}]
PCs   == {"new", "ready", "paging", "finished", "refused", "failed"}

\* Every variable stays in its domain; tokens handed out are below nextID.
TypeOK ==
  /\ absent \subseteq {"overlay", "baseline"}
  /\ overlay \subseteq Entries /\ baseline \subseteq Entries \ Hidden
  /\ nextID \in Nat /\ DOMAIN active \subseteq 1 .. nextID
  /\ \A t \in DOMAIN active : active[t] \in [overlay : Cursors, baseline : Cursors]
  /\ lapsed \subseteq DOMAIN active
  /\ pc \in [Clients -> PCs] /\ token \in [Clients -> Nat]
  /\ seen \in [Clients -> Seq(Items)] /\ out \in [Clients -> Seq(Items)]
  /\ oc \in [Clients -> Cursors] /\ bc \in [Clients -> Cursors]
  /\ max \in [Clients -> Nat \ {0}]
  /\ resumed \in [Clients -> BOOLEAN]
  /\ start \in [Clients -> [overlay : SUBSET Entries, baseline : SUBSET Entries]]
  /\ zeroed \subseteq Clients
  /\ faults \in 0 .. MaxFaults /\ restarts \in 0 .. MaxRestarts

KeysOf(s) == {s[i].key : i \in DOMAIN s}

AllIsListed(c) ==
  pc[c] = "finished" =>
    /\ start[c].overlay \cup start[c].baseline \subseteq KeysOf(seen[c])
    /\ KeysOf(seen[c]) \subseteq (overlay \ Hidden) \cup baseline

\* cursorState: until the gateway is replaced, a listing that ends, none of whose
\* pages asked for a size whose int32 is 0, has listed every entry either backend had
\* when it began, since it last began anew, however many writes, failed pages, lost
\* replies and expired sessions came in between, and nothing that neither has.
ListingIsComplete == restarts = 0 => \A c \in Clients \ zeroed : AllIsListed(c)

\* cursorState (overlay.go:22-25): persisting the unconsumed tail "is what keeps the
\* k-way merge from skipping entries".
EntriesAreNotSkipped == \A c \in Clients : AllIsListed(c)

\* ListPage: until the gateway is replaced, the pages of a listing are in strictly
\* increasing key order, unless it begins anew, so no entry appears twice, though
\* each layer is paged separately and the overlay grows under the merge.
PagesStrictlyIncrease ==
  restarts = 0 => \A c \in Clients :
    LET all == seen[c] \o (IF pc[c] = "paging" THEN out[c] ELSE << >>)
    IN  \A i, j \in DOMAIN all : i < j => all[i].key < all[j].key

\* Client c is shown the overlay's object for an entry the overlay had when its
\* listing began.
OverlayWins(c) ==
  \A i \in DOMAIN seen[c] :
    seen[c][i].key \in start[c].overlay => seen[c][i].layer = "overlay"

\* ListPage, "overlay keys win": until the gateway is replaced, an entry the overlay
\* had when the listing began is never shown with the baseline's object, unless a
\* page was asked for with a size whose int32 is 0, and no object is shown for a
\* layer that does not hold it, whatever was asked for.
OverlayShadowsBaseline ==
  restarts = 0 => \A c \in Clients :
    /\ c \notin zeroed => OverlayWins(c)
    /\ \A i \in DOMAIN seen[c] : LET it == seen[c][i] IN
         /\ it.layer = "overlay" => it.key \in overlay
         /\ it.layer = "baseline" => it.key \in baseline

\* README.md:25, `ListObjects`: "merged view of both stores, overlay keys win".  This
\* asks it of every listing, and holds where all page sizes are below 2^31 and the
\* gateway is not replaced.
ListingIsMergedView == \A c \in Clients : AllIsListed(c) /\ OverlayWins(c)

\* The final peeks of ListPage: a token is only handed out when something is
\* left, so the page it resumes is never empty, even where a backend marks its
\* last page truncated or the marker is all it returns.
NoEmptyContinuation ==
  \A c \in Clients :
    pc[c] = "paging" /\ resumed[c] /\ oc[c].done /\ bc[c].done
      /\ oc[c].remaining \cup bc[c].remaining = {} => out[c] # << >>

\* load and ListPage: every listing ends, although pages are merged while the
\* overlay grows, a lapsed session sends a listing back to its beginning, and a page
\* size may be none a backend has.
ListingsEnd ==
  \A c \in Clients : pc[c] = "paging" ~> pc[c] \in {"finished", "refused", "failed"}

\* What a cursor has left: entries it fetched, and those it may yet fetch, which
\* count twice because they are fetched before they are merged.
Left(cur) == Cardinality(cur.remaining) +
             IF cur.done THEN 0 ELSE 1 + 2 * Cardinality({e \in Entries : e > cur.after})
WorkLeft(c) == Left(oc[c]) + Left(bc[c])

\* load and the loop of ListPage: every step of a running call leaves less to do,
\* so that no call pages for ever, whatever is written under it and wherever the
\* backends cut their pages.
PagesMakeProgress ==
  [][\A c \in Clients : pc[c] = "paging" /\ pc'[c] = "paging" =>
       WorkLeft(c)' < WorkLeft(c) \/ UNCHANGED <<oc[c], bc[c], out[c]>>]_vars

-----------------------------------------------------------------------------
(* What the sessions, cursors and backend pages are for.                   *)

Merged == INSTANCE MergedListing WITH
  top   <- overlay \ Hidden,
  base  <- baseline,
  state <- [c \in Clients |-> IF pc[c] \in {"ready", "paging"} THEN "open" ELSE pc[c]],
  owed  <- start,
  waived <- zeroed,
  shown <- [c \in Clients |-> {seen[c][i] : i \in DOMAIN seen[c]}]

\* ListPage: until the gateway is replaced, paginated listings do what MergedListing
\* does: pages, retries and lapsed sessions make up one walk of the merged view.
ImplementsMergedListing ==
  Merged!Init /\ [][restarts' = 0 => Merged!Next]_(Merged!vars)
=============================================================================
