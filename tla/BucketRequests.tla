--------------------------- MODULE BucketRequests ---------------------------
(***************************************************************************)
(* The bucket calls of overlayStore (overlay.go) while other requests fill *)
(* the namespace of BucketNamespace: ListBuckets, whose overlay half is a  *)
(* loop over the backend's pages (remote.go), a step each; BucketExists,   *)
(* which asks the overlay and then the baseline; CreateBucket.  Every call *)
(* to a backend may fail.  A marker that lands without being acknowledged  *)
(* (a retried or given-up CreateBucket) is a step of BucketNamespace.      *)
(*                                                                         *)
(* begun is a history variable.                                            *)
(***************************************************************************)
EXTENDS BucketNamespace

CONSTANTS Clients,    \* concurrent requests
          Rank,       \* Rank[s]: the place of a prefix ending in s/ in a listing
          Calls       \* the calls clients make

ASSUME RankAssumption  == Rank \in [Segments -> Nat \ {0}]
ASSUME CallsAssumption == Calls \subseteq [op : {"list", "exists", "create"}, bucket : Buckets]

VARIABLES
  call,       \* call[c]: the call of client c
  stage,      \* "idle", "overlay", "baseline", "done"
  found,      \* found[c]: the bucket names collected
  token,      \* token[c]: the place the next page begins behind
  answer,     \* "none", "ok", "yes", "no", "error"
  begun       \* begun[c]: the overlay's buckets when the call began, of those
              \* the call is about

callVars == <<call, stage, found, token, answer, begun>>
allVars  == <<vars, callVars>>

NoCall  == [op |-> "none", bucket |-> ""]

CallInit ==
  /\ Init
  /\ call   = [c \in Clients |-> NoCall]
  /\ stage  = [c \in Clients |-> "idle"]
  /\ found  = [c \in Clients |-> {}]
  /\ token  = [c \in Clients |-> 0]
  /\ answer = [c \in Clients |-> "none"]
  /\ begun  = [c \in Clients |-> {}]

Begin(c, q) ==
  /\ stage[c] \in {"idle", "done"}
  /\ call'   = [call EXCEPT ![c] = q]
  /\ stage'  = [stage EXCEPT ![c] = "overlay"]
  /\ found'  = [found EXCEPT ![c] = {}]
  /\ token'  = [token EXCEPT ![c] = 0]
  /\ answer' = [answer EXCEPT ![c] = "none"]
  /\ begun'  = [begun EXCEPT ![c] = {b \in Buckets :
                  InOverlay(b) /\ (q.op = "list" \/ b = q.bucket)}]
  /\ UNCHANGED vars

At(c, op, where) == call[c].op = op /\ stage[c] = where

Answer(c, a) ==
  /\ stage'  = [stage EXCEPT ![c] = "done"]
  /\ answer' = [answer EXCEPT ![c] = a]
  /\ token'  = [token EXCEPT ![c] = 0]

-----------------------------------------------------------------------------
(* ListBuckets                                                             *)

Place(row) == Rank[row[Len(root)]]

\* The rows behind the token, and those of them up to a place.
Behind(c) == {r \in FirstLevel : token[c] < Place(r)}
PageTo(c, place) == {r \in Behind(c) : Place(r) <= place}

Mutant_TruncatedPage(c, place) ==        \* keeps the names of one page only
  /\ At(c, "list", "overlay") /\ token[c] < place
  /\ found' = [found EXCEPT ![c] = NamesOf(PageTo(c, place))]
  /\ token' = [token EXCEPT ![c] = place]
  /\ UNCHANGED <<vars, call, stage, answer, begun>>

\* A page may have no prefix on it, when objects or markers fill it.
TruncatedPage(c, place) ==
  /\ At(c, "list", "overlay") /\ token[c] < place
  /\ found' = [found EXCEPT ![c] = @ \cup NamesOf(PageTo(c, place))]
  /\ token' = [token EXCEPT ![c] = place]
  /\ UNCHANGED <<vars, call, stage, answer, begun>>

Places == {Rank[s] : s \in Segments}

Mutant_LastPage(c) ==                    \* asks again, without a token
  /\ At(c, "list", "overlay")
  /\ token' = [token EXCEPT ![c] = 0]
  /\ found' = [found EXCEPT ![c] = {}]
  /\ UNCHANGED <<vars, call, stage, answer, begun>>

LastPage(c) ==
  /\ At(c, "list", "overlay")
  /\ found' = [found EXCEPT ![c] = @ \cup NamesOf(Behind(c))]
  /\ stage' = [stage EXCEPT ![c] = "baseline"] /\ token' = [token EXCEPT ![c] = 0]
  /\ UNCHANGED <<vars, call, answer, begun>>

BaselineLists(c) ==
  /\ At(c, "list", "baseline")
  /\ found' = [found EXCEPT ![c] = @ \cup baseline]
  /\ Answer(c, "ok")
  /\ UNCHANGED <<vars, call, begun>>

\* A call fails, or a truncated page has no token: neither half is shown alone.
ListFails(c) ==
  /\ call[c].op = "list" /\ stage[c] \in {"overlay", "baseline"}
  /\ found' = [found EXCEPT ![c] = {}]
  /\ Answer(c, "error")
  /\ UNCHANGED <<vars, call, begun>>

-----------------------------------------------------------------------------
(* BucketExists                                                            *)

OverlayHasBucket(c) ==
  /\ At(c, "exists", "overlay") /\ Holds(call[c].bucket)
  /\ Answer(c, "yes")
  /\ UNCHANGED <<vars, call, found, begun>>

OverlayHasNot(c) ==
  /\ At(c, "exists", "overlay") /\ ~Holds(call[c].bucket)
  /\ stage' = [stage EXCEPT ![c] = "baseline"]
  /\ UNCHANGED <<vars, call, found, token, answer, begun>>

Mutant_OverlayProbeFails(c) ==           \* a failure is a miss
  /\ At(c, "exists", "overlay")
  /\ stage' = [stage EXCEPT ![c] = "baseline"]
  /\ UNCHANGED <<vars, call, found, token, answer, begun>>

OverlayProbeFails(c) ==
  /\ At(c, "exists", "overlay")
  /\ Answer(c, "error")
  /\ UNCHANGED <<vars, call, found, begun>>

BaselineAnswers(c) ==
  /\ At(c, "exists", "baseline")
  /\ Answer(c, IF call[c].bucket \in baseline THEN "yes" ELSE "no")
  /\ UNCHANGED <<vars, call, found, begun>>

\* Unlike the overlay's, a failure of the baseline reads as a miss.
BaselineProbeFails(c) ==
  /\ At(c, "exists", "baseline")
  /\ Answer(c, "no")
  /\ UNCHANGED <<vars, call, found, begun>>

-----------------------------------------------------------------------------
(* CreateBucket                                                            *)

CreateReturns(c) ==
  /\ At(c, "create", "overlay")
  /\ CreateBucket(call[c].bucket)
  /\ Answer(c, "ok")
  /\ UNCHANGED <<call, found, begun>>

CreateFails(c) ==
  /\ At(c, "create", "overlay")
  /\ Answer(c, "error")
  /\ UNCHANGED <<vars, call, found, begun>>

Serve(c) ==
  \/ \E place \in Places : TruncatedPage(c, place)
  \/ LastPage(c) \/ BaselineLists(c) \/ ListFails(c)
  \/ OverlayHasBucket(c) \/ OverlayHasNot(c) \/ OverlayProbeFails(c)
  \/ BaselineAnswers(c) \/ BaselineProbeFails(c)
  \/ CreateReturns(c) \/ CreateFails(c)

CallNext ==
  \/ \E c \in Clients : Serve(c) \/ \E q \in Calls : Begin(c, q)
  \/ Next /\ UNCHANGED callVars

\* A backend answers or its call fails, and the handler goes on.
CallSpec == CallInit /\ [][CallNext]_allVars /\ \A c \in Clients : WF_allVars(Serve(c))

-----------------------------------------------------------------------------
\* Every variable stays in its domain.
CallTypeOK ==
  /\ call   \in [Clients -> Calls \cup {NoCall}]
  /\ stage  \in [Clients -> {"idle", "overlay", "baseline", "done"}]
  /\ found  \in [Clients -> SUBSET Buckets]
  /\ token  \in [Clients -> {0} \cup Places]
  /\ answer \in [Clients -> {"none", "ok", "yes", "no", "error"}]
  /\ begun  \in [Clients -> SUBSET Buckets]

\* overlayStore.ListBuckets: a list that is answered is of both backends, names
\* nothing that is no bucket, and without a mapping root has every overlay bucket
\* there was when it began, though buckets appear between the backend's pages.
BucketListsAreWhole ==
  \A c \in Clients : call[c].op = "list" /\ answer[c] = "ok" =>
    /\ baseline \subseteq found[c] /\ found[c] \subseteq Existing
    /\ root = Empty => begun[c] \subseteq found[c]

\* overlayStore.BucketExists: whichever call fails, a bucket the overlay had when
\* the probe began is never denied, and none is confirmed that does not exist.
ProbesAreTrue ==
  \A c \in Clients : call[c].op = "exists" =>
    /\ answer[c] = "yes" => call[c].bucket \in Existing
    /\ answer[c] = "no"  => call[c].bucket \notin begun[c]

\* ServeHTTP: every bucket call is answered, and the page loop ends.
BucketCallsAreAnswered ==
  \A c \in Clients : stage[c] = "overlay" ~> stage[c] = "done"
=============================================================================
