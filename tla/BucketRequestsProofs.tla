------------------------ MODULE BucketRequestsProofs ------------------------
(***************************************************************************)
(* The bucket calls, for any clients, namespace and interleaving: lists    *)
(* are whole and probes true, whichever backend calls fail.                *)
(***************************************************************************)
EXTENDS BucketRequests, BucketNamespaceProofs

InOverlayNow == {b \in Buckets : InOverlay(b)}

\* What a call of a client knows: what it has collected exists, and while the
\* page loop runs, what it owes is collected or still behind the token.
CallInv(c) ==
  /\ found[c] \subseteq Existing /\ begun[c] \subseteq InOverlayNow
  /\ call[c].op = "list" /\ root = Empty =>
       \A b \in begun[c] : \/ b \in found[c]
                           \/ stage[c] = "overlay" /\ token[c] < Rank[b]
                           \/ answer[c] = "error"
  /\ answer[c] # "none" => stage[c] = "done"
  /\ call[c].op = "list" /\ answer[c] = "ok" => baseline \subseteq found[c]
  /\ call[c].op = "exists" /\ stage[c] = "baseline" => call[c].bucket \notin begun[c]
  /\ call[c].op = "exists" /\ answer[c] = "yes" => call[c].bucket \in Existing
  /\ call[c].op = "exists" /\ answer[c] = "no" => call[c].bucket \notin begun[c]

CallsInv == /\ PhysicalInv /\ baseline \subseteq Buckets
            /\ CallTypeOK /\ \A c \in Clients : CallInv(c)

-----------------------------------------------------------------------------
\* The namespace only grows, and keeps its root and its baseline.
LEMMA Growth ==
  ASSUME [Next]_vars
  PROVE  /\ root' = root /\ baseline' = baseline
         /\ Existing \subseteq Existing' /\ InOverlayNow \subseteq InOverlayNow'
<1>1. /\ root' = root /\ baseline' = baseline
      /\ made \subseteq made' /\ written \subseteq written'
  BY DEF Next, CreateBucket, Put, ForeignPut, vars
<1>2. \A b : InOverlay(b) => InOverlay(b)'
  BY <1>1 DEF InOverlay
<1> QED
  BY <1>1, <1>2 DEF Existing, InOverlayNow

\* What a call knows stays true while others act.
LEMMA Undisturbed ==
  ASSUME CallsInv, [Next]_vars, NEW c \in Clients,
         call'[c] = call[c], stage'[c] = stage[c], found'[c] = found[c],
         token'[c] = token[c], answer'[c] = answer[c], begun'[c] = begun[c]
  PROVE  CallInv(c)'
<1>1. CallInv(c)
  BY DEF CallsInv
<1> QED
  BY <1>1, Growth DEF CallInv

LEMMA NextKeepsNamespace ==
  ASSUME CallsInv, [Next]_vars
  PROVE  PhysicalInv' /\ baseline' \subseteq Buckets
BY Growth, PhysicalStep DEF CallsInv

\* A page carries the name of every bucket whose row it covers.
LEMMA PageNames ==
  ASSUME CallsInv, NEW c \in Clients, NEW place
  PROVE  /\ NamesOf(PageTo(c, place)) \subseteq InOverlayNow
         /\ NamesOf(Behind(c)) \subseteq InOverlayNow
         /\ root = Empty => \A b \in InOverlayNow : token[c] < Rank[b] =>
              /\ b \in NamesOf(Behind(c))
              /\ Rank[b] <= place => b \in NamesOf(PageTo(c, place))
<1>1. /\ Behind(c) \subseteq FirstLevel /\ PageTo(c, place) \subseteq FirstLevel
      /\ PhysicalInv
  BY DEF CallsInv, Behind, PageTo
<1>2. ASSUME root = Empty, NEW b \in InOverlayNow
      PROVE  RowOf(b) \in FirstLevel /\ Place(RowOf(b)) = Rank[b] /\ b \in Buckets
  <2>1. RowOf(b) \in FirstLevel
    BY <1>1, <1>2, RowsAreBuckets DEF InOverlayNow
  <2>2. Len(root) = 1
    BY <1>2 DEF Empty
  <2>3. RowOf(b)[1] = b
    BY <1>2, RowsAreNamed DEF InOverlayNow
  <2> QED
    BY <2>1, <2>2, <2>3 DEF Place, InOverlayNow
<1>3. /\ NamesOf(PageTo(c, place)) \subseteq InOverlayNow
      /\ NamesOf(Behind(c)) \subseteq InOverlayNow
  BY <1>1, RowNames DEF InOverlayNow
<1>4. ASSUME root = Empty, NEW b \in InOverlayNow, token[c] < Rank[b]
      PROVE  /\ b \in NamesOf(Behind(c))
             /\ Rank[b] <= place => b \in NamesOf(PageTo(c, place))
  <2>1. RowOf(b) \in FirstLevel /\ Place(RowOf(b)) = Rank[b] /\ b \in Buckets
    BY <1>2, <1>4
  <2>2. RowOf(b) \in Behind(c)
    BY <1>4, <2>1 DEF Behind
  <2>3. Rank[b] <= place => RowOf(b) \in PageTo(c, place)
    BY <2>1, <2>2 DEF PageTo
  <2>4. /\ NamesOf(Behind(c)) = {a \in Buckets : RowOf(a) \in Behind(c)}
        /\ NamesOf(PageTo(c, place)) = {a \in Buckets : RowOf(a) \in PageTo(c, place)}
    BY <1>1, <1>4, RowNames
  <2> QED
    BY <2>1, <2>2, <2>3, <2>4
<1> QED
  BY <1>3, <1>4

-----------------------------------------------------------------------------
(* One lemma per group of actions: client c acts, the others are           *)
(* undisturbed.                                                            *)

Others(c) == \A d \in Clients \ {c} :
  /\ call'[d] = call[d] /\ stage'[d] = stage[d] /\ found'[d] = found[d]
  /\ token'[d] = token[d] /\ answer'[d] = answer[d] /\ begun'[d] = begun[d]

LEMMA OneActs ==
  ASSUME CallsInv, [Next]_vars, NEW c \in Clients, Others(c), CallTypeOK', CallInv(c)'
  PROVE  CallsInv'
<1>1. \A d \in Clients : CallInv(d)'
  BY Undisturbed DEF Others
<1> QED
  BY <1>1, NextKeepsNamespace DEF CallsInv

LEMMA NamedBucket ==
  ASSUME CallTypeOK, NEW c \in Clients, call[c].op # "none"
  PROVE  call[c].bucket \in Buckets
<1>1. call[c] \in Calls \/ call[c] = NoCall
  BY DEF CallTypeOK
<1>2. NoCall.op = "none"
  BY DEF NoCall
<1>3. \A q \in Calls : q.bucket \in Buckets
  BY CallsAssumption
<1> QED
  BY <1>1, <1>2, <1>3

LEMMA BeginStep ==
  ASSUME CallsInv, NEW c \in Clients, NEW q \in Calls, Begin(c, q)
  PROVE  CallsInv'
<1> USE DEF Begin
<1>1. [Next]_vars /\ Others(c)
  BY DEF CallsInv, CallTypeOK, Others
<1>2. CallTypeOK'
  BY DEF CallsInv, CallTypeOK
<1>3. CallInv(c)'
  <2>1. /\ call'[c] = q /\ stage'[c] = "overlay" /\ found'[c] = {} /\ token'[c] = 0
        /\ answer'[c] = "none" /\ begun'[c] \subseteq InOverlayNow
    BY DEF CallsInv, CallTypeOK, InOverlayNow
  <2>2. Existing' = Existing /\ InOverlayNow' = InOverlayNow
    BY DEF vars, Existing, InOverlayNow, InOverlay
  <2>3. \A b \in InOverlayNow : 0 < Rank[b]
    <3>1. \A b \in Buckets : b \in Segments
      BY BucketsAssumption
    <3>2. \A s \in Segments : Rank[s] \in Nat \ {0}
      BY RankAssumption
    <3>3. \A n \in Nat \ {0} : 0 < n
      OBVIOUS
    <3> QED
      BY <3>1, <3>2, <3>3 DEF InOverlayNow
  <2> QED
    BY <2>1, <2>2, <2>3 DEF CallInv
<1> QED
  BY <1>1, <1>2, <1>3, OneActs

LEMMA ListStep ==
  ASSUME CallsInv, NEW c \in Clients,
         \/ \E place \in Places : TruncatedPage(c, place)
         \/ LastPage(c) \/ BaselineLists(c) \/ ListFails(c)
  PROVE  CallsInv'
<1>1. /\ CallTypeOK /\ CallInv(c) /\ baseline \subseteq Buckets
      /\ InOverlayNow \subseteq Existing /\ InOverlayNow \subseteq Buckets
      /\ baseline \subseteq Existing
  BY DEF CallsInv, InOverlayNow, Existing
<1>2. /\ UNCHANGED vars /\ Others(c)
      /\ Existing' = Existing /\ InOverlayNow' = InOverlayNow
      /\ root' = root /\ baseline' = baseline
  <2>1. UNCHANGED vars /\ Others(c)
    BY <1>1 DEF CallTypeOK, Others, TruncatedPage, LastPage, BaselineLists, ListFails, Answer
  <2> QED
    BY <2>1 DEF vars, Existing, InOverlayNow, InOverlay
<1>3. ASSUME NEW place \in Places, TruncatedPage(c, place)
      PROVE  CallTypeOK' /\ CallInv(c)'
  <2>1. /\ call'[c] = call[c] /\ stage'[c] = stage[c] /\ token'[c] = place
        /\ found'[c] = found[c] \cup NamesOf(PageTo(c, place))
        /\ answer'[c] = answer[c] /\ begun'[c] = begun[c]
        /\ call[c].op = "list" /\ stage[c] = "overlay"
    BY <1>1, <1>3 DEF CallTypeOK, TruncatedPage, At
  <2>2. NamesOf(PageTo(c, place)) \subseteq InOverlayNow
    BY PageNames
  <2>3. CallTypeOK'
    BY <1>1, <1>3, <2>2 DEF CallTypeOK, TruncatedPage
  <2>4. ASSUME root = Empty, NEW b \in begun[c], token[c] < Rank[b]
        PROVE  b \in NamesOf(PageTo(c, place)) \/ place < Rank[b]
    <3>1. b \in InOverlayNow /\ Rank[b] \in Nat /\ place \in Nat
      BY <1>1, RankAssumption, BucketsAssumption DEF CallInv, Places
    <3> QED
      BY <2>4, <3>1, PageNames
  <2>5. CallInv(c)'
    BY <1>1, <1>2, <2>1, <2>2, <2>4 DEF CallInv
  <2> QED
    BY <2>3, <2>5
<1>4. ASSUME LastPage(c) PROVE CallTypeOK' /\ CallInv(c)'
  <2>1. /\ call'[c] = call[c] /\ stage'[c] = "baseline"
        /\ found'[c] = found[c] \cup NamesOf(Behind(c))
        /\ answer'[c] = answer[c] /\ begun'[c] = begun[c]
        /\ call[c].op = "list" /\ stage[c] = "overlay"
    BY <1>1, <1>4 DEF CallTypeOK, LastPage, At
  <2>2. NamesOf(Behind(c)) \subseteq InOverlayNow
    BY PageNames
  <2>3. CallTypeOK'
    BY <1>1, <1>4, <2>2 DEF CallTypeOK, LastPage
  <2>4. ASSUME root = Empty, NEW b \in begun[c], token[c] < Rank[b]
        PROVE  b \in NamesOf(Behind(c))
    BY <1>1, <2>4, PageNames DEF CallInv
  <2>5. CallInv(c)'
    BY <1>1, <1>2, <2>1, <2>2, <2>4 DEF CallInv
  <2> QED
    BY <2>3, <2>5
<1>5. ASSUME BaselineLists(c) PROVE CallTypeOK' /\ CallInv(c)'
  <2>1. /\ call'[c] = call[c] /\ stage'[c] = "done" /\ found'[c] = found[c] \cup baseline
        /\ answer'[c] = "ok" /\ begun'[c] = begun[c]
        /\ call[c].op = "list" /\ stage[c] = "baseline"
    BY <1>1, <1>5 DEF CallTypeOK, BaselineLists, Answer, At
  <2>2. CallTypeOK'
    BY <1>1, <1>5 DEF CallTypeOK, BaselineLists, Answer
  <2>3. CallInv(c)'
    BY <1>1, <1>2, <2>1 DEF CallInv
  <2> QED
    BY <2>2, <2>3
<1>6. ASSUME ListFails(c) PROVE CallTypeOK' /\ CallInv(c)'
  <2>1. /\ call'[c] = call[c] /\ stage'[c] = "done" /\ found'[c] = {}
        /\ answer'[c] = "error" /\ begun'[c] = begun[c] /\ call[c].op = "list"
    BY <1>1, <1>6 DEF CallTypeOK, ListFails, Answer
  <2>2. CallTypeOK'
    BY <1>1, <1>6 DEF CallTypeOK, ListFails, Answer
  <2>3. CallInv(c)'
    BY <1>1, <1>2, <2>1 DEF CallInv
  <2> QED
    BY <2>2, <2>3
<1> QED
  BY <1>2, <1>3, <1>4, <1>5, <1>6, OneActs

LEMMA ProbeStep ==
  ASSUME CallsInv, NEW c \in Clients,
         \/ OverlayHasBucket(c) \/ OverlayHasNot(c) \/ OverlayProbeFails(c)
         \/ BaselineAnswers(c) \/ BaselineProbeFails(c)
  PROVE  CallsInv'
<1> USE DEF OverlayHasBucket, OverlayHasNot, OverlayProbeFails, BaselineAnswers,
            BaselineProbeFails, Answer, At
<1>1. CallTypeOK /\ CallInv(c) /\ baseline \subseteq Existing
  BY DEF CallsInv, Existing
<1>2. /\ UNCHANGED vars /\ Others(c)
      /\ Existing' = Existing /\ InOverlayNow' = InOverlayNow
      /\ root' = root /\ baseline' = baseline
  <2>1. UNCHANGED vars /\ Others(c)
    BY <1>1 DEF CallTypeOK, Others
  <2> QED
    BY <2>1 DEF vars, Existing, InOverlayNow, InOverlay
<1>3. CallTypeOK'
  BY <1>1 DEF CallTypeOK
<1>4. /\ call[c].op = "exists" /\ call'[c] = call[c] /\ found'[c] = found[c]
      /\ begun'[c] = begun[c] /\ call[c].bucket \in Buckets
  <2>1. /\ call[c].op = "exists" /\ call'[c] = call[c] /\ found'[c] = found[c]
        /\ begun'[c] = begun[c]
    OBVIOUS
  <2> QED
    BY <1>1, <2>1, NamedBucket
<1>5. Holds(call[c].bucket) <=> call[c].bucket \in InOverlayNow
  BY <1>4, HoldsExactly DEF CallsInv, InOverlayNow
<1>6. Holds(call[c].bucket) => call[c].bucket \in Existing
  BY <1>5 DEF InOverlayNow, Existing
<1>7. \/ stage'[c] = "done" /\ answer'[c] = "yes" /\ call[c].bucket \in Existing
      \/ stage'[c] = "baseline" /\ answer'[c] = answer[c] /\ ~Holds(call[c].bucket)
         /\ stage[c] = "overlay"
      \/ stage'[c] = "done" /\ answer'[c] = "error"
      \/ stage'[c] = "done" /\ answer'[c] = "no" /\ stage[c] = "baseline"
  BY <1>1, <1>6 DEF CallTypeOK
<1>8. CallInv(c)'
  BY <1>1, <1>2, <1>4, <1>5, <1>7 DEF CallInv
<1> QED
  BY <1>2, <1>3, <1>8, OneActs

LEMMA CreateStep ==
  ASSUME CallsInv, NEW c \in Clients, CreateReturns(c) \/ CreateFails(c)
  PROVE  CallsInv'
<1> USE DEF CreateReturns, CreateFails, Answer, At
<1>1. CallTypeOK /\ CallInv(c)
  BY DEF CallsInv
<1>2. /\ call[c].op = "create" /\ call'[c] = call[c] /\ found'[c] = found[c]
      /\ begun'[c] = begun[c] /\ call[c].bucket \in Buckets
      /\ stage'[c] = "done" /\ answer'[c] \in {"ok", "error"}
  <2>1. /\ call[c].op = "create" /\ call'[c] = call[c] /\ found'[c] = found[c]
        /\ begun'[c] = begun[c]
    OBVIOUS
  <2>2. stage'[c] = "done" /\ answer'[c] \in {"ok", "error"}
    BY <1>1 DEF CallTypeOK
  <2> QED
    BY <1>1, <2>1, <2>2, NamedBucket
<1>3. [Next]_vars
  BY <1>2 DEF Next
<1>4. Others(c) /\ CallTypeOK'
  BY <1>1 DEF CallTypeOK, Others
<1>5. CallInv(c)'
  BY <1>1, <1>2, <1>3, Growth DEF CallInv
<1> QED
  BY <1>3, <1>4, <1>5, OneActs

LEMMA CallsStart == CallInit => CallsInv
<1> SUFFICES ASSUME CallInit PROVE CallsInv
  OBVIOUS
<1>1. PhysicalInv /\ baseline \subseteq Buckets
  BY DEF CallInit, Init, PhysicalInv
<1>2. CallTypeOK
  BY DEF CallInit, CallTypeOK
<1>3. \A c \in Clients : CallInv(c)
  BY DEF CallInit, CallInv, NoCall
<1> QED
  BY <1>1, <1>2, <1>3 DEF CallsInv

LEMMA CallsStep == CallsInv /\ [CallNext]_allVars => CallsInv'
<1> SUFFICES ASSUME CallsInv, [CallNext]_allVars PROVE CallsInv'
  OBVIOUS
<1>1. ASSUME NEW c \in Clients, Serve(c) PROVE CallsInv'
  BY <1>1, ListStep, ProbeStep, CreateStep DEF Serve
<1>2. ASSUME NEW c \in Clients, NEW q \in Calls, Begin(c, q) PROVE CallsInv'
  BY <1>2, BeginStep
<1>3. CASE [Next]_vars /\ UNCHANGED callVars
  <2>1. \A c \in Clients : CallInv(c)'
    BY <1>3, Undisturbed DEF callVars
  <2>2. CallTypeOK'
    BY <1>3 DEF CallsInv, CallTypeOK, callVars
  <2> QED
    BY <1>3, <2>1, <2>2, NextKeepsNamespace DEF CallsInv
<1> QED
  BY <1>1, <1>2, <1>3 DEF CallNext, allVars

LEMMA CallsAlways == CallSpec => []CallsInv
BY CallsStart, CallsStep, PTL DEF CallSpec

\* The bucket calls stay in their types, for any clients and buckets, and any
\* order of the prefixes.
THEOREM CallTypeCorrect == CallSpec => []CallTypeOK
<1>1. CallsInv => CallTypeOK
  BY DEF CallsInv
<1> QED
  BY <1>1, CallsAlways, PTL

\* ListBuckets shows both backends or an error, names what exists, and without a
\* mapping root misses no overlay bucket that was there when it began.
THEOREM BucketListsCorrect == CallSpec => []BucketListsAreWhole
<1>1. CallsInv => BucketListsAreWhole
  <2> SUFFICES ASSUME CallsInv, NEW c \in Clients, call[c].op = "list", answer[c] = "ok"
               PROVE  /\ baseline \subseteq found[c] /\ found[c] \subseteq Existing
                      /\ root = Empty => begun[c] \subseteq found[c]
    BY DEF BucketListsAreWhole
  <2>1. CallInv(c)
    BY DEF CallsInv
  <2> QED
    BY <2>1 DEF CallInv
<1> QED
  BY <1>1, CallsAlways, PTL

\* BucketExists denies no bucket that the overlay had when the probe began, and
\* confirms none that does not exist, whichever of its calls fails.
THEOREM ProbesCorrect == CallSpec => []ProbesAreTrue
<1>1. CallsInv => ProbesAreTrue
  BY DEF CallsInv, CallInv, ProbesAreTrue
<1> QED
  BY <1>1, CallsAlways, PTL

-----------------------------------------------------------------------------
(* The namespace under the calls.                                          *)

\* Whatever calls are served, the namespace takes the steps of BucketNamespace:
\* a CreateBucket call writes the marker of a client bucket and nothing else, and
\* the others write nothing.
THEOREM CallsKeepTheNamespace == CallSpec => Spec
<1>1. CallInit => Init
  BY DEF CallInit
<1>2. CallsInv /\ [CallNext]_allVars => [Next]_vars
  <2> SUFFICES ASSUME CallsInv, [CallNext]_allVars PROVE [Next]_vars
    OBVIOUS
  <2>1. ASSUME NEW c \in Clients, CreateReturns(c) PROVE Next
    <3>1. call[c].bucket \in Buckets
      BY <2>1, NamedBucket DEF CreateReturns, At, CallsInv
    <3> QED
      BY <2>1, <3>1 DEF CreateReturns, Next
  <2>2. ASSUME NEW c \in Clients, Serve(c), ~CreateReturns(c) PROVE UNCHANGED vars
    BY <2>2 DEF Serve, TruncatedPage, LastPage, BaselineLists, ListFails, OverlayHasBucket,
                OverlayHasNot, OverlayProbeFails, BaselineAnswers, BaselineProbeFails,
                CreateFails
  <2>3. ASSUME NEW c \in Clients, NEW q \in Calls, Begin(c, q) PROVE UNCHANGED vars
    BY <2>3 DEF Begin
  <2> QED
    BY <2>1, <2>2, <2>3 DEF CallNext, allVars
<1> QED
  BY <1>1, <1>2, CallsAlways, PTL DEF CallSpec, Spec

\* So while any calls are served, keys do not alias, a listing of a bucket is
\* what S3 would list of the keys put in it, probes are exact, and every name
\* listed is a bucket's.
THEOREM NamespaceUnderCalls ==
  CallSpec => [](KeysDoNotAlias /\ ListingIsTheBuckets /\ ProbeIsExact /\ ListedBucketsExist)
BY CallsKeepTheNamespace, KeysNeverAlias, ListingsAreExact, ProbesAreExact, ListsNameBuckets, PTL
=============================================================================
