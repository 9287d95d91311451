----------------------- MODULE OverlayListingProofs -----------------------
(***************************************************************************)
(* Proofs about merged paginated listings, for any clients, entries, page  *)
(* sizes and faults: the order of what a listing's pages show until the    *)
(* gateway is replaced, and its completeness and whose object it shows for *)
(* a client that asks for no page whose size is 0 as an int32.             *)
(***************************************************************************)
EXTENDS OverlayListing, FiniteSetTheorems, FunctionTheorems, SequenceTheorems,
        WellFoundedInduction, TLAPS

USE EntriesAssumption, HiddenAssumption, AbsentAssumption, PagesAssumption,
    BoundsAssumption

-----------------------------------------------------------------------------
(* Sets of entries have a first and a last element.                        *)

LEMMA LeastExists ==
  ASSUME NEW S \in SUBSET Nat, S # {} PROVE \E m \in S : \A x \in S : m <= x
<1>1. PICK m \in S : \A y \in S : ~ (<<y, m>> \in OpToRel(<, Nat))
  BY NatLessThanWellFounded, WFMin
<1>2. \A y \in S : ~(y < m)
  BY <1>1 DEF OpToRel
<1> QED
  BY <1>2

LEMMA MinFact ==
  ASSUME NEW S \in SUBSET Nat, S # {}
  PROVE  Min(S) \in S /\ \A x \in S : Min(S) <= x
  BY LeastExists DEF Min

LEMMA UpperOfTwo ==
  ASSUME NEW m \in Nat, NEW n \in Nat PROVE \E d \in Nat : m <= d /\ n <= d
<1>1. CASE m <= n
  BY <1>1
<1>2. CASE n <= m
  BY <1>2
<1> QED
  BY <1>1, <1>2

\* If no number bounded the values of f, there would be a least n below which
\* they are not bounded; but a bound of those below n - 1 and f[n] give one.
LEMMA FiniteIsBounded ==
  ASSUME NEW S \in SUBSET Nat, IsFiniteSet(S)
  PROVE  \E b \in Nat : \A x \in S : x <= b
<1>1. PICK N \in Nat : ExistsBijection(1 .. N, S)
  BY FS_NatBijection
<1>2. PICK f \in Bijection(1 .. N, S) : TRUE
  BY <1>1 DEF ExistsBijection
<1>3. /\ \A i \in 1 .. N : f[i] \in Nat
      /\ \A x \in S : \E i \in 1 .. N : f[i] = x
  BY <1>2 DEF Bijection, Surjection
<1> DEFINE Bounds(n, b) == \A i \in 1 .. n : f[i] <= b
           Bad == {n \in 0 .. N : ~ \E b \in Nat : Bounds(n, b)}
<1>4. Bad = {}
  <2> SUFFICES ASSUME Bad # {} PROVE FALSE
    OBVIOUS
  <2>0. Bad \in SUBSET Nat
    OBVIOUS
  <2>1. PICK n \in Bad : \A m \in Bad : n <= m
    <3> HIDE DEF Bad
    <3> QED
      BY <2>0, LeastExists
  <2>2. n # 0
    <3>1. Bounds(0, 0)
      OBVIOUS
    <3> QED
      BY <3>1, <2>1
  <2>3. n \in 1 .. N /\ n - 1 \in 0 .. N
    BY <2>1, <2>2
  <2>4. n - 1 \notin Bad
    <3>1. ~(n <= n - 1)
      BY <2>3
    <3> HIDE DEF Bad
    <3> QED
      BY <2>1, <3>1
  <2>5. PICK b \in Nat : Bounds(n - 1, b)
    BY <2>3, <2>4
  <2>6. f[n] \in Nat /\ b \in Nat
    BY <1>3, <2>3, <2>5
  <2> HIDE DEF Bounds, Bad
  <2>7. PICK d \in Nat : b <= d /\ f[n] <= d
    BY <2>6, UpperOfTwo
  <2>8. ASSUME NEW i \in 1 .. n PROVE f[i] <= d
    <3>1. CASE i = n
      BY <3>1, <2>7
    <3>2. CASE i # n
      <4>1. i \in 1 .. n - 1 /\ i \in 1 .. N
        BY <3>2, <2>3
      <4>2. f[i] \in Nat /\ f[i] <= b
        BY <1>3, <2>5, <4>1 DEF Bounds
      <4> QED
        BY <2>6, <2>7, <4>2
    <3> QED
      BY <3>1, <3>2
  <2>9. Bounds(n, d)
    BY <2>8 DEF Bounds
  <2> QED
    BY <2>1, <2>7, <2>9 DEF Bad
<1>5. PICK b \in Nat : Bounds(N, b)
  <2>1. N \in 0 .. N
    OBVIOUS
  <2> QED
    BY <1>4, <2>1
<1> QED
  BY <1>3, <1>5

LEMMA MaxFact ==
  ASSUME NEW S \in SUBSET Entries, S # {}
  PROVE  Max(S) \in S /\ Max(S) \in Nat /\ \A x \in S : x <= Max(S)
<1> DEFINE U == {b \in Nat : \A x \in S : x <= b}
<1>1. PICK b \in Nat : \A x \in Entries : x <= b
  BY FiniteIsBounded
<1>2. PICK m \in U : \A y \in U : m <= y
  BY <1>1, LeastExists
<1>3. m \in S
  <2> SUFFICES ASSUME m \notin S PROVE FALSE
    OBVIOUS
  <2>1. PICK x \in S : TRUE
    OBVIOUS
  <2>2. m - 1 \in Nat
    BY <1>2, <2>1
  <2>3. m - 1 \in U
    BY <1>2, <2>2
  <2> QED
    BY <1>2, <2>3
<1>4. \E x \in S : \A y \in S : x >= y
  BY <1>2, <1>3
<1> QED
  BY <1>4 DEF Max

-----------------------------------------------------------------------------
(* The inductive invariant. Its parts speak of a listing that began when   *)
(* the backends listed st and has shown s since, or since it began anew; o *)
(* and b are the cursors it goes on with, and ov and bl what the backends  *)
(* list now.                                                               *)

\* What a cursor still comes to, and how its tail lies to its position.
Ahead(cur, e) == e \in cur.remaining \/ (~cur.done /\ e > cur.after)
Tidy(cur)     == cur.done \/ \A e \in cur.remaining : e <= cur.after

\* What was shown lies before all that a cursor comes to.
Behind(s, cur) ==
  \A k \in KeysOf(s) : /\ \A e \in cur.remaining : k < e
                       /\ ~cur.done => k <= cur.after

Increasing(s) == \A i, j \in DOMAIN s : i < j => s[i].key < s[j].key

Held(ov, bl, it) ==
  /\ it.layer = "overlay"  => it.key \in ov \ Hidden
  /\ it.layer = "baseline" => it.key \in bl

\* The part that stays when the cursors are lost.
Stands(ov, bl, st, s) ==
  /\ st.overlay \subseteq ov \ Hidden /\ st.baseline \subseteq bl
  /\ \A i \in DOMAIN s : Held(ov, bl, s[i])
  /\ Increasing(s)

\* The cursors go on behind what was shown, among what the backends hold.
Continues(ov, bl, s, o, b) ==
  /\ Tidy(o) /\ Tidy(b)
  /\ o.remaining \subseteq ov \ Hidden /\ b.remaining \subseteq bl
  /\ Behind(s, o) /\ Behind(s, b)

\* Where no page asked a backend for 0 entries: overlay keys win, nothing is left
\* out, and the baseline is never ahead of the overlay where the overlay had an
\* entry.
Wins(st, s) == \A i \in DOMAIN s : s[i].key \in st.overlay => s[i].layer = "overlay"

Covers(st, s, o, b) ==
  /\ \A e \in st.overlay : Ahead(b, e) => Ahead(o, e)
  /\ \A e \in st.overlay : e \in KeysOf(s) \/ Ahead(o, e)
  /\ \A e \in st.baseline : e \in KeysOf(s) \/ Ahead(b, e)

Listed(c) == seen[c] \o (IF pc[c] = "paging" THEN out[c] ELSE << >>)

WholeInv(c) ==
  /\ Wins(start[c], Listed(c))
  /\ pc[c] = "paging" =>
       Narrow(max[c]) # 0 /\ Covers(start[c], Listed(c), oc[c], bc[c])
  /\ token[c] \in DOMAIN active =>
       Covers(start[c], seen[c], active[token[c]].overlay, active[token[c]].baseline)
  /\ pc[c] = "finished" =>
       start[c].overlay \cup start[c].baseline \subseteq KeysOf(seen[c])

ClientInv(c) ==
  /\ Stands(overlay, baseline, start[c], Listed(c))
  /\ pc[c] = "paging" => Continues(overlay, baseline, Listed(c), oc[c], bc[c])
  /\ token[c] \in DOMAIN active =>
       Continues(overlay, baseline, seen[c],
                 active[token[c]].overlay, active[token[c]].baseline)
  /\ token[c] <= nextID
  /\ pc[c] = "new" => token[c] = 0
  /\ pc[c] \in {"new", "ready", "paging"} /\ token[c] = 0 => seen[c] = << >>
  /\ c \notin zeroed => WholeInv(c)

\* No session is the position of two listings.
TokensDiffer ==
  \A c, d \in Clients : c # d /\ token[c] = token[d] => token[c] = 0

ListInv ==
  /\ "overlay" \in absent => overlay = {}
  /\ "baseline" \in absent => baseline = {}
  /\ TokensDiffer
  /\ \A c \in Clients : ClientInv(c)

IInv == restarts = 0 => ListInv

\* Every saved session, and a page resumed from one until it shows something,
\* has something left in a tail.
LeftInv ==
  /\ \A t \in DOMAIN active :
       active[t].overlay.remaining \cup active[t].baseline.remaining # {}
  /\ \A c \in Clients : pc[c] = "paging" /\ resumed[c] /\ out[c] = << >> =>
       oc[c].remaining \cup bc[c].remaining # {}

-----------------------------------------------------------------------------
(* What the parts keep.                                                    *)

Starts == [overlay : SUBSET Entries, baseline : SUBSET Entries]

LEMMA KeysOfAppend ==
  ASSUME NEW s \in Seq(Items), NEW x \in Items
  PROVE  KeysOf(Append(s, x)) = KeysOf(s) \cup {x.key}
<1> DEFINE t == Append(s, x)
<1>1. /\ DOMAIN s = 1 .. Len(s) /\ DOMAIN t = 1 .. Len(s) + 1 /\ Len(s) \in Nat
      /\ \A i \in DOMAIN s : t[i] = s[i]
      /\ t[Len(s) + 1] = x
  OBVIOUS
<1> HIDE DEF t
<1>2. ASSUME NEW k \in KeysOf(t) PROVE k \in KeysOf(s) \cup {x.key}
  <2>1. PICK i \in DOMAIN t : k = t[i].key
    BY DEF KeysOf
  <2>2. i \in DOMAIN s \/ i = Len(s) + 1
    BY <1>1
  <2> QED
    BY <1>1, <2>1, <2>2 DEF KeysOf
<1>3. ASSUME NEW k \in KeysOf(s) PROVE k \in KeysOf(t)
  <2>1. PICK i \in DOMAIN s : k = s[i].key
    BY DEF KeysOf
  <2>2. i \in DOMAIN t
    BY <1>1
  <2> QED
    BY <1>1, <2>1, <2>2 DEF KeysOf
<1>4. x.key \in KeysOf(t)
  BY <1>1 DEF KeysOf
<1> QED
  BY <1>2, <1>3, <1>4 DEF t

LEMMA KeysAreEntries ==
  ASSUME NEW s \in Seq(Items) PROVE KeysOf(s) \subseteq Entries
<1>1. \A i \in DOMAIN s : s[i] \in Items
  OBVIOUS
<1> QED
  BY <1>1 DEF KeysOf, Items

\* The overlay grows under a listing.
LEMMA OverlayGrows ==
  ASSUME NEW ov, NEW ov2, ov \subseteq ov2, NEW bl, NEW st, NEW s
  PROVE  /\ Stands(ov, bl, st, s) => Stands(ov2, bl, st, s)
         /\ \A o, b : Continues(ov, bl, s, o, b) => Continues(ov2, bl, s, o, b)
  BY DEF Stands, Held, Continues

\* A listing at its beginning, or sent back to it.
LEMMA BeginsAnew ==
  ASSUME NEW ov, NEW bl, NEW st \in Starts, NEW s, s = << >>
  PROVE  /\ Continues(ov, bl, s, NewCursor, NewCursor)
         /\ Covers(st, s, NewCursor, NewCursor)
<1>1. \A e \in Entries : Ahead(NewCursor, e)
  BY DEF Ahead, NewCursor
<1>2. s = << >> => KeysOf(s) = {}
  BY DEF KeysOf
<1> QED
  BY <1>1, <1>2 DEF Continues, Covers, Tidy, NewCursor, Starts, Behind

\* A cursor over a backend that lists S, before and after it got a page, less
\* what is hidden: it comes to no entry it would not have come to.
Advances(S, hidden, cur, new) ==
  /\ Tidy(new)
  /\ new.remaining \subseteq S \ hidden
  /\ \A e \in Entries : Ahead(new, e) => Ahead(cur, e)
  /\ \A k \in Nat : k <= cur.after => /\ \A e \in new.remaining : k < e
                                      /\ ~new.done => k <= new.after

\* And it comes to all that it would.
Reaches(S, hidden, cur, new) == \A e \in S \ hidden : Ahead(cur, e) => Ahead(new, e)

LEMMA LoadedFact ==
  ASSUME NEW S \in SUBSET Entries, NEW hidden, NEW cur \in Cursors, NeedsLoad(cur),
         NEW n, NEW page \in Pages(S, cur.after, n),
         NEW new, new = Loaded(cur, page, hidden)
  PROVE  /\ new \in Cursors /\ Advances(S, hidden, cur, new)
         /\ n # 0 => Reaches(S, hidden, cur, new)
<1> DEFINE above == {e \in S : e > cur.after}
<1>1. /\ page.entries \subseteq above /\ page.truncated \in BOOLEAN
      /\ \A e \in page.entries, f \in above \ page.entries : e < f
      /\ page.entries = {} => ~page.truncated
      /\ n # 0 /\ ~page.truncated => page.entries = above
      /\ \A e \in page.entries : e \in Nat /\ e > cur.after /\ e \in S
  <2>1. CASE n = 0
    <3>1. page = [entries |-> {}, truncated |-> FALSE]
      BY <2>1 DEF Pages
    <3> QED
      BY <2>1, <3>1
  <2>2. CASE n # 0
    BY <2>2 DEF Pages
  <2> QED
    BY <2>1, <2>2
<1>2. /\ cur.after \in Nat /\ cur.remaining = {} /\ ~cur.done
  BY DEF Cursors, NeedsLoad
<1>3. /\ new.remaining = page.entries \ hidden /\ new.done = ~page.truncated
      /\ new.after = IF page.truncated THEN Max(page.entries) ELSE 0
  BY DEF Loaded
<1>4. page.truncated => /\ Max(page.entries) \in page.entries
                        /\ \A e \in page.entries : e <= Max(page.entries)
  BY <1>1, MaxFact
<1>5. new.after \in Nat /\ (page.truncated => new.after > cur.after)
  <2>1. CASE page.truncated
    BY <1>1, <1>3, <1>4, <2>1
  <2>2. CASE ~page.truncated
    BY <1>3, <2>2
  <2> QED
    BY <2>1, <2>2
<1>6. ~new.done => new.after > cur.after
  <2>1. ~new.done => page.truncated
    BY <1>1, <1>3
  <2> QED
    BY <1>5, <2>1
<1>7. new \in Cursors
  <2>1. new = [after |-> new.after, remaining |-> new.remaining, done |-> new.done]
    BY DEF Loaded
  <2>2. new.remaining \in SUBSET Entries /\ new.done \in BOOLEAN
    BY <1>1, <1>3
  <2> QED
    BY <1>5, <2>1, <2>2 DEF Cursors
<1>8. Tidy(new)
  BY <1>1, <1>3, <1>4 DEF Tidy
<1>9. ASSUME NEW e \in Entries, Ahead(new, e) PROVE Ahead(cur, e)
  <2>1. CASE e \in new.remaining
    BY <1>1, <1>2, <1>3, <2>1 DEF Ahead
  <2>2. CASE ~new.done /\ e > new.after
    <3>1. e > cur.after
      BY <1>2, <1>5, <1>6, <2>2
    <3> QED
      BY <1>2, <3>1 DEF Ahead
  <2> QED
    BY <1>9, <2>1, <2>2 DEF Ahead
<1>10. ASSUME n # 0, NEW e \in S \ hidden, Ahead(cur, e) PROVE Ahead(new, e)
  <2>1. e \in above
    BY <1>2, <1>10 DEF Ahead
  <2>2. e \in page.entries \/ (page.truncated /\ Max(page.entries) < e)
    BY <1>1, <1>4, <1>10, <2>1
  <2> QED
    BY <1>3, <2>2 DEF Ahead
<1>11. ASSUME NEW k \in Nat, k <= cur.after
       PROVE  /\ \A e \in new.remaining : k < e
              /\ ~new.done => k <= new.after
  <2>1. \A e \in new.remaining : k < e
    BY <1>1, <1>2, <1>3, <1>11
  <2>2. ~new.done => k <= new.after
    BY <1>2, <1>5, <1>6, <1>11
  <2> QED
    BY <2>1, <2>2
<1> QED
  BY <1>1, <1>3, <1>7, <1>8, <1>9, <1>10, <1>11 DEF Advances, Reaches

LEMMA LoadsOverlay ==
  ASSUME NEW ov \in SUBSET Entries, NEW bl, NEW st \in Starts,
         NEW s \in Seq(Items), NEW o \in Cursors, NEW b \in Cursors,
         Continues(ov, bl, s, o, b), Stands(ov, bl, st, s), NeedsLoad(o),
         NEW n, NEW page \in Pages(ov, o.after, n),
         NEW new, new = Loaded(o, page, Hidden)
  PROVE  /\ new \in Cursors /\ Continues(ov, bl, s, new, b)
         /\ n # 0 /\ Covers(st, s, o, b) => Covers(st, s, new, b)
<1>1. /\ new \in Cursors /\ Advances(ov, Hidden, o, new)
      /\ n # 0 => Reaches(ov, Hidden, o, new)
  BY LoadedFact
<1>2. st.overlay \subseteq ov \ Hidden
  BY DEF Stands
<1>3. Behind(s, new)
  BY <1>1, KeysAreEntries DEF Advances, Behind, Continues, NeedsLoad
<1>4. n # 0 /\ Covers(st, s, o, b) => Covers(st, s, new, b)
  BY <1>1, <1>2 DEF Advances, Reaches, Covers
<1> QED
  BY <1>1, <1>3, <1>4 DEF Advances, Continues

LEMMA LoadsBaseline ==
  ASSUME NEW ov, NEW bl \in SUBSET Entries, NEW st \in Starts,
         NEW s \in Seq(Items), NEW o \in Cursors, NEW b \in Cursors,
         Continues(ov, bl, s, o, b), Stands(ov, bl, st, s), NeedsLoad(b),
         NEW n, NEW page \in Pages(bl, b.after, n),
         NEW new, new = Loaded(b, page, {})
  PROVE  /\ new \in Cursors /\ Continues(ov, bl, s, o, new)
         /\ n # 0 /\ Covers(st, s, o, b) => Covers(st, s, o, new)
<1>1. /\ new \in Cursors /\ Advances(bl, {}, b, new)
      /\ n # 0 => Reaches(bl, {}, b, new)
  BY LoadedFact
<1>2. st.overlay \subseteq Entries /\ st.baseline \subseteq bl
  BY DEF Stands, Starts
<1>3. Behind(s, new)
  BY <1>1, KeysAreEntries DEF Advances, Behind, Continues, NeedsLoad
<1>4. n # 0 /\ Covers(st, s, o, b) => Covers(st, s, o, new)
  BY <1>1, <1>2 DEF Advances, Reaches, Covers
<1> QED
  BY <1>1, <1>3, <1>4 DEF Advances, Continues

\* A backend without the bucket streams as empty.
LEMMA StreamsAsEmpty ==
  ASSUME NEW bl, NEW st \in Starts, NEW s, NEW o \in Cursors, NEW b,
         Continues({}, bl, s, o, b), Stands({}, bl, st, s), NeedsLoad(o),
         NEW new, new = [o EXCEPT !.done = TRUE]
  PROVE  /\ new \in Cursors /\ Continues({}, bl, s, new, b)
         /\ Covers(st, s, o, b) => Covers(st, s, new, b)
<1>1. new \in Cursors /\ new.done /\ new.remaining = {}
  BY DEF Cursors, NeedsLoad
<1>2. st.overlay = {}
  BY DEF Stands
<1> QED
  BY <1>1, <1>2 DEF Continues, Covers, Tidy, Behind

\* What consuming e, the first of all heads, makes of a cursor.
Steps(cur, e, new) ==
  /\ new \in Cursors /\ Tidy(new)
  /\ new.remaining = cur.remaining \ {e}
  /\ ~cur.done => e <= cur.after
  /\ \A f \in Entries : Ahead(new, f) <=> f # e /\ Ahead(cur, f)
  /\ \A s \in Seq(Items), x \in Items :
       Behind(s, cur) /\ x.key = e => Behind(Append(s, x), new)

LEMMA ConsumeFact ==
  ASSUME NEW cur \in Cursors, Tidy(cur), ~NeedsLoad(cur),
         NEW e \in Entries, \A r \in cur.remaining : e <= r,
         NEW new, new = Consume(cur, e)
  PROVE  Steps(cur, e, new)
<1>1. /\ new \in Cursors /\ new.remaining = cur.remaining \ {e}
      /\ new.after = cur.after /\ new.done = cur.done
  BY DEF Consume, Cursors
<1>2. cur.remaining \subseteq Nat /\ cur.after \in Nat /\ cur.done \in BOOLEAN
  BY DEF Cursors
<1>3. ~cur.done => e <= cur.after
  <2> SUFFICES ASSUME ~cur.done PROVE e <= cur.after
    OBVIOUS
  <2>1. PICK r \in cur.remaining : r <= cur.after
    BY DEF NeedsLoad, Tidy
  <2>2. r \in Nat /\ e \in Nat /\ e <= r
    BY <1>2, <2>1
  <2> QED
    BY <1>2, <2>1, <2>2
<1>4. Tidy(new)
  BY <1>1 DEF Tidy
<1>5. \A f \in Entries : Ahead(new, f) <=> f # e /\ Ahead(cur, f)
  <2>1. ~(~cur.done /\ e > cur.after)
    BY <1>2, <1>3
  <2> QED
    BY <1>1, <2>1 DEF Ahead
<1>6. ASSUME NEW s \in Seq(Items), NEW x \in Items, Behind(s, cur), x.key = e
      PROVE  Behind(Append(s, x), new)
  <2>1. KeysOf(Append(s, x)) = KeysOf(s) \cup {e}
    BY <1>6, KeysOfAppend
  <2>2. \A r \in new.remaining : e < r
    BY <1>1, <1>2
  <2> QED
    BY <1>1, <1>3, <1>6, <2>1, <2>2 DEF Behind
<1> QED
  BY <1>1, <1>3, <1>4, <1>5, <1>6 DEF Steps

\* One turn of the merge.
LEMMA Merges ==
  ASSUME NEW ov \in SUBSET Entries, NEW bl \in SUBSET Entries, NEW st \in Starts,
         NEW s \in Seq(Items), NEW o \in Cursors, NEW b \in Cursors,
         Continues(ov, bl, s, o, b), Stands(ov, bl, st, s),
         ~NeedsLoad(o), ~NeedsLoad(b), o.remaining \cup b.remaining # {},
         NEW e, e = Min(o.remaining \cup b.remaining),
         NEW x \in Items, x.key = e,
         e \in o.remaining => x.layer = "overlay",
         e \notin o.remaining => x.layer = "baseline"
  PROVE  /\ Consume(o, e) \in Cursors /\ Consume(b, e) \in Cursors
         /\ Stands(ov, bl, st, Append(s, x))
         /\ Continues(ov, bl, Append(s, x), Consume(o, e), Consume(b, e))
         /\ Covers(st, s, o, b) => Covers(st, Append(s, x), Consume(o, e), Consume(b, e))
         /\ Covers(st, s, o, b) /\ Wins(st, s) => Wins(st, Append(s, x))
<1> DEFINE heads == o.remaining \cup b.remaining
           o2    == Consume(o, e)
           b2    == Consume(b, e)
           s2    == Append(s, x)
<1>1. heads \subseteq Entries
  BY DEF Cursors
<1>2. e \in heads /\ \A h \in heads : e <= h
  <2>1. heads \in SUBSET Nat /\ heads # {} /\ e = Min(heads)
    BY <1>1
  <2> HIDE DEF heads
  <2>2. Min(heads) \in heads /\ \A h \in heads : Min(heads) <= h
    BY <2>1, MinFact, Zenon
  <2> QED
    BY <2>1, <2>2, Zenon
<1>3. x.key = e /\ e \in Entries
  BY <1>1, <1>2
<1>4. Tidy(o) /\ Tidy(b) /\ st.overlay \subseteq Entries /\ st.baseline \subseteq Entries
  BY DEF Continues, Starts
<1>5. Steps(o, e, o2)
  BY <1>2, <1>3, <1>4, ConsumeFact
<1>6. Steps(b, e, b2)
  BY <1>2, <1>3, <1>4, ConsumeFact
<1>7. KeysOf(s2) = KeysOf(s) \cup {e}
  BY <1>3, KeysOfAppend
<1>8. Held(ov, bl, x)
  <2>1. CASE e \in o.remaining
    BY <1>3, <2>1 DEF Held, Continues
  <2>2. CASE e \notin o.remaining
    BY <1>2, <1>3, <2>2 DEF Held, Continues
  <2> QED
    BY <2>1, <2>2
<1>14. ASSUME Covers(st, s, o, b), e \in st.overlay PROVE x.layer = "overlay"
  <2> SUFFICES ASSUME e \notin o.remaining PROVE FALSE
    OBVIOUS
  <2>1. Ahead(o, e)
    BY <1>2, <1>14 DEF Covers, Ahead
  <2>2. ~o.done /\ e > o.after /\ o.after \in Nat /\ e \in Nat
    BY <1>3, <2>1 DEF Ahead, Cursors
  <2> QED
    BY <1>5, <2>2 DEF Steps
<1>9. /\ DOMAIN s = 1 .. Len(s) /\ DOMAIN s2 = 1 .. Len(s) + 1 /\ Len(s) \in Nat
      /\ \A i \in DOMAIN s : s2[i] = s[i]
      /\ s2[Len(s) + 1] = x
  BY <1>3
<1>10. Increasing(s2)
  <2>1. \A k \in KeysOf(s) : k < e
    BY <1>2 DEF Continues, Behind
  <2>2. \A i \in DOMAIN s : s[i].key < e
    BY <2>1 DEF KeysOf
  <2>3. Increasing(s)
    BY DEF Stands
  <2> HIDE DEF s2
  <2>4. s2[Len(s) + 1].key = e /\ \A i \in DOMAIN s : s2[i].key = s[i].key
    BY <1>3, <1>9
  <2>5. ASSUME NEW i \in DOMAIN s2, NEW j \in DOMAIN s2, i < j
        PROVE  s2[i].key < s2[j].key
    <3>1. i \in DOMAIN s /\ (j \in DOMAIN s \/ j = Len(s) + 1)
      BY <1>9, <2>5
    <3>2. CASE j \in DOMAIN s
      BY <2>3, <2>4, <2>5, <3>1, <3>2 DEF Increasing
    <3>3. CASE j = Len(s) + 1
      BY <2>2, <2>4, <3>1, <3>3
    <3> QED
      BY <3>1, <3>2, <3>3
  <2> QED
    BY <2>5 DEF Increasing
<1>11. Stands(ov, bl, st, s2)
  <2> HIDE DEF s2
  <2>1. ASSUME NEW i \in DOMAIN s2 PROVE Held(ov, bl, s2[i])
    <3>1. i \in DOMAIN s \/ i = Len(s) + 1
      BY <1>9
    <3> QED
      BY <1>8, <1>9, <3>1 DEF Stands
  <2> QED
    BY <1>10, <2>1 DEF Stands
<1>12. Behind(s2, o2) /\ Behind(s2, b2)
  BY <1>3, <1>5, <1>6 DEF Steps, Continues
<1>13. /\ Continues(ov, bl, s2, o2, b2)
       /\ Covers(st, s, o, b) => Covers(st, s2, o2, b2)
  <2> HIDE DEF s2, o2, b2
  <2> QED
    BY <1>4, <1>5, <1>6, <1>7, <1>12 DEF Continues, Covers, Steps
<1>15. Covers(st, s, o, b) /\ Wins(st, s) => Wins(st, s2)
  <2> SUFFICES ASSUME Covers(st, s, o, b), Wins(st, s), NEW i \in DOMAIN s2,
                      s2[i].key \in st.overlay
               PROVE  s2[i].layer = "overlay"
    BY DEF Wins
  <2> HIDE DEF s2
  <2>1. i \in DOMAIN s \/ i = Len(s) + 1
    BY <1>9
  <2> QED
    BY <1>3, <1>9, <1>14, <2>1 DEF Wins
<1> QED
  BY <1>3, <1>5, <1>6, <1>11, <1>13, <1>15 DEF Steps

\* Cursors with nothing left have listed it all.
LEMMA NothingLeft ==
  ASSUME NEW st, NEW s, NEW o, NEW b,
         Covers(st, s, o, b), ~NeedsLoad(o), ~NeedsLoad(b),
         o.remaining \cup b.remaining = {}
  PROVE  st.overlay \cup st.baseline \subseteq KeysOf(s)
  BY DEF Covers, Ahead, NeedsLoad

\* A page given up leaves what was shown before it.
LEMMA PageGivenUp ==
  ASSUME NEW ov, NEW bl, NEW st, NEW s \in Seq(Items), NEW p \in Seq(Items),
         Stands(ov, bl, st, s \o p)
  PROVE  Stands(ov, bl, st, s) /\ (Wins(st, s \o p) => Wins(st, s))
<1>1. \A i \in DOMAIN s : i \in DOMAIN (s \o p) /\ (s \o p)[i] = s[i]
  OBVIOUS
<1> QED
  BY <1>1 DEF Stands, Increasing, Wins

-----------------------------------------------------------------------------
(* The type invariant.                                                     *)

CallsOK ==
  /\ pc \in [Clients -> PCs] /\ out \in [Clients -> Seq(Items)]
  /\ oc \in [Clients -> Cursors] /\ bc \in [Clients -> Cursors]
  /\ max \in [Clients -> Nat \ {0}] /\ resumed \in [Clients -> BOOLEAN]

LEMMA NewCursorType == NewCursor \in Cursors
  BY DEF NewCursor, Cursors

\* A call that ends leaves its client's locals as they were before any call.
LEMMA EndsCalls ==
  ASSUME CallsOK, NEW ended \in SUBSET Clients, NEW state \in PCs,
         EndCalls(ended, state)
  PROVE  /\ CallsOK'
         /\ \A c \in ended : pc'[c] = state
         /\ \A c \in Clients \ ended :
              /\ pc'[c] = pc[c] /\ oc'[c] = oc[c] /\ bc'[c] = bc[c]
              /\ out'[c] = out[c] /\ max'[c] = max[c] /\ resumed'[c] = resumed[c]
<1>1. << >> \in Seq(Items) /\ DefaultPage \in Nat \ {0} /\ FALSE \in BOOLEAN
  OBVIOUS
<1>2. pc' \in [Clients -> PCs]
  BY DEF EndCalls, CallsOK
<1>3. oc' \in [Clients -> Cursors] /\ bc' \in [Clients -> Cursors]
  BY NewCursorType DEF EndCalls, CallsOK
<1>4. out' \in [Clients -> Seq(Items)]
  BY <1>1 DEF EndCalls, CallsOK
<1>5. max' \in [Clients -> Nat \ {0}] /\ resumed' \in [Clients -> BOOLEAN]
  BY <1>1 DEF EndCalls, CallsOK
<1>6. CallsOK'
  BY <1>2, <1>3, <1>4, <1>5 DEF CallsOK
<1> QED
  BY <1>6 DEF EndCalls

LEMMA RepliesType ==
  ASSUME TypeOK, NEW c \in Clients, NEW tok \in Nat, NEW state \in PCs,
         Reply(c, tok, state)
  PROVE  /\ CallsOK' /\ token' \in [Clients -> Nat] /\ seen' \in [Clients -> Seq(Items)]
         /\ faults' \in 0 .. MaxFaults
<1>1. CallsOK /\ "ready" \in PCs
  BY DEF TypeOK, CallsOK, PCs
<1>2. seen[c] \o out[c] \in Seq(Items)
  BY DEF TypeOK
<1>3. CASE /\ seen' = [seen EXCEPT ![c] = @ \o out[c]]
           /\ token' = [token EXCEPT ![c] = tok]
           /\ EndCalls({c}, state)
           /\ UNCHANGED faults
  BY <1>1, <1>2, <1>3, EndsCalls DEF TypeOK
<1>4. CASE /\ faults < MaxFaults /\ faults' = faults + 1
           /\ EndCalls({c}, "ready")
           /\ UNCHANGED <<seen, token>>
  <2>1. faults' \in 0 .. MaxFaults
    BY <1>4 DEF TypeOK
  <2> QED
    BY <1>1, <1>4, <2>1, EndsCalls DEF TypeOK
<1> QED
  BY <1>3, <1>4 DEF Reply

LEMMA InitType == Init => TypeOK
<1> SUFFICES ASSUME Init PROVE TypeOK
  OBVIOUS
<1>1. << >> \in Seq(Items) /\ DOMAIN active = {}
  BY DEF Init
<1>2. /\ absent \subseteq {"overlay", "baseline"}
      /\ overlay \subseteq Entries /\ baseline \subseteq Entries \ Hidden
      /\ nextID \in Nat /\ DOMAIN active \subseteq 1 .. nextID
      /\ lapsed \subseteq DOMAIN active
      /\ faults \in 0 .. MaxFaults /\ restarts \in 0 .. MaxRestarts
  BY <1>1 DEF Init
<1>3. pc \in [Clients -> PCs] /\ token \in [Clients -> Nat]
  BY DEF Init, PCs
<1>4. seen \in [Clients -> Seq(Items)] /\ out \in [Clients -> Seq(Items)]
  BY <1>1 DEF Init
<1>5. oc \in [Clients -> Cursors] /\ bc \in [Clients -> Cursors]
  BY NewCursorType DEF Init
<1>6. /\ max \in [Clients -> Nat \ {0}]
      /\ resumed \in [Clients -> BOOLEAN]
  BY DEF Init
<1>7. /\ start \in [Clients -> [overlay : SUBSET Entries, baseline : SUBSET Entries]]
      /\ zeroed \subseteq Clients
  BY DEF Init
<1> QED
  BY <1>1, <1>2, <1>3, <1>4, <1>5, <1>6, <1>7 DEF TypeOK

LEMMA TypeStep == TypeOK /\ [Next]_vars => TypeOK'
<1> SUFFICES ASSUME TypeOK, [Next]_vars PROVE TypeOK'
  OBVIOUS
<1>0. /\ CallsOK /\ "ready" \in PCs /\ "refused" \in PCs /\ "finished" \in PCs
      /\ "failed" \in PCs
  BY DEF TypeOK, CallsOK, PCs
<1>1. ASSUME NEW c \in Clients, NEW n \in PageSizes, StartPage(c, n) PROVE TypeOK'
  <2>1. PageSize(n) \in Nat \ {0}
    BY DEF PageSize
  <2>2. oc' \in [Clients -> Cursors] /\ bc' \in [Clients -> Cursors]
    BY <1>1, NewCursorType DEF StartPage, TypeOK
  <2>3. /\ pc' \in [Clients -> PCs] /\ max' \in [Clients -> Nat \ {0}]
        /\ out' \in [Clients -> Seq(Items)] /\ seen' \in [Clients -> Seq(Items)]
        /\ resumed' \in [Clients -> BOOLEAN]
    BY <1>1, <2>1 DEF StartPage, TypeOK, PCs
  <2>4. /\ start' \in [Clients -> [overlay : SUBSET Entries, baseline : SUBSET Entries]]
        /\ zeroed' \subseteq Clients
    BY <1>1 DEF StartPage, TypeOK
  <2>5. lapsed' \subseteq DOMAIN active
    BY <1>1 DEF StartPage, TypeOK
  <2> QED
    BY <1>1, <2>2, <2>3, <2>4, <2>5 DEF StartPage, TypeOK, backends, budgets
<1>2. ASSUME NEW c \in Clients, LoadOverlay(c) PROVE TypeOK'
  <2>1. oc' \in [Clients -> Cursors]
    <3>1. CASE oc' = [oc EXCEPT ![c].done = TRUE]
      <4> DEFINE o == oc[c]
      <4>0. o \in Cursors
        BY DEF TypeOK
      <4> HIDE DEF o
      <4>1. [o EXCEPT !.done = TRUE] \in Cursors
        BY <4>0 DEF Cursors
      <4> QED
        BY <3>1, <4>1 DEF TypeOK, o
    <3>2. ASSUME NEW page \in Pages(overlay, oc[c].after, Narrow(max[c])),
                 oc' = [oc EXCEPT ![c] = Loaded(@, page, Hidden)]
          PROVE  oc' \in [Clients -> Cursors]
      <4>1. Loaded(oc[c], page, Hidden) \in Cursors
        BY <1>2, LoadedFact DEF TypeOK, LoadOverlay
      <4> QED
        BY <3>2, <4>1 DEF TypeOK
    <3> QED
      BY <1>2, <3>1, <3>2 DEF LoadOverlay
  <2> QED
    BY <1>2, <2>1 DEF LoadOverlay, TypeOK, backends, sessions, clients, history, budgets
<1>3. ASSUME NEW c \in Clients, LoadBaseline(c) PROVE TypeOK'
  <2>1. bc' \in [Clients -> Cursors]
    <3>1. PICK page \in Pages(baseline, bc[c].after, Narrow(max[c])) :
            bc' = [bc EXCEPT ![c] = Loaded(@, page, {})]
      BY <1>3 DEF LoadBaseline
    <3>2. baseline \in SUBSET Entries
      BY DEF TypeOK
    <3>3. Loaded(bc[c], page, {}) \in Cursors
      BY <1>3, <3>2, LoadedFact DEF TypeOK, LoadBaseline
    <3> QED
      BY <3>1, <3>3 DEF TypeOK
  <2> QED
    BY <1>3, <2>1 DEF LoadBaseline, TypeOK, backends, sessions, clients, history, budgets
<1>4. ASSUME NEW c \in Clients, RefuseListing(c) PROVE TypeOK'
  BY <1>0, <1>4, EndsCalls
  DEF RefuseListing, TypeOK, CallsOK, backends, sessions, history, budgets
<1>13. ASSUME NEW c \in Clients, RefuseSize(c) PROVE TypeOK'
  BY <1>0, <1>13, EndsCalls
  DEF RefuseSize, TypeOK, CallsOK, backends, sessions, history, budgets
<1>5. ASSUME NEW c \in Clients, MergeHead(c) PROVE TypeOK'
  <2> DEFINE heads == oc[c].remaining \cup bc[c].remaining
             e     == Min(heads)
             x     == [key |-> e, layer |-> LayerOf(c, e)]
  <2>1. oc[c] \in Cursors /\ bc[c] \in Cursors /\ heads # {}
    BY <1>5 DEF TypeOK, MergeHead
  <2>2. heads \subseteq Entries
    BY <2>1 DEF Cursors
  <2>3. e \in Entries
    BY <2>1, <2>2, MinFact
  <2>4. x \in Items
    BY <2>3 DEF Items, LayerOf
  <2>5. Consume(oc[c], e) \in Cursors /\ BaselineNext(c, e) \in Cursors
    BY <2>1 DEF Consume, BaselineNext, Cursors
  <2>6. /\ out' = [out EXCEPT ![c] = Append(@, x)]
        /\ oc' = [oc EXCEPT ![c] = Consume(@, e)]
        /\ bc' = [bc EXCEPT ![c] = BaselineNext(c, e)]
    BY <1>5 DEF MergeHead
  <2> HIDE DEF x, e
  <2>7. /\ out' \in [Clients -> Seq(Items)]
        /\ oc' \in [Clients -> Cursors] /\ bc' \in [Clients -> Cursors]
    BY <2>4, <2>5, <2>6 DEF TypeOK
  <2> QED
    BY <1>5, <2>7 DEF MergeHead, TypeOK, backends, sessions, clients, history, budgets
<1>6. ASSUME NEW c \in Clients, LastPage(c) PROVE TypeOK'
  BY <1>0, <1>6, RepliesType DEF LastPage, TypeOK, CallsOK, backends, sessions, history
<1>7. ASSUME NEW c \in Clients, FullPage(c) PROVE TypeOK'
  <2>1. /\ nextID' = nextID + 1 /\ nextID \in Nat /\ lapsed' = {}
        /\ DOMAIN active' = (DOMAIN active \ lapsed) \cup {nextID'}
        /\ active'[nextID'] = [overlay |-> oc[c], baseline |-> bc[c]]
        /\ \A t \in DOMAIN active' : t # nextID' => t \in DOMAIN active /\ active'[t] = active[t]
    BY <1>7 DEF FullPage, TypeOK, Snapshot
  <2>2. DOMAIN active' \subseteq 1 .. nextID'
    BY <2>1 DEF TypeOK
  <2>3. \A t \in DOMAIN active' : active'[t] \in [overlay : Cursors, baseline : Cursors]
    BY <2>1 DEF TypeOK
  <2>4. /\ CallsOK' /\ token' \in [Clients -> Nat] /\ seen' \in [Clients -> Seq(Items)]
        /\ faults' \in 0 .. MaxFaults
    BY <1>0, <1>7, <2>1, RepliesType DEF FullPage
  <2>5. UNCHANGED <<backends, start, zeroed, restarts>> /\ nextID' \in Nat
    BY <1>7, <2>1 DEF FullPage
  <2> QED
    BY <2>1, <2>2, <2>3, <2>4, <2>5 DEF TypeOK, CallsOK, backends, history
<1>8. ASSUME NEW c \in Clients, PageFails(c) PROVE TypeOK'
  <2>1. faults' \in 0 .. MaxFaults
    BY <1>8 DEF PageFails, TypeOK
  <2> QED
    BY <1>0, <1>8, <2>1, EndsCalls
    DEF PageFails, TypeOK, CallsOK, backends, sessions, history
<1>9. ASSUME NEW e \in Writable, OverlayPut(e) PROVE TypeOK'
  BY <1>9 DEF OverlayPut, TypeOK, sessions, calls, clients, history, budgets
<1>10. ASSUME NEW t \in DOMAIN active, Lapse(t) PROVE TypeOK'
  <2>1. faults' \in 0 .. MaxFaults
    BY <1>10 DEF Lapse, TypeOK
  <2> QED
    BY <1>10, <2>1 DEF Lapse, TypeOK, backends, calls, clients, history
<1>11. CASE Restart
  <2>1. restarts' \in 0 .. MaxRestarts
    BY <1>11 DEF Restart, TypeOK
  <2>2. DOMAIN active' = {} /\ nextID' = 0 /\ lapsed' = {}
    BY <1>11 DEF Restart
  <2>3. CallsOK'
    BY <1>0, <1>11, EndsCalls DEF Restart
  <2> QED
    BY <1>11, <2>1, <2>2, <2>3 DEF Restart, TypeOK, CallsOK, backends, history
<1>12. CASE UNCHANGED vars
  BY <1>12 DEF TypeOK, vars, backends, sessions, calls, clients, history, budgets
<1> QED
  BY <1>1, <1>2, <1>3, <1>4, <1>5, <1>6, <1>7, <1>8, <1>9, <1>10, <1>11, <1>12, <1>13
  DEF Next, NextPage, Serve

\* Every variable stays in its domain, the session table of listSessions and
\* the cursors of ListPage among them.
THEOREM ListingTypeCorrect == Spec => []TypeOK
  BY InitType, TypeStep, PTL DEF Spec

-----------------------------------------------------------------------------
(* Every step of a running ListPage leaves less to do.                     *)

LEMMA LeftType ==
  ASSUME NEW cur \in Cursors
  PROVE  /\ IsFiniteSet(cur.remaining) /\ Cardinality(cur.remaining) \in Nat
         /\ Left(cur) \in Nat
<1>1. cur.remaining \in SUBSET Entries /\ {e \in Entries : e > cur.after} \in SUBSET Entries
  BY DEF Cursors
<1>2. IsFiniteSet(cur.remaining) /\ IsFiniteSet({e \in Entries : e > cur.after})
  BY <1>1, FS_Subset
<1>3. /\ Cardinality(cur.remaining) \in Nat
      /\ Cardinality({e \in Entries : e > cur.after}) \in Nat
  BY <1>2, FS_CardinalityType
<1> QED
  BY <1>2, <1>3 DEF Left

\* A page takes what it holds off what is to be fetched.
LEMMA LoadLeavesLess ==
  ASSUME NEW S \in SUBSET Entries, NEW hidden, NEW cur \in Cursors, NeedsLoad(cur),
         NEW n, NEW page \in Pages(S, cur.after, n),
         NEW new, new = Loaded(cur, page, hidden)
  PROVE  Left(new) < Left(cur)
<1> DEFINE above == {e \in Entries : e > cur.after}
           rest  == {e \in Entries : e > new.after}
<1>1. /\ page.entries \in SUBSET above /\ page.truncated \in BOOLEAN
      /\ page.truncated => page.entries # {}
  <2>1. CASE n = 0
    <3>1. page = [entries |-> {}, truncated |-> FALSE]
      BY <2>1 DEF Pages
    <3> QED
      BY <2>1, <3>1
  <2>2. CASE n # 0
    BY <2>2 DEF Pages
  <2> QED
    BY <2>1, <2>2
<1>2. IsFiniteSet(above) /\ Cardinality(above) \in Nat
  <2>1. above \in SUBSET Entries
    OBVIOUS
  <2> QED
    BY <2>1, FS_Subset, FS_CardinalityType
<1>3. /\ new.remaining \in SUBSET page.entries
      /\ page.truncated => ~new.done /\ new.after = Max(page.entries)
  BY DEF Loaded
<1>4. /\ IsFiniteSet(page.entries) /\ Cardinality(page.entries) \in Nat
      /\ Cardinality(page.entries) <= Cardinality(above)
  BY <1>1, <1>2, FS_Subset, FS_CardinalityType
<1>5. /\ Cardinality(new.remaining) \in Nat
      /\ Cardinality(new.remaining) <= Cardinality(page.entries)
  BY <1>3, <1>4, FS_Subset, FS_CardinalityType
<1>6. Left(cur) = 1 + 2 * Cardinality(above)
  <2>1. cur.remaining = {} /\ ~cur.done
    BY DEF NeedsLoad
  <2>2. Cardinality(cur.remaining) = 0
    BY <2>1, FS_EmptySet
  <2> QED
    BY <1>2, <2>1, <2>2 DEF Left
<1>7. CASE ~page.truncated
  <2>1. Left(new) = Cardinality(new.remaining)
    <3>1. new.done
      BY <1>7 DEF Loaded
    <3>2. Left(new) = Cardinality(new.remaining) + 0
      BY <3>1, Zenon DEF Left
    <3> QED
      BY <1>5, <3>2
  <2> QED
    BY <1>2, <1>4, <1>5, <1>6, <2>1
<1>8. CASE page.truncated
  <2>1. /\ new.after \in page.entries /\ \A e \in page.entries : e <= new.after
        /\ new.after \in Nat
    <3>1. page.entries \in SUBSET Entries /\ page.entries # {}
      BY <1>1, <1>8
    <3> QED
      BY <1>3, <1>8, <3>1, MaxFact
  <2>2. rest \cup page.entries \in SUBSET above /\ rest \cap page.entries = {}
    <3>1. new.after > cur.after /\ cur.after \in Nat
      BY <1>1, <2>1 DEF Cursors
    <3>2. \A e \in rest : e \in Entries /\ e \in Nat /\ e > new.after
      OBVIOUS
    <3>3. \A e \in rest : e \in above /\ e \notin page.entries
      <4> TAKE e \in rest
      <4>1. e \in Nat /\ e > cur.after /\ ~(e <= new.after)
        BY <2>1, <3>1, <3>2
      <4> QED
        BY <2>1, <3>2, <4>1
    <3> HIDE DEF rest, above
    <3> QED
      BY <1>1, <3>3
  <2>3. IsFiniteSet(rest) /\ Cardinality(rest) \in Nat
    <3>1. rest \in SUBSET Entries
      OBVIOUS
    <3> QED
      BY <3>1, FS_Subset, FS_CardinalityType
  <2>4. Cardinality(rest) + Cardinality(page.entries) <= Cardinality(above)
    <3>1. Cardinality(rest \cap page.entries) = 0
      BY <2>2, FS_EmptySet
    <3>2. Cardinality(rest \cup page.entries)
            = Cardinality(rest) + Cardinality(page.entries) - Cardinality(rest \cap page.entries)
      BY <1>4, <2>3, FS_Union
    <3>3. Cardinality(rest \cup page.entries) <= Cardinality(above)
      BY <1>2, <2>2, FS_Subset
    <3> QED
      BY <1>2, <1>4, <2>3, <3>1, <3>2, <3>3
  <2>5. Cardinality(page.entries) # 0
    BY <1>1, <1>4, <1>8, FS_EmptySet
  <2>6. Left(new) = Cardinality(new.remaining) + (1 + 2 * Cardinality(rest))
    BY <1>3, <1>8 DEF Left
  <2> HIDE DEF rest, above
  <2> QED
    BY <1>2, <1>4, <1>5, <1>6, <2>3, <2>4, <2>5, <2>6
<1> QED
  BY <1>1, <1>7, <1>8

LEMMA ConsumeLeavesLess ==
  ASSUME NEW cur \in Cursors, NEW e, NEW new, new = Consume(cur, e)
  PROVE  Left(new) \in Nat /\ Left(new) <= Left(cur)
         /\ (e \in cur.remaining => Left(new) < Left(cur))
<1>1. new.remaining = cur.remaining \ {e} /\ new.done = cur.done /\ new.after = cur.after
  BY DEF Consume, Cursors
<1>2. IsFiniteSet(cur.remaining) /\ Cardinality(cur.remaining) \in Nat /\ Left(cur) \in Nat
  BY LeftType
<1>3. new \in Cursors
  BY DEF Consume, Cursors
<1>4. Left(new) \in Nat /\ Cardinality(new.remaining) \in Nat
  BY <1>3, LeftType
<1>5. Cardinality(new.remaining) =
        IF e \in cur.remaining THEN Cardinality(cur.remaining) - 1 ELSE Cardinality(cur.remaining)
  <2>1. Cardinality(cur.remaining \ {e}) =
          IF e \in cur.remaining THEN Cardinality(cur.remaining) - 1 ELSE Cardinality(cur.remaining)
    BY <1>2, FS_RemoveElement
  <2> QED
    BY <1>1, <2>1, Zenon
<1> DEFINE rest == IF cur.done THEN 0 ELSE 1 + 2 * Cardinality({x \in Entries : x > cur.after})
<1>6. Left(cur) = Cardinality(cur.remaining) + rest /\ Left(new) = Cardinality(new.remaining) + rest
  BY <1>1 DEF Left
<1>7. rest \in Nat
  <2>1. {x \in Entries : x > cur.after} \in SUBSET Entries
    OBVIOUS
  <2>2. Cardinality({x \in Entries : x > cur.after}) \in Nat
    BY <2>1, FS_Subset, FS_CardinalityType
  <2> QED
    BY <2>2
<1> HIDE DEF rest
<1> QED
  BY <1>2, <1>4, <1>5, <1>6, <1>7

\* A step that moves one cursor on and the other not back leaves less.
LEMMA LessOfTwo ==
  ASSUME NEW a \in Nat, NEW b \in Nat, NEW a2 \in Nat, NEW b2 \in Nat,
         a2 <= a, b2 <= b, a2 < a \/ b2 < b
  PROVE  a2 + b2 < a + b
  OBVIOUS

LEMMA ServeLeavesLess ==
  ASSUME TypeOK, TypeOK', NEW c \in Clients, LoadOverlay(c) \/ LoadBaseline(c) \/ MergeHead(c)
  PROVE  /\ WorkLeft(c)' < WorkLeft(c)
         /\ \A d \in Clients \ {c} : UNCHANGED <<oc[d], bc[d], out[d]>>
<1>1. /\ oc \in [Clients -> Cursors] /\ bc \in [Clients -> Cursors]
      /\ out \in [Clients -> Seq(Items)] /\ oc' \in [Clients -> Cursors] /\ bc' \in [Clients -> Cursors]
      /\ overlay \in SUBSET Entries /\ baseline \in SUBSET Entries
  BY DEF TypeOK
<1>2. /\ Left(oc[c]) \in Nat /\ Left(bc[c]) \in Nat
      /\ Left(oc'[c]) \in Nat /\ Left(bc'[c]) \in Nat
  BY <1>1, LeftType
<1>3. SUFFICES /\ Left(oc'[c]) <= Left(oc[c]) /\ Left(bc'[c]) <= Left(bc[c])
               /\ Left(oc'[c]) < Left(oc[c]) \/ Left(bc'[c]) < Left(bc[c])
               /\ \A d \in Clients \ {c} : UNCHANGED <<oc[d], bc[d], out[d]>>
  <2> DEFINE o == Left(oc[c]) b == Left(bc[c]) o2 == Left(oc'[c]) b2 == Left(bc'[c])
  <2>1. WorkLeft(c) = o + b /\ WorkLeft(c)' = o2 + b2
    BY DEF WorkLeft, Left
  <2> HIDE DEF o, b, o2, b2
  <2> QED
    BY <1>2, <2>1, LessOfTwo DEF o, b, o2, b2
<1>4. CASE LoadOverlay(c)
  <2>1. NeedsLoad(oc[c]) /\ UNCHANGED <<bc, out>>
    BY <1>4 DEF LoadOverlay
  <2>2. CASE oc' = [oc EXCEPT ![c].done = TRUE]
    <3>1. /\ oc'[c].remaining = oc[c].remaining /\ oc'[c].done = TRUE /\ oc[c].done # TRUE
          /\ \A d \in Clients \ {c} : oc'[d] = oc[d]
      BY <1>1, <2>1, <2>2 DEF NeedsLoad, Cursors
    <3>2. {e \in Entries : e > oc[c].after} \in SUBSET Entries
      OBVIOUS
    <3>3. Cardinality({e \in Entries : e > oc[c].after}) \in Nat
      BY <3>2, FS_Subset, FS_CardinalityType
    <3>4. Cardinality(oc[c].remaining) \in Nat
      BY <1>1, LeftType
    <3>5. Left(oc'[c]) < Left(oc[c])
      <4>1. Left(oc'[c]) = Cardinality(oc[c].remaining) + 0
        BY <3>1, Zenon DEF Left
      <4>2. Left(oc[c]) = Cardinality(oc[c].remaining)
                            + (1 + 2 * Cardinality({e \in Entries : e > oc[c].after}))
        <5>1. ~oc[c].done
          BY <2>1 DEF NeedsLoad
        <5> QED
          BY <5>1, Zenon DEF Left
      <4> QED
        BY <3>3, <3>4, <4>1, <4>2
    <3> QED
      BY <1>2, <2>1, <3>1, <3>5
  <2>3. ASSUME NEW page \in Pages(overlay, oc[c].after, Narrow(max[c])),
               oc' = [oc EXCEPT ![c] = Loaded(@, page, Hidden)]
        PROVE  Left(oc'[c]) < Left(oc[c]) /\ \A d \in Clients \ {c} : oc'[d] = oc[d]
    BY <1>1, <2>1, <2>3, LoadLeavesLess
  <2> QED
    BY <1>2, <1>4, <2>1, <2>2, <2>3 DEF LoadOverlay
<1>5. CASE LoadBaseline(c)
  <2>1. NeedsLoad(bc[c]) /\ UNCHANGED <<oc, out>>
    BY <1>5 DEF LoadBaseline
  <2>2. PICK page \in Pages(baseline, bc[c].after, Narrow(max[c])) :
          bc' = [bc EXCEPT ![c] = Loaded(@, page, {})]
    BY <1>5 DEF LoadBaseline
  <2>3. Left(bc'[c]) < Left(bc[c]) /\ \A d \in Clients \ {c} : bc'[d] = bc[d]
    BY <1>1, <2>1, <2>2, LoadLeavesLess
  <2> QED
    BY <1>2, <2>1, <2>3
<1>6. CASE MergeHead(c)
  <2> DEFINE heads == oc[c].remaining \cup bc[c].remaining
             e     == Min(heads)
             it    == [key |-> e, layer |-> LayerOf(c, e)]
  <2>1. heads # {} /\ heads \in SUBSET Nat
    BY <1>1, <1>6 DEF MergeHead, Cursors
  <2>2. e \in heads
    BY <2>1, MinFact
  <2>3. /\ oc' = [oc EXCEPT ![c] = Consume(@, e)] /\ bc' = [bc EXCEPT ![c] = Consume(@, e)]
        /\ out' = [out EXCEPT ![c] = Append(@, it)]
    BY <1>6 DEF MergeHead, BaselineNext
  <2> HIDE DEF e, it
  <2>4. /\ oc'[c] = Consume(oc[c], e) /\ bc'[c] = Consume(bc[c], e)
        /\ \A d \in Clients \ {c} : UNCHANGED <<oc[d], bc[d], out[d]>>
    BY <1>1, <2>3
  <2> QED
    BY <1>1, <2>2, <2>4, ConsumeLeavesLess
<1> QED
  BY <1>4, <1>5, <1>6

\* Every step of a running ListPage leaves less to do, whatever is written under it
\* and wherever the backends cut their pages: the part of "every listing ends" that
\* is no matter of fairness, for any number of entries.
THEOREM PagesProgress == Spec => PagesMakeProgress
<1> DEFINE Step == \A c \in Clients : pc[c] = "paging" /\ pc'[c] = "paging" =>
                     WorkLeft(c)' < WorkLeft(c) \/ UNCHANGED <<oc[c], bc[c], out[c]>>
<1>1. TypeOK /\ TypeOK' /\ [Next]_vars => [Step]_vars
  <2> SUFFICES ASSUME TypeOK, TypeOK', Next PROVE Step
    OBVIOUS
  <2>1. ASSUME NEW c \in Clients, LoadOverlay(c) \/ LoadBaseline(c) \/ MergeHead(c)
        PROVE  Step
    BY <2>1, ServeLeavesLess
  <2>2. ASSUME UNCHANGED <<oc, bc, out>> PROVE Step
    BY <2>2
  <2>3. ASSUME NEW ended \in SUBSET Clients, NEW s \in PCs, s # "paging", EndCalls(ended, s)
        PROVE  Step
    BY <2>3 DEF EndCalls
  <2>4. ASSUME NEW c \in Clients, NEW n \in PageSizes, StartPage(c, n) PROVE Step
    <3>1. pc[c] # "paging" /\ \A d \in Clients \ {c} : UNCHANGED <<oc[d], bc[d], out[d]>>
      BY <2>4 DEF StartPage, TypeOK
    <3> QED
      BY <3>1
  <2>5. ASSUME NEW c \in Clients,
               RefuseListing(c) \/ RefuseSize(c) \/ LastPage(c) \/ FullPage(c) \/ PageFails(c)
        PROVE  Step
    <3>1. \E s \in {"ready", "finished", "refused", "failed"} : EndCalls({c}, s)
      BY <2>5 DEF RefuseListing, RefuseSize, LastPage, FullPage, PageFails, Reply
    <3> QED
      BY <2>3, <3>1 DEF PCs
  <2>6. CASE Restart
    BY <2>3, <2>6 DEF Restart, PCs
  <2>7. ASSUME NEW e \in Writable, OverlayPut(e) PROVE Step
    BY <2>2, <2>7 DEF OverlayPut, calls
  <2>8. ASSUME NEW t \in DOMAIN active, Lapse(t) PROVE Step
    BY <2>2, <2>8 DEF Lapse, calls
  <2> QED
    BY <2>1, <2>4, <2>5, <2>6, <2>7, <2>8 DEF Next, NextPage, Serve
<1> QED
  BY <1>1, ListingTypeCorrect, PTL DEF Spec, PagesMakeProgress

-----------------------------------------------------------------------------
(* A token is only handed out where something is left.                     *)

LeftAt(c) ==
  pc[c] = "paging" /\ resumed[c] /\ out[c] = << >> =>
    oc[c].remaining \cup bc[c].remaining # {}

LEMMA LeftStep == TypeOK /\ LeftInv /\ [Next]_vars => LeftInv'
<1> SUFFICES ASSUME TypeOK, LeftInv, [Next]_vars PROVE LeftInv'
  OBVIOUS
<1>0. CallsOK /\ \A c \in Clients : LeftAt(c)
  BY DEF TypeOK, CallsOK, LeftInv, LeftAt
<1>a. ASSUME NEW c \in Clients, CallsOK', UNCHANGED active,
             \A d \in Clients \ {c} :
               /\ pc'[d] = pc[d] /\ oc'[d] = oc[d] /\ bc'[d] = bc[d]
               /\ out'[d] = out[d] /\ resumed'[d] = resumed[d],
             LeftAt(c)'
      PROVE  LeftInv'
  BY <1>0, <1>a DEF LeftInv, LeftAt
<1>b. ASSUME UNCHANGED active, UNCHANGED calls, UNCHANGED pc PROVE LeftInv'
  BY <1>b DEF LeftInv, calls
<1>c. ASSUME NEW c \in Clients, NEW tok, NEW state \in {"ready", "finished"},
             Reply(c, tok, state)
      PROVE  \A d \in Clients : LeftAt(d)'
  <2>1. PICK end \in {"ready", "finished"} : EndCalls({c}, end)
    BY <1>c DEF Reply
  <2>2. \A d \in Clients : d = c \/ UNCHANGED <<pc[d], oc[d], bc[d], out[d], resumed[d]>>
    BY <1>0, <2>1, EndsCalls DEF PCs
  <2>3. pc'[c] # "paging"
    BY <1>0, <2>1, EndsCalls DEF PCs
  <2> QED
    BY <1>0, <2>2, <2>3 DEF LeftAt
<1>1. ASSUME NEW c \in Clients, NEW n \in PageSizes, StartPage(c, n) PROVE LeftInv'
  <2>1. CASE token[c] \in DOMAIN active
    BY <1>1, <2>1 DEF StartPage, LeftInv, TypeOK
  <2>2. CASE token[c] \notin DOMAIN active
    BY <1>1, <2>2 DEF StartPage, LeftInv, TypeOK
  <2> QED
    BY <2>1, <2>2
<1>2. ASSUME NEW c \in Clients, LoadOverlay(c) PROVE LeftInv'
  <2>1. /\ oc[c].remaining = {} /\ pc[c] = "paging" /\ bc' = bc
        /\ \A d \in Clients : d = c \/ oc'[d] = oc[d]
        /\ UNCHANGED <<pc, out, resumed, active>>
    BY <1>2 DEF LoadOverlay, NeedsLoad, sessions, clients, TypeOK
  <2> QED
    BY <2>1 DEF LeftInv
<1>3. ASSUME NEW c \in Clients, LoadBaseline(c) PROVE LeftInv'
  <2>1. /\ bc[c].remaining = {} /\ pc[c] = "paging" /\ oc' = oc
        /\ \A d \in Clients : d = c \/ bc'[d] = bc[d]
        /\ UNCHANGED <<pc, out, resumed, active>>
    BY <1>3 DEF LoadBaseline, BaselinePeeked, NeedsLoad, sessions, clients, TypeOK
  <2> QED
    BY <2>1 DEF LeftInv
<1>4. ASSUME NEW c \in Clients, UNCHANGED active,
             EndCalls({c}, "ready") \/ EndCalls({c}, "refused") \/ EndCalls({c}, "failed")
      PROVE  LeftInv'
  <2>1. PICK end \in {"ready", "refused", "failed"} : EndCalls({c}, end)
    BY <1>4
  <2>2. /\ CallsOK' /\ pc'[c] # "paging"
        /\ \A d \in Clients \ {c} :
             /\ pc'[d] = pc[d] /\ oc'[d] = oc[d] /\ bc'[d] = bc[d]
             /\ out'[d] = out[d] /\ resumed'[d] = resumed[d]
    BY <1>0, <2>1, EndsCalls DEF PCs
  <2> QED
    BY <1>a, <1>4, <2>2 DEF LeftAt
<1>5. ASSUME NEW c \in Clients, MergeHead(c) PROVE LeftInv'
  <2>1. /\ \A d \in Clients \ {c} : UNCHANGED <<oc[d], bc[d], out[d]>>
        /\ UNCHANGED <<pc, resumed, active>>
    BY <1>5 DEF MergeHead, sessions, clients, TypeOK
  <2> DEFINE e == Min(oc[c].remaining \cup bc[c].remaining)
             x == [key |-> e, layer |-> LayerOf(c, e)]
  <2>2. out'[c] = Append(out[c], x)
    BY <1>5 DEF MergeHead, TypeOK
  <2> HIDE DEF e, x
  <2>3. Append(out[c], x) # << >>
    <3>1. out[c] \in Seq(Items)
      BY DEF TypeOK
    <3>2. \A s \in Seq(Items) : \A y : Append(s, y) # << >>
      OBVIOUS
    <3> QED
      BY <3>1, <3>2
  <2> QED
    BY <2>1, <2>2, <2>3 DEF LeftInv
<1>6. ASSUME NEW c \in Clients, LastPage(c) PROVE LeftInv'
  <2>1. \A d \in Clients : LeftAt(d)'
    BY <1>6, <1>c DEF LastPage
  <2> QED
    BY <1>6, <2>1 DEF LeftInv, LeftAt, LastPage, sessions
<1>7. ASSUME NEW c \in Clients, FullPage(c) PROVE LeftInv'
  <2>1. \A d \in Clients : LeftAt(d)'
    BY <1>7, <1>c DEF FullPage
  <2>2. /\ active'[nextID'] = [overlay |-> oc[c], baseline |-> bc[c]]
        /\ \A t \in DOMAIN active' : t # nextID' => t \in DOMAIN active /\ active'[t] = active[t]
    BY <1>7 DEF FullPage, Snapshot
  <2>3. oc[c].remaining \cup bc[c].remaining # {}
    BY <1>7 DEF FullPage, More
  <2> QED
    BY <2>1, <2>2, <2>3 DEF LeftInv, LeftAt
<1>11. CASE Restart
  <2>1. EndCalls({c \in Clients : pc[c] = "paging"}, "ready") /\ DOMAIN active' = {}
    BY <1>11 DEF Restart
  <2>2. \A c \in Clients : pc'[c] # "paging"
    BY <1>0, <2>1, EndsCalls DEF PCs
  <2> QED
    BY <2>1, <2>2 DEF LeftInv
<1> QED
  BY <1>b, <1>1, <1>2, <1>3, <1>4, <1>5, <1>6, <1>7, <1>11
  DEF Next, NextPage, Serve, RefuseListing, RefuseSize, PageFails, OverlayPut, Lapse, sessions,
      clients, vars

\* The final peeks of ListPage: the page a token resumes is never empty, for any
\* layers, page sizes and faults.
THEOREM ContinuationsNotEmpty == Spec => []NoEmptyContinuation
<1>1. Init => LeftInv
  BY DEF Init, LeftInv
<1>2. LeftInv /\ TypeOK => NoEmptyContinuation
  BY DEF LeftInv, NoEmptyContinuation
<1> QED
  BY <1>1, <1>2, InitType, TypeStep, LeftStep, PTL DEF Spec

-----------------------------------------------------------------------------
(* Order, completeness and shadowing, until the gateway is replaced.       *)

\* Of what ClientInv says of d, only its running page changes, and the overlay
\* may grow.
Kept(d) ==
  /\ overlay \subseteq overlay' /\ baseline' = baseline
  /\ start'[d] = start[d]
  /\ seen'[d] = seen[d] /\ token'[d] = token[d]
  /\ token[d] \in DOMAIN active' =>
       token[d] \in DOMAIN active /\ active'[token[d]] = active[token[d]]
  /\ nextID' \in {nextID, nextID + 1}
  /\ zeroed \subseteq zeroed'

LEMMA KeptFact ==
  ASSUME TypeOK, NEW d \in Clients, ClientInv(d), Kept(d)
  PROVE  /\ token'[d] \in DOMAIN active' =>
              Continues(overlay', baseline', seen'[d],
                        active'[token'[d]].overlay, active'[token'[d]].baseline)
         /\ d \notin zeroed' /\ token'[d] \in DOMAIN active' =>
              Covers(start'[d], seen'[d],
                     active'[token'[d]].overlay, active'[token'[d]].baseline)
         /\ token'[d] <= nextID'
<1>1. token[d] \in Nat /\ nextID \in Nat
  BY DEF TypeOK
<1>2. token'[d] <= nextID'
  BY <1>1 DEF Kept, ClientInv
<1>3. d \notin zeroed' /\ token'[d] \in DOMAIN active' =>
        Covers(start'[d], seen'[d], active'[token'[d]].overlay, active'[token'[d]].baseline)
  BY DEF Kept, ClientInv, WholeInv
<1> QED
  BY <1>2, <1>3, OverlayGrows DEF Kept, ClientInv

\* Other clients than the one a step serves.
LEMMA Untouched ==
  ASSUME TypeOK, NEW d \in Clients, ClientInv(d), Kept(d), pc'[d] = pc[d],
         pc[d] = "paging" =>
           out'[d] = out[d] /\ oc'[d] = oc[d] /\ bc'[d] = bc[d] /\ max'[d] = max[d]
  PROVE  ClientInv(d)'
<1>1. Listed(d)' = Listed(d)
  BY DEF Listed, Kept
<1>2. Stands(overlay', baseline', start'[d], Listed(d)')
  BY <1>1, OverlayGrows DEF ClientInv, Kept
<1>3. pc'[d] = "paging" => Continues(overlay', baseline', Listed(d)', oc'[d], bc'[d])
  <2> SUFFICES ASSUME pc'[d] = "paging"
               PROVE  Continues(overlay', baseline', Listed(d)', oc'[d], bc'[d])
    OBVIOUS
  <2>1. Continues(overlay, baseline, Listed(d), oc[d], bc[d])
    BY DEF ClientInv
  <2>2. overlay \subseteq overlay' /\ baseline' = baseline
    BY DEF Kept
  <2>3. Continues(overlay', baseline, Listed(d), oc[d], bc[d])
    BY <2>1, <2>2, OverlayGrows
  <2> QED
    BY <1>1, <2>2, <2>3
<1>4. /\ pc'[d] = "new" => token'[d] = 0
      /\ pc'[d] \in {"new", "ready", "paging"} /\ token'[d] = 0 => seen'[d] = << >>
  BY DEF ClientInv, Kept
<1>5. ASSUME d \notin zeroed' PROVE WholeInv(d)'
  <2>1. WholeInv(d)
    BY <1>5 DEF ClientInv, Kept
  <2>2. pc'[d] = "paging" =>
          Narrow(max'[d]) # 0 /\ Covers(start'[d], Listed(d)', oc'[d], bc'[d])
    BY <1>1, <2>1 DEF WholeInv, Kept
  <2>3. Wins(start'[d], Listed(d)')
    BY <1>1, <2>1 DEF WholeInv, Kept
  <2>4. pc'[d] = "finished" =>
          start'[d].overlay \cup start'[d].baseline \subseteq KeysOf(seen'[d])
    BY <2>1 DEF WholeInv, Kept
  <2> QED
    BY <1>5, <2>2, <2>3, <2>4, KeptFact DEF WholeInv
<1> QED
  BY <1>2, <1>3, <1>4, <1>5, KeptFact DEF ClientInv

\* A client whose call ends without a page.
LEMMA NoPage ==
  ASSUME TypeOK, NEW d \in Clients, ClientInv(d), Kept(d), pc[d] = "paging",
         pc'[d] \in {"ready", "refused", "failed"}
  PROVE  ClientInv(d)'
<1>1. Listed(d)' = seen[d] \o << >> /\ Listed(d) = seen[d] \o out[d]
  BY DEF Listed, Kept
<1>2. seen[d] \in Seq(Items) /\ out[d] \in Seq(Items)
  BY DEF TypeOK
<1>3. Listed(d)' = seen[d]
  BY <1>1, <1>2, ConcatEmptySeq
<1>4. /\ Stands(overlay, baseline, start[d], seen[d])
      /\ Wins(start[d], Listed(d)) => Wins(start[d], seen[d])
  BY <1>1, <1>2, PageGivenUp DEF ClientInv
<1>5. Stands(overlay', baseline', start'[d], Listed(d)')
  BY <1>3, <1>4, OverlayGrows DEF Kept
<1>6. /\ pc'[d] \notin {"new", "paging", "finished"}
      /\ token'[d] = 0 => seen'[d] = << >>
  BY DEF ClientInv, Kept
<1>7. ASSUME d \notin zeroed' PROVE WholeInv(d)'
  <2>1. WholeInv(d)
    BY <1>7 DEF ClientInv, Kept
  <2>2. Wins(start'[d], Listed(d)')
    BY <1>3, <1>4, <2>1 DEF WholeInv, Kept
  <2> QED
    BY <1>6, <1>7, <2>2, KeptFact DEF WholeInv
<1> QED
  BY <1>5, <1>6, <1>7, KeptFact DEF ClientInv

\* The client whose page a step goes on with.
LEMMA PageGoesOn ==
  ASSUME TypeOK, NEW d \in Clients, ClientInv(d), Kept(d),
         pc[d] = "paging", pc'[d] = "paging", max'[d] = max[d],
         Stands(overlay', baseline', start'[d], Listed(d)'),
         Continues(overlay', baseline', Listed(d)', oc'[d], bc'[d]),
         WholeInv(d) => /\ Wins(start'[d], Listed(d)')
                        /\ Covers(start'[d], Listed(d)', oc'[d], bc'[d])
  PROVE  ClientInv(d)'
<1>1. ASSUME d \notin zeroed' PROVE WholeInv(d)'
  <2>1. WholeInv(d)
    BY <1>1 DEF ClientInv, Kept
  <2>2. Narrow(max'[d]) # 0
    BY <2>1 DEF WholeInv
  <2> QED
    BY <1>1, <2>1, <2>2, KeptFact DEF WholeInv
<1> QED
  BY <1>1, KeptFact DEF ClientInv, Kept

LEMMA ListedType ==
  ASSUME TypeOK, NEW c \in Clients
  PROVE  /\ Listed(c) \in Seq(Items)
         /\ pc[c] = "paging" => Listed(c) = seen[c] \o out[c]
         /\ pc[c] # "paging" => Listed(c) = seen[c]
<1>1. seen[c] \in Seq(Items) /\ out[c] \in Seq(Items)
  BY DEF TypeOK
<1>2. CASE pc[c] = "paging"
  BY <1>1, <1>2, ConcatProperties DEF Listed
<1>3. CASE pc[c] # "paging"
  BY <1>1, <1>3, ConcatEmptySeq DEF Listed
<1> QED
  BY <1>2, <1>3

LEMMA InitList == Init => ListInv
<1> SUFFICES ASSUME Init PROVE ListInv
  OBVIOUS
<1>1. TokensDiffer
  BY DEF Init, TokensDiffer
<1>2. ASSUME NEW c \in Clients PROVE ClientInv(c)
  <2>1. TypeOK
    BY InitType
  <2>2. Listed(c) = << >>
    BY <2>1, ListedType DEF Init
  <2>3. Stands(overlay, baseline, start[c], << >>) /\ Wins(start[c], << >>)
    BY DEF Init, Stands, Increasing, Wins
  <2>4. /\ pc[c] = "new" /\ token[c] = 0 /\ seen[c] = << >> /\ nextID = 0
        /\ DOMAIN active = {}
    BY DEF Init
  <2> QED
    BY <2>2, <2>3, <2>4 DEF ClientInv, WholeInv
<1> QED
  BY <1>1, <1>2 DEF Init, ListInv

\* lookup: a known token goes on where its session stands, an unknown one at the
\* beginning.
LEMMA StartsPage ==
  ASSUME TypeOK, TypeOK', NEW c \in Clients, ClientInv(c), NEW n, StartPage(c, n)
  PROVE  ClientInv(c)'
<1> DEFINE known == token[c] \in DOMAIN active
<1>1. /\ pc[c] \in {"new", "ready"} /\ pc'[c] = "paging" /\ out'[c] = << >>
      /\ UNCHANGED <<overlay, baseline, active, nextID, token>>
      /\ known => oc'[c] = active[token[c]].overlay /\ bc'[c] = active[token[c]].baseline
      /\ ~known => oc'[c] = NewCursor /\ bc'[c] = NewCursor
      /\ known => seen'[c] = seen[c]
      /\ ~known => seen'[c] = << >>
      /\ pc[c] # "new" => start'[c] = start[c]
      /\ pc[c] = "new" => start'[c] = [overlay |-> overlay \ Hidden, baseline |-> baseline]
      /\ c \notin zeroed' => c \notin zeroed /\ Narrow(max'[c]) # 0
  BY DEF StartPage, backends, TypeOK
<1>2. /\ seen[c] \in Seq(Items) /\ seen'[c] \in Seq(Items)
      /\ start'[c] \in Starts /\ token[c] \in Nat
  BY DEF TypeOK, Starts
<1>3. Listed(c) = seen[c] /\ Listed(c)' = seen'[c]
  <2>1. Listed(c)' = seen'[c] \o << >>
    BY <1>1 DEF Listed
  <2> QED
    BY <1>1, <1>2, <2>1, ListedType, ConcatEmptySeq
<1>4. pc[c] = "new" => token[c] = 0 /\ seen[c] = << >> /\ ~known
  BY DEF ClientInv, TypeOK
<1>5. Stands(overlay, baseline, start'[c], seen'[c])
  <2>1. CASE ~known
    <3>1. start'[c].overlay \subseteq overlay \ Hidden /\ start'[c].baseline \subseteq baseline
      BY <1>1 DEF ClientInv, Stands
    <3> QED
      BY <1>1, <2>1, <3>1 DEF Stands, Increasing
  <2>2. CASE known
    BY <1>1, <1>3, <1>4, <2>2 DEF ClientInv
  <2> QED
    BY <2>1, <2>2
<1>6. Continues(overlay, baseline, seen'[c], oc'[c], bc'[c])
  <2>1. CASE known
    BY <1>1, <1>4, <2>1 DEF ClientInv
  <2>2. CASE ~known
    BY <1>1, <1>2, <2>2, BeginsAnew
  <2> QED
    BY <2>1, <2>2
<1>7. known => Continues(overlay, baseline, seen'[c],
                         active[token[c]].overlay, active[token[c]].baseline)
  BY <1>1, <1>6
<1>8. token[c] <= nextID /\ (token[c] = 0 => seen'[c] = << >>)
  BY <1>1 DEF ClientInv
<1>9. ASSUME c \notin zeroed' PROVE WholeInv(c)'
  <2>0. WholeInv(c)
    BY <1>1, <1>9 DEF ClientInv
  <2>1. Wins(start'[c], seen'[c]) /\ Covers(start'[c], seen'[c], oc'[c], bc'[c])
    <3>1. CASE known
      BY <1>1, <1>3, <1>4, <2>0, <3>1 DEF WholeInv
    <3>2. CASE ~known
      BY <1>1, <1>2, <3>2, BeginsAnew DEF Wins
    <3> QED
      BY <3>1, <3>2
  <2>2. known => Covers(start'[c], seen'[c], active[token[c]].overlay, active[token[c]].baseline)
    BY <1>1, <2>1
  <2> QED
    BY <1>1, <1>3, <1>9, <2>1, <2>2 DEF WholeInv
<1> QED
  BY <1>1, <1>3, <1>5, <1>6, <1>7, <1>8, <1>9 DEF ClientInv

LEMMA ConcatAppend ==
  ASSUME NEW S, NEW s \in Seq(S), NEW t \in Seq(S), NEW x \in S
  PROVE  s \o Append(t, x) = Append(s \o t, x)
<1>1. <<x>> \in Seq(S) /\ s \o t \in Seq(S)
  OBVIOUS
<1>2. Append(t, x) = t \o <<x>> /\ Append(s \o t, x) = (s \o t) \o <<x>>
  BY <1>1, AppendIsConcat
<1> DEFINE u == <<x>>
<1>3. u \in Seq(S)
  BY <1>1
<1> HIDE DEF u
<1>4. s \o (t \o u) = (s \o t) \o u
  BY <1>3, ConcatAssociative
<1> QED
  BY <1>2, <1>4 DEF u

\* A turn of the merge shows what Merges says.
LEMMA MergesHead ==
  ASSUME TypeOK, NEW c \in Clients, ClientInv(c), MergeHead(c)
  PROVE  ClientInv(c)'
<1> DEFINE o == oc[c]
           b == bc[c]
           e == Min(o.remaining \cup b.remaining)
           x == [key |-> e, layer |-> LayerOf(c, e)]
<1>1. /\ pc[c] = "paging" /\ ~NeedsLoad(o) /\ ~NeedsLoad(b)
      /\ o.remaining \cup b.remaining # {}
      /\ out'[c] = Append(out[c], x) /\ oc'[c] = Consume(o, e) /\ bc'[c] = Consume(b, e)
      /\ UNCHANGED <<overlay, baseline, start, seen, token, active, nextID, pc, max, zeroed>>
  BY DEF MergeHead, BaselinePeeked, BaselineNext, TypeOK, backends, sessions, clients, history
<1>2. /\ overlay \in SUBSET Entries /\ baseline \in SUBSET Entries /\ start[c] \in Starts
      /\ o \in Cursors /\ b \in Cursors
      /\ seen[c] \in Seq(Items) /\ out[c] \in Seq(Items)
  BY DEF TypeOK, Starts
<1>3. Listed(c) \in Seq(Items) /\ Listed(c) = seen[c] \o out[c]
  BY <1>1, ListedType
<1>4. /\ Continues(overlay, baseline, Listed(c), o, b)
      /\ Stands(overlay, baseline, start[c], Listed(c))
      /\ WholeInv(c) => Covers(start[c], Listed(c), o, b) /\ Wins(start[c], Listed(c))
  BY <1>1 DEF ClientInv, WholeInv
<1>5. e \in Entries
  <2> DEFINE heads == o.remaining \cup b.remaining
  <2>1. heads \in SUBSET Entries
    BY <1>2 DEF Cursors
  <2>2. heads \in SUBSET Nat /\ heads # {} /\ e = Min(heads)
    BY <1>1, <2>1
  <2> HIDE DEF heads, e
  <2> QED
    BY <2>1, <2>2, MinFact
<1>6. /\ x \in Items /\ x.key = e
      /\ e \in o.remaining => x.layer = "overlay"
      /\ e \notin o.remaining => x.layer = "baseline"
  BY <1>5 DEF LayerOf, Items
<1> DEFINE s2 == Append(Listed(c), x)
<1>7. /\ Stands(overlay, baseline, start[c], s2)
      /\ Continues(overlay, baseline, s2, Consume(o, e), Consume(b, e))
      /\ WholeInv(c) => /\ Covers(start[c], s2, Consume(o, e), Consume(b, e))
                        /\ Wins(start[c], s2)
  <2>1. e = Min(o.remaining \cup b.remaining)
    OBVIOUS
  <2> HIDE DEF o, b, e, x
  <2> QED
    BY <1>1, <1>2, <1>3, <1>4, <1>6, <2>1, Merges
<1> HIDE DEF o, b, e, x
<1>8. Listed(c)' = s2
  <2>1. Listed(c)' = seen[c] \o Append(out[c], x)
    BY <1>1 DEF Listed
  <2>2. seen[c] \o Append(out[c], x) = Append(seen[c] \o out[c], x)
    <3>1. \A s, t \in Seq(Items) : s \o Append(t, x) = Append(s \o t, x)
      BY <1>6, ConcatAppend
    <3> QED
      BY <1>2, <3>1
  <2> QED
    BY <1>3, <2>1, <2>2
<1>9. Kept(c)
  BY <1>1 DEF Kept
<1> QED
  BY <1>1, <1>7, <1>8, <1>9, PageGoesOn

\* A page that reaches its client is one it has listed, and its token stands for
\* the cursors behind it.
LEMMA Delivered ==
  ASSUME TypeOK, NEW c \in Clients, ClientInv(c), pc[c] = "paging",
         NEW tok \in Nat, tok <= nextID', nextID' \in {nextID, nextID + 1},
         NEW state \in {"ready", "finished"},
         UNCHANGED <<overlay, baseline, start, zeroed>>,
         seen' = [seen EXCEPT ![c] = @ \o out[c]], token' = [token EXCEPT ![c] = tok],
         EndCalls({c}, state),
         tok \in DOMAIN active' =>
           active'[tok].overlay = oc[c] /\ active'[tok].baseline = bc[c],
         state = "ready" => tok # 0,
         state = "finished" /\ WholeInv(c) =>
           start[c].overlay \cup start[c].baseline \subseteq KeysOf(Listed(c))
  PROVE  ClientInv(c)'
<1>1. /\ seen'[c] = Listed(c) /\ token'[c] = tok /\ pc'[c] = state
      /\ Listed(c) \in Seq(Items)
  BY ListedType DEF TypeOK, EndCalls
<1>2. Listed(c)' = Listed(c)
  <2>1. Listed(c)' = seen'[c] \o << >>
    BY <1>1 DEF Listed
  <2> QED
    BY <1>1, <2>1, ConcatEmptySeq
<1>3. ASSUME c \notin zeroed' PROVE WholeInv(c)'
  <2>1. WholeInv(c)
    BY <1>3 DEF ClientInv
  <2> QED
    BY <1>1, <1>2, <2>1 DEF WholeInv
<1> QED
  BY <1>1, <1>2, <1>3 DEF ClientInv

LEMMA ListStep == TypeOK /\ TypeOK' /\ IInv /\ [Next]_vars => IInv'
<1> SUFFICES ASSUME TypeOK, TypeOK', restarts' = 0, IInv, [Next]_vars PROVE ListInv'
  BY DEF IInv
<1>0. restarts = 0 /\ ListInv /\ CallsOK
  <2>1. restarts' = restarts \/ Restart
    BY DEF Next, NextPage, Serve, StartPage, LoadOverlay, LoadBaseline, RefuseListing,
           RefuseSize, MergeHead, LastPage, FullPage, PageFails, OverlayPut, Lapse, budgets, vars
  <2>2. restarts = 0
    BY <2>1 DEF Restart, TypeOK
  <2> QED
    BY <2>2 DEF IInv, TypeOK, CallsOK
<1> USE <1>0
<1>a. ASSUME NEW c \in Clients, ClientInv(c)',
             UNCHANGED <<overlay, baseline, absent, active, nextID, token>>,
             zeroed \subseteq zeroed',
             \A d \in Clients \ {c} : UNCHANGED <<start[d], seen[d], pc[d]>>,
             \A d \in Clients \ {c} : UNCHANGED <<out[d], oc[d], bc[d], max[d]>>
      PROVE  ListInv'
  <2>1. ASSUME NEW d \in Clients PROVE ClientInv(d)'
    <3>1. CASE d # c
      <4>1. Kept(d) /\ ClientInv(d)
        BY <1>a, <3>1 DEF Kept, ListInv
      <4> QED
        BY <1>a, <3>1, <4>1, Untouched
    <3> QED
      BY <1>a, <3>1
  <2>2. TokensDiffer'
    BY <1>a DEF ListInv, TokensDiffer
  <2> QED
    BY <1>a, <2>1, <2>2 DEF ListInv
<1>b. ASSUME NEW c \in Clients, pc[c] = "paging", NEW state \in {"ready", "refused", "failed"},
             EndCalls({c}, state),
             UNCHANGED <<overlay, baseline, absent, active, nextID, token, start, seen, zeroed>>
      PROVE  ListInv'
  <2>1. pc'[c] = state
    BY <1>b, EndsCalls DEF PCs
  <2>2. Kept(c) /\ ClientInv(c)
    BY <1>b DEF Kept, ListInv
  <2>3. ClientInv(c)'
    BY <1>b, <2>1, <2>2, NoPage
  <2>4. \A d \in Clients \ {c} : UNCHANGED <<pc[d], out[d], oc[d], bc[d], max[d]>>
    BY <1>b, EndsCalls DEF PCs
  <2> QED
    BY <1>a, <1>b, <2>3, <2>4
<1>c. ASSUME UNCHANGED <<baseline, absent, nextID, token, start, seen, zeroed>>,
             UNCHANGED <<pc, out, oc, bc, max, active>>, overlay \subseteq overlay',
             "overlay" \in absent => overlay' = {}
      PROVE  ListInv'
  <2>1. ASSUME NEW d \in Clients PROVE ClientInv(d)'
    <3>1. Kept(d) /\ ClientInv(d)
      BY <1>c DEF Kept, ListInv
    <3> QED
      BY <1>c, <3>1, Untouched
  <2> QED
    BY <1>c, <2>1 DEF ListInv, TokensDiffer
<1>1. ASSUME NEW c \in Clients, NEW n \in PageSizes, StartPage(c, n) PROVE ListInv'
  <2>1. ClientInv(c)'
    BY <1>1, StartsPage DEF ListInv
  <2>2. /\ UNCHANGED <<overlay, baseline, absent, active, nextID, token>>
        /\ zeroed \subseteq zeroed'
        /\ \A d \in Clients \ {c} :
             UNCHANGED <<start[d], seen[d], pc[d], out[d], oc[d], bc[d], max[d]>>
    BY <1>1 DEF StartPage, backends, TypeOK
  <2> QED
    BY <1>a, <2>1, <2>2
<1>2. ASSUME NEW c \in Clients, LoadOverlay(c) PROVE ListInv'
  <2>1. /\ pc[c] = "paging" /\ NeedsLoad(oc[c])
        /\ UNCHANGED <<overlay, baseline, absent, active, nextID, token, seen, start, zeroed, pc>>
        /\ UNCHANGED <<out, max, bc>> /\ \A d \in Clients \ {c} : oc'[d] = oc[d]
    BY <1>2 DEF LoadOverlay, backends, sessions, clients, history, TypeOK
  <2>2. /\ overlay \in SUBSET Entries /\ start[c] \in Starts
        /\ oc[c] \in Cursors /\ bc[c] \in Cursors /\ Listed(c) \in Seq(Items)
    BY ListedType DEF TypeOK, Starts
  <2>3. /\ ClientInv(c)
        /\ Continues(overlay, baseline, Listed(c), oc[c], bc[c])
        /\ Stands(overlay, baseline, start[c], Listed(c))
        /\ WholeInv(c) => /\ Wins(start[c], Listed(c)) /\ Narrow(max[c]) # 0
                          /\ Covers(start[c], Listed(c), oc[c], bc[c])
    BY <2>1 DEF ListInv, ClientInv, WholeInv
  <2>4. /\ Continues(overlay, baseline, Listed(c), oc'[c], bc[c])
        /\ WholeInv(c) => Covers(start[c], Listed(c), oc'[c], bc[c])
    <3>1. CASE "overlay" \in absent
      <4>1. overlay = {} /\ oc'[c] = [oc[c] EXCEPT !.done = TRUE]
        BY <1>2, <3>1 DEF LoadOverlay, ListInv, TypeOK
      <4> QED
        BY <2>1, <2>2, <2>3, <4>1, StreamsAsEmpty
    <3>2. CASE "overlay" \notin absent
      <4>1. PICK page \in Pages(overlay, oc[c].after, Narrow(max[c])) :
              oc'[c] = Loaded(oc[c], page, Hidden)
        BY <1>2, <3>2 DEF LoadOverlay, TypeOK
      <4> QED
        BY <2>1, <2>2, <2>3, <4>1, LoadsOverlay
    <3> QED
      BY <3>1, <3>2
  <2>5. Listed(c)' = Listed(c) /\ Kept(c)
    BY <2>1 DEF Listed, Kept
  <2>6. ClientInv(c)'
    BY <2>1, <2>3, <2>4, <2>5, PageGoesOn
  <2> QED
    BY <1>a, <2>1, <2>6
<1>3. ASSUME NEW c \in Clients, LoadBaseline(c) PROVE ListInv'
  <2>1. /\ pc[c] = "paging" /\ NeedsLoad(bc[c])
        /\ UNCHANGED <<overlay, baseline, absent, active, nextID, token, seen, start, zeroed, pc>>
        /\ UNCHANGED <<out, max, oc>> /\ \A d \in Clients \ {c} : bc'[d] = bc[d]
    BY <1>3 DEF LoadBaseline, BaselinePeeked, backends, sessions, clients, history, TypeOK
  <2>2. /\ baseline \in SUBSET Entries /\ start[c] \in Starts
        /\ oc[c] \in Cursors /\ bc[c] \in Cursors /\ Listed(c) \in Seq(Items)
    BY ListedType DEF TypeOK, Starts
  <2>3. /\ ClientInv(c)
        /\ Continues(overlay, baseline, Listed(c), oc[c], bc[c])
        /\ Stands(overlay, baseline, start[c], Listed(c))
        /\ WholeInv(c) => /\ Wins(start[c], Listed(c)) /\ Narrow(max[c]) # 0
                          /\ Covers(start[c], Listed(c), oc[c], bc[c])
    BY <2>1 DEF ListInv, ClientInv, WholeInv
  <2>4. PICK page \in Pages(baseline, bc[c].after, Narrow(max[c])) : bc'[c] = Loaded(bc[c], page, {})
    BY <1>3 DEF LoadBaseline, TypeOK
  <2>5. /\ Continues(overlay, baseline, Listed(c), oc[c], bc'[c])
        /\ WholeInv(c) => Covers(start[c], Listed(c), oc[c], bc'[c])
    BY <2>1, <2>2, <2>3, <2>4, LoadsBaseline
  <2>6. Listed(c)' = Listed(c) /\ Kept(c)
    BY <2>1 DEF Listed, Kept
  <2>7. ClientInv(c)'
    BY <2>1, <2>3, <2>5, <2>6, PageGoesOn
  <2> QED
    BY <1>a, <2>1, <2>7
<1>13. ASSUME NEW c \in Clients, RefuseSize(c) PROVE ListInv'
  BY <1>13, <1>b DEF RefuseSize, backends, sessions, history
<1>4. ASSUME NEW c \in Clients, RefuseListing(c) PROVE ListInv'
  BY <1>4, <1>b DEF RefuseListing, BaselinePeeked, backends, sessions, history
<1>5. ASSUME NEW c \in Clients, MergeHead(c) PROVE ListInv'
  <2>1. ClientInv(c)'
    BY <1>5, MergesHead DEF ListInv
  <2>2. /\ UNCHANGED <<overlay, baseline, absent, active, nextID, token, seen, start, zeroed, pc>>
        /\ \A d \in Clients \ {c} : UNCHANGED <<out[d], oc[d], bc[d], max[d]>>
    BY <1>5 DEF MergeHead, backends, sessions, clients, history, TypeOK
  <2> QED
    BY <1>a, <2>1, <2>2
<1>6. ASSUME NEW c \in Clients, LastPage(c) PROVE ListInv'
  <2>1. /\ pc[c] = "paging" /\ ~NeedsLoad(oc[c]) /\ ~NeedsLoad(bc[c])
        /\ oc[c].remaining \cup bc[c].remaining = {}
        /\ Reply(c, 0, "finished")
        /\ UNCHANGED <<overlay, baseline, absent, active, nextID, start, zeroed>>
    BY <1>6 DEF LastPage, BaselinePeeked, backends, sessions, history
  <2>2. CASE EndCalls({c}, "ready") /\ UNCHANGED <<seen, token>>
    BY <1>b, <2>1, <2>2
  <2>3. CASE /\ seen' = [seen EXCEPT ![c] = @ \o out[c]]
             /\ token' = [token EXCEPT ![c] = 0]
             /\ EndCalls({c}, "finished")
    <3>1. 0 <= nextID' /\ 0 \notin DOMAIN active' /\ nextID' = nextID
      BY <2>1 DEF TypeOK
    <3>2. WholeInv(c) => start[c].overlay \cup start[c].baseline \subseteq KeysOf(Listed(c))
      BY <2>1, NothingLeft DEF WholeInv
    <3>3. ClientInv(c)'
      BY <2>1, <2>3, <3>1, <3>2, Delivered DEF ListInv
    <3>4. \A d \in Clients \ {c} : UNCHANGED <<token[d], seen[d], pc[d], out[d], oc[d], bc[d], max[d]>>
      <4>1. \A d \in Clients \ {c} : UNCHANGED <<pc[d], out[d], oc[d], bc[d], max[d]>>
        BY <2>3, EndsCalls DEF PCs
      <4>2. \A d \in Clients \ {c} : UNCHANGED <<token[d], seen[d]>>
        BY <2>3 DEF TypeOK
      <4> QED
        BY <4>1, <4>2
    <3>5. ASSUME NEW d \in Clients PROVE ClientInv(d)'
      <4>1. CASE d # c
        <5>1. Kept(d) /\ ClientInv(d)
          BY <2>1, <3>4, <4>1 DEF Kept, ListInv
        <5> QED
          BY <3>4, <4>1, <5>1, Untouched
      <4> QED
        BY <3>3, <4>1
    <3>6. TokensDiffer'
      BY <2>3, <3>4 DEF ListInv, TokensDiffer, TypeOK
    <3> QED
      BY <2>1, <3>5, <3>6 DEF ListInv
  <2> QED
    BY <2>1, <2>2, <2>3 DEF Reply
<1>7. ASSUME NEW c \in Clients, FullPage(c) PROVE ListInv'
  <2>1. /\ pc[c] = "paging" /\ Reply(c, nextID', "ready")
        /\ UNCHANGED <<overlay, baseline, absent, start, zeroed>>
        /\ nextID' = nextID + 1 /\ nextID \in Nat
        /\ active'[nextID'] = [overlay |-> oc[c], baseline |-> bc[c]]
        /\ \A t \in DOMAIN active' : t # nextID' => t \in DOMAIN active /\ active'[t] = active[t]
    BY <1>7 DEF FullPage, Snapshot, backends, history, TypeOK
  <2>2. \A d \in Clients : token[d] \in Nat /\ token[d] <= nextID /\ token[d] # nextID'
    BY <2>1 DEF ListInv, ClientInv, TypeOK
  <2>3. ASSUME NEW d \in Clients, UNCHANGED <<seen[d], token[d]>> PROVE Kept(d) /\ ClientInv(d)
    BY <2>1, <2>2, <2>3 DEF Kept, ListInv
  <2>4. CASE EndCalls({c}, "ready") /\ UNCHANGED <<seen, token>>
    <3>1. pc'[c] = "ready" /\ \A d \in Clients \ {c} : UNCHANGED <<pc[d], out[d], oc[d], bc[d], max[d]>>
      BY <2>4, EndsCalls DEF PCs
    <3>2. ASSUME NEW d \in Clients PROVE ClientInv(d)'
      <4>1. Kept(d) /\ ClientInv(d)
        BY <2>3, <2>4
      <4>2. CASE d = c
        BY <2>1, <3>1, <4>1, <4>2, NoPage
      <4>3. CASE d # c
        BY <3>1, <4>1, <4>3, Untouched
      <4> QED
        BY <4>2, <4>3
    <3> QED
      BY <2>1, <2>4, <3>2 DEF ListInv, TokensDiffer
  <2>5. CASE /\ seen' = [seen EXCEPT ![c] = @ \o out[c]]
             /\ token' = [token EXCEPT ![c] = nextID']
             /\ EndCalls({c}, "ready")
    <3>1. ClientInv(c)'
      <4>1. /\ nextID' \in Nat /\ nextID' # 0 /\ nextID' <= nextID' /\ ClientInv(c)
            /\ active'[nextID'].overlay = oc[c] /\ active'[nextID'].baseline = bc[c]
        BY <2>1 DEF ListInv
      <4> QED
        BY <2>1, <2>5, <4>1, Delivered
    <3>2. /\ \A d \in Clients \ {c} : UNCHANGED <<token[d], seen[d], pc[d], out[d], oc[d], bc[d], max[d]>>
          /\ token'[c] = nextID'
      <4>1. \A d \in Clients \ {c} : UNCHANGED <<pc[d], out[d], oc[d], bc[d], max[d]>>
        BY <2>5, EndsCalls DEF PCs
      <4>2. token'[c] = nextID' /\ \A d \in Clients \ {c} : UNCHANGED <<token[d], seen[d]>>
        BY <2>5 DEF TypeOK
      <4> QED
        BY <4>1, <4>2
    <3>3. ASSUME NEW d \in Clients PROVE ClientInv(d)'
      <4>1. CASE d # c
        BY <2>3, <3>2, <4>1, Untouched
      <4> QED
        BY <3>1, <4>1
    <3>4. TokensDiffer'
      BY <2>2, <3>2 DEF ListInv, TokensDiffer
    <3> QED
      BY <2>1, <3>3, <3>4 DEF ListInv
  <2> QED
    BY <2>1, <2>4, <2>5 DEF Reply
<1>8. ASSUME NEW c \in Clients, PageFails(c) PROVE ListInv'
  BY <1>8, <1>b DEF PageFails, backends, sessions, history
<1>9. ASSUME NEW e \in Writable, OverlayPut(e) PROVE ListInv'
  BY <1>9, <1>c DEF OverlayPut, sessions, calls, clients, history
<1>10. ASSUME NEW t \in DOMAIN active, Lapse(t) PROVE ListInv'
  BY <1>10, <1>c DEF Lapse, backends, calls, clients, history, ListInv
<1>11. CASE Restart
  BY <1>11 DEF Restart
<1>12. CASE UNCHANGED vars
  BY <1>12, <1>c DEF vars, backends, sessions, calls, clients, history, ListInv
<1> QED
  BY <1>1, <1>2, <1>3, <1>4, <1>5, <1>6, <1>7, <1>8, <1>9, <1>10, <1>11, <1>12, <1>13
  DEF Next, NextPage, Serve

LEMMA ListInvariant == Spec => [](TypeOK /\ IInv)
<1>1. Init => IInv
  BY InitList DEF IInv
<1> QED
  BY <1>1, InitType, TypeStep, ListStep, PTL DEF Spec

\* A listing that ends has listed every entry either backend had when it began,
\* and nothing that neither has, until the gateway is replaced, if its client asked
\* for no page whose size is 0 as an int32 (cursorState, s3Store.ListPage).
THEOREM ListingsAreComplete == Spec => []ListingIsComplete
<1>1. TypeOK /\ ListInv => \A c \in Clients \ zeroed : AllIsListed(c)
  <2> SUFFICES ASSUME TypeOK, ListInv, NEW c \in Clients \ zeroed, pc[c] = "finished"
               PROVE  /\ start[c].overlay \cup start[c].baseline \subseteq KeysOf(seen[c])
                      /\ KeysOf(seen[c]) \subseteq (overlay \ Hidden) \cup baseline
    BY DEF AllIsListed
  <2>1. Listed(c) = seen[c] /\ seen[c] \in Seq(Items)
    BY ListedType
  <2>2. ASSUME NEW i \in DOMAIN seen[c] PROVE seen[c][i].key \in (overlay \ Hidden) \cup baseline
    <3>1. Held(overlay, baseline, seen[c][i])
      BY <2>1 DEF ListInv, ClientInv, Stands
    <3>2. seen[c][i] \in Items
      BY <2>1
    <3> QED
      BY <3>1, <3>2 DEF Held, Items
  <2> QED
    BY <2>2 DEF KeysOf, ListInv, ClientInv, WholeInv
<1>2. TypeOK /\ IInv => ListingIsComplete
  BY <1>1 DEF IInv, ListingIsComplete
<1> QED
  BY <1>2, ListInvariant, PTL

\* The pages of a listing are in strictly increasing key order since it began, or
\* began anew, until the gateway is replaced (ListPage).
THEOREM PagesAreOrdered == Spec => []PagesStrictlyIncrease
<1>1. IInv => PagesStrictlyIncrease
  BY DEF IInv, ListInv, ClientInv, Stands, Listed, Increasing, PagesStrictlyIncrease
<1> QED
  BY <1>1, ListInvariant, PTL

\* No entry the overlay had when a listing began is shown with the baseline's
\* object, until the gateway is replaced, if the client asked for no page whose size
\* is 0 as an int32; and whatever it asks for, no object is shown for a layer that
\* does not hold it (ListPage, overlay keys win).
THEOREM OverlayEntriesShadow == Spec => []OverlayShadowsBaseline
<1>1. TypeOK /\ IInv => OverlayShadowsBaseline
  <2> SUFFICES ASSUME TypeOK, ListInv, NEW c \in Clients
               PROVE  /\ c \notin zeroed => Wins(start[c], seen[c])
                      /\ \A i \in DOMAIN seen[c] : Held(overlay, baseline, seen[c][i])
    BY DEF IInv, OverlayShadowsBaseline, OverlayWins, Wins, Held
  <2>1. /\ Stands(overlay, baseline, start[c], seen[c])
        /\ Wins(start[c], Listed(c)) => Wins(start[c], seen[c])
    <3>1. Stands(overlay, baseline, start[c], Listed(c))
      BY DEF ListInv, ClientInv
    <3>2. seen[c] \in Seq(Items) /\ out[c] \in Seq(Items)
      BY DEF TypeOK
    <3>3. CASE pc[c] = "paging"
      <4>1. Listed(c) = seen[c] \o out[c]
        BY <3>3, ListedType
      <4>2. \A t \in Seq(Items) : Stands(overlay, baseline, start[c], seen[c] \o t)
              => /\ Stands(overlay, baseline, start[c], seen[c])
                 /\ Wins(start[c], seen[c] \o t) => Wins(start[c], seen[c])
        BY <3>2, PageGivenUp
      <4> QED
        BY <3>1, <3>2, <4>1, <4>2
    <3>4. CASE pc[c] # "paging"
      BY <3>1, <3>4, ListedType
    <3> QED
      BY <3>3, <3>4
  <2> QED
    BY <2>1 DEF Stands, ListInv, ClientInv, WholeInv
<1> QED
  BY <1>1, ListInvariant, PTL

\* Page sizes below 2^31 are the ones the backends are asked for.
LEMMA ModSmall ==
  ASSUME NEW a \in Nat, NEW m \in Nat \ {0}, a < m PROVE a % m = a
  OBVIOUS

LEMMA TwoHalves ==
  ASSUME NEW m \in Nat, m > 2 PROVE m \div 2 \in Nat /\ m \div 2 + m \div 2 <= m
  OBVIOUS

LEMMA HalfOfFew ==
  ASSUME NEW m \in Nat, NEW d \in Nat \ {0}, d < m \div 2 PROVE m > 2
  OBVIOUS

LEMMA SmallSizesAreAsked ==
  ASSUME NEW n \in Nat, n < IntRange \div 2 PROVE Narrow(n) = n
<1> DEFINE half == IntRange \div 2
<1>1. IntRange \in Nat /\ IntRange > 2
  BY IntAssumption, HalfOfFew
<1>2. half \in Nat /\ half + half <= IntRange
  BY <1>1, TwoHalves
<1>3. Narrow(n) = ((n + half) % IntRange) - half
  BY DEF Narrow
<1>4. n < half
  OBVIOUS
<1> HIDE DEF half
<1>5. n + half \in Nat /\ n + half < IntRange
  BY <1>1, <1>2, <1>4
<1>6. (n + half) % IntRange = n + half
  BY <1>1, <1>5, ModSmall
<1> QED
  BY <1>2, <1>3, <1>6

LEMMA SmallSizesStay ==
  ASSUME \A n \in PageSizes : n < IntRange \div 2
  PROVE  zeroed = {} /\ [Next]_vars => zeroed' = {}
<1> SUFFICES ASSUME zeroed = {}, [Next]_vars PROVE zeroed' = {}
  OBVIOUS
<1>1. ASSUME NEW c \in Clients, NEW n \in PageSizes, StartPage(c, n) PROVE zeroed' = {}
  <2>1. PageSize(n) \in Nat \ {0} /\ PageSize(n) < IntRange \div 2
    <3>1. DefaultPage < IntRange \div 2
      BY IntAssumption
    <3> QED
      BY <3>1 DEF PageSize
  <2>2. Narrow(PageSize(n)) # 0
    BY <2>1, SmallSizesAreAsked
  <2> QED
    BY <1>1, <2>2 DEF StartPage
<1>2. (\E c \in Clients, n \in PageSizes : StartPage(c, n)) \/ UNCHANGED zeroed
  BY DEF Next, NextPage, Serve, LoadOverlay, LoadBaseline, RefuseListing, RefuseSize,
         MergeHead, LastPage, FullPage, PageFails, OverlayPut, Lapse, Restart, history, vars
<1> QED
  BY <1>1, <1>2

\* README.md:25: where every page size is below 2^31, a listing is the merged view of
\* both stores and overlay keys win, until the gateway is replaced.
THEOREM SmallPagesListTheMergedView ==
  ASSUME \A n \in PageSizes : n < IntRange \div 2
  PROVE  Spec => [](restarts = 0 => ListingIsMergedView)
<1> DEFINE Asked == zeroed = {}
<1>1. Init => Asked
  BY DEF Init
<1>2. Asked /\ [Next]_vars => Asked'
  BY SmallSizesStay
<1>3. Asked /\ ListingIsComplete /\ OverlayShadowsBaseline
        => (restarts = 0 => ListingIsMergedView)
  BY DEF ListingIsComplete, OverlayShadowsBaseline, ListingIsMergedView
<1> HIDE DEF Asked
<1>4. Spec => []Asked
  BY <1>1, <1>2, PTL DEF Spec
<1> QED
  BY <1>3, <1>4, ListingsAreComplete, OverlayEntriesShadow, PTL

-----------------------------------------------------------------------------
(* The refinement.                                                         *)

ItemsOf(s) == {s[i] : i \in DOMAIN s}

LEMMA ItemsOfConcat ==
  ASSUME NEW s \in Seq(Items), NEW t \in Seq(Items)
  PROVE  ItemsOf(s \o t) = ItemsOf(s) \cup ItemsOf(t)
<1>1. /\ Len(s) \in Nat /\ Len(t) \in Nat
      /\ DOMAIN s = 1 .. Len(s) /\ DOMAIN t = 1 .. Len(t)
      /\ DOMAIN (s \o t) = 1 .. Len(s) + Len(t)
      /\ \A i \in 1 .. Len(s) + Len(t) :
           (s \o t)[i] = IF i <= Len(s) THEN s[i] ELSE t[i - Len(s)]
  BY ConcatProperties
<1>2. ASSUME NEW i \in DOMAIN (s \o t) PROVE (s \o t)[i] \in ItemsOf(s) \cup ItemsOf(t)
  <2>1. CASE i <= Len(s)
    BY <1>1, <2>1 DEF ItemsOf
  <2>2. CASE ~(i <= Len(s))
    <3>1. i - Len(s) \in DOMAIN t
      BY <1>1, <2>2
    <3> QED
      BY <1>1, <2>2, <3>1 DEF ItemsOf
  <2> QED
    BY <2>1, <2>2
<1>3. ASSUME NEW i \in DOMAIN s PROVE s[i] \in ItemsOf(s \o t)
  <2>1. i \in 1 .. Len(s) + Len(t) /\ i <= Len(s)
    BY <1>1
  <2> QED
    BY <1>1, <2>1 DEF ItemsOf
<1>4. ASSUME NEW i \in DOMAIN t PROVE t[i] \in ItemsOf(s \o t)
  <2>1. Len(s) + i \in 1 .. Len(s) + Len(t) /\ ~(Len(s) + i <= Len(s)) /\ (Len(s) + i) - Len(s) = i
    BY <1>1
  <2> QED
    BY <1>1, <2>1 DEF ItemsOf
<1> QED
  BY <1>2, <1>3, <1>4 DEF ItemsOf

\* A page, in the order it was built, goes on behind what was shown.
LEMMA PageIsBehind ==
  ASSUME NEW s \in Seq(Items), NEW t \in Seq(Items), Increasing(s \o t)
  PROVE  /\ \A x \in ItemsOf(s), y \in ItemsOf(t) : x.key < y.key
         /\ \A x, y \in ItemsOf(t) : x.key = y.key => x = y
<1>1. /\ Len(s) \in Nat /\ Len(t) \in Nat
      /\ DOMAIN s = 1 .. Len(s) /\ DOMAIN t = 1 .. Len(t)
      /\ DOMAIN (s \o t) = 1 .. Len(s) + Len(t)
      /\ \A i \in 1 .. Len(s) + Len(t) :
           (s \o t)[i] = IF i <= Len(s) THEN s[i] ELSE t[i - Len(s)]
  BY ConcatProperties
<1>2. \A i \in 1 .. Len(s) : i \in DOMAIN (s \o t) /\ (s \o t)[i] = s[i]
  BY <1>1
<1>3. \A j \in 1 .. Len(t) : Len(s) + j \in DOMAIN (s \o t) /\ (s \o t)[Len(s) + j] = t[j]
  <2> TAKE j \in 1 .. Len(t)
  <2>1. Len(s) + j \in 1 .. Len(s) + Len(t) /\ ~(Len(s) + j <= Len(s)) /\ (Len(s) + j) - Len(s) = j
    BY <1>1
  <2> QED
    BY <1>1, <2>1
<1>4. ASSUME NEW i \in 1 .. Len(s), NEW j \in 1 .. Len(t) PROVE s[i].key < t[j].key
  <2>1. i < Len(s) + j
    BY <1>1
  <2> QED
    BY <1>2, <1>3, <2>1 DEF Increasing
<1>5. ASSUME NEW i \in 1 .. Len(t), NEW j \in 1 .. Len(t), i < j PROVE t[i].key < t[j].key
  <2>1. Len(s) + i < Len(s) + j
    BY <1>1, <1>5
  <2> QED
    BY <1>3, <2>1 DEF Increasing
<1>6. \A i \in 1 .. Len(t) : t[i].key \in Nat
  <2>1. \A i \in 1 .. Len(t) : t[i] \in Items
    BY <1>1
  <2> QED
    BY <2>1 DEF Items
<1>7. ASSUME NEW i \in 1 .. Len(t), NEW j \in 1 .. Len(t), t[i].key = t[j].key PROVE i = j
  <2>1. i < j \/ j < i \/ i = j
    BY <1>1
  <2> QED
    BY <1>5, <1>6, <1>7, <2>1
<1> QED
  BY <1>1, <1>4, <1>7 DEF ItemsOf

\* A delivered page is one of the merged view: built from what the backends hold,
\* in order, with nothing left out in front of its last item.
LEMMA PageIsMerged ==
  ASSUME TypeOK, ListInv, NEW c \in Clients, pc[c] = "paging",
         UNCHANGED <<overlay, baseline, start, zeroed>>,
         seen' = [seen EXCEPT ![c] = @ \o out[c]],
         NEW page, page = ItemsOf(out[c])
  PROVE  /\ page \in SUBSET Merged!Objects
         /\ Merged!Page(c, page)
         /\ Merged!Keys(ItemsOf(seen[c]) \cup page) = KeysOf(Listed(c))
         /\ c \notin zeroed =>
              \A e \in Merged!Owed(c) \ KeysOf(Listed(c)), x \in page : x.key < e
<1> DEFINE view == {seen[c][i] : i \in DOMAIN seen[c]}
<1>1. /\ seen[c] \in Seq(Items) /\ out[c] \in Seq(Items) /\ start[c] \in Starts
      /\ Listed(c) = seen[c] \o out[c] /\ Listed(c) \in Seq(Items)
  BY ListedType DEF TypeOK, Starts
<1>2. /\ Stands(overlay, baseline, start[c], Listed(c))
      /\ Continues(overlay, baseline, Listed(c), oc[c], bc[c])
      /\ c \notin zeroed => /\ Wins(start[c], Listed(c))
                            /\ Covers(start[c], Listed(c), oc[c], bc[c])
  BY DEF ListInv, ClientInv, WholeInv
<1>3. ItemsOf(Listed(c)) = ItemsOf(seen[c]) \cup page
  BY <1>1, ItemsOfConcat
<1>4. \A x \in ItemsOf(Listed(c)) :
        /\ x \in Items /\ Held(overlay, baseline, x)
        /\ c \notin zeroed /\ x.key \in start[c].overlay => x.layer = "overlay"
  <2> TAKE x \in ItemsOf(Listed(c))
  <2>1. PICK i \in DOMAIN Listed(c) : x = Listed(c)[i]
    BY DEF ItemsOf
  <2>2. Listed(c)[i] \in Items
    <3>1. \A s \in Seq(Items) : \A j \in DOMAIN s : s[j] \in Items
      OBVIOUS
    <3> QED
      BY <1>1, <3>1
  <2>3. /\ Held(overlay, baseline, Listed(c)[i])
        /\ c \notin zeroed /\ Listed(c)[i].key \in start[c].overlay
             => Listed(c)[i].layer = "overlay"
    BY <1>2 DEF Stands, Wins
  <2> QED
    BY <2>1, <2>2, <2>3
<1>5. /\ \A x \in ItemsOf(seen[c]), y \in page : x.key < y.key
      /\ \A x, y \in page : x.key = y.key => x = y
  BY <1>1, <1>2, PageIsBehind DEF Stands
<1>6. \A x \in page : x \in Merged!Objects
  <2> TAKE x \in page
  <2>1. x \in Items /\ Held(overlay, baseline, x)
    BY <1>3, <1>4
  <2>2. x = [key |-> x.key, layer |-> x.layer] /\ x.layer \in {"overlay", "baseline"}
    BY <2>1 DEF Items
  <2> QED
    BY <2>1, <2>2 DEF Held, Merged!Objects, Merged!Item
<1>7. c \notin zeroed => \A x \in page : x.key \in start[c].overlay => x.layer = "overlay"
  BY <1>3, <1>4
<1>8. KeysOf(Listed(c)) = {x.key : x \in ItemsOf(seen[c]) \cup page}
  <2>1. \A s : KeysOf(s) = {x.key : x \in ItemsOf(s)}
    BY DEF KeysOf, ItemsOf
  <2> QED
    BY <1>3, <2>1
<1>9. ASSUME c \notin zeroed,
             NEW e \in Merged!Owed(c) \ KeysOf(Listed(c)), NEW x \in page
      PROVE  x.key < e
  <2>1. e \in start[c].overlay \cup start[c].baseline /\ e \in Entries /\ e \in Nat
    BY <1>1 DEF Merged!Owed, Starts
  <2>2. x.key \in KeysOf(Listed(c)) /\ x.key \in Nat
    <3>1. x \in Items
      BY <1>3, <1>4
    <3> QED
      BY <1>8, <3>1 DEF Items
  <2>3. \A cur \in Cursors : Behind(Listed(c), cur) /\ Ahead(cur, e) => x.key < e
    <3> TAKE cur \in Cursors
    <3>1. cur.after \in Nat
      BY DEF Cursors
    <3> QED
      BY <2>1, <2>2, <3>1 DEF Behind, Ahead
  <2>4. oc[c] \in Cursors /\ bc[c] \in Cursors
    BY DEF TypeOK
  <2>5. Ahead(oc[c], e) \/ Ahead(bc[c], e)
    BY <1>2, <1>9, <2>1 DEF Covers
  <2> QED
    BY <1>2, <2>3, <2>4, <2>5 DEF Continues
<1>10. Merged!Page(c, page)
  <2>1. [d \in Clients |-> {seen'[d][i] : i \in DOMAIN seen'[d]}]
          = [[d \in Clients |-> {seen[d][i] : i \in DOMAIN seen[d]}]
               EXCEPT ![c] = view \cup page]
    <3>1. \A d \in Clients : ItemsOf(seen'[d]) = IF d = c THEN ItemsOf(seen[c]) \cup page
                                                          ELSE ItemsOf(seen[d])
      BY <1>1, ItemsOfConcat DEF TypeOK
    <3> QED
      BY <3>1 DEF ItemsOf
  <2> QED
    BY <1>5, <1>6, <1>7, <2>1 DEF Merged!Page, ItemsOf
<1> QED
  BY <1>6, <1>8, <1>9, <1>10 DEF Merged!Keys

\* The state of MergedListing that a state of the sessions and cursors stands for.
AbsState(p) == [c \in Clients |-> IF p[c] \in {"ready", "paging"} THEN "open" ELSE p[c]]
AbsShown(s) == [c \in Clients |-> {s[c][i] : i \in DOMAIN s[c]}]

LEMMA InitMerges == TypeOK /\ Init => Merged!Init
<1> SUFFICES ASSUME TypeOK, Init PROVE Merged!Init
  OBVIOUS
<1>1. overlay \ Hidden \in SUBSET Entries /\ baseline \in SUBSET Entries
  BY DEF TypeOK
<1>2. AbsState(pc) = [c \in Clients |-> "new"]
  BY DEF Init, AbsState
<1>3. AbsShown(seen) = [c \in Clients |-> {}]
  BY DEF Init, AbsShown
<1> QED
  BY <1>1, <1>2, <1>3 DEF Init, Merged!Init, AbsState, AbsShown

\* A step between two pages is none of the merged view.
LEMMA Stutters ==
  ASSUME UNCHANGED <<overlay, baseline, start, zeroed, seen>>, AbsState(pc)' = AbsState(pc)
  PROVE  UNCHANGED Merged!vars
BY DEF Merged!vars, AbsState

LEMMA CallEnds ==
  ASSUME TypeOK, NEW c \in Clients, pc[c] = "paging", NEW state \in PCs, EndCalls({c}, state)
  PROVE  AbsState(pc)' = [AbsState(pc) EXCEPT ![c] =
           IF state \in {"ready", "paging"} THEN "open" ELSE state]
BY DEF EndCalls, TypeOK, AbsState

LEMMA CallGivenUp ==
  ASSUME TypeOK, NEW c \in Clients, pc[c] = "paging", EndCalls({c}, "ready")
  PROVE  AbsState(pc)' = AbsState(pc)
<1>1. \A d \in Clients : pc'[d] = IF d = c THEN "ready" ELSE pc[d]
  BY DEF EndCalls
<1>2. \A d \in Clients : (IF pc'[d] \in {"ready", "paging"} THEN "open" ELSE pc'[d])
                        = IF pc[d] \in {"ready", "paging"} THEN "open" ELSE pc[d]
  BY <1>1
<1> QED
  BY <1>2 DEF AbsState

LEMMA StartMerges ==
  ASSUME TypeOK, TypeOK', ListInv, NEW c \in Clients, NEW n \in PageSizes, StartPage(c, n)
  PROVE  [Merged!Next]_(Merged!vars)
<1> DEFINE known == token[c] \in DOMAIN active
<1>1. /\ UNCHANGED <<overlay, baseline>> /\ pc' = [pc EXCEPT ![c] = "paging"]
      /\ seen' = [seen EXCEPT ![c] = IF known THEN @ ELSE << >>]
      /\ zeroed' \in {zeroed, zeroed \cup {c}}
  BY DEF StartPage, backends
<1>2. CASE pc[c] = "new"
  <2>1. seen[c] = << >> /\ seen \in [Clients -> Seq(Items)] /\ pc \in [Clients -> PCs]
    BY <1>2 DEF ListInv, ClientInv, TypeOK
  <2>2. seen' = seen
    BY <1>1, <2>1
  <2>3. start' = [start EXCEPT ![c] = [overlay |-> overlay \ Hidden, baseline |-> baseline]]
    BY <1>2 DEF StartPage
  <2>4. AbsState(pc)[c] = "new" /\ AbsState(pc)' = [AbsState(pc) EXCEPT ![c] = "open"]
    BY <1>1, <1>2, <2>1 DEF AbsState
  <2>5. Merged!Begin(c)
    BY <1>1, <2>2, <2>3, <2>4 DEF Merged!Begin, AbsState
  <2> QED
    BY <2>5 DEF Merged!Next
<1>3. CASE pc[c] = "ready"
  <2>1. start' = start /\ pc \in [Clients -> PCs] /\ seen \in [Clients -> Seq(Items)]
    BY <1>3 DEF StartPage, TypeOK
  <2>2. AbsState(pc)[c] = "open" /\ AbsState(pc)' = AbsState(pc)
    BY <1>1, <1>3, <2>1 DEF AbsState
  <2>3. AbsShown(seen)' \in {AbsShown(seen), [AbsShown(seen) EXCEPT ![c] = {}]}
    <3>1. CASE known
      <4>1. seen' = seen
        BY <1>1, <2>1, <3>1
      <4> QED
        BY <4>1 DEF AbsShown
    <3>2. CASE ~known
      <4>1. \A d \in Clients : {seen'[d][i] : i \in DOMAIN seen'[d]}
                              = IF d = c THEN {} ELSE {seen[d][i] : i \in DOMAIN seen[d]}
        <5>1. \A d \in Clients : seen'[d] = IF d = c THEN << >> ELSE seen[d]
          BY <1>1, <2>1, <3>2
        <5>2. \A s : s = << >> => {s[i] : i \in DOMAIN s} = {}
          OBVIOUS
        <5> QED
          BY <5>1, <5>2
      <4> QED
        BY <4>1 DEF AbsShown
    <3> QED
      BY <3>1, <3>2
  <2>4. Merged!Ask(c)
    BY <1>1, <2>1, <2>2, <2>3 DEF Merged!Ask, AbsState, AbsShown
  <2> QED
    BY <2>4 DEF Merged!Next
<1> QED
  BY <1>2, <1>3 DEF StartPage

LEMMA LastPageMerges ==
  ASSUME TypeOK, ListInv, NEW c \in Clients, LastPage(c)
  PROVE  [Merged!Next]_(Merged!vars)
<1>1. /\ pc[c] = "paging" /\ ~NeedsLoad(oc[c]) /\ ~NeedsLoad(bc[c])
      /\ oc[c].remaining \cup bc[c].remaining = {}
      /\ Reply(c, 0, "finished")
      /\ UNCHANGED <<overlay, baseline, start, zeroed>>
  BY DEF LastPage, BaselinePeeked, backends
<1>2. CASE EndCalls({c}, "ready") /\ UNCHANGED <<seen, token>>
  <2>1. AbsState(pc)' = AbsState(pc)
    BY <1>1, <1>2, CallGivenUp
  <2> QED
    BY <1>1, <1>2, <2>1, Stutters
<1>3. CASE seen' = [seen EXCEPT ![c] = @ \o out[c]] /\ EndCalls({c}, "finished")
  <2>0. PICK page : page = ItemsOf(out[c])
    OBVIOUS
  <2>1. AbsState(pc)' = [AbsState(pc) EXCEPT ![c] = "finished"]
    BY <1>1, <1>3, CallEnds DEF PCs
  <2>2. /\ page \in SUBSET Merged!Objects /\ Merged!Page(c, page)
        /\ Merged!Keys(ItemsOf(seen[c]) \cup page) = KeysOf(Listed(c))
    BY <1>1, <1>3, <2>0, PageIsMerged
  <2>3. c \notin zeroed => Merged!Owed(c) \subseteq KeysOf(Listed(c))
    BY <1>1, NothingLeft DEF ListInv, ClientInv, WholeInv, Merged!Owed
  <2>4. c \notin zeroed => Merged!Owed(c) \subseteq Merged!Keys([d \in Clients |->
          {seen[d][i] : i \in DOMAIN seen[d]}][c] \cup page)
    BY <2>2, <2>3 DEF ItemsOf
  <2>5. Merged!LastPage(c, page)
    BY <2>1, <2>2, <2>4 DEF Merged!LastPage, AbsState
  <2> QED
    BY <2>2, <2>5 DEF Merged!Next
<1> QED
  BY <1>1, <1>2, <1>3 DEF Reply

LEMMA FullPageMerges ==
  ASSUME TypeOK, ListInv, NEW c \in Clients, FullPage(c)
  PROVE  [Merged!Next]_(Merged!vars)
<1>1. /\ pc[c] = "paging" /\ ~Room(c) /\ Reply(c, nextID', "ready")
      /\ UNCHANGED <<overlay, baseline, start, zeroed>>
  BY DEF FullPage, backends
<1>2. EndCalls({c}, "ready") => AbsState(pc)' = AbsState(pc)
  BY <1>1, CallGivenUp
<1>3. CASE EndCalls({c}, "ready") /\ UNCHANGED <<seen, token>>
  BY <1>1, <1>2, <1>3, Stutters
<1>4. CASE seen' = [seen EXCEPT ![c] = @ \o out[c]] /\ EndCalls({c}, "ready")
  <2>0. PICK page : page = ItemsOf(out[c])
    OBVIOUS
  <2>1. /\ page \in SUBSET Merged!Objects /\ Merged!Page(c, page)
        /\ Merged!Keys(ItemsOf(seen[c]) \cup page) = KeysOf(Listed(c))
        /\ c \notin zeroed =>
             \A e \in Merged!Owed(c) \ KeysOf(Listed(c)), x \in page : x.key < e
    BY <1>1, <1>4, <2>0, PageIsMerged
  <2>2. page # {}
    <3>1. out[c] \in Seq(Items) /\ max[c] \in Nat \ {0} /\ ~(Len(out[c]) < max[c])
      BY <1>1 DEF TypeOK, Room
    <3>2. 1 \in DOMAIN out[c]
      BY <3>1
    <3> QED
      BY <2>0, <3>2 DEF ItemsOf
  <2>3. c \notin zeroed => \A e \in Merged!Owed(c) \ Merged!Keys([d \in Clients |->
            {seen[d][i] : i \in DOMAIN seen[d]}][c] \cup page), x \in page : x.key < e
    BY <2>1 DEF ItemsOf
  <2>4. Merged!NextPage(c, page)
    BY <1>2, <1>4, <2>1, <2>2, <2>3 DEF Merged!NextPage, AbsState
  <2> QED
    BY <2>1, <2>4 DEF Merged!Next
<1> QED
  BY <1>1, <1>3, <1>4 DEF Reply

LEMMA RefusalMerges ==
  ASSUME TypeOK, ListInv, NEW c \in Clients, RefuseListing(c)
  PROVE  [Merged!Next]_(Merged!vars)
<1>1. /\ pc[c] = "paging" /\ EndCalls({c}, "refused") /\ baseline = {}
      /\ UNCHANGED <<overlay, baseline, start, zeroed, seen>>
  BY DEF RefuseListing, BaselinePeeked, backends, history, ListInv
<1>2. AbsState(pc)[c] = "open" /\ AbsState(pc)' = [AbsState(pc) EXCEPT ![c] = "refused"]
  BY <1>1, CallEnds DEF AbsState, PCs
<1>3. Merged!Refuse(c)
  BY <1>1, <1>2 DEF Merged!Refuse, AbsState
<1> QED
  BY <1>3 DEF Merged!Next

LEMMA FailureMerges ==
  ASSUME TypeOK, NEW c \in Clients, RefuseSize(c)
  PROVE  [Merged!Next]_(Merged!vars)
<1>1. /\ pc[c] = "paging" /\ EndCalls({c}, "failed")
      /\ UNCHANGED <<overlay, baseline, start, zeroed, seen>>
  BY DEF RefuseSize, backends, history
<1>2. AbsState(pc)[c] = "open" /\ AbsState(pc)' = [AbsState(pc) EXCEPT ![c] = "failed"]
  BY <1>1, CallEnds DEF AbsState, PCs
<1>3. Merged!Fail(c)
  BY <1>1, <1>2 DEF Merged!Fail, AbsState
<1> QED
  BY <1>3 DEF Merged!Next

LEMMA WriteMerges ==
  ASSUME NEW e \in Writable, OverlayPut(e)
  PROVE  [Merged!Next]_(Merged!vars)
<1>1. /\ UNCHANGED <<baseline, pc, seen, start, zeroed>> /\ overlay' = overlay \cup {e} /\ e \in Entries
  BY DEF OverlayPut, clients, history
<1>2. CASE e \in Hidden
  <2>1. overlay' \ Hidden = overlay \ Hidden
    BY <1>1, <1>2
  <2> QED
    BY <1>1, <2>1 DEF Merged!vars
<1>3. CASE e \notin Hidden
  <2>1. overlay' \ Hidden = (overlay \ Hidden) \cup {e}
    BY <1>1, <1>3
  <2>2. Merged!Write(e)
    BY <1>1, <2>1 DEF Merged!Write
  <2> QED
    BY <1>1, <2>2 DEF Merged!Next
<1> QED
  BY <1>2, <1>3

\* Until the gateway is replaced, paginated listings are one walk of the merged
\* view: sessions, cursors, backend pages, retries and sweeps add nothing to it and,
\* where no page is asked for whose size is 0 as an int32, leave nothing out
\* (ListPage).
THEOREM ListingsAreMerged == Spec => ImplementsMergedListing
<1>1. Init => Merged!Init
  BY InitType, InitMerges
<1>2. TypeOK /\ TypeOK' /\ IInv /\ IInv' /\ [Next]_vars
        => [restarts' = 0 => Merged!Next]_(Merged!vars)
  <2> SUFFICES ASSUME TypeOK, TypeOK', IInv, [Next]_vars, restarts' = 0
               PROVE  [Merged!Next]_(Merged!vars)
    OBVIOUS
  <2>0. ~Restart /\ ListInv
    <3>1. restarts' = restarts \/ Restart
      BY DEF Next, NextPage, Serve, StartPage, LoadOverlay, LoadBaseline, RefuseListing,
             RefuseSize, MergeHead, LastPage, FullPage, PageFails, OverlayPut, Lapse, budgets, vars
    <3>2. ~Restart
      BY DEF Restart, TypeOK
    <3> QED
      BY <3>1, <3>2 DEF IInv
  <2>1. ASSUME NEW c \in Clients, LoadOverlay(c) \/ LoadBaseline(c) \/ MergeHead(c)
        PROVE  UNCHANGED <<overlay, baseline, start, zeroed, seen, pc>>
    BY <2>1 DEF LoadOverlay, LoadBaseline, MergeHead, backends, clients, history
  <2>2. ASSUME NEW c \in Clients, PageFails(c)
        PROVE  UNCHANGED <<overlay, baseline, start, zeroed, seen>> /\ AbsState(pc)' = AbsState(pc)
    <3>1. pc[c] = "paging" /\ EndCalls({c}, "ready")
          /\ UNCHANGED <<overlay, baseline, start, zeroed, seen>>
      BY <2>2 DEF PageFails, backends, history
    <3> QED
      BY <3>1, CallGivenUp
  <2>3. ASSUME NEW t \in DOMAIN active, Lapse(t)
        PROVE  UNCHANGED <<overlay, baseline, start, zeroed, seen, pc>>
    BY <2>3 DEF Lapse, backends, clients, history
  <2>4. CASE UNCHANGED vars
    <3>1. UNCHANGED <<overlay, baseline, start, zeroed, seen, pc>>
      BY <2>4 DEF vars, backends, clients, history
    <3> QED
      BY <3>1, Stutters DEF AbsState
  <2>5. UNCHANGED <<overlay, baseline, start, zeroed, seen, pc>> => UNCHANGED Merged!vars
    BY Stutters DEF AbsState
  <2>6. ASSUME NEW c \in Clients, NEW n \in PageSizes, StartPage(c, n)
        PROVE  [Merged!Next]_(Merged!vars)
    BY <2>0, <2>6, StartMerges
  <2>7. ASSUME NEW c \in Clients, Serve(c) PROVE [Merged!Next]_(Merged!vars)
    BY <2>0, <2>1, <2>5, <2>7, LastPageMerges, FullPageMerges, RefusalMerges,
       FailureMerges DEF Serve
  <2>8. ASSUME NEW c \in Clients, PageFails(c) PROVE [Merged!Next]_(Merged!vars)
    BY <2>2, <2>8, Stutters
  <2>9. ASSUME NEW e \in Writable, OverlayPut(e) PROVE [Merged!Next]_(Merged!vars)
    BY <2>9, WriteMerges
  <2>10. ASSUME NEW t \in DOMAIN active, Lapse(t) PROVE [Merged!Next]_(Merged!vars)
    BY <2>3, <2>5, <2>10
  <2> QED
    BY <2>0, <2>4, <2>6, <2>7, <2>8, <2>9, <2>10 DEF Next, NextPage
<1> QED
  BY <1>1, <1>2, ListInvariant, PTL DEF Spec, ImplementsMergedListing
=============================================================================
