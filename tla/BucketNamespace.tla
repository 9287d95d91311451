--------------------------- MODULE BucketNamespace ---------------------------
(***************************************************************************)
(* Client buckets as key namespaces of the overlay's one physical bucket:  *)
(* the key mapping of s3Store (remote.go), and the bucket operations of    *)
(* overlayStore on top of it.  A string is the sequence of the segments    *)
(* between its slashes: "a/b" is <<"a", "b">>, "a/" is <<"a", "">>, "" is  *)
(* <<"">>; so joining with a slash is \o.  The pages of a listing are put  *)
(* together here; OverlayListing is about paging.                          *)
(***************************************************************************)
EXTENDS Integers, Sequences

CONSTANTS Segments,   \* the text between two slashes
          Begins,     \* <<s, t>> \in Begins: segment s begins with segment t
          Roots,      \* mapping roots a gateway may be configured with
          Buckets,    \* client bucket names
          Keys,       \* client object keys
          Foreign,    \* keys of the physical bucket that are not the gateway's
          Prefixes    \* prefix parameters of listings

Empty == <<"">>
Paths == Seq(Segments) \ {<< >>}

ASSUME SegmentsAssumption == "" \in Segments
ASSUME BeginsAssumption   == \A s \in Segments : <<s, "">> \in Begins
\* newMappedStore trims trailing slashes off the configured prefix.
ASSUME RootsAssumption    == Roots \subseteq {r \in Paths : r = Empty \/ r[Len(r)] # ""}
ASSUME BucketsAssumption  == Buckets \subseteq Segments \ {""}
\* parseS3Request sends a request without a key to the bucket operations.
ASSUME KeysAssumption     == Keys \subseteq Paths \ {Empty}
ASSUME PrefixesAssumption == Prefixes \subseteq Paths

VARIABLES
  root,       \* mappedPrefix, fixed when the gateway starts; Empty for none
  physical,   \* keys in the overlay's physical bucket
  baseline,   \* buckets of the baseline
  made,       \* buckets created through the gateway (history)
  written     \* <<bucket, key>> put through the gateway (history)

vars == <<root, physical, baseline, made, written>>

-----------------------------------------------------------------------------
(* The mapping.                                                            *)

\* joinKey(mappedPrefix, bucket)
Under(b) == (IF root = Empty THEN << >> ELSE root) \o <<b>>

Mutant_MapKey(b, k) == (IF root = Empty THEN << >> ELSE root) \o k   \* no bucket
MapKey(b, k)        == Under(b) \o k

\* The marker CreateBucket writes, and the prefix of all keys of a bucket.
Mutant_ListPrefix(b) == Under(b)            \* no trailing slash
ListPrefix(b)        == Under(b) \o Empty

\* listPrefix(bucket) + clientPrefix
Mutant_BackendPrefix(b, p) == IF p = Empty THEN Under(b) ELSE Under(b) \o p   \* joinKey
BackendPrefix(b, p)        == Under(b) \o p

Unmapped(b, k) == [ok |-> TRUE, bucket |-> b, key |-> k]
NotMapped      == [ok |-> FALSE, bucket |-> "", key |-> Empty]

InRoot(path) == root = Empty \/ (Len(path) > Len(root) /\ SubSeq(path, 1, Len(root)) = root)
AfterRoot(path) == IF root = Empty THEN path ELSE SubSeq(path, Len(root) + 1, Len(path))

\* unmapKey: a bare bucket has no key; an empty bucket or a marker is refused.
UnmapKey(path) ==
  LET rest == AfterRoot(path) IN
  IF ~InRoot(path) \/ Head(rest) = "" \/ Tail(rest) = Empty THEN NotMapped
  ELSE Unmapped(Head(rest), IF Len(rest) = 1 THEN Empty ELSE Tail(rest))

\* unmap: the client keys of one bucket among physical ones.
Unmap(b, paths) ==
  {UnmapKey(p).key : p \in {q \in paths :
     UnmapKey(q).ok /\ UnmapKey(q).bucket = b /\ UnmapKey(q).key # Empty}}

\* strings.TrimSuffix(path, "/")
TrimSlash(path) ==
  IF Len(path) > 1 /\ path[Len(path)] = "" THEN SubSeq(path, 1, Len(path) - 1) ELSE path

Mutant_UnmapPrefixRoot(path) == UnmapKey(path)     \* forgets TrimSuffix
UnmapPrefixRoot(path)        == UnmapKey(TrimSlash(path))

-----------------------------------------------------------------------------
(* ListObjectsV2 of a backend, all pages; the delimiter is the slash.      *)

HasPrefix(s, p) ==
  /\ Len(s) >= Len(p)
  /\ SubSeq(s, 1, Len(p) - 1) = SubSeq(p, 1, Len(p) - 1)
  /\ <<s[Len(p)], p[Len(p)]>> \in Begins

List(keys, p, delimited) ==
  LET found  == {k \in keys : HasPrefix(k, p)}
      folded == {k \in found : delimited /\ Len(k) > Len(p)}
  IN  [objects  |-> found \ folded,
       prefixes |-> {SubSeq(k, 1, Len(p)) \o Empty : k \in folded}]

\* s3Store.ListPage
ListPage(b, p, delimited) ==
  LET l == List(physical, BackendPrefix(b, p), delimited)
  IN  [objects |-> Unmap(b, l.objects), prefixes |-> Unmap(b, l.prefixes)]

\* s3Store.ListBuckets: the first-level prefixes, unmapped.
FirstLevel == List(physical, root, TRUE).prefixes
Mutant_NamesOf(rows) == {UnmapPrefixRoot(p).bucket : p \in rows}   \* ok is ignored

NamesOf(rows) ==
  LET roots == {UnmapPrefixRoot(p) : p \in rows}
  IN  {r.bucket : r \in {q \in roots : q.ok}}

\* s3Store.BucketExists: there is a key, the marker or another.
Holds(b) == List(physical, ListPrefix(b), FALSE).objects # {}

\* overlayStore.ListBuckets and BucketExists
ListBuckets     == NamesOf(FirstLevel) \cup baseline
BucketExists(b) == Holds(b) \/ b \in baseline

-----------------------------------------------------------------------------
Init ==
  /\ root \in Roots
  /\ baseline \in SUBSET Buckets
  /\ physical = {} /\ made = {} /\ written = {}

CreateBucket(b) ==
  /\ physical' = physical \cup {ListPrefix(b)}
  /\ made' = made \cup {b}
  /\ UNCHANGED <<root, baseline, written>>

\* Put, and every write that ends in an object: copies, multipart uploads.
Put(b, k) ==
  /\ physical' = physical \cup {MapKey(b, k)}
  /\ written' = written \cup {<<b, k>>}
  /\ UNCHANGED <<root, baseline, made>>

\* Someone else writes outside the mapping root, in the same physical bucket.
Outside(path) == IF root = Empty THEN Len(path) = 1 ELSE ~InRoot(path)
ForeignPut(path) ==
  /\ Outside(path)
  /\ physical' = physical \cup {path}
  /\ UNCHANGED <<root, baseline, made, written>>

Next ==
  \/ \E b \in Buckets : CreateBucket(b) \/ \E k \in Keys : Put(b, k)
  \/ \E path \in Foreign \cap Paths : ForeignPut(path)

Spec == Init /\ [][Next]_vars

-----------------------------------------------------------------------------
InOverlay(b) == b \in made \/ \E k \in Keys : <<b, k>> \in written

\* mapKey and unmapKey: a client key reads back exactly when it was put in
\* that bucket; no other bucket's key, no marker and no foreign object ever
\* stands under it.
KeysDoNotAlias ==
  \A b \in Buckets, k \in Keys : MapKey(b, k) \in physical <=> <<b, k>> \in written

\* backendPrefix and unmap: a listing of a mapped bucket is what S3 would list
\* of the client keys put in it, with any prefix and delimiter; neighbouring
\* buckets whose name begins alike, markers and foreign keys do not show.
ListingIsTheBuckets ==
  \A b \in Buckets, p \in Prefixes, delimited \in BOOLEAN :
    ListPage(b, p, delimited) = List({k \in Keys : <<b, k>> \in written}, p, delimited)

\* BucketExists: a bucket is found exactly when it was created, holds an object
\* or is in the baseline.
ProbeIsExact ==
  \A b \in Buckets : BucketExists(b) <=> InOverlay(b) \/ b \in baseline

Existing == {b \in Buckets : InOverlay(b)} \cup baseline

\* ListBuckets: no foreign key and no other bucket's key is taken for a bucket,
\* and without a mapping root every bucket is listed.
ListedBucketsExist ==
  ListBuckets \subseteq Existing /\ (root = Empty => ListBuckets = Existing)

\* README.md:25 and remote.go:319: ListBuckets is the merged view, the overlay
\* buckets being the first-level prefixes under the mapping root.
BucketListIsExact == ListBuckets = Existing
=============================================================================
