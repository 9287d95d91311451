# A verification development for overlay-s3

overlay-s3 is an S3 gateway over two S3 backends: reads prefer the *overlay*
and fall back to the *baseline*, writes land in the overlay only, listings
merge both. It keeps no data itself, has no locks around objects, and deletes
no object. This directory models it in TLA+: TLC checks the modules on small
instances, TLAPS proves the main facts for every instance.

## 1. The system

| part | code | state it keeps | operations |
| --- | --- | --- | --- |
| signatures, payload readers | `sigv4.go` | per request: hash, chunk position | check the signature, decode or verify the body |
| routing | `protocol.go` | none | method, path and query -> operation |
| request handlers | `handlers.go` | per request: its locals | GET, HEAD, PUT (`If-None-Match: *`, `If-Match`), CopyObject, ListObjectsV2, bucket and multipart calls |
| `Store` | `store.go` | none (the interface between handlers and storage) | Get, Head, Put, ListPage, bucket and multipart calls |
| `overlayStore` | `overlay.go` | two `Store`s and the listing sessions | the `Store` calls, each made of calls to the two backends |
| listing sessions | `overlay.go` | `active`: token number -> two `cursorState`s and an expiry; `nextID` | create (sweeps expired ones), lookup (renews the expiry) |
| `s3Store` | `remote.go` | an S3 client; in overlay mode the physical bucket and prefix | the `Store` calls, as requests to one backend, with client keys mapped to physical ones |
| XML, logging | `s3xml.go`, `logger.go` | none | formats only |
| process | `main.go` | listener, signal context | start, ten-second shutdown |

Every request runs in a goroutine of its own. The parts interact by calls; the
only state requests share inside the gateway is the session table. All object
state is in the backends, so every backend call is a point where another
request, another user of the backend, a failure or a process restart comes in.
The S3 client retries a failed call, so one Put, part or Complete may take
effect more than once, or after the gateway gave it up.

What is hard in it:

- a read is two calls (overlay, then baseline) and a conditional PUT or a copy is
  two reads or a read and a write, with nothing that makes them atomic;
- an error of the overlay must not be taken for a miss;
- a listing is a merge of two paginated listings, whose position lives between
  pages in a session that expires, is swept by other listings and is lost in a
  restart, while its token is a small number in the client's hands;
- a ranged GET resolves the range against a size that may be stale when it
  reads, and a body may break off when status and length are already sent;
- an upload's body passes one of three readers, each of which decides in its own
  way what the end of the body is and which errors reach `putBody`;
- parts and uploads change between the pages that list them and between a
  client's list and its Complete;
- client buckets are key prefixes of one physical bucket.

`PROJECT.json` lists these as hazards, each at its line, with the properties
that would catch it going wrong.

## 2. Modules

```
ObjectHandlers ── MergedStore         the Store promise: one atomic map
      └────────── OverlayObjects      the two layers; implements MergedStore
MergedListing ── OverlayListing       paginated listings: the walk of the merged
                                      view, and the sessions that implement it
ByteRange ─── RangedGet               ranged reads, broken replies
                  │
Routing ── SigV4 ─┼─ HttpObject       uploads and downloads of one object;
ChunkFraming ─────┘                   implements RangedGet
Multipart                             multipart uploads
BucketNamespace ── BucketRequests     key mapping, buckets; the bucket calls
```

Lines join a module to those that extend it or instantiate it. `OverlayObjects`,
`OverlayListing`, `RangedGet`, `HttpObject`, `Multipart` and `BucketRequests` have a
module of constants for TLC, whose name begins with `MC`; these, `BucketNamespace`
and `ChunkFraming` have one of proofs, whose name ends in `Proofs`.

An operator whose name begins with `Mutant_` is a deliberately wrong variant of
the definition after it, used by nothing: put in place of that definition it
must make the property named in `PROJECT.json` fail, which shows that the
property depends on the code being as it is.

### ObjectHandlers, MergedStore, OverlayObjects

`ObjectHandlers` is the control of the object handlers. `task[c]` is the request
client `c` has under way, `stage[c]` the `Store` call its handler has reached:
`ifNone` and `ifMatch` are the two Heads of `handlePutObject`, in its order, `get`
is the read of GET, HEAD and CopyObject, `put` the `Store.Put`. `at[c]` is where a
read is, `got[c]` what it returned. `attempt[c]` and `landed[c]` are the S3
client's attempts of one PutObject: an attempt in flight may land, be
acknowledged after it landed, fail, be retried, or be given up, and a given-up
attempt that has not landed may stay in `strays` and land later. Objects are
values; ETags are equal exactly when values are, and the bucket is part of a key.

`MergedStore` is the abstract specification: one map `view`, a read that takes
the value of its key in one step, a write that replaces it in one step per
attempt. `OverlayObjects` has the two maps `overlay` and `baseline` and the steps
of `overlayStore.Get`/`Head` (`OverlayHit`, `OverlayMiss`, `BaselineAnswers`, and the
two failures) and `Put` (`WriteLands`). Its refinement mapping places a read at
the moment the overlay is asked, so a read waiting for the baseline counts as
returned with the baseline's object: this is right because the baseline never
changes and nothing in the gateway deletes. Changes made to the baseline behind
the gateway's back are therefore outside the model, as they are outside the
program's description.

Every backend read and every attempt may fail at any time, without a bound.
`settled`, `hadKey` and `mustSee` are history variables for the properties.

### MergedListing, OverlayListing

`MergedListing` is the abstract specification of `Store.ListPage` as the handler
uses it: a listing (`owed[c]` is what both backends held when it began) is a walk of
the merged view in key order. A page goes on behind what was shown, holds each key
once, the overlay's object where there is one, and leaves nothing out in front of
its last item; the last page leaves nothing out at all. A listing may be sent back
to its beginning, where its session lapsed (`Ask`), is refused only where the
baseline has nothing, and may fail. A client in `waived` is owed the order of the
walk, but not its completeness or shadowing.

`OverlayListing` is the code. One listing per client. An entry (object or common
prefix) is a number, its rank in key order; a backend answers any legal page: the next entries above its
position, possibly fewer than asked for, possibly marked truncated when they are
the last. `oc[c]` and `bc[c]` are the two `listCursor`s of a running `ListPage`,
`active`, `nextID` and `lapsed` the session table. The steps are those of the code:
`StartPage` is `lookup`, `LoadOverlay` and `LoadBaseline` are one backend call of
`load`, `MergeHead` one turn of the merge loop, `LastPage` and `FullPage` its two
ends, the second with `create` and its sweep. `RefuseListing` is the baseline's
missing bucket. A page may fail, or its reply be lost; a session may lapse; the
process may restart. The peeks are made in the code's order, overlay first, so
the baseline is only fetched where the code fetches it (`BaselinePeeked`).
Hidden entries are those `unmap` drops: the marker `CreateBucket` writes.
The page is counted by `max-keys` as the client gave it, but each backend is asked
for its int32 (`Narrow`, `IntRange` stands for 2^32): for 0, which 2^32 becomes, a
backend answers an empty last page; a negative number it refuses, and the listing
fails (`RefuseSize`). `zeroed` (history) has the clients that asked for such a 0; it
is what `waived` is mapped to, so completeness and shadowing are claimed of all
other clients, order, progress and the final peeks of all.
`seen[c]` is a history variable: what the delivered pages listed since the listing
began, or since a lookup that found no session sent it back to the beginning.
Under the refinement mapping a page appears in `shown` when its reply arrives;
fetching, merging, failing and losing a reply are stutters. The mapping holds up
to a restart (`restarts' = 0`), after which a number may name a session that is
not the listing's own.

### ByteRange, RangedGet

`ByteRange` is `parseByteRange` over a parsed header: each side of the dash is
empty, a number, or text that `strconv.ParseInt` rejects. `AskedPositions` is the
reference: the byte positions the header names. `RangedGet` runs it in
`handleGetObject`: Head, resolve, Get, while other clients overwrite the object.
A backend honours the range or ignores it, in which case `s3Store.Get` slices
(`Sliced`). A body may break off anywhere (`StreamBreaks`): `handleGetObject` then
returns an error after the status and some bytes were sent, and `ServeHTTP`
appends the error document, whose two writes (`writeXML`'s header line, `ErrHead`,
and the document, `ErrDoc`) net/http takes whole, or refuses where they pass the
declared length. The store under it is a single atomic object, which is what
`OverlayObjects` is proved to implement. A backend's own 416 is an error no
mapping knows and becomes a 500.

### Routing, SigV4, HttpObject

`Routing` is the decision table of `parseS3Request`, in the order of its cases, and
next to it `S3Api`, the S3 API's own table of what method, path, query parameters
and copy header make which operation. A row whose name is `-` is an operation
the gateway does not have.

`SigV4` is `verifySigV4` with symbolic signatures: a signature is the secret and
the string it was made of, so two are equal only if those are. What is signed
(`CanonicalRequest`, `StringToSign`) is what the code signs. `BodyReader` is the
middleware's choice: `awsChunkedReader`, `hashVerifyingReader`, or the body as it
is.

`HttpObject` sends an upload through the middleware, the routing and the reader,
one `Read` at a time, into `putBody`; the write to the backend is its last step
(`Store`). The wire is a sequence of tokens: units of data and, when it is
chunked, the header lines and line ends around them, so that a wire can be cut,
lost or broken anywhere; `ending` is `end` where the message ended and `lost` where
the connection did, which net/http reports as `io.EOF` and `io.ErrUnexpectedEOF`.
A `Read` takes any number of units up to the chunk's end. `ReadChunkEnd`
discards the line end behind a chunk, `ReadChunkCut` is the case where it is not
there, `ReadNegativeSize` the panic of a negative chunk size. `meant` and `intact`
are history: the body the client is sending, and whether it arrives as sent.
`ChunkFraming` says what a well-formed chunked body is, by positions on the wire:
its data, counted up to any place, are a beginning of the body (`CarriesBody`), each
chunk has the size its header says as far as the wire goes (`CountsItsChunks`), and
a whole wire has a header behind every chunk until a zero-size one where all data
were sent (`IsWhole`). It mentions no reader and decodes nothing, so that the
properties compare the decoder with something else than itself; the `ASSUME`s of
`HttpObject` say that clients frame this way, and TLC evaluates them on the wires
of the run, hostile sizes and altered bodies among them.
Downloads are `RangedGet`, whose overwrite is here the last step of an upload;
`ImplementsRangedGet` says that downloads see no more than that.

### Multipart

The multipart handlers make one call each, and only to the overlay backend.
`stage`, `attempt`, `landed` and `result` are a call under way: `Send`, `Land` (the
backend serves it), `Return`, `Retry`, `Fail`; a call given up before it was served
may stay in `strays` and be served later. `AwaitsBody` is a call whose request body
is still being read. The backend (external) keeps uploads
with their parts, and objects. A Complete is served only if every part it names
has the ETag it names, in ascending order, which is the S3 API's rule; `Forwarded`
is what handler and `s3Store` make of the client's list, including the narrowing
of a part number to an int32 (`Narrow`) after it was checked as an int.
`ListParts` and `ListMultipartUploads` are the page loops of `s3Store`: a step per
page, of any length, with the marker or the two markers the next page is asked
with. `asked`, `due` and `begun` are history variables.

### BucketNamespace, BucketRequests

A string is the sequence of the segments between its slashes, so joining with a
slash is concatenation, `strings.IndexByte(rest, '/')` is the first segment, and a
trailing slash is an empty last segment. `Begins` says which segment text begins
with which, for prefix listings that stop inside a segment. `physical` is the
content of the physical bucket; the operations are `CreateBucket`, `Put` and
foreign writes outside the mapping root, which is chosen once (`root`). Listings
and probes are operators on the state, checked in every reachable one against
the history of what was put; the pages of a listing are put together there.
Some backends refuse keys with empty segments; the model lets them in, as S3
does.

`BucketRequests` runs the bucket calls while that namespace fills: `ListBuckets`
is the overlay's page loop (`TruncatedPage`, `LastPage`; `token[c]` is the place the
next page begins behind) and then the baseline's list; `BucketExists` asks the
overlay and then the baseline, where a failure of the overlay is an error and one
of the baseline a miss; `CreateBucket` writes the marker. A page may carry no
prefix at all. `BucketExists` is part of `Store` though no HTTP request reaches it:
HEAD of a bucket is answered without a call. A marker that lands late or twice is a step of `BucketNamespace`.
`Rank` is the order in which the backend lists the prefixes.

## 3. Runs

| run | instance | shows |
| --- | --- | --- |
| `objects_onekey` | 2 requests, 1 key, 2 values, 2 attempts, six kinds of request | types, no fallback after the overlay was seen, create-only safety, refinement of `MergedStore` |
| `objects_copy` | 2 requests, 2 keys, 1 value, 1 attempt, copies; no symmetry | no fallback and refinement, where a read and a write are of different keys, and that every request is answered whose client ends its body |
| `listing_one` | 1 listing, 3 entries, marker, absent buckets, page sizes 0-2, one whose int32 is negative and one whose int32 is 0, 1 fault, 1 restart, overlay grows | completeness, order, shadowing and refinement of `MergedListing` until the restart; no empty continuation page, progress of every call and termination across it |
| `listing_two` | 2 listings, 2 entries, page size 1, 2 faults | each listing is the merged view (`ListingIsMergedView`), and the refinement, which has completeness, order and shadowing in it, with a shared session table |
| `http_object` | bodies of up to 3 units; every wire described below; every row of `S3Api`; 4 range headers | what is stored was signed and is whole, lost uploads are not stored, decoding yields a prefix of the body, routing agrees with the S3 API; ranges, their bytes and broken replies; refinement of `RangedGet` |
| `multipart` | 2 clients, 1 key, 2 upload ids, 2 bodies, parts 1 and 2, int32 of 8 values, 2 attempts, 1 stray | objects are made of the parts a client listed; page loops are complete and repeat nothing; every request is answered whose client ends its body |
| `bucket_calls` | no root and root `gw`, buckets `b`, `b2`, three keys, two foreign keys, four prefixes, one call at a time, pages that end at every place | the mapping keeps buckets apart, listings and probes are exact, no phantom bucket is listed; bucket lists are whole and probes true though calls fail and buckets appear meanwhile; every call is answered |

Bounds. Two requests for one key give every race between a pair of handlers,
including a third, given-up write in `strays`; the attempt count of
`objects_onekey` is 2 so that a retry of a landed and of a lost attempt both
occur. A listing of three entries with page size one or two has pages that end
before, at and after a tie, a marker on a page boundary, and up to three
sessions. `MaxFaults` and `MaxRestarts` bound faults, not the code.
`DefaultPage`, which stands for 1000, is larger than any listing. An int32 has 16
values in the listing runs, so the page sizes 8 and 16 stand for 2^31, whose int32
is negative, and 2^32, whose int32 is 0. The uploads of
`http_object` are a three-unit body in one chunk, in two, and plain: whole, cut
off and lost at every token, with a negative or unreadable chunk size, with
altered bodies, and with every way a request can fail the middleware (another
secret, a date outside the skew on either side, a request or hash changed after
signing, a header that is not signed or not there). Three units give chunks that
a `Read` takes partly, whole, and at their end; the range headers include a
suffix longer than the object and an end past it. In `multipart` an int32 of 8
values makes number 9 narrow to 1, and 5 to a negative number; c1 uploads and
completes, c2 interferes with an upload of its own part, a Complete, an Abort and
the listings. In `bucket_calls` one call suffices, because calls share nothing
but the namespace, which other requests change at any time; its keys have empty
segments and segments named like a bucket, and its foreign keys are the mapping
root itself and one that begins with its text. Symmetry is used on
clients only, and not in the runs that check liveness. Deadlock checking is off
for listings, whose clients stop when their listing has ended.

Five runs show where the code departs from what it, or its documentation, says:

- `listing_restart`: session numbers start again at 1 after a restart, so an old
  token can resume another listing's session and entries are skipped. The run has
  no faults, so a client that is resumed wrongly was never sent back before, and
  `seen` is all it got. A second listing is not even needed where page sizes
  change: the only one starts over after the restart with a larger page, loses the
  reply, and its old token now names the session behind that page;
- `ranged_ignored`: with a backend that ignores ranges and an object that shrank
  between Head and Get, more bytes are declared than sent;
- `chunks_cut`: a chunked body that ends before its zero-size chunk is taken for
  complete and stored. A connection that is lost is not enough for this
  (`LostUploadsAreNotStored`): the message must end where it does;
- `routing_subresource`: operations the gateway does not have are taken for those
  of the bare key or bucket, PutObjectTagging for PutObject;
- `buckets_unlisted`: with a mapping prefix, `ListBuckets` asks the backend for
  the prefix without its slash and never finds an overlay bucket. Without a
  prefix it works (`ListedBucketsExist`, `BucketListsAreWhole`).

Three more departures are in the models and have no run of their own:

- `max-keys` may be any int that is not negative (`handlers.go:200-206`), and
  `remote.go:268` asks the backends for its int32: `max-keys=4294967296` is asked as
  0, and the listing ends with entries left out, or shows baseline objects that the
  overlay shadows, where `README.md:25` says "merged view of both stores, overlay keys
  win". Add 16 to the `PageSizes` of `listing_two` and `ListingIsMergedView` fails;
- part numbers are narrowed likewise (`handlers.go:468` and `497`): a part 2^32+1
  replaces part 1, and a Complete that lists it is accepted as one of part 1;
- `README.md:179` and `sigv4.go:205-206` say that chunked payload signing is not
  supported. The code accepts and decodes it (`sigv4.go:52`, `270`), its tests want it
  to (`server_test.go:82`, `minio_test.go:26`), and so does `VerifySigV4`: the
  documentation is out of date.

Where the code promises nothing, nothing is claimed: two create-only PUTs of a
key neither sees may both succeed, an `If-Match` PUT may overwrite a newer object
written between its Head and its Put, a copy may be of a replaced version, a
listing whose session lapsed starts over and shows entries twice, a repeated
Complete that had taken effect is answered with an error, and a probe whose
baseline call failed denies a bucket of the baseline.

## 4. Fairness

`OverlayObjects`, `Multipart`, `BucketRequests`: weak fairness of `Serve(c)`, for each
request: a handler goes on, and a backend call returns or fails. The latter is an
assumption on the environment, since neither the server nor the S3 client sets a
deadline for it: backends answer, or their connections are lost. Clients need not
send requests, and given-up calls need not arrive. Nor need a client send the rest
of a body, for which `main.go` sets no deadline either: while `AwaitsBody(c)`, the
step that ends the body, or finds it broken, is not fair, and `RequestsAreAnswered`
says that a request leads to its answer or to waiting for its own client's body,
and from the end of the body on to its answer. The body of a copy comes from a
backend and is fair. A request is answered when its handler has decided the
answer; that a client reads it is not claimed. That a page loop ends needs
no more, since each page begins behind the one before and the backend has
finitely many places. `OverlayListing`: weak fairness of the running `ListPage`,
and of a client that has begun a listing asking for its next page; writers,
faults, expiry and restarts are never obliged to happen. `RangedGet` and
`HttpObject` have no fairness: a client may stop sending, and the server sets no
deadline for a body.

## 5. Proofs

Each proof module states its inductive invariant, which was checked with TLC
before it was proved. All are for any sets of clients and any data; the
assumptions on constants are the named `ASSUME`s of the modules.

`OverlayObjectsProofs` (assuming `None` is no value, at least one attempt, and
well-formed requests):

- `TypeCorrect`: the type invariant.
- `SettledKeysStaySettled`. The property is not inductive: it needs that a settled
  key has an overlay object (which no step removes), that `mustSee` implies
  settled, and that a read that has found nothing was not of such a key.
- `CreateOnlyIsSafe`: a create-only request whose key was visible carries a
  visible key through its Head, because the view only grows.
- `OverlayRefinesMerged`: the initial states map to initial states and every step
  to a step of `MergedStore` or a stutter, using the type invariant and that the
  baseline is constant.

`OverlayListingProofs`: `ListingTypeCorrect` and `ContinuationsNotEmpty` hold always,
also across restarts; the latter from `LeftInv`, that a saved session, and a page
resumed from one until it shows something, has an entry left.
`ListingsAreComplete`, `PagesAreOrdered` and `OverlayEntriesShadow` are the properties of
the runs, which speak of the time until the gateway is replaced; after that the
first is false (`listing_restart`). The first and the third speak of clients that
asked for no page size whose int32 is 0 (`zeroed`); for others they are false, and
order remains. `SmallPagesListTheMergedView` draws the
conclusion for page sizes below half of `IntRange`, where `zeroed` stays empty and no
such exception is left. Their invariant (`ListInv`) says of each client, of
its running cursors and of the session its token names, that they continue what
it was shown (`Continues`): what was shown lies behind both cursors, for every
client (`Stands`); and for clients not in `zeroed`, every entry there when the listing
began was shown or is still ahead of its backend's cursor (`Covers`), and what the
overlay had is ahead of its own cursor whenever it is ahead of the baseline's, so
the baseline never comes first (`Wins`). `TokensDiffer` keeps the sessions of
two clients apart. `ListingsAreMerged` is the refinement of `MergedListing`, from the
same invariant: what is shown is in order and lies behind both cursors, so the page
under way follows it (`PageIsBehind`), and what is owed and not shown is ahead of
one of the cursors, behind which the whole page lies (`PageIsMerged`).
`PagesProgress` is the part of termination that needs no fairness: what a cursor
has fetched plus twice what it may yet fetch (an entry is fetched, then merged)
becomes less with every step of a call (`WorkLeft`), because a page that `load`
reads, even one whose keys are all hidden, moves the cursor on or ends it.

`RangedGetProofs`: `ParseByteRangeCorrect` is about the algorithm alone, for every
header and size; `ResolvedRangeCorrect` and `RangedBytesCorrect` carry it to the
GET, through the invariant that a resolved range belongs to the size of the
version the Head saw. `RangedBytesCorrect` also says that a partial reply has all of
its range, unless the version that was read ends before it.
`HonouredRangesAreExact` is the other side of `ranged_ignored`: only the slice that
`s3Store.Get` cuts out of a whole answer may declare what it does not carry
(`SliceInv`), so that with backends that honour ranges no reply does.
`FailedReadsDetectable`: a reply that broke off falls short of
its declared length, except where the error document fits into what is missing
exactly. `RangedTypeCorrect` is the type invariant.

`ChunkFramingProofs` is the arithmetic of framings: what a token or a run of tokens
adds to the data counted so far, and that reading on extends a beginning of the
body to a longer one (`RunExtendsPrefix`).

`HttpObjectProofs` assumes of the requests that arrive that they are well formed
(`SentAssumption`), that whoever has the secret signs the hash of the body it means
(`HonestAssumption`), that a client that chunks a body does so as `ChunkFraming` says
(`FramingAssumption`), that what arrives as it was sent is a whole PutObject
(`IntactAssumption`), and that each body is a version of `RangedGet`
(`BodiesAssumption`). Wires may still end, be lost or hold anything else between
the data.

- `UploadTypeCorrect`, `LostUploadsCorrect`, `StoredSignedCorrect`: from an invariant on
  what each phase of an upload knows of the request it serves.
- `RoutingIsCorrect`: the order of `parseS3Request`'s cases gives, for every row of
  `S3Api`, that row's operation. It holds of the tables alone, in every state.
- `DecodingCorrect`: what was collected is the first `DataBefore(wire, pos)` units of
  the body, and between two Reads in a chunk the rest of it is next on the wire.
  The property alone is not inductive: a Read in the middle of a chunk needs to
  know that what follows is this chunk's data.
- `IntactUploadsCorrect`: with a whole wire the reader is always in front of a header
  that follows a chunk, or within one, so that none of the failing cases, nor a
  premature end, is reached before the zero-size chunk, where all data have been
  read.
- `HttpRefinesRangedGet`: the uploads are the one-step overwrites of `RangedGet`; what a
  reader made of any body is a version by `DecodingCorrect`'s invariant.
  `DownloadsCorrect` is its use: the theorems of `RangedGetProofs` hold while anything
  is uploaded.

`MultipartProofs`: `MultipartTypeCorrect`; `CompletedObjectsCorrect`, since a Complete
that is served has just had each part's ETag compared with the one it names;
`ListingsCorrect`, from an invariant on a page loop between two pages: its rows are
those up to its marker, and every row that was there all along is among them or
behind the marker.

`BucketNamespaceProofs`: `UnmapInvertsMap` for every mapping root, bucket and
key, from a lemma on what is left of a path below the root; `KeysNeverAlias`
follows by showing that markers and foreign keys are never the image of a key.
`ProbesAreExact` and `ListsNameBuckets` rest on `PhysicalInv`, that the physical
bucket holds what was made and written and else only what lies beside the root,
and on a lemma that a path begins with the prefix of its own bucket only.
`ListingsAreExact` is that mapping a key to its place commutes with what a listing
does: a path under a bucket's listing prefix begins like the client's prefix
exactly if the key does (`PrefixBelow`), folds at the delimiter where the key folds
(`FoundBelow`, `FoldBelow`), and comes back as the key's row (`RowIsAKey`), while the
marker of the bucket, which no key maps to, is dropped.

`BucketRequestsProofs`: `CallTypeCorrect`, `BucketListsCorrect`, `ProbesCorrect`, with
`PhysicalInv` and, per call, that a bucket it owes is collected or still behind
the token; `RowNames` ties the names on a page to the rows it covers.
`CallsKeepTheNamespace`: a system of calls is one of `BucketNamespace`, so the theorems
about it hold while calls are served (`NamespaceUnderCalls`).

Only model-checked: liveness (`RequestsAreAnswered` in both modules that have it,
`ListingsEnd`, `BucketCallsAreAnswered`), which is out of the prover's reach; of
`ListingsEnd` the variant is proved (`PagesProgress`). Every
other property of the passing runs is a theorem. That the operators of `SigV4` and
`ByteRange` are what the Go code computes is by reading, not by proof.

## 6. Not modelled

- Formats: XML documents (but for the two writes of an error document), headers
  other than those named above, logging, the error code of a refusal. That
  `handlers.go` answers `NoSuchUpload` and `InvalidPart` for errors `s3Store` never
  returns is only a difference of the code; `Multipart` has one error answer.
- Cryptography and encoding: hashing, the key derivation, percent-encoding of
  paths and queries, repeated query parameters, content-length as a signed
  header, and the credential scope, of which the code takes whatever the client
  names.
- Configuration and wiring: flags, `EnsureBucket`, the S3 client and its transport.
  The ten-second shutdown is not modelled.
- Object contents beyond what properties tell apart, metadata, content types,
  permissions.
- Changes to the baseline behind the gateway, and backends that break the S3
  API: a truncated page without a token would make `listCursor.load` start over.
- What of a later PUT a listing shows: an entry written between two pages may be
  missing, or shown with the baseline's object, and nothing is claimed of it.
- How long a client takes to send a body or to read an answer.
- The bound on live listing sessions: there is none, and the code promises none.
- Rows of `ListMultipartUploads` that `unmap` drops (uploads of other programs in
  the physical bucket).

## 7. Plan

Done: every component of section 1 that keeps state or has control of its own,
the three refinements, and a theorem for every property of the passing runs but
liveness. Left: uploads of other programs in `Multipart`'s list of uploads, which
`unmap` drops; an abstract specification of the multipart calls, an object that
appears in one step, that `Multipart` implements.
