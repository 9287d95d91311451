------------------------------- MODULE Routing -------------------------------
(***************************************************************************)
(* parseS3Request (protocol.go): the S3 operation a request stands for.    *)
(* Of a request only what the routing looks at is kept: the method,        *)
(* whether bucket and key of the path are empty, which query parameters    *)
(* and whether a copy source it has.                                       *)
(***************************************************************************)
EXTENDS Naturals

\* Of the bucket-metadata parameters these stand for all: two the gateway
\* answers, one that belongs to buckets and two that objects have as well.
BucketMetaParams == {"versioning", "object-lock", "policy", "tagging", "acl"}
Params  == BucketMetaParams \cup {"location", "uploads", "uploadId", "partNumber"}
Methods == {"GET", "HEAD", "PUT", "POST", "DELETE"}
Targets == [method : Methods, bucket : BOOLEAN, key : BOOLEAN,
            params : SUBSET Params, copySource : BOOLEAN]

ServiceOp(q) == IF q.method = "GET" THEN "ListBuckets" ELSE "Unknown"

BucketOp(q) ==
  CASE q.method = "PUT"  -> "CreateBucket"
    [] q.method = "HEAD" -> "HeadBucket"
    [] q.method = "GET"  ->
         IF "location" \in q.params THEN "BucketLocation"
         ELSE IF "uploads" \in q.params THEN "ListMultipartUploads"
         ELSE IF q.params \cap BucketMetaParams # {} THEN "BucketMeta"
         ELSE "ListObjectsV2"
    [] OTHER -> "Unknown"

Mutant_ObjectOp(q) ==                    \* looks at the method before uploadId
  CASE q.method = "GET"  -> "GetObject"
    [] q.method = "HEAD" -> "HeadObject"
    [] q.method = "POST" /\ "uploads" \in q.params    -> "CreateMultipartUpload"
    [] q.method = "POST" /\ "uploadId" \in q.params   -> "CompleteMultipartUpload"
    [] q.method = "PUT"  /\ "partNumber" \in q.params -> "UploadPart"
    [] q.method = "PUT"  /\ q.copySource              -> "CopyObject"
    [] q.method = "PUT"  -> "PutObject"
    [] OTHER -> "NotSupported"

ObjectOp(q) ==
  LET has(p) == p \in q.params IN
  CASE q.method = "POST" -> IF has("uploads") THEN "CreateMultipartUpload"
                            ELSE IF has("uploadId") THEN "CompleteMultipartUpload"
                            ELSE "Unknown"
    [] q.method = "PUT"  -> IF has("partNumber") THEN "UploadPart"
                            ELSE IF q.copySource THEN "CopyObject" ELSE "PutObject"
    [] q.method = "GET"  -> IF has("uploadId") THEN "ListParts" ELSE "GetObject"
    [] q.method = "HEAD" -> "HeadObject"
    [] q.method = "DELETE" -> IF has("uploadId") THEN "AbortMultipartUpload"
                              ELSE "NotSupported"

ParseS3Request(q) ==
  IF ~q.bucket THEN ServiceOp(q) ELSE IF ~q.key THEN BucketOp(q) ELSE ObjectOp(q)

\* dispatch's default, and handleBucketMeta's for what it has no answer to.
Refused(q) ==
  \/ ParseS3Request(q) \in {"Unknown", "NotSupported"}
  \/ ParseS3Request(q) = "BucketMeta" /\ {"versioning", "object-lock"} \cap q.params = {}

-----------------------------------------------------------------------------
(* What the S3 API calls these requests.  A row names the operation, the   *)
(* method, whether it addresses a key, the parameters that select it, and  *)
(* whether it has a copy source.  "-" is an operation outside the          *)
(* gateway's list (protocol.go:11-30).                                     *)

Row(name, method, key, params, copy) ==
  [name |-> name, method |-> method, key |-> key, params |-> params, copy |-> copy]

S3Api ==
  {Row("ListBuckets", "GET", FALSE, {}, FALSE),
   Row("CreateBucket", "PUT", FALSE, {}, FALSE),
   Row("HeadBucket", "HEAD", FALSE, {}, FALSE),
   Row("BucketLocation", "GET", FALSE, {"location"}, FALSE),
   Row("ListMultipartUploads", "GET", FALSE, {"uploads"}, FALSE),
   Row("ListObjectsV2", "GET", FALSE, {}, FALSE),
   Row("GetObject", "GET", TRUE, {}, FALSE),
   Row("HeadObject", "HEAD", TRUE, {}, FALSE),
   Row("PutObject", "PUT", TRUE, {}, FALSE),
   Row("CopyObject", "PUT", TRUE, {}, TRUE),
   Row("CreateMultipartUpload", "POST", TRUE, {"uploads"}, FALSE),
   Row("UploadPart", "PUT", TRUE, {"partNumber", "uploadId"}, FALSE),
   Row("CompleteMultipartUpload", "POST", TRUE, {"uploadId"}, FALSE),
   Row("AbortMultipartUpload", "DELETE", TRUE, {"uploadId"}, FALSE),
   Row("ListParts", "GET", TRUE, {"uploadId"}, FALSE),
   Row("-", "PUT", TRUE, {"partNumber", "uploadId"}, TRUE),  \* UploadPartCopy
   Row("-", "DELETE", FALSE, {}, FALSE),
   Row("-", "DELETE", TRUE, {}, FALSE)}
  \cup {Row("BucketMeta", "GET", FALSE, {p}, FALSE) : p \in BucketMetaParams}
  \cup {Row("-", "PUT", FALSE, {p}, FALSE) : p \in BucketMetaParams}
  \cup {Row("-", m, TRUE, {p}, FALSE) : m \in {"GET", "PUT"}, p \in {"tagging", "acl"}}

TargetOf(row) == [method |-> row.method, bucket |-> row.name # "ListBuckets", key |-> row.key,
                  params |-> row.params, copySource |-> row.copy]
S3Target(q) == \E row \in S3Api : TargetOf(row) = q
S3Name(q)   == (CHOOSE row \in S3Api : TargetOf(row) = q).name
=============================================================================
