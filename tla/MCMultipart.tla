----------------------------- MODULE MCMultipart -----------------------------
(* Multipart for TLC: two clients, two uploads of one key, an int32 of 8   *)
(* values, pages of any length.                                             *)
EXTENDS Multipart
CONSTANTS a, b, c1, c2

Listed(n, etag) == [n |-> n, etag |-> etag]
\* c1 uploads and completes, c2 lists and interferes: an upload of another part
\* 1, under a number that narrows to it, a Complete of its own, an Abort.
SomeRequests ==
  [c \in Clients |->
     IF c = c1
     THEN {InitiateTask(1), PartTask(1, 1, a), PartTask(1, 2, b),
           CompleteTask(1, <<Listed(1, a), Listed(2, b)>>)}
     ELSE {PartTask(1, 9, b), PartTask(1, 0, a), PartTask(1, 5, a),
           CompleteTask(1, <<Listed(9, b)>>),
           MalformedTask(1), AbortTask(1), ListPartsTask(1), ListUploadsTask}]
=============================================================================
