-------------------------- MODULE MCOverlayObjects --------------------------
(* OverlayObjects for TLC: two concurrent requests.                        *)
EXTENDS OverlayObjects, TLC
CONSTANTS k1, k2, v1, v2, c1, c2

\* One key: reads, plain, create-only and If-Match PUTs race for it.
OneKeyRequests ==
  {ReadTask(k1), PutTask(k1, v1, FALSE, None), PutTask(k1, v2, FALSE, None),
   PutTask(k1, v1, TRUE, None), PutTask(k1, v2, FALSE, v1),
   PutTask(k1, v2, TRUE, v1)}

\* Two keys: a copy races with a write of its source, and with reads and
\* conditional PUTs of its target.
CopyRequests == {ReadTask(k2), CopyTask(k1, k2), PutTask(k1, v1, FALSE, None),
                 PutTask(k2, v1, TRUE, v1)}

ClientSymmetry == Permutations(Clients)
=============================================================================
