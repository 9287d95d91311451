-------------------------- MODULE MCBucketRequests --------------------------
(* BucketRequests for TLC: two buckets whose names begin alike, keys whose *)
(* segments are empty or named like a bucket, foreign keys that begin like *)
(* the mapping root.                                                       *)
EXTENDS BucketRequests

MCSegments == {"", "gw", "gw2", "b", "b2"}
MCBegins   == {<<s, t>> \in MCSegments \X MCSegments :
                 s = t \/ t = "" \/ <<s, t>> \in {<<"gw2", "gw">>, <<"b2", "b">>}}
Gateway    == {<<"gw">>}
Both       == {Empty, <<"gw">>}
MCKeys     == {<<"b2">>, <<"b", "">>, <<"", "b">>}
MCForeign  == {<<"gw">>, <<"gw2", "b", "b">>}
MCPrefixes == {Empty, <<"b">>, <<"b", "">>, <<"", "">>}
MCRank     == [s \in MCSegments |->
                 CASE s = "" -> 1 [] s = "b" -> 2 [] s = "b2" -> 3
                   [] s = "gw" -> 4 [] s = "gw2" -> 5]
MCCalls    == {[op |-> o, bucket |-> "b"] : o \in {"list", "exists", "create"}}
=============================================================================
