-------------------------------- MODULE MCKeySync --------------------------------
EXTENDS KeySync
MCActors == {"a", "b", "c"}
MCBatches == {<<"p", "p">>, <<"q", "p">>, <<"p", "q", "r">>}
MCSorts == {"default", "created_desc", "created_asc"}
Cast(x, y, z) == [i \in MCActors |-> IF i = "a" THEN x ELSE IF i = "b" THEN y ELSE z]
Requests == <<"add", "batch", "move", "delete", "upload", "merge", "replace">>
(* Any two requests, a request twice beside the pager, and some of three   *)
MCCasts ==
  {Cast(Requests[ij[1]], Requests[ij[2]], "none") : ij \in {x \in (1..7) \X (1..7) : x[1] <= x[2]}}
  \union {Cast("pager", w, "delete") : w \in {"move", "batch"}}
  \union {Cast("pager", "add", "move"), Cast("replace", "upload", "add")}
================================================================================
