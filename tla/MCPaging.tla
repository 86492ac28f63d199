------------------------------- MODULE MCPaging -------------------------------
(***************************************************************************)
(* Instances of Paging for TLC.                                            *)
(***************************************************************************)
EXTENDS Paging, TLC

\* The second message leaves room for no other one, and the last one does not fit a page.
Sizes == [m \in Msgs |-> IF m = 2 THEN 2 ELSE IF m = N THEN 3 ELSE 1]

Env(default, max, offset, bytes) ==
  ("LIST_DEFAULT_LIMIT" :> default) @@ ("LIST_MAX_LIMIT" :> max) @@ ("LIST_MAX_OFFSET" :> offset)
  @@ ("LIST_MAX_RESPONSE_BYTES" :> bytes)

\* Small bounds; no cap on anything; no default under a cap; a default beyond the safe integers;
\* and what is refused at start-up.
MCEnvironments ==
  {Env(2, 2, 2, 3), Env(-1, -1, -1, -1), Env(-1, 2, 2, 3), Env(11, -1, -1, 3), Env(3, 2, 2, 3), Env(2, 0, 2, 3),
   Env(2, 2, Malformed, 3)}

Request(limit, offset, skip) == [limit |-> limit, offset |-> offset, skip |-> skip]

\* The whole box by default, one at a time from the second on, a page of two; an offset and a
\* skip that agree, or do not; values out of bounds or of another type.
Asked ==
  {Request(None, None, None),
   Request(Whole(1), None, Whole(1)),
   Request(Whole(2), Whole(0), Whole(0)),
   Request(None, Whole(1), Whole(2)),
   Request(Whole(0), None, None),
   Request(Whole(3), None, None),
   Request([whole |-> FALSE, n |-> 1], None, None)}
=============================================================================
