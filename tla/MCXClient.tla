------------------------------ MODULE MCXClient ------------------------------
(* Constants for model checking XClient. *)
EXTENDS XClient
CONSTANTS c1, c2
MCConfig ==
    {[discovery |-> "registry", user |-> "direct", callers |-> {c1},
      connectTimeout |-> TRUE, clock |-> TRUE],
     [discovery |-> "registry", user |-> "order", callers |-> {c1, c2},
      connectTimeout |-> TRUE, clock |-> FALSE],
     [discovery |-> "multi", user |-> "direct", callers |-> {c1, c2},
      connectTimeout |-> FALSE, clock |-> FALSE],
     [discovery |-> "multi", user |-> "xclient", callers |-> {c1, c2},
      connectTimeout |-> TRUE, clock |-> FALSE]}
MCCalling == [c \in Caller |-> IF c = c1 THEN {"call"} ELSE {"broadcast"}]
MCLists == {{}, {1}, {1, 2}}
=============================================================================
