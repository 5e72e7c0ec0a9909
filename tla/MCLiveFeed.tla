------------------------------ MODULE MCLiveFeed ------------------------------
(* Instances of LiveFeed. *)
EXTENDS LiveFeed

CONSTANTS p1, p2

\* Answers that overtake each other; a log read by two polls at once; and attempts that
\* meet, over a connection that may be lost.
OneOfThree ==
  {[attempts |-> 2, writes |-> 0, faults |-> 2, replies |-> 2, readers |-> {}],
   [attempts |-> 1, writes |-> 2, faults |-> 0, replies |-> 1, readers |-> {p1, p2, "other"}],
   [attempts |-> 2, writes |-> 1, faults |-> 1, replies |-> 1, readers |-> {p1, "other"}]}
==============================================================================
