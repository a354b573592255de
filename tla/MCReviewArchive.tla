--------------------------- MODULE MCReviewArchive ---------------------------
(* Small instances of ReviewArchive. *)
EXTENDS ReviewArchive, TLC

\* A confirmation as the form sends it, and one of a hypothesis the report does
\* not have.
MCContents ==
  {[status |-> "CONFIRMED", hypothesis |-> "reported", cause |-> FALSE, version |-> 1],
   [status |-> "CONFIRMED", hypothesis |-> "unknown", cause |-> FALSE, version |-> 1]}

Symmetry == Permutations(Engineer) \cup Permutations(Slot)
=============================================================================
