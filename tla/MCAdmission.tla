---------------------------- MODULE MCAdmission ----------------------------
(* Small instances of Admission. *)
EXTENDS Admission, TLC

Symmetry == Permutations(Task) \cup Permutations(Client)
              \cup Permutations(Key) \cup Permutations(Case)
=============================================================================
