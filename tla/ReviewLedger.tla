---------------------------- MODULE ReviewLedger ----------------------------
(***************************************************************************)
(* What reviewing and archiving promise about one task, with no word about *)
(* transactions, pages or the network: a review says something definite    *)
(* about the report, reviews are appended and never changed, a key is      *)
(* recorded once, and an archive entry is of a revision that exists.  The  *)
(* revision of a review is its position.                                   *)
(***************************************************************************)
EXTENDS Naturals, Sequences

CONSTANTS Engineer, Key

VARIABLES reviews,    \* rows of ai_engineer_review of the task, by revision
          archives    \* rows of ai_casebook_archive of the task

rows == <<reviews, archives>>

\* The parts of a review that decide whether it is accepted: is the hypothesis
\* it names one of the report, is there a cause, which report does it speak of.
Content == [status : {"CONFIRMED", "CORRECTED", "INCONCLUSIVE"},
            hypothesis : {"none", "reported", "unknown"},
            cause : BOOLEAN,
            version : {1, 2}]

\* A task has one report, which is its version 1 and never changes.
ReportVersion == 1

\* Reviews of this report that confirm one of its hypotheses, or correct it
\* with a cause, or leave the matter open.
Definite ==
  {c \in Content :
     /\ c.version = ReportVersion
     /\ c.hypothesis \in {"none", "reported"}
     /\ c.status = "CONFIRMED" => c.hypothesis = "reported"
     /\ c.status = "CORRECTED" => c.cause}

Row     == [key : Key, by : Engineer, content : Content]
Archive == [key : Key, revision : Nat \ {0}]

Recorded(k) == {i \in DOMAIN reviews : reviews[i].key = k}
Archived(k) == {a \in archives : a.key = k}

Init == reviews = <<>> /\ archives = {}

Record(k, e, c) ==
  /\ Recorded(k) = {}
  /\ reviews' = Append(reviews, [key |-> k, by |-> e, content |-> c])
  /\ UNCHANGED archives

Enter(k, i) ==
  /\ Archived(k) = {}
  /\ i \in DOMAIN reviews
  /\ archives' = archives \cup {[key |-> k, revision |-> i]}
  /\ UNCHANGED reviews

\* A step that is not about a key leaves it as it is; saying so first keeps the
\* quantifiers from being tried on every other step.
Next ==
  \E k \in Key :
    \/ /\ Recorded(k)' # Recorded(k)
       /\ \E e \in Engineer, c \in Definite : Record(k, e, c)
    \/ /\ Archived(k)' # Archived(k)
       /\ \E i \in DOMAIN reviews : Enter(k, i)

Spec == Init /\ [][Next]_rows
=============================================================================
