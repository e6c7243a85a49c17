-------------------------- MODULE MCDocumentIntake --------------------------
(* Small instances of DocumentIntake for TLC. *)
EXTENDS DocumentIntake

CONSTANTS c1, c2, big

\* Three files: two that fit, of one and two bytes, and one above the limit.
Size(c) == CASE c = c1 -> 1 [] c = c2 -> 2 [] OTHER -> 3

=============================================================================
