--------------------------- MODULE MCAdmission ---------------------------
(* Admission on small instances. *)
EXTENDS Admission, TLC

\* Handlers are interchangeable, and no property names one.
Handlers == Permutations(Handler)

=============================================================================
