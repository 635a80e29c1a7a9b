--------------------------- MODULE MCIngestion ---------------------------
(* Ingestion on small instances. *)
EXTENDS Ingestion, TLC

CONSTANTS e1, e2, e3, e4, e5, bad

\* Batches that share an event, and two that overshoot the storage quota together.
Batches == {<<e1, e2>>, <<e3, e4>>, <<e2, bad, e5>>}

\* Rows that take up to twice their event's share of the body.
RowSizes == [e \in Event |-> IF e = e1 THEN 1 ELSE 2]

\* A batch that carries the same event twice.
Twins == {<<e1, e1>>}

\* Handlers are interchangeable, and no property names one.
Handlers == Permutations(Handler)

=============================================================================
