--------------------------- MODULE MCOutboxProcessor ---------------------------
(* OutboxProcessor on small instances: events are interchangeable, and so  *)
(* are workers.                                                            *)
EXTENDS OutboxProcessor, TLC

Symmetry == Permutations(Event) \cup Permutations(Worker)
=============================================================================
