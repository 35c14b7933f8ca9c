--------------------------- MODULE MCOutboxPoller ---------------------------
(* Two pollers over a small outbox. *)
EXTENDS OutboxPoller
CONSTANTS p1, p2
=============================================================================
