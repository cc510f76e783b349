-------------------------- MODULE MCOrderExecution --------------------------
(***************************************************************************)
(* Model checking instances of OrderExecution.  No action reads or writes  *)
(* two orders, so one order has every behaviour of the handlers.  A        *)
(* partial fill needs Size = 2; with Size = 3 a stale row can show a       *)
(* partial fill older than the one already booked.                         *)
(***************************************************************************)
EXTENDS OrderExecution

=============================================================================
