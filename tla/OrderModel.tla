----------------------------- MODULE OrderModel -----------------------------
(***************************************************************************)
(* The order record of order_models.py: its states, the transition table,  *)
(* and the two methods that change it (Order.transition, Order.record_fill *)
(* together with the part of refresh_order that decides how a venue row    *)
(* changes it).  Pure operators: they return the new record.               *)
(*                                                                         *)
(* Data kept: the state, the executed quantity, the sum of the recorded    *)
(* fill events, whether an average price is known, the timeout flag and    *)
(* whether the venue's order id is known.  Prices, fees, timestamps, the   *)
(* history strings and last_error only describe; no branch reads them.     *)
(***************************************************************************)
EXTENDS Integers

CONSTANT Size    \* contracts requested; executed quantities are 0..Size

ASSUME SizeAssumption == Size \in Nat \ {0}

OrderState == {"CREATED", "SUBMITTING", "SUBMITTED", "PARTIAL", "FILLED",
               "CANCELING", "CANCELED", "REJECTED", "TIMEOUT", "UNKNOWN",
               "EXPIRED"}

\* The table _ALLOWED.
Allowed(s) ==
    CASE s = "CREATED"    -> {"SUBMITTING", "REJECTED"}
      [] s = "SUBMITTING" -> {"SUBMITTED", "PARTIAL", "FILLED", "REJECTED",
                              "TIMEOUT", "UNKNOWN"}
      [] s = "SUBMITTED"  -> {"PARTIAL", "FILLED", "CANCELING", "CANCELED",
                              "REJECTED", "EXPIRED", "UNKNOWN"}
      [] s = "PARTIAL"    -> {"FILLED", "CANCELING", "CANCELED", "UNKNOWN"}
      [] s = "CANCELING"  -> {"CANCELED", "FILLED", "PARTIAL", "UNKNOWN"}
      [] s = "TIMEOUT"    -> {"SUBMITTED", "PARTIAL", "FILLED", "CANCELED",
                              "REJECTED", "UNKNOWN"}
      [] s = "UNKNOWN"    -> {"SUBMITTED", "PARTIAL", "FILLED", "CANCELED",
                              "REJECTED", "EXPIRED"}
      [] OTHER            -> {}

Terminal == {"FILLED", "CANCELED", "REJECTED", "EXPIRED"}

\* Mutant: silence downgrades every state.
SettledNever == {}

\* The states refresh_order refuses to downgrade when it learned nothing.
Settled == {"FILLED", "CANCELED", "REJECTED"}

OrderRecord == [state: OrderState, filled: 0..Size, booked: 0..Size,
                avg: BOOLEAN, timeout: BOOLEAN, id: BOOLEAN]

NewOrder == [state |-> "CREATED", filled |-> 0, booked |-> 0,
             avg |-> FALSE, timeout |-> FALSE, id |-> FALSE]

-----------------------------------------------------------------------------
\* A forbidden move does not raise: the record falls back to UNKNOWN.
Permitted(cur, new) ==
    new = cur \/ new \in Allowed(cur) \/ cur \in {"UNKNOWN", "TIMEOUT"}

Transition(r, new) ==
    [r EXCEPT !.state   = IF Permitted(r.state, new) THEN new ELSE "UNKNOWN",
              !.timeout = @ \/ (new = "TIMEOUT" /\ new # r.state
                                /\ Permitted(r.state, new))]

RecordFill(r, qty) ==
    IF qty <= 0 THEN r
    ELSE [r EXCEPT !.filled = @ + qty, !.booked = @ + qty, !.avg = TRUE]

-----------------------------------------------------------------------------
(***************************************************************************)
(* What the venue answers to a status query.  "data" carries a row: `own`  *)
(* says whether it is this order's row, `ids` whether it names the order,  *)
(* `st` the venue's state word, `filled` its accumulated quantity and      *)
(* `priced` whether it has an average price.                               *)
(***************************************************************************)
NoRow == [own |-> FALSE, ids |-> FALSE, st |-> "none", filled |-> 0,
          priced |-> FALSE]

Silence(kind) == [kind |-> kind, row |-> NoRow]

\* BLOFIN_STATE_MAP: a state word that is not in the map means UNKNOWN.
MapBlofinState(st) ==
    CASE st = "live"             -> "SUBMITTED"
      [] st = "partially_filled" -> "PARTIAL"
      [] st = "filled"           -> "FILLED"
      [] st = "canceled"         -> "CANCELED"
      [] st = "rejected"         -> "REJECTED"
      [] st = "expired"          -> "EXPIRED"
      [] OTHER                   -> "UNKNOWN"

\* Mutant: rows[0] is taken blindly.
MatchFirstRow(r, row) == TRUE

\* A row is used only if its ids match; a row without ids only if the query
\* went by the venue's own order id.
MatchOrderRow(r, row) == row.own /\ (row.ids \/ r.id)

\* Mutant: the quantity is copied from the row without looking at the
\* direction of the change.
ApplyRowBlindly(r, row) == [r EXCEPT !.filled = row.filled,
                                     !.booked = row.filled,
                                     !.avg = @ \/ row.priced]

\* Mutant: the accumulated quantity is booked as if it were the increment.
ApplyRowTwice(r, row) ==
    IF row.priced THEN RecordFill(r, row.filled) ELSE r

\* The quantity part of refresh_order: the increment is booked only when it
\* is positive and has a price; a smaller quantity is ignored.
ApplyRow(r, row) ==
    LET delta == row.filled - r.filled
    IN  IF delta > 0
        THEN IF row.priced THEN RecordFill(r, delta) ELSE r
        ELSE IF delta = 0 /\ row.priced THEN [r EXCEPT !.avg = TRUE] ELSE r

Refreshed(r, a) ==
    CASE a.kind = "timeout" ->
             IF r.state \in Settled THEN r ELSE Transition(r, "TIMEOUT")
      [] a.kind = "error" -> r
      [] a.kind = "empty" \/ (a.kind = "data" /\ ~MatchOrderRow(r, a.row)) ->
             IF r.state \in Settled THEN r ELSE Transition(r, "UNKNOWN")
      [] OTHER ->
             Transition(ApplyRow([r EXCEPT !.id = @ \/ a.row.ids], a.row),
                        MapBlofinState(a.row.st))

=============================================================================
