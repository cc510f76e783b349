--------------------------- MODULE OrderExecution ---------------------------
(***************************************************************************)
(* blofin_executor.py: place_order, _wait_fill, refresh_order and          *)
(* cancel_order of BloFinExecutor against an exchange that is slow,        *)
(* unreachable or wrong.  Each order is driven by the one thread that      *)
(* placed it; `pc` is where that thread stands between two HTTP calls.     *)
(*                                                                         *)
(* The exchange is external.  It keeps an order `ex` with the executed     *)
(* quantity `exFilled`; `post` and `cancel` are the two requests that      *)
(* change it.  A request that timed out may still be on the wire ("sent")  *)
(* and reach the exchange later, or be lost.                               *)
(***************************************************************************)
EXTENDS OrderModel

CONSTANTS
    Orders,   \* client order ids
    Faults    \* what the exchange is allowed to do wrong

(***************************************************************************)
(* "stale"     a status row may be older than what was already read        *)
(* "priceless" a row may carry an executed quantity without a price        *)
(* "async"     an accepted cancel may leave the order working for a while  *)
(* "gateway"   an error reply may be sent for a request that was carried   *)
(*             out (a 5xx of a gateway in front of the exchange)           *)
(* "word"      a row may carry a state word the executor does not know     *)
(***************************************************************************)
FaultKinds == {"stale", "priceless", "async", "gateway", "word"}

ASSUME FaultsAssumption == Faults \subseteq FaultKinds

VARIABLES order, pc, ex, exFilled, post, cancel

local == <<order, pc>>
venue == <<ex, exFilled>>
wire  == <<post, cancel>>
vars  == <<order, pc, ex, exFilled, post, cancel>>

PC == {"new", "leverage", "posting", "querying", "polling", "canceling",
       "confirming", "idle"}
ExState == {"none", "live", "partially_filled", "filled", "canceled",
            "rejected", "expired"}
Wire == {"none", "sent", "ok", "refused"}

Working(o) == ex[o] \in {"live", "partially_filled"}

TypeOK ==
    /\ order \in [Orders -> OrderRecord]
    /\ pc \in [Orders -> PC]
    /\ ex \in [Orders -> ExState]
    /\ exFilled \in [Orders -> 0..Size]
    /\ post \in [Orders -> Wire]
    /\ cancel \in [Orders -> Wire]

Init ==
    /\ order = [o \in Orders |-> NewOrder]
    /\ pc = [o \in Orders |-> "new"]
    /\ ex = [o \in Orders |-> "none"]
    /\ exFilled = [o \in Orders |-> 0]
    /\ post = [o \in Orders |-> "none"]
    /\ cancel = [o \in Orders |-> "none"]

Goto(o, from, to) == pc[o] = from /\ pc' = [pc EXCEPT ![o] = to]
Become(o, r) == order' = [order EXCEPT ![o] = r]
Move(o, s) == Become(o, Transition(order[o], s))

-----------------------------------------------------------------------------
(* place_order *)

\* Unknown instrument, failed validation or too much leverage: nothing was
\* sent.
RejectLocally(o) ==
    /\ Goto(o, "new", "idle")
    /\ Move(o, "REJECTED")
    /\ UNCHANGED <<venue, wire>>

PassValidation(o) ==
    /\ Goto(o, "new", "leverage")
    /\ UNCHANGED <<order, venue, wire>>

\* REQUIRE_LEVERAGE_SET: an order whose leverage could not be set is not
\* sent.  The timeout flag remembers that the leverage call timed out.
LeverageFails(o) ==
    /\ Goto(o, "leverage", "idle")
    /\ \E late \in BOOLEAN :
          Become(o, [Transition(order[o], "REJECTED")
                        EXCEPT !.timeout = late])
    /\ UNCHANGED <<venue, wire>>

Submit(o) ==
    /\ Goto(o, "leverage", "posting")
    /\ Move(o, "SUBMITTING")
    /\ post' = [post EXCEPT ![o] = "sent"]
    /\ UNCHANGED <<venue, cancel>>

\* Mutant: a timed out submit is written off as rejected.
PostTimesOutAsReject(o) ==
    /\ Goto(o, "posting", "idle")
    /\ Move(o, "REJECTED")
    /\ \E left \in {"none", post[o]} :
          /\ left \in {"none", "sent"}
          /\ post' = [post EXCEPT ![o] = left]
    /\ UNCHANGED <<venue, cancel>>

\* No reply in time: the request may have been lost, be still under way, or
\* have been carried out.  The order is asked for once by client order id.
PostTimesOut(o) ==
    /\ Goto(o, "posting", "querying")
    /\ Move(o, "TIMEOUT")
    /\ \E left \in {"none", post[o]} :
          /\ left \in {"none", "sent"}
          /\ post' = [post EXCEPT ![o] = left]
    /\ UNCHANGED <<venue, cancel>>

PostRefused(o) ==
    /\ post[o] = "refused"
    /\ Goto(o, "posting", "idle")
    /\ Move(o, "REJECTED")
    /\ post' = [post EXCEPT ![o] = "none"]
    /\ UNCHANGED <<venue, cancel>>

\* The reply may lack the order id; wait_fill chooses whether to poll.
PostAccepted(o) ==
    /\ post[o] = "ok"
    /\ \E next \in {"polling", "idle"} : Goto(o, "posting", next)
    /\ \E named \in BOOLEAN :
          Become(o, [Transition(order[o], "SUBMITTED") EXCEPT !.id = named])
    /\ post' = [post EXCEPT ![o] = "none"]
    /\ UNCHANGED <<venue, cancel>>

-----------------------------------------------------------------------------
(* refresh_order *)

\* The word and quantity a row may show: the present ones, a word outside
\* the executor's map or, from a stale replica, earlier ones.
Shown(o) ==
    {<<ex[o], exFilled[o]>>} \cup
    (IF "word" \in Faults THEN {<<"unmapped", exFilled[o]>>} ELSE {}) \cup
    (IF "stale" \in Faults
     THEN {<<"live", 0>>} \cup
          {<<"partially_filled", f>> : f \in 1..exFilled[o]}
     ELSE {})

OwnRows(o) ==
    IF ex[o] = "none" THEN {}
    ELSE {[own |-> TRUE, ids |-> named, st |-> s[1], filled |-> s[2],
           priced |-> p] :
             named \in BOOLEAN, s \in Shown(o), p \in BOOLEAN}

\* With no quantity there is no price; without the fault there is one as
\* soon as there is a quantity.
Plausible(row) ==
    /\ row.priced => row.filled > 0
    /\ row.filled > 0 /\ ~row.priced => "priceless" \in Faults

ForeignRow == [own |-> FALSE, ids |-> TRUE, st |-> "filled",
               filled |-> Size, priced |-> TRUE]

\* order-detail, then orders-history, then the pending list: the first one
\* with data answers, otherwise the failure of order-detail stands.
Answers(o) ==
    {Silence(k) : k \in {"timeout", "error", "empty"}} \cup
    {[kind |-> "data", row |-> row] :
        row \in {w \in OwnRows(o) : Plausible(w)} \cup {ForeignRow}}

Refresh(o) == \E a \in Answers(o) : Become(o, Refreshed(order[o], a))

\* The single refresh after a timed out submit or a refused cancel.
Query(o) ==
    /\ Goto(o, "querying", "idle")
    /\ Refresh(o)
    /\ UNCHANGED <<venue, wire>>

\* _wait_fill: refresh until the order is terminal ...
Poll(o) ==
    /\ pc[o] = "polling"
    /\ order[o].state \notin Terminal
    /\ Refresh(o)
    /\ UNCHANGED <<pc, venue, wire>>

\* Mutant: the wait has no deadline.
WaitEndsOnlyTerminal(o) ==
    /\ Goto(o, "polling", "idle")
    /\ order[o].state \in Terminal
    /\ UNCHANGED <<order, venue, wire>>

\* ... or the deadline has passed.
WaitEnds(o) ==
    /\ Goto(o, "polling", "idle")
    /\ UNCHANGED <<order, venue, wire>>

\* Restart recovery, step 6: it refreshes the orders that carry the timeout
\* flag (its comparison of str(order.state) with plain names never holds).
RecoveryRefresh(o) ==
    /\ pc[o] = "idle"
    /\ order[o].timeout
    /\ Refresh(o)
    /\ UNCHANGED <<pc, venue, wire>>

-----------------------------------------------------------------------------
(* cancel_order *)

Cancel(o) ==
    /\ order[o].state \notin Terminal
    /\ Goto(o, "idle", "canceling")
    /\ Move(o, "CANCELING")
    /\ cancel' = [cancel EXCEPT ![o] = "sent"]
    /\ UNCHANGED <<venue, post>>

CancelTimesOut(o) ==
    /\ Goto(o, "canceling", "idle")
    /\ Move(o, "TIMEOUT")
    /\ \E left \in {"none", cancel[o]} :
          /\ left \in {"none", "sent"}
          /\ cancel' = [cancel EXCEPT ![o] = left]
    /\ UNCHANGED <<venue, post>>

\* Mutant: a refused cancel is booked like an accepted one.
CancelRefusedAsDone(o) ==
    /\ cancel[o] = "refused"
    /\ Goto(o, "canceling", "confirming")
    /\ cancel' = [cancel EXCEPT ![o] = "none"]
    /\ UNCHANGED <<order, venue, post>>

CancelRefused(o) ==
    /\ cancel[o] = "refused"
    /\ Goto(o, "canceling", "querying")
    /\ cancel' = [cancel EXCEPT ![o] = "none"]
    /\ UNCHANGED <<order, venue, post>>

CancelAccepted(o) ==
    /\ cancel[o] = "ok"
    /\ Goto(o, "canceling", "confirming")
    /\ cancel' = [cancel EXCEPT ![o] = "none"]
    /\ UNCHANGED <<order, venue, post>>

\* Whatever the refresh after an accepted cancel says, an order it did not
\* leave terminal is recorded as CANCELED.
ConfirmCancel(o) ==
    /\ Goto(o, "confirming", "idle")
    /\ \E a \in Answers(o) :
          LET r == Refreshed(order[o], a)
          IN  Become(o, IF r.state \in Terminal THEN r
                        ELSE Transition(r, "CANCELED"))
    /\ UNCHANGED <<venue, wire>>

-----------------------------------------------------------------------------
(* The exchange. *)

\* An unread reply to a caller that gave up is dropped.
Reply(o, waiting, what) == IF pc[o] = waiting THEN what ELSE "none"

ExTakesPost(o) ==
    /\ post[o] = "sent"
    /\ ex[o] = "none"
    /\ ex' = [ex EXCEPT ![o] = "live"]
    /\ \E what \in {"ok"} \cup
                   (IF "gateway" \in Faults THEN {"refused"} ELSE {}) :
          post' = [post EXCEPT ![o] = Reply(o, "posting", what)]
    /\ UNCHANGED <<local, exFilled, cancel>>

ExRefusesPost(o) ==
    /\ post[o] = "sent"
    /\ post' = [post EXCEPT ![o] = Reply(o, "posting", "refused")]
    /\ UNCHANGED <<local, venue, cancel>>

ExFills(o) ==
    /\ Working(o)
    /\ \E f \in (exFilled[o] + 1)..Size :
          /\ exFilled' = [exFilled EXCEPT ![o] = f]
          /\ ex' = [ex EXCEPT ![o] = IF f = Size THEN "filled"
                                     ELSE "partially_filled"]
    /\ UNCHANGED <<local, wire>>

\* The exchange ends a working order on its own.
ExEnds(o) ==
    /\ Working(o)
    /\ \E end \in {"canceled", "expired"} \cup
                  (IF exFilled[o] = 0 THEN {"rejected"} ELSE {}) :
          ex' = [ex EXCEPT ![o] = end]
    /\ UNCHANGED <<local, exFilled, wire>>

ExTakesCancel(o) ==
    /\ cancel[o] = "sent"
    /\ Working(o)
    /\ \E end \in {"canceled"} \cup
                  (IF "async" \in Faults THEN {ex[o]} ELSE {}) :
          ex' = [ex EXCEPT ![o] = end]
    /\ \E what \in {"ok"} \cup
                   (IF "gateway" \in Faults THEN {"refused"} ELSE {}) :
          cancel' = [cancel EXCEPT ![o] = Reply(o, "canceling", what)]
    /\ UNCHANGED <<local, exFilled, post>>

ExRefusesCancel(o) ==
    /\ cancel[o] = "sent"
    /\ ~Working(o)
    /\ cancel' = [cancel EXCEPT ![o] = Reply(o, "canceling", "refused")]
    /\ UNCHANGED <<local, venue, post>>

-----------------------------------------------------------------------------
Executor(o) ==
    \/ RejectLocally(o) \/ PassValidation(o) \/ LeverageFails(o) \/ Submit(o)
    \/ PostTimesOut(o) \/ PostRefused(o) \/ PostAccepted(o)
    \/ Query(o) \/ Poll(o) \/ WaitEnds(o) \/ RecoveryRefresh(o)
    \/ Cancel(o) \/ CancelTimesOut(o) \/ CancelRefused(o)
    \/ CancelAccepted(o) \/ ConfirmCancel(o)

Exchange(o) ==
    \/ ExTakesPost(o) \/ ExRefusesPost(o) \/ ExFills(o) \/ ExEnds(o)
    \/ ExTakesCancel(o) \/ ExRefusesCancel(o)

Next == \E o \in Orders : Executor(o) \/ Exchange(o)

Spec == Init /\ [][Next]_vars

(***************************************************************************)
(* Every HTTP call is bounded by a timeout and _wait_fill by a deadline,   *)
(* so the thread inside a handler always moves on; the exchange owes       *)
(* nothing.                                                                *)
(***************************************************************************)
HandlerStep(o) ==
    \/ LeverageFails(o) \/ Submit(o)
    \/ PostTimesOut(o) \/ PostRefused(o) \/ PostAccepted(o)
    \/ Query(o) \/ WaitEnds(o)
    \/ CancelTimesOut(o) \/ CancelRefused(o) \/ CancelAccepted(o)
    \/ ConfirmCancel(o)

FairSpec == Spec /\ \A o \in Orders : WF_vars(HandlerStep(o))

-----------------------------------------------------------------------------
(* Properties. *)

\* What the record claims as executed is backed by the exchange, equals the
\* sum of the audit events and has a price: no row of another order, no
\* stale or unpriced row ever adds quantity (refresh_order, record_fill).
FillsBacked ==
    \A o \in Orders :
        /\ order[o].filled <= exFilled[o]
        /\ order[o].booked = order[o].filled
        /\ order[o].filled > 0 => order[o].avg

\* The executed quantity a caller was told never shrinks, whatever rows
\* arrive later (the FILLED_SIZE_WENT_BACKWARDS branch of refresh_order).
FilledNeverShrinks ==
    [][\A o \in Orders : order'[o].filled >= order[o].filled]_order

\* "timeout is not failed": while the order works at the exchange, or its
\* submit may still reach it, the record is not terminal - nobody may take
\* the slot for free (place_order, cancel_order, refresh_order).
NoBlindTerminal ==
    \A o \in Orders :
        Working(o) \/ post[o] = "sent" => order[o].state \notin Terminal

\* What place_order, refresh_order and cancel_order know of one order at each
\* of their HTTP calls.
NoBlindOf(o) ==
    /\ pc[o] \in {"new", "leverage"} =>
         ex[o] = "none" /\ post[o] = "none" /\ order[o].state = "CREATED"
    /\ pc[o] = "posting" => order[o].state = "SUBMITTING"
    /\ post[o] \in {"sent", "refused"} => ex[o] = "none"
    /\ post[o] \in {"ok", "refused"} => pc[o] = "posting"
    /\ cancel[o] = "ok" => pc[o] = "canceling"
    /\ cancel[o] = "ok" \/ pc[o] = "confirming" =>
         ex[o] # "none" /\ ~Working(o)
    /\ order[o].state \in Terminal => ~Working(o) /\ post[o] # "sent"

\* Why NoBlindTerminal holds: an order becomes terminal only through a reply
\* or a row that shows its end, and a request that is not answered yet keeps
\* the record open (the returns of place_order and cancel_order).
NoBlindInductive == \A o \in Orders : NoBlindOf(o)

\* A record that says FILLED, CANCELED or REJECTED keeps saying so, through
\* late replies, further refreshes and refresh failures.
SettledStays ==
    [][\A o \in Orders :
          order[o].state \in {"FILLED", "CANCELED", "REJECTED"}
              => order'[o].state = order[o].state]_order

\* FILLED is said only of an order the exchange filled completely, and then
\* with the whole quantity booked (refresh_order books before it moves on).
FilledIsComplete ==
    \A o \in Orders :
        order[o].state = "FILLED" =>
            ex[o] = "filled" /\ order[o].filled = Size

\* The call that placed or canceled an order always returns.
HandlerReturns ==
    \A o \in Orders :
        pc[o] \notin {"new", "idle"} ~> pc[o] = "idle"

\* A terminal record is final (order_models.py: the states under "terminal"
\* have no outgoing transition, and is_terminal lists all four).
TerminalIsFinal ==
    [][\A o \in Orders : order[o].state \in Terminal =>
                            order'[o].state = order[o].state]_order

\* No executed quantity is dropped: an increment that was not booked because
\* it came without a price is asked for again, so a record that says FILLED,
\* which nobody queries any more, lacks nothing (the comment in
\* refresh_order: the increment comes back with the next query).
FilledLacksNothing ==
    \A o \in Orders :
        order[o].state = "FILLED" => order[o].filled = exFilled[o]

(***************************************************************************)
(* The refinement mapping.  An order that was never taken by the exchange  *)
(* is still pending while it may be sent or is on the wire.                *)
(***************************************************************************)
Fate(o) ==
    IF ex[o] = "none"
    THEN IF pc[o] \in {"new", "leverage"} \/ post[o] = "sent"
         THEN "pending" ELSE "closed"
    ELSE IF Working(o) THEN "open" ELSE "closed"

Promise == INSTANCE OrderPromise WITH
               fate     <- [o \in Orders |-> Fate(o)],
               executed <- exFilled,
               claim    <- [o \in Orders |->
                              IF order[o].state \in
                                     {"FILLED", "CANCELED", "REJECTED"}
                              THEN "closed" ELSE "open"],
               known    <- [o \in Orders |-> order[o].filled]

\* The executor keeps the promise of OrderPromise when the exchange tells
\* the truth: requests and replies may be late or lost, but nothing is
\* misreported (place_order, refresh_order, cancel_order together).
KeepsPromise == Promise!Spec

=============================================================================
