----------------------- MODULE OrderExecutionProofs -----------------------
(***************************************************************************)
(* Theorems about OrderExecution, for any set of orders and any size: what *)
(* holds of every exchange first, then what a truthful one adds - a FILLED *)
(* record is complete, a settled one stays settled, and OrderExecution     *)
(* implements OrderPromise.                                                *)
(***************************************************************************)
EXTENDS OrderExecution, TLAPS

\* Order.transition returns a record that differs from the given one only in
\* its state and timeout flag, in a state of the table.
LEMMA TransitionRecord ==
    ASSUME NEW r \in OrderRecord, NEW s \in OrderState
    PROVE  /\ Transition(r, s) \in OrderRecord
           /\ Transition(r, s).state \in {s, "UNKNOWN"}
           /\ Transition(r, s).filled = r.filled
           /\ Transition(r, s).booked = r.booked
           /\ Transition(r, s).avg = r.avg
           /\ Transition(r, s).id = r.id
  BY DEF Transition, OrderRecord, OrderState

\* The rows an exchange may show: own rows never exceed what was executed.
Row == [own: BOOLEAN, ids: BOOLEAN,
        st: ExState \cup {"unmapped"}, filled: 0..Size, priced: BOOLEAN]

Answer == [kind: {"timeout", "error", "empty", "data"}, row: Row]

LEMMA AnswersType ==
    ASSUME TypeOK, NEW o \in Orders, NEW a \in Answers(o)
    PROVE  /\ a \in Answer
           /\ a.kind = "data" /\ a.row.own => a.row.filled <= exFilled[o]
  <1> USE SizeAssumption
  <1>1. CASE a \in {Silence(k) : k \in {"timeout", "error", "empty"}}
    <2>1. PICK k \in {"timeout", "error", "empty"} : a = Silence(k)
      BY <1>1
    <2>2. NoRow \in Row
      BY DEF NoRow, Row, ExState
    <2>3. a = [kind |-> k, row |-> NoRow]
      BY <2>1 DEF Silence
    <2>. QED
      BY <2>2, <2>3 DEF Answer
  <1>2. CASE a \in {[kind |-> "data", row |-> row] :
                      row \in {w \in OwnRows(o) : Plausible(w)}}
    <2>1. PICK row \in OwnRows(o) : a = [kind |-> "data", row |-> row]
      BY <1>2
    <2>2. ex[o] # "none"
      BY <2>1 DEF OwnRows
    <2>3. PICK named \in BOOLEAN, s \in Shown(o), p \in BOOLEAN :
             row = [own |-> TRUE, ids |-> named, st |-> s[1],
                    filled |-> s[2], priced |-> p]
      BY <2>1, <2>2 DEF OwnRows
    <2>4. /\ s[1] \in ExState \cup {"unmapped"}
          /\ s[2] \in 0..exFilled[o]
      BY <2>3 DEF Shown, TypeOK, ExState
    <2>5. exFilled[o] \in 0..Size
      BY DEF TypeOK
    <2>. QED
      BY <2>1, <2>3, <2>4, <2>5 DEF Answer, Row
  <1>3. CASE a = [kind |-> "data", row |-> ForeignRow]
    BY <1>3 DEF ForeignRow, Answer, Row, ExState
  <1>. QED
    BY <1>1, <1>2, <1>3 DEF Answers

\* Booking a row leaves a record whose quantity is the larger of the two and
\* equals the sum of its events.
LEMMA ApplyRowRecord ==
    ASSUME NEW r \in OrderRecord, NEW row \in Row,
           r.booked = r.filled, r.filled > 0 => r.avg
    PROVE  LET m == ApplyRow(r, row)
           IN  /\ m \in OrderRecord
               /\ m.filled = r.filled \/ m.filled = row.filled
               /\ m.filled >= r.filled
               /\ m.booked = m.filled
               /\ m.filled > 0 => m.avg
  <1> USE SizeAssumption
  <1> DEFINE delta == row.filled - r.filled
             m == ApplyRow(r, row)
  <1>1. row.filled \in 0..Size /\ r.filled \in 0..Size
    BY DEF OrderRecord, Row
  <1>2. CASE delta > 0 /\ row.priced
    <2>1. m = [r EXCEPT !.filled = @ + delta, !.booked = @ + delta,
                        !.avg = TRUE]
      BY <1>1, <1>2 DEF ApplyRow, RecordFill
    <2>2. r.filled + delta = row.filled /\ r.booked + delta = row.filled
      BY <1>1
    <2>3. m = [state |-> r.state, filled |-> row.filled,
               booked |-> row.filled, avg |-> TRUE,
               timeout |-> r.timeout, id |-> r.id]
      BY <2>1, <2>2 DEF OrderRecord
    <2> HIDE DEF m
    <2>4. row.filled >= r.filled
      BY <1>1, <1>2
    <2>5. /\ m \in OrderRecord /\ m.filled = row.filled
          /\ m.booked = row.filled /\ m.avg
      BY <1>1, <2>3 DEF OrderRecord
    <2>. QED
      BY <2>4, <2>5 DEF m
  <1>3. CASE delta = 0 /\ row.priced
    <2>1. m = [r EXCEPT !.avg = TRUE]
      BY <1>1, <1>3 DEF ApplyRow
    <2>2. m = [state |-> r.state, filled |-> r.filled,
               booked |-> r.booked, avg |-> TRUE,
               timeout |-> r.timeout, id |-> r.id]
      BY <2>1 DEF OrderRecord
    <2> HIDE DEF m
    <2>3. /\ m \in OrderRecord /\ m.filled = r.filled
          /\ m.booked = r.booked /\ m.avg
      BY <1>1, <2>2 DEF OrderRecord
    <2>. QED
      BY <1>1, <2>3 DEF m
  <1>4. CASE delta < 0 \/ ~row.priced
    <2>1. m = r
      BY <1>1, <1>4 DEF ApplyRow
    <2>. QED
      BY <1>1, <2>1 DEF OrderRecord
  <1>. QED
    BY <1>1, <1>2, <1>3, <1>4

\* refresh_order keeps the record well formed, never takes quantity back and
\* never books more than the given bound that limits its rows.
LEMMA RefreshedRecord ==
    ASSUME NEW r \in OrderRecord, NEW a \in Answer, NEW bound \in 0..Size,
           a.kind = "data" /\ a.row.own => a.row.filled <= bound,
           r.filled <= bound, r.booked = r.filled, r.filled > 0 => r.avg
    PROVE  LET n == Refreshed(r, a)
           IN  /\ n \in OrderRecord
               /\ n.filled <= bound
               /\ n.filled >= r.filled
               /\ n.booked = n.filled
               /\ n.filled > 0 => n.avg
  <1> USE SizeAssumption
  <1> DEFINE n == Refreshed(r, a)
             m == ApplyRow([r EXCEPT !.id = @ \/ a.row.ids], a.row)
  <1>1. CASE a.kind = "error"
    BY <1>1 DEF Refreshed, OrderRecord
  <1>2. CASE a.kind = "timeout"
    <2>1. n = r \/ n = Transition(r, "TIMEOUT")
      BY <1>2 DEF Refreshed
    <2>. QED
      BY <2>1, TransitionRecord DEF OrderState, OrderRecord
  <1>3. CASE a.kind = "empty" \/ (a.kind = "data" /\ ~MatchOrderRow(r, a.row))
    <2>1. n = r \/ n = Transition(r, "UNKNOWN")
      BY <1>3 DEF Refreshed
    <2>. QED
      BY <2>1, TransitionRecord DEF OrderState, OrderRecord
  <1>4. CASE a.kind = "data" /\ MatchOrderRow(r, a.row)
    <2>1. n = Transition(m, MapBlofinState(a.row.st))
      BY <1>4 DEF Refreshed
    <2>2. MapBlofinState(a.row.st) \in OrderState
      BY DEF MapBlofinState, OrderState
    <2>3. /\ a.row \in Row
          /\ a.row.filled <= bound
      BY <1>4 DEF Answer, MatchOrderRow
    <2> DEFINE q == [r EXCEPT !.id = @ \/ a.row.ids]
    <2>4. /\ q \in OrderRecord
          /\ q.filled = r.filled /\ q.booked = r.booked /\ q.avg = r.avg
      BY <2>3 DEF OrderRecord, Row
    <2>5. a.row.filled \in 0..Size /\ r.filled \in 0..Size
      BY <2>3 DEF OrderRecord, Row
    <2> HIDE DEF q
    <2>6. m = ApplyRow(q, a.row)
      BY DEF q
    <2> HIDE DEF m
    <2>7. /\ m \in OrderRecord
          /\ m.filled <= bound
          /\ m.filled >= r.filled
          /\ m.booked = m.filled
          /\ m.filled > 0 => m.avg
      BY <2>3, <2>4, <2>5, <2>6, ApplyRowRecord
    <2>. QED
      BY <2>1, <2>2, <2>7, TransitionRecord
  <1>. QED
    BY <1>1, <1>2, <1>3, <1>4 DEF Answer

-----------------------------------------------------------------------------
\* Types and backing are proved together: an executed quantity in 0..Size is
\* what bounds the record's own.
Backed == TypeOK /\ FillsBacked

LEMMA InitBacked == Init => Backed
  BY SizeAssumption DEF Init, Backed, TypeOK, FillsBacked, NewOrder,
     OrderRecord, OrderState, PC, ExState, Wire

LEMMA BackedRefresh ==
    ASSUME Backed, NEW o \in Orders, NEW a \in Answers(o)
    PROVE  LET n == Refreshed(order[o], a)
           IN  /\ n \in OrderRecord
               /\ n.filled <= exFilled[o]
               /\ n.filled >= order[o].filled
               /\ n.booked = n.filled
               /\ n.filled > 0 => n.avg
  BY AnswersType, RefreshedRecord DEF Backed, TypeOK, FillsBacked

\* Replacing one record by a well formed and backed one, while the exchange
\* stands still, keeps the invariant.
LEMMA BackedBecome ==
    ASSUME Backed, NEW o \in Orders, NEW n \in OrderRecord,
           n.filled <= exFilled[o], n.booked = n.filled,
           n.filled > 0 => n.avg,
           Become(o, n), UNCHANGED venue,
           pc' \in [Orders -> PC], post' \in [Orders -> Wire],
           cancel' \in [Orders -> Wire]
    PROVE  Backed'
  BY DEF Backed, TypeOK, FillsBacked, Become, venue

\* The action of FilledNeverShrinks.
FilledGrows == \A o \in Orders : order'[o].filled >= order[o].filled

\* The steps of the executor.
LEMMA ExecutorBacked ==
    ASSUME Backed, NEW o \in Orders, Executor(o)
    PROVE  Backed' /\ FilledGrows
  <1> DEFINE Good(n) == /\ n \in OrderRecord
                        /\ n.filled <= exFilled[o]
                        /\ n.filled >= order[o].filled
                        /\ n.booked = n.filled
                        /\ n.filled > 0 => n.avg
  <1>1. Good(order[o])
    BY DEF Backed, TypeOK, FillsBacked, OrderRecord
  <1>2. \A s \in OrderState : Good(Transition(order[o], s))
    BY <1>1, TransitionRecord
  <1>3. \A a \in Answers(o) : Good(Refreshed(order[o], a))
    BY BackedRefresh
  <1>4. \A n \in OrderRecord, b \in BOOLEAN :
          Good(n) => Good([n EXCEPT !.timeout = b]) /\ Good([n EXCEPT !.id = b])
    BY DEF OrderRecord
  <1>5. /\ pc \in [Orders -> PC] /\ post \in [Orders -> Wire]
        /\ cancel \in [Orders -> Wire]
    BY DEF Backed, TypeOK
  <1>6. ASSUME NEW n, Good(n), Become(o, n), UNCHANGED venue,
               pc' \in [Orders -> PC], post' \in [Orders -> Wire],
               cancel' \in [Orders -> Wire]
        PROVE  Backed' /\ FilledGrows
    <2>1. \A p \in Orders : order'[p] = IF p = o THEN n ELSE order[p]
      BY <1>6 DEF Become, Backed, TypeOK
    <2>2. \A p \in Orders : order[p].filled \in Int
      BY DEF Backed, TypeOK, OrderRecord
    <2>3. FilledGrows
      BY <1>6, <2>1, <2>2 DEF FilledGrows
    <2>. QED
      BY <1>6, <2>3, BackedBecome
  <1>7. ASSUME UNCHANGED <<order, venue>>,
               pc' \in [Orders -> PC], post' \in [Orders -> Wire],
               cancel' \in [Orders -> Wire]
        PROVE  Backed' /\ FilledGrows
    BY <1>1, <1>7 DEF Backed, TypeOK, FillsBacked, venue, OrderRecord,
                      FilledGrows
  <1> HIDE DEF Good
  <1>8. CASE RejectLocally(o)
    BY <1>2, <1>5, <1>6, <1>8 DEF RejectLocally, Goto, Move, wire, PC, OrderState
  <1>9. CASE PassValidation(o)
    BY <1>5, <1>7, <1>9 DEF PassValidation, Goto, wire, PC
  <1>10. CASE LeverageFails(o)
    <2>1. Transition(order[o], "REJECTED") \in OrderRecord
      BY <1>2 DEF OrderState, Good
    <2>. QED
      BY <1>2, <1>4, <1>5, <1>6, <1>10, <2>1
         DEF LeverageFails, Goto, wire, PC, OrderState
  <1>11. CASE Submit(o)
    BY <1>2, <1>5, <1>6, <1>11 DEF Submit, Goto, Move, PC, Wire, OrderState
  <1>12. CASE PostTimesOut(o)
    BY <1>2, <1>5, <1>6, <1>12 DEF PostTimesOut, Goto, Move, PC, Wire, OrderState
  <1>13. CASE PostRefused(o)
    BY <1>2, <1>5, <1>6, <1>13 DEF PostRefused, Goto, Move, PC, Wire, OrderState
  <1>14. CASE PostAccepted(o)
    <2>1. /\ Good(Transition(order[o], "SUBMITTED"))
          /\ Transition(order[o], "SUBMITTED") \in OrderRecord
      BY <1>2 DEF OrderState, Good
    <2>2. PICK named \in BOOLEAN :
            Become(o, [Transition(order[o], "SUBMITTED") EXCEPT !.id = named])
      BY <1>14 DEF PostAccepted
    <2>3. /\ pc' \in [Orders -> PC] /\ post' \in [Orders -> Wire]
          /\ cancel' \in [Orders -> Wire] /\ UNCHANGED venue
      BY <1>5, <1>14 DEF PostAccepted, Goto, PC, Wire
    <2>. QED
      BY <1>4, <1>6, <2>1, <2>2, <2>3
  <1>15. CASE Query(o)
    BY <1>3, <1>5, <1>6, <1>15 DEF Query, Refresh, Goto, wire, PC
  <1>16. CASE Poll(o)
    BY <1>3, <1>5, <1>6, <1>16 DEF Poll, Refresh, wire
  <1>17. CASE WaitEnds(o)
    BY <1>5, <1>7, <1>17 DEF WaitEnds, Goto, wire, PC
  <1>18. CASE RecoveryRefresh(o)
    BY <1>3, <1>5, <1>6, <1>18 DEF RecoveryRefresh, Refresh, wire
  <1>19. CASE Cancel(o)
    BY <1>2, <1>5, <1>6, <1>19 DEF Cancel, Goto, Move, PC, Wire, OrderState
  <1>20. CASE CancelTimesOut(o)
    BY <1>2, <1>5, <1>6, <1>20 DEF CancelTimesOut, Goto, Move, PC, Wire, OrderState
  <1>21. CASE CancelRefused(o)
    BY <1>5, <1>7, <1>21 DEF CancelRefused, Goto, PC, Wire
  <1>22. CASE CancelAccepted(o)
    BY <1>5, <1>7, <1>22 DEF CancelAccepted, Goto, PC, Wire
  <1>23. CASE ConfirmCancel(o)
    <2>1. PICK a \in Answers(o) :
            LET r == Refreshed(order[o], a)
            IN  Become(o, IF r.state \in Terminal THEN r
                          ELSE Transition(r, "CANCELED"))
      BY <1>23 DEF ConfirmCancel
    <2> DEFINE r == Refreshed(order[o], a)
               n == IF r.state \in Terminal THEN r
                    ELSE Transition(r, "CANCELED")
    <2>2. Good(r)
      BY <1>3
    <2> HIDE DEF r
    <2>3. Good(n)
      BY <2>2, TransitionRecord DEF Good, OrderState
    <2>. QED
      BY <1>5, <1>6, <1>23, <2>1, <2>3 DEF ConfirmCancel, Goto, wire, PC, r
  <1>. QED
    BY <1>8, <1>9, <1>10, <1>11, <1>12, <1>13, <1>14, <1>15, <1>16, <1>17,
       <1>18, <1>19, <1>20, <1>21, <1>22, <1>23 DEF Executor

\* The steps of the exchange leave the records alone and only add quantity.
LEMMA ExchangeBacked ==
    ASSUME Backed, NEW o \in Orders, Exchange(o)
    PROVE  Backed' /\ UNCHANGED order
  <1> USE SizeAssumption DEF Backed, TypeOK, FillsBacked, local, venue, wire
  <1>1. CASE ExTakesPost(o)
    BY <1>1 DEF ExTakesPost, Reply, Wire, ExState
  <1>2. CASE ExRefusesPost(o)
    BY <1>2 DEF ExRefusesPost, Reply, Wire
  <1>3. CASE ExFills(o)
    <2>1. PICK f \in (exFilled[o] + 1)..Size :
            /\ exFilled' = [exFilled EXCEPT ![o] = f]
            /\ ex' = [ex EXCEPT ![o] = IF f = Size THEN "filled"
                                       ELSE "partially_filled"]
      BY <1>3 DEF ExFills
    <2>2. exFilled[o] \in 0..Size /\ f \in 0..Size /\ exFilled[o] <= f
      OBVIOUS
    <2>3. \A p \in Orders : exFilled[p] <= exFilled'[p]
      BY <2>1, <2>2
    <2>4. order' = order /\ UNCHANGED <<pc, post, cancel>>
      BY <1>3 DEF ExFills
    <2>5. /\ exFilled' \in [Orders -> 0..Size]
          /\ ex' \in [Orders -> ExState]
      BY <2>1, <2>2 DEF ExState
    <2>6. \A p \in Orders : order[p].filled \in 0..Size
      BY DEF OrderRecord
    <2>. QED
      BY <2>3, <2>4, <2>5, <2>6
  <1>4. CASE ExEnds(o)
    BY <1>4 DEF ExEnds, ExState, Working
  <1>5. CASE ExTakesCancel(o)
    BY <1>5 DEF ExTakesCancel, Reply, Wire, ExState, Working
  <1>6. CASE ExRefusesCancel(o)
    BY <1>6 DEF ExRefusesCancel, Reply, Wire
  <1>. QED
    BY <1>1, <1>2, <1>3, <1>4, <1>5, <1>6 DEF Exchange

LEMMA NextBacked ==
    ASSUME Backed, [Next]_vars
    PROVE  Backed' /\ FilledGrows
  <1>1. \A o \in Orders : order[o].filled \in Int
    BY DEF Backed, TypeOK, OrderRecord
  <1>2. UNCHANGED order => FilledGrows
    BY <1>1 DEF FilledGrows
  <1>3. CASE UNCHANGED vars
    BY <1>2, <1>3 DEF vars, Backed, TypeOK, FillsBacked
  <1>4. ASSUME NEW o \in Orders, Executor(o) \/ Exchange(o)
        PROVE  Backed' /\ FilledGrows
    BY <1>2, <1>4, ExecutorBacked, ExchangeBacked
  <1>. QED
    BY <1>3, <1>4 DEF Next

LEMMA AlwaysBacked == Spec => []Backed
  BY InitBacked, NextBacked, PTL DEF Spec

\* Every variable keeps its type.
THEOREM TypeCorrect == Spec => []TypeOK
  <1>1. Backed => TypeOK
    BY DEF Backed
  <1>. QED
    BY <1>1, AlwaysBacked, PTL

\* For any number of orders of any size and whatever the exchange answers,
\* a record never claims quantity the exchange did not execute.
THEOREM FillsAreBacked == Spec => []FillsBacked
  <1>1. Backed => FillsBacked
    BY DEF Backed
  <1>. QED
    BY <1>1, AlwaysBacked, PTL

\* A quantity once told is never taken back, whatever the exchange answers.
THEOREM FilledIsMonotone == Spec => FilledNeverShrinks
  <1>1. Backed /\ [Next]_vars =>
          [\A o \in Orders : order'[o].filled >= order[o].filled]_order
    BY NextBacked DEF FilledGrows
  <1>. QED
    BY <1>1, AlwaysBacked, PTL DEF Spec, FilledNeverShrinks

-----------------------------------------------------------------------------
(* "Timeout is not failed", for an exchange whose replies to requests tell  *)
(* what was done.                                                          *)

\* A refresh makes a record terminal only by a row that shows the end.
LEMMA RefreshedTerminal ==
    ASSUME Backed, NEW o \in Orders, NEW a \in Answers(o),
           Refreshed(order[o], a).state \in Terminal
    PROVE  \/ order[o].state \in Terminal
           \/ ex[o] \notin {"none", "live", "partially_filled"}
  <1> DEFINE r == order[o]
  <1>1. a \in Answer /\ r \in OrderRecord
    BY AnswersType DEF Backed, TypeOK
  <1>2. CASE a.kind = "error"
    BY <1>2 DEF Refreshed
  <1>3. CASE a.kind # "error" /\ ~(a.kind = "data" /\ MatchOrderRow(r, a.row))
    <2>1. \/ Refreshed(r, a) = r
          \/ \E s \in {"TIMEOUT", "UNKNOWN"} :
                Refreshed(r, a) = Transition(r, s)
      BY <1>1, <1>3 DEF Refreshed, Answer
    <2>. QED
      BY <1>1, <2>1, TransitionRecord DEF Terminal, OrderState
  <1>4. CASE a.kind = "data" /\ MatchOrderRow(r, a.row)
    <2>1. /\ ex[o] # "none"
          /\ a.row.st \in {ex[o], "unmapped", "live", "partially_filled"}
      <3>1. PICK row \in OwnRows(o) : a.row = row
        BY <1>4 DEF Answers, Silence, NoRow, ForeignRow, MatchOrderRow
      <3>2. ex[o] # "none"
        BY <3>1 DEF OwnRows
      <3>3. PICK named \in BOOLEAN, s \in Shown(o), p \in BOOLEAN :
               row = [own |-> TRUE, ids |-> named, st |-> s[1],
                      filled |-> s[2], priced |-> p]
        BY <3>2 DEF OwnRows
      <3>4. s[1] \in {ex[o], "unmapped", "live", "partially_filled"}
        BY <3>3 DEF Shown
      <3>. QED
        BY <3>1, <3>2, <3>3, <3>4
    <2> DEFINE m == ApplyRow([r EXCEPT !.id = @ \/ a.row.ids], a.row)
               word == MapBlofinState(a.row.st)
    <2>2. Refreshed(r, a).state \in {word, "UNKNOWN"}
      <3>1. Refreshed(r, a) = Transition(m, word)
        BY <1>4 DEF Refreshed
      <3> DEFINE q == [r EXCEPT !.id = @ \/ a.row.ids]
      <3>2. /\ q \in OrderRecord
            /\ q.filled = r.filled /\ q.booked = r.booked /\ q.avg = r.avg
        BY <1>1 DEF OrderRecord, Answer, Row
      <3>3. q.booked = q.filled /\ (q.filled > 0 => q.avg)
        BY <3>2 DEF Backed, FillsBacked
      <3> HIDE DEF q
      <3>4. m \in OrderRecord
        BY <1>1, <3>2, <3>3, ApplyRowRecord DEF Answer, q
      <3>5. word \in OrderState
        BY DEF MapBlofinState, OrderState
      <3> HIDE DEF m, word
      <3>. QED
        BY <3>1, <3>4, <3>5, TransitionRecord
    <2>3. word \in Terminal => a.row.st \in {"filled", "canceled", "rejected",
                                             "expired"}
      BY DEF MapBlofinState, Terminal
    <2>. QED
      BY <2>1, <2>2, <2>3 DEF Terminal
  <1>. QED
    BY <1>1, <1>2, <1>3, <1>4 DEF Answer

\* A step of one order leaves the others alone.
LEMMA OthersUnchanged ==
    ASSUME TypeOK, NEW o \in Orders, Executor(o) \/ Exchange(o),
           NEW p \in Orders, p # o
    PROVE  /\ order'[p] = order[p] /\ pc'[p] = pc[p] /\ ex'[p] = ex[p]
           /\ post'[p] = post[p] /\ cancel'[p] = cancel[p]
  <1> USE DEF TypeOK, Goto, Become, Move, local, venue, wire, Refresh
  <1>1. CASE Executor(o)
    BY <1>1 DEF Executor, RejectLocally, PassValidation, LeverageFails, Submit,
       PostTimesOut, PostRefused, PostAccepted, Query, Poll, WaitEnds,
       RecoveryRefresh, Cancel, CancelTimesOut, CancelRefused, CancelAccepted,
       ConfirmCancel
  <1>2. CASE Exchange(o)
    BY <1>2 DEF Exchange, ExTakesPost, ExRefusesPost, ExFills, ExEnds,
       ExTakesCancel, ExRefusesCancel
  <1>. QED
    BY <1>1, <1>2

\* One case per action of the executor; the frame of the others is above.
LEMMA ExecutorNoBlind ==
    ASSUME Backed, NEW o \in Orders, NoBlindOf(o), Executor(o)
    PROVE  NoBlindOf(o)'
  <1> USE DEF Goto, Become, local, venue, wire, NoBlindOf, Working
  <1>1. order[o] \in OrderRecord /\ order \in [Orders -> OrderRecord]
        /\ pc \in [Orders -> PC] /\ post \in [Orders -> Wire]
        /\ cancel \in [Orders -> Wire]
    BY DEF Backed, TypeOK
  <1>2. \A s \in OrderState : Transition(order[o], s).state \in {s, "UNKNOWN"}
    BY <1>1, TransitionRecord
  <1>3. ASSUME NEW s \in OrderState, s \notin Terminal, Move(o, s)
        PROVE  order'[o].state \notin Terminal
    BY <1>1, <1>2, <1>3 DEF Move, Terminal
  <1>4. ASSUME NEW a \in Answers(o), Become(o, Refreshed(order[o], a)),
               order'[o].state \in Terminal
        PROVE  \/ order[o].state \in Terminal
               \/ ex[o] \notin {"none", "live", "partially_filled"}
    BY <1>1, <1>4, RefreshedTerminal
  <1>6. CASE RejectLocally(o)
    BY <1>1, <1>6 DEF RejectLocally, Terminal
  <1>7. CASE PassValidation(o)
    BY <1>1, <1>7 DEF PassValidation
  <1>8. CASE LeverageFails(o)
    BY <1>1, <1>8 DEF LeverageFails, Terminal
  <1>9. CASE Submit(o)
    <2>1. Transition(order[o], "SUBMITTING").state = "SUBMITTING"
      BY <1>1, <1>9 DEF Submit, Transition, Permitted, Allowed, OrderRecord
    <2>. QED
      BY <1>1, <1>9, <2>1 DEF Submit, Move, Terminal
  <1>10. CASE PostTimesOut(o)
    <2>1. order'[o].state \notin Terminal
      BY <1>3, <1>10 DEF PostTimesOut, OrderState, Terminal
    <2>. QED
      BY <1>1, <1>10, <2>1 DEF PostTimesOut
  <1>11. CASE PostRefused(o)
    BY <1>1, <1>11 DEF PostRefused, Terminal
  <1>12. CASE PostAccepted(o)
    <2>1. order'[o].state \notin Terminal
      <3>1. PICK named \in BOOLEAN :
              Become(o, [Transition(order[o], "SUBMITTED")
                            EXCEPT !.id = named])
        BY <1>12 DEF PostAccepted
      <3>2. Transition(order[o], "SUBMITTED") \in OrderRecord
        BY <1>1, TransitionRecord DEF OrderState
      <3>3. [Transition(order[o], "SUBMITTED") EXCEPT !.id = named].state
              = Transition(order[o], "SUBMITTED").state
        BY <3>2 DEF OrderRecord
      <3>. QED
        BY <1>1, <1>2, <3>1, <3>3 DEF OrderState, Terminal
    <2>. QED
      BY <1>1, <1>12, <2>1 DEF PostAccepted
  <1>13. CASE Query(o)
    BY <1>1, <1>4, <1>13 DEF Query, Refresh
  <1>14. CASE Poll(o)
    BY <1>1, <1>4, <1>14 DEF Poll, Refresh
  <1>15. CASE WaitEnds(o)
    BY <1>1, <1>15 DEF WaitEnds
  <1>16. CASE RecoveryRefresh(o)
    BY <1>1, <1>4, <1>16 DEF RecoveryRefresh, Refresh
  <1>17. CASE Cancel(o)
    <2>1. order'[o].state \notin Terminal
      BY <1>3, <1>17 DEF Cancel, OrderState, Terminal
    <2>. QED
      BY <1>1, <1>17, <2>1 DEF Cancel
  <1>18. CASE CancelTimesOut(o)
    <2>1. order'[o].state \notin Terminal
      BY <1>3, <1>18 DEF CancelTimesOut, OrderState, Terminal
    <2>. QED
      BY <1>1, <1>18, <2>1 DEF CancelTimesOut
  <1>19. CASE CancelRefused(o)
    BY <1>1, <1>19 DEF CancelRefused
  <1>20. CASE CancelAccepted(o)
    BY <1>1, <1>20 DEF CancelAccepted
  <1>21. CASE ConfirmCancel(o)
    BY <1>1, <1>21 DEF ConfirmCancel
  <1>. QED
    BY <1>6, <1>7, <1>8, <1>9, <1>10, <1>11, <1>12, <1>13, <1>14, <1>15,
       <1>16, <1>17, <1>18, <1>19, <1>20, <1>21 DEF Executor

LEMMA ExchangeNoBlind ==
    ASSUME "gateway" \notin Faults, "async" \notin Faults,
           TypeOK, NEW o \in Orders, NoBlindOf(o), Exchange(o)
    PROVE  NoBlindOf(o)'
  <1> USE DEF TypeOK, local, venue, wire, NoBlindOf, Working, Reply, Terminal
  <1>1. CASE ExTakesPost(o)
    BY <1>1 DEF ExTakesPost
  <1>2. CASE ExRefusesPost(o)
    BY <1>2 DEF ExRefusesPost
  <1>3. CASE ExFills(o)
    BY <1>3 DEF ExFills
  <1>4. CASE ExEnds(o)
    BY <1>4 DEF ExEnds
  <1>5. CASE ExTakesCancel(o)
    BY <1>5 DEF ExTakesCancel
  <1>6. CASE ExRefusesCancel(o)
    BY <1>6 DEF ExRefusesCancel
  <1>. QED
    BY <1>1, <1>2, <1>3, <1>4, <1>5, <1>6 DEF Exchange

LEMMA NextNoBlind ==
    ASSUME "gateway" \notin Faults, "async" \notin Faults,
           Backed, NoBlindInductive, [Next]_vars
    PROVE  NoBlindInductive'
  <1>1. CASE UNCHANGED vars
    BY <1>1 DEF vars, NoBlindInductive, NoBlindOf, Working
  <1>2. ASSUME NEW o \in Orders, Executor(o) \/ Exchange(o)
        PROVE  NoBlindInductive'
    <2>1. NoBlindOf(o)'
      BY <1>2, ExecutorNoBlind, ExchangeNoBlind DEF Backed, NoBlindInductive
    <2>2. ASSUME NEW p \in Orders, p # o PROVE NoBlindOf(p)'
      BY <1>2, <2>2, OthersUnchanged
         DEF Backed, NoBlindInductive, NoBlindOf, Working
    <2>. QED
      BY <2>1, <2>2 DEF NoBlindInductive
  <1>. QED
    BY <1>1, <1>2 DEF Next

\* What place_order, refresh_order and cancel_order know at each of their
\* calls holds for every order, as long as an error reply means that nothing
\* was done and an accepted cancel is immediate.
THEOREM CallsAreNotBlind ==
    ASSUME "gateway" \notin Faults, "async" \notin Faults
    PROVE  Spec => []NoBlindInductive
  <1>1. Init => NoBlindInductive
    BY DEF Init, NoBlindInductive, NoBlindOf, NewOrder, Working, Terminal
  <1>2. Backed /\ NoBlindInductive /\ [Next]_vars => NoBlindInductive'
    BY NextNoBlind
  <1>. QED
    BY <1>1, <1>2, AlwaysBacked, PTL DEF Spec

\* As long as the exchange's replies to requests are true and an accepted
\* cancel is immediate, no record is terminal while its order works or its
\* submit is still on the wire - with rows that are stale, unpriced or carry
\* unknown words, and with any number of lost requests and replies.
THEOREM TimeoutIsNotFailed ==
    ASSUME "gateway" \notin Faults, "async" \notin Faults
    PROVE  Spec => []NoBlindTerminal
  <1>1. NoBlindInductive => NoBlindTerminal
    BY DEF NoBlindInductive, NoBlindOf, NoBlindTerminal
  <1>. QED
    BY <1>1, CallsAreNotBlind, PTL

-----------------------------------------------------------------------------
(***************************************************************************)
(* A truthful exchange.                                                    *)
(***************************************************************************)
\* What a row that is used does to the state of the record.

LEMMA ApplyRowState ==
    ASSUME NEW r \in OrderRecord, NEW row \in Row
    PROVE  ApplyRow(r, row).state = r.state
  <1>1. \A q \in Int : RecordFill(r, q).state = r.state
    BY DEF RecordFill, OrderRecord
  <1>2. row.filled - r.filled \in Int
    BY SizeAssumption DEF Row, OrderRecord
  <1>3. [r EXCEPT !.avg = TRUE].state = r.state
    BY DEF OrderRecord
  <1>. QED
    BY <1>1, <1>2, <1>3 DEF ApplyRow

\* An answer without a usable row leaves a record alone or moves it to
\* TIMEOUT or UNKNOWN, and then it was not settled.
LEMMA RefreshedBlind ==
    ASSUME NEW r \in OrderRecord, NEW a \in Answer,
           ~(a.kind = "data" /\ MatchOrderRow(r, a.row))
    PROVE  \/ Refreshed(r, a) = r
           \/ /\ r.state \notin Settled
              /\ Refreshed(r, a).state \notin Settled
              /\ Refreshed(r, a).filled = r.filled
  <1>1. \/ Refreshed(r, a) = r
        \/ /\ r.state \notin Settled
           /\ \E s \in {"TIMEOUT", "UNKNOWN"} : Refreshed(r, a) = Transition(r, s)
    BY DEF Refreshed, Answer
  <1>. QED
    BY <1>1, TransitionRecord DEF Settled, OrderState

\* A usable row is the order's own: it shows the exchange's order, or an
\* older picture of it, or an unknown word.
LEMMA UsableRow ==
    ASSUME Backed, NEW o \in Orders, NEW a \in Answers(o),
           a.kind = "data", MatchOrderRow(order[o], a.row)
    PROVE  /\ ex[o] # "none"
           /\ a.row.filled > 0 /\ ~a.row.priced => "priceless" \in Faults
           /\ \/ a.row.st = ex[o] /\ a.row.filled = exFilled[o]
              \/ "word" \in Faults /\ a.row.st = "unmapped"
              \/ "stale" \in Faults /\ a.row.st \in {"live", "partially_filled"}
  <1>1. PICK row \in OwnRows(o) : a.row = row /\ Plausible(row)
    BY DEF Answers, Silence, NoRow, ForeignRow, MatchOrderRow
  <1>2. ex[o] # "none"
    BY <1>1 DEF OwnRows
  <1>3. PICK named \in BOOLEAN, s \in Shown(o), p \in BOOLEAN :
           row = [own |-> TRUE, ids |-> named, st |-> s[1],
                  filled |-> s[2], priced |-> p]
    BY <1>1, <1>2 DEF OwnRows
  <1>4. \/ s = <<ex[o], exFilled[o]>>
        \/ "word" \in Faults /\ s = <<"unmapped", exFilled[o]>>
        \/ /\ "stale" \in Faults
           /\ s = <<"live", 0>> \/ \E f \in 1..exFilled[o] : s = <<"partially_filled", f>>
    BY <1>3 DEF Shown
  <1>5. a.row.st = s[1] /\ a.row.filled = s[2]
    BY <1>1, <1>3
  <1>6. a.row.filled > 0 /\ ~a.row.priced => "priceless" \in Faults
    BY <1>1 DEF Plausible
  <1>. QED
    BY <1>2, <1>4, <1>5, <1>6

\* ... and the record moves to the state the row's word means.
LEMMA RefreshedByRow ==
    ASSUME Backed, NEW o \in Orders, NEW a \in Answers(o),
           a.kind = "data", MatchOrderRow(order[o], a.row)
    PROVE  LET n == Refreshed(order[o], a)
               w == MapBlofinState(a.row.st)
           IN  /\ n.state \in {w, "UNKNOWN"}
               /\ order[o].state = w => n.state = w
               /\ a.row.filled > 0 /\ a.row.priced => n.filled >= a.row.filled
  <1> DEFINE r == order[o]
             q == [r EXCEPT !.id = @ \/ a.row.ids]
             m == ApplyRow(q, a.row)
             w == MapBlofinState(a.row.st)
  <1>1. a \in Answer /\ r \in OrderRecord
    BY AnswersType DEF Backed, TypeOK
  <1>2. /\ q \in OrderRecord /\ q.state = r.state
        /\ q.filled = r.filled /\ q.booked = r.booked /\ q.avg = r.avg
    BY <1>1 DEF OrderRecord, Answer, Row
  <1>3. q.booked = q.filled /\ (q.filled > 0 => q.avg)
    BY <1>2 DEF Backed, FillsBacked
  <1>4. Refreshed(r, a) = Transition(m, w)
    BY DEF Refreshed
  <1>5. w \in OrderState
    BY DEF MapBlofinState, OrderState
  <1>6. a.row \in Row
    BY <1>1 DEF Answer
  <1> HIDE DEF q
  <1>7. m \in OrderRecord /\ m.state = r.state
    BY <1>2, <1>3, <1>6, ApplyRowRecord, ApplyRowState
  <1>8. a.row.filled > 0 /\ a.row.priced => m.filled >= a.row.filled
    <2>1. SUFFICES ASSUME a.row.filled > 0, a.row.priced
                   PROVE  m.filled >= a.row.filled
      OBVIOUS
    <2>2. a.row.filled \in Int /\ q.filled \in Int /\ q.booked \in Int
      BY <1>2, <1>6 DEF Row, OrderRecord
    <2>3. CASE a.row.filled - q.filled > 0
      <3>1. m = RecordFill(q, a.row.filled - q.filled)
        BY <2>1, <2>3 DEF ApplyRow
      <3>2. m.filled = q.filled + (a.row.filled - q.filled)
        BY <1>2, <2>2, <2>3, <3>1 DEF RecordFill, OrderRecord
      <3>. QED
        BY <2>2, <3>2
    <2>4. CASE ~(a.row.filled - q.filled > 0)
      <3>1. m.filled >= q.filled
        BY <1>2, <1>3, <1>6, ApplyRowRecord
      <3>2. m.filled \in Int
        BY <1>7 DEF OrderRecord
      <3>. QED
        BY <2>2, <2>4, <3>1, <3>2
    <2>. QED
      BY <2>3, <2>4
  <1> HIDE DEF m, w
  <1>9. /\ Transition(m, w).state \in {w, "UNKNOWN"}
        /\ Transition(m, w).filled = m.filled
    BY <1>5, <1>7, TransitionRecord
  <1>10. m.state = w => Transition(m, w).state = w
    BY <1>7 DEF Transition, Permitted, OrderRecord
  <1>. QED
    BY <1>4, <1>7, <1>8, <1>9, <1>10 DEF w

-----------------------------------------------------------------------------
(* FILLED is complete, as long as every executed quantity has a price. *)

FilledOf(o) ==
    /\ ex[o] = "filled" => exFilled[o] = Size
    /\ order[o].state = "FILLED" => ex[o] = "filled" /\ order[o].filled = Size

FilledInv == \A o \in Orders : FilledOf(o)

LEMMA RefreshedFilled ==
    ASSUME "priceless" \notin Faults, Backed, NEW o \in Orders, FilledOf(o),
           NEW a \in Answers(o), Refreshed(order[o], a).state = "FILLED"
    PROVE  ex[o] = "filled" /\ Refreshed(order[o], a).filled = Size
  <1> DEFINE n == Refreshed(order[o], a)
  <1>1. a \in Answer /\ order[o] \in OrderRecord
    BY AnswersType DEF Backed, TypeOK
  <1>2. CASE ~(a.kind = "data" /\ MatchOrderRow(order[o], a.row))
    BY <1>1, <1>2, RefreshedBlind DEF FilledOf, Settled
  <1>3. CASE a.kind = "data" /\ MatchOrderRow(order[o], a.row)
    <2>1. MapBlofinState(a.row.st) = "FILLED"
      BY <1>3, RefreshedByRow
    <2>2. a.row.st = "filled"
      BY <2>1 DEF MapBlofinState
    <2>3. /\ a.row.st = ex[o] /\ a.row.filled = exFilled[o]
          /\ a.row.filled > 0 => a.row.priced
      <3>1. \/ a.row.st = ex[o] /\ a.row.filled = exFilled[o]
            \/ a.row.st \in {"unmapped", "live", "partially_filled"}
        BY <1>3, UsableRow
      <3>2. a.row.priced \in BOOLEAN
        BY <1>1 DEF Answer, Row
      <3>3. a.row.filled > 0 => a.row.priced
        BY <1>3, <3>2, UsableRow
      <3>. QED
        BY <2>2, <3>1, <3>3
    <2>4. ex[o] = "filled" /\ exFilled[o] = Size
      BY <2>2, <2>3 DEF FilledOf
    <2>5. n.filled >= Size
      BY <1>3, <2>3, <2>4, RefreshedByRow, SizeAssumption
    <2>6. n.filled <= exFilled[o] /\ n \in OrderRecord
      BY BackedRefresh
    <2>. QED
      BY <2>4, <2>5, <2>6, SizeAssumption DEF OrderRecord
  <1>. QED
    BY <1>2, <1>3

\* No action but a refresh makes a record FILLED; the others move it to
\* another state or leave it.
LEMMA ExecutorFilled ==
    ASSUME "priceless" \notin Faults, Backed, NEW o \in Orders, FilledOf(o),
           Executor(o)
    PROVE  FilledOf(o)'
  <1>1. order[o] \in OrderRecord /\ order \in [Orders -> OrderRecord]
    BY DEF Backed, TypeOK
  <1>2. UNCHANGED venue
    BY DEF Executor, RejectLocally, PassValidation, LeverageFails, Submit,
       PostTimesOut, PostRefused, PostAccepted, Query, Poll, WaitEnds,
       RecoveryRefresh, Cancel, CancelTimesOut, CancelRefused, CancelAccepted,
       ConfirmCancel
  <1>3. \A s \in OrderState \ {"FILLED"} :
            Transition(order[o], s).state # "FILLED"
    BY <1>1, TransitionRecord
  <1>4. CASE order' = order
    BY <1>2, <1>4 DEF FilledOf, venue
  <1>5. ASSUME NEW s \in OrderState \ {"FILLED"}, Move(o, s)
        PROVE  order'[o].state # "FILLED"
    BY <1>1, <1>3, <1>5 DEF Move, Become
  <1>6. CASE order'[o].state # "FILLED"
    BY <1>2, <1>6 DEF FilledOf, venue
  <1>7. CASE Refresh(o)
    <2>1. PICK a \in Answers(o) : order'[o] = Refreshed(order[o], a)
      BY <1>1, <1>7 DEF Refresh, Become
    <2>2. order'[o].state = "FILLED" =>
            ex[o] = "filled" /\ order'[o].filled = Size
      BY <2>1, RefreshedFilled
    <2>. QED
      BY <1>2, <2>2 DEF FilledOf, venue
  <1>8. ASSUME LeverageFails(o) \/ PostAccepted(o)
        PROVE  order'[o].state # "FILLED"
    <2>1. PICK s \in {"REJECTED", "SUBMITTED"}, b \in BOOLEAN :
            \/ Become(o, [Transition(order[o], s) EXCEPT !.timeout = b])
            \/ Become(o, [Transition(order[o], s) EXCEPT !.id = b])
      BY <1>8 DEF LeverageFails, PostAccepted
    <2>2. Transition(order[o], s) \in OrderRecord
      BY <1>1, TransitionRecord DEF OrderState
    <2>3. order'[o].state = Transition(order[o], s).state
      BY <1>1, <2>1, <2>2 DEF Become, OrderRecord
    <2>. QED
      BY <1>3, <2>3 DEF OrderState
  <1>9. CASE ConfirmCancel(o)
    <2>1. PICK a \in Answers(o) :
            LET r == Refreshed(order[o], a)
            IN  order'[o] = IF r.state \in Terminal THEN r
                            ELSE Transition(r, "CANCELED")
      BY <1>1, <1>9 DEF ConfirmCancel, Become
    <2> DEFINE r == Refreshed(order[o], a)
    <2>2. r \in OrderRecord
      BY BackedRefresh
    <2>3. Transition(r, "CANCELED").state # "FILLED"
      BY <2>2, TransitionRecord DEF OrderState
    <2>4. order'[o].state = "FILLED" =>
            ex[o] = "filled" /\ order'[o].filled = Size
      BY <2>1, <2>3, RefreshedFilled
    <2>. QED
      BY <1>2, <2>4 DEF FilledOf, venue
  <1>10. CASE \/ RejectLocally(o) \/ Submit(o) \/ PostTimesOut(o)
              \/ PostRefused(o) \/ Cancel(o) \/ CancelTimesOut(o)
    <2>1. PICK s \in {"REJECTED", "SUBMITTING", "TIMEOUT", "CANCELING"} :
            Move(o, s)
      BY <1>10 DEF RejectLocally, Submit, PostTimesOut, PostRefused, Cancel,
         CancelTimesOut
    <2>. QED
      BY <1>5, <1>6, <2>1 DEF OrderState
  <1>11. CASE \/ PassValidation(o) \/ WaitEnds(o) \/ CancelRefused(o)
              \/ CancelAccepted(o)
    BY <1>4, <1>11 DEF PassValidation, WaitEnds, CancelRefused, CancelAccepted
  <1>12. CASE Query(o) \/ Poll(o) \/ RecoveryRefresh(o)
    BY <1>7, <1>12 DEF Query, Poll, RecoveryRefresh
  <1>. QED
    BY <1>6, <1>8, <1>9, <1>10, <1>11, <1>12 DEF Executor

LEMMA ExchangeFilled ==
    ASSUME TypeOK, NEW o \in Orders, FilledOf(o), Exchange(o)
    PROVE  FilledOf(o)'
  <1> USE SizeAssumption DEF TypeOK, FilledOf, local, venue, wire
  <1>1. CASE ExTakesPost(o)
    BY <1>1 DEF ExTakesPost
  <1>2. CASE ExRefusesPost(o)
    BY <1>2 DEF ExRefusesPost
  <1>3. CASE ExFills(o)
    <2>1. PICK f \in (exFilled[o] + 1)..Size :
            /\ exFilled' = [exFilled EXCEPT ![o] = f]
            /\ ex' = [ex EXCEPT ![o] = IF f = Size THEN "filled"
                                       ELSE "partially_filled"]
      BY <1>3 DEF ExFills
    <2>2. ex[o] # "filled" /\ order' = order
      BY <1>3 DEF ExFills, Working
    <2>. QED
      BY <2>1, <2>2
  <1>4. CASE ExEnds(o)
    BY <1>4 DEF ExEnds, Working
  <1>5. CASE ExTakesCancel(o)
    BY <1>5 DEF ExTakesCancel, Working
  <1>6. CASE ExRefusesCancel(o)
    BY <1>6 DEF ExRefusesCancel
  <1>. QED
    BY <1>1, <1>2, <1>3, <1>4, <1>5, <1>6 DEF Exchange

\* The executed quantity of the other orders does not move either.
LEMMA OthersFilled ==
    ASSUME TypeOK, NEW o \in Orders, Executor(o) \/ Exchange(o),
           NEW p \in Orders, p # o
    PROVE  exFilled'[p] = exFilled[p]
  <1> USE DEF TypeOK, local, venue, wire
  <1>1. CASE Executor(o)
    BY <1>1 DEF Executor, RejectLocally, PassValidation, LeverageFails, Submit,
       PostTimesOut, PostRefused, PostAccepted, Query, Poll, WaitEnds,
       RecoveryRefresh, Cancel, CancelTimesOut, CancelRefused, CancelAccepted,
       ConfirmCancel
  <1>2. CASE Exchange(o)
    BY <1>2 DEF Exchange, ExTakesPost, ExRefusesPost, ExFills, ExEnds,
       ExTakesCancel, ExRefusesCancel
  <1>. QED
    BY <1>1, <1>2

LEMMA NextFilled ==
    ASSUME "priceless" \notin Faults, Backed, FilledInv, [Next]_vars
    PROVE  FilledInv'
  <1>1. CASE UNCHANGED vars
    BY <1>1 DEF vars, FilledInv, FilledOf
  <1>2. ASSUME NEW o \in Orders, Executor(o) \/ Exchange(o)
        PROVE  FilledInv'
    <2>1. FilledOf(o)'
      BY <1>2, ExecutorFilled, ExchangeFilled DEF Backed, FilledInv
    <2>2. ASSUME NEW p \in Orders, p # o PROVE FilledOf(p)'
      <3>1. /\ order'[p] = order[p] /\ ex'[p] = ex[p]
            /\ exFilled'[p] = exFilled[p]
        BY <1>2, <2>2, OthersUnchanged, OthersFilled DEF Backed
      <3>. QED
        BY <3>1 DEF FilledInv, FilledOf
    <2>. QED
      BY <2>1, <2>2 DEF FilledInv
  <1>. QED
    BY <1>1, <1>2 DEF Next

\* When the exchange puts a price on what it executed, a record says FILLED
\* only of an order that is completely filled, with the whole quantity booked:
\* rows may be stale or carry unknown words, cancels may be asynchronous.
THEOREM FilledMeansComplete ==
    ASSUME "priceless" \notin Faults
    PROVE  Spec => []FilledIsComplete
  <1>1. Init => FilledInv
    BY DEF Init, FilledInv, FilledOf, NewOrder
  <1>2. FilledInv => FilledIsComplete
    BY DEF FilledInv, FilledOf, FilledIsComplete
  <1>3. Backed /\ FilledInv /\ [Next]_vars => FilledInv'
    BY NextFilled
  <1>. QED
    BY <1>1, <1>2, <1>3, AlwaysBacked, PTL DEF Spec

\* Then no executed quantity is dropped either: a FILLED record, which nobody
\* queries any more, has booked all that the exchange executed.  The increment
\* without a price is the only way to lose one.
THEOREM PricedFillsAreBooked ==
    ASSUME "priceless" \notin Faults
    PROVE  Spec => []FilledLacksNothing
  <1>1. Backed /\ FilledIsComplete => FilledLacksNothing
    <2> SUFFICES ASSUME Backed, FilledIsComplete, NEW o \in Orders, order[o].state = "FILLED"
                 PROVE  order[o].filled = exFilled[o]
      BY DEF FilledLacksNothing
    <2>1. exFilled[o] \in 0..Size /\ order[o].filled <= exFilled[o] /\ Size \in Nat
      BY SizeAssumption DEF Backed, TypeOK, FillsBacked
    <2>2. order[o].filled = Size
      BY DEF FilledIsComplete
    <2>. QED
      BY <2>1, <2>2
  <1>. QED
    BY <1>1, AlwaysBacked, FilledMeansComplete, PTL

-----------------------------------------------------------------------------
(* Settled is final, as long as rows, replies and cancels tell the truth.   *)
(* The exchange may still stay silent, be late, or leave out a price.       *)

Truthful == Faults \subseteq {"priceless"}

\* Why a settled record is never contradicted: the exchange's order ended in
\* the very same way, or was never taken, and a canceling thread is the one
\* that makes its record CANCELED.
SettledOf(o) ==
    /\ order[o].state = "FILLED" => ex[o] = "filled"
    /\ order[o].state = "CANCELED" => ex[o] = "canceled"
    /\ order[o].state = "REJECTED" => ex[o] \in {"none", "rejected"}
    /\ pc[o] = "confirming" \/ cancel[o] = "ok" => ex[o] = "canceled"
    /\ pc[o] = "canceling" => order[o].state \notin Terminal

SettledInv == \A o \in Orders : SettledOf(o)

\* What a settled state says of the exchange, and what a step may do to it.
Agrees(o, r) ==
    /\ r.state = "FILLED" => ex[o] = "filled"
    /\ r.state = "CANCELED" => ex[o] = "canceled"
    /\ r.state = "REJECTED" => ex[o] \in {"none", "rejected"}

Stays(o) == order[o].state \in Settled => order'[o].state = order[o].state

LEMMA RefreshedSettled ==
    ASSUME Truthful, Backed, NEW o \in Orders, SettledOf(o),
           NEW a \in Answers(o)
    PROVE  LET n == Refreshed(order[o], a)
           IN  /\ Agrees(o, n)
               /\ order[o].state \in Settled => n.state = order[o].state
  <1> DEFINE n == Refreshed(order[o], a)
  <1>1. a \in Answer /\ order[o] \in OrderRecord
    BY AnswersType DEF Backed, TypeOK
  <1>2. CASE ~(a.kind = "data" /\ MatchOrderRow(order[o], a.row))
    <2>1. \/ n = order[o]
          \/ order[o].state \notin Settled /\ n.state \notin Settled
      BY <1>1, <1>2, RefreshedBlind
    <2> HIDE DEF n
    <2>. QED
      BY <2>1 DEF SettledOf, Agrees, Settled, n
  <1>3. CASE a.kind = "data" /\ MatchOrderRow(order[o], a.row)
    <2>1. ex[o] # "none" /\ a.row.st = ex[o]
      BY <1>3, UsableRow DEF Truthful
    <2> DEFINE w == MapBlofinState(a.row.st)
    <2>2. n.state \in {w, "UNKNOWN"} /\ (order[o].state = w => n.state = w)
      BY <1>3, RefreshedByRow
    <2>3. /\ w = "FILLED" => ex[o] = "filled"
          /\ w = "CANCELED" => ex[o] = "canceled"
          /\ w = "REJECTED" => ex[o] = "rejected"
          /\ ex[o] = "filled" => w = "FILLED"
          /\ ex[o] = "canceled" => w = "CANCELED"
          /\ ex[o] = "rejected" => w = "REJECTED"
      BY <2>1 DEF MapBlofinState
    <2> HIDE DEF n, w
    <2>4. Agrees(o, n)
      BY <2>2, <2>3 DEF Agrees
    <2>5. order[o].state \in Settled => order[o].state = w
      BY <2>1, <2>3 DEF SettledOf, Settled
    <2>. QED
      BY <2>2, <2>4, <2>5 DEF n
  <1>. QED
    BY <1>2, <1>3

\* A move to a state that is not settled agrees with any exchange.
LEMMA OpenAgrees ==
    ASSUME NEW o \in Orders, NEW r \in OrderRecord,
           NEW s \in OrderState \ Settled
    PROVE  Agrees(o, Transition(r, s))
  BY TransitionRecord DEF Agrees, Settled

LEMMA ExecutorSettled ==
    ASSUME Truthful, Backed, NEW o \in Orders, NoBlindOf(o), SettledOf(o),
           Executor(o)
    PROVE  SettledOf(o)' /\ Stays(o)
  <1> USE DEF Goto, Become, Move
  <1>1. /\ order[o] \in OrderRecord /\ order \in [Orders -> OrderRecord]
        /\ pc \in [Orders -> PC] /\ post \in [Orders -> Wire]
        /\ cancel \in [Orders -> Wire]
    BY DEF Backed, TypeOK
  <1>2. UNCHANGED venue
    BY DEF Executor, RejectLocally, PassValidation, LeverageFails, Submit,
       PostTimesOut, PostRefused, PostAccepted, Query, Poll, WaitEnds,
       RecoveryRefresh, Cancel, CancelTimesOut, CancelRefused, CancelAccepted,
       ConfirmCancel
  <1> DEFINE Calls == /\ pc'[o] = "confirming" \/ cancel'[o] = "ok"
                            => ex[o] = "canceled"
                      /\ pc'[o] = "canceling" => order'[o].state \notin Terminal
  <1>3. ASSUME Calls, Agrees(o, order'[o]), Stays(o)
        PROVE  SettledOf(o)' /\ Stays(o)
    BY <1>2, <1>3 DEF SettledOf, Agrees, venue
  <1>4. Agrees(o, order[o])
    BY DEF SettledOf, Agrees
  <1>5. ASSUME order' = order, Calls
        PROVE  SettledOf(o)' /\ Stays(o)
    BY <1>3, <1>4, <1>5 DEF Stays
  <1>6. ASSUME NEW s \in OrderState \ Settled, Move(o, s), Calls,
               order[o].state \notin Settled
        PROVE  SettledOf(o)' /\ Stays(o)
    <2>1. order'[o] = Transition(order[o], s)
      BY <1>1, <1>6
    <2>. QED
      BY <1>1, <1>3, <1>6, <2>1, OpenAgrees DEF Stays
  <1>7. ASSUME Refresh(o), Calls
        PROVE  SettledOf(o)' /\ Stays(o)
    <2>1. PICK a \in Answers(o) : order'[o] = Refreshed(order[o], a)
      BY <1>1, <1>7 DEF Refresh
    <2>2. Agrees(o, order'[o]) /\ Stays(o)
      BY <2>1, RefreshedSettled DEF Stays
    <2>. QED
      BY <1>3, <1>7, <2>2
  <1>8. ASSUME order'[o].state \in {"REJECTED", "UNKNOWN"}, Calls,
               order[o].state \notin Settled, ex[o] = "none"
        PROVE  SettledOf(o)' /\ Stays(o)
    BY <1>3, <1>8 DEF Agrees, Stays
  <1>9. /\ pc[o] = "canceling" => order[o].state \notin Settled
        /\ pc[o] \in {"new", "leverage", "posting"} => order[o].state \notin Settled
        /\ cancel[o] = "ok" => pc[o] = "canceling" /\ ex[o] = "canceled"
        /\ pc[o] = "confirming" => ex[o] = "canceled"
    BY DEF SettledOf, NoBlindOf, Terminal, Settled
  <1>10. Transition(order[o], "REJECTED").state \in {"REJECTED", "UNKNOWN"}
         /\ Transition(order[o], "REJECTED") \in OrderRecord
    BY <1>1, TransitionRecord DEF OrderState
  <1>11. CASE RejectLocally(o)
    <2>1. Calls /\ ex[o] = "none" /\ order[o].state \notin Settled
      BY <1>1, <1>9, <1>11 DEF RejectLocally, NoBlindOf, wire
    <2>2. order'[o] = Transition(order[o], "REJECTED")
      BY <1>1, <1>11 DEF RejectLocally
    <2>. QED
      BY <1>8, <1>10, <2>1, <2>2
  <1>12. CASE PassValidation(o)
    <2>1. Calls /\ order' = order
      BY <1>1, <1>9, <1>12 DEF PassValidation, wire
    <2>. QED
      BY <1>5, <2>1
  <1>13. CASE LeverageFails(o)
    <2>1. Calls /\ ex[o] = "none" /\ order[o].state \notin Settled
      BY <1>1, <1>9, <1>13 DEF LeverageFails, NoBlindOf, wire
    <2>2. PICK late \in BOOLEAN :
            order'[o] = [Transition(order[o], "REJECTED") EXCEPT !.timeout = late]
      BY <1>1, <1>13 DEF LeverageFails
    <2>3. order'[o].state = Transition(order[o], "REJECTED").state
      BY <1>10, <2>2 DEF OrderRecord
    <2>. QED
      BY <1>8, <1>10, <2>1, <2>3
  <1>14. CASE Submit(o)
    <2>1. Calls /\ Move(o, "SUBMITTING") /\ order[o].state \notin Settled
      BY <1>1, <1>9, <1>14 DEF Submit
    <2>. QED
      BY <1>6, <2>1 DEF OrderState, Settled
  <1>15. CASE PostTimesOut(o)
    <2>1. Calls /\ Move(o, "TIMEOUT") /\ order[o].state \notin Settled
      BY <1>1, <1>9, <1>15 DEF PostTimesOut
    <2>. QED
      BY <1>6, <2>1 DEF OrderState, Settled
  <1>16. CASE PostRefused(o)
    <2>1. Calls /\ ex[o] = "none" /\ order[o].state \notin Settled
      BY <1>1, <1>9, <1>16 DEF PostRefused, NoBlindOf
    <2>2. order'[o] = Transition(order[o], "REJECTED")
      BY <1>1, <1>16 DEF PostRefused
    <2>. QED
      BY <1>8, <1>10, <2>1, <2>2
  <1>17. CASE PostAccepted(o)
    <2>1. Calls /\ order[o].state \notin Settled
      BY <1>1, <1>9, <1>17 DEF PostAccepted
    <2>2. PICK named \in BOOLEAN :
            order'[o] = [Transition(order[o], "SUBMITTED") EXCEPT !.id = named]
      BY <1>1, <1>17 DEF PostAccepted
    <2>3. /\ Transition(order[o], "SUBMITTED") \in OrderRecord
          /\ Transition(order[o], "SUBMITTED").state \in {"SUBMITTED", "UNKNOWN"}
      BY <1>1, TransitionRecord DEF OrderState
    <2>4. order'[o].state \in {"SUBMITTED", "UNKNOWN"}
      BY <2>2, <2>3 DEF OrderRecord
    <2>. QED
      BY <1>3, <2>1, <2>4 DEF Agrees, Stays
  <1>18. CASE Query(o)
    <2>1. Calls /\ Refresh(o)
      BY <1>1, <1>9, <1>18 DEF Query, wire
    <2>. QED
      BY <1>7, <2>1
  <1>19. CASE Poll(o)
    <2>1. Calls /\ Refresh(o)
      BY <1>1, <1>9, <1>19 DEF Poll, wire
    <2>. QED
      BY <1>7, <2>1
  <1>20. CASE WaitEnds(o)
    <2>1. Calls /\ order' = order
      BY <1>1, <1>9, <1>20 DEF WaitEnds, wire
    <2>. QED
      BY <1>5, <2>1
  <1>21. CASE RecoveryRefresh(o)
    <2>1. Calls /\ Refresh(o)
      BY <1>1, <1>9, <1>21 DEF RecoveryRefresh, wire
    <2>. QED
      BY <1>7, <2>1
  <1>22. CASE Cancel(o)
    <2>1. Move(o, "CANCELING") /\ order[o].state \notin Terminal
          /\ pc'[o] = "canceling" /\ cancel'[o] = "sent"
      BY <1>1, <1>22 DEF Cancel
    <2>2. order'[o].state \in {"CANCELING", "UNKNOWN"}
      BY <1>1, <2>1, TransitionRecord DEF OrderState
    <2>3. Calls /\ order[o].state \notin Settled
      BY <2>1, <2>2 DEF Terminal, Settled
    <2>. QED
      BY <1>6, <2>1, <2>3 DEF OrderState, Settled
  <1>23. CASE CancelTimesOut(o)
    <2>1. Calls /\ Move(o, "TIMEOUT") /\ order[o].state \notin Settled
      BY <1>1, <1>9, <1>23 DEF CancelTimesOut
    <2>. QED
      BY <1>6, <2>1 DEF OrderState, Settled
  <1>24. CASE CancelRefused(o)
    <2>1. Calls /\ order' = order
      BY <1>1, <1>24 DEF CancelRefused
    <2>. QED
      BY <1>5, <2>1
  <1>25. CASE CancelAccepted(o)
    <2>1. Calls /\ order' = order
      BY <1>1, <1>9, <1>25 DEF CancelAccepted
    <2>. QED
      BY <1>5, <2>1
  <1>26. CASE ConfirmCancel(o)
    <2>1. PICK a \in Answers(o) :
            LET r == Refreshed(order[o], a)
            IN  order'[o] = IF r.state \in Terminal THEN r
                            ELSE Transition(r, "CANCELED")
      BY <1>1, <1>26 DEF ConfirmCancel
    <2> DEFINE r == Refreshed(order[o], a)
    <2>2. /\ r \in OrderRecord /\ Agrees(o, r)
          /\ order[o].state \in Settled => r.state = order[o].state
      BY BackedRefresh, RefreshedSettled
    <2>3. ex[o] = "canceled" /\ Calls
      BY <1>1, <1>9, <1>26 DEF ConfirmCancel, wire
    <2> HIDE DEF r
    <2>4. Transition(r, "CANCELED").state \in {"CANCELED", "UNKNOWN"}
      BY <2>2, TransitionRecord DEF OrderState
    <2>5. order'[o] = IF r.state \in Terminal THEN r
                      ELSE Transition(r, "CANCELED")
      BY <2>1 DEF r
    <2>6. Agrees(o, order'[o])
      BY <2>2, <2>3, <2>4, <2>5 DEF Agrees
    <2>7. Stays(o)
      BY <2>2, <2>5 DEF Stays, Settled, Terminal
    <2>. QED
      BY <1>3, <2>3, <2>6, <2>7
  <1>. QED
    BY <1>11, <1>12, <1>13, <1>14, <1>15, <1>16, <1>17, <1>18, <1>19, <1>20,
       <1>21, <1>22, <1>23, <1>24, <1>25, <1>26 DEF Executor

LEMMA ExchangeSettled ==
    ASSUME Truthful, TypeOK, NEW o \in Orders, NoBlindOf(o), SettledOf(o),
           Exchange(o)
    PROVE  SettledOf(o)' /\ Stays(o)
  <1> USE DEF Truthful, TypeOK, SettledOf, Stays, NoBlindOf, Working, Reply,
              Terminal, local, venue, wire
  <1>1. CASE ExTakesPost(o)
    BY <1>1 DEF ExTakesPost
  <1>2. CASE ExRefusesPost(o)
    BY <1>2 DEF ExRefusesPost
  <1>3. CASE ExFills(o)
    BY <1>3 DEF ExFills
  <1>4. CASE ExEnds(o)
    BY <1>4 DEF ExEnds
  <1>5. CASE ExTakesCancel(o)
    BY <1>5 DEF ExTakesCancel
  <1>6. CASE ExRefusesCancel(o)
    BY <1>6 DEF ExRefusesCancel
  <1>. QED
    BY <1>1, <1>2, <1>3, <1>4, <1>5, <1>6 DEF Exchange

\* The whole invariant of a truthful exchange.
Honest == Backed /\ NoBlindInductive /\ SettledInv

LEMMA NextSettled ==
    ASSUME Truthful, Honest, [Next]_vars
    PROVE  SettledInv' /\ \A o \in Orders : Stays(o)
  <1>1. CASE UNCHANGED vars
    BY <1>1 DEF Honest, vars, SettledInv, SettledOf, Stays
  <1>2. ASSUME NEW o \in Orders, Executor(o) \/ Exchange(o)
        PROVE  SettledInv' /\ \A p \in Orders : Stays(p)
    <2>1. SettledOf(o)' /\ Stays(o)
      BY <1>2, ExecutorSettled, ExchangeSettled
         DEF Honest, Backed, NoBlindInductive, SettledInv
    <2>2. ASSUME NEW p \in Orders, p # o PROVE SettledOf(p)' /\ Stays(p)
      BY <1>2, <2>2, OthersUnchanged
         DEF Honest, Backed, SettledInv, SettledOf, Stays
    <2>. QED
      BY <2>1, <2>2 DEF SettledInv
  <1>. QED
    BY <1>1, <1>2 DEF Next

LEMMA AlwaysHonest == ASSUME Truthful PROVE Spec => []Honest
  <1>1. Init => NoBlindInductive /\ SettledInv
    BY DEF Init, NoBlindInductive, NoBlindOf, SettledInv, SettledOf, NewOrder,
           Working, Terminal
  <1>2. Honest /\ [Next]_vars => Honest'
    BY NextBacked, NextNoBlind, NextSettled DEF Honest, Truthful
  <1>3. Init => Honest
    BY <1>1, InitBacked DEF Honest
  <1>. QED
    BY <1>2, <1>3, PTL DEF Spec

\* With truthful replies and rows, FILLED, CANCELED and REJECTED are final:
\* silence, late replies, further refreshes and restarts do not change them.
THEOREM SettledIsFinal ==
    ASSUME Truthful
    PROVE  Spec => SettledStays
  <1>1. Honest /\ [Next]_vars =>
          [\A o \in Orders : order[o].state \in {"FILLED", "CANCELED", "REJECTED"}
                               => order'[o].state = order[o].state]_order
    BY NextSettled DEF Stays, Settled
  <1>. QED
    BY <1>1, AlwaysHonest, PTL DEF Spec, SettledStays

-----------------------------------------------------------------------------
(* OrderExecution implements OrderPromise.                                 *)

Fates == [o \in Orders |-> Fate(o)]
Claim(o) == IF order[o].state \in {"FILLED", "CANCELED", "REJECTED"}
            THEN "closed" ELSE "open"
Claims == [o \in Orders |-> Claim(o)]
Known == [o \in Orders |-> order[o].filled]

LEMMA FateType ==
    \A o \in Orders : Fate(o) \in {"pending", "open", "closed"}
  BY DEF Fate

LEMMA OthersKeepFate ==
    ASSUME TypeOK, NEW o \in Orders, Executor(o) \/ Exchange(o),
           NEW p \in Orders, p # o
    PROVE  /\ Fate(p)' = Fate(p) /\ Claim(p)' = Claim(p)
           /\ exFilled'[p] = exFilled[p]
           /\ order'[p].filled = order[p].filled
  BY OthersUnchanged, OthersFilled DEF Fate, Working, Claim

\* A change of one order is a change of the functions at one place.
LEMMA OnePlace ==
    ASSUME TypeOK, TypeOK', NEW o \in Orders, Executor(o) \/ Exchange(o)
    PROVE  /\ Fates' = [Fates EXCEPT ![o] = Fate(o)']
           /\ Claims' = [Claims EXCEPT ![o] = Claim(o)']
           /\ exFilled' = [exFilled EXCEPT ![o] = exFilled'[o]]
           /\ Known' = [Known EXCEPT ![o] = order'[o].filled]
  <1>1. \A p \in Orders \ {o} :
            /\ Fate(p)' = Fate(p) /\ Claim(p)' = Claim(p)
            /\ exFilled'[p] = exFilled[p]
            /\ order'[p].filled = order[p].filled
    BY OthersKeepFate
  <1>2. Fates' = [Fates EXCEPT ![o] = Fate(o)']
    <2> DEFINE F(p) == Fate(p)
    <2>1. Fates = [p \in Orders |-> F(p)] /\ Fates' = [p \in Orders |-> F(p)']
      BY DEF Fates
    <2>2. \A p \in Orders \ {o} : F(p)' = F(p)
      BY <1>1
    <2> HIDE DEF F
    <2>3. Fates' = [Fates EXCEPT ![o] = F(o)']
      BY <2>1, <2>2
    <2>. QED
      BY <2>3 DEF F
  <1>3. Claims' = [Claims EXCEPT ![o] = Claim(o)']
    <2> DEFINE C(p) == Claim(p)
    <2>1. Claims = [p \in Orders |-> C(p)] /\ Claims' = [p \in Orders |-> C(p)']
      BY DEF Claims
    <2>2. \A p \in Orders \ {o} : C(p)' = C(p)
      BY <1>1
    <2> HIDE DEF C
    <2>3. Claims' = [Claims EXCEPT ![o] = C(o)']
      BY <2>1, <2>2
    <2>. QED
      BY <2>3 DEF C
  <1>4. exFilled' = [exFilled EXCEPT ![o] = exFilled'[o]]
    BY <1>1 DEF TypeOK
  <1>5. Known' = [Known EXCEPT ![o] = order'[o].filled]
    BY <1>1 DEF Known
  <1>. QED
    BY <1>2, <1>3, <1>4, <1>5

\* What a step of the executor may do to the fate and the claim of its order:
\* the request is lost, the order is given up before it was sent, or the
\* record learns, and closes only over an order that is over.
LEMMA ExecutorFate ==
    ASSUME Backed, NEW o \in Orders, NoBlindOf(o), NoBlindOf(o)', Executor(o),
           Backed', Stays(o)
    PROVE  \/ /\ Fate(o)' = Fate(o)
              /\ Claim(o)' = Claim(o)
                   \/ (Fate(o) = "closed" /\ Claim(o)' = "closed")
           \/ /\ Fate(o) = "pending" /\ Fate(o)' = "closed"
              /\ order'[o].filled = order[o].filled
              /\ Claim(o)' = Claim(o) \/ Claim(o)' = "closed"
  <1> USE DEF Goto, Become, Move, venue, wire, Terminal
  <1>1. /\ order[o] \in OrderRecord /\ order \in [Orders -> OrderRecord]
        /\ pc \in [Orders -> PC] /\ post \in [Orders -> Wire]
        /\ cancel \in [Orders -> Wire]
    BY DEF Backed, TypeOK
  <1>2. \A s \in OrderState :
          Transition(order[o], s) \in OrderRecord
            /\ Transition(order[o], s).filled = order[o].filled
    BY <1>1, TransitionRecord
  <1>3. Claim(o)' = Claim(o) \/ Claim(o)' = "closed"
    BY DEF Claim, Stays, Settled
  <1>4. UNCHANGED venue
    BY DEF Executor, RejectLocally, PassValidation, LeverageFails, Submit,
       PostTimesOut, PostRefused, PostAccepted, Query, Poll, WaitEnds,
       RecoveryRefresh, Cancel, CancelTimesOut, CancelRefused, CancelAccepted,
       ConfirmCancel
  <1>5. Claim(o)' = "closed" =>
            Fate(o)' = "closed" \/ pc'[o] \in {"new", "leverage"}
    BY DEF Claim, NoBlindOf, Fate, Working
  <1>6. pc'[o] \in {"new", "leverage"} => Claim(o)' = "open"
    BY DEF NoBlindOf, Claim
  <1>7. ASSUME Fate(o)' = Fate(o)
        PROVE  Claim(o)' = Claim(o) \/ (Fate(o) = "closed" /\ Claim(o)' = "closed")
    BY <1>3, <1>5, <1>6, <1>7
  <1>8. CASE RejectLocally(o) \/ LeverageFails(o)
    <2>1. Fate(o) = "pending" /\ Fate(o)' = "closed"
      BY <1>1, <1>4, <1>8
         DEF RejectLocally, LeverageFails, Fate, NoBlindOf, Working
    <2>2. order'[o].filled = order[o].filled
      <3>1. PICK late \in BOOLEAN :
              \/ order'[o] = Transition(order[o], "REJECTED")
              \/ order'[o] = [Transition(order[o], "REJECTED")
                                 EXCEPT !.timeout = late]
        BY <1>1, <1>8 DEF RejectLocally, LeverageFails
      <3>. QED
        BY <1>2, <3>1 DEF OrderState, OrderRecord
    <2>. QED
      BY <1>3, <2>1, <2>2
  <1>9. CASE PostTimesOut(o)
    <2>1. order'[o].filled = order[o].filled
      BY <1>1, <1>2, <1>9 DEF PostTimesOut, OrderState
    <2>2. \/ Fate(o)' = Fate(o)
          \/ Fate(o) = "pending" /\ Fate(o)' = "closed"
      BY <1>1, <1>4, <1>9 DEF PostTimesOut, Fate, Working, NoBlindOf
    <2>. QED
      BY <1>3, <1>7, <2>1, <2>2
  <1>10. CASE PassValidation(o) \/ Submit(o)
    <2>1. Fate(o)' = Fate(o)
      BY <1>1, <1>4, <1>10 DEF PassValidation, Submit, Fate, Working, NoBlindOf
    <2>. QED
      BY <1>7, <2>1
  <1>11. CASE PostRefused(o) \/ PostAccepted(o)
    <2>1. Fate(o)' = Fate(o)
      BY <1>1, <1>4, <1>11 DEF PostRefused, PostAccepted, Fate, Working
    <2>. QED
      BY <1>7, <2>1
  <1>12. CASE \/ Query(o) \/ Poll(o) \/ WaitEnds(o) \/ RecoveryRefresh(o)
              \/ Cancel(o) \/ CancelTimesOut(o) \/ CancelRefused(o)
              \/ CancelAccepted(o) \/ ConfirmCancel(o)
    <2>1. Fate(o)' = Fate(o)
      BY <1>1, <1>4, <1>12 DEF Query, Poll, WaitEnds, RecoveryRefresh, Cancel,
         CancelTimesOut, CancelRefused, CancelAccepted, ConfirmCancel, Fate,
         Working
    <2>. QED
      BY <1>7, <2>1
  <1>. QED
    BY <1>8, <1>9, <1>10, <1>11, <1>12 DEF Executor

\* A step of the exchange lets the order progress and tells nobody.
LEMMA ExchangeFate ==
    ASSUME TypeOK, NEW o \in Orders, NoBlindOf(o), Exchange(o)
    PROVE  /\ UNCHANGED order
           /\ exFilled'[o] \in exFilled[o]..Size
           /\ \/ Fate(o)' = Fate(o) /\ exFilled' = exFilled
              \/ /\ Fate(o) # "closed" /\ Fate(o)' \in {"open", "closed"}
                 /\ Fate(o) = "pending" => exFilled' = exFilled
  <1> USE SizeAssumption
      DEF TypeOK, NoBlindOf, Fate, Working, Reply, local, venue, wire
  <1>1. CASE ExTakesPost(o)
    BY <1>1 DEF ExTakesPost
  <1>2. CASE ExRefusesPost(o)
    BY <1>2 DEF ExRefusesPost
  <1>3. CASE ExFills(o)
    <2>1. PICK f \in (exFilled[o] + 1)..Size :
            /\ exFilled' = [exFilled EXCEPT ![o] = f]
            /\ ex' = [ex EXCEPT ![o] = IF f = Size THEN "filled"
                                       ELSE "partially_filled"]
      BY <1>3 DEF ExFills
    <2>2. Working(o) /\ UNCHANGED local
      BY <1>3 DEF ExFills
    <2>. QED
      BY <2>1, <2>2
  <1>4. CASE ExEnds(o)
    BY <1>4 DEF ExEnds
  <1>5. CASE ExTakesCancel(o)
    BY <1>5 DEF ExTakesCancel
  <1>6. CASE ExRefusesCancel(o)
    BY <1>6 DEF ExRefusesCancel
  <1>. QED
    BY <1>1, <1>2, <1>3, <1>4, <1>5, <1>6 DEF Exchange

LEMMA PromiseNext ==
    ASSUME Truthful, Honest, Honest', [Next]_vars
    PROVE  [Promise!Next]_(Promise!vars)
  <1>1. CASE UNCHANGED vars
    BY <1>1 DEF vars, Promise!vars, Fate, Working
  <1>2. ASSUME NEW o \in Orders, Executor(o) \/ Exchange(o)
        PROVE  Promise!Next \/ UNCHANGED Promise!vars
    <2>1. /\ Backed /\ Backed' /\ TypeOK /\ TypeOK'
          /\ NoBlindOf(o) /\ NoBlindOf(o)' /\ Stays(o)
      BY NextSettled DEF Honest, Backed, NoBlindInductive
    <2>2. /\ Fates' = [Fates EXCEPT ![o] = Fate(o)']
          /\ Claims' = [Claims EXCEPT ![o] = Claim(o)']
          /\ exFilled' = [exFilled EXCEPT ![o] = exFilled'[o]]
          /\ Known' = [Known EXCEPT ![o] = order'[o].filled]
      BY <1>2, <2>1, OnePlace
    <2>3. /\ Fates[o] = Fate(o) /\ Claims[o] = Claim(o)
          /\ Known[o] = order[o].filled
      BY DEF Fates, Claims, Known
    <2>4. order'[o].filled \in order[o].filled..exFilled'[o]
      <3>1. /\ order[o].filled \in Int /\ order'[o].filled \in Int
            /\ exFilled'[o] \in Int
        BY <2>1, SizeAssumption DEF TypeOK, OrderRecord
      <3>2. order'[o].filled <= exFilled'[o]
        BY <2>1 DEF Backed, FillsBacked
      <3>3. order'[o].filled >= order[o].filled
        BY <2>1, NextBacked DEF FilledGrows
      <3>. QED
        BY <3>1, <3>2, <3>3
    <2>5. Promise!Next <=> \E q \in Orders :
             Promise!Progress(q) \/ Promise!Learn(q) \/ Promise!Abandon(q)
      BY DEF Promise!Next
    <2>6. CASE Executor(o)
      <3>1. exFilled' = exFilled
        BY <2>6 DEF Executor, RejectLocally, PassValidation, LeverageFails,
           Submit, PostTimesOut, PostRefused, PostAccepted, Query, Poll,
           WaitEnds, RecoveryRefresh, Cancel, CancelTimesOut, CancelRefused,
           CancelAccepted, ConfirmCancel, venue
      <3>2. CASE /\ Fate(o)' = Fate(o)
                 /\ Claim(o)' = Claim(o)
                      \/ (Fate(o) = "closed" /\ Claim(o)' = "closed")
        <4>1. Fates' = Fates
          BY <2>2, <2>3, <3>2 DEF Fates
        <4>2. Claims' = Claims \/ (Fates[o] = "closed"
                                     /\ Claims' = [Claims EXCEPT ![o] = "closed"])
          BY <2>2, <2>3, <3>2 DEF Claims
        <4>3. \E q \in Known[o]..exFilled[o] : Known' = [Known EXCEPT ![o] = q]
          BY <2>2, <2>3, <2>4, <3>1
        <4>. QED
          BY <2>5, <3>1, <4>1, <4>2, <4>3
             DEF Promise!Learn, Fates, Claims, Claim, Known
      <3>3. CASE /\ Fate(o) = "pending" /\ Fate(o)' = "closed"
                 /\ order'[o].filled = order[o].filled
                 /\ Claim(o)' = Claim(o) \/ Claim(o)' = "closed"
        <4>1. Fates[o] = "pending" /\ Fates' = [Fates EXCEPT ![o] = "closed"]
          BY <2>2, <2>3, <3>3
        <4>2. Known' = Known
          BY <2>2, <2>3, <3>3 DEF Known
        <4>3. Claims' = Claims \/ Claims' = [Claims EXCEPT ![o] = "closed"]
          BY <2>2, <2>3, <3>3 DEF Claims
        <4>4. exFilled[o] \in exFilled[o]..Size
              /\ exFilled' = [exFilled EXCEPT ![o] = exFilled[o]]
          BY <2>1, <3>1, SizeAssumption DEF TypeOK
        <4>5. Promise!Progress(o) \/ Promise!Abandon(o)
          BY <3>1, <4>1, <4>2, <4>3, <4>4
             DEF Promise!Progress, Promise!Abandon, Fates, Claims, Claim, Known
        <4>. QED
          BY <2>5, <4>5
      <3>. QED
        BY <2>1, <2>6, <3>2, <3>3, ExecutorFate
    <2>7. CASE Exchange(o)
      <3>1. /\ UNCHANGED order
            /\ exFilled'[o] \in exFilled[o]..Size
            /\ \/ Fate(o)' = Fate(o) /\ exFilled' = exFilled
               \/ /\ Fate(o) # "closed" /\ Fate(o)' \in {"open", "closed"}
                  /\ Fate(o) = "pending" => exFilled' = exFilled
        BY <2>1, <2>7, ExchangeFate
      <3>2. Claims' = Claims /\ Known' = Known
        BY <3>1 DEF Claims, Claim, Known
      <3>3. CASE Fate(o)' = Fate(o) /\ exFilled' = exFilled
        <4>1. Fates' = Fates
          BY <2>2, <2>3, <3>3 DEF Fates
        <4>. QED
          BY <3>2, <3>3, <4>1 DEF Promise!vars, Fates, Claims, Claim, Known
      <3>4. CASE /\ Fate(o) # "closed" /\ Fate(o)' \in {"open", "closed"}
                 /\ Fate(o) = "pending" => exFilled' = exFilled
        <4>1. /\ Fates[o] # "closed"
              /\ \E f \in {"open", "closed"} : Fates' = [Fates EXCEPT ![o] = f]
              /\ \E q \in exFilled[o]..Size : exFilled' = [exFilled EXCEPT ![o] = q]
              /\ Fates[o] = "pending" => exFilled' = exFilled
          BY <2>2, <2>3, <3>1, <3>4
        <4>2. Promise!Progress(o)
          BY <3>2, <4>1 DEF Promise!Progress, Fates, Claims, Claim, Known
        <4>. QED
          BY <2>5, <4>2
      <3>. QED
        BY <3>1, <3>3, <3>4
    <2>. QED
      BY <1>2, <2>6, <2>7
  <1>. QED
    BY <1>1, <1>2 DEF Next

\* The executor keeps the promise of OrderPromise: every behaviour of
\* place_order, refresh_order, cancel_order and a truthful exchange is, seen
\* through the refinement mapping, a behaviour of the abstract specification.
THEOREM ExecutorKeepsPromise ==
    ASSUME Truthful
    PROVE  Spec => KeepsPromise
  <1>1. Init => Promise!Init
    BY DEF Init, Promise!Init, Fate, NewOrder
  <1>2. Honest /\ Honest' /\ [Next]_vars => [Promise!Next]_(Promise!vars)
    BY PromiseNext
  <1>. QED
    BY <1>1, <1>2, AlwaysHonest, PTL DEF Spec, KeepsPromise, Promise!Spec
=============================================================================
