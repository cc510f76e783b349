---------------------------- MODULE OrderPromise ----------------------------
(***************************************************************************)
(* What the holder of an order record may rely on, whatever happens on the *)
(* wire.  `fate` is what can still happen to the order at the exchange,    *)
(* `executed` what did; `claim` and `known` are what the record says.      *)
(* The record may lag behind the exchange but never runs ahead of it, and  *)
(* once it is closed it is closed for good.                                *)
(***************************************************************************)
EXTENDS Integers

CONSTANTS Orders, Size

VARIABLES fate, executed, claim, known

vars == <<fate, executed, claim, known>>

Init ==
    /\ fate = [o \in Orders |-> "pending"]
    /\ executed = [o \in Orders |-> 0]
    /\ claim = [o \in Orders |-> "open"]
    /\ known = [o \in Orders |-> 0]

\* A pending order starts to work, is executed further or comes to its end.
Progress(o) ==
    /\ fate[o] # "closed"
    /\ \E f \in {"open", "closed"} : fate' = [fate EXCEPT ![o] = f]
    /\ \E q \in executed[o]..Size : executed' = [executed EXCEPT ![o] = q]
    /\ fate[o] = "pending" => executed' = executed
    /\ UNCHANGED <<claim, known>>

\* The record catches up; it closes only when the order can do nothing more.
\* A closed record may still learn of an execution that came before the end.
Learn(o) ==
    /\ \E q \in known[o]..executed[o] : known' = [known EXCEPT ![o] = q]
    /\ \/ UNCHANGED claim
       \/ fate[o] = "closed" /\ claim' = [claim EXCEPT ![o] = "closed"]
    /\ UNCHANGED <<fate, executed>>

\* The order is given up before it was sent.
Abandon(o) ==
    /\ fate[o] = "pending"
    /\ fate' = [fate EXCEPT ![o] = "closed"]
    /\ claim' = [claim EXCEPT ![o] = "closed"]
    /\ UNCHANGED <<executed, known>>

Next == \E o \in Orders : Progress(o) \/ Learn(o) \/ Abandon(o)

Spec == Init /\ [][Next]_vars

=============================================================================
