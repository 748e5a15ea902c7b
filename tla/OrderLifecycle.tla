--------------------------- MODULE OrderLifecycle ---------------------------
(***************************************************************************)
(* What an order may do, whoever keeps it: the venue's book of orders, or  *)
(* the order manager's cache of them.  An order is accepted or refused     *)
(* once, is filled in positive steps that never exceed its quantity, is    *)
(* FILLED exactly when nothing remains, and once closed never changes.     *)
(* Only a restart of the process, which forgets every order, empties it.   *)
(***************************************************************************)
EXTENDS Integers

CONSTANTS Oids, Quantities

VARIABLE orders

Absent == [status |-> "ABSENT", filled |-> 0, quantity |-> 0]

Working == {"ACKED", "PARTIALLY_FILLED"}

Init == orders = [o \in Oids |-> Absent]

Accept(o) ==
  /\ orders[o] = Absent
  /\ \E q \in Quantities, s \in {"ACKED", "REJECTED"} :
       orders' = [orders EXCEPT ![o] =
                    [status |-> s, filled |-> 0, quantity |-> q]]

Fill(o) ==
  /\ orders[o].status \in Working
  /\ \E n \in 1 .. (orders[o].quantity - orders[o].filled) :
       LET total == orders[o].filled + n
       IN  orders' = [orders EXCEPT ![o] =
             [status   |-> IF total = @.quantity THEN "FILLED" ELSE "PARTIALLY_FILLED",
              filled   |-> total,
              quantity |-> @.quantity]]

Cancel(o) ==
  /\ orders[o].status \in Working
  /\ orders' = [orders EXCEPT ![o] = [@ EXCEPT !.status = "CANCELLED"]]

Forget == orders' = [o \in Oids |-> Absent]

Next == (\E o \in Oids : Accept(o) \/ Fill(o) \/ Cancel(o)) \/ Forget

Spec == Init /\ [][Next]_orders

=============================================================================
