--------------------------- MODULE OrderAggregate ---------------------------
(***************************************************************************)
(* The Order aggregate root (Ordering.Domain): the six values of           *)
(* OrderStatus and what each domain method makes of the status it finds.   *)
(* A method throws an OrderingDomainException, leaves the aggregate as it  *)
(* is, or changes the status and, all but one of them, raises one domain   *)
(* event.                                                                  *)
(*                                                                         *)
(* Pure operators: which process calls them, and between which reads and   *)
(* writes of the database, is the business of module Ordering.             *)
(***************************************************************************)

Submitted          == "Submitted"
AwaitingValidation == "AwaitingValidation"
StockConfirmed     == "StockConfirmed"
Paid               == "Paid"
Shipped            == "Shipped"
Cancelled          == "Cancelled"

Status == {Submitted, AwaitingValidation, StockConfirmed, Paid, Shipped, Cancelled}

\* The domain methods, named after the commands that call them.
StatusOp == {"SetAwaitingValidation", "SetStockConfirmed", "SetStockRejected",
             "SetPaid", "Ship", "Cancel"}

\* Mutant of Throws: SetShippedStatus lost its guard.
ThrowsMutant(op, status) == op = "Cancel" /\ status \in {Paid, Shipped}

\* SetShippedStatus and SetCancelledStatus refuse; the other methods never throw.
Throws(op, status) ==
    \/ op = "Ship"   /\ status # Paid
    \/ op = "Cancel" /\ status \in {Paid, Shipped}

\* Mutant of Acts: the methods that should be no-ops test for Cancelled only.
ActsMutant(op, status) ==
    \/ op \notin {"Ship", "Cancel"} /\ status # Cancelled
    \/ op \in {"Ship", "Cancel"}    /\ ~Throws(op, status)

\* The statuses on which a method does something.  On the others it throws or
\* is a silent no-op; Cancel acts on a Cancelled order, too.
Acts(op, status) ==
    \/ op = "SetAwaitingValidation" /\ status = Submitted
    \/ op = "SetStockConfirmed"     /\ status = AwaitingValidation
    \/ op = "SetStockRejected"      /\ status = AwaitingValidation
    \/ op = "SetPaid"               /\ status = StockConfirmed
    \/ op \in {"Ship", "Cancel"}    /\ ~Throws(op, status)

\* The status an acting method leaves.
Target(op) == CASE op = "SetAwaitingValidation"            -> AwaitingValidation
                [] op = "SetStockConfirmed"                -> StockConfirmed
                [] op = "SetPaid"                          -> Paid
                [] op = "Ship"                             -> Shipped
                [] op \in {"SetStockRejected", "Cancel"}   -> Cancelled

\* The method as a whole.
NewStatus(op, status) == IF Acts(op, status) THEN Target(op) ELSE status

\* Mutant of Raises: AddDomainEvent outside the if block of SetPaidStatus.
RaisesMutant(op, status) == op = "SetPaid" \/ (Acts(op, status) /\ op # "SetStockRejected")

\* SetCancelledStatusWhenStockIsRejected is the one method that raises nothing.
Raises(op, status) == Acts(op, status) /\ op # "SetStockRejected"

=============================================================================
