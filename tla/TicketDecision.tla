--------------------------- MODULE TicketDecision ---------------------------
(***************************************************************************)
(* What a ticket promises, without requests, transactions or locks: it is  *)
(* opened with a number of steps, its steps are approved one after the     *)
(* other, it ends once, and its effect (a permission, an activated token)  *)
(* exists exactly when its last step was approved.                         *)
(***************************************************************************)
EXTENDS Naturals

CONSTANT Ticket

VARIABLE ticket

States == {"absent", "pending", "approved", "rejected", "closed"}
Absent == [state |-> "absent", levels |-> 0, approvals |-> 0, effect |-> FALSE]

Init == ticket = [t \in Ticket |-> Absent]

Opened(old, new) ==
    /\ old = Absent
    /\ new.levels \in Nat \ {0}
    /\ new = [Absent EXCEPT !.state = "pending", !.levels = new.levels]

StepApproved(old, new) ==
    /\ old.state = "pending"
    /\ old.approvals + 1 < old.levels
    /\ new = [old EXCEPT !.approvals = @ + 1]

LastApproved(old, new) ==
    /\ old.state = "pending"
    /\ old.approvals + 1 = old.levels
    /\ new = [old EXCEPT !.approvals = @ + 1, !.state = "approved", !.effect = TRUE]

Ended(old, new) ==
    /\ old.state = "pending"
    /\ new.state \in {"rejected", "closed"}
    /\ new = [old EXCEPT !.state = new.state]

Decision(old, new) ==
    Opened(old, new) \/ StepApproved(old, new) \/ LastApproved(old, new) \/ Ended(old, new)

\* One request may decide several tickets, each of them once.
Next ==
    /\ ticket' = [t \in Ticket |-> ticket'[t]]
    /\ \A t \in Ticket : ticket'[t] = ticket[t] \/ Decision(ticket[t], ticket'[t])

Spec == Init /\ [][Next]_ticket
=============================================================================
