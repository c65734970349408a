------------------------------ MODULE IntentLifecycle -----------------------------
(***************************************************************************)
(* What a payment intent promises, whatever the handlers do to bring it    *)
(* about: its status only moves along the state machine's table, and the   *)
(* payment it stands for is fixed once, no later than the moment it counts *)
(* as submitted.  An intent can be replaced as a whole; what replaces it   *)
(* is another intent and no longer this one.                               *)
(***************************************************************************)
EXTENDS IntentStatus

CONSTANTS Intents, Payments, NoPayment

VARIABLES life, payment

Submitted == {"SUBMITTED", "PENDING", "COMPLETED"}

Init ==
  /\ life = [i \in Intents |-> "DRAFT"]
  /\ payment = [i \in Intents |-> NoPayment]

\* Statuses on the way that the payment does not depend on.
Advance(i, status) ==
  /\ life[i] \in Statuses
  /\ status \in Reachable[life[i]]
  /\ status \in Submitted => payment[i] # NoPayment
  /\ life' = [life EXCEPT ![i] = status]
  /\ UNCHANGED payment

\* The payment is made: it was not before, and the status says so from now on.
Pay(i, status, p) ==
  /\ life[i] \in Statuses
  /\ status \in Reachable[life[i]] \cap (Submitted \cup {"FAILED"})
  /\ payment[i] = NoPayment
  /\ life' = [life EXCEPT ![i] = status]
  /\ payment' = [payment EXCEPT ![i] = p]

Replace(i) ==
  /\ life[i] # "DRAFT"
  /\ life' = [life EXCEPT ![i] = "REPLACED"]
  /\ payment' = [payment EXCEPT ![i] = NoPayment]

Next ==
  \E i \in Intents :
    \/ \E s \in Statuses : Advance(i, s)
    \/ \E s \in Statuses, p \in Payments : Pay(i, s, p)
    \/ Replace(i)

Spec == Init /\ [][Next]_<<life, payment>>
===============================================================================
