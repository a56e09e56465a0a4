--------------------------- MODULE PaymentService ---------------------------
(***************************************************************************)
(* What paying to CAMO accounts promises, with neither blocks nor keys:    *)
(* who sends a payment, and that its addressee, and no other, gets it.     *)
(***************************************************************************)
CONSTANTS Recipient, PaymentId

VARIABLES
    sent,     \* the payments that were made
    received  \* the payments that were received, each with who received it

vars == <<sent, received>>

Payment == [to : Recipient, id : PaymentId]

TypeOK == sent \subseteq Payment /\ received \subseteq Payment

Init == sent = {} /\ received = {}

Pay(p) ==
    /\ p \notin sent
    /\ sent' = sent \cup {p}
    /\ UNCHANGED received

Receive(p) ==
    /\ p \in sent \ received
    /\ received' = received \cup {p}
    /\ UNCHANGED sent

Next == \E p \in Payment : Pay(p) \/ Receive(p)

Spec == Init /\ [][Next]_vars

\* What fairness of Receive gives: no payment remains due.
Due(id) == \E p \in sent \ received : p.id = id
EveryPaymentReceived == \A id \in PaymentId : Due(id) ~> ~Due(id)
=============================================================================
