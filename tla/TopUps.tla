------------------------------- MODULE TopUps -------------------------------
(***************************************************************************)
(* Topping up a company's wallet: orders, the payments people make on them *)
(* at the gateway, and the calls that bring the gateway's word back.       *)
(*                                                                         *)
(* A call is a webhook delivery, which the gateway repeats until it is     *)
(* answered, or a confirmation, which asks the gateway itself.  Each reads *)
(* the order, decides, and writes in one transaction keyed on the payment; *)
(* calls overlap, arrive in any order and die between any two steps.       *)
(***************************************************************************)
EXTENDS Integers, FiniteSets

CONSTANTS
    Orders, Payments, TopUpCalls,
    NoPayment,
    MaxDied       \* bound on calls that die half-way

ASSUME TopUpsAssumption == NoPayment \notin Payments /\ MaxDied \in Nat

VARIABLES
    orderStatus,   \* payment_orders.status ("none": not made yet)
    paidBy,        \* payment_orders.gatewayPaymentId
    payment,       \* the gateway's own record of each payment
    undelivered,   \* events the gateway has not had an answer to
    topUpCall,     \* calls in flight
    credited,      \* payments with a topup:<id> posting in the ledger
    racedCredit,   \* payments posted by a call that had read its order before another was
    died           \* calls that died

topUpVars == <<orderStatus, paidBy, payment, undelivered, topUpCall, credited, racedCredit, died>>

OrderStatuses == {"none", "CREATED", "FAILED", "CAPTURED"}
PaymentStatuses == {"pending", "failed", "captured"}
Sums == {"ordered", "other"}
NotPaid == [status |-> "none", of |-> NoPayment, sum |-> "ordered"]
Event == [payment : Payments, status : PaymentStatuses]
TopUpSteps == {"none", "read", "fail", "post", "answer"}
\* about: the payment and what the gateway said of it; from: webhook or confirmation.
TopUpCall == [at : TopUpSteps, about : Event \cup {NoPayment}, from : {"webhook", "confirm"}, sawCredit : BOOLEAN]
NoTopUpCall == [at |-> "none", about |-> NoPayment, from |-> "webhook", sawCredit |-> FALSE]

TopUpsInit ==
    /\ orderStatus = [o \in Orders |-> "none"] /\ paidBy = [o \in Orders |-> NoPayment]
    /\ payment = [p \in Payments |-> NotPaid]
    /\ undelivered = {} /\ credited = {} /\ racedCredit = {} /\ died = 0
    /\ topUpCall = [c \in TopUpCalls |-> NoTopUpCall]

OrderOf(p) == payment[p].of
CreditedFor(o) == {p \in credited : OrderOf(p) = o}

-----------------------------------------------------------------------------
(* The owner's page and the gateway. *)

\* The gateway's order is made first; one without a row of ours is never paid.
CreateTopUp(o) ==
    /\ orderStatus[o] = "none"
    /\ orderStatus' = [orderStatus EXCEPT ![o] = "CREATED"]
    /\ UNCHANGED <<paidBy, payment, undelivered, topUpCall, credited, racedCredit, died>>

\* Someone pays in the checkout window, again perhaps, or in another tab.
Pay(o, p) ==
    /\ orderStatus[o] # "none" /\ payment[p] = NotPaid
    /\ \E sum \in Sums : payment' = [payment EXCEPT ![p] = [status |-> "pending", of |-> o, sum |-> sum]]
    /\ UNCHANGED <<orderStatus, paidBy, undelivered, topUpCall, credited, racedCredit, died>>

\* The gateway settles a payment and owes us the event that says so.
Settle(p, status) ==
    /\ payment[p].status = "pending"
    /\ payment' = [payment EXCEPT ![p].status = status]
    /\ undelivered' = undelivered \cup {[payment |-> p, status |-> status]}
    /\ UNCHANGED <<orderStatus, paidBy, topUpCall, credited, racedCredit, died>>

-----------------------------------------------------------------------------
(* Calls. *)

Arrives(c, p, status, from) ==
    topUpCall' = [topUpCall EXCEPT ![c] =
        [at |-> "read", about |-> [payment |-> p, status |-> status], from |-> from, sawCredit |-> FALSE]]
GoesOn(c, step) == topUpCall' = [topUpCall EXCEPT ![c].at = step]

\* Deliveries are kept as they came; those whose signature fails go no further.
HandleWebhook(c, e) ==
    /\ topUpCall[c] = NoTopUpCall /\ e \in undelivered
    /\ Arrives(c, e.payment, e.status, "webhook")
    /\ UNCHANGED <<orderStatus, paidBy, payment, undelivered, credited, racedCredit, died>>

\* The page sends its signature, and the gateway is asked what became of it.
ConfirmTopUp(c, p) ==
    /\ topUpCall[c] = NoTopUpCall /\ payment[p] # NotPaid
    /\ Arrives(c, p, payment[p].status, "confirm")
    /\ UNCHANGED <<orderStatus, paidBy, payment, undelivered, credited, racedCredit, died>>

\* Mutant: an order that failed once stays failed.
AfterReadOnce(e) ==
    CASE e.status = "failed" -> "fail"
      [] e.status = "captured" /\ payment[e.payment].sum = "ordered" /\ orderStatus[OrderOf(e.payment)] = "CREATED" -> "post"
      [] OTHER -> "answer"

\* What applyPayment does next, by the order it read: nothing for money that did
\* not move, is not what was asked for, or comes second.
AfterRead(e) ==
    CASE e.status = "failed" -> "fail"
      [] /\ e.status = "captured" /\ payment[e.payment].sum = "ordered"
         /\ orderStatus[OrderOf(e.payment)] = "CAPTURED" => paidBy[OrderOf(e.payment)] = e.payment -> "post"
      [] OTHER -> "answer"

ReadOrder(c) ==
    LET e == topUpCall[c].about IN
    /\ topUpCall[c].at = "read"
    /\ topUpCall' = [topUpCall EXCEPT ![c].at = AfterRead(e),
                                      ![c].sawCredit = CreditedFor(OrderOf(e.payment)) # {}]
    /\ UNCHANGED <<orderStatus, paidBy, payment, undelivered, credited, racedCredit, died>>

\* Mutant: a failure is written whatever the order has become.
FailsAnyway(o) == orderStatus[o] # "none"

\* Only an order nothing has come of fails.
Fails(o) == orderStatus[o] = "CREATED"

MarkFailed(c) ==
    LET o == OrderOf(topUpCall[c].about.payment) IN
    /\ topUpCall[c].at = "fail"
    /\ orderStatus' = IF Fails(o) THEN [orderStatus EXCEPT ![o] = "FAILED"] ELSE orderStatus
    /\ GoesOn(c, "answer")
    /\ UNCHANGED <<paidBy, payment, undelivered, credited, racedCredit, died>>

\* The posting and the order are one transaction; a posting that is there
\* already, or that another call commits first, leaves both alone.
PostTopUp(c) ==
    LET p == topUpCall[c].about.payment
        o == OrderOf(p)
    IN
    /\ topUpCall[c].at = "post"
    /\ IF p \in credited THEN UNCHANGED <<orderStatus, paidBy, credited, racedCredit>>
       ELSE /\ credited' = credited \cup {p}
            /\ racedCredit' = IF CreditedFor(o) # {} /\ ~topUpCall[c].sawCredit
                              THEN racedCredit \cup {p} ELSE racedCredit
            /\ orderStatus' = [orderStatus EXCEPT ![o] = "CAPTURED"]
            /\ paidBy' = [paidBy EXCEPT ![o] = p]
    /\ GoesOn(c, "answer")
    /\ UNCHANGED <<payment, undelivered, died>>

\* A webhook that is answered is not delivered again; a confirmation tells the
\* page.
Answer(c) ==
    /\ topUpCall[c].at = "answer"
    /\ undelivered' = undelivered \ (IF topUpCall[c].from = "webhook" THEN {topUpCall[c].about} ELSE {})
    /\ topUpCall' = [topUpCall EXCEPT ![c] = NoTopUpCall]
    /\ UNCHANGED <<orderStatus, paidBy, payment, credited, racedCredit, died>>

\* The API dies, or the answer does not arrive.
Dies(c) ==
    /\ topUpCall[c] # NoTopUpCall /\ died < MaxDied
    /\ died' = died + 1
    /\ topUpCall' = [topUpCall EXCEPT ![c] = NoTopUpCall]
    /\ UNCHANGED <<orderStatus, paidBy, payment, undelivered, credited, racedCredit>>

-----------------------------------------------------------------------------
CallStep(c) == ReadOrder(c) \/ MarkFailed(c) \/ PostTopUp(c) \/ Answer(c)

TopUpsNext ==
    \/ \E o \in Orders : CreateTopUp(o) \/ \E p \in Payments : Pay(o, p)
    \/ \E p \in Payments, status \in {"failed", "captured"} : Settle(p, status)
    \/ \E c \in TopUpCalls : \/ CallStep(c) \/ Dies(c)
                              \/ \E e \in Event : HandleWebhook(c, e)
                              \/ \E p \in Payments : ConfirmTopUp(c, p)

TopUpsSpec == TopUpsInit /\ [][TopUpsNext]_topUpVars

-----------------------------------------------------------------------------
(* Properties. *)

\* Every variable has its type.
TopUpsTypeOK ==
    /\ orderStatus \in [Orders -> OrderStatuses] /\ paidBy \in [Orders -> Payments \cup {NoPayment}]
    /\ payment \in [Payments -> [status : PaymentStatuses, of : Orders, sum : Sums] \cup {NotPaid}]
    /\ undelivered \subseteq Event /\ topUpCall \in [TopUpCalls -> TopUpCall]
    /\ credited \subseteq Payments /\ racedCredit \subseteq Payments /\ died \in 0..MaxDied

\* An order says it is paid, and by whom, exactly when a captured payment of it
\* for the sum it asked for is in the ledger: whatever arrives late or again
\* neither undoes a credit nor makes up one (applyPayment).
PaidMeansCredited ==
    /\ \A o \in Orders : IF orderStatus[o] = "CAPTURED" THEN paidBy[o] \in CreditedFor(o) ELSE CreditedFor(o) = {}
    /\ \A p \in credited : payment[p].status = "captured" /\ payment[p].sum = "ordered"

\* Two payments of one order are both credited only if the second was read
\* before the first was posted; otherwise it is left for a refund (applyPayment).
SecondPaymentRefused ==
    \A p, q \in credited : OrderOf(p) = OrderOf(q) => p = q \/ p \in racedCredit \/ q \in racedCredit

\* Both: what the ledger was credited with is what the orders say was paid
\* (applyPayment).
CreditsMatchOrders == PaidMeansCredited /\ SecondPaymentRefused

\* Money the gateway took is credited, or another payment of the order is,
\* however many deliveries die: the gateway repeats what was not answered.
MoneyTakenIsCredited ==
    \A p \in Payments :
        (payment[p].status = "captured" /\ payment[p].sum = "ordered") ~> (payment[p].status = "captured" /\ CreditedFor(OrderOf(p)) # {})
=============================================================================
