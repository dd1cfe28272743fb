---------------------------- MODULE OrderPayment ----------------------------
(***************************************************************************)
(* Checkout, payment and cancellation of orders, as the backend runs them: *)
(* every request, webhook delivery and sweep is a job whose database       *)
(* transactions and provider calls are separate steps, interleaved with    *)
(* every other job, with vendors changing stock, admins changing vendor    *)
(* approval, and crashes between any two steps.                            *)
(*                                                                         *)
(*   checkout.service.ts        CheckoutValidate .. PaymentOrderFailed     *)
(*   webhooks.controller.ts     WebhookCaptured                            *)
(*   orders.service.ts          CancelRequested, SweepPicked,              *)
(*                              CloseRefunded                              *)
(*   order-payment.service.ts   AskProvider .. Recheck                     *)
(*   refund-status.ts           RefundProjection                           *)
(*   stock.service.ts           SetStock                                   *)
(*                                                                         *)
(* A transaction is one step: its first statement is a guarded UPDATE of   *)
(* the order row (or a FOR UPDATE of the inventory rows), whose locks it   *)
(* keeps to its commit.  A transaction Postgres aborts is a crashed job.   *)
(* payment_events and notifications are written and never read back, so    *)
(* they are left out, and so are the statuses of vendor groups.            *)
(***************************************************************************)
EXTENDS Integers, FiniteSets

CONSTANTS
  Orders, Listings, Vendors, Payments,
  Workers,              \* concurrent requests, webhook deliveries and sweeps
  NoOrder, NoPayment,
  Qty,                  \* Qty[o][l]: units of l in o, 0 when o has no such line
  MaxQty,               \* largest quantity of a line
  SellerOf,             \* vendor of a listing
  OrderOf,              \* order whose razorpay_order_id a payment was made on
  Exact,                \* payments in INR of exactly the order's grand total
  StockLevels,          \* numbers a vendor may set quantity_available to
  MaxCrashes,           \* bound on crashes
  CancelWhileCreating   \* may a cancel reach an order whose checkout request
                        \* is still waiting for Razorpay's createOrder?

ASSUME OrdersAssumption ==
  /\ IsFiniteSet(Orders)
  /\ MaxQty \in Nat
  /\ Qty \in [Orders -> [Listings -> 0..MaxQty]]
  /\ NoOrder \notin Orders

ASSUME PaymentsAssumption ==
  /\ NoPayment \notin Payments
  /\ OrderOf \in [Payments -> Orders]
  /\ Exact \subseteq Payments

ASSUME SellersAssumption ==
  /\ SellerOf \in [Listings -> Vendors]
  /\ StockLevels \subseteq Nat
  /\ MaxCrashes \in Nat
  /\ CancelWhileCreating \in BOOLEAN

VARIABLES
  checkout,    \* progress of the checkout request that creates each order
  status,      \* orders.status, "none" before the row exists
  linked,      \* orders.razorpay_order_id IS NOT NULL
  paymentId,   \* orders.razorpay_payment_id, written with captured_paise
  aged,        \* the order is older than the stale-reservation timeout
  available,   \* inventory.quantity_available
  reserved,    \* inventory.quantity_reserved
  approved,    \* users.is_approved of each vendor
  payment,     \* what Razorpay would answer about each payment
  job,         \* what each worker is doing
  flagged,     \* payments logged at error level for manual reconciliation
  crashes

orderVars == <<status, linked, paymentId, aged>>
stockVars == <<available, reserved>>
externalVars == <<approved, payment>>
vars == <<checkout, orderVars, stockVars, externalVars, job, flagged, crashes>>

Lifecycle == INSTANCE OrderLifecycle WITH held <- reserved

CheckoutStep == {"idle", "validated", "creating", "finished"}

PaymentStatus == {"none", "in_flight", "captured", "failed"}

JobStep == {"idle", "ask", "release", "vendors", "reject", "confirm",
            "reread", "mark", "recheck"}

Job == [pc : JobStep, order : Orders \cup {NoOrder},
        payment : Payments \cup {NoPayment}, linked : BOOLEAN]

NoJob == [pc |-> "idle", order |-> NoOrder, payment |-> NoPayment, linked |-> FALSE]

Lines(o) == {l \in Listings : Qty[o][l] > 0}

SellersOf(o) == {SellerOf[l] : l \in Lines(o)}

PaymentsOn(o) == {p \in Payments : OrderOf[p] = o}

FloorAtZero(n) == IF n < 0 THEN 0 ELSE n

Init ==
  /\ checkout = [o \in Orders |-> "idle"]
  /\ status = [o \in Orders |-> "none"]
  /\ linked = [o \in Orders |-> FALSE]
  /\ paymentId = [o \in Orders |-> NoPayment]
  /\ aged = [o \in Orders |-> FALSE]
  /\ available \in [Listings -> StockLevels]
  /\ reserved = [l \in Listings |-> 0]
  /\ approved = [v \in Vendors |-> TRUE]
  /\ payment = [p \in Payments |-> "none"]
  /\ job = [w \in Workers |-> NoJob]
  /\ flagged = {}
  /\ crashes = 0

-----------------------------------------------------------------------------
(* Checkout.  Phase 1 is one READ COMMITTED transaction, so what its first *)
(* SELECT saw of the sellers may be stale when it commits, while the stock *)
(* is re-read under FOR UPDATE.  A refusal leaves the database and the     *)
(* cart as they were.  The other reasons to refuse (an inactive listing, a *)
(* paused vendor, a minimum order value) only ever refuse; a checkout that *)
(* meets one is one that does not take CheckoutValidate.                   *)

EnoughStock(o) == \A l \in Lines(o) : available[l] - reserved[l] >= Qty[o][l]

CheckoutValidate(o) ==
  /\ checkout[o] = "idle"
  /\ \A v \in SellersOf(o) : approved[v]
  /\ EnoughStock(o)
  /\ checkout' = [checkout EXCEPT ![o] = "validated"]
  /\ UNCHANGED <<orderVars, stockVars, externalVars, job, flagged, crashes>>

CheckoutRefused(o) ==
  /\ checkout[o] = "validated"
  /\ ~EnoughStock(o)
  /\ checkout' = [checkout EXCEPT ![o] = "idle"]
  /\ UNCHANGED <<orderVars, stockVars, externalVars, job, flagged, crashes>>

\* Mutant: reserves on what the first SELECT saw, without the locked re-read.
ReserveUnchecked(o) ==
  /\ checkout[o] = "validated"
  /\ reserved' = [l \in Listings |-> reserved[l] + Qty[o][l]]
  /\ status' = [status EXCEPT ![o] = "pending_payment"]
  /\ checkout' = [checkout EXCEPT ![o] = "creating"]
  /\ UNCHANGED <<linked, paymentId, aged, available, externalVars, job, flagged, crashes>>

CheckoutReserve(o) ==
  /\ checkout[o] = "validated"
  /\ EnoughStock(o)
  /\ reserved' = [l \in Listings |-> reserved[l] + Qty[o][l]]
  /\ status' = [status EXCEPT ![o] = "pending_payment"]
  /\ checkout' = [checkout EXCEPT ![o] = "creating"]
  /\ UNCHANGED <<linked, paymentId, aged, available, externalVars, job, flagged, crashes>>

(* Phase 2: Razorpay's createOrder, then save() of the razorpay_order_id.  *)
PaymentOrderCreated(o) ==
  /\ checkout[o] = "creating"
  /\ linked' = [linked EXCEPT ![o] = TRUE]
  /\ checkout' = [checkout EXCEPT ![o] = "finished"]
  /\ UNCHANGED <<status, paymentId, aged, stockVars, externalVars, job, flagged, crashes>>

(* Phase 2 failed: the compensating transaction subtracts the quantities   *)
(* first and looks at the status only for the UPDATE of the order.  If the *)
(* CHECK (quantity_reserved >= 0) fails, all of it is rolled back.         *)
Compensate(o) ==
  IF \A l \in Listings : reserved[l] >= Qty[o][l]
    THEN /\ reserved' = [l \in Listings |-> reserved[l] - Qty[o][l]]
         /\ status' = [status EXCEPT ![o] = IF @ = "pending_payment" THEN "cancelled" ELSE @]
    ELSE UNCHANGED <<reserved, status>>

PaymentOrderFailed(o) ==
  /\ checkout[o] = "creating"
  /\ Compensate(o)
  /\ checkout' = [checkout EXCEPT ![o] = "finished"]
  /\ UNCHANGED <<linked, paymentId, aged, available, externalVars, job, flagged, crashes>>

CheckoutCrash(o) ==
  /\ checkout[o] = "creating"
  /\ crashes < MaxCrashes
  /\ crashes' = crashes + 1
  /\ checkout' = [checkout EXCEPT ![o] = "finished"]
  /\ UNCHANGED <<orderVars, stockVars, externalVars, job, flagged>>

-----------------------------------------------------------------------------
(* The world around the jobs.                                              *)

(* A stock write sets quantity_available and never looks at what is        *)
(* reserved (confirmOrder's comment, final review finding #2).             *)
SetStock(l, n) ==
  /\ available' = [available EXCEPT ![l] = n]
  /\ UNCHANGED <<checkout, orderVars, reserved, externalVars, job, flagged, crashes>>

SetApproval(v, b) ==
  /\ approved' = [approved EXCEPT ![v] = b]
  /\ UNCHANGED <<checkout, orderVars, stockVars, payment, job, flagged, crashes>>

(* Razorpay takes payments on an order it knows, whatever the state of the *)
(* order here; a failed one includes an authorised one it gave back.       *)
PaymentMoves == { <<"none", "in_flight">>, <<"in_flight", "captured">>,
                  <<"in_flight", "failed">> }

PaymentMove(p, s) ==
  /\ linked[OrderOf[p]]
  /\ <<payment[p], s>> \in PaymentMoves
  /\ payment' = [payment EXCEPT ![p] = s]
  /\ UNCHANGED <<checkout, orderVars, stockVars, approved, job, flagged, crashes>>

(* createOrder gives up after 15 seconds and an order is stale after 20    *)
(* minutes, so an order does not age while its checkout is in Phase 2.     *)
Age(o) ==
  /\ status[o] = "pending_payment"
  /\ checkout[o] # "creating"
  /\ ~aged[o]
  /\ aged' = [aged EXCEPT ![o] = TRUE]
  /\ UNCHANGED <<checkout, status, linked, paymentId, stockVars, externalVars, job, flagged, crashes>>

-----------------------------------------------------------------------------
(* How a job starts.                                                       *)

Run(w, pc, o, p) ==
  job' = [job EXCEPT ![w] = [pc |-> pc, order |-> o, payment |-> p, linked |-> linked[o]]]

Goto(w, pc) == job' = [job EXCEPT ![w].pc = pc]

Pursue(w, pc, p) == job' = [job EXCEPT ![w].pc = pc, ![w].payment = p]

Finish(w) == job' = [job EXCEPT ![w] = NoJob]

\* Mutant: the amount and currency are not compared.
ApplyAnyCapture(p, pending) == IF pending THEN "vendors" ELSE "confirm"

(* Where applyCapture goes first: a payment that does not match the order  *)
(* rejects it if the caller's copy of the order was still pending.         *)
ApplyCapture(p, pending) ==
  CASE p \in Exact -> "vendors"
    [] p \notin Exact /\ pending -> "reject"
    [] OTHER -> "mark"

\* Mutant: a capture for an order that is no longer pending is a replay.
WebhookForPending(w, p) ==
  LET o == OrderOf[p] IN
  /\ job[w].pc = "idle"
  /\ payment[p] = "captured"
  /\ linked[o]
  /\ status[o] = "pending_payment"
  /\ Run(w, ApplyCapture(p, TRUE), o, p)
  /\ UNCHANGED <<checkout, orderVars, stockVars, externalVars, flagged, crashes>>

(* A payment.captured delivery: late, repeated, or never.                  *)
WebhookCaptured(w, p) ==
  LET o == OrderOf[p] IN
  /\ job[w].pc = "idle"
  /\ payment[p] = "captured"
  /\ linked[o]
  /\ Run(w, ApplyCapture(p, status[o] = "pending_payment"), o, p)
  /\ UNCHANGED <<checkout, orderVars, stockVars, externalVars, flagged, crashes>>

(* The customer's cancel and the admin's cancel of a pending order.        *)
CancelRequested(w, o) ==
  /\ job[w].pc = "idle"
  /\ status[o] = "pending_payment"
  /\ CancelWhileCreating \/ checkout[o] # "creating"
  /\ Run(w, "ask", o, NoPayment)
  /\ UNCHANGED <<checkout, orderVars, stockVars, externalVars, flagged, crashes>>

SweepPicked(w, o) ==
  /\ job[w].pc = "idle"
  /\ status[o] = "pending_payment"
  /\ aged[o]
  /\ Run(w, "ask", o, NoPayment)
  /\ UNCHANGED <<checkout, orderVars, stockVars, externalVars, flagged, crashes>>

-----------------------------------------------------------------------------
(* checkProviderPayments, then what the cancel paths and the sweep do with *)
(* the answer.  A job that read the order before it had a razorpay_order_id*)
(* does not ask.                                                           *)
ProviderAnswer(o) == {payment[p] : p \in PaymentsOn(o)}

\* Mutant: an order without a razorpay_order_id is skipped, not cancelled.
AskOnlyLinked(w) ==
  LET o == job[w].order IN
  /\ job[w].pc = "ask"
  /\ \/ /\ job[w].linked
        /\ \E p \in PaymentsOn(o) :
             /\ payment[p] = "captured"
             /\ Pursue(w, ApplyCapture(p, TRUE), p)
     \/ /\ ~job[w].linked \/ "in_flight" \in ProviderAnswer(o)
        /\ Finish(w)
     \/ /\ job[w].linked
        /\ ProviderAnswer(o) \cap {"captured", "in_flight"} = {}
        /\ Goto(w, "release")
  /\ UNCHANGED <<checkout, orderVars, stockVars, externalVars, flagged, crashes>>

AskProvider(w) ==
  LET o == job[w].order IN
  /\ job[w].pc = "ask"
  /\ \/ /\ job[w].linked
        /\ \E p \in PaymentsOn(o) :
             /\ payment[p] = "captured"
             /\ Pursue(w, ApplyCapture(p, TRUE), p)
     \/ /\ job[w].linked
        /\ "captured" \notin ProviderAnswer(o)
        /\ "in_flight" \in ProviderAnswer(o)
        /\ Finish(w)
     \/ /\ job[w].linked => ProviderAnswer(o) \cap {"captured", "in_flight"} = {}
        /\ Goto(w, "release")
  /\ UNCHANGED <<checkout, orderVars, stockVars, externalVars, flagged, crashes>>

ProviderUnavailable(w) ==
  /\ job[w].pc = "ask"
  /\ job[w].linked
  /\ Finish(w)
  /\ UNCHANGED <<checkout, orderVars, stockVars, externalVars, flagged, crashes>>

(* The body cancelPending runs once its guarded UPDATE applied.            *)
CancelPending(o, target, p) ==
  /\ status' = [status EXCEPT ![o] = target]
  /\ paymentId' = [paymentId EXCEPT ![o] = IF p = NoPayment THEN @ ELSE p]
  /\ reserved' = [l \in Listings |-> FloorAtZero(reserved[l] - Qty[o][l])]

\* Mutant: the update count is never looked at, so every cancel releases.
ReleaseUncounted(w) ==
  LET o == job[w].order IN
  /\ job[w].pc = "release"
  /\ CancelPending(o, IF status[o] = "pending_payment" THEN "cancelled" ELSE status[o], NoPayment)
  /\ Finish(w)
  /\ UNCHANGED <<checkout, linked, aged, available, externalVars, flagged, crashes>>

(* releaseAndCancel; nothing happens if the order is no longer pending.    *)
Release(w) ==
  LET o == job[w].order IN
  /\ job[w].pc = "release"
  /\ IF status[o] = "pending_payment"
       THEN CancelPending(o, "cancelled", NoPayment)
       ELSE UNCHANGED <<status, paymentId, reserved>>
  /\ Finish(w)
  /\ UNCHANGED <<checkout, linked, aged, available, externalVars, flagged, crashes>>

-----------------------------------------------------------------------------
(* applyCapture, step by step.                                             *)

CheckVendors(w) ==
  /\ job[w].pc = "vendors"
  /\ Goto(w, IF \A v \in SellersOf(job[w].order) : approved[v] THEN "confirm" ELSE "reject")
  /\ UNCHANGED <<checkout, orderVars, stockVars, externalVars, flagged, crashes>>

(* cancelPending to refund_required; when the order is no longer pending a *)
(* matching payment still tries to confirm, a mismatched one to be marked. *)
Reject(w) ==
  LET o == job[w].order
      p == job[w].payment IN
  /\ job[w].pc = "reject"
  /\ IF status[o] = "pending_payment"
       THEN CancelPending(o, "refund_required", p) /\ Finish(w)
       ELSE /\ Goto(w, IF p \in Exact THEN "confirm" ELSE "mark")
            /\ UNCHANGED <<status, paymentId, reserved>>
  /\ UNCHANGED <<checkout, linked, aged, available, externalVars, flagged, crashes>>

\* Mutant: confirms whatever is not confirmed yet.
ConfirmUnlessConfirmed(w) ==
  LET o == job[w].order IN
  /\ job[w].pc = "confirm"
  /\ IF status[o] # "confirmed"
       THEN /\ status' = [status EXCEPT ![o] = "confirmed"]
            /\ paymentId' = [paymentId EXCEPT ![o] = job[w].payment]
            /\ available' = [l \in Listings |-> FloorAtZero(available[l] - Qty[o][l])]
            /\ reserved' = [l \in Listings |-> FloorAtZero(reserved[l] - Qty[o][l])]
            /\ Finish(w)
       ELSE Goto(w, "reread") /\ UNCHANGED <<status, paymentId, stockVars>>
  /\ UNCHANGED <<checkout, linked, aged, externalVars, flagged, crashes>>

ConfirmOrder(w) ==
  LET o == job[w].order IN
  /\ job[w].pc = "confirm"
  /\ IF status[o] = "pending_payment"
       THEN /\ status' = [status EXCEPT ![o] = "confirmed"]
            /\ paymentId' = [paymentId EXCEPT ![o] = job[w].payment]
            /\ available' = [l \in Listings |-> FloorAtZero(available[l] - Qty[o][l])]
            /\ reserved' = [l \in Listings |-> FloorAtZero(reserved[l] - Qty[o][l])]
            /\ Finish(w)
       ELSE Goto(w, "reread") /\ UNCHANGED <<status, paymentId, stockVars>>
  /\ UNCHANGED <<checkout, linked, aged, externalVars, flagged, crashes>>

\* Mutant: a capture on a cancelled order is taken for a replay.
RereadAsReplay(w) ==
  LET o == job[w].order IN
  /\ job[w].pc = "reread"
  /\ Finish(w)
  /\ flagged' = IF status[o] = "confirmed" THEN flagged ELSE flagged \cup {job[w].payment}
  /\ UNCHANGED <<checkout, orderVars, stockVars, externalVars, crashes>>

(* confirmOrder did not apply: where is the order now?                     *)
Reread(w) ==
  LET o == job[w].order
      p == job[w].payment IN
  /\ job[w].pc = "reread"
  /\ \/ /\ status[o] \in {"cancelled", "refund_required"}
        /\ Goto(w, "mark")
        /\ UNCHANGED flagged
     \/ /\ status[o] \notin {"cancelled", "refund_required"}
        /\ Finish(w)
        /\ flagged' = IF status[o] = "confirmed" /\ paymentId[o] = p
                        THEN flagged ELSE flagged \cup {p}
  /\ UNCHANGED <<checkout, orderVars, stockVars, externalVars, crashes>>

\* Mutant: guarded on the status only, not on an empty payment id.
MarkAnyCancelled(w) ==
  LET o == job[w].order IN
  /\ job[w].pc = "mark"
  /\ IF status[o] = "cancelled"
       THEN /\ status' = [status EXCEPT ![o] = "refund_required"]
            /\ paymentId' = [paymentId EXCEPT ![o] = job[w].payment]
            /\ Finish(w)
       ELSE Goto(w, "recheck") /\ UNCHANGED <<status, paymentId>>
  /\ UNCHANGED <<checkout, linked, aged, stockVars, externalVars, flagged, crashes>>

MarkRefundRequired(w) ==
  LET o == job[w].order IN
  /\ job[w].pc = "mark"
  /\ IF status[o] = "cancelled" /\ paymentId[o] = NoPayment
       THEN /\ status' = [status EXCEPT ![o] = "refund_required"]
            /\ paymentId' = [paymentId EXCEPT ![o] = job[w].payment]
            /\ Finish(w)
       ELSE Goto(w, "recheck") /\ UNCHANGED <<status, paymentId>>
  /\ UNCHANGED <<checkout, linked, aged, stockVars, externalVars, flagged, crashes>>

Recheck(w) ==
  LET o == job[w].order
      p == job[w].payment IN
  /\ job[w].pc = "recheck"
  /\ flagged' = IF status[o] = "refund_required" /\ paymentId[o] = p
                  THEN flagged ELSE flagged \cup {p}
  /\ Finish(w)
  /\ UNCHANGED <<checkout, orderVars, stockVars, externalVars, crashes>>

(* The process dies, or Postgres aborts the job's transaction.             *)
WorkerCrash(w) ==
  /\ job[w].pc # "idle"
  /\ crashes < MaxCrashes
  /\ crashes' = crashes + 1
  /\ Finish(w)
  /\ UNCHANGED <<checkout, orderVars, stockVars, externalVars, flagged>>

-----------------------------------------------------------------------------
(* Afterwards: the status follows the refunds (module Refunds has them),   *)
(* and an admin may close a refunded order, under a lock on its row.       *)

RefundProjection(o, s) ==
  /\ <<status[o], s>> \in Lifecycle!RefundMoves
  /\ status' = [status EXCEPT ![o] = s]
  /\ UNCHANGED <<checkout, linked, paymentId, aged, stockVars, externalVars, job, flagged, crashes>>

CloseRefunded(o) ==
  /\ status[o] = "refunded"
  /\ status' = [status EXCEPT ![o] = "cancelled"]
  /\ UNCHANGED <<checkout, linked, paymentId, aged, stockVars, externalVars, job, flagged, crashes>>

-----------------------------------------------------------------------------
JobStepOf(w) ==
  \/ AskProvider(w) \/ Release(w) \/ CheckVendors(w) \/ Reject(w)
  \/ ConfirmOrder(w) \/ Reread(w) \/ MarkRefundRequired(w) \/ Recheck(w)

Next ==
  \/ \E o \in Orders :
       \/ CheckoutValidate(o) \/ CheckoutRefused(o) \/ CheckoutReserve(o)
       \/ PaymentOrderCreated(o) \/ PaymentOrderFailed(o) \/ CheckoutCrash(o)
       \/ Age(o) \/ CloseRefunded(o)
       \/ \E s \in Lifecycle!Status : RefundProjection(o, s)
       \/ \E w \in Workers : CancelRequested(w, o) \/ SweepPicked(w, o)
  \/ \E l \in Listings, n \in StockLevels : SetStock(l, n)
  \/ \E v \in Vendors, b \in BOOLEAN : SetApproval(v, b)
  \/ \E p \in Payments :
       \/ \E s \in PaymentStatus : PaymentMove(p, s)
       \/ \E w \in Workers : WebhookCaptured(w, p)
  \/ \E w \in Workers : JobStepOf(w) \/ ProviderUnavailable(w) \/ WorkerCrash(w)

Spec == Init /\ [][Next]_vars

-----------------------------------------------------------------------------
(* Properties.                                                             *)

(* Every variable keeps its type; an order exists once its checkout has    *)
(* reserved, and not before.                                               *)
TypeOK ==
  /\ checkout \in [Orders -> CheckoutStep]
  /\ status \in [Orders -> Lifecycle!Status]
  /\ linked \in [Orders -> BOOLEAN]
  /\ paymentId \in [Orders -> Payments \cup {NoPayment}]
  /\ aged \in [Orders -> BOOLEAN]
  /\ available \in [Listings -> Nat]
  /\ reserved \in [Listings -> Nat]
  /\ approved \in [Vendors -> BOOLEAN]
  /\ payment \in [Payments -> PaymentStatus]
  /\ job \in [Workers -> Job]
  /\ flagged \subseteq Payments
  /\ crashes \in 0..MaxCrashes

(* One element for each unit of l that an unpaid order holds.              *)
HeldUnits(l) ==
  {u \in Orders \X (1..MaxQty) :
     status[u[1]] = "pending_payment" /\ u[2] <= Qty[u[1]][l]}

(* quantity_reserved is the number of units that unpaid orders hold: no    *)
(* race of webhook, cancel, sweep, compensation and crash releases a hold  *)
(* twice, keeps one of a dead order, or eats into another order's.         *)
ReservationExact == \A l \in Listings : reserved[l] = Cardinality(HeldUnits(l))

(* The payment on an order was captured on that order; an order has one    *)
(* exactly from the moment it stops being a free cancellation, and only    *)
(* the full grand total confirms it (decision 0054 rule 2).                *)
MoneyRecorded ==
  \A o \in Orders :
    /\ paymentId[o] # NoPayment =>
         /\ payment[paymentId[o]] = "captured"
         /\ OrderOf[paymentId[o]] = o
    /\ status[o] \in {"none", "pending_payment"} => paymentId[o] = NoPayment
    /\ status[o] \notin {"none", "pending_payment", "cancelled"} => paymentId[o] # NoPayment
    /\ status[o] = "confirmed" => paymentId[o] \in Exact

(* A capture is left to a log line only when its order already records a   *)
(* payment (the one exception of decision 0054 rule 4).                    *)
FlaggedHoldsPayment == \A p \in flagged : paymentId[OrderOf[p]] # NoPayment

(* A recorded payment is never replaced by a later, duplicated or          *)
(* concurrent capture, nor erased.                                         *)
PaymentWriteOnce ==
  [][\A o \in Orders : paymentId[o] # NoPayment => paymentId'[o] = paymentId[o]]_vars

(* Whatever the interleaving of checkouts, captures and cancels, only a    *)
(* vendor lowering the stock can leave fewer units than are reserved.      *)
OnlyVendorOversells ==
  [][\A l \in Listings :
       available[l] >= reserved[l] /\ available'[l] < reserved'[l]
         => reserved' = reserved]_vars

(* Every step of every job is a step of the order's lifecycle or invisible *)
(* to it.                                                                  *)
ImplementsLifecycle == Lifecycle!LifecycleSpec

(* The units of every unpaid order stay reserved: releasing one order's    *)
(* hold never subtracts "from whatever OTHER order's reservation now       *)
(* occupies that quantity" (orders.service.ts on adminCancel).             *)
HoldsCovered == \A l \in Listings : reserved[l] >= Cardinality(HeldUnits(l))

-----------------------------------------------------------------------------
(* Fairness: running jobs and checkouts go on (the server runs what it     *)
(* accepted), the cron keeps picking each stale order although workers may *)
(* be busy, Razorpay is not unavailable forever, and an in-flight payment  *)
(* settles (Razorpay's own 20-minute capture window).                      *)
SweepFairness ==
  /\ \A o \in Orders :
       /\ WF_vars(PaymentOrderCreated(o) \/ PaymentOrderFailed(o))
       /\ WF_vars(Age(o))
       /\ SF_vars(\E w \in Workers : SweepPicked(w, o))
  /\ \A p \in Payments :
       WF_vars(PaymentMove(p, "captured") \/ PaymentMove(p, "failed"))
  /\ \A w \in Workers :
       /\ WF_vars(Release(w) \/ CheckVendors(w) \/ Reject(w) \/ ConfirmOrder(w)
                  \/ Reread(w) \/ MarkRefundRequired(w) \/ Recheck(w))
       /\ SF_vars(AskProvider(w))

(* Razorpay redelivers payment.captured until a delivery is answered.      *)
WebhookFairness ==
  \A p \in Payments : SF_vars(\E w \in Workers : WebhookCaptured(w, p))

SweptSpec == Spec /\ SweepFairness

(* No hold lasts forever: the sweep alone, with every webhook lost and     *)
(* with crashes in between, gets an unpaid order out of pending_payment.   *)
HoldReleased ==
  \A o \in Orders : status[o] = "pending_payment" ~> status[o] # "pending_payment"

(* If captures are redelivered, captured money always ends on its order or *)
(* before a person, even when the capture races the cancel of its order or *)
(* the process dies while handling it (decision 0054 rule 4).              *)
CaptureAccounted ==
  WebhookFairness => \A p \in Payments :
    payment[p] = "captured" ~> paymentId[OrderOf[p]] = p \/ p \in flagged
=============================================================================
