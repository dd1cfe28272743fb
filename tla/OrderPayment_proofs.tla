------------------------ MODULE OrderPayment_proofs -------------------------
(***************************************************************************)
(* Proofs about OrderPayment, for any number of orders, listings, payments,*)
(* workers and crashes and for any quantities: types, money, reservations  *)
(* and the refinement of OrderLifecycle.  The last two hold as long as no  *)
(* cancel reaches an order whose checkout still waits for Razorpay         *)
(* (DoubleRelease.cfg shows what happens when one does).                   *)
(***************************************************************************)
EXTENDS OrderPayment, FiniteSetTheorems, TLAPS

ApplySteps == {"vendors", "reject", "confirm", "reread", "mark", "recheck"}

(* A job that is not idle works on an order; inside applyCapture it        *)
(* carries a captured payment of that order.                               *)
JobOK(w) ==
  /\ job[w].pc # "idle" => job[w].order \in Orders
  /\ job[w].pc \in ApplySteps =>
       /\ job[w].payment \in Payments
       /\ OrderOf[job[w].payment] = job[w].order
       /\ payment[job[w].payment] = "captured"

TypeInv == TypeOK /\ \A w \in Workers : JobOK(w)

-----------------------------------------------------------------------------
(* The four ways a job moves keep the jobs as TypeInv describes them.      *)

LEMMA FinishJob ==
  ASSUME TypeInv, NEW w \in Workers, Finish(w), UNCHANGED payment
  PROVE  /\ job' \in [Workers -> Job]
         /\ job'[w].pc = "idle"
         /\ \A x \in Workers \ {w} : job'[x] = job[x]
         /\ \A x \in Workers : JobOK(x)'
<1>1. NoJob \in Job
  BY DEF NoJob, Job, JobStep
<1>2. /\ job' \in [Workers -> Job]
      /\ job'[w].pc = "idle"
      /\ \A x \in Workers \ {w} : job'[x] = job[x]
  BY <1>1 DEF TypeInv, TypeOK, Finish, NoJob
<1> QED
  BY <1>2 DEF TypeInv, JobOK, ApplySteps

LEMMA GotoJob ==
  ASSUME TypeInv, NEW w \in Workers, NEW pc \in JobStep, Goto(w, pc), UNCHANGED payment,
         job[w].pc # "idle", pc \in ApplySteps => job[w].pc \in ApplySteps
  PROVE  /\ job' \in [Workers -> Job]
         /\ job'[w].pc = pc
         /\ job'[w].order = job[w].order
         /\ job'[w].payment = job[w].payment
         /\ \A x \in Workers \ {w} : job'[x] = job[x]
         /\ \A x \in Workers : JobOK(x)'
<1>1. /\ job' \in [Workers -> Job]
      /\ job'[w].pc = pc
      /\ job'[w].order = job[w].order
      /\ job'[w].payment = job[w].payment
      /\ \A x \in Workers \ {w} : job'[x] = job[x]
  BY DEF TypeInv, TypeOK, Goto, Job
<1> QED
  BY <1>1 DEF TypeInv, JobOK

LEMMA PursueJob ==
  ASSUME TypeInv, NEW w \in Workers, NEW pc \in ApplySteps, NEW p \in Payments,
         Pursue(w, pc, p), UNCHANGED payment, job[w].pc # "idle",
         OrderOf[p] = job[w].order, payment[p] = "captured"
  PROVE  /\ job' \in [Workers -> Job]
         /\ job'[w].pc = pc
         /\ job'[w].order = job[w].order
         /\ job'[w].payment = p
         /\ \A x \in Workers \ {w} : job'[x] = job[x]
         /\ \A x \in Workers : JobOK(x)'
<1>1. /\ job' \in [Workers -> Job]
      /\ job'[w].pc = pc
      /\ job'[w].order = job[w].order
      /\ job'[w].payment = p
      /\ \A x \in Workers \ {w} : job'[x] = job[x]
  BY DEF TypeInv, TypeOK, Pursue, Job, JobStep, ApplySteps
<1> QED
  BY <1>1 DEF TypeInv, JobOK

LEMMA RunJob ==
  ASSUME TypeInv, NEW w \in Workers, NEW pc \in JobStep, NEW o \in Orders,
         NEW p \in Payments \cup {NoPayment}, Run(w, pc, o, p), UNCHANGED payment,
         pc \in ApplySteps => /\ p \in Payments
                              /\ OrderOf[p] = o
                              /\ payment[p] = "captured"
  PROVE  /\ job' \in [Workers -> Job]
         /\ job'[w].pc = pc
         /\ job'[w].order = o
         /\ job'[w].payment = p
         /\ \A x \in Workers \ {w} : job'[x] = job[x]
         /\ \A x \in Workers : JobOK(x)'
<1>1. /\ job' \in [Workers -> Job]
      /\ job'[w].pc = pc
      /\ job'[w].order = o
      /\ job'[w].payment = p
      /\ \A x \in Workers \ {w} : job'[x] = job[x]
  BY DEF TypeInv, TypeOK, Run, Job
<1> QED
  BY <1>1 DEF TypeInv, JobOK

LEMMA ApplyCaptureType ==
  ASSUME NEW p \in Payments, NEW b \in BOOLEAN
  PROVE  ApplyCapture(p, b) \in ApplySteps /\ ApplyCapture(p, b) \in JobStep
BY DEF ApplyCapture, ApplySteps, JobStep

(* A quantity is a natural number; a floored difference too.               *)
LEMMA Quantities ==
  ASSUME TypeInv, NEW o \in Orders
  PROVE  /\ \A l \in Listings : Qty[o][l] \in Nat /\ Qty[o][l] <= MaxQty
         /\ [l \in Listings |-> reserved[l] + Qty[o][l]] \in [Listings -> Nat]
         /\ [l \in Listings |-> FloorAtZero(reserved[l] - Qty[o][l])] \in [Listings -> Nat]
         /\ [l \in Listings |-> FloorAtZero(available[l] - Qty[o][l])] \in [Listings -> Nat]
<1>1. \A l \in Listings : Qty[o][l] \in Nat /\ Qty[o][l] <= MaxQty
  BY OrdersAssumption
<1>2. \A l \in Listings : reserved[l] \in Nat /\ available[l] \in Nat
  BY DEF TypeInv, TypeOK
<1>3. \A l \in Listings : /\ FloorAtZero(reserved[l] - Qty[o][l]) \in Nat
                          /\ FloorAtZero(available[l] - Qty[o][l]) \in Nat
                          /\ reserved[l] + Qty[o][l] \in Nat
  BY <1>1, <1>2 DEF FloorAtZero
<1> QED
  BY <1>1, <1>3

LEMMA CancelPendingType ==
  ASSUME TypeInv, NEW o \in Orders, NEW target \in Lifecycle!Status,
         NEW p \in Payments \cup {NoPayment}, CancelPending(o, target, p)
  PROVE  /\ status' \in [Orders -> Lifecycle!Status]
         /\ paymentId' \in [Orders -> Payments \cup {NoPayment}]
         /\ reserved' \in [Listings -> Nat]
<1>1. reserved' \in [Listings -> Nat]
  BY Quantities DEF CancelPending
<1> QED
  BY <1>1 DEF CancelPending, TypeInv, TypeOK

-----------------------------------------------------------------------------
(* Types, and what every running job may rely on.                          *)
LEMMA TypeInvStep == TypeInv /\ [Next]_vars => TypeInv'
<1> SUFFICES ASSUME TypeInv, [Next]_vars
             PROVE  TypeInv'
  OBVIOUS
<1>a. TypeOK /\ \A w \in Workers : JobOK(w)
  BY DEF TypeInv
<1>j. /\ \A s \in {"ask", "release", "vendors", "reject", "confirm", "reread", "mark", "recheck"} :
           s \in JobStep /\ s # "idle"
      /\ \A s \in ApplySteps : s \in JobStep /\ s # "idle"
      /\ "ask" \notin ApplySteps /\ "release" \notin ApplySteps
  BY DEF JobStep, ApplySteps
<1> USE OrdersAssumption, PaymentsAssumption, SellersAssumption
<1> USE DEF orderVars, stockVars, externalVars, Lifecycle!Status, CheckoutStep
<1>1. ASSUME NEW o \in Orders, CheckoutValidate(o) PROVE TypeInv'
  BY <1>1, <1>a DEF CheckoutValidate, TypeInv, TypeOK, JobOK
<1>2. ASSUME NEW o \in Orders, CheckoutRefused(o) PROVE TypeInv'
  BY <1>2, <1>a DEF CheckoutRefused, TypeInv, TypeOK, JobOK
<1>3. ASSUME NEW o \in Orders, CheckoutReserve(o) PROVE TypeInv'
  BY <1>3, <1>a, Quantities DEF CheckoutReserve, TypeInv, TypeOK, JobOK
<1>4. ASSUME NEW o \in Orders, PaymentOrderCreated(o) PROVE TypeInv'
  BY <1>4, <1>a DEF PaymentOrderCreated, TypeInv, TypeOK, JobOK
<1>5. ASSUME NEW o \in Orders, PaymentOrderFailed(o) PROVE TypeInv'
  <2>1. reserved' \in [Listings -> Nat] /\ status' \in [Orders -> Lifecycle!Status]
    <3>1. CASE \A l \in Listings : reserved[l] >= Qty[o][l]
      <4>1. \A l \in Listings : reserved[l] - Qty[o][l] \in Nat
        BY <1>a, <3>1, Quantities DEF TypeOK
      <4>2. reserved' = [l \in Listings |-> reserved[l] - Qty[o][l]]
        BY <1>5, <3>1 DEF PaymentOrderFailed, Compensate
      <4>3. status' \in [Orders -> Lifecycle!Status]
        BY <1>5, <1>a, <3>1 DEF PaymentOrderFailed, Compensate, TypeOK
      <4> QED
        BY <4>1, <4>2, <4>3
    <3>2. CASE ~ \A l \in Listings : reserved[l] >= Qty[o][l]
      BY <1>5, <1>a, <3>2 DEF PaymentOrderFailed, Compensate, TypeOK
    <3> QED
      BY <3>1, <3>2
  <2> QED
    BY <1>5, <1>a, <2>1 DEF PaymentOrderFailed, TypeInv, TypeOK, JobOK
<1>6. ASSUME NEW o \in Orders, CheckoutCrash(o) PROVE TypeInv'
  BY <1>6, <1>a DEF CheckoutCrash, TypeInv, TypeOK, JobOK
<1>7. ASSUME NEW o \in Orders, Age(o) PROVE TypeInv'
  BY <1>7, <1>a DEF Age, TypeInv, TypeOK, JobOK
<1>8. ASSUME NEW o \in Orders, CloseRefunded(o) PROVE TypeInv'
  BY <1>8, <1>a DEF CloseRefunded, TypeInv, TypeOK, JobOK
<1>9. ASSUME NEW o \in Orders, NEW s \in Lifecycle!Status, RefundProjection(o, s) PROVE TypeInv'
  BY <1>9, <1>a DEF RefundProjection, TypeInv, TypeOK, JobOK
<1>10. ASSUME NEW o \in Orders, NEW w \in Workers, CancelRequested(w, o) PROVE TypeInv'
  BY <1>10, <1>a, <1>j, RunJob DEF CancelRequested, TypeInv, TypeOK
<1>11. ASSUME NEW o \in Orders, NEW w \in Workers, SweepPicked(w, o) PROVE TypeInv'
  BY <1>11, <1>a, <1>j, RunJob DEF SweepPicked, TypeInv, TypeOK
<1>12. ASSUME NEW l \in Listings, NEW n \in StockLevels, SetStock(l, n) PROVE TypeInv'
  BY <1>12, <1>a DEF SetStock, TypeInv, TypeOK, JobOK
<1>13. ASSUME NEW v \in Vendors, NEW b \in BOOLEAN, SetApproval(v, b) PROVE TypeInv'
  BY <1>13, <1>a DEF SetApproval, TypeInv, TypeOK, JobOK
<1>14. ASSUME NEW p \in Payments, NEW s \in PaymentStatus, PaymentMove(p, s) PROVE TypeInv'
  BY <1>14, <1>a DEF PaymentMove, PaymentMoves, TypeInv, TypeOK, JobOK
<1>15. ASSUME NEW p \in Payments, NEW w \in Workers, WebhookCaptured(w, p) PROVE TypeInv'
  <2>1. job' \in [Workers -> Job] /\ \A x \in Workers : JobOK(x)'
    <3> DEFINE pc == ApplyCapture(p, status[OrderOf[p]] = "pending_payment")
    <3>1. pc \in JobStep /\ OrderOf[p] \in Orders
      BY ApplyCaptureType
    <3> QED
      BY <1>15, <3>1, RunJob DEF WebhookCaptured
  <2> QED
    BY <1>15, <1>a, <2>1 DEF WebhookCaptured, TypeInv, TypeOK
<1>16. ASSUME NEW w \in Workers, AskProvider(w) PROVE TypeInv'
  <2>0. job[w].pc # "idle" /\ UNCHANGED payment
    BY <1>16 DEF AskProvider
  <2>1. ASSUME NEW p \in PaymentsOn(job[w].order), payment[p] = "captured",
               Pursue(w, ApplyCapture(p, TRUE), p)
        PROVE  job' \in [Workers -> Job] /\ \A x \in Workers : JobOK(x)'
    BY <2>0, <2>1, PursueJob, ApplyCaptureType DEF PaymentsOn
  <2>2. job' \in [Workers -> Job] /\ \A x \in Workers : JobOK(x)'
    BY <1>16, <1>j, <2>0, <2>1, FinishJob, GotoJob DEF AskProvider
  <2> QED
    BY <1>16, <1>a, <2>2 DEF AskProvider, TypeInv, TypeOK
<1>17. ASSUME NEW w \in Workers, Release(w) PROVE TypeInv'
  <2>1. job[w].order \in Orders /\ job' \in [Workers -> Job] /\ \A x \in Workers : JobOK(x)'
    BY <1>17, <1>a, <1>j, FinishJob DEF Release, JobOK
  <2>2. TypeOK'
    BY <1>17, <1>a, <2>1, CancelPendingType DEF Release, TypeOK
  <2> QED
    BY <2>1, <2>2 DEF TypeInv
<1>18. ASSUME NEW w \in Workers, CheckVendors(w) PROVE TypeInv'
  BY <1>18, <1>a, <1>j, GotoJob DEF CheckVendors, TypeInv, TypeOK, ApplySteps
<1>19. ASSUME NEW w \in Workers, Reject(w) PROVE TypeInv'
  <2>1. /\ job[w].order \in Orders /\ job[w].payment \in Payments
        /\ job' \in [Workers -> Job] /\ \A x \in Workers : JobOK(x)'
    BY <1>19, <1>a, <1>j, FinishJob, GotoJob DEF Reject, JobOK, ApplySteps
  <2>2. TypeOK'
    BY <1>19, <1>a, <2>1, CancelPendingType DEF Reject, TypeOK
  <2> QED
    BY <2>1, <2>2 DEF TypeInv
<1>20. ASSUME NEW w \in Workers, ConfirmOrder(w) PROVE TypeInv'
  <2>1. /\ job[w].order \in Orders /\ job[w].payment \in Payments
        /\ job' \in [Workers -> Job] /\ \A x \in Workers : JobOK(x)'
    BY <1>20, <1>a, <1>j, FinishJob, GotoJob DEF ConfirmOrder, JobOK, ApplySteps
  <2>2. available' \in [Listings -> Nat] /\ reserved' \in [Listings -> Nat]
    BY <1>20, <1>a, <2>1, Quantities DEF ConfirmOrder, TypeOK
  <2>3. TypeOK'
    BY <1>20, <1>a, <2>1, <2>2 DEF ConfirmOrder, TypeOK
  <2> QED
    BY <2>1, <2>3 DEF TypeInv
<1>21. ASSUME NEW w \in Workers, Reread(w) PROVE TypeInv'
  <2>1. /\ job[w].payment \in Payments
        /\ job' \in [Workers -> Job] /\ \A x \in Workers : JobOK(x)'
    BY <1>21, <1>a, <1>j, FinishJob, GotoJob DEF Reread, JobOK, ApplySteps
  <2> QED
    BY <1>21, <1>a, <2>1 DEF Reread, TypeInv, TypeOK
<1>22. ASSUME NEW w \in Workers, MarkRefundRequired(w) PROVE TypeInv'
  <2>1. /\ job[w].order \in Orders /\ job[w].payment \in Payments
        /\ job' \in [Workers -> Job] /\ \A x \in Workers : JobOK(x)'
    BY <1>22, <1>a, <1>j, FinishJob, GotoJob DEF MarkRefundRequired, JobOK, ApplySteps
  <2> QED
    BY <1>22, <1>a, <2>1 DEF MarkRefundRequired, TypeInv, TypeOK
<1>23. ASSUME NEW w \in Workers, Recheck(w) PROVE TypeInv'
  <2>1. /\ job[w].payment \in Payments
        /\ job' \in [Workers -> Job] /\ \A x \in Workers : JobOK(x)'
    BY <1>23, <1>a, <1>j, FinishJob DEF Recheck, JobOK, ApplySteps
  <2> QED
    BY <1>23, <1>a, <2>1 DEF Recheck, TypeInv, TypeOK
<1>24. ASSUME NEW w \in Workers, ProviderUnavailable(w) PROVE TypeInv'
  BY <1>24, <1>a, FinishJob DEF ProviderUnavailable, TypeInv, TypeOK
<1>25. ASSUME NEW w \in Workers, WorkerCrash(w) PROVE TypeInv'
  BY <1>25, <1>a, FinishJob DEF WorkerCrash, TypeInv, TypeOK
<1>26. CASE UNCHANGED vars
  BY <1>26, <1>a DEF vars, TypeInv, TypeOK, JobOK
<1> QED
  BY <1>1, <1>2, <1>3, <1>4, <1>5, <1>6, <1>7, <1>8, <1>9, <1>10, <1>11, <1>12, <1>13,
     <1>14, <1>15, <1>16, <1>17, <1>18, <1>19, <1>20, <1>21, <1>22, <1>23, <1>24, <1>25,
     <1>26 DEF Next, JobStepOf

(* In every reachable state the variables have their types and no job      *)
(* inside applyCapture carries anything but a captured payment of its own  *)
(* order.                                                                  *)
THEOREM TypeCorrect == Spec => []TypeInv
<1>1. ASSUME Init PROVE TypeInv
  <2>1. NoJob \in Job
    BY DEF NoJob, Job, JobStep
  <2>2. available \in [Listings -> Nat] /\ crashes \in 0..MaxCrashes
    <3>1. available \in [Listings -> StockLevels] /\ crashes = 0
      BY <1>1 DEF Init
    <3>2. StockLevels \subseteq Nat /\ MaxCrashes \in Nat
      BY SellersAssumption
    <3>3. crashes \in 0..MaxCrashes
      BY <3>1, <3>2
    <3>4. available = [l \in Listings |-> available[l]]
      BY <3>1
    <3>5. \A l \in Listings : available[l] \in Nat
      BY <3>1, <3>2
    <3> QED
      BY <3>3, <3>4, <3>5
  <2>3. job \in [Workers -> Job]
    BY <1>1, <2>1 DEF Init
  <2>4. TypeOK
    BY <1>1, <2>2, <2>3 DEF Init, TypeOK, CheckoutStep, PaymentStatus, Lifecycle!Status
  <2>5. ASSUME NEW w \in Workers PROVE JobOK(w)
    BY <1>1 DEF Init, JobOK, NoJob, ApplySteps
  <2> QED
    BY <2>4, <2>5 DEF TypeInv
<1> QED
  BY <1>1, TypeInvStep, PTL DEF Spec

(* Every variable of the checkout and payment jobs keeps its type.         *)
THEOREM TypeAlwaysOK == Spec => []TypeOK
<1>1. TypeInv => TypeOK
  BY DEF TypeInv
<1> QED
  BY <1>1, TypeCorrect, PTL

-----------------------------------------------------------------------------
(* Money.  MoneyRecorded and FlaggedHoldsPayment are not inductive: what a *)
(* job may assume of its order at each step of applyCapture is added.      *)

OrderKnown ==
  \A o \in Orders :
    /\ checkout[o] \in {"idle", "validated"} <=> status[o] = "none"
    /\ linked[o] => status[o] # "none"

JobMoney(w) ==
  LET o == job[w].order IN
  /\ job[w].pc # "idle" => status[o] # "none"
  /\ job[w].pc \in {"vendors", "confirm", "reread"} => job[w].payment \in Exact
  /\ job[w].pc \in {"reread", "mark"} => status[o] # "pending_payment"
  /\ job[w].pc = "recheck" => paymentId[o] # NoPayment

MoneyInv ==
  /\ OrderKnown
  /\ MoneyRecorded
  /\ FlaggedHoldsPayment
  /\ \A w \in Workers : JobMoney(w)

(* What a step can do to the orders, whichever job takes it: a checkout    *)
(* reserves, a compensation gives back, an unpaid order settles once as    *)
(* cancelled, owed or confirmed, a cancelled one becomes owed, or the      *)
(* refunds move a paid one.                                                *)

CapturedOn(p, o) ==
  p \in Payments /\ OrderOf[p] = o /\ payment[p] = "captured"

Reserves(o) ==
  /\ checkout[o] = "validated"
  /\ checkout' = [checkout EXCEPT ![o] = "creating"]
  /\ reserved' = [l \in Listings |-> reserved[l] + Qty[o][l]]
  /\ status' = [status EXCEPT ![o] = "pending_payment"]
  /\ UNCHANGED paymentId

Compensates(o) ==
  /\ checkout[o] = "creating"
  /\ Compensate(o)
  /\ UNCHANGED paymentId

Settles(o, target, p) ==
  /\ status[o] = "pending_payment"
  /\ CancelPending(o, target, p)
  /\ \/ target = "cancelled" /\ p = NoPayment
     \/ target = "refund_required" /\ CapturedOn(p, o)
     \/ target = "confirmed" /\ CapturedOn(p, o) /\ p \in Exact

Owes(o, p) ==
  /\ status[o] = "cancelled"
  /\ paymentId[o] = NoPayment
  /\ CapturedOn(p, o)
  /\ status' = [status EXCEPT ![o] = "refund_required"]
  /\ paymentId' = [paymentId EXCEPT ![o] = p]
  /\ UNCHANGED reserved

Refunds(o, s) ==
  /\ \/ <<status[o], s>> \in Lifecycle!RefundMoves
     \/ status[o] = "refunded" /\ s = "cancelled"
  /\ status' = [status EXCEPT ![o] = s]
  /\ UNCHANGED <<paymentId, reserved>>

OrderMove(o) ==
  \/ Reserves(o)
  \/ Compensates(o)
  \/ \E target \in Lifecycle!Status, p \in Payments \cup {NoPayment} : Settles(o, target, p)
  \/ \E p \in Payments : Owes(o, p)
  \/ \E s \in Lifecycle!Status : Refunds(o, s)

OrderStep ==
  UNCHANGED <<status, paymentId, reserved>> \/ \E o \in Orders : OrderMove(o)

LEMMA OrderSteps ==
  ASSUME TypeInv, [Next]_vars,
         \A w \in Workers : job[w].pc = "confirm" => job[w].payment \in Exact
  PROVE  OrderStep
<1>a. TypeOK /\ \A w \in Workers : JobOK(w)
  BY DEF TypeInv
<1>b. ASSUME NEW w \in Workers, job[w].pc # "idle" PROVE job[w].order \in Orders
  BY <1>a, <1>b DEF JobOK
<1>c. ASSUME NEW w \in Workers, job[w].pc \in ApplySteps
      PROVE  /\ job[w].payment \in Payments
             /\ CapturedOn(job[w].payment, job[w].order)
             /\ job[w].payment # NoPayment
  BY <1>a, <1>c, PaymentsAssumption DEF JobOK, CapturedOn
<1>d. {"cancelled", "refund_required", "confirmed"} \subseteq Lifecycle!Status
  BY DEF Lifecycle!Status
<1>1. ASSUME NEW o \in Orders, CheckoutReserve(o) PROVE OrderStep
  BY <1>1 DEF CheckoutReserve, OrderStep, OrderMove, Reserves
<1>2. ASSUME NEW o \in Orders, PaymentOrderFailed(o) PROVE OrderStep
  BY <1>2 DEF PaymentOrderFailed, OrderStep, OrderMove, Compensates
<1>3. ASSUME NEW w \in Workers, Release(w) PROVE OrderStep
  <2>1. job[w].order \in Orders
    BY <1>3, <1>b DEF Release
  <2>2. CASE status[job[w].order] = "pending_payment"
    <3>1. Settles(job[w].order, "cancelled", NoPayment)
      BY <1>3, <2>2 DEF Release, Settles
    <3> QED
      BY <2>1, <3>1, <1>d DEF OrderStep, OrderMove
  <2>3. CASE status[job[w].order] # "pending_payment"
    BY <1>3, <2>3 DEF Release, OrderStep
  <2> QED
    BY <2>2, <2>3
<1>4. ASSUME NEW w \in Workers, Reject(w) PROVE OrderStep
  <2>1. job[w].order \in Orders
    BY <1>4, <1>b DEF Reject
  <2>2. CASE status[job[w].order] = "pending_payment"
    <3>1. CapturedOn(job[w].payment, job[w].order) /\ job[w].payment \in Payments
      BY <1>4, <1>c DEF Reject, ApplySteps
    <3>2. Settles(job[w].order, "refund_required", job[w].payment)
      BY <1>4, <2>2, <3>1 DEF Reject, Settles
    <3> QED
      BY <2>1, <3>1, <3>2, <1>d DEF OrderStep, OrderMove
  <2>3. CASE status[job[w].order] # "pending_payment"
    BY <1>4, <2>3 DEF Reject, OrderStep
  <2> QED
    BY <2>2, <2>3
<1>5. ASSUME NEW w \in Workers, ConfirmOrder(w) PROVE OrderStep
  <2>1. job[w].order \in Orders
    BY <1>5, <1>b DEF ConfirmOrder
  <2>2. CASE status[job[w].order] = "pending_payment"
    <3>1. /\ CapturedOn(job[w].payment, job[w].order)
          /\ job[w].payment \in Payments /\ job[w].payment # NoPayment
          /\ job[w].payment \in Exact
      BY <1>5, <1>c DEF ConfirmOrder, ApplySteps
    <3>2. CancelPending(job[w].order, "confirmed", job[w].payment)
      BY <1>5, <2>2, <3>1 DEF ConfirmOrder, CancelPending
    <3>3. Settles(job[w].order, "confirmed", job[w].payment)
      BY <2>2, <3>1, <3>2 DEF Settles
    <3> QED
      BY <2>1, <3>1, <3>3, <1>d DEF OrderStep, OrderMove
  <2>3. CASE status[job[w].order] # "pending_payment"
    BY <1>5, <2>3 DEF ConfirmOrder, OrderStep, stockVars
  <2> QED
    BY <2>2, <2>3
<1>6. ASSUME NEW w \in Workers, MarkRefundRequired(w) PROVE OrderStep
  <2>1. job[w].order \in Orders /\ UNCHANGED reserved
    BY <1>6, <1>b DEF MarkRefundRequired, stockVars
  <2>2. CASE status[job[w].order] = "cancelled" /\ paymentId[job[w].order] = NoPayment
    <3>1. CapturedOn(job[w].payment, job[w].order) /\ job[w].payment \in Payments
      BY <1>6, <1>c DEF MarkRefundRequired, ApplySteps
    <3>2. Owes(job[w].order, job[w].payment)
      BY <1>6, <2>1, <2>2, <3>1 DEF MarkRefundRequired, Owes
    <3> QED
      BY <2>1, <3>1, <3>2 DEF OrderStep, OrderMove
  <2>3. CASE ~(status[job[w].order] = "cancelled" /\ paymentId[job[w].order] = NoPayment)
    BY <1>6, <2>1, <2>3 DEF MarkRefundRequired, OrderStep
  <2> QED
    BY <2>2, <2>3
<1>7. ASSUME NEW o \in Orders, NEW s \in Lifecycle!Status, RefundProjection(o, s)
      PROVE  OrderStep
  BY <1>7 DEF RefundProjection, OrderStep, OrderMove, Refunds, stockVars
<1>8. ASSUME NEW o \in Orders, CloseRefunded(o) PROVE OrderStep
  BY <1>8, <1>d DEF CloseRefunded, OrderStep, OrderMove, Refunds, stockVars
<1>9. ASSUME NEW o \in Orders,
             \/ CheckoutValidate(o) \/ CheckoutRefused(o) \/ PaymentOrderCreated(o)
             \/ CheckoutCrash(o) \/ Age(o)
             \/ \E w \in Workers : CancelRequested(w, o) \/ SweepPicked(w, o)
      PROVE  OrderStep
  BY <1>9 DEF CheckoutValidate, CheckoutRefused, PaymentOrderCreated, CheckoutCrash, Age,
              CancelRequested, SweepPicked, OrderStep, orderVars, stockVars
<1>10. ASSUME \/ \E l \in Listings, n \in StockLevels : SetStock(l, n)
              \/ \E v \in Vendors, b \in BOOLEAN : SetApproval(v, b)
              \/ \E p \in Payments, s \in PaymentStatus : PaymentMove(p, s)
              \/ \E p \in Payments, w \in Workers : WebhookCaptured(w, p)
       PROVE  OrderStep
  BY <1>10 DEF SetStock, SetApproval, PaymentMove, WebhookCaptured, OrderStep, orderVars,
               stockVars
<1>11. ASSUME NEW w \in Workers,
              \/ AskProvider(w) \/ CheckVendors(w) \/ Reread(w) \/ Recheck(w)
              \/ ProviderUnavailable(w) \/ WorkerCrash(w)
       PROVE  OrderStep
  BY <1>11 DEF AskProvider, CheckVendors, Reread, Recheck, ProviderUnavailable, WorkerCrash,
               OrderStep, orderVars, stockVars
<1>12. CASE UNCHANGED vars
  BY <1>12 DEF vars, OrderStep, orderVars, stockVars
<1> QED
  BY <1>1, <1>2, <1>3, <1>4, <1>5, <1>6, <1>7, <1>8, <1>9, <1>10, <1>11, <1>12
     DEF Next, JobStepOf

(* An order that exists stays, one that left pending_payment never returns *)
(* to it, a recorded payment stays, and an order is born of a checkout.    *)
Grown(o) ==
  /\ status[o] # "none" => status'[o] # "none"
  /\ status[o] \notin {"none", "pending_payment"} => status'[o] # "pending_payment"
  /\ paymentId[o] # NoPayment => paymentId'[o] = paymentId[o]
  /\ status[o] = "none" /\ checkout'[o] = checkout[o] => status'[o] = "none"

OrdersGrown == \A o \in Orders : Grown(o)

LEMMA OrdersGrow ==
  ASSUME TypeInv, OrderKnown, MoneyRecorded, OrderStep, NEW o \in Orders
  PROVE  Grown(o)
<1>a. /\ status \in [Orders -> Lifecycle!Status]
      /\ paymentId \in [Orders -> Payments \cup {NoPayment}]
      /\ checkout \in [Orders -> CheckoutStep]
  BY DEF TypeInv, TypeOK
<1>1. CASE UNCHANGED <<status, paymentId, reserved>>
  BY <1>1 DEF Grown
<1>2. ASSUME NEW x \in Orders, Reserves(x) PROVE Grown(o)
  <2>1. status[x] = "none"
    BY <1>2 DEF OrderKnown, Reserves
  <2>2. checkout'[x] # checkout[x]
    BY <1>2, <1>a DEF Reserves
  <2> QED
    BY <1>2, <1>a, <2>1, <2>2 DEF Reserves, Grown
<1>3. ASSUME NEW x \in Orders, Compensates(x) PROVE Grown(o)
  BY <1>3, <1>a DEF Compensates, Compensate, Grown
<1>4. ASSUME NEW x \in Orders, NEW target \in Lifecycle!Status,
             NEW p \in Payments \cup {NoPayment}, Settles(x, target, p)
      PROVE  Grown(o)
  BY <1>4, <1>a DEF Settles, CancelPending, MoneyRecorded, Grown
<1>5. ASSUME NEW x \in Orders, NEW p \in Payments, Owes(x, p) PROVE Grown(o)
  BY <1>5, <1>a DEF Owes, Grown
<1>6. ASSUME NEW x \in Orders, NEW s \in Lifecycle!Status, Refunds(x, s) PROVE Grown(o)
  BY <1>6, <1>a DEF Refunds, Lifecycle!RefundMoves, Grown
<1> QED
  BY <1>1, <1>2, <1>3, <1>4, <1>5, <1>6 DEF OrderStep, OrderMove

(* A captured payment stays captured.                                      *)
LEMMA CapturedForGood ==
  ASSUME TypeInv, [Next]_vars, NEW p \in Payments, payment[p] = "captured"
  PROVE  payment'[p] = "captured"
<1>1. ASSUME NEW x \in Payments, NEW s \in PaymentStatus, PaymentMove(x, s)
      PROVE  payment'[p] = "captured"
  BY <1>1 DEF PaymentMove, PaymentMoves, TypeInv, TypeOK
<1>2. CASE UNCHANGED payment
  BY <1>2
<1> QED
  BY <1>1, <1>2 DEF Next, JobStepOf, vars, externalVars, CheckoutValidate, CheckoutRefused,
     CheckoutReserve, PaymentOrderCreated, PaymentOrderFailed, CheckoutCrash, Age,
     CloseRefunded, RefundProjection, CancelRequested, SweepPicked, SetStock, SetApproval,
     WebhookCaptured, AskProvider, Release, CheckVendors, Reject, ConfirmOrder, Reread,
     MarkRefundRequired, Recheck, ProviderUnavailable, WorkerCrash

LEMMA MoneyRecordedStep ==
  ASSUME TypeInv, OrderKnown, MoneyRecorded, OrderStep,
         \A p \in Payments : payment[p] = "captured" => payment'[p] = "captured"
  PROVE  MoneyRecorded'
<1>a. /\ status \in [Orders -> Lifecycle!Status]
      /\ paymentId \in [Orders -> Payments \cup {NoPayment}]
  BY DEF TypeInv, TypeOK
<1>1. CASE UNCHANGED <<status, paymentId, reserved>>
  BY <1>1, <1>a DEF MoneyRecorded
<1>2. ASSUME NEW x \in Orders, Reserves(x) PROVE MoneyRecorded'
  <2>1. paymentId[x] = NoPayment
    BY <1>2 DEF OrderKnown, MoneyRecorded, Reserves
  <2> QED
    BY <1>2, <1>a, <2>1 DEF Reserves, MoneyRecorded
<1>3. ASSUME NEW x \in Orders, Compensates(x) PROVE MoneyRecorded'
  BY <1>3, <1>a DEF Compensates, Compensate, MoneyRecorded
<1>4. ASSUME NEW x \in Orders, NEW target \in Lifecycle!Status,
             NEW p \in Payments \cup {NoPayment}, Settles(x, target, p)
      PROVE  MoneyRecorded'
  BY <1>4, <1>a, PaymentsAssumption DEF Settles, CancelPending, CapturedOn, MoneyRecorded
<1>5. ASSUME NEW x \in Orders, NEW p \in Payments, Owes(x, p) PROVE MoneyRecorded'
  BY <1>5, <1>a, PaymentsAssumption DEF Owes, CapturedOn, MoneyRecorded
<1>6. ASSUME NEW x \in Orders, NEW s \in Lifecycle!Status, Refunds(x, s) PROVE MoneyRecorded'
  BY <1>6, <1>a DEF Refunds, Lifecycle!RefundMoves, MoneyRecorded
<1> QED
  BY <1>1, <1>2, <1>3, <1>4, <1>5, <1>6 DEF OrderStep, OrderMove

LEMMA OrderKnownStep ==
  ASSUME TypeInv, OrderKnown, OrdersGrown, [Next]_vars
  PROVE  OrderKnown'
<1>a. /\ checkout \in [Orders -> CheckoutStep]
      /\ linked \in [Orders -> BOOLEAN]
      /\ status \in [Orders -> Lifecycle!Status]
  BY DEF TypeInv, TypeOK
<1>1. ASSUME NEW o \in Orders,
             CheckoutValidate(o) \/ CheckoutRefused(o) \/ CheckoutCrash(o) \/ PaymentOrderCreated(o)
      PROVE  OrderKnown'
  BY <1>1, <1>a DEF CheckoutValidate, CheckoutRefused, CheckoutCrash, PaymentOrderCreated,
                    OrderKnown, orderVars
<1>2. ASSUME NEW o \in Orders, CheckoutReserve(o) PROVE OrderKnown'
  BY <1>2, <1>a DEF CheckoutReserve, OrderKnown
<1>3. ASSUME NEW o \in Orders, PaymentOrderFailed(o) PROVE OrderKnown'
  BY <1>3, <1>a DEF PaymentOrderFailed, Compensate, OrderKnown
<1>4. CASE UNCHANGED <<checkout, linked>>
  BY <1>4 DEF OrderKnown, OrdersGrown, Grown
<1> QED
  BY <1>1, <1>2, <1>3, <1>4
     DEF Next, JobStepOf, vars, orderVars, Age, CloseRefunded, RefundProjection,
         CancelRequested, SweepPicked, SetStock, SetApproval, PaymentMove, WebhookCaptured,
         AskProvider, Release, CheckVendors, Reject, ConfirmOrder, Reread,
         MarkRefundRequired, Recheck, ProviderUnavailable, WorkerCrash

(* A job that does not move keeps what it may assume.                      *)
LEMMA JobKept ==
  ASSUME TypeInv, OrdersGrown, NEW w \in Workers, JobMoney(w), job'[w] = job[w]
  PROVE  JobMoney(w)'
<1>1. CASE job[w].pc = "idle"
  BY <1>1 DEF JobMoney
<1>2. CASE job[w].pc # "idle"
  <2>1. job[w].order \in Orders
    BY <1>2 DEF TypeInv, JobOK
  <2> QED
    BY <2>1 DEF JobMoney, OrdersGrown, Grown
<1> QED
  BY <1>1, <1>2

(* What a job needs to arrive at a step.                                   *)
LEMMA JobArrives ==
  ASSUME NEW w \in Workers, NEW o \in Orders, job'[w].order = o,
         job'[w].pc # "idle" => status'[o] # "none",
         job'[w].pc \in {"vendors", "confirm", "reread"} => job'[w].payment \in Exact,
         job'[w].pc \in {"reread", "mark"} => status'[o] # "pending_payment",
         job'[w].pc = "recheck" => paymentId'[o] # NoPayment
  PROVE  JobMoney(w)'
BY DEF JobMoney

LEMMA JobMoneyStep ==
  ASSUME TypeInv, MoneyInv, OrdersGrown, [Next]_vars, NEW x \in Workers
  PROVE  JobMoney(x)'
<1>a. TypeOK /\ OrderKnown /\ MoneyRecorded /\ \A w \in Workers : JobOK(w) /\ JobMoney(w)
  BY DEF TypeInv, MoneyInv
<1>b. ASSUME job'[x] = job[x] PROVE JobMoney(x)'
  BY <1>a, <1>b, JobKept
<1>c. ASSUME job'[x].pc = "idle" PROVE JobMoney(x)'
  BY <1>c DEF JobMoney
<1>d. ASSUME job[x].pc # "idle"
      PROVE  job[x].order \in Orders /\ status[job[x].order] # "none"
  BY <1>a, <1>d DEF JobOK, JobMoney
<1>e. ASSUME job[x].pc \in ApplySteps PROVE job[x].payment \in Payments
  BY <1>a, <1>e DEF JobOK
<1>j. "ask" \in JobStep /\ "release" \in JobStep /\ \A s \in ApplySteps : s \in JobStep
  BY DEF JobStep, ApplySteps
<1>1. ASSUME NEW o \in Orders, NEW w \in Workers, CancelRequested(w, o) \/ SweepPicked(w, o)
      PROVE  JobMoney(x)'
  <2>1. Run(w, "ask", o, NoPayment) /\ status[o] = "pending_payment" /\ UNCHANGED payment
    BY <1>1 DEF CancelRequested, SweepPicked, externalVars
  <2>2. /\ job'[w].pc = "ask" /\ job'[w].order = o
        /\ \A y \in Workers \ {w} : job'[y] = job[y]
    BY <1>j, <2>1, RunJob DEF ApplySteps
  <2> QED
    BY <1>b, <2>1, <2>2, JobArrives DEF OrdersGrown, Grown
<1>2. ASSUME NEW p \in Payments, NEW w \in Workers, WebhookCaptured(w, p)
      PROVE  JobMoney(x)'
  <2> DEFINE pc == ApplyCapture(p, status[OrderOf[p]] = "pending_payment")
  <2>1. /\ Run(w, pc, OrderOf[p], p) /\ UNCHANGED <<payment, status>> /\ OrderOf[p] \in Orders
        /\ linked[OrderOf[p]] /\ payment[p] = "captured"
    BY <1>2, PaymentsAssumption DEF WebhookCaptured, externalVars, orderVars
  <2>2. pc \in ApplySteps /\ pc \in JobStep
    BY ApplyCaptureType
  <2>3. /\ job'[w].pc = pc /\ job'[w].order = OrderOf[p] /\ job'[w].payment = p
        /\ \A y \in Workers \ {w} : job'[y] = job[y]
    BY <2>1, <2>2, RunJob
  <2>4. /\ pc \in {"vendors", "confirm", "reread"} => p \in Exact
        /\ pc \in {"reread", "mark"} => status[OrderOf[p]] # "pending_payment"
        /\ pc # "recheck"
    BY DEF ApplyCapture
  <2>5. status[OrderOf[p]] # "none"
    BY <1>a, <2>1 DEF OrderKnown
  <2> QED
    BY <1>b, <2>1, <2>3, <2>4, <2>5, JobArrives
<1>3. ASSUME NEW w \in Workers, AskProvider(w) PROVE JobMoney(x)'
  <2>0. job[w].pc = "ask" /\ UNCHANGED <<payment, status>>
    BY <1>3 DEF AskProvider, externalVars, orderVars
  <2>1. ASSUME NEW p \in PaymentsOn(job[w].order), payment[p] = "captured",
               Pursue(w, ApplyCapture(p, TRUE), p)
        PROVE  JobMoney(x)'
    <3>1. /\ ApplyCapture(p, TRUE) \in ApplySteps
          /\ ApplyCapture(p, TRUE) \in {"vendors", "confirm", "reread"} => p \in Exact
          /\ ApplyCapture(p, TRUE) \notin {"reread", "mark", "recheck"}
      BY DEF ApplyCapture, ApplySteps
    <3>2. /\ job'[w].pc = ApplyCapture(p, TRUE) /\ job'[w].order = job[w].order
          /\ job'[w].payment = p
          /\ \A y \in Workers \ {w} : job'[y] = job[y]
      <4>1. p \in Payments /\ OrderOf[p] = job[w].order /\ job[w].pc # "idle"
        BY <2>0 DEF PaymentsOn
      <4> QED
        BY <2>0, <2>1, <3>1, <4>1, PursueJob
    <3> QED
      BY <1>b, <1>d, <2>0, <3>1, <3>2, JobArrives
  <2>2. ASSUME Goto(w, "release") PROVE JobMoney(x)'
    <3>1. /\ job'[w].pc = "release" /\ job'[w].order = job[w].order
          /\ \A y \in Workers \ {w} : job'[y] = job[y]
      BY <1>j, <2>0, <2>2, GotoJob DEF ApplySteps
    <3> QED
      BY <1>b, <1>d, <2>0, <3>1, JobArrives
  <2>3. ASSUME Finish(w) PROVE JobMoney(x)'
    BY <1>b, <1>c, <2>0, <2>3, FinishJob
  <2> QED
    BY <1>3, <2>1, <2>2, <2>3 DEF AskProvider
<1>4. ASSUME NEW w \in Workers, Release(w) \/ Recheck(w) \/ ProviderUnavailable(w) \/ WorkerCrash(w)
      PROVE  JobMoney(x)'
  <2>1. Finish(w) /\ UNCHANGED payment
    BY <1>4 DEF Release, Recheck, ProviderUnavailable, WorkerCrash, externalVars
  <2> QED
    BY <1>b, <1>c, <2>1, FinishJob
<1>5. ASSUME NEW w \in Workers, CheckVendors(w) PROVE JobMoney(x)'
  <2>1. \E pc \in {"confirm", "reject"} : Goto(w, pc)
    BY <1>5 DEF CheckVendors
  <2>2. job[w].pc = "vendors" /\ UNCHANGED <<payment, status>> /\ job[w].payment \in Exact
    BY <1>5, <1>a DEF CheckVendors, JobMoney, externalVars, orderVars
  <2>3. /\ job'[w].pc \in {"confirm", "reject"} /\ job'[w].order = job[w].order
        /\ job'[w].payment = job[w].payment
        /\ \A y \in Workers \ {w} : job'[y] = job[y]
    BY <1>j, <2>1, <2>2, GotoJob DEF ApplySteps
  <2> QED
    BY <1>b, <1>d, <2>2, <2>3, JobArrives
<1>6. ASSUME NEW w \in Workers, Reject(w) PROVE JobMoney(x)'
  <2>0. job[w].pc = "reject" /\ UNCHANGED payment
    BY <1>6 DEF Reject, externalVars
  <2>1. CASE status[job[w].order] = "pending_payment"
    BY <1>6, <1>b, <1>c, <2>0, <2>1, FinishJob DEF Reject
  <2>2. CASE status[job[w].order] # "pending_payment"
    <3>1. /\ \/ Goto(w, "confirm") /\ job[w].payment \in Exact
             \/ Goto(w, "mark")
          /\ UNCHANGED status
      BY <1>6, <2>2 DEF Reject
    <3>2. /\ job'[w].pc \in {"confirm", "mark"} /\ job'[w].order = job[w].order
          /\ job'[w].pc = "confirm" => job'[w].payment \in Exact
          /\ \A y \in Workers \ {w} : job'[y] = job[y]
      BY <1>j, <2>0, <3>1, GotoJob DEF ApplySteps
    <3> QED
      BY <1>b, <1>d, <2>0, <2>2, <3>1, <3>2, JobArrives
  <2> QED
    BY <2>1, <2>2
<1>7. ASSUME NEW w \in Workers, ConfirmOrder(w) PROVE JobMoney(x)'
  <2>0. job[w].pc = "confirm" /\ UNCHANGED payment /\ job[w].payment \in Exact
    BY <1>7, <1>a DEF ConfirmOrder, externalVars, JobMoney
  <2>1. CASE status[job[w].order] = "pending_payment"
    BY <1>7, <1>b, <1>c, <2>0, <2>1, FinishJob DEF ConfirmOrder
  <2>2. CASE status[job[w].order] # "pending_payment"
    <3>1. Goto(w, "reread") /\ UNCHANGED status
      BY <1>7, <2>2 DEF ConfirmOrder
    <3>2. /\ job'[w].pc = "reread" /\ job'[w].order = job[w].order
          /\ job'[w].payment = job[w].payment
          /\ \A y \in Workers \ {w} : job'[y] = job[y]
      BY <1>j, <2>0, <3>1, GotoJob DEF ApplySteps
    <3> QED
      BY <1>b, <1>d, <2>0, <2>2, <3>1, <3>2, JobArrives
  <2> QED
    BY <2>1, <2>2
<1>8. ASSUME NEW w \in Workers, Reread(w) PROVE JobMoney(x)'
  <2>0. /\ job[w].pc = "reread" /\ UNCHANGED <<payment, status>>
        /\ status[job[w].order] # "pending_payment"
    BY <1>8, <1>a DEF Reread, JobMoney, externalVars, orderVars
  <2>1. ASSUME Goto(w, "mark") PROVE JobMoney(x)'
    <3>1. /\ job'[w].pc = "mark" /\ job'[w].order = job[w].order
          /\ \A y \in Workers \ {w} : job'[y] = job[y]
      BY <1>j, <2>0, <2>1, GotoJob DEF ApplySteps
    <3> QED
      BY <1>b, <1>d, <2>0, <3>1, JobArrives
  <2>2. ASSUME Finish(w) PROVE JobMoney(x)'
    BY <1>b, <1>c, <2>0, <2>2, FinishJob
  <2> QED
    BY <1>8, <2>1, <2>2 DEF Reread
<1>9. ASSUME NEW w \in Workers, MarkRefundRequired(w) PROVE JobMoney(x)'
  <2> DEFINE o == job[w].order
  <2>0. /\ job[w].pc = "mark" /\ UNCHANGED payment
        /\ o \in Orders /\ status[o] \notin {"none", "pending_payment"}
    BY <1>9, <1>a DEF MarkRefundRequired, JobMoney, JobOK, externalVars
  <2>1. CASE status[o] = "cancelled" /\ paymentId[o] = NoPayment
    BY <1>9, <1>b, <1>c, <2>0, <2>1, FinishJob DEF MarkRefundRequired
  <2>2. CASE ~(status[o] = "cancelled" /\ paymentId[o] = NoPayment)
    <3>1. Goto(w, "recheck") /\ UNCHANGED <<status, paymentId>>
      BY <1>9, <2>2 DEF MarkRefundRequired
    <3>2. /\ job'[w].pc = "recheck" /\ job'[w].order = o
          /\ \A y \in Workers \ {w} : job'[y] = job[y]
      BY <1>j, <2>0, <3>1, GotoJob DEF ApplySteps
    <3>3. paymentId[o] # NoPayment
      BY <1>a, <2>0, <2>2 DEF MoneyRecorded
    <3> QED
      BY <1>b, <2>0, <3>1, <3>2, <3>3, JobArrives
  <2> QED
    BY <2>1, <2>2
<1>10. CASE UNCHANGED job
  BY <1>b, <1>10
<1> QED
  BY <1>1, <1>2, <1>3, <1>4, <1>5, <1>6, <1>7, <1>8, <1>9, <1>10
     DEF Next, JobStepOf, vars, CheckoutValidate, CheckoutRefused, CheckoutReserve,
         PaymentOrderCreated, PaymentOrderFailed, CheckoutCrash, Age, CloseRefunded,
         RefundProjection, SetStock, SetApproval, PaymentMove

LEMMA FlaggedStep ==
  ASSUME TypeInv, MoneyInv, OrdersGrown, [Next]_vars
  PROVE  FlaggedHoldsPayment'
<1>a. /\ TypeOK /\ MoneyRecorded /\ FlaggedHoldsPayment
      /\ \A w \in Workers : JobOK(w) /\ JobMoney(w)
  BY DEF TypeInv, MoneyInv
<1>b. ASSUME flagged' \subseteq flagged PROVE FlaggedHoldsPayment'
  BY <1>a, <1>b, PaymentsAssumption DEF FlaggedHoldsPayment, OrdersGrown, Grown, TypeOK
<1>c. ASSUME NEW w \in Workers, job[w].pc \in ApplySteps, UNCHANGED paymentId,
             flagged' \subseteq flagged \cup {job[w].payment},
             paymentId[job[w].order] # NoPayment
      PROVE  FlaggedHoldsPayment'
  BY <1>a, <1>c DEF FlaggedHoldsPayment, JobOK
<1>1. ASSUME NEW w \in Workers, Reread(w) PROVE FlaggedHoldsPayment'
  <2>1. CASE status[job[w].order] \in {"cancelled", "refund_required"}
    BY <1>1, <1>b, <2>1 DEF Reread
  <2>2. CASE status[job[w].order] \notin {"cancelled", "refund_required"}
    <3>1. job[w].pc \in ApplySteps /\ job[w].order \in Orders
      BY <1>1, <1>a DEF Reread, JobOK, ApplySteps
    <3>2. status[job[w].order] \notin {"none", "pending_payment", "cancelled"}
      BY <1>1, <1>a, <2>2 DEF Reread, JobMoney
    <3>3. paymentId[job[w].order] # NoPayment
      BY <1>a, <3>1, <3>2 DEF MoneyRecorded
    <3> QED
      BY <1>1, <1>c, <2>2, <3>1, <3>3 DEF Reread, orderVars
  <2> QED
    BY <2>1, <2>2
<1>2. ASSUME NEW w \in Workers, Recheck(w) PROVE FlaggedHoldsPayment'
  <2>1. job[w].pc \in ApplySteps /\ paymentId[job[w].order] # NoPayment
    BY <1>2, <1>a DEF Recheck, JobMoney, ApplySteps
  <2> QED
    BY <1>2, <1>c, <2>1 DEF Recheck, orderVars
<1>3. CASE UNCHANGED flagged
  BY <1>3, <1>b
<1> QED
  BY <1>1, <1>2, <1>3
     DEF Next, JobStepOf, vars, CheckoutValidate, CheckoutRefused, CheckoutReserve,
         PaymentOrderCreated, PaymentOrderFailed, CheckoutCrash, Age, CloseRefunded,
         RefundProjection, SetStock, SetApproval, PaymentMove, CancelRequested, SweepPicked,
         WebhookCaptured, AskProvider, Release, CheckVendors, Reject, ConfirmOrder,
         MarkRefundRequired, ProviderUnavailable, WorkerCrash

LEMMA MoneyInvStep == TypeInv /\ MoneyInv /\ [Next]_vars => MoneyInv' /\ OrdersGrown
<1> SUFFICES ASSUME TypeInv, MoneyInv, [Next]_vars
             PROVE  MoneyInv' /\ OrdersGrown
  OBVIOUS
<1>1. OrderStep
  BY OrderSteps DEF MoneyInv, JobMoney
<1>2. OrdersGrown
  BY <1>1, OrdersGrow DEF MoneyInv, OrdersGrown
<1>3. MoneyRecorded'
  BY <1>1, CapturedForGood, MoneyRecordedStep DEF MoneyInv
<1> QED
  BY <1>2, <1>3, OrderKnownStep, FlaggedStep, JobMoneyStep DEF MoneyInv

LEMMA MoneyInvInit == Init => MoneyInv
BY DEF Init, MoneyInv, OrderKnown, MoneyRecorded, FlaggedHoldsPayment, JobMoney, NoJob

THEOREM MoneyCorrect == Spec => []MoneyInv
<1> QED
  BY TypeCorrect, MoneyInvInit, MoneyInvStep, PTL DEF Spec

(* The payment on an order was captured on it, an order holds a payment    *)
(* exactly while it is no free cancellation, and only the full amount      *)
(* confirms it, whatever races and crashes happen.                         *)
THEOREM MoneyAlwaysRecorded == Spec => []MoneyRecorded
<1>1. MoneyInv => MoneyRecorded
  BY DEF MoneyInv
<1> QED
  BY <1>1, MoneyCorrect, PTL

(* Only a capture whose order already records a payment is left to a log.  *)
THEOREM FlaggedAlwaysHoldsPayment == Spec => []FlaggedHoldsPayment
<1>1. MoneyInv => FlaggedHoldsPayment
  BY DEF MoneyInv
<1> QED
  BY <1>1, MoneyCorrect, PTL

(* No later, duplicated or concurrent capture replaces a recorded payment. *)
THEOREM PaymentNeverReplaced == Spec => PaymentWriteOnce
<1>1. TypeInv /\ MoneyInv /\ [Next]_vars =>
        [\A o \in Orders : paymentId[o] # NoPayment => paymentId'[o] = paymentId[o]]_vars
  BY MoneyInvStep DEF OrdersGrown, Grown
<1> QED
  BY <1>1, TypeCorrect, MoneyCorrect, PTL DEF Spec, PaymentWriteOnce

-----------------------------------------------------------------------------
(* Stock.                                                                  *)

SafeStock(l) ==
  available[l] >= reserved[l] /\ available'[l] < reserved'[l] => reserved' = reserved

LEMMA SafeStockStep ==
  ASSUME TypeInv, [Next]_vars, NEW l \in Listings
  PROVE  SafeStock(l)
<1>a. available[l] \in Nat /\ reserved[l] \in Nat /\ \A w \in Workers : JobOK(w)
  BY DEF TypeInv, TypeOK
<1>q. \A o \in Orders : Qty[o][l] \in Nat
  BY OrdersAssumption
<1>1. ASSUME NEW o \in Orders, CheckoutReserve(o) PROVE SafeStock(l)
  <2>1. available[l] >= reserved[l] => available[l] - reserved[l] >= Qty[o][l]
    BY <1>1, <1>a, <1>q DEF CheckoutReserve, EnoughStock, Lines
  <2> QED
    BY <1>1, <1>a, <1>q, <2>1 DEF CheckoutReserve, SafeStock
<1>2. ASSUME NEW o \in Orders, PaymentOrderFailed(o) PROVE SafeStock(l)
  BY <1>2, <1>a, <1>q DEF PaymentOrderFailed, Compensate, SafeStock
<1>3. ASSUME NEW o \in Orders, UNCHANGED available,
             reserved'[l] = FloorAtZero(reserved[l] - Qty[o][l])
      PROVE  SafeStock(l)
  BY <1>3, <1>a, <1>q DEF FloorAtZero, SafeStock
<1>4. ASSUME NEW w \in Workers, Release(w) \/ Reject(w) PROVE SafeStock(l)
  <2>1. job[w].order \in Orders /\ UNCHANGED available
    BY <1>4, <1>a DEF Release, Reject, JobOK
  <2>2. UNCHANGED reserved \/ reserved'[l] = FloorAtZero(reserved[l] - Qty[job[w].order][l])
    BY <1>4 DEF Release, Reject, CancelPending
  <2> QED
    BY <1>3, <2>1, <2>2 DEF SafeStock
<1>5. ASSUME NEW w \in Workers, ConfirmOrder(w) PROVE SafeStock(l)
  <2>1. job[w].order \in Orders
    BY <1>5, <1>a DEF ConfirmOrder, JobOK
  <2>2. \/ UNCHANGED reserved
        \/ /\ available'[l] = FloorAtZero(available[l] - Qty[job[w].order][l])
           /\ reserved'[l] = FloorAtZero(reserved[l] - Qty[job[w].order][l])
    BY <1>5 DEF ConfirmOrder, stockVars
  <2> QED
    BY <1>a, <1>q, <2>1, <2>2 DEF FloorAtZero, SafeStock
<1>6. CASE UNCHANGED reserved
  BY <1>6 DEF SafeStock
<1> QED
  BY <1>1, <1>2, <1>4, <1>5, <1>6
     DEF Next, JobStepOf, vars, stockVars, CheckoutValidate, CheckoutRefused,
         PaymentOrderCreated, CheckoutCrash, Age, CloseRefunded, RefundProjection,
         CancelRequested, SweepPicked, SetStock, SetApproval, PaymentMove, WebhookCaptured,
         AskProvider, CheckVendors, Reread, MarkRefundRequired, Recheck,
         ProviderUnavailable, WorkerCrash

(* Only a vendor's own stock write can leave fewer units than are reserved.*)
THEOREM OnlyVendorsOversell == Spec => OnlyVendorOversells
<1>1. TypeInv /\ [Next]_vars =>
        [\A l \in Listings :
           available[l] >= reserved[l] /\ available'[l] < reserved'[l]
             => reserved' = reserved]_vars
  BY SafeStockStep DEF SafeStock
<1> QED
  BY <1>1, TypeCorrect, PTL DEF Spec, OnlyVendorOversells

-----------------------------------------------------------------------------
(* An order in Phase 2 of its checkout is unpaid, unknown to Razorpay, too *)
(* young for the sweep, and nobody else works on it.                       *)
Undisturbed ==
  \A o \in Orders :
    checkout[o] = "creating" =>
      /\ status[o] = "pending_payment"
      /\ ~linked[o]
      /\ ~aged[o]
      /\ \A w \in Workers : job[w].pc # "idle" => job[w].order # o

AgedKnown == \A o \in Orders : aged[o] => status[o] # "none"

HoldInv == Undisturbed /\ AgedKnown /\ ReservationExact

-----------------------------------------------------------------------------
(* Counting.                                                               *)

UnitsOf(o, l) == {o} \X (1..Qty[o][l])

LEMMA UnitsOfCount ==
  ASSUME NEW o \in Orders, NEW l \in Listings
  PROVE  IsFiniteSet(UnitsOf(o, l)) /\ Cardinality(UnitsOf(o, l)) = Qty[o][l]
<1>1. Qty[o][l] \in Nat
  BY OrdersAssumption
<1>2. IsFiniteSet({o}) /\ Cardinality({o}) = 1
  BY FS_Singleton
<1>3. IsFiniteSet(1..Qty[o][l]) /\ Cardinality(1..Qty[o][l]) = Qty[o][l]
  <2>1. /\ IsFiniteSet(1..Qty[o][l])
        /\ Cardinality(1..Qty[o][l]) = IF 1 > Qty[o][l] THEN 0 ELSE Qty[o][l] - 1 + 1
    BY <1>1, FS_Interval
  <2> QED
    BY <1>1, <2>1
<1>4. /\ IsFiniteSet({o} \X (1..Qty[o][l]))
      /\ Cardinality({o} \X (1..Qty[o][l])) = Cardinality({o}) * Cardinality(1..Qty[o][l])
  BY <1>2, <1>3, FS_Product
<1> QED
  BY <1>1, <1>2, <1>3, <1>4 DEF UnitsOf

LEMMA HeldUnitsFinite ==
  ASSUME NEW l \in Listings
  PROVE  IsFiniteSet(HeldUnits(l)) /\ Cardinality(HeldUnits(l)) \in Nat
<1>1. IsFiniteSet(1..MaxQty)
  BY OrdersAssumption, FS_Interval
<1>2. IsFiniteSet(Orders \X (1..MaxQty))
  BY <1>1, OrdersAssumption, FS_Product
<1>3. HeldUnits(l) \in SUBSET (Orders \X (1..MaxQty))
  BY DEF HeldUnits
<1>4. IsFiniteSet(HeldUnits(l))
  BY <1>2, <1>3, FS_Subset
<1> QED
  BY <1>4, FS_CardinalityType

(* The units of an unpaid order are among the held ones.                   *)
LEMMA UnitsHeld ==
  ASSUME NEW o \in Orders, NEW l \in Listings, status[o] = "pending_payment"
  PROVE  UnitsOf(o, l) \subseteq HeldUnits(l)
<1>1. Qty[o][l] \in Nat /\ Qty[o][l] <= MaxQty /\ MaxQty \in Nat
  BY OrdersAssumption
<1> QED
  BY <1>1 DEF UnitsOf, HeldUnits

(* An order that starts to hold adds its units ...                         *)
LEMMA UnitsTaken ==
  ASSUME TypeInv, NEW o \in Orders, NEW l \in Listings, status[o] # "pending_payment",
         status' = [status EXCEPT ![o] = "pending_payment"]
  PROVE  Cardinality(HeldUnits(l))' = Cardinality(HeldUnits(l)) + Qty[o][l]
<1>0. Qty[o][l] \in Nat /\ Qty[o][l] <= MaxQty /\ MaxQty \in Nat
  BY OrdersAssumption
<1>a. \A x \in Orders : status'[x] = "pending_payment" <=> status[x] = "pending_payment" \/ x = o
  BY DEF TypeInv, TypeOK
<1>1. HeldUnits(l)' = HeldUnits(l) \cup UnitsOf(o, l)
  BY <1>0, <1>a DEF HeldUnits, UnitsOf
<1>2. HeldUnits(l) \cap UnitsOf(o, l) = {}
  BY DEF HeldUnits, UnitsOf
<1>3. Cardinality(HeldUnits(l) \cup UnitsOf(o, l)) =
        Cardinality(HeldUnits(l)) + Cardinality(UnitsOf(o, l)) - Cardinality({})
  BY <1>2, UnitsOfCount, HeldUnitsFinite, FS_Union
<1> QED
  BY <1>0, <1>1, <1>3, UnitsOfCount, HeldUnitsFinite, FS_EmptySet

(* ... and one that stops takes away exactly those.                        *)
LEMMA UnitsGivenBack ==
  ASSUME TypeInv, NEW o \in Orders, NEW l \in Listings, NEW s, s # "pending_payment",
         status[o] = "pending_payment", status' = [status EXCEPT ![o] = s]
  PROVE  /\ Cardinality(HeldUnits(l))' = Cardinality(HeldUnits(l)) - Qty[o][l]
         /\ Qty[o][l] <= Cardinality(HeldUnits(l))
<1>0. Qty[o][l] \in Nat
  BY OrdersAssumption
<1>a. \A x \in Orders : status'[x] = "pending_payment" <=> status[x] = "pending_payment" /\ x # o
  BY DEF TypeInv, TypeOK
<1>1. HeldUnits(l)' = HeldUnits(l) \ UnitsOf(o, l)
  <2>1. \A u \in HeldUnits(l) : u[1] = o => u \in UnitsOf(o, l)
    BY <1>0 DEF HeldUnits, UnitsOf
  <2>2. \A u \in UnitsOf(o, l) : u[1] = o
    BY DEF UnitsOf
  <2> QED
    BY <1>a, <2>1, <2>2 DEF HeldUnits
<1>2. HeldUnits(l) \cap UnitsOf(o, l) = UnitsOf(o, l)
  BY UnitsHeld
<1>3. Cardinality(HeldUnits(l) \ UnitsOf(o, l)) =
        Cardinality(HeldUnits(l)) - Cardinality(UnitsOf(o, l))
  BY <1>2, HeldUnitsFinite, FS_Difference
<1>4. Cardinality(UnitsOf(o, l)) <= Cardinality(HeldUnits(l))
  BY UnitsHeld, HeldUnitsFinite, FS_Subset
<1> QED
  BY <1>1, <1>3, <1>4, UnitsOfCount

(* No unit is held by another change of an order's status.                 *)
LEMMA UnitsKept ==
  ASSUME NEW l \in Listings,
         \A o \in Orders : status'[o] = "pending_payment" <=> status[o] = "pending_payment"
  PROVE  Cardinality(HeldUnits(l))' = Cardinality(HeldUnits(l))
<1>1. HeldUnits(l)' = HeldUnits(l)
  BY DEF HeldUnits
<1> QED
  BY <1>1

-----------------------------------------------------------------------------
(* The accounting holds in every step that is one of the order moves.      *)

LEMMA HoldCovered ==
  ASSUME TypeInv, ReservationExact, NEW o \in Orders, status[o] = "pending_payment",
         NEW l \in Listings
  PROVE  /\ reserved[l] >= Qty[o][l]
         /\ FloorAtZero(reserved[l] - Qty[o][l]) = reserved[l] - Qty[o][l]
<1>1. Qty[o][l] \in Nat /\ reserved[l] \in Nat
  BY Quantities DEF TypeInv, TypeOK
<1>2. Cardinality(UnitsOf(o, l)) <= Cardinality(HeldUnits(l))
  BY UnitsHeld, HeldUnitsFinite, FS_Subset
<1>3. reserved[l] >= Qty[o][l]
  BY <1>2, UnitsOfCount DEF ReservationExact
<1> QED
  BY <1>1, <1>3 DEF FloorAtZero

LEMMA ReservationStep ==
  ASSUME TypeInv, OrderKnown, Undisturbed, ReservationExact, OrderStep
  PROVE  ReservationExact'
<1> SUFFICES ASSUME NEW l \in Listings
             PROVE  (reserved[l] = Cardinality(HeldUnits(l)))'
  BY DEF ReservationExact
<1>a. /\ status \in [Orders -> Lifecycle!Status]
      /\ reserved[l] = Cardinality(HeldUnits(l))
  BY DEF TypeInv, TypeOK, ReservationExact
<1>1. CASE UNCHANGED <<status, paymentId, reserved>>
  BY <1>1, <1>a, UnitsKept
<1>2. ASSUME NEW o \in Orders, Reserves(o) PROVE (reserved[l] = Cardinality(HeldUnits(l)))'
  <2>1. status[o] # "pending_payment"
    BY <1>2 DEF Reserves, OrderKnown
  <2> QED
    BY <1>2, <1>a, <2>1, UnitsTaken DEF Reserves
<1>3. ASSUME NEW o \in Orders, status[o] = "pending_payment", NEW s, s # "pending_payment",
             status' = [status EXCEPT ![o] = s], reserved'[l] = reserved[l] - Qty[o][l]
      PROVE  (reserved[l] = Cardinality(HeldUnits(l)))'
  BY <1>3, <1>a, UnitsGivenBack
<1>4. ASSUME NEW o \in Orders, Compensates(o) PROVE (reserved[l] = Cardinality(HeldUnits(l)))'
  <2>1. status[o] = "pending_payment"
    BY <1>4 DEF Compensates, Undisturbed
  <2>2. \A x \in Listings : reserved[x] >= Qty[o][x]
    BY <2>1, HoldCovered
  <2>3. /\ reserved'[l] = reserved[l] - Qty[o][l]
        /\ status' = [status EXCEPT ![o] = "cancelled"]
    BY <1>4, <2>1, <2>2 DEF Compensates, Compensate
  <2> QED
    BY <1>3, <2>1, <2>3
<1>5. ASSUME NEW o \in Orders, NEW target \in Lifecycle!Status,
             NEW p \in Payments \cup {NoPayment}, Settles(o, target, p)
      PROVE  (reserved[l] = Cardinality(HeldUnits(l)))'
  <2>1. reserved'[l] = FloorAtZero(reserved[l] - Qty[o][l])
    BY <1>5 DEF Settles, CancelPending
  <2>2. reserved'[l] = reserved[l] - Qty[o][l]
    BY <1>5, <2>1, HoldCovered DEF Settles
  <2>3. /\ status[o] = "pending_payment"
        /\ status' = [status EXCEPT ![o] = target]
        /\ target # "pending_payment"
    BY <1>5 DEF Settles, CancelPending
  <2> QED
    BY <1>3, <2>2, <2>3
<1>6. ASSUME NEW o \in Orders, NEW p \in Payments, Owes(o, p)
      PROVE  (reserved[l] = Cardinality(HeldUnits(l)))'
  BY <1>6, <1>a, UnitsKept DEF Owes
<1>7. ASSUME NEW o \in Orders, NEW s \in Lifecycle!Status, Refunds(o, s)
      PROVE  (reserved[l] = Cardinality(HeldUnits(l)))'
  BY <1>7, <1>a, UnitsKept DEF Refunds, Lifecycle!RefundMoves
<1> QED
  BY <1>1, <1>2, <1>4, <1>5, <1>6, <1>7 DEF OrderStep, OrderMove

-----------------------------------------------------------------------------
(* Half of the accounting needs no assumption about who cancels when.      *)
NoneKept == \A l \in Listings : reserved[l] <= Cardinality(HeldUnits(l))

LEMMA NoneKeptStep ==
  ASSUME TypeInv, OrderKnown, NoneKept, OrderStep
  PROVE  NoneKept'
<1> SUFFICES ASSUME NEW l \in Listings
             PROVE  (reserved[l] <= Cardinality(HeldUnits(l)))'
  BY DEF NoneKept
<1>a. /\ status \in [Orders -> Lifecycle!Status]
      /\ reserved[l] \in Nat
      /\ reserved[l] <= Cardinality(HeldUnits(l))
      /\ \A o \in Orders : Qty[o][l] \in Nat
  BY Quantities DEF TypeInv, TypeOK, NoneKept
<1>b. Cardinality(HeldUnits(l)) \in Nat
  BY HeldUnitsFinite
<1>1. CASE UNCHANGED <<status, paymentId, reserved>>
  BY <1>1, <1>a, UnitsKept
<1>2. ASSUME NEW o \in Orders, Reserves(o)
      PROVE  (reserved[l] <= Cardinality(HeldUnits(l)))'
  <2>1. status[o] # "pending_payment"
    BY <1>2 DEF Reserves, OrderKnown
  <2>2. Cardinality(HeldUnits(l))' = Cardinality(HeldUnits(l)) + Qty[o][l]
    BY <1>2, <2>1, UnitsTaken DEF Reserves
  <2> QED
    BY <1>2, <1>a, <1>b, <2>2 DEF Reserves
<1>3. ASSUME NEW o \in Orders, status[o] = "pending_payment", NEW s, s # "pending_payment",
             status' = [status EXCEPT ![o] = s],
             reserved'[l] = FloorAtZero(reserved[l] - Qty[o][l])
      PROVE  (reserved[l] <= Cardinality(HeldUnits(l)))'
  <2>1. /\ Cardinality(HeldUnits(l))' = Cardinality(HeldUnits(l)) - Qty[o][l]
        /\ Qty[o][l] <= Cardinality(HeldUnits(l))
    BY <1>3, UnitsGivenBack
  <2> QED
    BY <1>3, <1>a, <1>b, <2>1 DEF FloorAtZero
<1>4. ASSUME NEW o \in Orders, Compensates(o)
      PROVE  (reserved[l] <= Cardinality(HeldUnits(l)))'
  <2>1. CASE UNCHANGED <<reserved, status>>
    BY <2>1, <1>a, UnitsKept
  <2>2. CASE /\ reserved'[l] = reserved[l] - Qty[o][l]
             /\ reserved[l] >= Qty[o][l]
             /\ status' = [status EXCEPT ![o] = IF @ = "pending_payment" THEN "cancelled" ELSE @]
    <3>1. CASE status[o] = "pending_payment"
      <4>1. status' = [status EXCEPT ![o] = "cancelled"]
        BY <2>2, <3>1
      <4>2. reserved'[l] = FloorAtZero(reserved[l] - Qty[o][l])
        BY <2>2, <1>a DEF FloorAtZero
      <4> QED
        BY <1>3, <3>1, <4>1, <4>2
    <3>2. CASE status[o] # "pending_payment"
      <4>1. status' = status
        BY <2>2, <3>2, <1>a
      <4>2. Cardinality(HeldUnits(l))' = Cardinality(HeldUnits(l))
        BY <4>1, UnitsKept
      <4> QED
        BY <2>2, <1>a, <1>b, <4>2
    <3> QED
      BY <3>1, <3>2
  <2> QED
    BY <1>4, <2>1, <2>2 DEF Compensates, Compensate
<1>5. ASSUME NEW o \in Orders, NEW target \in Lifecycle!Status,
             NEW p \in Payments \cup {NoPayment}, Settles(o, target, p)
      PROVE  (reserved[l] <= Cardinality(HeldUnits(l)))'
  <2>1. /\ reserved'[l] = FloorAtZero(reserved[l] - Qty[o][l])
        /\ status[o] = "pending_payment"
        /\ status' = [status EXCEPT ![o] = target]
        /\ target # "pending_payment"
    BY <1>5 DEF Settles, CancelPending
  <2> QED
    BY <1>3, <2>1
<1>6. ASSUME NEW o \in Orders, NEW p \in Payments, Owes(o, p)
      PROVE  (reserved[l] <= Cardinality(HeldUnits(l)))'
  BY <1>6, <1>a, UnitsKept DEF Owes
<1>7. ASSUME NEW o \in Orders, NEW s \in Lifecycle!Status, Refunds(o, s)
      PROVE  (reserved[l] <= Cardinality(HeldUnits(l)))'
  BY <1>7, <1>a, UnitsKept DEF Refunds, Lifecycle!RefundMoves
<1> QED
  BY <1>1, <1>2, <1>4, <1>5, <1>6, <1>7 DEF OrderStep, OrderMove

(* Even when a cancel reaches an order whose checkout waits for Razorpay   *)
(* and its hold is released twice, no stock is ever kept for an order that *)
(* is paid or dead: what goes wrong there is only that too little is       *)
(* reserved, never too much.                                               *)
THEOREM NoStockKeptForTheDead == Spec => []NoneKept
<1>1. Init => NoneKept
  <2> SUFFICES ASSUME Init, NEW l \in Listings PROVE reserved[l] <= Cardinality(HeldUnits(l))
    BY DEF NoneKept
  <2>1. reserved[l] = 0
    BY DEF Init
  <2> QED
    BY <2>1, HeldUnitsFinite
<1>2. TypeInv /\ MoneyInv /\ NoneKept /\ [Next]_vars => NoneKept'
  <2> SUFFICES ASSUME TypeInv, MoneyInv, NoneKept, [Next]_vars PROVE NoneKept'
    OBVIOUS
  <2>1. OrderStep
    BY OrderSteps DEF MoneyInv, JobMoney
  <2> QED
    BY <2>1, NoneKeptStep DEF MoneyInv
<1> QED
  BY <1>1, <1>2, TypeCorrect, MoneyCorrect, PTL DEF Spec

-----------------------------------------------------------------------------
(* One way through an order's statuses, whatever races what.               *)
OneWay(o) ==
  /\ status[o] \notin {"none", "pending_payment"}
       => status'[o] \notin {"none", "pending_payment"}
  /\ status[o] # "confirmed" /\ status'[o] = "confirmed" => status[o] = "pending_payment"
  /\ status[o] # "cancelled" /\ status'[o] = "cancelled" /\ paymentId'[o] # NoPayment
       => status[o] = "refunded"

LEMMA OneWayStep ==
  ASSUME TypeInv, MoneyInv, OrderStep, NEW o \in Orders
  PROVE  OneWay(o)
<1>a. /\ status \in [Orders -> Lifecycle!Status]
      /\ paymentId \in [Orders -> Payments \cup {NoPayment}]
  BY DEF TypeInv, TypeOK
<1>b. OrderKnown /\ MoneyRecorded
  BY DEF MoneyInv
<1>1. CASE UNCHANGED <<status, paymentId, reserved>>
  BY <1>1 DEF OneWay
<1>2. ASSUME NEW x \in Orders, Reserves(x) PROVE OneWay(o)
  <2>1. status[x] = "none"
    BY <1>2, <1>b DEF OrderKnown, Reserves
  <2> QED
    BY <1>2, <1>a, <2>1 DEF Reserves, OneWay
<1>3. ASSUME NEW x \in Orders, Compensates(x) PROVE OneWay(o)
  BY <1>3, <1>a, <1>b DEF Compensates, Compensate, MoneyRecorded, OneWay
<1>4. ASSUME NEW x \in Orders, NEW target \in Lifecycle!Status,
             NEW p \in Payments \cup {NoPayment}, Settles(x, target, p)
      PROVE  OneWay(o)
  BY <1>4, <1>a, <1>b DEF Settles, CancelPending, MoneyRecorded, OneWay
<1>5. ASSUME NEW x \in Orders, NEW p \in Payments, Owes(x, p) PROVE OneWay(o)
  BY <1>5, <1>a DEF Owes, OneWay
<1>6. ASSUME NEW x \in Orders, NEW s \in Lifecycle!Status, Refunds(x, s) PROVE OneWay(o)
  BY <1>6, <1>a DEF Refunds, Lifecycle!RefundMoves, OneWay
<1> QED
  BY <1>1, <1>2, <1>3, <1>4, <1>5, <1>6 DEF OrderStep, OrderMove

(* No late capture, repeated delivery, cancel or sweep ever reopens an     *)
(* order or confirms one that is dead, and an order that took money is     *)
(* closed only once it was refunded (decision 0054), with no assumption    *)
(* about when a cancel arrives.                                            *)
THEOREM OrdersGoOneWay == Spec => [][\A o \in Orders : OneWay(o)]_vars
<1>1. TypeInv /\ MoneyInv /\ [Next]_vars => [\A o \in Orders : OneWay(o)]_vars
  <2> SUFFICES ASSUME TypeInv, MoneyInv, [Next]_vars PROVE \A o \in Orders : OneWay(o)
    OBVIOUS
  <2>1. OrderStep
    BY OrderSteps DEF MoneyInv, JobMoney
  <2> QED
    BY <2>1, OneWayStep
<1> QED
  BY <1>1, TypeCorrect, MoneyCorrect, PTL DEF Spec

-----------------------------------------------------------------------------
(* Nobody disturbs an order in Phase 2.                                    *)

(* A job keeps its order and changes no other.                             *)
LEMMA JobsStay ==
  ASSUME TypeInv, NEW w \in Workers,
         JobStepOf(w) \/ ProviderUnavailable(w) \/ WorkerCrash(w)
  PROVE  /\ job[w].pc # "idle"
         /\ \A x \in Workers :
              job'[x].pc # "idle" => job[x].pc # "idle" /\ job'[x].order = job[x].order
         /\ \A o \in Orders : o # job[w].order => status'[o] = status[o]
         /\ UNCHANGED <<checkout, linked, aged>>
<1>a. /\ job \in [Workers -> Job]
      /\ status \in [Orders -> Lifecycle!Status]
  BY DEF TypeInv, TypeOK
<1>1. \A o \in Orders : o # job[w].order => status'[o] = status[o]
  BY <1>a DEF JobStepOf, AskProvider, Release, CheckVendors, Reject, ConfirmOrder, Reread,
     MarkRefundRequired, Recheck, ProviderUnavailable, WorkerCrash, CancelPending, orderVars
<1>2. job[w].pc # "idle" /\ UNCHANGED <<checkout, linked, aged>>
  BY DEF JobStepOf, AskProvider, Release, CheckVendors, Reject, ConfirmOrder, Reread,
     MarkRefundRequired, Recheck, ProviderUnavailable, WorkerCrash, orderVars
<1>3. \/ Finish(w)
      \/ \E pc \in JobStep : Goto(w, pc)
      \/ \E pc \in ApplySteps, p \in Payments : Pursue(w, pc, p)
  BY DEF JobStepOf, AskProvider, Release, CheckVendors, Reject, ConfirmOrder, Reread,
     MarkRefundRequired, Recheck, ProviderUnavailable, WorkerCrash, JobStep, ApplySteps,
     ApplyCapture, PaymentsOn
<1>4. \A x \in Workers :
        job'[x].pc # "idle" => job[x].pc # "idle" /\ job'[x].order = job[x].order
  <2>1. CASE Finish(w)
    BY <1>a, <2>1 DEF Finish, NoJob
  <2>2. ASSUME NEW pc \in JobStep, Goto(w, pc)
        PROVE  \A x \in Workers :
                 job'[x].pc # "idle" => job[x].pc # "idle" /\ job'[x].order = job[x].order
    BY <1>a, <1>2, <2>2 DEF Goto, Job
  <2>3. ASSUME NEW pc \in ApplySteps, NEW p \in Payments, Pursue(w, pc, p)
        PROVE  \A x \in Workers :
                 job'[x].pc # "idle" => job[x].pc # "idle" /\ job'[x].order = job[x].order
    BY <1>a, <1>2, <2>3 DEF Pursue, Job
  <2> QED
    BY <1>3, <2>1, <2>2, <2>3
<1> QED
  BY <1>1, <1>2, <1>4

LEMMA AgedKnownStep ==
  ASSUME TypeInv, AgedKnown, OrdersGrown, [Next]_vars
  PROVE  AgedKnown'
<1>1. ASSUME NEW o \in Orders, Age(o) PROVE AgedKnown'
  BY <1>1 DEF Age, AgedKnown, TypeInv, TypeOK
<1>2. CASE UNCHANGED aged
  BY <1>2 DEF AgedKnown, OrdersGrown, Grown
<1> QED
  BY <1>1, <1>2
     DEF Next, JobStepOf, vars, orderVars, CheckoutValidate, CheckoutRefused, CheckoutReserve,
         PaymentOrderCreated, PaymentOrderFailed, CheckoutCrash, CloseRefunded,
         RefundProjection, CancelRequested, SweepPicked, SetStock, SetApproval, PaymentMove,
         WebhookCaptured, AskProvider, Release, CheckVendors, Reject, ConfirmOrder, Reread,
         MarkRefundRequired, Recheck, ProviderUnavailable, WorkerCrash

(* Undisturbed for one order.                                              *)
Alone(o) ==
  checkout[o] = "creating" =>
    /\ status[o] = "pending_payment"
    /\ ~linked[o]
    /\ ~aged[o]
    /\ \A w \in Workers : job[w].pc # "idle" => job[w].order # o

LEMMA UndisturbedStep ==
  ASSUME ~CancelWhileCreating, TypeInv, MoneyInv, Undisturbed, AgedKnown, [Next]_vars
  PROVE  Undisturbed'
<1> SUFFICES ASSUME NEW o \in Orders
             PROVE  Alone(o)'
  BY DEF Undisturbed, Alone
<1>a. /\ checkout \in [Orders -> CheckoutStep]
      /\ status \in [Orders -> Lifecycle!Status]
      /\ linked \in [Orders -> BOOLEAN]
      /\ aged \in [Orders -> BOOLEAN]
      /\ job \in [Workers -> Job]
      /\ Alone(o)
  BY DEF TypeInv, TypeOK, Undisturbed, Alone
<1>1. ASSUME NEW x \in Orders, CheckoutReserve(x) PROVE Alone(o)'
  <2>1. status[x] = "none"
    BY <1>1 DEF CheckoutReserve, MoneyInv, OrderKnown
  <2>2. ~linked[x] /\ ~aged[x]
    BY <2>1 DEF MoneyInv, OrderKnown, AgedKnown
  <2>3. \A w \in Workers : job[w].pc # "idle" => job[w].order # x
    BY <2>1 DEF MoneyInv, JobMoney
  <2>4. UNCHANGED <<linked, aged, job>>
    BY <1>1 DEF CheckoutReserve
  <2> QED
    BY <1>1, <1>a, <2>2, <2>3, <2>4 DEF CheckoutReserve, Alone
<1>2. ASSUME NEW x \in Orders,
             \/ CheckoutValidate(x) \/ CheckoutRefused(x) \/ CheckoutCrash(x)
             \/ PaymentOrderCreated(x) \/ PaymentOrderFailed(x)
      PROVE  Alone(o)'
  <2>1. UNCHANGED <<aged, job>> /\ checkout'[x] # "creating"
    BY <1>2, <1>a DEF CheckoutValidate, CheckoutRefused, CheckoutCrash, PaymentOrderCreated,
                      PaymentOrderFailed, orderVars
  <2>2. o # x => checkout'[o] = checkout[o] /\ status'[o] = status[o] /\ linked'[o] = linked[o]
    BY <1>2, <1>a DEF CheckoutValidate, CheckoutRefused, CheckoutCrash, PaymentOrderCreated,
                      PaymentOrderFailed, Compensate, orderVars
  <2> QED
    BY <1>a, <2>1, <2>2 DEF Alone
<1>3. ASSUME NEW x \in Orders, Age(x) PROVE Alone(o)'
  BY <1>3, <1>a DEF Age, Alone
<1>4. ASSUME NEW x \in Orders,
             \/ CloseRefunded(x)
             \/ \E s \in Lifecycle!Status : RefundProjection(x, s)
      PROVE  Alone(o)'
  BY <1>4, <1>a DEF CloseRefunded, RefundProjection, Lifecycle!RefundMoves, Alone
<1>5. ASSUME NEW x \in Orders, x # o, NEW w \in Workers, NEW pc \in JobStep,
             NEW p \in Payments \cup {NoPayment}, Run(w, pc, x, p),
             UNCHANGED <<checkout, status, linked, aged>>
      PROVE  Alone(o)'
  BY <1>5, <1>a DEF Run, Alone
<1>6. ASSUME NEW x \in Orders, NEW w \in Workers, CancelRequested(w, x) \/ SweepPicked(w, x)
      PROVE  Alone(o)'
  <2>1. Run(w, "ask", x, NoPayment) /\ UNCHANGED <<checkout, status, linked, aged>>
    BY <1>6 DEF CancelRequested, SweepPicked, orderVars
  <2>2. checkout[x] # "creating" \/ aged[x]
    BY <1>6 DEF CancelRequested, SweepPicked
  <2>3. CASE x = o
    BY <1>a, <2>1, <2>2, <2>3 DEF Alone
  <2>4. CASE x # o
    BY <1>5, <2>1, <2>4 DEF JobStep
  <2> QED
    BY <2>3, <2>4
<1>7. ASSUME NEW p \in Payments, NEW w \in Workers, WebhookCaptured(w, p) PROVE Alone(o)'
  <2> DEFINE pc == ApplyCapture(p, status[OrderOf[p]] = "pending_payment")
  <2>1. /\ Run(w, pc, OrderOf[p], p) /\ UNCHANGED <<checkout, status, linked, aged>>
        /\ linked[OrderOf[p]] /\ OrderOf[p] \in Orders
    BY <1>7, PaymentsAssumption DEF WebhookCaptured, orderVars
  <2>2. pc \in JobStep
    BY ApplyCaptureType
  <2>3. CASE OrderOf[p] = o
    BY <1>a, <2>1, <2>3 DEF Alone
  <2>4. CASE OrderOf[p] # o
    BY <1>5, <2>1, <2>2, <2>4
  <2> QED
    BY <2>3, <2>4
<1>8. ASSUME NEW w \in Workers, JobStepOf(w) \/ ProviderUnavailable(w) \/ WorkerCrash(w)
      PROVE  Alone(o)'
  <2>1. /\ job[w].pc # "idle"
        /\ \A x \in Workers :
             job'[x].pc # "idle" => job[x].pc # "idle" /\ job'[x].order = job[x].order
        /\ \A x \in Orders : x # job[w].order => status'[x] = status[x]
        /\ UNCHANGED <<checkout, linked, aged>>
    BY <1>8, JobsStay
  <2> QED
    BY <1>a, <2>1 DEF Alone
<1>9. CASE UNCHANGED <<checkout, status, linked, aged, job>>
  BY <1>9, <1>a DEF Alone
<1> QED
  BY <1>1, <1>2, <1>3, <1>4, <1>6, <1>7, <1>8, <1>9
     DEF Next, vars, orderVars, SetStock, SetApproval, PaymentMove

-----------------------------------------------------------------------------
Inv == TypeInv /\ MoneyInv /\ HoldInv

LEMMA InvStep ==
  ASSUME ~CancelWhileCreating, Inv, [Next]_vars
  PROVE  Inv' /\ OrderStep
<1>1. OrderStep
  BY OrderSteps DEF Inv, MoneyInv, JobMoney
<1>2. TypeInv' /\ MoneyInv' /\ OrdersGrown
  BY TypeInvStep, MoneyInvStep DEF Inv
<1>3. ReservationExact'
  BY <1>1, ReservationStep DEF Inv, MoneyInv, HoldInv
<1> QED
  BY <1>1, <1>2, <1>3, UndisturbedStep, AgedKnownStep DEF Inv, HoldInv

LEMMA InvInit == Init => HoldInv
<1> SUFFICES ASSUME Init PROVE HoldInv
  OBVIOUS
<1>1. Undisturbed /\ AgedKnown
  BY DEF Init, Undisturbed, AgedKnown
<1>2. ASSUME NEW l \in Listings PROVE reserved[l] = Cardinality(HeldUnits(l))
  <2>1. HeldUnits(l) = {}
    BY DEF Init, HeldUnits
  <2> QED
    BY <2>1, FS_EmptySet DEF Init
<1> QED
  BY <1>1, <1>2 DEF HoldInv, ReservationExact

THEOREM InvCorrect ==
  ASSUME ~CancelWhileCreating
  PROVE  Spec => []Inv
<1>1. Init /\ TypeInv /\ MoneyInv => Inv
  BY InvInit DEF Inv
<1>2. Inv /\ [Next]_vars => Inv'
  BY InvStep
<1> QED
  BY <1>1, <1>2, TypeCorrect, MoneyCorrect, PTL DEF Spec

(* quantity_reserved is at all times the number of units unpaid orders     *)
(* hold, for any number of orders, workers, captures and crashes.          *)
THEOREM ReservationAlwaysExact ==
  ASSUME ~CancelWhileCreating
  PROVE  Spec => []ReservationExact
<1>1. Inv => ReservationExact
  BY DEF Inv, HoldInv
<1> QED
  BY <1>1, InvCorrect, PTL

-----------------------------------------------------------------------------
(* OrderPayment implements OrderLifecycle.                                 *)

LEMMA LifecycleStep ==
  ASSUME ~CancelWhileCreating, Inv, [Next]_vars
  PROVE  [Lifecycle!LifecycleNext]_(Lifecycle!lifecycleVars)
<1>a. TypeInv /\ OrderKnown /\ Undisturbed /\ ReservationExact
  BY DEF Inv, MoneyInv, HoldInv
<1>b. reserved \in [Listings -> Nat] /\ paymentId \in [Orders -> Payments \cup {NoPayment}]
  BY <1>a DEF TypeInv, TypeOK
<1>1. CASE UNCHANGED <<status, paymentId, reserved>>
  BY <1>1 DEF Lifecycle!lifecycleVars
<1>2. ASSUME NEW o \in Orders, Reserves(o) PROVE Lifecycle!LifecycleNext
  <2>1. Lifecycle!Place(o)
    BY <1>2, <1>a DEF Reserves, OrderKnown, Lifecycle!Place, Lifecycle!SetStatus, Lifecycle!Hold
  <2> QED
    BY <2>1 DEF Lifecycle!LifecycleNext
<1>3. ASSUME NEW o \in Orders, Compensates(o) PROVE Lifecycle!LifecycleNext
  <2>1. status[o] = "pending_payment"
    BY <1>3, <1>a DEF Compensates, Undisturbed
  <2>2. \A l \in Listings : reserved[l] >= Qty[o][l]
    BY <1>a, <2>1, HoldCovered
  <2>3. Lifecycle!Cancel(o)
    BY <1>3, <2>1, <2>2
       DEF Compensates, Compensate, Lifecycle!Cancel, Lifecycle!SetStatus, Lifecycle!Unhold
  <2> QED
    BY <2>3 DEF Lifecycle!LifecycleNext
<1>4. ASSUME NEW o \in Orders, NEW target \in Lifecycle!Status,
             NEW p \in Payments \cup {NoPayment}, Settles(o, target, p)
      PROVE  Lifecycle!LifecycleNext
  <2>1. status[o] = "pending_payment" /\ CancelPending(o, target, p)
    BY <1>4 DEF Settles
  <2>2. \A l \in Listings : FloorAtZero(reserved[l] - Qty[o][l]) = reserved[l] - Qty[o][l]
    BY <1>a, <2>1, HoldCovered
  <2>3. Lifecycle!Unhold(o) /\ Lifecycle!SetStatus(o, target)
    BY <2>1, <2>2 DEF CancelPending, Lifecycle!Unhold, Lifecycle!SetStatus
  <2>4. CASE target = "cancelled" /\ p = NoPayment
    <3>1. UNCHANGED paymentId
      BY <1>b, <2>1, <2>4 DEF CancelPending
    <3> QED
      BY <2>1, <2>3, <2>4, <3>1 DEF Lifecycle!Cancel, Lifecycle!LifecycleNext
  <2>5. CASE CapturedOn(p, o) /\ target \in {"refund_required", "confirmed"}
    <3>1. p \in Payments /\ p # NoPayment
      BY <2>5, PaymentsAssumption DEF CapturedOn
    <3>2. Lifecycle!SetPayment(o, p)
      BY <2>1, <3>1 DEF CancelPending, Lifecycle!SetPayment
    <3> QED
      BY <2>1, <2>3, <2>5, <3>1, <3>2
         DEF Lifecycle!Confirm, Lifecycle!OwePending, Lifecycle!LifecycleNext
  <2> QED
    BY <1>4, <2>4, <2>5 DEF Settles
<1>5. ASSUME NEW o \in Orders, NEW p \in Payments, Owes(o, p) PROVE Lifecycle!LifecycleNext
  <2>1. Lifecycle!OweCancelled(o, p)
    BY <1>5 DEF Owes, Lifecycle!OweCancelled, Lifecycle!SetStatus, Lifecycle!SetPayment
  <2> QED
    BY <2>1 DEF Lifecycle!LifecycleNext
<1>6. ASSUME NEW o \in Orders, NEW s \in Lifecycle!Status, Refunds(o, s)
      PROVE  Lifecycle!LifecycleNext
  <2>1. Lifecycle!RefundMove(o, s) \/ Lifecycle!Close(o)
    BY <1>6 DEF Refunds, Lifecycle!RefundMove, Lifecycle!Close, Lifecycle!SetStatus
  <2> QED
    BY <2>1 DEF Lifecycle!LifecycleNext
<1> QED
  BY <1>1, <1>2, <1>3, <1>4, <1>5, <1>6, InvStep DEF OrderStep, OrderMove

(* Every behaviour of checkouts, webhooks, cancels, sweeps and crashes is  *)
(* one of the order lifecycle.                                             *)
THEOREM LifecycleImplemented ==
  ASSUME ~CancelWhileCreating
  PROVE  Spec => ImplementsLifecycle
<1>1. Init => Lifecycle!LifecycleInit
  BY DEF Init, Lifecycle!LifecycleInit
<1>2. Inv /\ [Next]_vars => [Lifecycle!LifecycleNext]_(Lifecycle!lifecycleVars)
  BY LifecycleStep
<1> QED
  BY <1>1, <1>2, InvCorrect, PTL
     DEF Spec, ImplementsLifecycle, Lifecycle!LifecycleSpec
-----------------------------------------------------------------------------
(* The same lifecycle with the held units left out, as a cancel that comes *)
(* while the checkout waits for Razorpay can spoil nothing else.           *)
Ledger == INSTANCE OrderLifecycle
            WITH Listings <- {}, Qty <- <<>>, held <- [l \in {} |-> 0]

LEMMA LedgerStep ==
  ASSUME TypeInv, MoneyInv, OrderStep
  PROVE  [Ledger!LifecycleNext]_(Ledger!lifecycleVars)
<1>a. /\ OrderKnown
      /\ status \in [Orders -> Lifecycle!Status]
      /\ paymentId \in [Orders -> Payments \cup {NoPayment}]
  BY DEF TypeInv, TypeOK, MoneyInv
<1>s. Ledger!Status = Lifecycle!Status /\ Ledger!RefundMoves = Lifecycle!RefundMoves
  BY DEF Ledger!Status, Lifecycle!Status, Ledger!RefundMoves, Lifecycle!RefundMoves
<1>h. \A o \in Orders : Ledger!Hold(o) /\ Ledger!Unhold(o)
  BY DEF Ledger!Hold, Ledger!Unhold
<1>1. CASE UNCHANGED <<status, paymentId>>
  BY <1>1 DEF Ledger!lifecycleVars
<1>2. ASSUME NEW o \in Orders, Reserves(o) PROVE Ledger!LifecycleNext
  <2>1. Ledger!Place(o)
    BY <1>2, <1>a, <1>h DEF Reserves, OrderKnown, Ledger!Place, Ledger!SetStatus
  <2> QED
    BY <2>1 DEF Ledger!LifecycleNext
<1>3. ASSUME NEW o \in Orders, Compensates(o), ~UNCHANGED <<status, paymentId>>
      PROVE  Ledger!LifecycleNext
  <2>1. status' = [status EXCEPT ![o] = IF @ = "pending_payment" THEN "cancelled" ELSE @]
    BY <1>3 DEF Compensates, Compensate
  <2>2. status[o] = "pending_payment" /\ UNCHANGED paymentId
    BY <1>3, <1>a, <2>1 DEF Compensates
  <2>3. Ledger!Cancel(o)
    BY <1>h, <2>1, <2>2 DEF Ledger!Cancel, Ledger!SetStatus
  <2> QED
    BY <2>3 DEF Ledger!LifecycleNext
<1>4. ASSUME NEW o \in Orders, NEW target \in Lifecycle!Status,
             NEW p \in Payments \cup {NoPayment}, Settles(o, target, p)
      PROVE  Ledger!LifecycleNext
  <2>1. status[o] = "pending_payment" /\ Ledger!SetStatus(o, target)
    BY <1>4 DEF Settles, CancelPending, Ledger!SetStatus
  <2>2. CASE target = "cancelled" /\ p = NoPayment
    <3>1. UNCHANGED paymentId
      BY <1>4, <1>a, <2>2 DEF Settles, CancelPending
    <3> QED
      BY <1>h, <2>1, <2>2, <3>1 DEF Ledger!Cancel, Ledger!LifecycleNext
  <2>3. CASE CapturedOn(p, o) /\ target \in {"refund_required", "confirmed"}
    <3>1. p \in Payments /\ p # NoPayment
      BY <2>3, PaymentsAssumption DEF CapturedOn
    <3>2. Ledger!SetPayment(o, p)
      BY <1>4, <3>1 DEF Settles, CancelPending, Ledger!SetPayment
    <3> QED
      BY <1>h, <2>1, <2>3, <3>1, <3>2
         DEF Ledger!Confirm, Ledger!OwePending, Ledger!LifecycleNext
  <2> QED
    BY <1>4, <2>2, <2>3 DEF Settles
<1>5. ASSUME NEW o \in Orders, NEW p \in Payments, Owes(o, p) PROVE Ledger!LifecycleNext
  <2>1. Ledger!OweCancelled(o, p)
    BY <1>5 DEF Owes, Ledger!OweCancelled, Ledger!SetStatus, Ledger!SetPayment
  <2> QED
    BY <2>1 DEF Ledger!LifecycleNext
<1>6. ASSUME NEW o \in Orders, NEW s \in Lifecycle!Status, Refunds(o, s)
      PROVE  Ledger!LifecycleNext
  <2>1. Ledger!RefundMove(o, s) \/ Ledger!Close(o)
    BY <1>6, <1>s DEF Refunds, Ledger!RefundMove, Ledger!Close, Ledger!SetStatus
  <2> QED
    BY <1>s, <2>1 DEF Ledger!LifecycleNext
<1> QED
  BY <1>1, <1>2, <1>3, <1>4, <1>5, <1>6 DEF OrderStep, OrderMove

(* Whenever a cancel arrives, what happens to an order and its payment is  *)
(* a behaviour of the order lifecycle: a cancel that overtakes a checkout  *)
(* can spoil the count of held units and nothing else.                     *)
THEOREM OrdersKeepTheLifecycle == Spec => Ledger!LifecycleSpec
<1>1. Init => Ledger!LifecycleInit
  BY DEF Init, Ledger!LifecycleInit
<1>2. TypeInv /\ MoneyInv /\ [Next]_vars => [Ledger!LifecycleNext]_(Ledger!lifecycleVars)
  <2> SUFFICES ASSUME TypeInv, MoneyInv, [Next]_vars
               PROVE  [Ledger!LifecycleNext]_(Ledger!lifecycleVars)
    OBVIOUS
  <2>1. OrderStep
    BY OrderSteps DEF MoneyInv, JobMoney
  <2> QED
    BY <2>1, LedgerStep
<1> QED
  BY <1>1, <1>2, TypeCorrect, MoneyCorrect, PTL DEF Spec, Ledger!LifecycleSpec
=============================================================================
