------------------------------ MODULE Refunds ------------------------------
(***************************************************************************)
(* The refunds of one paid order (refunds.service.ts, refund-status.ts):   *)
(* an admin's refund is a row first, then a Razorpay call with no          *)
(* transaction open, then a status that follows what Razorpay reports.  A  *)
(* job is one refund handled by an admin's request or by a pass of the     *)
(* five-minute sync; passes overlap (nothing makes the cron wait for the   *)
(* last one), a pass acts on the rows it read at its start, and a crash    *)
(* ends a job anywhere.                                                    *)
(*                                                                         *)
(* Each refund has its own idempotency key and receipt, sent with every    *)
(* attempt, so Razorpay holds at most one refund per row and the refund a  *)
(* receipt lookup finds is that one.  Amounts are in units of which the    *)
(* capture has Captured.  Notifications change nothing and are left out.   *)
(***************************************************************************)
EXTENDS Integers, FiniteSets

CONSTANTS
  Refunds,         \* rows of the refunds table the order may get
  Groups,          \* vendor groups of the order
  NoGroup, NoRefund,
  Captured,        \* orders.captured_paise
  Share,           \* Share[g]: what group g was paid, subtotal and loading fee
  Workers,         \* concurrent admin requests and sync passes
  MaxTries,        \* attempts of the sync, REFUND_SUBMIT_RETRY_DELAYS_MS.length
  MaxCrashes,      \* bound on crashes
  RejectionFinal   \* does Razorpay, once it has turned a key down, never
                   \* create a refund for that key?

ASSUME RefundsAssumption ==
  /\ IsFiniteSet(Refunds)
  /\ NoRefund \notin Refunds
  /\ NoGroup \notin Groups
  /\ Captured \in Nat \ {0}
  /\ Share \in [Groups -> Nat]
  /\ MaxTries \in Nat \ {0}
  /\ MaxCrashes \in Nat
  /\ RejectionFinal \in BOOLEAN

VARIABLES
  status,      \* orders.status
  row,         \* the refunds table
  stale,       \* rows whose updated_at is more than five minutes old
  provider,    \* the refund Razorpay holds for each row's key
  travelling,  \* rows with a timed-out request that may still reach Razorpay
  job,         \* what each worker is doing
  crashes

vars == <<status, row, stale, provider, travelling, job, crashes>>

OrderStatus == {"confirmed", "refund_required", "refund_pending", "refunded", "cancelled"}

Refundable == {"confirmed", "refund_required", "refund_pending", "refunded"}

RefundStatus == {"none", "requested", "submitted", "processed", "failed"}

Open == {"requested", "submitted"}

Settled == {"processed", "failed"}

Row == [status : RefundStatus, amount : 0..Captured, group : Groups \cup {NoGroup}]

NoRow == [status |-> "none", amount |-> 0, group |-> NoGroup]

(* "refused": Razorpay has turned this key down for good.                  *)
ProviderStatus == {"none", "pending", "processed", "failed", "refused"}

Held == {"pending", "processed", "failed"}

JobStep == {"idle", "lookup", "send", "verify", "adopt", "fetch", "write"}

Job == [pc : JobStep, refund : Refunds \cup {NoRefund}, sync : BOOLEAN,
        tries : 0..MaxTries, from : Open, to : RefundStatus \ {"none"}]

NoJob == [pc |-> "idle", refund |-> NoRefund, sync |-> FALSE, tries |-> 0,
          from |-> "requested", to |-> "requested"]

Init ==
  /\ status \in {"confirmed", "refund_required"}
  /\ row = [r \in Refunds |-> NoRow]
  /\ stale = {}
  /\ provider = [r \in Refunds |-> "none"]
  /\ travelling = {}
  /\ job = [w \in Workers |-> NoJob]
  /\ crashes = 0

-----------------------------------------------------------------------------
(* Sums of amounts: one element for each unit of a row.                    *)

Units(rows, kinds) ==
  {u \in Refunds \X (1..Captured) :
     rows[u[1]].status \in kinds /\ u[2] <= rows[u[1]].amount}

Sum(rows, kinds) == Cardinality(Units(rows, kinds))

OfGroup(rows, g) == [r \in Refunds |-> IF rows[r].group = g THEN rows[r] ELSE NoRow]

Remaining == Captured - Sum(row, {"requested", "submitted", "processed"})

\* Mutant: a group's refunds count once they are paid out.
GroupRemainingPaid(g) == Share[g] - Sum(OfGroup(row, g), {"processed"})

GroupRemaining(g) ==
  Share[g] - Sum(OfGroup(row, g), {"requested", "submitted", "processed"})

\* Mutant: what is refunded and what is still open are not added up.
ProjectSeparately(rows) ==
  CASE Sum(rows, {"processed"}) >= Captured -> "refunded"
    [] Sum(rows, Open) >= Captured -> "refund_pending"
    [] status = "refund_pending" /\ Sum(rows, Open) < Captured -> "refund_required"
    [] OTHER -> status

(* projectOrderStatus over the refunds as the transaction leaves them.     *)
ProjectOrderStatus(rows) ==
  LET processed == Sum(rows, {"processed"})
      open == Sum(rows, Open) IN
  CASE status \notin Refundable -> status
    [] status \in Refundable /\ processed >= Captured -> "refunded"
    [] status \in Refundable /\ processed < Captured /\ processed + open >= Captured ->
         "refund_pending"
    [] status = "refund_pending" /\ processed + open < Captured -> "refund_required"
    [] OTHER -> status

-----------------------------------------------------------------------------
Goto(w, pc) == job' = [job EXCEPT ![w].pc = pc, ![w].tries = 0]

Write(w, from, to) ==
  job' = [job EXCEPT ![w].pc = "write", ![w].tries = 0, ![w].from = from, ![w].to = to]

Finish(w) == job' = [job EXCEPT ![w] = NoJob]

(* The row status recordProviderRefund writes for Razorpay's answer.       *)
RecordedAs(s) == IF s \in Settled THEN s ELSE "submitted"

\* Mutant: the order's status is left to the first answer from Razorpay.
RequestUnprojected(w, r, amount, g) ==
  /\ job[w].pc = "idle"
  /\ row[r].status = "none"
  /\ status \in Refundable
  /\ amount <= Remaining
  /\ status = "refund_required" => amount = Remaining
  /\ g \in Groups => amount <= GroupRemaining(g)
  /\ row' = [row EXCEPT ![r] = [status |-> "requested", amount |-> amount, group |-> g]]
  /\ job' = [job EXCEPT ![w] = [NoJob EXCEPT !.pc = "send", !.refund = r, !.tries = 1]]
  /\ UNCHANGED <<status, stale, provider, travelling, crashes>>

(* Step A of requestRefund, one transaction under the order's row lock; a  *)
(* request without an amount is one for all that remains.  The request     *)
(* goes on to send the refund, once.                                       *)
RequestRefund(w, r, amount, g) ==
  /\ job[w].pc = "idle"
  /\ row[r].status = "none"
  /\ status \in Refundable
  /\ amount <= Remaining
  /\ status = "refund_required" => amount = Remaining
  /\ g \in Groups => amount <= GroupRemaining(g)
  /\ row' = [row EXCEPT ![r] = [status |-> "requested", amount |-> amount, group |-> g]]
  /\ status' = ProjectOrderStatus(row')
  /\ job' = [job EXCEPT ![w] = [NoJob EXCEPT !.pc = "send", !.refund = r, !.tries = 1]]
  /\ UNCHANGED <<stale, provider, travelling, crashes>>

(* The admin's request takes less than five minutes, and a request that    *)
(* has not reached Razorpay in five minutes never will.                    *)
Age(r) ==
  /\ row[r].status \in Open
  /\ r \notin stale
  /\ \A w \in Workers : job[w].refund = r => job[w].sync
  /\ stale' = stale \cup {r}
  /\ travelling' = travelling \ {r}
  /\ UNCHANGED <<status, row, provider, job, crashes>>

\* Mutant: the sync only looks at submitted refunds.
SyncSubmittedOnly(w, r) ==
  /\ job[w].pc = "idle"
  /\ row[r].status = "submitted"
  /\ r \in stale
  /\ job' = [job EXCEPT ![w] = [NoJob EXCEPT !.pc = "fetch", !.refund = r, !.sync = TRUE]]
  /\ UNCHANGED <<status, row, stale, provider, travelling, crashes>>

(* A pass of the sync reads the row; it gets to it later.                  *)
SyncPicked(w, r) ==
  /\ job[w].pc = "idle"
  /\ row[r].status \in Open
  /\ r \in stale
  /\ job' = [job EXCEPT ![w] =
       [NoJob EXCEPT !.pc = IF row[r].status = "requested" THEN "lookup" ELSE "fetch",
                     !.refund = r, !.sync = TRUE]]
  /\ UNCHANGED <<status, row, stale, provider, travelling, crashes>>

-----------------------------------------------------------------------------
(* submit: up to three attempts for the sync, one for the admin.           *)

(* Razorpay creates the refund, or answers with the one the key has made.  *)
RefundAccepted(w) ==
  LET r == job[w].refund IN
  /\ job[w].pc = "send"
  /\ \/ provider[r] \in Held /\ UNCHANGED provider
     \/ /\ provider[r] = "none"
        /\ \E s \in Held : provider' = [provider EXCEPT ![r] = s]
  /\ Write(w, "requested", RecordedAs(provider'[r]))
  /\ UNCHANGED <<status, row, stale, travelling, crashes>>

(* A timeout, a lost connection, a 5xx or a 409: try again, then look for  *)
(* the receipt; the request may still reach Razorpay.  Any other error     *)
(* looks for the receipt at once.                                          *)
RefundUnanswered(w) ==
  LET r == job[w].refund IN
  /\ job[w].pc = "send"
  /\ travelling' \in {travelling, travelling \cup {r}}
  /\ \/ job[w].tries > 1 /\ job' = [job EXCEPT ![w].tries = @ - 1]
     \/ Goto(w, "adopt")
  /\ UNCHANGED <<status, row, stale, provider, crashes>>

(* A client error.  It may also come back for a refund that exists.        *)
RefundRefused(w) ==
  LET r == job[w].refund IN
  /\ job[w].pc = "send"
  /\ provider' = [provider EXCEPT ![r] = IF @ = "none" /\ RejectionFinal THEN "refused" ELSE @]
  /\ Goto(w, "verify")
  /\ UNCHANGED <<status, row, stale, travelling, crashes>>

LookupFound(w) ==
  LET r == job[w].refund IN
  /\ job[w].pc \in {"lookup", "verify", "adopt"}
  /\ provider[r] \in Held
  /\ Write(w, "requested", RecordedAs(provider[r]))
  /\ UNCHANGED <<status, row, stale, provider, travelling, crashes>>

Submit(w) == job' = [job EXCEPT ![w].pc = "send", ![w].tries = MaxTries]

(* Nothing carries the receipt: only after a client error does that fail   *)
(* the refund.                                                             *)
LookupEmpty(w) ==
  LET r == job[w].refund IN
  /\ job[w].pc \in {"lookup", "verify", "adopt"}
  /\ provider[r] \notin Held
  /\ \/ job[w].pc = "lookup" /\ Submit(w)
     \/ job[w].pc = "verify" /\ Write(w, "requested", "failed")
     \/ job[w].pc = "adopt" /\ Finish(w)
  /\ UNCHANGED <<status, row, stale, provider, travelling, crashes>>

\* Mutant: a refused refund is failed although the lookup could not be made.
UnavailableFails(w) ==
  /\ \/ job[w].pc = "lookup" /\ Submit(w)
     \/ job[w].pc = "verify" /\ Write(w, "requested", "failed")
     \/ job[w].pc \in {"adopt", "fetch"} /\ Finish(w)
  /\ UNCHANGED <<status, row, stale, provider, travelling, crashes>>

(* Razorpay could not be asked: the sync sends anyway, the rest give up.   *)
ProviderUnavailable(w) ==
  /\ \/ job[w].pc = "lookup" /\ Submit(w)
     \/ job[w].pc \in {"verify", "adopt", "fetch"} /\ Finish(w)
  /\ UNCHANGED <<status, row, stale, provider, travelling, crashes>>

(* syncSubmitted: a refund still pending is left alone.                    *)
SyncSubmitted(w) ==
  LET r == job[w].refund IN
  /\ job[w].pc = "fetch"
  /\ IF provider[r] \in Settled THEN Write(w, "submitted", provider[r]) ELSE Finish(w)
  /\ UNCHANGED <<status, row, stale, provider, travelling, crashes>>

\* Mutant: the update of the row is not guarded on the status it had.
TransitionAnyway(w) ==
  LET r == job[w].refund IN
  /\ job[w].pc = "write"
  /\ row' = [row EXCEPT ![r].status = job[w].to]
  /\ stale' = stale \ {r}
  /\ status' = ProjectOrderStatus(row')
  /\ Finish(w)
  /\ UNCHANGED <<provider, travelling, crashes>>

(* transitionRefund: the row and the order together, or neither.           *)
TransitionRefund(w) ==
  LET r == job[w].refund IN
  /\ job[w].pc = "write"
  /\ IF row[r].status = job[w].from
       THEN /\ row' = [row EXCEPT ![r].status = job[w].to]
            /\ stale' = stale \ {r}
            /\ status' = ProjectOrderStatus(row')
       ELSE UNCHANGED <<row, stale, status>>
  /\ Finish(w)
  /\ UNCHANGED <<provider, travelling, crashes>>

-----------------------------------------------------------------------------
(* The world around the jobs.                                              *)

(* A request whose answer nobody waits for reaches Razorpay after all.     *)
LateRequest(r) ==
  /\ r \in travelling
  /\ travelling' = travelling \ {r}
  /\ \/ provider[r] = "none" /\ \E s \in Held : provider' = [provider EXCEPT ![r] = s]
     \/ UNCHANGED provider
  /\ UNCHANGED <<status, row, stale, job, crashes>>

ProviderSettles(r) ==
  /\ provider[r] = "pending"
  /\ \E s \in Settled : provider' = [provider EXCEPT ![r] = s]
  /\ UNCHANGED <<status, row, stale, travelling, job, crashes>>

(* adminCancel of a refunded order, under a lock on its row.               *)
CloseRefunded ==
  /\ status = "refunded"
  /\ status' = "cancelled"
  /\ UNCHANGED <<row, stale, provider, travelling, job, crashes>>

Crash(w) ==
  /\ job[w].pc # "idle"
  /\ crashes < MaxCrashes
  /\ crashes' = crashes + 1
  /\ Finish(w)
  /\ UNCHANGED <<status, row, stale, provider, travelling>>

Next ==
  \/ \E r \in Refunds : Age(r) \/ LateRequest(r) \/ ProviderSettles(r)
  \/ \E w \in Workers, r \in Refunds :
       \/ SyncPicked(w, r)
       \/ \E amount \in 1..Captured, g \in Groups \cup {NoGroup} : RequestRefund(w, r, amount, g)
  \/ \E w \in Workers :
       \/ RefundAccepted(w) \/ RefundUnanswered(w) \/ RefundRefused(w)
       \/ LookupFound(w) \/ LookupEmpty(w) \/ ProviderUnavailable(w)
       \/ SyncSubmitted(w) \/ TransitionRefund(w) \/ Crash(w)
  \/ CloseRefunded

Spec == Init /\ [][Next]_vars

-----------------------------------------------------------------------------
(* Properties.                                                             *)

(* Every variable keeps its type.                                          *)
TypeOK ==
  /\ status \in OrderStatus
  /\ row \in [Refunds -> Row]
  /\ stale \subseteq Refunds
  /\ provider \in [Refunds -> ProviderStatus]
  /\ travelling \subseteq Refunds
  /\ job \in [Workers -> Job]
  /\ crashes \in 0..MaxCrashes

(* The order's status says where the money is, at every instant and        *)
(* whatever admins, syncs and crashes are doing: nothing is promised       *)
(* beyond the capture, refunded means paid out in full, refund_pending     *)
(* that the rest of a full refund is on its way (decision 0054 rule 6).    *)
StatusFollowsMoney ==
  LET processed == Sum(row, {"processed"})
      promised == Sum(row, {"requested", "submitted", "processed"}) IN
  /\ promised <= Captured
  /\ status \in {"refunded", "cancelled"} => processed = Captured
  /\ status = "refund_pending" => processed < Captured /\ promised = Captured
  /\ status \in {"confirmed", "refund_required"} => promised < Captured

(* The refunds of a vendor group never exceed what the group was paid.     *)
GroupsWithinShare ==
  \A g \in Groups :
    Sum(OfGroup(row, g), {"requested", "submitted", "processed"}) <= Share[g]

(* A processed row was paid out, and what Razorpay has paid out or will    *)
(* pay out never totals more than the capture (decision 0054 rule 5).      *)
PaidWithinCapture ==
  /\ \A r \in Refunds : row[r].status = "processed" => provider[r] = "processed"
  /\ Cardinality({u \in Refunds \X (1..Captured) :
       provider[u[1]] \in {"pending", "processed"} /\ u[2] <= row[u[1]].amount}) <= Captured

(* No late or stale answer moves a settled refund.                         *)
SettledForGood ==
  [][\A r \in Refunds : row[r].status \in Settled => row'[r] = row[r]]_vars

(* The order moves only as its lifecycle says: never from confirmed to     *)
(* refunded past refund_pending, never back from refunded.                 *)
Lifecycle ==
  INSTANCE OrderLifecycle
    WITH Orders <- {"order"}, Listings <- {}, Payments <- {"payment"},
         NoPayment <- "no payment", Qty <- <<>>,
         status <- [o \in {"order"} |-> status],
         paymentId <- [o \in {"order"} |-> "payment"],
         held <- <<>>

MovesAsPromised ==
  [][Lifecycle!LifecycleNext \/ UNCHANGED status]_vars

-----------------------------------------------------------------------------
(* Fairness: the cron keeps reading stale rows, jobs go on, Razorpay       *)
(* answers each kind of call again and again, and settles what it accepts. *)
Answered(r, pc) ==
  \E w \in Workers :
    /\ job[w].refund = r
    /\ job[w].pc = pc
    /\ RefundAccepted(w) \/ RefundRefused(w) \/ LookupFound(w) \/ LookupEmpty(w)
       \/ SyncSubmitted(w)

Fairness ==
  /\ \A r \in Refunds :
       /\ WF_vars(Age(r))
       /\ WF_vars(ProviderSettles(r))
       /\ SF_vars(\E w \in Workers : SyncPicked(w, r))
       /\ \A pc \in {"send", "verify", "fetch"} : SF_vars(Answered(r, pc))
  /\ \A w \in Workers :
       /\ WF_vars(TransitionRefund(w))
       /\ WF_vars(RefundAccepted(w) \/ RefundUnanswered(w) \/ RefundRefused(w)
                  \/ LookupFound(w) \/ LookupEmpty(w) \/ ProviderUnavailable(w)
                  \/ SyncSubmitted(w))

FairSpec == Spec /\ Fairness

(* Every refund is paid out or failed in the end, after lost answers, lost *)
(* lookups and a crash between any two steps, and the order does not stay  *)
(* in refund_pending.                                                      *)
RefundSettles ==
  /\ \A r \in Refunds : row[r].status \in Open ~> row[r].status \in Settled
  /\ status = "refund_pending" ~> status # "refund_pending"
=============================================================================
