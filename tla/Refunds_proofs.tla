--------------------------- MODULE Refunds_proofs ---------------------------
(***************************************************************************)
(* Proofs about Refunds, for any number of refunds, groups, workers and    *)
(* crashes, any amounts and any number of attempts.                        *)
(***************************************************************************)
EXTENDS Refunds, FiniteSetTheorems, TLAPS

Promised == {"requested", "submitted", "processed"}

(* A row has an amount from the moment it exists.                          *)
AmountsOK == \A r \in Refunds : row[r].status # "none" <=> row[r].amount > 0

(* A job that is not idle works on a row that exists.                      *)
JobsOK ==
  \A w \in Workers :
    job[w].pc # "idle" => job[w].refund \in Refunds /\ row[job[w].refund].status # "none"

TypeInv == TypeOK /\ AmountsOK /\ JobsOK

-----------------------------------------------------------------------------
(* Sums: what one row contributes, and what replacing a row changes.       *)

Contribution(rows, kinds, r) == IF rows[r].status \in kinds THEN rows[r].amount ELSE 0

UnitsElsewhere(rows, kinds, r) == {u \in Units(rows, kinds) : u[1] # r}

LEMMA OwnUnits ==
  ASSUME NEW r \in Refunds, NEW n \in Nat
  PROVE  IsFiniteSet({r} \X (1..n)) /\ Cardinality({r} \X (1..n)) = n
<1>1. IsFiniteSet({r}) /\ Cardinality({r}) = 1
  BY FS_Singleton
<1>2. IsFiniteSet(1..n) /\ Cardinality(1..n) = IF 1 > n THEN 0 ELSE n - 1 + 1
  BY FS_Interval
<1>3. Cardinality(1..n) = n
  BY <1>2
<1>4. /\ IsFiniteSet({r} \X (1..n))
      /\ Cardinality({r} \X (1..n)) = Cardinality({r}) * Cardinality(1..n)
  BY <1>1, <1>2, FS_Product
<1> QED
  BY <1>1, <1>3, <1>4

LEMMA UnitsFinite ==
  ASSUME NEW rows, NEW kinds
  PROVE  IsFiniteSet(Units(rows, kinds)) /\ Sum(rows, kinds) \in Nat
<1>1. IsFiniteSet(1..Captured)
  BY RefundsAssumption, FS_Interval
<1>2. IsFiniteSet(Refunds \X (1..Captured))
  BY <1>1, RefundsAssumption, FS_Product
<1>3. Units(rows, kinds) \in SUBSET (Refunds \X (1..Captured))
  BY DEF Units
<1>4. IsFiniteSet(Units(rows, kinds))
  BY <1>2, <1>3, FS_Subset
<1> QED
  BY <1>4, FS_CardinalityType DEF Sum

LEMMA SumSplit ==
  ASSUME NEW rows \in [Refunds -> Row], NEW kinds, NEW r \in Refunds
  PROVE  /\ Cardinality(UnitsElsewhere(rows, kinds, r)) \in Nat
         /\ Contribution(rows, kinds, r) \in Nat
         /\ Sum(rows, kinds) =
              Cardinality(UnitsElsewhere(rows, kinds, r)) + Contribution(rows, kinds, r)
<1> DEFINE n == Contribution(rows, kinds, r)
           own == {r} \X (1..n)
           rest == UnitsElsewhere(rows, kinds, r)
<1>0. n \in Nat /\ n <= Captured /\ Captured \in Nat
  BY RefundsAssumption DEF Row, Contribution
<1>1. IsFiniteSet(own) /\ Cardinality(own) = n
  BY <1>0, OwnUnits
<1>2. IsFiniteSet(rest)
  <2>1. rest \in SUBSET Units(rows, kinds)
    BY DEF UnitsElsewhere
  <2> QED
    BY <2>1, UnitsFinite, FS_Subset
<1>3. Units(rows, kinds) = rest \cup own
  <2>1. Units(rows, kinds) \subseteq rest \cup own
    <3> SUFFICES ASSUME NEW u \in Units(rows, kinds), u[1] = r
                 PROVE  u \in own
      BY DEF UnitsElsewhere
    <3> QED
      BY <1>0 DEF Units, Contribution, Row
  <2>2. own \subseteq Units(rows, kinds)
    BY <1>0 DEF Units, Contribution, Row
  <2> QED
    BY <2>1, <2>2 DEF UnitsElsewhere
<1>4. rest \cap own = {}
  BY DEF UnitsElsewhere
<1>5. Cardinality(rest \cup own) = Cardinality(rest) + Cardinality(own) - Cardinality({})
  BY <1>1, <1>2, <1>4, FS_Union
<1>6. Cardinality(rest) \in Nat
  BY <1>2, FS_CardinalityType
<1> HIDE DEF n, own, rest
<1>7. Sum(rows, kinds) = Cardinality(rest) + n
  BY <1>0, <1>1, <1>3, <1>5, <1>6, FS_EmptySet DEF Sum
<1> QED
  BY <1>0, <1>6, <1>7 DEF n, rest

LEMMA SumReplaced ==
  ASSUME NEW rows \in [Refunds -> Row], NEW rows2 \in [Refunds -> Row], NEW kinds,
         NEW r \in Refunds, \A q \in Refunds \ {r} : rows2[q] = rows[q]
  PROVE  /\ Sum(rows, kinds) \in Nat
         /\ Sum(rows2, kinds) = Sum(rows, kinds) - Contribution(rows, kinds, r)
                                                + Contribution(rows2, kinds, r)
<1>1. UnitsElsewhere(rows2, kinds, r) = UnitsElsewhere(rows, kinds, r)
  BY DEF UnitsElsewhere, Units
<1>2. /\ Sum(rows, kinds) =
           Cardinality(UnitsElsewhere(rows, kinds, r)) + Contribution(rows, kinds, r)
      /\ Sum(rows2, kinds) =
           Cardinality(UnitsElsewhere(rows, kinds, r)) + Contribution(rows2, kinds, r)
      /\ Cardinality(UnitsElsewhere(rows, kinds, r)) \in Nat
      /\ Contribution(rows, kinds, r) \in Nat
      /\ Contribution(rows2, kinds, r) \in Nat
  BY <1>1, SumSplit
<1> QED
  BY <1>2

(* Processed and open refunds add up to what is promised.                  *)
LEMMA PromisedSum ==
  ASSUME NEW rows
  PROVE  /\ Sum(rows, Promised) = Sum(rows, {"processed"}) + Sum(rows, Open)
         /\ Sum(rows, Promised) \in Nat
         /\ Sum(rows, {"processed"}) \in Nat
         /\ Sum(rows, Open) \in Nat
<1>1. Units(rows, Promised) = Units(rows, {"processed"}) \cup Units(rows, Open)
  BY DEF Units, Promised, Open
<1>2. Units(rows, {"processed"}) \cap Units(rows, Open) = {}
  BY DEF Units, Open
<1>3. Cardinality(Units(rows, {"processed"}) \cup Units(rows, Open)) =
        Cardinality(Units(rows, {"processed"})) + Cardinality(Units(rows, Open)) - Cardinality({})
  BY <1>2, UnitsFinite, FS_Union
<1>4. /\ Sum(rows, Promised) \in Nat
      /\ Sum(rows, {"processed"}) \in Nat
      /\ Sum(rows, Open) \in Nat
  BY UnitsFinite
<1> QED
  BY <1>1, <1>3, <1>4, FS_EmptySet DEF Sum

(* The projection, by cases.                                               *)
LEMMA Projected ==
  ASSUME NEW rows, status \in OrderStatus
  PROVE  LET next == ProjectOrderStatus(rows) IN
         /\ status = "cancelled" => next = status
         /\ status # "cancelled" /\ Sum(rows, {"processed"}) >= Captured => next = "refunded"
         /\ status # "cancelled" /\ Sum(rows, {"processed"}) < Captured
              /\ Sum(rows, Promised) >= Captured => next = "refund_pending"
         /\ status = "refund_pending" /\ Sum(rows, Promised) < Captured =>
              next = "refund_required"
         /\ status \in {"confirmed", "refund_required", "refunded"}
              /\ Sum(rows, Promised) < Captured => next = status
<1>1. /\ Sum(rows, Promised) = Sum(rows, {"processed"}) + Sum(rows, Open)
      /\ Sum(rows, Promised) \in Nat
      /\ Sum(rows, {"processed"}) \in Nat
      /\ Sum(rows, Open) \in Nat
      /\ Captured \in Nat
  BY PromisedSum, RefundsAssumption
<1> QED
  BY <1>1 DEF ProjectOrderStatus, OrderStatus, Refundable

-----------------------------------------------------------------------------
(* Jobs.                                                                   *)

LEMMA RowTypes ==
  /\ NoRow \in Row
  /\ NoJob \in Job
  /\ NoJob.pc = "idle"
  /\ Captured \in Nat
BY RefundsAssumption DEF NoRow, Row, RefundStatus, NoJob, Job, JobStep, Open

(* What a step does to the jobs when it leaves the rows alone: one job     *)
(* starts on an existing row, goes on with its row, or ends.               *)
JobMove(w) ==
  \/ \E j \in Job :
       /\ job' = [job EXCEPT ![w] = j]
       /\ j.pc # "idle" => j.refund \in Refunds /\ row[j.refund].status # "none"

LEMMA JobType ==
  ASSUME TypeInv, NEW w \in Workers
  PROVE  job[w] \in Job /\ 0 \in 0..MaxTries /\ MaxTries \in 0..MaxTries
<1>1. MaxTries \in Nat
  BY RefundsAssumption
<1> QED
  BY <1>1 DEF TypeInv, TypeOK

LEMMA GotoMoves ==
  ASSUME TypeInv, NEW w \in Workers, job[w].pc # "idle", NEW pc \in JobStep, Goto(w, pc)
  PROVE  JobMove(w)
<1>1. [job[w] EXCEPT !.pc = pc, !.tries = 0] \in Job
  BY JobType DEF Job
<1>2. job' = [job EXCEPT ![w] = [job[w] EXCEPT !.pc = pc, !.tries = 0]]
  BY DEF Goto, TypeInv, TypeOK, Job
<1> QED
  BY <1>1, <1>2 DEF JobMove, TypeInv, TypeOK, JobsOK, Job

LEMMA WriteMoves ==
  ASSUME TypeInv, NEW w \in Workers, job[w].pc # "idle",
         NEW from \in Open, NEW to \in RefundStatus \ {"none"}, Write(w, from, to)
  PROVE  JobMove(w)
<1> DEFINE j == [job[w] EXCEPT !.pc = "write", !.tries = 0, !.from = from, !.to = to]
<1>1. j \in Job
  BY JobType DEF Job, JobStep
<1>2. job' = [job EXCEPT ![w] = j]
  BY DEF Write, TypeInv, TypeOK, Job
<1>3. j.refund = job[w].refund
  BY DEF TypeInv, TypeOK, Job
<1> QED
  BY <1>1, <1>2, <1>3 DEF JobMove, TypeInv, JobsOK

LEMMA FinishMoves ==
  ASSUME NEW w \in Workers, Finish(w)
  PROVE  JobMove(w)
BY RowTypes DEF Finish, JobMove

LEMMA SubmitMoves ==
  ASSUME TypeInv, NEW w \in Workers, job[w].pc # "idle", Submit(w)
  PROVE  JobMove(w)
<1> DEFINE j == [job[w] EXCEPT !.pc = "send", !.tries = MaxTries]
<1>1. j \in Job
  BY JobType DEF Job, JobStep
<1>2. job' = [job EXCEPT ![w] = j]
  BY DEF Submit, TypeInv, TypeOK, Job
<1>3. j.refund = job[w].refund
  BY DEF TypeInv, TypeOK, Job
<1> QED
  BY <1>1, <1>2, <1>3 DEF JobMove, TypeInv, JobsOK

(* Jobs stay well formed when one moves and no row is removed.             *)
LEMMA JobsAfterMove ==
  ASSUME TypeInv, NEW w \in Workers, JobMove(w), UNCHANGED row
  PROVE  job' \in [Workers -> Job] /\ JobsOK'
BY DEF TypeInv, TypeOK, JobMove, JobsOK

-----------------------------------------------------------------------------
(* The steps, by what they do to the order and its refunds.                *)

Requests(r, amount, g) ==
  /\ row[r].status = "none"
  /\ status \in Refundable
  /\ amount <= Remaining
  /\ g \in Groups => amount <= GroupRemaining(g)
  /\ row' = [row EXCEPT ![r] = [status |-> "requested", amount |-> amount, group |-> g]]
  /\ status' = ProjectOrderStatus(row')

Moves(r, to) ==
  /\ row[r].status \in Open
  /\ to # "none"
  /\ row' = [row EXCEPT ![r].status = to]
  /\ status' = ProjectOrderStatus(row')

Closes ==
  /\ status = "refunded"
  /\ status' = "cancelled"
  /\ row' = row

RefundStep ==
  \/ UNCHANGED <<status, row>>
  \/ Closes
  \/ \E r \in Refunds, amount \in 1..Captured, g \in Groups \cup {NoGroup} : Requests(r, amount, g)
  \/ \E r \in Refunds, to \in RefundStatus : Moves(r, to)

LEMMA RefundSteps == TypeInv /\ [Next]_vars => RefundStep
<1> SUFFICES ASSUME TypeInv, [Next]_vars
             PROVE  RefundStep
  OBVIOUS
<1>1. ASSUME NEW w \in Workers, NEW r \in Refunds, NEW amount \in 1..Captured,
             NEW g \in Groups \cup {NoGroup}, RequestRefund(w, r, amount, g)
      PROVE  RefundStep
  BY <1>1 DEF RequestRefund, Requests, RefundStep
<1>2. ASSUME NEW w \in Workers, TransitionRefund(w)
      PROVE  RefundStep
  <2>1. job[w].refund \in Refunds /\ job[w].from \in Open /\ job[w].to \in RefundStatus \ {"none"}
    BY <1>2 DEF TransitionRefund, TypeInv, TypeOK, JobsOK, Job
  <2> QED
    BY <1>2, <2>1 DEF TransitionRefund, Moves, RefundStep
<1>3. CASE CloseRefunded
  BY <1>3 DEF CloseRefunded, Closes, RefundStep
<1>4. ASSUME NEW r \in Refunds, Age(r) \/ LateRequest(r) \/ ProviderSettles(r)
      PROVE  RefundStep
  BY <1>4 DEF Age, LateRequest, ProviderSettles, RefundStep
<1>5. ASSUME NEW w \in Workers, NEW r \in Refunds, SyncPicked(w, r)
      PROVE  RefundStep
  BY <1>5 DEF SyncPicked, RefundStep
<1>6. ASSUME NEW w \in Workers,
             \/ RefundAccepted(w) \/ RefundUnanswered(w) \/ RefundRefused(w)
             \/ LookupFound(w) \/ LookupEmpty(w) \/ ProviderUnavailable(w)
             \/ SyncSubmitted(w) \/ Crash(w)
      PROVE  RefundStep
  BY <1>6 DEF RefundAccepted, RefundUnanswered, RefundRefused, LookupFound, LookupEmpty,
              ProviderUnavailable, SyncSubmitted, Crash, RefundStep
<1>7. CASE UNCHANGED vars
  BY <1>7 DEF vars, RefundStep
<1> QED
  BY <1>1, <1>2, <1>3, <1>4, <1>5, <1>6, <1>7 DEF Next

(* Rows keep their type, their amount and their existence.                 *)
LEMMA RowsStep ==
  ASSUME TypeInv, RefundStep
  PROVE  /\ row' \in [Refunds -> Row]
         /\ status' \in OrderStatus
         /\ AmountsOK'
         /\ \A r \in Refunds : row[r].status # "none" => row'[r].status # "none"
<1>t. /\ row \in [Refunds -> Row]
      /\ status \in OrderStatus
      /\ AmountsOK
      /\ Captured \in Nat
  BY RowTypes DEF TypeInv, TypeOK
<1>p. \A rows : ProjectOrderStatus(rows) \in OrderStatus
  BY <1>t DEF ProjectOrderStatus, OrderStatus, Refundable
<1>1. CASE UNCHANGED <<status, row>>
  BY <1>1, <1>t DEF AmountsOK
<1>2. CASE Closes
  BY <1>2, <1>t DEF Closes, AmountsOK, OrderStatus
<1>3. ASSUME NEW r \in Refunds, NEW amount \in 1..Captured, NEW g \in Groups \cup {NoGroup},
             Requests(r, amount, g)
      PROVE  /\ row' \in [Refunds -> Row]
             /\ status' \in OrderStatus
             /\ AmountsOK'
             /\ \A x \in Refunds : row[x].status # "none" => row'[x].status # "none"
  <2>1. [status |-> "requested", amount |-> amount, group |-> g] \in Row
    BY <1>t DEF Row, RefundStatus
  <2>2. row' = [row EXCEPT ![r] = [status |-> "requested", amount |-> amount, group |-> g]]
    BY <1>3 DEF Requests
  <2> QED
    BY <1>3, <1>t, <1>p, <2>1, <2>2 DEF Requests, AmountsOK
<1>4. ASSUME NEW r \in Refunds, NEW to \in RefundStatus, Moves(r, to)
      PROVE  /\ row' \in [Refunds -> Row]
             /\ status' \in OrderStatus
             /\ AmountsOK'
             /\ \A x \in Refunds : row[x].status # "none" => row'[x].status # "none"
  <2>1. /\ row' = [row EXCEPT ![r] = [row[r] EXCEPT !.status = to]]
        /\ [row[r] EXCEPT !.status = to] \in Row
    BY <1>4, <1>t DEF Moves, Row
  <2>2. row[r].status # "none" /\ to # "none"
    BY <1>4 DEF Moves, Open
  <2> QED
    BY <1>4, <1>t, <1>p, <2>1, <2>2 DEF Moves, AmountsOK, Row
<1> QED
  BY <1>1, <1>2, <1>3, <1>4 DEF RefundStep

(* Every action moves at most one job, and keeps what surrounds the rows   *)
(* typed.                                                                  *)
Surroundings ==
  /\ stale \subseteq Refunds
  /\ provider \in [Refunds -> ProviderStatus]
  /\ travelling \subseteq Refunds
  /\ crashes \in 0..MaxCrashes

LEMMA QuietStep ==
  ASSUME TypeInv, NEW w \in Workers, JobMove(w), UNCHANGED <<status, row>>, Surroundings'
  PROVE  TypeInv'
<1>1. job' \in [Workers -> Job] /\ JobsOK'
  BY JobsAfterMove
<1>2. AmountsOK'
  BY DEF TypeInv, AmountsOK
<1> QED
  BY <1>1, <1>2 DEF TypeInv, TypeOK, Surroundings

LEMMA TypeInvStep == TypeInv /\ [Next]_vars => TypeInv'
<1> SUFFICES ASSUME TypeInv, [Next]_vars
             PROVE  TypeInv'
  OBVIOUS
<1>s. Surroundings /\ MaxCrashes \in Nat
  BY RefundsAssumption DEF TypeInv, TypeOK, Surroundings
<1>r. /\ row' \in [Refunds -> Row]
      /\ status' \in OrderStatus
      /\ AmountsOK'
      /\ \A r \in Refunds : row[r].status # "none" => row'[r].status # "none"
  BY RefundSteps, RowsStep
<1>w. ASSUME NEW w \in Workers, job[w].pc # "idle"
      PROVE  job[w].refund \in Refunds /\ row[job[w].refund].status # "none"
  BY <1>w DEF TypeInv, JobsOK
<1>1. ASSUME NEW w \in Workers, NEW r \in Refunds, NEW amount \in 1..Captured,
             NEW g \in Groups \cup {NoGroup}, RequestRefund(w, r, amount, g)
      PROVE  TypeInv'
  <2> DEFINE j == [NoJob EXCEPT !.pc = "send", !.refund = r, !.tries = 1]
  <2>1. j \in Job /\ j.refund = r
    <3>1. 1 \in 0..MaxTries
      BY RefundsAssumption
    <3> QED
      BY <3>1 DEF NoJob, Job, JobStep, Open, RefundStatus
  <2>2. job' = [job EXCEPT ![w] = j]
    BY <1>1 DEF RequestRefund
  <2>3. row'[r].status # "none"
    BY <1>1 DEF RequestRefund, TypeInv, TypeOK
  <2> HIDE DEF j
  <2>4. job' \in [Workers -> Job] /\ JobsOK'
    BY <1>r, <2>1, <2>2, <2>3 DEF TypeInv, TypeOK, JobsOK
  <2>5. Surroundings'
    BY <1>1, <1>s DEF RequestRefund, Surroundings
  <2> QED
    BY <1>r, <2>4, <2>5 DEF TypeInv, TypeOK, Surroundings
<1>2. ASSUME NEW w \in Workers, TransitionRefund(w)
      PROVE  TypeInv'
  <2>1. job' = [job EXCEPT ![w] = NoJob]
    BY <1>2 DEF TransitionRefund, Finish
  <2>2. job' \in [Workers -> Job] /\ JobsOK'
    BY <1>r, <2>1, RowTypes DEF TypeInv, TypeOK, JobsOK
  <2>3. Surroundings'
    BY <1>2, <1>s DEF TransitionRefund, Surroundings
  <2> QED
    BY <1>r, <2>2, <2>3 DEF TypeInv, TypeOK, Surroundings
<1>3. ASSUME \/ CloseRefunded
             \/ UNCHANGED vars
             \/ \E r \in Refunds : Age(r) \/ LateRequest(r) \/ ProviderSettles(r)
      PROVE  TypeInv'
  <2>1. UNCHANGED <<row, job>>
    BY <1>3 DEF CloseRefunded, vars, Age, LateRequest, ProviderSettles
  <2>2. Surroundings'
    <3>1. CASE CloseRefunded \/ UNCHANGED vars
      BY <3>1, <1>s DEF CloseRefunded, vars, Surroundings
    <3>2. ASSUME NEW r \in Refunds, Age(r) \/ LateRequest(r) \/ ProviderSettles(r)
          PROVE  Surroundings'
      BY <3>2, <1>s DEF Age, LateRequest, ProviderSettles, Surroundings, ProviderStatus, Held, Settled
    <3> QED
      BY <1>3, <3>1, <3>2
  <2> QED
    BY <1>r, <2>1, <2>2 DEF TypeInv, TypeOK, JobsOK, Surroundings
<1>4. ASSUME NEW w \in Workers, NEW r \in Refunds, SyncPicked(w, r)
      PROVE  TypeInv'
  <2> DEFINE j == [NoJob EXCEPT !.pc = IF row[r].status = "requested" THEN "lookup" ELSE "fetch",
                                !.refund = r, !.sync = TRUE]
  <2>1. j \in Job /\ j.refund = r
    <3>1. 0 \in 0..MaxTries
      BY RefundsAssumption
    <3> QED
      BY <3>1 DEF NoJob, Job, JobStep, Open, RefundStatus
  <2>2. job' = [job EXCEPT ![w] = j] /\ row[r].status # "none"
    BY <1>4 DEF SyncPicked, Open
  <2> HIDE DEF j
  <2>3. JobMove(w)
    BY <2>1, <2>2 DEF JobMove
  <2>4. Surroundings' /\ UNCHANGED <<status, row>>
    BY <1>4, <1>s DEF SyncPicked, Surroundings
  <2> QED
    BY <2>3, <2>4, QuietStep
<1>5. ASSUME NEW w \in Workers, RefundAccepted(w)
      PROVE  TypeInv'
  <2>1. job[w].pc # "idle"
    BY <1>5 DEF RefundAccepted
  <2>2. provider' \in [Refunds -> ProviderStatus]
    BY <1>5, <1>s DEF RefundAccepted, Surroundings, ProviderStatus, Held
  <2>3. RecordedAs(provider'[job[w].refund]) \in RefundStatus \ {"none"} /\ "requested" \in Open
    BY DEF RecordedAs, Settled, RefundStatus, Open
  <2>4. Write(w, "requested", RecordedAs(provider'[job[w].refund]))
    BY <1>5 DEF RefundAccepted
  <2>5. JobMove(w)
    BY <2>1, <2>3, <2>4, WriteMoves
  <2>6. Surroundings' /\ UNCHANGED <<status, row>>
    BY <1>5, <1>s, <2>2 DEF RefundAccepted, Surroundings
  <2> QED
    BY <2>5, <2>6, QuietStep
<1>6. ASSUME NEW w \in Workers, RefundUnanswered(w)
      PROVE  TypeInv'
  <2>1. job[w].pc # "idle"
    BY <1>6 DEF RefundUnanswered
  <2>2. JobMove(w)
    <3>1. CASE Goto(w, "adopt")
      BY <2>1, <3>1, GotoMoves DEF JobStep
    <3>2. CASE job[w].tries > 1 /\ job' = [job EXCEPT ![w].tries = @ - 1]
      <4> DEFINE j == [job[w] EXCEPT !.tries = @ - 1]
      <4>1. job[w].tries \in 0..MaxTries /\ MaxTries \in Nat
        BY RefundsAssumption, JobType DEF Job
      <4>2. job[w].tries - 1 \in 0..MaxTries
        BY <3>2, <4>1
      <4>3. j \in Job /\ j.refund = job[w].refund
        BY <4>2, JobType DEF Job
      <4>4. job' = [job EXCEPT ![w] = j]
        BY <3>2
      <4> HIDE DEF j
      <4> QED
        BY <2>1, <1>w, <4>3, <4>4 DEF JobMove
    <3> QED
      BY <1>6, <3>1, <3>2 DEF RefundUnanswered
  <2>3. Surroundings' /\ UNCHANGED <<status, row>>
    BY <1>6, <1>s, <1>w, <2>1 DEF RefundUnanswered, Surroundings
  <2> QED
    BY <2>2, <2>3, QuietStep
<1>7. ASSUME NEW w \in Workers, RefundRefused(w)
      PROVE  TypeInv'
  <2>1. JobMove(w)
    BY <1>7, GotoMoves DEF RefundRefused, JobStep
  <2>2. Surroundings' /\ UNCHANGED <<status, row>>
    BY <1>7, <1>s DEF RefundRefused, Surroundings, ProviderStatus
  <2> QED
    BY <2>1, <2>2, QuietStep
<1>8. ASSUME NEW w \in Workers, LookupFound(w)
      PROVE  TypeInv'
  <2>1. RecordedAs(provider[job[w].refund]) \in RefundStatus \ {"none"} /\ "requested" \in Open
    BY DEF RecordedAs, Settled, RefundStatus, Open
  <2>2. job[w].pc # "idle" /\ Write(w, "requested", RecordedAs(provider[job[w].refund]))
    BY <1>8 DEF LookupFound
  <2>3. JobMove(w)
    BY <2>1, <2>2, WriteMoves
  <2>4. Surroundings' /\ UNCHANGED <<status, row>>
    BY <1>8, <1>s DEF LookupFound, Surroundings
  <2> QED
    BY <2>3, <2>4, QuietStep
<1>9. ASSUME NEW w \in Workers, LookupEmpty(w) \/ ProviderUnavailable(w) \/ SyncSubmitted(w) \/ Crash(w)
      PROVE  TypeInv'
  <2>1. job[w].pc # "idle"
    BY <1>9 DEF LookupEmpty, ProviderUnavailable, SyncSubmitted, Crash
  <2>2. \/ Submit(w)
        \/ Finish(w)
        \/ Write(w, "requested", "failed")
        \/ \E s \in Settled : Write(w, "submitted", s)
    BY <1>9 DEF LookupEmpty, ProviderUnavailable, SyncSubmitted, Crash
  <2>3. JobMove(w)
    <3>1. ASSUME NEW s \in Settled, Write(w, "submitted", s)
          PROVE  JobMove(w)
      BY <2>1, <3>1, WriteMoves DEF Settled, Open, RefundStatus
    <3>2. CASE Write(w, "requested", "failed")
      BY <2>1, <3>2, WriteMoves DEF Open, RefundStatus
    <3> QED
      BY <2>1, <2>2, <3>1, <3>2, SubmitMoves, FinishMoves
  <2>4. Surroundings' /\ UNCHANGED <<status, row>>
    BY <1>9, <1>s DEF LookupEmpty, ProviderUnavailable, SyncSubmitted, Crash, Surroundings
  <2> QED
    BY <2>3, <2>4, QuietStep
<1> QED
  BY <1>1, <1>2, <1>3, <1>4, <1>5, <1>6, <1>7, <1>8, <1>9 DEF Next

LEMMA TypeInvInit == Init => TypeInv
<1> SUFFICES ASSUME Init PROVE TypeInv
  OBVIOUS
<1>1. \A r \in Refunds : row[r] = NoRow
  BY DEF Init
<1>2. \A w \in Workers : job[w] = NoJob
  BY DEF Init
<1>3. TypeOK
  BY RowTypes, RefundsAssumption DEF Init, TypeOK, OrderStatus, ProviderStatus
<1> QED
  BY <1>1, <1>2, <1>3, RowTypes DEF TypeInv, AmountsOK, JobsOK, NoRow

THEOREM TypeCorrect == Spec => []TypeInv
<1> QED
  BY TypeInvInit, TypeInvStep, PTL DEF Spec

(* Every variable of the refunds keeps its type (TypeOK), for any number   *)
(* of refunds and jobs.                                                    *)
THEOREM TypeAlwaysOK == Spec => []TypeOK
<1>1. TypeInv => TypeOK
  BY DEF TypeInv
<1> QED
  BY <1>1, TypeCorrect, PTL

-----------------------------------------------------------------------------
(* The order's status follows the money.                                   *)

(* What a new refund and a refund that moves on do to the sums.            *)
LEMMA RequestSums ==
  ASSUME TypeInv, NEW r \in Refunds, NEW amount \in 1..Captured, NEW g \in Groups \cup {NoGroup},
         Requests(r, amount, g)
  PROVE  /\ Sum(row', {"processed"}) = Sum(row, {"processed"})
         /\ Sum(row', Promised) = Sum(row, Promised) + amount
         /\ Sum(row, Promised) + amount <= Captured
         /\ amount > 0
<1> DEFINE x == [status |-> "requested", amount |-> amount, group |-> g]
<1>1. /\ x \in Row
      /\ row \in [Refunds -> Row]
      /\ Captured \in Nat
      /\ amount \in Nat
      /\ amount > 0
  BY RowTypes DEF TypeInv, TypeOK, Row, RefundStatus
<1>2. row' = [row EXCEPT ![r] = x] /\ row[r].status = "none" /\ amount <= Remaining
  BY DEF Requests
<1>a. row' \in [Refunds -> Row] /\ row'[r] = x /\ \A q \in Refunds \ {r} : row'[q] = row[q]
  BY <1>1, <1>2
<1>3. /\ Sum(row', {"processed"}) = Sum(row, {"processed"}) - 0 + 0
      /\ Sum(row', Promised) = Sum(row, Promised) - 0 + amount
  <2>1. /\ Contribution(row, {"processed"}, r) = 0
        /\ Contribution(row, Promised, r) = 0
        /\ Contribution(row', {"processed"}, r) = 0
        /\ Contribution(row', Promised, r) = amount
    BY <1>2, <1>a DEF Contribution, Promised
  <2>2. ASSUME NEW kinds
        PROVE  Sum(row', kinds) = Sum(row, kinds) - Contribution(row, kinds, r)
                                                  + Contribution(row', kinds, r)
    BY <1>1, <1>a, SumReplaced
  <2> QED
    BY <2>1, <2>2
<1>4. Sum(row, Promised) \in Nat /\ Sum(row, {"processed"}) \in Nat
  BY PromisedSum
<1>5. Remaining = Captured - Sum(row, Promised)
  BY DEF Remaining, Promised
<1> QED
  BY <1>1, <1>2, <1>3, <1>4, <1>5

LEMMA MoveSums ==
  ASSUME TypeInv, NEW r \in Refunds, NEW to \in RefundStatus, Moves(r, to)
  PROVE  /\ row[r].amount \in Nat
         /\ row[r].amount > 0
         /\ Sum(row', {"processed"}) =
              Sum(row, {"processed"}) + (IF to = "processed" THEN row[r].amount ELSE 0)
         /\ Sum(row', Promised) =
              Sum(row, Promised) - (IF to \in Promised THEN 0 ELSE row[r].amount)
         /\ Sum(row, Promised) >= Sum(row, {"processed"}) + row[r].amount
<1> DEFINE x == [row[r] EXCEPT !.status = to]
<1>1. /\ row \in [Refunds -> Row]
      /\ row[r] \in Row
      /\ row[r].amount \in Nat
      /\ row[r].amount > 0
      /\ row[r].status \in Open
  BY RowTypes DEF TypeInv, TypeOK, AmountsOK, Moves, Open, Row
<1>2. x \in Row /\ x.amount = row[r].amount /\ x.status = to
  BY <1>1 DEF Row
<1>3. row' = [row EXCEPT ![r] = x]
  BY <1>1 DEF Moves, Row
<1> HIDE DEF x
<1>a. row' \in [Refunds -> Row] /\ row'[r] = x /\ \A q \in Refunds \ {r} : row'[q] = row[q]
  BY <1>1, <1>2, <1>3
<1>4. /\ Contribution(row, {"processed"}, r) = 0
      /\ Contribution(row, Promised, r) = row[r].amount
      /\ Contribution(row, Open, r) = row[r].amount
      /\ Contribution(row', {"processed"}, r) = IF to = "processed" THEN row[r].amount ELSE 0
      /\ Contribution(row', Promised, r) = IF to \in Promised THEN row[r].amount ELSE 0
  BY <1>1, <1>2, <1>a DEF Contribution, Promised, Open
<1>5. ASSUME NEW kinds
      PROVE  Sum(row', kinds) = Sum(row, kinds) - Contribution(row, kinds, r)
                                                + Contribution(row', kinds, r)
  BY <1>1, <1>a, SumReplaced
<1>6. /\ Sum(row, Promised) \in Nat
      /\ Sum(row, {"processed"}) \in Nat
      /\ Sum(row, Open) \in Nat
      /\ Sum(row, Promised) = Sum(row, {"processed"}) + Sum(row, Open)
  BY PromisedSum
<1>7. Sum(row, Open) >= row[r].amount
  BY <1>1, <1>4, <1>6, SumSplit
<1> QED
  BY <1>1, <1>4, <1>5, <1>6, <1>7

LEMMA MoneyStep ==
  ASSUME TypeInv, StatusFollowsMoney, RefundStep
  PROVE  StatusFollowsMoney'
<1> DEFINE P == Sum(row, {"processed"})
           A == Sum(row, Promised)
           P2 == Sum(row', {"processed"})
           A2 == Sum(row', Promised)
<1>1. /\ A <= Captured
      /\ status \in {"refunded", "cancelled"} => P = Captured
      /\ status = "refund_pending" => P < Captured /\ A = Captured
      /\ status \in {"confirmed", "refund_required"} => A < Captured
  BY DEF StatusFollowsMoney, Promised
<1>2. P \in Nat /\ A \in Nat /\ P <= A /\ P2 \in Nat /\ A2 \in Nat /\ P2 <= A2
  BY PromisedSum
<1>3. SUFFICES /\ A2 <= Captured
               /\ status' \in {"refunded", "cancelled"} => P2 = Captured
               /\ status' = "refund_pending" => P2 < Captured /\ A2 = Captured
               /\ status' \in {"confirmed", "refund_required"} => A2 < Captured
  BY DEF StatusFollowsMoney, Promised
<1>t. status \in OrderStatus /\ Captured \in Nat
  BY RowTypes DEF TypeInv, TypeOK
<1>4. CASE UNCHANGED <<status, row>>
  BY <1>1, <1>2, <1>4
<1>5. CASE Closes
  BY <1>1, <1>2, <1>5 DEF Closes
<1>6. ASSUME NEW r \in Refunds, NEW amount \in 1..Captured, NEW g \in Groups \cup {NoGroup},
             Requests(r, amount, g)
      PROVE  /\ A2 <= Captured
             /\ status' \in {"refunded", "cancelled"} => P2 = Captured
             /\ status' = "refund_pending" => P2 < Captured /\ A2 = Captured
             /\ status' \in {"confirmed", "refund_required"} => A2 < Captured
  <2>1. P2 = P /\ A2 = A + amount /\ A + amount <= Captured /\ amount > 0 /\ amount \in Nat
    BY <1>6, RequestSums
  <2>2. status \in {"confirmed", "refund_required"}
    BY <1>1, <1>2, <1>6, <1>t, <2>1 DEF Requests, Refundable
  <2>3. status' = ProjectOrderStatus(row')
    BY <1>6 DEF Requests
  <2>4. status' = IF A2 < Captured THEN status ELSE "refund_pending"
    <3>1. P2 < Captured
      BY <1>1, <1>2, <1>t, <2>1, <2>2
    <3> HIDE DEF P2, A2
    <3>2. CASE A2 < Captured
      BY <1>t, <2>2, <2>3, <3>2, Projected DEF A2
    <3>3. CASE A2 >= Captured
      BY <1>t, <1>2, <2>2, <2>3, <3>1, <3>3, Projected DEF A2, P2
    <3> QED
      BY <1>2, <1>t, <3>2, <3>3
  <2> HIDE DEF P, A, P2, A2
  <2> QED
    BY <1>1, <1>2, <1>t, <2>1, <2>2, <2>4
<1>7. ASSUME NEW r \in Refunds, NEW to \in RefundStatus, Moves(r, to)
      PROVE  /\ A2 <= Captured
             /\ status' \in {"refunded", "cancelled"} => P2 = Captured
             /\ status' = "refund_pending" => P2 < Captured /\ A2 = Captured
             /\ status' \in {"confirmed", "refund_required"} => A2 < Captured
  <2> DEFINE n == row[r].amount
  <2>1. /\ n \in Nat /\ n > 0
        /\ P2 = P + (IF to = "processed" THEN n ELSE 0)
        /\ A2 = A - (IF to \in Promised THEN 0 ELSE n)
        /\ A >= P + n
    BY <1>7, MoveSums
  <2> HIDE DEF n, P, A, P2, A2
  <2>2. A2 <= Captured /\ A2 <= A
    BY <1>1, <1>2, <1>t, <2>1
  <2>3. status \in {"confirmed", "refund_required", "refund_pending"}
    BY <1>1, <1>2, <1>t, <2>1 DEF OrderStatus
  <2>4. status' = ProjectOrderStatus(row')
    BY <1>7 DEF Moves
  <2>5. CASE P2 >= Captured
    <3>1. status' = "refunded"
      BY <1>t, <2>3, <2>4, <2>5, Projected DEF P2
    <3> QED
      BY <1>2, <1>t, <2>2, <2>5, <3>1
  <2>6. CASE P2 < Captured /\ A2 >= Captured
    <3>1. status' = "refund_pending"
      BY <1>t, <2>3, <2>4, <2>6, Projected DEF P2, A2
    <3> QED
      BY <1>2, <1>t, <2>2, <2>6, <3>1
  <2>7. CASE A2 < Captured
    <3>1. status' \in {"confirmed", "refund_required"}
      <4>1. CASE status = "refund_pending"
        BY <1>t, <2>4, <2>7, <4>1, Projected DEF A2
      <4>2. CASE status # "refund_pending"
        BY <1>t, <2>3, <2>4, <2>7, <4>2, Projected DEF A2
      <4> QED
        BY <4>1, <4>2
    <3> QED
      BY <2>7, <2>2, <3>1
  <2> QED
    BY <1>2, <1>t, <2>5, <2>6, <2>7
<1> QED
  BY <1>4, <1>5, <1>6, <1>7 DEF RefundStep

LEMMA GroupStep ==
  ASSUME TypeInv, GroupsWithinShare, RefundStep
  PROVE  GroupsWithinShare'
<1> SUFFICES ASSUME NEW h \in Groups
             PROVE  Sum(OfGroup(row', h), Promised) <= Share[h]
  BY DEF GroupsWithinShare, Promised
<1> DEFINE before == OfGroup(row, h)
           after == OfGroup(row', h)
<1>1. /\ row \in [Refunds -> Row]
      /\ row' \in [Refunds -> Row]
      /\ before \in [Refunds -> Row]
      /\ after \in [Refunds -> Row]
      /\ \A r \in Refunds : before[r] = (IF row[r].group = h THEN row[r] ELSE NoRow)
      /\ \A r \in Refunds : after[r] = (IF row'[r].group = h THEN row'[r] ELSE NoRow)
      /\ NoRow.amount = 0
      /\ NoRow.status = "none"
  BY RowsStep, RowTypes DEF TypeInv, TypeOK, OfGroup, NoRow
<1>2. /\ Sum(before, Promised) <= Share[h]
      /\ Sum(before, Promised) \in Nat
      /\ Sum(after, Promised) \in Nat
      /\ Share[h] \in Nat
  BY PromisedSum, RefundsAssumption DEF GroupsWithinShare, Promised
<1>3. ASSUME row' = row
      PROVE  Sum(after, Promised) <= Share[h]
  BY <1>2, <1>3
<1>s. ASSUME NEW r \in Refunds, \A q \in Refunds \ {r} : row'[q] = row[q]
      PROVE  /\ Sum(after, Promised) = Sum(before, Promised) - Contribution(before, Promised, r)
                                                            + Contribution(after, Promised, r)
             /\ Contribution(before, Promised, r) \in Nat
             /\ Contribution(after, Promised, r) \in Nat
  <2>1. \A q \in Refunds \ {r} : after[q] = before[q]
    BY <1>1, <1>s
  <2> HIDE DEF before, after
  <2> QED
    BY <1>1, <2>1, SumReplaced, SumSplit
<1>4. ASSUME NEW r \in Refunds, NEW amount \in 1..Captured, NEW g \in Groups \cup {NoGroup},
             Requests(r, amount, g)
      PROVE  Sum(after, Promised) <= Share[h]
  <2> DEFINE x == [status |-> "requested", amount |-> amount, group |-> g]
  <2>1. row' = [row EXCEPT ![r] = x] /\ row[r].status = "none"
    BY <1>4 DEF Requests
  <2>2. row'[r] = x /\ \A q \in Refunds \ {r} : row'[q] = row[q]
    BY <1>1, <2>1
  <2>3. Contribution(before, Promised, r) = 0
    BY <1>1, <2>1 DEF Contribution, Promised
  <2>4. Contribution(after, Promised, r) = IF g = h THEN amount ELSE 0
    BY <1>1, <2>2 DEF Contribution, Promised
  <2>5. g = h => amount <= Share[h] - Sum(before, Promised)
    BY <1>4 DEF Requests, GroupRemaining, Promised
  <2>6. amount \in Nat
    BY RowTypes
  <2> HIDE DEF before, after, x
  <2>7. Sum(after, Promised) = Sum(before, Promised) - 0 + (IF g = h THEN amount ELSE 0)
    BY <1>s, <2>2, <2>3, <2>4
  <2> QED
    BY <1>2, <2>5, <2>6, <2>7
<1>5. ASSUME NEW r \in Refunds, NEW to \in RefundStatus, Moves(r, to)
      PROVE  Sum(after, Promised) <= Share[h]
  <2>1. /\ row'[r] = [row[r] EXCEPT !.status = to]
        /\ \A q \in Refunds \ {r} : row'[q] = row[q]
    BY <1>1, <1>5 DEF Moves
  <2>2. /\ row'[r].group = row[r].group
        /\ row'[r].amount = row[r].amount
        /\ row[r].amount \in Nat
        /\ row[r].status \in Promised
    BY <1>1, <1>5, <2>1, RowTypes DEF Row, Moves, Open, Promised
  <2>3. Contribution(after, Promised, r) <= Contribution(before, Promised, r)
    BY <1>1, <2>2 DEF Contribution
  <2> HIDE DEF before, after
  <2> QED
    BY <1>2, <1>s, <2>1, <2>3
<1> QED
  BY <1>3, <1>4, <1>5 DEF RefundStep, Closes

MoneyInv == TypeInv /\ StatusFollowsMoney /\ GroupsWithinShare

LEMMA MoneyInvInit == Init => MoneyInv
<1> SUFFICES ASSUME Init PROVE MoneyInv
  OBVIOUS
<1>1. TypeInv
  BY TypeInvInit
<1>2. ASSUME NEW rows, \A r \in Refunds : rows[r] = NoRow
      PROVE  Sum(rows, Promised) = 0 /\ Sum(rows, {"processed"}) = 0
  <2>1. Units(rows, Promised) = {} /\ Units(rows, {"processed"}) = {}
    BY <1>2 DEF Units, NoRow, Promised
  <2> QED
    BY <2>1, FS_EmptySet DEF Sum
<1>3. \A r \in Refunds : row[r] = NoRow
  BY DEF Init
<1>4. \A g \in Groups : \A r \in Refunds : OfGroup(row, g)[r] = NoRow
  BY <1>3 DEF OfGroup
<1>5. StatusFollowsMoney
  BY <1>2, <1>3, RefundsAssumption DEF StatusFollowsMoney, Init, Promised
<1>6. GroupsWithinShare
  <2> SUFFICES ASSUME NEW g \in Groups PROVE Sum(OfGroup(row, g), Promised) <= Share[g]
    BY DEF GroupsWithinShare, Promised
  <2>1. Sum(OfGroup(row, g), Promised) = 0
    BY <1>2, <1>4
  <2> QED
    BY <2>1, RefundsAssumption
<1> QED
  BY <1>1, <1>5, <1>6 DEF MoneyInv

LEMMA MoneyInvStep == MoneyInv /\ [Next]_vars => MoneyInv' /\ RefundStep
BY TypeInvStep, RefundSteps, MoneyStep, GroupStep DEF MoneyInv

THEOREM MoneyCorrect == Spec => []MoneyInv
<1> QED
  BY MoneyInvInit, MoneyInvStep, PTL DEF Spec

(* In every state of every behaviour the order's status says where its     *)
(* money is (StatusFollowsMoney), however admins, sync passes and crashes  *)
(* interleave.                                                             *)
THEOREM StatusAlwaysFollowsMoney == Spec => []StatusFollowsMoney
<1>1. MoneyInv => StatusFollowsMoney
  BY DEF MoneyInv
<1> QED
  BY <1>1, MoneyCorrect, PTL

(* A vendor group's refunds never exceed what the group was paid           *)
(* (GroupsWithinShare).                                                    *)
THEOREM GroupsAlwaysWithinShare == Spec => []GroupsWithinShare
<1>1. MoneyInv => GroupsWithinShare
  BY DEF MoneyInv
<1> QED
  BY <1>1, MoneyCorrect, PTL

(* A settled refund is never moved again (SettledForGood), whatever stale  *)
(* answer a job still carries.                                             *)
THEOREM SettledRefundsStay == Spec => SettledForGood
<1>1. MoneyInv /\ [Next]_vars =>
        [\A r \in Refunds : row[r].status \in Settled => row'[r] = row[r]]_vars
  <2> SUFFICES ASSUME MoneyInv, [Next]_vars, NEW r \in Refunds, row[r].status \in Settled
               PROVE  row'[r] = row[r]
    OBVIOUS
  <2>1. RefundStep /\ row \in [Refunds -> Row]
    BY MoneyInvStep DEF MoneyInv, TypeInv, TypeOK
  <2>2. ASSUME NEW q \in Refunds, NEW amount \in 1..Captured, NEW g \in Groups \cup {NoGroup},
               Requests(q, amount, g)
        PROVE  row'[r] = row[r]
    BY <2>1, <2>2 DEF Requests, Settled
  <2>3. ASSUME NEW q \in Refunds, NEW to \in RefundStatus, Moves(q, to)
        PROVE  row'[r] = row[r]
    BY <2>1, <2>3 DEF Moves, Settled, Open
  <2> QED
    BY <2>1, <2>2, <2>3 DEF RefundStep, Closes
<1> QED
  BY <1>1, MoneyCorrect, PTL DEF Spec, SettledForGood

-----------------------------------------------------------------------------
(* The order's moves.                                                      *)

LEMMA StatusMoves ==
  ASSUME MoneyInv, RefundStep
  PROVE  \/ status' = status
         \/ <<status, status'>> \in Lifecycle!RefundMoves
         \/ Closes
<1> DEFINE P2 == Sum(row', {"processed"})
           A == Sum(row, Promised)
           A2 == Sum(row', Promised)
<1>1. /\ A <= Captured
      /\ status \in {"refunded", "cancelled"} => Sum(row, {"processed"}) = Captured
      /\ status = "refund_pending" => A = Captured
      /\ status \in {"confirmed", "refund_required"} => A < Captured
  BY DEF MoneyInv, StatusFollowsMoney, Promised
<1>2. /\ A \in Nat /\ P2 \in Nat /\ A2 \in Nat /\ P2 <= A2 /\ Captured \in Nat
      /\ Sum(row, {"processed"}) \in Nat /\ Sum(row, {"processed"}) <= A
  BY PromisedSum, RefundsAssumption
<1>t. TypeInv /\ status \in OrderStatus
  BY DEF MoneyInv, TypeInv, TypeOK
<1>3. ASSUME NEW r \in Refunds, NEW amount \in 1..Captured, NEW g \in Groups \cup {NoGroup},
             Requests(r, amount, g)
      PROVE  status' = status \/ <<status, status'>> \in Lifecycle!RefundMoves
  <2>a. P2 = Sum(row, {"processed"}) /\ A2 = A + amount /\ A + amount <= Captured /\ amount > 0
    BY <1>3, <1>t, RequestSums
  <2> HIDE DEF P2, A, A2
  <2>1. /\ status' = ProjectOrderStatus(row')
        /\ P2 = Sum(row, {"processed"})
        /\ A2 = A + amount /\ A2 <= Captured /\ amount > 0 /\ amount \in Nat
    BY <1>3, <2>a DEF Requests
  <2>2. status \in {"confirmed", "refund_required"} /\ P2 < Captured
    BY <1>1, <1>2, <1>t, <2>1 DEF OrderStatus
  <2>3. status' \in {status, "refund_pending"}
    <3>1. CASE A2 < Captured
      BY <1>t, <2>1, <2>2, <3>1, Projected DEF A2
    <3>2. CASE A2 >= Captured
      BY <1>t, <2>1, <2>2, <3>2, Projected DEF A2, P2
    <3> QED
      BY <1>2, <3>1, <3>2
  <2> QED
    BY <2>2, <2>3 DEF Lifecycle!RefundMoves
<1>4. ASSUME NEW r \in Refunds, NEW to \in RefundStatus, Moves(r, to)
      PROVE  status' = status \/ <<status, status'>> \in Lifecycle!RefundMoves
  <2>1. /\ status' = ProjectOrderStatus(row')
        /\ row[r].amount \in Nat /\ row[r].amount > 0
        /\ A2 = A - (IF to \in Promised THEN 0 ELSE row[r].amount)
        /\ A >= Sum(row, {"processed"}) + row[r].amount
    BY <1>4, <1>t, MoveSums DEF Moves
  <2> HIDE DEF P2, A, A2
  <2>2. status \in {"confirmed", "refund_required", "refund_pending"} /\ A2 <= A
    BY <1>1, <1>2, <1>t, <2>1 DEF OrderStatus
  <2>3. CASE A2 >= Captured
    <3>1. status = "refund_pending"
      BY <1>1, <1>2, <2>2, <2>3
    <3>2. status' \in {"refunded", "refund_pending"}
      <4>1. CASE P2 >= Captured
        BY <1>t, <2>1, <3>1, <4>1, Projected DEF P2
      <4>2. CASE P2 < Captured
        BY <1>t, <2>1, <2>3, <3>1, <4>2, Projected DEF P2, A2
      <4> QED
        BY <1>2, <4>1, <4>2
    <3> QED
      BY <3>1, <3>2 DEF Lifecycle!RefundMoves
  <2>4. CASE A2 < Captured
    <3>1. CASE status = "refund_pending"
      <4>1. status' = "refund_required"
        BY <1>t, <2>1, <2>4, <3>1, Projected DEF A2
      <4> QED
        BY <3>1, <4>1 DEF Lifecycle!RefundMoves
    <3>2. CASE status # "refund_pending"
      BY <1>t, <2>1, <2>2, <2>4, <3>2, Projected DEF A2
    <3> QED
      BY <3>1, <3>2
  <2> QED
    BY <1>2, <2>3, <2>4
<1> QED
  BY <1>3, <1>4 DEF RefundStep

(* Every step of the refunds is a refund move of the order's lifecycle, the*)
(* closing of a refunded order, or invisible to it (MovesAsPromised).      *)
THEOREM RefundsMoveAsPromised == Spec => MovesAsPromised
<1>1. MoneyInv /\ [Next]_vars => [Lifecycle!LifecycleNext \/ UNCHANGED status]_vars
  <2> SUFFICES ASSUME MoneyInv, [Next]_vars, status' # status
               PROVE  Lifecycle!LifecycleNext
    OBVIOUS
  <2> DEFINE before == [o \in {"order"} |-> status]
             after == [o \in {"order"} |-> status']
  <2>1. /\ before["order"] = status
        /\ \A s : [before EXCEPT !["order"] = s] = [o \in {"order"} |-> s]
    OBVIOUS
  <2>2. status' \in Lifecycle!Status
    BY MoneyInvStep DEF MoneyInv, TypeInv, TypeOK, OrderStatus, Lifecycle!Status
  <2>3. CASE <<status, status'>> \in Lifecycle!RefundMoves
    <3>1. Lifecycle!RefundMove("order", status')
      BY <2>1, <2>3 DEF Lifecycle!RefundMove, Lifecycle!SetStatus
    <3> QED
      BY <2>2, <3>1 DEF Lifecycle!LifecycleNext
  <2>4. CASE Closes
    <3>1. Lifecycle!Close("order")
      BY <2>1, <2>4 DEF Closes, Lifecycle!Close, Lifecycle!SetStatus
    <3> QED
      BY <3>1 DEF Lifecycle!LifecycleNext
  <2> QED
    BY <2>3, <2>4, StatusMoves, MoneyInvStep
<1> QED
  BY <1>1, MoneyCorrect, PTL DEF Spec, MovesAsPromised

-----------------------------------------------------------------------------
(* What Razorpay holds.                                                    *)

Dead == {"failed", "refused"}

(* A settled row, and an answer on its way to a row, agree with Razorpay;  *)
(* a key that was turned down is no longer unknown to it.                  *)
ProviderInv ==
  /\ \A r \in Refunds :
       /\ row[r].status = "processed" => provider[r] = "processed"
       /\ row[r].status = "failed" => provider[r] \in Dead
  /\ \A w \in Workers :
       /\ job[w].pc = "verify" => provider[job[w].refund] # "none"
       /\ job[w].pc = "write" /\ job[w].to = "processed" =>
            provider[job[w].refund] = "processed"
       /\ job[w].pc = "write" /\ job[w].to = "failed" => provider[job[w].refund] \in Dead

(* A refund Razorpay knows is never forgotten, a final one never changes.  *)
LEMMA ProviderStays ==
  ASSUME TypeInv, [Next]_vars, NEW r \in Refunds
  PROVE  /\ provider[r] # "none" => provider'[r] # "none"
         /\ provider[r] \in Held => provider'[r] \in Held
         /\ provider[r] \in {"processed", "failed", "refused"} => provider'[r] = provider[r]
<1>t. provider \in [Refunds -> ProviderStatus]
  BY DEF TypeInv, TypeOK
<1>1. ASSUME NEW w \in Workers, RefundAccepted(w) \/ RefundRefused(w)
      PROVE  /\ provider[r] # "none" => provider'[r] # "none"
             /\ provider[r] \in Held => provider'[r] \in Held
             /\ provider[r] \in {"processed", "failed", "refused"} => provider'[r] = provider[r]
  BY <1>1, <1>t DEF RefundAccepted, RefundRefused, Held
<1>2. ASSUME NEW q \in Refunds, LateRequest(q) \/ ProviderSettles(q)
      PROVE  /\ provider[r] # "none" => provider'[r] # "none"
             /\ provider[r] \in Held => provider'[r] \in Held
             /\ provider[r] \in {"processed", "failed", "refused"} => provider'[r] = provider[r]
  BY <1>2, <1>t DEF LateRequest, ProviderSettles, Held, Settled
<1>3. \/ UNCHANGED provider
      \/ \E w \in Workers : RefundAccepted(w) \/ RefundRefused(w)
      \/ \E q \in Refunds : LateRequest(q) \/ ProviderSettles(q)
  BY DEF Next, vars, Age, SyncPicked, RequestRefund, RefundUnanswered, LookupFound, LookupEmpty,
         ProviderUnavailable, SyncSubmitted, TransitionRefund, Crash, CloseRefunded
<1> QED
  BY <1>1, <1>2, <1>3

(* The part of ProviderInv that speaks about one job.                      *)
JobAgrees(w) ==
  /\ job[w].pc = "verify" => provider[job[w].refund] # "none"
  /\ job[w].pc = "write" /\ job[w].to = "processed" => provider[job[w].refund] = "processed"
  /\ job[w].pc = "write" /\ job[w].to = "failed" => provider[job[w].refund] \in Dead

LEMMA JobStillAgrees ==
  ASSUME TypeInv, [Next]_vars, NEW w \in Workers, JobAgrees(w), job'[w] = job[w]
  PROVE  JobAgrees(w)'
<1>1. CASE job[w].pc = "idle"
  BY <1>1 DEF JobAgrees
<1>2. CASE job[w].pc # "idle"
  <2>1. job[w].refund \in Refunds
    BY <1>2 DEF TypeInv, JobsOK
  <2> QED
    BY <2>1, ProviderStays DEF JobAgrees, Dead
<1> QED
  BY <1>1, <1>2

(* A job changes only by a step of its own worker.                         *)
MovedByOwnStep(w) ==
  \/ \E r \in Refunds : SyncPicked(w, r)
  \/ \E r \in Refunds, amount \in 1..Captured, g \in Groups \cup {NoGroup} :
       RequestRefund(w, r, amount, g)
  \/ RefundAccepted(w) \/ RefundUnanswered(w) \/ RefundRefused(w)
  \/ LookupFound(w) \/ LookupEmpty(w) \/ ProviderUnavailable(w)
  \/ SyncSubmitted(w) \/ TransitionRefund(w) \/ Crash(w)

LEMMA OnlyOwnStepsMove ==
  ASSUME job \in [Workers -> Job], [Next]_vars, NEW w \in Workers, job'[w] # job[w]
  PROVE  MovedByOwnStep(w)
<1>1. ASSUME NEW x \in Workers, NEW r \in Refunds,
             \/ SyncPicked(x, r)
             \/ \E amount \in 1..Captured, g \in Groups \cup {NoGroup} : RequestRefund(x, r, amount, g)
      PROVE  x = w
  BY <1>1 DEF SyncPicked, RequestRefund
<1>2. ASSUME NEW x \in Workers,
             \/ RefundAccepted(x) \/ RefundUnanswered(x) \/ RefundRefused(x)
             \/ LookupFound(x) \/ LookupEmpty(x) \/ ProviderUnavailable(x)
             \/ SyncSubmitted(x) \/ TransitionRefund(x) \/ Crash(x)
      PROVE  x = w
  BY <1>2 DEF RefundAccepted, RefundUnanswered, RefundRefused, LookupFound, LookupEmpty,
       ProviderUnavailable, SyncSubmitted, TransitionRefund, Crash, Goto, Write, Submit, Finish
<1>3. \/ \E x \in Workers, r \in Refunds :
           \/ SyncPicked(x, r)
           \/ \E amount \in 1..Captured, g \in Groups \cup {NoGroup} : RequestRefund(x, r, amount, g)
      \/ \E x \in Workers :
           \/ RefundAccepted(x) \/ RefundUnanswered(x) \/ RefundRefused(x)
           \/ LookupFound(x) \/ LookupEmpty(x) \/ ProviderUnavailable(x)
           \/ SyncSubmitted(x) \/ TransitionRefund(x) \/ Crash(x)
  BY DEF Next, vars, Age, LateRequest, ProviderSettles, CloseRefunded
<1> QED
  BY <1>1, <1>2, <1>3 DEF MovedByOwnStep

LEMMA JobsAgreeStep ==
  ASSUME TypeInv, RejectionFinal, [Next]_vars, \A w \in Workers : JobAgrees(w)
  PROVE  \A w \in Workers : JobAgrees(w)'
<1> SUFFICES ASSUME NEW w \in Workers, job'[w] # job[w]
             PROVE  JobAgrees(w)'
  BY JobStillAgrees
<1>t. /\ job \in [Workers -> Job]
      /\ provider \in [Refunds -> ProviderStatus]
      /\ JobAgrees(w)
      /\ job[w].pc # "idle" => job[w].refund \in Refunds
  BY DEF TypeInv, TypeOK, JobsOK
<1>3. ASSUME RefundAccepted(w)
      PROVE  JobAgrees(w)'
  <2> DEFINE r == job[w].refund
  <2>1. /\ r \in Refunds
        /\ job'[w].pc = "write" /\ job'[w].refund = r /\ job'[w].to = RecordedAs(provider'[r])
    BY <1>3, <1>t DEF RefundAccepted, Write, Job
  <2>2. /\ RecordedAs(provider'[r]) = "processed" => provider'[r] = "processed"
        /\ RecordedAs(provider'[r]) = "failed" => provider'[r] = "failed"
    BY DEF RecordedAs, Settled
  <2> HIDE DEF r
  <2> QED
    BY <2>1, <2>2 DEF JobAgrees, Dead
<1>4. ASSUME LookupFound(w)
      PROVE  JobAgrees(w)'
  <2> DEFINE r == job[w].refund
  <2>1. /\ job'[w].pc = "write" /\ job'[w].refund = r /\ job'[w].to = RecordedAs(provider[r])
        /\ provider' = provider
    BY <1>4, <1>t DEF LookupFound, Write, Job
  <2>2. /\ RecordedAs(provider[r]) = "processed" => provider[r] = "processed"
        /\ RecordedAs(provider[r]) = "failed" => provider[r] = "failed"
    BY DEF RecordedAs, Settled
  <2> HIDE DEF r
  <2> QED
    BY <2>1, <2>2 DEF JobAgrees, Dead
<1>5. ASSUME RefundRefused(w)
      PROVE  JobAgrees(w)'
  <2>1. /\ job[w].refund \in Refunds
        /\ job'[w].pc = "verify" /\ job'[w].refund = job[w].refund
    BY <1>5, <1>t DEF RefundRefused, Goto, Job
  <2>2. provider'[job[w].refund] # "none"
    BY <1>5, <1>t, <2>1 DEF RefundRefused
  <2> QED
    BY <2>1, <2>2 DEF JobAgrees
<1>6. ASSUME LookupEmpty(w)
      PROVE  JobAgrees(w)'
  <2>1. CASE job[w].pc = "verify" /\ Write(w, "requested", "failed")
    <3>1. /\ job[w].refund \in Refunds
          /\ job'[w].pc = "write" /\ job'[w].refund = job[w].refund /\ job'[w].to = "failed"
          /\ provider' = provider
      BY <1>6, <1>t, <2>1 DEF LookupEmpty, Write, Job
    <3>2. provider[job[w].refund] \in Dead
      BY <1>6, <1>t, <2>1, <3>1 DEF LookupEmpty, JobAgrees, ProviderStatus, Held, Dead
    <3> QED
      BY <3>1, <3>2 DEF JobAgrees
  <2>2. CASE Submit(w)
    BY <1>t, <2>2 DEF Submit, JobAgrees, Job
  <2>3. CASE Finish(w)
    BY <1>t, <2>3 DEF Finish, NoJob, JobAgrees
  <2> QED
    BY <1>6, <2>1, <2>2, <2>3 DEF LookupEmpty
<1>7. ASSUME SyncSubmitted(w)
      PROVE  JobAgrees(w)'
  <2>1. CASE Finish(w)
    BY <1>t, <2>1 DEF Finish, NoJob, JobAgrees
  <2>2. CASE Write(w, "submitted", provider[job[w].refund])
    <3>1. /\ job'[w].pc = "write" /\ job'[w].refund = job[w].refund
          /\ job'[w].to = provider[job[w].refund]
          /\ provider' = provider
      BY <1>7, <1>t, <2>2 DEF SyncSubmitted, Write, Job
    <3> QED
      BY <3>1 DEF JobAgrees, Dead
  <2> QED
    BY <1>7, <2>1, <2>2 DEF SyncSubmitted
<1>8. ASSUME ProviderUnavailable(w) \/ TransitionRefund(w) \/ Crash(w)
      PROVE  JobAgrees(w)'
  <2>1. CASE Submit(w)
    BY <1>t, <2>1 DEF Submit, JobAgrees, Job
  <2>2. CASE Finish(w)
    BY <1>t, <2>2 DEF Finish, NoJob, JobAgrees
  <2> QED
    BY <1>8, <2>1, <2>2 DEF ProviderUnavailable, TransitionRefund, Crash
<1>9. ASSUME RefundUnanswered(w)
      PROVE  JobAgrees(w)'
  BY <1>9, <1>t DEF RefundUnanswered, Goto, JobAgrees, Job
<1>10. ASSUME NEW r \in Refunds,
              \/ SyncPicked(w, r)
              \/ \E amount \in 1..Captured, g \in Groups \cup {NoGroup} : RequestRefund(w, r, amount, g)
       PROVE  JobAgrees(w)'
  BY <1>10, <1>t DEF SyncPicked, RequestRefund, NoJob, JobAgrees
<1>11. MovedByOwnStep(w)
  BY OnlyOwnStepsMove DEF TypeInv, TypeOK
<1> QED
  BY <1>3, <1>4, <1>5, <1>6, <1>7, <1>8, <1>9, <1>10, <1>11 DEF MovedByOwnStep

(* Only the request that makes a row and the write of an answer change its *)
(* status.                                                                 *)
LEMMA StatusWriters ==
  ASSUME TypeInv, [Next]_vars, NEW r \in Refunds, row'[r].status # row[r].status
  PROVE  \/ row'[r].status = "requested"
         \/ /\ provider' = provider
            /\ \E w \in Workers :
                 job[w].pc = "write" /\ job[w].refund = r /\ row'[r].status = job[w].to
<1>t. row \in [Refunds -> Row] /\ job \in [Workers -> Job]
  BY DEF TypeInv, TypeOK
<1>1. \/ \E w \in Workers, q \in Refunds, amount \in 1..Captured, g \in Groups \cup {NoGroup} :
           RequestRefund(w, q, amount, g)
      \/ \E w \in Workers : TransitionRefund(w)
  BY DEF Next, vars, Age, LateRequest, ProviderSettles, CloseRefunded, SyncPicked,
       RefundAccepted, RefundUnanswered, RefundRefused, LookupFound, LookupEmpty,
       ProviderUnavailable, SyncSubmitted, Crash
<1>2. ASSUME NEW w \in Workers, NEW q \in Refunds, NEW amount \in 1..Captured,
             NEW g \in Groups \cup {NoGroup}, RequestRefund(w, q, amount, g)
      PROVE  row'[r].status = "requested"
  BY <1>t, <1>2 DEF RequestRefund
<1>3. ASSUME NEW w \in Workers, TransitionRefund(w)
      PROVE  /\ provider' = provider
             /\ job[w].pc = "write" /\ job[w].refund = r /\ row'[r].status = job[w].to
  <2>1. job[w].pc = "write" /\ provider' = provider
    BY <1>3 DEF TransitionRefund
  <2>2. row' = [row EXCEPT ![job[w].refund].status = job[w].to]
    BY <1>3 DEF TransitionRefund
  <2>3. \A q \in Refunds : q # job[w].refund => row'[q] = row[q]
    BY <1>t, <2>2
  <2>4. job[w].refund = r
    BY <2>3
  <2> QED
    BY <1>t, <2>1, <2>2, <2>4 DEF Row
<1> QED
  BY <1>1, <1>2, <1>3

LEMMA ProviderInvStep ==
  ASSUME TypeInv, RejectionFinal, [Next]_vars, ProviderInv
  PROVE  ProviderInv'
<1>1. \A w \in Workers : JobAgrees(w)'
  BY JobsAgreeStep DEF ProviderInv, JobAgrees
<1>2. ASSUME NEW r \in Refunds
      PROVE  /\ row'[r].status = "processed" => provider'[r] = "processed"
             /\ row'[r].status = "failed" => provider'[r] \in Dead
  <2>1. CASE row'[r].status = row[r].status
    BY <2>1, ProviderStays DEF ProviderInv, Dead
  <2>2. CASE row'[r].status # row[r].status
    BY <2>2, StatusWriters DEF ProviderInv
  <2> QED
    BY <2>1, <2>2
<1> QED
  BY <1>1, <1>2 DEF ProviderInv, JobAgrees

LEMMA ProviderInvInit == Init => ProviderInv
<1> SUFFICES ASSUME Init PROVE ProviderInv
  OBVIOUS
<1>1. \A r \in Refunds : row[r].status = "none"
  BY DEF Init, NoRow
<1>2. \A w \in Workers : job[w].pc = "idle"
  BY DEF Init, NoJob
<1> QED
  BY <1>1, <1>2 DEF ProviderInv

LEMMA PaidIsPromised ==
  ASSUME MoneyInv, ProviderInv
  PROVE  PaidWithinCapture
<1> DEFINE live == {u \in Refunds \X (1..Captured) :
                      provider[u[1]] \in {"pending", "processed"} /\ u[2] <= row[u[1]].amount}
<1>1. live \subseteq Units(row, Promised)
  <2> SUFFICES ASSUME NEW u \in live
               PROVE  row[u[1]].status \in Promised
    BY DEF Units
  <2>1. /\ u[1] \in Refunds
        /\ u[2] \in 1..Captured
        /\ u[2] <= row[u[1]].amount
        /\ provider[u[1]] \notin Dead
    BY DEF Dead
  <2>2. row[u[1]] \in Row
    BY <2>1 DEF MoneyInv, TypeInv, TypeOK
  <2>3. row[u[1]].amount > 0
    BY <2>1, <2>2, RowTypes DEF Row
  <2>4. row[u[1]].status # "none"
    BY <2>1, <2>3 DEF MoneyInv, TypeInv, AmountsOK
  <2>5. row[u[1]].status # "failed"
    BY <2>1 DEF ProviderInv
  <2> QED
    BY <2>2, <2>4, <2>5 DEF Row, RefundStatus, Promised
<1>2. Cardinality(live) <= Sum(row, Promised)
  BY <1>1, UnitsFinite, FS_Subset DEF Sum
<1>3. Sum(row, Promised) <= Captured
  BY DEF MoneyInv, StatusFollowsMoney, Promised
<1>4. live \in SUBSET Units(row, Promised)
  BY <1>1
<1>5. Cardinality(live) \in Nat
  BY <1>4, UnitsFinite, FS_Subset, FS_CardinalityType
<1>6. Cardinality(live) <= Captured
  BY <1>2, <1>3, <1>5, PromisedSum, RefundsAssumption
<1> QED
  BY <1>6 DEF PaidWithinCapture, ProviderInv

(* If a key Razorpay has turned down stays turned down, a processed row    *)
(* was paid out and no more than the capture is ever paid or on its way    *)
(* (PaidWithinCapture).                                                    *)
THEOREM PaidAlwaysWithinCapture ==
  ASSUME RejectionFinal
  PROVE  Spec => []PaidWithinCapture
<1>1. Init => MoneyInv /\ ProviderInv
  BY MoneyInvInit, ProviderInvInit
<1>2. MoneyInv /\ ProviderInv /\ [Next]_vars => MoneyInv' /\ ProviderInv'
  BY MoneyInvStep, ProviderInvStep DEF MoneyInv
<1>3. MoneyInv /\ ProviderInv => PaidWithinCapture
  BY PaidIsPromised
<1> QED
  BY <1>1, <1>2, <1>3, PTL DEF Spec
-----------------------------------------------------------------------------
(* What the table says of Razorpay, whatever Razorpay does with a key it   *)
(* has turned down.                                                        *)

RowTrue(r) ==
  /\ row[r].status = "submitted" => provider[r] \in Held
  /\ row[r].status = "processed" => provider[r] = "processed"

JobTrue(w) ==
  /\ job[w].pc = "fetch" => provider[job[w].refund] \in Held
  /\ job[w].pc = "write" /\ job[w].to = "submitted" => provider[job[w].refund] \in Held
  /\ job[w].pc = "write" /\ job[w].to = "processed" => provider[job[w].refund] = "processed"

RecordInv ==
  /\ \A r \in Refunds : RowTrue(r)
  /\ \A w \in Workers : JobTrue(w)

(* What an answer is recorded as says no more than the answer.             *)
LEMMA RecordedTrue ==
  ASSUME NEW s \in Held
  PROVE  RecordedAs(s) = "processed" => s = "processed"
BY DEF RecordedAs, Settled, Held

LEMMA JobsTrueStep ==
  ASSUME TypeInv, RecordInv, [Next]_vars, NEW w \in Workers
  PROVE  JobTrue(w)'
<1>t. /\ job \in [Workers -> Job]
      /\ provider \in [Refunds -> ProviderStatus]
      /\ JobTrue(w)
      /\ job[w].pc # "idle" => job[w].refund \in Refunds
  BY DEF TypeInv, TypeOK, JobsOK, RecordInv
<1>1. CASE job'[w] = job[w]
  <2>1. CASE job[w].pc = "idle"
    BY <1>1, <2>1 DEF JobTrue
  <2>2. CASE job[w].pc # "idle"
    BY <1>1, <1>t, <2>2, ProviderStays DEF JobTrue
  <2> QED
    BY <2>1, <2>2
<1>2. CASE job'[w] # job[w]
  <2>0. MovedByOwnStep(w)
    BY <1>2, <1>t, OnlyOwnStepsMove
  <2>1. ASSUME RefundAccepted(w) \/ LookupFound(w)
        PROVE  JobTrue(w)'
    <3> DEFINE r == job[w].refund
    <3>1. /\ job'[w].pc = "write" /\ job'[w].refund = r
          /\ job'[w].to = RecordedAs(provider'[r])
          /\ provider'[r] \in Held
      BY <1>t, <2>1 DEF RefundAccepted, LookupFound, Write, Job
    <3> HIDE DEF r
    <3> QED
      BY <3>1, RecordedTrue DEF JobTrue
  <2>2. ASSUME SyncSubmitted(w)
        PROVE  JobTrue(w)'
    <3>1. CASE Finish(w)
      BY <1>t, <3>1 DEF Finish, NoJob, JobTrue
    <3>2. CASE /\ provider[job[w].refund] \in Settled
               /\ Write(w, "submitted", provider[job[w].refund])
      <4>1. /\ job'[w].pc = "write" /\ job'[w].refund = job[w].refund
            /\ job'[w].to = provider[job[w].refund]
            /\ provider' = provider
        BY <1>t, <2>2, <3>2 DEF SyncSubmitted, Write, Job
      <4> QED
        BY <3>2, <4>1 DEF JobTrue, Settled
    <3> QED
      BY <2>2, <3>1, <3>2 DEF SyncSubmitted
  <2>3. ASSUME LookupEmpty(w) \/ ProviderUnavailable(w) \/ TransitionRefund(w) \/ Crash(w)
        PROVE  JobTrue(w)'
    <3>1. CASE Submit(w)
      BY <1>t, <3>1 DEF Submit, JobTrue, Job
    <3>2. CASE Finish(w)
      BY <1>t, <3>2 DEF Finish, NoJob, JobTrue
    <3>3. CASE Write(w, "requested", "failed")
      BY <1>t, <3>3 DEF Write, JobTrue, Job
    <3> QED
      BY <2>3, <3>1, <3>2, <3>3 DEF LookupEmpty, ProviderUnavailable, TransitionRefund, Crash
  <2>4. ASSUME RefundUnanswered(w) \/ RefundRefused(w)
        PROVE  JobTrue(w)'
    BY <1>t, <2>4 DEF RefundUnanswered, RefundRefused, Goto, JobTrue, Job
  <2>5. ASSUME NEW r \in Refunds, SyncPicked(w, r)
        PROVE  JobTrue(w)'
    <3>1. row[r].status # "requested" => provider[r] \in Held
      BY <2>5 DEF SyncPicked, RecordInv, RowTrue, Open
    <3>2. /\ job'[w].refund = r /\ provider' = provider
          /\ job'[w].pc = IF row[r].status = "requested" THEN "lookup" ELSE "fetch"
      BY <1>t, <2>5 DEF SyncPicked, NoJob
    <3> QED
      BY <3>1, <3>2 DEF JobTrue
  <2>6. ASSUME NEW r \in Refunds, NEW amount \in 1..Captured, NEW g \in Groups \cup {NoGroup},
               RequestRefund(w, r, amount, g)
        PROVE  JobTrue(w)'
    BY <1>t, <2>6 DEF RequestRefund, NoJob, JobTrue
  <2> QED
    BY <2>0, <2>1, <2>2, <2>3, <2>4, <2>5, <2>6 DEF MovedByOwnStep
<1> QED
  BY <1>1, <1>2

LEMMA RecordInvStep ==
  ASSUME TypeInv, RecordInv, [Next]_vars
  PROVE  RecordInv'
<1>1. \A w \in Workers : JobTrue(w)'
  BY JobsTrueStep
<1>2. ASSUME NEW r \in Refunds
      PROVE  RowTrue(r)'
  <2>1. CASE row'[r].status = row[r].status
    BY <2>1, ProviderStays DEF RecordInv, RowTrue
  <2>2. CASE row'[r].status # row[r].status
    <3>1. CASE row'[r].status = "requested"
      BY <3>1 DEF RowTrue
    <3>2. ASSUME NEW w \in Workers, provider' = provider,
                 job[w].pc = "write" /\ job[w].refund = r /\ row'[r].status = job[w].to
          PROVE  RowTrue(r)'
      BY <3>2 DEF RecordInv, JobTrue, RowTrue
    <3> QED
      BY <2>2, <3>1, <3>2, StatusWriters
  <2> QED
    BY <2>1, <2>2
<1> QED
  BY <1>1, <1>2 DEF RecordInv

(* Whatever answers were lost, late or doubled, and even if Razorpay makes *)
(* a refund for a key it has turned down: a row marked submitted is one    *)
(* Razorpay holds, and a row marked processed one it has paid out.         *)
THEOREM RecordsAreTrue == Spec => []\A r \in Refunds : RowTrue(r)
<1>1. Init => TypeInv /\ RecordInv
  <2> SUFFICES ASSUME Init PROVE RecordInv
    BY MoneyInvInit DEF MoneyInv
  <2>1. \A r \in Refunds : row[r].status = "none"
    BY DEF Init, NoRow
  <2>2. \A w \in Workers : job[w].pc = "idle"
    BY DEF Init, NoJob
  <2> QED
    BY <2>1, <2>2 DEF RecordInv, RowTrue, JobTrue
<1>2. TypeInv /\ RecordInv /\ [Next]_vars => TypeInv' /\ RecordInv'
  BY TypeInvStep, RecordInvStep
<1>3. RecordInv => \A r \in Refunds : RowTrue(r)
  BY DEF RecordInv
<1> QED
  BY <1>1, <1>2, <1>3, PTL DEF Spec
=============================================================================
