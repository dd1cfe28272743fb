------------------------ MODULE HireRequests_proofs ------------------------
(***************************************************************************)
(* Proofs about HireRequests, for any number of requests, customer and     *)
(* ustaad pairs and concurrent calls.                                      *)
(***************************************************************************)
EXTENDS HireRequests, TLAPS

Answers == {"accept", "decline", "start", "complete"}

Cancels == {"cancel", "artisan_cancel"}

(* What a call has made sure of at each of its steps.                      *)
Fits(j, st, resp) ==
  /\ j.pc \notin {"idle", "notify", "notify_each"} => j.request \in Requests
  /\ j.pc = "insert" => st[j.request] = "none"
  /\ j.pc \in Answers => \A n \in j.notices : n = To("customer", j.request, OutcomeOf(j.pc))
  /\ j.pc \in Cancels => \A n \in j.notices : n.request = j.request /\ n.status = "CANCELLED"
  /\ j.pc \in {"notify", "notify_each"} => \A n \in j.notices :
       /\ n.status \in EndStatus => st[n.request] = n.status
       /\ n.status \in Attributable => n.request \in resp
  /\ j.pc \in {"estimate", "reconfirm", "attribute"} =>
       j.request \in resp /\ st[j.request] \in Attributable \cup {"CANCELLED"}

JobsFit == \A w \in Workers : Fits(job[w], status, responded)

InsertsApart ==
  \A v, w \in Workers : v # w /\ job[v].pc = "insert" => job[w].request # job[v].request

IInv == TypeOK /\ JobsFit /\ InsertsApart /\ GateKept /\ OneOpenPerPair /\ AcceptedFirst

-----------------------------------------------------------------------------
(* Types.                                                                  *)

Statuses == {"none", "PENDING_ADMIN_REVIEW", "ADMIN_REJECTED", "PENDING_ARTISAN_RESPONSE",
             "ARTISAN_DECLINED", "EXPIRED", "ACCEPTED_BY_ARTISAN", "IN_PROGRESS",
             "COMPLETED", "CANCELLED"}

LEMMA StatusNames ==
  /\ Status = Statuses
  /\ OpenStatus = {"PENDING_ADMIN_REVIEW", "PENDING_ARTISAN_RESPONSE",
                   "ACCEPTED_BY_ARTISAN", "IN_PROGRESS"}
  /\ EndStatus = {"ADMIN_REJECTED", "ARTISAN_DECLINED", "EXPIRED", "COMPLETED", "CANCELLED"}
BY DEF Status, Statuses, OpenStatus, EndStatus, Lifecycle!Status, Lifecycle!OpenStatus,
       Lifecycle!EndStatus

LEMMA NoJobType == NoJob \in Job
BY DEF NoJob, Job, JobStep

LEMMA NoticeType ==
  ASSUME NEW p \in {"customer", "artisan"}, NEW r \in Requests, NEW s \in Status \ {"none"}
  PROVE  To(p, r, s) \in Notice
BY DEF To, Notice

LEMMA OutcomeType ==
  ASSUME NEW pc \in Answers
  PROVE  OutcomeOf(pc) \in Status \ {"none"}
BY StatusNames DEF OutcomeOf, Statuses, Answers

LEMMA BeginType ==
  ASSUME job \in [Workers -> Job], NEW w \in Workers, NEW pc \in JobStep,
         NEW r \in Requests \cup {NoRequest}, NEW notices \in SUBSET Notice,
         Begin(w, pc, r, notices)
  PROVE  job' \in [Workers -> Job]
BY DEF Begin, Job

LEMMA FinishType ==
  ASSUME job \in [Workers -> Job], NEW w \in Workers, Finish(w)
  PROVE  job' \in [Workers -> Job]
BY NoJobType DEF Finish

LEMMA GotoType ==
  ASSUME job \in [Workers -> Job], NEW w \in Workers, NEW pc \in JobStep, Goto(w, pc)
  PROVE  job' \in [Workers -> Job]
<1>1. [job[w] EXCEPT !.pc = pc] \in Job
  BY DEF Job
<1> QED
  BY <1>1 DEF Goto

LEMMA ClaimType ==
  ASSUME TypeOK, NEW w \in Workers, NEW from, NEW s \in Status,
         job[w].request \in Requests, ClaimTransition(w, from, s)
  PROVE  status' \in [Requests -> Status] /\ job' \in [Workers -> Job]
<1>1. CASE status[job[w].request] \in from
  <2>1. status' \in [Requests -> Status]
    BY <1>1 DEF ClaimTransition, SetStatus, TypeOK
  <2>2. job' \in [Workers -> Job]
    BY <1>1, GotoType DEF ClaimTransition, TypeOK, JobStep
  <2> QED
    BY <2>1, <2>2
<1>2. CASE status[job[w].request] \notin from
  BY <1>2, FinishType DEF ClaimTransition, TypeOK
<1> QED
  BY <1>1, <1>2

LEMMA TypeStep ==
  ASSUME TypeOK, JobsFit, Next
  PROVE  TypeOK'
<1> USE DEF rows
<1>1. ASSUME NEW r \in Requests, Age(r)
      PROVE  TypeOK'
  BY <1>1 DEF Age, TypeOK
<1>2. ASSUME NEW w \in Workers, NEW r \in Requests, CreateChecked(w, r)
      PROVE  TypeOK'
  <2>1. job' \in [Workers -> Job]
    BY <1>2, BeginType DEF CreateChecked, TypeOK, JobStep
  <2> QED
    BY <1>2, <2>1 DEF CreateChecked, TypeOK
<1>3. ASSUME NEW w \in Workers, NEW r \in Requests,
             NEW s \in {"PENDING_ARTISAN_RESPONSE", "ADMIN_REJECTED"}, ReviewRequest(w, r, s)
      PROVE  TypeOK'
  <2>1. s \in Status \ {"none"}
    BY StatusNames DEF Statuses
  <2>2. {To("artisan", r, s)} \in SUBSET Notice
    BY <2>1, NoticeType
  <2>3. job' \in [Workers -> Job]
    BY <1>3, <2>2, BeginType DEF ReviewRequest, TypeOK, JobStep
  <2> QED
    BY <1>3, <2>1, <2>3 DEF ReviewRequest, SetStatus, TypeOK
<1>4. ASSUME NEW w \in Workers, NEW r \in Requests, NEW pc \in Answers, ArtisanCalls(w, r, pc)
      PROVE  TypeOK'
  <2>1. {To("customer", r, OutcomeOf(pc))} \in SUBSET Notice
    BY OutcomeType, NoticeType
  <2>2. pc \in JobStep
    BY DEF Answers, JobStep
  <2>3. job' \in [Workers -> Job]
    BY <1>4, <2>1, <2>2, BeginType DEF ArtisanCalls, TypeOK
  <2> QED
    BY <1>4, <2>3 DEF ArtisanCalls, TypeOK
<1>5. ASSUME NEW w \in Workers, NEW r \in Requests, NEW role \in Role, CancelCalled(w, r, role)
      PROVE  TypeOK'
  <2> DEFINE pc == IF role = "artisan" THEN "artisan_cancel" ELSE "cancel"
  <2>1. PICK S \in SUBSET Notice : Begin(w, pc, r, S)
    <3>1. "CANCELLED" \in Status \ {"none"}
      BY StatusNames DEF Statuses
    <3>2. \A p \in {"customer", "artisan"} : To(p, r, "CANCELLED") \in Notice
      BY <3>1, NoticeType
    <3> QED
      BY <1>5, <3>2 DEF CancelCalled
  <2>2. pc \in JobStep
    BY DEF JobStep
  <2>3. job' \in [Workers -> Job]
    BY <2>1, <2>2, BeginType DEF TypeOK
  <2> QED
    BY <1>5, <2>3 DEF CancelCalled, TypeOK
<1>6. ASSUME NEW w \in Workers, NEW r \in Requests, EstimateChecked(w, r)
      PROVE  TypeOK'
  <2>1. job' \in [Workers -> Job]
    BY <1>6, BeginType DEF EstimateChecked, TypeOK, JobStep
  <2> QED
    BY <1>6, <2>1 DEF EstimateChecked, TypeOK
<1>7. ASSUME NEW w \in Workers, NEW r \in Requests, ValidateBooking(w, r)
      PROVE  TypeOK'
  <2>1. job' \in [Workers -> Job]
    BY <1>7, BeginType DEF ValidateBooking, TypeOK, JobStep
  <2> QED
    BY <1>7, <2>1 DEF ValidateBooking, TypeOK
<1>8. ASSUME NEW w \in Workers, CreateInserted(w)
      PROVE  TypeOK'
  <2>1. job' \in [Workers -> Job]
    BY <1>8, FinishType DEF CreateInserted, TypeOK
  <2>2. "PENDING_ADMIN_REVIEW" \in Status
    BY StatusNames DEF Statuses
  <2>3. status' \in [Requests -> Status]
    BY <1>8, <2>2 DEF CreateInserted, SetStatus, TypeOK
  <2> QED
    BY <1>8, <2>1, <2>3 DEF CreateInserted, TypeOK
<1>9. ASSUME NEW w \in Workers, Respond(w)
      PROVE  TypeOK'
  <2>1. job[w].pc \in Answers /\ job[w].request \in Requests
    BY <1>9 DEF Respond, Answers, JobsFit, Fits
  <2>2. OutcomeOf(job[w].pc) \in Status
    BY <2>1, OutcomeType
  <2>3. status' \in [Requests -> Status] /\ job' \in [Workers -> Job]
    BY <1>9, <2>1, <2>2, ClaimType DEF Respond
  <2> QED
    BY <1>9, <2>1, <2>3 DEF Respond, TypeOK
<1>10. ASSUME NEW w \in Workers, StartWork(w)
       PROVE  TypeOK'
  <2>1. job[w].request \in Requests /\ "IN_PROGRESS" \in Status
    BY <1>10, StatusNames DEF StartWork, JobsFit, Fits, Statuses
  <2>2. status' \in [Requests -> Status] /\ job' \in [Workers -> Job]
    BY <1>10, <2>1, ClaimType DEF StartWork
  <2> QED
    BY <1>10, <2>2 DEF StartWork, TypeOK
<1>11. ASSUME NEW w \in Workers, CompleteWork(w)
       PROVE  TypeOK'
  <2>1. job[w].request \in Requests /\ "COMPLETED" \in Status
    BY <1>11, StatusNames DEF CompleteWork, JobsFit, Fits, Statuses
  <2>2. status' \in [Requests -> Status] /\ job' \in [Workers -> Job]
    BY <1>11, <2>1, ClaimType DEF CompleteWork
  <2> QED
    BY <1>11, <2>2 DEF CompleteWork, TypeOK
<1>12. ASSUME NEW w \in Workers, CancelClaimed(w)
       PROVE  TypeOK'
  <2>1. job[w].request \in Requests /\ "CANCELLED" \in Status
    BY <1>12, StatusNames DEF CancelClaimed, JobsFit, Fits, Statuses
  <2>2. status' \in [Requests -> Status] /\ job' \in [Workers -> Job]
    BY <1>12, <2>1, ClaimType DEF CancelClaimed
  <2> QED
    BY <1>12, <2>2 DEF CancelClaimed, TypeOK
<1>13. ASSUME NEW w \in Workers, ExpireStale(w)
       PROVE  TypeOK'
  <2>1. "EXPIRED" \in Status \ {"none"}
    BY StatusNames DEF Statuses
  <2> DEFINE R == {r \in late : status[r] = "PENDING_ARTISAN_RESPONSE"}
             S == {To(p, r, "EXPIRED") : p \in {"customer", "artisan"}, r \in R}
  <2>2. /\ status' = [r \in Requests |-> IF r \in R THEN "EXPIRED" ELSE status[r]]
        /\ Begin(w, "notify_each", NoRequest, S)
    BY <1>13 DEF ExpireStale
  <2>3. S \in SUBSET Notice
    BY <2>1, NoticeType DEF TypeOK
  <2>4. job' \in [Workers -> Job]
    <3> HIDE DEF S
    <3> QED
      BY <2>2, <2>3, BeginType DEF TypeOK, JobStep
  <2>5. status' \in [Requests -> Status]
    BY <2>1, <2>2 DEF TypeOK
  <2> QED
    BY <1>13, <2>4, <2>5 DEF ExpireStale, TypeOK
<1>14. ASSUME NEW w \in Workers, Notify(w)
       PROVE  TypeOK'
  <2>1. job' \in [Workers -> Job]
    <3>1. CASE Finish(w)
      BY <3>1, FinishType DEF TypeOK
    <3>2. ASSUME NEW n \in job[w].notices,
                 job' = [job EXCEPT ![w].notices = @ \ {n}]
          PROVE  job' \in [Workers -> Job]
      <4>1. [job[w] EXCEPT !.notices = @ \ {n}] \in Job
        BY DEF Job, TypeOK
      <4> QED
        BY <3>2, <4>1 DEF TypeOK
    <3> QED
      BY <1>14, <3>1, <3>2 DEF Notify
  <2> QED
    BY <1>14, <2>1 DEF Notify, TypeOK
<1>15. ASSUME NEW w \in Workers, AddEstimate(w)
       PROVE  TypeOK'
  <2>1. job' \in [Workers -> Job] /\ job[w].request \in Requests
    BY <1>15, FinishType DEF AddEstimate, TypeOK, JobsFit, Fits
  <2> QED
    BY <1>15, <2>1 DEF AddEstimate, TypeOK
<1>16. ASSUME NEW w \in Workers, ReconfirmBookingStatus(w)
       PROVE  TypeOK'
  <2>1. job' \in [Workers -> Job]
    BY <1>16, FinishType, GotoType DEF ReconfirmBookingStatus, TypeOK, JobStep
  <2> QED
    BY <1>16, <2>1 DEF ReconfirmBookingStatus, TypeOK
<1>17. ASSUME NEW w \in Workers, PlaceOrder(w)
       PROVE  TypeOK'
  <2>1. job' \in [Workers -> Job] /\ job[w].request \in Requests
    BY <1>17, FinishType DEF PlaceOrder, TypeOK, JobsFit, Fits
  <2> QED
    BY <1>17, <2>1 DEF PlaceOrder, TypeOK
<1>18. ASSUME NEW w \in Workers, Crash(w)
       PROVE  TypeOK'
  <2>1. job' \in [Workers -> Job]
    BY <1>18, FinishType DEF Crash, TypeOK
  <2> QED
    BY <1>18, <2>1 DEF Crash, TypeOK
<1> QED
  BY <1>1, <1>2, <1>3, <1>4, <1>5, <1>6, <1>7, <1>8, <1>9, <1>10, <1>11, <1>12, <1>13,
     <1>14, <1>15, <1>16, <1>17, <1>18 DEF Next, Handle, Answers

-----------------------------------------------------------------------------
(* What a step does to the rows: nothing, or one move of a request's life  *)
(* with the marks that go with it.                                         *)

Created(r) ==
  /\ Lifecycle!Create(r)
  /\ UNCHANGED <<reviewed, responded>>

Reviewed(r) ==
  /\ Lifecycle!Review(r)
  /\ reviewed' = reviewed \cup {r}
  /\ UNCHANGED responded

Answered(r) ==
  /\ Lifecycle!Answer(r)
  /\ responded' = responded \cup {r}
  /\ UNCHANGED reviewed

Worked(r) ==
  /\ Lifecycle!Work(r)
  /\ UNCHANGED <<reviewed, responded>>

Cancelled(r) ==
  /\ Lifecycle!Cancel(r)
  /\ UNCHANGED <<reviewed, responded>>

Expired(R) ==
  /\ Lifecycle!Expire(R)
  /\ UNCHANGED <<reviewed, responded>>

RowStep ==
  \/ UNCHANGED rows
  \/ \E r \in Requests :
       Created(r) \/ Reviewed(r) \/ Answered(r) \/ Worked(r) \/ Cancelled(r)
  \/ \E R \in SUBSET Requests : Expired(R)

LEMMA ClaimMoves ==
  ASSUME NEW w \in Workers, NEW from, NEW s, ClaimTransition(w, from, s)
  PROVE  \/ /\ UNCHANGED status
            /\ job' = [job EXCEPT ![w] = NoJob]
         \/ /\ status[job[w].request] \in from
            /\ Lifecycle!Move(job[w].request, status[job[w].request], s)
            /\ job' = [job EXCEPT ![w].pc = "notify"]
BY DEF ClaimTransition, Finish, Goto, SetStatus, Lifecycle!Move

LEMMA RespondRows ==
  ASSUME IInv, NEW w \in Workers, Respond(w)
  PROVE  UNCHANGED rows \/ \E r \in Requests : Answered(r)
<1> DEFINE r == job[w].request
           s == OutcomeOf(job[w].pc)
<1>1. r \in Requests
  BY DEF Respond, IInv, JobsFit, Fits
<1>2. s \in {"ACCEPTED_BY_ARTISAN", "ARTISAN_DECLINED"}
  BY DEF Respond, OutcomeOf
<1>3. CASE UNCHANGED status
  BY <1>3 DEF Respond, rows
<1>4. CASE /\ status[r] \in {"PENDING_ARTISAN_RESPONSE"}
           /\ Lifecycle!Move(r, status[r], s)
  <2>1. status' # status
    BY <1>1, <1>2, <1>4 DEF Lifecycle!Move, IInv, TypeOK
  <2>2. responded' = responded \cup {r} /\ UNCHANGED reviewed
    BY <2>1 DEF Respond
  <2>3. Lifecycle!Answer(r)
    BY <1>2, <1>4 DEF Lifecycle!Answer
  <2> QED
    BY <1>1, <2>2, <2>3 DEF Answered
<1> QED
  BY <1>3, <1>4, ClaimMoves DEF Respond

LEMMA StartRows ==
  ASSUME IInv, NEW w \in Workers, StartWork(w)
  PROVE  UNCHANGED rows \/ \E r \in Requests : Worked(r)
<1>1. job[w].request \in Requests
  BY DEF StartWork, IInv, JobsFit, Fits
<1>2. UNCHANGED <<reviewed, responded>>
  BY DEF StartWork
<1>3. UNCHANGED status \/ Lifecycle!Work(job[w].request)
  BY ClaimMoves DEF StartWork, Lifecycle!Work
<1> QED
  BY <1>1, <1>2, <1>3 DEF Worked, rows

LEMMA CompleteRows ==
  ASSUME IInv, NEW w \in Workers, CompleteWork(w)
  PROVE  UNCHANGED rows \/ \E r \in Requests : Worked(r)
<1>1. job[w].request \in Requests
  BY DEF CompleteWork, IInv, JobsFit, Fits
<1>2. UNCHANGED <<reviewed, responded>>
  BY DEF CompleteWork
<1>3. UNCHANGED status \/ Lifecycle!Work(job[w].request)
  BY ClaimMoves DEF CompleteWork, Lifecycle!Work
<1> QED
  BY <1>1, <1>2, <1>3 DEF Worked, rows

LEMMA CancelRows ==
  ASSUME IInv, NEW w \in Workers, CancelClaimed(w)
  PROVE  UNCHANGED rows \/ \E r \in Requests : Cancelled(r)
<1>1. job[w].request \in Requests
  BY DEF CancelClaimed, IInv, JobsFit, Fits
<1>2. UNCHANGED <<reviewed, responded>>
  BY DEF CancelClaimed
<1> DEFINE from == IF job[w].pc = "cancel" THEN OpenStatus ELSE ActiveEngagement
<1>3. from \subseteq OpenStatus
  BY StatusNames DEF ActiveEngagement
<1>4. \/ UNCHANGED status
      \/ /\ status[job[w].request] \in from
         /\ Lifecycle!Move(job[w].request, status[job[w].request], "CANCELLED")
  <2> HIDE DEF from
  <2>1. ClaimTransition(w, from, "CANCELLED")
    BY DEF CancelClaimed, from
  <2> QED
    BY <2>1, ClaimMoves
<1>5. UNCHANGED status \/ Lifecycle!Cancel(job[w].request)
  <2> HIDE DEF from
  <2> QED
    BY <1>3, <1>4 DEF Lifecycle!Cancel, OpenStatus
<1> QED
  BY <1>1, <1>2, <1>5 DEF Cancelled, rows

LEMMA InsertRows ==
  ASSUME IInv, NEW w \in Workers, CreateInserted(w)
  PROVE  UNCHANGED rows \/ Created(job[w].request)
<1>1. job[w].request \in Requests /\ status[job[w].request] = "none"
  BY DEF CreateInserted, IInv, JobsFit, Fits
<1> QED
  BY <1>1 DEF CreateInserted, Created, Lifecycle!Create, Lifecycle!Move, SetStatus, rows

LEMMA ReviewRows ==
  ASSUME NEW w \in Workers, NEW r \in Requests,
         NEW s \in {"PENDING_ARTISAN_RESPONSE", "ADMIN_REJECTED"}, ReviewRequest(w, r, s)
  PROVE  Reviewed(r)
BY DEF ReviewRequest, Reviewed, Lifecycle!Review, Lifecycle!Move, SetStatus

LEMMA ExpireRows ==
  ASSUME IInv, NEW w \in Workers, ExpireStale(w)
  PROVE  \E R \in SUBSET Requests : Expired(R)
<1> DEFINE R == {r \in late : status[r] = "PENDING_ARTISAN_RESPONSE"}
<1>1. R \in SUBSET Requests
  BY DEF IInv, TypeOK
<1>2. /\ status' = [r \in Requests |-> IF r \in R THEN "EXPIRED" ELSE status[r]]
      /\ UNCHANGED <<reviewed, responded>>
  BY DEF ExpireStale
<1>3. \A r \in R : status[r] = "PENDING_ARTISAN_RESPONSE"
  OBVIOUS
<1>4. Expired(R)
  <2> HIDE DEF R
  <2> QED
    BY <1>2, <1>3 DEF Expired, Lifecycle!Expire
<1> QED
  BY <1>1, <1>4

LEMMA StepRows ==
  ASSUME IInv, Next
  PROVE  RowStep
<1> USE DEF rows, RowStep
<1>1. ASSUME NEW r \in Requests, Age(r)
      PROVE  UNCHANGED rows
  BY <1>1 DEF Age
<1>2. ASSUME NEW w \in Workers, NEW r \in Requests, CreateChecked(w, r)
      PROVE  UNCHANGED rows
  BY <1>2 DEF CreateChecked
<1>3. ASSUME NEW w \in Workers, NEW r \in Requests, NEW pc \in Answers, ArtisanCalls(w, r, pc)
      PROVE  UNCHANGED rows
  BY <1>3 DEF ArtisanCalls
<1>4. ASSUME NEW w \in Workers, NEW r \in Requests, NEW role \in Role, CancelCalled(w, r, role)
      PROVE  UNCHANGED rows
  BY <1>4 DEF CancelCalled
<1>5. ASSUME NEW w \in Workers, NEW r \in Requests, EstimateChecked(w, r) \/ ValidateBooking(w, r)
      PROVE  UNCHANGED rows
  BY <1>5 DEF EstimateChecked, ValidateBooking
<1>6. ASSUME NEW w \in Workers, Notify(w) \/ AddEstimate(w) \/ ReconfirmBookingStatus(w)
                                \/ PlaceOrder(w) \/ Crash(w)
      PROVE  UNCHANGED rows
  BY <1>6 DEF Notify, AddEstimate, ReconfirmBookingStatus, PlaceOrder, Crash
<1>7. ASSUME NEW w \in Workers, CreateInserted(w)
      PROVE  RowStep
  <2>1. job[w].request \in Requests
    BY <1>7 DEF CreateInserted, IInv, JobsFit, Fits
  <2> QED
    BY <1>7, <2>1, InsertRows
<1>8. ASSUME NEW w \in Workers, NEW r \in Requests,
             NEW s \in {"PENDING_ARTISAN_RESPONSE", "ADMIN_REJECTED"}, ReviewRequest(w, r, s)
      PROVE  RowStep
  BY <1>8, ReviewRows
<1>9. ASSUME NEW w \in Workers, Respond(w) \/ StartWork(w) \/ CompleteWork(w) \/ CancelClaimed(w)
      PROVE  RowStep
  BY <1>9, RespondRows, StartRows, CompleteRows, CancelRows
<1>10. ASSUME NEW w \in Workers, ExpireStale(w)
       PROVE  RowStep
  BY <1>10, ExpireRows
<1> QED
  <2> HIDE DEF rows, RowStep
  <2>1. UNCHANGED rows => RowStep
    BY DEF RowStep
  <2> QED
    BY <2>1, <1>1, <1>2, <1>3, <1>4, <1>5, <1>6, <1>7, <1>8, <1>9, <1>10
       DEF Next, Handle, Answers

-----------------------------------------------------------------------------
(* The invariants of the rows.                                             *)

LEMMA GateStep ==
  ASSUME TypeOK, GateKept, RowStep
  PROVE  GateKept'
<1> USE DEF TypeOK, GateKept, Lifecycle!Move
<1>1. CASE UNCHANGED rows
  BY <1>1 DEF rows
<1>2. ASSUME NEW r \in Requests, Created(r)
      PROVE  GateKept'
  BY <1>2 DEF Created, Lifecycle!Create
<1>3. ASSUME NEW r \in Requests, Reviewed(r)
      PROVE  GateKept'
  BY <1>3 DEF Reviewed, Lifecycle!Review
<1>4. ASSUME NEW r \in Requests, Answered(r)
      PROVE  GateKept'
  BY <1>4 DEF Answered, Lifecycle!Answer
<1>5. ASSUME NEW r \in Requests, Worked(r)
      PROVE  GateKept'
  BY <1>5 DEF Worked, Lifecycle!Work
<1>6. ASSUME NEW r \in Requests, Cancelled(r)
      PROVE  GateKept'
  BY <1>6 DEF Cancelled, Lifecycle!Cancel
<1>7. ASSUME NEW R \in SUBSET Requests, Expired(R)
      PROVE  GateKept'
  BY <1>7 DEF Expired, Lifecycle!Expire
<1> QED
  <2> HIDE DEF TypeOK, GateKept
  <2> QED
    BY <1>1, <1>2, <1>3, <1>4, <1>5, <1>6, <1>7 DEF RowStep

LEMMA OpenStep ==
  ASSUME TypeOK, OneOpenPerPair, RowStep
  PROVE  OneOpenPerPair'
<1>1. ASSUME NEW r \in Requests, Created(r)
      PROVE  OneOpenPerPair'
  <2>1. \A s \in Requests : PairOf[s] = PairOf[r] => status[s] \notin OpenStatus
    BY <1>1 DEF Created, Lifecycle!Create, Lifecycle!OpenWith, OpenStatus
  <2>2. \A s \in Requests : s # r => status'[s] = status[s]
    BY <1>1 DEF Created, Lifecycle!Create, Lifecycle!Move, TypeOK
  <2> QED
    BY <2>1, <2>2 DEF OneOpenPerPair, OpenStatus
<1>2. ASSUME \A s \in Requests : status'[s] \in OpenStatus => status[s] \in OpenStatus
      PROVE  OneOpenPerPair'
  BY <1>2 DEF OneOpenPerPair, OpenStatus
<1>3. CASE UNCHANGED rows
  BY <1>3 DEF rows, OneOpenPerPair, OpenStatus
<1>4. ASSUME NEW r \in Requests, Reviewed(r) \/ Answered(r) \/ Worked(r) \/ Cancelled(r)
      PROVE  OneOpenPerPair'
  <2>1. status[r] \in OpenStatus
    BY <1>4, StatusNames DEF Reviewed, Answered, Worked, Cancelled, Lifecycle!Review,
       Lifecycle!Answer, Lifecycle!Work, Lifecycle!Cancel, Lifecycle!Move, OpenStatus
  <2>2. \A s \in Requests : s # r => status'[s] = status[s]
    BY <1>4 DEF Reviewed, Answered, Worked, Cancelled, Lifecycle!Review,
       Lifecycle!Answer, Lifecycle!Work, Lifecycle!Cancel, Lifecycle!Move, TypeOK
  <2> QED
    BY <1>2, <2>1, <2>2
<1>5. ASSUME NEW R \in SUBSET Requests, Expired(R)
      PROVE  OneOpenPerPair'
  <2>1. \A s \in Requests : status'[s] = "EXPIRED" \/ status'[s] = status[s]
    BY <1>5 DEF Expired, Lifecycle!Expire
  <2> QED
    BY <1>2, <2>1, StatusNames
<1> QED
  BY <1>1, <1>3, <1>4, <1>5 DEF RowStep

(* A request that has ended stays ended; one that was accepted is from     *)
(* then on accepted, under way, completed or cancelled.                    *)
LEMMA RowsKeep ==
  ASSUME TypeOK, RowStep
  PROVE  /\ responded \subseteq responded'
         /\ \A r \in Requests : status[r] \in EndStatus => status'[r] = status[r]
         /\ \A r \in Requests : status[r] \in Attributable \cup {"CANCELLED"}
                                  => status'[r] \in Attributable \cup {"CANCELLED"}
<1> USE StatusNames DEF Attributable, TypeOK, Lifecycle!Move
<1>1. CASE UNCHANGED rows
  BY <1>1 DEF rows
<1>2. ASSUME NEW r \in Requests, Created(r)
      PROVE  /\ responded \subseteq responded'
             /\ status[r] = "none"
             /\ \A s \in Requests : s # r => status'[s] = status[s]
  BY <1>2 DEF Created, Lifecycle!Create
<1>3. ASSUME NEW r \in Requests, Reviewed(r)
      PROVE  /\ responded \subseteq responded'
             /\ status[r] = "PENDING_ADMIN_REVIEW"
             /\ \A s \in Requests : s # r => status'[s] = status[s]
  BY <1>3 DEF Reviewed, Lifecycle!Review
<1>4. ASSUME NEW r \in Requests, Answered(r)
      PROVE  /\ responded \subseteq responded'
             /\ status[r] = "PENDING_ARTISAN_RESPONSE"
             /\ \A s \in Requests : s # r => status'[s] = status[s]
  BY <1>4 DEF Answered, Lifecycle!Answer
<1>5. ASSUME NEW r \in Requests, Worked(r)
      PROVE  /\ responded \subseteq responded'
             /\ status[r] \in {"ACCEPTED_BY_ARTISAN", "IN_PROGRESS"}
             /\ status'[r] \in {"IN_PROGRESS", "COMPLETED"}
             /\ \A s \in Requests : s # r => status'[s] = status[s]
  BY <1>5 DEF Worked, Lifecycle!Work
<1>6. ASSUME NEW r \in Requests, Cancelled(r)
      PROVE  /\ responded \subseteq responded'
             /\ status[r] \in OpenStatus
             /\ status'[r] = "CANCELLED"
             /\ \A s \in Requests : s # r => status'[s] = status[s]
  BY <1>6 DEF Cancelled, Lifecycle!Cancel, OpenStatus
<1>7. ASSUME NEW R \in SUBSET Requests, Expired(R)
      PROVE  /\ responded \subseteq responded'
             /\ \A s \in Requests : \/ status'[s] = status[s]
                                     \/ status[s] = "PENDING_ARTISAN_RESPONSE"
  BY <1>7 DEF Expired, Lifecycle!Expire
<1> QED
  BY <1>1, <1>2, <1>3, <1>4, <1>5, <1>6, <1>7 DEF RowStep

-----------------------------------------------------------------------------
(* The invariants of the jobs.                                             *)

LEMMA FitsKept ==
  ASSUME TypeOK, RowStep, NEW j \in Job, Fits(j, status, responded),
         j.pc = "insert" => status'[j.request] = "none"
  PROVE  Fits(j, status', responded')
<1>1. \A n \in j.notices : n.request \in Requests
  BY DEF Job, Notice
<1>2. j.pc \in {"notify", "notify_each"} => \A n \in j.notices :
        /\ n.status \in EndStatus => status'[n.request] = n.status
        /\ n.status \in Attributable => n.request \in responded'
  BY <1>1, RowsKeep DEF Fits
<1>3. j.pc \in {"estimate", "reconfirm", "attribute"} =>
        j.request \in responded' /\ status'[j.request] \in Attributable \cup {"CANCELLED"}
  BY RowsKeep DEF Fits
<1> QED
  BY <1>2, <1>3 DEF Fits

(* What is left to show of a step is what its own job has made sure of,    *)
(* and that it spoils no INSERT of another one.                            *)
LEMMA JobsKept ==
  ASSUME IInv, RowStep, NEW w \in Workers,
         \A v \in Workers : v # w => job'[v] = job[v],
         Fits(job'[w], status', responded'),
         \A r \in Requests : status[r] = "none" =>
           status'[r] = "none" \/ (job[w].pc = "insert" /\ r = job[w].request),
         \/ job'[w].request \in {NoRequest, job[w].request}
         \/ status[job'[w].request] # "none"
         \/ \A v \in Workers : job[v].request # job'[w].request,
         job'[w].pc = "insert" => \A v \in Workers : job[v].request # job'[w].request
  PROVE  JobsFit' /\ InsertsApart'
<1>1. ASSUME NEW v \in Workers, v # w, job[v].pc = "insert"
      PROVE  /\ status'[job[v].request] = "none"
             /\ job'[w].request # job[v].request
  <2>1. /\ job[v].request \in Requests
        /\ status[job[v].request] = "none"
        /\ job[w].request # job[v].request
    BY <1>1 DEF IInv, JobsFit, Fits, InsertsApart
  <2>2. job[v].request # NoRequest
    BY <2>1, HireAssumption
  <2> QED
    BY <2>1, <2>2
<1>2. ASSUME NEW v \in Workers
      PROVE  Fits(job'[v], status', responded')
  <2>1. CASE v = w
    BY <2>1
  <2>2. CASE v # w
    <3>1. job[v] \in Job /\ Fits(job[v], status, responded)
      BY DEF IInv, TypeOK, JobsFit
    <3>2. Fits(job[v], status', responded')
      BY <1>1, <2>2, <3>1, FitsKept DEF IInv
    <3> QED
      BY <2>2, <3>2
  <2> QED
    BY <2>1, <2>2
<1>3. JobsFit'
  BY <1>2 DEF JobsFit
<1>4. InsertsApart'
  BY <1>1 DEF IInv, InsertsApart
<1> QED
  BY <1>3, <1>4

LEMMA FitsIdle ==
  ASSUME NEW st, NEW resp
  PROVE  Fits(NoJob, st, resp) /\ NoJob.request = NoRequest /\ NoJob.pc = "idle"
BY DEF Fits, NoJob, Answers, Cancels

(* A job that ends without touching a row.                                 *)
LEMMA JobEnds ==
  ASSUME IInv, RowStep, UNCHANGED status, NEW w \in Workers, Finish(w)
  PROVE  JobsFit' /\ InsertsApart'
<1>1. job' = [job EXCEPT ![w] = NoJob] /\ job \in [Workers -> Job]
  BY DEF Finish, IInv, TypeOK
<1>2. job'[w] = NoJob /\ \A v \in Workers : v # w => job'[v] = job[v]
  BY <1>1
<1> QED
  BY <1>2, FitsIdle, JobsKept

(* A job that begins or goes on without touching a row that is not there.  *)
LEMMA JobBegins ==
  ASSUME IInv, RowStep, NEW w \in Workers,
         NEW pc \in JobStep \ {"insert"}, NEW r, NEW notices,
         Begin(w, pc, r, notices),
         \A s \in Requests : status[s] = "none" => status'[s] = "none",
         r = NoRequest \/ status[r] # "none",
         Fits([pc |-> pc, request |-> r, notices |-> notices], status', responded')
  PROVE  JobsFit' /\ InsertsApart'
<1>1. job' = [job EXCEPT ![w] = [pc |-> pc, request |-> r, notices |-> notices]]
  BY DEF Begin
<1>2. /\ job'[w] = [pc |-> pc, request |-> r, notices |-> notices]
      /\ \A v \in Workers : v # w => job'[v] = job[v]
  BY <1>1 DEF IInv, TypeOK
<1>3. job'[w].pc = pc /\ job'[w].request = r
  BY <1>2
<1>4. Fits(job'[w], status', responded')
  BY <1>2
<1> QED
  BY <1>2, <1>3, <1>4, JobsKept

(* A claim that counted its row: what is told then is true.                *)
LEMMA ClaimFits ==
  ASSUME IInv, RowStep, NEW w \in Workers, NEW from \in SUBSET OpenStatus, NEW s,
         ClaimTransition(w, from, s),
         job[w].pc \in Answers \cup Cancels, job[w].request \in Requests,
         \A n \in job[w].notices : n.request = job[w].request /\ n.status = s,
         status' # status /\ s \in Attributable => job[w].request \in responded'
  PROVE  JobsFit' /\ InsertsApart'
<1> DEFINE r == job[w].request
<1>1. CASE UNCHANGED status /\ job' = [job EXCEPT ![w] = NoJob]
  BY <1>1, JobEnds DEF Finish
<1>2. CASE /\ status[r] \in from
           /\ Lifecycle!Move(r, status[r], s)
           /\ job' = [job EXCEPT ![w].pc = "notify"]
  <2>1. /\ job'[w].pc = "notify"
        /\ job'[w].request = r
        /\ job'[w].notices = job[w].notices
        /\ \A v \in Workers : v # w => job'[v] = job[v]
    BY <1>2 DEF IInv, TypeOK, Job
  <2>2. status'[r] = s /\ \A q \in Requests : q # r => status'[q] = status[q]
    BY <1>2 DEF Lifecycle!Move, IInv, TypeOK
  <2>3. status[r] # "none"
    BY <1>2, StatusNames
  <2>4. CASE status' = status
    <3>1. s \in OpenStatus
      BY <1>2, <2>2, <2>4
    <3>2. s \notin EndStatus
      BY <3>1, StatusNames
    <3>3. s \in Attributable => r \in responded
      BY <2>2, <2>4 DEF IInv, GateKept, Attributable
    <3>4. responded \subseteq responded'
      BY RowsKeep DEF IInv
    <3>5. Fits(job'[w], status', responded')
      BY <2>1, <3>2, <3>3, <3>4 DEF Fits, Answers, Cancels
    <3> QED
      BY <2>1, <2>3, <2>4, <3>5, JobsKept
  <2>5. CASE status' # status
    <3>1. Fits(job'[w], status', responded')
      BY <2>1, <2>2, <2>5 DEF Fits, Answers, Cancels
    <3> QED
      BY <2>1, <2>2, <2>3, <3>1, JobsKept
  <2> QED
    BY <2>4, <2>5
<1> QED
  BY <1>1, <1>2, ClaimMoves

LEMMA JobsStep ==
  ASSUME IInv, Next
  PROVE  JobsFit' /\ InsertsApart'
<1> DEFINE Goal == JobsFit' /\ InsertsApart'
<1>0. RowStep /\ job \in [Workers -> Job]
  BY StepRows DEF IInv, TypeOK
<1>1. ASSUME NEW r \in Requests, Age(r)
      PROVE  Goal
  BY <1>1 DEF Age, rows, IInv, JobsFit, InsertsApart
<1>2. ASSUME NEW w \in Workers, NEW r \in Requests, CreateChecked(w, r)
      PROVE  Goal
  <2>1. job' = [job EXCEPT ![w] = [pc |-> "insert", request |-> r, notices |-> {}]]
    BY <1>2 DEF CreateChecked, Begin
  <2>2. /\ job'[w] = [pc |-> "insert", request |-> r, notices |-> {}]
        /\ \A v \in Workers : v # w => job'[v] = job[v]
    BY <1>0, <2>1
  <2>3. /\ status[r] = "none" /\ UNCHANGED <<status, responded>>
        /\ \A v \in Workers : job[v].request # r
    BY <1>2 DEF CreateChecked, rows
  <2>4. Fits(job'[w], status', responded')
    BY <2>2, <2>3 DEF Fits, Answers, Cancels
  <2> QED
    BY <1>0, <2>2, <2>3, <2>4, JobsKept
<1>3. ASSUME NEW w \in Workers, NEW r \in Requests,
             NEW s \in {"PENDING_ARTISAN_RESPONSE", "ADMIN_REJECTED"}, ReviewRequest(w, r, s)
      PROVE  Goal
  <2> DEFINE S == {To("artisan", r, s)}
  <2>1. /\ Begin(w, "notify", r, S)
        /\ status' = [status EXCEPT ![r] = s]
        /\ status[r] # "none"
    BY <1>3 DEF ReviewRequest, SetStatus
  <2>2. /\ status'[r] = s
        /\ \A q \in Requests : status[q] = "none" => status'[q] = "none"
    BY <2>1 DEF IInv, TypeOK
  <2>3. s \notin Attributable
    BY DEF Attributable
  <2>4. Fits([pc |-> "notify", request |-> r, notices |-> S], status', responded')
    BY <2>2, <2>3 DEF Fits, Answers, Cancels, To
  <2> HIDE DEF S
  <2> QED
    BY <1>0, <2>1, <2>2, <2>4, JobBegins DEF JobStep
<1>4. ASSUME NEW w \in Workers, NEW r \in Requests, NEW pc \in Answers, ArtisanCalls(w, r, pc)
      PROVE  Goal
  <2> DEFINE S == {To("customer", r, OutcomeOf(pc))}
  <2>1. Begin(w, pc, r, S) /\ status[r] # "none" /\ UNCHANGED <<status, responded>>
    BY <1>4 DEF ArtisanCalls, rows
  <2>2. pc \in JobStep \ {"insert"}
    BY DEF Answers, JobStep
  <2>3. Fits([pc |-> pc, request |-> r, notices |-> S], status', responded')
    BY DEF Fits, Answers, Cancels
  <2> HIDE DEF S
  <2> QED
    BY <1>0, <2>1, <2>2, <2>3, JobBegins
<1>5. ASSUME NEW w \in Workers, NEW r \in Requests, NEW role \in Role, CancelCalled(w, r, role)
      PROVE  Goal
  <2> DEFINE pc == IF role = "artisan" THEN "artisan_cancel" ELSE "cancel"
             S == {To(p, r, "CANCELLED") :
                     p \in {q \in {"customer", "artisan"} :
                              q # role /\ (q = "artisan" =>
                                              r \in reviewed /\ status[r] # "ADMIN_REJECTED")}}
  <2>1. Begin(w, pc, r, S) /\ status[r] # "none" /\ UNCHANGED <<status, responded>>
    BY <1>5 DEF CancelCalled, rows
  <2>2. pc \in JobStep \ {"insert"} /\ pc \in Cancels
    BY DEF Cancels, JobStep
  <2>3. \A n \in S : n.request = r /\ n.status = "CANCELLED"
    BY DEF To
  <2> HIDE DEF S, pc
  <2>4. Fits([pc |-> pc, request |-> r, notices |-> S], status', responded')
    BY <2>2, <2>3 DEF Fits, Answers, Cancels
  <2> QED
    BY <1>0, <2>1, <2>2, <2>4, JobBegins
<1>6. ASSUME NEW w \in Workers, NEW r \in Requests, NEW pc \in {"estimate", "reconfirm"},
             Begin(w, pc, r, {}), status[r] \in Attributable, UNCHANGED rows
      PROVE  Goal
  <2>1. r \in responded /\ status[r] # "none"
    BY <1>6 DEF IInv, GateKept, Attributable
  <2>2. Fits([pc |-> pc, request |-> r, notices |-> {}], status', responded')
    BY <1>6, <2>1 DEF Fits, Answers, Cancels, rows
  <2> QED
    BY <1>0, <1>6, <2>1, <2>2, JobBegins DEF JobStep, rows
<1>7. ASSUME NEW w \in Workers, NEW r \in Requests, EstimateChecked(w, r) \/ ValidateBooking(w, r)
      PROVE  Goal
  BY <1>6, <1>7 DEF EstimateChecked, ValidateBooking, ActiveEngagement, Attributable
<1>8. ASSUME NEW w \in Workers, AddEstimate(w) \/ PlaceOrder(w) \/ Crash(w)
      PROVE  Goal
  BY <1>0, <1>8, JobEnds DEF AddEstimate, PlaceOrder, Crash, rows
<1>9. ASSUME NEW w \in Workers, CreateInserted(w)
      PROVE  Goal
  <2>1. /\ job[w].pc = "insert"
        /\ job' = [job EXCEPT ![w] = NoJob]
        /\ UNCHANGED status \/ status' = [status EXCEPT ![job[w].request] = "PENDING_ADMIN_REVIEW"]
    BY <1>9 DEF CreateInserted, Finish, SetStatus
  <2>2. job'[w] = NoJob /\ \A v \in Workers : v # w => job'[v] = job[v]
    BY <1>0, <2>1
  <2>3. \A r \in Requests : status[r] = "none" => status'[r] = "none" \/ r = job[w].request
    BY <2>1 DEF IInv, TypeOK
  <2> QED
    BY <1>0, <2>1, <2>2, <2>3, FitsIdle, JobsKept
<1>10. ASSUME NEW w \in Workers, Respond(w)
       PROVE  Goal
  <2> DEFINE s == OutcomeOf(job[w].pc)
             from == {"PENDING_ARTISAN_RESPONSE"}
  <2>1. /\ job[w].pc \in Answers
        /\ job[w].request \in Requests
        /\ \A n \in job[w].notices : n.request = job[w].request /\ n.status = s
    BY <1>10 DEF Respond, Answers, IInv, JobsFit, Fits, To
  <2>2. ClaimTransition(w, from, s) /\ from \in SUBSET OpenStatus
    BY <1>10, StatusNames DEF Respond
  <2>3. status' # status => job[w].request \in responded'
    BY <1>10 DEF Respond
  <2> HIDE DEF s, from
  <2> QED
    BY <1>0, <2>1, <2>2, <2>3, ClaimFits
<1>11. ASSUME NEW w \in Workers, NEW s \in {"IN_PROGRESS", "COMPLETED"},
              NEW from \in SUBSET ActiveEngagement,
              job[w].pc \in {"start", "complete"}, s = OutcomeOf(job[w].pc),
              ClaimTransition(w, from, s), UNCHANGED responded
       PROVE  Goal
  <2>1. /\ job[w].pc \in Answers
        /\ job[w].request \in Requests
        /\ \A n \in job[w].notices : n.request = job[w].request /\ n.status = s
    BY <1>11 DEF Answers, IInv, JobsFit, Fits, To
  <2>2. from \in SUBSET OpenStatus
    BY StatusNames DEF ActiveEngagement
  <2>3. status' # status => job[w].request \in responded'
    BY <1>11, <2>1, ClaimMoves DEF IInv, GateKept, ActiveEngagement
  <2> QED
    BY <1>0, <1>11, <2>1, <2>2, <2>3, ClaimFits
<1>12. ASSUME NEW w \in Workers, StartWork(w)
       PROVE  Goal
  <2>1. "IN_PROGRESS" = OutcomeOf("start") /\ {"ACCEPTED_BY_ARTISAN"} \in SUBSET ActiveEngagement
    BY DEF OutcomeOf, ActiveEngagement
  <2> QED
    BY <1>11, <1>12, <2>1 DEF StartWork
<1>13. ASSUME NEW w \in Workers, CompleteWork(w)
       PROVE  Goal
  <2>1. "COMPLETED" = OutcomeOf("complete") /\ {"IN_PROGRESS"} \in SUBSET ActiveEngagement
    BY DEF OutcomeOf, ActiveEngagement
  <2> QED
    BY <1>11, <1>13, <2>1 DEF CompleteWork
<1>14. ASSUME NEW w \in Workers, CancelClaimed(w)
       PROVE  Goal
  <2> DEFINE from == IF job[w].pc = "cancel" THEN OpenStatus ELSE ActiveEngagement
  <2>1. /\ job[w].pc \in Cancels
        /\ job[w].request \in Requests
        /\ \A n \in job[w].notices : n.request = job[w].request /\ n.status = "CANCELLED"
    BY <1>14 DEF CancelClaimed, Cancels, IInv, JobsFit, Fits
  <2>2. ClaimTransition(w, from, "CANCELLED") /\ from \in SUBSET OpenStatus
    BY <1>14, StatusNames DEF CancelClaimed, ActiveEngagement
  <2>3. "CANCELLED" \notin Attributable
    BY DEF Attributable
  <2> HIDE DEF from
  <2> QED
    BY <1>0, <2>1, <2>2, <2>3, ClaimFits
<1>15. ASSUME NEW w \in Workers, ExpireStale(w)
       PROVE  Goal
  <2> DEFINE R == {r \in late : status[r] = "PENDING_ARTISAN_RESPONSE"}
             S == {To(p, r, "EXPIRED") : p \in {"customer", "artisan"}, r \in R}
  <2>1. /\ Begin(w, "notify_each", NoRequest, S)
        /\ status' = [r \in Requests |-> IF r \in R THEN "EXPIRED" ELSE status[r]]
    BY <1>15 DEF ExpireStale
  <2>2. \A n \in S : n.request \in R /\ n.status = "EXPIRED"
    BY DEF To
  <2>3. R \subseteq Requests
    BY DEF IInv, TypeOK
  <2>4. \A r \in Requests : status[r] = "none" => status'[r] = "none"
    BY <2>1
  <2> HIDE DEF S
  <2>5. \A n \in S : status'[n.request] = n.status
    BY <2>1, <2>2, <2>3
  <2>6. "EXPIRED" \notin Attributable
    BY DEF Attributable
  <2>7. Fits([pc |-> "notify_each", request |-> NoRequest, notices |-> S], status', responded')
    BY <2>2, <2>5, <2>6 DEF Fits, Answers, Cancels
  <2> QED
    BY <1>0, <2>1, <2>4, <2>7, JobBegins DEF JobStep
<1>16. ASSUME NEW w \in Workers, Notify(w)
       PROVE  Goal
  <2>1. UNCHANGED <<status, responded>> /\ job[w].pc \in {"notify", "notify_each"}
    BY <1>16 DEF Notify, rows
  <2>2. CASE Finish(w)
    BY <1>0, <2>1, <2>2, JobEnds
  <2>3. ASSUME NEW n \in job[w].notices, job' = [job EXCEPT ![w].notices = @ \ {n}]
        PROVE  Goal
    <3>1. /\ job'[w].pc = job[w].pc
          /\ job'[w].request = job[w].request
          /\ job'[w].notices = job[w].notices \ {n}
          /\ \A v \in Workers : v # w => job'[v] = job[v]
      BY <1>0, <2>3 DEF Job
    <3>2. Fits(job[w], status, responded)
      BY DEF IInv, JobsFit
    <3>3. Fits(job'[w], status', responded')
      BY <2>1, <3>1, <3>2 DEF Fits, Answers, Cancels
    <3> QED
      BY <1>0, <2>1, <3>1, <3>3, JobsKept
  <2> QED
    BY <1>16, <2>2, <2>3 DEF Notify
<1>17. ASSUME NEW w \in Workers, ReconfirmBookingStatus(w)
       PROVE  Goal
  <2>1. UNCHANGED <<status, responded>> /\ job[w].pc = "reconfirm"
    BY <1>17 DEF ReconfirmBookingStatus, rows
  <2>2. CASE Finish(w)
    BY <1>0, <2>1, <2>2, JobEnds
  <2>3. CASE Goto(w, "attribute")
    <3>1. /\ job'[w].pc = "attribute"
          /\ job'[w].request = job[w].request
          /\ \A v \in Workers : v # w => job'[v] = job[v]
      BY <1>0, <2>3 DEF Goto, Job
    <3>2. Fits(job[w], status, responded)
      BY DEF IInv, JobsFit
    <3>3. Fits(job'[w], status', responded')
      BY <2>1, <3>1, <3>2 DEF Fits, Answers, Cancels
    <3> QED
      BY <1>0, <2>1, <3>1, <3>3, JobsKept
  <2> QED
    BY <1>17, <2>2, <2>3 DEF ReconfirmBookingStatus
<1> HIDE DEF Goal
<1>18. Goal
  BY <1>1, <1>2, <1>3, <1>4, <1>5, <1>7, <1>8, <1>9, <1>10, <1>12, <1>13, <1>14, <1>15,
     <1>16, <1>17 DEF Next, Handle, Answers
<1> QED
  BY <1>18 DEF Goal

(* Estimates and bookings are added by calls that have seen the request    *)
(* accepted.                                                               *)
LEMMA AcceptedStep ==
  ASSUME IInv, Next
  PROVE  AcceptedFirst'
<1> DEFINE Fine(r) == r \in responded /\ status[r] \in Attributable \cup {"CANCELLED"}
           new == based' \ based
<1>1. \A r \in new : Fine(r) /\ r \in Requests
  <2>1. ASSUME NEW w \in Workers, AddEstimate(w) \/ PlaceOrder(w)
        PROVE  \A r \in new : Fine(r) /\ r \in Requests
    <3>1. new \subseteq {job[w].request}
      BY <2>1 DEF AddEstimate, PlaceOrder
    <3>2. Fine(job[w].request) /\ job[w].request \in Requests
      BY <2>1 DEF AddEstimate, PlaceOrder, IInv, JobsFit, Fits
    <3> QED
      BY <3>1, <3>2
  <2>2. CASE UNCHANGED based
    BY <2>2
  <2>3. ASSUME NEW w \in Workers, NEW r \in Requests,
               \/ CreateChecked(w, r) \/ EstimateChecked(w, r) \/ ValidateBooking(w, r)
               \/ \E s \in {"PENDING_ARTISAN_RESPONSE", "ADMIN_REJECTED"} : ReviewRequest(w, r, s)
               \/ \E pc \in Answers : ArtisanCalls(w, r, pc)
               \/ \E role \in Role : CancelCalled(w, r, role)
        PROVE  UNCHANGED based
    BY <2>3 DEF CreateChecked, EstimateChecked, ValidateBooking, ReviewRequest, ArtisanCalls,
       CancelCalled
  <2>4. ASSUME NEW w \in Workers,
               \/ CreateInserted(w) \/ Respond(w) \/ StartWork(w) \/ CompleteWork(w)
               \/ CancelClaimed(w) \/ ReconfirmBookingStatus(w) \/ Notify(w)
               \/ ExpireStale(w) \/ Crash(w)
        PROVE  UNCHANGED based
    BY <2>4 DEF CreateInserted, Respond, StartWork, CompleteWork, CancelClaimed,
       ReconfirmBookingStatus, Notify, ExpireStale, Crash
  <2>5. ASSUME NEW r \in Requests, Age(r)
        PROVE  UNCHANGED based
    BY <2>5 DEF Age
  <2> HIDE DEF new
  <2> QED
    BY <2>1, <2>2, <2>3, <2>4, <2>5 DEF Next, Handle, Answers
<1>2. \A r \in based : Fine(r) /\ r \in Requests
  BY DEF IInv, TypeOK, AcceptedFirst
<1>3. \A r \in Requests : Fine(r) =>
        r \in responded' /\ status'[r] \in Attributable \cup {"CANCELLED"}
  BY StepRows, RowsKeep DEF IInv
<1> QED
  BY <1>1, <1>2, <1>3 DEF AcceptedFirst, Attributable

-----------------------------------------------------------------------------
(* The invariant and the theorems.                                         *)

LEMMA IInvInit ==
  ASSUME Init
  PROVE  IInv
<1>1. TypeOK
  BY NoJobType, StatusNames DEF Init, TypeOK, Statuses
<1>2. JobsFit /\ InsertsApart
  BY FitsIdle DEF Init, JobsFit, InsertsApart
<1>3. GateKept /\ AcceptedFirst
  BY DEF Init, GateKept, AcceptedFirst
<1>4. OneOpenPerPair
  BY StatusNames DEF Init, OneOpenPerPair
<1> QED
  BY <1>1, <1>2, <1>3, <1>4 DEF IInv

LEMMA IInvStep ==
  ASSUME IInv, [Next]_vars
  PROVE  IInv'
<1>1. CASE Next
  <2>1. TypeOK'
    BY <1>1, TypeStep DEF IInv
  <2>2. GateKept' /\ OneOpenPerPair'
    BY <1>1, StepRows, GateStep, OpenStep DEF IInv
  <2>3. JobsFit' /\ InsertsApart'
    BY <1>1, JobsStep
  <2>4. AcceptedFirst'
    BY <1>1, AcceptedStep
  <2> QED
    BY <2>1, <2>2, <2>3, <2>4 DEF IInv
<1>2. CASE UNCHANGED vars
  <2>0. /\ UNCHANGED <<status, reviewed, responded>>
        /\ UNCHANGED <<late, based, job>>
    BY <1>2 DEF vars, rows
  <2>1. TypeOK'
    BY <2>0 DEF IInv, TypeOK
  <2>2. JobsFit' /\ InsertsApart'
    BY <2>0 DEF IInv, JobsFit, InsertsApart
  <2>3. GateKept' /\ OneOpenPerPair'
    BY <2>0 DEF IInv, GateKept, OneOpenPerPair
  <2>4. AcceptedFirst'
    BY <2>0 DEF IInv, AcceptedFirst
  <2> QED
    BY <2>1, <2>2, <2>3, <2>4 DEF IInv
<1> QED
  BY <1>1, <1>2

LEMMA IInvAlways == Spec => []IInv
<1>1. Init => IInv
  BY IInvInit
<1>2. IInv /\ [Next]_vars => IInv'
  BY IInvStep
<1> QED
  BY <1>1, <1>2, PTL DEF Spec

(* The variables keep their types (TypeOK).                                *)
THEOREM TypeAlwaysOK == Spec => []TypeOK
<1>1. IInv => TypeOK
  BY DEF IInv
<1> QED
  BY <1>1, IInvAlways, PTL

(* A customer never has two open requests with one ustaad, however many    *)
(* createRequest calls run at once (OneOpenPerPair).                       *)
THEOREM AlwaysOneOpenPerPair == Spec => []OneOpenPerPair
<1>1. IInv => OneOpenPerPair
  BY DEF IInv
<1> QED
  BY <1>1, IInvAlways, PTL

(* Nothing gets past the admin unreviewed or past the ustaad unanswered,   *)
(* and nothing the ustaad answered expires (GateKept).                     *)
THEOREM GateAlwaysKept == Spec => []GateKept
<1>1. IInv => GateKept
  BY DEF IInv
<1> QED
  BY <1>1, IInvAlways, PTL

(* Every notice waiting to be sent is of something that happened           *)
(* (NoticesTrue).                                                          *)
THEOREM NoticesAlwaysTrue == Spec => []NoticesTrue
<1>1. IInv => NoticesTrue
  BY DEF IInv, JobsFit, Fits, NoticesTrue
<1> QED
  BY <1>1, IInvAlways, PTL

(* Orders are attributed, and estimates given, only for requests the       *)
(* ustaad has accepted (AcceptedFirst).                                    *)
THEOREM AlwaysAcceptedFirst == Spec => []AcceptedFirst
<1>1. IInv => AcceptedFirst
  BY DEF IInv
<1> QED
  BY <1>1, IInvAlways, PTL

(* A request that was declined, rejected, expired, completed or cancelled  *)
(* stays what it is, whatever a call that read it earlier then does, and   *)
(* the marks of the review and of the answer are never taken back.         *)
EndsKept ==
  /\ reviewed \subseteq reviewed'
  /\ responded \subseteq responded'
  /\ \A r \in Requests : status[r] \in EndStatus => status'[r] = status[r]

THEOREM EndedForGood == Spec => [][EndsKept]_vars
<1>1. ASSUME IInv, [Next]_vars PROVE EndsKept
  <2>1. CASE UNCHANGED vars
    BY <2>1 DEF vars, rows, EndsKept
  <2>2. CASE Next
    <3>1. RowStep
      BY <1>1, <2>2, StepRows
    <3>2. reviewed \subseteq reviewed'
      BY <3>1 DEF RowStep, rows, Created, Reviewed, Answered, Worked, Cancelled, Expired
    <3> QED
      BY <1>1, <3>1, <3>2, RowsKeep DEF IInv, EndsKept
  <2> QED
    BY <1>1, <2>1, <2>2
<1>2. IInv /\ [Next]_vars => [EndsKept]_vars
  BY <1>1
<1> QED
  BY <1>2, IInvAlways, PTL DEF Spec

(* The customer and the ustaad never wait for notices of two different     *)
(* ends of one request, whichever calls and sweeps raced for it.           *)
SameEndTold ==
  \A v, w \in Workers :
    job[v].pc \in {"notify", "notify_each"} /\ job[w].pc \in {"notify", "notify_each"} =>
      \A m \in job[v].notices, n \in job[w].notices :
        m.request = n.request /\ m.status \in EndStatus /\ n.status \in EndStatus
          => m.status = n.status

(* It follows from NoticesTrue: a notice of an end is sent only while that *)
(* end is the request's status, which then never changes.                  *)
THEOREM PartiesHearTheSameEnd == Spec => []SameEndTold
<1>1. NoticesTrue => SameEndTold
  BY DEF NoticesTrue, SameEndTold
<1> QED
  BY <1>1, NoticesAlwaysTrue, PTL

(* Every behaviour of the calls, sweeps and crashes is one that            *)
(* HireLifecycle allows (ImplementsLifecycle).                             *)
THEOREM LifecycleImplemented == Spec => ImplementsLifecycle
<1>1. Init => Lifecycle!HireInit
  BY DEF Init, Lifecycle!HireInit
<1>2. IInv /\ [Next]_vars => [Lifecycle!HireNext]_status
  <2> SUFFICES ASSUME IInv, [Next]_vars
               PROVE  [Lifecycle!HireNext]_status
    OBVIOUS
  <2>1. CASE UNCHANGED vars
    BY <2>1 DEF vars, rows
  <2>2. CASE RowStep
    BY <2>2 DEF RowStep, rows, Created, Reviewed, Answered, Worked, Cancelled, Expired,
       Lifecycle!HireNext
  <2> QED
    BY <2>1, <2>2, StepRows
<1> QED
  BY <1>1, <1>2, IInvAlways, PTL DEF Spec, ImplementsLifecycle, Lifecycle!HireSpec
=============================================================================
