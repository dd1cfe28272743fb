---------------------------- MODULE HireRequests ----------------------------
(***************************************************************************)
(* Hire requests as the backend handles them (hire-requests.service.ts,    *)
(* hire-request-expiry.sweep.ts): a call reads the request, decides on     *)
(* what it read, writes with one guarded UPDATE, and notifies afterwards;  *)
(* calls of the customer, the ustaad, admins and overlapping sweeps        *)
(* interleave at every await and may die there.  Checkouts that attribute  *)
(* an order to a request (checkout.service.ts) run beside them.            *)
(*                                                                         *)
(* A verified and available ustaad, and the caller's role and ownership,   *)
(* are conditions that only refuse; a refused call is one not made.        *)
(***************************************************************************)
EXTENDS FiniteSets, Naturals

CONSTANTS
  Requests,    \* rows of artisan_hire_requests there may be
  Pairs,       \* customer and ustaad pairs
  PairOf,      \* the pair a request is of
  Workers,     \* concurrent calls and sweeps
  NoRequest

ASSUME HireAssumption ==
  /\ PairOf \in [Requests -> Pairs]
  /\ NoRequest \notin Requests

VARIABLES
  status,      \* artisan_hire_requests.status, "none" before the row exists
  reviewed,    \* requests with admin_reviewed_at
  responded,   \* requests with artisan_responded_at
  late,        \* requests let through more than 48 hours ago
  based,       \* requests an estimate, or an order's booking_id, names
  job          \* what each worker is doing

rows == <<status, reviewed, responded>>
vars == <<rows, late, based, job>>

Lifecycle == INSTANCE HireLifecycle

Status == Lifecycle!Status
OpenStatus == Lifecycle!OpenStatus
EndStatus == Lifecycle!EndStatus

ActiveEngagement == {"ACCEPTED_BY_ARTISAN", "IN_PROGRESS"}

Attributable == {"ACCEPTED_BY_ARTISAN", "IN_PROGRESS", "COMPLETED"}

Role == {"customer", "artisan", "admin"}

Notice == [to : {"customer", "artisan"}, request : Requests, status : Status \ {"none"}]

JobStep == {"idle", "insert", "accept", "decline", "start", "complete", "cancel",
            "artisan_cancel", "estimate", "reconfirm", "attribute", "notify", "notify_each"}

(* notices: what the call sends once its UPDATE has gone through.          *)
Job == [pc : JobStep, request : Requests \cup {NoRequest}, notices : SUBSET Notice]

NoJob == [pc |-> "idle", request |-> NoRequest, notices |-> {}]

Init ==
  /\ status = [r \in Requests |-> "none"]
  /\ reviewed = {}
  /\ responded = {}
  /\ late = {}
  /\ based = {}
  /\ job = [w \in Workers |-> NoJob]

-----------------------------------------------------------------------------
Begin(w, pc, r, notices) ==
  job' = [job EXCEPT ![w] = [pc |-> pc, request |-> r, notices |-> notices]]

Finish(w) == job' = [job EXCEPT ![w] = NoJob]

Goto(w, pc) == job' = [job EXCEPT ![w].pc = pc]

To(party, r, s) == [to |-> party, request |-> r, status |-> s]

SetStatus(r, s) == status' = [status EXCEPT ![r] = s]

-----------------------------------------------------------------------------
(* createRequest: a count, then an INSERT that the partial unique index    *)
(* refuses if another open request of the pair got in between.             *)
CreateChecked(w, r) ==
  /\ job[w].pc = "idle"
  /\ status[r] = "none"
  /\ \A v \in Workers : job[v].request # r
  /\ Lifecycle!OpenWith(PairOf[r]) = {}
  /\ Begin(w, "insert", r, {})
  /\ UNCHANGED <<rows, late, based>>

\* Mutant: only the count stands against a second open request.
InsertUnindexed(w) ==
  /\ job[w].pc = "insert"
  /\ SetStatus(job[w].request, "PENDING_ADMIN_REVIEW")
  /\ Finish(w)
  /\ UNCHANGED <<reviewed, responded, late, based>>

CreateInserted(w) ==
  LET r == job[w].request IN
  /\ job[w].pc = "insert"
  /\ IF Lifecycle!OpenWith(PairOf[r]) = {}
       THEN SetStatus(r, "PENDING_ADMIN_REVIEW") ELSE UNCHANGED status
  /\ Finish(w)
  /\ UNCHANGED <<reviewed, responded, late, based>>

\* Mutant: the review is not guarded on the status.
ReviewAnyOpen(w, r, s) ==
  /\ job[w].pc = "idle"
  /\ status[r] \in OpenStatus
  /\ SetStatus(r, s)
  /\ reviewed' = reviewed \cup {r}
  /\ Begin(w, "notify", r, {To("artisan", r, s)})
  /\ UNCHANGED <<responded, late, based>>

(* reviewRequest: one guarded UPDATE.                                      *)
ReviewRequest(w, r, s) ==
  /\ job[w].pc = "idle"
  /\ status[r] = "PENDING_ADMIN_REVIEW"
  /\ SetStatus(r, s)
  /\ reviewed' = reviewed \cup {r}
  /\ Begin(w, "notify", r, {To("artisan", r, s)})
  /\ UNCHANGED <<responded, late, based>>

(* The response window closes.                                             *)
Age(r) ==
  /\ status[r] = "PENDING_ARTISAN_RESPONSE"
  /\ r \notin late
  /\ late' = late \cup {r}
  /\ UNCHANGED <<rows, based, job>>

(* What each of the ustaad's calls turns the request into.                 *)
OutcomeOf(pc) ==
  CASE pc = "accept" -> "ACCEPTED_BY_ARTISAN"
    [] pc = "decline" -> "ARTISAN_DECLINED"
    [] pc = "start" -> "IN_PROGRESS"
    [] OTHER -> "COMPLETED"

(* The ustaad's calls read the request first and check only ownership.  An *)
(* answer compares the window with the time its call started.              *)
ArtisanCalls(w, r, pc) ==
  /\ job[w].pc = "idle"
  /\ status[r] # "none"
  /\ pc \in {"accept", "decline"} => r \notin late
  /\ Begin(w, pc, r, {To("customer", r, OutcomeOf(pc))})
  /\ UNCHANGED <<rows, late, based>>

(* cancel: an ustaad may cancel what they see and need not decline; they   *)
(* hear of the others' cancels if the row read here is visible to them.    *)
CancelCalled(w, r, role) ==
  LET visible == r \in reviewed /\ status[r] # "ADMIN_REJECTED" IN
  /\ job[w].pc = "idle"
  /\ status[r] # "none"
  /\ role = "artisan" => visible /\ status[r] # "PENDING_ARTISAN_RESPONSE"
  /\ Begin(w, IF role = "artisan" THEN "artisan_cancel" ELSE "cancel", r,
           {To(p, r, "CANCELLED") :
              p \in {q \in {"customer", "artisan"} : q # role /\ (q = "artisan" => visible)}})
  /\ UNCHANGED <<rows, late, based>>

-----------------------------------------------------------------------------
\* Mutant: the notice goes out although the UPDATE matched no row.
ClaimUncounted(w, from, s) ==
  LET r == job[w].request IN
  /\ IF status[r] \in from THEN SetStatus(r, s) ELSE UNCHANGED status
  /\ Goto(w, "notify")

(* claimTransition: an UPDATE guarded on the status; a call that missed    *)
(* its row ends there.                                                     *)
ClaimTransition(w, from, s) ==
  LET r == job[w].request IN
  IF status[r] \in from
    THEN SetStatus(r, s) /\ Goto(w, "notify")
    ELSE UNCHANGED status /\ Finish(w)

(* acceptRequest, declineRequest: the same UPDATE sets artisan_responded_at.*)
Respond(w) ==
  /\ job[w].pc \in {"accept", "decline"}
  /\ ClaimTransition(w, {"PENDING_ARTISAN_RESPONSE"}, OutcomeOf(job[w].pc))
  /\ responded' = IF status' = status THEN responded ELSE responded \cup {job[w].request}
  /\ UNCHANGED <<reviewed, late, based>>

StartWork(w) ==
  /\ job[w].pc = "start"
  /\ ClaimTransition(w, {"ACCEPTED_BY_ARTISAN"}, "IN_PROGRESS")
  /\ UNCHANGED <<reviewed, responded, late, based>>

CompleteWork(w) ==
  /\ job[w].pc = "complete"
  /\ ClaimTransition(w, {"IN_PROGRESS"}, "COMPLETED")
  /\ UNCHANGED <<reviewed, responded, late, based>>

CancelClaimed(w) ==
  /\ job[w].pc \in {"cancel", "artisan_cancel"}
  /\ ClaimTransition(w, IF job[w].pc = "cancel" THEN OpenStatus ELSE ActiveEngagement,
                     "CANCELLED")
  /\ UNCHANGED <<reviewed, responded, late, based>>

\* Mutant: the sweep expires every open request past the window.
ExpireAllOpen(w) ==
  LET R == {r \in late : status[r] \in OpenStatus} IN
  /\ job[w].pc = "idle"
  /\ R # {}
  /\ status' = [r \in Requests |-> IF r \in R THEN "EXPIRED" ELSE status[r]]
  /\ Begin(w, "notify_each", NoRequest,
           {To(p, r, "EXPIRED") : p \in {"customer", "artisan"}, r \in R})
  /\ UNCHANGED <<reviewed, responded, late, based>>

\* Mutant: the sweep skips requests that some call is working on.
ExpireUntouched(w) ==
  LET R == {r \in late : /\ status[r] = "PENDING_ARTISAN_RESPONSE"
                         /\ \A v \in Workers : job[v].request # r} IN
  /\ job[w].pc = "idle"
  /\ R # {}
  /\ status' = [r \in Requests |-> IF r \in R THEN "EXPIRED" ELSE status[r]]
  /\ Begin(w, "notify_each", NoRequest,
           {To(p, r, "EXPIRED") : p \in {"customer", "artisan"}, r \in R})
  /\ UNCHANGED <<reviewed, responded, late, based>>

(* expireStaleResponses: all of them in one guarded UPDATE.                *)
ExpireStale(w) ==
  LET R == {r \in late : status[r] = "PENDING_ARTISAN_RESPONSE"} IN
  /\ job[w].pc = "idle"
  /\ R # {}
  /\ status' = [r \in Requests |-> IF r \in R THEN "EXPIRED" ELSE status[r]]
  /\ Begin(w, "notify_each", NoRequest,
           {To(p, r, "EXPIRED") : p \in {"customer", "artisan"}, r \in R})
  /\ UNCHANGED <<reviewed, responded, late, based>>

(* A notice is sent.  A sweep goes on when one throws, every other call    *)
(* stops there (Crash).                                                    *)
Notify(w) ==
  /\ job[w].pc \in {"notify", "notify_each"}
  /\ \/ job[w].notices = {} /\ Finish(w)
     \/ \E n \in job[w].notices : job' = [job EXCEPT ![w].notices = @ \ {n}]
  /\ UNCHANGED <<rows, late, based>>

-----------------------------------------------------------------------------
(* addEstimate and the booking of a checkout: checks on a read, then an    *)
(* INSERT into another table.                                              *)

\* Mutant: any open request can be estimated.
EstimateOpen(w, r) ==
  /\ job[w].pc = "idle"
  /\ status[r] \in OpenStatus
  /\ Begin(w, "estimate", r, {})
  /\ UNCHANGED <<rows, late, based>>

EstimateChecked(w, r) ==
  /\ job[w].pc = "idle"
  /\ status[r] \in ActiveEngagement
  /\ Begin(w, "estimate", r, {})
  /\ UNCHANGED <<rows, late, based>>

AddEstimate(w) ==
  /\ job[w].pc = "estimate"
  /\ based' = based \cup {job[w].request}
  /\ Finish(w)
  /\ UNCHANGED <<rows, late>>

ValidateBooking(w, r) ==
  /\ job[w].pc = "idle"
  /\ status[r] \in Attributable
  /\ Begin(w, "reconfirm", r, {})
  /\ UNCHANGED <<rows, late, based>>

ReconfirmBookingStatus(w) ==
  /\ job[w].pc = "reconfirm"
  /\ IF status[job[w].request] \in Attributable THEN Goto(w, "attribute") ELSE Finish(w)
  /\ UNCHANGED <<rows, late, based>>

PlaceOrder(w) ==
  /\ job[w].pc = "attribute"
  /\ based' = based \cup {job[w].request}
  /\ Finish(w)
  /\ UNCHANGED <<rows, late>>

Crash(w) ==
  /\ job[w].pc # "idle"
  /\ Finish(w)
  /\ UNCHANGED <<rows, late, based>>

-----------------------------------------------------------------------------
Handle(w) ==
  \/ CreateInserted(w) \/ Respond(w) \/ StartWork(w) \/ CompleteWork(w)
  \/ CancelClaimed(w) \/ AddEstimate(w) \/ ReconfirmBookingStatus(w) \/ PlaceOrder(w)
  \/ Notify(w)

Next ==
  \/ \E r \in Requests :
       \/ Age(r)
       \/ \E w \in Workers :
            \/ CreateChecked(w, r)
            \/ \E s \in {"PENDING_ARTISAN_RESPONSE", "ADMIN_REJECTED"} : ReviewRequest(w, r, s)
            \/ \E pc \in {"accept", "decline", "start", "complete"} : ArtisanCalls(w, r, pc)
            \/ \E role \in Role : CancelCalled(w, r, role)
            \/ EstimateChecked(w, r)
            \/ ValidateBooking(w, r)
  \/ \E w \in Workers : Handle(w) \/ ExpireStale(w) \/ Crash(w)

Spec == Init /\ [][Next]_vars

-----------------------------------------------------------------------------
(* Properties.                                                             *)

(* Every variable keeps its type.                                          *)
TypeOK ==
  /\ status \in [Requests -> Status]
  /\ reviewed \subseteq Requests
  /\ responded \subseteq Requests
  /\ late \subseteq Requests
  /\ based \subseteq Requests
  /\ job \in [Workers -> Job]

(* Two concurrent createRequest calls never leave a customer with two open *)
(* requests for one ustaad (decision 0055 rule 7).                         *)
OneOpenPerPair ==
  \A r, s \in Requests :
    PairOf[r] = PairOf[s] /\ status[r] \in OpenStatus /\ status[s] \in OpenStatus => r = s

(* The admin's gate and the ustaad's answer leave their marks with the     *)
(* status, whoever else acts on the row at the same time: what is past     *)
(* review was reviewed, what was answered says so, and what expired was    *)
(* never answered (the sweep and an answer do not both win).               *)
GateKept ==
  \A r \in Requests :
    /\ status[r] \in {"none", "PENDING_ADMIN_REVIEW"} => r \notin reviewed
    /\ status[r] \notin {"none", "PENDING_ADMIN_REVIEW", "CANCELLED"} => r \in reviewed
    /\ status[r] \in {"ACCEPTED_BY_ARTISAN", "IN_PROGRESS", "COMPLETED", "ARTISAN_DECLINED"}
         => r \in responded
    /\ status[r] \in {"none", "PENDING_ADMIN_REVIEW", "ADMIN_REJECTED",
                      "PENDING_ARTISAN_RESPONSE", "EXPIRED"} => r \notin responded

(* Nobody is told of an end that did not happen, or of an acceptance the   *)
(* ustaad never gave: of the calls that race for one request only those    *)
(* whose UPDATE counted a row send a notice.                               *)
NoticesTrue ==
  \A w \in Workers : job[w].pc \in {"notify", "notify_each"} =>
    \A n \in job[w].notices :
      /\ n.status \in EndStatus => status[n.request] = n.status
      /\ n.status \in Attributable => n.request \in responded

(* Orders are attributed, and estimates given, only for requests the       *)
(* ustaad has accepted, though both check a copy of the row.               *)
AcceptedFirst ==
  \A r \in based :
    r \in responded /\ status[r] \in Attributable \cup {"CANCELLED"}

(* Every step of every call is one of the request's life or invisible.     *)
ImplementsLifecycle == Lifecycle!HireSpec

-----------------------------------------------------------------------------
(* Fairness: some call goes on, time passes, the cron keeps sweeping.      *)
Fairness ==
  /\ WF_vars(\E r \in Requests : Age(r))
  /\ WF_vars(\E w \in Workers : Handle(w))
  /\ SF_vars(\E w \in Workers : ExpireStale(w))

FairSpec == Spec /\ Fairness

(* A request never waits on the ustaad forever: someone answers, cancels   *)
(* or the sweep expires it, however calls overlap and die.                 *)
ResponseEnds ==
  \A r \in Requests :
    status[r] = "PENDING_ARTISAN_RESPONSE" ~> status[r] # "PENDING_ARTISAN_RESPONSE"
=============================================================================
