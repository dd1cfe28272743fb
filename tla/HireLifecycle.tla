--------------------------- MODULE HireLifecycle ---------------------------
(***************************************************************************)
(* What a hire request promises its customer and its ustaad (decisions     *)
(* 0045 and 0055): the admin lets it through first, the ustaad answers     *)
(* once, a request that has ended stays ended, and a customer never has    *)
(* two open requests with one ustaad.  HireRequests implements it with     *)
(* stale reads, overlapping sweeps and crashes.                            *)
(***************************************************************************)
CONSTANTS
  Requests,    \* rows of artisan_hire_requests there may be
  Pairs,       \* customer and ustaad pairs
  PairOf       \* the pair a request is of

VARIABLE status   \* "none" before the row exists

Status == {"none", "PENDING_ADMIN_REVIEW", "ADMIN_REJECTED", "PENDING_ARTISAN_RESPONSE",
           "ARTISAN_DECLINED", "EXPIRED", "ACCEPTED_BY_ARTISAN", "IN_PROGRESS",
           "COMPLETED", "CANCELLED"}

OpenStatus == {"PENDING_ADMIN_REVIEW", "PENDING_ARTISAN_RESPONSE",
               "ACCEPTED_BY_ARTISAN", "IN_PROGRESS"}

EndStatus == {"ADMIN_REJECTED", "ARTISAN_DECLINED", "EXPIRED", "COMPLETED", "CANCELLED"}

OpenWith(pair) == {r \in Requests : PairOf[r] = pair /\ status[r] \in OpenStatus}

HireInit == status = [r \in Requests |-> "none"]

Move(r, from, to) == status[r] = from /\ status' = [status EXCEPT ![r] = to]

Create(r) == OpenWith(PairOf[r]) = {} /\ Move(r, "none", "PENDING_ADMIN_REVIEW")

Review(r) ==
  \/ Move(r, "PENDING_ADMIN_REVIEW", "PENDING_ARTISAN_RESPONSE")
  \/ Move(r, "PENDING_ADMIN_REVIEW", "ADMIN_REJECTED")

Answer(r) ==
  \/ Move(r, "PENDING_ARTISAN_RESPONSE", "ACCEPTED_BY_ARTISAN")
  \/ Move(r, "PENDING_ARTISAN_RESPONSE", "ARTISAN_DECLINED")

Work(r) ==
  \/ Move(r, "ACCEPTED_BY_ARTISAN", "IN_PROGRESS")
  \/ Move(r, "IN_PROGRESS", "COMPLETED")

Cancel(r) == \E from \in OpenStatus : Move(r, from, "CANCELLED")

(* Any number of unanswered requests end at once.                          *)
Expire(R) ==
  /\ \A r \in R : status[r] = "PENDING_ARTISAN_RESPONSE"
  /\ status' = [r \in Requests |-> IF r \in R THEN "EXPIRED" ELSE status[r]]

HireNext ==
  \/ \E r \in Requests : Create(r) \/ Review(r) \/ Answer(r) \/ Work(r) \/ Cancel(r)
  \/ \E R \in SUBSET Requests : Expire(R)

HireSpec == HireInit /\ [][HireNext]_status
=============================================================================
