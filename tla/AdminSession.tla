---------------------------- MODULE AdminSession ----------------------------
(***************************************************************************)
(* How the admin panel keeps one session in several browser tabs           *)
(* (tokenRefresh.ts, apiClient.ts, AdminLayout.tsx,                        *)
(* useSessionBootstrap.ts) over a backend that rotates refresh tokens      *)
(* (auth.service.ts): a tab refreshes once for all its requests, tabs take *)
(* turns under a Web Lock, and localStorage is theirs together.  Answers   *)
(* may be late or lost.  A tab may be reloaded at any moment; when it has  *)
(* loaded it asks who is signed in, and throws the tokens away, lock or no *)
(* lock, if it gets no good answer.                                        *)
(*                                                                         *)
(* A pair of tokens is a number, 0 for none.  An access token is valid for *)
(* fifteen minutes and an account that is active: here a request may be    *)
(* refused at any moment.  A refresh token is valid until it is revoked.   *)
(* An admin is assumed to sign in again only once every tab has seen the   *)
(* session end.                                                            *)
(***************************************************************************)
EXTENDS Naturals

CONSTANTS
  Tabs,
  Requests,    \* API requests of the tabs
  TabOf,       \* the tab a request is of
  Nobody,
  MaxPairs     \* bound on the pairs issued

ASSUME SessionAssumption ==
  /\ TabOf \in [Requests -> Tabs]
  /\ Nobody \notin Tabs
  /\ MaxPairs \in Nat

VARIABLES
  stored,    \* the pair in localStorage
  lock,      \* the tab that holds the Web Lock
  request,   \* the requests' state
  flight,    \* inFlight of each tab
  leaving,   \* a tab's log out, and the last clearSession of a failed load
  page,      \* a tab's page: open, loading or asking for /auth/me
  issued,    \* pairs issued so far
  revoked,   \* refresh_tokens.is_revoked
  serving,   \* POST /auth/refresh of each tab
  revoking,  \* tokens of POST /auth/logout calls under way
  failed,    \* history: a refresh ended without its pair, its access token
             \* was refused, or a revoke was lost
  dropped    \* history, until failed: pairs thrown away by a failed load

tabs == <<stored, lock, request, flight, leaving, page>>
tokens == <<issued, revoked>>
history == <<failed, dropped>>
vars == <<tabs, tokens, serving, revoking, history>>

Idle == [pc |-> "idle", bearer |-> 0, retry |-> FALSE]

(* stale: the access token that was refused.                               *)
NoFlight == [pc |-> "none", stale |-> 0]

NoCall == [pc |-> "none", token |-> 0, new |-> 0]

(* Once something has failed, the history before it no longer matters.     *)
Fails == failed' = TRUE /\ dropped' = {}

(* An admin who has signed in.                                             *)
Init ==
  /\ stored = 1
  /\ lock = Nobody
  /\ request = [q \in Requests |-> Idle]
  /\ flight = [t \in Tabs |-> NoFlight]
  /\ leaving = [t \in Tabs |-> "no"]
  /\ page = [t \in Tabs |-> "open"]
  /\ issued = 1
  /\ revoked = {}
  /\ serving = [t \in Tabs |-> NoCall]
  /\ revoking = {}
  /\ failed = FALSE
  /\ dropped = {}

-----------------------------------------------------------------------------
(* Requests and the response interceptor.                                  *)
Send(q) ==
  /\ request[q] = Idle
  /\ page[TabOf[q]] = "open"
  /\ request' = [request EXCEPT ![q] = [pc |-> "sent", bearer |-> stored, retry |-> FALSE]]
  /\ UNCHANGED <<stored, lock, flight, leaving, page, tokens, serving, revoking, history>>

(* Answered, with success or, on an open page, any error but 401.          *)
Done(q) ==
  /\ request[q].pc = "sent"
  /\ request' = [request EXCEPT ![q] = Idle]
  /\ page' = [page EXCEPT ![TabOf[q]] = "open"]
  /\ UNCHANGED <<stored, lock, flight, leaving, tokens, serving, revoking, history>>

(* A 401 joins the tab's refresh, or starts it.                            *)
Unauthorized(q) ==
  LET t == TabOf[q] IN
  /\ request[q].pc = "sent"
  /\ ~request[q].retry
  /\ request' = [request EXCEPT ![q] = [pc |-> "waiting", bearer |-> 0, retry |-> FALSE]]
  /\ flight' = IF flight[t].pc # "none" THEN flight
               ELSE [flight EXCEPT ![t] = [pc |-> "queued", stale |-> request[q].bearer]]
  /\ UNCHANGED <<stored, lock, leaving, page, tokens, serving, revoking, history>>

(* endSession, of a refresh that failed or of a retry that was refused;    *)
(* when it was for /auth/me, clearSession follows.                         *)
EndSession(q) ==
  LET t == TabOf[q] IN
  /\ \/ request[q].pc = "ending" /\ UNCHANGED history
     \/ request[q].pc = "sent" /\ request[q].retry /\ Fails
  /\ request' = [request EXCEPT ![q] = Idle]
  /\ stored' = 0
  /\ leaving' = IF page[t] = "asking" THEN [leaving EXCEPT ![t] = "clearing"] ELSE leaving
  /\ page' = [page EXCEPT ![t] = "open"]
  /\ UNCHANGED <<lock, flight, tokens, serving, revoking>>

-----------------------------------------------------------------------------
(* A page that has loaded (useSessionBootstrap).                           *)

(* Without a token it goes to the login page,                              *)
NoSession(t) ==
  /\ page[t] = "loading"
  /\ stored = 0
  /\ page' = [page EXCEPT ![t] = "open"]
  /\ UNCHANGED <<stored, lock, request, flight, leaving, tokens, serving, revoking, history>>

(* with one it shows nothing until GET /auth/me is answered.               *)
GetMe(q) ==
  /\ page[TabOf[q]] = "loading"
  /\ stored # 0
  /\ request' = [request EXCEPT ![q] = [pc |-> "sent", bearer |-> stored, retry |-> FALSE]]
  /\ page' = [page EXCEPT ![TabOf[q]] = "asking"]
  /\ UNCHANGED <<stored, lock, flight, leaving, tokens, serving, revoking, history>>

(* Any error but a 401, of the backend or of the network, or another role  *)
(* than an admin's: clearSession, under no lock and with nothing revoked.  *)
LoadFailed(q) ==
  /\ request[q].pc = "sent"
  /\ page[TabOf[q]] = "asking"
  /\ request' = [request EXCEPT ![q] = Idle]
  /\ page' = [page EXCEPT ![TabOf[q]] = "open"]
  /\ stored' = 0
  /\ dropped' = IF failed THEN {} ELSE dropped \cup ({stored} \ {0})
  /\ UNCHANGED <<lock, flight, leaving, tokens, serving, revoking, failed>>

-----------------------------------------------------------------------------
(* The refresh.                                                            *)

(* The flight has landed with an access token, or 0: every request that    *)
(* shares it is sent again, the last time, or ends the session; a log out  *)
(* that awaited it goes on.                                                *)
Settle(t, access) ==
  /\ flight' = [flight EXCEPT ![t] = NoFlight]
  /\ request' =
       [q \in Requests |->
          IF TabOf[q] = t /\ request[q].pc = "waiting"
            THEN IF access = 0 THEN [request[q] EXCEPT !.pc = "ending"]
                 ELSE [pc |-> "sent", bearer |-> 0, retry |-> TRUE]
            ELSE request[q]]
  /\ leaving' = [leaving EXCEPT ![t] = IF @ = "await" THEN "queued" ELSE @]

\* Mutant: refreshes of different tabs do not take turns.
RefreshUnlocked(t) ==
  /\ flight[t].pc = "queued"
  /\ stored # 0 /\ stored = flight[t].stale
  /\ lock' = t
  /\ flight' = [flight EXCEPT ![t].pc = "posted"]
  /\ serving' = [serving EXCEPT ![t] = [pc |-> "sent", token |-> stored, new |-> 0]]
  /\ UNCHANGED <<stored, request, leaving, page, tokens, revoking, history>>

(* refreshUnderLock: nobody else has refreshed, so this tab does.          *)
Refresh(t) ==
  /\ flight[t].pc = "queued"
  /\ lock = Nobody
  /\ stored # 0 /\ stored = flight[t].stale
  /\ lock' = t
  /\ flight' = [flight EXCEPT ![t].pc = "posted"]
  /\ serving' = [serving EXCEPT ![t] = [pc |-> "sent", token |-> stored, new |-> 0]]
  /\ UNCHANGED <<stored, request, leaving, page, tokens, revoking, history>>

(* Another tab has refreshed, or has ended the session.                    *)
UseStored(t) ==
  /\ flight[t].pc = "queued"
  /\ lock = Nobody
  /\ stored = 0 \/ stored # flight[t].stale
  /\ UNCHANGED stored
  /\ Settle(t, stored)
  /\ UNCHANGED <<lock, page, tokens, serving, revoking, history>>

(* setTokens under the lock, or the error the backend answered.            *)
Refreshed(t) ==
  LET new == serving[t].new IN
  /\ flight[t].pc = "posted"
  /\ serving[t].pc = "answer"
  /\ stored' = IF new = 0 THEN stored ELSE new
  /\ Settle(t, new)
  /\ lock' = Nobody
  /\ serving' = [serving EXCEPT ![t] = NoCall]
  /\ IF new = 0 THEN Fails ELSE UNCHANGED history
  /\ UNCHANGED <<page, tokens, revoking>>

(* The tab lets go of its call: the request is lost, or the backend has    *)
(* rotated the token or does it yet, and the pair reaches nobody.          *)
LetGo(t) ==
  /\ serving' = [serving EXCEPT ![t] = NoCall]
  /\ revoked' \in {revoked, revoked \cup {serving[t].token}}
  /\ Fails
  /\ UNCHANGED issued

\* Mutant: a refresh waits for its answer, however long it takes.
TimedOutWhenAnswered(t) ==
  /\ flight[t].pc = "posted"
  /\ serving[t].pc = "answer"
  /\ UNCHANGED stored
  /\ Settle(t, 0)
  /\ lock' = Nobody
  /\ LetGo(t)
  /\ UNCHANGED <<page, revoking>>

(* REFRESH_TIMEOUT_MS, or the network's own error.                         *)
TimedOut(t) ==
  /\ flight[t].pc = "posted"
  /\ UNCHANGED stored
  /\ Settle(t, 0)
  /\ lock' = Nobody
  /\ LetGo(t)
  /\ UNCHANGED <<page, revoking>>

(* A tab is reloaded, or closed and perhaps opened again: its requests are *)
(* dropped, its lock is free.                                              *)
Reload(t) ==
  /\ request' = [q \in Requests |-> IF TabOf[q] = t THEN Idle ELSE request[q]]
  /\ flight' = [flight EXCEPT ![t] = NoFlight]
  /\ leaving' = [leaving EXCEPT ![t] = "no"]
  /\ lock' = IF lock = t THEN Nobody ELSE lock
  /\ IF flight[t].pc = "posted" THEN LetGo(t) ELSE UNCHANGED <<tokens, serving, history>>
  /\ page' = [page EXCEPT ![t] = "loading"]
  /\ UNCHANGED <<stored, revoking>>

-----------------------------------------------------------------------------
(* Log out and sign in.                                                    *)
LogoutClicked(t) ==
  /\ page[t] = "open"
  /\ leaving[t] = "no"
  /\ leaving' = [leaving EXCEPT ![t] = IF flight[t].pc = "none" THEN "queued" ELSE "await"]
  /\ UNCHANGED <<stored, lock, request, flight, page, tokens, serving, revoking, history>>

\* Mutant: the log out waits for this tab's refresh only.
TakeUnlocked(t) ==
  /\ leaving[t] = "queued"
  /\ leaving' = [leaving EXCEPT ![t] = "clearing"]
  /\ revoking' = revoking \cup ({stored} \ {0})
  /\ stored' = 0
  /\ UNCHANGED <<lock, request, flight, page, tokens, serving, history>>

(* takeRefreshTokenForLogout reads and clears in one turn of the lock; the *)
(* revoke call is sent and not awaited.                                    *)
TakeForLogout(t) ==
  /\ leaving[t] = "queued"
  /\ lock = Nobody
  /\ leaving' = [leaving EXCEPT ![t] = "clearing"]
  /\ revoking' = revoking \cup ({stored} \ {0})
  /\ stored' = 0
  /\ UNCHANGED <<lock, request, flight, page, tokens, serving, history>>

(* clearSession: localStorage is cleared once more.                        *)
ClearSession(t) ==
  /\ leaving[t] = "clearing"
  /\ leaving' = [leaving EXCEPT ![t] = "no"]
  /\ stored' = 0
  /\ UNCHANGED <<lock, request, flight, page, tokens, serving, revoking, history>>

Noticed ==
  /\ \A q \in Requests : request[q].pc \notin {"waiting", "ending"}
  /\ \A t \in Tabs : flight[t] = NoFlight /\ leaving[t] = "no"

(* A pair of tokens is issued.                                             *)
GenerateTokenPair ==
  /\ issued < MaxPairs
  /\ issued' = issued + 1
  /\ UNCHANGED revoked

Login ==
  /\ stored = 0
  /\ Noticed
  /\ GenerateTokenPair
  /\ stored' = issued'
  /\ UNCHANGED <<lock, request, flight, leaving, page, serving, revoking, history>>

-----------------------------------------------------------------------------
(* The backend.                                                            *)
At(t, pc) == serving' = [serving EXCEPT ![t].pc = pc]

Answer(t, new) ==
  serving' = [serving EXCEPT ![t] = [pc |-> "answer", token |-> @.token, new |-> new]]

(* refresh reads the row.                                                  *)
FindToken(t) ==
  /\ serving[t].pc = "sent"
  /\ At(t, IF serving[t].token \in revoked THEN "reuse" ELSE "rotate")
  /\ UNCHANGED <<tabs, tokens, revoking, history>>

(* Reuse detection.                                                        *)
RevokeAll(t) ==
  /\ serving[t].pc = "reuse"
  /\ revoked' = 1..issued
  /\ Answer(t, 0)
  /\ UNCHANGED <<tabs, issued, revoking, history>>

\* Mutant: the old token is not saved as revoked.
RotateUnsaved(t) ==
  /\ serving[t].pc = "rotate"
  /\ At(t, "issue")
  /\ UNCHANGED <<tabs, tokens, revoking, history>>

Rotate(t) ==
  /\ serving[t].pc = "rotate"
  /\ revoked' = revoked \cup {serving[t].token}
  /\ At(t, "issue")
  /\ UNCHANGED <<tabs, issued, revoking, history>>

Issue(t) ==
  /\ serving[t].pc = "issue"
  /\ GenerateTokenPair
  /\ Answer(t, issued')
  /\ UNCHANGED <<tabs, revoking, history>>

(* An error of the backend, or after the rotation an expired token or a    *)
(* deactivated account.                                                    *)
Refuse(t) ==
  /\ serving[t].pc \in {"sent", "rotate", "issue"}
  /\ Answer(t, 0)
  /\ UNCHANGED <<tabs, tokens, revoking, history>>

(* logout                                                                  *)
Revoke(n) ==
  /\ revoked' = revoked \cup {n}
  /\ revoking' = revoking \ {n}
  /\ UNCHANGED <<tabs, issued, serving, history>>

RevokeLost(n) ==
  /\ revoking' = revoking \ {n}
  /\ Fails
  /\ UNCHANGED <<tabs, tokens, serving>>

-----------------------------------------------------------------------------
Interceptor(q) == Send(q) \/ Done(q) \/ Unauthorized(q) \/ EndSession(q)

Bootstrap(q) == GetMe(q) \/ LoadFailed(q)

Tab(t) ==
  \/ Refresh(t) \/ UseStored(t) \/ Refreshed(t) \/ TimedOut(t) \/ Reload(t)
  \/ NoSession(t) \/ LogoutClicked(t) \/ TakeForLogout(t) \/ ClearSession(t)

Backend(t) == FindToken(t) \/ RevokeAll(t) \/ Rotate(t) \/ Issue(t) \/ Refuse(t)

Next ==
  \/ \E q \in Requests : Interceptor(q) \/ Bootstrap(q)
  \/ \E t \in Tabs : Tab(t) \/ Backend(t)
  \/ Login
  \/ \E n \in revoking : Revoke(n) \/ RevokeLost(n)

Spec == Init /\ [][Next]_vars

-----------------------------------------------------------------------------
Pair == 0..issued

Request == [pc : {"idle", "sent", "waiting", "ending"}, bearer : Nat, retry : BOOLEAN]

Flight == [pc : {"none", "queued", "posted"}, stale : Nat]

Call == [pc : {"none", "sent", "reuse", "rotate", "issue", "answer"}, token : Nat, new : Nat]

(* Every variable keeps its type, and no pair is known before it is issued. *)
TypeOK ==
  /\ stored \in Pair
  /\ lock \in Tabs \cup {Nobody}
  /\ request \in [Requests -> Request]
  /\ flight \in [Tabs -> Flight]
  /\ leaving \in [Tabs -> {"no", "await", "queued", "clearing"}]
  /\ page \in [Tabs -> {"open", "loading", "asking"}]
  /\ issued \in Nat
  /\ revoked \subseteq 1..issued
  /\ serving \in [Tabs -> Call]
  /\ \A t \in Tabs : serving[t].token \in Pair /\ serving[t].new \in Pair
  /\ \A t \in Tabs : serving[t].pc # "none" => serving[t].token # 0
  /\ revoking \subseteq 1..issued
  /\ failed \in BOOLEAN
  /\ dropped \subseteq 1..issued

(* Two refreshes with the same token "would log the admin out everywhere"  *)
(* (tokenRefresh.ts:10): the tabs never present a token they have had      *)
(* rotated or are revoking, whatever they do at once, unless something     *)
(* failed.                                                                 *)
NeverReused == (\E t \in Tabs : serving[t].pc = "reuse") => failed

(* A session is left behind only by a tab whose load failed: any other     *)
(* refresh token that still works is the one the tabs share, on its way to *)
(* them, or being revoked by a log out.  A log out "revokes the token that *)
(* is current, not one a refresh is about to rotate" (tokenRefresh.ts:63). *)
NoneLeftBehind ==
  ~failed =>
    \A n \in (1..issued) \ (revoked \cup dropped) :
      n = stored \/ n \in revoking \/ \E t \in Tabs : serving[t].new = n

(* A tab's refresh is at the backend with a pair that a tab whose load     *)
(* failed has thrown away meanwhile.                                       *)
RefreshesDropped(t) == serving[t].pc # "none" /\ serving[t].token \in dropped

(* Once the tabs are logged out only a sign-in gives them tokens again: no *)
(* refresh under way undoes a log out, though one may undo a failed load.  *)
StaysLoggedOut ==
  [][stored = 0 /\ stored' # 0 => Login \/ failed \/ \E t \in Tabs : RefreshesDropped(t)]_vars

(* Fairness: time passes for a refresh that is not answered, and the lock  *)
(* goes to the tabs in turn.  Nothing is asked of the backend.             *)
Fairness ==
  \A t \in Tabs :
    /\ WF_vars(TimedOut(t) \/ Refreshed(t))
    /\ SF_vars(Refresh(t) \/ UseStored(t))

FairSpec == Spec /\ Fairness

(* No request waits forever on a refresh, although the backend may never   *)
(* answer one (tokenRefresh.ts:35: "a stalled request would freeze every   *)
(* admin tab").                                                            *)
WaitsEnd == \A q \in Requests : request[q].pc = "waiting" ~> request[q].pc # "waiting"
=============================================================================
