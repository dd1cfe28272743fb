# Golden Abode: a TLA+ model of the marketplace backend

Golden Abode is a building-materials marketplace: customers buy from several
vendors in one order and hire artisans (ustaads); vendors keep listings with
stock; admins approve vendors, review the catalogue and refund orders. One
NestJS backend over Postgres runs it (`src/apps/backend`). Razorpay takes the
money, Meilisearch serves the search, S3 and a Lambda keep the product images,
and a React admin site and an Expo app are its clients.

This directory models the parts of the backend whose correctness depends on the
order in which requests, webhooks, cron jobs, database transactions and crashes
meet, and the one protocol of a client that depends on the order of its tabs. TLC
checks the models on small instances, TLAPS proves the backend's safety for every
value of the constants.

Contents: 1 inventory, 2 plan, 3 how the code is read, 4–12 the modules,
13 runs and bounds, 14 proofs, 15 disagreements between the code and what it
says, 16 what is not modelled.

## 1. Inventory

Paths are below `src/apps/backend/src/modules/` unless they say otherwise.

| Component | State | Operations | Hard because |
|---|---|---|---|
| Checkout and payment (`orders/checkout.service.ts`, `order-payment.service.ts`, `webhooks.controller.ts`) | `orders` (status, Razorpay order and payment ids, captured paise), `inventory.quantity_available/_reserved`, `payment_events` | checkout in two transactions around Razorpay's createOrder, with a compensation; `applyCapture` and its transactions for every `payment.captured` | captures, cancels and the sweep meet on one order, each deciding on a read that is old by the time it writes; webhooks are lost, late, repeated; the process dies between phases |
| Cancellation and the reservation sweep (`orders/orders.service.ts`) | the same | customer cancel, `adminCancel`, the five-minute sweep of stale unpaid orders | Razorpay is asked before and after the UPDATE that cancels; it may be down or change its answer |
| Fulfilment (`orders/orders.service.ts`) | `order_vendor_groups.status` | vendor's and admin's status changes, cascades of confirm, cancel and refund | read, check, then an unguarded save |
| Refunds (`orders/refunds.service.ts`, `refund-status.ts`) | `refunds` rows, `orders.status`, Razorpay's refunds | request, submit, five-minute sync, projection on the order | no transaction is open during Razorpay's calls; answers are lost, requests delayed, passes overlap |
| Payment provider adapter (`payments/`) | none | createOrder, payments of an order, refunds | its three-way answers (yes, no, unavailable) |
| Stock (`catalog/stock.service.ts`) | `inventory.quantity_available`, `vendor_listing.status` | setStock, setStatus, bulkSetStock | vendors may count below what is reserved; uploads write the same rows |
| Hire requests (`artisans/hire-requests.service.ts`, `hire-request-expiry.sweep.ts`) | `artisan_hire_requests` (status and review/answer marks), estimates, `orders.booking_id` | create, review, accept, decline, start, complete, cancel, estimate, the hourly expiry | customer, ustaad, admins and sweeps write one row with guarded UPDATEs after unguarded reads; checkouts attribute orders to it |
| Search indexing (`search/indexing/`, migrations `20260828090003` to `-05`, `20261105090000`) | `search_outbox`, the advisory lock, two Meilisearch indexes | 26 triggers, drain every two seconds, rebuild and swap | cutoff by transaction start, visibility by commit; rolling deploys run two workers; failures anywhere |
| Search queries (`search/search.service.ts`, `fallback/`) | none | query Meilisearch, else Postgres | stateless |
| Product images (`catalog/media/`, `src/apps/media-lambda`) | `master_product_media`, S3 objects | presign, confirm, Lambda callback, reprocess, delete, orphan sweep | callback before confirm, twice, or after a reprocess; the sweep deletes what it looked up earlier |
| Cart (`cart/cart.service.ts`) | `carts`, `cart_items` | add, update, remove; checkout empties it | read-modify-write beside checkout's lock |
| Vendors and approval (`vendors/`, `admin/`, `users/`) | `vendors.city_id`, `users.is_approved` | onboarding, relocation, approve, reject | approval changes while orders are being paid and documents built |
| Sessions (`auth/auth.service.ts`, `src/apps/admin/src/services/api/tokenRefresh.ts`, `apiClient.ts`, `hooks/useSessionBootstrap.ts`) | `refresh_tokens`, OTP counters in Redis; the tokens in localStorage, the Web Lock, each tab's refresh in flight | sign in, refresh and rotate, load a page, log out | tabs share tokens that rotate; a token presented twice ends every session; answers are late or lost, tabs are reloaded |
| Vendor's catalogue import (`catalog/vendor-catalog-import.service.ts`, `vendor-match-ladder.service.ts`, `vendor-listings.service.ts`) | `vendor_listing`, `inventory`, `vendor_product_map`, `catalog_import_row` | upload and match, review queue (link, reject), confirm or reject paused listings, createListing | a dozen statements per row and no transaction; uploads, admins and vendors overlap |
| Catalogue administration (`catalog/admin-*.service.ts`, `catalog-io.service.ts`, ...) | products, brands, categories | edits, the admin's own import and export | one entity at a time |
| Attribute reindex queue (migration `20260826090000`) | `catalog_reindex_queue` | `drain_catalog_reindex_queue` | same shape as the outbox; nothing in the program calls it |
| Customers, notifications, health, configuration, clients, deployment | | single-row reads and writes, log lines, UI, scripts | |

Interactions. Checkout reads the cart, locks and reserves inventory, validates
the booking against hire requests, and creates the Razorpay order. Webhooks,
cancels and the sweep all end in `OrderPaymentService`. A payment that cannot
confirm its order leaves it `refund_required`, from where `RefundsService`
takes it; a refunded order may be closed by `adminCancel`. Vendor rejection
reaches orders (an order of an unapproved vendor is not confirmed) and, by
trigger, the search outbox, which every write of listings, inventory, products
and cities feeds as well.

What makes each component correct:

- orders: captured money is recorded on its order once or shown to a person;
  `quantity_reserved` is what unpaid orders hold; no hold and no capture is
  forgotten; an order only moves along its lifecycle;
- refunds: never more than the capture, per order and per vendor group; the
  order's status is where the money is; every refund ends; nothing Razorpay
  pays is hidden by a failed row;
- hire requests: one open request per pair; no status without the reviews and
  answers that lead to it; notices tell what happened; silence expires;
- search: a document that is out of date is always queued, and the index
  converges;
- fulfilment: goods of an unpaid or refunded order do not move, a cancelled
  group stays cancelled;
- images: a row keeps its original and a ready one its variants, exactly one
  primary per product, one gallery order, what no row refers to goes, a good
  image that is retried gets ready;
- cart: nothing the customer asked for once is ordered twice;
- listings: what an admin has linked is not guessed again, what a vendor is told
  is in stock is;
- sessions: tabs never present a token they have had rotated, no working token is
  left behind, a log out stays, no request waits for ever.

## 2. Plan

In the order they were built, each with the proofs of its safety
(`<module>_proofs`; those of the two clients, 7 and 9, are in `Clients_proofs`):

1. `OrderLifecycle`, the abstract life of an order, and `OrderPayment`, how
   checkout, webhooks, cancels and the sweep live it;
2. `Refunds`, the life of a paid order's refunds;
3. `HireLifecycle` and `HireRequests`;
4. `SearchOutbox`;
5. `Fulfilment`, an order's vendor groups beside everything that moves the order;
6. `ProductMedia`, images, their Lambda and the orphan sweep;
7. `Cart`, cart calls beside checkouts;
8. `Listings`, a vendor's uploads, the review queue and confirmations;
9. `AdminSession`, the admin panel's tabs over rotating tokens.

Composition: `OrderPayment`, `Refunds` and `Fulfilment` are three views of one
abstract order. `OrderPayment` and `Fulfilment` implement `OrderLifecycle`
(INSTANCE with a refinement mapping, checked and proved), and `Refunds` moves the
order only by its `RefundMoves`; each is detailed where the others take the step
whole.

Not begun, in the order they would add most: the colour rows of paint in
`Listings`, the admin's own import, the phone's refresh.

## 3. How the code is read

- A job (request, delivery, cron pass) is a program counter and what it
  remembers. Each `await` on the database or a provider is a step of its own,
  so everything else may happen in between. A transaction is one step when its
  first statement takes the lock the rest relies on; the modules say so where
  it is not.
- A guarded `UPDATE ... WHERE status = ...` is a step with that guard; when it
  counts no row the job goes where the code goes.
- What a job read earlier is kept in the job, not read again.
- Crashes end a job at any step and lose what it remembered. Postgres rows
  survive.
- Left out as data: amounts beyond a few units, names, addresses, texts, log
  lines, authorisation that only refuses.
- Assumptions about the environment are named constants with two values; the
  passing runs state which value they need, and the text below says what
  happens under the other.

## 4. Checkout, payment and cancellation

`OrderLifecycle.tla` is what the order side promises: an order is placed with a
hold on stock, confirmed or cancelled or found owed a refund, each of which
gives the hold up once; a cancelled order may still turn out to be owed; a paid
one follows its refunds. `OrderPayment.tla` is how the code does it.

| State | In the code |
|---|---|
| `checkout[o]` | how far the request that creates `o` is |
| `status, linked, paymentId` | `orders.status`, `razorpay_order_id IS NOT NULL`, `razorpay_payment_id` |
| `aged` | `created_at` beyond the stale-reservation timeout |
| `available, reserved` | `inventory.quantity_available, quantity_reserved` |
| `approved` | `users.is_approved` of the vendor |
| `payment` | what Razorpay would say of each payment |
| `job` | step, order, payment and the snapshot each worker remembers |
| `flagged` | payments logged at error level for manual reconciliation |

Checkout is `CheckoutValidate` (reads), `CheckoutReserve` or `CheckoutRefused`
(the transaction with `FOR UPDATE` on inventory), then `PaymentOrderCreated` or
`PaymentOrderFailed` (createOrder and the compensation) or a crash.
`WebhookCaptured` starts a job in `applyCapture`; `CancelRequested` and
`SweepPicked` start one that asks Razorpay first (`AskProvider`). From there
`Release`, `CheckVendors`, `Reject`, `ConfirmOrder`, `Reread`,
`MarkRefundRequired` and `Recheck` are the awaits of `order-payment.service.ts`.
Vendors set stock and admins change approval at any time.

Properties. `MoneyRecorded`: a payment on an order was captured on it, an order
has one exactly when its status says so, only the exact amount confirms.
`FlaggedHoldsPayment`: a capture is left to a log line only if its order already
has another. `PaymentWriteOnce`: a recorded payment is never replaced.
`ReservationExact`: `quantity_reserved` is the number of units of unpaid orders,
which the floor at zero in the code would otherwise hide.
`OnlyVendorOversells`. `ImplementsLifecycle`: the refinement.
`HoldReleased`: the sweep alone frees every hold. `CaptureAccounted`: if
deliveries are repeated, a capture ends on its order or in the log.

`CancelWhileCreating`: the passing runs assume that no cancel reaches an order
whose checkout request is still waiting for createOrder. The id of the order is
not yet known to the client then, but the order is listed; see section 15.
In the same spirit an order does not reach the sweep's age in that window: the
provider's timeout is far shorter than the sweep's.

Fairness (`SweepFairness`): running jobs go on (weak fairness), the cron keeps
picking each stale order and Razorpay is not unavailable forever (strong
fairness, because either may be disabled again and again), a payment under way
settles. `WebhookFairness` (strong): Razorpay redelivers until it is answered.
It is a premise of `CaptureAccounted` only; `HoldReleased` is checked with
webhooks that may never come.

## 5. Refunds

`Refunds.tla` models the refunds of one paid order: `RequestRefund` (the
transaction under the order's lock that writes the row), `RefundAccepted`,
`RefundUnanswered`, `RefundRefused`, `LookupFound`, `LookupEmpty` and
`ProviderUnavailable` (the ends of Razorpay's calls), `SyncPicked`,
`SyncSubmitted` (the five-minute sync), `TransitionRefund` (row and order in one
transaction), and on Razorpay's side `LateRequest` and `ProviderSettles`.
`row` is the refunds table, `provider` what Razorpay holds under each row's
idempotency key, `travelling` the timed-out requests that may still arrive.

`StatusFollowsMoney` relates the order's status to sums over the rows at every
instant; `GroupsWithinShare` bounds each vendor group; `PaidWithinCapture`
relates rows to what Razorpay has really paid or will; `SettledForGood` says no
stale answer moves a settled row; `MovesAsPromised` that the order only makes
moves of `OrderLifecycle`; `RefundSettles` that every refund and
`refund_pending` end.

Assumptions. `RejectionFinal`: a key Razorpay has turned down never becomes a
refund later (section 15 shows the case it excludes). `Age` is only taken of a
row nobody handles: a request that has not reached Razorpay in five minutes
never will. Fairness: the cron reads stale rows again and again, each kind of
call is answered again and again, Razorpay settles what it accepts.

## 6. Hire requests

`HireLifecycle.tla` is the life of a request; `HireRequests.tla` the calls.
`status`, `reviewed` (`admin_reviewed_at`), `responded`
(`artisan_responded_at`), `late` (the 48-hour window has passed) and `based` (an
estimate, or an order's `booking_id`, names the request) are the rows; a job holds the request and
the notices it will send. `CreateChecked` and `CreateInserted` are the count and
the INSERT under the partial unique index; `ReviewRequest` one guarded UPDATE;
`ArtisanCalls`, `Respond`, `StartWork`, `CompleteWork` and `CancelCalled`,
`CancelClaimed` a read, a decision on it and `claimTransition`; `ExpireStale` the
sweep; `EstimateChecked`, `AddEstimate`, `ValidateBooking`,
`ReconfirmBookingStatus` and `PlaceOrder` checks on a copy followed by an insert.

`OneOpenPerPair`, `GateKept` (statuses and marks agree, and expiry and answer do
not both win), `NoticesTrue` (of racing calls only those whose UPDATE counted
tell anyone), `AcceptedFirst` (estimates and orders only for requests the ustaad
accepted), `ImplementsLifecycle`, and `ResponseEnds` under weak fairness of time
and of the calls (some call that was begun goes on or dies) and strong fairness of
the sweep (workers may be busy when it is due).

## 7. Search indexing

`SearchOutbox.tla`. `db` holds the columns documents are built from; `tx` the
open transactions with the rows their triggers have resolved; `outbox` the
pending rows; `index` and `shadow` the two Meilisearch indexes, a document being
the set of listings it aggregates; `lock` the advisory lock; `job` the workers.
A row's `newer` is the set of workers whose cutoff precedes the start of the
row's transaction, which is all a drain ever compares: no clock is needed.
`Begin` resolves rows as the triggers do, `Commit` shows change and rows at
once; a worker's steps are the awaits of `process`, `drainOnce` and
`rebuildNow`; `DrainFails` and `Stop` end a run at any of them, with any part of
a Meilisearch task done. A task still queued when its caller gives up is done
before any later one, so doing it at that moment loses nothing.

`StaleQueued`: a listed pair whose document is not what the database says is
covered by a pending row. `IndexConverges`: when transactions and outages end
(`FaultsEnd`), all documents become right and stay so; weak fairness only, the
job being scheduled every two seconds.

Three assumptions, each necessary (TLC finds a violation of `StaleQueued` when
its constant is turned over in `SearchOutbox.cfg`):
`LateCommits = FALSE`, every transaction begun before a drain's cutoff has
committed when the drain reads the outbox; `MoveRaces = FALSE`, a relocation
does not overlap a change of that vendor's listings or approval, whose triggers
resolve the city; `RebuildsAlone = TRUE`, no other worker runs during a rebuild.
And `StaleQueued` speaks of pairs that some vendor of the city lists: after a
relocation the old city's row no longer reaches products only that vendor listed
there (`city_fanout_pairs` joins current vendors), so their documents stay.

## 8. Fulfilment

`Fulfilment.tla`: `group` is `order_vendor_group.status`, `order` and `paid` the
order's row, a `job` what a call remembers. `VendorUpdate` is the one read of
`updateVendorGroupStatus` (group, order, `validNextStatuses`), `AdminOverride`
and `OverrideChecked` the two reads of `adminOverrideVendorGroupStatus`,
`SaveGroup` the unguarded `group.save()` that both end in, which writes nothing
when the status read is the one asked for. `PlaceOrder`, `ConfirmOrder`,
`CancelPending`, `MarkRefundRequired`, `RefundMove` and `CloseRefunded` are the
transactions that move the order and its groups; how they come to be taken is
`OrderPayment`'s and `Refunds`'.

`UnpaidGroupsFollow`: the `WHERE status = 'pending'` of confirming and
cancelling misses no group. `SettledForGood`: once the calls that had checked an
unlocked order are through, the groups of a refunded or cancelled order can only
be cancelled; until then such a call may still ship (section 15).
`LockedSettles`: they get through, by weak fairness of a begun call's next
statement or its death. `ImplementsLifecycle`: confirming, cancelling, refunding
and closing with their groups keep to the order's life.

`OverrideUnpaid = FALSE`: the code lets an admin override a group of an order
that waits for its payment, and `confirmOrder` or `cancelPending` then passes it
by; the run and the theorem are about admins who do not.

## 9. Product images

`ProductMedia.tla`, the images of one product: `status`, `primary`, `order` are
the rows, `timedOut` those whose `updated_at` is older than the processing
timeout (any UPDATE of a row makes it young again), `ticket` the presigned POST,
`objects` and `aged` the bucket and what of it has come to the sweep's minimum
age. A transaction begins with the product's row lock and is one step; a call is
a step per await (`ConfirmCalled`, `ConfirmVerified`, `ConfirmInserted`;
`Remove`, `Cleanup`; `ReprocessCalled`, `Flip`, `CopyInPlace` or `CopyFailed`,
`RecordFailure`), and so are the Lambda (`Got`, `PutVariants`,
`ApplyProcessingResult`, `Counted`, `Retry`, `GiveUp`) and the sweep (`Listed`, `LookedUp`,
`Swept`). Each may fail at any of them. Every write of an original invokes the
Lambda, also one of an object that was confirmed, removed or not yet confirmed.

`OnePrimary`, `GalleryInOrder`: what confirm, update, reorder and remove keep
between them. `RowsHaveOriginals`, `ReadyServed`: neither the sweep, a remove's
cleanup nor a rejected confirm takes the objects of an image that is there.
`LeftoversSwept`, `RetriedUntilReady`: what ends well.

`LateConfirm = FALSE`: no confirm is under way when its upload comes to the
sweep's age (the ticket is valid for minutes, the age is a day) or, repeated,
after a remove of the same image. Fairness: begun calls, invocations and the
sweep's timer go on, tickets, processing and objects age (weak); an admin presses
Retry when an image keeps showing as failed (strong: other calls may keep the
button away). `LeftoversSwept` needs `MaxDeletions` to be no smaller than what
is left at once (section 15).

## 10. Cart

`Cart.tla`: `quantity` and `item` are the `cart_item` rows and their ids, `tap`
the calls of `cart.service.ts` (a read and a write each, `AddCreated` the insert
of `findOrCreate`), `checkout` the transaction of checkout's first phase under
the lock on the cart's row (`holder`), which holds back an insert (its foreign
key needs that row) but no update or delete. `asked` and `ordered` are history.

`NothingTwice` bounds what is ordered and what the cart still has by what was
asked for, whatever is submitted twice. The other direction, that nothing asked
for is lost, does not hold: `addItem` saves the sum of the quantity it read and
the one it adds, so of two taps at once one may be lost, and a tap during a
checkout is deleted with the cart (section 15).

## 11. Listings

`Listings.tla`, one vendor's: `listing`, `sku`, `stocked` are `vendor_listing`
and whether it has an `inventory` row, `map` is `vendor_product_map`, `review`
the review queue. An upload takes its rows in turn (`Match`, then `Stage`, or
`FindOrCreate`, `Refresh`, which writes what differs from what was read,
`SaveStatus`, `ApplyInventory`); a link teaches the
map and applies the row in the same way before it approves it (`Teach` ...
`Approve`); confirming and rejecting a paused listing are a read and two writes,
or one. Only `CreateListing` is a transaction: a call may stop between any two
steps, and `Destroy` under another call makes that call's updates hit nothing
(`row`) and its insert of stock fail on the foreign key.

`LinkedNotGuessedAgain`: the key that is taught by a link is the key the next
upload asks for, one computed from the stored review row, the other by the match
ladder from the sheet. `StockedAsTold`: a listing whose creation or approval was answered
with a quantity has its stock row.

## 12. Sessions of the admin panel

`AdminSession.tla`: `stored` is the pair of tokens in localStorage, `lock` the Web
Lock, `request` the API requests with the token each carries, `flight` a tab's
`inFlight`, `leaving` its log out; `revoked` and `issued` are `refresh_tokens`,
`serving` and `revoking` the calls to the backend. A refused request
(`Unauthorized`) joins its tab's flight or starts it; under the lock the flight
finds that another tab has refreshed or ended the session (`UseStored`) or asks the
backend itself (`Refresh`; `FindToken`, `Rotate`, `Issue`, or `RevokeAll` when the
token was revoked before, or `Refuse`), until its answer (`Refreshed`), the timeout
or an error (`TimedOut`) lets the lock go and sends the tab's requests again or to
`EndSession`. A log out awaits the tab's own flight, takes the token under the lock
(`TakeForLogout`), has it revoked without waiting, and clears once more. A tab may
be reloaded at any moment, and the backend then finishes what it was asked or not.

A page that has been loaded (`page`) finds no token (`NoSession`) or asks for
`/auth/me` (`GetMe`) and takes no other request until that is answered, through
the same interceptor: it may be refused, wait for a refresh and be sent again. Any
failure but a 401 (a 500, the network, a role other than an admin's) runs
`clearSession` at once (`LoadFailed`), and a session that ends over it runs
`clearSession` after `endSession` (`EndSession` of an asking tab). That takes no lock
and revokes nothing. `dropped` remembers the pairs a failed load threw away.

`NoneLeftBehind`: the only working refresh tokens nobody has or is about to revoke
are those in `dropped`. `StaysLoggedOut`: without a sign-in, tokens come back only
from a refresh that was at the backend with a pair in `dropped`
(`RefreshesDropped`), that is, over a failed load of another tab and never over a
log out. `NeverReused` needs neither exception.

These three speak of sessions in which no refresh and no revocation failed
(`failed`; a failed load does not count as such): a refresh whose answer was lost to a timeout or a reload
leaves the old token in localStorage, the next refresh presents it, and all
sessions end; likewise a refused retry, as of an account deactivated meanwhile,
ends its tab's session over a refresh of another. Nothing is assumed about when
access tokens expire: any request may be refused. `WaitsEnd` holds whatever
fails, the backend never answering included, by weak fairness of the timeout and
strong fairness of the lock's queue, which is first come, first served.

Assumed: the browser has Web Locks (`docs/decisions/0056`, F5 says what happens
without), and nobody signs in while a tab still has a request or a log out of the
session before on its way (`Noticed`), whose `clearTokens` would take the new one.

## 13. Runs and bounds

| Run | Shows | Bounds, and why they are enough |
|---|---|---|
| `OneOrder` | money of one order; `HoldReleased`, `CaptureAccounted` | two payments (exact, wrong amount), two jobs, one crash, stock 0 or 1: a job can be overtaken by another at each of its awaits, which is all the guarded writes distinguish |
| `TwoOrders` | reservations, oversell, refinement | two orders of 1 and 2 units on one listing whose stock the vendor sets to 1 or 3, so that both, either or neither fit; two jobs |
| `DoubleRelease` | violation of `HoldsCovered` | `CancelWhileCreating` |
| `RefundRows` | refunds' safety | two refunds of a capture of 3, one group of 1, two workers, two attempts, one lost process: full, partial and over-sized requests all occur |
| `RefundSync` | `RefundSettles` | one refund, capture 2, the rest as above |
| `HireRequests` | hire safety, refinement and `ResponseEnds` | two requests of one pair, two overlapping calls, crashes anywhere |
| `SearchOutbox` | `StaleQueued`, `IndexConverges` | one product listed by a vendor in each of two cities, one of which may move, away or nowhere; two transactions of any kind, two workers, faults without limit |
| `Fulfilment` | groups beside their order, refinement | two groups (one moved, one left), two overlapping calls; crashes without limit |
| `ProductMedia` | gallery, objects, both liveness properties | an uploaded image beside one with a URL, which is what primary and order need to go wrong; two admin calls, one invocation at a time with two tries, one fault anywhere. `MaxPerProduct` and `MaxDeletions` (2) do not bind here, and every upload is good (`AllGood`), so that a rejected or undecodable one is not met in the run; the theorems hold for any bounds and any `Content` |
| `Cart` | `NothingTwice` | two listings, two taps, two checkouts, quantities 1 and 2 up to 3 asked of a listing |
| `Listings` | the map and the stock | one product, a sheet that names it by its code and another item in two ways, one review row, two requests; sheets of one row, uploaded again and again |
| `AdminSession` | sessions' safety and `WaitsEnd` | two tabs with a request each, three pairs of tokens: an old one, its successor, and one more by a refresh or a sign-in; two requests of one tab add only that they share its flight. Either tab's request is also its `/auth/me`: one tab's load fails while the other refreshes, logs out or loads too |

Two jobs suffice for most races because each job's writes are guarded by one
row's status: what a third job does between two steps of the first is what the
second could do there. Symmetry is used for workers and interchangeable rows in
safety runs only. Deadlock checking is off only for the runs of `Refunds`,
where everything may be settled and crashes and attempts are spent.

The type invariants are proved (`TypeAlwaysOK` of each proof module), so only
`Listings`, whose `TypeOK` also relates stock and requests to listings, checks
its own.

Every property has a mutant: a plausible bug in a definition (a dropped index, a
review without its guard, a mark without its cutoff, a kept lock) under which
TLC must find it violated.

## 14. Proofs

For any sets of orders, listings, payments, requests, refunds, groups, images and
workers, any quantities and any bounds, from the ASSUMEs of the modules:

- `OrderPayment_proofs`: `TypeAlwaysOK`, then `MoneyAlwaysRecorded`,
  `FlaggedAlwaysHoldsPayment` and `PaymentNeverReplaced`. `MoneyRecorded` is not
  inductive: `MoneyInv` adds that a job's order exists when it needs it
  (`OrderKnown`) and, for every step, what the job knows (`JobMoney`: the payment
  it carries was captured on its order, a confirming one is exact). A lemma
  (`OrderSteps`) first says what any step can do to an order's row; the
  invariants follow from it instead of from each action. `OnlyVendorsOversell` is
  a step property on top. `ReservationAlwaysExact` and `LifecycleImplemented`
  need `~CancelWhileCreating`: counting units as a set of pairs makes taking and
  giving back a hold a disjoint union and a difference, and `HoldInv` adds that
  no job works on an order still in checkout's second phase (`Undisturbed`,
  `AgedKnown`), without which the compensation could release twice. Two results
  say what remains of them without that assumption: `OrdersKeepTheLifecycle`, every
  order moves as `OrderLifecycle` says (its ledger of stock left out), and
  `NoStockKeptForTheDead`, what is reserved never exceeds what pending orders
  hold, so a double release can only reserve too little.
  `OrdersGoOneWay`: no order becomes pending again, or confirmed from any
  status but pending, or, once paid, cancelled without having been refunded.
- `Refunds_proofs`: `TypeAlwaysOK`, `StatusAlwaysFollowsMoney`,
  `GroupsAlwaysWithinShare`, `SettledRefundsStay`, `RefundsMoveAsPromised`, and
  `PaidAlwaysWithinCapture` for `RejectionFinal`. Sums of rows are cardinalities
  of sets of units; `MoveSums` and `RequestSums` say how each kind of row change
  moves them. `ProviderInv` ties what a job is about to write to Razorpay's state.
  `RecordsAreTrue` needs no assumption: a row marked submitted is one Razorpay
  holds, a processed one has been paid out; its invariant (`RecordInv`) says the
  same of every answer a job still carries, and rests on Razorpay never letting go
  of a refund it holds (`ProviderStays`).
- `HireRequests_proofs`: `AlwaysOneOpenPerPair`, `GateAlwaysKept`,
  `NoticesAlwaysTrue`, `AlwaysAcceptedFirst`, `LifecycleImplemented`. `IInv` adds
  `JobsFit` (what a call read is still true, or overtaken in the ways its UPDATE
  will notice) and `InsertsApart` (no two inserts of one row). `EndedForGood`: an
  ended request keeps its end; `PartiesHearTheSameEnd`: calls and sweeps that race
  for a request never have notices of two different ends to send.
- `Fulfilment_proofs`: `TypeAlwaysOK`; `UnpaidGroupsAlwaysFollow` for
  `~OverrideUnpaid`, with the addition (`UnpaidCallsFit`) that before the order
  was ever confirmed a call can only be about to cancel a group of an order that
  is locked; `SettledAlwaysForGood`; `LifecycleImplemented`. What holds
  with such overrides too is `OnlyEarlyCallsRemain`: once an order is refunded or
  cancelled it stays so, and each group that still moves to anything but
  cancelled uses up one of the calls that had passed the order's check before.
- `ProductMedia_proofs`: `TypeAlwaysOK`, `AlwaysOnePrimary` and
  `GalleryAlwaysInOrder` from how each kind of step moves rows; and, for
  `~LateConfirm`, `RowsAlwaysHaveOriginals` and `ReadyAlwaysServed`: what the
  sweep is about to delete is aged, aged objects without a row stay without one,
  and an invocation about to report has written; `RemovedStaysRemoved` follows from
  the same. `OnlyGoodImagesShown` holds for any confirm: what passed the confirm's
  check or the Lambda's decoding is what the rows and reports still on their way
  are about (`Checked`).
- `Clients_proofs`, of `Cart`: `CartTypesAlwaysOK`, `NeverOrderedTwice`. The
  quantity an add has read under a row that is still there, and the lines a
  checkout has read under its lock, are not ordered yet (`AddReadsUnordered`,
  `LinesUnordered`). Of `AdminSession`: `SessionTypesAlwaysOK`, `TokensNeverReused`,
  `NoneEverLeftBehind`, `LogOutsStay`. `SessionInv` has two halves. Whatever fails,
  the tab with a call at the backend is the one that holds the lock (`LockHeld`),
  which is already `RefreshesTakeTurns`. Unless something failed (`SessionKept`), that
  call is about the pair the tabs share, or one a failed load has thrown away under
  it (`CallsCurrent`), which works until the backend rotates it; and a tab about to
  end the session finds its tokens cleared and the lock free (`EndedOnce`).
  `NobodyForgotten` is the safety half of `WaitsEnd`: each waiting request or log
  out has a refresh of its own tab to wait for, and the lock's holder has a call
  out, which the timeout ends.
- `Listings_proofs`: `TypeAlwaysOK`, `LinkedNeverGuessedAgain` (the map knows
  whatever was approved or is about to be), `AlwaysStockedAsTold`;
  `ApprovedAlwaysTaught`: an approved review row's key is in the map.
- `SearchOutbox_proofs`: `TypeAlwaysOK`, and `StaleAlwaysQueued` under the three
  assumptions of section 7 (`~LateCommits`, `~MoveRaces`, `RebuildsAlone`).
  `StaleQueued` alone does not survive a worker that writes what it built earlier
  and then marks rows, so the invariant follows the worker (`Fine`): a document it
  will not write, or will write although the database has moved on, is covered by
  a row it will not mark. Around it: an open transaction's rows are what its
  triggers would still resolve (`TargetsCurrent`, `Apart`), whatever commits after
  a worker has read is newer than its cutoff (`OpenNewer`), and one drain or one
  rebuild runs (`OneDrain`, `RebuildAlone`). `DrainsTakeTurns` needs none of the
  three: a worker is between the lock's taking and its release exactly while it
  holds the lock, crashes included.

Only model-checked: liveness (`HoldReleased`, `CaptureAccounted`, `RefundSettles`,
`ResponseEnds`, `IndexConverges`, `LockedSettles`, `LeftoversSwept`,
`RetriedUntilReady`, `WaitsEnd`), out of the prover's reach with its fairness and
ENABLED.

## 15. Where the code and its words disagree

One as a run:

- `DoubleRelease`: the compensation of a failed createOrder gives the hold back
  without asking whether the order still has it. If the order was cancelled
  meanwhile it is given back twice, and the second time another order's units
  go: what `orders.service.ts:437-442` says must not happen.

The others are told by a named assumption of a module, or by what a property
leaves out:

- A request that timed out can reach Razorpay after the receipt lookup found
  nothing and the row was failed; the row then hides a live refund, which
  `refunds.service.ts:268-271` rules out (`RejectionFinal = FALSE`, which assumes
  Razorpay may accept a key after a client error of another attempt).
- A hire request's cancel decides whether the ustaad ever saw it on the row it
  read before its UPDATE (`hire-requests.service.ts:543`); an admin's review in
  between makes it leave out an ustaad who had just been told of the request.
- A row of the outbox is stamped with its transaction's start but appears at its
  commit; if a drain expands before and marks after that commit, the row is
  marked processed unread (`LateCommits = TRUE`). `outbox.poller.ts:19-26` argues
  that rows arriving during a drain are newer than its cutoff.
- A vendor's or admin's call that has checked its order ships a group of an order
  that is refunded before its save (`orders.service.ts:354-359` locks it); an
  admin's override of an unpaid order's group is passed by when the order is
  confirmed or cancelled (`OverrideUnpaid = TRUE`).
- A confirm that comes as late as the sweep's minimum age, or is repeated after a
  remove, leaves a row without its objects (`LateConfirm = TRUE`), against
  `media-sweep.ts:12`. And when more objects are orphaned than the sweep's
  circuit breaker allows, it refuses every time, and cleanup stops until a person
  comes.
- Two taps that add to one item, or a tap while checkout runs, may be lost:
  `NothingTwice` does not forbid it.
- An uploaded row with an unknown status is answered as rejected after its
  listing was created or refreshed, against
  `vendor-catalog-import.service.ts:300` ("so a rejected row leaves no partial
  effect behind"). Rejecting a paused listing deletes it even if it was activated
  since it was read; a link is not refused for a review row already rejected.
- A tab that is reloaded in the middle of a refresh leads to the reuse that
  `tokenRefresh.ts:8-13` is there to prevent (section 12).
- A page whose `/auth/me` fails, as of a 500 or the network, throws the tokens of
  all tabs away without the lock and without revoking anything
  (`useSessionBootstrap.ts:40-48`). The refresh token works on with nobody to use or
  revoke it, and if another tab's refresh is at the backend at that moment its
  answer puts tokens back without a sign-in. `tokenRefresh.ts:61-64` has the lock
  for a log out only.

Smaller ones: a vendor rejected after the approval check (nothing orders it
before the confirmation), an order attributed to a request cancelled before its
commit, an estimate for an ended request, the relocation's old city.

## 16. Not modelled

Of sessions: one-time codes, registration and password reset, each a check and a
write of one row, and the phone app's own refresh (one flight and no second
tab). Search queries, ustaad profiles, customers and addresses, notifications,
health and configuration read or write one row and keep no protocol. Of the
catalogue import, paint's colour rows (a second kind of row with the same
steps) and the admin's own import and export; of catalogue administration, whatever is one statement or
transaction on one entity (its writes are those of `SearchOutbox`'s
transactions). The reindex queue has no caller. The other clients and deployment
are outside; what they do to the backend (repeat a request, run two workers) is
in the modules. Amounts, currency conversion, signatures and HTTP belong to the
adapter and its tests. Seeders, taxonomy data and migrations other than the
outbox's are data. The apps' screens, most of the repository's lines, are forms
and lists over these calls.
