-------------------------------- MODULE Cart --------------------------------
(***************************************************************************)
(* One customer's cart: the calls of cart.service.ts from several devices  *)
(* beside checkouts of the same cart (checkout.service.ts, phase 1).  A    *)
(* cart call reads a row and writes it in a later statement.  A checkout   *)
(* is one transaction under a lock on the cart's row, which holds back     *)
(* another checkout and an INSERT of a cart_item (its foreign key wants    *)
(* the cart's row), but no UPDATE or DELETE of one.                        *)
(*                                                                         *)
(* The rules a checkout validates its lines by only refuse; OrderPayment   *)
(* has the stock they look at, and what becomes of the order.              *)
(***************************************************************************)
EXTENDS Naturals

CONSTANTS
  Listings,
  Taps,        \* concurrent calls of cart.service.ts
  Checkouts,   \* concurrent checkouts
  NoListing,
  NoCheckout,
  Quantities,  \* what a call may ask for
  MaxAsked     \* bound: asked of one listing

ASSUME CartAssumption ==
  /\ NoListing \notin Listings
  /\ NoCheckout \notin Checkouts
  /\ Quantities \subseteq Nat \ {0}
  /\ MaxAsked \in Nat

VARIABLES
  quantity,  \* quantity of the cart_item of a listing, 0 without one
  item,      \* cart_item.id: how many rows the listing has had
  asked,     \* history: what the customer asked for
  ordered,   \* history: the quantities in the orders placed
  tap,       \* cart calls
  holder,    \* the checkout that holds the cart's row
  checkout   \* checkouts

cartRows == <<quantity, item, asked>>
cartVars == <<cartRows, ordered, tap, holder, checkout>>

(* quantity: what addItem adds or updateItem sets; read: the quantity that *)
(* was read; item: the id it was read under.                               *)
NoTap == [pc |-> "idle", listing |-> NoListing, quantity |-> 0, read |-> 0, item |-> 0]

NoLines == [l \in Listings |-> 0]

NotSubmitted == [pc |-> "idle", lines |-> NoLines]

CartInit ==
  /\ quantity = NoLines
  /\ item = NoLines
  /\ asked = NoLines
  /\ ordered = NoLines
  /\ tap = [w \in Taps |-> NoTap]
  /\ holder = NoCheckout
  /\ checkout = [c \in Checkouts |-> NotSubmitted]

-----------------------------------------------------------------------------
Begin(w, pc, l, n) ==
  tap' = [tap EXCEPT ![w] = [pc |-> pc, listing |-> l, quantity |-> n,
                             read |-> quantity[l], item |-> item[l]]]

Finish(w) == tap' = [tap EXCEPT ![w] = NoTap]

Ask(l, n) ==
  /\ asked[l] + n <= MaxAsked
  /\ asked' = [asked EXCEPT ![l] = @ + n]

(* The row the call has read is still there.                               *)
StillThere(w) ==
  /\ quantity[tap[w].listing] > 0
  /\ item[tap[w].listing] = tap[w].item

-----------------------------------------------------------------------------
(* addItem: findOrCreate looks for the row ...                             *)
AddCalled(w, l, n) ==
  /\ tap[w].pc = "idle"
  /\ Begin(w, IF quantity[l] = 0 THEN "create" ELSE "add", l, n)
  /\ UNCHANGED <<cartRows, ordered, holder, checkout>>

(* ... inserts it if there was none, once no checkout holds the cart, or   *)
(* reads again if another call did that first ...                          *)
AddCreated(w) ==
  LET l == tap[w].listing IN
  /\ tap[w].pc = "create"
  /\ holder = NoCheckout
  /\ IF quantity[l] = 0
       THEN /\ Ask(l, tap[w].quantity)
            /\ quantity' = [quantity EXCEPT ![l] = tap[w].quantity]
            /\ item' = [item EXCEPT ![l] = @ + 1]
            /\ Finish(w)
       ELSE /\ Begin(w, "add", l, tap[w].quantity)
            /\ UNCHANGED cartRows
  /\ UNCHANGED <<ordered, holder, checkout>>

\* Mutant: the row is written back if it is gone.
AddPutBack(w) ==
  LET l == tap[w].listing IN
  /\ tap[w].pc = "add"
  /\ Ask(l, tap[w].quantity)
  /\ quantity' = [quantity EXCEPT ![l] = tap[w].read + tap[w].quantity]
  /\ Finish(w)
  /\ UNCHANGED <<item, ordered, holder, checkout>>

(* ... and otherwise saves the quantity read and the one added; the UPDATE *)
(* of a row that is gone changes nothing.                                  *)
AddSaved(w) ==
  LET l == tap[w].listing IN
  /\ tap[w].pc = "add"
  /\ IF StillThere(w)
       THEN /\ Ask(l, tap[w].quantity)
            /\ quantity' = [quantity EXCEPT ![l] = tap[w].read + tap[w].quantity]
       ELSE UNCHANGED <<quantity, asked>>
  /\ Finish(w)
  /\ UNCHANGED <<item, ordered, holder, checkout>>

(* updateItem                                                              *)
UpdateCalled(w, l, n) ==
  /\ tap[w].pc = "idle"
  /\ quantity[l] > 0
  /\ Begin(w, "update", l, n)
  /\ UNCHANGED <<cartRows, ordered, holder, checkout>>

UpdateSaved(w) ==
  LET l == tap[w].listing
      n == tap[w].quantity
  IN
  /\ tap[w].pc = "update"
  /\ IF StillThere(w)
       THEN /\ Ask(l, IF n > quantity[l] THEN n - quantity[l] ELSE 0)
            /\ quantity' = [quantity EXCEPT ![l] = n]
       ELSE UNCHANGED <<quantity, asked>>
  /\ Finish(w)
  /\ UNCHANGED <<item, ordered, holder, checkout>>

(* removeItem is one statement.                                            *)
RemoveItem(l) ==
  /\ quantity[l] > 0
  /\ quantity' = [quantity EXCEPT ![l] = 0]
  /\ UNCHANGED <<item, asked, ordered, tap, holder, checkout>>

TapDies(w) ==
  /\ tap[w].pc # "idle"
  /\ Finish(w)
  /\ UNCHANGED <<cartRows, ordered, holder, checkout>>

-----------------------------------------------------------------------------
(* checkout: the customer submits, perhaps twice; the transaction locks    *)
(* the cart, reads its lines under the lock ...                            *)
Submit(c) ==
  /\ checkout[c].pc = "idle"
  /\ checkout' = [checkout EXCEPT ![c].pc = "lock"]
  /\ UNCHANGED <<cartRows, ordered, tap, holder>>

LockCart(c) ==
  /\ checkout[c].pc = "lock"
  /\ holder = NoCheckout
  /\ holder' = c
  /\ checkout' = [checkout EXCEPT ![c].pc = "read"]
  /\ UNCHANGED <<cartRows, ordered, tap>>

ReadLines(c) ==
  /\ checkout[c].pc = "read"
  /\ quantity # NoLines
  /\ checkout' = [checkout EXCEPT ![c] = [pc |-> "place", lines |-> quantity]]
  /\ UNCHANGED <<cartRows, ordered, tap, holder>>

Unlock(c) ==
  /\ holder' = IF holder = c THEN NoCheckout ELSE holder
  /\ checkout' = [checkout EXCEPT ![c] = NotSubmitted]

(* ... writes the order, deletes the cart's rows as they now are, and      *)
(* commits; or it refuses, or dies, and all is as before.                  *)
PlaceOrder(c) ==
  /\ checkout[c].pc = "place"
  /\ ordered' = [l \in Listings |-> ordered[l] + checkout[c].lines[l]]
  /\ quantity' = NoLines
  /\ Unlock(c)
  /\ UNCHANGED <<item, asked, tap>>

RollBack(c) ==
  /\ checkout[c].pc \in {"lock", "read", "place"}
  /\ Unlock(c)
  /\ UNCHANGED <<cartRows, ordered, tap>>

-----------------------------------------------------------------------------
TapStep(w) ==
  \/ \E l \in Listings, n \in Quantities : AddCalled(w, l, n) \/ UpdateCalled(w, l, n)
  \/ AddCreated(w)
  \/ AddSaved(w)
  \/ UpdateSaved(w)
  \/ TapDies(w)

CheckoutStep(c) ==
  \/ Submit(c)
  \/ LockCart(c)
  \/ ReadLines(c)
  \/ PlaceOrder(c)
  \/ RollBack(c)

CartNext ==
  \/ \E w \in Taps : TapStep(w)
  \/ \E l \in Listings : RemoveItem(l)
  \/ \E c \in Checkouts : CheckoutStep(c)

CartSpec == CartInit /\ [][CartNext]_cartVars

-----------------------------------------------------------------------------
Tap == [pc : {"idle", "create", "add", "update"}, listing : Listings \cup {NoListing},
        quantity : Nat, read : Nat, item : Nat]

Quantity == [Listings -> Nat]

(* Every quantity is one, every call is about a listing, and the lock is   *)
(* held by the one checkout that is past it.                               *)
CartTypeOK ==
  /\ quantity \in Quantity
  /\ item \in Quantity
  /\ asked \in Quantity
  /\ ordered \in Quantity
  /\ tap \in [Taps -> Tap]
  /\ \A w \in Taps : tap[w].pc # "idle" => tap[w].listing \in Listings
  /\ holder \in Checkouts \cup {NoCheckout}
  /\ checkout \in [Checkouts -> [pc : {"idle", "lock", "read", "place"}, lines : Quantity]]
  /\ \A c \in Checkouts : checkout[c].pc \in {"read", "place"} <=> holder = c

(* What the customer asked for is ordered at most once, however often      *)
(* checkout is submitted and whatever is tapped meanwhile: what the orders *)
(* have and what the cart still has never exceed it                        *)
(* (checkout.service.ts:166: a double submit had "both create an order, a  *)
(* second reservation, and a second Razorpay order from the same cart").   *)
NothingTwice == \A l \in Listings : ordered[l] + quantity[l] <= asked[l]
=============================================================================
