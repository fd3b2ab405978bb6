# Vedhic Foods: a verification development

TLA+ modules, TLC runs and TLAPS proofs about the shop: the backend in
`src/backend/src`, which moves orders, money, stock, mail and sessions, and the
parts of the storefront and the console that take part in its protocols.  Paths
below are relative to `src/backend/src` unless they start with `src/`.

## 1. The system

An Express server over PostgreSQL (Prisma) serves a storefront and an admin
console.  Several requests are open at the same time, several instances of the
server may run, and the payment gateway (Razorpay) calls back over webhooks.
Nearly every handler has the same shape: read rows without a lock, check them,
then write in one transaction whose statements lock the rows they touch.  What
goes wrong goes wrong between the two.

| Part | State it keeps | Operations | Interacts with |
| --- | --- | --- | --- |
| inventory ledger (`services/inventory.service.ts`) | per product: available, reserved, sold, threshold, label; the movement log; a copy of available in `Product.stock` | reserve, release, deduct, restock, adjust, settings | called inside the transactions of the order lifecycle; row locks `FOR UPDATE` |
| checkout (`services/checkout.service.ts`) | order, payment and delivery rows, idempotency key | processCheckout, transitionOrderStatus | ledger, coupons, cart, prices, email, events |
| checkout page (`src/frontend/src/pages/customer/CheckoutPage.tsx`) | one idempotency key per page | submit, retry, failPayment | checkout, online payment |
| order desk (`controllers/order.controller.ts`, `utils/order-status.ts`) | order status | cancelOrder, failPayment, updateOrderStatus, refundOrder | ledger, delivery row, payments |
| online payment (`integrations/razorpay/razorpay.service.ts`) | payment row: status, gateway order id, gateway payment id | initiate, verify, webhooks captured and failed, refund | gateway, order row, ledger |
| payment switches (`services/payment-settings.service.ts`, `integrations/razorpay/razorpay.client.ts`) | the settings row, a mirror of its cash switch, a copy of the credentials per server | save, resolve, clear | checkout, online payment |
| reconciliation (`services/reconciliation.service.ts`) | none | reconcilePayments, reconcileSingleOrder | payment rows, the gateway's listing |
| delivery (`services/delivery.service.ts`) | delivery row, history | assignStaff, updateDeliveryStatus | writes through to the order, the payment (cash) and the ledger |
| reservation sweep (`services/reservation-sweep.service.ts`) | none, a timer and an advisory lock | runOnce | cancels stale orders, ledger |
| cart (`services/cart.service.ts`) | lines per customer or guest session | add, update, remove, clear, merge | checkout empties it |
| storefront's basket (`src/frontend/src/context/CartContext.tsx`) | the cart shown, an optimistic overlay, a coupon with its quote | add, change, sign in and out, quote again | cart, coupons |
| prices (`services/checkout.service.ts`, `discount.service.ts`, `src/frontend/src/utils`) | none | quote, coupon amount, order totals, the storefront's summary | cart, checkout |
| coupons (`services/discount.service.ts`) | a row with limits and a counter, usage rows | validate, recordCouponUsage, create, update, toggle, delete | checkout |
| promotions (`services/discount.service.ts`, `notification.service.ts`) | a row, the notices in the inboxes | create, update, toggle, delete, announce | every customer's inbox |
| address book (`services/address.service.ts`) | addresses, one default | create, update, delete, choose | checkout |
| catalogue (`services/category.service.ts`, `product.service.ts`) | category tree, products | create, move, archive, delete | order items refer to products |
| gallery (`services/product.service.ts`, `integrations/aws/s3`) | picture rows, objects in a bucket | attach, set primary, delete, rewrite | two stores without a common transaction |
| catalogue cache (`utils/cache.ts`) | entries with a time to live | read through, clear by prefix | Redis, every catalogue edit |
| reviews (`services/content.service.ts`) | review rows; their count and average on the product row | submit, moderate, delete, derive the pair | the console's product form writes the pair back |
| events (`events/realtime.ts`, `src/admin/src/hooks`) | streams per server, a Redis channel; the console's table | publish, relay, stream, read the table again | every change of an order |
| console transport (`src/admin/src/services/http.ts`) | the token, the requests under way | call, refresh, repeat, share a reading | sessions |
| email outbox (`services/email-outbox.service.ts`) | queued messages, locks, attempts | enqueue, claim, mark, reclaim | transport, suppression list |
| order mail (`services/order-email.service.ts`, `email.service.ts`) | keys in each instance's memory, inbox rows | the hooks of order, payment and delivery | transport, inbox |
| suppression list (`integrations/email/email-suppression.service.ts`) | one JSON value, a copy per instance | suppress, remove, look up | provider callbacks, outbox |
| sessions (`services/auth.service.ts`, both `http.ts` clients) | refresh tokens; cookies, locks and access tokens of the tabs | login, rotate, reuse alarm, logout, end all | every request |
| passwords (`services/auth.service.ts`, `staff.controller.ts`) | hash, reset links | login with upgrade of a legacy hash, change, reset, staff reset | sessions |
| staff (`controllers/staff.controller.ts`) | accounts, roles, per-user permissions | create, update, delete, permissions | sessions |
| support (`services/support.service.ts`, `contact.service.ts`) | tickets, contact messages | create, reply, close, reopen, status desk, triage, escalate | support e-mails |
| contact form (`services/contact.service.ts`) | enquiries with their verdict | score, compare with the last day, store, tell the staff | support, inbox |
| support e-mails (`services/support-notification.service.ts`) | a row per event | dispatchEmail with its breaker | transport |
| rate limits (`middleware/rate-limiter.middleware.ts`) | counters in Redis, each server's view of it | admit, refuse, note an outage | every request |
| invoices (`services/invoice.service.ts`) | numbered rows, an archive copy, a link on the order | create, regenerate, cancel | orders; called after payment |
| reports (`services/report.service.ts`) | none | sales, orders, customers | orders |
| backups (`src/database/scripts/backup-to-s3.mjs`) | objects in a bucket | dump, validate, upload, compare, retain | the database |
| audit, health, content pages, page layout | appended rows, probes, single rows | mostly reads | see section 7 |

What makes each correct:

* *ledger*: counters never negative, no unit lost, `Product.stock` and the label
  tell the truth, an order is credited back once, or once more for each request
  that had looked at the log before;
* *order lifecycle*: what is reserved is what waiting orders asked for, what is
  sold is what confirmed orders asked for, whichever path an order takes; every
  status change is one of the matrix; a hold ends even if nobody comes back;
* *payment*: PAID means captured, captured is never degraded, captured money is
  always recorded, a refund is recorded only if it happened; the switches and the
  keys in use are the saved ones; a comparison with the gateway hides nothing;
* *checkout*: one order and one reservation per key, coupon limits hold under
  overlap, a coupon never makes an order dearer, carts neither lose nor gain units,
  the page ends up showing the server's cart;
* *catalogue*: categories form a forest, no product vanishes with its category, a
  picture points at an object, a cached view is stale for a bounded time, a card
  shows its reviews;
* *messages*: every queued mail is sent or given up for a reason, an event is
  mailed once, reported addresses get no mail, notices are not repeated, a console
  shows what it heard of;
* *accounts*: one usable token per session, no false alarm under the lock, an
  owner remains, the last password set is the one that counts, a call is carried
  out once and for its caller;
* *books*: invoice numbers without gap or repetition, one per order; reports that
  add up; a backup to restore from.

Hard behaviour: checks made before a transaction and used in it; two
confirmations of one payment; events of the gateway late, repeated and out of
order; a sweep racing a payment; a crash between an outside call and the commit;
two matrices for one status; a log read before the lock that is to make it safe;
clamps that hide a misdirected call by taking another order's units; copies of a
row in several processes, refreshed by time only; two tabs with one cookie;
answers that overtake each other; two stores written one after the other.
`PROJECT.json` lists each at its line under `hazards`.

## 2. Modules

The order lifecycle shares its rows and is one composition; the other parts
share no rows with it that a property would relate, and stand by themselves.

| Module | What it is |
| --- | --- |
| `InventoryLedger` | the ledger's variables and operations, shared by the two systems below |
| `Inventory` | the ledger under undisciplined callers plus the warehouse and catalogue desks |
| `OrderStore` | the rows of orders, payments and deliveries, the three transition matrices, the requests of the server, checkout's transaction |
| `PaymentFlow` | online payment with the external gateway |
| `OrderDesk` | cancel, fail, the two status endpoints, the sweep, delivery |
| `OrderSystem` | the composition of the three, its fairness and its properties |
| `StockPromise` | the abstract specification: what an order's units may do |
| `Reconciliation`, `Reports` | the books of payments against the gateway's; the reports on orders |
| `Coupons`, `Carts` | one coupon with its limits and desk; the server carts |
| `Checkout` | the composition of both with processCheckout and the checkout page |
| `CartPage` | the basket a storefront page shows, against the server's carts |
| `Pricing` | quote, coupon amount, totals and the storefront's summary, in paise |
| `Addresses`, `Campaigns` | the address book; promotions and their announcement |
| `Catalogue`, `CatalogueCache` | category tree, products and their pictures in two stores; the cache |
| `Reviews` | reviews, moderation and the pair on the product's card |
| `Realtime`, `Transport` | from a change of an order to the console's table; how the console calls the server |
| `Outbox`, `OrderMail`, `Suppression` | the email outbox with the passes of every instance; the mails sent at once; the suppression list |
| `Sessions`, `Passwords`, `Staff` | tokens, tabs and browsers; what changes a password; accounts and permissions |
| `Tickets`, `Notices` | support tickets, contact messages and the public contact form; the tickets' e-mails |
| `Invoices`, `GatewaySettings` | invoice creation; the payment switches and credentials |
| `RateLimits`, `Backups` | the limiters and their shared store; the nightly backup |
| `LedgerProofs`, `SumLemmas` | lemmas: the ledger's operations; sums over finite sets |
| `OrderSystemProofs`, `BackgroundProofs`, `StorefrontProofs`, `AccountProofs`, `RecordsProofs`, `NoticesProofs` | theorems |
| `MCOrderSystem`, `MCBooks`, `MCBackground`, `MCShopping`, `MCBackOffice` | small instances for TLC |

### How the code maps to it

*Rows.* `available`, `reserved`, `sold` are the columns of `inventories`,
`stock` is `products.stock`, `restocks[o]` counts the RESTOCK rows of
`inventory_logs` for order `o` (other log rows are never read back).
`orderStatus`, `paymentStatus` are columns of `orders`; `payment`, `rzpOrder`,
`rzpPayment` of `payments`; `delivery` of `deliveries`.  `"NONE"` stands for an
order not placed yet; its other rows then have the values checkout will insert.
A gateway payment id is named by the gateway order it was made on, as at most
one payment of a gateway order is ever captured.

*Requests.* `req[w]` is the request worker `w` serves: its kind, the order, the
rows it read (`seen`) and how far it is.  A `...Read` action is the handler's
first query with all its early returns as guards; a `...Write`, `...Save` or
`...Confirm` action is its transaction; `...AtGateway` is its call to Razorpay.
`Drop` ends a request that commits nothing: an error answer, a conflict, a
deadlock abort, a rollback, the server going down.  The other modules follow the
same scheme with their own record of requests (`creq`, `cartReq`, `edit`, `task`,
`issuer`, `change`, `form`, `promoReq`, `hook`, `visit`, `enquiry`, ...).

*Transactions are one step.*  Each modelled transaction either reads nothing it
depends on after its first write, or reads it under a lock it already holds.
The exceptions are steps of their own: `restockOrder` reads the log before any
inventory row is locked, which is harmless when the caller has locked the order
row (`RestockUnderLock`) and a separate step when it has not (`TransitionCheck`,
`ReturnCheck`; `RestockCheck` in `Inventory`); a cart merge reads the customer's
lines inside its transaction without a lock (`MergeExisting`); an order is
announced inside checkout's transaction (`Realtime`).  Database deadlocks
are therefore not modelled, only their outcome, `Drop`.

*Bags.*  The items of an order are a function from products to quantities.  Items
of a product that was deleted (null `productId`) are filtered out by the code
and do not appear.

*Money.*  In the order lifecycle an amount is a number of units (2 in the runs, so
that a part can be refunded).  A capture of another amount or currency is an
anomaly the code records without touching any modelled row, hence no step.  The
gateway answers `assertGatewayPaymentMatchesRecord` with "captured" until all of
the money is refunded.  The webhook `order.paid` changes nothing.  `Pricing` has
real amounts, in paise, with the code's rounding and both of its thresholds.

*The outbox.*  `status`, `attempts`, `dedupeKey` are columns of `email_outbox`;
`stale[m]` says that `locked_at` is older than `LOCK_STALE_MS`.  `step[w]`,
`tries[w]`, `verdict[w]` are the local state of `runOnce` on instance `w`: how far
it is, the rows of its batch with the attempt number each was read with, and the
row just delivered with the mark it is to get.  The rows of a batch are
delivered in any order, as the order of `next_attempt_at` is abstracted away with
the clock.  `Crash` is the instance's end and also a mark in the catch block that
throws, as both end the pass with rows left PROCESSING.  Nothing renews a lock:
`Expire` is five minutes passing for a row its pass has left, `Overrun` five minutes
passing while the pass is still at work.  The marks write by id, so the late pass marks
the row whatever has become of it.

*Checkout and basket.*  `page[k]` is the page, `order[k]` the order under its key,
`creq[r]` a request between the probe of the key, its reads and its transaction.  An
answer may be lost (`LoseAnswer`), after which the page submits again, possibly
while the first request still runs.  In `CartPage` the server handles a call in one
step, as `Carts` has the steps, and the page applies answers in any order.  `who` is whom
the page takes its user for and `token` what it can show for it: the routes of the cart
are `optionalAuth`, so a call without a good token reaches the guest's cart (`Reached`)
and is answered with it.  A token lapses at any time and is there again after a refresh
or the restoring of the session.  That the transport of the storefront falls back on the
token of a console in the same browser is left out.

*Sessions and calls.*  Tokens are numbered in the order they are issued and carry
the login they descend from; a tab has an access token and at most one call under
way; tabs of a browser share the cookie, the stored identity and the refresh lock
(`navigator.locks`).  The console restores a page under that lock, the storefront
does not, as in the two clients.  `Transport` is one tab of the console seen from its
calls: which are queued behind a refresh, repeated, shared or given up.

*Events.*  `change[x]` is a change of an order with the server that makes it and the
way it is announced (before the commit, after it, or not at all); `chain` is a
server's queue to Redis, `wire` what Redis has on the way to it, `stream[c]` the one
stream of a console, `window[c]` and `fetch[c]` its delayed, shared read of the table.

*Copies.*  `CatalogueCache`, `Suppression` and `GatewaySettings` are the three places
where a process works on a copy of a row and only time or its own writes renew
it.  Time to live is counted in ticks in the first and is any duration in the
other two.  In `Suppression` a call is `loading` between its query and the assignment of
the copy, and `written` between its write and the assignment that follows it: the
database's answer becomes the copy when it is here, whatever was written meanwhile.  In
`GatewaySettings` a pair of key and secret has one name: a save names both halves, one,
or none, as the form may change or clear the key and keep the masked secret, and the
reverse.

*Limits.*  A command to the shared store is `waiting`, `counted` or, when the library
reloads its script after a failure, `loading`; it is sent a second time once.  `stray` are
the commands nobody waits for, which the client may still deliver.

*History variables.* `overlapped`, `raced`, `unmarked`, `misjudged`, `clobbered`, `mixed`,
`halved`, `behind`, `overtaken`, `outlived`, `outdated`, `crossed`, `touched`, `unfinished`, `astray`, `hasty`, `strayed`, `overslept`,
`moved`, `lost`, `missed`, `cut`, `unmailed` record that a hazard named under `hazards`
has happened; `told`, `removed`, `ceiling`, `reported`, `pulled`, `cleared`, `excused`,
`known`, `era`, `carriedOut` count what a property compares with.  No action reads one
in its guard, except to bound a run.

*Left out.*  Audit rows, which come after the commit and are read by nothing
modelled; ownership checks; the legacy delivery statuses PICKED_UP and IN_TRANSIT,
which no transition enters; the threshold a label is computed with is read just
before the row lock, the model reads it with the lock (the threshold does not decide
whether a label says sold out); the self-healing creation of a missing inventory row
is the initial state; coupon dates, minimum values and product filters in `Coupons`
(they only refuse; `Pricing` has them); the simulated e-mail transport, which tests use, and
development without a provider, and in which no mail leaves at all.

*Slips.*  An operator whose comment calls it a slip, or that no definition uses, is
a wrong variant of a definition near it.  It is not part of the specification;
replacing the definition by it must make the named property fail.

## 3. Properties

Stock (`Inventory`, `OrderSystem`): `NoUnitLost`; `MovesAreShown`; `CountersMatchOrders`,
what is reserved and sold is what the orders say; `CreditedOncePerLook`: an order that
was credited is credited again only by a request whose look at the log is older than
the credit, which is less than `restockOrder`'s comment says;
`NoSecondDeduction`; and `KeepsStockPromise`, which says the lifecycle implements
`StockPromise` under the mapping `ClaimOf`: an order that waits for its payment
*holds* its units, a confirmed one that was not restocked has them *sold*, any
other had them put *back*.

Money (`OrderSystem`): `MoneyIsBacked`, that is `PaidIsCollected`, `RefundIsReal` and
`HandlersAreInformed`; `CapturedNeverDegrades`, `MoneyIsRecorded`; statuses:
`TransitionsFollowMatrix`, `HoldsAreReleased`.  `ReconciliationHolds`: no disagreement of
the books is hidden, and the report counts what it lists.  `ReportsAddUp`: what a
report lists adds up to what it totals.

Shopping: `CheckoutHolds`, that is `CouponWithinLimits` and `StockReservedOnce`;
`RetriesCanPay` (`Checkout`); `CartsAddUp` (`Carts`: an addition adds to what the cart
then holds, a merge creates nothing and loses only what the cap of a line cuts off);
`BasketHolds` (`CartPage`: at rest the page shows the server's cart of the identity it has, and a coupon as
quoted for it); `QuotesAgree` (`Pricing`: nobody is billed more than the cart or the
summary showed, and a discount stays within what its coupon applies to);
`OneDefault` (`Addresses`); `CatalogueHolds`, `HistoryKeepsProducts`, `GalleryHolds`
(`Catalogue`: the categories are a forest and a deletion takes no live product along; a
picture has its object, and one of them is the primary one); `StaleIsBounded` (`CatalogueCache`); `CampaignHolds` (`Campaigns`);
`ReviewsHold` (`Reviews`: the card shows the approved reviews).

Messages: `OneHandOneRow`, `EndedStaysEnded`, `EveryMessageEnds` (`Outbox`), and
`RepeatsNeedFaults`, two bounds that count what goes wrong: a message has at most one
copy more, and at most one attempt more, per fault, where a fault is a crash, an
answer of the provider that is lost, a mark that fails, or a pass that outlives its lock
on a row; `NoticesHold` (`Notices`:
one copy per event, the breaker overshot by the dispatches under way only);
`OrderMailHolds` (`OrderMail`: each copy has a reason, the inbox follows the mail);
`ReportsAreKept` (`Suppression`); `TicketsHold`, `HandlersFollowTable`, `IntakeHolds`
(`Tickets`: what closed tickets say is so; handlers that never look at the table obey
it; no text is accepted twice, no first enquiry turned away, quarantine is silent);
`ConsoleCatchesUp`, `NewOrderAppears` (`Realtime`).

Accounts and books: `OneTokenPerSession`, `ConsoleIsCurrent`, `RaceIsBenign`
(`Sessions`); `TransportHolds` (`Transport`: a writing happens once, readings are fresh,
answers are the caller's own); `PasswordsHold` (`Passwords`); `StaffHolds` (`Staff`: an
owner remains, everybody may do what was asked for); `BooksAreInOrder` (`Invoices`);
`SwitchesAreHonoured` (`GatewaySettings`: what was saved is what is accepted, and a key
goes with its own secret); `RateLimitsHold` (`RateLimits`: a window is
shared by all servers, an outage logged once); `BackupRemains` (`Backups`).

Several of these name what they excuse: `PasswordsHold` the four overlaps of
requests nothing guards against, `ReportsAreKept` a write on a list that was stale
or not read, `CatalogueHolds`, `GalleryHolds`, `CampaignHolds`, `CartsAddUp` and
`ReviewsHold` edits that overlap, `GalleryHolds` also a rewriting that marks no picture as
the primary one (`services/product.service.ts:861` takes the caller's flags),
`OneHandOneRow` and `EndedStaysEnded` the rows on which a pass outlived its lock,
`CreditedOncePerLook` the requests that looked at the log too early, `TicketsHold` and
`HandlersFollowTable` a ticket that was written over after it changed,
`SwitchesAreHonoured` a save that named one half of a pair,
`BasketHolds` an answer that was overtaken or came from the other identity's cart,
`ConsoleCatchesUp` an outage or a read that was joined, `BooksAreInOrder` an order whose
call was cut off.  TLC finds the bare statement violated in each case; the excuse is
the smallest history variable with which it holds, so that the property says
precisely where the code's guarantee ends.

## 4. Runs

| Run | Instance | Shows |
| --- | --- | --- |
| `money` | 1 online order, in three groups: the payment handlers and the sweep, 2 workers, 2 gateway orders; the handlers that look at the restock log before they lock, 2 workers; and every handler, one at a time; fairness | what is said of money is so, no credit but for the looks that preceded the first; captured money is recorded, holds end |
| `books` | one group at a time: cash orders through assignment, delivery, cancellation; online orders paid, failed, given up, one request at a time; verification racing the webhook and the sweep on two workers; reviews; payments; reports | counters match the orders, every step is one the stock promise allows; cards show the approved reviews; comparisons and reports are honest |
| `background` | one part at a time: the ledger with 2 orders and both desks; the mail workers, 3 messages, 2 of one event, 2 instances, fairness; 3 nightly backups | no unit lost, no count moves without its copy and label; one hand per row and no way back from its end, but where a pass outlived its lock; repeats paid for by faults, every message ends; a backup to restore from |
| `shopping` | one part at a time: orders, carts, coupons, addresses, pricing, catalogue, cache, gallery, campaigns, hub, page, basket, voucher, writing, owners | the properties of each part |
| `backoffice` | one part at a time: console, storefront, devices, staff, tickets, triage, notices, invoices, suppression, switches, halves, passwords, orderMail, limits, intake | the properties of each part |

Two orders of one product are what a misdirected release or deduction needs to
show: it takes the other order's units.  Two workers are what a stale check
needs.  Two gateway orders are what a replaced id needs.  `MaxUnits` bounds the
units the desks can bring in, `MaxRestockers` the restocks of an order that passed the
log check, `MaxFaults` the faults of the outbox, `MaxQuantity` stands for
`MAX_INVENTORY_QUANTITY`; no other counter of these is bounded, orders are finite
and so is every behaviour.  For that reason the runs do not check deadlock: the
system stops when every order has reached an end, and so does a shopper who has made
every call there is.  `background` checks it: the desks and the instances' timers never
stop, and the backups stutter once their nights are used up.

In the mail part, two attempts and one fault are enough to make the extra attempt
and the extra copy happen, two messages of one event and a third to have a batch
that is half marked when its instance dies.  A pass that outlives its lock on a row is
such a fault: another instance takes the row over, both deliver, and the late mark
writes over whatever the row has become.  One is enough for that.

Requests one at a time say that the *protocol* of a group of handlers is right;
the racing groups then say which of it survives concurrency.  The constant `Prompt`
marks what the second kind needs: with `Prompt = TRUE` no money arrives, or is on
its way, for an order at the moment it is given up.  The code does not ensure this
(see `swept_then_paid`), so the run that is about stock *and* online payment states
it, and no run about money does.

The runs explore independent parts; the initial state picks the part, the others keep
their initial values, and parts that share no variable cannot influence each other, so
nothing is lost by it.  Their bounds:

* orders: two pages of one customer under one coupon and two units, so that a
  repeat, the last unit and the last use can meet; coupons: both limits 1 or 2 and
  the desk; carts: two requests, a line cap of 2, one guest to merge;
* basket: two calls that overlap, without coupons, where a signed-in page without a
  token only adds and reads, and no quantity is set to one; voucher: calls that come one
  after the other, with coupons whose quotation starts at two units;
* pricing: prices just below and above both thresholds and one that rounds;
* addresses, staff: one request at a time, since two break the property
  at once (`hazards` says how) and nothing locks; an update of an account changes its
  role or its standing (`OneChange`); the theorems take any number of
  requests and name the window in which nobody else may write;
* tickets, triage: two handlers that overlap, one ticket and up to two reopenings;
  three tickets filed in order for two messages;
* catalogue: three categories (a cycle through a third needs them), one product,
  two editors, up to the first overlap; gallery: two objects, two clerks of whom
  one rewrites galleries, with a mark and without (`OneRewrites`);
* cache: two views of times to live 1 and 2, two readers, two edits, `MaxChanges`
  = 3 states of the catalogue: an old one, the present one and one in between;
* campaigns: one customer, two requests, one removal;
* hub: two servers, one console whose token stays good, two changes; page: the same on
  one server, which publishes one event before it tells of the next, with tokens that
  lapse and the delayed and shared reads of the table;
* writing, owners: one writing and two readings under one operator with two tokens;
  two readings while operators change;
* console, storefront, devices: two tabs of one browser, or one each of two, three
  tokens: a session that is rotated, and a second one to be killed by an alarm;
* notices: four events of one ticket that get their rows in order, two dispatchers, a threshold of 2;
* orderMail: one event, three calls on two instances, two attempts; limits: two
  servers with a request each, a route of two limiters, one command at a time that nobody
  waits for, and one request whose commands may fail (`QuietStore`); intake: two texts, two origins, two
  enquiries under way, three in all, a day that passes;
* invoices: three orders, two callers, two attempts; `QuietBooks`: one order is
  cancelled at most and the desk works on the first invoice;
* suppression: two addresses, instances and calls, of which the first is a change on the
  first instance (`CallsInTurn`), up to the first write on a stale list;
* switches: two key pairs, servers and forms, up to the first overlapping save;
  `QuietGateway`: online payment and cash are switched together; the first server holds a
  copy, and one form may be saved through the second and knows the second pair; keys are
  saved with their secrets;
* halves: keys and secrets saved in any combination through one server, no copies;
* passwords: two passwords, links and requests, one overlap of the named kinds;
* reviews: two authors, reviews and requests; payments: two rows with two tries each,
  pages of one; reports: two purchases in two days of two halves, a list of one;
* backups: three runs, retentions of none and one night.

### Disagreements found

Each is a run of its own, with one property that a comment or doc of the repository
states, and is listed with the quotation under `findings`:

| Run | What happens |
| --- | --- |
| `captured_degraded` | failed webhook reads, captured webhook commits, failed webhook writes FAILED over CAPTURED |
| `deducted_twice` | verify and webhook overlap, a full refund in between reopens the gate, the loser deducts again |
| `swept_then_paid` | the sweep cancels, verification sets CONFIRMED: out of a terminal status, with units that are back on sale |
| `retries_can_pay` | the page retries a failed payment with its key and is answered with the failed order, which refuses payment |
| `session_race` | a client whose refresh answer got lost presents the exchanged token; every session of the account ends, there is no grace window |
| `history_deleted` | a product is ordered and archived, its category deleted: the cascade takes the product and its history |
| `new_orders` | an order is announced inside the transaction that places it: the console hears it, reads its table before the commit, and does not list the order |

Met while modelling and proving, and kept as notes under `hazards`, without a run:

* orders: reassigning staff while the courier delivers writes the old delivery status
  back (`services/delivery.service.ts:382`); the administrator's PENDING_PAYMENT to
  PAYMENT_FAILED releases nothing (`utils/order-status.ts:139`); the guarded transition
  cancels a SHIPPED order and restocks nothing (`services/checkout.service.ts:606`);
  delivery moves an unpaid online order to SHIPPED (`services/delivery.service.ts:520`); a
  return and the administrator's FAILED both find no RESTOCK row and both credit
  (`services/inventory.service.ts:842`); a customer's cancellation releases units
  a concurrent confirmation has already sold (`controllers/order.controller.ts:709`);
* payment: an initiation that read its row before a capture saves PENDING over CAPTURED
  (`integrations/razorpay/razorpay.service.ts:632`).  The proof of
  `CountersAddUpWhileReadsHold` shows what that costs: the capture gate is open again, and
  with three requests open (two initiations that both read "no gateway order", and a
  verification) the order deducts a second time, from another order's units.  Two
  workers do not reach it, so the two-worker group passes; the theorem, for any number
  of them, asks that no other initiation has saved in between;
* stock: a product edit writes back a stale stock (`services/product.service.ts:753`;
  `BackgroundProofs!CopyInSyncWhileEditsHold` says that nothing else does); a settings change writes a
  label of a stale count (`services/inventory.service.ts:280`);
* desks: a used coupon is deleted with its usages (`services/discount.service.ts:574`); two
  updates of a promotion push a percentage above 100 (`services/discount.service.ts:846`)
  and a notice that was deleted is announced again; the product form writes back the
  rating and count it loaded (`src/admin/src/pages/admin/AdminProductsPage.tsx:404`), and
  deleting a review leaves the pair as it was (`services/content.service.ts:462`);
* accounts: the upgrade of a legacy hash puts an old password back
  (`services/auth.service.ts:525`); cash on delivery is offered before the first save of
  the payment settings and then refused (`GatewaySettings!CodOffered`);
* mail: a suppression list that could not be read is written back
  (`integrations/email/email-suppression.service.ts:51`); the breaker of support e-mails
  counts over the whole life of a ticket although its comment says consecutive
  (`services/support-notification.service.ts:36`); the keys of order mails are held per
  instance, so that two instances mail an event twice;
* books: an invoice cut off before its link stays unlinked (`services/invoice.service.ts:114`);
  gateway payments no row knows are listed under the id 'N/A', which is then counted as a
  row and makes `reconciled` one too low, although the comment says distinct payments
  (`services/reconciliation.service.ts:143`, `:202`); the products report ignores the
  window it is asked for, as `dateFilter(...)` is read at `.order`, which it never sets
  (`services/report.service.ts:323`); a backup whose sizes do not match is kept in the bucket;
* clients: the comment at `src/frontend/src/context/CartContext.tsx:109` keeps a stored coupon
  when its quotation fails, but `couponService.validate` turns every failure into a
  refusal, and the coupon is dropped; readings of one address that are under
  way at once share one request even when a writing lies between them
  (`src/admin/src/services/http.ts:330`); a server that never had its store does not
  log the outage (`middleware/rate-limiter.middleware.ts:218`).

### Fairness

`MCOrderSystem!GroupScheduling` (`OrderSystem!Scheduling` for the workers of the group)
assumes: the sweep of a stale order eventually runs (`WF`; `setInterval` fires again,
errors are caught, the lock is released with its transaction); a request never stays
open (`WF` on `Drop`; transactions have timeouts, and an exception or a restart ends
the request); a capture event is delivered again until its handler commits, and the
handler is not interrupted before its commit every time (`SF` on `CapturedRead` and
`CapturedConfirm`; Razorpay redelivers until it gets a 2xx, and the handler
answers only after the commit).  Nothing is assumed of browsers, administrators
or customers.  Redelivery in fact ends after a day; a server down for longer is
outside the assumption.

`MCBackground!MCTimers` (`Outbox`'s fairness, for the part that runs it) assumes: the
timer of every instance fires again and calls to the provider and the database return
(`WF` on `PassStep`; `setInterval`, and an instance that dies is replaced); clocks
advance (`WF` on `Expire`); a row that keeps coming due is claimed (`SF` on `ClaimRow`;
rows are taken in the order they came due, and a retried row comes due after the rows
that wait).  Nothing is assumed of the provider's answers.

## 5. Proofs

TLAPS checks the theorems for every value of the constants that satisfies the named
assumptions.  These say that ids are distinct from the null ids, that items and initial
stock are functions to the naturals, that limits, attempts, batches and times to live
are positive, and that the sets one counts or sums over are finite: `OrdersAssumption`,
`StoreAssumption`, `PaymentAssumption`, `CartAssumption`, `CouponAssumption`,
`CheckoutAssumption`, `PricingAssumption`, `CartPageAssumption`, `AddressesAssumption`,
`CatalogueAssumption`, `CatalogueCacheAssumption`, `TransportAssumption`,
`SessionsAssumption`, `StaffAssumption`, `TicketsAssumption`, `IntakeAssumption`,
`NoticesAssumption`, `OrderMailAssumption`, `RateLimitsAssumption`, `OutboxAssumption`,
`BackupsAssumption`, `InvoicesAssumption`, `ReconciliationAssumption`, `ReportsAssumption`.
TLC evaluates each of them in a run.

Some theorems have a hypothesis besides, because the code does not keep the property
without it.  On the constants, as in the run they belong to: `DeskInTurn`, `BookInTurn`
(there is one request), `StockHandlers` and `StockInTurn` (below).  Or on the behaviour, for
any number of requests: `ReadsHold` (orders), `EditsHold` (catalogue edits), `ChecksHold`
(staff), `BookHolds` (addresses), each as `[][...]_vars`, name the
window of a race, the time between a query outside a transaction and the write it decides,
and say only that nobody writes those rows in it.  A window is a condition on single
steps, so TLC can be given it as an action constraint: each was tried so on a small
instance with two requests, where the property fails without it and holds with it.  Together with
the runs that violate the property inside the window they say where the code must lock, and that nothing else is missing.  The other
theorems have none: what their properties except, they name themselves.

### The ledger

* `LedgerProofs`: what each ledger operation keeps, as `ASSUME ... PROVE` lemmas.
* `BackgroundProofs!TypeCorrect`: `Spec => []TypeOK`.  The point is the
  subtractions: each is bounded by a clamp (`AtMostFact`) or a guard.
* `!NothingLost`: `TypeOK /\ NoUnitLost` is inductive: release and deduct move units
  between counters, reserve too, a restock adds at least what it takes from sold, a
  desk changes `supplied` by what it changes the counters.
* `!CopyInSyncWhileEditsHold`: `[]StockInSync`, if no count moves under an open catalogue
  edit of its product; `SyncInv` adds that an open edit holds the units of the copy, so
  its blind write changes nothing.  `CopyInSync`: without the catalogue desk there is no edit.
* `!CountIsShown`: `Spec => MovesAreShown`, with any desk.  Each operation rewrites every
  row whose count it moves (`OrderCallsShow`, `DeskShows`), and the label is right
  because counts are natural numbers, which is where the invariant comes in.

### The order lifecycle (`OrderSystemProofs`)

* `TypeCorrect` is not inductive as it stands: `InitiateSave` writes `req[w].g` to the row,
  so the invariant (`TypeInv`) adds which fields a request of each kind carries.
* `PaidOrdersAreCollected` and `WaitingHandlersAreInformed` are proved together, as
  `MoneyInv`.  `PaidIsCollected` alone is not inductive: a confirming handler writes PAID
  long after the gateway was asked, and ids can be replaced in between.
  `HandlersAreInformed` carries what must still be true at the commit: the id in the
  request is a gateway order opened for this very order, and it was captured; gateway
  orders never change owner and never leave "captured" (`GatewayGrows`).
* `RefundsAreReal`: `RefundInv`, on top of `MoneyInv`, says the same of refunds: a request
  that is about to record one knows a gateway order of its order whose money went back,
  and what was given back never comes back.  `MoneyIsBorneOut` joins the three.
* `UnitsComeBackOncePerLook`: `Spec => CreditedOncePerLook`, for any workers.  `CreditInv`
  counts: once an order is credited, its credits and the requests that may still credit it
  on an old look at the log (`Looked`) are together no more than the workers.  Every
  restock but that of a guarded transition and of a return reads the log under the order's
  lock, so that it is the first; the two others end the request that looked (`Credit`).
  `UnitsComeBackOnce` is the case of one worker.
* `CountersAddUpWhileReadsHold`: reserved is the sum over the orders that wait for their
  payment, sold the sum over the confirmed ones, for any products, orders, quantities
  and *any number of overlapping requests*, cash and online orders together; and
  `ThePromiseIsKeptWhileReadsHold`: the lifecycle implements `StockPromise`, step by step.
  What they assume:
  - `StockHandlers`: the handlers that can share the books.  The administrator's
    status endpoint and the guarded transition confirm a pending order without deducting,
    `payment.failed` releases units of an order that was given up already, a refund or
    a bad signature puts a captured payment back so that it is confirmed again;
    and `Prompt`, no money for an order that no longer waits for it;
  - `CallsFit`: nobody reports the payment of a cash order as failed, or sends a
    courier for an online order that is not paid;
  - `ReadsHold`: between a desk's reading of an order and its write nobody else writes
    that order's status, delivery or log; between an initiation's reading and
    its save nobody else saves a gateway order.  Checkout, verification, the
    webhook and the sweep need no such condition: they decide again under the
    order's lock, and of any number of confirmations only the one that passes the capture
    gate deducts.
* Why it is inductive: `StockInv` is the sums and `RowsInv`: the statuses that can go
  together (`StatusesFit`: a pending order's payment is PENDING, a confirmed online order
  is PAID, a captured payment has its gateway order), money waits only for orders that
  wait for it (`MoneyWaits`), and what a desk read is still so (`RequestIsCurrent`), which
  holds through other requests' steps because rows only move forward (`RowsGrow`) and
  reads hold.  A step either leaves the claims and the counters alone (`StockStays`) or
  moves the units of one order from one claim to another in both (`StockExchange`); the
  first gives a stutter of the promise, the second one of its actions.
* `CountersAddUp` and `ThePromiseIsKept`: the same without a condition on the behaviour,
  under `StockInTurn`: one request at a time, failPayment for online orders only, delivery
  for cash orders only, the sweep not beside another path that gives orders up.  A step
  that writes rows ends its request (`WritersEnd`), so reads hold.

### Mail, events and backups (`BackgroundProofs`, `NoticesProofs`)

* The outbox: for any messages, keys, instances and bounds, and passes as slow as they
  like, every safety property (`RowsStayApart`, `RepeatsArePaidFor`, `EndIsFinal`,
  `OutboxTypeCorrect`).  They share one inductive invariant, `OutboxInv`.  `HeldOK` is its
  core: a row in somebody's hand is PROCESSING under a fresh lock of that worker, so that
  nobody else can reclaim or claim it, unless it is of `outlived`, of which nothing of the
  kind is said.  Copies and attempts are bounded for those rows too, by counting:
  `CopyIsPaid` adds up the copies of a message, the workers that may still deliver it
  (`Chances`) and the place it has or may get in the queue, `TryIsPaid` its claims and the
  workers that may queue it again (`Retriers`); a lock that is outlived makes it claimable
  once more, and is a fault.  `KeysOK`: the dedupe key is held exactly while a message is
  queued or sent, and by one message.
* `ABackupRemains`: `BackupInv`: a verified object is whole and readable while it is in the
  bucket, and retention runs only after its own run was compared.
* `ConsolesCatchUp`: `RealtimeInv` follows an event through every place it can be: `Told`
  (the types), `ReachInv` (an event is in the chain, on the wire, in the stream, heard, or
  cut off), `OrderInv` (those places, one after the other, hold a server's events in the
  order it published them, each once), `PageInv` (a heard change is listed, missed, or
  still to be read).
* `EventsAreMailedOnce`: `CopiesInv` says who owns an event's row (`OwnersKnow`: two
  dispatchers never both hold one) and what each status of the row implies for the mail
  that left (`RowsKnow`).  `BreakerIsHardlyOvershot`: `BreakerInv` counts failed events
  together with the events under way of dispatchers that passed the check; failing moves
  an event from one set to the other.  `NoticesAreKept` joins the two.
* `OrderMailIsExplained`: `MailInv` counts the copies that have left with the calls that may
  still send one (`CopiesAreCounted`).
* `EnquiriesAreJudged`: `IntakeInv`: a verdict rests on the rows there were when it was
  formed (`VerdictsAreFounded`).  `TicketsAreKept` and `TableIsFollowed`, for any number of
  handlers: `TicketsInv` says what a handler still knows of the row it loaded, or that
  the ticket or the message is one of `overtaken`.
* `LimitsAreKept`: `RateInv`: requests admitted and requests about to be together fit into their
  window (`RoomIsHeld`), and what a server believes of the store agrees with what it logged.

### Accounts (`AccountProofs`)

* `SessionsKeepOneToken`: `ServerInv` orders tokens by issue (a token's login is no later
  than itself, nothing beyond `issued` exists, an ended session has no usable token, a
  session at most one), `ClientInv` bounds what the tabs hold.  Rotation is where it
  could break: the claim and the replacement are one transaction, and the lemma
  `RotateKeeps` needs both.  `ConsolesStayCurrent`: `LockInv` adds that a console's browser
  holds an exchanged token only while the tab with the lock waits for its answer.
* `PasswordsAreKept`: `PasswordsInv` says what each request under way still knows when
  nothing has overtaken it (`LoginsKnow`, `IssuesKnow`, `ResetsKnow`).
* `SwitchesAreKept`: `SwitchInv`: while no save is under way the mirror agrees, and a copy
  that is not behind equals the row; a key is with its own secret in the row and in every
  save under way that does not name a half.  `AnOwnerRemainsWhileChecksHold`: `StaffInv`: what the
  checks of a request established still holds at its transaction.  `ChecksHold` has a part
  per check: the role that was ranked, the other active owners that were counted, the
  permission rows that were read.  Two owners who suspend each other violate the second.
  `AnOwnerRemains` is the case of one request at a time (`DeskTurn`).

### Storefront and console (`StorefrontProofs`)

* `OrdersReserveOnce`: `ShopInv`: the shelf and what live orders ordered add up to what was
  there at first, the limits a request carries to the counting were once set
  (`LimitsKnown`), and a page that has used the coupon has its order.  `CartsKeepTheirUnits`:
  `CartInv`: what a merge that nobody touched has read is what the carts hold.
* `TheBillIsAsShown`: `PricingInv`, and monotonicity of the rounded percentages.
* `BasketsAreShown` (`BasketInv`: every call says whose cart it reaches, and only the cart of
  the page's own identity is taken for right), `CallsAreCarriedOutOnce` (`TransportInv`: an entry that
  readings may join is of a call under way with the token of its key),
  `PromotionsStaySound` (`CampaignInv`).
* `OneDefaultIsKeptWhileLooksHold`: `AddressInv`: the address a request looked up is still
  in the book, and one about to be deleted is still the default or not (`BookHolds`).
  `createAddress` needs nothing: whatever its look saw, its transaction demotes the others
  whenever it sets the flag.  `OneDefaultIsKept` is the case of requests that come one after
  the other (`BookTurn`).
* `TheTreeStands`: `CatalogueInv`.  That no category is its own ancestor is said by sets, not by
  following parents: in every set of rows there is one whose parent is outside (`Forest`),
  and for a move that was checked some set of rows separates the category from its new
  parent (`Separates`).
  That no live product goes with its category rests on the check: a deletion that nobody
  overlapped finds in the category what it counted.
* `PicturesAreKept`: `GalleryInv`: an edit under way points at an object that is there or
  was deleted with leave, and knows the primary unless another edit raced it; no step but a
  rewriting without a mark leaves a gallery without one.

### Books (`RecordsProofs`)

* `ViewsAreFresh`: `CacheInv`: the age of a stale entry and the time it has left add up
  to the time to live at most, and a clearing never runs ahead of the catalogue.
* `ReportsStayListed`: `ListInv`: every copy and callback not known to be outdated equals
  the stored list.
* `InvoicesAreInOrder`: `BooksInv`: numbers are `1..n` (`Numbered`), a caller that is about
  to insert has read a number of that range or the next (`IssuersKnow`), links point at
  rows of their order (`LinksAreReal`).
* `ReviewsAreCounted`: a request that derives the pair holds what the reviews are, unless
  it was disturbed.  `ReportsAreHonest`: `ReconInv`: what the report has read is what the
  books say, until they move.  `ReportsAreConsistent`: `ReportInv`: each statement of a
  report counted what there is, and the groups of a breakdown add up to the whole
  (`SumLemmas`).

`SumLemmas` proves what the community module's sums over finite sets are: that the
recursion has a solution, and only one; that any element may be put first; what one
changed value changes; that a breakdown adds up.  The induction is over the subsets of a
finite set, stated without an operator parameter (`MinimalSubset`: among the subsets in a
collection one has no smaller one in it), so that the provers can use it.

Only model-checked: `CountersMatchOrders` and `KeepsStockPromise` in the two-worker group of
`books` where two initiations of one order may overlap (the theorems exclude that, and with
a third request the property fails); and liveness under fairness, `MoneyIsRecorded`,
`HoldsAreReleased` and `EveryMessageEnds`, which is out of the prover's reach.  Every other
property of a passing run is a theorem.  No module has a RECURSIVE operator.

## 6. Plan

Done: the ledger, the order lifecycle with payment, desk, delivery and sweep, the stock
promise, the mail, checkout with coupons, carts and the basket, the catalogue and its
cache, events, accounts, support, books, switches, limits and backups, and the proofs
above.  Left:

1. proofs: the stock promise with couriers and failed payments of unpaid online orders,
   where a reservation may be released twice and the sums become bounds;
2. redelivered `payment.failed` and a second attempt after a failed one, stated per
   event, beside a second order; `failPayment` after a partial refund;
3. `TxLocks`: lock orders of the transactions and the database's deadlock abort;
4. reconcileInvoices; the revenue, discount and stock reports.

## 7. Not modelled

Roughly half of the repository is pages, tables, forms, icons and types of the two
React applications, which the models let call anything in any order; of them the
checkout page, the basket, the tabs with their tokens and calls, the order table, the
product form and the payment form take part in protocols and are modelled.  On the
server, what is left out is: listings, search, serialisation and validation schemas;
audit and health; authentication filters and the other middleware (a refused request is
one that does not happen); content pages and the settings that are one row and one
write; templates, PDF layout and provider calls (I/O); reconcileInvoices and the reports
that are one grouping; configuration, wiring, seeds and migrations other than the
constraints the type invariants mirror.  `PROJECT.json` gives each with its reason.
