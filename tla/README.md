# Verification of the storefront backend

The repository is the customer side of a multi-tenant grocery shop: an Express
API (Node.js) over PostgreSQL and Redis.  Many copies of the API may run behind
one address, each with its own event loop, and none of them coordinates with the
others except through rows, row locks, advisory locks and Redis keys.  That is
where its hard behaviour is, and that is what the specifications are about:
interleavings of requests that lie between two `await`s of each other, a process
that dies between two statements, a Redis command that fails and is swallowed.

Source paths below are relative to the repository (`src/...` is its own `src`).
`PROJECT.json` maps every definition of the models to the lines it stands for.

## 1. Inventory

### Parts, their state, what they do

| part | code | state | operations | hard about it |
|---|---|---|---|---|
| Transactional outbox | `application/services/outboxProcessor.js`, `outboxHandlers.js`, `infra/outbox/startOutboxPoller.js` | table `outbox_messages`; per process a poll loop, its abort signal, handlers still running | claim a batch, run handlers under a timeout, settle, retry, dead-letter, stop | two connections per batch, crash between claim and settle, a timeout that does not cancel |
| Checkout | `application/services/checkout/*`, `OrderRepoPg`, `PromotionRepoPg`, `CartRepoPg` | tables `orders`, `order_items`, `checkout_idempotency`, `promotion_redemptions`; row and advisory locks | replay, lock, price, insert, redeem, record the key, announce, commit | retries of one request beside each other, limits of coupons, deadlock, effects before COMMIT |
| Order history, delivery tracking | `storefrontOrdersController.js`, `yaadroTrackingStatusSync.js`, `orderStatus.js` | `orders.status`; per request what it read | list, detail, pull of the courier's status | UPDATE from a stale read, no version check |
| Catalog and promotion caches | `infra/cache/catalogCache.js`, `shopPromotionCache.js`, `application/services/storefront/storefrontCatalog.js` | Redis: entries, locks, two generations per shop | get/set, wrap, swr, invalidate, revision | fills racing invalidations, locks that lapse, swallowed errors |
| Pricing of offers and coupons | `application/services/promotions/*` | none (reads) | unit prices, bundles, automatic offers, coupons, stacking | rounding, stacking flags, stale limits |
| Cart and preview | `application/services/storefront/cart/*`, `storefrontCartPreview.js`, `cartSessionStore.js` | the client keeps the basket; Redis carts of the retired server-side cart | preview, quote | must show what checkout will charge |
| Shop resolution cache | `infra/cache/shopResolveCache.js`, `redisJsonCache.js`, `shopResolver.js` | Redis keys without generations | resolve by domain, slug or id; negative entries; delete | a fill in flight writes back after a delete |
| Database pool, transactions | `infra/db/*` | connections | `withTx`, `withClient` | nested checkouts of connections |
| Login by one-time code | `application/services/auth/request*Otp.js`, `verify*Otp.js` | `otp_challenges` | request, verify | check-then-insert, attempts under concurrency |
| Sessions | `rotateCustomerRefreshToken.js`, `logout*.js`, `infra/auth/accessTokenRegistry.js`, `requireCustomerJwt.js` | `refresh_tokens`, ids of access tokens in Redis | issue, rotate, reuse detection, log out | Redis is not rolled back with the database |
| Profile and phone change | `application/services/profile/*` | `users`, `customers` | read, update, change the phone | shares the one-time codes |
| Catalog reads, home sections | `storefrontCatalog.js`, `storefrontHomeSections.js`, `CatalogRepoPg.js` | none | lists by cursor or offset, categories, product pages, shelves, event links | several statements without a transaction, cursors of less precision than the column |
| Shops, service area, SEO | `services/shops`, `ShopLookupRepoPg.js`, `ShopServiceAreaRepoPg.js`, `services/seo` | a cached hub | lookups, distance check | a second connection inside a transaction |
| Realtime announcements | `infra/realtime/*` | Socket.IO rooms | `order.placed` | best effort |
| Startup and shutdown | `main/bootstrap.js`, `server.js`, `installFatalProcessHandlers.js` | timers, open servers | start, graceful stop with a deadline | the deadline cuts a batch |
| Redis client, limits, SMS, HTTP, configuration | `infra/redis`, `createLimiter.js`, `adapters/sms`, `interface/http`, `config` | - | - | - |

### How they interact

```
client --HTTP--> routes --> middleware (shop, customer, limits) --> services
   services --withTx / withClient--> PostgreSQL  <-- shop's and courier's own backends
   services --wrap / swr / get / del--> Redis
   checkout --row in outbox_messages--> outbox pollers --handlers--> Socket.IO
   checkout --emitOrderPlaced (before COMMIT)--> Socket.IO
   order pages --fetch, 2.5 s--> courier;  then UPDATE orders
   admin --POST invalidate--> generations in Redis
```

Checkout and the outbox meet in one table and in the names of events; both sides
are in the models (`ProducedEvents`, `HandledEvents`).  Checkout and pricing meet
in the limits of coupons, read first without and then with a lock.  The order
pages meet checkout only in `orders.status`, which checkout sets to `pending` and
never looks at again (except to count a customer's orders).

### What makes each part correct

- **Outbox**: a row is worked on by one loop at a time; an attempt runs its
  handler at most once; `done` means delivered at the last attempt; `failed`
  means the retries are used up; a settled row stays as it is; every row is
  settled.
- **Checkout**: one order per customer and key; a repeat gets the same order and
  never an error from the primary key; coupons keep their limits; an order has
  all its rows; its prices were current when it committed; locks cannot close a
  circle, or somebody breaks it; every request is answered.
- **Tracking**: a status was really said, by the shop or by the courier of that
  very order; an order that has ended stays ended, and where the code does not
  give that, by whose write it is lost; a delivery arrives at the row.
- **Caches**: no entry is older than the generation in its key; after an
  answered invalidation nobody is given what it was about; a waiter does not wait
  for ever; a fill is not repeated by everybody.
- **Pricing and baskets**: coupons apply only when they may; a discount adds up
  over the lines and the bundles to the last minor unit; the customer is told
  exactly the offers that were given; checkout charges what was shown.
- **One-time codes**: the window bounds what is sent; an open code is accepted,
  and a spent one is not; a session is that of a user who has the number.
- **Sessions**: a refresh token is exchanged once; after logout nothing handed
  out before it works; the cap takes no more sessions than are in excess of it.
- **Shop lookups and the pool**: a transaction runs under its own shop; somebody
  always gets a connection; a cached row outlives its invalidation only in the
  one way the code leaves open.
- **Catalog reads**: following a cursor misses nothing and repeats nothing;
  lists, pages and categories agree; a shelf is empty only for a reason.

The hazards, each at its line and with the properties aimed at it, are in
`PROJECT.json`.

## 2. Modules

| module | what it is |
|---|---|
| `EventQueue` | abstract: a queue that hands out entries, runs each try at most once and completes, gives back or buries them |
| `Outbox` | `outbox_messages`, the poll loops, handlers, crashes; implements `EventQueue` |
| `OutboxProofs` | types, exclusive claims, attempts, outcomes, orphans, finality, the refinement |
| `OrderBook` | abstract: a book that places or replays one order per step, within the limits of coupons |
| `Checkout` | the transaction behind `POST /storefront/checkout`, any number at once; implements `OrderBook` |
| `CheckoutProofs` | types, keys, coupons, completeness, prices, deadlocks, the refinement |
| `OrderTracking` | views of the order pages beside the shop and the courier |
| `CatalogCache` | generations, entries, locks, swr and wrap |
| `PriceRules` | the arithmetic of prices as operators: units, sales, bundles, automatic offers, coupons |
| `Baskets` | what preview and checkout make of the client's lines, and what they answer and store |
| `Pricing` | calls of `priceStorefrontLines` for one basket, beside the shop and other customers |
| `PricingProofs` | coupons, amounts, credits, the offers told and suggested, and the theory of sums under them |
| `PricingShownProofs` | a preview and a checkout of one basket compared |
| `LoginCodes`, `LoginCodesProofs` | one-time codes: logins by phone and e-mail, change of a number |
| `Sessions`, `SessionsProofs` | refresh tokens in PostgreSQL and access ids in Redis |
| `ShopLookups`, `ShopLookupsProofs` | the pool of connections, the lookups of shops and the cached service hub |
| `StorefrontCatalog` | product lists, categories, home sections and event links among the shop's edits |
| `StorefrontReadsProofs` | what a customer reads: `OrderTracking`, `StorefrontCatalog` and `CatalogCache` |
| `MC...` | instances for TLC: model values, symmetry, baskets, shops and codes |

### Outbox

`Claim`/`CommitClaim` are the two ends of the claim transaction of
`claimPendingBatch`; between them its rows are in `locked`, which other claims
skip.  `Connect` is the second connection; `StartHandler`, `RejectUnknown`,
`HandlerReturns`, `HandlerThrows` and `HandlerTimesOut` are
`runHandlerWithTimeout` and the race in it.  A handler that outlives its timeout
stays in `executions` and ends in `LateReturn` or `LateThrow`: nothing awaits it
any more, and it may run beside the next attempt.  `SettleDone` and
`SettleFailure` are `updateDone` and `updateFailure`; a last try is refused when
`DeadLetter` admits it (see section 3).  `Stop`, `ExitLoop`, `ShutdownTimesOut`,
`Crash` and `Restart` are the life of a process.  A failing statement is an
action of its own; where the database may have done what was asked although its
answer is lost there is a second one (`ClaimAnswerLost`, `DoneAnswerLost`).
`FailureEscapes` is `updateFailure` throwing out of the loop over the batch.

### Checkout

One stage of `pc` per `await` that other transactions can see: `validating,
keying, looking, locking, pricing, checking, ordering, redeeming, clearing,
announcing, committing`.  Rows are known by the request that wrote them and seen
by others once it is in `committed` (READ COMMITTED).  The advisory lock of the
key, the row locks of the products (taken in the order of their ids, one at a
time) and of the coupons (in the order the client named them) are held until
`Commit` or `RollBack`.  `Price` also reads the settings, of which `allowed` is
left: how many codes an order may use, none while promotions are paused.
`CodesToTry` are the first of them; the client hears nothing of the others.
`CheckCoupon` is the unlocked look at the limits while pricing; `LockCoupon`,
`Redeem` and `CouponExhausted` are the look of `insertPromotionRedemption` under
`FOR UPDATE`.
`Announce` precedes `Commit`, as in the code.  The shop may change a price or
cancel an order at any time.

A COMMIT may also succeed with its answer
lost (`CommitAnswerLost`): the client repeats the request with its key.

### OrderTracking

`ListOrders` is a view of the newest orders, as many as the client asks for up to
`ListCap` (100 in the code); `OpenOrder` is the page of one.  Either is
`StartView`, which reads the rows and picks those that are not at an end and have
a token; the fetches of one view run in parallel (`Fetch`, `FetchFails`); when the
last is in, `Update` writes the upgrades one by one, comparing with what was READ
(`ShouldUpgrade`), never with the row.  `ShopMoves` and `CourierMoves` are outside.
The items and pictures of an order, which the same queries fetch, are abstracted.

### CatalogCache

The names of its specification begin with `Cache`; a reader's program counter is
`stage`.  `version[t]` stands for the contents of a table, `since[t][n]` is a history
variable: the version a generation began at.  `StartRead`, `ReadGeneration` (one
GET per generation, in any order), `Lookup`, `Lock`, `Recheck`, `Poll`, `GiveUp`,
`Fill`, `Set`, `Unlock` are `wrap`.  The reader of a stale entry takes the refresh's
lock and is `served` at once (`LockRefresh`); what it leaves behind goes on with
`Fill` and `Set`, and nobody hears of its end.  A waiter that gives up fills without a
lock.  An entry is `fresh`, `stale` or gone; `Expire` ages it, `Lapse`
lets a lock run out under its holder.  `AnswerRevision` is the poll of the
revision, which reads both generations at once.

### PriceRules, Baskets and Pricing

`PriceRules` holds the pure functions below `priceStorefrontLines`, one operator
each, on records of what they look at: the catalogue and sale price of a unit
(`Baseline`, `WinningSale`, `SaleOf`), "buy X get Y" (`MissingRewards`,
`FreeTicks`, `ApplyBundle`, `OnePerScope`), automatic offers (`Winners`, `Share`,
`EvaluateAutoCartRules`) and coupons (`RuleDiscount`, `ScaleLinesToPayable`,
`ZeroDiscount`).  Amounts are integers; a weight is a number of ticks, and
`Math.round` is `RoundDiv`.

`Baskets` holds what stands before and behind it.  Before: a preview drops what it
cannot sell and rounds, a checkout refuses (`PreviewCart`, `CheckoutCart`,
`BasketRefusal`).  Behind: the rows and units an order keeps (`OrderQuantities`,
`OrderRows`) and those a preview shows (`ShownRows`), the coupon block of the
answer (`CouponBlock`), the offers told (`OffersTold`, `OffersAhead`), the benefits
on a product page (`PublicBenefits`), the order in which coupons are listed
(`FirstListed`) and their ranking (`Ranked`).

`Pricing` has a call go through the stages of the function, one action per
statement that reads what others may change: `ReadSettings`, `ReadOffers`,
`GiveBundles`, `ReadRules`, `ReadCustomer`, then `ApplyCoupon` or `RejectCoupon`
for each code; a preview goes on to `Suggest` coupons and to `AskMinimum`.  What is
ranked for it is `Listed`: of the valid coupons the first `RowCap` by priority, of
those the ones that apply, and of those the first `ListCap`.
`RefusalOn` lists the checks of `applyOneCoupon` in their order.  Settings and
campaigns come from Redis or from the database (`redis`), coupons always from the
database.  A preview keeps the first refusal and goes on, a checkout ends with it.
Around the calls promotions are paused, campaigns and coupons end, other customers
and this one spend coupons, and the cache is refreshed.

### LoginCodes

One number (or address) of one shop; the challenges of different ones never meet.
`phone` says how each user's row has it: in the plain form that the code writes and
the unique index guards, in a legacy one (91 or +91 before it, capital letters in an
address), which lookups find as well, or not at all.  Several users may thus match
(`Holders`), and `Resolve` takes any of them.
`Ask`, `Count`, `BeginSupersede`, `Supersede`, `Insert`, `Send` are the statements
of a request, each committed by itself for a login; a change of number has them in
one transaction, which `CommitChange` or `Undo` ends and whose row carries the time
of its BEGIN.  A verification is one transaction: `Look`, then `Miss`, or
`Consume`, `Resolve`, `Claim` (the unique index on the number), `Enrol` (customer
and membership), `Grant`.  What it did before it refuses is rolled back
(`RolledBack`), the counted attempt with it.  Meanwhile a user may be blocked
(`Block`) or have changed to another number (`MoveOn`).  `sent` has the codes that may have
reached the customer: a failing send does not say.

### Sessions

A handler is a login, refresh, logout or request, and names the access id and the
refresh token it issues.  PostgreSQL is `tokens` with the uncommitted `spends` that
row locks guard; Redis is the set `sids`, the `keys` and, as `aging`, the time they
have left.  `Register` is the script with the cap (which ids it drops is random),
`Unregister` the logout's own id, `List` and `Delete` the two calls of a
revocation, `Consume` the conditional UPDATE, `BeginRevoke` and `Revoke` the
snapshot and the end of the UPDATE of all tokens.  A ROLLBACK (`RollBack`) leaves
Redis as it is.

### ShopLookups

A connection has a transaction, the shop it is set to and the statements it was
`sent`, which it runs in order (`Execute`).  `Connect`, `Release` and
`ConnectTimesOut` are the pool.  A checkout begins, sets its shop, works, asks for
the hub twice and ends; a `Lookups` handler asks for the hub alone; a `Resolvers`
handler is `findShopByDomain`, whose promise is returned without an `await`, so
that its last statements are sent after its connection went back (`SendLate`).
The hub is `Ask`, `Lock`, `Poll`, `Query`, `Store`; `Write`, `Invalidate` and
`Lapse` happen to its row and key.

### StorefrontCatalog

One request among the shop's edits; the names of its specification begin with
`Catalog`.  The recursive query over the tree of categories is `Lineage`, the
least set that holds a category and the parents of its members, which exists for a
tree of any depth and for a circle of parents too.  `ListProducts` is one page by cursor or
offset (`EffectiveCategories`, `Precedes`, `AfterCursor`, `NextCursor`, whose
`created_at` has milliseconds where the column has microseconds);
`ListSellableIds` and `ListCategories` are the two statements of the category
list; `ListSections`, `Expand`, `FetchProducts`, `Assemble` those of the home page;
`LookupEvent` that of an event link.  `StatementFails` says which failures are
swallowed.  `SetSale`, `MoveProduct`, `ToggleCategory`, `ToggleSection`,
`ToggleRule` and `Tick` are edits and time.  A kind of request has only the edits
it can see: the others change nothing it reads.

## 3. What is checked with TLC

| run | shows |
|---|---|
| `outbox_faults` | two poll loops, two rows, a crash, a stop, a slow shutdown or a database error at any point, last tries accepted or refused: an attempt runs once, only failures leave a row `processing`, every other row is settled, implements `EventQueue` |
| `checkout_coupons` | a request, its retry and a second order compete for scarce coupons, named crosswise, with one fault and settings that allow no, one or two codes: orders complete, with a redemption of each code they were priced with, announced orders and their carts lost only by a failing COMMIT, everybody answered, implements `OrderBook` (one order per key, coupons within their limits) |
| `checkout_products` | the same products wanted by all while prices change: no conflict on a key, prices held, circles only among coupons |
| `tracking_views` | two views, the shop and the courier: every status was said, an end is lost only to a stale view, a delivery arrives |
| `catalog_faults` | swr with a failure of every kind and a shop's bump: no entry older than its generation, freshness after an answered invalidation |
| `catalog_live` | with a lapsing lock and one fault: besides readers that waited in vain no more of them fetch an entry than hold its lock or lost it to a lapse, reads end, entries catch up |
| `pricing_quotes` | a preview and a checkout of one basket in 195 shops: coupons honoured, discounts accounted for to the last minor unit, the offers told are those given, offers meet only where they may, suggested coupons hold, undisturbed a checkout charges and orders what the preview showed |
| `login_codes` | three requests and a verification, both channels, time and one fault: what a window can hold although count and insert are apart; an open code is among those a login looks at |
| `login_races` | two requests and two verifications, logins and changes of number: a code opens two sessions only for overlapping verifications, sessions are those of users who have the number or moved on meanwhile, two users have some only where a legacy form or a move explains it, everybody is answered |
| `sessions_races` | four logins, refreshes, logouts and requests, a lapse and a fault: a refresh token is exchanged once, logout ends what was handed out, a logged-out token is refused, the cap takes no more sessions than were registered beyond it |
| `shoplookups_pool` | a checkout, a service-area check and a lookup by domain on two connections, with timeouts, a changed row, a lapse and a fault: a transaction is under its own shop, a stale hub is the work of a late fill, everybody is answered |
| `storefront_requests` | every kind of request from every small catalogue, one edit and one failing statement: cursors complete, lists and pages agree, empty shelves have their reason |

Every property also fails in a mutated model: `PROJECT.json` lists for each one a
plausible bug in a mapped definition with which its own run finds it violated.

### What the models say beyond "it holds"

Many properties name the exception under which the code does not give what its
documents, comments or tests suggest.  These are facts of the code, each visible
in the property or action named.

*Outbox.*
- A row whose process dies, or whose loop is cut off, between claim and settle
  stays `processing`; nothing looks for such rows (`OrphansOnlyByFailure`,
  `EverySettled`), while `docs/PRODUCTION_CHECKLIST.md:182` has retries processed.
- Checkout writes the event `order.created` (`OrderRepoPg.js:303`); the handlers
  know `ORDER_CREATED` (`outboxHandlers.js:38`).  Such a row ends `failed` after its
  tries (`ProducedEvents`, `HandledEvents`; `docs/PRODUCTION_CHECKLIST.md:224`).
- `updateFailure` builds its last error with an untyped `$4` inside
  `jsonb_build_object` (`outboxProcessor.js:129`), which PostgreSQL may refuse to
  type.  The constant `DeadLetter` says what the database may do with it; the run
  has both.  Refused, the row is never settled, and the rest of its batch with it.

*Checkout.*
- `order.placed` is emitted and the Redis cart deleted before COMMIT.  Only a
  failing COMMIT, or a rollback behind them, leaves a phantom (`PhantomsOnlyByFailure`).
- The first-order rule (`cartLineRules.js:146`) is checked while pricing, without
  a lock: two first orders at once both get the coupon.  No property covers it,
  since nothing in the code keeps them apart.
- An order may be placed without coupons the client named: all of them while
  promotions are paused (`priceStorefrontLines.js:597`), those beyond
  `max_coupons_per_order` always (`:158`).  Neither is an error.  `OrderComplete` is
  about the others: whatever code was allowed when the order was priced has its
  redemption, and nothing else has.  A coupon that takes nothing off is refused, so
  no code is applied and not redeemed.
- `docs/CACHING.md:124` still describes a race for the last redemption of a
  coupon, which `FOR UPDATE` closes (`ImplementsOrderBook`, `CouponsWithinLimits`);
  `docs/PROMOTIONS_WORKFLOW.md:370` says redemptions are for coupons only, and
  automatic offers write them too; `:236` and `:255` count `delivered` orders for
  the first-order rule, and the code counts all but cancelled and rejected ones.

*Tracking.*
- `updateOrderStatus` (`OrderRepoPg.js:495`) does not compare: a stale view may
  write over an end that `orderStatus.js:11` gives no way out of
  (`EndLostOnlyToStaleViews`).  The orders beyond the list's limit are followed
  only by their own page (`DeliveryArrives` speaks of `Newest(ListCap)`).

*Caches.*
- A failed GET of a generation counts as generation 0 (`catalogCache.js:87`).
  `FreshAfterInvalidation` holds while generations are served
  (`GenerationsServed`); when they are not, one swallowed error is enough for
  entries to be used that an answered invalidation was to put out of use
  (`docs/ADMIN_CACHE_INVALIDATION.md:119`), and for a revision to go back.
- A waiter that has polled in vain fetches the data itself, without a lock
  (`catalogCache.js:196`, `:269`): behind a reader slower than 40 polls everybody who
  waited goes to the tables at the same time.  `SingleFlight` is about the others.
  Who loses his lock to a lapse deletes the next one's when he is done (`:187`).

*Pricing and baskets.*
- Two automatic campaigns of the same priority are told apart by the text of
  `created_at` (`evaluateAutoCartRules.js:51`, `:87`): an ISO time when the rows
  came from Redis, `String(Date)`, which begins with the weekday, when they came
  from PostgreSQL.  Where only one campaign may apply, checkout may charge another
  amount than the preview showed although nothing changed (`TieBreak`).
- A preview prices lines in the client's order, a checkout in that of their ids.
  Where units are given away, or a coupon for a category is computed from shares
  of what automatic offers or an earlier coupon left of the cart, the odd minor
  unit may go to another line and the two may differ by it.  `SameOrder` is the
  rest: nothing free, and one coupon without automatic offers, or no coupon rule
  for a category.
- Whether coupons may go with each other and with offers (`StackingRespected`) is
  said of rows that do not change under way; what does change, settings, campaigns
  and limits, is the matter of `CouponsHonoured`.
- A free reward injected across products has `paid_quantity` 0, which
  `orderLineQuantitiesFromPriced` (`checkoutInput.js:25`) takes for a lost
  fraction and replaces by the cart's quantity: the order holds two units where
  one free unit was shown.  A reward the client had in the basket is shown with
  its free units added and ordered without.  `ChargedAsShown` leaves out exactly
  the rows that are rewards of such offers (`fromAcross`).
- With two coupons of which one fails, a preview reports the other as applied and
  no reason for the first (`cartPricing.js:96`); a checkout refuses the basket.
  While promotions are paused a preview answers `COUPON_NOT_APPLICABLE`; a checkout
  goes on without the coupon.
- A preview drops lines it cannot sell and fractions silently; a checkout refuses
  them (`BasketRefusal`).
- Coupons are ranked by their public benefits, which leave out categories and caps:
  the first one listed need not be the best (`SuggestionsHold`).  Nor need the best
  be listed: the preview asks for 20 (`storefrontCartPreview.js:191`), for which 50
  rows are read by priority (`listApplicableCoupons.js:84`) and those that apply cut
  to 20 (`:188`) before they are ranked.  `CutOff` names the coupons that lie
  beyond; rows that do not apply use up the 50 all the same.
- `COUPONS_ONLY` is `true` in the repository, so sales and bundles are dormant
  code, checked because they are kept.  Two things they would do are conditions of
  `Accounted`: a reward at a percentage off is not charged at all
  (`evaluateBundleDiscounts.js:165`; `docs/PROMOTIONS_WORKFLOW.md:181` has it sold
  at half its price), and the sale of a campaign whose coupon is used too is missing
  from the ledger (`checkoutStorefront.js:61`).

*One-time codes.*
- Count and insert are statements of their own: `c` requests at a time may write
  `c - 1` rows more than the window's limit (`SendsBounded`).
- A failed attempt is counted in a transaction that the error behind it rolls
  back, so `attempts` stays 0 and `OTP_MAX_ATTEMPTS` is never reached;
  `tests/domain/customerOtpAuth.test.js:112` checks the call of the increment on a
  mock.  In the model `Miss` is `RolledBack`.
- The migration calls a challenge single-use (`001_full_schema.sql:291`); the
  UPDATE that spends it is not asked whether it found the row.  Two verifications
  that overlap may both succeed, two that do not cannot (`ReplaysOverlap`).
- A login by e-mail and a change of number look at the latest row only, by a
  `created_at` that is the time of a transaction's BEGIN: a code still open may be
  refused because a later row was spent.  A login by phone looks at five
  (`LiveCodeAccepted` is about those).
- `users.phone` is unique as text (`001_full_schema.sql:42`), lookups match numbers
  with 91 or +91 before them too (`phoneMatchSql.js:6`).  A change of number, or a
  first login that looked before, may therefore take a number that another user has
  in a legacy form; both match from then on, and which of them a login gets is up to
  `LIMIT 1` without an order (`CustomerAuthRepoPg.js:101`): perhaps one who is
  blocked.  Changes ask for other customers first (`TakenByAnother`), but not for
  users who are customers of no shop, and logins rewrite no legacy form:
  `syncUserPhoneForCustomerLogin` writes only where the number differs, and any row
  a lookup finds ends in the same ten digits.
- A user who changes to another number after a login has found him
  (`resolveUserForCustomerLogin.js:48`) gets the session all the same
  (`SessionsOfHolder`; `moved`).

*Sessions.*
- What a refresh does before it throws is rolled back in PostgreSQL and not in
  Redis: finding a token reused, it revokes all of them and then throws
  (`rotateCustomerRefreshToken.js:34`, `:39`), so that the access ids are gone and
  the refresh tokens still live.  `tests/domain/rotateCustomerRefreshToken.test.js`
  checks the calls on mocks.  `LogoutEnds` is about logouts, which do commit.
- A revocation is SMEMBERS, then DEL: an id registered between the two keeps its
  key though it is no longer in the set (`strays`).
- "Drop previous access sid" (`rotateCustomerRefreshToken.js:59`) is a comment
  only: the earlier access id stays until it lapses, or the cap drops it.  Lapsed
  ids stay in the set and count as long as each registration puts off the end of the
  whole set (`accessTokenRegistry.js:40`), and what the cap drops is chosen at random
  (SPOP): it may be a session just opened, and the only one of a customer who has one
  device and refreshes often.  `CapTakesTheSurplus` says how many: no more than were
  registered beyond the cap since the set was last empty.
- A refresh whose registration fails hands out an access token that is not
  registered, and a blocked customer may still refresh; requests are checked.
- The cache of valid sessions is written and never read
  (`shouldUseSessionCache` is false, `composition.js:148`).

*Shop lookups.*
- With as many checkouts as connections all may hold one and ask for another.
  `DATABASE_CONNECTION_TIMEOUT_MS` is 0 by default (`config/env/schema.js:72`): they then wait
  for ever, and so does everybody else; with a timeout they fail (`TimesOut`).
  `AllAnswered` is about fewer checkouts than connections; what it can find there is
  a failure that does not give its connection back.
- `findShopByDomain`, `findShopBrandingById` and `getShopById` of the composition
  return a promise without `await`, so `finally` releases the connection first
  and the last statements run behind those of its next holder.  They are single
  statements; what `set_config` is local to a transaction decides
  (`TenantOfTransaction`).
- A deletion may be undone by a fill under way (`StaleByLateFill`);
  `invalidateDomain` is called by nobody.  A hub that does not exist is not cached.

*Catalog reads.*
- A cursor carries milliseconds (`storefrontCatalog.js:321`), the column has
  microseconds: next to the last product of a page, products of its millisecond
  are skipped in descending order and come again in ascending order, endlessly if
  one millisecond fills a page (`NextToACut`).
- A list sorted by name or price answers its first page with a cursor, which the
  next request refuses (`storefrontCatalog.js:260`).  Pages by offset are exact
  only while nothing changes.
- The list of categories is two statements (`storefrontCatalog.js:218`).
  `BrowsingAgrees` is about lists without an edit in between: with one, a category
  may be listed that has nothing to sell any more.  It counts as listed what the
  `LIMIT` lets through (500 below a parent, 5000 in all).
- The failing of a shelf's category statement is swallowed
  (`storefrontHomeSections.js:317`) and the answer cached; explicit products that
  cannot be sold count for the cap (`:130`), which is applied to each product once;
  where no active rule gives a deal, the deals shown are made from the section's own
  products (`:239`), of those that came within the caps.

### Bounds, and why they are enough

- *Outbox*: 2 rows, 2 loops, batches of up to 2, 2 tries, one fault.  Two loops
  are what exclusion is about, a batch of two has a row in hand and one behind it,
  and two tries have a first, a last, and a late handler of the first beside the
  second.
- *Checkout*: 3 requests of which two share a key, 2 products, 2 coupons named in
  opposite orders, limits of 1 and 2, no, one or two codes allowed in the run
  about coupons, two prices in the one about products, one fault.  A request, its
  retry and a stranger are the three roles the code tells apart.
- *Tracking*: 2 views, 2 orders of which one is tracked, lists of 1 and 2, one
  fault.
- *Caches*: 2 readers, one table with one generation, one write, one bump, one
  failing command on entries and one on generations, one lapse in the run about
  locks.  Keys under two generations (promotions) are left to the proof, whose
  instances are millions of states.  `MaxPolls = 1` stands for the 40 polls of the
  code: a waiter polls once, or gives up.  A reader begins anew after its answer,
  so that two of them show a lapse, the late deletion of the next one's lock and a
  third fill.
- *Pricing*: 195 shops, each with a guest and with a customer, chosen by feature
  rather than at random: every kind of rule and bundle, offers that exceed the
  cart, caps, thresholds just reached and just missed, a category inside another,
  a weighed product, products that cannot be sold, too many of one, both flags of
  each stacking rule, coupons that fail at each check, a minimum purchase, the
  lines sent backwards; two calls; one change (`ChangeBudget`), which is one more
  than a call can notice between any two of its reads.  A unit has 4 ticks for the
  10000 of the code; `RowCap = 3` and `ListCap = 2` stand for the 50 and the 20 of
  the listing, one suggestion is shown, and four coupons go beyond all three.
- *One-time codes*: 3 requests, 2 at a time, one per window, so that the third is
  one too many in every way; windows, cooldowns and lives of one tick in 2 ticks
  of time, `Recent = 2` for the 5 of the code.  In the races time stands still,
  and there are two users at first: one who may have the number in either form, be
  blocked or move on, and one with another number, who may change to this one.
- *Sessions*: 4 handlers, which make a login, its refresh, a logout between the
  two and a request behind it; a cap of 2; one lapse and one fault.
- *Shop lookups*: one handler of each kind and 2 connections, the least number
  with which a checkout alone can go on; one write, one lapse, one fault.
- *Catalog reads*: 4 products, 3 categories in two levels, pages and shelves of 2,
  lists of categories cut at 1 below a parent and at 3 in all,
  a millisecond of 2 ticks, every start that differs in what the kind of request
  looks at, one edit and one failing statement at any point.

The proofs have none of these bounds.

### Fairness

Only what the process itself drives is fair.  `WF(WorkerStep)`: an event loop
runs the continuations it owes, and timers fire; `WF(Restart)`: the deployment
restarts what ended.  `WF(RequestStep)`, `WF(AskStep)`, `WF(TryStep)`, `WF(Step)`
and `WF(Execute)`: the driver is answered, a connection runs what it was sent, the
database grants a lock that is free and breaks deadlocks, the sender answers or
times out.  Tracking: a fetch ends after 2.5 s, and the page polls.  Caches: a
request goes on, TTLs run out.  Nothing the shop, the courier, the admin or a fault
does is ever fair, a connection's timeout is not, and no step that hands a lock
to one of several waiters is strongly fair.  Runs without a liveness property use `Spec`,
which has no fairness.  Deadlock is not checked: where all rows are settled, all
requests answered or all bounds used up, these systems may stop.

## 4. What is proved

For every value of the constants that the `ASSUME`s admit (any number of rows,
loops, requests, orders, readers, handlers, faults):

- `OutboxProofs`: `TypeCorrect`, `ExclusiveClaims`, `SnapshotsCurrent`,
  `AttemptsRunOnce`, `OutcomesJustified`, `SettledIsFinal`,
  `OrphansOnlyByFailureAlways`, `OutboxImplementsQueue`.
- `CheckoutProofs`: `TypeCorrect`, `OrdersAreUnique`, `NoConflicts`,
  `CouponsWithinLimits`, `OrdersAreComplete`, `PricesAreHeld`,
  `DeadlocksOnCouponsOnly`, `AnnouncedOrdersStay`, `CheckoutRefinesOrderBook`.
- `StorefrontReadsProofs`, about three components without common state:
  `TypeCorrect`, `StatusesAreJustified`, `EndsLostOnlyToStaleViews` (tracking);
  `CatalogTypeCorrect`, `PagesAreComplete`, `BrowsingAlwaysAgrees`,
  `ShelvesAreJustified` (catalogue); `CacheTypeCorrect`,
  `EntriesAreOfTheirGeneration`, `FreshWhileGenerationsServed`, `FillsAreFew`
  (caches).
- `PricingProofs`: `TypeCorrect`, `CouponsAreHonoured`, `BillsAlways`,
  `AccountedAlways`, `ToldAlways`, `StackingAlways`, `SuggestionsAlways`.
- `PricingShownProofs`: `ChargedAsShownAlways`.
- `LoginCodesProofs`: `TypeCorrect`, `ReplaysOverlapAlways`,
  `SessionsOfHolderAlways`, `SendsBoundedAlways`, `LiveCodeAcceptedAlways`.
- `SessionsProofs`: `TypeCorrect`, `RotationAlways`, `LogoutEndsAlways`,
  `LoggedOutAlways`, `CapTakesTheSurplusAlways`.
- `ShopLookupsProofs`: `TypeCorrect`, `StaleOnlyByLateFill`,
  `TransactionsUnderTheirShop`.

**Outbox.**  `ClaimsExclusive` alone is not inductive: a claim copies
`retry_count` and a later step writes it back plus one.  `IInv` adds what a loop
at each `pc` holds (`PhaseOK`), that the copies of two loops are of different rows
and that rows in a batch are `processing` (`CopiesExclusive`), that a copy's count
is the row's (`SnapshotCurrent`), that no handler of the current attempt runs
before it is started (`FreshTry`), that deliveries and executions belong to past
or present attempts (`PastTries`), and what the row in hand has been through
(`InHandOK`).  `OrphansOnlyByFailure` is about steps: a claim puts what it marks
`processing` into a batch that was empty (`PhaseOK`), taking a row in hand keeps
it in the batch, settling one takes it out of `processing`, and the end of a batch
comes when nothing is left in it; every step that drops a batch otherwise uses up
a fault, or is one of the two failures the property names.  The refinement maps a
row's status and count to an entry and its tries; every step of a loop is a step
of the queue or a stutter.

**Checkout.**  The invariant is built in layers, each inductive over the one
before: types; keys (`KeyLocks`: one holder per key; `Written`: which rows exist
at which stage; `FreshKey`: past the lookup, under the lock, no committed order has this key;
`FoundRight`); coupons (`CouponLocks`, `RedeemedSoFar`: exactly the coupons
before `next`; `LimitsKept`: committed redemptions plus the holder's own are
within the limits); products (`BasketLocks`, `PricesHeld`).  Deadlock: in a
circle of waiters without coupons nobody waits for a key, since key holders are
past keys and only products are left, and the waiter for the largest product
waits for somebody who would have to wait for a larger one.  Announcements: a request that
has announced is committing or done (`AnnouncedLate`), so only a COMMIT that
fails can take its order away.

**Tracking.**  What makes the action property inductive is `ReadBeforeEnd` (an
order a view asks about was not at its end when it was read) with
`UpgradesSaid` (an upgrade was said by the courier of that order).  Of the list and
the detail page only that they are views of some of the orders matters.

**Caches.** `SinceBelow`, `KeysReal`, `EntriesReal`, `DataOfGeneration` say that a
reader's keys are of generations that exist and its data no older than they;
freshness adds `Marks` (what an invalidation under way is about is not newer than
the next generation's start), `Reached` (what was announced is not newer than the
current generation), `Floors` (a reader's generations are not older than what was
announced when it began) and `KeyFirst` (no lookup before the key is complete),
all under the condition that no read of a generation has failed (`ServedBefore`:
it only ever turns false). A redundancy came out of the proof: an invalidation of
the catalog bumps both generations, but since keys of promotion data hold both,
bumping the first would have been enough.  `SingleFlight` counts: of the readers
that believe they hold a lock all but one have lost it to a lapse, and each lapse
makes at most one of them a reader without a lock (`FlightInv`).  Readers that fetch
after a full wait hold none and are left out of the count.

**Pricing.**  The invariant of a call (`CallInv`) says how far its coupons are:
none before the loop, those applied are distinct and among the codes already
tried (`AppliedOnce`), for a checkout exactly those (`AllApplied`), and no call
is in the loop with a bundle in its cart.  The
amounts of a coupon need only that a discount is a natural number and no more
than what is left (`DiscountFits`).

What was taken off is a second invariant, `Bills`: at each stage of a call its
bill is `Sound` (credits to campaigns add up to sales, bundles, automatic offers
and coupons; units at their price are what is due plus what bundles gave; who got
a credit is on the list of campaigns; the offers told are true; coupons keep to
the flags beside what is already on the bill) and `Staged` (which of these is
still nothing, and what the automatic offers were computed from).  The model
computes a bill stage by stage with the operators of `PriceRules`, so each action
needs a lemma about its operator, for every cart and all the rules a shop can
have: a bundle moves whole units from paid to free and what it gives is what the
lines lose; automatic offers that exceed the cart share it, and the last takes the
remainder, so that rounding loses nothing; who competes is ordered totally, so
that the winner is one of the rules.  They rest on a small theory of sums over
finite sets (`SumPick`, `SumSame`, `SumPlus`, `SumTimes`), derived from the fold's
own definition.  Induction on the size of a set is done without an operator
parameter: were there subsets for which a statement fails, one of them would be
minimal, and it cannot be (`SubsetInduction`).

Of shops it is assumed (`ShopsAssumption`) what their tables make sure of: prices
are not negative and a product is in a campaign's sale once
(`migrations/.../028_promotion_products.sql`), a bundle asks for and gives at least
one unit (`030_promotion_bundle_rules.sql`), amounts are integers
(`029_promotion_rules.sql`), whether a coupon may go with a sale is a column of its
campaign (`027_promotions.sql`), and a campaign is automatic or has coupons, not
both (`PromotionRepoPg.js:535`, which lists campaigns without a coupon).

`SuggestionsHold` is about one step.  The list and the price state the
conditions of a coupon apart; `RefusalIs` goes through the checks of the price and
`ApplicableIs` through those of the list, on what both read.  The suggestions are
the first of a ranking: each coupon's rank is the number of those ahead of it,
ranks are shown to be a permutation (`Ranks`), so who is not among the first is
worth no more than any who is; and a coupon without categories and caps is worth
what it takes off (`WorthIs`).  Of a coupon that applies and is not listed, the
coupons ahead of it are counted: they fill the rows read or the list (`CutOff`).

`ChargedAsShown` compares two calls that never take a step together, so each is
related to what it is computed from.  The invariant `Calm` says that, as long as
nothing was changed, every call's lines are those its cart quotes, bundles gave
what they give for these lines, and its bill is the last of a trace: the bill
opened when the rules were read, then one code tried after the other (`Traced`).
The rest is about two such traces of one basket that is taken.  The cart of a
checkout is that of the preview in another order (`CartsReordered`), and so are
the lines (`LinesReordered`); the sums over them, who competes, the winners and
what they take off do not depend on it (`DiscountsAgree`, `WinnersAlike`), nor
does whether an offer gives anything at all (`NothingAgrees`): in the cases of
`SameOrder` with reordered lines nothing is free, and what a code takes off is
computed from what is reordered only (`CutsAgree`).  So both bills go on alike,
code by code (`TracesAgree`), and end in the same subtotal, codes and reason.  Rows
that came from Redis have other times than rows from PostgreSQL, which matters
only for ties (`ScoredAlike`), and those are excluded (`TieBreak`).  That an order
keeps the units shown is arithmetic of ticks on each row (`MatchedRows`).  It is
assumed (`BasketsAssumption`) that the order of the ids names a product once.

**Catalog reads.**  `PagesComplete` alone says nothing about the pages to come.
`CursorInv` does: what is offered all along and not yet seen is behind the cursor,
and nothing behind it was seen, but for the products of a cut millisecond; it is
inductive because the order of a list is total, so that the products ahead of one
can be counted (`AheadRanks`) and a page that does not hold all of the line ends
with one product before all the rest (`PageEnds`).  For pages by offset what was
seen is exactly what was ahead of the offset, as long as nothing is edited
(`OffsetInv`).  `BrowseInv` keeps what the first of two statements found equal to
what it would find now; the two walk the tree in opposite directions, upwards from
the products and downwards from a category, and agree because both use `Lineage`.
`ShelvesInv` says what each statement of a home page found of the products that
stayed sellable: a category's fillers are not empty if it has one of them, and the
rows fetched hold all of them that a shelf shows.

**One-time codes.**  A challenge a verification has chosen was inserted
(`RowsOfTheirRequest`, `SpentInserted`), and from its UPDATE on either the
verification holds the row or the row is spent for all to see (`CodeSpent`); a
verification that begins behind a COMMIT therefore does not find the code
(`CodeFresh`).  Of the number: at most one user has its plain form (`PlainOnce`),
who has claimed it is alone and nobody else has that form (`ClaimsAlone`), and the
user of a verification past its lookup has claimed the number, has it or has moved
on (`UserHolds`).  Two users with sessions who both have it still, in its plain form,
would be one.  `SendsBounded` counts, for every
stretch of time, the rows in it together with the requests that passed the count
and may still write one into it (`WindowInv`): who passes saw less than the limit,
and of the others fewer than `MaxConcurrent` are on the way.  That an open code is
looked at follows from it, since time stamps keep the order in which they were
given out, also where a change of number commits late (`StampInv`), if the login
looks at as many rows as a window can hold: `Recent >= MaxPerWindow +
MaxConcurrent - 1`, a hypothesis of `LiveCodeAcceptedAlways`.  The code looks at 5
(`CustomerAuthRepoPg.js:560`) and a window holds 3 by default
(`OTP_MAX_REQUESTS_PER_WINDOW`), so it is met for up to 3 requests at a time;
the instance of `login_codes` meets the hypothesis exactly.  It also needs that a
code lives no longer than the window (`Ttl <= Window` in `LoginAssumption`), which is
true of the defaults (300 and 900 seconds) and which no check of the configuration
makes sure of.

**Sessions.**  Tokens: no two transactions consume the same, and none consumes
one that is spent (`SpendsApart`); what a refresh presented is spent once it is
answered (`Exchanged`); what a logout has yet to revoke is among what it found or
holds (`TokensEnding`).  Redis: a key whose id is not in the set is a stray, and so
is what a revocation does not see (`KeysListed`); a logout that has done its part
leaves none of the keys it was to end (`KeysEnding`); a request that was let in had
one (`LetIn`).  The cap: the set holds some of the ids registered since it was last
empty, no more than the cap, and of those registered the living that lost their key
without being ended are no more than exceed it (`RoomInv`): a registration into a
full set drops one and is itself one more registered.

**Shop lookups.**  The cached row: what is in Redis was stored since the last
deletion, and what was read since is as new as that deletion (`FillInv`).  The
tenant needs two invariants at once.  `PoolInv`: a connection is free or of one
handler, a lookup by domain no longer owns the one it still refers to, and who
is in the queue has asked.  `TenantInv`: a transaction is open from its
checkout's BEGIN to its end (`OpenByHolder`), who awaits has exactly one
statement on the way (`InFlight`), and a `set_config` of a lookup is run before
the next BEGIN on its connection (`SetBeforeBegin`), which is why the missing
`await` of `findShopByDomain` never makes a transaction work for another shop.
It rests on the driver's promise that a connection runs its statements in the
order they were sent, and on `set_config(..., true)` outside a transaction
leaving nothing.

**Only model-checked**: all liveness (`EverySettled`, `DeliveryArrives`,
`ReadsEnd`, `CacheCatchesUp` and the three `AllAnswered`), which is out of the
prover's reach.  Every invariant and every action property of the runs has a
theorem, and so have both refinements.

## 5. Not modelled, and why

- Loss of generations when Redis itself restarts empty, and evictions of a
  generation key: outside `CatalogCache`, whose generations only fail to be read.
- Prewarming of caches: ordinary reads of the same keys.  Whether an answer comes
  from a cache is in `CatalogCache` and `ShopLookups`; `StorefrontCatalog` reads the
  tables.
- The texts of events, answers, logs and metrics; `next_retry_at`-style delays
  (the outbox writes none it reads).
- Line arithmetic in `Checkout`: prices are one of two values, totals are not
  computed.  `Pricing` computes them for one basket without locks; the two meet in
  the limits of coupons, which both have.
- In `Pricing`: weights below a tick and unit sizes, `includeSuggestedCoupons`, the
  first six coupons of a product page, discounts and list prices per order line,
  names and messages; the product page when reading promotions fails, which falls
  back to catalogue prices; the failing of the query for injected rewards, which
  is swallowed (`priceStorefrontLines.js:311`) although inside checkout's
  transaction PostgreSQL then refuses whatever follows.  The shop's minimum
  purchase does not change under way.
- In `LoginCodes`: the profile pages set, change or clear a number by one UPDATE
  (`updateCustomerProfile.js:44`, `updateStorefrontProfile.js:22`).  Giving a number
  up that way is `MoveOn`; taking one is left out: it is the UPDATE of `Claim`
  without a challenge.  Hashing, and two challenges with the same code.
- In `Sessions`: the end of a refresh token's life, and retries inside the client
  of Redis.
- In `ShopLookups`: the entries by slug, host and domain and that of a shop's
  status, with their shorter life for what does not exist: the same reads and
  writes as the hub's, without a lock.  What the statements do to rows.
- In `StorefrontCatalog`: filters by brand, text and price range, images and
  galleries, the older `/api/catalog`; the deals' wording.
- The server-side cart: its mutations answer 410, and the client keeps the basket.
  `previewFromClientItems` of `storefrontCart.js` is reached by no route.
- The parts marked `not_modelled` in `PROJECT.json`: pure formatting,
  configuration and I/O, which keep no state two actors could disagree about.

## 6. Plan

Done, in this order: `Outbox`, `Checkout`, `OrderTracking`, `CatalogCache`,
`Pricing` with `Baskets`, `LoginCodes`, `Sessions`, `ShopLookups`,
`StorefrontCatalog`; all with proofs.  What would come next:

1. Compositions: `Checkout` on the connections of `ShopLookups`, `Outbox` fed by
   `Checkout`, the price of `Pricing` inside the locks of `Checkout`.
2. How far apart a preview and a checkout can be where `SameOrder` does not hold:
   the odd minor unit per line, as a bound instead of an exception.
3. Numbers that change hands by the profile pages, with a history of holders, in
   `LoginCodes`.
