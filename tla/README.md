# Computer store backend: TLA+ models and proofs

The program is a NestJS service over MySQL (TypeORM), Redis and Bull: the shop
of a computer retailer. Its services hold no state of their own. What matters
happens in the database and in Redis, where HTTP requests, callbacks of payment
providers and cron jobs interleave, and in the places where a handler reads
outside the transaction it then writes in, or writes in several statements
without one. These modules are about that.

Paths below are relative to the repository root (`src/src/modules/...` in
`PROJECT.json`, which gives the exact lines of every definition).

Contents: 1 inventory · 2 how the code is modelled · 3 the modules · 4 the runs ·
5 bounds and fairness · 6 what is proved · 7 where code and docs part · 8 what is
not modelled · 9 plan.

## 1. Inventory

How the parts interact. All calls are in process and awaited. There are three
kinds of coupling: a call that passes its `EntityManager` (same transaction),
a call that does not (another pooled connection, committed by itself), and
shared rows. The second kind is where most surprises are.

```
 customer ── cart ──► orders.checkout ──► promotions (evaluate)
                          │  │  └────────► cart.clearCart          (other connection)
                          │  └───────────► ton_kho, flash_sale_item (raw UPDATE)
                          └──────────────► payments.createTransaction
 payment provider ──► payments callbacks ──► orders.updateStatus
 staff ──► orders.updateStatus ─► changeStatus ─► promotions.recordCouponConsumption (other connection)
                                       ├────────► inventory batch.deductFromBatches  (same transaction)
                                       └────────► inventory.recordMovement           (same transaction)
 staff ──► returns.resolution ──► inventory, loyalty.deductPointsForReturn (same transaction)
 customer ──► loyalty.redeemPoints ─► writeTransaction ─► khach_hang.diem_hien_tai ◄── users.* save(entity)
 every request ──► router ─► JwtAuthGuard ─► RolesGuard ─► PermissionGuard ─► roles, cached in Redis
```

| Component | State | Operations | What is hard | What makes it correct |
|---|---|---|---|---|
| orders | `don_hang`, its lines, activity log | checkout, cancel, updateStatus, shipping details, notes | reads before the transaction, saves of stale entities, a nested connection, rollback after a partial commit | status follows the table; units reserved at checkout are given back or picked exactly once |
| inventory | `ton_kho` counter, `lo_hang` lots, history, import and export documents | import create/approve/complete/reject/resolve, export, adjust, FIFO deduction | read-then-write of counter and lots, documents approved twice | counter, lots and history agree; each receipt enters once |
| promotions | promotion rows and parts, `usage_count`, usage rows | life cycle, evaluate, apply coupon, consume | quota under concurrent confirmations; parts replaced statement by statement | quota kept; an active promotion has all its parts; preview = charge |
| flash sales | sale and item rows, sold counter | life cycle, sell at checkout | counter under concurrent checkouts; items replaced | sold never above the limit; what is shown is what was entered |
| cart | cart, lines, coupon | add, update, remove, clear, coupon | quantities computed from a stale line | a line grows only within the stock |
| payments | transaction rows | VNPay IPN and return, ZaloPay, MoMo, COD | duplicated, lost, reordered callbacks; two-step writes | paid by a signed message means captured; a verdict stands |
| returns | requests, inspection, resolution rows | submit, review, receive, inspect, refund, exchange, warranty | status checked outside the transaction; several requests per order | goods and points come back at most once |
| loyalty | balance in `khach_hang`, ledger, catalog, redemptions, tiers | adjust, redeem, refund, catalog edits, tiers | balance written by two services; limit read without a lock | balance = sum of the ledger; one tier per customer |
| users | rows of people, addresses | profile, addresses, avatar, administration | saves of stale entities around slow work (bcrypt, upload) | an edit changes only its own columns; one default address |
| auth | Redis: sessions, refresh tokens, links, blacklist | login, refresh, logout, reset | a session is several keys written one by one | an ended session is refused and cannot be refreshed |
| roles, employees | roles, permissions, cache of the guard | edits, seed at start, assignment, passwords | cache dropped by some edits only | the guard grants what the role has |
| routes and guards | the order of registration | one request | a parameter declared earlier shadows a word | every handler can be reached by those meant |
| support | tickets, messages | open, reply, assign, close; hourly job | a SELECT between the entity and its UPDATE; job against a late answer | the times of a ticket agree with its status |
| reviews | rows, average of the product | submit, moderate, answer | check-then-insert; average in two statements | one review per purchase; the average is one |
| build-pc | slots, rules, saved builds | edit, check, save, share, clone, view | a build and its parts in separate statements | builds are whole, within the limit |
| products, categories, specifications, brands | rows and trees | create, update, copy, remove, search | DELETE + INSERT without a transaction, tree rules | what is shown is what was entered |
| content | banners, notices, pages, menus, home page | create, update, remove, preview | rules counted before the write; cached configuration | customers see what was chosen, once |
| media | files in Cloudinary, rows, folders | upload, edit, remove | two stores, no transaction | the library lists the files there are |
| reports | snapshot, log, summary in Redis | nightly job, query | TRUNCATE commits by itself | log and summary tell what the table holds |
| wishlist, contact messages, settings, suppliers | rows | create, read, update, delete | little | not modelled |
| search, dashboard, audit log, mail | none, or append-only | queries, sending | none | not modelled |

`jobs/` holds empty files.

## 2. How the code is modelled

A handler is cut where another one can come in between: at each read outside a
transaction, at the snapshot of its transaction, at each statement sent over
another connection, and at each commit (or each Redis command). `Handlers` has what
all components share: `pc[r]` is the next step of the request in slot `r`, `job[r]`
what it holds. A handler may also end between any two steps (`Abort`, `GiveUp`,
`Abandon`): the process dies, the client is gone, or the database refuses.
What is committed by then stays; where a half-done handler leaves rows of which no
property can speak any more, an auxiliary set (`torn...`) remembers which.

What the libraries do, and every module relies on:

* TypeORM's `save()` of a loaded entity inside a transaction reads the row again and
  writes every column in which entity and row differ. A stale entity therefore
  writes its stale columns back, and two saves can leave columns of both. It is two steps,
  a SELECT and an UPDATE, where what comes between matters (`OrderFlow`, `SupportTickets`),
  and one where a handler changes one of the modelled columns or runs alone. What is stated
  of overlapping handlers of `Returns` and `StaffRoles` speaks of each column by itself. Outside a transaction it also takes back loaded
  relations, and inserts a row that was deleted meanwhile. `update(id, columns)`
  writes the given columns only. `save(rows, {chunk})` is one transaction.
* A transaction reads from a REPEATABLE READ snapshot taken at its first SELECT;
  `SELECT ... FOR UPDATE` and every UPDATE see the latest committed rows.
* `synchronize: true` (`config/database.config.ts`) makes the entities the schema:
  their unique columns and foreign keys are real, and one without `onDelete` refuses.

## 3. The modules

### Orders: `FifoLots`, `OrderFlow`, `OrderPromise`

`FifoLots` is `BatchService.deductFromBatches` as pure functions: `Taken` is
what each lot gives when a quantity is taken oldest first, `Deducted` the lots
afterwards. Running out of lots is not an error in the code and is not one here.

`OrderFlow` has one variable per table that the handlers touch:

| Variable | Table |
|---|---|
| `cart` | `chi_tiet_gio_hang` |
| `stock` | `ton_kho.so_luong_ton` |
| `lots` | `lo_hang.so_luong_con_lai` |
| `flashSold` | `flash_sale_item.so_luong_da_ban` |
| `usageCount` | `promotions.usage_count` of the coupon |
| `orders` | `don_hang` and its lines, gifts and shipping mark |
| `picks`, `restores`, `picked` | the activity log and the stock history |
| `pc`, `job`, `snap` | where a request is, the entity it holds, its snapshot |

* `checkout` = `CheckoutRead` (everything read and refused before the
  transaction) · `CheckoutClearCart` (COD only; `CartService.clearCart` has no
  manager, hence commits by itself) · `CheckoutCommit`.
* `cancelOrder`, `updateStatus`, `updateStatusAdmin` = `CancelOrder` or
  `UpdateStatus` (load and check) · `BeginChange` (the snapshot) · then
  `CommitChange`, or, when a coupon order is confirmed, `TakeCouponSlot` /
  `NoCouponSlot`.
* `updateShippingAdmin` = `UpdateShipping` (load) · `SaveShipping` (save).
* `Abort` at any point. `LockWaitTimeout`: `innodb_lock_wait_timeout`.

Confirming an order with a coupon waits for itself. `changeStatus` has updated,
hence locked, the `don_hang` row; `recordCouponConsumption` has no manager, so its
`usage_count + 1` commits at once on another connection, and its `INSERT INTO
promotion_usage` has a foreign key to the locked row. The wait ends by timeout, the
confirmation is rolled back, and the slot stays taken. After `TakeCouponSlot`
only `LockWaitTimeout` and `Abort` are possible.

`OrderPromise` is what a customer is promised: a status that moves along the
arrows and units that are reserved, then either picked or released, once.
`OrderFlow` maps to it by `UnitsState`, which reads the log of picks and restores.

Abstracted: prices and discounts (`PromotionRules`); the per-customer coupon limit
and the owner check of a cancellation (only refuse); a Buy-X-Get-Y gift is any offer
of `GiftOffers` the stock covers; `AddItem` adds one unit at a time.

### Loyalty: `Loyalty`, `CustomerAccount`

`Loyalty` is `LoyaltyService`. `writeTransaction` locks the customer's row with
`SELECT ... FOR UPDATE`, so it is one step with the commit of its transaction
(`WriteTransaction`). Everything a caller reads before it is a step of its own:
`RedeemRead` (the catalog row, on another connection), `RefundRead` (the balance),
`EditReward` (the entity that `updateCatalogItem` saves). `earnPointsForOrder` has
no caller, so the ledger's earn rows come from `AdjustPoints`.

`CustomerAccount` adds the other writer of the same row: every profile handler of
`UsersService` loads the whole `khach_hang` row (`LoadCustomer`) and later saves
the whole entity (`SaveCustomer`), the points included.

### Warehouse: `Warehouse`

| Variable | Table |
|---|---|
| `stock`, `lots` | as in `OrderFlow`, but lots come and go |
| `reserved` | units of orders checked out and not packed |
| `receipts` | `phieu_nhap_kho` with its lines and its two links to other receipts |
| `intake` | the receipt's 'Nhap' rows in the stock history |

* `approve` = `ApproveRead` (status checked outside the transaction) · `ApproveBegin`
  (snapshot) · `ApproveCommit` (counter, lots, history, status, the receipt it
  supplements). `complete` and `reject` = `CompleteRead` or `RejectRead` ·
  `SaveClosed`. `resolve` = `ResolveRead` · `ResolveCommit`.
* An export and an adjustment are the same transaction with quantities of either
  sign: `CreateExport` or `AdjustStock` (`BeginMove`: snapshot and refusal) ·
  `CommitMove`. `UpsertStockLevel` writes an absolute counter, `MoveLots` a new lot
  or a deduction (`FifoLots`).
* `updateThresholds` = `ReadThresholds` · `SaveThresholds`, which writes the counter.
* `Reserve`, `Release`, `PackBegin`, `PackCommit` are what orders do to the same
  rows, one unit at a time; their own races belong to `OrderFlow`.

Abstracted: every variant has its `ton_kho` row (a missing one reads as zero, and
the unique key refuses a second first insert); an approval that counts no line is
one that counts what was expected; the counts are net of damaged goods; costs.

### The storefront: `MCStorefront`

Components that share no rows are checked in one suite: `desk` is chosen in the
initial state and says which component is served, one request at a time (with
crashes between any two steps) or, where the name says "overlapping", two at once.
The variables of the others hold 0. A group property has, per desk, the properties
of that component.

| Module | Code | State and steps |
|---|---|---|
| `PromotionRules` | `PromotionEvaluatorService` and both of its callers | Operators. Which automatic promotions and which coupon apply (priority, exclusive ones, conditions), which lines they reach (scopes), and what each action takes off: percentages with their cap, amounts, bulk tiers, bundles, gifts, shipping. `Preview` follows `GET /cart`, `Effects` and `Charged` the checkout: two loops in the code, two here. |
| `Cart` | `CartService` | Rows of the cart with their ids; adding and updating read the line and the stock, and `SaveLine` writes a quantity computed from them (a line removed meanwhile comes back, one added again collides). |
| `Promotions` | `PromotionsService` | Row and parts of a promotion. `update` is a save of the row, then a DELETE and an INSERT for each part (`PartStatement`), a copy likewise; a coupon is used in two statements (`ConsumeSlot`, `RecordUse`). A part is named by the edit that wrote it. |
| `FlashSales` | `FlashSalesService`, and the checkout that sells at its prices | Sales with their windows, items replaced by DELETE and INSERT; `Buy` reads the limit, `BuyCommit` counts. |
| `Sessions` | `AuthService`, `RedisService`, `JwtStrategy` | Each Redis command is a step: count, trim and add a session, store, compare and delete a refresh token, blacklist, links for a reset. |
| `CustomerProfile` | `UsersService` | Addresses with their default, the avatar with its daily counter in Redis, the switch for e-mails. |
| `MembershipTiers` | `MembershipTierService` | Ranges of points; nothing links a customer to a tier but the points. |
| `BuildRules` | `BuildPcService`, `BuildPcCompatibilityEngine` | Slots, rules, and the issues of a choice of parts. |
| `SavedBuilds` | `SavedBuildsService`, `CommunityBuildsService` | A build and its parts in separate statements; clones and views count. |
| `Returns` | `ReturnsWorkflowService`, `ReturnsResolutionService`, `ReturnsWarrantyService` | Requests along their statuses, inspection, and refund, exchange and warranty with what they move: stock, points, orders. |
| `Payments` | `PaymentsService` | Signed messages of VNPay and ZaloPay stay in `sent`: each may arrive never, late, twice, in any order. MoMo's callback takes whatever it is sent, and a return of VNPay without a valid signature saves *ThatBai*. A handler saves the transaction, then changes the order in another transaction. |
| `Reviews` | `ReviewsService` | Check, upload and insert of a review; moderation, then the average in two statements; the lists as `WHERE` of optional filters, order, page. |
| `SupportTickets` | `SupportService`, `SupportScheduler` | The save of a ticket as a SELECT (`SaveTicket`) and an UPDATE of the columns that differ (`UpdateColumns`), then its line in the log; the hourly job as one UPDATE per rule. |

### The back office: `MCBackOffice`

| Module | Code | State and steps |
|---|---|---|
| `Guards` | all controllers in the order of `AppModule`, `role-seed.constants.ts`, the three guards | Data and one step: a call (`Ask`) goes to the first route that matches, and the guards answer. |
| `StaffRoles` | `RolesService`, `RoleSeederService`, `EmployeesService`, `ProfileService` | Roles and their permissions, the cache entries the guard fills and some edits drop, employees, and links that confirm a password. `Restart` runs the seeder. |
| `Categories` | `CategoriesService` | The tree; `update` saves the row it loaded with its children. |
| `Specifications` | `SpecificationsService`, the filters of `ProductsSearchService` | Links of groups to categories, types, values; three ways to resolve the groups of a category, and what a filter counts against what a search finds (both trim values; the database, which compares without case, does not). |
| `Products` | `ProductsService`, `BrandsService` | Products, variants, defaults, values, images, brands, copies: one statement a step. |
| `Banners` | `BannersService`, `SiteConfigService` | Limits per position, and the mode of the hero with its cached copy. |
| `Notices` | `PopupsService`, `AnnouncementBarsService` | One active notice a place, windows that do not overlap; either end may be missing. |
| `Pages` | `PagesService` | Slugs behind any number of `info/`, and the look-up with its old form. |
| `Menus` | `MenuService` | Items, parents, the limit of the footer. |
| `HomeSections`, `HomePreview` | `HomepageService`, `HomepagePreviewService` | Sections with listed items; which variants an automatic section shows. |
| `Media` | `MediaService`, `MediaFolderService` | Files and rows, in that order; the keys of those who use an asset. |
| `Reports` | `ReportProcessor`, `ReportsComputeService`, `ReportsQueryService` | The nightly job: log row, scores by fifths, segments, TRUNCATE, rows, log, cache; repeated after a crash. |

## 4. The runs

| Run | Instance | What it shows |
|---|---|---|
| `orders_serial` | 1 request at a time, 2 orders, 2 lots of one unit, quantity up to 2, 9 requests, crashes | Without overlap, lots = counter + reserved units, every pick is recorded, nothing is oversold, the flash limit and the status table hold, and the handlers implement `OrderPromise`. |
| `orders_overlap` | 2 requests at once, 2 orders, a gift, 6 requests | What overlap cannot break: packed before shipped, restored when cancelled, held rows were real. |
| `orders_live` | 2 requests at once, 1 order, 4 requests, weak fairness | Every request ends, the self-blocking confirmation and those queueing behind it included. |
| `orders_gift_restock` | 1 request, a gift | Counterexample: after all orders are cancelled there is more in stock than before the checkout, the gift. |
| `orders_coupon_quota` | 1 request | Counterexample: confirming an order with a coupon leaks a slot of its quota. |
| `loyalty_overlap` | 2 requests at once, 2 customers, 5 requests | Balance, ledger and redemptions agree under any interleaving. |
| `account_edits` | 2 requests and an editor, 5 + 2 requests | What stale profile saves cannot break: no negative balance, rows right one by one. |
| `warehouse_serial` | 1 request at a time, 3 receipts, 1 variant, up to 2 units a line, 8 requests, crashes | Without overlap, lots = counter + reserved units, each receipt enters the stock once, supplements order what is lacking and close their predecessors. |
| `storefront` | the desks of `MCStorefront` | The group properties below. |
| `back_office` | the desks of `MCBackOffice` | The group properties below. |
| `routes_shadowed` | the desk of the guards | Counterexample: a route of the admin payments controller is answered by the orders controller. |
| `media_in_use` | the desk of the media library | Counterexample: the file of an asset that is in use is destroyed, its row refused. |

The groups, with the properties they join (o: also with two requests overlapping):

| Property | Joins |
|---|---|
| `CartTellsTheCharge` | `PreviewIsCharged` (o): for offers that preview and checkout treat alike by design, the total shown is the one charged; `BundlesFit`: the combos a bundle pays for fit into the cart |
| `OffersTieUp` | `ActiveIsWhole`: an active promotion whose last edit finished has the parts that were entered; `SlotsCoverUses`: every recorded use took a slot; `OffersWhatWasEntered`, `NeverPastLimit`: the same for flash sales |
| `SessionsEnd` | `RevokedStaysOut` (o): the access token of an ended session is refused; `RevokedCannotRefresh`, `FewSessions` |
| `ProfilesTieUp` | `OneDefault` address, `AvatarLimit` per day, `OneTierEach` |
| `BuildsTieUp` | `PartsFindSlots`, `BuildsWithinLimit`, `BuildIsWhole`, `ViewedOnce` |
| `ReturnsTieUp` | `SettlementsTieUp` (o), `PointsTakenBack` (o), `StockIsExplained`, `ReceiptSettlesOne`, `OneWaiting` |
| `PaidMeansCaptured` (o) | the handlers of VNPay and ZaloPay show a transaction as paid, and confirm its order, only if the gateway captured the money |
| `VerdictsLast` | `IpnKeepsVerdict`, `AlongTheArrows` |
| `ReviewsTieUp` | `OncePerPurchase`, `RatingIsAverage`, `UnansweredWait`, `PagesTieUp` |
| `TicketsTieUp` | `TimesFitStatus`, `TakenUpIsNotNew`, `LogTellsEnd` |
| `StorefrontSteps` | `GrowthIsCovered`, `CopiesWait` (o), `NobodyLosesTier`, `AddingSolvesNothing` |
| `AccessTiesUp` | `FixedWordsFirst`, `AdminIsNeverRefused`, `WritersMayRead`, `SystemRolesIntact` (o), `LinkWorksOnce` (o), `GuardFollowsRoles`, `EditsKeepRoles` |
| `CatalogueTiesUp` | `OneRootEachBranch`, `LevelsFit`, `NearestLinkDecides`, `FiltersFindWhatTheyCount`, `SpecsAsEntered`, `ContentsAsEntered`, `OneDefaultVariant` |
| `ContentTiesUp` | `EnabledAreShown`, `ModeIsCurrent`, `OneNoticeEachPlace`, `AddressAnswersOne` (o), `FooterFits`, `EveryItemIsListed`, `ItemsAsEntered`, `OneCardEachProduct`, `NothingIsMissed`, `LibraryMatchesStore` |
| `ReportsTieUp` | `SegmentsFollowPurchases`: nobody is ranked below one who bought less; `LogTellsTheTable`: log and summary agree with the rows |
| `BackOfficeSteps` | `RemovalKeepsPlaces`, `CopiesStayHidden`, `CopyIsHidden` (o), `HeldRoleStays` |

A property without (o) is stated for requests that do not overlap because overlap
breaks it, and that is where its limit is drawn. In most cases the reason is the same:
a rule is checked on rows read before the write, and no unique key, lock or condition
of the UPDATE backs it. `NeverOversold`, the limit of a flash sale, the limit of a
reward, one default address, one review per purchase, one waiting return per order,
the limits of banners, menus and sessions, and the conflicts of notices all fall so.
`PicksAreRecorded` falls when two packings overlap, `BooksMatch` when an adjustment,
an export, an approval or an edit of thresholds overlaps anything that moves the same
variant, `ReceiptTakenOnce` when an approval overlaps a rejection,
`StatusFollowsTable` when two changes of one order do, and `BalanceIsLedgerSum` as
soon as a profile is saved meanwhile. In the catalogue, two replacements of values or
images interleave their DELETEs and INSERTs. Two categories saved at once take each
other's children back. Two saves of a ticket leave columns of both: an employee put on it
while another closes it leaves a ticket that is open and has a closing time.

Each property is shown to depend on the code by a mutant: an operator beside the
definition it replaces (`Mutant of ...`), changed as a plausible bug would, under which
the run finds the property violated. `PROJECT.json` lists them.

## 5. Bounds and fairness

`MaxServed` (requests in all) caps the length of a behaviour, `MaxQty`, `MaxEdits`,
`MaxIds`, `MaxAddresses`, `MaxAvatars`, `MaxBuilds`, `MaxRequests`, `MaxPoints`,
`MaxQuantity`, `MaxLinks`, `MaxProducts` and the sets of ids what it may use up.

* Two concurrent requests suffice for every race: each hazard is between one stale
  read and one commit.
* Two orders of up to two units over two lots let a pick span lots, find one partly
  used, and run out. Nine serial requests take both orders through packing, or one to
  its return. Three receipts of up to two units make a chain of two supplements, each
  of which may arrive short, exact or over.
* At the desks, two to six requests reach each row's whole life: create, edit, copy or
  use, remove, with one more to look at what is left. Overlapping desks serve two
  requests, three in `Returns`, `Sessions`, `SupportTickets` and `Pages`, four in
  `Payments`; initial states are rich where two requests from empty tables would not meet
  (a cart with lines, a published page, an approved return, a mailed link, sections with
  items).
* Populations of up to five customers of four kinds give every fifth of a report a
  customer, ties and less than five. Three variants of two products give a promotion
  scopes that hit all, some and none of the lines.

`CHECK_DEADLOCK FALSE` is set because the bound on requests ends every behaviour;
that nothing hangs is `EveryRequestEnds`. Symmetry is used for order, receipt and
request identities only, and never in the liveness run.

Fairness. `FairSpec` of `OrderFlow` is weak fairness of `Serve(r)`, what the server does
next for a request it has begun: Node runs a handler to its end once its awaited call
returns, and InnoDB answers a lock wait by a timeout. Nothing is assumed of those
who send requests, and `Abort` is never required. Elsewhere no handler waits for another,
so that liveness would only repeat the fairness.

## 6. What is proved

Every theorem holds for any sets of customers, variants, orders, rows and requests and
any limits and bounds, from the named `ASSUME`s of the modules (which TLC evaluates) and
what the theorem itself states. `OneAtATime` says that handlers do not overlap: at most one
slot serves requests. Theorems without it hold for any number of handlers at once.

**Sums** (`SumsProofs`). Balances, ledgers, stock, lots and what returns move are related by sums, which the
models take with `SumFunctionOnSet`, a fold. What a fold computes follows by induction over
the set, which is not at hand as a rule; the lemmas look at a smallest set for which they
would fail instead (`SmallestSubset`, from the library's well-foundedness of the strict
subset order). They say what a sum does when one summand changes, when an element comes or
goes, and that `Taken` takes from the lots what it reports, clipped at what there is.

**Loyalty** (`LoyaltyProofs`), for finitely many customers and rewards:

* `LoyaltyTyped`, `LedgerIsSound`, `BalanceIsTheSum`, `RewardsArePaidFor` under any
  interleaving of `LoyaltyService`: the chain of the ledger, the balance as its sum, and
  rewards worth the points taken for them. The last needs that an edit of a reward under
  way holds a counter no higher than the reward's own (`EditsBehind`): a stale save may
  lose redemptions from the counter, never invent them.
* `NeverInDebtHolds` and `RowsAddUpHolds`, which survive even the stale saves of
  `UsersService`: the check in `writeTransaction` is made on the balance it then changes,
  whatever put it there.

**Orders** (`OrderFlowProofs`). Under any interleaving:

* `OrderFlowTyped`: a pick from a stale snapshot never makes a lot negative;
* `ShippedOrdersWerePacked`, `CancelledOrdersWereRestored`, `HeldRowsAreReal`, from one
  inductive invariant, `EffectsInv`. None of the three is inductive by itself: a row gets
  its status from the entity a handler holds, so the argument has to speak of those
  entities too (`HeldRowsWereReal`: whatever status a handler holds was justified when it
  was read, and logs only grow), and the transition asked for is legal *from the held
  status*, even when the row has moved on. `SaveShipping`, which copies a stale status, is
  covered by the same conjunct.

While handlers do not overlap, from `SerialInv`, which adds that what a handler holds is
still so (`HeldIsCurrent`), that a checkout has found enough for what it will reserve
(`CheckoutCovered`), and that an order's units were picked or given back once
(`EffectsOnce`):

* `PicksRecorded`, `NothingOversold`, `StatusesFollowTable`;
* `ShelfAlwaysMatches`, for promotions without gifts, whose units no checkout reserves
  (`orders_gift_restock` shows what becomes of them);
* `OrderKeepsPromise`: `OrderFlow` implements `OrderPromise`. Initial states map to initial
  states, and each step to a pick, a release, a new reservation or a stutter.

**Warehouse** (`WarehouseProofs`):

* `WarehouseTyped` under any interleaving; and while handlers do not overlap
* `BooksAlwaysMatch`: each variant's counter and lots agree through imports, exports,
  adjustments, edits and orders;
* `ReceiptsTakenOnce`, `ShortfallsOrdered`, `SupplementsClose`, from the inductive
  invariant `DocsInv`. It adds that a supplement's predecessor has been received (so that
  closing it changes nothing of what it brought in) and that what a handler holds of a
  receipt is what the receipt still is (`HeldIsCurrent`): precisely what overlap breaks.

**The storefront** (`StorefrontProofs`). Each component is a named instance with a
specification in which its own handlers run, as at its desk in `MCStorefront`.

* `EndedSessionsStayOut` (any interleaving): the access token of a session that was ended,
  of a customer or an employee, is refused from then on. A login that was begun before and
  adds its session afterwards does not bring an old one back, because ids are new: an id
  belongs to one handler until its session is added (`NewIdsAreNew`), nobody else can have
  met it, and no id is both a customer's and an employee's (`IdsApart`).
* `EndedSessionsBuyNothing` (no overlap): an ended session cannot be refreshed and no
  refresh token buys two sessions, wherever a handler ends. `RefreshInv` adds that a
  handler holds no id that was ended and no refresh token that was exchanged (`JobFits`).
* `FewSessionsAtOnce` (no overlap): a customer stays within `Cap`, a positive number. What
  was counted still stands at the trim (`RoomFor`), and ranks are different numbers below
  the count, so that a trim by rank leaves as few as it should (`TrimLeaves`); a new
  session expires after all others, which keeps the order strict.
* `PaidOnlyWhenCaptured` (any interleaving): a transaction that a handler of VNPay or ZaloPay
  saved as paid, and an order one of them confirmed, were captured by the gateway. Messages
  stay in `sent` for ever, so the argument is that no signed one says *paid* before the capture,
  whatever is late or comes twice, and whatever MoMo's callback writes in between.
  `IpnLeavesVerdict` and `OrdersKeepToTheArrows` are its steps, without overlap.
* `TimesAgreeWithStatus`, `NewTicketsAreUntouched` (no overlap): what a handler will save
  fits by itself (`Fits`), the SELECT of the save finds the row it was read from but for what
  the hourly job did (`Near`), and the UPDATE of the columns that differ leaves a row that fits.
  (No employee is called `nobody`.)
* `RefundsAndExchangesTieUp` (any interleaving) relates three tables that are saved by
  handlers in any order. A stale entity can take a status back but never what the row
  refers to (`Kept`), and an order once delivered or refunded stays so; hence what a
  handler holds stays good while others write (`HeldKept`), and each action has only to
  show what it does to the rows itself. (Quantities are natural numbers and decisions those
  the API accepts, `Accepted`, here and below.)
* `RefundsTakePointsBack` (any interleaving): each refund of the order that earned points takes
  them back as far as there are any. The deduction reads the balance in its own transaction,
  so that all there is to show is that the cap at zero, taken refund by refund, is the cap of
  the whole.
* `OneRequestWaits`, `ReceiptsSettleOnce`, `ResolutionsExplainStock` (no overlap): an order has
  one waiting request; an approved receipt settles one resolution, by whichever of the two ways
  it is linked; and the stock is what it was, plus what refunds brought in, less what exchanges
  and warranties handed out. A receipt that a handler found free is still free when it is linked
  (`ReceiptHeld`), and what a handler knows of the resolution that it finishes is still so
  (`StockHeld`), wherever the handler before it was cut short. The stock is a difference of
  sums over resolutions, and each commit changes one summand.
* `CustomersHaveOneTier`, `DeletingTakesNoTier`, `OneDefaultAddress`, `AvatarsAreLimited`
  (no overlap): a check on rows read before the write suffices if nothing comes between
  (`TierChecks`, `AddressJobs`), wherever a handler is cut short. The limits are natural
  numbers.

**Offers** (`OffersProofs`), and what customers leave behind in the shop. No overlap, but for
the first. Limits and stocks are natural numbers.

* `CopiesAlwaysWait` (any interleaving): only a create makes a promotion that was not there
  active. A copy is a draft from the moment it is prepared (`CopiesAreDrafts`).
* `UsesTakeSlots`, `ActiveOffersAreWhole`, from `OffersInv`. A use is recorded after its slot was
  taken, so a crash between leaves a slot too many and never too few (`SlotsTaken`). An edit works
  off a list of DELETEs and INSERTs: for each part, the last statement that is left on it inserts
  it, or nothing is left on it and it is as entered (`EndsInserted`, `Untouched`).
* `NoItemPastLimit`, `SalesOfferWhatWasEntered`: what a purchase has found unsold is unsold when
  it is counted, and an edit starts the items anew with a counter of zero.
* `ReviewedOncePerPurchase`, `CardTellsTheAverage`, `WaitingHaveNoReply`, from `ReviewsInv`: what
  `SubmitRead` looked up is still so at the INSERT, an approval changes the average or its handler is
  about to recompute it (`CardsTell`), and a reply marks its review or its handler is about to
  (`MarksTell`).
* `BuildsKeepToLimit`, `BuildsAreWhole`, `VisitorsCountOnce`, from `BuildsInv`: the count of a
  customer's builds is still right when a build is inserted or cloned, and its parts are those
  entered or still in the hands of the handler that replaced them.
* `LinesGrowWithinStock`: the stock that was read is still there when the line is saved, for any
  prices and promotions; a line that shrinks or goes needs none.

**Content** (`ContentProofs`). The ids of rows are numbers and not 0, which the models use for
*no row*. No overlap, but for the first two.

* `AddressesAnswerOne` (any interleaving): the check for a slug and its write are two steps, but
  the rows of the old form, which only the check guards, become fewer only; the others have a
  unique key.
* `CopiesStayUnseen` (any interleaving): the copy of a section is hidden and numbered anew, so
  that no list of another section becomes its own.
* `SectionsListItems`, `FooterKeepsToLimit`: as for builds; an edit leaves a menu item in its menu.
* `NoticesDoNotMeet`: the check for conflicts against what is active still holds at the save, and
  it asks about a window with both ends as it will be saved. An edit without a status skips the
  check, and what such edits wrote is left out by name (`unstated`). Moments are positive.
* `HeroFollowsMode`, `EnabledBannersShow`, from `HeroInv`: what Redis holds of the mode is
  the row's, has a handler about to write it, or is of a handler that died. A position has no more
  enabled banners than customers are given, nor two that compete for one side (`PositionsFit`), so
  that the list they get cuts none off.
* `LibraryListsFiles`: between the call to Cloudinary and the row, the file of a handler is the
  only one on which the two stores may differ (`FileJobs`).

**The back office** (`BackOfficeProofs`), the first three under any interleaving.

* `SystemRolesStay`: roles of the system are refused where the handler reads them, and an
  edit under way of another role can neither take a name of theirs nor become one. (0 is not an
  id.)
* `LinksWorkOnce`: a link that has set a password and is still there has a handler that is
  about to drop it.
* `CopiesAreHidden`: the steps that copy a product or a variant insert drafts, and rows that are
  hidden and not the default of a product on sale, under numbers no row has. (Rows are numbered
  from 1, `Numbered`.)
* `CacheFollowsRoles` (no overlap): an entry of the cache that is not left behind grants
  what the role of that name does, or its handler is about to drop it (`CacheFits`). The
  argument is that an edit knows the role by the name it has and that what fills the
  cache is still granted (`JobAgrees`), which overlap breaks; a crash between the save and
  the drop is what leaves an entry behind.
* `EmployeesKeepRoles`, `DeletingTakesNoRole` (no overlap): what a handler will save of an
  employee has the roles that were given, and nobody holds the role that it will delete
  (`JobKeeps`).
* `OneVariantIsDefault` (no overlap): a new default is saved after the old one was cleared, and
  an update saves a default only if the variant was one (`OneEach`, `DefaultJobs`). Products whose
  requests spelled out defaults themselves are left out by name (`byHand`).
* `OnlyUpdatesMove` (no overlap): saving a category writes its children back under it, and what it
  was loaded with is still so (`TreeJobs`); one with children is not removed.
* `VariantsHaveEnteredValues` (no overlap): between the DELETE and the INSERT a variant has no
  values, and nothing that is entered looks like a missing value.
* `LogsTellTheTable` (no overlap): the log is written after the rows, and the cached answer is
  loaded from the table it is kept for, wherever a job dies.

Only model-checked:

* liveness (`EveryRequestEnds`), which no installed prover reaches;
* what is computed by recursion over strings, orders, lists or trees of data
  (`PreviewIsCharged`, `BundlesFit`, `PartsFindSlots`, `AddingSolvesNothing`, `LogTellsEnd`, `PagesTieUp`,
  `OneRootEachBranch`, `LevelsFit`, `NearestLinkDecides`, `FiltersFindWhatTheyCount`,
  `ContentsAsEntered`, `EveryItemIsListed`, `OneCardEachProduct`, `NothingIsMissed`,
  `SegmentsFollowPurchases`);
* what is a fact about the table of routes and the roles that are seeded, which TLC evaluates
  whole (`FixedWordsFirst`, `AdminIsNeverRefused`, `WritersMayRead`, and the run `routes_shadowed`);
* the four counterexamples, and the types of the two suites: the invariants above carry the types
  that they need.

## 7. Where code and docs part

Four runs end in a counterexample, each against a line of the repository:

* `orders_gift_restock`: cancelling an order with a gift returns a unit to the counter
  that the checkout never took: one order placed and cancelled leaves more than there was.
* `orders_coupon_quota`: confirming an order with a coupon blocks itself, is rolled back,
  and leaves a slot of the quota taken.
* `routes_shadowed`: `admin/orders/:id/transaction` of the orders controller is registered
  before `admin/orders/:orderCode/transaction` of the payments controller, whose handler is
  never called.
* `media_in_use`: `soLanSuDung`, which is to prevent the removal of an asset in use, is
  never raised. `remove` destroys the file in Cloudinary; the DELETE of the row is then
  refused by a foreign key, and those who use the asset point at nothing.

Other places where the documents (`.ai/*.md`) or the names say one thing and the code does
another. The models follow the code.

Orders and offers
* Cart preview and checkout treat some offers differently: coupons with a scope, bundles,
  free shipping. `PreviewIsCharged` leaves those out by name.
* Scopes of kind *product* match nothing, because lines carry variant ids. Conditions on
  the payment method or the platform never hold. Two bundles that share a component both
  count it. Nothing keeps the total of a checkout above zero.
* An update of a flash sale inserts its items anew and so sets the sold counter to zero.
* Nobody calls `incrementSold`, `decrementSold`, `findActiveItemForVariant`,
  `applyAutoPromotions`, `dispatch`, `earnPointsForOrder`, nor the branch of the lots
  that takes the newest first.
* `createTransaction` cannot insert: what `OrdersService.findOne` answers has neither a
  numeric id nor `totalAmount`.

People and access
* A renamed or removed role stays in the guard's cache (`.ai/MODULES.md:104` says it is
  dropped); a token refreshed later still carries the old roles.
* Any employee with the permission may dismiss one, where `.ai/BUSINESS-RULES.md:116`
  names the admin. A customer with open orders can be removed.
* Locking an account leaves its sessions. A login begun before a password reset and
  finished after it survives the reset.
* `build-pc/saved/:id` is public and therefore never knows its caller, so that owners are
  refused their own private build.

Aftermarket
* The callback of MoMo compares neither a signature nor an amount, where `README.md:32`
  speaks of signed webhooks; a return of VNPay without a valid signature overturns a verdict.
* A warranty hands out a product of the stock (`.ai/BUSINESS-RULES.md:139` says it does
  not touch the stock).
* The deadlines of `adminCreateTicket` lack the level `KhanCap`; all deadlines are
  constants where `.ai/MODULES.md:515` names `site_config`; an empty message of staff sets
  `first_response_at` before it is refused (`.ai/MODULES.md:514`).

Catalogue
* Moving a category under another parent checks neither for rings nor the rule of one
  comparison root in a branch, and leaves the levels; saving it writes back the children
  it was loaded with. A comparison root that becomes a label stays one.
* Values of a filter are split at commas, and `true` or `1..5` are read as a flag or a
  range, whatever the type. Filters and searches trim values, the column keeps its blanks, and the
  database compares without case: a value with blanks before it is counted and not found, and
  options that differ in case only are counted apart and found together
  (`FiltersFindWhatTheyCount` says how far they agree). A filter lists and a search takes 100
  values at most. Filters count hidden variants.
* The page of a product on sale (`products/:slug`) lists hidden variants, marked so, and
  takes its code from any default; the public search shows drafts unless it is asked for a
  status. A copy of a product is therefore found by it, though no page is made of it.
* A type can be renamed to a code that is taken. Removing a type deletes its values first,
  and loses them when the DELETE of the type is refused. Removal is not soft.
* Creating or updating a variant may leave two defaults, removing the default none.

Content and media
* A banner whose flag was never set counts as enabled. Popups and bars that change place
  or dates without their status escape the check for conflicts, as do scheduled ones of
  which an end is not set; an end that an update takes away is checked as it was. Nothing
  moves a scheduled one to active. The mode of the hero is read from a cache that is up to ten
  minutes old if the handler that changed it died, or overlapped a reader.
* Two pages may answer an address with two `info/` before its slug. Menu items may form rings or
  hang under an item of another menu.
* In the preview of the home page, a section that names two brands of a product shows it
  twice; required ids match products or variants, whichever has the number; a named
  variant that is not the default is not shown; an empty *all* matches everything. A
  section of listed items shows hidden ones.
* A crash leaves files without rows; an edit that overlaps a removal brings the row back;
  old avatars stay. Folders are copied into the asset when it is uploaded, and not moved.

Reports
* Fifths give ties the best score: those who never bought can be *Loyal*, and with fewer
  than five customers none is a *Champion*. *New* is never reached. The column of returns
  is always zero.
* A missed day is never computed later, and with no customers the old rows stay under a
  log of success. A crash leaves the log `running`; a failing invalidation of the cache
  turns a success into `failed`.

Wishlist (not modelled)
* No unique key: two first calls create two lists for a customer.

## 8. What is not modelled

* In modelled parts: the actions `fixed_discount_item` and `free_item` of promotions,
  generated codes, the signatures and URLs of the gateways, the expiry of a refresh token,
  the end of the window in which a build is viewed once (longer than a run), texts,
  attachments, prices, and the queries that only list. The note of each component in
  `PROJECT.json` says what else.
* Wishlist, contact messages, settings and suppliers: one statement on one row each, or a
  check and an insert. Audit log and mail: append-only, nothing is read back. Dashboard and
  the ranking of the search: queries. The job processors are empty files, and the framework
  is taken at its word (`Guards` models how it picks a route).
* Every hazard that `PROJECT.json` lists has a property, but for the quota of a coupon, which the
  `WHERE` of the one UPDATE that counts it keeps (`orders_coupon_quota` is what takes slots for
  nothing). Two more have none. The limit of a
  reward (`loyalty.service.ts:397`) is checked on a row read earlier, on another connection
  than the transaction's; it holds without overlap and falls with it, which is the same race
  as `NeverOversold`. A COD checkout holds one pooled connection and asks for a second
  (`orders.service.ts:336`), so that as many checkouts as the pool has connections wait for
  each other; the pool is the driver's.

## 9. Plan

Done: the order core, loyalty, warehouse and their proofs, sums and the refinement
included; the parts of the storefront and the back office that section 3 lists; the proofs
of sessions, payments, tickets, returns (status, receipts, stock, points), tiers, profiles, the
cart, promotions, flash sales, reviews, builds, content, media, roles, products, categories,
specifications and reports.

Next, in this order:

1. A pool of connections as a component of its own, with the COD checkout, the confirmation
   with a coupon and `redeemPoints` as its users.
2. Wishlist, settings and suppliers, for completeness.
