# The Kopdes backend in TLA+

A TLA+ model of `backendKopdes`, the NestJS/Prisma/PostgreSQL backend of a
village-cooperative marketplace (`src/`), with the TLC runs that check it and
the TLAPS proofs about it.

The program has no in-memory state worth the name. It runs as serverless
instances that share one PostgreSQL database at READ COMMITTED, a Redis cache
and two outside parties, Midtrans (payments) and the customers' phones. What
makes it hard is therefore the same everywhere: a handler reads rows, decides,
and writes later, and any other request may commit in between. Every module
splits each handler at exactly the points where the code gives other requests
that chance, and nowhere else.

## The system

| component | state | operations | what makes it hard |
|---|---|---|---|
| wallet (`modules/wallet`) | `Wallet`, `WalletEntry`, `WalletTopUp` | top up, notification, debit, refund, correct, reconcile | repeated and reordered notifications, concurrent postings to one row, crash while crediting |
| order (`modules/order`, `modules/seller`) | `Order`, `OrderItem`, `Invoice` | checkout, status change, cancellation request and decision, receipt | decisions on stale reads, several ways to cancel |
| delivery (`modules/delivery`) | `Delivery`, `DeliveryLocation` | hand over, claim, accept, release, assign, unassign, pick up, deliver, track | staff and courier working on one task |
| payment (`modules/payment`) | `Payment`, `PaymentWebhookEvent` | open a Snap session, notification | a slow call between read and write, event row committed before its effect |
| payout (`modules/payout`) | `UMKMPayout`, `UMKMBankAccount` | request, pay, reject | a balance that is a query, requested twice |
| inventory (`modules/inventory`) | `Product.stock`, `InventoryTransaction` | adjust, count, point-of-sale movement | absolute writes, retries |
| cart (`modules/cart`) | `CartItem` | add, update, remove, clear | reads before writes, the checkout that takes lines out |
| auth (`modules/auth`) | `User`, `RefreshToken`, `CustomerEmailVerification` | register, resend, confirm, log in, refresh, change password, avatar | guesses counted on stale reads, tokens presented twice, mail that fails after its row |
| kopdes-application, membership, umkm | `KopdesApplication`, `Kopdes`, `KopdesMembership`, `UMKM` | apply, approve, reject, found, verify, move | two deciders, decisions on rows that moved |
| staff, permissions | `User` (role, overrides), the guard's kept context | hire, change, dismiss, authorise | a right that was taken away and is still kept |
| address | `Address` | create, update, remove, choose at checkout | "exactly one main address" in separate statements |
| review, chat, community | `Review`, `Conversation`, `ChatMessage`, `CommunitySuggestion` | write, open, answer, support | two taps, a contact that changes with the staff |
| cache | Redis | get, set, delete, delete by pattern | a fill that began before the drop, a drop that was forgotten |
| storage | uploaded files | upload, delete | no transaction with the rows that name them |
| discovery, koperasi, console, seller and staff figures | none of their own | lists, distances, opening hours, sums | pages of two merged tables, clocks seven hours apart |
| content, health, seed, ai | none, or demonstration data | text | see Not modelled |

They interact through the database. `OrderService` debits and refunds the
wallet inside its own transaction; `SellerService` and `OrderService` hand an
order to the couriers inside theirs; the one webhook URL routes a notification
to `PaymentService` or `WalletService`; `PayoutService` reads what orders have
become; checkout takes goods out of stock and lines out of the cart, and the
cancellation paths of orders, and an unpaid bill, put goods back into stock,
while stock-keeping and the point of sale write the same rows. Nearly every
handler that writes then drops answers from Redis that readers have put there,
and every protected call passes the guard, which keeps what it knows of the
caller for a minute.

## Modules

| module | models | about |
|---|---|---|
| `Wallet` | `wallet.service.ts`, `wallet.controller.ts` | transactions as *begun* (what was read before the wallet) and *locked* (`FOR UPDATE` held), then commit, conflict, refusal or crash |
| `WalletLedger` | - | the abstract promise: each event moves its amount once and at once |
| `WalletProofs` | - | proofs about `Wallet` |
| `OrderState` | `schema.prisma`, `order-transitions.ts` | the rows of an order and the jobs in flight, shared by the next three |
| `OrderDesk` | `order.service.ts`, `seller.service.ts`, `courier-handoff.ts` | customers, sellers, staff |
| `CourierTasks` | `courier.service.ts`, `delivery.service.ts` | couriers, and staff who assign them |
| `OrderPayment` | `payment.service.ts`, `payment-status.ts` | Snap sessions and notifications |
| `Marketplace` | - | composes the four and states their properties |
| `MarketplaceProofs` | - | proofs about `Marketplace` |
| `Payout` | `payout.service.ts`, `payout.rules.ts` | withdrawals |
| `Withdrawals` | - | the abstract promise: an account per shop, charged by a request, given back by a rejection |
| `PayoutProofs` | - | proofs about `Payout`, and that it implements `Withdrawals` |
| `ShopState` | `schema.prisma`, `writeMovement` | stock, movement rows, carts, and the requests in flight, shared by the next two |
| `Stock` | `inventory.service.ts`, the stock forms of `product.service.ts` and `seller.service.ts` | stock-keeping and the point of sale |
| `Cart` | `cart.service.ts` | carts |
| `Shop` | `order.service.ts`, `payment.service.ts` | composes the two with checkout and cancellation, item by item, and states their properties |
| `ShopProofs` | - | proofs about `Shop` |
| `Requests` | - | the handlers in flight, shared by all modules below |
| `SignUp`, `Sessions` | `auth.service.ts`, the password forms of `superadmin.service.ts` and `staff-account.service.ts` | registration by e-mail code; login, rotation, change of password by its owner and by staff |
| `KopdesDesk` | `kopdes-application.service.ts` | how cooperatives are founded |
| `Membership` | `membership.service.ts`, `umkm.service.ts` | members and partners of a cooperative |
| `AddressBook` | `address.service.ts`, the address part of `order.service.ts` | addresses and the orders delivered to them |
| `Community` | `community.service.ts` | suggestions and their support |
| `Chat` | `chat.service.ts`, `koperasi.service.ts`, `superadmin.service.ts` | conversations and who answers them |
| `Reviews` | `review.service.ts`, `koperasi.service.ts` | reviews and the average |
| `Media` | `seller.service.ts`, `umkm.service.ts`, `auth.service.ts`, `kopdes-console.service.ts`, `product.service.ts`, `storage` | pictures beside the rows that name them |
| `Offices` | - | composes the nine modules from `SignUp` to `Media` |
| `VillageProofs`, `OfficesProofs` | - | proofs about them, and about `Offices` |
| `ReadCache` | `cache.service.ts` and everybody who uses it | ten kept answers, thirty-six kinds of writers |
| `Rights` | `permissions.guard.ts`, `permissions.ts`, `superadmin.service.ts`, `staff-account.service.ts` | what the guard keeps while accounts change |
| `Market` | `marketplace.service.ts`, `discovery.service.ts` | one list out of two tables |
| `Directory` | `koperasi.service.ts`, `mitra.service.ts`, `geo.util.ts` | lists of shops, near a place or all |
| `OpeningHours` | `opening-hours.util.ts` | the posted week and the answer "open now" |
| `Figures` | `kopdes-console.service.ts`, `seller.service.ts`, `staff.service.ts`, `courier.service.ts` | the sums that different readers see |
| `Catalogue` | - | composes the six modules from `ReadCache` to `Figures` |
| `CatalogueProofs` | - | proofs about `ReadCache`, `Rights`, `Market`, `Directory`, `OpeningHours` and `Figures` in it |
| `SumProofs` | - | lemmas about sums over finite sets, for the two modules above that add up |
| `MC*` | - | small instances for TLC |

### How state and steps correspond to the code

*Jobs.* A request that has read and not yet written is a record in `job[w]`,
`w` one of the `Workers`. `op` names the write that is due, `arg` is what the
request or the read adds (a status, a courier, a session, a view of a payment)
and `seen` is the order row as it was read, kept only where the write uses it.
`...Reads` actions are the part of a handler before its transaction, with every
guard and early return of it; the action without the suffix is the transaction,
one atomic step because its first write locks the row it goes on to write, and
nothing it reads after that is used before. Two transactions are not one step:
`post()` of the wallet, which reads before it locks, and `applyStatus`, which
reads, locks the payment, then reads the order and only then locks it.

The transactions of `Shop` are not one step either: checkout reads a product
and writes its new stock item by item, and other transactions may commit in
between. A job carries the rows it has inserted (`written`), and `CommitRows`
makes them and the stock they name visible.

*Locks.* A row lock that outlives a step is explicit: `lock` in `Wallet` and
`Payout`, `PaymentFree` in `OrderState` (a notification between its update of
the payment and its commit), `RowFree` in `ShopState` (a product in the
`written` rows of another job). In `Shop` two transactions can wait for each
other; `DeadlockVictim` is PostgreSQL ending one.

*Order of movements.* `at` is `createdAt`, which the database client sets when
a row is inserted, after the update that locked its product; the model takes
the clocks of the instances to agree. A row that is rolled back leaves a gap.

*Crashes.* `Crash` loses a request at any point; the open transaction rolls
back, what an earlier one committed stays. It also stands for a transaction
that times out or that PostgreSQL ends because of a deadlock (checkout locks
stock before the wallet, cancellation the other way round).

*Midtrans* is external: `Emit` adds a notification to `sent`, where it stays,
so it can be delivered late, in any order and any number of times. A session is
paid or expires, not both; money is returned only after it was paid. In
`OrderPayment` a session is one Midtrans transaction; in `Wallet` a top-up may
see several attempts.

*Histories.* `been`, `took` and `restored` (orders), `peak` and `closed`
(payouts), `acked` and `threw` (wallet) record what happened for the
properties; no guard reads them except the bound on `restored`. In `Shop`,
`newest`, `booked` and `edited` keep of the committed rows what the properties
need: the last of each product, how many name a receipt, and which stock was
set without a row; only the unique receipt number is read back.

*Order data.* In the order modules, money, items and stock counts are abstracted
to "was debited / refunded" and "the goods of this order were put back n times".
QRIS and the other online methods of the enum behave as `MIDTRANS`. `Shop` has
the items and the counts and leaves out statuses and money: which order may be
cancelled is for `Marketplace`, and a debit the wallet refuses is a `Crash`. A
product of the cooperative and one of a UMKM shop differ in whether they can be
in `PreOrder`; an inactive product is an order that fails. A direct order that
names one product twice is not covered.

*Scenes.* The nine parts of `Offices` share the server instances and none of the
rows their properties are about, and so do the six of `Catalogue`. A behaviour
picks one part (`scene`) and shows it at work; the product of all of them would
show nothing more. Where parts do share rows they are one module: the members
and the partners of a cooperative, the address and the order that refers to it,
the staff and its conversations.

*Requests.* In these modules `job[w]` is again what the handler on instance `w`
has read and does next. None of them takes a row lock before it reads, so each
`...Reads` action carries the checks and the next action the write, by id or
under the unique key or condition the schema or the statement has; a unique key
that is taken ends the request. Mail and storage calls are steps of their own
and may fail, or be done and still be reported as failed.

*Answers.* Of a kept answer `ReadCache` remembers up to which change it is true
(`upTo`) and whether its reader had asked the database before a later drop
(`late`). A writer either drops the answer (`fate` goes from "pending" to
"told", or to "lost" when Redis fails, which the code logs and forgets), or
never does ("silent"), or drops it under the keys of its own partner, order or buyer
while the rows it wrote are shown under other keys too ("elsewhere"). What an answer
`shows` and a writer `sets` is named by the rows and, where only some columns
matter, by those: of a cooperative the name and the pictures, of a partner the
profile and the status, of a user the name and the phone. What an answer counts by
the clock grows old with the time, which is not a change of a row. `Rights` does the
same for the context that the guard keeps.

*Pure code.* `Market`, `Directory`, `OpeningHours` and `Figures` have an
action per request: it draws the rows, computes the answer as the code does and
keeps both for the properties, which compare with a definition of their own. Rows
that compare equal may come in any order. A list is computed from one snapshot, though
the code asks several queries. Places lie on one meridian, where the
haversine formula is the distance in degrees times the radius; a calendar year
begins on a Thursday; hours, not minutes, are counted.

## Runs

| run | module | result | what it shows |
|---|---|---|---|
| `wallet_safety` | `MCWallet` | holds | `LedgerChains`, `PostedOnce`, `StatusMatchesLedger`, `CreditedOnlyWhenSettled`; `KeepsItsPromise`: the wallet implements `WalletLedger`; `SettledIsCredited` (liveness) |
| `order_desk` | `MCMarketplace` | holds | `NoStageSkipped`, `CancelledGoodsReturn`, `WalletMoneyReturns`, `DeliveredGoodsWereTaken`; `RestingStaysFinal`: a final order that nobody has yet to decide on, carry or write stays final |
| `order_payment` | `MCMarketplace` | holds | `PaidOrderNotWaiting`, `EndedStaysEnded` |
| `order_final` | `MCMarketplace` | violated | a final order moves again |
| `courier_carrier` | `MCMarketplace` | violated | goods travel with a courier the delivery does not name |
| `payment_bills` | `MCMarketplace` | violated | two taps on "pay" make two bills |
| `payment_recorded` | `MCMarketplace` | violated | a recorded notification was never processed |
| `shop` | `MCShop` | holds | `TypeOK` (no stock below zero), `HistoryEndsAtStock`, `ReceiptBookedOnce`, `OnlyOrderedLeaves` |
| `payout` | `MCPayout` | holds | `OneOpenRequest`, `NeverOverdrawn`, `ClosedOnce`; `WithdrawsAtOnce`: payouts implement `Withdrawals` |
| `offices` | `Offices` | holds | thirteen properties, below |
| `catalogue` | `MCCatalogue` | holds | six properties, below |
| `nearby_box` | `MCCatalogue` | violated | the box that preselects shops is smaller than the circle it should contain |

| property of `offices` | what it says |
|---|---|
| `AttemptsBounded` | concurrent guesses exceed the limit by less than the number of instances |
| `AccountKept` | no registration changes an account that exists |
| `RotatedOnce` | a refresh token buys one new token |
| `SessionsFollowPassword` | a session from before its owner last changed the password is of a request that was under way then |
| `FoundedOnce` | a contact has one cooperative, and one more per deleted account |
| `ApprovedStands` | an approved application has its own cooperative |
| `MembersStay` | only a request that read the row before the decision undoes a membership |
| `VerifiedAtHome` | a partner is activated by its own cooperative or by someone who belongs to none |
| `OneMainAddress`, `OrdersKeepAddress` | never two main addresses by changes one after the other; an order's address stays |
| `SupportFollowsTaps` | support is the parity of the successful taps |
| `ThreadsFollowStaff` | product and page bring a customer to one account per role, while nobody changes role or cooperative |
| `PicturesStored` | no profile names a deleted picture, no product has two first ones, but for what the comment exempts |

| property of `catalogue` | what it says |
|---|---|
| `CacheFollows` | a kept answer is behind only for the five reasons it lists |
| `CacheCatchesUp` | (liveness) it is right again, or gone, in the end |
| `RightsFollowAccount` | the guard's context agrees with the account, but for an edit under way, lost, or overtaken |
| `PageIsSlice` | a page of a list is that piece of the whole list, and its total the whole's size |
| `OpenAsPosted` | "open now" is the posted hours in the village's time |
| `FiguresAddUp` | the sums that console, partner, staff and courier see fit together; lists and dashboards differ by the removed products alone |

The violated properties are sentences of the code's own comments and messages;
PROJECT.json quotes each with its line under `findings`.

Each property of a run that holds has a mutation test: an operator
`<Name>_Mutant` next to the definition it would replace, changed the way a
plausible bug changes it (no `FOR UPDATE`, no unique index, status for
paymentStatus, goods forgotten). With it the property fails, so the property
depends on that line of the code. The specifications never use the mutants.

Deadlock is not checked, except in `shop`: customers owe the system nothing,
and with every bounded counter used up it may simply stop.

### Bounds, and why they suffice

* *Two workers.* Every hazard found is a pair: one request's read, another's
  commit, the first one's write. Row locks and unique keys exclude pairs too.
  The proofs have no bound on workers.
* *One order* (`Marketplace`): no handler reads or writes two orders' rows
  (`OneOrderPerStep` is that, proved).
  *One shop* (`Payout`): the same. The wallet has two users, a top-up, an order
  and a correction, so that locks of different rows and keys of different events meet.
* *Two Snap sessions* (`Sessions`) for one order: a bill and the one that
  replaces it. Three payout requests: one answered, one open, one more.
* `MaxRestores = 2`: a third way to put goods back would need a third
  concurrent cancellation; the bound disables steps beyond it and no property
  speaks about a count above zero. `MaxCrashes` is 1 or 2, `MaxAdjustments` 1.
* `wallet_safety` takes every report Midtrans sends, in any order and number. Couriers, payment methods and target statuses are restricted
  in each run to what its question needs, as its `.cfg` shows.
* `Shop` has two products, so that items lock rows in either order, one customer
  and one order: two customers' carts never meet, only their movements do, and
  two workers already run those. Three movement rows (`MaxMoves`) let an order
  of two items race or follow another movement; two cart lines (`MaxLines`) let
  a line be made again while a checkout holds the old one. Adjustments, counts,
  edits and direct orders are one example each, as the module shows.
* `Offices` has one person where rows belong to one person, two where they meet
  (supporters, reviewers, villages a partner moves between). Its counters (codes,
  tokens, applications, addresses, staff, pictures) let each race happen once and
  be repaired or repeated once. A password is written twice after the first
  (`MaxChanges`): by staff and by the owner, in either order. Two staff accounts
  (`MaxStaff`) are two of one role, or an admin and an employee. One of the two
  pictures of a profile is the `Logo` that the location form writes too.
* `Catalogue`: one kept answer at a time, because keys share nothing, of all ten, with two changes
  by any of its writers; pages of one and two out of three rows, so that a page is the first, a middle or
  the last piece; every hour of a week for schedules that are closed, by day, past midnight, all
  day and unreadable; two orders around both midnights and the end of a month; two
  products, each on offer or removed, with any stock around its own limit.
* Symmetry is over workers, sessions and payout ids, which no operator
  distinguishes; only in runs without liveness.

### Fairness

Two runs assume any. `wallet_safety`: a started transaction goes on (`WF` of
`Post(w)`): the instance runs it to its end or crashes. Midtrans redelivers
what was not answered with 200 (`SF` of `Deliver(n)`), which the comment of
`midtrans-webhook.controller.ts` states; it is strong because delivery needs a
free worker again and again. `catalogue`: Redis removes a value whose time to
live is over (`WF` of `Expires`); requests owe nothing. That every answer is
stored with a time to live is the code's part of it (`Value`), and what the mutant takes
away. Customers, staff and crashes owe nothing.

## What is proved

`WalletProofs` shows, for any finite or infinite sets of users, top-ups, orders
and workers, any amounts and no bound on crashes or corrections:

* `WalletTyping`: `TypeOK`, which no run has to repeat.
* `LedgersChain`: entries chain, balances equal the last entry and are never
  negative.
* `EventsPostedOnce`: nothing is booked twice.
* `StatusesMatchLedger`: statuses and ledger agree.
* `CreditsAreSettled`: no credit before settlement.
* `WalletKeepsItsPromise`: `Wallet` implements `WalletLedger`.

The assumptions are those `Wallet` declares: every reference has an owner and a
positive amount, corrections are not zero, `Nobody` is neither worker nor
reference.

None of these is inductive alone. The chain of a ledger survives a commit only
because the balance a worker read is still the balance, which holds because it
has the row lock: `LockHeld` says that the wallet row of a worker that has
locked it carries `lock = w`, that the balance it read (`base`) is still the
balance, and that what it is about to book leaves none below zero. `PostedOnce` survives
because a commit needs a free key and because a job carries the owner of its
reference: `JobMatchesEvent`. Statuses match because the caller's update is in
the same step as the entry. `IInv` is the conjunction of these with the
properties; `Init => IInv` and `IInv /\ [Next]_vars => IInv'` are proved action
by action, and the theorems follow. For the refinement, a commit of a job maps
to the booking of its event, every other step to a stutter; the guard
`amount + balance >= 0` of the ledger is `LedgerChains` after the step.

`MarketplaceProofs` shows, for any sets of orders, workers, couriers, sessions,
reports and staff targets, and no bound on crashes, notifications or times
an order is placed and its bill reopened:

* `RowsTyping`: `TypeOK`, which no run has to repeat.
* `StagesInOrder`: `NoStageSkipped`.
* `GoodsReturn`, `MoneyReturns`: `CancelledGoodsReturn`, `WalletMoneyReturns`.
* `GoodsTaken`: `DeliveredGoodsWereTaken`.
* `PaidMeansNotWaiting`: `PaidOrderNotWaiting`.
* `EndedForGood`: the action property `EndedStaysEnded`.
* `OneOrderPerStep`: a step writes the rows and moves the requests of at most one order.
* `RestIsForGood`, `CarriersStay`, `BillsStay`, `RecordedMeansProcessed`: how far the
  four sentences hold that the runs find violated; below.

Its assumptions are those `OrderState` declares: `Nobody` is no courier, "none"
no session, methods and fulfilments are those of the schema, and `MaxRestores` is a
natural number (an action that would put goods back more often is cut off; for
every bound the theorems hold).

Handlers of an order hold no lock between what they read and what they write, so
these need to know what a stale read is still worth. `Grows` lists what no step
takes back: the statuses an order has had, its refund, its delivery's
existence, that somebody took the goods, that it is not (or no longer) paid from
the wallet, that it no longer waits for payment. `Rely` says, per kind of job,
which of those facts its write needs: a move to READY_FOR_DELIVERY that the
order has been PROCESSING, a cancellation that a wallet order was seen paid or is
refunded, a delivery that the goods were taken, a webhook transaction that the order it
saw PENDING is not a wallet order. `RelyGrows` carries `Rely` over every step;
`RowInv` is how the rows of one order fit together. With the rule that two
sessions being opened differ they make up `IInv`, shown inductive in `NextIInv` with one
lemma per writing action and one per group of reading ones.

Four runs show what the code says and does not keep. What it does keep is proved:

| sentence | holds as long as | property, theorem |
|---|---|---|
| `FinalIsFinal` | `AtRest`: no cancellation waits for an answer, no delivery is open, and no request under way that writes the order has read it before | `RestingStaysFinal`, `RestIsForGood` |
| `CarrierIsOnRecord` | `Carried`: the courier on record has the goods, and no request that accepts, releases, assigns or picks up is under way | `CarrierStays`, `CarriersStay` |
| `OneLiveBill` | `OnlyBill`: the bill is saved, and no other is being opened | `BillStays`, `BillsStay` |
| `RecordedIsProcessed` | no request was lost, and notifications with one key say the same of the bill (`OneMeaning`) | `RecordedUnlessLost`, `RecordedMeansProcessed` |

The first three say of a state that it lasts, so the condition has to include every
reader that is still to write, and the theorem says that no later reader can join them:
it would find the order final, the goods taken, the bill alive. The conditions on the order are
not about races: `decideCancellation` looks at no status, so a request left
unanswered cancels a completed order, and `markCourierDelivered` writes DELIVERED over
a cancelled one whose delivery was left open. The proofs go order by order, a step being either
elsewhere (`Untouched`) or on this order (`StepOn`), which `OneOrderPerStep` comes
from too. The fourth needs an invariant of its own, `Mail`: notifications are of sessions that
were issued to their order, records are of notifications that came, and when one
that reports the current bill paid is recorded, the payment no longer waits or a
request under way is about to write it (`Answered`). `RestingStaysFinal` is a property of `order_desk`; the other three
are proved only.

`ShopProofs` shows, for any sets of products, customers, orders, receipts and
workers and any bounds on stock, lines and movements:

* `ShopTyping`: `TypeOK`; no stock below zero.
* `HistoryTellsStock`: `HistoryEndsAtStock`.
* `ReceiptOnce`: `ReceiptBookedOnce`.
* `OtherLinesStay`: the action property `OnlyOrderedLeaves`.

A history ends at the stock because whoever has inserted a row holds its
product: no two open transactions have written one product, none of them has
written it twice, and what is open is younger than what is committed
(`OpenPart`, `Fits`). A receipt is booked once because of its unique number,
which an open row holds too. The assumptions are those `ShopState` declares: requests name
products and amounts within the bounds, and a direct order names a product once.

`OfficesProofs` shows every property of the run `offices`, for any sets of
addresses, users, people, villages and instances and any bounds:
`MistypedCodesBounded`, `RegistrationOverwritesNothing`, `TokenBuysOne`,
`PasswordEndsSessions`, `OneCooperativePerAccount`, `ApprovalHasItsCooperative`,
`MembersLeaveBehindOnly`, `PartnersVerifiedAtHome`, `AddressesOfOrdersStay`,
`MainAddressAlone`, `TapsAreCounted`, `OneThreadPerRole` and
`ShownPicturesAreStored`. Each part has its inductive invariant, proved in
`VillageProofs` or `OfficesProofs`; the latter adds
that a part that is not at work stands in its initial state. Again nobody holds
a lock, so each invariant says what an earlier read is still worth:

* `MissesCounted`: recorded misses and misses under way fit under the limit
  together; `TokensNumbered`: a spent token's id is never stored again.
* `Named`, `KopdesJobs`, `FoundedCounted`: an application with a cooperative
  names one founded for its contact, a directly founded one waits for its
  application alone, and there are as many as there were accounts.
* `MemberJobs`: a decision under way on an active member's row was overtaken;
  a verification is of the cooperative the partner had, unless it moved, or by
  someone who belongs to none.
* `AddressRows`, `ViewExact`: a row that is being deleted has no order; a change
  that is alone knows the main address.
* `CommunityInv`, `ChatInv`: support rows are numbered, so the row a tap has read is
  there or gone for good; what product and page bring together is a customer and the first of a role.
* `OwnPictures`, `ShownPictures`: what a request has uploaded, or is to
  delete, no row names. `OnePrimary`: an update that saw no first picture is alone.

The assumptions: bounds are natural numbers, instances are finitely many where
they are counted, and `None` is no contact.

`PayoutProofs` shows, for any finite set of payouts, any shops, sales and staff, and
every percentage of the fee:

* `PayoutTyping`: `TypeOK`, which no run has to repeat.
* `OneRequestAtATime`: `OneOpenRequest`.
* `NothingOverdrawn`: `NeverOverdrawn`.
* `AnsweredForGood`: `ClosedOnce`.
* `PayoutsWithdrawAtOnce`: `Payout` implements `Withdrawals`.

`request()` locks the shop's row, counts the orders in one statement, adds up the payouts
in another and inserts in a third, while orders change and staff answers. The invariant
`PayoutInv` says what those reads are worth: a job past the lock holds it; what was counted
is at most the peak; if nothing was found open, nothing is, and open and paid
together are at most what was added up, because only `request()` adds to either and the
answers only move a payout from open to paid or to nothing. The balance is a
sum over a set. The folds of the library have no rule the provers can use, so `SumProofs`
shows that a sum exists and is unique, by well-founded induction over strict inclusion
of subsets, and from that how it splits over a union and changes with one element, and
that it keeps bounds which hold element by element.

`Withdrawals` has no locks, reads or sums: each shop has an account, its share of what
orders earned at the most and what it has drawn of it. A request that commits in `Payout`
is its `Ask`: that nothing is open and that the account holds the amount are `SumsStand`
and `WithinShare`, of the state in which it commits and not of those it read. An answer is
`Answer`: the sum of the shop loses exactly the rejected amount, no other sum changes
(`OneLessTaken`, `SameTaken`). Completed and undone orders are `Earn`, whatever else
happens is a stutter.

`CatalogueProofs` shows, for any number of instances, changes and cooperatives, any
posted weeks, any orders and goods, any hour, any rows and any page of them:

* `KeptAnswersFollow`: `CacheFollows`.
* `KeptRightsFollow`: `RightsFollowAccount`.
* `CardsAsPosted`: `OpenAsPosted`.
* `FiguresFit`: `FiguresAddUp`.
* `PagesAreSlices`: `PageIsSlice`.
* `BoxOnlyMissesRim`: `BoxMissesOnlyTheRim`. `nearby_box` shows that the box loses shops
  of the circle; for every radius they are among the last two thousandths of it.

A value is as old as the read behind it, and between that read and the set() a drop may come
and go. So the invariants (`CacheInv`, `RightsInv`) are about values under way as well: what
is in a fill, or is kept, is late, or every change since its read is excused.
`SilentKnown` goes through all writers and answers: a writer that changes what an answer
shows, and does not drop it, is in `Silent`; `SilentToOthersKnown` does the same for the
keys of others.

An answer about opening hours or figures is a function of rows and clock, so its
invariant (`HoursInv`, `FiguresInv`) says just that, and the work is in the
functions: that the two ways of asking for the day of the village agree,
past midnight too; that the periods of the console adjoin, so that
a week is the sum of its seven days and nothing is counted twice; that rounding the fee
order by order differs from rounding once by at most half a unit per order; that what is
low, sold out and in stock make up the list, and what the dashboards leave out of it
is what was removed. The assumptions are those the modules
declare: posted hours are of the kinds the schema has, hours of the clock and of orders
are natural numbers, amounts and counts too, and there are finitely many orders and
goods.

A list is an answer too (`MarketInv`, `DirectoryInv`), and again the work is in the
functions. An order of rows is a key, a number for each row, so that a lemma can speak of
any order. A `Listing` names no row twice; filtering, sorting and putting two tables
together keep that, and what is sorted is the same rows in order (`KeptIs`, `SortedIs`,
`ConcatIs`). They are defined by positions in their turn (`InTurn`): if of any two places
one is before the other and everything before a place is before whatever comes after it,
there is exactly one k-th place (`InTurnIs`), which needs no recursion over the sequence.
`SliceIs` is the heart: a page cut from a part of the rows is the page of all of them, if
whatever is missing comes after at least as many rows as the pages so far have shown;
`MergeSlice` says that the first `page * limit` rows of either table are such a part when
no filter follows. A list of shops with a place is in the order `Ahead`, where a shop
without coordinates is farther than anything on earth. The assumptions (of `Market` and
`Directory`) are the kinds of the columns, pages and limits from one on, which
`PaginationDto` demands, finitely many products, numbers of rows that differ, and places at
most half way round the earth.

Only model-checked: liveness (`SettledIsCredited`, `CacheCatchesUp`), which the
prover does not reach.

## Not modelled

Static pages, the liveness probe, demonstration data, the language-model and
vector-search code, start-up checks and the database client keep no state that handlers race on. Of
profiles and products the fields that no property tells apart are left out, so are invoices, the
listings of orders and movements, conversations with a partner, audit rows and wording.
The seeding endpoint writes demonstration rows past every handler and drops no answer. Password
hashing, token signing, signatures and amounts of notifications are taken
to work (a notification that fails those checks changes nothing). Who may act on an
order is the guard's matter: `Rights` models it, the other modules
take the acting staff, seller or courier to be in charge. `deleteHard`, `updateStock` and
`checkStockAvailability` of the product service have no caller. The reconciliation
report of the wallet only reads, in two queries; a posting between them makes it report a
difference.

Worth knowing although no property states it:

* Goods of an order may be put back twice (two cancellations on stale reads;
  there is no key for stock as there is for the refund), and `create` may
  overwrite a payment that was marked paid while Midtrans was being asked, which
  `EndedStaysEnded` exempts as a new bill.
* Checkout, adjustment, stock-taking and receipts write a stock computed before
  the row was locked. Of two that run together one is lost from the stock,
  though both have a movement row, and two orders can take one last item.
  `HistoryEndsAtStock` is what is left: the history ends at the stock, but its
  quantities need not add up to it.
* A pre-order leaves a stock of 0 and its cancellation adds the whole quantity.
* Checkout takes out the lines it read by id. A line whose quantity was raised
  meanwhile goes whole, and two checkouts of one cart order its lines twice.
* A movement commits after its `createdAt`. The cursor of `liveFeed` is a clock
  reading and may already be past it: the owner never sees that movement.
* `findByExternalRef` computes `previousStock` as if every movement were OUT,
  and answers a receipt number used for another product as a duplicate.
* An application that was read as pending can be rejected after another
  administrator approved it; its cooperative stays.
* `deleteStaff` leaves a cooperative without an administrator.
* A mail that fails restores the earlier challenge, with its earlier count of
  misses, over whatever another request has stored meanwhile.
* Two changes of the address book at once each clear the main address they saw
  and set their own; two updates of a product may both add a first picture.
* Many writers never drop an answer that shows what they changed: `Silent` in
  `ReadCache` lists the pairs. Among them are all changes of a cooperative's
  profile and pictures, of a customer's name, phone and addresses, reviews, what
  couriers report, and a partner that applies again. `payment.service.ts` drops
  keys nobody uses.
* An order also changes the stock that other buyers' orders and carts show, and a
  partner's decision the figures of another partner in the same order; their keys are
  not dropped (`SilentToOthers`).
* `updateStaff` and `StaffAccountService.update` write a password and end no session:
  whoever holds a token of that account stays logged in. `SessionsFollowPassword`
  therefore speaks of the password an owner sets, and counts the sessions from before
  it whoever wrote the password in between.
* `changePassword` deletes the sessions before it writes the password, in one
  transaction. A session issued between the two statements was not there to be
  deleted and stays; the property counts its request as under way.
* Who belongs to no cooperative (the super administrator, staff without one) verifies
  and moves any partner: `assertInScope` returns at once. `VerifiedAtHome` says what
  is left for everyone else.
* `updateStaff` may move an admin between cooperatives. One who is older than the
  admins there becomes the contact, and a second conversation opens; so it does
  with a changed role. `POST /chat/conversations` opens one with any account the
  caller names. `ThreadsFollowStaff` stops at the first and leaves out the second.
* `updateLocation` of a partner stores the `photoUrl` of its form without a look. A form
  opened before the partner replaced the logo names a file that was deleted;
  `PicturesStored` stops at a form that names a picture the row does not show.
* A removed product (`isActive` false) is still in the console's product list and its
  counts of safe, low and out; the dashboard and the staff's page leave it out.
  So the lists may show more low products than the dashboard does: exactly the removed ones.
* The partner's and the staff's figures begin a day at the server's midnight,
  the console's and the courier's at the village's. The staff's finances count
  whole orders, goods of partners included.
* The small hours of a day that is open past midnight are looked up under the
  next day, which `OpenAsPosted` exempts unless both have the same hours.

## Plan

Done: wallet, orders, payments, deliveries, payouts, stock and carts; the parts
of `Offices`; what is read (`Catalogue`); the proofs listed above.

Left, in this order:

1. Runs for the lost sale and the live feed, with the sentences of the code they concern.
2. Conversations with partners, and invoices with their numbers.
