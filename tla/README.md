# A TLA+ model of the REKI backend

REKI is a NestJS backend: customers look for venues in a city, claim and redeem
offers; business users publish offers and report how busy their venue is; a
WebSocket gateway pushes changes; a phone that was offline replays its actions.
State is in PostgreSQL behind TypeORM, except the WebSocket rooms and viewer
counts, the push dedupe cache and the circuit breakers, which are in the memory
of the process.

## What makes it hard

Every handler is an `async` function without a transaction or a lock. Between
two `await`s any other request may run. Nearly all writes are
*find, change in memory, save*, and TypeORM's `save(entity)` is itself two
statements: a SELECT, then an UPDATE of each column in which the entity in
memory differs from what the SELECT returned, whether this request changed it or
someone else did since the find. So the models have one action per database
statement, the synchronous code after a statement is part of its action, and a
request slot keeps what the handler keeps in local variables.

## Inventory

| Component (`src/src/modules/...`) | State | Operations that change it | What makes it correct | Model |
|---|---|---|---|---|
| offers | tables `offers`, `redemptions` | claim, redeem, click; business toggle, update, delete; queued toggle | a voucher is issued once, redeemed only by its owner, never un-redeemed; the count covers what is redeemed; duplicates and double counts only by overlap | `Offers`, `Voucher`; the click in `Accounts` |
| venue analytics | `venue_analytics`, a row per venue and day | find-add-save from offers, users, sync, venues | never more shown than happened; exact without overlap | `VenueAnalytics`, as a part of `Offers` and `Accounts` |
| offer rules, countdown | none (reads `offers`, the clock) | `isOfferAvailableNow`, `getOfferStatus`, the interval that pushes countdowns | opens and closes on schedule; what is announced opens; the end is pushed | `OfferRules` |
| sessions (auth) | `refresh_tokens` | login, rotation, logout, change of password | only a request under way carries a session over a change of password; one valid token per login | `Sessions` |
| users, account deletion | `users` and the tables that refer to it | profile, preferences, saved venues, password, verification, location, state upload; the six statements of `deleteAccount` | a request's column is undone only inside a known window; a deleted account does not come back, and leaves no row with a foreign key to it | `Accounts` |
| busyness, vibes | `busyness`, `vibes` | owner's status update, demo clock and reset, vibe check, queued updates | the last write wins; vibe checks are counted; the live feed shows what the owner stored | `StatusSync` |
| sync | `sync_actions` and the rows of others; the phone's queue and copies | upload of an offline queue, delta pulls, state upload | a repeated upload applies nothing twice; what a pull missed the next one brings | `StatusSync`, `OfferPull`, `Accounts` (saves, views, state), `Offers` (toggles) |
| push, devices, cron, notifications | dedupe cache, `devices`, `notification_preferences` | alerts, weekly recap, registration of phones, preferences | one push per key and window; opt-outs and quiet hours; only to the customer's phones | `Push` |
| business, venues | `venues`, `busyness`, `vibes` | create, update, remove, set status; the paged list | a removed venue comes back only by a stale copy or by what a body names; every page together is the list | `Catalogue`; offers in `Offers`, the status in `StatusSync`, its alerts in `Push` |
| start-up, seed | all tables | servers that start on one database, the eleven saves of the seed | seeded once; a server that listens has the whole catalogue | `Seeding`, part of `Catalogue` |
| geofence | `geofence_logs`, `notifications` | location check | limit per hour, cooldown per venue | `Geofence` |
| live gateway | three maps in memory, socket.io rooms | connect, join, leave, disconnect | the number shown is the audience | `LiveGateway` |
| retry, circuit breaker (`common/utils`) | circuit objects in memory | `withRetry` | opens after failures in a row, recovers | `CircuitBreaker`, `Breaker` |
| demo | all tables | scenarios, clock, reset | its writes beside running requests | its writes of busyness and vibes in `StatusSync` |
| admin, audit, tags, upload, email | | reads, single inserts, calls of services | nothing is shared between two steps | no |
| guards, filters, interceptors, configuration, migrations | | | functions of one request; wiring; the keys, defaults and foreign keys of the migrations are used by the models | no |

The components meet in the database, not in calls: offers, users, sync and
venues all write `venue_analytics`; business and sync both write `offers`;
business, demo, vibes and sync all write `busyness` and `vibes`; every module
inserts rows that refer to `users`. Calls that matter are those of business into
push (alerts to the customers who saved a venue) and into the gateway (the
broadcast of a new status), of the weekly job into push, and of the countdown
into the gateway.

## Modules

| Module | Role |
|---|---|
| `VenueAnalytics` | the counters of one venue and day, and `incrementAnalytic` as find, SELECT and INSERT/UPDATE per worker; a part of two systems |
| `Offers` | claim and redeem requests, business edits, crashes and the clock; EXTENDS `VenueAnalytics`, whose workers are its consumer requests |
| `Voucher` | the abstract life of a voucher, which `Offers` implements |
| `OfferPull` | a phone that keeps offers up to date from `Offers`, which it EXTENDS |
| `OfferRules` | the two functions that judge an offer and the countdown check, over minutes and weekdays |
| `Sessions` | refresh tokens of one account |
| `Accounts` | one customer's row, the requests that edit it, its deletion; EXTENDS `VenueAnalytics`, whose workers are its requests |
| `StatusSync` | the status of one venue, its writers, an offline phone and the live feed |
| `Push` | batches of pushes over preferences, devices and the dedupe cache |
| `Seeding` | servers that start, seed and end on one database |
| `Catalogue` | the venues that the seed and the owners fill in and a visitor pages through; EXTENDS `Seeding` |
| `Geofence` | location checks of one user |
| `LiveGateway` | sockets, maps and rooms |
| `CircuitBreaker` | overlapping calls of `withRetry` over circuit objects |
| `Breaker` | what a single caller of `withRetry` is promised |
| `MC...` | values of constants and symmetry for TLC |
| `...Proofs` | theorems about the module of that name. `LiveProofs` is about `LiveGateway` and `OfferRules`, `LimitsProofs` about `CircuitBreaker` and `Geofence`, `CatalogueProofs` about `Seeding` and `Catalogue` |

### How they correspond to the code

* **Offers.** A consumer slot `req[c]` is one HTTP request: `pc` is the await it
  stands at, the other fields are its local variables. `ClaimStart`,
  `ClaimFindActive`, `ClaimInsert` are the three statements of
  `OffersController.claim`; `RedeemStart` .. `RedeemSaveUpdate` are those of
  `redeem` and `redeemOffer` in order: offer, voucher, re-read, the atomic
  increment of `redemptionCount`, `incrementAnalytic` (three statements), and
  the two of `save(redemption)`. `Fail` ends a request of a slot in `Faulty`
  anywhere. An editor slot `edit[e]` holds the entity a toggle, delete or update
  read. `isOfferAvailableNow` is reduced to active, expiry and cap; the schedule
  is in `OfferRules`, and here a request may be refused at any time anyhow.
  `counted` and `deleted` are history.
* **VenueAnalytics.** `rows` is the table, `job[w]` a worker's
  `incrementAnalytic`. There is no unique key on venue and day, so an INSERT
  takes any free row and `findOne` any stored one. The columns `totalSaves`,
  `totalViews`, `offerClicks` are raised in `Accounts`, `redemptions` in `Offers`.
* **OfferRules.** A minute is the unit, as in `HH:MM` strings. `Minute` lets
  up to `MaxGap` minutes pass between two runs of `checkOfferCountdowns`, which
  the interval's drift and its query make possible. `Toggle` and `Redeem` change
  what the rules read.
* **Sessions.** A token string is modelled by its second of issue: the JWT's
  payload is the account and `iat`. `Login` is the `findOne` of the user, `Sign`
  the comparison of the password and the signing that follows it; `Refresh`/`Logout`
  find a row, `RevokeSelect` and `RevokeUpdate` are the save, `InsertToken` stores
  the new token; `RevokeAll` is the single UPDATE of `changePassword`. History:
  a row's `begun` is the number of changes before its *login* found the user, handed
  on by every refresh, a request's `late` says that a change revoked while it was
  under way, and `carried` are the sessions such requests inserted a token for.
* **Geofence.** `CheckGeofence` is the venue query, the distance filter (any
  set of up to `MaxNear` venues) and the one count of the log;
  `CheckCooldown`, `Notify`, `WriteLog` are an iteration of the loop.
* **LiveGateway.** Handlers have no `await`, so each is one action.
  `room` is socket.io's own book-keeping, `shown` what the clients were last
  sent. Messages of one server to one socket arrive in order.
* **CircuitBreaker.** `heap` holds the circuit objects, because a call keeps a
  reference: before an entry exists each call has an object of its own. Failures
  count up to the threshold and ages up to the reset time; the code compares them
  with nothing larger.

* **Accounts.** A value of a column is the number of the request that chose it.
  `Find` is `findOne` with what the handler makes of the entity (`Edits` names
  the handlers one by one), `SaveSelect`, `SaveUpdate` and `SaveInsert` are `save()`,
  which inserts when its SELECT finds nothing. `UpdateLocation` is the one
  edit without a find. `CountSave` goes on to `incrementAnalytic`;
  `TrackView` and `TrackClick` only count. `DeleteChildren` is one of the five
  `DELETE`s, `DeleteUser` the `remove`, which the foreign keys refuse while a
  table that does not cascade has a row; both schemas the code is run with
  (migrations, or synchronised entities) are initial states. `InsertChild` is any
  request that inserts a row with the customer's id; the tables in `Loose`
  (`geofence_logs`, `sync_actions`) have no foreign key, so it may do that when the
  user is gone, and no `DELETE` reaches them.
* **StatusSync.** A job is a request with a list of rows to change, each by
  `FindRow`, `SaveSelect`, `SaveUpdate` or `SaveInsert`. A queued action is
  compared with `lastUpdated` in `FindRow` and written to `sync_actions` in
  `RecordAction`. The UPDATE stamps the row unless the stamp is one of the columns
  the entity in memory differs in. `Broadcast` stands for the alerts, the activity
  log and the broadcast at the end of `updateVenueStatus`. The demo's clock and
  reset are the step of their loop for this venue. `GiveUp` is a lost or late answer.
  The order of the demo's and owner's statements is that of `Both`; the queued update
  of one table names it.
* **Push.** `NotifySavedUsers` and `HandleWeeklyRecap` start a batch; for one
  customer it is `ReadPrefs` (with `CreatePrefs` for a first row), the synchronous
  test of quiet hours and cache in `Decide`, `FindDevices`, then
  `SendToDevice` once per device and the mark at the end. `Update...` and `Register...`
  are the two requests of a phone. `NotStored` is the `catch` of `updatePreferences`:
  any statement of its save may fail, and the request is answered all the same.
  `told` is what was answered, `unkept` the customers whose row is something else.
  `Crash` empties the cache.
* **Seeding, Catalogue.** `SeedOrder` are the saves of the seed in order, one
  action each; a save that hits a stored e-mail address ends the server, because
  nothing catches it. `Fill` gives the rows of venues and busyness those saves. An
  owner's request is create (three inserts) or verify, find and save. Nothing
  validates the body of an update, so `FindToUpdate` may assign any owner, and the id of
  any venue or of none, beside the details; the save is of the venue with
  that id, and `SaveInsert` is the one that finds no such row. `removed` and
  `named` are history.
  `CountList` and `ReadPage` are the two queries of `findAll`.
* **OfferPull.** `Pull` is `getOffersSyncSince` with the phone's merge.

Operators named after a slip (`CountForgotten`, `SkipActiveClaim`, ...) stand
before the definition they vary; replacing it must break a property, and none is
used in a specification.

## Runs

All passing runs check every state of the instance.

| Run | Shows | Bounds, and why they suffice |
|---|---|---|
| `offers_redeem` | two requests, one of which may fail at any statement: `CountCoversRedeemed`, `DuplicatesBounded`, and the refinement `VoucherLifecycle` | 2 requests, 2 customers, 3 vouchers: the races are between pairs of requests; a second customer makes ownership matter; a third voucher can exceed the bound on duplicates |
| `offers_edit` | a business edit beside two requests and the clock: `DeletedKeepsExpiry`, `CountNotInvented`, at most one double count per request in flight, and a counted voucher is marked redeemed (`RedeemCompletes`, under fairness) | 2 requests on 1 voucher, 1 edit at a time, 2 instants, caps 0 and 1 |
| `rules` | schedule, status, countdown, `UpcomingOpens` under fairness | a day of 40 minutes is longer than the 30 of the first push; 2 weekdays give a day on which the offer is not valid; windows inside a day, overnight, to the last minute, to midnight, open-ended; a server that starts has announced no end (`settled` is FALSE at first) |
| `sessions` | `OnlyLateSurvive`, `OneTokenPerSession`, `RevokedIsFinal` | 2 requests, 3 rows, 3 seconds with a lifetime of 1, 1 change of password: one request can overlap the change, and go on being refreshed after it |
| `accounts` | `StaleOnlyIfExposed`, `ErasedForGood`, `NeverOverReports`, `ExactWithoutOverlap` | 2 workers, so an edit beside an edit, a count or a deletion; 2 edits, 2 views or clicks, 1 venue, 2 rows of the day (the race that makes two); tokens arrive, the table that in the synchronised schema does not cascade, and queued actions, a table without a foreign key |
| `sync` | `AppliedOnce`, `OldNeverReplacesNew`, `NextPullBrings`, `ChecksCounted`, `FeedShowsOwner` | a staff request, a visitor and an upload, each in a slot of its own, may overlap; 2 uploads of 1 queued action (the retry), 1 pull, 2 instants (equal and older stamps) |
| `push` | `OncePerWindow`, `OptOutRespected`, `PushReachesOwner` | 2 batches, 2 customers and 1 token, so that it can change hands; 2 events (a change of preferences and a crash, say); a day of 3 instants, quiet hours past its end, a window of 1 |
| `catalogue` | `SeededOnce`, `ServesWhole`, `RemovedForGood`, `PagesCover` | 2 servers that may start together, 1 end; 2 owner's requests; a seeded and a new venue, so that an update can name the other, on pages of 1, so that an order and a page limit matter; 1 percentage, which a filter finds, unlike a venue without a row |
| `geofence` | `CooldownUnlessRaced`, `HourBounded` | 2 checks, 3 venues, 2 in reach, an hour of 1 tick and a cooldown of 2, 1 failure, new checks find venues while there are fewer than 3 notices |
| `live` | `ViewersAreTheRoom`, `CountIsCurrent`, `MapsAgree` | 3 sockets of 2 users, 2 venues |
| `breaker` | `OpenIsEarned`, and `Recovers` under fairness | 2 callers, 2 attempts, threshold 2, reset time 2 |
| `offers_pull` | counterexample to `OfferPullBrings`: an offer created, pulled, then edited | |

Bounds that belong to the model and not to the code: `MaxNow`, `Horizon`, `CountBound`,
`FieldBound`, `MaxLost`, `MaxNotices`, `MaxGap`, `MaxChanges`, `MaxRequests`,
`MaxViews`, `Arriving`, `MaxStatus`, `MaxChecks`, `MaxQueued`, `MaxUploads`,
`MaxPulls`, `MaxBatches`, `MaxEvents`, `MaxCopies`, `MaxEnds`, and the finite sets
of rows, tokens and vouchers. Deadlock is not checked where a bound ends the
behaviour: `live` (sockets are not used again), `accounts`, `sync`, `push` and
`sessions` (no requests left).

Symmetry is used in `accounts`, `catalogue`, `geofence` and `push`, over
interchangeable slots, for safety properties only.

**Fairness.** `offers_edit` assumes weak fairness of the steps of a
request that has begun (Node resumes a handler when its statement has
answered), never of the arrival of requests, and no failure. `rules` assumes that
time passes and the interval goes on firing. `breaker` assumes that time passes,
that a promise with a timeout settles, and that callers go on calling; from some
moment the service answers, which is the premise of `Recovers`.

## Proofs

Every invariant and every action property that a passing run checks is also a
theorem: the run shows it on a small instance, tlapm for every value of the constants that
satisfies the module's named assumption. These say that numbers are numbers
(limits, lifetimes and bounds), that there are finitely many slots, rows and venues where
something counts them, that the null values lie outside the tables' types, and

* in `Offers`, that `Workers` are the `Consumers`, who have a column to count in;
* in `StatusSync`, that staff, visitors and uploads have slots of their own (they are
  requests of different routes) and that there are finitely many visitors;
* in `Catalogue`, that the seed is a finite list of venues, none of them a new one;
* in `Geofence` and `CircuitBreaker`, that the limits, windows and thresholds are positive.

A theorem that needs more says so in its statement; these are marked below.

| Module | Theorem | Argument |
|---|---|---|
| `OffersProofs` | `TypeCorrect` | invariant `TypeOK` with `JobRowStored` (a save in progress is of a stored row) and `HoldsOwnVoucher` (a request past the refusals holds an issued voucher of its own customer) |
| | `OwnerRedeems` (stated by the theorem only) | from `HoldsOwnVoucher`: the owner was checked five statements earlier, and no statement changes `user` |
| | `VouchersKeepPromise` (`VoucherLifecycle`) | every step is an Issue, a Redeem or a stutter of `Voucher`. Needs `PendingSave`: a column that the SELECT of a save left out of the UPDATE already holds the redeemed value |
| | `CountIsComplete` (`CountCoversRedeemed`) | the count is at least the number of vouchers redeemed *or about to be* (`CountInv`). **Assumes** `Editors = {}`; with an edit the claim is false (a toggle writes back the count it read) |
| | `DuplicatesNeedRequests` (`DuplicatesBounded`) | `IssueInv`: a customer's active vouchers of an offer, with the requests about to insert one, are at most the slots for requests. A request joins those about to insert only when it found no active claim, and then nothing but such requests counts |
| | `CountedOncePerRequest` (`DoubleRedeemBounded`) | `OnceInv`: while a voucher is not recorded as redeemed, each time it was counted is a request still on its way to the save, and with the requests past the check and before the increment these are at most the slots; afterwards nobody passes the check. **Assumes** `Faulty = {}`: a request that fails after the increment leaves its count behind, and the voucher can be tried again |
| | `CountsAreReal` (`CountNotInvented`) | `TallyInv`: not only the stored count but the count in the memory of each edit is at most the times the offer's vouchers were counted, which only grow. Both are numbers of members of one set of pairs, so that no induction over a sum is needed |
| | `DeletedStaysExpired` (`DeletedKeepsExpiry`) | `CopyInv`: the entity an edit holds agrees with the row on `expiresAt`, or is the deletion's own, with an expiry that has passed. **Assumes** one edit at a time; with two, a toggle restores the expiry it read |
| `SessionsProofs` | `SessionsTyped`, `ChangeEndsSessions` (`OnlyLateSurvive`), `RevocationIsFinal` (`RevokedIsFinal`) | invariant `TypeOK`, `HeldRowStored` (a save holds a stored row), `InsertersOnly` (only a login or a refresh inserts) and `InFlight`: a request that will insert a token for a session begun before the last change is late, or its session is carried already |
| | `LoginHasOneToken` (`OneTokenPerSession`) | `SessionInv`: while no two refreshes of a login overlapped, one refresh at most is under way for it (`OneRefresher`), the only valid row it may leave is the one that refresh holds, and none is left when it inserts the next (`OneLeft`) |
| `LiveProofs` | `GatewayTyped`, `ViewersAreReached`, `ViewersSeeTheCount`, `ConnectionsAgree` | the four invariants of the run are inductive together: a broadcast reaches those who are counted only because the room and the map agree |
| | `ExpiryIsAnnounced` (`EndIsPushed`) | `Ended`: between the end of a window and its push no check has run, so that the gap between checks is longer than the time since the end. **Assumes** `MaxGap <= 2`: the code has a second chance for one missed minute only |
| | `ClaimableIsShown` (`StatusAgrees`), `ScheduleIsKept` (`OpensAndClosesOnSchedule`) | hold of the two functions for every offer and time; the second by cases over the window: inside a day, overnight, open-ended |
| `LimitsProofs` | `BreakerTyped`, `RefusalIsEarned` (`OpenIsEarned`) | each write of a circuit object keeps `isOpen` and `failures` together |
| | `OneCallerKeepsPromise` | **assumes** one caller at a time (`NoOverlap`): a step maps to a step or a stutter of `Breaker`; `SoloInv`: a call holds the object in the map and it is not open |
| | `CooldownIsKept` (`CooldownUnlessRaced`) | `GeofenceInv`: only a check that is at its log has a notice without one, and one that (`InHand`); a check about to notify found the cooldown over since its last notice of the venue (`Cooled`) |
| | `HourIsLimited` (`HourBounded`) | `HourInv`: the notices of any hour, with what the checks in flight may still send, are within the budget of those checks. A notice goes out of the check's own remainder, so the sum does not move with it |
| `CatalogueProofs` | `NothingSeededTwice` (`SeededOnce`) | at most one server is past the save of the administrator, whose unique e-mail address nothing removes; the save that server is about to do has no copy yet |
| | `ListensOnWhole` (`ServesWhole`) | `WholeInv`: a seeding has stored all that its order puts before the save it is at (`Behind`), a server that listens has venues behind it (`UpHasVenues`), and once there are venues either a seeding is under way, it came to its end, or it was cut (`EndsWhole`) |
| | `CatalogueSeeds` | every step of the catalogue is one of `Seeding` or leaves its variables, so what is proved of `Seeding` holds in it too |
| | `RemovalIsFinal` (`RemovedForGood`) | the requests keep it by what they hold: a removal writes no owner, and a copy of a removed venue whose body names no owner was found after the removal and has none (`RemovedStay`). The history ends with an update that names an owner or that venue. The seed keeps it because its saves of venues and owners happen once, and removals of seeded venues count only after the second (`VenuesBefore`, `RemovedLater`) |
| | `PagesShowAll` (`PagesCover`) | `PagesSoFar`: while the list stands still, what was shown are the venues ranked before the next page, each once, and the total read first is the length of the list, so the last page is where the ranks end. The list is finite because the seed is and each request adds one venue |
| `AccountsProofs` | `StaleOnlyThroughTheWindow` (`StaleOnlyIfExposed`) | until a column is exposed, a request before its SELECT holds the freshest value of every column it is not about (`HeldFresh`), so the columns its UPDATE writes are its own or exposed ones (`DirtyOwn`) |
| | `DeletionIsFinal` (`ErasedForGood`) | of the row and of those with a foreign key to it, the five tables in `Referring`: after such a deletion no request is left before its SELECT or INSERT (`NothingHeld`), and none can begin, since `findOne` and the foreign keys need the row. Nothing of the kind can be said of `Loose` |
| | `NothingMadeUp` (`NeverOverReports`) | `ReachInv`: what the rows show, what saves in progress may still write, and the entities not yet inserted are together within what was asked. A save in progress counts as if it were written, so a row is worth the most of its present value and of the entities held of it |
| | `ViewsExactAlone` (`ExactWithoutOverlap`) | `SoleInv`: as long as nothing overlapped, there is one row and one update at most, which holds all there was |
| `PushProofs` | `NobodyIsDisturbed` (`OptOutRespected`) | the stored preferences are those that were answered, or either is expected, except of customers a save was refused or failed for (`AsAnswered`), because a request that holds a row holds its other columns as stored (`Unchanged`); the comparison of `HH:MM` strings agrees with going round the clock (`QuietIsCyclic`) |
| | `PhonesOfTheCustomer` (`PushReachesOwner`) | `Phones`: a batch holds stored phones only, and only while it sends |
| | `NoRepeats` (`OncePerWindow`) | the cache knows of a key's last push until its window has passed (`MarkedWhenSent`), and past the cache a batch is alone with its key (`OneSender`) |
| `StatusSyncProofs` | `StatusTyped`, `LastWriteWins` (`OldNeverReplacesNew`) | while no write of the row overlapped, the entity in hand is the stored row with the change made to it (`HeldFresh`), and the row's stamp is the time of its last write (`Stamped`) |
| | `PullsMissNothing` (`NextPullBrings`) | `Pulled`: of a pull in progress, the tables whose last write its answer will not bring are those noted as written since its query, or as overlapped |
| | `RetriesAreConflicts` (`AppliedOnce`) | `Tracked`: while an applied action is still queued or uploaded, its row was last written later than the action; with `Stamped`, so is its stamp, and the comparison of `FindRow` refuses it |
| | `NoCheckIsLost` (`ChecksCounted`) | `Counted`: the row and each entity in memory show at most the checks begun, less those still being made; the row shows exactly these while nothing overlapped. Visitors are finitely many |
| | `FeedIsTheOwners` (`FeedShowsOwner`) | `FeedInv`: while owners do not overlap there is one such request, and past its save of busyness the value it is about to broadcast is the stored one; without it the feed shows the stored one |

The values of columns are arbitrary in `AccountsProofs` (`AnyRow`), so that its first two
theorems do not depend on how many requests there are.

Only model-checked are the liveness properties `RedeemCompletes`, `UpcomingOpens` and
`Recovers`: fairness speaks of ENABLED, which is out of the prover's reach. So are the
counterexample `offers_pull` and what TLC checks of `MC...` modules, the values of constants.

## Disagreements with the documents

The first is a run, listed as a finding. The others were met while writing the models;
they are the reason why a property has the exception it has.

Offers
* A pull of offers selects by `createdAt`, so a phone never learns that an offer it
  holds was switched off or edited (`offers_pull`), although
  `docs/week-10-offline-persistence.md:87` promises "only changed offers".
* A voucher can be redeemed and counted twice by overlapping requests; the bound that
  does hold is `DoubleRedeemBounded`.
* A business toggle writes back an old `redemptionCount`: `CountCoversRedeemed` needs
  an instance without edits, `CountNotInvented` does not.
* Two claims of one customer that overlap both succeed, although the
  documents promise the existing claim: `DuplicatesBounded`.
* Redeeming never looks at `redemptionCount`, so vouchers claimed while there was
  room are redeemed beyond `maxRedemptions`.
* A toggle that read an offer before its deletion was saved restores the
  old `expiresAt`: `DeletedKeepsExpiry` holds for one edit at a time only.
* `getOfferStatus` says upcoming, or (for an offer without a limit) expired,
  of offers that can be claimed: the two exceptions of `StatusAgrees`.
* `OFFER_EXPIRED` is pushed in the last minute in which an offer can be claimed, and
  the pushes at 30 and 15 minutes are lost when the check misses the minute; only
  the push of the end has a second chance: `EndIsPushed`.

Accounts and sessions
* A login or refresh that found its user or token before the revoke statement of
  `changePassword` inserts a valid token after it, and that session goes on being
  refreshed, although `auth.controller.ts:137` says "all sessions
  invalidated". `OnlyLateSurvive` is what does hold.
* `deleteAccount` deletes from five tables and cascades through the foreign keys. The
  rows of `geofence_logs` and `sync_actions` have the customer's id without a foreign
  key and stay, and a token that is still valid can upload more;
  `users.controller.ts:166` calls the deletion "GDPR — permanent".
* A save that found the user before the deletion inserts the row again: the
  exception of `ErasedForGood`.
* `changePassword` revokes the refresh tokens of the account, `resetPassword` leaves
  them valid.
* Two refresh tokens signed in one second are one string in two rows; a
  logout revokes one of the rows.

Status and sync
* An upload is refused as a conflict "updated by another team member"
  (`docs/week-10-offline-persistence.md:123`) also when what changed the row was the
  phone's own earlier action, or a customer's vibe check.
* A write between the query of a pull and its `lastSync` reaches the phone with no
  later pull: `missed` in `NextPullBrings`. The delta pull of notifications selects by
  `createdAt`, so that `isRead` set elsewhere is never pulled.
* The average of vibe checks goes on from the rounded old average, and comes to a
  standstill when many checks were made.
* An owner's status update between the inserts of `createVenue` takes the place of
  its row, and `createVenue` fails half-way.

Push and preferences
* `updatePreferences` swallows whatever its save throws (`devices.service.ts:107-112`),
  not only the foreign key its comment speaks of, and answers with preferences that
  were not stored. A push the customer opted out of is then sent:
  the exception `unkept` of `OptOutRespected`.
* The weekly recap reads `preferences.notifications.weeklyRecap` (`cron.service.ts:39`),
  a key that `savePreferences` drops with every save; the preference of the devices
  module, which the push itself respects, does work.

Venues and demo
* A removal ("Venue removed from account", `business.controller.ts:247`) is undone by an
  update that was verified before it: with the `businessUserId`
  of its stale copy, or with one from its body, which `Object.assign` copies
  unvalidated (`business.service.ts:349`, `dto: any` at `business.controller.ts:229`). An
  `id` in the body makes it a save of another venue, removed ones and those of other
  owners included. `RemovedForGood` excepts these.
* Venues without a busyness row come first in the list by busyness and among
  the trending ones ("Top 5 by busyness", `docs/week-3-user-integration.md:503`),
  because PostgreSQL sorts nulls first; the sort by distance
  (`docs/week-8-location-maps.md:388`) is within a page, and `distanceMiles || 999`
  puts a venue 0.0 miles away last.
* The demo's evening calls 50 to 69 % moderate, while the filter counts 67 % as packed.
* A server that ends after the seed stored the administrator and before it stored the
  venues makes every later start fail on the administrator's e-mail address; one
  that ends after the venues hides what is missing: `cut` in `ServesWhole`.

Geofence, breaker, gateway
* One location check sends more than 3 notifications; two overlapping ones also break
  the cooldown, hence `CooldownUnlessRaced`.
* Overlapping first failures of `withRetry` count once, and the half-open
  call is retried like any other: `OneCallerKeepsPromise` is about one caller.
* The viewer count counts sockets, not users.

## Not modelled

* An update's body that lists rows of other tables (offers, busyness, vibes), which
  the relations of `Venue` would tie to the venue; in `Catalogue` a body names columns.
  An owner that is not stored is refused by the foreign key, a `RequestFails`.
* The rows of `vibes` in `Catalogue`, and the filter by vibe; their writers are in `StatusSync`.
* Reads that change nothing (search, dashboards, statistics, map, trending, admin
  pages), the wallet pass and uploads (files and external services), e-mail texts,
  validation of DTOs, guards, filters and interceptors.
* Registration and login of businesses: tokens without a row. Guest and social login
  of customers, which insert a `users` row and go on as a login.
* `NOTIFICATION_READ` and marking as read: one UPDATE of a flag, with nothing read
  before.
* The clearing of tables by the demo's reset, and its scenarios of offers: a tool for
  an idle system, beside which no property of `Offers` would be left.
* `updateLevel` and `updateVibe`, which nothing calls; the schedule of vibes, which is
  only read.
* Running the migrations. The unique keys, defaults and foreign keys they
  declare are in the models that depend on them.

## Plan

The safety properties of all runs are proved. What would add to them, in this order:

1. `OfferPull`: what a pull that selected by `updatedAt` would promise, beside the
   counterexample for `createdAt`.
2. `Geofence` and `Push` against one abstract limiter: both count recent notices of a log
   or cache before they send.
3. The parts that are left out, should they come to hold state between two statements.
