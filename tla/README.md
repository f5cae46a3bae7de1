# Verification of the freelance marketplace

TLA+ models of the backend of the marketplace (`src/backend`, a NestJS application over
PostgreSQL through Prisma) and of the stateful parts of its web client (`src/frontend`), TLC
configurations that check them on small instances, and proofs, checked by TLAPS, of what matters
most for every value of the constants: any number of requests, proposals, tabs, rows and days.

A client publishes a project; freelancers pay points to propose; the client deposits the price
of one proposal in escrow and accepts it; the freelancer works; the client confirms completion
and the escrow pays out, or one of them opens a dispute that an admin settles. Everything is
served by concurrent HTTP requests against one database at PostgreSQL's default READ COMMITTED
level, a payment gateway that is called inside transactions and calls back through webhooks, and
fire-and-forget side effects. **The hard part is the same everywhere: a handler reads, checks,
and writes later, and what it read may be stale by then.** Which checks survive that, and because
of what (a conditional update, a unique key, a row lock, or luck), is what this project
establishes.

## 1. Inventory

| Component | State | Operations | Interacts with | What makes it correct |
| --- | --- | --- | --- | --- |
| Project listing and completion (`projects/`, `admin/admin-projects.service.ts`) | `Project.status`, `acceptedProposalId`, `completionRequestedAt`; `FreelancerProfile.completedProjects` | create, publish, close, cancel, delete a draft, request and confirm completion, admin close | rejects proposals; releases the escrow; credits the freelancer | the status follows the documented machine; a job is credited once, after its payout |
| Proposals (`proposals/`) | `Proposal.status` | submit, reject, withdraw, accept | charges points; requires a funded escrow; moves the project | one accepted proposal per project, the one the project points to; no request that begins after a hire undoes it |
| Escrow and disputes (`escrow/`) | `Escrow.status`, `EscrowDispute.status`, `EscrowTransaction` rows | prepare, fund, fund and accept, release, open and resolve a dispute, complete a funding after a webhook | payments, proposals, projects, commission | nobody is hired without a deposit for his own proposal; the ledger shows each deposit once and each settlement once |
| Payments (`payments/`) | `Payment`, one row per idempotency key | initiate, capture inside a transaction, webhooks, refund | the external gateway; escrow | one charge per escrow; no deposit without a capture |
| Points wallet (`nuqati/`) | `PointsWallet`, `PointsTransaction`, `PointsTaskCompletion`, `PointsStreakState`, `PointsPurchase` | register, log in, share, one-time rewards, purchase, charge and reward a submission | called by auth, profiles, portfolio, projects, proposals | the balance is the ledger; each reward once per period; streaks count real days |
| Commission and accruals (`commercial/`) | commission policies and overrides, `InvestorAccrual` | resolve the rate, split the amount, accrue | called by the release of an escrow | the rate last decided for the date; the split loses no money; accruals stay under the cap |
| Commercial administration (`admin/admin-finance.service.ts`) | policies, overrides, investment agreements | schedule, set, clear, end, create, terminate | read by commission | one rate, one agreement in force at a time |
| Payouts, statements, broadcasts (`admin/admin-ops.service.ts`) | `InvestorPayout`, `InvestorStatement`, `NotificationBroadcast` | create, approve, pay, cancel; finalise; send with or without a key | accruals | PAID is final; calls with one key notify a user once |
| Authentication and sessions (`auth/`, `admin/admin-users.service.ts`, `realtime/`) | `RefreshToken`, `PasswordResetToken`, `User.status`, sockets | log in, refresh, log out, reset, suspend, ban, revoke | messaging's sockets, the wallet | rotation never multiplies sessions; revocation ends them |
| Messaging (`messaging/`) | `Conversation`, members, `Message` | open, send, mark read, join a room | project and proposal status | one conversation per proposal; only its two members write |
| Reviews and rating cache (`reviews/`, `admin/admin-reviews.service.ts`) | `Review`, `averageRating` | submit, hide, show | completed projects | one review per side; the cache is the average of the visible reviews |
| Notifications (`notifications/`) | `Notification` rows with `isRead` | merge a message's notification while it is unread, read one, read all | messaging, broadcasts | who has an unread message has one unread notification of it |
| Platform settings (`platform/`) | `PlatformSetting`, a copy with a time-to-live in every instance | patch a switch, decide by it | sign-up, publishing, proposing | every instance comes to decide by the stored value |
| Profiles, portfolio, storage (`profiles/`, `portfolio/`, `storage/`) | photo, `PortfolioImage`, files on disk | upload, remove an image, an item, replace a photo | served by the static route | no row points to a deleted file |
| Web client (`src/frontend`) | the refresh cookie, a tab's user and access token, a form's draft, an open chat panel | bootstrap, log in, log out, reload; save, publish, edit; join, list, receive | the API and the socket | tabs agree with the cookie; one visit makes one listing; a live panel shows every message once |
| Catalogue, dashboard and audit, bootstrap and health | rows of their own | edits, reads, start-up | - | nothing in the protocol above depends on them |

How they meet: `submit` inserts the proposal and charges the wallet in one transaction;
`fundAndAccept` captures the payment, funds the escrow and accepts the proposal in one;
`complete` moves the project, credits the freelancer and releases the escrow in one, and rewards
the first job after it; a webhook records the payment in one statement and completes the funding
in a later transaction. Preparing an escrow fixes its fee and payout at the commission in force;
releasing it shares that fee with the investor whose agreement is active that day. The status of
the proposal and of the project decides who may write in their conversation; a message becomes an
event to the sockets in the room and a notification; a suspension deletes refresh tokens and
disconnects sockets, and each later socket event reads the account's status again.

The hazards this creates are listed in `PROJECT.json`, each at its line, with the properties that
watch it.

## 2. Modules

    MarketStore            rows of one engagement, locks, requests
      PaymentService         Payment row, gateway, webhooks
        EscrowService          escrow, acceptance, disputes
          ProjectService         listing, completion
          ProposalService        submit, reject, withdraw, accept
            Marketplace            composition, properties, inductive invariant
              EngagementPages        the calls that the web pages offer on the rows they load
                MarketplaceClaims      what documents and tests say and races break
                  MCMarketplace          symmetry, for TLC
              EngagementProofs       types, the inductive invariant, safety, the first refinement
                SettlementProofs       charges, deposits and the ledger; one request at a time,
                                       the pages, the claims, the second refinement
    EngagementPromise      what Marketplace implements under every interleaving: fund, hire, credit
    EscrowPromise          what it implements while requests take turns: a deposit and its end
    PointsWallet           one freelancer's points
      MCPointsWallet         the configured points and small caps, for TLC
      PointsWalletProofs     rewards, the streak, the first job, the balance

    CommissionSplit        the arithmetic of a rate: rounding, minimum, maximum
      CommissionRates        platform policies, category and project overrides, their resolution
        InvestorLedger         agreements, accruals, payouts, statements
          Commercial             composition, properties
            MCCommercial           rates, amounts and workloads, for TLC
              CommercialClaims       what a comment says and the code does not keep
            CommercialProofs       rates, splits, agreements, statements, types
    RatePromise            the abstract specification the policies implement

    CommunityStore         calls in flight, workloads, crashes
      AccountSessions        refresh tokens, moderation, password reset, sockets
        BrowserSession         the cookie and the tabs of one browser
      ListingForms           the pages that create and edit a listing, against bids and a hire
      Conversations          eligibility, messages, notifications, rate limits
        ChatPanel              the open panel of a participant
      RatingCache            reviews and the cached average
      PlatformSettings       the switches and their copies in every instance
      Broadcasts             broadcasts, their keys and their batches
      Uploads                images of a portfolio item, the photo, their files
        Community              composition, fairness, properties
          MCCommunity            the workloads, for TLC
          CommunityFrame         which call may touch which part
            AccountProofs          sessions and the browser; types of the accounts
              CommunityProofs        listings, conversation, rating, broadcast, uploads; types of the rest

    FiniteSums             lemmas about sums over finite sets (wallet, commission, limiters)

### How a handler becomes actions

The engagement modules model one project with everything that hangs on it: engagements do not
share rows. A request occupies a slot of `Requests` and is a small process (`req[r]`: operation, program
counter, the proposal it is about, and the escrow status its transaction has read).

* **Begin...** is the part of the handler before its transaction: its reads and the checks on
  them. These reads are one step. The exceptions are `complete`, whose dispute check
  (`assertNoActiveDispute`) is a step of its own, and `initiate` and the webhook, which have no
  transaction around them.
* **Commit...** is the transaction. Where it reads a row and writes it later, or calls the gateway
  before it commits, it is split there, and the rows it has written or inserted meanwhile are in
  `lock`, so that nobody else writes them. A unique key that is being inserted is a lock as well.
* A condition in an `updateMany` is a guard on the *current* row in the commit step. An `update` by
  id has no such guard: it overwrites.
* **Abort** ends a request at any point with nothing committed: a check that throws inside the
  transaction, a timeout, a deadlock victim, a crash. What the gateway did stays done. A gateway answer
  `failed` inside a transaction throws, so it is an Abort.
* The gateway captures, declines or redirects (`ProviderOutcomes`); an event in `events` is never
  removed, so it may be delivered any number of times, late and in any order. `CaptureRedirect`
  shows a subtle case: the handler writes PROCESSING and throws, the write is rolled back, and the
  checkout stays open.
* Two history variables say what properties need to know of the past: `early`, the requests that overlap a hire, and `stranded`,
  the captures that were rolled back with their transaction.
* A deleted project is `ABSENT`, and its row takes everything else with it (`ON DELETE CASCADE`).

`Init` is a draft that was just created. Authorisation (who may call what) and validation of texts
and amounts are left out: every guard on a *status* is kept. The escrow's amounts are not modelled,
the ledger counts rows of each type.

`PointsWallet` has the same shape for one freelancer. `credit()` reads the wallet and writes an
absolute balance; outside a transaction it is three statements (`ReadWallet`, `WriteWallet`,
`PostTransaction`) with a possible `Crash` after each. `lock` is the wallet's row, held by a
submission from its first debit until it commits. `ensureWallet` is an upsert with an empty
update; whether that locks the row depends on the SQL that Prisma generates, so it is modelled as a
plain read, which allows every behaviour of both. `applied`, the set of days with a submission,
is a history variable for `StreakIsRun`. A completion is a confirmation of one of the freelancer's projects: `BeginConfirm` finds it under way,
`ConfirmJob` is the transaction that completes and counts it, `ConfirmAgain` the one that finds it completed meanwhile and goes on all
the same, and `CountJobs` reads the count that decides the reward.

### The commercial modules

They model the tables of one deployment: the versions of the platform's policy, of one category's
policy, of each project's override, the agreements of one investor, payouts and monthly statements.
A day (`now`) is what the code's date comparisons see. A call that reads outside its transaction
is a slot with its reads in it (`PLATFORM`, `CATEGORY`, `AGREEMENT`, `SETTLE`, ...): `Begin...`
reads, `Commit...` writes what it decided then. What the database itself refuses is a guard of the
commit: the unique `previousPolicyId` of a version, the conditional status of a payout. Money is in
cents and percentages in hundredths of a percent; `CommissionSplit` rounds half up as `Decimal` does. The
transaction that settles an escrow reads the sum of its accruals and adds one, so it is two steps.

### The community modules

Each part is small and they share nothing but the process that serves them, so one behaviour runs
one **workload**: the operations it serves, the pairs of operations that do not overlap in it
(`apart`), and whether a process may die (`crashes`). A call is a slot of `Requests` with a program
counter; each statement or transaction of its handler is one `Step`; `Die` cuts a call short with what it has
committed. Properties that hold only while two operations take turns name that condition
(`Apart(...)`), so the same run shows that they hold there and that every other property holds
where they overlap.

* `AccountSessions`: a refresh token is its id and the number of revocations that preceded it
  (`epoch`, a history value). `refresh` deletes the row it was given and fails if it was already gone,
  before it inserts the next. A socket's handshake is checked before it joins its room.
* `BrowserSession`: the answers of the server set or clear one cookie, in the order of arrival; each
  tab has its own access token and user. `LEAVE` is a tab that is closed or reloaded while it waits.
* `ListingForms`: the page keeps the id of the project that it has created, so that a repeated
  attempt goes on with it; `update()` counts pending proposals before it writes by id.
* `Conversations`: eligibility is read before the message is stored. A rate limiter is a fixed
  window that begins with its first event.
* `ChatPanel`: `arrivals` are the events of the room, the acknowledgements of what the panel sent over its socket and
  the answers to what it sent over HTTP after a refusal; they and the reply of the list reach the panel in any order. The list replaces
  the view, an answer is added to it without a look, and the rest unless its message is there. Whether a
  message of the panel's participant was sent from this panel is a free choice (`MayBeOwn`), and so is how many sends it has in flight.
* `PlatformSettings`: a read of the row fills the copy of the instance when it comes back, which may be after a
  change has been announced; `Expire` is the end of a copy's time-to-live.
* `Broadcasts`: calls with any key or none; the row with its unique key, then batches of `createMany`. The
  admin page makes a key for every press of its button, or none, so a second press is another broadcast.
* `Uploads`: `images` and `photo` are rows, `files` the disk; rows and files change in separate steps.

## 3. What the runs check

| Run | Instance | Question and answer |
| --- | --- | --- |
| `sequential_lifecycle` | 1 request at a time, 2 proposals, every endpoint, captures succeed, fail or redirect | Do the statuses of project, proposals, escrow, dispute and ledger agree at every point of an engagement's life? Yes (`EngagementCoherent`). Do the buttons of the web pages and the checks of the services agree, and can the deposit of a hire always be settled from a page? Yes, but for two buttons that the service refuses (`PagesServe`). Is a deposit made once and settled once, whatever webhooks arrive? Yes (the refinement `KeepsEscrowPromise`). |
| `engagement_races` | 2 requests, 2 proposals, every endpoint but `initiate` and the webhook | What survives every interleaving? One hire, against a deposit for his proposal, credited once (`OneAccepted`, `HiredOnDeposit`, `CompletedOnce`); it is undone by no request that begins after it, though requests that were being served do undo it (`HireIsFinal`); one fee and one payout while undisputed (`UndisputedLedger`); until something is refunded, one charge per escrow but for captures that were rolled back (`ChargedByOne`); the refinement `KeepsPromise`. |
| `payment_webhooks` | 2 requests, separately initiated payments, redirects, 2 gateway calls of each kind | Are late, repeated and reordered webhooks booked once, and never without a capture? Yes (`DepositBookedOnce`, `BackedByCharge`). |
| `unlisted_transition` | 2 requests | *Violated* (`ListedTransitions`): of two requests that both passed their status check, the slower one reopens a cancelled project. The same pattern in `close`, `cancel` and the admin's close overwrites IN_PROGRESS, and a stale delete removes a published project. |
| `admin_close_proposals` | 1 request | *Violated* (`ClosingRejectsPending`): the admin's close leaves pending proposals pending. |
| `stale_withdraw` | 2 requests | *Violated* (`AcceptedNotWithdrawn`): a withdrawal overwrites ACCEPTED. |
| `stale_release` | 2 requests | *Violated* (`DisputeBlocksCompletion`): a completion that read FUNDED pays out an escrow that was disputed meanwhile. |
| `wallet_sequential` | 1 call at a time, every call, 4 days, months of 3 | Is the balance the ledger, and never negative; is the first job rewarded? Yes (`BalanceIsLedger`, `FirstJobRewarded`). |
| `wallet_races` | 2 requests, logins, submissions, confirmations of one project, crashes, 3 days, months of 2 | Which rewards are given once however calls overlap? The month's application and each streak milestone (`ApplyRewardedOnce`: the wallet's lock, taken by the charge that precedes them); the streak is the run of days (`StreakIsRun`). |
| `commercial` | 2 requests, 9 workloads | Is one rate in force, and does it follow the accepted decisions, each at once or on its day, through every overlap of changes (`OneActivePolicy`, `KeepsRatePromise`)? Does an escrow get it, split to the cent (`ResolvesDecision`, `SplitFair`)? Do accruals respect caps, terminations, and one agreement a day (`AccrualsAllowed`)? Is a finished month's statement final (`StatementComplete`)? Yes, each under the overlap that its definition names. Do rows and sums keep their types and bounds (`TypeOK`)? |
| `pending_reschedule` | 2 requests | *Violated* (`SchedulingReplacesPending`): scheduling a commission while another is scheduled fails on the unique key instead of replacing the pending one. |
| `community` | 2 requests, 1 socket, 2 tabs, 25 workloads | Sessions: rotation never multiplies them, a revocation is for good, an inactive account's socket closes with its next event, tabs and cookie agree (`SessionsNotMultiplied`, `RevokedForGood`, `InactiveEventCloses`, `SessionSurvives`). Listings: terms hold under proposals, one visit makes one (`TermsHeld`, `OneListing`). Conversation: closes, announces, limits, is shown once (`ClosedConversationStops`, `UnreadAnnounced`, `RateKept`, `ShownOnce`). Caches heal and settings are enforced (`CacheHeals`, `EventuallyEnforced`). A broadcast reaches everybody, and calls with one key notify once (`BroadcastReaches`, `NotifiedOnce`). Files outlive their rows (`RowsHaveFiles`). Do calls, rows and counters keep their types and bounds (`TypeOK`)? |

The bounds. Two proposals are enough for every conflict, which is between the one that is hired
and another; two concurrent requests show every pairwise race, and the theorems cover any number
of both. `MaxProviderCalls` (captures, refunds and open checkouts, each) is 2, one more than a correct
run needs. The wallet's caps and milestones are scaled down (milestones after 2 and 3 days, a
login cap of 2, a share cap of 1) so that a few days reach them; its points are the configured ones
in `wallet_sequential`, and zero in `wallet_races`, whose properties count rewards and where a zero
cost means that no submission is ever refused. `MaxDay`, `MaxProposals`, `MaxPurchases` and `MaxJobs` bound the rest.
Requests, and proposals, are interchangeable, hence the symmetry sets.

The commercial instance has two platform terms (10%, and 25% with a minimum of 16 and a maximum of
18 cents) and amounts of 15, 20 and 87 cents: percentages that end in half a cent, a minimum
above the amount, a maximum below the percentage. Three versions on days 0 to 2 let a scheduled row
meet an earlier and a later one; the other workloads need two versions and two days, and a month of
one day lets statements be made after their month. A cap of 1 is reached by the first accrual.

The community instance has three tokens, one reset and two revocations (a session before, between and
after them); two messages and limits of two events in a window of two instants over six (a burst
on both sides of a window's end); an audience of three in batches of two (a full and a partial
batch), two keys and two rows (one key again, another, none); two reviews, two instances, two changes of a switch; one image at most and three files (an upload that is
refused by the limit, one that replaces). Each workload serves the operations that share rows, two calls at a time.

`CHECK_DEADLOCK FALSE` everywhere: an engagement that is over, a freelancer whose bounded days
have passed, and a server that nobody calls really stop.

Fairness. `Community` assumes that the event loop serves every call in flight to its end (weak fairness of
each request's `Step`, which is one `await` after another; `Handle`, a socket's queued event;
`Deliver`, what is on its way to a panel: a connected socket's events and acknowledgements, an answer) and that time passes (`Expire`). Nothing is assumed of
users and administrators: nobody has to call, return or be patient, and where a process may die its call
simply ends. Each liveness property is therefore an implication from something that was begun. The other
specifications state no fairness and claim no liveness: the backend has no scheduler, retry loop or
background job, so whether an engagement moves on is up to people who may never come back. What should
eventually happen and may not (a webhook whose process dies between its two statements is answered
`alreadyProcessed` on redelivery, and the escrow stays pending) is in the hazards.

## 4. What is proved

Every safety property that a run checks is also a theorem, for every value of the constants; of `PagesServe` the
part that says ENABLED is a hypothesis. The run shows it on an instance, and is where each invariant below was tried
before it was proved. What the four runs of the marketplace that expect a violation refute is proved as well, under the condition that
it needs.

| Module | Theorem | Statement |
| --- | --- | --- |
| `EngagementProofs` | `TypeCorrect`, `EngagementInvariant` | `Spec => []TypeOK`, `Spec => []EngagementInv` |
| | `AcceptedUnique`, `HiredIsFunded`, `CompletionUnique` | `[]OneAccepted`, `[]HiredOnDeposit`, `[]CompletedOnce` |
| | `HireFinal` | `HireIsFinal`, an action property |
| | `PromiseKept` | `KeepsPromise`: Marketplace implements EngagementPromise |
| `SettlementProofs` | `LedgerUndisputed`, `BackedAlways` | `[]UndisputedLedger`, `[]BackedByCharge` |
| | `DepositOnce` | `[]DepositBookedOnce`, if nobody calls `fundAndAccept` |
| | `ChargedOnce` | `[]ChargedByOne`, if nobody calls `initiate`; captures that were rolled back are counted apart |
| | `SequentialCoherent` | `[]EngagementCoherent`, for one request at a time |
| | `SequentialOffers`, `SequentialSettleable` | `[]OffersHonoured`, `[]DepositSettleable`, for one request at a time |
| | `SequentialPages` | `[]PagesServe`, for one request at a time, from `[]ConditionsEnable` |
| | `SequentialEscrowPromise` | `KeepsEscrowPromise`: one request at a time implements EscrowPromise |
| | `SequentialTransitions`, `SequentialWithdrawals`, `SequentialDisputes` | `ListedTransitions`, `AcceptedNotWithdrawn`, `DisputeBlocksCompletion`, for one request at a time |
| | `ClosedByClient` | `ClosingRejectsPending`, if the admin closes no listing |
| `PointsWalletProofs` | `RewardedOnce`, `StreakIsKept` | `[]ApplyRewardedOnce`, `[]StreakIsRun` |
| | `FirstJobIsRewarded` | `[]FirstJobRewarded`, if completions take turns and nothing crashes |
| | `FirstJobOnce` | `[](posted["FIRST_JOB"] <= 1)`, with crashes and overlaps, but of two confirmations of one project (`[]OneEach`) |
| | `BalanceFollowsLedger` | `[]BalanceIsLedger`, if calls take turns, nothing crashes, and rewards add points |
| `CommercialProofs` | `SpecTypes` | `[]TypeOK` |
| | `SpecOneActivePolicy`, `SpecSplitFair` | `[]OneActivePolicy`, `[]SplitFair` |
| | `SpecKeepsRatePromise` | `KeepsRatePromise`: the policies implement RatePromise |
| | `SpecResolvesDecision`, `SpecAccrualsAllowed`, `SpecStatementComplete` | `[]` of the property |
| `AccountProofs` | `SpecSessionsNotMultiplied`, `SpecRevokedForGood`, `SpecSessionSurvives` | `[]` of the property |
| `CommunityProofs` | `SpecCommunityTypes` | `[]TypeOK` |
| | `SpecOneListing`, `SpecTermsHeld`, `SpecRowsHaveFiles` | `[]` of the property |
| | `SpecClosedConversationStops`, `SpecUnreadAnnounced`, `SpecRateKept` | `[]` of the property |
| | `SpecCacheHeals`, `SpecNotifiedOnce` | `[]` of the property |
| | `SpecNeverTwice` | `[]NeverTwice`, the safety half of `ShownOnce` |

Besides the assumptions on constants that the modules name (sets are finite where rows are counted, null values
are no members of the sets they stand beside, amounts are numbers, limits are at least one), the hypotheses are
those of the runs:

* `fundAndAccept` books its own deposit, so `DepositBookedOnce` is about clients who fund and accept in two calls;
  `initiate` commits the payment's row before it charges, so a `fund` meanwhile finds the key's row not yet SUCCEEDED and charges as well:
  `ChargedByOne` is about clients who do not use it.
* `OneAtATime` (two slots are the same slot) and `Crashes = FALSE` are constants of the sequential runs. What breaks without
  them is in the hazards: overlapping wallet calls lose an update.
* `OneCompletion` and `OneRequest` are conditions on the states of a behaviour (`Spec /\ []OneCompletion`), weaker than one
  request at a time: whatever else overlaps a completion, it is rewarded. Behaviours of one slot satisfy both.
* Where a property of `Commercial` or `Community` needs two operations to take turns, its own definition says so.

### The engagement

The safety properties are not inductive: a request that is about to commit could have read anything. `EngagementInv`
adds what is needed, in three named parts.

* `RowsSound`: the committed rows agree. Besides the three properties: an escrow exists exactly when
  it belongs to a proposal, a deposited escrow has its DEPOSIT row, a released one its RELEASE row,
  a dispute is about a deposited escrow, a project in progress points to a proposal.
* `ReadsSound(r)`: how much of a stale read is still true. `accept` read FUNDED before its
  transaction; the escrow may have been disputed or refunded since, but it was deposited and it
  still belongs to that proposal, unless the whole project is gone, in which case the commit cannot
  succeed.
* `LocksSound(r)`: what a held lock excludes. The transaction that inserts the escrow is the only
  one to do so; the completion that holds the project's row found it IN_PROGRESS and not credited.

`EngagementProofs` shows first that every action preserves the types, then the
invariant action by action: `OthersSound` is the frame argument (a request only has to be
re-examined if its own fields or the rows its reads depend on move backwards, which `Advance`
excludes), and then starts, intermediate steps and commits each have a lemma. `AcceptedStep` shows that nobody else is hired in
a hired freelancer's place. That a hire is undone only by a request that was being served when it was committed rests on `HireInv`: while
a hire stands, every request that could undo it (`Undoing`) is in `early`, the history of the requests that overlap the hire;
`UndoingStart` says that the checks of later ones fail. For the refinement, every step is shown to be a step of the promise (fund, hire,
fund and hire, credit, delete) or a stutter.

`SettlementProofs` follows the money, from the same invariant.

* The ledger: an escrow that nobody disputes is released by a completion only (`ReleasedByCompletion`), and the lock of the project's row
  lets one completion through, so the rows that it writes are the first (`LedgerInv`).
* The charge: while the gateway has captured nothing, no row shows a success and nothing that could make one is
  about: no event, no request that saw a capture (`ChargeInv`).
* The deposit: once no `fundAndAccept` can be in flight (`NoCallOf`), each of the other writers of the DEPOSIT row does so in
  the transaction that moves the escrow to FUNDED, conditionally on the status it leaves (`DepositStep`).
* The key: while nothing was refunded, the payment's row is absent or SUCCEEDED, and the request that has charged holds the row
  it is inserting (`KeyInv`). So a second capture takes a payment row that is gone, and then the first capture was rolled back: `CountInv`
counts those in `stranded`. After a refund the row exists, a retry only updates it, and two requests that both read it
  REFUNDED both charge; the property says so since the proof attempt failed there.
* One at a time: what a request has checked is still true when it commits (`StillTrue`), which with `EngagementCoherent`
  itself is inductive (`SequentialInv`).
* The pages: `Accepts` and `Proceeds` write out what the actions ask of the rows, the locks and the gateway. A button's
  condition with the agreement of the statuses gives the first (`OfferAccepted`). For the later ones, what the request has checked is still
  true, it holds the only locks, and it stands where its handler can stand (`ShapeInv`); a deposit that is FUNDED has no dispute
  (`DisputeInv`), which is what the button "open a dispute" does not look at (`OfferProceeds`).
* The second refinement: each commit deposits, disputes, decides or confirms, or moves no money. That a deleted draft takes no deposit
  with it needs `DraftInv`, and this that an escrow is prepared for an OPEN project still.
* The claims of the documents: rows move by commits only (`RowsMoveByCommit`), and a commit that is still right about the status it read
  takes a listed transition (`ListedStep`, `WithdrawStep`, `CompletionStep`). So each violation takes two overlapping requests or, for
  the pending proposals, the admin's close.

### The wallet

`RewardedOnce` rests on `WalletAssumption` (the lock's holder `Nobody` is no request, and no call
other than a submission posts a month's reward) and holds for any number of requests, days and
milestones, with or without crashes. `onProposalSubmitted` checks and then upserts with no lock of
its own; `WalletInv` adds why that is enough: a submission that has debited the wallet is the one
that holds its row (`HoldsLock`), so what it has read of the month's task and of the streak is still
what the rows say when it commits (`TasksCurrent`). The same lock makes the streak right: submissions commit
in the order of their days (`DaysInOrder`), so the counter, which compares with the last day only, is the length
of the longest run that ends there (`StreakOfApplied`), and a milestone is claimed exactly if some run reached it (`ClaimedByRun`).

`JobInv`: between completions the reward follows the count of completed jobs; during one, the count that `completeProject` reads after its
transaction tells whether it is the first. Completions of different projects that overlap, and crashes, may lose that reward, but not
repeat it: a second completion begins by counting one more, so only one request has ever counted one (`OnceInv`). That no two confirmations of
*one* project overlap (`OneEach`) is a condition: the second finds the project completed, counts nothing, reads the same count, and may be
rewarded as well, for the task is checked and then marked without a lock (`ConfirmAgain`). `BooksInv`: the balance and the ledger differ only between the balance's
write and its transaction's row, by the points of that transaction; a submission could pay for both of its debits when it checked, and nobody
has taken points since.

### The commercial side

* Policies (`CommercialInv`): exactly one row is ACTIVE (`CurrentIs`), a SCHEDULED row is a successor of it
  (`PendingOf`), and a call in flight has read a row that is the current one or has a successor already
  (`CallsOf`). The unique key of the predecessor is what makes this inductive: once somebody has scheduled a row, nobody else's stale
  read of the current row can become a version. It is also why `pending_reschedule` is violated.
* The promise: `decisions`, a history, records each change of the platform's terms that was not refused, and `RatePromise` moves the terms
  and the announcements by these only. A change adds to both exactly when its row is inserted (`CommitPolicyRows`), and the public terms
  are those of the scheduled row that is due, else of the ACTIVE one (`ConfigFollows`).
* `TurnsInv`: the calls in flight are the workload's, and those that it keeps apart do not overlap. The next three rest on it.
* Decisions (`DecisionInv`): each table has at most one ACTIVE row, which carries what was last decided (`Carries`), and the call in flight supersedes
  exactly the ACTIVE rows.
* Agreements: what a settlement has read of the sum is what was accrued (`CapInv`); a terminated agreement has ended, or is closed and no settlement
  in flight will mark it ACTIVE again (`LateInv`); one agreement is open, the one that the call in flight found (`OpenInv`).
* Statements (`StatementInv`): what a statement in progress has summed is still there, and a payout still has the status its call has checked.
* Types (`TypeInv`): a call supersedes a row of its table (`VersionsBounded`), a fee is cut off at the amount, so neither part of a split is
  negative (`SharesWhole`), agreements end on days of the calendar (`AgreementsEnd`), and no sum is negative (`SumsTyped`).

### The community side

`CommunityFrame` shows what each part may rely on: the operation and program counter of a call tell
which part it belongs to, and a step of one part leaves the rows and the calls of the others alone. Each property then
has an invariant of its own part.

* `CountInv`: live tokens plus refreshes between their delete and their insert are at most the
  logins, by counting the calls that hold one.
* `RevocationInv`: a sign-in that is in flight has read the account after the last revocation, so the token or
  socket it makes has the present epoch; no sign-in is in flight while a revocation is.
* `CookieInv`: a token that is on its way to the browser is live and no other call knows it (`TokensOnTheWay`), and the cookie is
  live or an answer that sets it will come (`CookieBacked`). `TabsInv`: a tab loads once and alone, shows nobody until it is done, and has a
  token from the answer of the refresh on.
* `ListingInv`: a project that the form has created is known to it, or the answer is on its way.
* `TermsInv`: an edit that found no pending proposal still finds none when it writes, and a
  submission still proposes to the terms it was shown.
* `FilesInv`: a call holds a file that is its own until its row is in the table; what a deletion
  removes from the disk has no row any more.
* `LateInv`: each call that is sending when the conversation closes adds at most one message, so `late` plus the calls
  that may still send is bounded.
* `AnnounceInv`: whoever the only send found no unread notification for has none (`MergeInv`); an unread notification has its unread message
  or a reader about to mark it (`NotesBacked`); an unread message has its notification or a send about to make one
  (`MessagesNoted`).
* `RateInv`: an entry counts what its window has admitted, and the window's length before it has admitted no more than the limit
  (`EntryInv`); a period is covered by the two.
* For the rating, a transaction that runs alone has read every visible review; for the broadcast, only the call that
  inserted the row sends, no two rows have one key, and whoever is still on its list has got nothing (`RatingInv`, `BroadcastInv`).
* `PanelInv`: a message that is being posted over HTTP is not shown and on no way to the panel, and an answer brings one that
  nothing else will, though it is added without a look.
* Types: `CommunityTypes`. A table never outgrows its bound because what the calls in flight may still add was counted when they began
  (`Within`): tokens, revocations, messages, and notifications, of which there are at most as many as messages.

### Sums

The wallet's ledger, the accruals, a month's payments and a limiter's period are sums over finite sets. `FiniteSums` proves what
the arguments need (a sum over a disjoint union, of a function that changes in one place, of a larger function) for any finite
set. The library's induction theorems take an operator that the provers cannot instantiate; the inductions are
by a minimal counterexample instead: a nonempty family of subsets of a finite set has a minimal member
(`MinimalMember`), and the sum's definition by a CHOOSE is shown to be the one function that adds up (`TotalExists`, `TotalUnique`, `SumIsTotal`).

### What the proofs changed

These properties turned out to claim more than the code keeps where the instances had not looked; they now name the condition.

* `ChargedByOne` was stated for the whole life of an escrow: after a refund two retries may both charge; and a capture that is rolled
  back with its transaction is charged again by the next request (`stranded`).
* `HireIsFinal`: a close, a cancellation or a withdrawal that had made its checks before the hire undoes it (`early`).
* `FirstJobOnce`: two confirmations of one project may both be rewarded (`OneEach`).
* `NotifiedOnce`: calls with one key. A broadcast that is sent again under a new key is sent again.
* `AccrualsAllowed` excluded late accruals in every workload without overlap of settlements: a replacement reopens a
  terminated agreement by its id.
* `SessionSurvives` needs that nobody presents the browser's tokens from elsewhere (`REFRESH`, `LOGOUT`), and that no answer is lost.
* `UnreadAnnounced`: the `READ` of a panel that shows its list has to take turns with sends as any other does.

Assumptions that the proofs asked for and the code keeps: limits of at least one, at least one version (the seeded policy), finitely many payouts.

### Only model-checked

`ConditionsEnable`, the part of `PagesServe` that says ENABLED: that the conditions written out in `Accepts` and `Proceeds` are all that
the actions ask. And the liveness properties `InactiveEventCloses`, `EventuallyEnforced`, `BroadcastReaches` and the eventual half of `ShownOnce`: liveness under
fairness is out of the prover's reach, as it rests on ENABLED, and no installed backend instantiates the quantifier in
`\A r \in Requests : WF_vars(Step(r))`.

## 5. What is not modelled, and why

* Components marked `not_modelled` in `PROJECT.json`: the catalogue, the dashboard and the audit log keep no
  state that a protocol reads; bootstrap and health are start-up code. Most pages of the web client
  render what the API answers and keep nothing that it relies on.
* Registration and the confirmation of an address, staff permissions, content pages, announcements,
  future-fee settings, the bucket storage, push delivery, conversation lists and pagination, texts
  of a profile, sort orders, expiry of a listing, wording and audit rows.
* `UNDER_REVIEW` of a dispute is in the type and in the guards that accept it; no handler writes it.
* An escrow's amounts in the engagement modules: `Commercial` has them, at the instant of preparation.
* Several engagements at once: they share no rows except the freelancer's counter and wallet.

What the properties do *not* promise, because the code does not keep it; each is named in a property's
condition or in the note of a hazard:

* Rates and ledger: clearing a category does nothing while a change of it is scheduled; a scheduled
  row whose day has come is not shown on the settings dashboard; two settlements that overlap may pass a cap; two people who
  settle one payout may un-pay it; days after an ENDED agreement belong to none.
* Sessions: a sign-in that overlaps a revocation survives it; two tabs that reload at once
  leave the slower one signed out though the cookie lives; a reload during the bootstrap loses
  the rotated token; a logout that overlaps a refresh leaves the browser signed in; a login that
  is submitted while the page loads may be cleared by the failing bootstrap; nothing renews an access token that expires in
  an open tab.
* Listings: the edit page sends every field, so it is refused while proposals are pending; an edit of an open
  listing is validated as a draft's; a lost answer duplicates a listing.
* Messages: what was being sent when a conversation closed still enters it; overlapping messages may
  be announced twice, or not at all; the list of a panel overwrites events that came before it; a message that was sent over
  HTTP is no event, so the other's open panel shows it when it is opened again; a send whose acknowledgement is lost never settles.
* Ratings, files, broadcasts: overlapping reviews leave the average stale until the next one; a crash between a photo's
  two steps leaves its row dangling; overlapping uploads pass the limit of images; a broadcast whose process died is never completed, and
  pressing the page's button again after a lost answer notifies everybody again.
* Wallet and payments: overlapping wallet calls can pass the share cap and repeat a one-time reward, though not the first job's;
  an escrow that was prepared for a proposal withdrawn since keeps the project's only slot.
* Pages: after a refund the project stays IN_PROGRESS for good, and completing it is offered and refused; a hire
  is offered on a listing that the admin closed, and refused; a freelancer who has requested completion is offered no dispute.

## 6. Plan

| Order | Modules | Contents | Run | Theorems |
| --- | --- | --- | --- | --- |
| done | engagement modules | above | seven runs | every safety property; two refinements |
| done | `PointsWallet` | above | two runs | its four properties, and the first job's reward under crashes |
| done | commercial modules | above | `commercial`, `pending_reschedule` | every property; a refinement |
| done | community modules | above | `community` | every safety property |
| 1 | composition | the wallet's charge inside `ProposalService`'s submission; the commission's release inside `EscrowService` | replaces runs where it subsumes them | that each part keeps its properties in the composition |
| 2 | `AccountSessions` | registration, confirmation of an address, staff permissions | `community` | its sessions' theorems extended |
