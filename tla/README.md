# Winfetti: verification project

TLA+ models of the Winfetti backend (`src/app`, FastAPI, SQLAlchemy, PostgreSQL,
Redis), checked with TLC and proved about with TLAPS. The backend keeps coin
balances on an append-only ledger, pays out gift cards, and takes credits from
games, ads, offers and affiliate sales. Coins are worth money, every operation
may be retried, and all of them run concurrently: that is what is modelled.

## 1. Inventory

All state is in PostgreSQL (default isolation, READ COMMITTED) except rate-limit
counters in Redis and the AdMob key cache in memory. A request has one session
and usually one transaction; a wait is a row lock, a unique index held by an
open transaction, or an external call. Components share the `users` row: every
coin movement locks it with `SELECT ... FOR UPDATE`.

| component (source) | state | operations | hard behaviour | what makes it correct | module |
|---|---|---|---|---|---|
| Coin ledger (`ledger.py`) | `users.balance`, `ledger` | `lock_user`, `find_by_idem_key`, `apply` | waits, replays across users, flush errors, crashes | chain and balance agree; a key is applied once; ids in chain order | CoinLedger |
| Redemptions (`services.py` 274-438, `routes/redemptions.py`, `admin/routes.py`) | `redemptions` | create, auto-approve, approve, deny | approve lets its lock go during the order; two approvers; retries | never both refunded and paid; one undecided at a time; first ones reviewed | Redemptions |
| Fulfillment (`fulfillment.py`) | orders at Tremendous | `create_order` | timeouts after the order was taken, duplicates | one order per `external_id` | Redemptions |
| Cashback (`services.py` 627-684, `webhooks/affiliate.py`) | `cashback_credits` | sale, reversal | replays, reversal against payment, clamped sales | paid iff matured, once; returns accounted for | Cashback |
| Maturation job (`jobs.py` 22-69) | - | `mature_cashback` | overlapping runs, SKIP LOCKED, errors in a batch, crashes | each due credit settled, paid once | Cashback |
| Ledger audit (`jobs.py` 72-157) | `fraud_events` | `audit_ledger` | two unlocked scans against writers | no false report, nothing masked | LedgerReaders |
| History (`routes/me.py`, `admin/routes.py`, `cursor.py`) | - | pages | rows committed between pages | no entry skipped or repeated | LedgerReaders |
| Game claims, check-in (`services.py` 101-212) | ledger, `users.checkin_*`, `risk_score` | `claim_game_win`, `do_checkin` | caps by day, transactions that straddle midnight | caps hold, one reward a day | DailyEarning |
| Admin adjustments (`services.py` 226-267) | ledger, `fraud_events` | `adjust_balance` | replays | every real move logged, bounded | DailyEarning |
| Verified rewards (`services.py` 453-487, `webhooks/admob.py`, `tapjoy.py`) | `ad_receipts`, ledger | `credit_verified_reward` | replays across users, lost answers | one receipt and one credit per callback | Webhooks |
| Entitlements (`services.py` 490-536, `webhooks/revenuecat.py`, `stripe.py`) | `purchases`, `users.boost_until` | grant, expire | duplicated, reordered webhooks | each purchase applied once, gold as the last event says | Webhooks |
| Email verification (`services.py` 544-619) | `email_verifications`, `users.email*` | request, confirm | two users and one address | single use, superseded tokens | EmailVerification |
| Device authentication (`routes/auth.py`, `auth.py`) | `users` | get-or-create, `get_current_user` | concurrent first authentication | one user per device | Admission |
| User status (`admin/routes.py` 205-228) | `users.status`, `fraud_events` | ban, unban | two admins, requests under way | events form a chain; of a banned user only what the ban caught under way finishes | Admission |
| Rate limiter (`rate_limit.py`) | Redis counters | `allow` | windows, several clocks, Redis down | bound per window, no false refusal | RateLimiter |
| AdMob keys (`webhooks/admob.py` 35-64) | cached keys | `get`, `_refresh` | rotation, failed refresh | a withdrawn key is dropped in time | - |
| Dashboards, pricing tables, wiring, schemas, migrations | - | reads, configuration | - | - | - |

`PROJECT.json` lists the same components with their status, and under `hazards`
the lines at which each hard behaviour bites.

## 2. Modules

```
AtomicLedger   what ledger.py promises: one step per coin movement
  ^ implements      ^ INSTANCE Money           ^ INSTANCE Money    ^ implements
CoinLedger        Redemptions --implements-->  Cashback          DailyEarning
CoinLedgerProofs  GiftCards    (the promise)   CashbackProofs    DailyEarningProofs
MCCoinLedger      RedemptionsProofs            MCCashback        MCDailyEarning
                  MCRedemptions

EmailVerification        Webhooks           LedgerReaders          Admission EXTENDS RateLimiter
EmailVerificationProofs  WebhooksProofs     LedgerReadersProofs    AdmissionProofs
MCEmailVerification      MCWebhooks         MCLedgerReaders        MCAdmission
```

**AtomicLedger** has `balance` and the set `applied` of ledger rows; `Move` is
one committed `ledger.apply`. **CoinLedger** is `ledger.py` as its callers run
it. A handler goes `idle -> loaded -> locked -> missing -> flushed -> idle`:
`Begin` is the unlocked `SELECT` of `get_current_user`, `LockUser` is
`lock_user` with its `populate_existing` refresh, `Replay`/`KeyMissing` the
lookup of the key, `Insufficient`, `FlushFails` and `Flush` the rest of
`apply`, `Commit` the caller's commit. Uncommitted writes live in `session` and
reach the tables at `Commit`, as READ COMMITTED shows them. The unique index
makes an insert wait for an open transaction with the same key. `nextId` is the
identity sequence: an id is drawn at flush and lost on rollback.

**Redemptions** composes the redemption handlers with the atomic ledger; that a
handler may use `Money!Move` in its commit step is what the refinement of
CoinLedger is for. `c_*` steps are `create_redemption` and its route, `a_*`
`approve_redemption` (reached from the admin route and from `auto_approvable`),
`d_*` `deny_redemption`. The row lock of `_lock_redemption` and the user lock
are separate, so waits and lock order are real. `created_at` is the start of the
transaction, as its `now()` default makes it. Between `ApproveCommit` and
`RecordSent` no lock is held; `inflight` and `orders` are the provider: a
request may arrive after its sender timed out (`Deliver`), or never (`Lose`).
**GiftCards** is the promise in one step each: coins taken, then returned once
or spent on one card once; an approved redemption is `committed` until the
provider has the order.

**Cashback** composes the sale and reversal postbacks with runs of the
maturation job. `s_*` is `affiliate_postback` with `create_cashback`, `r_*`
with `reverse_cashback`, `j_*` `mature_cashback`. `userShare` is the
`FOR KEY SHARE` lock a foreign key takes: the fraud event of a clamped sale is
flushed by the query of `lock_user`, so it shares the user's row before the row
is locked; two such sales deadlock and `Victim` is PostgreSQL's detector. The
job reads its ids in one transaction and then treats each in its own, skipping
rows that are locked or no longer pending; an error (`JobFails`) ends the run.

**DailyEarning** is what a user earns by the day, and what staff correct:
`claim_game_win`, `do_checkin` and `adjust_balance`. A handler goes
`idle -> begun -> locked -> flushed -> idle`: `Begin` opens the transaction
(authentication), `LockUser` is the wait for the user's row, `Claim`, `Checkin`
or `Adjust` the work up to the flush, `Commit` the end; `Replay`,
`AlreadyCheckedIn` and `AdjustRefused` are the early returns. `today` is the day
of both clocks and moves by `Midnight` at any moment, so the three days that the
code may see differ: `session.start`, which becomes `created_at`, the day of the
decision, and the day of the commit. A row has kind, user and id for its
`idem_key` (all three keys are scoped to their user, so the row lock is enough
to keep them unique), and two history fields: `decided`, and `asked`, the coins
before any cap. A balance that does not fit the column fails at the flush and the
handler aborts. Of the eight kinds that `EARNING_KINDS` counts for the total cap
only `game_win` and `checkin` are in the module; the other six (ads, offers,
cashback and those no code writes yet) take room of it the same way, but what
`PaidClaimsLeaveRoom` says is said of these two.

**EmailVerification** has no coins. A handler holds its user's row from `Lock` to
the commit; `RequestCheck` and `ConfirmCheck` are the unlocked look for another
user with the address (`_email_verified_elsewhere`) and the reading of the
clock and of the rows to supersede (`session.old`), `RequestCommit` and
`ConfirmCommit` the writes that rest on them. Between the two anything may happen to other users' rows. The mail goes out after the
commit (`Send`) or not at all (`Abort`); confirmations come with any token that
was mailed to anybody. That nobody confirms a token no mail carried is an
assumption (`ConfirmLock`): tokens are 32 random bytes. `commits` and `proof` are history: they number the
commits, so that "looked before the other committed" can be said.

**Webhooks** is what third parties grant. The four handlers (`admob_ssv`,
`tapjoy_callback`, `revenuecat_webhook`, `stripe_webhook`) have one shape, so a
call is a user and a transaction, `network:tx_id` or `store:tx_id`, whose
`Sort` says what it grants: `Receive`, `Lock` (the user), `Replay` or `Missing`
(the look-up), `Insert` or `InsertFails` (the unique index, whose
IntegrityError nobody catches), `GrantCommit`, `Answer`. `ExpireRead` and
`ExpireCommit` are `expire_gold`. Any call may come again at any time, copies
at once, so `InsertFails` is followed by a retry. A call that is refused, for
its signature, its event or its user, writes none of these tables and is left
out; so is the amount, and the share of the user's row that a clamped Tapjoy
offer takes with its fraud event before it locks the row (`tapjoy.py` 60-68).
`gold` is a history variable: the last event that
counted, in the order of the commits.

**LedgerReaders** is who reads the ledger while it is written. `Write` and
`WriteCommit` are a handler of CoinLedger from its row lock on. `ScanSums` and
`ScanChains` are the two statements of the audit's first pass: under READ
COMMITTED each has a snapshot of its own, so each is one step, and the writers
may commit between them. `AuditLock`, `AuditClear` and `AuditReport` are the
re-check under the row lock. `FirstPage` and `NextPage` are the histories of
the user and of staff, `Leave` a client that has had enough. `TamperBalance`
and `TamperRow` are what the audit is there to find: an UPDATE by hand.

**RateLimiter** holds the actions of `RateLimiter.allow`: `Ask` reads the
clock of the server, which may be `Skew` away from that of Redis; `Allow` and
`Refuse` are the pipeline, which Redis executes in one step up to `Delay` later
and after which the counter lives for two windows by the clock of Redis;
`RedisFails` is an error before or after the pipeline was executed, and
`LoseCounters` a Redis that comes back empty. **Admission** has the handlers
that take those steps: `device_auth` (`Device...`), a coin-writing request with
`get_current_user` and `rate_limit_user_writes` (`Write...`; what it then does
is in the other modules) and `set_user_status` (`Status...`). A device is given
its token without a look at the status, as the code does: the status is looked
at when the token is used. `caught` is history: a request that is past that look
when its user is banned.

`Abort` in each module is a process that dies, or a session that rolls back for
any error: its locks go, its uncommitted writes are lost. A mutated form (a
definition in the block under that heading of a module) is a mistake the code
could have made; each property has one that breaks it, named in `PROJECT.json`.

## 3. Runs

| run | shows | bounds |
|---|---|---|
| `CoinLedger` | `TypeOK`, `LedgerChain`, `IdOrderIsChainOrder`, `RefinesAtomicLedger`, `RequestsFinish` | 2 users, 2 keys, 2 handlers, `MaxInt` 3, rollback of an insert below id 2 |
| `Redemptions_payout` | `TypeOK`, `NoDoublePayout`, `OnePending`, `RefinesGiftCards`, `HandlersFinish` | 1 user, 2 redemptions, 2 handlers |
| `Redemptions_gates` | `CooldownFromStart`, `FirstOnesReviewed` | 2 redemptions, 2 handlers, 2 skus, clock of 2 |
| `DailyEarning_safety` | `FreshClaimsCapped`, `PaidClaimsLeaveRoom`, `StreakIsRun`, `TrailMatchesLedger`, `ClaimGrantedOnce`, `RefinesAtomicLedger` | 1 user, 2 client keys, 1 staff key, 2 handlers, 3 days |
| `Cashback_safety` | `PaidIffMatured`, `ReturnsAccounted`, `FirstSaleWins` | 2 users, 2 sales, 2 handlers, 2 runs of the job, 1 crash |
| `Cashback_live` | `DueCreditsSettle`, `ProcessesFinish` | 1 user, 2 clamped sales of 2 coins, `MaxInt` 4, so that both fit, 2 handlers, 2 runs of the job |
| `Email_safety` | `SingleUse`, `AddressProven`, `SharedOnlyByOverlap`, `LatestRequestWins` | 2 users, 2 addresses, 3 tokens, 2 handlers, clock of 1, tokens that live for 1 |
| `Webhooks` | `PaidByReceipt`, `AckedIsGranted`, `GoldIsLastWord`, `BoostStacks` | 2 users, a reward sent for both, 2 boosts, 1 subscription, 2 handlers, clock of 1, 1 crash |
| `LedgerReaders` | `NoFalseReport`, `NothingMasked`, `PagesStable`, `WritesNeitherBreakNorHeal` | 1 user, 2 processes of any kind, 4 ids, pages of 2, 2 changes by hand |
| `Admission` | `WindowBound`, `RefusedAtLimit`, `OneUserPerDevice`, `StatusTrail`, `OnlyCaughtFinish` | 1 device, 2 uuids, 2 processes, windows of 3, `Skew` and `Delay` of 1, 3 calls, 1 fault, 2 status changes |
| `Email_exclusive` (violation) | `ExclusiveAddress` fails | as `Email_safety` |
| `Cashback_badrow` (violation) | `BadRowNeverStalls` fails | 2 users, one of them full |

Why the bounds are enough for the cases that matter: a race over a row needs two
processes, and what more of them could do is left to the theorems, which hold
for every number of them. A key, an order or a callback is reused by the second
request; `MaxInt` is small so that overflow happens. One user is enough for
Redemptions, where nothing relates two users, while the ledger, the sales and
the rewards have two because keys and transaction ids are global; DailyEarning
has one because its keys are scoped to a user, LedgerReaders because a run treats
its users one after the other; four ids with pages of two are two full pages,
and two changes by hand break the books and mend them again, which is the only
way a candidate of the scans is found sound under the lock: each scan is one
statement, so a commit between them never makes a false candidate, and
`NoFalseReport` would miss a dropped re-check without them. In Cashback_live both
credits fit the balance together and either run may have the other's row, so a
batch of two is settled by overlapping runs; it has no crash, for a process that
aborts leaves what one that never began leaves, and safety under crashes is
`Cashback_safety`'s. Three days are a run of check-ins and a missed
one. In Admission a late call by a slow clock meets the counter of a window that
is over. With a clock of 4 it does not live to see the counter expire (after 6):
only the shorter life of the mutated form ends within the run. `WindowsHold` has
no such bound. An address may ask twice in a window and a user once. Named
bounds are `MaxIds` and `MaxId` (ids), `MaxTime` and `MaxDay`
(clocks), `MaxCrashes`, `MaxFaults` (crashes and failures of Redis),
`MaxTampers`, `MaxAsks` and `MaxChanges`. Symmetry is used in safety runs only.

Six type invariants and four safety properties are listed with theorems and
not with runs: each is proved for every value of the constants, and no run
repeats it (`KeyAppliedOnce`, `SentHasOrder`, `OneOutstanding`, `MovesAccepted` of
RedemptionsProofs, and `TypeOK` of Cashback, DailyEarning, EmailVerification, Webhooks, LedgerReaders and
Admission).

Two runs show a disagreement between the code and what its own text says
(`findings` in `PROJECT.json`):

* "a verified email is exclusive to one account" (`README.md`), but two users who
  confirm one address at once both succeed: each looks for the other before
  either commits, and no index stands behind the look. What does hold is
  `SharedOnlyByOverlap`;
* "one bad row can't stall the batch" (`jobs.py`), but an error leaves the loop
  and ends every run at that row. What does hold is `DueCreditsSettle`.

Three smaller ones are only noted, at the property that says what does hold:

* the cooldown "stops a network retry from shipping twice" (`README.md`,
  `config.py`), but a request that stalls between authentication and its hold
  commits a `created_at` that is already old: `CooldownFromStart`;
* a "hard cap" per day on game wins (`SPEC.md`), made "race-free" by the row lock
  (`services.py`), but a claim that waits over midnight is measured against the
  new day and recorded in the old one: `FreshClaimsCapped`;
* `sent_at` is "when the fulfillment order actually went out" (`models.py`), but
  a second approver overwrites it: `RecordSent` does not look at the status.
  With it the day moves on which the dashboard counts the card
  (`sent_today_usd`, `admin/routes.py` 330-335). `sent_at` is not modelled, so no
  property says so; what the second write must not do, revive a denied
  redemption or say sent without an order, `NoDoublePayout` and `RefinesGiftCards`
  do say.

### Fairness

Weak fairness for the steps of a process that can run: a handler is a thread
that is scheduled, and `create_order` has a timeout. Strong fairness for the
steps that wait for a row: PostgreSQL serves the waiters of a row in turn.
The deadlock detector works (weak fairness of `Victim`), and cron starts the job
again and again (`JobBegin`). In Cashback these three share one weak fairness
condition of a process, since at no step of it two of them are open. No fairness is assumed of new
requests, of the clock, of the provider or of crashes. `DueCreditsSettle` and
`ProcessesFinish` assume in their statement that deadlocks do not follow each
other for ever: `FOR KEY SHARE` holders can overtake a waiter. LedgerReaders and
Admission take one lock at a time, as CoinLedger does. So does Webhooks as it is
modelled; in the code a clamped offer also shares the user's row before it locks
it, and two of them can deadlock as two clamped sales do. None of the three has a
liveness property of its own; that a grant is made in the end is up to
the sender, of whom no fairness is assumed.

## 4. Proofs

Each `*Proofs` module proves an inductive invariant `IInv` by one lemma per
action (or per group with the same frame), and the theorems from it. The only
assumptions are the named ones of the modules: constants are of their type,
`None` is new, and one on the rate limiter (below).

* **CoinLedgerProofs**: `TypeCorrect`, `ChainHolds`, `KeysUnique`, `IdsOrdered`,
  `Refinement`. `IInv` adds that at most one process holds a user's lock and is
  between lock and commit, that its in-memory balance is the committed one, that
  a flushed key is on no committed row and in no other open insert, and that ids
  of committed rows are below those of open inserts.
* **RedemptionsProofs**: `TypeCorrect`, `NeverPaidAndRefunded`, `SentIsOrdered`,
  `OneAtATime`, `Refinement` (Redemptions implements GiftCards). `IInv` ties
  what a handler read to the rows while it holds their locks: the status seen is
  the row's status, what the gates found still holds at the hold, and a handler
  at the provider works on an approved redemption. The last one is why an order
  that arrives late cannot meet a refund. `ReviewsComeFirst` and
  `HoldsKeepDistance` rest on a second invariant, `GInv`, above the first. The
  count of `auto_approvable` is read without a lock and counts automatic
  approvals too; it stands all the same, because an approved redemption is never
  anything else again, and because behind the first automatic one that is
  counted stand enough reviewed ones. The count needs finite sets, so `GInv`
  also says that only finitely many redemptions exist. `LedgerNeverRefuses` says
  that a hold and a refund which reach the ledger find their key unused and
  their amount fitting, so that within this module they need no branch for an
  error (coins earned meanwhile are not in it: a refund could meet the limit of
  the column only then). Its `LInv` says that the balance a create has seen still covers
  the cost, and that a user's balance leaves room for the one redemption that is
  undecided.
* **CashbackProofs**: `TypeCorrect`, `PaidOnceWhenMatured`, `NoReturnLost`,
  `TermsAreFixed`. `IInv` says that who owns a credit's row knows its status:
  a reversal what it read, the job that it is pending.
* **DailyEarningProofs**: `TypeCorrect`, `StreaksAreRuns`, `TrailComplete`,
  `KeysBurn`, `WinsWithinCap`, `PaymentsLeaveRoom`, `Refinement` (DailyEarning
  implements AtomicLedger). `IInv` says that a handler that holds the user's row
  works on the columns as they are committed, and that what it has flushed is
  those columns changed by one entry of a key not in the ledger; the last
  check-in is never ahead of the clock. `TrailComplete` counts: the cap-hit events
  of a user are as many as its claims that were paid less than they asked. The caps
  rest on `CapInv`: a claim that
  is flushed still has the room it was measured against, because nobody else
  adds to that user's ledger while it holds the row.
* **EmailVerificationProofs**: `TypeCorrect`, `RequestsSupersede`,
  `TokensAreSpent`, `LastTokenOnly`, `AddressesAreProven`, `SharingIsOverlap`.
  `IInv` says that an outstanding verification is its user's newest and only one
  (`NewestOpen`), that drawn tokens are apart, and that whoever shares the
  address a handler is about to confirm has confirmed it since the handler
  looked.
* **WebhooksProofs**: `TypeCorrect`, `RewardsPaidOnce`, `AcksAreTrue`,
  `GoldFollowsEvents`, `BoostsAdd`. `IInv` says that a transaction somebody has
  inserted is on no committed row and in nobody else's insert, which the locks
  of two users do not give and the unique index does; that what is about to be
  answered is on file; and that under the user's lock the rows an expiration has
  read are all the gold there is, the boost a grant started from is still
  the user's, and the end it has computed is one length on.
* **LedgerReadersProofs**: `TypeCorrect`, `PagesHold`, `NobodyAccused`,
  `NothingEscapes`, `WritesAreNeutral`. `IInv` says that an open write of a user
  has an id above all of the user's rows, so what appears while a client pages
  appears above its cursor. `BInv` adds the books: what a writer and a run have
  read under the lock is what the tables hold, and a run has lost sight of no
  books that were broken when it began. A write in the handler's own order puts its row on top of the
  chain and its amount on both sides; that it does not join a chain to a balance
  it never had follows from `ChainTelescopes`, by which an unbroken chain adds up
  to its last balance. So a write leaves sound books sound and broken ones broken
  (`EntryKeepsBooks`), and what the audit finds under the user's lock is what is
  there, whatever its scan saw.
* **AdmissionProofs**: `TypeCorrect`, `WindowsHold`, `RefusalsEarned`,
  `DevicesHaveOneUser`, `TrailIsChain`, `BansHold`. For the limiter `IInv` says
  that a counter which may still be asked for is alive and has counted every
  call that passed. That rests on the assumption `TwoWindowsCover`,
  `2 * Skew + Delay <= Window`: the last call of a window reaches Redis at most
  `Window + 2 * Skew + Delay` after the first, and the counter lives for two
  windows. The code states no such bound; with windows of a minute it allows
  clocks that are tens of seconds off. `BansHold` says of every request at work
  under a token of a banned user's device that the ban caught it there: that the
  token names this user is `DevicesHaveOneUser`, that the user was active when
  the request came is the look at the status.

Caps and audit speak of sums over a finite set, which the library computes by
a recursive function on sets. What the proofs need of them is derived in
DailyEarningProofs and LedgerReadersProofs, each for its own sum: the empty set
adds up to 0, and one more element adds its own term (`TotalOfNone`,
`TotalStep`). Behind these stand `SumsAgree` and `SumsExist`, by induction over
the subsets of a finite set. The induction takes the property as a set of
subsets instead of an operator (`SubsetInduction`), which keeps it within first
order; it follows from the fact that a nonempty collection of finite sets has a
minimal one.

Every safety invariant, action property and refinement of the passing runs is
stated by one of these theorems. Only model-checked is liveness, which is out of
the prover's reach, as is `ENABLED`: `RequestsFinish`, `HandlersFinish`,
`DueCreditsSettle` and `ProcessesFinish`. The two properties that the code
violates have their counterexamples.

## 5. Not modelled, and what could follow

Left out for good: reads for dashboards, pricing tables, request schemas, wiring,
migrations, signature and token cryptography (library computation), logging.

Not modelled, though the code has it:

* the cache of AdMob's verifier keys: one mutex around a fetch. It decides only
  which callbacks are refused, and Webhooks leaves refused callbacks out. A key
  that was withdrawn is accepted for as long as refreshes fail, and a failed
  refresh counts as one until the TTL is over;
* a clamped postback for a user who does not exist, whose fraud event fails on
  its foreign key before the handler looks for the user;
* `stripe_webhook` is `async` and does its database work in the event loop, so it
  holds up the other handlers of its process while it waits for a row: a matter
  of time, as all locks are let go in the end;
* what a user's `risk_score` is when `auto_approvable` reads it: Redemptions
  lets it say no at any time, and DailyEarning, which raises it, is not composed
  with it;
* an approved redemption whose order failed is tried again only by another
  approval; GiftCards keeps it `committed`, and promises no more.

Further work, in this order: a module of the key cache; Redemptions and
DailyEarning over one `users` row, for the risk score; a liveness property of
Webhooks under a sender that keeps sending.
