# SplitEasy in TLA+

SplitEasy is a Go service for sharing expenses: members of a group record
expenses, the service works out who owes whom, and members record the payments
that settle those debts. Around that ledger it keeps accounts and sessions,
comments, receipt images, invite links, push subscriptions, a CSV import and
export, and a daily purge. This directory models all of these, checks the
models with TLC and proves with TLAPS every invariant and every action property
that the runs check.

Contents: [inventory](#1-inventory),
[modules](#2-modules-and-how-they-follow-the-code), [runs](#3-runs),
[proofs](#4-proofs), [abstractions and limits](#5-abstractions-and-limits), [not
modelled](#6-not-modelled). Paths are relative to `src/`; `internal/` is dropped
where the package name is enough.

## 1. Inventory

The server (`cmd/api/main.go`) is one process per instance, possibly several
instances, over one Postgres database (gorm, isolation READ COMMITTED), Redis
for sessions and rate limits, and object storage for receipt images. Every HTTP
request is a goroutine that runs handler → service → repository. **No state of
the ledger is held in memory and no request holds a lock across its reads and
writes**: what a request knows is what it has read, each repository call is its
own statement or transaction, and requests interact only through the tables.
That is where the difficult behaviour is.

| Component | State | Operations | Hard behaviour | What makes it correct |
|---|---|---|---|---|
| Split calculation (`service/expense_service.go`) | none | four split methods, largest-remainder rounding | rounding, ties, a user named twice | parts add up, are fair to a cent, do not depend on the order of the body |
| Expenses (`handler`, `service`, `repository` `expense_*`) | `expenses`, `expense_splits`, `expense_items`, `expense_item_users` | POST, PUT, DELETE, soft delete | check in one query and write in a later transaction; a three-statement replacement of splits and items; rival edits and deletions | rows of one write stay together, splits add up, tombstones stay, nothing is orphaned |
| Balances (`service/balance_service.go`) | none | net balances, greedy pairing | map order, recomputation after each payment | the list clears all balances, names a pair once, can be paid entry by entry |
| Settlements (`balance_handler`, `balance_service`, `settlement_repository`) | `settlements` | POST, DELETE (soft) | cap computed in three reads, then an insert, no lock, no foreign key on the group | no payment above the debt, only the parties act |
| Groups (`group_*`) | `groups`, `group_users` | create, rename, join by token, invite, delete | deletion against requests under way; lazily made token | nothing of a deleted group remains; one token per group |
| Audit (`audit_log.go`, `audit_service.go`) | `audit_logs` | append after a change | written after the commit, errors swallowed; a change that matched no row is success | entries may be missing; none credits anybody with a change of a live expense that another made |
| Purge (`purge_service.go`, `job_run_repository.go`) | `job_runs`, old tombstones, images | daily, tried by every instance | tried every other hour and claimed once a day; a stop between claim, rows and images | runs are an interval apart, no image of a stored expense removed |
| Import and export (`import_service.go`) | as expenses | CSV in both directions, one transaction per row; spending workbook | emptiness check, then writes; partial failure; rounding; bounds of a month | splits add up, balances survive the round trip, a repeated import stops |
| Receipts (`receipt_service.go`, `storage_service.go`) | images in storage | scan and upload, attach by path | uploaded before it is attached, removed after the rows | an image goes only after the rows of an expense that had it |
| Sessions (`auth_service.go`, `refresh_token_store.go`) | Redis keys, `users` | login, refresh, logout | rotation, lost answers, two clients, whole-row save of a stale user | one usable token per session, and it stays with its user |
| Rate limits (`middleware/*rate_limit.go`) | buckets in memory or Redis | allow, evict | refill arithmetic, eviction | at most capacity + refill in any window; waiting as told is enough |
| Push (`push_service.go`) | `push_subscriptions` | subscribe, send, clean up | count then insert; late 410 answers | the cap, nearly; no live endpoint removed |
| Activity (`summary_service.go`) | `users.activity_last_seen_at` | home screen, feed, count, mark seen | the same sums in code of their own; pages and searches | agrees with the debts; nothing newer left out; the badge counts what is shown |
| Comments (`comment_service.go`) | `comments` | add, list, delete | written while the entry or the group goes | no comment on a row that is gone; none by outsiders while the group is there |
| HTTP plumbing, configuration, generated API docs | — | — | — | input and output; not modelled |

The parts meet in the tables: Expenses writes what Balances reads; Settlements
reads Balances and writes what the next Balances reads; deletion of the group
and the purge remove rows under everyone; an import fills a group that others
are using; a login rewrites the row whose preferences a notification reads.
`PROJECT.json` lists the hazards one
by one, with the line where each bites and the properties aimed at it.

## 2. Modules and how they follow the code

```
Expenses ──refines── ExpenseTable ──environment of── Settlements ──extends──
Balances │ ExpensesProofs                                     │
SettlementsProofs └── SplitAmounts <- SplitMath in MCExpenses          └── Owed,
computed by DebtLoop (DebtLoopProofs)

Groups ──extended by── Contents ──extended by── Retention      (RetentionProofs)
Sessions ──extended by── Push                                  (PushProofs)

SplitCalls (SplitMath) < ImportCalls (+ ImportMath, Balances) < SummaryCalls (+
Summary)   (ArithmeticProofs) MCArithmetic: MCDebtLoop (DebtLoop) + ScanLimit
(ScanLimitProofs) + MCSummary (SummaryCalls)

LedgerTheorems (sums, Balances) <── SettlementsProofs, DebtLoopProofs,
ArithmeticProofs ```

**SplitMath** — `calculateSplitAmounts` and the four methods it dispatches to,
as pure operators under the source's names. A body's input list is a sequence,
because the code's behaviour for a repeated user depends on positions.
Percentages are counted in thousandths of a percent and fixed amounts in tenths
of a cent, so that the tolerance of 0.01 and the rounding of a fixed amount to
cents are part of the model.

**Expenses** — one group's expenses. A goroutine is a `pc` with what it has
read: `seen` (the handler's first look, DELETE only), `snap` (payer and image
path of the row `GetByID` returned), `shares` (the resolved splits), `doomed`
(the rows its DELETE statements will remove). The steps of a request are the
statements at which another request can come in:

| Request | Steps |
|---|---|
| POST | `Authorize` → `LoadGroup` → `CreateWithSplits` → `RecordAudit` |
| PUT | `ReadRow` → `ReadSplits` → `LoadGroup` → `UpdateRow` → `ClearOld` → `InsertNew` → `RecordAudit` |
| DELETE | `LookUp` → `ReadRow` → `ReadSplits` → `SoftDelete` → `RecordAudit` |

`CreateWithSplits` is one step because the row it inserts is invisible to
everyone before its commit. `UpdateWithSplits` is three: the UPDATE, which
takes the lock of a *live* row and matches nothing on a deleted one (gorm's
default scope) without an error; the DELETEs, which reach the rows visible to
them; and the INSERTs with the commit, where the foreign key refuses an expense
that is gone. The row becomes visible at the commit, so the new payer and
amount are written by `InsertNew`. `Fail(r)` is a failed statement, a client
that goes away or a server that stops, at any step: the transaction is rolled
back. Rivals are `AddMember`, `DeleteGroup` and `Purge`. Split and item rows of
one write are a `Batch`: they are inserted together and deleted by statements
with the same condition. The writer in a row or batch stands for `updated_at`
and the row ids. `applied` is a history variable: the requests whose statement
matched a live row. A deletion or an edit that matches none goes on to
`RecordAudit` like the others, as in the code.

**ExpenseTable** — the abstract specification: to its readers an expense
appears whole, is replaced whole, disappears once, and all disappear with the
group. `Expenses` implements it under the mapping `TableView`.

**Balances** — net balances, the two sorted lists, and `Owed`, a closed form of
the pairing: lay the debts of the debtors end to end on a line of cents, and
the credits of the creditors on another; a debtor owes a creditor the length
their stretches have in common. It has no recursion.

**DebtLoop** — the loop of `CalculateGroupDebts`, one iteration per step, for any
balances (`Nets`). The two lists come out of the map in any order (`MapOrders`)
and are sorted (`sortByUser`) before it starts. `ListsTheOverlaps` and
`OwedIsListed` say that it computes exactly that closed form. It justifies the
use of `Owed` in Settlements.

**Settlements** — payments recorded and deleted by concurrent requests.
`SettleDebt` reads the group twice (`LoadGroup`, `FindGroup`), then the
expenses, their splits (gorm's preload, a query of its own) and the settlements,
compares, and inserts. Its environment is the abstract expense table
(`WriteExpense`, `RemoveExpense`, `DeleteGroup` are actions of `ExpenseTable`),
so a request can read expenses, splits and payments of three different moments.
`moved[r]` is a history variable: the ledger has changed since `r` first read it.

**Groups** — groups, members and invite links. A fixed number of workers serve
calls; `call[w]` is what a call carries, `pc[w]` its next query. The lazily made
token is three steps, `ReadInviteToken` → `SetInviteTokenIfEmpty` →
`RereadInviteToken`, as in `GetInviteToken`; joining is `FindGroup` →
`AddMember`, whose INSERT ignores a conflict and is refused by the foreign key
of a group that has gone. `given` is a history variable: the invites answered.

**Contents** — what a group holds, on top of Groups: expenses and payments as
*entries* without amounts, comments, images in storage, the import and the
deletion of a group. A call about an entry is `Find` → `Authorize` → one or two
steps; `FindComment` → `DeleteComment` asks for the author only. The import asks
for membership, for expenses and for payments in three queries before its rows
(`CheckImport`, `ReadExpenses`, `ReadSettlements`, `ImportRow`, `ImportDone`).
Deleting a group is `CheckCreator` → `ReadPaths` → `EraseRows` → `EraseGroup` →
`CleanImage`\* → `Cleaned`. Its transaction is two steps: the statements up to the
DELETE of the payments, whose rows stay visible to others and locked (`erasing`)
until the commit, and the rest with the commit. In between a payment may be made,
which no foreign key refuses, and commented on; an expense that is added makes the
deletion fail. `base` (what was live when an import was asked for) and the column
`named` (all the images an entry has had) are history.

**Retention** — the purge on every instance, on top of Contents: `Wake` computes
a cutoff, `TryClaim` is the one conditional upsert of `job_runs`, then
`GetOldPaths` → `PurgeOldSoftDeleted` → `CleanOldImage`\*, with a stop (`EndJob`)
at every step and a clock (`Tick`) that runs beside all this.

**Sessions** — login (`FindUser` → `Register` or `SaveUser` → `Issue`), refresh
(`Consume` → `LoadUser` → `Issue`), logout and the preferences. `Consume` is one
GETDEL whose answer may be lost after it took effect; tokens also expire.
`SaveUser` writes the *whole* row read before, as `Save` does. A token's `chain`
is the login its session began with.

**Push** — subscriptions and notifications beside Sessions. Subscribing is
`CountSubscriptions` → `Upsert`. A notification runs in a goroutine of its own:
`PickRecipients` → `ListSubscriptions` → `Send`\*, and `CleanUp` after an answer
that says that the endpoint is gone. Endpoints die at any time (`EndpointDies`)
and never come back.

**ScanLimit** — the token bucket in memory, in integers: `Hour` units are one
scan, and `perHour` units flow in per tick. `Level` is the refill that `allow`
computes first; `Cleanup` forgets the buckets idle for an hour. `granted` counts
the scans since an arbitrary `start`, `promise` is the Retry-After answered; both
are there for the properties.

**ImportMath** — `ExportGroupCSV`, `ParsePreview`, `resolveSplits`, the category
maps and the bounds of a month as operators over files whose cells are sign,
whole part and digits. The loop over a Go map that picks the payer is
`PayerColumns`, the set of its possible results.

**Summary** — `GetHomeSummary`, `GetActivity` and `GetUnreadActivityCount` as
operators; a page is *any* newest-first order of equal dates.

**SplitCalls, ImportCalls, SummaryCalls** — one caller that asks a question of
SplitMath, ImportMath or Summary, looks at the answer and asks again. They state
the properties of those operators; what may be asked are CONSTANTS, so that the
theorems are about all requests, rows, ledgers and feeds. `MCSplitMath`,
`MCImportMath` and `MCSummary` only name the bounded values for TLC.

**MCArithmetic** — one instance for everything without interleaving: each
behaviour runs the pairing loop, or the buckets, or that caller.

Each module has a section of *slips*: changes a careless edit could make to a
step. The next-state relation uses none of them. Each property is shown to
notice one (`PROJECT.json`, `mutants`).

## 3. Runs

| Run | Bounds | Shows |
|---|---|---|
| `expenses` | 2 users, 1 first member, 2 expenses, 3 requests, 2 bodies | rows of one write stay together, splits are those of the body that wrote them, nothing is orphaned, tombstones stay, the audit credits nobody with another's change; refinement of ExpenseTable; the inductive invariant |
| `expenses_live` | 1 user, 1 expense, 3 requests | every request ends |
| `settlements` | 3 users, 1 expense id with 2 contents, 4 payments, 2 settlements, 2 requests | a payment overtaken by nothing is within the debt; a payment within the debt changes no other debt; only parties act; the audit is true |
| `arithmetic` | loop: every vector of balances of 4 members in −4..4, whether or not it adds up to zero (an import may store expenses whose splits miss their amount); splits: 3 users, each at most once, amounts 1–7 and 1, 2, 100 for percentages, weights with zeros, ties and sums off by more and less than the tolerance; rows: 3 columns with nets −3..3 under every mapping; ledgers: an expense in parts of 5 or 35 cents or with parts that miss its amount, every category, members with one name or two, perhaps a payment; two months; two groups and two currencies; feeds of four events and pages of three; buckets: settings 0–2, an hour of 3 ticks, 9 ticks | see below |
| `accounts` | 2 users, 3 tokens, 2 calls and 1 notification at once, 2 endpoints, cap 1 | sessions are single and keep their user; the cap is passed by no more than the calls under way; no working endpoint is cleaned up |
| `groups` | 2 users, an old and a new group, 2 invite tokens, 2 calls at once, 2 entries, 1 comment, 2 images, 2 instances, interval 1, retention 2, 3 ticks | invites hold, commenters belong, images outlive rows, a repeated import stops, purges are apart |
| `split_repeat` | as the splits above, with repeated users | **violation**: a user named twice loses cents |
| `expenses_party`, `_tombstone`, `_receipt` | as `expenses` | **violations** of three doc comments, below |
| `settlements_cap`, `settlements_orphan` | as `settlements` | **violations** of two doc comments, below |

`arithmetic` asks: do splits add up, stay within a cent of the exact share (a
fixed part: within half a cent of what was asked), keep the order of the weights
and ignore the order of the body; does the loop end with exactly the overlaps,
does paying all of the list clear all balances and paying one entry move only
that debt (`LoopInv`, `ListsTheOverlaps`, `OwedIsListed`, `PayingAllClears`,
`PayingMovesOnlyThatDebt`, `LoopEnds`); do the splits of an imported row miss
its amount by what its columns say and no more, does a ledger written to a CSV
come back whole, with the same balances where it can, is every expense in
exactly one month's workbook; does the home screen agree with the debts of the
groups, is the feed coherent with its badge; and is no user allowed more scans
in any window than the bucket and what flows in (at the hourly rate, or by the
clean-up at a bucket an hour), and let in when told to come back.

**Why the bounds are enough to matter.** Two requests show every race between
two writers; in `expenses` the third is needed because an expense must be created
by a request before two others can race on it. Two expenses let a request act on
one while another goes; the bodies are chosen so that one drops a user whom the
other keeps, one carries an image and one does not. Three users are the fewest
with ties and with one creditor of two debtors; four are needed for the loop to
change sides in the middle. A cap of one with two workers shows the overrun of
one; three tokens are a login, a successor, and a second session or a rival
successor. Two entries are what an import finds and what it writes, or an expense
and the one that shares its image. Three ticks let a tombstone grow old
(retention 2) and two claims be due (interval 1).

`Mixes` bounds what goes on in *one behaviour*: which kinds of call are made, how
many at once, how many purges. A run covers all its mixes; each brings together
the calls that touch the same rows (links with joins and deletion; receipts with
edits, deletion and purge; imports with payments, with removals and with
deletion), because calls on disjoint rows only multiply states. Ids, tokens,
images and ticks are used up in a behaviour: then an insert fails, which the code
must survive anyway. Requests, workers, tokens, images and ids are only compared
for equality, hence the symmetry sets; the runs with liveness use none.

**Fairness.** `FairSpec` of Expenses is weak fairness of each request's own
steps: the Go scheduler runs every runnable goroutine, and Postgres answers
statements and grants a free row lock. Arrival of requests, failures, joins,
deletion of the group and the purge are not fair: none has to happen. An UPDATE
waits as long as a rival holds the lock; that the wait ends is
`EveryRequestEnds`, and rests on `Fail` rolling back and on each transaction
touching one expense row. The fairness of DebtLoop says that a `for` loop whose
condition holds goes round again. The other state machines state none: their
calls never wait for one another, so that each ends is no question about this
code.

Deadlock is checked in every run; `Idle` and `Return` are the steps of states with
nothing left to do.

### What the violations show

* `split_repeat`: "the parts add up exactly to total (no cent is lost or
  invented)" (`service/expense_service.go:301-303`). Parts are stored in a map by
  user, so a body that names a user twice keeps one of that user's parts.
  Example: 100 cents by shares, 1 and 1, both to the same user, stores 50.
* `expenses_party`: "checked against the expense as it exists now, before any of
  these changes are applied" (`expense_service.go:59-61`). It is checked against
  a snapshot; a rival edit can remove the caller before the caller's own edit
  commits.
* `expenses_tombstone`: "an already-deleted expense can't be mutated again"
  (`repository/expense_repository.go:19-23`). An edit that read the expense
  before its deletion replaces the tombstone's splits and items. The row itself
  and the balances are not affected (`TombstoneRowFixed`, `ImplementsTable`).
* `expenses_receipt`: "nil to leave the existing image (if any) untouched"
  (`expense_service.go:61-63`). The path read earlier is written back over one
  attached meanwhile.
* `settlements_cap`: "Cap the settlement at what's actually owed in this
  direction right now" (`service/balance_service.go:157-158`). Two payments
  checked against the same debt are both recorded. What does hold is
  `CapHolds`: a payment nothing overtook is within the debt.
* `settlements_orphan`: "permanently removes the group and everything under it
  — ... every settlement" (`repository/group_repository.go:27-31`).
  `settlements.group_id` has no foreign key
  (`config/migrations/000001_initial_schema.up.sql:67`), so a payment computed
  before the deletion is inserted after it and stays.

## 4. Proofs

Proofs are for any number of users, requests, expenses, payments, tokens, calls,
groups, entries and instances, any bodies, any balances, any mix of calls and any
length of time. Every invariant and action property of the passing runs is a
theorem; PROJECT.json says which theorem states which.

**ExpensesProofs.** `Invariance` proves `Spec => []IInv`; the state properties
follow from it (`TypeCorrect`, `WholeWrites`, `NothingOrphaned`, `TrueAudit`, and
`Balanced` through the content of the batch). `OneWholeWrite` is not inductive:
that a commit leaves one batch needs to know that the rows it deletes are all
the expense has. `DoomedOK` says so *for the holder of the lock*; `LockOK` says
that the holder is a request between its first statement and its commit, that a
locked row is live, and that a request without the lock found its expense dead,
which it stays. `SharesOK` carries the resolved splits from the read of the
group to the commit and says their users are members *while the group exists*;
this is what `NoOrphans` needs when an insert races with the deletion of the
group. `TombstonesStay` and `Refinement` are proved step by step from the
invariant: `CreateWithSplits`, `SoftDelete`, `DeleteGroup` and the commit of a
locked update map to the table's actions, everything else, late edits of a
tombstone included, to a stutter.

**DebtLoopProofs.** `LoopInvariance` proves `Spec => []LoopInv`. The idea is the
*frontier*: `Paired` cents have been paired off on both lines, the debtor and
the creditor in turn both reach beyond it, and the debts listed are exactly the
overlaps before it (`ListedSoFar`). An iteration moves the frontier to the
nearer of the two ends. `OverlapsListed`, `PairsListedOnce` and `FewPayments`
follow. That the running totals of any balances rise, and by the amounts in the
lists, is proved too (`GoodInput`), from the facts about sums below. So is
`OwedAsListed`: positions in the sorted lists and ranks of members are the same
order, hence the loop's overlaps are `Owed`. `Settled` adds that what an entry
has lost is what the debts listed make its member pay; the loop stops at the end
of *one* list, and when the balances add up to zero both lines are equally long,
so that the other list is exhausted as well: `PaymentsClear`. `PaymentMovesOneDebt`
is the lemma about the line of cents, below.

**LedgerTheorems** is about `Balances` and the sums it is made of, not about a
state machine. Its first half are facts about sums over finite sets: taking an
element out, sums of sums, renaming (`SumRename`), grouping by a key
(`SumByKey`), disjoint unions. The library's induction theorems take a predicate
as parameter, which no installed prover can instantiate; `SubsetInduction` takes
a *set of good subsets* in place of the predicate and gets induction from the
well-foundedness of strict inclusion. The second half: stretches on the line of
cents do not overlap and fill it; `BalancesCancel` (the balances of a ledger
whose splits add up sum to zero); `PayingMovesOneDebt` (a payment within a debt
takes its length out of both lines at the same place, so every stretch beyond
moves by as much on both, and no other pair's common length changes); `OwedInAll`
(what the debts make a member owe, or be owed, in all is the member's balance).

**SettlementsProofs.** `Invariance`, from which `CapHolds` and `AuditIsTrue`
follow, and the action property `OnlyPartiesTouch`. The core is that a request
whose ledger has not moved holds exactly the rows of the current ledger
(`RowsOK`), so its comparison was with the current debt. The action
property `SettleMovesOnlyItsDebt` is `PaymentMovesItsDebt`: the new row raises
the payer's balance and lowers the payee's by its amount, and changes no other;
the rest is `PayingMovesOneDebt`.

**ArithmeticProofs.** `distributeProportionally` rounds every part down and hands
the cents left over to the first of a queue. `DistributeAddsUp` needs that there
are fewer of them than parts that were rounded down, `DistributeIsFair` that
nobody in the queue before them was not; `DistributeKeepsOrder` and
`DistributeIgnoresOrder` that the queue is ordered by remainder and then user,
whatever the positions. The properties of the four methods (`SplitsAddUp`,
`SplitsAreFair`, `HeavierPayMore`, `OrderDoesNotMatter`) follow for requests that
name nobody twice. `RowsAddUp` groups the columns of a row by the user they are
mapped to; `MonthsShareOut` finds for each expense the one month that has it;
`HomeIsRight` is `OwedInAll` added up over the groups of a currency;
`FeedIsRight` goes from neighbours on a page to any two of its events.
`LedgersSurvive` is in three parts: an amount that is formatted and parsed is
itself (`AmountsSurvive`); the row of an expense or a payment, with whichever
column is taken for the payer, gives the importers the nets it came from
(`RowsKeepBalances`); and the lines of the file, read back, are those rows, one
for one, so that the sums over rows are the sums over the ledger.

**PushProofs.** `PushInv` is the types, `RotationOnce`, `SessionKeepsUser` and
`OverrunBounded`. The heart is `TokenSteps`: a step leaves tokens alone, spends
one, spends one and takes its session up, or issues one; a call that has taken a
session up holds the right to its only successor, which `RotatingOK` ties to the
session's user. For the cap, the rows of a user and the upserts under way are
counted together: the count lets a call through only below the cap, and every
call that was let through is one of the workers. `OnlyDeadAreCleaned` needs that
an endpoint once gone stays gone, so an answer that comes late is still true.

**ScanLimitProofs.** `LimitInv` has two parts with content. `BucketOK`: scans
granted since the start of the window plus the level of the bucket never exceed
a full bucket plus what has flowed in. `PromiseOK`: until a promise is due, what
is missing from the bucket will have flowed in by then. `Cleanup` keeps both
because what flows in is counted as a full bucket an hour where the refill is less
(`Inflow`).

**RetentionProofs** builds one inductive invariant in three layers, for Groups,
Contents and Retention. `GroupsInd` adds to the types that a row keeps the token
it gave and no two rows share one (`TokensOK`), from which `OneInvite` follows.
`ContentsInd` adds what each call under way *relies on* (`Relies`): a comment
about to be inserted is by a member; the paths of a deletion are images of the
entries it will erase, and afterwards of erased ones (`GoneNames`); what an
import has found empty contains nothing that was live when it was asked for.
Each of these survives the steps of others because of what lasts
(`DeletedLast`): rows never come back, entries keep their group and what they
have named, members stay while their group does. Rows that a deletion under way
holds belong to its group and are held by no other (`erasing`). `RetentionInd`
adds that the paths of a purge are of tombstones old by its cutoff, or of rows
that are gone (`Doomed`), and that cutoffs only get older. `RetentionInvariant`
is the theorem, the five properties follow from it, and `PurgesAreApart` is
proved step by step from it.

**Assumptions.** `FormAssumption`, `MembersAssumption`, `NullAssumption`,
`TableAssumption`, `AccountsAssumption`, `WorkersAssumption`
(a finite number of calls at once), `CapAssumption`, `TimeAssumption`,
`GroupsAssumption`, `ContentsAssumption` and `RetentionAssumption` are typing and
distinctness of the constants; `LedgerAssumption`, `BalanceAssumption`,
`RequestAssumption`, `ImportAssumption` and `MonthAssumption` besides that ids are
numbers, that members and rows are finitely many, that an expense's amount is
positive (the handler refuses others) and that months follow one another. TLC
evaluates every one of them for the constants of the runs. Three have more
content:

* `SplitAssumption` of Expenses: the splits of an accepted body are for members,
  are never more than the amount, and add up to it when the body names nobody
  twice. `SplitsAddUp` proves the last of SplitMath, and `split_repeat` shows what
  is lost otherwise. `SharesAddUp` and `Balanced` are about all bodies, and
  promise the equality for those.
* `FileAssumption`: the ledgers exported satisfy `LedgerOK`: rows are of members
  (`NoOrphans`), dates and amounts are ones that the service stores. Neither
  different names nor splits that add up are assumed. `RoundTripKeepsBalances`
  promises rows and categories for every such ledger, and balances for those that
  are `Faithful`: without names of their own, or with splits that miss an amount,
  the file cannot keep them.
* `SummaryAssumption`: the groups on a home screen satisfy `GroupOK`, that is
  consist of rows of members. That the screen shows each group's balances is
  proved for all of them, that these agree with the debts listed where they cancel
  out: the splits of an import may not, and then the pairing lists less.

`BurstAndRefill` holds for all settings, because it counts the clean-up.

**Only model-checked.** Liveness (`EveryRequestEnds`, `LoopEnds`), which needs
ENABLED.

## 5. Abstractions and limits

* Bodies are a few records. Descriptions, categories and their validation,
  dates and the fields only shown to users are left out; a body refused for its
  wording is like one refused for its amount.
* Notifications are sent in a goroutine of their own after the change and touch
  no ledger state; they are left out here.
* Shares and percentages are exact rationals; the code uses `float64`. The runs'
  amounts are far from 2^53, where the two part. A sum of percentages off by
  exactly 0.01 depends on float rounding and is no input of a run.
* Amounts are unbounded integers; the code uses `int64` cents.
* READ COMMITTED is modelled at the level of statements on rows of one group:
  a statement sees what is committed when it starts; an UPDATE waits for a row
  lock and looks at the row again. Deadlocks *inside Postgres* need two row
  locks taken in opposite orders; an edit takes one.
* `DeleteGroup` is one step: it waits for locked rows, and a rival insert that
  a foreign key protects makes it fail and roll back.
* In Settlements a tombstone keeps its splits and is not purged: both matter
  only for a torn read, which sets `moved` anyway. Joining does not set `moved`,
  because a member without rows has no balance.
* Audit entries carry action, entity and actor; their text is left out.
* GET requests change nothing; what they see is `TableView`, `LivePayments`,
  `Owed` and the operators of Summary.
* In Contents a transaction is one step, but for the deletion of a group, which is
  two: payments have no foreign key to their group, so one that is made between
  the statements is not refused. What else another call commits between the
  statements of a transaction, a foreign key turns into its failure. Entries
  have no amounts, and any member may change one: who may is the matter of
  Expenses and Settlements. So an expense is modelled twice, at two grains.
* Random tokens never repeat, in Groups and in Sessions.
* In Push all registered users share one group; the membership a notification
  reads is that of the moment it is sent.
* Instances and the database agree on time (Retention), and a bucket's clock
  never goes back (ScanLimit, Go's monotonic clock).
* In ImportMath names stand for themselves: trimming, quoting, the repair of
  mis-decoded text and the Spanish category names are left out, and amounts have
  at least one digit before the point.

## 6. Not modelled

* **Generated API documentation** (`docs/docs.go`), a third of the repository's
  lines, is produced by swag and has no behaviour.
* **HTTP plumbing** (routing, encoding, validation of lengths, logging,
  recovery) and **configuration and migrations** run before the first request or
  only move input and output; the schema's keys are used where a statement
  depends on them.
* **The Redis limiter** is a script evaluated inside Redis, and lets a scan pass
  when Redis fails: neither a bound nor a wait can be promised of it.
* **Receipt recognition, resizing and signed URLs** are calls to outside services
  and pixel arithmetic. What storage does — a delete or an upload succeeds or
  fails — is in Contents and Retention.
* **Google OAuth, JWT and hashing** are external; Sessions begins where Google
  has vouched for an address.
* **MarkActivitySeen** is one UPDATE with the time of the call; **spending
  statistics** are sums over one read; **audit entries of joins and renames** are
  written and read by nobody else.

Some sentences of the repository promise more than the code keeps, without being
the matter of a run of their own; a property says what does hold:

* "splits always sum to exactly the total" (`service/import_service.go:627-630`):
  a second member who paid gets no split, and the others' splits cover that
  payment too; a negative drift is dropped when the payer has no share to take it
  off. `ImportedSplitsAddUp` says, for every row and mapping, by exactly how much
  the splits are then too large.
* "every comment on either" (`repository/group_repository.go:27-31`): a payment
  inserted between the DELETE of the payments and the commit stays, like the one of
  `settlements_orphan`, and until the commit a member may comment on it; so does
  that comment. `CommentersBelong` says that nothing else keeps one.
* "an immutable record of who did what, to what, and when" for questions like "who
  deleted this?" (`domain/audit_log.go:5-9, 26-27`): of two deletions that both read
  the live expense the second matches no row and is audited all the same, and so is
  an edit that comes after a deletion. `AuditIsTrue` says that this is the only way
  for an entry to be of something else than a change its actor made, and that the
  deletion that took effect is the one of `deleted_by_id`.
* "then refills at a sustained rate of `perHour`"
  (`middleware/rate_limit.go:43-44`): a bucket idle for an hour is evicted and
  made anew full, which is more than the refill when the burst is above the
  hourly rate (not so with the defaults, 5 and 10). `BurstAndRefill` bounds what
  that lets in, for any settings.
* export and import "are inverses of each other": balances are kept
  (`RoundTripKeepsBalances`) where members have different names and splits add
  up; payers are not when two nets tie, payments come back as expenses, and of
  two members with one name only one keeps a column.
* "Only allowed on a group with no expenses or settlements yet"
  (`handler/import_handler.go`): two imports asked for at once both pass.
  `ImportNeverRepeats` is what holds.
* "Each user can have up to 10 subscriptions" (`handler/push_handler.go`): calls
  at once pass the cap together, by the bound of `OverrunBounded`.
* The inclusive `to` of a spending range ends at 23:59:59: an expense in the last
  fraction of that second is left out. Whole months have exact bounds
  (`EachInOneMonth`).
* "a settlement can't be soft-deleted" (`domain/summary.go`): it can; deleted
  payments just leave the feed.
* A login saves the whole user row it has read, and so undoes preferences set
  since (`SaveUser`); an event between the feed and its mark is never unread; an
  image attached while its group is deleted, or whose upload nobody follows up,
  stays in storage for ever. Nothing in the repository says otherwise of these.
