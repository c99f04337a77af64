# Verification of the fintech ledger

TLA+ models of the ledger in this repository, the TLC runs that check them, and machine-checked
proofs about its core. Paths are relative to the repository root. `PROJECT.json` lists the
components, runs, hazards, findings and theorems, and maps each definition to the source lines it
stands for.

## The system

A multi-tenant double-entry ledger: a web console calls an oRPC server, which runs each call of an
organization inside one Postgres transaction at READ COMMITTED.

| part | state | operations | interacts through |
|---|---|---|---|
| `packages/core` | none (values) | `Transaction.create`, `deltas`, `reverse`, `applyDelta`, money and rates | called by db and api |
| `packages/db/src/posting` | account balances, transactions, postings, idempotency keys, audit | `postTransaction`, `postExchange` (reserve key, lock rows, apply legs, backfill) | row locks, unique indexes, savepoints |
| `packages/db/src/tenancy.ts` | the request's transaction | `withOrgScope`: opens it, **commits it even when the handler throws** | wraps every org-scoped handler |
| `packages/db/src/repositories` | accounts, pending transfers, settings, audit | create/close/reopen account, insert/mark pending transfer, read/write settings, paged reads | the same rows |
| `packages/api/src/procedures.ts` | rate-limit windows | session, membership, role, rate limit, approval gate | in front of the handlers |
| `packages/api/src/routers` | none | transactions, approvals, settings, accounts, sandbox, audit, reconciliation, dashboard | call the repositories and the posting routine |
| `packages/api/src/sandbox` | none | reset planner, seed scenarios | many postings under derived keys |
| `apps/server` | none | HTTP, health, logging | hosts the router |
| `apps/web` | one idempotency key per open form; the reset loop's counters | submit, retry, reset until done | calls the API, may lose answers |

What is hard here, and therefore what the properties are about:

- **Interleavings of requests** between any two statements: two postings on one account, duplicates
  of one request, a close against a posting, two reversals of one transaction, an approval against
  a rejection. The code relies on row locks and on blocking unique-index inserts.
- **Partial failure.** A refusal rolls back to a savepoint, not the request; a thrown error commits
  what the handler wrote before it. What is left behind must agree with the answer.
- **Crashes, timeouts, lost answers, retries.** Every write carries an idempotency key.
- **Reads without locks** used after other requests moved on: the approval gate, the pending row's
  status, the setting before its change, the balances reset plans from.
- **Limits**: the sufficient-funds rule and the storable range of an account that others move.

What makes each part correct: balances equal the sum of the postings and sum to zero per currency;
a closed account is empty; one key, one posting; an exchange is whole; a transaction is reversed at
most once; a pending transfer moves money at most once and its decision is final; every answer is
true of the stored rows; every request ends; the audit trail shows the setting's history.

## Modules

| module | models | run / proved |
|---|---|---|
| `LedgerRules` | the domain rules: legs, effects, the funds rule, the storable range, mirrors, request hashes | with `Posting` |
| `AtomicLedger` | the abstract ledger: a posting happens in one instant against the balances of that instant | target of `Posting`'s refinement |
| `Posting` | the posting routine as concurrent requests run it, with account closing and what is read of the tables | run, proved in `PostingProofs` |
| `RequestScope` | requests that open accounts and post several times in one transaction: first exchanges, seeds | run, proved in `RequestScopeProofs` |
| `Approvals` | maker-checker: submissions, decisions, the setting, its trail and the gate | run, proved in `ApprovalsProofs` |
| `Reset` | the reset planner, its calls, and the loop that drives them from two tabs, under the write limit | run, proved in `ResetProofs` |
| `Operations` | the abstract console: an operation is accepted once and nobody is told otherwise | target of `Console`'s refinement |
| `Console` | one tab: forms, idempotency keys, reloads, organization switches, the approval route | run, proved in `ConsoleProofs` |
| `TransferForms` | what the two transfer forms send, against what they say they send | run (violated) |
| `Reads` | keyset pages and the screens that walk them while rows commit late | run, proved in `ReadsProofs` |
| `Money` | the arithmetic of amounts, rates and comparisons; no state | proved in `MoneyProofs` |
| `SumLemmas` | facts about finite sums, for the proofs | proved |
| `MC*` | small instances for TLC | |

How they fit. `Posting` shows that the routine is atomic. `RequestScope`, `Approvals` and `Reset`
build on that: there a posting is one step once its rows are locked, and what is detailed is what
surrounds it. `Console` in turn takes a whole request as one step, and details the client. What is
coarse in one module is fine in another; the coarse steps only ever join steps that the finer
module shows to be atomic.

### Posting and the code

Committed tables are the variables `balance`, `active`, `ledger`, `keys` and `rejections`. Each
request `r` has the command it carries (`cmd[r]`), how far its handler got (`pc[r]`), the rows its
`SELECT ... FOR UPDATE` holds (`locked[r]`), its uncommitted writes (`uBalance`, `uRows`, `uKeys`)
and its `answer`. An action is one statement, or a run of statements between two points where
another request can matter:

| `pc` | code | actions |
|---|---|---|
| `idle` | arrival; `transactions.create`, `exchange`, `reverse` build the legs | `BeginPost`, `BeginReversal` |
| `reserve` | `reserveIdempotencyKey`: blocking INSERT in a savepoint, re-read on 23505 | `ReserveFresh`, `Replay`, `Conflict` |
| `lock` | `lockAccounts`: one row at a time, in any order; then existence, then activity | `LockRow`, `CheckRows` |
| `apply` | `applyLeg`, once or twice: currency, funds and range of each delta, the reversal index, the rows | `ApplyLeg`, `RefuseLeg` |
| `backfill` | the key row gets the transaction id, the savepoint is released | `BackfillKey` |
| `commit` | `withOrgScope` commits; the answer is delivered or lost | `Commit` |
| `audit` | after the rollback of a refusal, the best-effort rejection row, then the commit | `FinishRefused` |
| any | crash, lost connection, timeout; the deadlock victim | `Abort`, `BreakDeadlock` |

`CloseAccount` and `ReopenAccount` are `setAccountActive`, a single conditional UPDATE.

Abstractions. A leg is its touched accounts, its net deltas and the id it reverses; postings
that net to the same deltas are one leg, so the request hash tells legs apart only as far as the
ledger does. `Transaction.create` has accepted every command (`CommandsAssumption`: balanced, of
one currency; the *accounts* may disagree with it). Which offending account is reported when there
are several is left open. A row of `ledger` stands for the transaction, its postings and its
"posted" audit entry, which are inserted together under the same locks. One organization is
modelled: locks, keys and rows of different organizations never meet. Sequence of the two
`lockAccounts` calls of an exchange: the union is locked first, so the per-leg locks are re-locks
and do nothing. `transactions.reverse` reads the rows it mirrors before the reservation, in
`BeginReversal`: the named row first, and its counterpart, if it is a leg of an exchange, later and
without a lock. Each read sees what is committed by then. The counterpart and the link to it were
committed together with the named row, so the one thing that can change in between is that both get
reversed; a first read that missed this is a choice of the action (`seen`).

Postgres is modelled from how the code uses it: a row lock has one holder; an INSERT that meets
another transaction's uncommitted unique entry waits, and meets a violation if that transaction
commits; rolling back a savepoint releases the locks taken in it; a cycle of row-lock waits ends
with an aborted member. The wait on the reversal index (`ReversalPending`) is in the model because
it is in the schema; TLC shows it is never waited on, since two reversals of one transaction lock
the same accounts first.

What is read of the tables is in operators, because each is one SQL statement and sees one committed
state: `ComputedBalance`, `Unreconciled` and `Verify` are `reconciliation.verify`, `Position` the
overview's totals per currency. `Reconciles` and `Conserved` say what they answer.

### Approvals and the code

`pendings`, `ledger`, `required` and `trail` are the tables; `uRow`, `uTx`, `uSetting` a request's
uncommitted writes. `Insert`, `ReplaySubmission` and `RefuseSubmission` are `submitPending`;
`ReadPending`, `PostPending`, `ReplayPending`, `RefusePending` and `Mark` are `approve` and
`reject`, split at every statement others can interleave with; `ReadSetting` and `WriteSetting` are
`setRequireTransferApproval`; `Gate` and `PostDirect` are any direct posting. `Throw` goes to
`commit`, not to a rollback: that is what `withOrgScope` does. The posting routine appears as the
atomic ledger it implements: it posts, replays or refuses. Keys that start with `approve:` are
refused from clients (`contracts/idempotency.ts`), so the reservation of a pending row is never
taken by a direct posting. Rejection audit rows are left out of this module.

### RequestScope and the code

`withOrgScope` gives a request one transaction, and four handlers do more in it than one posting.
A request looks for accounts (`FindAccounts`), inserts those it did not find (`OpenAccount`,
`LoseNameRace`), and then posts its entries one after another, each in a savepoint (`ReserveKey`,
`ReplayEntry`, `KeyConflict`, `LockAccount`, `PostEntry`, `RefuseEntry`). `SetActive` is an admin who
closes or reopens an account meanwhile:

| command | code | accounts it opens | entries |
|---|---|---|---|
| `open` | `accounts.create` | the named one, without a look-up | none |
| `post` | `transactions.create`, `buildTransaction` | none | one |
| `exchange` | `transactions.exchange`, `findOrOpenFxBridge` twice at once | the FX bridge of each currency | one, of two legs |
| `seed` | `sandbox.seed`, `ensureAccounts`, `SEED_SCENARIOS` | six | six, one of which must be refused |

What `Posting` does not have: an INSERT of an account is outside any savepoint, so a unique
violation aborts the whole transaction (`aborted`) and its COMMIT is a ROLLBACK (`Commit`); locks of
earlier entries are kept when a later one is rolled back (`kept`), so cycles run over several
postings, and over names and keys too (`WaitsFor`, `BreakDeadlock`); a rejection row that cannot be
written aborts the transaction as well (`AuditRejection`).

Accounts are found by name alone, so a seed may meet accounts of another currency under its names.
`buildScenarioTransaction` reads the amounts in the currency of the account found: it throws where the
cents do not fit the currency or the accounts of one scenario disagree (`Buildable`,
`ScenarioThrows`), between two postings and outside any savepoint, so that what was posted before is
committed although the caller gets a 500. An account a seed finds may be closed too; that refusal,
like any other, is what the scenario that must be refused is content with (`LegRefusals`,
`RefuseEntry`). Calls start behind the approval gate, which `Approvals` and `Reset` have.
 The amounts of the scenarios are in units
of 50.00. An account is its name. A row of `ledger` is a leg with its key, its postings and
their net deltas; balances are sums of rows, which is what `Posting` shows of the stored ones.

### Reset and the code

A call on the server goes `gate` (the approval gate of `directPostProcedure`), `plan` (`listAccounts`,
`planResetChunk`, no locks), `suspense` and `open` (`ensureAccounts`), `post` (the chunk under
`<run key>:<chunk hash>`), `count` (the second `listAccounts`), `commit`. A tab runs `runReset`: `Press`
(with the stored run key or a fresh one), `Send`, `Throttle` (429: wait and send again, uncounted),
`Receive` (done, once more, out of calls, error). `LoseTab` is a lost connection or a reload: the call
it sent goes on as an orphan. The chunk hash is the chunk. `WindowPasses` is the limiter's window.

A chunk meets the refusals of the posting routine in its order (`Refusal`): a closed account before any
leg, then for each account the currency, the funds and the storable range, and last the column of the
suspense leg's amount, whose overflow nothing maps. `ensureAccounts` takes whatever account carries the
suspense name (`HolderOf`), so it may be closed, normal, or of another currency.

Others act in between. `Transfer` is a posting of somebody else, `SetActive` closes and reopens
accounts, `Claim` opens one under a suspense name with a type and currency of its own, `SetApproval`
switches the gate, and `Tamper` changes a balance by other means, which the refusal of an unbalanced
final chunk is there for. What a reset needs of the ledger to come to its end is `Clearable`: no
approval required, fit accounts under the suspense names, nothing closed with a balance, and no sum of
balances of a currency beyond what can be stored. A run whose key is minted when that does not hold
counts as disturbed from its start. The same name is looked up without regard to who opened it;
accounts opened under other names are at zero and no business of reset.

### Console and the code

An intent is what a person wants done once: a payload of one kind, in one organization. They submit
it until they are told that it is done. `Open` is the effect of a form that mounts (`startOperation`),
`Review` and `Submit` are `onReview` and `onConfirm`/`onSubmit`, `Succeed` and `Refused` the
mutation's callbacks, `StartOver` the offer after a conflict, `Fail` an error without an answer.
`Reload`, `FetchSetting`, `FetchAccounts` and `SwitchOrg` are the page around them; `SetPolicy` is
another admin. On the server a request is accepted, replayed, refused as a conflict or refused
(`Accept`, `Replay`, `Conflict`, `Refuse`); that each of these is one instant is what `Posting` and
`Approvals` show.

A key protects its intent only while the client keeps to it. `exposed` collects the intents for
which the code gives the protection up, and the actions say exactly when:

- the slot is replaced or cleared while an attempt of another intent of the kind may still be
  accepted (`NewOperation` after a conflict, `Succeed`, `Reload` without `sessionStorage`);
- the approval setting changed between two attempts, so that one is a posting and the other a
  submission: two endpoints, two key spaces (`Submit`);
- the session's organization was switched under a listed page, and the submission is parked in the
  other organization's queue (`Accept`).

Everything else - retries, late answers, edits of a draft, remounts, reloads, both stores - keeps it.

### TransferForms and the code

The inputs, the accounts on offer as they are refetched, the composed legs and what is sent, for
`transfer-form.tsx` (compose at review, confirm, send) and `fee-split-form.tsx` (send at once). A leg
is the account and the change a debit or credit makes to it (`signedAmount`).

### Reads and the code

One list at a time: `Fetch` is a page's query and `Receive` the rest of the read, for the statement a
second query that sums what lies before the cursor; in between, rows commit. A row's place is the
(`created_at`, `id`) it got when its transaction *began*, so a row may appear behind a cursor that
was handed out. `GoNext`, `GoBack` and `Reset` are the page state, `ExportNext` the loop of the CSV
export with its cap. The six lists differ in their order (`Before`), in whether rows leave
(`Matching`), and in the second query (`Opening`).

### Money

A text is what the decimal pattern makes of it (sign, whole part, fraction, places), whether it is
empty without the blanks around it (`empty`), has such blanks (`padded`), and is beyond the length
limit without them (`long`) or with them (`spills`). A currency is its exponent. Integers are exact, as
`BigInt` is, and only the columns' bound is finite (`MaxMinorUnits`). `Parse`, `ParseBounded` and
`ReadByServer` are the server's reader, which does not trim; `ParseAmount` is the console's, which
does (`Trim`), and names what it refuses. `Rate.parse` trims and is shared; the server's schema bounds
what it is given first (`RateByServer`). `Convert` is `Rate.convert`, `Preview` the figure the form
submits, `FigureRefusal` the handler's check of it. Everything said about them is a theorem over all
inputs, so there is no run.

## Runs

| run | checks | instance | result |
|---|---|---|---|
| `posting` | all safety of `Posting`, the inductive invariant, the refinement | 3 requests, 3 keys, 5 accounts, 2 currencies | 1,203,705 states, holds |
| `posting_live` | every request is answered | 2 requests, no symmetry | 66,696 states, holds |
| `lock_order` | the no-deadlock claim of `lock-accounts.ts` | as `posting` | violated |
| `requests` | safety and liveness of `RequestScope` | 2 requests, 15 commands, 2 accounts that may be closed | 39,048 states, holds |
| `approvals` | safety, final decisions and liveness of `Approvals` | 3 requests, 2 admins, 1 key, 2 payloads | 559,359 states, holds |
| `approvals_race` | "Balances only move on approve" | 3 requests | violated |
| `setting_trail` | "the trail has to show who did it and when" | 3 requests | violated |
| `reset` | safety of `Reset`, and that every loop ends | 2 tabs, 2 calls, chunks of 2, 11 accounts in 2 currencies | 146,009 states, holds |
| `reset_parked` | "it must not destroy the evidence" of a break | 1 tab, 1 call, chunks of 2, a suspense account that sorts last | violated |
| `console` | `AcceptedOnce`, `RefusedMeansNothing`, the refinement | 4 intents of 3 kinds, 2 organizations | 1,901,200 states, holds |
| `reads` | the walk, the statement, the export | 3 rows, 1 to a page, 6 lists | 1,567,044 states, holds |
| `fee_split` | the form sends what it says | 4 accounts, 3 amounts | violated |

What the properties say:

- `Posting`: `Reconciles` (balances equal the sum of the postings), `Conserved` (each currency sums to
  zero), `ClosedIsEmpty`, `BalancesAllowed`, `OncePerKey`, `WholePosting`, `ReversedOnce`,
  `AnswersAreTrue`, `ImplementsAtomicLedger`, `EveryRequestAnswered`.
- `RequestScope`: `RowsOnRealAccounts` (whatever is aborted or opened under a bridge's name, postings
  are on committed accounts of their currency), `Conserved`, `SeedInOrder` (an interrupted seed leaves
  a prefix), `AnswersAreTrue`, `EveryRequestAnswered`.
- `Approvals`: `PostedOnce`, `ApprovedIsPosted`, `SubmittedOnce`, `DecisionsAreFinal`,
  `AnswersAreTrue`, `EveryRequestAnswered`.
- `Reset`: `NoOverdraft`, `BreakIsKept` (the balances keep adding up to what was tampered with, the
  alarm is raised over a break only, no run over a break is told complete, and the break is not parked
  in the suspense account with the rest at zero as long as a balance lies behind that account in the
  order), `UndisturbedResetCompletes` (a run over a `Clearable` ledger that nobody else disturbs zeroes
  everything, or ends with the connection or over a suspense account another call opened: no refusal is
  met, and the loop is not out of calls), `EveryLoopEnds`. `BreakIsNeverParked` is the last part without
  its condition, which is what the ADR says; it is violated.
- `Console`: `AcceptedOnce`, `RefusedMeansNothing`, `ImplementsOperations`.
- `Reads`: `WalkIsComplete`, `NothingTwice`, `BalanceCarriesOver`, `StatementEndsAtBalance`.

Each has a mutant of the code that breaks it; the mutants stand in the modules next to what they
mutate.

Bounds and why they are enough:

- *Requests* of `Posting` and `Approvals`: every hazard of the posting routine is between two requests
  about the rows or the key of a third (fund, then two duplicates, two payments, or two reversals), so
  three are needed and suffice. They are interchangeable, hence the symmetry; liveness and the
  deadlock run have none. Three requests in `Approvals` are a submission and two decisions, two
  submissions and a decision, or two setting changes and a posting. In `RequestScope` the third is
  replaced by initial rows and accounts, and a request is six postings long.
- *Commands* of `Posting`: a retry, a changed payload under a used key, a payment that needs funding,
  a second funding that overflows, an unknown account, a wrong currency, an exchange, an exchange
  whose second leg alone is refused, one the bridge itself pays, so that two requests are left to
  reverse it at once, a wash; plus every reversal of every committed row. Those of
  `RequestScope`: exchanges in both directions, two in one direction, of one currency and with
  figures that disagree; a bridge's name, or one of a seed's accounts', taken by an account of
  the wrong currency; two seeds, a retry, and payments that meet a seed on its rows or under one of
  its keys. A bridge and an account of the seeds may be closed.
- *MaxBalance*: 2 in `Posting`, where two fundings of 2 exceed it, one does not, and the second leg of
  the dear exchange does; 120 in `RequestScope`, where one seed's funding of 100 fits and two do not.
- *Accounts*: in `Posting` two normal ones and an external one in USD, the bridge and a normal one in
  EUR, and an id that is no row. In `Reset` a currency with one account more
  than a chunk takes and a suspense account whose id sorts first, and one with two accounts, at zero
  unless tampered with; for the suspense name an account of another currency, a normal one and a fit
  one; and a suspense account that may be closed. A posting of somebody else makes the first chunk add
  up to more than `Limit`. For `reset_parked` two full chunks of
  accounts in one currency, and a suspense account behind them.
- *Reset*: `MaxCalls` 2 and one write per window make the loop run out, be throttled and be
  throttled by its own orphan; two starts give a resumed and a fresh run, or two tabs at once; one
  change by others puts a posting, a closed account, a taken name, a switched gate or a break anywhere
  among them.
- *Console*: three sends are two attempts of an intent and one of another that shares its slot, or
  three attempts; two keys are the slot before and after; one event is a reload, a switch or a
  changed setting. Two of the transfers are interchangeable. The proof has none of these bounds.
- *Reads*: three rows, one to a page, are a page before, on and after a cursor; two milliseconds give
  ties and late commits; the export of two pages stops short of three rows.

Deadlock is checked in the posting runs: admins may always reopen an account, so the check only
says that the model never gets stuck elsewhere; that requests end is `EveryRequestAnswered`. In all
other passing runs every request, tab, form or row may be over, so deadlock checking is off.

Fairness. `Posting`, `Approvals`, `RequestScope`: weak fairness of `Step(r)` for each request. A
handler whose next statement can run does run it, Postgres wakes a waiter when the holder ends and
breaks lock cycles. Weak fairness is enough because a wait that is over stays over unless another
request takes what was awaited, which a finite set of requests can do only finitely often. Nothing is
assumed of arrivals, crashes, lost answers or admins. With `statement_timeout` a long wait would end
in an abort; the model does not rely on it. `Reset`: weak fairness of each tab's loop, of each
call's steps, and of the window's passing; people need not press, and nothing need fail. A call that
hangs is not assumed to be answered: it is one whose steps are weakly fair. `Console` and `Reads`
have no liveness: a person need not go on.

## Findings

1. **Lock order** (`lock_order`). `lock-accounts.ts:36` sorts the ids, but they only feed an IN list;
   without ORDER BY, FOR UPDATE locks rows in scan order, which may differ between two statements.
   The deadlock that `lock-accounts.ts:12-15` and the runbook rule out is possible. It costs an
   error: `posting` shows that no invariant is lost, and `posting_live` that the others go on.
2. **Approve against reject** (`approvals_race`). A rejection that commits between an approval's
   read and its mark leaves the row rejected and the money moved: the approval throws CONFLICT,
   but `withOrgScope` commits its posting. Related: `approvals.ts:198-203` says a second approve
   replays the original transaction; it does so only inside the routine, and the caller
   gets CONFLICT from the mark.
3. **Trail of the setting** (`setting_trail`). The change is audited if it differs from a value read
   without a lock; two concurrent changes can leave one unrecorded.
4. **A break can be parked** (`reset_parked`). The refusal of an unbalanced final chunk is what keeps
   the evidence of a break, but a chunk is final only if no other account of the currency is pending,
   and the suspense account is pending like any other. If its random id sorts behind every account
   with a balance, it is what the last chunk of those leaves over; that chunk gets a suspense leg, and
   the break ends up in the suspense account alone, which the next call refuses as
   `too_few_postings`. `BreakIsKept` is what remains true, and is proved.
5. **The fee split is inverted** (`fee_split`). `fee-split-form.tsx` debits the funding account and
   credits the merchant and the fee account. In this ledger a debit adds and a credit takes away, so
   the money moves from the merchant and the fee account to the funding account, or is refused.

Met while modelling, and part of the models, but without a run of their own:

- `transactions.ts:394` says "Lost the race. The winner's row is now readable." It is not: the
  violation has aborted the transaction, the look-up throws, and the caller gets an unmapped error
  (`LoseNameRace`). A retry succeeds. `ensureAccounts` in `sandbox.ts` is the same.
- The approval gate is read once, before the handler (`Gate`): a posting in flight commits after the
  setting is on. The runbook (`docs/operations/runbook.md:119`) says every direct post is then refused.
- A run key that meets a state it already had replays that chunk and posts nothing, so a reset
  resumed after other postings may spend all its calls (`ReplayChunk`; `UndisturbedResetCompletes`
  therefore speaks of undisturbed runs). ADR 0008 calls the reset resumable without this condition.
- A break on a single account is refused as `too_few_postings`, not as an unbalanced transaction
  (`CreateRefusal`): the legs are counted before they are summed.
- A retry of the reversal of an exchange that reads the named leg before the first attempt's commit and
  the counterpart after it takes the survivor's path, under another fingerprint, and is told that its
  key conflicts (`BeginReversal`); `transactions.ts:269-277` avoids that false 409 for a retry that
  reads both legs after the commit. Nothing is posted twice (`ReversedOnce`), and a further retry
  replays.
- A seed that finds accounts of another currency under its names may throw between two of its postings
  and commit the first ones (`ScenarioThrows`).
- `ensureAccounts` takes an account of any type and currency, closed ones too, for the suspense account;
  reset is then refused at that chunk each time it is tried (`FindSuspense`, `Refusal`).
- Two calls of one run can race to open a suspense account, when the first is an orphan; one is
  aborted and the loop ends with an error (`OpenSuspense`).
- The transfer form's inputs stay editable under a review, and the sentence to confirm is built from
  the inputs, the legs from the review (`OnConfirm`): with the transfer form among `Forms`,
  `SentAsShown` fails for it too. `submission.ts:103-108` has a person confirm the direction in that
  sentence, without restating the inputs.
- Slots and page cursors survive a switch of organization within the tab (`SwitchOrg`), which is what
  `idempotency.ts:34-38` chose `sessionStorage` to avoid: the key then resumes in the other
  organization. `Console` counts what that exposes.
- The comment at `repositories/transactions.ts:40-45` says that nothing forbids reversing a transaction
  twice; the schema has a unique index on the reversed id, and `ReversedOnce` holds.
- The CSV export stops after fifty pages (`ExportNext`).

## What is proved

For every value of the constants, from the modules' named assumptions only:

- `PostingProofs`: `Invariance` (`Spec => []IInv`), and from it `TypeCorrect`,
  `AccountsReconcile`, `MoneyIsConserved`, `BalancesStayAllowed`, `ClosedStaysEmpty`, `KeysPostOnce`,
  `PostingsAreWhole`,
  `ReversalsHappenOnce`, `AnswersStayTrue`; `Refinement`: `Spec => ImplementsAtomicLedger`.
- `ApprovalsProofs`: `Invariance`, `TypeCorrect`, `PendingPostsOnce`, `ApprovalsArePosted`,
  `KeysSubmitOnce`, `AnswersStayTrue`, and the action property `DecisionsStay`.
- `ConsoleProofs`: `Invariance`, `TypeCorrect`, `OperationsHappenOnce`, `RefusalsMeanNothing`,
  `SuccessesAreTrue`, and `Refinement`: `Spec => ImplementsOperations`.
- `MoneyProofs`: `FormatParsesBack`, `ParseNeverRounds`, `ConsoleReadsLikeServer`,
  `HalfUpIsNearest`, `PreviewIsAccepted`, `DriftIsDifference`, `ConservedIsSeen`.
- `RequestScopeProofs`: `Invariance`, `TypeCorrect`, `RowsStayReal`, `AnswersStayTrue`,
  `BooksStayBalanced`, `SeedsStayInOrder`.
- `ResetProofs`: `Invariance`, `ResetNeverOverdraws`, `TypeCorrect`, `BooksInvariance`,
  `ResetKeepsTheEvidence`, `CleanInvariance`, `UndisturbedResetsComplete`.
- `ReadsProofs`: `Invariance`, `TypeCorrect`, `WalksAreComplete`, `NothingShownTwice`,
  `StatementInvariance`, `StatementsEndAtBalance`, `BalancesCarryOver`.
- `SumLemmas`: `SumTakeOut`, `SumByGroup` and the other facts about sums the above rest on.

So every safety property a passing run checks is a theorem. One has a hypothesis:
`UndisturbedResetsComplete` says, of a run whose key was minted over a `Clearable` ledger that nobody
else changed since, that it meets no refusal and that its loop is not out of calls, which depends on how
many it has. `EnoughCalls` asks for chunks of two accounts at least and for calls enough for the
accounts and currencies there are; with the code's 100 calls, chunks of 99 and ten currencies it holds
up to 8829 accounts. It is a bound that suffices, not the least: the instance of the run `reset` has
fewer calls and is checked by TLC only.

The assumptions say what the code fixes before any of this runs: which commands handlers build
(`CommandsAssumption`, `ScopeAssumption`: earlier postings balance, are on accounts of their currency
and by none of the modelled requests), that ids, amounts, limits and bounds are numbers and the
accounts finitely many, and that the books were balanced in each currency before the first reset and
postings of others stay within one (`ResetAssumption`, `ReadsAssumption`). That a reset finds its
suspense accounts open, external and of their currency is not assumed. `SeedKeysAssumption` is for
`SeedsStayInOrder` alone: no other command posts a *scenario's own legs* under a key of a seed.
A client's key is a random UUID (`web/src/lib/ledger/idempotency.ts:124-128`), a seed's a run key and a
suffix; who posts a scenario's legs under its very key passes for the seed, and a seed that never ran
would seem to stand without what comes first. Other legs under such a key are allowed, and in the
run. TLC evaluates each assumption on its run.

### Sums

Balances are sums over finite sets, by the community modules' `SumFunctionOnSet`, which takes an
arbitrary term first and recurs. The library's induction theorems cannot be instantiated, so
`SumLemmas` argues by smallest counterexample: among the subsets of a finite set for which a fact
fails, `Fewest` picks one with the fewest elements, and taking one element out contradicts it. That the
recursion has a solution at all (`AddsExists`), that any term may be taken out first (`SumTakeOut`),
unions, sums of sums and sums by groups (`SumByGroup`) are proved so.

### Posting

None of the properties is inductive alone. A commit overwrites balances with values computed
earlier, so that it keeps `BalancesAllowed` needs that those values are still current. `IInv` adds
the reasons, one conjunct each:

- `LocksExclusive`: a row has one holder. `NothingLeftOpen`: outside a posting a request holds
  nothing - neither before its reservation nor after a rollback.
- `ChecksStillHold`: past the checks a request holds every account it touches, and they are open
  (so a close, which needs the row free, cannot slip in).
- `WorkOnCurrent`: the staged balance is the *committed* balance plus the legs applied so far, it
  obeys the rules, and the staged rows are exactly those legs. This is what makes a commit one
  atomic posting.
- `ReservationsExclusive`: two open requests never hold one key, nor one that is already spent.
- `HistoryMatchesKeys`: key rows and ledger rows come together, from requests that are over.
- `ReversalsDistinct`: no two rows reverse one transaction, counting uncommitted ones.
- `DecidedAnswersTrue`: an answer is true from when it is decided.
- `Reconciles`, `Conserved` and `LegsBalanced` support each other: the staged balance is the sum of the
  rows and the leg, and a balanced leg adds nothing to its currency.

The proof has a lemma per conjunct (`LocksStep`, `WorkStep`, `MoneyStep`, `HistoryStep`,
`ReservationsStep`, `ReversalsStep`, `AnswersStep`), each by cases on the action. `OthersUntouched`
and `OwnStep` give the frame (a request changes only its own transaction), and `OnlyCommitWrites`
says that nothing but a commit changes balances, ledger or keys. The refinement follows:
`CommitIsPost` shows that a commit from `IInv` is `AtomicLedger!Post` of the key row it adds, closes
and reopens are themselves, and all other steps stutter.

### Approvals

`IInv` is `Core /\ Settings`. `Rows` and `Postings` say of the stored tables what the properties say,
and that both come from requests that are over. `Own(r)` says what an open request holds: a row it
will insert under a key nobody has, a decision of a row that *still is pending* - the conditional
UPDATE locks it - or a posting for a row that nothing was posted for; and what its answer will mean.
`Apart` keeps two open transactions from holding one key, row or reservation. Without `Own`'s clause
for an approval that posted and has not marked, `PostedOnce` would not be inductive; finding 2 is
visible there as the disjunct that the row may have been decided meanwhile. There is a lemma per
action; that of `Commit` is split by table.

### Console

`IInv` is `TypeOK /\ Net /\ Rows /\ Mounted /\ InSlot /\ OneKey /\ TellsTrue`. The core is `InSlot`: as
long as an intent is neither exposed nor told, an attempt whose key may still be accepted for it
carries the key of its slot. A new attempt reads that slot, so all live attempts carry one key on one
route (`OneKey`), and the server keeps one row for a key, a route and an organization (`Rows`).
`Mounted` ties a form's copy of the key to the slot, `Net` an answer to its attempt. The refinement
maps `done` and `repeated` to the intents with a row and with two; only `Accept` and `Succeed` are
visible.

### Money

`Tens` is a table, so powers of ten need no induction; `Split` and `Rescale` are the two facts of
arithmetic the rest follows from. `ConsoleReadsLikeServer` compares the two readers of one text: the
console accepts it exactly if the server accepts what trimming leaves (`Trimmed`), with the same number;
padded text as it stands the server refuses; and the console's names (`empty`, `too_long`, `malformed`,
`out_of_range`) are what is wrong with the text. `PreviewIsAccepted` follows from it for the trimmed
amount and rate, which is what the exchange form sends (`exchange-form.tsx:195-196`).

### RequestScope

`IInv` says why a race cannot put a posting on the wrong account. Closing and reopening accounts changes
none of it (`NextIs` counts that among the steps of no request). `AccountsApart`: the names an open
transaction inserted are nobody else's, committed or not, because an INSERT waits for a pending name
and fails on a taken one. `RowsReal`: what is posted, committed or not, is on accounts that are
committed or the request's own, in their currency (`NewRowsReal`: a posting is only made if no leg is
refused, and a leg on a row of another currency is). A commit adds a request's accounts and rows
together, or, aborted, neither.

For the answers, `AInv` adds `Own`: until it commits, nothing of a request is in the ledger; a request
other than a seed has posted nothing before its last entry; a seed has posted, or found, every
scenario before the next one; an aborted transaction is never about to say "ok"; and at its commit
the verdict is true of what the commit will write. `Truth` says that with the ledger as a parameter, so
that it survives the commits of others (`TruthStands`).

For the books, `Booked` says that every row, committed or not, has legs that sum to zero, which is what
`Build` checks; that a currency's balances then sum to zero (`BooksBalance`) takes one row after the
other out of the ledger, each of which is within one currency by `RowsOnRealAccounts`.

For the order of a seed, `OInv` adds `KeysApart` and `Ordered`. `KeysApart`: the keys of committed rows,
of each open transaction's rows, and of what requests hold reserved are disjoint - a reservation waits
for, or finds, every other. `Ordered` says of the ledger, and of the ledger with each open transaction's
rows, that no entry stands without those before it, and of a seed at its n-th entry that all before
it stand (`SeedSoFar`). A commit joins two sets that are in order and share no key, so the union is
(`OrderJoins`, `OrderGrows`). Rows that stand for an entry are its seed's own, or an earlier attempt's, by
`SeedKeysAssumption` and because a key under a run tells the run and the entry: no two keys of the plan
end alike (`SeedKeyTells`).

### Reset

A chunk is planned from balances nobody holds still, so the argument is not about the plan. `Own`: a
delta that is posted and not committed fits the *committed* balances, because the posting was checked
under its locks; `Apart`: two calls never have uncommitted postings on one account. Hence a commit,
which adds the delta to whatever the balance is by then, adds it to the balance it was checked
against. `PlannerTakes` and `SuspenseIsNotNormal` show that a plan names accounts of a currency and never
takes a suspense account for a normal one, which would let the counter-leg overdraw it.

`BInv` is about the books. `Chunks`: what a call plans is of one currency and what it posts sums to zero,
so only `Tamper` moves a sum (`Books`), and the alarm, which is raised over an uneven final chunk, means
a break (`Verdicts`). `Standing` is the subtle part: while a currency does not add up and an account
behind its suspense account held a balance, some account h is the last one with a balance, behind the
suspense account and behind every account that a call is about to change. A chunk that would take h
takes all that is left, is final, and is refused; so h stays, and the difference is never in the
suspense account alone. `Untouched` gives the first h.

`CInv` is about a run that nobody else disturbs (`Clean`), its orphaned calls included. Each of its calls
that is going to post has the chunk that the balances ask for now (`Fresh`), or one whose key is spent on
the same legs (`Good`): a posting turns every other call of the run from the first into the second, since
two fresh calls have one key. A fresh key is never spent, because an account other than the suspense
account that a chunk zeroed stays at zero (`Gone`). So nothing is refused (`ChunkClears`: a chunk has two
accounts at least and takes whole balances) and nothing conflicts. The calls are counted by what is left
to do (`ToDo`): accounts to zero, plus ChunkSize - 2 for each currency with a balance, whose last chunk
may be small. Every posting takes at least ChunkSize - 1 from it (`ChunkCounts`), and every answer of the
loop is paid for by one (`Credit`): by its own, or, when its chunk was posted already, by the orphan's
that came between its plan and its answer (`Owed`).

That a due chunk is not refused rests on three more facts. `Opening`: while reset's own suspense account
is not there, nobody closes it and no call has opened it under a name that is taken; so, with
`Clearable`, the account a chunk takes is open, external and of its currency (`NamesFit`). `Fit`: the
ledger of a clean run stays `Clearable`, because only its own chunks change it. `StillStorable`: when
some balances are moved to one account, or cancel out, every sum that can be formed afterwards could be
formed before, so what was storable stays so (`ChunkStorable`, `NotRefused`). What is left is the lost
race for the suspense account's name, which the property names. With chunks of one account a full chunk
may be the suspense account alone and the loop gets stuck, so `EnoughCalls` excludes them.

### Reads

The first part is about the order of a list: it is strict and total on rows with distinct ids
(`Order`), the first rows come before the others, there are at most so many, and the first rows of
the first rows are the first rows (`FirstIsDown`, `FirstIsBounded`, `FirstOfFirst`), so the row fetched
beyond the page decides exactly whether another page exists (`SplitAnswers`). A finite set of rows has
a first and a last one by the least of the counts of rows before and after them. The second part is
the walk: `Covered` - what lies at or before the k-th cursor and was there at the start is on a page
before it - and `Behind`, its converse. Each is needed for every k, since "previous" returns to an
earlier cursor; a refetch replaces a cached answer by one that saw no less of what is owed (`Cached`).

For the statement, `StatementInv` keeps of every cached or passed answer that its opening balance is the
sum of the rows at or before its cursor, among those the second query saw (`Told`), and that "next" went
to its last row. The two sums are then of disjoint sets whose union is what is claimed (`SumOfTwo`).

### Only model-checked

- All liveness (`EveryRequestAnswered`, `EveryLoopEnds`): fairness and ENABLED are out of the prover's
  reach.

## Not modelled

- *Server*: HTTP routing, CORS, logging, health. Input and output around the handlers.
- *Sessions, membership, roles*: one refusal that may happen to any request. *Row-level security*,
  foreign keys and immutability triggers: one organization is modelled, and the code never issues
  what a trigger would refuse.
- *The user's rate limit*: a token of it is spent before the organization's is tried. Counting is the
  limiter library's.
- *Organization metadata* other than the approval setting: rewritten whole from an unlocked read, so
  a concurrent change of another field may be lost; nothing in this repository writes another.
- *Audit rows of refusals before the routine*: nothing is uncommitted when they are written.
- *The replayed flag of a submission*: from a look-up before the INSERT, so the loser of a race is
  told it is new; the row it names is right.
- *Decorations and filters of pages*, the activity chart, the counters, wire formats, layout,
  sign-in, members: reads and rendering that feed nothing back.
- *auth and env packages*: configuration.

## What is left

In order of worth: that `RequestScope` implements `AtomicLedger` entry by entry, two tabs of one
`Console` sharing a browser session, and the filters of the lists.
