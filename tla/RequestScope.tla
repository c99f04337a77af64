---------------------------- MODULE RequestScope ----------------------------
(***************************************************************************)
(* Requests that open accounts and post several times inside the one       *)
(* Postgres transaction withOrgScope gives them: accounts.create,          *)
(* transactions.create, transactions.exchange with its FX bridges, and     *)
(* sandbox.seed.                                                           *)
(*                                                                         *)
(* What Posting leaves out is here: accounts are rows that requests insert *)
(* (outside any savepoint, so a unique violation aborts the transaction),  *)
(* a request keeps the row locks of its earlier postings until it ends,    *)
(* and one request can commit some postings and fail.  What Posting        *)
(* details is one step here: once its rows are locked, a posting applies   *)
(* its legs at once, and an admin closes or reopens an account at once.    *)
(* An account is its name, unique in an organization.                      *)
(***************************************************************************)
EXTENDS Integers, Sequences, FiniteSets, Functions

CONSTANTS
  Requests,         \* org-scoped API calls
  Commands,         \* what they may ask for
  InitialAccounts,  \* accounts that exist already
  InitialRows,      \* postings already made
  Closable,         \* names of the accounts that admins close and reopen
  MaxBalance,       \* MAX_MINOR_UNITS
  NoCommand,        \* a request that has not arrived yet
  NoRow             \* SQL NULL in reverses_transaction_id

\* Amounts are bigints.  Earlier postings balance, are on accounts of their currency,
\* and are by no request here.
ASSUME ScopeAssumption ==
  /\ \A c \in Commands :
       /\ c.op \in {"open", "post", "exchange", "seed"}
       /\ c.op = "post" =>
            IsFiniteSet(DOMAIN c.legs) /\ \A i \in DOMAIN c.legs : c.legs[i].amount \in Int
       /\ c.op = "exchange" => c.amount \in Int /\ c.targetAmount \in Int
  /\ IsFiniteSet(InitialAccounts) /\ IsFiniteSet(InitialRows)
  /\ \A s, t \in InitialAccounts : s.name = t.name => s = t
  /\ \A row \in InitialRows :
       /\ row.by \notin Requests
       /\ IsFiniteSet(DOMAIN row.delta) /\ row.delta \in [DOMAIN row.delta -> Int]
       /\ SumFunction(row.delta) = 0
       /\ \A name \in DOMAIN row.delta :
            \E s \in InitialAccounts : s.name = name /\ s.currency = row.currency

VARIABLES
  accounts,  \* committed ledger_account rows
  ledger,    \* committed transactions: one row per leg, with its key
  closed,    \* names of the accounts that are not active
  cmd,       \* the command each request carries
  pc,        \* how far its handler got
  toFind,    \* accounts its next look-ups ask for, in order
  toOpen,    \* those it did not find and inserts next, in order
  opened,    \* accounts it inserted, uncommitted
  next,      \* which of its entries it posts next
  locked,    \* account rows it holds
  kept,      \* those it held when the current savepoint began
  rows,      \* transactions it posted, uncommitted
  aborted,   \* Postgres only takes ROLLBACK from it now
  verdict,   \* what the handler returned or threw
  answer     \* what the caller was told

committed == <<accounts, ledger, closed>>
work == <<toFind, toOpen, opened, next, locked, kept, rows, aborted, verdict>>
vars == <<committed, cmd, pc, work, answer>>

Account(name, type, currency) == [name |-> name, type |-> type, currency |-> currency]
Names(specs) == {s.name : s \in specs}
Named(specs, name) == CHOOSE s \in specs : s.name = name

\* SEED_ACCOUNTS: money enters through the one external account.
SeedAccounts ==
  <<Account("Sandbox Funding", "external", "USD"), Account("Operating", "normal", "USD"),
    Account("Employee A", "normal", "USD"), Account("Employee B", "normal", "USD"),
    Account("Marketplace Seller", "normal", "USD"), Account("Platform Fees", "normal", "USD")>>

FxBridge(currency) == Account("FX Bridge " \o currency, "external", currency)

Debit(name, amount) == [account |-> name, direction |-> "debit", amount |-> amount]
Credit(name, amount) == [account |-> name, direction |-> "credit", amount |-> amount]

\* SEED_SCENARIOS, in units of 50.00 USD.
SeedScenarios ==
  <<[id |-> "funding", expect |-> "posted", reverseAfterPost |-> FALSE,
     legs |-> <<Debit("Operating", 100), Credit("Sandbox Funding", 100)>>],
    [id |-> "payroll", expect |-> "posted", reverseAfterPost |-> FALSE,
     legs |-> <<Debit("Employee A", 30), Debit("Employee B", 20), Credit("Operating", 50)>>],
    [id |-> "marketplace_payout", expect |-> "posted", reverseAfterPost |-> FALSE,
     legs |-> <<Debit("Marketplace Seller", 19), Debit("Platform Fees", 1),
                Credit("Operating", 20)>>],
    [id |-> "insufficient_funds", expect |-> "rejected", reverseAfterPost |-> FALSE,
     legs |-> <<Debit("Marketplace Seller", 20000), Credit("Employee A", 20000)>>],
    [id |-> "reversal", expect |-> "posted", reverseAfterPost |-> TRUE,
     legs |-> <<Debit("Marketplace Seller", 4), Credit("Operating", 4)>>]>>

\* scenarioKeys, below the run key: what is posted and then reversed has two.
PostKey(s) == IF s.reverseAfterPost THEN <<s.id, "original">> ELSE <<s.id>>
ReversalKey(s) == <<s.id, "reversal">>

\* What postTransaction or postExchange is asked: a key, one or two legs with
\* their currencies, and whether a refusal is what the caller is after.
Entry(key, legs, currencies, expect, reverses) ==
  [key |-> key, legs |-> legs, currencies |-> currencies,
   expect |-> expect, reverses |-> reverses]

\* An entry of the plan: its currency is that of the accounts it meets.
Planned(key, legs, expect, reverses) ==
  [key |-> key, legs |-> legs, expect |-> expect, reverses |-> reverses]

Mirrored(legs) ==
  [i \in DOMAIN legs |-> IF legs[i].direction = "debit"
                         THEN Credit(legs[i].account, legs[i].amount)
                         ELSE Debit(legs[i].account, legs[i].amount)]

ScenarioEntries(s) ==
  LET post == Planned(PostKey(s), <<s.legs>>, s.expect, NoRow)
  IN IF s.reverseAfterPost
     THEN <<post, Planned(ReversalKey(s), <<Mirrored(s.legs)>>, "posted", PostKey(s))>>
     ELSE <<post>>

SeedPlan ==
  LET entries(n) == ScenarioEntries(SeedScenarios[n])
  IN entries(1) \o entries(2) \o entries(3) \o entries(4) \o entries(5)

\* An entry of the plan under the run key of one call.
SeedEntry(run, n) ==
  Planned(run \o SeedPlan[n].key, SeedPlan[n].legs, SeedPlan[n].expect,
          IF SeedPlan[n].reverses = NoRow THEN NoRow ELSE run \o SeedPlan[n].reverses)

CurrencyOf(name) == Named(accounts, name).currency

\* The currency of an account a request found or opened under a name.
CurrencyFound(r, name) == Named(accounts \cup opened[r], name).currency

\* Payer to the bridge of its currency, bridge of the other currency to payee.
ExchangeEntry(c) ==
  LET source == CurrencyOf(c.from)
      target == CurrencyOf(c.to)
  IN Entry(c.key,
           <<<<Debit(FxBridge(source).name, c.amount), Credit(c.from, c.amount)>>,
             <<Debit(c.to, c.targetAmount), Credit(FxBridge(target).name, c.targetAmount)>>>>,
           <<source, target>>, "posted", NoRow)

Entries(c) == CASE c.op = "seed" -> Len(SeedPlan) [] c.op = "open" -> 0 [] OTHER -> 1

\* buildScenarioTransaction, where it does not throw.
BuiltEntry(r) ==
  LET plan == SeedPlan[next[r]]
      e == SeedEntry(cmd[r].key, next[r])
  IN Entry(e.key, plan.legs, <<CurrencyFound(r, plan.legs[1][1].account)>>, plan.expect,
           e.reverses)

Current(r) ==
  LET c == cmd[r]
  IN CASE c.op = "seed"     -> BuiltEntry(r)
       [] c.op = "exchange" -> ExchangeEntry(c)
       [] c.op = "post"     -> Entry(c.key, <<c.legs>>, <<c.currencies[1]>>, "posted", NoRow)

Signed(l) == IF l.direction = "debit" THEN l.amount ELSE -l.amount
SignedLegs(legs) == [i \in DOMAIN legs |-> Signed(legs[i])]
Net(legs) == SumFunction(SignedLegs(legs))
Touched(legs) == {legs[i].account : i \in DOMAIN legs}

\* Transaction.deltas: legs on one account are netted.
Deltas(legs) ==
  [a \in Touched(legs) |->
     SumFunctionOnSet(SignedLegs(legs), {i \in DOMAIN legs : legs[i].account = a})]

\* Mutant: the sum of the legs is not checked.
BuildUnbalanced(c) ==
  CASE \E i \in DOMAIN c.legs : c.legs[i].amount <= 0 -> "non_positive_amount"
    [] Len(c.legs) < 2 -> "too_few_postings"
    [] \E i \in DOMAIN c.legs : c.currencies[i] # c.currencies[1] -> "currency_mismatch"
    [] OTHER -> "ok"

\* buildTransaction: every leg is a posting, then Transaction.create.
Build(c) ==
  CASE \E i \in DOMAIN c.legs : c.legs[i].amount <= 0 -> "non_positive_amount"
    [] Len(c.legs) < 2 -> "too_few_postings"
    [] \E i \in DOMAIN c.legs : c.currencies[i] # c.currencies[1] -> "currency_mismatch"
    [] Net(c.legs) # 0 -> "unbalanced_transaction"
    [] OTHER -> "ok"

\* An account row holds what the postings on it add up to.
BalanceIn(set, name) ==
  SumFunction([row \in {x \in set : name \in DOMAIN x.delta} |-> row.delta[name]])

Goto(r, where) == pc' = [pc EXCEPT ![r] = where]
Say(r, what) == verdict' = [verdict EXCEPT ![r] = what]

Init ==
  /\ accounts = InitialAccounts
  /\ ledger = InitialRows
  /\ closed = {}
  /\ cmd = [r \in Requests |-> NoCommand]
  /\ pc = [r \in Requests |-> "idle"]
  /\ toFind = [r \in Requests |-> <<>>]
  /\ toOpen = [r \in Requests |-> <<>>]
  /\ opened = [r \in Requests |-> {}]
  /\ next = [r \in Requests |-> 1]
  /\ locked = [r \in Requests |-> {}]
  /\ kept = [r \in Requests |-> {}]
  /\ rows = [r \in Requests |-> {}]
  /\ aborted = [r \in Requests |-> FALSE]
  /\ verdict = [r \in Requests |-> "none"]
  /\ answer = [r \in Requests |-> "none"]
-----------------------------------------------------------------------------
(* Arrival: what each handler checks before it writes *)

\* transactions.exchange reads both accounts, compares their currencies, and
\* checks that the stated amounts follow from the rate.
ExchangeRefusal(c) ==
  CASE {c.from, c.to} \ Names(accounts) # {} -> "account_not_found"
    [] CurrencyOf(c.from) = CurrencyOf(c.to) -> "same_currency_exchange"
    [] ~c.agrees -> "conversion_mismatch"
    [] OTHER -> "ok"

Refusal(c) ==
  CASE c.op = "post" -> Build(c) [] c.op = "exchange" -> ExchangeRefusal(c) [] OTHER -> "ok"

Wanted(c) ==
  CASE c.op = "seed" -> SeedAccounts
    [] c.op = "exchange" -> <<FxBridge(CurrencyOf(c.from)), FxBridge(CurrencyOf(c.to))>>
    [] OTHER -> <<>>

\* accounts.create inserts without looking.
Begin(r) ==
  \E c \in Commands :
    /\ pc[r] = "idle"
    /\ cmd' = [cmd EXCEPT ![r] = c]
    /\ IF Refusal(c) = "ok"
       THEN /\ toFind' = [toFind EXCEPT ![r] = Wanted(c)]
            /\ toOpen' = [toOpen EXCEPT ![r] = IF c.op = "open" THEN <<c.account>> ELSE <<>>]
            /\ Goto(r, "find")
            /\ UNCHANGED verdict
       ELSE /\ Say(r, Refusal(c))
            /\ Goto(r, "commit")
            /\ UNCHANGED <<toFind, toOpen>>
    /\ UNCHANGED <<committed, opened, next, locked, kept, rows, aborted, answer>>
-----------------------------------------------------------------------------
(* findOrOpenFxBridge, ensureAccounts, accounts.create *)

\* seed reads all accounts at once; exchange sends both look-ups before either
\* insert, since the two bridges are resolved concurrently on one connection.
FindAccounts(r) ==
  LET seen == Names(accounts \cup opened[r])
      n == IF cmd[r].op = "seed" THEN Len(toFind[r]) ELSE 1
      missing == SelectSeq(SubSeq(toFind[r], 1, n), LAMBDA s : s.name \notin seen)
  IN /\ pc[r] = "find"
     /\ toFind[r] # <<>>
     /\ toFind' = [toFind EXCEPT ![r] = SubSeq(@, n + 1, Len(@))]
     /\ toOpen' = [toOpen EXCEPT ![r] = @ \o missing]
     /\ UNCHANGED <<committed, cmd, pc, opened, next, locked, kept, rows, aborted,
                    verdict, answer>>

\* Another open transaction inserted the name: the unique index makes us wait.
NamePending(r, name) == \E q \in Requests \ {r} : name \in Names(opened[q])

\* Mutant: an INSERT that does not wait for another transaction's row.
OpenWithoutWaiting(r) ==
  /\ pc[r] = "find"
  /\ toFind[r] = <<>>
  /\ toOpen[r] # <<>>
  /\ Head(toOpen[r]).name \notin Names(accounts)
  /\ opened' = [opened EXCEPT ![r] = @ \cup {Head(toOpen[r])}]
  /\ toOpen' = [toOpen EXCEPT ![r] = Tail(@)]
  /\ UNCHANGED <<committed, cmd, pc, toFind, next, locked, kept, rows, aborted,
                 verdict, answer>>

OpenAccount(r) ==
  /\ pc[r] = "find"
  /\ toFind[r] = <<>>
  /\ toOpen[r] # <<>>
  /\ Head(toOpen[r]).name \notin Names(accounts \cup opened[r])
  /\ ~NamePending(r, Head(toOpen[r]).name)
  /\ opened' = [opened EXCEPT ![r] = @ \cup {Head(toOpen[r])}]
  /\ toOpen' = [toOpen EXCEPT ![r] = Tail(@)]
  /\ UNCHANGED <<committed, cmd, pc, toFind, next, locked, kept, rows, aborted,
                 verdict, answer>>

\* Mutant: the loser of the race goes on as if its transaction were usable.
LoseNameRaceQuietly(r) ==
  /\ pc[r] = "find"
  /\ toFind[r] = <<>>
  /\ toOpen[r] # <<>>
  /\ Head(toOpen[r]).name \in Names(accounts)
  /\ aborted' = [aborted EXCEPT ![r] = TRUE]
  /\ toOpen' = [toOpen EXCEPT ![r] = Tail(@)]
  /\ UNCHANGED <<committed, cmd, pc, toFind, opened, next, locked, kept, rows, verdict, answer>>

\* The name was taken since the look-up: 23505, outside any savepoint.  The
\* next statement - the look-up that should find the winner's row - is refused
\* with 25P02 and thrown on; accounts.create has no next statement.
LoseNameRace(r) ==
  /\ pc[r] = "find"
  /\ toFind[r] = <<>>
  /\ toOpen[r] # <<>>
  /\ Head(toOpen[r]).name \in Names(accounts \cup opened[r])
  /\ aborted' = [aborted EXCEPT ![r] = TRUE]
  /\ Say(r, IF cmd[r].op = "open" THEN "account_name_taken" ELSE "transaction_aborted")
  /\ Goto(r, "commit")
  /\ UNCHANGED <<committed, cmd, toFind, toOpen, opened, next, locked, kept, rows, answer>>

\* All accounts are at hand.
StartPosting(r) ==
  /\ pc[r] = "find"
  /\ toFind[r] = <<>> /\ toOpen[r] = <<>>
  /\ IF Entries(cmd[r]) = 0 THEN Say(r, "ok") /\ Goto(r, "commit")
     ELSE Goto(r, "reserve") /\ UNCHANGED verdict
  /\ UNCHANGED <<committed, cmd, toFind, toOpen, opened, next, locked, kept, rows,
                 aborted, answer>>
-----------------------------------------------------------------------------
(* postTransaction and postExchange, each in a savepoint *)

\* The next entry, or the end of the handler.
Advance(r) ==
  IF next[r] = Entries(cmd[r])
  THEN Say(r, "ok") /\ Goto(r, "commit") /\ UNCHANGED next
  ELSE next' = [next EXCEPT ![r] = @ + 1] /\ Goto(r, "reserve") /\ UNCHANGED verdict

HasKey(set, key) == \E row \in set : row.key = key

\* A minor-unit exponent below two leaves no room for the cents of "50.00".
HasCents(currency) == currency \notin {"JPY", "ISK"}

\* Accounts are found by name alone: those of a scenario may be of two
\* currencies, or of one in which its amounts do not parse.
Buildable(r) ==
  cmd[r].op = "seed" =>
    LET legs == SeedPlan[next[r]].legs[1]
    IN \E currency \in {CurrencyFound(r, name) : name \in Touched(legs)} :
         /\ HasCents(currency)
         /\ \A name \in Touched(legs) : CurrencyFound(r, name) = currency

\* buildScenarioTransaction throws a plain Error between two postings: the
\* caller gets a 500, and what was posted before is committed.
ScenarioThrows(r) ==
  /\ pc[r] = "reserve"
  /\ ~Buildable(r)
  /\ Say(r, "internal_error")
  /\ Goto(r, "commit")
  /\ UNCHANGED <<committed, cmd, toFind, toOpen, opened, next, locked, kept, rows, aborted,
                 answer>>

KeyHolders(r, key) ==
  {q \in Requests \ {r} : HasKey(rows[q], key) \/ (pc[q] = "lock" /\ Current(q).key = key)}

ReserveKey(r) ==
  /\ pc[r] = "reserve"
  /\ Buildable(r)
  /\ ~HasKey(ledger, Current(r).key)
  /\ KeyHolders(r, Current(r).key) = {}
  /\ kept' = [kept EXCEPT ![r] = locked[r]]
  /\ Goto(r, "lock")
  /\ UNCHANGED <<committed, cmd, toFind, toOpen, opened, next, locked, rows, aborted,
                 verdict, answer>>

\* The legs stored under a key are the fingerprint of the request.
SameRequest(key, e) ==
  {row.legs : row \in {x \in ledger : x.key = key}} = {e.legs[i] : i \in DOMAIN e.legs}

ReplayEntry(r) ==
  /\ pc[r] = "reserve"
  /\ Buildable(r)
  /\ HasKey(ledger, Current(r).key)
  /\ SameRequest(Current(r).key, Current(r))
  /\ Advance(r)
  /\ UNCHANGED <<committed, cmd, toFind, toOpen, opened, locked, kept, rows, aborted, answer>>

\* Best effort: a rejection row that cannot be written is logged and forgotten,
\* but the statement that failed has aborted the transaction.
AuditRejection(r) == \E failed \in BOOLEAN : aborted' = [aborted EXCEPT ![r] = failed]

KeyConflict(r) ==
  /\ pc[r] = "reserve"
  /\ Buildable(r)
  /\ HasKey(ledger, Current(r).key)
  /\ ~SameRequest(Current(r).key, Current(r))
  /\ Say(r, "idempotency_conflict")
  /\ AuditRejection(r)
  /\ Goto(r, "commit")
  /\ UNCHANGED <<committed, cmd, toFind, toOpen, opened, next, locked, kept, rows, answer>>

Needed(r) == UNION {Touched(Current(r).legs[i]) : i \in DOMAIN Current(r).legs}
Existing(r) == Needed(r) \cap Names(accounts \cup opened[r])

Free(r, name) == \A q \in Requests \ {r} : name \notin locked[q]

LockAccount(r) ==
  /\ pc[r] = "lock"
  /\ \E name \in Existing(r) \ locked[r] :
       /\ Free(r, name)
       /\ locked' = [locked EXCEPT ![r] = @ \cup {name}]
  /\ UNCHANGED <<committed, cmd, pc, toFind, toOpen, opened, next, kept, rows, aborted,
                 verdict, answer>>

\* The balance the request sees under its locks, after the first n legs.
BalanceSeen(r, name, n) ==
  BalanceIn(ledger \cup rows[r], name)
    + SumFunction([i \in 1..n |-> IF name \in Touched(Current(r).legs[i])
                                  THEN Deltas(Current(r).legs[i])[name] ELSE 0])

\* Mutant: a leg is not compared with the currency of the rows it touches.
DeltaRefusalAnyCurrency(r, i, name) ==
  LET row == Named(accounts \cup opened[r], name)
      b == BalanceSeen(r, name, i)
  IN CASE row.type = "normal" /\ b < 0 -> "insufficient_funds"
       [] b > MaxBalance \/ b < -MaxBalance -> "balance_limit_exceeded"
       [] OTHER -> "none"

DeltaRefusal(r, i, name) ==
  LET row == Named(accounts \cup opened[r], name)
      b == BalanceSeen(r, name, i)
  IN CASE row.currency # Current(r).currencies[i] -> "currency_mismatch"
       [] row.type = "normal" /\ b < 0 -> "insufficient_funds"
       [] b > MaxBalance \/ b < -MaxBalance -> "balance_limit_exceeded"
       [] OTHER -> "none"

\* A leg on a closed account is refused before its deltas are looked at.
LegRefusals(r, i) ==
  LET touched == Touched(Current(r).legs[i])
  IN IF touched \cap closed # {} THEN {"account_inactive"}
     ELSE {DeltaRefusal(r, i, name) : name \in touched} \ {"none"}

\* Why the entry is refused, once its rows are locked; any offender may be the
\* one reported.
EntryRefusals(r) ==
  IF Needed(r) # Existing(r) THEN {"account_not_found"}
  ELSE UNION {LegRefusals(r, i) : i \in DOMAIN Current(r).legs}

RowsOf(r, e) ==
  {[key |-> e.key, leg |-> i, by |-> r, legs |-> e.legs[i], delta |-> Deltas(e.legs[i]),
    currency |-> e.currencies[i], reverses |-> e.reverses] : i \in DOMAIN e.legs}

PostEntry(r) ==
  /\ pc[r] = "lock"
  /\ locked[r] \cap Needed(r) = Existing(r)
  /\ EntryRefusals(r) = {}
  /\ rows' = [rows EXCEPT ![r] = @ \cup RowsOf(r, Current(r))]
  /\ Advance(r)
  /\ UNCHANGED <<committed, cmd, toFind, toOpen, opened, locked, kept, aborted, answer>>

\* Mutant: a refused scenario is tried again instead of passed over.
RefuseEntryRepeating(r) ==
  /\ pc[r] = "lock"
  /\ locked[r] \cap Needed(r) = Existing(r)
  /\ \E reason \in EntryRefusals(r), failed \in BOOLEAN :
       /\ locked' = [locked EXCEPT ![r] = kept[r]]
       /\ aborted' = [aborted EXCEPT ![r] = failed]
       /\ IF failed /\ cmd[r].op = "seed"
          THEN Say(r, "transaction_aborted") /\ Goto(r, "commit")
          ELSE IF Current(r).expect = "rejected"
          THEN Goto(r, "reserve") /\ UNCHANGED verdict
          ELSE Say(r, reason) /\ Goto(r, "commit")
  /\ UNCHANGED <<committed, cmd, toFind, toOpen, opened, next, kept, rows, answer>>

\* Mutant: seed goes on after a scenario that should have posted was refused.
RefuseEntryAndGoOn(r) ==
  /\ pc[r] = "lock"
  /\ locked[r] \cap Needed(r) = Existing(r)
  /\ EntryRefusals(r) # {}
  /\ locked' = [locked EXCEPT ![r] = kept[r]]
  /\ Advance(r)
  /\ UNCHANGED <<committed, cmd, toFind, toOpen, opened, kept, rows, aborted, answer>>

\* Back to the savepoint: the locks taken in it are released, those of earlier
\* entries are not.  A refusal that a scenario is there to show is passed over;
\* if its audit failed, the next statement of the seed throws.
RefuseEntry(r) ==
  /\ pc[r] = "lock"
  /\ locked[r] \cap Needed(r) = Existing(r)
  /\ \E reason \in EntryRefusals(r), failed \in BOOLEAN :
       /\ locked' = [locked EXCEPT ![r] = kept[r]]
       /\ aborted' = [aborted EXCEPT ![r] = failed]
       /\ IF Current(r).expect = "posted"
          THEN Say(r, reason) /\ Goto(r, "commit") /\ UNCHANGED next
          ELSE IF failed
          THEN Say(r, "transaction_aborted") /\ Goto(r, "commit") /\ UNCHANGED next
          ELSE Advance(r)
  /\ UNCHANGED <<committed, cmd, toFind, toOpen, opened, kept, rows, answer>>
-----------------------------------------------------------------------------
(* withOrgScope: the end of the request's transaction *)

Discard(r) ==
  /\ toFind' = [toFind EXCEPT ![r] = <<>>]
  /\ toOpen' = [toOpen EXCEPT ![r] = <<>>]
  /\ opened' = [opened EXCEPT ![r] = {}]
  /\ next' = [next EXCEPT ![r] = 1]
  /\ locked' = [locked EXCEPT ![r] = {}]
  /\ kept' = [kept EXCEPT ![r] = {}]
  /\ rows' = [rows EXCEPT ![r] = {}]
  /\ aborted' = [aborted EXCEPT ![r] = FALSE]
  /\ verdict' = [verdict EXCEPT ![r] = "none"]

\* COMMIT, even when the handler threw; of an aborted transaction, a ROLLBACK
\* that reports no error.  The answer may be lost on the way.
Commit(r) ==
  /\ pc[r] = "commit"
  /\ accounts' = accounts \cup (IF aborted[r] THEN {} ELSE opened[r])
  /\ ledger' = ledger \cup (IF aborted[r] THEN {} ELSE rows[r])
  /\ \E told \in {verdict[r], "lost"} : answer' = [answer EXCEPT ![r] = told]
  /\ Discard(r)
  /\ Goto(r, "done")
  /\ UNCHANGED <<closed, cmd>>

\* Crash, lost connection, timeout.
Crash(r) ==
  /\ pc[r] \in {"find", "reserve", "lock", "commit"}
  /\ answer' = [answer EXCEPT ![r] = "lost"]
  /\ Discard(r)
  /\ Goto(r, "done")
  /\ UNCHANGED <<committed, cmd>>

\* accounts.deactivate and accounts.reactivate, by requests that do nothing else:
\* one UPDATE, which waits for the row and closes it only at a zero balance.
SetActive(name) ==
  /\ name \in Names(accounts)
  /\ \A r \in Requests : name \notin locked[r]
  /\ \/ /\ name \notin closed /\ BalanceIn(ledger, name) = 0
        /\ closed' = closed \cup {name}
     \/ /\ name \in closed
        /\ closed' = closed \ {name}
  /\ UNCHANGED <<accounts, ledger, cmd, pc, work, answer>>

\* Whom a request waits for: the holder of a name, of a key, or of the rows
\* that are left to lock.
WaitsFor(r) ==
  CASE pc[r] = "find" /\ toFind[r] = <<>> /\ toOpen[r] # <<>> ->
         {q \in Requests \ {r} : Head(toOpen[r]).name \in Names(opened[q])}
    [] pc[r] = "reserve" -> KeyHolders(r, Current(r).key)
    [] pc[r] = "lock" /\ \A name \in Existing(r) \ locked[r] : ~Free(r, name) ->
         {q \in Requests \ {r} : locked[q] \cap (Existing(r) \ locked[r]) # {}}
    [] OTHER -> {}

Deadlocked(r) ==
  \E cycle \in SUBSET Requests :
    /\ r \in cycle
    /\ \A q \in cycle : WaitsFor(q) \cap cycle # {}

\* The victim of a deadlock gets an error.  Inside a posting the savepoint takes
\* it and earlier entries stay; in an INSERT of an account nothing does.
BreakDeadlock(r) ==
  /\ Deadlocked(r)
  /\ aborted' = [aborted EXCEPT ![r] = pc[r] = "find"]
  /\ locked' = [locked EXCEPT ![r] = IF pc[r] = "lock" THEN kept[r] ELSE @]
  /\ Say(r, "deadlock_detected")
  /\ Goto(r, "commit")
  /\ UNCHANGED <<committed, cmd, toFind, toOpen, opened, next, kept, rows, answer>>

\* Everything the server and Postgres do for a request that has arrived.
Step(r) ==
  \/ FindAccounts(r) \/ OpenAccount(r) \/ LoseNameRace(r) \/ StartPosting(r)
  \/ ScenarioThrows(r) \/ ReserveKey(r) \/ ReplayEntry(r) \/ KeyConflict(r)
  \/ LockAccount(r) \/ PostEntry(r) \/ RefuseEntry(r)
  \/ Commit(r) \/ BreakDeadlock(r)

Next ==
  \/ \E r \in Requests : Begin(r) \/ Step(r) \/ Crash(r)
  \/ \E name \in Closable : SetActive(name)

Spec == Init /\ [][Next]_vars /\ \A r \in Requests : WF_vars(Step(r))
-----------------------------------------------------------------------------
(* Properties *)

\* Type correctness; two transactions never hold one row, and two accounts
\* never share a name.
TypeOK ==
  /\ pc \in [Requests -> {"idle", "find", "reserve", "lock", "commit", "done"}]
  /\ \A r \in Requests : pc[r] # "idle" => cmd[r] \in Commands
  /\ \A r \in Requests : kept[r] \subseteq locked[r]
  /\ \A q, r \in Requests : q # r => locked[q] \cap locked[r] = {}
  /\ \A s, t \in accounts : s.name = t.name => s = t

\* Every committed posting is on committed accounts of its own currency, and
\* the rows of a currency add up to zero - whatever was aborted, refused or
\* created under a bridge's name in the meantime.
RowsOnRealAccounts ==
  \A row \in ledger :
    /\ DOMAIN row.delta \subseteq Names(accounts)
    /\ \A name \in DOMAIN row.delta : CurrencyOf(name) = row.currency

\* The legs of every committed transaction balance: buildTransaction lets
\* nothing else through, and bridges and mirrors are built balanced.
Conserved ==
  \A currency \in {s.currency : s \in accounts} :
    SumFunction([s \in {t \in accounts : t.currency = currency} |-> BalanceIn(ledger, s.name)]) = 0

\* The keys under which a complete seed posts.
SeedKeys(run) == {run \o e.key : e \in {SeedPlan[n] : n \in {m \in DOMAIN SeedPlan :
                                                              SeedPlan[m].expect = "posted"}}}

\* A set of rows holds an entry: exactly its legs, under its key.
StandsIn(set, e) ==
  /\ HasKey(set, e.key)
  /\ {row.legs : row \in {x \in set : x.key = e.key}} = {e.legs[i] : i \in DOMAIN e.legs}

InOrder(set) ==
  \A c \in {x \in Commands : x.op = "seed"} :
    \A m, n \in DOMAIN SeedPlan :
      /\ m < n
      /\ SeedPlan[m].expect = "posted"
      /\ StandsIn(set, SeedEntry(c.key, n))
      => StandsIn(set, SeedEntry(c.key, m))

\* Nobody else posts a scenario under a seed's key: clients make up their keys at
\* random.  Other legs under such a key do no harm.
ASSUME SeedKeysAssumption ==
  /\ \A s \in {x \in Commands : x.op = "seed"} :
       /\ s.key \in Seq(STRING)
       /\ \A c \in {x \in Commands : x.op \in {"post", "exchange"}} :
            \A n \in DOMAIN SeedPlan :
              c.key = s.key \o SeedPlan[n].key => c.op = "post" /\ c.legs # SeedPlan[n].legs[1]
  /\ InOrder(InitialRows)

\* An interrupted seed leaves a prefix of its scenarios: a later one assumes the
\* balances of the earlier ones, so none stands without those before it.
SeedInOrder == InOrder(ledger)

\* What a caller is told is so: a posting that was reported is there, a seed
\* that was reported is complete however many attempts it took, an account that
\* was reported exists, and a request that was refused or failed left none of
\* its postings behind unless it was a seed.
AnswersAreTrue ==
  \A r \in {q \in Requests : answer[q] \notin {"none", "lost"}} :
    LET c == cmd[r]
    IN /\ answer[r] = "ok" =>
            /\ c.op \in {"exchange", "post"} => HasKey(ledger, c.key)
            /\ c.op = "seed" => \A key \in SeedKeys(c.key) : HasKey(ledger, key)
            /\ c.op = "open" => c.account \in accounts
       /\ answer[r] = "account_name_taken" => c.account.name \in Names(accounts)
       /\ answer[r] # "ok" /\ c.op # "seed" => \A row \in ledger : row.by # r
       /\ c.op = "exchange" =>
            Cardinality({row \in ledger : row.key = c.key /\ row.by = r}) \in {0, 2}

\* Every request ends: waits for names, keys and rows of requests that post
\* several times form cycles, and each is broken.
EveryRequestAnswered == \A r \in Requests : pc[r] # "idle" ~> pc[r] = "done"
=============================================================================
