------------------------------ MODULE Posting ------------------------------
(***************************************************************************)
(* The posting routine of packages/db as concurrent requests run it under  *)
(* Postgres READ COMMITTED: postTransaction (one leg) and postExchange     *)
(* (two), inside the one transaction that withOrgScope opens per request,  *)
(* together with setAccountActive.                                         *)
(*                                                                         *)
(* balance, active, ledger, keys and rejections are committed rows.  The   *)
(* u-variables are the uncommitted writes of each request's transaction:   *)
(* nobody else reads them, but the row locks and the unique-index entries  *)
(* behind them block other requests until the transaction, or the          *)
(* savepoint that made them, ends.                                         *)
(*                                                                         *)
(* A row of ledger stands for what applyLeg inserts for one leg: the       *)
(* ledger_transaction, its postings and its "posted" audit entry.          *)
(***************************************************************************)
EXTENDS LedgerRules, FiniteSetsExt

CONSTANTS
  Commands,   \* what clients ask for, beyond reversals of committed rows
  Managed,    \* the accounts that admins close and reopen
  NoCommand   \* a request that has not arrived yet

VARIABLES
  balance, active, ledger, keys, rejections,   \* committed rows
  cmd,        \* the command each request carries
  pc,         \* how far its handler got
  locked,     \* the account rows its SELECT ... FOR UPDATE holds
  leg,        \* the next leg to apply
  uBalance,   \* balances it read under lock, then computed
  uRows,      \* ledger rows it inserted
  uKeys,      \* its reservation, at most one key row
  answer      \* what its caller is told

committed == <<balance, active, ledger, keys, rejections>>
uncommitted == <<locked, leg, uBalance, uRows, uKeys>>
vars == <<committed, cmd, pc, uncommitted, answer>>

Command == [key : Keys, legs : LegList]

Refusals == {"account_not_found", "account_inactive", "currency_mismatch",
             "insufficient_funds", "balance_limit_exceeded", "already_reversed"}

\* Transaction.create: the debits of a leg are its credits.
Balanced(l) == SumFunctionOnSet(l.delta, l.touches) = 0

\* A leg is validated before it gets here, and what it reverses is never taken
\* from the caller.
ASSUME CommandsAssumption ==
  /\ Commands \subseteq Command
  /\ \A c \in Commands : \A i \in DOMAIN c.legs :
       Balanced(c.legs[i]) /\ c.legs[i].reverses = NoTx
  /\ Managed \subseteq Accounts

Needed(r) == Touched(cmd[r].legs)
Existing(r) == Needed(r) \cap Accounts

Goto(r, where) == pc' = [pc EXCEPT ![r] = where]
Tell(r, kind, tx) == answer' = [answer EXCEPT ![r] = [kind |-> kind, tx |-> tx]]

\* The unique index on (org_id, key) as an INSERT meets it: a committed row is
\* a violation, another transaction's uncommitted row makes the INSERT wait.
KeyCommitted(k) == \E row \in keys : row.key = k
\* Mutant: ON CONFLICT DO NOTHING, which does not wait for an uncommitted row.
KeyPendingUnseen(r, k) == FALSE

KeyPending(r, k) == \E q \in Requests \ {r} : \E row \in uKeys[q] : row.key = k

Free(r, a) == \A q \in Requests \ {r} : a \notin locked[q]

\* ROLLBACK, of the savepoint or of the whole transaction: the uncommitted
\* writes are gone and so are the locks they held.
Discard(r) ==
  /\ locked' = [locked EXCEPT ![r] = {}]
  /\ leg' = [leg EXCEPT ![r] = 1]
  /\ uBalance' = [uBalance EXCEPT ![r] = [a \in Accounts |-> 0]]
  /\ uRows' = [uRows EXCEPT ![r] = {}]
  /\ uKeys' = [uKeys EXCEPT ![r] = {}]

Init ==
  /\ balance = [a \in Accounts |-> 0]
  /\ active = [a \in Accounts |-> TRUE]
  /\ ledger = {}
  /\ keys = {}
  /\ rejections = {}
  /\ cmd = [r \in Requests |-> NoCommand]
  /\ pc = [r \in Requests |-> "idle"]
  /\ locked = [r \in Requests |-> {}]
  /\ leg = [r \in Requests |-> 1]
  /\ uBalance = [r \in Requests |-> [a \in Accounts |-> 0]]
  /\ uRows = [r \in Requests |-> {}]
  /\ uKeys = [r \in Requests |-> {}]
  /\ answer = [r \in Requests |-> [kind |-> "none", tx |-> NoTx]]
-----------------------------------------------------------------------------
(* Arrival *)

Begin(r, c) ==
  /\ pc[r] = "idle"
  /\ cmd' = [cmd EXCEPT ![r] = c]
  /\ Goto(r, "reserve")
  /\ UNCHANGED <<committed, uncommitted, answer>>

\* transactions.create, transactions.exchange, approvals.approve: the legs are
\* in the request.
BeginPost(r) == \E c \in Commands : Begin(r, c)

\* The other leg of the exchange a row belongs to, if it belongs to one.
Counterparts(row) ==
  {x \in ledger : x.fxSource = row.id \/ (row.fxSource # NoTx /\ x.id = row.fxSource)}

IsReversed(row) == \E x \in ledger : x.leg.reverses = row.id

\* transactions.reverse: the mirrors of persisted rows.  Naming either leg of an
\* exchange unwinds both, unless the counterpart alone is seen to be unwound.
ReversalLegs(named, namedReversed) ==
  IF Counterparts(named) = {} THEN <<Mirror(named)>>
  ELSE LET other == CHOOSE x \in Counterparts(named) : TRUE
       IN IF IsReversed(other) /\ ~namedReversed THEN <<Mirror(named)>>
          ELSE IF named.fxSource = NoTx THEN <<Mirror(named), Mirror(other)>>
          ELSE <<Mirror(other), Mirror(named)>>

\* The named row is read first, its counterpart later and without a lock: of a
\* reversal that commits in between, only the counterpart shows.  All else that
\* is read was committed with the row.
BeginReversal(r) ==
  \E named \in ledger, k \in Keys : \E seen \in {IsReversed(named), FALSE} :
    Begin(r, [key |-> k, legs |-> ReversalLegs(named, seen)])
-----------------------------------------------------------------------------
(* reserveIdempotencyKey *)

ReserveFresh(r) ==
  /\ pc[r] = "reserve"
  /\ ~KeyCommitted(cmd[r].key)
  /\ ~KeyPending(r, cmd[r].key)
  /\ uKeys' = [uKeys EXCEPT ![r] = {[key  |-> cmd[r].key,
                                     hash |-> RequestHash(cmd[r].legs),
                                     tx   |-> NoTx]}]
  /\ Goto(r, "lock")
  /\ UNCHANGED <<committed, cmd, locked, leg, uBalance, uRows, answer>>

\* Mutant: the fingerprint of the payload is not compared.
ReplayAnyPayload(r) ==
  /\ pc[r] = "reserve"
  /\ \E row \in keys : row.key = cmd[r].key /\ Tell(r, "replayed", row.tx)
  /\ Goto(r, "done")
  /\ UNCHANGED <<committed, cmd, uncommitted>>

\* The key is taken by the same request: answer with its transaction.
Replay(r) ==
  /\ pc[r] = "reserve"
  /\ \E row \in keys :
       /\ row.key = cmd[r].key
       /\ row.hash = RequestHash(cmd[r].legs)
       /\ row.tx # NoTx
       /\ Tell(r, "replayed", row.tx)
  /\ Goto(r, "done")
  /\ UNCHANGED <<committed, cmd, uncommitted>>

\* The key is taken by a different request.
Conflict(r) ==
  /\ pc[r] = "reserve"
  /\ \E row \in keys : row.key = cmd[r].key /\ row.hash # RequestHash(cmd[r].legs)
  /\ Tell(r, "idempotency_conflict", NoTx)
  /\ Goto(r, "audit")
  /\ UNCHANGED <<committed, cmd, uncommitted>>
-----------------------------------------------------------------------------
(* lockAccounts *)

\* Mutant: a plain SELECT.
LockRowUnlocked(r, a) ==
  /\ pc[r] = "lock"
  /\ a \in Existing(r) \ locked[r]
  /\ locked' = [locked EXCEPT ![r] = @ \cup {a}]
  /\ uBalance' = [uBalance EXCEPT ![r][a] = balance[a]]
  /\ UNCHANGED <<committed, cmd, pc, leg, uRows, uKeys, answer>>

\* SELECT ... FOR UPDATE without ORDER BY locks the rows one at a time, in the
\* order its scan meets them, and returns each as it is once locked.
LockRow(r, a) ==
  /\ pc[r] = "lock"
  /\ a \in Existing(r) \ locked[r]
  /\ Free(r, a)
  /\ locked' = [locked EXCEPT ![r] = @ \cup {a}]
  /\ uBalance' = [uBalance EXCEPT ![r][a] = balance[a]]
  /\ UNCHANGED <<committed, cmd, pc, leg, uRows, uKeys, answer>>

\* Mutant: the refusal leaves the savepoint, its locks and its reservation open.
RefuseInPlace(r, reason) ==
  /\ Tell(r, reason, NoTx)
  /\ Goto(r, "audit")
  /\ UNCHANGED uncommitted

\* Mutant: the key is reserved before the savepoint, so the rollback keeps it.
RefuseKeepsKey(r, reason) ==
  /\ locked' = [locked EXCEPT ![r] = {}]
  /\ leg' = [leg EXCEPT ![r] = 1]
  /\ uBalance' = [uBalance EXCEPT ![r] = [a \in Accounts |-> 0]]
  /\ uRows' = [uRows EXCEPT ![r] = {}]
  /\ UNCHANGED uKeys
  /\ Tell(r, reason, NoTx)
  /\ Goto(r, "audit")

\* DomainRejection: back to the savepoint, then on to the rejection audit.
Refuse(r, reason) ==
  /\ Discard(r)
  /\ Tell(r, reason, NoTx)
  /\ Goto(r, "audit")

\* Mutant: activity is not checked under the lock.
CheckRowsExist(r) ==
  /\ pc[r] = "lock"
  /\ locked[r] = Existing(r)
  /\ IF Needed(r) # Existing(r) THEN Refuse(r, "account_not_found")
     ELSE Goto(r, "apply") /\ UNCHANGED <<uncommitted, answer>>
  /\ UNCHANGED <<committed, cmd>>

\* Every id is checked for existence before any is checked for activity.
CheckRows(r) ==
  /\ pc[r] = "lock"
  /\ locked[r] = Existing(r)
  /\ IF Needed(r) # Existing(r) THEN Refuse(r, "account_not_found")
     ELSE IF \E a \in Needed(r) : ~active[a] THEN Refuse(r, "account_inactive")
     ELSE Goto(r, "apply") /\ UNCHANGED <<uncommitted, answer>>
  /\ UNCHANGED <<committed, cmd>>
-----------------------------------------------------------------------------
(* applyLeg *)

Resulting(r, a) == uBalance[r][a] + cmd[r].legs[leg[r]].delta[a]

\* Mutant: the storable range is left to the column.
DeltaRefusalsUnbounded(r) ==
  LET l == cmd[r].legs[leg[r]]
      bad(a) == CASE CurrencyOf[a] # l.currency -> "currency_mismatch"
                  [] ~FundsRule(a, Resulting(r, a)) -> "insufficient_funds"
                  [] OTHER -> "none"
  IN {bad(a) : a \in l.touches} \ {"none"}

\* Mutant: a leg is not compared with the currency of the rows it touches.
DeltaRefusalsAnyCurrency(r) ==
  LET l == cmd[r].legs[leg[r]]
      bad(a) == CASE ~FundsRule(a, Resulting(r, a)) -> "insufficient_funds"
                  [] ~Storable(Resulting(r, a)) -> "balance_limit_exceeded"
                  [] OTHER -> "none"
  IN {bad(a) : a \in l.touches} \ {"none"}

\* Why the funds rule, the currency rule or the storable range refuses the leg.
\* The first offender in posting order is the one reported.
DeltaRefusals(r) ==
  LET l == cmd[r].legs[leg[r]]
      bad(a) == CASE CurrencyOf[a] # l.currency -> "currency_mismatch"
                  [] ~FundsRule(a, Resulting(r, a)) -> "insufficient_funds"
                  [] ~Storable(Resulting(r, a)) -> "balance_limit_exceeded"
                  [] OTHER -> "none"
  IN {bad(a) : a \in l.touches} \ {"none"}

\* Mutant: no unique index on reverses_transaction_id.
ReversedUnchecked(r) == FALSE

\* The partial unique index on reverses_transaction_id: a violation, or a wait
\* for another transaction's uncommitted row.
AlreadyReversed(r) ==
  LET t == cmd[r].legs[leg[r]].reverses
  IN t # NoTx /\ \E row \in ledger \cup uRows[r] : row.leg.reverses = t

ReversalPending(r) ==
  LET t == cmd[r].legs[leg[r]].reverses
  IN t # NoTx /\ \E q \in Requests \ {r} : \E row \in uRows[q] : row.leg.reverses = t

\* Mutant: the second leg's refusal is returned, not thrown, so the savepoint is
\* released with the first leg in it.
ReturnFromLeg(r) ==
  /\ pc[r] = "apply"
  /\ DeltaRefusals(r) # {}
  /\ Goto(r, "backfill")
  /\ UNCHANGED <<committed, cmd, uncommitted, answer>>

RefuseLeg(r) ==
  /\ pc[r] = "apply"
  /\ \/ \E reason \in DeltaRefusals(r) : Refuse(r, reason)
     \/ /\ DeltaRefusals(r) = {}
        /\ AlreadyReversed(r)
        /\ Refuse(r, "already_reversed")
  /\ UNCHANGED <<committed, cmd>>

LedgerRow(r, i) ==
  [id |-> <<r, i>>, leg |-> cmd[r].legs[i], fxSource |-> IF i = 2 THEN <<r, 1>> ELSE NoTx]

ApplyLeg(r) ==
  /\ pc[r] = "apply"
  /\ DeltaRefusals(r) = {}
  /\ ~AlreadyReversed(r)
  /\ ~ReversalPending(r)
  /\ uRows' = [uRows EXCEPT ![r] = @ \cup {LedgerRow(r, leg[r])}]
  /\ uBalance' = [uBalance EXCEPT ![r] =
                    [a \in Accounts |-> IF a \in cmd[r].legs[leg[r]].touches
                                        THEN Resulting(r, a) ELSE @[a]]]
  /\ leg' = [leg EXCEPT ![r] = @ + 1]
  /\ Goto(r, IF leg[r] = LastLeg(cmd[r].legs) THEN "backfill" ELSE "apply")
  /\ UNCHANGED <<committed, cmd, locked, uKeys, answer>>

\* Mutant: the key row is given something that is not a transaction id.
BackfillKeyWithRequest(r) ==
  /\ pc[r] = "backfill"
  /\ uKeys' = [uKeys EXCEPT ![r] = {[row EXCEPT !.tx = r] : row \in @}]
  /\ Goto(r, "commit")
  /\ UNCHANGED <<committed, cmd, locked, leg, uBalance, uRows, answer>>

\* The key row gets the (source) transaction's id and the savepoint is
\* released; the request's transaction is still open.
BackfillKey(r) ==
  /\ pc[r] = "backfill"
  /\ uKeys' = [uKeys EXCEPT ![r] = {[row EXCEPT !.tx = <<r, 1>>] : row \in @}]
  /\ Goto(r, "commit")
  /\ UNCHANGED <<committed, cmd, locked, leg, uBalance, uRows, answer>>
-----------------------------------------------------------------------------
(* withOrgScope: the end of the request's transaction *)

\* COMMIT.  The caller may be told, or the response may be lost on the way.
Commit(r) ==
  /\ pc[r] = "commit"
  /\ balance' = [a \in Accounts |-> IF a \in locked[r] THEN uBalance[r][a] ELSE balance[a]]
  /\ ledger' = ledger \cup uRows[r]
  /\ keys' = keys \cup uKeys[r]
  /\ Discard(r)
  /\ \/ Tell(r, "posted", <<r, 1>>)
     \/ Tell(r, "failed", NoTx)
  /\ Goto(r, "done")
  /\ UNCHANGED <<active, rejections, cmd>>

\* The rejection audit is written in what is left of the request's transaction,
\* best effort: if it fails the caller still gets the refusal.
FinishRefused(r) ==
  /\ pc[r] = "audit"
  /\ \/ rejections' = rejections \cup {<<r, answer[r].kind>>}
     \/ UNCHANGED rejections
  /\ Goto(r, "done")
  /\ UNCHANGED <<balance, active, ledger, keys, cmd, uncommitted, answer>>

\* A crash, a lost connection, statement_timeout or
\* idle_in_transaction_session_timeout: nothing of the request survives.
Abort(r) ==
  /\ pc[r] \notin {"idle", "done"}
  /\ Discard(r)
  /\ Tell(r, "failed", NoTx)
  /\ Goto(r, "done")
  /\ UNCHANGED <<committed, cmd>>

\* The holders that request r cannot go on without.
Stuck(r, D) ==
  /\ pc[r] = "lock"
  /\ locked[r] # Existing(r)
  /\ \A a \in Existing(r) \ locked[r] : \E q \in D \ {r} : a \in locked[q]

Deadlocked(r) == \E D \in SUBSET Requests : r \in D /\ \A q \in D : Stuck(q, D)

\* Postgres aborts one member of a cycle of lock waits (40P01): the savepoint is
\* rolled back and the caller gets an unmapped error.
BreakDeadlock(r) ==
  /\ Deadlocked(r)
  /\ Discard(r)
  /\ Tell(r, "failed", NoTx)
  /\ Goto(r, "done")
  /\ UNCHANGED <<committed, cmd>>
-----------------------------------------------------------------------------
(* setAccountActive: one conditional UPDATE, alone in its transaction *)

RowFree(a) == \A q \in Requests : a \notin locked[q]

\* Mutant: the balance is read without the row lock.
CloseAccountUnlocked(a) ==
  /\ balance[a] = 0
  /\ active' = [active EXCEPT ![a] = FALSE]
  /\ UNCHANGED <<balance, ledger, keys, rejections, cmd, pc, uncommitted, answer>>

\* The balance is compared with zero under the row lock the UPDATE takes.
CloseAccount(a) ==
  /\ RowFree(a)
  /\ balance[a] = 0
  /\ active' = [active EXCEPT ![a] = FALSE]
  /\ UNCHANGED <<balance, ledger, keys, rejections, cmd, pc, uncommitted, answer>>

ReopenAccount(a) ==
  /\ RowFree(a)
  /\ active' = [active EXCEPT ![a] = TRUE]
  /\ UNCHANGED <<balance, ledger, keys, rejections, cmd, pc, uncommitted, answer>>
-----------------------------------------------------------------------------
Step(r) ==
  \/ ReserveFresh(r)
  \/ Replay(r)
  \/ Conflict(r)
  \/ \E a \in Accounts : LockRow(r, a)
  \/ CheckRows(r)
  \/ RefuseLeg(r)
  \/ ApplyLeg(r)
  \/ BackfillKey(r)
  \/ Commit(r)
  \/ FinishRefused(r)
  \/ BreakDeadlock(r)

Next ==
  \/ \E r \in Requests : BeginPost(r) \/ BeginReversal(r) \/ Step(r) \/ Abort(r)
  \/ \E a \in Managed : CloseAccount(a) \/ ReopenAccount(a)

Spec == Init /\ [][Next]_vars

\* A handler that can take its next step does: statements return, Postgres wakes
\* waiters and breaks deadlocks.  Arrivals, crashes and admins are not fair.
FairSpec == Spec /\ \A r \in Requests : WF_vars(Step(r))
-----------------------------------------------------------------------------
(* What is read of the committed tables, each in one statement *)

\* The signed sum of an account's postings; 0 without any.
ComputedBalance(a) == SumFunction([row \in ledger |-> row.leg.delta[a]])

Unreconciled == {a \in Accounts : balance[a] # ComputedBalance(a)}

\* reconciliation.verify: the verdict is about all accounts, not those of a page.
Verify == [allReconciled |-> Unreconciled = {}, unreconciledCount |-> Cardinality(Unreconciled)]

\* A currency on the overview: what its normal accounts hold, and its external ones.
Position(c) ==
  LET held(type) == SumFunctionOnSet(balance, {a \in type : CurrencyOf[a] = c})
  IN [normal |-> held(Accounts \ ExternalAccounts), external |-> held(ExternalAccounts)]
-----------------------------------------------------------------------------
(* Properties *)

Answers == {"none", "posted", "replayed", "idempotency_conflict", "failed"} \cup Refusals

KeyRow == [key : Keys, hash : LegList, tx : TxId \cup {NoTx}]
Row == [id : TxId, leg : Leg, fxSource : TxId \cup {NoTx}]

\* The type of every variable.
TypeOK ==
  /\ balance \in [Accounts -> Int]
  /\ active \in [Accounts -> BOOLEAN]
  /\ ledger \subseteq Row
  /\ keys \subseteq KeyRow
  /\ rejections \subseteq Requests \X Answers
  /\ cmd \in [Requests -> Command \cup {NoCommand}]
  /\ pc \in [Requests -> {"idle", "reserve", "lock", "apply", "backfill", "commit", "audit", "done"}]
  /\ \A r \in Requests : pc[r] # "idle" => cmd[r] \in Command
  /\ locked \in [Requests -> SUBSET Accounts]
  /\ leg \in [Requests -> {1, 2, 3}]
  /\ uBalance \in [Requests -> [Accounts -> Int]]
  /\ uRows \in [Requests -> SUBSET Row]
  /\ uKeys \in [Requests -> SUBSET KeyRow]
  /\ answer \in [Requests -> [kind : Answers, tx : TxId \cup {NoTx}]]

\* Reconciliation answers "all reconciled" in every state: no account's stored
\* balance is ever off the sum of its postings.  Two read-modify-write postings
\* interleaved on one account would break it.
Reconciles == Verify.allReconciled

\* Money is conserved in every currency: the overview's two totals cancel,
\* through transfers, both legs of exchanges, reversals and refusals.
Conserved == \A c \in Currencies : Position(c).normal + Position(c).external = 0

\* An account is only ever closed empty, and nothing posts to it once closed:
\* the close and a concurrent posting race for the same row lock.
ClosedIsEmpty == \A a \in Accounts : ~active[a] => balance[a] = 0

\* The sufficient-funds rule and the column's range hold of committed balances,
\* whatever was read before they were checked.
BalancesAllowed == \A a \in Accounts : FundsRule(a, balance[a]) /\ Storable(balance[a])

\* No key ever has two transactions' worth of rows behind it, however many
\* duplicates of a request run at once, and every key row left behind names the
\* transaction that was posted for exactly the request it was reserved for.
OncePerKey ==
  /\ \A x, y \in ledger : cmd[x.id[1]].key = cmd[y.id[1]].key => x.id[1] = y.id[1]
  /\ \A row \in keys : \E x \in ledger :
       /\ x.id = row.tx
       /\ cmd[x.id[1]].key = row.key
       /\ RequestHash(cmd[x.id[1]].legs) = row.hash

\* An exchange and its unwinding are whole: a request's ledger rows are all its
\* legs or none, even when the second leg is refused after the first applied.
WholePosting ==
  \A x \in ledger : \A i \in DOMAIN cmd[x.id[1]].legs :
    \E y \in ledger : y.id = <<x.id[1], i>>

\* A transaction is reversed at most once, by two reversals of it under
\* different keys, or of either leg of an exchange.
ReversedOnce ==
  \A x, y \in ledger : x.leg.reverses = y.leg.reverses /\ x.leg.reverses # NoTx => x = y

AnswerTrue(r) ==
  LET mine == {x \in ledger : x.id[1] = r}
      kind == answer[r].kind
  IN /\ kind = "posted" => mine # {}
     /\ kind \notin {"posted", "failed"} => mine = {}
     /\ kind = "replayed" =>
          \E x \in ledger : x.id = answer[r].tx /\ cmd[x.id[1]] = cmd[r]
     /\ kind = "idempotency_conflict" =>
          \E x \in ledger : /\ cmd[x.id[1]].key = cmd[r].key
                           /\ cmd[x.id[1]].legs # cmd[r].legs

\* What a caller is told is true of the committed ledger: a posting is there, a
\* replay names a transaction with the caller's own key and payload, a conflict
\* names a key really spent on another payload, and a refusal or a replay has
\* moved nothing.
AnswersAreTrue == \A r \in Requests : pc[r] = "done" => AnswerTrue(r)
-----------------------------------------------------------------------------
(* The inductive invariant: what every request's open transaction may rely   *)
(* on.  Its parts are the reasons the properties above hold.                 *)

Holding(r) == pc[r] \in {"lock", "apply", "backfill", "commit"}

\* A row lock has one holder.
LocksExclusive == \A q, r \in Requests : q # r => locked[q] \cap locked[r] = {}

\* Before its reservation and after its end or rollback a request has nothing open.
NothingLeftOpen ==
  \A r \in Requests : ~Holding(r) =>
    locked[r] = {} /\ uRows[r] = {} /\ uKeys[r] = {} /\ leg[r] = 1

\* Past the checks, every account a request touches is a row of the organization
\* that it holds, open.
ChecksStillHold ==
  \A r \in Requests :
    /\ Holding(r) => locked[r] \subseteq Existing(r)
    /\ Holding(r) /\ pc[r] # "lock" =>
         /\ locked[r] = Needed(r)
         /\ \A a \in locked[r] : active[a]

LegInRange(r) ==
  /\ pc[r] = "lock" => leg[r] = 1
  /\ pc[r] = "apply" => leg[r] \in DOMAIN cmd[r].legs
  /\ pc[r] \in {"backfill", "commit"} => leg[r] = LastLeg(cmd[r].legs) + 1

\* What was read under the lock is still the committed balance, so the staged
\* balance is that balance plus the legs applied, and the rules allow it.
WorkOnCurrent ==
  \A r \in Requests : Holding(r) =>
    /\ LegInRange(r)
    /\ uRows[r] = {LedgerRow(r, i) : i \in 1..(leg[r] - 1)}
    /\ \A a \in locked[r] :
         /\ uBalance[r][a] = balance[a] + Effect(cmd[r].legs, leg[r] - 1, a)
         /\ FundsRule(a, uBalance[r][a]) /\ Storable(uBalance[r][a])
    /\ \A i \in 1..(leg[r] - 1) : \A a \in cmd[r].legs[i].touches :
         CurrencyOf[a] = cmd[r].legs[i].currency

KeyRowOf(r, tx) == [key |-> cmd[r].key, hash |-> RequestHash(cmd[r].legs), tx |-> tx]

\* A reservation is one row, of a key nobody else has reserved or spent.
ReservationsExclusive ==
  /\ \A r \in Requests : Holding(r) =>
       /\ uKeys[r] = {KeyRowOf(r, IF pc[r] = "commit" THEN <<r, 1>> ELSE NoTx)}
       /\ \A row \in keys : row.key # cmd[r].key
       /\ \A q \in Requests \ {r} : Holding(q) => cmd[q].key # cmd[r].key
  /\ \A x, y \in keys : x.key = y.key => x = y

Recorded(q) ==
  /\ pc[q] = "done"
  /\ KeyRowOf(q, <<q, 1>>) \in keys
  /\ \A i \in DOMAIN cmd[q].legs : LedgerRow(q, i) \in ledger

\* Key rows and ledger rows come together, from requests that are over.
HistoryMatchesKeys ==
  /\ \A x \in ledger : Recorded(x.id[1])
  /\ \A row \in keys : \E q \in Requests :
       row = KeyRowOf(q, <<q, 1>>) /\ LedgerRow(q, 1) \in ledger

AllRows == ledger \cup UNION {uRows[r] : r \in Requests}

\* No transaction is reversed twice, counting the reversals still uncommitted.
ReversalsDistinct ==
  \A x, y \in AllRows : x.leg.reverses = y.leg.reverses /\ x.leg.reverses # NoTx => x = y

\* The answers already decided are true of the ledger, delivered or not.
DecidedAnswersTrue ==
  \A r \in Requests : /\ AnswerTrue(r)
                      /\ pc[r] \notin {"audit", "done"} => answer[r].kind = "none"

\* Every leg under way or recorded is balanced: those that clients send, and so
\* their mirrors.
LegsBalanced ==
  /\ \A r \in Requests : pc[r] # "idle" =>
       \A i \in DOMAIN cmd[r].legs : Balanced(cmd[r].legs[i])
  /\ \A x \in ledger : Balanced(x.leg)

\* The conjunction that every step preserves: on the way to a commit nobody else
\* can reach what a request has reserved, locked, read or staged.
IInv ==
  /\ TypeOK
  /\ LocksExclusive
  /\ NothingLeftOpen
  /\ ChecksStillHold
  /\ WorkOnCurrent
  /\ ReservationsExclusive
  /\ HistoryMatchesKeys
  /\ ReversalsDistinct
  /\ BalancesAllowed
  /\ ClosedIsEmpty
  /\ DecidedAnswersTrue
  /\ IsFiniteSet(ledger)
  /\ LegsBalanced
  /\ Reconciles
  /\ Conserved
-----------------------------------------------------------------------------
\* lock-accounts.ts:12-15, "always acquire the row locks in the same relative
\* order this way, so they can never deadlock": no request waits in a cycle.
LockOrderPreventsDeadlock == \A r \in Requests : ~Deadlocked(r)
-----------------------------------------------------------------------------
Atomic == INSTANCE AtomicLedger

\* The routine implements the atomic ledger: each commit is one instantaneous
\* posting against the balances of that instant, everything else is invisible.
ImplementsAtomicLedger == Atomic!Spec

\* Every request that arrives is answered: no wait for a key or a row is forever.
EveryRequestAnswered == \A r \in Requests : pc[r] # "idle" ~> pc[r] = "done"
=============================================================================
