-------------------------------- MODULE Reset --------------------------------
(***************************************************************************)
(* sandbox.reset and the loop that drives it.                              *)
(*                                                                         *)
(* A browser tab calls reset under one run key until no account holds a    *)
(* balance.  Each call passes the approval gate, reads all balances        *)
(* without locks, plans one chunk of opposing legs, takes the account that *)
(* carries the suspense name or opens one when the chunk is partial and    *)
(* does not balance, and posts under a key derived from the run key and    *)
(* the chunk.  Calls of two tabs, calls whose answer was lost, the write   *)
(* limit, and what others do (post, close accounts, require approval, use  *)
(* the suspense name for an account of their own) interleave with it.      *)
(*                                                                         *)
(* A posting is one step here, taken when its accounts are free; how it    *)
(* gets there is Posting's business.  Accounts are ordered as their ids.   *)
(***************************************************************************)
EXTENDS Integers, FiniteSetsExt

CONSTANTS
  Tabs,            \* browser tabs with the sandbox page open
  Calls,           \* calls the server may be working on at one time
  Accounts,        \* a set of numbers, ordered as the ids are
  Currencies,      \* a set of numbers, ordered as the ISO codes are
  CurrencyOf,      \* [Accounts -> Currencies]
  Normal,          \* accounts of type `normal`; the others are external
  Suspense,        \* [Currencies -> Accounts], those reset opens when no
                   \* account carries the name
  InitialBalance,  \* [Accounts -> Int]
  Limit,           \* MAX_MINOR_UNITS
  ChunkSize,       \* RESET_CHUNK_SIZE
  MaxCalls,        \* maxCalls of the loop
  WritesPerWindow, \* WRITES_PER_MINUTE_PER_ORG
  MaxStarts,       \* bound: how often the buttons are pressed
  MaxTransfers,    \* bound: changes by others
  Moves,           \* bound: accounts <<from, to>> of their postings
  Claims,          \* bound: <<currency, account>>, those they may open under the
                   \* suspense name of the currency
  Closable,        \* bound: accounts they may close
  Tampered,        \* bound: accounts whose balance may be tampered with
  None             \* no run key, no call, no account

VARIABLES
  bal, closed, holder, approval, txs,         \* the database
  pc, run, chunk, opened, delta, result,      \* each call on the server
  slot, loop, of, call, calls, outcome,       \* each tab
  starts, transfers, broken, dirty, used      \* bounds, history, the limiter

settings == <<closed, approval>>
database == <<bal, settings, holder, txs>>
server == <<pc, run, chunk, opened, delta, result>>
tab == <<slot, loop, of, call, calls, outcome>>
history == <<starts, transfers, broken, dirty>>
vars == <<database, server, tab, history, used>>

Suspenses == {Suspense[c] : c \in Currencies}

InCurrency(k) == {a \in Accounts : CurrencyOf[a] = k}

\* The books were balanced in every currency, and postings are within one.
ASSUME ResetAssumption ==
  /\ Accounts \subseteq Nat /\ Currencies \subseteq Nat /\ IsFiniteSet(Accounts)
  /\ CurrencyOf \in [Accounts -> Currencies]
  /\ Suspense \in [Currencies -> Accounts] /\ Normal \subseteq Accounts \ Suspenses
  /\ \A k \in Currencies : CurrencyOf[Suspense[k]] = k
  /\ Limit \in Nat /\ InitialBalance \in [Accounts -> -Limit..Limit]
  /\ \A a \in Normal : InitialBalance[a] >= 0
  /\ \A k \in Currencies : SumFunctionOnSet(InitialBalance, InCurrency(k)) = 0
  /\ ChunkSize \in Nat \ {0} /\ MaxCalls \in Nat \ {0}
  /\ WritesPerWindow \in Nat /\ MaxStarts \in Nat
  /\ Moves \subseteq Accounts \X Accounts
  /\ \A move \in Moves : CurrencyOf[move[1]] = CurrencyOf[move[2]]
  /\ Claims \subseteq Currencies \X Accounts
  /\ Closable \subseteq Accounts /\ Tampered \subseteq Accounts
  /\ MaxTransfers \in Nat /\ None \notin Calls /\ None \notin Accounts

Runs == 1..MaxStarts
NonZero(f) == {a \in DOMAIN f : f[a] # 0}
Set(f, x, v) == [f EXCEPT ![x] = v]

Init ==
  /\ bal = InitialBalance
  /\ closed = {}
  /\ holder = [k \in Currencies |-> None]
  /\ approval = FALSE
  /\ txs = {}
  /\ pc = [c \in Calls |-> "none"]
  /\ run = [c \in Calls |-> None]
  /\ chunk = [c \in Calls |-> <<>>]
  /\ opened = [c \in Calls |-> {}]
  /\ delta = [c \in Calls |-> <<>>]
  /\ result = [c \in Calls |-> "none"]
  /\ slot = [t \in Tabs |-> None]
  /\ loop = [t \in Tabs |-> "idle"]
  /\ of = [t \in Tabs |-> None]
  /\ call = [t \in Tabs |-> None]
  /\ calls = [t \in Tabs |-> 0]
  /\ outcome = [t \in Tabs |-> "none"]
  /\ starts = 0 /\ transfers = 0
  /\ broken = 0
  /\ dirty = {}
  /\ used = 0
-----------------------------------------------------------------------------
(* The planner *)

\* The lowest ChunkSize accounts of the lowest currency that holds a balance.
Taken(f) ==
  LET currency == Min({CurrencyOf[a] : a \in NonZero(f)})
      pending == {a \in NonZero(f) : CurrencyOf[a] = currency}
  IN {a \in pending : Cardinality({b \in pending : b < a}) < ChunkSize}

CurrencyIn(plan) == CurrencyOf[Min(DOMAIN plan)]

\* Mutant: any chunk that does not balance gets one.
NeedsSuspenseAlways(f, plan) == SumFunction(plan) # 0

\* A final chunk gets no suspense leg, so that a break in the books is refused.
NeedsSuspense(f, plan) ==
  /\ \E a \in NonZero(f) \ DOMAIN plan : CurrencyOf[a] = CurrencyIn(plan)
  /\ SumFunction(plan) # 0

\* The legs of a chunk, netted.  `suspense` is empty, or holds the account that
\* absorbs what does not balance; its leg is in the currency of the chunk.
ChunkDelta(plan, suspense) ==
  [a \in DOMAIN plan \cup suspense |->
     (IF a \in DOMAIN plan THEN -plan[a] ELSE 0)
       + (IF a \in suspense THEN SumFunction(plan) ELSE 0)]

\* Transaction.create counts the legs before it adds them up.
CreateRefusal(plan, suspense, d) ==
  CASE Cardinality(DOMAIN plan) + Cardinality(suspense) < 2 -> "too_few_postings"
    [] SumFunction(d) # 0 -> "unbalanced_transaction"
    [] OTHER -> "ok"
-----------------------------------------------------------------------------
(* sandbox.reset, one call *)

At(c, where) == pc[c] = where
Goto(c, where) == pc' = Set(pc, c, where)
Others(c) == Calls \ {c}

\* The answer is settled; what was written is committed, even after an error.
Settle(c, what) == result' = Set(result, c, what) /\ Goto(c, "commit")

ToPost(c, plan, suspense) ==
  LET d == ChunkDelta(plan, suspense)
  IN IF CreateRefusal(plan, suspense, d) = "ok"
     THEN delta' = Set(delta, c, d) /\ Goto(c, "post") /\ UNCHANGED result
     ELSE Settle(c, CreateRefusal(plan, suspense, d)) /\ UNCHANGED delta

\* requireNoPendingApprovalPolicy: directPostProcedure's gate.
Gate(c) ==
  /\ At(c, "gate")
  /\ IF approval THEN Settle(c, "approval_required")
     ELSE Goto(c, "plan") /\ UNCHANGED result
  /\ UNCHANGED <<database, run, chunk, opened, delta, tab, history, used>>

\* listAccounts and planResetChunk: no row is locked.
Plan(c) ==
  /\ At(c, "plan")
  /\ IF NonZero(bal) = {}
     THEN Settle(c, "zero") /\ UNCHANGED <<chunk, delta>>
     ELSE LET plan == Restrict(bal, Taken(bal))
          IN /\ chunk' = Set(chunk, c, plan)
             /\ IF NeedsSuspense(bal, plan)
                THEN Goto(c, "suspense") /\ UNCHANGED <<delta, result>>
                ELSE ToPost(c, plan, {})
  /\ UNCHANGED <<database, run, opened, tab, history, used>>

SuspenseOf(c) == Suspense[CurrencyIn(chunk[c])]
HolderOf(c) == holder[CurrencyIn(chunk[c])]

\* ensureAccounts lists the accounts again and takes the one with the name,
\* whatever its type and currency, and open or not.
FindSuspense(c) ==
  /\ At(c, "suspense")
  /\ IF HolderOf(c) # None THEN ToPost(c, chunk[c], {HolderOf(c)})
     ELSE Goto(c, "open") /\ UNCHANGED <<delta, result>>
  /\ UNCHANGED <<database, run, chunk, opened, tab, history, used>>

\* Mutant: a look-up in place of the unique index.
OpenSuspenseAtOnce(c) ==
  /\ At(c, "open")
  /\ IF HolderOf(c) # None
     THEN Settle(c, "transaction_aborted") /\ UNCHANGED <<opened, delta>>
     ELSE opened' = Set(opened, c, {SuspenseOf(c)}) /\ ToPost(c, chunk[c], {SuspenseOf(c)})
  /\ UNCHANGED <<database, run, chunk, tab, history, used>>

\* createAccount.  Its INSERT waits for another call's; if somebody's committed,
\* the transaction is aborted and the second look-up throws.
OpenSuspense(c) ==
  /\ At(c, "open")
  /\ \A q \in Others(c) : SuspenseOf(c) \notin opened[q]
  /\ IF HolderOf(c) # None
     THEN Settle(c, "transaction_aborted") /\ UNCHANGED <<opened, delta>>
     ELSE opened' = Set(opened, c, {SuspenseOf(c)}) /\ ToPost(c, chunk[c], {SuspenseOf(c)})
  /\ UNCHANGED <<database, run, chunk, tab, history, used>>

Key(c) == <<run[c], chunk[c]>>
HasPosted(c) == delta[c] # <<>> /\ (At(c, "count") \/ At(c, "commit"))
Holds(c, accounts) == HasPosted(c) /\ accounts \cap DOMAIN delta[c] # {}

\* The chunk was posted already under this run key.
ReplayChunk(c) ==
  /\ At(c, "post")
  /\ \E x \in txs : x.key = Key(c)
  /\ IF \E x \in txs : x.key = Key(c) /\ x.delta = delta[c]
     THEN Goto(c, "count") /\ delta' = Set(delta, c, <<>>) /\ UNCHANGED result
     ELSE Settle(c, "idempotency_conflict") /\ delta' = Set(delta, c, <<>>)
  /\ UNCHANGED <<database, run, chunk, opened, tab, history, used>>

\* Mutant: the balance is that of the plan, read before the locks.
ProblemOfPlan(c, a) ==
  LET planned == IF a \in DOMAIN chunk[c] THEN chunk[c][a] ELSE bal[a]
      resulting == planned + delta[c][a]
  IN CASE CurrencyOf[a] # CurrencyIn(chunk[c]) -> "currency_mismatch"
       [] a \in Normal /\ resulting < 0 -> "insufficient_funds"
       [] resulting \notin -Limit..Limit -> "balance_limit_exceeded"
       [] OTHER -> "ok"

\* applyDelta, then the storable range, on the row as it is now that it is locked.
Problem(c, a) ==
  LET resulting == bal[a] + delta[c][a]
  IN CASE CurrencyOf[a] # CurrencyIn(chunk[c]) -> "currency_mismatch"
       [] a \in Normal /\ resulting < 0 -> "insufficient_funds"
       [] resulting \notin -Limit..Limit -> "balance_limit_exceeded"
       [] OTHER -> "ok"

\* All accounts are seen to be active before any is applied, the suspense account
\* last.  The column of its leg's amount overflows unmapped: a plain 500.
Refusal(c) ==
  LET refused == {a \in DOMAIN delta[c] : Problem(c, a) # "ok"}
      planned == refused \cap DOMAIN chunk[c]
      first == IF planned # {} THEN Min(planned) ELSE CHOOSE a \in refused : TRUE
  IN CASE DOMAIN delta[c] \cap closed # {} -> "account_inactive"
       [] refused # {} -> Problem(c, first)
       [] SumFunction(chunk[c]) \notin -Limit..Limit -> "storage_error"
       [] OTHER -> "ok"

PostChunk(c) ==
  /\ At(c, "post")
  /\ \A x \in txs : x.key # Key(c)
  /\ \A q \in Others(c) : ~Holds(q, DOMAIN delta[c]) /\ ~(HasPosted(q) /\ Key(q) = Key(c))
  /\ IF Refusal(c) = "ok" THEN Goto(c, "count") /\ UNCHANGED <<delta, result>>
     ELSE Settle(c, Refusal(c)) /\ delta' = Set(delta, c, <<>>)
  /\ UNCHANGED <<database, run, chunk, opened, tab, history, used>>

After(f, d) == [a \in DOMAIN f |-> f[a] + (IF a \in DOMAIN d THEN d[a] ELSE 0)]

\* Mutant: only the accounts of the plan are counted.
CountChunk(c) ==
  /\ At(c, "count")
  /\ Settle(c, IF NonZero(Restrict(After(bal, delta[c]), DOMAIN chunk[c])) = {}
               THEN "zero" ELSE "remaining")
  /\ UNCHANGED <<database, run, chunk, opened, delta, tab, history, used>>

\* countNonZero of a second listAccounts, which sees the call's own posting.
Count(c) ==
  /\ At(c, "count")
  /\ Settle(c, IF NonZero(After(bal, delta[c])) = {} THEN "zero" ELSE "remaining")
  /\ UNCHANGED <<database, run, chunk, opened, delta, tab, history, used>>

Forget(c) ==
  /\ Goto(c, "none")
  /\ run' = Set(run, c, None)
  /\ chunk' = Set(chunk, c, <<>>)
  /\ opened' = Set(opened, c, {})
  /\ delta' = Set(delta, c, <<>>)
  /\ result' = Set(result, c, "none")
-----------------------------------------------------------------------------
(* The loop in the tab *)

\* What a reset needs of the ledger to come to its end: it may post directly, the
\* accounts that carry a suspense name are fit for it, what is closed is at zero,
\* and whatever balances it brings together can be stored.
Clearable ==
  /\ ~approval
  /\ \A k \in Currencies : holder[k] # None => holder[k] \in InCurrency(k) \ (Normal \cup closed)
  /\ \A a \in closed : bal[a] = 0
  /\ \A k \in Currencies : \A S \in SUBSET InCurrency(k) :
       SumFunctionOnSet(bal, S) \in -Limit..Limit

Finish(t, how) ==
  /\ outcome' = Set(outcome, t, how)
  /\ loop' = Set(loop, t, "idle")
  /\ call' = Set(call, t, None)
  /\ calls' = Set(calls, t, 0)

GoOn(t) ==
  /\ loop' = Set(loop, t, "send")
  /\ call' = Set(call, t, None)
  /\ calls' = Set(calls, t, calls[t] + 1)
  /\ UNCHANGED outcome

\* "Reset balances" goes on under the stored run key, "Start a new reset" mints
\* one; both are disabled while the loop runs.  (`dirty` is of the properties: a
\* key minted over a ledger no reset can clear counts as disturbed.)
Press(t) ==
  /\ loop[t] = "idle"
  /\ starts < MaxStarts
  /\ starts' = starts + 1
  /\ \E fresh \in BOOLEAN :
       LET key == IF fresh \/ slot[t] = None THEN starts' ELSE slot[t]
       IN slot' = Set(slot, t, key) /\ of' = Set(of, t, key)
  /\ loop' = Set(loop, t, "send")
  /\ outcome' = Set(outcome, t, "none")
  /\ dirty' = IF Clearable THEN dirty ELSE dirty \cup {starts'}
  /\ UNCHANGED <<database, server, call, calls, transfers, broken, used>>

\* enforceLimit comes first; the call starts if there is room.  A throttled
\* loop that waited sends again.
Send(t) ==
  /\ loop[t] \in {"send", "throttled"}
  /\ used < WritesPerWindow
  /\ \E c \in Calls :
       /\ At(c, "none")
       /\ \A b \in Calls : At(b, "none") => c <= b
       /\ Goto(c, "gate")
       /\ run' = Set(run, c, of[t])
       /\ call' = Set(call, t, c)
  /\ used' = used + 1
  /\ loop' = Set(loop, t, "wait")
  /\ UNCHANGED <<database, chunk, opened, delta, result, slot, of, calls, outcome, history>>

\* 429: the loop waits retryAfterSeconds and calls again; it is not counted.
Throttle(t) ==
  /\ loop[t] = "send"
  /\ used = WritesPerWindow
  /\ loop' = Set(loop, t, "throttled")
  /\ UNCHANGED <<database, server, slot, of, call, calls, outcome, history, used>>

\* Mutant: an error is waited out and retried like a throttled call.
ReceiveRetrying(t, what) ==
  CASE what = "zero" -> Finish(t, "complete") /\ slot' = Set(slot, t, None)
    [] what = "remaining" /\ calls[t] + 1 < MaxCalls -> GoOn(t) /\ UNCHANGED slot
    [] what = "remaining" /\ calls[t] + 1 = MaxCalls -> Finish(t, "out_of_calls") /\ UNCHANGED slot
    [] OTHER -> /\ loop' = Set(loop, t, "send")
                /\ call' = Set(call, t, None)
                /\ UNCHANGED <<calls, outcome, slot>>

\* The answer: done, out of calls, once more, or an error.  Only success frees
\* the run key.
Receive(t, what) ==
  CASE what = "zero" -> Finish(t, "complete") /\ slot' = Set(slot, t, None)
    [] what = "remaining" /\ calls[t] + 1 < MaxCalls -> GoOn(t) /\ UNCHANGED slot
    [] what = "remaining" /\ calls[t] + 1 = MaxCalls -> Finish(t, "out_of_calls") /\ UNCHANGED slot
    [] OTHER -> Finish(t, what) /\ UNCHANGED slot

\* Every run under way but the one that wrote is disturbed.
Disturb(by) == dirty' = dirty \cup (1..starts \ {by})

\* COMMIT, and the answer, unless nobody waits for it any more.
Commit(c) ==
  /\ At(c, "commit")
  /\ holder' = [k \in Currencies |-> IF Suspense[k] \in opened[c] THEN Suspense[k] ELSE holder[k]]
  /\ IF delta[c] # <<>>
     THEN /\ bal' = After(bal, delta[c])
          /\ txs' = txs \cup {[key |-> Key(c), delta |-> delta[c]]}
          /\ Disturb(run[c])
     ELSE UNCHANGED <<bal, txs, dirty>>
  /\ IF \E t \in Tabs : call[t] = c
     THEN \E t \in Tabs : call[t] = c /\ Receive(t, result[c])
     ELSE UNCHANGED <<slot, loop, call, calls, outcome>>
  /\ Forget(c)
  /\ UNCHANGED <<settings, of, starts, transfers, broken, used>>

Step(c) ==
  \/ Gate(c) \/ Plan(c) \/ FindSuspense(c) \/ OpenSuspense(c)
  \/ ReplayChunk(c) \/ PostChunk(c) \/ Count(c) \/ Commit(c)
-----------------------------------------------------------------------------
(* Everything else *)

\* The connection breaks, or the page is reloaded; the server goes on.
LoseTab(t) ==
  /\ loop[t] # "idle"
  /\ Finish(t, "lost")
  /\ UNCHANGED <<database, server, slot, of, history, used>>

\* A crash or a timeout on the server: ROLLBACK.
Crash(c) ==
  /\ ~At(c, "none")
  /\ \A t \in Tabs : call[t] # c
  /\ Forget(c)
  /\ UNCHANGED <<database, tab, history, used>>

\* A change by somebody else; it disturbs every run under way.
OfOthers ==
  /\ transfers < MaxTransfers
  /\ transfers' = transfers + 1
  /\ Disturb(0)

\* A posting of somebody else, seeds included.
Transfer ==
  /\ OfOthers
  /\ \E move \in Moves :
       /\ move[1] \in Normal => bal[move[1]] > 0
       /\ {move[1], move[2]} \cap closed = {}
       /\ {bal[move[1]] - 1, bal[move[2]] + 1} \subseteq -Limit..Limit
       /\ \A c \in Calls : ~Holds(c, {move[1], move[2]})
       /\ bal' = [bal EXCEPT ![move[1]] = @ - 1, ![move[2]] = @ + 1]
  /\ UNCHANGED <<settings, holder, txs, server, tab, starts, broken, used>>

\* setAccountActive: closing is an UPDATE over the balance as committed, after it
\* waited for the row; reopening has no condition.
SetActive ==
  /\ OfOthers
  /\ \E a \in Closable :
       /\ \A c \in Calls : ~Holds(c, {a})
       /\ \A k \in Currencies : Suspense[k] = a => holder[k] = a
       /\ \/ closed' = closed \ {a}
          \/ bal[a] = 0 /\ closed' = closed \cup {a}
  /\ UNCHANGED <<bal, holder, approval, txs, server, tab, starts, broken, used>>

\* accounts.create under the name of a suspense account, with any type and currency.
Claim ==
  /\ OfOthers
  /\ \E claim \in Claims :
       LET k == claim[1]
       IN /\ holder[k] = None
          /\ \A c \in Calls : Suspense[k] \notin opened[c]
          /\ holder' = Set(holder, k, claim[2])
  /\ UNCHANGED <<bal, settings, txs, server, tab, starts, broken, used>>

\* settings.update
SetApproval ==
  /\ OfOthers
  /\ approval' = ~approval
  /\ UNCHANGED <<bal, closed, holder, txs, server, tab, starts, broken, used>>

\* What the refusal of an unbalanced chunk is there for: a balance that was
\* changed by other means than a posting, before anybody thought of a reset.
Tamper ==
  /\ starts = 0
  /\ OfOthers
  /\ \E a \in Tampered : bal' = [bal EXCEPT ![a] = @ + 1]
  /\ broken' = broken + 1
  /\ UNCHANGED <<settings, holder, txs, server, tab, starts, used>>

WindowPasses ==
  /\ used > 0
  /\ used' = 0
  /\ UNCHANGED <<database, server, tab, history>>

Next ==
  \/ \E t \in Tabs :
       \/ Press(t) \/ Send(t) \/ Throttle(t) \/ LoseTab(t)
  \/ \E c \in Calls : Step(c) \/ Crash(c)
  \/ Transfer \/ SetActive \/ Claim \/ SetApproval \/ Tamper \/ WindowPasses

\* Calls and loops take their steps and windows pass; people and failures need
\* not come.
Spec ==
  /\ Init /\ [][Next]_vars
  /\ \A t \in Tabs : WF_vars(Send(t) \/ Throttle(t))
  /\ \A c \in Calls : WF_vars(Step(c))
  /\ WF_vars(WindowPasses)
-----------------------------------------------------------------------------
(* Properties *)

Errors == {"approval_required", "too_few_postings", "unbalanced_transaction",
           "transaction_aborted", "idempotency_conflict", "account_inactive",
           "currency_mismatch", "insufficient_funds", "balance_limit_exceeded",
           "storage_error"}

\* Type correctness; two calls never open the same suspense account, and a
\* posting belongs to a run key somebody holds or held.
TypeOK ==
  /\ DOMAIN bal = Accounts /\ closed \subseteq Accounts /\ approval \in BOOLEAN
  /\ holder \in [Currencies -> Accounts \cup {None}]
  /\ pc \in [Calls -> {"none", "gate", "plan", "suspense", "open", "post", "count", "commit"}]
  /\ loop \in [Tabs -> {"idle", "send", "throttled", "wait"}]
  /\ slot \in [Tabs -> Runs \cup {None}]
  /\ call \in [Tabs -> Calls \cup {None}]
  /\ outcome \in [Tabs -> Errors \cup {"none", "complete", "out_of_calls", "lost"}]
  /\ used \in 0..WritesPerWindow
  /\ \A x \in txs : x.key[1] \in 1..starts
  /\ \A c, q \in Calls : opened[c] \cap opened[q] # {} => c = q

\* No plan drives a normal account below zero, however old the balances it was
\* made from.
NoOverdraft == \A a \in Normal : bal[a] >= 0

\* Accounts behind the suspense account of their currency that hold a balance, and
\* one that no tampering clears.
HeldBehind(k) ==
  {a \in InCurrency(k) : /\ Suspense[k] < a
                         /\ InitialBalance[a] > 0 \/ (InitialBalance[a] # 0 /\ a \notin Tampered)}

Parked(k) ==
  /\ bal[Suspense[k]] # 0
  /\ \A a \in InCurrency(k) \ {Suspense[k]} : bal[a] = 0

\* Reset keeps the evidence of a break: whatever chunks, suspense accounts and
\* races it went through, the balances still add up to what was tampered with;
\* while an account behind the suspense account held a balance, the difference is
\* not parked in the suspense account with the rest at zero; the alarm is raised
\* only over a break, and no reset that is told complete ran over one.
BreakIsKept ==
  /\ SumFunction(bal) = broken
  /\ transfers = broken => \A k \in Currencies : HeldBehind(k) # {} => ~Parked(k)
  /\ \A t \in Tabs : outcome[t] = "unbalanced_transaction" => broken # 0
  /\ \A t \in Tabs : outcome[t] = "complete" => broken = 0

\* ADR 0008:30, "emitting a suspense leg there would absorb any discrepancy ... it
\* must not destroy the evidence": a break never ends up in a suspense account with
\* every account that shows it at zero, wherever that account comes in the order.
BreakIsNeverParked ==
  transfers = broken => \A k \in Currencies : ~Parked(k)

\* A run whose key was minted over a ledger a reset can clear, and that nothing
\* else disturbed since, zeroes all it says it does, through lost answers, resumed
\* loops, orphaned calls and pauses for the limiter.  It fails only when the
\* connection does, or when another call, its own orphan say, opens the suspense
\* account under it: none of the refusals of the gate, the planner or the posting
\* routine is met, and the loop does not run out of calls.
UndisturbedResetCompletes ==
  \A t \in Tabs : broken = 0 /\ of[t] # None /\ of[t] \notin dirty =>
    /\ outcome[t] \in {"none", "complete", "lost", "transaction_aborted"}
    /\ outcome[t] = "complete" => NonZero(bal) = {}

\* Every loop ends, with success or with an outcome someone is shown.
EveryLoopEnds == \A t \in Tabs : loop[t] # "idle" ~> loop[t] = "idle"
=============================================================================
