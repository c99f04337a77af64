----------------------------- MODULE LedgerRules -----------------------------
(***************************************************************************)
(* The domain rules every posting obeys (packages/core and the storable    *)
(* range of packages/db), shared by the atomic ledger and by the detailed  *)
(* posting routine.  Amounts are integers in minor units.                  *)
(*                                                                         *)
(* A leg is one balanced, single-currency `Transaction` of packages/core:  *)
(* `touches` is the key set of Transaction.deltas(), `delta` its values    *)
(* (zero elsewhere), and `reverses` the transaction it undoes, if any.     *)
(***************************************************************************)
EXTENDS Integers, FiniteSets

CONSTANTS
  AccountIds,        \* every id a caller may name, including unknown ones
  Accounts,          \* the ids that are rows of this organization
  ExternalAccounts,  \* rows of type "external"; the others are "normal"
  Currencies,
  CurrencyOf,        \* account row -> its currency
  MaxBalance,        \* MAX_MINOR_UNITS: the largest magnitude a row may hold
  Keys,              \* idempotency keys
  Requests,          \* org-scoped API calls, one Postgres transaction each
  NoTx               \* SQL NULL in a transaction-id column

ASSUME RulesAssumption ==
  /\ IsFiniteSet(AccountIds) /\ Accounts \subseteq AccountIds
  /\ ExternalAccounts \subseteq Accounts
  /\ CurrencyOf \in [Accounts -> Currencies]
  /\ MaxBalance \in Nat
  /\ NoTx \notin Requests \X {1, 2}

\* A ledger_transaction id: the request that wrote it and which leg it was.
TxId == Requests \X {1, 2}

Leg == {l \in [currency : Currencies,
               touches  : SUBSET AccountIds,
               delta    : [AccountIds -> Int],
               reverses : TxId \cup {NoTx}] :
          \A a \in AccountIds \ l.touches : l.delta[a] = 0}

\* postTransaction posts one leg under a key, postExchange two.
LegList == [{1} -> Leg] \cup [{1, 2} -> Leg]

LastLeg(legs) == IF 2 \in DOMAIN legs THEN 2 ELSE 1

Touched(legs) == UNION {legs[i].touches : i \in DOMAIN legs}

\* What the first n legs add to account a.
Effect(legs, n, a) ==
  IF n = 0 THEN 0
  ELSE IF n = 1 THEN legs[1].delta[a]
  ELSE legs[1].delta[a] + legs[2].delta[a]

\* The requestHash of a command: its legs and the ids they reverse, never the
\* key, the organization or the actor.
RequestHash(legs) == legs

\* applyDelta refuses a normal account that would go below zero ...
FundsRule(a, b) == a \in ExternalAccounts \/ b >= 0

\* ... and applyLeg a balance outside what the bigint column is given.
Storable(b) == -MaxBalance <= b /\ b <= MaxBalance

\* The mirror that undoes a persisted row: every direction swapped.
Mirror(row) ==
  [currency |-> row.leg.currency,
   touches  |-> row.leg.touches,
   delta    |-> [a \in AccountIds |-> -row.leg.delta[a]],
   reverses |-> row.id]
==============================================================================
