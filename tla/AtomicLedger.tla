---------------------------- MODULE AtomicLedger ----------------------------
(***************************************************************************)
(* What the ledger promises its callers: a posting happens in one instant, *)
(* against the balances of that instant, at most once per idempotency key, *)
(* all of its legs or none, and never touches a closed account.            *)
(* There are no requests, locks or Postgres transactions here.             *)
(***************************************************************************)
EXTENDS LedgerRules

VARIABLES
  balance,  \* ledger_account.balance
  active,   \* ledger_account.active
  ledger,   \* ledger_transaction rows with their postings
  keys      \* ledger_idempotency_key rows

vars == <<balance, active, ledger, keys>>

Init ==
  /\ balance = [a \in Accounts |-> 0]
  /\ active = [a \in Accounts |-> TRUE]
  /\ ledger = {}
  /\ keys = {}

\* The rows one posting appends, linked to each other when there are two.
Rows(r, legs) ==
  {[id |-> <<r, i>>, leg |-> legs[i], fxSource |-> IF i = 2 THEN <<r, 1>> ELSE NoTx]
     : i \in DOMAIN legs}

\* The posting that `entry`, its idempotency-key row, stands for: the key is
\* new, every account is open and of the leg's currency, nothing is reversed a
\* second time, and the resulting balances obey the domain rules.
Post(entry) ==
  LET r == entry.tx[1]
      legs == entry.hash
  IN /\ entry.tx = <<r, 1>>
     /\ \A row \in keys : row.key # entry.key
     /\ \A row \in ledger : row.id[1] # r
     /\ Touched(legs) \subseteq {a \in Accounts : active[a]}
     /\ \A i \in DOMAIN legs :
          /\ \A a \in legs[i].touches : CurrencyOf[a] = legs[i].currency
          /\ legs[i].reverses # NoTx =>
               \A row \in ledger : row.leg.reverses # legs[i].reverses
     /\ balance' = [a \in Accounts |-> IF a \in Touched(legs)
                                        THEN balance[a] + Effect(legs, LastLeg(legs), a)
                                        ELSE balance[a]]
     /\ \A a \in Touched(legs) : FundsRule(a, balance'[a]) /\ Storable(balance'[a])
     /\ ledger' = ledger \cup Rows(r, legs)
     /\ keys' = keys \cup {entry}
     /\ UNCHANGED active

Close(a) ==
  /\ balance[a] = 0
  /\ active' = [active EXCEPT ![a] = FALSE]
  /\ UNCHANGED <<balance, ledger, keys>>

Reopen(a) ==
  /\ active' = [active EXCEPT ![a] = TRUE]
  /\ UNCHANGED <<balance, ledger, keys>>

\* A posting is named by the key row it adds.
Next ==
  \/ \E entry \in keys' \ keys : Post(entry)
  \/ \E a \in Accounts : Close(a) \/ Reopen(a)

Spec == Init /\ [][Next]_vars
==============================================================================
