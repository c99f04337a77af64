-------------------------- MODULE RequestScopeProofs --------------------------
(***************************************************************************)
(* Requests that open accounts and post several times, for any commands,   *)
(* accounts, rows and number of requests.                                  *)
(*                                                                         *)
(* Names are unique because an open transaction's names are nobody else's  *)
(* (AccountsApart), postings are on accounts of their currency that are    *)
(* committed with them (RowsReal), and what a request will answer is true  *)
(* of what it has written when it commits (Own).  Every row that is posted *)
(* balances, so the books do (Booked).  A seed's entries stand in order    *)
(* because no key is posted under twice, not even by transactions that     *)
(* have not committed (KeysApart), and a seed goes on only after it has    *)
(* posted or found what comes first (SeedSoFar).                           *)
(***************************************************************************)
EXTENDS RequestScope, SumLemmas, SequenceTheorems, TLAPS

Shape ==
  /\ DOMAIN cmd = Requests /\ DOMAIN toFind = Requests /\ DOMAIN toOpen = Requests
  /\ DOMAIN opened = Requests /\ DOMAIN next = Requests /\ DOMAIN locked = Requests
  /\ DOMAIN kept = Requests /\ DOMAIN rows = Requests /\ DOMAIN aborted = Requests
  /\ DOMAIN verdict = Requests /\ DOMAIN answer = Requests

\* An account name is one row, and one open transaction's.
AccountsApart ==
  /\ \A q, r \in Requests : q # r => Names(opened[q]) \cap Names(opened[r]) = {}
  /\ \A r \in Requests : \A s, t \in accounts \cup opened[r] : s.name = t.name => s = t

Real(set, specs) ==
  \A row \in set : \A name \in DOMAIN row.delta :
    \E s \in specs : s.name = name /\ s.currency = row.currency

\* Postings are on accounts that are there when the postings are.
RowsReal ==
  /\ Real(ledger, accounts)
  /\ \A r \in Requests : Real(rows[r], accounts \cup opened[r])

IInv == TypeOK /\ Shape /\ AccountsApart /\ RowsReal

\* A step of no request: none at all, or an admin closes or reopens an account.
Idle == UNCHANGED <<accounts, ledger, cmd, pc, work, answer>>

LEMMA NextIs == [Next]_vars => Idle \/ \E r \in Requests : Begin(r) \/ Step(r) \/ Crash(r)
BY DEF Next, vars, committed, Idle, SetActive

-----------------------------------------------------------------------------
(* Steps of one request.                                                   *)

\* Whether a step keeps the invariant can be seen from what it does to its own
\* request, when it neither opens, posts nor commits.
LEMMA QuietStep ==
  ASSUME IInv, NEW r \in Requests, UNCHANGED <<accounts, ledger, opened, rows>>,
         Shape', pc' \in [Requests -> {"idle", "find", "reserve", "lock", "commit", "done"}],
         \A q \in Requests \ {r} : cmd'[q] = cmd[q] /\ pc'[q] = pc[q]
                                   /\ locked'[q] = locked[q] /\ kept'[q] = kept[q],
         pc'[r] # "idle" => cmd'[r] \in Commands,
         kept'[r] \subseteq locked'[r],
         \A q \in Requests \ {r} : locked'[r] \cap locked[q] = {}
  PROVE  IInv'
<1> USE DEF IInv
<1>1. TypeOK'
  BY DEF TypeOK
<1>2. AccountsApart'
  BY DEF AccountsApart
<1>3. RowsReal'
  BY DEF RowsReal, Real
<1> QED BY <1>1, <1>2, <1>3

\* A request that only moves on.
LEMMA MoveStep ==
  ASSUME IInv, NEW r \in Requests, UNCHANGED <<accounts, ledger, opened, rows, locked, kept, cmd>>,
         NEW where \in {"find", "reserve", "lock", "commit", "done"},
         pc' = [pc EXCEPT ![r] = where] \/ pc' = pc, Shape', pc[r] # "idle"
  PROVE  IInv'
<1>1. pc' \in [Requests -> {"idle", "find", "reserve", "lock", "commit", "done"}]
  BY DEF IInv, TypeOK
<1>2. \A q \in Requests \ {r} : pc'[q] = pc[q]
  BY DEF IInv, TypeOK
<1> QED
  BY <1>1, <1>2, QuietStep DEF IInv, TypeOK

LEMMA BeginStep == ASSUME IInv, NEW r \in Requests, Begin(r) PROVE IInv'
<1>1. PICK c \in Commands : cmd' = [cmd EXCEPT ![r] = c]
  BY DEF Begin
<1>2. PICK where \in {"find", "commit"} : pc' = [pc EXCEPT ![r] = where]
  BY DEF Begin, Goto
<1>3. UNCHANGED <<committed, opened, next, locked, kept, rows, aborted, answer>>
  BY DEF Begin
<1>4. Shape'
  BY <1>1, <1>3 DEF Begin, Say, IInv, Shape
<1> QED
  BY <1>1, <1>2, <1>3, <1>4, QuietStep DEF IInv, TypeOK, Shape, committed

LEMMA FindAccountsStep == ASSUME IInv, NEW r \in Requests, FindAccounts(r) PROVE IInv'
<1>1. Shape' /\ pc' = pc /\ pc[r] = "find"
  BY DEF FindAccounts, IInv, Shape
<1> QED
  BY <1>1, MoveStep DEF FindAccounts, committed

LEMMA LoseNameRaceStep == ASSUME IInv, NEW r \in Requests, LoseNameRace(r) PROVE IInv'
<1>1. Shape' /\ pc' = [pc EXCEPT ![r] = "commit"] /\ pc[r] = "find"
  BY DEF LoseNameRace, IInv, Shape, Goto, Say
<1> QED
  BY <1>1, MoveStep DEF LoseNameRace, committed

LEMMA StartPostingStep == ASSUME IInv, NEW r \in Requests, StartPosting(r) PROVE IInv'
<1>1. PICK where \in {"commit", "reserve"} : pc' = [pc EXCEPT ![r] = where]
  BY DEF StartPosting, Goto
<1>2. Shape' /\ pc[r] = "find"
  BY DEF StartPosting, IInv, Shape, Say
<1> QED
  BY <1>1, <1>2, MoveStep DEF StartPosting, committed

\* The end of an entry.
LEMMA AdvanceIs ==
  ASSUME NEW r \in Requests, Advance(r)
  PROVE  /\ \E where \in {"commit", "reserve"} : pc' = [pc EXCEPT ![r] = where]
         /\ Shape => DOMAIN next' = Requests /\ DOMAIN verdict' = Requests
BY DEF Advance, Goto, Say, Shape

LEMMA ScenarioThrowsStep == ASSUME IInv, NEW r \in Requests, ScenarioThrows(r) PROVE IInv'
<1>1. Shape' /\ pc' = [pc EXCEPT ![r] = "commit"] /\ pc[r] = "reserve"
  BY DEF ScenarioThrows, IInv, Shape, Goto, Say
<1> QED
  BY <1>1, MoveStep DEF ScenarioThrows, committed

LEMMA ReserveKeyStep == ASSUME IInv, NEW r \in Requests, ReserveKey(r) PROVE IInv'
<1>1. /\ pc' = [pc EXCEPT ![r] = "lock"] /\ kept' = [kept EXCEPT ![r] = locked[r]]
      /\ pc[r] = "reserve" /\ UNCHANGED <<accounts, ledger, opened, rows, locked, cmd>>
  BY DEF ReserveKey, Goto, committed
<1>2. Shape'
  BY DEF ReserveKey, IInv, Shape
<1> QED
  BY <1>1, <1>2, QuietStep DEF IInv, TypeOK, Shape

LEMMA ReplayEntryStep == ASSUME IInv, NEW r \in Requests, ReplayEntry(r) PROVE IInv'
<1>1. PICK where \in {"commit", "reserve"} : pc' = [pc EXCEPT ![r] = where]
  BY AdvanceIs DEF ReplayEntry
<1>2. Shape' /\ pc[r] = "reserve"
  BY AdvanceIs DEF ReplayEntry, IInv, Shape
<1> QED
  BY <1>1, <1>2, MoveStep DEF ReplayEntry, committed

LEMMA KeyConflictStep == ASSUME IInv, NEW r \in Requests, KeyConflict(r) PROVE IInv'
<1>1. Shape' /\ pc' = [pc EXCEPT ![r] = "commit"] /\ pc[r] = "reserve"
  BY DEF KeyConflict, AuditRejection, IInv, Shape, Goto, Say
<1> QED
  BY <1>1, MoveStep DEF KeyConflict, committed

LEMMA LockAccountStep == ASSUME IInv, NEW r \in Requests, LockAccount(r) PROVE IInv'
<1>1. PICK name \in Existing(r) \ locked[r] :
        Free(r, name) /\ locked' = [locked EXCEPT ![r] = @ \cup {name}]
  BY DEF LockAccount
<1>2. /\ pc[r] = "lock" /\ Shape' /\ UNCHANGED <<accounts, ledger, opened, rows, kept, cmd, pc>>
  BY <1>1 DEF LockAccount, IInv, Shape, committed
<1>3. locked'[r] = locked[r] \cup {name} /\ \A q \in Requests \ {r} : locked'[q] = locked[q]
  BY <1>1 DEF IInv, Shape
<1> QED
  BY <1>1, <1>2, <1>3, QuietStep DEF IInv, TypeOK, Free

LEMMA RefuseEntryStep == ASSUME IInv, NEW r \in Requests, RefuseEntry(r) PROVE IInv'
<1>1. PICK where \in {"commit", "reserve"} : pc' = [pc EXCEPT ![r] = where]
  BY AdvanceIs DEF RefuseEntry, Goto
<1>2. /\ locked' = [locked EXCEPT ![r] = kept[r]] /\ pc[r] = "lock"
      /\ UNCHANGED <<accounts, ledger, opened, rows, kept, cmd>>
  BY DEF RefuseEntry, committed
<1>3. Shape'
  BY <1>2, AdvanceIs DEF RefuseEntry, IInv, Shape, Say
<1> QED
  BY <1>1, <1>2, <1>3, QuietStep DEF IInv, TypeOK, Shape

LEMMA BreakDeadlockStep == ASSUME IInv, NEW r \in Requests, BreakDeadlock(r) PROVE IInv'
<1>1. WaitsFor(r) # {}
  BY DEF BreakDeadlock, Deadlocked
<1>2. pc[r] \in {"find", "reserve", "lock"}
  BY <1>1 DEF WaitsFor
<1>3. /\ locked' = [locked EXCEPT ![r] = IF pc[r] = "lock" THEN kept[r] ELSE @]
      /\ pc' = [pc EXCEPT ![r] = "commit"]
      /\ UNCHANGED <<accounts, ledger, opened, rows, kept, cmd>>
  BY DEF BreakDeadlock, Goto, committed
<1>4. Shape'
  BY DEF BreakDeadlock, IInv, Shape, Say
<1> QED
  BY <1>2, <1>3, <1>4, QuietStep DEF IInv, TypeOK, Shape

-----------------------------------------------------------------------------
(* Steps that open accounts, post or commit.                               *)

\* The name is nobody's: not committed, not the request's own, not pending.
LEMMA OpenAccountStep == ASSUME IInv, NEW r \in Requests, OpenAccount(r) PROVE IInv'
<1> DEFINE new == Head(toOpen[r])
<1>1. /\ new.name \notin Names(accounts \cup opened[r])
      /\ \A q \in Requests \ {r} : new.name \notin Names(opened[q])
      /\ opened' = [opened EXCEPT ![r] = @ \cup {new}]
      /\ UNCHANGED <<accounts, ledger, cmd, pc, locked, kept, rows>>
  BY DEF OpenAccount, NamePending, committed
<1> HIDE DEF new
<1>2. /\ opened'[r] = opened[r] \cup {new}
      /\ \A q \in Requests \ {r} : opened'[q] = opened[q]
  BY <1>1 DEF IInv, Shape
<1>3. Shape'
  BY <1>1 DEF OpenAccount, IInv, Shape
<1>4. TypeOK'
  BY <1>1 DEF IInv, TypeOK
<1>5. AccountsApart'
  <2>1. \A p, q \in Requests : p # q => Names(opened'[p]) \cap Names(opened'[q]) = {}
    BY <1>1, <1>2 DEF IInv, AccountsApart, Names
  <2>2. ASSUME NEW q \in Requests, NEW s \in accounts \cup opened'[q],
               NEW t \in accounts \cup opened'[q], s.name = t.name
        PROVE  s = t
    BY <1>1, <1>2, <2>2 DEF IInv, AccountsApart, Names
  <2> QED BY <1>1, <2>1, <2>2 DEF AccountsApart
<1>6. RowsReal'
  BY <1>1, <1>2 DEF IInv, RowsReal, Real
<1> QED BY <1>3, <1>4, <1>5, <1>6 DEF IInv

\* A posting that no check refuses is on accounts of its currency.
LEMMA NewRowsReal ==
  ASSUME IInv, NEW r \in Requests, EntryRefusals(r) = {}
  PROVE  Real(RowsOf(r, Current(r)), accounts \cup opened[r])
<1> DEFINE legs == Current(r).legs
           specs == accounts \cup opened[r]
<1>1. Needed(r) = Existing(r)
  BY DEF EntryRefusals
<1>2. \A i \in DOMAIN legs : \A name \in Touched(legs[i]) : DeltaRefusal(r, i, name) = "none"
  <2> SUFFICES ASSUME NEW i \in DOMAIN legs, NEW name \in Touched(legs[i])
               PROVE  DeltaRefusal(r, i, name) = "none"
    OBVIOUS
  <2> DEFINE all == UNION {LegRefusals(r, j) : j \in DOMAIN legs}
             it == DeltaRefusal(r, i, name)
  <2>1. all = {}
    BY <1>1 DEF EntryRefusals
  <2>2. LegRefusals(r, i) = {}
    BY <2>1
  <2>3. it # "none" => it \in LegRefusals(r, i)
    <3>1. LegRefusals(r, i) # {"account_inactive"}
      BY <2>2
    <3>2. LegRefusals(r, i) = {DeltaRefusal(r, i, n) : n \in Touched(legs[i])} \ {"none"}
      BY <3>1, Zenon DEF LegRefusals
    <3>3. it \in {DeltaRefusal(r, i, n) : n \in Touched(legs[i])}
      OBVIOUS
    <3> HIDE DEF it
    <3> QED BY <3>2, <3>3
  <2> HIDE DEF all, it
  <2>4. it = "none"
    BY <2>2, <2>3
  <2> QED BY <2>4 DEF it
<1>3. ASSUME NEW row \in RowsOf(r, Current(r)), NEW name \in DOMAIN row.delta
      PROVE  \E s \in specs : s.name = name /\ s.currency = row.currency
  <2>1. PICK i \in DOMAIN legs :
          row = [key |-> Current(r).key, leg |-> i, by |-> r, legs |-> legs[i],
                 delta |-> Deltas(legs[i]), currency |-> Current(r).currencies[i],
                 reverses |-> Current(r).reverses]
    BY <1>3 DEF RowsOf
  <2>2. row.delta = Deltas(legs[i]) /\ row.currency = Current(r).currencies[i]
    BY <2>1
  <2>3. name \in Touched(legs[i])
    BY <2>2, <1>3 DEF Deltas
  <2>4. name \in Names(specs)
    BY <1>1, <2>3 DEF Needed, Existing
  <2>5. Named(specs, name) \in specs /\ Named(specs, name).name = name
    BY <2>4 DEF Names, Named
  <2>6. Named(specs, name).currency = Current(r).currencies[i]
    BY <1>2, <2>3 DEF DeltaRefusal
  <2> QED BY <2>2, <2>5, <2>6
<1> QED BY <1>3 DEF Real

LEMMA PostEntryStep == ASSUME IInv, NEW r \in Requests, PostEntry(r) PROVE IInv'
<1> DEFINE new == RowsOf(r, Current(r))
<1>1. Real(new, accounts \cup opened[r])
  BY NewRowsReal DEF PostEntry
<1>2. /\ rows' = [rows EXCEPT ![r] = @ \cup new] /\ pc[r] = "lock"
      /\ UNCHANGED <<accounts, ledger, opened, locked, kept, cmd>>
  BY DEF PostEntry, committed
<1> HIDE DEF new
<1>3. PICK where \in {"commit", "reserve"} : pc' = [pc EXCEPT ![r] = where]
  BY AdvanceIs DEF PostEntry
<1>4. Shape'
  BY <1>2, AdvanceIs DEF PostEntry, IInv, Shape
<1>5. TypeOK'
  BY <1>2, <1>3 DEF IInv, TypeOK
<1>6. AccountsApart'
  BY <1>2 DEF IInv, AccountsApart
<1>7. RowsReal'
  BY <1>1, <1>2 DEF IInv, RowsReal, Real, Shape
<1> QED BY <1>4, <1>5, <1>6, <1>7 DEF IInv

\* What the request opened and posted is committed together, or not at all.
LEMMA CommitStep == ASSUME IInv, NEW r \in Requests, Commit(r) PROVE IInv'
<1>1. /\ accounts' = accounts \cup (IF aborted[r] THEN {} ELSE opened[r])
      /\ ledger' = ledger \cup (IF aborted[r] THEN {} ELSE rows[r])
      /\ opened' = [opened EXCEPT ![r] = {}] /\ rows' = [rows EXCEPT ![r] = {}]
      /\ locked' = [locked EXCEPT ![r] = {}] /\ kept' = [kept EXCEPT ![r] = {}]
      /\ pc' = [pc EXCEPT ![r] = "done"] /\ pc[r] = "commit" /\ UNCHANGED cmd
  BY DEF Commit, Discard, Goto
<1>2. /\ opened'[r] = {} /\ rows'[r] = {}
      /\ \A q \in Requests \ {r} : opened'[q] = opened[q] /\ rows'[q] = rows[q]
  BY <1>1 DEF IInv, Shape
<1>3. Shape'
  BY <1>1 DEF Commit, Discard, IInv, Shape
<1>4. \A s, t \in accounts' : s.name = t.name => s = t
  BY <1>1 DEF IInv, AccountsApart
<1>5. TypeOK'
  BY <1>1, <1>4 DEF IInv, TypeOK, Shape
<1>6. AccountsApart'
  <2>1. \A p, q \in Requests : p # q => Names(opened'[p]) \cap Names(opened'[q]) = {}
    BY <1>2 DEF IInv, AccountsApart, Names
  <2>2. ASSUME NEW q \in Requests, NEW s \in accounts' \cup opened'[q],
               NEW t \in accounts' \cup opened'[q], s.name = t.name
        PROVE  s = t
    <3>1. CASE q = r
      BY <3>1, <1>2, <1>4, <2>2
    <3>2. CASE q # r
      BY <3>2, <1>1, <1>2, <1>4, <2>2 DEF IInv, AccountsApart, Names
    <3> QED BY <3>1, <3>2
  <2> QED BY <2>1, <2>2 DEF AccountsApart
<1>7. RowsReal'
  BY <1>1, <1>2 DEF IInv, RowsReal, Real
<1> QED BY <1>3, <1>5, <1>6, <1>7 DEF IInv

LEMMA CrashStep == ASSUME IInv, NEW r \in Requests, Crash(r) PROVE IInv'
<1>1. /\ opened' = [opened EXCEPT ![r] = {}] /\ rows' = [rows EXCEPT ![r] = {}]
      /\ locked' = [locked EXCEPT ![r] = {}] /\ kept' = [kept EXCEPT ![r] = {}]
      /\ pc' = [pc EXCEPT ![r] = "done"] /\ pc[r] # "idle"
      /\ UNCHANGED <<accounts, ledger, cmd>>
  BY DEF Crash, Discard, Goto, committed
<1>2. /\ opened'[r] = {} /\ rows'[r] = {}
      /\ \A q \in Requests \ {r} : opened'[q] = opened[q] /\ rows'[q] = rows[q]
  BY <1>1 DEF IInv, Shape
<1>3. Shape'
  BY <1>1 DEF Crash, Discard, IInv, Shape
<1>4. TypeOK'
  BY <1>1 DEF IInv, TypeOK, Shape
<1>5. AccountsApart'
  BY <1>1, <1>2 DEF IInv, AccountsApart, Names
<1>6. RowsReal'
  BY <1>1, <1>2 DEF IInv, RowsReal, Real
<1> QED BY <1>3, <1>4, <1>5, <1>6 DEF IInv

-----------------------------------------------------------------------------
LEMMA InitIInv == Init => IInv
<1> SUFFICES ASSUME Init PROVE IInv
  OBVIOUS
<1>1. TypeOK /\ Shape
  BY ScopeAssumption DEF Init, TypeOK, Shape
<1>2. AccountsApart
  BY ScopeAssumption DEF Init, AccountsApart, Names
<1>3. RowsReal
  BY ScopeAssumption DEF Init, RowsReal, Real
<1> QED BY <1>1, <1>2, <1>3 DEF IInv

LEMMA NextIInv == IInv /\ [Next]_vars => IInv'
<1> SUFFICES ASSUME IInv, [Next]_vars PROVE IInv'
  OBVIOUS
<1>1. CASE Idle
  BY <1>1 DEF Idle, work, IInv, TypeOK, Shape, AccountsApart, RowsReal, Real
<1>2. CASE ~Idle
  <2>1. PICK r \in Requests : Begin(r) \/ Step(r) \/ Crash(r)
    BY <1>2, NextIs
  <2>2. CASE Step(r)
    BY <2>2, FindAccountsStep, OpenAccountStep, LoseNameRaceStep, StartPostingStep,
       ScenarioThrowsStep, ReserveKeyStep, ReplayEntryStep, KeyConflictStep, LockAccountStep,
       PostEntryStep, RefuseEntryStep, CommitStep, BreakDeadlockStep DEF Step
  <2> QED BY <2>1, <2>2, BeginStep, CrashStep
<1> QED BY <1>1, <1>2

\* Everything below rests on this.
THEOREM Invariance == Spec => []IInv
BY InitIInv, NextIInv, PTL DEF Spec

\* Accounts never share a name and transactions never share a row lock, though
\* requests insert accounts without looking and keep locks over several postings.
THEOREM TypeCorrect == Spec => []TypeOK
<1>1. IInv => TypeOK
  BY DEF IInv
<1> QED BY Invariance, <1>1, PTL

\* Every committed posting is on committed accounts of its own currency, through
\* every race to open an account and every abort.
THEOREM RowsStayReal == Spec => []RowsOnRealAccounts
<1>1. IInv => RowsOnRealAccounts
  <2> SUFFICES ASSUME IInv, NEW row \in ledger, NEW name \in DOMAIN row.delta
               PROVE  name \in Names(accounts) /\ CurrencyOf(name) = row.currency
    BY DEF RowsOnRealAccounts
  <2>1. PICK s \in accounts : s.name = name /\ s.currency = row.currency
    BY DEF IInv, RowsReal, Real
  <2>2. Named(accounts, name) = s
    BY <2>1 DEF IInv, TypeOK, Named
  <2> QED BY <2>1, <2>2 DEF Names, CurrencyOf
<1> QED BY Invariance, <1>1, PTL

-----------------------------------------------------------------------------
(* What a request will answer is true of what it has written.              *)

\* An answer, true of a ledger and a set of accounts.
Truth(r, c, told, led, accs) ==
  /\ told = "ok" =>
       /\ c.op \in {"exchange", "post"} => HasKey(led, c.key)
       /\ c.op = "seed" => \A key \in SeedKeys(c.key) : HasKey(led, key)
       /\ c.op = "open" => c.account \in accs
  /\ told = "account_name_taken" => c.account.name \in Names(accs)
  /\ told # "ok" /\ c.op # "seed" => \A row \in led : row.by # r
  /\ c.op = "exchange" =>
       Cardinality({row \in led : row.key = c.key /\ row.by = r}) \in {0, 2}

\* What the transaction writes if it commits.
Written(r) == IF aborted[r] THEN {} ELSE rows[r]
Inserted(r) == IF aborted[r] THEN {} ELSE opened[r]

Posted(r, n) ==
  SeedPlan[n].expect = "posted" => HasKey(ledger \cup rows[r], cmd[r].key \o SeedPlan[n].key)

\* The account an "open" inserts, on its way.
Opening(r) ==
  /\ toFind[r] = <<>>
  /\ \/ toOpen[r] = <<cmd[r].account>> /\ opened[r] = {}
     \/ toOpen[r] = <<>> /\ opened[r] = {cmd[r].account}

Own(r) ==
  /\ pc[r] # "done" => answer[r] = "none" /\ \A row \in ledger : row.by # r
  /\ \A row \in rows[r] : row.by = r
  /\ pc[r] \in {"idle", "find", "reserve", "lock"} => ~aborted[r]
  /\ pc[r] = "idle" => opened[r] = {}
  /\ pc[r] \in {"idle", "find"} => rows[r] = {} /\ next[r] = 1
  /\ pc[r] \in {"reserve", "lock"} =>
       /\ cmd[r].op # "open"
       /\ cmd[r].op # "seed" => rows[r] = {} /\ next[r] = 1
       /\ cmd[r].op = "seed" =>
            /\ next[r] \in 1..Len(SeedPlan)
            /\ \A n \in 1..next[r] - 1 : Posted(r, n)
  /\ pc[r] = "find" /\ cmd[r].op = "open" => Opening(r)
  /\ pc[r] = "commit" =>
       Truth(r, cmd[r], verdict[r], ledger \cup Written(r), accounts \cup Inserted(r))
  /\ pc[r] = "done" /\ answer[r] \notin {"none", "lost"} =>
       Truth(r, cmd[r], answer[r], ledger, accounts)

AInv == IInv /\ \A r \in Requests : Own(r)

\* Rows of other requests and new accounts leave an answer true.
LEMMA TruthStands ==
  ASSUME NEW r, NEW c, NEW told, NEW led, NEW led2, NEW accs, NEW accs2,
         Truth(r, c, told, led, accs), led \subseteq led2, accs \subseteq accs2,
         \A row \in led2 \ led : row.by # r
  PROVE  Truth(r, c, told, led2, accs2)
<1>1. {row \in led2 : row.key = c.key /\ row.by = r}
        = {row \in led : row.key = c.key /\ row.by = r}
  OBVIOUS
<1>2. \A key : HasKey(led, key) => HasKey(led2, key)
  BY DEF HasKey
<1>3. \A name : name \in Names(accs) => name \in Names(accs2)
  BY DEF Names
<1> QED BY <1>1, <1>2, <1>3 DEF Truth

\* A refusal or a failure is true of a request that wrote nothing, or a seed.
LEMMA FailureIsTrue ==
  ASSUME NEW r, NEW c, NEW told, NEW led, NEW accs,
         told \notin {"ok", "account_name_taken"},
         c.op = "seed" \/ \A row \in led : row.by # r
  PROVE  Truth(r, c, told, led, accs)
<1>1. CASE c.op = "seed"
  BY <1>1 DEF Truth
<1>2. CASE \A row \in led : row.by # r
  <2>1. {row \in led : row.key = c.key /\ row.by = r} = {}
    BY <1>2
  <2> QED BY <1>2, <2>1, FS_EmptySet DEF Truth
<1> QED BY <1>1, <1>2

\* Nothing of another request changes in a step.
Same(q) ==
  /\ cmd'[q] = cmd[q] /\ pc'[q] = pc[q] /\ toFind'[q] = toFind[q] /\ toOpen'[q] = toOpen[q]
  /\ opened'[q] = opened[q] /\ next'[q] = next[q] /\ rows'[q] = rows[q]
  /\ aborted'[q] = aborted[q] /\ verdict'[q] = verdict[q] /\ answer'[q] = answer[q]

Growth(r) ==
  /\ accounts \subseteq accounts' /\ ledger \subseteq ledger'
  /\ \A row \in ledger' \ ledger : row.by = r

LEMMA OthersStand ==
  ASSUME AInv, NEW r \in Requests, NEW q \in Requests \ {r}, Same(q), Growth(r)
  PROVE  Own(q)'
<1> USE DEF Same, Growth
<1>1. Own(q)
  BY DEF AInv
<1>2. pc[q] # "done" => answer'[q] = "none" /\ \A row \in ledger' : row.by # q
  BY <1>1 DEF Own
<1>3. \A n : Posted(q, n) => Posted(q, n)'
  BY DEF Posted, HasKey
<1>4. Opening(q) => Opening(q)'
  BY DEF Opening
<1>5. pc[q] = "commit" =>
        Truth(q, cmd[q], verdict[q], ledger' \cup Written(q), accounts' \cup Inserted(q))
  <2> SUFFICES ASSUME pc[q] = "commit"
               PROVE  Truth(q, cmd[q], verdict[q],
                            ledger' \cup Written(q), accounts' \cup Inserted(q))
    OBVIOUS
  <2>1. Truth(q, cmd[q], verdict[q], ledger \cup Written(q), accounts \cup Inserted(q))
    BY <1>1 DEF Own
  <2>2. \A row \in (ledger' \cup Written(q)) \ (ledger \cup Written(q)) : row.by # q
    OBVIOUS
  <2> QED BY <2>1, <2>2, TruthStands
<1>6. Written(q)' = Written(q) /\ Inserted(q)' = Inserted(q)
  BY DEF Written, Inserted
<1>7. pc[q] = "done" /\ answer[q] \notin {"none", "lost"} =>
        Truth(q, cmd[q], answer[q], ledger', accounts')
  <2>1. \A row \in ledger' \ ledger : row.by # q
    OBVIOUS
  <2> QED BY <1>1, <2>1, TruthStands DEF Own
<1>8. (ledger \cup rows[q]) \subseteq (ledger' \cup rows'[q])
  OBVIOUS
<1> QED BY <1>1, <1>2, <1>3, <1>4, <1>5, <1>6, <1>7 DEF Own

\* The entry that posts a scenario, and the one that reverses it.
Original(s) == Planned(PostKey(s), <<s.legs>>, s.expect, NoRow)
Undo(s) == Planned(ReversalKey(s), <<Mirrored(s.legs)>>, "posted", PostKey(s))

\* The plan of a seed is a sequence of such entries, which have one leg list each.
LEMMA SeedPlanIs ==
  /\ Len(SeedPlan) \in Nat /\ Len(SeedPlan) >= 1 /\ DOMAIN SeedPlan = 1..Len(SeedPlan)
  /\ \A n \in DOMAIN SeedPlan :
       /\ DOMAIN SeedPlan[n].legs = {1}
       /\ \E k \in 1..5 : SeedPlan[n].legs = <<SeedScenarios[k].legs>>
                           \/ SeedPlan[n].legs = <<Mirrored(SeedScenarios[k].legs)>>
<1> DEFINE all == {Original(SeedScenarios[n]) : n \in 1..5} \cup {Undo(SeedScenarios[n]) : n \in 1..5}
           part(n) == ScenarioEntries(SeedScenarios[n])
<1>1. ASSUME NEW n \in 1..5 PROVE part(n) \in Seq(all) /\ Len(part(n)) >= 1
  <2>1. \E e, f \in all : part(n) = <<e, f>> \/ part(n) = <<e>>
    <3>1. Original(SeedScenarios[n]) \in all /\ Undo(SeedScenarios[n]) \in all
      OBVIOUS
    <3>2. \/ part(n) = <<Original(SeedScenarios[n]), Undo(SeedScenarios[n])>>
          \/ part(n) = <<Original(SeedScenarios[n])>>
      BY DEF ScenarioEntries, Original, Undo
    <3> QED BY <3>1, <3>2
  <2> HIDE DEF all, part
  <2>2. PICK e \in all, f \in all : part(n) = <<e, f>> \/ part(n) = <<e>>
    BY <2>1
  <2>3. CASE part(n) = <<e, f>>
    BY <2>3
  <2>4. CASE part(n) = <<e>>
    BY <2>4
  <2> QED BY <2>2, <2>3, <2>4
<1>2. \A e \in all : \E k \in 1..5 : e.legs = <<SeedScenarios[k].legs>>
                                      \/ e.legs = <<Mirrored(SeedScenarios[k].legs)>>
  BY DEF Original, Undo, Planned
<1>3. \A x : DOMAIN <<x>> = {1}
  OBVIOUS
<1>4. SeedPlan = part(1) \o part(2) \o part(3) \o part(4) \o part(5)
  BY DEF SeedPlan
<1> HIDE DEF all, part
<1>5. part(1) \in Seq(all) /\ part(2) \in Seq(all) /\ part(3) \in Seq(all)
      /\ part(4) \in Seq(all) /\ part(5) \in Seq(all) /\ Len(part(1)) >= 1
  BY <1>1
<1>6. SeedPlan \in Seq(all) /\ Len(SeedPlan) >= 1
  BY <1>4, <1>5, ConcatProperties
<1>7. \A e \in all : DOMAIN e.legs = {1}
  BY <1>2, <1>3
<1> QED BY <1>2, <1>6, <1>7

-----------------------------------------------------------------------------
(* Each step, for its own request.                                         *)

LEMMA BeginOwn == ASSUME AInv, NEW r \in Requests, Begin(r) PROVE Own(r)'
<1> USE DEF AInv, IInv, Shape
<1>1. PICK c \in Commands :
        /\ pc[r] = "idle"
        /\ cmd' = [cmd EXCEPT ![r] = c]
        /\ IF Refusal(c) = "ok"
           THEN /\ toFind' = [toFind EXCEPT ![r] = Wanted(c)]
                /\ toOpen' = [toOpen EXCEPT ![r] = IF c.op = "open" THEN <<c.account>> ELSE <<>>]
                /\ Goto(r, "find")
           ELSE /\ Say(r, Refusal(c))
                /\ Goto(r, "commit")
        /\ UNCHANGED <<committed, opened, next, locked, kept, rows, aborted, answer>>
  BY DEF Begin
<1>2. /\ UNCHANGED <<accounts, ledger, opened, next, rows, aborted, answer>> /\ cmd'[r] = c
  BY <1>1 DEF committed
<1>3. Own(r)
  OBVIOUS
<1>4. /\ answer[r] = "none" /\ (\A row \in ledger : row.by # r) /\ ~aborted[r]
      /\ opened[r] = {} /\ rows[r] = {} /\ next[r] = 1
  BY <1>1, <1>3 DEF Own
<1>5. CASE Refusal(c) = "ok"
  <2>1. pc'[r] = "find" /\ toFind'[r] = Wanted(c)
        /\ toOpen'[r] = IF c.op = "open" THEN <<c.account>> ELSE <<>>
    BY <1>1, <1>5 DEF Goto, TypeOK
  <2>2. c.op = "open" => Opening(r)'
    BY <1>2, <1>4, <2>1 DEF Opening, Wanted
  <2> QED BY <1>2, <1>4, <2>1, <2>2 DEF Own
<1>6. CASE Refusal(c) # "ok"
  <2>1. pc'[r] = "commit" /\ verdict'[r] = Refusal(c)
    BY <1>1, <1>6 DEF Goto, Say, TypeOK
  <2>2. Refusal(c) # "account_name_taken"
    BY DEF Refusal, Build, ExchangeRefusal
  <2>3. Written(r)' = {} /\ Inserted(r)' = {}
    BY <1>2, <1>4 DEF Written, Inserted
  <2>4. Truth(r, c, Refusal(c), ledger, accounts)
    BY <1>4, <1>6, <2>2, FailureIsTrue
  <2>5. Truth(r, c, Refusal(c), ledger \cup {}, accounts \cup {})
    <3>1. ledger \cup {} = ledger /\ accounts \cup {} = accounts
      OBVIOUS
    <3> QED BY <2>4, <3>1
  <2> QED BY <1>2, <1>4, <2>1, <2>3, <2>5 DEF Own
<1> QED BY <1>5, <1>6

LEMMA FindAccountsOwn == ASSUME AInv, NEW r \in Requests, FindAccounts(r) PROVE Own(r)'
<1> USE DEF AInv, IInv, Shape
<1>1. /\ pc[r] = "find" /\ toFind[r] # <<>>
      /\ UNCHANGED <<accounts, ledger, cmd, pc, opened, next, rows, aborted, answer>>
  BY DEF FindAccounts, committed
<1>2. cmd[r].op # "open"
  BY <1>1 DEF Own, Opening
<1> QED BY <1>1, <1>2 DEF Own

LEMMA OpenAccountOwn == ASSUME AInv, NEW r \in Requests, OpenAccount(r) PROVE Own(r)'
<1> USE DEF AInv, IInv, Shape
<1>1. /\ pc[r] = "find" /\ toOpen[r] # <<>>
      /\ opened' = [opened EXCEPT ![r] = @ \cup {Head(toOpen[r])}]
      /\ toOpen' = [toOpen EXCEPT ![r] = Tail(@)]
      /\ UNCHANGED <<accounts, ledger, cmd, pc, toFind, next, rows, aborted, answer>>
  BY DEF OpenAccount, committed
<1>2. cmd[r].op = "open" => Opening(r)'
  <2> SUFFICES ASSUME cmd[r].op = "open" PROVE Opening(r)'
    OBVIOUS
  <2>1. toFind[r] = <<>> /\ toOpen[r] = <<cmd[r].account>> /\ opened[r] = {}
    BY <1>1 DEF Own, Opening
  <2>2. opened'[r] = {cmd[r].account} /\ toOpen'[r] = <<>>
    BY <1>1, <2>1
  <2> QED BY <1>1, <2>1, <2>2 DEF Opening
<1> QED BY <1>1, <1>2 DEF Own

LEMMA LoseNameRaceOwn == ASSUME AInv, NEW r \in Requests, LoseNameRace(r) PROVE Own(r)'
<1> USE DEF AInv, IInv, Shape
<1> DEFINE told == IF cmd[r].op = "open" THEN "account_name_taken" ELSE "transaction_aborted"
<1>1. /\ pc[r] = "find" /\ toOpen[r] # <<>>
      /\ Head(toOpen[r]).name \in Names(accounts \cup opened[r])
      /\ aborted'[r] = TRUE /\ verdict'[r] = told /\ pc'[r] = "commit"
      /\ UNCHANGED <<accounts, ledger, cmd, opened, next, rows, answer>>
  BY DEF LoseNameRace, committed, Say, Goto, TypeOK
<1>2. /\ rows[r] = {} /\ answer[r] = "none" /\ \A row \in ledger : row.by # r
  BY <1>1 DEF Own
<1>3. Truth(r, cmd[r], told, ledger, accounts)
  <2>1. CASE cmd[r].op = "open"
    <3>1. toOpen[r] = <<cmd[r].account>> /\ opened[r] = {}
      BY <1>1, <2>1 DEF Own, Opening
    <3>2. cmd[r].account.name \in Names(accounts)
      <4>1. Head(toOpen[r]) = cmd[r].account /\ accounts \cup opened[r] = accounts
        BY <3>1
      <4> QED BY <1>1, <4>1
    <3> QED BY <1>2, <2>1, <3>2 DEF Truth
  <2>2. CASE cmd[r].op # "open"
    BY <1>2, <2>2, FailureIsTrue
  <2> QED BY <2>1, <2>2
<1>4. Written(r)' = {} /\ Inserted(r)' = {}
  BY <1>1 DEF Written, Inserted
<1>5. Truth(r, cmd[r], told, ledger \cup {}, accounts \cup {})
  <2>1. ledger \cup {} = ledger /\ accounts \cup {} = accounts
    OBVIOUS
  <2> QED BY <1>3, <2>1
<1> QED BY <1>1, <1>2, <1>4, <1>5 DEF Own

LEMMA StartPostingOwn == ASSUME AInv, NEW r \in Requests, StartPosting(r) PROVE Own(r)'
<1> USE DEF AInv, IInv, Shape
<1>1. /\ pc[r] = "find" /\ toOpen[r] = <<>>
      /\ UNCHANGED <<accounts, ledger, cmd, opened, next, rows, aborted, answer>>
  BY DEF StartPosting, committed
<1>2. /\ rows[r] = {} /\ next[r] = 1 /\ answer[r] = "none" /\ ~aborted[r]
      /\ \A row \in ledger : row.by # r
  BY <1>1 DEF Own
<1>3. CASE Entries(cmd[r]) = 0
  <2>1. pc'[r] = "commit" /\ verdict'[r] = "ok"
    BY <1>3 DEF StartPosting, Say, Goto, TypeOK
  <2>2. cmd[r].op = "open"
    BY <1>3, SeedPlanIs DEF Entries
  <2>3. opened[r] = {cmd[r].account}
    <3>1. Opening(r)
      BY <1>1, <2>2 DEF Own
    <3>2. \A x : <<x>> # <<>>
      OBVIOUS
    <3> QED BY <1>1, <3>1, <3>2 DEF Opening
  <2>4. Inserted(r)' = {cmd[r].account}
    BY <1>1, <1>2, <2>3 DEF Inserted
  <2>5. Truth(r, cmd[r], "ok", ledger \cup Written(r)', accounts \cup Inserted(r)')
    BY <2>2, <2>4 DEF Truth
  <2> QED BY <1>1, <1>2, <2>1, <2>5 DEF Own
<1>4. CASE Entries(cmd[r]) # 0
  <2>1. pc'[r] = "reserve" /\ cmd[r].op # "open"
    BY <1>4 DEF StartPosting, Goto, TypeOK, Entries
  <2>2. 1 \in 1..Len(SeedPlan) /\ \A n \in 1..1 - 1 : Posted(r, n)'
    BY SeedPlanIs
  <2> QED BY <1>1, <1>2, <2>1, <2>2 DEF Own
<1> QED BY <1>3, <1>4

LEMMA ReserveKeyOwn == ASSUME AInv, NEW r \in Requests, ReserveKey(r) PROVE Own(r)'
<1> USE DEF AInv, IInv, Shape
<1>1. /\ pc[r] = "reserve" /\ pc'[r] = "lock"
      /\ UNCHANGED <<accounts, ledger, cmd, opened, next, rows, aborted, answer>>
  BY DEF ReserveKey, committed, Goto, TypeOK
<1> QED BY <1>1 DEF Own, Posted

LEMMA LockAccountOwn == ASSUME AInv, NEW r \in Requests, LockAccount(r) PROVE Own(r)'
<1> USE DEF AInv, IInv, Shape
<1>1. /\ pc[r] = "lock" /\ pc'[r] = "lock"
      /\ UNCHANGED <<accounts, ledger, cmd, opened, next, rows, aborted, answer>>
  BY DEF LockAccount, committed
<1> QED BY <1>1 DEF Own, Posted

\* A request that fails in an entry: only a seed has written anything.
LEMMA FailOwn ==
  ASSUME AInv, NEW r \in Requests, pc[r] \in {"find", "reserve", "lock"},
         UNCHANGED <<accounts, ledger, cmd, rows, answer>>,
         pc'[r] = "commit", verdict'[r] \notin {"ok", "account_name_taken"}
  PROVE  Own(r)'
<1> USE DEF AInv, IInv, Shape
<1>1. /\ answer[r] = "none" /\ (\A row \in ledger : row.by # r)
      /\ \A row \in rows[r] : row.by = r
  BY DEF Own
<1>2. cmd[r].op = "seed" \/ rows[r] = {}
  BY DEF Own
<1>3. Written(r)' \subseteq rows[r]
  BY DEF Written
<1>4. cmd[r].op = "seed" \/ \A row \in ledger \cup Written(r)' : row.by # r
  BY <1>1, <1>2, <1>3
<1>5. Truth(r, cmd[r], verdict'[r], ledger \cup Written(r)', accounts \cup Inserted(r)')
  BY <1>4, FailureIsTrue
<1> QED BY <1>1, <1>5 DEF Own

LEMMA ScenarioThrowsOwn == ASSUME AInv, NEW r \in Requests, ScenarioThrows(r) PROVE Own(r)'
<1>1. /\ pc[r] = "reserve" /\ UNCHANGED <<accounts, ledger, cmd, rows, answer>>
      /\ pc'[r] = "commit" /\ verdict'[r] = "internal_error"
  BY DEF ScenarioThrows, committed, Goto, Say, AInv, IInv, Shape, TypeOK
<1> QED BY <1>1, FailOwn

LEMMA KeyConflictOwn == ASSUME AInv, NEW r \in Requests, KeyConflict(r) PROVE Own(r)'
<1>1. /\ pc[r] = "reserve" /\ UNCHANGED <<accounts, ledger, cmd, rows, answer>>
      /\ pc'[r] = "commit" /\ verdict'[r] = "idempotency_conflict"
  BY DEF KeyConflict, committed, Goto, Say, AInv, IInv, Shape, TypeOK
<1> QED BY <1>1, FailOwn

LEMMA BreakDeadlockOwn == ASSUME AInv, NEW r \in Requests, BreakDeadlock(r) PROVE Own(r)'
<1>1. WaitsFor(r) # {}
  BY DEF BreakDeadlock, Deadlocked
<1>2. pc[r] \in {"find", "reserve", "lock"}
  BY <1>1 DEF WaitsFor
<1>3. /\ UNCHANGED <<accounts, ledger, cmd, rows, answer>>
      /\ pc'[r] = "commit" /\ verdict'[r] = "deadlock_detected"
  BY DEF BreakDeadlock, committed, Goto, Say, AInv, IInv, Shape, TypeOK
<1> QED BY <1>2, <1>3, FailOwn

\* The end of an entry whose posting is there.
LEMMA AdvanceOwn ==
  ASSUME AInv, NEW r \in Requests, Advance(r), pc[r] \in {"reserve", "lock"},
         UNCHANGED <<accounts, ledger, cmd, answer, opened>>, ~aborted'[r],
         rows[r] \subseteq rows'[r], \A row \in rows'[r] : row.by = r,
         \/ HasKey(ledger \cup rows'[r], Current(r).key)
         \/ cmd[r].op = "seed" /\ Current(r).expect # "posted",
         cmd[r].op = "exchange" =>
           Cardinality({row \in ledger \cup rows'[r] : row.key = cmd[r].key /\ row.by = r})
             \in {0, 2}
  PROVE  Own(r)'
<1> USE DEF AInv, IInv, Shape
<1>1. /\ answer'[r] = "none" /\ (\A row \in ledger' : row.by # r) /\ cmd[r].op # "open"
      /\ cmd[r].op \in {"post", "exchange", "seed"}
  BY ScopeAssumption DEF Own, TypeOK
<1>2. CASE cmd[r].op # "seed"
  <2>1. Entries(cmd[r]) = 1 /\ next[r] = 1
    BY <1>1, <1>2 DEF Entries, Own
  <2>2. pc'[r] = "commit" /\ verdict'[r] = "ok"
    BY <2>1 DEF Advance, Goto, Say, TypeOK
  <2>3. Current(r).key = cmd[r].key
    BY <1>1, <1>2 DEF Current, ExchangeEntry, Entry
  <2>4. Written(r)' = rows'[r]
    BY DEF Written
  <2>5. Truth(r, cmd[r], "ok", ledger \cup rows'[r], accounts \cup Inserted(r)')
    BY <1>1, <1>2, <2>3 DEF Truth
  <2> QED BY <1>1, <2>2, <2>4, <2>5 DEF Own
<1>3. CASE cmd[r].op = "seed"
  <2>1. /\ next[r] \in 1..Len(SeedPlan) /\ Entries(cmd[r]) = Len(SeedPlan)
        /\ \A n \in 1..next[r] - 1 : Posted(r, n)
    BY <1>3 DEF Entries, Own
  <2>2. Current(r).key = cmd[r].key \o SeedPlan[next[r]].key
        /\ Current(r).expect = SeedPlan[next[r]].expect
    BY <1>3 DEF Current, BuiltEntry, SeedEntry, Planned, Entry
  <2>3. \A n : Posted(r, n) => Posted(r, n)'
    BY DEF Posted, HasKey
  <2>4. \A n : n = next[r] => Posted(r, n)'
    BY <2>2 DEF Posted
  <2>5. \A n \in 1..next[r] : Posted(r, n)'
    <3>1. ASSUME NEW n \in 1..next[r] PROVE Posted(r, n)'
      <4>1. CASE n = next[r]
        BY <2>4, <4>1
      <4>2. CASE n # next[r]
        <5>1. n \in 1..next[r] - 1
          BY <2>1, <4>2
        <5> QED BY <2>1, <2>3, <5>1
      <4> QED BY <4>1, <4>2
    <3> QED BY <3>1
  <2>6. CASE next[r] = Len(SeedPlan)
    <3>1. pc'[r] = "commit" /\ verdict'[r] = "ok"
      BY <2>1, <2>6 DEF Advance, Goto, Say, TypeOK
    <3>2. ASSUME NEW key \in SeedKeys(cmd[r].key) PROVE HasKey(ledger \cup rows'[r], key)
      <4>1. PICK n \in DOMAIN SeedPlan :
              SeedPlan[n].expect = "posted" /\ key = cmd[r].key \o SeedPlan[n].key
        BY DEF SeedKeys
      <4>2. Posted(r, n)'
        BY <2>5, <2>6, SeedPlanIs
      <4> QED BY <4>1, <4>2 DEF Posted
    <3>3. Written(r)' = rows'[r]
      BY DEF Written
    <3>4. Truth(r, cmd[r], "ok", ledger \cup rows'[r], accounts \cup Inserted(r)')
      BY <1>3, <3>2 DEF Truth
    <3> QED BY <1>1, <3>1, <3>3, <3>4 DEF Own
  <2>7. CASE next[r] # Len(SeedPlan)
    <3>1. pc'[r] = "reserve" /\ next'[r] = next[r] + 1
      BY <2>1, <2>7 DEF Advance, Goto, TypeOK
    <3>2. next'[r] \in 1..Len(SeedPlan) /\ next'[r] - 1 = next[r]
      BY <2>1, <2>7, <3>1, SeedPlanIs
    <3> QED BY <1>1, <1>3, <2>5, <3>1, <3>2 DEF Own
  <2> QED BY <2>6, <2>7
<1> QED BY <1>2, <1>3

LEMMA ReplayEntryOwn == ASSUME AInv, NEW r \in Requests, ReplayEntry(r) PROVE Own(r)'
<1> USE DEF AInv, IInv, Shape
<1>1. /\ pc[r] = "reserve" /\ Advance(r) /\ HasKey(ledger, Current(r).key)
      /\ UNCHANGED <<accounts, ledger, cmd, opened, rows, aborted, answer>>
  BY DEF ReplayEntry, committed
<1>2. /\ ~aborted'[r] /\ (\A row \in rows'[r] : row.by = r)
      /\ \A row \in ledger : row.by # r
  BY <1>1 DEF Own
<1>3. HasKey(ledger \cup rows'[r], Current(r).key)
  BY <1>1 DEF HasKey
<1>4. ASSUME cmd[r].op = "exchange"
      PROVE  Cardinality({row \in ledger \cup rows'[r] : row.key = cmd[r].key /\ row.by = r})
               \in {0, 2}
  <2>1. rows'[r] = {}
    BY <1>1, <1>4 DEF Own
  <2>2. {row \in ledger \cup rows'[r] : row.key = cmd[r].key /\ row.by = r} = {}
    BY <1>2, <2>1
  <2> QED BY <2>2, FS_EmptySet
<1> QED BY <1>1, <1>2, <1>3, <1>4, AdvanceOwn

\* The rows of an entry: one per leg.
LEMMA RowsOfAre ==
  ASSUME NEW r, NEW e
  PROVE  /\ \A row \in RowsOf(r, e) : row.by = r
         /\ 1 \in DOMAIN e.legs => HasKey(RowsOf(r, e), e.key)
         /\ DOMAIN e.legs = {1, 2} =>
              Cardinality({row \in RowsOf(r, e) : row.key = e.key /\ row.by = r}) = 2
<1> DEFINE row(i) == [key |-> e.key, leg |-> i, by |-> r, legs |-> e.legs[i],
                      delta |-> Deltas(e.legs[i]), currency |-> e.currencies[i],
                      reverses |-> e.reverses]
<1>1. RowsOf(r, e) = {row(i) : i \in DOMAIN e.legs}
  BY DEF RowsOf
<1>2. \A x \in RowsOf(r, e) : x.key = e.key /\ x.by = r
  BY <1>1
<1>3. 1 \in DOMAIN e.legs => HasKey(RowsOf(r, e), e.key)
  <2>1. 1 \in DOMAIN e.legs => row(1) \in RowsOf(r, e)
    BY <1>1
  <2> QED BY <1>2, <2>1 DEF HasKey
<1>4. ASSUME DOMAIN e.legs = {1, 2}
      PROVE  Cardinality({x \in RowsOf(r, e) : x.key = e.key /\ x.by = r}) = 2
  <2>1. RowsOf(r, e) = {row(1), row(2)}
    BY <1>1, <1>4
  <2>2. row(1) # row(2)
    <3>1. row(1).leg = 1 /\ row(2).leg = 2
      OBVIOUS
    <3> QED BY <3>1
  <2>3. {x \in RowsOf(r, e) : x.key = e.key /\ x.by = r} = {row(1)} \cup {row(2)}
    BY <1>2, <2>1
  <2> HIDE DEF row
  <2>4. IsFiniteSet({row(1)}) /\ Cardinality({row(1)}) = 1 /\ row(2) \notin {row(1)}
    BY <2>2, FS_Singleton
  <2>5. Cardinality({row(1)} \cup {row(2)}) = 2
    BY <2>4, FS_AddElement
  <2> QED BY <2>3, <2>5
<1> QED BY <1>2, <1>3, <1>4

\* The legs an entry has.
LEMMA CurrentIs ==
  ASSUME AInv, NEW r \in Requests, pc[r] \in {"reserve", "lock"}
  PROVE  /\ 1 \in DOMAIN Current(r).legs
         /\ cmd[r].op = "exchange" =>
              DOMAIN Current(r).legs = {1, 2} /\ Current(r).key = cmd[r].key
<1> USE DEF AInv, IInv
<1>1. cmd[r].op \in {"post", "exchange", "seed"}
  BY ScopeAssumption DEF Own, TypeOK
<1>2. CASE cmd[r].op = "seed"
  <2>1. next[r] \in DOMAIN SeedPlan
    BY <1>2, SeedPlanIs DEF Own
  <2> QED BY <1>2, <2>1, SeedPlanIs DEF Current, BuiltEntry, SeedEntry, Planned, Entry
<1>3. CASE cmd[r].op = "exchange"
  <2>1. DOMAIN Current(r).legs = {1, 2} /\ Current(r).key = cmd[r].key
    BY <1>3 DEF Current, ExchangeEntry, Entry
  <2> QED BY <1>3, <2>1
<1>4. CASE cmd[r].op = "post"
  BY <1>4 DEF Current, Entry
<1> QED BY <1>1, <1>2, <1>3, <1>4

LEMMA PostEntryOwn == ASSUME AInv, NEW r \in Requests, PostEntry(r) PROVE Own(r)'
<1> USE DEF AInv, IInv, Shape
<1> DEFINE new == RowsOf(r, Current(r))
<1>1. /\ pc[r] = "lock" /\ Advance(r) /\ rows'[r] = rows[r] \cup new
      /\ UNCHANGED <<accounts, ledger, cmd, opened, aborted, answer>>
  BY DEF PostEntry, committed
<1>2. \A row \in new : row.by = r
  BY RowsOfAre
<1>3. HasKey(new, Current(r).key)
  BY <1>1, RowsOfAre, CurrentIs
<1>4. ~aborted'[r] /\ \A row \in rows'[r] : row.by = r
  BY <1>1, <1>2 DEF Own
<1>5. HasKey(ledger \cup rows'[r], Current(r).key)
  BY <1>1, <1>3 DEF HasKey
<1>6. ASSUME cmd[r].op = "exchange"
      PROVE  Cardinality({row \in ledger \cup rows'[r] : row.key = cmd[r].key /\ row.by = r})
               \in {0, 2}
  <2>1. rows[r] = {} /\ \A row \in ledger : row.by # r
    BY <1>1, <1>6 DEF Own
  <2>2. {row \in ledger \cup rows'[r] : row.key = cmd[r].key /\ row.by = r}
          = {row \in new : row.key = cmd[r].key /\ row.by = r}
    BY <1>1, <2>1
  <2>3. Cardinality({row \in new : row.key = cmd[r].key /\ row.by = r}) = 2
    BY <1>1, <1>6, CurrentIs, RowsOfAre
  <2> QED BY <2>2, <2>3
<1> HIDE DEF new
<1> QED BY <1>1, <1>4, <1>5, <1>6, AdvanceOwn

LEMMA RefuseEntryOwn == ASSUME AInv, NEW r \in Requests, RefuseEntry(r) PROVE Own(r)'
<1> USE DEF AInv, IInv, Shape
<1>1. PICK reason \in EntryRefusals(r), failed \in BOOLEAN :
        /\ aborted' = [aborted EXCEPT ![r] = failed]
        /\ IF Current(r).expect = "posted"
           THEN Say(r, reason) /\ Goto(r, "commit")
           ELSE IF failed
           THEN Say(r, "transaction_aborted") /\ Goto(r, "commit")
           ELSE Advance(r)
  BY DEF RefuseEntry
<1>2. pc[r] = "lock" /\ UNCHANGED <<accounts, ledger, cmd, opened, rows, answer>>
  BY DEF RefuseEntry, committed
<1>3. reason \notin {"ok", "account_name_taken"}
  <2> HIDE DEF AInv, IInv, Shape
  <2>1. \A i, name : DeltaRefusal(r, i, name) \notin {"ok", "account_name_taken"}
    BY DEF DeltaRefusal
  <2>2. \A i : LegRefusals(r, i) \cap {"ok", "account_name_taken"} = {}
    BY <2>1 DEF LegRefusals
  <2> QED BY <2>2 DEF EntryRefusals
<1>4. CASE Current(r).expect = "posted"
  BY <1>1, <1>2, <1>3, <1>4, FailOwn DEF Say, Goto, TypeOK
<1>5. CASE Current(r).expect # "posted" /\ failed
  BY <1>1, <1>2, <1>5, FailOwn DEF Say, Goto, TypeOK
<1>6. CASE Current(r).expect # "posted" /\ ~failed
  <2>1. Advance(r) /\ ~aborted'[r]
    BY <1>1, <1>6
  <2>2. cmd[r].op \in {"post", "exchange", "seed"}
    BY <1>2, ScopeAssumption DEF Own, TypeOK
  <2>3. cmd[r].op = "seed"
    BY <1>6, <2>2 DEF Current, ExchangeEntry, Entry
  <2>4. \A row \in rows'[r] : row.by = r
    BY <1>2 DEF Own
  <2> QED BY <1>2, <1>6, <2>1, <2>3, <2>4, AdvanceOwn
<1> QED BY <1>4, <1>5, <1>6

LEMMA CommitOwn == ASSUME AInv, NEW r \in Requests, Commit(r) PROVE Own(r)'
<1> USE DEF AInv, IInv, Shape
<1>1. /\ pc[r] = "commit" /\ pc'[r] = "done" /\ cmd' = cmd
      /\ accounts' = accounts \cup Inserted(r) /\ ledger' = ledger \cup Written(r)
      /\ rows'[r] = {} /\ answer'[r] \in {verdict[r], "lost"}
  BY DEF Commit, Discard, Goto, TypeOK, Written, Inserted
<1>2. Truth(r, cmd[r], verdict[r], ledger', accounts')
  BY <1>1 DEF Own
<1> QED BY <1>1, <1>2 DEF Own

LEMMA CrashOwn == ASSUME AInv, NEW r \in Requests, Crash(r) PROVE Own(r)'
<1>1. pc'[r] = "done" /\ rows'[r] = {} /\ answer'[r] = "lost"
  BY DEF Crash, Discard, Goto, AInv, IInv, Shape, TypeOK
<1> QED BY <1>1 DEF Own

-----------------------------------------------------------------------------
\* What a step adds to the ledger bears its request's name.
LEMMA StepGrows ==
  ASSUME AInv, NEW r \in Requests, Begin(r) \/ Step(r) \/ Crash(r)
  PROVE  Growth(r)
<1> USE DEF Growth, committed
<1>1. CASE Commit(r)
  BY <1>1 DEF Commit, AInv, Own
<1>2. CASE ~Commit(r)
  BY <1>2 DEF Begin, Step, Crash, FindAccounts, OpenAccount, LoseNameRace, StartPosting,
     ScenarioThrows, ReserveKey, ReplayEntry, KeyConflict, LockAccount, PostEntry,
     RefuseEntry, BreakDeadlock
<1> QED BY <1>1, <1>2

\* A step leaves the other requests alone.
LEMMA StepIsOwn ==
  ASSUME AInv, NEW r \in Requests, NEW q \in Requests \ {r}, Begin(r) \/ Step(r) \/ Crash(r)
  PROVE  Same(q)
<1> USE DEF AInv, IInv, Shape, Same, committed, Goto, Say
<1>1. CASE Begin(r)
  BY <1>1 DEF Begin, TypeOK
<1>2. CASE Crash(r)
  BY <1>2 DEF Crash, Discard, TypeOK
<1>3. CASE FindAccounts(r)
  BY <1>3 DEF FindAccounts
<1>4. CASE OpenAccount(r)
  BY <1>4 DEF OpenAccount
<1>5. CASE LoseNameRace(r)
  BY <1>5 DEF LoseNameRace, TypeOK
<1>6. CASE StartPosting(r)
  BY <1>6 DEF StartPosting, TypeOK
<1>7. CASE ReserveKey(r)
  BY <1>7 DEF ReserveKey, TypeOK
<1>8. CASE ReplayEntry(r)
  BY <1>8 DEF ReplayEntry, Advance, TypeOK
<1>9. CASE KeyConflict(r)
  BY <1>9 DEF KeyConflict, AuditRejection, TypeOK
<1>10. CASE LockAccount(r)
  BY <1>10 DEF LockAccount
<1>11. CASE PostEntry(r)
  <2>1. rows' = [rows EXCEPT ![r] = @ \cup RowsOf(r, Current(r))]
    BY <1>11 DEF PostEntry
  <2> QED BY <1>11, <2>1 DEF PostEntry, Advance, TypeOK
<1>12. CASE RefuseEntry(r)
  BY <1>12 DEF RefuseEntry, Advance, TypeOK
<1>13. CASE Commit(r)
  BY <1>13 DEF Commit, Discard, TypeOK
<1>14. CASE BreakDeadlock(r)
  BY <1>14 DEF BreakDeadlock, TypeOK
<1>15. CASE ScenarioThrows(r)
  BY <1>15 DEF ScenarioThrows, TypeOK
<1> QED
  BY <1>1, <1>2, <1>3, <1>4, <1>5, <1>6, <1>7, <1>8, <1>9, <1>10, <1>11, <1>12, <1>13, <1>14, <1>15
  DEF Step

LEMMA NextAInv == AInv /\ [Next]_vars => AInv'
<1> SUFFICES ASSUME AInv, [Next]_vars PROVE AInv'
  OBVIOUS
<1>1. IInv'
  BY NextIInv DEF AInv
<1>2. ASSUME NEW q \in Requests PROVE Own(q)'
  <2>1. CASE Idle
    BY <2>1 DEF Idle, work, AInv, Own, Posted, Opening, Written, Inserted
  <2>2. CASE ~Idle
    <3>1. PICK r \in Requests : Begin(r) \/ Step(r) \/ Crash(r)
      BY <2>2, NextIs
    <3>2. CASE q = r
      <4>1. CASE Step(r)
        BY <3>2, <4>1, FindAccountsOwn, OpenAccountOwn, LoseNameRaceOwn, StartPostingOwn,
           ScenarioThrowsOwn, ReserveKeyOwn, ReplayEntryOwn, KeyConflictOwn, LockAccountOwn,
           PostEntryOwn,
           RefuseEntryOwn, CommitOwn, BreakDeadlockOwn DEF Step
      <4> QED BY <3>1, <3>2, <4>1, BeginOwn, CrashOwn
    <3>3. CASE q # r
      BY <3>1, <3>3, StepIsOwn, StepGrows, OthersStand
    <3> QED BY <3>2, <3>3
  <2> QED BY <2>1, <2>2
<1> QED BY <1>1, <1>2 DEF AInv

LEMMA InitAInv == Init => AInv
<1> SUFFICES ASSUME Init PROVE AInv
  OBVIOUS
<1>1. ASSUME NEW r \in Requests PROVE Own(r)
  BY ScopeAssumption DEF Init, Own
<1> QED BY <1>1, InitIInv DEF AInv

\* What a caller is told is so: a reported posting is there, a reported seed is
\* complete, a refused or failed request left no posting unless it was a seed,
\* and an exchange posted both legs or none.
THEOREM AnswersStayTrue == Spec => []AnswersAreTrue
<1>1. AInv => AnswersAreTrue
  <2> SUFFICES ASSUME AInv, NEW r \in Requests, answer[r] \notin {"none", "lost"}
               PROVE  Truth(r, cmd[r], answer[r], ledger, accounts)
    BY DEF AnswersAreTrue, Truth
  <2>1. pc[r] = "done"
    BY DEF AInv, Own
  <2> QED BY <2>1 DEF AInv, Own
<1> QED BY InitAInv, NextAInv, <1>1, PTL DEF Spec
-----------------------------------------------------------------------------
(* Double entry: every row balances, so every currency does.               *)

\* What a row moves adds up to zero.
Even(delta) ==
  /\ IsFiniteSet(DOMAIN delta) /\ IntOn(delta, DOMAIN delta)
  /\ SumFunction(delta) = 0

BalancedLegs(legs) ==
  /\ IsFiniteSet(DOMAIN legs) /\ \A i \in DOMAIN legs : legs[i].amount \in Int
  /\ Net(legs) = 0

\* Accounts and rows are finitely many, what was posted is even, and a payment that
\* got past its handler's checks has balanced legs.
Booked ==
  /\ IsFiniteSet(accounts) /\ IsFiniteSet(ledger)
  /\ \A row \in ledger : Even(row.delta)
  /\ \A r \in Requests :
       /\ IsFiniteSet(opened[r]) /\ IsFiniteSet(rows[r])
       /\ \A row \in rows[r] : Even(row.delta)
       /\ pc[r] \in {"find", "reserve", "lock"} /\ cmd[r].op = "post" => Net(cmd[r].legs) = 0

\* Netting the legs of each account loses nothing.
LEMMA DeltasAreEven ==
  ASSUME NEW legs, BalancedLegs(legs)
  PROVE  Even(Deltas(legs))
<1> DEFINE S == DOMAIN legs
           f == SignedLegs(legs)
           b == [i \in S |-> legs[i].account]
           h == Deltas(legs)
<1>1. IsFiniteSet(S) /\ IntOn(f, S)
  BY DEF BalancedLegs, SignedLegs, Signed, IntOn
<1>2. {b[i] : i \in S} = Touched(legs)
  BY DEF Touched
<1>3. DOMAIN h = Touched(legs)
  BY DEF Deltas
<1>4. ASSUME NEW i \in S PROVE h[b[i]] = SumFunctionOnSet(f, {j \in S : b[j] = b[i]})
  <2>1. b[i] \in Touched(legs) /\ {j \in S : b[j] = b[i]} = {j \in DOMAIN legs : legs[j].account = b[i]}
    BY DEF Touched
  <2> HIDE DEF b
  <2>2. h[b[i]] = SumFunctionOnSet(f, {j \in DOMAIN legs : legs[j].account = b[i]})
    BY <2>1 DEF Deltas
  <2> QED BY <2>1, <2>2
<1>5. SumFunctionOnSet(f, S) = Net(legs)
  BY DEF Net, SumFunction, SignedLegs
<1> HIDE DEF S, f, b, h
<1>6. /\ IsFiniteSet({b[i] : i \in S}) /\ IntOn(h, {b[i] : i \in S})
      /\ SumFunctionOnSet(h, {b[i] : i \in S}) = SumFunctionOnSet(f, S)
  BY <1>1, <1>4, SumByGroup
<1>7. IsFiniteSet(DOMAIN h) /\ IntOn(h, DOMAIN h) /\ SumFunctionOnSet(h, DOMAIN h) = 0
  BY <1>2, <1>3, <1>5, <1>6 DEF BalancedLegs
<1> QED BY <1>7 DEF Even, SumFunction, h

LEMMA TwoLegs ==
  ASSUME NEW x, NEW y, x.amount \in Int, y.amount \in Int, Signed(x) + Signed(y) = 0
  PROVE  BalancedLegs(<<x, y>>)
<1>1. PICK legs : legs = <<x, y>> /\ DOMAIN legs = {1, 2} /\ legs[1] = x /\ legs[2] = y
  <2>1. DOMAIN <<x, y>> = {1, 2} /\ <<x, y>>[1] = x /\ <<x, y>>[2] = y
    OBVIOUS
  <2> QED BY <2>1, Zenon
<1>2. PICK f : f = SignedLegs(legs)
  OBVIOUS
<1>3. DOMAIN f = {1, 2} /\ f[1] = Signed(x) /\ f[2] = Signed(y)
  BY <1>1, <1>2 DEF SignedLegs
<1>4. f[1] \in Int /\ f[2] \in Int
  BY <1>3 DEF Signed
<1>5. IsFiniteSet({1, 2}) /\ SumFunctionOnSet(f, {1, 2}) = f[1] + f[2]
  <2>1. 1 # 2
    OBVIOUS
  <2> QED BY <1>4, <2>1, SumOfPair
<1>6. Net(legs) = 0
  BY <1>2, <1>3, <1>5 DEF Net, SumFunction
<1> QED BY <1>1, <1>5, <1>6 DEF BalancedLegs

LEMMA ThreeLegs ==
  ASSUME NEW x, NEW y, NEW z, x.amount \in Int, y.amount \in Int, z.amount \in Int,
         Signed(x) + Signed(y) + Signed(z) = 0
  PROVE  BalancedLegs(<<x, y, z>>)
<1>1. PICK legs : /\ legs = <<x, y, z>> /\ DOMAIN legs = {1, 2, 3}
                  /\ legs[1] = x /\ legs[2] = y /\ legs[3] = z
  <2>1. /\ DOMAIN <<x, y, z>> = {1, 2, 3}
        /\ <<x, y, z>>[1] = x /\ <<x, y, z>>[2] = y /\ <<x, y, z>>[3] = z
    OBVIOUS
  <2> QED BY <2>1, Zenon
<1>2. PICK f : f = SignedLegs(legs)
  OBVIOUS
<1>3. DOMAIN f = {1, 2, 3} /\ f[1] = Signed(x) /\ f[2] = Signed(y) /\ f[3] = Signed(z)
  BY <1>1, <1>2 DEF SignedLegs
<1>4. f[1] \in Int /\ f[2] \in Int /\ f[3] \in Int
  BY <1>3 DEF Signed
<1>5. IsFiniteSet({1, 2, 3}) /\ SumFunctionOnSet(f, {1, 2, 3}) = f[1] + f[2] + f[3]
  <2>1. PICK i, j, k : i = 1 /\ j = 2 /\ k = 3
    OBVIOUS
  <2>2. i # j /\ i # k /\ j # k
    BY <2>1
  <2>3. f[i] \in Int /\ f[j] \in Int /\ f[k] \in Int
    BY <1>4, <2>1
  <2>4. IsFiniteSet({i, j}) /\ SumFunctionOnSet(f, {i, j}) = f[i] + f[j]
    BY <2>2, <2>3, SumOfPair
  <2>5. {i, j} \cup {k} = {1, 2, 3} /\ k \notin {i, j} /\ IntOn(f, {i, j} \cup {k})
    BY <2>1, <2>2, <2>3 DEF IntOn
  <2>6. /\ IsFiniteSet({i, j} \cup {k})
        /\ SumFunctionOnSet(f, {i, j} \cup {k}) = f[k] + SumFunctionOnSet(f, {i, j})
    BY <2>4, <2>5, SumPutIn
  <2>7. SumFunctionOnSet(f, {1, 2, 3}) = f[k] + (f[i] + f[j])
    BY <2>4, <2>5, <2>6
  <2>8. f[k] + (f[i] + f[j]) = f[i] + f[j] + f[k]
    BY <2>3
  <2>9. IsFiniteSet({1, 2, 3})
    BY <2>5, <2>6
  <2>10. SumFunctionOnSet(f, {1, 2, 3}) = f[i] + f[j] + f[k]
    BY <2>7, <2>8, Zenon
  <2> QED BY <2>1, <2>9, <2>10, Zenon
<1>6. Net(legs) = 0
  BY <1>2, <1>3, <1>5 DEF Net, SumFunction
<1> QED BY <1>1, <1>5, <1>6 DEF BalancedLegs

LEMMA MirrorIsBalanced ==
  ASSUME NEW legs, BalancedLegs(legs)
  PROVE  BalancedLegs(Mirrored(legs))
<1> DEFINE S == DOMAIN legs
           f == SignedLegs(legs)
           mirror == Mirrored(legs)
           g == SignedLegs(mirror)
<1>1. IsFiniteSet(S) /\ (\A i \in S : legs[i].amount \in Int) /\ Net(legs) = 0
  BY DEF BalancedLegs
<1>2. DOMAIN mirror = S /\ \A i \in S : mirror[i] = IF legs[i].direction = "debit"
                                                    THEN Credit(legs[i].account, legs[i].amount)
                                                    ELSE Debit(legs[i].account, legs[i].amount)
  BY DEF Mirrored
<1> HIDE DEF mirror
<1>3. \A i \in S : mirror[i].amount = legs[i].amount /\ Signed(mirror[i]) = -Signed(legs[i])
  <2> SUFFICES ASSUME NEW i \in S
               PROVE  mirror[i].amount = legs[i].amount /\ Signed(mirror[i]) = -Signed(legs[i])
    OBVIOUS
  <2>1. CASE legs[i].direction = "debit"
    <3>1. mirror[i].direction = "credit" /\ mirror[i].amount = legs[i].amount
      BY <1>2, <2>1 DEF Credit
    <3> QED BY <1>1, <2>1, <3>1 DEF Signed
  <2>2. CASE legs[i].direction # "debit"
    <3>1. mirror[i].direction = "debit" /\ mirror[i].amount = legs[i].amount
      BY <1>2, <2>2 DEF Debit
    <3>2. Signed(legs[i]) = -legs[i].amount /\ Signed(mirror[i]) = legs[i].amount
      BY <2>2, <3>1 DEF Signed
    <3>3. legs[i].amount \in Int
      BY <1>1
    <3> QED BY <3>1, <3>2, <3>3
  <2> QED BY <2>1, <2>2
<1>4. /\ DOMAIN f = S /\ DOMAIN g = S /\ IntOn(f, S)
      /\ \A i \in S : g[i] = -f[i]
  BY <1>1, <1>2, <1>3 DEF SignedLegs, IntOn, Signed
<1> HIDE DEF f, g
<1>5. SumFunctionOnSet(g, S) = -SumFunctionOnSet(f, S)
  BY <1>1, <1>4, SumOfOpposites
<1>6. SumFunctionOnSet(f, S) = 0
  BY <1>1, <1>4 DEF Net, SumFunction, f
<1>7. SumFunction(g) = 0
  BY <1>4, <1>5, <1>6 DEF SumFunction
<1>8. Net(mirror) = 0
  BY <1>7 DEF Net, g
<1>9. BalancedLegs(mirror)
  BY <1>1, <1>2, <1>3, <1>8 DEF BalancedLegs
<1> QED BY <1>9 DEF mirror

LEMMA SignOf ==
  ASSUME NEW a, NEW x \in Int
  PROVE  /\ Debit(a, x).amount = x /\ Signed(Debit(a, x)) = x
         /\ Credit(a, x).amount = x /\ Signed(Credit(a, x)) = -x
BY DEF Debit, Credit, Signed

LEMMA OneToOne ==
  ASSUME NEW a, NEW b, NEW x \in Int
  PROVE  BalancedLegs(<<Debit(a, x), Credit(b, x)>>)
<1>1. /\ Debit(a, x).amount \in Int /\ Credit(b, x).amount \in Int
      /\ Signed(Debit(a, x)) + Signed(Credit(b, x)) = 0
  BY SignOf
<1> QED BY <1>1, TwoLegs

LEMMA TwoToOne ==
  ASSUME NEW a, NEW b, NEW c, NEW x \in Int, NEW y \in Int, NEW z \in Int, x + y = z
  PROVE  BalancedLegs(<<Debit(a, x), Debit(b, y), Credit(c, z)>>)
<1>1. /\ Debit(a, x).amount \in Int /\ Debit(b, y).amount \in Int /\ Credit(c, z).amount \in Int
      /\ Signed(Debit(a, x)) + Signed(Debit(b, y)) + Signed(Credit(c, z)) = 0
  BY SignOf
<1> QED BY <1>1, ThreeLegs

\* The scenarios of the seed are balanced, and so is the one that is reversed.
LEMMA PlanIsBalanced ==
  \A n \in DOMAIN SeedPlan : \A i \in DOMAIN SeedPlan[n].legs : BalancedLegs(SeedPlan[n].legs[i])
<1>1. \A k \in 1..5 : BalancedLegs(SeedScenarios[k].legs)
  <2>1. PICK much \in Int : much = 20000
    OBVIOUS
  <2> DEFINE funding == <<Debit("Operating", 100), Credit("Sandbox Funding", 100)>>
             payroll == <<Debit("Employee A", 30), Debit("Employee B", 20), Credit("Operating", 50)>>
             payout == <<Debit("Marketplace Seller", 19), Debit("Platform Fees", 1),
                         Credit("Operating", 20)>>
             refused == <<Debit("Marketplace Seller", much), Credit("Employee A", much)>>
             reversed == <<Debit("Marketplace Seller", 4), Credit("Operating", 4)>>
             scenario(id, expect, reverse, legs) ==
               [id |-> id, expect |-> expect, reverseAfterPost |-> reverse, legs |-> legs]
  <2>2. SeedScenarios = <<scenario("funding", "posted", FALSE, funding),
                          scenario("payroll", "posted", FALSE, payroll),
                          scenario("marketplace_payout", "posted", FALSE, payout),
                          scenario("insufficient_funds", "rejected", FALSE, refused),
                          scenario("reversal", "posted", TRUE, reversed)>>
    BY <2>1 DEF SeedScenarios
  <2>3. /\ BalancedLegs(funding) /\ BalancedLegs(payroll) /\ BalancedLegs(payout)
        /\ BalancedLegs(refused) /\ BalancedLegs(reversed)
    <3>1. BalancedLegs(funding)
      <4>1. 100 \in Int
        OBVIOUS
      <4> QED BY <4>1, OneToOne
    <3>2. BalancedLegs(payroll)
      <4>1. 30 + 20 = 50 /\ 30 \in Int /\ 20 \in Int /\ 50 \in Int
        OBVIOUS
      <4> QED BY <4>1, TwoToOne
    <3>3. BalancedLegs(payout)
      <4>1. 19 + 1 = 20 /\ 19 \in Int /\ 1 \in Int /\ 20 \in Int
        OBVIOUS
      <4> QED BY <4>1, TwoToOne
    <3>4. BalancedLegs(refused)
      <4>1. much \in Int
        BY <2>1
      <4> QED BY <4>1, OneToOne
    <3>5. BalancedLegs(reversed)
      <4>1. 4 \in Int
        OBVIOUS
      <4> QED BY <4>1, OneToOne
    <3> HIDE DEF funding, payroll, payout, refused, reversed
    <3> QED BY <3>1, <3>2, <3>3, <3>4, <3>5
  <2> HIDE DEF funding, payroll, payout, refused, reversed
  <2>4. /\ SeedScenarios[1].legs = funding /\ SeedScenarios[2].legs = payroll
        /\ SeedScenarios[3].legs = payout /\ SeedScenarios[4].legs = refused
        /\ SeedScenarios[5].legs = reversed
    BY <2>2
  <2> QED BY <2>3, <2>4
<1>2. \A k \in 1..5 : BalancedLegs(Mirrored(SeedScenarios[k].legs))
  BY <1>1, MirrorIsBalanced
<1> QED BY <1>1, <1>2, SeedPlanIs

\* Whatever a request posts is balanced, and has one or two lists of legs.
LEMMA CurrentIsBalanced ==
  ASSUME AInv, Booked, NEW r \in Requests, pc[r] \in {"reserve", "lock"}
  PROVE  /\ IsFiniteSet(DOMAIN Current(r).legs)
         /\ \A i \in DOMAIN Current(r).legs : BalancedLegs(Current(r).legs[i])
<1> DEFINE c == cmd[r]
<1>1. c.op \in {"post", "exchange", "seed"} /\ c \in Commands
  BY ScopeAssumption DEF AInv, IInv, TypeOK, Own
<1>2. IsFiniteSet({1}) /\ IsFiniteSet({1, 2})
  <2>1. IsFiniteSet({1})
    BY FS_Singleton
  <2>2. IsFiniteSet({1} \cup {2})
    BY <2>1, FS_AddElement
  <2>3. {1} \cup {2} = {1, 2}
    OBVIOUS
  <2> QED BY <2>1, <2>2, <2>3
<1>3. CASE c.op = "seed"
  <2>1. next[r] \in DOMAIN SeedPlan
    BY <1>3, SeedPlanIs DEF AInv, Own
  <2>2. Current(r).legs = SeedPlan[next[r]].legs
    BY <1>3 DEF Current, BuiltEntry, SeedEntry, Planned, Entry
  <2> QED BY <1>2, <2>1, <2>2, SeedPlanIs, PlanIsBalanced
<1>4. CASE c.op = "exchange"
  <2> DEFINE source == CurrencyOf(c.from)
             target == CurrencyOf(c.to)
             out == <<Debit(FxBridge(source).name, c.amount), Credit(c.from, c.amount)>>
             in == <<Debit(c.to, c.targetAmount), Credit(FxBridge(target).name, c.targetAmount)>>
  <2>1. Current(r).legs = <<out, in>>
    BY <1>4 DEF Current, ExchangeEntry, Entry
  <2>2. c.amount \in Int /\ c.targetAmount \in Int
    BY <1>1, <1>4, ScopeAssumption
  <2>3. BalancedLegs(out) /\ BalancedLegs(in)
    BY <2>2, OneToOne
  <2> HIDE DEF out, in
  <2>4. DOMAIN Current(r).legs = {1, 2} /\ Current(r).legs[1] = out /\ Current(r).legs[2] = in
    BY <2>1
  <2> QED BY <1>2, <2>3, <2>4
<1>5. CASE c.op = "post"
  <2>1. Current(r).legs = <<c.legs>>
    BY <1>5 DEF Current, Entry
  <2>2. BalancedLegs(c.legs)
    BY <1>1, <1>5, ScopeAssumption DEF Booked, BalancedLegs
  <2>3. DOMAIN Current(r).legs = {1} /\ Current(r).legs[1] = c.legs
    BY <2>1
  <2> QED BY <1>2, <2>2, <2>3
<1> QED BY <1>1, <1>3, <1>4, <1>5

LEMMA NewRowsEven ==
  ASSUME AInv, Booked, NEW r \in Requests, pc[r] = "lock"
  PROVE  /\ IsFiniteSet(RowsOf(r, Current(r)))
         /\ \A row \in RowsOf(r, Current(r)) : Even(row.delta)
<1>1. PICK e : e = Current(r)
  OBVIOUS
<1>2. IsFiniteSet(DOMAIN e.legs) /\ \A i \in DOMAIN e.legs : Even(Deltas(e.legs[i]))
  BY <1>1, CurrentIsBalanced, DeltasAreEven
<1> DEFINE b == [i \in DOMAIN e.legs |->
                  [key |-> e.key, leg |-> i, by |-> r, legs |-> e.legs[i],
                   delta |-> Deltas(e.legs[i]), currency |-> e.currencies[i],
                   reverses |-> e.reverses]]
<1>3. RowsOf(r, e) = {b[i] : i \in DOMAIN e.legs}
  BY DEF RowsOf
<1>4. \A i \in DOMAIN e.legs : b[i].delta = Deltas(e.legs[i])
  OBVIOUS
<1> HIDE DEF b
<1>5. IsFiniteSet({b[i] : i \in DOMAIN e.legs})
  BY <1>2, ImageFinite
<1> QED BY <1>1, <1>2, <1>3, <1>4, <1>5

-----------------------------------------------------------------------------
(* Every step keeps the books.                                             *)

\* A step that neither opens, posts nor commits, of a request that has started.
LEMMA BookedQuiet ==
  ASSUME Booked, UNCHANGED <<accounts, ledger, opened, rows, cmd>>,
         \A q \in Requests : pc'[q] \in {"find", "reserve", "lock"} =>
                               pc[q] \in {"find", "reserve", "lock"}
  PROVE  Booked'
BY DEF Booked

LEMMA BeginBooked ==
  ASSUME AInv, Booked, NEW r \in Requests, Begin(r)
  PROVE  Booked'
<1>1. PICK c \in Commands :
        /\ cmd' = [cmd EXCEPT ![r] = c]
        /\ Refusal(c) = "ok" \/ pc' = [pc EXCEPT ![r] = "commit"]
        /\ UNCHANGED <<accounts, ledger, opened, rows>>
  BY DEF Begin, Goto, committed
<1>2. \A q \in Requests \ {r} : cmd'[q] = cmd[q] /\ pc'[q] = pc[q]
  BY StepIsOwn DEF Same
<1>3. cmd'[r] = c
  BY <1>1 DEF AInv, IInv, Shape
<1>4. Refusal(c) # "ok" => pc'[r] = "commit"
  BY <1>1 DEF AInv, IInv, TypeOK
<1>5. c.op = "post" /\ Refusal(c) = "ok" => Net(c.legs) = 0
  BY DEF Refusal, Build
<1> QED BY <1>1, <1>2, <1>3, <1>4, <1>5 DEF Booked

LEMMA OpenAccountBooked ==
  ASSUME AInv, Booked, NEW r \in Requests, OpenAccount(r)
  PROVE  Booked'
<1>1. PICK new :
        /\ opened' = [opened EXCEPT ![r] = @ \cup {new}]
        /\ UNCHANGED <<accounts, ledger, rows, cmd, pc>>
  BY DEF OpenAccount, committed
<1>2. \A q \in Requests : opened'[q] = IF q = r THEN opened[q] \cup {new} ELSE opened[q]
  BY <1>1 DEF AInv, IInv, Shape
<1>3. \A q \in Requests : IsFiniteSet(opened'[q])
  <2>1. \A q \in Requests : IsFiniteSet(opened[q])
    BY DEF Booked
  <2>2. \A q \in Requests : IsFiniteSet(opened[q] \cup {new})
    BY <2>1, FS_AddElement
  <2> QED BY <1>2, <2>1, <2>2
<1> QED BY <1>1, <1>3 DEF Booked

LEMMA PostEntryBooked ==
  ASSUME AInv, Booked, NEW r \in Requests, PostEntry(r)
  PROVE  Booked'
<1>1. PICK new :
        /\ new = RowsOf(r, Current(r))
        /\ rows' = [rows EXCEPT ![r] = @ \cup new] /\ pc[r] = "lock"
        /\ UNCHANGED <<accounts, ledger, opened, cmd>>
  BY DEF PostEntry, committed
<1>2. IsFiniteSet(new) /\ \A row \in new : Even(row.delta)
  BY <1>1, NewRowsEven
<1>3. \A q \in Requests : rows'[q] = IF q = r THEN rows[q] \cup new ELSE rows[q]
  BY <1>1 DEF AInv, IInv, Shape
<1>4. ASSUME NEW q \in Requests
      PROVE  IsFiniteSet(rows'[q]) /\ \A row \in rows'[q] : Even(row.delta)
  <2>1. IsFiniteSet(rows[q]) /\ \A row \in rows[q] : Even(row.delta)
    BY DEF Booked
  <2>2. IsFiniteSet(rows[q] \cup new)
    BY <1>2, <2>1, FS_Union
  <2> QED BY <1>2, <1>3, <2>1, <2>2
<1>5. \A q \in Requests \ {r} : pc'[q] = pc[q]
  BY StepIsOwn DEF Same, Step
<1> QED BY <1>1, <1>4, <1>5 DEF Booked

LEMMA CommitBooked ==
  ASSUME AInv, Booked, NEW r \in Requests, Commit(r)
  PROVE  Booked'
<1>1. /\ accounts' = accounts \cup Inserted(r) /\ ledger' = ledger \cup Written(r)
      /\ opened' = [opened EXCEPT ![r] = {}] /\ rows' = [rows EXCEPT ![r] = {}]
      /\ cmd' = cmd /\ pc' = [pc EXCEPT ![r] = "done"]
  BY DEF Commit, Discard, Goto, Written, Inserted
<1>2. /\ IsFiniteSet(Inserted(r)) /\ IsFiniteSet(Written(r))
      /\ \A row \in Written(r) : Even(row.delta)
  BY FS_EmptySet DEF Booked, Written, Inserted
<1>3. \A q \in Requests : /\ opened'[q] = IF q = r THEN {} ELSE opened[q]
                          /\ rows'[q] = IF q = r THEN {} ELSE rows[q]
                          /\ pc'[q] = IF q = r THEN "done" ELSE pc[q]
  BY <1>1 DEF AInv, IInv, Shape, TypeOK
<1>4. IsFiniteSet(accounts') /\ IsFiniteSet(ledger') /\ \A row \in ledger' : Even(row.delta)
  BY <1>1, <1>2, FS_Union DEF Booked
<1> QED BY <1>1, <1>3, <1>4, FS_EmptySet DEF Booked

LEMMA CrashBooked ==
  ASSUME AInv, Booked, NEW r \in Requests, Crash(r)
  PROVE  Booked'
<1>1. /\ opened' = [opened EXCEPT ![r] = {}] /\ rows' = [rows EXCEPT ![r] = {}]
      /\ pc' = [pc EXCEPT ![r] = "done"] /\ UNCHANGED <<accounts, ledger, cmd>>
  BY DEF Crash, Discard, Goto, committed
<1>2. \A q \in Requests : /\ opened'[q] = IF q = r THEN {} ELSE opened[q]
                          /\ rows'[q] = IF q = r THEN {} ELSE rows[q]
                          /\ pc'[q] = IF q = r THEN "done" ELSE pc[q]
  BY <1>1 DEF AInv, IInv, Shape, TypeOK
<1> QED BY <1>1, <1>2, FS_EmptySet DEF Booked

LEMMA NextBooked == AInv /\ Booked /\ [Next]_vars => Booked'
<1> SUFFICES ASSUME AInv, Booked, [Next]_vars PROVE Booked'
  OBVIOUS
<1>1. CASE Idle
  BY <1>1, BookedQuiet DEF Idle, work
<1>2. CASE ~Idle
  <2>1. PICK r \in Requests : Begin(r) \/ Step(r) \/ Crash(r)
    BY <1>2, NextIs
  <2>2. ASSUME Step(r), UNCHANGED <<accounts, ledger, opened, rows, cmd>>,
               pc[r] \in {"find", "reserve", "lock"} \/ pc'[r] = "commit"
        PROVE  Booked'
    <3>1. \A q \in Requests : q = r \/ pc'[q] = pc[q]
      BY <2>2, StepIsOwn DEF Same
    <3> QED BY <2>2, <3>1, BookedQuiet
  <2>3. CASE FindAccounts(r)
    BY <2>2, <2>3 DEF FindAccounts, committed, Step
  <2>4. CASE LoseNameRace(r)
    BY <2>2, <2>4 DEF LoseNameRace, committed, Step
  <2>5. CASE StartPosting(r)
    BY <2>2, <2>5 DEF StartPosting, committed, Step
  <2>6. CASE ReserveKey(r)
    BY <2>2, <2>6 DEF ReserveKey, committed, Step
  <2>7. CASE ReplayEntry(r)
    BY <2>2, <2>7 DEF ReplayEntry, committed, Step
  <2>8. CASE KeyConflict(r)
    BY <2>2, <2>8 DEF KeyConflict, committed, Step
  <2>9. CASE LockAccount(r)
    BY <2>2, <2>9 DEF LockAccount, committed, Step
  <2>10. CASE RefuseEntry(r)
    BY <2>2, <2>10 DEF RefuseEntry, committed, Step
  <2>11. CASE ScenarioThrows(r)
    BY <2>2, <2>11 DEF ScenarioThrows, committed, Step
  <2>12. CASE BreakDeadlock(r)
    <3>1. pc'[r] = "commit" /\ UNCHANGED <<accounts, ledger, opened, rows, cmd>>
      BY <2>12 DEF BreakDeadlock, committed, Goto, AInv, IInv, TypeOK
    <3> QED BY <2>2, <2>12, <3>1 DEF Step
  <2> QED
    BY <2>1, <2>3, <2>4, <2>5, <2>6, <2>7, <2>8, <2>9, <2>10, <2>11, <2>12, BeginBooked,
       OpenAccountBooked, PostEntryBooked, CommitBooked, CrashBooked DEF Step
<1> QED BY <1>1, <1>2

LEMMA InitBooked == Init => Booked
<1> SUFFICES ASSUME Init PROVE Booked
  OBVIOUS
<1>1. \A row \in InitialRows : Even(row.delta)
  BY ScopeAssumption DEF Even, IntOn
<1>2. IsFiniteSet(accounts) /\ IsFiniteSet(ledger) /\ \A row \in ledger : Even(row.delta)
  BY <1>1, ScopeAssumption DEF Init
<1>3. \A r \in Requests : opened[r] = {} /\ rows[r] = {} /\ pc[r] = "idle"
  BY DEF Init
<1> QED BY <1>2, <1>3, FS_EmptySet DEF Booked

-----------------------------------------------------------------------------
(* Summing up.                                                             *)

InCurrency(currency) == {s \in accounts : s.currency = currency}

\* What a row moves on an account.
Moves(row, name) == IF name \in DOMAIN row.delta THEN row.delta[name] ELSE 0

\* A row moves nothing in a currency as a whole.
LEMMA RowConserves ==
  ASSUME IInv, Booked, NEW row \in ledger, NEW currency
  PROVE  LET part == [s \in InCurrency(currency) |-> Moves(row, s.name)]
         IN  /\ IntOn(part, InCurrency(currency))
             /\ SumFunctionOnSet(part, InCurrency(currency)) = 0
<1> DEFINE A == InCurrency(currency)
           part == [s \in A |-> Moves(row, s.name)]
           D == DOMAIN row.delta
           M == {s \in A : s.name \in D}
           b == [s \in M |-> s.name]
<1>1. IsFiniteSet(D) /\ IntOn(row.delta, D) /\ SumFunctionOnSet(row.delta, D) = 0
  BY DEF Booked, Even, SumFunction
<1>2. IsFiniteSet(A) /\ IsFiniteSet(M) /\ M \subseteq A /\ A \subseteq accounts
  BY PartFinite DEF Booked, InCurrency
<1>3. \A s \in A : part[s] = Moves(row, s.name) /\ part[s] \in Int
  BY <1>1 DEF Moves, IntOn
<1>4. \A s, t \in accounts : s.name = t.name => s = t
  BY DEF IInv, TypeOK
<1>5. \A name \in D : \E s \in accounts : s.name = name /\ s.currency = row.currency
  BY DEF IInv, RowsReal, Real
<1>6. \A s \in A \ M : part[s] = 0
  BY <1>3 DEF Moves
<1>7. \A s \in M : part[s] = row.delta[s.name] /\ b[s] = s.name
  BY <1>3 DEF Moves
<1>8. CASE row.currency = currency
  <2>1. {b[s] : s \in M} = D
    <3>1. \A name \in D : \E s \in M : s.name = name
      BY <1>5, <1>8 DEF InCurrency
    <3> QED BY <3>1
  <2>2. ASSUME NEW s \in M
        PROVE  row.delta[b[s]] = SumFunctionOnSet(part, {t \in M : b[t] = b[s]})
    <3>1. {t \in M : b[t] = b[s]} = {s}
      BY <1>2, <1>4
    <3>2. part[s] \in Int /\ part[s] = row.delta[b[s]]
      BY <1>2, <1>3, <1>7
    <3> HIDE DEF part, b, M
    <3>3. SumFunctionOnSet(part, {s}) = part[s]
      BY <3>2, SumOfOne
    <3> QED BY <3>1, <3>2, <3>3
  <2>3. IntOn(part, M) /\ IntOn(part, A)
    BY <1>2, <1>3 DEF IntOn
  <2> HIDE DEF part, b, M, A, D
  <2>4. SumFunctionOnSet(row.delta, {b[s] : s \in M}) = SumFunctionOnSet(part, M)
    <3>1. PICK h : h = row.delta
      OBVIOUS
    <3>2. \A s \in M : h[b[s]] = SumFunctionOnSet(part, {t \in M : b[t] = b[s]})
      BY <2>2, <3>1
    <3>3. IsFiniteSet(M) /\ IntOn(part, M)
      BY <1>2, <2>3
    <3>4. SumFunctionOnSet(h, {b[s] : s \in M}) = SumFunctionOnSet(part, M)
      BY <3>2, <3>3, SumByGroup
    <3> QED BY <3>1, <3>4
  <2>5. SumFunctionOnSet(part, A) = SumFunctionOnSet(part, M)
    BY <1>2, <1>6, <2>3, SumOverPart
  <2>6. IntOn(part, A) /\ SumFunctionOnSet(part, A) = 0
    BY <1>1, <2>1, <2>3, <2>4, <2>5
  <2> QED BY <2>6 DEF part, A
<1>9. CASE row.currency # currency
  <2>1. \A s \in A : s.name \notin D
    BY <1>2, <1>4, <1>5, <1>9 DEF InCurrency
  <2>2. \A s \in A : part[s] = 0
    BY <2>1 DEF Moves
  <2>3. IntOn(part, A)
    BY <1>3 DEF IntOn
  <2> HIDE DEF part, A
  <2>4. IntOn(part, A) /\ SumFunctionOnSet(part, A) = 0
    BY <1>2, <2>2, <2>3, SumOfZeros
  <2> QED BY <2>4 DEF part, A
<1> QED BY <1>8, <1>9

\* The balance of an account without one of the rows.
LEMMA BalanceTakeOut ==
  ASSUME NEW L, IsFiniteSet(L), \A row \in L : Even(row.delta), NEW x \in L, NEW name
  PROVE  /\ BalanceIn(L, name) \in Int /\ BalanceIn(L \ {x}, name) \in Int
         /\ BalanceIn(L, name) = Moves(x, name) + BalanceIn(L \ {x}, name)
<1> DEFINE on(K) == {row \in K : name \in DOMAIN row.delta}
           f(K) == [row \in on(K) |-> row.delta[name]]
           R == on(L \ {x})
<1>1. \A K : BalanceIn(K, name) = SumFunctionOnSet(f(K), on(K))
  BY DEF BalanceIn, SumFunction
<1>2. \A row \in on(L) : f(L)[row] = row.delta[name] /\ row.delta[name] \in Int
  BY DEF Even, IntOn
<1>3. IsFiniteSet(on(L)) /\ IntOn(f(L), on(L)) /\ IsFiniteSet(R) /\ R \subseteq on(L)
  BY <1>2, PartFinite DEF IntOn
<1>4. \A row \in R : f(L)[row] = f(L \ {x})[row]
  OBVIOUS
<1>5. IntOn(f(L), R)
  BY <1>2, <1>3 DEF IntOn
<1>6. on(L) \ {x} = R
  OBVIOUS
<1>7. x \in on(L) <=> name \in DOMAIN x.delta
  OBVIOUS
<1> HIDE DEF on, f, R
<1>8. SumFunctionOnSet(f(L), on(L)) \in Int /\ SumFunctionOnSet(f(L), R) \in Int
  BY <1>3, <1>5, SumRecursion
<1>9. SumFunctionOnSet(f(L), R) = SumFunctionOnSet(f(L \ {x}), R)
  BY <1>3, <1>4, <1>5, SumSame
<1>10. BalanceIn(L \ {x}, name) = SumFunctionOnSet(f(L), R)
  BY <1>1, <1>9 DEF R
<1>11. CASE name \in DOMAIN x.delta
  <2>1. SumFunctionOnSet(f(L), on(L)) = f(L)[x] + SumFunctionOnSet(f(L), on(L) \ {x})
    BY <1>3, <1>7, <1>11, SumTakeOut
  <2>2. f(L)[x] = Moves(x, name)
    BY <1>2, <1>7, <1>11 DEF Moves
  <2> QED BY <1>1, <1>6, <1>8, <1>10, <2>1, <2>2
<1>12. CASE name \notin DOMAIN x.delta
  <2>1. on(L) = R /\ Moves(x, name) = 0
    BY <1>6, <1>7, <1>12 DEF Moves
  <2> QED BY <1>1, <1>8, <1>10, <2>1
<1> QED BY <1>11, <1>12

\* Any of the rows, taken together, move nothing in a currency.
LEMMA BooksBalance ==
  ASSUME IInv, Booked, NEW currency
  PROVE  SumFunctionOnSet([s \in InCurrency(currency) |-> BalanceIn(ledger, s.name)],
                          InCurrency(currency)) = 0
<1> DEFINE A == InCurrency(currency)
           bal(L) == [s \in A |-> BalanceIn(L, s.name)]
           total(L) == SumFunctionOnSet(bal(L), A)
           bad == {L \in SUBSET ledger : total(L) # 0}
<1>1. IsFiniteSet(A)
  BY PartFinite DEF Booked, InCurrency
<1>2. \A L \in SUBSET ledger : IsFiniteSet(L) /\ \A row \in L : Even(row.delta)
  BY PartFinite DEF Booked
<1>3. bad = {}
  <2> SUFFICES ASSUME bad # {} PROVE FALSE
    OBVIOUS
  <2>1. PICK L \in bad : \A K \in bad : Cardinality(L) <= Cardinality(K)
    <3>1. \A K \in bad : IsFiniteSet(K)
      BY <1>2
    <3> HIDE DEF bad
    <3> QED BY <3>1, Fewest
  <2>2. L \in SUBSET ledger /\ total(L) # 0
    BY <2>1
  <2>3. CASE L = {}
    <3>1. \A name : BalanceIn({}, name) = 0
      <4> SUFFICES ASSUME NEW name PROVE BalanceIn({}, name) = 0
        OBVIOUS
      <4> DEFINE none == [row \in {x \in {} : name \in DOMAIN x.delta} |-> row.delta[name]]
      <4>1. BalanceIn({}, name) = SumFunction(none)
        BY DEF BalanceIn
      <4>2. DOMAIN none = {}
        OBVIOUS
      <4> HIDE DEF none
      <4> QED BY <4>1, <4>2, SumEmpty DEF SumFunction
    <3>2. \A s \in A : bal(L)[s] = 0
      BY <2>3, <3>1
    <3> HIDE DEF bal
    <3>3. total(L) = 0
      BY <1>1, <3>2, SumOfZeros
    <3> QED BY <2>2, <3>3
  <2>4. CASE L # {}
    <3>1. PICK x \in L : TRUE
      BY <2>4
    <3> DEFINE K == L \ {x}
               part == [s \in A |-> Moves(x, s.name)]
    <3>2. x \in ledger /\ K \in SUBSET ledger
      BY <2>2
    <3>3. K \notin bad
      <4>1. Cardinality(K) < Cardinality(L) /\ Cardinality(K) \in Nat /\ Cardinality(L) \in Nat
        BY <1>2, <2>2, OneLess
      <4> HIDE DEF bad, K
      <4> QED BY <2>1, <4>1
    <3>4. total(K) = 0
      BY <3>2, <3>3
    <3>5. IntOn(part, A) /\ SumFunctionOnSet(part, A) = 0
      BY <3>2, RowConserves
    <3>6. \A s \in A : /\ BalanceIn(L, s.name) \in Int /\ BalanceIn(K, s.name) \in Int
                       /\ BalanceIn(L, s.name) = Moves(x, s.name) + BalanceIn(K, s.name)
      <4>1. IsFiniteSet(L) /\ \A row \in L : Even(row.delta)
        BY <1>2, <2>2
      <4> HIDE DEF bal, total, part, A, bad
      <4> QED BY <3>1, <4>1, BalanceTakeOut
    <3>7. \A s \in A : bal(L)[s] = part[s] + bal(K)[s]
      <4> HIDE DEF K, A
      <4> QED BY <3>6
    <3>8. IntOn(bal(K), A)
      <4> HIDE DEF K, A
      <4> QED BY <3>6 DEF IntOn
    <3> HIDE DEF bal, part, K, A
    <3>9. total(L) = SumFunctionOnSet(part, A) + SumFunctionOnSet(bal(K), A)
      BY <1>1, <3>5, <3>7, <3>8, SumOfSums
    <3> HIDE DEF bad
    <3> QED BY <2>2, <3>4, <3>5, <3>9
  <2> QED BY <2>3, <2>4
<1>4. ledger \in SUBSET ledger
  OBVIOUS
<1>5. total(ledger) = 0
  BY <1>3, <1>4
<1> QED BY <1>5

\* In each currency the accounts add up to zero, whatever was opened, posted, refused,
\* aborted or lost: what a request commits is a set of balanced postings.
THEOREM BooksStayBalanced == Spec => []Conserved
<1>1. IInv /\ Booked => Conserved
  <2> SUFFICES ASSUME IInv, Booked, NEW currency
               PROVE  SumFunction([s \in {t \in accounts : t.currency = currency} |->
                                     BalanceIn(ledger, s.name)]) = 0
    BY DEF Conserved
  <2> DEFINE f == [s \in InCurrency(currency) |-> BalanceIn(ledger, s.name)]
  <2>1. SumFunctionOnSet(f, InCurrency(currency)) = 0
    BY BooksBalance
  <2>2. DOMAIN f = InCurrency(currency)
    OBVIOUS
  <2>3. SumFunction(f) = 0
    <3> HIDE DEF f
    <3> QED BY <2>1, <2>2 DEF SumFunction
  <2> QED BY <2>3 DEF InCurrency
<1>2. AInv => IInv
  BY DEF AInv
<1> QED BY InitAInv, NextAInv, InitBooked, NextBooked, <1>1, <1>2, PTL DEF Spec
-----------------------------------------------------------------------------
(* The order of a seed's postings.  A key has its rows in one place, so    *)
(* what stands of a seed for one transaction stands for all, and what is   *)
(* posted next comes after everything before it.                           *)

Keys(set) == {row.key : row \in set}

\* The key of the entry a request is at, whatever accounts there are.
WorkKey(r) == IF cmd[r].op = "seed" THEN cmd[r].key \o SeedPlan[next[r]].key ELSE cmd[r].key

KeysApart ==
  \A r \in Requests :
    /\ Keys(rows[r]) \cap Keys(ledger) = {}
    /\ \A q \in Requests \ {r} : Keys(rows[q]) \cap Keys(rows[r]) = {}
    /\ pc[r] = "lock" =>
         /\ WorkKey(r) \notin Keys(ledger)
         /\ \A q \in Requests \ {r} :
              WorkKey(r) \notin Keys(rows[q]) /\ (pc[q] = "lock" => WorkKey(q) # WorkKey(r))

\* A seed has posted or found every scenario before the one it is at, and posted
\* nothing else.
SeedSoFar(r) ==
  pc[r] \in {"reserve", "lock"} /\ cmd[r].op = "seed" =>
    /\ \A row \in rows[r] : \E m \in 1..next[r] - 1 : row.key = cmd[r].key \o SeedPlan[m].key
    /\ \A m \in 1..next[r] - 1 :
         SeedPlan[m].expect = "posted" =>
           StandsIn(ledger \cup rows[r], SeedEntry(cmd[r].key, m))

Ordered ==
  /\ InOrder(ledger)
  /\ \A r \in Requests : InOrder(ledger \cup rows[r]) /\ SeedSoFar(r)

OInv == AInv /\ KeysApart /\ Ordered

\* Rows under other keys change nothing for an entry.
LEMMA StandsApart ==
  ASSUME NEW L, NEW M, Keys(L) \cap Keys(M) = {}, NEW e
  PROVE  StandsIn(L \cup M, e) <=> StandsIn(L, e) \/ StandsIn(M, e)
<1> DEFINE under(S) == {x \in S : x.key = e.key}
           legs(S) == {row.legs : row \in under(S)}
<1>1. HasKey(L \cup M, e.key) <=> HasKey(L, e.key) \/ HasKey(M, e.key)
  BY DEF HasKey
<1>2. HasKey(L, e.key) => under(M) = {}
  BY DEF HasKey, Keys
<1>3. HasKey(M, e.key) => under(L) = {}
  BY DEF HasKey, Keys
<1>4. under(L \cup M) = under(L) \cup under(M)
  OBVIOUS
<1>5. \A S : StandsIn(S, e) <=> HasKey(S, e.key) /\ legs(S) = {e.legs[i] : i \in DOMAIN e.legs}
  BY DEF StandsIn
<1>6. HasKey(L, e.key) => legs(L \cup M) = legs(L) /\ ~HasKey(M, e.key)
  <2>1. HasKey(L, e.key) => under(L \cup M) = under(L)
    BY <1>2, <1>4
  <2>2. HasKey(L, e.key) => ~HasKey(M, e.key)
    BY DEF HasKey, Keys
  <2> QED BY <2>1, <2>2
<1>7. HasKey(M, e.key) => legs(L \cup M) = legs(M)
  <2>1. HasKey(M, e.key) => under(L \cup M) = under(M)
    BY <1>3, <1>4
  <2> QED BY <2>1
<1> HIDE DEF legs, under
<1> QED BY <1>1, <1>5, <1>6, <1>7

\* Rows that are in order with the same others are in order together.
LEMMA OrderJoins ==
  ASSUME NEW L, NEW M, NEW N, InOrder(L \cup M), InOrder(L \cup N),
         Keys(L) \cap Keys(M) = {}, Keys(L) \cap Keys(N) = {}, Keys(M) \cap Keys(N) = {}
  PROVE  InOrder((L \cup M) \cup N)
<1>1. Keys(L \cup M) \cap Keys(N) = {} /\ Keys(L \cup N) \cap Keys(M) = {}
  BY DEF Keys
<1>2. (L \cup M) \cup N = (L \cup N) \cup M
  OBVIOUS
<1>3. \A e : /\ StandsIn((L \cup M) \cup N, e) <=> StandsIn(L \cup M, e) \/ StandsIn(N, e)
             /\ StandsIn((L \cup M) \cup N, e) <=> StandsIn(L \cup N, e) \/ StandsIn(M, e)
  BY <1>1, <1>2, StandsApart
<1>4. \A e : StandsIn(N, e) => StandsIn(L \cup N, e)
  BY StandsApart
<1> QED BY <1>3, <1>4 DEF InOrder

\* An entry is added in order when those before it are there.
LEMMA OrderGrows ==
  ASSUME NEW L, NEW M, InOrder(L), Keys(L) \cap Keys(M) = {},
         \A c \in {x \in Commands : x.op = "seed"} : \A m, n \in DOMAIN SeedPlan :
           m < n /\ SeedPlan[m].expect = "posted" /\ StandsIn(M, SeedEntry(c.key, n))
             => StandsIn(L, SeedEntry(c.key, m))
  PROVE  InOrder(L \cup M)
BY StandsApart DEF InOrder

-----------------------------------------------------------------------------
(* The entries of the plan and their keys. *)

\* A sequence of one element more.
LEMMA OneMore ==
  ASSUME NEW S, NEW s \in Seq(S), NEW x \in S, NEW p, p = s \o <<x>>
  PROVE  /\ p \in Seq(S) /\ Len(p) = Len(s) + 1 /\ p[Len(s) + 1] = x
         /\ \A i \in 1..Len(s) : p[i] = s[i]
<1>1. PICK t : t = <<x>>
  OBVIOUS
<1>2. t \in Seq(S) /\ Len(t) = 1 /\ t[1] = x
  BY <1>1
<1>3. p = s \o t
  BY <1>1
<1>4. p \in Seq(S) /\ Len(p) = Len(s) + 1
  BY <1>2, <1>3, ConcatProperties
<1>5. \A i \in 1..Len(s) + Len(t) : p[i] = IF i <= Len(s) THEN s[i] ELSE t[i - Len(s)]
  BY <1>2, <1>3, ConcatProperties
<1>6. PICK n : n \in Nat /\ n = Len(s)
  OBVIOUS
<1>7. \A i \in 1..n + 1 : p[i] = IF i <= n THEN s[i] ELSE t[i - n]
  BY <1>2, <1>5, <1>6
<1>8. \A i \in 1..n : p[i] = s[i]
  BY <1>6, <1>7
<1>9. p[n + 1] = t[n + 1 - n]
  BY <1>6, <1>7
<1>10. n + 1 - n = 1
  BY <1>6
<1> QED BY <1>2, <1>4, <1>6, <1>8, <1>9, <1>10

LEMMA SixEntries ==
  ASSUME NEW a, NEW b, NEW c, NEW d, NEW e, NEW f
  PROVE  /\ Len(<<a>> \o <<b>> \o <<c>> \o <<d>> \o <<e, f>>) = 6
         /\ <<a>> \o <<b>> \o <<c>> \o <<d>> \o <<e, f>> \in Seq({a, b, c, d, e, f})
         /\ \A p : p = <<a>> \o <<b>> \o <<c>> \o <<d>> \o <<e, f>> =>
              p[1] = a /\ p[2] = b /\ p[3] = c /\ p[4] = d /\ p[5] = e /\ p[6] = f
<1>1. PICK S : S = {a, b, c, d, e, f}
  OBVIOUS
<1>2. a \in S /\ b \in S /\ c \in S /\ d \in S /\ e \in S /\ f \in S
  BY <1>1
<1>3. PICK p1 : p1 = <<a>>
  OBVIOUS
<1>4. p1 \in Seq(S) /\ Len(p1) = 1 /\ p1[1] = a
  BY <1>2, <1>3
<1>5. PICK p2 : p2 = p1 \o <<b>>
  OBVIOUS
<1>6. p2 \in Seq(S) /\ Len(p2) = 2 /\ p2[1] = a /\ p2[2] = b
  <2>1. /\ p2 \in Seq(S) /\ Len(p2) = Len(p1) + 1 /\ p2[Len(p1) + 1] = b
        /\ \A i \in 1..Len(p1) : p2[i] = p1[i]
    BY <1>2, <1>4, <1>5, OneMore
  <2> QED BY <1>4, <2>1
<1>7. PICK p3 : p3 = p2 \o <<c>>
  OBVIOUS
<1>8. p3 \in Seq(S) /\ Len(p3) = 3 /\ p3[1] = a /\ p3[2] = b /\ p3[3] = c
  <2>1. /\ p3 \in Seq(S) /\ Len(p3) = Len(p2) + 1 /\ p3[Len(p2) + 1] = c
        /\ \A i \in 1..Len(p2) : p3[i] = p2[i]
    BY <1>2, <1>6, <1>7, OneMore
  <2> QED BY <1>6, <2>1
<1>9. PICK p4 : p4 = p3 \o <<d>>
  OBVIOUS
<1>10. p4 \in Seq(S) /\ Len(p4) = 4 /\ p4[1] = a /\ p4[2] = b /\ p4[3] = c /\ p4[4] = d
  <2>1. /\ p4 \in Seq(S) /\ Len(p4) = Len(p3) + 1 /\ p4[Len(p3) + 1] = d
        /\ \A i \in 1..Len(p3) : p4[i] = p3[i]
    BY <1>2, <1>8, <1>9, OneMore
  <2> QED BY <1>8, <2>1
<1>11. PICK t : t = <<e, f>>
  OBVIOUS
<1>12. t \in Seq(S) /\ Len(t) = 2 /\ t[1] = e /\ t[2] = f
  BY <1>2, <1>11
<1>13. PICK p : p = p4 \o t
  OBVIOUS
<1>14. /\ p \in Seq(S) /\ Len(p) = 6
       /\ \A i \in 1..6 : p[i] = IF i <= 4 THEN p4[i] ELSE t[i - 4]
  <2>1. /\ p \in Seq(S) /\ Len(p) = Len(p4) + Len(t)
        /\ \A i \in 1..Len(p4) + Len(t) : p[i] = IF i <= Len(p4) THEN p4[i] ELSE t[i - Len(p4)]
    BY <1>10, <1>12, <1>13, ConcatProperties
  <2>2. Len(p4) + Len(t) = 6 /\ Len(p4) = 4
    BY <1>10, <1>12
  <2> QED BY <2>1, <2>2
<1>15. p[1] = a /\ p[2] = b /\ p[3] = c /\ p[4] = d /\ p[5] = e /\ p[6] = f
  <2>1. p[1] = p4[1] /\ p[2] = p4[2] /\ p[3] = p4[3] /\ p[4] = p4[4]
    BY <1>14
  <2>2. p[5] = t[1] /\ p[6] = t[2]
    BY <1>14
  <2> QED BY <1>10, <1>12, <2>1, <2>2
<1>16. p = <<a>> \o <<b>> \o <<c>> \o <<d>> \o <<e, f>>
  BY <1>3, <1>5, <1>7, <1>9, <1>11, <1>13
<1> QED BY <1>1, <1>14, <1>15, <1>16

LEMMA ScenariosAre ==
  /\ ~SeedScenarios[1].reverseAfterPost /\ ~SeedScenarios[2].reverseAfterPost
  /\ ~SeedScenarios[3].reverseAfterPost /\ ~SeedScenarios[4].reverseAfterPost
  /\ SeedScenarios[5].reverseAfterPost
  /\ SeedScenarios[1].id = "funding" /\ SeedScenarios[2].id = "payroll"
  /\ SeedScenarios[3].id = "marketplace_payout"
  /\ SeedScenarios[4].id = "insufficient_funds" /\ SeedScenarios[5].id = "reversal"
<1>1. PICK much \in Int : much = 20000
  OBVIOUS
<1> DEFINE funding == <<Debit("Operating", 100), Credit("Sandbox Funding", 100)>>
           payroll == <<Debit("Employee A", 30), Debit("Employee B", 20), Credit("Operating", 50)>>
           payout == <<Debit("Marketplace Seller", 19), Debit("Platform Fees", 1),
                       Credit("Operating", 20)>>
           refused == <<Debit("Marketplace Seller", much), Credit("Employee A", much)>>
           reversed == <<Debit("Marketplace Seller", 4), Credit("Operating", 4)>>
           scenario(id, expect, reverse, legs) ==
             [id |-> id, expect |-> expect, reverseAfterPost |-> reverse, legs |-> legs]
<1>2. SeedScenarios = <<scenario("funding", "posted", FALSE, funding),
                        scenario("payroll", "posted", FALSE, payroll),
                        scenario("marketplace_payout", "posted", FALSE, payout),
                        scenario("insufficient_funds", "rejected", FALSE, refused),
                        scenario("reversal", "posted", TRUE, reversed)>>
  BY <1>1 DEF SeedScenarios
<1> HIDE DEF funding, payroll, payout, refused, reversed
<1> QED BY <1>2

\* The keys of the plan, of which no two end alike.
LEMMA PlanKeys ==
  /\ DOMAIN SeedPlan = 1..6
  /\ SeedPlan[1].key = <<"funding">> /\ SeedPlan[2].key = <<"payroll">>
  /\ SeedPlan[3].key = <<"marketplace_payout">> /\ SeedPlan[4].key = <<"insufficient_funds">>
  /\ SeedPlan[5].key = <<"reversal", "original">>
  /\ SeedPlan[6].key = <<"reversal", "reversal">>
<1> DEFINE s(n) == SeedScenarios[n]
<1>1. /\ ScenarioEntries(s(1)) = <<Original(s(1))>> /\ ScenarioEntries(s(2)) = <<Original(s(2))>>
      /\ ScenarioEntries(s(3)) = <<Original(s(3))>> /\ ScenarioEntries(s(4)) = <<Original(s(4))>>
      /\ ScenarioEntries(s(5)) = <<Original(s(5)), Undo(s(5))>>
  BY ScenariosAre DEF ScenarioEntries, Original, Undo
<1>2. /\ Original(s(1)).key = <<"funding">> /\ Original(s(2)).key = <<"payroll">>
      /\ Original(s(3)).key = <<"marketplace_payout">>
      /\ Original(s(4)).key = <<"insufficient_funds">>
      /\ Original(s(5)).key = <<"reversal", "original">>
      /\ Undo(s(5)).key = <<"reversal", "reversal">>
  BY ScenariosAre DEF Original, Undo, Planned, PostKey, ReversalKey
<1>3. /\ DOMAIN SeedPlan = 1..6
      /\ SeedPlan[1] = Original(s(1)) /\ SeedPlan[2] = Original(s(2))
      /\ SeedPlan[3] = Original(s(3)) /\ SeedPlan[4] = Original(s(4))
      /\ SeedPlan[5] = Original(s(5)) /\ SeedPlan[6] = Undo(s(5))
  <2>1. SeedPlan = <<Original(s(1))>> \o <<Original(s(2))>> \o <<Original(s(3))>>
                     \o <<Original(s(4))>> \o <<Original(s(5)), Undo(s(5))>>
    BY <1>1 DEF SeedPlan
  <2> QED BY <2>1, SixEntries
<1> HIDE DEF s
<1> QED BY <1>2, <1>3

\* What the keys of the plan are made of.
Words == {"funding", "payroll", "marketplace_payout", "insufficient_funds", "reversal", "original"}

LEMMA PlanKeysEnd ==
  \A n \in DOMAIN SeedPlan :
    /\ SeedPlan[n].key \in Seq(Words) /\ Len(SeedPlan[n].key) >= 1
    /\ \A m \in DOMAIN SeedPlan :
         SeedPlan[n].key[Len(SeedPlan[n].key)] = SeedPlan[m].key[Len(SeedPlan[m].key)] => m = n
<1> DEFINE key(n) == SeedPlan[n].key
           last(n) == key(n)[Len(key(n))]
<1>1. \A n \in 1..6 : key(n) \in Seq(Words) /\ Len(key(n)) >= 1
  <2>1. ASSUME NEW x \in Words, NEW y \in Words
        PROVE  /\ <<x>> \in Seq(Words) /\ Len(<<x>>) >= 1
               /\ <<x, y>> \in Seq(Words) /\ Len(<<x, y>>) >= 1
    <3>1. <<x>> \in Seq(Words)
      OBVIOUS
    <3>2. <<x, y>> \in Seq(Words)
      OBVIOUS
    <3>3. Len(<<x>>) >= 1 /\ Len(<<x, y>>) >= 1
      OBVIOUS
    <3> QED BY <3>1, <3>2, <3>3
  <2>2. /\ "funding" \in Words /\ "payroll" \in Words /\ "marketplace_payout" \in Words
        /\ "insufficient_funds" \in Words /\ "reversal" \in Words /\ "original" \in Words
    BY DEF Words
  <2>3. /\ key(1) = <<"funding">> /\ key(2) = <<"payroll">> /\ key(3) = <<"marketplace_payout">>
        /\ key(4) = <<"insufficient_funds">> /\ key(5) = <<"reversal", "original">>
        /\ key(6) = <<"reversal", "reversal">>
    BY PlanKeys
  <2>4. \A n \in 1..6 : n = 1 \/ n = 2 \/ n = 3 \/ n = 4 \/ n = 5 \/ n = 6
    OBVIOUS
  <2> HIDE DEF key
  <2> QED BY <2>1, <2>2, <2>3, <2>4
<1>2. /\ Len(key(1)) = 1 /\ Len(key(2)) = 1 /\ Len(key(3)) = 1 /\ Len(key(4)) = 1
      /\ Len(key(5)) = 2 /\ Len(key(6)) = 2
  BY PlanKeys
<1>3. /\ last(1) = "funding" /\ last(2) = "payroll" /\ last(3) = "marketplace_payout"
      /\ last(4) = "insufficient_funds" /\ last(5) = "original" /\ last(6) = "reversal"
  BY <1>2, PlanKeys
<1>4. \A m, n \in 1..6 : last(n) = last(m) => m = n
  <2> HIDE DEF last
  <2> QED BY <1>3
<1> QED BY <1>1, <1>4, PlanKeys

\* A sequence over a set is one over a larger set.
LEMMA LargerSeq ==
  ASSUME NEW A, NEW B, A \subseteq B, NEW s \in Seq(A)
  PROVE  s \in Seq(B)
OBVIOUS

\* The key of an entry of the plan under a run, and the names a run may have.
KeyUnder(run, n) == run \o SeedPlan[n].key
Runs == Seq(STRING)

\* A key under a run tells the run and the entry: no two keys of the plan end alike,
\* and what stands before the same ending is the same.
LEMMA SeedKeyTells ==
  ASSUME NEW s, NEW t, s \in Runs, t \in Runs,
         NEW m, NEW n, m \in DOMAIN SeedPlan, n \in DOMAIN SeedPlan,
         KeyUnder(s, m) = KeyUnder(t, n)
  PROVE  s = t /\ m = n
<1> DEFINE k == SeedPlan[m].key
           l == SeedPlan[n].key
<1>1. PICK S : S = STRING \cup Words
  OBVIOUS
<1>2. /\ k \in Seq(Words) /\ l \in Seq(Words) /\ Len(k) >= 1 /\ Len(l) >= 1
      /\ (k[Len(k)] = l[Len(l)] => m = n)
  BY PlanKeysEnd
<1>3. s \o k = t \o l
  BY DEF KeyUnder
<1> HIDE DEF k, l
<1>4. s \in Seq(S) /\ t \in Seq(S) /\ k \in Seq(S) /\ l \in Seq(S)
  BY <1>1, <1>2, LargerSeq DEF Runs
<1>5. Len(s) + Len(k) = Len(t) + Len(l)
  <2>1. Len(s \o k) = Len(s) + Len(k) /\ Len(t \o l) = Len(t) + Len(l)
    BY <1>4, ConcatProperties
  <2> QED BY <1>3, <2>1
<1>6. (s \o k)[Len(s) + Len(k)] = k[Len(k)] /\ (t \o l)[Len(t) + Len(l)] = l[Len(l)]
  BY <1>2, <1>4
<1>7. m = n
  BY <1>2, <1>3, <1>5, <1>6
<1>8. k = l
  BY <1>7 DEF k, l
<1>9. Len(s) = Len(t)
  BY <1>4, <1>5, <1>8
<1>10. \A i \in 1..Len(s) : s[i] = (s \o k)[i] /\ t[i] = (t \o l)[i]
  BY <1>4, <1>9
<1>11. s = t
  BY <1>3, <1>4, <1>9, <1>10, SeqEqual
<1> QED BY <1>7, <1>11

-----------------------------------------------------------------------------
LEMMA SeedEntryIs ==
  ASSUME NEW run, NEW n
  PROVE  /\ SeedEntry(run, n).key = run \o SeedPlan[n].key
         /\ SeedEntry(run, n).legs = SeedPlan[n].legs
         /\ SeedEntry(run, n).expect = SeedPlan[n].expect
BY DEF SeedEntry, Planned

LEMMA WorkKeyIs ==
  ASSUME AInv, NEW r \in Requests, pc[r] \in {"reserve", "lock"}
  PROVE  /\ Current(r).key = WorkKey(r)
         /\ cmd[r].op = "seed" =>
              /\ next[r] \in DOMAIN SeedPlan
              /\ Current(r).key = SeedEntry(cmd[r].key, next[r]).key
              /\ Current(r).legs = SeedEntry(cmd[r].key, next[r]).legs
              /\ Current(r).expect = SeedPlan[next[r]].expect
<1>1. cmd[r].op \in {"post", "exchange", "seed"}
  BY ScopeAssumption DEF AInv, IInv, Own, TypeOK
<1>2. CASE cmd[r].op = "seed"
  <2>1. next[r] \in DOMAIN SeedPlan
    BY <1>2, SeedPlanIs DEF AInv, Own
  <2>2. Current(r) = BuiltEntry(r)
    BY <1>2 DEF Current
  <2>3. /\ BuiltEntry(r).key = SeedEntry(cmd[r].key, next[r]).key
        /\ BuiltEntry(r).legs = SeedEntry(cmd[r].key, next[r]).legs
        /\ BuiltEntry(r).expect = SeedEntry(cmd[r].key, next[r]).expect
    BY SeedEntryIs DEF BuiltEntry, Entry
  <2>4. /\ SeedEntry(cmd[r].key, next[r]).key = cmd[r].key \o SeedPlan[next[r]].key
        /\ SeedEntry(cmd[r].key, next[r]).expect = SeedPlan[next[r]].expect
    BY SeedEntryIs
  <2>5. WorkKey(r) = cmd[r].key \o SeedPlan[next[r]].key
    BY <1>2 DEF WorkKey
  <2> QED BY <2>1, <2>2, <2>3, <2>4, <2>5
<1>3. CASE cmd[r].op = "exchange"
  BY <1>3 DEF Current, WorkKey, ExchangeEntry, Entry
<1>4. CASE cmd[r].op = "post"
  BY <1>4 DEF Current, WorkKey, Entry
<1> QED BY <1>1, <1>2, <1>3, <1>4

\* Key and legs are all that a set of rows holds of an entry.
LEMMA StandsAlike ==
  ASSUME NEW S, NEW e, NEW f, e.key = f.key, e.legs = f.legs
  PROVE  StandsIn(S, e) <=> StandsIn(S, f)
BY DEF StandsIn

\* The rows of an entry hold that entry, and no other but one of its key and legs.
LEMMA NewRows ==
  ASSUME NEW r, NEW e, 1 \in DOMAIN e.legs
  PROVE  /\ Keys(RowsOf(r, e)) = {e.key}
         /\ StandsIn(RowsOf(r, e), e)
         /\ \A f : StandsIn(RowsOf(r, e), f) =>
              f.key = e.key /\ {f.legs[i] : i \in DOMAIN f.legs} = {e.legs[i] : i \in DOMAIN e.legs}
<1> DEFINE new == RowsOf(r, e)
           row(i) == [key |-> e.key, leg |-> i, by |-> r, legs |-> e.legs[i],
                      delta |-> Deltas(e.legs[i]), currency |-> e.currencies[i],
                      reverses |-> e.reverses]
<1>1. new = {row(i) : i \in DOMAIN e.legs}
  BY DEF RowsOf
<1>2. \A i \in DOMAIN e.legs : row(i) \in new /\ row(i).key = e.key /\ row(i).legs = e.legs[i]
  BY <1>1
<1>3. \A x \in new : \E i \in DOMAIN e.legs : x = row(i) /\ x.key = e.key /\ x.legs = e.legs[i]
  BY <1>1
<1> HIDE DEF row, new
<1>4. Keys(new) = {e.key}
  BY <1>2, <1>3 DEF Keys
<1>5. {x.legs : x \in {y \in new : y.key = e.key}} = {e.legs[i] : i \in DOMAIN e.legs}
  BY <1>2, <1>3
<1>6. StandsIn(new, e)
  BY <1>2, <1>5 DEF StandsIn, HasKey
<1>7. ASSUME NEW f, StandsIn(new, f)
      PROVE  /\ f.key = e.key
             /\ {f.legs[i] : i \in DOMAIN f.legs} = {e.legs[i] : i \in DOMAIN e.legs}
  <2>1. f.key = e.key
    BY <1>3, <1>7 DEF StandsIn, HasKey
  <2>2. {x.legs : x \in {y \in new : y.key = f.key}} = {f.legs[i] : i \in DOMAIN f.legs}
    BY <1>7 DEF StandsIn
  <2> QED BY <1>5, <2>1, <2>2
<1> QED BY <1>4, <1>6, <1>7 DEF new

-----------------------------------------------------------------------------
(* What each step does to the keys and the order.                          *)

\* A request that posts nothing new and takes no key.
LEMMA QuietOrder ==
  ASSUME OInv, NEW r \in Requests, \A q \in Requests \ {r} : Same(q),
         ledger' = ledger, rows'[r] = rows[r] \/ rows'[r] = {},
         pc'[r] = "lock" => pc[r] = "lock" /\ cmd'[r] = cmd[r] /\ next'[r] = next[r],
         SeedSoFar(r)'
  PROVE  KeysApart' /\ Ordered'
<1> USE DEF OInv
<1>1. \A q \in Requests \ {r} : WorkKey(q)' = WorkKey(q)
  BY DEF WorkKey, Same
<1>2. pc'[r] = "lock" => WorkKey(r)' = WorkKey(r)
  BY DEF WorkKey
<1>3. \A q \in Requests : rows'[q] = rows[q] \/ rows'[q] = {}
  BY DEF Same
<1>4. \A q \in Requests : Keys(rows'[q]) \subseteq Keys(rows[q])
  BY <1>3 DEF Keys
<1>5. \A q \in Requests : pc'[q] = "lock" => pc[q] = "lock" /\ WorkKey(q)' = WorkKey(q)
  BY <1>1, <1>2 DEF Same
<1>6. KeysApart'
  BY <1>4, <1>5 DEF KeysApart
<1>7. ASSUME NEW q \in Requests PROVE InOrder(ledger' \cup rows'[q])
  <2>1. InOrder(ledger) /\ InOrder(ledger \cup rows[q])
    BY DEF Ordered
  <2>2. ledger \cup {} = ledger
    OBVIOUS
  <2> QED BY <1>3, <2>1, <2>2
<1>8. ASSUME NEW q \in Requests \ {r} PROVE SeedSoFar(q)'
  <2>1. SeedSoFar(q)
    BY DEF Ordered
  <2>2. cmd'[q] = cmd[q] /\ pc'[q] = pc[q] /\ next'[q] = next[q] /\ rows'[q] = rows[q]
    BY DEF Same
  <2> QED BY <2>1, <2>2 DEF SeedSoFar
<1>9. Ordered'
  BY <1>7, <1>8 DEF Ordered
<1> QED BY <1>6, <1>9

\* The end of an entry that is there, or that a seed passes over.
LEMMA AdvanceSoFar ==
  ASSUME OInv, NEW r \in Requests, Advance(r), pc[r] \in {"reserve", "lock"}, cmd' = cmd,
         \A row \in rows'[r] \ rows[r] : row.key = WorkKey(r),
         \A e : StandsIn(ledger \cup rows[r], e) => StandsIn(ledger' \cup rows'[r], e),
         cmd[r].op = "seed" /\ Current(r).expect = "posted" =>
           StandsIn(ledger' \cup rows'[r], Current(r))
  PROVE  SeedSoFar(r)' /\ pc'[r] # "lock"
<1>1. pc'[r] # "lock"
  BY DEF Advance, Goto, OInv, AInv, IInv, TypeOK
<1>2. ASSUME pc'[r] \in {"reserve", "lock"}, cmd[r].op = "seed"
      PROVE  /\ \A row \in rows'[r] :
                  \E m \in 1..next'[r] - 1 : row.key = cmd[r].key \o SeedPlan[m].key
             /\ \A m \in 1..next'[r] - 1 :
                  SeedPlan[m].expect = "posted" =>
                    StandsIn(ledger' \cup rows'[r], SeedEntry(cmd[r].key, m))
  <2>1. next'[r] = next[r] + 1
    BY <1>2 DEF Advance, Goto, Say, OInv, AInv, IInv, TypeOK, Shape
  <2>2. /\ next[r] \in DOMAIN SeedPlan
        /\ Current(r).key = SeedEntry(cmd[r].key, next[r]).key
        /\ Current(r).legs = SeedEntry(cmd[r].key, next[r]).legs
        /\ Current(r).expect = SeedPlan[next[r]].expect
    BY <1>2, WorkKeyIs DEF OInv
  <2>3. next[r] \in Nat
    BY <2>2, SeedPlanIs
  <2>4. StandsIn(ledger' \cup rows'[r], Current(r))
          => StandsIn(ledger' \cup rows'[r], SeedEntry(cmd[r].key, next[r]))
    BY <2>2, StandsAlike
  <2>5. WorkKey(r) = cmd[r].key \o SeedPlan[next[r]].key
    BY <1>2 DEF WorkKey
  <2>6. SeedSoFar(r)
    BY DEF OInv, Ordered
  <2>7. \A m \in 1..next'[r] - 1 : m \in 1..next[r] - 1 \/ m = next[r]
    BY <2>1, <2>3
  <2>8. 1..next[r] - 1 \subseteq 1..next'[r] - 1 /\ next[r] \in 1..next'[r] - 1
    BY <2>1, <2>2, <2>3, SeedPlanIs
  <2>9. ASSUME NEW row \in rows'[r]
        PROVE  \E m \in 1..next'[r] - 1 : row.key = cmd[r].key \o SeedPlan[m].key
    BY <1>2, <2>5, <2>6, <2>8 DEF SeedSoFar
  <2>10. ASSUME NEW m \in 1..next'[r] - 1, SeedPlan[m].expect = "posted"
         PROVE  StandsIn(ledger' \cup rows'[r], SeedEntry(cmd[r].key, m))
    <3>1. CASE m = next[r]
      BY <1>2, <2>2, <2>4, <2>10, <3>1
    <3>2. CASE m \in 1..next[r] - 1
      BY <1>2, <2>6, <2>10, <3>2 DEF SeedSoFar
    <3> QED BY <2>7, <3>1, <3>2
  <2> QED BY <2>9, <2>10
<1>3. SeedSoFar(r)'
  <2>1. cmd'[r] = cmd[r]
    OBVIOUS
  <2>2. (pc[r] \in {"reserve", "lock"})' = (pc'[r] \in {"reserve", "lock"})
    OBVIOUS
  <2> QED BY <1>2, <2>1, <2>2 DEF SeedSoFar
<1> QED BY <1>1, <1>3

LEMMA ReserveKeyOrder ==
  ASSUME OInv, NEW r \in Requests, \A q \in Requests \ {r} : Same(q), ReserveKey(r)
  PROVE  KeysApart' /\ Ordered'
<1> USE DEF OInv
<1>1. /\ pc[r] = "reserve" /\ pc'[r] = "lock"
      /\ ~HasKey(ledger, Current(r).key) /\ KeyHolders(r, Current(r).key) = {}
      /\ UNCHANGED <<ledger, cmd, next, rows>>
  BY DEF ReserveKey, committed, Goto, AInv, IInv, TypeOK
<1>2. Current(r).key = WorkKey(r)
  BY <1>1, WorkKeyIs
<1>3. WorkKey(r) \notin Keys(ledger)
  BY <1>1, <1>2 DEF HasKey, Keys
<1>4. ASSUME NEW q \in Requests \ {r}
      PROVE  WorkKey(r) \notin Keys(rows[q]) /\ (pc[q] = "lock" => WorkKey(q) # WorkKey(r))
  <2>1. ~HasKey(rows[q], WorkKey(r)) /\ ~(pc[q] = "lock" /\ Current(q).key = WorkKey(r))
    BY <1>1, <1>2 DEF KeyHolders
  <2>2. pc[q] = "lock" => Current(q).key = WorkKey(q)
    BY WorkKeyIs
  <2> QED BY <2>1, <2>2 DEF HasKey, Keys
<1>5. \A q \in Requests : WorkKey(q)' = WorkKey(q)
  BY <1>1 DEF WorkKey
<1>6. \A q \in Requests \ {r} : pc'[q] = pc[q]
  BY DEF Same
<1>7. KeysApart'
  BY <1>1, <1>3, <1>4, <1>5, <1>6 DEF KeysApart
<1>8. ASSUME NEW q \in Requests PROVE SeedSoFar(q)'
  BY <1>1, <1>6 DEF Ordered, SeedSoFar
<1>9. Ordered'
  BY <1>1, <1>8 DEF Ordered
<1> QED BY <1>7, <1>9

LEMMA ReplayEntryOrder ==
  ASSUME OInv, NEW r \in Requests, \A q \in Requests \ {r} : Same(q), ReplayEntry(r)
  PROVE  KeysApart' /\ Ordered'
<1>1. /\ pc[r] = "reserve" /\ Advance(r) /\ HasKey(ledger, Current(r).key)
      /\ SameRequest(Current(r).key, Current(r)) /\ UNCHANGED <<ledger, cmd, rows>>
  BY DEF ReplayEntry, committed
<1>2. StandsIn(ledger, Current(r))
  BY <1>1 DEF StandsIn, SameRequest
<1>3. Keys(ledger) \cap Keys(rows[r]) = {}
  BY DEF OInv, KeysApart
<1>4. StandsIn(ledger \cup rows[r], Current(r))
  BY <1>2, <1>3, StandsApart
<1>5. SeedSoFar(r)' /\ pc'[r] # "lock"
  BY <1>1, <1>4, AdvanceSoFar
<1> QED BY <1>1, <1>5, QuietOrder

LEMMA RefuseEntryOrder ==
  ASSUME OInv, NEW r \in Requests, \A q \in Requests \ {r} : Same(q), RefuseEntry(r)
  PROVE  KeysApart' /\ Ordered'
<1>1. pc[r] = "lock" /\ UNCHANGED <<ledger, cmd, rows>>
  BY DEF RefuseEntry, committed
<1>2. \/ pc'[r] = "commit"
      \/ Advance(r) /\ Current(r).expect # "posted"
  BY DEF RefuseEntry, Goto, OInv, AInv, IInv, TypeOK
<1>3. CASE pc'[r] = "commit"
  <2>1. SeedSoFar(r)'
    BY <1>3 DEF SeedSoFar
  <2> QED BY <1>1, <1>3, <2>1, QuietOrder
<1>4. CASE Advance(r) /\ Current(r).expect # "posted"
  <2>1. SeedSoFar(r)' /\ pc'[r] # "lock"
    BY <1>1, <1>4, AdvanceSoFar
  <2> QED BY <1>1, <2>1, QuietOrder
<1> QED BY <1>2, <1>3, <1>4

\* The key of the entry that is posted is nobody's, and only its own seed has an
\* entry that it would hold.
LEMMA PostEntryOrder ==
  ASSUME OInv, NEW r \in Requests, \A q \in Requests \ {r} : Same(q), PostEntry(r)
  PROVE  KeysApart' /\ Ordered'
<1> DEFINE e == Current(r)
           new == RowsOf(r, e)
           here == ledger \cup rows[r]
<1>1. /\ pc[r] = "lock" /\ Advance(r) /\ rows'[r] = rows[r] \cup new
      /\ UNCHANGED <<ledger, cmd>>
  BY DEF PostEntry, committed, OInv, AInv, IInv, Shape
<1>2. 1 \in DOMAIN e.legs
  BY <1>1, CurrentIs DEF OInv
<1>3. /\ Keys(new) = {e.key} /\ StandsIn(new, e)
      /\ \A f : StandsIn(new, f) =>
           f.key = e.key /\ {f.legs[i] : i \in DOMAIN f.legs} = {e.legs[i] : i \in DOMAIN e.legs}
  BY <1>2, NewRows
<1>4. e.key = WorkKey(r)
  BY <1>1, WorkKeyIs DEF OInv
<1>5. /\ WorkKey(r) \notin Keys(ledger)
      /\ \A q \in Requests \ {r} :
           WorkKey(r) \notin Keys(rows[q]) /\ (pc[q] = "lock" => WorkKey(q) # WorkKey(r))
  BY <1>1 DEF OInv, KeysApart
<1>6. cmd[r] \in Commands /\ cmd[r].op \in {"post", "exchange", "seed"}
  BY <1>1, ScopeAssumption DEF OInv, AInv, IInv, Own, TypeOK
<1>7. cmd[r].op = "seed" =>
        next[r] \in DOMAIN SeedPlan /\ e.legs = SeedEntry(cmd[r].key, next[r]).legs
        /\ WorkKey(r) = cmd[r].key \o SeedPlan[next[r]].key /\ cmd[r].key \in Seq(STRING)
  BY <1>1, <1>6, WorkKeyIs, SeedKeysAssumption DEF OInv, WorkKey
<1>8. WorkKey(r) \notin Keys(rows[r])
  <2>1. CASE cmd[r].op = "seed"
    <3>1. \A row \in rows[r] : \E m \in 1..next[r] - 1 : row.key = cmd[r].key \o SeedPlan[m].key
      BY <1>1, <2>1 DEF OInv, Ordered, SeedSoFar
    <3>2. \A m \in 1..next[r] - 1 : m \in DOMAIN SeedPlan /\ m # next[r]
      BY <1>7, <2>1, SeedPlanIs
    <3>3. ASSUME NEW m \in 1..next[r] - 1, cmd[r].key \o SeedPlan[m].key = WorkKey(r)
          PROVE  FALSE
      <4>1. /\ cmd[r].key \in Runs /\ next[r] \in DOMAIN SeedPlan
            /\ KeyUnder(cmd[r].key, m) = KeyUnder(cmd[r].key, next[r])
        BY <1>7, <2>1, <3>3 DEF KeyUnder, Runs
      <4>2. m \in DOMAIN SeedPlan /\ m # next[r]
        BY <3>2
      <4>3. m = next[r]
        BY <4>1, <4>2, SeedKeyTells
      <4> QED BY <4>2, <4>3
    <3> QED BY <3>1, <3>3 DEF Keys
  <2>2. CASE cmd[r].op # "seed"
    BY <1>1, <2>2 DEF OInv, AInv, Own, Keys
  <2> QED BY <2>1, <2>2
<1> HIDE DEF e, new
<1>9. Keys(here) \cap Keys(new) = {}
  BY <1>3, <1>4, <1>5, <1>8 DEF Keys
<1>10. \A f : /\ StandsIn(here, f) => StandsIn(here \cup new, f)
              /\ StandsIn(new, f) => StandsIn(here \cup new, f)
  BY <1>9, StandsApart
<1>11. ledger' \cup rows'[r] = here \cup new
  BY <1>1
<1>12. SeedSoFar(r)' /\ pc'[r] # "lock"
  <2>1. \A row \in rows'[r] \ rows[r] : row.key = WorkKey(r)
    BY <1>1, <1>3, <1>4 DEF Keys
  <2>2. StandsIn(ledger' \cup rows'[r], Current(r))
    BY <1>3, <1>10, <1>11 DEF e
  <2> QED BY <1>1, <1>10, <1>11, <2>1, <2>2, AdvanceSoFar
<1>13. InOrder(here \cup new)
  <2>1. ASSUME NEW c \in {x \in Commands : x.op = "seed"},
               NEW m \in DOMAIN SeedPlan, NEW n \in DOMAIN SeedPlan,
               m < n, SeedPlan[m].expect = "posted", StandsIn(new, SeedEntry(c.key, n))
        PROVE  StandsIn(here, SeedEntry(c.key, m))
    <3>1. SeedEntry(c.key, n).key = c.key \o SeedPlan[n].key
          /\ SeedEntry(c.key, n).legs = SeedPlan[n].legs
      BY SeedEntryIs
    <3>2. c.key \o SeedPlan[n].key = WorkKey(r)
      BY <1>3, <1>4, <2>1, <3>1
    <3>3. c.key \in Seq(STRING)
      BY SeedKeysAssumption
    <3>4. CASE cmd[r].op = "seed"
      <4>1. cmd[r].key = c.key /\ n = next[r]
        <5>1. /\ cmd[r].key \in Runs /\ c.key \in Runs /\ next[r] \in DOMAIN SeedPlan
              /\ KeyUnder(c.key, n) = KeyUnder(cmd[r].key, next[r])
          BY <1>7, <3>2, <3>3, <3>4 DEF KeyUnder, Runs
        <5> QED BY <5>1, SeedKeyTells
      <4>2. m \in 1..next[r] - 1
        BY <2>1, <4>1, SeedPlanIs
      <4> QED BY <1>1, <2>1, <3>4, <4>1, <4>2 DEF OInv, Ordered, SeedSoFar
    <3>5. CASE cmd[r].op # "seed"
      <4>1. cmd[r].key = c.key \o SeedPlan[n].key
        BY <3>2, <3>5 DEF WorkKey
      <4>2. cmd[r].op = "post" /\ cmd[r].legs # SeedPlan[n].legs[1]
        BY <1>6, <3>5, <4>1, SeedKeysAssumption
      <4>3. e.legs = <<cmd[r].legs>>
        BY <4>2 DEF e, Current, Entry
      <4>4. {e.legs[i] : i \in DOMAIN e.legs} = {cmd[r].legs}
        BY <4>3
      <4>5. DOMAIN SeedPlan[n].legs = {1}
        BY SeedPlanIs
      <4>6. {SeedPlan[n].legs[i] : i \in DOMAIN SeedPlan[n].legs} = {SeedPlan[n].legs[1]}
        BY <4>5
      <4>7. {SeedPlan[n].legs[i] : i \in DOMAIN SeedPlan[n].legs} = {cmd[r].legs}
        <5>1. PICK f : f = SeedEntry(c.key, n)
          OBVIOUS
        <5>2. StandsIn(new, f) /\ f.legs = SeedPlan[n].legs
          BY <2>1, <3>1, <5>1
        <5>3. {f.legs[i] : i \in DOMAIN f.legs} = {e.legs[i] : i \in DOMAIN e.legs}
          BY <1>3, <5>2
        <5> QED BY <4>4, <5>2, <5>3
      <4>8. SeedPlan[n].legs[1] \in {cmd[r].legs}
        BY <4>6, <4>7
      <4> QED BY <4>2, <4>8
    <3> QED BY <3>4, <3>5
  <2>2. InOrder(here)
    BY DEF OInv, Ordered
  <2> QED BY <1>9, <2>1, <2>2, OrderGrows
<1>14. KeysApart'
  <2>1. \A q \in Requests \ {r} : pc'[q] = pc[q] /\ rows'[q] = rows[q] /\ WorkKey(q)' = WorkKey(q)
    BY DEF Same, WorkKey
  <2>2. Keys(rows'[r]) = Keys(rows[r]) \cup {WorkKey(r)}
    BY <1>1, <1>3, <1>4 DEF Keys
  <2>3. ledger' = ledger
    BY <1>1
  <2> QED BY <1>5, <1>12, <2>1, <2>2, <2>3 DEF OInv, KeysApart
<1>15. Ordered'
  <2>1. ASSUME NEW q \in Requests \ {r} PROVE InOrder(ledger' \cup rows'[q]) /\ SeedSoFar(q)'
    <3>1. InOrder(ledger \cup rows[q]) /\ SeedSoFar(q)
      BY DEF OInv, Ordered
    <3>2. cmd'[q] = cmd[q] /\ pc'[q] = pc[q] /\ next'[q] = next[q] /\ rows'[q] = rows[q]
          /\ ledger' = ledger
      BY <1>1 DEF Same
    <3> QED BY <3>1, <3>2 DEF SeedSoFar
  <2>2. InOrder(ledger')
    BY <1>1 DEF OInv, Ordered
  <2> QED BY <1>11, <1>12, <1>13, <2>1, <2>2 DEF Ordered
<1> QED BY <1>14, <1>15

\* What a request commits is in order with what is there and with what others are
\* about to commit.
LEMMA CommitOrder ==
  ASSUME OInv, NEW r \in Requests, \A q \in Requests \ {r} : Same(q), Commit(r)
  PROVE  KeysApart' /\ Ordered'
<1> DEFINE new == Written(r)
<1>1. /\ pc'[r] = "done" /\ ledger' = ledger \cup new /\ rows'[r] = {}
  BY DEF Commit, Discard, Goto, Written, OInv, AInv, IInv, TypeOK, Shape
<1>2. new = rows[r] \/ new = {}
  BY DEF Written
<1> HIDE DEF new
<1>3. \A q \in Requests \ {r} :
        /\ cmd'[q] = cmd[q] /\ pc'[q] = pc[q] /\ next'[q] = next[q] /\ rows'[q] = rows[q]
        /\ WorkKey(q)' = WorkKey(q)
  BY DEF Same, WorkKey
<1>4. Keys(new) \subseteq Keys(rows[r]) /\ Keys(ledger') = Keys(ledger) \cup Keys(new)
  BY <1>1, <1>2 DEF Keys
<1>5. Keys(rows'[r]) = {}
  BY <1>1 DEF Keys
<1>6. KeysApart'
  <2>1. ASSUME NEW p \in Requests, NEW q \in Requests \ {p}
        PROVE  Keys(rows'[q]) \cap Keys(rows'[p]) = {}
    <3>1. Keys(rows[q]) \cap Keys(rows[p]) = {}
      BY DEF OInv, KeysApart
    <3> QED BY <1>3, <1>5, <3>1
  <2>2. ASSUME NEW p \in Requests PROVE Keys(rows'[p]) \cap Keys(ledger') = {}
    <3>1. CASE p = r
      BY <1>5, <3>1
    <3>2. CASE p # r
      <4>1. Keys(rows[p]) \cap Keys(ledger) = {} /\ Keys(rows[p]) \cap Keys(rows[r]) = {}
        BY <3>2 DEF OInv, KeysApart
      <4> QED BY <1>3, <1>4, <3>2, <4>1
    <3> QED BY <3>1, <3>2
  <2>3. ASSUME NEW p \in Requests, pc'[p] = "lock"
        PROVE  /\ WorkKey(p)' \notin Keys(ledger')
               /\ \A q \in Requests \ {p} :
                    /\ WorkKey(p)' \notin Keys(rows'[q])
                    /\ pc'[q] = "lock" => WorkKey(q)' # WorkKey(p)'
    <3>1. p # r /\ pc[p] = "lock" /\ WorkKey(p)' = WorkKey(p)
      BY <1>1, <1>3, <2>3
    <3>2. /\ WorkKey(p) \notin Keys(ledger) /\ WorkKey(p) \notin Keys(rows[r])
          /\ \A q \in Requests \ {p} :
               WorkKey(p) \notin Keys(rows[q]) /\ (pc[q] = "lock" => WorkKey(q) # WorkKey(p))
      BY <3>1 DEF OInv, KeysApart
    <3>3. WorkKey(p) \notin Keys(ledger')
      BY <1>4, <3>2
    <3>4. ASSUME NEW q \in Requests \ {p}
          PROVE  /\ WorkKey(p) \notin Keys(rows'[q])
                 /\ pc'[q] = "lock" => WorkKey(q)' # WorkKey(p)
      <4>1. CASE q = r
        BY <1>1, <1>5, <4>1
      <4>2. CASE q # r
        BY <1>3, <3>2, <4>2
      <4> QED BY <4>1, <4>2
    <3> QED BY <3>1, <3>3, <3>4
  <2> QED BY <2>1, <2>2, <2>3 DEF KeysApart
<1>7. InOrder(ledger')
  <2>1. ledger \cup {} = ledger
    OBVIOUS
  <2> QED BY <1>1, <1>2, <2>1 DEF OInv, Ordered
<1>8. ASSUME NEW q \in Requests \ {r} PROVE InOrder(ledger' \cup rows'[q]) /\ SeedSoFar(q)'
  <2>1. /\ Keys(ledger) \cap Keys(new) = {} /\ Keys(ledger) \cap Keys(rows[q]) = {}
        /\ Keys(new) \cap Keys(rows[q]) = {}
    BY <1>4 DEF OInv, KeysApart
  <2>2. InOrder(ledger \cup rows[q]) /\ SeedSoFar(q)
    BY DEF OInv, Ordered
  <2>3. InOrder(ledger \cup new)
    BY <1>1, <1>7
  <2>4. InOrder((ledger \cup new) \cup rows[q])
    BY <2>1, <2>2, <2>3, OrderJoins
  <2>5. InOrder(ledger' \cup rows'[q])
    BY <1>1, <1>3, <2>4
  <2>6. Keys(ledger \cup rows[q]) \cap Keys(new) = {}
    BY <2>1 DEF Keys
  <2>7. \A e : StandsIn(ledger \cup rows[q], e) => StandsIn((ledger \cup rows[q]) \cup new, e)
    BY <2>6, StandsApart
  <2>8. (ledger \cup rows[q]) \cup new = ledger' \cup rows'[q]
    BY <1>1, <1>3
  <2>9. \A e : StandsIn(ledger \cup rows[q], e) => StandsIn(ledger' \cup rows'[q], e)
    BY <2>7, <2>8
  <2>10. SeedSoFar(q)'
    <3>1. pc'[q] = pc[q] /\ cmd'[q] = cmd[q] /\ next'[q] = next[q] /\ rows'[q] = rows[q]
      BY <1>3
    <3> HIDE DEF new
    <3> QED BY <2>2, <2>9, <3>1 DEF SeedSoFar
  <2> QED BY <2>5, <2>10
<1>9. InOrder(ledger' \cup rows'[r]) /\ SeedSoFar(r)'
  <2>1. ledger' \cup {} = ledger'
    OBVIOUS
  <2> QED BY <1>1, <1>7, <2>1 DEF SeedSoFar
<1>10. Ordered'
  BY <1>7, <1>8, <1>9 DEF Ordered
<1> QED BY <1>6, <1>10

\* Arrival, accounts, locks and failures post nothing.
LEMMA OtherStepsOrder ==
  ASSUME OInv, NEW r \in Requests, \A q \in Requests \ {r} : Same(q),
         \/ Begin(r) \/ FindAccounts(r) \/ OpenAccount(r) \/ LoseNameRace(r) \/ StartPosting(r)
         \/ ScenarioThrows(r) \/ KeyConflict(r) \/ LockAccount(r) \/ BreakDeadlock(r) \/ Crash(r)
  PROVE  KeysApart' /\ Ordered'
<1> USE DEF OInv, AInv, IInv, Shape, committed
<1>1. CASE Begin(r) \/ FindAccounts(r) \/ OpenAccount(r) \/ LoseNameRace(r) \/ KeyConflict(r)
           \/ BreakDeadlock(r) \/ ScenarioThrows(r)
  <2>1. ledger' = ledger /\ rows' = rows /\ pc'[r] \in {"find", "commit"}
    <3>1. CASE Begin(r)
      BY <3>1 DEF Begin, Goto, TypeOK
    <3>2. CASE FindAccounts(r) \/ OpenAccount(r)
      BY <3>2 DEF FindAccounts, OpenAccount
    <3>3. CASE LoseNameRace(r) \/ KeyConflict(r) \/ BreakDeadlock(r) \/ ScenarioThrows(r)
      BY <3>3 DEF LoseNameRace, KeyConflict, BreakDeadlock, ScenarioThrows, Goto, TypeOK
    <3> HIDE DEF OInv, AInv, IInv
    <3> QED BY <1>1, <3>1, <3>2, <3>3
  <2>2. SeedSoFar(r)'
    BY <2>1 DEF SeedSoFar
  <2> HIDE DEF OInv, AInv, IInv
  <2> QED BY <2>1, <2>2, QuietOrder
<1>2. CASE Crash(r)
  <2>1. ledger' = ledger /\ rows'[r] = {} /\ pc'[r] = "done"
    BY <1>2 DEF Crash, Discard, Goto, TypeOK
  <2>2. SeedSoFar(r)'
    BY <2>1 DEF SeedSoFar
  <2> HIDE DEF OInv, AInv, IInv
  <2> QED BY <2>1, <2>2, QuietOrder
<1>3. CASE StartPosting(r)
  <2>1. /\ pc[r] = "find" /\ UNCHANGED <<ledger, rows, next, cmd>>
        /\ pc'[r] \in {"commit", "reserve"}
    BY <1>3 DEF StartPosting, Goto, TypeOK
  <2>2. rows[r] = {} /\ next[r] = 1
    BY <2>1 DEF Own
  <2>3. SeedSoFar(r)'
    BY <2>1, <2>2 DEF SeedSoFar
  <2> HIDE DEF OInv, AInv, IInv
  <2> QED BY <2>1, <2>3, QuietOrder
<1>4. CASE LockAccount(r)
  <2>1. pc[r] = "lock" /\ UNCHANGED <<ledger, rows, next, cmd, pc>>
    BY <1>4 DEF LockAccount
  <2>2. SeedSoFar(r)'
    BY <2>1 DEF SeedSoFar, Ordered
  <2> HIDE DEF OInv, AInv, IInv
  <2> QED BY <2>1, <2>2, QuietOrder
<1> QED BY <1>1, <1>2, <1>3, <1>4

LEMMA NextOInv == OInv /\ [Next]_vars => OInv'
<1> SUFFICES ASSUME OInv, [Next]_vars PROVE OInv'
  OBVIOUS
<1>1. AInv'
  BY NextAInv DEF OInv
<1>2. CASE Idle
  <2>1. UNCHANGED <<ledger, cmd, pc, next, rows>>
    BY <1>2 DEF Idle, work
  <2>2. KeysApart' /\ Ordered'
    BY <2>1 DEF OInv, KeysApart, Ordered, SeedSoFar, WorkKey
  <2> QED BY <1>1, <2>2 DEF OInv
<1>3. CASE ~Idle
  <2>1. PICK r \in Requests : Begin(r) \/ Step(r) \/ Crash(r)
    BY <1>3, NextIs
  <2>2. \A q \in Requests \ {r} : Same(q)
    BY <2>1, StepIsOwn DEF OInv
  <2>3. KeysApart' /\ Ordered'
    BY <2>1, <2>2, ReserveKeyOrder, ReplayEntryOrder, RefuseEntryOrder, PostEntryOrder,
       CommitOrder, OtherStepsOrder DEF Step
  <2> QED BY <1>1, <2>3 DEF OInv
<1> QED BY <1>2, <1>3

LEMMA InitOInv == Init => OInv
<1> SUFFICES ASSUME Init PROVE OInv
  OBVIOUS
<1>1. KeysApart
  BY DEF Init, KeysApart, Keys
<1>2. \A r \in Requests : ledger \cup rows[r] = ledger /\ SeedSoFar(r)
  BY DEF Init, SeedSoFar
<1>3. Ordered
  BY <1>2, SeedKeysAssumption DEF Init, Ordered
<1> QED BY <1>1, <1>3, InitAInv DEF OInv

\* An interrupted seed, retried or not, leaves a prefix of its scenarios, however its
\* postings interleave with those of others: what it posts next comes after all that
\* stands before it, and its keys are nobody else's.
THEOREM SeedsStayInOrder == Spec => []SeedInOrder
<1>1. OInv => SeedInOrder
  BY DEF OInv, Ordered, SeedInOrder
<1> QED BY InitOInv, NextOInv, <1>1, PTL DEF Spec
===============================================================================
