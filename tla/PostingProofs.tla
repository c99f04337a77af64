---------------------------- MODULE PostingProofs ----------------------------
(***************************************************************************)
(* Proofs, for every value of the constants, that the posting routine      *)
(* keeps its inductive invariant IInv, and what follows from it.           *)
(***************************************************************************)
EXTENDS Posting, SumLemmas, TLAPS

\* The mirror of a persisted row is again a balanced leg.
LEMMA MirrorType ==
  ASSUME NEW row \in Row
  PROVE  /\ Mirror(row) \in Leg
         /\ Mirror(row).reverses = row.id
<1> DEFINE d == [a \in AccountIds |-> -row.leg.delta[a]]
<1>1. /\ row.leg \in Leg
      /\ row.id \in TxId
  BY DEF Row
<1>2. d \in [AccountIds -> Int]
  BY <1>1 DEF Leg
<1>3. \A a \in AccountIds \ row.leg.touches : d[a] = 0
  BY <1>1 DEF Leg
<1>4. Mirror(row) = [currency |-> row.leg.currency, touches |-> row.leg.touches,
                     delta |-> d, reverses |-> row.id]
  BY DEF Mirror
<1> HIDE DEF d
<1> QED BY <1>1, <1>2, <1>3, <1>4 DEF Leg

\* A reversal is one mirror or two, of distinct committed rows.
LEMMA ReversalLegsType ==
  ASSUME ledger \subseteq Row, NEW named \in ledger, NEW seen
  PROVE  ReversalLegs(named, seen) \in LegList
<1>1. ASSUME NEW x \in Leg PROVE <<x>> \in LegList
  BY DEF LegList
<1>2. ASSUME NEW x \in Leg, NEW y \in Leg PROVE <<x, y>> \in LegList
  BY DEF LegList
<1>3. Mirror(named) \in Leg
  BY MirrorType
<1>4. CASE Counterparts(named) = {}
  BY <1>1, <1>3, <1>4 DEF ReversalLegs
<1>5. CASE Counterparts(named) # {}
  <2> DEFINE other == CHOOSE x \in Counterparts(named) : TRUE
  <2>1. other \in Counterparts(named)
    BY <1>5
  <2>2. other \in Row
    BY <2>1 DEF Counterparts
  <2>3. Mirror(other) \in Leg
    BY <2>2, MirrorType
  <2> HIDE DEF other
  <2>4. \/ ReversalLegs(named, seen) = <<Mirror(named)>>
        \/ ReversalLegs(named, seen) = <<Mirror(named), Mirror(other)>>
        \/ ReversalLegs(named, seen) = <<Mirror(other), Mirror(named)>>
    BY <1>5 DEF ReversalLegs, other
  <2> QED BY <1>1, <1>2, <1>3, <2>3, <2>4
<1> QED BY <1>4, <1>5
-----------------------------------------------------------------------------
(* The steps, with every rollback taken as one. *)

Drops(r) ==
  /\ pc[r] \notin {"idle", "done"}
  /\ Discard(r)
  /\ \/ \E reason \in Refusals : Tell(r, reason, NoTx) /\ Goto(r, "audit")
     \/ Tell(r, "failed", NoTx) /\ Goto(r, "done")
  /\ UNCHANGED <<committed, cmd>>

PassesChecks(r) ==
  /\ pc[r] = "lock"
  /\ locked[r] = Needed(r)
  /\ Needed(r) = Existing(r)
  /\ \A a \in Needed(r) : active[a]
  /\ Goto(r, "apply")
  /\ UNCHANGED <<committed, cmd, uncommitted, answer>>

RequestStep(r) ==
  \/ \E c \in Command : Begin(r, c)
  \/ ReserveFresh(r)
  \/ Replay(r)
  \/ Conflict(r)
  \/ \E a \in Accounts : LockRow(r, a)
  \/ PassesChecks(r)
  \/ ApplyLeg(r)
  \/ BackfillKey(r)
  \/ Commit(r)
  \/ FinishRefused(r)
  \/ Drops(r)

\* A step of the routine is one of the named actions of one request, an
\* administrator's update, or a stutter.
LEMMA StepCases ==
  ASSUME TypeOK, Next
  PROVE  \/ \E r \in Requests : RequestStep(r)
         \/ \E a \in Accounts : CloseAccount(a) \/ ReopenAccount(a)
<1>1. CASE \E r \in Requests : BeginPost(r)
  BY <1>1, CommandsAssumption DEF BeginPost, RequestStep
<1>2. CASE \E r \in Requests : BeginReversal(r)
  <2>1. PICK r \in Requests, named \in ledger, k \in Keys :
          \E seen : Begin(r, [key |-> k, legs |-> ReversalLegs(named, seen)])
    BY <1>2 DEF BeginReversal
  <2>2. PICK seen : Begin(r, [key |-> k, legs |-> ReversalLegs(named, seen)])
    BY <2>1
  <2>3. [key |-> k, legs |-> ReversalLegs(named, seen)] \in Command
    BY ReversalLegsType DEF TypeOK, Command
  <2> QED BY <2>2, <2>3 DEF RequestStep
<1>3. CASE \E r \in Requests : CheckRows(r)
  <2>1. PICK r \in Requests : CheckRows(r)
    BY <1>3
  <2>2. CASE Needed(r) # Existing(r)
    BY <2>1, <2>2 DEF CheckRows, Refuse, Refusals, RequestStep, Drops
  <2>3. CASE Needed(r) = Existing(r) /\ \E a \in Needed(r) : ~active[a]
    BY <2>1, <2>3 DEF CheckRows, Refuse, Refusals, RequestStep, Drops
  <2>4. CASE Needed(r) = Existing(r) /\ \A a \in Needed(r) : active[a]
    BY <2>1, <2>4 DEF CheckRows, PassesChecks, RequestStep
  <2> QED BY <2>2, <2>3, <2>4
<1>4. CASE \E r \in Requests : RefuseLeg(r)
  <2>1. PICK r \in Requests : RefuseLeg(r)
    BY <1>4
  <2>2. \A reason \in DeltaRefusals(r) : reason \in Refusals
    BY DEF DeltaRefusals, Refusals
  <2>3. \E reason \in Refusals : Refuse(r, reason)
    BY <2>1, <2>2 DEF RefuseLeg, Refusals
  <2> QED BY <2>1, <2>3 DEF RefuseLeg, Refuse, RequestStep, Drops
<1>5. CASE \E r \in Requests : BreakDeadlock(r)
  <2>1. PICK r \in Requests : BreakDeadlock(r)
    BY <1>5
  <2>2. pc[r] = "lock"
    BY <2>1 DEF BreakDeadlock, Deadlocked, Stuck
  <2> QED BY <2>1, <2>2 DEF BreakDeadlock, RequestStep, Drops
<1>6. CASE \E r \in Requests : Abort(r)
  BY <1>6 DEF Abort, RequestStep, Drops
<1>7. CASE \E r \in Requests :
             \/ ReserveFresh(r) \/ Replay(r) \/ Conflict(r)
             \/ \E a \in Accounts : LockRow(r, a)
             \/ ApplyLeg(r) \/ BackfillKey(r) \/ Commit(r) \/ FinishRefused(r)
  BY <1>7 DEF RequestStep
<1>8. CASE \E a \in Managed : CloseAccount(a) \/ ReopenAccount(a)
  BY <1>8, CommandsAssumption
<1> QED
  BY <1>1, <1>2, <1>3, <1>4, <1>5, <1>6, <1>7, <1>8 DEF Next, Step
-----------------------------------------------------------------------------
(* The shape of a command's legs. *)

\* Every list of legs is one or two typed legs, and its touched set is known ids.
LEMMA LegsType ==
  ASSUME NEW c \in Command
  PROVE  /\ DOMAIN c.legs = 1..LastLeg(c.legs)
         /\ LastLeg(c.legs) \in {1, 2}
         /\ \A i \in DOMAIN c.legs : c.legs[i] \in Leg
<1>1. c.legs \in LegList
  BY DEF Command
<1>2. CASE c.legs \in [{1} -> Leg]
  <2>1. DOMAIN c.legs = {1}
    BY <1>2
  <2>2. LastLeg(c.legs) = 1 /\ 1..1 = {1}
    BY <2>1 DEF LastLeg
  <2> QED BY <1>2, <2>1, <2>2
<1>3. CASE c.legs \in [{1, 2} -> Leg]
  <2>1. DOMAIN c.legs = {1, 2}
    BY <1>3
  <2>2. LastLeg(c.legs) = 2 /\ 1..2 = {1, 2}
    BY <2>1 DEF LastLeg
  <2> QED BY <1>3, <2>1, <2>2
<1> QED BY <1>1, <1>2, <1>3 DEF LegList

\* Which leg is next is within bounds.
NextLegExists == \A r \in Requests : pc[r] = "apply" => leg[r] \in DOMAIN cmd[r].legs

\* Every step keeps the types.
LEMMA TypeStep ==
  ASSUME TypeOK, NextLegExists, Next
  PROVE  TypeOK'
<1> USE DEF TypeOK, committed, uncommitted
<1>1. ASSUME NEW r \in Requests, Discard(r)
      PROVE  /\ locked' \in [Requests -> SUBSET Accounts]
             /\ leg' \in [Requests -> {1, 2, 3}]
             /\ uBalance' \in [Requests -> [Accounts -> Int]]
             /\ uRows' \in [Requests -> SUBSET Row]
             /\ uKeys' \in [Requests -> SUBSET KeyRow]
  BY <1>1 DEF Discard
<1>2. ASSUME NEW r \in Requests, NEW kind \in Answers, NEW tx \in TxId \cup {NoTx},
             Tell(r, kind, tx)
      PROVE  answer' \in [Requests -> [kind : Answers, tx : TxId \cup {NoTx}]]
  BY <1>2 DEF Tell
<1>3. ASSUME NEW r \in Requests, NEW c \in Command, Begin(r, c)
      PROVE  TypeOK'
  BY <1>3 DEF Begin, Goto
<1>4. ASSUME NEW r \in Requests, ReserveFresh(r)
      PROVE  TypeOK'
  <2>1. [key |-> cmd[r].key, hash |-> RequestHash(cmd[r].legs), tx |-> NoTx] \in KeyRow
    BY <1>4 DEF ReserveFresh, KeyRow, Command, RequestHash
  <2> QED BY <1>4, <2>1 DEF ReserveFresh, Goto
<1>5. ASSUME NEW r \in Requests, Replay(r)
      PROVE  TypeOK'
  <2>1. PICK row \in keys : Tell(r, "replayed", row.tx)
    BY <1>5 DEF Replay
  <2>2. row.tx \in TxId \cup {NoTx}
    BY DEF KeyRow
  <2>3. "replayed" \in Answers
    BY DEF Answers
  <2> QED BY <1>2, <1>5, <2>1, <2>2, <2>3 DEF Replay, Goto
<1>6. ASSUME NEW r \in Requests, Conflict(r)
      PROVE  TypeOK'
  <2>1. "idempotency_conflict" \in Answers
    BY DEF Answers
  <2> QED BY <1>2, <1>6, <2>1 DEF Conflict, Goto
<1>7. ASSUME NEW r \in Requests, NEW a \in Accounts, LockRow(r, a)
      PROVE  TypeOK'
  BY <1>7 DEF LockRow
<1>8. ASSUME NEW r \in Requests, PassesChecks(r)
      PROVE  TypeOK'
  BY <1>8 DEF PassesChecks, Goto
<1>9. ASSUME NEW r \in Requests, ApplyLeg(r)
      PROVE  TypeOK'
  <2> DEFINE l == cmd[r].legs[leg[r]]
  <2>1. cmd[r] \in Command /\ leg[r] \in {1, 2} /\ l \in Leg
    BY <1>9, LegsType DEF ApplyLeg, NextLegExists
  <2>2. LedgerRow(r, leg[r]) \in Row
    BY <2>1 DEF LedgerRow, Row, TxId
  <2>3. l.delta \in [AccountIds -> Int]
    BY <2>1 DEF Leg
  <2>4. \A a \in Accounts : Resulting(r, a) \in Int
    BY <2>1, <2>3, RulesAssumption DEF Resulting
  <2>5. uBalance' \in [Requests -> [Accounts -> Int]]
    BY <1>9, <2>4 DEF ApplyLeg
  <2>6. leg' \in [Requests -> {1, 2, 3}]
    BY <1>9, <2>1 DEF ApplyLeg
  <2>7. pc' \in [Requests -> {"idle", "reserve", "lock", "apply", "backfill", "commit", "audit", "done"}]
        /\ \A q \in Requests : pc[q] = "idle" => pc'[q] = "idle"
    BY <1>9 DEF ApplyLeg, Goto
  <2>8. uRows' \in [Requests -> SUBSET Row]
    BY <1>9, <2>2 DEF ApplyLeg
  <2>9. UNCHANGED <<balance, active, ledger, keys, rejections, cmd, locked, uKeys, answer>>
    BY <1>9 DEF ApplyLeg
  <2> QED BY <2>5, <2>6, <2>7, <2>8, <2>9
<1>10. ASSUME NEW r \in Requests, BackfillKey(r)
       PROVE  TypeOK'
  <2>1. <<r, 1>> \in TxId
    BY DEF TxId
  <2>2. \A row \in KeyRow : [row EXCEPT !.tx = <<r, 1>>] \in KeyRow
    BY <2>1 DEF KeyRow
  <2>3. {[row EXCEPT !.tx = <<r, 1>>] : row \in uKeys[r]} \subseteq KeyRow
    BY <2>2
  <2> QED BY <1>10, <2>3 DEF BackfillKey, Goto
<1>11. ASSUME NEW r \in Requests, Commit(r)
       PROVE  TypeOK'
  <2>1. <<r, 1>> \in TxId
    BY DEF TxId
  <2>2. answer' \in [Requests -> [kind : Answers, tx : TxId \cup {NoTx}]]
    BY <1>2, <1>11, <2>1 DEF Commit, Answers
  <2>3. balance' \in [Accounts -> Int] /\ ledger' \subseteq Row /\ keys' \subseteq KeyRow
    BY <1>11 DEF Commit
  <2> QED BY <1>1, <1>11, <2>2, <2>3 DEF Commit, Goto
<1>12. ASSUME NEW r \in Requests, FinishRefused(r)
       PROVE  TypeOK'
  BY <1>12 DEF FinishRefused, Goto
<1>13. ASSUME NEW r \in Requests, Drops(r)
       PROVE  TypeOK'
  <2>1. answer' \in [Requests -> [kind : Answers, tx : TxId \cup {NoTx}]]
    BY <1>2, <1>13 DEF Drops, Answers
  <2> QED BY <1>1, <1>13, <2>1 DEF Drops, Goto
<1>14. ASSUME NEW a \in Accounts, CloseAccount(a) \/ ReopenAccount(a)
       PROVE  TypeOK'
  BY <1>14 DEF CloseAccount, ReopenAccount
<1> QED
  BY <1>3, <1>4, <1>5, <1>6, <1>7, <1>8, <1>9, <1>10, <1>11, <1>12, <1>13, <1>14, StepCases
  DEF RequestStep
-----------------------------------------------------------------------------
(* A request's step leaves every other request's transaction alone. *)

Own(q) == <<cmd[q], pc[q], locked[q], leg[q], uBalance[q], uRows[q], uKeys[q], answer[q]>>

\* A request's step leaves the open transactions of all the others alone.
LEMMA OthersUntouched ==
  ASSUME TypeOK, NEW r \in Requests, RequestStep(r), NEW q \in Requests \ {r}
  PROVE  UNCHANGED Own(q)
<1> USE DEF TypeOK, Own, committed, uncommitted, Goto, Tell
<1>1. CASE \E c \in Command : Begin(r, c)
  BY <1>1 DEF Begin
<1>2. CASE ReserveFresh(r)
  BY <1>2 DEF ReserveFresh
<1>3. CASE Replay(r) \/ Conflict(r)
  BY <1>3 DEF Replay, Conflict
<1>4. CASE \E a \in Accounts : LockRow(r, a)
  BY <1>4 DEF LockRow
<1>5. CASE PassesChecks(r)
  BY <1>5 DEF PassesChecks
<1>6. CASE ApplyLeg(r)
  BY <1>6 DEF ApplyLeg
<1>7. CASE BackfillKey(r)
  BY <1>7 DEF BackfillKey
<1>8. CASE Commit(r)
  BY <1>8 DEF Commit, Discard
<1>9. CASE FinishRefused(r)
  BY <1>9 DEF FinishRefused
<1>10. CASE Drops(r)
  BY <1>10 DEF Drops, Discard
<1> QED
  BY <1>1, <1>2, <1>3, <1>4, <1>5, <1>6, <1>7, <1>8, <1>9, <1>10 DEF RequestStep

\* How a request's open transaction changes: it arrives, reserves, takes a row,
\* advances with the rows it has, or ends.
LEMMA OwnStep ==
  ASSUME TypeOK, NEW r \in Requests, RequestStep(r)
  PROVE  \/ /\ pc[r] \in {"idle", "reserve", "audit"}
            /\ pc'[r] \in {"reserve", "audit", "done"}
            /\ UNCHANGED <<locked, leg, uBalance, uRows, uKeys>>
         \/ /\ pc[r] = "reserve" /\ pc'[r] = "lock"
            /\ UNCHANGED <<cmd, locked, leg, uBalance, uRows>>
         \/ /\ pc[r] = "lock" /\ pc'[r] = "lock"
            /\ \E a \in Existing(r) : Free(r, a) /\ locked'[r] = locked[r] \cup {a}
            /\ UNCHANGED <<cmd, leg, uRows, uKeys>>
         \/ /\ PassesChecks(r)
            /\ pc'[r] = "apply"
         \/ /\ pc[r] \in {"apply", "backfill"}
            /\ pc'[r] \in {"apply", "backfill", "commit"}
            /\ UNCHANGED <<cmd, locked>>
         \/ /\ pc'[r] \in {"audit", "done"}
            /\ locked'[r] = {} /\ leg'[r] = 1 /\ uRows'[r] = {} /\ uKeys'[r] = {}
<1> USE DEF TypeOK, committed, uncommitted, Goto
<1>1. CASE \E c \in Command : Begin(r, c)
  BY <1>1 DEF Begin
<1>2. CASE ReserveFresh(r)
  BY <1>2 DEF ReserveFresh
<1>3. CASE Replay(r) \/ Conflict(r) \/ FinishRefused(r)
  BY <1>3 DEF Replay, Conflict, FinishRefused
<1>4. CASE \E a \in Accounts : LockRow(r, a)
  BY <1>4 DEF LockRow
<1>5. CASE PassesChecks(r)
  BY <1>5 DEF PassesChecks
<1>6. CASE ApplyLeg(r)
  BY <1>6 DEF ApplyLeg
<1>7. CASE BackfillKey(r)
  BY <1>7 DEF BackfillKey
<1>8. CASE Commit(r) \/ Drops(r)
  BY <1>8 DEF Commit, Drops, Discard
<1> QED
  BY <1>1, <1>2, <1>3, <1>4, <1>5, <1>6, <1>7, <1>8 DEF RequestStep

\* active is written by CloseAccount and ReopenAccount alone.
LEMMA RequestsKeepActive ==
  ASSUME NEW r \in Requests, RequestStep(r)
  PROVE  UNCHANGED active
BY DEF RequestStep, Begin, ReserveFresh, Replay, Conflict, LockRow, PassesChecks,
       ApplyLeg, BackfillKey, Commit, FinishRefused, Drops, committed

\* Row locks stay exclusive and are only held between reservation and end.
LEMMA LocksStep ==
  ASSUME TypeOK, LocksExclusive, NothingLeftOpen, ChecksStillHold, Next
  PROVE  LocksExclusive' /\ NothingLeftOpen' /\ ChecksStillHold'
<1>1. ASSUME NEW r \in Requests, RequestStep(r)
      PROVE  LocksExclusive' /\ NothingLeftOpen' /\ ChecksStillHold'
  <2>1. \A q \in Requests \ {r} : UNCHANGED Own(q)
    BY <1>1, OthersUntouched
  <2>2. \A q \in Requests \ {r} :
          UNCHANGED <<cmd[q], pc[q], locked[q], leg[q], uRows[q], uKeys[q]>>
    BY <2>1 DEF Own
  <2>3. locked'[r] \subseteq locked[r] \cup {a \in Accounts : Free(r, a)}
    BY <1>1, OwnStep DEF PassesChecks, TypeOK, uncommitted, Existing
  <2>4. LocksExclusive'
    BY <2>2, <2>3 DEF LocksExclusive, Free, TypeOK
  <2>5. NothingLeftOpen'
    <3>1. ~Holding(r)' => locked'[r] = {} /\ uRows'[r] = {} /\ uKeys'[r] = {} /\ leg'[r] = 1
      BY <1>1, OwnStep DEF NothingLeftOpen, Holding, PassesChecks, uncommitted
    <3> QED BY <2>2, <3>1 DEF NothingLeftOpen, Holding
  <2>6. ChecksStillHold'
    <3>1. UNCHANGED active
      BY <1>1, RequestsKeepActive
    <3>2. Holding(r)' => locked'[r] \subseteq Existing(r)'
      BY <1>1, OwnStep DEF ChecksStillHold, NothingLeftOpen, Holding, PassesChecks, uncommitted, Existing, Needed
    <3>3. Holding(r)' /\ pc'[r] # "lock" =>
            locked'[r] = Needed(r)' /\ \A a \in locked'[r] : active'[a]
      BY <1>1, <3>1, OwnStep DEF ChecksStillHold, Holding, PassesChecks, uncommitted, Needed
    <3> QED BY <2>2, <3>1, <3>2, <3>3 DEF ChecksStillHold, Holding, Existing, Needed
  <2> QED BY <2>4, <2>5, <2>6
<1>2. ASSUME NEW a \in Accounts, CloseAccount(a) \/ ReopenAccount(a)
      PROVE  LocksExclusive' /\ NothingLeftOpen' /\ ChecksStillHold'
  <2>1. /\ UNCHANGED <<cmd, pc, locked, leg, uRows, uKeys>>
        /\ \A q \in Requests : a \notin locked[q]
        /\ \A b \in Accounts \ {a} : active'[b] = active[b]
    BY <1>2 DEF CloseAccount, ReopenAccount, uncommitted, RowFree, TypeOK
  <2>2. LocksExclusive' /\ NothingLeftOpen'
    BY <2>1 DEF LocksExclusive, NothingLeftOpen, Holding
  <2>3. ChecksStillHold'
    <3>1. \A q \in Requests : Holding(q)' = Holding(q) /\ Existing(q)' = Existing(q) /\ Needed(q)' = Needed(q)
      BY <2>1 DEF Holding, Existing, Needed
    <3>2. \A q \in Requests : Holding(q) => locked[q] \subseteq Accounts \ {a}
      BY <2>1 DEF ChecksStillHold, Existing
    <3> QED BY <2>1, <3>1, <3>2 DEF ChecksStillHold
  <2> QED BY <2>2, <2>3
<1> QED BY <1>1, <1>2, StepCases
-----------------------------------------------------------------------------
(* The staged balances. *)

\* The effect of legs on an account is an integer.
LEMMA EffectType ==
  ASSUME NEW c \in Command, NEW n \in 0..LastLeg(c.legs), NEW a \in Accounts
  PROVE  Effect(c.legs, n, a) \in Int
<1>1. \A i \in 1..LastLeg(c.legs) : c.legs[i].delta[a] \in Int
  BY LegsType, RulesAssumption DEF Leg
<1>2. LastLeg(c.legs) \in {1, 2}
  BY LegsType
<1> QED BY <1>1, <1>2 DEF Effect

\* Applying one more leg adds its delta to the effect of those before it.
LEMMA EffectOfNextLeg ==
  ASSUME NEW c \in Command, NEW n \in DOMAIN c.legs, NEW a \in Accounts
  PROVE  /\ c.legs[n].delta[a] \in Int
         /\ a \notin c.legs[n].touches => c.legs[n].delta[a] = 0
         /\ Effect(c.legs, n, a) = Effect(c.legs, n - 1, a) + c.legs[n].delta[a]
<1>1. \A i \in DOMAIN c.legs :
        /\ c.legs[i].delta[a] \in Int
        /\ a \notin c.legs[i].touches => c.legs[i].delta[a] = 0
  BY LegsType, RulesAssumption DEF Leg
<1>2. n \in 1..2 /\ 1 \in DOMAIN c.legs
  BY LegsType
<1> QED BY <1>1, <1>2 DEF Effect

\* What no refusal means.
LEMMA NoDeltaRefusals ==
  ASSUME NEW r \in Requests, DeltaRefusals(r) = {}
  PROVE  \A a \in cmd[r].legs[leg[r]].touches :
           /\ CurrencyOf[a] = cmd[r].legs[leg[r]].currency
           /\ FundsRule(a, Resulting(r, a))
           /\ Storable(Resulting(r, a))
<1> DEFINE l == cmd[r].legs[leg[r]]
           bad(a) == CASE CurrencyOf[a] # l.currency -> "currency_mismatch"
                       [] ~FundsRule(a, Resulting(r, a)) -> "insufficient_funds"
                       [] ~Storable(Resulting(r, a)) -> "balance_limit_exceeded"
                       [] OTHER -> "none"
<1> SUFFICES ASSUME NEW a \in l.touches
             PROVE  /\ CurrencyOf[a] = l.currency
                    /\ FundsRule(a, Resulting(r, a))
                    /\ Storable(Resulting(r, a))
  OBVIOUS
<1>1. {bad(b) : b \in l.touches} \ {"none"} = {}
  BY DEF DeltaRefusals
<1>2. bad(a) = "none"
  <2> HIDE DEF bad
  <2> QED BY <1>1
<1> QED BY <1>2

\* WorkOnCurrent, one request at a time.
Work(r) ==
  Holding(r) =>
    /\ LegInRange(r)
    /\ uRows[r] = {LedgerRow(r, i) : i \in 1..(leg[r] - 1)}
    /\ \A a \in locked[r] :
         /\ uBalance[r][a] = balance[a] + Effect(cmd[r].legs, leg[r] - 1, a)
         /\ FundsRule(a, uBalance[r][a]) /\ Storable(uBalance[r][a])
    /\ \A i \in 1..(leg[r] - 1) : \A a \in cmd[r].legs[i].touches :
         CurrencyOf[a] = cmd[r].legs[i].currency

\* WorkOnCurrent, said request by request.
LEMMA WorkIsWork == WorkOnCurrent <=> \A r \in Requests : Work(r)
BY DEF WorkOnCurrent, Work

\* ApplyLeg stages exactly the next leg, and its checks make the rules hold of it.
LEMMA ApplyLegWorks ==
  ASSUME TypeOK, ChecksStillHold, NEW r \in Requests, Work(r), ApplyLeg(r)
  PROVE  Work(r)'
<1> DEFINE c == cmd[r]
           n == leg[r]
<1>1. /\ Holding(r) /\ pc[r] = "apply"
      /\ c \in Command /\ n \in DOMAIN c.legs /\ n \in {1, 2}
      /\ LastLeg(c.legs) \in {1, 2}
      /\ DOMAIN c.legs = 1..LastLeg(c.legs)
  BY LegsType DEF ApplyLeg, Holding, Work, LegInRange, TypeOK
<1>2. /\ cmd'[r] = c /\ leg'[r] = n + 1 /\ locked'[r] = locked[r]
      /\ UNCHANGED <<balance, cmd>>
      /\ uRows'[r] = uRows[r] \cup {LedgerRow(r, n)}
      /\ pc'[r] = IF n = LastLeg(c.legs) THEN "backfill" ELSE "apply"
  BY DEF ApplyLeg, TypeOK, committed, Goto
<1>3. \A a \in Accounts :
        uBalance'[r][a] = IF a \in c.legs[n].touches
                          THEN uBalance[r][a] + c.legs[n].delta[a] ELSE uBalance[r][a]
  BY DEF ApplyLeg, TypeOK, Resulting
<1>4. \A a \in c.legs[n].touches : /\ CurrencyOf[a] = c.legs[n].currency
                                  /\ FundsRule(a, uBalance[r][a] + c.legs[n].delta[a])
                                  /\ Storable(uBalance[r][a] + c.legs[n].delta[a])
  BY NoDeltaRefusals DEF ApplyLeg, Resulting
<1>5. LegInRange(r)'
  BY <1>1, <1>2 DEF LegInRange
<1>6. uRows'[r] = {LedgerRow(r, i)' : i \in 1..(leg'[r] - 1)}
  <2>1. \A i : LedgerRow(r, i)' = LedgerRow(r, i)
    BY <1>2 DEF LedgerRow
  <2>2. uRows[r] = {LedgerRow(r, i) : i \in 1..(n - 1)}
    BY <1>1 DEF Work
  <2>3. 1..n = 1..(n - 1) \cup {n}
    BY <1>1
  <2> QED BY <1>1, <1>2, <2>1, <2>2, <2>3
<1>7. ASSUME NEW a \in locked'[r]
      PROVE  /\ uBalance'[r][a] = balance'[a] + Effect(cmd'[r].legs, leg'[r] - 1, a)
             /\ FundsRule(a, uBalance'[r][a]) /\ Storable(uBalance'[r][a])
  <2>1. a \in Accounts /\ balance[a] \in Int /\ uBalance[r][a] \in Int
    BY <1>2 DEF TypeOK
  <2>2. /\ uBalance[r][a] = balance[a] + Effect(c.legs, n - 1, a)
        /\ FundsRule(a, uBalance[r][a]) /\ Storable(uBalance[r][a])
    BY <1>1, <1>2 DEF Work
  <2>3. Effect(c.legs, n - 1, a) \in Int
    <3>1. n - 1 \in 0..LastLeg(c.legs)
      BY <1>1
    <3> HIDE DEF c, n
    <3> QED BY <1>1, <2>1, <3>1, EffectType
  <2>4. /\ c.legs[n].delta[a] \in Int
        /\ a \notin c.legs[n].touches => c.legs[n].delta[a] = 0
        /\ Effect(c.legs, n, a) = Effect(c.legs, n - 1, a) + c.legs[n].delta[a]
    BY <1>1, <2>1, EffectOfNextLeg
  <2>5. leg'[r] - 1 = n
    BY <1>1, <1>2
  <2> QED BY <1>2, <1>3, <1>4, <2>1, <2>2, <2>3, <2>4, <2>5
<1>8. \A i \in 1..(leg'[r] - 1) : \A a \in cmd'[r].legs[i].touches :
         CurrencyOf[a] = cmd'[r].legs[i].currency
  <2>1. \A i \in 1..n : i = n \/ i \in 1..(n - 1)
    BY <1>1
  <2>2. leg'[r] - 1 = n
    BY <1>1, <1>2
  <2> QED BY <1>1, <1>2, <1>4, <2>1, <2>2 DEF Work
<1> QED BY <1>2, <1>5, <1>6, <1>7, <1>8 DEF Work

\* A row lock keeps a staged balance true while other requests commit.
LEMMA WorkStep ==
  ASSUME TypeOK, LocksExclusive, NothingLeftOpen, ChecksStillHold, WorkOnCurrent,
         BalancesAllowed, Next
  PROVE  WorkOnCurrent'
<1>1. ASSUME NEW r \in Requests, RequestStep(r), NEW q \in Requests \ {r}
      PROVE  Work(q)'
  <2>1. UNCHANGED <<cmd[q], pc[q], locked[q], leg[q], uBalance[q], uRows[q]>>
    BY <1>1, OthersUntouched DEF Own
  <2>2. \A a \in locked[q] : balance'[a] = balance[a]
    <3>1. CASE Commit(r)
      BY <3>1 DEF Commit, LocksExclusive, TypeOK
    <3>2. CASE ~Commit(r)
      BY <1>1, <3>2 DEF RequestStep, Begin, ReserveFresh, Replay, Conflict, LockRow,
         PassesChecks, ApplyLeg, BackfillKey, FinishRefused, Drops, committed
    <3> QED BY <3>1, <3>2
  <2>3. Work(q)
    BY WorkIsWork
  <2> QED BY <2>1, <2>2, <2>3 DEF Work, Holding, LegInRange, LedgerRow
<1>2. ASSUME NEW r \in Requests, RequestStep(r)
      PROVE  Work(r)'
  <2>1. Work(r)
    BY WorkIsWork
  <2>2. CASE ReserveFresh(r)
    <3>1. /\ pc'[r] = "lock" /\ locked'[r] = {} /\ leg'[r] = 1 /\ uRows'[r] = {}
      BY <2>2 DEF ReserveFresh, NothingLeftOpen, Holding, Goto, TypeOK
    <3>2. 1..(leg'[r] - 1) = {}
      BY <3>1
    <3> QED BY <3>1, <3>2 DEF Work, LegInRange
  <2>3. CASE \E a \in Accounts : LockRow(r, a)
    <3>1. PICK a \in Accounts : LockRow(r, a)
      BY <2>3
    <3>2. /\ pc[r] = "lock" /\ Holding(r) /\ UNCHANGED <<balance, cmd, pc, leg, uRows>>
          /\ locked'[r] = locked[r] \cup {a}
          /\ uBalance'[r][a] = balance[a]
          /\ \A b \in Accounts \ {a} : uBalance'[r][b] = uBalance[r][b]
      BY <3>1 DEF LockRow, committed, Holding, TypeOK
    <3>3. leg[r] = 1
      BY <2>1, <3>2 DEF Work, LegInRange
    <3>4. Effect(cmd[r].legs, leg[r] - 1, a) = 0
      BY <3>3 DEF Effect
    <3>5. /\ uBalance'[r][a] = balance'[a] + Effect(cmd'[r].legs, leg'[r] - 1, a)
          /\ FundsRule(a, uBalance'[r][a]) /\ Storable(uBalance'[r][a])
      BY <3>2, <3>4 DEF BalancesAllowed, TypeOK
    <3>6. locked[r] \subseteq Accounts
      BY DEF TypeOK
    <3>7. \A b \in locked'[r] :
            /\ uBalance'[r][b] = balance'[b] + Effect(cmd'[r].legs, leg'[r] - 1, b)
            /\ FundsRule(b, uBalance'[r][b]) /\ Storable(uBalance'[r][b])
      BY <2>1, <3>2, <3>5, <3>6 DEF Work
    <3>8. /\ LegInRange(r)'
          /\ uRows'[r] = {LedgerRow(r, i)' : i \in 1..(leg'[r] - 1)}
          /\ \A i \in 1..(leg'[r] - 1) : \A b \in cmd'[r].legs[i].touches :
               CurrencyOf[b] = cmd'[r].legs[i].currency
      BY <2>1, <3>2 DEF Work, LegInRange, LedgerRow
    <3> QED BY <3>7, <3>8 DEF Work
  <2>4. CASE PassesChecks(r)
    <3>1. /\ pc[r] = "lock" /\ pc'[r] = "apply"
          /\ UNCHANGED <<balance, cmd, locked, leg, uBalance, uRows>>
      BY <2>4 DEF PassesChecks, committed, uncommitted, Goto, TypeOK
    <3>2. leg[r] = 1 /\ 1 \in DOMAIN cmd[r].legs
      <4>1. leg[r] = 1
        BY <2>1, <3>1 DEF Work, Holding, LegInRange
      <4>2. cmd[r] \in Command
        BY <3>1 DEF TypeOK
      <4> QED BY <4>1, <4>2, LegsType
    <3>3. LegInRange(r)'
      BY <3>1, <3>2 DEF LegInRange
    <3>4. \A i : LedgerRow(r, i)' = LedgerRow(r, i)
      BY <3>1 DEF LedgerRow
    <3> QED BY <2>1, <3>1, <3>3, <3>4 DEF Work, Holding
  <2>5. CASE ApplyLeg(r)
    BY <2>1, <2>5, ApplyLegWorks
  <2>6. CASE BackfillKey(r)
    <3>1. /\ pc[r] = "backfill" /\ pc'[r] = "commit"
          /\ UNCHANGED <<balance, cmd, locked, leg, uBalance, uRows>>
      BY <2>6 DEF BackfillKey, committed, Goto, TypeOK
    <3> QED BY <2>1, <3>1 DEF Work, Holding, LegInRange, LedgerRow
  <2>7. CASE \/ \E c \in Command : Begin(r, c)
             \/ Replay(r) \/ Conflict(r) \/ Commit(r) \/ FinishRefused(r) \/ Drops(r)
    <3>1. pc'[r] \in {"reserve", "audit", "done"}
      BY <2>7 DEF Begin, Replay, Conflict, Commit, FinishRefused, Drops, Goto, TypeOK
    <3> QED BY <3>1 DEF Work, Holding
  <2> QED BY <1>2, <2>2, <2>3, <2>4, <2>5, <2>6, <2>7 DEF RequestStep
<1>3. ASSUME NEW a \in Accounts, CloseAccount(a) \/ ReopenAccount(a)
      PROVE  WorkOnCurrent'
  <2>1. UNCHANGED <<balance, cmd, pc, locked, leg, uBalance, uRows>>
    BY <1>3 DEF CloseAccount, ReopenAccount, uncommitted
  <2> QED BY <2>1 DEF WorkOnCurrent, Holding, LegInRange, LedgerRow
<1> QED
  <2>1. ASSUME NEW r \in Requests, RequestStep(r)
        PROVE  WorkOnCurrent'
    <3>1. \A q \in Requests : Work(q)'
      BY <1>1, <1>2, <2>1
    <3> QED BY <3>1 DEF WorkOnCurrent, Work
  <2> QED BY <1>3, <2>1, StepCases
-----------------------------------------------------------------------------
(* The committed rows. *)

\* No step of a request but Commit changes balances, ledger or keys.
LEMMA OnlyCommitWrites ==
  ASSUME NEW r \in Requests, RequestStep(r), ~Commit(r)
  PROVE  UNCHANGED <<balance, ledger, keys>>
BY DEF RequestStep, Begin, ReserveFresh, Replay, Conflict, LockRow, PassesChecks,
       ApplyLeg, BackfillKey, FinishRefused, Drops, committed

\* What a commit writes.
LEMMA CommitWrites ==
  ASSUME TypeOK, ChecksStillHold, WorkOnCurrent, ReservationsExclusive,
         NEW r \in Requests, Commit(r)
  PROVE  /\ pc[r] = "commit" /\ pc'[r] = "done" /\ Holding(r)
         /\ UNCHANGED <<active, cmd>>
         /\ ledger' = ledger \cup {LedgerRow(r, i) : i \in DOMAIN cmd[r].legs}
         /\ keys' = keys \cup {KeyRowOf(r, <<r, 1>>)}
         /\ locked[r] = Needed(r)
         /\ \A a \in Accounts : balance'[a] = IF a \in locked[r] THEN uBalance[r][a]
                                               ELSE balance[a]
<1>1. /\ pc[r] = "commit" /\ pc'[r] = "done" /\ Holding(r)
      /\ UNCHANGED <<active, cmd>>
      /\ ledger' = ledger \cup uRows[r]
      /\ keys' = keys \cup uKeys[r]
      /\ \A a \in Accounts : balance'[a] = IF a \in locked[r] THEN uBalance[r][a]
                                            ELSE balance[a]
  BY DEF Commit, Goto, Holding, TypeOK
<1>2. uRows[r] = {LedgerRow(r, i) : i \in DOMAIN cmd[r].legs}
  <2>1. uRows[r] = {LedgerRow(r, i) : i \in 1..(leg[r] - 1)}
        /\ leg[r] = LastLeg(cmd[r].legs) + 1
    BY <1>1 DEF WorkOnCurrent, LegInRange
  <2>2. cmd[r] \in Command
    BY <1>1 DEF TypeOK
  <2>3. 1..(leg[r] - 1) = DOMAIN cmd[r].legs
    BY <2>1, <2>2, LegsType
  <2> QED BY <2>1, <2>3
<1>3. uKeys[r] = {KeyRowOf(r, <<r, 1>>)}
  BY <1>1 DEF ReservationsExclusive
<1>4. locked[r] = Needed(r)
  BY <1>1 DEF ChecksStillHold
<1> QED BY <1>1, <1>2, <1>3, <1>4

\* The committed balances stay within the rules, and a closed account stays empty.
LEMMA MoneyStep ==
  ASSUME IInv, Next
  PROVE  BalancesAllowed' /\ ClosedIsEmpty'
<1>1. ASSUME NEW r \in Requests, RequestStep(r)
      PROVE  BalancesAllowed' /\ ClosedIsEmpty'
  <2>1. CASE Commit(r)
    <3>1. /\ Holding(r) /\ pc[r] = "commit" /\ UNCHANGED active
          /\ \A a \in Accounts : balance'[a] = IF a \in locked[r] THEN uBalance[r][a]
                                                ELSE balance[a]
      BY <2>1, CommitWrites DEF IInv
    <3>2. \A a \in locked[r] : /\ FundsRule(a, uBalance[r][a]) /\ Storable(uBalance[r][a])
                               /\ active[a]
      BY <3>1 DEF IInv, WorkOnCurrent, ChecksStillHold
    <3> QED BY <3>1, <3>2 DEF IInv, BalancesAllowed, ClosedIsEmpty
  <2>2. CASE ~Commit(r)
    BY <1>1, <2>2, OnlyCommitWrites, RequestsKeepActive DEF IInv, BalancesAllowed, ClosedIsEmpty
  <2> QED BY <2>1, <2>2
<1>2. ASSUME NEW a \in Accounts, CloseAccount(a) \/ ReopenAccount(a)
      PROVE  BalancesAllowed' /\ ClosedIsEmpty'
  BY <1>2 DEF CloseAccount, ReopenAccount, IInv, BalancesAllowed, ClosedIsEmpty, TypeOK
<1> QED BY <1>1, <1>2, StepCases DEF IInv

\* Once answered, a request is over.
LEMMA DoneIsOver ==
  ASSUME TypeOK, Next, NEW q \in Requests, pc[q] = "done"
  PROVE  UNCHANGED <<cmd[q], pc[q], answer[q]>>
<1>1. ASSUME NEW r \in Requests, RequestStep(r)
      PROVE  UNCHANGED <<cmd[q], pc[q], answer[q]>>
  <2>1. pc[r] # "done"
    BY <1>1 DEF RequestStep, Begin, ReserveFresh, Replay, Conflict, LockRow, PassesChecks,
       ApplyLeg, BackfillKey, Commit, FinishRefused, Drops
  <2> QED BY <1>1, <2>1, OthersUntouched DEF Own
<1>2. ASSUME NEW a \in Accounts, CloseAccount(a) \/ ReopenAccount(a)
      PROVE  UNCHANGED <<cmd[q], pc[q], answer[q]>>
  BY <1>2 DEF CloseAccount, ReopenAccount
<1> QED BY <1>1, <1>2, StepCases

\* Key rows and ledger rows keep coming together, from requests that are over.
LEMMA HistoryStep ==
  ASSUME IInv, Next
  PROVE  HistoryMatchesKeys'
<1>1. \A q \in Requests : pc[q] = "done" => /\ pc'[q] = "done" /\ cmd'[q] = cmd[q]
                                            /\ KeyRowOf(q, <<q, 1>>)' = KeyRowOf(q, <<q, 1>>)
                                            /\ \A i : LedgerRow(q, i)' = LedgerRow(q, i)
  BY DoneIsOver DEF IInv, KeyRowOf, LedgerRow
<1>2. \A x \in ledger : x.id[1] \in Requests
  BY DEF IInv, TypeOK, Row, TxId
<1>3. ASSUME ledger \subseteq ledger', keys \subseteq keys'
      PROVE  /\ \A x \in ledger : Recorded(x.id[1])'
             /\ \A row \in keys : \E q \in Requests :
                  row = KeyRowOf(q, <<q, 1>>)' /\ LedgerRow(q, 1)' \in ledger'
  <2>1. ASSUME NEW q \in Requests, Recorded(q)
        PROVE  Recorded(q)'
    BY <1>1, <1>3, <2>1 DEF Recorded
  <2>2. ASSUME NEW row \in keys
        PROVE  \E q \in Requests : row = KeyRowOf(q, <<q, 1>>)' /\ LedgerRow(q, 1)' \in ledger'
    <3>1. PICK q \in Requests : row = KeyRowOf(q, <<q, 1>>) /\ LedgerRow(q, 1) \in ledger
      BY DEF IInv, HistoryMatchesKeys
    <3>2. LedgerRow(q, 1).id[1] = q
      BY DEF LedgerRow
    <3>3. pc[q] = "done"
      BY <3>1, <3>2 DEF IInv, HistoryMatchesKeys, Recorded
    <3> QED BY <1>1, <1>3, <3>1, <3>3
  <2> QED BY <1>2, <2>1, <2>2 DEF IInv, HistoryMatchesKeys
<1>4. ASSUME NEW r \in Requests, Commit(r)
      PROVE  HistoryMatchesKeys'
  <2>1. /\ pc'[r] = "done" /\ UNCHANGED cmd
        /\ ledger' = ledger \cup {LedgerRow(r, i) : i \in DOMAIN cmd[r].legs}
        /\ keys' = keys \cup {KeyRowOf(r, <<r, 1>>)}
    BY <1>4, CommitWrites DEF IInv
  <2>2. cmd[r] \in Command
    BY <1>4 DEF IInv, TypeOK, Commit
  <2>3. 1 \in DOMAIN cmd[r].legs
    BY <2>2, LegsType
  <2>4. /\ KeyRowOf(r, <<r, 1>>)' = KeyRowOf(r, <<r, 1>>)
        /\ \A i : LedgerRow(r, i)' = LedgerRow(r, i)
    BY <2>1 DEF KeyRowOf, LedgerRow
  <2>5. \A i : LedgerRow(r, i).id[1] = r
    BY DEF LedgerRow
  <2>6. Recorded(r)'
    BY <2>1, <2>4 DEF Recorded
  <2>7. \A x \in ledger' : Recorded(x.id[1])'
    BY <1>3, <2>1, <2>5, <2>6
  <2>8. \A row \in keys' : \E q \in Requests :
          row = KeyRowOf(q, <<q, 1>>)' /\ LedgerRow(q, 1)' \in ledger'
    BY <1>3, <2>1, <2>3, <2>4
  <2> QED BY <2>7, <2>8 DEF HistoryMatchesKeys
<1>5. ASSUME UNCHANGED <<ledger, keys>>
      PROVE  HistoryMatchesKeys'
  BY <1>3, <1>5 DEF HistoryMatchesKeys
<1>6. ASSUME NEW a \in Accounts, CloseAccount(a) \/ ReopenAccount(a)
      PROVE  UNCHANGED <<ledger, keys>>
  BY <1>6 DEF CloseAccount, ReopenAccount
<1> QED BY <1>4, <1>5, <1>6, OnlyCommitWrites, StepCases DEF IInv
-----------------------------------------------------------------------------
(* The idempotency keys. *)

\* A reservation is made of a key that is free, and moves only to keys.
LEMMA ReservationsStep ==
  ASSUME IInv, Next
  PROVE  ReservationsExclusive'
<1> USE DEF IInv
<1>2. ASSUME NEW r \in Requests, RequestStep(r)
      PROVE  ReservationsExclusive'
  <2>1. \A q \in Requests \ {r} : UNCHANGED <<cmd[q], pc[q], uKeys[q]>>
    BY <1>2, OthersUntouched DEF Own
  <2>2. \A q \in Requests : Holding(q) =>
          uKeys[q] = {[key |-> cmd[q].key, hash |-> cmd[q].legs,
                       tx |-> IF pc[q] = "commit" THEN <<q, 1>> ELSE NoTx]}
    BY DEF ReservationsExclusive, KeyRowOf, RequestHash
  <2>3. CASE ReserveFresh(r)
    <3>1. /\ pc'[r] = "lock" /\ UNCHANGED <<keys, cmd>>
          /\ uKeys'[r] = {[key |-> cmd[r].key, hash |-> cmd[r].legs, tx |-> NoTx]}
          /\ \A row \in keys : row.key # cmd[r].key
          /\ \A q \in Requests \ {r} : \A row \in uKeys[q] : row.key # cmd[r].key
      BY <2>3 DEF ReserveFresh, TypeOK, Goto, committed, RequestHash, KeyCommitted, KeyPending
    <3>2. ASSUME NEW q \in Requests \ {r}, Holding(q)
          PROVE  cmd[q].key # cmd[r].key
      <4> DEFINE own == [key |-> cmd[q].key, hash |-> cmd[q].legs,
                         tx |-> IF pc[q] = "commit" THEN <<q, 1>> ELSE NoTx]
      <4>1. own \in uKeys[q] /\ own.key = cmd[q].key
        BY <2>2, <3>2
      <4> HIDE DEF own
      <4> QED BY <3>1, <4>1
    <3> QED BY <2>1, <3>1, <3>2 DEF ReservationsExclusive, Holding, KeyRowOf, RequestHash
  <2>4. CASE \/ \E a \in Accounts : LockRow(r, a)
             \/ PassesChecks(r) \/ ApplyLeg(r)
    <3>1. /\ Holding(r) /\ pc[r] # "commit" /\ pc'[r] # "commit"
          /\ UNCHANGED <<keys, cmd, uKeys>>
      BY <2>4 DEF LockRow, PassesChecks, ApplyLeg, Holding, Goto, TypeOK, committed, uncommitted
    <3> QED BY <2>1, <3>1 DEF ReservationsExclusive, Holding, KeyRowOf
  <2>5. CASE BackfillKey(r)
    <3>1. /\ Holding(r) /\ pc[r] = "backfill" /\ pc'[r] = "commit" /\ UNCHANGED <<keys, cmd>>
          /\ uKeys'[r] = {[row EXCEPT !.tx = <<r, 1>>] : row \in uKeys[r]}
      BY <2>5 DEF BackfillKey, Holding, Goto, TypeOK, committed
    <3>2. uKeys[r] = {[key |-> cmd[r].key, hash |-> cmd[r].legs, tx |-> NoTx]}
      BY <2>2, <3>1
    <3>3. uKeys'[r] = {[key |-> cmd[r].key, hash |-> cmd[r].legs, tx |-> <<r, 1>>]}
      BY <3>1, <3>2
    <3> QED BY <2>1, <3>1, <3>3 DEF ReservationsExclusive, Holding, KeyRowOf, RequestHash
  <2>6. CASE Commit(r)
    <3>1. /\ pc'[r] = "done" /\ Holding(r) /\ UNCHANGED cmd
          /\ keys' = keys \cup {[key |-> cmd[r].key, hash |-> cmd[r].legs, tx |-> <<r, 1>>]}
      BY <2>6, CommitWrites DEF KeyRowOf, RequestHash
    <3> QED BY <2>1, <3>1 DEF ReservationsExclusive, Holding, KeyRowOf
  <2>7. CASE \/ \E c \in Command : Begin(r, c)
             \/ Replay(r) \/ Conflict(r) \/ FinishRefused(r) \/ Drops(r)
    <3>1. pc'[r] \in {"reserve", "audit", "done"} /\ UNCHANGED keys
      BY <2>7 DEF Begin, Replay, Conflict, FinishRefused, Drops, Goto, TypeOK, committed
    <3> QED BY <2>1, <3>1 DEF ReservationsExclusive, Holding, KeyRowOf
  <2> QED BY <1>2, <2>3, <2>4, <2>5, <2>6, <2>7 DEF RequestStep
<1>3. ASSUME NEW a \in Accounts, CloseAccount(a) \/ ReopenAccount(a)
      PROVE  ReservationsExclusive'
  <2>1. UNCHANGED <<keys, cmd, pc, uKeys>>
    BY <1>3 DEF CloseAccount, ReopenAccount, uncommitted
  <2> QED BY <2>1 DEF ReservationsExclusive, Holding, KeyRowOf
<1> QED BY <1>2, <1>3, StepCases
-----------------------------------------------------------------------------
(* Reversals. *)

\* The unique index on reverses_transaction_id, as ApplyLeg meets it.
LEMMA ReversalsStep ==
  ASSUME IInv, Next
  PROVE  ReversalsDistinct'
<1> USE DEF IInv
<1>1. ASSUME NEW r \in Requests, RequestStep(r)
      PROVE  ReversalsDistinct'
  <2>1. \A q \in Requests \ {r} : uRows'[q] = uRows[q]
    BY <1>1, OthersUntouched DEF Own
  <2>2. CASE ApplyLeg(r)
    <3> DEFINE new == LedgerRow(r, leg[r])
    <3>1. UNCHANGED ledger /\ uRows'[r] = uRows[r] \cup {new}
      BY <2>2 DEF ApplyLeg, TypeOK, committed
    <3>2. AllRows' = AllRows \cup {new}
      BY <2>1, <3>1 DEF AllRows
    <3>3. new.leg.reverses # NoTx => \A x \in AllRows : x.leg.reverses # new.leg.reverses
      BY <2>2 DEF ApplyLeg, AlreadyReversed, ReversalPending, LedgerRow, AllRows
    <3> HIDE DEF new
    <3> QED BY <3>2, <3>3 DEF ReversalsDistinct
  <2>3. CASE Commit(r)
    <3>1. ledger' = ledger \cup uRows[r] /\ uRows'[r] = {}
      BY <2>3 DEF Commit, Discard, TypeOK
    <3>2. AllRows' \subseteq AllRows
      BY <2>1, <3>1 DEF AllRows
    <3> QED BY <3>2 DEF ReversalsDistinct
  <2>4. CASE ~ApplyLeg(r) /\ ~Commit(r)
    <3>1. UNCHANGED ledger /\ uRows'[r] \subseteq uRows[r]
      BY <1>1, <2>4 DEF RequestStep, Begin, ReserveFresh, Replay, Conflict, LockRow,
         PassesChecks, BackfillKey, FinishRefused, Drops, Discard, committed, uncommitted, TypeOK
    <3>2. AllRows' \subseteq AllRows
      BY <2>1, <3>1 DEF AllRows
    <3> QED BY <3>2 DEF ReversalsDistinct
  <2> QED BY <2>2, <2>3, <2>4
<1>2. ASSUME NEW a \in Accounts, CloseAccount(a) \/ ReopenAccount(a)
      PROVE  ReversalsDistinct'
  <2>1. UNCHANGED <<ledger, uRows>>
    BY <1>2 DEF CloseAccount, ReopenAccount, uncommitted
  <2> QED BY <2>1 DEF ReversalsDistinct, AllRows
<1> QED BY <1>1, <1>2, StepCases
-----------------------------------------------------------------------------
(* What callers are told. *)

\* Two commands of one key and one payload are one command.
LEMMA SameCommand ==
  ASSUME NEW c \in Command, NEW d \in Command, c.key = d.key, c.legs = d.legs
  PROVE  c = d
BY DEF Command

\* Nothing of a request is in the ledger until it commits.
LEMMA NothingMine ==
  ASSUME TypeOK, HistoryMatchesKeys, NEW r \in Requests, pc[r] # "done"
  PROVE  {x \in ledger : x.id[1] = r} = {}
BY DEF HistoryMatchesKeys, Recorded

\* A key row stands for a request that is over.
LEMMA KeyRowMeans ==
  ASSUME TypeOK, HistoryMatchesKeys, NEW row \in keys
  PROVE  \E q \in Requests, x \in ledger :
           /\ pc[q] = "done" /\ cmd[q] \in Command
           /\ x.id = <<q, 1>> /\ row.tx = <<q, 1>>
           /\ row.key = cmd[q].key /\ row.hash = cmd[q].legs
<1>1. PICK q \in Requests : row = KeyRowOf(q, <<q, 1>>) /\ LedgerRow(q, 1) \in ledger
  BY DEF HistoryMatchesKeys
<1>2. LedgerRow(q, 1).id = <<q, 1>>
  BY DEF LedgerRow
<1>3. pc[q] = "done" /\ cmd[q] \in Command
  BY <1>1, <1>2 DEF HistoryMatchesKeys, Recorded, TypeOK
<1>4. row.tx = <<q, 1>> /\ row.key = cmd[q].key /\ row.hash = cmd[q].legs
  BY <1>1 DEF KeyRowOf, RequestHash
<1> QED BY <1>1, <1>2, <1>3, <1>4

\* What was answered stays true while others go on.
LEMMA AnswerStaysTrue ==
  ASSUME IInv, Next, NEW q \in Requests, AnswerTrue(q),
         UNCHANGED <<cmd[q], answer[q]>>, ledger \subseteq ledger',
         {x \in ledger' : x.id[1] = q} = {x \in ledger : x.id[1] = q}
  PROVE  AnswerTrue(q)'
<1>1. \A x \in ledger : x.id[1] \in Requests /\ pc[x.id[1]] = "done"
  BY DEF IInv, TypeOK, Row, TxId, HistoryMatchesKeys, Recorded
<1>2. \A x \in ledger : cmd'[x.id[1]] = cmd[x.id[1]]
  BY <1>1, DoneIsOver DEF IInv
<1>3. answer'[q] = answer[q] /\ cmd'[q] = cmd[q]
  OBVIOUS
<1>4. answer'[q].kind = "replayed" =>
        \E x \in ledger' : x.id = answer'[q].tx /\ cmd'[x.id[1]] = cmd'[q]
  BY <1>2, <1>3 DEF AnswerTrue
<1>5. answer'[q].kind = "idempotency_conflict" =>
        \E x \in ledger' : cmd'[x.id[1]].key = cmd'[q].key /\ cmd'[x.id[1]].legs # cmd'[q].legs
  BY <1>2, <1>3 DEF AnswerTrue
<1>6. /\ answer'[q].kind = "posted" => {x \in ledger' : x.id[1] = q} # {}
      /\ answer'[q].kind \notin {"posted", "failed"} => {x \in ledger' : x.id[1] = q} = {}
  BY <1>3 DEF AnswerTrue
<1> QED BY <1>4, <1>5, <1>6 DEF AnswerTrue

\* Nothing told yet, or a refusal: true of a request with no rows.
LEMMA PlainAnswerTrue ==
  ASSUME NEW q \in Requests,
         answer'[q].kind \notin {"posted", "replayed", "idempotency_conflict"},
         answer'[q].kind # "failed" => {x \in ledger' : x.id[1] = q} = {}
  PROVE  AnswerTrue(q)'
BY DEF AnswerTrue

Decided(q) == AnswerTrue(q) /\ (pc[q] \notin {"audit", "done"} => answer[q].kind = "none")

\* DecidedAnswersTrue, said request by request.
LEMMA DecidedIsDecided == DecidedAnswersTrue <=> \A q \in Requests : Decided(q)
BY DEF DecidedAnswersTrue, Decided

\* An answer stays true of the ledger, whoever moves next.
LEMMA AnswersStep ==
  ASSUME IInv, Next
  PROVE  DecidedAnswersTrue'
<1> USE DEF IInv
<1>1. \A q \in Requests : Decided(q)
  BY DecidedIsDecided
<1>2. ASSUME NEW r \in Requests, Commit(r)
      PROVE  \A q \in Requests : Decided(q)'
  <2>1. /\ pc'[r] = "done" /\ UNCHANGED cmd
        /\ ledger' = ledger \cup {LedgerRow(r, i) : i \in DOMAIN cmd[r].legs}
    BY <1>2, CommitWrites
  <2>2. \A i : LedgerRow(r, i).id[1] = r
    BY DEF LedgerRow
  <2>3. ASSUME NEW q \in Requests \ {r}
        PROVE  Decided(q)'
    <3>1. UNCHANGED <<cmd[q], answer[q], pc[q]>>
      BY <1>2, OthersUntouched DEF Own, RequestStep
    <3>2. {x \in ledger' : x.id[1] = q} = {x \in ledger : x.id[1] = q}
      BY <2>1, <2>2
    <3>3. AnswerTrue(q)'
      BY <1>1, <2>1, <3>1, <3>2, AnswerStaysTrue DEF Decided
    <3> QED BY <1>1, <3>1, <3>3 DEF Decided
  <2>4. Decided(r)'
    <3>1. 1 \in DOMAIN cmd[r].legs
      <4>1. cmd[r] \in Command
        BY <1>2 DEF TypeOK, Commit
      <4> QED BY <4>1, LegsType
    <3>2. LedgerRow(r, 1) \in {x \in ledger' : x.id[1] = r}
      BY <2>1, <2>2, <3>1
    <3>3. answer'[r].kind \in {"posted", "failed"}
      BY <1>2 DEF Commit, Tell, TypeOK
    <3> QED BY <2>1, <3>2, <3>3 DEF Decided, AnswerTrue
  <2> QED BY <2>3, <2>4
<1>3. ASSUME NEW r \in Requests, RequestStep(r), ~Commit(r)
      PROVE  \A q \in Requests : Decided(q)'
  <2>1. UNCHANGED <<ledger, keys>>
    BY <1>3, OnlyCommitWrites
  <2>2. ASSUME NEW q \in Requests, UNCHANGED <<cmd[q], answer[q]>>,
               pc'[q] = pc[q] \/ answer[q].kind = "none" \/ pc'[q] \in {"audit", "done"}
        PROVE  Decided(q)'
    <3>1. AnswerTrue(q)'
      BY <1>1, <2>1, <2>2, AnswerStaysTrue DEF Decided
    <3> QED BY <1>1, <2>2, <3>1 DEF Decided
  <2>3. ASSUME NEW q \in Requests \ {r}
        PROVE  Decided(q)'
    BY <1>3, <2>2, OthersUntouched DEF Own
  <2>4. pc[r] # "done" /\ {x \in ledger' : x.id[1] = r} = {}
    <3>1. pc[r] # "done"
      BY <1>3 DEF RequestStep, Begin, ReserveFresh, Replay, Conflict, LockRow, PassesChecks,
         ApplyLeg, BackfillKey, FinishRefused, Drops
    <3> QED BY <2>1, <3>1, NothingMine
  <2>5. CASE \E c \in Command : Begin(r, c)
    <3>1. pc[r] = "idle" /\ answer'[r] = answer[r]
      BY <2>5 DEF Begin, uncommitted
    <3>2. answer'[r].kind = "none"
      BY <1>1, <3>1 DEF Decided
    <3>3. AnswerTrue(r)'
      BY <2>4, <3>2, PlainAnswerTrue
    <3> QED BY <2>3, <3>2, <3>3 DEF Decided
  <2>6. CASE \/ ReserveFresh(r) \/ \E a \in Accounts : LockRow(r, a)
             \/ PassesChecks(r) \/ ApplyLeg(r) \/ BackfillKey(r)
    <3>1. pc[r] \notin {"audit", "done"} /\ UNCHANGED <<cmd[r], answer[r]>>
      BY <2>6 DEF ReserveFresh, LockRow, PassesChecks, ApplyLeg, BackfillKey
    <3>2. answer[r].kind = "none"
      BY <1>1, <3>1 DEF Decided
    <3> QED BY <2>3, <2>2, <3>1, <3>2
  <2>7. CASE Replay(r)
    <3>1. PICK row \in keys : /\ row.key = cmd[r].key /\ row.hash = cmd[r].legs
                              /\ Tell(r, "replayed", row.tx)
      BY <2>7 DEF Replay, RequestHash
    <3>2. PICK q \in Requests, x \in ledger :
                 /\ pc[q] = "done" /\ cmd[q] \in Command
                 /\ x.id = <<q, 1>> /\ row.tx = <<q, 1>>
                 /\ row.key = cmd[q].key /\ row.hash = cmd[q].legs
      BY KeyRowMeans
    <3>3. cmd[r] \in Command /\ UNCHANGED cmd /\ pc'[r] = "done"
      BY <2>7 DEF Replay, TypeOK, Goto
    <3>4. cmd[q] = cmd[r]
      BY <3>1, <3>2, <3>3, SameCommand
    <3>5. answer'[r] = [kind |-> "replayed", tx |-> <<q, 1>>]
      BY <3>1, <3>2 DEF Tell, TypeOK
    <3>6. answer'[r].kind = "replayed" /\ answer'[r].tx = <<q, 1>>
      BY <3>5
    <3>7. x.id[1] = q
      BY <3>2
    <3>8. AnswerTrue(r)'
      BY <2>1, <2>4, <3>2, <3>3, <3>4, <3>6, <3>7 DEF AnswerTrue
    <3> QED BY <2>3, <3>3, <3>8 DEF Decided
  <2>8. CASE Conflict(r)
    <3>1. PICK row \in keys : row.key = cmd[r].key /\ row.hash # cmd[r].legs
      BY <2>8 DEF Conflict, RequestHash
    <3>2. PICK q \in Requests, x \in ledger :
                 /\ pc[q] = "done" /\ cmd[q] \in Command
                 /\ x.id = <<q, 1>> /\ row.tx = <<q, 1>>
                 /\ row.key = cmd[q].key /\ row.hash = cmd[q].legs
      BY KeyRowMeans
    <3>3. UNCHANGED cmd /\ pc'[r] = "audit" /\ answer'[r].kind = "idempotency_conflict"
      BY <2>8 DEF Conflict, Tell, TypeOK, Goto
    <3>4. x.id[1] = q
      BY <3>2
    <3>5. AnswerTrue(r)'
      BY <2>1, <2>4, <3>1, <3>2, <3>3, <3>4 DEF AnswerTrue
    <3> QED BY <2>3, <3>3, <3>5 DEF Decided
  <2>9. CASE FinishRefused(r)
    <3>1. pc'[r] = "done" /\ UNCHANGED <<cmd[r], answer[r]>>
      BY <2>9 DEF FinishRefused, Goto, TypeOK
    <3> QED BY <2>3, <2>2, <3>1
  <2>10. CASE Drops(r)
    <3>1. pc'[r] \in {"audit", "done"} /\ answer'[r].kind \in Refusals \cup {"failed"}
      BY <2>10 DEF Drops, Goto, Tell, TypeOK
    <3>2. \A kind \in Refusals \cup {"failed"} :
            kind \notin {"posted", "replayed", "idempotency_conflict"}
      BY DEF Refusals
    <3>3. AnswerTrue(r)'
      BY <2>4, <3>1, <3>2, PlainAnswerTrue
    <3> QED BY <2>3, <3>1, <3>3 DEF Decided
  <2> QED BY <1>3, <2>3, <2>5, <2>6, <2>7, <2>8, <2>9, <2>10 DEF RequestStep
<1>4. ASSUME NEW a \in Accounts, CloseAccount(a) \/ ReopenAccount(a)
      PROVE  \A q \in Requests : Decided(q)'
  <2>1. UNCHANGED <<ledger, cmd, pc, answer>>
    BY <1>4 DEF CloseAccount, ReopenAccount
  <2> QED BY <1>1, <2>1 DEF Decided, AnswerTrue
<1>5. \A q \in Requests : Decided(q)'
  BY <1>2, <1>3, <1>4, StepCases
<1> QED BY <1>5 DEF DecidedAnswersTrue, Decided
-----------------------------------------------------------------------------
(* The books. *)

\* What a commit moves: each account it touches by the sum of its legs' deltas,
\* and the legs touch accounts of their own currency only.
LEMMA CommitMoves ==
  ASSUME IInv, NEW r \in Requests, Commit(r)
  PROVE  /\ cmd[r] \in Command /\ pc[r] \notin {"idle", "done"}
         /\ ledger' = ledger \cup {LedgerRow(r, i) : i \in DOMAIN cmd[r].legs}
         /\ \A a \in Accounts :
              balance'[a] = balance[a] + Effect(cmd[r].legs, LastLeg(cmd[r].legs), a)
         /\ \A i \in DOMAIN cmd[r].legs :
              /\ cmd[r].legs[i].touches \subseteq Accounts
              /\ \A a \in cmd[r].legs[i].touches : CurrencyOf[a] = cmd[r].legs[i].currency
<1> DEFINE legs == cmd[r].legs
<1>1. /\ pc[r] = "commit" /\ Holding(r)
      /\ ledger' = ledger \cup {LedgerRow(r, i) : i \in DOMAIN legs}
      /\ locked[r] = Needed(r)
      /\ \A a \in Accounts : balance'[a] = IF a \in locked[r] THEN uBalance[r][a]
                                            ELSE balance[a]
  BY CommitWrites DEF IInv
<1>2. cmd[r] \in Command /\ leg[r] = LastLeg(legs) + 1
  BY <1>1 DEF IInv, TypeOK, WorkOnCurrent, LegInRange
<1>3. LastLeg(legs) \in {1, 2} /\ DOMAIN legs = 1..LastLeg(legs)
  BY <1>2, LegsType
<1>4. leg[r] - 1 = LastLeg(legs)
  BY <1>2, <1>3
<1>5. locked[r] = Touched(legs) /\ locked[r] \subseteq Accounts
  BY <1>1 DEF IInv, TypeOK, Needed
<1>6. ASSUME NEW i \in DOMAIN legs
      PROVE  /\ legs[i].touches \subseteq locked[r]
             /\ \A a \in legs[i].touches : CurrencyOf[a] = legs[i].currency
  BY <1>1, <1>3, <1>4, <1>5 DEF IInv, WorkOnCurrent, Touched
<1>7. \A a \in locked[r] : uBalance[r][a] = balance[a] + Effect(legs, LastLeg(legs), a)
  BY <1>1, <1>4 DEF IInv, WorkOnCurrent
<1>8. ASSUME NEW a \in Accounts \ locked[r]
      PROVE  balance[a] = balance[a] + Effect(legs, LastLeg(legs), a)
  <2>1. \A i \in DOMAIN legs : legs[i].delta[a] = 0
    BY <1>2, <1>6, EffectOfNextLeg
  <2>2. Effect(legs, LastLeg(legs), a) = 0
    BY <1>3, <2>1 DEF Effect
  <2>3. balance[a] \in Int
    BY DEF IInv, TypeOK
  <2> QED BY <2>2, <2>3
<1>9. \A a \in Accounts : balance'[a] = balance[a] + Effect(legs, LastLeg(legs), a)
  BY <1>1, <1>7, <1>8
<1> QED BY <1>1, <1>2, <1>5, <1>6, <1>9

\* Every account reconciles, said of each account.
LEMMA ReconcilesMeans ==
  Reconciles <=> \A a \in Accounts : balance[a] = ComputedBalance(a)
<1>1. Verify.allReconciled <=> Unreconciled = {}
  BY DEF Verify
<1> QED BY <1>1 DEF Reconciles, Unreconciled

\* One more row adds its delta to the computed balance.
LEMMA SumOneMore ==
  ASSUME NEW L, IsFiniteSet(L), L \subseteq Row, NEW x \in Row, x \notin L, NEW a \in AccountIds
  PROVE  /\ IsFiniteSet(L \cup {x})
         /\ SumFunction([row \in L |-> row.leg.delta[a]]) \in Int
         /\ SumFunction([row \in L \cup {x} |-> row.leg.delta[a]])
              = SumFunction([row \in L |-> row.leg.delta[a]]) + x.leg.delta[a]
<1> DEFINE M == L \cup {x}
           f == [row \in L |-> row.leg.delta[a]]
           g == [row \in M |-> row.leg.delta[a]]
<1>1. \A row \in Row : row.leg.delta[a] \in Int
  BY DEF Row, Leg
<1>2. DOMAIN f = L /\ DOMAIN g = M
  OBVIOUS
<1>3. IntOn(f, L) /\ IntOn(g, L) /\ IntOn(g, M) /\ \A row \in L : f[row] = g[row]
  BY <1>1 DEF IntOn
<1>4. g[x] = x.leg.delta[a] /\ g[x] \in Int
  BY <1>1
<1> HIDE DEF f, g
<1>5. /\ IsFiniteSet(M)
      /\ SumFunctionOnSet(g, M) = g[x] + SumFunctionOnSet(g, L)
  BY <1>3, SumPutIn
<1>6. SumFunctionOnSet(f, L) = SumFunctionOnSet(g, L) /\ SumFunctionOnSet(f, L) \in Int
  <2>1. SumFunctionOnSet(f, L) \in Int
    BY <1>3, SumRecursion
  <2>2. SumFunctionOnSet(f, L) = SumFunctionOnSet(g, L)
    BY <1>3, SumSame
  <2> QED BY <2>1, <2>2
<1>7. SumFunction(f) = SumFunctionOnSet(f, L) /\ SumFunction(g) = SumFunctionOnSet(g, M)
  BY <1>2 DEF SumFunction
<1>8. SumFunction(g) = SumFunction(f) + x.leg.delta[a]
  BY <1>4, <1>5, <1>6, <1>7
<1> QED BY <1>5, <1>6, <1>7, <1>8 DEF f, g

\* A commit keeps every account reconciled.
LEMMA CommitReconciles ==
  ASSUME IInv, NEW r \in Requests, Commit(r)
  PROVE  IsFiniteSet(ledger') /\ Reconciles'
<1> DEFINE legs == cmd[r].legs
           one == LedgerRow(r, 1)
           two == LedgerRow(r, 2)
           sum(L, a) == SumFunction([row \in L |-> row.leg.delta[a]])
<1>1. /\ cmd[r] \in Command /\ pc[r] # "done"
      /\ ledger' = ledger \cup {LedgerRow(r, i) : i \in DOMAIN legs}
      /\ \A a \in Accounts : balance'[a] = balance[a] + Effect(legs, LastLeg(legs), a)
  BY CommitMoves
<1>2. /\ LastLeg(legs) \in {1, 2} /\ DOMAIN legs = 1..LastLeg(legs)
      /\ \A i \in DOMAIN legs : legs[i] \in Leg
  BY <1>1, LegsType
<1>3. \A i \in DOMAIN legs : LedgerRow(r, i) \in Row \ ledger
  <2> SUFFICES ASSUME NEW i \in DOMAIN legs PROVE LedgerRow(r, i) \in Row \ ledger
    OBVIOUS
  <2>1. LedgerRow(r, i) \in Row
    BY <1>2 DEF LedgerRow, Row, TxId
  <2>2. LedgerRow(r, i).id[1] = r
    BY DEF LedgerRow
  <2>3. \A x \in ledger : x.id[1] # r
    BY <1>1, NothingMine DEF IInv
  <2> QED BY <2>1, <2>2, <2>3
<1>4. one # two /\ one.leg = legs[1] /\ two.leg = legs[2]
  <2>1. one.id = <<r, 1>> /\ two.id = <<r, 2>>
    BY DEF LedgerRow
  <2>2. one.leg = legs[1] /\ two.leg = legs[2]
    BY DEF LedgerRow
  <2> HIDE DEF one, two
  <2>3. <<r, 1>> # <<r, 2>>
    OBVIOUS
  <2> QED BY <2>1, <2>2, <2>3
<1>5. \A a \in Accounts : a \in AccountIds /\ balance[a] = sum(ledger, a)
  BY ReconcilesMeans, RulesAssumption DEF IInv, ComputedBalance
<1>6. IsFiniteSet(ledger) /\ ledger \subseteq Row
  BY DEF IInv, TypeOK
<1>7. 1 \in DOMAIN legs /\ one \in Row \ ledger
  <2>1. 1 \in DOMAIN legs
    BY <1>2
  <2> QED BY <1>3, <2>1
<1> DEFINE L == ledger \cup {one}
<1>8. /\ IsFiniteSet(L) /\ L \subseteq Row
      /\ \A a \in Accounts : sum(ledger, a) \in Int /\ sum(L, a) = sum(ledger, a) + legs[1].delta[a]
  <2>1. IsFiniteSet(L) /\ L \subseteq Row
    BY <1>6, <1>7, FS_AddElement
  <2>2. ASSUME NEW a \in Accounts
        PROVE  sum(ledger, a) \in Int /\ sum(L, a) = sum(ledger, a) + legs[1].delta[a]
    <3> HIDE DEF one, legs
    <3>1. a \in AccountIds
      BY <1>5
    <3> QED BY <1>4, <1>6, <1>7, <3>1, SumOneMore, ZenonT(20)
  <2> QED BY <2>1, <2>2
<1>9. CASE LastLeg(legs) = 1
  <2>1. DOMAIN legs = {1}
    BY <1>2, <1>9
  <2>2. ledger' = L
    BY <1>1, <2>1
  <2>3. \A a \in Accounts : Effect(legs, LastLeg(legs), a) = legs[1].delta[a]
    BY <1>9 DEF Effect
  <2> HIDE DEF L, sum, legs
  <2>4. \A a \in Accounts : balance'[a] = sum(L, a)
    BY <1>1, <1>5, <1>8, <2>3
  <2>5. \A a \in Accounts : ComputedBalance(a)' = sum(L, a)
    BY <2>2 DEF ComputedBalance, sum
  <2>6. Reconciles'
    <3>1. Unreconciled' = {}
      BY <2>4, <2>5 DEF Unreconciled
    <3> QED BY <3>1 DEF Reconciles, Verify
  <2> QED BY <1>8, <2>2, <2>6
<1>10. CASE LastLeg(legs) = 2
  <2>1. DOMAIN legs = {1, 2}
    BY <1>2, <1>10
  <2> DEFINE M == L \cup {two}
  <2>2. ledger' = M
    BY <1>1, <2>1
  <2>3. \A a \in Accounts : Effect(legs, LastLeg(legs), a) = legs[1].delta[a] + legs[2].delta[a]
    BY <1>10 DEF Effect
  <2>4. two \in Row /\ two \notin L
    <3>1. two \in Row \ ledger
      BY <1>3, <2>1
    <3> HIDE DEF one, two
    <3> QED BY <1>4, <3>1
  <2>5. IsFiniteSet(M)
    BY <1>8, FS_AddElement
  <2>6. ASSUME NEW a \in Accounts
        PROVE  sum(M, a) = sum(L, a) + legs[2].delta[a]
    <3> HIDE DEF one, two, legs, L
    <3>1. a \in AccountIds /\ IsFiniteSet(L) /\ L \subseteq Row
      BY <1>5, <1>8
    <3>2. two \in Row /\ two \notin L /\ two.leg = legs[2]
      BY <1>4, <2>4
    <3>3. sum(M, a) = sum(L, a) + two.leg.delta[a]
      BY <3>1, <3>2, SumOneMore
    <3> QED BY <3>2, <3>3
  <2>7. \A a \in Accounts : legs[1].delta[a] \in Int /\ legs[2].delta[a] \in Int
    BY <1>1, <2>1, EffectOfNextLeg
  <2> HIDE DEF L, M, sum, legs
  <2>8. \A a \in Accounts : balance'[a] = sum(M, a)
    BY <1>1, <1>5, <1>8, <2>3, <2>6, <2>7
  <2>9. \A a \in Accounts : ComputedBalance(a)' = sum(M, a)
    BY <2>2 DEF ComputedBalance, sum
  <2>10. Reconciles'
    <3>1. Unreconciled' = {}
      BY <2>8, <2>9 DEF Unreconciled
    <3> QED BY <3>1 DEF Reconciles, Verify
  <2> QED BY <2>2, <2>5, <2>10
<1> QED BY <1>2, <1>9, <1>10

\* The mirror of a balanced row is balanced.
LEMMA MirrorBalanced ==
  ASSUME NEW row \in Row, Balanced(row.leg)
  PROVE  Balanced(Mirror(row))
<1> DEFINE l == row.leg
           m == Mirror(row)
<1>1. l \in Leg /\ l.touches \subseteq AccountIds /\ l.delta \in [AccountIds -> Int]
  BY DEF Row, Leg
<1>2. m.touches = l.touches /\ m.delta = [a \in AccountIds |-> -l.delta[a]]
  BY DEF Mirror
<1>3. IsFiniteSet(l.touches)
  BY <1>1, RulesAssumption, PartFinite
<1>4. SumFunctionOnSet(l.delta, l.touches) = 0
  BY DEF Balanced
<1> HIDE DEF l, m
<1>5. IntOn(l.delta, l.touches) /\ \A a \in l.touches : m.delta[a] = -l.delta[a]
  BY <1>1, <1>2 DEF IntOn
<1>6. SumFunctionOnSet(m.delta, l.touches) = -SumFunctionOnSet(l.delta, l.touches)
  BY <1>3, <1>5, SumOfOpposites
<1>7. SumFunctionOnSet(m.delta, m.touches) = 0
  BY <1>2, <1>4, <1>6
<1> QED BY <1>7 DEF Balanced, m

\* The legs of a reversal are balanced.
LEMMA ReversalBalanced ==
  ASSUME ledger \subseteq Row, \A x \in ledger : Balanced(x.leg), NEW named \in ledger,
         NEW seen
  PROVE  \A i \in DOMAIN ReversalLegs(named, seen) : Balanced(ReversalLegs(named, seen)[i])
<1>1. \A x \in ledger : Balanced(Mirror(x))
  BY MirrorBalanced
<1>2. ASSUME NEW x, NEW y, Balanced(x), Balanced(y)
      PROVE  /\ \A i \in DOMAIN <<x>> : Balanced(<<x>>[i])
             /\ \A i \in DOMAIN <<x, y>> : Balanced(<<x, y>>[i])
  <2>1. DOMAIN <<x>> = {1} /\ DOMAIN <<x, y>> = {1, 2}
    OBVIOUS
  <2>2. <<x>>[1] = x /\ <<x, y>>[1] = x /\ <<x, y>>[2] = y
    OBVIOUS
  <2> QED BY <1>2, <2>1, <2>2
<1>3. CASE Counterparts(named) = {}
  <2>1. ReversalLegs(named, seen) = <<Mirror(named)>>
    BY <1>3 DEF ReversalLegs
  <2> QED BY <1>1, <1>2, <2>1
<1>4. CASE Counterparts(named) # {}
  <2> DEFINE other == CHOOSE x \in Counterparts(named) : TRUE
  <2>1. other \in ledger
    BY <1>4 DEF Counterparts
  <2>2. \/ ReversalLegs(named, seen) = <<Mirror(named)>>
        \/ ReversalLegs(named, seen) = <<Mirror(named), Mirror(other)>>
        \/ ReversalLegs(named, seen) = <<Mirror(other), Mirror(named)>>
    BY <1>4 DEF ReversalLegs
  <2> HIDE DEF other
  <2>3. Balanced(Mirror(named)) /\ Balanced(Mirror(other))
    BY <1>1, <2>1
  <2> QED BY <1>2, <2>2, <2>3
<1> QED BY <1>3, <1>4

\* A request gets its command when it arrives, and keeps it.
LEMMA CommandsArrive ==
  ASSUME TypeOK, Next
  PROVE  \/ \E r \in Requests : BeginPost(r) \/ BeginReversal(r)
         \/ UNCHANGED cmd /\ \A r \in Requests : pc[r] = "idle" => pc'[r] = "idle"
<1>1. ASSUME NEW r \in Requests, Step(r) \/ Abort(r)
      PROVE  UNCHANGED cmd /\ pc[r] # "idle" /\ \A q \in Requests \ {r} : pc'[q] = pc[q]
  <2> USE <1>1 DEF TypeOK, committed, uncommitted, Goto
  <2>1. CASE ReserveFresh(r) \/ Replay(r) \/ Conflict(r)
    BY <2>1 DEF ReserveFresh, Replay, Conflict
  <2>2. CASE (\E a \in Accounts : LockRow(r, a)) \/ ApplyLeg(r) \/ BackfillKey(r)
    BY <2>2 DEF LockRow, ApplyLeg, BackfillKey
  <2>3. CASE CheckRows(r)
    BY <2>3 DEF CheckRows, Refuse
  <2>4. CASE RefuseLeg(r)
    BY <2>4 DEF RefuseLeg, Refuse
  <2>5. CASE Commit(r) \/ FinishRefused(r) \/ Abort(r)
    BY <2>5 DEF Commit, FinishRefused, Abort
  <2>6. CASE BreakDeadlock(r)
    <3>1. pc[r] = "lock"
      BY <2>6 DEF BreakDeadlock, Deadlocked, Stuck
    <3> QED BY <2>6, <3>1 DEF BreakDeadlock
  <2> QED BY <2>1, <2>2, <2>3, <2>4, <2>5, <2>6 DEF Step
<1>2. ASSUME NEW a \in Managed, CloseAccount(a) \/ ReopenAccount(a)
      PROVE  UNCHANGED <<cmd, pc>>
  BY <1>2 DEF CloseAccount, ReopenAccount
<1> QED BY <1>1, <1>2 DEF Next

\* Legs stay balanced: those that arrive are, and so are those that are recorded.
LEMMA BalancedStep ==
  ASSUME IInv, Next
  PROVE  LegsBalanced'
<1>1. \A q \in Requests : pc'[q] # "idle" =>
        \A i \in DOMAIN cmd'[q].legs : Balanced(cmd'[q].legs[i])
  <2>1. ASSUME NEW r \in Requests, NEW c, Begin(r, c), \A i \in DOMAIN c.legs : Balanced(c.legs[i])
        PROVE  \A q \in Requests : pc'[q] # "idle" =>
                 \A i \in DOMAIN cmd'[q].legs : Balanced(cmd'[q].legs[i])
    <3>1. cmd'[r] = c /\ \A q \in Requests \ {r} : cmd'[q] = cmd[q] /\ pc'[q] = pc[q]
      BY <2>1 DEF Begin, Goto, IInv, TypeOK
    <3> QED BY <2>1, <3>1 DEF IInv, LegsBalanced
  <2>2. CASE \E r \in Requests : BeginPost(r)
    BY <2>1, <2>2, CommandsAssumption DEF BeginPost
  <2>3. CASE \E r \in Requests : BeginReversal(r)
    <3>1. PICK r \in Requests, named \in ledger, k \in Keys :
            \E seen : Begin(r, [key |-> k, legs |-> ReversalLegs(named, seen)])
      BY <2>3 DEF BeginReversal
    <3>2. PICK seen : Begin(r, [key |-> k, legs |-> ReversalLegs(named, seen)])
      BY <3>1
    <3>3. \A i \in DOMAIN ReversalLegs(named, seen) : Balanced(ReversalLegs(named, seen)[i])
      BY ReversalBalanced DEF IInv, TypeOK, LegsBalanced
    <3> QED BY <2>1, <3>2, <3>3
  <2>4. CASE UNCHANGED cmd /\ \A r \in Requests : pc[r] = "idle" => pc'[r] = "idle"
    BY <2>4 DEF IInv, LegsBalanced
  <2> QED BY <2>2, <2>3, <2>4, CommandsArrive DEF IInv
<1>2. \A x \in ledger' : Balanced(x.leg)
  <2>1. ASSUME NEW r \in Requests, Commit(r) PROVE \A x \in ledger' : Balanced(x.leg)
    <3>1. ledger' = ledger \cup {LedgerRow(r, i) : i \in DOMAIN cmd[r].legs} /\ pc[r] # "idle"
      BY <2>1, CommitMoves
    <3>2. \A i : LedgerRow(r, i).leg = cmd[r].legs[i]
      BY DEF LedgerRow
    <3> QED BY <3>1, <3>2 DEF IInv, LegsBalanced
  <2>2. ASSUME UNCHANGED ledger PROVE \A x \in ledger' : Balanced(x.leg)
    BY <2>2 DEF IInv, LegsBalanced
  <2>3. ASSUME NEW a \in Accounts, CloseAccount(a) \/ ReopenAccount(a) PROVE UNCHANGED ledger
    BY <2>3 DEF CloseAccount, ReopenAccount
  <2> QED BY <2>1, <2>2, <2>3, OnlyCommitWrites, StepCases DEF IInv
<1> QED BY <1>1, <1>2 DEF LegsBalanced

InCurrency(c) == {a \in Accounts : CurrencyOf[a] = c}

\* The two totals of a currency are the sum over all its accounts.
LEMMA PositionIsSum ==
  ASSUME TypeOK, NEW c
  PROVE  /\ IsFiniteSet(InCurrency(c)) /\ IntOn(balance, InCurrency(c))
         /\ Position(c).normal + Position(c).external = SumFunctionOnSet(balance, InCurrency(c))
<1> DEFINE N == {a \in Accounts \ ExternalAccounts : CurrencyOf[a] = c}
           E == {a \in ExternalAccounts : CurrencyOf[a] = c}
<1>1. IsFiniteSet(Accounts) /\ ExternalAccounts \subseteq Accounts
  BY RulesAssumption, PartFinite
<1>2. /\ N \subseteq Accounts /\ E \subseteq Accounts
      /\ N \cap E = {} /\ N \cup E = InCurrency(c)
  BY <1>1 DEF InCurrency
<1>3. IsFiniteSet(InCurrency(c)) /\ IntOn(balance, InCurrency(c))
  BY <1>1, PartFinite DEF InCurrency, IntOn, TypeOK
<1>4. Position(c).normal = SumFunctionOnSet(balance, N)
      /\ Position(c).external = SumFunctionOnSet(balance, E)
  BY DEF Position
<1> HIDE DEF N, E
<1>5. IsFiniteSet(N) /\ IsFiniteSet(E)
  BY <1>1, <1>2, PartFinite
<1>6. SumFunctionOnSet(balance, N \cup E) = SumFunctionOnSet(balance, N) + SumFunctionOnSet(balance, E)
  BY <1>2, <1>3, <1>5, SumOfUnion
<1> QED BY <1>2, <1>3, <1>4, <1>6

\* A balanced leg that touches accounts of its own currency adds nothing to the
\* accounts of any currency.
LEMMA LegAddsNothing ==
  ASSUME NEW l \in Leg, Balanced(l), l.touches \subseteq Accounts,
         \A a \in l.touches : CurrencyOf[a] = l.currency, NEW c
  PROVE  IntOn(l.delta, InCurrency(c)) /\ SumFunctionOnSet(l.delta, InCurrency(c)) = 0
<1>1. /\ l.delta \in [AccountIds -> Int]
      /\ \A a \in Accounts \ l.touches : l.delta[a] = 0
  BY RulesAssumption DEF Leg
<1>2. IsFiniteSet(InCurrency(c)) /\ InCurrency(c) \subseteq Accounts
  BY RulesAssumption, PartFinite DEF InCurrency
<1>3. IntOn(l.delta, InCurrency(c))
  BY <1>1, <1>2, RulesAssumption DEF IntOn
<1>4. CASE l.currency = c
  <2>1. l.touches \subseteq InCurrency(c)
    BY <1>4 DEF InCurrency
  <2>2. \A a \in InCurrency(c) \ l.touches : l.delta[a] = 0
    BY <1>1, <1>2
  <2>3. SumFunctionOnSet(l.delta, InCurrency(c)) = SumFunctionOnSet(l.delta, l.touches)
    BY <1>2, <1>3, <2>1, <2>2, SumOverPart
  <2> QED BY <1>3, <2>3 DEF Balanced
<1>5. CASE l.currency # c
  <2>1. \A a \in InCurrency(c) : l.delta[a] = 0
    BY <1>1, <1>5 DEF InCurrency
  <2>2. SumFunctionOnSet(l.delta, InCurrency(c)) = 0
    BY <1>2, <2>1, SumOfZeros
  <2> QED BY <1>3, <2>2
<1> QED BY <1>4, <1>5

\* A commit conserves the money of every currency.
LEMMA CommitConserves ==
  ASSUME IInv, NEW r \in Requests, Commit(r), TypeOK', NEW c \in Currencies
  PROVE  SumFunctionOnSet(balance', InCurrency(c)) = SumFunctionOnSet(balance, InCurrency(c))
<1> DEFINE legs == cmd[r].legs
           A == InCurrency(c)
           one == legs[1].delta
           two == legs[2].delta
           mid == [a \in Accounts |-> balance[a] + one[a]]
<1>1. /\ cmd[r] \in Command /\ pc[r] # "idle"
      /\ \A a \in Accounts : balance'[a] = balance[a] + Effect(legs, LastLeg(legs), a)
      /\ \A i \in DOMAIN legs :
           /\ legs[i].touches \subseteq Accounts
           /\ \A a \in legs[i].touches : CurrencyOf[a] = legs[i].currency
  BY CommitMoves
<1>2. /\ LastLeg(legs) \in {1, 2} /\ DOMAIN legs = 1..LastLeg(legs)
      /\ \A i \in DOMAIN legs : legs[i] \in Leg /\ Balanced(legs[i])
  BY <1>1, LegsType DEF IInv, LegsBalanced
<1>3. \A i \in DOMAIN legs : IntOn(legs[i].delta, A) /\ SumFunctionOnSet(legs[i].delta, A) = 0
  BY <1>1, <1>2, LegAddsNothing
<1>4. IsFiniteSet(A) /\ IntOn(balance, A) /\ IntOn(balance', A) /\ A \subseteq Accounts
  BY PositionIsSum DEF IInv, InCurrency, IntOn, TypeOK
<1>5. SumFunctionOnSet(balance, A) \in Int
  BY <1>4, SumRecursion
<1>6. 1 \in DOMAIN legs
  BY <1>2
<1>7. IntOn(one, A) /\ SumFunctionOnSet(one, A) = 0
  BY <1>3, <1>6
<1> HIDE DEF legs, A
<1>8. CASE LastLeg(legs) = 1
  <2>1. \A a \in A : balance'[a] = balance[a] + one[a]
    BY <1>1, <1>4, <1>8 DEF Effect
  <2>2. SumFunctionOnSet(balance', A) = SumFunctionOnSet(balance, A) + SumFunctionOnSet(one, A)
    BY <1>4, <1>7, <2>1, SumOfSums
  <2> QED BY <1>5, <1>7, <2>2 DEF A
<1>9. CASE LastLeg(legs) = 2
  <2>1. IntOn(two, A) /\ SumFunctionOnSet(two, A) = 0
    BY <1>2, <1>3, <1>9
  <2>2. \A a \in A : mid[a] = balance[a] + one[a]
    BY <1>4
  <2>3. \A a \in A : balance'[a] = mid[a] + two[a]
    <3>1. \A a \in A : balance'[a] = balance[a] + (one[a] + two[a])
      BY <1>1, <1>4, <1>9 DEF Effect
    <3> HIDE DEF mid
    <3> QED BY <1>4, <1>7, <2>1, <2>2, <3>1 DEF IntOn
  <2> HIDE DEF mid, one, two
  <2>4. IntOn(mid, A)
    BY <1>4, <1>7, <2>2 DEF IntOn
  <2>5. SumFunctionOnSet(mid, A) = SumFunctionOnSet(balance, A) + SumFunctionOnSet(one, A)
    BY <1>4, <1>7, <2>2, SumOfSums
  <2>6. SumFunctionOnSet(balance', A) = SumFunctionOnSet(mid, A) + SumFunctionOnSet(two, A)
    BY <1>4, <2>1, <2>3, <2>4, SumOfSums
  <2> QED BY <1>5, <1>7, <2>1, <2>5, <2>6 DEF A
<1> QED BY <1>2, <1>8, <1>9

\* Every step keeps the books: every account reconciles, every currency sums to zero.
LEMMA BooksStep ==
  ASSUME IInv, Next, TypeOK'
  PROVE  IsFiniteSet(ledger') /\ Reconciles' /\ Conserved'
<1>1. ASSUME NEW r \in Requests, Commit(r)
      PROVE  IsFiniteSet(ledger') /\ Reconciles' /\ Conserved'
  <2>1. IsFiniteSet(ledger') /\ Reconciles'
    BY <1>1, CommitReconciles
  <2>2. ASSUME NEW c \in Currencies
        PROVE  Position(c).normal' + Position(c).external' = 0
    <3>1. Position(c).normal + Position(c).external = SumFunctionOnSet(balance, InCurrency(c))
      BY PositionIsSum DEF IInv
    <3>2. (Position(c).normal + Position(c).external = SumFunctionOnSet(balance, InCurrency(c)))'
      BY PositionIsSum, PTL
    <3>3. Position(c).normal + Position(c).external = 0
      BY DEF IInv, Conserved
    <3>4. SumFunctionOnSet(balance', InCurrency(c)) = SumFunctionOnSet(balance, InCurrency(c))
      BY <1>1, CommitConserves
    <3> QED BY <3>1, <3>2, <3>3, <3>4 DEF InCurrency
  <2> QED BY <2>1, <2>2 DEF Conserved
<1>2. ASSUME UNCHANGED <<balance, ledger>>
      PROVE  IsFiniteSet(ledger') /\ Reconciles' /\ Conserved'
  BY <1>2 DEF IInv, Reconciles, Verify, Unreconciled, ComputedBalance, Conserved, Position
<1>3. ASSUME NEW a \in Accounts, CloseAccount(a) \/ ReopenAccount(a)
      PROVE  UNCHANGED <<balance, ledger>>
  BY <1>3 DEF CloseAccount, ReopenAccount
<1> QED BY <1>1, <1>2, <1>3, OnlyCommitWrites, StepCases DEF IInv
-----------------------------------------------------------------------------
(* The invariant, for every number of requests, accounts, keys and commands. *)

\* The inductive invariant holds of an empty ledger.
LEMMA InitIInv == Init => IInv
<1> SUFFICES ASSUME Init PROVE IInv
  OBVIOUS
<1> USE DEF Init
<1>1. TypeOK
  BY DEF TypeOK, Answers
<1>2. LocksExclusive /\ NothingLeftOpen /\ ChecksStillHold /\ WorkOnCurrent
  BY DEF LocksExclusive, NothingLeftOpen, ChecksStillHold, WorkOnCurrent, Holding
<1>3. ReservationsExclusive /\ HistoryMatchesKeys
  BY DEF ReservationsExclusive, HistoryMatchesKeys, Holding
<1>4. AllRows = {}
  BY DEF AllRows
<1>5. ReversalsDistinct
  BY <1>4 DEF ReversalsDistinct
<1>6. BalancesAllowed /\ ClosedIsEmpty
  BY RulesAssumption DEF BalancesAllowed, ClosedIsEmpty, FundsRule, Storable
<1>7. \A r \in Requests : answer[r].kind = "none"
  OBVIOUS
<1>8. DecidedAnswersTrue
  BY <1>7 DEF DecidedAnswersTrue, AnswerTrue
<1>9. IsFiniteSet(ledger) /\ LegsBalanced
  BY FS_EmptySet DEF LegsBalanced
<1>10. \A a \in Accounts : ComputedBalance(a) = 0
  <2> SUFFICES ASSUME NEW a \in Accounts PROVE ComputedBalance(a) = 0
    OBVIOUS
  <2> DEFINE f == [row \in {} |-> row.leg.delta[a]]
  <2>1. ComputedBalance(a) = SumFunction(f) /\ DOMAIN f = {}
    BY DEF ComputedBalance
  <2> HIDE DEF f
  <2> QED BY <2>1, SumEmpty DEF SumFunction
<1>11. Reconciles
  BY <1>10, ReconcilesMeans
<1>12. Conserved
  <2> SUFFICES ASSUME NEW c \in Currencies
               PROVE  Position(c).normal + Position(c).external = 0
    BY DEF Conserved
  <2>1. IsFiniteSet(InCurrency(c)) /\ \A a \in InCurrency(c) : balance[a] = 0
    BY <1>1, PositionIsSum DEF InCurrency
  <2>2. SumFunctionOnSet(balance, InCurrency(c)) = 0
    BY <2>1, SumOfZeros
  <2> QED BY <1>1, <2>2, PositionIsSum
<1> QED BY <1>1, <1>2, <1>3, <1>5, <1>6, <1>8, <1>9, <1>11, <1>12 DEF IInv

\* Every step keeps the inductive invariant: its parts, put together.
LEMMA StepIInv == IInv /\ [Next]_vars => IInv'
<1> SUFFICES ASSUME IInv, [Next]_vars PROVE IInv'
  OBVIOUS
<1>1. CASE Next
  <2>1. NextLegExists
    BY DEF IInv, WorkOnCurrent, Holding, LegInRange, NextLegExists
  <2>2. TypeOK'
    BY <1>1, <2>1, TypeStep DEF IInv
  <2>3. LocksExclusive' /\ NothingLeftOpen' /\ ChecksStillHold'
    BY <1>1, LocksStep DEF IInv
  <2>4. WorkOnCurrent'
    BY <1>1, WorkStep DEF IInv
  <2>5. ReservationsExclusive'
    BY <1>1, ReservationsStep
  <2>6. HistoryMatchesKeys'
    BY <1>1, HistoryStep
  <2>7. ReversalsDistinct'
    BY <1>1, ReversalsStep
  <2>8. BalancesAllowed' /\ ClosedIsEmpty'
    BY <1>1, MoneyStep
  <2>9. DecidedAnswersTrue'
    BY <1>1, AnswersStep
  <2>10. LegsBalanced'
    BY <1>1, BalancedStep
  <2>11. IsFiniteSet(ledger') /\ Reconciles' /\ Conserved'
    BY <1>1, <2>2, BooksStep
  <2> QED BY <2>2, <2>3, <2>4, <2>5, <2>6, <2>7, <2>8, <2>9, <2>10, <2>11 DEF IInv
<1>2. CASE UNCHANGED vars
  <2> USE <1>2 DEF IInv, vars, committed, uncommitted
  <2>1. TypeOK'
    BY DEF TypeOK
  <2>2. LocksExclusive' /\ NothingLeftOpen' /\ ChecksStillHold'
    BY DEF LocksExclusive, NothingLeftOpen, ChecksStillHold, Holding, Existing, Needed
  <2>3. WorkOnCurrent'
    BY DEF WorkOnCurrent, Holding, LegInRange, LedgerRow
  <2>4. ReservationsExclusive' /\ HistoryMatchesKeys'
    BY DEF ReservationsExclusive, HistoryMatchesKeys, Recorded, Holding, KeyRowOf, LedgerRow
  <2>5. ReversalsDistinct' /\ BalancesAllowed' /\ ClosedIsEmpty'
    BY DEF ReversalsDistinct, AllRows, BalancesAllowed, ClosedIsEmpty
  <2>6. DecidedAnswersTrue'
    BY DEF DecidedAnswersTrue, AnswerTrue
  <2>7. IsFiniteSet(ledger') /\ LegsBalanced'
    BY DEF LegsBalanced
  <2>8. Reconciles' /\ Conserved'
    BY DEF Reconciles, Verify, Unreconciled, ComputedBalance, Conserved, Position
  <2> QED BY <2>1, <2>2, <2>3, <2>4, <2>5, <2>6, <2>7, <2>8
<1> QED BY <1>1, <1>2

\* The inductive invariant holds of every behaviour: what each open transaction
\* relies on (its locks, its reads, its reservation) is never disturbed by the
\* others, whatever their number and order.
THEOREM Invariance == Spec => []IInv
BY InitIInv, StepIInv, PTL DEF Spec

\* Every variable keeps its type; in particular no key row ever holds anything
\* but a transaction id or NULL.
THEOREM TypeCorrect == Spec => []TypeOK
<1>1. IInv => TypeOK
  BY DEF IInv
<1> QED BY <1>1, Invariance, PTL

\* Reconciliation never finds an account off the sum of its postings: postings
\* that interleave on an account never lose an update.
THEOREM AccountsReconcile == Spec => []Reconciles
<1>1. IInv => Reconciles
  BY DEF IInv
<1> QED BY <1>1, Invariance, PTL

\* What the customers of a currency hold and its external accounts cancel, in
\* every state, through transfers, exchanges, reversals and refusals.
THEOREM MoneyIsConserved == Spec => []Conserved
<1>1. IInv => Conserved
  BY DEF IInv
<1> QED BY <1>1, Invariance, PTL

\* The sufficient-funds rule and the storable range hold of every committed
\* balance, although they are checked against a value read earlier.
THEOREM BalancesStayAllowed == Spec => []BalancesAllowed
<1>1. IInv => BalancesAllowed
  BY DEF IInv
<1> QED BY <1>1, Invariance, PTL

\* A closed account is empty and stays so until it is reopened, although
\* closing it races with the postings that touch it.
THEOREM ClosedStaysEmpty == Spec => []ClosedIsEmpty
<1>1. IInv => ClosedIsEmpty
  BY DEF IInv
<1> QED BY <1>1, Invariance, PTL

\* One key, one posting: concurrent duplicates and retries post once, and the
\* key row names that posting.
THEOREM KeysPostOnce == Spec => []OncePerKey
<1>1. IInv => OncePerKey
  <2> SUFFICES ASSUME IInv PROVE OncePerKey
    OBVIOUS
  <2>1. ASSUME NEW x \in ledger, NEW y \in ledger, cmd[x.id[1]].key = cmd[y.id[1]].key
        PROVE  x.id[1] = y.id[1]
    <3> DEFINE p == x.id[1]
               q == y.id[1]
               kx == KeyRowOf(p, <<p, 1>>)
               ky == KeyRowOf(q, <<q, 1>>)
    <3>1. kx \in keys /\ ky \in keys
      BY DEF IInv, HistoryMatchesKeys, Recorded
    <3>2. kx.key = cmd[p].key /\ ky.key = cmd[q].key /\ kx.tx = <<p, 1>> /\ ky.tx = <<q, 1>>
      BY DEF KeyRowOf
    <3> HIDE DEF kx, ky
    <3>3. kx = ky
      BY <2>1, <3>1, <3>2 DEF IInv, ReservationsExclusive
    <3> QED BY <3>2, <3>3
  <2>2. ASSUME NEW row \in keys
        PROVE  \E x \in ledger : /\ x.id = row.tx
                                 /\ cmd[x.id[1]].key = row.key
                                 /\ RequestHash(cmd[x.id[1]].legs) = row.hash
    <3>1. PICK q \in Requests, x \in ledger :
                 /\ x.id = <<q, 1>> /\ row.tx = <<q, 1>>
                 /\ row.key = cmd[q].key /\ row.hash = cmd[q].legs
      BY KeyRowMeans DEF IInv
    <3>2. x.id[1] = q
      BY <3>1
    <3> QED BY <3>1, <3>2 DEF RequestHash
  <2> QED BY <2>1, <2>2 DEF OncePerKey
<1> QED BY <1>1, Invariance, PTL

\* All legs of a posting are in the ledger, or none.
THEOREM PostingsAreWhole == Spec => []WholePosting
<1>1. IInv => WholePosting
  <2> SUFFICES ASSUME IInv, NEW x \in ledger, NEW i \in DOMAIN cmd[x.id[1]].legs
               PROVE  \E y \in ledger : y.id = <<x.id[1], i>>
    BY DEF WholePosting
  <2>1. LedgerRow(x.id[1], i) \in ledger
    BY DEF IInv, HistoryMatchesKeys, Recorded
  <2>2. LedgerRow(x.id[1], i).id = <<x.id[1], i>>
    BY DEF LedgerRow
  <2> QED BY <2>1, <2>2
<1> QED BY <1>1, Invariance, PTL

\* No committed transaction is reversed twice, by whatever keys and in whatever
\* order its reversals race.
THEOREM ReversalsHappenOnce == Spec => []ReversedOnce
<1>1. IInv => ReversedOnce
  BY DEF IInv, ReversalsDistinct, AllRows, ReversedOnce
<1> QED BY <1>1, Invariance, PTL

\* What a caller is told is true of the committed ledger.
THEOREM AnswersStayTrue == Spec => []AnswersAreTrue
<1>1. IInv => AnswersAreTrue
  BY DEF IInv, DecidedAnswersTrue, AnswersAreTrue
<1> QED BY <1>1, Invariance, PTL
-----------------------------------------------------------------------------
(* The routine implements the atomic ledger. *)

\* The atomic ledger reads the rules as the routine does.
LEMMA SameRules ==
  /\ \A legs : Atomic!Touched(legs) = Touched(legs) /\ Atomic!LastLeg(legs) = LastLeg(legs)
  /\ \A legs, n, a : Atomic!Effect(legs, n, a) = Effect(legs, n, a)
  /\ \A a, b : Atomic!FundsRule(a, b) = FundsRule(a, b)
  /\ \A b : Atomic!Storable(b) = Storable(b)
BY DEF Atomic!Touched, Touched, Atomic!LastLeg, LastLeg, Atomic!Effect, Effect,
       Atomic!FundsRule, FundsRule, Atomic!Storable, Storable

\* A commit is a posting of the atomic ledger.
LEMMA CommitIsPost ==
  ASSUME IInv, NEW r \in Requests, Commit(r)
  PROVE  Atomic!Next
<1> DEFINE legs == cmd[r].legs
           entry == KeyRowOf(r, <<r, 1>>)
<1>1. /\ pc[r] = "commit" /\ Holding(r)
      /\ UNCHANGED active
      /\ ledger' = ledger \cup {LedgerRow(r, i) : i \in DOMAIN legs}
      /\ keys' = keys \cup {entry}
      /\ locked[r] = Needed(r)
  BY CommitWrites DEF IInv
<1>2. cmd[r] \in Command /\ leg[r] = LastLeg(legs) + 1
  BY <1>1 DEF IInv, TypeOK, WorkOnCurrent, LegInRange
<1>3. LastLeg(legs) \in {1, 2} /\ DOMAIN legs = 1..LastLeg(legs)
  BY <1>2, LegsType
<1>4. leg[r] - 1 = LastLeg(legs)
  BY <1>2, <1>3
<1>5. entry.tx = <<r, 1>> /\ entry.tx[1] = r /\ entry.hash = legs /\ entry.key = cmd[r].key
  BY DEF KeyRowOf, RequestHash
<1>6. \A row \in keys : row.key # entry.key
  BY <1>1, <1>5 DEF IInv, ReservationsExclusive
<1>7. \A row \in ledger : row.id[1] # r
  BY <1>1, NothingMine DEF IInv
<1>8. /\ Touched(legs) = locked[r]
      /\ Touched(legs) \subseteq {a \in Accounts : active[a]}
  BY <1>1 DEF IInv, TypeOK, ChecksStillHold, Needed
<1>9. \A i \in DOMAIN legs : \A a \in legs[i].touches : CurrencyOf[a] = legs[i].currency
  BY <1>1, <1>3, <1>4 DEF IInv, WorkOnCurrent
<1>10. ASSUME NEW i \in DOMAIN legs, legs[i].reverses # NoTx, NEW row \in ledger
       PROVE  row.leg.reverses # legs[i].reverses
  <2>1. LedgerRow(r, i) \in uRows[r]
    BY <1>1, <1>3, <1>4 DEF IInv, WorkOnCurrent
  <2>2. LedgerRow(r, i) \in AllRows /\ row \in AllRows
    BY <2>1 DEF AllRows
  <2>3. LedgerRow(r, i).id[1] = r /\ LedgerRow(r, i).leg = legs[i]
    BY DEF LedgerRow
  <2>4. LedgerRow(r, i) # row
    BY <1>7, <2>3
  <2> HIDE DEF legs
  <2> QED BY <1>10, <2>2, <2>3, <2>4 DEF IInv, ReversalsDistinct
<1>11. \A a \in locked[r] : /\ uBalance[r][a] = balance[a] + Effect(legs, LastLeg(legs), a)
                            /\ FundsRule(a, uBalance[r][a]) /\ Storable(uBalance[r][a])
  BY <1>1, <1>4 DEF IInv, WorkOnCurrent
<1>12. balance' = [a \in Accounts |-> IF a \in Touched(legs)
                                      THEN balance[a] + Effect(legs, LastLeg(legs), a)
                                      ELSE balance[a]]
  <2>1. balance' = [a \in Accounts |-> IF a \in locked[r] THEN uBalance[r][a] ELSE balance[a]]
    BY DEF Commit
  <2> HIDE DEF legs
  <2> QED BY <1>8, <1>11, <2>1
<1>13. \A a \in Touched(legs) : FundsRule(a, balance'[a]) /\ Storable(balance'[a])
  <2>1. \A a \in locked[r] : a \in Accounts /\ balance'[a] = uBalance[r][a]
    BY CommitWrites DEF IInv, TypeOK
  <2> QED BY <1>8, <1>11, <2>1
<1>14. ledger' = ledger \cup Atomic!Rows(r, legs)
  BY <1>1 DEF Atomic!Rows, LedgerRow
<1>15. entry \in keys' \ keys
  BY <1>1, <1>6
<1> HIDE DEF legs, entry
<1>16. Atomic!Post(entry)
  BY <1>1, <1>5, <1>6, <1>7, <1>8, <1>9, <1>10, <1>12, <1>13, <1>14, SameRules DEF Atomic!Post
<1> QED BY <1>15, <1>16 DEF Atomic!Next

\* Each commit is one instantaneous posting, each admin's update a close or a
\* reopening, and no other step is visible.
THEOREM Refinement == Spec => ImplementsAtomicLedger
<1>1. Init => Atomic!Init
  BY DEF Init, Atomic!Init
<1>2. IInv /\ [Next]_vars => [Atomic!Next]_Atomic!vars
  <2> SUFFICES ASSUME IInv, [Next]_vars PROVE [Atomic!Next]_Atomic!vars
    OBVIOUS
  <2>1. ASSUME NEW r \in Requests, RequestStep(r)
        PROVE  [Atomic!Next]_Atomic!vars
    <3>1. CASE Commit(r)
      BY <3>1, CommitIsPost
    <3>2. CASE ~Commit(r)
      BY <2>1, <3>2, OnlyCommitWrites, RequestsKeepActive DEF Atomic!vars
    <3> QED BY <3>1, <3>2
  <2>2. ASSUME NEW a \in Accounts, CloseAccount(a) \/ ReopenAccount(a)
        PROVE  [Atomic!Next]_Atomic!vars
    BY <2>2 DEF CloseAccount, ReopenAccount, Atomic!Next, Atomic!Close, Atomic!Reopen
  <2>3. CASE UNCHANGED vars
    BY <2>3 DEF vars, committed, Atomic!vars
  <2> QED BY <2>1, <2>2, <2>3, StepCases DEF IInv
<1> QED BY <1>1, <1>2, Invariance, PTL DEF Spec, ImplementsAtomicLedger, Atomic!Spec
==============================================================================
