------------------------------ MODULE ResetProofs ------------------------------
(***************************************************************************)
(* No reset overdraws an account, for any number of tabs, calls, accounts  *)
(* and currencies and any size of chunk, although every chunk is planned   *)
(* from balances that nobody holds still: what a call has posted and not   *)
(* committed still fits the committed balance (Own), since nobody else can *)
(* post on the same account (Apart).                                       *)
(*                                                                         *)
(* And a reset never loses a break: the balances add up to what was        *)
(* tampered with, whatever was posted, and the difference never gets into  *)
(* the suspense account alone while an account behind it held a balance    *)
(* (The books, BInv).                                                      *)
(*                                                                         *)
(* And a reset that nobody disturbs completes, over a ledger that a reset  *)
(* can clear (Clearable: no approval required, nothing closed that holds a *)
(* balance, suspense names in the right hands, sums that can be stored)    *)
(* and with calls enough for the accounts there are: the run's own         *)
(* postings keep the ledger such a one (A reset that nobody disturbs,      *)
(* CInv).                                                                  *)
(***************************************************************************)
EXTENDS Reset, SumLemmas, TLAPS

Integral(d) == \A a \in DOMAIN d : d[a] \in Int

PlanOk(plan) == DOMAIN plan \subseteq Accounts /\ DOMAIN plan # {} /\ Integral(plan)

Fits(d) == \A a \in Normal \cap DOMAIN d : bal[a] + d[a] >= 0

Shape == DOMAIN bal = Accounts /\ DOMAIN pc = Calls /\ DOMAIN chunk = Calls /\ DOMAIN delta = Calls

Funds == (\A a \in Accounts : bal[a] \in Int) /\ (\A a \in Normal : bal[a] >= 0)

\* A call has a plan of whole balances, then a delta of whole numbers, then a delta
\* that fits.
Own(c) ==
  /\ pc[c] \in {"none", "gate", "plan", "suspense", "open"} => delta[c] = <<>>
  /\ pc[c] \in {"suspense", "open"} => PlanOk(chunk[c])
  /\ pc[c] = "post" => PlanOk(chunk[c]) /\ Integral(delta[c])
  /\ HasPosted(c) => Integral(delta[c]) /\ Fits(delta[c])

Disjoint(d, e) == DOMAIN d \cap DOMAIN e = {}

Apart ==
  \A c, q \in Calls : c # q /\ HasPosted(c) /\ HasPosted(q) => Disjoint(delta[c], delta[q])

IInv == Shape /\ Funds /\ (\A c \in Calls : Own(c)) /\ Apart

-----------------------------------------------------------------------------
(* The planner.                                                            *)

\* A set of numbers that has a member has a least one.
LEMMA LeastOf ==
  ASSUME NEW S \in SUBSET Nat, S # {}
  PROVE  Min(S) \in S /\ \A x \in S : Min(S) <= x
BY LeastNumber, Zenon DEF Min

\* A plan names a currency.
LEMMA PlanNames ==
  ASSUME NEW plan, PlanOk(plan)
  PROVE  CurrencyIn(plan) \in Currencies
<1>1. Min(DOMAIN plan) \in DOMAIN plan
  <2>1. DOMAIN plan \in SUBSET Nat /\ DOMAIN plan # {}
    BY ResetAssumption DEF PlanOk
  <2> QED BY <2>1, LeastOf
<1> QED
  BY <1>1, ResetAssumption DEF CurrencyIn, PlanOk

\* While a balance is left the planner takes one.
LEMMA PlannerTakes ==
  ASSUME IInv, NonZero(bal) # {}
  PROVE  PlanOk(Restrict(bal, Taken(bal)))
<1> DEFINE nonzero == NonZero(bal)
           currency == Min({CurrencyOf[a] : a \in nonzero})
           pending == {a \in nonzero : CurrencyOf[a] = currency}
           least == Min(pending)
<1>1. nonzero \subseteq Accounts
  BY DEF IInv, Shape, NonZero
<1>2. pending # {}
  <2> DEFINE currencies == {CurrencyOf[a] : a \in nonzero}
  <2>1. currencies \in SUBSET Nat /\ currencies # {}
    <3>1. \A a \in nonzero : CurrencyOf[a] \in Nat
      BY <1>1, ResetAssumption
    <3>2. nonzero # {}
      OBVIOUS
    <3> QED BY <3>1, <3>2
  <2>2. Min(currencies) \in currencies
    <3> HIDE DEF currencies
    <3> QED BY <2>1, LeastOf
  <2> QED BY <2>2
<1>3. least \in pending /\ \A b \in pending : least <= b
  <2>1. pending \in SUBSET Nat
    BY <1>1, ResetAssumption
  <2> QED BY <2>1, <1>2, LeastOf
<1>4. {b \in pending : b < least} = {}
  <2>1. pending \subseteq Nat
    BY <1>1, ResetAssumption
  <2> HIDE DEF pending, least
  <2>2. ASSUME NEW b \in pending PROVE ~(b < least)
    <3>1. least \in Nat /\ b \in Nat /\ least <= b
      BY <1>3, <2>1
    <3> QED BY <3>1
  <2> QED BY <2>2
<1>5. Cardinality({b \in pending : b < least}) < ChunkSize
  <2>1. Cardinality({b \in pending : b < least}) = 0
    BY <1>4, FS_EmptySet, Zenon
  <2> QED BY <2>1, ResetAssumption
<1>6. least \in Taken(bal)
  BY <1>3, <1>5 DEF Taken
<1>7. Taken(bal) \subseteq Accounts
  BY <1>1 DEF Taken
<1>8. DOMAIN Restrict(bal, Taken(bal)) = Taken(bal)
  BY DEF Restrict
<1>9. Integral(Restrict(bal, Taken(bal)))
  BY <1>7 DEF Integral, Restrict, IInv, Funds
<1> QED
  BY <1>6, <1>7, <1>8, <1>9 DEF PlanOk

\* What a chunk does is whole, on the suspense account too, whatever its type.
LEMMA ChunkIsWhole ==
  ASSUME NEW plan, PlanOk(plan), NEW suspense
  PROVE  Integral(ChunkDelta(plan, suspense))
<1> DEFINE total == SumFunction(plan)
           own(a) == IF a \in DOMAIN plan THEN -plan[a] ELSE 0
           rest(a) == IF a \in suspense THEN total ELSE 0
<1>1. total \in Int
  <2>1. IsFiniteSet(DOMAIN plan) /\ IntOn(plan, DOMAIN plan)
    BY ResetAssumption, PartFinite DEF PlanOk, Integral, IntOn
  <2> QED BY <2>1, SumRecursion DEF SumFunction
<1>2. \A a : own(a) \in Int /\ rest(a) \in Int
  <2> HIDE DEF total
  <2> QED BY <1>1 DEF PlanOk, Integral
<1>3. DOMAIN ChunkDelta(plan, suspense) = DOMAIN plan \cup suspense
  BY DEF ChunkDelta
<1>4. \A a \in DOMAIN plan \cup suspense : ChunkDelta(plan, suspense)[a] = own(a) + rest(a)
  BY DEF ChunkDelta
<1> HIDE DEF own, rest
<1> QED
  BY <1>2, <1>3, <1>4 DEF Integral

-----------------------------------------------------------------------------
(* One call at a time.                                                     *)

\* What a step of call c must keep, if balances stay: the other calls are as they
\* were, and what c has posted now meets nobody.
LEMMA CallStep ==
  ASSUME IInv, NEW c \in Calls, bal' = bal, Shape',
         \A q \in Calls \ {c} : pc'[q] = pc[q] /\ chunk'[q] = chunk[q] /\ delta'[q] = delta[q],
         Own(c)',
         HasPosted(c)' => \A q \in Calls \ {c} : HasPosted(q) => Disjoint(delta'[c], delta[q])
  PROVE  IInv'
<1>1. \A q \in Calls \ {c} : HasPosted(q)' <=> HasPosted(q)
  BY DEF HasPosted, At
<1>2. \A q \in Calls \ {c} : Own(q)'
  <2> SUFFICES ASSUME NEW q \in Calls \ {c} PROVE Own(q)'
    OBVIOUS
  <2>1. Own(q)
    BY DEF IInv
  <2>2. Fits(delta[q])' <=> Fits(delta[q])
    BY DEF Fits
  <2>3. Integral(delta[q])' <=> Integral(delta[q])
    BY DEF Integral
  <2>4. PlanOk(chunk[q])' <=> PlanOk(chunk[q])
    BY DEF PlanOk, Integral
  <2> QED
    BY <1>1, <2>1, <2>2, <2>3, <2>4 DEF Own
<1>3. Apart'
  BY <1>1 DEF IInv, Apart, Disjoint
<1>4. Funds'
  BY DEF IInv, Funds
<1> QED
  BY <1>2, <1>3, <1>4 DEF IInv

\* A call that posts nothing in a step, and moves on with its plan or its delta.
LEMMA QuietStep ==
  ASSUME IInv, NEW c \in Calls, bal' = bal, Shape',
         \A q \in Calls \ {c} : pc'[q] = pc[q] /\ chunk'[q] = chunk[q] /\ delta'[q] = delta[q],
         \/ pc'[c] \in {"gate", "plan"} /\ delta'[c] = <<>>
         \/ pc'[c] \in {"suspense", "open"} /\ delta'[c] = <<>> /\ PlanOk(chunk'[c])
         \/ pc'[c] = "post" /\ PlanOk(chunk'[c]) /\ Integral(delta'[c])
         \/ pc'[c] \in {"none", "count", "commit"} /\ delta'[c] = <<>>
  PROVE  IInv'
<1>1. ~HasPosted(c)'
  BY DEF HasPosted, At
<1>2. Own(c)'
  BY <1>1 DEF Own, PlanOk, Integral
<1> QED
  BY <1>1, <1>2, CallStep

\* The chunk becomes a delta, or is refused.
LEMMA ToPostIs ==
  ASSUME IInv, NEW c \in Calls, NEW plan, NEW suspense,
         PlanOk(plan), delta[c] = <<>>, ToPost(c, plan, suspense)
  PROVE  /\ DOMAIN pc' = Calls /\ DOMAIN delta' = Calls
         /\ \A q \in Calls \ {c} : pc'[q] = pc[q] /\ delta'[q] = delta[q]
         /\ \/ pc'[c] = "post" /\ Integral(delta'[c])
            \/ pc'[c] = "commit" /\ delta'[c] = <<>>
<1> DEFINE d == ChunkDelta(plan, suspense)
<1>1. Integral(d)
  BY ChunkIsWhole
<1>2. CASE CreateRefusal(plan, suspense, d) = "ok"
  <2>1. delta' = [delta EXCEPT ![c] = d] /\ pc' = [pc EXCEPT ![c] = "post"]
    BY <1>2 DEF ToPost, Set, Goto
  <2> HIDE DEF d
  <2> QED
    BY <1>1, <2>1 DEF IInv, Shape
<1>3. CASE CreateRefusal(plan, suspense, d) # "ok"
  <2>1. delta' = delta /\ pc' = [pc EXCEPT ![c] = "commit"]
    BY <1>3 DEF ToPost, Set, Goto, Settle
  <2> QED
    BY <2>1 DEF IInv, Shape
<1> QED
  BY <1>2, <1>3

LEMMA GateStep == \A c \in Calls : IInv /\ Gate(c) => IInv'
<1> SUFFICES ASSUME NEW c \in Calls, IInv, Gate(c) PROVE IInv'
  OBVIOUS
<1>1. delta[c] = <<>> /\ bal' = bal /\ chunk' = chunk /\ delta' = delta
  BY DEF Gate, IInv, Own, At, database
<1>2. pc' = [pc EXCEPT ![c] = "plan"] \/ pc' = [pc EXCEPT ![c] = "commit"]
  BY DEF Gate, Settle, Goto, Set
<1> QED
  BY <1>1, <1>2, QuietStep DEF IInv, Shape

LEMMA PlanStep == \A c \in Calls : IInv /\ Plan(c) => IInv'
<1> SUFFICES ASSUME NEW c \in Calls, IInv, Plan(c) PROVE IInv'
  OBVIOUS
<1> DEFINE plan == Restrict(bal, Taken(bal))
<1>1. delta[c] = <<>> /\ bal' = bal
  BY DEF Plan, IInv, Own, At, database
<1>2. CASE NonZero(bal) = {}
  <2>1. pc' = [pc EXCEPT ![c] = "commit"] /\ chunk' = chunk /\ delta' = delta
    BY <1>2 DEF Plan, Settle, Goto, Set
  <2> QED
    BY <1>1, <2>1, QuietStep DEF IInv, Shape
<1>3. CASE NonZero(bal) # {}
  <2>1. PlanOk(plan)
    BY <1>3, PlannerTakes
  <2>2. chunk' = [chunk EXCEPT ![c] = plan]
    BY <1>3 DEF Plan, Set
  <2>3. CASE NeedsSuspense(bal, plan)
    <3>1. pc' = [pc EXCEPT ![c] = "suspense"] /\ delta' = delta
      BY <1>3, <2>3 DEF Plan, Goto, Set
    <3>2. chunk'[c] = plan
      BY <2>2 DEF IInv, Shape
    <3> HIDE DEF plan
    <3> QED
      BY <1>1, <2>1, <2>2, <3>1, <3>2, QuietStep DEF IInv, Shape
  <2>4. CASE ~NeedsSuspense(bal, plan)
    <3>1. ToPost(c, plan, {})
      BY <1>3, <2>4 DEF Plan
    <3> HIDE DEF plan
    <3>2. DOMAIN chunk' = Calls /\ chunk'[c] = plan /\ \A q \in Calls \ {c} : chunk'[q] = chunk[q]
      BY <2>2 DEF IInv, Shape
    <3>3. Shape'
      BY <1>1, <2>1, <3>1, <3>2, ToPostIs DEF IInv, Shape
    <3>4. /\ \A q \in Calls \ {c} : pc'[q] = pc[q] /\ delta'[q] = delta[q]
          /\ \/ pc'[c] = "post" /\ Integral(delta'[c])
             \/ pc'[c] = "commit" /\ delta'[c] = <<>>
      BY <1>1, <2>1, <3>1, ToPostIs
    <3> QED
      BY <1>1, <2>1, <3>2, <3>3, <3>4, QuietStep
  <2> QED BY <2>3, <2>4
<1> QED BY <1>2, <1>3

LEMMA FindSuspenseStep == \A c \in Calls : IInv /\ FindSuspense(c) => IInv'
<1> SUFFICES ASSUME NEW c \in Calls, IInv, FindSuspense(c) PROVE IInv'
  OBVIOUS
<1>1. delta[c] = <<>> /\ PlanOk(chunk[c]) /\ bal' = bal /\ chunk' = chunk
  BY DEF FindSuspense, IInv, Own, At, database
<1>2. CASE HolderOf(c) # None
  <2>1. ToPost(c, chunk[c], {HolderOf(c)})
    BY <1>2 DEF FindSuspense
  <2>2. Shape'
    BY <1>1, <2>1, ToPostIs DEF IInv, Shape
  <2> QED
    BY <1>1, <2>1, <2>2, ToPostIs, QuietStep
<1>3. CASE HolderOf(c) = None
  <2>1. pc' = [pc EXCEPT ![c] = "open"] /\ delta' = delta
    BY <1>3 DEF FindSuspense, Goto, Set
  <2> QED
    BY <1>1, <2>1, QuietStep DEF IInv, Shape
<1> QED BY <1>2, <1>3

LEMMA OpenSuspenseStep == \A c \in Calls : IInv /\ OpenSuspense(c) => IInv'
<1> SUFFICES ASSUME NEW c \in Calls, IInv, OpenSuspense(c) PROVE IInv'
  OBVIOUS
<1>1. delta[c] = <<>> /\ PlanOk(chunk[c]) /\ bal' = bal /\ chunk' = chunk
  BY DEF OpenSuspense, IInv, Own, At, database
<1>2. CASE HolderOf(c) # None
  <2>1. pc' = [pc EXCEPT ![c] = "commit"] /\ delta' = delta
    BY <1>2 DEF OpenSuspense, Settle, Goto, Set
  <2> QED
    BY <1>1, <2>1, QuietStep DEF IInv, Shape
<1>3. CASE HolderOf(c) = None
  <2>1. ToPost(c, chunk[c], {SuspenseOf(c)})
    BY <1>3 DEF OpenSuspense
  <2>2. Shape'
    BY <1>1, <2>1, ToPostIs DEF IInv, Shape
  <2> QED
    BY <1>1, <2>1, <2>2, ToPostIs, QuietStep
<1> QED BY <1>2, <1>3

LEMMA ReplayChunkStep == \A c \in Calls : IInv /\ ReplayChunk(c) => IInv'
<1> SUFFICES ASSUME NEW c \in Calls, IInv, ReplayChunk(c) PROVE IInv'
  OBVIOUS
<1>1. /\ delta' = [delta EXCEPT ![c] = <<>>] /\ chunk' = chunk /\ bal' = bal
      /\ \/ pc' = [pc EXCEPT ![c] = "count"]
         \/ pc' = [pc EXCEPT ![c] = "commit"]
  BY DEF ReplayChunk, Settle, Goto, Set, database
<1> QED
  BY <1>1, QuietStep DEF IInv, Shape

\* What posts is refused by no rule: every account is active, of the currency of the
\* chunk, in its funds and in the range that can be stored.
LEMMA RefusedNone ==
  ASSUME NEW c \in Calls, PlanOk(chunk[c]), Refusal(c) = "ok"
  PROVE  /\ DOMAIN delta[c] \cap closed = {}
         /\ \A a \in DOMAIN delta[c] :
              /\ CurrencyOf[a] = CurrencyIn(chunk[c])
              /\ ~(a \in Normal /\ bal[a] + delta[c][a] < 0)
              /\ bal[a] + delta[c][a] \in -Limit..Limit
         /\ SumFunction(chunk[c]) \in -Limit..Limit
<1> DEFINE refused == {a \in DOMAIN delta[c] : Problem(c, a) # "ok"}
           planned == refused \cap DOMAIN chunk[c]
           first == IF planned # {} THEN Min(planned) ELSE CHOOSE a \in refused : TRUE
<1>1. refused # {} => first \in refused
  <2>1. planned # {} => Min(planned) \in planned
    <3>1. planned \in SUBSET Nat
      BY ResetAssumption DEF PlanOk
    <3> HIDE DEF planned
    <3> QED BY <3>1, LeastOf
  <2> HIDE DEF refused
  <2> QED BY <2>1
<1>2. refused = {} /\ DOMAIN delta[c] \cap closed = {} /\ SumFunction(chunk[c]) \in -Limit..Limit
  <2>1. refused # {} => Problem(c, first) # "ok"
    BY <1>1
  <2>2. Refusal(c) = CASE DOMAIN delta[c] \cap closed # {} -> "account_inactive"
                       [] refused # {} -> Problem(c, first)
                       [] SumFunction(chunk[c]) \notin -Limit..Limit -> "storage_error"
                       [] OTHER -> "ok"
    BY DEF Refusal
  <2> HIDE DEF refused, first
  <2> QED BY <2>1, <2>2
<1>3. \A a \in DOMAIN delta[c] : Problem(c, a) = "ok"
  BY <1>2
<1> QED
  BY <1>2, <1>3 DEF Problem

\* The one step that posts: nobody else has posted on these accounts, and the funds
\* are those of the balances as they are now.
LEMMA PostChunkStep == \A c \in Calls : IInv /\ PostChunk(c) => IInv'
<1> SUFFICES ASSUME NEW c \in Calls, IInv, PostChunk(c) PROVE IInv'
  OBVIOUS
<1>1. bal' = bal /\ chunk' = chunk /\ PlanOk(chunk[c]) /\ Integral(delta[c])
  BY DEF PostChunk, IInv, Own, At, database
<1>2. CASE Refusal(c) = "ok"
  <2>1. pc' = [pc EXCEPT ![c] = "count"] /\ delta' = delta
    BY <1>2 DEF PostChunk, Goto, Set
  <2>2. Fits(delta[c])
    BY <1>1, <1>2, RefusedNone, ResetAssumption DEF Fits, Integral, IInv, Funds
  <2>3. \A q \in Calls \ {c} : HasPosted(q) => Disjoint(delta[c], delta[q])
    BY DEF PostChunk, Others, Holds, Disjoint
  <2>4. Own(c)'
    <3>1. pc'[c] = "count" /\ delta'[c] = delta[c]
      BY <2>1 DEF IInv, Shape
    <3> QED
      BY <1>1, <2>2, <3>1 DEF Own, Fits, Integral
  <2>5. Shape'
    BY <1>1, <2>1 DEF IInv, Shape
  <2> QED
    BY <1>1, <2>1, <2>3, <2>4, <2>5, CallStep DEF IInv, Shape
<1>3. CASE Refusal(c) # "ok"
  <2>1. pc' = [pc EXCEPT ![c] = "commit"] /\ delta' = [delta EXCEPT ![c] = <<>>]
    BY <1>3 DEF PostChunk, Settle, Goto, Set
  <2> QED
    BY <1>1, <2>1, QuietStep DEF IInv, Shape
<1> QED BY <1>2, <1>3

LEMMA CountStep == \A c \in Calls : IInv /\ Count(c) => IInv'
<1> SUFFICES ASSUME NEW c \in Calls, IInv, Count(c) PROVE IInv'
  OBVIOUS
<1>1. bal' = bal /\ chunk' = chunk /\ delta' = delta /\ pc' = [pc EXCEPT ![c] = "commit"]
  BY DEF Count, Settle, Goto, Set, database
<1>2. pc[c] = "count" /\ pc'[c] = "commit"
  BY <1>1 DEF Count, At, IInv, Shape
<1>3. HasPosted(c)' <=> HasPosted(c)
  BY <1>1, <1>2 DEF HasPosted, At
<1>4. Own(c)'
  BY <1>1, <1>2, <1>3 DEF IInv, Own, Fits, Integral
<1>5. Shape'
  BY <1>1 DEF IInv, Shape
<1>6. HasPosted(c)' => \A q \in Calls \ {c} : HasPosted(q) => Disjoint(delta'[c], delta[q])
  BY <1>1, <1>3 DEF IInv, Apart
<1> QED
  BY <1>1, <1>4, <1>5, <1>6, CallStep DEF IInv, Shape

\* COMMIT: what was posted fits, and meets none of the other postings.
LEMMA CommitStep == \A c \in Calls : IInv /\ Commit(c) => IInv'
<1> SUFFICES ASSUME NEW c \in Calls, IInv, Commit(c) PROVE IInv'
  OBVIOUS
<1> USE DEF IInv
<1>1. /\ pc' = [pc EXCEPT ![c] = "none"]
      /\ chunk' = [chunk EXCEPT ![c] = <<>>]
      /\ delta' = [delta EXCEPT ![c] = <<>>]
  BY DEF Commit, Forget, Goto, Set
<1>2. CASE delta[c] = <<>>
  <2>1. bal' = bal
    BY <1>2 DEF Commit
  <2> QED
    BY <1>1, <2>1, QuietStep DEF Shape
<1>3. CASE delta[c] # <<>>
  <2>1. bal' = After(bal, delta[c]) /\ HasPosted(c)
    BY <1>3 DEF Commit, HasPosted
  <2>2. DOMAIN bal' = Accounts
    BY <2>1 DEF After, Shape
  <2>3. Fits(delta[c]) /\ Integral(delta[c])
    BY <2>1 DEF Own
  <2>4. \A a \in Accounts \cap DOMAIN delta[c] : bal'[a] = bal[a] + delta[c][a]
    BY <2>1 DEF After, Shape
  <2>5. \A a \in Accounts \ DOMAIN delta[c] : bal'[a] = bal[a]
    <3>1. \A a \in Accounts \ DOMAIN delta[c] : bal'[a] = bal[a] + 0
      BY <2>1 DEF After, Shape
    <3> QED BY <3>1 DEF Funds
  <2>6. Funds'
    <3> SUFFICES ASSUME NEW a \in Accounts
                 PROVE  bal'[a] \in Int /\ (a \in Normal => bal'[a] >= 0)
      BY ResetAssumption DEF Funds
    <3>1. CASE a \in DOMAIN delta[c]
      BY <2>3, <2>4, <3>1 DEF Fits, Integral, Funds
    <3>2. CASE a \notin DOMAIN delta[c]
      BY <2>5, <3>2 DEF Funds
    <3> QED BY <3>1, <3>2
  <2>7. \A q \in Calls \ {c} : pc'[q] = pc[q] /\ chunk'[q] = chunk[q] /\ delta'[q] = delta[q]
    BY <1>1 DEF Shape
  <2>8. pc'[c] = "none" /\ delta'[c] = <<>>
    BY <1>1 DEF Shape
  <2>9. ~HasPosted(c)' /\ \A q \in Calls \ {c} : HasPosted(q)' <=> HasPosted(q)
    BY <2>7, <2>8 DEF HasPosted, At
  <2>10. \A q \in Calls : Own(q)'
    <3> SUFFICES ASSUME NEW q \in Calls PROVE Own(q)'
      OBVIOUS
    <3>1. CASE q = c
      BY <2>8, <2>9, <3>1 DEF Own
    <3>2. CASE q # c
      <4>1. Own(q)
        OBVIOUS
      <4>2. HasPosted(q) => Fits(delta[q])'
        <5> SUFFICES ASSUME HasPosted(q), NEW a \in Normal, a \in DOMAIN delta[q]
                     PROVE  bal'[a] + delta[q][a] >= 0
          BY <2>7, <3>2 DEF Fits
        <5>1. a \notin DOMAIN delta[c]
          BY <2>1, <3>2 DEF Apart, Disjoint
        <5>2. bal'[a] = bal[a]
          BY <2>5, <5>1, ResetAssumption
        <5> QED BY <4>1, <5>2 DEF Own, Fits
      <4>3. PlanOk(chunk[q])' <=> PlanOk(chunk[q])
        BY <2>7, <3>2 DEF PlanOk, Integral
      <4>4. Integral(delta[q])' <=> Integral(delta[q])
        BY <2>7, <3>2 DEF Integral
      <4> QED BY <2>7, <2>9, <3>2, <4>1, <4>2, <4>3, <4>4 DEF Own
    <3> QED BY <3>1, <3>2
  <2>11. Apart'
    BY <2>7, <2>9 DEF Apart, Disjoint
  <2>12. Shape'
    BY <1>1, <2>2 DEF Shape
  <2> QED BY <2>6, <2>10, <2>11, <2>12
<1> QED BY <1>2, <1>3

LEMMA CrashStep == \A c \in Calls : IInv /\ Crash(c) => IInv'
<1> SUFFICES ASSUME NEW c \in Calls, IInv, Crash(c) PROVE IInv'
  OBVIOUS
<1>1. /\ pc' = [pc EXCEPT ![c] = "none"] /\ chunk' = [chunk EXCEPT ![c] = <<>>]
      /\ delta' = [delta EXCEPT ![c] = <<>>] /\ bal' = bal
  BY DEF Crash, Forget, Goto, Set, database
<1> QED
  BY <1>1, QuietStep DEF IInv, Shape

\* A call starts.
LEMMA SendStep == \A t \in Tabs : IInv /\ Send(t) => IInv'
<1> SUFFICES ASSUME NEW t \in Tabs, IInv, Send(t) PROVE IInv'
  OBVIOUS
<1>1. PICK c \in Calls : At(c, "none") /\ Goto(c, "gate")
  BY DEF Send
<1>2. delta[c] = <<>> /\ pc' = [pc EXCEPT ![c] = "gate"]
  BY <1>1 DEF At, Goto, Set, IInv, Own
<1>3. bal' = bal /\ chunk' = chunk /\ delta' = delta
  BY DEF Send, database
<1> QED
  BY <1>2, <1>3, QuietStep DEF IInv, Shape

-----------------------------------------------------------------------------
(* Balances that others change.                                            *)

\* Others leave what is posted alone: no balance under a posting falls.
LEMMA OthersStep ==
  ASSUME IInv, UNCHANGED server, DOMAIN bal' = DOMAIN bal, Funds',
         \A c \in Calls : HasPosted(c) =>
            \A a \in Normal \cap DOMAIN delta[c] : bal'[a] >= bal[a]
  PROVE  IInv'
<1> USE DEF IInv, server
<1>1. \A c \in Calls : HasPosted(c)' <=> HasPosted(c)
  BY DEF HasPosted, At
<1>2. Shape' /\ Apart'
  BY <1>1 DEF Shape, Apart, Disjoint
<1>3. \A c \in Calls : Own(c)'
  <2> SUFFICES ASSUME NEW c \in Calls PROVE Own(c)'
    OBVIOUS
  <2>1. Own(c)
    OBVIOUS
  <2>2. HasPosted(c) => Fits(delta[c])'
    <3> SUFFICES ASSUME HasPosted(c), NEW a \in Normal, a \in DOMAIN delta[c]
                 PROVE  bal'[a] + delta[c][a] >= 0
      BY DEF Fits
    <3>1. delta[c][a] \in Int /\ bal[a] + delta[c][a] >= 0
      BY <2>1 DEF Own, Integral, Fits
    <3>2. bal[a] \in Int /\ bal'[a] \in Int /\ bal'[a] >= bal[a]
      BY ResetAssumption DEF Funds
    <3> QED BY <3>1, <3>2
  <2>3. PlanOk(chunk[c])' <=> PlanOk(chunk[c])
    BY DEF PlanOk, Integral
  <2>4. Integral(delta[c])' <=> Integral(delta[c])
    BY DEF Integral
  <2> QED BY <1>1, <2>1, <2>2, <2>3, <2>4 DEF Own
<1> QED BY <1>2, <1>3

LEMMA TransferStep == IInv /\ Transfer => IInv'
<1> SUFFICES ASSUME IInv, Transfer PROVE IInv'
  OBVIOUS
<1>1. PICK move \in Moves :
        /\ move[1] \in Normal => bal[move[1]] > 0
        /\ \A c \in Calls : ~Holds(c, {move[1], move[2]})
        /\ bal' = [bal EXCEPT ![move[1]] = @ - 1, ![move[2]] = @ + 1]
  BY DEF Transfer
<1>2. move[1] \in Accounts /\ move[2] \in Accounts
  BY ResetAssumption
<1> DEFINE from == move[1]
           to == move[2]
<1> HIDE DEF from, to
<1>3. bal' = [bal EXCEPT ![from] = @ - 1, ![to] = @ + 1] /\ from \in Accounts /\ to \in Accounts
  BY <1>1, <1>2 DEF from, to
<1>4. DOMAIN bal' = DOMAIN bal
  BY <1>3
<1>5. \A a \in Accounts \ {from, to} : bal'[a] = bal[a]
  BY <1>3 DEF IInv, Shape
<1>6. Funds'
  <2> SUFFICES ASSUME NEW a \in Accounts
               PROVE  bal'[a] \in Int /\ (a \in Normal => bal'[a] >= 0)
    BY ResetAssumption DEF Funds
  <2>1. bal[a] \in Int /\ (a \in Normal => bal[a] >= 0)
    BY DEF IInv, Funds
  <2>2. a = from /\ a \in Normal => bal[a] > 0
    BY <1>1 DEF from
  <2>3. CASE a \notin {from, to}
    BY <1>5, <2>1, <2>3
  <2>4. CASE a = from /\ a # to
    <3>1. bal'[a] = bal[a] - 1
      BY <1>3, <2>1, <2>4 DEF IInv, Shape
    <3> QED BY <2>1, <2>2, <2>4, <3>1
  <2>5. CASE a = to /\ a # from
    <3>1. bal'[a] = bal[a] + 1
      BY <1>3, <2>1, <2>5 DEF IInv, Shape
    <3> QED BY <2>1, <3>1
  <2>6. CASE a = to /\ a = from
    <3>1. bal'[a] = bal[a] - 1 + 1
      BY <1>3, <2>1, <2>6 DEF IInv, Shape
    <3> QED BY <2>1, <3>1
  <2> QED BY <2>3, <2>4, <2>5, <2>6
<1>7. ASSUME NEW c \in Calls, HasPosted(c), NEW a \in Normal \cap DOMAIN delta[c]
      PROVE  bal'[a] >= bal[a]
  <2>1. a \notin {from, to}
    BY <1>1, <1>7 DEF Holds, from, to
  <2>2. bal'[a] = bal[a] /\ bal[a] \in Int
    BY <1>5, <2>1, ResetAssumption DEF IInv, Funds
  <2> QED BY <2>2
<1>8. UNCHANGED server
  BY DEF Transfer
<1> QED BY <1>4, <1>6, <1>7, <1>8, OthersStep

LEMMA TamperStep == IInv /\ Tamper => IInv'
<1> SUFFICES ASSUME IInv, Tamper PROVE IInv'
  OBVIOUS
<1>1. PICK x \in Tampered : bal' = [bal EXCEPT ![x] = @ + 1]
  BY DEF Tamper
<1>2. \A a \in Accounts : bal'[a] \in Int /\ bal'[a] >= bal[a] /\ bal[a] \in Int
  BY <1>1 DEF IInv, Shape, Funds
<1>3. Funds' /\ \A a \in Normal : bal'[a] >= bal[a]
  BY <1>2, ResetAssumption DEF IInv, Funds
<1>4. DOMAIN bal' = DOMAIN bal /\ UNCHANGED server
  BY <1>1 DEF Tamper
<1> QED BY <1>3, <1>4, OthersStep

-----------------------------------------------------------------------------
(* The theorem.                                                            *)

\* Nothing is posted at the start.
LEMMA InitIInv == Init => IInv
<1> SUFFICES ASSUME Init PROVE IInv
  OBVIOUS
<1>1. Shape /\ Funds
  BY ResetAssumption DEF Init, Shape, Funds
<1>2. \A c \in Calls : pc[c] = "none" /\ delta[c] = <<>>
  BY DEF Init
<1>3. \A c \in Calls : ~HasPosted(c)
  BY <1>2 DEF HasPosted
<1> QED
  BY <1>1, <1>2, <1>3 DEF IInv, Own, Apart

\* Steps of the page and of the limiter change nothing of this.
LEMMA NextIInv == IInv /\ [Next]_vars => IInv'
<1> SUFFICES ASSUME IInv, [Next]_vars PROVE IInv'
  OBVIOUS
<1>1. CASE UNCHANGED <<bal, server>>
  <2>1. Funds' /\ DOMAIN bal' = DOMAIN bal /\ \A a \in Normal : bal'[a] >= bal[a]
    BY <1>1, ResetAssumption DEF IInv, Funds
  <2> QED BY <1>1, <2>1, OthersStep
<1>2. ASSUME NEW t \in Tabs, Press(t) \/ Throttle(t) \/ LoseTab(t)
      PROVE  UNCHANGED <<bal, server>>
  BY <1>2 DEF Press, Throttle, LoseTab, database
<1>3. SetActive \/ Claim \/ SetApproval \/ WindowPasses \/ UNCHANGED vars
        => UNCHANGED <<bal, server>>
  BY DEF SetActive, Claim, SetApproval, WindowPasses, vars, database
<1>4. ASSUME NEW c \in Calls, Step(c) PROVE IInv'
  BY <1>4, GateStep, PlanStep, FindSuspenseStep, OpenSuspenseStep, ReplayChunkStep, PostChunkStep,
     CountStep, CommitStep DEF Step
<1> QED
  BY <1>1, <1>2, <1>3, <1>4, SendStep, CrashStep, TransferStep, TamperStep DEF Next

\* The inductive invariant: what calls have planned, posted and not committed fits
\* the balances that postTransaction will find.
THEOREM Invariance == Spec => []IInv
<1> QED BY InitIInv, NextIInv, PTL DEF Spec

\* reset never drives a normal account below zero, however stale the balances that
\* its chunks were planned from.
THEOREM ResetNeverOverdraws == Spec => []NoOverdraft
<1>1. IInv => NoOverdraft
  BY DEF IInv, Funds, NoOverdraft
<1> QED BY <1>1, Invariance, PTL

-----------------------------------------------------------------------------
(* Types.                                                                  *)

Results == Errors \cup {"none", "zero", "remaining"}

\* A key that is used was minted, a loop under way has calls left, and before others
\* change anything but by tampering the suspense names are on reset's own accounts.
Control ==
  /\ broken \in Nat /\ transfers \in Nat /\ broken <= transfers
  /\ transfers = broken => \A k \in Currencies : holder[k] \in {None, Suspense[k]}
  /\ starts \in 0..MaxStarts
  /\ DOMAIN run = Calls /\ DOMAIN of = Tabs
  /\ opened \in [Calls -> SUBSET Accounts]
  /\ result \in [Calls -> Results]
  /\ calls \in [Tabs -> 0..(MaxCalls - 1)]
  /\ \A t \in Tabs :
       /\ slot[t] # None => slot[t] \in 1..starts
       /\ loop[t] # "idle" \/ call[t] \in Calls => of[t] \in 1..starts
  /\ \A c \in Calls : pc[c] # "none" => run[c] \in 1..starts

Typed == TypeOK /\ Control

\* Steps that move a call and settle its result.
LEMMA CallTyped ==
  ASSUME Typed, NEW c \in Calls,
         NEW where \in {"none", "gate", "plan", "suspense", "open", "post", "count", "commit"},
         pc[c] # "none", pc' = [pc EXCEPT ![c] = where],
         result' = result \/ \E what \in Results : result' = [result EXCEPT ![c] = what],
         UNCHANGED <<database, run, opened, tab, history, used>>
  PROVE  Typed'
<1> USE DEF Typed, TypeOK, Control, database, settings, tab, history
<1>1. TypeOK'
  OBVIOUS
<1>2. Control'
  OBVIOUS
<1> QED BY <1>1, <1>2

LEMMA ToPostMoves ==
  ASSUME NEW c \in Calls, NEW plan, NEW suspense, ToPost(c, plan, suspense)
  PROVE  \E where \in {"post", "commit"} :
           /\ pc' = [pc EXCEPT ![c] = where]
           /\ \/ result' = result
              \/ \E what \in Results : result' = [result EXCEPT ![c] = what]
<1> DEFINE refusal == CreateRefusal(plan, suspense, ChunkDelta(plan, suspense))
<1>1. refusal \in {"too_few_postings", "unbalanced_transaction", "ok"}
  BY DEF CreateRefusal
<1>2. \/ pc' = [pc EXCEPT ![c] = "post"] /\ result' = result
      \/ /\ refusal # "ok"
         /\ pc' = [pc EXCEPT ![c] = "commit"] /\ result' = [result EXCEPT ![c] = refusal]
  BY DEF ToPost, Goto, Settle, Set
<1> HIDE DEF refusal
<1> QED BY <1>1, <1>2 DEF Results, Errors

\* The refusals of the posting routine.
PostErrors == {"account_inactive", "currency_mismatch", "insufficient_funds",
               "balance_limit_exceeded", "storage_error"}

LEMMA RefusalIsError ==
  ASSUME NEW c \in Calls, Refusal(c) # "ok"
  PROVE  Refusal(c) \in PostErrors /\ Refusal(c) \in Results
<1> DEFINE refused == {a \in DOMAIN delta[c] : Problem(c, a) # "ok"}
           planned == refused \cap DOMAIN chunk[c]
           first == IF planned # {} THEN Min(planned) ELSE CHOOSE a \in refused : TRUE
<1>1. Problem(c, first) \in {"currency_mismatch", "insufficient_funds",
                            "balance_limit_exceeded", "ok"}
  <2> HIDE DEF first
  <2> QED BY DEF Problem
<1>2. Refusal(c) = CASE DOMAIN delta[c] \cap closed # {} -> "account_inactive"
                     [] refused # {} -> Problem(c, first)
                     [] SumFunction(chunk[c]) \notin -Limit..Limit -> "storage_error"
                     [] OTHER -> "ok"
  BY DEF Refusal
<1> HIDE DEF refused, first
<1> QED BY <1>1, <1>2 DEF PostErrors, Results, Errors

\* Calls between their start and their end, but for the one that opens an account.
LEMMA InnerTyped ==
  ASSUME Typed, NEW c \in Calls,
         \/ Gate(c) \/ Plan(c) \/ FindSuspense(c)
         \/ ReplayChunk(c) \/ PostChunk(c) \/ Count(c)
  PROVE  Typed'
<1>1. pc[c] # "none" /\ UNCHANGED <<database, run, opened, tab, history, used>>
  BY DEF Gate, Plan, FindSuspense, ReplayChunk, PostChunk, Count, At
<1>2. CASE Plan(c)
  <2>1. \E where \in {"suspense", "post", "commit"} :
          /\ pc' = [pc EXCEPT ![c] = where]
          /\ \/ result' = result
             \/ \E what \in Results : result' = [result EXCEPT ![c] = what]
    <3>1. CASE NonZero(bal) = {}
      BY <1>2, <3>1 DEF Plan, Settle, Goto, Set, Results
    <3>2. CASE NonZero(bal) # {} /\ NeedsSuspense(bal, Restrict(bal, Taken(bal)))
      BY <1>2, <3>2 DEF Plan, Goto, Set
    <3>3. CASE NonZero(bal) # {} /\ ~NeedsSuspense(bal, Restrict(bal, Taken(bal)))
      <4>1. ToPost(c, Restrict(bal, Taken(bal)), {})
        BY <1>2, <3>3 DEF Plan
      <4> QED BY <4>1, ToPostMoves
    <3> QED BY <3>1, <3>2, <3>3
  <2> QED BY <1>1, <2>1, CallTyped
<1>3. CASE FindSuspense(c)
  <2>1. CASE HolderOf(c) # None
    <3>1. ToPost(c, chunk[c], {HolderOf(c)})
      BY <1>3, <2>1 DEF FindSuspense
    <3> QED BY <1>1, <3>1, ToPostMoves, CallTyped
  <2>2. CASE HolderOf(c) = None
    BY <1>1, <1>3, <2>2, CallTyped DEF FindSuspense, Goto, Set
  <2> QED BY <2>1, <2>2
<1>4. CASE ReplayChunk(c)
  <2>1. \/ pc' = [pc EXCEPT ![c] = "count"] /\ result' = result
        \/ /\ pc' = [pc EXCEPT ![c] = "commit"]
           /\ result' = [result EXCEPT ![c] = "idempotency_conflict"]
    BY <1>4 DEF ReplayChunk, Settle, Goto, Set
  <2> QED BY <1>1, <2>1, CallTyped DEF Results, Errors
<1>5. CASE PostChunk(c)
  <2>1. \/ pc' = [pc EXCEPT ![c] = "count"] /\ result' = result
        \/ /\ pc' = [pc EXCEPT ![c] = "commit"]
           /\ \E what \in Results : result' = [result EXCEPT ![c] = what]
    BY <1>5, RefusalIsError DEF PostChunk, Settle, Goto, Set
  <2> QED BY <1>1, <2>1, CallTyped
<1>6. CASE Count(c)
  <2>1. /\ pc' = [pc EXCEPT ![c] = "commit"]
        /\ \E what \in {"zero", "remaining"} : result' = [result EXCEPT ![c] = what]
    BY <1>6 DEF Count, Settle, Goto, Set
  <2> QED BY <1>1, <2>1, CallTyped DEF Results
<1>7. CASE Gate(c)
  <2>1. \/ pc' = [pc EXCEPT ![c] = "plan"] /\ result' = result
        \/ /\ pc' = [pc EXCEPT ![c] = "commit"]
           /\ result' = [result EXCEPT ![c] = "approval_required"]
    BY <1>7 DEF Gate, Settle, Goto, Set
  <2> QED BY <1>1, <2>1, CallTyped DEF Results, Errors
<1> QED BY <1>2, <1>3, <1>4, <1>5, <1>6, <1>7

\* Nobody else has the account open that a call opens.
LEMMA OpenTyped ==
  ASSUME Typed, IInv, NEW c \in Calls, OpenSuspense(c)
  PROVE  Typed'
<1>1. pc[c] # "none" /\ UNCHANGED <<database, run, tab, history, used>>
  BY DEF OpenSuspense, At
<1>2. CASE HolderOf(c) # None
  <2>1. /\ pc' = [pc EXCEPT ![c] = "commit"] /\ opened' = opened
        /\ result' = [result EXCEPT ![c] = "transaction_aborted"]
    BY <1>2 DEF OpenSuspense, Settle, Goto, Set
  <2> QED BY <1>1, <2>1, CallTyped DEF Results, Errors
<1>3. CASE HolderOf(c) = None
  <2>1. ToPost(c, chunk[c], {SuspenseOf(c)}) /\ opened' = [opened EXCEPT ![c] = {SuspenseOf(c)}]
    BY <1>3 DEF OpenSuspense, Set
  <2>2. PICK where \in {"post", "commit"} :
          /\ pc' = [pc EXCEPT ![c] = where]
          /\ \/ result' = result
             \/ \E what \in Results : result' = [result EXCEPT ![c] = what]
    BY <2>1, ToPostMoves
  <2>3. \A p, q \in Calls : opened'[p] \cap opened'[q] # {} => p = q
    BY <2>1 DEF OpenSuspense, Others, Typed, TypeOK, Control
  <2>4. TypeOK'
    BY <1>1, <2>2, <2>3 DEF Typed, TypeOK, Control, database, settings, tab, history
  <2>5. SuspenseOf(c) \in Accounts
    BY PlanNames, ResetAssumption DEF SuspenseOf, OpenSuspense, At, IInv, Own
  <2>6. Control'
    BY <1>1, <2>1, <2>2, <2>5 DEF Typed, TypeOK, Control, database, settings, tab, history
  <2> QED BY <2>4, <2>6 DEF Typed
<1> QED BY <1>2, <1>3

\* What a loop makes of an answer.
LEMMA ReceiveTyped ==
  ASSUME Typed, NEW t \in Tabs, NEW what \in Results, Receive(t, what)
  PROVE  /\ loop' \in [Tabs -> {"idle", "send", "throttled", "wait"}]
         /\ slot' \in [Tabs -> Runs \cup {None}]
         /\ call' \in [Tabs -> Calls \cup {None}]
         /\ outcome' \in [Tabs -> Errors \cup {"none", "complete", "out_of_calls", "lost"}]
         /\ calls' \in [Tabs -> 0..(MaxCalls - 1)]
         /\ \A u \in Tabs :
              /\ slot'[u] # None => slot'[u] \in 1..starts
              /\ u # t => loop'[u] = loop[u] /\ call'[u] = call[u]
<1> USE DEF Typed, TypeOK, Control
<1>1. calls[t] \in Nat /\ calls[t] + 1 <= MaxCalls /\ MaxCalls \in Nat \ {0}
  BY ResetAssumption
<1>2. CASE what = "zero"
  <2>1. Finish(t, "complete") /\ slot' = [slot EXCEPT ![t] = None]
    BY <1>2 DEF Receive, Set
  <2> QED BY <1>1, <2>1 DEF Finish, Set
<1>3. CASE what = "remaining" /\ calls[t] + 1 < MaxCalls
  <2>1. GoOn(t) /\ slot' = slot
    BY <1>3 DEF Receive
  <2> QED BY <1>1, <1>3, <2>1 DEF GoOn, Set
<1>4. CASE what = "remaining" /\ calls[t] + 1 = MaxCalls
  <2>1. Finish(t, "out_of_calls") /\ slot' = slot
    BY <1>1, <1>4 DEF Receive
  <2> QED BY <1>1, <2>1 DEF Finish, Set
<1>5. CASE what \in Errors \cup {"none"}
  <2>1. Finish(t, what) /\ slot' = slot
    BY <1>5 DEF Receive, Errors
  <2> QED BY <1>1, <1>5, <2>1 DEF Finish, Set
<1> QED BY <1>1, <1>2, <1>3, <1>4, <1>5 DEF Results

\* The end of a call: its answer reaches the loop that waits for it, if one does.
LEMMA CommitTyped ==
  ASSUME Typed, IInv, NEW c \in Calls, Commit(c)
  PROVE  Typed'
<1> USE DEF Typed, TypeOK, Control
<1>1. /\ pc' = [pc EXCEPT ![c] = "none"] /\ run' = [run EXCEPT ![c] = None]
      /\ opened' = [opened EXCEPT ![c] = {}] /\ result' = [result EXCEPT ![c] = "none"]
      /\ UNCHANGED <<of, starts, used>>
  BY DEF Commit, Forget, Goto, Set
<1>2. DOMAIN bal' = Accounts
  BY DEF Commit, After
<1>3. /\ holder' \in [Currencies -> Accounts \cup {None}]
      /\ closed' \subseteq Accounts /\ approval' \in BOOLEAN
  BY ResetAssumption DEF Commit, settings
<1>4. \A x \in txs' : x.key[1] \in 1..starts
  <2>1. txs' = txs \/ txs' = txs \cup {[key |-> Key(c), delta |-> delta[c]]}
    BY DEF Commit
  <2>2. Key(c)[1] \in 1..starts
    BY DEF Key, Commit, At
  <2> QED BY <2>1, <2>2
<1>5. \/ UNCHANGED <<slot, loop, call, calls, outcome>>
      \/ \E t \in Tabs : call[t] = c /\ Receive(t, result[c])
  BY DEF Commit
<1>6. /\ pc' \in [Calls -> {"none", "gate", "plan", "suspense", "open", "post", "count", "commit"}]
      /\ result' \in [Calls -> Results]
      /\ DOMAIN run' = Calls
      /\ opened' \in [Calls -> SUBSET Accounts]
      /\ \A p, q \in Calls : opened'[p] \cap opened'[q] # {} => p = q
      /\ \A q \in Calls : pc'[q] # "none" => run'[q] \in 1..starts
  BY <1>1 DEF Results
<1>7. /\ loop' \in [Tabs -> {"idle", "send", "throttled", "wait"}]
      /\ slot' \in [Tabs -> Runs \cup {None}]
      /\ call' \in [Tabs -> Calls \cup {None}]
      /\ outcome' \in [Tabs -> Errors \cup {"none", "complete", "out_of_calls", "lost"}]
      /\ calls' \in [Tabs -> 0..(MaxCalls - 1)]
      /\ \A u \in Tabs :
           /\ slot'[u] # None => slot'[u] \in 1..starts
           /\ loop'[u] # "idle" \/ call'[u] \in Calls => of[u] \in 1..starts
  <2>1. CASE UNCHANGED <<slot, loop, call, calls, outcome>>
    BY <2>1
  <2>2. CASE \E t \in Tabs : call[t] = c /\ Receive(t, result[c])
    <3>1. PICK t \in Tabs : call[t] = c /\ Receive(t, result[c])
      BY <2>2
    <3>2. of[t] \in 1..starts /\ result[c] \in Results
      BY <3>1
    <3> QED BY <3>1, <3>2, ReceiveTyped
  <2> QED BY <1>5, <2>1, <2>2
<1>8. starts' = starts /\ used' = used /\ of' = of
  BY <1>1
<1>9. TypeOK'
  BY <1>2, <1>3, <1>4, <1>6, <1>7, <1>8
<1>10. /\ UNCHANGED <<broken, transfers>>
       /\ transfers = broken => \A k \in Currencies : holder'[k] \in {None, Suspense[k]}
  BY DEF Commit
<1>11. Control'
  BY <1>6, <1>7, <1>8, <1>10
<1> QED BY <1>9, <1>11

LEMMA CrashTyped ==
  ASSUME Typed, NEW c \in Calls, Crash(c)
  PROVE  Typed'
<1> USE DEF Typed, TypeOK, Control, Crash, database, settings, tab, history
<1>1. /\ pc' = [pc EXCEPT ![c] = "none"] /\ run' = [run EXCEPT ![c] = None]
      /\ opened' = [opened EXCEPT ![c] = {}] /\ result' = [result EXCEPT ![c] = "none"]
  BY DEF Forget, Goto, Set
<1>2. TypeOK'
  BY <1>1
<1>3. Control'
  BY <1>1 DEF Results
<1> QED BY <1>2, <1>3

\* The buttons, the sends and the waits of a tab.
LEMMA PressTyped ==
  ASSUME Typed, NEW t \in Tabs, Press(t)
  PROVE  Typed'
<1> USE DEF Typed, TypeOK, Control
<1>1. starts \in Nat /\ starts' = starts + 1 /\ starts' \in 1..MaxStarts /\ MaxStarts \in Nat
  BY ResetAssumption DEF Press
<1>2. PICK key \in 1..starts' : slot' = [slot EXCEPT ![t] = key] /\ of' = [of EXCEPT ![t] = key]
  <2>1. PICK fresh \in BOOLEAN :
          LET key == IF fresh \/ slot[t] = None THEN starts' ELSE slot[t]
          IN slot' = Set(slot, t, key) /\ of' = Set(of, t, key)
    BY DEF Press
  <2>2. slot[t] # None => slot[t] \in 1..starts'
    BY <1>1
  <2>3. starts' \in 1..starts'
    BY <1>1
  <2> QED BY <2>1, <2>2, <2>3 DEF Set
<1>3. /\ loop' = [loop EXCEPT ![t] = "send"] /\ outcome' = [outcome EXCEPT ![t] = "none"]
      /\ UNCHANGED <<database, server, call, calls, transfers, broken, used>>
  BY DEF Press, Set
<1>4. \A n \in 1..starts : n \in 1..starts'
  BY <1>1
<1>5. TypeOK'
  BY <1>1, <1>2, <1>3, <1>4 DEF database, settings, server, Runs
<1>6. Control'
  BY <1>1, <1>2, <1>3, <1>4 DEF database, server
<1> QED BY <1>5, <1>6

LEMMA SendTyped ==
  ASSUME Typed, NEW t \in Tabs, Send(t)
  PROVE  Typed'
<1> USE DEF Typed, TypeOK, Control
<1>1. PICK c \in Calls :
        /\ pc' = [pc EXCEPT ![c] = "gate"]
        /\ run' = [run EXCEPT ![c] = of[t]]
        /\ call' = [call EXCEPT ![t] = c]
  BY DEF Send, Goto, Set
<1>2. of[t] \in 1..starts
  BY DEF Send
<1>3. used' \in 0..WritesPerWindow
  BY ResetAssumption DEF Send
<1>4. /\ loop' = [loop EXCEPT ![t] = "wait"]
      /\ UNCHANGED <<database, chunk, opened, delta, result, slot, of, calls, outcome, history>>
  BY DEF Send, Set
<1>5. TypeOK'
  BY <1>1, <1>2, <1>3, <1>4 DEF database, settings, history
<1>6. Control'
  BY <1>1, <1>2, <1>4 DEF database, history
<1> QED BY <1>5, <1>6

LEMMA TabTyped ==
  ASSUME Typed, NEW t \in Tabs, Throttle(t) \/ LoseTab(t)
  PROVE  Typed'
<1> USE DEF Typed, TypeOK, Control
<1>1. CASE Throttle(t)
  <2>1. /\ loop' = [loop EXCEPT ![t] = "throttled"] /\ loop[t] # "idle"
        /\ UNCHANGED <<database, server, slot, of, call, calls, outcome, history, used>>
    BY <1>1 DEF Throttle, Set
  <2>2. TypeOK'
    BY <2>1 DEF database, settings, server, history
  <2>3. Control'
    BY <2>1 DEF database, server, history
  <2> QED BY <2>2, <2>3
<1>2. CASE LoseTab(t)
  <2>1. /\ loop' = [loop EXCEPT ![t] = "idle"] /\ outcome' = [outcome EXCEPT ![t] = "lost"]
        /\ call' = [call EXCEPT ![t] = None] /\ calls' = [calls EXCEPT ![t] = 0]
        /\ UNCHANGED <<database, server, slot, of, history, used>>
    BY <1>2 DEF LoseTab, Finish, Set
  <2>2. TypeOK'
    BY <2>1 DEF database, settings, server, history
  <2>3. Control'
    BY <2>1, ResetAssumption DEF database, server, history
  <2> QED BY <2>2, <2>3
<1> QED BY <1>1, <1>2

\* What others do, and the limiter's window.
LEMMA OutsideTyped ==
  ASSUME Typed, \/ Transfer \/ SetActive \/ Claim \/ SetApproval \/ Tamper
                \/ WindowPasses \/ UNCHANGED vars
  PROVE  Typed'
<1> USE DEF Typed, TypeOK, Control
<1>1. UNCHANGED <<txs, server, tab, starts>>
  BY DEF OfOthers, Transfer, SetActive, Claim, SetApproval, Tamper, WindowPasses, vars, database, history
<1>2. used' \in 0..WritesPerWindow
  BY ResetAssumption DEF OfOthers, Transfer, SetActive, Claim, SetApproval, Tamper, WindowPasses, vars
<1>3. DOMAIN bal' = Accounts
  BY DEF OfOthers, Transfer, SetActive, Claim, SetApproval, Tamper, WindowPasses, vars, database
<1>4. closed' \subseteq Accounts
  <2>1. CASE SetActive
    <3>1. PICK a \in Closable : closed' = closed \ {a} \/ closed' = closed \cup {a}
      BY <2>1 DEF SetActive
    <3> QED BY <3>1, ResetAssumption
  <2>2. CASE \/ Transfer \/ Claim \/ SetApproval \/ Tamper
             \/ WindowPasses \/ UNCHANGED vars
    BY <2>2 DEF Transfer, Claim, SetApproval, Tamper, WindowPasses, vars, database, settings
  <2> QED BY <2>1, <2>2
<1>5. approval' \in BOOLEAN
  BY DEF OfOthers, Transfer, SetActive, Claim, SetApproval, Tamper, WindowPasses, vars, database, settings
<1>6. holder' \in [Currencies -> Accounts \cup {None}]
  BY ResetAssumption DEF OfOthers, Transfer, SetActive, Claim, SetApproval, Tamper, WindowPasses, vars,
                         database, Set
<1>7. TypeOK'
  BY <1>1, <1>2, <1>3, <1>4, <1>5, <1>6 DEF server, tab
<1>8. /\ broken' \in Nat /\ transfers' \in Nat /\ broken' <= transfers'
      /\ transfers' = broken' => \A k \in Currencies : holder'[k] \in {None, Suspense[k]}
  <2>1. CASE Transfer \/ SetActive \/ Claim \/ SetApproval
    <3>1. broken' = broken /\ transfers' = transfers + 1
      BY <2>1 DEF OfOthers, Transfer, SetActive, Claim, SetApproval
    <3> QED BY <3>1
  <2>2. CASE Tamper
    <3>1. broken' = broken + 1 /\ transfers' = transfers + 1 /\ holder' = holder
      BY <2>2 DEF Tamper, OfOthers
    <3> QED BY <3>1
  <2>3. CASE WindowPasses \/ UNCHANGED vars
    <3>1. UNCHANGED <<broken, transfers, holder>>
      BY <2>3 DEF WindowPasses, vars, database, history
    <3> QED BY <3>1
  <2> QED BY <2>1, <2>2, <2>3
<1>9. Control'
  BY <1>1, <1>8 DEF server, tab
<1> QED BY <1>7, <1>9

LEMMA InitTyped == Init => Typed
<1> SUFFICES ASSUME Init PROVE Typed
  OBVIOUS
<1>1. TypeOK
  <2>1. approval \in BOOLEAN
    BY DEF Init
  <2>2. /\ DOMAIN bal = Accounts /\ closed \subseteq Accounts
        /\ holder \in [Currencies -> Accounts \cup {None}]
    BY ResetAssumption DEF Init
  <2> QED BY <2>1, <2>2, ResetAssumption DEF Init, TypeOK, Runs
<1>2. Control
  BY ResetAssumption DEF Init, Control, Results
<1> QED BY <1>1, <1>2 DEF Typed

LEMMA NextTyped == Typed /\ IInv /\ [Next]_vars => Typed'
  BY InnerTyped, OpenTyped, CommitTyped, CrashTyped, PressTyped, SendTyped, TabTyped,
     OutsideTyped DEF Next, Step

LEMMA TypedInvariance == Spec => []Typed
<1> QED BY InitTyped, NextTyped, Invariance, PTL DEF Spec

\* Every variable keeps its type, no two calls open one suspense account, and every
\* posting stands under a run key that was minted.
THEOREM TypeCorrect == Spec => []TypeOK
<1>1. Typed => TypeOK
  BY DEF Typed
<1> QED BY <1>1, TypedInvariance, PTL

-----------------------------------------------------------------------------
(* The books.  A chunk that is posted is even, so only tampering moves the *)
(* sums; and while the accounts of a currency do not add up, its last      *)
(* account with a balance, if it comes behind the suspense account, is in  *)
(* no chunk: a chunk that takes it takes all and is refused.               *)

\* A plan is of one currency.
WholePlan(plan) ==
  /\ DOMAIN plan \subseteq Accounts /\ DOMAIN plan # {}
  /\ \A a \in DOMAIN plan : plan[a] \in Int /\ CurrencyOf[a] = CurrencyIn(plan)

\* A delta adds up to nothing; within one currency, once it is posted.
Level(d) ==
  /\ DOMAIN d \subseteq Accounts
  /\ \A a \in DOMAIN d : d[a] \in Int
  /\ SumFunction(d) = 0

Even(d) == Level(d) /\ \A a, b \in DOMAIN d : CurrencyOf[a] = CurrencyOf[b]

Total(k) == SumFunctionOnSet(bal, InCurrency(k))

Books ==
  /\ \A a \in Accounts : bal[a] \in Int
  /\ broken \in Nat /\ transfers \in Nat /\ broken <= transfers
  /\ SumFunctionOnSet(bal, Accounts) = broken
  /\ broken = 0 => \A k \in Currencies : Total(k) = 0

\* Before the first reset nothing but tampering and other postings happened.
Untouched ==
  starts = 0 =>
    /\ \A c \in Calls : pc[c] = "none" /\ delta[c] = <<>> /\ result[c] = "none"
    /\ \A t \in Tabs : outcome[t] = "none"
    /\ transfers = broken => \A a \in Accounts :
         InitialBalance[a] <= bal[a] /\ (a \notin Tampered => bal[a] = InitialBalance[a])

Planned(c) == pc[c] \in {"suspense", "open"}

Chunks ==
  \A c \in Calls : /\ Level(delta[c]) /\ (HasPosted(c) => Even(delta[c]))
                   /\ Planned(c) => WholePlan(chunk[c])

\* The alarm is raised over a break only, "zero" never is.
Justified(what) ==
  /\ what \in {"zero", "complete"} => broken = 0
  /\ what = "unbalanced_transaction" => broken # 0

Verdicts == (\A c \in Calls : Justified(result[c])) /\ (\A t \in Tabs : Justified(outcome[t]))

\* The accounts that call c is about to change.
Reach(c) == DOMAIN delta[c] \cup (IF Planned(c) THEN DOMAIN chunk[c] ELSE {})

\* h is the last account of the currency with a balance, behind the suspense account
\* and behind whatever a call is about to change.
Last(k, h) ==
  /\ h \in InCurrency(k) /\ Suspense[k] < h /\ bal[h] # 0
  /\ \A b \in InCurrency(k) : h < b => bal[b] = 0
  /\ \A c \in Calls : \A a \in Reach(c) \cap InCurrency(k) : a < h

Standing ==
  transfers = broken => \A k \in Currencies :
    Total(k) # 0 /\ HeldBehind(k) # {} => \E h \in Accounts : Last(k, h)

BInv == Books /\ Untouched /\ Chunks /\ Verdicts /\ Standing

LEMMA CurrencyFinite ==
  /\ IsFiniteSet(Accounts)
  /\ \A k : IsFiniteSet(InCurrency(k)) /\ InCurrency(k) \subseteq Accounts
BY ResetAssumption, PartFinite DEF InCurrency

\* What a posting adds to the sum over a set of accounts that has all of its legs, or none.
LEMMA AfterSum ==
  ASSUME NEW f, DOMAIN f = Accounts, \A a \in Accounts : f[a] \in Int,
         NEW d, DOMAIN d \subseteq Accounts, \A a \in DOMAIN d : d[a] \in Int,
         NEW S, S \subseteq Accounts
  PROVE  /\ DOMAIN After(f, d) = Accounts
         /\ \A a \in Accounts : After(f, d)[a] \in Int
         /\ \A a \in Accounts \ DOMAIN d : After(f, d)[a] = f[a]
         /\ DOMAIN d \subseteq S =>
              SumFunctionOnSet(After(f, d), S) = SumFunctionOnSet(f, S) + SumFunction(d)
         /\ DOMAIN d \cap S = {} => SumFunctionOnSet(After(f, d), S) = SumFunctionOnSet(f, S)
<1> DEFINE e == [a \in Accounts |-> IF a \in DOMAIN d THEN d[a] ELSE 0]
           g == After(f, d)
<1>1. DOMAIN g = Accounts /\ \A a \in Accounts : g[a] = f[a] + e[a]
  BY DEF After
<1>2. \A a \in Accounts : e[a] \in Int /\ (a \in DOMAIN d => e[a] = d[a]) /\ (a \notin DOMAIN d => e[a] = 0)
  OBVIOUS
<1> HIDE DEF e, g
<1>3. \A a \in Accounts : g[a] \in Int /\ (a \notin DOMAIN d => g[a] = f[a])
  BY <1>1, <1>2
<1>4. IsFiniteSet(S) /\ IntOn(f, S) /\ IntOn(e, S) /\ IntOn(g, S) /\ \A a \in S : g[a] = f[a] + e[a]
  BY <1>1, <1>2, <1>3, CurrencyFinite, PartFinite DEF IntOn
<1>5. SumFunctionOnSet(g, S) = SumFunctionOnSet(f, S) + SumFunctionOnSet(e, S)
  BY <1>4, SumOfSums
<1>6. ASSUME DOMAIN d \subseteq S
      PROVE  SumFunctionOnSet(g, S) = SumFunctionOnSet(f, S) + SumFunction(d)
  <2>1. \A a \in S \ DOMAIN d : e[a] = 0
    BY <1>2
  <2>2. SumFunctionOnSet(e, S) = SumFunctionOnSet(e, DOMAIN d)
    BY <1>4, <1>6, <2>1, SumOverPart
  <2>3. IsFiniteSet(DOMAIN d) /\ IntOn(e, DOMAIN d) /\ \A a \in DOMAIN d : e[a] = d[a]
    BY <1>2, <1>4, <1>6, PartFinite DEF IntOn
  <2>4. SumFunctionOnSet(e, DOMAIN d) = SumFunctionOnSet(d, DOMAIN d)
    BY <2>3, SumSame
  <2> QED BY <1>5, <2>2, <2>4 DEF SumFunction
<1>7. ASSUME DOMAIN d \cap S = {}
      PROVE  SumFunctionOnSet(g, S) = SumFunctionOnSet(f, S)
  <2>1. \A a \in S : g[a] = f[a]
    BY <1>3, <1>7
  <2> QED BY <1>4, <2>1, SumSame
<1> QED BY <1>1, <1>3, <1>6, <1>7 DEF g

\* The accounts of an even delta are all of a currency, or none.
LEMMA EvenIsWithin ==
  ASSUME NEW d, Even(d), NEW k
  PROVE  DOMAIN d \subseteq InCurrency(k) \/ DOMAIN d \cap InCurrency(k) = {}
BY DEF Even, Level, InCurrency

LEMMA NothingIsEven == DOMAIN <<>> = {} /\ Level(<<>>) /\ Even(<<>>)
<1>1. DOMAIN <<>> = {}
  OBVIOUS
<1>2. SumFunction(<<>>) = 0
  BY <1>1, SumEmpty DEF SumFunction
<1> QED BY <1>1, <1>2 DEF Even, Level

\* An even posting changes no sum.
LEMMA EvenKeepsBooks ==
  ASSUME Books, Shape, NEW d, Even(d), bal' = After(bal, d), broken' = broken,
         transfers' \in {transfers, transfers + 1}
  PROVE  /\ DOMAIN bal' = Accounts /\ Books' /\ \A k \in Currencies : Total(k)' = Total(k)
         /\ \A a \in Accounts \ DOMAIN d : bal'[a] = bal[a]
<1>1. /\ DOMAIN bal = Accounts /\ (\A a \in Accounts : bal[a] \in Int)
      /\ DOMAIN d \subseteq Accounts /\ (\A a \in DOMAIN d : d[a] \in Int)
  BY DEF Books, Shape, Even, Level
<1>2. /\ DOMAIN bal' = Accounts /\ (\A a \in Accounts : bal'[a] \in Int)
      /\ \A a \in Accounts \ DOMAIN d : bal'[a] = bal[a]
  BY <1>1, AfterSum
<1>3. ASSUME NEW S, S \subseteq Accounts, DOMAIN d \subseteq S \/ DOMAIN d \cap S = {}
      PROVE  SumFunctionOnSet(bal', S) = SumFunctionOnSet(bal, S)
  <2>1. SumFunctionOnSet(bal, S) \in Int
    <3>1. IsFiniteSet(S) /\ IntOn(bal, S)
      BY <1>1, <1>3, CurrencyFinite, PartFinite DEF IntOn
    <3> QED BY <3>1, SumRecursion
  <2>2. SumFunction(d) = 0
    BY DEF Even, Level
  <2> QED BY <1>1, <1>3, <2>1, <2>2, AfterSum
<1>4. SumFunctionOnSet(bal', Accounts) = SumFunctionOnSet(bal, Accounts)
  BY <1>1, <1>3
<1>5. \A k \in Currencies : Total(k)' = Total(k)
  BY <1>3, EvenIsWithin, CurrencyFinite DEF Total, InCurrency
<1>6. Books'
  BY <1>2, <1>4, <1>5 DEF Books
<1> QED BY <1>2, <1>5, <1>6

\* What a chunk that is planned from the balances takes: whole balances of one
\* currency, all of them, or all but some that come later.
LEMMA PlanIs ==
  ASSUME IInv, Books, NonZero(bal) # {},
         NEW plan, plan = Restrict(bal, Taken(bal)), NEW k, k = CurrencyIn(plan)
  PROVE  /\ WholePlan(plan) /\ k \in Currencies
         /\ (\A a \in NonZero(bal) \ DOMAIN plan : CurrencyOf[a] # k) => SumFunction(plan) = Total(k)
         /\ (\E a \in NonZero(bal) \ DOMAIN plan : CurrencyOf[a] = k) =>
              \E b \in InCurrency(k) : bal[b] # 0 /\ \A a \in DOMAIN plan : a < b
<1> DEFINE nonzero == NonZero(bal)
           currency == Min({CurrencyOf[a] : a \in nonzero})
           pending == {a \in nonzero : CurrencyOf[a] = currency}
           below(a) == {b \in pending : b < a}
<1>1. DOMAIN bal = Accounts /\ nonzero \subseteq Accounts /\ pending \subseteq Accounts
  BY DEF IInv, Shape, NonZero
<1>2. IsFiniteSet(pending) /\ \A a \in pending : a \in Nat
  BY <1>1, CurrencyFinite, PartFinite, ResetAssumption
<1>3. \A a : IsFiniteSet(below(a)) /\ Cardinality(below(a)) \in Nat
  BY <1>2, PartFinite
<1>4. /\ DOMAIN plan = Taken(bal) /\ DOMAIN plan # {} /\ \A a \in DOMAIN plan : plan[a] = bal[a]
  BY PlannerTakes DEF Restrict, PlanOk
<1>5. Taken(bal) = {a \in pending : Cardinality(below(a)) < ChunkSize}
  BY DEF Taken
<1>6. DOMAIN plan \subseteq pending
  BY <1>4, <1>5
<1>7. Min(DOMAIN plan) \in DOMAIN plan
  <2>1. DOMAIN plan \in SUBSET Nat /\ DOMAIN plan # {}
    BY <1>2, <1>4, <1>6
  <2> QED BY <2>1, LeastOf
<1>8. k = currency
  BY <1>6, <1>7 DEF CurrencyIn
<1>9. k \in Currencies
  BY <1>1, <1>6, <1>7, ResetAssumption DEF CurrencyIn
<1>10. pending = {a \in InCurrency(k) : bal[a] # 0}
  BY <1>1, <1>8 DEF NonZero, InCurrency
<1> HIDE DEF nonzero, currency, pending
<1>11. WholePlan(plan)
  BY <1>1, <1>4, <1>6, <1>10 DEF WholePlan, Books, InCurrency
<1>12. ASSUME \A a \in NonZero(bal) \ DOMAIN plan : CurrencyOf[a] # k
       PROVE  SumFunction(plan) = Total(k)
  <2>1. pending \subseteq DOMAIN plan
    BY <1>1, <1>10, <1>12 DEF NonZero, InCurrency
  <2>2. DOMAIN plan = pending
    BY <1>6, <2>1
  <2>3. /\ IsFiniteSet(InCurrency(k)) /\ IntOn(bal, InCurrency(k)) /\ pending \subseteq InCurrency(k)
        /\ \A a \in InCurrency(k) \ pending : bal[a] = 0
    BY <1>10, CurrencyFinite DEF IntOn, Books
  <2>4. Total(k) = SumFunctionOnSet(bal, pending)
    BY <2>3, SumOverPart DEF Total
  <2>5. IntOn(bal, pending) /\ \A a \in pending : bal[a] = plan[a]
    BY <1>4, <2>2, <2>3 DEF IntOn
  <2>6. SumFunctionOnSet(bal, pending) = SumFunctionOnSet(plan, pending)
    BY <1>2, <2>5, SumSame
  <2> QED BY <2>2, <2>4, <2>6 DEF SumFunction
<1>13. ASSUME NEW b \in NonZero(bal) \ DOMAIN plan, CurrencyOf[b] = k
       PROVE  \E x \in InCurrency(k) : bal[x] # 0 /\ \A a \in DOMAIN plan : a < x
  <2>1. b \in pending /\ b \in InCurrency(k) /\ bal[b] # 0
    BY <1>1, <1>10, <1>13 DEF NonZero, InCurrency
  <2>2. ASSUME NEW a \in DOMAIN plan PROVE a < b
    <3>1. a \in Nat /\ b \in Nat /\ a \in pending /\ Cardinality(below(a)) < ChunkSize
      BY <1>2, <1>4, <1>5, <1>6, <2>1
    <3>2. ~(Cardinality(below(b)) < ChunkSize)
      BY <1>4, <1>5, <1>13, <2>1
    <3> SUFFICES ASSUME b <= a PROVE FALSE
      BY <3>1
    <3>3. below(b) \subseteq below(a)
      BY <1>2, <3>1
    <3>4. Cardinality(below(b)) <= Cardinality(below(a))
      BY <1>3, <3>3, FS_Subset
    <3>5. Cardinality(below(a)) \in Nat /\ Cardinality(below(b)) \in Nat /\ ChunkSize \in Nat
      BY <1>3, ResetAssumption
    <3> HIDE DEF below
    <3> QED BY <3>1, <3>2, <3>4, <3>5
  <2> QED BY <2>1, <2>2
<1> QED BY <1>9, <1>11, <1>12, <1>13

\* The legs of a chunk: what it takes from the accounts, and what the suspense account
\* absorbs of it.
LEMMA ChunkIs ==
  ASSUME NEW plan, WholePlan(plan), NEW suspense \in SUBSET Accounts,
         \A a, b \in suspense : a = b, NEW d, d = ChunkDelta(plan, suspense)
  PROVE  /\ CurrencyIn(plan) \in Currencies
         /\ Suspense[CurrencyIn(plan)] \in InCurrency(CurrencyIn(plan))
         /\ DOMAIN d = DOMAIN plan \cup suspense /\ DOMAIN d \subseteq Accounts
         /\ \A a \in DOMAIN plan : a \in InCurrency(CurrencyIn(plan))
         /\ \A a \in DOMAIN d : d[a] \in Int
         /\ SumFunction(plan) \in Int
         /\ SumFunction(d) = IF suspense = {} THEN -SumFunction(plan) ELSE 0
<1> DEFINE k == CurrencyIn(plan)
           D == DOMAIN plan \cup suspense
           f == [a \in D |-> IF a \in DOMAIN plan THEN -plan[a] ELSE 0]
           g == [a \in D |-> IF a \in suspense THEN SumFunction(plan) ELSE 0]
<1>1. /\ DOMAIN plan \subseteq Accounts /\ DOMAIN plan # {}
      /\ \A a \in DOMAIN plan : plan[a] \in Int /\ CurrencyOf[a] = k
  BY DEF WholePlan
<1>2. k \in Currencies /\ Suspense[k] \in InCurrency(k)
  <2> HIDE DEF k
  <2>1. PICK a \in DOMAIN plan : a \in Accounts /\ CurrencyOf[a] = k
    BY <1>1
  <2>2. k \in Currencies
    BY <2>1, ResetAssumption
  <2> QED BY <2>2, ResetAssumption DEF InCurrency
<1> HIDE DEF k
<1>3. D \subseteq Accounts /\ \A a \in DOMAIN plan : a \in InCurrency(k)
  BY <1>1 DEF InCurrency
<1>4. IsFiniteSet(D) /\ IsFiniteSet(DOMAIN plan) /\ IntOn(plan, DOMAIN plan)
  BY <1>1, <1>3, CurrencyFinite, PartFinite DEF IntOn
<1>5. SumFunction(plan) \in Int
  BY <1>4, SumRecursion DEF SumFunction
<1>6. DOMAIN d = D /\ \A a \in D : d[a] = f[a] + g[a]
  BY DEF ChunkDelta
<1>7. /\ \A a \in D : f[a] \in Int /\ g[a] \in Int
      /\ \A a \in DOMAIN plan : f[a] = -plan[a]
      /\ \A a \in D \ DOMAIN plan : f[a] = 0
      /\ \A a \in D : (a \in suspense => g[a] = SumFunction(plan)) /\ (a \notin suspense => g[a] = 0)
  BY <1>1, <1>5
<1>8. DOMAIN plan \subseteq D /\ suspense \subseteq D
  OBVIOUS
<1> HIDE DEF D, f, g
<1>9. IntOn(f, D) /\ IntOn(g, D) /\ \A a \in D : d[a] \in Int
  BY <1>6, <1>7 DEF IntOn
<1>10. SumFunctionOnSet(d, D) = SumFunctionOnSet(f, D) + SumFunctionOnSet(g, D)
  BY <1>4, <1>6, <1>9, SumOfSums
<1>11. SumFunctionOnSet(f, D) = -SumFunction(plan)
  <2>1. SumFunctionOnSet(f, D) = SumFunctionOnSet(f, DOMAIN plan)
    BY <1>4, <1>7, <1>8, <1>9, SumOverPart
  <2>2. SumFunctionOnSet(f, DOMAIN plan) = -SumFunctionOnSet(plan, DOMAIN plan)
    BY <1>4, <1>7, SumOfOpposites
  <2> QED BY <2>1, <2>2 DEF SumFunction
<1>12. SumFunctionOnSet(g, D) = IF suspense = {} THEN 0 ELSE SumFunction(plan)
  <2>1. CASE suspense # {}
    <3> PICK s \in suspense : suspense = {s}
      BY <2>1
    <3>1. {s} \subseteq D /\ \A a \in D \ {s} : g[a] = 0
      BY <1>7, <1>8, <2>1
    <3>2. SumFunctionOnSet(g, D) = SumFunctionOnSet(g, {s})
      BY <1>4, <1>9, <3>1, SumOverPart
    <3>3. g[s] = SumFunction(plan)
      BY <1>7, <1>8, <2>1
    <3> QED BY <1>5, <2>1, <3>2, <3>3, SumOfOne
  <2>2. CASE suspense = {}
    <3>1. \A a \in D : g[a] = 0
      BY <1>7, <2>2
    <3> QED BY <1>4, <2>2, <3>1, SumOfZeros
  <2> QED BY <2>1, <2>2
<1>13. SumFunction(d) = IF suspense = {} THEN -SumFunction(plan) ELSE 0
  BY <1>5, <1>6, <1>10, <1>11, <1>12 DEF SumFunction
<1>14. DOMAIN d = DOMAIN plan \cup suspense
  BY <1>6 DEF D
<1> QED BY <1>2, <1>3, <1>5, <1>6, <1>9, <1>13, <1>14 DEF k

\* A step of call c that leaves the balances: what it plans, holds and says is right, and
\* what it is about to change lies before the last account.
LEMMA CallKeeps ==
  ASSUME BInv, NEW c \in Calls, starts # 0, UNCHANGED <<bal, transfers, broken, starts>>,
         \A q \in Calls \ {c} :
           pc'[q] = pc[q] /\ chunk'[q] = chunk[q] /\ delta'[q] = delta[q] /\ result'[q] = result[q],
         Level(delta'[c]), HasPosted(c)' => Even(delta'[c]),
         Planned(c)' => WholePlan(chunk'[c]), Justified(result'[c]),
         \A t \in Tabs : Justified(outcome'[t]),
         transfers = broken => \A k \in Currencies : \A h \in Accounts :
           Total(k) # 0 /\ Last(k, h) => \A a \in Reach(c)' \cap InCurrency(k) : a < h
  PROVE  BInv'
<1>1. Books' /\ \A k : Total(k)' = Total(k)
  BY DEF BInv, Books, Total
<1>2. Untouched'
  BY DEF Untouched
<1>3. Chunks'
  <2>1. \A q \in Calls \ {c} : (Planned(q)' <=> Planned(q)) /\ (HasPosted(q)' <=> HasPosted(q))
    BY DEF Planned, HasPosted, At
  <2>2. \A q \in Calls \ {c} : /\ Level(delta'[q]) /\ (HasPosted(q)' => Even(delta'[q]))
                               /\ Planned(q)' => WholePlan(chunk'[q])
    BY <2>1 DEF BInv, Chunks
  <2> QED BY <2>2 DEF Chunks, Even, Level, WholePlan
<1>4. Verdicts'
  <2>1. \A what : Justified(what)' <=> Justified(what)
    BY DEF Justified
  <2> QED BY <2>1 DEF BInv, Verdicts, Justified
<1>5. Standing'
  <2> SUFFICES ASSUME transfers = broken, NEW k \in Currencies, Total(k) # 0, HeldBehind(k) # {}
               PROVE  \E h \in Accounts : Last(k, h)'
    BY <1>1 DEF Standing, HeldBehind
  <2>1. PICK h \in Accounts : Last(k, h)
    BY DEF BInv, Standing
  <2>2. \A q \in Calls \ {c} : Reach(q)' = Reach(q)
    BY DEF Reach, Planned
  <2>3. \A q \in Calls : \A a \in Reach(q)' \cap InCurrency(k) : a < h
    BY <2>1, <2>2 DEF Last
  <2>4. Last(k, h)'
    BY <2>1, <2>3 DEF Last
  <2> QED BY <2>4
<1> QED BY <1>1, <1>2, <1>3, <1>4, <1>5 DEF BInv

\* A call under way belongs to a run that was started.
LEMMA Running ==
  ASSUME Typed, BInv, NEW c \in Calls, pc[c] # "none"
  PROVE  starts # 0 /\ starts \in Nat
BY DEF Typed, Control, BInv, Untouched

\* The accounts of an even delta in currency k, and those of a plan: one currency is enough.
LEMMA WholePlanWithin ==
  ASSUME NEW plan, WholePlan(plan), NEW k, NEW a \in DOMAIN plan, a \in InCurrency(k)
  PROVE  k = CurrencyIn(plan)
BY DEF WholePlan, InCurrency

\* The plan becomes a delta, or is refused: as unbalanced only if a final chunk was.
LEMMA ToPostKeeps ==
  ASSUME BInv, IInv, Typed, NEW c \in Calls, starts # 0, NEW plan, WholePlan(plan),
         NEW x \in Accounts, NEW suspense, suspense = {} \/ suspense = {x},
         ToPost(c, plan, suspense),
         transfers = broken => suspense \subseteq {Suspense[CurrencyIn(plan)]},
         delta[c] = <<>>, UNCHANGED <<bal, transfers, broken, starts, outcome>>,
         \A q \in Calls \ {c} : chunk'[q] = chunk[q],
         suspense = {} => SumFunction(plan) = 0 \/ (broken # 0 /\ SumFunction(plan) = Total(CurrencyIn(plan))),
         transfers = broken => \A h \in Accounts :
           Total(CurrencyIn(plan)) # 0 /\ Last(CurrencyIn(plan), h) =>
             ((suspense # {} \/ SumFunction(plan) = 0) => \A a \in DOMAIN plan : a < h)
  PROVE  BInv'
<1> DEFINE d == ChunkDelta(plan, suspense)
           k == CurrencyIn(plan)
           s == Suspense[k]
<1>1. /\ k \in Currencies /\ s \in InCurrency(k)
      /\ DOMAIN d = DOMAIN plan \cup suspense /\ DOMAIN d \subseteq Accounts
      /\ \A a \in DOMAIN plan : a \in InCurrency(k)
      /\ \A a \in DOMAIN d : d[a] \in Int
      /\ SumFunction(plan) \in Int
      /\ SumFunction(d) = IF suspense = {} THEN -SumFunction(plan) ELSE 0
  <2>1. PICK e : e = d
    OBVIOUS
  <2> HIDE DEF d
  <2>2. e = ChunkDelta(plan, suspense) /\ suspense \in SUBSET Accounts /\ \A a, b \in suspense : a = b
    BY <2>1 DEF d
  <2>3. /\ CurrencyIn(plan) \in Currencies
        /\ Suspense[CurrencyIn(plan)] \in InCurrency(CurrencyIn(plan))
        /\ DOMAIN e = DOMAIN plan \cup suspense /\ DOMAIN e \subseteq Accounts
        /\ \A a \in DOMAIN plan : a \in InCurrency(CurrencyIn(plan))
        /\ \A a \in DOMAIN e : e[a] \in Int
        /\ SumFunction(plan) \in Int
        /\ SumFunction(e) = IF suspense = {} THEN -SumFunction(plan) ELSE 0
    BY <2>2, ChunkIs
  <2> QED BY <2>1, <2>3
<1>2. DOMAIN pc = Calls /\ DOMAIN delta = Calls /\ DOMAIN result = Calls
  BY DEF IInv, Shape, Typed, Control
<1> HIDE DEF d, k, s
<1>3. \A t \in Tabs : Justified(outcome'[t])
  BY DEF BInv, Verdicts
<1>4. CASE CreateRefusal(plan, suspense, d) = "ok"
  <2>1. delta' = [delta EXCEPT ![c] = d] /\ pc' = [pc EXCEPT ![c] = "post"] /\ result' = result
    BY <1>4 DEF ToPost, Set, Goto, d
  <2>2. delta'[c] = d /\ pc'[c] = "post" /\ ~Planned(c)' /\ ~HasPosted(c)' /\ result'[c] = result[c]
        /\ \A q \in Calls \ {c} : pc'[q] = pc[q] /\ delta'[q] = delta[q] /\ result'[q] = result[q]
    BY <1>2, <2>1 DEF Planned, HasPosted, At
  <2>3. SumFunction(d) = 0
    BY <1>4 DEF CreateRefusal
  <2>4. suspense # {} \/ SumFunction(plan) = 0
    BY <1>1, <2>3
  <2>5. Level(d)
    BY <1>1, <2>3 DEF Level
  <2>6. Level(delta'[c]) /\ Justified(result'[c])
    BY <2>2, <2>5 DEF BInv, Verdicts
  <2>7. Reach(c)' = DOMAIN d
    BY <2>2 DEF Reach
  <2>8. ASSUME transfers = broken, NEW j \in Currencies, NEW h \in Accounts,
               Total(j) # 0, Last(j, h), NEW a \in DOMAIN d, a \in InCurrency(j)
        PROVE  a < h
    <3>1. a \in DOMAIN plan \/ a = s
      BY <1>1, <2>8 DEF s, k
    <3>2. j = k
      BY <1>1, <2>8, <3>1 DEF InCurrency
    <3>3. \A b \in DOMAIN plan : b < h
      BY <2>4, <2>8, <3>2 DEF k
    <3>4. s < h
      BY <2>8, <3>2 DEF Last, s
    <3> QED BY <3>1, <3>3, <3>4
  <2> QED BY <2>2, <2>6, <2>7, <2>8, <1>3, CallKeeps
<1>5. CASE CreateRefusal(plan, suspense, d) # "ok"
  <2>1. /\ delta' = delta /\ pc' = [pc EXCEPT ![c] = "commit"]
        /\ result' = [result EXCEPT ![c] = CreateRefusal(plan, suspense, d)]
    BY <1>5 DEF ToPost, Set, Goto, Settle, d
  <2>2. /\ delta'[c] = <<>> /\ pc'[c] = "commit" /\ ~Planned(c)' /\ ~HasPosted(c)'
        /\ result'[c] = CreateRefusal(plan, suspense, d)
        /\ \A q \in Calls \ {c} : pc'[q] = pc[q] /\ delta'[q] = delta[q] /\ result'[q] = result[q]
    BY <1>2, <2>1 DEF Planned, HasPosted, At
  <2>3. CreateRefusal(plan, suspense, d) = "too_few_postings"
        \/ (CreateRefusal(plan, suspense, d) = "unbalanced_transaction" /\ SumFunction(d) # 0)
    BY <1>5 DEF CreateRefusal
  <2>4. SumFunction(d) # 0 => broken # 0
    BY <1>1
  <2>5. Justified(result'[c])
    BY <2>2, <2>3, <2>4 DEF Justified
  <2>6. Reach(c)' = {}
    BY <2>2, NothingIsEven DEF Reach
  <2> QED BY <2>2, <2>5, <2>6, <1>3, NothingIsEven, CallKeeps
<1> QED BY <1>4, <1>5

\* The gate lets a call through or not.
LEMMA GateBooks ==
  ASSUME BInv, IInv, Typed, NEW c \in Calls, Gate(c)
  PROVE  BInv'
<1>1. /\ pc[c] = "gate" /\ UNCHANGED <<bal, transfers, broken, starts, outcome, chunk, delta>>
      /\ DOMAIN pc = Calls /\ DOMAIN result = Calls
  BY DEF Gate, At, database, tab, history, IInv, Shape, Typed, Control
<1>2. starts # 0 /\ delta[c] = <<>>
  BY <1>1, Running DEF IInv, Own
<1>3. \A t \in Tabs : Justified(outcome'[t])
  BY <1>1 DEF BInv, Verdicts
<1>4. \/ pc' = [pc EXCEPT ![c] = "plan"] /\ result' = result
      \/ pc' = [pc EXCEPT ![c] = "commit"] /\ result' = [result EXCEPT ![c] = "approval_required"]
  BY DEF Gate, Settle, Goto, Set
<1>5. /\ ~Planned(c)' /\ ~HasPosted(c)' /\ delta'[c] = <<>>
      /\ \A q \in Calls \ {c} : pc'[q] = pc[q] /\ result'[q] = result[q]
  BY <1>1, <1>2, <1>4 DEF Planned, HasPosted, At
<1>6. Justified(result'[c])
  BY <1>1, <1>4 DEF BInv, Verdicts, Justified
<1>7. Reach(c)' = {}
  BY <1>5, NothingIsEven DEF Reach
<1> QED BY <1>1, <1>2, <1>3, <1>5, <1>6, <1>7, NothingIsEven, CallKeeps

LEMMA PlanBooks ==
  ASSUME BInv, IInv, Typed, NEW c \in Calls, Plan(c)
  PROVE  BInv'
<1>1. /\ pc[c] = "plan" /\ UNCHANGED <<bal, transfers, broken, starts, outcome>>
      /\ DOMAIN pc = Calls /\ DOMAIN chunk = Calls /\ DOMAIN delta = Calls /\ DOMAIN result = Calls
  BY DEF Plan, At, database, tab, history, IInv, Shape, Typed, Control
<1>2. starts # 0 /\ delta[c] = <<>>
  BY <1>1, Running DEF IInv, Own
<1>3. \A t \in Tabs : Justified(outcome'[t])
  BY <1>1 DEF BInv, Verdicts
<1>4. CASE NonZero(bal) = {}
  <2>1. /\ pc' = [pc EXCEPT ![c] = "commit"] /\ result' = [result EXCEPT ![c] = "zero"]
        /\ UNCHANGED <<chunk, delta>>
    BY <1>4 DEF Plan, Settle, Goto, Set
  <2>2. broken = 0
    <3>1. \A a \in Accounts : bal[a] = 0
      BY <1>4 DEF NonZero, IInv, Shape
    <3>2. SumFunctionOnSet(bal, Accounts) = 0
      BY <3>1, CurrencyFinite, SumOfZeros
    <3> QED BY <3>2 DEF BInv, Books
  <2>3. pc'[c] = "commit" /\ result'[c] = "zero" /\ delta'[c] = <<>> /\ ~Planned(c)' /\ ~HasPosted(c)'
    BY <1>1, <1>2, <2>1 DEF Planned, HasPosted, At
  <2>4. Justified(result'[c]) /\ Reach(c)' = {}
    BY <2>2, <2>3, NothingIsEven DEF Justified, Reach
  <2> QED BY <1>1, <1>2, <1>3, <2>1, <2>3, <2>4, NothingIsEven, CallKeeps
<1>5. CASE NonZero(bal) # {}
  <2>1. PICK plan : plan = Restrict(bal, Taken(bal))
    OBVIOUS
  <2>2. PICK k : k = CurrencyIn(plan)
    OBVIOUS
  <2>3. /\ WholePlan(plan) /\ k \in Currencies
        /\ (\A a \in NonZero(bal) \ DOMAIN plan : CurrencyOf[a] # k) => SumFunction(plan) = Total(k)
        /\ (\E a \in NonZero(bal) \ DOMAIN plan : CurrencyOf[a] = k) =>
             \E b \in InCurrency(k) : bal[b] # 0 /\ \A a \in DOMAIN plan : a < b
    BY <1>5, <2>1, <2>2, PlanIs DEF BInv
  <2>4. chunk' = [chunk EXCEPT ![c] = plan]
    BY <1>5, <2>1 DEF Plan, Set
  <2>5. chunk'[c] = plan /\ \A q \in Calls \ {c} : chunk'[q] = chunk[q]
    BY <1>1, <2>4
  <2>6. ASSUME \E a \in NonZero(bal) \ DOMAIN plan : CurrencyOf[a] = k, NEW h \in Accounts, Last(k, h)
        PROVE  \A a \in DOMAIN plan : a < h
    <3>1. PICK b \in InCurrency(k) : bal[b] # 0 /\ \A a \in DOMAIN plan : a < b
      BY <2>3, <2>6
    <3>2. ~(h < b)
      BY <2>6, <3>1 DEF Last
    <3>3. h \in Nat /\ b \in Nat /\ \A a \in DOMAIN plan : a \in Nat
      BY <2>3, ResetAssumption DEF WholePlan, InCurrency
    <3> QED BY <3>1, <3>2, <3>3
  <2>7. CASE NeedsSuspense(bal, plan)
    <3>1. pc' = [pc EXCEPT ![c] = "suspense"] /\ UNCHANGED <<delta, result>>
      BY <1>5, <2>1, <2>7 DEF Plan, Goto, Set
    <3>2. /\ pc'[c] = "suspense" /\ delta'[c] = <<>> /\ Planned(c)' /\ ~HasPosted(c)' /\ result'[c] = result[c]
          /\ \A q \in Calls \ {c} : pc'[q] = pc[q] /\ delta'[q] = delta[q] /\ result'[q] = result[q]
      BY <1>1, <1>2, <3>1 DEF Planned, HasPosted, At
    <3>3. Reach(c)' = DOMAIN plan
      BY <2>5, <3>2, NothingIsEven DEF Reach
    <3>4. \E a \in NonZero(bal) \ DOMAIN plan : CurrencyOf[a] = k
      BY <2>2, <2>7 DEF NeedsSuspense
    <3>5. ASSUME NEW j \in Currencies, NEW h \in Accounts, Last(j, h),
                 NEW a \in DOMAIN plan, a \in InCurrency(j)
          PROVE  a < h
      <4>1. j = k
        BY <2>2, <2>3, <3>5, WholePlanWithin
      <4> QED BY <2>6, <3>4, <3>5, <4>1
    <3>6. Justified(result'[c])
      BY <3>2 DEF BInv, Verdicts
    <3>7. Planned(c)' => WholePlan(chunk'[c])
      BY <2>3, <2>5
    <3> QED BY <1>1, <1>2, <1>3, <2>5, <3>2, <3>3, <3>5, <3>6, <3>7, NothingIsEven, CallKeeps
  <2>8. CASE ~NeedsSuspense(bal, plan)
    <3>1. ToPost(c, plan, {})
      BY <1>5, <2>1, <2>8 DEF Plan
    <3> DEFINE x == Suspense[k]
    <3>2. x \in Accounts
      BY <2>3, ResetAssumption
    <3> HIDE DEF x
    <3>3. CASE \E a \in NonZero(bal) \ DOMAIN plan : CurrencyOf[a] = k
      <4>1. SumFunction(plan) = 0
        BY <2>2, <2>8, <3>3 DEF NeedsSuspense
      <4>2. \A h \in Accounts : Last(k, h) => \A a \in DOMAIN plan : a < h
        BY <2>6, <3>3
      <4> QED BY <1>1, <1>2, <2>2, <2>3, <2>5, <3>1, <3>2, <4>1, <4>2, ToPostKeeps
    <3>4. CASE \A a \in NonZero(bal) \ DOMAIN plan : CurrencyOf[a] # k
      <4>1. SumFunction(plan) = Total(k)
        BY <2>3, <3>4
      <4>2. Total(k) # 0 => broken # 0
        BY <2>3 DEF BInv, Books
      <4>3. SumFunction(plan) = 0 \/ (broken # 0 /\ SumFunction(plan) = Total(CurrencyIn(plan)))
        BY <2>2, <4>1, <4>2
      <4>4. ~(Total(CurrencyIn(plan)) # 0 /\ SumFunction(plan) = 0)
        BY <2>2, <4>1
      <4> QED BY <1>1, <1>2, <2>3, <2>5, <3>1, <3>2, <4>3, <4>4, ToPostKeeps
    <3> QED BY <3>3, <3>4
  <2> QED BY <2>7, <2>8
<1> QED BY <1>4, <1>5

\* The plan of a call that waits for its suspense account lies before the last account.
LEMMA PlannedBefore ==
  ASSUME NEW c \in Calls, Planned(c), NEW k, NEW h, Last(k, h), WholePlan(chunk[c]),
         k = CurrencyIn(chunk[c])
  PROVE  \A a \in DOMAIN chunk[c] : a < h
BY DEF Last, Reach, WholePlan, InCurrency

LEMMA SuspenseBooks ==
  ASSUME BInv, IInv, Typed, NEW c \in Calls, FindSuspense(c) \/ OpenSuspense(c)
  PROVE  BInv'
<1>1. /\ Planned(c) /\ pc[c] # "none" /\ chunk' = chunk
      /\ UNCHANGED <<bal, transfers, broken, starts, outcome>>
      /\ DOMAIN pc = Calls /\ DOMAIN delta = Calls /\ DOMAIN result = Calls
  BY DEF FindSuspense, OpenSuspense, At, Planned, database, tab, history, IInv, Shape, Typed, Control
<1>2. starts # 0 /\ delta[c] = <<>> /\ WholePlan(chunk[c])
  BY <1>1, Running DEF IInv, Own, Planned, BInv, Chunks
<1>3. \A t \in Tabs : Justified(outcome'[t])
  BY <1>1 DEF BInv, Verdicts
<1>4. CASE \/ HolderOf(c) # None /\ ToPost(c, chunk[c], {HolderOf(c)})
           \/ ToPost(c, chunk[c], {SuspenseOf(c)})
  <2>1. \A h \in Accounts : Last(CurrencyIn(chunk[c]), h) => \A a \in DOMAIN chunk[c] : a < h
    BY <1>1, <1>2, PlannedBefore
  <2>2. CurrencyIn(chunk[c]) \in Currencies
    BY <1>1, PlanNames DEF IInv, Own, Planned
  <2>3. PICK x \in Accounts : /\ ToPost(c, chunk[c], {x})
                              /\ transfers = broken => x = Suspense[CurrencyIn(chunk[c])]
    <3>1. CASE HolderOf(c) # None /\ ToPost(c, chunk[c], {HolderOf(c)})
      BY <2>2, <3>1 DEF HolderOf, Typed, TypeOK, Control
    <3>2. CASE ToPost(c, chunk[c], {SuspenseOf(c)})
      BY <2>2, <3>2, ResetAssumption DEF SuspenseOf
    <3> QED BY <1>4, <3>1, <3>2
  <2>4. PICK plan : plan = chunk[c]
    OBVIOUS
  <2>5. /\ WholePlan(plan) /\ {x} # {}
        /\ transfers = broken => {x} \subseteq {Suspense[CurrencyIn(plan)]}
        /\ \A h \in Accounts : Last(CurrencyIn(plan), h) => \A a \in DOMAIN plan : a < h
    BY <1>2, <2>1, <2>3, <2>4
  <2>6. ToPost(c, plan, {x})
    BY <2>3, <2>4 DEF ToPost
  <2>7. \A q \in Calls \ {c} : chunk'[q] = chunk[q]
    BY <1>1
  <2> QED BY <1>1, <1>2, <2>5, <2>6, <2>7, ToPostKeeps
<1>5. CASE FindSuspense(c) /\ HolderOf(c) = None
  <2>1. pc' = [pc EXCEPT ![c] = "open"] /\ UNCHANGED <<delta, result>>
    BY <1>5 DEF FindSuspense, Goto, Set
  <2>2. /\ Planned(c)' /\ ~HasPosted(c)' /\ delta'[c] = <<>> /\ result'[c] = result[c]
        /\ \A q \in Calls \ {c} : pc'[q] = pc[q] /\ delta'[q] = delta[q] /\ result'[q] = result[q]
    BY <1>1, <1>2, <2>1 DEF Planned, HasPosted, At
  <2>3. Reach(c)' = Reach(c)
    BY <1>1, <2>1, <2>2 DEF Reach
  <2>4. \A k, h : Last(k, h) => \A a \in Reach(c)' \cap InCurrency(k) : a < h
    BY <2>3 DEF Last
  <2>5. Justified(result'[c]) /\ WholePlan(chunk'[c])
    BY <1>1, <1>2, <2>2 DEF BInv, Verdicts
  <2> QED BY <1>1, <1>2, <1>3, <2>2, <2>4, <2>5, NothingIsEven, CallKeeps
<1>6. CASE OpenSuspense(c) /\ HolderOf(c) # None
  <2>1. /\ pc' = [pc EXCEPT ![c] = "commit"] /\ delta' = delta
        /\ result' = [result EXCEPT ![c] = "transaction_aborted"]
    BY <1>6 DEF OpenSuspense, Settle, Goto, Set
  <2>2. /\ ~Planned(c)' /\ ~HasPosted(c)' /\ delta'[c] = <<>> /\ Justified(result'[c])
        /\ \A q \in Calls \ {c} : pc'[q] = pc[q] /\ delta'[q] = delta[q] /\ result'[q] = result[q]
    BY <1>1, <1>2, <2>1 DEF Planned, HasPosted, At, Justified
  <2>3. Reach(c)' = {}
    BY <2>2, NothingIsEven DEF Reach
  <2> QED BY <1>1, <1>2, <1>3, <2>2, <2>3, NothingIsEven, CallKeeps
<1> QED BY <1>4, <1>5, <1>6 DEF FindSuspense, OpenSuspense

LEMMA PostBooks ==
  ASSUME BInv, IInv, Typed, NEW c \in Calls, ReplayChunk(c) \/ PostChunk(c) \/ Count(c)
  PROVE  BInv'
<1>1. /\ pc[c] # "none" /\ ~Planned(c) /\ chunk' = chunk
      /\ UNCHANGED <<bal, transfers, broken, starts, outcome>>
      /\ DOMAIN pc = Calls /\ DOMAIN delta = Calls /\ DOMAIN result = Calls
  BY DEF ReplayChunk, PostChunk, Count, At, Planned, database, tab, history, IInv, Shape, Typed, Control
<1>2. starts # 0 /\ Level(delta[c]) /\ (HasPosted(c) => Even(delta[c]))
  BY <1>1, Running DEF BInv, Chunks
<1>3. \A t \in Tabs : Justified(outcome'[t])
  BY <1>1 DEF BInv, Verdicts
<1>4. Justified(result[c])
  BY DEF BInv, Verdicts
<1>5. Count(c) => \E what \in {"zero", "remaining"} :
                     result' = [result EXCEPT ![c] = what] /\ (what = "zero" => broken = 0)
  <2> SUFFICES ASSUME Count(c), NonZero(After(bal, delta[c])) = {} PROVE broken = 0
    BY DEF Count, Settle, Set
  <2>1. DOMAIN bal = Accounts /\ \A a \in Accounts : bal[a] \in Int
    BY DEF BInv, Books, IInv, Shape
  <2>2. /\ DOMAIN After(bal, delta[c]) = Accounts
        /\ SumFunctionOnSet(After(bal, delta[c]), Accounts)
             = SumFunctionOnSet(bal, Accounts) + SumFunction(delta[c])
    <3>1. PICK d : d = delta[c]
      OBVIOUS
    <3>2. DOMAIN d \subseteq Accounts /\ \A a \in DOMAIN d : d[a] \in Int
      BY <1>2, <3>1 DEF Even, Level
    <3>3. /\ DOMAIN After(bal, d) = Accounts
          /\ SumFunctionOnSet(After(bal, d), Accounts)
               = SumFunctionOnSet(bal, Accounts) + SumFunction(d)
      BY <2>1, <3>2, AfterSum
    <3> QED BY <3>1, <3>3
  <2>3. \A a \in Accounts : After(bal, delta[c])[a] = 0
    BY <2>2 DEF NonZero
  <2>4. SumFunctionOnSet(After(bal, delta[c]), Accounts) = 0
    BY <2>3, CurrencyFinite, SumOfZeros
  <2> QED BY <1>2, <2>2, <2>4 DEF Level, BInv, Books
<1>6. /\ pc' = [pc EXCEPT ![c] = "count"] \/ pc' = [pc EXCEPT ![c] = "commit"]
      /\ delta' = delta \/ delta' = [delta EXCEPT ![c] = <<>>]
      /\ \/ result' = result
         \/ \E what \in PostErrors \cup {"idempotency_conflict"} :
              result' = [result EXCEPT ![c] = what]
         \/ \E what \in {"zero", "remaining"} :
              result' = [result EXCEPT ![c] = what] /\ (what = "zero" => broken = 0)
  <2>1. CASE ReplayChunk(c)
    BY <2>1 DEF ReplayChunk, Settle, Goto, Set
  <2>2. CASE PostChunk(c)
    BY <2>2, RefusalIsError DEF PostChunk, Settle, Goto, Set
  <2>3. CASE Count(c)
    BY <1>5, <2>3 DEF Count, Settle, Goto, Set
  <2> QED BY <2>1, <2>2, <2>3
<1>7. /\ ~Planned(c)'
      /\ delta'[c] = delta[c] \/ delta'[c] = <<>>
      /\ \A q \in Calls \ {c} : pc'[q] = pc[q] /\ delta'[q] = delta[q] /\ result'[q] = result[q]
  BY <1>1, <1>6 DEF Planned
<1>8. Justified(result'[c])
  BY <1>1, <1>4, <1>6 DEF Justified, PostErrors
<1>9. Level(delta'[c]) /\ Reach(c)' \subseteq Reach(c)
  BY <1>2, <1>7, NothingIsEven DEF Reach
<1>10. HasPosted(c)' => Even(delta'[c])
  <2>1. CASE delta'[c] = <<>>
    BY <2>1, NothingIsEven
  <2>2. CASE delta'[c] # <<>> /\ PostChunk(c)
    <3>1. Refusal(c) = "ok" /\ delta' = delta
      BY <1>1, <2>2 DEF PostChunk, Set
    <3>2. PlanOk(chunk[c])
      BY <2>2 DEF PostChunk, At, IInv, Own
    <3>3. \A a \in DOMAIN delta[c] : CurrencyOf[a] = CurrencyIn(chunk[c])
      BY <3>1, <3>2, RefusedNone
    <3> QED BY <1>2, <3>1, <3>3 DEF Even
  <2>3. CASE delta'[c] # <<>> /\ Count(c)
    <3>1. HasPosted(c) /\ delta' = delta
      BY <2>3 DEF Count, HasPosted
    <3> QED BY <1>2, <3>1
  <2>4. ReplayChunk(c) => delta'[c] = <<>>
    BY <1>1 DEF ReplayChunk, Set
  <2> QED BY <2>1, <2>2, <2>3, <2>4
<1>11. \A k, h : Last(k, h) => \A a \in Reach(c)' \cap InCurrency(k) : a < h
  BY <1>9 DEF Last
<1> QED BY <1>1, <1>2, <1>3, <1>7, <1>8, <1>9, <1>10, <1>11, CallKeeps

\* A call that is over has nothing left to change.
LEMMA ForgetIs ==
  ASSUME IInv, Typed, NEW c \in Calls, Forget(c)
  PROVE  /\ pc'[c] = "none" /\ delta'[c] = <<>> /\ result'[c] = "none"
         /\ ~Planned(c)' /\ ~HasPosted(c)' /\ Reach(c)' = {} /\ Justified(result'[c])
         /\ \A q \in Calls \ {c} :
              pc'[q] = pc[q] /\ chunk'[q] = chunk[q] /\ delta'[q] = delta[q] /\ result'[q] = result[q]
<1>1. /\ pc' = [pc EXCEPT ![c] = "none"] /\ chunk' = [chunk EXCEPT ![c] = <<>>]
      /\ delta' = [delta EXCEPT ![c] = <<>>] /\ result' = [result EXCEPT ![c] = "none"]
  BY DEF Forget, Goto, Set
<1>2. pc'[c] = "none" /\ delta'[c] = <<>> /\ result'[c] = "none"
  BY <1>1 DEF IInv, Shape, Typed, Control
<1> QED BY <1>1, <1>2, NothingIsEven
        DEF Planned, HasPosted, At, Reach, Justified, IInv, Shape, Typed, Control

LEMMA CrashBooks ==
  ASSUME BInv, IInv, Typed, NEW c \in Calls, Crash(c)
  PROVE  BInv'
<1>1. pc[c] # "none" /\ UNCHANGED <<bal, transfers, broken, starts, outcome>> /\ Forget(c)
  BY DEF Crash, At, database, tab, history
<1>2. \A t \in Tabs : Justified(outcome'[t])
  BY <1>1 DEF BInv, Verdicts
<1> QED BY <1>1, <1>2, ForgetIs, Running, NothingIsEven, CallKeeps

\* An answer tells a tab what its call found.
LEMMA ReceiveIs ==
  ASSUME NEW t \in Tabs, NEW what, Justified(what), \A u \in Tabs : Justified(outcome[u]),
         Receive(t, what), broken' = broken, DOMAIN outcome = Tabs
  PROVE  \A u \in Tabs : Justified(outcome'[u])
<1>1. \/ outcome' = outcome
      \/ \E how \in {"complete", "out_of_calls", what} :
           outcome' = [outcome EXCEPT ![t] = how] /\ (how = "complete" /\ how # what => what = "zero")
  <2>1. CASE what = "zero"
    BY <2>1 DEF Receive, Finish, Set
  <2>2. CASE what # "zero"
    BY <2>2 DEF Receive, Finish, GoOn, Set
  <2> QED BY <2>1, <2>2
<1> QED BY <1>1 DEF Justified

\* COMMIT: what is written is even, and far from the last account.
LEMMA CommitBooks ==
  ASSUME BInv, IInv, Typed, NEW c \in Calls, Commit(c)
  PROVE  BInv'
<1>1. pc[c] # "none" /\ UNCHANGED <<transfers, broken, starts>> /\ Forget(c)
  BY DEF Commit, At
<1>2. starts # 0 /\ Even(delta[c]) /\ Justified(result[c])
  <2>1. delta[c] # <<>> => HasPosted(c)
    BY DEF Commit, HasPosted
  <2> QED BY <1>1, <2>1, Running, NothingIsEven DEF BInv, Chunks, Verdicts
<1>3. /\ pc'[c] = "none" /\ delta'[c] = <<>> /\ result'[c] = "none"
      /\ ~Planned(c)' /\ ~HasPosted(c)' /\ Reach(c)' = {} /\ Justified(result'[c])
      /\ \A q \in Calls \ {c} :
           pc'[q] = pc[q] /\ chunk'[q] = chunk[q] /\ delta'[q] = delta[q] /\ result'[q] = result[q]
  BY <1>1, ForgetIs
<1>4. \A t \in Tabs : Justified(outcome'[t])
  <2>1. \A t \in Tabs : Justified(outcome[t])
    BY DEF BInv, Verdicts
  <2>2. DOMAIN outcome = Tabs
    BY DEF Typed, TypeOK
  <2>3. outcome' = outcome \/ \E t \in Tabs : Receive(t, result[c])
    BY DEF Commit
  <2>4. CASE outcome' = outcome
    BY <1>1, <2>1, <2>4 DEF Justified
  <2>5. CASE \E t \in Tabs : Receive(t, result[c])
    <3>1. PICK what : what = result[c]
      OBVIOUS
    <3>2. PICK t \in Tabs : Receive(t, what)
      BY <2>5, <3>1
    <3>3. Justified(what)
      BY <1>2, <3>1
    <3> QED BY <1>1, <2>1, <2>2, <3>2, <3>3, ReceiveIs
  <2> QED BY <2>3, <2>4, <2>5
<1>5. CASE delta[c] = <<>>
  <2>1. bal' = bal
    BY <1>5 DEF Commit
  <2> QED BY <1>1, <1>2, <1>3, <1>4, <2>1, NothingIsEven, CallKeeps
<1>6. CASE delta[c] # <<>>
  <2>1. PICK d : d = delta[c]
    OBVIOUS
  <2>2. bal' = After(bal, d) /\ Even(d)
    BY <1>2, <1>6, <2>1 DEF Commit
  <2>3. /\ DOMAIN bal' = Accounts /\ Books' /\ \A k \in Currencies : Total(k)' = Total(k)
        /\ \A a \in Accounts \ DOMAIN d : bal'[a] = bal[a]
    BY <1>1, <2>2, EvenKeepsBooks DEF BInv, IInv
  <2>4. Untouched'
    BY <1>1, <1>2 DEF Untouched
  <2>5. Chunks'
    <3>1. \A q \in Calls \ {c} : (Planned(q)' <=> Planned(q)) /\ (HasPosted(q)' <=> HasPosted(q))
      BY <1>3 DEF Planned, HasPosted, At
    <3>2. \A q \in Calls \ {c} : /\ Level(delta'[q]) /\ (HasPosted(q)' => Even(delta'[q]))
                                 /\ Planned(q)' => WholePlan(chunk'[q])
      BY <1>3, <3>1 DEF BInv, Chunks
    <3> QED BY <1>3, <3>2, NothingIsEven DEF Chunks, Even, Level, WholePlan
  <2>6. Verdicts'
    <3>1. \A what : Justified(what)' <=> Justified(what)
      BY <1>1 DEF Justified
    <3> QED BY <1>3, <1>4, <3>1 DEF BInv, Verdicts, Justified
  <2>7. Standing'
    <3> SUFFICES ASSUME transfers = broken, NEW k \in Currencies, Total(k) # 0, HeldBehind(k) # {}
                 PROVE  \E h \in Accounts : Last(k, h)'
      BY <1>1, <2>3 DEF Standing, HeldBehind
    <3>1. PICK h \in Accounts : Last(k, h)
      BY DEF BInv, Standing
    <3>2. \A q \in Calls \ {c} : Reach(q)' = Reach(q)
      BY <1>3 DEF Reach, Planned
    <3>3. \A q \in Calls : \A a \in Reach(q)' \cap InCurrency(k) : a < h
      BY <1>3, <3>1, <3>2 DEF Last
    <3>4. \A a \in DOMAIN d \cap InCurrency(k) : a < h
      BY <2>1, <3>1 DEF Last, Reach
    <3>5. \A a \in InCurrency(k) : a \in Nat /\ a \in Accounts
      BY ResetAssumption DEF InCurrency
    <3>6. h \in InCurrency(k) /\ h \notin DOMAIN d
      BY <3>1, <3>4, <3>5 DEF Last
    <3>7. bal'[h] # 0
      BY <2>3, <3>1, <3>5, <3>6 DEF Last
    <3>8. ASSUME NEW b \in InCurrency(k), h < b PROVE bal'[b] = 0
      <4>1. b \notin DOMAIN d
        <5>1. h \in Nat /\ b \in Nat /\ ~(b < h)
          BY <3>5, <3>6, <3>8
        <5> QED BY <3>4, <3>8, <5>1
      <4>2. bal[b] = 0 /\ b \in Accounts
        BY <3>1, <3>5, <3>8 DEF Last
      <4> QED BY <2>3, <4>1, <4>2
    <3>9. Last(k, h)'
      BY <3>1, <3>3, <3>7, <3>8 DEF Last
    <3> QED BY <3>9
  <2> QED BY <2>3, <2>4, <2>5, <2>6, <2>7 DEF BInv
<1> QED BY <1>5, <1>6

\* Steps of tabs and of the limiter: the calls stay, or one starts.
LEMMA TabBooks ==
  ASSUME BInv, UNCHANGED <<bal, transfers, broken, chunk, delta, result>>,
         starts' = starts \/ starts' # 0, starts = 0 => UNCHANGED <<pc, outcome>>  \/ starts' # 0,
         \A c \in Calls : (Planned(c)' <=> Planned(c)) /\ (HasPosted(c)' <=> HasPosted(c)),
         \A t \in Tabs : Justified(outcome'[t])
  PROVE  BInv'
<1>1. Books' /\ \A k : Total(k)' = Total(k)
  BY DEF BInv, Books, Total
<1>2. Untouched'
  BY DEF Untouched, BInv
<1>3. Chunks'
  BY DEF BInv, Chunks, Even, Level, WholePlan
<1>4. Verdicts'
  BY DEF BInv, Verdicts, Justified
<1>5. \A c \in Calls : Reach(c)' = Reach(c)
  BY DEF Reach
<1>6. Standing'
  <2>1. \A k, h : Last(k, h) => Last(k, h)'
    BY <1>5 DEF Last
  <2> QED BY <1>1, <2>1 DEF BInv, Standing, HeldBehind
<1> QED BY <1>1, <1>2, <1>3, <1>4, <1>6 DEF BInv

LEMMA LoopBooks ==
  ASSUME BInv, IInv, Typed, NEW t \in Tabs, Press(t) \/ Send(t) \/ Throttle(t) \/ LoseTab(t)
  PROVE  BInv'
<1>1. DOMAIN outcome = Tabs /\ DOMAIN pc = Calls /\ starts \in Nat
      /\ (loop[t] # "idle" => starts # 0)
  BY DEF Typed, TypeOK, Control
<1>2. \A u \in Tabs : Justified(outcome[u])
  BY DEF BInv, Verdicts
<1>3. Justified("none") /\ Justified("lost")
  BY DEF Justified
<1>4. CASE Press(t)
  <2>1. /\ UNCHANGED <<bal, transfers, broken, chunk, delta, result, pc>>
        /\ starts' = starts + 1 /\ outcome' = [outcome EXCEPT ![t] = "none"]
    BY <1>4 DEF Press, database, server, Set
  <2>2. starts' # 0 /\ \A u \in Tabs : Justified(outcome'[u])
    BY <1>1, <1>2, <1>3, <2>1 DEF Justified
  <2> QED BY <2>1, <2>2, TabBooks DEF Planned, HasPosted, At
<1>5. CASE Send(t)
  <2>1. PICK c \in Calls : At(c, "none") /\ Goto(c, "gate")
    BY <1>5 DEF Send
  <2>2. /\ UNCHANGED <<bal, transfers, broken, chunk, delta, result, outcome, starts>>
        /\ pc[c] = "none" /\ pc' = [pc EXCEPT ![c] = "gate"] /\ loop[t] # "idle"
    BY <1>5, <2>1 DEF Send, At, Goto, Set, database, history
  <2>3. (\A q \in Calls : (Planned(q)' <=> Planned(q)) /\ (HasPosted(q)' <=> HasPosted(q))) /\ \A u \in Tabs : Justified(outcome'[u])
    BY <1>1, <1>2, <2>2 DEF Planned, HasPosted, At, Justified
  <2> QED BY <1>1, <2>2, <2>3, TabBooks
<1>6. CASE Throttle(t)
  <2>1. UNCHANGED <<bal, transfers, broken, chunk, delta, result, outcome, starts, pc>>
    BY <1>6 DEF Throttle, database, server, history
  <2>2. \A u \in Tabs : Justified(outcome'[u])
    BY <1>2, <2>1 DEF Justified
  <2> QED BY <2>1, <2>2, TabBooks DEF Planned, HasPosted, At
<1>7. CASE LoseTab(t)
  <2>1. /\ UNCHANGED <<bal, transfers, broken, chunk, delta, result, starts, pc>>
        /\ outcome' = [outcome EXCEPT ![t] = "lost"] /\ loop[t] # "idle"
    BY <1>7 DEF LoseTab, Finish, Set, database, server, history
  <2>2. \A u \in Tabs : Justified(outcome'[u])
    BY <1>1, <1>2, <1>3, <2>1 DEF Justified
  <2> QED BY <1>1, <2>1, <2>2, TabBooks DEF Planned, HasPosted, At
<1> QED BY <1>4, <1>5, <1>6, <1>7

\* Postings of others are even, and spoil "nothing but tampering".
LEMMA TransferBooks ==
  ASSUME BInv, IInv, Transfer
  PROVE  BInv'
<1>1. PICK move \in Moves : bal' = [bal EXCEPT ![move[1]] = @ - 1, ![move[2]] = @ + 1]
  BY DEF Transfer
<1>2. PICK x, y : x = move[1] /\ y = move[2]
  OBVIOUS
<1>3. /\ x \in Accounts /\ y \in Accounts /\ CurrencyOf[x] = CurrencyOf[y]
      /\ bal' = [bal EXCEPT ![x] = @ - 1, ![y] = @ + 1]
  BY <1>1, <1>2, ResetAssumption
<1>4. /\ DOMAIN bal = Accounts /\ \A a \in Accounts : bal[a] \in Int
      /\ transfers \in Nat /\ broken \in Nat /\ broken <= transfers
  BY DEF BInv, Books, IInv, Shape
<1>5. /\ transfers' = transfers + 1
      /\ UNCHANGED <<broken, starts, pc, chunk, delta, result, outcome>>
  BY DEF Transfer, OfOthers, server, tab
<1>6. \E d : Even(d) /\ bal' = After(bal, d)
  <2>1. CASE x = y
    <3> DEFINE d == [a \in {x} |-> 0]
    <3>1. DOMAIN d = {x} /\ d[x] = 0 /\ d[x] \in Int
      OBVIOUS
    <3> HIDE DEF d
    <3>2. SumFunction(d) = 0
      BY <3>1, SumOfOne DEF SumFunction
    <3>3. Even(d)
      BY <1>3, <3>1, <3>2 DEF Even, Level
    <3>4. bal' = [a \in Accounts |-> IF a = x THEN (bal[x] - 1) + 1 ELSE bal[a]]
      BY <1>3, <1>4, <2>1
    <3>5. After(bal, d) = [a \in Accounts |-> bal[a] + (IF a \in {x} THEN d[a] ELSE 0)]
      BY <1>4, <3>1 DEF After
    <3>6. \A a \in Accounts :
            (IF a = x THEN (bal[x] - 1) + 1 ELSE bal[a]) = bal[a] + (IF a \in {x} THEN d[a] ELSE 0)
      BY <1>3, <1>4, <3>1
    <3>7. bal' = After(bal, d)
      BY <3>4, <3>5, <3>6
    <3> QED BY <3>3, <3>7
  <2>2. CASE x # y
    <3> DEFINE d == [a \in {x, y} |-> IF a = x THEN -1 ELSE 1]
    <3>1. DOMAIN d = {x, y} /\ d[x] = -1 /\ d[y] = 1 /\ d[x] \in Int /\ d[y] \in Int
      BY <2>2
    <3> HIDE DEF d
    <3>2. SumFunctionOnSet(d, {x, y}) = d[x] + d[y]
      BY <2>2, <3>1, SumOfPair
    <3>3. SumFunction(d) = 0
      BY <3>1, <3>2 DEF SumFunction
    <3>4. Even(d)
      BY <1>3, <3>1, <3>3 DEF Even, Level
    <3>5. bal' = [a \in Accounts |-> IF a = y THEN bal[y] + 1 ELSE IF a = x THEN bal[x] - 1 ELSE bal[a]]
      BY <1>3, <1>4, <2>2
    <3>6. After(bal, d) = [a \in Accounts |-> bal[a] + (IF a \in {x, y} THEN d[a] ELSE 0)]
      BY <1>4, <3>1 DEF After
    <3>7. \A a \in Accounts :
            (IF a = y THEN bal[y] + 1 ELSE IF a = x THEN bal[x] - 1 ELSE bal[a])
              = bal[a] + (IF a \in {x, y} THEN d[a] ELSE 0)
      BY <1>3, <1>4, <2>2, <3>1
    <3>8. bal' = After(bal, d)
      BY <3>5, <3>6, <3>7
    <3> QED BY <3>4, <3>8
  <2> QED BY <2>1, <2>2
<1>7. Books'
  <2>1. PICK d : Even(d) /\ bal' = After(bal, d)
    BY <1>6
  <2> QED BY <1>5, <2>1, EvenKeepsBooks DEF BInv, IInv
<1>8. transfers' # broken'
  BY <1>4, <1>5
<1>9. Untouched' /\ Standing'
  BY <1>5, <1>8 DEF BInv, Untouched, Standing
<1>10. Chunks' /\ Verdicts'
  BY <1>5 DEF BInv, Chunks, Verdicts, Planned, HasPosted, At, Even, Level, WholePlan, Justified
<1> QED BY <1>7, <1>9, <1>10 DEF BInv

\* Other changes of others leave the books, and spoil "nothing but tampering".
LEMMA SettingsBooks ==
  ASSUME BInv, SetActive \/ Claim \/ SetApproval
  PROVE  BInv'
<1>1. /\ transfers' = transfers + 1
      /\ UNCHANGED <<bal, broken, starts, pc, chunk, delta, result, outcome>>
  BY DEF SetActive, Claim, SetApproval, OfOthers, server, tab
<1>2. transfers \in Nat /\ broken \in Nat /\ broken <= transfers
  BY DEF BInv, Books
<1>3. Books'
  BY <1>1, <1>2 DEF BInv, Books, Total
<1>4. transfers' # broken'
  BY <1>1, <1>2
<1>5. Untouched' /\ Standing'
  BY <1>1, <1>4 DEF BInv, Untouched, Standing
<1>6. Chunks' /\ Verdicts'
  BY <1>1 DEF BInv, Chunks, Verdicts, Planned, HasPosted, At, Even, Level, WholePlan, Justified
<1> QED BY <1>3, <1>5, <1>6 DEF BInv

\* The last account of a currency that has accounts with a balance.
LEMMA LastExists ==
  ASSUME NEW k \in Currencies, NEW f, NEW a \in InCurrency(k), Suspense[k] < a, f[a] # 0
  PROVE  \E h \in InCurrency(k) :
           Suspense[k] < h /\ f[h] # 0 /\ \A b \in InCurrency(k) : h < b => f[b] = 0
<1> DEFINE S == {b \in InCurrency(k) : f[b] # 0}
<1>1. S \in SUBSET Nat /\ IsFiniteSet(S) /\ S # {}
  BY CurrencyFinite, PartFinite, ResetAssumption
<1> HIDE DEF S
<1>2. PICK h \in S : \A b \in S : b <= h
  BY <1>1, GreatestNumber
<1>3. h \in InCurrency(k) /\ h \in Accounts /\ h \in Nat /\ f[h] # 0 /\ a <= h
  BY <1>2, ResetAssumption DEF S, InCurrency
<1>4. Suspense[k] < h
  <2>1. Suspense[k] \in Nat /\ a \in Nat
    BY ResetAssumption DEF InCurrency
  <2> QED BY <1>3, <2>1
<1>5. \A b \in InCurrency(k) : h < b => f[b] = 0
  <2> SUFFICES ASSUME NEW b \in InCurrency(k), h < b, f[b] # 0 PROVE FALSE
    OBVIOUS
  <2>1. b \in S /\ b \in Nat
    BY ResetAssumption DEF S, InCurrency
  <2>2. b <= h
    BY <1>2, <2>1
  <2> QED BY <1>3, <2>1, <2>2
<1> QED BY <1>3, <1>4, <1>5

\* Tampering comes before the first reset, and only adds: what held a balance that it
\* does not clear still does.
LEMMA TamperBooks ==
  ASSUME BInv, IInv, Tamper
  PROVE  BInv'
<1>1. PICK x \in Tampered : bal' = [bal EXCEPT ![x] = @ + 1]
  BY DEF Tamper
<1>2. /\ starts = 0 /\ broken' = broken + 1 /\ transfers' = transfers + 1
      /\ UNCHANGED <<starts, pc, chunk, delta, result, outcome>>
  BY DEF Tamper, OfOthers, server, tab
<1>3. /\ DOMAIN bal = Accounts /\ \A a \in Accounts : bal[a] \in Int
      /\ transfers \in Nat /\ broken \in Nat /\ broken <= transfers /\ x \in Accounts
      /\ SumFunctionOnSet(bal, Accounts) = broken
  BY ResetAssumption DEF BInv, Books, IInv, Shape
<1>4. /\ \A c \in Calls : pc[c] = "none" /\ delta[c] = <<>> /\ result[c] = "none"
      /\ \A t \in Tabs : outcome[t] = "none"
      /\ transfers = broken => \A a \in Accounts :
           InitialBalance[a] <= bal[a] /\ (a \notin Tampered => bal[a] = InitialBalance[a])
  BY <1>2 DEF BInv, Untouched
<1>5. /\ \A a \in Accounts : bal'[a] \in Int /\ bal[a] <= bal'[a] /\ (a # x => bal'[a] = bal[a])
      /\ bal'[x] = bal[x] + 1
  BY <1>1, <1>3
<1>6. SumFunctionOnSet(bal', Accounts) = broken + 1
  <2>1. IsFiniteSet(Accounts) /\ IntOn(bal, Accounts) /\ IntOn(bal', Accounts)
    BY <1>3, <1>5, CurrencyFinite DEF IntOn
  <2>2. SumFunctionOnSet(bal, Accounts) = bal[x] + SumFunctionOnSet(bal, Accounts \ {x})
    BY <1>3, <2>1, SumTakeOut
  <2>3. SumFunctionOnSet(bal', Accounts) = bal'[x] + SumFunctionOnSet(bal', Accounts \ {x})
    BY <1>3, <2>1, SumTakeOut
  <2>4. /\ IsFiniteSet(Accounts \ {x}) /\ IntOn(bal, Accounts \ {x})
        /\ \A a \in Accounts \ {x} : bal[a] = bal'[a]
    BY <1>5, <2>1, PartFinite DEF IntOn
  <2>5. SumFunctionOnSet(bal, Accounts \ {x}) = SumFunctionOnSet(bal', Accounts \ {x})
    BY <2>4, SumSame
  <2>6. SumFunctionOnSet(bal, Accounts \ {x}) \in Int /\ bal[x] \in Int
    BY <1>3, <2>4, SumRecursion
  <2> QED BY <1>3, <1>5, <2>2, <2>3, <2>5, <2>6
<1>7. Books'
  <2>1. broken' \in Nat /\ transfers' \in Nat /\ broken' <= transfers' /\ broken' # 0
    BY <1>2, <1>3
  <2> QED BY <1>2, <1>5, <1>6, <2>1 DEF Books
<1>8. transfers' = broken' => \A a \in Accounts :
        InitialBalance[a] <= bal'[a] /\ (a \notin Tampered => bal'[a] = InitialBalance[a])
  <2> SUFFICES ASSUME transfers' = broken', NEW a \in Accounts
               PROVE  InitialBalance[a] <= bal'[a] /\ (a \notin Tampered => bal'[a] = InitialBalance[a])
    OBVIOUS
  <2>1. transfers = broken
    BY <1>2, <1>3
  <2>2. InitialBalance[a] <= bal[a] /\ (a \notin Tampered => bal[a] = InitialBalance[a])
    BY <1>4, <2>1
  <2>3. InitialBalance[a] \in Int /\ bal[a] \in Int /\ bal'[a] \in Int /\ bal[a] <= bal'[a]
    BY <1>3, <1>5, ResetAssumption
  <2>4. InitialBalance[a] <= bal'[a]
    BY <2>2, <2>3
  <2>5. a \notin Tampered => bal'[a] = bal[a]
    BY <1>5
  <2> QED BY <2>2, <2>4, <2>5
<1>9. Untouched'
  BY <1>2, <1>4, <1>8 DEF Untouched
<1>10. Chunks'
  BY <1>2 DEF BInv, Chunks, Planned, HasPosted, At, Even, Level, WholePlan
<1>11. Verdicts'
  BY <1>2, <1>4 DEF Verdicts, Justified
<1>12. Standing'
  <2> SUFFICES ASSUME transfers' = broken', NEW k \in Currencies, HeldBehind(k) # {}
               PROVE  (\E h \in Accounts : Last(k, h))'
    BY DEF Standing, HeldBehind
  <2>1. PICK a \in HeldBehind(k) : TRUE
    OBVIOUS
  <2>2. /\ a \in InCurrency(k) /\ a \in Accounts /\ Suspense[k] < a
        /\ InitialBalance[a] > 0 \/ (InitialBalance[a] # 0 /\ a \notin Tampered)
        /\ InitialBalance[a] \in Int
    BY <2>1, ResetAssumption DEF HeldBehind, InCurrency
  <2>3. bal'[a] # 0
    <3>1. /\ InitialBalance[a] <= bal'[a] /\ (a \notin Tampered => bal'[a] = InitialBalance[a])
          /\ bal'[a] \in Int
      BY <1>5, <1>8, <2>2
    <3> QED BY <2>2, <3>1
  <2>4. \A c \in Calls : Reach(c)' = {}
    BY <1>2, <1>4, NothingIsEven DEF Reach, Planned
  <2>5. PICK h \in InCurrency(k) :
          Suspense[k] < h /\ bal'[h] # 0 /\ \A b \in InCurrency(k) : h < b => bal'[b] = 0
    BY <2>2, <2>3, LastExists
  <2>6. Last(k, h)' /\ h \in Accounts
    BY <2>4, <2>5 DEF Last, InCurrency
  <2> QED BY <2>6
<1> QED BY <1>7, <1>9, <1>10, <1>11, <1>12 DEF BInv

\* What adds up to zero in every currency does so in all.
LEMMA ZeroInAll ==
  ASSUME NEW f, \A a \in Accounts : f[a] \in Int,
         \A k \in Currencies : SumFunctionOnSet(f, InCurrency(k)) = 0
  PROVE  SumFunctionOnSet(f, Accounts) = 0
<1> DEFINE K == {CurrencyOf[a] : a \in Accounts}
           inOf == [a \in Accounts |-> CurrencyOf[a]]
           part == [k \in K |-> InCurrency(k)]
           h == [k \in K |-> 0]
<1>1. IsFiniteSet(Accounts) /\ IntOn(f, Accounts)
  BY CurrencyFinite DEF IntOn
<1>2. K \subseteq Currencies
  BY ResetAssumption
<1>3. inOf \in [Accounts -> K] /\ \A k \in K : \E a \in Accounts : inOf[a] = k
  OBVIOUS
<1>4. /\ part \in [K -> SUBSET Accounts]
      /\ \A k \in K : \A a \in Accounts : a \in part[k] <=> inOf[a] = k
  BY DEF InCurrency
<1>5. \A k \in K : h[k] = SumFunctionOnSet(f, part[k])
  BY <1>2
<1>6. \A k \in K : h[k] = 0
  OBVIOUS
<1> HIDE DEF K, inOf, part, h
<1>7. IsFiniteSet(K) /\ SumFunctionOnSet(h, K) = SumFunctionOnSet(f, Accounts)
  BY <1>1, <1>3, <1>4, <1>5, SumByPart
<1> QED BY <1>6, <1>7, SumOfZeros

LEMMA InitBooks == Init => BInv
<1> SUFFICES ASSUME Init PROVE BInv
  OBVIOUS
<1>1. /\ bal = InitialBalance /\ broken = 0 /\ transfers = 0 /\ starts = 0
      /\ \A c \in Calls : pc[c] = "none" /\ delta[c] = <<>> /\ result[c] = "none"
      /\ \A t \in Tabs : outcome[t] = "none"
  BY DEF Init
<1>2. \A a \in Accounts : bal[a] \in Int
  BY <1>1, ResetAssumption
<1>3. \A k \in Currencies : Total(k) = 0
  BY <1>1, ResetAssumption DEF Total
<1>4. SumFunctionOnSet(bal, Accounts) = 0
  <2>1. PICK f : f = bal
    OBVIOUS
  <2>2. /\ \A a \in Accounts : f[a] \in Int
        /\ \A k \in Currencies : SumFunctionOnSet(f, InCurrency(k)) = 0
    BY <1>2, <1>3, <2>1 DEF Total
  <2> QED BY <2>1, <2>2, ZeroInAll
<1>5. Books
  BY <1>1, <1>2, <1>3, <1>4 DEF Books
<1>6. Untouched
  BY <1>1, ResetAssumption DEF Untouched
<1>7. Chunks
  BY <1>1, NothingIsEven DEF Chunks, Planned
<1>8. Verdicts
  BY <1>1 DEF Verdicts, Justified
<1>9. Standing
  BY <1>3 DEF Standing
<1> QED BY <1>5, <1>6, <1>7, <1>8, <1>9 DEF BInv

LEMMA NextBooks == BInv /\ IInv /\ Typed /\ [Next]_vars => BInv'
<1> SUFFICES ASSUME BInv, IInv, Typed, [Next]_vars PROVE BInv'
  OBVIOUS
<1>1. ASSUME WindowPasses \/ UNCHANGED vars PROVE BInv'
  <2>1. UNCHANGED <<bal, transfers, broken, chunk, delta, result, starts, pc, outcome>>
    BY <1>1 DEF WindowPasses, vars, database, server, tab, history
  <2>2. \A t \in Tabs : Justified(outcome'[t])
    BY <2>1 DEF BInv, Verdicts, Justified
  <2> QED BY <2>1, <2>2, TabBooks DEF Planned, HasPosted, At
<1>2. ASSUME NEW c \in Calls, Step(c) \/ Crash(c) PROVE BInv'
  BY <1>2, GateBooks, PlanBooks, SuspenseBooks, PostBooks, CommitBooks, CrashBooks DEF Step
<1> QED BY <1>1, <1>2, LoopBooks, TransferBooks, SettingsBooks, TamperBooks DEF Next

\* What calls plan and post is even, so only tampering moves the books, and the last
\* account of a currency that does not add up stays out of every chunk.
THEOREM BooksInvariance == Spec => []BInv
<1> QED BY InitBooks, NextBooks, Invariance, TypedInvariance, PTL DEF Spec

\* The evidence of a break outlives every reset: the balances add up to what was tampered
\* with, the difference is not parked in a suspense account that another account with a
\* balance follows, the alarm is raised over a break only, and no reset over a break is
\* told that it is complete.
THEOREM ResetKeepsTheEvidence == Spec => []BreakIsKept
<1>1. BInv /\ IInv => BreakIsKept
  <2> SUFFICES ASSUME BInv, IInv PROVE BreakIsKept
    OBVIOUS
  <2>1. SumFunction(bal) = broken
    BY DEF BInv, Books, IInv, Shape, SumFunction
  <2>2. \A t \in Tabs : /\ outcome[t] = "unbalanced_transaction" => broken # 0
                        /\ outcome[t] = "complete" => broken = 0
    BY DEF BInv, Verdicts, Justified
  <2>3. ASSUME transfers = broken, NEW k \in Currencies, HeldBehind(k) # {}, Parked(k)
        PROVE  FALSE
    <3> DEFINE s == Suspense[k]
               S == InCurrency(k)
    <3>1. s \in S /\ bal[s] # 0 /\ \A a \in S \ {s} : bal[a] = 0
      BY <2>3, ResetAssumption DEF Parked, InCurrency
    <3>2. IsFiniteSet(S) /\ IntOn(bal, S) /\ bal[s] \in Int
      BY <3>1, CurrencyFinite DEF IntOn, BInv, Books
    <3> HIDE DEF s, S
    <3>3. SumFunctionOnSet(bal, S) = SumFunctionOnSet(bal, {s})
      BY <3>1, <3>2, SumOverPart
    <3>4. SumFunctionOnSet(bal, {s}) = bal[s]
      BY <3>2, SumOfOne
    <3>5. Total(k) # 0
      BY <3>1, <3>3, <3>4 DEF Total, S
    <3>6. PICK h \in Accounts : Last(k, h)
      BY <2>3, <3>5 DEF BInv, Standing
    <3>7. h \in S /\ h # s /\ bal[h] # 0
      <4>1. h \in Nat /\ s \in Nat
        BY ResetAssumption DEF s
      <4> QED BY <3>6, <4>1 DEF Last, S, s
    <3> QED BY <3>1, <3>7
  <2> QED BY <2>1, <2>2, <2>3 DEF BreakIsKept
<1> QED BY <1>1, BooksInvariance, Invariance, PTL

-----------------------------------------------------------------------------
(* The accounts under the suspense names.                                  *)

\* The account that carries the suspense name of a currency, or the one reset opens.
Name(k) == IF k \in Currencies /\ holder[k] # None THEN holder[k] ELSE Suspense[k]

Names == {Name(k) : k \in Currencies}

\* While reset's own account is not there, nobody has the name and nobody closes it.
Opening ==
  \A k \in Currencies :
    /\ \A c \in Calls : Suspense[k] \in opened[c] => holder[k] = None
    /\ Suspense[k] \in closed => holder[k] = Suspense[k]

LEMMA OpenedFirst ==
  ASSUME Opening, Typed, IInv, NEW c \in Calls, OpenSuspense(c)
  PROVE  Opening'
<1>1. UNCHANGED <<holder, closed>> /\ opened \in [Calls -> SUBSET Accounts]
  BY DEF OpenSuspense, database, settings, Typed, Control
<1>2. CASE opened' = opened
  BY <1>1, <1>2 DEF Opening
<1>3. CASE opened' = [opened EXCEPT ![c] = {SuspenseOf(c)}] /\ HolderOf(c) = None
  <2>1. PICK k : k = CurrencyIn(chunk[c])
    OBVIOUS
  <2>2. k \in Currencies
    BY <2>1, PlanNames DEF OpenSuspense, At, IInv, Own
  <2>3. opened'[c] = {Suspense[k]} /\ holder[k] = None /\ \A q \in Calls \ {c} : opened'[q] = opened[q]
    BY <1>1, <1>3, <2>1 DEF SuspenseOf, HolderOf
  <2>4. \A j \in Currencies : Suspense[j] = Suspense[k] => j = k
    BY <2>2, ResetAssumption
  <2> QED BY <1>1, <2>3, <2>4 DEF Opening
<1> QED BY <1>2, <1>3 DEF OpenSuspense, Set

LEMMA OpenedIsNamed ==
  ASSUME Opening, Typed, NEW c \in Calls, Commit(c)
  PROVE  Opening' /\ \A k : Name(k)' = Name(k)
<1>1. /\ \A k \in Currencies : holder'[k] = IF Suspense[k] \in opened[c] THEN Suspense[k] ELSE holder[k]
      /\ closed' = closed /\ opened' = [opened EXCEPT ![c] = {}]
  BY DEF Commit, Forget, Set, settings
<1>2. /\ opened'[c] = {} /\ \A q \in Calls \ {c} : opened'[q] = opened[q]
      /\ \A q \in Calls : opened[c] \cap opened[q] # {} => c = q
  BY <1>1 DEF Typed, TypeOK, Control
<1>3. \A k \in Currencies : \A q \in Calls : Suspense[k] \in opened'[q] => holder'[k] = None
  BY <1>1, <1>2 DEF Opening
<1>4. Opening'
  BY <1>1, <1>3 DEF Opening
<1>5. None \notin Accounts /\ \A k \in Currencies : Suspense[k] \in Accounts
  BY ResetAssumption
<1>6. \A k : Name(k)' = Name(k)
  BY <1>1, <1>5 DEF Opening, Name
<1> QED BY <1>4, <1>6

LEMMA NextOpening == Opening /\ IInv /\ Typed /\ [Next]_vars => Opening'
<1> SUFFICES ASSUME Opening, IInv, Typed, [Next]_vars PROVE Opening'
  OBVIOUS
<1>1. CASE UNCHANGED <<holder, closed, opened>>
  BY <1>1 DEF Opening
<1>2. ASSUME NEW t \in Tabs, Press(t) \/ Send(t) \/ Throttle(t) \/ LoseTab(t)
      PROVE  UNCHANGED <<holder, closed, opened>>
  BY <1>2 DEF Press, Send, Throttle, LoseTab, database, settings, server
<1>3. ASSUME NEW c \in Calls,
             Gate(c) \/ Plan(c) \/ FindSuspense(c) \/ ReplayChunk(c) \/ PostChunk(c) \/ Count(c)
      PROVE  UNCHANGED <<holder, closed, opened>>
  BY <1>3 DEF Gate, Plan, FindSuspense, ReplayChunk, PostChunk, Count, database, settings
<1>4. ASSUME NEW c \in Calls, Crash(c) PROVE Opening'
  <2>1. /\ UNCHANGED <<holder, closed>> /\ opened' = [opened EXCEPT ![c] = {}]
        /\ opened \in [Calls -> SUBSET Accounts]
    BY <1>4 DEF Crash, Forget, Set, database, settings, Typed, Control
  <2>2. \A q \in Calls : opened'[q] \subseteq opened[q]
    BY <2>1
  <2> QED BY <2>1, <2>2 DEF Opening
<1>5. ASSUME SetActive PROVE Opening'
  <2>1. PICK a \in Closable : /\ \A k \in Currencies : Suspense[k] = a => holder[k] = a
                              /\ closed' = closed \ {a} \/ closed' = closed \cup {a}
    BY <1>5 DEF SetActive
  <2>2. UNCHANGED <<holder, opened>>
    BY <1>5 DEF SetActive, server
  <2> QED BY <2>1, <2>2 DEF Opening
<1>6. ASSUME Claim PROVE Opening'
  <2>1. PICK claim \in Claims : /\ holder[claim[1]] = None
                                /\ \A c \in Calls : Suspense[claim[1]] \notin opened[c]
                                /\ holder' = [holder EXCEPT ![claim[1]] = claim[2]]
    BY <1>6 DEF Claim, Set
  <2>2. UNCHANGED <<closed, opened>>
    BY <1>6 DEF Claim, settings, server
  <2>3. PICK j \in Currencies : j = claim[1]
    BY ResetAssumption
  <2>4. Suspense[j] \notin closed
    BY <2>1, <2>3, ResetAssumption DEF Opening
  <2>5. \A k \in Currencies \ {j} : holder'[k] = holder[k]
    BY <2>1, <2>3 DEF Typed, TypeOK
  <2> QED BY <2>1, <2>2, <2>3, <2>4, <2>5 DEF Opening
<1>7. ASSUME Transfer \/ SetApproval \/ Tamper \/ WindowPasses \/ UNCHANGED vars
      PROVE  UNCHANGED <<holder, closed, opened>>
  BY <1>7 DEF Transfer, SetApproval, Tamper, WindowPasses, vars, database, settings, server
<1> QED BY <1>1, <1>2, <1>3, <1>4, <1>5, <1>6, <1>7, OpenedFirst, OpenedIsNamed DEF Next, Step

LEMMA OpeningInvariance == Spec => []Opening
<1>1. Init => Opening
  BY DEF Init, Opening
<1> QED BY <1>1, NextOpening, Invariance, TypedInvariance, PTL DEF Spec

\* Where a reset can come to its end, the suspense accounts are fit for it.
LEMMA NamesFit ==
  ASSUME Clearable, Opening
  PROVE  \A k \in Currencies : Name(k) \in InCurrency(k) \ (Normal \cup closed)
<1> SUFFICES ASSUME NEW k \in Currencies PROVE Name(k) \in InCurrency(k) \ (Normal \cup closed)
  OBVIOUS
<1>1. CASE holder[k] = None
  <2>1. Suspense[k] \in Accounts /\ None \notin Accounts
    BY ResetAssumption
  <2>2. Suspense[k] \notin closed
    BY <1>1, <2>1 DEF Opening
  <2> QED BY <1>1, <2>1, <2>2, ResetAssumption DEF Name, InCurrency, Suspenses
<1>2. CASE holder[k] # None
  BY <1>2 DEF Name, Clearable
<1> QED BY <1>1, <1>2

-----------------------------------------------------------------------------
(* A reset that nobody disturbs.  While only one run posts, every call of  *)
(* it has the chunk that the balances ask for now, or one that the run has *)
(* posted already; no chunk is refused, as a reset that can come to its    *)
(* end stays one; and every posting takes ChunkSize - 1 from what is left  *)
(* to do, so the loop is done before it is out of calls.                   *)

Held(f) == {CurrencyOf[a] : a \in NonZero(f)}

\* What is left to do: accounts to zero, and last chunks, which may be small.
ToDo(f, names) == Cardinality(NonZero(f) \ names) + (ChunkSize - 2) * Cardinality(Held(f))

Most == Cardinality(Accounts) + (ChunkSize - 2) * Cardinality({CurrencyOf[a] : a \in Accounts})

\* With the code's chunks of 99, 100 calls and 10 currencies: up to 8829 accounts.
EnoughCalls == ChunkSize > 1 /\ Most < (ChunkSize - 1) * MaxCalls

LEMMA Products ==
  ASSUME NEW m \in Nat, NEW x \in Nat, NEW y \in Nat
  PROVE  /\ m * x \in Nat
         /\ x <= y => m * x <= m * y
         /\ x + 1 <= y => m * x + m <= m * y
         /\ m * (x + 1) = m * x + m
<1>1. \A z \in Nat : m * z \in Nat
  OBVIOUS
<1>2. m * (x + 1) = m * x + m
  OBVIOUS
<1>3. ASSUME NEW z \in Nat, NEW w \in Nat, w = z + (w - z), z <= w PROVE m * z <= m * w
  <2>1. w - z \in Nat /\ m * (w - z) \in Nat
    BY <1>1, <1>3
  <2>2. m * w = m * z + m * (w - z)
    BY <1>3
  <2>3. m * z \in Nat /\ m * w \in Nat
    BY <1>1
  <2> QED BY <2>1, <2>2, <2>3
<1>4. x <= y => m * x <= m * y
  BY <1>3
<1>5. x + 1 <= y => m * (x + 1) <= m * y
  BY <1>3
<1> QED BY <1>1, <1>2, <1>4, <1>5

\* The sizes are numbers, and what is left to do is never more than all there is.
LEMMA ToDoIs ==
  ASSUME ChunkSize > 1, NEW f, DOMAIN f = Accounts, NEW names
  PROVE  /\ IsFiniteSet(NonZero(f) \ names) /\ IsFiniteSet(Held(f))
         /\ Cardinality(NonZero(f) \ names) \in Nat /\ Cardinality(Held(f)) \in Nat
         /\ ChunkSize - 2 \in Nat
         /\ ToDo(f, names) \in Nat /\ Most \in Nat /\ ToDo(f, names) <= Most
<1> DEFINE K == {CurrencyOf[a] : a \in Accounts}
           inOf == [a \in Accounts |-> CurrencyOf[a]]
           N == NonZero(f) \ names
<1>1. IsFiniteSet(K)
  <2>1. inOf \in Surjection(Accounts, K)
    BY DEF Surjection
  <2> HIDE DEF inOf, K
  <2> QED BY <2>1, CurrencyFinite, FS_Surjection
<1>2. N \subseteq Accounts /\ Held(f) \subseteq K
  BY DEF NonZero, Held
<1> HIDE DEF K, N
<1>3. /\ IsFiniteSet(Accounts) /\ IsFiniteSet(N) /\ IsFiniteSet(Held(f))
      /\ Cardinality(Accounts) \in Nat /\ Cardinality(K) \in Nat
      /\ Cardinality(N) \in Nat /\ Cardinality(Held(f)) \in Nat
  BY <1>1, <1>2, CurrencyFinite, PartFinite
<1>4. Cardinality(N) <= Cardinality(Accounts) /\ Cardinality(Held(f)) <= Cardinality(K)
  BY <1>1, <1>2, <1>3, FS_Subset
<1>5. ChunkSize - 2 \in Nat
  BY ResetAssumption
<1>6. /\ (ChunkSize - 2) * Cardinality(Held(f)) \in Nat /\ (ChunkSize - 2) * Cardinality(K) \in Nat
      /\ (ChunkSize - 2) * Cardinality(Held(f)) <= (ChunkSize - 2) * Cardinality(K)
  BY <1>3, <1>4, <1>5, Products
<1>7. /\ ToDo(f, names) = Cardinality(N) + (ChunkSize - 2) * Cardinality(Held(f))
      /\ Most = Cardinality(Accounts) + (ChunkSize - 2) * Cardinality(K)
  BY DEF ToDo, Most, N, K
<1> QED BY <1>3, <1>4, <1>5, <1>6, <1>7 DEF N

\* A plan has whole balances of one currency, and leaves some only when it is full.
LEMMA PlanTakes ==
  ASSUME IInv, Books, NonZero(bal) # {},
         NEW plan, plan = Restrict(bal, Taken(bal)), NEW k, k = CurrencyIn(plan)
  PROVE  /\ \A a \in DOMAIN plan : a \in InCurrency(k) /\ bal[a] # 0 /\ plan[a] = bal[a]
         /\ IsFiniteSet(DOMAIN plan) /\ Cardinality(DOMAIN plan) \in Nat
         /\ (\E a \in NonZero(bal) \ DOMAIN plan : CurrencyOf[a] = k) =>
              Cardinality(DOMAIN plan) >= ChunkSize
<1> DEFINE currency == Min({CurrencyOf[a] : a \in NonZero(bal)})
           pending == {a \in NonZero(bal) : CurrencyOf[a] = currency}
           below(a) == {b \in pending : b < a}
           left == pending \ DOMAIN plan
<1>1. /\ WholePlan(plan) /\ DOMAIN plan = Taken(bal) /\ \A a \in DOMAIN plan : plan[a] = bal[a]
  BY PlanIs DEF Restrict
<1>2. Taken(bal) = {a \in pending : Cardinality(below(a)) < ChunkSize}
  BY DEF Taken
<1>3. pending \subseteq Accounts /\ IsFiniteSet(pending) /\ pending \subseteq Nat
  BY CurrencyFinite, PartFinite, ResetAssumption DEF IInv, Shape, NonZero
<1>4. IsFiniteSet(DOMAIN plan) /\ Cardinality(DOMAIN plan) \in Nat
  BY <1>1, <1>2, <1>3, PartFinite
<1>5. \A a \in DOMAIN plan : a \in pending /\ CurrencyOf[a] = k
  BY <1>1, <1>2 DEF WholePlan
<1>6. k = currency
  BY <1>1, <1>5 DEF WholePlan
<1>7. \A a \in DOMAIN plan : a \in InCurrency(k) /\ bal[a] # 0
  BY <1>3, <1>5 DEF InCurrency, NonZero
<1>8. ASSUME NEW b \in NonZero(bal) \ DOMAIN plan, CurrencyOf[b] = k
      PROVE  Cardinality(DOMAIN plan) >= ChunkSize
  <2>1. b \in left
    BY <1>6, <1>8
  <2>2. left \in SUBSET Nat /\ left # {}
    BY <1>3, <2>1
  <2>3. PICK m \in left : \A y \in left : m <= y
    <3> HIDE DEF left
    <3> QED BY <2>2, LeastNumber
  <2>4. m \in pending /\ m \notin DOMAIN plan /\ m \in Nat
    BY <1>3, <2>3
  <2>5. IsFiniteSet(below(m)) /\ Cardinality(below(m)) \in Nat
    BY <1>3, PartFinite
  <2>6. ~(Cardinality(below(m)) < ChunkSize)
    BY <1>1, <1>2, <2>4
  <2>7. below(m) \subseteq DOMAIN plan
    <3> SUFFICES ASSUME NEW y \in pending, y < m, y \notin DOMAIN plan PROVE FALSE
      OBVIOUS
    <3>1. y \in left /\ y \in Nat
      BY <1>3
    <3> QED BY <2>3, <2>4, <3>1
  <2>8. Cardinality(below(m)) <= Cardinality(DOMAIN plan)
    BY <1>4, <2>7, FS_Subset
  <2>9. ChunkSize \in Nat
    BY ResetAssumption
  <2> HIDE DEF below
  <2> QED BY <1>4, <2>5, <2>6, <2>8, <2>9
<1> QED BY <1>1, <1>4, <1>7, <1>8

\* The suspense leg of a chunk, if it gets one.
Balancing(f, plan) == IF NeedsSuspense(f, plan) THEN {Name(CurrencyIn(plan))} ELSE {}

\* The chunk that the balances ask for, while they add up: it has two accounts or more,
\* and what is left of each but the suspense account is nothing.
LEMMA ChunkClears ==
  ASSUME IInv, Books, Clearable, Opening, broken = 0, ChunkSize > 1, NonZero(bal) # {},
         NEW plan, plan = Restrict(bal, Taken(bal)), NEW k, k = CurrencyIn(plan),
         NEW d, d = ChunkDelta(plan, Balancing(bal, plan))
  PROVE  /\ Cardinality(DOMAIN plan) >= 2 /\ SumFunction(d) = 0
         /\ DOMAIN d # {} /\ \A a \in DOMAIN d : a \in InCurrency(k)
         /\ \A a \in DOMAIN plan \ {Name(k)} :
              bal[a] + d[a] = 0 /\ After(bal, d)[a] = 0 /\ a \notin Names
         /\ DOMAIN d \subseteq DOMAIN plan \cup {Name(k)}
         /\ (\A a \in NonZero(bal) \ DOMAIN plan : CurrencyOf[a] # k) =>
              \A a \in InCurrency(k) : After(bal, d)[a] = 0
<1> DEFINE s == Name(k)
           need == NeedsSuspense(bal, plan)
           suspense == Balancing(bal, plan)
           partial == \E a \in NonZero(bal) \ DOMAIN plan : CurrencyOf[a] = k
           size == Cardinality(DOMAIN plan)
<1>1. /\ WholePlan(plan) /\ k \in Currencies
      /\ ~partial => SumFunction(plan) = Total(k)
  BY PlanIs
<1>2. /\ \A a \in DOMAIN plan : a \in InCurrency(k) /\ bal[a] # 0 /\ plan[a] = bal[a]
      /\ IsFiniteSet(DOMAIN plan) /\ size \in Nat
      /\ partial => size >= ChunkSize
  BY PlanTakes
<1>3. Total(k) = 0 /\ DOMAIN bal = Accounts /\ \A a \in Accounts : bal[a] \in Int
  BY <1>1 DEF Books, IInv, Shape
<1>4. (need <=> partial /\ SumFunction(plan) # 0) /\ suspense = IF need THEN {s} ELSE {}
  BY DEF NeedsSuspense, Balancing
<1>5. /\ DOMAIN d = DOMAIN plan \cup suspense
      /\ \A a \in DOMAIN d : d[a] \in Int /\ a \in InCurrency(k)
      /\ SumFunction(plan) \in Int
      /\ SumFunction(d) = IF need THEN 0 ELSE -SumFunction(plan)
  <2>1. s \in InCurrency(k) /\ s \in Accounts
    BY <1>1, NamesFit DEF InCurrency
  <2>2. d = ChunkDelta(plan, suspense) /\ (suspense = {} \/ suspense = {s}) /\ (suspense = {} <=> ~need)
    BY <1>4
  <2> HIDE DEF need, suspense, s
  <2>3. PICK legs : legs = suspense
    OBVIOUS
  <2>4. legs \in SUBSET Accounts /\ \A a, b \in legs : a = b
    BY <2>1, <2>2, <2>3
  <2>5. d = ChunkDelta(plan, legs)
    BY <2>2, <2>3
  <2>6. /\ DOMAIN d = DOMAIN plan \cup legs
        /\ \A a \in DOMAIN plan : a \in InCurrency(CurrencyIn(plan))
        /\ \A a \in DOMAIN d : d[a] \in Int
        /\ SumFunction(plan) \in Int
        /\ SumFunction(d) = IF legs = {} THEN -SumFunction(plan) ELSE 0
    BY <1>1, <2>4, <2>5, ChunkIs
  <2> QED BY <2>1, <2>2, <2>3, <2>6
<1>6. SumFunction(d) = 0
  BY <1>1, <1>3, <1>4, <1>5
<1>7. DOMAIN plan # {} /\ size # 0
  BY <1>1, <1>2, FS_EmptySet DEF WholePlan
<1>8. size >= 2
  <2>1. CASE partial
    BY <1>2, <2>1, ResetAssumption
  <2>2. CASE ~partial
    <3> SUFFICES ASSUME size = 1 PROVE FALSE
      BY <1>2, <1>7
    <3>1. PICK x : DOMAIN plan = {x}
      BY <1>2, FS_Singleton
    <3>2. plan[x] \in Int /\ plan[x] # 0
      BY <1>2, <1>3, <3>1 DEF InCurrency
    <3>3. SumFunction(plan) = plan[x]
      BY <3>1, <3>2, SumOfOne DEF SumFunction
    <3> QED BY <1>1, <1>3, <2>2, <3>2, <3>3
  <2> QED BY <2>1, <2>2
<1>9. ASSUME NEW a \in DOMAIN plan, a # s \/ ~need
      PROVE  bal[a] + d[a] = 0 /\ After(bal, d)[a] = 0
  <2>1. a \in DOMAIN d /\ a \in Accounts /\ bal[a] \in Int
    BY <1>2, <1>3, <1>5 DEF InCurrency
  <2>2. d[a] = -plan[a] + 0
    BY <1>4, <1>9, <2>1 DEF ChunkDelta
  <2>3. bal[a] + d[a] = 0
    BY <1>2, <2>1, <2>2
  <2>4. After(bal, d)[a] = bal[a] + d[a]
    BY <1>3, <2>1 DEF After
  <2> QED BY <2>3, <2>4
<1>10. \A a \in InCurrency(k) : a \in Names => a = s
  BY NamesFit DEF InCurrency, Names
<1>11. ASSUME ~partial, NEW a \in InCurrency(k) PROVE After(bal, d)[a] = 0
  <2>1. CASE a \in DOMAIN plan
    BY <1>4, <1>9, <1>11, <2>1
  <2>2. CASE a \notin DOMAIN plan
    <3>1. a \in Accounts /\ a \notin DOMAIN d /\ bal[a] = 0
      BY <1>3, <1>4, <1>5, <1>11, <2>2 DEF InCurrency, NonZero
    <3> QED BY <1>3, <3>1 DEF After
  <2> QED BY <2>1, <2>2
<1>12. \A a \in DOMAIN plan \ {s} :
         bal[a] + d[a] = 0 /\ After(bal, d)[a] = 0 /\ a \notin Names
  BY <1>2, <1>9, <1>10
<1> QED BY <1>4, <1>5, <1>6, <1>7, <1>8, <1>11, <1>12

\* Its posting takes at least ChunkSize - 1 from what is left to do: a full chunk has that
\* many accounts, and a smaller one is the last of its currency.
LEMMA ChunkCounts ==
  ASSUME IInv, Books, Clearable, Opening, broken = 0, ChunkSize > 1, NonZero(bal) # {},
         NEW plan, plan = Restrict(bal, Taken(bal)),
         NEW d, d = ChunkDelta(plan, Balancing(bal, plan)), NEW g, g = After(bal, d)
  PROVE  /\ DOMAIN g = Accounts
         /\ \A a \in Accounts \ Names : bal[a] = 0 => g[a] = 0
         /\ \E a \in DOMAIN plan : a \in Accounts \ Names /\ g[a] = 0
         /\ ToDo(g, Names) + (ChunkSize - 1) <= ToDo(bal, Names)
<1> DEFINE k == CurrencyIn(plan)
           s == Name(k)
           Q == DOMAIN plan \ {s}
           partial == \E a \in NonZero(bal) \ DOMAIN plan : CurrencyOf[a] = k
           N == NonZero(bal) \ Names
           M == NonZero(g) \ Names
<1>1. /\ Cardinality(DOMAIN plan) >= 2
      /\ \A a \in DOMAIN d : a \in InCurrency(k)
      /\ \A a \in Q : g[a] = 0 /\ a \notin Names
      /\ DOMAIN d \subseteq DOMAIN plan \cup {s}
      /\ ~partial => \A a \in InCurrency(k) : g[a] = 0
  BY ChunkClears
<1>2. /\ \A a \in DOMAIN plan : a \in InCurrency(k) /\ bal[a] # 0
      /\ IsFiniteSet(DOMAIN plan) /\ Cardinality(DOMAIN plan) \in Nat
      /\ partial => Cardinality(DOMAIN plan) >= ChunkSize
  BY PlanTakes
<1>3. /\ k \in Currencies /\ s \in Names /\ s \in InCurrency(k)
  BY PlanIs, NamesFit DEF Names
<1>4. /\ DOMAIN bal = Accounts /\ DOMAIN g = Accounts
      /\ \A a \in Accounts : bal[a] \in Int /\ (a \notin DOMAIN d => g[a] = bal[a])
  <2>1. DOMAIN bal = Accounts /\ \A a \in Accounts : bal[a] \in Int
    BY DEF IInv, Shape, Books
  <2> QED BY <2>1 DEF After
<1>5. \A a \in Accounts \ Names : bal[a] = 0 => g[a] = 0
  BY <1>1, <1>2, <1>3, <1>4
<1>6. /\ IsFiniteSet(Q) /\ Cardinality(Q) \in Nat /\ Cardinality(Q) >= Cardinality(DOMAIN plan) - 1
  <2>1. Cardinality(Q) = IF s \in DOMAIN plan THEN Cardinality(DOMAIN plan) - 1
                         ELSE Cardinality(DOMAIN plan)
    BY <1>2, FS_RemoveElement
  <2>2. IsFiniteSet(Q) /\ Cardinality(Q) \in Nat
    BY <1>2, PartFinite
  <2> HIDE DEF Q
  <2> QED BY <1>2, <2>1, <2>2
<1>7. \E a \in DOMAIN plan : a \in Accounts \ Names /\ g[a] = 0
  <2>1. Cardinality(Q) # 0
    BY <1>1, <1>2, <1>6
  <2>2. Q # {}
    BY <2>1, FS_EmptySet
  <2> QED BY <1>1, <1>2, <2>2 DEF InCurrency
<1>8. /\ IsFiniteSet(N) /\ Cardinality(N) \in Nat /\ IsFiniteSet(Held(bal)) /\ Cardinality(Held(bal)) \in Nat
      /\ IsFiniteSet(M) /\ Cardinality(M) \in Nat /\ IsFiniteSet(Held(g)) /\ Cardinality(Held(g)) \in Nat
      /\ ChunkSize - 2 \in Nat
  BY <1>4, ToDoIs
<1>9. Cardinality(M) + Cardinality(Q) <= Cardinality(N)
  <2>1. Q \subseteq N /\ N \cap Q = Q
    BY <1>1, <1>2, <1>4 DEF InCurrency, NonZero
  <2>2. M \subseteq N \ Q
    BY <1>1, <1>4, <1>5 DEF NonZero
  <2> HIDE DEF M, N, Q
  <2>3. IsFiniteSet(N \ Q) /\ Cardinality(N \ Q) = Cardinality(N) - Cardinality(Q)
    BY <1>8, <2>1, FS_Difference
  <2>4. Cardinality(M) <= Cardinality(N \ Q)
    BY <2>2, <2>3, FS_Subset
  <2> QED BY <1>6, <1>8, <2>3, <2>4
<1>10. Held(g) \subseteq Held(bal) /\ k \in Held(bal)
  <2>1. k \in Held(bal)
    <3>1. PICK a \in DOMAIN plan : TRUE
      BY <1>7
    <3> QED BY <1>2, <1>4 DEF Held, NonZero, InCurrency
  <2>2. ASSUME NEW a \in NonZero(g) PROVE CurrencyOf[a] \in Held(bal)
    <3>1. a \in Accounts /\ g[a] # 0
      BY <1>4 DEF NonZero
    <3>2. CASE a \in DOMAIN d
      BY <1>1, <2>1, <3>2 DEF InCurrency
    <3>3. CASE a \notin DOMAIN d
      BY <1>4, <3>1, <3>3 DEF Held, NonZero
    <3> QED BY <3>2, <3>3
  <2> QED BY <2>1, <2>2 DEF Held
<1>11. Cardinality(Held(g)) <= Cardinality(Held(bal))
  BY <1>8, <1>10, FS_Subset
<1>12. ASSUME ~partial PROVE Cardinality(Held(g)) + 1 <= Cardinality(Held(bal))
  <2>1. k \notin Held(g)
    BY <1>1, <1>4, <1>12 DEF Held, NonZero, InCurrency
  <2> HIDE DEF k
  <2>2. /\ IsFiniteSet(Held(bal) \ {k}) /\ Held(g) \subseteq Held(bal) \ {k}
        /\ Cardinality(Held(bal) \ {k}) = Cardinality(Held(bal)) - 1
    BY <1>8, <1>10, <2>1, FS_RemoveElement
  <2>3. Cardinality(Held(g)) <= Cardinality(Held(bal) \ {k})
    BY <2>2, FS_Subset
  <2> QED BY <1>8, <2>2, <2>3
<1> DEFINE hb == Cardinality(Held(bal))
           hg == Cardinality(Held(g))
           pb == (ChunkSize - 2) * hb
           pg == (ChunkSize - 2) * hg
<1>13. /\ pb \in Nat /\ pg \in Nat /\ pg <= pb
       /\ hg + 1 <= hb => pg + (ChunkSize - 2) <= pb
  <2> HIDE DEF hb, hg
  <2>1. hb \in Nat /\ hg \in Nat /\ hg <= hb
    BY <1>8, <1>11 DEF hb, hg
  <2> QED BY <1>8, <2>1, Products
<1>14. ToDo(g, Names) = Cardinality(M) + pg /\ ToDo(bal, Names) = Cardinality(N) + pb
  BY DEF ToDo
<1> HIDE DEF M, N, Q, pb, pg, partial
<1>15. ToDo(g, Names) + (ChunkSize - 1) <= ToDo(bal, Names)
  <2>1. ChunkSize \in Nat
    BY ResetAssumption
  <2>2. CASE partial
    <3>1. Cardinality(Q) >= ChunkSize - 1
      BY <1>2, <1>6, <2>1, <2>2
    <3> QED BY <1>6, <1>8, <1>9, <1>13, <1>14, <2>1, <3>1
  <2>3. CASE ~partial
    <3>1. Cardinality(Q) >= 1
      BY <1>1, <1>2, <1>6
    <3>2. pg + (ChunkSize - 2) <= pb
      BY <1>12, <1>13, <2>3
    <3> QED BY <1>6, <1>8, <1>9, <1>13, <1>14, <2>1, <3>1, <3>2
  <2> QED BY <2>2, <2>3
<1> QED BY <1>4, <1>5, <1>7, <1>15

\* Whatever one brings together of f can be stored.
Storable(f, k) == \A S \in SUBSET InCurrency(k) : SumFunctionOnSet(f, S) \in -Limit..Limit

AtMostOne(S) == \A a, b \in S : a = b

\* Balances D are moved to the account of suspense, or cancel out: what can be brought
\* together afterwards could be brought together before.
LEMMA StillStorable ==
  ASSUME NEW k, NEW f, IntOn(f, InCurrency(k)), Storable(f, k),
         NEW D \in SUBSET InCurrency(k), NEW suspense, AtMostOne(suspense), NEW g,
         \A a \in InCurrency(k) : g[a] = (IF a \in D THEN 0 ELSE f[a])
                                        + (IF a \in suspense THEN SumFunctionOnSet(f, D) ELSE 0)
  PROVE  Storable(g, k)
<1> SUFFICES ASSUME NEW S \in SUBSET InCurrency(k)
             PROVE  SumFunctionOnSet(g, S) \in -Limit..Limit
  BY DEF Storable
<1> DEFINE total == SumFunctionOnSet(f, D)
<1>1. \A T \in SUBSET InCurrency(k) :
        IsFiniteSet(T) /\ IntOn(f, T) /\ SumFunctionOnSet(f, T) \in Int /\ SumFunctionOnSet(f, T) \in -Limit..Limit
  <2> SUFFICES ASSUME NEW T \in SUBSET InCurrency(k)
               PROVE  IsFiniteSet(T) /\ IntOn(f, T) /\ SumFunctionOnSet(f, T) \in Int
                      /\ SumFunctionOnSet(f, T) \in -Limit..Limit
    OBVIOUS
  <2>1. IsFiniteSet(T) /\ IntOn(f, T)
    BY CurrencyFinite, PartFinite DEF IntOn
  <2> QED BY <2>1, SumRecursion DEF Storable
<1>2. \A a \in InCurrency(k) : f[a] \in Int /\ total \in Int
  BY <1>1 DEF IntOn
<1> HIDE DEF total
<1>3. \A a \in InCurrency(k) :
        /\ g[a] \in Int
        /\ a \notin suspense => g[a] = IF a \in D THEN 0 ELSE f[a]
        /\ a \in suspense => g[a] = IF a \in D THEN total ELSE f[a] + total
  BY <1>2 DEF total
<1>4. ASSUME NEW T \in SUBSET InCurrency(k), T \cap suspense = {}
      PROVE  SumFunctionOnSet(g, T) = SumFunctionOnSet(f, T \ D)
  <2>1. IsFiniteSet(T) /\ IntOn(g, T) /\ T \ D \subseteq T /\ \A a \in T \ (T \ D) : g[a] = 0
    BY <1>1, <1>3, <1>4 DEF IntOn
  <2>2. SumFunctionOnSet(g, T) = SumFunctionOnSet(g, T \ D)
    BY <2>1, SumOverPart
  <2>3. IsFiniteSet(T \ D) /\ IntOn(f, T \ D) /\ \A a \in T \ D : f[a] = g[a]
    BY <1>1, <1>3, <1>4
  <2>4. SumFunctionOnSet(f, T \ D) = SumFunctionOnSet(g, T \ D)
    BY <2>3, SumSame
  <2> QED BY <2>2, <2>4
<1>5. CASE S \cap suspense = {}
  <2>1. S \ D \in SUBSET InCurrency(k)
    OBVIOUS
  <2> QED BY <1>1, <1>4, <1>5, <2>1
<1>6. CASE S \cap suspense # {}
  <2> PICK s \in S : suspense = {s}
    BY <1>6 DEF AtMostOne
  <2> DEFINE T == S \ {s}
             U == D \cup {s}
  <2>1. T \in SUBSET InCurrency(k) /\ T \cap suspense = {} /\ s \in InCurrency(k)
    OBVIOUS
  <2>2. SumFunctionOnSet(g, S) = g[s] + SumFunctionOnSet(g, T)
    BY <1>1, <1>3, SumTakeOut DEF IntOn
  <2>3. SumFunctionOnSet(g, T) = SumFunctionOnSet(f, T \ D)
    BY <1>4, <2>1
  <2>4. g[s] = SumFunctionOnSet(f, U)
    <3>1. CASE s \in D
      <4>1. U = D
        BY <3>1
      <4> QED BY <1>3, <2>1, <3>1, <4>1 DEF total
    <3>2. CASE s \notin D
      <4>1. U \in SUBSET InCurrency(k)
        BY <2>1
      <4>2. IsFiniteSet(D) /\ IntOn(f, D \cup {s})
        BY <1>1, <4>1
      <4>3. SumFunctionOnSet(f, D \cup {s}) = f[s] + SumFunctionOnSet(f, D)
        BY <3>2, <4>2, SumPutIn
      <4> QED BY <1>3, <2>1, <3>2, <4>3 DEF total
    <3> QED BY <3>1, <3>2
  <2>5. /\ U \in SUBSET InCurrency(k) /\ T \ D \in SUBSET InCurrency(k)
        /\ U \cup (T \ D) \in SUBSET InCurrency(k) /\ U \cap (T \ D) = {}
    BY <2>1
  <2> HIDE DEF T, U
  <2>6. /\ IsFiniteSet(U) /\ IsFiniteSet(T \ D) /\ IntOn(f, U \cup (T \ D))
        /\ SumFunctionOnSet(f, U \cup (T \ D)) \in -Limit..Limit
    BY <1>1, <2>5
  <2>7. SumFunctionOnSet(f, U \cup (T \ D)) = SumFunctionOnSet(f, U) + SumFunctionOnSet(f, T \ D)
    BY <2>5, <2>6, SumOfUnion
  <2> QED BY <2>2, <2>3, <2>4, <2>6, <2>7
<1> QED BY <1>5, <1>6

\* The chunk that the balances ask for meets no closed account, can be stored, and leaves
\* balances of which the same is true.
LEMMA ChunkStorable ==
  ASSUME IInv, Books, Clearable, Opening, broken = 0, ChunkSize > 1, NonZero(bal) # {},
         NEW plan, plan = Restrict(bal, Taken(bal)),
         NEW d, d = ChunkDelta(plan, Balancing(bal, plan)), NEW g, g = After(bal, d)
  PROVE  /\ DOMAIN d \cap closed = {}
         /\ SumFunction(plan) \in -Limit..Limit
         /\ \A j \in Currencies : Storable(g, j)
         /\ \A a \in DOMAIN d : g[a] = bal[a] + d[a] /\ g[a] \in -Limit..Limit
<1> DEFINE k == CurrencyIn(plan)
           s == Name(k)
           suspense == Balancing(bal, plan)
           D == DOMAIN plan
<1>1. /\ WholePlan(plan) /\ k \in Currencies
      /\ \A a \in D : a \in InCurrency(k) /\ bal[a] # 0 /\ plan[a] = bal[a]
  BY PlanIs, PlanTakes
<1>2. AtMostOne(suspense)
  BY DEF Balancing, AtMostOne
<1>3. DOMAIN d \subseteq D \cup {s} /\ \A a \in DOMAIN d : a \in InCurrency(k)
  BY ChunkClears
<1>4. /\ s \in InCurrency(k) /\ s \notin closed
      /\ DOMAIN bal = Accounts /\ \A a \in Accounts : bal[a] \in Int
  BY <1>1, NamesFit DEF IInv, Shape, Books
<1>5. DOMAIN d \cap closed = {}
  BY <1>1, <1>3, <1>4 DEF Clearable
<1>6. Limit \in Nat /\ \A j \in Currencies : Storable(bal, j)
  BY ResetAssumption DEF Clearable, Storable
<1>7. IntOn(bal, InCurrency(k)) /\ IntOn(bal, D) /\ IsFiniteSet(D) /\ D \in SUBSET InCurrency(k)
  BY <1>1, <1>4, CurrencyFinite, PartFinite DEF IntOn, InCurrency
<1>8. SumFunction(plan) = SumFunctionOnSet(bal, D) /\ SumFunctionOnSet(bal, D) \in Int
  <2>1. SumFunctionOnSet(bal, D) = SumFunctionOnSet(plan, D)
    BY <1>1, <1>7, SumSame
  <2> QED BY <1>7, <2>1, SumRecursion DEF SumFunction
<1>9. SumFunction(plan) \in -Limit..Limit
  BY <1>1, <1>6, <1>7, <1>8 DEF Storable
<1>10. /\ DOMAIN g = Accounts /\ \A a \in Accounts : g[a] = bal[a] + (IF a \in DOMAIN d THEN d[a] ELSE 0)
       /\ DOMAIN d = D \cup suspense
       /\ \A a \in DOMAIN d : d[a] = (IF a \in D THEN -plan[a] ELSE 0)
                                  + (IF a \in suspense THEN SumFunction(plan) ELSE 0)
  BY <1>4 DEF After, ChunkDelta
<1> HIDE DEF k, s, suspense, D
<1>11. \A a \in InCurrency(k) : g[a] = (IF a \in D THEN 0 ELSE bal[a])
                                        + (IF a \in suspense THEN SumFunctionOnSet(bal, D) ELSE 0)
  <2> SUFFICES ASSUME NEW a \in InCurrency(k)
               PROVE  g[a] = (IF a \in D THEN 0 ELSE bal[a])
                               + (IF a \in suspense THEN SumFunctionOnSet(bal, D) ELSE 0)
    OBVIOUS
  <2>1. a \in Accounts /\ bal[a] \in Int
    BY <1>4 DEF InCurrency
  <2>2. g[a] = bal[a] + (IF a \in DOMAIN d THEN d[a] ELSE 0)
    BY <1>10, <2>1
  <2>3. CASE a \notin DOMAIN d
    BY <1>10, <2>1, <2>2, <2>3
  <2>4. CASE a \in DOMAIN d
    <3>1. a \in D => plan[a] = bal[a]
      BY <1>1
    <3> QED BY <1>8, <1>10, <2>1, <2>2, <2>4, <3>1
  <2> QED BY <2>3, <2>4
<1>12. ASSUME NEW j \in Currencies PROVE Storable(g, j)
  <2>1. CASE j = k
    <3>1. PICK f, legs : f = bal /\ legs = suspense
      OBVIOUS
    <3>2. IntOn(f, InCurrency(k)) /\ Storable(f, k)
      BY <1>1, <1>6, <1>7, <3>1
    <3>3. AtMostOne(legs)
      BY <1>2, <3>1
    <3>4. SumFunctionOnSet(f, D) = SumFunctionOnSet(bal, D)
      BY <3>1
    <3>5. \A a \in InCurrency(k) : g[a] = (IF a \in D THEN 0 ELSE f[a])
                                        + (IF a \in legs THEN SumFunctionOnSet(f, D) ELSE 0)
      BY <1>11, <3>1, <3>4
    <3>6. Storable(g, k)
      BY <1>7, <3>2, <3>3, <3>5, StillStorable
    <3> QED BY <2>1, <3>6
  <2>2. CASE j # k
    <3> SUFFICES ASSUME NEW S \in SUBSET InCurrency(j)
                 PROVE  SumFunctionOnSet(g, S) \in -Limit..Limit
      BY DEF Storable
    <3>1. \A a \in S : a \in Accounts /\ a \notin DOMAIN d
      BY <1>3, <2>2 DEF InCurrency
    <3>2. IsFiniteSet(S) /\ IntOn(bal, S)
      BY <1>4, <3>1, CurrencyFinite, PartFinite DEF IntOn
    <3>3. \A a \in S : bal[a] = g[a]
      BY <1>4, <1>10, <3>1
    <3>4. SumFunctionOnSet(bal, S) = SumFunctionOnSet(g, S)
      BY <3>2, <3>3, SumSame
    <3> QED BY <1>6, <3>4 DEF Storable
  <2> QED BY <2>1, <2>2
<1>13. ASSUME NEW a \in DOMAIN d PROVE g[a] = bal[a] + d[a] /\ g[a] \in -Limit..Limit
  <2>1. a \in InCurrency(k) /\ a \in Accounts /\ bal[a] \in Int
    BY <1>3, <1>4, <1>13 DEF InCurrency
  <2>2. g[a] = bal[a] + d[a]
    BY <1>10, <1>13, <2>1
  <2>3. g[a] \in Int
    BY <1>8, <1>11, <2>1
  <2>4. SumFunctionOnSet(g, {a}) = g[a] /\ {a} \in SUBSET InCurrency(k)
    BY <2>1, <2>3, SumOfOne
  <2> QED BY <1>1, <1>12, <2>2, <2>4 DEF Storable
<1> QED BY <1>5, <1>9, <1>12, <1>13

\* A run that was minted over a ledger that can be cleared, and since when nothing but
\* its own calls changed it.
Clean(k) == broken = 0 /\ k \in 1..starts /\ k \notin dirty

ToBePosted(c) == pc[c] \in {"suspense", "open", "post"}

\* What the call is about to post, if it is.
Intended(c) ==
  IF Planned(c) THEN ChunkDelta(chunk[c], {Name(CurrencyIn(chunk[c]))}) ELSE delta[c]

\* The chunk that the balances ask for now.
Fresh(c) ==
  /\ NonZero(bal) # {}
  /\ chunk[c] = Restrict(bal, Taken(bal))
  /\ Intended(c) = ChunkDelta(chunk[c], Balancing(bal, chunk[c]))

Spent(c) == \E x \in txs : x.key = Key(c) /\ x.delta = Intended(c)

\* The run went on since the call planned, or before it counted: its answer comes for
\* nothing, and is paid for by the posting it missed.
Owed(c) ==
  \/ ToBePosted(c) /\ ~Fresh(c)
  \/ delta[c] = <<>> /\ (pc[c] = "count" \/ (pc[c] = "commit" /\ result[c] = "remaining"))

CallOk(c) ==
  /\ ToBePosted(c) => Fresh(c) \/ Spent(c)
  /\ HasPosted(c) => Fresh(c)
  /\ result[c] \in {"none", "zero", "remaining", "transaction_aborted"}
  /\ result[c] = "zero" => NonZero(After(bal, delta[c])) = {}

\* What such a run needs of the ledger is still there.
Fit == \A k \in 1..starts : Clean(k) => Clearable

\* Whose call is whose, and which posting stands under which key.
Wired ==
  /\ dirty \subseteq 1..starts
  /\ \A c \in Calls : result[c] # "none" => pc[c] = "commit"
  /\ \A c, q \in Calls : c # q /\ HasPosted(c) /\ HasPosted(q) => Key(c) # Key(q)
  /\ \A t \in Tabs :
       /\ of[t] # None => of[t] \in 1..starts
       /\ loop[t] = "idle" => calls[t] = 0
       /\ call[t] \in Calls => loop[t] = "wait" /\ pc[call[t]] # "none" /\ run[call[t]] = of[t]
       /\ \A u \in Tabs : call[t] \in Calls /\ call[u] = call[t] => u = t

\* No chunk comes twice: an account that it zeroed stays at zero.
Gone ==
  \A x \in txs : Clean(x.key[1]) => \E a \in DOMAIN x.key[2] : a \in Accounts \ Names /\ bal[a] = 0

Good == \A c \in Calls : pc[c] # "none" /\ Clean(run[c]) => CallOk(c)

\* n answers were paid for by the postings that led to these balances.
Paid(f, names, n) == ToDo(f, names) + (ChunkSize - 1) * n <= Most

\* The tab's loop is about such a run.
Undisturbed(t) == of[t] # None /\ Clean(of[t])

Credit ==
  \A t \in Tabs : Undisturbed(t) =>
    /\ Paid(bal, Names, calls[t])
    /\ call[t] \in Calls /\ Owed(call[t]) => Paid(bal, Names, calls[t] + 1)

Ends ==
  \A t \in Tabs : Undisturbed(t) =>
    /\ outcome[t] \in {"none", "complete", "lost", "transaction_aborted"}
    /\ outcome[t] = "complete" => NonZero(bal) = {}

CInv == Fit /\ Wired /\ Gone /\ Good /\ Credit /\ Ends

LEMMA NothingPosted ==
  ASSUME NEW f, \A a \in DOMAIN f : f[a] \in Int
  PROVE  NonZero(After(f, <<>>)) = NonZero(f)
<1>1. DOMAIN <<>> = {}
  OBVIOUS
<1>2. DOMAIN After(f, <<>>) = DOMAIN f /\ \A a \in DOMAIN f : After(f, <<>>)[a] = f[a]
  BY <1>1 DEF After
<1> QED BY <1>2 DEF NonZero

\* The names stay, and so does what a reset needs.
LEMMA LedgerSame ==
  ASSUME UNCHANGED <<bal, holder, closed, approval>>
  PROVE  /\ \A k : Name(k)' = Name(k)
         /\ Names' = Names
         /\ Clearable' <=> Clearable
BY DEF Name, Names, Clearable

\* A call that is left alone.
LEMMA CallSame ==
  ASSUME UNCHANGED <<bal, txs>>, \A k : Name(k)' = Name(k), NEW q, pc'[q] = pc[q], run'[q] = run[q],
         chunk'[q] = chunk[q], delta'[q] = delta[q], result'[q] = result[q]
  PROVE  /\ HasPosted(q)' <=> HasPosted(q)
         /\ Key(q)' = Key(q)
         /\ Owed(q)' <=> Owed(q)
         /\ CallOk(q)' <=> CallOk(q)
<1>1. /\ Key(q)' = Key(q) /\ Intended(q)' = Intended(q)
      /\ HasPosted(q)' <=> HasPosted(q)
      /\ ToBePosted(q)' <=> ToBePosted(q)
  BY DEF HasPosted, At, Key, Intended, Planned, ToBePosted
<1>2. Fresh(q)' <=> Fresh(q)
  BY <1>1 DEF Fresh, Balancing
<1>3. Spent(q)' <=> Spent(q)
  BY <1>1 DEF Spent
<1> QED BY <1>1, <1>2, <1>3 DEF Owed, CallOk

\* What a step of call c must keep, before its COMMIT.
LEMMA CallGoesOn ==
  ASSUME CInv, NEW c \in Calls, pc[c] # "none", pc'[c] # "none", run'[c] = run[c],
         UNCHANGED <<bal, txs, holder, closed, approval, starts, broken, dirty, of, loop, call, calls, outcome>>,
         \A q \in Calls \ {c} :
           /\ pc'[q] = pc[q] /\ run'[q] = run[q]
           /\ chunk'[q] = chunk[q] /\ delta'[q] = delta[q] /\ result'[q] = result[q],
         result'[c] # "none" => pc'[c] = "commit",
         HasPosted(c)' => \A q \in Calls \ {c} : HasPosted(q) => Key(q) # Key(c)',
         Clean(run[c]) => CallOk(c)' /\ (Owed(c)' => Owed(c))
  PROVE  CInv'
<1>1. \A k : Clean(k)' <=> Clean(k)
  BY DEF Clean
<1>2. \A q \in Calls \ {c} : /\ HasPosted(q)' <=> HasPosted(q)
                             /\ Key(q)' = Key(q)
                             /\ Owed(q)' <=> Owed(q)
                             /\ CallOk(q)' <=> CallOk(q)
  BY LedgerSame, CallSame
<1>3. Wired'
  <2>1. \A p, q \in Calls : p # q /\ HasPosted(p)' /\ HasPosted(q)' => Key(p)' # Key(q)'
    BY <1>2 DEF CInv, Wired
  <2>2. \A q \in Calls : run'[q] = run[q] /\ (pc'[q] # "none" <=> pc[q] # "none")
    OBVIOUS
  <2>3. \A q \in Calls : result'[q] # "none" => pc'[q] = "commit"
    BY DEF CInv, Wired
  <2> QED BY <2>1, <2>2, <2>3 DEF CInv, Wired
<1>4. Gone'
  BY <1>1, LedgerSame DEF CInv, Gone
<1>5. Good'
  BY <1>1, <1>2 DEF CInv, Good
<1>6. Credit'
  <2> SUFFICES ASSUME NEW t \in Tabs, Undisturbed(t)
               PROVE  /\ Paid(bal, Names, calls[t])
                      /\ call[t] \in Calls /\ Owed(call[t])' => Paid(bal, Names, calls[t] + 1)
    BY <1>1, LedgerSame DEF Credit, Undisturbed
  <2>1. ASSUME call[t] \in Calls, Owed(call[t])' PROVE Owed(call[t])
    <3>1. CASE call[t] = c
      BY <2>1, <3>1 DEF CInv, Wired, Undisturbed
    <3>2. CASE call[t] # c
      BY <1>2, <2>1, <3>2
    <3> QED BY <3>1, <3>2
  <2> QED BY <2>1 DEF CInv, Credit
<1>7. Ends'
  BY <1>1 DEF CInv, Ends, Undisturbed
<1>8. Fit'
  BY <1>1, LedgerSame DEF CInv, Fit
<1> QED BY <1>3, <1>4, <1>5, <1>6, <1>7, <1>8 DEF CInv

\* While such a run is there the gate is open.
LEMMA GateGoes ==
  ASSUME CInv, IInv, Typed, NEW c \in Calls, Gate(c)
  PROVE  CInv'
<1>1. /\ pc[c] = "gate" /\ delta[c] = <<>> /\ result[c] = "none"
      /\ UNCHANGED <<bal, txs, holder, closed, approval, starts, broken, dirty, run, chunk, delta, of, loop, call, calls, outcome>>
  BY DEF Gate, At, IInv, Own, CInv, Wired, database, settings, tab, history
<1>2. DOMAIN pc = Calls /\ DOMAIN result = Calls
  BY DEF IInv, Shape, Typed, Control
<1>3. \/ ~approval /\ pc' = [pc EXCEPT ![c] = "plan"] /\ result' = result
      \/ approval /\ pc' = [pc EXCEPT ![c] = "commit"] /\ result' = [result EXCEPT ![c] = "approval_required"]
  BY DEF Gate, Settle, Goto, Set
<1>4. /\ pc'[c] \in {"plan", "commit"} /\ (result'[c] # "none" => pc'[c] = "commit")
      /\ \A q \in Calls \ {c} : pc'[q] = pc[q] /\ result'[q] = result[q]
  BY <1>1, <1>2, <1>3
<1>5. ~HasPosted(c)'
  BY <1>1, <1>4 DEF HasPosted
<1>6. ASSUME Clean(run[c]) PROVE CallOk(c)' /\ ~Owed(c)'
  <2>1. ~approval
    BY <1>6 DEF CInv, Fit, Clearable, Clean
  <2>2. pc'[c] = "plan" /\ result'[c] = "none"
    BY <1>1, <1>2, <1>3, <2>1
  <2> QED BY <1>5, <2>2 DEF CallOk, ToBePosted, Owed
<1> QED BY <1>1, <1>4, <1>5, <1>6, CallGoesOn

LEMMA ToPostGoes ==
  ASSUME Shape, DOMAIN result = Calls, NEW c \in Calls, NEW plan, NEW suspense,
         ToPost(c, plan, suspense), result[c] = "none"
  PROVE  /\ \A q \in Calls \ {c} : pc'[q] = pc[q] /\ delta'[q] = delta[q] /\ result'[q] = result[q]
         /\ \/ pc'[c] = "post" /\ result'[c] = "none" /\ delta'[c] = ChunkDelta(plan, suspense)
            \/ pc'[c] = "commit" /\ delta'[c] = delta[c]
         /\ (/\ Cardinality(DOMAIN plan) + Cardinality(suspense) >= 2
             /\ Cardinality(DOMAIN plan) \in Nat /\ Cardinality(suspense) \in Nat
             /\ SumFunction(ChunkDelta(plan, suspense)) = 0) => pc'[c] = "post"
<1> DEFINE d == ChunkDelta(plan, suspense)
           legs == Cardinality(DOMAIN plan) + Cardinality(suspense)
<1>1. \/ CreateRefusal(plan, suspense, d) = "ok" /\ pc' = [pc EXCEPT ![c] = "post"]
           /\ delta' = [delta EXCEPT ![c] = d] /\ result' = result
      \/ CreateRefusal(plan, suspense, d) # "ok" /\ pc' = [pc EXCEPT ![c] = "commit"]
           /\ delta' = delta
           /\ result' = [result EXCEPT ![c] = CreateRefusal(plan, suspense, d)]
  BY DEF ToPost, Set, Goto, Settle
<1>2. ASSUME legs >= 2, legs \in Nat, SumFunction(d) = 0
      PROVE  CreateRefusal(plan, suspense, d) = "ok"
  <2>1. ~(legs < 2)
    BY <1>2
  <2> QED BY <1>2, <2>1 DEF CreateRefusal
<1>3. Cardinality(DOMAIN plan) \in Nat /\ Cardinality(suspense) \in Nat => legs \in Nat
  OBVIOUS
<1> HIDE DEF d
<1> QED BY <1>1, <1>2, <1>3 DEF Shape, d

\* The plan of a run that is left alone is what the balances ask for, and is not refused.
LEMMA PlanGoes ==
  ASSUME CInv, Opening, BInv, IInv, Typed, ChunkSize > 1, NEW c \in Calls, Plan(c)
  PROVE  CInv'
<1> DEFINE plan == Restrict(bal, Taken(bal))
<1>1. /\ pc[c] = "plan" /\ delta[c] = <<>> /\ result[c] = "none"
      /\ UNCHANGED <<bal, txs, holder, closed, approval, starts, broken, dirty, run, of, loop, call, calls, outcome>>
  BY DEF Plan, At, IInv, Own, CInv, Wired, database, settings, tab, history
<1>2. DOMAIN pc = Calls /\ DOMAIN chunk = Calls /\ DOMAIN delta = Calls /\ DOMAIN result = Calls
  BY DEF IInv, Shape, Typed, Control
<1>3. CASE NonZero(bal) = {}
  <2>1. /\ pc' = [pc EXCEPT ![c] = "commit"] /\ result' = [result EXCEPT ![c] = "zero"]
        /\ chunk' = chunk /\ delta' = delta
    BY <1>3 DEF Plan, Settle, Goto, Set
  <2>2. \A a \in DOMAIN bal : bal[a] \in Int
    BY DEF BInv, Books, IInv, Shape
  <2>3. NonZero(After(bal, <<>>)) = {}
    BY <1>3, <2>2, NothingPosted
  <2>4. pc'[c] = "commit" /\ result'[c] = "zero" /\ delta'[c] = <<>>
    BY <1>1, <1>2, <2>1
  <2>5. ~HasPosted(c)' /\ ~ToBePosted(c)' /\ ~Owed(c)'
    BY <2>4 DEF HasPosted, ToBePosted, Owed
  <2>6. CallOk(c)'
    BY <1>1, <2>3, <2>4, <2>5 DEF CallOk
  <2> QED BY <1>1, <1>2, <2>1, <2>4, <2>5, <2>6, CallGoesOn
<1>4. CASE NonZero(bal) # {} /\ NeedsSuspense(bal, plan)
  <2>1. /\ pc' = [pc EXCEPT ![c] = "suspense"] /\ chunk' = [chunk EXCEPT ![c] = plan]
        /\ delta' = delta /\ result' = result
    BY <1>4 DEF Plan, Goto, Set
  <2> HIDE DEF plan
  <2>2. pc'[c] = "suspense" /\ chunk'[c] = plan /\ delta'[c] = <<>> /\ result'[c] = "none"
    BY <1>1, <1>2, <2>1
  <2>3. Balancing(bal, plan) = {Name(CurrencyIn(plan))}
    BY <1>4 DEF Balancing
  <2>4. Intended(c)' = ChunkDelta(plan, Balancing(bal, plan))
    BY <1>1, <2>2, <2>3 DEF Intended, Planned, Name
  <2>5. Fresh(c)'
    BY <1>1, <1>4, <2>2, <2>4 DEF Fresh, plan, Balancing, Name
  <2>6. ~HasPosted(c)' /\ ~Owed(c)' /\ CallOk(c)'
    BY <2>2, <2>5 DEF HasPosted, At, Owed, CallOk
  <2> QED BY <1>1, <1>2, <2>1, <2>2, <2>6, CallGoesOn
<1>5. CASE NonZero(bal) # {} /\ ~NeedsSuspense(bal, plan)
  <2>1. ToPost(c, plan, {}) /\ chunk' = [chunk EXCEPT ![c] = plan]
    BY <1>5 DEF Plan, Set
  <2> DEFINE d == ChunkDelta(plan, {})
  <2>2. Clean(run[c]) => Cardinality(DOMAIN plan) >= 2 /\ SumFunction(d) = 0
    <3> SUFFICES ASSUME Clean(run[c]) PROVE Cardinality(DOMAIN plan) >= 2 /\ SumFunction(d) = 0
      OBVIOUS
    <3>1. Balancing(bal, plan) = {}
      BY <1>5 DEF Balancing
    <3>2. Books /\ broken = 0 /\ Clearable
      BY DEF BInv, Clean, CInv, Fit
    <3> QED BY <1>5, <3>1, <3>2, ChunkClears
  <2>3. Cardinality(DOMAIN plan) \in Nat
    BY <1>5, PlanTakes DEF BInv
  <2> HIDE DEF plan, d
  <2>4. /\ \A q \in Calls \ {c} : pc'[q] = pc[q] /\ delta'[q] = delta[q] /\ result'[q] = result[q]
        /\ \/ pc'[c] = "post" /\ result'[c] = "none" /\ delta'[c] = d
           \/ pc'[c] = "commit" /\ delta'[c] = <<>>
        /\ Clean(run[c]) => pc'[c] = "post"
    <3> DEFINE legs == Cardinality(DOMAIN plan) + Cardinality({})
    <3>1. /\ \A q \in Calls \ {c} : pc'[q] = pc[q] /\ delta'[q] = delta[q] /\ result'[q] = result[q]
          /\ \/ pc'[c] = "post" /\ result'[c] = "none" /\ delta'[c] = d
             \/ pc'[c] = "commit" /\ delta'[c] = delta[c]
          /\ (/\ legs >= 2 /\ Cardinality(DOMAIN plan) \in Nat /\ Cardinality({}) \in Nat
              /\ SumFunction(d) = 0) => pc'[c] = "post"
      BY <1>1, <1>2, <2>1, ToPostGoes DEF IInv, d
    <3>2. legs = Cardinality(DOMAIN plan) /\ Cardinality({}) \in Nat
      BY <2>3, FS_EmptySet
    <3> QED BY <1>1, <2>2, <2>3, <3>1, <3>2
  <2>5. ~HasPosted(c)'
    BY <2>4 DEF HasPosted, At
  <2>6. ASSUME Clean(run[c]) PROVE CallOk(c)' /\ (Owed(c)' => Owed(c))
    <3>1. pc'[c] = "post" /\ result'[c] = "none" /\ delta'[c] = d /\ chunk'[c] = plan
      BY <1>2, <2>1, <2>4, <2>6
    <3>2. Balancing(bal, plan) = {} /\ Balancing(bal, plan)' = {}
      BY <1>1, <1>5 DEF Balancing, plan
    <3>3. Fresh(c)'
      BY <1>1, <1>5, <3>1, <3>2 DEF Fresh, Intended, Planned, plan, d
    <3> QED BY <2>5, <3>1, <3>3 DEF CallOk, Owed
  <2>7. pc'[c] # "none" /\ (result'[c] # "none" => pc'[c] = "commit")
        /\ \A q \in Calls \ {c} : chunk'[q] = chunk[q]
    BY <1>2, <2>1, <2>4
  <2> QED BY <1>1, <2>4, <2>5, <2>6, <2>7, CallGoesOn
<1> QED BY <1>3, <1>4, <1>5

\* The suspense account changes nothing of the plan.
LEMMA SuspenseGoes ==
  ASSUME CInv, Opening, BInv, IInv, Typed, NEW c \in Calls, FindSuspense(c) \/ OpenSuspense(c)
  PROVE  CInv'
<1>1. /\ pc[c] \in {"suspense", "open"} /\ delta[c] = <<>> /\ result[c] = "none"
      /\ UNCHANGED <<bal, txs, holder, closed, approval, starts, broken, dirty, run, chunk, of, loop, call, calls, outcome>>
  BY DEF FindSuspense, OpenSuspense, At, IInv, Own, CInv, Wired, database, settings, tab, history
<1>2. DOMAIN pc = Calls /\ DOMAIN chunk = Calls /\ DOMAIN delta = Calls /\ DOMAIN result = Calls
  BY DEF IInv, Shape, Typed, Control
<1>3. ASSUME ToPost(c, chunk[c], {Name(CurrencyIn(chunk[c]))}),
             Clean(run[c]) => Name(CurrencyIn(chunk[c])) \in Accounts
      PROVE  CInv'
  <2> DEFINE name == Name(CurrencyIn(chunk[c]))
             d == ChunkDelta(chunk[c], {name})
  <2>1. PICK plan, suspense : plan = chunk[c] /\ suspense = {name}
    OBVIOUS
  <2>2. WholePlan(plan) /\ ToPost(c, plan, suspense)
    BY <1>1, <1>3, <2>1 DEF BInv, Chunks, Planned, ToPost
  <2>3. /\ Cardinality(DOMAIN plan) \in Nat /\ Cardinality(suspense) \in Nat
        /\ Cardinality(DOMAIN plan) + Cardinality(suspense) >= 2
    <3>1. IsFiniteSet(DOMAIN plan) /\ Cardinality(DOMAIN plan) \in Nat
      BY <2>2, CurrencyFinite, PartFinite DEF WholePlan
    <3>2. Cardinality(DOMAIN plan) # 0
      BY <2>2, <3>1, FS_EmptySet DEF WholePlan
    <3>3. Cardinality(suspense) = 1
      BY <2>1, FS_Singleton
    <3> QED BY <3>1, <3>2, <3>3
  <2> HIDE DEF name
  <2>4. ASSUME Clean(run[c]) PROVE SumFunction(ChunkDelta(plan, suspense)) = 0
    <3>1. suspense \in SUBSET Accounts /\ (\A a, b \in suspense : a = b) /\ suspense # {}
      BY <1>3, <2>1, <2>4 DEF name
    <3> QED BY <2>2, <3>1, ChunkIs
  <2>5. /\ \A q \in Calls \ {c} : pc'[q] = pc[q] /\ delta'[q] = delta[q] /\ result'[q] = result[q]
        /\ \/ pc'[c] = "post" /\ result'[c] = "none" /\ delta'[c] = d
           \/ pc'[c] = "commit" /\ delta'[c] = <<>>
        /\ Clean(run[c]) => pc'[c] = "post"
    <3>1. /\ \A q \in Calls \ {c} : pc'[q] = pc[q] /\ delta'[q] = delta[q] /\ result'[q] = result[q]
          /\ \/ pc'[c] = "post" /\ result'[c] = "none" /\ delta'[c] = ChunkDelta(plan, suspense)
             \/ pc'[c] = "commit" /\ delta'[c] = delta[c]
          /\ (/\ Cardinality(DOMAIN plan) + Cardinality(suspense) >= 2
              /\ Cardinality(DOMAIN plan) \in Nat /\ Cardinality(suspense) \in Nat
              /\ SumFunction(ChunkDelta(plan, suspense)) = 0) => pc'[c] = "post"
      BY <1>1, <1>2, <2>2, ToPostGoes DEF IInv
    <3> QED BY <1>1, <2>1, <2>3, <2>4, <3>1
  <2>6. ~HasPosted(c)' /\ (result'[c] # "none" => pc'[c] = "commit") /\ pc'[c] # "none"
    BY <1>1, <2>5 DEF HasPosted, At
  <2>7. ASSUME Clean(run[c]) PROVE CallOk(c)' /\ (Owed(c)' => Owed(c))
    <3>1. pc'[c] = "post" /\ result'[c] = "none" /\ delta'[c] = d
      BY <2>5, <2>7
    <3>2. ToBePosted(c)' /\ ToBePosted(c)
      BY <1>1, <3>1 DEF ToBePosted
    <3>3. Intended(c)' = Intended(c) /\ Key(c)' = Key(c)
      BY <1>1, <3>1 DEF Intended, Planned, Key, name
    <3>4. (Fresh(c)' <=> Fresh(c)) /\ (Spent(c)' <=> Spent(c))
      BY <1>1, <3>3, LedgerSame DEF Fresh, Spent, Balancing
    <3> QED BY <1>1, <2>6, <2>7, <3>1, <3>2, <3>4 DEF CInv, Good, CallOk, Owed
  <2> QED BY <1>1, <2>5, <2>6, <2>7, CallGoesOn
<1>4. ASSUME pc' = [pc EXCEPT ![c] = "open"], delta' = delta, result' = result PROVE CInv'
  <2>1. pc'[c] = "open"
    BY <1>2, <1>4
  <2>2. ~HasPosted(c)' /\ ToBePosted(c)' /\ ToBePosted(c)
    BY <1>1, <2>1 DEF HasPosted, At, ToBePosted
  <2>3. Intended(c)' = Intended(c) /\ Key(c)' = Key(c)
    BY <1>1, <2>1, LedgerSame DEF Intended, Planned, Key
  <2>4. (Fresh(c)' <=> Fresh(c)) /\ (Spent(c)' <=> Spent(c))
    BY <1>1, <2>3, LedgerSame DEF Fresh, Spent, Balancing
  <2>5. Clean(run[c]) => CallOk(c)' /\ (Owed(c)' => Owed(c))
    BY <1>1, <1>4, <2>1, <2>2, <2>4 DEF CInv, Good, CallOk, Owed
  <2> QED BY <1>1, <1>2, <1>4, <2>1, <2>2, <2>5, CallGoesOn
<1>5. ASSUME pc' = [pc EXCEPT ![c] = "commit"], delta' = delta,
             result' = [result EXCEPT ![c] = "transaction_aborted"]
      PROVE  CInv'
  <2>1. pc'[c] = "commit" /\ result'[c] = "transaction_aborted" /\ delta'[c] = <<>>
    BY <1>1, <1>2, <1>5
  <2>2. ~HasPosted(c)' /\ ~ToBePosted(c)'
    BY <2>1 DEF HasPosted, ToBePosted
  <2>3. CallOk(c)' /\ ~Owed(c)'
    BY <2>1, <2>2 DEF CallOk, Owed
  <2> QED BY <1>1, <1>2, <1>5, <2>1, <2>2, <2>3, CallGoesOn
<1>6. ASSUME \/ HolderOf(c) # None /\ ToPost(c, chunk[c], {HolderOf(c)})
             \/ HolderOf(c) = None /\ ToPost(c, chunk[c], {SuspenseOf(c)})
      PROVE  CInv'
  <2>1. PICK k : k = CurrencyIn(chunk[c])
    OBVIOUS
  <2>2. k \in Currencies
    BY <1>1, <2>1, PlanNames DEF IInv, Own
  <2>3. ToPost(c, chunk[c], {Name(CurrencyIn(chunk[c]))})
    BY <1>6, <2>1, <2>2 DEF ToPost, HolderOf, SuspenseOf, Name
  <2>4. Clean(run[c]) => Name(CurrencyIn(chunk[c])) \in Accounts
    BY <2>1, <2>2, NamesFit DEF CInv, Fit, Clean, InCurrency
  <2> QED BY <1>3, <2>3, <2>4
<1> QED BY <1>4, <1>5, <1>6 DEF FindSuspense, OpenSuspense, Settle, Goto, Set

\* A chunk that the balances ask for has not been posted: its accounts hold balances.
LEMMA FreshIsUnspent ==
  ASSUME CInv, BInv, IInv, NEW c \in Calls, Clean(run[c]), Fresh(c)
  PROVE  \A x \in txs : x.key # Key(c)
<1> SUFFICES ASSUME NEW x \in txs, x.key = Key(c) PROVE FALSE
  OBVIOUS
<1>1. x.key[1] = run[c] /\ x.key[2] = chunk[c]
  BY DEF Key
<1>2. PICK a \in DOMAIN chunk[c] : bal[a] = 0
  BY <1>1 DEF CInv, Gone
<1>3. bal[a] # 0
  BY <1>2, PlanTakes DEF Fresh, BInv
<1> QED BY <1>2, <1>3

\* A chunk that was posted already is posted under the same key with the same legs.
LEMMA ReplayGoes ==
  ASSUME CInv, BInv, IInv, Typed, NEW c \in Calls, ReplayChunk(c)
  PROVE  CInv'
<1>1. /\ pc[c] = "post" /\ result[c] = "none"
      /\ UNCHANGED <<bal, txs, holder, closed, approval, starts, broken, dirty, run, chunk, of, loop, call, calls, outcome>>
      /\ \E x \in txs : x.key = Key(c)
  BY DEF ReplayChunk, At, CInv, Wired, database, settings, tab, history
<1>2. DOMAIN pc = Calls /\ DOMAIN delta = Calls /\ DOMAIN result = Calls
  BY DEF IInv, Shape, Typed, Control
<1>3. delta' = [delta EXCEPT ![c] = <<>>]
  BY DEF ReplayChunk, Set
<1>4. \/ pc' = [pc EXCEPT ![c] = "count"] /\ result' = result
      \/ /\ ~ \E x \in txs : x.key = Key(c) /\ x.delta = delta[c]
         /\ pc' = [pc EXCEPT ![c] = "commit"]
         /\ result' = [result EXCEPT ![c] = "idempotency_conflict"]
  BY DEF ReplayChunk, Set, Settle, Goto
<1>5. delta'[c] = <<>> /\ pc'[c] \in {"count", "commit"} /\ (result'[c] # "none" => pc'[c] = "commit")
      /\ \A q \in Calls \ {c} : pc'[q] = pc[q] /\ delta'[q] = delta[q] /\ result'[q] = result[q]
  BY <1>1, <1>2, <1>3, <1>4
<1>6. ~HasPosted(c)' /\ ~ToBePosted(c)'
  BY <1>5 DEF HasPosted, ToBePosted
<1>7. ASSUME Clean(run[c]) PROVE CallOk(c)' /\ Owed(c)
  <2>1. ~Fresh(c)
    BY <1>1, <1>7, FreshIsUnspent
  <2>2. Spent(c) /\ Owed(c)
    BY <1>1, <1>7, <2>1 DEF CInv, Good, CallOk, ToBePosted, Owed
  <2>3. \E x \in txs : x.key = Key(c) /\ x.delta = delta[c]
    BY <1>1, <2>2 DEF Spent, Intended, Planned
  <2>4. result'[c] = "none"
    BY <1>1, <1>4, <2>3
  <2> QED BY <1>6, <2>2, <2>4 DEF CallOk
<1> QED BY <1>1, <1>5, <1>6, <1>7, CallGoesOn

\* The chunk that the balances ask for is not refused: it takes whole balances, so the
\* funds are there, and what its suspense account gets can be stored.
LEMMA NotRefused ==
  ASSUME CInv, Opening, BInv, IInv, ChunkSize > 1, NEW c \in Calls, Clean(run[c]), Fresh(c),
         ~Planned(c)
  PROVE  Refusal(c) = "ok" /\ delta[c] # <<>>
<1>1. Books /\ broken = 0 /\ Clearable /\ NonZero(bal) # {}
  BY DEF BInv, Clean, CInv, Fit, Fresh
<1>2. PICK plan, d, g, k : /\ plan = chunk[c] /\ d = delta[c] /\ g = After(bal, d)
                           /\ k = CurrencyIn(plan)
  OBVIOUS
<1>3. plan = Restrict(bal, Taken(bal)) /\ d = ChunkDelta(plan, Balancing(bal, plan))
  BY <1>2 DEF Fresh, Intended
<1>4. /\ DOMAIN d # {} /\ \A a \in DOMAIN d : a \in InCurrency(k)
      /\ \A a \in DOMAIN plan \ {Name(k)} : bal[a] + d[a] = 0
      /\ DOMAIN d \subseteq DOMAIN plan \cup {Name(k)}
      /\ k \in Currencies
  BY <1>1, <1>2, <1>3, ChunkClears, PlanIs
<1>5. /\ DOMAIN d \cap closed = {} /\ SumFunction(plan) \in -Limit..Limit
      /\ \A a \in DOMAIN d : bal[a] + d[a] \in -Limit..Limit
  BY <1>1, <1>2, <1>3, ChunkStorable
<1>6. Name(k) \notin Normal
  BY <1>1, <1>4, NamesFit
<1>7. \A a \in DOMAIN d : Problem(c, a) = "ok"
  BY <1>2, <1>4, <1>5, <1>6 DEF Problem, InCurrency
<1>8. Refusal(c) = "ok"
  BY <1>2, <1>5, <1>7 DEF Refusal
<1> QED BY <1>2, <1>4, <1>8, NothingIsEven

LEMMA PostGoes ==
  ASSUME CInv, Opening, BInv, IInv, Typed, ChunkSize > 1, NEW c \in Calls, PostChunk(c)
  PROVE  CInv'
<1>1. /\ pc[c] = "post" /\ result[c] = "none"
      /\ UNCHANGED <<bal, txs, holder, closed, approval, starts, broken, dirty, run, chunk, of, loop, call, calls, outcome>>
      /\ \A x \in txs : x.key # Key(c)
      /\ \A q \in Calls \ {c} : HasPosted(q) => Key(q) # Key(c)
  BY DEF PostChunk, At, CInv, Wired, database, settings, tab, history, Others
<1>2. DOMAIN pc = Calls /\ DOMAIN delta = Calls /\ DOMAIN result = Calls
  BY DEF IInv, Shape, Typed, Control
<1>3. \/ /\ Refusal(c) = "ok"
         /\ pc' = [pc EXCEPT ![c] = "count"] /\ delta' = delta /\ result' = result
      \/ /\ Refusal(c) # "ok"
         /\ pc' = [pc EXCEPT ![c] = "commit"] /\ delta' = [delta EXCEPT ![c] = <<>>]
         /\ result' = [result EXCEPT ![c] = Refusal(c)]
  BY DEF PostChunk, Set, Settle, Goto
<1>4. /\ pc'[c] \in {"count", "commit"} /\ (result'[c] # "none" => pc'[c] = "commit")
      /\ \A q \in Calls \ {c} : pc'[q] = pc[q] /\ delta'[q] = delta[q] /\ result'[q] = result[q]
  BY <1>1, <1>2, <1>3
<1>5. Key(c)' = Key(c)
  BY <1>1 DEF Key
<1>6. ASSUME Clean(run[c]) PROVE CallOk(c)' /\ ~Owed(c)'
  <2>1. Fresh(c)
    BY <1>1, <1>6 DEF CInv, Good, CallOk, ToBePosted, Spent
  <2>2. Refusal(c) = "ok" /\ delta[c] # <<>>
    BY <1>1, <1>6, <2>1, NotRefused DEF Planned
  <2>3. pc'[c] = "count" /\ delta'[c] = delta[c] /\ result'[c] = "none"
    BY <1>1, <1>2, <1>3, <2>2
  <2>4. Intended(c)' = Intended(c)
    BY <1>1, <2>3 DEF Intended, Planned
  <2>5. Fresh(c)'
    BY <1>1, <2>1, <2>4, LedgerSame DEF Fresh, Balancing
  <2> QED BY <2>2, <2>3, <2>5 DEF CallOk, ToBePosted, Owed
<1> QED BY <1>1, <1>4, <1>5, <1>6, CallGoesOn

LEMMA CountGoes ==
  ASSUME CInv, BInv, IInv, Typed, NEW c \in Calls, Count(c)
  PROVE  CInv'
<1>1. /\ pc[c] = "count"
      /\ UNCHANGED <<bal, txs, holder, closed, approval, starts, broken, dirty, run, chunk, delta, of, loop, call, calls, outcome>>
      /\ pc' = [pc EXCEPT ![c] = "commit"]
      /\ result' = [result EXCEPT ![c] =
                      IF NonZero(After(bal, delta[c])) = {} THEN "zero" ELSE "remaining"]
  BY DEF Count, At, Settle, Goto, Set, database, settings, tab, history
<1>2. DOMAIN pc = Calls /\ DOMAIN delta = Calls /\ DOMAIN result = Calls
  BY DEF IInv, Shape, Typed, Control
<1>3. /\ pc'[c] = "commit" /\ result'[c] \in {"zero", "remaining"}
      /\ result'[c] = "zero" => NonZero(After(bal, delta[c])) = {}
      /\ \A q \in Calls \ {c} : pc'[q] = pc[q] /\ result'[q] = result[q]
  BY <1>1, <1>2
<1>4. /\ HasPosted(c)' <=> HasPosted(c)
      /\ Key(c)' = Key(c) /\ Intended(c)' = Intended(c) /\ ~ToBePosted(c)'
  BY <1>1, <1>3 DEF HasPosted, At, Key, Intended, Planned, ToBePosted
<1>5. Fresh(c)' <=> Fresh(c)
  BY <1>1, <1>4, LedgerSame DEF Fresh, Balancing
<1>6. Clean(run[c]) => CallOk(c)' /\ (Owed(c)' => Owed(c))
  BY <1>1, <1>3, <1>4, <1>5 DEF CInv, Good, CallOk, Owed
<1>7. HasPosted(c) => \A q \in Calls \ {c} : HasPosted(q) => Key(q) # Key(c)
  BY DEF CInv, Wired
<1> QED BY <1>1, <1>3, <1>4, <1>6, <1>7, CallGoesOn

LEMMA PaidIs ==
  ASSUME ChunkSize > 1, NEW f, DOMAIN f = Accounts, NEW names, NEW n \in Nat
  PROVE  /\ Paid(f, names, 0)
         /\ Paid(f, names, n + 1) => Paid(f, names, n)
         /\ EnoughCalls => ~Paid(f, names, MaxCalls)
<1> DEFINE m == ChunkSize - 1
<1>1. m \in Nat /\ MaxCalls \in Nat
  BY ResetAssumption
<1>2. ToDo(f, names) \in Nat /\ Most \in Nat /\ ToDo(f, names) <= Most
  BY ToDoIs
<1>3. m * 0 = 0 /\ m * n \in Nat /\ m * (n + 1) = m * n + m
  <2> HIDE DEF m
  <2> QED BY <1>1, Products
<1>4. EnoughCalls => Most < m * MaxCalls
  BY DEF EnoughCalls
<1>5. m * MaxCalls \in Nat
  <2> HIDE DEF m
  <2> QED BY <1>1, Products
<1>6. \A k : Paid(f, names, k) <=> ToDo(f, names) + m * k <= Most
  BY DEF Paid
<1> HIDE DEF m
<1> QED BY <1>1, <1>2, <1>3, <1>4, <1>5, <1>6

\* A posting pays for one more.
LEMMA PaidMore ==
  ASSUME ChunkSize > 1, NEW f, DOMAIN f = Accounts, NEW g, DOMAIN g = Accounts, NEW names,
         ToDo(g, names) + (ChunkSize - 1) <= ToDo(f, names), NEW n \in Nat, Paid(f, names, n)
  PROVE  Paid(g, names, n + 1)
<1> DEFINE m == ChunkSize - 1
<1>1. m \in Nat
  BY ResetAssumption
<1>2. ToDo(f, names) \in Nat /\ ToDo(g, names) \in Nat /\ Most \in Nat
  BY ToDoIs
<1>3. m * n \in Nat /\ m * (n + 1) = m * n + m
  <2> HIDE DEF m
  <2> QED BY <1>1, Products
<1>4. /\ ToDo(f, names) + m * n <= Most /\ ToDo(g, names) + m <= ToDo(f, names)
      /\ Paid(g, names, n + 1) <=> ToDo(g, names) + m * (n + 1) <= Most
  BY DEF Paid
<1> HIDE DEF m
<1> QED BY <1>1, <1>2, <1>3, <1>4

\* What the loop makes of its answer: it goes on, or it is told.
Goes(t) ==
  /\ loop'[t] = "send" /\ calls'[t] = calls[t] + 1 /\ outcome'[t] = outcome[t]

Told(t, what) ==
  /\ loop'[t] = "idle" /\ calls'[t] = 0
  /\ \/ what = "zero" /\ outcome'[t] = "complete"
     \/ what = "remaining" /\ calls[t] + 1 = MaxCalls
     \/ what \notin {"zero", "remaining"} /\ outcome'[t] = what

LEMMA AnswerIs ==
  ASSUME Typed, NEW t \in Tabs, NEW what, Receive(t, what)
  PROVE  /\ call'[t] = None /\ ((what = "remaining" /\ Goes(t)) \/ Told(t, what))
         /\ \A u \in Tabs \ {t} : /\ loop'[u] = loop[u] /\ call'[u] = call[u]
                                  /\ calls'[u] = calls[u] /\ outcome'[u] = outcome[u]
<1>1. DOMAIN loop = Tabs /\ DOMAIN call = Tabs /\ DOMAIN calls = Tabs /\ DOMAIN outcome = Tabs
  BY DEF Typed, TypeOK, Control
<1>2. calls[t] \in Nat /\ calls[t] + 1 <= MaxCalls /\ MaxCalls \in Nat
  BY ResetAssumption DEF Typed, Control
<1>3. \/ what = "zero" /\ Finish(t, "complete")
      \/ what = "remaining" /\ GoOn(t)
      \/ what = "remaining" /\ calls[t] + 1 = MaxCalls /\ Finish(t, "out_of_calls")
      \/ what \notin {"zero", "remaining"} /\ Finish(t, what)
  <2>1. CASE what = "zero"
    BY <2>1 DEF Receive
  <2>2. CASE what = "remaining"
    BY <1>2, <2>2 DEF Receive
  <2>3. CASE what \notin {"zero", "remaining"}
    BY <2>3 DEF Receive
  <2> QED BY <2>1, <2>2, <2>3
<1> QED BY <1>1, <1>3 DEF Goes, Told, Finish, GoOn, Set

\* COMMIT tells the tab that waits for this call, and no other.
LEMMA CommitTells ==
  ASSUME CInv, Typed, NEW c \in Calls, Commit(c), NEW t \in Tabs
  PROVE  \/ /\ call[t] # c
            /\ loop'[t] = loop[t] /\ call'[t] = call[t] /\ calls'[t] = calls[t] /\ outcome'[t] = outcome[t]
         \/ /\ call[t] = c /\ call'[t] = None
            /\ (result[c] = "remaining" /\ Goes(t)) \/ Told(t, result[c])
<1>1. CASE \E u \in Tabs : call[u] = c
  <2>1. PICK u \in Tabs : call[u] = c /\ Receive(u, result[c])
    BY <1>1 DEF Commit
  <2>2. PICK what : what = result[c]
    OBVIOUS
  <2>3. Receive(u, what)
    BY <2>1, <2>2
  <2>4. t # u => call[t] # c
    BY <2>1 DEF CInv, Wired
  <2> QED BY <2>1, <2>2, <2>3, <2>4, AnswerIs
<1>2. CASE ~ \E u \in Tabs : call[u] = c
  BY <1>2 DEF Commit
<1> QED BY <1>1, <1>2

LEMMA CommitWired ==
  ASSUME CInv, IInv, Typed, NEW c \in Calls, Commit(c)
  PROVE  /\ Wired'
         /\ pc'[c] = "none" /\ of' = of /\ UNCHANGED <<starts, broken>>
         /\ \A q \in Calls \ {c} :
              /\ pc'[q] = pc[q] /\ run'[q] = run[q]
              /\ chunk'[q] = chunk[q] /\ delta'[q] = delta[q] /\ result'[q] = result[q]
<1>1. UNCHANGED <<of, starts, broken>> /\ Forget(c)
  BY DEF Commit
<1>2. /\ pc'[c] = "none" /\ delta'[c] = <<>> /\ result'[c] = "none"
      /\ \A q \in Calls \ {c} :
           pc'[q] = pc[q] /\ chunk'[q] = chunk[q] /\ delta'[q] = delta[q] /\ result'[q] = result[q]
  BY <1>1, ForgetIs
<1>3. \A q \in Calls \ {c} : run'[q] = run[q]
  BY <1>1 DEF Forget, Set, Typed, Control
<1>4. dirty' \subseteq 1..starts
  BY DEF Commit, Disturb, CInv, Wired
<1>5. \A q \in Calls : result'[q] # "none" => pc'[q] = "commit"
  BY <1>2 DEF CInv, Wired
<1>6. \A p, q \in Calls : p # q /\ HasPosted(p)' /\ HasPosted(q)' => Key(p)' # Key(q)'
  <2>1. ~HasPosted(c)'
    BY <1>2 DEF HasPosted
  <2>2. \A q \in Calls \ {c} : (HasPosted(q)' <=> HasPosted(q)) /\ Key(q)' = Key(q)
    BY <1>2, <1>3 DEF HasPosted, At, Key
  <2> QED BY <2>1, <2>2 DEF CInv, Wired
<1>7. ASSUME NEW t \in Tabs
      PROVE  /\ loop'[t] = "idle" => calls'[t] = 0
             /\ call'[t] \in Calls => /\ call'[t] = call[t] /\ call[t] # c /\ loop'[t] = loop[t]
  BY CommitTells, ResetAssumption DEF Goes, Told, CInv, Wired
<1>8. ASSUME NEW t \in Tabs
      PROVE  /\ of'[t] # None => of'[t] \in 1..starts
             /\ call'[t] \in Calls =>
                  loop'[t] = "wait" /\ pc'[call'[t]] # "none" /\ run'[call'[t]] = of'[t]
             /\ \A u \in Tabs : call'[t] \in Calls /\ call'[u] = call'[t] => u = t
  BY <1>1, <1>2, <1>3, <1>7 DEF CInv, Wired
<1>9. Wired'
  BY <1>1, <1>4, <1>5, <1>6, <1>7, <1>8 DEF Wired
<1> QED BY <1>1, <1>2, <1>3, <1>9

\* The suspense account that a call opened had the name already.
LEMMA OpenedFits ==
  ASSUME Clearable, Opening, Typed, NEW c \in Calls, Commit(c)
  PROVE  \A k \in Currencies : holder'[k] # None => holder'[k] \in InCurrency(k) \ (Normal \cup closed')
<1> SUFFICES ASSUME NEW k \in Currencies, holder'[k] # None
             PROVE  holder'[k] \in InCurrency(k) \ (Normal \cup closed')
  OBVIOUS
<1>1. Name(k)' = Name(k) /\ closed' = closed
  BY OpenedIsNamed DEF Commit, settings
<1>2. Name(k)' = holder'[k]
  BY DEF Name
<1> QED BY <1>1, <1>2, NamesFit

\* A COMMIT that writes nothing: the answer was paid for by the posting that it missed.
LEMMA EmptyCommitGoes ==
  ASSUME CInv, Opening, BInv, IInv, Typed, EnoughCalls, NEW c \in Calls, Commit(c), delta[c] = <<>>
  PROVE  CInv'
<1>1. UNCHANGED <<bal, txs, dirty>> /\ pc[c] = "commit"
  BY DEF Commit, At
<1>2. /\ Wired' /\ pc'[c] = "none" /\ of' = of /\ UNCHANGED <<starts, broken>>
      /\ \A q \in Calls \ {c} :
           /\ pc'[q] = pc[q] /\ run'[q] = run[q]
           /\ chunk'[q] = chunk[q] /\ delta'[q] = delta[q] /\ result'[q] = result[q]
  BY CommitWired
<1>3. \A k : Clean(k)' <=> Clean(k)
  BY <1>1, <1>2 DEF Clean
<1>4. (\A k : Name(k)' = Name(k)) /\ Names' = Names
  BY OpenedIsNamed DEF Names
<1>5. \A q \in Calls \ {c} : (Owed(q)' <=> Owed(q)) /\ (CallOk(q)' <=> CallOk(q))
  BY <1>1, <1>2, <1>4, CallSame
<1>6. Gone'
  BY <1>1, <1>3, <1>4 DEF CInv, Gone
<1>7. Good'
  BY <1>2, <1>3, <1>5 DEF CInv, Good
<1>8. ChunkSize > 1 /\ DOMAIN bal = Accounts /\ \A a \in DOMAIN bal : bal[a] \in Int
  BY DEF EnoughCalls, IInv, Shape, BInv, Books
<1>9. ASSUME NEW t \in Tabs, Undisturbed(t)
      PROVE  /\ Paid(bal, Names, calls'[t]) /\ (call'[t] \in Calls /\ Owed(call[t])' => Paid(bal, Names, calls'[t] + 1))
             /\ call'[t] \in Calls => call'[t] = call[t]
             /\ outcome'[t] \in {"none", "complete", "lost", "transaction_aborted"}
             /\ outcome'[t] = "complete" => NonZero(bal) = {}
  <2>1. /\ Paid(bal, Names, calls[t]) /\ (call[t] \in Calls /\ Owed(call[t]) => Paid(bal, Names, calls[t] + 1))
        /\ outcome[t] \in {"none", "complete", "lost", "transaction_aborted"}
        /\ outcome[t] = "complete" => NonZero(bal) = {}
    BY <1>9 DEF CInv, Credit, Ends
  <2>2. CASE /\ call[t] # c
             /\ loop'[t] = loop[t] /\ call'[t] = call[t] /\ calls'[t] = calls[t] /\ outcome'[t] = outcome[t]
    BY <1>5, <2>1, <2>2
  <2>3. CASE /\ call[t] = c /\ call'[t] = None
             /\ (result[c] = "remaining" /\ Goes(t)) \/ Told(t, result[c])
    <3>1. Clean(run[c]) /\ CallOk(c)
      BY <1>1, <1>9, <2>3 DEF CInv, Wired, Good, Undisturbed
    <3>2. call'[t] \notin Calls
      BY <2>3, ResetAssumption
    <3>3. result[c] = "remaining" => Paid(bal, Names, calls[t] + 1)
      BY <1>1, <2>1, <2>3 DEF Owed
    <3>4. Paid(bal, Names, 0) /\ ~Paid(bal, Names, MaxCalls)
      BY <1>8, PaidIs
    <3>5. result[c] = "zero" => NonZero(bal) = {}
      BY <1>8, <3>1, NothingPosted DEF CallOk
    <3>6. CASE result[c] = "remaining" /\ Goes(t)
      BY <2>1, <3>2, <3>3, <3>6 DEF Goes
    <3>7. CASE Told(t, result[c])
      BY <3>1, <3>2, <3>3, <3>4, <3>5, <3>7 DEF Told, CallOk
    <3> QED BY <2>3, <3>6, <3>7
  <2> QED BY <2>2, <2>3, CommitTells
<1>10. Credit' /\ Ends'
  BY <1>1, <1>2, <1>3, <1>9, <1>4 DEF Credit, Ends, Undisturbed
<1>11. Fit'
  <2> SUFFICES ASSUME Clearable PROVE Clearable'
    BY <1>2, <1>3 DEF CInv, Fit
  <2> QED BY <1>1, OpenedFits DEF Clearable, Commit, settings
<1> QED BY <1>2, <1>6, <1>7, <1>10, <1>11 DEF CInv

\* A COMMIT that writes: what other runs read is out of date, and the calls of its own
\* run find the key spent.
LEMMA FullCommitGoes ==
  ASSUME CInv, Opening, BInv, IInv, Typed, EnoughCalls, NEW c \in Calls, Commit(c), delta[c] # <<>>
  PROVE  CInv'
<1>1. /\ pc[c] = "commit" /\ bal' = After(bal, delta[c])
      /\ txs' = txs \cup {[key |-> Key(c), delta |-> delta[c]]}
      /\ dirty' = dirty \cup (1..starts \ {run[c]})
  BY DEF Commit, At, Disturb
<1>2. /\ Wired' /\ pc'[c] = "none" /\ of' = of /\ UNCHANGED <<starts, broken>>
      /\ \A q \in Calls \ {c} :
           /\ pc'[q] = pc[q] /\ run'[q] = run[q]
           /\ chunk'[q] = chunk[q] /\ delta'[q] = delta[q] /\ result'[q] = result[q]
  BY CommitWired
<1>3. \A k : Clean(k)' => k = run[c] /\ Clean(run[c])
  BY <1>1, <1>2 DEF Clean
<1>4. CASE ~Clean(run[c])
  <2>1. Fit' /\ Gone' /\ Good' /\ Credit' /\ Ends'
    BY <1>3, <1>4 DEF Fit, Gone, Good, Credit, Ends, Undisturbed
  <2> QED BY <1>2, <2>1 DEF CInv
<1>5. CASE Clean(run[c])
  <2>1. HasPosted(c) /\ CallOk(c)
    BY <1>1, <1>5 DEF HasPosted, At, CInv, Good
  <2>2. Fresh(c) /\ Intended(c) = delta[c]
    BY <1>1, <2>1 DEF CallOk, Intended, Planned
  <2>3. NonZero(bal) # {}
    BY <2>2 DEF Fresh
  <2>4. /\ DOMAIN bal' = Accounts
        /\ \A a \in Accounts \ Names : bal[a] = 0 => bal'[a] = 0
        /\ \E a \in DOMAIN chunk[c] : a \in Accounts \ Names /\ bal'[a] = 0
        /\ ToDo(bal', Names) + (ChunkSize - 1) <= ToDo(bal, Names)
        /\ DOMAIN delta[c] \cap closed = {} /\ \A j \in Currencies : Storable(bal', j)
    <3>1. PICK plan, d, g : plan = chunk[c] /\ d = delta[c] /\ g = bal'
      OBVIOUS
    <3>2. /\ plan = Restrict(bal, Taken(bal)) /\ d = ChunkDelta(plan, Balancing(bal, plan))
          /\ g = After(bal, d)
      BY <1>1, <2>2, <3>1 DEF Fresh
    <3>3. Books /\ broken = 0 /\ ChunkSize > 1 /\ Clearable
      BY <1>5 DEF BInv, Clean, EnoughCalls, CInv, Fit
    <3>4. /\ DOMAIN g = Accounts
          /\ \A a \in Accounts \ Names : bal[a] = 0 => g[a] = 0
          /\ \E a \in DOMAIN plan : a \in Accounts \ Names /\ g[a] = 0
          /\ ToDo(g, Names) + (ChunkSize - 1) <= ToDo(bal, Names)
      BY <2>3, <3>2, <3>3, ChunkCounts
    <3>5. DOMAIN d \cap closed = {} /\ \A j \in Currencies : Storable(g, j)
      BY <2>3, <3>2, <3>3, ChunkStorable
    <3> QED BY <3>1, <3>4, <3>5
  <2>5. /\ ChunkSize > 1 /\ DOMAIN bal = Accounts
        /\ (\A k : Name(k)' = Name(k)) /\ Names' = Names
    BY OpenedIsNamed DEF EnoughCalls, IInv, Shape, Names
  <2>6. Fit'
    <3> SUFFICES ASSUME Clearable PROVE Clearable'
      BY <1>5 DEF CInv, Fit, Clean
    <3>1. \A a \in closed' : bal'[a] = 0
      <4>1. closed' = closed /\ closed \subseteq Accounts /\ \A a \in closed : bal[a] = 0 /\ a \notin DOMAIN delta[c]
        BY <2>4 DEF Commit, settings, Clearable, Typed, TypeOK
      <4> QED BY <1>1, <2>5, <4>1 DEF After
    <3>2. \A k \in Currencies : \A S \in SUBSET InCurrency(k) : SumFunctionOnSet(bal', S) \in -Limit..Limit
      BY <2>4 DEF Storable
    <3> QED BY <3>1, <3>2, OpenedFits DEF Clearable, Commit, settings
  <2>7. Gone'
    <3> SUFFICES ASSUME NEW x \in txs', Clean(x.key[1])'
                 PROVE  \E a \in DOMAIN x.key[2] : a \in Accounts \ Names /\ bal'[a] = 0
      BY <2>5 DEF Gone
    <3>1. CASE x \in txs
      <4>1. Clean(x.key[1])
        BY <1>3
      <4> QED BY <2>4, <3>1, <4>1 DEF CInv, Gone
    <3>2. CASE x = [key |-> Key(c), delta |-> delta[c]]
      <4>1. x.key[2] = chunk[c]
        BY <3>2 DEF Key
      <4> QED BY <2>4, <4>1
    <3> QED BY <1>1, <3>1, <3>2
  <2>8. ASSUME NEW q \in Calls \ {c}, pc[q] # "none", run[q] = run[c] PROVE CallOk(q)'
    <3>1. CallOk(q)
      BY <1>5, <2>8 DEF CInv, Good
    <3>2. ~HasPosted(q)
      <4> SUFFICES ASSUME HasPosted(q) PROVE FALSE
        OBVIOUS
      <4>1. chunk[q] = chunk[c]
        BY <2>2, <3>1 DEF CallOk, Fresh
      <4> QED BY <2>1, <2>8, <4>1 DEF CInv, Wired, Key
    <3>3. /\ ~HasPosted(q)' /\ (ToBePosted(q)' <=> ToBePosted(q))
          /\ Intended(q)' = Intended(q) /\ Key(q)' = Key(q)
      BY <1>2, <2>5, <3>2 DEF HasPosted, At, ToBePosted, Intended, Planned, Key
    <3>4. ASSUME ToBePosted(q) PROVE Spent(q)'
      <4>1. CASE Spent(q)
        BY <1>1, <3>3, <4>1 DEF Spent
      <4>2. CASE Fresh(q)
        <5>1. chunk[q] = chunk[c] /\ Intended(q) = delta[c]
          BY <2>2, <4>2 DEF Fresh
        <5>2. PICK x : x = [key |-> Key(c), delta |-> delta[c]]
          OBVIOUS
        <5>3. x \in txs' /\ x.key = Key(q) /\ x.delta = Intended(q)
          BY <1>1, <2>8, <5>1, <5>2 DEF Key
        <5> QED BY <3>3, <5>3 DEF Spent
      <4> QED BY <3>1, <3>4, <4>1, <4>2 DEF CallOk
    <3>5. result[q] # "zero"
      <4> SUFFICES ASSUME result[q] = "zero" PROVE FALSE
        OBVIOUS
      <4>1. pc[q] = "commit" /\ delta[q] = <<>>
        BY <3>2 DEF CInv, Wired, HasPosted, At
      <4>2. NonZero(After(bal, <<>>)) = {}
        BY <3>1, <4>1 DEF CallOk
      <4>3. \A a \in DOMAIN bal : bal[a] \in Int
        BY DEF BInv, Books, IInv, Shape
      <4> QED BY <2>3, <4>2, <4>3, NothingPosted
    <3> QED BY <1>2, <3>1, <3>3, <3>4, <3>5 DEF CallOk
  <2>9. Good'
    BY <1>2, <1>3, <2>8 DEF Good
  <2>10. ASSUME NEW t \in Tabs, of[t] = run[c], of[t] # None
        PROVE  /\ Paid(bal', Names, calls'[t]) /\ (call'[t] \in Calls => Paid(bal', Names, calls'[t] + 1))
               /\ outcome'[t] \in {"none", "complete", "lost", "transaction_aborted"}
               /\ outcome'[t] = "complete" => NonZero(bal') = {}
    <3>1. /\ Paid(bal, Names, calls[t]) /\ calls[t] \in Nat
          /\ outcome[t] \in {"none", "lost", "transaction_aborted"}
      BY <1>5, <2>3, <2>10 DEF CInv, Credit, Ends, Typed, Control, Undisturbed
    <3>2. Paid(bal', Names, calls[t] + 1)
      BY <2>4, <2>5, <3>1, PaidMore
    <3>3. Paid(bal', Names, 0) /\ ~Paid(bal', Names, MaxCalls) /\ Paid(bal', Names, calls[t])
      BY <2>4, <2>5, <3>1, <3>2, PaidIs
    <3>4. CASE /\ call[t] # c
               /\ loop'[t] = loop[t] /\ call'[t] = call[t] /\ calls'[t] = calls[t] /\ outcome'[t] = outcome[t]
      BY <3>1, <3>2, <3>3, <3>4
    <3>5. CASE /\ call[t] = c /\ call'[t] = None
               /\ (result[c] = "remaining" /\ Goes(t)) \/ Told(t, result[c])
      <4>1. call'[t] \notin Calls
        BY <3>5, ResetAssumption
      <4>2. result[c] = "zero" => NonZero(bal') = {}
        BY <1>1, <2>1 DEF CallOk
      <4>3. CASE result[c] = "remaining" /\ Goes(t)
        BY <3>1, <3>2, <4>1, <4>3 DEF Goes
      <4>4. CASE Told(t, result[c])
        BY <2>1, <3>2, <3>3, <4>1, <4>2, <4>4 DEF Told, CallOk
      <4> QED BY <3>5, <4>3, <4>4
    <3> QED BY <3>4, <3>5, CommitTells
  <2>11. Credit' /\ Ends'
    BY <1>2, <1>3, <2>5, <2>10 DEF Credit, Ends, Undisturbed
  <2> QED BY <1>2, <2>7, <2>9, <2>11, <2>6 DEF CInv
<1> QED BY <1>4, <1>5

LEMMA CommitGoes ==
  ASSUME CInv, Opening, BInv, IInv, Typed, EnoughCalls, NEW c \in Calls, Commit(c)
  PROVE  CInv'
BY EmptyCommitGoes, FullCommitGoes

LEMMA CrashGoes ==
  ASSUME CInv, BInv, IInv, Typed, NEW c \in Calls, Crash(c)
  PROVE  CInv'
<1>1. /\ UNCHANGED <<bal, txs, holder, closed, approval, starts, broken, dirty, of, loop, call, calls, outcome>>
      /\ \A t \in Tabs : call[t] # c
      /\ Forget(c)
  BY DEF Crash, database, settings, tab, history
<1>2. /\ pc'[c] = "none" /\ delta'[c] = <<>> /\ result'[c] = "none"
      /\ \A q \in Calls \ {c} :
           pc'[q] = pc[q] /\ chunk'[q] = chunk[q] /\ delta'[q] = delta[q] /\ result'[q] = result[q]
  BY <1>1, ForgetIs
<1>3. \A q \in Calls \ {c} : run'[q] = run[q]
  BY <1>1 DEF Forget, Set, Typed, Control
<1>4. /\ Names' = Names /\ (Clearable' <=> Clearable)
      /\ \A q \in Calls \ {c} : /\ HasPosted(q)' <=> HasPosted(q)
                                /\ Key(q)' = Key(q)
                                /\ Owed(q)' <=> Owed(q)
                                /\ CallOk(q)' <=> CallOk(q)
  BY <1>1, <1>2, <1>3, LedgerSame, CallSame
<1>5. \A k : Clean(k)' <=> Clean(k)
  BY <1>1 DEF Clean
<1>6. ~HasPosted(c)'
  BY <1>2 DEF HasPosted
<1>7. Wired'
  <2>1. \A q \in Calls : result'[q] # "none" => pc'[q] = "commit"
    BY <1>2 DEF CInv, Wired
  <2>2. \A p, q \in Calls : p # q /\ HasPosted(p)' /\ HasPosted(q)' => Key(p)' # Key(q)'
    BY <1>4, <1>6 DEF CInv, Wired
  <2> QED BY <1>1, <1>2, <1>3, <2>1, <2>2 DEF CInv, Wired
<1>8. Fit' /\ Gone' /\ Ends'
  BY <1>1, <1>4, <1>5 DEF CInv, Fit, Gone, Ends, Undisturbed
<1>9. Good'
  BY <1>2, <1>3, <1>4, <1>5 DEF CInv, Good
<1>10. Credit'
  BY <1>1, <1>4, <1>5 DEF CInv, Credit, Undisturbed
<1> QED BY <1>7, <1>8, <1>9, <1>10 DEF CInv

\* A tab sends a call, waits, is lost, or its user presses a button: a call that starts
\* has planned nothing, and a loop that starts has nothing to pay for.
LEMMA TabGoes ==
  ASSUME CInv, IInv, Typed, ChunkSize > 1, UNCHANGED <<bal, txs, holder, closed, approval, broken>>,
         UNCHANGED <<chunk, delta, result>>, NEW t \in Tabs,
         \/ starts' = starts /\ dirty' = dirty
         \/ starts' = starts + 1 /\ dirty' = dirty /\ Clearable
         \/ starts' = starts + 1 /\ dirty' = dirty \cup {starts'},
         \A q \in Calls : \/ pc'[q] = pc[q] /\ run'[q] = run[q]
                          \/ pc[q] = "none" /\ pc'[q] = "gate" /\ call'[t] = q /\ run'[q] = of'[t],
         \A u \in Tabs \ {t} : /\ loop'[u] = loop[u] /\ call'[u] = call[u] /\ of'[u] = of[u]
                               /\ calls'[u] = calls[u] /\ outcome'[u] = outcome[u],
         of'[t] \in 1..starts' \/ of'[t] = of[t],
         loop'[t] = "idle" => calls'[t] = 0,
         calls'[t] = 0 \/ (calls'[t] = calls[t] /\ of'[t] = of[t]),
         outcome'[t] \in {"none", "lost"} \/ (outcome'[t] = outcome[t] /\ of'[t] = of[t]),
         \/ call'[t] \notin Calls
         \/ /\ call'[t] \in Calls /\ pc[call'[t]] = "none" /\ pc'[call'[t]] = "gate"
            /\ run'[call'[t]] = of'[t] /\ loop'[t] = "wait"
  PROVE  CInv'
<1>1. /\ starts \in Nat /\ starts' \in {starts, starts + 1}
      /\ \A k \in 1..starts : k \in 1..starts' /\ (k \in dirty' <=> k \in dirty)
      /\ dirty' \subseteq dirty \cup 1..starts'
  <2>1. starts \in Nat
    BY DEF Typed, Control
  <2> QED BY <2>1
<1>2. /\ \A k : Name(k)' = Name(k)
      /\ Names' = Names /\ (Clearable' <=> Clearable)
  BY LedgerSame
<1>3. \A q \in Calls : pc[q] = "none" => delta[q] = <<>> /\ result[q] = "none"
  BY DEF IInv, Own, CInv, Wired
<1>4. ASSUME NEW q \in Calls, ~(pc'[q] = pc[q] /\ run'[q] = run[q])
      PROVE  /\ ~HasPosted(q)' /\ ~HasPosted(q) /\ ~Owed(q)' /\ CallOk(q)' /\ result'[q] = "none"
  <2>1. pc'[q] = "gate" /\ delta'[q] = <<>> /\ result'[q] = "none" /\ delta[q] = <<>>
    BY <1>3, <1>4
  <2> QED BY <2>1 DEF HasPosted, Owed, CallOk, ToBePosted
<1>5. ASSUME NEW q \in Calls, pc'[q] = pc[q], run'[q] = run[q]
      PROVE  /\ HasPosted(q)' <=> HasPosted(q)
             /\ Key(q)' = Key(q)
             /\ Owed(q)' <=> Owed(q)
             /\ CallOk(q)' <=> CallOk(q)
  BY <1>5, <1>2, CallSame
<1>6. \A k \in 1..starts : Clean(k)' <=> Clean(k)
  BY <1>1 DEF Clean
<1>7. Wired'
  <2>1. dirty' \subseteq 1..starts'
    BY <1>1 DEF CInv, Wired
  <2>2. \A q \in Calls : result'[q] # "none" => pc'[q] = "commit"
    BY <1>4 DEF CInv, Wired
  <2>3. \A p, q \in Calls : p # q /\ HasPosted(p)' /\ HasPosted(q)' => Key(p)' # Key(q)'
    BY <1>4, <1>5 DEF CInv, Wired
  <2>4. ASSUME NEW u \in Tabs
        PROVE  /\ of'[u] # None => of'[u] \in 1..starts'
               /\ loop'[u] = "idle" => calls'[u] = 0
               /\ call'[u] \in Calls =>
                    loop'[u] = "wait" /\ pc'[call'[u]] # "none" /\ run'[call'[u]] = of'[u]
    <3>1. CASE u = t
      BY <1>1, <3>1 DEF CInv, Wired
    <3>2. CASE u # t
      BY <1>1, <3>2 DEF CInv, Wired
    <3> QED BY <3>1, <3>2
  <2>5. ASSUME NEW u \in Tabs, NEW w \in Tabs, call'[u] \in Calls, call'[w] = call'[u]
        PROVE  w = u
    BY <2>5 DEF CInv, Wired
  <2> QED BY <2>1, <2>2, <2>3, <2>4, <2>5 DEF Wired
<1>8. Gone'
  BY <1>6, <1>2 DEF CInv, Gone, Typed, TypeOK
<1>9. Fit'
  <2> SUFFICES ASSUME NEW k \in 1..starts', Clean(k)' PROVE Clearable
    BY <1>2 DEF Fit
  <2>1. CASE k \in 1..starts
    BY <1>6, <2>1 DEF CInv, Fit
  <2>2. CASE k \notin 1..starts
    BY <1>1, <2>2 DEF Clean
  <2> QED BY <2>1, <2>2
<1>10. Good'
  <2> SUFFICES ASSUME NEW q \in Calls, pc'[q] # "none", Clean(run[q])' PROVE CallOk(q)'
    BY DEF Good
  <2>1. CASE pc'[q] = pc[q] /\ run'[q] = run[q]
    <3>1. Clean(run[q])
      BY <1>6, <2>1 DEF Typed, Control
    <3> QED BY <1>5, <2>1, <3>1 DEF CInv, Good
  <2>2. CASE ~(pc'[q] = pc[q] /\ run'[q] = run[q])
    BY <1>4, <2>2
  <2> QED BY <2>1, <2>2
<1>11. Paid(bal, Names, 0)
  BY PaidIs DEF IInv, Shape
<1>12. ASSUME NEW u \in Tabs, Undisturbed(u)', of'[u] = of[u] PROVE Undisturbed(u)
  BY <1>6, <1>12 DEF CInv, Wired, Undisturbed
<1>13. Credit'
  <2> SUFFICES ASSUME NEW u \in Tabs, Undisturbed(u)'
               PROVE  /\ Paid(bal, Names, calls'[u])
                      /\ call'[u] \in Calls /\ Owed(call[u])' => Paid(bal, Names, calls'[u] + 1)
    BY <1>2 DEF Credit
  <2>1. CASE u = t
    <3>1. ~(call'[t] \in Calls /\ Owed(call[t])')
      BY <1>4
    <3>2. Paid(bal, Names, calls'[t])
      BY <1>11, <1>12, <2>1 DEF CInv, Credit
    <3> QED BY <2>1, <3>1, <3>2
  <2>2. CASE u # t
    <3>1. Undisturbed(u) /\ call'[u] = call[u] /\ calls'[u] = calls[u]
      BY <1>12, <2>2
    <3>2. call[u] \in Calls => pc[call[u]] # "none"
      BY DEF CInv, Wired
    <3>3. call[u] \in Calls /\ Owed(call[u])' => Owed(call[u])
      BY <1>5, <3>1, <3>2
    <3> QED BY <3>1, <3>3 DEF CInv, Credit
  <2> QED BY <2>1, <2>2
<1>14. Ends'
  <2> SUFFICES ASSUME NEW u \in Tabs, Undisturbed(u)'
               PROVE  /\ outcome'[u] \in {"none", "complete", "lost", "transaction_aborted"}
                      /\ outcome'[u] = "complete" => NonZero(bal) = {}
    BY DEF Ends
  <2>1. outcome'[u] \in {"none", "lost"} \/ (outcome'[u] = outcome[u] /\ of'[u] = of[u])
    OBVIOUS
  <2> QED BY <1>12, <2>1 DEF CInv, Ends
<1> QED BY <1>7, <1>8, <1>10, <1>13, <1>14, <1>9 DEF CInv

LEMMA LoopGoes ==
  ASSUME CInv, IInv, Typed, ChunkSize > 1, NEW t \in Tabs,
         Press(t) \/ Send(t) \/ Throttle(t) \/ LoseTab(t)
  PROVE  CInv'
<1>1. /\ DOMAIN loop = Tabs /\ DOMAIN call = Tabs /\ DOMAIN calls = Tabs
      /\ DOMAIN outcome = Tabs /\ DOMAIN of = Tabs
      /\ DOMAIN pc = Calls /\ DOMAIN run = Calls
  BY DEF Typed, TypeOK, Control
<1>2. CASE Press(t)
  <2>1. /\ UNCHANGED <<bal, txs, holder, closed, approval, broken, pc, run, chunk, delta, result, call, calls>>
        /\ starts' = starts + 1 /\ loop[t] = "idle"
        /\ dirty' = IF Clearable THEN dirty ELSE dirty \cup {starts'}
        /\ loop' = [loop EXCEPT ![t] = "send"] /\ outcome' = [outcome EXCEPT ![t] = "none"]
    BY <1>2 DEF Press, Set, database, settings, server
  <2>2. PICK key \in 1..starts' : of' = [of EXCEPT ![t] = key]
    <3>1. PICK fresh \in BOOLEAN :
            LET key == IF fresh \/ slot[t] = None THEN starts' ELSE slot[t]
            IN slot' = Set(slot, t, key) /\ of' = Set(of, t, key)
      BY <1>2 DEF Press
    <3>2. starts \in Nat /\ starts' \in 1..starts' /\ (slot[t] # None => slot[t] \in 1..starts')
      BY <2>1 DEF Typed, Control
    <3> QED BY <3>1, <3>2 DEF Set
  <2>3. calls[t] = 0 /\ call[t] \notin Calls
    BY <2>1 DEF CInv, Wired
  <2>4. of'[t] \in 1..starts' /\ \A u \in Tabs \ {t} : of'[u] = of[u]
    BY <1>1, <2>2
  <2>5. /\ loop'[t] = "send" /\ outcome'[t] = "none"
        /\ \A u \in Tabs \ {t} : loop'[u] = loop[u] /\ outcome'[u] = outcome[u]
    BY <1>1, <2>1
  <2>6. \A q \in Calls : pc'[q] = pc[q] /\ run'[q] = run[q]
    BY <2>1
  <2>7. \/ starts' = starts + 1 /\ dirty' = dirty /\ Clearable
        \/ starts' = starts + 1 /\ dirty' = dirty \cup {starts'}
    BY <2>1
  <2>8. calls'[t] = 0 /\ call'[t] \notin Calls /\ \A u \in Tabs \ {t} : call'[u] = call[u] /\ calls'[u] = calls[u]
    BY <2>1, <2>3
  <2>9. UNCHANGED <<bal, txs, holder, closed, approval, broken>> /\ UNCHANGED <<chunk, delta, result>>
    BY <2>1
  <2> QED BY <2>4, <2>5, <2>6, <2>7, <2>8, <2>9, TabGoes
<1>3. CASE Send(t)
  <2>1. PICK c \in Calls : /\ pc[c] = "none" /\ pc' = [pc EXCEPT ![c] = "gate"]
                           /\ run' = [run EXCEPT ![c] = of[t]]
                           /\ call' = [call EXCEPT ![t] = c]
    BY <1>3 DEF Send, At, Goto, Set
  <2>2. /\ UNCHANGED <<bal, txs, holder, closed, approval, starts, broken, dirty, chunk, delta, result, of, calls, outcome>>
        /\ loop' = [loop EXCEPT ![t] = "wait"]
    BY <1>3 DEF Send, Set, database, settings, history
  <2>3. /\ pc'[c] = "gate" /\ run'[c] = of'[t] /\ call'[t] = c /\ loop'[t] = "wait"
        /\ \A q \in Calls \ {c} : pc'[q] = pc[q] /\ run'[q] = run[q]
        /\ \A u \in Tabs \ {t} : loop'[u] = loop[u] /\ call'[u] = call[u]
    BY <1>1, <2>1, <2>2
  <2> QED BY <2>1, <2>2, <2>3, TabGoes
<1>4. CASE Throttle(t)
  <2>1. /\ UNCHANGED <<bal, txs, holder, closed, approval, starts, broken, dirty, pc, run, chunk, delta, result, of, call, calls, outcome>>
        /\ loop[t] = "send" /\ loop' = [loop EXCEPT ![t] = "throttled"]
    BY <1>4 DEF Throttle, Set, database, settings, server, history
  <2>2. call[t] \notin Calls
    BY <2>1 DEF CInv, Wired
  <2>3. loop'[t] = "throttled" /\ \A u \in Tabs \ {t} : loop'[u] = loop[u]
    BY <1>1, <2>1
  <2> QED BY <2>1, <2>2, <2>3, TabGoes
<1>5. CASE LoseTab(t)
  <2>1. /\ UNCHANGED <<bal, txs, holder, closed, approval, starts, broken, dirty, pc, run, chunk, delta, result, of>>
        /\ loop' = [loop EXCEPT ![t] = "idle"] /\ outcome' = [outcome EXCEPT ![t] = "lost"]
        /\ call' = [call EXCEPT ![t] = None] /\ calls' = [calls EXCEPT ![t] = 0]
    BY <1>5 DEF LoseTab, Finish, Set, database, settings, server, history
  <2>2. call'[t] \notin Calls /\ loop'[t] = "idle" /\ outcome'[t] = "lost" /\ calls'[t] = 0
    BY <1>1, <2>1, ResetAssumption
  <2>3. \A u \in Tabs \ {t} : /\ loop'[u] = loop[u] /\ call'[u] = call[u]
                              /\ calls'[u] = calls[u] /\ outcome'[u] = outcome[u]
    BY <1>1, <2>1
  <2> QED BY <2>1, <2>2, <2>3, TabGoes
<1> QED BY <1>2, <1>3, <1>4, <1>5

\* Whatever others change disturbs every run there is.
LEMMA OthersDisturb ==
  ASSUME CInv, BInv, Transfer \/ SetActive \/ Claim \/ SetApproval \/ Tamper
  PROVE  CInv'
<1>1. /\ UNCHANGED <<txs, pc, run, chunk, opened, delta, result, loop, of, call, calls, outcome, starts>>
      /\ dirty' = dirty \cup (1..starts \ {0})
  BY DEF Transfer, SetActive, Claim, SetApproval, Tamper, OfOthers, Disturb, server, tab
<1>2. \A k : ~Clean(k)'
  <2>1. \A k : Clean(k)' => k \in 1..starts /\ k # 0 /\ k \notin dirty'
    BY <1>1 DEF Clean
  <2> QED BY <1>1, <2>1
<1>3. Fit' /\ Gone' /\ Good' /\ Credit' /\ Ends'
  BY <1>2 DEF Fit, Gone, Good, Credit, Ends, Undisturbed
<1>4. Wired'
  <2>1. dirty' \subseteq 1..starts'
    BY <1>1 DEF CInv, Wired
  <2>2. \A q \in Calls : (HasPosted(q)' <=> HasPosted(q)) /\ Key(q)' = Key(q)
    BY <1>1 DEF HasPosted, At, Key
  <2> QED BY <1>1, <2>1, <2>2 DEF CInv, Wired
<1> QED BY <1>3, <1>4 DEF CInv

LEMMA IdleGoes ==
  ASSUME CInv, WindowPasses \/ UNCHANGED vars
  PROVE  CInv'
<1>1. UNCHANGED <<database, settings, server, tab, history>>
  BY DEF WindowPasses, vars, database
<1>2. UNCHANGED <<bal, txs, holder, closed, approval, pc, run, chunk, delta, result,
                  loop, of, call, calls, outcome, starts, broken, dirty>>
  BY <1>1 DEF database, settings, server, tab, history
<1>3. /\ Names' = Names /\ (Clearable' <=> Clearable)
      /\ \A q \in Calls : /\ HasPosted(q)' <=> HasPosted(q)
                          /\ Key(q)' = Key(q)
                          /\ Owed(q)' <=> Owed(q)
                          /\ CallOk(q)' <=> CallOk(q)
  BY <1>2, LedgerSame, CallSame
<1>4. \A k : Clean(k)' <=> Clean(k)
  BY <1>2 DEF Clean
<1>5. Wired'
  BY <1>2, <1>3 DEF CInv, Wired
<1>6. Fit' /\ Gone' /\ Good' /\ Ends'
  BY <1>2, <1>3, <1>4 DEF CInv, Fit, Gone, Good, Ends, Undisturbed
<1>7. Credit'
  BY <1>2, <1>3, <1>4 DEF CInv, Credit, Undisturbed
<1> QED BY <1>5, <1>6, <1>7 DEF CInv

LEMMA InitClean == ChunkSize > 1 /\ Init => CInv
<1> SUFFICES ASSUME ChunkSize > 1, Init PROVE CInv
  OBVIOUS
<1>1. /\ starts = 0 /\ txs = {} /\ dirty = {}
      /\ \A c \in Calls : pc[c] = "none" /\ delta[c] = <<>> /\ result[c] = "none"
      /\ \A t \in Tabs : /\ of[t] = None /\ call[t] = None /\ calls[t] = 0 /\ outcome[t] = "none"
  BY DEF Init
<1>2. \A c \in Calls : ~HasPosted(c)
  BY <1>1 DEF HasPosted
<1>3. Wired
  BY <1>1, <1>2, ResetAssumption DEF Wired
<1>4. Fit /\ Gone /\ Good /\ Credit /\ Ends
  BY <1>1 DEF Fit, Clean, Gone, Good, Credit, Ends, Undisturbed
<1> QED BY <1>3, <1>4 DEF CInv

LEMMA NextClean == EnoughCalls /\ CInv /\ Opening /\ BInv /\ IInv /\ Typed /\ [Next]_vars => CInv'
<1> SUFFICES ASSUME EnoughCalls, CInv, Opening, BInv, IInv, Typed, [Next]_vars PROVE CInv'
  OBVIOUS
<1>1. ChunkSize > 1
  BY DEF EnoughCalls
<1>2. ASSUME NEW c \in Calls, Step(c) \/ Crash(c) PROVE CInv'
  BY <1>1, <1>2, GateGoes, PlanGoes, SuspenseGoes, ReplayGoes, PostGoes, CountGoes, CommitGoes, CrashGoes DEF Step
<1>3. ASSUME NEW t \in Tabs, Press(t) \/ Send(t) \/ Throttle(t) \/ LoseTab(t) PROVE CInv'
  BY <1>1, <1>3, LoopGoes
<1> QED BY <1>2, <1>3, OthersDisturb, IdleGoes DEF Next

\* While a run whose key was minted over a ledger a reset can clear is left alone, the
\* ledger stays one, each call of the run has the chunk that is due, or one that the run
\* has posted, and every answer of its loop is paid for by a posting.
THEOREM CleanInvariance == EnoughCalls => (Spec => []CInv)
<1> SUFFICES ASSUME EnoughCalls PROVE Spec => []CInv
  OBVIOUS
<1>1. Init => CInv
  BY InitClean DEF EnoughCalls
<1>2. CInv /\ Opening /\ BInv /\ IInv /\ Typed /\ [Next]_vars => CInv'
  BY NextClean
<1> QED BY <1>1, <1>2, OpeningInvariance, BooksInvariance, Invariance, TypedInvariance, PTL DEF Spec

\* A loop with calls enough, of a run whose key was minted over a ledger a reset can clear
\* and that nobody else disturbed since, zeroes every balance or ends with the connection,
\* or because another call opened the suspense account under it, an orphan of the run say:
\* none of the gate's, the planner's and the posting routine's refusals is met, not over a
\* closed account, a suspense account of another kind, the funds or the storable range, and
\* the loop is not out of calls, whatever answers were lost, loops resumed and calls
\* orphaned on the way.
THEOREM UndisturbedResetsComplete == EnoughCalls => (Spec => []UndisturbedResetCompletes)
<1> SUFFICES ASSUME EnoughCalls PROVE Spec => []UndisturbedResetCompletes
  OBVIOUS
<1>1. CInv => UndisturbedResetCompletes
  BY DEF CInv, Wired, Ends, Undisturbed, Clean, UndisturbedResetCompletes
<1> QED BY <1>1, CleanInvariance, PTL
=============================================================================
