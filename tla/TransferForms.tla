---------------------------- MODULE TransferForms ----------------------------
(***************************************************************************)
(* The transfer form and the fee-split form between their inputs and what  *)
(* they send.  The transfer composes its legs at review and asks a person  *)
(* to confirm a sentence; the fee split sends at once.  The account list   *)
(* is refetched under both, so an account may be closed meanwhile.         *)
(***************************************************************************)
EXTENDS Integers

CONSTANTS
  Forms,        \* the forms that are used: "transfer", "fee-split"
  Accounts, CurrencyOf, Amounts, None

VARIABLES
  form,
  listed,   \* active accounts of the last accounts.list
  draft,    \* the inputs
  review,   \* pendingPostings
  pending,  \* post.isPending
  sent      \* the legs that were sent, and what the form said they would do

vars == <<form, listed, draft, review, pending, sent>>

NoDraft == [source |-> None, destination |-> None, feeAccount |-> None, amount |-> 0, fee |-> 0]

\* What a leg does to its account: a debit adds, a credit takes away (signedAmount).
Debit(account, n) == [account |-> account, change |-> n]
Credit(account, n) == [account |-> account, change |-> -n]

\* eligibleSources, eligibleDestinations and the pickers of the fee split.
Source(accounts, d) == IF d.source \in accounts THEN d.source ELSE None
Destinations(accounts, d) ==
  {x \in accounts : Source(accounts, d) # None /\ x # d.source /\ CurrencyOf[x] = CurrencyOf[d.source]}
Destination(accounts, d) ==
  IF d.destination \in Destinations(accounts, d) THEN d.destination ELSE None

\* The transfer's effect that clears a destination its picker no longer offers.
Cleared(accounts, d) ==
  IF form = "transfer" THEN [d EXCEPT !.destination = Destination(accounts, d)] ELSE d

\* describeTransfer: out of the source and into the destination, from the inputs as
\* they are now.
Sentence(accounts, d) ==
  {Debit(Destination(accounts, d), d.amount), Credit(Source(accounts, d), d.amount)}

\* prepareTransfer and composeTransfer; zero stands for every amount that does not
\* parse to something positive.
Prepared(d) ==
  IF d.source = None \/ d.destination = None \/ d.amount = 0 \/ d.source = d.destination
  THEN {} ELSE {{Debit(d.destination, d.amount), Credit(d.source, d.amount)}}

\* The fee split's description: the merchant receives gross - fee, the fee account
\* the fee, the funding account pays both.
SplitText(d) ==
  {Credit(d.source, d.amount), Debit(d.destination, d.amount - d.fee), Debit(d.feeAccount, d.fee)}

\* The legs of the fee split's onSubmit.
SplitLegs(d) ==
  {Debit(d.source, d.amount), Credit(d.destination, d.amount - d.fee), Credit(d.feeAccount, d.fee)}

Init ==
  /\ form \in Forms
  /\ listed = Accounts
  /\ draft = NoDraft /\ review = {} /\ pending = FALSE /\ sent = {}

\* The inputs, disabled only while an answer is awaited: under a review too.
Edit ==
  /\ ~pending
  /\ \/ \E x \in listed : draft' = Cleared(listed, [draft EXCEPT !.source = x])
     \/ \E x \in Destinations(listed, draft) : draft' = [draft EXCEPT !.destination = x]
     \/ /\ Source(listed, draft) # None
        /\ \E n \in Amounts : draft' = [draft EXCEPT !.amount = n]
     \/ /\ form = "fee-split"
        /\ \/ \E x \in Destinations(listed, draft) \ {draft.destination} :
                draft' = [draft EXCEPT !.feeAccount = x]
           \/ \E n \in Amounts : draft' = [draft EXCEPT !.fee = n]
  /\ UNCHANGED <<form, listed, review, pending, sent>>

OnReview ==
  /\ form = "transfer" /\ ~pending /\ review = {}
  /\ review' = Prepared(draft)
  /\ UNCHANGED <<form, listed, draft, pending, sent>>

Back ==
  /\ ~pending /\ review # {}
  /\ review' = {}
  /\ UNCHANGED <<form, listed, draft, pending, sent>>

OnConfirm ==
  /\ review # {} /\ ~pending
  /\ pending' = TRUE
  /\ sent' = {[legs |-> legs, shown |-> Sentence(listed, draft)] : legs \in review}
  /\ UNCHANGED <<form, listed, draft, review>>

\* The fee split's onSubmit.
OnSubmit ==
  /\ form = "fee-split" /\ ~pending
  /\ Source(listed, draft) # None /\ None \notin {draft.destination, draft.feeAccount}
  /\ draft.destination # draft.source /\ draft.feeAccount \notin {draft.source, draft.destination}
  /\ 0 < draft.fee /\ draft.fee < draft.amount
  /\ pending' = TRUE
  /\ sent' = {[legs |-> SplitLegs(draft), shown |-> SplitText(draft)]}
  /\ UNCHANGED <<form, listed, draft, review>>

\* onError; onSuccess leaves the form.
OnError ==
  /\ pending
  /\ pending' = FALSE /\ review' = {}
  /\ UNCHANGED <<form, listed, draft, sent>>

\* accounts.list again: some of the accounts are closed now.
Refetch ==
  /\ \E accounts \in SUBSET Accounts :
       listed' = accounts /\ draft' = Cleared(accounts, draft)
  /\ UNCHANGED <<form, review, pending, sent>>

Next == Edit \/ OnReview \/ Back \/ OnConfirm \/ OnSubmit \/ OnError \/ Refetch
Spec == Init /\ [][Next]_vars

\* postings.ts:6-8 ("money flows out of the credited account and into the debited
\* one") and the fee split's own text ("Merchant receives gross - fee"): what is sent
\* moves the money as the form said.
SentAsShown == \A s \in sent : s.legs = s.shown
=============================================================================
