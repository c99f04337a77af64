------------------------------ MODULE Approvals ------------------------------
(***************************************************************************)
(* Maker-checker: approvals.submitPending, approve and reject, the setting *)
(* that demands them, and the gate in front of every direct posting.       *)
(*                                                                         *)
(* Each request is one Postgres transaction at READ COMMITTED, whose       *)
(* writes are committed even when the handler throws (withOrgScope).  What *)
(* postTransaction does is taken from the atomic ledger it implements: it  *)
(* posts, replays or refuses, and holds its reservation until the request  *)
(* ends.  Account locks and balances are the business of Posting.          *)
(***************************************************************************)
EXTENDS Integers, Sequences, FiniteSets

CONSTANTS
  Requests,   \* API calls
  Admins,     \* members who may write; a maker is an admin too
  Keys,       \* idempotency keys of submissions
  Transfers,  \* payloads, each standing for its requestHash as well
  None        \* SQL NULL, and a request that has not arrived

ASSUME NoneAssumption ==
  None \notin Requests \cup Admins \cup Keys \cup Transfers \cup BOOLEAN

VARIABLES
  pendings,  \* ledger_pending_transfer rows
  ledger,    \* ledger_transaction rows of approvals and direct postings
  required,  \* organization.metadata.requireTransferApproval
  trail,     \* the setting changes on the audit log, oldest first
  cmd, pc,   \* each request's command and how far its handler got
  uRow,      \* the pending row it inserted or updated
  uTx,       \* the transaction it posted
  uSetting,  \* the setting it wrote
  before,    \* the setting it read first
  answer     \* what its caller is told

stored == <<pendings, ledger, required, trail>>
open == <<uRow, uTx, uSetting>>
vars == <<stored, cmd, pc, open, before, answer>>

\* `about` is the pending row an approve or a reject names, the key of a
\* submission, or the value of a setting.
Command ==
  [kind : {"submit"}, actor : Admins, about : Keys, payload : Transfers]
  \cup [kind : {"approve", "reject"}, actor : Admins, about : Requests, payload : {None}]
  \cup [kind : {"set"}, actor : Admins, about : BOOLEAN, payload : {None}]
  \cup [kind : {"direct"}, actor : Admins, about : {None}, payload : {None}]

\* A row's id is the request that inserted it.
PendingRow ==
  [id : Requests, key : Keys, payload : Transfers, createdBy : Admins,
   status : {"pending", "approved", "rejected"},
   decidedBy : Admins \cup {None}, tx : Requests \cup {None}]

\* `of` is the pending row that the reservation `approve:<id>` is derived from.
TxRow == [id : Requests, of : Requests \cup {None}, by : Admins]

Goto(r, where) == pc' = [pc EXCEPT ![r] = where]
Tell(r, kind, id) == answer' = [answer EXCEPT ![r] = [kind |-> kind, id |-> id]]

Discard(r) ==
  /\ uRow' = [uRow EXCEPT ![r] = {}]
  /\ uTx' = [uTx EXCEPT ![r] = {}]
  /\ uSetting' = [uSetting EXCEPT ![r] = {}]

Others(r) == Requests \ {r}

\* Mutant: the error is captured and the transaction is left open.
ThrowIntoNothing(r, kind) == Tell(r, kind, None) /\ UNCHANGED pc

\* A thrown error, after which withOrgScope commits what was written.
Throw(r, kind) == Tell(r, kind, None) /\ Goto(r, "commit")

Init ==
  /\ pendings = {} /\ ledger = {}
  /\ required = FALSE
  /\ trail = <<>>
  /\ cmd = [r \in Requests |-> None]
  /\ pc = [r \in Requests |-> "idle"]
  /\ uRow = [r \in Requests |-> {}]
  /\ uTx = [r \in Requests |-> {}]
  /\ uSetting = [r \in Requests |-> {}]
  /\ before = [r \in Requests |-> FALSE]
  /\ answer = [r \in Requests |-> [kind |-> "none", id |-> None]]

\* Pending rows are named by ids that were shown, or by an id of no row: r's own
\* stands for all of those.
Arrive(r) ==
  /\ pc[r] = "idle"
  /\ \E c \in Command :
       /\ c.kind \in {"approve", "reject"} => c.about \in {row.id : row \in pendings} \cup {r}
       /\ cmd' = [cmd EXCEPT ![r] = c]
  /\ Goto(r, "start")
  /\ UNCHANGED <<stored, open, before, answer>>
-----------------------------------------------------------------------------
(* submitPending: insertPendingTransfer *)

Submits(r) == pc[r] = "start" /\ cmd[r].kind = "submit"
SameKey(r) == {row \in pendings : row.key = cmd[r].about}

\* Mutant: the fingerprint of the payload is not compared.
ReplayAnySubmission(r) ==
  /\ Submits(r)
  /\ \E row \in SameKey(r) : Tell(r, "submitted", row.id)
  /\ Goto(r, "commit")
  /\ UNCHANGED <<stored, cmd, open, before>>

\* Mutant: a look-up before the INSERT instead of the unique constraint.
InsertUnchecked(r) ==
  /\ Submits(r)
  /\ SameKey(r) = {}
  /\ uRow' = [uRow EXCEPT ![r] = {[id |-> r, key |-> cmd[r].about, payload |-> cmd[r].payload,
                                   createdBy |-> cmd[r].actor, status |-> "pending",
                                   decidedBy |-> None, tx |-> None]}]
  /\ Tell(r, "submitted", r)
  /\ Goto(r, "commit")
  /\ UNCHANGED <<stored, cmd, uTx, uSetting, before>>

\* The INSERT waits for another transaction's uncommitted row of the same key.
Insert(r) ==
  /\ Submits(r)
  /\ SameKey(r) = {}
  /\ \A q \in Others(r) : \A row \in uRow[q] : row.key # cmd[r].about
  /\ uRow' = [uRow EXCEPT ![r] = {[id |-> r, key |-> cmd[r].about, payload |-> cmd[r].payload,
                                   createdBy |-> cmd[r].actor, status |-> "pending",
                                   decidedBy |-> None, tx |-> None]}]
  /\ Tell(r, "submitted", r)
  /\ Goto(r, "commit")
  /\ UNCHANGED <<stored, cmd, uTx, uSetting, before>>

\* The unique constraint on (org_id, idempotency_key) refuses the INSERT.
ReplaySubmission(r) ==
  /\ Submits(r)
  /\ \E row \in SameKey(r) : row.payload = cmd[r].payload /\ Tell(r, "submitted", row.id)
  /\ Goto(r, "commit")
  /\ UNCHANGED <<stored, cmd, open, before>>

RefuseSubmission(r) ==
  /\ Submits(r)
  /\ \E row \in SameKey(r) : row.payload # cmd[r].payload
  /\ Throw(r, "idempotency_conflict")
  /\ UNCHANGED <<stored, cmd, open, before>>
-----------------------------------------------------------------------------
(* approve and reject *)

Decides(r, where) == pc[r] = where /\ cmd[r].kind \in {"approve", "reject"}
Named(r) == CHOOSE row \in pendings : row.id = cmd[r].about

\* Mutant: the maker may be the checker.
ReadPendingByAnyone(r) ==
  /\ Decides(r, "start")
  /\ IF \A row \in pendings : row.id = cmd[r].about => row.status # "pending"
     THEN Throw(r, "pending_not_found")
     ELSE /\ Goto(r, IF cmd[r].kind = "approve" THEN "post" ELSE "mark")
          /\ UNCHANGED answer
  /\ UNCHANGED <<stored, cmd, open, before>>

\* getPendingTransfer, a plain SELECT: what it sees may change at once.
ReadPending(r) ==
  /\ Decides(r, "start")
  /\ IF \A row \in pendings : row.id = cmd[r].about => row.status # "pending"
     THEN Throw(r, "pending_not_found")
     ELSE IF Named(r).createdBy = cmd[r].actor THEN Throw(r, "self_approve_forbidden")
     ELSE /\ Goto(r, IF cmd[r].kind = "approve" THEN "post" ELSE "mark")
          /\ UNCHANGED answer
  /\ UNCHANGED <<stored, cmd, open, before>>

\* Mutant: the caller chooses the idempotency key of the posting.
PostUnderAnyKey(r) ==
  /\ Decides(r, "post")
  /\ uTx' = [uTx EXCEPT ![r] = {[id |-> r, of |-> cmd[r].about, by |-> cmd[r].actor]}]
  /\ Goto(r, "mark")
  /\ UNCHANGED <<stored, cmd, uRow, uSetting, before, answer>>

\* postTransaction under `approve:<pending id>`: the reservation waits for
\* another transaction's uncommitted reservation of the same row.
PostPending(r) ==
  /\ Decides(r, "post")
  /\ \A x \in ledger : x.of # cmd[r].about
  /\ \A q \in Others(r) : \A x \in uTx[q] : x.of # cmd[r].about
  /\ uTx' = [uTx EXCEPT ![r] = {[id |-> r, of |-> cmd[r].about, by |-> cmd[r].actor]}]
  /\ Goto(r, "mark")
  /\ UNCHANGED <<stored, cmd, uRow, uSetting, before, answer>>

\* The row was posted already: postTransaction returns that transaction.
ReplayPending(r) ==
  /\ Decides(r, "post")
  /\ \E x \in ledger : x.of = cmd[r].about
  /\ Goto(r, "mark")
  /\ UNCHANGED <<stored, cmd, open, before, answer>>

\* The funds, the currency, the range or a closed account refuse it now.
RefusePending(r) ==
  /\ Decides(r, "post")
  /\ \A x \in ledger : x.of # cmd[r].about
  /\ \A q \in Others(r) : \A x \in uTx[q] : x.of # cmd[r].about
  /\ Throw(r, "posting_refused")
  /\ UNCHANGED <<stored, cmd, open, before>>

Posted(r) == (CHOOSE x \in ledger \cup uTx[r] : x.of = cmd[r].about).id

\* Mutant: the row is given the procedure's name.
DecisionByKind(r) ==
  [Named(r) EXCEPT !.status = cmd[r].kind,
                   !.decidedBy = cmd[r].actor,
                   !.tx = IF cmd[r].kind = "approve" THEN Posted(r) ELSE @]

Decision(r) ==
  [Named(r) EXCEPT !.status = IF cmd[r].kind = "approve" THEN "approved" ELSE "rejected",
                   !.decidedBy = cmd[r].actor,
                   !.tx = IF cmd[r].kind = "approve" THEN Posted(r) ELSE @]

\* Mutant: UPDATE ... WHERE id = $1, without the status.
MarkAnyStatus(r) ==
  /\ Decides(r, "mark")
  /\ \A q \in Others(r) : \A row \in uRow[q] : row.id # cmd[r].about
  /\ uRow' = [uRow EXCEPT ![r] = {Decision(r)}]
  /\ Tell(r, Decision(r).status, Decision(r).tx)
  /\ Goto(r, "commit")
  /\ UNCHANGED <<stored, cmd, uTx, uSetting, before>>

\* markPendingApproved, markPendingRejected: UPDATE ... WHERE status =
\* 'pending' waits for the row and tests it again.  Finding it decided throws,
\* which does not undo the posting.
Mark(r) ==
  /\ Decides(r, "mark")
  /\ \A q \in Others(r) : \A row \in uRow[q] : row.id # cmd[r].about
  /\ IF Named(r).status = "pending"
     THEN /\ uRow' = [uRow EXCEPT ![r] = {Decision(r)}]
          /\ Tell(r, Decision(r).status, Decision(r).tx)
          /\ Goto(r, "commit")
     ELSE Throw(r, "pending_already_decided") /\ UNCHANGED uRow
  /\ UNCHANGED <<stored, cmd, uTx, uSetting, before>>
-----------------------------------------------------------------------------
(* The setting and the gate *)

\* settings.setRequireTransferApproval reads the setting with a plain SELECT.
ReadSetting(r) ==
  /\ pc[r] = "start" /\ cmd[r].kind = "set"
  /\ before' = [before EXCEPT ![r] = required]
  /\ Goto(r, "write")
  /\ UNCHANGED <<stored, cmd, open, answer>>

\* The UPDATE of the organization waits for another one's to end.
WriteSetting(r) ==
  /\ pc[r] = "write"
  /\ \A q \in Others(r) : uSetting[q] = {}
  /\ uSetting' = [uSetting EXCEPT ![r] = {cmd[r].about}]
  /\ Tell(r, "set", None)
  /\ Goto(r, "commit")
  /\ UNCHANGED <<stored, cmd, uRow, uTx, before>>

\* requireNoPendingApprovalPolicy, in front of every direct posting.
Gate(r) ==
  /\ pc[r] = "start" /\ cmd[r].kind = "direct"
  /\ IF required THEN Throw(r, "approval_required") ELSE Goto(r, "direct") /\ UNCHANGED answer
  /\ UNCHANGED <<stored, cmd, open, before>>

\* The posting itself, under a key of its own, is made or refused.
PostDirect(r) ==
  /\ pc[r] = "direct"
  /\ \/ /\ uTx' = [uTx EXCEPT ![r] = {[id |-> r, of |-> None, by |-> cmd[r].actor]}]
        /\ Tell(r, "posted", r)
        /\ Goto(r, "commit")
     \/ Throw(r, "posting_refused") /\ UNCHANGED uTx
  /\ UNCHANGED <<stored, cmd, uRow, uSetting, before>>
-----------------------------------------------------------------------------
(* withOrgScope *)

\* COMMIT, or the response is lost after it.  A change of the setting comes
\* with its audit row, written in the same transaction.
Commit(r) ==
  /\ pc[r] = "commit"
  /\ pendings' = {row \in pendings : \A new \in uRow[r] : new.id # row.id} \cup uRow[r]
  /\ ledger' = ledger \cup uTx[r]
  /\ required' = IF uSetting[r] = {} THEN required ELSE cmd[r].about
  /\ trail' = IF uSetting[r] # {} /\ before[r] # cmd[r].about
              THEN Append(trail, cmd[r].about) ELSE trail
  /\ Discard(r)
  /\ \/ UNCHANGED answer
     \/ Tell(r, "failed", None)
  /\ Goto(r, "done")
  /\ UNCHANGED <<cmd, before>>

\* A crash, a lost connection or a timeout: ROLLBACK.
Abort(r) ==
  /\ pc[r] \notin {"idle", "done"}
  /\ Discard(r)
  /\ Tell(r, "failed", None)
  /\ Goto(r, "done")
  /\ UNCHANGED <<stored, cmd, before>>

Step(r) ==
  \/ Insert(r) \/ ReplaySubmission(r) \/ RefuseSubmission(r)
  \/ ReadPending(r) \/ PostPending(r) \/ ReplayPending(r) \/ RefusePending(r) \/ Mark(r)
  \/ ReadSetting(r) \/ WriteSetting(r)
  \/ Gate(r) \/ PostDirect(r)
  \/ Commit(r)

Next == \E r \in Requests : Arrive(r) \/ Step(r) \/ Abort(r)

Spec == Init /\ [][Next]_vars

\* Statements return and Postgres wakes waiters; arrivals and crashes are not fair.
FairSpec == Spec /\ \A r \in Requests : WF_vars(Step(r))
-----------------------------------------------------------------------------
(* Properties *)

Refusals == {"idempotency_conflict", "pending_not_found", "self_approve_forbidden",
             "posting_refused", "approval_required"}
Answers == {"none", "submitted", "approved", "rejected", "pending_already_decided",
            "set", "posted", "failed"} \cup Refusals

\* The type of every variable.
TypeOK ==
  /\ pendings \subseteq PendingRow
  /\ ledger \subseteq TxRow
  /\ required \in BOOLEAN
  /\ trail \in Seq(BOOLEAN)
  /\ cmd \in [Requests -> Command \cup {None}]
  /\ pc \in [Requests -> {"idle", "start", "post", "mark", "write", "direct", "commit", "done"}]
  /\ \A r \in Requests : pc[r] # "idle" => cmd[r] \in Command
  /\ uRow \in [Requests -> SUBSET PendingRow]
  /\ uTx \in [Requests -> SUBSET TxRow]
  /\ uSetting \in [Requests -> SUBSET BOOLEAN]
  /\ before \in [Requests -> BOOLEAN]
  /\ answer \in [Requests -> [kind : Answers, id : Requests \cup {None}]]

\* One pending row moves money at most once: two approvals that both read it as
\* pending meet at the reservation derived from its id.
PostedOnce ==
  \A x, y \in ledger : x.of = y.of /\ x.of # None => x = y

\* An approved row names the transaction that was posted for it, by the admin
\* who decided it, and that admin is not the one who submitted it.
ApprovedIsPosted ==
  \A row \in pendings : row.status = "approved" =>
    /\ row.decidedBy # row.createdBy
    /\ [id |-> row.tx, of |-> row.id, by |-> row.decidedBy] \in ledger

\* A key is submitted once, by duplicates that run at the same time too.
SubmittedOnce == \A x, y \in pendings : x.key = y.key => x = y

\* A decision is final: approvals and rejections that race on a row never
\* overwrite one another.
DecisionsAreFinal ==
  [][\A row \in pendings : row.status # "pending" => row \in pendings']_vars

AnswerTrue(r) ==
  LET c == cmd[r]
      kind == answer[r].kind
  IN /\ kind = "submitted" => \E row \in pendings :
          row.id = answer[r].id /\ row.key = c.about /\ row.payload = c.payload
     /\ kind \in {"approved", "rejected"} => \E row \in pendings :
          /\ row.id = c.about /\ row.status = kind
          /\ row.decidedBy = c.actor /\ row.tx = answer[r].id
     /\ kind = "pending_already_decided" => \E row \in pendings :
          row.id = c.about /\ row.status # "pending"
     /\ kind = "posted" => \E x \in ledger : x.id = r
     /\ kind \in Refusals \cup {"rejected", "submitted"} => \A x \in ledger : x.id # r

\* What a caller is told is true of the stored rows, and stays true: the row it
\* submitted carries its payload, the decision it took is the one on record, and
\* a refusal has moved nothing.
AnswersAreTrue == \A r \in Requests : pc[r] = "done" => AnswerTrue(r)

\* Every request that arrives is answered: the waits for a submission's key, for
\* a pending row's reservation, for the row itself and for the setting all end.
EveryRequestAnswered == \A r \in Requests : pc[r] = "start" ~> pc[r] = "done"
-----------------------------------------------------------------------------
(* What the documentation says and the code does not do *)

\* approvals.ts:78, "Balances only move on approve": a transaction posted for a
\* pending row belongs to a row that was approved.
BalancesMoveOnlyOnApprove ==
  \A x \in ledger : x.of # None =>
    \E row \in pendings : row.id = x.of /\ row.status = "approved"

\* settings.ts:43-45, "the trail has to show who did it and when ... Both directions
\* are recorded": the last recorded change is the setting in force.
TrailShowsSetting ==
  required = IF trail = <<>> THEN FALSE ELSE trail[Len(trail)]
==============================================================================
