-------------------------- MODULE ApprovalsProofs --------------------------
(***************************************************************************)
(* The safety of maker-checker for any number of requests, admins, keys    *)
(* and payloads.  Only Commit writes what is stored, so the invariant says *)
(* what a request holds in its open transaction (Own), that two open       *)
(* transactions never hold the same key, row or reservation (Apart), and   *)
(* what the stored rows say of one another (Rows, Postings).               *)
(***************************************************************************)
EXTENDS Approvals, TLAPS

Holds(r, p) == pc[r] = p

\* The stored pending rows: one per id and per key, inserted by a finished request.
Rows ==
  /\ \A x, y \in pendings : x.id = y.id => x = y
  /\ SubmittedOnce
  /\ \A row \in pendings : pc[row.id] = "done"
  /\ ApprovedIsPosted

\* The stored postings: one per pending row, and that row is decided.
Postings ==
  /\ PostedOnce
  /\ \A x \in ledger :
       /\ pc[x.id] = "done"
       /\ x.of # None => \E row \in pendings : row.id = x.of /\ row.status # "pending"

\* The row r is about to insert or has decided.
RowHeld(r, row) ==
  LET c == cmd[r]
  IN  \/ /\ c.kind = "submit"
         /\ row.id = r /\ row.status = "pending"
         /\ row.key = c.about /\ row.payload = c.payload
         /\ \A y \in pendings : y.key # row.key
      \/ /\ c.kind \in {"approve", "reject"}
         /\ row.id = c.about /\ row.decidedBy = c.actor
         /\ row.status = (IF c.kind = "approve" THEN "approved" ELSE "rejected")
         /\ row.createdBy # c.actor
         /\ \E old \in pendings :
              /\ old.id = row.id /\ old.status = "pending"
              /\ old.key = row.key /\ old.payload = row.payload /\ old.createdBy = row.createdBy
         /\ c.kind = "approve" => row.tx = r /\ uTx[r] # {}

\* The transaction r has posted and not committed.
TxHeld(r, x) ==
  LET c == cmd[r]
  IN  /\ x = [id |-> r, of |-> (IF c.kind = "approve" THEN c.about ELSE None), by |-> c.actor]
      /\ c.kind \in {"approve", "direct"}
      /\ \A y \in ledger : y.of = x.of => x.of = None

\* What r's answer will mean once r has committed.
AnswerHeld(r) ==
  LET c == cmd[r]
      kind == answer[r].kind
  IN  /\ kind = "submitted" => \E row \in pendings \cup uRow[r] :
            row.id = answer[r].id /\ row.key = c.about /\ row.payload = c.payload
      /\ kind \in {"approved", "rejected"} => \E row \in uRow[r] :
            /\ row.id = c.about /\ row.status = kind
            /\ row.decidedBy = c.actor /\ row.tx = answer[r].id
      /\ kind = "pending_already_decided" => \E row \in pendings :
            row.id = c.about /\ row.status # "pending"
      /\ kind = "posted" => uTx[r] # {}
      /\ kind \in Refusals \cup {"rejected", "submitted"} => uTx[r] = {}

Own(r) ==
  LET c == cmd[r]
  IN  /\ pc[r] # "commit" => uRow[r] = {}
      /\ pc[r] \notin {"mark", "commit"} => uTx[r] = {}
      /\ \A row \in uRow[r] : uRow[r] = {row} /\ RowHeld(r, row)
      /\ \A x \in uTx[r] : TxHeld(r, x)
      /\ pc[r] \in {"post", "mark"} =>
           /\ c.kind \in {"approve", "reject"}
           /\ \E row \in pendings : row.id = c.about /\ row.createdBy # c.actor
      /\ pc[r] = "post" => c.kind = "approve"
      /\ pc[r] = "mark" /\ c.kind = "approve" => \E x \in ledger \cup uTx[r] : x.of = c.about
      /\ pc[r] = "commit" /\ c.kind = "approve" /\ uTx[r] # {} =>
           uRow[r] # {} \/ \E row \in pendings : row.id = c.about /\ row.status # "pending"
      /\ pc[r] = "commit" => AnswerHeld(r)
      /\ pc[r] = "done" => AnswerTrue(r)
      /\ pc[r] = "direct" => c.kind = "direct"
      /\ pc[r] = "write" => c.kind = "set"

Apart ==
  \A q, r \in Requests : q # r =>
    /\ \A x \in uRow[q], y \in uRow[r] : x.key # y.key /\ x.id # y.id
    /\ \A x \in uTx[q], y \in uTx[r] : x.of = y.of => x.of = None

\* A setting is written only by the request that asked for it.
Settings == \A r \in Requests : uSetting[r] # {} => pc[r] = "commit" /\ cmd[r].kind = "set"

Core == TypeOK /\ Rows /\ Postings /\ Apart /\ \A r \in Requests : Own(r)
IInv == Core /\ Settings

-----------------------------------------------------------------------------
(* What a step leaves alone.                                               *)

\* r's step writes nothing that is stored and nothing of another request.
Local(r) ==
  /\ UNCHANGED stored
  /\ \A q \in Requests \ {r} :
       /\ cmd'[q] = cmd[q] /\ pc'[q] = pc[q] /\ answer'[q] = answer[q]
       /\ uRow'[q] = uRow[q] /\ uTx'[q] = uTx[q]

LEMMA StepIsLocal ==
  ASSUME TypeOK, NEW r \in Requests, Arrive(r) \/ Abort(r) \/ (Step(r) /\ ~Commit(r))
  PROVE  Local(r) /\ pc[r] # "done"
BY DEF TypeOK, Local, Arrive, Abort, Step, Insert, ReplaySubmission, RefuseSubmission,
   ReadPending, PostPending, ReplayPending, RefusePending, Mark, ReadSetting, WriteSetting,
   Gate, PostDirect, Submits, Decides, Goto, Tell, Throw, Discard, open, stored

LEMMA CommandType ==
  ASSUME TypeOK, NEW r \in Requests, pc[r] # "idle"
  PROVE  /\ cmd[r].kind \in {"submit", "approve", "reject", "set", "direct"}
         /\ cmd[r].actor \in Admins
         /\ cmd[r].kind = "submit" => cmd[r].about \in Keys /\ cmd[r].payload \in Transfers
         /\ cmd[r].kind \in {"approve", "reject"} => cmd[r].about \in Requests
         /\ cmd[r].kind = "set" => cmd[r].about \in BOOLEAN
BY DEF TypeOK, Command

\* The row a decision names, when there is one.
LEMMA NamedIs ==
  ASSUME Rows, NEW r \in Requests, NEW row \in pendings, row.id = cmd[r].about
  PROVE  Named(r) = row
BY DEF Rows, Named

\* A step of r that is not a commit keeps the invariant if it keeps r's part.
LEMMA Quiet ==
  ASSUME Core, NEW r \in Requests, Local(r), pc[r] # "done", TypeOK', Own(r)',
         \A q \in Requests \ {r} :
            /\ \A x \in uRow[q], y \in uRow'[r] : x.key # y.key /\ x.id # y.id
            /\ \A x \in uTx[q], y \in uTx'[r] : x.of = y.of => x.of = None
  PROVE  Core'
<1>1. Rows'
  <2>1. \A row \in pendings : row.id \in Requests \ {r}
    BY DEF Core, Rows, TypeOK, PendingRow
  <2> QED
    BY <2>1 DEF Core, Rows, Local, stored, SubmittedOnce, ApprovedIsPosted
<1>2. Postings'
  <2>1. \A x \in ledger : x.id \in Requests \ {r}
    BY DEF Core, Postings, TypeOK, TxRow
  <2> QED
    BY <2>1 DEF Core, Postings, Local, stored, PostedOnce
<1>3. Apart'
  <2> SUFFICES ASSUME NEW q \in Requests, NEW p \in Requests, q # p
               PROVE  /\ \A x \in uRow'[q], y \in uRow'[p] : x.key # y.key /\ x.id # y.id
                      /\ \A x \in uTx'[q], y \in uTx'[p] : x.of = y.of => x.of = None
    BY DEF Apart
  <2>1. CASE q # r /\ p # r
    BY <2>1 DEF Core, Apart, Local
  <2>2. CASE p = r
    BY <2>2 DEF Local
  <2>3. CASE q = r
    BY <2>3 DEF Local
  <2> QED
    BY <2>1, <2>2, <2>3
<1>4. ASSUME NEW q \in Requests, q # r
      PROVE  Own(q)'
  <2>1. Own(q)
    BY DEF Core
  <2>2. /\ pendings' = pendings /\ ledger' = ledger
        /\ cmd'[q] = cmd[q] /\ pc'[q] = pc[q] /\ answer'[q] = answer[q]
        /\ uRow'[q] = uRow[q] /\ uTx'[q] = uTx[q]
    BY <1>4 DEF Local, stored
  <2> QED
    BY <2>1, <2>2 DEF Own, RowHeld, TxHeld, AnswerHeld, AnswerTrue
<1> QED
  BY <1>1, <1>2, <1>3, <1>4 DEF Core

-----------------------------------------------------------------------------
(* Types.                                                                  *)

LEMMA GotoType ==
  ASSUME NEW P, pc \in [Requests -> P], NEW r \in Requests, NEW p \in P, Goto(r, p)
  PROVE  pc' \in [Requests -> P] /\ pc'[r] = p
BY DEF Goto

\* Where the answer, the cursor and the command of r may go.
LEMMA ControlType ==
  ASSUME TypeOK, NEW r \in Requests, pc[r] # "idle",
         NEW p \in {"post", "mark", "write", "direct", "commit", "done"}, Goto(r, p),
         UNCHANGED cmd
  PROVE  /\ cmd' \in [Requests -> Command \cup {None}]
         /\ pc' \in [Requests -> {"idle", "start", "post", "mark", "write", "direct", "commit", "done"}]
         /\ \A q \in Requests : pc'[q] # "idle" => cmd'[q] \in Command
BY DEF TypeOK, Goto

LEMMA TellType ==
  ASSUME TypeOK, NEW r \in Requests, NEW k \in Answers, NEW i \in Requests \cup {None}, Tell(r, k, i)
  PROVE  /\ answer' \in [Requests -> [kind : Answers, id : Requests \cup {None}]]
         /\ answer'[r] = [kind |-> k, id |-> i]
BY DEF TypeOK, Tell

LEMMA ThrowType ==
  ASSUME TypeOK, NEW r \in Requests, pc[r] # "idle", NEW k \in Answers, Throw(r, k),
         UNCHANGED <<stored, cmd, open, before>>
  PROVE  /\ TypeOK' /\ pc'[r] = "commit" /\ answer'[r] = [kind |-> k, id |-> None]
<1>1. Goto(r, "commit") /\ Tell(r, k, None)
  BY DEF Throw
<1>2. pc'[r] = "commit"
  BY <1>1 DEF TypeOK, Goto
<1> QED
  BY <1>1, <1>2, ControlType, TellType DEF TypeOK, stored, open

-----------------------------------------------------------------------------
(* One lemma for each kind of step.                                        *)

LEMMA ArriveStep ==
  ASSUME Core, NEW r \in Requests, Arrive(r)
  PROVE  Core'
<1>1. PICK c \in Command : cmd' = [cmd EXCEPT ![r] = c]
  BY DEF Arrive
<1>2. TypeOK
  BY DEF Core
<1>3. TypeOK' /\ pc'[r] = "start"
  BY <1>1, <1>2 DEF Arrive, TypeOK, Goto, stored, open
<1>4. uRow'[r] = {} /\ uTx'[r] = {}
  BY DEF Arrive, Core, Own, open
<1>5. Own(r)'
  BY <1>3, <1>4 DEF Own
<1>6. Local(r) /\ pc[r] # "done"
  BY <1>2, StepIsLocal
<1> QED
  BY <1>3, <1>4, <1>5, <1>6, Quiet

\* A thrown error leaves the rest to Commit; r's part is what its answer means.
LEMMA ThrowStep ==
  ASSUME Core, NEW r \in Requests, pc[r] \in {"start", "post", "mark", "direct"},
         NEW k \in Refusals \cup {"pending_already_decided"}, Throw(r, k),
         UNCHANGED <<stored, cmd, open, before>>,
         k \in Refusals => uTx[r] = {},
         k = "pending_already_decided" =>
            pc[r] = "mark" /\ \E row \in pendings : row.id = cmd[r].about /\ row.status # "pending",
         Local(r)
  PROVE  Core'
<1>1. k \in Answers /\ k \notin {"submitted", "approved", "rejected", "posted"}
  BY DEF Answers, Refusals
<1>2. TypeOK' /\ pc'[r] = "commit" /\ answer'[r] = [kind |-> k, id |-> None]
  BY <1>1, ThrowType DEF Core
<1>3. /\ uRow' = uRow /\ uTx' = uTx /\ cmd' = cmd /\ pendings' = pendings /\ ledger' = ledger
  BY DEF open, stored
<1>4. Own(r) /\ uRow[r] = {}
  BY DEF Core, Own
<1>5. AnswerHeld(r)'
  BY <1>1, <1>2, <1>3 DEF AnswerHeld
<1>6. uTx[r] # {} => \E row \in pendings : row.id = cmd[r].about /\ row.status # "pending"
  BY <1>1
<1>7. Own(r)'
  BY <1>2, <1>3, <1>4, <1>5, <1>6 DEF Own, TxHeld
<1>8. \A q \in Requests \ {r} :
         /\ \A x \in uRow[q], y \in uRow'[r] : x.key # y.key /\ x.id # y.id
         /\ \A x \in uTx[q], y \in uTx'[r] : x.of = y.of => x.of = None
  BY <1>3 DEF Core, Apart
<1> QED
  BY <1>2, <1>7, <1>8, Quiet

\* A step that only moves on: what r holds and is told does not change.
LEMMA GoOnStep ==
  ASSUME Core, NEW r \in Requests, NEW p \in {"post", "mark", "write", "direct"}, Goto(r, p),
         pc[r] # "idle", UNCHANGED <<stored, cmd, open, answer>>, before' \in [Requests -> BOOLEAN],
         p # "mark" => uTx[r] = {}, uRow[r] = {},
         p \in {"post", "mark"} =>
            /\ cmd[r].kind \in {"approve", "reject"}
            /\ \E row \in pendings : row.id = cmd[r].about /\ row.createdBy # cmd[r].actor,
         p = "post" => cmd[r].kind = "approve",
         p = "mark" /\ cmd[r].kind = "approve" => \E x \in ledger \cup uTx[r] : x.of = cmd[r].about,
         p = "direct" => cmd[r].kind = "direct",
         p = "write" => cmd[r].kind = "set",
         Local(r), pc[r] # "done"
  PROVE  Core'
<1>1. TypeOK'
  BY ControlType DEF Core, TypeOK, stored, open
<1>2. pc'[r] = p
  BY DEF Goto, Core, TypeOK
<1>3. Own(r)'
  BY <1>2 DEF Core, Own, TxHeld, stored, open
<1>4. \A q \in Requests \ {r} :
         /\ \A x \in uRow[q], y \in uRow'[r] : x.key # y.key /\ x.id # y.id
         /\ \A x \in uTx[q], y \in uTx'[r] : x.of = y.of => x.of = None
  BY DEF Core, Apart, open
<1> QED
  BY <1>1, <1>3, <1>4, Quiet

LEMMA InsertStep ==
  ASSUME Core, NEW r \in Requests, Insert(r)
  PROVE  Core'
<1>1. TypeOK /\ pc[r] = "start" /\ cmd[r].kind = "submit" /\ Own(r)
  BY DEF Core, Insert, Submits
<1>2. PICK row \in PendingRow :
         row = [id |-> r, key |-> cmd[r].about, payload |-> cmd[r].payload,
                createdBy |-> cmd[r].actor, status |-> "pending", decidedBy |-> None, tx |-> None]
  BY <1>1, CommandType DEF PendingRow
<1>3. /\ uRow' = [uRow EXCEPT ![r] = {row}] /\ uRow'[r] = {row}
      /\ uTx' = uTx /\ uTx'[r] = {} /\ cmd' = cmd /\ pendings' = pendings /\ ledger' = ledger
  BY <1>1, <1>2 DEF Insert, stored, TypeOK, Own
<1>4. Goto(r, "commit") /\ Tell(r, "submitted", r) /\ "submitted" \in Answers
  BY DEF Insert, Answers
<1>5. answer'[r] = [kind |-> "submitted", id |-> r] /\ pc'[r] = "commit"
  BY <1>1, <1>4, TellType DEF TypeOK, Goto
<1>6. TypeOK'
  <2>1. uRow' \in [Requests -> SUBSET PendingRow]
    BY <1>1, <1>2, <1>3 DEF TypeOK
  <2> QED
    BY <1>1, <1>4, <2>1, ControlType, TellType DEF TypeOK, Insert, stored
<1>7. RowHeld(r, row)'
  <2>1. \A y \in pendings : y.key # row.key
    BY <1>2 DEF Insert, SameKey
  <2> QED
    BY <1>1, <1>2, <1>3, <2>1 DEF RowHeld
<1>8. AnswerHeld(r)'
  BY <1>2, <1>3, <1>5 DEF AnswerHeld
<1>9. Own(r)'
  BY <1>1, <1>3, <1>5, <1>7, <1>8 DEF Own
<1>10. \A q \in Requests \ {r} :
          /\ \A x \in uRow[q], y \in uRow'[r] : x.key # y.key /\ x.id # y.id
          /\ \A x \in uTx[q], y \in uTx'[r] : x.of = y.of => x.of = None
  <2> SUFFICES ASSUME NEW q \in Requests \ {r}, NEW x \in uRow[q]
               PROVE  x.key # row.key /\ x.id # row.id
    BY <1>3
  <2>1. x.key # row.key
    BY <1>2 DEF Insert, Others
  <2>2. RowHeld(q, x)
    BY DEF Core, Own
  <2>3. \A old \in pendings : old.id # r
    BY <1>1 DEF Core, Rows
  <2>4. x.id # r
    BY <2>2, <2>3 DEF RowHeld
  <2> QED
    BY <1>2, <2>1, <2>4
<1> QED
  BY <1>1, <1>6, <1>9, <1>10, StepIsLocal, Quiet DEF Step, Insert, Commit

LEMMA ReplaySubmissionStep ==
  ASSUME Core, NEW r \in Requests, ReplaySubmission(r)
  PROVE  Core'
<1>1. TypeOK /\ pc[r] = "start" /\ cmd[r].kind = "submit" /\ Own(r)
  BY DEF Core, ReplaySubmission, Submits
<1>2. PICK row \in pendings :
         row.key = cmd[r].about /\ row.payload = cmd[r].payload /\ Tell(r, "submitted", row.id)
  BY DEF ReplaySubmission, SameKey
<1>3. row.id \in Requests /\ "submitted" \in Answers
  BY <1>1 DEF TypeOK, PendingRow, Answers
<1>4. answer'[r] = [kind |-> "submitted", id |-> row.id] /\ pc'[r] = "commit"
  BY <1>1, <1>2, <1>3, TellType DEF TypeOK, ReplaySubmission, Goto
<1>5. TypeOK'
  BY <1>1, <1>2, <1>3, ControlType, TellType DEF TypeOK, ReplaySubmission, stored, open
<1>6. /\ uRow' = uRow /\ uTx' = uTx /\ cmd' = cmd /\ pendings' = pendings /\ ledger' = ledger
      /\ uRow[r] = {} /\ uTx[r] = {}
  BY <1>1 DEF ReplaySubmission, stored, open, Own
<1>7. AnswerHeld(r)'
  BY <1>2, <1>4, <1>6 DEF AnswerHeld
<1>8. Own(r)'
  BY <1>1, <1>4, <1>6, <1>7 DEF Own
<1>9. Local(r)
  BY <1>1, StepIsLocal DEF Step, ReplaySubmission, Commit, Submits
<1> QED
  BY <1>1, <1>5, <1>6, <1>8, <1>9, Quiet

LEMMA RefuseSubmissionStep ==
  ASSUME Core, NEW r \in Requests, RefuseSubmission(r)
  PROVE  Core'
<1>1. TypeOK /\ pc[r] = "start" /\ Own(r) /\ Throw(r, "idempotency_conflict")
  BY DEF Core, RefuseSubmission, Submits
<1>2. Local(r)
  BY <1>1, StepIsLocal DEF Step, RefuseSubmission, Commit, Submits
<1>3. UNCHANGED <<stored, cmd, open, before>>
  BY DEF RefuseSubmission
<1>4. "idempotency_conflict" \in Refusals
  BY DEF Refusals
<1>5. uTx[r] = {}
  BY <1>1 DEF Own
<1> QED
  BY <1>1, <1>2, <1>3, <1>4, <1>5, ThrowStep

LEMMA ReadPendingStep ==
  ASSUME Core, NEW r \in Requests, ReadPending(r)
  PROVE  Core'
<1>1. TypeOK /\ pc[r] = "start" /\ cmd[r].kind \in {"approve", "reject"} /\ Own(r)
  BY DEF Core, ReadPending, Decides
<1>2. Local(r)
  BY <1>1, StepIsLocal DEF Step, ReadPending, Commit, Decides
<1>3. uTx[r] = {} /\ uRow[r] = {} /\ UNCHANGED <<stored, cmd, open, before>>
  BY <1>1 DEF Own, ReadPending
<1>4. {"pending_not_found", "self_approve_forbidden"} \subseteq Refusals
  BY DEF Refusals
<1>5. ASSUME NEW k \in {"pending_not_found", "self_approve_forbidden"}, Throw(r, k)
      PROVE  Core'
  BY <1>1, <1>2, <1>3, <1>4, <1>5, ThrowStep
<1>6. CASE ~(\E k \in {"pending_not_found", "self_approve_forbidden"} : Throw(r, k))
  <2>1. PICK row \in pendings : row.id = cmd[r].about /\ row.status = "pending"
    BY <1>6 DEF ReadPending
  <2>2. Named(r) = row
    BY <2>1, NamedIs DEF Core
  <2>3. /\ row.createdBy # cmd[r].actor /\ UNCHANGED answer
        /\ Goto(r, IF cmd[r].kind = "approve" THEN "post" ELSE "mark")
    BY <1>6, <2>1, <2>2 DEF ReadPending
  <2>4. before' \in [Requests -> BOOLEAN]
    BY <1>1, <1>3 DEF TypeOK
  <2>5. CASE cmd[r].kind = "approve"
    BY <1>1, <1>2, <1>3, <2>1, <2>3, <2>4, <2>5, GoOnStep
  <2>6. CASE cmd[r].kind = "reject"
    BY <1>1, <1>2, <1>3, <2>1, <2>3, <2>4, <2>6, GoOnStep
  <2> QED
    BY <1>1, <2>5, <2>6
<1> QED
  BY <1>5, <1>6

LEMMA PostPendingStep ==
  ASSUME Core, NEW r \in Requests, PostPending(r)
  PROVE  Core'
<1>1. TypeOK /\ pc[r] = "post" /\ cmd[r].kind = "approve" /\ Own(r)
  BY DEF Core, PostPending, Decides, Own
<1>2. PICK x \in TxRow : x = [id |-> r, of |-> cmd[r].about, by |-> cmd[r].actor]
  BY <1>1, CommandType DEF TxRow
<1>3. /\ uTx' = [uTx EXCEPT ![r] = {x}] /\ uTx'[r] = {x}
      /\ uRow' = uRow /\ uRow'[r] = {} /\ cmd' = cmd /\ pendings' = pendings /\ ledger' = ledger
  BY <1>1, <1>2 DEF PostPending, stored, TypeOK, Own
<1>4. pc'[r] = "mark"
  BY <1>1 DEF PostPending, Goto, TypeOK
<1>5. TypeOK'
  <2>1. uTx' \in [Requests -> SUBSET TxRow]
    BY <1>1, <1>2, <1>3 DEF TypeOK
  <2> QED
    BY <1>1, <2>1, ControlType DEF TypeOK, PostPending, stored
<1>6. x.of = cmd[r].about
  BY <1>2
<1>7. TxHeld(r, x)'
  BY <1>1, <1>2, <1>3 DEF TxHeld, PostPending
<1>8. Own(r)'
  BY <1>1, <1>3, <1>4, <1>6, <1>7 DEF Own
<1>9. \A q \in Requests \ {r} :
         /\ \A y \in uRow[q], z \in uRow'[r] : y.key # z.key /\ y.id # z.id
         /\ \A y \in uTx[q], z \in uTx'[r] : y.of = z.of => y.of = None
  BY <1>3, <1>6 DEF PostPending, Others
<1>10. Local(r)
  BY <1>1, StepIsLocal DEF Step, PostPending, Commit, Decides
<1> QED
  BY <1>1, <1>5, <1>8, <1>9, <1>10, Quiet

LEMMA ReplayPendingStep ==
  ASSUME Core, NEW r \in Requests, ReplayPending(r)
  PROVE  Core'
<1>1. TypeOK /\ pc[r] = "post" /\ cmd[r].kind = "approve" /\ Own(r)
  BY DEF Core, ReplayPending, Decides, Own
<1>2. Local(r)
  BY <1>1, StepIsLocal DEF Step, ReplayPending, Commit, Decides
<1>3. before' \in [Requests -> BOOLEAN] /\ UNCHANGED <<stored, cmd, open, answer>> /\ Goto(r, "mark")
  BY <1>1 DEF TypeOK, ReplayPending
<1>4. /\ uRow[r] = {} /\ \E x \in ledger \cup uTx[r] : x.of = cmd[r].about
      /\ \E row \in pendings : row.id = cmd[r].about /\ row.createdBy # cmd[r].actor
  BY <1>1 DEF Own, ReplayPending
<1> QED
  BY <1>1, <1>2, <1>3, <1>4, GoOnStep

LEMMA RefusePendingStep ==
  ASSUME Core, NEW r \in Requests, RefusePending(r)
  PROVE  Core'
<1>1. TypeOK /\ pc[r] = "post" /\ Own(r) /\ Throw(r, "posting_refused")
  BY DEF Core, RefusePending, Decides
<1>2. Local(r)
  BY <1>1, StepIsLocal DEF Step, RefusePending, Commit, Decides
<1>3. UNCHANGED <<stored, cmd, open, before>> /\ "posting_refused" \in Refusals
  BY DEF RefusePending, Refusals
<1>4. uTx[r] = {}
  BY <1>1 DEF Own
<1> QED
  BY <1>1, <1>2, <1>3, <1>4, ThrowStep

\* An approval that finds its row undecided posted it itself: a posting stored
\* for the row would have been committed with a decision.
LEMMA DecisionIs ==
  ASSUME Core, NEW r \in Requests, pc[r] = "mark", NEW old \in pendings,
         old.id = cmd[r].about, old.status = "pending"
  PROVE  LET row == Decision(r)
         IN  /\ row \in PendingRow
             /\ row.id = old.id /\ row.key = old.key /\ row.payload = old.payload
             /\ row.createdBy = old.createdBy /\ row.createdBy # cmd[r].actor
             /\ row.decidedBy = cmd[r].actor
             /\ row.status = (IF cmd[r].kind = "approve" THEN "approved" ELSE "rejected")
             /\ row.tx \in Requests \cup {None}
             /\ cmd[r].kind = "approve" => row.tx = r /\ uTx[r] # {}
<1>1. /\ TypeOK /\ Rows /\ Postings /\ Own(r)
      /\ cmd[r].kind \in {"approve", "reject"} /\ cmd[r].actor \in Admins
      /\ old \in PendingRow
  BY CommandType DEF Core, Own, TypeOK
<1>2. Named(r) = old
  BY <1>1, NamedIs
<1>3. old.createdBy # cmd[r].actor
  BY <1>1 DEF Own, Rows
<1>4. cmd[r].kind = "approve" => uTx[r] # {} /\ Posted(r) = r
  <2> SUFFICES ASSUME cmd[r].kind = "approve"
               PROVE  uTx[r] # {} /\ Posted(r) = r
    OBVIOUS
  <2>1. \A x \in ledger : x.of # cmd[r].about
    <3>1. cmd[r].about # None
      BY <1>1, NoneAssumption DEF PendingRow
    <3> QED
      BY <1>1, <3>1 DEF Postings, Rows
  <2>2. PICK x \in uTx[r] : x.of = cmd[r].about
    BY <1>1, <2>1 DEF Own
  <2>3. x.id = r /\ \A y \in uTx[r] : y = x
    BY <1>1, <2>2 DEF Own, TxHeld
  <2>4. (CHOOSE y \in ledger \cup uTx[r] : y.of = cmd[r].about) = x
    BY <2>1, <2>2, <2>3
  <2> QED
    BY <2>2, <2>3, <2>4 DEF Posted
<1> QED
  BY <1>1, <1>2, <1>3, <1>4 DEF Decision, PendingRow

LEMMA MarkStep ==
  ASSUME Core, NEW r \in Requests, Mark(r)
  PROVE  Core'
<1>1. TypeOK /\ pc[r] = "mark" /\ cmd[r].kind \in {"approve", "reject"} /\ Own(r)
  BY DEF Core, Mark, Decides
<1>2. Local(r)
  BY <1>1, StepIsLocal DEF Step, Mark, Commit, Decides
<1>3. PICK old \in pendings : old.id = cmd[r].about
  BY <1>1 DEF Own
<1>4. Named(r) = old
  BY <1>3, NamedIs DEF Core
<1>5. CASE old.status # "pending"
  <2>1. Throw(r, "pending_already_decided") /\ UNCHANGED <<stored, cmd, open, before>>
    BY <1>4, <1>5 DEF Mark, open
  <2>2. "pending_already_decided" \notin Refusals
    BY DEF Refusals
  <2> QED
    BY <1>1, <1>2, <1>3, <1>5, <2>1, <2>2, ThrowStep
<1>6. CASE old.status = "pending"
  <2>1. PICK row \in PendingRow :
          /\ row = Decision(r)
          /\ row.id = old.id /\ row.key = old.key /\ row.payload = old.payload
          /\ row.createdBy = old.createdBy /\ row.createdBy # cmd[r].actor
          /\ row.decidedBy = cmd[r].actor
          /\ row.status = (IF cmd[r].kind = "approve" THEN "approved" ELSE "rejected")
          /\ row.tx \in Requests \cup {None}
          /\ cmd[r].kind = "approve" => row.tx = r /\ uTx[r] # {}
    BY <1>1, <1>3, <1>6, DecisionIs
  <2>2. Tell(r, row.status, row.tx) /\ Goto(r, "commit") /\ row.status \in Answers
    BY <1>4, <1>6, <2>1 DEF Mark, Answers
  <2>3. answer'[r] = [kind |-> row.status, id |-> row.tx] /\ pc'[r] = "commit"
    BY <1>1, <2>1, <2>2, TellType DEF TypeOK, Goto
  <2>4. /\ uRow' = [uRow EXCEPT ![r] = {row}] /\ uRow'[r] = {row}
        /\ uTx' = uTx /\ cmd' = cmd /\ pendings' = pendings /\ ledger' = ledger
    BY <1>1, <1>4, <1>6, <2>1 DEF Mark, stored, TypeOK
  <2>5. TypeOK'
    <3>1. uRow' \in [Requests -> SUBSET PendingRow]
      BY <1>1, <2>4 DEF TypeOK
    <3>2. /\ answer' \in [Requests -> [kind : Answers, id : Requests \cup {None}]]
          /\ cmd' \in [Requests -> Command \cup {None}]
          /\ pc' \in [Requests -> {"idle", "start", "post", "mark", "write", "direct", "commit", "done"}]
          /\ \A q \in Requests : pc'[q] # "idle" => cmd'[q] \in Command
      BY <1>1, <2>1, <2>2, <2>4, ControlType, TellType
    <3> QED
      BY <1>1, <2>4, <3>1, <3>2 DEF TypeOK, Mark, stored
  <2>6. RowHeld(r, row)'
    BY <1>1, <1>3, <1>6, <2>1, <2>4 DEF RowHeld
  <2>7. cmd[r].kind = "reject" => uTx[r] = {}
    BY <1>1 DEF Own, TxHeld
  <2>8. AnswerHeld(r)'
    BY <1>1, <1>3, <2>1, <2>3, <2>4, <2>7 DEF AnswerHeld, Refusals
  <2>9. Own(r)'
    BY <1>1, <2>3, <2>4, <2>6, <2>8 DEF Own, TxHeld
  <2>10. \A q \in Requests \ {r} :
          /\ \A x \in uRow[q], y \in uRow'[r] : x.key # y.key /\ x.id # y.id
          /\ \A x \in uTx[q], y \in uTx'[r] : x.of = y.of => x.of = None
    <3>1. \A q \in Requests \ {r} : \A x \in uTx[q], y \in uTx'[r] : x.of = y.of => x.of = None
      BY <2>4 DEF Core, Apart
    <3> SUFFICES ASSUME NEW q \in Requests \ {r}, NEW x \in uRow[q]
                 PROVE  x.key # row.key /\ x.id # row.id
      BY <2>4, <3>1
    <3>2. x.id # row.id
      BY <1>3, <2>1 DEF Mark, Others
    <3>3. RowHeld(q, x)
      BY DEF Core, Own
    <3>4. x.key # row.key
      BY <1>3, <2>1, <3>2, <3>3 DEF RowHeld, Core, Rows, SubmittedOnce
    <3> QED
      BY <3>2, <3>4
  <2> QED
    BY <1>1, <1>2, <2>5, <2>9, <2>10, Quiet
<1> QED
  BY <1>5, <1>6

LEMMA ReadSettingStep ==
  ASSUME Core, NEW r \in Requests, ReadSetting(r)
  PROVE  Core'
<1>1. TypeOK /\ pc[r] = "start" /\ cmd[r].kind = "set" /\ Own(r)
  BY DEF Core, ReadSetting
<1>2. Local(r)
  BY <1>1, StepIsLocal DEF Step, ReadSetting, Commit
<1>3. /\ before' \in [Requests -> BOOLEAN] /\ UNCHANGED <<stored, cmd, open, answer>>
      /\ Goto(r, "write") /\ uTx[r] = {} /\ uRow[r] = {}
  BY <1>1 DEF TypeOK, ReadSetting, Own
<1> QED
  BY <1>1, <1>2, <1>3, GoOnStep

LEMMA WriteSettingStep ==
  ASSUME Core, NEW r \in Requests, WriteSetting(r)
  PROVE  Core'
<1>1. TypeOK /\ pc[r] = "write" /\ cmd[r].kind = "set" /\ Own(r) /\ cmd[r].about \in BOOLEAN
  BY CommandType DEF Core, WriteSetting, Own
<1>2. Local(r)
  BY <1>1, StepIsLocal DEF Step, WriteSetting, Commit
<1>3. "set" \in Answers /\ "set" \notin Refusals
  BY DEF Answers, Refusals
<1>4. answer'[r] = [kind |-> "set", id |-> None] /\ pc'[r] = "commit"
  BY <1>1, <1>3, TellType DEF TypeOK, WriteSetting, Goto
<1>5. /\ uRow' = uRow /\ uTx' = uTx /\ cmd' = cmd /\ uRow[r] = {} /\ uTx[r] = {}
  BY <1>1 DEF WriteSetting, Own
<1>6. TypeOK'
  <2>1. uSetting' \in [Requests -> SUBSET BOOLEAN]
    BY <1>1 DEF TypeOK, WriteSetting
  <2>2. /\ answer' \in [Requests -> [kind : Answers, id : Requests \cup {None}]]
        /\ cmd' \in [Requests -> Command \cup {None}]
        /\ pc' \in [Requests -> {"idle", "start", "post", "mark", "write", "direct", "commit", "done"}]
        /\ \A q \in Requests : pc'[q] # "idle" => cmd'[q] \in Command
    BY <1>1, <1>3, <1>5, ControlType, TellType DEF WriteSetting
  <2> QED
    BY <1>1, <2>1, <2>2 DEF TypeOK, WriteSetting, stored
<1>7. AnswerHeld(r)'
  BY <1>3, <1>4 DEF AnswerHeld
<1>8. Own(r)'
  BY <1>4, <1>5, <1>7 DEF Own
<1> QED
  BY <1>1, <1>2, <1>5, <1>6, <1>8, Quiet

LEMMA GateStep ==
  ASSUME Core, NEW r \in Requests, Gate(r)
  PROVE  Core'
<1>1. TypeOK /\ pc[r] = "start" /\ cmd[r].kind = "direct" /\ Own(r)
  BY DEF Core, Gate
<1>2. Local(r)
  BY <1>1, StepIsLocal DEF Step, Gate, Commit
<1>3. UNCHANGED <<stored, cmd, open, before>> /\ "approval_required" \in Refusals
  BY DEF Gate, Refusals
<1>4. uTx[r] = {} /\ uRow[r] = {} /\ before' \in [Requests -> BOOLEAN]
  BY <1>1, <1>3 DEF Own, TypeOK
<1>5. CASE Throw(r, "approval_required")
  BY <1>1, <1>2, <1>3, <1>4, <1>5, ThrowStep
<1>6. CASE Goto(r, "direct") /\ UNCHANGED answer
  BY <1>1, <1>2, <1>3, <1>4, <1>6, GoOnStep
<1> QED
  BY <1>5, <1>6 DEF Gate

LEMMA PostDirectStep ==
  ASSUME Core, NEW r \in Requests, PostDirect(r)
  PROVE  Core'
<1>1. TypeOK /\ pc[r] = "direct" /\ cmd[r].kind = "direct" /\ Own(r)
  BY DEF Core, PostDirect, Own
<1>2. Local(r)
  BY <1>1, StepIsLocal DEF Step, PostDirect, Commit
<1>3. uTx[r] = {} /\ uRow[r] = {}
  BY <1>1 DEF Own
<1>4. CASE Throw(r, "posting_refused") /\ UNCHANGED uTx
  <2>1. UNCHANGED <<stored, cmd, open, before>> /\ "posting_refused" \in Refusals
    BY <1>4 DEF PostDirect, open, Refusals
  <2> QED
    BY <1>1, <1>2, <1>3, <1>4, <2>1, ThrowStep
<1>5. CASE ~(Throw(r, "posting_refused") /\ UNCHANGED uTx)
  <2>1. PICK x \in TxRow : x = [id |-> r, of |-> None, by |-> cmd[r].actor]
    BY <1>1, CommandType DEF TxRow
  <2>2. /\ uTx' = [uTx EXCEPT ![r] = {x}] /\ uTx'[r] = {x} /\ uRow' = uRow /\ cmd' = cmd
        /\ Tell(r, "posted", r) /\ Goto(r, "commit") /\ pendings' = pendings /\ ledger' = ledger
    BY <1>1, <1>5, <2>1 DEF PostDirect, TypeOK, stored
  <2>3. "posted" \in Answers /\ "posted" \notin Refusals
    BY DEF Answers, Refusals
  <2>4. answer'[r] = [kind |-> "posted", id |-> r] /\ pc'[r] = "commit"
    BY <1>1, <2>2, <2>3, TellType DEF TypeOK, Goto
  <2>5. TypeOK'
    <3>1. uTx' \in [Requests -> SUBSET TxRow]
      BY <1>1, <2>2 DEF TypeOK
    <3> QED
      BY <1>1, <2>2, <2>3, <3>1, ControlType, TellType DEF TypeOK, PostDirect, stored
  <2>6. AnswerHeld(r)'
    BY <2>2, <2>3, <2>4 DEF AnswerHeld
  <2>7. TxHeld(r, x)'
    BY <1>1, <2>1, <2>2 DEF TxHeld
  <2>8. Own(r)'
    BY <1>1, <1>3, <2>2, <2>4, <2>6, <2>7 DEF Own
  <2>9. \A q \in Requests \ {r} :
          /\ \A y \in uRow[q], z \in uRow'[r] : y.key # z.key /\ y.id # z.id
          /\ \A y \in uTx[q], z \in uTx'[r] : y.of = z.of => y.of = None
    BY <1>3, <2>1, <2>2
  <2> QED
    BY <1>1, <1>2, <2>5, <2>8, <2>9, Quiet
<1> QED
  BY <1>4, <1>5

LEMMA AbortStep ==
  ASSUME Core, NEW r \in Requests, Abort(r)
  PROVE  Core'
<1>1. TypeOK /\ pc[r] # "idle" /\ pc[r] # "done"
  BY DEF Core, Abort
<1>2. Local(r)
  BY <1>1, StepIsLocal
<1>3. "failed" \in Answers /\ "failed" \notin Refusals
  BY DEF Answers, Refusals
<1>4. answer'[r] = [kind |-> "failed", id |-> None] /\ pc'[r] = "done"
  BY <1>1, <1>3, TellType DEF TypeOK, Abort, Goto
<1>5. uRow'[r] = {} /\ uTx'[r] = {}
  BY <1>1 DEF Abort, Discard, TypeOK
<1>6. TypeOK'
  <2>1. /\ uRow' \in [Requests -> SUBSET PendingRow]
        /\ uTx' \in [Requests -> SUBSET TxRow]
        /\ uSetting' \in [Requests -> SUBSET BOOLEAN]
    BY <1>1 DEF Abort, Discard, TypeOK
  <2> QED
    BY <1>1, <1>3, <2>1, ControlType, TellType DEF TypeOK, Abort, stored
<1>7. AnswerTrue(r)'
  BY <1>3, <1>4 DEF AnswerTrue
<1>8. Own(r)'
  BY <1>4, <1>5, <1>7 DEF Own
<1> QED
  BY <1>1, <1>2, <1>5, <1>6, <1>8, Quiet

\* What a commit makes of the stored rows: every row keeps its id, key, payload
\* and maker, a decided row stays as it is, and only r's own row is new.
LEMMA CommitWrites ==
  ASSUME Core, NEW r \in Requests, Commit(r)
  PROVE  /\ \A row \in pendings : \E kept \in pendings' :
              /\ kept.id = row.id /\ kept.key = row.key
              /\ kept.payload = row.payload /\ kept.createdBy = row.createdBy
              /\ kept.status = "pending" => kept = row
              /\ row.status # "pending" => kept = row
         /\ \A row \in pendings' : row \in uRow[r] \/ row \in pendings
         /\ \A row \in pendings : (\A new \in uRow[r] : new.id # row.id) => row \in pendings'
         /\ \A row \in uRow[r] : row \in pendings'
         /\ ledger' = ledger \cup uTx[r]
<1>1. pendings' = {row \in pendings : \A new \in uRow[r] : new.id # row.id} \cup uRow[r]
  BY DEF Commit
<1>2. ASSUME NEW row \in pendings, NEW new \in uRow[r], new.id = row.id
      PROVE  /\ row.status = "pending" /\ new.status # "pending" /\ new.key = row.key
             /\ new.payload = row.payload /\ new.createdBy = row.createdBy
  <2>1. RowHeld(r, new) /\ Rows /\ pc[r] # "done"
    BY DEF Core, Own, Commit
  <2>2. row.id # r
    BY <2>1 DEF Rows
  <2> QED
    BY <1>2, <2>1, <2>2 DEF RowHeld, Rows
<1>3. ASSUME NEW row \in pendings
      PROVE  \E kept \in pendings' :
               /\ kept.id = row.id /\ kept.key = row.key
               /\ kept.payload = row.payload /\ kept.createdBy = row.createdBy
               /\ kept.status = "pending" => kept = row
               /\ row.status # "pending" => kept = row
  <2>1. CASE \A new \in uRow[r] : new.id # row.id
    BY <1>1, <2>1
  <2>2. CASE \E new \in uRow[r] : new.id = row.id
    BY <1>1, <1>2, <2>2
  <2> QED
    BY <2>1, <2>2
<1> QED
  BY <1>1, <1>3 DEF Commit

LEMMA CommitType ==
  ASSUME Core, Settings, NEW r \in Requests, Commit(r)
  PROVE  TypeOK' /\ pc'[r] = "done" /\ uRow'[r] = {} /\ uTx'[r] = {} /\ cmd' = cmd
<1>1. TypeOK /\ pc[r] = "commit" /\ Goto(r, "done") /\ Discard(r) /\ cmd' = cmd /\ "failed" \in Answers
  BY DEF Core, Commit, Answers
<1>2. /\ uRow' \in [Requests -> SUBSET PendingRow] /\ uRow'[r] = {}
      /\ uTx' \in [Requests -> SUBSET TxRow] /\ uTx'[r] = {}
      /\ uSetting' \in [Requests -> SUBSET BOOLEAN]
  BY <1>1 DEF Discard, TypeOK
<1>3. pendings' \subseteq PendingRow /\ ledger' \subseteq TxRow
  BY <1>1 DEF Commit, TypeOK
<1>4. required' \in BOOLEAN /\ trail' \in Seq(BOOLEAN)
  <2>1. uSetting[r] # {} => cmd[r].about \in BOOLEAN
    BY <1>1, CommandType DEF Settings
  <2>2. \A b \in BOOLEAN : Append(trail, b) \in Seq(BOOLEAN)
    BY <1>1 DEF TypeOK
  <2>3. trail' = trail \/ (uSetting[r] # {} /\ trail' = Append(trail, cmd[r].about))
    BY DEF Commit
  <2>4. required' = required \/ (uSetting[r] # {} /\ required' = cmd[r].about)
    BY DEF Commit
  <2>5. required \in BOOLEAN /\ trail \in Seq(BOOLEAN)
    BY <1>1 DEF TypeOK
  <2> QED
    BY <2>1, <2>2, <2>3, <2>4, <2>5
<1>5. answer' \in [Requests -> [kind : Answers, id : Requests \cup {None}]]
  BY <1>1, TellType DEF Commit, TypeOK
<1>6. before' = before
  BY DEF Commit
<1> QED
  BY <1>1, <1>2, <1>3, <1>4, <1>5, <1>6, ControlType DEF TypeOK, Goto

\* The rows after a commit: r's row had a fresh key and id, or replaces an
\* undecided row whose posting it commits with.
LEMMA CommitRows ==
  ASSUME Core, NEW r \in Requests, Commit(r), pc'[r] = "done",
         \A q \in Requests \ {r} : pc'[q] = pc[q]
  PROVE  Rows'
<1>1. /\ Rows /\ TypeOK /\ Own(r) /\ pc[r] = "commit"
      /\ \A row \in uRow[r] : RowHeld(r, row) /\ uRow[r] = {row} /\ row.id \in Requests
  BY DEF Core, Own, Commit, TypeOK, PendingRow
<1>2. pendings' = {row \in pendings : \A new \in uRow[r] : new.id # row.id} \cup uRow[r]
  BY DEF Commit
<1>3. ledger' = ledger \cup uTx[r]
  BY DEF Commit
<1>4. \A x, y \in pendings' : x.id = y.id => x = y
  BY <1>1, <1>2 DEF Rows
<1>5. ASSUME NEW new \in uRow[r], NEW row \in pendings, row.key = new.key
      PROVE  row.id = new.id
  BY <1>1, <1>5 DEF RowHeld, Rows, SubmittedOnce
<1>6. SubmittedOnce'
  BY <1>1, <1>2, <1>5 DEF SubmittedOnce, Rows
<1>7. \A row \in pendings' : pc'[row.id] = "done"
  <2>1. \A row \in pendings : row.id \in Requests /\ pc[row.id] = "done"
    BY <1>1 DEF Rows, TypeOK, PendingRow
  <2>2. \A row \in pendings : pc'[row.id] = "done"
    BY <1>1, <2>1
  <2>3. \A new \in uRow[r] : new.id = r \/ \E row \in pendings : row.id = new.id
    BY <1>1 DEF RowHeld
  <2> QED
    BY <1>2, <2>2, <2>3
<1>8. ApprovedIsPosted'
  <2> SUFFICES ASSUME NEW row \in pendings', row.status = "approved"
               PROVE  /\ row.decidedBy # row.createdBy
                      /\ [id |-> row.tx, of |-> row.id, by |-> row.decidedBy] \in ledger'
    BY DEF ApprovedIsPosted
  <2>1. CASE row \in pendings
    BY <1>1, <1>3, <2>1 DEF Rows, ApprovedIsPosted
  <2>2. CASE row \in uRow[r]
    <3>1. /\ cmd[r].kind = "approve" /\ row.id = cmd[r].about /\ row.decidedBy = cmd[r].actor
          /\ row.createdBy # cmd[r].actor /\ row.tx = r /\ uTx[r] # {}
      BY <1>1, <2>2 DEF RowHeld
    <3>2. [id |-> r, of |-> cmd[r].about, by |-> cmd[r].actor] \in uTx[r]
      BY <1>1, <3>1 DEF Own, TxHeld
    <3> QED
      BY <1>3, <3>1, <3>2
  <2> QED
    BY <1>2, <2>1, <2>2
<1> QED
  BY <1>4, <1>6, <1>7, <1>8 DEF Rows

LEMMA CommitPostings ==
  ASSUME Core, NEW r \in Requests, Commit(r), pc'[r] = "done",
         \A q \in Requests \ {r} : pc'[q] = pc[q]
  PROVE  Postings'
<1>1. /\ Postings /\ TypeOK /\ Own(r) /\ pc[r] = "commit"
      /\ \A x \in uTx[r] : TxHeld(r, x)
      /\ \A x \in ledger : x.id \in Requests /\ pc[x.id] = "done"
  BY DEF Core, Own, Commit, TypeOK, TxRow, Postings
<1>2. ledger' = ledger \cup uTx[r]
  BY DEF Commit
<1>3. PostedOnce'
  BY <1>1, <1>2 DEF PostedOnce, Postings, TxHeld
<1>4. ASSUME NEW x \in ledger'
      PROVE  pc'[x.id] = "done"
  <2>1. \A y \in uTx[r] : y.id = r
    BY <1>1 DEF TxHeld
  <2> QED
    BY <1>1, <1>2, <2>1
<1>5. ASSUME NEW x \in ledger', x.of # None
      PROVE  \E row \in pendings' : row.id = x.of /\ row.status # "pending"
  <2>1. CASE x \in ledger
    <3>1. PICK row \in pendings : row.id = x.of /\ row.status # "pending"
      BY <1>1, <1>5, <2>1 DEF Postings
    <3> QED
      BY <3>1, CommitWrites
  <2>2. CASE x \in uTx[r]
    <3>1. cmd[r].kind = "approve" /\ x.of = cmd[r].about
      BY <1>1, <1>5, <2>2 DEF TxHeld
    <3>2. CASE uRow[r] # {}
      <4>1. PICK new \in uRow[r] : RowHeld(r, new)
        BY <1>1, <3>2 DEF Own
      <4> QED
        BY <3>1, <4>1, CommitWrites DEF RowHeld
    <3>3. CASE \E row \in pendings : row.id = cmd[r].about /\ row.status # "pending"
      BY <3>1, <3>3, CommitWrites
    <3> QED
      BY <1>1, <2>2, <3>1, <3>2, <3>3 DEF Own
  <2> QED
    BY <1>2, <2>1, <2>2
<1> QED
  BY <1>3, <1>4, <1>5 DEF Postings

\* What another open transaction holds, and what a finished one was told, r's
\* commit does not touch.
LEMMA CommitOthers ==
  ASSUME Core, NEW r \in Requests, Commit(r), NEW q \in Requests, q # r,
         cmd'[q] = cmd[q], pc'[q] = pc[q], answer'[q] = answer[q],
         uRow'[q] = uRow[q], uTx'[q] = uTx[q]
  PROVE  Own(q)'
<1>1. /\ Own(q) /\ Own(r)
      /\ \A x \in uRow[q], y \in uRow[r] : x.key # y.key /\ x.id # y.id
      /\ \A x \in uTx[q], y \in uTx[r] : x.of = y.of => x.of = None
  BY DEF Core, Apart
<1>2. ASSUME NEW row \in uRow[q]
      PROVE  uRow'[q] = {row} /\ RowHeld(q, row)'
  <2>1. RowHeld(q, row) /\ uRow[q] = {row}
    BY <1>1 DEF Own
  <2>2. CASE cmd[q].kind = "submit"
    <3>1. \A y \in pendings' : y.key # row.key
      BY <1>1, <2>1, <2>2, CommitWrites DEF RowHeld
    <3> QED
      BY <2>1, <2>2, <3>1 DEF RowHeld
  <2>3. CASE cmd[q].kind # "submit"
    <3>1. PICK old \in pendings :
             /\ old.id = row.id /\ old.status = "pending"
             /\ old.key = row.key /\ old.payload = row.payload /\ old.createdBy = row.createdBy
      BY <2>1, <2>3 DEF RowHeld
    <3>2. old \in pendings'
      BY <1>1, <3>1, CommitWrites
    <3> QED
      BY <2>1, <2>3, <3>1, <3>2 DEF RowHeld
  <2> QED
    BY <2>1, <2>2, <2>3
<1>3. ASSUME NEW x \in uTx[q]
      PROVE  TxHeld(q, x)'
  BY <1>1, <1>3, CommitWrites DEF Own, TxHeld
<1>4. \A id, maker : (\E row \in pendings : row.id = id /\ row.createdBy # maker) =>
                     (\E row \in pendings' : row.id = id /\ row.createdBy # maker)
  BY CommitWrites
<1>5. \A id : (\E row \in pendings : row.id = id /\ row.status # "pending") =>
              (\E row \in pendings' : row.id = id /\ row.status # "pending")
  BY CommitWrites
<1>6. ledger \subseteq ledger'
  BY CommitWrites
<1>7. AnswerHeld(q) => AnswerHeld(q)'
  BY <1>5, CommitWrites DEF AnswerHeld
<1>8. pc[q] = "done" /\ AnswerTrue(q) => AnswerTrue(q)'
  <2>1. \A x \in uTx[r] : x.id # q
    BY <1>1 DEF Own, TxHeld
  <2>2. \A x \in ledger' : x \in ledger \/ x \in uTx[r]
    BY CommitWrites
  <2>3. "approved" # "pending" /\ "rejected" # "pending"
    OBVIOUS
  <2> QED
    BY <1>5, <1>6, <2>1, <2>2, <2>3, CommitWrites DEF AnswerTrue
<1> QED
  BY <1>1, <1>2, <1>3, <1>4, <1>5, <1>6, <1>7, <1>8 DEF Own

LEMMA CommitStep ==
  ASSUME IInv, NEW r \in Requests, Commit(r)
  PROVE  Core'
<1>1. Core /\ Settings
  BY DEF IInv
<1>2. TypeOK' /\ pc'[r] = "done" /\ uRow'[r] = {} /\ uTx'[r] = {} /\ cmd' = cmd
  BY <1>1, CommitType
<1>3. ASSUME NEW q \in Requests, q # r
      PROVE  /\ cmd'[q] = cmd[q] /\ pc'[q] = pc[q] /\ answer'[q] = answer[q]
             /\ uRow'[q] = uRow[q] /\ uTx'[q] = uTx[q]
  BY <1>1, <1>3 DEF Commit, Goto, Tell, Discard, Core, TypeOK
<1>4. Rows' /\ Postings'
  BY <1>1, <1>2, <1>3, CommitRows, CommitPostings
<1>5. Apart'
  BY <1>1, <1>2, <1>3 DEF Apart, Core
<1>6. \A q \in Requests : q # r => Own(q)'
  BY <1>1, <1>3, CommitOthers
<1>7. AnswerTrue(r)'
  <2>1. CASE answer' = answer
    <3>1. AnswerHeld(r)
      BY <1>1 DEF Core, Own, Commit
    <3>2. \A x \in ledger : x.id # r
      BY <1>1 DEF Core, Postings, Commit
    <3>3. uTx[r] # {} => \E x \in ledger' : x.id = r
      BY <1>1, CommitWrites DEF Core, Own, TxHeld
    <3>4. AnswerHeld(r) /\ answer[r].kind = "submitted" =>
             \E row \in pendings' : row.id = answer[r].id /\ row.key = cmd[r].about
                                      /\ row.payload = cmd[r].payload
      BY <1>1, CommitWrites DEF AnswerHeld
    <3>5. AnswerHeld(r) /\ answer[r].kind \in {"approved", "rejected"} =>
             \E row \in pendings' : row.id = cmd[r].about /\ row.status = answer[r].kind
                                      /\ row.decidedBy = cmd[r].actor /\ row.tx = answer[r].id
      BY <1>1, CommitWrites DEF AnswerHeld
    <3>6. AnswerHeld(r) /\ answer[r].kind = "pending_already_decided" =>
             \E row \in pendings' : row.id = cmd[r].about /\ row.status # "pending"
      BY <1>1, CommitWrites DEF AnswerHeld
    <3>7. answer[r].kind \in Refusals \cup {"rejected", "submitted"} => \A x \in ledger' : x.id # r
      BY <1>1, <3>1, <3>2, CommitWrites DEF AnswerHeld
    <3>8. answer[r].kind = "posted" => uTx[r] # {}
      BY <3>1 DEF AnswerHeld
    <3> QED
      BY <1>2, <2>1, <3>1, <3>3, <3>4, <3>5, <3>6, <3>7, <3>8 DEF AnswerTrue
  <2>2. CASE Tell(r, "failed", None)
    <3>1. answer'[r].kind = "failed" /\ "failed" \notin Refusals
      BY <1>1, <2>2 DEF Tell, Core, TypeOK, Refusals
    <3> QED
      BY <3>1 DEF AnswerTrue
  <2> QED
    BY <2>1, <2>2 DEF Commit
<1>8. Own(r)'
  BY <1>2, <1>7 DEF Own
<1> QED
  BY <1>2, <1>4, <1>5, <1>6, <1>8 DEF Core

LEMMA SettingsStep ==
  ASSUME IInv, NEW r \in Requests, Arrive(r) \/ Step(r) \/ Abort(r)
  PROVE  Settings'
<1> SUFFICES ASSUME NEW q \in Requests, uSetting'[q] # {}
             PROVE  pc'[q] = "commit" /\ cmd'[q].kind = "set"
  BY DEF Settings
<1>1. TypeOK /\ Settings /\ Own(r)
  BY DEF IInv, Core
<1>2. CASE WriteSetting(r)
  BY <1>1, <1>2 DEF WriteSetting, TypeOK, Settings, Own, Goto
<1>3. CASE Commit(r) \/ Abort(r)
  BY <1>1, <1>3 DEF Commit, Abort, Discard, TypeOK, Settings, Goto
<1>4. CASE Arrive(r)
  BY <1>1, <1>4 DEF Arrive, TypeOK, Settings, Goto, open
<1>5. CASE Step(r) /\ ~WriteSetting(r) /\ ~Commit(r)
  <2>1. uSetting' = uSetting /\ cmd' = cmd
    BY <1>5 DEF Step, Insert, ReplaySubmission, RefuseSubmission, ReadPending, PostPending,
       ReplayPending, RefusePending, Mark, ReadSetting, Gate, PostDirect, open
  <2>2. pc[q] = "commit"
    BY <1>1, <2>1 DEF Settings
  <2>3. pc[r] # "commit"
    BY <1>5 DEF Step, Insert, ReplaySubmission, RefuseSubmission, ReadPending, PostPending,
       ReplayPending, RefusePending, Mark, ReadSetting, Gate, PostDirect, Submits, Decides
  <2>4. Local(r)
    BY <1>1, <1>5, StepIsLocal
  <2> QED
    BY <1>1, <2>1, <2>2, <2>3, <2>4 DEF Local, Settings
<1> QED
  BY <1>2, <1>3, <1>4, <1>5

LEMMA InitIInv == Init => IInv
<1> SUFFICES ASSUME Init
             PROVE  IInv
  OBVIOUS
<1>1. TypeOK
  <2>1. <<>> \in Seq(BOOLEAN) /\ "none" \in Answers
    BY DEF Answers
  <2>2. pendings \subseteq PendingRow /\ ledger \subseteq TxRow
    BY DEF Init
  <2>3. answer \in [Requests -> [kind : Answers, id : Requests \cup {None}]]
    BY <2>1 DEF Init
  <2>4. before \in [Requests -> BOOLEAN] /\ required \in BOOLEAN /\ trail \in Seq(BOOLEAN)
    BY <2>1 DEF Init
  <2>5. /\ uRow \in [Requests -> SUBSET PendingRow] /\ uTx \in [Requests -> SUBSET TxRow]
        /\ uSetting \in [Requests -> SUBSET BOOLEAN]
    BY DEF Init
  <2>6. /\ cmd \in [Requests -> Command \cup {None}]
        /\ pc \in [Requests -> {"idle", "start", "post", "mark", "write", "direct", "commit", "done"}]
        /\ \A r \in Requests : pc[r] = "idle"
    BY DEF Init
  <2> QED
    BY <2>2, <2>3, <2>4, <2>5, <2>6 DEF TypeOK
<1>2. Rows /\ Postings /\ Apart /\ Settings
  BY DEF Init, Rows, Postings, Apart, Settings, SubmittedOnce, ApprovedIsPosted, PostedOnce
<1>3. \A r \in Requests : Own(r)
  BY DEF Init, Own
<1> QED
  BY <1>1, <1>2, <1>3 DEF IInv, Core

LEMMA NextIInv == IInv /\ [Next]_vars => IInv'
<1> SUFFICES ASSUME IInv, [Next]_vars
             PROVE  IInv'
  OBVIOUS
<1>1. ASSUME NEW r \in Requests, Arrive(r) \/ Step(r) \/ Abort(r)
      PROVE  IInv'
  <2>1. Core
    BY DEF IInv
  <2>2. Core'
    BY <1>1, <2>1, ArriveStep, AbortStep, InsertStep, ReplaySubmissionStep, RefuseSubmissionStep,
       ReadPendingStep, PostPendingStep, ReplayPendingStep, RefusePendingStep, MarkStep,
       ReadSettingStep, WriteSettingStep, GateStep, PostDirectStep, CommitStep DEF Step
  <2> QED
    BY <1>1, <2>2, SettingsStep DEF IInv
<1>2. CASE UNCHANGED vars
  BY <1>2 DEF vars, stored, open, IInv, Core, Settings, TypeOK, Rows, Postings, Apart, Own, RowHeld,
     TxHeld, AnswerHeld, AnswerTrue, SubmittedOnce, ApprovedIsPosted, PostedOnce
<1> QED
  BY <1>1, <1>2 DEF Next

-----------------------------------------------------------------------------
(* Theorems.                                                               *)

\* Whatever requests do to one another, crashes and lost answers included, the
\* maker-checker invariant holds.
THEOREM Invariance == Spec => []IInv
<1> QED
  BY InitIInv, NextIInv, PTL DEF Spec

\* Every variable of maker-checker keeps its type.
THEOREM TypeCorrect == Spec => []TypeOK
<1>1. IInv => TypeOK
  BY DEF IInv, Core
<1> QED
  BY <1>1, Invariance, PTL

\* One pending transfer moves money at most once, however many approvals read it
\* as pending: they meet at the reservation derived from its id.
THEOREM PendingPostsOnce == Spec => []PostedOnce
<1>1. IInv => PostedOnce
  BY DEF IInv, Core, Postings
<1> QED
  BY <1>1, Invariance, PTL

\* An approved transfer names the transaction posted for it by the admin who
\* decided it, and that admin did not submit it.
THEOREM ApprovalsArePosted == Spec => []ApprovedIsPosted
<1>1. IInv => ApprovedIsPosted
  BY DEF IInv, Core, Rows
<1> QED
  BY <1>1, Invariance, PTL

\* A key submits one pending transfer, concurrent duplicates included.
THEOREM KeysSubmitOnce == Spec => []SubmittedOnce
<1>1. IInv => SubmittedOnce
  BY DEF IInv, Core, Rows
<1> QED
  BY <1>1, Invariance, PTL

\* What a caller was told stays true of the stored rows.
THEOREM AnswersStayTrue == Spec => []AnswersAreTrue
<1>1. IInv => AnswersAreTrue
  BY DEF IInv, Core, Own, AnswersAreTrue
<1> QED
  BY <1>1, Invariance, PTL

\* No step changes a decided row: approvals and rejections that race never
\* overwrite one another.
THEOREM DecisionsStay == Spec => DecisionsAreFinal
<1>1. IInv /\ [Next]_vars =>
        [\A row \in pendings : row.status # "pending" => row \in pendings']_vars
  <2> SUFFICES ASSUME IInv, Next
               PROVE  \A row \in pendings : row.status # "pending" => row \in pendings'
    OBVIOUS
  <2>1. PICK r \in Requests : Arrive(r) \/ Step(r) \/ Abort(r)
    BY DEF Next
  <2>2. CASE Commit(r)
    BY <2>2, CommitWrites DEF IInv
  <2>3. CASE ~Commit(r)
    BY <2>1, <2>3, StepIsLocal DEF Local, stored, IInv, Core
  <2> QED
    BY <2>2, <2>3
<1> QED
  BY <1>1, Invariance, PTL DEF Spec, DecisionsAreFinal
=============================================================================
