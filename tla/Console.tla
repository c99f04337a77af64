------------------------------- MODULE Console -------------------------------
(***************************************************************************)
(* One browser tab of the console: the forms that move money and their     *)
(* idempotency keys.                                                       *)
(*                                                                         *)
(* A key is read from, or minted into, the slot of its kind of operation   *)
(* and kept until a success, so that a retry after a lost answer, an error *)
(* or a reload replays instead of posting twice.  Around the tab: answers  *)
(* that come late or never, another admin who turns the approval setting   *)
(* on and off, and another tab that switches the session's organization.   *)
(* The server is one step per request here; Posting, Approvals and         *)
(* RequestScope show that step in detail.                                  *)
(*                                                                         *)
(* An intent is what a person wants done once: a payload of one kind in    *)
(* one organization.  They submit it until they are told that it is done.  *)
(***************************************************************************)
EXTENDS Naturals

CONSTANTS
  Kinds,            \* OperationKind: the slots
  Parkable,         \* kinds whose form submits for approval when it must
  Reviewed,         \* kinds confirmed in a second step: the transfer form
  AtSubmit,         \* kinds whose key is read at submit: reverse:<transaction>
  NoKind,           \* no form is mounted
  Intents, KindOf, Orgs, OrgOf,
  Survivors,        \* reversals whose legs depend on what is reversed already
  MaxSends, MaxKeys,
  MaxEvents         \* bound: reloads, switches and changes of the setting together

ASSUME ConsoleAssumption ==
  /\ Reviewed \subseteq Parkable /\ Parkable \subseteq Kinds
  /\ AtSubmit \subseteq Kinds /\ Parkable \cap AtSubmit = {}
  /\ NoKind \notin Kinds
  /\ KindOf \in [Intents -> Kinds] /\ OrgOf \in [Intents -> Orgs]
  /\ Survivors \subseteq Intents

VARIABLES
  rows,      \* keys the server accepted: ledger_idempotency_key, ledger_pending_transfer
  required,  \* requireTransferApproval of each organization
  active,    \* the session's activeOrganizationId
  requests,  \* requests that have not reached a handler
  answers,   \* answers that have not reached the page
  form,      \* the mounted form
  waiting,   \* sends of this page whose mutation is pending
  known,     \* the page's settings.get: a set with at most one value
  shown,     \* the organization whose accounts the page lists
  slot,      \* the key store
  durable,   \* does the browser have sessionStorage?
  doubt,     \* history: attempts not known to be refused
  told,      \* history: intents whose success was shown
  exposed,   \* history: intents that one key no longer protects
  minted, sends, events      \* bounds

server == <<rows, required, active>>
net == <<requests, answers>>
page == <<form, waiting, known, shown, slot, durable>>
history == <<doubt, told, exposed>>
bounds == <<minted, sends, events>>
vars == <<server, net, page, history, bounds>>

NoKey == 0
Outcomes == {"accepted", "conflict", "refused"}
Routes == {"post", "park"}
Attempt == [n : Nat \ {0}, intent : Intents, key : Nat \ {0}, route : Routes]
Row == [org : Orgs, route : Routes, key : Nat \ {0}, intent : Intents]
NoForm == [kind |-> NoKind, key |-> NoKey, busy |-> 0, conflict |-> FALSE, review |-> {}]

Init ==
  /\ rows = {} /\ required = [org \in Orgs |-> FALSE] /\ active \in Orgs
  /\ requests = {} /\ answers = {}
  /\ form = NoForm /\ waiting = {} /\ known = {} /\ shown = active
  /\ slot = [k \in Kinds |-> NoKey] /\ durable \in BOOLEAN
  /\ doubt = {} /\ told = {} /\ exposed = {}
  /\ minted = 0 /\ sends = 0 /\ events = 0
-----------------------------------------------------------------------------
(* idempotency.ts *)

\* Is the key of this attempt still free for its intent?
Live(d) == \A r \in rows :
  r.org = OrgOf[d.intent] /\ r.route = d.route /\ r.key = d.key => r.intent = d.intent

\* Unsettled intents whose key goes when the slot of `kind` does.
Loose(kind) == {d.intent : d \in {e \in doubt :
                  KindOf[e.intent] = kind /\ e.intent \notin told /\ Live(e)}}

\* Mutant: the slot is read, nothing is minted (peekOperation).
PeekOperation(kind, key) == key = slot[kind] /\ UNCHANGED <<slot, minted>>

\* startOperation: the key of the slot, or a fresh one.
StartOperation(kind, key) ==
  \/ /\ slot[kind] # NoKey /\ key = slot[kind]
     /\ UNCHANGED <<slot, minted>>
  \/ /\ slot[kind] = NoKey /\ minted < MaxKeys /\ key = minted + 1
     /\ minted' = key
     /\ slot' = [slot EXCEPT ![kind] = key]

\* newOperation: another key, whatever the slot held.
NewOperation(kind) ==
  /\ minted < MaxKeys
  /\ minted' = minted + 1
  /\ slot' = [slot EXCEPT ![kind] = minted + 1]
  /\ exposed' = exposed \cup Loose(kind)
-----------------------------------------------------------------------------
(* The forms *)

\* The effect of a form that mounts; the reversal dialog has no such effect.
Open(kind) ==
  /\ form = NoForm
  /\ \E key \in 0..(minted + 1) :
       /\ IF kind \in AtSubmit THEN key = NoKey /\ UNCHANGED <<slot, minted>>
                               ELSE StartOperation(kind, key)
       /\ form' = [NoForm EXCEPT !.kind = kind, !.key = key]
  /\ UNCHANGED <<server, net, waiting, known, shown, durable, history,
                 sends, events>>

\* Navigation away, while an answer is awaited too: its mutation goes on.
Leave ==
  /\ form # NoForm
  /\ form' = NoForm
  /\ UNCHANGED <<server, net, waiting, known, shown, slot, durable, history, bounds>>

RouteOf(kind) == IF kind \in Parkable /\ known = {TRUE} THEN "park" ELSE "post"

\* A valid draft of the listed accounts.  Only the reversal does not wait for the
\* setting, and the exchange is disabled while it is on.
Ready(i) ==
  LET kind == KindOf[i]
  IN /\ form.kind = kind /\ form.busy = 0
     /\ OrgOf[i] = shown /\ i \notin told
     /\ kind \notin AtSubmit => known # {}
     /\ kind \notin AtSubmit \cup Parkable => known = {FALSE}

\* onReview: the postings are composed and shown.
Review(i) ==
  /\ KindOf[i] \in Reviewed /\ Ready(i)
  /\ form' = [form EXCEPT !.review = {i}, !.conflict = FALSE]
  /\ UNCHANGED <<server, net, waiting, known, shown, slot, durable, history, bounds>>

\* onConfirm, onSubmit: the mutation.  What was reviewed is sent as it was, on the
\* route that the setting names now.
Submit(i) ==
  LET kind == KindOf[i]
      route == RouteOf(kind)
  IN /\ IF kind \in Reviewed THEN form.review = {i} /\ form.busy = 0 ELSE Ready(i)
     /\ sends < MaxSends /\ sends' = sends + 1
     /\ \E key \in 0..(minted + 1) :
          /\ IF kind \in AtSubmit THEN StartOperation(kind, key)
                                  ELSE key = form.key /\ UNCHANGED <<slot, minted>>
          /\ LET a == [n |-> sends + 1, intent |-> i, key |-> key, route |-> route]
             IN requests' = requests \cup {a} /\ doubt' = doubt \cup {a}
     /\ waiting' = waiting \cup {sends + 1}
     /\ form' = [form EXCEPT !.busy = sends + 1, !.conflict = FALSE, !.review = {}]
     /\ exposed' = exposed \cup
          {d.intent : d \in {e \in doubt : e.intent = i /\ e.route # route /\ Live(e)}}
  /\ UNCHANGED <<server, answers, known, shown, durable, told,
                 events>>

Settled(n) == IF form.busy = n THEN [form EXCEPT !.busy = 0] ELSE form

\* Mutant: an error releases the key as a success does.
FailReleasing(n) ==
  /\ n \in waiting
  /\ waiting' = waiting \ {n}
  /\ form' = Settled(n)
  /\ slot' = [k \in Kinds |-> IF k = form.kind THEN NoKey ELSE slot[k]]
  /\ UNCHANGED <<server, net, known, shown, durable, history, bounds>>

\* onError without an answer: the connection failed, the request may have not.
Fail(n) ==
  /\ n \in waiting
  /\ waiting' = waiting \ {n}
  /\ form' = Settled(n)
  /\ UNCHANGED <<server, net, known, shown, slot, durable, history, bounds>>

\* onSuccess: completeOperation, the toast, and away to the transaction.
Succeed(m) ==
  /\ m.outcome = "accepted" /\ m.of.n \in waiting
  /\ answers' = answers \ {m}
  /\ waiting' = waiting \ {m.of.n}
  /\ slot' = [slot EXCEPT ![KindOf[m.of.intent]] = NoKey]
  /\ told' = told \cup {m.of.intent}
  /\ exposed' = exposed \cup (Loose(KindOf[m.of.intent]) \ {m.of.intent})
  /\ form' = NoForm
  /\ UNCHANGED <<server, requests, known, shown, durable, doubt, bounds>>

\* onError with a reason.  The reversal dialog replaces a conflicting key; a form
\* offers to start over.
Refused(m) ==
  LET kind == KindOf[m.of.intent]
  IN /\ m.outcome # "accepted" /\ m.of.n \in waiting
     /\ answers' = answers \ {m}
     /\ waiting' = waiting \ {m.of.n}
     /\ doubt' = doubt \ {m.of}
     /\ form' = IF form.busy = m.of.n
                THEN [Settled(m.of.n) EXCEPT !.conflict = m.outcome = "conflict"] ELSE form
     /\ IF m.outcome = "conflict" /\ kind \in AtSubmit
        THEN NewOperation(kind)
        ELSE UNCHANGED <<slot, minted, exposed>>
  /\ UNCHANGED <<server, requests, known, shown, durable, told,
                 sends, events>>

\* onStartOver, offered on a conflict.
StartOver ==
  /\ form.conflict /\ form.kind \notin AtSubmit
  /\ NewOperation(form.kind)
  /\ form' = [form EXCEPT !.key = minted + 1, !.conflict = FALSE, !.review = {}]
  /\ UNCHANGED <<server, net, waiting, known, shown, durable, doubt, told,
                 sends, events>>
-----------------------------------------------------------------------------
(* The page and the session *)

\* A reload ends the page's mutations and empties its cache.  The memory store
\* goes with it, sessionStorage stays.
Reload ==
  /\ events < MaxEvents /\ events' = events + 1
  /\ form' = NoForm /\ waiting' = {} /\ known' = {} /\ shown' = active
  /\ slot' = IF durable THEN slot ELSE [k \in Kinds |-> NoKey]
  /\ exposed' = IF durable THEN exposed ELSE exposed \cup UNION {Loose(k) : k \in Kinds}
  /\ UNCHANGED <<server, net, durable, doubt, told, minted, sends>>

\* Queries refetch on focus and on mount, each by itself.
FetchSetting ==
  /\ known' = {required[active]}
  /\ UNCHANGED <<server, net, form, waiting, shown, slot, durable, history, bounds>>

FetchAccounts ==
  /\ shown' = active
  /\ UNCHANGED <<server, net, form, waiting, known, slot, durable, history, bounds>>

\* switchOrganization here resets the queries and leaves the slots alone; in
\* another tab it resets that tab's only.
SwitchOrg(org) ==
  /\ events < MaxEvents /\ events' = events + 1
  /\ org # active /\ active' = org
  /\ \/ shown' = org /\ known' = {}
     \/ UNCHANGED <<shown, known>>
  /\ UNCHANGED <<rows, required, net, form, waiting, slot, durable, history,
                 minted, sends>>

\* Another admin changes the approval setting.
SetPolicy(org) ==
  /\ events < MaxEvents /\ events' = events + 1
  /\ required' = [required EXCEPT ![org] = ~@]
  /\ UNCHANGED <<rows, active, net, page, history, minted, sends>>
-----------------------------------------------------------------------------
(* The server *)

\* The row that holds the key of this request in the session's organization.
Holder(a) == {r \in rows : r.org = active /\ r.route = a.route /\ r.key = a.key}
Foreign(a) == OrgOf[a.intent] # active
IsReversed(a) == KindOf[a.intent] \in AtSubmit /\ \E r \in rows : r.intent = a.intent

\* The gate is in front of every direct posting; exchange and reverse look their
\* accounts and transactions up before the key.
Gated(a) ==
  a.route = "post" /\ (required[active] \/ (Foreign(a) /\ KindOf[a.intent] \notin Parkable))

Answer(a, outcome) ==
  /\ requests' = requests \ {a}
  /\ answers' = answers \cup {[of |-> a, outcome |-> outcome]}

\* A new row.  submitPending parks what it is sent without looking the accounts
\* up, in the queue of whichever organization is active.
Accept(a) ==
  /\ a \in requests /\ ~Gated(a) /\ Holder(a) = {} /\ ~IsReversed(a)
  /\ a.route = "post" => ~Foreign(a)
  /\ rows' = rows \cup {[org |-> active, route |-> a.route, key |-> a.key, intent |-> a.intent]}
  /\ exposed' = IF Foreign(a) THEN exposed \cup {a.intent} ELSE exposed
  /\ Answer(a, "accepted")
  /\ UNCHANGED <<required, active, page, doubt, told, bounds>>

\* Mutant: the request hash is not compared.
ReplayAny(a) ==
  /\ a \in requests /\ ~Gated(a)
  /\ Holder(a) # {}
  /\ Answer(a, "accepted")
  /\ UNCHANGED <<server, page, history, bounds>>

\* The key stands for this payload: the first answer again.
Replay(a) ==
  /\ a \in requests /\ ~Gated(a)
  /\ \E r \in Holder(a) : r.intent = a.intent
  /\ Answer(a, "accepted")
  /\ UNCHANGED <<server, page, history, bounds>>

\* The key stands for another payload, or an exchange is unwound from other halves
\* than the first time: it was half reversed then, or its reversal commits between
\* the handler's two reads now (Posting!BeginReversal).
Conflict(a) ==
  /\ a \in requests /\ ~Gated(a)
  /\ \E r \in Holder(a) : r.intent # a.intent \/ r.intent \in Survivors
  /\ Answer(a, "conflict")
  /\ UNCHANGED <<server, page, history, bounds>>

\* Mutant: the refusal is answered with the posting in place.
RefuseLate(a) ==
  /\ a \in requests /\ ~Gated(a) /\ Holder(a) = {} /\ ~IsReversed(a) /\ ~Foreign(a)
  /\ rows' = rows \cup {[org |-> active, route |-> a.route, key |-> a.key, intent |-> a.intent]}
  /\ Answer(a, "refused")
  /\ UNCHANGED <<required, active, page, history, bounds>>

\* The session, the role, the limits, the gate, the lookup, the funds, a reversal
\* that exists.
Refuse(a) ==
  /\ a \in requests
  /\ Answer(a, "refused")
  /\ UNCHANGED <<server, page, history, bounds>>

Next ==
  \/ \E k \in Kinds : Open(k)
  \/ Leave \/ StartOver
  \/ \E i \in Intents : Review(i) \/ Submit(i)
  \/ \E n \in waiting : Fail(n)
  \/ \E m \in answers : Succeed(m) \/ Refused(m)
  \/ Reload \/ FetchSetting \/ FetchAccounts
  \/ \E org \in Orgs : SwitchOrg(org) \/ SetPolicy(org)
  \/ \E a \in requests : Accept(a) \/ Replay(a) \/ Conflict(a) \/ Refuse(a)

Spec == Init /\ [][Next]_vars
-----------------------------------------------------------------------------
(* Properties *)

\* The type of every variable.
TypeOK ==
  /\ rows \subseteq Row
  /\ required \in [Orgs -> BOOLEAN] /\ active \in Orgs
  /\ requests \subseteq Attempt /\ doubt \subseteq Attempt
  /\ answers \subseteq [of : Attempt, outcome : Outcomes]
  /\ form \in [kind : Kinds \cup {NoKind}, key : Nat, busy : Nat, conflict : BOOLEAN,
              review : SUBSET Intents]
  /\ waiting \subseteq Nat \ {0}
  /\ known \in {{}, {TRUE}, {FALSE}} /\ shown \in Orgs
  /\ slot \in [Kinds -> Nat] /\ durable \in BOOLEAN
  /\ told \subseteq Intents /\ exposed \subseteq Intents
  /\ minted \in Nat /\ sends \in Nat /\ events \in Nat

\* An intent is accepted at most once however often it is submitted - after
\* errors, lost and late answers, edits of the draft, remounts and reloads -
\* unless it became exposed.
AcceptedOnce ==
  \A r, s \in rows : r.intent = s.intent /\ r.intent \notin exposed => r = s

\* Someone who has seen every attempt refused may rely on it: nothing of the
\* intent was accepted, under any key and on any route.
RefusedMeansNothing ==
  \A r \in rows : \E d \in doubt : d.intent = r.intent

\* Whom the page tells of a success has the intent on the server.
ToldIsTrue == \A i \in told \ exposed : \E r \in rows : r.intent = i /\ r.org = OrgOf[i]

\* The console keeps the promise of Operations.
Promise == INSTANCE Operations WITH
  done <- {r.intent : r \in rows},
  repeated <- {i \in Intents : \E r, s \in rows : r # s /\ r.intent = i /\ s.intent = i}
ImplementsOperations == Promise!Spec
=============================================================================
