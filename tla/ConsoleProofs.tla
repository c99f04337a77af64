---------------------------- MODULE ConsoleProofs ----------------------------
(***************************************************************************)
(* The console keeps the promise of Operations: for any number of intents, *)
(* forms, organizations, sends, keys and disturbances.                     *)
(*                                                                         *)
(* Why an unexposed intent is accepted once: while its success is not      *)
(* shown, the attempts whose key is still free for it carry the key in its *)
(* slot (InSlot), so a new attempt carries it too (OneKey), and the server *)
(* holds one row for a key, a route and an organization (Rows).            *)
(***************************************************************************)
EXTENDS Console, TLAPS

\* An attempt is on its way, answered once, or past answering.
Net ==
  /\ \A d \in doubt : d.n <= sends
  /\ requests \subseteq doubt
  /\ \A m \in answers : m.of \in doubt /\ m.of \notin requests
  /\ \A m, l \in answers : m.of = l.of => m = l
  /\ \A m \in answers : m.outcome = "accepted" => \E r \in rows : r.intent = m.of.intent

\* The attempt a row was accepted for, which nobody refused.
Creator(r, d) ==
  /\ d.intent = r.intent /\ d.key = r.key /\ d.route = r.route
  /\ d \notin requests
  /\ \A m \in answers : m.of = d => m.outcome = "accepted"

Rows ==
  /\ \A r, s \in rows : r.org = s.org /\ r.route = s.route /\ r.key = s.key => r = s
  /\ \A r \in rows : \E d \in doubt : Creator(r, d)
  /\ \A r \in rows : r.intent \notin exposed => r.org = OrgOf[r.intent]

\* A mounted form holds the key of its slot, and what it reviews is of its kind.
Mounted ==
  /\ form.kind \in Kinds \ AtSubmit => form.key = slot[form.kind] /\ form.key # NoKey
  /\ \A i \in form.review : KindOf[i] = form.kind /\ i \notin told
  /\ form.kind = NoKind => form.busy = 0 /\ ~form.conflict

InSlot ==
  \A d \in doubt : d.intent \notin exposed \cup told /\ Live(d) => slot[KindOf[d.intent]] = d.key

OneKey ==
  \A d, e \in doubt :
    d.intent = e.intent /\ d.intent \notin exposed /\ Live(d) /\ Live(e) =>
      d.key = e.key /\ d.route = e.route

TellsTrue == \A i \in told \ exposed : \E r \in rows : r.intent = i

IInv == TypeOK /\ Net /\ Rows /\ Mounted /\ InSlot /\ OneKey /\ TellsTrue

-----------------------------------------------------------------------------
(* Keys and slots.                                                         *)

LEMMA LiveSame ==
  ASSUME UNCHANGED rows, NEW d
  PROVE  Live(d)' <=> Live(d)
BY DEF Live

LEMMA LooseIntents == TypeOK => \A k : Loose(k) \subseteq Intents
BY DEF TypeOK, Attempt, Loose

LEMMA KindType ==
  /\ \A i \in Intents : KindOf[i] \in Kinds /\ OrgOf[i] \in Orgs
  /\ NoKind \notin Kinds
  /\ \A k \in Kinds : k \in Reviewed => k \in Parkable
  /\ \A k \in Kinds : k \in Parkable => k \notin AtSubmit
BY ConsoleAssumption

\* The key of a mounted or submitting form is that of its slot, and a key that
\* protects an intent stays in its slot.
LEMMA StartKeeps ==
  ASSUME TypeOK, InSlot, NEW k \in Kinds, NEW key \in 0..(minted + 1), StartOperation(k, key)
  PROVE  /\ key \in Nat /\ key # NoKey
         /\ slot' \in [Kinds -> Nat] /\ minted' \in Nat
         /\ slot'[k] = key
         /\ \A j \in Kinds : j # k => slot'[j] = slot[j]
         /\ \A d \in doubt : d.intent \notin exposed \cup told /\ Live(d) =>
              slot'[KindOf[d.intent]] = d.key
<1>1. slot \in [Kinds -> Nat] /\ minted \in Nat /\ key \in Nat
  BY DEF TypeOK
<1>2. \A d \in doubt : d.key # NoKey /\ d.intent \in Intents
  BY DEF TypeOK, Attempt, NoKey
<1>3. CASE slot[k] # NoKey
  BY <1>1, <1>3 DEF StartOperation, InSlot
<1>4. CASE slot[k] = NoKey
  <2>1. minted' = key /\ key = minted + 1 /\ slot' = [slot EXCEPT ![k] = key]
    BY <1>4 DEF StartOperation
  <2>2. \A d \in doubt : d.intent \notin exposed \cup told /\ Live(d) => KindOf[d.intent] # k
    BY <1>2, <1>4 DEF InSlot
  <2> QED
    BY <1>1, <1>2, <2>1, <2>2, KindType DEF InSlot, NoKey
<1> QED
  BY <1>3, <1>4

\* A replaced key exposes what it protected, and nothing else changes.
LEMMA NewKeeps ==
  ASSUME TypeOK, InSlot, NEW k \in Kinds, NewOperation(k)
  PROVE  /\ slot' \in [Kinds -> Nat] /\ minted' \in Nat /\ exposed' \subseteq Intents
         /\ exposed \subseteq exposed'
         /\ slot'[k] = minted + 1 /\ minted + 1 \in Nat /\ minted + 1 # NoKey
         /\ \A j \in Kinds : j # k => slot'[j] = slot[j]
         /\ \A d \in doubt : d.intent \notin exposed' \cup told /\ Live(d) =>
              slot'[KindOf[d.intent]] = d.key
<1>1. slot \in [Kinds -> Nat] /\ minted \in Nat /\ exposed \subseteq Intents
  BY DEF TypeOK
<1>2. /\ slot' = [slot EXCEPT ![k] = minted + 1] /\ minted' = minted + 1
      /\ exposed' = exposed \cup Loose(k)
  BY DEF NewOperation
<1>3. \A d \in doubt : d.intent \notin exposed' \cup told /\ Live(d) => KindOf[d.intent] # k
  BY <1>2 DEF Loose
<1>4. \A d \in doubt : d.intent \in Intents
  BY DEF TypeOK, Attempt
<1> QED
  BY <1>1, <1>2, <1>3, <1>4, LooseIntents, KindType DEF InSlot, NoKey

-----------------------------------------------------------------------------
(* Steps of the page that send nothing and read no answer.                 *)

LEMMA PageStep ==
  ASSUME IInv, TypeOK', UNCHANGED <<rows, requests, answers, doubt, told, sends>>,
         exposed \subseteq exposed', Mounted',
         \A d \in doubt : d.intent \notin exposed' \cup told /\ Live(d) =>
            slot'[KindOf[d.intent]] = d.key
  PROVE  IInv'
<1>1. \A d : Live(d)' <=> Live(d)
  BY LiveSame
<1>2. Net'
  BY DEF IInv, Net
<1>3. Rows'
  BY DEF IInv, Rows, Creator
<1>4. InSlot'
  BY <1>1 DEF InSlot
<1>5. OneKey'
  BY <1>1 DEF IInv, OneKey
<1>6. TellsTrue'
  BY DEF IInv, TellsTrue
<1> QED
  BY <1>2, <1>3, <1>4, <1>5, <1>6 DEF IInv

LEMMA NoFormType ==
  /\ NoForm \in [kind : Kinds \cup {NoKind}, key : Nat, busy : Nat, conflict : BOOLEAN,
                 review : SUBSET Intents]
  /\ NoForm.kind = NoKind /\ NoForm.review = {} /\ NoForm.busy = 0 /\ ~NoForm.conflict
BY DEF NoForm, NoKey

LEMMA OpenStep == IInv /\ (\E k \in Kinds : Open(k)) => IInv'
<1> SUFFICES ASSUME IInv, NEW k \in Kinds, Open(k)
             PROVE  IInv'
  OBVIOUS
<1>1. TypeOK /\ InSlot
  BY DEF IInv
<1>2. PICK key \in 0..(minted + 1) :
         /\ IF k \in AtSubmit THEN key = NoKey /\ UNCHANGED <<slot, minted>> ELSE StartOperation(k, key)
         /\ form' = [NoForm EXCEPT !.kind = k, !.key = key]
  BY DEF Open
<1>3. key \in Nat
  BY <1>1 DEF TypeOK
<1>4. /\ slot' \in [Kinds -> Nat] /\ minted' \in Nat
      /\ k \notin AtSubmit => slot'[k] = key /\ key # NoKey
      /\ \A d \in doubt : d.intent \notin exposed \cup told /\ Live(d) =>
           slot'[KindOf[d.intent]] = d.key
  BY <1>1, <1>2, StartKeeps DEF TypeOK, InSlot
<1>5. /\ form' \in [kind : Kinds \cup {NoKind}, key : Nat, busy : Nat, conflict : BOOLEAN,
                    review : SUBSET Intents]
      /\ form'.kind = k /\ form'.key = key /\ form'.review = {}
  BY <1>2, <1>3, NoFormType DEF NoForm
<1>6. TypeOK'
  BY <1>1, <1>4, <1>5 DEF TypeOK, Open, server, net, history
<1>7. Mounted'
  BY <1>4, <1>5, KindType DEF Mounted
<1> QED
  BY <1>4, <1>6, <1>7, PageStep DEF Open, server, net, history

LEMMA LeaveStep == IInv /\ Leave => IInv'
<1> SUFFICES ASSUME IInv, Leave
             PROVE  IInv'
  OBVIOUS
<1>1. TypeOK'
  BY NoFormType DEF IInv, TypeOK, Leave, server, net, history, bounds
<1>2. Mounted'
  BY NoFormType, KindType DEF Mounted, Leave
<1> QED
  BY <1>1, <1>2, PageStep DEF Leave, server, net, history, bounds, IInv, InSlot

LEMMA ReviewStep == IInv /\ (\E i \in Intents : Review(i)) => IInv'
<1> SUFFICES ASSUME IInv, NEW i \in Intents, Review(i)
             PROVE  IInv'
  OBVIOUS
<1>1. TypeOK'
  BY DEF IInv, TypeOK, Review, server, net, history, bounds
<1>2. /\ form'.kind = form.kind /\ form'.key = form.key /\ form'.review = {i}
      /\ KindOf[i] = form.kind /\ i \notin told
  BY DEF IInv, TypeOK, Review, Ready
<1>3. Mounted'
  BY <1>2, KindType DEF IInv, Mounted, Review, history
<1> QED
  BY <1>1, <1>3, PageStep DEF Review, server, net, history, bounds, IInv, InSlot

LEMMA SettledType ==
  ASSUME TypeOK, NEW n
  PROVE  /\ Settled(n) \in [kind : Kinds \cup {NoKind}, key : Nat, busy : Nat, conflict : BOOLEAN,
                            review : SUBSET Intents]
         /\ Settled(n).kind = form.kind /\ Settled(n).key = form.key
         /\ Settled(n).review = form.review
         /\ Settled(n).busy \in {0, form.busy} /\ (Settled(n).conflict <=> form.conflict)
BY DEF TypeOK, Settled

LEMMA FailStep == IInv /\ (\E n \in waiting : Fail(n)) => IInv'
<1> SUFFICES ASSUME IInv, NEW n \in waiting, Fail(n)
             PROVE  IInv'
  OBVIOUS
<1>1. TypeOK'
  BY SettledType DEF IInv, TypeOK, Fail, server, net, history, bounds
<1>2. Mounted'
  BY SettledType DEF IInv, Mounted, Fail, history
<1> QED
  BY <1>1, <1>2, PageStep DEF Fail, server, net, history, bounds, IInv, InSlot

LEMMA StartOverStep == IInv /\ StartOver => IInv'
<1> SUFFICES ASSUME IInv, StartOver
             PROVE  IInv'
  OBVIOUS
<1>1. TypeOK /\ InSlot /\ NewOperation(form.kind)
  BY DEF IInv, StartOver
<1>2. form.kind \in Kinds
  BY DEF IInv, StartOver, Mounted, TypeOK
<1>3. /\ slot' \in [Kinds -> Nat] /\ minted' \in Nat /\ exposed' \subseteq Intents
      /\ exposed \subseteq exposed'
      /\ slot'[form.kind] = minted + 1 /\ minted + 1 \in Nat /\ minted + 1 # NoKey
      /\ \A d \in doubt : d.intent \notin exposed' \cup told /\ Live(d) =>
           slot'[KindOf[d.intent]] = d.key
  BY <1>1, <1>2, NewKeeps
<1>4. /\ form' \in [kind : Kinds \cup {NoKind}, key : Nat, busy : Nat, conflict : BOOLEAN,
                    review : SUBSET Intents]
      /\ form'.kind = form.kind /\ form'.key = minted + 1 /\ form'.review = {}
  BY <1>1, <1>3 DEF StartOver, TypeOK
<1>5. TypeOK'
  BY <1>1, <1>3, <1>4 DEF TypeOK, StartOver, server, net
<1>6. Mounted'
  BY <1>2, <1>3, <1>4, KindType DEF Mounted
<1> QED
  BY <1>3, <1>5, <1>6, PageStep DEF StartOver, server, net

LEMMA ReloadStep == IInv /\ Reload => IInv'
<1> SUFFICES ASSUME IInv, Reload
             PROVE  IInv'
  OBVIOUS
<1>1. TypeOK /\ InSlot
  BY DEF IInv
<1>2. /\ slot' \in [Kinds -> Nat] /\ exposed' \subseteq Intents /\ exposed \subseteq exposed'
      /\ \A d \in doubt : d.intent \notin exposed' \cup told /\ Live(d) =>
           slot'[KindOf[d.intent]] = d.key
  <2>1. CASE durable
    BY <1>1, <2>1 DEF Reload, TypeOK, InSlot
  <2>2. CASE ~durable
    <3>1. slot' = [k \in Kinds |-> NoKey] /\ exposed' = exposed \cup UNION {Loose(k) : k \in Kinds}
      BY <2>2 DEF Reload
    <3>2. ASSUME NEW d \in doubt, d.intent \notin exposed' \cup told, Live(d)
          PROVE  FALSE
      <4>1. KindOf[d.intent] \in Kinds
        BY <1>1, KindType DEF TypeOK, Attempt
      <4>2. d.intent \in Loose(KindOf[d.intent])
        BY <3>2 DEF Loose
      <4> QED
        BY <3>1, <3>2, <4>1, <4>2
    <3>3. UNION {Loose(k) : k \in Kinds} \subseteq Intents
      BY <1>1, LooseIntents
    <3>4. exposed' \subseteq Intents /\ exposed \subseteq exposed'
      BY <1>1, <3>1, <3>3 DEF TypeOK
    <3>5. slot' \in [Kinds -> Nat]
      BY <3>1 DEF NoKey
    <3> QED
      BY <3>2, <3>4, <3>5
  <2> QED
    BY <2>1, <2>2
<1>3. TypeOK'
  BY <1>1, <1>2, NoFormType DEF TypeOK, Reload, server, net
<1>4. Mounted'
  BY NoFormType, KindType DEF Mounted, Reload
<1> QED
  BY <1>2, <1>3, <1>4, PageStep DEF Reload, server, net

LEMMA OutsideKeeps ==
  ASSUME IInv,
         UNCHANGED <<rows, requests, answers, doubt, told, sends, exposed, form, slot, minted,
                     waiting, durable>>,
         required' \in [Orgs -> BOOLEAN], active' \in Orgs, events' \in Nat,
         shown' \in Orgs, known' \in {{}, {TRUE}, {FALSE}}
  PROVE  IInv'
<1>1. TypeOK'
  BY DEF IInv, TypeOK
<1>2. Mounted'
  BY DEF IInv, Mounted
<1> QED
  BY <1>1, <1>2, PageStep DEF IInv, InSlot

LEMMA OutsideStep ==
  IInv /\ (FetchSetting \/ FetchAccounts \/ \E org \in Orgs : SwitchOrg(org) \/ SetPolicy(org)) => IInv'
<1> SUFFICES ASSUME IInv,
                    FetchSetting \/ FetchAccounts \/ \E org \in Orgs : SwitchOrg(org) \/ SetPolicy(org)
             PROVE  IInv'
  OBVIOUS
<1>1. TypeOK
  BY DEF IInv
<1>2. {required[active]} \in {{}, {TRUE}, {FALSE}}
  BY <1>1, Zenon DEF TypeOK
<1>3. CASE FetchSetting
  BY <1>1, <1>2, <1>3, OutsideKeeps DEF FetchSetting, TypeOK, server, net, history, bounds
<1>4. CASE FetchAccounts
  BY <1>1, <1>4, OutsideKeeps DEF FetchAccounts, TypeOK, server, net, history, bounds
<1>5. ASSUME NEW org \in Orgs, SwitchOrg(org)
      PROVE  IInv'
  <2>1. /\ UNCHANGED <<rows, requests, answers, doubt, told, sends, exposed, form, slot, minted,
                       waiting, durable>>
        /\ required' = required /\ active' \in Orgs /\ events' = events + 1
        /\ shown' \in Orgs /\ known' \in {{}, {TRUE}, {FALSE}}
    BY <1>1, <1>5 DEF SwitchOrg, TypeOK, net, history
  <2>2. required' \in [Orgs -> BOOLEAN] /\ events' \in Nat
    BY <1>1, <2>1 DEF TypeOK
  <2> QED
    BY <2>1, <2>2, OutsideKeeps
<1>6. ASSUME NEW org \in Orgs, SetPolicy(org)
      PROVE  IInv'
  <2>1. required \in [Orgs -> BOOLEAN] /\ required' = [required EXCEPT ![org] = ~@]
    BY <1>1, <1>6 DEF SetPolicy, TypeOK
  <2>2. required' \in [Orgs -> BOOLEAN]
    BY <2>1, Zenon
  <2> QED
    <3>1. /\ UNCHANGED <<rows, requests, answers, doubt, told, sends, exposed, form, slot, minted,
                         waiting, durable>>
          /\ active' = active /\ events' = events + 1 /\ shown' = shown /\ known' = known
      BY <1>6 DEF SetPolicy, net, page, history
    <3>2. active' \in Orgs /\ events' \in Nat /\ shown' \in Orgs /\ known' \in {{}, {TRUE}, {FALSE}}
      <4>1. known' \in {{}, {TRUE}, {FALSE}}
        BY <1>1, <3>1, Zenon DEF TypeOK
      <4>2. active' \in Orgs /\ events' \in Nat /\ shown' \in Orgs
        BY <1>1, <3>1 DEF TypeOK
      <4> QED
        BY <4>1, <4>2
    <3> QED
      BY <2>2, <3>1, <3>2, OutsideKeeps
<1> QED
  BY <1>3, <1>4, <1>5, <1>6

-----------------------------------------------------------------------------
(* A submission carries the key in the slot, which the live attempts of its *)
(* intent carry already, or the intent becomes exposed.                     *)

LEMMA SubmitStep == IInv /\ (\E i \in Intents : Submit(i)) => IInv'
<1> SUFFICES ASSUME IInv, NEW i \in Intents, Submit(i)
             PROVE  IInv'
  OBVIOUS
<1> DEFINE route == RouteOf(KindOf[i])
<1>1. TypeOK /\ InSlot /\ Mounted /\ KindOf[i] \in Kinds /\ route \in Routes
  BY KindType DEF IInv, RouteOf, Routes
<1>2. PICK key \in 0..(minted + 1) :
         /\ IF KindOf[i] \in AtSubmit THEN StartOperation(KindOf[i], key)
                                      ELSE key = form.key /\ UNCHANGED <<slot, minted>>
         /\ requests' = requests \cup {[n |-> sends + 1, intent |-> i, key |-> key, route |-> route]}
         /\ doubt' = doubt \cup {[n |-> sends + 1, intent |-> i, key |-> key, route |-> route]}
  BY DEF Submit
<1>3. form.kind = KindOf[i] /\ i \notin told
  BY <1>1 DEF Submit, Ready, Mounted
<1>4. /\ key \in Nat /\ key # NoKey /\ slot'[KindOf[i]] = key
      /\ slot' \in [Kinds -> Nat] /\ minted' \in Nat
      /\ \A d \in doubt : d.intent \notin exposed \cup told /\ Live(d) =>
           slot'[KindOf[d.intent]] = d.key
      /\ KindOf[i] \notin AtSubmit => slot' = slot
  <2>1. CASE KindOf[i] \in AtSubmit
    BY <1>1, <1>2, <2>1, StartKeeps
  <2>2. CASE KindOf[i] \notin AtSubmit
    BY <1>1, <1>2, <1>3, <2>2 DEF Mounted, TypeOK, InSlot
  <2> QED
    BY <2>1, <2>2
<1>5. PICK a \in Attempt : a = [n |-> sends + 1, intent |-> i, key |-> key, route |-> route]
  <2>1. sends + 1 \in Nat \ {0} /\ key \in Nat \ {0}
    BY <1>1, <1>4 DEF TypeOK, NoKey
  <2> HIDE DEF route
  <2> QED
    BY <1>1, <2>1 DEF Attempt
<1>6. /\ requests' = requests \cup {a} /\ doubt' = doubt \cup {a}
      /\ a.n = sends + 1 /\ a.intent = i /\ a.key = key /\ a.route = route
  BY <1>2, <1>5
<1> HIDE DEF route
<1>7. /\ UNCHANGED <<rows, required, active, answers, known, shown, durable, told, events>>
      /\ sends' = sends + 1 /\ sends' \in Nat
      /\ waiting' = waiting \cup {sends + 1}
      /\ form' = [form EXCEPT !.busy = sends + 1, !.conflict = FALSE, !.review = {}]
      /\ exposed' = exposed \cup
           {d.intent : d \in {e \in doubt : e.intent = i /\ e.route # route /\ Live(e)}}
  BY <1>1 DEF Submit, server, route, TypeOK
<1>8. /\ form' \in [kind : Kinds \cup {NoKind}, key : Nat, busy : Nat, conflict : BOOLEAN,
                    review : SUBSET Intents]
      /\ form'.kind = form.kind /\ form'.key = form.key /\ form'.review = {}
  BY <1>1, <1>7 DEF TypeOK
<1>9. TypeOK'
  <2>1. exposed' \subseteq Intents /\ doubt' \subseteq Attempt /\ requests' \subseteq Attempt
    BY <1>1, <1>6, <1>7 DEF TypeOK, Attempt
  <2>2. known' \in {{}, {TRUE}, {FALSE}}
    BY <1>1, <1>7, Zenon DEF TypeOK
  <2>3. waiting' \subseteq Nat \ {0}
    BY <1>1, <1>7 DEF TypeOK
  <2> QED
    BY <1>1, <1>4, <1>7, <1>8, <2>1, <2>2, <2>3 DEF TypeOK
<1>10. a \notin doubt
  BY <1>1, <1>6 DEF IInv, Net, TypeOK, Attempt
<1>11. Net'
  <2>1. \A d \in doubt' : d.n <= sends'
    BY <1>1, <1>6, <1>7 DEF IInv, Net, TypeOK, Attempt
  <2> QED
    BY <1>6, <1>7, <1>10, <2>1 DEF IInv, Net
<1>12. Rows'
  BY <1>6, <1>7, <1>10 DEF IInv, Rows, Creator
<1>13. Mounted'
  BY <1>1, <1>3, <1>4, <1>8, KindType DEF Mounted
<1>14. \A d : Live(d)' <=> Live(d)
  BY <1>7, LiveSame
<1>15. InSlot'
  BY <1>4, <1>6, <1>7, <1>14 DEF InSlot
<1>16. ASSUME NEW e \in doubt, e.intent = i, i \notin exposed', Live(e)
       PROVE  e.key = a.key /\ e.route = a.route
  BY <1>3, <1>4, <1>6, <1>7, <1>16
<1>17. OneKey'
  BY <1>6, <1>7, <1>14, <1>16 DEF IInv, OneKey
<1>18. TellsTrue'
  BY <1>7 DEF IInv, TellsTrue
<1> QED
  BY <1>9, <1>11, <1>12, <1>13, <1>15, <1>17, <1>18 DEF IInv

-----------------------------------------------------------------------------
(* Answers.                                                                *)

LEMMA SucceedStep == IInv /\ (\E m \in answers : Succeed(m)) => IInv'
<1> SUFFICES ASSUME IInv, NEW m \in answers, Succeed(m)
             PROVE  IInv'
  OBVIOUS
<1> DEFINE i == m.of.intent
           k == KindOf[m.of.intent]
<1>1. TypeOK /\ i \in Intents /\ k \in Kinds
  BY KindType DEF IInv, TypeOK, Attempt
<1>2. /\ UNCHANGED <<rows, required, active, requests, known, shown, durable, doubt, minted, sends, events>>
      /\ answers' = answers \ {m} /\ waiting' = waiting \ {m.of.n}
      /\ slot' = [slot EXCEPT ![k] = NoKey]
      /\ told' = told \cup {i} /\ exposed' = exposed \cup (Loose(k) \ {i})
      /\ form' = NoForm
  BY DEF Succeed, server, bounds
<1> HIDE DEF i, k
<1>3. TypeOK'
  <2>1. exposed' \subseteq Intents /\ slot' \in [Kinds -> Nat]
    BY <1>1, <1>2, LooseIntents DEF TypeOK, NoKey
  <2>2. known' \in {{}, {TRUE}, {FALSE}}
    BY <1>1, <1>2, Zenon DEF TypeOK
  <2> QED
    BY <1>1, <1>2, <2>1, <2>2, NoFormType DEF TypeOK
<1>4. Net'
  BY <1>2 DEF IInv, Net
<1>5. Rows'
  BY <1>2 DEF IInv, Rows, Creator
<1>6. Mounted'
  BY <1>2, NoFormType, KindType DEF Mounted
<1>7. \A d : Live(d)' <=> Live(d)
  BY <1>2, LiveSame
<1>8. InSlot'
  <2> SUFFICES ASSUME NEW d \in doubt, d.intent \notin exposed' \cup told', Live(d)
               PROVE  slot'[KindOf[d.intent]] = d.key
    BY <1>2, <1>7 DEF InSlot
  <2>1. KindOf[d.intent] # k
    BY <1>2 DEF Loose
  <2>2. KindOf[d.intent] \in Kinds
    BY <1>1, KindType DEF TypeOK, Attempt
  <2>3. slot'[KindOf[d.intent]] = slot[KindOf[d.intent]]
    BY <1>1, <1>2, <2>1, <2>2 DEF TypeOK
  <2> QED
    BY <1>2, <2>3 DEF IInv, InSlot
<1>9. OneKey'
  BY <1>2, <1>7 DEF IInv, OneKey
<1>10. TellsTrue'
  <2>1. \E r \in rows : r.intent = i
    BY DEF IInv, Net, Succeed, i
  <2> QED
    BY <1>2, <2>1 DEF IInv, TellsTrue
<1> QED
  BY <1>3, <1>4, <1>5, <1>6, <1>8, <1>9, <1>10 DEF IInv

\* A refused attempt leaves the doubt; no row was made for it.
LEMMA RefusedStep == IInv /\ (\E m \in answers : Refused(m)) => IInv'
<1> SUFFICES ASSUME IInv, NEW m \in answers, Refused(m)
             PROVE  IInv'
  OBVIOUS
<1> DEFINE k == KindOf[m.of.intent]
<1>1. TypeOK /\ InSlot /\ k \in Kinds /\ m.of.n \in Nat /\ m.of.n # 0
  BY KindType DEF IInv, TypeOK, Attempt
<1>2. /\ UNCHANGED <<rows, required, active, requests, known, shown, durable, told, sends, events>>
      /\ answers' = answers \ {m} /\ waiting' = waiting \ {m.of.n} /\ doubt' = doubt \ {m.of}
      /\ form' = IF form.busy = m.of.n
                 THEN [Settled(m.of.n) EXCEPT !.conflict = m.outcome = "conflict"] ELSE form
      /\ IF m.outcome = "conflict" /\ k \in AtSubmit
         THEN NewOperation(k) ELSE UNCHANGED <<slot, minted, exposed>>
  BY DEF Refused, server
<1> HIDE DEF k
<1>3. /\ slot' \in [Kinds -> Nat] /\ minted' \in Nat /\ exposed' \subseteq Intents
      /\ exposed \subseteq exposed'
      /\ \A j \in Kinds \ AtSubmit : slot'[j] = slot[j]
      /\ \A d \in doubt : d.intent \notin exposed' \cup told /\ Live(d) =>
           slot'[KindOf[d.intent]] = d.key
  <2>1. CASE m.outcome = "conflict" /\ k \in AtSubmit
    BY <1>1, <1>2, <2>1, NewKeeps
  <2>2. CASE ~(m.outcome = "conflict" /\ k \in AtSubmit)
    BY <1>1, <1>2, <2>2 DEF TypeOK, InSlot
  <2> QED
    BY <2>1, <2>2
<1>4. /\ form' \in [kind : Kinds \cup {NoKind}, key : Nat, busy : Nat, conflict : BOOLEAN,
                    review : SUBSET Intents]
      /\ form'.kind = form.kind /\ form'.key = form.key /\ form'.review = form.review
      /\ form' = form \/ (form.busy # 0 /\ form'.busy \in {0, form.busy})
  <2>1. CASE form.busy = m.of.n
    BY <1>1, <1>2, <2>1, SettledType
  <2>2. CASE form.busy # m.of.n
    BY <1>1, <1>2, <2>2 DEF TypeOK
  <2> QED
    BY <2>1, <2>2
<1>5. TypeOK'
  <2>1. known' \in {{}, {TRUE}, {FALSE}}
    BY <1>1, <1>2, Zenon DEF TypeOK
  <2> QED
    BY <1>1, <1>2, <1>3, <1>4, <2>1 DEF TypeOK
<1>6. Net'
  BY <1>2 DEF IInv, Net
<1>7. Rows'
  <2>1. \A r \in rows, d \in doubt : Creator(r, d) => d # m.of
    BY DEF Creator, Refused
  <2> QED
    BY <1>2, <1>3, <2>1 DEF IInv, Rows, Creator
<1>8. Mounted'
  BY <1>2, <1>3, <1>4 DEF IInv, Mounted
<1>9. \A d : Live(d)' <=> Live(d)
  BY <1>2, LiveSame
<1>10. InSlot'
  BY <1>2, <1>3, <1>9 DEF InSlot
<1>11. OneKey'
  BY <1>2, <1>3, <1>9 DEF IInv, OneKey
<1>12. TellsTrue'
  BY <1>2, <1>3 DEF IInv, TellsTrue
<1> QED
  BY <1>5, <1>6, <1>7, <1>8, <1>10, <1>11, <1>12 DEF IInv

-----------------------------------------------------------------------------
(* The server.                                                             *)

LEMMA AnswerNet ==
  ASSUME IInv, NEW a \in requests, NEW o \in Outcomes, Answer(a, o), UNCHANGED <<doubt, sends>>,
         rows \subseteq rows', o = "accepted" => \E r \in rows' : r.intent = a.intent
  PROVE  /\ Net'
         /\ requests' \subseteq Attempt /\ answers' \subseteq [of : Attempt, outcome : Outcomes]
         /\ \A r, d : Creator(r, d) => Creator(r, d)'
         /\ a \notin requests' /\ \A m \in answers' : m.of = a => m.outcome = o
<1>1. /\ requests' = requests \ {a} /\ answers' = answers \cup {[of |-> a, outcome |-> o]}
      /\ \A m \in answers : m.of # a
  BY DEF Answer, IInv, Net
<1>2. Net'
  BY <1>1 DEF IInv, Net
<1>3. requests' \subseteq Attempt /\ answers' \subseteq [of : Attempt, outcome : Outcomes]
  BY <1>1 DEF IInv, TypeOK
<1>4. \A r, d : Creator(r, d) => Creator(r, d)'
  BY <1>1 DEF Creator
<1> QED
  BY <1>1, <1>2, <1>3, <1>4

LEMMA AcceptStep == IInv /\ (\E a \in requests : Accept(a)) => IInv'
<1> SUFFICES ASSUME IInv, NEW a \in requests, Accept(a)
             PROVE  IInv'
  OBVIOUS
<1>1. TypeOK /\ Net /\ Rows /\ a \in doubt /\ a \in Attempt /\ "accepted" \in Outcomes
  BY DEF IInv, Net, TypeOK, Outcomes
<1>2. PICK row \in Row : row = [org |-> active, route |-> a.route, key |-> a.key, intent |-> a.intent]
  BY <1>1 DEF Row, TypeOK, Attempt
<1>3. /\ rows' = rows \cup {row} /\ Holder(a) = {} /\ Answer(a, "accepted")
      /\ UNCHANGED <<required, active, form, waiting, known, shown, slot, durable, doubt, told,
                     minted, sends, events>>
      /\ exposed' = IF Foreign(a) THEN exposed \cup {a.intent} ELSE exposed
  BY <1>2 DEF Accept, page, bounds
<1>4. /\ row.org = active /\ row.route = a.route /\ row.key = a.key /\ row.intent = a.intent
  BY <1>2
<1>5. /\ Net'
      /\ requests' \subseteq Attempt /\ answers' \subseteq [of : Attempt, outcome : Outcomes]
      /\ \A r, d : Creator(r, d) => Creator(r, d)'
      /\ a \notin requests' /\ \A m \in answers' : m.of = a => m.outcome = "accepted"
  BY <1>1, <1>3, <1>4, AnswerNet
<1>6. TypeOK'
  <2>1. exposed' \subseteq Intents /\ rows' \subseteq Row
    BY <1>1, <1>3 DEF TypeOK, Attempt
  <2>2. known' \in {{}, {TRUE}, {FALSE}}
    BY <1>1, <1>3, Zenon DEF TypeOK
  <2> QED
    BY <1>1, <1>3, <1>5, <2>1, <2>2 DEF TypeOK
<1>7. Creator(row, a)'
  BY <1>4, <1>5 DEF Creator
<1>8. Rows'
  <2>1. \A r \in rows : ~(r.org = row.org /\ r.route = row.route /\ r.key = row.key)
    BY <1>3, <1>4 DEF Holder
  <2>2. row.intent \notin exposed' => row.org = OrgOf[row.intent]
    BY <1>3, <1>4 DEF Foreign
  <2>3. \A r, s \in rows' : r.org = s.org /\ r.route = s.route /\ r.key = s.key => r = s
    BY <1>1, <1>3, <2>1 DEF Rows
  <2>4. \A r \in rows' : \E d \in doubt' : Creator(r, d)'
    BY <1>1, <1>3, <1>5, <1>7 DEF Rows
  <2>5. \A r \in rows' : r.intent \notin exposed' => r.org = OrgOf[r.intent]
    BY <1>1, <1>3, <2>2 DEF Rows
  <2> QED
    BY <2>3, <2>4, <2>5 DEF Rows
<1>9. \A d : Live(d)' => Live(d)
  BY <1>3 DEF Live
<1>10. exposed \subseteq exposed'
  BY <1>3
<1>11. InSlot' /\ OneKey' /\ TellsTrue' /\ Mounted'
  BY <1>3, <1>9, <1>10 DEF IInv, InSlot, OneKey, TellsTrue, Mounted
<1> QED
  BY <1>5, <1>6, <1>8, <1>11 DEF IInv

LEMMA AnsweredStep ==
  IInv /\ (\E a \in requests : Replay(a) \/ Conflict(a) \/ Refuse(a)) => IInv'
<1> SUFFICES ASSUME IInv, NEW a \in requests, Replay(a) \/ Conflict(a) \/ Refuse(a)
             PROVE  IInv'
  OBVIOUS
<1>1. PICK o \in Outcomes :
         /\ Answer(a, o) /\ UNCHANGED <<server, page, history, bounds>>
         /\ o = "accepted" => \E r \in rows : r.intent = a.intent
  BY DEF Replay, Conflict, Refuse, Outcomes, Holder
<1>2. UNCHANGED <<rows, required, active, form, waiting, known, shown, slot, durable, doubt, told,
                  exposed, minted, sends, events>>
  BY <1>1 DEF server, page, history, bounds
<1>3. /\ Net'
      /\ requests' \subseteq Attempt /\ answers' \subseteq [of : Attempt, outcome : Outcomes]
      /\ \A r, d : Creator(r, d) => Creator(r, d)'
  BY <1>1, <1>2, AnswerNet
<1>4. TypeOK'
  <2>1. known' \in {{}, {TRUE}, {FALSE}}
    BY <1>2, Zenon DEF IInv, TypeOK
  <2> QED
    BY <1>2, <1>3, <2>1 DEF IInv, TypeOK
<1>5. \A d : Live(d)' <=> Live(d)
  BY <1>2, LiveSame
<1>6. Rows'
  BY <1>2, <1>3 DEF IInv, Rows
<1>7. InSlot' /\ OneKey' /\ TellsTrue' /\ Mounted'
  BY <1>2, <1>5 DEF IInv, InSlot, OneKey, TellsTrue, Mounted
<1> QED
  BY <1>3, <1>4, <1>6, <1>7 DEF IInv

-----------------------------------------------------------------------------
(* Theorems.                                                               *)

LEMMA InitIInv == Init => IInv
<1> SUFFICES ASSUME Init
             PROVE  IInv
  OBVIOUS
<1>1. TypeOK
  BY NoFormType DEF Init, TypeOK, NoKey
<1>2. Mounted
  BY NoFormType, KindType DEF Init, Mounted
<1>3. Net /\ Rows /\ InSlot /\ OneKey /\ TellsTrue
  BY DEF Init, Net, Rows, InSlot, OneKey, TellsTrue
<1> QED
  BY <1>1, <1>2, <1>3 DEF IInv

LEMMA NextIInv == IInv /\ [Next]_vars => IInv'
<1> SUFFICES ASSUME IInv, [Next]_vars
             PROVE  IInv'
  OBVIOUS
<1>1. CASE Next
  BY <1>1, OpenStep, LeaveStep, ReviewStep, FailStep, StartOverStep, ReloadStep, OutsideStep,
     SubmitStep, SucceedStep, RefusedStep, AcceptStep, AnsweredStep DEF Next
<1>2. CASE UNCHANGED vars
  <2>1. UNCHANGED <<rows, required, active, requests, answers, form, waiting, known, shown, slot,
                    durable, doubt, told, exposed, minted, sends, events>>
    BY <1>2 DEF vars, server, net, page, history, bounds
  <2>2. known' \in {{}, {TRUE}, {FALSE}} /\ required' \in [Orgs -> BOOLEAN]
    BY <2>1, Zenon DEF IInv, TypeOK
  <2>3. active' \in Orgs /\ events' \in Nat /\ shown' \in Orgs
    BY <2>1 DEF IInv, TypeOK
  <2> QED
    BY <2>1, <2>2, <2>3, OutsideKeeps
<1> QED
  BY <1>1, <1>2

\* The console's invariant holds whatever is submitted, answered, lost, edited,
\* reloaded or switched.
THEOREM Invariance == Spec => []IInv
<1> QED
  BY InitIInv, NextIInv, PTL DEF Spec

\* Every variable of the console keeps its type.
THEOREM TypeCorrect == Spec => []TypeOK
<1>1. IInv => TypeOK
  BY DEF IInv
<1> QED
  BY <1>1, Invariance, PTL

\* Two rows of one unexposed intent were accepted for live attempts, which carry
\* one key on one route to one organization: they are one row.
LEMMA RowsMeet == IInv => AcceptedOnce
<1> SUFFICES ASSUME IInv, NEW r \in rows, NEW s \in rows,
                    r.intent = s.intent, r.intent \notin exposed
             PROVE  r = s
  BY DEF AcceptedOnce
<1>1. Rows /\ OneKey
  BY DEF IInv
<1>2. PICK d \in doubt : Creator(r, d)
  BY <1>1 DEF Rows
<1>3. PICK e \in doubt : Creator(s, e)
  BY <1>1 DEF Rows
<1>4. Live(d) /\ Live(e)
  BY <1>1, <1>2, <1>3 DEF Rows, Creator, Live
<1>5. d.key = e.key /\ d.route = e.route
  BY <1>1, <1>2, <1>3, <1>4 DEF OneKey, Creator
<1>6. r.key = s.key /\ r.route = s.route
  BY <1>2, <1>3, <1>5 DEF Creator
<1>7. r.org = s.org
  BY <1>1 DEF Rows
<1> QED
  BY <1>1, <1>6, <1>7 DEF Rows

\* An unexposed intent is accepted at most once, however often it is submitted.
THEOREM OperationsHappenOnce == Spec => []AcceptedOnce
BY RowsMeet, Invariance, PTL

\* Nothing of an intent is on the server once all its attempts were refused.
THEOREM RefusalsMeanNothing == Spec => []RefusedMeansNothing
<1>1. IInv => RefusedMeansNothing
  BY DEF IInv, Rows, Creator, RefusedMeansNothing
<1> QED
  BY <1>1, Invariance, PTL

\* Who is told of a success has the intent on the server, in its organization.
THEOREM SuccessesAreTrue == Spec => []ToldIsTrue
<1>1. IInv => ToldIsTrue
  BY DEF IInv, TellsTrue, Rows, ToldIsTrue
<1> QED
  BY <1>1, Invariance, PTL

-----------------------------------------------------------------------------
(* Refinement.                                                             *)

Done == {r.intent : r \in rows}
Repeated == {i \in Intents : \E r, s \in rows : r # s /\ r.intent = i /\ s.intent = i}

\* No step takes an exposure back.
LEMMA ExposedGrows == Next => exposed \subseteq exposed'
BY Zenon DEF Next, Open, Leave, StartOver, Review, Submit, Fail, Succeed, Refused, Reload, FetchSetting,
   FetchAccounts, SwitchOrg, SetPolicy, Accept, Replay, Conflict, Refuse, NewOperation,
   server, net, page, history

\* Only an accepted request adds a row, only a success shown adds an intent.
LEMMA StepIsVisible ==
  Next => \/ UNCHANGED <<rows, told>>
          \/ \E m \in answers : Succeed(m)
          \/ \E a \in requests : Accept(a)
BY Zenon DEF Next, Open, Leave, StartOver, Review, Submit, Fail, Refused, Reload, FetchSetting,
   FetchAccounts, SwitchOrg, SetPolicy, Replay, Conflict, Refuse, server, history

\* An accepted request is the first of its intent or, its key lost, one more.
LEMMA AcceptIsOperation ==
  ASSUME IInv, IInv', NEW a \in requests, Accept(a)
  PROVE  /\ a.intent \in Intents
         /\ Promise!Accept(a.intent) \/ Promise!Repeat(a.intent)
<1> DEFINE row == [org |-> active, route |-> a.route, key |-> a.key, intent |-> a.intent]
<1>1. a.intent \in Intents /\ \A r \in rows : r.intent \in Intents
  BY DEF IInv, TypeOK, Attempt, Row
<1>2. rows' = rows \cup {row} /\ row \notin rows /\ row.intent = a.intent /\ told' = told
  BY DEF Accept, Holder
<1>3. Done' = Done \cup {a.intent}
  BY <1>2 DEF Done
<1> HIDE DEF row
<1>4. CASE a.intent \notin Done
  <2>1. \A s \in rows : s.intent # a.intent
    BY <1>4 DEF Done
  <2>2. Repeated' = Repeated
    BY <1>2, <2>1 DEF Repeated
  <2> QED
    BY <1>1, <1>2, <1>3, <1>4, <2>2 DEF Promise!Accept, Done, Repeated
<1>5. CASE a.intent \in Done
  <2>1. PICK s \in rows : s.intent = a.intent
    BY <1>5 DEF Done
  <2>2. s # row /\ s \in rows' /\ row \in rows'
    BY <1>2, <2>1
  <2>3. AcceptedOnce'
    BY RowsMeet, PTL
  <2>4. a.intent \in exposed'
    BY <1>2, <2>1, <2>2, <2>3 DEF AcceptedOnce
  <2>5. Repeated' = Repeated \cup {a.intent}
    BY <1>1, <1>2, <2>1, <2>2 DEF Repeated
  <2>6. Done' = Done
    BY <1>3, <1>5
  <2> QED
    BY <1>1, <1>2, <1>5, <2>4, <2>5, <2>6 DEF Promise!Repeat, Done, Repeated
<1> QED
  BY <1>1, <1>4, <1>5

LEMMA SucceedIsOperation ==
  ASSUME IInv, NEW m \in answers, Succeed(m)
  PROVE  m.of.intent \in Intents /\ Promise!Tell(m.of.intent)
<1>1. m.of.intent \in Intents
  BY DEF IInv, TypeOK, Attempt
<1>2. m.of.intent \in Done
  BY DEF IInv, Net, Succeed, Done
<1>3. rows' = rows /\ told' = told \cup {m.of.intent}
  BY DEF Succeed, server
<1>4. Done' = Done /\ Repeated' = Repeated
  BY <1>3 DEF Done, Repeated
<1> QED
  BY <1>1, <1>2, <1>3, <1>4 DEF Promise!Tell, Done, Repeated

\* The console implements Operations: each request accepted is an acceptance or,
\* for an exposed intent, a repetition, each success shown a telling, and no other
\* step is visible.
THEOREM Refinement == Spec => ImplementsOperations
<1>1. Init => Promise!Init
  BY DEF Init, Promise!Init
<1>2. ASSUME IInv, IInv', [Next]_vars
      PROVE  [Promise!Next]_Promise!vars
  <2>1. CASE Next
    <3>1. exposed \subseteq exposed' /\ exposed' \subseteq Intents
      BY <1>2, <2>1, ExposedGrows DEF IInv, TypeOK
    <3>2. CASE UNCHANGED <<rows, told>>
      BY <3>1, <3>2 DEF Promise!Next
    <3>3. CASE \E m \in answers : Succeed(m)
      BY <1>2, <3>1, <3>3, SucceedIsOperation DEF Promise!Next
    <3>4. CASE \E a \in requests : Accept(a)
      BY <1>2, <3>1, <3>4, AcceptIsOperation DEF Promise!Next
    <3> QED
      BY <2>1, <3>2, <3>3, <3>4, StepIsVisible
  <2>2. CASE UNCHANGED vars
    BY <2>2 DEF vars, server, history, Promise!vars
  <2> QED
    BY <1>2, <2>1, <2>2
<1> QED
  BY <1>1, <1>2, Invariance, PTL DEF Spec, ImplementsOperations, Promise!Spec
=============================================================================
