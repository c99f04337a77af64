------------------------------ MODULE Operations ------------------------------
(***************************************************************************)
(* What the console promises for the operations a person intends: each is  *)
(* accepted at most once however often it is submitted, and nobody is told *)
(* that it succeeded unless it was accepted.                               *)
(*                                                                         *)
(* The promise rests on the idempotency key.  An intent is `exposed` once  *)
(* that protection was given up for it; the detailed specification says    *)
(* exactly when that happens.                                              *)
(***************************************************************************)
CONSTANT Intents

VARIABLES
  done,      \* intents the server accepted
  repeated,  \* intents it accepted more than once
  told,      \* intents whose success was shown
  exposed    \* intents no longer protected by one key

vars == <<done, repeated, told, exposed>>

Init == done = {} /\ repeated = {} /\ told = {} /\ exposed = {}

Accept(i) == i \notin done /\ done' = done \cup {i} /\ UNCHANGED <<repeated, told>>

Repeat(i) ==
  /\ i \in done \cap exposed'
  /\ repeated' = repeated \cup {i}
  /\ UNCHANGED <<done, told>>

Tell(i) ==
  /\ i \in done \cup exposed'
  /\ told' = told \cup {i}
  /\ UNCHANGED <<done, repeated>>

\* Exposure comes with another step, or alone.
Next ==
  /\ exposed \subseteq exposed' /\ exposed' \subseteq Intents
  /\ \/ \E i \in Intents : Accept(i) \/ Repeat(i) \/ Tell(i)
     \/ UNCHANGED <<done, repeated, told>>

Spec == Init /\ [][Next]_vars
=============================================================================
