------------------------------ MODULE MCConsole ------------------------------
(***************************************************************************)
(* Two transfers and a reversal in one organization, an exchange in the    *)
(* other.  The two transfers are interchangeable.                          *)
(***************************************************************************)
EXTENDS Console, TLC
CONSTANTS transfer, exchange, reverse, pay1, pay2, fx, undo, o1, o2
MCKindOf == [i \in Intents |-> CASE i = undo -> reverse [] i = fx -> exchange [] OTHER -> transfer]
MCOrgOf == [i \in Intents |-> IF i = fx THEN o2 ELSE o1]
MCSymmetry == Permutations({pay1, pay2})
=============================================================================
