------------------------------ MODULE MCReset ------------------------------
(***************************************************************************)
(* Two tabs, two calls.  Currency 2 has three accounts, one more than a    *)
(* chunk takes, and a suspense account whose id sorts before theirs; the   *)
(* accounts of currency 1 are at zero unless one is tampered with.         *)
(* Others may use the suspense name of currency 2 for an account of        *)
(* currency 1 (9), a normal one (10) or a fit one (11), and close its      *)
(* suspense account.  With a posting from 8 to 6 the first chunk adds up   *)
(* to more than can be stored.                                             *)
(*                                                                         *)
(* For MCResetParked one currency: two full chunks of accounts, and the    *)
(* suspense account sorts after them all.                                  *)
(***************************************************************************)
EXTENDS Reset

MCCurrencyOf == [a \in 1..11 |-> IF a <= 3 \/ a = 9 THEN 1 ELSE 2]
MCSuspense == [k \in {1, 2} |-> IF k = 1 THEN 1 ELSE 4]
MCBalance == [a \in 1..11 |->
  CASE a = 5 -> 1 [] a = 6 -> 1 [] a = 7 -> -2 [] OTHER -> 0]
MCMoves == {<<5, 7>>, <<8, 6>>}
MCClaims == {2} \X {9, 10, 11}

ParkedCurrencyOf == [a \in 1..5 |-> 1]
ParkedSuspense == [c \in {1} |-> 5]
ParkedBalance == [a \in 1..5 |->
  CASE a = 1 -> 2 [] a = 2 -> -1 [] a = 3 -> 1 [] a = 4 -> -2 [] OTHER -> 0]
ParkedMoves == {}
============================================================================
