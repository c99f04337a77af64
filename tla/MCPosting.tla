------------------------------ MODULE MCPosting ------------------------------
(***************************************************************************)
(* A small organization: an external account and two customers in USD, the *)
(* external account of the EUR bridge and a customer in EUR, and an id     *)
(* nobody has.                                                             *)
(***************************************************************************)
EXTENDS Posting, TLC

CONSTANTS cash, alice, bob, desk, eve, ghost

MCAccounts == {cash, alice, bob, desk, eve}
MCManaged == {alice, bob}
MCAccountIds == MCAccounts \cup {ghost}
MCExternal == {cash, desk}
MCCurrencies == {"USD", "EUR"}
MCCurrencyOf == [a \in MCAccounts |-> IF a \in {desk, eve} THEN "EUR" ELSE "USD"]

\* A transfer of amount from one account to another: credit the first, debit
\* the second.
Transfer(cur, from, to, amount) ==
  [currency |-> cur, touches |-> {from, to}, reverses |-> NoTx,
   delta |-> [a \in MCAccountIds |-> CASE a = from -> -amount [] a = to -> amount [] OTHER -> 0]]

Fund(amount) == <<Transfer("USD", cash, alice, amount)>>
Pay == <<Transfer("USD", alice, bob, 1)>>
\* A debit and a credit of one account: balanced, and it moves nothing.
Wash == <<[Transfer("USD", alice, alice, 0) EXCEPT !.touches = {alice}]>>
PayGhost == <<Transfer("USD", alice, ghost, 1)>>
PayEuro == <<Transfer("USD", alice, eve, 1)>>
Exchange == <<Transfer("USD", alice, cash, 1), Transfer("EUR", desk, eve, 1)>>
\* The payer is the bridge itself: an exchange that needs no funding.
BridgeExchange == <<[Transfer("USD", cash, cash, 0) EXCEPT !.touches = {cash}],
                    Transfer("EUR", desk, eve, 1)>>
\* Two units arrive for one spent: the second leg can exceed the storable range.
DearExchange == <<Transfer("USD", alice, cash, 1), Transfer("EUR", desk, eve, 3)>>

CONSTANTS k1, k2, k3
MCKeys == {k1, k2, k3}

Ask(k, l) == [key |-> k, legs |-> l]

\* A retry of the same funding, a second funding that overflows the range, a
\* changed payload under a used key, a payment that needs the funding first, and
\* one command for every way a posting is refused; an exchange that
\* two requests can then reverse.
MCCommands ==
  {Ask(k1, Fund(2)), Ask(k2, Fund(2)), Ask(k1, Fund(1)), Ask(k1, Wash), Ask(k2, Pay),
   Ask(k2, PayGhost), Ask(k2, PayEuro), Ask(k2, Exchange), Ask(k2, DearExchange),
   Ask(k2, BridgeExchange)}

MCSymmetry == Permutations(Requests)
==============================================================================
