--------------------------- MODULE MCRequestScope ---------------------------
(***************************************************************************)
(* One organization with a funded customer in USD and one in EUR: first    *)
(* exchanges in both directions, an account opened under a bridge's name   *)
(* in the wrong currency, two seeds and a retry, and payments that meet    *)
(* a seed on its rows or under its keys.  MaxBalance lets one seed post    *)
(* and refuses the second one's funding.                                   *)
(***************************************************************************)
EXTENDS RequestScope, TLC

MCAccounts ==
  {Account("cash", "external", "USD"), Account("alice", "normal", "USD"),
   Account("eve", "normal", "EUR")}

Row(key, legs) ==
  [key |-> key, leg |-> 1, by |-> "earlier", legs |-> legs, delta |-> Deltas(legs),
   currency |-> "USD", reverses |-> NoRow]
MCRows == {Row(<<"k0">>, <<Debit("alice", 2), Credit("cash", 2)>>)}

Exchange(key, from, to, agrees) ==
  [op |-> "exchange", key |-> key, from |-> from, to |-> to, amount |-> 1,
   targetAmount |-> 1, agrees |-> agrees]
Open(name, currency) == [op |-> "open", account |-> Account(name, "normal", currency)]
Seed(run) == [op |-> "seed", key |-> <<run>>]
Pay(key, legs, currencies) ==
  [op |-> "post", key |-> key, legs |-> legs, currencies |-> currencies]

\* First exchanges, opposite directions, refusals, and a squatted bridge name.
MCOpening ==
  {Exchange(<<"k1">>, "alice", "eve", TRUE), Exchange(<<"k2">>, "alice", "eve", TRUE),
   Exchange(<<"k3">>, "eve", "alice", TRUE), Exchange(<<"k1">>, "alice", "cash", TRUE),
   Exchange(<<"k1">>, "alice", "eve", FALSE),
   Open("FX Bridge USD", "EUR"), Open("FX Bridge EUR", "EUR"),
   Pay(<<"k1">>, <<Debit("alice", 1), Credit("cash", 1)>>, <<"USD", "USD">>),
   Pay(<<"k2">>, <<Debit("alice", 2), Credit("cash", 1)>>, <<"USD", "USD">>)}

\* Two seeds, a retry, and a payment that meets its rows the other way round.
MCSeeding ==
  {Seed("s"), Seed("t"),
   Pay(<<"k1">>, <<Credit("Employee A", 1), Debit("Operating", 1)>>, <<"USD", "USD">>),
   Pay(<<"s", "payroll">>, <<Debit("alice", 1), Credit("cash", 1)>>, <<"USD", "USD">>),
   Open("Operating", "USD"), Open("Operating", "EUR")}

\* A bridge and an account of the seeds, empty until something posts.
MCClosable == {"FX Bridge EUR", "Operating"}

MCCommands == MCOpening \cup MCSeeding
=============================================================================
