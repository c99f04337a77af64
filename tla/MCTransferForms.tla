--------------------------- MODULE MCTransferForms ---------------------------
(* Three accounts in one currency, enough for a fee split, and one in another. *)
EXTENDS TransferForms
CONSTANTS a, b, c, d
MCCurrencyOf == [x \in Accounts |-> IF x = d THEN "EUR" ELSE "USD"]
=============================================================================
