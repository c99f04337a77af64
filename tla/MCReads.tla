------------------------------- MODULE MCReads -------------------------------
(* Three rows in one or two milliseconds, one to a page; an export of two pages. *)
EXTENDS Reads, TLC
Three == 1..3
Signed == (1 :> 3) @@ (2 :> -1) @@ (3 :> 5)
=============================================================================
