----------------------------- MODULE MCApprovals -----------------------------
(***************************************************************************)
(* Two admins, who check each other's submissions, and one key for two     *)
(* payloads.  Three requests are a submission and two decisions that race, *)
(* two submissions and a decision, or two settings and a direct posting.   *)
(***************************************************************************)
EXTENDS Approvals
==============================================================================
