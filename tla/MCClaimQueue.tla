---------------------------- MODULE MCClaimQueue ----------------------------
(* A batch of four, three newest and one oldest, as in the code's           *)
(* 32 = 24 + 8.  The rows that can come back for ever, unreadable or edited, *)
(* are one short of a batch.                                                 *)
EXTENDS ClaimQueue
=============================================================================
