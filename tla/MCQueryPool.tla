---------------------------- MODULE MCQueryPool -----------------------------
(***************************************************************************)
(* Instances of QueryPool for TLC: every address has another balance, the  *)
(* first one has no tokens at first, and a block changes them all.         *)
(***************************************************************************)
EXTENDS QueryPool

HeldAll ==
  [asset \in Assets |-> [i \in 1..MaxJobs |-> [b \in 0..MaxBlocks |->
     IF asset = "coin" THEN 10 * i + b ELSE i - 1 + 5 * b]]]
=============================================================================
