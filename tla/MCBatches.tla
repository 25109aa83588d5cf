----------------------------- MODULE MCBatches -----------------------------
(***************************************************************************)
(* An instance of Batches for TLC: three authorities of unequal stake: the  *)
(* acknowledgement of B is needed, that of C comes when it may.            *)
(***************************************************************************)
EXTENDS Batches

CONSTANTS A, B, C

MCAuthorities == {A, B, C}
MCStake       == [a \in MCAuthorities |-> IF a = B THEN 2 ELSE 1]
MCKeys        == <<A, B, C>>
=============================================================================
