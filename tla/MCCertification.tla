--------------------------- MODULE MCCertification ---------------------------
(***************************************************************************)
(* Instances of Certification: committees of four units of stake, in which *)
(* a quorum is three units and one unit may be faulty.                     *)
(***************************************************************************)
EXTENDS Certification, TLC

CONSTANTS A, B, C, x, y, z, w

\* A and one other authority are a quorum.
MCKeys == <<A, B, C>>
MCStake == (A :> 2) @@ (B :> 1) @@ (C :> 1)

\* Before and after a restart.
MCContents == [n \in Correct |-> <<x, y>>]

\* A alone is a quorum, so B may be slow.
SlowKeys == <<A, B>>
SlowStake == (A :> 3) @@ (B :> 1)
Form(content, right, authors) == [payload |-> content, sound |-> right, parents |-> authors]

\* Two good headers, one with wrong counts, one without a quorum of parents.
MCForms == {Form(x, TRUE, {A, B, C}), Form(y, TRUE, {A, B, C}),
            Form(z, FALSE, {A, B, C}), Form(w, TRUE, {A})}
TwoForms == {Form(x, TRUE, {A, B}), Form(y, TRUE, {A, B})}
NoForms == {}

\* The search for a late vote is confined to the behaviours in which B makes one
\* header, gets A's messages in order and A collects nothing.
InOrder ==
  /\ Cardinality({h \in headers : h.author = B}) <= 1
  /\ waitingHeaders[B] = {} /\ waitingCertificates[B] = {}
  /\ consensusRound[A] = 0
==============================================================================
