------------------------------- MODULE MCTusk -------------------------------
(***************************************************************************)
(* Instances of Tusk: four authorities of equal stake, two validators and  *)
(* hand-made DAGs in which certificates lag behind.                        *)
(***************************************************************************)
EXTENDS Tusk, TLC

CONSTANTS A, B, C, D

MCKeys == <<A, B, C, D>>
MCStake == [a \in Authorities |-> 1]

\* The DAG of rows: rows[r][a] are the origins of the parents of the
\* certificate of round r by a.
FromRows(rows) ==
  [c \in UNION {[origin : DOMAIN rows[r], round : {r}] : r \in DOMAIN rows} |->
     [origin : rows[c.round][c.origin], round : {c.round - 1}]]

Row(who, which) == [a \in who |-> which]

ABC == {A, B, C}
ABD == {A, B, D}
ACD == {A, C, D}
BCD == {B, C, D}
All == {A, B, C, D}

\* The leader of round 2 is C, that of round 4 is A, of round 6 C again.

\* C's first certificate is late: only D's second certificate cites it, only D's
\* third cites that one, and only the leader of round 4 cites D's third.
LateDag ==
  FromRows(<<
    Row(All, All),
    (D :> ABC) @@ Row(ABC, ABD),
    (D :> ABD) @@ Row(ABC, ABC),
    (A :> ABD) @@ Row(BCD, ABC),
    (B :> BCD) @@ Row(ABC, ABC),
    Row(ABC, ABC),
    Row({A}, ABC) >>)

\* Every certificate cites its origin's previous one. Only B's and C's third
\* certificates cite the leader of round 2, and C lags from round 3 on: whoever
\* does not have C's third certificate in time sees too little support.
SplitDag ==
  FromRows(<<
    Row(All, All),
    (D :> ABD) @@ Row(ABC, ABC),
    (B :> ABC) @@ (C :> ACD) @@ Row({A, D}, ABD),
    (C :> BCD) @@ Row(ABD, ABD),
    (C :> ACD) @@ Row(ABD, ABD),
    Row(ABD, ABD),
    Row({A}, ABD) >>)

\* As SplitDag, but the leader of round 4 cites no certificate that cites the
\* leader of round 2, which has only C's support.
OrphanDag ==
  [SplitDag EXCEPT ![[origin |-> B, round |-> 3]] =
     [origin : ABD, round : {2}]]

\* Everyone cites everyone.
FullDag ==
  FromRows([r \in 1 .. 7 |-> Row(CASE r < 6 -> All [] r = 6 -> ABC [] r = 7 -> {A},
                                IF r < 7 THEN All ELSE ABC)])

AllDags == {FullDag, LateDag, SplitDag, OrphanDag}
=============================================================================
