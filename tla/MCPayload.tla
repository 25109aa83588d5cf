------------------------------ MODULE MCPayload ------------------------------
(***************************************************************************)
(* Two headers that cite one batch, of two authors one of which is silent. *)
(* When the second is committed, the requests and the batches of the first *)
(* are out of date.                                                        *)
(***************************************************************************)
EXTENDS Payload, TLC

CONSTANTS h1, h2, batch, Mute, Good

MCAuthor == h1 :> Mute @@ h2 :> Good
MCRound == h1 :> 1 @@ h2 :> 3
MCPayloadOf == h1 :> {batch} @@ h2 :> {batch}
MCHolds == Mute :> {} @@ Good :> {batch}
=============================================================================
