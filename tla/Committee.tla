------------------------------ MODULE Committee ------------------------------
(***************************************************************************)
(* The committee of config/src/lib.rs: the authorities, their stake, the   *)
(* two stake thresholds every protocol decision compares with, and the     *)
(* round-robin leader schedule of the consensus crate.                     *)
(***************************************************************************)
EXTENDS Integers, Sequences, FiniteSets

CONSTANTS
  Authorities, \* the public keys of Committee::authorities
  Stake,       \* Authority::stake, the voting power of each authority
  Keys         \* the authorities in ascending public-key order

ASSUME CommitteeAssumption ==
  /\ IsFiniteSet(Authorities)
  /\ Stake \in [Authorities -> Nat]
  /\ Keys \in Seq(Authorities)
  /\ Len(Keys) > 0

\* The units of voting power that the authorities of S hold: one pair for each
\* unit, so that a sum of stakes is the number of units.
Units(S) == UNION {{a} \X (1 .. Stake[a]) : a \in S}

\* Sum of Committee::stake over the authorities of S.
StakeOf(S) == Cardinality(Units(S))

TotalStake == StakeOf(Authorities)

\* With N = 3f + 1 + k (0 <= k < 3): 2f + 1 + k, the weight of a certificate.
QuorumThreshold == (2 * TotalStake) \div 3 + 1

\* With N = 3f + 1 + k (0 <= k < 3): f + 1, enough to include a correct authority.
ValidityThreshold == (TotalStake + 2) \div 3

IsQuorum(S) == StakeOf(S) >= QuorumThreshold

\* Consensus::leader outside of tests: the coin is the round number.
Leader(r) == Keys[(r % Len(Keys)) + 1]
==============================================================================
