------------------------------ MODULE Routing ------------------------------
(***************************************************************************)
(* Rerouting composed with its effect: the node hands the notices of moved *)
(* accounts to its workers, whose Synchronizer sends them to the client of *)
(* each account's home; the client reroutes an account when f + 1          *)
(* validators name the same new target.                                    *)
(*                                                                         *)
(* One client is modelled, that of the accounts of one home.  Every        *)
(* validator reaches it over a connection of its own, which keeps its order*)
(* and may lose messages: the notices of one decision for this client,     *)
(* under the name of their sender.  The client takes connections from      *)
(* anyone and a message's word for its sender: a peer that is no correct   *)
(* validator can speak under any name, a correct validator's too.          *)
(***************************************************************************)
EXTENDS Rerouting

CONSTANTS
  Client,      \* the home of the accounts of the client
  Peers,       \* others that connect to the client
  Forgeries,   \* the messages they may send, under whatever name
  MaxFaults    \* bound: messages forged and messages lost

Senders == Validators \cup Peers
Own == {a \in Accounts : Home[a] = Client}
Notices == [account : Own, target : Authorities]

ASSUME RoutingAssumption ==
  /\ Client \in Authorities
  /\ Peers \cap Validators = {}
  /\ IsFiniteSet(Forgeries)
  /\ \A m \in Forgeries : m = [sender |-> m.sender, notices |-> m.notices]
                           /\ m.notices \subseteq Notices
  /\ MaxFaults \in Nat

VARIABLES
  messages,    \* from each validator, on their way to the client
  votes,       \* migration_listener's votes: senders named for each notice
  confirmed,   \* notices a connection's handler has confirmed, not yet routed
  table,       \* the routing table of the client
  decided,     \* history: the notices each validator has sent
  claims,      \* history: the messages that peers have sent
  lost         \* bound's counter: messages lost

client == <<votes, confirmed, table>>
history == <<decided, claims, lost>>
routingVars == <<vars, messages, client, history>>

RoutingInit ==
  /\ Init
  /\ messages = [v \in Validators |-> <<>>]
  /\ votes = [n \in {} |-> {}]
  /\ confirmed = [s \in Senders |-> {}]
  /\ table = [a \in Own |-> Client]
  /\ decided = [v \in Validators |-> {}]
  /\ claims = {} /\ lost = 0

\* The notices for the client of the accounts that changed hands.
Moves(from, to) ==
  {n \in Notices : from[n.account] # to[n.account] /\ n.target = to[n.account]}

\* A validator's task, and what analyze and handle_migration_notices make of its
\* decision.
Decide(v, c) ==
  LET moves == Moves(assigned[v], assigned'[v])
  IN  /\ Balance(v, c)
      /\ messages' = IF moves = {} THEN messages
                     ELSE [messages EXCEPT ![v] = Append(@, [sender |-> v, notices |-> moves])]
      /\ decided' = [decided EXCEPT ![v] = @ \cup moves]
      /\ UNCHANGED <<client, claims, lost>>

Lose(v) ==
  /\ Cardinality(claims) + lost < MaxFaults /\ messages[v] # <<>>
  /\ messages' = [messages EXCEPT ![v] = Tail(@)]
  /\ lost' = lost + 1
  /\ UNCHANGED <<vars, client, decided, claims>>

\* Faulty variant: every message starts a new count.
VotesForNone(n) == {}

VotesFor(n) == IF n \in DOMAIN votes THEN votes[n] ELSE {}

\* Faulty variant: f votes confirm.
EnoughWithF(S) == Cardinality(S) >= Faults

\* f_plus_one.
Enough(S) == Cardinality(S) >= Faults + 1

\* The handler of connection s counts the notices of a message for the sender
\* that the message names, and takes those it confirms out of the votes.
Count(s, m) ==
  LET counted == [n \in DOMAIN votes \cup m.notices |->
                    VotesFor(n) \cup (IF n \in m.notices THEN {m.sender} ELSE {})]
      enough == {n \in m.notices : Enough(counted[n])}
  IN  /\ confirmed[s] = {}
      /\ votes' = Restrict(counted, DOMAIN counted \ enough)
      /\ confirmed' = [confirmed EXCEPT ![s] = enough]

Vote(v) ==
  /\ messages[v] # <<>> /\ Count(v, Head(messages[v]))
  /\ messages' = [messages EXCEPT ![v] = Tail(@)]
  /\ UNCHANGED <<vars, table, history>>

\* A peer's message, counted as it comes; each is sent once (bound).
Forge(p, m) ==
  /\ m \notin claims /\ Cardinality(claims) + lost < MaxFaults
  /\ Count(p, m)
  /\ claims' = claims \cup {m}
  /\ UNCHANGED <<vars, messages, table, decided, lost>>

\* Later, under the lock of the routing table, it reroutes the accounts.
Route(s) ==
  /\ confirmed[s] # {}
  /\ confirmed' = [confirmed EXCEPT ![s] = {}]
  /\ table' \in {t \in [DOMAIN table -> Authorities] :
                   \A a \in DOMAIN table :
                     LET new == {n.target : n \in {n \in confirmed[s] : n.account = a}}
                     IN  t[a] \in IF new = {} THEN {table[a]} ELSE new}
  /\ UNCHANGED <<vars, messages, votes, history>>

RoutingNext ==
  \/ \E v \in Validators : (\E c \in DOMAIN dag : Decide(v, c)) \/ Lose(v) \/ Vote(v)
  \/ \E p \in Peers, m \in Forgeries : Forge(p, m)
  \/ \E s \in Senders : Route(s)

\* Connections deliver, and the client's handlers run.
RoutingFairness ==
  /\ \A v \in Validators : WF_messages(Vote(v))
  /\ \A s \in Senders : WF_confirmed(Route(s))

RoutingSpec == RoutingInit /\ [][RoutingNext]_routingVars /\ RoutingFairness

----------------------------------------------------------------------------
(* Properties *)

\* The names that peers have given as senders of a notice of S.
NamedFor(S) == {m.sender : m \in {m \in claims : m.notices \cap S # {}}}

\* An account is only routed away from its home to where a correct validator
\* decided to move it, unless peers told the client so under more than f names
\* (migration_listener's f + 1 matching votes): f names are too few, whichever
\* they are and however they are mixed with the true ones.
RoutedByCorrect ==
  \A a \in Own : table[a] # Home[a] =>
    LET n == [account |-> a, target |-> table[a]]
    IN  \/ \E v \in Validators : n \in decided[v]
        \/ Cardinality(NamedFor({n})) > Faults

\* All correct validators moved account a to w, and nowhere else.
Agreed(a, w) ==
  \A v \in Validators : {n \in decided[v] : n.account = a} = {[account |-> a, target |-> w]}

\* Peers spoke of account a under the name of a correct validator, whose own vote
\* then counts for nothing or once too often, or under more than f names.
Misled(a) ==
  LET names == NamedFor({n \in Notices : n.account = a})
  IN  names \cap Validators # {} \/ Cardinality(names) > Faults

\* An account that the correct validators move once is routed there in the end,
\* if no message is lost and the client is not misled.
MoveFollowed ==
  \A a \in Own :
    (\E w \in Authorities : Agreed(a, w)) ~>
      \/ lost > 0 \/ Misled(a)
      \/ \A w \in Authorities : Agreed(a, w) => table[a] = w
=============================================================================
