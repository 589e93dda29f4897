-------------------------- MODULE PartyCoordinator --------------------------
(***************************************************************************)
(* How the signers of a message find each other                            *)
(* (bifrost/p2p/party_coordinator.go, peer_status.go, leader_provider.go). *)
(* Every node works out the same leader from the message, the block height *)
(* rounded to a window of 20 blocks, and the vault's members.  Members ask *)
(* the leader to join; the leader takes the first `threshold' of them,     *)
(* adds itself and answers everybody with the list, or with a timeout.     *)
(* The messages carry the message ID only, nothing tells one attempt to    *)
(* sign a message from the next.                                           *)
(*                                                                         *)
(* The module holds the data of one attempt (peerStatus) and what the      *)
(* handlers and the two waiting routines compute from it; Keysign.tla runs *)
(* them.                                                                   *)
(***************************************************************************)
EXTENDS Integers, FiniteSets

CONSTANTS
    Nodes,       \* the vault's members
    LastWindow,  \* bound on the rounded block heights, counted from 1
    LeaderNode   \* LeaderNode[w]: the member with the least hash in window w

FirstWindow == 1
Windows == FirstWindow .. LastWindow

\* LeaderNode hashes message, height and peer: any function of the window.
ASSUME LeaderAssumption == LastWindow \in Nat \ {0} /\ LeaderNode \in [Windows -> Nodes]

ASSUME NodesAssumption == IsFiniteSet(Nodes) /\ Nodes # {}

\* conversion.GetThreshold of the vault's members: two thirds rounded up, less
\* one, so that threshold + 1 nodes sign.
threshold == (2 * Cardinality(Nodes) + 2) \div 3 - 1

\* The answer a node has not got (leaderResponse is nil), and the group of a
\* node that is not joining.
None == [type |-> "none"]

\* A JoinPartyLeaderComm of type "response": success or timeout, and the peers
\* that are online.
Responses == [type : {"response"}, ok : BOOLEAN, peers : SUBSET Nodes]

\* peerStatus: the peers heard from, the tokens in the notify channel, the
\* leader's answer.
Groups ==
    [type : {"group"}, leader : Nodes, online : SUBSET Nodes,
     notify : Nat, leaderResponse : Responses \cup {None}]

newPeerStatus(leader) ==
    [type |-> "group", leader |-> leader, online |-> {}, notify |-> 0, leaderResponse |-> None]

Enough(g) == Cardinality(g.online) >= threshold

\* updatePeer without the early return: later requests still join.
updatePeerAlways(g, p) ==
    IF p \in g.online THEN g
    ELSE LET with == [g EXCEPT !.online = @ \cup {p}]
         IN  IF Enough(with) THEN [with EXCEPT !.notify = @ + 1] ELSE with

\* updatePeer, and processReqMsg's token when the party is complete: a request
\* counts once per peer and only until threshold of them are online.  (No test
\* that this node is the leader: the group of any node counts requests.)
updatePeer(g, p) ==
    IF Enough(g) \/ p \in g.online THEN g
    ELSE LET with == [g EXCEPT !.online = @ \cup {p}]
         IN  IF Enough(with) THEN [with EXCEPT !.notify = @ + 1] ELSE with

\* processRespMsg: the answer is taken from the leader of the group only.
TakeResponse(g, from, resp) ==
    IF from # g.leader THEN g
    ELSE [g EXCEPT !.leaderResponse = resp, !.notify = @ + 1]

\* LeaderResponse counting the leader as one more peer than there are.
LeaderResponseShort(g, self) ==
    LET onlinePeers == g.online \cup {self}
    IN  [type |-> "response", ok |-> Cardinality(onlinePeers) > threshold + 1, peers |-> onlinePeers]

\* joinPartyLeader: the leader joins whoever is online and says whether
\* that is enough.
LeaderResponse(g, self) ==
    LET onlinePeers == g.online \cup {self}
    IN  [type |-> "response", ok |-> Cardinality(onlinePeers) >= threshold + 1, peers |-> onlinePeers]

\* joinPartyMember after its wait: no answer (ErrLeaderNotReady), too few peers
\* or a timeout answer fail the attempt.
MemberJoins(g) ==
    /\ g.leaderResponse # None
    /\ Cardinality(g.leaderResponse.peers) >= threshold
    /\ g.leaderResponse.ok

=============================================================================
