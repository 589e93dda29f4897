---------------------------- MODULE KeysignProofs ---------------------------
(***************************************************************************)
(* Proofs about Keysign and its PartyCoordinator, for any nodes, groups of *)
(* the threshold's size and numbers of attempts: a party has one node more *)
(* than the threshold, the waiter of a notifier finds the signature that   *)
(* arrived for it, no goroutine of KeySign blocks on sigChan, and a call   *)
(* that all members make together succeeds unless something is lost.       *)
(***************************************************************************)
EXTENDS Keysign, FiniteSetTheorems, SequenceTheorems, TLAPS

\* A node that joins has its group.
JoinHasGroup ==
  \A n \in Nodes : gen[n] \in {"joining", "answering"} => group[n] \in Groups

\* A notifier exists while somebody waits on it or works with it; the waiter's
\* part is in it, and with both parts it has been processed.
NotifierReady ==
  \A n \in Nodes :
    /\ handling[n] => notifier[n] \in Notifiers
    /\ wait[n] = "waiting" => notifier[n] \in Notifiers /\ notifier[n].awaited
    /\ notifier[n] \in Notifiers /\ notifier[n].awaited /\ notifier[n].signature
         => notifier[n].resp

TypeInv == TypeOK /\ JoinHasGroup

\* A goroutine that is done may have left a token.
Left(where) == IF where = "done" THEN 1 ELSE 0

\* Each goroutine leaves at most one token in sigChan, at its end, and both
\* run during the same call.
TokensFit ==
  \A n \in Nodes :
    /\ gen[n] = "off" <=> wait[n] = "off"
    /\ Len(sigChan[n]) <= Left(wait[n]) + Left(gen[n])

AnswerFits(r) == r.ok => Cardinality(r.peers) = threshold + 1

GroupFits(g) ==
  /\ Cardinality(g.online) <= threshold
  /\ g.leaderResponse # None => AnswerFits(g.leaderResponse)

FullParty(n, S) == n \in S /\ Cardinality(S) = threshold + 1

\* No group counts more than threshold peers, every good answer, stored or on
\* its way, names threshold + 1, and so does a leader's own list.
PartiesFit ==
  /\ \A n \in Nodes : group[n] \in Groups => GroupFits(group[n])
  /\ \A m \in net : m.type = "answer" => AnswerFits(m.body)
  /\ \A n \in Nodes : gen[n] = "answering" => party[n] = {} \/ FullParty(n, party[n])
  /\ \A n \in Nodes : gen[n] = "signing" => FullParty(n, party[n])

-----------------------------------------------------------------------------
(* The operators on groups and notifiers                                   *)

LEMMA UpdateType ==
  ASSUME NEW k \in Notifiers, NEW part \in {"signature", "awaited"}
  PROVE  Update(k, part) \in Notifiers
  BY DEF Notifiers, Update

LEMMA NewNotifierType == newNotifier \in Notifiers /\ None \notin Notifiers
  BY DEF Notifiers, newNotifier, None

LEMMA UpdatePeerType ==
  ASSUME NEW g \in Groups, NEW p \in Nodes
  PROVE  updatePeer(g, p) \in Groups
  <1> USE DEF Groups
  <1> DEFINE with == [g EXCEPT !.online = @ \cup {p}]
  <1>1. with \in Groups /\ with.notify + 1 \in Nat
    OBVIOUS
  <1>2. [with EXCEPT !.notify = @ + 1] \in Groups
    BY <1>1
  <1> QED BY <1>1, <1>2, Zenon DEF updatePeer

LEMMA TakeResponseType ==
  ASSUME NEW g \in Groups, NEW p \in Nodes, NEW resp \in Responses
  PROVE  TakeResponse(g, p, resp) \in Groups
  <1>1. g.notify + 1 \in Nat
    BY DEF Groups
  <1> QED BY <1>1 DEF Groups, TakeResponse

LEMMA LeaderResponseType ==
  ASSUME NEW g \in Groups, NEW p \in Nodes
  PROVE  LeaderResponse(g, p) \in Responses
  BY DEF Groups, Responses, LeaderResponse

LEMMA NewGroupType ==
  ASSUME NEW leader \in Nodes
  PROVE  newPeerStatus(leader) \in Groups
  BY DEF newPeerStatus, Groups

LEMMA NoneType == None \notin Groups /\ None \notin Responses /\ None \notin Notifiers
  BY DEF None, Groups, Responses, Notifiers

LEMMA FirstWindowType == FirstWindow \in Windows
  BY LeaderAssumption DEF FirstWindow, Windows

LEMMA TimeoutType ==
  ASSUME TypeOK, NEW may, Timeout(may)
  PROVE  faults' \in 0 .. MaxFaults
  <1>1. faults \in 0 .. MaxFaults
    BY DEF TypeOK
  <1> QED BY <1>1, KeysignAssumption DEF Timeout

LEMMA NotifierType ==
  ASSUME TypeOK, NEW n \in Nodes
  PROVE  getNotifier(n) \in Notifiers
  BY NewNotifierType DEF TypeOK, getNotifier

LEMMA InitTypes ==
  ASSUME Init
  PROVE  TypeInv
  <1>1. 0 \in 0 .. MaxFaults
    BY KeysignAssumption
  <1>2. sigChan \in [Nodes -> Seq({"signature received", "signature generated"})]
    BY EmptySeq DEF Init
  <1>3. TypeOK
    BY <1>1, <1>2, FirstWindowType DEF Init, TypeOK
  <1> QED BY <1>3 DEF Init, TypeInv, JoinHasGroup

-----------------------------------------------------------------------------
(* Each action keeps the types.                                            *)

LEMMA KeySignTypes ==
  ASSUME TypeInv, NEW n \in Nodes, KeySign(n)
  PROVE  TypeInv'
  <1> USE DEF TypeInv
  <1>1. Update(getNotifier(n), "awaited") \in Notifiers
    BY NotifierType, UpdateType
  <1>2. newPeerStatus(LeaderNode[height]) \in Groups
    BY NewGroupType, LeaderAssumption DEF TypeOK
  <1>3. calls \in [Nodes -> Nat]
    BY DEF TypeOK
  <1>4. calls[n] + 1 \in Nat
    BY <1>3
  <1>5. together' \in BOOLEAN
    BY DEF KeySign, TypeOK
  <1>6. TypeOK'
    BY <1>1, <1>2, <1>4, <1>5 DEF KeySign, TypeOK
  <1>7. JoinHasGroup'
    BY <1>2 DEF KeySign, TypeOK, JoinHasGroup
  <1> QED BY <1>6, <1>7

LEMMA ReturnTypes ==
  ASSUME TypeInv, NEW n \in Nodes, Return(n)
  PROVE  TypeInv'
  <1> USE DEF TypeInv
  <1>1. TypeOK'
    BY EmptySeq DEF Return, TypeOK
  <1>2. JoinHasGroup'
    BY DEF Return, TypeOK, JoinHasGroup
  <1> QED BY <1>1, <1>2

LEMMA RequestTypes ==
  ASSUME TypeInv, NEW n \in Nodes, sendRequestToLeader(n)
  PROVE  TypeInv'
  <1> USE DEF TypeInv
  <1>1. group[n] \in Groups
    BY DEF TypeOK, sendRequestToLeader, JoinHasGroup
  <1>2. [type |-> "request", from |-> n, to |-> group[n].leader] \in Requests
    BY <1>1 DEF Groups, Requests
  <1>3. net' \subseteq Requests \cup Answers \cup Signatures
    BY <1>2 DEF sendRequestToLeader, TypeOK
  <1> QED
    BY <1>3 DEF sendRequestToLeader, TypeOK, JoinHasGroup, callVars, genVars, waitVars

\* A message of the network says where it comes from and where it goes.
LEMMA MessageTypes ==
  ASSUME TypeOK, NEW m \in net
  PROVE  /\ m.type = "request" => m.from \in Nodes /\ m.to \in Nodes
         /\ m.type = "answer" => m.from \in Nodes /\ m.to \in Nodes /\ m.body \in Responses
         /\ m.type = "signature" => m.to \in Nodes
  <1>1. m \in Requests \cup Answers \cup Signatures
    BY DEF TypeOK
  <1> QED BY <1>1 DEF Requests, Answers, Signatures

LEMMA ReqMsgTypes ==
  ASSUME TypeInv, NEW m \in net, processReqMsg(m)
  PROVE  TypeInv'
  <1> USE DEF TypeInv
  <1> DEFINE g == IF group[m.to] = None THEN None ELSE updatePeer(group[m.to], m.from)
  <1>1. m.from \in Nodes /\ m.to \in Nodes
    BY MessageTypes DEF processReqMsg
  <1>2. group[m.to] \in Groups \cup {None}
    BY <1>1 DEF TypeOK
  <1>3. g \in Groups \cup {None} /\ (group[m.to] \in Groups => g \in Groups)
    BY <1>1, <1>2, UpdatePeerType, NoneType
  <1>4. group' = [group EXCEPT ![m.to] = g]
    BY DEF processReqMsg
  <1> HIDE DEF g
  <1>5. TypeOK'
    <2>1. group' \in [Nodes -> Groups \cup {None}]
      BY <1>1, <1>3, <1>4 DEF TypeOK
    <2>2. net' \subseteq Requests \cup Answers \cup Signatures
      BY DEF processReqMsg, TypeOK
    <2>3. UNCHANGED <<callVars, gen, generated, party, waitVars, sigChan, faults>>
      BY DEF processReqMsg
    <2> QED BY <2>1, <2>2, <2>3 DEF TypeOK, callVars, waitVars
  <1>6. JoinHasGroup'
    BY <1>1, <1>3, <1>4 DEF processReqMsg, TypeOK, JoinHasGroup
  <1> QED BY <1>5, <1>6

LEMMA RespMsgTypes ==
  ASSUME TypeInv, NEW m \in net, processRespMsg(m)
  PROVE  TypeInv'
  <1> USE DEF TypeInv
  <1> DEFINE g == IF group[m.to] = None THEN None ELSE TakeResponse(group[m.to], m.from, m.body)
  <1>1. m.from \in Nodes /\ m.to \in Nodes /\ m.body \in Responses
    BY MessageTypes DEF processRespMsg
  <1>2. group[m.to] \in Groups \cup {None}
    BY <1>1 DEF TypeOK
  <1>3. g \in Groups \cup {None} /\ (group[m.to] \in Groups => g \in Groups)
    BY <1>1, <1>2, TakeResponseType, NoneType
  <1>4. group' = [group EXCEPT ![m.to] = g]
    BY DEF processRespMsg
  <1> HIDE DEF g
  <1>5. TypeOK'
    <2>1. group' \in [Nodes -> Groups \cup {None}]
      BY <1>1, <1>3, <1>4 DEF TypeOK
    <2>2. net' \subseteq Requests \cup Answers \cup Signatures
      BY DEF processRespMsg, TypeOK
    <2>3. UNCHANGED <<callVars, gen, generated, party, waitVars, sigChan, faults>>
      BY DEF processRespMsg
    <2> QED BY <2>1, <2>2, <2>3 DEF TypeOK, callVars, waitVars
  <1>6. JoinHasGroup'
    BY <1>1, <1>3, <1>4 DEF processRespMsg, TypeOK, JoinHasGroup
  <1> QED BY <1>5, <1>6

\* The ends of a join.
LEMMA JoinEnds ==
  ASSUME TypeInv, NEW n \in Nodes, NEW S \in SUBSET Nodes,
         NEW r \in {"failed", "notActive", "received"},
         Joined(n, S) \/ JoinReturns(n, r)
  PROVE  /\ gen' \in [Nodes -> {"off", "joining", "answering", "signing", "done"}]
         /\ generated' \in [Nodes -> {"none", "signed", "failed", "notActive", "received"}]
         /\ party' \in [Nodes -> SUBSET Nodes]
         /\ group' \in [Nodes -> Groups \cup {None}]
         /\ JoinHasGroup'
  <1>1. CASE Joined(n, S)
    <2>1. /\ gen' \in [Nodes -> {"off", "joining", "answering", "signing", "done"}]
          /\ generated' \in [Nodes -> {"none", "signed", "failed", "notActive", "received"}]
      BY <1>1 DEF TypeInv, TypeOK, Joined
    <2>2. /\ party' \in [Nodes -> SUBSET Nodes]
          /\ group' \in [Nodes -> Groups \cup {None}]
      BY <1>1 DEF TypeInv, TypeOK, Joined
    <2>3. JoinHasGroup'
      BY <1>1 DEF TypeInv, TypeOK, JoinHasGroup, Joined
    <2> QED BY <2>1, <2>2, <2>3
  <1>2. CASE JoinReturns(n, r)
    <2>1. /\ gen' \in [Nodes -> {"off", "joining", "answering", "signing", "done"}]
          /\ generated' \in [Nodes -> {"none", "signed", "failed", "notActive", "received"}]
      BY <1>2 DEF TypeInv, TypeOK, JoinReturns
    <2>2. /\ party' \in [Nodes -> SUBSET Nodes]
          /\ group' \in [Nodes -> Groups \cup {None}]
      BY <1>2 DEF TypeInv, TypeOK, JoinReturns
    <2>3. JoinHasGroup'
      BY <1>2 DEF TypeInv, TypeOK, JoinHasGroup, JoinReturns
    <2> QED BY <2>1, <2>2, <2>3
  <1> QED BY <1>1, <1>2

LEMMA JoinLeaderTypes ==
  ASSUME TypeInv, NEW n \in Nodes, joinPartyLeader(n)
  PROVE  TypeInv'
  <1> USE DEF TypeInv
  <1> DEFINE answer == LeaderResponse(group[n], n)
  <1>1. answer \in Responses
    BY LeaderResponseType DEF joinPartyLeader, JoinHasGroup
  <1>2. \A p \in Nodes :
          [type |-> "answer", from |-> n, to |-> p, body |-> answer] \in Answers
    BY <1>1 DEF Answers
  <1>3. answer.peers \in SUBSET Nodes
    BY <1>1 DEF Responses
  <1>4. faults' \in 0 .. MaxFaults
    <2>1. CASE UNCHANGED faults
      BY <2>1 DEF TypeOK
    <2>2. CASE Timeout(RequestMayCome(n))
      BY <2>2, TimeoutType
    <2> QED BY <2>1, <2>2 DEF joinPartyLeader
  <1>5. net' \subseteq Requests \cup Answers \cup Signatures
    <2>1. net' = net \cup {[type |-> "answer", from |-> n, to |-> p, body |-> answer] : p \in Others(n)}
      BY DEF joinPartyLeader
    <2>2. {[type |-> "answer", from |-> n, to |-> p, body |-> answer] : p \in Others(n)}
            \subseteq Answers
      BY <1>2, Zenon DEF Others
    <2> QED BY <2>1, <2>2 DEF TypeOK
  <1>6. party' = [party EXCEPT ![n] = IF answer.ok THEN answer.peers ELSE {}]
    BY DEF joinPartyLeader
  <1> HIDE DEF answer
  <1>7. party' \in [Nodes -> SUBSET Nodes]
    BY <1>3, <1>6 DEF TypeOK
  <1>8. /\ gen' = [gen EXCEPT ![n] = "answering"] /\ gen[n] = "joining"
        /\ UNCHANGED <<callVars, generated, group, waitVars, sigChan>>
    BY DEF joinPartyLeader
  <1>9. TypeOK'
    BY <1>4, <1>5, <1>7, <1>8 DEF TypeOK, callVars, waitVars
  <1>10. JoinHasGroup'
    BY <1>8 DEF TypeOK, JoinHasGroup
  <1> QED BY <1>9, <1>10

LEMMA RespondTypes ==
  ASSUME TypeInv, NEW n \in Nodes, sendResponseToAll(n)
  PROVE  TypeInv'
  <1>1. party[n] \in SUBSET Nodes
    BY DEF TypeInv, TypeOK
  <1>2. faults' \in 0 .. MaxFaults
    BY TimeoutType DEF sendResponseToAll, TypeInv
  <1>3. Joined(n, party[n]) \/ JoinReturns(n, "failed")
    BY DEF sendResponseToAll
  <1>4. UNCHANGED <<callVars, waitVars, sigChan, net>>
    BY DEF sendResponseToAll
  <1> QED
    BY <1>1, <1>2, <1>3, <1>4, JoinEnds DEF TypeInv, TypeOK, callVars, waitVars

LEMMA JoinMemberTypes ==
  ASSUME TypeInv, NEW n \in Nodes, joinPartyMember(n)
  PROVE  TypeInv'
  <1>1. group[n] \in Groups
    BY DEF TypeInv, JoinHasGroup, joinPartyMember
  <1>2. faults' \in 0 .. MaxFaults
    <2>1. CASE UNCHANGED faults
      BY <2>1 DEF TypeInv, TypeOK
    <2>2. CASE Timeout(AnswerMayCome(n))
      BY <2>2, TimeoutType DEF TypeInv
    <2> QED BY <2>1, <2>2 DEF joinPartyMember
  <1>3. UNCHANGED <<callVars, waitVars, sigChan, net>>
    BY DEF joinPartyMember
  <1>4. \/ JoinReturns(n, "failed") \/ JoinReturns(n, "notActive")
        \/ MemberJoins(group[n]) /\ Joined(n, group[n].leaderResponse.peers)
    BY DEF joinPartyMember
  <1>5. CASE MemberJoins(group[n]) /\ Joined(n, group[n].leaderResponse.peers)
    <2>1. group[n].leaderResponse \in Responses
      BY <1>1, <1>5 DEF Groups, MemberJoins
    <2>2. group[n].leaderResponse.peers \in SUBSET Nodes
      BY <2>1 DEF Responses
    <2> QED
      BY <1>2, <1>3, <1>5, <2>2, JoinEnds DEF TypeInv, TypeOK, callVars, waitVars
  <1>6. CASE JoinReturns(n, "failed") \/ JoinReturns(n, "notActive")
    BY <1>2, <1>3, <1>6, JoinEnds DEF TypeInv, TypeOK, callVars, waitVars
  <1> QED BY <1>4, <1>5, <1>6

LEMMA SignReceivedTypes ==
  ASSUME TypeInv, NEW n \in Nodes, joinSignReceived(n)
  PROVE  TypeInv'
  <1>1. JoinReturns(n, "received") /\ UNCHANGED <<callVars, waitVars, net, faults>>
    BY DEF joinSignReceived
  <1>2. sigChan' \in [Nodes -> Seq({"signature received", "signature generated"})]
    <2>1. sigChan[n] \in Seq({"signature received", "signature generated"}) /\ sigChan[n] # <<>>
      BY DEF TypeInv, TypeOK, joinSignReceived
    <2>2. Tail(sigChan[n]) \in Seq({"signature received", "signature generated"})
      BY <2>1, HeadTailProperties
    <2> QED BY <2>2 DEF TypeInv, TypeOK, joinSignReceived
  <1> QED
    BY <1>1, <1>2, JoinEnds DEF TypeInv, TypeOK, callVars, waitVars

LEMMA SignMessageTypes ==
  ASSUME TypeInv, NEW n \in Nodes, SignMessage(n)
  PROVE  TypeInv'
  <1>1. net' \subseteq Requests \cup Answers \cup Signatures
    <2>1. \A p \in Nodes : [type |-> "signature", to |-> p] \in Signatures
      BY DEF Signatures
    <2>2. {[type |-> "signature", to |-> p] : p \in Others(n)} \subseteq Signatures
      BY <2>1, Zenon DEF Others
    <2> QED BY <2>2 DEF SignMessage, TypeInv, TypeOK
  <1>2. UNCHANGED <<callVars, party, group, waitVars, sigChan, faults>>
        /\ gen' = [gen EXCEPT ![n] = "done"]
        /\ generated' = [generated EXCEPT ![n] = "signed"]
    BY DEF SignMessage
  <1> QED
    BY <1>1, <1>2 DEF TypeInv, TypeOK, JoinHasGroup, callVars, waitVars

LEMMA SignFailsTypes ==
  ASSUME TypeInv, NEW n \in Nodes, SignMessageFails(n)
  PROVE  TypeInv'
  <1>1. faults' \in 0 .. MaxFaults
    BY TimeoutType DEF SignMessageFails, TypeInv
  <1>2. sigChan' \in [Nodes -> Seq({"signature received", "signature generated"})]
    <2>1. Append(sigChan[n], "signature generated") \in Seq({"signature received", "signature generated"})
      BY AppendProperties DEF TypeInv, TypeOK
    <2> QED BY <2>1 DEF TypeInv, TypeOK, SignMessageFails
  <1> QED
    BY <1>1, <1>2 DEF SignMessageFails, TypeInv, TypeOK, JoinHasGroup, callVars, waitVars

LEMMA HandleStreamTypes ==
  ASSUME TypeInv, NEW m \in net, handleStream(m)
  PROVE  TypeInv'
  <1>1. m.to \in Nodes
    BY MessageTypes DEF handleStream, TypeInv
  <1>2. getNotifier(m.to) \in Notifiers
    BY <1>1, NotifierType DEF TypeInv
  <1> QED
    BY <1>1, <1>2
       DEF handleStream, TypeInv, TypeOK, JoinHasGroup, callVars, genVars

LEMMA NotifierTypes ==
  ASSUME TypeInv, NotifierReady, NEW n \in Nodes, createOrUpdateNotifier(n)
  PROVE  TypeInv'
  <1>1. Update(notifier[n], "signature") \in Notifiers
    BY UpdateType DEF createOrUpdateNotifier, NotifierReady
  <1> QED
    BY <1>1
       DEF createOrUpdateNotifier, TypeInv, TypeOK, JoinHasGroup, callVars, genVars

LEMMA CleanupTypes ==
  ASSUME TypeInv, NEW n \in Nodes, cleanupStaleNotifiers(n)
  PROVE  TypeInv'
  <1>1. faults' \in 0 .. MaxFaults
    <2>1. faults \in 0 .. MaxFaults
      BY DEF TypeInv, TypeOK
    <2> QED BY <2>1, KeysignAssumption DEF cleanupStaleNotifiers
  <1> QED
    BY <1>1 DEF cleanupStaleNotifiers, removeNotifier, TypeInv, TypeOK,
                JoinHasGroup, callVars, genVars

\* A waiter that returns.
LEMMA WaitsTypes ==
  ASSUME TypeInv, NEW n \in Nodes, Waits(n)
  PROVE  TypeInv'
  <1> DEFINE Tokens == {"signature received", "signature generated"}
  <1>1. faults' \in 0 .. MaxFaults
    <2>1. faults \in 0 .. MaxFaults
      BY DEF TypeInv, TypeOK
    <2>2. CASE WaitTimesOut(n)
      BY <2>2, TimeoutType DEF WaitTimesOut, TypeInv
    <2> QED BY <2>1, <2>2 DEF Waits, WaitGetsSignature, WaitIsTold
  <1>2. sigChan' \in [Nodes -> Seq(Tokens)]
    <2>1. sigChan \in [Nodes -> Seq(Tokens)]
      BY DEF TypeInv, TypeOK
    <2>2. Append(sigChan[n], "signature received") \in Seq(Tokens)
      BY <2>1, AppendProperties
    <2>3. sigChan[n] # <<>> => Tail(sigChan[n]) \in Seq(Tokens)
      BY <2>1, HeadTailProperties
    <2>4. CASE WaitGetsSignature(n)
      BY <2>1, <2>2, <2>4 DEF WaitGetsSignature
    <2>5. CASE WaitTimesOut(n)
      BY <2>1, <2>5 DEF WaitTimesOut
    <2>6. CASE WaitIsTold(n)
      BY <2>1, <2>3, <2>6 DEF WaitIsTold
    <2> QED BY <2>4, <2>5, <2>6 DEF Waits
  <1>3. PICK got \in BOOLEAN : WaitReturns(n, got)
    BY DEF Waits, WaitGetsSignature, WaitTimesOut, WaitIsTold
  <1>4. UNCHANGED <<callVars, genVars, net>>
    BY DEF Waits, WaitGetsSignature, WaitTimesOut, WaitIsTold
  <1> QED
    BY <1>1, <1>2, <1>3, <1>4 DEF WaitReturns, removeNotifier, TypeInv, TypeOK,
       JoinHasGroup, callVars, genVars

LEMMA WindowTypes ==
  ASSUME TypeInv, NextWindow
  PROVE  TypeInv'
  <1>1. height \in Windows
    BY DEF TypeInv, TypeOK
  <1>2. height' \in Windows
    BY <1>1, LeaderAssumption DEF NextWindow, Windows, FirstWindow
  <1> QED
    BY <1>2 DEF NextWindow, TypeInv, TypeOK, JoinHasGroup, genVars, waitVars

LEMMA LoseTypes ==
  ASSUME TypeInv, NEW m \in net, Lose(m)
  PROVE  TypeInv'
  <1>1. faults' \in 0 .. MaxFaults
    <2>1. faults \in 0 .. MaxFaults
      BY DEF TypeInv, TypeOK
    <2> QED BY <2>1, KeysignAssumption DEF Lose
  <1> QED
    BY <1>1 DEF Lose, TypeInv, TypeOK, JoinHasGroup, callVars, genVars, waitVars

-----------------------------------------------------------------------------
(* sigChan                                                                 *)

LEMMA LeftProperties ==
  /\ \A x : Left(x) \in 0 .. 1
  /\ \A x : x # "done" => Left(x) = 0
  /\ Left("done") = 1
  BY DEF Left

LEMMA ChannelLength ==
  ASSUME TypeOK, NEW n \in Nodes
  PROVE  /\ Len(sigChan[n]) \in Nat
         /\ Len(Append(sigChan[n], "signature generated")) = Len(sigChan[n]) + 1
         /\ Len(Append(sigChan[n], "signature received")) = Len(sigChan[n]) + 1
         /\ sigChan[n] # <<>> => Len(Tail(sigChan[n])) = Len(sigChan[n]) - 1
  <1> DEFINE Tokens == {"signature received", "signature generated"}
             s == sigChan[n]
  <1>1. s \in Seq(Tokens)
    BY DEF TypeOK
  <1> HIDE DEF s, Tokens
  <1>2. Len(s) \in Nat
    BY <1>1, LenProperties
  <1>3. \A x \in Tokens : Len(Append(s, x)) = Len(s) + 1
    BY <1>1, AppendProperties
  <1>4. s # <<>> => Len(Tail(s)) = Len(s) - 1
    BY <1>1, HeadTailProperties
  <1> QED BY <1>2, <1>3, <1>4 DEF s, Tokens

LEMMA InitTokens ==
  ASSUME Init
  PROVE  TokensFit
  <1>1. \A n \in Nodes : Len(sigChan[n]) = 0
    BY DEF Init
  <1>2. \A n \in Nodes : gen[n] = "off" /\ wait[n] = "off"
    BY DEF Init
  <1> QED BY <1>1, <1>2, LeftProperties DEF TokensFit

\* A step of one node that changes at most its own goroutines and channel.
LEMMA TokensOfOne ==
  ASSUME TypeOK, TokensFit, NEW n \in Nodes, NEW g, NEW w, NEW c,
         gen' = [gen EXCEPT ![n] = g],
         wait' = [wait EXCEPT ![n] = w],
         sigChan' = [sigChan EXCEPT ![n] = c],
         g = "off" <=> w = "off",
         Len(c) <= Left(w) + Left(g)
  PROVE  TokensFit'
  <1> SUFFICES ASSUME NEW m \in Nodes
               PROVE  /\ gen'[m] = "off" <=> wait'[m] = "off"
                      /\ Len(sigChan'[m]) <= Left(wait'[m]) + Left(gen'[m])
    BY DEF TokensFit
  <1>1. CASE m = n
    <2>1. gen'[m] = g /\ wait'[m] = w /\ sigChan'[m] = c
      BY <1>1 DEF TypeOK
    <2> QED BY <2>1
  <1>2. CASE m # n
    <2>1. gen'[m] = gen[m] /\ wait'[m] = wait[m] /\ sigChan'[m] = sigChan[m]
      BY <1>2 DEF TypeOK
    <2> QED BY <2>1 DEF TokensFit
  <1> QED BY <1>1, <1>2

LEMMA KeySignTokens ==
  ASSUME TypeOK, TokensFit, NEW n \in Nodes, KeySign(n) \/ Return(n)
  PROVE  TokensFit'
  <1>1. CASE KeySign(n)
    <2>1. gen[n] = "off"
      BY <1>1 DEF KeySign, Busy
    <2>2. Len(sigChan[n]) <= Left(wait[n]) + Left(gen[n]) /\ wait[n] = "off"
      BY <2>1 DEF TokensFit
    <2>3. Len(sigChan[n]) <= Left("waiting") + Left("joining")
      BY <2>1, <2>2, LeftProperties
    <2>4. /\ gen' = [gen EXCEPT ![n] = "joining"]
          /\ wait' = [wait EXCEPT ![n] = "waiting"]
          /\ sigChan' = [sigChan EXCEPT ![n] = sigChan[n]]
      BY <1>1 DEF KeySign, TypeOK
    <2> QED BY <2>3, <2>4, TokensOfOne
  <1>2. CASE Return(n)
    <2>1. /\ gen' = [gen EXCEPT ![n] = "off"]
          /\ wait' = [wait EXCEPT ![n] = "off"]
          /\ sigChan' = [sigChan EXCEPT ![n] = <<>>]
      BY <1>2 DEF Return
    <2>2. Len(<<>>) <= Left("off") + Left("off")
      BY LeftProperties
    <2> QED BY <2>1, <2>2, TokensOfOne
  <1> QED BY <1>1, <1>2

\* What a step of the generating goroutine does to it and to the channel.
LEMMA GeneratesMoves ==
  ASSUME TypeOK, NEW n \in Nodes, Generates(n)
  PROVE  /\ gen[n] \notin {"off", "done"}
         /\ wait' = [wait EXCEPT ![n] = wait[n]]
         /\ \E g \in {"answering", "signing", "done"} : \E c :
              /\ gen' = [gen EXCEPT ![n] = g]
              /\ sigChan' = [sigChan EXCEPT ![n] = c]
              /\ \/ c = sigChan[n]
                 \/ c = Tail(sigChan[n]) /\ sigChan[n] # <<>>
                 \/ c = Append(sigChan[n], "signature generated") /\ g = "done"
  <1>0. sigChan = [sigChan EXCEPT ![n] = sigChan[n]] /\ wait = [wait EXCEPT ![n] = wait[n]]
    BY DEF TypeOK
  <1>1. CASE joinPartyLeader(n)
    BY <1>0, <1>1 DEF joinPartyLeader, waitVars
  <1>2. CASE sendResponseToAll(n)
    BY <1>0, <1>2 DEF sendResponseToAll, Joined, JoinReturns, waitVars
  <1>3. CASE joinPartyMember(n)
    <2>1. gen' = [gen EXCEPT ![n] = "signing"] \/ gen' = [gen EXCEPT ![n] = "done"]
      BY <1>3 DEF joinPartyMember, Joined, JoinReturns
    <2> QED BY <1>0, <1>3, <2>1 DEF joinPartyMember, waitVars
  <1>4. CASE joinSignReceived(n)
    BY <1>0, <1>4 DEF joinSignReceived, JoinReturns, waitVars
  <1>5. CASE SignMessage(n)
    BY <1>0, <1>5 DEF SignMessage, waitVars
  <1>6. CASE SignMessageFails(n)
    BY <1>0, <1>6 DEF SignMessageFails, waitVars
  <1> QED BY <1>1, <1>2, <1>3, <1>4, <1>5, <1>6 DEF Generates

LEMMA GeneratesTokens ==
  ASSUME TypeOK, TokensFit, NEW n \in Nodes, Generates(n)
  PROVE  TokensFit'
  <1>0. PICK g \in {"answering", "signing", "done"} : \E c :
          /\ gen' = [gen EXCEPT ![n] = g]
          /\ sigChan' = [sigChan EXCEPT ![n] = c]
          /\ \/ c = sigChan[n]
             \/ c = Tail(sigChan[n]) /\ sigChan[n] # <<>>
             \/ c = Append(sigChan[n], "signature generated") /\ g = "done"
    BY GeneratesMoves
  <1>1. PICK c :
          /\ gen' = [gen EXCEPT ![n] = g]
          /\ sigChan' = [sigChan EXCEPT ![n] = c]
          /\ \/ c = sigChan[n]
             \/ c = Tail(sigChan[n]) /\ sigChan[n] # <<>>
             \/ c = Append(sigChan[n], "signature generated") /\ g = "done"
    BY <1>0
  <1>2. gen[n] \notin {"off", "done"} /\ wait' = [wait EXCEPT ![n] = wait[n]]
    BY GeneratesMoves
  <1>3. wait[n] # "off" /\ Len(sigChan[n]) <= Left(wait[n]) + Left(gen[n])
    BY <1>2 DEF TokensFit
  <1>4. Len(c) <= Left(wait[n]) + Left(g)
    <2>1. \/ Len(c) = Len(sigChan[n])
          \/ Len(c) = Len(sigChan[n]) - 1
          \/ Len(c) = Len(sigChan[n]) + 1 /\ g = "done"
      BY <1>1, ChannelLength, Zenon
    <2>2. Len(sigChan[n]) \in Nat
      BY ChannelLength
    <2>3. Left(gen[n]) = 0
      BY <1>2, LeftProperties
    <2> QED BY <1>3, <2>1, <2>2, <2>3, LeftProperties
  <1>5. g = "off" <=> wait[n] = "off"
    BY <1>3
  <1> QED BY <1>1, <1>2, <1>4, <1>5, TokensOfOne

\* The steps of the waiting goroutine; it sends in WaitGetsSignature.
LEMMA WaitsTokens ==
  ASSUME TypeOK, TokensFit, NEW n \in Nodes, Waits(n)
  PROVE  TokensFit'
  <1>0. sigChan = [sigChan EXCEPT ![n] = sigChan[n]] /\ gen = [gen EXCEPT ![n] = gen[n]]
    BY DEF TypeOK
  <1>1. /\ wait[n] = "waiting"
        /\ wait' = [wait EXCEPT ![n] = "done"]
        /\ gen' = [gen EXCEPT ![n] = gen[n]]
    BY <1>0 DEF Waits, WaitGetsSignature, WaitTimesOut, WaitIsTold, WaitReturns, genVars
  <1>2. PICK c : /\ sigChan' = [sigChan EXCEPT ![n] = c]
                 /\ \/ c = sigChan[n]
                    \/ c = Tail(sigChan[n]) /\ sigChan[n] # <<>>
                    \/ c = Append(sigChan[n], "signature received")
    BY <1>0 DEF Waits, WaitGetsSignature, WaitTimesOut, WaitIsTold
  <1>3. gen[n] # "off" /\ Len(sigChan[n]) <= Left(wait[n]) + Left(gen[n])
    BY <1>1 DEF TokensFit
  <1>4. Len(c) <= Left("done") + Left(gen[n])
    <2>0. Len(sigChan[n]) \in Nat
      BY ChannelLength
    <2>1. \/ Len(c) = Len(sigChan[n])
          \/ Len(c) = Len(sigChan[n]) - 1
          \/ Len(c) = Len(sigChan[n]) + 1
      BY <1>2, ChannelLength, Zenon
    <2>2. Left(wait[n]) = 0
      BY <1>1, LeftProperties
    <2> QED BY <1>3, <2>0, <2>1, <2>2, LeftProperties
  <1>5. gen[n] = "off" <=> "done" = "off"
    BY <1>3
  <1> QED BY <1>1, <1>2, <1>4, <1>5, TokensOfOne

-----------------------------------------------------------------------------
(* Notifiers                                                               *)

LEMMA UpdateReady ==
  ASSUME NEW k \in Notifiers
  PROVE  /\ Update(k, "awaited").awaited
         /\ k.awaited => Update(k, "signature").awaited
         /\ \A part \in {"awaited", "signature"} :
              Update(k, part).awaited /\ Update(k, part).signature => Update(k, part).resp
  BY DEF Notifiers, Update

LEMMA NewNotifierReady == ~ newNotifier.awaited
  BY DEF newNotifier

LEMMA InitNotifiers ==
  ASSUME Init
  PROVE  NotifierReady
  BY NoneType DEF Init, NotifierReady

\* A step that changes the notifier of one node.
LEMMA NotifierOfOne ==
  ASSUME TypeOK, NotifierReady, NEW n \in Nodes, NEW k \in Notifiers \cup {None},
         NEW w, NEW h \in BOOLEAN,
         notifier' = [notifier EXCEPT ![n] = k],
         wait' = [wait EXCEPT ![n] = w],
         handling' = [handling EXCEPT ![n] = h],
         h => k \in Notifiers,
         w = "waiting" => k \in Notifiers /\ k.awaited,
         k \in Notifiers /\ k.awaited /\ k.signature => k.resp
  PROVE  NotifierReady'
  <1> SUFFICES ASSUME NEW m \in Nodes
               PROVE  /\ handling'[m] => notifier'[m] \in Notifiers
                      /\ wait'[m] = "waiting" => notifier'[m] \in Notifiers /\ notifier'[m].awaited
                      /\ notifier'[m] \in Notifiers /\ notifier'[m].awaited /\ notifier'[m].signature
                           => notifier'[m].resp
    BY DEF NotifierReady
  <1>1. CASE m = n
    <2>1. notifier'[m] = k /\ wait'[m] = w /\ handling'[m] = h
      BY <1>1 DEF TypeOK
    <2> QED BY <2>1
  <1>2. CASE m # n
    <2>1. notifier'[m] = notifier[m] /\ wait'[m] = wait[m] /\ handling'[m] = handling[m]
      BY <1>2 DEF TypeOK
    <2> QED BY <2>1 DEF NotifierReady
  <1> QED BY <1>1, <1>2

LEMMA KeySignNotifier ==
  ASSUME TypeOK, NotifierReady, NEW n \in Nodes, KeySign(n)
  PROVE  NotifierReady'
  <1> DEFINE k == Update(getNotifier(n), "awaited")
  <1>1. getNotifier(n) \in Notifiers
    BY NotifierType
  <1>2. k \in Notifiers /\ k.awaited /\ (k.awaited /\ k.signature => k.resp)
    BY <1>1, UpdateType, UpdateReady
  <1>3. notifier' = [notifier EXCEPT ![n] = k] /\ wait' = [wait EXCEPT ![n] = "waiting"]
    BY DEF KeySign
  <1>4. handling' = [handling EXCEPT ![n] = handling[n]] /\ handling[n] \in BOOLEAN
    BY DEF KeySign, TypeOK
  <1> HIDE DEF k
  <1> QED BY <1>2, <1>3, <1>4, NotifierOfOne

LEMMA ReturnNotifier ==
  ASSUME TypeOK, NotifierReady, NEW n \in Nodes, Return(n)
  PROVE  NotifierReady'
  BY DEF Return, TypeOK, NotifierReady

LEMMA HandleStreamNotifier ==
  ASSUME TypeOK, NotifierReady, NEW m \in net, handleStream(m)
  PROVE  NotifierReady'
  <1> DEFINE n == m.to
             k == getNotifier(n)
  <1>1. n \in Nodes
    BY MessageTypes DEF handleStream
  <1> HIDE DEF n
  <1>2. k \in Notifiers
    BY <1>1, NotifierType
  <1>3. k = newNotifier \/ k = notifier[n]
    BY DEF getNotifier
  <1>4. wait[n] = "waiting" => k = notifier[n]
    BY <1>1, NoneType DEF NotifierReady, getNotifier
  <1>5. k.awaited /\ k.signature => k.resp
    BY <1>1, <1>2, <1>3, NewNotifierReady DEF NotifierReady
  <1>6. wait[n] = "waiting" => k \in Notifiers /\ k.awaited
    BY <1>1, <1>2, <1>4 DEF NotifierReady
  <1>7. /\ notifier' = [notifier EXCEPT ![n] = k]
        /\ wait' = [wait EXCEPT ![n] = wait[n]]
        /\ handling' = [handling EXCEPT ![n] = TRUE]
    BY DEF handleStream, TypeOK, n
  <1> HIDE DEF k
  <1> QED BY <1>1, <1>2, <1>5, <1>6, <1>7, NotifierOfOne

LEMMA UpdateNotifier ==
  ASSUME TypeOK, NotifierReady, NEW n \in Nodes, createOrUpdateNotifier(n)
  PROVE  NotifierReady'
  <1> DEFINE k == Update(notifier[n], "signature")
  <1>1. notifier[n] \in Notifiers
    BY DEF createOrUpdateNotifier, NotifierReady
  <1>2. k \in Notifiers /\ (k.awaited /\ k.signature => k.resp)
        /\ (notifier[n].awaited => k.awaited)
    BY <1>1, UpdateType, UpdateReady
  <1>3. /\ notifier' = [notifier EXCEPT ![n] = k]
        /\ wait' = [wait EXCEPT ![n] = wait[n]]
        /\ handling' = [handling EXCEPT ![n] = FALSE]
    BY DEF createOrUpdateNotifier, TypeOK
  <1>4. wait[n] = "waiting" => notifier[n].awaited
    BY DEF NotifierReady
  <1> HIDE DEF k
  <1> QED BY <1>2, <1>3, <1>4, NotifierOfOne

LEMMA RemoveNotifier ==
  ASSUME TypeOK, NotifierReady, NEW n \in Nodes, Waits(n) \/ cleanupStaleNotifiers(n)
  PROVE  NotifierReady'
  <1>1. /\ notifier' = [notifier EXCEPT ![n] = None]
        /\ handling' = [handling EXCEPT ![n] = FALSE]
    BY DEF Waits, WaitGetsSignature, WaitTimesOut, WaitIsTold, WaitReturns,
           cleanupStaleNotifiers, removeNotifier
  <1>2. PICK w : wait' = [wait EXCEPT ![n] = w] /\ w # "waiting"
    <2>1. CASE Waits(n)
      BY <2>1 DEF Waits, WaitGetsSignature, WaitTimesOut, WaitIsTold, WaitReturns
    <2>2. CASE cleanupStaleNotifiers(n)
      <3>1. wait' = [wait EXCEPT ![n] = wait[n]] /\ wait[n] # "waiting"
        BY <2>2 DEF cleanupStaleNotifiers, TypeOK
      <3> QED BY <3>1
    <2> QED BY <2>1, <2>2
  <1> QED BY <1>1, <1>2, NoneType, NotifierOfOne

-----------------------------------------------------------------------------
(* Parties                                                                 *)

LEMMA ThresholdType == threshold \in Nat
  <1>1. Cardinality(Nodes) \in Nat
    BY NodesAssumption, FS_CardinalityType
  <1>2. Cardinality(Nodes) # 0
    BY NodesAssumption, FS_EmptySet
  <1> QED BY <1>1, <1>2 DEF threshold

LEMMA SubsetCardinality ==
  ASSUME NEW S \in SUBSET Nodes, NEW p \in Nodes
  PROVE  /\ IsFiniteSet(S) /\ Cardinality(S) \in Nat
         /\ Cardinality(S \cup {p}) = IF p \in S THEN Cardinality(S) ELSE Cardinality(S) + 1
  <1>1. IsFiniteSet(S)
    BY NodesAssumption, FS_Subset
  <1> QED BY <1>1, FS_CardinalityType, FS_AddElement

\* A group never counts more than threshold peers (updatePeer's early return).
LEMMA UpdatePeerFits ==
  ASSUME NEW g \in Groups, NEW p \in Nodes, GroupFits(g)
  PROVE  GroupFits(updatePeer(g, p))
  <1> DEFINE with == [g EXCEPT !.online = @ \cup {p}]
             told == [with EXCEPT !.notify = @ + 1]
  <1>1. g.online \in SUBSET Nodes
    BY DEF Groups
  <1>2. /\ with.online = g.online \cup {p} /\ with.leaderResponse = g.leaderResponse
        /\ told.online = g.online \cup {p} /\ told.leaderResponse = g.leaderResponse
    BY DEF Groups
  <1>3. ~ Enough(g) => Cardinality(g.online \cup {p}) <= threshold
    BY <1>1, ThresholdType, SubsetCardinality DEF Enough
  <1>4. ~ Enough(g) => GroupFits(with) /\ GroupFits(told)
    BY <1>2, <1>3 DEF GroupFits
  <1>5. updatePeer(g, p) = g \/ (~ Enough(g) /\ updatePeer(g, p) \in {with, told})
    BY DEF updatePeer
  <1> HIDE DEF with, told
  <1> QED BY <1>4, <1>5

LEMMA TakeResponseFits ==
  ASSUME NEW g \in Groups, NEW p \in Nodes, NEW r \in Responses, GroupFits(g), AnswerFits(r)
  PROVE  GroupFits(TakeResponse(g, p, r))
  <1> DEFINE t == TakeResponse(g, p, r)
  <1>1. t.online = g.online /\ t.leaderResponse \in {g.leaderResponse, r}
    BY DEF Groups, TakeResponse
  <1> HIDE DEF t
  <1>2. GroupFits(t)
    BY <1>1 DEF GroupFits
  <1> QED BY <1>2 DEF t

\* The leader's list: itself and at most threshold others.
LEMMA LeaderResponseFits ==
  ASSUME NEW g \in Groups, NEW n \in Nodes, GroupFits(g), LeaderResponse(g, n).ok
  PROVE  FullParty(n, LeaderResponse(g, n).peers)
  <1>1. g.online \in SUBSET Nodes
    BY DEF Groups
  <1>2. LeaderResponse(g, n).peers = g.online \cup {n}
        /\ Cardinality(g.online \cup {n}) >= threshold + 1
    BY DEF LeaderResponse
  <1>3. Cardinality(g.online) <= threshold
    BY DEF GroupFits
  <1>4. Cardinality(g.online \cup {n}) = threshold + 1
    BY <1>1, <1>2, <1>3, SubsetCardinality, ThresholdType
  <1> QED BY <1>2, <1>4 DEF FullParty

LEMMA InitParties ==
  ASSUME Init
  PROVE  PartiesFit
  BY NoneType DEF Init, PartiesFit

LEMMA NewGroupFits ==
  ASSUME NEW leader
  PROVE  GroupFits(newPeerStatus(leader))
  BY FS_EmptySet, ThresholdType DEF GroupFits, newPeerStatus

\* A step that changes at most the group and the list of one node, and sends
\* no answer.
LEMMA PartiesOfOne ==
  ASSUME TypeOK, PartiesFit, NEW n \in Nodes, NEW g, NEW gr, NEW S,
         gen' = [gen EXCEPT ![n] = g],
         group' = [group EXCEPT ![n] = gr],
         party' = [party EXCEPT ![n] = S],
         gr \in Groups => GroupFits(gr),
         g = "answering" => S = {} \/ FullParty(n, S),
         g = "signing" => FullParty(n, S),
         \A m \in net' : m.type = "answer" => AnswerFits(m.body)
  PROVE  PartiesFit'
  <1>1. \A m \in Nodes \ {n} : gen'[m] = gen[m] /\ group'[m] = group[m] /\ party'[m] = party[m]
    BY DEF TypeOK
  <1>2. gen'[n] = g /\ group'[n] = gr /\ party'[n] = S
    BY DEF TypeOK
  <1>3. (\A m \in Nodes : group[m] \in Groups => GroupFits(group[m]))'
    BY <1>1, <1>2 DEF PartiesFit
  <1>4. (\A m \in Nodes : gen[m] = "answering" => party[m] = {} \/ FullParty(m, party[m]))'
    BY <1>1, <1>2 DEF PartiesFit
  <1>5. (\A m \in Nodes : gen[m] = "signing" => FullParty(m, party[m]))'
    BY <1>1, <1>2 DEF PartiesFit
  <1> QED BY <1>3, <1>4, <1>5 DEF PartiesFit

LEMMA KeySignParties ==
  ASSUME TypeOK, PartiesFit, NEW n \in Nodes, KeySign(n) \/ Return(n)
  PROVE  PartiesFit'
  <1>1. \A m \in net' : m.type = "answer" => AnswerFits(m.body)
    BY DEF KeySign, Return, PartiesFit
  <1>2. CASE KeySign(n)
    BY <1>1, <1>2, NewGroupFits, PartiesOfOne DEF KeySign
  <1>3. CASE Return(n)
    <2>1. group' = [group EXCEPT ![n] = group[n]] /\ party' = [party EXCEPT ![n] = party[n]]
      BY <1>3 DEF Return, TypeOK
    <2>2. gen' = [gen EXCEPT ![n] = "off"] /\ (group[n] \in Groups => GroupFits(group[n]))
      BY <1>3 DEF Return, PartiesFit
    <2> QED BY <1>1, <2>1, <2>2, PartiesOfOne
  <1> QED BY <1>2, <1>3

LEMMA MessageParties ==
  ASSUME TypeOK, PartiesFit, NEW m \in net, processReqMsg(m) \/ processRespMsg(m)
  PROVE  PartiesFit'
  <1> DEFINE n == m.to
             gr == IF group[n] = None THEN None
                   ELSE IF m.type = "request" THEN updatePeer(group[n], m.from)
                   ELSE TakeResponse(group[n], m.from, m.body)
  <1>1. /\ n \in Nodes /\ m.from \in Nodes
        /\ m.type # "request" => m.body \in Responses /\ AnswerFits(m.body)
    BY MessageTypes DEF processReqMsg, processRespMsg, PartiesFit
  <1>2. gr \in Groups => GroupFits(gr)
    <2>1. CASE group[n] = None
      BY <2>1, NoneType
    <2>2. CASE group[n] \in Groups
      <3>1. GroupFits(group[n])
        BY <1>1, <2>2 DEF PartiesFit
      <3> QED BY <1>1, <2>2, <3>1, NoneType, UpdatePeerFits, TakeResponseFits
    <2> QED BY <1>1, <2>1, <2>2 DEF TypeOK
  <1>3. group' = [group EXCEPT ![n] = gr]
    BY DEF processReqMsg, processRespMsg
  <1>4. gen' = [gen EXCEPT ![n] = gen[n]] /\ party' = [party EXCEPT ![n] = party[n]]
    BY DEF processReqMsg, processRespMsg, TypeOK
  <1>5. \A k \in net' : k.type = "answer" => AnswerFits(k.body)
    BY DEF processReqMsg, processRespMsg, PartiesFit
  <1>6. /\ gen[n] = "answering" => party[n] = {} \/ FullParty(n, party[n])
        /\ gen[n] = "signing" => FullParty(n, party[n])
    BY <1>1 DEF PartiesFit
  <1> HIDE DEF n, gr
  <1> QED BY <1>1, <1>2, <1>3, <1>4, <1>5, <1>6, PartiesOfOne

LEMMA JoinLeaderParties ==
  ASSUME TypeInv, PartiesFit, NEW n \in Nodes, joinPartyLeader(n)
  PROVE  PartiesFit'
  <1> DEFINE answer == LeaderResponse(group[n], n)
             S == IF answer.ok THEN answer.peers ELSE {}
  <1>1. group[n] \in Groups
    BY DEF TypeInv, JoinHasGroup, joinPartyLeader
  <1>2. GroupFits(group[n])
    BY <1>1 DEF PartiesFit
  <1>3. answer.ok => FullParty(n, answer.peers)
    BY <1>1, <1>2, LeaderResponseFits
  <1>4. AnswerFits(answer)
    BY <1>3 DEF AnswerFits, FullParty
  <1>5. net' = net \cup {[type |-> "answer", from |-> n, to |-> p, body |-> answer] : p \in Others(n)}
    BY DEF joinPartyLeader
  <1>6. gen' = [gen EXCEPT ![n] = "answering"] /\ party' = [party EXCEPT ![n] = S]
    BY DEF joinPartyLeader
  <1> HIDE DEF answer
  <1>7. \A m \in net' : m.type = "answer" => AnswerFits(m.body)
    BY <1>4, <1>5 DEF PartiesFit
  <1>8. S = {} \/ FullParty(n, S)
    BY <1>3
  <1>9. group' = [group EXCEPT ![n] = group[n]]
    BY DEF joinPartyLeader, TypeInv, TypeOK
  <1> HIDE DEF S
  <1> QED BY <1>2, <1>6, <1>7, <1>8, <1>9, PartiesOfOne DEF TypeInv

\* The end of a join with a list that has the right size, or without one.
LEMMA JoinEndsParties ==
  ASSUME TypeInv, PartiesFit, NEW n \in Nodes, NEW S, NEW r,
         \/ Joined(n, S) /\ FullParty(n, S)
         \/ JoinReturns(n, r),
         UNCHANGED net
  PROVE  PartiesFit'
  <1>1. \A m \in net' : m.type = "answer" => AnswerFits(m.body)
    BY DEF PartiesFit
  <1>2. group' = [group EXCEPT ![n] = None]
    BY DEF Joined, JoinReturns
  <1>3. CASE Joined(n, S) /\ FullParty(n, S)
    BY <1>1, <1>2, <1>3, NoneType, PartiesOfOne DEF Joined, TypeInv
  <1>4. CASE JoinReturns(n, r)
    <2>1. party' = [party EXCEPT ![n] = party[n]] /\ gen' = [gen EXCEPT ![n] = "done"]
      BY <1>4 DEF JoinReturns, TypeInv, TypeOK
    <2> QED BY <1>1, <1>2, <2>1, NoneType, PartiesOfOne DEF TypeInv
  <1> QED BY <1>3, <1>4

LEMMA JoinMemberParties ==
  ASSUME TypeInv, PartiesFit, NEW n \in Nodes, joinPartyMember(n)
  PROVE  PartiesFit'
  <1> DEFINE r == group[n].leaderResponse
  <1>1. group[n] \in Groups
    BY DEF TypeInv, JoinHasGroup, joinPartyMember
  <1>2. GroupFits(group[n])
    BY <1>1 DEF PartiesFit
  <1>3. MemberJoins(group[n]) /\ n \in r.peers => FullParty(n, r.peers)
    BY <1>2 DEF MemberJoins, GroupFits, AnswerFits, FullParty
  <1>4. \/ Joined(n, r.peers) /\ FullParty(n, r.peers)
        \/ JoinReturns(n, "failed")
        \/ JoinReturns(n, "notActive")
    BY <1>3 DEF joinPartyMember
  <1>5. UNCHANGED net
    BY DEF joinPartyMember
  <1> HIDE DEF r
  <1> QED BY <1>4, <1>5, JoinEndsParties

LEMMA GeneratesParties ==
  ASSUME TypeInv, PartiesFit, NEW n \in Nodes, Generates(n)
  PROVE  PartiesFit'
  <1>1. CASE joinPartyLeader(n)
    BY <1>1, JoinLeaderParties
  <1>2. CASE sendResponseToAll(n)
    <2>1. party[n] # {} => FullParty(n, party[n])
      BY <1>2 DEF sendResponseToAll, PartiesFit
    <2>2. \/ Joined(n, party[n]) /\ FullParty(n, party[n])
          \/ JoinReturns(n, "failed")
      BY <1>2, <2>1 DEF sendResponseToAll
    <2>3. UNCHANGED net
      BY <1>2 DEF sendResponseToAll
    <2> QED BY <2>2, <2>3, JoinEndsParties
  <1>3. CASE joinPartyMember(n)
    BY <1>3, JoinMemberParties
  <1>4. CASE joinSignReceived(n)
    BY <1>4, JoinEndsParties DEF joinSignReceived
  <1>5. CASE SignMessage(n) \/ SignMessageFails(n)
    <2>0. group \in [Nodes -> Groups \cup {None}] /\ party \in [Nodes -> SUBSET Nodes]
      BY DEF TypeInv, TypeOK
    <2>u. UNCHANGED <<group, party>>
      BY <1>5 DEF SignMessage, SignMessageFails
    <2>1. group' = [group EXCEPT ![n] = group[n]] /\ party' = [party EXCEPT ![n] = party[n]]
      BY <2>0, <2>u
    <2>2. gen' = [gen EXCEPT ![n] = "done"] /\ (group[n] \in Groups => GroupFits(group[n]))
      BY <1>5 DEF SignMessage, SignMessageFails, PartiesFit
    <2>3. \A m \in net' : m.type = "answer" => AnswerFits(m.body)
      <3>1. CASE SignMessage(n)
        <4>1. net' = net \cup {[type |-> "signature", to |-> p] : p \in Others(n)}
          BY <3>1 DEF SignMessage
        <4> QED BY <4>1 DEF PartiesFit
      <3>2. CASE SignMessageFails(n)
        BY <3>2 DEF SignMessageFails, PartiesFit
      <3> QED BY <1>5, <3>1, <3>2
    <2> QED BY <2>1, <2>2, <2>3, PartiesOfOne DEF TypeInv
  <1> QED BY <1>1, <1>2, <1>3, <1>4, <1>5 DEF Generates

LEMMA OtherParties ==
  ASSUME PartiesFit, UNCHANGED <<gen, party, group>>,
         \A m \in net' : m \in net \/ m.type # "answer"
  PROVE  PartiesFit'
  BY DEF PartiesFit

-----------------------------------------------------------------------------
(* The theorems                                                            *)

IInv == TypeInv /\ NotifierReady /\ TokensFit /\ PartiesFit

LEMMA InitInv == Init => IInv
  BY InitTypes, InitNotifiers, InitTokens, InitParties DEF IInv

\* The step of each action, in the order of Next.
LEMMA NextInv == IInv /\ [Next]_vars => IInv'
  <1> SUFFICES ASSUME IInv, [Next]_vars PROVE IInv'
    OBVIOUS
  <1> USE DEF IInv
  <1>0. TypeOK
    BY DEF TypeInv
  <1>1. CASE NextWindow
    <2>1. UNCHANGED <<genVars, waitVars, sigChan, net>>
      BY <1>1 DEF NextWindow
    <2>2. NotifierReady' /\ TokensFit'
      BY <2>1 DEF genVars, waitVars, NotifierReady, TokensFit
    <2>3. PartiesFit'
      BY <2>1, OtherParties DEF genVars
    <2> QED BY <1>1, <2>2, <2>3, WindowTypes
  <1>2. ASSUME NEW n \in Nodes, KeySign(n) PROVE IInv'
    BY <1>0, <1>2, KeySignTypes, KeySignNotifier, KeySignTokens, KeySignParties
  <1>3. ASSUME NEW n \in Nodes, Generates(n) PROVE IInv'
    <2>1. TypeInv'
      BY <1>3, JoinLeaderTypes, RespondTypes, JoinMemberTypes, SignReceivedTypes,
         SignMessageTypes, SignFailsTypes DEF Generates
    <2>2. UNCHANGED waitVars
      BY <1>3 DEF Generates, joinPartyLeader, sendResponseToAll, joinPartyMember,
                  joinSignReceived, SignMessage, SignMessageFails
    <2>3. NotifierReady'
      BY <2>2 DEF waitVars, NotifierReady
    <2> QED BY <1>0, <1>3, <2>1, <2>3, GeneratesTokens, GeneratesParties
  <1>4. ASSUME NEW n \in Nodes, Waits(n) PROVE IInv'
    <2>1. UNCHANGED <<genVars, net>>
      BY <1>4 DEF Waits, WaitGetsSignature, WaitTimesOut, WaitIsTold
    <2>2. PartiesFit'
      BY <2>1, OtherParties DEF genVars
    <2> QED BY <1>0, <1>4, <2>2, WaitsTypes, RemoveNotifier, WaitsTokens
  <1>5. ASSUME NEW n \in Nodes, Return(n) PROVE IInv'
    BY <1>0, <1>5, ReturnTypes, ReturnNotifier, KeySignTokens, KeySignParties
  <1>6. ASSUME NEW n \in Nodes, sendRequestToLeader(n) PROVE IInv'
    <2>1. UNCHANGED <<genVars, waitVars, sigChan>>
          /\ net' = net \cup {[type |-> "request", from |-> n, to |-> group[n].leader]}
      BY <1>6 DEF sendRequestToLeader
    <2>2. NotifierReady' /\ TokensFit'
      BY <2>1 DEF genVars, waitVars, NotifierReady, TokensFit
    <2>3. \A m \in net' : m \in net \/ m.type # "answer"
      BY <2>1
    <2>4. PartiesFit'
      BY <2>1, <2>3, OtherParties DEF genVars
    <2> QED BY <1>6, <2>2, <2>4, RequestTypes
  <1>7. ASSUME NEW n \in Nodes, createOrUpdateNotifier(n) \/ cleanupStaleNotifiers(n) PROVE IInv'
    <2>1. UNCHANGED <<genVars, wait, sigChan, net>>
      BY <1>7 DEF createOrUpdateNotifier, cleanupStaleNotifiers
    <2>2. TokensFit'
      BY <2>1 DEF genVars, TokensFit
    <2>3. PartiesFit'
      BY <2>1, OtherParties DEF genVars
    <2> QED BY <1>0, <1>7, <2>2, <2>3, NotifierTypes, CleanupTypes, UpdateNotifier, RemoveNotifier
  <1>8. ASSUME NEW m \in net, processReqMsg(m) \/ processRespMsg(m) PROVE IInv'
    <2>1. UNCHANGED <<gen, waitVars, sigChan>>
      BY <1>8 DEF processReqMsg, processRespMsg
    <2>2. NotifierReady' /\ TokensFit'
      BY <2>1 DEF waitVars, NotifierReady, TokensFit
    <2> QED BY <1>0, <1>8, <2>2, ReqMsgTypes, RespMsgTypes, MessageParties
  <1>9. ASSUME NEW m \in net, handleStream(m) PROVE IInv'
    <2>1. UNCHANGED <<genVars, wait, sigChan>> /\ net' \subseteq net
      BY <1>9 DEF handleStream
    <2>2. TokensFit'
      BY <2>1 DEF genVars, TokensFit
    <2>3. PartiesFit'
      BY <2>1, OtherParties DEF genVars
    <2> QED BY <1>0, <1>9, <2>2, <2>3, HandleStreamTypes, HandleStreamNotifier
  <1>10. ASSUME NEW m \in net, Lose(m) PROVE IInv'
    <2>1. UNCHANGED <<genVars, waitVars, sigChan>> /\ net' \subseteq net
      BY <1>10 DEF Lose
    <2>2. NotifierReady' /\ TokensFit'
      BY <2>1 DEF genVars, waitVars, NotifierReady, TokensFit
    <2>3. PartiesFit'
      BY <2>1, OtherParties DEF genVars
    <2> QED BY <1>10, <2>2, <2>3, LoseTypes
  <1>11. CASE UNCHANGED vars
    <2> USE <1>11 DEF vars, callVars, genVars, waitVars
    <2>1. TypeOK'
      BY <1>0 DEF TypeOK
    <2>2. JoinHasGroup' /\ NotifierReady' /\ TokensFit'
      BY DEF TypeInv, JoinHasGroup, NotifierReady, TokensFit
    <2>3. PartiesFit'
      BY OtherParties
    <2> QED BY <2>1, <2>2, <2>3 DEF TypeInv
  <1> QED
    BY <1>1, <1>2, <1>3, <1>4, <1>5, <1>6, <1>7, <1>8, <1>9, <1>10, <1>11 DEF Next

LEMMA Inductive == Spec => []IInv
  BY InitInv, NextInv, PTL DEF Spec

(* The list every signing node was given has the size the key needs, and   *)
(* the node is in it: for any number of members, windows, repeated calls,  *)
(* lost messages and early timers (updatePeer, joinPartyLeader).           *)
THEOREM PartiesHaveTheRightSize == Spec => []PartySize
  <1>1. IInv => PartySize
    BY DEF IInv, PartiesFit, PartySize, FullParty
  <1> QED BY <1>1, Inductive, PTL

(* A signature and its waiter find each other in either order              *)
(* (createOrUpdateNotifier, WaitForSignature).                             *)
THEOREM SignatureReachesItsWaiter == Spec => []SignatureIsTaken
  <1>1. IInv => SignatureIsTaken
    BY DEF IInv, NotifierReady, SignatureIsTaken
  <1> QED BY <1>1, Inductive, PTL

(* Neither goroutine of KeySign finds sigChan full, so that wg.Wait is not *)
(* held up by a token nobody reads (KeySign).                              *)
THEOREM GoroutinesNeverBlock == Spec => []SigChanRoom
  <1>1. IInv => SigChanRoom
    <2> SUFFICES ASSUME IInv, NEW n \in Nodes, gen[n] = "signing" \/ wait[n] = "waiting"
                 PROVE  Len(sigChan[n]) < SigChanCapacity
      BY DEF SigChanRoom
    <2>1. Len(sigChan[n]) <= Left(wait[n]) + Left(gen[n]) /\ Len(sigChan[n]) \in Nat
      BY ChannelLength DEF IInv, TypeInv, TokensFit
    <2>2. Left(wait[n]) = 0 \/ Left(gen[n]) = 0
      BY LeftProperties
    <2> QED BY <2>1, <2>2, LeftProperties DEF SigChanCapacity
  <1> QED BY <1>1, Inductive, PTL
-----------------------------------------------------------------------------
(* A call all members make together                                        *)

\* Nobody has the signature.
NoSignature == \A n \in Nodes : generated[n] # "signed"

\* Who has signed is at the end of a call that succeeds, and calls no more.
SignedStays ==
  \A n \in Nodes : generated[n] = "signed" =>
    gen[n] = "done" \/ (gen[n] = "off" /\ result[n] = "signed")

\* Before somebody has signed there is no trace of a signature anywhere.
SignaturesAreMade ==
  NoSignature =>
    /\ \A m \in net : m.type # "signature"
    /\ \A n \in Nodes :
         /\ ~ handling[n] /\ ~ received[n]
         /\ notifier[n] \in Notifiers => ~ notifier[n].signature /\ ~ notifier[n].resp

\* A call has no result yet; while it joins it has no list, and the leader it
\* asks is the one of its window.  Unless a timer has fired early, the other
\* goroutine still waits and has sent nothing.
CallsRun ==
  \A n \in Nodes :
    /\ gen[n] # "off" => result[n] = "none"
    /\ gen[n] = "joining" => party[n] = {} /\ group[n].leader = Leader(n)
    /\ gen[n] = "joining" /\ faults = 0 /\ NoSignature => wait[n] = "waiting" /\ sigChan[n] = <<>>

\* Nobody asks or answers itself, so that a leader is not in its own count, and
\* a leader is woken by a full count only.
CountFits(n, g) == n \notin g.online /\ (g.leader = n /\ g.notify > 0 => Enough(g))

CountsAreRight ==
  /\ \A m \in net : m.type \in {"request", "answer"} => m.from # m.to
  /\ \A n \in Nodes : group[n] \in Groups => CountFits(n, group[n])

CallInv == SignedStays /\ SignaturesAreMade /\ CallsRun /\ CountsAreRight

\* The answer with the list S.
GoodAnswer(S) == [type |-> "response", ok |-> TRUE, peers |-> S]

\* The common call: everybody asks leader, and only leader answers.
OneLeader(leader) ==
  /\ \A n \in Nodes : Leader(n) = leader
  /\ \A m \in net : /\ m.type = "request" => m.to = leader
                    /\ m.type = "answer" => m.from = leader
  /\ \A n \in Others(leader) :
       gen[n] = "joining" /\ group[n].notify > 0 => group[n].leaderResponse # None

\* Until the leader answers, everybody joins and nobody has heard from it.
BeforeAnswer(leader) ==
  gen[leader] = "joining" =>
    /\ \A n \in Nodes : gen[n] = "joining"
    /\ \A m \in net : m.type # "answer"
    /\ \A n \in Others(leader) : group[n].leaderResponse = None

\* A member of the list joins, signs with it or has signed, and nobody has
\* signed before all of them have the list.
ListSigns(S) ==
  /\ \A n \in S : \/ gen[n] = "joining"
                  \/ party[n] = S /\ gen[n] \in {"answering", "signing"}
                  \/ party[n] = S /\ generated[n] = "signed"
  /\ NoSignature \/ (\A n \in S : gen[n] # "joining")

\* Once the leader has answered, its answer is on its way to everybody who
\* still joins, or is there; who is not in the list does not sign.
Answered(leader, S) ==
  /\ party[leader] = S /\ FullParty(leader, S)
  /\ \A m \in net : m.type = "answer" => m.body = GoodAnswer(S)
  /\ \A n \in Others(leader) :
       /\ gen[n] # "answering"
       /\ gen[n] = "joining" =>
            \/ group[n].leaderResponse = GoodAnswer(S)
            \/ /\ group[n].leaderResponse = None
               /\ [type |-> "answer", from |-> leader, to |-> n, body |-> GoodAnswer(S)] \in net
  /\ \A n \in Nodes \ S : gen[n] # "signing"
  /\ ListSigns(S)

AfterAnswer(leader) == gen[leader] # "joining" => Answered(leader, party[leader])

\* A waiter has not been told to stop, and once another member has signed, the
\* signature is on its way to it or there; who does not wait any more has it.
WaitersGet ==
  \A n \in Nodes :
    /\ wait[n] = "waiting" => sigChan[n] = <<>>
    /\ wait[n] = "done" => received[n] \/ generated[n] = "signed"
    /\ wait[n] = "waiting" /\ (\E m \in Others(n) : generated[m] = "signed") =>
         \/ \E k \in net : k.type = "signature" /\ k.to = n
         \/ handling[n]
         \/ notifier[n].signature

ResultsGood ==
  \A n \in Nodes : result[n] # "failed" /\ (gen[n] = "off" => result[n] = "signed")

CommonCall(leader) ==
  /\ OneLeader(leader) /\ BeforeAnswer(leader) /\ AfterAnswer(leader)
  /\ WaitersGet /\ ResultsGood

TogetherInv == together /\ faults = 0 => \E leader \in Nodes : CommonCall(leader)

-----------------------------------------------------------------------------
(* What the calls keep                                                     *)

\* Without a fault a timer fires only when nothing can come any more.
LEMMA TimeoutFree ==
  ASSUME TypeOK, NEW may, Timeout(may), faults' = 0
  PROVE  ~may /\ faults = 0
  <1>1. faults \in 0 .. MaxFaults /\ MaxFaults \in Nat
    BY KeysignAssumption DEF TypeOK
  <1> QED BY <1>1 DEF Timeout

LEMMA FaultsGrow ==
  ASSUME TypeOK, [Next]_vars, faults' = 0
  PROVE  faults = 0
  <1>1. faults \in 0 .. MaxFaults /\ MaxFaults \in Nat
    BY KeysignAssumption DEF TypeOK
  <1>2. \A may : Timeout(may) => faults' = faults \/ faults' = faults + 1
    BY DEF Timeout
  <1>3. ASSUME NEW n \in Nodes, Generates(n) PROVE faults' = faults \/ faults' = faults + 1
    BY <1>2, <1>3, Zenon DEF Generates, joinPartyLeader, sendResponseToAll, joinPartyMember,
                         joinSignReceived, SignMessage, SignMessageFails
  <1>4. ASSUME NEW n \in Nodes, Waits(n) PROVE faults' = faults \/ faults' = faults + 1
    BY <1>2, <1>4, Zenon DEF Waits, WaitGetsSignature, WaitTimesOut, WaitIsTold
  <1>5. ASSUME NEW n \in Nodes, \/ KeySign(n) \/ Return(n) \/ sendRequestToLeader(n)
                                \/ createOrUpdateNotifier(n) \/ cleanupStaleNotifiers(n)
        PROVE  faults' = faults \/ faults' = faults + 1
    BY <1>5, Zenon DEF KeySign, Return, sendRequestToLeader, createOrUpdateNotifier, cleanupStaleNotifiers
  <1>6. ASSUME NEW m \in net, processReqMsg(m) \/ processRespMsg(m) \/ handleStream(m) \/ Lose(m)
        PROVE  faults' = faults \/ faults' = faults + 1
    BY <1>6, Zenon DEF processReqMsg, processRespMsg, handleStream, Lose
  <1>7. NextWindow \/ UNCHANGED vars => faults' = faults
    BY DEF NextWindow, vars
  <1>8. faults' = faults \/ faults' = faults + 1
    BY <1>3, <1>4, <1>5, <1>6, <1>7, Zenon DEF Next
  <1> QED BY <1>1, <1>8

\* Update adds a part, and hands the signature over when both are there.
LEMMA UpdateParts ==
  ASSUME NEW k \in Notifiers, NEW part \in {"signature", "awaited"}
  PROVE  /\ Update(k, part).signature <=> (k.signature \/ part = "signature")
         /\ Update(k, part).resp => k.resp \/ Update(k, part).signature
  BY DEF Update, Notifiers

LEMMA NotifierParts ==
  ASSUME TypeOK, NEW n \in Nodes
  PROVE  \/ getNotifier(n) = notifier[n] /\ notifier[n] \in Notifiers
         \/ ~ getNotifier(n).signature /\ ~ getNotifier(n).resp
  BY DEF TypeOK, getNotifier, newNotifier

LEMMA InitCalls ==
  ASSUME Init
  PROVE  CallInv
  <1>1. SignedStays /\ CallsRun
    BY DEF Init, SignedStays, CallsRun
  <1>2. SignaturesAreMade
    BY NoneType DEF Init, SignaturesAreMade
  <1>3. CountsAreRight
    BY NoneType DEF Init, CountsAreRight
  <1> QED BY <1>1, <1>2, <1>3 DEF CallInv

\* A step of the signing goroutine: who has signed has not run before it.
LEMMA GeneratesSigned ==
  ASSUME TypeOK, SignedStays, NEW n \in Nodes, Generates(n)
  PROVE  /\ SignedStays'
         /\ generated[n] # "signed"
         /\ NoSignature' => NoSignature
         /\ \A k \in Nodes \ {n} : generated'[k] = generated[k] /\ gen'[k] = gen[k]
         /\ UNCHANGED callVars
  <1>1. /\ gen[n] \notin {"off", "done"}
        /\ \E g \in {"answering", "signing", "done"} : gen' = [gen EXCEPT ![n] = g]
    BY GeneratesMoves
  <1>2. UNCHANGED callVars
    BY DEF Generates, joinPartyLeader, sendResponseToAll, joinPartyMember,
           joinSignReceived, SignMessage, SignMessageFails
  <1>3. generated[n] # "signed"
    BY <1>1 DEF SignedStays
  <1>4. \/ generated' = generated
        \/ gen' = [gen EXCEPT ![n] = "done"] /\ \E r : generated' = [generated EXCEPT ![n] = r]
    BY DEF Generates, joinPartyLeader, sendResponseToAll, joinPartyMember, Joined, JoinReturns,
           joinSignReceived, SignMessage, SignMessageFails
  <1>t. /\ gen \in [Nodes -> {"off", "joining", "answering", "signing", "done"}]
        /\ DOMAIN generated = Nodes
    BY DEF TypeOK
  <1>5. \A k \in Nodes \ {n} : generated'[k] = generated[k] /\ gen'[k] = gen[k]
    BY <1>1, <1>4, <1>t
  <1>6. generated'[n] = "signed" => gen'[n] = "done"
    BY <1>3, <1>4, <1>t
  <1>7. SignedStays'
    BY <1>2, <1>5, <1>6 DEF SignedStays, callVars
  <1>8. NoSignature' => NoSignature
    BY <1>3, <1>5 DEF NoSignature
  <1> QED BY <1>2, <1>3, <1>5, <1>7, <1>8

\* Between the calls, who may call again has not signed.
LEMMA CallSigned ==
  ASSUME TypeOK, SignedStays, NEW n \in Nodes, KeySign(n) \/ Return(n)
  PROVE  /\ SignedStays'
         /\ NoSignature' => NoSignature
         /\ \A k \in Nodes \ {n} : generated'[k] = generated[k] /\ gen'[k] = gen[k]
  <1>1. CASE KeySign(n)
    <2>1. generated[n] # "signed"
      BY <1>1 DEF KeySign, Busy, SignedStays
    <2>2. \A k \in Nodes \ {n} : generated'[k] = generated[k] /\ gen'[k] = gen[k] /\ result'[k] = result[k]
      BY <1>1 DEF KeySign, TypeOK
    <2>3. generated'[n] = "none"
      BY <1>1 DEF KeySign, TypeOK
    <2> QED BY <2>1, <2>2, <2>3 DEF SignedStays, NoSignature
  <1>2. CASE Return(n)
    <2>1. \A k \in Nodes \ {n} : generated'[k] = generated[k] /\ gen'[k] = gen[k] /\ result'[k] = result[k]
      BY <1>2 DEF Return, TypeOK
    <2>2. generated'[n] = generated[n] /\ gen'[n] = "off" /\ (generated[n] = "signed" => result'[n] = "signed")
      BY <1>2 DEF Return, TypeOK
    <2> QED BY <2>1, <2>2 DEF SignedStays, NoSignature
  <1> QED BY <1>1, <1>2

\* A step that leaves no trace of a signature where there was none.
LEMMA TracesOf ==
  ASSUME TypeOK, SignaturesAreMade, NEW n \in Nodes,
         NoSignature' => NoSignature,
         NoSignature => \A m \in net' : m.type # "signature",
         \A k \in Nodes \ {n} : handling'[k] = handling[k] /\ received'[k] = received[k] /\ notifier'[k] = notifier[k],
         NoSignature =>
           /\ ~ handling'[n] /\ ~ received'[n]
           /\ notifier'[n] \in Notifiers => ~ notifier'[n].signature /\ ~ notifier'[n].resp
  PROVE  SignaturesAreMade'
  BY DEF SignaturesAreMade

LEMMA GeneratesTraces ==
  ASSUME TypeOK, SignedStays, SignaturesAreMade, NEW n \in Nodes, Generates(n)
  PROVE  SignaturesAreMade'
  <1>1. NoSignature' => NoSignature
    BY GeneratesSigned
  <1>2. UNCHANGED <<handling, received, notifier>>
    BY DEF Generates, joinPartyLeader, sendResponseToAll, joinPartyMember,
           joinSignReceived, SignMessage, SignMessageFails, waitVars
  <1>3. CASE SignMessage(n)
    <2>1. generated'[n] = "signed"
      BY <1>3 DEF SignMessage, TypeOK
    <2> QED BY <2>1 DEF SignaturesAreMade, NoSignature
  <1>4. CASE ~ SignMessage(n)
    <2>1. \A m \in net' : m \in net \/ m.type = "answer"
      <3>1. CASE joinPartyLeader(n)
        BY <3>1 DEF joinPartyLeader
      <3>2. CASE ~ joinPartyLeader(n)
        <4>1. net' = net
          BY <1>4, <3>2 DEF Generates, sendResponseToAll, joinPartyMember,
                            joinSignReceived, SignMessageFails
        <4> QED BY <4>1
      <3> QED BY <3>1, <3>2
    <2> QED BY <1>1, <1>2, <2>1 DEF SignaturesAreMade
  <1> QED BY <1>3, <1>4

LEMMA CallTraces ==
  ASSUME TypeOK, SignedStays, SignaturesAreMade, NEW n \in Nodes, KeySign(n) \/ Return(n)
  PROVE  SignaturesAreMade'
  <1>1. NoSignature' => NoSignature
    BY CallSigned
  <1>2. NoSignature => \A m \in net' : m.type # "signature"
    BY DEF KeySign, Return, SignaturesAreMade
  <1>3. NoSignature => ~ handling'[n] /\ ~ received'[n]
    BY DEF KeySign, Return, SignaturesAreMade, TypeOK
  <1>4. \A k \in Nodes \ {n} : handling'[k] = handling[k] /\ received'[k] = received[k] /\ notifier'[k] = notifier[k]
    <2>1. DOMAIN received = Nodes /\ DOMAIN notifier = Nodes
      BY DEF TypeOK
    <2>2. CASE KeySign(n)
      <3>1. UNCHANGED <<handling, received>> /\ notifier' = [notifier EXCEPT ![n] = Update(getNotifier(n), "awaited")]
        BY <2>2 DEF KeySign
      <3> QED BY <2>1, <3>1
    <2>3. CASE Return(n)
      <3>1. UNCHANGED <<handling, notifier>> /\ received' = [received EXCEPT ![n] = FALSE]
        BY <2>3 DEF Return
      <3> QED BY <2>1, <3>1
    <2> QED BY <2>2, <2>3
  <1>5. NoSignature => (notifier'[n] \in Notifiers => ~ notifier'[n].signature /\ ~ notifier'[n].resp)
    <2>1. CASE KeySign(n)
      <3>1. notifier'[n] = Update(getNotifier(n), "awaited")
        BY <2>1 DEF KeySign, TypeOK
      <3>2. getNotifier(n) \in Notifiers
        BY NotifierType
      <3>3. NoSignature => ~ getNotifier(n).signature /\ ~ getNotifier(n).resp
        BY NotifierParts DEF SignaturesAreMade
      <3> QED BY <3>1, <3>2, <3>3, UpdateParts
    <2>2. CASE Return(n)
      BY <2>2 DEF Return, SignaturesAreMade
    <2> QED BY <2>1, <2>2
  <1> QED BY <1>1, <1>2, <1>3, <1>4, <1>5, TracesOf

LEMMA WaitsTraces ==
  ASSUME TypeOK, NotifierReady, SignaturesAreMade, NEW n \in Nodes, Waits(n)
  PROVE  SignaturesAreMade'
  <1>1. UNCHANGED <<genVars, net>>
    BY DEF Waits, WaitGetsSignature, WaitTimesOut, WaitIsTold
  <1>2. NoSignature' <=> NoSignature
    BY <1>1 DEF genVars, NoSignature
  <1>3. PICK got \in BOOLEAN : WaitReturns(n, got) /\ (got => wait[n] = "waiting" /\ notifier[n].resp)
    BY DEF Waits, WaitGetsSignature, WaitTimesOut, WaitIsTold
  <1>4. NoSignature => ~ got
    BY <1>3 DEF NotifierReady, SignaturesAreMade
  <1>5. received'[n] = got /\ ~ handling'[n] /\ notifier'[n] = None
    BY <1>3 DEF WaitReturns, removeNotifier, TypeOK
  <1>6. \A k \in Nodes \ {n} : handling'[k] = handling[k] /\ received'[k] = received[k] /\ notifier'[k] = notifier[k]
    BY <1>3 DEF WaitReturns, removeNotifier, TypeOK
  <1>7. NoSignature => \A m \in net' : m.type # "signature"
    BY <1>1 DEF SignaturesAreMade
  <1> QED BY <1>2, <1>4, <1>5, <1>6, <1>7, NoneType, TracesOf

LEMMA NotifierTraces ==
  ASSUME TypeOK, SignaturesAreMade, NEW n \in Nodes,
         createOrUpdateNotifier(n) \/ cleanupStaleNotifiers(n)
  PROVE  SignaturesAreMade'
  <1>1. UNCHANGED <<genVars, received, net>>
    BY DEF createOrUpdateNotifier, cleanupStaleNotifiers
  <1>2. NoSignature' <=> NoSignature
    BY <1>1 DEF genVars, NoSignature
  <1>3. CASE createOrUpdateNotifier(n)
    <2>1. ~ NoSignature
      BY <1>3 DEF createOrUpdateNotifier, SignaturesAreMade
    <2> QED BY <1>2, <2>1 DEF SignaturesAreMade
  <1>4. CASE cleanupStaleNotifiers(n)
    <2>1. ~ handling'[n] /\ notifier'[n] = None
      BY <1>4 DEF cleanupStaleNotifiers, removeNotifier, TypeOK
    <2>2. \A k \in Nodes \ {n} : handling'[k] = handling[k] /\ notifier'[k] = notifier[k]
      BY <1>4 DEF cleanupStaleNotifiers, removeNotifier, TypeOK
    <2> QED BY <1>1, <1>2, <2>1, <2>2, NoneType DEF SignaturesAreMade
  <1> QED BY <1>3, <1>4

LEMMA MessageTraces ==
  ASSUME TypeOK, SignaturesAreMade, NEW m \in net,
         processReqMsg(m) \/ processRespMsg(m) \/ handleStream(m) \/ Lose(m)
  PROVE  SignaturesAreMade'
  <1>1. generated' = generated /\ net' \subseteq net
    BY DEF processReqMsg, processRespMsg, handleStream, Lose, genVars
  <1>2. NoSignature' <=> NoSignature
    BY <1>1 DEF NoSignature
  <1>3. CASE handleStream(m)
    <2>1. ~ NoSignature
      BY <1>3 DEF handleStream, SignaturesAreMade
    <2> QED BY <1>2, <2>1 DEF SignaturesAreMade
  <1>4. CASE ~ handleStream(m)
    <2>1. UNCHANGED <<handling, received, notifier>>
      BY <1>4 DEF processReqMsg, processRespMsg, Lose, waitVars
    <2> QED BY <1>1, <1>2, <2>1 DEF SignaturesAreMade
  <1> QED BY <1>3, <1>4

\* A step that leaves the calls alone but may send or take messages.
LEMMA OtherCalls ==
  ASSUME TypeOK, SignedStays, CallsRun, UNCHANGED <<gen, generated, result, party, wait, sigChan, window>>,
         faults' = 0 => faults = 0,
         \A n \in Nodes : gen[n] = "joining" => group'[n].leader = group[n].leader
  PROVE  SignedStays' /\ CallsRun'
  <1>1. NoSignature' <=> NoSignature
    BY DEF NoSignature
  <1>2. SignedStays'
    BY DEF SignedStays
  <1> QED BY <1>1, <1>2 DEF CallsRun, Leader

\* KeySign and Return leave an empty channel.
LEMMA CallRuns ==
  ASSUME TypeOK, TokensFit, SignedStays, CallsRun, NEW n \in Nodes, KeySign(n) \/ Return(n)
  PROVE  CallsRun'
  <1>1. NoSignature' => NoSignature
    BY CallSigned
  <1>2. /\ \A k \in Nodes \ {n} : /\ gen'[k] = gen[k] /\ result'[k] = result[k] /\ party'[k] = party[k]
                                  /\ group'[k] = group[k] /\ window'[k] = window[k]
                                  /\ wait'[k] = wait[k] /\ sigChan'[k] = sigChan[k]
        /\ faults' = faults
    <2>1. CASE KeySign(n)
      BY <2>1 DEF KeySign, TypeOK
    <2>2. CASE Return(n)
      BY <2>2 DEF Return, TypeOK
    <2> QED BY <2>1, <2>2
  <1>3. CASE KeySign(n)
    <2>1. gen'[n] = "joining" /\ result'[n] = "none" /\ party'[n] = {} /\ wait'[n] = "waiting"
      BY <1>3 DEF KeySign, TypeOK
    <2>2. group'[n] = newPeerStatus(LeaderNode[height]) /\ window'[n] = height
      BY <1>3 DEF KeySign, TypeOK
    <2>3. group'[n].leader = LeaderNode[window'[n]]
      BY <2>2 DEF newPeerStatus
    <2>4. sigChan'[n] = <<>>
      <3>1. gen[n] = "off" /\ wait[n] = "off" /\ sigChan' = sigChan
        BY <1>3 DEF KeySign, Busy, TokensFit
      <3>2. Len(sigChan[n]) <= 0
        BY <3>1, LeftProperties DEF TokensFit
      <3>3. sigChan[n] \in Seq({"signature received", "signature generated"})
        BY DEF TypeOK
      <3>4. Len(sigChan[n]) = 0
        BY <3>2, ChannelLength
      <3> QED BY <3>1, <3>3, <3>4, EmptySeq
    <2> QED BY <1>1, <1>2, <2>1, <2>3, <2>4 DEF CallsRun, Leader
  <1>4. CASE Return(n)
    <2>1. gen'[n] = "off"
      BY <1>4 DEF Return, TypeOK
    <2> QED BY <1>1, <1>2, <2>1 DEF CallsRun, Leader
  <1> QED BY <1>3, <1>4

LEMMA GeneratesRuns ==
  ASSUME TypeOK, SignedStays, CallsRun, NEW n \in Nodes, Generates(n), faults' = 0 => faults = 0
  PROVE  CallsRun'
  <1>1. NoSignature' => NoSignature
    BY GeneratesSigned
  <1>2. /\ UNCHANGED <<callVars, wait>>
        /\ gen[n] # "off" /\ gen'[n] # "joining"
        /\ \A k \in Nodes \ {n} : gen'[k] = gen[k] /\ sigChan'[k] = sigChan[k]
    <2>1. UNCHANGED wait
      BY DEF Generates, joinPartyLeader, sendResponseToAll, joinPartyMember,
             joinSignReceived, SignMessage, SignMessageFails, waitVars
    <2>2. PICK g \in {"answering", "signing", "done"} : \E c :
            gen' = [gen EXCEPT ![n] = g] /\ sigChan' = [sigChan EXCEPT ![n] = c]
      BY GeneratesMoves
    <2>3. gen'[n] = g /\ \A k \in Nodes \ {n} : gen'[k] = gen[k] /\ sigChan'[k] = sigChan[k]
      BY <2>2 DEF TypeOK
    <2>4. gen[n] # "off" /\ UNCHANGED callVars
      BY GeneratesMoves, GeneratesSigned
    <2> QED BY <2>1, <2>3, <2>4
  <1>3. \A k \in Nodes \ {n} : party'[k] = party[k] /\ group'[k] = group[k]
    <2>1. DOMAIN party = Nodes /\ DOMAIN group = Nodes
      BY DEF TypeOK
    <2>2. party' = party \/ \E S : party' = [party EXCEPT ![n] = S]
      BY DEF Generates, joinPartyLeader, sendResponseToAll, joinPartyMember, Joined, JoinReturns,
             joinSignReceived, SignMessage, SignMessageFails
    <2>3. group' = group \/ group' = [group EXCEPT ![n] = None]
      BY DEF Generates, joinPartyLeader, sendResponseToAll, joinPartyMember, Joined, JoinReturns,
             joinSignReceived, SignMessage, SignMessageFails
    <2> QED BY <2>1, <2>2, <2>3
  <1> QED BY <1>1, <1>2, <1>3 DEF CallsRun, Leader, callVars

\* The waiter goes on early only with a signature, when it is told, or on a
\* timer that counts as a fault.
LEMMA WaitsRuns ==
  ASSUME TypeOK, NotifierReady, SignaturesAreMade, SignedStays, CallsRun, NEW n \in Nodes, Waits(n)
  PROVE  SignedStays' /\ CallsRun'
  <1>1. UNCHANGED <<genVars, callVars>>
    BY DEF Waits, WaitGetsSignature, WaitTimesOut, WaitIsTold
  <1>2. NoSignature' <=> NoSignature
    BY <1>1 DEF genVars, NoSignature
  <1>3. SignedStays'
    BY <1>1 DEF genVars, callVars, SignedStays
  <1>4. \A k \in Nodes \ {n} : wait'[k] = wait[k] /\ sigChan'[k] = sigChan[k]
    <2>1. DOMAIN wait = Nodes /\ DOMAIN sigChan = Nodes
      BY DEF TypeOK
    <2>2. wait' = [wait EXCEPT ![n] = "done"]
      BY DEF Waits, WaitGetsSignature, WaitTimesOut, WaitIsTold, WaitReturns
    <2>3. sigChan' = sigChan \/ \E c : sigChan' = [sigChan EXCEPT ![n] = c]
      BY DEF Waits, WaitGetsSignature, WaitTimesOut, WaitIsTold
    <2> QED BY <2>1, <2>2, <2>3
  <1>5. gen[n] = "joining" /\ NoSignature => faults' # 0
    <2> SUFFICES ASSUME gen[n] = "joining", NoSignature, faults' = 0 PROVE FALSE
      OBVIOUS
    <2>1. CASE WaitGetsSignature(n)
      BY <2>1 DEF WaitGetsSignature, NotifierReady, SignaturesAreMade
    <2>2. CASE WaitTimesOut(n)
      <3>1. SignatureMayCome(n)
        BY DEF SignatureMayCome
      <3> QED BY <2>2, <3>1, TimeoutFree DEF WaitTimesOut
    <2>3. CASE WaitIsTold(n)
      BY <2>3 DEF WaitIsTold, CallsRun
    <2> QED BY <2>1, <2>2, <2>3 DEF Waits
  <1>6. faults' = 0 => faults = 0
    BY TimeoutFree DEF Waits, WaitGetsSignature, WaitTimesOut, WaitIsTold
  <1> QED BY <1>1, <1>2, <1>3, <1>4, <1>5, <1>6 DEF CallsRun, Leader, genVars, callVars

\* updatePeer counts and may wake; it touches nothing else.
LEMMA UpdatePeerKeeps ==
  ASSUME NEW g \in Groups, NEW p \in Nodes
  PROVE  updatePeer(g, p).leader = g.leader /\ updatePeer(g, p).leaderResponse = g.leaderResponse
  <1> DEFINE with == [g EXCEPT !.online = @ \cup {p}]
             told == [with EXCEPT !.notify = @ + 1]
  <1>1. with.leader = g.leader /\ with.leaderResponse = g.leaderResponse
    BY DEF Groups
  <1>2. told.leader = g.leader /\ told.leaderResponse = g.leaderResponse
    BY DEF Groups
  <1>3. updatePeer(g, p) \in {g, with, told}
    BY DEF updatePeer
  <1> HIDE DEF with, told
  <1> QED BY <1>1, <1>2, <1>3

LEMMA UpdatePeerCounts ==
  ASSUME NEW g \in Groups, NEW p \in Nodes, NEW n \in Nodes, n # p, CountFits(n, g)
  PROVE  CountFits(n, updatePeer(g, p))
  <1> DEFINE with == [g EXCEPT !.online = @ \cup {p}]
             told == [with EXCEPT !.notify = @ + 1]
  <1>1. /\ with.leader = g.leader /\ with.online = g.online \cup {p} /\ with.notify = g.notify
        /\ told.leader = g.leader /\ told.online = with.online
    BY DEF Groups
  <1>2. \/ updatePeer(g, p) = g
        \/ updatePeer(g, p) = with /\ ~ Enough(g)
        \/ updatePeer(g, p) = told /\ Enough(with)
    BY DEF updatePeer
  <1> HIDE DEF with, told
  <1>3. Enough(told) <=> Enough(with)
    BY <1>1 DEF Enough
  <1> QED BY <1>1, <1>2, <1>3 DEF CountFits

LEMMA TakeResponseCounts ==
  ASSUME NEW g \in Groups, NEW p \in Nodes, NEW n \in Nodes, NEW r, n # p, CountFits(n, g)
  PROVE  CountFits(n, TakeResponse(g, p, r)) /\ TakeResponse(g, p, r).leader = g.leader
  <1> DEFINE t == TakeResponse(g, p, r)
  <1>1. t.leader = g.leader /\ t.online = g.online /\ (t = g \/ g.leader = p)
    BY DEF TakeResponse, Groups
  <1> HIDE DEF t
  <1>2. CountFits(n, t) /\ t.leader = g.leader
    BY <1>1 DEF CountFits
  <1> QED BY <1>2 DEF t

\* A step that gives one node another group, and sends no request or answer.
LEMMA CountsOfOne ==
  ASSUME TypeOK, CountsAreRight, NEW n \in Nodes, NEW gr,
         group' = [group EXCEPT ![n] = gr],
         gr \in Groups => CountFits(n, gr),
         \A m \in net' : m \in net \/ (m.type \in {"request", "answer"} => m.from # m.to)
  PROVE  CountsAreRight'
  <1>1. group'[n] = gr /\ \A k \in Nodes \ {n} : group'[k] = group[k]
    BY DEF TypeOK
  <1>2. \A k \in Nodes : group'[k] \in Groups => CountFits(k, group'[k])
    BY <1>1 DEF CountsAreRight
  <1>3. \A m \in net' : m.type \in {"request", "answer"} => m.from # m.to
    BY DEF CountsAreRight
  <1> QED BY <1>2, <1>3 DEF CountsAreRight

LEMMA OtherCounts ==
  ASSUME CountsAreRight, UNCHANGED group,
         \A m \in net' : m \in net \/ (m.type \in {"request", "answer"} => m.from # m.to)
  PROVE  CountsAreRight'
  BY DEF CountsAreRight

LEMMA CallCounts ==
  ASSUME TypeOK, CountsAreRight, NEW n \in Nodes, KeySign(n)
  PROVE  CountsAreRight'
  <1>1. group' = [group EXCEPT ![n] = newPeerStatus(LeaderNode[height])] /\ net' = net
    BY DEF KeySign
  <1>2. CountFits(n, newPeerStatus(LeaderNode[height]))
    BY DEF CountFits, newPeerStatus
  <1> QED BY <1>1, <1>2, CountsOfOne

LEMMA MessageCounts ==
  ASSUME TypeOK, CountsAreRight, NEW m \in net, processReqMsg(m) \/ processRespMsg(m)
  PROVE  /\ CountsAreRight'
         /\ \A n \in Nodes : group[n] \in Groups => group'[n].leader = group[n].leader
  <1> DEFINE n == m.to
             gr == IF group[n] = None THEN None
                   ELSE IF m.type = "request" THEN updatePeer(group[n], m.from)
                   ELSE TakeResponse(group[n], m.from, m.body)
  <1>1. n \in Nodes /\ m.from \in Nodes /\ m.from # n
    BY MessageTypes DEF processReqMsg, processRespMsg, CountsAreRight
  <1>2. /\ gr \in Groups => CountFits(n, gr)
        /\ group[n] \in Groups => gr.leader = group[n].leader
    <2>1. CASE group[n] = None
      BY <2>1, NoneType
    <2>2. CASE group[n] \in Groups
      <3>1. CountFits(n, group[n])
        BY <1>1, <2>2 DEF CountsAreRight
      <3> QED BY <1>1, <2>2, <3>1, NoneType, UpdatePeerCounts, UpdatePeerKeeps, TakeResponseCounts
    <2> QED BY <1>1, <2>1, <2>2 DEF TypeOK
  <1>3. group' = [group EXCEPT ![n] = gr] /\ net' \subseteq net
    BY DEF processReqMsg, processRespMsg
  <1> HIDE DEF n, gr
  <1>4. CountsAreRight'
    BY <1>1, <1>2, <1>3, CountsOfOne
  <1>5. \A k \in Nodes : group[k] \in Groups => group'[k].leader = group[k].leader
    BY <1>1, <1>2, <1>3 DEF TypeOK
  <1> QED BY <1>4, <1>5

LEMMA GeneratesCounts ==
  ASSUME TypeInv, CountsAreRight, NEW n \in Nodes, Generates(n)
  PROVE  CountsAreRight'
  <1>0. TypeOK
    BY DEF TypeInv
  <1>1. group' = group \/ group' = [group EXCEPT ![n] = None]
    BY DEF Generates, joinPartyLeader, sendResponseToAll, joinPartyMember, Joined, JoinReturns,
           joinSignReceived, SignMessage, SignMessageFails
  <1>2. \A m \in net' : m \in net \/ (m.type \in {"request", "answer"} => m.from # m.to)
    <2>1. CASE joinPartyLeader(n)
      BY <2>1 DEF joinPartyLeader, Others
    <2>2. CASE SignMessage(n)
      BY <2>2 DEF SignMessage
    <2>3. CASE ~ joinPartyLeader(n) /\ ~ SignMessage(n)
      <3>1. net' = net
        BY <2>3 DEF Generates, sendResponseToAll, joinPartyMember,
                    joinSignReceived, SignMessageFails
      <3> QED BY <3>1
    <2> QED BY <2>1, <2>2, <2>3
  <1>3. CASE group' = group
    BY <1>2, <1>3, OtherCounts
  <1>4. CASE group' = [group EXCEPT ![n] = None]
    BY <1>0, <1>2, <1>4, NoneType, CountsOfOne
  <1> QED BY <1>1, <1>3, <1>4

LEMMA NextCalls == IInv /\ CallInv /\ [Next]_vars => CallInv'
  <1> SUFFICES ASSUME IInv, CallInv, [Next]_vars PROVE CallInv'
    OBVIOUS
  <1>0. TypeInv /\ TypeOK /\ NotifierReady /\ TokensFit
    BY DEF IInv, TypeInv
  <1>f. faults' = 0 => faults = 0
    BY <1>0, FaultsGrow
  <1>c. SignedStays /\ SignaturesAreMade /\ CallsRun /\ CountsAreRight
    BY DEF CallInv
  <1> USE <1>0, <1>c
  <1>1. CASE NextWindow \/ UNCHANGED vars
    <2>1. UNCHANGED <<gen, generated, party, group, waitVars, sigChan, net, faults, result, window>>
      BY <1>1 DEF NextWindow, vars, genVars, callVars
    <2>2. NoSignature' <=> NoSignature
      BY <2>1 DEF NoSignature
    <2>3. SignaturesAreMade'
      BY <2>1, <2>2 DEF SignaturesAreMade, waitVars
    <2>4. SignedStays' /\ CallsRun'
      BY <2>1, OtherCalls DEF waitVars
    <2>5. CountsAreRight'
      BY <2>1, OtherCounts
    <2> QED BY <2>3, <2>4, <2>5 DEF CallInv
  <1>2. ASSUME NEW n \in Nodes, KeySign(n) \/ Return(n) PROVE CallInv'
    <2>1. SignedStays' /\ SignaturesAreMade' /\ CallsRun'
      BY <1>2, CallSigned, CallTraces, CallRuns
    <2>2. Return(n) => UNCHANGED <<group, net>>
      BY DEF Return
    <2>3. CountsAreRight'
      BY <1>2, <2>2, CallCounts, OtherCounts
    <2> QED BY <2>1, <2>3 DEF CallInv
  <1>3. ASSUME NEW n \in Nodes, Generates(n) PROVE CallInv'
    BY <1>3, <1>f, GeneratesSigned, GeneratesTraces, GeneratesRuns, GeneratesCounts DEF CallInv
  <1>4. ASSUME NEW n \in Nodes, Waits(n) PROVE CallInv'
    <2>1. UNCHANGED <<group, net>>
      BY <1>4 DEF Waits, WaitGetsSignature, WaitTimesOut, WaitIsTold, genVars
    <2> QED BY <1>4, <2>1, WaitsTraces, WaitsRuns, OtherCounts DEF CallInv
  <1>5. ASSUME NEW n \in Nodes, sendRequestToLeader(n) PROVE CallInv'
    <2>1. /\ UNCHANGED <<gen, generated, party, group, waitVars, sigChan, result, window>>
          /\ net' = net \cup {[type |-> "request", from |-> n, to |-> group[n].leader]}
          /\ group[n].leader # n
      BY <1>5 DEF sendRequestToLeader, genVars, callVars
    <2>2. NoSignature' <=> NoSignature
      BY <2>1 DEF NoSignature
    <2>3. SignaturesAreMade'
      BY <2>1, <2>2 DEF SignaturesAreMade, waitVars
    <2>4. SignedStays' /\ CallsRun'
      BY <1>f, <2>1, OtherCalls DEF waitVars
    <2>5. \A m \in net' : m \in net \/ (m.type \in {"request", "answer"} => m.from # m.to)
      BY <2>1
    <2>6. CountsAreRight'
      BY <2>1, <2>5, OtherCounts
    <2> QED BY <2>3, <2>4, <2>6 DEF CallInv
  <1>6. ASSUME NEW n \in Nodes, createOrUpdateNotifier(n) \/ cleanupStaleNotifiers(n) PROVE CallInv'
    <2>1. UNCHANGED <<gen, generated, party, group, wait, sigChan, net, result, window>>
      BY <1>6 DEF createOrUpdateNotifier, cleanupStaleNotifiers, genVars, callVars
    <2> QED BY <1>6, <1>f, <2>1, NotifierTraces, OtherCalls, OtherCounts DEF CallInv
  <1>7. ASSUME NEW m \in net, processReqMsg(m) \/ processRespMsg(m) PROVE CallInv'
    <2>1. UNCHANGED <<gen, generated, party, wait, sigChan, result, window>>
      BY <1>7 DEF processReqMsg, processRespMsg, waitVars, callVars
    <2>2. \A n \in Nodes : gen[n] = "joining" => group'[n].leader = group[n].leader
      BY <1>7, MessageCounts DEF TypeInv, JoinHasGroup
    <2> QED BY <1>7, <1>f, <2>1, <2>2, MessageTraces, OtherCalls, MessageCounts DEF CallInv
  <1>8. ASSUME NEW m \in net, handleStream(m) \/ Lose(m) PROVE CallInv'
    <2>1. UNCHANGED <<gen, generated, party, group, wait, sigChan, result, window>> /\ net' \subseteq net
      BY <1>8 DEF handleStream, Lose, genVars, waitVars, callVars
    <2> QED BY <1>8, <1>f, <2>1, MessageTraces, OtherCalls, OtherCounts DEF CallInv
  <1> QED BY <1>1, <1>2, <1>3, <1>4, <1>5, <1>6, <1>7, <1>8 DEF Next

-----------------------------------------------------------------------------
(* The common call succeeds                                                *)

\* The members can be counted.
LEMMA EnoughMembers ==
  ASSUME NEW n \in Nodes
  PROVE  Cardinality(Nodes) - 1 >= threshold /\ threshold \in Nat
         /\ Cardinality(Others(n)) = Cardinality(Nodes) - 1
  <1>1. Cardinality(Nodes) \in Nat \ {0}
    BY NodesAssumption, FS_CardinalityType, FS_EmptySet
  <1>2. Cardinality(Nodes) - 1 >= threshold
    BY <1>1 DEF threshold
  <1>3. Cardinality(Others(n)) = Cardinality(Nodes) - 1
    BY NodesAssumption, FS_RemoveElement DEF Others
  <1> QED BY <1>2, <1>3, ThresholdType

\* A leader that counts enough members, or all of them, has a list.
LEMMA LeaderHasList ==
  ASSUME NEW n \in Nodes, NEW g \in Groups, GroupFits(g), CountFits(n, g),
         Enough(g) \/ Others(n) \subseteq g.online
  PROVE  LeaderResponse(g, n) = GoodAnswer(g.online \cup {n}) /\ FullParty(n, g.online \cup {n})
  <1>1. g.online \in SUBSET Nodes /\ n \notin g.online
    BY DEF Groups, CountFits
  <1>2. IsFiniteSet(g.online) /\ Cardinality(g.online) \in Nat
    BY <1>1, NodesAssumption, FS_Subset, FS_CardinalityType
  <1>3. Cardinality(g.online) >= threshold
    <2>1. CASE Enough(g)
      BY <2>1 DEF Enough
    <2>2. CASE Others(n) \subseteq g.online
      <3>1. Others(n) = g.online
        BY <1>1, <2>2 DEF Others
      <3> QED BY <1>2, <3>1, EnoughMembers
    <2> QED BY <2>1, <2>2
  <1>4. Cardinality(g.online \cup {n}) = Cardinality(g.online) + 1
    BY <1>1, SubsetCardinality
  <1>5. Cardinality(g.online \cup {n}) >= threshold + 1
    BY <1>2, <1>3, <1>4, ThresholdType
  <1>6. (Cardinality(g.online \cup {n}) >= threshold + 1) = TRUE
    BY <1>5
  <1>7. LeaderResponse(g, n) = GoodAnswer(g.online \cup {n})
    BY <1>6, Zenon DEF LeaderResponse, GoodAnswer
  <1>8. LeaderResponse(g, n).ok /\ LeaderResponse(g, n).peers = g.online \cup {n}
    BY <1>7 DEF GoodAnswer
  <1> QED BY <1>7, <1>8, LeaderResponseFits

\* The last member to join.
LEMMA CommonCallStarts ==
  ASSUME TypeInv, CallInv, AllJoin
  PROVE  \E leader \in Nodes : CommonCall(leader)
  <1> DEFINE leader == LeaderNode[height]
  <1>1. leader \in Nodes
    BY LeaderAssumption DEF TypeInv, TypeOK
  <1>2. /\ faults = 0
        /\ \A n \in Nodes : gen[n] = "joining" /\ window[n] = height
        /\ \A m \in net : m.type = "request" /\ m.to = leader
        /\ \A n \in Others(leader) : group[n] = newPeerStatus(leader)
    BY DEF AllJoin
  <1>3. \A n \in Nodes : Leader(n) = leader
    BY <1>2 DEF Leader
  <1>4. NoSignature
    BY <1>2 DEF CallInv, SignedStays, NoSignature
  <1>5. \A n \in Nodes : wait[n] = "waiting" /\ sigChan[n] = <<>> /\ result[n] = "none"
    BY <1>2, <1>4 DEF CallInv, CallsRun
  <1>6. \A n \in Others(leader) : group[n].notify = 0 /\ group[n].leaderResponse = None
    BY <1>2 DEF newPeerStatus
  <1> HIDE DEF leader
  <1>7. OneLeader(leader)
    BY <1>2, <1>3, <1>6 DEF OneLeader
  <1>8. BeforeAnswer(leader) /\ AfterAnswer(leader)
    BY <1>1, <1>2, <1>6 DEF BeforeAnswer, AfterAnswer
  <1>9. WaitersGet
    BY <1>4, <1>5 DEF WaitersGet, NoSignature, Others
  <1>10. ResultsGood
    BY <1>2, <1>5 DEF ResultsGood
  <1> QED BY <1>1, <1>7, <1>8, <1>9, <1>10 DEF CommonCall

\* A step of the call that signs nothing, takes no signature and ends no call.
LEMMA WaitersStay ==
  ASSUME WaitersGet, UNCHANGED <<wait, received, notifier, handling>>,
         \A k \in Nodes : generated'[k] = "signed" <=> generated[k] = "signed",
         \A k \in Nodes : wait[k] = "waiting" => sigChan'[k] = <<>>,
         \A m \in net : m.type = "signature" => m \in net'
  PROVE  WaitersGet'
  BY DEF WaitersGet, Others

LEMMA ResultsStay ==
  ASSUME ResultsGood, UNCHANGED result, \A k \in Nodes : gen'[k] = "off" => gen[k] = "off"
  PROVE  ResultsGood'
  BY DEF ResultsGood

LEMMA CommonStays ==
  ASSUME NEW leader \in Nodes, CommonCall(leader),
         UNCHANGED <<window, result, genVars, waitVars, sigChan, net>>
  PROVE  CommonCall(leader)'
  <1> USE DEF genVars, waitVars
  <1>1. OneLeader(leader)' /\ BeforeAnswer(leader)'
    BY DEF CommonCall, OneLeader, BeforeAnswer, Leader
  <1>2. AfterAnswer(leader)'
    BY DEF CommonCall, AfterAnswer, Answered, ListSigns, NoSignature
  <1>3. WaitersGet' /\ ResultsGood'
    BY DEF CommonCall, WaitersGet, ResultsGood
  <1> QED BY <1>1, <1>2, <1>3 DEF CommonCall

\* In the common call a member that is not the leader joins until the leader
\* has answered, and only members of the list sign.
LEMMA CommonFacts ==
  ASSUME TypeOK, CallInv, NEW leader \in Nodes, CommonCall(leader), NEW n \in Nodes
  PROVE  /\ gen[n] # "joining" => gen[leader] # "joining"
         /\ gen[n] = "answering" => n = leader
         /\ gen[n] = "joining" => group[n].leader = leader
         /\ gen[n] = "signing" => n \in party[leader] /\ party[n] = party[leader] /\ gen[leader] # "joining"
         /\ gen[n] # "off" /\ gen[n] # "done" => generated[n] # "signed"
         /\ gen[leader] = "joining" => NoSignature
  <1>1. gen[n] # "joining" => gen[leader] # "joining"
    BY DEF CommonCall, BeforeAnswer
  <1>2. gen[n] = "answering" => n = leader
    BY <1>1 DEF CommonCall, AfterAnswer, Answered, Others
  <1>3. gen[n] = "joining" => group[n].leader = leader
    BY DEF CallInv, CallsRun, CommonCall, OneLeader
  <1>4. gen[n] # "off" /\ gen[n] # "done" => generated[n] # "signed"
    BY DEF CallInv, SignedStays
  <1>5. gen[n] = "signing" => n \in party[leader] /\ party[n] = party[leader]
    BY <1>1, <1>4 DEF CommonCall, AfterAnswer, Answered, ListSigns
  <1>6. gen[leader] = "joining" => NoSignature
    BY DEF CommonCall, BeforeAnswer, CallInv, SignedStays, NoSignature
  <1> QED BY <1>1, <1>2, <1>3, <1>4, <1>5, <1>6

LEMMA AnsweredIs ==
  ASSUME NEW leader, NEW S, Answered(leader, S)'
  PROVE  AfterAnswer(leader)'
  BY DEF Answered, AfterAnswer

LEMMA ReturnCommon ==
  ASSUME TypeOK, CallInv, NEW leader \in Nodes, CommonCall(leader), NEW n \in Nodes, Return(n)
  PROVE  CommonCall(leader)'
  <1>1. /\ gen[n] = "done" /\ wait[n] = "done"
        /\ gen'[n] = "off" /\ wait'[n] = "off"
        /\ result'[n] = IF received[n] \/ generated[n] = "signed" THEN "signed" ELSE "failed"
        /\ \A k \in Nodes \ {n} : /\ gen'[k] = gen[k] /\ wait'[k] = wait[k] /\ result'[k] = result[k]
                                  /\ received'[k] = received[k] /\ sigChan'[k] = sigChan[k]
        /\ UNCHANGED <<window, generated, party, group, notifier, handling, net>>
    BY DEF Return, TypeOK
  <1>2. result'[n] = "signed"
    BY <1>1 DEF CommonCall, WaitersGet
  <1>3. gen[leader] # "joining" /\ gen'[leader] # "joining"
    BY <1>1, CommonFacts
  <1>4. OneLeader(leader)'
    BY <1>1 DEF CommonCall, OneLeader, Leader, Others
  <1>5. AfterAnswer(leader)'
    <2>1. PICK S : S = party[leader]
      OBVIOUS
    <2>2. Answered(leader, S)
      BY <1>3, <2>1 DEF CommonCall, AfterAnswer
    <2>3. S \subseteq Nodes
      BY <2>1 DEF TypeOK
    <2>4. ListSigns(S)'
      BY <1>1, <2>2, <2>3 DEF Answered, ListSigns, NoSignature
    <2>5. Answered(leader, S)'
      BY <1>1, <2>2, <2>4 DEF Answered, Others
    <2> QED BY <2>5, AnsweredIs
  <1>6. WaitersGet' /\ ResultsGood'
    BY <1>1, <1>2 DEF CommonCall, WaitersGet, ResultsGood, Others
  <1> QED BY <1>3, <1>4, <1>5, <1>6 DEF CommonCall, BeforeAnswer

\* The leader answers: it has been woken by a full count, or nobody is missing.
LEMMA LeaderCommon ==
  ASSUME IInv, CallInv, faults' = 0, NEW leader \in Nodes, CommonCall(leader),
         NEW n \in Nodes, joinPartyLeader(n)
  PROVE  CommonCall(leader)'
  <1> DEFINE g == group[leader]
             answer == LeaderResponse(g, leader)
  <1>s. PICK S : S = g.online \cup {leader}
    OBVIOUS
  <1>0. TypeInv /\ TypeOK
    BY DEF IInv, TypeInv
  <1>1. n = leader /\ gen[leader] = "joining" /\ g.leader = leader
    BY <1>0, CommonFacts DEF joinPartyLeader
  <1>2. g \in Groups /\ GroupFits(g) /\ CountFits(leader, g)
    BY <1>0, <1>1 DEF IInv, TypeInv, JoinHasGroup, PartiesFit, CallInv, CountsAreRight
  <1>3. \A k \in Nodes : gen[k] = "joining" /\ Leader(k) = leader
    BY <1>1 DEF CommonCall, BeforeAnswer, OneLeader
  <1>4. Enough(g) \/ Others(leader) \subseteq g.online
    <2>1. CASE g.notify > 0
      BY <1>1, <1>2, <2>1 DEF CountFits
    <2>2. CASE Timeout(RequestMayCome(n))
      <3>1. ~ RequestMayCome(leader)
        BY <1>0, <1>1, <2>2, TimeoutFree
      <3> QED BY <1>3, <3>1 DEF RequestMayCome, Joining, Others
    <2> QED BY <1>1, <2>1, <2>2 DEF joinPartyLeader
  <1>5. answer = GoodAnswer(S) /\ FullParty(leader, S)
    BY <1>2, <1>4, <1>s, LeaderHasList
  <1>6. answer.ok /\ answer.peers = S
    BY <1>5 DEF GoodAnswer
  <1>7. /\ net' = net \cup {[type |-> "answer", from |-> leader, to |-> p, body |-> GoodAnswer(S)] : p \in Others(leader)}
        /\ party' = [party EXCEPT ![leader] = S]
        /\ gen' = [gen EXCEPT ![leader] = "answering"]
        /\ UNCHANGED <<window, result, generated, group, waitVars, sigChan>>
    BY <1>1, <1>5, <1>6 DEF joinPartyLeader, callVars
  <1>t. S \subseteq Nodes
    BY <1>2, <1>s DEF Groups
  <1> HIDE DEF g, answer
  <1>8. /\ party'[leader] = S /\ gen'[leader] = "answering"
        /\ \A k \in Others(leader) : gen'[k] = "joining"
    BY <1>0, <1>3, <1>7 DEF TypeOK, Others
  <1>9. NoSignature'
    BY <1>0, <1>1, <1>7, CommonFacts DEF NoSignature
  <1>10. OneLeader(leader)'
    <2>1. \A m \in net' : m \in net \/ (m.type = "answer" /\ m.from = leader)
      BY <1>7
    <2> QED BY <1>3, <1>7, <1>8, <2>1 DEF CommonCall, OneLeader, Leader, Others
  <1>11. AfterAnswer(leader)'
    <2>1. \A m \in net' : m.type = "answer" => m.body = GoodAnswer(S)
      BY <1>1, <1>7 DEF CommonCall, BeforeAnswer
    <2>2. \A k \in Others(leader) :
            /\ group'[k].leaderResponse = None
            /\ [type |-> "answer", from |-> leader, to |-> k, body |-> GoodAnswer(S)] \in net'
      BY <1>1, <1>7 DEF CommonCall, BeforeAnswer
    <2>3. ListSigns(S)'
      BY <1>8, <1>9, <1>t DEF ListSigns, Others
    <2>4. \A k \in Nodes : gen'[k] # "signing"
      BY <1>8 DEF Others
    <2>5. Answered(leader, S)'
      BY <1>5, <1>8, <2>1, <2>2, <2>3, <2>4 DEF Answered, FullParty
    <2> QED BY <2>5, AnsweredIs
  <1>12. WaitersGet'
    <2>1. \A k \in Nodes : wait[k] = "waiting" => sigChan'[k] = <<>>
      BY <1>7 DEF CommonCall, WaitersGet
    <2> QED BY <1>7, <2>1, WaitersStay DEF CommonCall, waitVars
  <1>13. ResultsGood'
    BY <1>3, <1>7, <1>8, ResultsStay DEF CommonCall, Others
  <1> QED BY <1>8, <1>10, <1>11, <1>12, <1>13 DEF CommonCall, BeforeAnswer

\* Everybody has replied: the leader signs with its list.
LEMMA RespondCommon ==
  ASSUME TypeOK, CallInv, NEW leader \in Nodes, CommonCall(leader),
         NEW n \in Nodes, sendResponseToAll(n)
  PROVE  CommonCall(leader)'
  <1>1. n = leader /\ gen[leader] = "answering"
    BY CommonFacts DEF sendResponseToAll
  <1>2. PICK S : S = party[leader]
    OBVIOUS
  <1>3. Answered(leader, S) /\ S # {} /\ S \subseteq Nodes
    BY <1>1, <1>2 DEF CommonCall, AfterAnswer, Answered, FullParty, TypeOK
  <1>4. Joined(leader, S) /\ UNCHANGED <<window, result, waitVars, sigChan, net>>
    BY <1>1, <1>2, <1>3 DEF sendResponseToAll, callVars
  <1>5. /\ gen'[leader] = "signing" /\ party'[leader] = S
        /\ \A k \in Others(leader) : gen'[k] = gen[k] /\ party'[k] = party[k] /\ group'[k] = group[k]
        /\ generated' = generated
    BY <1>4 DEF Joined, TypeOK, Others
  <1>6. OneLeader(leader)'
    BY <1>4, <1>5 DEF CommonCall, OneLeader, Leader
  <1>7. AfterAnswer(leader)'
    <2>1. NoSignature' <=> NoSignature
      BY <1>5 DEF NoSignature
    <2>2. ListSigns(S)'
      BY <1>1, <1>3, <1>5, <2>1 DEF Answered, ListSigns, Others
    <2>3. Answered(leader, S)'
      BY <1>3, <1>4, <1>5, <2>2 DEF Answered, FullParty, Others
    <2> QED BY <2>3, AnsweredIs
  <1>8. WaitersGet'
    <2>1. \A k \in Nodes : wait[k] = "waiting" => sigChan'[k] = <<>>
      BY <1>4 DEF CommonCall, WaitersGet
    <2> QED BY <1>4, <1>5, <2>1, WaitersStay DEF CommonCall, waitVars
  <1>9. ResultsGood'
    BY <1>1, <1>4, <1>5, ResultsStay DEF CommonCall, Others
  <1> QED BY <1>5, <1>6, <1>7, <1>8, <1>9 DEF CommonCall, BeforeAnswer

\* A member leaves its join: to sign with the list that it is in, or, when it
\* is not, without signing.
LEMMA LeaveCommon ==
  ASSUME TypeOK, CallInv, NEW leader \in Nodes, CommonCall(leader), gen[leader] # "joining",
         NEW n \in Others(leader), gen[n] = "joining", NEW S, Answered(leader, S),
         NEW r \in {"notActive", "received"},
         \/ n \in S /\ Joined(n, S)
         \/ n \notin S /\ JoinReturns(n, r),
         UNCHANGED <<callVars, waitVars, net>>,
         \A k \in Nodes : wait[k] = "waiting" => sigChan'[k] = <<>>
  PROVE  CommonCall(leader)'
  <1>0. S \subseteq Nodes /\ n \in Nodes /\ n # leader
    BY DEF Answered, TypeOK, Others
  <1>1. /\ \A k \in Nodes \ {n} : /\ gen'[k] = gen[k] /\ party'[k] = party[k]
                                  /\ group'[k] = group[k] /\ generated'[k] = generated[k]
        /\ n \in S => gen'[n] = "signing" /\ party'[n] = S
        /\ n \notin S => gen'[n] = "done"
        /\ generated'[n] # "signed" /\ generated[n] # "signed"
    <2>1. generated[n] # "signed"
      BY <1>0 DEF CallInv, SignedStays
    <2>2. CASE n \in S /\ Joined(n, S)
      BY <1>0, <2>1, <2>2 DEF Joined, TypeOK
    <2>3. CASE n \notin S /\ JoinReturns(n, r)
      BY <1>0, <2>1, <2>3 DEF JoinReturns, TypeOK
    <2> QED BY <2>2, <2>3
  <1>2. OneLeader(leader)'
    BY <1>0, <1>1 DEF CommonCall, OneLeader, Leader, Others, callVars
  <1>3. AfterAnswer(leader)'
    <2>1. NoSignature' <=> NoSignature
      BY <1>1 DEF NoSignature
    <2>2. ListSigns(S)'
      BY <1>0, <1>1, <2>1 DEF Answered, ListSigns
    <2>3. Answered(leader, S)'
      BY <1>0, <1>1, <2>2 DEF Answered, FullParty, Others
    <2> QED BY <2>3, AnsweredIs
  <1>4. WaitersGet'
    BY <1>1, WaitersStay DEF CommonCall, waitVars
  <1>5. ResultsGood'
    <2>1. \A k \in Nodes : gen'[k] = "off" => gen[k] = "off"
      BY <1>0, <1>1
    <2> QED BY <2>1, ResultsStay DEF CommonCall, callVars
  <1> QED BY <1>0, <1>1, <1>2, <1>3, <1>4, <1>5 DEF CommonCall, BeforeAnswer

\* A member's join ends with the leader's answer: its timer does not fire while
\* the answer can come.
LEMMA MemberCommon ==
  ASSUME IInv, CallInv, faults' = 0, NEW leader \in Nodes, CommonCall(leader),
         NEW n \in Nodes, joinPartyMember(n)
  PROVE  CommonCall(leader)'
  <1>0. TypeInv /\ TypeOK /\ gen[n] = "joining" /\ group[n].leader # n
    BY DEF IInv, TypeInv, joinPartyMember
  <1>1. n \in Others(leader) /\ Leader(n) = leader /\ Leader(leader) = leader
    BY <1>0, CommonFacts DEF Others, CommonCall, OneLeader
  <1>2. PICK S : S = party[leader]
    OBVIOUS
  <1>3. gen[leader] # "joining" => Answered(leader, S)
    BY <1>2 DEF CommonCall, AfterAnswer
  <1>4. AnswerMayCome(n)
    <2>1. CASE gen[leader] = "joining"
      BY <1>1, <2>1 DEF AnswerMayCome, Joining
    <2>2. CASE gen[leader] # "joining"
      <3>1. CASE group[n].leaderResponse = GoodAnswer(S)
        BY <3>1 DEF AnswerMayCome, GoodAnswer, None
      <3>2. CASE [type |-> "answer", from |-> leader, to |-> n, body |-> GoodAnswer(S)] \in net
        BY <1>1, <3>2 DEF AnswerMayCome
      <3> QED BY <1>0, <1>1, <1>3, <2>2, <3>1, <3>2 DEF Answered
    <2> QED BY <2>1, <2>2
  <1>5. group[n].notify > 0
    BY <1>0, <1>4, TimeoutFree DEF joinPartyMember
  <1>6. group[n].leaderResponse # None
    BY <1>0, <1>1, <1>5 DEF CommonCall, OneLeader
  <1>7. gen[leader] # "joining"
    BY <1>1, <1>6 DEF CommonCall, BeforeAnswer
  <1>8. Answered(leader, S) /\ group[n].leaderResponse = GoodAnswer(S)
    BY <1>0, <1>1, <1>3, <1>6, <1>7 DEF Answered
  <1>9. MemberJoins(group[n]) /\ group[n].leaderResponse.peers = S
    <2>1. Cardinality(S) = threshold + 1
      BY <1>8 DEF Answered, FullParty
    <2>2. Cardinality(S) >= threshold
      BY <2>1, ThresholdType
    <2>3. GoodAnswer(S).peers = S /\ GoodAnswer(S).ok
      BY DEF GoodAnswer
    <2> QED BY <1>6, <1>8, <2>2, <2>3 DEF MemberJoins
  <1>10. \/ n \in S /\ Joined(n, S)
         \/ n \notin S /\ JoinReturns(n, "notActive")
    BY <1>9, Zenon DEF joinPartyMember
  <1>11. UNCHANGED <<callVars, waitVars, sigChan, net>>
    BY DEF joinPartyMember
  <1>12. \A k \in Nodes : wait[k] = "waiting" => sigChan'[k] = <<>>
    BY <1>11 DEF CommonCall, WaitersGet
  <1> QED BY <1>0, <1>1, <1>7, <1>8, <1>10, <1>11, <1>12, LeaveCommon

\* Who leaves its join with a signature from another is not in the list.
LEMMA ReceivedCommon ==
  ASSUME TypeOK, CallInv, faults = 0, NEW leader \in Nodes, CommonCall(leader),
         NEW n \in Nodes, joinSignReceived(n)
  PROVE  CommonCall(leader)'
  <1>1. /\ gen[n] = "joining" /\ sigChan[n] # <<>> /\ JoinReturns(n, "received")
        /\ UNCHANGED <<callVars, waitVars, net>>
    BY DEF joinSignReceived
  <1>2. ~ NoSignature
    BY <1>1 DEF CallInv, CallsRun
  <1>3. gen[leader] # "joining" /\ n \in Others(leader)
    BY <1>1, <1>2, CommonFacts DEF Others
  <1>4. PICK S : S = party[leader]
    OBVIOUS
  <1>5. Answered(leader, S)
    BY <1>3, <1>4 DEF CommonCall, AfterAnswer
  <1>6. n \notin S
    BY <1>1, <1>2, <1>5 DEF Answered, ListSigns
  <1>7. \A k \in Nodes : wait[k] = "waiting" => sigChan'[k] = <<>>
    <2>1. wait[n] # "waiting"
      BY <1>1 DEF CommonCall, WaitersGet
    <2>2. \A k \in Nodes \ {n} : sigChan'[k] = sigChan[k]
      BY DEF joinSignReceived, TypeOK
    <2> QED BY <2>1, <2>2 DEF CommonCall, WaitersGet
  <1> QED BY <1>1, <1>3, <1>5, <1>6, <1>7, LeaveCommon

\* The first signature is made when all members of the list have it.
LEMMA SignCommon ==
  ASSUME TypeOK, CallInv, NEW leader \in Nodes, CommonCall(leader),
         NEW n \in Nodes, SignMessage(n)
  PROVE  CommonCall(leader)'
  <1>1. PICK S : S = party[leader]
    OBVIOUS
  <1>2. gen[n] = "signing" /\ n \in S /\ party[n] = S /\ gen[leader] # "joining"
    BY <1>1, CommonFacts DEF SignMessage
  <1>3. Answered(leader, S) /\ S \subseteq Nodes
    BY <1>1, <1>2 DEF CommonCall, AfterAnswer, TypeOK
  <1>4. \A k \in S : party[k] = S /\ gen[k] # "joining"
    BY <1>2, <1>3 DEF SignMessage, CallInv, CallsRun
  <1>5. /\ gen'[n] = "done" /\ generated'[n] = "signed"
        /\ \A k \in Nodes \ {n} : gen'[k] = gen[k] /\ generated'[k] = generated[k]
        /\ net' = net \cup {[type |-> "signature", to |-> p] : p \in Others(n)}
        /\ UNCHANGED <<callVars, party, group, waitVars, sigChan>>
    BY DEF SignMessage, TypeOK
  <1>6. \A m \in net' : m \in net \/ m.type = "signature"
    BY <1>5
  <1>7. OneLeader(leader)'
    BY <1>5, <1>6 DEF CommonCall, OneLeader, Leader, Others, callVars
  <1>8. AfterAnswer(leader)'
    <2>1. ListSigns(S)'
      BY <1>3, <1>4, <1>5 DEF Answered, ListSigns
    <2>2. Answered(leader, S)'
      BY <1>3, <1>5, <1>6, <2>1 DEF Answered, FullParty, Others
    <2> QED BY <2>2, AnsweredIs
  <1>9. WaitersGet'
    <2>1. \A k \in Others(n) : \E m \in net' : m.type = "signature" /\ m.to = k
      <3> SUFFICES ASSUME NEW k \in Others(n) PROVE \E m \in net' : m.type = "signature" /\ m.to = k
        OBVIOUS
      <3>1. [type |-> "signature", to |-> k] \in net'
        BY <1>5
      <3> QED BY <3>1
    <2>2. \A k \in Nodes : wait[k] = "waiting" => sigChan[k] = <<>>
      BY DEF CommonCall, WaitersGet
    <2>3. \A k \in Nodes : wait[k] = "done" => received[k] \/ generated'[k] = "signed"
      BY <1>5 DEF CommonCall, WaitersGet
    <2>4. wait[n] = "waiting" /\ (\E m \in Others(n) : generated'[m] = "signed") =>
             \/ \E k \in net' : k.type = "signature" /\ k.to = n
             \/ handling[n]
             \/ notifier[n].signature
      BY <1>5 DEF CommonCall, WaitersGet, Others
    <2> QED BY <1>5, <2>1, <2>2, <2>3, <2>4 DEF WaitersGet, Others, waitVars
  <1>10. ResultsGood'
    <2>1. \A k \in Nodes : gen'[k] = "off" => gen[k] = "off"
      BY <1>5
    <2> QED BY <1>5, <2>1, ResultsStay DEF CommonCall, callVars
  <1>11. gen'[leader] # "joining"
    BY <1>2, <1>5
  <1> QED BY <1>7, <1>8, <1>9, <1>10, <1>11 DEF CommonCall, BeforeAnswer

\* The signing protocol does not give up while the others of the list come.
LEMMA NobodyFailsToSign ==
  ASSUME TypeOK, CallInv, faults' = 0, NEW leader \in Nodes, CommonCall(leader),
         NEW n \in Nodes, SignMessageFails(n)
  PROVE  FALSE
  <1>1. PICK S : S = party[leader]
    OBVIOUS
  <1>2. gen[n] = "signing" /\ party[n] = S /\ gen[leader] # "joining"
    BY <1>1, CommonFacts DEF SignMessageFails
  <1>3. Answered(leader, S) /\ S \subseteq Nodes
    BY <1>1, <1>2 DEF CommonCall, AfterAnswer, TypeOK
  <1>4. ASSUME NEW m \in S, gen[m] = "joining" PROVE AnswerMayCome(m)
    <2>1. m \in Others(leader) /\ Leader(m) = leader
      BY <1>2, <1>3, <1>4 DEF Others, CommonCall, OneLeader
    <2>2. CASE group[m].leaderResponse = GoodAnswer(S)
      BY <2>2 DEF AnswerMayCome, GoodAnswer, None
    <2>3. CASE [type |-> "answer", from |-> leader, to |-> m, body |-> GoodAnswer(S)] \in net
      BY <2>1, <2>3 DEF AnswerMayCome
    <2> QED BY <1>3, <1>4, <2>1, <2>2, <2>3 DEF Answered
  <1>5. PartyMayCome(n)
    BY <1>2, <1>3, <1>4 DEF PartyMayCome, Answered, ListSigns
  <1> QED BY <1>5, TimeoutFree DEF SignMessageFails

\* A step that only the waiters see.
LEMMA WaitOnly ==
  ASSUME NEW leader \in Nodes, CommonCall(leader), WaitersGet',
         UNCHANGED <<callVars, genVars>>,
         net' \subseteq net, \A m \in net : m.type = "answer" => m \in net'
  PROVE  CommonCall(leader)'
  <1> USE DEF genVars, callVars
  <1>1. OneLeader(leader)' /\ BeforeAnswer(leader)'
    BY DEF CommonCall, OneLeader, BeforeAnswer, Leader
  <1>2. NoSignature' <=> NoSignature
    BY DEF NoSignature
  <1>3. AfterAnswer(leader)'
    <2> SUFFICES ASSUME gen[leader] # "joining" PROVE AfterAnswer(leader)'
      BY DEF AfterAnswer
    <2>1. PICK S : S = party[leader]
      OBVIOUS
    <2>2. Answered(leader, S)
      BY <2>1 DEF CommonCall, AfterAnswer
    <2>3. ListSigns(S)'
      BY <1>2, <2>2 DEF Answered, ListSigns
    <2>4. Answered(leader, S)'
      BY <2>2, <2>3 DEF Answered
    <2> QED BY <2>4, AnsweredIs
  <1>4. ResultsGood'
    BY DEF CommonCall, ResultsGood
  <1> QED BY <1>1, <1>3, <1>4 DEF CommonCall

\* A waiter goes on with the signature, or when its own node has signed: a timer
\* does not fire while somebody runs or the signature is on its way.
LEMMA WaitsCommon ==
  ASSUME TypeOK, NotifierReady, CallInv, faults' = 0, NEW leader \in Nodes, CommonCall(leader),
         NEW n \in Nodes, Waits(n)
  PROVE  CommonCall(leader)'
  <1>1. UNCHANGED <<callVars, genVars, net>> /\ wait[n] = "waiting"
    BY DEF Waits, WaitGetsSignature, WaitTimesOut, WaitIsTold
  <1>2. PICK got \in BOOLEAN : WaitReturns(n, got) /\ (got \/ generated[n] = "signed")
    <2>1. CASE WaitGetsSignature(n)
      BY <2>1 DEF WaitGetsSignature
    <2>2. CASE WaitIsTold(n)
      BY <2>2 DEF WaitIsTold, CommonCall, WaitersGet
    <2>3. CASE WaitTimesOut(n)
      <3>1. ~ SignatureMayCome(n)
        BY <2>3, TimeoutFree DEF WaitTimesOut
      <3>2. gen[leader] \notin {"joining", "answering", "signing"}
        BY <3>1 DEF SignatureMayCome
      <3>3. Answered(leader, party[leader])
        BY <3>2 DEF CommonCall, AfterAnswer
      <3>4. generated[leader] = "signed"
        BY <3>2, <3>3 DEF Answered, FullParty, ListSigns
      <3>5. n = leader
        <4>1. ~ handling[n] /\ ~ notifier[n].resp /\ \A k \in net : ~ (k.type = "signature" /\ k.to = n)
          BY <3>1 DEF SignatureMayCome
        <4>2. notifier[n] \in Notifiers /\ notifier[n].awaited
          BY <1>1 DEF NotifierReady
        <4>3. ~ notifier[n].signature
          BY <4>1, <4>2 DEF NotifierReady
        <4>4. leader \notin Others(n)
          BY <1>1, <3>4, <4>1, <4>3 DEF CommonCall, WaitersGet
        <4> QED BY <4>4 DEF Others
      <3> QED BY <2>3, <3>4, <3>5 DEF WaitTimesOut
    <2> QED BY <2>1, <2>2, <2>3 DEF Waits
  <1>3. /\ wait'[n] = "done" /\ received'[n] = got
        /\ \A k \in Nodes \ {n} : /\ wait'[k] = wait[k] /\ received'[k] = received[k]
                                  /\ handling'[k] = handling[k] /\ notifier'[k] = notifier[k]
    BY <1>2 DEF WaitReturns, removeNotifier, TypeOK
  <1>4. \A k \in Nodes \ {n} : sigChan'[k] = sigChan[k]
    BY DEF Waits, WaitGetsSignature, WaitTimesOut, WaitIsTold, TypeOK
  <1>5. WaitersGet'
    BY <1>1, <1>2, <1>3, <1>4 DEF CommonCall, WaitersGet, genVars
  <1> QED BY <1>1, <1>5, WaitOnly

\* The signature moves from the network to its handler ...
LEMMA HandleCommon ==
  ASSUME TypeOK, NEW leader \in Nodes, CommonCall(leader), NEW m \in net, handleStream(m)
  PROVE  CommonCall(leader)'
  <1>1. m.to \in Nodes /\ m.type = "signature"
    BY MessageTypes DEF handleStream
  <1>2. /\ UNCHANGED <<callVars, genVars, wait, received, sigChan>> /\ net' = net \ {m}
        /\ handling'[m.to] = TRUE
        /\ \A k \in Nodes \ {m.to} : handling'[k] = handling[k] /\ notifier'[k] = notifier[k]
    BY <1>1 DEF handleStream, TypeOK
  <1>3. WaitersGet'
    BY <1>1, <1>2 DEF CommonCall, WaitersGet, genVars
  <1> QED BY <1>1, <1>2, <1>3, WaitOnly

\* ... and to the notifier.
LEMMA NotifierCommon ==
  ASSUME TypeOK, NotifierReady, NEW leader \in Nodes, CommonCall(leader),
         NEW n \in Nodes, createOrUpdateNotifier(n)
  PROVE  CommonCall(leader)'
  <1>1. /\ UNCHANGED <<callVars, genVars, wait, received, sigChan, net>>
        /\ notifier'[n] = Update(notifier[n], "signature")
        /\ \A k \in Nodes \ {n} : handling'[k] = handling[k] /\ notifier'[k] = notifier[k]
    BY DEF createOrUpdateNotifier, TypeOK
  <1>2. notifier[n] \in Notifiers
    BY DEF createOrUpdateNotifier, NotifierReady
  <1>3. notifier'[n].signature
    BY <1>1, <1>2, UpdateParts
  <1>4. WaitersGet'
    BY <1>1, <1>3 DEF CommonCall, WaitersGet, genVars
  <1> QED BY <1>1, <1>4, WaitOnly

\* Requests: they go to the leader, whose group is its own affair.
LEMMA RequestCommon ==
  ASSUME TypeOK, CallInv, NEW leader \in Nodes, CommonCall(leader),
         NEW n \in Nodes, sendRequestToLeader(n)
  PROVE  CommonCall(leader)'
  <1>1. /\ UNCHANGED <<callVars, genVars, waitVars, sigChan>>
        /\ gen[n] = "joining"
        /\ net' = net \cup {[type |-> "request", from |-> n, to |-> group[n].leader]}
    BY DEF sendRequestToLeader
  <1>2. group[n].leader = leader
    BY <1>1, CommonFacts
  <1>3. net \subseteq net' /\ \A m \in net' : m \in net \/ (m.type = "request" /\ m.to = leader)
    BY <1>1, <1>2
  <1> USE DEF genVars, callVars
  <1>4. OneLeader(leader)' /\ BeforeAnswer(leader)'
    BY <1>1, <1>3 DEF CommonCall, OneLeader, BeforeAnswer, Leader
  <1>5. AfterAnswer(leader)'
    BY <1>1, <1>3 DEF CommonCall, AfterAnswer, Answered, ListSigns, NoSignature
  <1>6. WaitersGet' /\ ResultsGood'
    BY <1>1, <1>3 DEF CommonCall, WaitersGet, ResultsGood, waitVars
  <1> QED BY <1>4, <1>5, <1>6 DEF CommonCall

LEMMA ReqMsgCommon ==
  ASSUME TypeOK, NEW leader \in Nodes, CommonCall(leader), NEW m \in net, processReqMsg(m)
  PROVE  CommonCall(leader)'
  <1>1. m.type = "request" /\ m.to = leader
    BY DEF processReqMsg, CommonCall, OneLeader
  <1>2. /\ UNCHANGED <<callVars, gen, generated, party, waitVars, sigChan>> /\ net' = net \ {m}
        /\ \A k \in Others(leader) : group'[k] = group[k]
    BY <1>1 DEF processReqMsg, TypeOK, Others
  <1>3. net' \subseteq net /\ \A k \in net : k.type # "request" => k \in net'
    BY <1>1, <1>2
  <1> USE DEF callVars
  <1>4. OneLeader(leader)' /\ BeforeAnswer(leader)'
    BY <1>2, <1>3 DEF CommonCall, OneLeader, BeforeAnswer, Leader
  <1>5. AfterAnswer(leader)'
    BY <1>2, <1>3 DEF CommonCall, AfterAnswer, Answered, ListSigns, NoSignature
  <1>6. WaitersGet' /\ ResultsGood'
    BY <1>2, <1>3 DEF CommonCall, WaitersGet, ResultsGood, waitVars
  <1> QED BY <1>4, <1>5, <1>6 DEF CommonCall

\* The leader's answer reaches a member.
LEMMA RespMsgCommon ==
  ASSUME TypeInv, CallInv, NEW leader \in Nodes, CommonCall(leader), NEW m \in net, processRespMsg(m)
  PROVE  CommonCall(leader)'
  <1> DEFINE n == m.to
  <1>0. TypeOK
    BY DEF TypeInv
  <1>1. m.type = "answer" /\ m.from = leader /\ n \in Others(leader) /\ gen[leader] # "joining"
    BY <1>0, MessageTypes DEF processRespMsg, CommonCall, OneLeader, BeforeAnswer,
                              CallInv, CountsAreRight, Others
  <1>2. PICK S : S = party[leader]
    OBVIOUS
  <1>3. Answered(leader, S) /\ m.body = GoodAnswer(S)
    BY <1>1, <1>2 DEF CommonCall, AfterAnswer, Answered
  <1>4. /\ UNCHANGED <<callVars, gen, generated, party, waitVars, sigChan>> /\ net' = net \ {m}
        /\ \A k \in Nodes \ {n} : group'[k] = group[k]
        /\ group[n] # None => group'[n] = TakeResponse(group[n], leader, GoodAnswer(S))
    BY <1>0, <1>1, <1>3 DEF processRespMsg, TypeOK, Others
  <1>5. gen[n] = "joining" => group'[n].leaderResponse = GoodAnswer(S)
    <2> SUFFICES ASSUME gen[n] = "joining" PROVE group'[n].leaderResponse = GoodAnswer(S)
      OBVIOUS
    <2>1. n \in Nodes /\ group[n] \in Groups /\ group[n].leader = leader
      BY <1>0, <1>1, CommonFacts DEF TypeInv, JoinHasGroup, Others
    <2>2. group'[n] = TakeResponse(group[n], leader, GoodAnswer(S))
      BY <1>4, <2>1, NoneType
    <2> QED BY <2>1, <2>2 DEF TakeResponse, Groups
  <1>6. net' \subseteq net /\ \A k \in net : k.to # n => k \in net'
    BY <1>4
  <1>7. GoodAnswer(S) # None
    BY DEF GoodAnswer, None
  <1>8. \A k \in net : k.type = "signature" => k \in net'
    BY <1>1, <1>4
  <1> HIDE DEF n
  <1> USE DEF callVars
  <1>9. OneLeader(leader)'
    BY <1>1, <1>4, <1>5, <1>6, <1>7 DEF CommonCall, OneLeader, Leader, Others
  <1>10. AfterAnswer(leader)'
    <2>1. ListSigns(S)'
      BY <1>3, <1>4 DEF Answered, ListSigns, NoSignature
    <2>2. \A k \in Others(leader) : gen[k] = "joining" =>
            \/ group'[k].leaderResponse = GoodAnswer(S)
            \/ /\ group'[k].leaderResponse = None
               /\ [type |-> "answer", from |-> leader, to |-> k, body |-> GoodAnswer(S)] \in net'
      BY <1>3, <1>4, <1>5, <1>6 DEF Answered, Others
    <2>3. Answered(leader, S)'
      BY <1>3, <1>4, <1>6, <2>1, <2>2 DEF Answered
    <2> QED BY <2>3, AnsweredIs
  <1>11. WaitersGet' /\ ResultsGood'
    BY <1>4, <1>8 DEF CommonCall, WaitersGet, ResultsGood, waitVars
  <1> QED BY <1>1, <1>4, <1>9, <1>10, <1>11 DEF CommonCall, BeforeAnswer

-----------------------------------------------------------------------------
\* The step of each action in the common call, in the order of Next.
LEMMA NextCommon ==
  ASSUME IInv, CallInv, Next, faults = 0, faults' = 0, NEW leader \in Nodes, CommonCall(leader)
  PROVE  CommonCall(leader)'
  <1>0. TypeInv /\ TypeOK /\ NotifierReady
    BY DEF IInv, TypeInv
  <1>1. CASE NextWindow
    BY <1>1, CommonStays DEF NextWindow
  <1>2. ASSUME NEW n \in Nodes, KeySign(n) PROVE CommonCall(leader)'
    BY <1>2 DEF KeySign, Busy, CommonCall, ResultsGood
  <1>3. ASSUME NEW n \in Nodes, Generates(n) PROVE CommonCall(leader)'
    BY <1>0, <1>3, LeaderCommon, RespondCommon, MemberCommon, ReceivedCommon, SignCommon,
       NobodyFailsToSign DEF Generates
  <1>4. ASSUME NEW n \in Nodes, Waits(n) PROVE CommonCall(leader)'
    BY <1>0, <1>4, WaitsCommon
  <1>5. ASSUME NEW n \in Nodes, Return(n) PROVE CommonCall(leader)'
    BY <1>0, <1>5, ReturnCommon
  <1>6. ASSUME NEW n \in Nodes, sendRequestToLeader(n) PROVE CommonCall(leader)'
    BY <1>0, <1>6, RequestCommon
  <1>7. ASSUME NEW n \in Nodes, createOrUpdateNotifier(n) PROVE CommonCall(leader)'
    BY <1>0, <1>7, NotifierCommon
  <1>8. ASSUME NEW n \in Nodes, cleanupStaleNotifiers(n) PROVE CommonCall(leader)'
    BY <1>8 DEF cleanupStaleNotifiers
  <1>9. ASSUME NEW m \in net, processReqMsg(m) \/ processRespMsg(m) \/ handleStream(m)
        PROVE  CommonCall(leader)'
    BY <1>0, <1>9, ReqMsgCommon, RespMsgCommon, HandleCommon
  <1>10. ASSUME NEW m \in net, Lose(m) PROVE CommonCall(leader)'
    BY <1>10 DEF Lose
  <1> QED
    BY <1>1, <1>2, <1>3, <1>4, <1>5, <1>6, <1>7, <1>8, <1>9, <1>10 DEF Next

\* A common call begins with the last member's KeySign and no other step.
LEMMA TogetherBegins ==
  ASSUME [Next]_vars, together', ~ together
  PROVE  AllJoin'
  <1>1. together' # together
    OBVIOUS
  <1>2. ASSUME NEW n \in Nodes, Generates(n) PROVE FALSE
    BY <1>1, <1>2 DEF Generates, joinPartyLeader, sendResponseToAll, joinPartyMember,
                      joinSignReceived, SignMessage, SignMessageFails, callVars
  <1>3. ASSUME NEW n \in Nodes, Waits(n) PROVE FALSE
    BY <1>1, <1>3 DEF Waits, WaitGetsSignature, WaitTimesOut, WaitIsTold, callVars
  <1>4. ASSUME NEW n \in Nodes, \/ Return(n) \/ sendRequestToLeader(n)
                                \/ createOrUpdateNotifier(n) \/ cleanupStaleNotifiers(n)
        PROVE  FALSE
    BY <1>1, <1>4 DEF Return, sendRequestToLeader, createOrUpdateNotifier, cleanupStaleNotifiers, callVars
  <1>5. ASSUME NEW m \in net, processReqMsg(m) \/ processRespMsg(m) \/ handleStream(m) \/ Lose(m)
        PROVE  FALSE
    BY <1>1, <1>5 DEF processReqMsg, processRespMsg, handleStream, Lose, callVars
  <1>6. ~ NextWindow /\ ~ UNCHANGED vars
    BY <1>1 DEF NextWindow, vars, callVars
  <1>7. PICK n \in Nodes : KeySign(n)
    BY <1>2, <1>3, <1>4, <1>5, <1>6 DEF Next
  <1> QED BY <1>7 DEF KeySign

CallsInv == IInv /\ CallInv /\ TogetherInv

LEMMA NextTogether == CallsInv /\ [Next]_vars => CallsInv'
  <1> SUFFICES ASSUME CallsInv, [Next]_vars PROVE CallsInv'
    OBVIOUS
  <1>0. IInv /\ CallInv /\ TypeOK /\ IInv' /\ CallInv'
    BY NextInv, NextCalls DEF CallsInv, IInv, TypeInv
  <1>1. ASSUME together', faults' = 0 PROVE (\E leader \in Nodes : CommonCall(leader))'
    <2>1. faults = 0
      BY <1>0, <1>1, FaultsGrow
    <2>2. CASE ~ together
      <3>1. AllJoin'
        BY <1>1, <2>2, TogetherBegins
      <3>2. TypeInv'
        BY <1>0 DEF IInv
      <3>3. (TypeInv /\ CallInv /\ AllJoin => \E leader \in Nodes : CommonCall(leader))'
        BY CommonCallStarts, PTL
      <3> QED BY <1>0, <3>1, <3>2, <3>3
    <2>3. CASE together
      <3>1. PICK leader \in Nodes : CommonCall(leader)
        BY <2>1, <2>3 DEF CallsInv, TogetherInv
      <3>2. CASE Next
        BY <1>0, <1>1, <2>1, <3>1, <3>2, NextCommon
      <3>3. CASE UNCHANGED vars
        <4>1. CommonCall(leader)'
          BY <3>1, <3>3, CommonStays DEF vars, callVars
        <4> QED BY <4>1
      <3> QED BY <3>2, <3>3
    <2> QED BY <2>2, <2>3
  <1> QED BY <1>0, <1>1 DEF CallsInv, TogetherInv

(* Once all members were joining in one window, with nothing of an earlier *)
(* call left, no member's call fails unless a message is lost or a timer   *)
(* fires early: for any number of members, windows, leaders and earlier    *)
(* calls (JoinPartyWithLeader, SignMessage, waitForSignatures).            *)
THEOREM CommonCallsSucceed == Spec => []TogetherSign
  <1>1. Init => CallsInv
    BY InitInv, InitCalls DEF CallsInv, TogetherInv, Init
  <1>2. CallsInv => TogetherSign
    BY DEF CallsInv, TogetherInv, TogetherSign, CommonCall, ResultsGood
  <1> QED BY <1>1, <1>2, NextTogether, PTL DEF Spec

=============================================================================
