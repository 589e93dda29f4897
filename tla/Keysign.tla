------------------------------ MODULE Keysign -------------------------------
(***************************************************************************)
(* One message signed by the members of a vault                            *)
(* (bifrost/tss/go-tss/tss/keysign.go, keysign/signature_notifier.go and   *)
(* notifier.go, with PartyCoordinator).  KeySign runs two goroutines: one  *)
(* joins a party and signs, the other waits for a signature that another   *)
(* node broadcasts; they talk through sigChan.  Nodes start at their own   *)
(* time, and so in different windows of the block height; a failed call is *)
(* repeated with the same message ID; messages can be lost or arrive when  *)
(* the call they belong to is over.                                        *)
(*                                                                         *)
(* The signing protocol of tss-lib is external: a member gets the          *)
(* signature when every member of the list it was given runs with the same *)
(* list, and it may give up at any time.  Signatures are valid.  A timeout *)
(* that fires while an answer can still come counts as a fault, as a lost  *)
(* message does; MaxFaults bounds them.                                    *)
(***************************************************************************)
EXTENDS PartyCoordinator, Sequences

CONSTANTS
  MaxCalls,      \* MaxCalls[n]: bound on the calls of KeySign by node n
  MaxFaults      \* bound on lost messages and early timeouts

ASSUME KeysignAssumption == MaxCalls \in [Nodes -> Nat] /\ MaxFaults \in Nat

VARIABLES
  height,    \* the block height, rounded to a window
  calls,     \* calls of KeySign so far
  window,    \* req.BlockHeight of the current call
  together,  \* history: there was a call all members made together (AllJoin)
  result,    \* what the last call returned
  gen,       \* the goroutine of generateSignature: where it is
  generated, \* and what it returned
  party,     \* the signers handed to SignMessage
  group,     \* peersGroup[msgID]
  wait,      \* the goroutine of waitForSignatures: where it is
  received,  \* and whether it returned a signature
  notifier,  \* notifiers[msgID] of the SignatureNotifier
  handling,  \* a signature is in handleStream between getNotifier and its lock
  sigChan,   \* the channel between the goroutines
  net,       \* messages on their way; equal ones are merged
  faults

callVars == <<height, calls, window, together, result>>
genVars == <<gen, generated, party, group>>
waitVars == <<wait, received, notifier, handling>>
vars == <<callVars, genVars, waitVars, sigChan, net, faults>>

\* A notifier assembles what it needs in any order: the signature, and the
\* message and the key, which come with the waiter.
newNotifier == [type |-> "notifier", signature |-> FALSE, awaited |-> FALSE, resp |-> FALSE]

Notifiers == [type : {"notifier"}, signature : BOOLEAN, awaited : BOOLEAN, resp : BOOLEAN]

Requests == [type : {"request"}, from : Nodes, to : Nodes]
Answers == [type : {"answer"}, from : Nodes, to : Nodes, body : Responses]
Signatures == [type : {"signature"}, to : Nodes]

\* One slot only: the second goroutine to send waits for a reader.
SigChanCapacityOne == 1

\* sigChan := make(chan string, 2)
SigChanCapacity == 2

Init ==
  /\ height = FirstWindow
  /\ calls = [n \in Nodes |-> 0]
  /\ window = [n \in Nodes |-> FirstWindow]
  /\ together = FALSE
  /\ result = [n \in Nodes |-> "none"]
  /\ gen = [n \in Nodes |-> "off"]
  /\ generated = [n \in Nodes |-> "none"]
  /\ party = [n \in Nodes |-> {}]
  /\ group = [n \in Nodes |-> None]
  /\ wait = [n \in Nodes |-> "off"]
  /\ received = [n \in Nodes |-> FALSE]
  /\ notifier = [n \in Nodes |-> None]
  /\ handling = [n \in Nodes |-> FALSE]
  /\ sigChan = [n \in Nodes |-> <<>>]
  /\ net = {}
  /\ faults = 0

Others(n) == Nodes \ {n}
Leader(n) == LeaderNode[window[n]]

\* Timeouts.  A timer may always fire; it counts as a fault when what the node
\* waits for can still come.
Timeout(mayCome) ==
  \/ ~mayCome /\ UNCHANGED faults
  \/ mayCome /\ faults < MaxFaults /\ faults' = faults + 1

Joining(n) == gen[n] = "joining"

\* A member that has not been counted is about to ask.
RequestMayCome(n) ==
  \E m \in Others(n) : Joining(m) /\ Leader(m) = n /\ m \notin group[n].online

\* The leader has still to answer, or its answer is on its way.
AnswerMayCome(n) ==
  \/ Joining(Leader(n)) /\ Leader(Leader(n)) = Leader(n)
  \/ \E m \in net : m.type = "answer" /\ m.to = n /\ m.from = Leader(n)
  \/ group[n].leaderResponse # None

\* Every other member of the party signs with the same list, or will.
PartyMayCome(n) ==
  \A m \in party[n] \ {n} :
    \/ party[m] = party[n] /\ gen[m] \in {"answering", "signing"}
    \/ party[m] = party[n] /\ generated[m] = "signed"
    \/ gen[m] = "joining" /\ AnswerMayCome(m)

\* Somebody joins or signs, or a signature is on its way.
SignatureMayCome(n) ==
  \/ \E m \in Nodes : gen[m] \in {"joining", "answering", "signing"}
  \/ \E m \in net : m.type = "signature" /\ m.to = n
  \/ handling[n]
  \/ notifier[n].resp

-----------------------------------------------------------------------------
(* KeySign *)

\* Update that processes a signature only when the signature comes last.
UpdateBySignature(k, part) ==
  LET new == [k EXCEPT ![part] = TRUE]
  IN  [new EXCEPT !.resp = @ \/ (new.signature /\ new.awaited /\ part = "signature")]

\* updateUnset and processSignature under the notifier's lock: with both parts
\* there and nothing processed yet, the signature goes into the channel resp.
Update(k, part) ==
  LET new == [k EXCEPT ![part] = TRUE]
  IN  [new EXCEPT !.resp = @ \/ (new.signature /\ new.awaited)]

getNotifier(n) == IF notifier[n] = None THEN newNotifier ELSE notifier[n]

Busy(n) == gen[n] # "off"

\* All members are joining in the same window, nothing has gone wrong so far, and
\* nothing of an earlier call is left: the messages on their way are requests to
\* this window's leader, and no other member's group has been touched.
AllJoin ==
  LET leader == LeaderNode[height]
  IN  /\ faults = 0
      /\ \A n \in Nodes : gen[n] = "joining" /\ window[n] = height
      /\ \A m \in net : m.type = "request" /\ m.to = leader
      /\ \A n \in Others(leader) : group[n] = newPeerStatus(leader)

\* KeySign starts its two goroutines; the signer repeats what has failed.  Their
\* first steps are here too, since a message that comes before them finds what
\* it would have found before the call: JoinPartyWithLeader creates the group,
\* WaitForSignature finds or creates the notifier and updates it.
KeySign(n) ==
  /\ ~Busy(n) /\ result[n] # "signed"
  /\ calls[n] < MaxCalls[n]
  /\ calls' = [calls EXCEPT ![n] = @ + 1]
  /\ window' = [window EXCEPT ![n] = height]
  /\ result' = [result EXCEPT ![n] = "none"]
  /\ gen' = [gen EXCEPT ![n] = "joining"]
  /\ generated' = [generated EXCEPT ![n] = "none"]
  /\ party' = [party EXCEPT ![n] = {}]
  /\ group' = [group EXCEPT ![n] = newPeerStatus(LeaderNode[height])]
  /\ wait' = [wait EXCEPT ![n] = "waiting"]
  /\ notifier' = [notifier EXCEPT ![n] = Update(getNotifier(n), "awaited")]
  /\ UNCHANGED <<height, received, sigChan, handling, net, faults>>
  /\ together' = (together \/ AllJoin')

\* Both goroutines are done (wg.Wait): a received signature is returned first,
\* then what this node generated.
Return(n) ==
  /\ gen[n] = "done" /\ wait[n] = "done"
  /\ result' = [result EXCEPT ![n] = IF received[n] \/ generated[n] = "signed" THEN "signed" ELSE "failed"]
  /\ gen' = [gen EXCEPT ![n] = "off"]
  /\ wait' = [wait EXCEPT ![n] = "off"]
  /\ received' = [received EXCEPT ![n] = FALSE]
  /\ sigChan' = [sigChan EXCEPT ![n] = <<>>]
  /\ UNCHANGED <<height, calls, window, together, generated, party, group, notifier, handling, net, faults>>

-----------------------------------------------------------------------------
(* generateSignature: join, sign, broadcast *)

\* A member asks the leader every half second; a request that would change
\* nothing now is left out, another follows.
sendRequestToLeader(n) ==
  /\ gen[n] = "joining" /\ group[n].leader # n
  /\ group[group[n].leader] # None
  /\ updatePeer(group[group[n].leader], n) # group[group[n].leader]
  /\ net' = net \cup {[type |-> "request", from |-> n, to |-> group[n].leader]}
  /\ UNCHANGED <<callVars, genVars, waitVars, sigChan, faults>>

processReqMsg(m) ==
  /\ m.type = "request"
  /\ net' = net \ {m}
  /\ group' = [group EXCEPT ![m.to] = IF @ = None THEN @ ELSE updatePeer(@, m.from)]
  /\ UNCHANGED <<callVars, gen, generated, party, waitVars, sigChan, faults>>

processRespMsg(m) ==
  /\ m.type = "answer"
  /\ net' = net \ {m}
  /\ group' = [group EXCEPT ![m.to] = IF @ = None THEN @ ELSE TakeResponse(@, m.from, m.body)]
  /\ UNCHANGED <<callVars, gen, generated, party, waitVars, sigChan, faults>>

\* The join is over: the group is removed (defer removePeerGroup) and the node
\* signs, or generateSignature returns r.
Joined(n, signers) ==
  /\ gen' = [gen EXCEPT ![n] = "signing"]
  /\ party' = [party EXCEPT ![n] = signers]
  /\ group' = [group EXCEPT ![n] = None]
  /\ UNCHANGED generated

JoinReturns(n, r) ==
  /\ gen' = [gen EXCEPT ![n] = "done"]
  /\ generated' = [generated EXCEPT ![n] = r]
  /\ group' = [group EXCEPT ![n] = None]
  /\ UNCHANGED party

\* joinPartyLeader, woken by the token or by its timer (nine tenths of the
\* members'): it answers everybody ...
joinPartyLeader(n) ==
  /\ gen[n] = "joining" /\ group[n].leader = n
  /\ \/ group[n].notify > 0 /\ UNCHANGED faults
     \/ Timeout(RequestMayCome(n))
  /\ LET answer == LeaderResponse(group[n], n)
     IN  /\ net' = net \cup {[type |-> "answer", from |-> n, to |-> p, body |-> answer] : p \in Others(n)}
         /\ party' = [party EXCEPT ![n] = IF answer.ok THEN answer.peers ELSE {}]
  /\ gen' = [gen EXCEPT ![n] = "answering"]
  /\ UNCHANGED <<callVars, generated, group, waitVars, sigChan>>

\* ... and goes on when all of them have replied, or a reply takes too long.
sendResponseToAll(n) ==
  /\ gen[n] = "answering"
  /\ Timeout(\E m \in net : m.type = "answer" /\ m.from = n)
  /\ IF party[n] # {} THEN Joined(n, party[n]) ELSE JoinReturns(n, "failed")
  /\ UNCHANGED <<callVars, waitVars, sigChan, net>>

\* joinPartyMember, woken by a token or by its timer.  A member that is not in
\* the list is not an active signer; every other error blames the leader.
joinPartyMember(n) ==
  /\ gen[n] = "joining" /\ group[n].leader # n
  /\ \/ group[n].notify > 0 /\ UNCHANGED faults
     \/ Timeout(AnswerMayCome(n))
  /\ CASE ~MemberJoins(group[n])                        -> JoinReturns(n, "failed")
       [] MemberJoins(group[n]) /\ n \in group[n].leaderResponse.peers
                                                        -> Joined(n, group[n].leaderResponse.peers)
       [] OTHER                                         -> JoinReturns(n, "notActive")
  /\ UNCHANGED <<callVars, waitVars, sigChan, net>>

\* Either of them, woken by the other goroutine, which has a signature:
\* ErrSignReceived.  A leader that leaves this way answers nobody.
joinSignReceived(n) ==
  /\ gen[n] = "joining"
  /\ sigChan[n] # <<>> /\ Head(sigChan[n]) = "signature received"
  /\ sigChan' = [sigChan EXCEPT ![n] = Tail(@)]
  /\ JoinReturns(n, "received")
  /\ UNCHANGED <<callVars, waitVars, net, faults>>

\* SignMessage returns the signature; it is broadcast to everybody.  The other
\* goroutine is not told.
SignMessage(n) ==
  /\ gen[n] = "signing"
  /\ \A m \in party[n] : party[m] = party[n] /\ gen[m] # "answering"
  /\ net' = net \cup {[type |-> "signature", to |-> p] : p \in Others(n)}
  /\ gen' = [gen EXCEPT ![n] = "done"]
  /\ generated' = [generated EXCEPT ![n] = "signed"]
  /\ UNCHANGED <<callVars, party, group, waitVars, sigChan, faults>>

\* SignMessage fails: the other goroutine is told, which takes room in sigChan.
SignMessageFails(n) ==
  /\ gen[n] = "signing"
  /\ Timeout(PartyMayCome(n))
  /\ Len(sigChan[n]) < SigChanCapacity
  /\ sigChan' = [sigChan EXCEPT ![n] = Append(@, "signature generated")]
  /\ gen' = [gen EXCEPT ![n] = "done"]
  /\ generated' = [generated EXCEPT ![n] = "failed"]
  /\ UNCHANGED <<callVars, party, group, waitVars, net>>

-----------------------------------------------------------------------------
(* SignatureNotifier *)

\* handleStream finds or creates the notifier ...
handleStream(m) ==
  /\ m.type = "signature"
  /\ net' = net \ {m}
  /\ notifier' = [notifier EXCEPT ![m.to] = getNotifier(m.to)]
  /\ handling' = [handling EXCEPT ![m.to] = TRUE]
  /\ UNCHANGED <<callVars, genVars, wait, received, sigChan, faults>>

\* ... and updates it under the notifier's own lock.
createOrUpdateNotifier(n) ==
  /\ handling[n]
  /\ handling' = [handling EXCEPT ![n] = FALSE]
  /\ notifier' = [notifier EXCEPT ![n] = Update(@, "signature")]
  /\ UNCHANGED <<callVars, genVars, wait, received, sigChan, net, faults>>

\* removeNotifier: a handler that has found the notifier before updates an
\* object nobody looks at any more.
removeNotifier(n) ==
  /\ notifier' = [notifier EXCEPT ![n] = None]
  /\ handling' = [handling EXCEPT ![n] = FALSE]

WaitReturns(n, got) ==
  /\ wait' = [wait EXCEPT ![n] = "done"]
  /\ received' = [received EXCEPT ![n] = got]
  /\ removeNotifier(n)

\* The signature is there: the joining goroutine is told, which takes room.
WaitGetsSignature(n) ==
  /\ wait[n] = "waiting" /\ notifier[n].resp
  /\ Len(sigChan[n]) < SigChanCapacity
  /\ sigChan' = [sigChan EXCEPT ![n] = Append(@, "signature received")]
  /\ WaitReturns(n, TRUE)
  /\ UNCHANGED <<callVars, genVars, net, faults>>

WaitTimesOut(n) ==
  /\ wait[n] = "waiting"
  /\ Timeout(SignatureMayCome(n))
  /\ WaitReturns(n, FALSE)
  /\ UNCHANGED <<callVars, genVars, sigChan, net>>

\* ErrSigGenerated: the signing goroutine has failed.
WaitIsTold(n) ==
  /\ wait[n] = "waiting" /\ sigChan[n] # <<>>
  /\ sigChan' = [sigChan EXCEPT ![n] = Tail(@)]
  /\ WaitReturns(n, FALSE)
  /\ UNCHANGED <<callVars, genVars, net, faults>>

\* A notifier nobody waits on is dropped when it has not been updated for its
\* time to live.
cleanupStaleNotifiers(n) ==
  /\ wait[n] # "waiting" /\ notifier[n] # None
  /\ faults < MaxFaults /\ faults' = faults + 1
  /\ removeNotifier(n)
  /\ UNCHANGED <<callVars, genVars, wait, received, sigChan, net>>

-----------------------------------------------------------------------------
\* Twenty blocks later another member leads.
NextWindow ==
  /\ height < LastWindow
  /\ height' = height + 1
  /\ UNCHANGED <<calls, window, together, result, genVars, waitVars, sigChan, net, faults>>

\* A stream that fails: the senders log the error and go on.
Lose(m) ==
  /\ faults < MaxFaults /\ faults' = faults + 1
  /\ net' = net \ {m}
  /\ UNCHANGED <<callVars, genVars, waitVars, sigChan>>

\* The two goroutines of a call.  Each of their steps brings the call closer to
\* its end.
Generates(n) ==
  \/ joinPartyLeader(n) \/ sendResponseToAll(n) \/ joinPartyMember(n) \/ joinSignReceived(n)
  \/ SignMessage(n) \/ SignMessageFails(n)

Waits(n) == WaitGetsSignature(n) \/ WaitTimesOut(n) \/ WaitIsTold(n)

Next ==
  \/ NextWindow
  \/ \E n \in Nodes :
       \/ KeySign(n)
       \/ Generates(n)
       \/ Waits(n)
       \/ Return(n)
       \/ sendRequestToLeader(n)
       \/ createOrUpdateNotifier(n)
       \/ cleanupStaleNotifiers(n)
  \/ \E m \in net : processReqMsg(m) \/ processRespMsg(m) \/ handleStream(m) \/ Lose(m)

Spec == Init /\ [][Next]_vars

-----------------------------------------------------------------------------
\* The types of the variables.
TypeOK ==
  /\ height \in Windows
  /\ together \in BOOLEAN
  /\ calls \in [Nodes -> Nat]
  /\ window \in [Nodes -> Windows]
  /\ result \in [Nodes -> {"none", "signed", "failed"}]
  /\ gen \in [Nodes -> {"off", "joining", "answering", "signing", "done"}]
  /\ generated \in [Nodes -> {"none", "signed", "failed", "notActive", "received"}]
  /\ party \in [Nodes -> SUBSET Nodes]
  /\ group \in [Nodes -> Groups \cup {None}]
  /\ wait \in [Nodes -> {"off", "waiting", "done"}]
  /\ received \in [Nodes -> BOOLEAN]
  /\ notifier \in [Nodes -> Notifiers \cup {None}]
  /\ handling \in [Nodes -> BOOLEAN]
  /\ sigChan \in [Nodes -> Seq({"signature received", "signature generated"})]
  /\ net \subseteq Requests \cup Answers \cup Signatures
  /\ faults \in 0 .. MaxFaults

\* Whoever runs the signing protocol is in the list it was given, and the list
\* has exactly the threshold + 1 members the key needs, however requests,
\* timers, late answers and repeated calls interleave: the leader counts
\* nobody twice, and nobody after it has enough (updatePeer, joinPartyLeader).
PartySize ==
  \A n \in Nodes : gen[n] = "signing" =>
    n \in party[n] /\ Cardinality(party[n]) = threshold + 1

\* A signature and its waiter find each other in either order: nobody waits on
\* a notifier that has the signature without having been handed it ("incremental
\* assembly of the required components in any order", createOrUpdateNotifier).
SignatureIsTaken ==
  \A n \in Nodes : wait[n] = "waiting" /\ notifier[n].signature => notifier[n].resp

\* Neither goroutine of KeySign ever finds sigChan full, so that wg.Wait ends:
\* the waiter's "signature received" may stay there unread when the other is
\* past its join, and there is still room for "signature generated".
SigChanRoom ==
  \A n \in Nodes : gen[n] = "signing" \/ wait[n] = "waiting" => Len(sigChan[n]) < SigChanCapacity

\* Once all members were joining in the same window, with nothing of an earlier
\* call left, no member's call fails as long as no message is lost and no timer
\* fires early: the leader finds enough members, whoever is chosen signs with
\* the same list, and the others get the signature from them, even while they
\* are still joining (JoinPartyWithLeader, waitForSignatures, broadcast).
TogetherSign == together /\ faults = 0 => \A n \in Nodes : result[n] # "failed"

=============================================================================
