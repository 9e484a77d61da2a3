----------------------------- MODULE PairingProofs -----------------------------
(***************************************************************************)
(* The safety properties of Pairing, for any devices, any number of        *)
(* identities and requests, and with files that fail and processes that    *)
(* end at any moment.                                                      *)
(***************************************************************************)
EXTENDS Pairing, FiniteSetTheorems, SequenceTheorems, TLAPS

States == {"arriving", "pending", "accepted", "rejected", "closed"}

(* The shape of the state without the bound on the pending requests.       *)
Shape ==
    /\ identity \in [Devices -> Generations]
    /\ key \in [Devices -> {"own", "gone", "other"}]
    /\ \A d \in Devices : key[d] # "own" => identity[d] < MaxGenerations
    /\ requests \in Seq(Request) /\ Len(requests) <= MaxRequests
    /\ asking \in [Devices -> 0..Len(requests)]
    /\ accepting \in [Devices -> 0..Len(requests)]
    /\ memory \in [Devices -> SUBSET Identities]
    /\ disk \in [Devices -> SUBSET Identities]
    /\ agreed \in [Devices -> SUBSET (Devices \X ({Unknown} \cup Generations))]
    /\ revoked \in [Devices -> SUBSET Identities]

(* The bounds are positive numbers.                                        *)
LEMMA BoundsAreNat ==
    /\ MaxGenerations \in Nat /\ MaxGenerations >= 1
    /\ MaxRequests \in Nat
    /\ MaxPending \in Nat /\ MaxPending >= 1
  BY PairingAssumption

-----------------------------------------------------------------------------
(* What each way of changing the requests leaves as it was.                *)

(* Who asks whom, and for which identity, never changes.                   *)
SameParties(q) ==
    /\ requests'[q].from = requests[q].from /\ requests'[q].as = requests[q].as
    /\ requests'[q].to = requests[q].to
    /\ requests'[q].expected = requests[q].expected

(* An answer changes the state and the signer of one request.              *)
LEMMA AnswerKeeps ==
    ASSUME requests \in Seq(Request), NEW r \in DOMAIN requests, NEW s \in States,
           NEW g \in {0} \cup Generations, Answer(r, s, g)
    PROVE  /\ requests' \in Seq(Request)
           /\ DOMAIN requests = 1..Len(requests) /\ DOMAIN requests' = DOMAIN requests
           /\ Len(requests') = Len(requests)
           /\ requests'[r].state = s /\ SameParties(r)
           /\ \A q \in DOMAIN requests : q # r => requests'[q] = requests[q]
  <1> DEFINE answered == [requests[r] EXCEPT !.state = s, !.by = g]
  <1>1. r \in 1..Len(requests) /\ requests[r] \in Request
    OBVIOUS
  <1>2. answered \in Request
    BY <1>1 DEF Request, States
  <1>3. requests' = [requests EXCEPT ![r] = answered]
    BY <1>1 DEF Answer, Request
  <1> HIDE DEF answered
  <1>4. /\ requests' \in Seq(Request)
        /\ Len(requests') = Len(requests)
        /\ \A j \in 1..Len(requests) : requests'[j] = IF j = r THEN answered ELSE requests[j]
    BY <1>1, <1>2, <1>3, ExceptSeq
  <1>5. /\ answered.state = s /\ answered.from = requests[r].from
        /\ answered.as = requests[r].as /\ answered.to = requests[r].to
        /\ answered.expected = requests[r].expected
    BY <1>1 DEF answered, Request
  <1>6. requests'[r] = answered
    BY <1>1, <1>4
  <1>7. DOMAIN requests = 1..Len(requests) /\ DOMAIN requests' = DOMAIN requests
    BY <1>4
  <1>8. requests'[r].state = s /\ SameParties(r)
    BY <1>5, <1>6 DEF SameParties
  <1> QED BY <1>4, <1>7, <1>8

(* Stopping the listener changes only requests that wait there.            *)
LEMMA StopKeeps ==
    ASSUME requests \in Seq(Request), NEW d \in Devices, RequestsStopped(d)
    PROVE  /\ requests' \in Seq(Request)
           /\ DOMAIN requests = 1..Len(requests) /\ DOMAIN requests' = DOMAIN requests
           /\ Len(requests') = Len(requests)
           /\ \A q \in DOMAIN requests :
                 \/ requests'[q] = requests[q]
                 \/ /\ requests[q].state \in {"arriving", "pending"}
                    /\ requests'[q].state = "closed" /\ SameParties(q)
  <1>1. DOMAIN requests = 1..Len(requests) /\ Len(requests) \in Nat
    OBVIOUS
  <1>2. \A q \in 1..Len(requests) : requests[q] \in Request
    OBVIOUS
  <1>3. \A q \in 1..Len(requests) : [requests[q] EXCEPT !.state = "closed"] \in Request
    BY <1>2 DEF Request
  <1>4. requests' \in [1..Len(requests) -> Request]
    BY <1>1, <1>2, <1>3 DEF RequestsStopped
  <1>5. requests' \in Seq(Request)
    BY <1>1, <1>4, SeqDef
  <1>6. Len(requests') = Len(requests) /\ DOMAIN requests' = DOMAIN requests
    BY <1>1, <1>4, <1>5
  <1>7. ASSUME NEW q \in DOMAIN requests, requests'[q] # requests[q]
        PROVE  /\ requests[q].state \in {"arriving", "pending"}
               /\ requests'[q].state = "closed" /\ SameParties(q)
    <2>1. /\ requests[q].state \in {"arriving", "pending"}
          /\ requests'[q] = [requests[q] EXCEPT !.state = "closed"]
      BY <1>7 DEF RequestsStopped
    <2> QED BY <1>1, <1>2, <2>1 DEF SameParties, Request
  <1> QED BY <1>1, <1>5, <1>6, <1>7

(* A new request comes after the others.                                   *)
LEMMA AppendKeeps ==
    ASSUME requests \in Seq(Request), NEW q \in Request, requests' = Append(requests, q)
    PROVE  /\ requests' \in Seq(Request)
           /\ Len(requests') = Len(requests) + 1
           /\ requests'[Len(requests')] = q
           /\ \A p \in 1..Len(requests) : requests'[p] = requests[p]
  BY AppendProperties

-----------------------------------------------------------------------------
(* What a step of Next can be, by action: the proofs below split on it.    *)
LEMMA StepCases ==
    ASSUME [Next]_vars
    PROVE  \/ \E d, e \in Devices, g \in {Unknown} \cup Generations : PairWithPeer(d, e, g)
           \/ \E d \in Devices, r \in DOMAIN requests : AcceptPairing(d, r) \/ RejectPairing(d, r)
           \/ \E d \in Devices, who \in Identities : RevokeTrustedPeer(d, who)
           \/ \E d \in Devices : \/ RestartDiscovery(d) \/ ResetIdentity(d)
                                \/ ResetIdentityFails(d) \/ ReadResponse(d)
                                \/ GiveUp(d) \/ TrustAsker(d) \/ Crash(d)
           \/ \E r \in DOMAIN requests : HandleIncoming(r)
           \/ UNCHANGED vars
  BY DEF Next, Command, Proceed

(* Everyone a device saves as trusted is an identity of a device.          *)
LEMMA SaveKeeps ==
    ASSUME NEW d \in Devices, NEW peers \in SUBSET Identities,
           memory \in [Devices -> SUBSET Identities],
           disk \in [Devices -> SUBSET Identities], Save(d, peers)
    PROVE  /\ memory' \in [Devices -> SUBSET Identities]
           /\ disk' \in [Devices -> SUBSET Identities]
  BY DEF Save

(* The shapes at the start.                                                *)
LEMMA ShapeInit == Init => Shape
  BY BoundsAreNat DEF Init, Shape, Generations, Identities

(* Every command, message, failure and restart keeps the shapes.           *)
LEMMA ShapeStep == Shape /\ [Next]_vars => Shape'
  <1> SUFFICES ASSUME Shape, [Next]_vars PROVE Shape'
    OBVIOUS
  <1> USE BoundsAreNat
  <1>1. ASSUME NEW d \in Devices, NEW e \in Devices, NEW g \in {Unknown} \cup Generations,
               PairWithPeer(d, e, g)
        PROVE  Shape'
    <2> DEFINE q == [from |-> d, as |-> identity[d], signed |-> key[d] = "own", to |-> e,
                     expected |-> g, state |-> "arriving", by |-> 0]
    <2>1. q \in Request
      BY DEF Shape, Request
    <2>2. requests' = Append(requests, q) /\ requests \in Seq(Request)
      BY <1>1 DEF PairWithPeer, Records, SignedRequest, Shape
    <2> HIDE DEF q
    <2>3. requests' \in Seq(Request) /\ Len(requests') = Len(requests) + 1
      BY <2>1, <2>2, AppendKeeps
    <2>4. Len(requests) < MaxRequests /\ Len(requests) \in Nat
      BY <1>1, <2>2 DEF PairWithPeer, Records, SignedRequest
    <2>5. /\ asking' \in [Devices -> 0..Len(requests')]
          /\ accepting' \in [Devices -> 0..Len(requests')]
      BY <1>1, <2>3, <2>4 DEF PairWithPeer, Records, SignedRequest, Shape
    <2>6. /\ agreed' \in [Devices -> SUBSET (Devices \X ({Unknown} \cup Generations))]
          /\ revoked' \in [Devices -> SUBSET Identities]
      BY <1>1 DEF PairWithPeer, Records, SignedRequest, Shape
    <2> QED BY <1>1, <2>3, <2>4, <2>5, <2>6
         DEF PairWithPeer, Records, SignedRequest, Shape, selfVars, trustVars
  <1>2. ASSUME NEW d \in Devices, NEW r \in DOMAIN requests, AcceptPairing(d, r)
        PROVE  Shape'
    <2>1. r \in 1..Len(requests) /\ requests[r] \in Request /\ requests \in Seq(Request)
      BY DEF Shape
    <2>2. <<requests[r].from, requests[r].as>> \in Identities
      BY <2>1 DEF Request, Identities
    <2>3. requests' \in Seq(Request) /\ Len(requests') = Len(requests)
      <3>1. identity[d] \in {0} \cup Generations
        BY DEF Shape
      <3>2. \E s \in States, g \in {0} \cup Generations : Answer(r, s, g)
        BY <1>2, <3>1 DEF AcceptPairing, Asker, States
      <3> QED BY <2>1, <3>2, AnswerKeeps
    <2>4. /\ agreed' \in [Devices -> SUBSET (Devices \X ({Unknown} \cup Generations))]
          /\ revoked' \in [Devices -> SUBSET Identities]
      BY <1>2, <2>2 DEF AcceptPairing, Asker, Shape, Identities
    <2>5. /\ asking' \in [Devices -> 0..Len(requests')]
          /\ accepting' \in [Devices -> 0..Len(requests')]
      <3>1. r \in 0..Len(requests)
        BY <2>1
      <3>2. accepting' \in {accepting, [accepting EXCEPT ![d] = r]}
        BY <1>2 DEF AcceptPairing, Asker
      <3>3. asking' = asking
        BY <1>2 DEF AcceptPairing, Asker
      <3> QED BY <2>3, <3>1, <3>2, <3>3 DEF Shape
    <2> QED BY <1>2, <2>3, <2>4, <2>5 DEF AcceptPairing, Asker, Shape, selfVars, trustVars
  <1>3. ASSUME NEW d \in Devices, NEW r \in DOMAIN requests, RejectPairing(d, r)
        PROVE  Shape'
    <2>1. \E s \in States, g \in {0} \cup Generations : Answer(r, s, g)
      BY <1>3 DEF RejectPairing, States
    <2>2. requests' \in Seq(Request) /\ Len(requests') = Len(requests)
      BY <2>1, AnswerKeeps DEF Shape
    <2> QED BY <1>3, <2>2 DEF RejectPairing, Shape, selfVars, trustVars
  <1>4. ASSUME NEW d \in Devices, NEW who \in Identities, RevokeTrustedPeer(d, who)
        PROVE  Shape'
    <2>1. memory[d] \ {who} \in SUBSET Identities
      BY DEF Shape
    <2>2. /\ memory' \in [Devices -> SUBSET Identities]
          /\ disk' \in [Devices -> SUBSET Identities]
      BY <1>4, <2>1, SaveKeeps DEF RevokeTrustedPeer, Shape
    <2>3. revoked' \in [Devices -> SUBSET Identities]
      BY <1>4 DEF RevokeTrustedPeer, Shape
    <2> QED BY <1>4, <2>2, <2>3 DEF RevokeTrustedPeer, Shape, selfVars
  <1>5. ASSUME NEW d \in Devices, RestartDiscovery(d)
        PROVE  Shape'
    <2>1. requests' \in Seq(Request) /\ Len(requests') = Len(requests)
      BY <1>5, StopKeeps DEF RestartDiscovery, Shape
    <2> QED BY <1>5, <2>1 DEF RestartDiscovery, Shape, trustVars
  <1>6. ASSUME NEW d \in Devices, ResetIdentity(d)
        PROVE  Shape'
    <2>1. requests' \in Seq(Request) /\ Len(requests') = Len(requests)
      BY <1>6, StopKeeps DEF ResetIdentity, Shape
    <2>2. identity' \in [Devices -> Generations]
      BY <1>6 DEF ResetIdentity, Shape, Generations
    <2>3. \A f \in Devices : key'[f] # "own" => identity'[f] < MaxGenerations
      BY <1>6 DEF ResetIdentity, Shape
    <2> QED BY <1>6, <2>1, <2>2, <2>3 DEF ResetIdentity, Shape, trustVars
  <1>7. ASSUME NEW d \in Devices, ResetIdentityFails(d)
        PROVE  Shape'
    BY <1>7 DEF ResetIdentityFails, Shape, trustVars
  <1>8. ASSUME NEW d \in Devices, ReadResponse(d)
        PROVE  Shape'
    <2> DEFINE r == asking[d]
    <2>1. r \in 1..Len(requests) /\ requests[r] \in Request
      BY <1>8 DEF ReadResponse, Shape
    <2>2. AsExpected(r) => Who(r) \in Identities
      BY <2>1 DEF AsExpected, Who, Request, Identities
    <2>3. /\ memory' \in [Devices -> SUBSET Identities]
          /\ disk' \in [Devices -> SUBSET Identities]
      <3>1. CASE AsExpected(r) /\ Save(d, memory[d] \cup {Who(r)})
        BY <2>2, <3>1, SaveKeeps DEF Shape
      <3>2. CASE UNCHANGED trustVars
        BY <3>2 DEF Shape, trustVars
      <3> QED BY <1>8, <3>1, <3>2 DEF ReadResponse
    <2>4. asking' \in [Devices -> 0..Len(requests)]
      BY <1>8 DEF ReadResponse, Shape
    <2> QED BY <1>8, <2>3, <2>4 DEF ReadResponse, Shape, selfVars
  <1>9. ASSUME NEW d \in Devices, GiveUp(d)
        PROVE  Shape'
    BY <1>9 DEF GiveUp, Shape, selfVars, trustVars
  <1>10. ASSUME NEW d \in Devices, TrustAsker(d)
         PROVE  Shape'
    <2> DEFINE r == accepting[d]
    <2>1. r \in 1..Len(requests) /\ requests[r] \in Request
      <3>1. requests \in Seq(Request) /\ r \in 0..Len(requests) BY DEF Shape
      <3>2. r # 0 BY <1>10 DEF TrustAsker
      <3> HIDE DEF r
      <3>3. Len(requests) \in Nat BY <3>1
      <3>4. r \in 1..Len(requests) BY <3>1, <3>2, <3>3
      <3> QED BY <3>1, <3>4, ElementOfSeq
    <2>2. memory[d] \cup {<<requests[r].from, requests[r].as>>} \in SUBSET Identities
      <3>1. memory[d] \subseteq Identities BY DEF Shape
      <3>2. requests[r].from \in Devices /\ requests[r].as \in Generations
        BY <2>1 DEF Request
      <3> QED BY <3>1, <3>2 DEF Identities
    <2>3. /\ memory' \in [Devices -> SUBSET Identities]
          /\ disk' \in [Devices -> SUBSET Identities]
      BY <1>10, <2>2, SaveKeeps DEF Shape, TrustAsker, Asker
    <2>4. accepting' \in [Devices -> 0..Len(requests)]
      BY <1>10 DEF TrustAsker, Asker, Shape
    <2> QED BY <1>10, <2>3, <2>4 DEF TrustAsker, Asker, Shape, selfVars
  <1>11. ASSUME NEW d \in Devices, Crash(d)
         PROVE  Shape'
    <2>1. requests' \in Seq(Request) /\ Len(requests') = Len(requests)
      BY <1>11, StopKeeps DEF Crash, LoadTrust, Shape
    <2>2. identity' \in [Devices -> Generations]
      BY <1>11 DEF Crash, LoadTrust, Shape, Generations
    <2>3. \A f \in Devices : key'[f] # "own" => identity'[f] < MaxGenerations
      BY <1>11 DEF Crash, LoadTrust, Shape
    <2> QED BY <1>11, <2>1, <2>2, <2>3 DEF Crash, LoadTrust, Shape
  <1>12. ASSUME NEW r \in DOMAIN requests, HandleIncoming(r)
         PROVE  Shape'
    <2>1. \E s \in States, g \in {0} \cup Generations : Answer(r, s, g)
      BY <1>12 DEF HandleIncoming, WellSigned, States
    <2>2. requests' \in Seq(Request) /\ Len(requests') = Len(requests)
      BY <2>1, AnswerKeeps DEF Shape
    <2> QED BY <1>12, <2>2 DEF HandleIncoming, WellSigned, Shape, selfVars, trustVars
  <1>13. CASE UNCHANGED vars
    BY <1>13 DEF vars, Shape, selfVars, trustVars
  <1> QED BY <1>1, <1>2, <1>3, <1>4, <1>5, <1>6, <1>7, <1>8, <1>9, <1>10, <1>11, <1>12,
             <1>13, StepCases

-----------------------------------------------------------------------------
(* No table of pending requests grows beyond its limit.                    *)
PendingBounded == \A d \in Devices : Cardinality(Pending(d)) <= MaxPending

(* The table of a device is finite.                                        *)
LEMMA PendingFinite ==
    ASSUME Shape, NEW d \in Devices
    PROVE  IsFiniteSet(Pending(d)) /\ Cardinality(Pending(d)) \in Nat
  <1>1. Len(requests) \in Nat /\ Pending(d) \in SUBSET (1..Len(requests))
    BY DEF Shape, Pending
  <1>2. IsFiniteSet(1..Len(requests))
    BY <1>1, FS_Interval
  <1>3. IsFiniteSet(Pending(d))
    BY <1>1, <1>2, FS_Subset
  <1> QED BY <1>3, FS_CardinalityType

(* A step that adds to no table keeps them within their limit.             *)
LEMMA PendingShrinks ==
    ASSUME Shape, PendingBounded, \A d \in Devices : Pending(d)' \subseteq Pending(d)
    PROVE  PendingBounded'
  <1> SUFFICES ASSUME NEW d \in Devices
               PROVE  Cardinality(Pending(d)') <= MaxPending
    BY DEF PendingBounded
  <1>1. Cardinality(Pending(d)) <= MaxPending
    BY DEF PendingBounded
  <1>2. IsFiniteSet(Pending(d)') /\ Cardinality(Pending(d)') <= Cardinality(Pending(d))
    BY PendingFinite, FS_Subset
  <1>3. Cardinality(Pending(d)') \in Nat
    BY <1>2, FS_CardinalityType
  <1> QED BY <1>1, <1>2, <1>3, PendingFinite, BoundsAreNat

(* An answer other than "pending" takes at most one request off a table.   *)
LEMMA AnswerShrinks ==
    ASSUME Shape, NEW r \in DOMAIN requests, NEW s \in States \ {"pending"},
           NEW g \in {0} \cup Generations, Answer(r, s, g), NEW d \in Devices
    PROVE  Pending(d)' \subseteq Pending(d)
  <1>1. requests \in Seq(Request) /\ s \in States /\ s # "pending"
    BY DEF Shape
  <1>2. /\ DOMAIN requests' = DOMAIN requests /\ requests'[r].state = s
        /\ \A q \in DOMAIN requests : q # r => requests'[q] = requests[q]
    BY <1>1, AnswerKeeps
  <1> QED BY <1>1, <1>2 DEF Pending

(* A listener that stops only takes requests out of tables.                *)
LEMMA StopShrinks ==
    ASSUME Shape, NEW e \in Devices, RequestsStopped(e), NEW d \in Devices
    PROVE  Pending(d)' \subseteq Pending(d)
  <1>1. /\ DOMAIN requests' = DOMAIN requests
        /\ \A q \in DOMAIN requests :
              requests'[q] = requests[q] \/ requests'[q].state = "closed"
    BY StopKeeps DEF Shape
  <1> QED BY <1>1 DEF Pending

(* Requests are put into a table only while it has room.                   *)
LEMMA PendingStep == Shape /\ PendingBounded /\ [Next]_vars => PendingBounded'
  <1> SUFFICES ASSUME Shape, PendingBounded, [Next]_vars PROVE PendingBounded'
    OBVIOUS
  <1>1. ASSUME NEW d \in Devices, NEW e \in Devices, NEW g \in {Unknown} \cup Generations,
               PairWithPeer(d, e, g)
        PROVE  PendingBounded'
    <2> DEFINE q == [from |-> d, as |-> identity[d], signed |-> key[d] = "own", to |-> e,
                     expected |-> g, state |-> "arriving", by |-> 0]
    <2>1. q \in Request /\ q.state = "arriving"
      BY DEF Shape, Request
    <2>2. requests' = Append(requests, q) /\ requests \in Seq(Request)
      BY <1>1 DEF PairWithPeer, Records, SignedRequest, Shape
    <2> HIDE DEF q
    <2>3. /\ requests' \in Seq(Request) /\ Len(requests') = Len(requests) + 1
          /\ requests'[Len(requests')] = q
          /\ \A p \in 1..Len(requests) : requests'[p] = requests[p]
      BY <2>1, <2>2, AppendKeeps
    <2>4. DOMAIN requests' = DOMAIN requests \cup {Len(requests')}
      BY <2>2, <2>3
    <2>5. \A f \in Devices : Pending(f)' \subseteq Pending(f)
      BY <2>1, <2>2, <2>3, <2>4 DEF Pending
    <2> QED BY <2>5, PendingShrinks
  <1>2. ASSUME NEW d \in Devices, NEW r \in DOMAIN requests,
               AcceptPairing(d, r) \/ RejectPairing(d, r)
        PROVE  PendingBounded'
    <2>1. identity[d] \in {0} \cup Generations
      BY DEF Shape
    <2>2. \E s \in States \ {"pending"}, g \in {0} \cup Generations : Answer(r, s, g)
      BY <1>2, <2>1 DEF AcceptPairing, Asker, RejectPairing, States
    <2> QED BY <2>2, AnswerShrinks, PendingShrinks
  <1>3. ASSUME NEW r \in DOMAIN requests, HandleIncoming(r)
        PROVE  PendingBounded'
    <2>1. requests[r] \in Request /\ requests[r].state = "arriving"
      BY <1>3 DEF Shape, HandleIncoming, WellSigned
    <2> PICK e \in Devices : requests[r].to = e
      BY <2>1 DEF Request
    <2>2. CASE Answer(r, "closed", 0)
      BY <2>2, AnswerShrinks, PendingShrinks DEF States
    <2>3. CASE Answer(r, "pending", 0) /\ HasRoom(e)
      <3>1. /\ DOMAIN requests' = DOMAIN requests
            /\ requests'[r].state = "pending" /\ requests'[r].to = requests[r].to
            /\ \A q \in DOMAIN requests : q # r => requests'[q] = requests[q]
        BY <2>3, AnswerKeeps DEF Shape, States, SameParties
      <3>2. \A d \in Devices : d # e => Pending(d)' = Pending(d)
        BY <2>1, <3>1 DEF Pending
      <3>3. Pending(e)' = Pending(e) \cup {r}
        BY <2>1, <3>1 DEF Pending
      <3>4. r \notin Pending(e)
        BY <2>1 DEF Pending
      <3>5. Cardinality(Pending(e)') = Cardinality(Pending(e)) + 1
        BY <3>3, <3>4, PendingFinite, FS_AddElement
      <3>6. Cardinality(Pending(e)) < MaxPending
        BY <2>3 DEF HasRoom
      <3>7. Cardinality(Pending(e)') <= MaxPending
        BY <2>1, <3>5, <3>6, PendingFinite, BoundsAreNat
      <3> QED BY <3>2, <3>7 DEF PendingBounded
    <2> QED BY <1>3, <2>2, <2>3 DEF HandleIncoming, WellSigned
  <1>4. ASSUME NEW d \in Devices, RequestsStopped(d)
        PROVE  PendingBounded'
    BY <1>4, StopShrinks, PendingShrinks
  <1>5. CASE UNCHANGED requests
    BY <1>5 DEF PendingBounded, Pending
  <1> QED BY <1>1, <1>2, <1>3, <1>4, <1>5, StepCases
          DEF RevokeTrustedPeer, RestartDiscovery, ResetIdentity, ResetIdentityFails,
              ReadResponse, GiveUp, TrustAsker, Asker, Crash, LoadTrust, vars

(* The type invariant, with the bound on every table of pending requests.  *)
THEOREM PairingTypeCorrect == Spec => []TypeOK
  <1>1. Init => Shape /\ PendingBounded
    <2>1. Init => PendingBounded
      <3> SUFFICES ASSUME Init, NEW d \in Devices
                   PROVE  Cardinality(Pending(d)) <= MaxPending
        BY DEF PendingBounded
      <3>1. Pending(d) = {}
        BY DEF Init, Pending
      <3> QED BY <3>1, FS_EmptySet, BoundsAreNat
    <2> QED BY <2>1, ShapeInit
  <1>2. Shape /\ PendingBounded /\ [Next]_vars => (Shape /\ PendingBounded)'
    BY ShapeStep, PendingStep
  <1>3. Shape /\ PendingBounded => TypeOK
    BY DEF Shape, PendingBounded, TypeOK
  <1> QED BY <1>1, <1>2, <1>3, PTL DEF Spec

-----------------------------------------------------------------------------
(* The steps other than those by which a user agrees to something.         *)
Quiet ==
    /\ UNCHANGED agreed
    /\ requests' \in Seq(Request) /\ DOMAIN requests' = DOMAIN requests
    /\ \A q \in DOMAIN requests :
          /\ SameParties(q)
          /\ requests'[q].state = "accepted" <=> requests[q].state = "accepted"
    /\ \A d \in Devices : asking'[d] \in {0, asking[d]}
    /\ \A d \in Devices : accepting'[d] \in {0, accepting[d]}

(* Two steps begin a pairing; all others agree to nothing.                 *)
LEMMA QuietSteps ==
    ASSUME Shape, [Next]_vars
    PROVE  \/ \E d, e \in Devices, g \in {Unknown} \cup Generations : PairWithPeer(d, e, g)
           \/ \E d \in Devices, r \in DOMAIN requests : AcceptPairing(d, r)
           \/ Quiet
  <1>1. requests \in Seq(Request)
    BY DEF Shape
  <1>2. ASSUME NEW r \in DOMAIN requests, NEW s \in States \ {"accepted"}, Answer(r, s, 0),
               requests[r].state \in {"arriving", "pending"}
        PROVE  /\ requests' \in Seq(Request) /\ DOMAIN requests' = DOMAIN requests
               /\ \A q \in DOMAIN requests :
                     /\ SameParties(q)
                     /\ requests'[q].state = "accepted" <=> requests[q].state = "accepted"
    <2>1. s \in States /\ s # "accepted"
      OBVIOUS
    <2>2. /\ requests' \in Seq(Request) /\ DOMAIN requests' = DOMAIN requests
          /\ requests'[r].state = s /\ SameParties(r)
          /\ \A q \in DOMAIN requests : q # r => requests'[q] = requests[q]
      BY <1>1, <1>2, <2>1, AnswerKeeps
    <2>3. \A q \in DOMAIN requests : q # r => SameParties(q)
      BY <2>2 DEF SameParties
    <2> QED BY <1>2, <2>1, <2>2, <2>3
  <1>3. ASSUME NEW d \in Devices, RequestsStopped(d)
        PROVE  /\ requests' \in Seq(Request) /\ DOMAIN requests' = DOMAIN requests
               /\ \A q \in DOMAIN requests :
                     /\ SameParties(q)
                     /\ requests'[q].state = "accepted" <=> requests[q].state = "accepted"
    BY <1>1, <1>3, StopKeeps DEF SameParties
  <1>4. ASSUME UNCHANGED requests
        PROVE  /\ requests' \in Seq(Request) /\ DOMAIN requests' = DOMAIN requests
               /\ \A q \in DOMAIN requests :
                     /\ SameParties(q)
                     /\ requests'[q].state = "accepted" <=> requests[q].state = "accepted"
    BY <1>1, <1>4 DEF SameParties
  <1>5. ASSUME NEW d \in Devices, NEW r \in DOMAIN requests, RejectPairing(d, r)
        PROVE  Quiet
    <2>1. requests[r].state = "pending"
      BY <1>5 DEF RejectPairing, Pending
    <2>2. \E s \in States \ {"accepted"} : Answer(r, s, 0)
      BY <1>5 DEF RejectPairing, States
    <2> QED BY <1>2, <1>5, <2>1, <2>2 DEF RejectPairing, Quiet
  <1>6. ASSUME NEW r \in DOMAIN requests, HandleIncoming(r)
        PROVE  Quiet
    <2>1. \E s \in States \ {"accepted"} : Answer(r, s, 0)
      BY <1>6 DEF HandleIncoming, WellSigned, States
    <2> QED BY <1>2, <1>6, <2>1 DEF HandleIncoming, WellSigned, Quiet
  <1>7. ASSUME NEW d \in Devices, NEW who \in Identities, RevokeTrustedPeer(d, who)
        PROVE  Quiet
    BY <1>4, <1>7 DEF RevokeTrustedPeer, Quiet
  <1>8. ASSUME NEW d \in Devices, RestartDiscovery(d) \/ ResetIdentity(d)
        PROVE  Quiet
    BY <1>3, <1>8 DEF RestartDiscovery, ResetIdentity, Quiet
  <1>9. ASSUME NEW d \in Devices,
               ResetIdentityFails(d) \/ ReadResponse(d) \/ GiveUp(d) \/ TrustAsker(d)
        PROVE  Quiet
    BY <1>4, <1>9 DEF ResetIdentityFails, ReadResponse, GiveUp, TrustAsker, Asker, Quiet, Shape
  <1>10. ASSUME NEW d \in Devices, Crash(d)
         PROVE  Quiet
    BY <1>3, <1>10 DEF Crash, LoadTrust, Quiet, Shape
  <1>11. CASE UNCHANGED vars
    BY <1>4, <1>11 DEF vars, Quiet
  <1> QED BY <1>5, <1>6, <1>7, <1>8, <1>9, <1>10, <1>11, StepCases

(* Behind every request is its asker's user, behind every acceptance the   *)
(* user of the device that was asked; and a command that is under way      *)
(* belongs to a request of its device.                                     *)
Consent ==
    /\ \A q \in DOMAIN requests :
          /\ <<requests[q].to, requests[q].expected>> \in agreed[requests[q].from]
          /\ requests[q].state = "accepted" =>
                <<requests[q].from, requests[q].as>> \in agreed[requests[q].to]
    /\ \A d \in Devices : asking[d] # 0 =>
          asking[d] \in DOMAIN requests /\ requests[asking[d]].from = d
    /\ \A d \in Devices : accepting[d] # 0 =>
          /\ accepting[d] \in DOMAIN requests
          /\ requests[accepting[d]].to = d /\ requests[accepting[d]].state = "accepted"

(* Every step keeps each request and command backed by its users.          *)
LEMMA ConsentStep == Shape /\ Consent /\ [Next]_vars => Consent'
  <1> SUFFICES ASSUME Shape, Consent, [Next]_vars PROVE Consent'
    OBVIOUS
  <1>1. requests \in Seq(Request) /\ DOMAIN requests = 1..Len(requests)
    BY DEF Shape
  <1>0. \A p \in DOMAIN requests : requests[p].from \in Devices /\ requests[p].to \in Devices
    <2>1. \A p \in DOMAIN requests : requests[p] \in Request
      BY <1>1
    <2> QED BY <2>1 DEF Request
  <1>2. ASSUME NEW d \in Devices, NEW e \in Devices, NEW g \in {Unknown} \cup Generations,
               PairWithPeer(d, e, g)
        PROVE  Consent'
    <2> DEFINE q == [from |-> d, as |-> identity[d], signed |-> key[d] = "own", to |-> e,
                     expected |-> g, state |-> "arriving", by |-> 0]
               n == Len(requests) + 1
    <2>1. /\ q \in Request /\ q.from = d /\ q.to = e /\ q.expected = g
          /\ q.state = "arriving"
      BY DEF Shape, Request
    <2>2. requests' = Append(requests, q)
      BY <1>2 DEF PairWithPeer, Records, SignedRequest
    <2> HIDE DEF q
    <2>3. /\ Len(requests') = n /\ requests'[n] = q
          /\ \A p \in DOMAIN requests : requests'[p] = requests[p]
          /\ DOMAIN requests' = DOMAIN requests \cup {n} /\ n # 0
      BY <1>1, <2>1, <2>2, AppendKeeps
    <2>4. /\ <<e, g>> \in agreed'[d]
          /\ \A f \in Devices : agreed[f] \subseteq agreed'[f]
      BY <1>2 DEF PairWithPeer, Records, SignedRequest, Shape
    <2>6. \A p \in DOMAIN requests' :
             /\ <<requests'[p].to, requests'[p].expected>> \in agreed'[requests'[p].from]
             /\ requests'[p].state = "accepted" =>
                   <<requests'[p].from, requests'[p].as>> \in agreed'[requests'[p].to]
      BY SMTT(60), <1>0, <2>1, <2>3, <2>4 DEF Consent
    <2>7. \A f \in Devices : asking'[f] # 0 =>
             asking'[f] \in DOMAIN requests' /\ requests'[asking'[f]].from = f
      BY <1>2, <2>1, <2>3 DEF PairWithPeer, Records, SignedRequest, Shape, Consent
    <2>8. \A f \in Devices : accepting'[f] # 0 =>
             /\ accepting'[f] \in DOMAIN requests'
             /\ requests'[accepting'[f]].to = f /\ requests'[accepting'[f]].state = "accepted"
      BY <1>2, <2>3 DEF PairWithPeer, Records, SignedRequest, Consent
    <2> QED BY <2>6, <2>7, <2>8 DEF Consent
  <1>3. ASSUME NEW d \in Devices, NEW r \in DOMAIN requests, AcceptPairing(d, r)
        PROVE  Consent'
    <2>1. requests[r].to = d /\ requests[r].state = "pending"
      BY <1>3 DEF AcceptPairing, Asker, Pending
    <2>2. /\ <<requests[r].from, requests[r].as>> \in agreed'[d]
          /\ \A f \in Devices : agreed[f] \subseteq agreed'[f]
      BY <1>3 DEF AcceptPairing, Asker, Shape
    <2>3. PICK s \in {"accepted", "closed"}, g \in {0} \cup Generations :
             /\ Answer(r, s, g)
             /\ accepting' = IF s = "accepted" THEN [accepting EXCEPT ![d] = r] ELSE accepting
      <3>1. identity[d] \in {0} \cup Generations
        BY DEF Shape
      <3> QED BY <1>3, <3>1 DEF AcceptPairing, Asker
    <2>4. s \in States
      BY DEF States
    <2>5. /\ DOMAIN requests' = DOMAIN requests
          /\ requests'[r].state = s /\ SameParties(r)
          /\ \A q \in DOMAIN requests : q # r => requests'[q] = requests[q]
      BY <1>1, <2>3, <2>4, AnswerKeeps
    <2>6. \A q \in DOMAIN requests : SameParties(q)
      BY <2>5 DEF SameParties
    <2>8. \A p \in DOMAIN requests' :
             /\ <<requests'[p].to, requests'[p].expected>> \in agreed'[requests'[p].from]
             /\ requests'[p].state = "accepted" =>
                   <<requests'[p].from, requests'[p].as>> \in agreed'[requests'[p].to]
      <3> TAKE p \in DOMAIN requests'
      <3>1. CASE p = r
        BY <1>0, <2>1, <2>2, <2>5, <2>6, <3>1 DEF Consent, SameParties
      <3>2. CASE p # r
        BY SMTT(60), <1>0, <2>2, <2>5, <3>2 DEF Consent
      <3> QED BY <3>1, <3>2
    <2>9. \A f \in Devices : asking'[f] # 0 =>
             asking'[f] \in DOMAIN requests' /\ requests'[asking'[f]].from = f
      BY <1>3, <2>5, <2>6 DEF AcceptPairing, Asker, Consent, SameParties
    <2>10. \A f \in Devices : accepting'[f] # 0 =>
             /\ accepting'[f] \in DOMAIN requests'
             /\ requests'[accepting'[f]].to = f /\ requests'[accepting'[f]].state = "accepted"
      <3> SUFFICES ASSUME NEW f \in Devices, accepting'[f] # 0
                   PROVE  /\ accepting'[f] \in DOMAIN requests
                          /\ requests'[accepting'[f]].to = f
                          /\ requests'[accepting'[f]].state = "accepted"
        BY <2>5
      <3>1. CASE f = d /\ s = "accepted"
        BY <2>1, <2>3, <2>5, <3>1 DEF SameParties, Shape
      <3>2. CASE ~(f = d /\ s = "accepted")
        <4>1. accepting'[f] = accepting[f]
          BY <2>3, <3>2 DEF Shape
        <4>2. accepting[f] # r
          BY <2>1, <4>1 DEF Consent
        <4> QED BY <2>5, <4>1, <4>2 DEF Consent
      <3> QED BY <3>1, <3>2
    <2> QED BY <2>8, <2>9, <2>10 DEF Consent
  <1>4. CASE Quiet
    <2>1. \A q \in DOMAIN requests' :
             /\ <<requests'[q].to, requests'[q].expected>> \in agreed'[requests'[q].from]
             /\ requests'[q].state = "accepted" =>
                   <<requests'[q].from, requests'[q].as>> \in agreed'[requests'[q].to]
      BY ZenonT(60), <1>0, <1>4 DEF Quiet, Consent, SameParties
    <2>2. \A d \in Devices : asking'[d] # 0 =>
             asking'[d] \in DOMAIN requests' /\ requests'[asking'[d]].from = d
      <3> SUFFICES ASSUME NEW d \in Devices, asking'[d] # 0
                   PROVE  asking'[d] \in DOMAIN requests' /\ requests'[asking'[d]].from = d
        OBVIOUS
      <3>1. asking'[d] = asking[d]
        BY <1>4 DEF Quiet
      <3> QED BY <1>4, <3>1 DEF Quiet, Consent, SameParties
    <2>3. \A d \in Devices : accepting'[d] # 0 =>
             /\ accepting'[d] \in DOMAIN requests'
             /\ requests'[accepting'[d]].to = d /\ requests'[accepting'[d]].state = "accepted"
      <3> SUFFICES ASSUME NEW d \in Devices, accepting'[d] # 0
                   PROVE  /\ accepting'[d] \in DOMAIN requests'
                          /\ requests'[accepting'[d]].to = d
                          /\ requests'[accepting'[d]].state = "accepted"
        OBVIOUS
      <3>1. accepting'[d] = accepting[d]
        BY <1>4 DEF Quiet
      <3> QED BY <1>4, <3>1 DEF Quiet, Consent, SameParties
    <2> QED BY <2>1, <2>2, <2>3 DEF Consent
  <1> QED BY <1>2, <1>3, <1>4, QuietSteps

-----------------------------------------------------------------------------
(* What a step adds to the trusted peers.                                  *)

(* A save of the trust store, whether it fails or not, adds only what it   *)
(* was to save.                                                            *)
LEMMA SaveAdds ==
    ASSUME Shape, NEW d \in Devices, NEW peers, Save(d, peers), NEW f \in Devices
    PROVE  (memory[f] \cup disk[f])' \subseteq
               memory[f] \cup disk[f] \cup (IF f = d THEN peers ELSE {})
  BY DEF Shape, Save

(* Only the end of a pairing adds to the trusted peers: the answer that a  *)
(* device waited for, or the acceptance that it has just sent.             *)
LEMMA TrustGrows ==
    ASSUME Shape, Consent, [Next]_vars, NEW d \in Devices,
           NEW who \in (memory[d] \cup disk[d])', who \notin memory[d] \cup disk[d]
    PROVE  /\ UNCHANGED <<agreed, revoked>>
           /\ \/ /\ asking[d] \in DOMAIN requests /\ requests[asking[d]].from = d
                 /\ requests[asking[d]].state = "accepted"
                 /\ AsExpected(asking[d]) /\ who = Who(asking[d])
              \/ /\ accepting[d] \in DOMAIN requests /\ requests[accepting[d]].to = d
                 /\ requests[accepting[d]].state = "accepted"
                 /\ who = <<requests[accepting[d]].from, requests[accepting[d]].as>>
  <1>1. ASSUME NEW f \in Devices, NEW peer \in Identities, RevokeTrustedPeer(f, peer)
        PROVE  FALSE
    <2>1. Save(f, memory[f] \ {peer})
      BY <1>1 DEF RevokeTrustedPeer
    <2>2. who \in memory[d] \cup disk[d] \cup (IF d = f THEN memory[f] \ {peer} ELSE {})
      BY <2>1, SaveAdds
    <2> QED BY <2>2
  <1>2. ASSUME NEW f \in Devices, Crash(f)
        PROVE  FALSE
    BY <1>2 DEF Crash, LoadTrust, Shape
  <1>3. ASSUME UNCHANGED trustVars
        PROVE  FALSE
    BY <1>3 DEF trustVars
  <1>4. ASSUME NEW f \in Devices, ReadResponse(f)
        PROVE  /\ UNCHANGED <<agreed, revoked>> /\ f = d
               /\ asking[d] # 0 /\ requests[asking[d]].state = "accepted"
               /\ AsExpected(asking[d]) /\ who = Who(asking[d])
    <2>1. /\ asking[f] # 0 /\ requests[asking[f]].state = "accepted" /\ AsExpected(asking[f])
          /\ Save(f, memory[f] \cup {Who(asking[f])})
      BY <1>3, <1>4 DEF ReadResponse
    <2>2. who \in memory[d] \cup disk[d]
                 \cup (IF d = f THEN memory[f] \cup {Who(asking[f])} ELSE {})
      BY <2>1, SaveAdds
    <2> QED BY <1>4, <2>1, <2>2 DEF ReadResponse
  <1>5. ASSUME NEW f \in Devices, TrustAsker(f)
        PROVE  /\ UNCHANGED <<agreed, revoked>> /\ f = d /\ accepting[d] # 0
               /\ who = <<requests[accepting[d]].from, requests[accepting[d]].as>>
    <2> DEFINE asker == <<requests[accepting[f]].from, requests[accepting[f]].as>>
    <2>1. accepting[f] # 0 /\ Save(f, memory[f] \cup {asker})
      BY <1>5 DEF TrustAsker, Asker
    <2>2. who \in memory[d] \cup disk[d] \cup (IF d = f THEN memory[f] \cup {asker} ELSE {})
      BY <2>1, SaveAdds
    <2> QED BY <1>5, <2>1, <2>2 DEF TrustAsker, Asker
  <1>6. \/ \E f \in Devices : ReadResponse(f) \/ TrustAsker(f)
        \/ \E f \in Devices, peer \in Identities : RevokeTrustedPeer(f, peer)
        \/ \E f \in Devices : Crash(f)
        \/ UNCHANGED trustVars
    BY StepCases DEF PairWithPeer, Records, SignedRequest, AcceptPairing, Asker,
          RejectPairing, RestartDiscovery,
          ResetIdentity, ResetIdentityFails, GiveUp, HandleIncoming, WellSigned, vars
  <1> QED BY <1>1, <1>2, <1>3, <1>4, <1>5, <1>6 DEF Consent

(* What users have agreed to is never taken back from the history.         *)
LEMMA AgreedGrows ==
    ASSUME Shape, [Next]_vars, NEW d \in Devices
    PROVE  agreed[d] \subseteq agreed'[d]
  <1>1. ASSUME NEW f \in Devices, NEW e \in Devices, NEW g \in {Unknown} \cup Generations,
               PairWithPeer(f, e, g)
        PROVE  agreed[d] \subseteq agreed'[d]
    BY <1>1 DEF PairWithPeer, Records, SignedRequest, Shape
  <1>2. ASSUME NEW f \in Devices, NEW r \in DOMAIN requests, AcceptPairing(f, r)
        PROVE  agreed[d] \subseteq agreed'[d]
    BY <1>2 DEF AcceptPairing, Asker, Shape
  <1>3. CASE Quiet
    BY <1>3 DEF Quiet
  <1> QED BY <1>1, <1>2, <1>3, QuietSteps

(* Before the first command there is nothing to agree to.                  *)
LEMMA ConsentInit == Init => Consent
  BY DEF Init, Consent

(* Only the end of a pairing adds to trust, and both users are behind it.  *)
LEMMA TrustNeedsBothStep ==
    Shape /\ Consent /\ TrustNeedsBothUsers /\ [Next]_vars => TrustNeedsBothUsers'
  <1> SUFFICES ASSUME Shape, Consent, TrustNeedsBothUsers, [Next]_vars, NEW d \in Devices,
                      NEW who \in (memory[d] \cup disk[d])'
               PROVE  /\ {who, <<who[1], Unknown>>} \cap agreed'[d] # {}
                      /\ \E g \in {Unknown} \cup Generations : <<d, g>> \in agreed'[who[1]]
    BY DEF TrustNeedsBothUsers
  <1>1. CASE who \in memory[d] \cup disk[d]
    <2>1. who[1] \in Devices
      BY <1>1 DEF Shape, Identities
    <2>2. agreed[d] \subseteq agreed'[d] /\ agreed[who[1]] \subseteq agreed'[who[1]]
      BY <2>1, AgreedGrows
    <2> QED BY <1>1, <2>2 DEF TrustNeedsBothUsers
  <1>2. CASE who \notin memory[d] \cup disk[d]
    <2>0. agreed' = agreed
      BY <1>2, TrustGrows
    <2>3. \A p \in DOMAIN requests : requests[p] \in Request
      BY DEF Shape
    <2>1. ASSUME NEW r \in DOMAIN requests, requests[r].from = d, AsExpected(r),
                 requests[r].state = "accepted", who = Who(r)
          PROVE  /\ {who, <<who[1], Unknown>>} \cap agreed[d] # {}
                 /\ \E g \in {Unknown} \cup Generations : <<d, g>> \in agreed[who[1]]
      <3>1. /\ <<requests[r].to, requests[r].expected>> \in agreed[d]
            /\ <<d, requests[r].as>> \in agreed[requests[r].to]
        BY <2>1 DEF Consent
      <3>2. who[1] = requests[r].to /\ who = <<requests[r].to, requests[r].by>>
        BY <2>1 DEF Who
      <3>3. requests[r].as \in Generations
        BY <2>3 DEF Request
      <3>4. requests[r].expected \in {Unknown, requests[r].by}
        BY <2>1 DEF AsExpected
      <3> QED BY <3>1, <3>2, <3>3, <3>4
    <2>2. ASSUME NEW r \in DOMAIN requests, requests[r].to = d,
                 requests[r].state = "accepted", who = <<requests[r].from, requests[r].as>>
          PROVE  /\ {who, <<who[1], Unknown>>} \cap agreed[d] # {}
                 /\ \E g \in {Unknown} \cup Generations : <<d, g>> \in agreed[who[1]]
      <3>1. /\ <<d, requests[r].expected>> \in agreed[requests[r].from]
            /\ who \in agreed[d] /\ who[1] = requests[r].from
        BY <2>2 DEF Consent
      <3>2. requests[r].expected \in {Unknown} \cup Generations
        BY <2>3 DEF Request
      <3> QED BY <3>1, <3>2
    <2> QED BY SMTT(60), <1>2, <2>0, <2>1, <2>2, TrustGrows
  <1> QED BY <1>1, <1>2

(* No peer is ever trusted unless the users of both devices agreed to it.  *)
THEOREM TrustIsConsensual == Spec => []TrustNeedsBothUsers
  <1>1. Init => Shape /\ Consent /\ TrustNeedsBothUsers
    BY ShapeInit, ConsentInit DEF Init, TrustNeedsBothUsers
  <1>2. Shape /\ Consent /\ TrustNeedsBothUsers /\ [Next]_vars
            => (Shape /\ Consent /\ TrustNeedsBothUsers)'
    BY ShapeStep, ConsentStep, TrustNeedsBothStep
  <1> QED BY <1>1, <1>2, PTL DEF Spec

-----------------------------------------------------------------------------
(* No pairing that is under way can end in trust for a revoked peer:       *)
(* revoking needs the lock the pairing holds, and beginning a pairing      *)
(* forgets the revocations it overrules.                                   *)
Wary ==
    /\ \A d \in Devices : asking[d] # 0 =>
          \A who \in revoked[d] :
              LET q == requests[asking[d]]
              IN  who[1] # q.to \/ (q.expected # Unknown /\ who[2] # q.expected)
    /\ \A d \in Devices : accepting[d] # 0 =>
          <<requests[accepting[d]].from, requests[accepting[d]].as>> \notin revoked[d]

(* Every step keeps running pairings away from reported revocations.       *)
LEMMA WaryStep == Shape /\ Consent /\ Wary /\ [Next]_vars => Wary'
  <1> SUFFICES ASSUME Shape, Consent, Wary, [Next]_vars PROVE Wary'
    OBVIOUS
  <1>1. requests \in Seq(Request) /\ DOMAIN requests = 1..Len(requests)
    BY DEF Shape
  <1>2. ASSUME NEW d \in Devices, NEW e \in Devices, NEW g \in {Unknown} \cup Generations,
               PairWithPeer(d, e, g)
        PROVE  Wary'
    <2> DEFINE q == [from |-> d, as |-> identity[d], signed |-> key[d] = "own", to |-> e,
                     expected |-> g, state |-> "arriving", by |-> 0]
               n == Len(requests) + 1
    <2>1. q \in Request /\ q.to = e /\ q.expected = g
      BY DEF Shape, Request
    <2>2. requests' = Append(requests, q)
      BY <1>2 DEF PairWithPeer, Records, SignedRequest
    <2> HIDE DEF q
    <2>3. /\ Len(requests') = n /\ requests'[n] = q
          /\ \A p \in DOMAIN requests : requests'[p] = requests[p]
      BY <1>1, <2>1, <2>2, AppendKeeps
    <2>4. revoked'[d] = {who \in revoked[d] : who[1] # e \/ (g # Unknown /\ who[2] # g)}
      BY <1>2 DEF PairWithPeer, Records, SignedRequest, Shape
    <2>5. \A f \in Devices : revoked'[f] \subseteq revoked[f]
      BY <1>2 DEF PairWithPeer, Records, SignedRequest, Shape
    <2>6. ASSUME NEW f \in Devices, asking'[f] # 0, NEW who \in revoked'[f]
          PROVE  LET p == requests'[asking'[f]]
                 IN  who[1] # p.to \/ (p.expected # Unknown /\ who[2] # p.expected)
      <3>1. CASE f = d
        <4>1. requests'[asking'[f]] = q
          BY <1>2, <2>3, <3>1 DEF PairWithPeer, Records, SignedRequest, Shape
        <4> QED BY <2>1, <2>4, <2>6, <3>1, <4>1
      <3>2. CASE f # d
        <4>1. asking'[f] = asking[f]
          BY <1>2, <3>2 DEF PairWithPeer, Records, SignedRequest, Shape
        <4>2. requests'[asking'[f]] = requests[asking[f]]
          BY <2>3, <2>6, <4>1 DEF Consent
        <4> QED BY <2>5, <2>6, <4>1, <4>2 DEF Wary
      <3> QED BY <3>1, <3>2
    <2>7. ASSUME NEW f \in Devices, accepting'[f] # 0
          PROVE  <<requests'[accepting'[f]].from, requests'[accepting'[f]].as>> \notin revoked'[f]
      <3>1. accepting'[f] = accepting[f]
        BY <1>2 DEF PairWithPeer, Records, SignedRequest
      <3>2. requests'[accepting'[f]] = requests[accepting[f]]
        BY <2>3, <2>7, <3>1 DEF Consent
      <3> QED BY <2>5, <2>7, <3>1, <3>2 DEF Wary
    <2> QED BY <2>6, <2>7 DEF Wary
  <1>3. ASSUME NEW d \in Devices, NEW r \in DOMAIN requests, AcceptPairing(d, r)
        PROVE  Wary'
    <2> DEFINE asker == <<requests[r].from, requests[r].as>>
    <2>1. revoked'[d] = revoked[d] \ {asker} /\ \A f \in Devices : revoked'[f] \subseteq revoked[f]
      BY <1>3 DEF AcceptPairing, Asker, Shape
    <2>2. asking' = asking /\ accepting' \in {accepting, [accepting EXCEPT ![d] = r]}
      BY <1>3 DEF AcceptPairing, Asker
    <2>3. \E s \in States, g \in {0} \cup Generations : Answer(r, s, g)
      <3>1. identity[d] \in {0} \cup Generations
        BY DEF Shape
      <3> QED BY <1>3, <3>1 DEF AcceptPairing, Asker, States
    <2>4. /\ SameParties(r)
          /\ \A q \in DOMAIN requests : q # r => requests'[q] = requests[q]
      BY <1>1, <2>3, AnswerKeeps
    <2>5. \A q \in DOMAIN requests : SameParties(q)
      BY <2>4 DEF SameParties
    <2>6. ASSUME NEW f \in Devices, asking'[f] # 0, NEW who \in revoked'[f]
          PROVE  LET p == requests'[asking'[f]]
                 IN  who[1] # p.to \/ (p.expected # Unknown /\ who[2] # p.expected)
      BY <2>1, <2>2, <2>5, <2>6 DEF Wary, Consent, SameParties
    <2>7. ASSUME NEW f \in Devices, accepting'[f] # 0
          PROVE  <<requests'[accepting'[f]].from, requests'[accepting'[f]].as>> \notin revoked'[f]
      <3>1. CASE accepting'[f] = accepting[f]
        <4>1. /\ accepting[f] \in DOMAIN requests
              /\ <<requests[accepting[f]].from, requests[accepting[f]].as>> \notin revoked[f]
          BY <2>7, <3>1 DEF Consent, Wary
        <4>2. SameParties(accepting[f])
          BY <2>5, <4>1
        <4> QED BY <2>1, <3>1, <4>1, <4>2 DEF SameParties
      <3>2. CASE f = d /\ accepting'[f] = r
        BY <2>1, <2>5, <3>2 DEF SameParties
      <3>3. accepting'[f] = accepting[f] \/ (f = d /\ accepting'[f] = r)
        BY <2>2 DEF Shape
      <3> QED BY <3>1, <3>2, <3>3
    <2> QED BY <2>6, <2>7 DEF Wary
  <1>4. ASSUME Quiet,
               \A d \in Devices : asking[d] # 0 \/ accepting[d] # 0 => revoked'[d] = revoked[d]
        PROVE  Wary'
    <2>1. ASSUME NEW f \in Devices, asking'[f] # 0, NEW who \in revoked'[f]
          PROVE  LET p == requests'[asking'[f]]
                 IN  who[1] # p.to \/ (p.expected # Unknown /\ who[2] # p.expected)
      <3>1. asking'[f] = asking[f] /\ revoked'[f] = revoked[f]
        BY <1>4, <2>1 DEF Quiet
      <3>2. asking[f] \in DOMAIN requests
        BY <2>1, <3>1 DEF Consent
      <3>3. SameParties(asking[f])
        BY <1>4, <3>2 DEF Quiet
      <3> QED BY <2>1, <3>1, <3>3 DEF Wary, SameParties
    <2>2. ASSUME NEW f \in Devices, accepting'[f] # 0
          PROVE  <<requests'[accepting'[f]].from, requests'[accepting'[f]].as>> \notin revoked'[f]
      <3>1. accepting'[f] = accepting[f] /\ revoked'[f] = revoked[f]
        BY <1>4, <2>2 DEF Quiet
      <3>2. accepting[f] \in DOMAIN requests
        BY <2>2, <3>1 DEF Consent
      <3>3. SameParties(accepting[f])
        BY <1>4, <3>2 DEF Quiet
      <3> QED BY <2>2, <3>1, <3>3 DEF Wary, SameParties
    <2> QED BY <2>1, <2>2 DEF Wary
  <1>5. \/ \E d, e \in Devices, g \in {Unknown} \cup Generations : PairWithPeer(d, e, g)
        \/ \E d \in Devices, r \in DOMAIN requests : AcceptPairing(d, r)
        \/ \A d \in Devices : asking[d] # 0 \/ accepting[d] # 0 => revoked'[d] = revoked[d]
    <2>1. ASSUME NEW d \in Devices, NEW who \in Identities, RevokeTrustedPeer(d, who)
          PROVE  \A f \in Devices : asking[f] # 0 \/ accepting[f] # 0 => revoked'[f] = revoked[f]
      BY <2>1 DEF RevokeTrustedPeer, LockFree, Shape
    <2> QED BY <2>1, StepCases DEF RejectPairing, RestartDiscovery, ResetIdentity,
              ResetIdentityFails, ReadResponse, GiveUp, TrustAsker, Asker, Crash, LoadTrust,
              HandleIncoming, WellSigned, vars
  <1> QED BY <1>2, <1>3, <1>4, <1>5, QuietSteps

(* No step brings a revoked peer back into memory or onto the disk.        *)
LEMMA RevokedStaysStep ==
    Shape /\ Consent /\ Wary /\ RevokedStaysRevoked /\ [Next]_vars => RevokedStaysRevoked'
  <1> SUFFICES ASSUME Shape, Consent, Wary, RevokedStaysRevoked, [Next]_vars,
                      NEW d \in Devices, NEW who \in (memory[d] \cup disk[d])'
               PROVE  who \notin revoked'[d]
    BY DEF RevokedStaysRevoked
  <1>1. CASE who \notin memory[d] \cup disk[d]
    <2>1. revoked' = revoked
      BY <1>1, TrustGrows
    <2>2. CASE /\ asking[d] \in DOMAIN requests /\ AsExpected(asking[d])
               /\ who = Who(asking[d])
      <3>1. asking[d] # 0
        BY <2>2 DEF Shape
      <3>2. /\ who[1] = requests[asking[d]].to /\ who[2] = requests[asking[d]].by
            /\ requests[asking[d]].expected \in {Unknown, requests[asking[d]].by}
        BY <2>2 DEF Who, AsExpected
      <3> QED BY <2>1, <3>1, <3>2 DEF Wary
    <2>3. CASE /\ accepting[d] \in DOMAIN requests
               /\ who = <<requests[accepting[d]].from, requests[accepting[d]].as>>
      <3>1. accepting[d] # 0
        BY <2>3 DEF Shape
      <3> QED BY <2>1, <2>3, <3>1 DEF Wary
    <2> QED BY <1>1, <2>2, <2>3, TrustGrows
  <1>2. CASE who \in memory[d] \cup disk[d] /\ revoked'[d] \subseteq revoked[d]
    BY <1>2 DEF RevokedStaysRevoked
  <1>3. ASSUME NEW f \in Devices, NEW peer \in Identities, RevokeTrustedPeer(f, peer),
               who \in memory[d] \cup disk[d]
        PROVE  who \notin revoked'[d]
    <2>1. CASE f # d
      BY <1>3, <2>1 DEF RevokeTrustedPeer, Shape, RevokedStaysRevoked
    <2>2. CASE f = d
      <3>1. memory'[d] = memory[d] \ {peer}
        BY <1>3, <2>2 DEF RevokeTrustedPeer, Save, Shape
      <3>2. revoked'[d] = IF disk'[d] = memory'[d] THEN revoked[d] \cup {peer} ELSE revoked[d]
        BY <1>3, <2>2 DEF RevokeTrustedPeer, Shape
      <3>3. disk'[d] \in {disk[d], memory'[d]}
        BY <1>3, <2>2, <3>1 DEF RevokeTrustedPeer, Save, Shape
      <3> QED BY <1>3, <3>1, <3>2, <3>3 DEF RevokedStaysRevoked
    <2> QED BY <2>1, <2>2
  <1>4. \/ \E f \in Devices, peer \in Identities : RevokeTrustedPeer(f, peer)
        \/ revoked'[d] \subseteq revoked[d]
    <2>1. ASSUME NEW f \in Devices, NEW e \in Devices, NEW g \in {Unknown} \cup Generations,
                 PairWithPeer(f, e, g)
          PROVE  revoked'[d] \subseteq revoked[d]
      BY <2>1 DEF PairWithPeer, Records, SignedRequest, Shape
    <2>2. ASSUME NEW f \in Devices, NEW r \in DOMAIN requests, AcceptPairing(f, r)
          PROVE  revoked'[d] \subseteq revoked[d]
      BY <2>2 DEF AcceptPairing, Asker, Shape
    <2>3. \/ \E f, e \in Devices, g \in {Unknown} \cup Generations : PairWithPeer(f, e, g)
          \/ \E f \in Devices, r \in DOMAIN requests : AcceptPairing(f, r)
          \/ \E f \in Devices, peer \in Identities : RevokeTrustedPeer(f, peer)
          \/ revoked' = revoked
      BY StepCases DEF RejectPairing, RestartDiscovery, ResetIdentity, ResetIdentityFails,
            ReadResponse, GiveUp, TrustAsker, Asker, Crash, LoadTrust,
            HandleIncoming, WellSigned, vars
    <2> QED BY <2>1, <2>2, <2>3
  <1> QED BY <1>1, <1>2, <1>3, <1>4

(* A peer whose revocation was reported as done stays out of the store and *)
(* its file until the user agrees to it once more.                         *)
THEOREM RevocationsStay == Spec => []RevokedStaysRevoked
  <1>1. Init => Shape /\ Consent /\ Wary /\ RevokedStaysRevoked
    BY ShapeInit, ConsentInit DEF Init, Wary, RevokedStaysRevoked
  <1>2. Shape /\ Consent /\ Wary /\ RevokedStaysRevoked /\ [Next]_vars
            => (Shape /\ Consent /\ Wary /\ RevokedStaysRevoked)'
    BY ShapeStep, ConsentStep, WaryStep, RevokedStaysStep
  <1> QED BY <1>1, <1>2, PTL DEF Spec
=============================================================================
