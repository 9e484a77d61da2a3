---------------------------- MODULE RelayProofs ----------------------------
(***************************************************************************)
(* Proofs about Relay.  At most one parent's connection of a branch ever    *)
(* has a route that stores pieces or takes revocations (OneRoute): while    *)
(* its job lasts the registry holds some route of the branch, so that a     *)
(* second open is a duplicate, and afterwards no open is valid.  So every   *)
(* piece a child has ever got, and every revocation acknowledged, is that   *)
(* route's.                                                                 *)
(***************************************************************************)
EXTENDS Relay, FiniteSetTheorems, TLAPS

USE DEF routeVars, relayVars, history, ThreadStates, PeerStates

(* TypeOK, but for active, which the count bounds from below.              *)
Shaped ==
    /\ clock \in 0..MaxClock
    /\ active \in Int /\ leaked \in 0..MaxSpawnFailures
    /\ thread \in [Connections -> ThreadStates]
    /\ peer \in [Connections -> PeerStates]
    /\ up \in [Connections -> Seq(Frame)]
    /\ registry \in [Branches -> Parents \cup {None}]
    /\ store \in [Parents -> [Keys -> Bodies \cup {None}]]
    /\ bytesUsed \in [Parents -> Nat]
    /\ \A r \in Parents : bytesUsed[r] <= Quota(r)
    /\ revoked \in [Parents -> BOOLEAN]
    /\ childConnected \in [Parents -> BOOLEAN]
    /\ joined \in [Children -> Parents \cup {None}]
    /\ acked \subseteq Branches
    /\ given \subseteq [branch : Branches, key : Keys, body : Bodies, late : BOOLEAN]

(* Who runs which kind of session, and what a child's thread refers to.    *)
Roles ==
    /\ \A s \in Parents : thread[s] \notin {"joining", "child"}
    /\ \A c \in Children :
          /\ thread[c] # "parent"
          /\ thread[c] \in {"joining", "child"} => joined[c] # None

-----------------------------------------------------------------------------
(* What a step may be.                                                     *)

Idles ==
    /\ clock' \in 0..MaxClock /\ clock' >= clock
    /\ UNCHANGED <<active, leaked, thread, relayVars, history>>

Leaves(s, how) ==
    /\ s \in Running /\ Finish(s, how)
    /\ CASE how = "refused" -> thread[s] \in {"handshake", "joining"}
         [] how = "ended" -> thread[s] = "parent"
         [] how = "failed" -> thread[s] \in {"parent", "child"}
    /\ UNCHANGED <<clock, leaked, relayVars, history>>

Finds(c) ==
    /\ c \in Children /\ thread[c] = "handshake" /\ registry[BranchOf[c]] # None
    /\ joined' = [joined EXCEPT ![c] = registry[BranchOf[c]]] /\ Goto(c, "joining")
    /\ UNCHANGED <<clock, active, leaked, registry, routeVars, history>>

(* The steps that change what the invariants below are about.              *)
Matters ==
    \/ \E s \in Connections :
          \/ Accept(s) \/ AcceptOverLimit(s) \/ SpawnFails(s)
          \/ \E how \in {"refused", "ended", "failed"} : Leaves(s, how)
    \/ \E s \in Parents : OpenAtCapacity(s) \/ OpenDuplicate(s) \/ OpenRoute(s)
                          \/ StorePiece(s) \/ TakeRevocation(s)
    \/ \E c \in Children : Finds(c) \/ Join(c) \/ Serve(c) \/ Deny(c) \/ ChildLeft(c)

(* Every step idles, or is one of those.                                   *)
LEMMA StepKinds == Shaped /\ [Next]_vars => Idles \/ Matters
<1> SUFFICES ASSUME Shaped, [Next]_vars PROVE Idles \/ Matters OBVIOUS
<1>0. clock \in Int /\ clock \in 0..MaxClock /\ MaxClock \in Nat
  BY RelayAssumption DEF Shaped
<1>p. Parents \subseteq Connections /\ Children \subseteq Connections BY DEF Connections
<1>1. CASE UNCHANGED vars
  BY <1>0, <1>1 DEF vars, Idles
<1>2. ASSUME NEW s \in Connections,
             Listener(s) \/ RefuseEarly(s) \/ Break(s) \/ Close(s)
      PROVE  Idles \/ Matters
  <2>1. CASE Listener(s) BY <2>1 DEF Listener, Matters
  <2>2. CASE RefuseEarly(s)
    <3>1. Leaves(s, "refused") BY <2>2 DEF RefuseEarly, Leaves, Running
    <3> QED BY <3>1 DEF Matters
  <2>3. CASE Break(s)
    <3>1. Leaves(s, "failed") BY <2>3 DEF Break, Leaves, Running
    <3> QED BY <3>1 DEF Matters
  <2>4. CASE Close(s) BY <1>0, <2>4 DEF Close, relaySide, Idles
  <2> QED BY <1>2, <2>1, <2>2, <2>3, <2>4
<1>3. ASSUME NEW s \in Parents, ParentSession(s) \/ ParentClient(s)
      PROVE  Idles \/ Matters
  <2>1. CASE OpenInvalid(s)
    <3>1. Leaves(s, "refused") BY <1>p, <2>1 DEF OpenInvalid, Leaves, Running
    <3> QED BY <1>p, <3>1 DEF Matters
  <2>2. CASE OpenAtCapacity(s) \/ OpenDuplicate(s) \/ OpenRoute(s)
             \/ StorePiece(s) \/ TakeRevocation(s)
    BY <2>2 DEF Matters
  <2>3. CASE KeepPiece(s) BY <1>0, <2>3 DEF KeepPiece, Idles
  <2>4. CASE RefusePiece(s)
    <3>1. Leaves(s, "failed") BY <1>p, <2>4 DEF RefusePiece, Leaves, Running
    <3> QED BY <1>p, <3>1 DEF Matters
  <2>5. CASE ParentLeft(s)
    <3>1. Leaves(s, "ended") BY <1>p, <2>5 DEF ParentLeft, Leaves, Running
    <3> QED BY <1>p, <3>1 DEF Matters
  <2>6. CASE ParentClient(s)
    <3>1. ASSUME NEW k \in Keys, NEW body \in Bodies, SendPiece(s, k, body) PROVE Idles
      BY <1>0, <3>1 DEF SendPiece, relaySide, Idles
    <3>2. CASE SendRevocation(s) BY <1>0, <3>2 DEF SendRevocation, relaySide, Idles
    <3> QED BY <2>6, <3>1, <3>2 DEF ParentClient
  <2> QED BY <1>3, <2>1, <2>2, <2>3, <2>4, <2>5, <2>6 DEF ParentSession
<1>4. ASSUME NEW s \in Children, ChildSession(s) \/ ChildClient(s)
      PROVE  Idles \/ Matters
  <2>1. CASE LookUpRoute(s)
    <3>1. CASE registry[BranchOf[s]] # None
      <4>1. Finds(s) BY <2>1, <3>1 DEF LookUpRoute, Finds
      <4> QED BY <4>1 DEF Matters
    <3>2. CASE registry[BranchOf[s]] = None
      <4>1. Leaves(s, "refused") BY <1>p, <2>1, <3>2 DEF LookUpRoute, Leaves, Running
      <4> QED BY <1>p, <4>1 DEF Matters
    <3> QED BY <3>1, <3>2
  <2>2. CASE Join(s) \/ Serve(s) \/ Deny(s) \/ ChildLeft(s) BY <2>2 DEF Matters
  <2>3. CASE TurnAway(s)
    <3>1. Leaves(s, "refused") BY <1>p, <2>3 DEF TurnAway, Leaves, Running
    <3> QED BY <1>p, <3>1 DEF Matters
  <2>4. CASE ServeRefused(s)
    <3>1. Leaves(s, "failed") BY <1>p, <2>4 DEF ServeRefused, Leaves, Running
    <3> QED BY <1>p, <3>1 DEF Matters
  <2>5. CASE ChildClient(s)
    <3>1. ASSUME NEW k \in Keys, Request(s, k) PROVE Idles
      BY <1>0, <3>1 DEF Request, relaySide, Idles
    <3> QED BY <2>5, <3>1 DEF ChildClient
  <2> QED BY <1>4, <2>1, <2>2, <2>3, <2>4, <2>5 DEF ChildSession
<1>5. CASE Tick BY <1>0, <1>5 DEF Tick, Idles
<1>6. CASE Over /\ UNCHANGED vars BY <1>1, <1>6
<1> QED BY <1>1, <1>2, <1>3, <1>4, <1>5, <1>6 DEF Next

-----------------------------------------------------------------------------
(* The shapes.                                                             *)

(* What the names of connections and branches are.                         *)
LEMMA Names == /\ Parents \subseteq Connections /\ Children \subseteq Connections
               /\ BranchOf \in [Connections -> Branches]
               /\ Parents \cap Children = {}
BY RelayAssumption DEF Connections

(* The quota of a route is a number.                                       *)
LEMMA QuotaIsNat == \A s \in Parents : Quota(s) \in Nat
BY Names, RelayAssumption DEF Quota

(* What the relay reads is what a client may write.                        *)
LEMMA FirstFrameTyped ==
    ASSUME Shaped, NEW s \in Connections, NEW kind, Received(s, kind)
    PROVE  /\ FirstFrame(s) \in Frame /\ Tail(up[s]) \in Seq(Frame)
           /\ kind = "piece" => /\ FirstFrame(s).key \in Keys
                                /\ FirstFrame(s).body \in Bodies
           /\ kind = "request" => FirstFrame(s).key \in Keys
<1>1. up[s] \in Seq(Frame) /\ up[s] # <<>> BY DEF Shaped, Received
<1>2. FirstFrame(s) \in Frame /\ Tail(up[s]) \in Seq(Frame) BY <1>1 DEF FirstFrame
<1>3. FirstFrame(s).kind = kind BY DEF Received
<1> QED BY <1>2, <1>3 DEF Frame, PieceFrame, RequestFrame, RevocationFrame

(* The streams and the clients' ends.                                      *)
Wired == peer \in [Connections -> PeerStates] /\ up \in [Connections -> Seq(Frame)]

(* A thread that ends clears its stream.                                   *)
LEMMA FinishWired ==
    ASSUME Wired, NEW s \in Connections, NEW how, Finish(s, how) PROVE Wired'
BY DEF Wired, Finish, Become

(* A frame that is read leaves the rest.                                   *)
LEMMA AnswerWired ==
    ASSUME Shaped, NEW s \in Connections, NEW kind, Received(s, kind),
           Consume(s), Answered(s) \/ UNCHANGED peer
    PROVE  Wired'
<1>1. Tail(up[s]) \in Seq(Frame) BY FirstFrameTyped
<1>2. up' \in [Connections -> Seq(Frame)] BY <1>1 DEF Shaped, Consume
<1>3. peer' \in [Connections -> PeerStates] BY DEF Shaped, Answered, Become
<1> QED BY <1>2, <1>3 DEF Wired

(* A client writes frames and nothing else.                                *)
LEMMA SendWired ==
    ASSUME Wired, NEW s \in Connections, NEW frame \in Frame, Send(s, frame),
           Become(s, "asking") \/ UNCHANGED peer
    PROVE  Wired'
<1>1. Append(up[s], frame) \in Seq(Frame) BY DEF Wired
<1>2. up' \in [Connections -> Seq(Frame)] BY <1>1 DEF Wired, Send
<1>3. peer' \in [Connections -> PeerStates] BY DEF Wired, Become
<1> QED BY <1>2, <1>3 DEF Wired

(* Every step leaves frames on the streams.                                *)
LEMMA NextWired == Shaped /\ [Next]_vars => Wired'
<1> SUFFICES ASSUME Shaped, [Next]_vars PROVE Wired' OBVIOUS
<1>w. Wired BY DEF Shaped, Wired
<1>1. CASE UNCHANGED <<peer, up>> BY <1>w, <1>1 DEF Wired
<1>2. ASSUME NEW s \in Connections, NEW how, Finish(s, how) PROVE Wired'
  BY <1>w, <1>2, FinishWired
<1>3. ASSUME NEW s \in Connections, UNCHANGED up,
             Become(s, "closed") \/ Accepted(s) \/ UNCHANGED peer
      PROVE  Wired'
  BY <1>w, <1>3 DEF Wired, Become, Accepted
<1>4. CASE UNCHANGED vars BY <1>1, <1>4 DEF vars
<1>5. ASSUME NEW s \in Connections,
             Listener(s) \/ RefuseEarly(s) \/ Break(s) \/ Close(s)
      PROVE  Wired'
  <2>1. CASE Listener(s)
    BY <1>3, <2>1 DEF Listener, Accept, AcceptOverLimit, SpawnFails
  <2>2. CASE RefuseEarly(s) BY <1>2, <2>2 DEF RefuseEarly
  <2>3. CASE Break(s) BY <1>2, <2>3 DEF Break
  <2>4. CASE Close(s) BY <1>3, <2>4 DEF Close
  <2> QED BY <1>5, <2>1, <2>2, <2>3, <2>4
<1>6. ASSUME NEW s \in Parents, ParentSession(s) \/ ParentClient(s) PROVE Wired'
  <2> s \in Connections BY Names
  <2>1. CASE OpenInvalid(s) BY <1>2, <2>1 DEF OpenInvalid
  <2>2. CASE OpenAtCapacity(s) BY <1>2, <2>2 DEF OpenAtCapacity
  <2>3. CASE OpenDuplicate(s) BY <1>2, <2>3 DEF OpenDuplicate
  <2>4. CASE OpenRoute(s) BY <1>3, <2>4 DEF OpenRoute
  <2>5. CASE StorePiece(s) BY <2>5, AnswerWired DEF StorePiece
  <2>6. CASE KeepPiece(s) BY <2>6, AnswerWired DEF KeepPiece
  <2>7. CASE RefusePiece(s) BY <1>2, <2>7 DEF RefusePiece
  <2>8. CASE TakeRevocation(s) BY <2>8, AnswerWired DEF TakeRevocation
  <2>9. CASE ParentLeft(s) BY <1>2, <2>9 DEF ParentLeft
  <2>10. ASSUME NEW k \in Keys, NEW body \in Bodies, SendPiece(s, k, body) PROVE Wired'
    <3>1. [kind |-> "piece", key |-> k, body |-> body] \in Frame
      BY DEF Frame, PieceFrame
    <3> QED BY <1>w, <2>10, <3>1, SendWired DEF SendPiece
  <2>11. CASE SendRevocation(s)
    <3>1. [kind |-> "revocation"] \in Frame BY DEF Frame, RevocationFrame
    <3> QED BY <1>w, <2>11, <3>1, SendWired DEF SendRevocation
  <2> QED BY <1>6, <2>1, <2>2, <2>3, <2>4, <2>5, <2>6, <2>7, <2>8, <2>9, <2>10, <2>11
          DEF ParentSession, ParentClient
<1>7. ASSUME NEW s \in Children, ChildSession(s) \/ ChildClient(s) PROVE Wired'
  <2> s \in Connections BY Names
  <2>1. CASE LookUpRoute(s) BY <1>2, <1>3, <2>1 DEF LookUpRoute
  <2>2. CASE Join(s) BY <1>3, <2>2 DEF Join
  <2>3. CASE TurnAway(s) BY <1>2, <2>3 DEF TurnAway
  <2>4. CASE Serve(s) BY <2>4, AnswerWired DEF Serve
  <2>5. CASE ServeRefused(s) BY <1>2, <2>5 DEF ServeRefused
  <2>6. CASE Deny(s) BY <1>2, <2>6 DEF Deny
  <2>7. CASE ChildLeft(s) BY <1>2, <2>7 DEF ChildLeft
  <2>8. ASSUME NEW k \in Keys, Request(s, k) PROVE Wired'
    <3>1. [kind |-> "request", key |-> k] \in Frame BY DEF Frame, RequestFrame
    <3> QED BY <1>w, <2>8, <3>1, SendWired DEF Request
  <2> QED BY <1>7, <2>1, <2>2, <2>3, <2>4, <2>5, <2>6, <2>7, <2>8
          DEF ChildSession, ChildClient
<1>8. CASE Tick BY <1>1, <1>8 DEF Tick
<1>9. CASE Over /\ UNCHANGED vars BY <1>4, <1>9
<1> QED BY <1>4, <1>5, <1>6, <1>7, <1>8, <1>9 DEF Next

(* The shapes of an idle relay.                                            *)
LEMMA InitShaped == Init => Shaped /\ Roles
<1> SUFFICES ASSUME Init PROVE Shaped /\ Roles OBVIOUS
<1>1. \A r \in Parents : bytesUsed[r] <= Quota(r) BY QuotaIsNat DEF Init
<1>2. up \in [Connections -> Seq(Frame)] BY DEF Init
<1> QED BY <1>1, <1>2, RelayAssumption DEF Init, Shaped, Roles, Connections

(* A piece that is let in leaves the store within its quota.               *)
LEMMA StoreShaped ==
    ASSUME Shaped, NEW s \in Parents, StorePiece(s)
    PROVE  /\ store' \in [Parents -> [Keys -> Bodies \cup {None}]]
           /\ bytesUsed' \in [Parents -> Nat]
           /\ \A r \in Parents : bytesUsed'[r] <= Quota(r)
<1> DEFINE k == FirstFrame(s).key
           body == FirstFrame(s).body
<1>1. k \in Keys /\ body \in Bodies
  BY Names, FirstFrameTyped DEF StorePiece
<1>2. /\ store' = [store EXCEPT ![s][k] = body]
      /\ bytesUsed' = [bytesUsed EXCEPT ![s] = @ + SizeOf[k]]
      /\ bytesUsed[s] + SizeOf[k] <= Quota(s)
  BY DEF StorePiece, Insertable
<1>3. SizeOf[k] \in Nat BY <1>1, RelayAssumption
<1> HIDE DEF k, body
<1> QED BY <1>1, <1>2, <1>3, QuotaIsNat DEF Shaped

(* What a child is given is a piece of its branch.                         *)
LEMMA ServeShaped ==
    ASSUME Shaped, Roles, NEW s \in Children, Serve(s)
    PROVE  given' \subseteq [branch : Branches, key : Keys, body : Bodies, late : BOOLEAN]
<1> DEFINE k == FirstFrame(s).key
<1>1. k \in Keys BY Names, FirstFrameTyped DEF Serve
<1>2. joined[s] \in Parents BY DEF Serve, Roles, Shaped
<1>3. store[joined[s]][k] \in Bodies \cup {None} BY <1>1, <1>2 DEF Shaped
<1>4. BranchOf[s] \in Branches BY Names
<1>5. \A body \in {store[joined[s]][k]} \ {None} :
          Gift(s, k, body) \in [branch : Branches, key : Keys, body : Bodies, late : BOOLEAN]
  BY <1>1, <1>3, <1>4 DEF Gift
<1>6. given' = given \cup {Gift(s, k, body) : body \in {store[joined[s]][k]} \ {None}}
  BY DEF Serve
<1> HIDE DEF k
<1> QED BY <1>5, <1>6 DEF Shaped

(* Every step keeps the shapes and the roles.                              *)
LEMMA NextShaped == Shaped /\ Roles /\ [Next]_vars => (Shaped /\ Roles)'
<1> SUFFICES ASSUME Shaped, Roles, [Next]_vars PROVE (Shaped /\ Roles)' OBVIOUS
<1>1. Wired' BY NextWired
<1>2. Idles \/ Matters BY StepKinds
<1>3. CASE Idles
  BY <1>1, <1>3 DEF Idles, Shaped, Roles, Wired, Quota
<1>4. ASSUME NEW s \in Connections, Accept(s) \/ AcceptOverLimit(s) \/ SpawnFails(s)
      PROVE  (Shaped /\ Roles)'
  <2>1. CASE Accept(s)
    BY <1>1, <2>1, Names DEF Accept, Shaped, Roles, Wired, Quota, Goto, Arrived
  <2>2. CASE AcceptOverLimit(s)
    BY <1>1, <2>2, Names DEF AcceptOverLimit, Shaped, Roles, Wired, Quota, Goto, Arrived
  <2>3. CASE SpawnFails(s)
    <3>1. leaked' \in 0..MaxSpawnFailures
      BY <2>3, RelayAssumption DEF SpawnFails, Shaped
    <3> QED
      BY <1>1, <2>3, <3>1, Names DEF SpawnFails, Shaped, Roles, Wired, Quota, Goto, Arrived
  <2> QED BY <1>4, <2>1, <2>2, <2>3
<1>5. ASSUME NEW s \in Connections, NEW how \in {"refused", "ended", "failed"},
             Leaves(s, how)
      PROVE  (Shaped /\ Roles)'
  BY <1>1, <1>5, Names DEF Leaves, Finish, Shaped, Roles, Wired, Quota, Goto
<1>6. ASSUME NEW s \in Parents,
             OpenAtCapacity(s) \/ OpenDuplicate(s) \/ OpenRoute(s)
      PROVE  (Shaped /\ Roles)'
  <2>1. Retained \in [Branches -> Parents \cup {None}] BY DEF Retained, Shaped
  <2>2. s \in Connections /\ BranchOf[s] \in Branches BY Names
  <2>3. CASE OpenAtCapacity(s)
    BY <1>1, <2>1, <2>2, <2>3, Names
       DEF OpenAtCapacity, Finish, Shaped, Roles, Wired, Quota, Goto
  <2>4. CASE OpenDuplicate(s)
    BY <1>1, <2>1, <2>2, <2>4, Names
       DEF OpenDuplicate, Finish, Shaped, Roles, Wired, Quota, Goto
  <2>5. CASE OpenRoute(s)
    BY <1>1, <2>1, <2>2, <2>5, Names DEF OpenRoute, Shaped, Roles, Wired, Quota, Goto
  <2> QED BY <1>6, <2>3, <2>4, <2>5
<1>7. ASSUME NEW s \in Parents, StorePiece(s) PROVE (Shaped /\ Roles)'
  BY <1>1, <1>7, StoreShaped DEF StorePiece, Shaped, Roles, Wired, Quota
<1>8. ASSUME NEW s \in Parents, TakeRevocation(s) PROVE (Shaped /\ Roles)'
  <2>1. BranchOf[s] \in Branches BY Names
  <2> QED BY <1>1, <1>8, <2>1 DEF TakeRevocation, Shaped, Roles, Wired, Quota
<1>9. ASSUME NEW c \in Children, Finds(c) PROVE (Shaped /\ Roles)'
  <2>1. registry[BranchOf[c]] \in Parents BY <1>9, Names DEF Finds, Shaped
  <2> QED
    BY <1>1, <1>9, <2>1, Names DEF Finds, Shaped, Roles, Wired, Quota, Goto
<1>10. ASSUME NEW c \in Children, Join(c) PROVE (Shaped /\ Roles)'
  BY <1>1, <1>10, Names DEF Join, Shaped, Roles, Wired, Quota, Goto
<1>11. ASSUME NEW c \in Children, Serve(c) PROVE (Shaped /\ Roles)'
  BY <1>1, <1>11, ServeShaped DEF Serve, Shaped, Roles, Wired, Quota
<1>12. ASSUME NEW c \in Children, Deny(c) \/ ChildLeft(c) PROVE (Shaped /\ Roles)'
  <2>1. /\ ChildOff(c) /\ Finish(c, "ended") /\ thread[c] = "child"
        /\ UNCHANGED <<clock, leaked, registry, store, bytesUsed, revoked, joined, history>>
    BY <1>12 DEF Deny, ChildLeft
  <2>2. childConnected' \in [Parents -> BOOLEAN] BY <2>1 DEF ChildOff, Shaped
  <2> QED
    BY <1>1, <2>1, <2>2, Names DEF Finish, Shaped, Roles, Wired, Quota, Goto
<1> QED BY <1>2, <1>3, <1>4, <1>5, <1>6, <1>7, <1>8, <1>9, <1>10, <1>11, <1>12
        DEF Matters

-----------------------------------------------------------------------------
(* The count of sessions.                                                  *)

(* The running sessions can be counted.                                    *)
LEMMA RunningFinite == IsFiniteSet(Running) /\ Cardinality(Running) \in Nat
<1>1. Running \in SUBSET Connections BY DEF Running
<1>2. IsFiniteSet(Running) BY <1>1, FS_Subset, RelayAssumption
<1> QED BY <1>2, FS_CardinalityType

(* An idle relay counts no session.                                        *)
LEMMA InitCounted == Init => SessionsCounted
<1> SUFFICES ASSUME Init PROVE SessionsCounted OBVIOUS
<1>1. Running = {} BY DEF Init, Running
<1>2. Cardinality(Running) = 0 BY <1>1, FS_EmptySet
<1> QED BY <1>2, RelayAssumption DEF Init, SessionsCounted

(* A thread that starts adds a place, one that ends gives one back.        *)
LEMMA NextCounted ==
    Shaped /\ Roles /\ SessionsCounted /\ [Next]_vars => SessionsCounted'
<1> SUFFICES ASSUME Shaped, Roles, SessionsCounted, [Next]_vars PROVE SessionsCounted'
  OBVIOUS
<1>0. /\ Cardinality(Running) \in Nat /\ leaked \in Nat /\ MaxActive \in Nat
      /\ active = Cardinality(Running) + leaked /\ active <= MaxActive
  BY RunningFinite, RelayAssumption DEF Shaped, SessionsCounted
<1>1. ASSUME Running' = Running, UNCHANGED <<active, leaked>> PROVE SessionsCounted'
  BY <1>0, <1>1 DEF SessionsCounted
<1>2. ASSUME NEW s \in Running, NEW how \in {"refused", "ended", "failed"},
             Finish(s, how), UNCHANGED leaked
      PROVE  SessionsCounted'
  <2>1. Running' = Running \ {s} BY <1>2 DEF Running, Finish, Goto, Shaped
  <2>2. Cardinality(Running \ {s}) = Cardinality(Running) - 1
    BY <1>2, RunningFinite, FS_RemoveElement
  <2> QED BY <1>0, <1>2, <2>1, <2>2 DEF SessionsCounted, Finish
<1>3. Idles \/ Matters BY StepKinds
<1>4. CASE Idles BY <1>1, <1>4 DEF Idles, Running
<1>5. ASSUME NEW s \in Connections, Accept(s) PROVE SessionsCounted'
  <2>1. s \notin Running BY <1>5 DEF Accept, Arrived, Running
  <2>2. Running' = Running \cup {s} BY <1>5 DEF Accept, Running, Goto, Shaped
  <2>3. Cardinality(Running \cup {s}) = Cardinality(Running) + 1
    BY <2>1, RunningFinite, FS_AddElement
  <2> QED BY <1>0, <1>5, <2>2, <2>3 DEF SessionsCounted, Accept, PlaceFree
<1>6. ASSUME NEW s \in Connections, AcceptOverLimit(s) PROVE SessionsCounted'
  <2>1. Running' = Running BY <1>6 DEF AcceptOverLimit, Arrived, Running, Goto, Shaped
  <2> QED BY <1>1, <1>6, <2>1 DEF AcceptOverLimit
<1>7. ASSUME NEW s \in Connections, SpawnFails(s) PROVE SessionsCounted'
  <2>1. Running' = Running BY <1>7 DEF SpawnFails, Arrived, Running, Goto, Shaped
  <2> QED BY <1>0, <1>7, <2>1 DEF SessionsCounted, SpawnFails, PlaceFree
<1>8. ASSUME NEW s \in Connections, NEW how \in {"refused", "ended", "failed"},
             Leaves(s, how)
      PROVE  SessionsCounted'
  BY <1>2, <1>8 DEF Leaves
<1>9. ASSUME NEW s \in Parents, OpenAtCapacity(s) \/ OpenDuplicate(s)
      PROVE  SessionsCounted'
  <2>1. s \in Running
    BY <1>9, Names DEF OpenAtCapacity, OpenDuplicate, Running
  <2> QED BY <1>2, <1>9, <2>1 DEF OpenAtCapacity, OpenDuplicate
<1>10. ASSUME NEW s \in Parents, OpenRoute(s) PROVE SessionsCounted'
  <2>1. Running' = Running BY <1>10, Names DEF OpenRoute, Running, Goto, Shaped
  <2> QED BY <1>1, <1>10, <2>1 DEF OpenRoute
<1>11. ASSUME NEW s \in Parents, StorePiece(s) \/ TakeRevocation(s)
       PROVE  SessionsCounted'
  BY <1>1, <1>11 DEF StorePiece, TakeRevocation, Running
<1>12. ASSUME NEW c \in Children, Finds(c) \/ Join(c) PROVE SessionsCounted'
  <2>1. Running' = Running BY <1>12, Names DEF Finds, Join, Running, Goto, Shaped
  <2> QED BY <1>1, <1>12, <2>1 DEF Finds, Join
<1>13. ASSUME NEW c \in Children, Serve(c) PROVE SessionsCounted'
  BY <1>1, <1>13 DEF Serve, Running
<1>14. ASSUME NEW c \in Children, Deny(c) \/ ChildLeft(c) PROVE SessionsCounted'
  <2>1. c \in Running BY <1>14, Names DEF Deny, ChildLeft, Running
  <2> QED BY <1>2, <1>14, <2>1 DEF Deny, ChildLeft
<1> QED BY <1>3, <1>4, <1>5, <1>6, <1>7, <1>8, <1>9, <1>10, <1>11, <1>12, <1>13, <1>14
        DEF Matters

-----------------------------------------------------------------------------
(* The flag that keeps a second child out.                                 *)

(* A child that has, or by an error still seems to have, its route.        *)
Keeps(c, r) == joined[c] = r /\ thread[c] \in {"child", "failed"}

OneKeeps == \A r \in Parents : \A c, d \in Children : Keeps(c, r) /\ Keeps(d, r) => c = d

FlagTells == \A r \in Parents : childConnected[r] <=> \E c \in Children : Keeps(c, r)

(* No child, and no flag.                                                  *)
LEMMA InitFlag == Init => OneKeeps /\ FlagTells
BY Names DEF Init, OneKeeps, FlagTells, Keeps

(* Only joining raises the flag, only the child that raised it lowers it.  *)
LEMMA NextFlag ==
    Shaped /\ Roles /\ OneKeeps /\ FlagTells /\ [Next]_vars => (OneKeeps /\ FlagTells)'
<1> SUFFICES ASSUME Shaped, Roles, OneKeeps, FlagTells, [Next]_vars
             PROVE  (OneKeeps /\ FlagTells)'
  OBVIOUS
<1>1. ASSUME UNCHANGED childConnected,
             \A c \in Children, r \in Parents : Keeps(c, r)' <=> Keeps(c, r)
      PROVE  (OneKeeps /\ FlagTells)'
  BY <1>1 DEF OneKeeps, FlagTells
<1>2. ASSUME NEW s \in Connections, NEW label, Goto(s, label),
             UNCHANGED <<childConnected, joined>>,
             \/ s \notin Children
             \/ thread[s] \in {"child", "failed"} <=> label \in {"child", "failed"}
      PROVE  (OneKeeps /\ FlagTells)'
  <2>1. ASSUME NEW c \in Children, NEW r \in Parents PROVE Keeps(c, r)' <=> Keeps(c, r)
    BY <1>2, <2>1, Names DEF Keeps, Goto, Shaped
  <2> QED BY <1>1, <1>2, <2>1
<1>3. ASSUME UNCHANGED <<childConnected, joined, thread>> PROVE (OneKeeps /\ FlagTells)'
  BY <1>1, <1>3 DEF Keeps
<1>4. Idles \/ Matters BY StepKinds
<1>5. CASE Idles BY <1>3, <1>5 DEF Idles
<1>6. ASSUME NEW s \in Connections, Accept(s) \/ AcceptOverLimit(s) \/ SpawnFails(s)
      PROVE  (OneKeeps /\ FlagTells)'
  <2>1. thread[s] = "none" BY <1>6 DEF Accept, AcceptOverLimit, SpawnFails, Arrived
  <2>2. UNCHANGED <<childConnected, joined>>
    BY <1>6 DEF Accept, AcceptOverLimit, SpawnFails
  <2>3. Goto(s, "handshake") \/ Goto(s, "refused")
    BY <1>6 DEF Accept, AcceptOverLimit, SpawnFails
  <2> QED BY <1>2, <2>1, <2>2, <2>3
<1>7. ASSUME NEW s \in Connections, NEW how \in {"refused", "ended", "failed"},
             Leaves(s, how)
      PROVE  (OneKeeps /\ FlagTells)'
  <2>1. s \in Parents \/ s \in Children BY DEF Connections
  <2>2. s \in Children => thread[s] # "parent" BY DEF Roles
  <2>3. Goto(s, how) /\ UNCHANGED <<childConnected, joined>> BY <1>7 DEF Leaves, Finish
  <2>4. \/ s \notin Children
        \/ thread[s] \in {"child", "failed"} <=> how \in {"child", "failed"}
    BY <1>7, <2>2 DEF Leaves
  <2> QED BY <1>2, <2>3, <2>4
<1>8. ASSUME NEW s \in Parents, OpenAtCapacity(s) \/ OpenDuplicate(s) \/ OpenRoute(s)
      PROVE  (OneKeeps /\ FlagTells)'
  <2>1. s \in Connections /\ s \notin Children BY Names
  <2>2. UNCHANGED <<childConnected, joined>>
    BY <1>8 DEF OpenAtCapacity, OpenDuplicate, OpenRoute
  <2>3. Goto(s, "refused") \/ Goto(s, "parent")
    BY <1>8 DEF OpenAtCapacity, OpenDuplicate, OpenRoute, Finish
  <2> QED BY <1>2, <2>1, <2>2, <2>3
<1>9. ASSUME NEW s \in Parents, StorePiece(s) \/ TakeRevocation(s)
      PROVE  (OneKeeps /\ FlagTells)'
  BY <1>3, <1>9 DEF StorePiece, TakeRevocation
<1>10. ASSUME NEW c \in Children, Finds(c) PROVE (OneKeeps /\ FlagTells)'
  <2>1. ASSUME NEW d \in Children, NEW r \in Parents PROVE Keeps(d, r)' <=> Keeps(d, r)
    BY <1>10, <2>1, Names DEF Keeps, Finds, Goto, Shaped
  <2> QED BY <1>1, <1>10, <2>1 DEF Finds
<1>11. ASSUME NEW c \in Children, Join(c) PROVE (OneKeeps /\ FlagTells)'
  <2> DEFINE q == joined[c]
  <2>1. /\ q \in Parents /\ ~childConnected[q] /\ thread[c] = "joining"
        /\ childConnected' = [childConnected EXCEPT ![q] = TRUE]
        /\ thread' = [thread EXCEPT ![c] = "child"] /\ joined' = joined
    BY <1>11 DEF Join, MayJoin, Goto, Roles, Shaped
  <2>2. \A d \in Children : ~Keeps(d, q) BY <2>1 DEF FlagTells
  <2>3. ASSUME NEW d \in Children, NEW r \in Parents
        PROVE  Keeps(d, r)' <=> Keeps(d, r) \/ (d = c /\ r = q)
    BY <2>1, Names DEF Keeps, Shaped
  <2>4. OneKeeps' BY <2>2, <2>3 DEF OneKeeps
  <2>5. ASSUME NEW r \in Parents
        PROVE  childConnected'[r] <=> \E d \in Children : Keeps(d, r)'
    BY <2>1, <2>3 DEF FlagTells, Shaped
  <2> QED BY <2>4, <2>5 DEF FlagTells
<1>12. ASSUME NEW c \in Children, Serve(c) PROVE (OneKeeps /\ FlagTells)'
  BY <1>3, <1>12 DEF Serve
<1>13. ASSUME NEW c \in Children, Deny(c) \/ ChildLeft(c) PROVE (OneKeeps /\ FlagTells)'
  <2> DEFINE q == joined[c]
  <2>1. /\ q \in Parents /\ thread[c] = "child"
        /\ childConnected' = [childConnected EXCEPT ![q] = FALSE]
        /\ thread' = [thread EXCEPT ![c] = "ended"] /\ joined' = joined
    BY <1>13 DEF Deny, ChildLeft, ChildOff, Finish, Goto, Roles, Shaped
  <2>2. Keeps(c, q) BY <2>1 DEF Keeps
  <2>3. ASSUME NEW d \in Children, NEW r \in Parents
        PROVE  Keeps(d, r)' <=> Keeps(d, r) /\ d # c
    BY <2>1, Names DEF Keeps, Shaped
  <2>4. OneKeeps' BY <2>3 DEF OneKeeps
  <2>5. ASSUME NEW r \in Parents
        PROVE  childConnected'[r] <=> \E d \in Children : Keeps(d, r)'
    <3>1. CASE r = q
      BY <2>1, <2>2, <2>3, <3>1 DEF OneKeeps, Shaped
    <3>2. CASE r # q
      <4>1. ~Keeps(c, r) BY <3>2 DEF Keeps
      <4>2. \A d \in Children : Keeps(d, r)' <=> Keeps(d, r) BY <2>3, <4>1
      <4> QED BY <2>1, <3>2, <4>2 DEF FlagTells, Shaped
    <3> QED BY <3>1, <3>2
  <2> QED BY <2>4, <2>5 DEF FlagTells
<1> QED BY <1>4, <1>5, <1>6, <1>7, <1>8, <1>9, <1>10, <1>11, <1>12, <1>13 DEF Matters

-----------------------------------------------------------------------------
(* The routes of a branch.                                                 *)

(* Its parent was accepted, so that the route may hold pieces.             *)
Opened(r) == thread[r] \in {"parent", "ended", "failed"}

Lasts(n) == Open[n].job.ends > clock

UnusedIsEmpty ==
    \A r \in Parents : ~Opened(r) => ~revoked[r] /\ \A k \in Keys : store[r][k] = None

OpenedIsHeld ==
    \A r \in Parents : Opened(r) /\ Lasts(BranchOf[r]) => registry[BranchOf[r]] # None

RoutesAreOfBranch ==
    /\ \A n \in Branches : registry[n] # None => BranchOf[registry[n]] = n
    /\ \A c \in Children : joined[c] # None => BranchOf[joined[c]] = BranchOf[c]

OneRoute ==
    \A r, q \in Parents : Opened(r) /\ Opened(q) /\ BranchOf[r] = BranchOf[q] => r = q

Origins ==
    /\ \A n \in acked : \E r \in Parents : BranchOf[r] = n /\ revoked[r]
    /\ \A x \in given : \E r \in Parents :
          BranchOf[r] = x.branch /\ store[r][x.key] = x.body

RouteInv == /\ UnusedIsEmpty /\ OpenedIsHeld /\ RoutesAreOfBranch /\ OneRoute
            /\ Origins /\ RevokedChildGetsNothing

(* There are no routes yet.                                                *)
LEMMA InitRoutes == Init => RouteInv
BY RelayAssumption, Names
   DEF Init, RouteInv, UnusedIsEmpty, OpenedIsHeld, RoutesAreOfBranch, OneRoute,
       Origins, RevokedChildGetsNothing, Opened, Lasts

(* What a step that opens no route, stores and serves nothing must respect. *)
LEMMA KeepsRoutes ==
    ASSUME Shaped, RouteInv, clock' \in Int, clock' >= clock,
           \A r \in Parents : Opened(r)' <=> Opened(r),
           UNCHANGED <<registry, store, revoked, acked, given>>,
           \A c \in Children :
              joined'[c] # None => BranchOf[joined'[c]] = BranchOf[c]
    PROVE  RouteInv'
<1>1. \A n \in Branches : Lasts(n)' => Lasts(n)
  BY RelayAssumption DEF Lasts, Shaped
<1>2. OpenedIsHeld' BY <1>1, Names DEF RouteInv, OpenedIsHeld
<1>3. UnusedIsEmpty' /\ OneRoute' BY DEF RouteInv, UnusedIsEmpty, OneRoute
<1>4. RoutesAreOfBranch' BY DEF RouteInv, RoutesAreOfBranch
<1>5. Origins' /\ RevokedChildGetsNothing'
  BY DEF RouteInv, Origins, RevokedChildGetsNothing
<1> QED BY <1>2, <1>3, <1>4, <1>5 DEF RouteInv

(* Routes that are opened, refused or purged: no other route of the branch *)
(* can have been opened before, for its job still lasts.                   *)
LEMMA OpenKeepsRoutes ==
    ASSUME Shaped, RouteInv, NEW s \in Parents,
           OpenAtCapacity(s) \/ OpenDuplicate(s) \/ OpenRoute(s)
    PROVE  RouteInv'
<1> DEFINE n == BranchOf[s]
<1>0. n \in Branches /\ s \in Connections /\ None \notin Parents BY Names, RelayAssumption
<1>1. /\ thread[s] = "handshake" /\ OpenValid(s)
      /\ UNCHANGED <<clock, store, revoked, joined, acked, given>>
  BY DEF OpenAtCapacity, OpenDuplicate, OpenRoute
<1>2. ~Opened(s) BY <1>1 DEF Opened
<1>3. ASSUME NEW r \in Parents, r # s PROVE Opened(r)' <=> Opened(r)
  BY <1>3, Names DEF OpenAtCapacity, OpenDuplicate, OpenRoute, Finish, Goto, Opened, Shaped
<1>4. \/ registry' = Retained
      \/ registry' = [Retained EXCEPT ![n] = s]
  BY DEF OpenAtCapacity, OpenDuplicate, OpenRoute
<1>5. Opened(s)' => /\ Retained[n] = None
                    /\ registry' = [Retained EXCEPT ![n] = s]
  BY <1>0 DEF OpenAtCapacity, OpenDuplicate, OpenRoute, Finish, Goto, Opened, Shaped
<1>6. Lasts(n) BY <1>1 DEF OpenValid, Lasts
<1>7. \A m \in Branches : Retained[m] = IF registry[m] # None /\ Lasts(m)
                                        THEN registry[m] ELSE None
  BY DEF Retained, Lasts
<1>r. Retained \in [Branches -> Parents \cup {None}] BY DEF Retained, Shaped
<1> HIDE DEF n
<1>8. UnusedIsEmpty'
  <2>1. ASSUME NEW r \in Parents, ~Opened(r)' PROVE ~Opened(r)
    BY <1>2, <1>3, <2>1
  <2> QED BY <1>1, <2>1 DEF RouteInv, UnusedIsEmpty
<1>9. OpenedIsHeld'
  <2>1. ASSUME NEW r \in Parents, Opened(r)', Lasts(BranchOf[r])'
        PROVE  registry'[BranchOf[r]] # None
    <3>1. BranchOf[r] \in Branches /\ Lasts(BranchOf[r])
      BY <1>1, <2>1, Names DEF Lasts
    <3>2. CASE r = s BY <1>0, <1>5, <1>r, <2>1, <3>2 DEF n
    <3>3. CASE r # s
      <4>1. registry[BranchOf[r]] # None
        BY <1>3, <2>1, <3>1, <3>3 DEF RouteInv, OpenedIsHeld
      <4>2. Retained[BranchOf[r]] # None BY <1>7, <3>1, <4>1
      <4> QED BY <1>0, <1>4, <1>r, <3>1, <4>2
    <3> QED BY <3>2, <3>3
  <2> QED BY <2>1 DEF OpenedIsHeld
<1>10. RoutesAreOfBranch'
  <2>1. ASSUME NEW m \in Branches, registry'[m] # None
        PROVE  BranchOf[registry'[m]] = m
    BY <1>0, <1>4, <1>7, <1>r, <2>1 DEF RouteInv, RoutesAreOfBranch, n
  <2> QED BY <1>1, <2>1 DEF RouteInv, RoutesAreOfBranch
<1>11. OneRoute'
  <2>1. ASSUME NEW r \in Parents, Opened(r), BranchOf[r] = n PROVE ~Opened(s)'
    <3>1. registry[n] # None BY <1>6, <2>1 DEF RouteInv, OpenedIsHeld
    <3> QED BY <1>0, <1>5, <1>6, <1>7, <3>1
  <2>2. ASSUME NEW r \in Parents, NEW q \in Parents, Opened(r)', Opened(q)',
               BranchOf[r] = BranchOf[q]
        PROVE  r = q
    <3>1. CASE r = s /\ q # s BY <1>3, <2>1, <2>2, <3>1 DEF n
    <3>2. CASE r # s /\ q = s BY <1>3, <2>1, <2>2, <3>2 DEF n
    <3>3. CASE r # s /\ q # s BY <1>3, <2>2, <3>3 DEF RouteInv, OneRoute
    <3> QED BY <3>1, <3>2, <3>3
  <2> QED BY <2>2 DEF OneRoute
<1>12. Origins' /\ RevokedChildGetsNothing'
  BY <1>1 DEF RouteInv, Origins, RevokedChildGetsNothing
<1> QED BY <1>8, <1>9, <1>10, <1>11, <1>12 DEF RouteInv

(* A piece takes the place of none, so what was given stays as it is.      *)
LEMMA StoreKeepsRoutes ==
    ASSUME Shaped, RouteInv, NEW s \in Parents, StorePiece(s) PROVE RouteInv'
<1> DEFINE k == FirstFrame(s).key
           body == FirstFrame(s).body
<1>0. k \in Keys /\ body \in Bodies /\ None \notin Bodies
  BY Names, FirstFrameTyped, RelayAssumption DEF StorePiece
<1>1. /\ thread[s] = "parent" /\ store[s][k] = None
      /\ store' = [store EXCEPT ![s][k] = body]
      /\ UNCHANGED <<clock, thread, registry, revoked, joined, acked, given>>
  BY DEF StorePiece, Insertable
<1> HIDE DEF k, body
<1>2. Opened(s) BY <1>1 DEF Opened
<1>3. \A r \in Parents : Opened(r)' <=> Opened(r) BY <1>1 DEF Opened
<1>4. \A r \in Parents : r # s => store'[r] = store[r] BY <1>1 DEF Shaped
<1>5. UnusedIsEmpty' BY <1>1, <1>2, <1>3, <1>4 DEF RouteInv, UnusedIsEmpty
<1>6. OpenedIsHeld' /\ RoutesAreOfBranch' /\ OneRoute' /\ RevokedChildGetsNothing'
  BY <1>1, <1>3 DEF RouteInv, OpenedIsHeld, RoutesAreOfBranch, OneRoute,
                    RevokedChildGetsNothing, Lasts
<1>7. Origins'
  <2>1. ASSUME NEW x \in given, NEW r \in Parents, store[r][x.key] = x.body
        PROVE  store'[r][x.key] = x.body
    <3>1. x.key \in Keys /\ x.body \in Bodies BY <2>1 DEF Shaped
    <3>2. ~(r = s /\ x.key = k) BY <1>0, <1>1, <2>1, <3>1
    <3> QED BY <1>0, <1>1, <2>1, <3>1, <3>2 DEF Shaped
  <2> QED BY <1>1, <2>1 DEF RouteInv, Origins
<1> QED BY <1>5, <1>6, <1>7 DEF RouteInv

(* The route a child is served from is the one that would be revoked.      *)
LEMMA ServeKeepsRoutes ==
    ASSUME Shaped, Roles, RouteInv, NEW c \in Children, Serve(c) PROVE RouteInv'
<1> DEFINE q == joined[c]
           k == FirstFrame(c).key
<1>0. k \in Keys /\ q \in Parents /\ BranchOf[q] = BranchOf[c]
  <2>1. k \in Keys BY Names, FirstFrameTyped DEF Serve
  <2>2. q \in Parents BY DEF Serve, Roles, Shaped
  <2>3. q # None BY <2>2, RelayAssumption
  <2> HIDE DEF k, q
  <2> QED BY <2>1, <2>2, <2>3 DEF RouteInv, RoutesAreOfBranch, q
<1>1. /\ ~revoked[q]
      /\ given' = given \cup {Gift(c, k, body) : body \in {store[q][k]} \ {None}}
      /\ UNCHANGED <<clock, thread, registry, store, revoked, joined, acked>>
  BY DEF Serve, Denied
<1> HIDE DEF k, q
<1>2. ASSUME NEW x \in given', x \notin given
      PROVE  /\ x.branch = BranchOf[q] /\ x.key = k /\ x.body = store[q][k]
             /\ x.body # None /\ (x.late <=> BranchOf[q] \in acked)
  <2>1. PICK body \in {store[q][k]} \ {None} : x = Gift(c, k, body) BY <1>1, <1>2
  <2>2. body = store[q][k] /\ body # None OBVIOUS
  <2>3. /\ x.branch = BranchOf[c] /\ x.key = k /\ x.body = body
        /\ x.late = (BranchOf[c] \in acked)
    BY <2>1 DEF Gift
  <2> QED BY <1>0, <2>2, <2>3
<1>3. ASSUME NEW x \in given', x \notin given PROVE ~x.late
  <2>1. Opened(q) BY <1>0, <1>2, <1>3 DEF RouteInv, UnusedIsEmpty
  <2>2. ASSUME NEW r \in Parents, BranchOf[r] = BranchOf[q], revoked[r] PROVE FALSE
    <3>1. Opened(r) BY <2>2 DEF RouteInv, UnusedIsEmpty
    <3>2. r = q BY <1>0, <2>1, <2>2, <3>1 DEF RouteInv, OneRoute
    <3> QED BY <1>1, <2>2, <3>2
  <2>3. BranchOf[q] \notin acked BY <2>2 DEF RouteInv, Origins
  <2> QED BY <1>2, <1>3, <2>3
<1>4. RevokedChildGetsNothing' BY <1>3 DEF RouteInv, RevokedChildGetsNothing
<1>5. Origins' BY <1>0, <1>1, <1>2 DEF RouteInv, Origins
<1>6. UnusedIsEmpty' /\ OpenedIsHeld' /\ RoutesAreOfBranch' /\ OneRoute'
  BY <1>1 DEF RouteInv, UnusedIsEmpty, OpenedIsHeld, RoutesAreOfBranch, OneRoute,
              Opened, Lasts
<1> QED BY <1>4, <1>5, <1>6 DEF RouteInv

(* What is acknowledged is the one route's revocation.                     *)
LEMMA RevocationKeepsRoutes ==
    ASSUME Shaped, RouteInv, NEW s \in Parents, TakeRevocation(s) PROVE RouteInv'
<1>1. /\ thread[s] = "parent" /\ revoked' = [revoked EXCEPT ![s] = TRUE]
      /\ acked' = acked \cup {BranchOf[s]}
      /\ UNCHANGED <<clock, thread, registry, store, joined, given>>
  BY DEF TakeRevocation
<1>2. Opened(s) BY <1>1 DEF Opened
<1>3. \A r \in Parents : revoked[r] => revoked'[r] BY <1>1 DEF Shaped
<1>4. revoked'[s] BY <1>1 DEF Shaped
<1>5. \A r \in Parents : r # s => revoked'[r] = revoked[r] BY <1>1 DEF Shaped
<1>6. UnusedIsEmpty' BY <1>1, <1>2, <1>5 DEF RouteInv, UnusedIsEmpty, Opened
<1>7. Origins' BY <1>1, <1>3, <1>4 DEF RouteInv, Origins
<1>8. OpenedIsHeld' /\ RoutesAreOfBranch' /\ OneRoute' /\ RevokedChildGetsNothing'
  BY <1>1 DEF RouteInv, OpenedIsHeld, RoutesAreOfBranch, OneRoute,
              RevokedChildGetsNothing, Opened, Lasts
<1> QED BY <1>6, <1>7, <1>8 DEF RouteInv

(* Every step keeps what is said of the routes.                            *)
LEMMA NextRoutes == Shaped /\ Roles /\ RouteInv /\ [Next]_vars => RouteInv'
<1> SUFFICES ASSUME Shaped, Roles, RouteInv, [Next]_vars PROVE RouteInv' OBVIOUS
<1>0. clock \in Int BY DEF Shaped
<1>j. \A c \in Children : joined[c] # None => BranchOf[joined[c]] = BranchOf[c]
  BY DEF RouteInv, RoutesAreOfBranch
<1>1. ASSUME NEW s \in Connections, NEW label, Goto(s, label),
             s \in Parents => (thread[s] \in {"parent", "ended", "failed"}
                                  <=> label \in {"parent", "ended", "failed"})
      PROVE  \A r \in Parents : Opened(r)' <=> Opened(r)
  BY <1>1 DEF Goto, Opened, Shaped
<1>2. Idles \/ Matters BY StepKinds
<1>3. CASE Idles
  <2>1. \A r \in Parents : Opened(r)' <=> Opened(r) BY <1>3 DEF Idles, Opened
  <2>2. clock' \in Int /\ clock' >= clock BY <1>3 DEF Idles
  <2> QED BY <1>3, <1>j, <2>1, <2>2, KeepsRoutes DEF Idles
<1>4. ASSUME NEW s \in Connections, Accept(s) \/ AcceptOverLimit(s) \/ SpawnFails(s)
      PROVE  RouteInv'
  <2>1. thread[s] = "none" /\ (Goto(s, "handshake") \/ Goto(s, "refused"))
    BY <1>4 DEF Accept, AcceptOverLimit, SpawnFails, Arrived
  <2>2. \A r \in Parents : Opened(r)' <=> Opened(r) BY <1>1, <2>1
  <2> QED BY <1>0, <1>4, <1>j, <2>2, KeepsRoutes DEF Accept, AcceptOverLimit, SpawnFails
<1>5. ASSUME NEW s \in Connections, NEW how \in {"refused", "ended", "failed"},
             Leaves(s, how)
      PROVE  RouteInv'
  <2>1. \A r \in Parents : Opened(r)' <=> Opened(r)
    <3>1. s \in Parents => thread[s] # "child" BY DEF Roles
    <3> QED BY <1>1, <1>5, <3>1 DEF Leaves, Finish
  <2> QED BY <1>0, <1>5, <1>j, <2>1, KeepsRoutes DEF Leaves
<1>6. ASSUME NEW s \in Parents, OpenAtCapacity(s) \/ OpenDuplicate(s) \/ OpenRoute(s)
      PROVE  RouteInv'
  BY <1>6, OpenKeepsRoutes
<1>7. ASSUME NEW s \in Parents, StorePiece(s) PROVE RouteInv' BY <1>7, StoreKeepsRoutes
<1>8. ASSUME NEW s \in Parents, TakeRevocation(s) PROVE RouteInv'
  BY <1>8, RevocationKeepsRoutes
<1>9. ASSUME NEW c \in Children, Finds(c) \/ Join(c) \/ Deny(c) \/ ChildLeft(c)
      PROVE  RouteInv'
  <2>1. c \in Connections /\ c \notin Parents BY Names
  <2>2. Goto(c, "joining") \/ Goto(c, "child") \/ Goto(c, "ended")
    BY <1>9 DEF Finds, Join, Deny, ChildLeft, Finish
  <2>3. \A r \in Parents : Opened(r)' <=> Opened(r) BY <1>1, <2>1, <2>2
  <2>4. \A d \in Children : joined'[d] # None => BranchOf[joined'[d]] = BranchOf[d]
    <3>1. CASE Finds(c)
      <4>1. BranchOf[c] \in Branches /\ registry[BranchOf[c]] # None
        BY <3>1, Names DEF Finds
      <4>2. BranchOf[registry[BranchOf[c]]] = BranchOf[c]
        BY <4>1 DEF RouteInv, RoutesAreOfBranch
      <4> QED BY <1>j, <3>1, <4>2 DEF Finds, Shaped
    <3>2. CASE Join(c) \/ Deny(c) \/ ChildLeft(c)
      BY <1>j, <3>2 DEF Join, Deny, ChildLeft
    <3> QED BY <1>9, <3>1, <3>2
  <2>5. UNCHANGED <<clock, registry, store, revoked, acked, given>>
    BY <1>9 DEF Finds, Join, Deny, ChildLeft
  <2> QED BY <1>0, <2>3, <2>4, <2>5, KeepsRoutes
<1>10. ASSUME NEW c \in Children, Serve(c) PROVE RouteInv' BY <1>10, ServeKeepsRoutes
<1> QED BY <1>2, <1>3, <1>4, <1>5, <1>6, <1>7, <1>8, <1>9, <1>10 DEF Matters

-----------------------------------------------------------------------------
(* The theorems.                                                           *)

IInv == /\ Shaped /\ Roles /\ SessionsCounted /\ OneKeeps /\ FlagTells /\ RouteInv

(* The inductive invariant, which each theorem below is read off from.     *)
THEOREM RelayInvariant == Spec => []IInv
<1>1. Init => IInv BY InitShaped, InitCounted, InitFlag, InitRoutes DEF IInv
<1>2. IInv /\ [Next]_vars => IInv'
  BY NextShaped, NextCounted, NextFlag, NextRoutes DEF IInv
<1> QED BY <1>1, <1>2, PTL DEF Spec

(* The shapes, with as many sessions counted as there are, at least, and    *)
(* no route storing more than its quota.                                   *)
THEOREM RelayTypeCorrect == Spec => []TypeOK
<1>1. IInv => TypeOK
  <2> SUFFICES ASSUME IInv PROVE TypeOK OBVIOUS
  <2>1. active \in Nat
    BY RunningFinite, RelayAssumption DEF IInv, Shaped, SessionsCounted
  <2> QED BY <2>1 DEF IInv, Shaped, TypeOK
<1> QED BY <1>1, RelayInvariant, PTL

(* The relay never runs more sessions than its cap, and its counter is the  *)
(* number of sessions that run, plus one for each thread that failed to    *)
(* start (RelaySessionGuard).                                              *)
THEOREM SessionsAreCounted == Spec => []SessionsCounted
<1>1. IInv => SessionsCounted BY DEF IInv
<1> QED BY <1>1, RelayInvariant, PTL

(* Every answer of a branch comes from the one route of it that was ever    *)
(* opened, and no piece of a store is replaced (RelayPieceStore::insert).   *)
THEOREM PiecesAgree == Spec => []OneBodyPerPiece
<1>1. IInv => OneBodyPerPiece
  <2> SUFFICES ASSUME IInv, NEW x \in given, NEW y \in given,
                      x.branch = y.branch, x.key = y.key
               PROVE  x.body = y.body
    BY DEF OneBodyPerPiece
  <2>1. PICK r \in Parents : BranchOf[r] = x.branch /\ store[r][x.key] = x.body
    BY DEF IInv, RouteInv, Origins
  <2>2. PICK q \in Parents : BranchOf[q] = y.branch /\ store[q][y.key] = y.body
    BY DEF IInv, RouteInv, Origins
  <2>3. /\ x.key \in Keys /\ y.key \in Keys
        /\ x.body \in Bodies /\ y.body \in Bodies /\ None \notin Bodies
    BY RelayAssumption DEF IInv, Shaped
  <2>4. Opened(r) /\ Opened(q) BY <2>1, <2>2, <2>3 DEF IInv, RouteInv, UnusedIsEmpty
  <2>5. r = q BY <2>1, <2>2, <2>4 DEF IInv, RouteInv, OneRoute
  <2> QED BY <2>1, <2>2, <2>5
<1> QED BY <1>1, RelayInvariant, PTL

(* child_connected is up exactly while one child is served on the route, or *)
(* once a child was lost by an error of its session.                       *)
THEOREM ChildFlagIsAccounted == Spec => []ChildFlagAccounted
<1>1. IInv => ChildFlagAccounted
  BY DEF IInv, OneKeeps, FlagTells, Keeps, ChildFlagAccounted
<1> QED BY <1>1, RelayInvariant, PTL

(* After RevocationAck no child of the branch is sent a piece.             *)
THEOREM RevocationsHold == Spec => []RevokedChildGetsNothing
<1>1. IInv => RevokedChildGetsNothing BY DEF IInv, RouteInv
<1> QED BY <1>1, RelayInvariant, PTL

=============================================================================
