-------------------------------- MODULE Relay --------------------------------
(***************************************************************************)
(* The relay of a tree or mesh job (mesh.rs): RelayListener with its       *)
(* session threads, the registry of routes by assignment nonce, and the    *)
(* two kinds of client, RelayClientSession (the parent, who uploads        *)
(* encrypted pieces and may revoke the branch) and RelayChildSession (the  *)
(* child, who asks for pieces).                                            *)
(*                                                                         *)
(* A connection stands for its TCP stream, the client's end of it and the  *)
(* relay's thread.  A route is named by the parent's connection that made  *)
(* it: threads hold it by reference, so it lives on when the registry      *)
(* forgets it.  A step of a thread is one critical section; an answer is   *)
(* written under the lock of the route and so belongs to the step.         *)
(***************************************************************************)
EXTENDS Integers, Sequences, FiniteSets

CONSTANTS Parents, Children,  (* connections, by what the client asks for  *)
          DeviceOf,           (* the trusted device at the other end       *)
          Device,             (* the relay's own id                        *)
          Branches,           (* assignment nonces                         *)
          BranchOf,           (* the branch a connection is about          *)
          Open,               (* RelaySessionOpen of each branch           *)
          Keys,               (* (object, piece, index) of a piece         *)
          ObjectOf, SizeOf,   (* its object, its bytes of ciphertext       *)
          Bodies,             (* ciphertexts                               *)
          MaxStored,          (* MAX_RELAY_STORED_PIECES                   *)
          MaxStorage,         (* MAX_RELAY_STORAGE_BYTES                   *)
          MaxBytes,           (* MAX_RELAY_BYTES, the most a grant gives   *)
          MaxRoutes,          (* MAX_RELAY_CONNECTIONS                     *)
          MaxActive,          (* MAX_RELAY_ACTIVE_SESSIONS                 *)
          MaxClock, Buffer, MaxSpawnFailures,  (* bounds of the model      *)
          None

Connections == Parents \cup Children

ASSUME RelayAssumption ==
    /\ Parents \cap Children = {}
    /\ IsFiniteSet(Connections) /\ IsFiniteSet(Keys)
    /\ BranchOf \in [Connections -> Branches]
    /\ \A n \in Branches : /\ Open[n].job.ends \in Nat
                           /\ Open[n].grant.ends \in Nat
                           /\ Open[n].assignment.ends \in Nat
                           /\ Open[n].grant.bytes \in Nat
    /\ SizeOf \in [Keys -> Nat]
    /\ MaxClock \in Nat /\ Buffer \in Nat /\ MaxSpawnFailures \in Nat
    /\ MaxStorage \in Nat /\ MaxStored \in Nat
    /\ MaxRoutes \in Nat /\ MaxActive \in Nat
    /\ None \notin Bodies /\ None \notin Parents

VARIABLES
    clock,       (* epoch_seconds                                          *)
    active,      (* the count of active sessions                           *)
    leaked,      (* places taken for threads that could not be started     *)
    thread,      (* where the relay's thread of a connection is            *)
    peer,        (* where the client's end is                              *)
    up,          (* frames on their way to the relay                       *)
    registry,    (* the routes, by nonce                                   *)
    store,       (* route.store.pieces                                     *)
    bytesUsed,   (* route.store.bytes_used                                 *)
    revoked,     (* the child is among route.revoked_peer_ids              *)
    childConnected, (* route.child_connected                               *)
    joined,      (* the route a child's thread has a reference to          *)
    acked,       (* history: branches with a revocation acknowledged       *)
    given        (* history: the pieces written to children                *)

routeVars == <<store, bytesUsed, revoked, childConnected>>
relayVars == <<registry, routeVars, joined>>
history == <<acked, given>>
vars == <<clock, active, leaked, thread, peer, up, relayVars, history>>

(* "refused": before there was a session; "ended": it returned Ok;         *)
(* "failed": it was accepted and returned an error later.                  *)
ThreadStates == {"none", "handshake", "joining", "parent", "child", "refused",
                 "ended", "failed"}
PeerStates == {"starting", "open", "asking", "closed"}

PieceFrame == [kind : {"piece"}, key : Keys, body : Bodies]
RequestFrame == [kind : {"request"}, key : Keys]
RevocationFrame == [kind : {"revocation"}]
Frame == PieceFrame \cup RequestFrame \cup RevocationFrame

Init ==
    /\ clock = 0 /\ active = 0 /\ leaked = 0
    /\ thread = [s \in Connections |-> "none"]
    /\ peer = [s \in Connections |-> "starting"]
    /\ up = [s \in Connections |-> <<>>]
    /\ registry = [n \in Branches |-> None]
    /\ store = [r \in Parents |-> [k \in Keys |-> None]]
    /\ bytesUsed = [r \in Parents |-> 0]
    /\ revoked = [r \in Parents |-> FALSE]
    /\ childConnected = [r \in Parents |-> FALSE]
    /\ joined = [c \in Children |-> None]
    /\ acked = {} /\ given = {}

-----------------------------------------------------------------------------
(* What is validated.                                                      *)

(* RelayGrant::validate_for.                                               *)
GrantValid(job, grant) ==
    /\ job.relayed
    /\ grant.relay \in job.recipients
    /\ grant.children # {}
    /\ grant.children \subseteq job.recipients \ {grant.relay}
    /\ grant.objects # {}
    /\ grant.bytes \in 1..MaxBytes
    /\ grant.ends <= job.ends /\ grant.ends > clock

(* WireBranchAssignment::validate_for.                                     *)
AssignmentValid(job, grant, assignment) ==
    /\ GrantValid(job, grant)
    /\ assignment.relay = grant.relay
    /\ assignment.parent = job.sender
    /\ assignment.child \in grant.children \ {assignment.relay}
    /\ assignment.objects # {} /\ assignment.objects \subseteq grant.objects
    /\ assignment.bytes \in 1..grant.bytes
    /\ assignment.ends > clock /\ assignment.ends <= grant.ends

(* RelaySessionOpen::validate_for.                                         *)
OpenValid(s) ==
    LET open == Open[BranchOf[s]] IN
    /\ open.job.sender = DeviceOf[s]
    /\ open.grant.relay = Device
    /\ open.job.ends > clock
    /\ AssignmentValid(open.job, open.grant, open.assignment)

(* RelayConnectionResponse::validate_for, at the client: the assignment    *)
(* against a grant made of the assignment's own bounds.                    *)
ResponseValid(s) ==
    LET open == Open[BranchOf[s]]
        a == open.assignment
    IN  AssignmentValid(open.job,
                        [relay |-> a.relay, children |-> {a.child},
                         objects |-> a.objects, bytes |-> a.bytes, ends |-> a.ends],
                        a)

(* allowed_object_ids of the assignment, which both clients look at before *)
(* they send and the relay before it answers.                              *)
InBranch(s, k) == ObjectOf[k] \in Open[BranchOf[s]].assignment.objects

-----------------------------------------------------------------------------
(* RelayListener: the accept loop.                                         *)

Running == {s \in Connections :
               thread[s] \in {"handshake", "joining", "parent", "child"}}

Goto(s, label) == thread' = [thread EXCEPT ![s] = label]
Become(s, label) == peer' = [peer EXCEPT ![s] = label]

(* RelaySessionGuard: whichever way the thread ends.  The stream is closed, *)
(* what was not read is lost, and what the client does next fails.         *)
Finish(s, how) ==
    /\ Goto(s, how) /\ active' = active - 1
    /\ up' = [up EXCEPT ![s] = <<>>]
    /\ Become(s, "closed")

(* The client's end when it reads the answer to its start frame (connect_   *)
(* relay_session, connect_relay_child_session).                            *)
Accepted(s) ==
    Become(s, IF peer[s] = "starting" /\ ResponseValid(s) THEN "open" ELSE "closed")

(* Connections come in any order, or never: a listener that is dropped     *)
(* accepts no more, and joins none of its sessions.                        *)
Arrived(s) == thread[s] = "none"

(* Mutated form: the count is compared with the limit too late.            *)
PlaceFreeOffByOne == active <= MaxActive

PlaceFree == active < MaxActive

Accept(s) ==
    /\ Arrived(s) /\ PlaceFree
    /\ active' = active + 1 /\ Goto(s, "handshake")
    /\ UNCHANGED <<clock, leaked, peer, up, relayVars, history>>

(* Mutated form: a stream that was never counted in is counted out.        *)
AcceptOverLimitCountedOut(s) ==
    /\ Arrived(s) /\ ~PlaceFree
    /\ active' = active - 1
    /\ Goto(s, "refused") /\ Become(s, "closed")
    /\ UNCHANGED <<clock, leaked, up, relayVars, history>>

(* The stream is dropped.                                                  *)
AcceptOverLimit(s) ==
    /\ Arrived(s) /\ ~PlaceFree
    /\ Goto(s, "refused") /\ Become(s, "closed")
    /\ UNCHANGED <<clock, active, leaked, up, relayVars, history>>

(* The guard is made inside the closure: without a thread nobody counts    *)
(* the session out.                                                        *)
SpawnFails(s) ==
    /\ Arrived(s) /\ PlaceFree /\ leaked < MaxSpawnFailures
    /\ active' = active + 1 /\ Goto(s, "refused")
    /\ leaked' = leaked + 1
    /\ Become(s, "closed")
    /\ UNCHANGED <<clock, up, relayVars, history>>

-----------------------------------------------------------------------------
(* A session's thread: dispatch_relay_session.                             *)

(* The handshake fails, the device is not trusted, a frame is malformed,   *)
(* a read or write fails or times out before the session is accepted.      *)
RefuseEarly(s) ==
    /\ thread[s] \in {"handshake", "joining"} /\ Finish(s, "refused")
    /\ UNCHANGED <<clock, leaked, relayVars, history>>

(* An accepted session ends with an error: a read that timed out, a frame  *)
(* that is not valid, an answer that could not be written.                 *)
Break(s) ==
    /\ thread[s] \in {"parent", "child"} /\ Finish(s, "failed")
    /\ UNCHANGED <<clock, leaked, relayVars, history>>

(* route_map.retain: the routes of jobs that have expired go.              *)
Retained == [n \in Branches |->
                IF registry[n] # None /\ Open[n].job.ends > clock
                THEN registry[n] ELSE None]

Held(map) == {n \in Branches : map[n] # None}

OpenInvalid(s) ==
    /\ thread[s] = "handshake" /\ ~OpenValid(s) /\ Finish(s, "refused")
    /\ UNCHANGED <<clock, leaked, relayVars, history>>

OpenAtCapacity(s) ==
    /\ thread[s] = "handshake" /\ OpenValid(s)
    /\ Cardinality(Held(Retained)) >= MaxRoutes
    /\ registry' = Retained
    /\ Finish(s, "refused")
    /\ UNCHANGED <<clock, leaked, routeVars, joined, history>>

(* insert has put the new route in place of the old one when it reports    *)
(* that there was an old one.                                              *)
OpenDuplicate(s) ==
    LET n == BranchOf[s] IN
    /\ thread[s] = "handshake" /\ OpenValid(s)
    /\ Cardinality(Held(Retained)) < MaxRoutes
    /\ Retained[n] # None
    /\ registry' = [Retained EXCEPT ![n] = s]
    /\ Finish(s, "refused")
    /\ UNCHANGED <<clock, leaked, routeVars, joined, history>>

OpenRoute(s) ==
    LET n == BranchOf[s] IN
    /\ thread[s] = "handshake" /\ OpenValid(s)
    /\ Cardinality(Held(Retained)) < MaxRoutes
    /\ Retained[n] = None
    /\ registry' = [Retained EXCEPT ![n] = s]
    /\ Goto(s, "parent") /\ Accepted(s)
    /\ UNCHANGED <<clock, active, leaked, up, routeVars, joined, history>>

(* RelayPieceStore: the store of a route is bounded by its grant as well.  *)
Quota(s) == LET most == Open[BranchOf[s]].grant.bytes
            IN  IF most < MaxStorage THEN most ELSE MaxStorage

Stored(s) == {k \in Keys : store[s][k] # None}

(* validate_relay_piece; lengths and digests are those of the ciphertext.  *)
PieceAllowed(s, k) ==
    LET open == Open[BranchOf[s]] IN
    /\ GrantValid(open.job, open.grant)
    /\ open.assignment.child \in open.grant.children
    /\ ObjectOf[k] \in open.grant.objects
    /\ SizeOf[k] \in 1..open.grant.bytes

(* Mutated form: a piece that comes again takes the place of the first.    *)
InsertReplaces(s, k, body) ==
    PieceAllowed(s, k) /\ bytesUsed[s] + SizeOf[k] <= Quota(s)

(* RelayPieceStore::insert returns Ok(true).                               *)
Insertable(s, k, body) ==
    /\ PieceAllowed(s, k)
    /\ store[s][k] = None
    /\ Cardinality(Stored(s)) < MaxStored
    /\ bytesUsed[s] + SizeOf[k] <= Quota(s)

FirstFrame(s) == Head(up[s])

Received(s, kind) == up[s] # <<>> /\ FirstFrame(s).kind = kind

Consume(s) == up' = [up EXCEPT ![s] = Tail(@)]

StorePiece(s) ==
    /\ thread[s] = "parent" /\ Received(s, "piece")
    /\ LET k == FirstFrame(s).key
           body == FirstFrame(s).body
       IN  /\ Insertable(s, k, body)
           /\ store' = [store EXCEPT ![s][k] = body]
           /\ bytesUsed' = [bytesUsed EXCEPT ![s] = @ + SizeOf[k]]
    /\ Consume(s)
    /\ UNCHANGED <<clock, active, leaked, thread, peer, registry, revoked,
                   childConnected, joined, history>>

(* Ok(false): the identical piece is there.                                *)
KeepPiece(s) ==
    /\ thread[s] = "parent" /\ Received(s, "piece")
    /\ PieceAllowed(s, FirstFrame(s).key)
    /\ store[s][FirstFrame(s).key] = FirstFrame(s).body
    /\ Consume(s)
    /\ UNCHANGED <<clock, active, leaked, thread, peer, relayVars, history>>

(* A conflicting piece, one over a limit, or an expired grant.             *)
RefusePiece(s) ==
    /\ thread[s] = "parent" /\ Received(s, "piece")
    /\ LET k == FirstFrame(s).key
           body == FirstFrame(s).body
       IN  /\ ~Insertable(s, k, body)
           /\ ~(PieceAllowed(s, k) /\ store[s][k] = body)
    /\ Finish(s, "failed")
    /\ UNCHANGED <<clock, leaked, relayVars, history>>

(* The client reads what it was waiting for.                               *)
Answered(s) == Become(s, IF peer[s] = "asking" THEN "open" ELSE peer[s])

(* The acknowledgement is written under the lock; the client that waits for *)
(* it goes on.                                                             *)
TakeRevocation(s) ==
    /\ thread[s] = "parent" /\ Received(s, "revocation")
    /\ revoked' = [revoked EXCEPT ![s] = TRUE]
    /\ acked' = acked \cup {BranchOf[s]}
    /\ Answered(s) /\ Consume(s)
    /\ UNCHANGED <<clock, active, leaked, thread, registry, store, bytesUsed,
                   childConnected, joined, given>>

(* The end of the stream, or a reset that takes unread frames with it.     *)
(* (parent_connected, set here, is looked at by nobody and left out.)      *)
ParentLeft(s) ==
    /\ thread[s] = "parent" /\ peer[s] = "closed" /\ Finish(s, "ended")
    /\ UNCHANGED <<clock, leaked, relayVars, history>>

(* The registry's lock is given back before the route's is taken.          *)
LookUpRoute(s) ==
    LET r == registry[BranchOf[s]] IN
    /\ thread[s] = "handshake"
    /\ \/ r # None /\ joined' = [joined EXCEPT ![s] = r] /\ Goto(s, "joining")
          /\ UNCHANGED <<active, peer, up>>
       \/ r = None /\ Finish(s, "refused") /\ UNCHANGED joined
    /\ UNCHANGED <<clock, leaked, registry, routeVars, history>>

MayJoin(s) ==
    LET r == joined[s] IN
    /\ DeviceOf[s] = Open[BranchOf[s]].assignment.child
    /\ ~childConnected[r] /\ ~revoked[r]

Join(s) ==
    /\ thread[s] = "joining" /\ MayJoin(s)
    /\ childConnected' = [childConnected EXCEPT ![joined[s]] = TRUE]
    /\ Goto(s, "child") /\ Accepted(s)
    /\ UNCHANGED <<clock, active, leaked, up, registry, store, bytesUsed,
                   revoked, joined, history>>

TurnAway(s) ==
    /\ thread[s] = "joining" /\ ~MayJoin(s) /\ Finish(s, "refused")
    /\ UNCHANGED <<clock, leaked, relayVars, history>>

(* Mutated form: revocations are looked at when a child joins only.        *)
NeverDenied(s) == FALSE

Denied(s) == revoked[joined[s]]

(* RelayPieceStore::get_for_child returns Ok: the grant is looked at again, *)
(* the assignment's own bounds are not.                                    *)
GetAllowed(s, k) ==
    LET open == Open[BranchOf[s]] IN
    /\ InBranch(s, k)
    /\ open.assignment.child \in open.grant.children
    /\ GrantValid(open.job, open.grant)

Gift(s, k, body) == [branch |-> BranchOf[s], key |-> k, body |-> body,
                     late |-> BranchOf[s] \in acked]

Serve(s) ==
    LET r == joined[s]
        k == FirstFrame(s).key
    IN
    /\ thread[s] = "child" /\ Received(s, "request") /\ ~Denied(s)
    /\ GetAllowed(s, k)
    /\ given' = given \cup {Gift(s, k, body) : body \in {store[r][k]} \ {None}}
    /\ Answered(s) /\ Consume(s)
    /\ UNCHANGED <<clock, active, leaked, thread, relayVars, acked>>

ServeRefused(s) ==
    /\ thread[s] = "child" /\ Received(s, "request") /\ ~Denied(s)
    /\ ~GetAllowed(s, FirstFrame(s).key)
    /\ Finish(s, "failed")
    /\ UNCHANGED <<clock, leaked, relayVars, history>>

(* Mutated form: the flag is left up.                                      *)
ChildOffForgotten(s) == UNCHANGED childConnected

ChildOff(s) == childConnected' = [childConnected EXCEPT ![joined[s]] = FALSE]

(* The answer with a reason, and then break.                               *)
Deny(s) ==
    /\ thread[s] = "child" /\ Received(s, "request") /\ Denied(s)
    /\ ChildOff(s) /\ Finish(s, "ended")
    /\ UNCHANGED <<clock, leaked, registry, store, bytesUsed, revoked, joined,
                   history>>

ChildLeft(s) ==
    /\ thread[s] = "child" /\ peer[s] = "closed"
    /\ ChildOff(s) /\ Finish(s, "ended")
    /\ UNCHANGED <<clock, leaked, registry, store, bytesUsed, revoked, joined,
                   history>>

-----------------------------------------------------------------------------
(* The clients.                                                            *)

relaySide == <<clock, active, leaked, thread, relayVars>>

(* A frame written to a stream that the relay has closed is lost and left  *)
(* out.                                                                    *)
Send(s, frame) == s \in Running /\ up' = [up EXCEPT ![s] = Append(@, frame)]

(* RelayClientSession::send_piece: nobody answers.                         *)
SendPiece(s, k, body) ==
    /\ peer[s] = "open" /\ InBranch(s, k) /\ Len(up[s]) < Buffer
    /\ Send(s, [kind |-> "piece", key |-> k, body |-> body])
    /\ UNCHANGED <<relaySide, peer, history>>

(* RelayClientSession::send_revocation, up to the wait for its answer.     *)
SendRevocation(s) ==
    /\ peer[s] = "open" /\ Become(s, "asking")
    /\ Send(s, [kind |-> "revocation"])
    /\ UNCHANGED <<relaySide, history>>

(* RelayChildSession::request_piece, up to the wait for its answer.  (An    *)
(* answer without a piece and without a reason is an error to its caller,  *)
(* who may ask again.)                                                     *)
Request(s, k) ==
    /\ peer[s] = "open" /\ InBranch(s, k) /\ Become(s, "asking")
    /\ Send(s, [kind |-> "request", key |-> k])
    /\ UNCHANGED <<relaySide, history>>

(* The client goes away.  (Before it is accepted that is RefuseEarly, or   *)
(* Accept and then Close; with the relay's thread gone it changes nothing.) *)
Close(s) ==
    /\ peer[s] \in {"open", "asking"} /\ s \in Running /\ Become(s, "closed")
    /\ UNCHANGED <<relaySide, up, history>>

Tick ==
    /\ clock < MaxClock /\ clock' = clock + 1
    /\ UNCHANGED <<active, leaked, thread, peer, up, relayVars, history>>

Listener(s) == Accept(s) \/ AcceptOverLimit(s) \/ SpawnFails(s)

ParentSession(s) ==
    \/ OpenInvalid(s) \/ OpenAtCapacity(s) \/ OpenDuplicate(s) \/ OpenRoute(s)
    \/ StorePiece(s) \/ KeepPiece(s) \/ RefusePiece(s) \/ TakeRevocation(s)
    \/ ParentLeft(s)

ChildSession(s) ==
    \/ LookUpRoute(s) \/ Join(s) \/ TurnAway(s) \/ Serve(s) \/ ServeRefused(s)
    \/ Deny(s) \/ ChildLeft(s)

ParentClient(s) ==
    \/ \E k \in Keys, body \in Bodies : SendPiece(s, k, body)
    \/ SendRevocation(s)

ChildClient(s) == \E k \in Keys : Request(s, k)

Over == clock = MaxClock /\ \A s \in Connections : thread[s] # "none" /\ s \notin Running

Next ==
    \/ \E s \in Connections : Listener(s) \/ RefuseEarly(s) \/ Break(s) \/ Close(s)
    \/ \E s \in Parents : ParentSession(s) \/ ParentClient(s)
    \/ \E s \in Children : ChildSession(s) \/ ChildClient(s)
    \/ Tick
    \/ Over /\ UNCHANGED vars

Spec == Init /\ [][Next]_vars

-----------------------------------------------------------------------------
(* The shapes; the count of sessions never falls below nothing, and no     *)
(* route stores more than its grant.                                       *)
TypeOK ==
    /\ clock \in 0..MaxClock
    /\ active \in Nat /\ leaked \in 0..MaxSpawnFailures
    /\ thread \in [Connections -> ThreadStates]
    /\ peer \in [Connections -> PeerStates]
    /\ up \in [Connections -> Seq(Frame)]
    /\ registry \in [Branches -> Parents \cup {None}]
    /\ store \in [Parents -> [Keys -> Bodies \cup {None}]]
    /\ bytesUsed \in [Parents -> Nat]
    /\ \A r \in Parents : bytesUsed[r] <= Quota(r)
    /\ revoked \in [Parents -> BOOLEAN]
    /\ childConnected \in [Parents -> BOOLEAN]
    /\ joined \in [Children -> Parents \cup {None}]
    /\ acked \subseteq Branches
    /\ given \subseteq [branch : Branches, key : Keys, body : Bodies, late : BOOLEAN]

(* No more sessions than the cap, and the count is that of the threads,    *)
(* with one place gone for good for each thread that could not be started. *)
SessionsCounted ==
    /\ active = Cardinality(Running) + leaked
    /\ active <= MaxActive

(* However often parents and children connect anew, and whatever routes    *)
(* replace others, children of a branch never get two different            *)
(* ciphertexts for the same piece.                                         *)
OneBodyPerPiece ==
    \A x, y \in given : x.branch = y.branch /\ x.key = y.key => x.body = y.body

(* The flag that keeps a second child from a route is up exactly while one *)
(* is served on it, and for good once one was lost through an error.       *)
ChildFlagAccounted ==
    \A r \in Parents :
        /\ \A c, d \in Children :
              joined[c] = r /\ joined[d] = r /\ thread[c] = "child" /\ thread[d] = "child"
                  => c = d
        /\ childConnected[r] <=>
              \E c \in Children : joined[c] = r /\ thread[c] \in {"child", "failed"}

(* Once the relay has acknowledged a revocation, no child of the branch is  *)
(* sent a piece, over whichever route and connection.                      *)
RevokedChildGetsNothing == \A x \in given : ~x.late
=============================================================================
