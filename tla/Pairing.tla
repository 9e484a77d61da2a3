-------------------------------- MODULE Pairing --------------------------------
(***************************************************************************)
(* Pairing and trust between devices (pairing.rs, trust.rs, lib.rs,        *)
(* network/mod.rs, identity/mod.rs).  Every command of the user interface  *)
(* holds the device's runtime lock until it returns; pair_with_peer holds  *)
(* it while it waits for the other user.  The pairing listener does not    *)
(* take it.  A device's id and key are created together, so one generation *)
(* number stands for both.  All devices run this program.                  *)
(***************************************************************************)
EXTENDS Naturals, Sequences, FiniteSets

CONSTANTS Devices,
          MaxGenerations,  (* bound: identities each device creates         *)
          MaxRequests,     (* bound: pairing requests made                  *)
          MaxPending,      (* MAX_PENDING_PAIRINGS                          *)
          SaveMayFail,     (* writing trusted-peers.json may fail           *)
          CrashesHappen    (* the application may end and be started again  *)

ASSUME PairingAssumption ==
    /\ {MaxGenerations, MaxRequests, MaxPending} \subseteq Nat \ {0}
    /\ {SaveMayFail, CrashesHappen} \subseteq BOOLEAN

Generations == 1..MaxGenerations
Identities == Devices \X Generations
Unknown == 0                      (* generation of a peer known by address  *)

VARIABLES identity,       (* generation of runtime.identity                *)
          key,            (* the private key on disk: that identity's own, *)
                          (* "gone", or "other" than it                    *)
          requests,       (* every pairing request made, and its state     *)
          asking,         (* request pair_with_peer waits for, 0 if none   *)
          accepting,      (* request accept_pairing has answered, 0: none  *)
          memory, disk,   (* trusted peers: the store and its file         *)
          agreed,         (* history: whom the user asked for or accepted  *)
          revoked         (* history: whom revoke_trusted_peer reported as *)
                          (* removed, and nobody agreed to since           *)

selfVars == <<identity, key>>
trustVars == <<memory, disk>>
vars == <<selfVars, requests, asking, accepting, trustVars, agreed, revoked>>

Init ==
    /\ identity = [d \in Devices |-> 1]
    /\ key = [d \in Devices |-> "own"]
    /\ requests = <<>>
    /\ asking = [d \in Devices |-> 0]
    /\ accepting = [d \in Devices |-> 0]
    /\ memory = [d \in Devices |-> {}]
    /\ disk = [d \in Devices |-> {}]
    /\ agreed = [d \in Devices |-> {}]
    /\ revoked = [d \in Devices |-> {}]

(* runtime.lock() can be taken.                                            *)
LockFree(d) == asking[d] = 0 /\ accepting[d] = 0

Pending(d) == {r \in DOMAIN requests :
                  requests[r].to = d /\ requests[r].state = "pending"}

Answer(r, state, by) ==
    requests' = [requests EXCEPT ![r].state = state, ![r].by = by]

(* stop: the table is cleared; a connection thread that has not yet put    *)
(* its request there puts it in a table nobody looks at.                   *)
RequestsStopped(d) ==
    requests' = [r \in DOMAIN requests |->
                    IF requests[r].to = d /\ requests[r].state \in {"arriving", "pending"}
                    THEN [requests[r] EXCEPT !.state = "closed"] ELSE requests[r]]

(* upsert and remove change the list, then write all of it.  Ids and keys  *)
(* come in pairs, so upsert never meets a peer with another's key.         *)
Save(d, peers) ==
    /\ memory' = [memory EXCEPT ![d] = peers]
    /\ \/ disk' = [disk EXCEPT ![d] = peers]
       \/ SaveMayFail /\ UNCHANGED disk

(* load: what a new process finds in the file.                             *)
LoadTrust(d) == memory' = [memory EXCEPT ![d] = disk[d]]

-----------------------------------------------------------------------------
(* Asking.                                                                 *)

(* peers(): the record of e may be of any identity e has had, for discovery *)
(* never drops one, or be a manual endpoint without an identity.           *)
Records(e) == {Unknown} \cup 1..identity[e]

(* signed_request                                                          *)
SignedRequest(d, e, g) ==
    [from |-> d, as |-> identity[d], signed |-> key[d] = "own", to |-> e,
     expected |-> g, state |-> "arriving", by |-> 0]

(* The connection is made; where it is not, also because e's listener is   *)
(* not up, the command returns and nothing has changed.                    *)
PairWithPeer(d, e, g) ==
    /\ d # e /\ LockFree(d) /\ key[d] # "gone"
    /\ Len(requests) < MaxRequests
    /\ g \in Records(e)
    /\ requests' = Append(requests, SignedRequest(d, e, g))
    /\ asking' = [asking EXCEPT ![d] = Len(requests')]
    /\ agreed' = [agreed EXCEPT ![d] = @ \cup {<<e, g>>}]
    /\ revoked' = [revoked EXCEPT ![d] =
                      {who \in @ : who[1] # e \/ (g # Unknown /\ who[2] # g)}]
    /\ UNCHANGED <<selfVars, accepting, trustVars>>

(* Mutated form: the answer need not be from the identity that was shown.  *)
AsExpectedFromAnyone(r) == requests[r].by # 0

(* validate_response: well signed, and by the identity that was expected.  *)
AsExpected(r) ==
    requests[r].by # 0 /\ requests[r].expected \in {Unknown, requests[r].by}

Who(r) == <<requests[r].to, requests[r].by>>

(* The answer, or the end of the stream: pair_with_peer returns.           *)
ReadResponse(d) ==
    /\ asking[d] # 0
    /\ LET r == asking[d]
       IN  \/ requests[r].state = "accepted" /\ AsExpected(r)
              /\ Save(d, memory[d] \cup {Who(r)})
           \/ requests[r].state = "accepted" /\ ~AsExpected(r) /\ UNCHANGED trustVars
           \/ requests[r].state \in {"rejected", "closed"} /\ UNCHANGED trustVars
    /\ asking' = [asking EXCEPT ![d] = 0]
    /\ UNCHANGED <<selfVars, requests, accepting, agreed, revoked>>

(* Mutated form: the stream has no read timeout.                           *)
HasWaitedNever(d) == FALSE

HasWaited(d) == asking[d] # 0

(* No answer for 30 seconds; the request stays where it is.                *)
GiveUp(d) ==
    /\ HasWaited(d)
    /\ asking' = [asking EXCEPT ![d] = 0]
    /\ UNCHANGED <<selfVars, requests, accepting, trustVars, agreed, revoked>>

-----------------------------------------------------------------------------
(* Being asked.                                                            *)

(* Mutated form: the table takes one more than its limit.                  *)
HasRoomForOneMore(d) == Cardinality(Pending(d)) <= MaxPending

HasRoom(d) == Cardinality(Pending(d)) < MaxPending

(* validate_request: the key is the one named, and has signed the request. *)
WellSigned(r) == requests[r].signed

(* handle_incoming                                                         *)
HandleIncoming(r) ==
    /\ requests[r].state = "arriving"
    /\ Answer(r, IF WellSigned(r) /\ HasRoom(requests[r].to)
                 THEN "pending" ELSE "closed", 0)
    /\ UNCHANGED <<selfVars, asking, accepting, trustVars, agreed, revoked>>

AskerWaits(r) == asking[requests[r].from] = r

(* trusted_peer: whom an accepted request makes a trusted peer.            *)
Asker(r) == <<requests[r].from, requests[r].as>>

(* The request leaves the table before anything can fail; an answer to an  *)
(* asker that has given up may be written all the same.                    *)
AcceptPairing(d, r) ==
    /\ LockFree(d) /\ r \in Pending(d)
    /\ LET who == Asker(r)
       IN  /\ agreed' = [agreed EXCEPT ![d] = @ \cup {who}]
           /\ revoked' = [revoked EXCEPT ![d] = @ \ {who}]
    /\ \/ key[d] # "gone"
          /\ Answer(r, "accepted", IF key[d] = "own" THEN identity[d] ELSE 0)
          /\ accepting' = [accepting EXCEPT ![d] = r]
       \/ (key[d] = "gone" \/ ~AskerWaits(r))
          /\ Answer(r, "closed", 0) /\ UNCHANGED accepting
    /\ UNCHANGED <<selfVars, asking, trustVars>>

(* accept_pairing goes on: the asker is trusted, whether it has the answer *)
(* or not.                                                                 *)
TrustAsker(d) ==
    /\ accepting[d] # 0
    /\ LET r == accepting[d]
       IN  Save(d, memory[d] \cup {Asker(r)})
    /\ accepting' = [accepting EXCEPT ![d] = 0]
    /\ UNCHANGED <<selfVars, requests, asking, agreed, revoked>>

RejectPairing(d, r) ==
    /\ LockFree(d) /\ r \in Pending(d)
    /\ Answer(r, IF key[d] = "gone" THEN "closed" ELSE "rejected", 0)
    /\ UNCHANGED <<selfVars, asking, accepting, trustVars, agreed, revoked>>

-----------------------------------------------------------------------------
(* The other commands, and the process.                                    *)

(* Mutated form: the command does not take the runtime lock.               *)
RevokeUnlocked(d, who) ==
    /\ who \in memory[d]
    /\ Save(d, memory[d] \ {who})
    /\ revoked' = [revoked EXCEPT ![d] =
                      IF disk'[d] = memory'[d] THEN @ \cup {who} ELSE @]
    /\ UNCHANGED <<selfVars, requests, asking, accepting, agreed>>

(* revoke_trusted_peer: Ok(true) when the file was written; an error, with *)
(* the peer gone from memory only, when it was not; Ok(false) when memory  *)
(* has no such peer, which changes nothing.                                *)
RevokeTrustedPeer(d, who) ==
    /\ LockFree(d) /\ who \in memory[d]
    /\ Save(d, memory[d] \ {who})
    /\ revoked' = [revoked EXCEPT ![d] =
                      IF disk'[d] = memory'[d] THEN @ \cup {who} ELSE @]
    /\ UNCHANGED <<selfVars, requests, asking, accepting, agreed>>

(* update_settings with another name or advertise_on_startup; the listener *)
(* starts again if it is wanted and there is a network.                    *)
RestartDiscovery(d) ==
    /\ LockFree(d)
    /\ RequestsStopped(d)
    /\ UNCHANGED <<identity, key, asking, accepting, trustVars, agreed, revoked>>

ResetIdentity(d) ==
    /\ LockFree(d) /\ identity[d] < MaxGenerations
    /\ identity' = [identity EXCEPT ![d] = @ + 1]
    /\ key' = [key EXCEPT ![d] = "own"]
    /\ RequestsStopped(d)
    /\ UNCHANGED <<asking, accepting, trustVars, agreed, revoked>>

(* The old files are removed first: the new key or the new identity cannot *)
(* be written, and the command returns with the old identity in memory.    *)
ResetIdentityFails(d) ==
    /\ LockFree(d) /\ identity[d] < MaxGenerations
    /\ \E left \in {"gone", "other"} : key' = [key EXCEPT ![d] = left]
    /\ UNCHANGED <<identity, requests, asking, accepting, trustVars, agreed,
                   revoked>>

(* The process ends at any moment and is started again (boot): the files   *)
(* are what is left, and an identity without them is created anew.         *)
Crash(d) ==
    /\ CrashesHappen
    /\ RequestsStopped(d)
    /\ asking' = [asking EXCEPT ![d] = 0]
    /\ accepting' = [accepting EXCEPT ![d] = 0]
    /\ LoadTrust(d)
    /\ identity' = [identity EXCEPT ![d] = IF key[d] = "own" THEN @ ELSE @ + 1]
    /\ key' = [key EXCEPT ![d] = "own"]
    /\ UNCHANGED <<disk, agreed, revoked>>

Command(d) ==
    \/ \E e \in Devices, g \in {Unknown} \cup Generations : PairWithPeer(d, e, g)
    \/ \E r \in DOMAIN requests : AcceptPairing(d, r) \/ RejectPairing(d, r)
    \/ \E who \in Identities : RevokeTrustedPeer(d, who)
    \/ RestartDiscovery(d) \/ ResetIdentity(d) \/ ResetIdentityFails(d)

(* The rest of a command that has begun.                                   *)
Proceed(d) == ReadResponse(d) \/ GiveUp(d) \/ TrustAsker(d)

Next ==
    \/ \E d \in Devices : Command(d) \/ Proceed(d) \/ Crash(d)
    \/ \E r \in DOMAIN requests : HandleIncoming(r)

(* Threads run and timeouts pass; no user has to do anything.              *)
Spec == Init /\ [][Next]_vars /\ \A d \in Devices : WF_vars(Proceed(d))

-----------------------------------------------------------------------------
Request == [from : Devices, as : Generations, signed : BOOLEAN, to : Devices,
            expected : {Unknown} \cup Generations,
            state : {"arriving", "pending", "accepted", "rejected", "closed"},
            by : {0} \cup Generations]

TypeOK ==
    /\ identity \in [Devices -> Generations]
    /\ key \in [Devices -> {"own", "gone", "other"}]
    /\ \A d \in Devices : key[d] # "own" => identity[d] < MaxGenerations
    /\ requests \in Seq(Request) /\ Len(requests) <= MaxRequests
    /\ asking \in [Devices -> 0..Len(requests)]
    /\ accepting \in [Devices -> 0..Len(requests)]
    /\ memory \in [Devices -> SUBSET Identities]
    /\ disk \in [Devices -> SUBSET Identities]
    /\ agreed \in [Devices -> SUBSET (Devices \X ({Unknown} \cup Generations))]
    /\ revoked \in [Devices -> SUBSET Identities]
    /\ \A d \in Devices : Cardinality(Pending(d)) <= MaxPending

(* Trust needs both users: a trusted peer, in memory or on disk, is an     *)
(* identity this device's user was shown and agreed to (or asked for by    *)
(* address), and the user of the other device asked for or accepted this   *)
(* one, whatever is lost, refused, stale or restarted in between.          *)
TrustNeedsBothUsers ==
    \A d \in Devices : \A who \in memory[d] \cup disk[d] :
        /\ {who, <<who[1], Unknown>>} \cap agreed[d] # {}
        /\ \E g \in {Unknown} \cup Generations : <<d, g>> \in agreed[who[1]]

(* A peer whose revocation was reported as done is not trusted again, not  *)
(* by a pairing that was under way and not after a restart, until the user *)
(* agrees to it once more.                                                 *)
RevokedStaysRevoked ==
    \A d \in Devices : revoked[d] \cap (memory[d] \cup disk[d]) = {}

(* "Short connect, read, and write timeouts prevent a pairing attempt from *)
(* blocking the application indefinitely": also when two devices ask each  *)
(* other at the same time, and neither can accept for the lock it holds.   *)
EveryCommandReturns == \A d \in Devices : []<>LockFree(d)

(* What the documents say and the code does not do.                        *)

(* "trusted: Both devices completed authenticated pairing": when no        *)
(* command is under way, who is trusted trusts back, unless it has revoked.*)
TrustIsMutual ==
    (\A d \in Devices : LockFree(d)) =>
        \A d \in Devices : \A who \in memory[d] :
            LET me == <<d, identity[d]>>
            IN  me \in memory[who[1]] \cup revoked[who[1]]
=============================================================================
