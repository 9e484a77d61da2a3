--------------------------- MODULE SecureChannel ---------------------------
(***************************************************************************)
(* The secure channel of version 2 (secure.rs) as the sessions use it: the *)
(* handshake (SecureHandshake, establish_channel), frames in two           *)
(* directions (seal, open), the key of the job that travels over them, and *)
(* the pieces sealed with it.                                              *)
(*                                                                         *)
(* An end is one connection's end, with an ephemeral key of its own, which *)
(* its handshake carries; an attempt that is made again is another end.    *)
(* The network is a set: whatever was written may be read at any other     *)
(* end, late, again, in another order, or never.                           *)
(***************************************************************************)
EXTENDS Integers, Sequences, FiniteSets

CONSTANTS Initiators, Responders,  (* ends, by ChannelRole                 *)
          DeviceOf,     (* the device of an end                            *)
          Expects,      (* the peer an initiator means to reach            *)
          Trusts,       (* the devices that a device has paired with       *)
          SessionOf,    (* the session id of an initiator: its transfer    *)
          RootOf,       (* the snapshot root of the job it makes           *)
          Pieces,       (* (piece id, object, index, offset, length)       *)
          SizeOf,       (* plaintext bytes of a body, by its kind          *)
          MaxFrames,    (* MAX_CHANNEL_FRAMES                              *)
          MaxBytes,     (* MAX_CHANNEL_PLAINTEXT_BYTES                     *)
          MaxSkew,      (* five minutes                                    *)
          MaxClock,     (* a bound of the model                            *)
          None

Ends == Initiators \cup Responders

(* Session ids are drawn at random, and nobody pairs with himself.         *)
ASSUME ChannelAssumption ==
    /\ Initiators \cap Responders = {} /\ None \notin Ends
    /\ \A i \in Initiators : Expects[i] # DeviceOf[i]
    /\ \A i, j \in Initiators : SessionOf[i] = SessionOf[j] => DeviceOf[i] = DeviceOf[j]
    /\ SizeOf \in [{"ready", "offer", "decision", "key"} -> Nat]
    /\ MaxFrames \in Nat /\ MaxBytes \in Nat /\ MaxClock \in Nat /\ MaxSkew \in Nat

VARIABLES
    clock,       (* epoch_seconds                                          *)
    stage,       (* how far an end is                                      *)
    hello,       (* the handshake it has written                           *)
    peer,        (* the end whose handshake its channel is made with       *)
    nextSend,    (* next_send_sequence                                     *)
    nextReceive, (* next_receive_sequence                                  *)
    sentBytes,   (* sent_plaintext_bytes                                   *)
    receivedBytes, (* received_plaintext_bytes                             *)
    frames,      (* the frames written                                     *)
    offer,       (* the job a responder was offered                        *)
    jobKey,      (* the key it has unwrapped, named by the one who made it *)
    said, heard, (* history: bodies sealed and opened                      *)
    opened       (* history: the pieces opened                             *)

counters == <<nextSend, nextReceive, sentBytes, receivedBytes>>
job == <<offer, jobKey>>
vars == <<clock, stage, hello, peer, counters, frames, job, said, heard, opened>>

Stages == {"idle", "greeted", "confirming", "open", "dropped"}

Job(i) == [id |-> SessionOf[i], root |-> RootOf[i], recipients |-> {Expects[i]}]

-----------------------------------------------------------------------------
(* Keys.                                                                   *)

(* Mutated form: one key for both directions.                              *)
DirectionsShared(e) == [send |-> "channel", receive |-> "channel"]

Directions(e) ==
    IF e \in Initiators
    THEN [send |-> "initiator-to-responder", receive |-> "responder-to-initiator"]
    ELSE [send |-> "responder-to-initiator", receive |-> "initiator-to-responder"]

(* Both keys come from the two ephemeral keys and both handshakes, which   *)
(* transcript_hash puts into an order of its own.                          *)
SendKey(e, d) == [ends |-> {e, d}, label |-> Directions(e).send]
ReceiveKey(e) == [ends |-> {e, peer[e]}, label |-> Directions(e).receive]

(* JobKeyEnvelope: the key that i made for its job, under its own key of   *)
(* the channel.                                                            *)
Offer(i) == [kind |-> "offer", job |-> Job(i)]
Envelope(i, d) == [kind |-> "key", under |-> SendKey(i, d), job |-> Job(i),
                   recipient |-> Expects[i], key |-> i]

(* Bodies and the additional data they are sealed with.  An end may say     *)
(* its own again and in any order, or nothing more.  (Pages of metadata,   *)
(* requests and answers pass like a decision and are left out.)            *)
Ready == [kind |-> "ready"]
Decision == [kind |-> "decision"]

Says(e) == IF e \in Initiators THEN {Offer(e), Envelope(e, peer[e])}
                               ELSE {Decision}

Bodies == {Ready, Decision} \cup {Offer(i) : i \in Initiators}
          \cup {Envelope(i, d) : i \in Initiators, d \in Ends}

Purposes == {"confirmation", "job"}

PurposeOf(body) == IF body.kind = "ready" THEN "confirmation" ELSE "job"

Init ==
    /\ clock = 0
    /\ stage = [e \in Ends |-> "idle"]
    /\ hello = [e \in Ends |-> None]
    /\ peer = [e \in Ends |-> None]
    /\ nextSend = [e \in Ends |-> 0] /\ nextReceive = [e \in Ends |-> 0]
    /\ sentBytes = [e \in Ends |-> 0] /\ receivedBytes = [e \in Ends |-> 0]
    /\ frames = {}
    /\ offer = [e \in Ends |-> None] /\ jobKey = [e \in Ends |-> None]
    /\ said = [e \in Ends |-> <<>>] /\ heard = [e \in Ends |-> <<>>]
    /\ opened = {}

Become(e, s) == stage' = [stage EXCEPT ![e] = s]

-----------------------------------------------------------------------------
(* The handshake.                                                          *)

(* SecureHandshake::create; the signature and the ephemeral key are those  *)
(* of the end.                                                             *)
Greeting(session) == [session |-> session, time |-> clock]

(* validate_at.                                                            *)
Fresh(h) == clock - h.time <= MaxSkew

(* establish_channel: the peer is who it should be, both handshakes are    *)
(* fresh, and of one session.                                              *)
Agreeable(mine, x, expected) ==
    /\ Fresh(mine) /\ Fresh(hello[x])
    /\ DeviceOf[x] = expected
    /\ mine.session = hello[x].session

Greet(i) ==
    /\ stage[i] = "idle" /\ Become(i, "greeted")
    /\ hello' = [hello EXCEPT ![i] = Greeting(SessionOf[i])]
    /\ UNCHANGED <<clock, peer, counters, frames, job, said, heard, opened>>

(* plaintext_within_limit.                                                 *)
WithinLimit(used, next) == next <= MaxBytes /\ used <= MaxBytes - next

(* Mutated form: only what was sealed before is compared.                  *)
SealableOver(e, body) == nextSend[e] < MaxFrames /\ sentBytes[e] < MaxBytes

Sealable(e, body) ==
    nextSend[e] < MaxFrames /\ WithinLimit(sentBytes[e], SizeOf[body.kind])

(* seal.                                                                   *)
Emit(e, key, body) ==
    /\ frames' = frames \cup {[key |-> key, sequence |-> nextSend[e],
                               aad |-> PurposeOf(body), body |-> body]}
    /\ nextSend' = [nextSend EXCEPT ![e] = @ + 1]
    /\ sentBytes' = [sentBytes EXCEPT ![e] = @ + SizeOf[body.kind]]
    /\ said' = [said EXCEPT ![e] = Append(@, body)]
    /\ UNCHANGED <<nextReceive, receivedBytes>>

Trusted(r, x) == DeviceOf[x] \in Trusts[DeviceOf[r]]

(* handle_secure_incoming, dispatch_relay_session: a handshake is answered *)
(* with one of the same session, the channel is made and confirmed.        *)
Answer(r, x) ==
    LET mine == Greeting(hello[x].session) IN
    /\ stage[r] = "idle" /\ x # r /\ hello[x] # None /\ Trusted(r, x)
    /\ Agreeable(mine, x, DeviceOf[x])
    /\ hello' = [hello EXCEPT ![r] = mine]
    /\ peer' = [peer EXCEPT ![r] = x]
    /\ Become(r, "open")
    /\ Sealable(r, Ready)
    /\ Emit(r, SendKey(r, x), Ready)
    /\ UNCHANGED <<clock, job, heard, opened>>

(* A stranger gets no answer; an old handshake gets one, and no channel.   *)
AnswerRefused(r, x) ==
    /\ stage[r] = "idle" /\ x # r /\ hello[x] # None
    /\ \/ ~Trusted(r, x) /\ UNCHANGED hello
       \/ LET mine == Greeting(hello[x].session)
          IN  /\ Trusted(r, x) /\ ~Agreeable(mine, x, DeviceOf[x])
              /\ hello' = [hello EXCEPT ![r] = mine]
    /\ Become(r, "dropped")
    /\ UNCHANGED <<clock, peer, counters, frames, job, said, heard, opened>>

Establish(i, x) ==
    /\ stage[i] = "greeted" /\ x # i /\ hello[x] # None
    /\ Agreeable(hello[i], x, Expects[i])
    /\ peer' = [peer EXCEPT ![i] = x]
    /\ Become(i, "confirming")
    /\ UNCHANGED <<clock, hello, counters, frames, job, said, heard, opened>>

EstablishRefused(i, x) ==
    /\ stage[i] = "greeted" /\ x # i /\ hello[x] # None
    /\ ~Agreeable(hello[i], x, Expects[i])
    /\ Become(i, "dropped")
    /\ UNCHANGED <<clock, hello, peer, counters, frames, job, said, heard, opened>>

-----------------------------------------------------------------------------
(* Frames.                                                                 *)

Seal(e, body) ==
    /\ stage[e] = "open" /\ Sealable(e, body)
    /\ Emit(e, SendKey(e, peer[e]), body)
    /\ UNCHANGED <<clock, stage, hello, peer, job, heard, opened>>

(* SequenceExhausted ends the session.                                     *)
SealExhausted(e, body) ==
    /\ stage[e] = "open" /\ ~Sealable(e, body)
    /\ Become(e, "dropped")
    /\ UNCHANGED <<clock, hello, peer, counters, frames, job, said, heard, opened>>

(* The additional data an end waits for.                                   *)
Awaited(e) == IF stage[e] = "confirming" THEN "confirmation" ELSE "job"

(* Mutated forms: an older frame passes; the last frame does not.          *)
OpenableAgain(e, f, aad) ==
    /\ f.sequence <= nextReceive[e] /\ f.sequence < MaxFrames
    /\ f.key = ReceiveKey(e) /\ f.aad = aad
    /\ WithinLimit(receivedBytes[e], SizeOf[f.body.kind])

OpenableButTheLast(e, f, aad) ==
    /\ f.sequence = nextReceive[e] /\ f.sequence < MaxFrames - 1
    /\ f.key = ReceiveKey(e) /\ f.aad = aad
    /\ WithinLimit(receivedBytes[e], SizeOf[f.body.kind])

(* open returns Ok.                                                        *)
Openable(e, f, aad) ==
    /\ f.sequence = nextReceive[e] /\ f.sequence < MaxFrames
    /\ f.key = ReceiveKey(e) /\ f.aad = aad
    /\ WithinLimit(receivedBytes[e], SizeOf[f.body.kind])

Take(e, f) ==
    /\ nextReceive' = [nextReceive EXCEPT ![e] = @ + 1]
    /\ receivedBytes' = [receivedBytes EXCEPT ![e] = @ + SizeOf[f.body.kind]]
    /\ heard' = [heard EXCEPT ![e] = Append(@, f.body)]
    /\ UNCHANGED <<clock, hello, peer, nextSend, sentBytes, frames, said, opened>>

(* Any error leaves the channel as it is and ends the session.             *)
OpenRefused(e, f) ==
    /\ stage[e] \in {"confirming", "open"} /\ ~Openable(e, f, Awaited(e))
    /\ Become(e, "dropped")
    /\ UNCHANGED <<clock, hello, peer, counters, frames, job, said, heard, opened>>

(* The initiator's first frame is the confirmation.                        *)
HearProof(i, f) ==
    /\ stage[i] = "confirming" /\ Openable(i, f, Awaited(i))
    /\ Take(i, f) /\ Become(i, "open")
    /\ UNCHANGED job

HearDecision(i, f) ==
    /\ stage[i] = "open" /\ Openable(i, f, Awaited(i))
    /\ f.body.kind = "decision"
    /\ Take(i, f)
    /\ UNCHANGED <<stage, job>>

(* validate_v2_direct_offer; with a job that is not valid the session is   *)
(* over.                                                                   *)
HearOffer(r, f) ==
    /\ stage[r] = "open" /\ Openable(r, f, Awaited(r))
    /\ f.body.kind = "offer" /\ offer[r] = None
    /\ DeviceOf[r] \in f.body.job.recipients
    /\ offer' = [offer EXCEPT ![r] = f.body.job]
    /\ Take(r, f)
    /\ UNCHANGED <<stage, jobKey>>

(* open_job_key.                                                           *)
KeyOpens(r, envelope) ==
    /\ envelope.job = offer[r]
    /\ envelope.recipient = DeviceOf[r] /\ DeviceOf[r] \in offer[r].recipients
    /\ envelope.under = ReceiveKey(r)

HearKey(r, f) ==
    /\ stage[r] = "open" /\ Openable(r, f, Awaited(r))
    /\ f.body.kind = "key" /\ offer[r] # None /\ KeyOpens(r, f.body)
    /\ jobKey' = [jobKey EXCEPT ![r] = f.body.key]
    /\ Take(r, f)
    /\ UNCHANGED <<stage, offer>>

(* A key before the offer, or a second offer.                              *)
HearOutOfPlace(r, f) ==
    /\ stage[r] = "open" /\ Openable(r, f, Awaited(r))
    /\ IF offer[r] = None THEN f.body.kind = "key" ELSE f.body.kind = "offer"
    /\ Take(r, f) /\ Become(r, "dropped")
    /\ UNCHANGED job

-----------------------------------------------------------------------------
(* Pieces.                                                                 *)

(* seal_piece; the text is that of the snapshot.                           *)
SealedPiece(i, p) ==
    [key |-> i, aad |-> [job |-> SessionOf[i], root |-> RootOf[i], piece |-> p],
     text |-> <<RootOf[i], p>>]

(* Mutated form: the place in the snapshot is not authenticated.           *)
PieceOpensAnywhere(r, sealed, header) ==
    sealed.key = jobKey[r] /\ sealed.aad.job = header.job

(* open_piece: the job and the place are the header's, the root is the     *)
(* receiver's own.                                                         *)
PieceOpens(r, sealed, header) ==
    /\ sealed.key = jobKey[r]
    /\ sealed.aad = [job |-> header.job, root |-> offer[r].root, piece |-> header.piece]

(* A piece may come over this channel or from a relay, under whichever     *)
(* header; the receiver has compared the header's job with its own.        *)
OpenPiece(r, i, p, q) ==
    LET sealed == SealedPiece(i, p)
        header == [job |-> offer[r].id, piece |-> q]
    IN
    /\ stage[r] = "open" /\ jobKey[r] # None /\ stage[i] = "open"
    /\ PieceOpens(r, sealed, header)
    /\ opened' = opened \cup {[by |-> r, piece |-> q, text |-> sealed.text]}
    /\ UNCHANGED <<clock, stage, hello, peer, counters, frames, job, said, heard>>

-----------------------------------------------------------------------------
Tick ==
    /\ clock < MaxClock /\ clock' = clock + 1
    /\ UNCHANGED <<stage, hello, peer, counters, frames, job, said, heard, opened>>

Handshake(e) ==
    \/ e \in Initiators /\ Greet(e)
    \/ \E x \in Ends :
          \/ e \in Responders /\ (Answer(e, x) \/ AnswerRefused(e, x))
          \/ e \in Initiators /\ (Establish(e, x) \/ EstablishRefused(e, x))

Talk(e) ==
    \/ \E body \in Says(e) : Seal(e, body) \/ SealExhausted(e, body)
    \/ \E f \in frames :
          \/ e \in Initiators /\ (HearProof(e, f) \/ HearDecision(e, f))
          \/ /\ e \in Responders
             /\ HearOffer(e, f) \/ HearKey(e, f) \/ HearOutOfPlace(e, f)
          \/ OpenRefused(e, f)

Unpack(r) == \E i \in Initiators, p, q \in Pieces : OpenPiece(r, i, p, q)

Next == Tick \/ (\E e \in Ends : Handshake(e) \/ Talk(e)) \/ (\E r \in Responders : Unpack(r))

Spec == Init /\ [][Next]_vars

-----------------------------------------------------------------------------
(* The shapes, and the limits of a channel.                                *)
TypeOK ==
    /\ clock \in 0..MaxClock
    /\ stage \in [Ends -> Stages]
    /\ peer \in [Ends -> Ends \cup {None}]
    /\ \A e \in Ends : hello[e] = None \/ hello[e].time \in 0..clock
    /\ nextSend \in [Ends -> 0..MaxFrames] /\ nextReceive \in [Ends -> 0..MaxFrames]
    /\ sentBytes \in [Ends -> 0..MaxBytes] /\ receivedBytes \in [Ends -> 0..MaxBytes]
    /\ jobKey \in [Ends -> Initiators \cup {None}]

Mutual(e) == peer[e] # None /\ peer[peer[e]] = e

(* No key is ever used twice with one sequence number, which is the nonce: *)
(* not by the two ends of a channel, nor by two attempts.                  *)
NonceOnce == \A f, g \in frames : f.key = g.key /\ f.sequence = g.sequence => f = g

(* The two ends count alike: what one has sealed within its limits, the    *)
(* other can open within its own, up to the last frame and byte.           *)
WhatIsSealedOpens ==
    \A e \in Ends :
        Mutual(e) /\ Len(heard[e]) < Len(said[peer[e]]) =>
            \E f \in frames : /\ Openable(e, f, f.aad)
                              /\ f.body = said[peer[e]][Len(heard[e]) + 1]

(* A receiver gets, at each place, the bytes that the very attempt it is   *)
(* connected to has in its snapshot there: not those of an attempt before, *)
(* and not those of another place.                                         *)
PieceIsThePeers ==
    \A x \in opened : Mutual(x.by) /\ x.text = <<RootOf[peer[x.by]], x.piece>>

Line == INSTANCE PrivateLine WITH partner <- peer

(* Lost, repeated, reordered and misdirected frames make no difference to  *)
(* what an end may hear.                                                   *)
ImplementsLine == Line!Spec
=============================================================================
