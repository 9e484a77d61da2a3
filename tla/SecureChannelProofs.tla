------------------------ MODULE SecureChannelProofs ------------------------
(***************************************************************************)
(* Proofs about SecureChannel.  What an end has sealed determines the      *)
(* frames of its key (Written); a key belongs to two ends that have each   *)
(* other's handshake, of which one is the initiator (TwoRoles); so a frame *)
(* that opens is the next one of the end's only partner.                   *)
(***************************************************************************)
EXTENDS SecureChannel, TLAPS

USE DEF Stages

(* The part of the type that the rest needs.                               *)
Shaped ==
    /\ clock \in 0..MaxClock
    /\ stage \in [Ends -> Stages]
    /\ DOMAIN hello = Ends
    /\ peer \in [Ends -> Ends \cup {None}]
    /\ nextSend \in [Ends -> 0..MaxFrames] /\ nextReceive \in [Ends -> 0..MaxFrames]
    /\ sentBytes \in [Ends -> 0..MaxBytes] /\ receivedBytes \in [Ends -> 0..MaxBytes]
    /\ said \in [Ends -> Seq(Bodies)] /\ heard \in [Ends -> Seq(Bodies)]
    /\ \A f \in frames : f.body \in Bodies
    /\ DOMAIN offer = Ends /\ jobKey \in [Ends -> Initiators \cup {None}]

(* Every body has a size.                                                  *)
LEMMA BodiesSized == ASSUME NEW b \in Bodies PROVE SizeOf[b.kind] \in Nat
BY ChannelAssumption DEF Bodies, Ready, Decision, Offer, Envelope

(* What is within the limit can be added.                                  *)
LEMMA Room ==
    ASSUME NEW used \in 0..MaxBytes, NEW next \in Nat, WithinLimit(used, next)
    PROVE  used + next \in 0..MaxBytes
BY ChannelAssumption DEF WithinLimit

(* What an end says is a body.                                             *)
LEMMA SaysBodies ==
    ASSUME NEW e \in Ends, peer[e] \in Ends, NEW b \in Says(e) PROVE b \in Bodies
<1>1. CASE e \in Initiators
  <2>1. b = Offer(e) \/ b = Envelope(e, peer[e]) BY <1>1 DEF Says
  <2> QED BY <1>1, <2>1 DEF Bodies
<1>2. CASE e \notin Initiators
  BY <1>2 DEF Says, Bodies
<1> QED BY <1>1, <1>2

(* No end is called None.                                                  *)
LEMMA NoneIsNoEnd == \A e \in Ends : e # None
BY ChannelAssumption

(* How far an end is, and what it has by then.                             *)
Staged ==
    \A e \in Ends :
        /\ stage[e] = "idle" => hello[e] = None
        /\ stage[e] \in {"idle", "greeted"} => peer[e] = None
        /\ stage[e] \in {"confirming", "open"} => peer[e] # None
        /\ peer[e] = None => said[e] = <<>>
        /\ e \in Responders => stage[e] \notin {"greeted", "confirming"}

(* Whose handshakes a channel is made with.                                *)
Paired ==
    /\ \A i \in Initiators :
          /\ stage[i] # "idle" => hello[i].session = SessionOf[i]
          /\ peer[i] # None => DeviceOf[peer[i]] = Expects[i]
    /\ \A e \in Ends :
          peer[e] # None => /\ peer[e] # e /\ stage[peer[e]] # "idle"
                            /\ hello[e].session = hello[peer[e]].session
    /\ \A q, r \in Responders : ~(peer[q] = r /\ peer[r] = q)

Counted == \A e \in Ends : nextSend[e] = Len(said[e]) /\ nextReceive[e] = Len(heard[e])

FrameOf(e, n) == [key |-> SendKey(e, peer[e]), sequence |-> n - 1,
                  aad |-> PurposeOf(said[e][n]), body |-> said[e][n]]

Written ==
    \A f \in frames :
        \E e \in Ends : peer[e] # None /\ \E n \in 1..Len(said[e]) : f = FrameOf(e, n)

ChannelInv == Shaped /\ Staged /\ Paired /\ Counted /\ Written

(* The step that nearly all others contain.                                *)
LEMMA TakeShaped ==
    ASSUME Shaped, NEW e \in Ends, NEW f \in frames, NEW aad, Openable(e, f, aad),
           Take(e, f)
    PROVE  /\ nextReceive' \in [Ends -> 0..MaxFrames]
           /\ receivedBytes' \in [Ends -> 0..MaxBytes]
           /\ heard' \in [Ends -> Seq(Bodies)]
<1>1. SizeOf[f.body.kind] \in Nat BY BodiesSized DEF Shaped
<1>2. nextReceive[e] + 1 \in 0..MaxFrames
  BY ChannelAssumption DEF Shaped, Openable
<1>3. receivedBytes[e] + SizeOf[f.body.kind] \in 0..MaxBytes
  BY <1>1, Room DEF Shaped, Openable
<1> QED BY <1>2, <1>3 DEF Shaped, Take

(* A frame that is sealed keeps the shapes and the limits.                 *)
LEMMA EmitShaped ==
    ASSUME Shaped, NEW e \in Ends, NEW key, NEW body \in Bodies, Sealable(e, body),
           Emit(e, key, body)
    PROVE  /\ nextSend' \in [Ends -> 0..MaxFrames] /\ nextReceive' = nextReceive
           /\ sentBytes' \in [Ends -> 0..MaxBytes] /\ receivedBytes' = receivedBytes
           /\ said' \in [Ends -> Seq(Bodies)]
           /\ \A f \in frames' : f.body \in Bodies
<1>1. SizeOf[body.kind] \in Nat BY BodiesSized
<1>2. nextSend[e] + 1 \in 0..MaxFrames
  BY SMTT(60), ChannelAssumption DEF Shaped, Sealable
<1>3. sentBytes[e] + SizeOf[body.kind] \in 0..MaxBytes
  BY <1>1, Room DEF Shaped, Sealable
<1> QED BY <1>2, <1>3 DEF Shaped, Emit

(* The confirmation is a body.                                             *)
LEMMA ReadyIsABody == Ready \in Bodies
BY DEF Bodies

(* The shapes before any handshake.                                        *)
LEMMA InitShaped == Init => Shaped
BY ChannelAssumption DEF Init, Shaped

(* What an offer and a key are.                                            *)
LEMMA OfferIsKnown ==
    ASSUME NEW f, f.body \in Bodies, f.body.kind = "key"
    PROVE  f.body.key \in Initiators
BY DEF Bodies, Ready, Decision, Offer, Envelope

(* Every step keeps the shapes and the limits.                             *)
LEMMA NextShaped == Shaped /\ Staged /\ [Next]_vars => Shaped'
<1> SUFFICES ASSUME Shaped, Staged, [Next]_vars PROVE Shaped' OBVIOUS
<1>1. CASE Tick BY <1>1, ChannelAssumption DEF Tick, Shaped, counters, job
<1>2. ASSUME NEW e \in Ends, Handshake(e) PROVE Shaped'
  <2>1. CASE e \in Initiators /\ Greet(e)
    BY <2>1 DEF Greet, Become, Shaped, counters, job
  <2>2. ASSUME NEW x \in Ends, e \in Responders, Answer(e, x) PROVE Shaped'
    BY <2>2, EmitShaped, ReadyIsABody DEF Answer, Become, Shaped, job
  <2>3. ASSUME NEW x \in Ends, AnswerRefused(e, x) PROVE Shaped'
    BY <2>3 DEF AnswerRefused, Become, Shaped, counters, job
  <2>4. ASSUME NEW x \in Ends, Establish(e, x) PROVE Shaped'
    BY <2>4 DEF Establish, Become, Shaped, counters, job
  <2>5. ASSUME NEW x \in Ends, EstablishRefused(e, x) PROVE Shaped'
    BY <2>5 DEF EstablishRefused, Become, Shaped, counters, job
  <2> QED BY <1>2, <2>1, <2>2, <2>3, <2>4, <2>5 DEF Handshake
<1>3. ASSUME NEW e \in Ends, NEW body \in Says(e), Seal(e, body) PROVE Shaped'
  <2>1. peer[e] \in Ends BY <1>3 DEF Seal, Staged, Shaped
  <2>2. body \in Bodies BY <2>1, SaysBodies
  <2> QED BY <1>3, <2>2, EmitShaped DEF Seal, Shaped, job
<1>4. ASSUME NEW e \in Ends, NEW body, SealExhausted(e, body) PROVE Shaped'
  BY <1>4 DEF SealExhausted, Become, Shaped, counters, job
<1>5. ASSUME NEW e \in Ends, NEW f \in frames, HearProof(e, f) PROVE Shaped'
  BY <1>5, TakeShaped DEF HearProof, Become, Take, Shaped, job
<1>6. ASSUME NEW e \in Ends, NEW f \in frames, HearDecision(e, f) PROVE Shaped'
  BY <1>6, TakeShaped DEF HearDecision, Take, Shaped, job
<1>7. ASSUME NEW e \in Ends, NEW f \in frames, HearOffer(e, f) PROVE Shaped'
  BY <1>7, TakeShaped DEF HearOffer, Take, Shaped
<1>8. ASSUME NEW e \in Ends, NEW f \in frames, HearKey(e, f) PROVE Shaped'
  <2>1. f.body.key \in Initiators BY <1>8, OfferIsKnown DEF HearKey, Shaped
  <2> QED BY <1>8, <2>1, TakeShaped DEF HearKey, Take, Shaped
<1>9. ASSUME NEW e \in Ends, NEW f \in frames, HearOutOfPlace(e, f) PROVE Shaped'
  BY <1>9, TakeShaped DEF HearOutOfPlace, Become, Take, Shaped, job
<1>10. ASSUME NEW e \in Ends, NEW f, OpenRefused(e, f) PROVE Shaped'
  BY <1>10 DEF OpenRefused, Become, Shaped, counters, job
<1>11. ASSUME NEW r \in Responders, Unpack(r) PROVE Shaped'
  BY <1>11 DEF Unpack, OpenPiece, Shaped, counters, job
<1>12. CASE UNCHANGED vars BY <1>12 DEF vars, Shaped, counters, job
<1> QED BY <1>1, <1>2, <1>3, <1>4, <1>5, <1>6, <1>7, <1>8, <1>9, <1>10, <1>11, <1>12
        DEF Next, Talk

-----------------------------------------------------------------------------
(* The stages and the pairs.                                               *)

(* Nobody has a peer yet.                                                  *)
LEMMA InitPaired == Init => Staged /\ Paired
BY ChannelAssumption DEF Init, Staged, Paired, Ends

(* What a step that is not about the handshake may do to the stages.       *)
LEMMA LaterStage ==
    ASSUME Shaped, Staged, Paired, UNCHANGED <<hello, peer>>,
           NEW e \in Ends, stage[e] \in {"confirming", "open"},
           NEW s \in {"open", "dropped"}, Become(e, s) \/ UNCHANGED stage,
           \A d \in Ends : peer[d] = None => said'[d] = said[d]
    PROVE  (Staged /\ Paired)'
<1>1. stage' \in [Ends -> Stages] /\ \A d \in Ends :
          /\ d # e => stage'[d] = stage[d]
          /\ stage'[e] \in {"confirming", "open", "dropped"}
          /\ stage'[e] = "confirming" => stage[e] = "confirming"
  BY DEF Shaped, Become
<1>2. peer[e] # None BY DEF Staged
<1>3. Staged' BY <1>1, <1>2 DEF Staged
<1>4. \A d \in Ends : stage[d] # "idle" <=> stage'[d] # "idle" BY <1>1
<1>5. \A i \in Initiators : i \in Ends BY DEF Ends
<1>6. \A d \in Ends : peer[d] # None => peer[d] \in Ends BY DEF Shaped
<1>7. Paired' BY <1>4, <1>5, <1>6 DEF Paired
<1> QED BY <1>3, <1>7

(* Every step keeps the stages and the pairs.                              *)
LEMMA NextPaired == Shaped /\ Staged /\ Paired /\ [Next]_vars => (Staged /\ Paired)'
<1> SUFFICES ASSUME Shaped, Staged, Paired, [Next]_vars PROVE (Staged /\ Paired)'
    OBVIOUS
<1> USE NoneIsNoEnd
<1>a. Initiators \subseteq Ends /\ Responders \subseteq Ends BY DEF Ends
<1>b. Initiators \cap Responders = {} BY ChannelAssumption
<1>1. CASE Tick BY <1>1 DEF Tick, Staged, Paired
<1>2. ASSUME NEW e \in Ends, Handshake(e) PROVE (Staged /\ Paired)'
  <2>1. CASE e \in Initiators /\ Greet(e)
    <3>1. /\ stage[e] = "idle" /\ stage' = [stage EXCEPT ![e] = "greeted"]
          /\ hello' = [hello EXCEPT ![e] = Greeting(SessionOf[e])]
          /\ UNCHANGED <<peer, said>>
      BY <2>1 DEF Greet, Become
    <3>2. hello'[e].session = SessionOf[e] BY <3>1 DEF Greeting, Shaped
    <3>3. peer[e] = None /\ \A d \in Ends : peer[d] # e
      BY <3>1 DEF Staged, Paired
    <3>4. \A d \in Ends : d # e => stage'[d] = stage[d] /\ hello'[d] = hello[d]
      BY <3>1 DEF Shaped
    <3>5. stage'[e] = "greeted" BY <3>1 DEF Shaped
    <3>6. Staged' BY <2>1, <3>1, <3>3, <3>4, <3>5, <1>b DEF Staged
    <3>7. Paired'
      <4>1. \A d \in Ends : peer[d] # None => peer[d] \in Ends BY DEF Shaped
      <4>2. \A d \in Ends : peer'[d] = peer[d] BY <3>1
      <4> QED BY <1>a, <3>2, <3>3, <3>4, <3>5, <4>1, <4>2 DEF Paired
    <3> QED BY <3>6, <3>7
  <2>2. ASSUME NEW x \in Ends, e \in Responders, Answer(e, x)
        PROVE (Staged /\ Paired)'
    <3>1. /\ stage[e] = "idle" /\ stage' = [stage EXCEPT ![e] = "open"]
          /\ hello' = [hello EXCEPT ![e] = Greeting(hello[x].session)]
          /\ peer' = [peer EXCEPT ![e] = x] /\ x # e /\ hello[x] # None
          /\ \A d \in Ends : d # e => said'[d] = said[d]
      BY <2>2 DEF Answer, Become, Emit, Shaped
    <3>2. stage[x] # "idle" BY <3>1 DEF Staged
    <3>3. peer[e] = None /\ \A d \in Ends : peer[d] # e
      BY <3>1 DEF Staged, Paired
    <3>4. \A d \in Ends : d # e => /\ stage'[d] = stage[d] /\ hello'[d] = hello[d]
                                   /\ peer'[d] = peer[d]
      BY <3>1 DEF Shaped
    <3>5. stage'[e] = "open" /\ peer'[e] = x BY <3>1 DEF Shaped
    <3>6. hello'[e].session = hello[x].session BY <3>1 DEF Greeting, Shaped
    <3>7. Staged' BY <2>2, <3>1, <3>4, <3>5, <1>b DEF Staged
    <3>8. Paired'
      <4>1. \A d \in Ends : peer[d] # None => peer[d] \in Ends BY DEF Shaped
      <4>2. e \notin Initiators BY <2>2, <1>b
      <4>3. \A i \in Initiators :
              /\ stage'[i] # "idle" => hello'[i].session = SessionOf[i]
              /\ peer'[i] # None => DeviceOf[peer'[i]] = Expects[i]
        BY <1>a, <3>4, <4>2 DEF Paired
      <4>4. \A d \in Ends :
              peer'[d] # None => /\ peer'[d] # d /\ stage'[peer'[d]] # "idle"
                                 /\ hello'[d].session = hello'[peer'[d]].session
        BY <3>1, <3>2, <3>3, <3>4, <3>5, <3>6, <4>1 DEF Paired
      <4>5. \A q, r \in Responders : ~(peer'[q] = r /\ peer'[r] = q)
        BY <1>a, <3>1, <3>3, <3>4, <3>5 DEF Paired
      <4> QED BY <4>3, <4>4, <4>5 DEF Paired
    <3> QED BY <3>7, <3>8
  <2>3. ASSUME NEW x \in Ends, e \in Responders, AnswerRefused(e, x)
        PROVE (Staged /\ Paired)'
    <3>1. /\ stage[e] = "idle" /\ stage' = [stage EXCEPT ![e] = "dropped"]
          /\ \A d \in Ends : d # e => hello'[d] = hello[d]
          /\ UNCHANGED <<peer, said>>
      BY <2>3 DEF AnswerRefused, Become, Shaped
    <3>3. peer[e] = None /\ \A d \in Ends : peer[d] # e
      BY <3>1 DEF Staged, Paired
    <3>4. \A d \in Ends : d # e => stage'[d] = stage[d] BY <3>1 DEF Shaped
    <3>5. stage'[e] = "dropped" BY <3>1 DEF Shaped
    <3>6. Staged' BY <3>1, <3>4, <3>5 DEF Staged
    <3>7. Paired'
      <4>1. \A d \in Ends : peer[d] # None => peer[d] \in Ends BY DEF Shaped
      <4>2. e \notin Initiators BY <2>3, <1>b
      <4>3. \A d \in Ends : peer'[d] = peer[d] BY <3>1
      <4> QED BY <1>a, <3>1, <3>3, <3>4, <3>5, <4>1, <4>2, <4>3 DEF Paired
    <3> QED BY <3>6, <3>7
  <2>4. ASSUME NEW x \in Ends, e \in Initiators, Establish(e, x)
        PROVE (Staged /\ Paired)'
    <3>1. /\ stage[e] = "greeted" /\ stage' = [stage EXCEPT ![e] = "confirming"]
          /\ peer' = [peer EXCEPT ![e] = x] /\ x # e /\ hello[x] # None
          /\ DeviceOf[x] = Expects[e] /\ hello[e].session = hello[x].session
          /\ UNCHANGED <<hello, said>>
      BY <2>4 DEF Establish, Agreeable, Become
    <3>2. stage[x] # "idle" BY <3>1 DEF Staged
    <3>4. \A d \in Ends : d # e => stage'[d] = stage[d] /\ peer'[d] = peer[d]
      BY <3>1 DEF Shaped
    <3>5. stage'[e] = "confirming" /\ peer'[e] = x BY <3>1 DEF Shaped
    <3>6. Staged' BY <2>4, <1>b, <3>1, <3>4, <3>5 DEF Staged
    <3>7. Paired'
      <4>1. \A d \in Ends : peer[d] # None => peer[d] \in Ends BY DEF Shaped
      <4>2. e \notin Responders BY <2>4, <1>b
      <4>3. \A d \in Ends : stage[d] # "idle" <=> stage'[d] # "idle"
        BY <3>1, <3>4, <3>5
      <4>4. \A i \in Initiators :
              /\ stage'[i] # "idle" => hello'[i].session = SessionOf[i]
              /\ peer'[i] # None => DeviceOf[peer'[i]] = Expects[i]
        BY <1>a, <3>1, <3>4, <3>5, <4>3 DEF Paired
      <4>5. \A d \in Ends :
              peer'[d] # None => /\ peer'[d] # d /\ stage'[peer'[d]] # "idle"
                                 /\ hello'[d].session = hello'[peer'[d]].session
        BY <3>1, <3>2, <3>4, <3>5, <4>1, <4>3 DEF Paired
      <4>6. \A q, r \in Responders : ~(peer'[q] = r /\ peer'[r] = q)
        BY <1>a, <3>4, <4>2 DEF Paired
      <4> QED BY <4>4, <4>5, <4>6 DEF Paired
    <3> QED BY <3>6, <3>7
  <2>5. ASSUME NEW x \in Ends, e \in Initiators, EstablishRefused(e, x)
        PROVE (Staged /\ Paired)'
    <3>1. /\ stage[e] = "greeted" /\ stage' = [stage EXCEPT ![e] = "dropped"]
          /\ UNCHANGED <<hello, peer, said>>
      BY <2>5 DEF EstablishRefused, Become
    <3>2. \A d \in Ends : d # e => stage'[d] = stage[d] BY <3>1 DEF Shaped
    <3>3. stage'[e] = "dropped" BY <3>1 DEF Shaped
    <3>4. Staged' BY <3>1, <3>2, <3>3 DEF Staged
    <3>5. Paired'
      <4>1. \A d \in Ends : peer[d] # None => peer[d] \in Ends BY DEF Shaped
      <4>2. \A d \in Ends : /\ stage[d] # "idle" <=> stage'[d] # "idle"
                            /\ peer'[d] = peer[d] /\ hello'[d] = hello[d]
        BY <3>1, <3>2, <3>3
      <4> QED BY <1>a, <4>1, <4>2 DEF Paired
    <3> QED BY <3>4, <3>5
  <2> QED BY <1>2, <2>1, <2>2, <2>3, <2>4, <2>5 DEF Handshake
<1>3. ASSUME NEW e \in Ends, NEW body, Seal(e, body) PROVE (Staged /\ Paired)'
  <2>1. stage[e] = "open" /\ UNCHANGED <<stage, hello, peer>>
    BY <1>3 DEF Seal
  <2>2. \A d \in Ends : peer[d] = None => said'[d] = said[d]
    BY <1>3, <2>1 DEF Seal, Emit, Staged, Shaped
  <2> QED BY <2>1, <2>2, LaterStage
<1>4. ASSUME NEW e \in Ends, NEW body, SealExhausted(e, body) PROVE (Staged /\ Paired)'
  BY <1>4, LaterStage DEF SealExhausted
<1>5. ASSUME NEW e \in Ends, NEW f, \/ HearProof(e, f) \/ HearDecision(e, f)
                                    \/ HearOffer(e, f) \/ HearKey(e, f)
                                    \/ HearOutOfPlace(e, f) \/ OpenRefused(e, f)
      PROVE (Staged /\ Paired)'
  <2>1. stage[e] \in {"confirming", "open"} /\ UNCHANGED <<hello, peer, said>>
    BY <1>5 DEF HearProof, HearDecision, HearOffer, HearKey, HearOutOfPlace,
                OpenRefused, Take
  <2>2. UNCHANGED stage \/ Become(e, "open") \/ Become(e, "dropped")
    BY <1>5 DEF HearProof, HearDecision, HearOffer, HearKey, HearOutOfPlace,
                OpenRefused
  <2> QED BY <2>1, <2>2, LaterStage
<1>6. ASSUME NEW r \in Responders, Unpack(r) PROVE (Staged /\ Paired)'
  BY <1>6 DEF Unpack, OpenPiece, Staged, Paired
<1>7. CASE UNCHANGED vars BY <1>7 DEF vars, Staged, Paired
<1> QED BY <1>1, <1>2, <1>3, <1>4, <1>5, <1>6, <1>7 DEF Next, Talk

-----------------------------------------------------------------------------
(* Frames and keys.                                                        *)

(* Nothing has been said.                                                  *)
LEMMA InitWritten == Init => Counted /\ Written
BY DEF Init, Counted, Written

(* What Emit adds is the frame of the body it appends.                     *)
LEMMA EmitWritten ==
    ASSUME Shaped, Counted, Written, NEW e \in Ends, NEW body \in Bodies,
           peer' \in [Ends -> Ends \cup {None}], peer'[e] # None,
           \A d \in Ends : d # e => peer'[d] = peer[d],
           peer[e] = None => said[e] = <<>>,
           peer[e] # None => peer'[e] = peer[e],
           Emit(e, SendKey(e, peer'[e]), body), UNCHANGED heard
    PROVE  (Counted /\ Written)'
<1> DEFINE new == [key |-> SendKey(e, peer'[e]), sequence |-> nextSend[e],
                   aad |-> PurposeOf(body), body |-> body]
<1>1. /\ frames' = frames \cup {new}
      /\ nextSend' = [nextSend EXCEPT ![e] = @ + 1] /\ nextReceive' = nextReceive
      /\ said' = [said EXCEPT ![e] = Append(@, body)]
  BY DEF Emit
<1>2. said[e] \in Seq(Bodies) /\ nextSend[e] = Len(said[e]) /\ Len(said[e]) \in Nat
  BY DEF Shaped, Counted
<1>3. said'[e] = Append(said[e], body) /\ \A d \in Ends : d # e => said'[d] = said[d]
  BY <1>1 DEF Shaped
<1>m. PICK m \in Nat : m = Len(said[e]) + 1 BY <1>2
<1>4. Len(said'[e]) = m /\ said'[e][m] = body BY <1>2, <1>3, <1>m
<1>5. \A n \in 1..Len(said[e]) : said'[e][n] = said[e][n] /\ n \in 1..Len(said'[e])
  BY <1>2, <1>3
<1>6. Counted'
  <2>1. nextSend'[e] = Len(said'[e]) BY <1>1, <1>2, <1>m, <1>4 DEF Shaped
  <2>2. \A d \in Ends : d # e => nextSend'[d] = nextSend[d] BY <1>1 DEF Shaped
  <2> QED BY <1>1, <1>3, <2>1, <2>2 DEF Counted
<1>7. new = FrameOf(e, m)'
  <2>1. nextSend[e] = m - 1 BY <1>2, <1>m
  <2> QED BY <1>4, <2>1 DEF FrameOf, SendKey, Directions, PurposeOf
<1>8. ASSUME NEW f \in frames
      PROVE  \E d \in Ends : peer'[d] # None /\ \E n \in 1..Len(said'[d]) : f = FrameOf(d, n)'
  <2>1. PICK d \in Ends : peer[d] # None /\ \E n \in 1..Len(said[d]) : f = FrameOf(d, n)
    BY DEF Written
  <2>2. PICK n \in 1..Len(said[d]) : f = FrameOf(d, n) BY <2>1
  <2>3. peer'[d] = peer[d] BY <2>1
  <2>4. said'[d][n] = said[d][n] /\ n \in 1..Len(said'[d]) BY <1>3, <1>5, <2>2
  <2>5. f = FrameOf(d, n)'
    BY <2>2, <2>3, <2>4 DEF FrameOf, SendKey, Directions, PurposeOf
  <2> QED BY <2>1, <2>3, <2>4, <2>5
<1>9. Written'
  <2>1. m \in 1..Len(said'[e]) BY <1>2, <1>m, <1>4
  <2> QED BY <1>1, <1>7, <1>8, <2>1 DEF Written
<1> QED BY <1>6, <1>9

(* Other steps leave what was said alone, and whoever has said something   *)
(* keeps its peer.                                                         *)
LEMMA QuietWritten ==
    ASSUME Shaped, Staged, Written, UNCHANGED <<frames, said>>,
           \A d \in Ends : peer[d] # None => peer'[d] = peer[d]
    PROVE  Written'
<1> SUFFICES ASSUME NEW f \in frames
             PROVE  \E d \in Ends : peer'[d] # None /\ \E n \in 1..Len(said'[d]) : f = FrameOf(d, n)'
  BY DEF Written
<1>1. PICK d \in Ends : peer[d] # None /\ \E n \in 1..Len(said[d]) : f = FrameOf(d, n)
  BY DEF Written
<1>2. PICK n \in 1..Len(said[d]) : f = FrameOf(d, n) BY <1>1
<1>3. f = FrameOf(d, n)' BY <1>1, <1>2 DEF FrameOf, SendKey, Directions, PurposeOf
<1> QED BY <1>1, <1>2, <1>3

(* A frame that is opened counts as heard.                                 *)
LEMMA TakeCounted ==
    ASSUME Shaped, Counted, NEW e \in Ends, NEW f \in frames, Take(e, f)
    PROVE  Counted'
<1>1. heard[e] \in Seq(Bodies) /\ nextReceive[e] = Len(heard[e])
  BY DEF Shaped, Counted
<1>2. /\ nextReceive' = [nextReceive EXCEPT ![e] = @ + 1]
      /\ heard' = [heard EXCEPT ![e] = Append(@, f.body)]
      /\ UNCHANGED <<nextSend, said>>
  BY DEF Take
<1>3. Len(heard'[e]) = Len(heard[e]) + 1 BY <1>1, <1>2 DEF Shaped
<1>4. nextReceive'[e] = Len(heard'[e]) BY <1>1, <1>2, <1>3 DEF Shaped
<1>5. \A d \in Ends : d # e => nextReceive'[d] = nextReceive[d] /\ heard'[d] = heard[d]
  BY <1>2 DEF Shaped
<1> QED BY <1>2, <1>4, <1>5 DEF Counted

(* Every step keeps counters and frames what was said makes them.          *)
LEMMA NextWritten == ChannelInv /\ [Next]_vars => (Counted /\ Written)'
<1> SUFFICES ASSUME ChannelInv, [Next]_vars PROVE (Counted /\ Written)' OBVIOUS
<1> USE NoneIsNoEnd
<1>0. Shaped /\ Staged /\ Paired /\ Counted /\ Written BY DEF ChannelInv
<1>1. ASSUME UNCHANGED <<counters, frames, said, heard>>,
             \A d \in Ends : peer[d] # None => peer'[d] = peer[d]
      PROVE  (Counted /\ Written)'
  BY <1>0, <1>1, QuietWritten DEF Counted, counters
<1>2. ASSUME NEW e \in Ends, Handshake(e) PROVE (Counted /\ Written)'
  <2>1. CASE e \in Initiators /\ Greet(e) BY <1>1, <2>1 DEF Greet
  <2>2. ASSUME NEW x \in Ends, e \in Responders, Answer(e, x)
        PROVE (Counted /\ Written)'
    <3>1. /\ peer[e] = None /\ said[e] = <<>>
          /\ peer' = [peer EXCEPT ![e] = x] /\ UNCHANGED heard
          /\ Emit(e, SendKey(e, x), Ready)
      BY <1>0, <2>2 DEF Answer, Staged
    <3>2. /\ peer' \in [Ends -> Ends \cup {None}] /\ peer'[e] = x
          /\ \A d \in Ends : d # e => peer'[d] = peer[d]
      BY <1>0, <3>1 DEF Shaped
    <3> QED BY <1>0, <3>1, <3>2, EmitWritten, ReadyIsABody
  <2>3. ASSUME NEW x \in Ends, AnswerRefused(e, x) PROVE (Counted /\ Written)'
    BY <1>1, <2>3 DEF AnswerRefused
  <2>4. ASSUME NEW x \in Ends, Establish(e, x) PROVE (Counted /\ Written)'
    BY <1>0, <1>1, <2>4 DEF Establish, Staged, Shaped
  <2>5. ASSUME NEW x \in Ends, EstablishRefused(e, x) PROVE (Counted /\ Written)'
    BY <1>1, <2>5 DEF EstablishRefused
  <2> QED BY <1>2, <2>1, <2>2, <2>3, <2>4, <2>5 DEF Handshake
<1>3. ASSUME NEW e \in Ends, NEW body \in Says(e), Seal(e, body)
      PROVE (Counted /\ Written)'
  <2>1. peer[e] \in Ends BY <1>0, <1>3 DEF Seal, Staged, Shaped
  <2>2. body \in Bodies BY <2>1, SaysBodies
  <2>3. peer' = peer /\ heard' = heard /\ Emit(e, SendKey(e, peer'[e]), body)
    BY <1>3 DEF Seal
  <2> QED BY <1>0, <2>1, <2>2, <2>3, EmitWritten DEF Shaped
<1>4. ASSUME NEW e \in Ends, NEW f \in frames, Take(e, f) PROVE (Counted /\ Written)'
  BY <1>0, <1>4, TakeCounted, QuietWritten DEF Take
<1>5. CASE Tick \/ UNCHANGED vars BY <1>1, <1>5 DEF Tick, vars, counters
<1>6. ASSUME NEW e, NEW body, SealExhausted(e, body) \/ OpenRefused(e, body)
      PROVE (Counted /\ Written)'
  BY <1>1, <1>6 DEF SealExhausted, OpenRefused
<1>7. ASSUME NEW r, Unpack(r) PROVE (Counted /\ Written)'
  BY <1>1, <1>7 DEF Unpack, OpenPiece
<1> QED BY <1>2, <1>3, <1>4, <1>5, <1>6, <1>7
        DEF Next, Talk, HearProof, HearDecision, HearOffer, HearKey, HearOutOfPlace

(* The inductive invariant, which the theorems below rest on.              *)
THEOREM ChannelInvariant == Spec => []ChannelInv
<1>1. Init => ChannelInv BY InitShaped, InitPaired, InitWritten DEF ChannelInv
<1>2. ChannelInv /\ [Next]_vars => ChannelInv'
  BY NextShaped, NextPaired, NextWritten DEF ChannelInv
<1> QED BY <1>1, <1>2, PTL DEF Spec

(* The shapes, and that no channel goes beyond its limits, at either end.  *)
THEOREM ChannelTypeCorrect == Spec => []TypeOK
<1> DEFINE Dated == \A e \in Ends : hello[e] = None \/ hello[e].time \in 0..clock
<1>1. Init => Dated BY DEF Init
<1>2. ChannelInv /\ Dated /\ [Next]_vars => Dated'
  <2> SUFFICES ASSUME ChannelInv, Dated, [Next]_vars PROVE Dated' OBVIOUS
  <2>0. clock \in 0..MaxClock /\ DOMAIN hello = Ends /\ MaxClock \in Nat
    BY ChannelAssumption DEF ChannelInv, Shaped
  <2>1. CASE Tick
    <3>1. clock' = clock + 1 /\ hello' = hello BY <2>1 DEF Tick
    <3>2. \A t \in 0..clock : t \in 0..clock' BY <2>0, <3>1
    <3> QED BY <3>1, <3>2
  <2>2. ASSUME NEW e \in Ends, NEW s,
               hello' = [hello EXCEPT ![e] = Greeting(s)], clock' = clock
        PROVE Dated'
    <3>1. Greeting(s).time \in 0..clock BY <2>0 DEF Greeting
    <3>2. hello'[e] = Greeting(s) /\ \A d \in Ends : d # e => hello'[d] = hello[d]
      BY <2>0, <2>2
    <3> QED BY <2>2, <3>1, <3>2
  <2>3. CASE UNCHANGED <<hello, clock>> BY <2>3
  <2>4. ASSUME NEW e \in Ends, Handshake(e) PROVE Dated'
    <3>1. ASSUME NEW x \in Ends, Answer(e, x) PROVE Dated' BY <2>2, <3>1 DEF Answer
    <3>2. ASSUME NEW x \in Ends, AnswerRefused(e, x) PROVE Dated'
      BY <2>2, <2>3, <3>2 DEF AnswerRefused
    <3>3. CASE Greet(e) BY <2>2, <3>3 DEF Greet
    <3> QED BY <2>3, <2>4, <3>1, <3>2, <3>3 DEF Handshake, Establish, EstablishRefused
  <2>5. ASSUME NEW e \in Ends, Talk(e) PROVE UNCHANGED <<hello, clock>>
    BY <2>5 DEF Talk, Seal, SealExhausted, HearProof, HearDecision, HearOffer, HearKey,
                HearOutOfPlace, OpenRefused, Take
  <2>6. CASE (\E r \in Responders : Unpack(r)) \/ UNCHANGED vars
    BY <2>3, <2>6 DEF Unpack, OpenPiece, vars
  <2> QED BY <2>1, <2>3, <2>4, <2>5, <2>6 DEF Next
<1>3. ChannelInv /\ Dated => TypeOK BY DEF ChannelInv, Shaped, TypeOK
<1> QED BY <1>1, <1>2, <1>3, ChannelInvariant, PTL DEF Spec

-----------------------------------------------------------------------------
(* What follows from it.                                                   *)

(* Two ends that have each other's handshake are of different roles: two   *)
(* initiators of one session are of one device, which does not expect      *)
(* itself, and of two responders one has answered first.                   *)
LEMMA TwoRoles ==
    ASSUME ChannelInv, NEW d \in Ends, NEW e \in Ends, peer[d] = e, peer[e] = d
    PROVE  d # e /\ (d \in Initiators <=> e \in Responders)
<1>1. d # None /\ e # None BY NoneIsNoEnd
<1>2. d # e /\ hello[d].session = hello[e].session /\ stage[d] # "idle" /\ stage[e] # "idle"
  BY <1>1 DEF ChannelInv, Paired
<1>3. ASSUME d \in Initiators, e \in Initiators PROVE FALSE
  <2>1. SessionOf[d] = SessionOf[e] BY <1>2, <1>3 DEF ChannelInv, Paired
  <2>2. DeviceOf[d] = DeviceOf[e] BY <1>3, <2>1, ChannelAssumption
  <2>3. DeviceOf[e] = Expects[d] BY <1>1, <1>3 DEF ChannelInv, Paired
  <2> QED BY <1>3, <2>2, <2>3, ChannelAssumption
<1>4. ~(d \in Responders /\ e \in Responders) BY DEF ChannelInv, Paired
<1> QED BY <1>2, <1>3, <1>4, ChannelAssumption DEF Ends

(* Keys of two ends have the same label just when their roles say so.      *)
LEMMA Labels ==
    ASSUME NEW d \in Ends, NEW e \in Ends
    PROVE  /\ Directions(d).send = Directions(e).receive <=>
                 (d \in Initiators <=> e \in Responders)
           /\ Directions(d).send = Directions(e).send <=>
                 (d \in Initiators <=> e \in Initiators)
<1>1. \A x \in Ends : x \in Initiators <=> x \notin Responders
  BY ChannelAssumption DEF Ends
<1> QED BY <1>1 DEF Directions

(* A frame that opens is the partner's next one.                           *)
LEMMA OpenedIsNext ==
    ASSUME ChannelInv, NEW e \in Ends, NEW f \in frames, NEW aad, Openable(e, f, aad),
           peer[e] # None
    PROVE  /\ peer[e] \in Ends /\ peer[peer[e]] = e
           /\ e \in Responders <=> peer[e] \in Initiators
           /\ Len(heard[e]) + 1 \in 1..Len(said[peer[e]])
           /\ f.body = said[peer[e]][Len(heard[e]) + 1]
<1>1. PICK d \in Ends : peer[d] # None /\ \E n \in 1..Len(said[d]) : f = FrameOf(d, n)
  BY DEF ChannelInv, Written
<1>2. PICK n \in 1..Len(said[d]) : f = FrameOf(d, n) BY <1>1
<1>3. /\ f.key.ends = {d, peer[d]} /\ f.key.label = Directions(d).send
      /\ f.sequence = n - 1 /\ f.body = said[d][n]
  BY <1>2 DEF FrameOf, SendKey
<1>o. f.key = ReceiveKey(e) /\ f.sequence = nextReceive[e] BY DEF Openable
<1>k. f.key.ends = {e, peer[e]} /\ f.key.label = Directions(e).receive
  BY <1>o DEF ReceiveKey
<1>s. f.sequence = n - 1 BY <1>3
<1>4. {d, peer[d]} = {e, peer[e]} /\ Directions(d).send = Directions(e).receive
  BY <1>3, <1>k
<1>5. d \in Initiators <=> e \in Responders BY <1>4, Labels
<1>6. d # e BY <1>5, ChannelAssumption DEF Ends
<1>7. d = peer[e] /\ peer[d] = e BY <1>4, <1>6
<1>8. said[d] \in Seq(Bodies) /\ heard[e] \in Seq(Bodies) /\ nextReceive[e] = Len(heard[e])
  BY DEF ChannelInv, Shaped, Counted
<1>9. Len(said[d]) \in Nat /\ Len(heard[e]) \in Nat BY <1>8
<1>n. n \in Int BY <1>9
<1>p. n - 1 = Len(heard[e]) BY <1>o, <1>s, <1>8
<1>10. n = Len(heard[e]) + 1 BY <1>n, <1>p, <1>9
<1> QED BY <1>3, <1>5, <1>7, <1>10

(* Both ends of a channel and all attempts use a nonce once.               *)
THEOREM NoncesUsedOnce == Spec => []NonceOnce
<1>1. ChannelInv => NonceOnce
  <2> SUFFICES ASSUME ChannelInv, NEW f \in frames, NEW g \in frames, f.key = g.key,
                      f.sequence = g.sequence
               PROVE  f = g
    BY DEF NonceOnce
  <2>1. PICK d \in Ends : peer[d] # None /\ \E n \in 1..Len(said[d]) : f = FrameOf(d, n)
    BY DEF ChannelInv, Written
  <2>2. PICK n \in 1..Len(said[d]) : f = FrameOf(d, n) BY <2>1
  <2>3. PICK e \in Ends : peer[e] # None /\ \E m \in 1..Len(said[e]) : g = FrameOf(e, m)
    BY DEF ChannelInv, Written
  <2>4. PICK m \in 1..Len(said[e]) : g = FrameOf(e, m) BY <2>3
  <2>5. /\ f.key.ends = {d, peer[d]} /\ f.key.label = Directions(d).send
        /\ g.key.ends = {e, peer[e]} /\ g.key.label = Directions(e).send
        /\ f.sequence = n - 1 /\ g.sequence = m - 1
    BY <2>2, <2>4 DEF FrameOf, SendKey
  <2>6. n = m
    <3>1. said[d] \in Seq(Bodies) /\ said[e] \in Seq(Bodies) BY DEF ChannelInv, Shaped
    <3>2. Len(said[d]) \in Nat /\ Len(said[e]) \in Nat BY <3>1
    <3>3. n - 1 = m - 1 BY <2>5
    <3> QED BY <3>2, <3>3
  <2>7. {d, peer[d]} = {e, peer[e]} /\ Directions(d).send = Directions(e).send
    BY <2>5
  <2>8. d \in Initiators <=> e \in Initiators BY <2>7, Labels
  <2>9. d = e
    <3> SUFFICES ASSUME d # e PROVE FALSE OBVIOUS
    <3>1. peer[d] = e /\ peer[e] = d BY <2>7
    <3>2. d \in Initiators <=> e \in Responders BY <3>1, TwoRoles
    <3> QED BY <2>8, <3>2, ChannelAssumption DEF Ends
  <2> QED BY <2>2, <2>4, <2>6, <2>9
<1> QED BY <1>1, ChannelInvariant, PTL

-----------------------------------------------------------------------------
(* The refinement.                                                         *)

(* An end that takes a frame hears the next thing its partner has said.    *)
LEMMA TakeIsHear ==
    ASSUME ChannelInv, NEW e \in Ends, NEW f \in frames, NEW aad, Openable(e, f, aad),
           stage[e] \in {"confirming", "open"}, Take(e, f)
    PROVE  Line!Next
<1>1. peer[e] # None BY DEF ChannelInv, Staged
<1>2. /\ peer[e] \in Ends /\ peer[peer[e]] = e
      /\ Len(heard[e]) + 1 \in 1..Len(said[peer[e]])
      /\ f.body = said[peer[e]][Len(heard[e]) + 1]
  BY <1>1, OpenedIsNext
<1>3. Len(heard[e]) + 1 <= Len(said[peer[e]])
  BY <1>2 DEF ChannelInv, Shaped
<1>4. Line!Hear(e) BY <1>1, <1>2, <1>3 DEF Take, Line!Hear
<1> QED BY <1>4 DEF Line!Next

(* Every step of the channel is one of the line, or leaves it alone.       *)
LEMMA LineStep ==
    ChannelInv /\ [Next]_vars => [Line!Next]_<<peer, said, heard>>
<1> SUFFICES ASSUME ChannelInv, [Next]_vars PROVE [Line!Next]_<<peer, said, heard>>
    OBVIOUS
<1>1. ASSUME NEW e \in Ends, Handshake(e) PROVE [Line!Next]_<<peer, said, heard>>
  <2>1. CASE e \in Initiators /\ Greet(e) BY <2>1 DEF Greet
  <2>2. ASSUME NEW x \in Ends, e \in Responders, Answer(e, x) PROVE Line!Next
    <3>1. Line!Engage(e, x)
      BY <2>2, ReadyIsABody DEF Answer, Emit, Line!Engage, ChannelInv, Staged
    <3> QED BY <3>1 DEF Line!Next
  <2>3. ASSUME NEW x \in Ends, AnswerRefused(e, x)
        PROVE [Line!Next]_<<peer, said, heard>>
    BY <2>3 DEF AnswerRefused
  <2>4. ASSUME NEW x \in Ends, Establish(e, x) PROVE Line!Next
    <3>1. Line!Engage(e, x) BY <2>4 DEF Establish, Line!Engage, ChannelInv, Staged
    <3> QED BY <3>1 DEF Line!Next
  <2>5. ASSUME NEW x \in Ends, EstablishRefused(e, x)
        PROVE [Line!Next]_<<peer, said, heard>>
    BY <2>5 DEF EstablishRefused
  <2> QED BY <1>1, <2>1, <2>2, <2>3, <2>4, <2>5 DEF Handshake
<1>2. ASSUME NEW e \in Ends, NEW body \in Says(e), Seal(e, body) PROVE Line!Next
  <2>1. peer[e] \in Ends /\ peer[e] # None
    BY <1>2 DEF Seal, ChannelInv, Staged, Shaped
  <2>2. body \in Bodies BY <2>1, SaysBodies
  <2>3. Line!Say(e, body) BY <1>2, <2>1 DEF Seal, Emit, Line!Say
  <2> QED BY <2>2, <2>3 DEF Line!Next
<1>3. ASSUME NEW e, NEW body, SealExhausted(e, body) \/ OpenRefused(e, body)
      PROVE [Line!Next]_<<peer, said, heard>>
  BY <1>3 DEF SealExhausted, OpenRefused
<1>4. ASSUME NEW e \in Ends, NEW f \in frames,
             \/ HearProof(e, f) \/ HearDecision(e, f) \/ HearOffer(e, f)
             \/ HearKey(e, f) \/ HearOutOfPlace(e, f)
      PROVE Line!Next
  BY <1>4, TakeIsHear DEF HearProof, HearDecision, HearOffer, HearKey, HearOutOfPlace
<1>5. CASE Tick \/ (\E r \in Responders : Unpack(r)) \/ UNCHANGED vars
  BY <1>5 DEF Tick, Unpack, OpenPiece, vars
<1> QED BY <1>1, <1>2, <1>3, <1>4, <1>5 DEF Next, Talk

(* A channel over a network that loses, repeats and reorders is a line.    *)
THEOREM ChannelIsALine == Spec => ImplementsLine
<1>1. Init => Line!Init BY DEF Init, Line!Init
<1> QED BY <1>1, LineStep, ChannelInvariant, PTL DEF Spec, ImplementsLine, Line!Spec

(* Peers are kept by every step.                                           *)
LEMMA PeersStay ==
    ASSUME ChannelInv, [Next]_vars
    PROVE  \A d \in Ends : peer[d] # None => peer'[d] = peer[d]
<1>1. CASE peer' = peer BY <1>1
<1>2. ASSUME NEW e \in Ends, NEW x \in Ends, Answer(e, x) \/ Establish(e, x)
      PROVE \A d \in Ends : peer[d] # None => peer'[d] = peer[d]
  BY <1>2 DEF Answer, Establish, ChannelInv, Staged, Shaped
<1>3. ASSUME NEW e \in Ends, Handshake(e)
      PROVE \A d \in Ends : peer[d] # None => peer'[d] = peer[d]
  BY <1>1, <1>2, <1>3 DEF Handshake, Greet, AnswerRefused, EstablishRefused
<1>4. ASSUME NEW e \in Ends, Talk(e) PROVE peer' = peer
  BY <1>4 DEF Talk, Seal, SealExhausted, HearProof, HearDecision, HearOffer, HearKey,
              HearOutOfPlace, OpenRefused, Take
<1>5. CASE Tick \/ (\E r \in Responders : Unpack(r)) \/ UNCHANGED vars
  BY <1>1, <1>5 DEF Tick, Unpack, OpenPiece, vars
<1> QED BY <1>1, <1>3, <1>4, <1>5 DEF Next

-----------------------------------------------------------------------------
(* Pieces.                                                                 *)

(* What a responder was told is what its partner has to tell.              *)
Told ==
    /\ \A e \in Ends : \A n \in 1..Len(said[e]) : said[e][n] \in {Ready} \cup Says(e)
    /\ \A r \in Responders :
          /\ offer[r] # None => /\ peer[r] \in Initiators /\ peer[peer[r]] = r
                                /\ offer[r] = Job(peer[r])
          /\ jobKey[r] # None => offer[r] # None /\ jobKey[r] = peer[r]

Placed == \A x \in opened : /\ x.by \in Responders /\ Mutual(x.by)
                            /\ x.text = <<RootOf[peer[x.by]], x.piece>>

(* An offer and a key name the end that says them.                         *)
LEMMA KindsDiffer ==
    ASSUME NEW e \in Ends, NEW b \in {Ready} \cup Says(e)
    PROVE  /\ b.kind = "offer" => e \in Initiators /\ b.job = Job(e)
           /\ b.kind = "key" => e \in Initiators /\ b.key = e
BY DEF Says, Ready, Decision, Offer, Envelope

(* Peers and bodies stay; so what was told stays told.                     *)
LEMMA ToldStays ==
    ASSUME ChannelInv, Told, UNCHANGED <<said, offer, jobKey>>,
           \A d \in Ends : peer[d] # None => peer'[d] = peer[d]
    PROVE  Told'
<1>1. \A e \in Ends : said[e] # <<>> => peer'[e] = peer[e]
  BY DEF ChannelInv, Staged
<1>2. ASSUME NEW e \in Ends, NEW n \in 1..Len(said[e])
      PROVE said'[e][n] \in ({Ready} \cup Says(e))'
  <2>1. said[e] # <<>> BY DEF ChannelInv, Shaped
  <2> QED BY <1>1, <2>1 DEF Told, Says, Envelope, SendKey
<1>3. ASSUME NEW r \in Responders, offer[r] # None
      PROVE peer'[r] = peer[r] /\ peer'[peer[r]] = peer[peer[r]]
  BY <1>3, NoneIsNoEnd DEF Told, Ends
<1> QED BY <1>2, <1>3 DEF Told, Job

(* What was opened stays right while nobody loses his peer.                *)
LEMMA PiecesStay ==
    ASSUME ChannelInv, Placed, UNCHANGED opened,
           \A d \in Ends : peer[d] # None => peer'[d] = peer[d]
    PROVE  Placed'
<1> SUFFICES ASSUME NEW x \in opened
             PROVE  /\ x.by \in Responders /\ Mutual(x.by)'
                    /\ x.text = <<RootOf[peer'[x.by]], x.piece>>
  BY DEF Placed
<1>1. x.by \in Responders /\ Mutual(x.by) /\ x.text = <<RootOf[peer[x.by]], x.piece>>
  BY DEF Placed
<1>2. x.by \in Ends /\ x.by # None BY <1>1, NoneIsNoEnd DEF Ends
<1>3. peer[x.by] \in Ends BY <1>1, <1>2 DEF Mutual, ChannelInv, Shaped
<1>4. peer'[x.by] = peer[x.by] /\ peer'[peer[x.by]] = x.by
  BY <1>1, <1>2, <1>3 DEF Mutual
<1> QED BY <1>1, <1>4 DEF Mutual

(* A step that only hears, and what it makes of the offer and the key.     *)
LEMMA TakeTold ==
    ASSUME ChannelInv, Told, NEW r \in Responders, NEW f \in frames,
           Openable(r, f, Awaited(r)), stage[r] = "open", Take(r, f),
           \/ UNCHANGED job
           \/ /\ f.body.kind = "offer" /\ offer[r] = None
              /\ offer' = [offer EXCEPT ![r] = f.body.job] /\ UNCHANGED jobKey
           \/ /\ f.body.kind = "key" /\ offer[r] # None
              /\ jobKey' = [jobKey EXCEPT ![r] = f.body.key] /\ UNCHANGED offer
    PROVE  Told'
<1>1. r \in Ends /\ peer[r] # None /\ UNCHANGED <<said, peer>>
  BY DEF Ends, ChannelInv, Staged, Take
<1>2. /\ peer[r] \in Ends /\ peer[peer[r]] = r /\ peer[r] \in Initiators
      /\ Len(heard[r]) + 1 \in 1..Len(said[peer[r]])
      /\ f.body = said[peer[r]][Len(heard[r]) + 1]
  BY <1>1, OpenedIsNext
<1>3. f.body \in {Ready} \cup Says(peer[r]) BY <1>2 DEF Told
<1>4. /\ f.body.kind = "offer" => f.body.job = Job(peer[r])
      /\ f.body.kind = "key" => f.body.key = peer[r]
  BY <1>2, <1>3, KindsDiffer
<1>5. \A e \in Ends : \A n \in 1..Len(said'[e]) : said'[e][n] \in ({Ready} \cup Says(e))'
  BY <1>1 DEF Told, Says, Envelope, SendKey
<1>6. CASE UNCHANGED job BY <1>1, <1>5, <1>6 DEF Told, job
<1>7. CASE /\ f.body.kind = "offer" /\ offer[r] = None
           /\ offer' = [offer EXCEPT ![r] = f.body.job] /\ UNCHANGED jobKey
  <2>1. jobKey[r] = None BY <1>7 DEF Told
  <2>2. offer'[r] = Job(peer[r]) /\ \A q \in Responders : q # r => offer'[q] = offer[q]
    BY <1>1, <1>4, <1>7 DEF ChannelInv, Shaped, Ends
  <2> QED BY <1>1, <1>2, <1>5, <1>7, <2>1, <2>2 DEF Told
<1>8. CASE /\ f.body.kind = "key" /\ offer[r] # None
           /\ jobKey' = [jobKey EXCEPT ![r] = f.body.key] /\ UNCHANGED offer
  <2>1. jobKey'[r] = peer[r] /\ \A q \in Responders : q # r => jobKey'[q] = jobKey[q]
    BY <1>1, <1>4, <1>8 DEF ChannelInv, Shaped, Ends
  <2> QED BY <1>1, <1>2, <1>5, <1>8, <2>1 DEF Told
<1> QED BY <1>6, <1>7, <1>8

(* What an end says is its own.                                            *)
LEMMA EmitTold ==
    ASSUME ChannelInv, Told, NEW e \in Ends, NEW body, NEW key, Emit(e, key, body),
           body = Ready \/ (peer'[e] = peer[e] /\ body \in Says(e)),
           peer[e] = None => said[e] = <<>>,
           \A d \in Ends : peer[d] # None => peer'[d] = peer[d],
           UNCHANGED job
    PROVE  Told'
<1>1. said[e] \in Seq(Bodies) /\ said'[e] = Append(said[e], body)
      /\ \A d \in Ends : d # e => said'[d] = said[d]
  BY DEF ChannelInv, Shaped, Emit
<1>2. body \in ({Ready} \cup Says(e))' BY DEF Says, Envelope, SendKey
<1>3. ASSUME NEW d \in Ends, NEW n \in 1..Len(said[d])
      PROVE  said[d][n] \in ({Ready} \cup Says(d))'
  <2>0. said[d] \in Seq(Bodies) BY DEF ChannelInv, Shaped
  <2>1. said[d] # <<>> BY <2>0
  <2>2. peer'[d] = peer[d] BY <2>1 DEF ChannelInv, Staged
  <2> QED BY <2>2 DEF Told, Says, Envelope, SendKey
<1>4. ASSUME NEW n \in 1..Len(said'[e]) PROVE said'[e][n] \in ({Ready} \cup Says(e))'
  <2>1. CASE n = Len(said[e]) + 1 BY <1>1, <1>2, <2>1
  <2>2. CASE n # Len(said[e]) + 1
    <3>1. n \in 1..Len(said[e]) /\ said'[e][n] = said[e][n] BY <1>1, <2>2
    <3> QED BY <1>3, <3>1
  <2> QED BY <2>1, <2>2
<1>5. ASSUME NEW r \in Responders, offer[r] # None
      PROVE  peer'[r] = peer[r] /\ peer'[peer[r]] = peer[peer[r]]
  BY <1>5, NoneIsNoEnd DEF Told, Ends
<1> QED BY ZenonT(60), <1>1, <1>3, <1>4, <1>5 DEF Told, Job, job

(* A piece that opens (open_piece) is the one the attempt at the other end *)
(* has at that place, since the key is that attempt's and the place is     *)
(* authenticated.                                                          *)
THEOREM PiecesAreThePeers == Spec => []PieceIsThePeers
<1>1. Init => Told /\ Placed
  BY ChannelAssumption DEF Init, Told, Placed, Ends
<1>2. ChannelInv /\ Told /\ Placed /\ [Next]_vars => (Told /\ Placed)'
  <2> SUFFICES ASSUME ChannelInv, Told, Placed, [Next]_vars PROVE (Told /\ Placed)'
      OBVIOUS
  <2>a. Initiators \subseteq Ends /\ Responders \subseteq Ends BY DEF Ends
  <2>b. Initiators \cap Responders = {} BY ChannelAssumption
  <2>c. \A d \in Ends : peer[d] # None => peer'[d] = peer[d] BY PeersStay
  <2>1. ASSUME UNCHANGED <<said, job, opened>> PROVE (Told /\ Placed)'
    BY <2>1, <2>c, ToldStays, PiecesStay DEF job
  <2>2. ASSUME NEW e \in Ends, Handshake(e) PROVE (Told /\ Placed)'
    <3>1. ASSUME NEW x \in Ends, e \in Responders, Answer(e, x) PROVE (Told /\ Placed)'
      <4>1. Told'
        BY <2>c, <3>1, EmitTold DEF Answer, ChannelInv, Staged
      <4> QED BY <2>c, <3>1, <4>1, PiecesStay DEF Answer
    <3> QED BY <2>1, <2>2, <3>1
        DEF Handshake, Greet, AnswerRefused, Establish, EstablishRefused
  <2>3. ASSUME NEW e \in Ends, NEW body \in Says(e), Seal(e, body) PROVE (Told /\ Placed)'
    <3>1. Told' BY <2>c, <2>3, EmitTold DEF Seal, ChannelInv, Staged
    <3> QED BY <2>c, <2>3, <3>1, PiecesStay DEF Seal
  <2>4. ASSUME NEW e \in Ends, NEW f \in frames, e \in Responders,
               HearOffer(e, f) \/ HearKey(e, f) \/ HearOutOfPlace(e, f)
        PROVE (Told /\ Placed)'
    <3>1. Told' BY <2>4, TakeTold DEF HearOffer, HearKey, HearOutOfPlace
    <3>2. UNCHANGED opened BY <2>4 DEF HearOffer, HearKey, HearOutOfPlace, Take
    <3> QED BY <2>c, <3>1, <3>2, PiecesStay
  <2>5. ASSUME NEW r \in Responders, NEW i \in Initiators, NEW p \in Pieces,
               NEW q \in Pieces, OpenPiece(r, i, p, q)
        PROVE (Told /\ Placed)'
    <3>1. UNCHANGED <<said, offer, jobKey, peer>> BY <2>5 DEF OpenPiece, job
    <3>2. Told' BY <2>c, <3>1, ToldStays
    <3>3. /\ jobKey[r] = i /\ jobKey[r] # None /\ p = q
          /\ opened' = opened \cup {[by |-> r, piece |-> q, text |-> <<RootOf[i], p>>]}
      BY <2>5 DEF OpenPiece, PieceOpens, SealedPiece
    <3>4. peer[r] = i /\ Mutual(r) BY <3>3, NoneIsNoEnd, <2>a DEF Told, Mutual
    <3>5. Placed' BY <3>1, <3>3, <3>4 DEF Placed, Mutual
    <3> QED BY <3>2, <3>5
  <2> QED BY <2>1, <2>2, <2>3, <2>4, <2>5
      DEF Next, Talk, Unpack, Tick, SealExhausted, OpenRefused, HearProof, HearDecision,
          Take, vars
<1>3. Placed => PieceIsThePeers BY DEF Placed, PieceIsThePeers
<1> QED BY <1>1, <1>2, <1>3, ChannelInvariant, PTL DEF Spec

-----------------------------------------------------------------------------
(* The two counts of bytes.  total[n] is what the first n bodies of an end *)
(* come to: its own count is the last total, its partner's the total of    *)
(* what he has heard.                                                      *)

Tally(e, total) ==
    /\ total \in [Nat -> Nat] /\ total[0] = 0
    /\ \A n \in Nat :
          n < Len(said[e]) => total[n + 1] = total[n] + SizeOf[said[e][n + 1].kind]
    /\ \A n \in Nat : n <= Len(said[e]) => total[n] <= sentBytes[e]
    /\ total[Len(said[e])] = sentBytes[e]
    /\ \A d \in Ends :
          peer[d] = e /\ peer[e] = d => /\ Len(heard[d]) <= Len(said[e])
                                        /\ receivedBytes[d] = total[Len(heard[d])]

Tallied == \A e \in Ends : \E total : Tally(e, total)

(* Only mutual partners hear, and what has been said stays on the network. *)
Unheard == \A d \in Ends : ~Mutual(d) => heard[d] = <<>> /\ receivedBytes[d] = 0

Kept == \A e \in Ends : peer[e] # None => \A n \in 1..Len(said[e]) : FrameOf(e, n) \in frames

(* Nothing has been counted.                                               *)
LEMMA InitTallied == Init => Tallied /\ Unheard /\ Kept
<1> SUFFICES ASSUME Init PROVE Tallied /\ Unheard /\ Kept OBVIOUS
<1>1. ASSUME NEW e \in Ends PROVE Tally(e, [n \in Nat |-> 0])
  BY NoneIsNoEnd DEF Init, Tally
<1> QED BY <1>1 DEF Init, Tallied, Unheard, Kept

(* Who hears keeps hearing from the same partner.                          *)
LEMMA PartnersStay ==
    ASSUME ChannelInv, Unheard, UNCHANGED <<heard, receivedBytes>>,
           \A d \in Ends : peer[d] # None => peer'[d] = peer[d]
    PROVE  /\ Unheard'
           /\ \A d, e \in Ends :
                 peer'[d] = e /\ peer'[e] = d =>
                    \/ peer[d] = e /\ peer[e] = d
                    \/ heard[d] = <<>> /\ receivedBytes[d] = 0
<1>1. \A d \in Ends : Mutual(d) => /\ peer[d] \in Ends /\ peer'[d] = peer[d]
                                   /\ peer'[peer[d]] = d
  BY NoneIsNoEnd DEF Mutual, ChannelInv, Shaped
<1>2. Unheard' BY <1>1 DEF Unheard, Mutual
<1> QED BY <1>1, <1>2 DEF Unheard, Mutual

(* A step that neither seals nor opens.                                    *)
LEMMA QuietTallied ==
    ASSUME ChannelInv, Tallied, Unheard, Kept,
           UNCHANGED <<counters, frames, said, heard>>,
           \A d \in Ends : peer[d] # None => peer'[d] = peer[d]
    PROVE  (Tallied /\ Unheard /\ Kept)'
<1>1. UNCHANGED <<sentBytes, receivedBytes, frames, said, heard>> BY DEF counters
<1>2. /\ Unheard'
      /\ \A d, e \in Ends :
            peer'[d] = e /\ peer'[e] = d => \/ peer[d] = e /\ peer[e] = d
                                            \/ heard[d] = <<>> /\ receivedBytes[d] = 0
  BY <1>1, PartnersStay
<1>3. ASSUME NEW e \in Ends PROVE \E total : Tally(e, total)'
  <2>1. PICK total : Tally(e, total) BY DEF Tallied
  <2>2. Len(said[e]) \in Nat /\ total[0] = 0 BY <2>1 DEF ChannelInv, Shaped, Tally
  <2>3. ASSUME NEW d \in Ends, peer'[d] = e, peer'[e] = d
        PROVE  Len(heard[d]) <= Len(said[e]) /\ receivedBytes[d] = total[Len(heard[d])]
    <3>1. CASE peer[d] = e /\ peer[e] = d BY <2>1, <3>1 DEF Tally
    <3>2. CASE heard[d] = <<>> /\ receivedBytes[d] = 0 BY <2>2, <3>2
    <3> QED BY <1>2, <2>3, <3>1, <3>2
  <2>4. Tally(e, total)' BY <1>1, <2>1, <2>3 DEF Tally
  <2> QED BY <2>4
<1>4. ASSUME NEW e \in Ends, peer'[e] # None, NEW n \in 1..Len(said[e])
      PROVE FrameOf(e, n)' \in frames
  <2>1. said[e] # <<>> BY DEF ChannelInv, Shaped
  <2>2. peer[e] # None /\ peer'[e] = peer[e] BY <2>1 DEF ChannelInv, Staged
  <2>3. FrameOf(e, n)' = FrameOf(e, n)
    BY <1>1, <2>2 DEF FrameOf, SendKey, Directions, PurposeOf
  <2> QED BY <2>2, <2>3 DEF Kept
<1> QED BY <1>1, <1>2, <1>3, <1>4 DEF Tallied, Kept

(* What is sealed is counted at the end of the totals.                     *)
LEMMA EmitTallied ==
    ASSUME ChannelInv, Tallied, Unheard, Kept, NEW e \in Ends, NEW body \in Bodies,
           peer' \in [Ends -> Ends \cup {None}], peer'[e] # None,
           \A d \in Ends : peer[d] # None => peer'[d] = peer[d],
           \A d \in Ends : d # e => peer'[d] = peer[d],
           Emit(e, SendKey(e, peer'[e]), body), UNCHANGED heard
    PROVE  (Tallied /\ Unheard /\ Kept)'
<1> DEFINE new == [key |-> SendKey(e, peer'[e]), sequence |-> nextSend[e],
                   aad |-> PurposeOf(body), body |-> body]
<1>1. /\ frames' = frames \cup {new} /\ UNCHANGED <<heard, receivedBytes>>
      /\ sentBytes' = [sentBytes EXCEPT ![e] = @ + SizeOf[body.kind]]
      /\ said' = [said EXCEPT ![e] = Append(@, body)]
  BY DEF Emit
<1>2. /\ said[e] \in Seq(Bodies) /\ nextSend[e] = Len(said[e]) /\ Len(said[e]) \in Nat
      /\ sentBytes[e] \in Nat /\ SizeOf[body.kind] \in Nat
      /\ \A d \in Ends : Len(said[d]) \in Nat /\ Len(heard[d]) \in Nat
  <2>1. \A d \in Ends : said[d] \in Seq(Bodies) /\ heard[d] \in Seq(Bodies)
    BY DEF ChannelInv, Shaped
  <2>2. nextSend[e] = Len(said[e]) BY DEF ChannelInv, Counted
  <2>3. SizeOf[body.kind] \in Nat BY BodiesSized
  <2>4. sentBytes[e] \in Nat BY ChannelAssumption DEF ChannelInv, Shaped
  <2> QED BY <2>1, <2>2, <2>3, <2>4
<1>3. /\ said'[e] = Append(said[e], body)
      /\ sentBytes'[e] = sentBytes[e] + SizeOf[body.kind]
      /\ \A d \in Ends : d # e => said'[d] = said[d] /\ sentBytes'[d] = sentBytes[d]
  BY <1>1 DEF ChannelInv, Shaped
<1>l. PICK l \in Nat : l = Len(said[e]) BY <1>2
<1>m. PICK m \in Nat : m = l + 1 OBVIOUS
<1>4. Len(said'[e]) = m /\ said'[e][m] = body BY <1>2, <1>3, <1>l, <1>m
<1>5. \A n \in 1..Len(said[e]) : said'[e][n] = said[e][n] BY <1>2, <1>3
<1>6. /\ Unheard'
      /\ \A d, c \in Ends :
            peer'[d] = c /\ peer'[c] = d => \/ peer[d] = c /\ peer[c] = d
                                            \/ heard[d] = <<>> /\ receivedBytes[d] = 0
  BY <1>1, PartnersStay
<1>7. ASSUME NEW c \in Ends, c # e PROVE \E total : Tally(c, total)'
  <2>1. PICK total : Tally(c, total) BY DEF Tallied
  <2>0. Len(said[c]) \in Nat /\ total[0] = 0 BY <1>2, <2>1 DEF Tally
  <2>2. ASSUME NEW d \in Ends, peer'[d] = c, peer'[c] = d
        PROVE  Len(heard[d]) <= Len(said[c]) /\ receivedBytes[d] = total[Len(heard[d])]
    <3>1. CASE peer[d] = c /\ peer[c] = d BY <2>1, <3>1 DEF Tally
    <3>2. CASE heard[d] = <<>> /\ receivedBytes[d] = 0 BY <2>0, <3>2
    <3> QED BY <1>6, <2>2, <3>1, <3>2
  <2>3. Tally(c, total)' BY <1>1, <1>3, <1>7, <2>1, <2>2 DEF Tally
  <2> QED BY <2>3
<1>8. \E total : Tally(e, total)'
  <2>1. PICK old : Tally(e, old) BY DEF Tallied
  <2>2. /\ old \in [Nat -> Nat] /\ old[0] = 0 /\ old[l] = sentBytes[e]
        /\ \A n \in Nat : n < l => old[n + 1] = old[n] + SizeOf[said[e][n + 1].kind]
        /\ \A n \in Nat : n <= l => old[n] <= sentBytes[e]
    BY <1>l, <2>1 DEF Tally
  <2>3. PICK total : /\ total \in [Nat -> Nat] /\ total[m] = sentBytes'[e]
                     /\ \A n \in Nat : n # m => total[n] = old[n]
    <3>1. sentBytes'[e] \in Nat BY <1>2, <1>3
    <3> DEFINE longer == [old EXCEPT ![m] = sentBytes'[e]]
    <3>2. /\ longer \in [Nat -> Nat] /\ longer[m] = sentBytes'[e]
          /\ \A n \in Nat : n # m => longer[n] = old[n]
      BY <2>2, <3>1
    <3> HIDE DEF longer
    <3> QED BY <3>2
  <2>4. \A n \in Nat : n <= l => total[n] = old[n] BY <1>m, <2>3
  <2>5. total[0] = 0 BY <2>2, <2>4
  <2>6. ASSUME NEW n \in Nat, n < m
        PROVE  total[n + 1] = total[n] + SizeOf[said'[e][n + 1].kind]
    <3>1. CASE n < l
      <4>1. n + 1 \in 1..l /\ n + 1 \in Nat /\ n + 1 <= l /\ n <= l BY <3>1
      <4>2. old[n + 1] = old[n] + SizeOf[said[e][n + 1].kind] BY <2>2, <3>1
      <4>3. total[n + 1] = old[n + 1] /\ total[n] = old[n] BY <2>4, <4>1
      <4> QED BY <1>5, <1>l, <4>1, <4>2, <4>3
    <3>2. CASE n = l
      <4>1. n + 1 = m /\ total[n] = old[l] BY <1>m, <2>4, <3>2
      <4> QED BY <1>3, <1>4, <2>2, <2>3, <4>1
    <3> QED BY <1>m, <2>6, <3>1, <3>2
  <2>7. ASSUME NEW n \in Nat, n <= m PROVE total[n] <= sentBytes'[e]
    <3>1. CASE n <= l
      <4>1. old[n] <= sentBytes[e] /\ old[n] \in Nat BY <2>2, <3>1
      <4> QED BY <1>2, <1>3, <2>4, <3>1, <4>1
    <3>2. CASE n = m BY <1>2, <1>3, <2>3, <3>2
    <3> QED BY <1>m, <2>7, <3>1, <3>2
  <2>8. ASSUME NEW d \in Ends, peer'[d] = e, peer'[e] = d
        PROVE  Len(heard[d]) <= Len(said'[e]) /\ receivedBytes[d] = total[Len(heard[d])]
    <3>1. CASE peer[d] = e /\ peer[e] = d
      <4>1. Len(heard[d]) <= l /\ receivedBytes[d] = old[Len(heard[d])]
        BY <1>l, <2>1, <3>1 DEF Tally
      <4>2. Len(heard[d]) \in Nat BY <1>2
      <4> QED BY <1>4, <1>m, <2>4, <4>1, <4>2
    <3>2. CASE heard[d] = <<>> /\ receivedBytes[d] = 0
      BY <1>4, <2>5, <3>2
    <3> QED BY <1>6, <2>8, <3>1, <3>2
  <2>9. Tally(e, total)'
    <3>1. total[Len(said'[e])] = sentBytes'[e] BY <1>4, <2>3
    <3>2. \A n \in Nat :
            n < Len(said'[e]) => total[n + 1] = total[n] + SizeOf[said'[e][n + 1].kind]
      BY <1>4, <2>6
    <3>3. \A n \in Nat : n <= Len(said'[e]) => total[n] <= sentBytes'[e]
      BY <1>4, <2>7
    <3>4. \A d \in Ends :
            peer'[d] = e /\ peer'[e] = d =>
               /\ Len(heard'[d]) <= Len(said'[e])
               /\ receivedBytes'[d] = total[Len(heard'[d])]
      BY <1>1, <2>8
    <3>5. total \in [Nat -> Nat] BY <2>3
    <3> QED BY <2>5, <3>1, <3>2, <3>3, <3>4, <3>5 DEF Tally
  <2> QED BY <2>9
<1>9. ASSUME NEW d \in Ends, peer'[d] # None, NEW n \in 1..Len(said'[d])
      PROVE FrameOf(d, n)' \in frames'
  <2>1. CASE d = e /\ n = m
    <3>1. nextSend[e] = m - 1 BY <1>2, <1>l, <1>m
    <3>2. new = FrameOf(e, m)' BY <1>4, <3>1 DEF FrameOf, SendKey, Directions, PurposeOf
    <3> QED BY <1>1, <2>1, <3>2
  <2>2. CASE ~(d = e /\ n = m)
    <3>1. n \in 1..Len(said[d]) /\ said'[d][n] = said[d][n]
      BY <1>2, <1>3, <1>4, <1>5, <1>l, <1>m, <2>2
    <3>2. said[d] # <<>> BY <3>1 DEF ChannelInv, Shaped
    <3>3. peer[d] # None /\ peer'[d] = peer[d] BY <3>2 DEF ChannelInv, Staged
    <3>4. FrameOf(d, n)' = FrameOf(d, n)
      BY <3>1, <3>3 DEF FrameOf, SendKey, Directions, PurposeOf
    <3> QED BY <1>1, <1>9, <3>1, <3>3, <3>4 DEF Kept
  <2> QED BY <2>1, <2>2
<1> QED BY <1>6, <1>7, <1>8, <1>9 DEF Tallied, Kept

(* What is opened is what the partner counted there.                       *)
LEMMA TakeTallied ==
    ASSUME ChannelInv, Tallied, Unheard, Kept, NEW e \in Ends, NEW f \in frames, NEW aad,
           Openable(e, f, aad), stage[e] \in {"confirming", "open"}, Take(e, f)
    PROVE  (Tallied /\ Unheard /\ Kept)'
<1>1. peer[e] # None BY DEF ChannelInv, Staged
<1>2. /\ peer[e] \in Ends /\ peer[peer[e]] = e
      /\ Len(heard[e]) + 1 \in 1..Len(said[peer[e]])
      /\ f.body = said[peer[e]][Len(heard[e]) + 1]
  BY <1>1, OpenedIsNext
<1>3. /\ UNCHANGED <<peer, said, sentBytes, frames>>
      /\ heard'[e] = Append(heard[e], f.body)
      /\ receivedBytes'[e] = receivedBytes[e] + SizeOf[f.body.kind]
      /\ \A d \in Ends : d # e => heard'[d] = heard[d] /\ receivedBytes'[d] = receivedBytes[d]
  BY DEF Take, ChannelInv, Shaped
<1>4. /\ heard[e] \in Seq(Bodies) /\ f.body \in Bodies
      /\ \A d \in Ends : Len(said[d]) \in Nat
  BY DEF ChannelInv, Shaped
<1>5. Len(heard'[e]) = Len(heard[e]) + 1 /\ Len(heard[e]) \in Nat BY <1>3, <1>4
<1>6. ASSUME NEW c \in Ends PROVE \E total : Tally(c, total)'
  <2>1. PICK total : Tally(c, total) BY DEF Tallied
  <2>2. ASSUME NEW d \in Ends, peer[d] = c, peer[c] = d
        PROVE  Len(heard'[d]) <= Len(said[c]) /\ receivedBytes'[d] = total[Len(heard'[d])]
    <3>1. Len(heard[d]) <= Len(said[c]) /\ receivedBytes[d] = total[Len(heard[d])]
      BY <2>1, <2>2 DEF Tally
    <3>2. CASE d # e BY <1>3, <3>1, <3>2
    <3>3. CASE d = e
      <4>1. c = peer[e] /\ Len(heard[e]) < Len(said[c]) BY <1>2, <1>4, <1>5, <2>2, <3>3
      <4>2. total[Len(heard[e]) + 1] =
              total[Len(heard[e])] + SizeOf[said[c][Len(heard[e]) + 1].kind]
        BY <1>5, <2>1, <4>1 DEF Tally
      <4> QED BY <1>2, <1>3, <1>4, <1>5, <3>1, <3>3, <4>1, <4>2
    <3> QED BY <3>2, <3>3
  <2>3. Tally(c, total)' BY <1>3, <2>1, <2>2 DEF Tally
  <2> QED BY <2>3
<1>7. Unheard' BY <1>1, <1>2, <1>3 DEF Unheard, Mutual
<1>8. Kept'
  BY <1>3 DEF Kept, FrameOf, SendKey, Directions, PurposeOf
<1> QED BY <1>6, <1>7, <1>8 DEF Tallied

(* Every step keeps the totals.                                            *)
LEMMA NextTallied ==
    ChannelInv /\ ChannelInv' /\ Tallied /\ Unheard /\ Kept /\ [Next]_vars
       => (Tallied /\ Unheard /\ Kept)'
<1> SUFFICES ASSUME ChannelInv, ChannelInv', Tallied, Unheard, Kept, [Next]_vars
             PROVE  (Tallied /\ Unheard /\ Kept)'
    OBVIOUS
<1>a. \A d \in Ends : peer[d] # None => peer'[d] = peer[d] BY PeersStay
<1>b. peer' \in [Ends -> Ends \cup {None}] BY DEF ChannelInv, Shaped
<1>1. ASSUME UNCHANGED <<counters, frames, said, heard>>
      PROVE  (Tallied /\ Unheard /\ Kept)'
  BY <1>1, <1>a, QuietTallied
<1>2. ASSUME NEW e \in Ends, NEW x \in Ends, Answer(e, x)
      PROVE  (Tallied /\ Unheard /\ Kept)'
  <2>1. /\ peer' = [peer EXCEPT ![e] = x] /\ UNCHANGED heard
        /\ Emit(e, SendKey(e, x), Ready)
    BY <1>2 DEF Answer
  <2>2. peer'[e] = x /\ peer'[e] # None /\ \A d \in Ends : d # e => peer'[d] = peer[d]
    BY <2>1, NoneIsNoEnd DEF ChannelInv, Shaped
  <2> QED BY <1>a, <1>b, <2>1, <2>2, EmitTallied, ReadyIsABody
<1>3. ASSUME NEW e \in Ends, Handshake(e) PROVE (Tallied /\ Unheard /\ Kept)'
  BY <1>1, <1>2, <1>3
     DEF Handshake, Greet, AnswerRefused, Establish, EstablishRefused
<1>4. ASSUME NEW e \in Ends, NEW body \in Says(e), Seal(e, body)
      PROVE  (Tallied /\ Unheard /\ Kept)'
  <2>1. peer[e] \in Ends /\ peer[e] # None BY <1>4 DEF Seal, ChannelInv, Staged, Shaped
  <2>2. body \in Bodies BY <2>1, SaysBodies
  <2>3. peer' = peer /\ UNCHANGED heard /\ Emit(e, SendKey(e, peer'[e]), body)
    BY <1>4 DEF Seal
  <2> QED BY <1>a, <1>b, <2>1, <2>2, <2>3, EmitTallied
<1>5. ASSUME NEW e \in Ends, NEW f \in frames,
             \/ HearProof(e, f) \/ HearDecision(e, f) \/ HearOffer(e, f)
             \/ HearKey(e, f) \/ HearOutOfPlace(e, f)
      PROVE  (Tallied /\ Unheard /\ Kept)'
  BY <1>5, TakeTallied DEF HearProof, HearDecision, HearOffer, HearKey, HearOutOfPlace
<1>6. ASSUME NEW e, NEW body, SealExhausted(e, body) \/ OpenRefused(e, body)
      PROVE  (Tallied /\ Unheard /\ Kept)'
  BY <1>1, <1>6 DEF SealExhausted, OpenRefused
<1>7. CASE Tick \/ (\E r \in Responders : Unpack(r)) \/ UNCHANGED vars
  BY <1>1, <1>7 DEF Tick, Unpack, OpenPiece, vars
<1> QED BY <1>3, <1>4, <1>5, <1>6, <1>7 DEF Next, Talk

(* What an end has said and heard is as long as it counts, and within the  *)
(* limits.                                                                 *)
LEMMA Within ==
    ASSUME ChannelInv, NEW e \in Ends
    PROVE  /\ Len(heard[e]) \in Nat /\ Len(said[e]) \in Nat /\ said[e] \in Seq(Bodies)
           /\ nextReceive[e] = Len(heard[e]) /\ Len(said[e]) <= MaxFrames
           /\ sentBytes[e] \in 0..MaxBytes
<1>1. /\ said \in [Ends -> Seq(Bodies)] /\ heard \in [Ends -> Seq(Bodies)]
      /\ nextSend \in [Ends -> 0..MaxFrames] /\ sentBytes \in [Ends -> 0..MaxBytes]
  BY DEF ChannelInv, Shaped
<1>2. nextSend[e] = Len(said[e]) /\ nextReceive[e] = Len(heard[e])
  BY DEF ChannelInv, Counted
<1>3. said[e] \in Seq(Bodies) /\ heard[e] \in Seq(Bodies) BY <1>1
<1>4. Len(heard[e]) \in Nat /\ Len(said[e]) \in Nat BY <1>3
<1>5. nextSend[e] \in 0..MaxFrames /\ sentBytes[e] \in 0..MaxBytes BY <1>1
<1>6. Len(said[e]) <= MaxFrames BY <1>2, <1>4, <1>5, ChannelAssumption
<1> QED BY <1>2, <1>3, <1>4, <1>5, <1>6

(* The two ends of a channel count alike (next_send_sequence and           *)
(* sent_plaintext_bytes, next_receive_sequence and                         *)
(* received_plaintext_bytes): whatever one was allowed to seal, down to    *)
(* the last frame and byte, the other is able to open.                     *)
THEOREM SealedIsOpenable == Spec => []WhatIsSealedOpens
<1>1. ASSUME ChannelInv, Tallied, Kept PROVE WhatIsSealedOpens
  <2> SUFFICES ASSUME NEW e \in Ends, Mutual(e), Len(heard[e]) < Len(said[peer[e]])
               PROVE  \E f \in frames : /\ Openable(e, f, f.aad)
                                        /\ f.body = said[peer[e]][Len(heard[e]) + 1]
    BY DEF WhatIsSealedOpens
  <2>1. PICK d \in Ends : d = peer[e] /\ peer[d] = e /\ d # None /\ e # None
    BY <1>1, NoneIsNoEnd DEF Mutual, ChannelInv, Shaped
  <2>2. /\ Len(heard[e]) \in Nat /\ Len(said[d]) \in Nat /\ said[d] \in Seq(Bodies)
        /\ nextReceive[e] = Len(heard[e]) /\ Len(said[d]) <= MaxFrames
        /\ sentBytes[d] \in 0..MaxBytes
    <3>1. d \in Ends BY <2>1
    <3> QED BY <1>1, <3>1, Within
  <2>3. PICK n \in 1..Len(said[d]) : n = Len(heard[e]) + 1 BY <2>1, <2>2
  <2> DEFINE f == FrameOf(d, n)
  <2>4. f \in frames BY <1>1, <2>1 DEF Kept
  <2>5. f.sequence = nextReceive[e] /\ f.sequence < MaxFrames
    <3>1. f.sequence = n - 1 BY DEF FrameOf
    <3> QED BY <2>2, <2>3, <3>1, ChannelAssumption
  <2>6. f.key = ReceiveKey(e)
    <3>1. d \in Initiators <=> e \in Responders BY <1>1, <2>1, TwoRoles
    <3>2. Directions(d).send = Directions(e).receive BY <3>1, Labels
    <3> QED BY <2>1, <3>2 DEF FrameOf, SendKey, ReceiveKey
  <2>7. f.body = said[d][n] BY DEF FrameOf
  <2>8. WithinLimit(receivedBytes[e], SizeOf[f.body.kind])
    <3>1. PICK total : Tally(d, total) BY <1>1 DEF Tallied
    <3>2. receivedBytes[e] = total[n - 1] BY <2>1, <2>2, <2>3, <3>1 DEF Tally
    <3>3. total[n] = total[n - 1] + SizeOf[said[d][n].kind]
      <4>1. n - 1 \in Nat /\ n - 1 < Len(said[d]) /\ (n - 1) + 1 = n BY <2>2
      <4> QED BY <3>1, <4>1 DEF Tally
    <3>0. n \in Nat /\ n - 1 \in Nat /\ n <= Len(said[d]) BY <2>2
    <3>4. total[n] <= sentBytes[d] BY <3>0, <3>1 DEF Tally
    <3>5. total[n - 1] \in Nat /\ total[n] \in Nat BY <3>0, <3>1 DEF Tally
    <3>6. said[d][n] \in Bodies BY <2>2
    <3>7. PICK size \in Nat : size = SizeOf[said[d][n].kind] BY <3>6, BodiesSized
    <3>8. PICK used \in Nat : used = receivedBytes[e] BY <3>2, <3>5
    <3>9. used + size <= MaxBytes
      BY SMTT(60), <2>2, <3>2, <3>3, <3>4, <3>5, <3>7, <3>8, ChannelAssumption
    <3>10. size <= MaxBytes /\ used <= MaxBytes - size BY <3>9, ChannelAssumption
    <3> QED BY <2>7, <3>7, <3>8, <3>10 DEF WithinLimit
  <2>9. Openable(e, f, f.aad) BY <2>5, <2>6, <2>8 DEF Openable
  <2> QED BY <2>1, <2>3, <2>4, <2>7, <2>9
<1> QED BY <1>1, InitTallied, NextTallied, ChannelInvariant, PTL DEF Spec

=============================================================================
