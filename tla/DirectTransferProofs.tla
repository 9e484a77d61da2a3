------------------------ MODULE DirectTransferProofs ------------------------
(***************************************************************************)
(* Proofs about DirectTransfer.                                            *)
(*                                                                         *)
(* Shaped is the type invariant with the elements of the sequences.        *)
(* NamesInv counts names, as a free one has to be there to be chosen, and  *)
(* says that the name chosen was free: it holds of any number of attempts. *)
(* PublishInv follows a file from the comparison with the digest into the  *)
(* receive directory and to the sender's "completed".  It holds of any     *)
(* number of attempts while their receive threads follow each other, and   *)
(* of two attempts on a source that rests while both are at work: what one *)
(* has compared, the other can overwrite with the same or take away, and   *)
(* then it is past that item and cannot begin it again.  A third one could.*)
(***************************************************************************)
EXTENDS DirectTransfer, FiniteSetTheorems, SequenceTheorems, TLAPS

Chunks == [item : Items, offset : 0..Size, version : 1..MaxVersions]
Waiting == {"none", "incoming", "pending"}
AtWork == {"next", "read", "choose", "publish", "discard"}

(* The shapes of all variables; a partial file of one chunk is not one of  *)
(* someone else.                                                           *)
Shaped ==
    /\ version \in 1..MaxVersions
    /\ sender \in {"connect", "offered", "streaming", "completed", "failed"}
    /\ attempt \in 0..MaxAttempts
    /\ sender = "connect" => attempt < MaxAttempts
    /\ sender \in {"offered", "streaming", "completed"} => attempt \in Attempts
    /\ manifest \in [Attempts -> 0..MaxVersions]
    /\ cursor \in (1..ItemCount + 1) \X (0..Size)
    /\ wire \in [Attempts -> Seq(Chunks)]
    /\ \A a \in Attempts : Len(wire[a]) <= Buffer
    /\ senderOpen \in [Attempts -> BOOLEAN]
    /\ reply \in [Attempts -> {"none", "ready", "rejected", "failed", "completed",
                               "cancelled"}]
    /\ promised \in [Attempts -> [Items -> 0..Size]]
    /\ offer # 0 => offer \in Attempts /\ thread[offer] = "pending"
    /\ thread \in [Attempts -> Waiting \cup AtWork \cup {"ended"}]
    /\ item \in [Attempts -> 1..ItemCount + 1]
    /\ offset \in [Attempts -> 0..Size]
    /\ policy \in [Attempts -> Policies \cup {"none"}]
    /\ partial \in [Items -> Seq(Nat)]
    /\ \A i \in Items : Len(partial[i]) <= Size /\ partial[i] # <<Someone>>
    /\ DOMAIN files = Items /\ \A i \in Items : DOMAIN files[i] = Names
    /\ cancelled \in BOOLEAN
    /\ restarts \in 0..MaxRestarts

(* Where a receive thread is.                                              *)
Turn(a) ==
    /\ thread[a] = "none" <=> a > attempt
    /\ thread[a] \in Waiting => item[a] = 1 /\ wire[a] = <<>> /\ reply[a] = "none"
    /\ sender = "streaming" /\ a = attempt => thread[a] \notin Waiting
    /\ sender = "completed" /\ a = attempt => reply[a] = "completed"
    /\ thread[a] \in AtWork => policy[a] \in Policies /\ reply[a] = "ready"
    /\ thread[a] \in AtWork \ {"next"} => item[a] \in Items

SessionInv == Shaped /\ \A a \in Attempts : Turn(a)

(* An attempt that has had its chance at an item, and the numbered names.  *)
Spent(i) == {a \in Attempts : thread[a] = "ended" \/ (Running(a) /\ item[a] > i)}
Numbered(i) == {n \in Names \ {0} : Taken(i, n)}

NamesInv ==
    /\ dest \in [Attempts -> Names]
    /\ \A i \in Items : Cardinality(Numbered(i)) <= Cardinality(Spent(i))
    /\ \A a \in Attempts : thread[a] = "publish" /\ policy[a] # "overwrite" =>
          files[item[a]][dest[a]] # <<Someone>>

(* The item is there as attempt a hashed it, or was there and is skipped.  *)
Delivered(a, i) ==
    \/ \E n \in Names : files[i][n] = Whole(manifest[a])
    \/ policy[a] = "skip" /\ Taken(i, 0)

(* The receiver has said "completed" to the current attempt.               *)
Told == attempt # 0 /\ reply[attempt] = "completed"

(* The scope of PublishInv: the receive threads of the attempts follow each *)
(* other, or there are two attempts of a source that rests while both are  *)
(* at work.                                                                *)
Alone == \A a, b \in Attempts : Running(a) /\ Running(b) => a = b
Pair == MaxAttempts <= 2 /\ EditsAnyTime = FALSE
Scope == Alone \/ Pair

(* Threads that work at the same time have hashed what the source is now.  *)
Resting ==
    \A a, b \in Attempts : Running(a) /\ Running(b) /\ a # b =>
        manifest[a] = version /\ manifest[b] = version

(* Whoever else could write to an item's partial file is past it.          *)
Past(a) == \A b \in Attempts : b # a =>
              thread[b] = "ended" \/ (Running(b) /\ item[b] > item[a])

(* What a thread has made sure of, where it is.                            *)
Publishing(a) ==
    /\ a <= attempt => manifest[a] \in 1..version
    /\ \A n \in 1..Len(wire[a]) : wire[a][n].version \in manifest[a]..version
    /\ Running(a) => \A i \in Items : i < item[a] => Delivered(a, i)
    /\ thread[a] \in {"choose", "publish", "discard"} =>
          \/ partial[item[a]] = Whole(manifest[a])
          \/ partial[item[a]] = Absent /\ Past(a)
    /\ thread[a] = "discard" => Delivered(a, item[a])

(* After "completed" there is nothing that a thread that is left could     *)
(* make a file of, unless it is the other of two and has the same manifest.*)
Settled ==
    Told =>
      /\ thread[attempt] = "ended"
      /\ \A i \in Items : Delivered(attempt, i)
      /\ \A b \in Attempts : thread[b] # "ended" =>
            \/ Pair /\ Running(b) /\ manifest[b] = manifest[attempt]
            \/ wire[b] = <<>> /\ \A i \in Items : partial[i] = Absent

PublishInv ==
    Resting /\ (\A a \in Attempts : Publishing(a)) /\ Settled /\ NothingMixed

-----------------------------------------------------------------------------
(* The operators of the model.                                             *)

(* The numbers that the model's constants are.                             *)
LEMMA Numbers ==
    /\ ItemCount \in Nat \ {0} /\ Size \in Nat /\ MaxAttempts \in Nat \ {0}
    /\ MaxVersions \in Nat \ {0} /\ Buffer \in Nat \ {0} /\ MaxRestarts \in Nat
    /\ Policies \subseteq {"rename", "overwrite", "skip"}
    /\ FilesAppear \in BOOLEAN /\ EditsAnyTime \in BOOLEAN
    /\ \A i : i \in Items <=> i \in Nat /\ 1 <= i /\ i <= ItemCount
    /\ \A a : a \in Attempts <=> a \in Nat /\ 1 <= a /\ a <= MaxAttempts
BY DirectTransferAssumption DEF Items, Attempts

(* A set of numbers has a least one.                                       *)
LEMMA LeastIsThere ==
    ASSUME NEW S, S \subseteq Nat, S # {}
    PROVE  \E x \in S : \A y \in S : x <= y
<1>1. \E x \in S : \A y \in S : ~(<<y, x>> \in OpToRel(<, Nat))
  BY NatLessThanWellFounded, WFMin
<1>2. PICK x \in S : \A y \in S : ~(<<y, x>> \in OpToRel(<, Nat)) BY <1>1
<1>3. ASSUME NEW y \in S PROVE x <= y
  <2>1. x \in Nat /\ y \in Nat OBVIOUS
  <2>2. ~(y < x) BY <1>2, <2>1 DEF OpToRel
  <2> QED BY <2>1, <2>2
<1> QED BY <1>3

(* The sender's cursor is at a chunk of an item, or past the last.         *)
LEMMA SkippingIsACursor ==
    ASSUME Shaped, attempt \in Attempts, NEW i \in Items, NEW o \in Nat
    PROVE  Skipping(i, o) \in (1..ItemCount + 1) \X (0..Size)
<1> DEFINE at(j) == IF j = i THEN o ELSE promised[attempt][j]
           open == {j \in i..ItemCount : at(j) < Size}
<1>1. CASE open = {} BY <1>1, Numbers DEF Skipping
<1>2. CASE open # {}
  <2>1. open \subseteq Nat /\ \A j \in open : j \in Items BY Numbers
  <2>2. \E j \in open : \A k \in open : j <= k BY <1>2, <2>1, LeastIsThere
  <2>3. PICK j \in open : Skipping(i, o) = <<j, at(j)>> BY <1>2, <2>2 DEF Skipping
  <2>4. j \in Items /\ at(j) < Size BY <2>1
  <2>5. at(j) \in Nat BY <2>4 DEF Shaped
  <2>6. j \in 1..ItemCount + 1 /\ at(j) \in 0..Size BY <2>4, <2>5, Numbers
  <2> QED BY <2>3, <2>6
<1> QED BY <1>1, <1>2

(* A write within the size of the item.                                    *)
LEMMA WriteIsAFile ==
    ASSUME NEW file \in Seq(Nat), Len(file) <= Size, file # <<Someone>>,
           NEW at \in 0..Size, at < Size, NEW v \in 1..MaxVersions
    PROVE  /\ Written(file, at, v) \in Seq(Nat) /\ Len(Written(file, at, v)) <= Size
           /\ Written(file, at, v) # <<Someone>>
<1> DEFINE n == IF at + 1 > Len(file) THEN at + 1 ELSE Len(file)
           w == [k \in 1..n |-> IF k = at + 1 THEN v ELSE IF k <= Len(file) THEN file[k]
                                ELSE Someone]
<1>1. n \in Nat /\ n <= Size /\ n >= 1 /\ at \in Nat BY Numbers
<1>2. w \in [1..n -> Nat] BY Numbers DEF Someone
<1> HIDE DEF n
<1>3. w \in Seq(Nat) /\ Len(w) = n BY <1>1, <1>2, SeqDef
<1>4. w # <<Someone>>
  <2>1. CASE n = 1
    <3>1. at = 0 /\ w[1] = v BY <1>1, <2>1, Numbers DEF n
    <3> QED BY <3>1 DEF Someone
  <2>2. CASE n # 1
    <3>1. Len(<<Someone>>) = 1 OBVIOUS
    <3> QED BY <1>3, <2>2, <3>1
  <2> QED BY <2>1, <2>2
<1>5. w = Written(file, at, v) BY DEF Written, n
<1> QED BY <1>1, <1>3, <1>4, <1>5

(* A write of what is there changes nothing.                               *)
LEMMA WriteOfTheSame ==
    ASSUME NEW at \in 0..Size, at < Size, NEW v
    PROVE  Written(Whole(v), at, v) = Whole(v)
<1>1. Len(Whole(v)) = Size BY Numbers DEF Whole
<1>2. at + 1 \in 1..Size /\ ~(at + 1 > Size) BY Numbers
<1> QED BY <1>1, <1>2, Numbers DEF Written, Whole

(* What is there already is no more than the item.                         *)
LEMMA OffsetOfAFile == ASSUME Shaped, NEW i \in Items PROVE PartialOffset(i) \in 0..Size
<1>1. Len(partial[i]) \in Nat /\ Len(partial[i]) <= Size BY DEF Shaped
<1> QED BY <1>1, Numbers DEF PartialOffset, Shortest

(* A whole file is there, unless the item has no chunks.                   *)
LEMMA WholeIsAFile ==
    ASSUME NEW v PROVE Whole(v) # Absent \/ Size = 0
<1>1. Size # 0 => 1 \in DOMAIN Whole(v) BY Numbers DEF Whole
<1>2. 1 \notin DOMAIN <<>> OBVIOUS
<1> QED BY <1>1, <1>2 DEF Absent

-----------------------------------------------------------------------------
(* The shapes and places, step by step.                                    *)

(* All that an attempt has of its own.                                     *)
Same(b) ==
    /\ thread'[b] = thread[b] /\ item'[b] = item[b] /\ wire'[b] = wire[b]
    /\ reply'[b] = reply[b] /\ policy'[b] = policy[b]

(* What a step leaves alone stays in its place.                            *)
LEMMA SameTurn ==
    ASSUME NEW b \in Attempts, Same(b), UNCHANGED <<attempt, sender>>, Turn(b)
    PROVE  Turn(b)'
BY DEF Same, Turn

(* The beginning.                                                          *)
LEMMA InitSession == Init => SessionInv
<1> SUFFICES ASSUME Init PROVE SessionInv OBVIOUS
<1> USE DEF Waiting
<1>1. Shaped
  <2>1. /\ 1 \in 1..ItemCount + 1 /\ 0 \in 0..Size /\ 1 \in 1..MaxVersions
        /\ 0 \in 0..MaxVersions /\ 0 \in 0..MaxAttempts /\ 0 \in 0..MaxRestarts
        /\ 0 < MaxAttempts
    BY Numbers
  <2>2. <<>> \in Seq(Chunks) /\ Len(<<>>) = 0 /\ <<>> \in Seq(Nat) /\ <<>> # <<Someone>>
    OBVIOUS
  <2>3. DOMAIN files = Items /\ \A i \in Items : DOMAIN files[i] = Names
    <3>1. PICK taken : files = [i \in Items |-> [n \in Names |->
                          IF i \in taken /\ n = 0 THEN <<Someone>> ELSE Absent]]
      BY DEF Init
    <3> QED BY <3>1
  <2>4. cursor \in (1..ItemCount + 1) \X (0..Size) BY <2>1 DEF Init
  <2>5. wire \in [Attempts -> Seq(Chunks)] /\ \A a \in Attempts : Len(wire[a]) <= Buffer
    BY <2>2, Numbers DEF Init
  <2>6. partial \in [Items -> Seq(Nat)]
        /\ \A i \in Items : Len(partial[i]) <= Size /\ partial[i] # <<Someone>>
    BY <2>2, Numbers DEF Init, Absent
  <2>7. promised \in [Attempts -> [Items -> 0..Size]] BY <2>1 DEF Init
  <2>8. /\ version \in 1..MaxVersions /\ attempt \in 0..MaxAttempts /\ cancelled \in BOOLEAN
        /\ restarts \in 0..MaxRestarts /\ sender = "connect" /\ attempt < MaxAttempts
        /\ offer = 0
    BY <2>1 DEF Init
  <2>9. /\ manifest \in [Attempts -> 0..MaxVersions] /\ senderOpen \in [Attempts -> BOOLEAN]
        /\ reply \in [Attempts -> {"none", "ready", "rejected", "failed", "completed",
                                   "cancelled"}]
        /\ thread \in [Attempts -> Waiting \cup AtWork \cup {"ended"}]
    BY <2>1 DEF Init
  <2>10. /\ item \in [Attempts -> 1..ItemCount + 1] /\ offset \in [Attempts -> 0..Size]
         /\ policy \in [Attempts -> Policies \cup {"none"}]
    BY <2>1 DEF Init
  <2> QED BY <2>3, <2>4, <2>5, <2>6, <2>7, <2>8, <2>9, <2>10 DEF Shaped
<1>2. ASSUME NEW a \in Attempts PROVE Turn(a)
  <2>1. a > 0 BY Numbers
  <2> QED BY <1>2, <2>1 DEF Init, Turn, AtWork
<1> QED BY <1>1, <1>2 DEF SessionInv

(* A step of one receive thread.                                           *)
LEMMA ThreadFrame ==
    ASSUME SessionInv, NEW a \in Attempts, thread[a] \in AtWork,
           NEW s \in AtWork \cup {"ended"}, thread' = [thread EXCEPT ![a] = s],
           NEW n \in 1..ItemCount + 1, item' = [item EXCEPT ![a] = n],
           NEW o \in 0..Size, offset' = [offset EXCEPT ![a] = o],
           NEW r \in {"ready", "failed", "completed", "cancelled"},
           reply' = [reply EXCEPT ![a] = r], s \in AtWork => r = "ready",
           s \in AtWork \ {"next"} => n \in Items,
           \/ wire' = wire
           \/ wire[a] # <<>> /\ wire' = [wire EXCEPT ![a] = Tail(@)],
           partial' \in [Items -> Seq(Nat)],
           \A i \in Items : Len(partial'[i]) <= Size /\ partial'[i] # <<Someone>>,
           DOMAIN files' = Items, \A i \in Items : DOMAIN files'[i] = Names,
           UNCHANGED <<version, senderVars, promised, policy, offer, cancelled, restarts>>
    PROVE  SessionInv'
<1> USE DEF Waiting, AtWork
<1>1. /\ UNCHANGED <<version, sender, attempt, manifest, cursor, senderOpen, promised, policy,
                     cancelled, restarts>>
      /\ thread'[a] = s /\ item'[a] = n /\ reply'[a] = r
      /\ \A b \in Attempts : b # a => /\ thread'[b] = thread[b] /\ item'[b] = item[b]
                                      /\ reply'[b] = reply[b] /\ wire'[b] = wire[b]
  BY DEF senderVars, SessionInv, Shaped
<1>2. wire' \in [Attempts -> Seq(Chunks)] /\ \A b \in Attempts : Len(wire'[b]) <= Buffer
  <2>1. CASE wire' = wire BY <2>1 DEF SessionInv, Shaped
  <2>2. CASE wire[a] # <<>> /\ wire' = [wire EXCEPT ![a] = Tail(@)]
    <3>1. wire[a] \in Seq(Chunks) /\ Len(wire[a]) <= Buffer BY DEF SessionInv, Shaped
    <3>2. Tail(wire[a]) \in Seq(Chunks) BY <2>2, <3>1
    <3>3. Len(Tail(wire[a])) = Len(wire[a]) - 1 /\ Len(wire[a]) \in Nat BY <2>2, <3>1
    <3>4. Len(Tail(wire[a])) <= Buffer BY <3>1, <3>3, Numbers
    <3> QED BY <2>2, <3>2, <3>4 DEF SessionInv, Shaped
  <2> QED BY <2>1, <2>2
<1>3. Shaped'
  <2>1. /\ thread' \in [Attempts -> Waiting \cup AtWork \cup {"ended"}]
        /\ item' \in [Attempts -> 1..ItemCount + 1] /\ offset' \in [Attempts -> 0..Size]
        /\ reply' \in [Attempts -> {"none", "ready", "rejected", "failed", "completed",
                                    "cancelled"}]
    BY DEF SessionInv, Shaped
  <2>2. offer' # 0 => offer' \in Attempts /\ thread'[offer'] = "pending"
    BY <1>1 DEF SessionInv, Shaped
  <2> QED BY SMTT(60), <1>1, <1>2, <2>1, <2>2 DEF SessionInv, Shaped
<1>4. ASSUME NEW b \in Attempts, b # a PROVE Turn(b)'
  BY <1>1, <1>4, SameTurn DEF Same, SessionInv
<1>5. Turn(a)'
  <2>1. ~(a > attempt) /\ policy[a] \in Policies /\ ~(sender = "completed" /\ a = attempt)
    BY DEF SessionInv, Turn
  <2> QED BY <1>1, <2>1 DEF Turn
<1> QED BY <1>3, <1>4, <1>5 DEF SessionInv

(* The sender's steps, and those that touch no receive thread.             *)
LEMMA ConnectKeeps == ASSUME SessionInv, Connect PROVE SessionInv'
<1> USE DEF Waiting, AtWork
<1>1. attempt \in Nat /\ attempt < MaxAttempts BY Numbers DEF SessionInv, Shaped, Connect
<1>2. attempt' = attempt + 1 /\ attempt' \in Attempts /\ attempt' \in 0..MaxAttempts
      /\ thread[attempt'] = "none" /\ ~(attempt' > attempt')
  <2>1. attempt' = attempt + 1 /\ attempt' \in Attempts BY <1>1, Numbers DEF Connect
  <2>2. attempt' > attempt BY <1>1, <2>1
  <2> QED BY <1>1, <2>1, <2>2, Numbers DEF SessionInv, Turn
<1>3. /\ UNCHANGED <<version, cursor, wire, reply, promised, offer, item, offset, policy,
                     partial, files, cancelled, restarts>>
      /\ sender' = "offered"
      /\ manifest' = [manifest EXCEPT ![attempt'] = version]
      /\ senderOpen' = [senderOpen EXCEPT ![attempt'] = TRUE]
      /\ thread' = [thread EXCEPT ![attempt'] = "incoming"]
  BY DEF Connect, BuildManifest
<1>4. Shaped'
  <2>1. /\ manifest' \in [Attempts -> 0..MaxVersions] /\ senderOpen' \in [Attempts -> BOOLEAN]
        /\ thread' \in [Attempts -> Waiting \cup AtWork \cup {"ended"}]
        /\ (offer' # 0 => offer' \in Attempts /\ thread'[offer'] = "pending")
    BY SMTT(60), <1>2, <1>3, Numbers DEF SessionInv, Shaped
  <2> QED BY <1>2, <1>3, <2>1 DEF SessionInv, Shaped
<1>5. ASSUME NEW b \in Attempts PROVE Turn(b)'
  <2>1. CASE b = attempt' BY <1>2, <1>3, <2>1 DEF SessionInv, Shaped, Turn
  <2>2. CASE b # attempt'
    <3>1. thread'[b] = thread[b] BY <1>3, <2>2 DEF SessionInv, Shaped
    <3>2. b > attempt' <=> b > attempt BY <1>1, <1>2, <2>2, Numbers
    <3> QED BY <1>3, <3>1, <3>2 DEF SessionInv, Turn
  <2> QED BY <2>1, <2>2
<1> QED BY <1>4, <1>5 DEF SessionInv

LEMMA SenderKeeps ==
    ASSUME SessionInv, StartStreaming \/ SendChunk \/ ReadAnswer \/ Break PROVE SessionInv'
<1> USE DEF Waiting, AtWork
<1>1. /\ UNCHANGED <<version, attempt, manifest, reply, promised, offer, thread, item, offset,
                     policy, partial, files, cancelled, restarts>>
      /\ sender \in {"offered", "streaming"}
  BY DEF StartStreaming, SendChunk, ReadAnswer, Break, threadVars
<1>2. attempt \in Attempts BY <1>1 DEF SessionInv, Shaped
<1>3. /\ sender' \in {"connect", "offered", "streaming", "completed", "failed"}
      /\ (sender' = "connect" => attempt < MaxAttempts)
      /\ senderOpen' \in [Attempts -> BOOLEAN]
  BY <1>1, <1>2 DEF StartStreaming, SendChunk, ReadAnswer, Break, Hangup, SessionInv, Shaped
<1>4. cursor' \in (1..ItemCount + 1) \X (0..Size)
  <2>1. CASE StartStreaming
    <3>1. 1 \in Items /\ promised[attempt][1] \in Nat
      <4>1. 1 \in Items BY Numbers
      <4> QED BY <1>2, <4>1, Numbers DEF SessionInv, Shaped
    <3> QED BY <1>2, <2>1, <3>1, SkippingIsACursor DEF StartStreaming, SessionInv
  <2>2. CASE SendChunk
    <3>1. cursor[1] \in 1..ItemCount + 1 /\ cursor[2] \in 0..Size
      BY DEF SessionInv, Shaped
    <3>2. cursor[1] <= ItemCount BY <2>2 DEF SendChunk
    <3>3. cursor[1] \in Items /\ cursor[2] + 1 \in Nat BY <3>1, <3>2, Numbers
    <3> QED BY <1>2, <2>2, <3>3, SkippingIsACursor DEF SendChunk, SessionInv
  <2>3. CASE ReadAnswer \/ Break BY <2>3 DEF ReadAnswer, Break, SessionInv, Shaped
  <2> QED BY <2>1, <2>2, <2>3
<1>5. /\ wire' \in [Attempts -> Seq(Chunks)] /\ \A a \in Attempts : Len(wire'[a]) <= Buffer
      /\ \A a \in Attempts : thread[a] \in Waiting => wire'[a] = <<>>
  <2>1. CASE SendChunk
    <3> DEFINE chunk == [item |-> cursor[1], offset |-> cursor[2], version |-> version]
    <3>1. chunk \in Chunks BY SMTT(60), <2>1, Numbers DEF SendChunk, SessionInv, Shaped, Chunks
    <3>2. wire[attempt] \in Seq(Chunks) BY <1>2 DEF SessionInv, Shaped
    <3>3. Append(wire[attempt], chunk) \in Seq(Chunks)
          /\ Len(Append(wire[attempt], chunk)) = Len(wire[attempt]) + 1
          /\ Len(wire[attempt]) \in Nat
      <4> HIDE DEF chunk
      <4> QED BY <3>1, <3>2
    <3>4. wire' = [wire EXCEPT ![attempt] = Append(@, chunk)] /\ Len(wire[attempt]) < Buffer
      BY <2>1 DEF SendChunk
    <3> HIDE DEF chunk
    <3>5. Len(Append(wire[attempt], chunk)) <= Buffer BY <3>3, <3>4, Numbers
    <3>6. thread[attempt] \notin Waiting
      BY <1>2, <2>1 DEF SendChunk, SessionInv, Shaped, Turn
    <3> QED BY <1>2, <3>3, <3>4, <3>5, <3>6 DEF SessionInv, Shaped, Turn
  <2>2. CASE StartStreaming \/ ReadAnswer
    BY <2>2 DEF StartStreaming, ReadAnswer, SessionInv, Shaped, Turn
  <2>3. CASE Break
    <3>1. <<>> \in Seq(Chunks) /\ Len(<<>>) <= Buffer BY Numbers
    <3> QED BY ZenonT(60), <1>2, <2>3, <3>1 DEF Break, SessionInv, Shaped, Turn
  <2> QED BY <2>1, <2>2, <2>3
<1>6. Shaped' BY <1>1, <1>2, <1>3, <1>4, <1>5 DEF SessionInv, Shaped
<1>7. ASSUME NEW b \in Attempts PROVE Turn(b)'
  <2>1. /\ sender' = "streaming" /\ b = attempt => thread[b] \notin Waiting
        /\ sender' = "completed" /\ b = attempt => reply[b] = "completed"
    BY DEF StartStreaming, SendChunk, ReadAnswer, Break, Hangup, SessionInv, Shaped, Turn
  <2> QED BY <1>1, <1>5, <2>1 DEF SessionInv, Turn
<1> QED BY <1>6, <1>7 DEF SessionInv

LEMMA OthersKeep ==
    ASSUME SessionInv, EditSource \/ CancelReceive \/ (\E i \in Items : FileAppears(i))
    PROVE  SessionInv'
<1>1. UNCHANGED <<sender, attempt, manifest, cursor, wire, senderOpen, reply, promised, offer,
                  thread, item, offset, policy, partial, restarts>>
  BY DEF EditSource, CancelReceive, FileAppears, senderVars, threadVars
<1>2. version' \in 1..MaxVersions /\ cancelled' \in BOOLEAN
  <2>1. version \in 1..MaxVersions /\ cancelled \in BOOLEAN BY DEF SessionInv, Shaped
  <2>2. CASE EditSource BY <2>1, <2>2, Numbers DEF EditSource
  <2>3. CASE ~EditSource BY <2>1, <2>3 DEF CancelReceive, FileAppears
  <2> QED BY <2>2, <2>3
<1>3. DOMAIN files' = Items /\ \A i \in Items : DOMAIN files'[i] = Names
  BY DEF EditSource, CancelReceive, FileAppears, SessionInv, Shaped
<1>4. Shaped' BY <1>1, <1>2, <1>3 DEF SessionInv, Shaped
<1> QED BY <1>1, <1>4 DEF SessionInv, Turn

(* The steps of an offer.                                                  *)
LEMMA OfferKeeps == ASSUME SessionInv, NEW a \in Attempts, OfferStep(a) PROVE SessionInv'
<1> USE DEF Waiting, AtWork
<1>1. /\ UNCHANGED <<version, sender, attempt, manifest, cursor, senderOpen, wire, item,
                     offset, partial, files, cancelled, restarts>>
      /\ \E s \in {"pending", "next", "ended"} : thread' = [thread EXCEPT ![a] = s]
  BY DEF OfferStep, InsertOffer, ManifestLate, Accept, AcceptFails, Reject, Expire, senderVars
<1>2. thread[a] \in {"incoming", "pending"} /\ (offer = a => thread[a] = "pending")
  <2>1. a # 0 BY Numbers
  <2> QED BY <2>1 DEF OfferStep, InsertOffer, ManifestLate, Accept, AcceptFails, Reject, Expire,
                      SessionInv, Shaped
<1>3. /\ promised' \in [Attempts -> [Items -> 0..Size]]
      /\ policy' \in [Attempts -> Policies \cup {"none"}]
      /\ reply' \in [Attempts -> {"none", "ready", "rejected", "failed", "completed",
                                  "cancelled"}]
      /\ \A b \in Attempts : b # a => policy'[b] = policy[b] /\ reply'[b] = reply[b]
  <2>1. CASE Accept(a)
    <3>1. [i \in Items |-> PartialOffset(i)] \in [Items -> 0..Size]
      BY OffsetOfAFile DEF SessionInv
    <3> QED BY <2>1, <3>1 DEF Accept, SessionInv, Shaped
  <2>2. CASE ~Accept(a)
    BY <2>2 DEF OfferStep, InsertOffer, ManifestLate, AcceptFails, Reject, Expire, SessionInv,
                Shaped
  <2> QED BY <2>1, <2>2
<1>4. /\ thread' \in [Attempts -> Waiting \cup AtWork \cup {"ended"}]
      /\ \A b \in Attempts : b # a => thread'[b] = thread[b]
  BY <1>1 DEF SessionInv, Shaped
<1>5. offer' # 0 => offer' \in Attempts /\ thread'[offer'] = "pending"
  <2>1. CASE InsertOffer(a) BY <1>1, <1>2, <2>1 DEF InsertOffer, SessionInv, Shaped
  <2>2. CASE ManifestLate(a) BY <1>1, <1>2, <2>2 DEF ManifestLate, SessionInv, Shaped
  <2>3. CASE ~InsertOffer(a) /\ ~ManifestLate(a)
    BY <2>3 DEF OfferStep, Accept, AcceptFails, Reject, Expire
  <2> QED BY <2>1, <2>2, <2>3
<1>6. Shaped' BY <1>1, <1>3, <1>4, <1>5 DEF SessionInv, Shaped
<1>7. ASSUME NEW b \in Attempts, b # a PROVE Turn(b)'
  BY <1>1, <1>3, <1>4, <1>7, SameTurn DEF Same, SessionInv
<1>8. Turn(a)'
  <2>1. /\ ~(a > attempt) /\ item[a] = 1 /\ wire[a] = <<>> /\ reply[a] = "none"
        /\ (sender \in {"streaming", "completed"} => a # attempt)
    BY <1>2 DEF SessionInv, Turn
  <2>2. CASE Accept(a)
    <3>1. thread'[a] = "next" /\ policy'[a] \in Policies /\ reply'[a] = "ready"
      BY <2>2 DEF Accept, SessionInv, Shaped
    <3> QED BY <1>1, <2>1, <3>1 DEF Turn
  <2>3. CASE ~Accept(a)
    <3>1. \/ thread'[a] = "ended"
          \/ thread'[a] = "pending" /\ reply'[a] = reply[a]
      BY <2>3 DEF OfferStep, InsertOffer, ManifestLate, AcceptFails, Reject, Expire, SessionInv,
                  Shaped
    <3> QED BY <1>1, <2>1, <3>1 DEF Turn
  <2> QED BY <2>2, <2>3
<1> QED BY <1>6, <1>7, <1>8 DEF SessionInv

(* What End does to the variables of a receive thread.                     *)
LEMMA EndKeeps ==
    ASSUME SessionInv, NEW a \in Attempts, thread[a] \in AtWork,
           NEW r \in {"failed", "completed", "cancelled"}, End(a, r),
           wire' = wire \/ (wire[a] # <<>> /\ wire' = [wire EXCEPT ![a] = Tail(@)]),
           partial' \in [Items -> Seq(Nat)],
           \A i \in Items : Len(partial'[i]) <= Size /\ partial'[i] # <<Someone>>,
           UNCHANGED <<version, senderVars, promised, policy, offer, files, cancelled, restarts>>
    PROVE  SessionInv'
<1>1. 1 \in 1..ItemCount + 1 /\ 0 \in 0..Size BY Numbers
<1>2. DOMAIN files' = Items /\ \A i \in Items : DOMAIN files'[i] = Names
  BY DEF SessionInv, Shaped
<1>3. "ended" \notin AtWork BY DEF AtWork
<1> QED BY <1>1, <1>2, <1>3, ThreadFrame DEF End

(* The partial files when one of them goes or all of them.                 *)
LEMMA PartialGoes ==
    ASSUME SessionInv,
           \/ partial' = partial
           \/ partial' = [i \in Items |-> Absent]
           \/ \E i \in Items : partial' = [partial EXCEPT ![i] = Absent]
    PROVE  /\ partial' \in [Items -> Seq(Nat)]
           /\ \A i \in Items : Len(partial'[i]) <= Size /\ partial'[i] # <<Someone>>
<1>1. Absent \in Seq(Nat) /\ Len(Absent) <= Size /\ Absent # <<Someone>> BY Numbers DEF Absent
<1> QED BY ZenonT(60), <1>1 DEF SessionInv, Shaped

(* The steps of a receive thread.                                          *)
LEMMA NextItemKeeps ==
    ASSUME SessionInv, NEW a \in Attempts, NextItem(a) PROVE SessionInv'
<1>1. /\ thread[a] = "next"
      /\ UNCHANGED <<version, senderVars, wire, promised, policy, offer, files, cancelled,
                     restarts>>
      /\ partial' = partial \/ partial' = [i \in Items |-> Absent]
  BY DEF NextItem
<1>2. /\ partial' \in [Items -> Seq(Nat)]
      /\ \A i \in Items : Len(partial'[i]) <= Size /\ partial'[i] # <<Someone>>
  BY <1>1, PartialGoes
<1>3. ASSUME NEW r \in {"completed", "cancelled"}, End(a, r) PROVE SessionInv'
  BY <1>1, <1>2, <1>3, EndKeeps DEF AtWork
<1>4. ASSUME item[a] <= ItemCount, offset' = [offset EXCEPT ![a] = PartialOffset(item[a])],
             thread' = [thread EXCEPT ![a] = "read"], UNCHANGED <<partial, reply, item, dest>>
      PROVE  SessionInv'
  <2>1. item[a] \in Items /\ item[a] \in 1..ItemCount + 1
    BY <1>4, Numbers DEF SessionInv, Shaped
  <2>2. PartialOffset(item[a]) \in 0..Size BY <2>1, OffsetOfAFile DEF SessionInv
  <2>3. /\ item' = [item EXCEPT ![a] = item[a]] /\ reply' = [reply EXCEPT ![a] = "ready"]
        /\ DOMAIN files' = Items /\ \A i \in Items : DOMAIN files'[i] = Names
    BY <1>1, <1>4 DEF SessionInv, Shaped, Turn, AtWork
  <2>4. PICK o \in 0..Size : offset' = [offset EXCEPT ![a] = o] BY <1>4, <2>2
  <2>5. thread' = [thread EXCEPT ![a] = "read"] BY <1>4
  <2>6. /\ thread[a] = "read" \/ thread[a] = "next"
        /\ UNCHANGED <<version, senderVars, wire, promised, policy, offer, cancelled, restarts>>
    BY <1>1
  <2> QED BY <1>2, <2>1, <2>3, <2>4, <2>5, <2>6, ThreadFrame DEF AtWork
<1> QED BY <1>3, <1>4 DEF NextItem

LEMMA ReadChunkKeeps ==
    ASSUME SessionInv, NEW a \in Attempts, ReadChunk(a) PROVE SessionInv'
<1> DEFINE chunk == Head(wire[a])
<1>1. /\ thread[a] = "read" /\ wire[a] # <<>> /\ wire' = [wire EXCEPT ![a] = Tail(@)]
      /\ UNCHANGED <<version, senderVars, promised, policy, offer, files, cancelled, restarts>>
      /\ item[a] \in Items /\ offset[a] \in 0..Size /\ offset[a] < Size
      /\ wire[a] \in Seq(Chunks)
  BY DEF ReadChunk, SessionInv, Shaped, Turn, AtWork
<1>2. chunk \in Chunks
  <2>1. PICK l \in Nat : l = Len(wire[a]) BY <1>1
  <2> QED BY <1>1, <2>1
<1>3. ASSUME End(a, Failure), UNCHANGED partial PROVE SessionInv'
  <2>1. Failure \in {"failed", "completed", "cancelled"} BY DEF Failure
  <2>2. /\ partial' \in [Items -> Seq(Nat)]
        /\ \A i \in Items : Len(partial'[i]) <= Size /\ partial'[i] # <<Someone>>
    BY <1>3, PartialGoes
  <2> QED BY <1>1, <1>3, <2>1, <2>2, EndKeeps DEF AtWork
<1>4. ASSUME partial' = [partial EXCEPT ![item[a]] = Written(@, offset[a], chunk.version)],
             offset' = [offset EXCEPT ![a] = @ + 1], UNCHANGED <<thread, reply, item, dest>>
      PROVE  SessionInv'
  <2>1. chunk.version \in 1..MaxVersions BY <1>2 DEF Chunks
  <2> DEFINE file == partial[item[a]]
  <2>2. file \in Seq(Nat) /\ Len(file) <= Size /\ file # <<Someone>>
    BY <1>1 DEF SessionInv, Shaped
  <2>3. /\ Written(file, offset[a], chunk.version) \in Seq(Nat)
        /\ Len(Written(file, offset[a], chunk.version)) <= Size
        /\ Written(file, offset[a], chunk.version) # <<Someone>>
    BY <1>1, <2>1, <2>2, WriteIsAFile
  <2> HIDE DEF chunk
  <2>4. /\ partial' \in [Items -> Seq(Nat)]
        /\ \A i \in Items : Len(partial'[i]) <= Size /\ partial'[i] # <<Someone>>
    BY <1>1, <1>4, <2>3 DEF SessionInv, Shaped
  <2>5. offset[a] + 1 \in 0..Size BY <1>1, Numbers
  <2>6. /\ thread' = [thread EXCEPT ![a] = "read"] /\ item' = [item EXCEPT ![a] = item[a]]
        /\ reply' = [reply EXCEPT ![a] = "ready"] /\ item[a] \in 1..ItemCount + 1
        /\ offset' = [offset EXCEPT ![a] = offset[a] + 1]
        /\ DOMAIN files' = Items /\ \A i \in Items : DOMAIN files'[i] = Names
    BY <1>1, <1>4 DEF SessionInv, Shaped, Turn, AtWork
  <2> QED BY <1>1, <2>4, <2>5, <2>6, ThreadFrame DEF AtWork
<1> QED BY <1>3, <1>4 DEF ReadChunk

LEMMA ChecksKeep ==
    ASSUME SessionInv, NEW a \in Attempts, ReadFails(a) \/ Verify(a) \/ ChooseDestination(a)
    PROVE  SessionInv'
<1>1. /\ thread[a] \in {"read", "choose"}
      /\ UNCHANGED <<version, senderVars, wire, promised, policy, offer, partial, files,
                     cancelled, restarts>>
      /\ item[a] \in Items
  BY DEF ReadFails, Verify, ChooseDestination, SessionInv, Turn, AtWork
<1>2. /\ partial' \in [Items -> Seq(Nat)]
      /\ \A i \in Items : Len(partial'[i]) <= Size /\ partial'[i] # <<Someone>>
  BY <1>1, PartialGoes
<1>3. ASSUME End(a, Failure) PROVE SessionInv'
  <2>1. Failure \in {"failed", "completed", "cancelled"} BY DEF Failure
  <2> QED BY <1>1, <1>2, <1>3, <2>1, EndKeeps DEF AtWork
<1>4. ASSUME NEW s \in {"choose", "publish", "discard"}, thread' = [thread EXCEPT ![a] = s],
             UNCHANGED <<reply, item, offset>>
      PROVE  SessionInv'
  <2>1. /\ item' = [item EXCEPT ![a] = item[a]] /\ reply' = [reply EXCEPT ![a] = "ready"]
        /\ offset' = [offset EXCEPT ![a] = offset[a]]
        /\ offset[a] \in 0..Size /\ item[a] \in 1..ItemCount + 1
        /\ DOMAIN files' = Items /\ \A i \in Items : DOMAIN files'[i] = Names
    BY <1>1, <1>4 DEF SessionInv, Shaped, Turn, AtWork
  <2> QED BY <1>1, <1>2, <1>4, <2>1, ThreadFrame DEF AtWork
<1> QED BY <1>3, <1>4 DEF ReadFails, Verify, ChooseDestination

LEMMA PublishKeeps ==
    ASSUME SessionInv, NEW a \in Attempts, Publish(a) \/ Discard(a) PROVE SessionInv'
<1>1. /\ thread[a] \in {"publish", "discard"}
      /\ UNCHANGED <<version, senderVars, wire, promised, policy, offer, cancelled, restarts>>
      /\ item[a] \in Items /\ offset[a] \in 0..Size
      /\ partial' = partial \/ partial' = [partial EXCEPT ![item[a]] = Absent]
  BY DEF Publish, Discard, SessionInv, Shaped, Turn, AtWork
<1>2. /\ partial' \in [Items -> Seq(Nat)]
      /\ \A i \in Items : Len(partial'[i]) <= Size /\ partial'[i] # <<Someone>>
  BY <1>1, PartialGoes
<1>3. ASSUME End(a, Failure), UNCHANGED files PROVE SessionInv'
  <2>1. Failure \in {"failed", "completed", "cancelled"} BY DEF Failure
  <2> QED BY <1>1, <1>2, <1>3, <2>1, EndKeeps DEF AtWork
<1>4. ASSUME thread' = [thread EXCEPT ![a] = "next"], item' = [item EXCEPT ![a] = @ + 1],
             UNCHANGED <<reply, offset>>
      PROVE  SessionInv'
  <2>1. item[a] + 1 \in 1..ItemCount + 1 BY <1>1, Numbers
  <2>2. /\ item' = [item EXCEPT ![a] = item[a] + 1] /\ reply' = [reply EXCEPT ![a] = "ready"]
        /\ offset' = [offset EXCEPT ![a] = offset[a]]
    BY <1>1, <1>4 DEF SessionInv, Shaped, Turn, AtWork
  <2>3. DOMAIN files' = Items /\ \A i \in Items : DOMAIN files'[i] = Names
    BY DEF Publish, Discard, SessionInv, Shaped
  <2> QED BY <1>1, <1>2, <1>4, <2>1, <2>2, <2>3, ThreadFrame DEF AtWork
<1> QED BY <1>3, <1>4 DEF Publish, Discard

LEMMA RestartKeeps == ASSUME SessionInv, Restart PROVE SessionInv'
<1> USE DEF Waiting, AtWork
<1>1. /\ UNCHANGED <<version, sender, attempt, manifest, cursor, senderOpen, policy, reply,
                     promised, partial, files>>
      /\ offer' = 0 /\ cancelled' = FALSE /\ wire' = [a \in Attempts |-> <<>>]
      /\ thread' = [a \in Attempts |-> IF thread[a] = "none" THEN "none" ELSE "ended"]
      /\ item' = [a \in Attempts |-> 1] /\ offset' = [a \in Attempts |-> 0]
  BY DEF Restart, senderVars
<1>2. /\ 1 \in 1..ItemCount + 1 /\ 0 \in 0..Size /\ <<>> \in Seq(Chunks) /\ Len(<<>>) <= Buffer
      /\ restarts' \in 0..MaxRestarts
  BY Numbers DEF Restart, SessionInv, Shaped
<1>3. /\ wire' \in [Attempts -> Seq(Chunks)] /\ \A a \in Attempts : Len(wire'[a]) <= Buffer
      /\ thread' \in [Attempts -> Waiting \cup AtWork \cup {"ended"}]
      /\ item' \in [Attempts -> 1..ItemCount + 1] /\ offset' \in [Attempts -> 0..Size]
  BY <1>1, <1>2
<1>4. Shaped' BY <1>1, <1>2, <1>3 DEF SessionInv, Shaped
<1>5. ASSUME NEW b \in Attempts PROVE Turn(b)'
  <2>1. /\ (thread[b] = "none" <=> b > attempt) /\ (thread[b] = "none" => reply[b] = "none")
        /\ (sender = "completed" /\ b = attempt => reply[b] = "completed")
    BY DEF SessionInv, Turn
  <2>2. b = attempt => ~(b > attempt) BY Numbers
  <2> QED BY <1>1, <2>1, <2>2 DEF Turn
<1> QED BY <1>4, <1>5 DEF SessionInv

(* SessionInv is inductive.                                                *)
LEMMA NextSession == ASSUME SessionInv, [Next]_vars PROVE SessionInv'
<1>1. CASE UNCHANGED vars
  BY <1>1 DEF vars, senderVars, threadVars, SessionInv, Shaped, Turn
<1>2. CASE SenderStep BY <1>2, ConnectKeeps, SenderKeeps DEF SenderStep
<1>3. CASE EditSource \/ CancelReceive \/ \E i \in Items : FileAppears(i)
  BY <1>3, OthersKeep
<1>4. CASE Restart BY <1>4, RestartKeeps
<1>5. CASE \E a \in Attempts : OfferStep(a) BY <1>5, OfferKeeps
<1>6. CASE \E a \in Attempts : ThreadStep(a)
  BY <1>6, NextItemKeeps, ReadChunkKeeps, ChecksKeep, PublishKeeps DEF ThreadStep
<1> QED BY <1>1, <1>2, <1>3, <1>4, <1>5, <1>6 DEF Next

(* Every variable has its shape and every receive thread its place, in     *)
(* every reachable state, of any number of attempts.                       *)
THEOREM SessionKept == Spec => []SessionInv
BY InitSession, NextSession, PTL DEF Spec

-----------------------------------------------------------------------------
(* The names of the files.                                                 *)

(* A step of one attempt on the receiver's side leaves the others alone.   *)
LEMMA OthersIdle ==
    ASSUME SessionInv, NEW a \in Attempts, OfferStep(a) \/ ThreadStep(a)
    PROVE  /\ \A b \in Attempts : b # a => Same(b)
           /\ UNCHANGED <<version, senderVars, cancelled, restarts>>
<1>1. CASE OfferStep(a)
  BY SMTT(60), <1>1
  DEF OfferStep, InsertOffer, ManifestLate, Accept, AcceptFails, Reject, Expire, SessionInv,
      Shaped, Same
<1>2. CASE NextItem(a) \/ ReadChunk(a) \/ ReadFails(a)
  BY SMTT(60), <1>2 DEF NextItem, ReadChunk, ReadFails, End, SessionInv, Shaped, Same
<1>3. CASE Verify(a) \/ ChooseDestination(a) \/ Publish(a) \/ Discard(a)
  BY SMTT(60), <1>3 DEF Verify, ChooseDestination, Publish, Discard, End, SessionInv, Shaped, Same
<1> QED BY <1>1, <1>2, <1>3 DEF ThreadStep

(* Where a receive thread goes: on, or to its end.                         *)
LEMMA ThreadGoesOn ==
    ASSUME SessionInv, NEW a \in Attempts, ThreadStep(a)
    PROVE  /\ thread[a] \in AtWork
           /\ \/ thread'[a] = "ended"
              \/ thread'[a] \in AtWork /\ item'[a] \in {item[a], item[a] + 1}
           /\ policy' = policy
<1> USE DEF AtWork
<1>1. thread[a] \in AtWork /\ policy' = policy
  BY DEF ThreadStep, NextItem, ReadChunk, ReadFails, Verify, ChooseDestination, Publish, Discard
<1>2. CASE NextItem(a) \/ ReadChunk(a) \/ ReadFails(a) \/ Verify(a)
  BY <1>1, <1>2 DEF NextItem, ReadChunk, ReadFails, Verify, End, SessionInv, Shaped
<1>3. CASE ChooseDestination(a) \/ Publish(a) \/ Discard(a)
  BY <1>1, <1>3 DEF ChooseDestination, Publish, Discard, End, SessionInv, Shaped
<1> QED BY <1>1, <1>2, <1>3 DEF ThreadStep

(* What does not write to the receive directory.                           *)
LEMMA FilesStay ==
    ASSUME [Next]_vars
    PROVE  \/ files' = files
           \/ \E a \in Attempts : Publish(a) /\ partial[item[a]] # Absent
           \/ \E i \in Items : FileAppears(i)
<1>1. CASE SenderStep \/ EditSource \/ CancelReceive \/ Restart \/ UNCHANGED vars
  BY <1>1 DEF SenderStep, Connect, StartStreaming, SendChunk, ReadAnswer, Break, EditSource,
              CancelReceive, Restart, vars
<1>2. CASE \E a \in Attempts : OfferStep(a)
  BY <1>2 DEF OfferStep, InsertOffer, ManifestLate, Accept, AcceptFails, Reject, Expire
<1>3. CASE \E a \in Attempts : ThreadStep(a)
  BY <1>3 DEF ThreadStep, NextItem, ReadChunk, ReadFails, Verify, ChooseDestination, Publish,
              Discard
<1> QED BY <1>1, <1>2, <1>3 DEF Next

(* What is written to the receive directory, and where.                    *)
LEMMA PublishWrites ==
    ASSUME SessionInv, dest \in [Attempts -> Names],
           NEW a \in Attempts, Publish(a), partial[item[a]] # Absent
    PROVE  /\ item[a] \in Items /\ dest[a] \in Names
           /\ files'[item[a]][dest[a]] = partial[item[a]]
           /\ \A i \in Items, n \in Names :
                 i # item[a] \/ n # dest[a] => files'[i][n] = files[i][n]
<1>1. item[a] \in Items /\ dest[a] \in Names
  BY DEF Publish, SessionInv, Turn, AtWork
<1>2. files' = [files EXCEPT ![item[a]][dest[a]] = partial[item[a]]] BY DEF Publish
<1>3. DOMAIN files = Items /\ \A i \in Items : DOMAIN files[i] = Names BY DEF SessionInv, Shaped
<1> QED BY <1>1, <1>2, <1>3

(* The sets that are compared are finite.                                  *)
LEMMA NamesAreFinite ==
    /\ IsFiniteSet(Names \ {0}) /\ Cardinality(Names \ {0}) = MaxAttempts + 1
    /\ IsFiniteSet(Attempts) /\ Cardinality(Attempts) = MaxAttempts
    /\ \A i : /\ IsFiniteSet(Numbered(i)) /\ Cardinality(Numbered(i)) \in Nat
              /\ IsFiniteSet(Spent(i)) /\ Cardinality(Spent(i)) \in 0..MaxAttempts
<1>1. 0 \in Int /\ 1 \in Int /\ MaxAttempts \in Int /\ MaxAttempts + 1 \in Int BY Numbers
<1>2. IsFiniteSet(Names \ {0}) /\ Cardinality(Names \ {0}) = MaxAttempts + 1
  <2>1. Names \ {0} = 1..MaxAttempts + 1 BY Numbers DEF Names
  <2>2. IsFiniteSet(1..MaxAttempts + 1)
        /\ Cardinality(1..MaxAttempts + 1) =
              IF 1 > MaxAttempts + 1 THEN 0 ELSE (MaxAttempts + 1) - 1 + 1
    BY <1>1, FS_Interval
  <2>3. Cardinality(1..MaxAttempts + 1) = MaxAttempts + 1
    <3>1. ~(1 > MaxAttempts + 1) /\ (MaxAttempts + 1) - 1 + 1 = MaxAttempts + 1 BY Numbers
    <3> QED BY <2>2, <3>1
  <2> HIDE DEF Names
  <2> QED BY <2>1, <2>2, <2>3
<1>3. IsFiniteSet(Attempts) /\ Cardinality(Attempts) = MaxAttempts
  <2>1. IsFiniteSet(Attempts)
        /\ Cardinality(Attempts) = IF 1 > MaxAttempts THEN 0 ELSE MaxAttempts - 1 + 1
    BY <1>1, FS_Interval DEF Attempts
  <2> QED BY <2>1, Numbers
<1>4. ASSUME NEW i
      PROVE  /\ IsFiniteSet(Numbered(i)) /\ Cardinality(Numbered(i)) \in Nat
             /\ IsFiniteSet(Spent(i)) /\ Cardinality(Spent(i)) \in 0..MaxAttempts
  <2>1. Numbered(i) \subseteq Names \ {0} /\ Spent(i) \subseteq Attempts
    BY DEF Numbered, Spent
  <2>2. IsFiniteSet(Numbered(i)) /\ IsFiniteSet(Spent(i))
        /\ Cardinality(Spent(i)) <= Cardinality(Attempts)
    BY <1>2, <1>3, <2>1, FS_Subset
  <2>3. Cardinality(Numbered(i)) \in Nat /\ Cardinality(Spent(i)) \in Nat
    BY <2>2, FS_CardinalityType
  <2> QED BY <1>3, <2>2, <2>3, Numbers
<1> QED BY <1>2, <1>3, <1>4

(* At the beginning only the items' own names can be taken.                *)
LEMMA InitNames == Init => NamesInv
<1> SUFFICES ASSUME Init PROVE NamesInv OBVIOUS
<1>1. dest \in [Attempts -> Names] BY Numbers DEF Init, Names
<1>2. ASSUME NEW i \in Items PROVE Cardinality(Numbered(i)) <= Cardinality(Spent(i))
  <2>1. PICK taken : files = [h \in Items |-> [n \in Names |->
                        IF h \in taken /\ n = 0 THEN <<Someone>> ELSE Absent]]
    BY DEF Init
  <2>2. Numbered(i) = {} BY <2>1 DEF Numbered, Taken
  <2> QED BY <2>2, FS_EmptySet, NamesAreFinite
<1>3. \A a \in Attempts : thread[a] # "publish" BY DEF Init
<1> QED BY <1>1, <1>2, <1>3 DEF NamesInv

(* There are more numbered names than attempts to take them.               *)
LEMMA ANumberedNameIsFree ==
    ASSUME NamesInv, NEW i \in Items PROVE \E n \in Names \ {0} : ~Taken(i, n)
<1>1. (\A n \in Names \ {0} : Taken(i, n)) => Numbered(i) = Names \ {0} BY DEF Numbered
<1>2. Cardinality(Numbered(i)) <= MaxAttempts BY NamesAreFinite, Numbers DEF NamesInv
<1>3. ~(MaxAttempts + 1 <= MaxAttempts) BY Numbers
<1> QED BY <1>1, <1>2, <1>3, NamesAreFinite

(* FreeName is the first of the names that are free.                       *)
LEMMA FreeNameIsFree ==
    ASSUME NamesInv, NEW i \in Items
    PROVE  FreeName(i) \in Names /\ ~Taken(i, FreeName(i))
<1> DEFINE free == {n \in Names : ~Taken(i, n)}
<1>1. free \subseteq Nat BY Numbers DEF Names
<1>2. free # {} BY ANumberedNameIsFree
<1>3. PICK x \in free : \A y \in free : x <= y BY <1>1, <1>2, LeastIsThere
<1>4. \A m \in Names : m < x => Taken(i, m)
  <2>1. \A m \in Names : m \in Nat BY Numbers DEF Names
  <2> QED BY <1>1, <1>3, <2>1
<1>5. \E n \in Names : ~Taken(i, n) /\ \A m \in Names : m < n => Taken(i, m) BY <1>3, <1>4
<1> QED BY <1>5 DEF FreeName

(* An attempt that has had its chance at an item does not get another.     *)
LEMMA SpentGrows ==
    ASSUME SessionInv, [Next]_vars, NEW i \in Items, NEW a \in Spent(i)
    PROVE  a \in Spent(i)'
<1> USE DEF Running
<1>1. a \in Attempts /\ thread[a] \notin Waiting /\ item[a] \in Nat /\ i \in Nat
  BY SMTT(60), Numbers DEF Spent, SessionInv, Shaped, Waiting
<1>2. CASE UNCHANGED <<thread, item>> BY <1>2 DEF Spent
<1>3. CASE Connect
  <2>1. attempt \in Nat /\ attempt' = attempt + 1 /\ ~(a > attempt) /\ a \in Nat
        /\ thread' = [thread EXCEPT ![attempt'] = "incoming"] /\ item' = item
    BY <1>1, <1>3, Numbers DEF Connect, SessionInv, Shaped, Turn, Waiting
  <2>2. thread'[a] = thread[a] /\ item' = item BY <1>1, <2>1 DEF SessionInv, Shaped
  <2> QED BY <1>1, <2>2 DEF Spent
<1>4. CASE Restart
  <2>1. thread'[a] = "ended" BY <1>1, <1>4 DEF Restart, Waiting
  <2> QED BY <1>1, <2>1 DEF Spent
<1>5. ASSUME NEW b \in Attempts, b # a, OfferStep(b) \/ ThreadStep(b) PROVE a \in Spent(i)'
  <2>1. Same(a) BY <1>1, <1>5, OthersIdle
  <2> QED BY <1>1, <2>1 DEF Spent, Same
<1>6. CASE OfferStep(a)
  <2>1. a # 0 BY <1>1, Numbers
  <2>2. thread[a] \in Waiting
    BY <1>6, <2>1 DEF OfferStep, InsertOffer, ManifestLate, Accept, AcceptFails, Reject, Expire,
                      SessionInv, Shaped, Waiting
  <2> QED BY <1>1, <2>2
<1>7. CASE ThreadStep(a)
  <2>1. /\ thread[a] \in AtWork
        /\ \/ thread'[a] = "ended"
           \/ thread'[a] \in AtWork /\ item'[a] \in {item[a], item[a] + 1}
    BY <1>1, <1>7, ThreadGoesOn
  <2>2. item[a] > i BY <2>1 DEF Spent, AtWork
  <2>3. item[a] + 1 > i BY <1>1, <2>2
  <2> QED BY <1>1, <2>1, <2>2, <2>3 DEF Spent, AtWork
<1>8. CASE StartStreaming \/ SendChunk \/ ReadAnswer \/ Break \/ EditSource \/ CancelReceive
           \/ \E h \in Items : FileAppears(h)
  <2>1. UNCHANGED <<thread, item>>
    BY <1>8 DEF StartStreaming, SendChunk, ReadAnswer, Break, EditSource, CancelReceive,
                FileAppears, threadVars
  <2> QED BY <1>2, <2>1
<1>9. CASE UNCHANGED vars BY <1>2, <1>9 DEF vars, threadVars
<1> QED BY <1>3, <1>4, <1>5, <1>6, <1>7, <1>8, <1>9 DEF Next, SenderStep

(* No step makes a file of someone else.                                   *)
LEMMA NobodysReturn ==
    ASSUME SessionInv, dest \in [Attempts -> Names], [Next]_vars, NEW i \in Items, NEW n \in Names,
           files'[i][n] = <<Someone>>
    PROVE  files[i][n] = <<Someone>>
<1>1. CASE files' = files BY <1>1
<1>2. ASSUME NEW a \in Attempts, Publish(a), partial[item[a]] # Absent
      PROVE  files[i][n] = <<Someone>>
  <2>1. item[a] \in Items /\ dest[a] \in Names /\ partial[item[a]] # <<Someone>>
    BY <1>2, PublishWrites DEF SessionInv, Shaped
  <2>2. CASE i = item[a] /\ n = dest[a] BY <1>2, <2>1, <2>2, PublishWrites
  <2>3. CASE i # item[a] \/ n # dest[a]
    <3>1. files'[i][n] = files[i][n] BY <1>2, <2>3, PublishWrites
    <3> QED BY <3>1
  <2> QED BY <2>2, <2>3
<1>3. ASSUME NEW h \in Items, FileAppears(h) PROVE files[i][n] = <<Someone>>
  <2>1. <<Newcomer>> # <<Someone>>
    <3>1. Newcomer # Someone BY Numbers DEF Newcomer, Someone
    <3> QED BY <3>1
  <2>2. files' = [files EXCEPT ![h][0] = <<Newcomer>>] BY <1>3 DEF FileAppears
  <2> QED BY <1>3, <2>1, <2>2 DEF SessionInv, Shaped
<1> QED BY <1>1, <1>2, <1>3, FilesStay

(* A publication under a numbered name uses up the attempt's chance.       *)
LEMMA PublishCounts ==
    ASSUME SessionInv, NamesInv, [Next]_vars,
           NEW a \in Attempts, Publish(a), partial[item[a]] # Absent, NEW i \in Items
    PROVE  Cardinality(Numbered(i)') <= Cardinality(Spent(i)')
<1>1. /\ dest[a] \in Names
      /\ \A h \in Items, n \in Names :
            h # item[a] \/ n # dest[a] => files'[h][n] = files[h][n]
  BY PublishWrites DEF NamesInv
<1>2. Spent(i) \subseteq Spent(i)' BY SpentGrows
<1>3. IsFiniteSet(Spent(i)') /\ Cardinality(Spent(i)) <= Cardinality(Spent(i)')
      /\ Cardinality(Spent(i)') \in Nat
  <2>1. Spent(i)' \subseteq Attempts BY DEF Spent
  <2> QED BY <1>2, <2>1, NamesAreFinite, FS_Subset, FS_CardinalityType
<1>4. /\ Cardinality(Numbered(i)) \in Nat /\ Cardinality(Spent(i)) \in Nat
      /\ IsFiniteSet(Numbered(i)) /\ IsFiniteSet(Spent(i))
      /\ Cardinality(Numbered(i)) <= Cardinality(Spent(i))
  BY NamesAreFinite DEF NamesInv
<1>5. CASE i # item[a] \/ dest[a] = 0
  <2>1. Numbered(i)' = Numbered(i) BY <1>1, <1>5 DEF Numbered, Taken
  <2> QED BY <1>3, <1>4, <2>1
<1>6. CASE i = item[a] /\ dest[a] # 0
  <2>1. Numbered(i)' \subseteq Numbered(i) \cup {dest[a]} BY <1>1, <1>6 DEF Numbered, Taken
  <2>2. a \notin Spent(i) /\ a \in Spent(i)'
    <3>1. thread[a] = "publish" /\ thread'[a] = "next" /\ item'[a] = i + 1
      BY <1>6 DEF Publish, SessionInv, Shaped
    <3>2. ~(item[a] > i) /\ i + 1 > i BY <1>6, Numbers
    <3> QED BY <3>1, <3>2 DEF Spent, Running
  <2>3. Cardinality(Spent(i)) + 1 <= Cardinality(Spent(i)')
    <3>1. Spent(i) \cup {a} \subseteq Spent(i)' BY <1>2, <2>2
    <3>2. Cardinality(Spent(i) \cup {a}) = Cardinality(Spent(i)) + 1
      BY <1>4, <2>2, FS_AddElement
    <3>3. Cardinality(Spent(i) \cup {a}) <= Cardinality(Spent(i)') BY <1>3, <3>1, FS_Subset
    <3> QED BY <3>2, <3>3
  <2>4. /\ IsFiniteSet(Numbered(i) \cup {dest[a]})
        /\ \/ Cardinality(Numbered(i) \cup {dest[a]}) = Cardinality(Numbered(i))
           \/ Cardinality(Numbered(i) \cup {dest[a]}) = Cardinality(Numbered(i)) + 1
    BY <1>4, FS_AddElement
  <2>5. /\ Cardinality(Numbered(i)') <= Cardinality(Numbered(i) \cup {dest[a]})
        /\ IsFiniteSet(Numbered(i)')
    BY <2>1, <2>4, FS_Subset
  <2>6. Cardinality(Numbered(i)') \in Nat /\ Cardinality(Numbered(i) \cup {dest[a]}) \in Nat
    BY <2>4, <2>5, FS_CardinalityType
  <2> QED BY <1>3, <1>4, <2>3, <2>4, <2>5, <2>6
<1> QED BY <1>5, <1>6

(* The names chosen are names.                                             *)
LEMMA DestsAreNames ==
    ASSUME SessionInv, NamesInv, [Next]_vars PROVE dest' \in [Attempts -> Names]
<1>0. dest \in [Attempts -> Names] /\ 0 \in Names BY Numbers DEF NamesInv, Names
<1>1. ASSUME NEW a \in Attempts, NEW r, End(a, r) PROVE dest' \in [Attempts -> Names]
  BY <1>0, <1>1 DEF End
<1>2. ASSUME NEW a \in Attempts, ChooseDestination(a) PROVE dest' \in [Attempts -> Names]
  <2>1. item[a] \in Items BY <1>2 DEF ChooseDestination, SessionInv, Turn, AtWork
  <2>2. FreeName(item[a]) \in Names BY <2>1, FreeNameIsFree
  <2> QED BY <1>0, <1>2, <2>2 DEF ChooseDestination
<1>3. ASSUME NEW a \in Attempts, ThreadStep(a) PROVE dest' \in [Attempts -> Names]
  <2>1. \/ dest' = dest \/ (\E r : End(a, r)) \/ ChooseDestination(a)
        \/ dest' = [dest EXCEPT ![a] = 0]
    BY <1>3 DEF ThreadStep, NextItem, ReadChunk, ReadFails, Verify, Publish, Discard
  <2> QED BY <1>0, <1>1, <1>2, <2>1
<1>4. CASE SenderStep \/ EditSource \/ CancelReceive \/ UNCHANGED vars
           \/ (\E i \in Items : FileAppears(i)) \/ \E a \in Attempts : OfferStep(a)
  <2>1. dest' = dest
    BY <1>4 DEF SenderStep, Connect, StartStreaming, SendChunk, ReadAnswer, Break, EditSource,
                CancelReceive, FileAppears, OfferStep, InsertOffer, ManifestLate, Accept,
                AcceptFails, Reject, Expire, vars, threadVars
  <2> QED BY <1>0, <2>1
<1>5. CASE Restart BY <1>0, <1>5 DEF Restart
<1> QED BY <1>3, <1>4, <1>5 DEF Next

(* A thread that is about to rename had chosen its name before, for the    *)
(* same item, or chooses it now.                                           *)
LEMMA AboutToRename ==
    ASSUME SessionInv, NamesInv, [Next]_vars, NEW a \in Attempts, thread'[a] = "publish"
    PROVE  \/ /\ thread[a] = "publish" /\ item'[a] = item[a] /\ dest'[a] = dest[a]
              /\ policy'[a] = policy[a]
           \/ ChooseDestination(a)
<1>0. dest \in [Attempts -> Names] BY DEF NamesInv
<1>1. CASE Connect
  <2>1. thread' = [thread EXCEPT ![attempt'] = "incoming"] /\ UNCHANGED <<item, dest, policy>>
    BY <1>1 DEF Connect
  <2> QED BY <2>1 DEF SessionInv, Shaped
<1>2. CASE StartStreaming \/ SendChunk \/ ReadAnswer \/ Break \/ EditSource \/ CancelReceive
           \/ (\E h \in Items : FileAppears(h)) \/ UNCHANGED vars
  <2>1. UNCHANGED <<thread, item, dest, policy>>
    BY <1>2 DEF StartStreaming, SendChunk, ReadAnswer, Break, EditSource, CancelReceive,
                FileAppears, threadVars, vars
  <2> QED BY <2>1
<1>3. CASE Restart BY <1>3 DEF Restart
<1>4. ASSUME NEW b \in Attempts, b # a, OfferStep(b) \/ ThreadStep(b)
      PROVE  /\ thread[a] = "publish" /\ item'[a] = item[a] /\ dest'[a] = dest[a]
             /\ policy'[a] = policy[a]
  <2>1. Same(a) BY <1>4, OthersIdle
  <2>2. CASE OfferStep(b)
    BY <2>1, <2>2
    DEF Same, OfferStep, InsertOffer, ManifestLate, Accept, AcceptFails, Reject, Expire
  <2>3. CASE ThreadStep(b)
    <3>1. dest'[a] = dest[a]
      BY <1>0, <1>4, <2>3
      DEF ThreadStep, NextItem, ReadChunk, ReadFails, Verify, ChooseDestination, Publish,
          Discard, End
    <3> QED BY <2>1, <3>1 DEF Same
  <2> QED BY <1>4, <2>2, <2>3
<1>5. CASE OfferStep(a)
  BY <1>5 DEF OfferStep, InsertOffer, ManifestLate, Accept, AcceptFails, Reject, Expire,
              SessionInv, Shaped
<1>6. CASE ThreadStep(a)
  <2>1. thread \in [Attempts -> Waiting \cup AtWork \cup {"ended"}] BY DEF SessionInv, Shaped
  <2>2. CASE NextItem(a) \/ ReadFails(a) \/ Verify(a) \/ Publish(a) \/ Discard(a)
    BY <2>1, <2>2 DEF NextItem, ReadFails, Verify, Publish, Discard, End
  <2>3. CASE ReadChunk(a) BY <2>1, <2>3 DEF ReadChunk, End
  <2> QED BY <1>6, <2>2, <2>3 DEF ThreadStep
<1> QED BY <1>1, <1>2, <1>3, <1>4, <1>5, <1>6 DEF Next, SenderStep

(* NamesInv is inductive, given SessionInv.                                *)
LEMMA NextNames == ASSUME SessionInv, NamesInv, [Next]_vars PROVE NamesInv'
<1>0. dest \in [Attempts -> Names] BY DEF NamesInv
<1>1. dest' \in [Attempts -> Names] BY DestsAreNames
<1>2. ASSUME NEW i \in Items PROVE Cardinality(Numbered(i)') <= Cardinality(Spent(i)')
  <2>1. ASSUME Numbered(i)' = Numbered(i)
        PROVE  Cardinality(Numbered(i)') <= Cardinality(Spent(i)')
    <3>1. Spent(i) \subseteq Spent(i)' BY SpentGrows
    <3>2. Spent(i)' \subseteq Attempts BY DEF Spent
    <3>3. IsFiniteSet(Spent(i)') /\ Cardinality(Spent(i)) <= Cardinality(Spent(i)')
          /\ Cardinality(Spent(i)') \in Nat
      BY <3>1, <3>2, NamesAreFinite, FS_Subset, FS_CardinalityType
    <3>4. /\ Cardinality(Numbered(i)) \in Nat /\ Cardinality(Spent(i)) \in Nat
          /\ Cardinality(Numbered(i)) <= Cardinality(Spent(i))
      BY NamesAreFinite DEF NamesInv
    <3> QED BY <2>1, <3>3, <3>4
  <2>2. CASE files' = files
    <3>1. Numbered(i)' = Numbered(i) BY <2>2 DEF Numbered, Taken
    <3> QED BY <2>1, <3>1
  <2>3. ASSUME NEW h \in Items, FileAppears(h)
        PROVE  Cardinality(Numbered(i)') <= Cardinality(Spent(i)')
    <3>1. files' = [files EXCEPT ![h][0] = <<Newcomer>>] BY <2>3 DEF FileAppears
    <3>2. \A n \in Names \ {0} : files'[i][n] = files[i][n]
      BY <3>1 DEF SessionInv, Shaped
    <3>3. Numbered(i)' = Numbered(i) BY <3>2 DEF Numbered, Taken
    <3> QED BY <2>1, <3>3
  <2> QED BY <2>2, <2>3, PublishCounts, FilesStay
<1>3. ASSUME NEW a \in Attempts, thread'[a] = "publish", policy'[a] # "overwrite",
             files'[item'[a]][dest'[a]] = <<Someone>>
      PROVE  FALSE
  <2>1. CASE ChooseDestination(a)
    <3>1. /\ item[a] \in Items /\ item' = item /\ policy' = policy /\ files' = files
          /\ policy[a] \in {"rename", "overwrite", "skip"}
      BY <2>1, Numbers DEF ChooseDestination, SessionInv, Turn, AtWork
    <3>2. Absent # <<Someone>> BY DEF Absent
    <3>3. ~Taken(item[a], dest'[a])
      <4>1. /\ ~(Taken(item[a], 0) /\ policy[a] = "skip")
            /\ dest'[a] = IF policy[a] = "rename" THEN FreeName(item[a]) ELSE 0
        BY <1>0, <1>3, <2>1 DEF ChooseDestination, SessionInv, Shaped
      <4> QED BY <1>3, <3>1, <4>1, FreeNameIsFree
    <3> QED BY <1>3, <3>1, <3>2, <3>3 DEF Taken
  <2>2. CASE /\ thread[a] = "publish" /\ item'[a] = item[a] /\ dest'[a] = dest[a]
             /\ policy'[a] = policy[a]
    <3>1. item[a] \in Items BY <2>2 DEF SessionInv, Turn, AtWork
    <3>2. files[item[a]][dest[a]] = <<Someone>>
      BY <1>0, <1>3, <2>2, <3>1, NobodysReturn
    <3> QED BY <1>3, <2>2, <3>2 DEF NamesInv
  <2> QED BY <1>3, <2>1, <2>2, AboutToRename
<1> QED BY <1>1, <1>2, <1>3 DEF NamesInv

(* TypeOK: the bounds of numbers and buffers hold too, and a name is left  *)
(* for every item that has to be renamed.                                  *)
THEOREM TypesKept == Spec => []TypeOK
<1>1. SessionInv /\ NamesInv => TypeOK
  <2> SUFFICES ASSUME SessionInv, NamesInv PROVE TypeOK OBVIOUS
  <2>1. offer \in 0..MaxAttempts BY Numbers DEF SessionInv, Shaped
  <2>2. thread \in [Attempts -> {"none", "incoming", "pending", "next", "read", "choose",
                                 "publish", "discard", "ended"}]
    BY DEF SessionInv, Shaped, Waiting, AtWork
  <2> QED BY <2>1, <2>2 DEF SessionInv, Shaped, NamesInv, TypeOK
<1> QED BY <1>1, InitSession, NextSession, InitNames, NextNames, PTL DEF Spec

(* There is always a name left for destination_path to choose.             *)
THEOREM ANameIsLeft == Spec => [](\A i \in Items : ~Taken(i, FreeName(i)))
<1>1. NamesInv => \A i \in Items : ~Taken(i, FreeName(i)) BY FreeNameIsFree
<1> QED BY <1>1, InitSession, NextSession, InitNames, NextNames, PTL DEF Spec

(* OthersFilesKept: however the receive threads of several attempts follow *)
(* each other, a file that was there goes only to a thread that renames    *)
(* under the policy "overwrite".                                           *)
THEOREM OthersFilesAreKept == Spec => OthersFilesKept
<1>1. ASSUME SessionInv, NamesInv, [Next]_vars
      PROVE  [\A i \in Items, n \in Names :
                 files[i][n] = <<Someone>> /\ files'[i][n] # <<Someone>>
                     => \E a \in Attempts : policy[a] = "overwrite" /\ thread[a] = "publish"]_vars
  <2> SUFFICES ASSUME NEW i \in Items, NEW n \in Names, files[i][n] = <<Someone>>,
                      files'[i][n] # <<Someone>>
               PROVE  \E a \in Attempts : policy[a] = "overwrite" /\ thread[a] = "publish"
    OBVIOUS
  <2>1. dest \in [Attempts -> Names] BY <1>1 DEF NamesInv
  <2>2. ASSUME NEW h \in Items, FileAppears(h) PROVE FALSE
    <3>1. files[h][0] = Absent /\ files' = [files EXCEPT ![h][0] = <<Newcomer>>]
      BY <2>2 DEF FileAppears
    <3>2. Absent # <<Someone>> BY DEF Absent
    <3> QED BY <1>1, <3>1, <3>2 DEF SessionInv, Shaped
  <2>3. PICK a \in Attempts : Publish(a) /\ partial[item[a]] # Absent
    BY <1>1, <2>2, FilesStay
  <2>4. i = item[a] /\ n = dest[a]
    <3>1. i # item[a] \/ n # dest[a] => files'[i][n] = files[i][n]
      BY <1>1, <2>1, <2>3, PublishWrites
    <3> QED BY <3>1
  <2>5. thread[a] = "publish" BY <2>3 DEF Publish
  <2> QED BY <1>1, <2>4, <2>5 DEF NamesInv
<1> QED BY <1>1, InitSession, NextSession, InitNames, NextNames, PTL DEF Spec, OthersFilesKept

-----------------------------------------------------------------------------
(* What is published, within the scope of PublishInv.                      *)

(* Of two attempts there is no third.                                      *)
LEMMA NoThird ==
    ASSUME Pair, NEW a \in Attempts, NEW b \in Attempts, NEW c \in Attempts,
           b # a, c # a
    PROVE  b = c
BY Numbers DEF Pair

(* The whole of an empty file is nothing.                                  *)
LEMMA WholeOfNothing == ASSUME Size = 0, NEW v PROVE Whole(v) = Absent
<1>1. 1..Size = {} BY Numbers
<1> QED BY <1>1 DEF Whole, Absent

(* A thread that is neither at work nor ended has not begun.               *)
LEMMA NotBegun ==
    ASSUME SessionInv, NEW b \in Attempts, thread[b] # "ended", ~Running(b)
    PROVE  thread[b] \in Waiting /\ wire[b] = <<>>
BY DEF SessionInv, Shaped, Turn, Running, Waiting, AtWork

(* A step of a receive thread: what it has to see to.                      *)
LEMMA StepPublish ==
    ASSUME Scope, SessionInv, PublishInv, NEW a \in Attempts, thread[a] \in AtWork,
           \A b \in Attempts : b # a => Same(b),
           UNCHANGED <<version, senderVars, policy>>,
           \/ thread'[a] = "ended"
           \/ thread'[a] \in AtWork /\ item'[a] \in {item[a], item[a] + 1},
           reply'[a] = "completed" =>
               /\ thread'[a] = "ended" /\ \A i \in Items : Delivered(a, i)'
               /\ \A i \in Items : partial'[i] = Absent,
           wire[a] = <<>> => wire'[a] = <<>>,
           (\A i \in Items : partial[i] = Absent) /\ wire[a] = <<>> =>
               \A i \in Items : partial'[i] = Absent,
           \A b \in Attempts, i \in Items :
               Delivered(b, i) /\ (b = a \/ Running(b) \/ (Told /\ b = attempt))
                   => Delivered(b, i)',
           \A b \in Attempts \ {a} : thread[b] \in {"choose", "publish", "discard"} =>
               \/ partial'[item[b]] = partial[item[b]]
               \/ /\ partial'[item[b]] = Absent
                  /\ thread'[a] = "ended" \/ item'[a] > item[b],
           Publishing(a)', NothingMixed'
    PROVE  PublishInv'
<1> USE DEF AtWork, Running
<1>1. /\ version' = version /\ attempt' = attempt /\ manifest' = manifest /\ policy' = policy
  BY DEF senderVars
<1>0. thread[a] # "ended" /\ \A b \in Attempts : item[b] \in Nat
  <2>1. item \in [Attempts -> 1..ItemCount + 1] BY DEF SessionInv, Shaped
  <2> QED BY <2>1, Numbers
<1>2. Resting' BY <1>1 DEF PublishInv, Resting, Same
<1>3. ASSUME NEW b \in Attempts, b # a PROVE Publishing(b)'
  <2>1. /\ thread'[b] = thread[b] /\ item'[b] = item[b] /\ wire'[b] = wire[b] BY <1>3 DEF Same
  <2>2. Running(b) => \A i \in Items : i < item[b] => Delivered(b, i)'
    BY <1>3 DEF PublishInv, Publishing
  <2>0. PICK h : h = item[b] OBVIOUS
  <2>3. thread[b] = "discard" => Delivered(b, h)'
    <3>1. thread[b] = "discard" => h \in Items /\ Running(b) /\ Delivered(b, h)
      BY <2>0 DEF SessionInv, Turn, PublishInv, Publishing
    <3> QED BY <1>3, <3>1
  <2>4. ASSUME thread[b] \in {"choose", "publish", "discard"}
        PROVE  partial'[item[b]] = Whole(manifest[b]) \/ (partial'[item[b]] = Absent /\ Past(b)')
    <3>1. partial[item[b]] = Whole(manifest[b]) \/ (partial[item[b]] = Absent /\ Past(b))
      BY <2>4 DEF PublishInv, Publishing
    <3>0. Pair BY <1>3, <2>4 DEF Scope, Alone
    <3>2. ASSUME thread'[a] = "ended" \/ item'[a] > item[b] PROVE Past(b)'
      BY <1>3, <2>1, <3>0, <3>2, NoThird DEF Past
    <3>3. ASSUME Past(b) PROVE Past(b)'
      <4>1. item[a] > item[b] BY <1>0, <1>3, <3>3 DEF Past
      <4>2. thread'[a] = "ended" \/ item'[a] > item[b] BY <1>0, <4>1
      <4> QED BY <3>2, <4>2
    <3> QED BY <1>3, <2>4, <3>1, <3>2, <3>3
  <2>5. /\ b <= attempt => manifest[b] \in 1..version
        /\ \A n \in 1..Len(wire[b]) : wire[b][n].version \in manifest[b]..version
    BY DEF PublishInv, Publishing
  <2> QED BY <1>1, <2>0, <2>1, <2>2, <2>3, <2>4, <2>5 DEF Publishing, Delivered, Taken
<1>4. Settled'
  <2>0. PICK c : c = attempt OBVIOUS
  <2> SUFFICES ASSUME Told'
               PROVE  /\ thread'[attempt] = "ended"
                      /\ \A i \in Items : Delivered(c, i)'
                      /\ \A b \in Attempts : thread'[b] # "ended" =>
                            \/ Pair /\ Running(b)' /\ manifest[b] = manifest[attempt]
                            \/ wire'[b] = <<>> /\ \A i \in Items : partial'[i] = Absent
    BY <1>1, <2>0 DEF Settled, Delivered, Taken
  <2>1. attempt \in Attempts /\ attempt # 0 /\ reply'[attempt] = "completed"
    <3>1. attempt # 0 /\ reply'[attempt] = "completed" BY <1>1 DEF Told
    <3>2. attempt \in 0..MaxAttempts BY DEF SessionInv, Shaped
    <3> QED BY <3>1, <3>2, Numbers
  <2>2. CASE attempt = a
    <3>1. ASSUME NEW b \in Attempts, thread'[b] # "ended"
          PROVE  \/ Pair /\ Running(b)' /\ manifest[b] = manifest[attempt]
                 \/ wire'[b] = <<>> /\ \A i \in Items : partial'[i] = Absent
      <4>1. b # a /\ Same(b) BY <2>1, <2>2, <3>1
      <4>2. CASE Running(b) 
        <5>1. Pair BY <2>2, <4>1, <4>2 DEF Scope, Alone
        <5> QED BY <2>2, <4>1, <4>2, <5>1 DEF PublishInv, Resting, Same
      <4>3. CASE ~Running(b) BY <2>1, <2>2, <3>1, <4>1, <4>3, NotBegun DEF Same
      <4> QED BY <4>2, <4>3
    <3> QED BY <2>0, <2>1, <2>2, <3>1
  <2>3. CASE attempt # a
    <3>1. Told /\ Same(attempt) BY <2>1, <2>3 DEF Told, Same
    <3>2. thread'[attempt] = "ended" /\ \A i \in Items : Delivered(c, i)'
      BY <2>0, <2>1, <3>1 DEF PublishInv, Settled, Same
    <3>3. CASE Pair
      <4>1. \/ Running(a) /\ manifest[a] = manifest[attempt]
            \/ wire[a] = <<>> /\ \A i \in Items : partial[i] = Absent
        BY <1>0, <3>1 DEF PublishInv, Settled
      <4>2. ASSUME NEW b \in Attempts, thread'[b] # "ended" PROVE b = a
        BY <2>1, <2>3, <3>2, <3>3, <4>2, NoThird
      <4> QED BY <3>2, <3>3, <4>1, <4>2
    <3>4. CASE ~Pair
      <4>1. wire[a] = <<>> /\ \A i \in Items : partial[i] = Absent
        BY <1>0, <3>1, <3>4 DEF PublishInv, Settled
      <4>2. \A i \in Items : partial'[i] = Absent BY <4>1
      <4>3. \A b \in Attempts : thread'[b] # "ended" => wire'[b] = <<>>
        BY <3>1, <3>4, <4>1 DEF PublishInv, Settled, Same
      <4> QED BY <3>2, <4>2, <4>3
    <3> QED BY <3>3, <3>4
  <2> QED BY <2>2, <2>3
<1> QED BY <1>2, <1>3, <1>4 DEF PublishInv

(* What is delivered stays so while the receive directory is the same.     *)
LEMMA DeliveryStays ==
    ASSUME files' = files, NEW b \in Attempts, manifest'[b] = manifest[b],
           policy'[b] = policy[b], NEW i \in Items, Delivered(b, i)
    PROVE  Delivered(b, i)'
BY DEF Delivered, Taken

(* The beginning.                                                          *)
LEMMA InitPublish == Init => PublishInv
<1> SUFFICES ASSUME Init PROVE PublishInv OBVIOUS
<1>1. \A a \in Attempts : thread[a] = "none" /\ wire[a] = <<>> /\ a > 0 BY Numbers DEF Init
<1>2. attempt = 0 BY DEF Init
<1>3. Resting /\ Settled BY <1>1, <1>2 DEF Resting, Settled, Told, Running
<1>4. ASSUME NEW a \in Attempts PROVE Publishing(a)
  <2>1. ~(a <= 0) /\ Len(<<>>) = 0 BY Numbers
  <2>2. \A n \in 1..Len(wire[a]) : FALSE BY <1>1, <2>1
  <2> QED BY <1>1, <1>2, <2>1, <2>2 DEF Publishing, Running
<1>5. NothingMixed
  <2>1. PICK taken : files = [h \in Items |-> [n \in Names |->
                        IF h \in taken /\ n = 0 THEN <<Someone>> ELSE Absent]]
    BY DEF Init
  <2> QED BY <2>1 DEF NothingMixed
<1> QED BY <1>3, <1>4, <1>5 DEF PublishInv

(* A new attempt is hashed from the source as it is.                       *)
LEMMA ConnectPublish == ASSUME SessionInv, PublishInv, Connect PROVE PublishInv'
<1> USE DEF Waiting
<1>1. /\ attempt' = attempt + 1 /\ attempt \in Nat /\ attempt' \in Attempts
      /\ UNCHANGED <<version, wire, reply, item, policy, partial, files>>
      /\ manifest' = [manifest EXCEPT ![attempt'] = version]
      /\ thread' = [thread EXCEPT ![attempt'] = "incoming"]
  <2>1. attempt \in Nat /\ attempt < MaxAttempts /\ attempt' = attempt + 1
    BY Numbers DEF Connect, SessionInv, Shaped
  <2>2. attempt' \in Attempts BY <2>1, Numbers
  <2> QED BY <2>1, <2>2 DEF Connect, BuildManifest
<1>2. /\ thread'[attempt'] = "incoming" /\ manifest'[attempt'] = version
      /\ \A b \in Attempts : b # attempt' => /\ thread'[b] = thread[b]
                                             /\ manifest'[b] = manifest[b]
  BY <1>1 DEF SessionInv, Shaped
<1>3. thread[attempt'] = "none" /\ wire[attempt'] = <<>> /\ reply[attempt'] = "none"
  <2>1. attempt' > attempt BY <1>1
  <2> QED BY <1>1, <2>1 DEF SessionInv, Turn
<1>4. Resting' /\ Settled' /\ NothingMixed'
  BY <1>1, <1>2, <1>3 DEF PublishInv, Resting, Running, Settled, Told, NothingMixed
<1>5. ASSUME NEW b \in Attempts, b # attempt' PROVE Publishing(b)'
  <2>1. b <= attempt' <=> b <= attempt BY <1>1, <1>5, Numbers
  <2>2. ~Past(b) BY <1>1, <1>3, <1>5 DEF Past, Running
  <2>3. \A i \in Items : Delivered(b, i) => Delivered(b, i)' BY <1>1, <1>2, <1>5, DeliveryStays
  <2>4. PICK h : h = item[b] OBVIOUS
  <2>5. thread[b] = "discard" => Delivered(b, h)'
    <3>1. thread[b] = "discard" => h \in Items /\ Delivered(b, h)
      BY <2>4 DEF SessionInv, Turn, AtWork, PublishInv, Publishing
    <3> QED BY <2>3, <3>1
  <2>6. Running(b) => \A i \in Items : i < item[b] => Delivered(b, i)'
    BY <2>3 DEF PublishInv, Publishing
  <2>7. thread'[b] = "discard" => Delivered(b, item[b])'
    BY <1>1, <1>2, <1>5, <2>4, <2>5 DEF Delivered, Taken
  <2>8. /\ b <= attempt => manifest[b] \in 1..version
        /\ \A n \in 1..Len(wire[b]) : wire[b][n].version \in manifest[b]..version
        /\ thread[b] \in {"choose", "publish", "discard"} => partial[item[b]] = Whole(manifest[b])
    BY <2>2 DEF PublishInv, Publishing
  <2> QED BY <1>1, <1>2, <1>5, <2>1, <2>6, <2>7, <2>8 DEF Publishing, Running
<1>6. ASSUME NEW c \in Attempts, c = attempt' PROVE Publishing(c)'
  <2>2. version \in Nat /\ version >= 1 BY Numbers DEF SessionInv, Shaped
  <2>3. Len(<<>>) = 0 OBVIOUS
  <2>4. \A n \in 1..Len(wire[c]) : FALSE BY <1>3, <1>6, <2>3
  <2> QED BY <1>1, <1>2, <1>3, <1>6, <2>2, <2>4 DEF Publishing, Running
<1> QED BY <1>4, <1>5, <1>6 DEF PublishInv

(* The sender goes on, or the receiving user cancels: only the wire of the *)
(* current attempt changes.                                                *)
LEMMA SenderPublish ==
    ASSUME SessionInv, PublishInv,
           StartStreaming \/ SendChunk \/ ReadAnswer \/ Break \/ CancelReceive
    PROVE  PublishInv'
<1>1. UNCHANGED <<version, attempt, manifest, reply, thread, item, policy, partial, files>>
  BY DEF StartStreaming, SendChunk, ReadAnswer, Break, CancelReceive, threadVars, senderVars
<1>2. attempt # 0 => attempt \in Attempts
  <2>1. attempt \in 0..MaxAttempts BY DEF SessionInv, Shaped
  <2> QED BY <2>1, Numbers
<1>3. \A b \in Attempts :
         \/ wire'[b] = wire[b]
         \/ wire'[b] = <<>>
         \/ SendChunk /\ b = attempt
  BY DEF StartStreaming, SendChunk, ReadAnswer, Break, CancelReceive, SessionInv, Shaped
<1>4. ASSUME NEW b \in Attempts PROVE Publishing(b)'
  <2>1. /\ b <= attempt => manifest[b] \in 1..version
        /\ \A n \in 1..Len(wire[b]) : wire[b][n].version \in manifest[b]..version
    BY DEF PublishInv, Publishing
  <2>2. \A n \in 1..Len(wire'[b]) : wire'[b][n].version \in manifest[b]..version
    <3>1. CASE wire'[b] = wire[b] BY <2>1, <3>1
    <3>2. CASE wire'[b] = <<>>
      <4>1. Len(<<>>) = 0 OBVIOUS
      <4> QED BY <3>2, <4>1
    <3>3. CASE SendChunk /\ b = attempt
      <4> DEFINE chunk == [item |-> cursor[1], offset |-> cursor[2], version |-> version]
      <4>1. wire'[b] = Append(wire[b], chunk) /\ wire[b] \in Seq(Chunks)
        BY <3>3 DEF SendChunk, SessionInv, Shaped
      <4>2. manifest[b] \in 1..version /\ version \in Nat
        <5>1. b <= attempt BY <3>3, Numbers
        <5>2. version \in Nat BY Numbers DEF SessionInv, Shaped
        <5> QED BY <2>1, <5>1, <5>2
      <4>3. chunk.version \in manifest[b]..version BY <4>2
      <4> HIDE DEF chunk
      <4>4. PICK l \in Nat : l = Len(wire[b]) BY <4>1
      <4>5. Len(wire'[b]) = l + 1 /\ wire'[b][l + 1] = chunk
            /\ \A n \in 1..l : wire'[b][n] = wire[b][n]
        BY <4>1, <4>4
      <4> QED BY SMTT(60), <2>1, <4>3, <4>4, <4>5
    <3> QED BY <1>3, <3>1, <3>2, <3>3
  <2> QED BY <1>1, <2>2 DEF PublishInv, Publishing, Running, Past, Delivered, Taken
<1>5. Settled'
  <2>1. ASSUME Told, NEW b \in Attempts, thread[b] # "ended", wire[b] = <<>>
        PROVE  wire'[b] = <<>>
    <3>1. b # attempt BY <2>1 DEF PublishInv, Settled
    <3> QED BY <1>3, <2>1, <3>1
  <2> QED BY <1>1, <2>1 DEF PublishInv, Settled, Told, Delivered, Taken, Running
<1>6. Resting' /\ NothingMixed'
  BY <1>1 DEF PublishInv, Resting, Running, NothingMixed
<1> QED BY <1>4, <1>5, <1>6 DEF PublishInv

(* The source is edited while not more than one thread is at work.         *)
LEMMA EditPublish ==
    ASSUME Scope, SessionInv, PublishInv, EditSource PROVE PublishInv'
<1>1. /\ version' = version + 1 /\ \A a, b \in Attempts : Running(a) /\ Running(b) => a = b
      /\ UNCHANGED <<attempt, manifest, wire, reply, thread, item, policy, partial, files>>
  BY DEF EditSource, senderVars, threadVars, Scope, Alone, Pair
<1>2. version \in Nat /\ \A m : m \in Nat => m..version \subseteq m..version'
  <2>1. version \in Nat BY Numbers DEF SessionInv, Shaped
  <2> QED BY <1>1, <2>1
<1>3. Resting' BY <1>1 DEF Resting, Running
<1>4. ASSUME NEW b \in Attempts PROVE Publishing(b)'
  <2>1. manifest[b] \in Nat BY Numbers DEF SessionInv, Shaped
  <2>2. 1..version \subseteq 1..version' /\ manifest[b]..version \subseteq manifest[b]..version'
    BY <1>2, <2>1
  <2>3. /\ b <= attempt => manifest[b] \in 1..version'
        /\ \A n \in 1..Len(wire[b]) : wire[b][n].version \in manifest[b]..version'
    BY <2>2 DEF PublishInv, Publishing
  <2> QED BY <1>1, <2>3 DEF PublishInv, Publishing, Running, Past, Delivered, Taken
<1>5. Settled' BY <1>1 DEF PublishInv, Settled, Told, Delivered, Taken, Running
<1>6. NothingMixed'
  <2>1. 1..version \subseteq 1..version' BY <1>2
  <2> QED BY <1>1, <2>1 DEF PublishInv, NothingMixed
<1> QED BY <1>3, <1>4, <1>5, <1>6 DEF PublishInv

(* A file of someone else appears under an item's own name.                *)
LEMMA AppearPublish ==
    ASSUME SessionInv, NamesInv, PublishInv, NEW h \in Items, FileAppears(h) PROVE PublishInv'
<1>1. /\ UNCHANGED <<version, attempt, manifest, wire, reply, thread, item, policy, partial>>
      /\ files[h][0] = Absent /\ files' = [files EXCEPT ![h][0] = <<Newcomer>>]
      /\ 0 \in Names
  BY Numbers DEF FileAppears, senderVars, threadVars, Names
<1>2. DOMAIN files = Items /\ \A i \in Items : DOMAIN files[i] = Names BY DEF SessionInv, Shaped
<1>3. /\ files'[h][0] = <<Newcomer>>
      /\ \A i \in Items, n \in Names : i # h \/ n # 0 => files'[i][n] = files[i][n]
  BY <1>1, <1>2
<1>4. ASSUME NEW b \in Attempts, NEW i \in Items, Delivered(b, i) PROVE Delivered(b, i)'
  <2>1. CASE policy[b] = "skip" /\ Taken(i, 0)
    <3>1. Taken(i, 0)' BY <1>1, <1>3, <2>1 DEF Taken, Absent
    <3> QED BY <1>1, <2>1, <3>1 DEF Delivered
  <2>2. CASE \E n \in Names : files[i][n] = Whole(manifest[b])
    <3>1. PICK n \in Names : files[i][n] = Whole(manifest[b]) BY <2>2
    <3>2. CASE i # h \/ n # 0
      <4>1. files'[i][n] = Whole(manifest[b]) BY <1>3, <3>1, <3>2
      <4> QED BY <1>1, <4>1 DEF Delivered
    <3>3. CASE i = h /\ n = 0
      <4>1. Size = 0 BY <1>1, <3>1, <3>3, WholeIsAFile
      <4>2. PICK m \in Names \ {0} : files[i][m] = Absent BY ANumberedNameIsFree DEF Taken
      <4>3. files'[i][m] = Whole(manifest[b]) BY <1>3, <4>1, <4>2, WholeOfNothing
      <4> QED BY <1>1, <4>3 DEF Delivered
    <3> QED BY <3>2, <3>3
  <2> QED BY <1>4, <2>1, <2>2 DEF Delivered
<1>5. ASSUME NEW b \in Attempts PROVE Publishing(b)'
  <2>1. PICK i : i = item[b] OBVIOUS
  <2>2. thread[b] = "discard" => Delivered(b, i)'
    <3>1. thread[b] = "discard" => i \in Items /\ Delivered(b, i)
      BY <2>1 DEF SessionInv, Turn, AtWork, PublishInv, Publishing
    <3> QED BY <1>4, <3>1
  <2>3. Running(b) => \A j \in Items : j < item[b] => Delivered(b, j)'
    BY <1>4 DEF PublishInv, Publishing
  <2>4. thread[b] = "discard" => Delivered(b, item[b])'
    BY <1>1, <2>1, <2>2 DEF Delivered, Taken
  <2> QED BY <1>1, <2>3, <2>4 DEF PublishInv, Publishing, Running, Past
<1>6. Settled'
  <2>1. PICK c : c = attempt OBVIOUS
  <2>2. attempt # 0 => c \in Attempts
    <3>1. attempt \in 0..MaxAttempts BY DEF SessionInv, Shaped
    <3> QED BY <2>1, <3>1, Numbers
  <2>3. Told => \A i \in Items : Delivered(c, i)'
    BY <1>4, <2>1, <2>2 DEF PublishInv, Settled, Told
  <2>4. Told => \A i \in Items : Delivered(attempt, i)'
    BY <1>1, <2>1, <2>3 DEF Delivered, Taken
  <2> QED BY <1>1, <2>4 DEF PublishInv, Settled, Told, Running
<1>7. Resting' /\ NothingMixed'
  BY <1>1, <1>2, <1>3 DEF PublishInv, Resting, Running, NothingMixed
<1> QED BY <1>5, <1>6, <1>7 DEF PublishInv

(* What the receiver makes of an offer.                                    *)
LEMMA OfferPublish ==
    ASSUME Scope, Scope', SessionInv, PublishInv, NEW a \in Attempts, OfferStep(a)
    PROVE  PublishInv'
<1>1. /\ UNCHANGED <<version, attempt, manifest, wire, item, partial, files>>
      /\ \A b \in Attempts : b # a => Same(b)
  <2>1. UNCHANGED <<version, senderVars, wire, item, partial, files>>
    BY DEF OfferStep, InsertOffer, ManifestLate, Accept, AcceptFails, Reject, Expire
  <2> QED BY <2>1, OthersIdle DEF senderVars
<1>2. /\ thread[a] \in {"incoming", "pending"} /\ item[a] = 1 /\ wire[a] = <<>>
      /\ reply'[a] # "completed"
  <2>1. a # 0 BY Numbers
  <2>2. thread[a] \in {"incoming", "pending"}
    BY <2>1 DEF OfferStep, InsertOffer, ManifestLate, Accept, AcceptFails, Reject, Expire,
                SessionInv, Shaped
  <2>3. item[a] = 1 /\ wire[a] = <<>> /\ reply[a] = "none"
    BY <2>2 DEF SessionInv, Turn, Waiting
  <2>4. reply'[a] # "completed"
    BY <2>3 DEF OfferStep, InsertOffer, ManifestLate, Accept, AcceptFails, Reject, Expire,
                SessionInv, Shaped
  <2> QED BY <2>2, <2>3, <2>4
<1>3. thread'[a] \in {"pending", "ended", "next"} /\ (thread'[a] = "next" => Accept(a))
  BY DEF OfferStep, InsertOffer, ManifestLate, Accept, AcceptFails, Reject, Expire,
         SessionInv, Shaped
<1>4. Resting'
  <2>0. CASE Alone' BY <2>0 DEF Alone, Resting
  <2>1. CASE Accept(a) /\ Pair
    <3>1. \A b \in Attempts : Running(b) => manifest[a] = version /\ manifest[b] = version
      BY <2>1 DEF Accept, Pair
    <3>2. \A b \in Attempts : b # a => (Running(b)' <=> Running(b)) BY <1>1 DEF Same, Running
    <3> QED BY <1>1, <3>1, <3>2 DEF Resting
  <2>2. CASE ~Accept(a)
    <3>1. \A b \in Attempts : Running(b)' => Running(b)
      BY <1>1, <1>3, <2>2 DEF Same, Running
    <3> QED BY <1>1, <3>1 DEF PublishInv, Resting
  <2> QED BY <2>0, <2>1, <2>2 DEF Scope, Pair
<1>5. ASSUME NEW b \in Attempts, b # a PROVE Publishing(b)'
  <2>1. ~Past(b) BY <1>2, <1>5 DEF Past, Running
  <2>2. Same(b) BY <1>1, <1>5
  <2> QED BY <1>1, <2>1, <2>2 DEF PublishInv, Publishing, Running, Delivered, Taken, Same
<1>6. Publishing(a)'
  <2>1. \A i \in Items : ~(i < item'[a]) BY <1>1, <1>2, Numbers
  <2> QED BY <1>1, <1>3, <2>1 DEF PublishInv, Publishing
<1>7. Settled'
  <2> SUFFICES ASSUME Told' PROVE Settled' BY DEF Settled
  <2>1. attempt # a /\ attempt # 0 /\ reply'[attempt] = "completed"
    BY <1>1, <1>2 DEF Told
  <2>2. attempt \in Attempts
    <3>1. attempt \in 0..MaxAttempts BY DEF SessionInv, Shaped
    <3> QED BY <2>1, <3>1, Numbers
  <2>3. Same(attempt) /\ Told BY <1>1, <2>1, <2>2 DEF Told, Same
  <2>4. wire[a] = <<>> /\ \A i \in Items : partial[i] = Absent
    BY <1>2, <2>3 DEF PublishInv, Settled, Running
  <2>5. thread'[attempt] = "ended" /\ \A i \in Items : Delivered(attempt, i)'
    BY <1>1, <2>1, <2>2, <2>3 DEF PublishInv, Settled, Delivered, Taken, Same
  <2>6. ASSUME NEW b \in Attempts, thread'[b] # "ended"
        PROVE  \/ Pair /\ Running(b)' /\ manifest[b] = manifest[attempt]
               \/ wire[b] = <<>> /\ \A i \in Items : partial[i] = Absent
    <3>1. CASE b = a BY <2>4, <3>1
    <3>2. CASE b # a
      BY <1>1, <2>3, <2>6, <3>2 DEF PublishInv, Settled, Same, Running
    <3> QED BY <3>1, <3>2
  <2> QED BY <1>1, <2>5, <2>6 DEF Settled
<1>8. NothingMixed' BY <1>1 DEF PublishInv, NothingMixed
<1> QED BY <1>4, <1>5, <1>6, <1>7, <1>8 DEF PublishInv

(* The receiver is started again: every thread that has begun is ended.    *)
LEMMA RestartPublish == ASSUME SessionInv, PublishInv, Restart PROVE PublishInv'
<1>1. /\ UNCHANGED <<version, attempt, manifest, reply, policy, partial, files>>
      /\ wire' = [b \in Attempts |-> <<>>]
      /\ thread' = [b \in Attempts |-> IF thread[b] = "none" THEN "none" ELSE "ended"]
  BY DEF Restart, senderVars
<1>2. \A b \in Attempts : thread'[b] \in {"none", "ended"} /\ wire'[b] = <<>> BY <1>1
<1>3. Resting' BY <1>2 DEF Resting, Running
<1>4. ASSUME NEW b \in Attempts PROVE Publishing(b)'
  <2>1. Len(<<>>) = 0 OBVIOUS
  <2>2. \A n \in 1..Len(wire'[b]) : FALSE BY <1>2, <2>1
  <2>3. b <= attempt => manifest[b] \in 1..version BY DEF PublishInv, Publishing
  <2> QED BY <1>1, <1>2, <2>2, <2>3 DEF Publishing, Running
<1>5. Settled'
  <2> SUFFICES ASSUME Told' PROVE Settled' BY DEF Settled
  <2>1. Told /\ attempt # 0 BY <1>1 DEF Told
  <2>2. attempt \in Attempts
    <3>1. attempt \in 0..MaxAttempts BY DEF SessionInv, Shaped
    <3> QED BY <2>1, <3>1, Numbers
  <2>3. thread[attempt] = "ended" /\ \A i \in Items : Delivered(attempt, i)
    BY <2>1 DEF PublishInv, Settled
  <2>4. thread'[attempt] = "ended" /\ \A i \in Items : Delivered(attempt, i)'
    BY <1>1, <2>2, <2>3 DEF Delivered, Taken
  <2>5. ASSUME NEW b \in Attempts, thread'[b] # "ended"
        PROVE  \A i \in Items : partial[i] = Absent
    <3>1. thread[b] = "none" BY <1>1, <2>5
    <3> QED BY <2>1, <3>1 DEF PublishInv, Settled, Running
  <2> QED BY <1>1, <1>2, <2>4, <2>5 DEF Settled
<1>6. NothingMixed' BY <1>1 DEF PublishInv, NothingMixed
<1> QED BY <1>3, <1>4, <1>5, <1>6 DEF PublishInv

(* A thread ends without having completed, the files as they are.          *)
LEMMA EndPublish ==
    ASSUME Scope, SessionInv, PublishInv, NEW a \in Attempts, ThreadStep(a),
           NEW r, r # "completed", End(a, r), UNCHANGED <<partial, files>>
    PROVE  PublishInv'
<1>1. /\ \A b \in Attempts : b # a => Same(b)
      /\ UNCHANGED <<version, senderVars>>
  BY OthersIdle
<1>2. policy' = policy /\ thread[a] \in AtWork BY ThreadGoesOn
<1>3. manifest' = manifest /\ attempt' = attempt BY <1>1 DEF senderVars
<1>4. thread'[a] = "ended" /\ reply'[a] = r BY DEF End, SessionInv, Shaped
<1>5. wire'[a] = wire[a] \/ (wire[a] # <<>> /\ wire'[a] = Tail(wire[a]))
  BY DEF ThreadStep, NextItem, ReadChunk, ReadFails, Verify, ChooseDestination, Publish, Discard,
         SessionInv, Shaped
<1>6. \A b \in Attempts, i \in Items : Delivered(b, i) => Delivered(b, i)'
  BY <1>2, <1>3, DeliveryStays
<1>7. \A n \in 1..Len(wire'[a]) : wire'[a][n].version \in manifest[a]..version
  <2>0. \A n \in 1..Len(wire[a]) : wire[a][n].version \in manifest[a]..version
    BY DEF PublishInv, Publishing
  <2>1. CASE wire[a] # <<>> /\ wire'[a] = Tail(wire[a])
    <3>1. PICK l \in Nat : l = Len(wire[a]) /\ wire[a] \in Seq(Chunks) BY DEF SessionInv, Shaped
    <3>2. Len(wire'[a]) = l - 1 /\ \A n \in 1..l - 1 : wire'[a][n] = wire[a][n + 1]
      BY <2>1, <3>1
    <3> QED BY SMTT(60), <2>0, <3>1, <3>2
  <2> QED BY <1>5, <2>0, <2>1
<1>8. Publishing(a)'
  BY <1>1, <1>3, <1>4, <1>7 DEF PublishInv, Publishing, Running
<1>9. NothingMixed' BY <1>1 DEF PublishInv, NothingMixed
<1>10. \A b \in Attempts \ {a} : partial'[item[b]] = partial[item[b]] OBVIOUS
<1>11. (\A i \in Items : partial[i] = Absent) => \A i \in Items : partial'[i] = Absent OBVIOUS
<1> QED BY <1>1, <1>2, <1>4, <1>5, <1>6, <1>8, <1>9, <1>10, <1>11, StepPublish

(* After the last item.                                                    *)
LEMMA NextItemPublish ==
    ASSUME Scope, SessionInv, PublishInv, NEW a \in Attempts, NextItem(a)
    PROVE  PublishInv'
<1>1. /\ \A b \in Attempts : b # a => Same(b)
      /\ UNCHANGED <<version, senderVars>>
      /\ policy' = policy /\ thread[a] = "next" /\ ThreadStep(a)
      /\ UNCHANGED <<files, wire>>
  BY OthersIdle, ThreadGoesOn DEF ThreadStep, NextItem
<1>2. manifest' = manifest /\ attempt' = attempt BY <1>1 DEF senderVars
<1>3. \A b \in Attempts, i \in Items : Delivered(b, i) => Delivered(b, i)'
  BY <1>1, <1>2, DeliveryStays
<1>4. NothingMixed' BY <1>1 DEF PublishInv, NothingMixed
<1>5. CASE item[a] > ItemCount /\ End(a, "completed") /\ partial' = [i \in Items |-> Absent]
  <2>1. thread'[a] = "ended" BY <1>5 DEF End, SessionInv, Shaped
  <2>2. \A i \in Items : Delivered(a, i)'
    <3>1. \A i \in Items : i < item[a]
      <4>1. item[a] \in Nat BY Numbers DEF SessionInv, Shaped
      <4> QED BY <1>5, <4>1, Numbers
    <3> QED BY <1>1, <1>3, <3>1 DEF PublishInv, Publishing, Running
  <2>3. \A b \in Attempts \ {a} : thread[b] \in {"choose", "publish", "discard"} =>
           partial'[item[b]] = Absent
    BY <1>5 DEF SessionInv, Turn, AtWork
  <2>4. Publishing(a)'
    BY <1>1, <1>2, <2>1 DEF PublishInv, Publishing, Running
  <2>5. \A i \in Items : partial'[i] = Absent BY <1>5
  <2>6. thread[a] \in AtWork BY <1>1 DEF AtWork
  <2> QED BY <1>1, <1>3, <1>4, <2>1, <2>2, <2>3, <2>4, <2>5, <2>6, StepPublish
<1>6. CASE End(a, "cancelled") /\ UNCHANGED partial BY <1>1, <1>6, EndPublish
<1>7. CASE thread' = [thread EXCEPT ![a] = "read"] /\ UNCHANGED <<partial, reply, item, dest>>
  <2>1. thread'[a] = "read" /\ item'[a] = item[a] /\ reply'[a] # "completed"
    <3>1. reply[a] = "ready" BY <1>1 DEF SessionInv, Turn, AtWork
    <3> QED BY <1>7, <3>1 DEF SessionInv, Shaped
  <2>2. \A i \in Items : i < item[a] => Delivered(a, i)'
    BY <1>1, <1>3 DEF PublishInv, Publishing, Running
  <2>3. Publishing(a)'
    BY <1>1, <1>2, <2>1, <2>2 DEF PublishInv, Publishing, Running
  <2>4. thread[a] \in AtWork /\ thread'[a] \in AtWork BY <1>1, <2>1 DEF AtWork
  <2>5. \A b \in Attempts \ {a} : partial'[item[b]] = partial[item[b]] BY <1>7
  <2>6. (\A i \in Items : partial[i] = Absent) => \A i \in Items : partial'[i] = Absent BY <1>7
  <2> QED BY <1>1, <1>3, <1>4, <2>1, <2>3, <2>4, <2>5, <2>6, StepPublish
<1> QED BY <1>5, <1>6, <1>7 DEF NextItem

(* A chunk is written where another thread may be at the same item.        *)
LEMMA ReadChunkPublish ==
    ASSUME Scope, SessionInv, PublishInv, NEW a \in Attempts, ReadChunk(a)
    PROVE  PublishInv'
<1>1. /\ \A b \in Attempts : b # a => Same(b)
      /\ UNCHANGED <<version, senderVars>>
      /\ policy' = policy /\ thread[a] = "read" /\ ThreadStep(a)
      /\ files' = files /\ wire[a] # <<>> /\ wire' = [wire EXCEPT ![a] = Tail(@)]
      /\ item[a] \in Items /\ offset[a] \in 0..Size /\ offset[a] < Size
  BY OthersIdle, ThreadGoesOn DEF ThreadStep, ReadChunk, SessionInv, Shaped, Turn, AtWork
<1>2. manifest' = manifest /\ attempt' = attempt BY <1>1 DEF senderVars
<1>3. CASE End(a, Failure) /\ UNCHANGED partial
  BY <1>1, <1>3, EndPublish DEF Failure
<1>4. CASE /\ partial' = [partial EXCEPT ![item[a]] =
                            Written(@, offset[a], Head(wire[a]).version)]
           /\ UNCHANGED <<thread, reply, item, dest>>
  <2>1. PICK v : v = Head(wire[a]).version OBVIOUS
  <2>2. PICK l \in Nat : l = Len(wire[a]) /\ l > 0 /\ wire[a] \in Seq(Chunks)
    BY <1>1 DEF SessionInv, Shaped
  <2>3. Head(wire[a]) = wire[a][1] /\ 1 \in 1..l BY <2>2
  <2>4. v \in manifest[a]..version BY <2>1, <2>2, <2>3 DEF PublishInv, Publishing
  <2>5. wire'[a] = Tail(wire[a]) BY <1>1 DEF SessionInv, Shaped
  <2>6. Len(wire'[a]) = l - 1 /\ \A n \in 1..l - 1 : wire'[a][n] = wire[a][n + 1]
    BY <2>2, <2>5
  <2>7. \A n \in 1..Len(wire'[a]) : wire'[a][n].version \in manifest[a]..version
    BY <2>2, <2>6 DEF PublishInv, Publishing
  <2>8. \A b \in Attempts, i \in Items : Delivered(b, i) => Delivered(b, i)'
    BY <1>1, <1>2, DeliveryStays
  <2>9. Publishing(a)'
    <3>1. \A i \in Items : i < item[a] => Delivered(a, i)'
      BY <1>1, <2>8 DEF PublishInv, Publishing, Running
    <3> QED BY <1>1, <1>2, <1>4, <2>7, <3>1 DEF PublishInv, Publishing, Running
  <2>10. ASSUME NEW b \in Attempts \ {a}, thread[b] \in {"choose", "publish", "discard"}
         PROVE  partial'[item[b]] = partial[item[b]]
    <3>1. CASE item[b] # item[a] BY <1>4, <3>1 DEF SessionInv, Shaped
    <3>2. CASE item[b] = item[a]
      <4>1. manifest[a] = version /\ manifest[b] = version /\ version \in Nat
        <5>1. version \in Nat BY Numbers DEF SessionInv, Shaped
        <5>2. b \in Attempts /\ a # b /\ Running(a) /\ Running(b) BY <1>1, <2>10 DEF Running
        <5> QED BY <5>1, <5>2 DEF PublishInv, Resting
      <4>2. v = version BY <2>4, <4>1
      <4>3. partial[item[b]] = Whole(version)
        <5>1. partial[item[b]] = Whole(manifest[b]) \/ Past(b)
          BY <2>10 DEF PublishInv, Publishing
        <5>2. ~Past(b)
          <6>1. ~(item[a] > item[b]) BY <1>1, <3>2, Numbers
          <6> QED BY <1>1, <2>10, <6>1 DEF Past
        <5> QED BY <4>1, <5>1, <5>2
      <4>4. partial'[item[b]] = Written(Whole(version), offset[a], version)
        BY <1>1, <1>4, <2>1, <3>2, <4>2, <4>3 DEF SessionInv, Shaped
      <4> QED BY <1>1, <4>3, <4>4, WriteOfTheSame
    <3> QED BY <3>1, <3>2
  <2>11. NothingMixed' BY <1>1 DEF PublishInv, NothingMixed
  <2>12. /\ thread[a] \in AtWork /\ thread'[a] \in AtWork /\ item'[a] = item[a]
         /\ reply'[a] # "completed"
    BY <1>1, <1>4 DEF AtWork, SessionInv, Turn
  <2> QED BY <1>1, <2>8, <2>9, <2>10, <2>11, <2>12, StepPublish
<1> QED BY <1>3, <1>4 DEF ReadChunk

(* The stream ends, the digest is compared, a name is chosen.              *)
LEMMA ChecksPublish ==
    ASSUME Scope, SessionInv, PublishInv, NEW a \in Attempts,
           ReadFails(a) \/ Verify(a) \/ ChooseDestination(a)
    PROVE  PublishInv'
<1>1. /\ \A b \in Attempts : b # a => Same(b)
      /\ UNCHANGED <<version, senderVars>>
      /\ policy' = policy /\ thread[a] \in {"read", "choose"} /\ ThreadStep(a)
      /\ UNCHANGED <<files, wire, partial>>
      /\ item[a] \in Items
  BY OthersIdle, ThreadGoesOn
  DEF ThreadStep, ReadFails, Verify, ChooseDestination, SessionInv, Turn, AtWork
<1>2. manifest' = manifest /\ attempt' = attempt BY <1>1 DEF senderVars
<1>3. CASE End(a, Failure) BY <1>1, <1>3, EndPublish DEF Failure
<1>4. ASSUME NEW s \in {"choose", "publish", "discard"}, thread' = [thread EXCEPT ![a] = s],
             UNCHANGED <<reply, item>>,
             s = "choose" => partial[item[a]] = Whole(manifest[a]),
             s # "choose" => thread[a] = "choose",
             s = "discard" => policy[a] = "skip" /\ Taken(item[a], 0)
      PROVE  PublishInv'
  <2>1. thread'[a] = s /\ item'[a] = item[a] /\ reply'[a] # "completed"
    <3>1. reply[a] = "ready" BY <1>1 DEF SessionInv, Turn, AtWork
    <3> QED BY <1>4, <3>1 DEF SessionInv, Shaped
  <2>2. \A b \in Attempts, i \in Items : Delivered(b, i) => Delivered(b, i)'
    BY <1>1, <1>2, DeliveryStays
  <2>3. \A i \in Items : i < item[a] => Delivered(a, i)'
    BY <1>1, <2>2 DEF PublishInv, Publishing, Running
  <2>4. partial[item[a]] = Whole(manifest[a]) \/ (partial[item[a]] = Absent /\ Past(a)')
    <3>1. \A b \in Attempts : b # a => thread'[b] = thread[b] /\ item'[b] = item[b]
      BY <1>1 DEF Same
    <3>2. Past(a) => Past(a)' BY <2>1, <3>1 DEF Past, Running
    <3>3. s # "choose" =>
             partial[item[a]] = Whole(manifest[a]) \/ (partial[item[a]] = Absent /\ Past(a))
      BY <1>4 DEF PublishInv, Publishing
    <3> QED BY <1>4, <3>2, <3>3
  <2>5. s = "discard" => Delivered(a, item[a])'
    BY <1>1, <1>4, <2>1 DEF Delivered, Taken
  <2>6. Publishing(a)'
    BY <1>1, <1>2, <2>1, <2>3, <2>4, <2>5 DEF PublishInv, Publishing, Running
  <2>7. thread[a] \in AtWork /\ thread'[a] \in AtWork BY <1>1, <1>4, <2>1 DEF AtWork
  <2>8. NothingMixed' BY <1>1 DEF PublishInv, NothingMixed
  <2> QED BY <1>1, <2>1, <2>2, <2>6, <2>7, <2>8, StepPublish
<1>5. CASE Verify(a) /\ ~End(a, Failure) BY <1>4, <1>5 DEF Verify, Verified
<1>6. CASE ChooseDestination(a) BY <1>4, <1>6 DEF ChooseDestination
<1> QED BY <1>3, <1>5, <1>6 DEF ReadFails

(* The file goes to the receive directory: there is nothing left of it for *)
(* the other thread, which has got there earlier or finds it gone.         *)
LEMMA PublishPublish ==
    ASSUME Scope, SessionInv, NamesInv, PublishInv, NEW a \in Attempts, Publish(a)
    PROVE  PublishInv'
<1>1. /\ \A b \in Attempts : b # a => Same(b)
      /\ UNCHANGED <<version, senderVars>>
      /\ policy' = policy /\ thread[a] = "publish" /\ ThreadStep(a) /\ UNCHANGED wire
      /\ item[a] \in Items
  BY OthersIdle, ThreadGoesOn DEF ThreadStep, Publish, SessionInv, Turn, AtWork
<1>2. manifest' = manifest /\ attempt' = attempt BY <1>1 DEF senderVars
<1>3. CASE partial[item[a]] = Absent BY <1>1, <1>3, EndPublish DEF Publish, Failure
<1>4. CASE partial[item[a]] # Absent
  <2>0. PICK h \in Items : h = item[a] BY <1>1
  <2>1. partial[h] = Whole(manifest[a]) BY <1>1, <1>4, <2>0 DEF PublishInv, Publishing
  <2>2. /\ dest[a] \in Names /\ files'[h][dest[a]] = Whole(manifest[a])
        /\ \A i \in Items, n \in Names : i # h \/ n # dest[a] => files'[i][n] = files[i][n]
    BY <1>4, <2>0, <2>1, PublishWrites DEF NamesInv
  <2>3. /\ thread'[a] = "next" /\ item'[a] = h + 1 /\ reply'[a] # "completed"
        /\ partial' = [partial EXCEPT ![h] = Absent]
    <3>1. reply[a] = "ready" BY <1>1 DEF SessionInv, Turn, AtWork
    <3> QED BY <1>4, <2>0, <3>1 DEF Publish, SessionInv, Shaped
  <2>4. h \in Nat /\ h + 1 > h BY <2>0, Numbers
  <2>5. partial'[h] = Absent /\ \A i \in Items : i # h => partial'[i] = partial[i]
    BY <2>3 DEF SessionInv, Shaped
  <2>6. manifest[a] \in 1..version
    <3>1. a \in Nat /\ attempt \in Nat BY Numbers DEF SessionInv, Shaped
    <3>2. ~(a > attempt) BY <1>1 DEF SessionInv, Turn
    <3> QED BY <3>1, <3>2 DEF PublishInv, Publishing
  <2>7. ASSUME NEW b \in Attempts, NEW i \in Items, Delivered(b, i),
               manifest[b] = manifest[a]
        PROVE  Delivered(b, i)'
    <3>1. CASE policy[b] = "skip" /\ Taken(i, 0)
      <4>1. files'[i][0] # Absent
        <5>1. 0 \in Names BY Numbers DEF Names
        <5> QED BY <1>4, <2>0, <2>1, <2>2, <3>1, <5>1 DEF Taken
      <4> QED BY <1>1, <3>1, <4>1 DEF Delivered, Taken
    <3>2. CASE \E n \in Names : files[i][n] = Whole(manifest[b])
      <4>1. PICK n \in Names : files[i][n] = Whole(manifest[b]) BY <3>2
      <4>2. files'[i][n] = Whole(manifest[b]) BY <2>2, <2>7, <4>1
      <4> QED BY <1>2, <4>2 DEF Delivered
    <3> QED BY <2>7, <3>1, <3>2 DEF Delivered
  <2>8. ASSUME NEW b \in Attempts, NEW i \in Items, Delivered(b, i),
               b = a \/ Running(b) \/ (Told /\ b = attempt)
        PROVE  Delivered(b, i)'
    <3>1. ASSUME Told, b = attempt PROVE manifest[b] = manifest[a]
      BY <1>1, <1>4, <2>0, <3>1 DEF PublishInv, Settled
    <3>2. ASSUME Running(b) PROVE manifest[b] = manifest[a]
      <4>1. Running(a) BY <1>1 DEF Running
      <4> QED BY <3>2, <4>1 DEF PublishInv, Resting
    <3> QED BY <2>7, <2>8, <3>1, <3>2
  <2>9. Publishing(a)'
    <3>1. Delivered(a, h)' BY <1>2, <2>2 DEF Delivered
    <3>2. ASSUME NEW i \in Items, i < h + 1 PROVE Delivered(a, i)'
      <4>1. i = h \/ i < h BY <2>4, <3>2, Numbers
      <4>2. Running(a) BY <1>1 DEF Running
      <4>3. i < h => Delivered(a, i) BY <2>0, <4>2 DEF PublishInv, Publishing
      <4> QED BY <2>8, <3>1, <4>1, <4>3
    <3>3. \A n \in 1..Len(wire[a]) : wire[a][n].version \in manifest[a]..version
      BY DEF PublishInv, Publishing
    <3> QED BY <1>1, <1>2, <2>3, <2>6, <3>2, <3>3 DEF Publishing, Running
  <2>10. ASSUME NEW b \in Attempts \ {a}, thread[b] \in {"choose", "publish", "discard"}
         PROVE  \/ partial'[item[b]] = partial[item[b]]
                \/ partial'[item[b]] = Absent /\ item'[a] > item[b]
    <3>1. item[b] \in Items BY <2>10 DEF SessionInv, Turn, AtWork
    <3> QED BY <2>3, <2>4, <2>5, <3>1
  <2>11. NothingMixed'
    <3>1. ASSUME NEW i \in Items, NEW n \in Names
          PROVE  files'[i][n] \in {Absent, <<Someone>>, <<Newcomer>>}
                                     \cup {Whole(v) : v \in 1..version}
      BY <2>2, <2>6 DEF PublishInv, NothingMixed
    <3> QED BY <1>1, <3>1 DEF NothingMixed
  <2>12. thread[a] \in AtWork /\ thread'[a] \in AtWork /\ item'[a] \in {item[a], item[a] + 1}
    BY <1>1, <2>0, <2>3 DEF AtWork
  <2>13. (\A i \in Items : partial[i] = Absent) => \A i \in Items : partial'[i] = Absent
    BY <1>4, <2>0
  <2> QED BY <1>1, <2>3, <2>8, <2>9, <2>10, <2>11, <2>12, <2>13, StepPublish
<1> QED BY <1>3, <1>4

(* The partial file of an item that is skipped goes.                       *)
LEMMA DiscardPublish ==
    ASSUME Scope, SessionInv, PublishInv, NEW a \in Attempts, Discard(a)
    PROVE  PublishInv'
<1>1. /\ \A b \in Attempts : b # a => Same(b)
      /\ UNCHANGED <<version, senderVars>>
      /\ policy' = policy /\ thread[a] = "discard" /\ ThreadStep(a) /\ UNCHANGED <<files, wire>>
      /\ item[a] \in Items
  BY OthersIdle, ThreadGoesOn DEF ThreadStep, Discard, SessionInv, Turn, AtWork
<1>2. manifest' = manifest /\ attempt' = attempt BY <1>1 DEF senderVars
<1>3. CASE partial[item[a]] = Absent BY <1>1, <1>3, EndPublish DEF Discard, Failure
<1>4. CASE partial[item[a]] # Absent
  <2>0. PICK h \in Items : h = item[a] BY <1>1
  <2>1. /\ thread'[a] = "next" /\ item'[a] = h + 1 /\ reply'[a] # "completed"
        /\ partial' = [partial EXCEPT ![h] = Absent]
    <3>1. reply[a] = "ready" BY <1>1 DEF SessionInv, Turn, AtWork
    <3> QED BY <1>4, <2>0, <3>1 DEF Discard, SessionInv, Shaped
  <2>2. h \in Nat /\ h + 1 > h BY <2>0, Numbers
  <2>3. partial'[h] = Absent /\ \A i \in Items : i # h => partial'[i] = partial[i]
    BY <2>1 DEF SessionInv, Shaped
  <2>4. \A b \in Attempts, i \in Items : Delivered(b, i) => Delivered(b, i)'
    BY <1>1, <1>2, DeliveryStays
  <2>5. Publishing(a)'
    <3>1. ASSUME NEW i \in Items, i < h + 1 PROVE Delivered(a, i)'
      <4>1. i = h \/ i < h BY <2>2, <3>1, Numbers
      <4>2. Running(a) BY <1>1 DEF Running
      <4>3. Delivered(a, i) BY <1>1, <2>0, <4>1, <4>2 DEF PublishInv, Publishing
      <4> QED BY <2>4, <4>3
    <3> QED BY <1>1, <1>2, <2>1, <3>1 DEF PublishInv, Publishing, Running
  <2>6. ASSUME NEW b \in Attempts \ {a}, thread[b] \in {"choose", "publish", "discard"}
        PROVE  \/ partial'[item[b]] = partial[item[b]]
               \/ partial'[item[b]] = Absent /\ item'[a] > item[b]
    <3>1. item[b] \in Items BY <2>6 DEF SessionInv, Turn, AtWork
    <3> QED BY <2>1, <2>2, <2>3, <3>1
  <2>7. NothingMixed' BY <1>1 DEF PublishInv, NothingMixed
  <2>8. thread[a] \in AtWork /\ thread'[a] \in AtWork /\ item'[a] \in {item[a], item[a] + 1}
    BY <1>1, <2>0, <2>1 DEF AtWork
  <2>9. (\A i \in Items : partial[i] = Absent) => \A i \in Items : partial'[i] = Absent
    BY <1>4, <2>0
  <2> QED BY <1>1, <2>1, <2>4, <2>5, <2>6, <2>7, <2>8, <2>9, StepPublish
<1> QED BY <1>3, <1>4

(* PublishInv is inductive, given the other two.                           *)
LEMMA NextPublish ==
    ASSUME Scope, Scope', SessionInv, NamesInv, PublishInv, [Next]_vars
    PROVE  PublishInv'
<1>1. CASE UNCHANGED vars
  BY <1>1 DEF vars, senderVars, threadVars, PublishInv, Resting, Publishing, Settled,
              NothingMixed, Running, Past, Delivered, Taken, Told
<1>2. CASE SenderStep \/ CancelReceive
  BY <1>2, ConnectPublish, SenderPublish DEF SenderStep
<1>3. CASE EditSource BY <1>3, EditPublish
<1>4. CASE Restart BY <1>4, RestartPublish
<1>5. CASE \E i \in Items : FileAppears(i) BY <1>5, AppearPublish
<1>6. CASE \E a \in Attempts : OfferStep(a) BY <1>6, OfferPublish
<1>7. CASE \E a \in Attempts : ThreadStep(a)
  BY <1>7, NextItemPublish, ReadChunkPublish, ChecksPublish, PublishPublish, DiscardPublish
  DEF ThreadStep
<1> QED BY <1>1, <1>2, <1>3, <1>4, <1>5, <1>6, <1>7 DEF Next

(* The three invariants together, as long as the scope is kept.            *)
THEOREM PublishKept == Spec /\ []Scope => [](SessionInv /\ NamesInv /\ PublishInv)
<1>1. Init => SessionInv /\ NamesInv /\ PublishInv BY InitSession, InitNames, InitPublish
<1>2. ASSUME SessionInv, NamesInv, PublishInv, Scope, Scope', [Next]_vars
      PROVE  SessionInv' /\ NamesInv' /\ PublishInv'
  BY <1>2, NextSession, NextNames, NextPublish
<1> QED BY <1>1, <1>2, PTL DEF Spec

(* CompletedMeansDelivered is what PublishInv says of an attempt that has  *)
(* been told of completion.                                                *)
LEMMA CompletedIsTold == SessionInv /\ PublishInv => CompletedMeansDelivered
<1> SUFFICES ASSUME SessionInv, PublishInv, sender = "completed"
             PROVE  \A i \in Items :
                       \/ \E n \in Names : files[i][n] = Whole(manifest[attempt])
                       \/ policy[attempt] = "skip" /\ Taken(i, 0)
  BY DEF CompletedMeansDelivered
<1>1. attempt \in Attempts BY DEF SessionInv, Shaped
<1>2. attempt # 0 BY <1>1, Numbers
<1>3. Told BY <1>1, <1>2 DEF SessionInv, Turn, Told
<1> QED BY <1>3 DEF PublishInv, Settled, Delivered

(* NothingMixed and CompletedMeansDelivered of any number of attempts, on  *)
(* a source that may be edited at any time, as long as their receive       *)
(* threads follow each other.                                              *)
THEOREM WholeInTurn == Spec /\ []Alone => [](NothingMixed /\ CompletedMeansDelivered)
<1>1. Alone => Scope BY DEF Scope
<1>2. SessionInv /\ PublishInv => NothingMixed /\ CompletedMeansDelivered
  BY CompletedIsTold DEF PublishInv
<1> QED BY <1>1, <1>2, PublishKept, PTL

(* NothingMixed: although two attempts share their partial files and the   *)
(* digest is taken before the rename, no mixture is left in the receive    *)
(* directory.                                                              *)
THEOREM FilesAreWhole ==
    ASSUME MaxAttempts <= 2, EditsAnyTime = FALSE PROVE Spec => []NothingMixed
<1>1. Scope BY DEF Scope, Pair
<1>2. PublishInv => NothingMixed BY DEF PublishInv
<1> QED BY <1>1, <1>2, PublishKept, PTL

(* CompletedMeansDelivered: what the sender reports as completed is in the *)
(* receive directory as it was hashed for the last attempt.                *)
THEOREM CompletedIsDelivered ==
    ASSUME MaxAttempts <= 2, EditsAnyTime = FALSE PROVE Spec => []CompletedMeansDelivered
<1>1. Scope BY DEF Scope, Pair
<1> QED BY <1>1, CompletedIsTold, PublishKept, PTL
=============================================================================
