---------------------------- MODULE DirectTransfer ----------------------------
(***************************************************************************)
(* One recipient's session of the version 1 protocol (transfer.rs): the    *)
(* sender's attempts (send_to_peer under the retry loop), the receiver's   *)
(* table of pending offers, a receive thread for every accepted attempt,   *)
(* and the receiver's disk: partial files, shared by all attempts with the *)
(* same transfer id, and the receive directory.                            *)
(* A chunk is one unit of content and is known by the version of the       *)
(* source file it was read from; all versions have the same size.          *)
(* Timeouts are not timed: an operation that can time out may.             *)
(***************************************************************************)
EXTENDS Naturals, Sequences

CONSTANTS ItemCount,      (* files in the manifest                         *)
          Size,           (* chunks of each file                           *)
          MaxAttempts,    (* options.max_retries + 1                       *)
          MaxVersions,    (* bound: versions the source files go through   *)
          MaxRestarts,    (* bound: restarts of the receiving application  *)
          Buffer,         (* chunks the network holds for a slow receiver  *)
          Policies,       (* conflict policies the user may choose         *)
          FilesAppear,    (* others may create files there during the job  *)
          EditsAnyTime    (* the source may be edited between attempts     *)
                          (* whose receive threads run at the same time    *)

ASSUME DirectTransferAssumption ==
    /\ {ItemCount, MaxAttempts, MaxVersions, Buffer} \subseteq Nat \ {0}
    /\ {Size, MaxRestarts} \subseteq Nat
    /\ Policies \subseteq {"rename", "overwrite", "skip"}
    /\ {FilesAppear, EditsAnyTime} \subseteq BOOLEAN

Items == 1..ItemCount
Attempts == 1..MaxAttempts
Names == 0..MaxAttempts + 1       (* 0: the item's own name; k: "name (k)" *)
Someone == 0                      (* version of a file that was there before *)
Newcomer == MaxVersions + 1       (* and of one that appears during the job  *)
Absent == <<>>

VARIABLES version,        (* of the source files now                       *)
          sender,         (* where the sender's thread is                  *)
          attempt,        (* its current attempt, 0 before the first       *)
          manifest,       (* version hashed into each attempt's manifest   *)
          cursor,         (* <<item, offset>> the sender sends next        *)
          wire,           (* chunks under way, for each attempt            *)
          senderOpen,     (* the sender's end of each attempt's stream     *)
          reply,          (* what the receiver answered each attempt       *)
          promised,       (* offsets in that answer, item by item          *)
          offer,          (* attempt whose offer is pending, 0 if none     *)
          thread,         (* receiver's thread for each attempt            *)
          item,           (* item each receive thread is at                *)
          offset,         (* and where in it                               *)
          policy,         (* conflict policy it was accepted with          *)
          dest,           (* name destination_path has chosen              *)
          partial,        (* .zapdrop-partial/<id>/<item>.part             *)
          files,          (* the receive directory                         *)
          cancelled,      (* receiver's cancel flag for the transfer id    *)
          restarts

senderVars == <<sender, attempt, manifest, cursor, senderOpen>>
threadVars == <<offer, thread, item, offset, policy, dest, reply, promised>>
vars == <<version, senderVars, wire, threadVars, partial, files, cancelled, restarts>>

Whole(v) == [i \in 1..Size |-> v]

Init ==
    /\ version = 1 /\ sender = "connect" /\ attempt = 0
    /\ manifest = [a \in Attempts |-> 0]
    /\ cursor = <<1, 0>>
    /\ wire = [a \in Attempts |-> <<>>]
    /\ senderOpen = [a \in Attempts |-> FALSE]
    /\ reply = [a \in Attempts |-> "none"]
    /\ promised = [a \in Attempts |-> [i \in Items |-> 0]]
    /\ offer = 0
    /\ thread = [a \in Attempts |-> "none"]
    /\ item = [a \in Attempts |-> 1]
    /\ offset = [a \in Attempts |-> 0]
    /\ policy = [a \in Attempts |-> "none"]
    /\ dest = [a \in Attempts |-> 0]
    /\ partial = [i \in Items |-> Absent]
    /\ \E taken \in SUBSET Items :
          files = [i \in Items |-> [n \in Names |->
                      IF i \in taken /\ n = 0 THEN <<Someone>> ELSE Absent]]
    /\ cancelled = FALSE
    /\ restarts = 0

Running(a) == thread[a] \in {"next", "read", "choose", "publish", "discard"}

-----------------------------------------------------------------------------
(* The sender.                                                             *)

(* build_manifest, collect_files: every file is hashed as it is now.       *)
BuildManifest(a) == manifest' = [manifest EXCEPT ![a] = version]

(* send_to_peer: connect, hello, the manifest on the wire.                 *)
Connect ==
    /\ sender = "connect"
    /\ attempt' = attempt + 1
    /\ BuildManifest(attempt')
    /\ senderOpen' = [senderOpen EXCEPT ![attempt'] = TRUE]
    /\ thread' = [thread EXCEPT ![attempt'] = "incoming"]
    /\ sender' = "offered"
    /\ UNCHANGED <<version, cursor, wire, reply, promised, offer, item, offset,
                   policy, dest, partial, files, cancelled, restarts>>

(* Mutated form: the end of an item is not noticed.                        *)
SkippingNever(i, o) == <<i, o>>

(* The cursor moved over the items of which nothing is left to send.       *)
Skipping(i, o) ==
    LET open == {j \in i..ItemCount : (IF j = i THEN o ELSE promised[attempt][j]) < Size}
    IN  IF open = {} THEN <<ItemCount + 1, 0>>
        ELSE LET j == CHOOSE j \in open : \A k \in open : j <= k
             IN  <<j, IF j = i THEN o ELSE promised[attempt][j]>>

StartStreaming ==
    /\ sender = "offered" /\ reply[attempt] = "ready"
    /\ cursor' = Skipping(1, promised[attempt][1])
    /\ sender' = "streaming"
    /\ UNCHANGED <<version, attempt, manifest, senderOpen, wire, threadVars, partial,
                   files, cancelled, restarts>>

(* One pass of the loop over current < item.size: the file is read as it   *)
(* is now, which need not be what the manifest was made of.                *)
SendChunk ==
    /\ sender = "streaming" /\ cursor[1] <= ItemCount
    /\ Len(wire[attempt]) < Buffer
    /\ wire' = [wire EXCEPT ![attempt] =
                   Append(@, [item |-> cursor[1], offset |-> cursor[2],
                              version |-> version])]
    /\ cursor' = Skipping(cursor[1], cursor[2] + 1)
    /\ UNCHANGED <<version, sender, attempt, manifest, senderOpen, threadVars, partial,
                   files, cancelled, restarts>>

Hangup(outcome) ==
    /\ sender' = outcome
    /\ senderOpen' = [senderOpen EXCEPT ![attempt] = FALSE]

(* The final answer, or a refusal: an error that is not retried.           *)
ReadAnswer ==
    /\ \/ sender = "offered" /\ reply[attempt] \in {"rejected", "failed"}
          /\ Hangup("failed")
       \/ sender = "streaming" /\ cursor[1] > ItemCount
          /\ reply[attempt] \in {"completed", "failed", "cancelled"}
          /\ Hangup(IF reply[attempt] = "completed" THEN "completed" ELSE "failed")
    /\ UNCHANGED <<version, attempt, manifest, cursor, wire, threadVars, partial, files,
                   cancelled, restarts>>

(* Any wait of the sender may time out, any connection may be reset; what  *)
(* is under way then still arrives, or is lost.  The error is retryable.   *)
Break ==
    /\ sender \in {"offered", "streaming"}
    /\ Hangup(IF attempt < MaxAttempts THEN "connect" ELSE "failed")
    /\ \/ UNCHANGED wire
       \/ wire' = [wire EXCEPT ![attempt] = <<>>]
    /\ UNCHANGED <<version, attempt, manifest, cursor, threadVars, partial, files,
                   cancelled, restarts>>

EditSource ==
    /\ version < MaxVersions
    /\ EditsAnyTime \/ \A a, b \in Attempts : Running(a) /\ Running(b) => a = b
    /\ version' = version + 1
    /\ UNCHANGED <<senderVars, wire, threadVars, partial, files, cancelled, restarts>>

-----------------------------------------------------------------------------
(* The receiver's offers.                                                  *)

(* handle_incoming and insert: a second offer with the id of a pending one *)
(* is dropped without an answer, and the stream is closed.                 *)
InsertOffer(a) ==
    /\ thread[a] = "incoming"
    /\ \/ offer = 0 /\ offer' = a /\ thread' = [thread EXCEPT ![a] = "pending"]
       \/ offer # 0 /\ UNCHANGED offer /\ thread' = [thread EXCEPT ![a] = "ended"]
    /\ UNCHANGED <<version, senderVars, wire, item, offset, policy, dest, reply, promised,
                   partial, files, cancelled, restarts>>

(* handle_incoming waits 12 seconds for a manifest that has to be hashed.  *)
ManifestLate(a) ==
    /\ thread[a] = "incoming"
    /\ thread' = [thread EXCEPT ![a] = "ended"]
    /\ reply' = [reply EXCEPT ![a] = "failed"]
    /\ UNCHANGED <<version, senderVars, wire, item, offset, policy, dest, promised, offer,
                   partial, files, cancelled, restarts>>

Shortest(m, n) == IF m < n THEN m ELSE n

(* partial_offset                                                          *)
PartialOffset(i) == Shortest(Len(partial[i]), Size)

(* accept, by the user or, when nothing has to be asked, at once: also     *)
(* while the receive thread of an earlier attempt is still running.        *)
Accept(a) ==
    /\ offer = a
    /\ EditsAnyTime \/ \A b \in Attempts : Running(b) => {manifest[a], manifest[b]} = {version}
    /\ offer' = 0
    /\ \E p \in Policies : policy' = [policy EXCEPT ![a] = p]
    /\ promised' = [promised EXCEPT ![a] = [i \in Items |-> PartialOffset(i)]]
    /\ reply' = [reply EXCEPT ![a] = "ready"]
    /\ thread' = [thread EXCEPT ![a] = "next"]
    /\ UNCHANGED <<version, senderVars, wire, item, offset, dest, partial, files,
                   cancelled, restarts>>

(* accept: the offer is gone from the table, writing "ready" fails.        *)
AcceptFails(a) ==
    /\ offer = a /\ ~senderOpen[a]
    /\ offer' = 0
    /\ thread' = [thread EXCEPT ![a] = "ended"]
    /\ UNCHANGED <<version, senderVars, wire, item, offset, policy, dest, reply, promised,
                   partial, files, cancelled, restarts>>

Reject(a) ==
    /\ offer = a
    /\ offer' = 0
    /\ reply' = [reply EXCEPT ![a] = "rejected"]
    /\ thread' = [thread EXCEPT ![a] = "ended"]
    /\ UNCHANGED <<version, senderVars, wire, item, offset, policy, dest, promised, partial,
                   files, cancelled, restarts>>

(* purge_expired, on the next list or insert after two minutes.            *)
Expire(a) ==
    /\ offer = a
    /\ offer' = 0
    /\ thread' = [thread EXCEPT ![a] = "ended"]
    /\ UNCHANGED <<version, senderVars, wire, item, offset, policy, dest, reply, promised,
                   partial, files, cancelled, restarts>>

-----------------------------------------------------------------------------
(* A receive thread: receive_items and finish_received_transfer.           *)

(* The thread's own variables go with it.                                  *)
End(a, result) ==
    /\ thread' = [thread EXCEPT ![a] = "ended"]
    /\ reply' = [reply EXCEPT ![a] = result]
    /\ item' = [item EXCEPT ![a] = 1]
    /\ offset' = [offset EXCEPT ![a] = 0]
    /\ dest' = [dest EXCEPT ![a] = 0]

(* The head of the loop over the items; after the last one the partial     *)
(* directory is removed with whatever is in it.                            *)
NextItem(a) ==
    /\ thread[a] = "next"
    /\ \/ item[a] > ItemCount
          /\ End(a, "completed")
          /\ partial' = [i \in Items |-> Absent]
       \/ item[a] <= ItemCount /\ cancelled
          /\ End(a, "cancelled")
          /\ UNCHANGED partial
       \/ item[a] <= ItemCount /\ ~cancelled
          /\ offset' = [offset EXCEPT ![a] = PartialOffset(item[a])]
          /\ thread' = [thread EXCEPT ![a] = "read"]
          /\ UNCHANGED <<partial, reply, item, dest>>
    /\ UNCHANGED <<version, senderVars, wire, policy, promised, offer, files, cancelled,
                   restarts>>

(* The file after a write at `at` (from 0), holes included.                *)
Written(file, at, v) ==
    [k \in 1..(IF at + 1 > Len(file) THEN at + 1 ELSE Len(file)) |->
        IF k = at + 1 THEN v ELSE IF k <= Len(file) THEN file[k] ELSE Someone]

Expected(a, chunk) == chunk.item = item[a] /\ chunk.offset = offset[a]

(* status "failed", unless the flag of the transfer is up.                 *)
Failure == IF cancelled THEN "cancelled" ELSE "failed"

ReadChunk(a) ==
    /\ thread[a] = "read" /\ offset[a] < Size /\ wire[a] # <<>>
    /\ wire' = [wire EXCEPT ![a] = Tail(@)]
    /\ \/ Expected(a, Head(wire[a]))
          /\ partial' = [partial EXCEPT ![item[a]] =
                            Written(@, offset[a], Head(wire[a]).version)]
          /\ offset' = [offset EXCEPT ![a] = @ + 1]
          /\ UNCHANGED <<thread, reply, item, dest>>
       \/ ~Expected(a, Head(wire[a]))
          /\ End(a, Failure) /\ UNCHANGED partial
    /\ UNCHANGED <<version, senderVars, policy, promised, offer, files, cancelled,
                   restarts>>

(* The stream has ended, or nothing has come for 12 seconds.               *)
ReadFails(a) ==
    /\ thread[a] = "read" /\ offset[a] < Size /\ wire[a] = <<>>
    /\ End(a, Failure)
    /\ UNCHANGED <<version, senderVars, wire, policy, promised, offer, partial, files,
                   cancelled, restarts>>

(* Mutated form: only the length of the partial file is looked at.         *)
VerifiedByLength(a) == Len(partial[item[a]]) = Size

(* digest_file(&partial)? == item.sha256; a missing file is an error too.  *)
Verified(a) == partial[item[a]] # Absent /\ partial[item[a]] = Whole(manifest[a])

Verify(a) ==
    /\ thread[a] = "read" /\ offset[a] >= Size
    /\ \/ Verified(a) /\ thread' = [thread EXCEPT ![a] = "choose"]
          /\ UNCHANGED <<reply, item, offset, dest>>
       \/ ~Verified(a) /\ End(a, Failure)
    /\ UNCHANGED <<version, senderVars, wire, policy, promised, offer, partial, files,
                   cancelled, restarts>>

Taken(i, n) == files[i][n] # Absent

(* Mutated form: the numbered names are not tried, only counted.           *)
FreeNameFirst(i) == 0

(* The first of name, name (1), name (2)... that does not exist.           *)
FreeName(i) == CHOOSE n \in Names : ~Taken(i, n) /\ \A m \in Names : m < n => Taken(i, m)

(* destination_path                                                        *)
ChooseDestination(a) ==
    /\ thread[a] = "choose"
    /\ LET i == item[a]
       IN  \/ Taken(i, 0) /\ policy[a] = "skip"
              /\ thread' = [thread EXCEPT ![a] = "discard"] /\ UNCHANGED dest
           \/ ~(Taken(i, 0) /\ policy[a] = "skip")
              /\ thread' = [thread EXCEPT ![a] = "publish"]
              /\ dest' = [dest EXCEPT ![a] =
                             IF policy[a] = "rename" THEN FreeName(i) ELSE 0]
    /\ UNCHANGED <<version, senderVars, wire, item, offset, policy, reply, promised, offer,
                   partial, files, cancelled, restarts>>

(* fs::rename(&partial, destination), which replaces what is there.        *)
Publish(a) ==
    /\ thread[a] = "publish"
    /\ \/ partial[item[a]] = Absent /\ End(a, Failure)
          /\ UNCHANGED <<files, partial>>
       \/ partial[item[a]] # Absent
          /\ files' = [files EXCEPT ![item[a]][dest[a]] = partial[item[a]]]
          /\ partial' = [partial EXCEPT ![item[a]] = Absent]
          /\ item' = [item EXCEPT ![a] = @ + 1]
          /\ thread' = [thread EXCEPT ![a] = "next"]
          /\ dest' = [dest EXCEPT ![a] = 0] /\ UNCHANGED <<reply, offset>>
    /\ UNCHANGED <<version, senderVars, wire, policy, promised, offer, cancelled,
                   restarts>>

(* fs::remove_file(&partial): the item is skipped.                         *)
Discard(a) ==
    /\ thread[a] = "discard"
    /\ \/ partial[item[a]] = Absent /\ End(a, Failure) /\ UNCHANGED partial
       \/ partial[item[a]] # Absent
          /\ partial' = [partial EXCEPT ![item[a]] = Absent]
          /\ item' = [item EXCEPT ![a] = @ + 1]
          /\ thread' = [thread EXCEPT ![a] = "next"]
          /\ UNCHANGED <<reply, offset, dest>>
    /\ UNCHANGED <<version, senderVars, wire, policy, promised, offer, files, cancelled,
                   restarts>>

-----------------------------------------------------------------------------
(* The receiving user and machine.                                         *)

CancelReceive ==
    /\ ~cancelled /\ attempt > 0
    /\ cancelled' = TRUE
    /\ UNCHANGED <<version, senderVars, wire, threadVars, partial, files, restarts>>

(* The receiver's process ends and is started again: only the disk stays.  *)
Restart ==
    /\ restarts < MaxRestarts /\ attempt > 0
    /\ restarts' = restarts + 1
    /\ offer' = 0
    /\ cancelled' = FALSE
    /\ wire' = [a \in Attempts |-> <<>>]
    /\ thread' = [a \in Attempts |-> IF thread[a] = "none" THEN "none" ELSE "ended"]
    /\ item' = [a \in Attempts |-> 1]
    /\ offset' = [a \in Attempts |-> 0]
    /\ dest' = [a \in Attempts |-> 0]
    /\ UNCHANGED <<version, senderVars, policy, reply, promised, partial, files>>

(* Another transfer, or the user, puts a file under an item's name.  Only  *)
(* while a thread is about to look for it or to rename is it told apart    *)
(* from one that appears earlier: nothing else reads the directory.        *)
FileAppears(i) ==
    /\ FilesAppear /\ files[i][0] = Absent
    /\ \E a \in Attempts : item[a] = i /\ thread[a] \in {"choose", "publish"}
    /\ files' = [files EXCEPT ![i][0] = <<Newcomer>>]
    /\ UNCHANGED <<version, senderVars, wire, threadVars, partial, cancelled, restarts>>

SenderStep == Connect \/ StartStreaming \/ SendChunk \/ ReadAnswer \/ Break

OfferStep(a) ==
    \/ InsertOffer(a) \/ ManifestLate(a) \/ Accept(a) \/ AcceptFails(a)
    \/ Reject(a) \/ Expire(a)

ThreadStep(a) ==
    \/ NextItem(a) \/ ReadChunk(a) \/ ReadFails(a) \/ Verify(a)
    \/ ChooseDestination(a) \/ Publish(a) \/ Discard(a)

Over ==
    /\ sender \in {"completed", "failed"}
    /\ \A a \in Attempts : thread[a] \in {"none", "ended"}

Next ==
    \/ SenderStep \/ EditSource \/ CancelReceive \/ Restart
    \/ \E a \in Attempts : OfferStep(a) \/ ThreadStep(a)
    \/ \E i \in Items : FileAppears(i)
    \/ Over /\ UNCHANGED vars

Spec == Init /\ [][Next]_vars

-----------------------------------------------------------------------------
TypeOK ==
    /\ version \in 1..MaxVersions
    /\ sender \in {"connect", "offered", "streaming", "completed", "failed"}
    /\ attempt \in 0..MaxAttempts
    /\ manifest \in [Attempts -> 0..MaxVersions]
    /\ cursor \in (1..ItemCount + 1) \X (0..Size)
    /\ \A a \in Attempts : Len(wire[a]) <= Buffer
    /\ senderOpen \in [Attempts -> BOOLEAN]
    /\ reply \in [Attempts -> {"none", "ready", "rejected", "failed", "completed",
                               "cancelled"}]
    /\ promised \in [Attempts -> [Items -> 0..Size]]
    /\ offer \in 0..MaxAttempts
    /\ thread \in [Attempts -> {"none", "incoming", "pending", "next", "read", "choose",
                                "publish", "discard", "ended"}]
    /\ item \in [Attempts -> 1..ItemCount + 1]
    /\ offset \in [Attempts -> 0..Size]
    /\ policy \in [Attempts -> Policies \cup {"none"}]
    /\ dest \in [Attempts -> Names]
    /\ \A i \in Items : Len(partial[i]) <= Size
    /\ cancelled \in BOOLEAN
    /\ restarts \in 0..MaxRestarts

(* What is in the receive directory under an item's name is a file of      *)
(* someone else or one version of the source from its first byte to its    *)
(* last: although the attempts share their partial files and the digest    *)
(* is taken before the rename, no mixture and no beginning of a file is    *)
(* left there while at most two receive threads are at work, on a source   *)
(* that rests while both are; otherwise the code does not see to it.       *)
NothingMixed ==
    \A i \in Items, n \in Names :
        files[i][n] \in {Absent, <<Someone>>, <<Newcomer>>} \cup {Whole(v) : v \in 1..version}

(* When the sender reports the session as completed, each item is in the   *)
(* receive directory as it was hashed for the last attempt, unless the     *)
(* receiving user chose to skip items that exist.                          *)
CompletedMeansDelivered ==
    sender = "completed" =>
        \A i \in Items :
            \/ \E n \in Names : files[i][n] = Whole(manifest[attempt])
            \/ policy[attempt] = "skip" /\ Taken(i, 0)

(* A file that was there before the job is only replaced under "overwrite":*)
(* the receive threads of several attempts may look for a free name and    *)
(* rename onto it in any order.                                            *)
OthersFilesKept ==
    [][\A i \in Items, n \in Names :
         files[i][n] = <<Someone>> /\ files'[i][n] # <<Someone>>
             => \E a \in Attempts : policy[a] = "overwrite" /\ thread[a] = "publish"]_vars
=============================================================================
