-------------------------- MODULE JournaledTransfer --------------------------
(***************************************************************************)
(* One recipient's direct session of version 2 (transfer.rs, snapshot.rs): *)
(* send_v2_direct under the retry loop, the receiver's pending offer,      *)
(* receive_v2_direct_inner, and what it leaves on the disk: the partial    *)
(* files, the transfer journal with the pieces already there, the receive  *)
(* directory and the job's entry in the history, of which there is one.    *)
(* Sizes are small numbers of bytes, the content of a piece is the version *)
(* of the source it was read from.  Timeouts are not timed.  The frames    *)
(* are in order and authentic (secure.rs); a frame that fails ends the     *)
(* session like any other error.                                           *)
(***************************************************************************)
EXTENDS Naturals, Sequences, FiniteSetsExt

CONSTANTS ItemCount,     (* files in the manifest                           *)
          Size,          (* of each file, in bytes (one of none is refused  *)
                         (* by its digest, as in version 1)                 *)
          PieceSize,     (* chunk_profile.piece_size                        *)
          MaxAttempts,   (* options.max_retries + 1                         *)
          MaxVersions,   (* bound: versions the source files go through     *)
          MaxRestarts,   (* bound: restarts of the receiving application    *)
          MaxAtWork,     (* bound: receive threads of this job at a time    *)
          Buffer,        (* pieces the network holds for a slow receiver    *)
          Policies       (* conflict policies the user may choose           *)

Items == 1..ItemCount
Attempts == 1..MaxAttempts
Names == 0..MaxAttempts + 1       (* 0: the item's own name; k: "name (k)"  *)

ASSUME JournaledTransferAssumption ==
    /\ {ItemCount, PieceSize, MaxAttempts, MaxVersions, MaxAtWork, Buffer} \subseteq Nat \ {0}
    /\ Size \in [Items -> Nat \ {0}] /\ MaxRestarts \in Nat
    /\ Policies \subseteq {"rename", "overwrite", "skip"}

Absent == <<>>
Someone == 0                      (* version of a file that was there before *)
Hole == MaxVersions + 1           (* of a piece that set_len filled up       *)

(* Pieces of an item by their index, from 0; the last may be shorter.      *)
Pieces(i) == {k \in 0..Size[i] : k * PieceSize < Size[i]}
(* Mutated form: the last piece is taken for a whole one.                  *)
BytesWhole(i, k) == PieceSize
Bytes(i, k) == IF (k + 1) * PieceSize <= Size[i] THEN PieceSize ELSE Size[i] - k * PieceSize
Whole(i, v) == [k \in Pieces(i) |-> v]
Total == Cardinality(UNION {{i} \X (0..Size[i] - 1) : i \in Items})

VARIABLES version,        (* of the source files now                       *)
          sender,         (* where the sender's thread is                  *)
          attempt,        (* its current attempt, 0 before the first       *)
          manifest,       (* version each attempt's snapshot is of         *)
          todo,           (* pieces the sender has still to send           *)
          wire,           (* pieces under way, for each attempt            *)
          reply,          (* what the receiver answered each attempt       *)
          ready,          (* offsets and missing ranges in that answer     *)
          offer,          (* attempt whose offer is pending, 0 if none     *)
          thread,         (* receiver's thread for each attempt            *)
          item,           (* item each receive thread is at                *)
          policy,         (* conflict policy it was accepted with          *)
          dest,           (* name destination_path has chosen              *)
          memory,         (* its copy of the journal                       *)
          counted,        (* total_done                                    *)
          journal,        (* .zapdrop-journals/job-*.json                  *)
          partial,        (* .zapdrop-partial/job-*/item-*.part            *)
          files,          (* the receive directory                         *)
          history,        (* status of the job's entry, "none" before it   *)
          restarts

senderVars == <<version, sender, attempt, manifest, todo>>
answerVars == <<reply, ready>>
threadVars == <<thread, item, policy, dest, memory, counted>>
diskVars == <<journal, partial, files, history>>
vars == <<senderVars, wire, answerVars, offer, threadVars, diskVars, restarts>>

(* A journal of snapshot root 0 is a file that is not there.               *)
NewJournal(root) ==
    [root |-> root, verified |-> [i \in Items |-> {}], complete |-> {}]
Unasked == [i \in Items |-> [offset |-> 0, missing |-> {}]]

Init ==
    /\ version = 1 /\ sender = "connect" /\ attempt = 0
    /\ manifest = [a \in Attempts |-> 0]
    /\ todo = {}
    /\ wire = [a \in Attempts |-> <<>>]
    /\ reply = [a \in Attempts |-> "none"]
    /\ ready = [a \in Attempts |-> Unasked]
    /\ offer = 0
    /\ thread = [a \in Attempts |-> "none"]
    /\ item = [a \in Attempts |-> 1]
    /\ policy = [a \in Attempts |-> "none"]
    /\ dest = [a \in Attempts |-> 0]
    /\ memory = [a \in Attempts |-> NewJournal(0)]
    /\ counted = [a \in Attempts |-> 0]
    /\ journal = NewJournal(0)
    /\ partial = [i \in Items |-> Absent]
    /\ \E taken \in SUBSET Items :
          files = [i \in Items |-> [n \in Names |->
                      IF i \in taken /\ n = 0 THEN <<Someone>> ELSE Absent]]
    /\ history = "none"
    /\ restarts = 0

AtWork == {a \in Attempts :
             thread[a] \notin {"none", "incoming", "pending", "ended"}}

-----------------------------------------------------------------------------
(* The sender: send_v2_direct.                                             *)

(* build_file, for each file: what is there now is read piece by piece and *)
(* hashed; a file that changes its length meanwhile ends the session.      *)
TakeSnapshot(a) == manifest' = [manifest EXCEPT ![a] = version]

(* Connection, handshake, snapshot, the metadata pages and the offer.      *)
Connect ==
    /\ sender = "connect"
    /\ attempt' = attempt + 1
    /\ TakeSnapshot(attempt')
    /\ thread' = [thread EXCEPT ![attempt'] = "incoming"]
    /\ sender' = "offered" /\ todo' = {}
    /\ UNCHANGED <<version, wire, answerVars, offer, item, policy, dest, memory, counted,
                   diskVars, restarts>>

(* verify_v2_sources_unchanged: edited while the snapshot was built.       *)
SnapshotStale ==
    /\ sender = "connect" /\ version < MaxVersions
    /\ version' = version + 1
    /\ sender' = "failed"
    /\ UNCHANGED <<attempt, manifest, todo, wire, answerVars, offer, threadVars, diskVars,
                   restarts>>

(* What the sender reads out of the answer for an item: the missing ranges *)
(* or, where none are listed, all from the offset on.                      *)
Requested(i) ==
    LET answer == ready[attempt][i]
    IN  IF answer.missing # {} THEN answer.missing
        ELSE {k \in Pieces(i) : k * PieceSize >= answer.offset}

OffsetValid(i) ==
    LET offset == ready[attempt][i].offset
    IN  offset <= Size[i] /\ offset % PieceSize = 0

(* validate_v2_missing_ranges: what is listed is in pieces, what the sender *)
(* makes of an offset is one range and has to be no longer than a piece.   *)
RangesValid(i) ==
    LET answer == ready[attempt][i]
    IN  /\ answer.missing \subseteq Pieces(i)
        /\ answer.missing = {} => Size[i] <= answer.offset + PieceSize

AnswerValid == \A i \in Items : OffsetValid(i) /\ RangesValid(i)

(* Item by item, and range by range.                                       *)
Earlier(p, q) == p[1] < q[1] \/ (p[1] = q[1] /\ p[2] < q[2])
First(pieces) == CHOOSE p \in pieces : \A q \in pieces \ {p} : Earlier(p, q)

StartStreaming ==
    /\ sender = "offered" /\ reply[attempt] = "ready"
    /\ \/ AnswerValid /\ sender' = "streaming"
          /\ todo' = UNION {{i} \X Requested(i) : i \in Items}
       \/ ~AnswerValid /\ sender' = "failed" /\ UNCHANGED todo
    /\ UNCHANGED <<version, attempt, manifest, wire, answerVars, offer, threadVars,
                   diskVars, restarts>>

(* The source is read as it is now; its digest was taken for the snapshot. *)
SendPiece ==
    /\ sender = "streaming" /\ todo # {}
    /\ Len(wire[attempt]) < Buffer
    /\ LET p == First(todo)
       IN  /\ wire' = [wire EXCEPT ![attempt] =
                          Append(@, [item |-> p[1], index |-> p[2], version |-> version])]
           /\ todo' = todo \ {p}
    /\ UNCHANGED <<version, sender, attempt, manifest, answerVars, offer, threadVars,
                   diskVars, restarts>>

(* A refusal is not retried; the completion must account for every byte.   *)
ReadAnswer ==
    /\ \/ sender = "offered" /\ reply[attempt] \in {"rejected", "refused"}
          /\ sender' = "failed"
       \/ sender = "streaming" /\ todo = {} /\ reply[attempt] = "completed"
          /\ sender' = IF counted[attempt] = Total THEN "completed" ELSE "failed"
    /\ UNCHANGED <<version, attempt, manifest, todo, wire, answerVars, offer, threadVars,
                   diskVars, restarts>>

(* Any wait may time out, any connection may end, at the receiver's end    *)
(* too; what is under way still arrives, or is lost.                       *)
Break ==
    /\ sender \in {"offered", "streaming"}
    /\ \/ attempt < MaxAttempts /\ sender' = "connect"
       \/ sender' = "failed"
    /\ todo' = {}
    /\ \/ UNCHANGED wire
       \/ wire' = [wire EXCEPT ![attempt] = <<>>]
    /\ UNCHANGED <<version, attempt, manifest, answerVars, offer, threadVars, diskVars,
                   restarts>>

EditSource ==
    /\ version < MaxVersions
    /\ version' = version + 1
    /\ UNCHANGED <<sender, attempt, manifest, todo, wire, answerVars, offer, threadVars,
                   diskVars, restarts>>

-----------------------------------------------------------------------------
(* The receiver's offers.                                                  *)

Pass(a, label) == thread' = [thread EXCEPT ![a] = label]

(* validate_v2_direct_offer: "v2 job has already completed".  All else it  *)
(* asks (form, signature, recipient, items that differ, sizes that add up, *)
(* the root) holds of what this program's sender offers.                   *)
AlreadyCompleted == history = "completed"

(* handle_secure_incoming, insert_v2: a second offer with the id of a      *)
(* pending one is dropped and its stream closed.                           *)
InsertOffer(a) ==
    /\ thread[a] = "incoming"
    /\ \/ AlreadyCompleted
          /\ reply' = [reply EXCEPT ![a] = "refused"]
          /\ Pass(a, "ended") /\ UNCHANGED offer
       \/ ~AlreadyCompleted /\ offer # 0
          /\ Pass(a, "ended") /\ UNCHANGED <<offer, reply>>
       \/ ~AlreadyCompleted /\ offer = 0
          /\ offer' = a /\ Pass(a, "pending") /\ UNCHANGED reply
    /\ UNCHANGED <<senderVars, wire, ready, item, policy, dest, memory, counted, diskVars,
                   restarts>>

(* accept_v2, by the user or at once when nothing has to be asked.         *)
Accept(a) ==
    /\ offer = a /\ Cardinality(AtWork) < MaxAtWork
    /\ offer' = 0
    /\ \E p \in Policies : policy' = [policy EXCEPT ![a] = p]
    /\ Pass(a, "accepted")
    /\ UNCHANGED <<senderVars, wire, answerVars, item, dest, memory, counted, diskVars,
                   restarts>>

(* reject, or purge_expired, or an accept_v2 whose decision cannot be      *)
(* written: the offer leaves the table, with an answer or without.         *)
Dismiss(a) ==
    /\ offer = a
    /\ offer' = 0
    /\ Pass(a, "ended")
    /\ \/ reply' = [reply EXCEPT ![a] = "rejected"]
       \/ UNCHANGED reply
    /\ UNCHANGED <<senderVars, wire, ready, item, policy, dest, memory, counted, diskVars,
                   restarts>>

-----------------------------------------------------------------------------
(* The journal (snapshot.rs), with its verified ranges as whole pieces.    *)

(* missing_ranges                                                          *)
MissingRanges(j, i) == Pieces(i) \ j.verified[i]

(* contiguous_offset                                                       *)
ContiguousOffset(j, i) ==
    LET missing == MissingRanges(j, i)
    IN  IF missing = {} THEN Size[i] ELSE Min(missing) * PieceSize

(* The bytes of an item that some of its pieces cover.                     *)
BytesOf(i, pieces) ==
    {n \in 0..Size[i] - 1 :
        \E k \in pieces : k * PieceSize <= n /\ n < (k + 1) * PieceSize}

(* Mutated form: what was there before is not counted.                     *)
VerifiedBytesNone(j, i) == 0

(* verified_bytes                                                          *)
VerifiedBytes(j, i) == Cardinality(BytesOf(i, j.verified[i]))

MarkVerified(j, i, k) == [j EXCEPT !.verified[i] = @ \cup {k}]
MarkComplete(j, i) == [j EXCEPT !.complete = @ \cup {i}]

(* Mutated form: the partial file goes, the journal's item stays.          *)
ResetItemNot(j, i) == j
ResetItem(j, i) == [j EXCEPT !.verified[i] = {}, !.complete = @ \ {i}]

(* fs::metadata(&partial).len(): set_len makes it whole with the first piece. *)
PartialLength(i) == IF partial[i] = Absent THEN 0 ELSE Size[i]

(* v2_reconcile_partial_state: is what is there given up?                  *)
MustReset(partialOffset, journalOffset, size) ==
    \/ partialOffset # 0 /\ journalOffset = 0
    \/ journalOffset # 0 /\ journalOffset # partialOffset /\ partialOffset # size
    \/ partialOffset > size
    \/ partialOffset % PieceSize # 0

-----------------------------------------------------------------------------
(* A receive thread: receive_v2_direct and receive_v2_direct_inner.        *)

(* v2_snapshot_root: a digest of all items, so one for each version.       *)
SnapshotRoot(a) == manifest[a]

(* save_atomic: a new file takes the place of the old one in one step.     *)
SaveJournal(j) == journal' = j

(* The thread ends, and its own variables with it.                         *)
End(a) ==
    /\ Pass(a, "ended")
    /\ item' = [item EXCEPT ![a] = 1]
    /\ dest' = [dest EXCEPT ![a] = 0]
    /\ memory' = [memory EXCEPT ![a] = NewJournal(0)]

(* history.record: attempts share the id of their entry, so each status    *)
(* replaces the one before, of whichever attempt it was.                   *)
Record(status) == history' = status

(* Mutated form: the entry is made before the result has been looked at.   *)
FailsAsCompleted(a) == End(a) /\ Record("completed")

(* receive_v2_direct, when receive_v2_direct_inner returns an error.       *)
Fails(a) == End(a) /\ Record("failed")

(* An I/O error, a frame that does not come or does not open, the cancel   *)
(* flag: the session is over, whatever it has done stays.  A thread that   *)
(* could not be started has recorded nothing.                              *)
Fail(a) ==
    /\ a \in AtWork
    /\ \/ thread[a] = "accepted" /\ End(a) /\ UNCHANGED history
       \/ thread[a] # "accepted" /\ Fails(a)
    /\ UNCHANGED <<senderVars, wire, answerVars, offer, policy, counted, journal, partial,
                   files, restarts>>

(* receive_v2_direct: before anything of the offer is looked at again.     *)
RecordStarted(a) ==
    /\ thread[a] = "accepted"
    /\ Record("started")
    /\ Pass(a, "open")
    /\ UNCHANGED <<senderVars, wire, answerVars, offer, item, policy, dest, memory, counted,
                   journal, partial, files, restarts>>

(* The offer is validated once more; if another thread has recorded the    *)
(* job as completed since RecordStarted, it ends as in Fail.  The journal  *)
(* of this job and snapshot is loaded, or a new one begun, and saved.      *)
OpenJournal(a) ==
    /\ thread[a] = "open" /\ ~AlreadyCompleted
    /\ SaveJournal(IF journal.root = SnapshotRoot(a) THEN journal
                   ELSE NewJournal(SnapshotRoot(a)))
    /\ memory' = [memory EXCEPT ![a] = journal']
    /\ Pass(a, "reconcile")
    /\ UNCHANGED <<senderVars, wire, answerVars, offer, item, policy, dest, counted, partial,
                   files, history, restarts>>

(* One pass of the loop that compares partial file and journal.            *)
ReconcileItem(a) ==
    LET i == item[a]
        reset == MustReset(PartialLength(i), ContiguousOffset(memory[a], i), Size[i])
        kept == IF reset THEN ResetItem(memory[a], i) ELSE memory[a]
    IN  /\ thread[a] = "reconcile" /\ i <= ItemCount
        /\ partial' = IF reset THEN [partial EXCEPT ![i] = Absent] ELSE partial
        /\ memory' = [memory EXCEPT ![a] = kept]
        /\ ready' = [ready EXCEPT ![a][i].offset = IF reset THEN 0 ELSE PartialLength(i)]
        /\ counted' = [counted EXCEPT ![a] = @ + VerifiedBytes(kept, i)]
        /\ item' = [item EXCEPT ![a] = i + 1]
        /\ UNCHANGED <<senderVars, wire, reply, offer, thread, policy, dest, journal, files,
                       history, restarts>>

(* The missing ranges of all items, and the "ready" frame.                 *)
AnswerReady(a) ==
    /\ thread[a] = "reconcile" /\ item[a] > ItemCount
    /\ ready' = [ready EXCEPT ![a] = [i \in Items |->
                    [@[i] EXCEPT !.missing = MissingRanges(memory[a], i)]]]
    /\ reply' = [reply EXCEPT ![a] = "ready"]
    /\ item' = [item EXCEPT ![a] = 1]
    /\ Pass(a, "receive")
    /\ UNCHANGED <<senderVars, wire, offer, policy, dest, memory, counted, diskVars,
                   restarts>>

Receiving(a) == thread[a] = "receive" /\ item[a] <= ItemCount
Missing(a) == MissingRanges(memory[a], item[a])

Expected(a, piece) ==
    Missing(a) # {} /\ piece.item = item[a] /\ piece.index = Min(Missing(a))

(* A piece, opened and written; it is not hashed by itself.                *)
WritePiece(a) ==
    LET i == item[a]
        piece == Head(wire[a])
    IN  /\ Receiving(a) /\ Missing(a) # {} /\ wire[a] # <<>>
        /\ wire' = [wire EXCEPT ![a] = Tail(@)]
        /\ \/ Expected(a, piece)
              /\ partial' = [partial EXCEPT ![i] =
                     [(IF @ = Absent THEN Whole(i, Hole) ELSE @)
                         EXCEPT ![piece.index] = piece.version]]
              /\ Pass(a, "save") /\ UNCHANGED <<item, dest, memory, history>>
           \/ ~Expected(a, piece) /\ Fails(a) /\ UNCHANGED partial
        /\ UNCHANGED <<senderVars, answerVars, offer, policy, counted, journal, files,
                       restarts>>

(* mark_verified and save_atomic.                                          *)
SavePiece(a) ==
    LET i == item[a]
        k == Min(Missing(a))
    IN  /\ thread[a] = "save"
        /\ memory' = [memory EXCEPT ![a] = MarkVerified(@, i, k)]
        /\ SaveJournal(memory'[a])
        /\ counted' = [counted EXCEPT ![a] = @ + Bytes(i, k)]
        /\ Pass(a, "receive")
        /\ UNCHANGED <<senderVars, wire, answerVars, offer, item, policy, dest, partial,
                       files, history, restarts>>

(* Mutated form: a file of the right length is taken for the right file.   *)
VerifiedByLength(a) == partial[item[a]] # Absent

(* digest_file(&partial)? != item.sha256                                   *)
Verified(a) == partial[item[a]] = Whole(item[a], manifest[a])

Verify(a) ==
    /\ Receiving(a) /\ Missing(a) = {}
    /\ \/ Verified(a) /\ Pass(a, "choose") /\ UNCHANGED <<item, dest, memory, history>>
       \/ ~Verified(a) /\ Fails(a)
    /\ UNCHANGED <<senderVars, wire, answerVars, offer, policy, counted, journal, partial,
                   files, restarts>>

Taken(i, n) == files[i][n] # Absent

FreeName(i) == Min({n \in Names : ~Taken(i, n)})

(* Mutated form: an item that exists is always taken for skipped.          *)
SkippedAlways(a) == Taken(item[a], 0)
Skipped(a) == Taken(item[a], 0) /\ policy[a] = "skip"

(* destination_path                                                        *)
ChooseDestination(a) ==
    /\ thread[a] = "choose"
    /\ \/ Skipped(a) /\ Pass(a, "mark") /\ UNCHANGED dest
       \/ ~Skipped(a) /\ Pass(a, "publish")
          /\ dest' = [dest EXCEPT ![a] = IF policy[a] = "rename" THEN FreeName(item[a]) ELSE 0]
    /\ UNCHANGED <<senderVars, wire, answerVars, offer, item, policy, memory, counted,
                   diskVars, restarts>>

(* fs::rename(&partial, &final_path)                                       *)
Publish(a) ==
    LET i == item[a]
    IN  /\ thread[a] = "publish"
        /\ \/ partial[i] = Absent /\ Fails(a) /\ UNCHANGED <<partial, files>>
           \/ partial[i] # Absent
              /\ files' = [files EXCEPT ![i][dest[a]] = partial[i]]
              /\ partial' = [partial EXCEPT ![i] = Absent]
              /\ dest' = [dest EXCEPT ![a] = 0]
              /\ Pass(a, "mark") /\ UNCHANGED <<item, memory, history>>
        /\ UNCHANGED <<senderVars, wire, answerVars, offer, policy, counted, journal,
                       restarts>>

(* mark_complete and save_atomic.                                          *)
SaveComplete(a) ==
    /\ thread[a] = "mark"
    /\ memory' = [memory EXCEPT ![a] = MarkComplete(@, item[a])]
    /\ SaveJournal(memory'[a])
    /\ item' = [item EXCEPT ![a] = @ + 1]
    /\ Pass(a, "receive")
    /\ UNCHANGED <<senderVars, wire, answerVars, offer, policy, dest, counted, partial,
                   files, history, restarts>>

(* The completion frame; an error in writing it is Fail.                   *)
AnswerCompleted(a) ==
    /\ thread[a] = "receive" /\ item[a] > ItemCount
    /\ reply' = [reply EXCEPT ![a] = "completed"]
    /\ Pass(a, "record")
    /\ UNCHANGED <<senderVars, wire, ready, offer, item, policy, dest, memory, counted,
                   diskVars, restarts>>

(* receive_v2_direct, when receive_v2_direct_inner returns Ok.             *)
RecordCompleted(a) ==
    /\ thread[a] = "record"
    /\ Record("completed")
    /\ End(a)
    /\ UNCHANGED <<senderVars, wire, answerVars, offer, policy, counted, journal, partial,
                   files, restarts>>

(* The receiver's process ends and is started again: only the disk stays.  *)
Restart ==
    /\ restarts < MaxRestarts /\ attempt > 0
    /\ restarts' = restarts + 1
    /\ offer' = 0
    /\ wire' = [a \in Attempts |-> <<>>]
    /\ thread' = [a \in Attempts |-> IF thread[a] = "none" THEN "none" ELSE "ended"]
    /\ item' = [a \in Attempts |-> 1]
    /\ dest' = [a \in Attempts |-> 0]
    /\ memory' = [a \in Attempts |-> NewJournal(0)]
    /\ UNCHANGED <<senderVars, answerVars, policy, counted, diskVars>>

SenderStep ==
    Connect \/ SnapshotStale \/ StartStreaming \/ SendPiece \/ ReadAnswer \/ Break

OfferStep(a) == InsertOffer(a) \/ Accept(a) \/ Dismiss(a)

ThreadStep(a) ==
    \/ Fail(a) \/ RecordStarted(a) \/ OpenJournal(a) \/ ReconcileItem(a) \/ AnswerReady(a)
    \/ WritePiece(a) \/ SavePiece(a) \/ Verify(a) \/ ChooseDestination(a)
    \/ Publish(a) \/ SaveComplete(a) \/ AnswerCompleted(a) \/ RecordCompleted(a)

Over ==
    /\ sender \in {"completed", "failed"}
    /\ \A a \in Attempts : thread[a] \in {"none", "ended"}

Next ==
    \/ SenderStep \/ EditSource \/ Restart
    \/ \E a \in Attempts : OfferStep(a) \/ ThreadStep(a)
    \/ Over /\ UNCHANGED vars

Spec == Init /\ [][Next]_vars

-----------------------------------------------------------------------------
Journals ==
    [root : 0..MaxVersions, verified : [Items -> SUBSET UNION {Pieces(i) : i \in Items}],
     complete : SUBSET Items]

TypeOK ==
    /\ version \in 1..MaxVersions
    /\ sender \in {"connect", "offered", "streaming", "completed", "failed"}
    /\ attempt \in 0..MaxAttempts
    /\ manifest \in [Attempts -> 0..MaxVersions]
    /\ \A a \in Attempts : Len(wire[a]) <= Buffer
    /\ reply \in [Attempts -> {"none", "ready", "rejected", "refused", "completed"}]
    /\ offer \in 0..MaxAttempts
    /\ item \in [Attempts -> 1..ItemCount + 1]
    /\ policy \in [Attempts -> Policies \cup {"none"}]
    /\ dest \in [Attempts -> Names]
    /\ memory \in [Attempts -> Journals] /\ journal \in Journals
    /\ counted \in [Attempts -> 0..Total]
    /\ \A i \in Items : partial[i] = Absent \/ partial[i] \in [Pieces(i) -> 1..Hole]
    /\ history \in {"none", "started", "completed", "failed"}
    /\ restarts \in 0..MaxRestarts

(* A piece never comes out of turn: what the sender makes of the offsets   *)
(* and missing ranges it was told, and what the receiver works out again   *)
(* from the journal in its memory, are the same pieces in the same order,  *)
(* whatever was found on the disk.                                         *)
BothCountTheSamePieces ==
    /\ \A a \in Attempts : Receiving(a) /\ wire[a] # <<>> =>
          \/ Expected(a, Head(wire[a]))
          \/ Missing(a) = {} /\ Head(wire[a]).item > item[a]
    /\ sender = "offered" /\ reply[attempt] = "ready" => AnswerValid

(* The sender does not turn down the completion of a receiver that has     *)
(* everything: pieces found and pieces received add up to the job.         *)
CompletionAccountsForAll ==
    \A a \in Attempts : reply[a] = "completed" => counted[a] = Total

(* Under an item's name there is a file of someone else or one version of  *)
(* the source, with no piece of another and no hole, although pieces are   *)
(* marked as verified before anybody has compared them with the source.    *)
NothingMixed ==
    \A i \in Items, n \in Names :
        files[i][n] \in {Absent, <<Someone>>} \cup {Whole(i, v) : v \in 1..version}

(* A journal on the disk that calls an item complete is right: the item is *)
(* in the receive directory, or was there and the user has chosen to skip. *)
JournalledCompleteIsPublished ==
    \A i \in journal.complete :
        \/ \E n \in Names : files[i][n] = Whole(i, journal.root)
        \/ Taken(i, 0) /\ \E a \in Attempts : policy[a] = "skip"

(* "completed" at the sender: every item is there as it was hashed for     *)
(* this attempt, or was there and skipped.                                 *)
CompletedMeansDelivered ==
    sender = "completed" =>
        \A i \in Items :
            \/ \E n \in Names : files[i][n] = Whole(i, manifest[attempt])
            \/ Taken(i, 0) /\ policy[attempt] = "skip"

(* "completed" in the history, for which later offers of the job are       *)
(* refused and it cannot be sent any more, is true: the journal has every  *)
(* item as complete, and what it calls complete is there or was skipped,   *)
(* although attempts share the entry, the journal and the partial files.   *)
CompletedHistoryIsTrue ==
    AlreadyCompleted =>
        /\ journal.complete = Items
        /\ \A i \in Items :
              \/ \E n \in Names : files[i][n] = Whole(i, journal.root)
              \/ Taken(i, 0) /\ \E a \in Attempts : policy[a] = "skip"

(* What the documents say and the code does not do.                        *)

(* "This prevents stale metadata from causing the sender to skip bytes     *)
(* after a later session": what a session does not ask for has been        *)
(* written to the partial file.                                            *)
SkippedBytesAreThere ==
    \A a \in Attempts : thread[a] = "receive" /\ reply[a] = "ready" =>
        \A i \in Items : \A k \in Pieces(i) \ ready[a][i].missing :
            item[a] <= i => partial[i] # Absent /\ partial[i][k] # Hole
=============================================================================
