# Zapdrop in TLA+

Zapdrop is a desktop application (Tauri, Rust, a TypeScript user interface) that
pairs devices on a local network and sends files between them. These modules
specify the parts of it in which several threads, several processes or a disk
that outlives a process have to agree. Paths below are relative to
`src/apps/zapdrop-desktop/src-tauri/src/`. `PROJECT.json` lists, for every
definition, the lines it is translated from, and for every property a mutation of
the code's model that breaks it.

    tlc -workers 2 -config Scheduler.cfg Scheduler.tla     # model checking
    tlapm SchedulerProofs.tla                              # proofs

## 1. The system

| part | state it keeps | operations | hard behaviours | what makes it correct |
|---|---|---|---|---|
| Send scheduler, admission (`scheduler.rs`) | count of permits, line of tickets, one mutex, one condition variable | `acquire`, drop of a permit | lost wake-ups, wake-ups in any order, the bound of the line | no more permits than the limit, first come first served, everyone in line is served |
| Send scheduler, bandwidth (`scheduler.rs`) | tokens, time of the last refill | `throttle` | refilled only when somebody looks, sleepers overtake each other, a cap below a chunk | a token bucket in real time; no worker waits for good |
| Sending jobs (`transfer.rs`, `TransferManager`) | cancel flags, active counts, a thread per recipient | `start_parallel`, `cancel`, `cancel_recipient`, `finish` | threads that end together, cancellations at any time, a thread that cannot be started | the parent's status agrees with its children; cancelled is not reported as failed |
| History (`history.rs`) | a list under a lock, its file | `list`, `record`, `clear` | read and written in separate steps by many threads | entries of a job agree with each other |
| Version 1 session (`transfer.rs`: `send_to_peer`, `ReceiveOfferCoordinator`, `receive_items`) | pending offers, partial files, receive directory | offer, accept, reject, expire, stream, verify, publish | retries while the receiver still works, edits of the source, restarts, name conflicts | what is published is one version of the source; "completed" means delivered; nothing of others is lost |
| Pairing (`pairing.rs`, `lib.rs`, `network/mod.rs`) | pending requests, the runtime lock | ask, accept, reject, restart of the listener | waiting with a lock held, an asker that gives up, refused and stale requests | trust needs the users of both devices |
| Trust store (`trust.rs`) | list in memory, `trusted-peers.json` | `load`, `upsert`, `remove` | memory changed before the file is | a revocation stays |
| Identity and settings (`identity/mod.rs`, `settings/mod.rs`) | identity, private key, settings, three files | create, load, reset, update | old files removed before the new ones are written | the key in use is the identity's |
| Discovery and runtime (`discovery/mod.rs`, `network/mod.rs`) | peer registry, listener | boot, restart, manual endpoint | records are never dropped | a peer is shown under its present identity |
| Version 2 direct session (`transfer.rs`) | encrypted pieces, partial files, journal | send, receive, reconcile | a crash between a piece, the journal and the rename | only verified ranges are resumed |
| Snapshots and journal (`snapshot.rs`) | verified ranges by object | mark, reset, missing ranges, atomic save | merging of ranges, saves that fail | ranges are disjoint, sorted, and on disk what was verified |
| Secure channel (`secure.rs`) | keys, counters and bytes used by direction, job key | handshake, `seal`, `open`, envelope of the job key, `seal_piece`, `open_piece` | frames lost, repeated, out of order or of an earlier attempt; the limits of a channel | each frame is opened once, in order, by the other end; no nonce twice; a piece is that of the job and place it is opened for |
| Mesh and relay (`mesh.rs`) | routes by nonce, pieces and flags of a route, count of sessions | accept, open, join, store, serve, revoke, purge | a parent and a child on different threads, reconnects, a route replaced while it is in use, expiry, sessions that end with an error | an acknowledged revocation holds; one ciphertext for a piece; the count is that of the sessions |
| Repair (`repair.rs`), protocol types (`swarm.rs`) | none | encode, reconstruct, validate | arithmetic in GF(2^8), limits | reconstruct inverts encode |
| User interface (`App.tsx`), explorer, companion | view state | commands and events | | |

How they interact. A command of the user interface (`lib.rs`) takes the runtime lock,
which guards identity, settings, trust and the pairing coordinator;
`TransferManager`, the offers and the history have locks of their own. (Commands that are
not `async` also follow one another on one thread of the framework. The models
rely on the locks alone, so they allow a few interleavings more.) `start_parallel` makes one scheduler for a job and a thread per
recipient: each acquires a permit, runs `send_to_peer` up to `max_retries + 1`
times, which calls `throttle` before every chunk, and then records its outcome,
brings the parent's history and event up to date, and counts itself out. At the
other end one listener accepts connections and hands each to a thread, by its
first line either a pairing request or a transfer; an offer waits in a table
until the user accepts it, and accepting starts the receive thread. Between two
runs of a process only files remain: identity, key, settings, trusted peers,
history, partial files, journals.

The default build speaks version 1; version 2 and the mesh are behind the
features `swarm-v2` and `swarm-tree-mesh`. Over version 2 a session first makes a secure channel,
then offers a job, sends its key and then pieces. In a tree job the sender may leave encrypted pieces with a relay,
which cannot read them: a parent's session uploads them to a route, a child's session asks for them. (The application
does not start a relay yet: `RelayListener` is used by the tests of the feature.)

## 2. The modules

| module | models | composes |
|---|---|---|
| `Admission` | what the scheduler promises: a bounded first-come first-served semaphore | |
| `Scheduler` | `SwarmScheduler::acquire`, the condition variable, `SwarmPermit` | implements `Admission` |
| `SchedulerProofs` | theorems about `Scheduler` | extends it |
| `TokenBucket` | what pacing promises | |
| `PacedSend`, `MCPacedSend` | the chunk loop with `throttle`, several workers | implements `TokenBucket` |
| `PacedSendProofs` | theorems about `PacedSend` | extends it |
| `SendJob`, `MCSendJob` | `start_parallel` with its threads, flags, counts, history, events | extends `Scheduler`: a child's `acquire` is the scheduler's action |
| `SendJobProofs` | theorems about `SendJob` | extends it and `SchedulerProofs` |
| `DirectTransfer` | one recipient's version 1 session, both ends | |
| `DirectTransferProofs` | theorems about `DirectTransfer` | extends it |
| `JournaledTransfer`, `MCJournaledTransfer` | one recipient's direct session of version 2, both ends, with the transfer journal | |
| `JournaledTransferProofs` | theorems about `JournaledTransfer` | extends it |
| `Pairing` | pairing and trust on all devices, with identities and restarts | |
| `PairingProofs` | theorems about `Pairing` | extends it |
| `PrivateLine` | what a secure channel promises its two ends | |
| `SecureChannel`, `MCSecureChannel` | handshake, frames, job key and pieces, all ends over one network | implements `PrivateLine` |
| `SecureChannelProofs` | theorems about `SecureChannel` | extends it |
| `Relay`, `MCRelay` | the relay's listener, sessions and routes, and its two kinds of client | |
| `RelayProofs` | theorems about `Relay` | extends it |

### Scheduler

A step is one critical section: from taking the mutex to releasing it or going to
sleep. `slot` is the program counter of a worker; "asleep" and "awake" tell a thread
blocked in `changed.wait` from one that has been notified and must take the mutex
again. `acquire` is `AdmitAtOnce`, `Enqueue` and `Refuse` (the first pass) and
`AdmitFromQueue`, `SleepAgain` (a later one); `Drop` is `Release`. The ticket number is left
out: a worker acquires once, so it stands for its ticket. Spurious wake-ups are
allowed, as by the standard library.

### PacedSend

Time is discrete. `owed` is the time since `last_refill`, cut at one second because
the bucket is; `Refilled` is the level a worker would find now, and that level, not
`tokens`, is what implements `TokenBucket`. `NapLength` is `wait.min(1.0)`, rounded up
to a tick. `clock` stands for the time itself and flips with each tick, so that the bucket of `TokenBucket`
fills with time and with nothing else. A rate of 0 makes `throttle` return at once and is not an instance.

### SendJob

`child` is the program counter of a recipient's thread. Every lock is a step: the
entry of the child, the list that the parent's status is worked out from, the
parent's entry, the second list for the event, the emission, the two flags. A child
is inside the scheduler in "acquire" and holds its permit in "check", "sending" and
"drop". `send_to_peer` is reduced to how it returns: Ok, an error that is given up on,
an error that is retried. `Spawn` may fail, which leaves the loop over the peers.

### DirectTransfer

One sender's thread, one receive thread for each accepted attempt, the table of
offers for one transfer id, the partial files, and the receive directory. A chunk
of content is the version of the source it was read from, so a file is a sequence of
versions, `Whole(v)` is an unmixed file, and the digest of a file is the file. The network
is a bounded sequence of chunks per attempt, lost or delivered after the sender has
given up. Opening the partial file and writing one chunk is one step, and so is taking a
digest: finer steps would only add to what section 4 says of threads that share the file. `Someone` marks a file that was there before the job, `Newcomer` one that
another program creates in between. A transfer of empty files fails in the code (the
digest of a partial file that was never made) and does so here (`Verified`).

### JournaledTransfer

Built like `DirectTransfer`, for `send_v2_direct` and `receive_v2_direct_inner`. What the sender has
yet to send is a set, `todo`, of which it takes the earliest (`First`: the code's loops over items and over the pieces of
each). Bytes are counted as the code's sums count them, but as the size of a set of bytes (`Total`, `VerifiedBytes`), since
a sum over items would have to be recursive. A piece is an
index, so that the journal's verified ranges are a set of indexes for each item: the code only ever
marks whole pieces (the last of a file may be shorter, `Bytes`), and `missing_ranges` cuts what is left
at their borders. `memory` is a thread's copy of the journal and `journal` the file; root 0
stands for a file that is not there. `history` is the status of the job's one entry in the receiver's history: attempts have
the same id for it, and every record replaces it, whichever attempt it is of (`Record`). An offer is looked at twice, when it comes
(`InsertOffer`) and after it has been accepted (`OpenJournal`), but the second time after the thread has
recorded "started" (`RecordStarted`), so that it can only find the job completed when another thread has recorded that in between; then the thread ends with an error, which `Fail` is.
The thread's steps are the code's, in its order: record "started", open and save the journal, `ReconcileItem` for each item (`MustReset` is `v2_reconcile_partial_state`), the "ready"
answer, then for each item `WritePiece` and `SavePiece` in turn, `Verify`, `ChooseDestination`,
`Publish`, `SaveComplete`, and at the end `AnswerCompleted` and `RecordCompleted`. Between any two of them
the session may fail (`Fail`) or the process be restarted. The first piece makes the partial file
full length (`set_len`); what has not been written is `Hole`. A piece is marked verified when it has been
decrypted, without comparing it with the snapshot, as in the code; only the digest of the whole
file is. Loading and saving the journal at the beginning is one step. The sender looks at offset
and ranges of an item when it comes to it; here it looks at all of them first (`AnswerValid`), which
makes no difference as they are always valid (`BothCountTheSamePieces`).

### Pairing

The runtime lock is not a variable of its own: it is taken exactly while `asking` or
`accepting` of a device is not 0, and every other command is one step under it. A request
is a record that stays, with its state: "arriving" (on a connection thread), "pending"
(in the table), "accepted", "rejected", "closed" (the stream has ended without an
answer). An identity is a pair of a device and a generation number, since an id and its
key are always made together; `key` says whether the private key on disk is that of the
identity in memory, which a reset that failed half-way changes. Whether a listener is up is not
kept: a connection may fail for any reason, and then nothing has changed. `memory` and `disk` are the
trusted peers in the store and in its file. `agreed` and `revoked` record what users did,
for the properties.

### SecureChannel

An end is one end of one connection; an attempt that is made again is another end, with another ephemeral key. `frames` is
everything that was ever written, and any end may read any of it, at any time, again or never: more than TCP does, but it is
what the counters and keys are there for. A key is named by what it is derived from, the two ends (`transcript_hash` sorts
the two handshakes) and the label of its direction; a frame is its key, its sequence number, what it is
sealed for (its additional data) and its body. `Answer`, `AnswerRefused`, `Establish` and `EstablishRefused` are `establish_channel` at the two ends,
`Seal` and `SealExhausted` are `seal`, `Openable` is when `open` returns Ok. What an end does with an opened frame is reduced to what the
key of the job needs: `HearOffer`, `HearKey` (`open_job_key`), `HearOutOfPlace`. `OpenPiece` opens any attempt's piece under
any header, because pieces may come through a relay. `said` and `heard` are histories that
`PrivateLine` speaks of: an end hears a beginning of what its partner, who is connected to it, has said.

### Relay

A connection is its TCP stream, the client's end of it (`peer`) and the relay's thread (`thread`); `up` is what the client has written and the relay
has not read. A route is named by the parent's connection that made it, since threads hold it by reference and it lives on
when the registry has another one, or none. A step is one critical section: `LookUpRoute` (the registry's lock) and `Join` (the route's) are two, so that a
revocation or another child comes between; answers are written under the route's lock, so they belong to the step.
Inserting a nonce that is there replaces the route and then reports an error (`OpenDuplicate`), and expired routes are purged only when
another parent opens (`Retained`). `Break` and `RefuseEarly` are the errors a session may end with anywhere; `SpawnFails` takes a place that nobody gives back. An end that waits for an
answer is "asking". The clock stands for `epoch_seconds`; grants and assignments have their expiries. `acked` and
`given` are histories: the branches whose revocation was acknowledged, and each piece written to a child.

## 3. Hazards and properties

`PROJECT.json` lists the hazards at their lines. What each property is for:

* Scheduler. `acquire` notifies nobody when it admits, and a notified thread that is not
  at the head goes back to sleep: that the line keeps moving rests on
  `SleepingHeadHasWaker` (a sleeping head has a permit holder that will wake it).
  `PermitAccounting` and `QueueMatchesWorkers` relate the counter and the line, which separate
  critical sections maintain, to the threads themselves;
  `ImplementsAdmission` says that it is a first-come first-served semaphore and nothing else (`NoBarging`, its order, is a theorem); `EveryWaiterAdmitted` is the
  liveness.
* Bandwidth. `ImplementsTokenBucket`: although the bucket is filled only when a worker
  looks, and workers sleep and overtake each other, what they send is paid for by a
  bucket that fills in real time. `EveryWorkerStops`: no worker is starved by others.
* Jobs. `ParallelismBounded` (sessions, not permits), `ParentNeverHidesFailure` (a stale
  list, a cleared history or an event out of order never makes a failed child
  invisible), `CancellationIsReported`, `EveryChildExits`, `ParentSettles`.
* Session. `NothingMixed`, `CompletedMeansDelivered`, `OthersFilesKept`: several attempts
  share partial files, and digest, choice of a name and rename are separate steps.
* Session of version 2. Sender and receiver work out separately which pieces are to be sent, from an
  offset, a list and a journal that may have come out of step with the partial file:
  `BothCountTheSamePieces`, `CompletionAccountsForAll`. Rename, journal, answer and history are four
  steps that a retry may come between: `JournalledCompleteIsPublished`, `CompletedMeansDelivered`,
  `CompletedHistoryIsTrue`, about an entry that each attempt overwrites and that closes the job while it says "completed"; and `NothingMixed`, as pieces are trusted before they are compared.
* Pairing. `TrustNeedsBothUsers`, `RevokedStaysRevoked`, `EveryCommandReturns`: commands of
  two devices wait for each other, users give up, identities change, files fail.
* Secure channel. `NonceOnce`: two ends of a channel, and the attempts of one transfer, derive their keys separately, and a key with a
  number used twice would be the end of the cipher. `ImplementsLine`: lost, repeated and misdirected frames make no difference to what is
  heard. `WhatIsSealedOpens`: two counters and two limits at two ends agree up to the last frame and byte. `PieceIsThePeers`: a piece
  of an earlier attempt, whose snapshot had the same session, or of another place is never taken for the one wanted.
* Relay. `SessionsCounted`: sessions end in many ways, on threads of their own. `OneBodyPerPiece`: an upload that is made again, over
  a route that was replaced, with another ciphertext. `ChildFlagAccounted`: the one-child flag is read, raised and lowered in different sections, and
  errors skip the last. `RevokedChildGetsNothing`: the child's thread holds a route by reference, a refused open may have put another in the registry, and
  the parent's connection may be gone.

Every module has one type invariant besides.

## 4. The runs

| run | instance | shows |
|---|---|---|
| `scheduler` | 5 workers, 2 permits, a line of 2 | the line moves, the counter is right, `Admission` is implemented |
| `paced_send` | 2 workers, chunks 1 to 4, rate 4 | token bucket, and every loop ends |
| `send_job_safety` | 3 recipients, 1 permit, a line of 1, 1 retry, threads that fail to start | the bounds, the parent's status, cancellation |
| `send_job_history` | 2 recipients, history cleared once, threads that fail to start | children exit, the parent settles |
| `direct_resume` | 2 files of 2 chunks, 2 attempts, 2 versions, 1 restart, "rename" and "skip" | nothing mixed, nothing lost, "completed" is true |
| `direct_mixed` (violation) | 1 file of 2 chunks, 3 attempts, nobody edits the source | an unfinished file is published as verified |
| `journaled_resume` | files of 4 and 3 bytes in pieces of 2, 2 attempts, 2 versions, 1 restart, "rename" and "skip", one receive thread at work | what both ends count, what is published, journalled, answered and recorded |
| `journal_skips` (violation) | the same files, 3 attempts, nobody edits the source | a journal ahead of a file that was begun anew: pieces are skipped that are not there |
| `pairing` | 2 devices, 2 identities each, 2 requests, 1 place in the table, failing writes, crashes | trust, revocation, commands return |
| `pairing_one_sided` (violation) | 1 request, no failures | only one side trusts |
| `secure_channel` | 2 initiators of one device with one session id and two snapshots, 2 responders, 2 frames and 3 bytes a direction, 2 pieces | nonces, counters, a private line, pieces |
| `relay` | 3 parents' connections (2 for one branch, 1 for a later job), 2 of a child, 3 sessions at a time, 1 piece with 2 ciphertexts, clock to 1, 1 thread that fails to start | count, one ciphertext, the child's flag, revocation |

Why these bounds are enough for what they ask. Scheduler: five workers over two
permits and a line of two reach a full line, a refusal, two sleepers woken in either order
and a newcomer that meets a line with a permit free. PacedSend: a chunk as large as the whole
bucket against chunks that keep emptying it. SendJob: three recipients make the
verdicts of two of them differ from that of all; one permit and a line of one
make one of them be refused, one wait and one send. DirectTransfer: two files and two chunks give every offset a
boundary on both sides, two attempts are a sender that gives up while the receiver works. JournaledTransfer: a file of whole
pieces, which is resumed, and one with a short last piece, which is begun anew at every resume. Twice a bound does matter: in DirectTransfer
with a third attempt `NothingMixed` fails (`direct_mixed`), so `direct_resume` speaks of at most two receive threads; in JournaledTransfer
two threads at work at a time (`MaxAtWork = 2`) are enough, since each begins with the journal as it
found it: two attempts and an unedited source then break `NothingMixed` in the same way, so `journaled_resume` speaks of
attempts that follow one another, as they do when an error or a timeout has ended the thread before. Pairing: two identities give a
stale record, one place gives a full table, two requests the two directions at once, or a
second one after the first was given up. SecureChannel: two initiators of one device with one session id are an attempt that is made again after
the source was edited, so that handshakes, frames and pieces of the one can be shown to the other; two frames are the
confirmation and one more, or an offer and a key, and the third is refused; three bytes end a channel before its frames do. Relay: two connections of a parent
give a duplicate and a reconnect, two of a child a second child and one that comes back, three places are fewer than
the connections; the first job expires while the second one's parent opens, and purges. The later job has only its open and its revocation, as the pieces
are about the first job's object. The theorems of section 6 need none of these bounds.

`MaxVersions`, `MaxRestarts`, `MaxAtWork`, `Buffer`, `MaxClears`, `MaxRequests`, `MaxGenerations`, `MaxClock` and `MaxSpawnFailures` bound the environment and nothing in
the code; `MaxAttempts`, `MaxParallel`, `QueueLimit`, `MaxRetries`, `MaxPending`, `MaxFrames`, `MaxBytes`, `MaxSkew`, `MaxStored`, `MaxStorage`, `MaxRoutes` and `MaxActive` are the code's options and limits,
made small.

In `direct_resume` the receive threads of two attempts run at the same time only while the source stays
as it is (`EditsAnyTime = FALSE`; in `direct_mixed` there are no edits at all): with edits in that window (`EditsAnyTime = TRUE`, two attempts, two
versions) `NothingMixed` does not hold either, because a chunk of the new version may be written between
the digest and the rename of the other thread.

These two limits are not only the runs': they are the hypotheses of the theorems about what is published (section 6),
and both are limits of the code. Nothing in it keeps a third receive thread of a job from starting, or a second one of version 2.

### What the violations say

1. `direct_mixed`: digest and rename both go by the path, which all attempts share. One thread
   has verified the file; a second, which verified it too, renames it away; a third begins
   a new one; the first then renames this beginning of a file into the receive directory.
2. `journal_skips`: a published item whose complete mark was lost is given up at the next attempt,
   in memory; its first new piece makes a partial file of full length, and the session ends before the
   journal is saved. The old journal lists every piece and the length agrees, so the next attempt asks for
   nothing, and the digest fails, at every attempt from then on.
3. `pairing_one_sided`: the asker gives up after 30 seconds, its request stays in the table,
   and accepting it trusts a device that does not trust back.

More that the models show without a run of its own:

* Scheduler: two permits become free before the head of the line has retaken the mutex; the second in line, woken too, is not
  at the head and sleeps again (scheduler.rs:106), and the head's admission notifies nobody. A permit stays unused until the next drop.
  `EveryWaiterAdmitted` holds because every session ends some day: the loss is parallelism, not progress.
* Bandwidth: the bucket is capped at one second of the rate, so a limit below the size of a chunk is never paid for: `throttle` does
  not return and looks at no flag meanwhile (`paced_send` has chunks within a second of the rate).
* Jobs: the list of children and the parent's entry are two critical sections (transfer.rs:3441); the child with the older list may write
  last, and the parent's entry says "partial" beside children that have all completed. It never says "completed" or "cancelled" wrongly.
* Session: the offset a version 1 session resumes from is the length of the partial file, whatever it holds: once it is full
  and of another version of the source, no attempt with this transfer id can succeed.
* Session of version 2: a completed job is not always refused. An offer that comes before the job is completed, when a sender breaks off
  and tries again, is found in order (transfer.rs:2135) and waits for the user. If the earlier attempt then records "completed" and the
  user accepts, the new thread first replaces that entry by its own "started" (transfer.rs:2031, history.rs:68), so that the second look for
  a completed job (transfer.rs:2255) finds none: it receives all again, publishes under the next name ("rename") and rewrites the journal. If
  it fails, the entry says "failed" (transfer.rs:2091) and later offers are not refused either. `docs/ZAPDROP_SWARM_PROTOCOL_V2.md` line 145
  says that the receiver "rejects completed job IDs". The instance of `journaled_resume` reaches this with its two attempts; what it shows is that
  the entry is nevertheless true whenever it says "completed" (`CompletedHistoryIsTrue`).
* Relay: a second open with a nonce in use is refused but has replaced the route in the registry (mesh.rs:1196), where
  `docs/ZAPDROP_PHASE17_TOPOLOGY_CONTROL_SLICE.md` says that such conditions do not create relay state. Children that come later
  join a route without pieces and without a parent. For the same reason a parent that lost its connection cannot go on with its branch.
* Relay: a child's session that ends with an error leaves the flag up, so that this child cannot come back to the route
  (`ChildFlagAccounted` says exactly when). A thread that cannot be started costs its place for good (`leaked`).
* Relay: an assignment's own byte bound and expiry are looked at when the route is opened, later only the grant's; joining
  looks at no expiry (asking for a piece does); the capacity is looked at before a duplicate is.

## 5. Fairness

* Scheduler: weak fairness on each worker's `Acquire` and `Retry` (a runnable thread runs and
  the mutex is handed on) and on `Release` (every socket operation of a
  session has a timeout, so a session ends). Spurious wake-ups are allowed, never owed.
* PacedSend: weak fairness on time and on each worker's step.
* SendJob: weak fairness on the caller's loop and on each child's thread. Nobody has to
  cancel or clear anything.
* Pairing: weak fairness on the rest of a command that has begun; `GiveUp` is in it because the
  stream has a read timeout of 30 seconds. No user has to answer.
* DirectTransfer, JournaledTransfer, SecureChannel and Relay state safety only and assume no fairness: a peer, a user or the network need not go on.

## 6. What is proved

The proofs hold for every value of the constants that satisfies the named assumption of the
module (`SchedulerAssumption`: finitely many workers, 1 to 8 permits, a line of 0 to 64, the
ranges that `validate` accepts; `PacedSendAssumption`, `SendJobAssumption`, `PairingAssumption`, `ChannelAssumption`, `RelayAssumption`, `DirectTransferAssumption`,
`JournaledTransferAssumption`: the constants are of their kind and the bounds natural numbers). Every safety property of a passing run is stated by
a theorem. Only those about what the two transfers publish have a hypothesis besides, given with them below.

`SchedulerProofs`. The invariants are layered. The type is inductive alone; given it, so are
`PermitAccounting` and `QueueMatchesWorkers`; given the type and the line, `SleepingHeadHasWaker`
is. The layers are needed: that `Release` decrements the counter truthfully needs that it equals the
number of holders, and that the head of the line is a blocked thread, which a drop wakes, needs the
whole correspondence of line and threads. `NoBarging` and the refinement of `Admission` follow
from all of them step by step.

`PacedSendProofs`. The invariant is the type, the type of `sent`, and that a worker which asks for
tokens has a chunk left to ask for. The refinement maps `level` to `Refilled`: a tick adds to it
what time has paid for, a look at the bucket leaves it as it is although it moves tokens and
`last_refill`, and a send takes the chunk away.

`SendJobProofs`. `JobUsesScheduler` shows that a step of a job is a step of its scheduler or leaves it
alone, so what is proved of the scheduler holds of the one inside a job. Over it come four
invariants: `Decided` (an outcome exists exactly from the point where a child has recorded one),
`Honest` (every list that a child carries from one lock to the next, like the parent's entry and
the last event, says "completed" or "cancelled" only if all ended so; this is what survives stale
lists and a cleared history), `Permitted` (a child with a session open holds a permit) and
`Counted` (the active count is that of the threads not counted out, so the flag of the job stays while
one is left that may look at it).

`PairingProofs`. `PairingTypeCorrect` is the type invariant, with the bound on every table.
`TrustIsConsensual` rests on `Consent`: behind every request is its asker's agreement, behind
every accepted one that of the device asked, and a command under way belongs to a request of
its device. `TrustGrows` then shows that only the end of a pairing adds to trust, in memory or on
disk, whatever save fails and whoever restarts. `RevocationsStay` needs `Wary` besides: no pairing
under way can end in trust for a peer whose revocation has been reported, because revoking
takes the lock that the pairing holds, and beginning a pairing overrules the revocations it
is about.

`SecureChannelProofs`. `Shaped` holds the limits; `Staged` says what an end has by each stage; `Paired`, whose handshakes a channel is made
with (of one session, by the expected device, and no two responders with each other's, since one has answered first); `Counted` and `Written`, that the counters and the frames are
what was said makes them. From these: a key belongs to one sender, whose frames are numbered, so no nonce is used twice (`NonceOnce`); two ends that have each other's
handshake are of different roles (`TwoRoles`), so a frame that opens was sealed by the partner, in the other direction, and is its
next (`OpenedIsNext`), which is the refinement's only hard step. `PiecesAreThePeers` adds `Told`: the offer and the key a responder
has are those its partner makes, so that a piece which opens was sealed by the partner, for this root and place.
`SealedIsOpenable` compares two counters that are added up at different places, from what was said and from what was heard. `Tallied`: there is one
running total of bytes over what an end says, of which the sender's counter is the value at the last frame it sealed and the partner's the value at the last it
heard. The total grows, so what the limits let the sender seal they let the partner open. `Kept` adds that each frame is still on the network, `Unheard` that whoever has no partner has heard nothing.

`DirectTransferProofs`. `SessionInv` is the type and where each receive thread is (a thread at work has answered "ready", one that waits has
nothing under way). `NamesInv` is a count: the numbered names an item has taken are no more than the attempts that are past it,
so one is free when `destination_path` looks (`ANameIsLeft`), and the name chosen, unless the policy is to overwrite, was nobody's. `TypesKept` and `OthersFilesAreKept` follow, for any number of
attempts at work at the same time. What is published needs more. `Publishing` follows one thread: from the digest on, the
partial file is whole and of the version it was announced as, *or is gone, and then every other thread is past this item* (`Past`); what it has left behind is delivered.
`Resting` says that threads at work together have hashed what the source is now, and `Settled` that after "completed" nothing is left from which a thread
could make another file. The second half of `Publishing` is where the number of threads matters: what one has verified a second can overwrite with the same, or take away,
and then it is past the item; a third could begin the file again, which is `direct_mixed`. So the theorems have two scopes. `WholeInTurn`: any number of attempts and edits at any time, while no two receive
threads are at work together (`[]Alone`). `FilesAreWhole` and `CompletedIsDelivered`: two attempts, overlapping as they like, of a source that
rests while both work (`MaxAttempts <= 2`, `EditsAnyTime = FALSE`, the run's instance but for its sizes).

`JournaledTransferProofs`. `SessionInv` ties the two ends together for any number of receive threads: what is under way and what is in `todo` are, in this order and
without a gap, the ranges missing in the thread's copy of the journal, less the piece it has written and not marked (`InStep`); its count of bytes is the cardinality of what that copy calls
verified (`Accounts`); its answer is one the sender accepts (`Answered`). It gives `PiecesComeInTurn` and `CompletionCounts`, whatever fails, is lost or restarted. It is stated of the
thread's copy and not of the file, because the two differ as soon as two threads save. `NamesInv` counts names as above.
`PublishInv` holds while receive threads follow each other (`[]Alone`; `OneAtATime` shows that `MaxAtWork = 1` gives that): a thread at work has the journal of its snapshot in memory and on disk
(the file says no more than the truth, `Right`), a thread past the digest has a whole partial file, and after "completed" a thread of an earlier attempt
either has the same snapshot or begins with an empty journal, and has nothing under way in either case (`Settled`). From it `FilesAreWhole`, `JournalIsRight` and `CompletedIsDelivered`.
`HistoryInv` adds, under the same condition, that an item behind a thread is complete in the journal it has in memory and on the disk (`Noted`), which no other
thread has touched since, so that whoever records "completed" has journalled all; with `Right` of the journal's items that is `CompletedHistoryIsRight`. It rests on `OpenJournal` not going on
under an entry that says "completed", since it may begin a new journal. The hypothesis
is what the code would have to guarantee and does not: section 4 says how two threads break it.

`RelayProofs`. `StepKinds` sorts the steps into those that only move messages, clients' ends or the clock (`Idles`) and the few that the
invariants are about (`Matters`, where all ways a thread ends are one, `Leaves`). `SessionsCounted`: a thread that starts is not yet among
`Running`, one that ends was. The flag: `OneKeeps` and `FlagTells`, the uniqueness also of children lost to an error, without which lowering
the flag for one could hide another. Pieces and revocation rest on `OneRoute`: at most one connection of a branch is ever accepted as its parent.
While the job lasts the registry holds some route of the branch, the first or one that replaced it (`OpenedIsHeld`), so that a second open is a duplicate; afterwards
no open is valid. A route whose parent was refused stays empty (`UnusedIsEmpty`). So every piece given and every acknowledgement
(`Origins`) is that one route's, whose store replaces nothing and whose revocation the child's thread reads before it serves.
`RelayTypeCorrect` needs the count: that `active` never falls below 0 is that it counts threads.

What stays with the model checker: liveness under fairness and anything about ENABLED (`EveryWaiterAdmitted`, `EveryWorkerStops`, `EveryChildExits`, `ParentSettles`,
`EveryCommandReturns`); what a recursive definition computes for every input; and the three violations, which are behaviours. That a journal never runs ahead of its partial file is not proved because
it is not so (`journal_skips`).

## 7. What is not modelled

* `choose_relay`, `plan_topology` and `RelayConnectionOrchestrator` of `mesh.rs`, which only tests call; `repair.rs`, arithmetic in GF(2^8) without
  state; the validations of `swarm.rs`, which are predicates on single messages, and its key epochs, which no other file uses.
* Of the secure channel: the encodings, the salt and nonce of the envelope, how a cipher or a signature works (they are ideal: what was
  sealed under a key opens under it with the same number and additional data, and nothing else does); `NonceOnce` is about numbered
  frames, whose nonces are their numbers: the envelope of the job's key is sealed under the same send key with a nonce of 12 random bytes
  (secure.rs:328, 420), and that this one differs from those of the frames is a matter of chance that is not modelled; metadata pages, requests and answers, which travel like
  a decision; that a channel's limit of 2^40 bytes is below the 2^50 of a version 2 offer (transfer.rs:82), so that a job between them cannot finish over one channel.
* Of the relay: `parent_connected`, which nobody reads; the locks as such (no thread takes two of them in the other's order); the reading of one
  frame and the wait for its lock apart; dropping the listener, which joins no session.
* Of version 2: metadata pages, snapshot objects and their requests, which the code checks for form only;
  the byte arithmetic of the journal below whole pieces and its limit of a million ranges; files
  whose directories do not exist yet; clearing the history, which opens a completed job again,
  and an entry that cannot be written to its file, which nobody is told of and a restart forgets.
* Hazards without a property: that a rate limit below the size of a chunk is never paid for (section 4), that the table of
  pending pairing requests can fill up with requests nobody answers any more, so that new ones are closed, and that a completed job is not always refused (section 4).
* Rounding of the f64 token count; names, endpoints and dates of peers; the list of history
  entries beyond one job and its cut at 500; the receive directory being another one on
  another accept; the limits of 32 pending offers and 64 connections; history of a version 1
  receiver.
* How long anything takes, except in `PacedSend`: what can time out may time out at any moment.
* Cryptography: a signature is reduced to whose it is, a digest to what it is of. The time
  stamp of a pairing request is left out.
* mDNS, the file system (its failures aside) and the network are external.
* The first child's entry under a parent while others run may read "partial"; the property
  about the parent speaks of "completed" and "cancelled".
* A file that another program creates between the choice of a name and the rename is replaced
  (`Publish`); `OthersFilesKept` is about files that were there before the job.
* The user interface, the explorer (reads directories) and the companion (a separate process
  with no state of its own) have nothing to check here.

## 8. Plan

In this order:

1. The pure algorithms, checked against definitions of what they should compute: the mapping of
   sources to the items of a manifest and back (`collect_files`, `source_for_item`: two folders of the
   same name), the journal's ranges in bytes (`mark_verified`, `missing_ranges`, `split_range`), and repair.
2. `plan_topology` and `choose_relay`: every recipient has one path, no relay is its own child.
3. Settings updates, which are validated after they are made (`lib.rs` 169 to 217).
4. Proofs: an abstract delivery (an item is absent, then whole, of one version, and stays), and both transfers shown to implement it
   within the scopes of section 6; and the safety that the liveness properties rest on, as `SleepingHeadHasWaker` is for the scheduler:
   who can always take the next step when a child, or a command of two devices, waits.
