---------------------- MODULE JournaledTransferProofs ----------------------
(***************************************************************************)
(* Proofs about JournaledTransfer.                                         *)
(*                                                                         *)
(* SessionInv ties the two ends of a session together: what is on its way  *)
(* and what the sender has still to send are, in order, the pieces that    *)
(* the receiver's copy of the journal is without, and its count of bytes   *)
(* is that of the pieces the copy calls verified.  It holds for any number *)
(* of receive threads at work.                                             *)
(* NamesInv counts names: an item takes one for each attempt at most.      *)
(* PublishInv follows a file from the comparison with the digest into the  *)
(* receive directory, the journal and the sender's "completed".  It holds  *)
(* of any number of attempts while their receive threads follow each other *)
(* (Alone): two at work share the partial file, and what one has compared  *)
(* the other may still write to.                                           *)
(* HistoryInv, which holds under the same condition, follows the items     *)
(* that a thread has journalled to its entry in the history, which the     *)
(* next thread of the job replaces before it opens the journal.            *)
(***************************************************************************)
EXTENDS JournaledTransfer, FiniteSetTheorems, TLAPS

(* Where a receive thread can be: before it answers, and while it receives. *)
Early == {"none", "incoming", "pending", "accepted", "open", "reconcile"}
Streaming == {"receive", "save", "choose", "publish", "mark"}
Phases == Early \cup Streaming \cup {"record", "ended"}

(* A piece under way, and a journal as a thread or the disk has it.         *)
WirePieces == {x \in [item : Items, index : Nat, version : 1..MaxVersions] :
                  x.index \in Pieces(x.item)}

Books == [root : 0..MaxVersions, verified : [Items -> SUBSET Nat], complete : SUBSET Items]
IsBook(j) ==
    /\ j \in Books
    /\ \A i \in Items : j.verified[i] \subseteq Pieces(i)

(* What the history can say of the job.                                    *)
Statuses == {"none", "started", "completed", "failed"}

AllPieces == UNION {{i} \X Pieces(i) : i \in Items}

(* The shapes of all variables.                                            *)
Shaped ==
    /\ version \in 1..MaxVersions
    /\ sender \in {"connect", "offered", "streaming", "completed", "failed"}
    /\ attempt \in 0..MaxAttempts
    /\ manifest \in [Attempts -> 0..MaxVersions]
    /\ todo \subseteq AllPieces
    /\ wire \in [Attempts -> Seq(WirePieces)]
    /\ \A a \in Attempts : Len(wire[a]) <= Buffer
    /\ reply \in [Attempts -> {"none", "ready", "rejected", "refused", "completed"}]
    /\ ready \in [Attempts -> [Items -> [offset : Nat, missing : SUBSET Nat]]]
    /\ offer # 0 => offer \in Attempts /\ thread[offer] = "pending"
    /\ thread \in [Attempts -> Phases]
    /\ item \in [Attempts -> 1..ItemCount + 1]
    /\ policy \in [Attempts -> Policies \cup {"none"}]
    /\ memory \in [Attempts -> Books] /\ \A a \in Attempts : IsBook(memory[a])
    /\ IsBook(journal)
    /\ counted \in [Attempts -> 0..Total]
    /\ DOMAIN partial = Items
    /\ \A i \in Items : partial[i] = Absent \/ partial[i] \in [Pieces(i) -> 1..Hole]
    /\ DOMAIN files = Items /\ \A i \in Items : DOMAIN files[i] = Names
    /\ history \in Statuses
    /\ restarts \in 0..MaxRestarts

(* Where the sender is.                                                    *)
SenderTurn ==
    /\ sender = "connect" => attempt < MaxAttempts
    /\ sender \in {"offered", "streaming", "completed"} => attempt \in Attempts
    /\ sender = "offered" => wire[attempt] = <<>> /\ thread[attempt] # "save"
    /\ sender = "streaming" => reply[attempt] \in {"ready", "completed"}
    /\ sender = "completed" => reply[attempt] = "completed"
    /\ sender # "streaming" => todo = {}

(* Where a receive thread is, and what it has by then.                     *)
Turn(a) ==
    /\ thread[a] = "none" <=> a > attempt
    /\ thread[a] \in {"none", "incoming", "pending"} => policy[a] = "none"
    /\ thread[a] \in Early \ {"reconcile"} => item[a] = 1 /\ counted[a] = 0
    /\ thread[a] \in Early => wire[a] = <<>> /\ reply[a] = "none"
    /\ thread[a] \in Streaming =>
          reply[a] = "ready" /\ \A i \in Items : i < item[a] => MissingRanges(memory[a], i) = {}
    /\ thread[a] = "save" => item[a] \in Items /\ Missing(a) # {}
    /\ thread[a] \in {"choose", "publish", "mark"} => item[a] \in Items /\ Missing(a) = {}
    /\ thread[a] = "record" => reply[a] = "completed"
    /\ reply[a] = "completed" => thread[a] \in {"record", "ended"}

(* The bytes of the items before m that the journal calls verified: they   *)
(* are what total_done has counted.                                        *)
Upto(j, m) == UNION {{i} \X BytesOf(i, j.verified[i]) : i \in {h \in Items : h < m}}

Accounts(a) ==
    /\ thread[a] = "reconcile" => counted[a] = Cardinality(Upto(memory[a], item[a]))
    /\ thread[a] \in Streaming => counted[a] = Cardinality(Upto(memory[a], ItemCount + 1))
    /\ reply[a] = "completed" => counted[a] = Total

(* The pieces that are under way, the one that is written but not marked,  *)
(* and those that are missing besides.                                     *)
At(a, n) == <<wire[a][n].item, wire[a][n].index>>
InHand(a) == IF thread[a] = "save" THEN {<<item[a], Min(Missing(a))>>} ELSE {}
Remaining(a) == (UNION {{i} \X MissingRanges(memory[a], i) : i \in Items}) \ InHand(a)
Under(a) == 1..Len(wire[a])

(* An answer that the sender will accept, and that lists all it leaves out. *)
Fits(i, offset, missing) ==
    /\ offset <= Size[i] /\ offset % PieceSize = 0
    /\ missing \subseteq Pieces(i) /\ (missing = {} => offset = Size[i])

Answered(a) ==
    /\ thread[a] = "reconcile" =>
          \A i \in Items : i < item[a] => Fits(i, ready[a][i].offset, MissingRanges(memory[a], i))
    /\ reply[a] = "ready" => \A i \in Items : Fits(i, ready[a][i].offset, ready[a][i].missing)
    /\ sender = "offered" /\ a = attempt /\ thread[a] \in Streaming =>
          \A i \in Items : ready[a][i].missing = MissingRanges(memory[a], i)

(* What is under way is in order, missing, and before all that is not; the *)
(* sender has the rest.                                                    *)
InStep(a) ==
    /\ \A m, n \in Under(a) : m < n => Earlier(At(a, m), At(a, n))
    /\ thread[a] \in Streaming =>
          /\ \A n \in Under(a) : At(a, n) \in Remaining(a)
          /\ \A r \in Remaining(a), n \in Under(a) :
                Earlier(r, At(a, n)) => \E m \in Under(a) : r = At(a, m)
    /\ a = attempt /\ sender = "streaming" =>
          /\ \A t \in todo, n \in Under(a) : Earlier(At(a, n), t)
          /\ thread[a] \in Streaming =>
                /\ todo \subseteq Remaining(a)
                /\ \A r \in Remaining(a) : r \in todo \/ \E m \in Under(a) : r = At(a, m)

Session(a) == Turn(a) /\ Accounts(a) /\ Answered(a) /\ InStep(a)

SessionInv == Shaped /\ SenderTurn /\ \A a \in Attempts : Session(a)

-----------------------------------------------------------------------------
(* The invariant of what is published.  A thread at work has the journal    *)
(* of its snapshot; alone: no other works.                                 *)
Working == {"reconcile", "record"} \cup Streaming
Alone == \A a, b \in AtWork : a = b
(* The item is there as attempt a hashed it, or was there and is skipped;  *)
(* as the journal on the disk says.                                        *)
Delivered(a, i) ==
    \/ \E n \in Names : files[i][n] = Whole(i, manifest[a])
    \/ Taken(i, 0) /\ policy[a] = "skip"
Right(i) ==
    \/ \E n \in Names : files[i][n] = Whole(i, journal.root)
    \/ Taken(i, 0) /\ \E a \in Attempts : policy[a] = "skip"
(* The receiver has said "completed" to the current attempt.               *)
Told == attempt # 0 /\ reply[attempt] = "completed"

(* What a thread has made sure of, where it is.                            *)
Publishing(a) ==
    /\ a <= attempt => manifest[a] \in 1..version
    /\ thread[a] \in Working =>
          /\ journal.root = manifest[a] /\ memory[a].root = manifest[a]
          /\ \A i \in memory[a].complete : Right(i)
          /\ history # "completed"
    /\ thread[a] \in Streaming => \A i \in Items : i < item[a] => Delivered(a, i)
    /\ thread[a] \in {"choose", "publish"} => partial[item[a]] = Whole(item[a], manifest[a])
    /\ thread[a] = "mark" => Delivered(a, item[a])
    /\ thread[a] = "record" => \A i \in Items : Delivered(a, i)

(* After that, an earlier attempt's thread can only publish the same, or    *)
(* has nothing to publish yet and nothing under way.                       *)
Settled ==
    Told =>
      /\ \A i \in Items : Delivered(attempt, i)
      /\ journal.root = manifest[attempt] \/ \A i \in Items : journal.verified[i] = {}
      /\ \A b \in Attempts : b # attempt /\ thread[b] # "ended" =>
            /\ wire[b] = <<>> /\ thread[b] # "save"
            /\ thread[b] \in Working =>
                  manifest[b] = manifest[attempt] \/ \A i \in Items : memory[b].verified[i] = {}

PublishInv ==
    /\ Alone /\ (\A a \in Attempts : Publishing(a)) /\ Settled
    /\ \A i \in journal.complete : Right(i)
    /\ NothingMixed

(* What a thread has journalled, where it is, and what the history says of *)
(* the job.                                                                *)
Noted(a) ==
    /\ thread[a] \in Streaming =>
          \A i \in Items : i < item[a] => i \in memory[a].complete /\ i \in journal.complete
    /\ thread[a] = "record" => Items \subseteq journal.complete

HistoryInv ==
    /\ \A a \in Attempts : Noted(a)
    /\ AlreadyCompleted => Items \subseteq journal.complete
-----------------------------------------------------------------------------
(* Least elements, pieces and bytes.                                       *)

(* A set of numbers has a least one, and Min is it.                        *)
LEMMA MinIsLeast ==
    ASSUME NEW S, S \subseteq Nat, S # {}
    PROVE  Min(S) \in S /\ \A x \in S : Min(S) <= x
<1>1. \E x \in S : \A y \in S : ~(<<y, x>> \in OpToRel(<, Nat))
  BY NatLessThanWellFounded, WFMin
<1>2. PICK x \in S : \A y \in S : ~(<<y, x>> \in OpToRel(<, Nat)) BY <1>1
<1>3. ASSUME NEW y \in S PROVE x <= y
  <2>1. x \in Nat /\ y \in Nat OBVIOUS
  <2>2. ~(y < x) BY <1>2, <2>1 DEF OpToRel
  <2> QED BY <2>1, <2>2
<1> QED BY <1>3 DEF Min

(* A set of pairs of numbers has an earliest one, and First is it.         *)
LEMMA FirstIsEarliest ==
    ASSUME NEW S, S \subseteq Nat \X Nat, S # {}
    PROVE  First(S) \in S /\ \A q \in S : q = First(S) \/ Earlier(First(S), q)
<1> DEFINE Ones == {p[1] : p \in S}
<1>1. Ones \subseteq Nat /\ Ones # {} OBVIOUS
<1>2. Min(Ones) \in Ones /\ \A x \in Ones : Min(Ones) <= x BY <1>1, MinIsLeast
<1>3. PICK p \in S : \A q \in S : p[1] <= q[1] BY <1>2
<1> HIDE DEF Ones
<1> DEFINE Twos == {q[2] : q \in {r \in S : r[1] = p[1]}}
<1>4. Twos \subseteq Nat /\ Twos # {} OBVIOUS
<1>5. Min(Twos) \in Twos /\ \A x \in Twos : Min(Twos) <= x BY <1>4, MinIsLeast
<1>6. PICK f \in S : f[1] = p[1] /\ \A q \in S : q[1] = p[1] => f[2] <= q[2] BY <1>5
<1> HIDE DEF Twos
<1>7. \A q \in S \ {f} : Earlier(f, q)
  <2> SUFFICES ASSUME NEW q \in S \ {f} PROVE Earlier(f, q) OBVIOUS
  <2>1. /\ f = <<f[1], f[2]>> /\ q = <<q[1], q[2]>>
        /\ f[1] \in Nat /\ f[2] \in Nat /\ q[1] \in Nat /\ q[2] \in Nat
    OBVIOUS
  <2>2. f[1] # q[1] \/ f[2] # q[2] BY <2>1
  <2> QED BY <1>3, <1>6, <2>1, <2>2 DEF Earlier
<1>8. First(S) \in S /\ \A q \in S \ {First(S)} : Earlier(First(S), q)
  BY <1>7 DEF First
<1> QED BY <1>8

(* The pieces of a file are numbers, and there is a first one.             *)
LEMMA PiecesAreNumbers ==
    ASSUME NEW i \in Items
    PROVE  Pieces(i) \subseteq Nat /\ 0 \in Pieces(i) /\ Size[i] \in Nat \ {0}
BY JournaledTransferAssumption DEF Pieces

(* An earlier piece ends before a later one begins.                        *)
LEMMA PiecesApart ==
    ASSUME NEW k \in Nat, NEW h \in Nat, k < h
    PROVE  /\ k * PieceSize \in Nat /\ (k + 1) * PieceSize = k * PieceSize + PieceSize
           /\ (k + 1) * PieceSize <= h * PieceSize
<1>1. PieceSize \in Nat BY JournaledTransferAssumption
<1>2. PICK d \in Nat : h = k + 1 + d
  <2>1. h - (k + 1) \in Nat OBVIOUS
  <2> QED BY <2>1
<1>3. (k + 1 + d) * PieceSize = (k + 1) * PieceSize + d * PieceSize BY <1>1
<1>4. d * PieceSize \in Nat /\ k * PieceSize \in Nat /\ (k + 1) * PieceSize \in Nat BY <1>1
<1> QED BY <1>1, <1>2, <1>3, <1>4

(* No byte is in two pieces.                                               *)
LEMMA BytesApart ==
    ASSUME NEW i \in Items, NEW S \in SUBSET Nat, NEW k \in Nat, k \notin S
    PROVE  /\ BytesOf(i, S \cup {k}) = BytesOf(i, S) \cup BytesOf(i, {k})
           /\ BytesOf(i, S) \cap BytesOf(i, {k}) = {}
<1>1. BytesOf(i, S \cup {k}) = BytesOf(i, S) \cup BytesOf(i, {k}) BY DEF BytesOf
<1>2. ASSUME NEW n \in BytesOf(i, S), n \in BytesOf(i, {k}) PROVE FALSE
  <2>1. n \in Int BY PiecesAreNumbers DEF BytesOf
  <2>2. PICK h \in S : h * PieceSize <= n /\ n < (h + 1) * PieceSize BY DEF BytesOf
  <2>3. k * PieceSize <= n /\ n < (k + 1) * PieceSize BY <1>2 DEF BytesOf
  <2>4. CASE h < k
    <3>1. (h + 1) * PieceSize <= k * PieceSize BY <2>4, PiecesApart
    <3> QED BY <2>1, <2>2, <2>3, <3>1, JournaledTransferAssumption
  <2>5. CASE k < h
    <3>1. (k + 1) * PieceSize <= h * PieceSize BY <2>5, PiecesApart
    <3> QED BY <2>1, <2>2, <2>3, <3>1, JournaledTransferAssumption
  <2> QED BY <2>4, <2>5
<1> QED BY <1>1, <1>2

(* A piece has as many bytes as Bytes says.                                *)
LEMMA BytesOfPiece ==
    ASSUME NEW i \in Items, NEW k \in Pieces(i)
    PROVE  /\ IsFiniteSet(BytesOf(i, {k})) /\ Cardinality(BytesOf(i, {k})) = Bytes(i, k)
           /\ Bytes(i, k) \in Nat
<1>1. k \in Nat /\ Size[i] \in Nat \ {0} /\ PieceSize \in Nat \ {0}
  BY PiecesAreNumbers, JournaledTransferAssumption
<1>2. k * PieceSize \in Nat /\ (k + 1) * PieceSize = k * PieceSize + PieceSize
  BY <1>1, PiecesApart, k < k + 1
<1>3. k * PieceSize < Size[i] BY DEF Pieces
<1>b. PICK b \in Nat : b = k * PieceSize BY <1>2
<1>4. Bytes(i, k) = (IF b + PieceSize <= Size[i] THEN PieceSize ELSE Size[i] - b)
  BY <1>2, <1>b DEF Bytes
<1>5. Bytes(i, k) \in Nat \ {0} BY <1>1, <1>3, <1>4, <1>b
<1>6. BytesOf(i, {k}) = b..(b + Bytes(i, k) - 1)
  <2>1. BytesOf(i, {k}) = {n \in 0..Size[i] - 1 : b <= n /\ n < b + PieceSize}
    BY <1>2, <1>b DEF BytesOf
  <2>2. PICK c \in Nat : c = Bytes(i, k) BY <1>5
  <2>3. \A n \in Nat : (n <= Size[i] - 1 /\ b <= n /\ n < b + PieceSize)
                         <=> (b <= n /\ n <= b + c - 1)
    BY <1>1, <1>3, <1>4, <1>b, <2>2
  <2>4. b..(b + c - 1) = {n \in Nat : b <= n /\ n <= b + c - 1} OBVIOUS
  <2>5. BytesOf(i, {k}) = {n \in Nat : n <= Size[i] - 1 /\ b <= n /\ n < b + PieceSize}
    BY <1>1, <2>1
  <2> QED BY <2>2, <2>3, <2>4, <2>5
<1>7. b \in Int /\ b + Bytes(i, k) - 1 \in Int BY <1>5
<1>8. IsFiniteSet(BytesOf(i, {k})) /\ Cardinality(BytesOf(i, {k})) = Bytes(i, k)
  BY SMTT(60), <1>5, <1>6, <1>7, FS_Interval
<1> QED BY <1>5, <1>8

(* All pieces together are the whole file.                                 *)
LEMMA PiecesCover == ASSUME NEW i \in Items PROVE BytesOf(i, Pieces(i)) = 0..Size[i] - 1
<1>1. Size[i] \in Nat \ {0} /\ PieceSize \in Nat \ {0}
  BY PiecesAreNumbers, JournaledTransferAssumption
<1>2. ASSUME NEW n \in 0..Size[i] - 1
      PROVE  \E k \in Pieces(i) : k * PieceSize <= n /\ n < (k + 1) * PieceSize
  <2> DEFINE Ends == {k \in Nat : n < (k + 1) * PieceSize}
  <2>0. n \in Nat BY <1>1
  <2>1. n \in Ends
    <3>1. (n + 1) * PieceSize >= n + 1
      <4>1. PICK d \in Nat : PieceSize = 1 + d
        <5>1. PieceSize - 1 \in Nat /\ PieceSize = 1 + (PieceSize - 1) BY <1>1
        <5> QED BY <5>1
      <4>2. (n + 1) * (1 + d) = (n + 1) + (n + 1) * d BY <2>0
      <4>3. (n + 1) * d \in Nat BY <2>0
      <4> QED BY <2>0, <4>1, <4>2, <4>3
    <3>2. (n + 1) * PieceSize \in Nat BY <1>1, <2>0
    <3> QED BY <2>0, <3>1, <3>2
  <2>2. Ends \subseteq Nat /\ Ends # {} BY <2>1
  <2>3. Min(Ends) \in Ends /\ \A x \in Ends : Min(Ends) <= x BY <2>2, MinIsLeast
  <2>4. PICK k \in Nat : n < (k + 1) * PieceSize /\ \A x \in Ends : k <= x BY <2>3
  <2>5. k * PieceSize <= n
    <3>1. CASE k = 0 BY <1>1, <2>0, <3>1
    <3>2. CASE k # 0
      <4>1. k - 1 \in Nat /\ (k - 1) + 1 = k /\ ~(k <= k - 1) BY <3>2
      <4>2. ~(n < k * PieceSize) BY <2>4, <4>1
      <4>3. k * PieceSize \in Nat BY <1>1
      <4> QED BY <2>0, <4>2, <4>3
    <3> QED BY <3>1, <3>2
  <2>6. k <= k * PieceSize
    <3>1. PICK d \in Nat : PieceSize = 1 + d
      <4>1. PieceSize - 1 \in Nat /\ PieceSize = 1 + (PieceSize - 1) BY <1>1
      <4> QED BY <4>1
    <3>2. k * (1 + d) = k + k * d OBVIOUS
    <3>3. k * d \in Nat OBVIOUS
    <3> QED BY <3>1, <3>2, <3>3
  <2>7. k \in 0..Size[i] /\ k * PieceSize < Size[i]
    <3>1. k * PieceSize \in Nat BY <1>1
    <3> QED BY <1>1, <2>0, <2>5, <2>6, <3>1
  <2> QED BY <2>4, <2>5, <2>7 DEF Pieces
<1> QED BY <1>2 DEF BytesOf

-----------------------------------------------------------------------------
(* Counting the bytes that a journal calls verified.                       *)

AllBytes == UNION {{i} \X (0..Size[i] - 1) : i \in Items}

(* The bytes of a file are finitely many.                                  *)
LEMMA RangeIsFinite == ASSUME NEW i \in Items PROVE IsFiniteSet(0..Size[i] - 1)
<1>1. 0 \in Int /\ Size[i] - 1 \in Int BY PiecesAreNumbers
<1> QED BY <1>1, FS_Interval

(* The bytes of a job are finitely many.                                   *)
LEMMA FinitelyManyBytes == IsFiniteSet(AllBytes) /\ Total \in Nat
<1> DEFINE Rows == {{i} \X (0..Size[i] - 1) : i \in Items}
           row == [i \in Items |-> {i} \X (0..Size[i] - 1)]
<1>1. IsFiniteSet(Items)
  <2>1. ItemCount \in Nat BY JournaledTransferAssumption
  <2> QED BY <2>1, FS_Interval DEF Items
<1>2. row \in Surjection(Items, Rows) BY DEF Surjection
<1>3. IsFiniteSet(Rows) BY <1>1, <1>2, FS_Surjection
<1>4. ASSUME NEW i \in Items PROVE IsFiniteSet({i} \X (0..Size[i] - 1))
  <2>1. IsFiniteSet({i}) BY FS_Singleton
  <2>2. IsFiniteSet(0..Size[i] - 1) BY RangeIsFinite
  <2> QED BY <2>1, <2>2, FS_Product
<1>5. IsFiniteSet(UNION Rows) BY <1>3, <1>4, FS_UNION
<1>6. IsFiniteSet(AllBytes) BY <1>5 DEF AllBytes
<1> QED BY <1>6, FS_CardinalityType DEF AllBytes, Total

(* What is counted is among them.                                          *)
LEMMA CountedIsPart ==
    ASSUME NEW j, NEW m
    PROVE  /\ Upto(j, m) \subseteq AllBytes /\ IsFiniteSet(Upto(j, m))
           /\ Cardinality(Upto(j, m)) \in 0..Total
<1>1. Upto(j, m) \subseteq AllBytes BY DEF Upto, AllBytes, BytesOf
<1>2. IsFiniteSet(Upto(j, m)) /\ Cardinality(Upto(j, m)) <= Cardinality(AllBytes)
  BY <1>1, FinitelyManyBytes, FS_Subset
<1>3. Cardinality(Upto(j, m)) \in Nat BY <1>2, FS_CardinalityType
<1>4. Total = Cardinality(AllBytes) BY DEF Total, AllBytes
<1> QED BY <1>1, <1>2, <1>3, <1>4, FinitelyManyBytes

(* The bytes of some pieces of one item, as bytes of the job.              *)
LEMMA RowCount ==
    ASSUME NEW i \in Items, NEW S
    PROVE  /\ IsFiniteSet(BytesOf(i, S)) /\ IsFiniteSet({i} \X BytesOf(i, S))
           /\ Cardinality({i} \X BytesOf(i, S)) = Cardinality(BytesOf(i, S))
           /\ Cardinality(BytesOf(i, S)) \in Nat
<1>1. IsFiniteSet(BytesOf(i, S))
  <2>1. IsFiniteSet(0..Size[i] - 1) BY RangeIsFinite
  <2> QED BY <2>1, FS_Subset DEF BytesOf
<1>2. IsFiniteSet({i}) /\ Cardinality({i}) = 1 BY FS_Singleton
<1>3. Cardinality(BytesOf(i, S)) \in Nat BY <1>1, FS_CardinalityType
<1>4. /\ IsFiniteSet({i} \X BytesOf(i, S))
      /\ Cardinality({i} \X BytesOf(i, S)) = 1 * Cardinality(BytesOf(i, S))
  BY <1>1, <1>2, FS_Product
<1> QED BY <1>1, <1>3, <1>4

(* Two sets without a common byte add up.                                  *)
LEMMA CountsAdd ==
    ASSUME NEW S, NEW T, IsFiniteSet(S), IsFiniteSet(T), S \cap T = {}
    PROVE  Cardinality(S \cup T) = Cardinality(S) + Cardinality(T)
<1>1. Cardinality(S \cup T) = Cardinality(S) + Cardinality(T) - Cardinality(S \cap T)
  BY FS_Union
<1>2. Cardinality(S \cap T) = 0 BY FS_EmptySet
<1>3. Cardinality(S) \in Nat /\ Cardinality(T) \in Nat BY FS_CardinalityType
<1> QED BY <1>1, <1>2, <1>3

(* Before the first item nothing is counted.                               *)
LEMMA CountFromNothing == ASSUME NEW j PROVE Cardinality(Upto(j, 1)) = 0
<1>1. \A h \in Items : ~(h < 1) BY JournaledTransferAssumption DEF Items
<1>2. Upto(j, 1) = {} BY <1>1 DEF Upto
<1> QED BY <1>2, FS_EmptySet

(* One item more adds what verified_bytes says of it.                      *)
LEMMA CountNextItem ==
    ASSUME NEW j, NEW i \in Items
    PROVE  Cardinality(Upto(j, i + 1)) = Cardinality(Upto(j, i)) + VerifiedBytes(j, i)
<1>1. \A h \in Items : h < i + 1 <=> h < i \/ h = i
  BY JournaledTransferAssumption DEF Items
<1>2. ~(i < i) BY JournaledTransferAssumption DEF Items
<1>3. Upto(j, i + 1) = Upto(j, i) \cup ({i} \X BytesOf(i, j.verified[i]))
  BY <1>1 DEF Upto
<1>4. Upto(j, i) \cap ({i} \X BytesOf(i, j.verified[i])) = {} BY <1>2 DEF Upto
<1>5. IsFiniteSet(Upto(j, i)) /\ IsFiniteSet({i} \X BytesOf(i, j.verified[i]))
  BY CountedIsPart, RowCount
<1>6. Cardinality(Upto(j, i + 1))
         = Cardinality(Upto(j, i)) + Cardinality({i} \X BytesOf(i, j.verified[i]))
  BY <1>3, <1>4, <1>5, CountsAdd
<1> QED BY <1>6, RowCount DEF VerifiedBytes

(* Only what is verified counts.                                           *)
LEMMA CountDependsOnVerified ==
    ASSUME NEW j, NEW h, NEW m, \A i \in Items : i < m => j.verified[i] = h.verified[i]
    PROVE  Upto(j, m) = Upto(h, m)
BY DEF Upto

(* A piece that mark_verified adds counts with its bytes.                  *)
LEMMA CountNextPiece ==
    ASSUME NEW j, IsBook(j), NEW i \in Items, NEW k \in MissingRanges(j, i)
    PROVE  Cardinality(Upto(MarkVerified(j, i, k), ItemCount + 1))
              = Cardinality(Upto(j, ItemCount + 1)) + Bytes(i, k)
<1> DEFINE new == MarkVerified(j, i, k)
<1>1. k \in Nat /\ k \in Pieces(i) /\ k \notin j.verified[i] /\ j.verified[i] \subseteq Nat
  BY PiecesAreNumbers DEF MissingRanges, IsBook, Books
<1>2. new.verified[i] = j.verified[i] \cup {k}
      /\ \A h \in Items : h # i => new.verified[h] = j.verified[h]
  BY DEF MarkVerified, IsBook, Books
<1> HIDE DEF new
<1>3. /\ BytesOf(i, new.verified[i]) = BytesOf(i, j.verified[i]) \cup BytesOf(i, {k})
      /\ BytesOf(i, j.verified[i]) \cap BytesOf(i, {k}) = {}
  <2>1. j.verified[i] \in SUBSET Nat BY <1>1
  <2> DEFINE had == j.verified[i]
  <2>2. had \in SUBSET Nat /\ k \notin had /\ k \in Nat BY <1>1, <2>1
  <2>3. new.verified[i] = had \cup {k} BY <1>2
  <2> HIDE DEF had
  <2>4. /\ BytesOf(i, had \cup {k}) = BytesOf(i, had) \cup BytesOf(i, {k})
        /\ BytesOf(i, had) \cap BytesOf(i, {k}) = {}
    BY <2>2, BytesApart
  <2> QED BY <2>3, <2>4 DEF had
<1>4. \A h \in Items : h < ItemCount + 1 BY JournaledTransferAssumption DEF Items
<1>5. Upto(new, ItemCount + 1) = Upto(j, ItemCount + 1) \cup ({i} \X BytesOf(i, {k}))
  <2>1. \A x, l : x \in Upto(l, ItemCount + 1) <=>
                    \E h \in Items : x \in {h} \X BytesOf(h, l.verified[h])
    BY <1>4 DEF Upto
  <2>2. \A h \in Items : h # i => BytesOf(h, new.verified[h]) = BytesOf(h, j.verified[h])
    BY <1>2
  <2>3. {i} \X BytesOf(i, new.verified[i])
          = ({i} \X BytesOf(i, j.verified[i])) \cup ({i} \X BytesOf(i, {k}))
    BY <1>3
  <2>4. ASSUME NEW x PROVE x \in Upto(new, ItemCount + 1) <=>
                             x \in Upto(j, ItemCount + 1) \cup ({i} \X BytesOf(i, {k}))
    BY ZenonT(60), <2>1, <2>2, <2>3
  <2> QED BY <2>4
<1>6. Upto(j, ItemCount + 1) \cap ({i} \X BytesOf(i, {k})) = {}
  BY <1>3 DEF Upto
<1>7. Cardinality({i} \X BytesOf(i, {k})) = Bytes(i, k) /\ IsFiniteSet({i} \X BytesOf(i, {k}))
  BY <1>1, BytesOfPiece, RowCount
<1>8. Cardinality(Upto(new, ItemCount + 1)) = Cardinality(Upto(j, ItemCount + 1)) + Bytes(i, k)
  BY <1>5, <1>6, <1>7, CountedIsPart, CountsAdd
<1> QED BY <1>8 DEF new

(* When nothing is missing, all has been counted.                          *)
LEMMA CountOfAll ==
    ASSUME NEW j, IsBook(j), \A i \in Items : MissingRanges(j, i) = {}
    PROVE  Cardinality(Upto(j, ItemCount + 1)) = Total
<1>1. \A h \in Items : h < ItemCount + 1 BY JournaledTransferAssumption DEF Items
<1>2. \A i \in Items : j.verified[i] = Pieces(i) BY DEF MissingRanges, IsBook, Books
<1>3. \A i \in Items : BytesOf(i, j.verified[i]) = 0..Size[i] - 1 BY <1>2, PiecesCover
<1>4. Upto(j, ItemCount + 1) = AllBytes BY <1>1, <1>3 DEF Upto, AllBytes
<1> QED BY <1>4 DEF Total, AllBytes

-----------------------------------------------------------------------------
(* The session of an attempt, step by step.                                *)

(* All that an attempt has of its own.                                     *)
Same(b) ==
    /\ thread'[b] = thread[b] /\ item'[b] = item[b] /\ memory'[b] = memory[b]
    /\ counted'[b] = counted[b] /\ wire'[b] = wire[b] /\ reply'[b] = reply[b]
    /\ ready'[b] = ready[b] /\ policy'[b] = policy[b]

(* The numbers that the model's constants are.                             *)
LEMMA Numbers ==
    /\ ItemCount \in Nat \ {0} /\ PieceSize \in Nat \ {0} /\ MaxAttempts \in Nat \ {0}
    /\ MaxVersions \in Nat \ {0} /\ MaxAtWork \in Nat \ {0} /\ Buffer \in Nat \ {0}
    /\ MaxRestarts \in Nat
    /\ \A i : i \in Items <=> i \in Nat /\ 1 <= i /\ i <= ItemCount
    /\ \A a : a \in Attempts <=> a \in Nat /\ 1 <= a /\ a <= MaxAttempts
BY JournaledTransferAssumption DEF Items, Attempts

(* What a step leaves alone stays in order.                                *)
LEMMA SameKeeps ==
    ASSUME NEW b \in Attempts, Same(b), UNCHANGED <<attempt, sender, todo>>, Session(b)
    PROVE  Session(b)'
<1>1. Turn(b)' BY DEF Same, Session, Turn, MissingRanges, Missing
<1>2. Accounts(b)' BY DEF Same, Session, Accounts, Upto
<1>3. Answered(b)' BY DEF Same, Session, Answered, MissingRanges
<1>4. InStep(b)'
  <2>1. Remaining(b)' = Remaining(b)
    BY DEF Same, Remaining, InHand, Missing, MissingRanges
  <2>2. Under(b)' = Under(b) /\ \A n : At(b, n)' = At(b, n) BY DEF Same, Under, At
  <2>3. thread'[b] = thread[b] BY DEF Same
  <2> QED BY <2>1, <2>2, <2>3 DEF Session, InStep
<1> QED BY <1>1, <1>2, <1>3, <1>4 DEF Session

(* A step of one receive thread is about its own attempt.                  *)
LEMMA ThreadFrame ==
    ASSUME SessionInv, NEW a \in Attempts, UNCHANGED <<attempt, sender, todo>>,
           \A b \in Attempts : b # a => Same(b), Shaped', Session(a)',
           wire[a] = <<>> => wire'[a] = <<>> /\ (thread'[a] = "save" => thread[a] = "save"),
           \/ reply'[a] = reply[a] \/ reply[a] = "none"
           \/ reply[a] = "ready" /\ reply'[a] = "completed"
    PROVE  SessionInv'
<1>1. \A b \in Attempts : Session(b)' BY SameKeeps DEF SessionInv
<1>2. SenderTurn' BY DEF SessionInv, SenderTurn, Same
<1> QED BY <1>1, <1>2 DEF SessionInv

(* What is left of the pieces under way is in order too.                   *)
LEMMA WireShrinks ==
    ASSUME Shaped, NEW a \in Attempts, UNCHANGED <<attempt, sender, todo>>, Session(a),
           wire'[a] = wire[a] \/ wire'[a] = <<>> \/ (wire[a] # <<>> /\ wire'[a] = Tail(wire[a]))
    PROVE  /\ \A m, n \in Under(a)' : m < n => Earlier(At(a, m)', At(a, n)')
           /\ a = attempt /\ sender = "streaming" =>
                 \A t \in todo, n \in Under(a)' : Earlier(At(a, n)', t)
<1>0. wire[a] \in Seq(WirePieces) BY DEF Shaped
<1>1. CASE wire'[a] = wire[a]
  <2>1. Under(a)' = Under(a) /\ \A n : At(a, n)' = At(a, n) BY <1>1 DEF Under, At
  <2> QED BY <2>1 DEF Session, InStep
<1>2. CASE wire'[a] = <<>>
  <2>1. Under(a)' = {} BY <1>2 DEF Under
  <2> QED BY <2>1
<1>3. CASE wire[a] # <<>> /\ wire'[a] = Tail(wire[a])
  <2>1. \A n \in Under(a)' : n \in Nat /\ n + 1 \in Under(a) /\ At(a, n)' = At(a, n + 1)
    BY <1>0, <1>3 DEF Under, At
  <2>2. \A m, n \in Under(a)' : m < n => m + 1 < n + 1 BY <2>1
  <2> QED BY <2>1, <2>2 DEF Session, InStep
<1> QED BY <1>1, <1>2, <1>3

(* A thread that has ended keeps what it has answered.                     *)
LEMMA EndedKeeps ==
    ASSUME Shaped, NEW a \in Attempts, UNCHANGED <<attempt, sender, todo>>, Session(a),
           thread[a] # "none", thread'[a] = "ended", counted'[a] = counted[a],
           ready'[a] = ready[a],
           wire'[a] = wire[a] \/ wire'[a] = <<>> \/ (wire[a] # <<>> /\ wire'[a] = Tail(wire[a])),
           reply'[a] = reply[a] \/ (reply[a] = "none" /\ reply'[a] \in {"refused", "rejected"})
    PROVE  Session(a)'
<1> USE DEF Early, Streaming
<1>1. Turn(a)' BY DEF Session, Turn
<1>2. Accounts(a)' BY DEF Session, Accounts
<1>3. Answered(a)' BY DEF Session, Answered
<1>4. InStep(a)' BY WireShrinks DEF InStep
<1> QED BY <1>1, <1>2, <1>3, <1>4 DEF Session

(* The beginning.                                                          *)
LEMMA InitSession == Init => SessionInv
<1> SUFFICES ASSUME Init PROVE SessionInv OBVIOUS
<1> USE DEF Early, Streaming, Phases
<1>1. Shaped
  <2>1. IsBook(NewJournal(0)) BY Numbers DEF IsBook, Books, NewJournal
  <2>2. Unasked \in [Items -> [offset : Nat, missing : SUBSET Nat]] BY DEF Unasked
  <2>3. Total \in Nat BY FinitelyManyBytes
  <2>4. <<>> \in Seq(WirePieces) /\ Len(<<>>) = 0 OBVIOUS
  <2>5. 1 \in 1..ItemCount + 1 BY Numbers
  <2>6. DOMAIN files = Items /\ \A i \in Items : DOMAIN files[i] = Names
    <3>1. PICK taken : files = [i \in Items |-> [n \in Names |->
                          IF i \in taken /\ n = 0 THEN <<Someone>> ELSE Absent]]
      BY DEF Init
    <3> QED BY <3>1
  <2>7. /\ wire \in [Attempts -> Seq(WirePieces)] /\ \A a \in Attempts : Len(wire[a]) <= Buffer
        /\ ready \in [Attempts -> [Items -> [offset : Nat, missing : SUBSET Nat]]]
    BY <2>2, <2>4, Numbers DEF Init
  <2>8. /\ version \in 1..MaxVersions /\ sender = "connect" /\ attempt \in 0..MaxAttempts
        /\ manifest \in [Attempts -> 0..MaxVersions] /\ todo = {} /\ offer = 0
        /\ history \in Statuses /\ restarts \in 0..MaxRestarts /\ journal = NewJournal(0)
        /\ counted \in [Attempts -> 0..Total]
    <3>1. 0 \in 0..Total /\ 1 \in 1..MaxVersions /\ 0 \in 0..MaxAttempts
          /\ 0 \in 0..MaxVersions /\ 0 \in 0..MaxRestarts
      BY <2>3, Numbers
    <3> QED BY <3>1 DEF Init, Statuses
  <2>9. /\ reply \in [Attempts -> {"none", "ready", "rejected", "refused", "completed"}]
        /\ thread \in [Attempts -> Phases] /\ item \in [Attempts -> 1..ItemCount + 1]
        /\ policy \in [Attempts -> Policies \cup {"none"}]
        /\ \A a \in Attempts : memory[a] = NewJournal(0)
        /\ DOMAIN partial = Items /\ \A i \in Items : partial[i] = Absent
    BY <2>5 DEF Init
  <2>10. memory \in [Attempts -> Books] BY <2>1 DEF IsBook, Init
  <2> QED BY <2>1, <2>6, <2>7, <2>8, <2>9, <2>10 DEF Shaped
<1>2. SenderTurn BY Numbers DEF Init, SenderTurn
<1>3. ASSUME NEW a \in Attempts PROVE Session(a)
  <2>1. thread[a] = "none" /\ a > attempt /\ wire[a] = <<>> /\ sender = "connect"
        /\ reply[a] = "none" /\ policy[a] = "none" /\ item[a] = 1 /\ counted[a] = 0
    BY <1>3, Numbers DEF Init
  <2>2. Under(a) = {} BY <2>1 DEF Under
  <2> QED BY <2>1, <2>2 DEF Session, Turn, Accounts, Answered, InStep
<1> QED BY <1>1, <1>2, <1>3 DEF SessionInv

-----------------------------------------------------------------------------
(* The steps of the sender.                                                *)

(* An attempt that the sender is not, or no longer, busy with.             *)
LEMMA LeftAlone ==
    ASSUME NEW b \in Attempts, Session(b), b > attempt <=> b > attempt',
           ~(b = attempt' /\ sender' \in {"offered", "streaming"}),
           thread'[b] = thread[b], item'[b] = item[b], memory'[b] = memory[b],
           counted'[b] = counted[b], reply'[b] = reply[b], ready'[b] = ready[b],
           policy'[b] = policy[b], wire'[b] = wire[b] \/ wire'[b] = <<>>
    PROVE  Session(b)'
<1>1. Turn(b)' BY DEF Session, Turn, MissingRanges, Missing
<1>2. Accounts(b)' BY DEF Session, Accounts, Upto
<1>3. Answered(b)' BY DEF Session, Answered, MissingRanges
<1>4. InStep(b)'
  <2>1. Remaining(b)' = Remaining(b) BY DEF Remaining, InHand, Missing, MissingRanges
  <2>2. CASE wire'[b] = wire[b]
    <3>1. Under(b)' = Under(b) /\ \A n : At(b, n)' = At(b, n) BY <2>2 DEF Under, At
    <3> QED BY <2>1, <3>1 DEF Session, InStep
  <2>3. CASE wire'[b] = <<>>
    <3>1. Under(b)' = {} BY <2>3 DEF Under
    <3> QED BY <3>1 DEF InStep
  <2> QED BY <2>2, <2>3
<1> QED BY <1>1, <1>2, <1>3, <1>4 DEF Session

(* A new attempt, whose thread has only just begun.                        *)
LEMMA ConnectStep == SessionInv /\ Connect => SessionInv'
<1> SUFFICES ASSUME SessionInv, Connect PROVE SessionInv' OBVIOUS
<1> USE DEF Early, Streaming, Phases
<1>1. PICK a \in Attempts : a = attempt + 1 /\ attempt \in Nat
  <2>1. attempt \in Nat /\ attempt < MaxAttempts
    BY Numbers DEF SessionInv, Shaped, SenderTurn, Connect
  <2>2. attempt + 1 \in Attempts BY <2>1, Numbers
  <2> QED BY <2>1, <2>2
<1>2. /\ attempt' = a /\ manifest' = [manifest EXCEPT ![a] = version]
      /\ thread' = [thread EXCEPT ![a] = "incoming"] /\ sender' = "offered" /\ todo' = {}
      /\ UNCHANGED <<version, wire, reply, ready, offer, item, policy, dest, memory, counted,
                     journal, partial, files, history, restarts>>
  BY <1>1 DEF Connect, TakeSnapshot, answerVars, diskVars
<1>3. /\ thread[a] = "none" /\ policy[a] = "none" /\ item[a] = 1 /\ counted[a] = 0
      /\ wire[a] = <<>> /\ reply[a] = "none"
  BY <1>1 DEF SessionInv, Session, Turn
<1>4. thread'[a] = "incoming" /\ \A b \in Attempts : b # a => thread'[b] = thread[b]
  BY <1>2 DEF SessionInv, Shaped
<1>5. Shaped'
  <2>1. /\ manifest' \in [Attempts -> 0..MaxVersions] /\ thread' \in [Attempts -> Phases]
        /\ attempt' \in 0..MaxAttempts /\ todo' \subseteq AllPieces
    BY SMTT(60), <1>1, <1>2, Numbers DEF SessionInv, Shaped
  <2>2. offer' # 0 => offer' \in Attempts /\ thread'[offer'] = "pending"
    BY <1>2, <1>3, <1>4 DEF SessionInv, Shaped
  <2> QED BY <1>2, <2>1, <2>2 DEF SessionInv, Shaped, IsBook
<1>6. SenderTurn' BY <1>1, <1>2, <1>3, <1>4 DEF SenderTurn
<1>7. ASSUME NEW b \in Attempts, b # a PROVE Session(b)'
  <2>1. b > attempt <=> b > attempt' BY <1>1, <1>2, <1>7, Numbers
  <2> QED BY <1>2, <1>4, <1>7, <2>1, LeftAlone DEF SessionInv
<1>8. Session(a)'
  <2>1. Under(a)' = {} BY <1>2, <1>3 DEF Under
  <2>2. Turn(a)' BY <1>1, <1>2, <1>3, <1>4 DEF Turn
  <2>3. Accounts(a)' /\ Answered(a)' BY <1>2, <1>3, <1>4 DEF Accounts, Answered
  <2>4. InStep(a)' BY <1>2, <1>4, <2>1 DEF InStep
  <2> QED BY <2>2, <2>3, <2>4 DEF Session
<1> QED BY <1>5, <1>6, <1>7, <1>8 DEF SessionInv

(* The sender gives up, tries again or is done.                            *)
LEMMA SenderStops ==
    ASSUME SessionInv, SnapshotStale \/ ReadAnswer \/ Break
    PROVE  SessionInv'
<1>1. /\ sender' \in {"connect", "failed", "completed"} /\ todo' = {}
      /\ sender' = "connect" => attempt < MaxAttempts
      /\ sender' = "completed" => sender = "streaming" /\ reply[attempt] = "completed"
      /\ version' \in {version, version + 1} /\ (version' = version \/ version < MaxVersions)
      /\ UNCHANGED <<attempt, manifest, answerVars, offer, threadVars, diskVars, restarts>>
      /\ wire' = wire \/ wire' = [wire EXCEPT ![attempt] = <<>>]
  BY DEF SnapshotStale, ReadAnswer, Break, SessionInv, SenderTurn
<1>2. UNCHANGED <<attempt, manifest, reply, ready, offer, thread, item, policy, dest, memory,
                  counted, journal, partial, files, history, restarts>>
  BY <1>1 DEF answerVars, threadVars, diskVars
<1>3. \A b \in Attempts : wire'[b] = wire[b] \/ wire'[b] = <<>>
  BY <1>1 DEF SessionInv, Shaped
<1>4. Shaped'
  <2>1. wire' \in [Attempts -> Seq(WirePieces)] /\ \A a \in Attempts : Len(wire'[a]) <= Buffer
    <3>1. <<>> \in Seq(WirePieces) /\ Len(<<>>) = 0 OBVIOUS
    <3>2. wire' \in [Attempts -> Seq(WirePieces)] BY <1>1, <3>1 DEF SessionInv, Shaped
    <3> QED BY <1>3, <3>1, <3>2, Numbers DEF SessionInv, Shaped
  <2>2. version' \in 1..MaxVersions BY <1>1, Numbers DEF SessionInv, Shaped
  <2> QED BY <1>1, <1>2, <2>1, <2>2 DEF SessionInv, Shaped, IsBook
<1>5. SenderTurn' BY <1>1, <1>2 DEF SessionInv, SenderTurn
<1>6. ASSUME NEW b \in Attempts PROVE Session(b)'
  BY <1>1, <1>2, <1>3, LeftAlone DEF SessionInv
<1> QED BY <1>4, <1>5, <1>6 DEF SessionInv

(* What the sender makes of a fitting answer is what was listed.           *)
LEMMA RequestedIsMissing ==
    ASSUME NEW i \in Items, Fits(i, ready[attempt][i].offset, ready[attempt][i].missing)
    PROVE  Requested(i) = ready[attempt][i].missing /\ Requested(i) \subseteq Pieces(i)
<1>1. CASE ready[attempt][i].missing # {} BY <1>1 DEF Requested, Fits
<1>2. CASE ready[attempt][i].missing = {}
  <2>1. ready[attempt][i].offset = Size[i] BY <1>2 DEF Fits
  <2>2. \A k \in Pieces(i) : ~(k * PieceSize >= Size[i])
    BY PiecesAreNumbers, Numbers DEF Pieces
  <2> QED BY <1>2, <2>1, <2>2 DEF Requested
<1> QED BY <1>1, <1>2

(* What the sender starts with is what the receiver is without.            *)
LEMMA StartStreamingStep == SessionInv /\ StartStreaming => SessionInv'
<1> SUFFICES ASSUME SessionInv, StartStreaming PROVE SessionInv' OBVIOUS
<1> USE DEF Early, Streaming
<1>1. PICK a \in Attempts : a = attempt /\ wire[a] = <<>> /\ thread[a] # "save"
  BY DEF SessionInv, SenderTurn, StartStreaming
<1>2. /\ sender = "offered" /\ reply[a] = "ready" /\ sender' \in {"streaming", "failed"}
      /\ UNCHANGED <<version, attempt, manifest, wire, reply, ready, offer, thread, item,
                     policy, dest, memory, counted, journal, partial, files, history, restarts>>
  BY <1>1 DEF StartStreaming, answerVars, threadVars, diskVars
<1>3. \A i \in Items : Requested(i) = ready[a][i].missing /\ Requested(i) \subseteq Pieces(i)
  BY <1>1, <1>2, RequestedIsMissing DEF SessionInv, Session, Answered
<1>4. todo' = {} \/ (sender' = "streaming" /\ todo' = UNION {{i} \X Requested(i) : i \in Items})
  BY DEF StartStreaming, SessionInv, SenderTurn
<1>5. todo' \subseteq AllPieces BY <1>3, <1>4 DEF AllPieces
<1>6. Shaped' BY <1>2, <1>5 DEF SessionInv, Shaped, IsBook
<1>7. SenderTurn'
  <2>1. sender' = "failed" => todo' = {} BY DEF StartStreaming, SessionInv, SenderTurn
  <2> QED BY <1>1, <1>2, <2>1 DEF SenderTurn
<1>8. ASSUME NEW b \in Attempts, b # a \/ sender' = "failed" PROVE Session(b)'
  BY <1>1, <1>2, <1>8, LeftAlone DEF SessionInv
<1>9. ASSUME sender' = "streaming" PROVE Session(a)'
  <2>1. Turn(a)' BY <1>2 DEF SessionInv, Session, Turn, Missing, MissingRanges
  <2>2. Accounts(a)'
    <3>1. Accounts(a) BY DEF SessionInv, Session
    <3>2. UNCHANGED <<thread, counted, memory, item, reply>> BY <1>2
    <3> QED BY <3>1, <3>2 DEF Accounts, Upto
  <2>3. Answered(a)' BY <1>2, <1>9 DEF SessionInv, Session, Answered, MissingRanges
  <2>4. Under(a)' = {} BY <1>1, <1>2 DEF Under
  <2>5. ASSUME thread[a] \in Streaming PROVE todo' = Remaining(a)'
    <3>1. \A i \in Items : Requested(i) = MissingRanges(memory[a], i)
      BY <1>1, <1>2, <1>3, <2>5 DEF SessionInv, Session, Answered
    <3>2. Remaining(a)' = UNION {{i} \X MissingRanges(memory[a], i) : i \in Items}
      BY <1>1, <1>2 DEF Remaining, InHand, MissingRanges
    <3>3. todo' = UNION {{i} \X Requested(i) : i \in Items}
      BY <1>9 DEF StartStreaming
    <3> QED BY <3>1, <3>2, <3>3
  <2>6. InStep(a)' BY <1>2, <2>4, <2>5 DEF InStep
  <2> QED BY <2>1, <2>2, <2>3, <2>6 DEF Session
<1> QED BY <1>2, <1>6, <1>7, <1>8, <1>9 DEF SessionInv

(* The earliest piece follows all that are under way.                      *)
LEMMA SendPieceStep == SessionInv /\ SendPiece => SessionInv'
<1> SUFFICES ASSUME SessionInv, SendPiece PROVE SessionInv' OBVIOUS
<1> USE DEF Early, Streaming
<1>0. attempt \in Attempts BY DEF SessionInv, SenderTurn, SendPiece
<1>1. PICK a \in Attempts : a = attempt BY <1>0
<1>2. todo \subseteq Nat \X Nat /\ todo # {}
  <2>1. AllPieces \subseteq Nat \X Nat BY Numbers, PiecesAreNumbers DEF AllPieces
  <2> QED BY <2>1 DEF SendPiece, SessionInv, Shaped
<1>3. First(todo) \in todo /\ \A q \in todo : q = First(todo) \/ Earlier(First(todo), q)
  BY <1>2, FirstIsEarliest
<1>4. PICK p \in todo : p = First(todo) /\ \A q \in todo : q = p \/ Earlier(p, q) BY <1>3
<1>i. PICK i \in Items : \E k \in Pieces(i) : p = <<i, k>>
  BY <1>4 DEF SessionInv, Shaped, AllPieces
<1>5. PICK k \in Pieces(i) : p = <<i, k>> BY <1>i
<1> DEFINE x == [item |-> i, index |-> k, version |-> version]
<1>6. /\ sender = "streaming" /\ Len(wire[a]) < Buffer /\ todo' = todo \ {p}
      /\ wire' = [wire EXCEPT ![a] = Append(@, x)]
      /\ UNCHANGED <<version, sender, attempt, manifest, reply, ready, offer, thread, item,
                     policy, dest, memory, counted, journal, partial, files, history, restarts>>
  BY <1>1, <1>4, <1>5 DEF SendPiece, answerVars, threadVars, diskVars
<1>7. x \in WirePieces BY PiecesAreNumbers DEF WirePieces, SessionInv, Shaped
<1> HIDE DEF x
<1>8. wire[a] \in Seq(WirePieces) /\ wire'[a] = Append(wire[a], x)
      /\ \A b \in Attempts : b # a => wire'[b] = wire[b]
  BY <1>6 DEF SessionInv, Shaped
<1>l. PICK l \in Nat : l = Len(wire[a]) BY <1>8
<1>9. /\ Len(wire'[a]) = l + 1 /\ wire'[a][l + 1] = x
      /\ \A n \in 1..l : wire'[a][n] = wire[a][n]
  BY <1>7, <1>8, <1>l
<1>10. Shaped'
  <2>1. wire' \in [Attempts -> Seq(WirePieces)] BY <1>6, <1>7, <1>8 DEF SessionInv, Shaped
  <2>2. \A b \in Attempts : Len(wire'[b]) <= Buffer
    BY <1>6, <1>8, <1>9, <1>l, Numbers DEF SessionInv, Shaped
  <2> QED BY <1>6, <2>1, <2>2 DEF SessionInv, Shaped, IsBook
<1>11. SenderTurn' BY <1>6 DEF SessionInv, SenderTurn
<1>12. ASSUME NEW b \in Attempts, b # a PROVE Session(b)'
  BY <1>1, <1>6, <1>8, <1>12, LeftAlone DEF SessionInv
<1>13. Session(a)'
  <2>1. Turn(a)'
    <3>1. reply[a] # "none" BY <1>1, <1>6 DEF SessionInv, SenderTurn
    <3> QED BY <1>6, <3>1 DEF SessionInv, Session, Turn, Missing, MissingRanges
  <2>0. UNCHANGED <<thread, item, memory, counted, reply>> BY <1>6
  <2>2. Accounts(a)'
    <3>1. Accounts(a) BY DEF SessionInv, Session
    <3>2. \A m : Upto(memory[a], m)' = Upto(memory[a], m) BY <2>0 DEF Upto
    <3> QED BY <2>0, <3>1, <3>2 DEF Accounts, Upto
  <2>3. Answered(a)' BY <1>6 DEF SessionInv, Session, Answered, MissingRanges
  <2>4. /\ Under(a)' = Under(a) \cup {l + 1} /\ At(a, l + 1)' = p
        /\ \A n \in Under(a) : At(a, n)' = At(a, n) /\ n \in Nat /\ n < l + 1
    <3>1. Under(a) = 1..l /\ Under(a)' = 1..(l + 1) BY <1>9, <1>l DEF Under
    <3>2. At(a, l + 1)' = <<x.item, x.index>> BY <1>9 DEF At
    <3>3. x.item = i /\ x.index = k BY DEF x
    <3>4. 1..(l + 1) = 1..l \cup {l + 1} OBVIOUS
    <3> QED BY <1>5, <1>9, <3>1, <3>2, <3>3, <3>4 DEF At
  <2>5. \A n \in Under(a), t \in todo : Earlier(At(a, n), t)
    BY <1>1, <1>6 DEF SessionInv, Session, InStep
  <2>6. \A m, n \in Under(a)' : m < n => Earlier(At(a, m)', At(a, n)')
    <3>1. \A n \in Under(a) : Earlier(At(a, n)', At(a, l + 1)') BY <1>4, <2>4, <2>5
    <3>2. \A n \in Under(a) : ~(l + 1 < n) BY <2>4
    <3>3. \A m, n \in Under(a) : m < n => Earlier(At(a, m), At(a, n))
      BY DEF SessionInv, Session, InStep
    <3> QED BY <2>4, <3>1, <3>2, <3>3
  <2>7. \A n \in Under(a)', t \in todo' : Earlier(At(a, n)', t)
    BY <1>4, <1>6, <2>4, <2>5
  <2>8. ASSUME thread[a] \in Streaming
        PROVE  /\ \A n \in Under(a)' : At(a, n)' \in Remaining(a)'
               /\ \A r \in Remaining(a)', n \in Under(a)' :
                     Earlier(r, At(a, n)') => \E m \in Under(a)' : r = At(a, m)'
               /\ todo' \subseteq Remaining(a)'
               /\ \A r \in Remaining(a)' : r \in todo' \/ \E m \in Under(a)' : r = At(a, m)'
    <3>1. Remaining(a)' = Remaining(a)
      BY <1>6 DEF Remaining, InHand, Missing, MissingRanges
    <3>2. /\ \A n \in Under(a) : At(a, n) \in Remaining(a)
          /\ \A r \in Remaining(a), n \in Under(a) :
                Earlier(r, At(a, n)) => \E m \in Under(a) : r = At(a, m)
          /\ todo \subseteq Remaining(a)
          /\ \A r \in Remaining(a) : r \in todo \/ \E m \in Under(a) : r = At(a, m)
      BY <1>1, <1>6, <2>8 DEF SessionInv, Session, InStep
    <3>3. \A n \in Under(a)' : At(a, n)' \in Remaining(a)' BY <2>4, <3>1, <3>2
    <3>4. ASSUME NEW r \in Remaining(a) PROVE r \in todo' \/ \E m \in Under(a)' : r = At(a, m)'
      <4>1. CASE r = p BY <2>4, <4>1
      <4>2. CASE r # p /\ r \in todo BY <1>6, <4>2
      <4>3. CASE \E m \in Under(a) : r = At(a, m) BY <2>4, <4>3
      <4> QED BY <3>2, <4>1, <4>2, <4>3
    <3>5. \A r \in todo : ~Earlier(r, p)
      BY <1>2, <1>4 DEF Earlier
    <3>6. ASSUME NEW r \in Remaining(a), NEW n \in Under(a)', Earlier(r, At(a, n)')
          PROVE  \E m \in Under(a)' : r = At(a, m)'
      <4>1. CASE n \in Under(a) BY <2>4, <3>2, <3>6, <4>1
      <4>2. CASE n = l + 1 BY <1>6, <2>4, <3>4, <3>5, <3>6, <4>2
      <4> QED BY <2>4, <4>1, <4>2
    <3> QED BY <1>6, <3>1, <3>2, <3>3, <3>4, <3>6
  <2>9. InStep(a)' BY <1>6, <2>6, <2>7, <2>8 DEF InStep
  <2> QED BY <2>1, <2>2, <2>3, <2>9 DEF Session
<1> QED BY <1>10, <1>11, <1>12, <1>13 DEF SessionInv

(* Editing the source is nobody's step in the session.                     *)
LEMMA EditSourceStep == SessionInv /\ EditSource => SessionInv'
<1> SUFFICES ASSUME SessionInv, EditSource PROVE SessionInv' OBVIOUS
<1>1. /\ version' \in 1..MaxVersions
      /\ UNCHANGED <<sender, attempt, manifest, todo, wire, reply, ready, offer, thread, item,
                     policy, dest, memory, counted, journal, partial, files, history, restarts>>
  BY Numbers DEF EditSource, SessionInv, Shaped, answerVars, threadVars, diskVars
<1>2. Shaped' BY <1>1 DEF SessionInv, Shaped, IsBook
<1>3. SenderTurn' BY <1>1 DEF SessionInv, SenderTurn
<1>4. \A b \in Attempts : Session(b)' BY <1>1, SameKeeps DEF SessionInv, Same
<1> QED BY <1>2, <1>3, <1>4 DEF SessionInv

-----------------------------------------------------------------------------
(* The steps of the receiver that begin or end a thread.                   *)

(* A pending offer stays pending while other threads go on.                *)
LEMMA OfferKept ==
    ASSUME Shaped, NEW a \in Attempts, NEW s, thread[a] # "pending",
           thread' = [thread EXCEPT ![a] = s], offer' = offer
    PROVE  offer' # 0 => offer' \in Attempts /\ thread'[offer'] = "pending"
BY DEF Shaped

(* A thread that waits for its offer has nothing yet.                      *)
LEMMA WaitingKeeps ==
    ASSUME Shaped, NEW a \in Attempts, UNCHANGED <<attempt, sender, todo>>, Session(a),
           thread[a] \in {"incoming", "pending"}, thread'[a] \in {"pending", "accepted"},
           thread'[a] = "pending" => policy'[a] = policy[a], item'[a] = item[a],
           counted'[a] = counted[a], wire'[a] = wire[a], reply'[a] = reply[a]
    PROVE  Session(a)'
<1> USE DEF Early, Streaming
<1>1. /\ item[a] = 1 /\ counted[a] = 0 /\ wire[a] = <<>> /\ reply[a] = "none"
      /\ policy[a] = "none" /\ ~(a > attempt)
  BY DEF Session, Turn
<1>2. Under(a)' = {} BY <1>1 DEF Under
<1>3. Turn(a)' BY <1>1 DEF Turn
<1>4. Accounts(a)' /\ Answered(a)' BY <1>1 DEF Accounts, Answered
<1>5. InStep(a)' BY <1>2 DEF InStep
<1> QED BY <1>3, <1>4, <1>5 DEF Session

(* An offer is refused, dropped, or put into the table.                    *)
LEMMA InsertOfferStep == ASSUME SessionInv, NEW a \in Attempts, InsertOffer(a) PROVE SessionInv'
<1> USE DEF Early, Phases
<1>1. /\ thread[a] = "incoming" /\ thread'[a] \in {"ended", "pending"}
      /\ thread' = [thread EXCEPT ![a] = thread'[a]]
      /\ reply' = reply \/ (thread'[a] = "ended" /\ reply' = [reply EXCEPT ![a] = "refused"])
      /\ (offer' = offer) \/ (offer' = a /\ thread'[a] = "pending")
      /\ UNCHANGED <<version, sender, attempt, manifest, todo, wire, ready, item, policy, dest,
                     memory, counted, journal, partial, files, history, restarts>>
  BY DEF InsertOffer, Pass, senderVars, diskVars, SessionInv, Shaped
<1>2. reply[a] = "none" BY <1>1 DEF SessionInv, Session, Turn
<1>3. /\ \A b \in Attempts : b # a => thread'[b] = thread[b] /\ reply'[b] = reply[b]
      /\ reply'[a] = reply[a] \/ (reply'[a] = "refused" /\ thread'[a] = "ended")
  BY <1>1 DEF SessionInv, Shaped
<1>4. Shaped'
  <2>1. offer' # 0 => offer' \in Attempts /\ thread'[offer'] = "pending"
    BY <1>1, <1>3 DEF SessionInv, Shaped
  <2>2. /\ thread' \in [Attempts -> Phases]
        /\ reply' \in [Attempts -> {"none", "ready", "rejected", "refused", "completed"}]
    <3> DEFINE answers == {"none", "ready", "rejected", "refused", "completed"}
    <3>1. thread \in [Attempts -> Phases] /\ reply \in [Attempts -> answers]
      BY DEF SessionInv, Shaped
    <3>2. PICK s \in Phases : thread' = [thread EXCEPT ![a] = s] BY <1>1
    <3>3. thread' \in [Attempts -> Phases] BY <3>1, <3>2
    <3>4. reply' \in [Attempts -> answers] BY <1>1, <3>1
    <3> QED BY <3>3, <3>4
  <2> QED BY <1>1, <2>1, <2>2 DEF SessionInv, Shaped, IsBook
<1>5. \A b \in Attempts : b # a => Same(b) BY <1>1, <1>3 DEF Same
<1>6. Session(a)'
  <2>1. CASE thread'[a] = "ended"
    BY <1>1, <1>2, <1>3, <2>1, EndedKeeps DEF SessionInv
  <2>2. CASE thread'[a] = "pending"
    BY <1>1, <1>3, <2>2, WaitingKeeps DEF SessionInv
  <2> QED BY <1>1, <2>1, <2>2
<1> QED BY <1>1, <1>2, <1>4, <1>5, <1>6, ThreadFrame

(* An offer is accepted, with a policy.                                    *)
LEMMA AcceptStep == ASSUME SessionInv, NEW a \in Attempts, Accept(a) PROVE SessionInv'
<1> USE DEF Early, Phases
<1>1. thread[a] = "pending" /\ offer = a
  BY Numbers DEF Accept, SessionInv, Shaped
<1>2. PICK p \in Policies : policy' = [policy EXCEPT ![a] = p] BY DEF Accept
<1>3. /\ thread' = [thread EXCEPT ![a] = "accepted"] /\ offer' = 0
      /\ UNCHANGED <<version, sender, attempt, manifest, todo, wire, reply, ready, item, dest,
                     memory, counted, journal, partial, files, history, restarts>>
  BY DEF Accept, Pass, senderVars, answerVars, diskVars
<1>4. /\ thread'[a] = "accepted"
      /\ \A b \in Attempts : b # a => thread'[b] = thread[b] /\ policy'[b] = policy[b]
  BY <1>2, <1>3 DEF SessionInv, Shaped
<1>5. Shaped'
  <2>1. thread' \in [Attempts -> Phases] /\ policy' \in [Attempts -> Policies \cup {"none"}]
    BY <1>2, <1>3 DEF SessionInv, Shaped
  <2> QED BY <1>3, <2>1 DEF SessionInv, Shaped, IsBook
<1>6. \A b \in Attempts : b # a => Same(b) BY <1>3, <1>4 DEF Same
<1>7. Session(a)' BY <1>1, <1>3, <1>4, WaitingKeeps DEF SessionInv
<1> QED BY <1>3, <1>4, <1>5, <1>6, <1>7, ThreadFrame

(* An offer leaves the table unaccepted.                                   *)
LEMMA DismissStep == ASSUME SessionInv, NEW a \in Attempts, Dismiss(a) PROVE SessionInv'
<1> USE DEF Early, Phases
<1>1. thread[a] = "pending" /\ offer = a
  BY Numbers DEF Dismiss, SessionInv, Shaped
<1>2. reply[a] = "none" BY <1>1 DEF SessionInv, Session, Turn
<1>3. /\ thread' = [thread EXCEPT ![a] = "ended"] /\ offer' = 0
      /\ reply' = reply \/ reply' = [reply EXCEPT ![a] = "rejected"]
      /\ UNCHANGED <<version, sender, attempt, manifest, todo, wire, ready, item, policy, dest,
                     memory, counted, journal, partial, files, history, restarts>>
  BY DEF Dismiss, Pass, senderVars, diskVars
<1>4. /\ thread'[a] = "ended" /\ reply'[a] \in {reply[a], "rejected"}
      /\ \A b \in Attempts : b # a => thread'[b] = thread[b] /\ reply'[b] = reply[b]
  BY <1>3 DEF SessionInv, Shaped
<1>5. Shaped'
  <2>1. /\ thread' \in [Attempts -> Phases]
        /\ reply' \in [Attempts -> {"none", "ready", "rejected", "refused", "completed"}]
    BY <1>3 DEF SessionInv, Shaped
  <2> QED BY <1>3, <2>1 DEF SessionInv, Shaped, IsBook
<1>6. \A b \in Attempts : b # a => Same(b) BY <1>3, <1>4 DEF Same
<1>7. Session(a)' BY <1>1, <1>2, <1>3, <1>4, EndedKeeps DEF SessionInv
<1> QED BY <1>2, <1>3, <1>4, <1>5, <1>6, <1>7, ThreadFrame

(* However a thread ends, the session stays in order.                      *)
LEMMA EndStep ==
    ASSUME SessionInv, NEW a \in Attempts, thread[a] \notin {"none", "pending"}, End(a),
           UNCHANGED <<senderVars, answerVars, offer, policy, counted, journal, partial, files,
                       restarts>>,
           history' \in Statuses,
           wire' = wire \/ (wire[a] # <<>> /\ wire' = [wire EXCEPT ![a] = Tail(@)])
    PROVE  SessionInv'
<1> USE DEF Phases
<1>1. /\ thread' = [thread EXCEPT ![a] = "ended"] /\ item' = [item EXCEPT ![a] = 1]
      /\ dest' = [dest EXCEPT ![a] = 0] /\ memory' = [memory EXCEPT ![a] = NewJournal(0)]
      /\ UNCHANGED <<version, sender, attempt, manifest, todo, reply, ready, offer, policy,
                     counted, journal, partial, files, restarts>>
  BY DEF End, Pass, senderVars, answerVars
<1>2. /\ thread'[a] = "ended"
      /\ wire'[a] = wire[a] \/ (wire[a] # <<>> /\ wire'[a] = Tail(wire[a]))
      /\ \A b \in Attempts : b # a => /\ thread'[b] = thread[b] /\ item'[b] = item[b]
                                      /\ memory'[b] = memory[b] /\ wire'[b] = wire[b]
  BY <1>1 DEF SessionInv, Shaped
<1>3. Shaped'
  <2>1. IsBook(NewJournal(0)) BY Numbers DEF IsBook, Books, NewJournal
  <2>2. \A b \in Attempts : memory'[b] = memory[b] \/ memory'[b] = NewJournal(0)
    BY <1>1, <1>2
  <2>3. \A b \in Attempts : IsBook(memory'[b]) BY <2>1, <2>2 DEF SessionInv, Shaped
  <2>4. thread' \in [Attempts -> Phases] /\ item' \in [Attempts -> 1..ItemCount + 1]
    <3>1. 1 \in 1..ItemCount + 1 BY Numbers
    <3> QED BY <1>1, <3>1 DEF SessionInv, Shaped
  <2>5. wire[a] # <<>> => Tail(wire[a]) \in Seq(WirePieces) /\ Len(Tail(wire[a])) <= Len(wire[a])
    BY DEF SessionInv, Shaped
  <2>6. wire' \in [Attempts -> Seq(WirePieces)] BY <2>5 DEF SessionInv, Shaped
  <2>7. \A b \in Attempts : Len(wire'[b]) <= Buffer
    <3>1. \A b \in Attempts : wire[b] \in Seq(WirePieces) /\ Len(wire[b]) <= Buffer
      BY DEF SessionInv, Shaped
    <3>2. Len(wire'[a]) <= Buffer
      <4>1. CASE wire'[a] = wire[a] BY <3>1, <4>1
      <4>2. CASE wire[a] # <<>> /\ wire'[a] = Tail(wire[a])
        <5>1. wire[a] \in Seq(WirePieces) /\ Len(wire[a]) <= Buffer BY <3>1
        <5>2. Len(wire'[a]) = Len(wire[a]) - 1 /\ Len(wire[a]) \in Nat BY <4>2, <5>1
        <5> QED BY <5>1, <5>2, Numbers
      <4> QED BY <1>2, <4>1, <4>2
    <3> QED BY <1>2, <3>1, <3>2
  <2>8. offer' # 0 => offer' \in Attempts /\ thread'[offer'] = "pending"
    BY <1>1, OfferKept DEF SessionInv
  <2>9. IsBook(journal') BY <1>1 DEF SessionInv, Shaped, IsBook
  <2>10. memory' \in [Attempts -> Books] BY <1>1, <2>1 DEF SessionInv, Shaped, IsBook
  <2> QED BY <1>1, <2>3, <2>4, <2>6, <2>7, <2>8, <2>9, <2>10 DEF SessionInv, Shaped
<1>4. \A b \in Attempts : b # a => Same(b) BY <1>1, <1>2 DEF Same
<1>5. Session(a)' BY <1>1, <1>2, EndedKeeps DEF SessionInv
<1> QED BY <1>1, <1>2, <1>3, <1>4, <1>5, ThreadFrame

(* The receiver's process ends: all its threads do.                        *)
LEMMA RestartStep == SessionInv /\ Restart => SessionInv'
<1> SUFFICES ASSUME SessionInv, Restart PROVE SessionInv' OBVIOUS
<1> USE DEF Early, Streaming, Phases
<1>1. /\ offer' = 0 /\ wire' = [a \in Attempts |-> <<>>]
      /\ thread' = [a \in Attempts |-> IF thread[a] = "none" THEN "none" ELSE "ended"]
      /\ item' = [a \in Attempts |-> 1] /\ dest' = [a \in Attempts |-> 0]
      /\ memory' = [a \in Attempts |-> NewJournal(0)]
      /\ restarts' = restarts + 1 /\ restarts < MaxRestarts
      /\ UNCHANGED <<version, sender, attempt, manifest, todo, reply, ready, policy, counted,
                     journal, partial, files, history>>
  BY DEF Restart, senderVars, answerVars, diskVars
<1>2. Shaped'
  <2>1. IsBook(NewJournal(0)) BY Numbers DEF IsBook, Books, NewJournal
  <2>2. 1 \in 1..ItemCount + 1 BY Numbers
  <2>3. <<>> \in Seq(WirePieces) /\ Len(<<>>) = 0 OBVIOUS
  <2>4. /\ wire' \in [Attempts -> Seq(WirePieces)]
        /\ \A a \in Attempts : Len(wire'[a]) <= Buffer /\ memory'[a] = NewJournal(0)
        /\ thread' \in [Attempts -> Phases] /\ item' \in [Attempts -> 1..ItemCount + 1]
    BY <1>1, <2>2, <2>3, Numbers DEF SessionInv, Shaped
  <2>5. restarts' \in 0..MaxRestarts BY <1>1, Numbers DEF SessionInv, Shaped
  <2>6. IsBook(journal') BY <1>1 DEF SessionInv, Shaped, IsBook
  <2>7. memory' \in [Attempts -> Books] BY <1>1, <2>1 DEF IsBook
  <2> QED BY <1>1, <2>1, <2>4, <2>5, <2>6, <2>7 DEF SessionInv, Shaped
<1>3. SenderTurn' BY <1>1 DEF SessionInv, SenderTurn, Shaped
<1>4. ASSUME NEW a \in Attempts PROVE Session(a)'
  <2>1. CASE thread[a] # "none"
    <3>1. thread'[a] = "ended" /\ wire'[a] = <<>> BY <1>1, <2>1
    <3> QED BY <1>1, <2>1, <3>1, EndedKeeps DEF SessionInv
  <2>2. CASE thread[a] = "none"
    <3>1. /\ thread'[a] = "none" /\ wire'[a] = <<>> /\ item'[a] = 1 /\ counted'[a] = 0
          /\ policy'[a] = "none" /\ reply'[a] = "none" /\ a > attempt'
      BY <1>1, <2>2 DEF SessionInv, Session, Turn
    <3>2. Under(a)' = {} BY <3>1 DEF Under
    <3> QED BY <3>1, <3>2 DEF Session, Turn, Accounts, Answered, InStep
  <2> QED BY <2>1, <2>2
<1> QED BY <1>2, <1>3, <1>4 DEF SessionInv


-----------------------------------------------------------------------------
(* The steps of a receive thread at work.                                  *)

(* While pieces are received, what is not a piece changes nothing.         *)
LEMMA StreamKeeps ==
    ASSUME Shaped, NEW a \in Attempts, UNCHANGED <<attempt, sender, todo>>, Session(a),
           thread[a] \in Streaming \ {"save"}, thread'[a] \in Streaming \ {"save"},
           item'[a] \in 1..ItemCount + 1,
           memory'[a].verified = memory[a].verified, counted'[a] = counted[a],
           wire'[a] = wire[a], reply'[a] = reply[a], ready'[a] = ready[a],
           \A i \in Items : i < item'[a] => MissingRanges(memory[a], i) = {},
           thread'[a] # "receive" => item'[a] \in Items /\ MissingRanges(memory[a], item'[a]) = {}
    PROVE  Session(a)'
<1> USE DEF Early, Streaming
<1>1. \A i : MissingRanges(memory[a], i)' = MissingRanges(memory[a], i) BY DEF MissingRanges
<1>2. Turn(a)' BY <1>1 DEF Session, Turn, Missing
<1>3. Accounts(a)'
  <2>1. Upto(memory[a], ItemCount + 1)' = Upto(memory[a], ItemCount + 1) BY DEF Upto
  <2> QED BY <2>1 DEF Session, Accounts
<1>4. Answered(a)' BY <1>1 DEF Session, Answered
<1>5. InStep(a)'
  <2>1. Remaining(a)' = Remaining(a) BY <1>1 DEF Remaining, InHand
  <2>2. Under(a)' = Under(a) /\ \A n : At(a, n)' = At(a, n) BY DEF Under, At
  <2> QED BY <2>1, <2>2 DEF Session, InStep
<1> QED BY <1>2, <1>3, <1>4, <1>5 DEF Session

(* An error in a receive thread.                                           *)
LEMMA FailStep == ASSUME SessionInv, NEW a \in Attempts, Fail(a) PROVE SessionInv'
<1>1. thread[a] \notin {"none", "pending"} /\ End(a) BY DEF Fail, Fails, AtWork
<1>2. UNCHANGED <<senderVars, answerVars, offer, policy, counted, journal, partial, files,
                  restarts, wire>>
  BY DEF Fail
<1>3. history' \in Statuses
  <2>1. history' \in {history, "failed"} BY DEF Fail, Fails, Record
  <2> QED BY <2>1 DEF SessionInv, Shaped, Statuses
<1> QED BY <1>1, <1>2, <1>3, EndStep

(* The thread begins, and the history is told.                             *)
LEMMA StartedStep == ASSUME SessionInv, NEW a \in Attempts, RecordStarted(a) PROVE SessionInv'
<1> USE DEF Early, Streaming, Phases
<1>1. /\ thread[a] = "accepted" /\ thread' = [thread EXCEPT ![a] = "open"]
      /\ history' \in Statuses
      /\ UNCHANGED <<version, sender, attempt, manifest, todo, wire, reply, ready, offer, item,
                     policy, dest, memory, counted, journal, partial, files, restarts>>
  BY DEF RecordStarted, Record, Statuses, Pass, senderVars, answerVars
<1>2. thread'[a] = "open" /\ \A b \in Attempts : b # a => thread'[b] = thread[b]
  BY <1>1 DEF SessionInv, Shaped
<1>3. Shaped'
  <2>1. thread' \in [Attempts -> Phases] BY <1>1 DEF SessionInv, Shaped
  <2>2. offer' # 0 => offer' \in Attempts /\ thread'[offer'] = "pending"
    BY <1>1, OfferKept DEF SessionInv
  <2> QED BY <1>1, <2>1, <2>2 DEF SessionInv, Shaped, IsBook
<1>4. \A b \in Attempts : b # a => Same(b) BY <1>1, <1>2 DEF Same
<1>5. Session(a)'
  <2>1. /\ item'[a] = 1 /\ counted'[a] = 0 /\ wire'[a] = <<>> /\ reply'[a] = "none"
        /\ ~(a > attempt') /\ ~(a = attempt /\ sender = "streaming")
    BY <1>1 DEF SessionInv, SenderTurn, Session, Turn
  <2>2. Under(a)' = {} BY <2>1 DEF Under
  <2> QED BY <1>1, <1>2, <2>1, <2>2 DEF Session, Turn, Accounts, Answered, InStep
<1> QED BY <1>1, <1>2, <1>3, <1>4, <1>5, ThreadFrame

(* The journal is found or begun anew.                                     *)
LEMMA OpenJournalStep == ASSUME SessionInv, NEW a \in Attempts, OpenJournal(a) PROVE SessionInv'
<1> USE DEF Early, Streaming, Phases
<1>1. /\ thread[a] = "open" /\ thread' = [thread EXCEPT ![a] = "reconcile"]
      /\ journal' = IF journal.root = manifest[a] THEN journal ELSE NewJournal(manifest[a])
      /\ memory' = [memory EXCEPT ![a] = journal']
      /\ UNCHANGED <<version, sender, attempt, manifest, todo, wire, reply, ready, offer, item,
                     policy, dest, counted, partial, files, history, restarts>>
  BY DEF OpenJournal, Pass, SaveJournal, SnapshotRoot, senderVars, answerVars
<1>2. /\ thread'[a] = "reconcile"
      /\ \A b \in Attempts : b # a => thread'[b] = thread[b] /\ memory'[b] = memory[b]
      /\ \A b \in Attempts : memory'[b] = memory[b] \/ memory'[b] = journal'
  BY <1>1 DEF SessionInv, Shaped
<1>3. Shaped'
  <2>1. IsBook(journal')
    <3>1. manifest[a] \in 0..MaxVersions BY DEF SessionInv, Shaped
    <3>2. IsBook(NewJournal(manifest[a])) BY <3>1 DEF IsBook, Books, NewJournal
    <3> QED BY <1>1, <3>2 DEF SessionInv, Shaped
  <2>2. \A b \in Attempts : IsBook(memory'[b])
    <3>1. \A b \in Attempts : IsBook(memory[b]) BY DEF SessionInv, Shaped
    <3> QED BY <1>2, <2>1, <3>1
  <2>3. thread' \in [Attempts -> Phases] BY <1>1 DEF SessionInv, Shaped
  <2>4. offer' # 0 => offer' \in Attempts /\ thread'[offer'] = "pending"
    BY <1>1, OfferKept DEF SessionInv
  <2>5. memory' \in [Attempts -> Books] BY <1>1, <2>1 DEF SessionInv, Shaped, IsBook
  <2> QED BY <1>1, <2>1, <2>2, <2>3, <2>4, <2>5 DEF SessionInv, Shaped
<1>4. \A b \in Attempts : b # a => Same(b) BY <1>1, <1>2 DEF Same
<1>5. Session(a)'
  <2>1. /\ item'[a] = 1 /\ counted'[a] = 0 /\ wire'[a] = <<>> /\ reply'[a] = "none"
        /\ ~(a > attempt')
    BY <1>1 DEF SessionInv, Session, Turn
  <2>2. Turn(a)' BY <1>2, <2>1 DEF Turn
  <2>3. Accounts(a)'
    <3>1. Cardinality(Upto(journal', 1)) = 0 BY CountFromNothing
    <3>2. memory'[a] = journal' BY <1>1 DEF SessionInv, Shaped
    <3>3. Upto(memory'[a], item'[a]) = Upto(journal', 1) BY <2>1, <3>2
    <3>4. Upto(memory[a], item[a])' = Upto(memory'[a], item'[a]) BY DEF Upto
    <3> QED BY <1>2, <2>1, <3>1, <3>3, <3>4 DEF Accounts
  <2>4. Answered(a)'
    <3>1. \A i \in Items : ~(i < 1) BY Numbers
    <3> QED BY <1>2, <2>1, <3>1 DEF Answered
  <2>5. Under(a)' = {} BY <2>1 DEF Under
  <2>6. InStep(a)'
    <3>1. a = attempt /\ sender = "streaming" => FALSE
      BY <1>1 DEF SessionInv, SenderTurn, Session, Turn
    <3> QED BY <1>1, <1>2, <2>5, <3>1 DEF InStep
  <2> QED BY <2>2, <2>3, <2>4, <2>6 DEF Session
<1>6. wire'[a] = wire[a] /\ thread'[a] # "save" /\ reply'[a] = reply[a] BY <1>1, <1>2
<1> QED BY <1>1, <1>3, <1>4, <1>5, <1>6, ThreadFrame

(* So does such a step as a whole.                                         *)
LEMMA StreamStep ==
    ASSUME SessionInv, NEW a \in Attempts, NEW s \in Streaming \ {"save"}, NEW m,
           NEW n \in 1..ItemCount + 1,
           thread[a] \in Streaming \ {"save"}, thread' = [thread EXCEPT ![a] = s],
           IsBook(m), m.verified = memory[a].verified, memory' = [memory EXCEPT ![a] = m],
           item' = [item EXCEPT ![a] = n],
           \A i \in Items : i < n => MissingRanges(memory[a], i) = {},
           s # "receive" => n \in Items /\ MissingRanges(memory[a], n) = {},
           journal' = journal \/ journal' = m,
           DOMAIN partial' = Items,
           \A i \in Items : partial'[i] = Absent \/ partial'[i] \in [Pieces(i) -> 1..Hole],
           DOMAIN files' = Items, \A i \in Items : DOMAIN files'[i] = Names,
           UNCHANGED <<senderVars, wire, answerVars, offer, policy, counted, history, restarts>>
    PROVE  SessionInv'
<1> USE DEF Streaming, Phases
<1>1. UNCHANGED <<version, sender, attempt, manifest, todo, wire, reply, ready, offer, policy,
                  counted, history, restarts>>
  BY DEF senderVars, answerVars
<1>2. /\ thread'[a] = s /\ memory'[a] = m /\ item'[a] = n
      /\ \A b \in Attempts : b # a => /\ thread'[b] = thread[b] /\ item'[b] = item[b]
                                      /\ memory'[b] = memory[b]
  BY DEF SessionInv, Shaped
<1>3. Shaped'
  <2>1. \A b \in Attempts : IsBook(memory'[b]) BY <1>2 DEF SessionInv, Shaped
  <2>2. IsBook(journal') BY DEF SessionInv, Shaped
  <2>3. thread' \in [Attempts -> Phases] /\ item' \in [Attempts -> 1..ItemCount + 1]
        /\ memory' \in [Attempts -> Books]
    BY DEF SessionInv, Shaped, IsBook
  <2>4. offer' # 0 => offer' \in Attempts /\ thread'[offer'] = "pending"
    BY <1>1, OfferKept DEF SessionInv
  <2> QED BY <1>1, <2>1, <2>2, <2>3, <2>4 DEF SessionInv, Shaped
<1>4. \A b \in Attempts : b # a => Same(b) BY <1>1, <1>2 DEF Same
<1>5. Session(a)' BY <1>1, <1>2, StreamKeeps DEF SessionInv
<1>6. thread'[a] # "save" /\ wire'[a] = wire[a] /\ reply'[a] = reply[a] BY <1>1, <1>2
<1> QED BY <1>1, <1>3, <1>4, <1>5, <1>6, ThreadFrame

(* What a thread between two pieces has.                                   *)
LEMMA AtAnItem ==
    ASSUME SessionInv, NEW a \in Attempts, thread[a] \in Streaming
    PROVE  /\ \A i \in Items : i < item[a] => MissingRanges(memory[a], i) = {}
           /\ thread[a] \in {"choose", "publish", "mark"} =>
                 item[a] \in Items /\ MissingRanges(memory[a], item[a]) = {}
           /\ IsBook(memory[a]) /\ item[a] \in 1..ItemCount + 1
           /\ memory = [memory EXCEPT ![a] = memory[a]]
           /\ item = [item EXCEPT ![a] = item[a]]
BY DEF SessionInv, Session, Turn, Shaped, Missing

(* A whole file is compared with the digest.                               *)
LEMMA VerifyStep == ASSUME SessionInv, NEW a \in Attempts, Verify(a) PROVE SessionInv'
<1> USE DEF Streaming
<1>1. /\ thread[a] = "receive" /\ item[a] <= ItemCount /\ MissingRanges(memory[a], item[a]) = {}
      /\ UNCHANGED <<senderVars, wire, answerVars, offer, policy, counted, journal, partial,
                     files, restarts>>
  BY DEF Verify, Receiving, Missing
<1>2. CASE Fails(a)
  <2>1. End(a) /\ history' \in Statuses BY <1>2 DEF Fails, Record, Statuses
  <2> QED BY <1>1, <2>1, EndStep
<1>3. CASE ~Fails(a)
  <2>1. thread' = [thread EXCEPT ![a] = "choose"] /\ UNCHANGED <<item, dest, memory, history>>
    BY <1>3 DEF Verify, Pass
  <2>2. item[a] \in Items BY <1>1, Numbers DEF SessionInv, Shaped
  <2>3. /\ DOMAIN partial' = Items /\ DOMAIN files' = Items
        /\ \A i \in Items : partial'[i] = Absent \/ partial'[i] \in [Pieces(i) -> 1..Hole]
        /\ \A i \in Items : DOMAIN files'[i] = Names
    BY <1>1, <2>1 DEF SessionInv, Shaped
  <2> QED BY <1>1, <2>1, <2>2, <2>3, AtAnItem, StreamStep
<1> QED BY <1>2, <1>3

(* A name is chosen, or the item skipped.                                  *)
LEMMA ChooseStep == ASSUME SessionInv, NEW a \in Attempts, ChooseDestination(a) PROVE SessionInv'
<1> USE DEF Streaming
<1>1. /\ thread[a] = "choose"
      /\ UNCHANGED <<senderVars, wire, answerVars, offer, item, policy, memory, counted, journal,
                     partial, files, history, restarts>>
  BY DEF ChooseDestination, diskVars
<1>2. PICK s \in {"mark", "publish"} : thread' = [thread EXCEPT ![a] = s]
  BY DEF ChooseDestination, Pass
<1>3. /\ DOMAIN partial' = Items /\ DOMAIN files' = Items
      /\ \A i \in Items : partial'[i] = Absent \/ partial'[i] \in [Pieces(i) -> 1..Hole]
      /\ \A i \in Items : DOMAIN files'[i] = Names
  BY <1>1 DEF SessionInv, Shaped
<1> QED BY <1>1, <1>2, <1>3, AtAnItem, StreamStep

(* The partial file is renamed, or is not there.                           *)
LEMMA PublishStep == ASSUME SessionInv, NEW a \in Attempts, Publish(a) PROVE SessionInv'
<1> USE DEF Streaming
<1>1. /\ thread[a] = "publish"
      /\ UNCHANGED <<senderVars, wire, answerVars, offer, policy, counted, journal, restarts>>
  BY DEF Publish
<1>2. CASE partial[item[a]] = Absent
  <2>1. End(a) /\ UNCHANGED <<partial, files>> BY <1>2 DEF Publish, Fails
  <2>2. history' \in Statuses BY <1>2 DEF Publish, Fails, Record, Statuses
  <2> QED BY <1>1, <2>1, <2>2, EndStep
<1>3. CASE partial[item[a]] # Absent
  <2>1. /\ thread' = [thread EXCEPT ![a] = "mark"] /\ UNCHANGED <<item, memory, history>>
        /\ files' = [files EXCEPT ![item[a]][dest[a]] = partial[item[a]]]
        /\ partial' = [partial EXCEPT ![item[a]] = Absent]
    BY <1>3 DEF Publish, Pass
  <2>2. /\ DOMAIN partial' = Items /\ DOMAIN files' = Items
        /\ \A i \in Items : partial'[i] = Absent \/ partial'[i] \in [Pieces(i) -> 1..Hole]
        /\ \A i \in Items : DOMAIN files'[i] = Names
    BY <2>1 DEF SessionInv, Shaped
  <2> QED BY <1>1, <2>1, <2>2, AtAnItem, StreamStep
<1> QED BY <1>2, <1>3

(* The journal is told of a complete item.                                 *)
LEMMA SaveCompleteStep == ASSUME SessionInv, NEW a \in Attempts, SaveComplete(a) PROVE SessionInv'
<1> USE DEF Streaming
<1> DEFINE book == MarkComplete(memory[a], item[a])
<1>1. /\ thread[a] = "mark" /\ thread' = [thread EXCEPT ![a] = "receive"]
      /\ memory' = [memory EXCEPT ![a] = book] /\ journal' = memory'[a]
      /\ item' = [item EXCEPT ![a] = item[a] + 1]
      /\ UNCHANGED <<senderVars, wire, answerVars, offer, policy, counted, partial, files,
                     history, restarts>>
  BY DEF SaveComplete, Pass, SaveJournal
<1>2. item[a] \in Items /\ IsBook(memory[a]) /\ MissingRanges(memory[a], item[a]) = {}
  BY <1>1, AtAnItem
<1>3. IsBook(book) /\ book.verified = memory[a].verified
  BY <1>2 DEF MarkComplete, IsBook, Books
<1> HIDE DEF book
<1>4. journal' = book BY <1>1 DEF SessionInv, Shaped
<1>5. item[a] + 1 \in 1..ItemCount + 1
      /\ \A i \in Items : i < item[a] + 1 => MissingRanges(memory[a], i) = {}
  <2>1. \A i \in Items : i < item[a] + 1 => i < item[a] \/ i = item[a] BY <1>2, Numbers
  <2>2. item[a] + 1 \in 1..ItemCount + 1 BY <1>2, Numbers
  <2> QED BY <1>1, <1>2, <2>1, <2>2, AtAnItem
<1>6. /\ DOMAIN partial' = Items /\ DOMAIN files' = Items
      /\ \A i \in Items : partial'[i] = Absent \/ partial'[i] \in [Pieces(i) -> 1..Hole]
      /\ \A i \in Items : DOMAIN files'[i] = Names
  BY <1>1 DEF SessionInv, Shaped
<1> QED BY <1>1, <1>3, <1>4, <1>5, <1>6, StreamStep

(* When nothing is missing, all of the job has been counted.               *)
LEMMA CompletedStep == ASSUME SessionInv, NEW a \in Attempts, AnswerCompleted(a) PROVE SessionInv'
<1> USE DEF Early, Streaming, Phases
<1>1. /\ thread[a] = "receive" /\ item[a] > ItemCount
      /\ thread' = [thread EXCEPT ![a] = "record"] /\ reply' = [reply EXCEPT ![a] = "completed"]
      /\ UNCHANGED <<version, sender, attempt, manifest, todo, wire, ready, offer, item, policy,
                     dest, memory, counted, journal, partial, files, history, restarts>>
  BY DEF AnswerCompleted, Pass, senderVars, diskVars
<1>2. /\ thread'[a] = "record" /\ reply'[a] = "completed"
      /\ \A b \in Attempts : b # a => thread'[b] = thread[b] /\ reply'[b] = reply[b]
  BY <1>1 DEF SessionInv, Shaped
<1>3. Shaped'
  <2>1. /\ thread' \in [Attempts -> Phases]
        /\ reply' \in [Attempts -> {"none", "ready", "rejected", "refused", "completed"}]
    BY <1>1 DEF SessionInv, Shaped
  <2>2. offer' # 0 => offer' \in Attempts /\ thread'[offer'] = "pending"
    BY <1>1, OfferKept DEF SessionInv
  <2> QED BY <1>1, <2>1, <2>2 DEF SessionInv, Shaped, IsBook
<1>4. \A b \in Attempts : b # a => Same(b) BY <1>1, <1>2 DEF Same
<1>5. Session(a)'
  <2>1. Turn(a)' BY <1>1, <1>2 DEF SessionInv, Session, Turn
  <2>2. counted[a] = Total
    <3>1. \A i \in Items : i < item[a] BY SMTT(60), <1>1, Numbers DEF SessionInv, Shaped
    <3>2. \A i \in Items : MissingRanges(memory[a], i) = {} BY <1>1, <3>1, AtAnItem
    <3> QED BY <1>1, <3>2, CountOfAll DEF SessionInv, Shaped, Session, Accounts
  <2>3. Accounts(a)' BY <1>1, <1>2, <2>2 DEF Accounts
  <2>4. Answered(a)' BY <1>1, <1>2 DEF Answered
  <2>5. InStep(a)' BY <1>1, <1>2, WireShrinks DEF InStep, SessionInv
  <2> QED BY <2>1, <2>3, <2>4, <2>5 DEF Session
<1>6. reply[a] = "ready" BY <1>1 DEF SessionInv, Session, Turn
<1> QED BY <1>1, <1>2, <1>3, <1>4, <1>5, <1>6, ThreadFrame

(* The history is told, and the thread is over.                            *)
LEMMA RecordStep == ASSUME SessionInv, NEW a \in Attempts, RecordCompleted(a) PROVE SessionInv'
<1>1. /\ thread[a] \notin {"none", "pending"} /\ End(a) /\ history' \in Statuses
      /\ UNCHANGED <<senderVars, wire, answerVars, offer, policy, counted, journal, partial,
                     files, restarts>>
  BY DEF RecordCompleted, Record, Statuses
<1> QED BY <1>1, EndStep

(* An item is settled: kept with what the journal says, or given up.       *)
LEMMA ReconcileFits ==
    ASSUME SessionInv, NEW i \in Items, NEW j, IsBook(j),
           ~MustReset(PartialLength(i), ContiguousOffset(j, i), Size[i])
    PROVE  Fits(i, PartialLength(i), MissingRanges(j, i))
<1> DEFINE missing == MissingRanges(j, i)
           length == PartialLength(i)
<1>1. length = 0 \/ length = Size[i] BY DEF PartialLength
<1>2. missing \subseteq Pieces(i) BY DEF MissingRanges
<1>3. Size[i] \in Nat \ {0} BY PiecesAreNumbers
<1>4. length <= Size[i] /\ length % PieceSize = 0 BY <1>1, <1>3 DEF MustReset
<1>5. ASSUME missing = {} PROVE length = Size[i]
  <2>1. ContiguousOffset(j, i) = Size[i] BY <1>5 DEF ContiguousOffset
  <2> QED BY <1>1, <1>3, <2>1 DEF MustReset
<1> QED BY <1>2, <1>4, <1>5 DEF Fits

(* One pass of the loop over partial files and journal.                    *)
LEMMA ReconcileStep == ASSUME SessionInv, NEW a \in Attempts, ReconcileItem(a) PROVE SessionInv'
<1> USE DEF Early, Streaming, Phases
<1> DEFINE i == item[a]
           reset == MustReset(PartialLength(i), ContiguousOffset(memory[a], i), Size[i])
           kept == IF reset THEN ResetItem(memory[a], i) ELSE memory[a]
           offset == IF reset THEN 0 ELSE PartialLength(i)
<1>1. /\ thread[a] = "reconcile" /\ i <= ItemCount
      /\ partial' = IF reset THEN [partial EXCEPT ![i] = Absent] ELSE partial
      /\ memory' = [memory EXCEPT ![a] = kept]
      /\ ready' = [ready EXCEPT ![a][i].offset = offset]
      /\ counted' = [counted EXCEPT ![a] = @ + VerifiedBytes(kept, i)]
      /\ item' = [item EXCEPT ![a] = i + 1]
      /\ UNCHANGED <<version, sender, attempt, manifest, todo, wire, reply, offer, thread, policy,
                     dest, journal, files, history, restarts>>
  BY DEF ReconcileItem, senderVars
<1>2. i \in Items BY SMTT(60), <1>1, Numbers DEF SessionInv, Shaped
<1>3. /\ IsBook(memory[a]) /\ IsBook(kept)
      /\ \A h \in Items : h # i => kept.verified[h] = memory[a].verified[h]
      /\ reset => kept.verified[i] = {}
  BY ZenonT(60), <1>2 DEF SessionInv, Shaped, IsBook, Books, ResetItem
<1>4. Fits(i, offset, MissingRanges(kept, i)) /\ offset \in Nat
  <2>1. CASE reset
    <3>1. 0 % PieceSize = 0 /\ 0 <= Size[i] BY <1>2, Numbers, PiecesAreNumbers
    <3>2. MissingRanges(kept, i) = Pieces(i) /\ 0 \in Pieces(i)
      BY <1>2, <1>3, <2>1, PiecesAreNumbers DEF MissingRanges
    <3> QED BY <2>1, <3>1, <3>2 DEF Fits
  <2>2. CASE ~reset
    <3>1. PartialLength(i) \in Nat BY <1>2, PiecesAreNumbers DEF PartialLength
    <3> QED BY <1>2, <1>3, <2>2, <3>1, ReconcileFits
  <2> QED BY <2>1, <2>2
<1>5. counted[a] + VerifiedBytes(kept, i) = Cardinality(Upto(kept, i + 1))
  <2>1. counted[a] = Cardinality(Upto(memory[a], i))
    BY <1>1 DEF SessionInv, Session, Accounts
  <2>2. ~(i < i) BY <1>2, Numbers
  <2>3. Upto(memory[a], i) = Upto(kept, i) BY <1>3, <2>2, CountDependsOnVerified
  <2> QED BY <1>2, <2>1, <2>3, CountNextItem
<1> HIDE DEF reset, kept, offset
<1>6. /\ memory'[a] = kept /\ item'[a] = i + 1 /\ counted'[a] = Cardinality(Upto(kept, i + 1))
      /\ ready'[a][i].offset = offset
      /\ \A h \in Items : h # i => ready'[a][h] = ready[a][h]
      /\ \A b \in Attempts : b # a => /\ memory'[b] = memory[b] /\ item'[b] = item[b]
                                      /\ counted'[b] = counted[b] /\ ready'[b] = ready[b]
  BY <1>1, <1>2, <1>5 DEF SessionInv, Shaped
<1>7. Shaped'
  <2>1. \A b \in Attempts : IsBook(memory'[b]) BY <1>3, <1>6 DEF SessionInv, Shaped
  <2>2. IsBook(journal') BY <1>1 DEF SessionInv, Shaped, IsBook
  <2>3. memory' \in [Attempts -> Books] BY <1>1, <1>3 DEF SessionInv, Shaped, IsBook
  <2>4. counted' \in [Attempts -> 0..Total]
    <3>1. counted[a] + VerifiedBytes(kept, i) \in 0..Total BY <1>5, CountedIsPart
    <3> QED BY <1>1, <3>1 DEF SessionInv, Shaped
  <2>5. item' \in [Attempts -> 1..ItemCount + 1]
    <3>1. i + 1 \in 1..ItemCount + 1 BY <1>2, Numbers
    <3> QED BY <1>1, <3>1 DEF SessionInv, Shaped
  <2>6. ready' \in [Attempts -> [Items -> [offset : Nat, missing : SUBSET Nat]]]
    <3> DEFINE Answer == [offset : Nat, missing : SUBSET Nat]
    <3>1. ready \in [Attempts -> [Items -> Answer]] BY DEF SessionInv, Shaped
    <3>2. [ready[a][i] EXCEPT !.offset = offset] \in Answer BY SMTT(60), <1>2, <1>4, <3>1
    <3> HIDE DEF Answer
    <3>3. [ready[a] EXCEPT ![i] = [ready[a][i] EXCEPT !.offset = offset]] \in [Items -> Answer]
      BY <3>1, <3>2
    <3>4. ready' = [ready EXCEPT ![a] =
                       [ready[a] EXCEPT ![i] = [ready[a][i] EXCEPT !.offset = offset]]]
      BY <1>1, <1>2, <3>1
    <3>5. ready' \in [Attempts -> [Items -> Answer]] BY <3>1, <3>3, <3>4
    <3> QED BY <3>5 DEF Answer
  <2>7. /\ DOMAIN partial' = Items
        /\ \A h \in Items : partial'[h] = Absent \/ partial'[h] \in [Pieces(h) -> 1..Hole]
    BY <1>1 DEF SessionInv, Shaped
  <2> QED BY <1>1, <2>1, <2>2, <2>3, <2>4, <2>5, <2>6, <2>7 DEF SessionInv, Shaped
<1>8. \A b \in Attempts : b # a => Same(b) BY <1>1, <1>6 DEF Same
<1>9. Session(a)'
  <2>1. wire'[a] = <<>> /\ reply'[a] = "none" /\ thread'[a] = "reconcile" /\ ~(a > attempt')
    BY <1>1 DEF SessionInv, Session, Turn
  <2>2. Turn(a)' BY <2>1 DEF Turn
  <2>3. Accounts(a)'
    <3>1. Upto(memory[a], item[a])' = Upto(memory'[a], item'[a]) BY DEF Upto
    <3> QED BY <1>6, <2>1, <3>1 DEF Accounts
  <2>4. Answered(a)'
    <3>1. ASSUME NEW h \in Items, h < i + 1
          PROVE  Fits(h, ready'[a][h].offset, MissingRanges(kept, h))
      <4>1. CASE h = i BY <1>4, <1>6, <4>1
      <4>2. CASE h # i
        <5>1. h < i BY <1>2, <3>1, <4>2, Numbers
        <5>2. Fits(h, ready[a][h].offset, MissingRanges(memory[a], h))
          BY <1>1, <5>1 DEF SessionInv, Session, Answered
        <5> QED BY <1>3, <1>6, <4>2, <5>2 DEF MissingRanges
      <4> QED BY <4>1, <4>2
    <3>2. \A h : MissingRanges(memory[a], h)' = MissingRanges(kept, h)
      BY <1>6 DEF MissingRanges
    <3>3. \A h \in Items : h < item'[a] =>
             Fits(h, ready'[a][h].offset, MissingRanges(memory[a], h)')
      BY <1>6, <3>1, <3>2
    <3>4. (thread[a] = "reconcile" =>
          \A h \in Items : h < item[a] => Fits(h, ready[a][h].offset, MissingRanges(memory[a], h)))'
      BY <3>3 DEF Fits
    <3> QED BY <2>1, <3>4 DEF Answered
  <2>5. InStep(a)'
    <3>1. Under(a)' = {} BY <2>1 DEF Under
    <3>2. a = attempt /\ sender = "streaming" => FALSE
      BY <1>1, <2>1 DEF SessionInv, SenderTurn
    <3> QED BY <1>1, <2>1, <3>1, <3>2 DEF InStep
  <2> QED BY <2>2, <2>3, <2>4, <2>5 DEF Session
<1>10. wire'[a] = wire[a] /\ thread'[a] = thread[a] /\ reply'[a] = reply[a] BY <1>1
<1> QED BY <1>1, <1>7, <1>8, <1>9, <1>10, ThreadFrame

(* The answer that the session goes on from.                               *)
LEMMA AnswerReadyStep == ASSUME SessionInv, NEW a \in Attempts, AnswerReady(a) PROVE SessionInv'
<1> USE DEF Early, Streaming, Phases
<1> DEFINE answer == [i \in Items |->
                         [ready[a][i] EXCEPT !.missing = MissingRanges(memory[a], i)]]
<1>1. /\ thread[a] = "reconcile" /\ item[a] > ItemCount
      /\ ready' = [ready EXCEPT ![a] = answer]
      /\ reply' = [reply EXCEPT ![a] = "ready"] /\ item' = [item EXCEPT ![a] = 1]
      /\ thread' = [thread EXCEPT ![a] = "receive"]
      /\ UNCHANGED <<version, sender, attempt, manifest, todo, wire, offer, policy, dest, memory,
                     counted, journal, partial, files, history, restarts>>
  BY DEF AnswerReady, Pass, senderVars, diskVars
<1>2. \A i \in Items : i < item[a] BY SMTT(60), <1>1, Numbers DEF SessionInv, Shaped
<1>3. \A i \in Items : MissingRanges(memory[a], i) \subseteq Nat
  BY PiecesAreNumbers DEF MissingRanges
<1>4. answer \in [Items -> [offset : Nat, missing : SUBSET Nat]]
      /\ \A i \in Items : /\ answer[i].offset = ready[a][i].offset
                          /\ answer[i].missing = MissingRanges(memory[a], i)
  <2> DEFINE Answer == [offset : Nat, missing : SUBSET Nat]
  <2>1. ready[a] \in [Items -> Answer] BY DEF SessionInv, Shaped
  <2>2. ASSUME NEW i \in Items, NEW M \in SUBSET Nat
        PROVE  /\ [ready[a][i] EXCEPT !.missing = M] \in Answer
               /\ [ready[a][i] EXCEPT !.missing = M].offset = ready[a][i].offset
               /\ [ready[a][i] EXCEPT !.missing = M].missing = M
    BY <2>1
  <2>3. answer \in [Items -> Answer] BY <1>3, <2>2
  <2>4. \A i \in Items : /\ answer[i].offset = ready[a][i].offset
                         /\ answer[i].missing = MissingRanges(memory[a], i)
    BY <1>3, <2>2
  <2> QED BY <2>3, <2>4
<1> HIDE DEF answer
<1>5. /\ ready'[a] = answer /\ reply'[a] = "ready" /\ item'[a] = 1 /\ thread'[a] = "receive"
      /\ \A b \in Attempts : b # a => /\ ready'[b] = ready[b] /\ reply'[b] = reply[b]
                                      /\ item'[b] = item[b] /\ thread'[b] = thread[b]
  BY <1>1 DEF SessionInv, Shaped
<1>6. Shaped'
  <2>1. /\ thread' \in [Attempts -> Phases] /\ item' \in [Attempts -> 1..ItemCount + 1]
        /\ reply' \in [Attempts -> {"none", "ready", "rejected", "refused", "completed"}]
    <3>1. 1 \in 1..ItemCount + 1 BY Numbers
    <3> QED BY <1>1, <3>1 DEF SessionInv, Shaped
  <2>2. ready' \in [Attempts -> [Items -> [offset : Nat, missing : SUBSET Nat]]]
    BY <1>1, <1>4 DEF SessionInv, Shaped
  <2>3. offer' # 0 => offer' \in Attempts /\ thread'[offer'] = "pending"
    BY <1>1, OfferKept DEF SessionInv
  <2> QED BY <1>1, <2>1, <2>2, <2>3 DEF SessionInv, Shaped, IsBook
<1>7. \A b \in Attempts : b # a => Same(b) BY <1>1, <1>5 DEF Same
<1>8. Session(a)'
  <2>1. wire[a] = <<>> /\ reply[a] = "none" /\ ~(a > attempt')
    BY <1>1 DEF SessionInv, Session, Turn
  <2>2. \A i : MissingRanges(memory[a], i)' = MissingRanges(memory[a], i)
    BY <1>1 DEF MissingRanges
  <2>3. Turn(a)'
    <3>1. \A i \in Items : ~(i < 1) BY Numbers
    <3> QED BY <1>5, <2>1, <3>1 DEF Turn
  <2>4. Accounts(a)'
    <3>1. Upto(memory[a], ItemCount + 1) = Upto(memory[a], item[a])
      <4>1. \A i \in Items : i < ItemCount + 1 BY Numbers
      <4> QED BY <1>2, <4>1 DEF Upto
    <3>2. counted[a] = Cardinality(Upto(memory[a], ItemCount + 1))
      BY <1>1, <3>1 DEF SessionInv, Session, Accounts
    <3>3. Upto(memory[a], ItemCount + 1)' = Upto(memory[a], ItemCount + 1)
      BY <1>1 DEF Upto
    <3>4. counted'[a] = counted[a] BY <1>1
    <3> QED BY <1>5, <3>2, <3>3, <3>4 DEF Accounts
  <2>5. Answered(a)'
    <3>1. \A i \in Items : Fits(i, answer[i].offset, answer[i].missing)
      BY <1>1, <1>2, <1>4 DEF SessionInv, Session, Answered
    <3>2. \A i \in Items : Fits(i, ready'[a][i].offset, ready'[a][i].missing) BY <1>5, <3>1
    <3>3. (\A i \in Items : Fits(i, ready[a][i].offset, ready[a][i].missing))'
      BY <3>2 DEF Fits
    <3>4. \A i \in Items : ready'[a][i].missing = MissingRanges(memory[a], i)'
      BY <1>4, <1>5, <2>2
    <3> QED BY <1>5, <3>3, <3>4 DEF Answered
  <2>6. InStep(a)'
    <3>1. Under(a)' = {} BY <1>1, <2>1 DEF Under
    <3>2. a = attempt /\ sender = "streaming" => FALSE
      BY <1>1, <2>1 DEF SessionInv, SenderTurn
    <3> QED BY <1>1, <3>1, <3>2 DEF InStep
  <2> QED BY <2>3, <2>4, <2>5, <2>6 DEF Session
<1>9. wire'[a] = wire[a] /\ thread'[a] # "save" BY <1>1, <1>5
<1>10. reply[a] = "none" BY <1>1 DEF SessionInv, Session, Turn
<1> QED BY <1>1, <1>6, <1>7, <1>8, <1>9, <1>10, ThreadFrame

(* The next piece the receiver waits for is the first of what is left.     *)
LEMMA HeadIsExpected ==
    ASSUME SessionInv, NEW a \in Attempts, thread[a] = "receive", wire[a] # <<>>,
           item[a] \in Items, Missing(a) # {}
    PROVE  /\ Head(wire[a]) = wire[a][1] /\ wire[a][1] \in WirePieces
           /\ 1 \in Under(a) /\ At(a, 1) = <<item[a], Min(Missing(a))>>
           /\ Min(Missing(a)) \in Missing(a)
<1> DEFINE i == item[a]
           k == Min(Missing(a))
<1>0. wire[a] \in Seq(WirePieces) BY DEF SessionInv, Shaped
<1>1. PICK l \in Nat : l = Len(wire[a]) /\ l > 0 BY <1>0
<1>2. Head(wire[a]) = wire[a][1] /\ wire[a][1] \in WirePieces /\ 1 \in Under(a)
  BY <1>0, <1>1 DEF Under
<1>3. Missing(a) \subseteq Nat BY PiecesAreNumbers DEF Missing, MissingRanges
<1>4. k \in Missing(a) /\ \A x \in Missing(a) : k <= x BY <1>3, MinIsLeast
<1>5. Remaining(a) = UNION {{h} \X MissingRanges(memory[a], h) : h \in Items}
  BY DEF Remaining, InHand
<1>6. <<i, k>> \in Remaining(a) BY <1>4, <1>5 DEF Missing
<1>7. /\ \A m, n \in Under(a) : m < n => Earlier(At(a, m), At(a, n))
      /\ \A n \in Under(a) : At(a, n) \in Remaining(a)
      /\ \A r \in Remaining(a), n \in Under(a) :
            Earlier(r, At(a, n)) => \E m \in Under(a) : r = At(a, m)
  BY DEF SessionInv, Session, InStep, Streaming
<1>8. PICK h \in Items : \E x \in MissingRanges(memory[a], h) : At(a, 1) = <<h, x>>
  BY <1>2, <1>5, <1>7
<1>9. PICK x \in MissingRanges(memory[a], h) : At(a, 1) = <<h, x>> BY <1>8
<1>10. h >= i
  <2>1. \A g \in Items : g < i => MissingRanges(memory[a], g) = {}
    BY AtAnItem DEF Streaming
  <2> QED BY <1>9, <2>1, Numbers
<1>11. h = i => k <= x BY <1>4, <1>9 DEF Missing
<1>12. x \in Nat /\ k \in Nat /\ h \in Nat /\ i \in Nat
  BY <1>3, <1>4, <1>9, Numbers, PiecesAreNumbers DEF MissingRanges
<1> HIDE DEF i, k
<1>13. ASSUME ~(h = i /\ x = k) PROVE FALSE
  <2>1. Earlier(<<i, k>>, At(a, 1)) BY <1>9, <1>10, <1>11, <1>12, <1>13 DEF Earlier
  <2>2. PICK m \in Under(a) : <<i, k>> = At(a, m) BY <1>2, <1>6, <1>7, <2>1
  <2>3. m \in Nat /\ m >= 1 BY <1>1 DEF Under
  <2>4. m # 1 BY <1>9, <1>13, <2>2
  <2>5. Earlier(At(a, 1), At(a, m)) BY <1>2, <1>7, <2>2, <2>3, <2>4
  <2>6. Earlier(<<h, x>>, <<i, k>>) BY <1>9, <2>2, <2>5
  <2> QED BY <1>10, <1>11, <1>12, <2>6 DEF Earlier
<1> QED BY <1>2, <1>4, <1>9, <1>13 DEF i, k

(* A piece comes, in its turn or not.                                      *)
LEMMA WritePieceStep == ASSUME SessionInv, NEW a \in Attempts, WritePiece(a) PROVE SessionInv'
<1> USE DEF Early, Streaming, Phases
<1> DEFINE i == item[a]
           k == Min(Missing(a))
<1>1. /\ thread[a] = "receive" /\ i <= ItemCount /\ Missing(a) # {} /\ wire[a] # <<>>
      /\ wire' = [wire EXCEPT ![a] = Tail(@)]
      /\ UNCHANGED <<version, sender, attempt, manifest, todo, reply, ready, offer, policy,
                     counted, journal, files, restarts>>
  BY DEF WritePiece, Receiving, senderVars, answerVars
<1>2. CASE ~Expected(a, Head(wire[a]))
  <2>1. End(a) /\ UNCHANGED <<senderVars, answerVars, offer, policy, counted, journal, partial,
                              files, restarts>>
    BY <1>2 DEF WritePiece, Fails
  <2>2. history' \in Statuses BY <1>2 DEF WritePiece, Fails, Record, Statuses
  <2> QED BY <1>1, <2>1, <2>2, EndStep
<1>3. CASE Expected(a, Head(wire[a]))
  <2> DEFINE x == Head(wire[a])
  <2>1. /\ partial' = [partial EXCEPT ![i] =
               [(IF @ = Absent THEN Whole(i, Hole) ELSE @) EXCEPT ![x.index] = x.version]]
        /\ thread' = [thread EXCEPT ![a] = "save"] /\ UNCHANGED <<item, dest, memory, history>>
    BY <1>3 DEF WritePiece, Pass
  <2>2. i \in Items BY <1>1, Numbers DEF SessionInv, Shaped
  <2>3. /\ x = wire[a][1] /\ x \in WirePieces /\ 1 \in Under(a) /\ At(a, 1) = <<i, k>>
        /\ k \in Missing(a)
    BY <1>1, <2>2, HeadIsExpected
  <2>4. x.index \in Pieces(i) /\ x.version \in 1..MaxVersions
    BY <2>3 DEF At, WirePieces
  <2>5. /\ thread'[a] = "save" /\ wire'[a] = Tail(wire[a])
        /\ \A b \in Attempts : b # a => thread'[b] = thread[b] /\ wire'[b] = wire[b]
    BY <1>1, <2>1 DEF SessionInv, Shaped
  <2>6. wire[a] \in Seq(WirePieces) BY DEF SessionInv, Shaped
  <2>7. PICK l \in Nat : Len(wire[a]) = l + 1
    <3>1. Len(wire[a]) \in Nat /\ Len(wire[a]) > 0 BY <1>1, <2>6
    <3>2. Len(wire[a]) - 1 \in Nat BY <3>1
    <3> QED BY <3>2
  <2>8. /\ wire'[a] \in Seq(WirePieces) /\ Len(wire'[a]) = l
        /\ \A n \in 1..l : wire'[a][n] = wire[a][n + 1]
    <3>1. Tail(wire[a]) \in Seq(WirePieces) /\ Len(Tail(wire[a])) = Len(wire[a]) - 1
      BY <1>1, <2>6
    <3>2. \A n \in 1..Len(wire[a]) - 1 : Tail(wire[a])[n] = wire[a][n + 1] BY <1>1, <2>6
    <3>3. Len(wire[a]) - 1 = l BY <2>7
    <3> QED BY <2>5, <3>1, <3>2, <3>3
  <2> HIDE DEF x, i, k
  <2>9. Shaped'
    <3>1. thread' \in [Attempts -> Phases] BY <2>1 DEF SessionInv, Shaped
    <3>2. wire' \in [Attempts -> Seq(WirePieces)] BY <1>1, <2>5, <2>8 DEF SessionInv, Shaped
    <3>3. \A b \in Attempts : Len(wire'[b]) <= Buffer
      <4>1. \A b \in Attempts : Len(wire[b]) <= Buffer BY DEF SessionInv, Shaped
      <4>2. Len(wire'[a]) <= Buffer BY <2>7, <2>8, <4>1, Numbers
      <4> QED BY <2>5, <4>1, <4>2
    <3>4. /\ DOMAIN partial' = Items
          /\ \A h \in Items : partial'[h] = Absent \/ partial'[h] \in [Pieces(h) -> 1..Hole]
      <4> DEFINE old == IF partial[i] = Absent THEN Whole(i, Hole) ELSE partial[i]
      <4>1. Hole \in 1..Hole /\ x.version \in 1..Hole BY <2>4, Numbers DEF Hole
      <4>2. old \in [Pieces(i) -> 1..Hole]
        BY <2>2, <4>1 DEF SessionInv, Shaped, Whole
      <4> HIDE DEF old
      <4>3. [old EXCEPT ![x.index] = x.version] \in [Pieces(i) -> 1..Hole]
        BY <2>4, <4>1, <4>2
      <4>4. partial' = [partial EXCEPT ![i] = [old EXCEPT ![x.index] = x.version]]
        BY <2>1 DEF old
      <4>5. DOMAIN partial = Items
            /\ \A h \in Items : partial[h] = Absent \/ partial[h] \in [Pieces(h) -> 1..Hole]
        BY DEF SessionInv, Shaped
      <4>6. DOMAIN partial' = Items /\ partial'[i] \in [Pieces(i) -> 1..Hole]
            /\ \A h \in Items : h # i => partial'[h] = partial[h]
        BY <2>2, <4>3, <4>4, <4>5
      <4> QED BY <4>5, <4>6
    <3>5. offer' # 0 => offer' \in Attempts /\ thread'[offer'] = "pending"
      BY <1>1, <2>1, OfferKept DEF SessionInv
    <3> QED BY <1>1, <2>1, <3>1, <3>2, <3>3, <3>4, <3>5 DEF SessionInv, Shaped, IsBook
  <2>10. \A b \in Attempts : b # a => Same(b) BY <1>1, <2>1, <2>5 DEF Same
  <2>11. Session(a)'
    <3>1. \A h : MissingRanges(memory[a], h)' = MissingRanges(memory[a], h) /\ Missing(a)' = Missing(a)
      BY <2>1 DEF MissingRanges, Missing
    <3>2. Turn(a)'
      <4>1. thread[a] # "none" /\ reply'[a] = "ready" /\ item'[a] = item[a] /\ ~(a > attempt')
            /\ item[a] \in Items
        BY <1>1, <2>1, <2>2 DEF SessionInv, Session, Turn, i
      <4>2. \A h \in Items : h < item[a] => MissingRanges(memory[a], h) = {} BY <1>1, AtAnItem
      <4> QED BY <1>1, <2>5, <3>1, <4>1, <4>2 DEF Turn
    <3>3. Accounts(a)'
      <4>1. Upto(memory[a], ItemCount + 1)' = Upto(memory[a], ItemCount + 1)
        BY <2>1 DEF Upto
      <4>2. counted'[a] = counted[a] /\ reply'[a] = reply[a] BY <1>1
      <4> QED BY <1>1, <2>5, <4>1, <4>2 DEF SessionInv, Session, Accounts
    <3>4. Answered(a)' BY <1>1, <2>5, <3>1 DEF SessionInv, Session, Answered
    <3>5. Under(a) = 1..(l + 1) /\ Under(a)' = 1..l BY <2>7, <2>8 DEF Under
    <3>6. \A n \in 1..l : At(a, n)' = At(a, n + 1) BY <2>8 DEF At
    <3>7. Remaining(a)' = Remaining(a) \ {At(a, 1)}
      <4>1. InHand(a) = {} BY <1>1 DEF InHand
      <4>2. InHand(a)' = {<<i, k>>} BY <2>1, <2>5, <3>1 DEF InHand, i, k
      <4>3. Remaining(a)' = (UNION {{h} \X MissingRanges(memory[a], h) : h \in Items}) \ InHand(a)'
        BY <3>1 DEF Remaining
      <4> QED BY <2>3, <4>1, <4>2, <4>3 DEF Remaining
    <3>8. /\ \A m, n \in Under(a) : m < n => Earlier(At(a, m), At(a, n))
          /\ \A n \in Under(a) : At(a, n) \in Remaining(a)
          /\ \A r \in Remaining(a), n \in Under(a) :
                Earlier(r, At(a, n)) => \E m \in Under(a) : r = At(a, m)
          /\ a = attempt /\ sender = "streaming" =>
                /\ \A t \in todo, n \in Under(a) : Earlier(At(a, n), t)
                /\ todo \subseteq Remaining(a)
                /\ \A r \in Remaining(a) : r \in todo \/ \E m \in Under(a) : r = At(a, m)
      BY <1>1 DEF SessionInv, Session, InStep
    <3>9. ~Earlier(At(a, 1), At(a, 1))
      <4>1. k \in Nat /\ i \in Nat
        BY <2>2, <2>3, Numbers, PiecesAreNumbers DEF Missing, MissingRanges, i
      <4> QED BY <2>3, <4>1 DEF Earlier
    <3>10. \A n \in 1..l : n + 1 \in Under(a) /\ Earlier(At(a, 1), At(a, n + 1)) 
      <4>1. \A n \in 1..l : n + 1 \in Under(a) /\ 1 < n + 1 BY <3>5
      <4> QED BY <2>3, <3>8, <4>1
    <3>11. ASSUME NEW r \in Remaining(a)', \E m \in Under(a) : r = At(a, m)
           PROVE  \E m \in Under(a)' : r = At(a, m)'
      <4>1. PICK m \in Under(a) : r = At(a, m) BY <3>11
      <4>2. m # 1 BY <3>7, <4>1
      <4>3. m - 1 \in 1..l /\ (m - 1) + 1 = m BY <3>5, <4>1, <4>2
      <4> QED BY <3>5, <3>6, <4>1, <4>3
    <3>12. \A n \in Under(a)' : At(a, n)' \in Remaining(a)'
      BY <3>5, <3>6, <3>7, <3>8, <3>9, <3>10
    <3>13. \A r \in Remaining(a)', n \in Under(a)' :
              Earlier(r, At(a, n)') => \E m \in Under(a)' : r = At(a, m)'
      BY <3>5, <3>6, <3>7, <3>8, <3>10, <3>11
    <3>14. a = attempt /\ sender = "streaming" =>
              /\ todo \subseteq Remaining(a)'
              /\ \A r \in Remaining(a)' : r \in todo \/ \E m \in Under(a)' : r = At(a, m)'
      BY <2>3, <3>7, <3>8, <3>9, <3>11
    <3>15. /\ \A m, n \in Under(a)' : m < n => Earlier(At(a, m)', At(a, n)')
           /\ a = attempt /\ sender = "streaming" =>
                 \A t \in todo, n \in Under(a)' : Earlier(At(a, n)', t)
      BY <1>1, <2>5, WireShrinks DEF SessionInv
    <3>16. InStep(a)' BY <1>1, <3>12, <3>13, <3>14, <3>15 DEF InStep
    <3> QED BY <3>2, <3>3, <3>4, <3>16 DEF Session
  <2> QED BY <1>1, <2>9, <2>10, <2>11, ThreadFrame
<1> QED BY <1>2, <1>3

(* The piece that was written is marked and counted.                       *)
LEMMA SavePieceStep == ASSUME SessionInv, NEW a \in Attempts, SavePiece(a) PROVE SessionInv'
<1> USE DEF Early, Streaming, Phases
<1>0. PICK i, k : i = item[a] /\ k = Min(Missing(a)) OBVIOUS
<1> DEFINE book == MarkVerified(memory[a], i, k)
<1>1. /\ thread[a] = "save" /\ thread' = [thread EXCEPT ![a] = "receive"]
      /\ memory' = [memory EXCEPT ![a] = book] /\ journal' = memory'[a]
      /\ counted' = [counted EXCEPT ![a] = @ + Bytes(i, k)]
      /\ UNCHANGED <<version, sender, attempt, manifest, todo, wire, reply, ready, offer, item,
                     policy, dest, partial, files, history, restarts>>
  BY <1>0 DEF SavePiece, Pass, SaveJournal, senderVars, answerVars
<1>2. i \in Items /\ Missing(a) # {} /\ IsBook(memory[a])
  BY <1>0, <1>1 DEF SessionInv, Session, Turn, Shaped
<1>3. k \in MissingRanges(memory[a], i) /\ k \in Pieces(i) /\ k \in Nat
  <2>1. Missing(a) \subseteq Nat BY <1>0, <1>2, PiecesAreNumbers DEF Missing, MissingRanges
  <2>2. k \in Missing(a) BY <1>0, <1>2, <2>1, MinIsLeast
  <2> QED BY <1>0, <2>1, <2>2 DEF Missing, MissingRanges
<1>4. /\ IsBook(book) /\ book.verified[i] = memory[a].verified[i] \cup {k}
      /\ \A h \in Items : h # i => book.verified[h] = memory[a].verified[h]
  <2>1. memory[a] \in Books /\ memory[a].verified \in [Items -> SUBSET Nat]
    BY <1>2 DEF IsBook, Books
  <2>2. book.verified = [memory[a].verified EXCEPT ![i] = memory[a].verified[i] \cup {k}]
    BY <2>1 DEF MarkVerified, Books
  <2>3. book.verified \in [Items -> SUBSET Nat]
    BY <1>2, <1>3, <2>1, <2>2
  <2>4. book \in Books BY <2>1, <2>2, <2>3 DEF MarkVerified, Books
  <2>5. book.verified[i] = memory[a].verified[i] \cup {k}
        /\ \A h \in Items : h # i => book.verified[h] = memory[a].verified[h]
    BY <1>2, <2>1, <2>2
  <2>6. \A h \in Items : book.verified[h] \subseteq Pieces(h)
    BY <1>2, <1>3, <2>5 DEF IsBook
  <2> QED BY <2>4, <2>5, <2>6 DEF IsBook
<1>5. counted[a] + Bytes(i, k) = Cardinality(Upto(book, ItemCount + 1))
  <2>1. counted[a] = Cardinality(Upto(memory[a], ItemCount + 1))
    BY <1>1 DEF SessionInv, Session, Accounts
  <2> QED BY <1>2, <1>3, <2>1, CountNextPiece
<1> HIDE DEF book
<1>6. /\ thread'[a] = "receive" /\ memory'[a] = book /\ journal' = book
      /\ counted'[a] = Cardinality(Upto(book, ItemCount + 1))
      /\ \A b \in Attempts : b # a => /\ thread'[b] = thread[b] /\ memory'[b] = memory[b]
                                      /\ counted'[b] = counted[b]
  BY <1>1, <1>5 DEF SessionInv, Shaped
<1>7. Shaped'
  <2>1. \A b \in Attempts : IsBook(memory'[b]) BY <1>4, <1>6 DEF SessionInv, Shaped
  <2>2. IsBook(journal') BY <1>4, <1>6
  <2>3. memory' \in [Attempts -> Books] BY <1>1, <1>4 DEF SessionInv, Shaped, IsBook
  <2>4. thread' \in [Attempts -> Phases] BY <1>1 DEF SessionInv, Shaped
  <2>5. counted' \in [Attempts -> 0..Total]
    <3>1. counted[a] + Bytes(i, k) \in 0..Total BY <1>5, CountedIsPart
    <3> QED BY <1>1, <3>1 DEF SessionInv, Shaped
  <2>6. offer' # 0 => offer' \in Attempts /\ thread'[offer'] = "pending"
    BY <1>1, OfferKept DEF SessionInv
  <2> QED BY <1>1, <2>1, <2>2, <2>3, <2>4, <2>5, <2>6 DEF SessionInv, Shaped
<1>8. \A b \in Attempts : b # a => Same(b) BY <1>1, <1>6 DEF Same
<1>9. Session(a)'
  <2>1. /\ MissingRanges(memory[a], i)' = MissingRanges(memory[a], i) \ {k}
        /\ \A h \in Items : h # i => MissingRanges(memory[a], h)' = MissingRanges(memory[a], h)
    BY <1>4, <1>6 DEF MissingRanges
  <2>2. Turn(a)'
    <3>1. /\ reply'[a] = "ready" /\ item'[a] = item[a] /\ ~(a > attempt')
          /\ \A h \in Items : h < item[a] => MissingRanges(memory[a], h) = {}
      BY <1>1 DEF SessionInv, Session, Turn
    <3>2. \A h \in Items : h < item[a] => MissingRanges(memory[a], h)' = {}
      BY <2>1, <3>1
    <3> QED BY <1>6, <3>1, <3>2 DEF Turn
  <2>3. Accounts(a)'
    <3>1. Upto(memory[a], ItemCount + 1)' = Upto(book, ItemCount + 1) BY <1>6 DEF Upto
    <3>2. reply'[a] = "ready" BY <1>1 DEF SessionInv, Session, Turn
    <3> QED BY <1>6, <3>1, <3>2 DEF Accounts
  <2>4. Answered(a)'
    <3>1. ~(sender = "offered" /\ a = attempt) BY <1>1 DEF SessionInv, SenderTurn
    <3> QED BY <1>1, <1>6, <3>1 DEF SessionInv, Session, Answered
  <2>5. InStep(a)'
    <3>1. Remaining(a) = (UNION {{h} \X MissingRanges(memory[a], h) : h \in Items}) \ {<<i, k>>}
      BY <1>0, <1>1 DEF Remaining, InHand
    <3>2. Remaining(a)' = UNION {{h} \X MissingRanges(memory[a], h)' : h \in Items}
      BY <1>6 DEF Remaining, InHand
    <3>3. Remaining(a)' = Remaining(a)
      <4>1. ASSUME NEW r PROVE r \in Remaining(a)' <=> r \in Remaining(a)
        <5>1. r \in Remaining(a)' <=> \E h \in Items : r \in {h} \X MissingRanges(memory[a], h)'
          BY <3>2
        <5>2. ASSUME NEW h \in Items, h # i
              PROVE  r \in {h} \X MissingRanges(memory[a], h)'
                        <=> r \in ({h} \X MissingRanges(memory[a], h)) \ {<<i, k>>}
          BY <2>1, <5>2
        <5>3. r \in {i} \X MissingRanges(memory[a], i)'
                 <=> r \in ({i} \X MissingRanges(memory[a], i)) \ {<<i, k>>}
          BY <2>1
        <5> QED BY <3>1, <5>1, <5>2, <5>3
      <4> QED BY <4>1
    <3>4. Under(a)' = Under(a) /\ \A n : At(a, n)' = At(a, n) BY <1>1 DEF Under, At
    <3> QED BY <1>1, <3>3, <3>4 DEF SessionInv, Session, InStep
  <2> QED BY <2>2, <2>3, <2>4, <2>5 DEF Session
<1>10. thread'[a] # "save" /\ wire'[a] = wire[a] /\ reply'[a] = reply[a] BY <1>1, <1>6
<1> QED BY <1>1, <1>7, <1>8, <1>9, <1>10, ThreadFrame

-----------------------------------------------------------------------------
(* Together.                                                               *)

(* Every step keeps the session.                                           *)
LEMMA NextSession == SessionInv /\ [Next]_vars => SessionInv'
<1> SUFFICES ASSUME SessionInv, [Next]_vars PROVE SessionInv' OBVIOUS
<1>1. ASSUME UNCHANGED vars PROVE SessionInv'
  <2>1. UNCHANGED <<version, sender, attempt, manifest, todo, wire, reply, ready, offer, thread,
                    item, policy, dest, memory, counted, journal, partial, files, history,
                    restarts>>
    BY <1>1 DEF vars, senderVars, answerVars, threadVars, diskVars
  <2>2. Shaped' BY <2>1 DEF SessionInv, Shaped, IsBook
  <2>3. SenderTurn' BY <2>1 DEF SessionInv, SenderTurn
  <2>4. \A b \in Attempts : Session(b)' BY <2>1, SameKeeps DEF SessionInv, Same
  <2> QED BY <2>2, <2>3, <2>4 DEF SessionInv
<1>2. CASE SenderStep
  BY <1>2, ConnectStep, SenderStops, StartStreamingStep, SendPieceStep DEF SenderStep
<1>3. ASSUME NEW a \in Attempts, OfferStep(a) PROVE SessionInv'
  BY <1>3, InsertOfferStep, AcceptStep, DismissStep DEF OfferStep
<1>4. ASSUME NEW a \in Attempts, ThreadStep(a) PROVE SessionInv'
  BY <1>4, FailStep, StartedStep, OpenJournalStep, ReconcileStep, AnswerReadyStep, WritePieceStep,
     SavePieceStep, VerifyStep, ChooseStep, PublishStep, SaveCompleteStep, CompletedStep,
     RecordStep DEF ThreadStep
<1> QED BY <1>1, <1>2, <1>3, <1>4, EditSourceStep, RestartStep DEF Next

(* Sender and receive threads stay in step, whatever breaks, restarts or   *)
(* is found on the disk.                                                   *)
THEOREM SessionKept == Spec => []SessionInv
BY InitSession, NextSession, PTL DEF Spec

(* BothCountTheSamePieces: a piece never comes out of turn, and the sender *)
(* never turns an answer down.                                             *)
THEOREM PiecesComeInTurn == Spec => []BothCountTheSamePieces
<1>1. SessionInv => BothCountTheSamePieces
  <2> SUFFICES ASSUME SessionInv PROVE BothCountTheSamePieces OBVIOUS
  <2>1. ASSUME NEW a \in Attempts, Receiving(a), wire[a] # <<>>
        PROVE  \/ Expected(a, Head(wire[a]))
               \/ Missing(a) = {} /\ Head(wire[a]).item > item[a]
    <3>1. thread[a] = "receive" /\ item[a] \in Items
      BY <2>1, Numbers DEF Receiving, SessionInv, Shaped
    <3>2. CASE Missing(a) # {}
      <4>1. Head(wire[a]) = wire[a][1] /\ At(a, 1) = <<item[a], Min(Missing(a))>>
        BY <2>1, <3>1, <3>2, HeadIsExpected
      <4> QED BY <3>2, <4>1 DEF At, Expected
    <3>3. CASE Missing(a) = {}
      <4>1. wire[a] \in Seq(WirePieces) BY DEF SessionInv, Shaped
      <4>2. Head(wire[a]) = wire[a][1] /\ 1 \in Under(a) BY <2>1, <4>1 DEF Under
      <4>3. At(a, 1) \in Remaining(a)
        BY <3>1, <4>2 DEF SessionInv, Session, InStep, Streaming
      <4>4. PICK h \in Items : At(a, 1) \in {h} \X MissingRanges(memory[a], h)
        BY <4>3 DEF Remaining
      <4>5. wire[a][1].item = h /\ MissingRanges(memory[a], h) # {} BY <4>4 DEF At
      <4>6. h # item[a] /\ ~(h < item[a])
        BY <3>1, <3>3, <4>5, AtAnItem DEF Missing, Streaming
      <4>7. h > item[a] BY <3>1, <4>6, Numbers
      <4> QED BY <3>3, <4>2, <4>5, <4>7
    <3> QED BY <3>2, <3>3
  <2>2. ASSUME sender = "offered", reply[attempt] = "ready" PROVE AnswerValid
    <3>1. attempt \in Attempts BY <2>2 DEF SessionInv, SenderTurn
    <3>2. ASSUME NEW i \in Items PROVE OffsetValid(i) /\ RangesValid(i)
      <4>1. Fits(i, ready[attempt][i].offset, ready[attempt][i].missing)
        BY <2>2, <3>1 DEF SessionInv, Session, Answered
      <4>2. Size[i] <= Size[i] + PieceSize BY PiecesAreNumbers, Numbers
      <4> QED BY <4>1, <4>2 DEF Fits, OffsetValid, RangesValid
    <3> QED BY <3>2 DEF AnswerValid
  <2> QED BY <2>1, <2>2 DEF BothCountTheSamePieces
<1> QED BY <1>1, SessionKept, PTL

(* CompletionAccountsForAll: when a receiver says "completed", pieces      *)
(* found and pieces received add up to the size of the job.                *)
THEOREM CompletionCounts == Spec => []CompletionAccountsForAll
<1>1. SessionInv => CompletionAccountsForAll
  BY DEF SessionInv, Session, Accounts, CompletionAccountsForAll
<1> QED BY <1>1, SessionKept, PTL

-----------------------------------------------------------------------------
(* Every item takes a name for each attempt at most, so one is left free.  *)

Spent(i) == {a \in Attempts :
    \/ thread[a] \in {"record", "ended"}
    \/ thread[a] \in Streaming /\ (item[a] > i \/ (item[a] = i /\ thread[a] = "mark"))}
TakenNames(i) == {n \in Names : Taken(i, n)}
NamesInv ==
    /\ dest \in [Attempts -> Names]
    /\ \A i \in Items : Cardinality(TakenNames(i)) <= 1 + Cardinality(Spent(i))

(* The sets that are compared are finite.                                  *)
LEMMA NamesAreFinite ==
    /\ IsFiniteSet(Names) /\ Cardinality(Names) = MaxAttempts + 2
    /\ IsFiniteSet(Attempts) /\ Cardinality(Attempts) = MaxAttempts
    /\ \A i : /\ IsFiniteSet(TakenNames(i)) /\ Cardinality(TakenNames(i)) \in Nat
              /\ IsFiniteSet(Spent(i)) /\ Cardinality(Spent(i)) \in 0..MaxAttempts
<1>1. 0 \in Int /\ 1 \in Int /\ MaxAttempts \in Int /\ MaxAttempts + 1 \in Int BY Numbers
<1>2. IsFiniteSet(Names) /\ Cardinality(Names) = MaxAttempts + 2
  <2>1. IsFiniteSet(Names)
        /\ Cardinality(Names) = IF 0 > MaxAttempts + 1 THEN 0 ELSE (MaxAttempts + 1) - 0 + 1
    BY <1>1, FS_Interval DEF Names
  <2> QED BY <2>1, Numbers
<1>3. IsFiniteSet(Attempts) /\ Cardinality(Attempts) = MaxAttempts
  <2>1. IsFiniteSet(Attempts)
        /\ Cardinality(Attempts) = IF 1 > MaxAttempts THEN 0 ELSE MaxAttempts - 1 + 1
    BY <1>1, FS_Interval DEF Attempts
  <2> QED BY <2>1, Numbers
<1>4. ASSUME NEW i
      PROVE  /\ IsFiniteSet(TakenNames(i)) /\ Cardinality(TakenNames(i)) \in Nat
             /\ IsFiniteSet(Spent(i)) /\ Cardinality(Spent(i)) \in 0..MaxAttempts
  <2>1. TakenNames(i) \subseteq Names /\ Spent(i) \subseteq Attempts
    BY DEF TakenNames, Spent
  <2>2. IsFiniteSet(TakenNames(i)) /\ IsFiniteSet(Spent(i))
        /\ Cardinality(Spent(i)) <= Cardinality(Attempts)
    BY <1>2, <1>3, <2>1, FS_Subset
  <2>3. Cardinality(TakenNames(i)) \in Nat /\ Cardinality(Spent(i)) \in Nat
    BY <2>2, FS_CardinalityType
  <2> QED BY <1>3, <2>2, <2>3, Numbers
<1> QED BY <1>2, <1>3, <1>4

(* At the beginning a file of someone else may be there, under one name.   *)
LEMMA InitNames == Init => NamesInv
<1> SUFFICES ASSUME Init PROVE NamesInv OBVIOUS
<1>1. dest \in [Attempts -> Names] BY Numbers DEF Init, Names
<1>2. ASSUME NEW i \in Items PROVE Cardinality(TakenNames(i)) <= 1 + Cardinality(Spent(i))
  <2>1. PICK taken : files = [h \in Items |-> [n \in Names |->
                        IF h \in taken /\ n = 0 THEN <<Someone>> ELSE Absent]]
    BY DEF Init
  <2>2. TakenNames(i) \subseteq {0} BY <2>1 DEF TakenNames, Taken
  <2>3. IsFiniteSet({0}) /\ Cardinality({0}) = 1 BY FS_Singleton
  <2>4. Cardinality(TakenNames(i)) <= 1 BY <2>2, <2>3, FS_Subset
  <2> QED BY <2>4, NamesAreFinite
<1> QED BY <1>1, <1>2 DEF NamesInv

(* While a name is free, FreeName is one.                                  *)
LEMMA FreeNameIsFree ==
    ASSUME NamesInv, NEW i \in Items
    PROVE  FreeName(i) \in Names /\ ~Taken(i, FreeName(i))
<1> DEFINE free == {n \in Names : ~Taken(i, n)}
<1>1. free \subseteq Nat BY Numbers DEF Names
<1>2. free # {}
  <2>1. free = {} => TakenNames(i) = Names BY DEF TakenNames
  <2>2. Cardinality(TakenNames(i)) <= 1 + MaxAttempts
    BY NamesAreFinite, Numbers DEF NamesInv
  <2> QED BY <2>1, <2>2, NamesAreFinite, Numbers
<1>3. Min(free) \in free BY <1>1, <1>2, MinIsLeast
<1> QED BY <1>3 DEF FreeName

(* An attempt that has had its chance at an item does not get another.     *)
LEMMA SpentGrows ==
    ASSUME SessionInv, [Next]_vars, NEW i \in Items, NEW a \in Spent(i)
    PROVE  a \in Spent(i)'
<1> USE DEF Early, Streaming, Phases
<1>0. a \in Attempts /\ (\/ thread[a] \in {"record", "ended"}
                         \/ thread[a] \in Streaming /\
                               (item[a] > i \/ (item[a] = i /\ thread[a] = "mark")))
  BY DEF Spent
<1>1. thread \in [Attempts -> Phases] /\ item \in [Attempts -> 1..ItemCount + 1]
      /\ ~(a > attempt) /\ (offer # 0 => thread[offer] = "pending") 
  BY <1>0 DEF SessionInv, Shaped, Session, Turn
<1>2. CASE UNCHANGED <<thread, item>> BY <1>0, <1>2 DEF Spent
<1>3. ASSUME NEW b \in Attempts, End(b) PROVE a \in Spent(i)'
  BY <1>0, <1>1, <1>3 DEF End, Pass, Spent
<1>4. CASE Connect
  <2>1. thread'[a] = thread[a] /\ item' = item
    <3>1. attempt + 1 # a BY <1>0, <1>1, Numbers DEF SessionInv, Shaped
    <3> QED BY <1>0, <1>1, <1>4, <3>1 DEF Connect
  <2> QED BY <1>0, <2>1 DEF Spent
<1>5. CASE Restart
  <2>1. thread'[a] = "ended" BY <1>0, <1>5 DEF Restart
  <2> QED BY <1>0, <2>1 DEF Spent
<1>6. ASSUME NEW b \in Attempts, b # a, OfferStep(b) \/ ThreadStep(b) PROVE a \in Spent(i)'
  <2>1. thread'[a] = thread[a]
    BY <1>0, <1>1, <1>6
    DEF OfferStep, ThreadStep, InsertOffer, Accept, Dismiss, Fail, Fails, RecordStarted,
        OpenJournal, ReconcileItem, AnswerReady, WritePiece, SavePiece, Verify,
        ChooseDestination, Publish, SaveComplete, AnswerCompleted, RecordCompleted, End, Pass
  <2>2. item'[a] = item[a]
    BY <1>0, <1>1, <1>6
    DEF OfferStep, ThreadStep, InsertOffer, Accept, Dismiss, Fail, Fails, RecordStarted,
        OpenJournal, ReconcileItem, AnswerReady, WritePiece, SavePiece, Verify,
        ChooseDestination, Publish, SaveComplete, AnswerCompleted, RecordCompleted, End
  <2> QED BY <1>0, <2>1, <2>2 DEF Spent
<1>7. CASE OfferStep(a)
  <2>1. ~InsertOffer(a) BY <1>0 DEF InsertOffer
  <2>2. offer # a BY <1>0, <1>1, Numbers
  <2> QED BY <1>7, <2>1, <2>2 DEF OfferStep, Accept, Dismiss
<1>8. CASE RecordStarted(a) \/ OpenJournal(a) \/ ReconcileItem(a) \/ AnswerReady(a)
  BY <1>0, <1>8 DEF RecordStarted, OpenJournal, ReconcileItem, AnswerReady
<1>9. CASE Fail(a) \/ RecordCompleted(a)
  BY <1>0, <1>3, <1>9 DEF Fail, Fails, RecordCompleted
<1>10. CASE WritePiece(a) \/ SavePiece(a) \/ Verify(a) \/ ChooseDestination(a) \/ Publish(a)
  <2>1. \/ End(a)
        \/ thread[a] \in Streaming \ {"mark"} /\ thread'[a] \in Streaming /\ item' = item
    BY <1>0, <1>1, <1>10
    DEF WritePiece, SavePiece, Verify, ChooseDestination, Publish, Fails, Pass, Receiving
  <2> QED BY <1>0, <1>3, <2>1 DEF Spent
<1>11. CASE SaveComplete(a) \/ AnswerCompleted(a)
  <2>1. \/ thread'[a] = "record"
        \/ thread'[a] = "receive" /\ item'[a] = item[a] + 1
    BY <1>0, <1>1, <1>11 DEF SaveComplete, AnswerCompleted, Pass
  <2>2. thread[a] \in Streaming /\ item[a] >= i /\ item[a] \in Nat /\ i \in Nat
    BY <1>0, <1>1, <1>11, Numbers DEF SaveComplete, AnswerCompleted
  <2>3. item[a] + 1 > i BY <2>2
  <2> QED BY <1>0, <2>1, <2>3 DEF Spent
<1>12. ASSUME NEW b \in Attempts, OfferStep(b) \/ ThreadStep(b) PROVE a \in Spent(i)'
  <2>1. CASE b # a BY <1>6, <1>12, <2>1
  <2>2. CASE b = a
    BY <1>7, <1>8, <1>9, <1>10, <1>11, <1>12, <2>2 DEF ThreadStep
  <2> QED BY <2>1, <2>2
<1>13. CASE SenderStep
  <2>1. CASE ~Connect
    BY <1>2, <1>13, <2>1
    DEF SenderStep, SnapshotStale, StartStreaming, SendPiece, ReadAnswer, Break, threadVars
  <2> QED BY <1>4, <2>1
<1>14. CASE EditSource BY <1>2, <1>14 DEF EditSource, threadVars
<1>15. CASE UNCHANGED vars BY <1>2, <1>15 DEF vars, threadVars
<1> QED BY <1>5, <1>12, <1>13, <1>14, <1>15 DEF Next

(* No step takes a name without spending an attempt.                       *)
LEMMA NextNames == SessionInv /\ NamesInv /\ [Next]_vars => NamesInv'
<1> SUFFICES ASSUME SessionInv, NamesInv, [Next]_vars PROVE NamesInv' OBVIOUS
<1>1. dest' \in [Attempts -> Names]
  <2>0. dest \in [Attempts -> Names] /\ 0 \in Names BY Numbers DEF NamesInv, Names
  <2>1. ASSUME NEW a \in Attempts, End(a) PROVE dest' \in [Attempts -> Names]
    BY <2>0, <2>1 DEF End
  <2>2. ASSUME NEW a \in Attempts, ChooseDestination(a) PROVE dest' \in [Attempts -> Names]
    <3>1. item[a] \in Items BY <2>2 DEF ChooseDestination, SessionInv, Session, Turn, Streaming
    <3>2. FreeName(item[a]) \in Names BY <3>1, FreeNameIsFree
    <3> QED BY <2>0, <2>2, <3>2 DEF ChooseDestination
  <2>3. ASSUME NEW a \in Attempts, Publish(a) PROVE dest' \in [Attempts -> Names]
    BY <2>0, <2>1, <2>3 DEF Publish, Fails
  <2>4. CASE Restart BY <2>0, <2>4 DEF Restart
  <2>5. ASSUME NEW a \in Attempts, OfferStep(a) \/ ThreadStep(a)
        PROVE  dest' \in [Attempts -> Names]
    <3>1. dest' = dest \/ End(a) \/ ChooseDestination(a) \/ Publish(a)
      BY <2>5
      DEF OfferStep, ThreadStep, InsertOffer, Accept, Dismiss, Fail, Fails, RecordStarted,
          OpenJournal, ReconcileItem, AnswerReady, WritePiece, SavePiece, Verify,
          SaveComplete, AnswerCompleted, RecordCompleted
    <3> QED BY <2>0, <2>1, <2>2, <2>3, <2>5, <3>1
  <2>6. CASE SenderStep \/ EditSource \/ UNCHANGED vars
    <3>1. dest' = dest
      BY <2>6
      DEF SenderStep, Connect, SnapshotStale, StartStreaming, SendPiece, ReadAnswer, Break,
          EditSource, vars, threadVars
    <3> QED BY <2>0, <3>1
  <2> QED BY <2>4, <2>5, <2>6 DEF Next
<1>2. ASSUME NEW i \in Items PROVE Cardinality(TakenNames(i)') <= 1 + Cardinality(Spent(i)')
  <2>1. Spent(i) \subseteq Spent(i)' BY SpentGrows
  <2>2. IsFiniteSet(Spent(i)') /\ Spent(i)' \subseteq Attempts
    BY NamesAreFinite, FS_Subset DEF Spent
  <2>3. Cardinality(Spent(i)) <= Cardinality(Spent(i)') BY <2>1, <2>2, FS_Subset
  <2>4. Cardinality(Spent(i)) \in Nat /\ Cardinality(Spent(i)') \in Nat
        /\ Cardinality(TakenNames(i)) \in Nat
        /\ Cardinality(TakenNames(i)) <= 1 + Cardinality(Spent(i))
    BY <2>2, NamesAreFinite, FS_CardinalityType DEF NamesInv
  <2>5. CASE files' = files
    <3>1. TakenNames(i)' = TakenNames(i) BY <2>5 DEF TakenNames, Taken
    <3> QED BY <2>3, <2>4, <3>1
  <2>6. ASSUME NEW a \in Attempts, Publish(a), files' # files
        PROVE  Cardinality(TakenNames(i)') <= 1 + Cardinality(Spent(i)')
    <3>1. /\ thread[a] = "publish" /\ thread' = [thread EXCEPT ![a] = "mark"] /\ item' = item
          /\ files' = [files EXCEPT ![item[a]][dest[a]] = partial[item[a]]]
      BY <2>6 DEF Publish, Fails, Pass
    <3>2. dest[a] \in Names /\ DOMAIN files = Items /\ \A h \in Items : DOMAIN files[h] = Names
      BY DEF NamesInv, SessionInv, Shaped
    <3>3. CASE i # item[a]
      <4>1. files'[i] = files[i] BY <3>1, <3>2, <3>3
      <4>2. TakenNames(i)' = TakenNames(i) BY <4>1 DEF TakenNames, Taken
      <4> QED BY <2>3, <2>4, <4>2
    <3>4. CASE i = item[a]
      <4>1. \A n \in Names : n # dest[a] => files'[i][n] = files[i][n] BY <3>1, <3>2, <3>4
      <4>2. TakenNames(i)' \subseteq TakenNames(i) \cup {dest[a]}
        BY <4>1 DEF TakenNames, Taken
      <4>3. a \notin Spent(i) /\ a \in Spent(i)'
        <5>1. thread'[a] = "mark" /\ item'[a] = i
          BY <3>1, <3>4 DEF SessionInv, Shaped
        <5>2. ~(item[a] > i) BY <3>4, Numbers
        <5> QED BY <3>1, <5>1, <5>2 DEF Spent, Streaming
      <4>4. Spent(i) \cup {a} \subseteq Spent(i)' BY <2>1, <4>3
      <4>5. Cardinality(Spent(i) \cup {a}) = Cardinality(Spent(i)) + 1
        BY <4>3, NamesAreFinite, FS_AddElement
      <4>6. Cardinality(Spent(i) \cup {a}) <= Cardinality(Spent(i)')
        BY <2>2, <4>4, FS_Subset
      <4>7. /\ IsFiniteSet(TakenNames(i) \cup {dest[a]})
            /\ Cardinality(TakenNames(i) \cup {dest[a]}) <= Cardinality(TakenNames(i)) + 1
        <5>1. IsFiniteSet(TakenNames(i)) BY NamesAreFinite
        <5>2. /\ IsFiniteSet(TakenNames(i) \cup {dest[a]})
              /\ \/ Cardinality(TakenNames(i) \cup {dest[a]}) = Cardinality(TakenNames(i))
                 \/ Cardinality(TakenNames(i) \cup {dest[a]}) = Cardinality(TakenNames(i)) + 1
          BY SMTT(60), <5>1, FS_AddElement
        <5> QED BY <2>4, <5>2
      <4>8. Cardinality(TakenNames(i)') <= Cardinality(TakenNames(i) \cup {dest[a]})
            /\ IsFiniteSet(TakenNames(i)')
        BY <4>2, <4>7, FS_Subset
      <4>9. Cardinality(TakenNames(i)') \in Nat
            /\ Cardinality(TakenNames(i) \cup {dest[a]}) \in Nat
        BY <4>7, <4>8, FS_CardinalityType
      <4> QED BY <2>4, <4>5, <4>6, <4>7, <4>8, <4>9
    <3> QED BY <3>3, <3>4
  <2>7. files' = files \/ \E a \in Attempts : Publish(a)
    BY ZenonT(60)
       DEF Next, SenderStep, Connect, SnapshotStale, StartStreaming, SendPiece, ReadAnswer, Break,
           EditSource, Restart, OfferStep, ThreadStep, InsertOffer, Accept, Dismiss, Fail,
           Fails, RecordStarted, OpenJournal, ReconcileItem, AnswerReady, WritePiece, SavePiece,
           Verify, ChooseDestination, SaveComplete, AnswerCompleted, RecordCompleted, vars, diskVars
  <2> QED BY <2>5, <2>6, <2>7
<1>3. NamesInv' <=> /\ dest' \in [Attempts -> Names]
                    /\ \A i \in Items : Cardinality(TakenNames(i)') <= 1 + Cardinality(Spent(i)')
  BY DEF NamesInv
<1> QED BY <1>1, <1>2, <1>3

(* There is always a name left for destination_path to choose.             *)
THEOREM ANameIsLeft == Spec => [](\A i \in Items : ~Taken(i, FreeName(i)))
<1>1. NamesInv => \A i \in Items : ~Taken(i, FreeName(i)) BY FreeNameIsFree
<1> QED BY <1>1, InitSession, NextSession, InitNames, NextNames, PTL DEF Spec

(* TypeOK: the bounds of numbers and buffers hold too, those of the names  *)
(* that a renamed item may need and of the bytes that are counted.         *)
THEOREM TypesKept == Spec => []TypeOK
<1>1. SessionInv /\ NamesInv => TypeOK
  <2> SUFFICES ASSUME SessionInv, NamesInv PROVE TypeOK OBVIOUS
  <2>1. ASSUME NEW j, IsBook(j) PROVE j \in Journals
    <3>1. j \in Books BY <2>1 DEF IsBook
    <3>2. j.verified \in [Items -> SUBSET UNION {Pieces(i) : i \in Items}]
      BY <2>1, <3>1 DEF IsBook, Books
    <3> QED BY <3>1, <3>2 DEF Books, Journals
  <2>2. memory \in [Attempts -> Journals] /\ journal \in Journals
    BY <2>1 DEF SessionInv, Shaped
  <2>3. offer \in 0..MaxAttempts BY Numbers DEF SessionInv, Shaped
  <2> QED BY <2>2, <2>3 DEF SessionInv, Shaped, Statuses, NamesInv, TypeOK
<1> QED BY <1>1, InitSession, NextSession, InitNames, NextNames, PTL DEF Spec

-----------------------------------------------------------------------------
(* What is published, while one receive thread works at a time.            *)

(* A whole file is there.                                                  *)
LEMMA WholeIsThere == ASSUME NEW i \in Items, NEW v PROVE Whole(i, v) # Absent
<1>1. 0 \in DOMAIN Whole(i, v) BY PiecesAreNumbers DEF Whole
<1>2. 0 \notin DOMAIN <<>> OBVIOUS
<1> QED BY <1>1, <1>2 DEF Absent

(* While a thread works, no other does.                                    *)
LEMMA OthersIdle ==
    ASSUME Alone, NEW a \in AtWork, NEW b \in Attempts, b # a
    PROVE  thread[b] \in {"none", "incoming", "pending", "ended"}
BY DEF Alone, AtWork

(* What the others have is not disturbed by the one that works.            *)
LEMMA OthersKeep ==
    ASSUME SessionInv, PublishInv, NEW a \in AtWork, UNCHANGED <<version, attempt, manifest>>,
           \A b \in Attempts : b # a => thread'[b] = thread[b]
    PROVE  Alone' /\ \A b \in Attempts : b # a => Publishing(b)'
<1> USE DEF Working, Streaming
<1>1. \A b \in Attempts : b # a => thread'[b] \in {"none", "incoming", "pending", "ended"}
  BY OthersIdle DEF PublishInv
<1>2. Alone' BY <1>1 DEF Alone, AtWork
<1>3. \A b \in Attempts : b <= attempt' => manifest'[b] \in 1..version'
  BY DEF PublishInv, Publishing
<1> QED BY <1>1, <1>2, <1>3 DEF Publishing

(* What has been delivered stays so, and so does what is right.            *)
LEMMA DeliveryKeeps ==
    ASSUME UNCHANGED <<manifest, files>>, NEW b, policy'[b] = policy[b], NEW i, Delivered(b, i)
    PROVE  Delivered(b, i)'
BY DEF Delivered, Taken

(* Of no journal's items it becomes wrong that they are complete.          *)
LEMMA RightKeeps ==
    ASSUME files' = files, journal'.root = journal.root,
           \A b \in Attempts : policy'[b] = policy[b] \/ policy[b] = "none", NEW i, Right(i)
    PROVE  Right(i)'
<1>1. \A n : files'[i][n] = files[i][n] OBVIOUS
<1>2. \A b \in Attempts : policy[b] = "skip" => policy'[b] = "skip" OBVIOUS
<1> QED BY <1>1, <1>2 DEF Right, Taken

(* The attempt whose receiver has said "completed" is over there.          *)
LEMMA ToldIsOver ==
    ASSUME SessionInv, Told
    PROVE  attempt \in Attempts /\ thread[attempt] \in {"record", "ended"}
<1>1. attempt \in 0..MaxAttempts /\ attempt # 0 BY DEF Told, SessionInv, Shaped
<1>2. attempt \in Attempts BY <1>1, Numbers
<1> QED BY <1>2 DEF Told, SessionInv, Session, Turn

(* Once the current attempt is told of completion, nothing of that changes *)
(* while the files stay.                                                   *)
LEMMA SettledKeeps ==
    ASSUME SessionInv, PublishInv, NEW a \in Attempts,
           UNCHANGED <<attempt, manifest, files>>, Told' => Told,
           \A b \in Attempts : b # a => /\ thread'[b] = thread[b] /\ wire'[b] = wire[b]
                                        /\ memory'[b] = memory[b] /\ policy'[b] = policy[b],
           Told /\ a = attempt => policy'[a] = policy[a],
           Told => \/ journal'.root = manifest[attempt]
                   \/ \A i \in Items : journal'.verified[i] = {},
           Told /\ a # attempt /\ thread'[a] # "ended" =>
                /\ wire'[a] = <<>> /\ thread'[a] # "save"
                /\ thread'[a] \in Working =>
                      \/ manifest[a] = manifest[attempt]
                      \/ \A i \in Items : memory'[a].verified[i] = {}
    PROVE  Settled'
<1> SUFFICES ASSUME Told'
             PROVE  /\ \A i \in Items : Delivered(attempt, i)'
                    /\ \/ journal'.root = manifest'[attempt']
                       \/ \A i \in Items : journal'.verified[i] = {}
                    /\ \A b \in Attempts : b # attempt' /\ thread'[b] # "ended" =>
                          /\ wire'[b] = <<>> /\ thread'[b] # "save"
                          /\ thread'[b] \in Working =>
                                \/ manifest'[b] = manifest'[attempt']
                                \/ \A i \in Items : memory'[b].verified[i] = {}
  BY DEF Settled, Working
<1>1. Told /\ attempt \in Attempts BY ToldIsOver
<1>2. policy'[attempt] = policy[attempt] BY <1>1
<1>3. \A i \in Items : Delivered(attempt, i) BY <1>1 DEF PublishInv, Settled
<1>4. \A i \in Items : Delivered(attempt, i)' BY <1>2, <1>3 DEF Delivered, Taken
<1>5. ASSUME NEW b \in Attempts, b # attempt, thread'[b] # "ended"
      PROVE  /\ wire'[b] = <<>> /\ thread'[b] # "save"
             /\ thread'[b] \in Working => \/ manifest'[b] = manifest'[attempt']
                                          \/ \A i \in Items : memory'[b].verified[i] = {}
  <2>1. CASE b = a BY <1>1, <1>5, <2>1
  <2>2. CASE b # a BY <1>1, <1>5, <2>2 DEF PublishInv, Settled
  <2> QED BY <2>1, <2>2
<1> QED BY <1>1, <1>4, <1>5

(* How a thread ends is all one to what has been published.                *)
LEMMA EndPublish ==
    ASSUME SessionInv, PublishInv, NEW a \in AtWork, End(a),
           UNCHANGED <<senderVars, answerVars, policy, journal, files>>,
           \A b \in Attempts : b # a => wire'[b] = wire[b]
    PROVE  PublishInv'
<1> USE DEF Working, Streaming
<1>1. /\ UNCHANGED <<version, attempt, manifest, reply, policy, journal, files>> /\ a \in Attempts
      /\ thread'[a] = "ended"
      /\ \A b \in Attempts : b # a => thread'[b] = thread[b] /\ memory'[b] = memory[b]
  BY DEF End, Pass, senderVars, answerVars, SessionInv, Shaped, AtWork
<1>2. Alone' /\ \A b \in Attempts : b # a => Publishing(b)' BY <1>1, OthersKeep
<1>3. Publishing(a)' BY <1>1 DEF PublishInv, Publishing
<1>4. Told' => Told BY <1>1 DEF Told
<1>5. Settled' BY <1>1, <1>4, SettledKeeps DEF PublishInv, Settled
<1>6. \A i \in journal'.complete : Right(i)' BY <1>1, RightKeeps DEF PublishInv
<1>7. NothingMixed' BY <1>1 DEF PublishInv, NothingMixed
<1> QED BY <1>2, <1>3, <1>5, <1>6, <1>7 DEF PublishInv

(* The beginning, and the sender.                                          *)
LEMMA InitPublish == Init => PublishInv
<1> SUFFICES ASSUME Init PROVE PublishInv OBVIOUS
<1>1. \A a \in Attempts : thread[a] = "none" /\ a > attempt BY Numbers DEF Init
<1>2. Alone BY <1>1 DEF Alone, AtWork
<1>3. \A a \in Attempts : Publishing(a)
  BY <1>1, Numbers DEF Init, Publishing, Working, Streaming
<1>4. Settled BY DEF Init, Settled, Told
<1>5. \A i \in journal.complete : Right(i) BY DEF Init, NewJournal
<1>6. NothingMixed
  <2>1. PICK taken : files = [i \in Items |-> [n \in Names |->
                        IF i \in taken /\ n = 0 THEN <<Someone>> ELSE Absent]]
    BY DEF Init
  <2> QED BY <2>1 DEF NothingMixed
<1> QED BY <1>2, <1>3, <1>4, <1>5, <1>6 DEF PublishInv

(* A new attempt has nothing yet.                                          *)
LEMMA ConnectPublish == SessionInv /\ PublishInv /\ Connect => PublishInv'
<1> SUFFICES ASSUME SessionInv, PublishInv, Connect PROVE PublishInv' OBVIOUS
<1> USE DEF Working, Streaming
<1>0. PICK c : c = attempt + 1 OBVIOUS
<1>1. /\ attempt' = c /\ manifest' = [manifest EXCEPT ![c] = version]
      /\ thread' = [thread EXCEPT ![c] = "incoming"]
      /\ UNCHANGED <<version, wire, reply, policy, memory, item, journal, partial, files,
                     history>>
  BY <1>0 DEF Connect, TakeSnapshot, answerVars, diskVars
<1>2. attempt \in 0..MaxAttempts /\ version \in 1..MaxVersions /\ c \in Attempts /\ c > attempt
  <2>1. attempt \in 0..MaxAttempts /\ version \in 1..MaxVersions /\ attempt < MaxAttempts
    BY DEF SessionInv, SenderTurn, Shaped, Connect
  <2> QED BY <1>0, <2>1, Numbers
<1>3. thread[c] = "none" /\ reply[c] = "none"
  BY <1>2 DEF SessionInv, Session, Turn, Early
<1>4. /\ thread'[c] = "incoming" /\ manifest'[c] = version
      /\ \A b \in Attempts : b # c => thread'[b] = thread[b] /\ manifest'[b] = manifest[b]
  BY <1>1, <1>2 DEF SessionInv, Shaped
<1>5. Alone' BY <1>3, <1>4 DEF PublishInv, Alone, AtWork
<1>6. ASSUME NEW b \in Attempts PROVE Publishing(b)'
  <2>1. CASE b = c BY <1>1, <1>2, <1>4, <2>1, Numbers DEF Publishing
  <2>2. CASE b # c
    <3>1. b <= attempt' => b <= attempt BY <1>0, <1>1, <1>2, <2>2, Numbers
    <3>2. \A i : Delivered(b, i)' = Delivered(b, i) BY <1>1, <1>4, <2>2 DEF Delivered, Taken
    <3>3. \A i : Right(i)' = Right(i) BY <1>1 DEF Right, Taken
    <3> QED BY <1>1, <1>4, <2>2, <3>1, <3>2, <3>3 DEF PublishInv, Publishing
  <2> QED BY <2>1, <2>2
<1>7. Settled' BY <1>1, <1>3 DEF Settled, Told
<1>8. \A i \in journal'.complete : Right(i)' BY <1>1 DEF PublishInv, Right, Taken
<1>9. NothingMixed' BY <1>1 DEF PublishInv, NothingMixed
<1> QED BY <1>5, <1>6, <1>7, <1>8, <1>9 DEF PublishInv

(* All else the sender does is about what is under way.                    *)
LEMMA SenderPublish ==
    ASSUME SessionInv, PublishInv, version' >= version, version' \in Nat,
           UNCHANGED <<attempt, manifest, reply, threadVars, diskVars>>,
           \A b \in Attempts : b # attempt => wire'[b] = wire[b]
    PROVE  PublishInv'
<1> USE DEF Working, Streaming
<1>1. UNCHANGED <<thread, item, policy, dest, memory, counted, journal, partial, files, history>>
  BY DEF threadVars, diskVars
<1>2. version \in Nat BY DEF SessionInv, Shaped
<1>3. Alone' BY <1>1 DEF PublishInv, Alone, AtWork
<1>4. \A b, i : Delivered(b, i)' = Delivered(b, i) BY <1>1 DEF Delivered, Taken
<1>5. \A i : Right(i)' = Right(i) BY <1>1 DEF Right, Taken
<1>6. \A v \in 1..version : v \in 1..version' BY <1>2
<1>7. \A b \in Attempts : Publishing(b)'
  BY <1>1, <1>4, <1>5, <1>6 DEF PublishInv, Publishing
<1>8. Settled'
  <2>1. Told' = Told BY DEF Told
  <2> QED BY <1>1, <1>4, <2>1 DEF PublishInv, Settled
<1>9. NothingMixed' BY <1>1, <1>6 DEF PublishInv, NothingMixed
<1>10. \A i \in journal'.complete : Right(i)' BY <1>1, <1>5 DEF PublishInv
<1> QED BY <1>3, <1>7, <1>8, <1>9, <1>10 DEF PublishInv

(* An offer that is refused, put into the table or dismissed.              *)
LEMMA OfferPublish ==
    ASSUME SessionInv, PublishInv, NEW a \in Attempts, InsertOffer(a) \/ Dismiss(a)
    PROVE  PublishInv'
<1> USE DEF Working, Streaming
<1>1. /\ thread[a] \in {"incoming", "pending"} /\ thread'[a] \in {"pending", "ended"}
      /\ \A b \in Attempts : b # a => thread'[b] = thread[b] /\ reply'[b] = reply[b]
      /\ reply'[a] # "completed" \/ reply'[a] = reply[a]
      /\ UNCHANGED <<version, attempt, manifest, item, policy, memory, wire, journal, partial,
                     files, history>>
  <2>0. /\ thread \in [Attempts -> Phases] /\ DOMAIN reply = Attempts
        /\ offer # 0 => thread[offer] = "pending"
    BY DEF SessionInv, Shaped
  <2>1. a # 0 BY Numbers
  <2>2. CASE InsertOffer(a)
    BY <2>0, <2>2 DEF InsertOffer, Pass, senderVars, diskVars
  <2>3. CASE Dismiss(a)
    BY <2>0, <2>1, <2>3 DEF Dismiss, Pass, senderVars, diskVars
  <2> QED BY <2>2, <2>3
<1>2. reply[a] = "none" /\ wire[a] = <<>> BY <1>1 DEF SessionInv, Session, Turn, Early
<1>3. Alone' BY <1>1 DEF PublishInv, Alone, AtWork
<1>4. \A b, i : Delivered(b, i)' = Delivered(b, i) BY <1>1 DEF Delivered, Taken
<1>5. \A i : Right(i)' = Right(i) BY <1>1 DEF Right, Taken
<1>6. ASSUME NEW b \in Attempts PROVE Publishing(b)'
  <2>1. CASE b = a BY <1>1, <2>1 DEF PublishInv, Publishing
  <2>2. CASE b # a BY <1>1, <1>4, <1>5, <2>2 DEF PublishInv, Publishing
  <2> QED BY <2>1, <2>2
<1>7. Told' => Told
  <2>1. ASSUME Told' PROVE Told
    <3>1. attempt \in 0..MaxAttempts /\ attempt # 0 BY <1>1, <2>1 DEF Told, SessionInv, Shaped
    <3>2. attempt \in Attempts BY <3>1, Numbers
    <3> QED BY <1>1, <1>2, <2>1, <3>1, <3>2 DEF Told
  <2> QED BY <2>1
<1>8. Settled' BY <1>1, <1>2, <1>7, SettledKeeps DEF PublishInv, Settled
<1>9. NothingMixed' BY <1>1 DEF PublishInv, NothingMixed
<1>10. \A i \in journal'.complete : Right(i)' BY <1>1, <1>5 DEF PublishInv
<1> QED BY <1>3, <1>6, <1>8, <1>9, <1>10 DEF PublishInv

(* An offer is accepted while no other thread of the job works.            *)
LEMMA AcceptPublish ==
    ASSUME Alone', SessionInv, PublishInv, NEW a \in Attempts, Accept(a)
    PROVE  PublishInv'
<1> USE DEF Working, Streaming
<1>1. PICK p \in Policies : policy' = [policy EXCEPT ![a] = p] BY DEF Accept
<1>2. /\ thread[a] = "pending" /\ thread' = [thread EXCEPT ![a] = "accepted"]
      /\ UNCHANGED <<version, attempt, manifest, reply, item, memory, wire, journal, partial,
                     files, history>>
  BY Numbers DEF Accept, Pass, senderVars, answerVars, diskVars, SessionInv, Shaped
<1>3. /\ thread'[a] = "accepted" /\ policy[a] = "none" /\ wire[a] = <<>> /\ reply[a] = "none"
      /\ \A b \in Attempts : b # a => thread'[b] = thread[b] /\ policy'[b] = policy[b]
  BY <1>1, <1>2 DEF SessionInv, Shaped, Session, Turn, Early
<1>4. AtWork = {}
  <2>1. a \in AtWork' /\ a \notin AtWork BY <1>2, <1>3 DEF AtWork
  <2>2. ASSUME NEW b \in AtWork PROVE FALSE
    <3>1. b \in Attempts /\ b # a BY <2>1, <2>2 DEF AtWork
    <3>2. b \in AtWork' BY <1>3, <2>2, <3>1 DEF AtWork
    <3> QED BY <2>1, <3>1, <3>2 DEF Alone
  <2> QED BY <2>2
<1>5. \A b \in Attempts : thread[b] \in {"none", "incoming", "pending", "ended"}
  BY <1>4 DEF AtWork
<1>6. Alone' OBVIOUS
<1>7. \A b \in Attempts : b # a => thread'[b] \in {"none", "incoming", "pending", "ended"}
  BY <1>3, <1>5
<1>8. \A b \in Attempts : b <= attempt' => manifest'[b] \in 1..version'
  BY <1>2 DEF PublishInv, Publishing
<1>9. \A b \in Attempts : Publishing(b)' BY <1>3, <1>7, <1>8 DEF Publishing
<1>10. Told' => Told BY <1>2 DEF Told
<1>11. Told => a # attempt BY <1>3 DEF Told
<1>12. Settled' BY <1>2, <1>3, <1>10, <1>11, SettledKeeps DEF PublishInv, Settled
<1>13. NothingMixed' BY <1>2 DEF PublishInv, NothingMixed
<1>14. \A b \in Attempts : policy'[b] = policy[b] \/ policy[b] = "none" BY <1>3
<1>15. \A i \in journal'.complete : Right(i)' BY <1>2, <1>14, RightKeeps DEF PublishInv
<1> QED BY <1>6, <1>9, <1>12, <1>13, <1>15 DEF PublishInv

(* The receiver's process ends.                                            *)
LEMMA RestartPublish == SessionInv /\ PublishInv /\ Restart => PublishInv'
<1> SUFFICES ASSUME SessionInv, PublishInv, Restart PROVE PublishInv' OBVIOUS
<1> USE DEF Working, Streaming
<1>1. /\ UNCHANGED <<version, attempt, manifest, reply, policy, journal, files>>
      /\ \A b \in Attempts : thread'[b] \in {"none", "ended"} /\ wire'[b] = <<>>
  BY DEF Restart, senderVars, answerVars, diskVars
<1>2. Alone' BY <1>1 DEF Alone, AtWork
<1>3. \A b \in Attempts : Publishing(b)' BY <1>1 DEF PublishInv, Publishing
<1>4. \A b, i : Delivered(b, i)' = Delivered(b, i) BY <1>1 DEF Delivered, Taken
<1>5. Settled'
  <2>1. Told' = Told BY <1>1 DEF Told
  <2> QED BY <1>1, <1>4, <2>1 DEF PublishInv, Settled
<1>6. \A i \in journal'.complete : Right(i)' BY <1>1 DEF PublishInv, Right, Taken
<1>7. NothingMixed' BY <1>1 DEF PublishInv, NothingMixed
<1> QED BY <1>2, <1>3, <1>5, <1>6, <1>7 DEF PublishInv

(* A step of the thread at work that leaves the receive directory alone.   *)
LEMMA QuietPublish ==
    ASSUME SessionInv, PublishInv, NEW a \in AtWork, thread'[a] # "ended",
           UNCHANGED <<version, attempt, manifest, policy, files>>,
           \A b \in Attempts : b # a => /\ thread'[b] = thread[b] /\ memory'[b] = memory[b]
                                        /\ wire'[b] = wire[b],
           Publishing(a)', Told' => Told,
           \A i \in journal'.complete : Right(i)',
           Told => \/ journal'.root = manifest[attempt]
                   \/ \A i \in Items : journal'.verified[i] = {},
           Told /\ a # attempt =>
                /\ wire'[a] = <<>> /\ thread'[a] # "save"
                /\ thread'[a] \in Working =>
                      \/ manifest[a] = manifest[attempt]
                      \/ \A i \in Items : memory'[a].verified[i] = {}
    PROVE  PublishInv'
<1>0. a \in Attempts BY DEF AtWork
<1>1. Alone' /\ \A b \in Attempts : b # a => Publishing(b)' BY OthersKeep
<1>2. Settled' BY <1>0, SettledKeeps
<1>3. NothingMixed' BY DEF PublishInv, NothingMixed
<1> QED BY <1>1, <1>2, <1>3 DEF PublishInv

(* What a thread at work has, and what it is for the attempt that has been *)
(* told of completion.                                                     *)
LEMMA AtWorkFacts ==
    ASSUME SessionInv, PublishInv, NEW a \in Attempts,
           thread[a] \in Streaming \cup {"accepted", "open", "reconcile"}
    PROVE  /\ a \in AtWork /\ a <= attempt /\ manifest[a] \in 1..version
           /\ Told => /\ a # attempt /\ wire[a] = <<>> /\ thread[a] # "save"
                      /\ journal.root = manifest[attempt]
                            \/ \A i \in Items : journal.verified[i] = {}
                      /\ thread[a] \notin {"accepted", "open"} =>
                            \/ manifest[a] = manifest[attempt]
                            \/ \A i \in Items : memory[a].verified[i] = {}
<1> USE DEF Streaming
<1>1. a \in AtWork BY DEF AtWork
<1>2. attempt \in Nat /\ a \in Nat BY Numbers DEF SessionInv, Shaped
<1>3. a <= attempt BY <1>2 DEF SessionInv, Session, Turn
<1>4. manifest[a] \in 1..version BY <1>3 DEF PublishInv, Publishing
<1>5. ASSUME Told PROVE a # attempt BY <1>5, ToldIsOver
<1> QED BY <1>1, <1>3, <1>4, <1>5 DEF PublishInv, Settled, Working

(* The thread begins: nothing is published or journalled.                  *)
LEMMA StartedPublish ==
    ASSUME SessionInv, PublishInv, NEW a \in Attempts, RecordStarted(a)
    PROVE  PublishInv'
<1> USE DEF Working, Streaming
<1>1. /\ thread[a] = "accepted" /\ thread' = [thread EXCEPT ![a] = "open"]
      /\ UNCHANGED <<version, attempt, manifest, reply, policy, item, memory, wire, journal,
                     partial, files>>
  BY DEF RecordStarted, Pass, senderVars, answerVars
<1>2. thread'[a] = "open" /\ \A b \in Attempts : b # a => thread'[b] = thread[b]
  BY <1>1 DEF SessionInv, Shaped
<1>3. \A i \in journal'.complete : Right(i)' BY <1>1, RightKeeps DEF PublishInv
<1>4. Publishing(a)' BY <1>1, <1>2 DEF PublishInv, Publishing
<1>5. Told' => Told BY <1>1 DEF Told
<1>6. /\ a \in AtWork
      /\ Told => /\ wire'[a] = <<>>
                 /\ journal'.root = manifest[attempt] \/ \A i \in Items : journal'.verified[i] = {}
  BY <1>1, AtWorkFacts
<1> QED BY <1>1, <1>2, <1>3, <1>4, <1>5, <1>6, QuietPublish

(* The journal is found or begun anew.                                     *)
LEMMA OpenPublish ==
    ASSUME SessionInv, PublishInv, NEW a \in Attempts, OpenJournal(a)
    PROVE  PublishInv'
<1> USE DEF Working, Streaming
<1>1. a \in AtWork /\ thread[a] = "open" BY DEF OpenJournal, AtWork
<1>2. /\ thread' = [thread EXCEPT ![a] = "reconcile"]
      /\ journal' = IF journal.root = manifest[a] THEN journal ELSE NewJournal(manifest[a])
      /\ memory' = [memory EXCEPT ![a] = journal']
      /\ UNCHANGED <<version, attempt, manifest, reply, policy, files, wire, item, history,
                     partial>>
  BY DEF OpenJournal, Pass, SaveJournal, SnapshotRoot, senderVars, answerVars
<1>3. /\ thread'[a] = "reconcile" /\ memory'[a] = journal'
      /\ \A b \in Attempts : b # a => thread'[b] = thread[b] /\ memory'[b] = memory[b]
  BY <1>2 DEF SessionInv, Shaped
<1>4. /\ journal'.root = manifest[a]
      /\ \/ journal' = journal
         \/ journal'.complete = {} /\ \A i \in Items : journal'.verified[i] = {}
  BY <1>2 DEF NewJournal
<1>5. \A i \in journal'.complete : Right(i)'
  BY <1>2, <1>4, RightKeeps DEF PublishInv
<1>6. Publishing(a)'
  <2>1. history' # "completed" BY <1>2 DEF OpenJournal, AlreadyCompleted
  <2>2. a <= attempt => manifest[a] \in 1..version BY DEF PublishInv, Publishing
  <2> QED BY <1>2, <1>3, <1>4, <1>5, <2>1, <2>2 DEF Publishing
<1>7. Told' => Told BY <1>2 DEF Told
<1>8. Told => /\ wire'[a] = <<>>
              /\ journal'.root = manifest[attempt] \/ \A i \in Items : journal'.verified[i] = {}
              /\ \/ manifest[a] = manifest[attempt]
                 \/ \A i \in Items : memory'[a].verified[i] = {}
  BY <1>1, <1>2, <1>3, <1>4, AtWorkFacts
<1> QED BY <1>1, <1>2, <1>3, <1>5, <1>6, <1>7, <1>8, QuietPublish

(* What is given up is not complete either.                                *)
LEMMA ReconcilePublish ==
    ASSUME SessionInv, PublishInv, NEW a \in Attempts, ReconcileItem(a)
    PROVE  PublishInv'
<1> USE DEF Working, Streaming
<1>0. PICK i : i = item[a] OBVIOUS
<1> DEFINE reset == MustReset(PartialLength(i), ContiguousOffset(memory[a], i), Size[i])
           kept == IF reset THEN ResetItem(memory[a], i) ELSE memory[a]
<1>1. /\ thread[a] = "reconcile" /\ i <= ItemCount /\ memory' = [memory EXCEPT ![a] = kept]
      /\ UNCHANGED <<version, attempt, manifest, reply, policy, files, wire, thread, journal,
                     history>>
  BY <1>0 DEF ReconcileItem, senderVars
<1>2. i \in Items BY <1>0, <1>1, Numbers DEF SessionInv, Shaped
<1>3. /\ kept.root = memory[a].root /\ kept.complete \subseteq memory[a].complete
      /\ \A h \in Items : kept.verified[h] = memory[a].verified[h] \/ kept.verified[h] = {}
  BY <1>2 DEF SessionInv, Shaped, IsBook, Books, ResetItem
<1> HIDE DEF kept
<1>4. memory'[a] = kept /\ \A b \in Attempts : b # a => memory'[b] = memory[b]
  BY <1>1 DEF SessionInv, Shaped
<1>5. \A h \in journal'.complete : Right(h)' BY <1>1, RightKeeps DEF PublishInv
<1>6. Publishing(a)'
  <2>1. \A h \in memory'[a].complete : Right(h)
    BY <1>1, <1>3, <1>4 DEF PublishInv, Publishing
  <2>2. \A h \in memory'[a].complete : Right(h)' BY <1>1, <2>1, RightKeeps
  <2> QED BY <1>1, <1>3, <1>4, <2>2 DEF PublishInv, Publishing
<1>7. Told' => Told BY <1>1 DEF Told
<1>8. /\ a \in AtWork
      /\ Told => /\ wire'[a] = <<>>
                 /\ journal'.root = manifest[attempt] \/ \A h \in Items : journal'.verified[h] = {}
                 /\ \/ manifest[a] = manifest[attempt]
                    \/ \A h \in Items : memory'[a].verified[h] = {}
  BY <1>1, <1>3, <1>4, AtWorkFacts
<1>9. thread'[a] = "reconcile" BY <1>1
<1> QED BY <1>1, <1>4, <1>5, <1>6, <1>7, <1>8, <1>9, QuietPublish

(* Between reading and writing the journal the thread goes on alone.       *)
LEMMA GoOnPublish ==
    ASSUME SessionInv, PublishInv, NEW a \in Attempts,
           thread[a] \in Streaming \cup {"reconcile"}, NEW s \in Streaming, s # "mark",
           thread' = [thread EXCEPT ![a] = s], s = "save" => wire[a] # <<>>,
           item' = item \/ item' = [item EXCEPT ![a] = 1],
           item' = item => thread[a] \in Streaming,
           s \in {"choose", "publish"} => partial'[item'[a]] = Whole(item'[a], manifest[a]),
           \A b \in Attempts : b # a => wire'[b] = wire[b],
           wire'[a] = wire[a] \/ wire[a] # <<>>, reply'[a] # "completed",
           \A b \in Attempts : b # a => reply'[b] = reply[b],
           UNCHANGED <<version, attempt, manifest, policy, memory, journal, files, history>>
    PROVE  PublishInv'
<1> USE DEF Working, Streaming
<1>1. /\ thread'[a] = s /\ \A b \in Attempts : b # a => thread'[b] = thread[b]
      /\ item'[a] = 1 \/ item'[a] = item[a]
  BY DEF SessionInv, Shaped
<1>2. a \in AtWork BY AtWorkFacts
<1>3. Told' => Told
  <2>1. ASSUME Told' PROVE Told
    <3>1. attempt \in 0..MaxAttempts /\ attempt # 0 BY <2>1 DEF Told, SessionInv, Shaped
    <3>2. attempt \in Attempts BY <3>1, Numbers
    <3> QED BY <2>1, <3>1, <3>2 DEF Told
  <2> QED BY <2>1
<1>4. \A i \in journal'.complete : Right(i)' BY RightKeeps DEF PublishInv
<1>5. Told => /\ wire[a] = <<>> /\ a # attempt /\ s # "save"
              /\ journal'.root = manifest[attempt] \/ \A i \in Items : journal'.verified[i] = {}
              /\ \/ manifest[a] = manifest[attempt]
                 \/ \A i \in Items : memory'[a].verified[i] = {}
  BY AtWorkFacts
<1>6. Publishing(a)'
  <2>1. \A i : Delivered(a, i) => Delivered(a, i)' BY DEF Delivered, Taken
  <2>2. \A i : Right(i) => Right(i)' BY DEF Right, Taken
  <2>3. /\ a <= attempt => manifest[a] \in 1..version
        /\ journal.root = manifest[a] /\ memory[a].root = manifest[a] /\ history # "completed"
        /\ \A i \in memory[a].complete : Right(i)
        /\ thread[a] \in Streaming => \A i \in Items : i < item[a] => Delivered(a, i)
    BY DEF PublishInv, Publishing
  <2>4. \A i \in Items : ~(i < 1) BY Numbers
  <2>5. \A i \in Items : i < item'[a] => Delivered(a, i)'
    <3>1. CASE item' = item BY <2>1, <2>3, <3>1
    <3>2. CASE item' = [item EXCEPT ![a] = 1]
      <4>1. item'[a] = 1 BY <3>2 DEF SessionInv, Shaped
      <4> QED BY <2>4, <4>1
    <3> QED BY <3>1, <3>2
  <2> QED BY <1>1, <2>2, <2>3, <2>5 DEF Publishing
<1> QED BY <1>1, <1>2, <1>3, <1>4, <1>5, <1>6, QuietPublish

(* The answer, a piece, the comparison with the digest, the name.          *)
LEMMA ReceivePublish ==
    ASSUME SessionInv, PublishInv, NEW a \in Attempts, AnswerReady(a) \/ WritePiece(a)
    PROVE  PublishInv'
<1> USE DEF Streaming
<1>1. CASE AnswerReady(a)
  <2>1. /\ thread[a] = "reconcile" /\ thread' = [thread EXCEPT ![a] = "receive"]
        /\ item' = [item EXCEPT ![a] = 1] /\ reply' = [reply EXCEPT ![a] = "ready"]
        /\ item[a] > ItemCount
        /\ UNCHANGED <<version, attempt, manifest, policy, memory, journal, files, history, wire>>
    BY <1>1 DEF AnswerReady, Pass, senderVars, diskVars
  <2>2. item' # item /\ reply'[a] = "ready"
        /\ \A b \in Attempts : b # a => reply'[b] = reply[b]
    BY <2>1, Numbers DEF SessionInv, Shaped
  <2> QED BY <2>1, <2>2, GoOnPublish
<1>2. CASE WritePiece(a)
  <2>1. /\ thread[a] = "receive" /\ wire[a] # <<>> /\ wire' = [wire EXCEPT ![a] = Tail(@)]
        /\ UNCHANGED <<senderVars, answerVars, policy, journal, files>>
        /\ \/ End(a)
           \/ thread' = [thread EXCEPT ![a] = "save"] /\ UNCHANGED <<item, memory, history>>
    BY <1>2 DEF WritePiece, Receiving, Fails, Pass
  <2>2. a \in AtWork /\ reply[a] = "ready"
    BY <2>1 DEF AtWork, SessionInv, Session, Turn
  <2>3. UNCHANGED <<version, attempt, manifest, reply>> BY <2>1 DEF senderVars, answerVars
  <2>4. \A b \in Attempts : b # a => wire'[b] = wire[b] BY <2>1
  <2>5. CASE End(a) BY <2>1, <2>2, <2>4, <2>5, EndPublish
  <2>6. CASE ~End(a) BY <2>1, <2>2, <2>3, <2>4, <2>6, GoOnPublish
  <2> QED BY <2>5, <2>6
<1> QED BY <1>1, <1>2

(* Before a name is chosen the whole file has been compared.               *)
LEMMA VerifyPublish ==
    ASSUME SessionInv, PublishInv, NEW a \in Attempts, Verify(a)
    PROVE  PublishInv'
<1> USE DEF Streaming
<1>1. /\ thread[a] = "receive"
      /\ UNCHANGED <<senderVars, wire, answerVars, policy, journal, partial, files>>
      /\ \/ End(a)
         \/ /\ Verified(a) /\ thread' = [thread EXCEPT ![a] = "choose"]
            /\ UNCHANGED <<item, memory, history>>
  BY DEF Verify, Receiving, Fails, Pass
<1>2. a \in AtWork /\ reply[a] = "ready" BY <1>1 DEF AtWork, SessionInv, Session, Turn
<1>3. CASE End(a) BY <1>1, <1>2, <1>3, EndPublish
<1>4. CASE ~End(a)
  BY <1>1, <1>2, <1>4, GoOnPublish DEF Verified, senderVars, answerVars
<1> QED BY <1>3, <1>4

(* A skipped item is there already.                                        *)
LEMMA ChoosePublish ==
    ASSUME SessionInv, PublishInv, NEW a \in Attempts, ChooseDestination(a)
    PROVE  PublishInv'
<1> USE DEF Working, Streaming
<1>1. /\ thread[a] = "choose"
      /\ UNCHANGED <<version, attempt, manifest, reply, wire, item, policy, memory, journal,
                     partial, files, history>>
      /\ \/ Skipped(a) /\ thread' = [thread EXCEPT ![a] = "mark"]
         \/ thread' = [thread EXCEPT ![a] = "publish"]
  BY DEF ChooseDestination, Pass, senderVars, answerVars, diskVars
<1>2. reply[a] = "ready" BY <1>1 DEF SessionInv, Session, Turn
<1>3. partial[item[a]] = Whole(item[a], manifest[a]) BY <1>1 DEF PublishInv, Publishing
<1>4. CASE thread' = [thread EXCEPT ![a] = "publish"]
  BY <1>1, <1>2, <1>3, <1>4, GoOnPublish
<1>5. CASE Skipped(a) /\ thread' = [thread EXCEPT ![a] = "mark"]
  <2>1. thread'[a] = "mark" /\ \A b \in Attempts : b # a => thread'[b] = thread[b]
    BY <1>5 DEF SessionInv, Shaped
  <2>2. Told' => Told BY <1>1 DEF Told
  <2>3. \A i \in journal'.complete : Right(i)' BY <1>1, RightKeeps DEF PublishInv
  <2>4. /\ a \in AtWork
        /\ Told => /\ wire'[a] = <<>>
                   /\ journal'.root = manifest[attempt] \/ \A i \in Items : journal'.verified[i] = {}
                   /\ \/ manifest[a] = manifest[attempt]
                      \/ \A i \in Items : memory'[a].verified[i] = {}
    BY <1>1, AtWorkFacts
  <2>5. Publishing(a)'
    <3>1. Delivered(a, item[a]) BY <1>5 DEF Delivered, Skipped
    <3>2. \A i : Delivered(a, i) => Delivered(a, i)' BY <1>1 DEF Delivered, Taken
    <3>3. \A i : Right(i) => Right(i)' BY <1>1 DEF Right, Taken
    <3> QED BY <1>1, <2>1, <3>1, <3>2, <3>3 DEF PublishInv, Publishing
  <2> QED BY <1>1, <2>1, <2>2, <2>3, <2>4, <2>5, QuietPublish
<1> QED BY <1>1, <1>4, <1>5

(* What mark_verified saves is a journal of the same snapshot.             *)
LEMMA SavePublish ==
    ASSUME SessionInv, PublishInv, NEW a \in Attempts, SavePiece(a)
    PROVE  PublishInv'
<1> USE DEF Working, Streaming
<1>0. PICK i, k : i = item[a] /\ k = Min(Missing(a)) OBVIOUS
<1> DEFINE book == MarkVerified(memory[a], i, k)
<1>1. /\ thread[a] = "save" /\ thread' = [thread EXCEPT ![a] = "receive"]
      /\ memory' = [memory EXCEPT ![a] = book] /\ journal' = memory'[a]
      /\ UNCHANGED <<version, attempt, manifest, reply, wire, item, policy, files, history,
                     partial>>
  BY <1>0 DEF SavePiece, Pass, SaveJournal, senderVars, answerVars
<1>2. book.root = memory[a].root /\ book.complete = memory[a].complete
  BY DEF MarkVerified, SessionInv, Shaped, IsBook, Books
<1> HIDE DEF book
<1>3. /\ thread'[a] = "receive" /\ memory'[a] = book /\ journal' = book
      /\ \A b \in Attempts : b # a => thread'[b] = thread[b] /\ memory'[b] = memory[b]
  BY <1>1 DEF SessionInv, Shaped
<1>4. /\ journal.root = manifest[a] /\ memory[a].root = manifest[a] /\ history # "completed"
      /\ \A h \in memory[a].complete : Right(h)
      /\ \A h \in Items : h < item[a] => Delivered(a, h)
      /\ a <= attempt => manifest[a] \in 1..version
  BY <1>1 DEF PublishInv, Publishing
<1>5. \A h : Right(h) => Right(h)' BY <1>1, <1>2, <1>3, <1>4 DEF Right, Taken
<1>6. \A h : Delivered(a, h) => Delivered(a, h)' BY <1>1 DEF Delivered, Taken
<1>7. \A h \in journal'.complete : Right(h)' BY <1>2, <1>3, <1>4, <1>5
<1>8. Publishing(a)' BY <1>1, <1>2, <1>3, <1>4, <1>5, <1>6 DEF Publishing
<1>9. ~Told /\ a \in AtWork BY <1>1, AtWorkFacts
<1>10. Told' => Told BY <1>1 DEF Told
<1> QED BY <1>1, <1>3, <1>7, <1>8, <1>9, <1>10, QuietPublish

(* A complete item's journal is saved after the item is there.             *)
LEMMA MarkPublish ==
    ASSUME SessionInv, PublishInv, NEW a \in Attempts, SaveComplete(a)
    PROVE  PublishInv'
<1> USE DEF Working, Streaming
<1>0. PICK i : i = item[a] OBVIOUS
<1> DEFINE book == MarkComplete(memory[a], i)
<1>1. /\ thread[a] = "mark" /\ thread' = [thread EXCEPT ![a] = "receive"]
      /\ memory' = [memory EXCEPT ![a] = book] /\ journal' = memory'[a]
      /\ item' = [item EXCEPT ![a] = i + 1]
      /\ UNCHANGED <<version, attempt, manifest, reply, wire, policy, files, history, partial>>
  BY <1>0 DEF SaveComplete, Pass, SaveJournal, senderVars, answerVars
<1>2. /\ book.root = memory[a].root /\ book.complete = memory[a].complete \cup {i}
      /\ book.verified = memory[a].verified
  BY DEF MarkComplete, SessionInv, Shaped, IsBook, Books
<1> HIDE DEF book
<1>3. /\ thread'[a] = "receive" /\ memory'[a] = book /\ journal' = book /\ item'[a] = i + 1
      /\ \A b \in Attempts : b # a => thread'[b] = thread[b] /\ memory'[b] = memory[b]
  BY <1>1 DEF SessionInv, Shaped
<1>4. /\ journal.root = manifest[a] /\ memory[a].root = manifest[a] /\ history # "completed"
      /\ \A h \in memory[a].complete : Right(h)
      /\ \A h \in Items : h < i => Delivered(a, h)
      /\ a <= attempt => manifest[a] \in 1..version
      /\ Delivered(a, i)
  BY <1>0, <1>1 DEF PublishInv, Publishing
<1>5. \A h : Right(h) => Right(h)' BY <1>1, <1>2, <1>3, <1>4 DEF Right, Taken
<1>6. \A h : Delivered(a, h) => Delivered(a, h)' BY <1>1 DEF Delivered, Taken
<1>7. Right(i) BY <1>4 DEF Delivered, Right
<1>8. \A h \in journal'.complete : Right(h)' BY <1>2, <1>3, <1>4, <1>5, <1>7
<1>9. \A h \in Items : h < i + 1 => Delivered(a, h)'
  <2>1. i \in Items BY <1>0, <1>1 DEF SessionInv, Session, Turn
  <2>2. \A h \in Items : h < i + 1 => h < i \/ h = i BY <2>1, Numbers
  <2> QED BY <1>4, <1>6, <2>2
<1>10. Publishing(a)' BY <1>1, <1>2, <1>3, <1>4, <1>8, <1>9 DEF Publishing
<1>11. Told' => Told BY <1>1 DEF Told
<1>12. /\ a \in AtWork
       /\ Told => /\ wire'[a] = <<>>
                  /\ \/ manifest[a] = manifest[attempt]
                     \/ \A h \in Items : memory'[a].verified[h] = {}
  BY <1>1, <1>2, <1>3, AtWorkFacts
<1>13. Told => \/ journal'.root = manifest[attempt]
               \/ \A h \in Items : journal'.verified[h] = {}
  BY <1>2, <1>3, <1>4, <1>12
<1> QED BY <1>1, <1>3, <1>8, <1>10, <1>11, <1>12, <1>13, QuietPublish

(* The rename: what it puts there is whole, and of one version; what it    *)
(* takes the place of has not been promised to anybody.                    *)
LEMMA PublishPublish ==
    ASSUME SessionInv, NamesInv, PublishInv, NEW a \in Attempts, Publish(a)
    PROVE  PublishInv'
<1> USE DEF Working, Streaming
<1>0. PICK i, n, v : i = item[a] /\ n = dest[a] /\ v = manifest[a] OBVIOUS
<1>1. /\ thread[a] = "publish"
      /\ UNCHANGED <<senderVars, wire, answerVars, policy, journal>>
  BY DEF Publish
<1>2. a \in AtWork BY <1>1, AtWorkFacts
<1>3. CASE partial[item[a]] = Absent
  BY <1>1, <1>2, <1>3, EndPublish DEF Publish, Fails
<1>4. CASE partial[item[a]] # Absent
  <2>1. /\ thread' = [thread EXCEPT ![a] = "mark"]
        /\ files' = [files EXCEPT ![i][n] = Whole(i, v)]
        /\ UNCHANGED <<version, attempt, manifest, reply, policy, item, memory, journal, history,
                       wire>>
    BY <1>0, <1>1, <1>4 DEF Publish, Pass, PublishInv, Publishing, senderVars, answerVars
  <2>2. /\ i \in Items /\ MissingRanges(memory[a], i) = {} /\ n \in Names /\ v \in 1..version
        /\ \A h \in Items : h < i => Delivered(a, h)
        /\ journal.root = v /\ memory[a].root = v /\ history # "completed"
        /\ \A h \in memory[a].complete : Right(h)
    BY <1>0, <1>1, AtAnItem, AtWorkFacts DEF NamesInv, PublishInv, Publishing
  <2>3. /\ files'[i][n] = Whole(i, v)
        /\ \A m \in Names : m # n => files'[i][m] = files[i][m]
        /\ \A h \in Items : h # i => files'[h] = files[h]
        /\ thread'[a] = "mark" /\ \A b \in Attempts : b # a => thread'[b] = thread[b]
    BY <2>1, <2>2 DEF SessionInv, Shaped
  <2>4. 0 \in Names BY Numbers DEF Names
  <2>5. \A h \in Items : Taken(h, 0) => Taken(h, 0)'
    BY <2>2, <2>3, <2>4, WholeIsThere DEF Taken
  <2>6. ASSUME NEW b \in Attempts, NEW h \in Items, Delivered(b, h), manifest[b] = v \/ h # i
        PROVE  Delivered(b, h)'
    <3>1. CASE h = i
      <4>1. files'[h][n] = Whole(h, manifest'[b]) BY <2>1, <2>3, <2>6, <3>1
      <4> QED BY <2>2, <4>1 DEF Delivered
    <3>2. CASE h # i
      <4>1. files'[h] = files[h] BY <2>3, <3>2
      <4> QED BY <2>1, <2>6, <4>1 DEF Delivered, Taken
    <3> QED BY <3>1, <3>2
  <2>7. Delivered(a, i)'
    <3>1. files'[i][n] = Whole(i, manifest'[a]) BY <1>0, <2>1, <2>3
    <3> QED BY <2>2, <3>1 DEF Delivered
  <2>8. ASSUME NEW h \in Items, Right(h) PROVE Right(h)'
    <3>1. CASE h = i
      <4>1. files'[h][n] = Whole(h, journal'.root) BY <2>1, <2>2, <2>3, <3>1
      <4> QED BY <2>2, <4>1 DEF Right
    <3>2. CASE h # i
      <4>1. files'[h] = files[h] BY <2>3, <3>2
      <4> QED BY <2>1, <2>8, <4>1 DEF Right, Taken
    <3> QED BY <3>1, <3>2
  <2>9. journal.complete \subseteq Items /\ memory[a].complete \subseteq Items
    BY DEF SessionInv, Shaped, IsBook, Books
  <2>10. \A h \in journal'.complete : Right(h)' BY <2>1, <2>8, <2>9 DEF PublishInv
  <2>11. Publishing(a)'
    <3>1. \A h \in memory'[a].complete : Right(h)' BY <2>1, <2>2, <2>8, <2>9
    <3>2. \A h \in Items : h < item'[a] => Delivered(a, h)'
      BY <1>0, <2>1, <2>2, <2>6
    <3>3. Delivered(a, item[a])' BY <1>0, <2>1, <2>7
    <3> QED BY <1>0, <2>1, <2>2, <2>3, <3>1, <3>2, <3>3 DEF Publishing
  <2>12. Alone' /\ \A b \in Attempts : b # a => Publishing(b)' BY <1>2, <2>1, <2>3, OthersKeep
  <2>13. Told' = Told BY <2>1 DEF Told
  <2>14. ASSUME Told PROVE attempt \in Attempts /\ manifest[attempt] = v
    <3>1. \/ manifest[a] = manifest[attempt]
          \/ \A h \in Items : memory[a].verified[h] = {}
      BY <1>1, <2>14, AtWorkFacts
    <3>2. memory[a].verified[i] # {}
      BY <2>2, PiecesAreNumbers DEF MissingRanges
    <3> QED BY <1>0, <2>2, <2>14, <3>1, <3>2, ToldIsOver
  <2>15. Settled'
    <3>1. ASSUME Told PROVE \A h \in Items : Delivered(attempt, h)'
      <4>1. PICK c \in Attempts : c = attempt BY <2>14, <3>1
      <4>2. \A h \in Items : Delivered(c, h) BY <3>1, <4>1 DEF PublishInv, Settled
      <4>3. \A h \in Items : Delivered(c, h)' BY <2>6, <2>14, <3>1, <4>1, <4>2
      <4>4. c = attempt' BY <2>1, <4>1
      <4> QED BY <4>3, <4>4 DEF Delivered
    <3>2. ASSUME Told, NEW b \in Attempts, b # attempt, thread'[b] # "ended"
          PROVE  /\ wire[b] = <<>> /\ thread'[b] # "save"
                 /\ thread'[b] \in Working =>
                       manifest[b] = manifest[attempt] \/ \A h \in Items : memory[b].verified[h] = {}
      <4>1. CASE b = a BY <1>0, <1>1, <2>3, <2>14, <3>2, <4>1, AtWorkFacts
      <4>2. CASE b # a BY <2>3, <3>2, <4>2 DEF PublishInv, Settled
      <4> QED BY <4>1, <4>2
    <3>3. ASSUME Told PROVE journal.root = manifest[attempt] BY <2>2, <2>14, <3>3
    <3> QED BY <2>1, <2>13, <3>1, <3>2, <3>3 DEF Settled
  <2>16. NothingMixed' BY <2>1, <2>2, <2>3 DEF PublishInv, NothingMixed
  <2> QED BY <2>10, <2>11, <2>12, <2>15, <2>16 DEF PublishInv
<1> QED BY <1>3, <1>4

(* At "completed" all is delivered, and no other thread is at work.        *)
LEMMA CompletedPublish ==
    ASSUME SessionInv, PublishInv, NEW a \in Attempts, AnswerCompleted(a)
    PROVE  PublishInv'
<1> USE DEF Working, Streaming
<1>1. /\ thread[a] = "receive" /\ item[a] > ItemCount
      /\ thread' = [thread EXCEPT ![a] = "record"] /\ reply' = [reply EXCEPT ![a] = "completed"]
      /\ UNCHANGED <<version, attempt, manifest, policy, item, memory, journal, files, wire,
                     history>>
  BY DEF AnswerCompleted, Pass, senderVars, diskVars
<1>2. /\ thread'[a] = "record"
      /\ \A b \in Attempts : b # a => thread'[b] = thread[b] /\ reply'[b] = reply[b]
  BY <1>1 DEF SessionInv, Shaped
<1>3. a \in AtWork BY <1>1, AtWorkFacts
<1>4. /\ journal.root = manifest[a] /\ memory[a].root = manifest[a] /\ history # "completed"
      /\ \A h \in memory[a].complete : Right(h)
      /\ \A h \in Items : h < item[a] => Delivered(a, h)
      /\ a <= attempt => manifest[a] \in 1..version
  BY <1>1 DEF PublishInv, Publishing
<1>5. \A h \in Items : h < item[a] BY <1>1, Numbers DEF SessionInv, Shaped
<1>6. \A b \in Attempts, h \in Items : Delivered(b, h) => Delivered(b, h)'
  BY <1>1 DEF Delivered, Taken
<1>7. \A h : Right(h) => Right(h)' BY <1>1 DEF Right, Taken
<1>8. Publishing(a)' BY <1>1, <1>2, <1>4, <1>5, <1>6, <1>7 DEF Publishing
<1>9. Alone' /\ \A b \in Attempts : b # a => Publishing(b)' BY <1>1, <1>2, <1>3, OthersKeep
<1>10. ASSUME a = attempt PROVE Settled'
  <2>1. \A h \in Items : Delivered(a, h)' BY <1>4, <1>5, <1>6
  <2>2. a = attempt' BY <1>1, <1>10
  <2>3. \A h \in Items : Delivered(attempt, h)' BY <2>1, <2>2 DEF Delivered
  <2>4. ASSUME NEW b \in Attempts, b # a, thread'[b] # "ended"
        PROVE  wire'[b] = <<>> /\ thread'[b] \notin Working
    <3>1. thread[b] \in {"none", "incoming", "pending"} /\ thread'[b] = thread[b]
      BY <1>2, <1>3, <2>4, OthersIdle DEF PublishInv
    <3> QED BY <1>1, <3>1 DEF SessionInv, Session, Turn, Early
  <2> QED BY <1>1, <1>4, <1>10, <2>2, <2>3, <2>4 DEF Settled
<1>11. ASSUME a # attempt PROVE Settled'
  <2>1. Told' => Told
    <3>1. ASSUME Told' PROVE Told
      <4>1. attempt \in 0..MaxAttempts /\ attempt # 0
        BY <1>1, <3>1 DEF Told, SessionInv, Shaped
      <4>2. attempt \in Attempts BY <4>1, Numbers
      <4> QED BY <1>1, <1>2, <1>11, <3>1, <4>1, <4>2 DEF Told
    <3> QED BY <3>1
  <2>2. Told => /\ wire'[a] = <<>>
                /\ journal'.root = manifest[attempt] \/ \A i \in Items : journal'.verified[i] = {}
                /\ \/ manifest[a] = manifest[attempt]
                   \/ \A i \in Items : memory'[a].verified[i] = {}
    BY <1>1, AtWorkFacts
  <2> QED BY <1>1, <1>2, <2>1, <2>2, SettledKeeps
<1>12. \A h \in journal'.complete : Right(h)' BY <1>1, <1>7 DEF PublishInv
<1>13. NothingMixed' BY <1>1 DEF PublishInv, NothingMixed
<1> QED BY <1>8, <1>9, <1>10, <1>11, <1>12, <1>13 DEF PublishInv

(* Every step keeps what is published, if threads work one at a time.      *)
LEMMA NextPublish ==
    Alone' /\ SessionInv /\ NamesInv /\ PublishInv /\ [Next]_vars => PublishInv'
<1> SUFFICES ASSUME Alone', SessionInv, NamesInv, PublishInv, [Next]_vars
             PROVE  PublishInv'
  OBVIOUS
<1>0. version \in Nat BY DEF SessionInv, Shaped
<1>1. CASE UNCHANGED vars
  BY <1>0, <1>1, SenderPublish DEF vars, senderVars, answerVars
<1>2. CASE EditSource
  BY <1>0, <1>2, SenderPublish DEF EditSource, answerVars
<1>3. CASE SenderStep
  <2>1. CASE SnapshotStale BY <1>0, <2>1, SenderPublish DEF SnapshotStale, answerVars
  <2>2. CASE StartStreaming BY <1>0, <2>2, SenderPublish DEF StartStreaming, answerVars
  <2>3. CASE SendPiece BY <1>0, <2>3, SenderPublish DEF SendPiece, answerVars
  <2>4. CASE ReadAnswer BY <1>0, <2>4, SenderPublish DEF ReadAnswer, answerVars
  <2>5. CASE Break
    <3>1. \A b \in Attempts : b # attempt => wire'[b] = wire[b]
      BY <2>5 DEF Break, SessionInv, Shaped
    <3> QED BY <1>0, <2>5, <3>1, SenderPublish DEF Break, answerVars
  <2> QED BY <1>3, <2>1, <2>2, <2>3, <2>4, <2>5, ConnectPublish DEF SenderStep
<1>4. ASSUME NEW a \in Attempts, OfferStep(a) PROVE PublishInv'
  BY <1>4, OfferPublish, AcceptPublish DEF OfferStep
<1>5. ASSUME NEW a \in Attempts, Fail(a) \/ RecordCompleted(a) PROVE PublishInv'
  <2>1. a \in AtWork /\ End(a) BY <1>5 DEF Fail, Fails, RecordCompleted, AtWork
  <2>2. UNCHANGED <<senderVars, answerVars, policy, journal, files, wire>>
    BY <1>5 DEF Fail, RecordCompleted
  <2> QED BY <2>1, <2>2, EndPublish
<1>6. ASSUME NEW a \in Attempts, ThreadStep(a) PROVE PublishInv'
  BY <1>5, <1>6, StartedPublish, OpenPublish, ReconcilePublish, ReceivePublish, SavePublish,
     VerifyPublish, ChoosePublish, PublishPublish, MarkPublish, CompletedPublish DEF ThreadStep
<1> QED BY <1>1, <1>2, <1>3, <1>4, <1>6, RestartPublish DEF Next

(* A thread sets to work by being accepted, and in no other way.           *)
LEMMA WorkBegins ==
    ASSUME SessionInv, [Next]_vars
    PROVE  AtWork' \subseteq AtWork \/ \E a \in Attempts : Accept(a)
<1> SUFFICES ASSUME ~ \E a \in Attempts : Accept(a) PROVE AtWork' \subseteq AtWork OBVIOUS
<1>0. thread \in [Attempts -> Phases] BY DEF SessionInv, Shaped
<1>1. CASE UNCHANGED thread BY <1>1 DEF AtWork
<1>2. CASE Restart
  <2>1. \A a \in Attempts : thread'[a] = thread[a] \/ thread'[a] = "ended"
    BY <1>0, <1>2 DEF Restart
  <2> QED BY <2>1 DEF AtWork
<1>3. ASSUME Connect PROVE AtWork' \subseteq AtWork
  <2>1. \A a \in Attempts : thread'[a] = thread[a] \/ thread'[a] = "incoming"
    BY <1>0, <1>3 DEF Connect
  <2> QED BY <2>1 DEF AtWork
<1>4. ASSUME NEW a \in Attempts, OfferStep(a) PROVE AtWork' \subseteq AtWork
  <2>1. \A b \in Attempts : thread'[b] = thread[b] \/ thread'[b] \in {"pending", "ended"}
    BY <1>0, <1>4 DEF OfferStep, InsertOffer, Dismiss, Pass
  <2> QED BY <2>1 DEF AtWork
<1>5. ASSUME NEW a \in Attempts, ThreadStep(a) PROVE AtWork' \subseteq AtWork
  <2>1. a \in AtWork
    BY <1>5 DEF ThreadStep, AtWork, Fail, RecordStarted, OpenJournal, ReconcileItem, AnswerReady,
       WritePiece, SavePiece, Verify, ChooseDestination, Publish, SaveComplete,
       AnswerCompleted, RecordCompleted, Receiving
  <2>2. \A b \in Attempts : b # a => thread'[b] = thread[b]
    BY <1>0, <1>5 DEF ThreadStep, Fail, Fails, RecordStarted, OpenJournal, ReconcileItem,
       AnswerReady, WritePiece, SavePiece, Verify, ChooseDestination, Publish, SaveComplete,
       AnswerCompleted, RecordCompleted, End, Pass
  <2> QED BY <2>1, <2>2 DEF AtWork
<1> QED BY <1>1, <1>2, <1>3, <1>4, <1>5
    DEF Next, SenderStep, SnapshotStale, StartStreaming, SendPiece, ReadAnswer, Break, EditSource,
        vars, threadVars

(* With one receive thread of the job at a time, as in the run, threads    *)
(* follow each other.                                                      *)
THEOREM OneAtATime == ASSUME MaxAtWork = 1 PROVE Spec => []Alone
<1>1. Init => Alone BY DEF Init, Alone, AtWork
<1>2. SessionInv /\ Alone /\ [Next]_vars => Alone'
  <2> SUFFICES ASSUME SessionInv, Alone, [Next]_vars PROVE Alone' OBVIOUS
  <2>1. CASE AtWork' \subseteq AtWork BY <2>1 DEF Alone
  <2>2. ASSUME NEW a \in Attempts, Accept(a) PROVE Alone'
    <3>1. AtWork \subseteq Attempts BY DEF AtWork
    <3>2. IsFiniteSet(AtWork) BY <3>1, NamesAreFinite, FS_Subset
    <3>3. Cardinality(AtWork) \in Nat /\ Cardinality(AtWork) < 1
      BY <2>2, <3>2, FS_CardinalityType DEF Accept
    <3>4. Cardinality(AtWork) = 0 BY <3>3
    <3>5. AtWork = {} BY <3>2, <3>4, FS_EmptySet
    <3>6. \A b \in Attempts : b # a => thread'[b] = thread[b]
      BY <2>2 DEF Accept, Pass, SessionInv, Shaped
    <3> QED BY <3>5, <3>6 DEF Alone, AtWork
  <2> QED BY <2>1, <2>2, WorkBegins
<1> QED BY <1>1, <1>2, SessionKept, PTL DEF Spec

(* What the three invariants come to, while the receive threads of the     *)
(* job follow each other.                                                  *)
THEOREM PublishKept == Spec /\ []Alone => [](SessionInv /\ NamesInv /\ PublishInv)
<1>1. Init => SessionInv /\ NamesInv /\ PublishInv BY InitSession, InitNames, InitPublish
<1>2. SessionInv /\ NamesInv /\ PublishInv /\ [Next]_vars /\ Alone'
         => (SessionInv /\ NamesInv /\ PublishInv)'
  BY NextSession, NextNames, NextPublish
<1> QED BY <1>1, <1>2, PTL DEF Spec

(* NothingMixed: while the receive threads of the job follow each other, a *)
(* file of the receive directory is of one version, without a hole.        *)
THEOREM FilesAreWhole == Spec /\ []Alone => []NothingMixed
<1>1. PublishInv => NothingMixed BY DEF PublishInv
<1> QED BY <1>1, PublishKept, PTL

(* JournalledCompleteIsPublished: while the receive threads follow each    *)
(* other, what the journal on the disk calls complete is there.            *)
THEOREM JournalIsRight == Spec /\ []Alone => []JournalledCompleteIsPublished
<1>1. PublishInv => JournalledCompleteIsPublished
  BY DEF PublishInv, Right, JournalledCompleteIsPublished
<1> QED BY <1>1, PublishKept, PTL

(* CompletedMeansDelivered: while the receive threads follow each other,   *)
(* what the sender is told is delivered has been, as it was hashed for     *)
(* that attempt.                                                           *)
THEOREM CompletedIsDelivered == Spec /\ []Alone => []CompletedMeansDelivered
<1>1. SessionInv /\ PublishInv => CompletedMeansDelivered
  <2> SUFFICES ASSUME SessionInv, PublishInv, sender = "completed"
               PROVE  \A i \in Items : Delivered(attempt, i)
    BY DEF CompletedMeansDelivered, Delivered
  <2>1. attempt \in Attempts /\ reply[attempt] = "completed" BY DEF SessionInv, SenderTurn
  <2>2. attempt # 0 BY <2>1, Numbers
  <2> QED BY <2>1, <2>2 DEF PublishInv, Settled, Told
<1> QED BY <1>1, PublishKept, PTL

-----------------------------------------------------------------------------
(* The job's entry in the history, under the same condition.               *)

(* A step of one thread, or of nobody, that leaves to the others what they *)
(* have noted.                                                             *)
LEMMA HistoryFrame ==
    ASSUME PublishInv, HistoryInv, NEW a \in Attempts, Noted(a)',
           \A b \in Attempts : b # a => /\ thread'[b] = thread[b] /\ item'[b] = item[b]
                                        /\ memory'[b] = memory[b],
           journal'.complete = journal.complete \/ a \in AtWork,
           AlreadyCompleted' => Items \subseteq journal'.complete
    PROVE  HistoryInv'
<1> USE DEF Streaming
<1>1. ASSUME NEW b \in Attempts, b # a PROVE Noted(b)'
  <2>1. CASE journal'.complete = journal.complete BY <1>1, <2>1 DEF HistoryInv, Noted
  <2>2. CASE a \in AtWork
    <3>1. thread'[b] \in {"none", "incoming", "pending", "ended"}
      BY <1>1, <2>2, OthersIdle DEF PublishInv
    <3> QED BY <3>1 DEF Noted
  <2> QED BY <2>1, <2>2
<1> QED BY <1>1 DEF HistoryInv

(* At the beginning nothing is noted.                                      *)
LEMMA InitHistory == Init => HistoryInv
BY DEF Init, HistoryInv, Noted, AlreadyCompleted, Streaming

(* What the sender does, the network or a restart makes no thread note     *)
(* anything.                                                               *)
LEMMA OutsideHistory ==
    ASSUME SessionInv, HistoryInv, SenderStep \/ EditSource \/ Restart \/ UNCHANGED vars
    PROVE  HistoryInv'
<1> USE DEF Streaming
<1>1. UNCHANGED <<journal, history>>
  BY DEF SenderStep, Connect, SnapshotStale, StartStreaming, SendPiece, ReadAnswer, Break,
         EditSource, Restart, vars, diskVars
<1>2. CASE UNCHANGED <<thread, item, memory>>
  BY <1>1, <1>2 DEF HistoryInv, Noted, AlreadyCompleted
<1>3. CASE Connect
  <2>1. /\ \A b \in Attempts : thread'[b] = thread[b] \/ thread'[b] = "incoming"
        /\ UNCHANGED <<item, memory>>
    BY <1>3 DEF Connect, SessionInv, Shaped
  <2> QED BY <1>1, <2>1 DEF HistoryInv, Noted, AlreadyCompleted
<1>4. CASE Restart
  <2>1. \A b \in Attempts : thread'[b] \in {"none", "ended"} BY <1>4 DEF Restart
  <2> QED BY <1>1, <2>1 DEF HistoryInv, Noted, AlreadyCompleted
<1> QED BY <1>2, <1>3, <1>4
    DEF SenderStep, SnapshotStale, StartStreaming, SendPiece, ReadAnswer, Break, EditSource,
        vars, threadVars

(* A thread that is only being offered its work, or has ended, has nothing *)
(* to note, and only RecordCompleted makes an entry that says "completed". *)
LEMMA IdleHistory ==
    ASSUME SessionInv, PublishInv, HistoryInv, NEW a \in Attempts,
           OfferStep(a) \/ Fail(a) \/ RecordStarted(a) \/ ReconcileItem(a)
    PROVE  HistoryInv'
<1> USE DEF Streaming
<1>1. /\ thread'[a] \in {"pending", "accepted", "open", "reconcile", "ended"}
      /\ UNCHANGED journal /\ (history' = history \/ history' \in {"started", "failed"})
  <2>1. thread \in [Attempts -> Phases] /\ a # 0 /\ (offer # 0 => offer \in Attempts)
    BY Numbers DEF SessionInv, Shaped
  <2>2. CASE OfferStep(a)
    BY <2>1, <2>2 DEF OfferStep, InsertOffer, Accept, Dismiss, Pass, diskVars
  <2>3. CASE Fail(a)
    BY <2>1, <2>3 DEF Fail, Fails, Record, End, Pass
  <2>4. CASE RecordStarted(a) \/ ReconcileItem(a)
    BY <2>1, <2>4 DEF RecordStarted, ReconcileItem, Record, Pass
  <2> QED BY <2>2, <2>3, <2>4
<1>2. \A b \in Attempts : b # a =>
         thread'[b] = thread[b] /\ item'[b] = item[b] /\ memory'[b] = memory[b]
  BY DEF OfferStep, InsertOffer, Accept, Dismiss, Fail, Fails, RecordStarted, ReconcileItem,
         End, Pass, threadVars, SessionInv, Shaped
<1>3. Noted(a)' BY <1>1 DEF Noted
<1>4. AlreadyCompleted' => Items \subseteq journal'.complete
  BY <1>1 DEF HistoryInv, AlreadyCompleted
<1> QED BY <1>1, <1>2, <1>3, <1>4, HistoryFrame

(* While a thread receives, its job's entry does not say "completed"; an   *)
(* item is behind it when the journal in memory and on the disk has it.    *)
LEMMA WorkHistory ==
    ASSUME SessionInv, PublishInv, HistoryInv, NEW a \in Attempts,
           \/ OpenJournal(a) \/ AnswerReady(a) \/ WritePiece(a) \/ SavePiece(a) \/ Verify(a)
           \/ ChooseDestination(a) \/ Publish(a) \/ SaveComplete(a) \/ AnswerCompleted(a)
    PROVE  HistoryInv'
<1> USE DEF Streaming, Working
<1>0. /\ thread \in [Attempts -> Phases] /\ item \in [Attempts -> 1..ItemCount + 1]
      /\ memory \in [Attempts -> Books]
  BY DEF SessionInv, Shaped
<1>1. /\ a \in AtWork /\ history # "completed"
      /\ history' = history \/ history' = "failed"
  <2>1. (thread[a] = "open" /\ ~AlreadyCompleted) \/ thread[a] \in Working
    BY DEF OpenJournal, AnswerReady, WritePiece, SavePiece, Verify, ChooseDestination, Publish,
           SaveComplete, AnswerCompleted, Receiving
  <2>2. history # "completed" BY <2>1 DEF AlreadyCompleted, PublishInv, Publishing
  <2>3. history' = history \/ history' = "failed"
    BY DEF OpenJournal, AnswerReady, WritePiece, SavePiece, Verify, ChooseDestination, Publish,
           SaveComplete, AnswerCompleted, Fails, Record, diskVars
  <2> QED BY <2>1, <2>2, <2>3 DEF AtWork
<1>2. \A b \in Attempts : b # a =>
         thread'[b] = thread[b] /\ item'[b] = item[b] /\ memory'[b] = memory[b]
  BY <1>0
  DEF OpenJournal, AnswerReady, WritePiece, SavePiece, Verify, ChooseDestination, Publish,
      SaveComplete, AnswerCompleted, Fails, End, Pass
<1>3. Noted(a)'
  <2>1. ASSUME End(a) PROVE Noted(a)' BY <1>0, <2>1 DEF End, Pass, Noted
  <2>2. CASE OpenJournal(a) BY <1>0, <2>2 DEF OpenJournal, Pass, Noted
  <2>3. CASE AnswerReady(a)
    <3>1. thread'[a] = "receive" /\ item'[a] = 1 BY <1>0, <2>3 DEF AnswerReady, Pass
    <3>2. \A i \in Items : ~(i < 1) BY Numbers
    <3> QED BY <3>1, <3>2 DEF Noted
  <2>4. CASE WritePiece(a) \/ Verify(a) \/ ChooseDestination(a) \/ Publish(a)
    <3>1. \/ End(a)
          \/ /\ thread[a] \in Streaming /\ thread'[a] \in Streaming
             /\ UNCHANGED <<item, memory, journal>>
      BY <1>0, <2>4
      DEF WritePiece, Verify, ChooseDestination, Publish, Fails, Pass, Receiving, diskVars
    <3> QED BY <2>1, <3>1 DEF HistoryInv, Noted
  <2>5. CASE SavePiece(a)
    <3>1. /\ thread[a] = "save" /\ thread'[a] = "receive" /\ item' = item
          /\ memory'[a].complete = memory[a].complete /\ journal' = memory'[a]
      BY <1>0, <2>5 DEF SavePiece, MarkVerified, SaveJournal, Pass, Books
    <3> QED BY <3>1 DEF HistoryInv, Noted
  <2>6. CASE SaveComplete(a)
    <3>1. /\ thread[a] = "mark" /\ thread'[a] = "receive" /\ item'[a] = item[a] + 1
          /\ memory'[a].complete = memory[a].complete \cup {item[a]} /\ journal' = memory'[a]
      BY <1>0, <2>6 DEF SaveComplete, MarkComplete, SaveJournal, Pass, Books
    <3>2. \A i \in Items : i < item[a] + 1 => i < item[a] \/ i = item[a] BY <1>0, Numbers
    <3> QED BY <3>1, <3>2 DEF HistoryInv, Noted
  <2>7. CASE AnswerCompleted(a)
    <3>1. /\ thread[a] = "receive" /\ thread'[a] = "record" /\ item[a] > ItemCount
          /\ journal' = journal
      BY <1>0, <2>7 DEF AnswerCompleted, Pass, diskVars
    <3>2. \A i \in Items : i < item[a] BY <1>0, <3>1, Numbers
    <3> QED BY <3>1, <3>2 DEF HistoryInv, Noted
  <2> QED BY <2>2, <2>3, <2>4, <2>5, <2>6, <2>7
<1> QED BY <1>1, <1>2, <1>3, HistoryFrame DEF AlreadyCompleted

(* The entry that says "completed" is made by a thread that has journalled *)
(* every item.                                                             *)
LEMMA RecordHistory ==
    ASSUME SessionInv, PublishInv, HistoryInv, NEW a \in Attempts, RecordCompleted(a)
    PROVE  HistoryInv'
<1> USE DEF Streaming
<1>1. /\ thread[a] = "record" /\ thread'[a] = "ended" /\ journal' = journal
      /\ \A b \in Attempts : b # a =>
            thread'[b] = thread[b] /\ item'[b] = item[b] /\ memory'[b] = memory[b]
  BY DEF RecordCompleted, End, Pass, SessionInv, Shaped
<1>2. Noted(a)' /\ Items \subseteq journal'.complete BY <1>1 DEF HistoryInv, Noted
<1> QED BY <1>1, <1>2, HistoryFrame

(* Every step keeps the history true, if threads work one at a time.       *)
LEMMA NextHistory == SessionInv /\ PublishInv /\ HistoryInv /\ [Next]_vars => HistoryInv'
<1> SUFFICES ASSUME SessionInv, PublishInv, HistoryInv, [Next]_vars PROVE HistoryInv' OBVIOUS
<1>1. ASSUME NEW a \in Attempts, OfferStep(a) \/ ThreadStep(a) PROVE HistoryInv'
  BY <1>1, IdleHistory, WorkHistory, RecordHistory DEF ThreadStep
<1> QED BY <1>1, OutsideHistory DEF Next

(* CompletedHistoryIsTrue: while the receive threads follow each other, a  *)
(* job that the history calls completed has every item in the journal and  *)
(* in the receive directory, or skipped, whatever earlier attempts of it   *)
(* have recorded, left behind or begun anew.                               *)
THEOREM CompletedHistoryIsRight == Spec /\ []Alone => []CompletedHistoryIsTrue
<1>1. SessionInv /\ PublishInv /\ HistoryInv => CompletedHistoryIsTrue
  <2> SUFFICES ASSUME SessionInv, PublishInv, HistoryInv, AlreadyCompleted
               PROVE  journal.complete = Items /\ \A i \in Items : Right(i)
    BY DEF CompletedHistoryIsTrue, Right
  <2>1. journal.complete \subseteq Items BY DEF SessionInv, Shaped, IsBook, Books
  <2> QED BY <2>1 DEF HistoryInv, PublishInv
<1>2. Init => HistoryInv BY InitHistory
<1>3. SessionInv /\ PublishInv /\ HistoryInv /\ [Next]_vars => HistoryInv' BY NextHistory
<1> QED BY <1>1, <1>2, <1>3, PublishKept, PTL DEF Spec
=============================================================================
