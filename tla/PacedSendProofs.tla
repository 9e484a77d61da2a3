--------------------------- MODULE PacedSendProofs ---------------------------
(***************************************************************************)
(* Pacing implements the token bucket, for any number of workers, any      *)
(* rate, any length of a second and any chunks.                            *)
(***************************************************************************)
EXTENDS PacedSend, TLAPS

(* The units are positive numbers.                                         *)
LEMMA RateIsNat ==
    /\ PerTick \in Nat /\ PerTick >= 1 /\ Second \in Nat /\ Second >= 1
    /\ Rate \in Nat /\ Rate >= 1 /\ Rate = Second * PerTick
  BY PacedSendAssumption DEF Rate

(* The type invariant is inductive once it says that a worker that asks    *)
(* for tokens has a chunk to send.                                         *)
Asking == \A w \in Workers : pc[w] = "throttle" \/ pc[w] = "asleep" \/ pc[w] = "write"
                                => sent[w] < Len(Chunks[w])

Inv == TypeOK /\ sent \in [Workers -> Nat] /\ Asking

(* What a pass through throttle finds in the bucket.                       *)
LEMMA RefilledRange ==
    ASSUME tokens \in 0..Rate, owed \in 0..Second
    PROVE  /\ Refilled \in 0..Rate /\ tokens <= Refilled
           /\ owed = 0 => Refilled = tokens
           /\ owed = Second => Refilled = Rate
  <1>1. owed * PerTick \in Nat
    BY RateIsNat
  <1>2. owed = 0 => owed * PerTick = 0
    BY RateIsNat
  <1>3. owed = Second => owed * PerTick = Rate
    BY RateIsNat
  <1> QED BY <1>1, <1>2, <1>3, RateIsNat DEF Refilled

(* The chunk a worker asks tokens for is one of its chunks.                *)
LEMMA NextSizeRange ==
    ASSUME Inv, NEW w \in Workers, sent[w] < Len(Chunks[w])
    PROVE  NextSize(w) \in Nat /\ NextSize(w) >= 1 /\ NextSize(w) \in Sizes
  <1>1. Chunks[w] \in Seq(Nat \ {0}) /\ sent[w] \in Nat
    BY PacedSendAssumption DEF Inv
  <1>2. sent[w] + 1 \in 1..Len(Chunks[w])
    BY <1>1
  <1>3. Chunks[w][sent[w] + 1] \in Nat \ {0}
    BY <1>1, <1>2
  <1>4. Chunks[w][sent[w] + 1] \in {Chunks[w][i] : i \in 1..Len(Chunks[w])}
    BY <1>2
  <1> QED BY <1>3, <1>4 DEF NextSize, Sizes

(* wait.min(1.0): no nap is longer than a second.                          *)
LEMMA NapLengthRange ==
    ASSUME NEW m \in Nat, NEW n \in Nat, n < m
    PROVE  NapLength(m, n) \in 0..Second
  <1>1. m - n + PerTick - 1 \in Nat
    BY RateIsNat
  <1>2. (m - n + PerTick - 1) \div PerTick \in Nat
    BY <1>1, RateIsNat
  <1> QED BY <1>2, RateIsNat DEF NapLength

(* The invariant holds before the first chunk.                             *)
LEMMA InvInit == Init => Inv
  <1> SUFFICES ASSUME Init PROVE Inv
    OBVIOUS
  <1>1. \A w \in Workers : Chunks[w] \in Seq(Nat \ {0})
    BY PacedSendAssumption
  <1> QED BY <1>1, RateIsNat DEF Init, Inv, TypeOK, Asking, PcStates

(* Every step of a worker, and of time, keeps it.                          *)
LEMMA InvStep == Inv /\ [Next]_vars => Inv'
  <1> SUFFICES ASSUME Inv, [Next]_vars PROVE Inv'
    OBVIOUS
  <1> USE DEF Inv, TypeOK
  <1>1. Refilled \in 0..Rate
    BY RefilledRange
  <1>2. \A w \in Workers : Len(Chunks[w]) \in Nat
    BY PacedSendAssumption
  <1>3. ASSUME NEW w \in Workers, CheckChunk(w)
        PROVE  Inv'
    BY <1>3 DEF CheckChunk, Goto, PcStates, Asking
  <1>4. ASSUME NEW w \in Workers, Grant(w)
        PROVE  Inv'
    <2>1. sent[w] < Len(Chunks[w])
      BY <1>4 DEF Grant, Asking
    <2>2. NextSize(w) \in Nat
      BY <2>1, NextSizeRange
    <2>3. tokens' \in 0..Rate /\ owed' \in 0..Second
      BY <1>1, <1>4, <2>2, RateIsNat DEF Grant
    <2> QED BY <1>4, <2>3 DEF Grant, Goto, PcStates, Asking
  <1>5. ASSUME NEW w \in Workers, Nap(w)
        PROVE  Inv'
    <2>1. sent[w] < Len(Chunks[w])
      BY <1>5 DEF Nap, Asking
    <2>2. NapLength(NextSize(w), Refilled) \in 0..Second
      BY <1>1, <1>5, <2>1, NextSizeRange, NapLengthRange DEF Nap
    <2>3. /\ tokens' \in 0..Rate /\ owed' \in 0..Second
          /\ timer' \in [Workers -> 0..Second]
      BY <1>1, <1>5, <2>2, RateIsNat DEF Nap
    <2> QED BY <1>5, <2>3 DEF Nap, Goto, PcStates, Asking
  <1>6. ASSUME NEW w \in Workers, Wake(w)
        PROVE  Inv'
    BY <1>6 DEF Wake, Goto, PcStates, Asking
  <1>7. ASSUME NEW w \in Workers, WriteChunk(w)
        PROVE  Inv'
    BY <1>2, <1>7 DEF WriteChunk, Goto, PcStates, Asking
  <1>8. ASSUME NEW w \in Workers, Cancel(w)
        PROVE  Inv'
    BY <1>8 DEF Cancel, Asking
  <1>9. ASSUME Tick
        PROVE  Inv'
    BY <1>9, RateIsNat DEF Tick, Asking
  <1>10. CASE UNCHANGED vars
    BY <1>10 DEF vars, Asking
  <1> QED BY <1>3, <1>4, <1>5, <1>6, <1>7, <1>8, <1>9, <1>10 DEF Next, Step, AllStopped

(* The type invariant of the chunk loops, the bucket never above a second  *)
(* of the rate nor below nothing.                                          *)
THEOREM PacingTypeCorrect == Spec => []TypeOK
  <1>1. Inv => TypeOK
    BY DEF Inv
  <1> QED BY <1>1, InvInit, InvStep, PTL DEF Spec

-----------------------------------------------------------------------------
(* The step of the bucket that each step of the workers is.                *)

(* Tokens that a worker takes are paid out of the ideal bucket.            *)
LEMMA GrantPays ==
    ASSUME Inv, NEW w \in Workers, Grant(w)
    PROVE  \E n \in Sizes : Bucket!Pay(n)
  <1>1. sent[w] < Len(Chunks[w])
    BY DEF Grant, Inv, Asking
  <1>2. NextSize(w) \in Nat /\ NextSize(w) \in Sizes
    BY <1>1, NextSizeRange
  <1>3. Refilled \in 0..Rate
    BY RefilledRange DEF Inv, TypeOK
  <1>4. Refilled' = tokens'
    <2>1. owed' * PerTick = 0 /\ tokens' \in 0..Rate
      BY <1>2, <1>3, RateIsNat DEF Grant
    <2> QED BY <2>1, RateIsNat DEF Refilled, Rate, Grant
  <1>5. Bucket!Pay(NextSize(w))
    BY <1>4 DEF Grant, Bucket!Pay
  <1> QED BY <1>2, <1>5

(* A look at the bucket that finds too little only notes what time has     *)
(* brought.                                                                *)
LEMMA NapKeepsLevel ==
    ASSUME Inv, NEW w \in Workers, Nap(w)
    PROVE  UNCHANGED <<Refilled, clock>>
  <1>1. Refilled \in 0..Rate
    BY RefilledRange DEF Inv, TypeOK
  <1>2. owed' * PerTick = 0 /\ tokens' = Refilled
    BY RateIsNat DEF Nap
  <1>3. Refilled' = tokens'
    BY <1>1, <1>2, RateIsNat DEF Refilled, Rate
  <1> QED BY <1>2, <1>3 DEF Nap

(* What time adds is what the ideal bucket gets.                           *)
LEMMA TickFills == ASSUME Inv, Tick PROVE Bucket!Fill
  <1>1. tokens \in 0..Rate /\ owed \in 0..Second
    BY DEF Inv, TypeOK
  <1>2. tokens' = tokens /\ clock' = 1 - clock
    BY DEF Tick
  <1>3. CASE owed < Second
    <2>1. owed' = owed + 1
      BY <1>3 DEF Tick
    <2>2. owed' * PerTick = owed * PerTick + PerTick /\ owed * PerTick \in Nat
      BY <1>1, <2>1, RateIsNat
    <2>3. Refilled' = IF Refilled + PerTick <= Rate THEN Refilled + PerTick ELSE Rate
      BY <1>1, <1>2, <2>2, RateIsNat DEF Refilled, Rate
    <2> QED BY <1>2, <2>3 DEF Bucket!Fill
  <1>4. CASE owed = Second
    <2>1. owed' = owed
      BY <1>4, RateIsNat DEF Tick
    <2>2. Refilled = Rate /\ Refilled' = Refilled
      BY <1>1, <1>2, <1>4, <2>1, RefilledRange DEF Refilled, Rate
    <2> QED BY <1>2, <2>2, RateIsNat DEF Bucket!Fill
  <1> QED BY <1>1, <1>3, <1>4, RateIsNat

(* The level that a worker would find in the bucket behaves as that of a   *)
(* bucket which fills in real time and pays for every chunk.               *)
THEOREM PacingImplementsTokenBucket == Spec => ImplementsTokenBucket
  <1>1. Init => Bucket!Init
    <2> SUFFICES ASSUME Init PROVE Refilled = Rate /\ clock = 0
      BY DEF Bucket!Init
    <2>1. tokens = Rate /\ owed * PerTick = 0
      BY RateIsNat DEF Init
    <2> QED BY <2>1, RateIsNat DEF Refilled, Init
  <1>2. Inv /\ [Next]_vars => [Bucket!Next]_<<Refilled, clock>>
    <2> SUFFICES ASSUME Inv, [Next]_vars, ~UNCHANGED <<Refilled, clock>>
                 PROVE  Bucket!Next
      OBVIOUS
    <2>1. CASE Tick
      BY <2>1, TickFills DEF Bucket!Next
    <2>2. ASSUME NEW w \in Workers, Grant(w)
          PROVE  Bucket!Next
      BY <2>2, GrantPays DEF Bucket!Next
    <2>3. ASSUME NEW w \in Workers, Nap(w)
          PROVE  FALSE
      BY <2>3, NapKeepsLevel
    <2>4. ASSUME UNCHANGED <<tokens, owed, clock>>
          PROVE  FALSE
      BY <2>4 DEF Refilled
    <2> QED BY <2>1, <2>2, <2>3, <2>4
            DEF Next, Step, CheckChunk, Wake, WriteChunk, Cancel, AllStopped, vars
  <1>3. Spec => []Inv
    BY InvInit, InvStep, PTL DEF Spec
  <1> QED BY <1>1, <1>2, <1>3, PTL DEF Spec, ImplementsTokenBucket, Bucket!Spec
=============================================================================
