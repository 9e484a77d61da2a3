------------------------------ MODULE PacedSend ------------------------------
(***************************************************************************)
(* The chunk loop of send_to_peer (transfer.rs), run by every admitted     *)
(* recipient worker, and the bandwidth limit the workers of a job share,   *)
(* SwarmScheduler::throttle (scheduler.rs).  Time advances in ticks, of    *)
(* which Second make a second.  The f64 token count is a natural number    *)
(* of bytes here; its rounding is not modelled.                            *)
(***************************************************************************)
EXTENDS Naturals, Sequences

CONSTANTS Workers,
          PerTick,      (* bandwidth_bytes_per_second / Second             *)
          Second,       (* ticks in a second                               *)
          Chunks        (* worker -> the sizes of the chunks it reads      *)

Rate == PerTick * Second

ASSUME PacedSendAssumption ==
    /\ PerTick \in Nat \ {0}
    /\ Second \in Nat \ {0}
    /\ Chunks \in [Workers -> Seq(Nat \ {0})]

VARIABLES tokens,       (* state.tokens                                    *)
          owed,         (* ticks since state.last_refill, at most Second:  *)
                        (* any more would overflow the bucket anyway       *)
          pc,           (* where each worker is in its loop                *)
          sent,         (* chunks it has written to its socket             *)
          timer,        (* ticks its thread::sleep still lasts             *)
          cancelled,    (* the workers whose cancel flag is up             *)
          clock         (* flips with every tick                           *)

vars == <<tokens, owed, pc, sent, timer, cancelled, clock>>

PcStates == {"check", "throttle", "asleep", "write", "done", "interrupted"}

Init ==
    /\ tokens = Rate
    /\ owed = 0
    /\ pc = [w \in Workers |-> "check"]
    /\ sent = [w \in Workers |-> 0]
    /\ timer = [w \in Workers |-> 0]
    /\ cancelled = {}
    /\ clock = 0

Goto(w, label) == pc' = [pc EXCEPT ![w] = label]

NextSize(w) == Chunks[w][sent[w] + 1]

(* while current < item.size { if is_cancelled_for(..) return; read(..) }  *)
CheckChunk(w) ==
    /\ pc[w] = "check"
    /\ \/ sent[w] = Len(Chunks[w]) /\ Goto(w, "done")
       \/ sent[w] < Len(Chunks[w]) /\ w \in cancelled /\ Goto(w, "interrupted")
       \/ sent[w] < Len(Chunks[w]) /\ w \notin cancelled /\ Goto(w, "throttle")
    /\ UNCHANGED <<tokens, owed, sent, timer, cancelled, clock>>

(* Mutated form: the bucket is not capped.                                 *)
RefilledUncapped == tokens + owed * PerTick

(* state.tokens = (state.tokens + elapsed * rate).min(rate)                *)
Refilled == IF tokens + owed * PerTick <= Rate THEN tokens + owed * PerTick ELSE Rate

(* wait.min(1.0).max(0.001), in ticks, for a request above the level.      *)
NapLength(request, level) ==
    LET ticks == (request - level + PerTick - 1) \div PerTick
    IN  IF ticks > Second THEN Second ELSE ticks

(* throttle, one pass under the lock: the tokens suffice.                  *)
Grant(w) ==
    /\ pc[w] = "throttle" /\ Refilled >= NextSize(w)
    /\ tokens' = Refilled - NextSize(w)
    /\ owed' = 0
    /\ Goto(w, "write")
    /\ UNCHANGED <<sent, timer, cancelled, clock>>

(* Mutated forms: the refill is not stored, or its time is not noted.      *)
NapUnstored(w) ==
    /\ pc[w] = "throttle" /\ Refilled < NextSize(w)
    /\ owed' = 0
    /\ timer' = [timer EXCEPT ![w] = NapLength(NextSize(w), Refilled)]
    /\ Goto(w, "asleep")
    /\ UNCHANGED <<tokens, sent, cancelled, clock>>

NapUntimed(w) ==
    /\ pc[w] = "throttle" /\ Refilled < NextSize(w)
    /\ tokens' = Refilled
    /\ timer' = [timer EXCEPT ![w] = NapLength(NextSize(w), Refilled)]
    /\ Goto(w, "asleep")
    /\ UNCHANGED <<owed, sent, cancelled, clock>>

(* throttle, one pass: they do not; the thread sleeps without the lock.    *)
Nap(w) ==
    /\ pc[w] = "throttle" /\ Refilled < NextSize(w)
    /\ tokens' = Refilled
    /\ owed' = 0
    /\ timer' = [timer EXCEPT ![w] = NapLength(NextSize(w), Refilled)]
    /\ Goto(w, "asleep")
    /\ UNCHANGED <<sent, cancelled, clock>>

Wake(w) ==
    /\ pc[w] = "asleep" /\ timer[w] = 0
    /\ Goto(w, "throttle")
    /\ UNCHANGED <<tokens, owed, sent, timer, cancelled, clock>>

WriteChunk(w) ==
    /\ pc[w] = "write"
    /\ sent' = [sent EXCEPT ![w] = @ + 1]
    /\ Goto(w, "check")
    /\ UNCHANGED <<tokens, owed, timer, cancelled, clock>>

(* cancel / cancel_recipient, at any moment.                               *)
Cancel(w) ==
    /\ w \notin cancelled
    /\ cancelled' = cancelled \cup {w}
    /\ UNCHANGED <<tokens, owed, pc, sent, timer, clock>>

Stopped(w) == pc[w] \in {"done", "interrupted"}

Tick ==
    /\ \E w \in Workers : ~Stopped(w)
    /\ owed' = IF owed < Second THEN owed + 1 ELSE Second
    /\ timer' = [w \in Workers |-> IF timer[w] > 0 THEN timer[w] - 1 ELSE 0]
    /\ UNCHANGED <<tokens, pc, sent, cancelled>>
    /\ clock' = 1 - clock

Step(w) == CheckChunk(w) \/ Grant(w) \/ Nap(w) \/ Wake(w) \/ WriteChunk(w)

AllStopped == (\A w \in Workers : Stopped(w)) /\ UNCHANGED vars

Next == Tick \/ AllStopped \/ \E w \in Workers : Step(w) \/ Cancel(w)

(* Time passes and every thread runs.  Nobody has to cancel.               *)
Spec ==
    /\ Init /\ [][Next]_vars
    /\ WF_vars(Tick)
    /\ \A w \in Workers : WF_vars(Step(w))

-----------------------------------------------------------------------------
TypeOK ==
    /\ tokens \in 0..Rate
    /\ owed \in 0..Second
    /\ pc \in [Workers -> PcStates]
    /\ \A w \in Workers : sent[w] \in 0..Len(Chunks[w])
    /\ timer \in [Workers -> 0..Second]
    /\ cancelled \subseteq Workers
    /\ clock \in {0, 1}

Sizes == UNION {{Chunks[w][i] : i \in 1..Len(Chunks[w])} : w \in Workers}

(* The shared limit: although the bucket is topped up only when a worker   *)
(* happens to look at it, and several workers look at it in any order,     *)
(* what they send together is paid for by a bucket that fills in real time.*)
Bucket == INSTANCE TokenBucket WITH Capacity <- Rate, Amounts <- Sizes,
                                    level <- Refilled

ImplementsTokenBucket == Bucket!Spec

(* With chunks no larger than a second of the rate every worker's loop     *)
(* ends, although the bucket has no queue and workers with small chunks    *)
(* may keep emptying it before one with a large chunk wakes up.            *)
EveryWorkerStops == \A w \in Workers : <>Stopped(w)
=============================================================================
