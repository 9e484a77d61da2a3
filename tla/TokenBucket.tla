----------------------------- MODULE TokenBucket -----------------------------
(***************************************************************************)
(* What pacing promises: a bucket that fills by PerTick every tick, holds  *)
(* at most one second's worth, and pays for every byte that is sent.  Over *)
(* any t ticks no more than Capacity + t * PerTick can leave it.           *)
(***************************************************************************)
EXTENDS Naturals

CONSTANTS PerTick,      (* bytes earned per tick                           *)
          Capacity,     (* the bucket's size: one second of the rate       *)
          Amounts       (* the sizes a single request may have             *)

VARIABLES level,
          clock         (* flips with every tick                           *)

Init == level = Capacity /\ clock = 0

(* It fills with the clock and at no other time.                           *)
Fill ==
    /\ level' = IF level + PerTick <= Capacity THEN level + PerTick ELSE Capacity
    /\ clock' = 1 - clock

Pay(n) == n <= level /\ level' = level - n /\ UNCHANGED clock

Next == Fill \/ \E n \in Amounts : Pay(n)

Spec == Init /\ [][Next]_<<level, clock>>
=============================================================================
