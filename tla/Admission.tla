------------------------------ MODULE Admission ------------------------------
(***************************************************************************)
(* What the fan-out scheduler promises to the recipient workers of one     *)
(* parent job: a counting semaphore with a bounded first-come first-served *)
(* line.  There is no lock, no counter and no condition variable here.     *)
(***************************************************************************)
EXTENDS Naturals, Sequences, FiniteSets

CONSTANTS Workers,      (* the recipient workers of the job                *)
          MaxParallel,  (* how many of them may hold a permit at once      *)
          QueueLimit    (* how many of them may stand in line              *)

VARIABLES holders,      (* the workers that hold a permit                  *)
          line,         (* the workers waiting for one, oldest first       *)
          gone          (* the workers that left or were turned away       *)

vars == <<holders, line, gone>>

Fresh(w) == w \notin holders \cup gone /\ \A i \in 1..Len(line) : line[i] # w

HasRoom == Cardinality(holders) < MaxParallel

Init == holders = {} /\ line = <<>> /\ gone = {}

(* A newcomer walks straight in only when nobody is waiting. *)
Enter(w) ==
    /\ Fresh(w) /\ line = <<>> /\ HasRoom
    /\ holders' = holders \cup {w}
    /\ UNCHANGED <<line, gone>>

StandInLine(w) ==
    /\ Fresh(w) /\ ~(line = <<>> /\ HasRoom) /\ Len(line) < QueueLimit
    /\ line' = Append(line, w)
    /\ UNCHANGED <<holders, gone>>

TurnAway(w) ==
    /\ Fresh(w) /\ ~(line = <<>> /\ HasRoom) /\ Len(line) >= QueueLimit
    /\ gone' = gone \cup {w}
    /\ UNCHANGED <<holders, line>>

(* Only the head of the line is served, and only into a free permit. *)
ServeHead ==
    /\ line # <<>> /\ HasRoom
    /\ holders' = holders \cup {Head(line)}
    /\ line' = Tail(line)
    /\ UNCHANGED gone

Leave(w) ==
    /\ w \in holders
    /\ holders' = holders \ {w}
    /\ gone' = gone \cup {w}
    /\ UNCHANGED line

Next ==
    \/ ServeHead
    \/ \E w \in Workers :
         Enter(w) \/ StandInLine(w) \/ TurnAway(w) \/ Leave(w)

Spec == Init /\ [][Next]_vars
=============================================================================
