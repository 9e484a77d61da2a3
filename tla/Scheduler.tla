------------------------------ MODULE Scheduler ------------------------------
(***************************************************************************)
(* SwarmScheduler: the admission of recipient workers (scheduler.rs).      *)
(* `state` is a mutex around `active` and the ticket queue `waiting`, and  *)
(* `changed` a condition variable.  A step below is one critical section:  *)
(* from taking the lock to releasing it or going to sleep on `changed`.    *)
(* A worker calls acquire once, so the worker stands for its ticket.       *)
(***************************************************************************)
EXTENDS Naturals, Sequences, FiniteSets

CONSTANTS Workers,      (* the recipient workers sharing the scheduler     *)
          MaxParallel,  (* options.max_parallel_recipients                 *)
          QueueLimit    (* options.queue_limit                             *)

ASSUME SchedulerAssumption ==
    /\ IsFiniteSet(Workers)
    /\ MaxParallel \in 1..8
    /\ QueueLimit \in 0..64

VARIABLES active,       (* permits handed out, as the scheduler counts them *)
          waiting,      (* tickets in line, oldest first                    *)
          slot          (* where each worker stands                         *)

schedVars == <<active, waiting, slot>>

(* "new": has not called acquire;  "asleep": blocked in changed.wait;      *)
(* "awake": notified, still has to retake the lock;  "admitted": holds a   *)
(* SwarmPermit;  "refused": acquire returned Err;  "done": permit dropped. *)
SlotStates == {"new", "asleep", "awake", "admitted", "refused", "done"}

SchedInit ==
    /\ active = 0
    /\ waiting = <<>>
    /\ slot = [w \in Workers |-> "new"]

CanStartImmediately == waiting = <<>> /\ active < MaxParallel

QueueFullLate == Len(waiting) > QueueLimit          \* mutated form: off by one

QueueFull == Len(waiting) >= QueueLimit

(* acquire, first pass: the ticket is pushed and popped under one lock.    *)
AdmitAtOnce(w) ==
    /\ slot[w] = "new" /\ CanStartImmediately
    /\ active' = active + 1
    /\ slot' = [slot EXCEPT ![w] = "admitted"]
    /\ UNCHANGED waiting

(* acquire, first pass: the ticket is pushed and the worker goes to sleep. *)
Enqueue(w) ==
    /\ slot[w] = "new" /\ ~CanStartImmediately /\ ~QueueFull
    /\ waiting' = Append(waiting, w)
    /\ slot' = [slot EXCEPT ![w] = "asleep"]
    /\ UNCHANGED active

(* acquire, first pass: "swarm scheduler queue is full".                   *)
Refuse(w) ==
    /\ slot[w] = "new" /\ ~CanStartImmediately /\ QueueFull
    /\ slot' = [slot EXCEPT ![w] = "refused"]
    /\ UNCHANGED <<active, waiting>>

(* Mutated forms: the position in the queue, or the limit, is not looked at. *)
MayProceedAnyone(w) == waiting # <<>> /\ active < MaxParallel

MayProceedUnlimited(w) == waiting # <<>> /\ Head(waiting) = w

(* at_front && state.active < max_parallel_recipients.                     *)
MayProceed(w) == waiting # <<>> /\ Head(waiting) = w /\ active < MaxParallel

(* acquire, a later pass of the loop: nobody is notified by an admission.  *)
AdmitFromQueue(w) ==
    /\ slot[w] = "awake" /\ MayProceed(w)
    /\ waiting' = Tail(waiting)
    /\ active' = active + 1
    /\ slot' = [slot EXCEPT ![w] = "admitted"]

(* acquire, a later pass of the loop: back to changed.wait.                *)
SleepAgain(w) ==
    /\ slot[w] = "awake" /\ ~MayProceed(w)
    /\ slot' = [slot EXCEPT ![w] = "asleep"]
    /\ UNCHANGED <<active, waiting>>

(* Mutated form: the permit is dropped and nobody is notified.             *)
ReleaseSilently(w) ==
    /\ slot[w] = "admitted"
    /\ active' = active - 1
    /\ slot' = [slot EXCEPT ![w] = "done"]
    /\ UNCHANGED waiting

(* Mutated form: the decrement is forgotten.                               *)
ActiveKept == active

ActiveAfterRelease == IF active = 0 THEN 0 ELSE active - 1

(* Drop for SwarmPermit: saturating decrement, then notify_all.            *)
Release(w) ==
    /\ slot[w] = "admitted"
    /\ active' = ActiveAfterRelease
    /\ slot' = [v \in Workers |-> IF v = w THEN "done"
                                  ELSE IF slot[v] = "asleep" THEN "awake"
                                  ELSE slot[v]]
    /\ UNCHANGED waiting

(* std::sync::Condvar::wait is allowed to return without a notification.   *)
SpuriousWakeup(w) ==
    /\ slot[w] = "asleep"
    /\ slot' = [slot EXCEPT ![w] = "awake"]
    /\ UNCHANGED <<active, waiting>>

Acquire(w) == AdmitAtOnce(w) \/ Enqueue(w) \/ Refuse(w)

Retry(w) == AdmitFromQueue(w) \/ SleepAgain(w)

Finished == \A w \in Workers : slot[w] \in {"refused", "done"}

(* The job is over: the only state in which nothing is left to do.         *)
Idle == Finished /\ UNCHANGED schedVars

SchedNext ==
    \/ \E w \in Workers : Acquire(w) \/ Retry(w) \/ Release(w) \/ SpuriousWakeup(w)
    \/ Idle

SchedSpec == SchedInit /\ [][SchedNext]_schedVars

(***************************************************************************)
(* Every worker thread runs, and the lock is handed on; a worker ends its  *)
(* session, since all its socket operations time out.                      *)
(* Spurious wake-ups are allowed and never owed.                           *)
(***************************************************************************)
FairSchedSpec ==
    /\ SchedSpec
    /\ \A w \in Workers : /\ WF_schedVars(Acquire(w)) /\ WF_schedVars(Retry(w))
                          /\ WF_schedVars(Release(w))

-----------------------------------------------------------------------------
(* Properties.                                                             *)

SchedTypeOK ==
    /\ active \in 0..MaxParallel
    /\ waiting \in Seq(Workers)
    /\ slot \in [Workers -> SlotStates]

Holders == {w \in Workers : slot[w] = "admitted"}

InLine == {w \in Workers : slot[w] \in {"asleep", "awake"}}

(* The counter the admissions are decided on is exactly the number of live *)
(* SwarmPermits: no permit is lost or handed out twice by acquire, the     *)
(* queue and Drop together.                                                *)
PermitAccounting == active = Cardinality(Holders)

InQueue(s, w) == \E i \in 1..Len(s) : s[i] = w

NoRepeats(s) == \A i, j \in 1..Len(s) : s[i] = s[j] => i = j

(* The tickets in `waiting` are those of the workers blocked in acquire,   *)
(* each exactly once, and never more than the limit, although a worker     *)
(* joins, sleeps, wakes and leaves in separate critical sections.          *)
QueueMatchesWorkers ==
    /\ \A w \in Workers : w \in InLine <=> InQueue(waiting, w)
    /\ NoRepeats(waiting)
    /\ Len(waiting) <= QueueLimit

(* No wake-up is lost for good: whenever the worker at the head of the     *)
(* queue is asleep, a permit is out whose Drop will notify it.  acquire    *)
(* itself notifies nobody, so this is all that keeps the queue moving.     *)
SleepingHeadHasWaker ==
    waiting # <<>> /\ slot[Head(waiting)] = "asleep" => active > 0

(* FIFO admission: a worker that gets a permit while others are waiting is *)
(* the oldest of them, whatever order the woken threads take the lock in.  *)
NoBarging ==
    [][\A w \in Workers :
         slot[w] # "admitted" /\ slot'[w] = "admitted" /\ waiting # <<>>
             => w = Head(waiting)]_schedVars

(* A worker that stands in line is admitted some day, when every holder    *)
(* ends its session.                                                       *)
EveryWaiterAdmitted ==
    \A w \in Workers : (slot[w] \in {"asleep", "awake"}) ~> (slot[w] = "admitted")

-----------------------------------------------------------------------------
(* The scheduler implements the semaphore it stands for.                   *)

Gone == {w \in Workers : slot[w] \in {"refused", "done"}}

A == INSTANCE Admission WITH holders <- Holders, line <- waiting, gone <- Gone

ImplementsAdmission == A!Spec
=============================================================================
