------------------------------- MODULE SendJob -------------------------------
(***************************************************************************)
(* TransferManager::start_parallel (transfer.rs): one job sent to several  *)
(* recipients, a thread for each, their shared scheduler (Scheduler.tla),  *)
(* the cancel flags, the count of unfinished children, and the history of  *)
(* the job, which every child brings up to date when it ends by reading    *)
(* the list (one lock) and writing the parent's entry (another).           *)
(***************************************************************************)
EXTENDS Scheduler

CONSTANTS MaxRetries,     (* options.max_retries                           *)
          SpawnMayFail,   (* thread::Builder::spawn may return an error    *)
          MaxClears,      (* bound: how often the user clears the history  *)
          Job             (* the transfer id, among the cancel flags       *)

ASSUME SendJobAssumption ==
    /\ MaxRetries \in 0..8
    /\ SpawnMayFail \in BOOLEAN
    /\ MaxClears \in Nat
    /\ Job \notin Workers

VARIABLES child,          (* where each recipient's thread is              *)
          attempt,        (* the loop variable of its retries              *)
          outcome,        (* the status it ends with, "none" before that   *)
          view,           (* parent status worked out from its last list   *)
          history,        (* status in the history store; "none": no entry *)
          shown,          (* status in the last parent progress event      *)
          count,          (* active[transfer_id]                           *)
          cancelled,      (* the cancel flags: of the job, of recipients   *)
          aborted,        (* start_parallel returned the error of a spawn  *)
          clears          (* times the history was cleared                 *)

jobVars == <<child, attempt, outcome, view, history, shown, count, cancelled,
             aborted, clears>>
vars == <<schedVars, jobVars>>

ChildStates == {"unborn", "recorded", "lost", "acquire", "check", "sending",
                "drop", "decide", "record", "listForHistory", "writeParent",
                "listForEvent", "emit", "clearFlag", "finish", "exited"}
Outcomes == {"completed", "failed", "cancelled"}
Verdicts == Outcomes \cup {"partial"}

(* start_parallel up to the loop over the peers: no thread exists yet.     *)
Init ==
    /\ SchedInit
    /\ child = [p \in Workers |-> "unborn"]
    /\ attempt = [p \in Workers |-> 0]
    /\ outcome = [p \in Workers |-> "none"]
    /\ view = [p \in Workers |-> "none"]
    /\ history = [e \in Workers \cup {Job} |-> IF e = Job THEN "started" ELSE "none"]
    /\ shown = "queued"
    /\ count = Cardinality(Workers)
    /\ cancelled = {}
    /\ aborted = FALSE
    /\ clears = 0

(* is_cancelled_for                                                        *)
Cancelled(p) == Job \in cancelled \/ p \in cancelled

Goto(p, label) == child' = [child EXCEPT ![p] = label]

Record(entry, status) == history' = [history EXCEPT ![entry] = status]

-----------------------------------------------------------------------------
(* The caller's thread: for each peer an entry, then a thread.             *)

RecordStarted(p) ==
    /\ ~aborted /\ child[p] = "unborn"
    /\ \A q \in Workers : child[q] # "recorded"
    /\ Record(p, "started") /\ Goto(p, "recorded")
    /\ UNCHANGED <<schedVars, attempt, outcome, view, shown, count, cancelled,
                   aborted, clears>>

Spawn(p) ==
    /\ child[p] = "recorded" /\ Goto(p, "acquire")
    /\ UNCHANGED <<schedVars, attempt, outcome, view, history, shown, count,
                   cancelled, aborted, clears>>

(* `?` leaves the loop: this peer and the remaining ones get no thread.    *)
SpawnFails(p) ==
    /\ SpawnMayFail /\ child[p] = "recorded" /\ Goto(p, "lost")
    /\ aborted' = TRUE
    /\ UNCHANGED <<schedVars, attempt, outcome, view, history, shown, count,
                   cancelled, clears>>

-----------------------------------------------------------------------------
(* A child's thread.                                                       *)

Admitted(p) ==
    /\ child[p] = "acquire"
    /\ AdmitAtOnce(p) \/ AdmitFromQueue(p)
    /\ Goto(p, "check")
    /\ UNCHANGED <<attempt, outcome, view, history, shown, count, cancelled,
                   aborted, clears>>

(* Mutated form: the error of acquire is not looked at.                    *)
TurnedAwayIgnored(p) ==
    /\ child[p] = "acquire" /\ Refuse(p) /\ Goto(p, "check")
    /\ UNCHANGED <<attempt, outcome, view, history, shown, count, cancelled,
                   aborted, clears>>

TurnedAway(p) ==
    /\ child[p] = "acquire" /\ Refuse(p) /\ Goto(p, "decide")
    /\ UNCHANGED <<attempt, outcome, view, history, shown, count, cancelled,
                   aborted, clears>>

WaitInLine(p) ==
    /\ child[p] = "acquire"
    /\ Enqueue(p) \/ SleepAgain(p)
    /\ UNCHANGED jobVars

CheckCancel(p) ==
    /\ child[p] = "check"
    /\ Goto(p, IF Cancelled(p) THEN "drop" ELSE "sending")
    /\ UNCHANGED <<schedVars, attempt, outcome, view, history, shown, count,
                   cancelled, aborted, clears>>

(* send_to_peer returns Ok.                                                *)
SendSucceeds(p) ==
    /\ child[p] = "sending" /\ Goto(p, "drop")
    /\ outcome' = [outcome EXCEPT ![p] = "completed"]
    /\ UNCHANGED <<schedVars, attempt, view, history, shown, count, cancelled,
                   aborted, clears>>

(* send_to_peer returns an error the loop gives up on: one that is not     *)
(* retryable, any at the last attempt, any once the flag is up.            *)
SendFails(p) ==
    /\ child[p] = "sending" /\ Goto(p, "drop")
    /\ UNCHANGED <<schedVars, attempt, outcome, view, history, shown, count,
                   cancelled, aborted, clears>>

(* A retryable error, the "retrying" event and the pause before the next.  *)
SendBreaks(p) ==
    /\ child[p] = "sending" /\ attempt[p] < MaxRetries /\ ~Cancelled(p)
    /\ attempt' = [attempt EXCEPT ![p] = @ + 1]
    /\ Goto(p, "check")
    /\ UNCHANGED <<schedVars, outcome, view, history, shown, count, cancelled,
                   aborted, clears>>

DropPermit(p) ==
    /\ child[p] = "drop" /\ Release(p) /\ Goto(p, "decide")
    /\ UNCHANGED <<attempt, outcome, view, history, shown, count, cancelled,
                   aborted, clears>>

(* match result: Ok, or Err with the flag looked at once more.             *)
DecideStatus(p) ==
    /\ child[p] = "decide" /\ Goto(p, "record")
    /\ outcome' = IF outcome[p] = "completed" THEN outcome
                  ELSE [outcome EXCEPT ![p] =
                           IF Cancelled(p) THEN "cancelled" ELSE "failed"]
    /\ UNCHANGED <<schedVars, attempt, view, history, shown, count, cancelled,
                   aborted, clears>>

RecordOutcome(p) ==
    /\ child[p] = "record" /\ Record(p, outcome[p]) /\ Goto(p, "listForHistory")
    /\ UNCHANGED <<schedVars, attempt, outcome, view, shown, count, cancelled,
                   aborted, clears>>

Listed(status) == {p \in Workers : history[p] = status}

Total == Cardinality(Workers)

(* Mutated form: one child that was cancelled makes the job cancelled.     *)
VerdictAnyCancelled ==
    IF Listed("completed") = Workers THEN "completed"
    ELSE IF Listed("completed") # {} THEN "partial"
    ELSE IF Listed("cancelled") # {} THEN "cancelled"
    ELSE "failed"

(* The same four-way choice in reconcile_parent_history and                *)
(* emit_parent_progress.                                                   *)
Verdict ==
    IF Listed("completed") = Workers THEN "completed"
    ELSE IF Listed("completed") # {} THEN "partial"
    ELSE IF Listed("cancelled") = Workers THEN "cancelled"
    ELSE "failed"

(* reconcile_parent_history, first lock: if children.len() < expected.     *)
ListForHistory(p) ==
    /\ child[p] = "listForHistory"
    /\ \/ Listed("none") # {} /\ Goto(p, "listForEvent") /\ UNCHANGED view
       \/ Listed("none") = {} /\ Goto(p, "writeParent")
          /\ view' = [view EXCEPT ![p] = Verdict]
    /\ UNCHANGED <<schedVars, attempt, outcome, history, shown, count, cancelled,
                   aborted, clears>>

(* reconcile_parent_history, second lock.                                  *)
WriteParent(p) ==
    /\ child[p] = "writeParent"
    /\ Record(Job, view[p])
    /\ view' = [view EXCEPT ![p] = "none"]
    /\ Goto(p, "listForEvent")
    /\ UNCHANGED <<schedVars, attempt, outcome, shown, count, cancelled, aborted,
                   clears>>

EventStatus ==
    IF \A p \in Workers : history[p] \in Outcomes THEN Verdict ELSE "transferring"

ListForEvent(p) ==
    /\ child[p] = "listForEvent" /\ Goto(p, "emit")
    /\ view' = [view EXCEPT ![p] = EventStatus]
    /\ UNCHANGED <<schedVars, attempt, outcome, history, shown, count, cancelled,
                   aborted, clears>>

Emit(p) ==
    /\ child[p] = "emit" /\ Goto(p, "clearFlag")
    /\ shown' = view[p]
    /\ view' = [view EXCEPT ![p] = "none"]
    /\ UNCHANGED <<schedVars, attempt, outcome, history, count, cancelled, aborted,
                   clears>>

ClearRecipientCancel(p) ==
    /\ child[p] = "clearFlag" /\ Goto(p, "finish")
    /\ cancelled' = cancelled \ {p}
    /\ UNCHANGED <<schedVars, attempt, outcome, view, history, shown, count, aborted,
                   clears>>

(* Mutated form: the job's flag goes with the first child that ends.       *)
FlagsAfterAny(left) == cancelled \ {Job}

(* finish: the job's flag goes with the last child.                        *)
FlagsAfter(left) == IF left = 0 THEN cancelled \ {Job} ELSE cancelled

(* Mutated form: a job whose entry is gone keeps being counted.            *)
LeftKept == count

Left == IF count = 0 THEN 0 ELSE count - 1

Finish(p) ==
    /\ child[p] = "finish" /\ Goto(p, "exited")
    /\ count' = Left
    /\ cancelled' = FlagsAfter(Left)
    /\ UNCHANGED <<schedVars, attempt, outcome, view, history, shown, aborted, clears>>

-----------------------------------------------------------------------------
(* The user.                                                               *)

(* cancel and cancel_recipient, also of a job that has long ended.         *)
Cancel(flag) ==
    /\ flag \notin cancelled
    /\ cancelled' = cancelled \cup {flag}
    /\ UNCHANGED <<schedVars, child, attempt, outcome, view, history, shown, count,
                   aborted, clears>>

ClearHistory ==
    /\ clears < MaxClears
    /\ clears' = clears + 1
    /\ history' = [e \in DOMAIN history |-> "none"]
    /\ UNCHANGED <<schedVars, child, attempt, outcome, view, shown, count, cancelled,
                   aborted>>

Launch(p) == RecordStarted(p) \/ Spawn(p) \/ SpawnFails(p)

Work(p) ==
    \/ Admitted(p) \/ TurnedAway(p) \/ WaitInLine(p) \/ CheckCancel(p)
    \/ SendSucceeds(p) \/ SendFails(p) \/ SendBreaks(p) \/ DropPermit(p)
    \/ DecideStatus(p) \/ RecordOutcome(p) \/ ListForHistory(p) \/ WriteParent(p)
    \/ ListForEvent(p) \/ Emit(p) \/ ClearRecipientCancel(p) \/ Finish(p)

Wakeup(p) == SpuriousWakeup(p) /\ UNCHANGED jobVars

Ended(p) ==
    \/ child[p] \in {"exited", "lost"}
    \/ aborted /\ child[p] = "unborn"

Over == \A p \in Workers : Ended(p)

Next ==
    \/ \E p \in Workers : Launch(p) \/ Work(p) \/ Wakeup(p)
    \/ \E flag \in Workers \cup {Job} : Cancel(flag)
    \/ ClearHistory
    \/ Over /\ UNCHANGED vars

(* The caller's loop and every thread run, and every socket operation of a *)
(* session times out.  Nobody has to cancel or to clear anything.          *)
Spec ==
    /\ Init /\ [][Next]_vars
    /\ \A p \in Workers : WF_vars(Launch(p)) /\ WF_vars(Work(p))

-----------------------------------------------------------------------------
TypeOK ==
    /\ SchedTypeOK
    /\ child \in [Workers -> ChildStates]
    /\ attempt \in [Workers -> 0..MaxRetries]
    /\ outcome \in [Workers -> Outcomes \cup {"none"}]
    /\ view \in [Workers -> Verdicts \cup {"none", "transferring"}]
    /\ history \in [Workers \cup {Job} -> Verdicts \cup {"none", "started"}]
    /\ shown \in Verdicts \cup {"queued", "transferring"}
    /\ count \in 0..Total
    /\ cancelled \subseteq Workers \cup {Job}
    /\ aborted \in BOOLEAN
    /\ clears \in 0..MaxClears

Sending == {p \in Workers : child[p] \in {"check", "sending", "drop"}}

(* The point of the scheduler: however children are refused, queued, woken *)
(* and retried, no more than MaxParallel of them have a session open.      *)
ParallelismBounded == Cardinality(Sending) <= MaxParallel

Ends(status) == {p \in Workers : outcome[p] = status}

(* "completed", in the history or in an event, means every recipient got   *)
(* everything, and "cancelled" that every recipient was cancelled: reading *)
(* and writing the history in separate steps may make the parent's status  *)
(* stale, a history cleared in between makes it short, but neither hides a *)
(* recipient that failed.                                                  *)
ParentNeverHidesFailure ==
    \A status \in {"completed", "cancelled"} :
        status \in {history[Job], shown} => Ends(status) = Workers

(* A cancellation made before a child decides how it ended is never        *)
(* reported as a failure, although the flag of the job is dropped by       *)
(* whichever child counts itself out last.                                 *)
CancellationIsReported ==
    [][\A p \in Workers :
         Cancelled(p) /\ outcome[p] = "none" =>
             /\ outcome'[p] # "failed"
             /\ outcome'[p] = "none" => Cancelled(p)']_vars

(* Every child that has a thread ends it, queued, refused, retried or not. *)
EveryChildExits ==
    \A p \in Workers : (child[p] = "acquire") ~> (child[p] = "exited")

(* When nobody clears the history and every thread starts, the job ends    *)
(* with a terminal entry in the history and with its count gone.           *)
ParentSettles ==
    [](clears = 0 /\ ~aborted) => <>[](history[Job] \in Verdicts /\ count = 0)
=============================================================================
