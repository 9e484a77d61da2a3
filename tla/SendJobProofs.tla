---------------------------- MODULE SendJobProofs ----------------------------
(***************************************************************************)
(* The safety properties of SendJob for any number of recipients, any      *)
(* limits and retries, threads that fail to start, cancellations and a     *)
(* history that is cleared at any time.  What the scheduler guarantees is  *)
(* taken from SchedulerProofs: a job does to it only what it allows.       *)
(***************************************************************************)
EXTENDS SendJob, SchedulerProofs

(* The steps of a job, one by one.                                         *)
LEMMA JobStepCases ==
    ASSUME [Next]_vars
    PROVE  \/ \E p \in Workers :
                \/ RecordStarted(p) \/ Spawn(p) \/ SpawnFails(p)
                \/ Admitted(p) \/ TurnedAway(p) \/ WaitInLine(p) \/ CheckCancel(p)
                \/ SendSucceeds(p) \/ SendFails(p) \/ SendBreaks(p) \/ DropPermit(p)
                \/ DecideStatus(p) \/ RecordOutcome(p) \/ ListForHistory(p)
                \/ WriteParent(p) \/ ListForEvent(p) \/ Emit(p)
                \/ ClearRecipientCancel(p) \/ Finish(p) \/ Wakeup(p)
           \/ \E flag \in Workers \cup {Job} : Cancel(flag)
           \/ ClearHistory
           \/ UNCHANGED vars
  BY DEF Next, Launch, Work

(* Every step of a job is a step of its scheduler or leaves it alone: what *)
(* holds of the scheduler by itself holds of the one a job uses.           *)
THEOREM JobUsesScheduler == Spec => SchedSpec
  <1>1. Init => SchedInit
    BY DEF Init
  <1>2. [Next]_vars => [SchedNext]_schedVars
    <2> SUFFICES ASSUME [Next]_vars PROVE [SchedNext]_schedVars
      OBVIOUS
    <2>1. ASSUME NEW p \in Workers,
                 \/ Admitted(p) \/ TurnedAway(p) \/ WaitInLine(p) \/ DropPermit(p)
                 \/ Wakeup(p)
          PROVE  SchedNext
      BY <2>1 DEF Admitted, TurnedAway, WaitInLine, DropPermit, Wakeup,
                  SchedNext, Acquire, Retry
    <2> QED BY <2>1, JobStepCases
            DEF RecordStarted, Spawn, SpawnFails, CheckCancel, SendSucceeds, SendFails,
                SendBreaks, DecideStatus, RecordOutcome, ListForHistory, WriteParent,
                ListForEvent, Emit, ClearRecipientCancel, Finish, Cancel, ClearHistory, vars
  <1> QED BY <1>1, <1>2, PTL DEF Spec, SchedSpec

-----------------------------------------------------------------------------
(* The invariant.                                                          *)

JobTypes ==
    /\ child \in [Workers -> ChildStates]
    /\ attempt \in [Workers -> 0..MaxRetries]
    /\ outcome \in [Workers -> Outcomes \cup {"none"}]
    /\ view \in [Workers -> Verdicts \cup {"none", "transferring"}]
    /\ history \in [Workers \cup {Job} -> Verdicts \cup {"none", "started"}]
    /\ shown \in Verdicts \cup {"queued", "transferring"}
    /\ cancelled \subseteq Workers \cup {Job}
    /\ aborted \in BOOLEAN
    /\ clears \in 0..MaxClears

Early == {"unborn", "recorded", "lost", "acquire", "check", "sending"}
Undecided == {"drop", "decide"}

(* How a child ended is known from "record" on, and a success before that. *)
Decided ==
    \A p \in Workers :
        /\ child[p] \in Early => outcome[p] = "none"
        /\ child[p] \in Undecided => outcome[p] \in {"none", "completed"}
        /\ child[p] \notin Early \cup Undecided => outcome[p] # "none"
        /\ child[p] \in {"writeParent", "emit"} => view[p] # "none"
        /\ child[p] = "writeParent" => view[p] \in Verdicts

(* Neither a child's entry nor a verdict some child still carries hides a  *)
(* failure.                                                                *)
Honest ==
    /\ \A p \in Workers : history[p] \in {"completed", "cancelled"} => outcome[p] = history[p]
    /\ \A p \in Workers : view[p] \in {"completed", "cancelled"} => Ends(view[p]) = Workers
    /\ ParentNeverHidesFailure

(* What is assumed of the constants, for the steps below.                  *)
LEMMA JobConstants ==
    /\ MaxRetries \in Nat /\ MaxClears \in Nat /\ Job \notin Workers
    /\ IsFiniteSet(Workers)
  BY SendJobAssumption, SchedulerAssumption

(* The invariants before the first thread is started.                      *)
LEMMA JobInit == Init => JobTypes /\ Decided /\ Honest
  <1> SUFFICES ASSUME Init PROVE JobTypes /\ Decided /\ Honest
    OBVIOUS
  <1>1. JobTypes
    <2>1. /\ child \in [Workers -> ChildStates]
          /\ outcome \in [Workers -> Outcomes \cup {"none"}]
          /\ view \in [Workers -> Verdicts \cup {"none", "transferring"}]
      BY DEF Init, ChildStates
    <2>2. history \in [Workers \cup {Job} -> Verdicts \cup {"none", "started"}]
      BY DEF Init
    <2>3. attempt \in [Workers -> 0..MaxRetries] /\ clears \in 0..MaxClears
      BY JobConstants DEF Init
    <2> QED BY <2>1, <2>2, <2>3 DEF Init, JobTypes
  <1>2. Decided
    BY DEF Init, Decided, Early, Undecided
  <1>3. Honest
    BY JobConstants DEF Init, Honest, ParentNeverHidesFailure
  <1> QED BY <1>1, <1>2, <1>3

(* The four-way choice, of whatever list, is a verdict; "completed" and    *)
(* "cancelled" are said only when every entry of the list says so.         *)
LEMMA VerdictIsHonest ==
    ASSUME Honest, Verdict \in {"completed", "cancelled"}
    PROVE  Ends(Verdict) = Workers
  <1>1. Listed(Verdict) = Workers
    BY DEF Verdict
  <1> QED BY <1>1 DEF Honest, Listed, Ends

(* What the parent may be given as its status.                             *)
LEMMA VerdictType == Verdict \in Verdicts /\ EventStatus \in Verdicts \cup {"transferring"}
  BY DEF Verdict, EventStatus, Verdicts, Outcomes

(* Every step keeps the types.                                             *)
LEMMA TypesStep ==
    ASSUME SchedTypeOK, JobTypes, Decided, [Next]_vars
    PROVE  JobTypes'
  <1> USE JobConstants DEF JobTypes, Goto
  <1>1. ASSUME NEW p \in Workers,
               \/ RecordStarted(p) \/ Spawn(p) \/ SpawnFails(p)
        PROVE  JobTypes'
    BY <1>1 DEF RecordStarted, Spawn, SpawnFails, Record, ChildStates
  <1>2. ASSUME NEW p \in Workers,
               \/ Admitted(p) \/ TurnedAway(p) \/ WaitInLine(p) \/ DropPermit(p)
               \/ Wakeup(p)
        PROVE  JobTypes'
    BY <1>2 DEF Admitted, TurnedAway, WaitInLine, DropPermit, Wakeup, jobVars, ChildStates
  <1>3. ASSUME NEW p \in Workers, CheckCancel(p) \/ SendFails(p)
        PROVE  JobTypes'
    BY <1>3 DEF CheckCancel, SendFails, ChildStates
  <1>4. ASSUME NEW p \in Workers, SendSucceeds(p) \/ DecideStatus(p)
        PROVE  JobTypes'
    BY <1>4 DEF SendSucceeds, DecideStatus, ChildStates, Outcomes
  <1>5. ASSUME NEW p \in Workers, SendBreaks(p)
        PROVE  JobTypes'
    BY <1>5 DEF SendBreaks, ChildStates
  <1>6. ASSUME NEW p \in Workers, RecordOutcome(p)
        PROVE  JobTypes'
    <2>1. outcome[p] \in Outcomes
      BY <1>6 DEF RecordOutcome, Decided, Early, Undecided
    <2> QED BY <1>6, <2>1 DEF RecordOutcome, Record, ChildStates, Verdicts
  <1>7. ASSUME NEW p \in Workers, ListForHistory(p) \/ ListForEvent(p)
        PROVE  JobTypes'
    BY <1>7, VerdictType DEF ListForHistory, ListForEvent, ChildStates
  <1>8. ASSUME NEW p \in Workers, WriteParent(p)
        PROVE  JobTypes'
    BY <1>8 DEF WriteParent, Record, ChildStates, Decided
  <1>9. ASSUME NEW p \in Workers, Emit(p)
        PROVE  JobTypes'
    <2>1. view[p] \in Verdicts \cup {"transferring"}
      BY <1>9 DEF Emit, Decided
    <2> QED BY <1>9, <2>1 DEF Emit, ChildStates
  <1>10. ASSUME NEW p \in Workers, ClearRecipientCancel(p) \/ Finish(p)
         PROVE  JobTypes'
    BY <1>10 DEF ClearRecipientCancel, Finish, FlagsAfter, ChildStates
  <1>11. ASSUME NEW flag \in Workers \cup {Job}, Cancel(flag)
         PROVE  JobTypes'
    BY <1>11 DEF Cancel
  <1>12. CASE ClearHistory
    BY <1>12 DEF ClearHistory
  <1>13. CASE UNCHANGED vars
    BY <1>13 DEF vars, jobVars
  <1> QED BY <1>1, <1>2, <1>3, <1>4, <1>5, <1>6, <1>7, <1>8, <1>9, <1>10, <1>11, <1>12,
             <1>13, JobStepCases

(* Every step keeps outcomes where they are decided and nowhere else.      *)
LEMMA DecidedStep ==
    ASSUME SchedTypeOK, JobTypes, Decided, [Next]_vars
    PROVE  Decided'
  <1> USE DEF Goto, Early, Undecided
  <1>1. ASSUME NEW p \in Workers,
               \/ RecordStarted(p) \/ Spawn(p) \/ SpawnFails(p)
               \/ Admitted(p) \/ TurnedAway(p) \/ DropPermit(p)
               \/ CheckCancel(p) \/ SendFails(p) \/ SendBreaks(p)
               \/ RecordOutcome(p) \/ ClearRecipientCancel(p) \/ Finish(p)
        PROVE  Decided'
    BY <1>1 DEF RecordStarted, Spawn, SpawnFails, Admitted, TurnedAway, DropPermit,
                CheckCancel, SendFails, SendBreaks, RecordOutcome, ClearRecipientCancel,
                Finish, JobTypes, Decided
  <1>2. ASSUME NEW p \in Workers, SendSucceeds(p) \/ DecideStatus(p)
        PROVE  Decided'
    BY <1>2 DEF SendSucceeds, DecideStatus, JobTypes, Decided
  <1>3. ASSUME NEW p \in Workers, ListForHistory(p) \/ ListForEvent(p)
        PROVE  Decided'
    <2>1. Verdict # "none" /\ EventStatus # "none" /\ Verdict \in Verdicts
      BY VerdictType DEF Verdicts, Outcomes
    <2> QED BY <1>3, <2>1 DEF ListForHistory, ListForEvent, JobTypes, Decided
  <1>4. ASSUME NEW p \in Workers, WriteParent(p) \/ Emit(p)
        PROVE  Decided'
    BY <1>4 DEF WriteParent, Emit, JobTypes, Decided
  <1>5. ASSUME UNCHANGED <<child, outcome, view>>
        PROVE  Decided'
    BY <1>5 DEF Decided
  <1> QED BY <1>1, <1>2, <1>3, <1>4, <1>5, JobStepCases
          DEF WaitInLine, Wakeup, jobVars, Cancel, ClearHistory, vars

(* An outcome is final.                                                    *)
LEMMA OutcomesFinal ==
    ASSUME JobTypes, Decided, [Next]_vars, NEW p \in Workers, outcome[p] # "none"
    PROVE  outcome'[p] = outcome[p]
  <1>1. ASSUME NEW q \in Workers, SendSucceeds(q)
        PROVE  outcome'[p] = outcome[p]
    <2>1. q # p
      BY <1>1 DEF SendSucceeds, Decided, Early
    <2> QED BY <1>1, <2>1 DEF SendSucceeds, JobTypes
  <1>2. ASSUME NEW q \in Workers, DecideStatus(q)
        PROVE  outcome'[p] = outcome[p]
    <2>1. q = p => outcome[q] = "completed"
      BY <1>2 DEF DecideStatus, Decided, Undecided
    <2> QED BY <1>2, <2>1 DEF DecideStatus, JobTypes
  <1> QED BY <1>1, <1>2, JobStepCases
          DEF RecordStarted, Spawn, SpawnFails, Admitted, TurnedAway, WaitInLine,
              DropPermit, CheckCancel, SendFails, SendBreaks, RecordOutcome,
              ListForHistory, WriteParent, ListForEvent, Emit, ClearRecipientCancel,
              Finish, Wakeup, Cancel, ClearHistory, vars, jobVars

(* When all children have ended in one way, they stay so.                  *)
LEMMA EndsStay ==
    ASSUME JobTypes, Decided, [Next]_vars, NEW status \in {"completed", "cancelled"},
           Ends(status) = Workers
    PROVE  Ends(status)' = Workers
  BY OutcomesFinal DEF Ends

(* No list, entry or event becomes a claim that is not true for good.      *)
LEMMA HonestStep ==
    ASSUME JobTypes, Decided, Honest, [Next]_vars
    PROVE  Honest'
  <1> USE JobConstants
  <1>1. ASSUME NEW p \in Workers, history'[p] \in {"completed", "cancelled"}
        PROVE  outcome'[p] = history'[p]
    <2>1. CASE history'[p] = history[p]
      BY <1>1, <2>1, OutcomesFinal DEF Honest
    <2>2. CASE RecordOutcome(p)
      BY <1>1, <2>2 DEF RecordOutcome, Record, JobTypes
    <2>3. history'[p] = history[p] \/ history'[p] \in {"none", "started"} \/ RecordOutcome(p)
      <3>1. ASSUME NEW q \in Workers, RecordStarted(q) \/ RecordOutcome(q), ~RecordOutcome(p)
            PROVE  history'[p] = history[p] \/ history'[p] = "started"
        BY <3>1 DEF RecordStarted, RecordOutcome, Record, JobTypes
      <3>2. ASSUME NEW q \in Workers, WriteParent(q)
            PROVE  history'[p] = history[p]
        BY <3>2 DEF WriteParent, Record, JobTypes
      <3>3. CASE ClearHistory
        BY <3>3 DEF ClearHistory, JobTypes
      <3>4. CASE UNCHANGED history
        BY <3>4
      <3> QED BY <3>1, <3>2, <3>3, <3>4, JobStepCases
              DEF Spawn, SpawnFails, Admitted, TurnedAway, WaitInLine, DropPermit,
                  CheckCancel, SendSucceeds, SendFails, SendBreaks, DecideStatus,
                  ListForHistory, ListForEvent, Emit, ClearRecipientCancel, Finish,
                  Wakeup, Cancel, vars, jobVars
    <2> QED BY <1>1, <2>1, <2>2, <2>3
  <1>2. ASSUME NEW p \in Workers, NEW status \in {"completed", "cancelled"},
               view'[p] = status
        PROVE  Ends(status)' = Workers
    <2>1. CASE view'[p] = view[p]
      BY <1>2, <2>1, EndsStay DEF Honest
    <2>2. CASE view'[p] \in {Verdict, EventStatus}
      <3>1. view'[p] = Verdict
        BY <1>2, <2>2 DEF EventStatus
      <3> QED BY <1>2, <3>1, VerdictIsHonest, EndsStay
    <2>3. view'[p] = view[p] \/ view'[p] \in {"none", Verdict, EventStatus}
      <3>1. ASSUME NEW q \in Workers,
                   ListForHistory(q) \/ ListForEvent(q) \/ WriteParent(q) \/ Emit(q)
            PROVE  view'[p] = view[p] \/ view'[p] \in {"none", Verdict, EventStatus}
        BY <3>1 DEF ListForHistory, ListForEvent, WriteParent, Emit, JobTypes
      <3> QED BY <3>1, JobStepCases
              DEF RecordStarted, Spawn, SpawnFails, Admitted, TurnedAway, WaitInLine,
                  DropPermit, CheckCancel, SendSucceeds, SendFails, SendBreaks,
                  DecideStatus, RecordOutcome, ClearRecipientCancel, Finish, Wakeup,
                  Cancel, ClearHistory, vars, jobVars
    <2> QED BY <1>2, <2>1, <2>2, <2>3
  <1>3. ASSUME NEW status \in {"completed", "cancelled"}, status \in {history'[Job], shown'}
        PROVE  Ends(status)' = Workers
    <2>1. CASE status \in {history[Job], shown}
      BY <2>1, EndsStay DEF Honest, ParentNeverHidesFailure
    <2>2. ASSUME NEW p \in Workers, view[p] = status
          PROVE  Ends(status)' = Workers
      BY <2>2, EndsStay DEF Honest
    <2>3. \/ status \in {history[Job], shown}
          \/ \E p \in Workers : view[p] = status
      <3>1. ASSUME NEW q \in Workers, WriteParent(q) \/ Emit(q)
            PROVE  status \in {history[Job], shown, view[q]}
        BY <1>3, <3>1 DEF WriteParent, Emit, Record, JobTypes
      <3>2. ASSUME NEW q \in Workers, RecordStarted(q) \/ RecordOutcome(q)
            PROVE  status \in {history[Job], shown}
        BY <1>3, <3>2 DEF RecordStarted, RecordOutcome, Record, JobTypes
      <3>3. CASE ClearHistory
        BY <1>3, <3>3 DEF ClearHistory, JobTypes
      <3>4. CASE UNCHANGED <<history, shown>>
        BY <1>3, <3>4
      <3> QED BY <3>1, <3>2, <3>3, <3>4, JobStepCases
              DEF Spawn, SpawnFails, Admitted, TurnedAway, WaitInLine, DropPermit,
                  CheckCancel, SendSucceeds, SendFails, SendBreaks, DecideStatus,
                  ListForHistory, ListForEvent, ClearRecipientCancel, Finish,
                  Wakeup, Cancel, vars, jobVars
    <2> QED BY <2>1, <2>2, <2>3
  <1>4. ParentNeverHidesFailure'
    BY <1>3 DEF ParentNeverHidesFailure
  <1> QED BY <1>1, <1>2, <1>4 DEF Honest, Ends

(* The invariants that rest on each other, together.                       *)
LEMMA JobInvariant == Spec => [](SchedTypeOK /\ JobTypes /\ Decided /\ Honest)
  <1>1. SchedTypeOK /\ JobTypes /\ Decided /\ Honest /\ [Next]_vars
            => JobTypes' /\ Decided' /\ Honest'
    BY TypesStep, DecidedStep, HonestStep
  <1>2. Spec => []SchedTypeOK
    BY JobUsesScheduler, SchedTypeCorrect, PTL
  <1> QED BY <1>1, <1>2, JobInit, PTL DEF Spec

(* Neither the parent's entry in the history nor the last event about it   *)
(* hides a recipient that failed, in whatever order the children end.      *)
THEOREM FailuresShow == Spec => []ParentNeverHidesFailure
  <1>1. Honest => ParentNeverHidesFailure
    BY DEF Honest
  <1> QED BY <1>1, JobInvariant, PTL

-----------------------------------------------------------------------------
(* A child that may have a session open holds a permit.                    *)
Permitted == \A p \in Workers : child[p] \in {"check", "sending", "drop"} => slot[p] = "admitted"

(* A session begins after its permit is got and ends before it is dropped. *)
LEMMA PermittedStep ==
    ASSUME SchedTypeOK, JobTypes, Permitted, [Next]_vars
    PROVE  Permitted'
  <1> USE DEF Goto, Permitted, SchedTypeOK, JobTypes
  <1>1. ASSUME NEW p \in Workers, Admitted(p)
        PROVE  Permitted'
    BY <1>1 DEF Admitted, AdmitAtOnce, AdmitFromQueue
  <1>2. ASSUME NEW p \in Workers, TurnedAway(p) \/ WaitInLine(p) \/ Wakeup(p)
        PROVE  Permitted'
    BY <1>2 DEF TurnedAway, Refuse, WaitInLine, Enqueue, SleepAgain, Wakeup,
                SpuriousWakeup, jobVars
  <1>3. ASSUME NEW p \in Workers, DropPermit(p)
        PROVE  Permitted'
    BY <1>3 DEF DropPermit, Release
  <1>4. ASSUME NEW p \in Workers,
               \/ RecordStarted(p) \/ Spawn(p) \/ SpawnFails(p)
               \/ CheckCancel(p) \/ SendSucceeds(p) \/ SendFails(p) \/ SendBreaks(p)
               \/ DecideStatus(p) \/ RecordOutcome(p) \/ ListForHistory(p)
               \/ WriteParent(p) \/ ListForEvent(p) \/ Emit(p)
               \/ ClearRecipientCancel(p) \/ Finish(p)
        PROVE  Permitted'
    BY <1>4 DEF RecordStarted, Spawn, SpawnFails, CheckCancel, SendSucceeds, SendFails,
                SendBreaks, DecideStatus, RecordOutcome, ListForHistory, WriteParent,
                ListForEvent, Emit, ClearRecipientCancel, Finish, schedVars
  <1>5. ASSUME UNCHANGED <<child, slot>>
        PROVE  Permitted'
    BY <1>5
  <1> QED BY <1>1, <1>2, <1>3, <1>4, <1>5, JobStepCases
          DEF Cancel, ClearHistory, vars, jobVars, schedVars

(* No more sessions are open at a time than the options allow.             *)
THEOREM SessionsBounded == Spec => []ParallelismBounded
  <1>1. Init => Permitted
    BY DEF Init, Permitted
  <1>2. SchedTypeOK /\ PermitAccounting /\ Permitted => ParallelismBounded
    <2> SUFFICES ASSUME SchedTypeOK, PermitAccounting, Permitted
                 PROVE  Cardinality(Sending) <= MaxParallel
      BY DEF ParallelismBounded
    <2>1. Sending \subseteq Holders
      BY DEF Sending, Permitted, Holders
    <2>2. Cardinality(Sending) <= Cardinality(Holders) /\ IsFiniteSet(Sending)
      BY <2>1, HoldersFinite, FS_Subset
    <2>3. Cardinality(Holders) = active /\ active \in 0..MaxParallel
      BY DEF PermitAccounting, SchedTypeOK
    <2>4. Cardinality(Sending) \in Nat
      BY <2>2, FS_CardinalityType
    <2> QED BY <2>2, <2>3, <2>4, LimitsAreNat
  <1>3. SchedTypeOK /\ JobTypes /\ Permitted /\ [Next]_vars => Permitted'
    BY PermittedStep
  <1>4. Spec => []PermitAccounting
    BY JobUsesScheduler, PermitsAccounted, PTL
  <1> QED BY <1>1, <1>2, <1>3, <1>4, JobInvariant, PTL DEF Spec

-----------------------------------------------------------------------------
(* active[transfer_id] counts the children that have not counted           *)
(* themselves out, those that never got a thread included.                 *)
Unfinished == {p \in Workers : child[p] # "exited"}

Counted == count = Cardinality(Unfinished)

(* The children not counted out are finitely many, and no more than there  *)
(* are recipients.                                                         *)
LEMMA UnfinishedFinite ==
    /\ IsFiniteSet(Unfinished) /\ Cardinality(Unfinished) \in Nat
    /\ Cardinality(Unfinished) <= Total /\ Total \in Nat
  <1>1. Unfinished \subseteq Workers
    BY DEF Unfinished
  <1> QED BY <1>1, JobConstants, FS_Subset, FS_CardinalityType DEF Total

(* A child that counts itself out makes the count one less.                *)
LEMMA FinishCounts ==
    ASSUME JobTypes, Counted, NEW p \in Workers, Finish(p)
    PROVE  Counted' /\ Left = Cardinality(Unfinished \ {p})
  <1>1. p \in Unfinished /\ Unfinished' = Unfinished \ {p}
    BY DEF Unfinished, Finish, Goto, JobTypes
  <1>2. Cardinality(Unfinished \ {p}) = Cardinality(Unfinished) - 1
    BY <1>1, UnfinishedFinite, FS_RemoveElement
  <1>3. Cardinality(Unfinished) # 0
    BY <1>1, UnfinishedFinite, FS_EmptySet
  <1>4. Left = Cardinality(Unfinished \ {p})
    BY <1>2, <1>3, UnfinishedFinite DEF Left, Counted
  <1> QED BY <1>1, <1>4 DEF Counted, Finish

(* Every step keeps the active count that of the threads.                  *)
LEMMA CountedStep ==
    ASSUME JobTypes, Counted, [Next]_vars
    PROVE  Counted'
  <1>1. ASSUME NEW p \in Workers,
               \/ RecordStarted(p) \/ Spawn(p) \/ SpawnFails(p)
               \/ Admitted(p) \/ TurnedAway(p) \/ DropPermit(p)
               \/ CheckCancel(p) \/ SendSucceeds(p) \/ SendFails(p) \/ SendBreaks(p)
               \/ DecideStatus(p) \/ RecordOutcome(p) \/ ListForHistory(p)
               \/ WriteParent(p) \/ ListForEvent(p) \/ Emit(p)
               \/ ClearRecipientCancel(p)
        PROVE  Counted'
    <2>1. Unfinished' = Unfinished
      BY <1>1 DEF RecordStarted, Spawn, SpawnFails, Admitted, TurnedAway, DropPermit,
                  CheckCancel, SendSucceeds, SendFails, SendBreaks, DecideStatus,
                  RecordOutcome, ListForHistory, WriteParent, ListForEvent, Emit,
                  ClearRecipientCancel, Goto, JobTypes, Unfinished
    <2>2. count' = count
      BY <1>1 DEF RecordStarted, Spawn, SpawnFails, Admitted, TurnedAway, DropPermit,
                  CheckCancel, SendSucceeds, SendFails, SendBreaks, DecideStatus,
                  RecordOutcome, ListForHistory, WriteParent, ListForEvent, Emit,
                  ClearRecipientCancel
    <2> QED BY <2>1, <2>2 DEF Counted
  <1>2. ASSUME UNCHANGED <<child, count>>
        PROVE  Counted'
    BY <1>2 DEF Counted, Unfinished
  <1> QED BY <1>1, <1>2, FinishCounts, JobStepCases
          DEF WaitInLine, Wakeup, Cancel, ClearHistory, vars, jobVars

(* The active count is that of the threads not counted out.                *)
LEMMA CountInvariant == Spec => []Counted
  <1>1. Init => Counted
    <2> SUFFICES ASSUME Init PROVE Counted
      OBVIOUS
    <2>1. Unfinished = Workers
      BY DEF Init, Unfinished
    <2> QED BY <2>1 DEF Init, Counted
  <1>2. JobTypes /\ Counted /\ [Next]_vars => Counted'
    BY CountedStep
  <1> QED BY <1>1, <1>2, JobInvariant, PTL DEF Spec

(* The type invariant, the scheduler's and the count's bounds included.    *)
THEOREM JobTypeCorrect == Spec => []TypeOK
  <1>1. SchedTypeOK /\ JobTypes /\ Counted => TypeOK
    BY UnfinishedFinite DEF JobTypes, Counted, TypeOK
  <1> QED BY <1>1, JobInvariant, CountInvariant, PTL

(* The flag of the job goes when no child is left that might look at it,   *)
(* and that of a recipient when its child no longer does: a child that was *)
(* cancelled while it was undecided does not end as a failure.             *)
THEOREM CancellationsAreReported == Spec => CancellationIsReported
  <1>1. JobTypes /\ Decided /\ Counted /\ [Next]_vars =>
          [\A p \in Workers :
             Cancelled(p) /\ outcome[p] = "none" =>
                 /\ outcome'[p] # "failed"
                 /\ outcome'[p] = "none" => Cancelled(p)']_vars
    <2> SUFFICES ASSUME JobTypes, Decided, Counted, [Next]_vars,
                        NEW p \in Workers, Cancelled(p), outcome[p] = "none"
                 PROVE  /\ outcome'[p] # "failed"
                        /\ outcome'[p] = "none" => Cancelled(p)'
      OBVIOUS
    <2>1. outcome'[p] # "failed"
      <3>1. ASSUME NEW q \in Workers, DecideStatus(q) \/ SendSucceeds(q)
            PROVE  outcome'[p] # "failed"
        BY <3>1 DEF DecideStatus, SendSucceeds, JobTypes
      <3>2. CASE UNCHANGED outcome
        BY <3>2
      <3> QED BY <3>1, <3>2, JobStepCases
              DEF RecordStarted, Spawn, SpawnFails, Admitted, TurnedAway, WaitInLine,
                  DropPermit, CheckCancel, SendFails, SendBreaks, RecordOutcome,
                  ListForHistory, WriteParent, ListForEvent, Emit, ClearRecipientCancel,
                  Finish, Wakeup, Cancel, ClearHistory, vars, jobVars
    <2>2. Cancelled(p)'
      <3>1. ASSUME NEW q \in Workers, ClearRecipientCancel(q)
            PROVE  Cancelled(p)'
        <4>1. q # p
          BY <3>1 DEF ClearRecipientCancel, Decided, Early, Undecided
        <4> QED BY <3>1, <4>1, JobConstants DEF ClearRecipientCancel, Cancelled
      <3>2. ASSUME NEW q \in Workers, Finish(q)
            PROVE  Cancelled(p)'
        <4>1. q # p /\ p \in Unfinished \ {q}
          BY <3>2 DEF Finish, Decided, Early, Undecided, Unfinished
        <4>2. IsFiniteSet(Unfinished \ {q})
          BY UnfinishedFinite, FS_Subset
        <4>3. Left # 0
          BY <3>2, <4>1, <4>2, FinishCounts, FS_EmptySet
        <4> QED BY <3>2, <4>3 DEF Finish, FlagsAfter, Cancelled
      <3>3. ASSUME NEW flag \in Workers \cup {Job}, Cancel(flag)
            PROVE  Cancelled(p)'
        BY <3>3 DEF Cancel, Cancelled
      <3>4. CASE UNCHANGED cancelled
        BY <3>4 DEF Cancelled
      <3> QED BY <3>1, <3>2, <3>3, <3>4, JobStepCases
              DEF RecordStarted, Spawn, SpawnFails, Admitted, TurnedAway, WaitInLine,
                  DropPermit, CheckCancel, SendSucceeds, SendFails, SendBreaks,
                  DecideStatus, RecordOutcome, ListForHistory, WriteParent, ListForEvent,
                  Emit, Wakeup, ClearHistory, vars, jobVars
    <2> QED BY <2>1, <2>2
  <1> QED BY <1>1, JobInvariant, CountInvariant, PTL DEF Spec, CancellationIsReported
=============================================================================
