--------------------------- MODULE SchedulerProofs ---------------------------
(***************************************************************************)
(* The safety properties of SwarmScheduler for any number of workers and   *)
(* any limits that validate() accepts, and that it implements Admission.   *)
(***************************************************************************)
EXTENDS Scheduler, FiniteSetTheorems, SequenceTheorems, TLAPS

(* The limits are natural numbers and there is at least one permit.        *)
LEMMA LimitsAreNat ==
    /\ MaxParallel \in Nat /\ MaxParallel >= 1
    /\ QueueLimit \in Nat
    /\ IsFiniteSet(Workers)
  BY SchedulerAssumption

(* What a step of SchedNext can be, by action: every proof below splits    *)
(* on it.                                                                  *)
LEMMA StepCases ==
    ASSUME [SchedNext]_schedVars
    PROVE  \/ \E w \in Workers :
                \/ AdmitAtOnce(w) \/ Enqueue(w) \/ Refuse(w)
                \/ AdmitFromQueue(w) \/ SleepAgain(w)
                \/ Release(w) \/ SpuriousWakeup(w)
           \/ UNCHANGED schedVars
  BY DEF SchedNext, Acquire, Retry, Idle

-----------------------------------------------------------------------------
(* The counter stays within the limit, the queue holds workers, and every  *)
(* worker stands in one of the places acquire and Drop put it.             *)
THEOREM SchedTypeCorrect == SchedSpec => []SchedTypeOK
  <1>1. SchedInit => SchedTypeOK
    BY LimitsAreNat DEF SchedInit, SchedTypeOK, SlotStates
  <1>2. SchedTypeOK /\ [SchedNext]_schedVars => SchedTypeOK'
    <2> SUFFICES ASSUME SchedTypeOK, [SchedNext]_schedVars
                 PROVE  SchedTypeOK'
      OBVIOUS
    <2> USE LimitsAreNat DEF SchedTypeOK
    <2>1. ASSUME NEW w \in Workers, AdmitAtOnce(w) PROVE SchedTypeOK'
      BY <2>1 DEF AdmitAtOnce, CanStartImmediately, SlotStates
    <2>2. ASSUME NEW w \in Workers, Enqueue(w) PROVE SchedTypeOK'
      BY <2>2, AppendProperties DEF Enqueue, SlotStates
    <2>3. ASSUME NEW w \in Workers, Refuse(w) PROVE SchedTypeOK'
      BY <2>3 DEF Refuse, SlotStates
    <2>4. ASSUME NEW w \in Workers, AdmitFromQueue(w) PROVE SchedTypeOK'
      <3>1. Tail(waiting) \in Seq(Workers)
        BY <2>4, HeadTailProperties DEF AdmitFromQueue, MayProceed
      <3> QED BY <2>4, <3>1 DEF AdmitFromQueue, MayProceed, SlotStates
    <2>5. ASSUME NEW w \in Workers, SleepAgain(w) PROVE SchedTypeOK'
      BY <2>5 DEF SleepAgain, SlotStates
    <2>6. ASSUME NEW w \in Workers, Release(w) PROVE SchedTypeOK'
      BY <2>6 DEF Release, ActiveAfterRelease, SlotStates
    <2>7. ASSUME NEW w \in Workers, SpuriousWakeup(w) PROVE SchedTypeOK'
      BY <2>7 DEF SpuriousWakeup, SlotStates
    <2>8. CASE UNCHANGED schedVars
      BY <2>8 DEF schedVars
    <2> QED BY <2>1, <2>2, <2>3, <2>4, <2>5, <2>6, <2>7, <2>8, StepCases
  <1> QED BY <1>1, <1>2, PTL DEF SchedSpec

-----------------------------------------------------------------------------
(* Adding a worker to the permit holders, and taking one away.             *)
LEMMA HoldersFinite == IsFiniteSet(Holders)
  BY LimitsAreNat, FS_Subset DEF Holders

(* An admission adds one holder.                                           *)
LEMMA HoldersGrow ==
    ASSUME SchedTypeOK, NEW w \in Workers, slot[w] # "admitted",
           slot' = [slot EXCEPT ![w] = "admitted"]
    PROVE  /\ Holders' = Holders \cup {w}
           /\ Cardinality(Holders') = Cardinality(Holders) + 1
  <1>1. Holders' = Holders \cup {w}
    BY DEF Holders, SchedTypeOK
  <1>2. w \notin Holders
    BY DEF Holders
  <1> QED BY <1>1, <1>2, HoldersFinite, FS_AddElement

(* A drop takes one holder away.                                           *)
LEMMA HoldersShrink ==
    ASSUME SchedTypeOK, NEW w \in Workers, Release(w)
    PROVE  /\ Holders' = Holders \ {w}
           /\ Cardinality(Holders') = Cardinality(Holders) - 1
           /\ Cardinality(Holders) > 0
  <1>1. Holders' = Holders \ {w}
    BY DEF Holders, SchedTypeOK, Release
  <1>2. w \in Holders
    BY DEF Holders, Release
  <1>3. Cardinality(Holders) \in Nat /\ Cardinality(Holders) # 0
    BY <1>2, HoldersFinite, FS_CardinalityType, FS_EmptySet
  <1> QED BY <1>1, <1>2, <1>3, HoldersFinite, FS_RemoveElement

(* Steps that neither admit nor drop leave the holders as they are.        *)
LEMMA HoldersSame ==
    ASSUME SchedTypeOK, NEW w \in Workers,
           Enqueue(w) \/ Refuse(w) \/ SleepAgain(w) \/ SpuriousWakeup(w)
    PROVE  Holders' = Holders
  BY DEF Holders, SchedTypeOK, Enqueue, Refuse, SleepAgain, SpuriousWakeup

(* The counter equals the number of permits: an admission adds one to      *)
(* both, a drop takes one from both, and nothing else touches either.      *)
THEOREM PermitsAccounted == SchedSpec => []PermitAccounting
  <1>1. SchedInit => PermitAccounting
    <2>1. SchedInit => Holders = {}
      BY DEF SchedInit, Holders
    <2> QED BY <2>1, FS_EmptySet DEF SchedInit, PermitAccounting
  <1>2. SchedTypeOK /\ PermitAccounting /\ [SchedNext]_schedVars => PermitAccounting'
    <2> SUFFICES ASSUME SchedTypeOK, PermitAccounting, [SchedNext]_schedVars
                 PROVE  PermitAccounting'
      OBVIOUS
    <2> USE DEF PermitAccounting
    <2>1. ASSUME NEW w \in Workers, AdmitAtOnce(w) \/ AdmitFromQueue(w)
          PROVE  PermitAccounting'
      BY <2>1, HoldersGrow DEF AdmitAtOnce, AdmitFromQueue
    <2>2. ASSUME NEW w \in Workers, Release(w) PROVE PermitAccounting'
      <3>1. active' = active - 1
        BY <2>2, HoldersShrink DEF Release, ActiveAfterRelease, SchedTypeOK
      <3> QED BY <2>2, <3>1, HoldersShrink
    <2>3. ASSUME NEW w \in Workers,
                 Enqueue(w) \/ Refuse(w) \/ SleepAgain(w) \/ SpuriousWakeup(w)
          PROVE  PermitAccounting'
      BY <2>3, HoldersSame DEF Enqueue, Refuse, SleepAgain, SpuriousWakeup
    <2>4. CASE UNCHANGED schedVars
      BY <2>4 DEF schedVars, Holders
    <2> QED BY <2>1, <2>2, <2>3, <2>4, StepCases
  <1> QED BY <1>1, <1>2, SchedTypeCorrect, PTL DEF SchedSpec

-----------------------------------------------------------------------------
(* The two sequence operations of acquire, on a queue without repetitions. *)
LEMMA AppendFresh ==
    ASSUME NEW s \in Seq(Workers), NEW w \in Workers, NoRepeats(s), ~InQueue(s, w)
    PROVE  /\ NoRepeats(Append(s, w))
           /\ Len(Append(s, w)) = Len(s) + 1
           /\ \A v : InQueue(Append(s, w), v) <=> InQueue(s, v) \/ v = w
  <1>1. /\ Len(Append(s, w)) = Len(s) + 1
        /\ \A i \in 1..Len(s) : Append(s, w)[i] = s[i]
        /\ Append(s, w)[Len(s) + 1] = w
        /\ Len(s) \in Nat
    BY AppendProperties, LenProperties
  <1>2. 1..Len(Append(s, w)) = 1..Len(s) \cup {Len(s) + 1}
    BY <1>1
  <1>3. NoRepeats(Append(s, w))
    BY <1>1, <1>2 DEF NoRepeats, InQueue
  <1>4. \A v : InQueue(Append(s, w), v) <=> InQueue(s, v) \/ v = w
    BY <1>1, <1>2 DEF InQueue
  <1> QED BY <1>1, <1>3, <1>4

(* Without its head the line has everyone else, in the same order.         *)
LEMMA TailWithout ==
    ASSUME NEW s \in Seq(Workers), s # <<>>, NoRepeats(s)
    PROVE  /\ NoRepeats(Tail(s))
           /\ Len(Tail(s)) = Len(s) - 1
           /\ \A v : InQueue(Tail(s), v) <=> InQueue(s, v) /\ v # Head(s)
  <1>1. /\ Len(Tail(s)) = Len(s) - 1
        /\ \A i \in 1..Len(Tail(s)) : Tail(s)[i] = s[i + 1]
        /\ Len(s) \in Nat /\ Len(s) # 0
        /\ Head(s) = s[1]
    BY HeadTailProperties, LenProperties, EmptySeq
  <1>2. NoRepeats(Tail(s))
    <2> SUFFICES ASSUME NEW i \in 1..Len(Tail(s)), NEW j \in 1..Len(Tail(s)),
                        Tail(s)[i] = Tail(s)[j]
                 PROVE  i = j
      BY DEF NoRepeats
    <2>1. i + 1 \in 1..Len(s) /\ j + 1 \in 1..Len(s) /\ s[i + 1] = s[j + 1]
      BY <1>1
    <2> QED BY <2>1 DEF NoRepeats
  <1>3. ASSUME NEW v, InQueue(Tail(s), v) PROVE InQueue(s, v) /\ v # Head(s)
    <2>1. PICK i \in 1..Len(Tail(s)) : Tail(s)[i] = v
      BY <1>3 DEF InQueue
    <2>2. i + 1 \in 1..Len(s) /\ s[i + 1] = v /\ 1 \in 1..Len(s) /\ i + 1 # 1
      BY <1>1, <2>1
    <2> QED BY <1>1, <2>2 DEF InQueue, NoRepeats
  <1>4. ASSUME NEW v, InQueue(s, v), v # Head(s) PROVE InQueue(Tail(s), v)
    <2>1. PICK i \in 1..Len(s) : s[i] = v
      BY <1>4 DEF InQueue
    <2>2. i # 1
      BY <1>1, <1>4, <2>1
    <2>3. i - 1 \in 1..Len(Tail(s)) /\ Tail(s)[i - 1] = v
      BY <1>1, <2>1, <2>2
    <2> QED BY <2>3 DEF InQueue
  <1> QED BY <1>1, <1>2, <1>3, <1>4

(* The queue and the workers' places agree: a push and a pop change both   *)
(* sides, and the limit holds because a push needs room.                   *)
THEOREM QueueMatches == SchedSpec => []QueueMatchesWorkers
  <1>1. SchedInit => QueueMatchesWorkers
    BY LimitsAreNat, EmptySeq
    DEF SchedInit, QueueMatchesWorkers, InLine, InQueue, NoRepeats
  <1>2. SchedTypeOK /\ QueueMatchesWorkers /\ [SchedNext]_schedVars
            => QueueMatchesWorkers'
    <2> SUFFICES ASSUME SchedTypeOK, QueueMatchesWorkers, [SchedNext]_schedVars
                 PROVE  QueueMatchesWorkers'
      OBVIOUS
    <2> USE LimitsAreNat DEF QueueMatchesWorkers
    <2>1. ASSUME NEW w \in Workers,
                 AdmitAtOnce(w) \/ Refuse(w) \/ SleepAgain(w)
                     \/ Release(w) \/ SpuriousWakeup(w)
          PROVE  QueueMatchesWorkers'
      <3>1. waiting' = waiting
        BY <2>1 DEF AdmitAtOnce, Refuse, SleepAgain, Release, SpuriousWakeup
      <3>2. InLine' = InLine
        BY <2>1 DEF AdmitAtOnce, Refuse, SleepAgain, Release, SpuriousWakeup,
                    InLine, SchedTypeOK
      <3> QED BY <3>1, <3>2
    <2>2. ASSUME NEW w \in Workers, Enqueue(w) PROVE QueueMatchesWorkers'
      <3>1. w \notin InLine
        BY <2>2 DEF Enqueue, InLine
      <3>2. InLine' = InLine \cup {w}
        BY <2>2 DEF Enqueue, InLine, SchedTypeOK
      <3>3. waiting \in Seq(Workers) /\ waiting' = Append(waiting, w)
        BY <2>2 DEF Enqueue, SchedTypeOK
      <3>4. /\ NoRepeats(waiting')
            /\ Len(waiting') = Len(waiting) + 1
            /\ \A v : InQueue(waiting', v) <=> InQueue(waiting, v) \/ v = w
        BY <3>1, <3>3, AppendFresh
      <3>5. Len(waiting') <= QueueLimit
        BY <2>2, <3>3, <3>4, LenProperties DEF Enqueue, QueueFull
      <3> QED BY <3>2, <3>4, <3>5
    <2>3. ASSUME NEW w \in Workers, AdmitFromQueue(w) PROVE QueueMatchesWorkers'
      <3>1. waiting \in Seq(Workers) /\ waiting # <<>> /\ w = Head(waiting)
                /\ waiting' = Tail(waiting)
        BY <2>3 DEF AdmitFromQueue, MayProceed, SchedTypeOK
      <3>2. InLine' = InLine \ {w}
        BY <2>3 DEF AdmitFromQueue, InLine, SchedTypeOK
      <3>3. /\ NoRepeats(waiting')
            /\ Len(waiting') = Len(waiting) - 1
            /\ \A v : InQueue(waiting', v) <=> InQueue(waiting, v) /\ v # w
        BY <3>1, TailWithout
      <3>4. Len(waiting') <= QueueLimit
        BY <3>1, <3>3, LenProperties
      <3> QED BY <3>2, <3>3, <3>4
    <2>4. CASE UNCHANGED schedVars
      BY <2>4 DEF schedVars, InLine
    <2> QED BY <2>1, <2>2, <2>3, <2>4, StepCases
  <1> QED BY <1>1, <1>2, SchedTypeCorrect, PTL DEF SchedSpec

-----------------------------------------------------------------------------
(* No wake-up is lost for good.  A worker falls asleep at the head only    *)
(* when all permits are out; a worker becomes the head only when the one   *)
(* before it took a permit; and a drop leaves nobody asleep.               *)
THEOREM NoLostWakeup == SchedSpec => []SleepingHeadHasWaker
  <1>1. SchedInit => SleepingHeadHasWaker
    BY DEF SchedInit, SleepingHeadHasWaker
  <1>2. SchedTypeOK /\ QueueMatchesWorkers /\ SleepingHeadHasWaker
            /\ [SchedNext]_schedVars => SleepingHeadHasWaker'
    <2> SUFFICES ASSUME SchedTypeOK, QueueMatchesWorkers, SleepingHeadHasWaker,
                        [SchedNext]_schedVars
                 PROVE  SleepingHeadHasWaker'
      OBVIOUS
    <2> USE LimitsAreNat DEF SleepingHeadHasWaker, SchedTypeOK
    <2>1. ASSUME NEW w \in Workers, AdmitAtOnce(w) \/ AdmitFromQueue(w)
          PROVE  SleepingHeadHasWaker'
      BY <2>1 DEF AdmitAtOnce, AdmitFromQueue
    <2>2. ASSUME NEW w \in Workers, Enqueue(w) PROVE SleepingHeadHasWaker'
      <3>1. CASE waiting = <<>>
        BY <2>2, <3>1 DEF Enqueue, CanStartImmediately
      <3>2. CASE waiting # <<>>
        <4>1. Head(waiting') = Head(waiting) /\ active' = active
          BY <2>2, <3>2, HeadTailAppend DEF Enqueue
        <4>2. Head(waiting) \in InLine
          <5>1. /\ Head(waiting) \in Workers
                /\ 1 \in 1..Len(waiting)
                /\ Head(waiting) = waiting[1]
            BY <3>2, HeadTailProperties, EmptySeq
          <5> QED BY <5>1 DEF QueueMatchesWorkers, InQueue
        <4>3. slot'[Head(waiting)] = slot[Head(waiting)]
          BY <2>2, <4>2 DEF Enqueue, InLine
        <4> QED BY <3>2, <4>1, <4>3
      <3> QED BY <3>1, <3>2
    <2>3. ASSUME NEW w \in Workers, Refuse(w) \/ SpuriousWakeup(w)
          PROVE  SleepingHeadHasWaker'
      BY <2>3, HeadTailProperties DEF Refuse, SpuriousWakeup
    <2>4. ASSUME NEW w \in Workers, SleepAgain(w) PROVE SleepingHeadHasWaker'
      BY <2>4, HeadTailProperties DEF SleepAgain, MayProceed
    <2>5. ASSUME NEW w \in Workers, Release(w) PROVE SleepingHeadHasWaker'
      BY <2>5, HeadTailProperties DEF Release
    <2>6. CASE UNCHANGED schedVars
      BY <2>6 DEF schedVars
    <2> QED BY <2>1, <2>2, <2>3, <2>4, <2>5, <2>6, StepCases
  <1> QED BY <1>1, <1>2, SchedTypeCorrect, QueueMatches, PTL DEF SchedSpec

-----------------------------------------------------------------------------
(* Admission is first come, first served.                                  *)
THEOREM AdmissionIsFIFO == SchedSpec => NoBarging
  <1>1. SchedTypeOK /\ [SchedNext]_schedVars =>
          [\A w \in Workers :
             slot[w] # "admitted" /\ slot'[w] = "admitted" /\ waiting # <<>>
                 => w = Head(waiting)]_schedVars
    <2> SUFFICES ASSUME SchedTypeOK, [SchedNext]_schedVars,
                        NEW v \in Workers,
                        slot[v] # "admitted", slot'[v] = "admitted", waiting # <<>>
                 PROVE  v = Head(waiting)
      OBVIOUS
    <2> USE DEF SchedTypeOK
    <2>1. ASSUME NEW w \in Workers, AdmitAtOnce(w) \/ AdmitFromQueue(w)
          PROVE  v = Head(waiting)
      BY <2>1 DEF AdmitAtOnce, CanStartImmediately, AdmitFromQueue, MayProceed
    <2>2. ASSUME NEW w \in Workers,
                 Enqueue(w) \/ Refuse(w) \/ SleepAgain(w)
                     \/ Release(w) \/ SpuriousWakeup(w)
          PROVE  FALSE
      BY <2>2 DEF Enqueue, Refuse, SleepAgain, Release, SpuriousWakeup
    <2>3. CASE UNCHANGED schedVars
      BY <2>3 DEF schedVars
    <2> QED BY <2>1, <2>2, <2>3, StepCases
  <1> QED BY <1>1, SchedTypeCorrect, PTL DEF SchedSpec, NoBarging

-----------------------------------------------------------------------------
(* The scheduler is the semaphore it stands for: sleeping, waking and      *)
(* retrying are invisible, and each other critical section is one step of  *)
(* Admission.                                                              *)
THEOREM SchedulerImplementsAdmission == SchedSpec => ImplementsAdmission
  <1>1. SchedInit => A!Init
    BY DEF SchedInit, A!Init, Holders, Gone
  <1>2. SchedTypeOK /\ PermitAccounting /\ QueueMatchesWorkers
            /\ [SchedNext]_schedVars => [A!Next]_(A!vars)
    <2> SUFFICES ASSUME SchedTypeOK, PermitAccounting, QueueMatchesWorkers,
                        [SchedNext]_schedVars
                 PROVE  [A!Next]_(A!vars)
      OBVIOUS
    <2> USE DEF SchedTypeOK
    <2>1. ASSUME NEW w \in Workers, slot[w] = "new" PROVE A!Fresh(w)
      BY <2>1 DEF A!Fresh, Holders, Gone, QueueMatchesWorkers, InLine, InQueue
    <2>2. A!HasRoom <=> active < MaxParallel
      BY DEF A!HasRoom, PermitAccounting, A!Cardinality, Cardinality
    <2>3. ASSUME NEW w \in Workers, AdmitAtOnce(w) PROVE A!Enter(w)
      <3>1. Holders' = Holders \cup {w}
        BY <2>3, HoldersGrow DEF AdmitAtOnce
      <3>2. Gone' = Gone
        BY <2>3 DEF AdmitAtOnce, Gone
      <3> QED BY <2>1, <2>2, <2>3, <3>1, <3>2
              DEF AdmitAtOnce, CanStartImmediately, A!Enter
    <2>4. ASSUME NEW w \in Workers, Enqueue(w) PROVE A!StandInLine(w)
      <3>1. Holders' = Holders /\ Gone' = Gone
        BY <2>4 DEF Enqueue, Holders, Gone
      <3>2. Len(waiting) \in Nat
        BY LenProperties
      <3> QED BY <2>1, <2>2, <2>4, <3>1, <3>2, LimitsAreNat
              DEF Enqueue, CanStartImmediately, QueueFull, A!StandInLine
    <2>5. ASSUME NEW w \in Workers, Refuse(w) PROVE A!TurnAway(w)
      <3>1. Holders' = Holders /\ Gone' = Gone \cup {w}
        BY <2>5 DEF Refuse, Holders, Gone
      <3> QED BY <2>1, <2>2, <2>5, <3>1
              DEF Refuse, CanStartImmediately, QueueFull, A!TurnAway
    <2>6. ASSUME NEW w \in Workers, AdmitFromQueue(w) PROVE A!ServeHead
      <3>1. Holders' = Holders \cup {w}
        BY <2>6, HoldersGrow DEF AdmitFromQueue
      <3>2. Gone' = Gone
        BY <2>6 DEF AdmitFromQueue, Gone
      <3> QED BY <2>2, <2>6, <3>1, <3>2 DEF AdmitFromQueue, MayProceed, A!ServeHead
    <2>7. ASSUME NEW w \in Workers, Release(w) PROVE A!Leave(w)
      <3>1. Holders' = Holders \ {w} /\ Gone' = Gone \cup {w} /\ w \in Holders
        BY <2>7 DEF Release, Holders, Gone
      <3> QED BY <2>7, <3>1 DEF Release, A!Leave
    <2>8. ASSUME NEW w \in Workers, SleepAgain(w) \/ SpuriousWakeup(w)
          PROVE  UNCHANGED A!vars
      BY <2>8 DEF SleepAgain, SpuriousWakeup, Holders, Gone, A!vars
    <2>9. CASE UNCHANGED schedVars
      BY <2>9 DEF schedVars, Holders, Gone, A!vars
    <2> QED BY <2>3, <2>4, <2>5, <2>6, <2>7, <2>8, <2>9, StepCases DEF A!Next
  <1> QED BY <1>1, <1>2, SchedTypeCorrect, PermitsAccounted, QueueMatches, PTL
          DEF SchedSpec, ImplementsAdmission, A!Spec
=============================================================================
