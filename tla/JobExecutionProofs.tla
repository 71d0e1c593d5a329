------------------------- MODULE JobExecutionProofs -------------------------
(***************************************************************************)
(* Proofs about JobExecution, for every plan, every set of hooks and every *)
(* number of attempts, notifications and lost calls.                       *)
(***************************************************************************)
EXTENDS JobExecution, FiniteSetTheorems, SequenceTheorems, TLAPS

-----------------------------------------------------------------------------
(* Types.                                                                  *)

HookType == [when: Whens, kind: HookKinds]
Statuses == Rows \ {"deleted"}

\* What the hooks of a step, a block or the job come to.
LEMMA HookListType ==
  ASSUME NEW n \in Steps \cup Parallels \cup Ifs \cup {"job"}, NEW when \in Whens
  PROVE  /\ HookList(n, when) \in Seq(HookType)
         /\ Hooks[n][when] \in Seq(HookKinds)
         /\ Len(HookList(n, when)) = Len(Hooks[n][when])
         /\ \A i \in 1..Len(HookList(n, when)) : HookList(n, when)[i].when = when
<1>1. Hooks[n][when] \in Seq(HookKinds)
  BY JobAssumptions
<1>2. Len(Hooks[n][when]) \in Nat
  BY <1>1
<1>3. \A i \in 1..Len(Hooks[n][when]) : Hooks[n][when][i] \in HookKinds
  BY <1>1
<1>4. HookList(n, when) \in [1..Len(Hooks[n][when]) -> HookType]
  BY <1>3 DEF HookList, HookType
<1>5. HookList(n, when) \in Seq(HookType)
  <2>1. \A k \in Nat : \A f \in [1..k -> HookType] : f \in Seq(HookType)
    BY SeqDef
  <2> QED BY <1>2, <1>4, <2>1
<1>6. Len(HookList(n, when)) = Len(Hooks[n][when])
  BY <1>2, <1>4, <1>5, LenProperties
<1> QED BY <1>1, <1>5, <1>6 DEF HookList

\* The hooks that follow a step.
LEMMA AfterType ==
  ASSUME NEW n \in Names, NEW ok \in BOOLEAN PROVE After(n, ok) \in Seq(HookType)
<1>1. CASE n \in Services
  BY <1>1 DEF After
<1>2. CASE n \notin Services
  <2>1. n \in Steps \cup Parallels \cup Ifs \cup {"job"}
    BY <1>2 DEF Names
  <2>2. /\ HookList(n, "on_success") \in Seq(HookType)
        /\ HookList(n, "on_failure") \in Seq(HookType)
        /\ HookList(n, "ensure") \in Seq(HookType)
    BY <2>1, HookListType DEF Whens
  <2>3. /\ HookList(n, "on_success") \o HookList(n, "ensure") \in Seq(HookType)
        /\ HookList(n, "on_failure") \o HookList(n, "ensure") \in Seq(HookType)
    BY <2>2, ConcatProperties
  <2> QED BY <1>2, <2>3 DEF After
<1> QED BY <1>1, <1>2

\* A list of hooks stays one when its first hook, or its first list, is taken off.
LEMMA DropType ==
  ASSUME NEW T, NEW hooks \in Seq(T), hooks # <<>>
  PROVE  Tail(hooks) \in Seq(T) /\ DropList(hooks) \in Seq(T)
<1> DEFINE list == {i \in 1..Len(hooks) : hooks[i].when = Head(hooks).when}
<1>1. Len(hooks) \in Nat
  OBVIOUS
<1>2. /\ IsFiniteSet(1..Len(hooks)) /\ Cardinality(1..Len(hooks)) = Len(hooks)
  BY <1>1, FS_Interval
<1>3. IsFiniteSet(list) /\ Cardinality(list) <= Len(hooks)
  BY <1>2, FS_Subset
<1>4. Cardinality(list) \in Nat
  BY <1>3, FS_CardinalityType
<1>5. SubSeq(hooks, Cardinality(list) + 1, Len(hooks)) \in Seq(T)
  <2> HIDE DEF list
  <2>1. /\ Cardinality(list) + 1 \in 1..(Len(hooks) + 1)
        /\ Len(hooks) \in (Cardinality(list) + 1) - 1..Len(hooks)
    BY <1>1, <1>3, <1>4
  <2> QED BY <2>1, SubSeqProperties
<1> QED BY <1>5, HeadTailProperties DEF DropList

\* The frames that the actions put together.
LEMMA FrameType ==
  ASSUME fr \in [Names -> Frame], NEW n \in Names
  PROVE  /\ \A a \in {"in", "run", "ready", "probe", "done"} : [fr[n] EXCEPT !.at = a] \in Frame
         /\ [fr[n] EXCEPT !.at = "done", !.failed = TRUE] \in Frame
         /\ [fr[n] EXCEPT !.failed = TRUE] \in Frame
         /\ [fr[n] EXCEPT !.try = @ + 1] \in Frame
         /\ \A ok \in BOOLEAN : Returned(n, ok) \in Frame /\ Finished(n, ok) \in Frame
         /\ \A h \in Seq(HookType) : [fr[n] EXCEPT !.hooks = h] \in Frame
         /\ fr[n].hooks \in Seq(HookType)
<1>1. fr[n] \in Frame
  OBVIOUS
<1>2. <<>> \in Seq(HookType)
  OBVIOUS
<1>3. \A ok \in BOOLEAN : After(n, ok) \in Seq(HookType)
  BY AfterType
<1>4. \A ok \in BOOLEAN : Returned(n, ok) \in Frame
  BY <1>1, <1>2 DEF Returned, Frame, HookType
<1>5. \A ok \in BOOLEAN : Finished(n, ok) \in Frame
  BY <1>1, <1>3 DEF Finished, Frame, HookType
<1>6. \A a \in {"in", "run", "ready", "probe", "done"} : [fr[n] EXCEPT !.at = a] \in Frame
  BY <1>1 DEF Frame
<1>7. /\ [fr[n] EXCEPT !.at = "done", !.failed = TRUE] \in Frame
      /\ [fr[n] EXCEPT !.failed = TRUE] \in Frame
  BY <1>1 DEF Frame
<1>8. [fr[n] EXCEPT !.try = @ + 1] \in Frame
  BY <1>1 DEF Frame
<1>9. \A h \in Seq(HookType) : [fr[n] EXCEPT !.hooks = h] \in Frame
  BY <1>1 DEF Frame, HookType
<1>10. fr[n].hooks \in Seq(HookType)
  BY <1>1 DEF Frame, HookType
<1> QED BY <1>4, <1>5, <1>6, <1>7, <1>8, <1>9, <1>10

\* A report keeps the types of what it writes.
LEMMA SaveType ==
  ASSUME TypeOK, NEW st \in Statuses, NEW steps \in [Names -> StepStatus], NEW ok \in BOOLEAN,
         Save(st, steps, ok)
  PROVE  row' \in Rows /\ saved' \in [Names -> StepStatus] /\ lost' \in 0..MaxLost
<1>1. row \in Rows /\ saved \in [Names -> StepStatus] /\ lost \in 0..MaxLost /\ MaxLost \in Nat
  BY JobAssumptions DEF TypeOK
<1> QED BY <1>1 DEF Save, Statuses

\* So does what follows a failure.
LEMMA FailType ==
  ASSUME TypeOK, NEW n \in Names, NEW steps \in [Names -> StepStatus], NEW ok \in BOOLEAN,
         Fail(n, steps, ok) \/ FailCopy(n, steps, ok)
  PROVE  /\ row' \in Rows /\ saved' \in [Names -> StepStatus] /\ lost' \in 0..MaxLost
         /\ status' \in Statuses
<1>1. "failed" \in Statuses /\ status \in Statuses
  BY DEF Statuses, Rows, TypeOK
<1>2. CASE NoSave
  BY <1>1, <1>2 DEF NoSave, TypeOK, Fail, FailCopy
<1>3. CASE Save("failed", steps, ok)
  BY <1>1, <1>3, SaveType DEF Fail, FailCopy
<1> QED BY <1>2, <1>3 DEF Fail, FailCopy

\* The types in pieces: what the loop over the plan keeps, what a step keeps, and
\* what is reported.
LoopType ==
  /\ mode \in Modes /\ pc \in {"claimed", "plan", "stop", "decide", "tail", "end"}
  /\ agenda \in Seq(Names) /\ rest \in Seq(Names)
  /\ branch \in Ifs \cup {None} /\ cur \in Names \cup {None}
  /\ tail \in Seq(HookType) /\ failed \in BOOLEAN

StepType ==
  /\ fr \in [Names -> Frame] /\ cut \subseteq FailFast
  /\ up \subseteq Services /\ known \subseteq up
  /\ ctx \in {"live", "deadline", "cancelled"} /\ working \in BOOLEAN

ReportType ==
  /\ status \in Statuses /\ rec \in [Names -> StepStatus]
  /\ row \in Rows /\ saved \in [Names -> StepStatus] /\ lost \in 0..MaxLost

HistoryType ==
  /\ ran \subseteq (Names \cup {"job"}) \X Whens
  /\ copied \in BOOLEAN /\ down \in BOOLEAN /\ verdict \in Whens \cup {"none"}

\* Together they are the types.
LEMMA TypePieces ==
  /\ TypeOK <=> LoopType /\ StepType /\ ReportType /\ HistoryType
  /\ TypeOK' <=> LoopType' /\ StepType' /\ ReportType' /\ HistoryType'
BY DEF TypeOK, LoopType, StepType, ReportType, HistoryType, HookType, Statuses

\* From the claim to the plan.
LEMMA TypeClaimed ==
  ASSUME TypeOK, ReadFails \/ FailEarly \/ DeleteEarly \/ StartPlan \/ FailSecrets
  PROVE  TypeOK'
<1>1. LoopType /\ StepType /\ ReportType /\ HistoryType /\ Plan \in Seq(Names)
  BY TypePieces, JobAssumptions
<1>2. ReportType'
  <2>1. "failed" \in Statuses /\ rec \in [Names -> StepStatus] /\ MaxLost \in Nat
    BY <1>1, JobAssumptions DEF Statuses, Rows, ReportType
  <2>2. ASSUME NEW ok \in BOOLEAN, Save("failed", rec, ok)
        PROVE  row' \in Rows /\ saved' \in [Names -> StepStatus] /\ lost' \in 0..MaxLost
    BY <2>1, <2>2, SaveType
  <2>3. CASE ReadFails
    BY <1>1, <2>1, <2>3 DEF ReadFails, ReportType
  <2>4. CASE DeleteEarly
    BY <1>1, <2>4 DEF DeleteEarly, ReportType, Rows
  <2>5. CASE StartPlan
    BY <1>1, <2>5 DEF StartPlan, NoSave, ReportType
  <2> QED BY <1>1, <2>2, <2>3, <2>4, <2>5 DEF FailEarly, FailSecrets, ReportType
<1>3. StepType'
  BY <1>1 DEF ReadFails, FailEarly, DeleteEarly, StartPlan, FailSecrets, StepType, Service
<1>4. LoopType'
  BY <1>1 DEF ReadFails, FailEarly, DeleteEarly, StartPlan, FailSecrets, LoopType, Main
<1>5. HistoryType'
  BY <1>1 DEF ReadFails, FailEarly, DeleteEarly, StartPlan, FailSecrets, HistoryType, History
<1> QED BY <1>2, <1>3, <1>4, <1>5, TypePieces

\* The loop over the plan.
LEMMA TypeLoop ==
  ASSUME TypeOK,
         NextStep \/ NextParallel \/ NextIf \/ NextIfFails \/ EndIf \/ JoinParallel \/ EndPlan
  PROVE  TypeOK'
<1>1. LoopType /\ StepType /\ ReportType /\ HistoryType
  BY TypePieces
<1>2. ASSUME agenda # <<>> PROVE Head(agenda) \in Names /\ Tail(agenda) \in Seq(Names)
  BY <1>1, <1>2, HeadTailProperties DEF LoopType
<1>3. \A q \in Ifs : Branches[q] \cup {<<>>} \subseteq Seq(Names)
  <2>1. \A q \in Ifs : Branches[q] \subseteq Seq(Steps \cup Services \cup Parallels)
    BY JobAssumptions
  <2>2. Steps \cup Services \cup Parallels \subseteq Names
    BY DEF Names
  <2>3. Seq(Steps \cup Services \cup Parallels) \subseteq Seq(Names)
    BY <2>2, SeqMonotonic
  <2>4. <<>> \in Seq(Names)
    OBVIOUS
  <2> QED BY <2>1, <2>3, <2>4
<1>4. LoopType'
  <2>1. branch \in Ifs => branch \in Names
    BY DEF Names
  <2>2. None \notin Ifs
    BY JobAssumptions DEF Names
  <2>3. CASE NextStep \/ NextParallel \/ NextIfFails
    BY <1>1, <1>2, <2>3 DEF NextStep, NextParallel, NextIfFails, LoopType
  <2>4. CASE NextIf
    BY <1>1, <1>2, <1>3, <2>4 DEF NextIf, LoopType
  <2>5. CASE EndIf
    BY <1>1, <2>1, <2>5 DEF EndIf, LoopType
  <2>6. CASE JoinParallel \/ EndPlan
    BY <1>1, <2>6 DEF JoinParallel, EndPlan, Main, LoopType
  <2> QED BY <2>3, <2>4, <2>5, <2>6
<1>5. fr' \in [Names -> Frame] /\ rec' \in [Names -> StepStatus] /\ status' \in Statuses
  <2>1. /\ fr \in [Names -> Frame] /\ rec \in [Names -> StepStatus] /\ status \in Statuses
        /\ {"started", "pending", "succeeded", "failed"} \subseteq StepStatus
        /\ "failed" \in Statuses
    BY <1>1 DEF StepType, ReportType, StepStatus, Statuses, Rows
  <2>2. CASE NextStep
    <3>1. [fr[cur'] EXCEPT !.at = "in"] \in Frame /\ cur' \in Names
      BY <1>2, <2>1, <2>2, FrameType DEF NextStep
    <3>2. fr' = [fr EXCEPT ![cur'] = [fr[cur'] EXCEPT !.at = "in"]]
      BY <2>1, <2>2 DEF NextStep
    <3> QED BY <2>1, <2>2, <3>1, <3>2 DEF NextStep
  <2>3. CASE NextParallel
    BY <1>2, <2>1, <2>3, FrameType DEF NextParallel
  <2>4. CASE NextIf
    <3>1. PICK q \in Names : /\ fr' = [fr EXCEPT ![q].at = "run"]
                             /\ rec' = [rec EXCEPT ![q] = "started"]
      BY <1>2, <2>4 DEF NextIf
    <3>2. [fr[q] EXCEPT !.at = "run"] \in Frame
      BY <2>1, FrameType
    <3>3. fr' = [fr EXCEPT ![q] = [fr[q] EXCEPT !.at = "run"]]
      BY <2>1, <3>1
    <3> QED BY <2>1, <2>4, <3>1, <3>2, <3>3 DEF NextIf
  <2>5. CASE NextIfFails
    <3>1. Returned(cur', TRUE) \in Frame /\ cur' \in Names
      BY <1>2, <2>1, <2>5, FrameType DEF NextIfFails
    <3> QED BY <2>1, <2>5, <3>1 DEF NextIfFails, FailCopy
  <2>6. CASE EndIf
    <3>1. branch \in Names
      BY <1>1, <2>6 DEF EndIf, LoopType, Names
    <3>2. \A ok \in BOOLEAN : Finished(branch, ok) \in Frame /\ StatusAfter(branch, ok) \in Statuses
      BY <2>1, <3>1, FrameType DEF StatusAfter
    <3> QED BY <2>1, <2>6, <3>1, <3>2 DEF EndIf
  <2>7. CASE JoinParallel
    <3>1. cur \in Names
      BY <2>7 DEF JoinParallel, Names
    <3>2. \A ok \in BOOLEAN : Finished(cur, ok) \in Frame /\ StatusAfter(cur, ok) \in Statuses
      BY <2>1, <3>1, FrameType DEF StatusAfter
    <3>3. AllSucceeded(cur) \in BOOLEAN
      BY DEF AllSucceeded
    <3> QED BY <2>1, <2>7, <3>1, <3>2, <3>3 DEF JoinParallel
  <2>8. CASE EndPlan
    BY <2>1, <2>8 DEF EndPlan
  <2> QED BY <2>2, <2>3, <2>4, <2>5, <2>6, <2>7, <2>8
<1>6. ReportType'
  <2>1. ASSUME NEW st \in Statuses, NEW ok \in BOOLEAN, Save(st, rec', ok) PROVE ReportType'
    BY <1>5, <2>1, SaveType DEF ReportType
  <2>2. CASE NextParallel \/ NextIf \/ EndIf \/ JoinParallel
    <3>1. status \in Statuses /\ status' \in Statuses
      BY <1>1, <1>5 DEF ReportType
    <3>2. \E st \in Statuses : \E ok \in BOOLEAN : Save(st, rec', ok)
      BY <2>2, <3>1 DEF NextParallel, NextIf, EndIf, JoinParallel
    <3> QED BY <2>1, <3>2
  <2>3. CASE NextIfFails
    <3>1. PICK ok \in BOOLEAN : FailCopy(cur', rec', ok)
      BY <2>3 DEF NextIfFails
    <3>2. cur' \in Names
      BY <1>2, <2>3 DEF NextIfFails
    <3>3. PICK n \in Names : n = cur'
      BY <3>2
    <3>4. FailCopy(n, rec', ok)
      BY <3>1, <3>3 DEF FailCopy
    <3> QED BY <1>5, <3>4, FailType DEF ReportType
  <2>4. CASE NextStep \/ EndPlan
    BY <1>1, <2>4 DEF NextStep, EndPlan, NoSave, ReportType
  <2> QED BY <2>2, <2>3, <2>4
<1>7. StepType'
  BY <1>1, <1>5
     DEF StepType, NextStep, NextParallel, NextIf, NextIfFails, EndIf, JoinParallel, EndPlan, Service
<1>8. HistoryType'
  BY <1>1
     DEF HistoryType, NextStep, NextParallel, NextIf, NextIfFails, EndIf, JoinParallel, EndPlan,
         History
<1> QED BY <1>4, <1>6, <1>7, <1>8, TypePieces

\* A step that a worker does not run as a command, the goroutine of a branch, and
\* the end of a step.
LEMMA TypeStep == ASSUME TypeOK, NEW n \in Names, Step(n) PROVE TypeOK'
<1>1. LoopType /\ StepType /\ ReportType /\ HistoryType
  BY TypePieces
<1>2. /\ fr \in [Names -> Frame] /\ rec \in [Names -> StepStatus] /\ status \in Statuses
      /\ {"started", "none", "succeeded", "failed"} \subseteq StepStatus /\ "failed" \in Statuses
  BY <1>1 DEF StepType, ReportType, StepStatus, Statuses, Rows
<1>3. ASSUME NEW steps \in [Names -> StepStatus], NEW ok \in BOOLEAN, Save(status, steps, ok)
      PROVE  row' \in Rows /\ saved' \in [Names -> StepStatus] /\ lost' \in 0..MaxLost
  BY <1>2, <1>3, SaveType
<1>4. /\ \A a \in {"in", "run", "ready", "probe", "done"} : [fr[n] EXCEPT !.at = a] \in Frame
      /\ [fr[n] EXCEPT !.at = "done", !.failed = TRUE] \in Frame
      /\ \A ok \in BOOLEAN : Returned(n, ok) \in Frame /\ Finished(n, ok) \in Frame
  BY <1>2, FrameType
<1>5. CASE Skip(n)
  BY <1>1, <1>2, <1>4, <1>5, TypePieces
     DEF Skip, NoSave, LoopType, StepType, ReportType, HistoryType, Main, Service, History
<1>6. CASE NoVersion(n)
  <2>1. PICK ok \in BOOLEAN : FailCopy(n, rec, ok)
    BY <1>6 DEF NoVersion
  <2>2. ReportType'
    BY <1>2, <1>6, <2>1, FailType DEF ReportType, NoVersion
  <2>3. StepType'
    BY <1>1, <1>2, <1>4, <1>6 DEF StepType, NoVersion, Service
  <2> QED BY <1>1, <1>6, <2>2, <2>3, TypePieces DEF NoVersion, LoopType, HistoryType, Main, Own
<1>7. CASE NoInput(n)
  <2>1. rec' \in [Names -> StepStatus]
    BY <1>2, <1>7 DEF NoInput
  <2>2. PICK ok \in BOOLEAN : Fail(n, rec', ok)
    BY <1>7 DEF NoInput
  <2>3. ReportType'
    BY <2>1, <2>2, FailType DEF ReportType
  <2>4. StepType'
    BY <1>1, <1>2, <1>4, <1>7 DEF StepType, NoInput, Service
  <2> QED BY <1>1, <1>7, <2>3, <2>4, TypePieces DEF NoInput, LoopType, HistoryType, Main, History
<1>8. ASSUME NEW created \in BOOLEAN, PutTrigger(n, created) PROVE TypeOK'
  <2>1. rec' \in [Names -> StepStatus]
    BY <1>2, <1>8 DEF PutTrigger
  <2>2. ReportType'
    <3>1. PICK ok \in BOOLEAN : IF created THEN Save(status, rec', ok) /\ UNCHANGED status
                                           ELSE Fail(n, rec', ok)
      BY <1>8 DEF PutTrigger
    <3>2. CASE created
      BY <1>2, <1>3, <2>1, <3>1, <3>2 DEF ReportType
    <3>3. CASE ~created
      BY <2>1, <3>1, <3>3, FailType DEF ReportType
    <3> QED BY <3>2, <3>3
  <2>3. StepType'
    BY <1>1, <1>2, <1>4, <1>8 DEF StepType, PutTrigger, Service
  <2> QED BY <1>1, <1>8, <2>2, <2>3, TypePieces DEF PutTrigger, LoopType, HistoryType, Main, History
<1>9. CASE Begin(n)
  <2>1. rec' \in [Names -> StepStatus]
    BY <1>2, <1>9 DEF Begin
  <2>2. ReportType'
    BY <1>2, <1>3, <1>9, <2>1 DEF ReportType, Begin
  <2>3. fr' = [fr EXCEPT ![n] = [fr[n] EXCEPT !.at = "run"]]
    BY <1>2, <1>9 DEF Begin
  <2>4. StepType'
    BY <1>1, <1>2, <1>4, <1>9, <2>3 DEF StepType, Begin, Service
  <2> QED BY <1>1, <1>9, <2>2, <2>4, TypePieces DEF Begin, LoopType, HistoryType, Main, History
<1>10. CASE Return(n)
  <2>1. fr' \in [Names -> Frame]
    BY <1>2, <1>10, FrameType DEF Return
  <2>2. agenda' \in Seq(Names) /\ failed' \in BOOLEAN
    BY <1>1, <1>10 DEF Return, Remaining, LoopType
  <2> QED BY <1>1, <1>10, <2>1, <2>2, TypePieces
          DEF Return, NoSave, LoopType, StepType, ReportType, HistoryType, Service, History
<1>11. ASSUME NEW p \in Parallels, Enter(p, n) \/ Abandon(p, n) \/ ReturnBranch(p, n) PROVE TypeOK'
  <2>1. fr' \in [Names -> Frame]
    <3>1. \/ fr' = [fr EXCEPT ![n] = [fr[n] EXCEPT !.at = "in"]]
          \/ fr' = [fr EXCEPT ![n] = [fr[n] EXCEPT !.at = "done"]]
          \/ fr' = [fr EXCEPT ![n] = [fr[n] EXCEPT !.at = "done", !.failed = TRUE]]
      BY <1>2, <1>11 DEF Enter, Abandon, ReturnBranch
    <3> QED BY <1>2, <1>4, <3>1
  <2>2. cut' \subseteq FailFast
    BY <1>1, <1>11 DEF Enter, Abandon, ReturnBranch, Cut, StepType
  <2>3. ReportType'
    BY <1>1, <1>2, <1>3, <1>11 DEF Enter, Abandon, ReturnBranch, NoSave, ReportType
  <2> QED BY <1>1, <1>11, <2>1, <2>2, <2>3, TypePieces
          DEF Enter, Abandon, ReturnBranch, LoopType, StepType, HistoryType, Main, Service, History
<1> QED BY <1>5, <1>6, <1>7, <1>8, <1>9, <1>10, <1>11 DEF Step

\* A command, a ready check or a hook.
LEMMA TypeCommand == ASSUME TypeOK, NEW n \in Names, Command(n) PROVE TypeOK'
<1>1. LoopType /\ StepType /\ ReportType /\ HistoryType
  BY TypePieces
<1>2. /\ fr \in [Names -> Frame] /\ rec \in [Names -> StepStatus] /\ status \in Statuses
      /\ {"started", "none", "succeeded", "failed"} \subseteq StepStatus /\ "failed" \in Statuses
  BY <1>1 DEF StepType, ReportType, StepStatus, Statuses, Rows
<1>3. ASSUME NEW steps \in [Names -> StepStatus], NEW ok \in BOOLEAN, Save(status, steps, ok)
      PROVE  row' \in Rows /\ saved' \in [Names -> StepStatus] /\ lost' \in 0..MaxLost
  BY <1>2, <1>3, SaveType
<1>4. /\ [fr[n] EXCEPT !.at = "probe"] \in Frame /\ [fr[n] EXCEPT !.try = @ + 1] \in Frame
      /\ \A ok \in BOOLEAN : Returned(n, ok) \in Frame /\ Finished(n, ok) \in Frame
      /\ \A h \in Seq(HookType) : [fr[n] EXCEPT !.hooks = h] \in Frame
      /\ fr[n].hooks \in Seq(HookType)
  BY <1>2, FrameType
<1>5. CASE Progress(n)
  BY <1>1, <1>2, <1>3, <1>5, TypePieces
     DEF Progress, LoopType, StepType, ReportType, HistoryType, Main, Service, History
<1>6. CASE Retry(n)
  <2>1. fr' = [fr EXCEPT ![n] = [fr[n] EXCEPT !.try = @ + 1]]
    BY <1>2, <1>6 DEF Retry, NextTry
  <2>2. fr' \in [Names -> Frame]
    BY <1>2, <1>4, <2>1
  <2> QED BY <1>1, <1>6, <2>2, TypePieces
          DEF Retry, NoSave, LoopType, StepType, ReportType, HistoryType, Main, Service, History
<1>7. CASE CommandFails(n)
  <2>1. rec' \in [Names -> StepStatus] /\ fr' \in [Names -> Frame]
    BY <1>2, <1>4, <1>7 DEF CommandFails, RecordFailure
  <2>2. PICK ok \in BOOLEAN : Fail(n, rec', ok)
    BY <1>7 DEF CommandFails
  <2>3. ReportType'
    BY <2>1, <2>2, FailType DEF ReportType
  <2> QED BY <1>1, <1>7, <2>1, <2>3, TypePieces
          DEF CommandFails, LoopType, StepType, HistoryType, Main, Service, History
<1>8. CASE CommandSucceeds(n)
  <2>1. rec' \in [Names -> StepStatus]
    BY <1>2, <1>8 DEF CommandSucceeds
  <2>2. PICK ok \in BOOLEAN :
          /\ Save(status, rec', ok)
          /\ fr' = [fr EXCEPT ![n] = IF ~(ok \/ ~Own(n)) THEN Returned(n, TRUE)
                                     ELSE IF n \in Services THEN [fr[n] EXCEPT !.at = "probe"]
                                     ELSE Finished(n, TRUE)]
          /\ up' = up \cup ({n} \cap Services)
          /\ known' = Remember(n, ok \/ ~Own(n))
    BY <1>8 DEF CommandSucceeds
  <2>3. fr' \in [Names -> Frame] /\ up' \subseteq Services /\ known' \subseteq up'
    BY <1>1, <1>2, <1>4, <2>2 DEF Remember, StepType
  <2>4. ReportType'
    BY <1>2, <1>3, <1>8, <2>1, <2>2 DEF ReportType, CommandSucceeds
  <2> QED BY <1>1, <1>8, <2>3, <2>4, TypePieces
          DEF CommandSucceeds, LoopType, StepType, HistoryType, Main, History
<1>9. CASE Ready(n)
  BY <1>1, <1>2, <1>3, <1>4, <1>9, TypePieces
     DEF Ready, LoopType, StepType, ReportType, HistoryType, Main, Service, History
<1>10. CASE NotReady(n)
  <2>1. PICK ok \in BOOLEAN : Fail(n, rec, ok)
    BY <1>10 DEF NotReady
  <2>2. ReportType'
    BY <1>2, <1>10, <2>1, FailType DEF ReportType, NotReady
  <2> QED BY <1>1, <1>2, <1>4, <1>10, <2>2, TypePieces
          DEF NotReady, LoopType, StepType, HistoryType, Main, Service, History
<1>11. CASE RunHook(n)
  <2>1. PICK ok \in BOOLEAN, good \in BOOLEAN :
          /\ ran' = IF Live(n) THEN ran \cup {<<n, Head(fr[n].hooks).when>>} ELSE ran
          /\ IF Head(fr[n].hooks).kind = "step" /\ ~good
               THEN Fail(n, rec, ok)
               ELSE Save(status, rec, ok) /\ UNCHANGED status
          /\ fr' = [fr EXCEPT ![n].hooks =
               IF ~ok /\ Head(fr[n].hooks).kind = "runner" /\ Own(n) THEN DropList(@) ELSE Tail(@)]
    BY <1>11 DEF RunHook
  <2>2. ReportType'
    <3>1. CASE Fail(n, rec, ok)
      BY <1>2, <1>11, <3>1, FailType DEF ReportType, RunHook
    <3>2. CASE Save(status, rec, ok) /\ UNCHANGED status
      BY <1>2, <1>3, <1>11, <3>2 DEF ReportType, RunHook
    <3> QED BY <2>1, <3>1, <3>2
  <2>3. fr' \in [Names -> Frame]
    <3>1. DropList(fr[n].hooks) \in Seq(HookType) /\ Tail(fr[n].hooks) \in Seq(HookType)
      BY <1>4, <1>11, DropType DEF RunHook
    <3>2. \/ fr' = [fr EXCEPT ![n] = [fr[n] EXCEPT !.hooks = DropList(fr[n].hooks)]]
          \/ fr' = [fr EXCEPT ![n] = [fr[n] EXCEPT !.hooks = Tail(fr[n].hooks)]]
      BY <1>2, <2>1
    <3> QED BY <1>2, <1>4, <3>1, <3>2
  <2>4. ran' \subseteq (Names \cup {"job"}) \X Whens
    <3>1. Head(fr[n].hooks) \in HookType
      BY <1>4, <1>11, HeadTailProperties DEF RunHook
    <3> QED BY <1>1, <2>1, <3>1 DEF HookType, HistoryType
  <2> QED BY <1>1, <1>11, <2>2, <2>3, <2>4, TypePieces
          DEF RunHook, LoopType, StepType, HistoryType, Main, Service
<1> QED BY <1>5, <1>6, <1>7, <1>8, <1>9, <1>10, <1>11 DEF Command

\* The end of processJob.
LEMMA TypeEnd ==
  ASSUME TypeOK,
         \/ \E n \in Services : StopService(n)
         \/ ServicesDone \/ TimedOut \/ Cancelled \/ Succeeded \/ Failed
         \/ RunJobHook \/ RunAutoNotifications
  PROVE  TypeOK'
<1>1. LoopType /\ StepType /\ ReportType /\ HistoryType
  BY TypePieces
<1>2. /\ rec \in [Names -> StepStatus] /\ status \in Statuses
      /\ {"succeeded", "warning", "failed", "cancelled"} \subseteq Statuses
      /\ {"on_success", "on_failure", "on_cancel", "ensure"} = Whens
  BY <1>1 DEF ReportType, Statuses, Rows, Whens
<1>3. ASSUME NEW st \in Statuses, NEW ok \in BOOLEAN, Save(st, rec, ok)
      PROVE  row' \in Rows /\ saved' \in [Names -> StepStatus] /\ lost' \in 0..MaxLost
  BY <1>2, <1>3, SaveType
<1>4. ASSUME NEW when \in Whens PROVE Ending(when) \in Seq(HookType)
  <2>1. HookList("job", when) \in Seq(HookType) /\ HookList("job", "ensure") \in Seq(HookType)
    BY <1>2, HookListType
  <2>2. HookList("job", when) \o HookList("job", "ensure") \in Seq(HookType)
    BY <2>1, ConcatProperties
  <2> QED BY <2>2 DEF Ending
<1>5. ASSUME NEW n \in Services, StopService(n) PROVE TypeOK'
  BY <1>1, <1>2, <1>3, <1>5, TypePieces
     DEF StopService, Forget, LoopType, StepType, ReportType, HistoryType, Main, History
<1>6. CASE ServicesDone
  BY <1>1, <1>6, TypePieces
     DEF ServicesDone, NoSave, LoopType, StepType, ReportType, HistoryType, Main, Service, History
<1>7. CASE TimedOut
  BY <1>1, <1>2, <1>3, <1>4, <1>7, TypePieces
     DEF TimedOut, Concludes, LoopType, StepType, ReportType, HistoryType, Main, Service
<1>8. CASE Cancelled
  BY <1>1, <1>2, <1>3, <1>4, <1>8, TypePieces
     DEF Cancelled, Concludes, LoopType, StepType, ReportType, HistoryType, Main, Service
<1>9. CASE Failed
  BY <1>1, <1>2, <1>4, <1>9, TypePieces
     DEF Failed, Concludes, NoSave, LoopType, StepType, ReportType, HistoryType, Main, Service
<1>10. CASE Succeeded
  <2>1. status' \in Statuses
    BY <1>2, <1>10 DEF Succeeded
  <2>2. PICK ok \in BOOLEAN :
          /\ Save(status', rec, ok)
          /\ IF ok THEN Concludes(IF failed THEN "on_failure" ELSE "on_success")
                   ELSE pc' = "end" /\ UNCHANGED <<tail, verdict>>
          /\ down' = (ok /\ working)
    BY <1>10 DEF Succeeded
  <2>3. ReportType'
    BY <1>2, <1>3, <1>10, <2>1, <2>2 DEF ReportType, Succeeded
  <2>4. /\ pc' \in {"tail", "end"} /\ tail' \in Seq(HookType) /\ verdict' \in Whens \cup {"none"}
        /\ down' \in BOOLEAN
    BY <1>1, <1>2, <1>4, <2>2 DEF Concludes, LoopType, StepType, HistoryType
  <2> QED BY <1>1, <1>10, <2>3, <2>4, TypePieces
          DEF Succeeded, LoopType, StepType, HistoryType, Main, Service
<1>11. CASE RunJobHook
  <2>1. tail \in Seq(HookType) /\ tail # <<>>
    BY <1>1, <1>11 DEF LoopType, RunJobHook
  <2>2. Head(tail) \in HookType /\ Tail(tail) \in Seq(HookType) /\ DropList(tail) \in Seq(HookType)
    BY <2>1, HeadTailProperties, DropType
  <2>3. PICK ok \in BOOLEAN, good \in BOOLEAN :
          /\ ran' = IF working THEN ran \cup {<<"job", Head(tail).when>>} ELSE ran
          /\ status' = IF Head(tail).kind = "step" /\ ~good THEN "failed" ELSE status
          /\ Save(status', rec, ok)
          /\ tail' = IF ~ok /\ Head(tail).kind = "runner" THEN DropList(tail) ELSE Tail(tail)
    BY <1>11 DEF RunJobHook
  <2>4. status' \in Statuses
    BY <1>2, <2>3
  <2>5. ReportType'
    BY <1>2, <1>3, <1>11, <2>3, <2>4 DEF ReportType, RunJobHook
  <2>6. ran' \subseteq (Names \cup {"job"}) \X Whens /\ tail' \in Seq(HookType)
    BY <1>1, <2>2, <2>3 DEF HistoryType, HookType
  <2> QED BY <1>1, <1>11, <2>5, <2>6, TypePieces
          DEF RunJobHook, LoopType, StepType, HistoryType, Main, Service
<1>12. CASE RunAutoNotifications
  <2>1. ReportType'
    <3>1. status' \in Statuses
      BY <1>2, <1>12 DEF RunAutoNotifications
    <3> QED BY <1>1, <1>2, <1>3, <1>12, <3>1 DEF ReportType, RunAutoNotifications, NoSave
  <2> QED BY <1>1, <1>12, <2>1, TypePieces
          DEF RunAutoNotifications, LoopType, StepType, HistoryType, Main, Service, History
<1> QED BY <1>5, <1>6, <1>7, <1>8, <1>9, <1>10, <1>11, <1>12

\* What happens around the job.
LEMMA TypeAround ==
  ASSUME TypeOK,
         \/ DeadlineExpires \/ CancelJobBuild \/ pollForCancellation \/ handleGRPCCancel \/ Drain
         \/ RecoverOrphanedBuilds \/ UNCHANGED vars
  PROVE  TypeOK'
<1>1. CASE UNCHANGED vars
  BY <1>1 DEF vars, TypeOK
<1>2. CASE \/ DeadlineExpires \/ CancelJobBuild \/ pollForCancellation \/ handleGRPCCancel \/ Drain
           \/ RecoverOrphanedBuilds
  <2>1. LoopType /\ StepType /\ ReportType /\ HistoryType
    BY TypePieces
  <2>2. UNCHANGED Job
    BY <1>2 DEF DeadlineExpires, CancelJobBuild, pollForCancellation, handleGRPCCancel, Drain,
                RecoverOrphanedBuilds, StopWorking
  <2>3. LoopType' /\ HistoryType'
    BY <2>1, <2>2 DEF LoopType, HistoryType, Job, Main, History
  <2>4. ReportType'
    BY <1>2, <2>1, <2>2
       DEF ReportType, Job, Rows, DeadlineExpires, CancelJobBuild, pollForCancellation,
           handleGRPCCancel, Drain, RecoverOrphanedBuilds, StopWorking
  <2>5. StepType'
    BY <1>2, <2>1, <2>2
       DEF StepType, Job, Service, DeadlineExpires, CancelJobBuild, pollForCancellation,
           handleGRPCCancel, Drain, RecoverOrphanedBuilds, StopWorking
  <2> QED BY <2>3, <2>4, <2>5, TypePieces
<1> QED BY <1>1, <1>2

\* The types are inductive.
LEMMA TypeInductive == (Init => TypeOK) /\ (TypeOK /\ [Next]_vars => TypeOK')
<1>1. ASSUME Init PROVE TypeOK
  <2>1. /\ Off \in Frame /\ "none" \in StepStatus /\ "started" \in Statuses /\ 0 \in 0..MaxLost
        /\ "started" \in Rows
    BY JobAssumptions DEF Off, Frame, StepStatus, Statuses, Rows
  <2>2. LoopType
    <3>1. <<>> \in Seq(Names) /\ <<>> \in Seq(HookType)
      BY EmptySeq
    <3> QED BY <1>1, <3>1 DEF Init, LoopType
  <2>3. StepType
    BY <1>1, <2>1 DEF Init, StepType
  <2>4. ReportType
    BY <1>1, <2>1 DEF Init, ReportType
  <2>5. HistoryType
    BY <1>1 DEF Init, HistoryType
  <2> QED BY <2>2, <2>3, <2>4, <2>5, TypePieces
<1>2. ASSUME TypeOK, [Next]_vars PROVE TypeOK'
  BY <1>2, TypeClaimed, TypeLoop, TypeStep, TypeCommand, TypeEnd, TypeAround
     DEF Next, PlanLoop, Ended
<1> QED BY <1>1, <1>2

\* The variables of a job hold what the code can store in them, for any plan.
THEOREM JobTypes == Spec => []TypeOK
BY TypeInductive, PTL DEF Spec

-----------------------------------------------------------------------------
(* The shape of a running job.                                             *)

\* The function of step or block n has begun and not returned.
Active(n) == fr[n].at \notin {"off", "done"}

\* n is in the list.
In(n, list) == \E i \in 1..Len(list) : list[i] = n

\* n is in a branch of block q.
InBranch(n, q) == \E list \in Branches[q] : In(n, list)

\* Block p has begun its branches and waits for them.
Waiting(p) == p \in Parallels /\ fr[p].at = "run"

\* What is active is the step or block that runs, the if block around it, or a
\* member of the in_parallel block that runs.
ActiveOK ==
  /\ pc # "plan" => cur = None /\ branch = None
  /\ \A n \in Names : Active(n) =>
       n = cur \/ n = branch \/ (Waiting(cur) /\ n \in Members[cur])
  /\ branch # None => fr[branch].at = "run" /\ cur # branch

\* What is left to do is of the plan or, in a branch, of that branch.
PlaceOK ==
  /\ branch = None => /\ \A i \in 1..Len(agenda) : Own(agenda[i])
                      /\ cur # None => Own(cur)
  /\ branch # None => /\ \A i \in 1..Len(agenda) : InBranch(agenda[i], branch)
                      /\ cur # None => InBranch(cur, branch)
                      /\ \A i \in 1..Len(rest) : Own(rest[i])
                      /\ Own(branch)

Shape == TypeOK /\ ActiveOK /\ PlaceOK

-----------------------------------------------------------------------------
(* The inductive invariants.                                               *)

\* runPlan knows of the services that run, if its reports got through.
ServicesKnown ==
  /\ lost = 0 => up \subseteq known
  /\ pc \notin {"plan", "stop"} => known = {}

\* A failure is on its way to runPlan: it has returned it, or the block around
\* the step has noted it, or the step or block that failed still runs its hooks,
\* or the in_parallel block will find it.
FailureNoted ==
  \A n \in Names : fr[n].failed =>
    \/ failed
    \/ n = cur
    \/ branch # None /\ fr[branch].failed
    \/ cur # None /\ fr[cur].at = "hooks" /\ fr[cur].failed
    \/ Waiting(cur) /\ n \in Members[cur]

\* A success is the outcome of a plan in which nothing failed.
SuccessSound ==
  \/ row = "succeeded" \/ status = "succeeded" \/ (down /\ ~mode.allowFailure)
  => pc \in {"tail", "end"} /\ \A n \in Names : ~fr[n].failed

Reliable == lost = 0 /\ ~copied

\* The worker's build has failed when a step or block of the plan has, but for the
\* if block whose branch runs ...
OwnFailures == \A n \in Names : Own(n) /\ n # branch /\ fr[n].failed => status = "failed"

\* ... and the row says so too.
FailureReported ==
  /\ pc = "claimed" => status = "started" /\ ~failed
  /\ Reliable /\ status = "failed" => row \in {"failed", "cancelled"}
  /\ Reliable /\ pc = "plan" => OwnFailures
  /\ Reliable /\ failed /\ pc \in {"plan", "stop", "decide"} => status = "failed"

\* The outcome is in the row.
OutcomeReported ==
  /\ pc \notin {"tail", "end"} => verdict = "none"
  /\ pc = "tail" => verdict # "none"
  /\ Reliable /\ pc \in {"tail", "end"} => row # "started"
  /\ Reliable /\ verdict # "none" => row \in {status, "cancelled"} /\ status # "started"

\* A step is recorded as running while it runs, and the row says it of others only
\* while a block runs that will report them.
StepsRecorded ==
  /\ \A n \in Names : rec[n] = "started" => fr[n].at = "run"
  /\ lost = 0 => \A n \in Names : saved[n] = "started" =>
       rec[n] = "started" \/ branch # None \/ Waiting(cur)

\* The hooks of the outcome have run, or are still on the list.
HooksDue ==
  /\ pc \notin {"tail", "end"} => verdict = "none"
  /\ pc = "end" /\ verdict # "none" => tail = <<>>
  /\ verdict # "none" /\ working /\ lost = 0 =>
       \A when \in {verdict, "ensure"} :
         mode.hooked /\ Hooks["job"][when] # <<>> =>
           <<"job", when>> \in ran \/ \E i \in 1..Len(tail) : tail[i].when = when

\* A branch of a fail_fast block that has failed has cut the block off.
FailureCuts ==
  \A p \in FailFast : \A m \in Members[p] :
    fr[m].at = "done" /\ fr[m].failed => p \in cut \/ ctx # "live"

\* s is what is left of the list.
Suffix(s, list) ==
  \E d \in 0..Len(list) : d + Len(s) = Len(list) /\ \A i \in 1..Len(s) : s[i] = list[d + i]

\* n has begun, and has not succeeded; it has failed.
Stopper(n) == fr[n].at # "off" /\ (fr[n].at = "done" => fr[n].failed)
Broken(n)  == fr[n].at = "done" /\ fr[n].failed

\* No step after one that has not succeeded has begun.
Ordered(list) == \A i, k \in 1..Len(list) : i < k /\ Stopper(list[i]) => fr[list[k]].at = "off"

\* What is left of a list, if anything, is left because nothing of it has failed.
LeftOf(s, list) ==
  /\ Suffix(s, list)
  /\ \A i \in 1..Len(s) : fr[s[i]].at = "off"
  /\ s # <<>> => \A i \in 1..Len(list) : ~Broken(list[i])

\* The plan and the branches are worked off in order.
InOrder ==
  /\ \A list \in Lists : Ordered(list)
  /\ branch = None => LeftOf(agenda, Plan)
  /\ branch # None => /\ LeftOf(rest, Plan)
                      /\ \E list \in Branches[branch] \cup {<<>>} : LeftOf(agenda, list)
  /\ \A q \in Ifs : Own(q) /\ fr[q].at = "off" =>
       \A list \in Branches[q] : \A i \in 1..Len(list) : fr[list[i]].at = "off"
  /\ pc = "claimed" => \A n \in Names : fr[n].at = "off"

-----------------------------------------------------------------------------
(* What the steps do.                                                      *)

\* What a report does to the row; if it got through, it is there.
LEMMA SaveFacts ==
  ASSUME TypeOK, NEW st, NEW steps, NEW ok \in BOOLEAN, Save(st, steps, ok)
  PROVE  /\ row' \in {row, st} /\ saved' \in {saved, steps}
         /\ lost' = 0 => /\ lost = 0 /\ saved' = steps
                         /\ row' = IF row = "cancelled" THEN row ELSE st
<1>1. lost \in Nat /\ MaxLost \in Nat
  BY JobAssumptions DEF TypeOK
<1>2. CASE ok = TRUE
  BY <1>1, <1>2 DEF Save
<1>3. CASE ok = FALSE
  <2>1. lost' = lost + 1 /\ row' \in {row, st} /\ saved' \in {saved, steps}
    BY <1>3 DEF Save
  <2> QED BY <1>1, <2>1
<1> QED BY <1>2, <1>3

\* n is at work: its function goes on, and does not return.
Works(n) ==
  \/ Skip(n) \/ NoVersion(n) \/ NoInput(n) \/ Begin(n)
  \/ \E created \in BOOLEAN : PutTrigger(n, created)
  \/ \E p \in Parallels : Enter(p, n)
  \/ Progress(n) \/ Retry(n) \/ CommandFails(n) \/ CommandSucceeds(n)
  \/ Ready(n) \/ NotReady(n) \/ RunHook(n)

\* Its frame alone changes then, and it stays active.
LEMMA WorksStep ==
  ASSUME TypeOK, NEW n \in Names, Works(n)
  PROVE  /\ UNCHANGED <<mode, pc, agenda, rest, branch, cur, failed, tail, ctx, working, verdict,
                         down, cut>>
         /\ \A m \in Names \ {n} : fr'[m] = fr[m]
         /\ Active(n) /\ Active(n)'
         /\ n \notin Commands => (fr'[n].at = "run" <=> fr[n].at = "run")
         /\ fr[n].at = "hooks" => fr'[n].at = "hooks" /\ fr'[n].failed = fr[n].failed
         /\ fr'[n].at = "in" => fr[n].at = "ready" /\ Live(n) /\ n \in Steps
         /\ fr[n].at \in {"in", "run", "probe"} \/ fr'[n].failed = fr[n].failed
<1>1. fr \in [Names -> Frame] /\ fr[n] \in Frame
  BY DEF TypeOK
<1>2. UNCHANGED <<mode, pc, agenda, rest, branch, cur, failed, tail, ctx, working, verdict, down, cut>>
  BY DEF Works, Skip, NoVersion, NoInput, Begin, PutTrigger, Enter, Progress, Retry, CommandFails,
         CommandSucceeds, Ready, NotReady, RunHook, Main, History
<1>3. \A ok \in BOOLEAN : Returned(n, ok).at = "hooks" /\ Finished(n, ok).at = "hooks"
  BY <1>1 DEF Returned, Finished, Frame
<1>4. CASE Skip(n) \/ NoVersion(n) \/ NoInput(n) \/ \E created \in BOOLEAN : PutTrigger(n, created)
  <2>1. fr[n].at = "in" /\ n \in Commands
    BY <1>4 DEF Skip, NoVersion, NoInput, PutTrigger, Commands
  <2>2. \E ok \in BOOLEAN : \/ fr' = [fr EXCEPT ![n] = Returned(n, ok)]
                            \/ fr' = [fr EXCEPT ![n] = Finished(n, ok)]
    BY <1>4 DEF Skip, NoVersion, NoInput, PutTrigger
  <2>3. fr'[n].at = "hooks" /\ \A m \in Names \ {n} : fr'[m] = fr[m]
    BY <1>1, <1>3, <2>2
  <2> QED BY <1>2, <2>1, <2>3 DEF Active
<1>5. CASE CommandFails(n) \/ CommandSucceeds(n)
  <2>1. [fr[n] EXCEPT !.at = "probe"].at = "probe"
    BY <1>1 DEF Frame
  <2>2. fr[n].at = "run" /\ n \in Commands
    BY <1>5 DEF CommandFails, CommandSucceeds
  <2>3. \/ \E ok \in BOOLEAN : \/ fr' = [fr EXCEPT ![n] = Returned(n, ok)]
                               \/ fr' = [fr EXCEPT ![n] = Finished(n, ok)]
        \/ fr' = [fr EXCEPT ![n] = [fr[n] EXCEPT !.at = "probe"]]
    BY <1>5 DEF CommandFails, CommandSucceeds
  <2>4. fr'[n].at \in {"hooks", "probe"} /\ \A m \in Names \ {n} : fr'[m] = fr[m]
    BY <1>1, <1>3, <2>1, <2>3
  <2> QED BY <1>2, <2>2, <2>4 DEF Active
<1>6. CASE Ready(n) \/ NotReady(n)
  <2>1. fr[n].at = "probe" /\ fr'[n].at = "hooks" /\ \A m \in Names \ {n} : fr'[m] = fr[m]
    BY <1>1, <1>3, <1>6 DEF Ready, NotReady
  <2> QED BY <1>2, <2>1 DEF Active
<1>7. CASE Begin(n)
  <2>1. /\ fr[n].at = "in" /\ fr'[n].at = "run" /\ \A m \in Names \ {n} : fr'[m] = fr[m]
        /\ n \in Commands
    BY <1>1, <1>7 DEF Begin, Commands, Frame
  <2> QED BY <1>2, <2>1 DEF Active
<1>8. ASSUME NEW p \in Parallels, Enter(p, n) PROVE n \in Steps /\ fr[n].at = "ready" /\ Live(n)
  BY <1>8, JobAssumptions DEF Enter
<1>9. CASE \E p \in Parallels : Enter(p, n)
  <2>1. /\ fr'[n].at = "in" /\ fr'[n].failed = fr[n].failed
        /\ \A m \in Names \ {n} : fr'[m] = fr[m]
    BY <1>1, <1>9 DEF Enter, Frame
  <2> QED BY <1>2, <1>8, <1>9, <2>1 DEF Active, Commands
<1>10. CASE Progress(n) \/ Retry(n)
  <2>1. /\ fr[n].at = "run" /\ fr'[n].at = "run" /\ fr'[n].failed = fr[n].failed
        /\ \A m \in Names \ {n} : fr'[m] = fr[m]
    BY <1>1, <1>10 DEF Progress, Retry, NextTry, Frame
  <2> QED BY <1>2, <2>1 DEF Active
<1>11. CASE RunHook(n)
  <2>1. /\ fr[n].at = "hooks" /\ fr'[n].at = "hooks" /\ fr'[n].failed = fr[n].failed
        /\ \A m \in Names \ {n} : fr'[m] = fr[m]
    BY <1>1, <1>11 DEF RunHook, Frame
  <2> QED BY <1>2, <2>1 DEF Active
<1> QED BY <1>4, <1>5, <1>6, <1>7, <1>9, <1>10, <1>11 DEF Works

\* Nothing of the plan changes: before it, after it, or around the job.
Outside ==
  /\ UNCHANGED <<mode, agenda, rest, branch, cur, fr>>
  /\ pc' = "plan" <=> pc = "plan"
  /\ failed => failed'
  /\ pc' = "claimed" => pc = "claimed"

\* The steps of a job: one of the plan's, or none of them.
LEMMA Moves ==
  ASSUME Next
  PROVE  \/ StartPlan \/ NextStep \/ NextParallel \/ NextIf \/ NextIfFails \/ EndIf
         \/ JoinParallel \/ EndPlan
         \/ \E n \in Names : Works(n) \/ Return(n)
         \/ \E n \in Names : \E p \in Parallels : Abandon(p, n) \/ ReturnBranch(p, n)
         \/ Outside
<1>1. ASSUME \/ ReadFails \/ FailEarly \/ DeleteEarly \/ FailSecrets \/ ServicesDone \/ TimedOut
             \/ Cancelled \/ Succeeded \/ Failed \/ RunJobHook \/ RunAutoNotifications \/ Ended
      PROVE  Outside
  BY <1>1
     DEF Outside, ReadFails, FailEarly, DeleteEarly, FailSecrets, ServicesDone, TimedOut, Cancelled,
         Succeeded, Failed, RunJobHook, RunAutoNotifications, Ended, Concludes, Main, vars
<1>2. ASSUME NEW n \in Services, StopService(n) PROVE Outside
  BY <1>2 DEF Outside, StopService, Main
<1>3. ASSUME \/ DeadlineExpires \/ CancelJobBuild \/ pollForCancellation \/ handleGRPCCancel
             \/ Drain \/ RecoverOrphanedBuilds
      PROVE  Outside
  BY <1>3 DEF Outside, DeadlineExpires, CancelJobBuild, pollForCancellation, handleGRPCCancel, Drain,
              RecoverOrphanedBuilds, StopWorking, Job, Main
<1> QED BY <1>1, <1>2, <1>3 DEF Next, PlanLoop, Step, Command, Works

-----------------------------------------------------------------------------
(* The shape is kept.                                                      *)

\* The head of a list and its tail are of the list.
LEMMA HeadTail ==
  ASSUME NEW T, NEW list \in Seq(T), list # <<>>
  PROVE  /\ 1 \in 1..Len(list) /\ Head(list) = list[1] /\ Head(list) \in T
         /\ \A i \in 1..Len(Tail(list)) : i + 1 \in 1..Len(list) /\ Tail(list)[i] = list[i + 1]
<1>1. Len(list) \in Nat \ {0} /\ Len(Tail(list)) = Len(list) - 1
  BY HeadTailProperties
<1>2. \A i \in 1..Len(Tail(list)) : Tail(list)[i] = list[i + 1]
  BY HeadTailProperties
<1> QED BY <1>1, <1>2

\* What the names of a job are.
LEMMA NameFacts ==
  /\ None \notin Names
  /\ \A q \in Ifs : q \in Names /\ q \notin Parallels /\ q \notin Commands
  /\ \A p \in Parallels : p \in Names /\ p \notin Commands
  /\ \A p \in Parallels : \A n \in Members[p] :
       /\ n \in Steps /\ n \in Names /\ n \notin Parallels /\ n \notin Ifs /\ n # None
       /\ ~Own(n) /\ \A q \in Ifs : ~InBranch(n, q)
  /\ \A q \in Ifs : \A n : InBranch(n, q) => n \in Names /\ n \notin Ifs
  /\ \A n : Own(n) => n \in Names
<1>1. /\ None \notin Names
      /\ \A q \in Ifs : q \in Names /\ q \notin Parallels /\ q \notin Commands
      /\ \A p \in Parallels : p \in Names /\ p \notin Commands
  BY JobAssumptions, NamesAssumption DEF Names, Commands
<1>2. ASSUME NEW q \in Ifs, NEW n, InBranch(n, q) PROVE n \in Names /\ n \notin Ifs
  <2>1. PICK list \in Branches[q] : \E i \in 1..Len(list) : list[i] = n
    BY <1>2 DEF InBranch, In
  <2>2. list \in Seq(Steps \cup Services \cup Parallels)
    BY JobAssumptions
  <2>3. n \in Steps \cup Services \cup Parallels
    BY <2>1, <2>2
  <2> QED BY <2>3, NamesAssumption DEF Names
<1>3. ASSUME NEW n, Own(n) PROVE n \in Names
  BY <1>3, JobAssumptions DEF Own
<1>4. ASSUME NEW p \in Parallels, NEW n \in Members[p]
      PROVE  /\ n \in Steps /\ n \in Names /\ n \notin Parallels /\ n \notin Ifs
             /\ ~Own(n) /\ \A q \in Ifs : ~InBranch(n, q)
  <2>1. n \in Steps
    BY JobAssumptions
  <2>2. \A s \in Lists : \A i \in 1..Len(s) : s[i] # n
    BY NamesAssumption
  <2>3. Plan \in Lists /\ \A q \in Ifs : Branches[q] \subseteq Lists
    BY DEF Lists
  <2>4. ~Own(n) /\ \A q \in Ifs : ~InBranch(n, q)
    BY <2>2, <2>3 DEF Own, InBranch, In
  <2> QED BY <2>1, <2>4, NamesAssumption DEF Names
<1> QED BY <1>1, <1>2, <1>3, <1>4

\* The types of what the shape speaks of.
LEMMA ShapeTypes ==
  ASSUME TypeOK
  PROVE  /\ fr \in [Names -> Frame] /\ agenda \in Seq(Names) /\ rest \in Seq(Names)
         /\ branch \in Ifs \cup {None} /\ cur \in Names \cup {None}
         /\ rec \in [Names -> StepStatus] /\ saved \in [Names -> StepStatus]
         /\ None \notin Names /\ None \notin Ifs /\ None \notin Parallels
BY NameFacts DEF TypeOK, Names

\* The if block whose branch runs is not found in a branch.
LEMMA TopIf ==
  ASSUME TypeOK, PlaceOK, agenda # <<>>, Head(agenda) \in Ifs
  PROVE  branch = None
<1>1. 1 \in 1..Len(agenda) /\ Head(agenda) = agenda[1]
  BY ShapeTypes, HeadTail
<1> QED BY <1>1, NameFacts, ShapeTypes DEF PlaceOK

\* Taking the next step or block.
LEMMA ShapeBegin ==
  ASSUME Shape, StartPlan \/ NextStep \/ NextParallel \/ NextIf \/ NextIfFails
  PROVE  ActiveOK' /\ PlaceOK'
<1>1. /\ fr \in [Names -> Frame] /\ agenda \in Seq(Names) /\ rest \in Seq(Names)
      /\ branch \in Ifs \cup {None} /\ cur \in Names \cup {None}
      /\ None \notin Names /\ None \notin Ifs /\ None \notin Parallels
      /\ ActiveOK /\ PlaceOK /\ TypeOK
  BY ShapeTypes DEF Shape
<1>2. CASE StartPlan
  <2>1. \A i \in 1..Len(Plan) : Own(Plan[i])
    BY DEF Own
  <2>2. UNCHANGED <<rest, branch, cur, fr>> /\ agenda' = Plan /\ branch = None /\ cur = None
    BY <1>1, <1>2 DEF StartPlan, ActiveOK
  <2> QED BY <1>1, <2>1, <2>2 DEF ActiveOK, PlaceOK, Active, Waiting
<1>3. CASE NextStep \/ NextParallel \/ NextIf \/ NextIfFails
  <2>1. /\ agenda # <<>> /\ pc = "plan" /\ cur = None /\ pc' = "plan"
    BY <1>3 DEF NextStep, NextParallel, NextIf, NextIfFails
  <2>2. PICK x \in Names : x = Head(agenda)
    BY <1>1, <2>1, HeadTail
  <2>3. /\ branch = None => Own(x) /\ \A i \in 1..Len(Tail(agenda)) : Own(Tail(agenda)[i])
        /\ branch # None => /\ InBranch(x, branch)
                            /\ \A i \in 1..Len(Tail(agenda)) : InBranch(Tail(agenda)[i], branch)
    BY <1>1, <2>1, <2>2, HeadTail DEF PlaceOK
  <2>4. \A n \in Names : Active(n) => n = branch
    BY <1>1, <2>1 DEF ActiveOK, Waiting
  <2>5. CASE NextStep \/ NextParallel \/ NextIfFails
    <3>1. cur' = x /\ agenda' = Tail(agenda) /\ branch' = branch /\ rest' = rest
      BY <2>2, <2>5 DEF NextStep, NextParallel, NextIfFails
    <3>2. PlaceOK'
      BY <1>1, <2>3, <3>1 DEF PlaceOK
    <3>3. x # branch
      <4>1. CASE NextStep \/ NextParallel
        BY <1>1, <2>2, <4>1, NameFacts, NamesAssumption DEF NextStep, NextParallel, Commands
      <4>2. CASE NextIfFails
        BY <1>1, <2>1, <2>2, <4>2, TopIf DEF NextIfFails
      <4> QED BY <2>5, <4>1, <4>2
    <3>4. CASE NextStep
      <4>1. fr' = [fr EXCEPT ![x].at = "in"]
        BY <2>2, <3>4 DEF NextStep
      <4>2. \A n \in Names \ {x} : fr'[n] = fr[n]
        BY <1>1, <4>1
      <4>3. ActiveOK'
        BY <1>1, <2>1, <2>4, <3>1, <3>3, <4>2, NameFacts DEF ActiveOK, Active
      <4> QED BY <3>2, <4>3
    <3>5. CASE NextIfFails
      <4>1. fr' = [fr EXCEPT ![x] = Returned(x, TRUE)]
        BY <2>2, <3>5 DEF NextIfFails
      <4>2. \A n \in Names \ {x} : fr'[n] = fr[n]
        BY <1>1, <4>1
      <4>3. ActiveOK'
        BY <1>1, <2>1, <2>4, <3>1, <3>3, <4>2, NameFacts DEF ActiveOK, Active
      <4> QED BY <3>2, <4>3
    <3>6. CASE NextParallel
      <4>1. /\ x \in Parallels
            /\ fr' = [n \in Names |-> IF n = x THEN [fr[n] EXCEPT !.at = "run"]
                                      ELSE IF n \in Members[x] THEN [fr[n] EXCEPT !.at = "ready"]
                                      ELSE fr[n]]
        BY <2>2, <3>6 DEF NextParallel
      <4>2. /\ \A n \in Names : n # x /\ n \notin Members[x] => fr'[n] = fr[n]
            /\ fr'[x].at = "run"
        BY <1>1, <4>1 DEF Frame
      <4>3. branch # None => branch # x /\ branch \notin Members[x]
        BY <1>1, <4>1, NameFacts
      <4>4. ActiveOK'
        BY <1>1, <2>1, <2>4, <3>1, <3>3, <4>1, <4>2, <4>3, NameFacts DEF ActiveOK, Active, Waiting
      <4> QED BY <3>2, <4>4
    <3> QED BY <2>5, <3>4, <3>5, <3>6
  <2>6. CASE NextIf
    <3>1. x \in Ifs /\ branch = None
      BY <1>1, <2>1, <2>2, <2>6, TopIf DEF NextIf
    <3>2. PICK steps \in Branches[x] \cup {<<>>} : agenda' = steps
      BY <2>2, <2>6 DEF NextIf
    <3>3. /\ branch' = x /\ rest' = Tail(agenda) /\ cur' = cur
          /\ fr' = [fr EXCEPT ![x].at = "run"]
      BY <2>2, <2>6 DEF NextIf
    <3>4. \A i \in 1..Len(steps) : InBranch(steps[i], x)
      BY <3>2 DEF InBranch, In
    <3>5. PlaceOK'
      BY <1>1, <2>1, <2>3, <3>1, <3>2, <3>3, <3>4 DEF PlaceOK
    <3>6. (\A n \in Names \ {x} : fr'[n] = fr[n]) /\ fr'[x].at = "run"
      BY <1>1, <3>3 DEF Frame
    <3>7. ActiveOK'
      BY <1>1, <2>1, <2>4, <3>1, <3>3, <3>6 DEF ActiveOK, Active
    <3> QED BY <3>5, <3>7
  <2> QED BY <1>3, <2>5, <2>6
<1> QED BY <1>2, <1>3

\* A step or block at work.
LEMMA ShapeWorks ==
  ASSUME Shape, NEW n \in Names, Works(n)
  PROVE  /\ ActiveOK' /\ PlaceOK'
         /\ Waiting(cur)' <=> Waiting(cur)
<1>1. /\ fr \in [Names -> Frame] /\ branch \in Ifs \cup {None} /\ cur \in Names \cup {None}
      /\ None \notin Names /\ None \notin Ifs /\ None \notin Parallels
      /\ ActiveOK /\ PlaceOK /\ TypeOK
  BY ShapeTypes DEF Shape
<1>2. /\ UNCHANGED <<mode, pc, agenda, rest, branch, cur, failed, tail, ctx, working, verdict,
                     down, cut>>
      /\ \A m \in Names \ {n} : fr'[m] = fr[m]
      /\ Active(n) /\ Active(n)'
      /\ n \notin Commands => (fr'[n].at = "run" <=> fr[n].at = "run")
  BY <1>1, WorksStep
<1>3. \A m \in Names \ Commands : fr'[m].at = "run" <=> fr[m].at = "run"
  BY <1>2
<1>4. Waiting(cur)' <=> Waiting(cur)
  BY <1>2, <1>3, NameFacts DEF Waiting
<1>5. PlaceOK'
  BY <1>1, <1>2 DEF PlaceOK
<1>6. \A m \in Names : Active(m)' => Active(m)
  BY <1>2 DEF Active
<1>7. branch # None => fr'[branch].at = "run"
  BY <1>1, <1>3, NameFacts DEF ActiveOK
<1>8. ActiveOK'
  BY <1>1, <1>2, <1>4, <1>6, <1>7 DEF ActiveOK
<1> QED BY <1>4, <1>5, <1>8

\* The end of a block.
LEMMA ShapeBlock ==
  ASSUME Shape, EndIf \/ JoinParallel
  PROVE  ActiveOK' /\ PlaceOK'
<1>1. /\ fr \in [Names -> Frame] /\ branch \in Ifs \cup {None} /\ cur \in Names \cup {None}
      /\ None \notin Names /\ None \notin Ifs /\ None \notin Parallels
      /\ ActiveOK /\ PlaceOK /\ TypeOK
  BY ShapeTypes DEF Shape
<1>2. CASE EndIf
  <2>1. PICK q \in Ifs : q = branch
    BY <1>1, <1>2 DEF EndIf
  <2>2. /\ cur' = q /\ branch' = None /\ agenda' = rest /\ pc' = "plan" /\ cur = None
        /\ fr' = [fr EXCEPT ![q] = Finished(q, ~fr[q].failed)]
    BY <1>2, <2>1 DEF EndIf
  <2>3. \A m \in Names \ {q} : fr'[m] = fr[m]
    BY <1>1, <2>2
  <2>4. PlaceOK'
    BY <1>1, <2>1, <2>2 DEF PlaceOK
  <2>5. ActiveOK'
    BY <1>1, <2>1, <2>2, <2>3 DEF ActiveOK, Active, Waiting
  <2> QED BY <2>4, <2>5
<1>3. CASE JoinParallel
  <2>1. PICK p \in Parallels : p = cur
    BY <1>3 DEF JoinParallel
  <2>2. /\ UNCHANGED <<pc, agenda, rest, branch, cur>> /\ \A m \in Members[p] : fr[m].at = "done"
        /\ fr' = [fr EXCEPT ![p] = Finished(p, AllSucceeded(p))] /\ pc = "plan"
    BY <1>3, <2>1 DEF JoinParallel, Main
  <2>3. /\ \A m \in Names \ {p} : fr'[m] = fr[m]
    BY <1>1, <2>2
  <2>4. PlaceOK'
    BY <1>1, <2>2 DEF PlaceOK
  <2>5. ActiveOK'
    BY <1>1, <2>1, <2>2, <2>3, NameFacts DEF ActiveOK, Active
  <2> QED BY <2>4, <2>5
<1> QED BY <1>2, <1>3

\* The function of a step or block returns, and the plan comes to its end.
LEMMA ShapeReturn ==
  ASSUME Shape, EndPlan \/ \E n \in Names : Return(n)
  PROVE  ActiveOK' /\ PlaceOK'
<1>1. /\ fr \in [Names -> Frame] /\ agenda \in Seq(Names)
      /\ branch \in Ifs \cup {None} /\ cur \in Names \cup {None}
      /\ None \notin Names /\ None \notin Ifs /\ None \notin Parallels
      /\ ActiveOK /\ PlaceOK /\ TypeOK
  BY ShapeTypes DEF Shape
<1>2. CASE EndPlan
  BY <1>1, <1>2 DEF EndPlan, Main, ActiveOK, PlaceOK, Active, Waiting
<1>3. ASSUME NEW n \in Names, Return(n) PROVE ActiveOK' /\ PlaceOK'
  <2>1. /\ n = cur /\ cur' = None /\ UNCHANGED <<pc, rest, branch>> /\ fr[n].at = "hooks"
        /\ agenda' = <<>> \/ agenda' = agenda
        /\ fr' = [m \in Names |-> IF m = n THEN [fr[m] EXCEPT !.at = "done"]
                                  ELSE IF fr[n].failed /\ m = branch
                                       THEN [fr[m] EXCEPT !.failed = TRUE]
                                  ELSE fr[m]]
    BY <1>3 DEF Return, Remaining
  <2>2. fr'[n].at = "done" /\ \A m \in Names \ {n} : fr'[m].at = fr[m].at
    BY <1>1, <2>1 DEF Frame
  <2>3. PlaceOK'
    BY <1>1, <2>1 DEF PlaceOK
  <2>4. ~Waiting(cur)
    BY <2>1 DEF Waiting
  <2>5. branch # None => branch \in Names /\ branch # n
    BY <1>1, <2>1, NameFacts DEF ActiveOK
  <2>6. ActiveOK'
    BY <1>1, <2>1, <2>2, <2>4, <2>5 DEF ActiveOK, Active
  <2> QED BY <2>3, <2>6
<1> QED BY <1>2, <1>3

\* The goroutine of a member of an in_parallel block ends.
LEMMA ShapeMember ==
  ASSUME Shape, NEW p \in Parallels, NEW n \in Names, Abandon(p, n) \/ ReturnBranch(p, n)
  PROVE  /\ ActiveOK' /\ PlaceOK'
         /\ cur = p /\ Waiting(p) /\ n \in Members[p] /\ Active(n)
         /\ Waiting(cur)' <=> Waiting(cur)
<1>1. /\ fr \in [Names -> Frame] /\ branch \in Ifs \cup {None} /\ cur \in Names \cup {None}
      /\ None \notin Names /\ None \notin Ifs /\ None \notin Parallels
      /\ ActiveOK /\ PlaceOK /\ TypeOK
  BY ShapeTypes DEF Shape
<1>2. /\ UNCHANGED <<pc, agenda, rest, branch, cur>> /\ n \in Members[p] /\ Active(n)
  BY DEF Abandon, ReturnBranch, Main, Active
<1>3. n # cur /\ n # branch
  BY <1>1, <1>2, NameFacts DEF PlaceOK
<1>4. Waiting(cur) /\ n \in Members[cur] /\ cur = p
  BY <1>1, <1>2, <1>3, NamesAssumption DEF ActiveOK, Waiting
<1>5. fr'[n].at = "done" /\ \A m \in Names \ {n} : fr'[m] = fr[m]
  BY <1>1 DEF Abandon, ReturnBranch, Frame
<1>6. Waiting(cur)'
  BY <1>2, <1>3, <1>4, <1>5, NameFacts DEF Waiting
<1>7. PlaceOK'
  BY <1>1, <1>2 DEF PlaceOK
<1>8. branch # None => fr'[branch].at = "run"
  BY <1>1, <1>3, <1>5, NameFacts DEF ActiveOK
<1>9. ActiveOK'
  BY <1>1, <1>2, <1>4, <1>5, <1>6, <1>8 DEF ActiveOK, Active
<1> QED BY <1>2, <1>4, <1>6, <1>7, <1>9

\* The shape is inductive.
LEMMA ShapeInductive == (Init => Shape) /\ (Shape /\ [Next]_vars => Shape')
<1>1. ASSUME Init PROVE Shape
  <2>1. \A n \in Names : fr[n].at = "off"
    BY <1>1 DEF Init, Off
  <2>2. ActiveOK /\ PlaceOK
    BY <1>1, <2>1 DEF Init, ActiveOK, PlaceOK, Active
  <2> QED BY <1>1, <2>2, TypeInductive DEF Shape
<1>2. ASSUME Shape, [Next]_vars PROVE Shape'
  <2>1. TypeOK'
    BY <1>2, TypeInductive DEF Shape
  <2>2. ASSUME Outside \/ UNCHANGED vars PROVE ActiveOK' /\ PlaceOK'
    <3>1. UNCHANGED <<agenda, rest, branch, cur, fr>> /\ (pc' = "plan" <=> pc = "plan")
      BY <2>2 DEF Outside, vars
    <3> QED BY <1>2, <3>1 DEF Shape, ActiveOK, PlaceOK, Active, Waiting
  <2>3. ActiveOK' /\ PlaceOK'
    BY <1>2, <2>2, Moves, ShapeBegin, ShapeWorks, ShapeBlock, ShapeReturn, ShapeMember
  <2> QED BY <2>1, <2>3 DEF Shape
<1> QED BY <1>1, <1>2

\* What is active is so while the plan runs.
LEMMA ActivePlan ==
  ASSUME Shape, NEW n \in Names, Active(n)
  PROVE  pc = "plan" /\ (n = cur \/ n = branch \/ (Waiting(cur) /\ n \in Members[cur]))
BY ShapeTypes DEF Shape, ActiveOK, Waiting

-----------------------------------------------------------------------------
(* Services.                                                               *)

\* A call that is lost stays so.
LEMMA LostStep == ASSUME TypeOK, [Next]_vars PROVE lost' = 0 => lost = 0
<1>1. lost \in Nat
  BY DEF TypeOK
<1>2. ASSUME \E st, steps : \E ok \in BOOLEAN : Save(st, steps, ok) PROVE lost' \in {lost, lost + 1}
  BY <1>2 DEF Save
<1>3. ASSUME NEW n, \E steps : \E ok \in BOOLEAN : Fail(n, steps, ok) \/ FailCopy(n, steps, ok)
      PROVE  lost' \in {lost, lost + 1}
  BY <1>2, <1>3 DEF Fail, FailCopy, NoSave
<1>4. CASE ReadFails \/ FailEarly \/ DeleteEarly \/ StartPlan \/ FailSecrets
  BY <1>1, <1>2, <1>4 DEF ReadFails, FailEarly, DeleteEarly, StartPlan, FailSecrets, NoSave
<1>5. CASE NextStep \/ NextParallel \/ NextIf \/ NextIfFails \/ EndIf \/ JoinParallel \/ EndPlan
  <2>1. CASE NextIfFails
    BY <1>1, <1>2, <2>1 DEF NextIfFails, FailCopy, NoSave
  <2>2. CASE NextStep \/ EndPlan
    BY <2>2 DEF NextStep, EndPlan, NoSave
  <2>3. CASE NextParallel \/ NextIf \/ EndIf \/ JoinParallel
    BY <1>1, <1>2, <2>3 DEF NextParallel, NextIf, EndIf, JoinParallel
  <2> QED BY <1>5, <2>1, <2>2, <2>3
<1>6. ASSUME NEW n \in Names, Step(n) PROVE lost' \in {lost, lost + 1}
  <2>1. CASE Skip(n) \/ NoVersion(n) \/ NoInput(n) \/ Begin(n) \/ Return(n)
    BY <1>2, <1>3, <2>1 DEF Skip, NoVersion, NoInput, Begin, Return, NoSave
  <2>2. ASSUME NEW created \in BOOLEAN, PutTrigger(n, created) PROVE lost' \in {lost, lost + 1}
    BY <1>2, <1>3, <2>2 DEF PutTrigger
  <2>3. ASSUME NEW p \in Parallels, Enter(p, n) \/ Abandon(p, n) \/ ReturnBranch(p, n)
        PROVE  lost' \in {lost, lost + 1}
    BY <1>2, <2>3 DEF Enter, Abandon, ReturnBranch, NoSave
  <2> QED BY <1>6, <2>1, <2>2, <2>3 DEF Step
<1>7. ASSUME NEW n \in Names, Command(n) PROVE lost' \in {lost, lost + 1}
  <2>1. CASE Progress(n) \/ Retry(n) \/ CommandFails(n) \/ CommandSucceeds(n) \/ Ready(n) \/ NotReady(n)
    BY ZenonT(60), <1>2, <1>3, <2>1
       DEF Progress, Retry, CommandFails, CommandSucceeds, Ready, NotReady, NoSave
  <2>2. CASE RunHook(n)
    BY <1>2, <1>3, <2>2 DEF RunHook
  <2> QED BY <1>7, <2>1, <2>2 DEF Command
<1>8. CASE \/ ServicesDone \/ TimedOut \/ Cancelled \/ Succeeded \/ Failed
           \/ \E n \in Services : StopService(n)
  BY <1>1, <1>2, <1>8 DEF ServicesDone, TimedOut, Cancelled, Succeeded, Failed, StopService, NoSave
<1>9. CASE RunJobHook \/ RunAutoNotifications
  BY <1>1, <1>2, <1>9 DEF RunJobHook, RunAutoNotifications, NoSave
<1>10. CASE \/ DeadlineExpires \/ CancelJobBuild \/ pollForCancellation \/ handleGRPCCancel \/ Drain
            \/ RecoverOrphanedBuilds \/ UNCHANGED vars
  BY <1>10 DEF DeadlineExpires, CancelJobBuild, pollForCancellation, handleGRPCCancel, Drain,
               RecoverOrphanedBuilds, StopWorking, Job, vars
<1> QED BY <1>1, <1>4, <1>5, <1>6, <1>7, <1>8, <1>9, <1>10 DEF Next, PlanLoop, Ended

\* Services are started by a command and stopped by stopServices.  The other steps
\* leave them alone, and leave the plan and the stopping of services only when none
\* is left to stop.
LEMMA ServiceStep ==
  ASSUME [Next]_vars
  PROVE  \/ \E n \in Names : CommandSucceeds(n)
         \/ \E n \in Services : StopService(n)
         \/ /\ UNCHANGED Service
            /\ pc' = pc \/ pc = "claimed" \/ pc' = "stop" \/ known = {}
               \/ pc \notin {"plan", "stop"}
<1>1. CASE ReadFails \/ FailEarly \/ DeleteEarly \/ StartPlan \/ FailSecrets
  BY <1>1 DEF ReadFails, FailEarly, DeleteEarly, StartPlan, FailSecrets
<1>2. CASE NextStep \/ NextParallel \/ NextIf \/ NextIfFails \/ EndIf \/ JoinParallel \/ EndPlan
  BY <1>2 DEF NextStep, NextParallel, NextIf, NextIfFails, EndIf, JoinParallel, EndPlan
<1>3. ASSUME NEW n \in Names, Step(n) PROVE UNCHANGED <<pc, up, known>>
  BY <1>3 DEF Step, Skip, NoVersion, NoInput, PutTrigger, Begin, Return, Enter, Abandon, ReturnBranch,
              Service
<1>4. ASSUME NEW n \in Names, Command(n), ~CommandSucceeds(n) PROVE UNCHANGED <<pc, up, known>>
  BY <1>4 DEF Command, Progress, Retry, CommandFails, Ready, NotReady, RunHook, Service
<1>5. CASE \/ ServicesDone \/ TimedOut \/ Cancelled \/ Succeeded \/ Failed
           \/ RunJobHook \/ RunAutoNotifications
  BY <1>5 DEF ServicesDone, TimedOut, Cancelled, Succeeded, Failed, RunJobHook, RunAutoNotifications
<1>6. CASE \/ DeadlineExpires \/ CancelJobBuild \/ pollForCancellation \/ handleGRPCCancel \/ Drain
           \/ RecoverOrphanedBuilds \/ UNCHANGED vars
  BY <1>6 DEF DeadlineExpires, CancelJobBuild, pollForCancellation, handleGRPCCancel, Drain,
              RecoverOrphanedBuilds, StopWorking, Job, Service, vars
<1> QED BY <1>1, <1>2, <1>3, <1>4, <1>5, <1>6 DEF Next, PlanLoop, Ended, Service

\* Every service that is up is known to runPlan, or a call was lost.
LEMMA ServicesInductive ==
  /\ Init => ServicesKnown
  /\ Shape /\ ServicesKnown /\ [Next]_vars => ServicesKnown'
<1>1. ASSUME Init PROVE ServicesKnown
  BY <1>1 DEF Init, ServicesKnown
<1>2. ASSUME Shape, ServicesKnown, [Next]_vars PROVE ServicesKnown'
  <2>1. TypeOK /\ (lost' = 0 => lost = 0)
    BY <1>2, LostStep DEF Shape
  <2>2. ASSUME NEW n \in Names, CommandSucceeds(n) PROVE ServicesKnown'
    <3>1. pc = "plan" /\ pc' = pc
      BY <1>2, <2>2, ActivePlan DEF CommandSucceeds, Active
    <3>2. PICK ok \in BOOLEAN : /\ Save(status, rec', ok)
                                /\ up' = up \cup ({n} \cap Services)
                                /\ known' = Remember(n, ok \/ ~Own(n))
      BY <2>2 DEF CommandSucceeds
    <3>3. lost' = 0 => ok
      BY <2>1, <3>2 DEF Save, TypeOK
    <3>4. lost' = 0 => up' \subseteq known'
      BY <1>2, <2>1, <3>2, <3>3 DEF ServicesKnown, Remember
    <3> QED BY <3>1, <3>4 DEF ServicesKnown
  <2>3. ASSUME NEW n \in Services, StopService(n) PROVE ServicesKnown'
    BY <1>2, <2>1, <2>3 DEF StopService, Forget, ServicesKnown
  <2>4. CASE /\ UNCHANGED Service
             /\ pc' = pc \/ pc = "claimed" \/ pc' = "stop" \/ known = {} \/ pc \notin {"plan", "stop"}
    BY <1>2, <2>1, <2>4 DEF ServicesKnown, Service
  <2> QED BY <1>2, <2>2, <2>3, <2>4, ServiceStep
<1> QED BY <1>1, <1>2

\* Services are stopped before the outcome is decided, for every plan: runPlan and
\* runIfStep together hand every service that was started to stopServices.
THEOREM ServicesStoppedCorrect == Spec => []ServicesStopped
<1>1. Shape /\ ServicesKnown => ServicesStopped
  BY DEF Shape, TypeOK, ServicesKnown, ServicesStopped
<1> QED BY <1>1, ShapeInductive, ServicesInductive, PTL DEF Spec

-----------------------------------------------------------------------------
(* Failures.                                                               *)

\* A block is at work only when it runs its hooks.
LEMMA WorksBlock ==
  ASSUME NEW n \in Names, Works(n), n \notin Commands
  PROVE  fr[n].at \in {"probe", "hooks"}
BY JobAssumptions
   DEF Works, Skip, NoVersion, NoInput, Begin, PutTrigger, Enter, Progress, Retry, CommandFails,
       CommandSucceeds, Ready, NotReady, RunHook, Commands

\* The if block whose branch runs is not at work.
LEMMA WorksNotBranch ==
  ASSUME Shape, NEW n \in Names, Works(n)
  PROVE  n # branch
BY WorksBlock, NameFacts, ShapeTypes DEF Shape, ActiveOK

\* Wherever a step fails, its failure is on its way to runPlan.
LEMMA NotedInductive ==
  /\ Init => FailureNoted
  /\ Shape /\ FailureNoted /\ [Next]_vars => FailureNoted'
<1>1. ASSUME Init PROVE FailureNoted
  BY <1>1 DEF Init, Off, FailureNoted
<1>2. ASSUME Shape, FailureNoted, [Next]_vars PROVE FailureNoted'
  <2>1. /\ fr \in [Names -> Frame] /\ branch \in Ifs \cup {None} /\ cur \in Names \cup {None}
        /\ None \notin Names /\ None \notin Ifs /\ None \notin Parallels
        /\ ActiveOK /\ PlaceOK /\ TypeOK /\ agenda \in Seq(Names)
    BY <1>2, ShapeTypes DEF Shape
  <2>2. \A n \in Names : fr[n].failed \in BOOLEAN
    BY <2>1 DEF Frame
  <2>3. CASE StartPlan \/ EndPlan
    BY <1>2, <2>3 DEF StartPlan, EndPlan, Main, FailureNoted, Waiting
  <2>4. CASE NextStep \/ NextParallel \/ NextIf \/ NextIfFails
    <3>1. cur = None /\ agenda # <<>>
      BY <2>4 DEF NextStep, NextParallel, NextIf, NextIfFails
    <3>2. PICK x \in Names : x = Head(agenda)
      BY <2>1, <3>1, HeadTail
    <3>3. failed' = failed /\ \A n \in Names : fr[n].failed => failed \/ (branch # None /\ fr[branch].failed)
      BY <1>2, <2>1, <2>4, <3>1 DEF FailureNoted, Waiting, NextStep, NextParallel, NextIf, NextIfFails
    <3>4. CASE NextStep
      <4>1. branch' = branch /\ fr' = [fr EXCEPT ![x].at = "in"]
        BY <3>2, <3>4 DEF NextStep
      <4>2. \A n \in Names : fr'[n].failed = fr[n].failed
        BY <2>1, <4>1 DEF Frame
      <4> QED BY <2>1, <3>3, <4>1, <4>2, NameFacts DEF FailureNoted
    <3>5. CASE NextParallel
      <4>1. /\ branch' = branch
            /\ fr' = [n \in Names |-> IF n = x THEN [fr[n] EXCEPT !.at = "run"]
                                      ELSE IF n \in Members[x] THEN [fr[n] EXCEPT !.at = "ready"]
                                      ELSE fr[n]]
        BY <3>2, <3>5 DEF NextParallel
      <4>2. \A n \in Names : fr'[n].failed = fr[n].failed
        BY <2>1, <4>1 DEF Frame
      <4> QED BY <2>1, <3>3, <4>1, <4>2, NameFacts DEF FailureNoted
    <3>6. CASE NextIf
      <4>1. fr' = [fr EXCEPT ![x].at = "run"]
        BY <3>2, <3>6 DEF NextIf
      <4>2. \A n \in Names : fr'[n].failed = fr[n].failed
        BY <2>1, <4>1 DEF Frame
      <4>3. branch = None
        BY <2>1, <3>1, <3>6, TopIf DEF NextIf
      <4> QED BY <3>3, <4>2, <4>3 DEF FailureNoted
    <3>7. CASE NextIfFails
      <4>1. fr' = [fr EXCEPT ![x] = Returned(x, TRUE)] /\ cur' = x /\ branch' = branch
        BY <3>2, <3>7 DEF NextIfFails
      <4>2. \A n \in Names \ {x} : fr'[n] = fr[n]
        BY <2>1, <4>1
      <4>3. branch = None
        BY <2>1, <3>1, <3>7, TopIf DEF NextIfFails
      <4> QED BY <3>3, <4>1, <4>2, <4>3 DEF FailureNoted
    <3> QED BY <2>4, <3>4, <3>5, <3>6, <3>7
  <2>5. CASE EndIf
    <3>1. PICK q \in Ifs : q = branch
      BY <2>1, <2>5 DEF EndIf
    <3>2. /\ cur' = q /\ branch' = None /\ cur = None /\ failed' = failed
          /\ fr' = [fr EXCEPT ![q] = Finished(q, ~fr[q].failed)]
      BY <2>5, <3>1 DEF EndIf
    <3>3. /\ \A n \in Names \ {q} : fr'[n] = fr[n]
          /\ fr'[q].at = "hooks" /\ fr'[q].failed = fr[q].failed
      BY <2>1, <2>2, <3>1, <3>2, NameFacts DEF Finished, Frame
    <3> QED BY <1>2, <2>1, <3>1, <3>2, <3>3 DEF FailureNoted, Waiting
  <2>6. CASE JoinParallel
    <3>1. PICK p \in Parallels : p = cur
      BY <2>6 DEF JoinParallel
    <3>2. /\ UNCHANGED <<branch, cur, failed>> /\ p \in Names
          /\ fr' = [fr EXCEPT ![p] = Finished(p, AllSucceeded(p))] /\ fr[p].at = "run"
      BY <2>6, <3>1, NameFacts DEF JoinParallel, Main
    <3>3. /\ \A n \in Names \ {p} : fr'[n] = fr[n]
          /\ fr'[p].at = "hooks" /\ fr'[p].failed = ~AllSucceeded(p)
      BY <2>1, <3>2 DEF Finished, Frame
    <3>4. \A n \in Members[p] : fr[n].failed => fr'[p].failed
      BY <3>3 DEF AllSucceeded
    <3> QED BY <1>2, <2>1, <3>1, <3>2, <3>3, <3>4, NameFacts DEF FailureNoted, ActiveOK
  <2>7. ASSUME NEW n \in Names, Works(n) PROVE FailureNoted'
    <3>1. /\ UNCHANGED <<branch, cur, failed>>
          /\ \A m \in Names \ {n} : fr'[m] = fr[m]
          /\ fr[n].at = "hooks" => fr'[n].at = "hooks" /\ fr'[n].failed = fr[n].failed
          /\ Active(n)
      BY <2>1, <2>7, WorksStep
    <3>2. Waiting(cur)' <=> Waiting(cur)
      BY <1>2, <2>7, ShapeWorks
    <3>3. n # branch
      BY <1>2, <2>7, WorksNotBranch
    <3>4. n = cur \/ (Waiting(cur) /\ n \in Members[cur])
      BY <1>2, <3>1, <3>3, ActivePlan
    <3> QED BY <1>2, <2>1, <3>1, <3>2, <3>3, <3>4, NameFacts DEF FailureNoted
  <2>8. ASSUME NEW n \in Names, Return(n) PROVE FailureNoted'
    <3>1. /\ n = cur /\ cur' = None /\ branch' = branch /\ fr[n].at = "hooks"
          /\ failed' = (failed \/ (fr[n].failed /\ branch = None))
          /\ fr' = [m \in Names |-> IF m = n THEN [fr[m] EXCEPT !.at = "done"]
                                    ELSE IF fr[n].failed /\ m = branch
                                         THEN [fr[m] EXCEPT !.failed = TRUE]
                                    ELSE fr[m]]
      BY <2>8 DEF Return
    <3>2. CASE fr[n].failed
      <4>1. branch # None => branch \in Names /\ branch # n
        BY <2>1, <3>1, NameFacts DEF ActiveOK
      <4>2. branch # None => fr'[branch].failed
        BY <2>1, <3>1, <3>2, <4>1 DEF Frame
      <4> QED BY <3>1, <3>2, <4>2 DEF FailureNoted
    <3>3. CASE ~fr[n].failed
      <4>1. \A m \in Names : fr'[m].failed = fr[m].failed
        BY <2>1, <3>1, <3>3 DEF Frame
      <4> QED BY <1>2, <2>1, <3>1, <3>3, <4>1, NameFacts DEF FailureNoted, Waiting
    <3> QED BY <3>2, <3>3
  <2>9. ASSUME NEW n \in Names, NEW p \in Parallels, Abandon(p, n) \/ ReturnBranch(p, n)
        PROVE  FailureNoted'
    <3>1. cur = p /\ Waiting(cur) /\ Waiting(cur)' /\ n \in Members[p]
      BY <1>2, <2>9, ShapeMember
    <3>2. UNCHANGED <<branch, cur, failed>> /\ \A m \in Names \ {n} : fr'[m] = fr[m]
      BY <2>1, <2>9 DEF Abandon, ReturnBranch, Main
    <3>3. n # branch
      BY <2>1, <3>1, NameFacts
    <3> QED BY <1>2, <2>1, <3>1, <3>2, <3>3, NameFacts DEF FailureNoted, Waiting
  <2>10. CASE Outside \/ UNCHANGED vars
    <3>1. UNCHANGED <<branch, cur, fr>> /\ (failed => failed')
      BY <2>10 DEF Outside, vars
    <3> QED BY <1>2, <3>1 DEF FailureNoted, Waiting
  <2> QED BY <1>2, <2>3, <2>4, <2>5, <2>6, <2>7, <2>8, <2>9, <2>10, Moves
<1> QED BY <1>1, <1>2

\* What the row becomes when st is reported.
Told(st) == IF row = "cancelled" THEN row ELSE st

\* What a step of the plan does to the status: nothing, or it fails the build.  The
\* row takes the status or, of a copy, the failure.
PlanReport ==
  /\ status' \in {status, "failed"}
  /\ row' \in {row, status, status', "failed"}
  /\ lost' = 0 => \/ UNCHANGED <<status, row>>
                  \/ row' = Told(status')
                  \/ UNCHANGED status /\ row' = Told("failed")

\* The steps of the plan.
PlanMove ==
  \/ StartPlan \/ NextStep \/ NextParallel \/ NextIf \/ NextIfFails \/ EndIf \/ JoinParallel
  \/ EndPlan
  \/ \E n \in Names : Works(n) \/ Return(n)
  \/ \E n \in Names : \E p \in Parallels : Abandon(p, n) \/ ReturnBranch(p, n)

\* They report so.
LEMMA PlanReports ==
  ASSUME TypeOK, PlanMove
  PROVE  PlanReport /\ UNCHANGED <<mode, verdict, down>> /\ (copied => copied')
<1>1. ASSUME NEW st, NEW steps, NEW ok \in BOOLEAN, Save(st, steps, ok)
      PROVE  row' \in {row, st} /\ (lost' = 0 => row' = Told(st))
  BY <1>1, SaveFacts DEF Told
<1>2. ASSUME NoSave, UNCHANGED status PROVE PlanReport
  BY <1>2 DEF NoSave, PlanReport
<1>3. ASSUME NEW steps, NEW ok \in BOOLEAN, Save(status, steps, ok), UNCHANGED status PROVE PlanReport
  <2>1. row' \in {row, status} /\ (lost' = 0 => row' = Told(status))
    BY <1>1, <1>3
  <2> QED BY <1>3, <2>1 DEF PlanReport
<1>4. ASSUME NEW n, NEW steps, NEW ok \in BOOLEAN, Fail(n, steps, ok) PROVE PlanReport
  <2>1. CASE Own(n)
    <3>1. status' = "failed" /\ Save("failed", steps, ok)
      BY <1>4, <2>1 DEF Fail
    <3>2. row' \in {row, "failed"} /\ (lost' = 0 => row' = Told("failed"))
      BY <1>1, <3>1
    <3> QED BY <3>1, <3>2 DEF PlanReport
  <2>2. CASE ~Own(n)
    BY <1>2, <1>4, <2>2 DEF Fail
  <2> QED BY <2>1, <2>2
<1>5. ASSUME NEW own \in BOOLEAN, NEW steps, NEW ok \in BOOLEAN, UNCHANGED status,
             IF own THEN Save("failed", steps, ok) ELSE ok /\ NoSave
      PROVE  PlanReport
  <2>1. CASE own
    <3>1. row' \in {row, "failed"} /\ (lost' = 0 => row' = Told("failed"))
      BY <1>1, <1>5, <2>1
    <3> QED BY <1>5, <3>1 DEF PlanReport
  <2>2. CASE ~own
    BY <1>2, <1>5, <2>2
  <2> QED BY <2>1, <2>2
<1>6. CASE StartPlan \/ NextStep \/ EndPlan
  BY <1>2, <1>6 DEF StartPlan, NextStep, EndPlan, Main, History
<1>7. CASE NextParallel \/ NextIf
  BY <1>3, <1>7 DEF NextParallel, NextIf, History
<1>8. CASE NextIfFails
  <2>1. PICK ok \in BOOLEAN : FailCopy(cur', rec', ok)
    BY <1>8 DEF NextIfFails
  <2>2. Own(cur') \in BOOLEAN
    BY DEF Own
  <2>3. PlanReport
    BY <1>5, <2>1, <2>2 DEF FailCopy
  <2> QED BY <1>8, <2>3 DEF NextIfFails
<1>9. CASE EndIf \/ JoinParallel
  <2>1. status' \in {status, "failed"} /\ \E ok \in BOOLEAN : Save(status', rec', ok)
    BY <1>9 DEF EndIf, JoinParallel, StatusAfter
  <2>2. row' \in {row, status'} /\ (lost' = 0 => row' = Told(status'))
    BY <1>1, <2>1
  <2>3. PlanReport
    BY <2>1, <2>2 DEF PlanReport
  <2> QED BY <1>9, <2>3 DEF EndIf, JoinParallel, Main, History
<1>10. ASSUME NEW n \in Names, Return(n) PROVE PlanReport /\ UNCHANGED <<mode, verdict, down, copied>>
  BY <1>2, <1>10 DEF Return, History
<1>11. ASSUME NEW n \in Names, NEW p \in Parallels, Abandon(p, n) \/ ReturnBranch(p, n)
       PROVE  PlanReport /\ UNCHANGED <<mode, verdict, down, copied>>
  BY <1>2, <1>3, <1>11 DEF Abandon, ReturnBranch, Main, History
<1>12. ASSUME NEW n \in Names, Works(n)
       PROVE  PlanReport /\ UNCHANGED <<mode, verdict, down>> /\ (copied => copied')
  <2>1. CASE Skip(n) \/ Retry(n) \/ \E p \in Parallels : Enter(p, n)
    <3>1. NoSave /\ UNCHANGED <<status, mode, verdict, down, copied>>
      BY <2>1 DEF Skip, Retry, Enter, Main, History
    <3> QED BY <1>2, <3>1
  <2>2. CASE Begin(n) \/ Progress(n) \/ CommandSucceeds(n) \/ Ready(n)
    <3>1. UNCHANGED <<status, mode, verdict, down, copied>>
      BY <2>2 DEF Begin, Progress, CommandSucceeds, Ready, Main, History
    <3>2. \E ok \in BOOLEAN : Save(status, rec, ok) \/ Save(status, rec', ok)
      BY <2>2 DEF Begin, Progress, CommandSucceeds, Ready
    <3> QED BY <1>3, <3>1, <3>2
  <2>3. CASE NoInput(n) \/ CommandFails(n) \/ NotReady(n)
    <3>1. UNCHANGED <<mode, verdict, down, copied>>
      BY <2>3 DEF NoInput, CommandFails, NotReady, Main, History
    <3>2. \E ok \in BOOLEAN : Fail(n, rec, ok) \/ Fail(n, rec', ok)
      BY <2>3 DEF NoInput, CommandFails, NotReady
    <3> QED BY <1>4, <3>1, <3>2
  <2>4. ASSUME NEW created \in BOOLEAN, PutTrigger(n, created)
        PROVE  PlanReport /\ UNCHANGED <<mode, verdict, down, copied>>
    BY <1>3, <1>4, <2>4 DEF PutTrigger, Main, History
  <2>5. CASE RunHook(n)
    BY <1>3, <1>4, <2>5 DEF RunHook, Main
  <2>6. CASE NoVersion(n)
    <3>1. PICK ok \in BOOLEAN : FailCopy(n, rec, ok)
      BY <2>6 DEF NoVersion
    <3>2. Own(n) \in BOOLEAN
      BY DEF Own
    <3>3. PlanReport
      BY <1>5, <3>1, <3>2 DEF FailCopy
    <3> QED BY <2>6, <3>3 DEF NoVersion, Main
  <2> QED BY <1>12, <2>1, <2>2, <2>3, <2>4, <2>5, <2>6 DEF Works
<1> QED BY <1>6, <1>7, <1>8, <1>9, <1>10, <1>11, <1>12 DEF PlanMove

\* They are taken in the plan, or lead into it.
LEMMA PlanMoves ==
  ASSUME Shape, PlanMove
  PROVE  pc \in {"claimed", "plan"} /\ pc' \in {"plan", "stop"}
<1>1. ASSUME NEW n \in Names, Works(n) PROVE pc = "plan" /\ pc' = "plan"
  BY <1>1, WorksStep, ActivePlan DEF Shape
<1>2. ASSUME NEW n \in Names, Return(n) PROVE pc = "plan" /\ pc' = "plan"
  BY <1>2, ActivePlan DEF Return, Active
<1>3. ASSUME NEW n \in Names, NEW p \in Parallels, Abandon(p, n) \/ ReturnBranch(p, n)
      PROVE  pc = "plan" /\ pc' = "plan"
  BY <1>3, ActivePlan DEF Abandon, ReturnBranch, Active
<1> QED BY <1>1, <1>2, <1>3
        DEF PlanMove, StartPlan, NextStep, NextParallel, NextIf, NextIfFails, EndIf, JoinParallel,
            EndPlan

\* What happens before the plan, and around the job.
Early  == ReadFails \/ FailEarly \/ DeleteEarly \/ FailSecrets
Around == \/ DeadlineExpires \/ CancelJobBuild \/ pollForCancellation \/ handleGRPCCancel \/ Drain
          \/ RecoverOrphanedBuilds \/ UNCHANGED vars

\* Every step is one of the plan's, or one of these.
LEMMA Steppings ==
  ASSUME [Next]_vars
  PROVE  \/ PlanMove \/ Early \/ Around
         \/ (\E n \in Services : StopService(n)) \/ ServicesDone
         \/ TimedOut \/ Cancelled \/ Succeeded \/ Failed
         \/ RunJobHook \/ RunAutoNotifications
BY DEF Next, PlanLoop, Step, Command, Ended, Works, PlanMove, Early, Around

\* Around the job, the row may be cancelled or failed, and the contexts end.
LEMMA AroundSteps ==
  ASSUME Around
  PROVE  /\ UNCHANGED Job
         /\ \/ row' = row
            \/ row = "started" /\ row' \in {"failed", "cancelled"}
         /\ ctx' = ctx \/ ctx' # "live"
         /\ working' => working
<1>1. CASE UNCHANGED vars
  BY <1>1 DEF vars, Job, Main, Service, History
<1>2. CASE ~UNCHANGED vars
  BY <1>2 DEF Around, DeadlineExpires, CancelJobBuild, pollForCancellation, handleGRPCCancel, Drain,
              RecoverOrphanedBuilds, StopWorking
<1> QED BY <1>1, <1>2

\* Only a plan without a failure becomes a success.
LEMMA SuccessInductive ==
  /\ Init => SuccessSound
  /\ Shape /\ FailureNoted /\ SuccessSound /\ [Next]_vars => SuccessSound'
<1>1. ASSUME Init PROVE SuccessSound
  BY <1>1 DEF Init, SuccessSound
<1>2. ASSUME Shape, FailureNoted, SuccessSound, [Next]_vars PROVE SuccessSound'
  <2>1. TypeOK
    BY <1>2 DEF Shape
  <2>2. ASSUME NEW st, NEW steps, NEW ok \in BOOLEAN, Save(st, steps, ok) PROVE row' \in {row, st}
    BY <2>1, <2>2, SaveFacts
  <2>3. CASE PlanMove
    BY <1>2, <2>1, <2>3, PlanMoves, PlanReports DEF SuccessSound, PlanReport
  <2>4. CASE Early
    <3>1. pc = "claimed" /\ UNCHANGED <<mode, status, down>> /\ row' \in {row, "failed", "deleted"}
      BY <2>2, <2>4 DEF Early, ReadFails, FailEarly, DeleteEarly, FailSecrets, Main, History
    <3> QED BY <1>2, <3>1 DEF SuccessSound
  <2>5. CASE (\E n \in Services : StopService(n)) \/ ServicesDone
    <3>1. pc = "stop" /\ UNCHANGED <<mode, status, down>> /\ row' \in {row, status}
      BY <2>2, <2>5 DEF StopService, ServicesDone, NoSave, Main, History
    <3> QED BY <1>2, <3>1 DEF SuccessSound
  <2>6. CASE TimedOut \/ Cancelled \/ Failed
    <3>1. /\ pc = "decide" /\ UNCHANGED <<mode, down>>
          /\ status' \in {status, "failed", "cancelled"} /\ row' \in {row, "failed", "cancelled"}
      BY <2>2, <2>6 DEF TimedOut, Cancelled, Failed, NoSave, Main
    <3> QED BY <1>2, <3>1 DEF SuccessSound
  <2>7. CASE Succeeded
    <3>1. /\ pc = "decide" /\ pc' \in {"tail", "end"} /\ UNCHANGED <<mode, fr>>
          /\ status' = IF failed THEN "warning" ELSE "succeeded"
          /\ failed => mode.allowFailure
      BY <2>7 DEF Succeeded, Concludes, Main
    <3>2. row' \in {row, status'}
      BY <2>2, <2>7 DEF Succeeded
    <3>3. CASE failed
      BY <1>2, <3>1, <3>2, <3>3 DEF SuccessSound
    <3>4. CASE ~failed
      <4>1. cur = None /\ branch = None
        BY <1>2, <3>1 DEF Shape, ActiveOK
      <4>2. \A n \in Names : ~fr[n].failed
        BY <1>2, <2>1, <3>4, <4>1, ShapeTypes DEF FailureNoted, Waiting
      <4> QED BY <3>1, <4>2 DEF SuccessSound
    <3> QED BY <3>3, <3>4
  <2>8. CASE RunJobHook \/ RunAutoNotifications
    <3>1. /\ pc' \in {"tail", "end"} /\ UNCHANGED <<mode, fr, down>>
          /\ status' \in {status, "failed"}
      BY <2>8 DEF RunJobHook, RunAutoNotifications, Main, History
    <3>2. row' \in {row, status'}
      BY <2>2, <2>8 DEF RunJobHook, RunAutoNotifications, NoSave
    <3> QED BY <1>2, <3>1, <3>2 DEF SuccessSound
  <2>9. CASE Around
    BY <1>2, <2>9, AroundSteps DEF SuccessSound, Job, Main, History
  <2> QED BY <1>2, <2>3, <2>4, <2>5, <2>6, <2>7, <2>8, <2>9, Steppings
<1> QED BY <1>1, <1>2

\* A build is reported as a success, and its downstream jobs are evaluated, only if
\* nothing of its plan has failed, in whatever block it was.
THEOREM SuccessHonestCorrect == Spec => []SuccessHonest
<1>1. SuccessSound => SuccessHonest
  BY DEF SuccessSound, SuccessHonest
<1> QED BY <1>1, ShapeInductive, NotedInductive, SuccessInductive, PTL DEF Spec

-----------------------------------------------------------------------------
(* The result in the row.                                                  *)

\* A step of the plan that fails at work says so in the worker's build, unless it
\* says so of a copy or the report is lost.
LEMMA WorkFails ==
  ASSUME TypeOK, NEW n \in Names, Works(n), Own(n), lost' = 0, ~copied', fr'[n].failed, ~fr[n].failed
  PROVE  status' = "failed"
<1>1. fr \in [Names -> Frame] /\ lost \in Nat
  BY DEF TypeOK
<1>2. /\ \A ok \in BOOLEAN : Returned(n, ok).failed = ok /\ Finished(n, ok).failed = ~ok
  BY <1>1 DEF Returned, Finished, Frame
<1>3. ASSUME NEW steps, NEW ok \in BOOLEAN, Fail(n, steps, ok) PROVE status' = "failed"
  BY <1>3 DEF Fail
<1>4. CASE Skip(n) \/ Ready(n)
  BY <1>1, <1>2, <1>4 DEF Skip, Ready
<1>5. CASE NoVersion(n)
  BY <1>5 DEF NoVersion
<1>6. CASE NoInput(n) \/ CommandFails(n) \/ NotReady(n)
  <2>1. \E ok \in BOOLEAN : Fail(n, rec, ok) \/ Fail(n, rec', ok)
    BY <1>6 DEF NoInput, CommandFails, NotReady
  <2> QED BY <1>3, <2>1
<1>7. ASSUME NEW created \in BOOLEAN, PutTrigger(n, created) PROVE status' = "failed"
  <2>1. CASE created
    BY <1>1, <1>2, <1>7, <2>1 DEF PutTrigger
  <2>2. CASE ~created
    BY <1>3, <1>7, <2>2 DEF PutTrigger
  <2> QED BY <2>1, <2>2
<1>8. CASE Begin(n) \/ (\E p \in Parallels : Enter(p, n)) \/ Progress(n) \/ Retry(n) \/ RunHook(n)
  <2>1. fr'[n].failed = fr[n].failed
    BY SMTT(30), <1>1, <1>8 DEF Begin, Enter, Progress, Retry, NextTry, RunHook, Frame
  <2> QED BY <2>1
<1>9. CASE CommandSucceeds(n)
  <2>1. PICK ok \in BOOLEAN :
          /\ Save(status, rec', ok)
          /\ fr' = [fr EXCEPT ![n] = IF ~(ok \/ ~Own(n)) THEN Returned(n, TRUE)
                                     ELSE IF n \in Services THEN [fr[n] EXCEPT !.at = "probe"]
                                     ELSE Finished(n, TRUE)]
    BY <1>9 DEF CommandSucceeds
  <2>2. ok
    BY <1>1, <2>1 DEF Save
  <2>3. fr'[n] = [fr[n] EXCEPT !.at = "probe"] \/ fr'[n] = Finished(n, TRUE)
    BY <1>1, <2>1, <2>2
  <2>4. fr'[n].failed = fr[n].failed \/ fr'[n].failed = FALSE
    BY <1>1, <1>2, <2>3 DEF Frame
  <2> QED BY <2>4
<1> QED BY <1>4, <1>5, <1>6, <1>7, <1>8, <1>9 DEF Works

\* So do the blocks, and no other step of the plan changes that.
LEMMA OwnFails ==
  ASSUME Shape, FailureNoted, FailureReported, PlanMove, Reliable'
  PROVE  OwnFailures' /\ (failed' => status' = "failed")
<1>1. /\ fr \in [Names -> Frame] /\ branch \in Ifs \cup {None} /\ cur \in Names \cup {None}
      /\ None \notin Names /\ None \notin Ifs /\ None \notin Parallels
      /\ ActiveOK /\ PlaceOK /\ TypeOK /\ agenda \in Seq(Names)
  BY ShapeTypes DEF Shape
<1>2. /\ status' \in {status, "failed"} /\ Reliable /\ pc \in {"claimed", "plan"}
  <2>1. status' \in {status, "failed"} /\ (copied => copied')
    BY <1>1, PlanReports DEF PlanReport
  <2>2. [Next]_vars
    BY DEF PlanMove, Works, Next, PlanLoop, Step, Command
  <2> QED BY <1>1, <2>1, <2>2, PlanMoves, LostStep DEF Reliable
<1>3. OwnFailures /\ (failed => status = "failed")
  <2>1. CASE pc = "plan"
    BY <1>2, <2>1 DEF FailureReported
  <2>2. CASE pc = "claimed"
    <3>1. cur = None /\ branch = None /\ ~failed
      BY <1>1, <2>2 DEF ActiveOK, FailureReported
    <3>2. \A n \in Names : ~fr[n].failed
      BY <1>1, <3>1 DEF FailureNoted, Waiting
    <3> QED BY <3>1, <3>2 DEF OwnFailures
  <2> QED BY <1>2, <2>1, <2>2
<1>4. ASSUME UNCHANGED <<failed, branch>>, \A n \in Names : fr'[n].failed = fr[n].failed
      PROVE  OwnFailures' /\ (failed' => status' = "failed")
  BY <1>2, <1>3, <1>4 DEF OwnFailures
<1>5. CASE StartPlan \/ EndPlan
  BY <1>4, <1>5 DEF StartPlan, EndPlan, Main
<1>6. CASE NextStep \/ NextParallel \/ NextIf \/ NextIfFails
  <2>1. agenda # <<>> /\ failed' = failed
    BY <1>6 DEF NextStep, NextParallel, NextIf, NextIfFails
  <2>2. PICK x \in Names : x = Head(agenda)
    BY <1>1, <2>1, HeadTail
  <2>3. CASE NextStep
    <3>1. branch' = branch /\ fr' = [fr EXCEPT ![x].at = "in"]
      BY <2>2, <2>3 DEF NextStep
    <3>2. \A n \in Names : fr'[n].failed = fr[n].failed
      BY <1>1, <3>1 DEF Frame
    <3> QED BY <1>4, <2>1, <3>1, <3>2
  <2>4. CASE NextParallel
    <3>1. /\ branch' = branch
          /\ fr' = [n \in Names |-> IF n = x THEN [fr[n] EXCEPT !.at = "run"]
                                    ELSE IF n \in Members[x] THEN [fr[n] EXCEPT !.at = "ready"]
                                    ELSE fr[n]]
      BY <2>2, <2>4 DEF NextParallel
    <3>2. \A n \in Names : fr'[n].failed = fr[n].failed
      BY <1>1, <3>1 DEF Frame
    <3> QED BY <1>4, <2>1, <3>1, <3>2
  <2>5. CASE NextIf
    <3>1. fr' = [fr EXCEPT ![x].at = "run"] /\ branch = None
      BY <1>1, <2>1, <2>2, <2>5, TopIf DEF NextIf
    <3>2. \A n \in Names : fr'[n].failed = fr[n].failed
      BY <1>1, <3>1 DEF Frame
    <3> QED BY <1>1, <1>2, <1>3, <2>1, <3>1, <3>2 DEF OwnFailures
  <2>6. CASE NextIfFails
    BY <2>6 DEF NextIfFails, Reliable
  <2> QED BY <1>6, <2>3, <2>4, <2>5, <2>6
<1>7. CASE EndIf
  <2>1. PICK q \in Ifs : q = branch
    BY <1>1, <1>7 DEF EndIf
  <2>2. /\ failed' = failed /\ fr' = [fr EXCEPT ![q] = Finished(q, ~fr[q].failed)]
        /\ status' = StatusAfter(q, ~fr[q].failed)
    BY <1>7, <2>1 DEF EndIf
  <2>3. (\A n \in Names \ {q} : fr'[n] = fr[n]) /\ (fr'[q].failed => fr[q].failed)
    BY <1>1, <2>1, <2>2, NameFacts DEF Finished, Frame
  <2> QED BY <1>2, <1>3, <2>1, <2>2, <2>3 DEF OwnFailures, StatusAfter
<1>8. CASE JoinParallel
  <2>1. PICK p \in Parallels : p = cur
    BY <1>8 DEF JoinParallel
  <2>2. /\ UNCHANGED <<failed, branch>> /\ fr' = [fr EXCEPT ![p] = Finished(p, AllSucceeded(p))]
        /\ status' = StatusAfter(p, AllSucceeded(p))
    BY <1>8, <2>1 DEF JoinParallel, Main
  <2>3. (\A n \in Names \ {p} : fr'[n] = fr[n]) /\ fr'[p].failed = ~AllSucceeded(p)
    BY <1>1, <2>1, <2>2, NameFacts DEF Finished, Frame
  <2> QED BY <1>2, <1>3, <2>1, <2>2, <2>3 DEF OwnFailures, StatusAfter
<1>9. ASSUME NEW n \in Names, Works(n) PROVE OwnFailures' /\ (failed' => status' = "failed")
  <2>1. UNCHANGED <<failed, branch>> /\ \A m \in Names \ {n} : fr'[m] = fr[m]
    BY <1>1, <1>9, WorksStep
  <2>2. n # branch
    BY <1>9, WorksNotBranch
  <2>3. Own(n) /\ fr'[n].failed => fr[n].failed \/ status' = "failed"
    BY <1>1, <1>9, WorkFails DEF Reliable
  <2> QED BY <1>2, <1>3, <2>1, <2>2, <2>3 DEF OwnFailures
<1>10. ASSUME NEW n \in Names, Return(n) PROVE OwnFailures' /\ (failed' => status' = "failed")
  <2>1. /\ n = cur /\ UNCHANGED <<branch, status>>
        /\ failed' = (failed \/ (fr[n].failed /\ branch = None))
        /\ fr' = [m \in Names |-> IF m = n THEN [fr[m] EXCEPT !.at = "done"]
                                  ELSE IF fr[n].failed /\ m = branch
                                       THEN [fr[m] EXCEPT !.failed = TRUE]
                                  ELSE fr[m]]
    BY <1>10 DEF Return
  <2>2. \A m \in Names : m # branch => fr'[m].failed = fr[m].failed
    BY <1>1, <2>1 DEF Frame
  <2>3. branch = None => Own(n)
    BY <1>1, <2>1 DEF PlaceOK
  <2> QED BY <1>1, <1>3, <2>1, <2>2, <2>3 DEF OwnFailures
<1>11. ASSUME NEW n \in Names, NEW p \in Parallels, Abandon(p, n) \/ ReturnBranch(p, n)
       PROVE  OwnFailures' /\ (failed' => status' = "failed")
  <2>1. UNCHANGED <<failed, branch>> /\ \A m \in Names \ {n} : fr'[m] = fr[m]
    BY <1>1, <1>11 DEF Abandon, ReturnBranch, Main
  <2>2. ~Own(n)
    BY <1>11, NameFacts DEF Abandon, ReturnBranch
  <2> QED BY <1>2, <1>3, <2>1, <2>2 DEF OwnFailures
<1> QED BY <1>5, <1>6, <1>7, <1>8, <1>9, <1>10, <1>11 DEF PlanMove

\* A failure of the plan, and then the outcome, are in the row.
LEMMA ReportedInductive ==
  /\ Init => FailureReported /\ OutcomeReported
  /\ Shape /\ FailureNoted /\ FailureReported /\ OutcomeReported /\ [Next]_vars =>
       FailureReported' /\ OutcomeReported'
<1>1. ASSUME Init PROVE FailureReported /\ OutcomeReported
  BY <1>1 DEF Init, FailureReported, OutcomeReported
<1>2. ASSUME Shape, FailureNoted, FailureReported, OutcomeReported, [Next]_vars
      PROVE  FailureReported' /\ OutcomeReported'
  <2>1. TypeOK /\ lost \in Nat /\ (lost' = 0 => lost = 0)
    BY <1>2, LostStep DEF Shape, TypeOK
  <2>2. ASSUME NEW st, NEW steps, NEW ok \in BOOLEAN, Save(st, steps, ok)
        PROVE  lost' = 0 => ok /\ row' = Told(st)
    <3>1. lost' = 0 => row' = Told(st)
      BY <2>1, <2>2, SaveFacts DEF Told
    <3>2. lost' = 0 => ok
      BY <2>1, <2>2 DEF Save
    <3> QED BY <3>1, <3>2
  <2>3. CASE PlanMove
    <3>1. pc \in {"claimed", "plan"} /\ pc' \in {"plan", "stop"}
      BY <1>2, <2>3, PlanMoves
    <3>2. PlanReport /\ verdict' = verdict /\ (copied => copied')
      BY <2>1, <2>3, PlanReports
    <3>3. Reliable' => OwnFailures' /\ (failed' => status' = "failed") /\ Reliable
      BY <1>2, <2>1, <2>3, <3>2, OwnFails DEF Reliable
    <3>4. Reliable' /\ status' = "failed" => row' \in {"failed", "cancelled"}
      BY <1>2, <3>2, <3>3 DEF PlanReport, Told, FailureReported, Reliable
    <3>5. FailureReported'
      BY <3>1, <3>3, <3>4 DEF FailureReported
    <3>6. OutcomeReported'
      BY <1>2, <3>1, <3>2 DEF OutcomeReported
    <3> QED BY <3>5, <3>6
  <2>4. CASE Early
    <3>1. /\ pc = "claimed" /\ UNCHANGED <<status, verdict>> /\ status = "started"
          /\ verdict = "none" /\ pc' \in {"end", "decide"}
      BY <1>2, <2>4
         DEF Early, ReadFails, FailEarly, DeleteEarly, FailSecrets, History, FailureReported,
             OutcomeReported
    <3>2. CASE ReadFails
      BY <2>1, <3>1, <3>2 DEF ReadFails, FailureReported, OutcomeReported, Reliable
    <3>3. CASE FailSecrets
      BY <3>1, <3>3 DEF FailSecrets, FailureReported, OutcomeReported, Reliable
    <3>4. CASE DeleteEarly
      BY <3>1, <3>4 DEF DeleteEarly, FailureReported, OutcomeReported, Reliable
    <3>5. CASE FailEarly
      <4>1. pc' = "end" /\ (lost' = 0 => row' = Told("failed"))
        BY <2>2, <3>5 DEF FailEarly
      <4> QED BY <3>1, <4>1 DEF FailureReported, OutcomeReported, Reliable, Told
    <3> QED BY <2>4, <3>2, <3>3, <3>4, <3>5 DEF Early
  <2>5. CASE (\E n \in Services : StopService(n)) \/ ServicesDone
    <3>1. /\ pc = "stop" /\ pc' \in {"stop", "decide"} /\ UNCHANGED <<status, failed, copied, verdict>>
          /\ lost' = 0 => row' \in {row, Told(status)}
      BY <2>2, <2>5 DEF StopService, ServicesDone, NoSave, History
    <3>2. FailureReported'
      BY <1>2, <2>1, <3>1 DEF FailureReported, Reliable, Told
    <3> QED BY <1>2, <3>1, <3>2 DEF OutcomeReported
  <2>6. CASE TimedOut
    BY <2>6 DEF TimedOut, Concludes, FailureReported, OutcomeReported, Reliable
  <2>7. CASE Cancelled
    <3>1. /\ pc' = "tail" /\ status' = "cancelled" /\ verdict' = "on_cancel"
          /\ lost' = 0 => row' = Told("cancelled")
      BY <2>2, <2>7 DEF Cancelled, Concludes
    <3> QED BY <3>1 DEF FailureReported, OutcomeReported, Reliable, Told
  <2>8. CASE Succeeded
    <3>1. PICK ok \in BOOLEAN :
            /\ Save(status', rec, ok)
            /\ IF ok THEN Concludes(IF failed THEN "on_failure" ELSE "on_success")
                     ELSE pc' = "end" /\ UNCHANGED <<tail, verdict>>
      BY <2>8 DEF Succeeded
    <3>2. status' \in {"warning", "succeeded"} /\ pc = "decide" /\ verdict = "none"
      BY <1>2, <2>8 DEF Succeeded, OutcomeReported
    <3>3. lost' = 0 => ok /\ row' = Told(status')
      BY <2>2, <3>1
    <3>4. pc' \in {"tail", "end"} /\ (pc' = "tail" => verdict' # "none")
      BY <3>1, <3>2 DEF Concludes
    <3> QED BY <3>2, <3>3, <3>4 DEF FailureReported, OutcomeReported, Reliable, Told
  <2>9. CASE Failed
    <3>1. /\ pc = "decide" /\ failed /\ pc' = "tail" /\ status' = "failed" /\ verdict' = "on_failure"
          /\ UNCHANGED <<row, lost, copied>>
      BY <2>9 DEF Failed, Concludes, NoSave
    <3>2. Reliable => row \in {"failed", "cancelled"}
      BY <1>2, <3>1 DEF FailureReported
    <3> QED BY <3>1, <3>2 DEF FailureReported, OutcomeReported, Reliable
  <2>10. CASE RunJobHook \/ RunAutoNotifications
    <3>1. /\ pc = "tail" /\ pc' \in {"tail", "end"} /\ UNCHANGED <<verdict, copied>>
          /\ status' \in {status, "failed"}
      BY <2>10 DEF RunJobHook, RunAutoNotifications, History
    <3>2. lost' = 0 => row' = Told(status') \/ UNCHANGED <<row, status>>
      BY <2>2, <2>10 DEF RunJobHook, RunAutoNotifications, NoSave
    <3>3. FailureReported'
      BY <1>2, <2>1, <3>1, <3>2 DEF FailureReported, Reliable, Told
    <3>4. OutcomeReported'
      BY <1>2, <2>1, <3>1, <3>2 DEF OutcomeReported, Reliable, Told
    <3> QED BY <3>3, <3>4
  <2>11. CASE Around
    <3>1. /\ UNCHANGED <<pc, status, failed, fr, branch, verdict, lost, copied>>
          /\ \/ row' = row
             \/ row = "started" /\ row' \in {"failed", "cancelled"}
      BY <2>11, AroundSteps DEF Job, Main, History
    <3>2. FailureReported'
      BY <1>2, <3>1 DEF FailureReported, OwnFailures, Reliable
    <3>3. OutcomeReported'
      BY <1>2, <3>1 DEF OutcomeReported, Reliable
    <3> QED BY <3>2, <3>3
  <2> QED BY <1>2, <2>3, <2>4, <2>5, <2>6, <2>7, <2>8, <2>9, <2>10, <2>11, Steppings
<1> QED BY <1>1, <1>2

\* The row of a finished job holds the job's result, for every plan and whatever
\* order reports, cancellations and restarts come in, if no report was lost and
\* no failure was reported for a copy of the build, as it is at the deadline.
THEOREM ResultStoredCorrect == Spec => []ResultStored
<1>1. OutcomeReported => ResultStored
  BY DEF OutcomeReported, ResultStored, Reliable
<1> QED BY <1>1, ShapeInductive, NotedInductive, ReportedInductive, PTL DEF Spec

-----------------------------------------------------------------------------
(* The job's hooks.                                                        *)

\* What is in one of two lists is in both together.
LEMMA ConcatIndex ==
  ASSUME NEW S, NEW a \in Seq(S), NEW b \in Seq(S)
  PROVE  /\ \A i \in 1..Len(a) : i \in 1..Len(a \o b) /\ (a \o b)[i] = a[i]
         /\ \A i \in 1..Len(b) : Len(a) + i \in 1..Len(a \o b) /\ (a \o b)[Len(a) + i] = b[i]
<1>1. Len(a) \in Nat /\ Len(b) \in Nat /\ Len(a \o b) = Len(a) + Len(b)
  BY ConcatProperties
<1>2. \A i \in 1..(Len(a) + Len(b)) :
        (a \o b)[i] = IF i <= Len(a) THEN a[i] ELSE b[i - Len(a)]
  BY ConcatProperties
<1>3. ASSUME NEW i \in 1..Len(a) PROVE i \in 1..Len(a \o b) /\ (a \o b)[i] = a[i]
  BY <1>1, <1>2
<1>4. ASSUME NEW i \in 1..Len(b)
      PROVE  Len(a) + i \in 1..Len(a \o b) /\ (a \o b)[Len(a) + i] = b[i]
  <2>1. Len(a) + i \in 1..(Len(a) + Len(b)) /\ ~(Len(a) + i <= Len(a)) /\ (Len(a) + i) - Len(a) = i
    BY <1>1
  <2> QED BY <1>1, <1>2, <2>1
<1> QED BY <1>3, <1>4

\* The list of an outcome has every hook of the outcome and every "ensure" hook.
LEMMA EndingHooks ==
  ASSUME mode.hooked, NEW when \in Whens, NEW w \in {when, "ensure"}, Hooks["job"][w] # <<>>
  PROVE  \E i \in 1..Len(Ending(when)) : Ending(when)[i].when = w
<1>1. PICK a \in Seq(HookType), b \in Seq(HookType) :
        /\ a = HookList("job", when) /\ b = HookList("job", "ensure")
        /\ Len(a) = Len(Hooks["job"][when]) /\ Len(b) = Len(Hooks["job"]["ensure"])
        /\ \A i \in 1..Len(a) : a[i].when = when
        /\ \A i \in 1..Len(b) : b[i].when = "ensure"
        /\ Hooks["job"][when] \in Seq(HookKinds) /\ Hooks["job"]["ensure"] \in Seq(HookKinds)
  BY HookListType DEF Whens
<1>2. Ending(when) = a \o b
  BY <1>1 DEF Ending
<1>3. /\ \A i \in 1..Len(a) : i \in 1..Len(a \o b) /\ (a \o b)[i] = a[i]
      /\ \A i \in 1..Len(b) : Len(a) + i \in 1..Len(a \o b) /\ (a \o b)[Len(a) + i] = b[i]
  BY ConcatIndex
<1>4. CASE w = when
  <2>1. 1 \in 1..Len(a)
    BY <1>1, <1>4, EmptySeq
  <2>2. 1 \in 1..Len(a \o b) /\ (a \o b)[1].when = w
    BY <1>1, <1>3, <1>4, <2>1
  <2> QED BY <1>2, <2>2
<1>5. CASE w = "ensure"
  <2>1. 1 \in 1..Len(b)
    BY <1>1, <1>5, EmptySeq
  <2>2. Len(a) + 1 \in 1..Len(a \o b) /\ (a \o b)[Len(a) + 1].when = w
    <3>1. b[1].when = w
      BY <1>1, <1>5, <2>1
    <3> QED BY <1>3, <2>1, <3>1
  <2> QED BY <1>2, <2>2
<1> QED BY <1>4, <1>5

\* The hooks that the outcome calls for have run, or will.
LEMMA HooksInductive ==
  /\ Init => HooksDue
  /\ Shape /\ HooksDue /\ [Next]_vars => HooksDue'
<1>1. ASSUME Init PROVE HooksDue
  BY <1>1 DEF Init, HooksDue
<1>2. ASSUME Shape, HooksDue, [Next]_vars PROVE HooksDue'
  <2>1. TypeOK /\ lost \in Nat /\ (lost' = 0 => lost = 0)
    BY <1>2, LostStep DEF Shape, TypeOK
  <2>2. ASSUME NEW when \in Whens, Concludes(when), UNCHANGED mode PROVE HooksDue'
    <3>1. pc' = "tail" /\ tail' = Ending(when) /\ verdict' = when
      BY <2>2 DEF Concludes
    <3>2. \A w \in {when, "ensure"} :
            mode.hooked /\ Hooks["job"][w] # <<>> => \E i \in 1..Len(tail') : tail'[i].when = w
      BY <3>1, EndingHooks
    <3> QED BY <2>2, <3>1, <3>2 DEF HooksDue
  <2>3. CASE PlanMove
    <3>1. pc \in {"claimed", "plan"} /\ pc' \in {"plan", "stop"} /\ verdict' = verdict
      BY <1>2, <2>1, <2>3, PlanMoves, PlanReports
    <3> QED BY <1>2, <3>1 DEF HooksDue
  <2>4. CASE Early \/ (\E n \in Services : StopService(n)) \/ ServicesDone
    <3>1. pc \in {"claimed", "stop"} /\ verdict' = verdict
      BY <2>4 DEF Early, ReadFails, FailEarly, DeleteEarly, FailSecrets, StopService, ServicesDone,
                  History
    <3> QED BY <1>2, <3>1 DEF HooksDue
  <2>5. CASE TimedOut \/ Cancelled \/ Failed
    <3>1. UNCHANGED mode /\ (Concludes("on_cancel") \/ Concludes("on_failure"))
      BY <2>5 DEF TimedOut, Cancelled, Failed, Main
    <3> QED BY <2>2, <3>1 DEF Whens
  <2>6. CASE Succeeded
    <3>1. /\ UNCHANGED mode /\ pc = "decide"
          /\ \/ Concludes("on_failure") \/ Concludes("on_success")
             \/ pc' = "end" /\ UNCHANGED <<tail, verdict>>
      BY <2>6 DEF Succeeded, Main
    <3> QED BY <1>2, <2>2, <3>1 DEF Whens, HooksDue
  <2>7. CASE RunJobHook
    <3>1. PICK ok \in BOOLEAN, good \in BOOLEAN :
            /\ ran' = IF working THEN ran \cup {<<"job", Head(tail).when>>} ELSE ran
            /\ Save(status', rec, ok)
            /\ tail' = IF ~ok /\ Head(tail).kind = "runner" THEN DropList(tail) ELSE Tail(tail)
      BY <2>7 DEF RunJobHook
    <3>2. pc = "tail" /\ tail # <<>> /\ UNCHANGED <<mode, pc, working, verdict>>
      BY <2>7 DEF RunJobHook, Main
    <3>3. lost' = 0 => tail' = Tail(tail)
      BY <2>1, <3>1 DEF Save
    <3>4. /\ tail \in Seq(HookType) /\ Head(tail) = tail[1] /\ Len(tail) \in Nat
          /\ Len(Tail(tail)) = Len(tail) - 1
          /\ \A i \in 1..Len(tail) : i = 1 \/ (i - 1 \in 1..Len(Tail(tail)) /\ Tail(tail)[i - 1] = tail[i])
      <4>1. tail \in Seq(HookType)
        BY <2>1 DEF TypeOK, HookType
      <4>2. /\ Head(tail) = tail[1] /\ Len(tail) \in Nat /\ Len(Tail(tail)) = Len(tail) - 1
            /\ \A i \in 1..Len(Tail(tail)) : Tail(tail)[i] = tail[i + 1]
        BY <3>2, <4>1, HeadTailProperties
      <4> QED BY <4>1, <4>2
    <3>5. ASSUME NEW w, working, lost' = 0,
                 <<"job", w>> \in ran \/ \E i \in 1..Len(tail) : tail[i].when = w
          PROVE  <<"job", w>> \in ran' \/ \E i \in 1..Len(tail') : tail'[i].when = w
      BY <3>1, <3>3, <3>4, <3>5
    <3> QED BY <1>2, <2>1, <3>2, <3>5 DEF HooksDue
  <2>8. CASE RunAutoNotifications
    <3>1. pc = "tail" /\ pc' = "end" /\ tail = <<>> /\ UNCHANGED <<mode, tail, working, ran, verdict>>
      BY <2>8 DEF RunAutoNotifications, Main, History
    <3> QED BY <1>2, <2>1, <3>1 DEF HooksDue
  <2>9. CASE Around
    <3>1. UNCHANGED <<mode, pc, tail, ran, verdict, lost>> /\ (working' => working)
      BY <2>9, AroundSteps DEF Job, Main, History
    <3> QED BY <1>2, <3>1 DEF HooksDue
  <2> QED BY <1>2, <2>3, <2>4, <2>5, <2>6, <2>7, <2>8, <2>9, Steppings
<1> QED BY <1>1, <1>2

\* The job's hooks for the outcome and its "ensure" hooks have run when processJob
\* returns, while the worker works and its reports get through.
THEOREM HooksRunCorrect == Spec => []HooksRun
<1>1. TypeOK /\ HooksDue => HooksRun
  BY DEF HooksDue, HooksRun
<1>2. Shape => TypeOK
  BY DEF Shape
<1> QED BY <1>1, <1>2, ShapeInductive, HooksInductive, PTL DEF Spec

-----------------------------------------------------------------------------
(* fail_fast.                                                              *)

\* A context that is done stays so, that of a block too.
LEMMA CutStep ==
  ASSUME [Next]_vars
  PROVE  cut \subseteq cut' /\ (ctx # "live" => ctx' # "live")
<1>1. CASE Early \/ Around
  <2>1. CASE Early
    BY <2>1 DEF Early, ReadFails, FailEarly, DeleteEarly, FailSecrets
  <2>2. CASE Around
    BY <2>2, AroundSteps DEF Job
  <2> QED BY <1>1, <2>1, <2>2
<1>2. ASSUME NEW n \in Names, Works(n) PROVE UNCHANGED <<cut, ctx>>
  BY <1>2 DEF Works, Skip, NoVersion, NoInput, Begin, PutTrigger, Enter, Progress, Retry, CommandFails,
              CommandSucceeds, Ready, NotReady, RunHook
<1>3. ASSUME NEW n \in Names, NEW p \in Parallels, Abandon(p, n) \/ ReturnBranch(p, n)
      PROVE  cut \subseteq cut' /\ ctx' = ctx
  BY <1>3 DEF Abandon, ReturnBranch, Cut
<1>4. CASE \/ StartPlan \/ NextStep \/ NextParallel \/ NextIf \/ NextIfFails \/ EndIf \/ JoinParallel
           \/ EndPlan \/ \E n \in Names : Return(n)
  BY <1>4 DEF StartPlan, NextStep, NextParallel, NextIf, NextIfFails, EndIf, JoinParallel, EndPlan,
              Return
<1>5. CASE \/ (\E n \in Services : StopService(n)) \/ ServicesDone
           \/ TimedOut \/ Cancelled \/ Succeeded \/ Failed \/ RunJobHook \/ RunAutoNotifications
  BY <1>5 DEF StopService, ServicesDone, TimedOut, Cancelled, Succeeded, Failed, RunJobHook,
              RunAutoNotifications
<1> QED BY <1>1, <1>2, <1>3, <1>4, <1>5, Steppings DEF PlanMove

\* What becomes of a member of an in_parallel block: if it ends in a failure the
\* block is cut off or the job's context is done, and it begins in a live context.
LEMMA MemberStep ==
  ASSUME Shape, [Next]_vars, NEW p \in Parallels, NEW m \in Members[p]
  PROVE  /\ fr'[m].at = "done" /\ fr'[m].failed =>
              (fr[m].at = "done" /\ fr[m].failed) \/ (p \in FailFast => p \in cut') \/ ctx # "live"
         /\ fr[m].at = "ready" /\ fr'[m].at = "in" => Live(m)
<1> DEFINE Kept ==
             /\ fr'[m].at = "done" /\ fr'[m].failed =>
                  (fr[m].at = "done" /\ fr[m].failed) \/ (p \in FailFast => p \in cut') \/ ctx # "live"
             /\ fr[m].at = "ready" /\ fr'[m].at = "in" => Live(m)
<1>1. /\ fr \in [Names -> Frame] /\ branch \in Ifs \cup {None} /\ cur \in Names \cup {None}
      /\ None \notin Names /\ None \notin Ifs /\ None \notin Parallels
      /\ ActiveOK /\ PlaceOK /\ TypeOK /\ agenda \in Seq(Names)
  BY ShapeTypes DEF Shape
<1>2. /\ m \in Names /\ m \notin Parallels /\ m \notin Ifs /\ m # None
      /\ ~Own(m) /\ \A q \in Ifs : ~InBranch(m, q)
  BY NameFacts
<1>3. m # cur /\ m # branch
  BY <1>1, <1>2 DEF PlaceOK
<1>4. ASSUME fr'[m] = fr[m] PROVE Kept
  BY <1>4
<1>5. CASE StartPlan \/ EndPlan
  BY <1>4, <1>5 DEF StartPlan, EndPlan
<1>6. CASE NextStep \/ NextParallel \/ NextIf \/ NextIfFails
  <2>1. agenda # <<>>
    BY <1>6 DEF NextStep, NextParallel, NextIf, NextIfFails
  <2>2. PICK x \in Names : x = Head(agenda)
    BY <1>1, <2>1, HeadTail
  <2>3. m # x
    BY <1>1, <1>2, <2>1, <2>2, HeadTail DEF PlaceOK
  <2>4. CASE NextStep \/ NextIf \/ NextIfFails
    BY <1>1, <1>2, <1>4, <2>2, <2>3, <2>4 DEF NextStep, NextIf, NextIfFails
  <2>5. CASE NextParallel
    <3>1. fr'[m] = [fr[m] EXCEPT !.at = "ready"] \/ fr'[m] = fr[m]
      BY <1>1, <1>2, <2>2, <2>3, <2>5 DEF NextParallel
    <3>2. fr'[m].at = "ready" \/ fr'[m] = fr[m]
      BY <1>1, <1>2, <3>1 DEF Frame
    <3> QED BY <3>2
  <2> QED BY <1>6, <2>4, <2>5
<1>7. CASE EndIf \/ JoinParallel
  BY <1>1, <1>2, <1>3, <1>4, <1>7 DEF EndIf, JoinParallel
<1>8. ASSUME NEW n \in Names, Works(n) PROVE Kept
  <2>1. CASE n # m
    BY <1>1, <1>2, <1>4, <1>8, <2>1, WorksStep
  <2>2. CASE n = m
    <3>1. Active(m)' /\ (fr'[m].at = "in" => Live(m))
      BY <1>1, <1>8, <2>2, WorksStep
    <3> QED BY <3>1 DEF Active
  <2> QED BY <2>1, <2>2
<1>9. ASSUME NEW n \in Names, Return(n) PROVE Kept
  <2>1. fr'[m] = fr[m]
    BY <1>2, <1>3, <1>9 DEF Return
  <2> QED BY <1>4, <2>1
<1>10. ASSUME NEW n \in Names, NEW r \in Parallels, Abandon(r, n) \/ ReturnBranch(r, n) PROVE Kept
  <2>1. CASE n # m
    BY <1>1, <1>2, <1>4, <1>10, <2>1 DEF Abandon, ReturnBranch
  <2>2. CASE n = m
    <3>1. r = p
      BY <1>10, <2>2, NamesAssumption DEF Abandon, ReturnBranch
    <3>2. fr'[m].at = "done"
      BY <1>1, <1>2, <1>10, <2>2 DEF Abandon, ReturnBranch, Frame
    <3>3. CASE Abandon(r, n)
      <4>1. ctx # "live" \/ p \in cut
        BY <2>2, <3>3, NamesAssumption DEF Abandon, Live
      <4> QED BY <3>2, <4>1, CutStep
    <3>4. CASE ReturnBranch(r, n)
      <4>1. fr'[m].failed = fr[m].failed /\ cut' = Cut(p, m)
        BY <1>1, <1>2, <2>2, <3>1, <3>4 DEF ReturnBranch, Frame
      <4> QED BY <3>2, <4>1 DEF Cut
    <3> QED BY <1>10, <3>3, <3>4
  <2> QED BY <2>1, <2>2
<1>11. CASE Outside \/ UNCHANGED vars
  BY <1>4, <1>11 DEF Outside, vars
<1> QED BY <1>5, <1>6, <1>7, <1>8, <1>9, <1>10, <1>11, Moves

\* A failure of a member of a fail_fast block cuts the block off.
LEMMA CutsInductive ==
  /\ Init => FailureCuts
  /\ Shape /\ FailureCuts /\ [Next]_vars => FailureCuts'
<1>1. ASSUME Init PROVE FailureCuts
  <2>1. \A n \in Names : fr[n].at = "off"
    BY <1>1 DEF Init, Off
  <2> QED BY <2>1, NameFacts, JobAssumptions DEF FailureCuts
<1>2. ASSUME Shape, FailureCuts, [Next]_vars PROVE FailureCuts'
  <2>1. FailFast \subseteq Parallels
    BY JobAssumptions
  <2> QED BY <1>2, <2>1, MemberStep, CutStep DEF FailureCuts
<1> QED BY <1>1, <1>2

\* Once a branch of a fail_fast block has failed no other branch of it begins,
\* though each waits for its place in the semaphore in a goroutine of its own.
THEOREM FailFastCorrect == Spec => FailFastHolds
<1> DEFINE Begins == \A p \in FailFast : \A m, n \in Members[p] :
             fr[m].at = "done" /\ fr[m].failed /\ fr[n].at = "ready" => fr'[n].at # "in"
<1>1. ASSUME Shape, FailureCuts, [Next]_vars PROVE [Begins]_vars
  <2>1. FailFast \subseteq Parallels
    BY JobAssumptions
  <2>2. Begins
    BY <1>1, <2>1, MemberStep DEF FailureCuts, Live
  <2> QED BY <2>2
<1> QED BY <1>1, ShapeInductive, CutsInductive, PTL DEF Spec, FailFastHolds

-----------------------------------------------------------------------------
(* The steps in the row.                                                   *)

\* The records of the steps: a step that is recorded as running is at work.
RunsRecorded == \A n \in Names : rec[n] = "started" => fr[n].at = "run"

\* What a step at work records and reports: its own record, which says that it
\* runs only while it does.  A step of a block may leave its end to the block.
LEMMA WorkRecords ==
  ASSUME TypeOK, RunsRecorded, NEW n \in Names, Works(n)
  PROVE  /\ \A m \in Names \ {n} : rec'[m] = rec[m]
         /\ rec'[n] = "started" => fr'[n].at = "run"
         /\ lost' = 0 => \/ saved' = rec'
                         \/ saved' = saved /\ (~Own(n) \/ (rec[n] = "started" => rec'[n] = "started"))
<1>1. fr \in [Names -> Frame] /\ rec \in [Names -> StepStatus]
  BY DEF TypeOK
<1>2. rec[n] = "started" => fr[n].at = "run"
  BY DEF RunsRecorded
<1>3. ASSUME NEW st, NEW steps, NEW ok \in BOOLEAN, Save(st, steps, ok) PROVE lost' = 0 => saved' = steps
  BY <1>3, SaveFacts
<1>4. ASSUME NEW steps, NEW ok \in BOOLEAN, Fail(n, steps, ok) \/ FailCopy(n, steps, ok)
      PROVE  lost' = 0 => saved' = steps \/ (saved' = saved /\ ~Own(n))
  BY <1>3, <1>4 DEF Fail, FailCopy, NoSave
<1>5. CASE Skip(n) \/ (\E p \in Parallels : Enter(p, n)) \/ Retry(n)
  <2>1. saved' = saved
    BY <1>5 DEF Skip, Enter, Retry, NoSave
  <2>2. CASE Skip(n)
    BY <1>1, <1>2, <2>1, <2>2 DEF Skip
  <2>3. CASE \E p \in Parallels : Enter(p, n)
    BY <1>1, <1>2, <2>1, <2>3 DEF Enter
  <2>4. CASE Retry(n)
    BY <1>1, <1>2, <2>1, <2>4 DEF Retry, NextTry, Frame
  <2> QED BY <1>5, <2>2, <2>3, <2>4
<1>6. CASE NoVersion(n)
  BY <1>1, <1>2, <1>4, <1>6 DEF NoVersion
<1>7. CASE NoInput(n)
  BY <1>1, <1>2, <1>4, <1>7 DEF NoInput
<1>8. CASE Begin(n)
  <2>1. rec' = [rec EXCEPT ![n] = "started"] /\ fr'[n].at = "run"
    BY <1>1, <1>8 DEF Begin, Frame
  <2>2. lost' = 0 => saved' = rec'
    BY <1>3, <1>8 DEF Begin
  <2> QED BY <1>1, <2>1, <2>2
<1>9. ASSUME NEW created \in BOOLEAN, PutTrigger(n, created)
      PROVE  /\ rec' \in {[rec EXCEPT ![n] = "succeeded"], [rec EXCEPT ![n] = "failed"]}
             /\ lost' = 0 => saved' = rec' \/ (saved' = saved /\ ~Own(n))
  BY <1>3, <1>4, <1>9 DEF PutTrigger
<1>10. CASE Progress(n)
  BY <1>1, <1>2, <1>3, <1>10 DEF Progress
<1>11. CASE CommandFails(n)
  <2>1. rec' = [rec EXCEPT ![n] = "failed"]
    BY <1>11 DEF CommandFails, RecordFailure
  <2>2. lost' = 0 => saved' = rec' \/ (saved' = saved /\ ~Own(n))
    BY <1>4, <1>11 DEF CommandFails
  <2> QED BY <1>1, <2>1, <2>2
<1>12. CASE CommandSucceeds(n)
  <2>1. rec' = [rec EXCEPT ![n] = "succeeded"]
    BY <1>12 DEF CommandSucceeds
  <2>2. lost' = 0 => saved' = rec'
    BY <1>3, <1>12 DEF CommandSucceeds
  <2> QED BY <1>1, <2>1, <2>2
<1>13. CASE Ready(n) \/ NotReady(n)
  <2>1. fr[n].at = "probe" /\ rec' = rec
    BY <1>13 DEF Ready, NotReady
  <2>2. lost' = 0 => saved' = rec' \/ (saved' = saved /\ ~Own(n))
    BY <1>3, <1>4, <1>13, <2>1 DEF Ready, NotReady
  <2> QED BY <1>2, <2>1, <2>2
<1>14. CASE RunHook(n)
  <2>1. fr[n].at = "hooks" /\ rec' = rec
    BY <1>14 DEF RunHook
  <2>2. lost' = 0 => saved' = rec' \/ (saved' = saved /\ ~Own(n))
    BY <1>3, <1>4, <1>14, <2>1 DEF RunHook
  <2> QED BY <1>2, <2>1, <2>2
<1>15. CASE \E created \in BOOLEAN : PutTrigger(n, created)
  <2>1. /\ rec' \in {[rec EXCEPT ![n] = "succeeded"], [rec EXCEPT ![n] = "failed"]}
        /\ lost' = 0 => saved' = rec' \/ (saved' = saved /\ ~Own(n))
    BY <1>9, <1>15
  <2> QED BY <1>1, <2>1
<1> QED BY <1>5, <1>6, <1>7, <1>8, <1>10, <1>11, <1>12, <1>13, <1>14, <1>15 DEF Works

\* Records and reports follow what the steps do.
LEMMA RecordedInductive ==
  /\ Init => StepsRecorded
  /\ Shape /\ StepsRecorded /\ [Next]_vars => StepsRecorded'
<1>1. ASSUME Init PROVE StepsRecorded
  BY <1>1 DEF Init, StepsRecorded
<1>2. ASSUME Shape, StepsRecorded, [Next]_vars PROVE StepsRecorded'
  <2>1. /\ fr \in [Names -> Frame] /\ branch \in Ifs \cup {None} /\ cur \in Names \cup {None}
        /\ None \notin Names /\ None \notin Ifs /\ None \notin Parallels
        /\ ActiveOK /\ PlaceOK /\ TypeOK /\ agenda \in Seq(Names)
        /\ rec \in [Names -> StepStatus] /\ saved \in [Names -> StepStatus]
    BY <1>2, ShapeTypes DEF Shape
  <2>2. RunsRecorded /\ (lost' = 0 => lost = 0)
    BY <1>2, <2>1, LostStep DEF StepsRecorded, RunsRecorded
  <2>3. ASSUME NEW st, NEW steps, NEW ok \in BOOLEAN, Save(st, steps, ok)
        PROVE  lost' = 0 => saved' = steps
    BY <2>1, <2>3, SaveFacts
  <2>4. ASSUME UNCHANGED rec, \A n \in Names : fr[n].at = "run" => fr'[n].at = "run",
               UNCHANGED <<branch, cur>>, lost' = 0 => saved' \in {saved, rec}
        PROVE  StepsRecorded'
    <3>1. Waiting(cur) => Waiting(cur)'
      BY <2>4, NameFacts DEF Waiting
    <3> QED BY <1>2, <2>2, <2>4, <3>1 DEF StepsRecorded
  <2>5. ASSUME RunsRecorded', lost' = 0 => saved' = rec' PROVE StepsRecorded'
    BY <2>5 DEF StepsRecorded, RunsRecorded
  <2>6. CASE StartPlan \/ EndPlan
    BY <2>4, <2>6 DEF StartPlan, EndPlan, NoSave, Main
  <2>7. CASE NextStep \/ NextParallel \/ NextIf \/ NextIfFails
    <3>1. agenda # <<>> /\ cur = None /\ pc = "plan"
      BY <2>7 DEF NextStep, NextParallel, NextIf, NextIfFails
    <3>2. PICK x \in Names : x = Head(agenda)
      BY <2>1, <3>1, HeadTail
    <3>3. \A n \in Names : rec[n] = "started" => n = branch
      BY <2>1, <2>2, <3>1 DEF RunsRecorded, ActiveOK, Active, Waiting
    <3>4. CASE NextStep
      <4>1. x \notin Ifs /\ UNCHANGED <<rec, saved, branch>> /\ fr' = [fr EXCEPT ![x].at = "in"]
        BY <3>2, <3>4, NamesAssumption DEF NextStep, NoSave
      <4>2. \A n \in Names \ {x} : fr'[n] = fr[n]
        BY <2>1, <4>1
      <4>3. rec[x] # "started"
        BY <2>1, <3>2, <3>3, <4>1, NameFacts
      <4> QED BY <1>2, <2>1, <2>2, <3>1, <4>1, <4>2, <4>3 DEF StepsRecorded, RunsRecorded, Waiting
    <3>5. CASE NextParallel
      <4>1. /\ x \in Parallels
            /\ fr' = [n \in Names |-> IF n = x THEN [fr[n] EXCEPT !.at = "run"]
                                      ELSE IF n \in Members[x] THEN [fr[n] EXCEPT !.at = "ready"]
                                      ELSE fr[n]]
            /\ rec' = [n \in Names |-> IF n = x THEN "started"
                                       ELSE IF n \in Members[x] THEN "pending" ELSE rec[n]]
        BY <3>2, <3>5 DEF NextParallel
      <4>2. fr'[x].at = "run" /\ \A n \in Names : n # x /\ n \notin Members[x] => fr'[n] = fr[n]
        BY <2>1, <4>1 DEF Frame
      <4>3. RunsRecorded'
        BY <2>2, <4>1, <4>2 DEF RunsRecorded
      <4>4. lost' = 0 => saved' = rec'
        BY <2>3, <3>5 DEF NextParallel
      <4> QED BY <2>5, <4>3, <4>4
    <3>6. CASE NextIf
      <4>1. rec' = [rec EXCEPT ![x] = "started"] /\ fr' = [fr EXCEPT ![x].at = "run"]
        BY <3>2, <3>6 DEF NextIf
      <4>2. fr'[x].at = "run" /\ \A n \in Names \ {x} : fr'[n] = fr[n]
        BY <2>1, <4>1 DEF Frame
      <4>3. RunsRecorded'
        BY <2>1, <2>2, <4>1, <4>2 DEF RunsRecorded
      <4>4. lost' = 0 => saved' = rec'
        BY <2>3, <3>6 DEF NextIf
      <4> QED BY <2>5, <4>3, <4>4
    <3>7. CASE NextIfFails
      <4>1. branch = None /\ Own(x)
        BY <2>1, <3>1, <3>2, <3>7, TopIf, HeadTail DEF NextIfFails, PlaceOK
      <4>2. /\ cur' = x /\ rec' = [rec EXCEPT ![x] = "failed"]
            /\ fr' = [fr EXCEPT ![x] = Returned(x, TRUE)]
        BY <3>2, <3>7 DEF NextIfFails
      <4>3. PICK ok \in BOOLEAN : FailCopy(cur', rec', ok)
        BY <3>7 DEF NextIfFails
      <4>4. Own(cur')
        BY <4>1, <4>2 DEF Own
      <4>5. lost' = 0 => saved' = rec'
        BY <2>3, <4>3, <4>4 DEF FailCopy
      <4>6. RunsRecorded'
        BY <2>1, <2>2, <4>2 DEF RunsRecorded
      <4> QED BY <2>5, <4>5, <4>6
    <3> QED BY <2>7, <3>4, <3>5, <3>6, <3>7
  <2>8. CASE EndIf \/ JoinParallel
    <3>1. PICK q \in Names : /\ rec' \in {[rec EXCEPT ![q] = "succeeded"], [rec EXCEPT ![q] = "failed"]}
                             /\ \E ok \in BOOLEAN : fr' = [fr EXCEPT ![q] = Finished(q, ok)]
      <4>1. CASE EndIf
        <5>1. branch \in Names
          BY <2>1, <4>1, NameFacts DEF EndIf
        <5> QED BY <4>1, <5>1 DEF EndIf
      <4>2. CASE JoinParallel
        <5>1. cur \in Names /\ AllSucceeded(cur) \in BOOLEAN
          BY <4>2, NameFacts DEF JoinParallel, AllSucceeded
        <5> QED BY <4>2, <5>1 DEF JoinParallel
      <4> QED BY <2>8, <4>1, <4>2
    <3>2. lost' = 0 => saved' = rec'
      BY <2>3, <2>8 DEF EndIf, JoinParallel
    <3>3. RunsRecorded'
      BY <2>1, <2>2, <3>1 DEF RunsRecorded
    <3> QED BY <2>5, <3>2, <3>3
  <2>9. ASSUME NEW n \in Names, Works(n) PROVE StepsRecorded'
    <3>1. /\ \A m \in Names \ {n} : rec'[m] = rec[m]
          /\ rec'[n] = "started" => fr'[n].at = "run"
          /\ lost' = 0 => \/ saved' = rec'
                          \/ saved' = saved /\ (~Own(n) \/ (rec[n] = "started" => rec'[n] = "started"))
      BY <2>1, <2>2, <2>9, WorkRecords
    <3>2. UNCHANGED <<branch, cur>> /\ (\A m \in Names \ {n} : fr'[m] = fr[m]) /\ Active(n)
      BY <2>1, <2>9, WorksStep
    <3>3. Waiting(cur)' <=> Waiting(cur)
      BY <1>2, <2>9, ShapeWorks
    <3>4. RunsRecorded'
      BY <2>2, <3>1, <3>2 DEF RunsRecorded
    <3>5. ~Own(n) => branch # None \/ Waiting(cur)
      BY <1>2, <2>1, <2>9, <3>2, ActivePlan, WorksNotBranch, NameFacts DEF PlaceOK
    <3>6. CASE lost' = 0 /\ saved' = saved
      BY <1>2, <2>2, <3>1, <3>2, <3>3, <3>4, <3>5, <3>6 DEF StepsRecorded, RunsRecorded
    <3>7. CASE lost' = 0 => saved' = rec'
      BY <2>5, <3>4, <3>7
    <3> QED BY <3>1, <3>6, <3>7
  <2>10. ASSUME NEW n \in Names, Return(n) PROVE StepsRecorded'
    <3>1. /\ n = cur /\ cur' = None /\ fr[n].at = "hooks" /\ UNCHANGED <<branch, rec, saved>>
          /\ fr' = [m \in Names |-> IF m = n THEN [fr[m] EXCEPT !.at = "done"]
                                    ELSE IF fr[n].failed /\ m = branch
                                         THEN [fr[m] EXCEPT !.failed = TRUE]
                                    ELSE fr[m]]
      BY <2>10 DEF Return, NoSave
    <3>2. \A m \in Names \ {n} : fr'[m].at = fr[m].at
      BY <2>1, <3>1 DEF Frame
    <3>3. ~Waiting(cur)
      BY <3>1 DEF Waiting
    <3> QED BY <1>2, <2>2, <3>1, <3>2, <3>3 DEF StepsRecorded, RunsRecorded
  <2>11. ASSUME NEW n \in Names, NEW p \in Parallels, Abandon(p, n) \/ ReturnBranch(p, n)
         PROVE  StepsRecorded'
    <3>1. UNCHANGED <<rec, branch, cur>> /\ \A m \in Names \ {n} : fr'[m] = fr[m]
      BY <2>1, <2>11 DEF Abandon, ReturnBranch, Main
    <3>2. fr[n].at # "run"
      BY <2>11 DEF Abandon, ReturnBranch
    <3>3. lost' = 0 => saved' \in {saved, rec}
      BY <2>3, <2>11 DEF Abandon, ReturnBranch, NoSave
    <3> QED BY <2>4, <3>1, <3>2, <3>3
  <2>12. CASE \/ Early \/ Around \/ (\E n \in Services : StopService(n)) \/ ServicesDone
              \/ TimedOut \/ Cancelled \/ Succeeded \/ Failed \/ RunJobHook \/ RunAutoNotifications
    <3>1. UNCHANGED <<rec, fr, branch, cur>> /\ (lost' = 0 => saved' \in {saved, rec})
      <4>1. CASE Early
        BY <2>3, <4>1 DEF Early, ReadFails, FailEarly, DeleteEarly, FailSecrets, Main
      <4>2. CASE Around
        BY <4>2, AroundSteps DEF Job, Main
      <4>3. CASE (\E n \in Services : StopService(n)) \/ ServicesDone
        BY <2>3, <4>3 DEF StopService, ServicesDone, NoSave, Main
      <4>4. CASE TimedOut \/ Cancelled \/ Succeeded \/ Failed
        BY <2>3, <4>4 DEF TimedOut, Cancelled, Succeeded, Failed, NoSave, Main
      <4>5. CASE RunJobHook \/ RunAutoNotifications
        BY <2>3, <4>5 DEF RunJobHook, RunAutoNotifications, NoSave, Main
      <4> QED BY <2>12, <4>1, <4>2, <4>3, <4>4, <4>5
    <3> QED BY <2>4, <3>1
  <2> QED BY <1>2, <2>6, <2>7, <2>8, <2>9, <2>10, <2>11, <2>12, Steppings DEF PlanMove
<1> QED BY <1>1, <1>2

\* No step of a finished build is left as running in its row, though the steps of
\* a block do not report their own ends.
THEOREM StepsSettledCorrect == Spec => []StepsSettled
<1>1. ASSUME Shape, StepsRecorded PROVE StepsSettled
  <2>1. SUFFICES ASSUME pc = "end", lost = 0, NEW n \in Names, saved[n] = "started" PROVE FALSE
    BY DEF StepsSettled
  <2>2. cur = None /\ branch = None /\ ~Waiting(cur)
    BY <1>1, <2>1, ShapeTypes DEF Shape, ActiveOK, Waiting
  <2>3. Active(n)
    BY <1>1, <2>1, <2>2 DEF StepsRecorded, Active
  <2> QED BY <1>1, <2>1, <2>3, ActivePlan
<1> QED BY <1>1, ShapeInductive, RecordedInductive, PTL DEF Spec

-----------------------------------------------------------------------------
(* The order of the plan.                                                  *)

\* The lists of the plan hold no step twice.
LEMMA ListFacts ==
  /\ \A s, t \in Lists : \A i \in 1..Len(s) : \A k \in 1..Len(t) : s[i] = t[k] => s = t /\ i = k
  /\ Plan \in Lists /\ \A q \in Ifs : Branches[q] \subseteq Lists
  /\ Lists \subseteq Seq(Names)
  /\ \A p \in Parallels : \A n \in Members[p] : \A s \in Lists : \A i \in 1..Len(s) : s[i] # n
  /\ \A q \in Ifs : Own(q) => Plan \notin Branches[q]
<1>1. Plan \in Lists /\ \A q \in Ifs : Branches[q] \subseteq Lists
  BY DEF Lists
<1>2. Lists \subseteq Seq(Names)
  <2>1. Steps \cup Services \cup Parallels \subseteq Names
    BY DEF Names
  <2>2. Seq(Steps \cup Services \cup Parallels) \subseteq Seq(Names)
    BY <2>1, SeqMonotonic
  <2>3. Plan \in Seq(Names) /\ \A q \in Ifs : Branches[q] \subseteq Seq(Steps \cup Services \cup Parallels)
    BY JobAssumptions
  <2> QED BY <2>2, <2>3 DEF Lists
<1>3. ASSUME NEW q \in Ifs, Own(q) PROVE Plan \notin Branches[q]
  <2>1. SUFFICES ASSUME Plan \in Branches[q] PROVE FALSE
    OBVIOUS
  <2>2. InBranch(q, q)
    BY <1>3, <2>1 DEF Own, InBranch, In
  <2> QED BY <2>2, NameFacts
<1> QED BY <1>1, <1>2, <1>3, NamesAssumption

\* For the order of a list nothing changes at n.
Same(n) ==
  /\ fr'[n].at = "off" <=> fr[n].at = "off"
  /\ Stopper(n)' => Stopper(n)
  /\ Broken(n)' => Broken(n)

\* What is left of a list stays so.
LEMMA LeftKept ==
  ASSUME NEW s \in Seq(Names), NEW list \in Seq(Names), LeftOf(s, list),
         \A i \in 1..Len(list) : Same(list[i])
  PROVE  LeftOf(s, list)'
<1>1. PICK d \in 0..Len(list) : d + Len(s) = Len(list) /\ \A i \in 1..Len(s) : s[i] = list[d + i]
  BY DEF LeftOf, Suffix
<1>2. ASSUME NEW i \in 1..Len(s) PROVE fr'[s[i]].at = "off"
  <2>1. d + i \in 1..Len(list) /\ s[i] = list[d + i] /\ fr[s[i]].at = "off"
    BY <1>1 DEF LeftOf
  <2> QED BY <2>1 DEF Same
<1>3. s # <<>> => \A i \in 1..Len(list) : ~Broken(list[i])'
  BY DEF LeftOf, Same
<1> QED BY <1>2, <1>3 DEF LeftOf

\* So does the order.
LEMMA OrderKept ==
  ASSUME Shape, InOrder, UNCHANGED <<agenda, rest, branch>>,
         pc' = "claimed" => pc = "claimed" /\ fr' = fr,
         \A list \in Lists : \A i \in 1..Len(list) : Same(list[i])
  PROVE  InOrder'
<1>1. /\ agenda \in Seq(Names) /\ rest \in Seq(Names) /\ branch \in Ifs \cup {None}
  BY ShapeTypes DEF Shape
<1>2. PICK s \in Seq(Names), t \in Seq(Names) : s = agenda /\ t = rest
  BY <1>1
<1>3. s = agenda' /\ t = rest'
  BY <1>2
<1>4. ASSUME NEW list \in Lists PROVE Ordered(list)'
  BY ListFacts DEF InOrder, Ordered, Same
<1>5. ASSUME branch = None PROVE LeftOf(agenda, Plan)'
  <2>1. LeftOf(s, Plan)
    BY <1>2, <1>5 DEF InOrder
  <2>2. LeftOf(s, Plan)'
    BY <2>1, ListFacts, LeftKept
  <2> QED BY <1>3, <2>2 DEF LeftOf
<1>6. ASSUME branch # None
      PROVE  /\ LeftOf(rest, Plan)'
             /\ \E list \in Branches[branch] \cup {<<>>} : LeftOf(agenda, list)'
  <2>1. PICK list \in Branches[branch] \cup {<<>>} : LeftOf(s, list)
    BY <1>2, <1>6 DEF InOrder
  <2>2. LeftOf(t, Plan)
    BY <1>2, <1>6 DEF InOrder
  <2>3. LeftOf(t, Plan)'
    BY <2>2, ListFacts, LeftKept
  <2>4. list \in Seq(Names) /\ \A i \in 1..Len(list) : Same(list[i])
    <3>1. CASE list = <<>>
      BY <3>1
    <3>2. CASE list # <<>>
      BY <1>1, <1>6, <2>1, <3>2, ListFacts
    <3> QED BY <3>1, <3>2
  <2>5. LeftOf(s, list)'
    BY <2>1, <2>4, LeftKept
  <2> QED BY <1>3, <2>1, <2>3, <2>5 DEF LeftOf
<1>7. ASSUME NEW q \in Ifs, Own(q), fr'[q].at = "off", NEW list \in Branches[q], NEW i \in 1..Len(list)
      PROVE  fr'[list[i]].at = "off"
  <2>1. fr[q].at = "off"
    BY <1>7, ListFacts DEF Own, Same
  <2>2. fr[list[i]].at = "off"
    BY <1>7, <2>1 DEF InOrder
  <2> QED BY <2>2, ListFacts DEF Same
<1>8. pc' = "claimed" => \A n \in Names : fr'[n].at = "off"
  BY DEF InOrder
<1>9. branch' = branch
  OBVIOUS
<1> QED BY <1>4, <1>5, <1>6, <1>7, <1>8, <1>9 DEF InOrder, Own

\* The first of what is left of a list begins.
LEMMA OrderBegin ==
  ASSUME NEW x \in Names, NEW s \in Seq(Names), NEW list \in Lists,
         s # <<>>, Head(s) = x, LeftOf(s, list),
         \A M \in Lists : Ordered(M),
         \A M \in Lists : \A i \in 1..Len(M) : M[i] # x => fr'[M[i]] = fr[M[i]],
         fr'[x].at \notin {"off", "done"},
         \A i \in 1..Len(list) : ~Active(list[i])
  PROVE  /\ \A M \in Lists : Ordered(M)'
         /\ LeftOf(Tail(s), list)'
         /\ \E k \in 1..Len(list) : list[k] = x
         /\ \A M \in Lists \ {list} : \A i \in 1..Len(M) : M[i] # x /\ Same(M[i])
<1>1. PICK d \in 0..Len(list) : d + Len(s) = Len(list) /\ \A i \in 1..Len(s) : s[i] = list[d + i]
  BY DEF LeftOf, Suffix
<1>2. /\ list \in Seq(Names) /\ Len(list) \in Nat /\ Len(s) \in Nat \ {0}
      /\ Tail(s) \in Seq(Names) /\ Len(Tail(s)) = Len(s) - 1 /\ s[1] = x
      /\ \A i \in 1..Len(Tail(s)) : Tail(s)[i] = s[i + 1]
  BY ListFacts, HeadTailProperties
<1>3. PICK k \in 1..Len(list) : k = d + 1
  BY <1>1, <1>2
<1>4. list[k] = x
  BY <1>1, <1>2, <1>3
<1>5. \A i \in 1..Len(list) : i # k => list[i] # x
  BY <1>4, ListFacts
<1>6. \A M \in Lists \ {list} : \A i \in 1..Len(M) : M[i] # x
  BY <1>4, ListFacts
<1>7. ASSUME NEW M \in Lists \ {list}, NEW i \in 1..Len(M) PROVE M[i] # x /\ Same(M[i])
  <2>1. M[i] # x /\ fr'[M[i]] = fr[M[i]]
    BY <1>6
  <2> QED BY <2>1 DEF Same, Stopper, Broken
<1>8. ASSUME NEW M \in Lists \ {list} PROVE Ordered(M)'
  BY <1>7 DEF Ordered, Same
<1>9. ASSUME NEW i \in 1..Len(list), i > k PROVE fr[list[i]].at = "off"
  <2>1. i - d \in 1..Len(s) /\ d + (i - d) = i
    BY <1>1, <1>2, <1>3, <1>9
  <2>2. s[i - d] = list[i]
    BY <1>1, <2>1
  <2> QED BY <2>1, <2>2 DEF LeftOf
<1>10. \A i \in 1..Len(list) : i # k => fr'[list[i]] = fr[list[i]] /\ ~Stopper(list[i])
  BY <1>5 DEF LeftOf, Stopper, Broken, Active
<1>11. Ordered(list)'
  <2>1. ASSUME NEW i \in 1..Len(list), NEW j \in 1..Len(list), i < j, Stopper(list[i])'
        PROVE  fr'[list[j]].at = "off"
    <3>1. i = k
      BY <1>10, <2>1 DEF Stopper
    <3>2. j > k /\ j # k
      BY <2>1, <3>1
    <3> QED BY <1>9, <1>10, <3>2
  <2> QED BY <2>1 DEF Ordered
<1>12. LeftOf(Tail(s), list)'
  <2>1. Suffix(Tail(s), list)
    <3>1. k \in 0..Len(list) /\ k + Len(Tail(s)) = Len(list)
      BY <1>1, <1>2, <1>3
    <3>2. \A i \in 1..Len(Tail(s)) : Tail(s)[i] = list[k + i]
      BY <1>1, <1>2, <1>3
    <3> QED BY <3>1, <3>2 DEF Suffix
  <2>2. ASSUME NEW i \in 1..Len(Tail(s)) PROVE fr'[Tail(s)[i]].at = "off"
    <3>1. k + i \in 1..Len(list) /\ k + i > k /\ k + i # k /\ Tail(s)[i] = list[k + i]
      BY <1>1, <1>2, <1>3
    <3> QED BY <1>9, <1>10, <3>1
  <2>3. ASSUME NEW i \in 1..Len(list) PROVE ~Broken(list[i])'
    <3>1. CASE i = k
      BY <1>4, <3>1 DEF Broken
    <3>2. CASE i # k
      BY <1>10, <3>2 DEF LeftOf, Broken
    <3> QED BY <3>1, <3>2
  <2> QED BY <2>1, <2>2, <2>3 DEF LeftOf
<1> QED BY <1>4, <1>7, <1>8, <1>11, <1>12

\* The next step or block begins.
LEMMA OrderNext ==
  ASSUME Shape, InOrder, NextStep \/ NextParallel \/ NextIf \/ NextIfFails
  PROVE  InOrder'
<1>1. /\ fr \in [Names -> Frame] /\ agenda \in Seq(Names) /\ rest \in Seq(Names)
      /\ branch \in Ifs \cup {None} /\ cur \in Names \cup {None}
      /\ None \notin Names /\ None \notin Ifs /\ None \notin Parallels
      /\ ActiveOK /\ PlaceOK /\ TypeOK
  BY ShapeTypes DEF Shape
<1>2. agenda # <<>> /\ pc = "plan" /\ cur = None /\ pc' = "plan"
  BY DEF NextStep, NextParallel, NextIf, NextIfFails
<1>3. PICK s \in Seq(Names), t \in Seq(Names) : s = agenda /\ t = rest
  BY <1>1
<1>4. PICK x \in Names : x = Head(s)
  BY <1>2, <1>3, HeadTail
<1>5. PICK list \in Lists : /\ LeftOf(s, list)
                            /\ branch = None => list = Plan
                            /\ branch # None => list \in Branches[branch]
  <2>1. CASE branch = None
    BY <1>3, <2>1, ListFacts DEF InOrder
  <2>2. CASE branch # None
    <3>1. PICK list \in Branches[branch] \cup {<<>>} : LeftOf(s, list)
      BY <1>3, <2>2 DEF InOrder
    <3>2. list # <<>>
      <4>1. Len(s) \in Nat \ {0}
        BY <1>2, <1>3, HeadTailProperties
      <4> QED BY <3>1, <4>1 DEF LeftOf, Suffix
    <3> QED BY <1>1, <2>2, <3>1, <3>2, ListFacts
  <2> QED BY <2>1, <2>2
<1>6. \A i \in 1..Len(list) : ~Active(list[i])
  <2>1. ASSUME NEW i \in 1..Len(list), Active(list[i]) PROVE FALSE
    <3>1. list[i] \in Names
      BY ListFacts
    <3>2. list[i] = branch /\ branch # None
      BY <1>1, <1>2, <2>1, <3>1 DEF ActiveOK, Waiting
    <3>3. InBranch(branch, branch)
      BY <1>5, <3>2 DEF InBranch, In
    <3> QED BY <1>1, <3>2, <3>3, NameFacts
  <2> QED BY <2>1
<1>7. branch # None => list # Plan
  BY <1>1, <1>5, ListFacts DEF PlaceOK
<1>8. ASSUME fr'[x].at \notin {"off", "done"},
             \A M \in Lists : \A i \in 1..Len(M) : M[i] # x => fr'[M[i]] = fr[M[i]]
      PROVE  /\ \A M \in Lists : Ordered(M)'
             /\ LeftOf(Tail(s), list)'
             /\ \E k \in 1..Len(list) : list[k] = x
             /\ \A M \in Lists \ {list} : \A i \in 1..Len(M) : M[i] # x /\ Same(M[i])
  BY <1>2, <1>3, <1>4, <1>5, <1>6, <1>8, OrderBegin DEF InOrder
<1>9. ASSUME fr'[x].at \notin {"off", "done"},
             \A M \in Lists : \A i \in 1..Len(M) : M[i] # x => fr'[M[i]] = fr[M[i]]
      PROVE  \A q \in Ifs : Own(q) /\ fr'[q].at = "off" =>
               \A l \in Branches[q] : \A i \in 1..Len(l) : fr'[l[i]].at = "off" /\ fr[l[i]].at = "off"
  <2>1. SUFFICES ASSUME NEW q \in Ifs, Own(q), fr'[q].at = "off",
                        NEW l \in Branches[q], NEW i \in 1..Len(l)
                 PROVE  fr'[l[i]].at = "off" /\ fr[l[i]].at = "off"
    OBVIOUS
  <2>2. q # x /\ fr[q].at = "off"
    BY <1>9, <2>1, ListFacts DEF Own
  <2>3. fr[l[i]].at = "off"
    BY <2>1, <2>2 DEF InOrder
  <2>4. l # list
    <3>1. SUFFICES ASSUME l = list PROVE FALSE
      OBVIOUS
    <3>2. CASE branch = None
      BY <1>5, <2>1, <3>1, <3>2, ListFacts
    <3>3. CASE branch # None
      <4>1. list # <<>>
        BY <1>8, <1>9
      <4>2. q = branch
        BY <1>1, <1>5, <2>1, <3>1, <3>3, <4>1, NamesAssumption
      <4> QED BY <1>1, <2>2, <3>3, <4>2 DEF ActiveOK
    <3> QED BY <3>2, <3>3
  <2>5. l \in Lists
    BY <2>1, ListFacts
  <2>6. l[i] # x
    BY <1>8, <1>9, <2>4, <2>5
  <2> QED BY <1>9, <2>3, <2>5, <2>6
<1>10. CASE NextStep \/ NextParallel \/ NextIfFails
  <2>1. /\ agenda' = Tail(s) /\ rest' = t /\ branch' = branch
    BY <1>3, <1>10 DEF NextStep, NextParallel, NextIfFails
  <2>2. fr'[x].at \notin {"off", "done"}
    <3>1. CASE NextStep
      <4>1. fr' = [fr EXCEPT ![x].at = "in"]
        BY <1>3, <1>4, <3>1 DEF NextStep
      <4> QED BY <1>1, <4>1 DEF Frame
    <3>2. CASE NextIfFails
      <4>1. fr' = [fr EXCEPT ![x] = Returned(x, TRUE)]
        BY <1>3, <1>4, <3>2 DEF NextIfFails
      <4> QED BY <1>1, <4>1 DEF Frame, Returned
    <3>3. CASE NextParallel
      <4>1. fr'[x] = [fr[x] EXCEPT !.at = "run"]
        BY <1>3, <1>4, <3>3 DEF NextParallel
      <4> QED BY <1>1, <4>1 DEF Frame
    <3> QED BY <1>10, <3>1, <3>2, <3>3
  <2>3. \A M \in Lists : \A i \in 1..Len(M) : M[i] # x => fr'[M[i]] = fr[M[i]]
    <3>1. ASSUME NEW M \in Lists, NEW i \in 1..Len(M), M[i] # x PROVE fr'[M[i]] = fr[M[i]]
      <4>1. M[i] \in Names /\ \A p \in Parallels : M[i] \notin Members[p]
        BY ListFacts
      <4> QED BY <1>1, <1>3, <1>4, <1>10, <3>1, <4>1 DEF NextStep, NextParallel, NextIfFails
    <3> QED BY <3>1
  <2>4. /\ \A M \in Lists : Ordered(M)'
        /\ LeftOf(Tail(s), list)'
        /\ \A M \in Lists \ {list} : \A i \in 1..Len(M) : Same(M[i])
    BY <1>8, <2>2, <2>3
  <2>5. branch = None => LeftOf(agenda, Plan)'
    BY <1>5, <2>1, <2>4 DEF LeftOf
  <2>6. branch # None => LeftOf(rest, Plan)'
    <3>1. SUFFICES ASSUME branch # None PROVE LeftOf(rest, Plan)'
      OBVIOUS
    <3>2. LeftOf(t, Plan) /\ Plan \in Seq(Names) /\ \A i \in 1..Len(Plan) : Same(Plan[i])
      BY <1>3, <1>7, <2>4, <3>1, ListFacts DEF InOrder
    <3>3. LeftOf(t, Plan)'
      BY <3>2, LeftKept
    <3> QED BY <2>1, <3>3 DEF LeftOf
  <2>7. branch # None => LeftOf(agenda, list)'
    BY <2>1, <2>4 DEF LeftOf
  <2>8. \A q \in Ifs : Own(q) /\ fr'[q].at = "off" =>
          \A l \in Branches[q] : \A i \in 1..Len(l) : fr'[l[i]].at = "off"
    BY <1>9, <2>2, <2>3
  <2> QED BY <1>2, <1>5, <2>1, <2>4, <2>5, <2>6, <2>7, <2>8 DEF InOrder, Own
<1>11. CASE NextIf
  <2>1. x \in Ifs /\ branch = None /\ Own(x) /\ list = Plan
    BY <1>1, <1>2, <1>3, <1>4, <1>5, <1>11, TopIf, HeadTail DEF NextIf, PlaceOK
  <2>2. PICK steps \in Branches[x] \cup {<<>>} : agenda' = steps
    BY <1>3, <1>4, <1>11 DEF NextIf
  <2>3. branch' = x /\ rest' = Tail(s) /\ fr' = [fr EXCEPT ![x].at = "run"]
    BY <1>3, <1>4, <1>11 DEF NextIf
  <2>4. fr'[x].at = "run" /\ \A n \in Names \ {x} : fr'[n] = fr[n]
    BY <1>1, <2>3 DEF Frame
  <2>5. \A M \in Lists : \A i \in 1..Len(M) : M[i] # x => fr'[M[i]] = fr[M[i]]
    BY <2>4, ListFacts
  <2>6. /\ \A M \in Lists : Ordered(M)'
        /\ LeftOf(Tail(s), Plan)'
    BY <1>8, <2>1, <2>4, <2>5
  <2>7. fr[x].at = "off"
    BY <1>2, <1>3, <1>4, <1>5, HeadTail DEF LeftOf
  <2>8. \A i \in 1..Len(steps) : steps[i] \in Names /\ fr'[steps[i]].at = "off"
    <3>1. CASE steps = <<>>
      BY <3>1
    <3>2. CASE steps \in Branches[x]
      <4>1. \A i \in 1..Len(steps) : steps[i] \in Names /\ fr[steps[i]].at = "off"
        BY <2>1, <2>7, <3>2, ListFacts DEF InOrder
      <4>2. \A i \in 1..Len(steps) : steps[i] # x
        BY <2>1, <3>2, NameFacts DEF InBranch, In
      <4> QED BY <2>4, <4>1, <4>2
    <3> QED BY <2>2, <3>1, <3>2
  <2>9. LeftOf(steps, steps)'
    <3>1. steps \in Seq(Names)
      BY <2>1, <2>2, ListFacts, EmptySeq
    <3>2. Suffix(steps, steps)
      <4>1. 0 \in 0..Len(steps) /\ 0 + Len(steps) = Len(steps) /\ \A i \in 1..Len(steps) : 0 + i = i
        BY <3>1
      <4> QED BY <4>1 DEF Suffix
    <3> QED BY <2>8, <3>2 DEF LeftOf, Broken
  <2>10. LeftOf(rest, Plan)' /\ \E l \in (Branches[branch])' \cup {<<>>} : LeftOf(agenda, l)'
    <3>1. LeftOf(rest, Plan)'
      BY <2>3, <2>6 DEF LeftOf
    <3>2. LeftOf(agenda, steps)'
      BY <2>2, <2>9 DEF LeftOf
    <3> QED BY <2>2, <2>3, <3>1, <3>2
  <2>11. \A q \in Ifs : Own(q) /\ fr'[q].at = "off" =>
           \A l \in Branches[q] : \A i \in 1..Len(l) : fr'[l[i]].at = "off"
    BY <1>9, <2>4, <2>5
  <2>12. branch' # None
    BY <1>1, <2>1, <2>3
  <2> QED BY <1>2, <2>6, <2>10, <2>11, <2>12 DEF InOrder, Own
<1> QED BY <1>10, <1>11

\* Nothing may be left of a list.
LEMMA NothingLeft == ASSUME NEW list \in Seq(Names) PROVE Suffix(<<>>, list)
<1>1. Len(list) \in Nat /\ Len(<<>>) = 0 /\ 1..Len(<<>>) = {}
  OBVIOUS
<1>2. Len(list) \in 0..Len(list) /\ Len(list) + Len(<<>>) = Len(list)
  BY <1>1
<1>3. \A i \in 1..Len(<<>>) : <<>>[i] = list[Len(list) + i]
  BY <1>1
<1> QED BY <1>2, <1>3 DEF Suffix

\* A step or block of the plan or of a branch ends.
LEMMA OrderEnd ==
  ASSUME Shape, InOrder, EndIf \/ \E n \in Names : Return(n)
  PROVE  InOrder'
<1>1. /\ fr \in [Names -> Frame] /\ agenda \in Seq(Names) /\ rest \in Seq(Names)
      /\ branch \in Ifs \cup {None} /\ cur \in Names \cup {None}
      /\ None \notin Names /\ None \notin Ifs /\ None \notin Parallels
      /\ ActiveOK /\ PlaceOK /\ TypeOK
  BY ShapeTypes DEF Shape
<1>2. PICK s \in Seq(Names), t \in Seq(Names) : s = agenda /\ t = rest
  BY <1>1
<1>3. ASSUME \A n \in Names : (fr'[n].at = "off" <=> fr[n].at = "off") /\ (Stopper(n)' => Stopper(n))
      PROVE  /\ \A list \in Lists : Ordered(list)'
             /\ \A q \in Ifs : Own(q) /\ fr'[q].at = "off" =>
                  \A list \in Branches[q] : \A i \in 1..Len(list) : fr'[list[i]].at = "off"
  <2>1. ASSUME NEW list \in Lists PROVE Ordered(list)'
    BY <1>3, ListFacts DEF InOrder, Ordered
  <2>2. \A q \in Ifs : \A list \in Branches[q] : \A i \in 1..Len(list) : list[i] \in Names
    BY ListFacts
  <2> QED BY <1>3, <2>1, <2>2, NameFacts DEF InOrder
<1>4. CASE EndIf
  <2>1. PICK q \in Ifs : q = branch
    BY <1>1, <1>4 DEF EndIf
  <2>2. /\ branch' = None /\ agenda' = t /\ pc' = "plan"
        /\ fr' = [fr EXCEPT ![q] = Finished(q, ~fr[q].failed)]
    BY <1>2, <1>4, <2>1 DEF EndIf
  <2>3. fr'[q].at = "hooks" /\ fr[q].at = "run" /\ \A n \in Names \ {q} : fr'[n] = fr[n]
    BY <1>1, <2>1, <2>2, NameFacts DEF Finished, Frame, ActiveOK
  <2>4. \A n \in Names : Same(n)
    BY <2>3 DEF Same, Stopper, Broken
  <2>5. LeftOf(t, Plan) /\ Plan \in Seq(Names) /\ \A i \in 1..Len(Plan) : Same(Plan[i])
    BY <1>1, <1>2, <2>1, <2>4, ListFacts DEF InOrder
  <2>6. LeftOf(t, Plan)'
    BY <2>5, LeftKept
  <2>7. LeftOf(agenda, Plan)'
    BY <2>2, <2>6 DEF LeftOf
  <2>8. /\ \A list \in Lists : Ordered(list)'
        /\ \A r \in Ifs : Own(r) /\ fr'[r].at = "off" =>
             \A list \in Branches[r] : \A i \in 1..Len(list) : fr'[list[i]].at = "off"
    BY <1>3, <2>4 DEF Same
  <2> QED BY <2>2, <2>7, <2>8 DEF InOrder, Own
<1>5. ASSUME NEW n \in Names, Return(n) PROVE InOrder'
  <2>1. /\ n = cur /\ fr[n].at = "hooks" /\ UNCHANGED <<pc, branch>> /\ rest' = t
        /\ fr[n].failed => agenda' = <<>>
        /\ ~fr[n].failed => agenda' = s
        /\ fr' = [m \in Names |-> IF m = n THEN [fr[m] EXCEPT !.at = "done"]
                                  ELSE IF fr[n].failed /\ m = branch
                                       THEN [fr[m] EXCEPT !.failed = TRUE]
                                  ELSE fr[m]]
    BY <1>2, <1>5 DEF Return, Remaining
  <2>2. fr'[n].at = "done" /\ fr'[n].failed = fr[n].failed /\ \A m \in Names \ {n} : fr'[m].at = fr[m].at
    BY <1>1, <2>1 DEF Frame
  <2>3. branch # None => fr[branch].at = "run" /\ branch # n
    BY <1>1, <2>1 DEF ActiveOK
  <2>4. \A m \in Names \ {n} : m = branch \/ fr'[m] = fr[m]
    BY <2>1
  <2>5. \A m \in Names \ {n} : Same(m)
    BY <1>1, <2>2, <2>3, <2>4 DEF Same, Stopper, Broken
  <2>6. /\ fr'[n].at = "off" <=> fr[n].at = "off"
        /\ Stopper(n)' => Stopper(n)
        /\ Broken(n)' => fr[n].failed
    BY <2>1, <2>2 DEF Stopper, Broken
  <2>7. /\ \A list \in Lists : Ordered(list)'
        /\ \A q \in Ifs : Own(q) /\ fr'[q].at = "off" =>
             \A list \in Branches[q] : \A i \in 1..Len(list) : fr'[list[i]].at = "off"
    BY <1>3, <2>5, <2>6 DEF Same
  <2>8. pc' = "plan"
    <3>1. Active(n)
      BY <2>1 DEF Active
    <3> QED BY <2>1, <3>1, ActivePlan
  <2>9. ASSUME NEW list \in Seq(Names), LeftOf(s, list) PROVE LeftOf(agenda, list)'
    <3>1. CASE fr[n].failed
      <4>1. Suffix(<<>>, list)
        BY NothingLeft
      <4> QED BY <2>1, <3>1, <4>1 DEF LeftOf
    <3>2. CASE ~fr[n].failed
      <4>1. Same(n)
        BY <2>6, <3>2 DEF Same
      <4>2. \A i \in 1..Len(list) : Same(list[i])
        BY <2>5, <2>9, <4>1
      <4>3. LeftOf(s, list)'
        BY <2>9, <4>2, LeftKept
      <4> QED BY <2>1, <3>2, <4>3 DEF LeftOf
    <3> QED BY <3>1, <3>2
  <2>10. ASSUME branch # None PROVE LeftOf(rest, Plan)'
    <3>1. \A i \in 1..Len(Plan) : Plan[i] # n
      <4>1. PICK list \in Branches[branch] : \E i \in 1..Len(list) : list[i] = n
        BY <1>1, <2>1, <2>10 DEF PlaceOK, InBranch, In
      <4>2. list \in Lists /\ list # Plan
        BY <1>1, <2>10, <4>1, ListFacts DEF PlaceOK
      <4> QED BY <4>1, <4>2, ListFacts
    <3>2. LeftOf(t, Plan) /\ Plan \in Seq(Names) /\ \A i \in 1..Len(Plan) : Same(Plan[i])
      BY <1>2, <2>5, <2>10, <3>1, ListFacts DEF InOrder
    <3>3. LeftOf(t, Plan)'
      BY <3>2, LeftKept
    <3> QED BY <2>1, <3>3 DEF LeftOf
  <2>11. branch = None => LeftOf(agenda, Plan)'
    BY <1>2, <2>9, ListFacts DEF InOrder
  <2>12. branch # None => \E list \in Branches[branch] \cup {<<>>} : LeftOf(agenda, list)'
    <3>1. SUFFICES ASSUME branch # None
                   PROVE  \E list \in Branches[branch] \cup {<<>>} : LeftOf(agenda, list)'
      OBVIOUS
    <3>2. PICK list \in Branches[branch] \cup {<<>>} : LeftOf(s, list)
      BY <1>2, <3>1 DEF InOrder
    <3>3. list \in Seq(Names)
      <4>1. CASE list = <<>>
        BY <4>1, EmptySeq
      <4>2. CASE list # <<>>
        BY <1>1, <3>1, <3>2, <4>2, ListFacts
      <4> QED BY <4>1, <4>2
    <3> QED BY <2>9, <3>2, <3>3
  <2> QED BY <2>1, <2>7, <2>8, <2>10, <2>11, <2>12 DEF InOrder, Own
<1> QED BY <1>4, <1>5

\* The plan and the branches are worked off in order, and no further than a failure.
LEMMA OrderInductive ==
  /\ Init => InOrder
  /\ Shape /\ InOrder /\ [Next]_vars => InOrder'
<1>1. ASSUME Init PROVE InOrder
  <2>1. branch = None /\ agenda = <<>> /\ \A n \in Names : fr[n].at = "off"
    BY <1>1 DEF Init, Off
  <2>2. Suffix(<<>>, Plan)
    BY ListFacts, NothingLeft
  <2>3. LeftOf(<<>>, Plan)
    BY <2>2 DEF LeftOf
  <2>4. \A list \in Lists : Ordered(list)
    BY <2>1, ListFacts DEF Ordered, Stopper
  <2>5. \A q \in Ifs : \A list \in Branches[q] : \A i \in 1..Len(list) : fr[list[i]].at = "off"
    BY <2>1, ListFacts
  <2> QED BY <2>1, <2>3, <2>4, <2>5 DEF InOrder
<1>2. ASSUME Shape, InOrder, [Next]_vars PROVE InOrder'
  <2>1. /\ fr \in [Names -> Frame] /\ branch \in Ifs \cup {None} /\ cur \in Names \cup {None}
        /\ None \notin Names /\ ActiveOK /\ TypeOK
    BY <1>2, ShapeTypes DEF Shape
  <2>2. \A list \in Lists : \A i \in 1..Len(list) : list[i] \in Names
    BY ListFacts
  <2>3. CASE StartPlan
    <3>1. /\ pc = "claimed" /\ pc' = "plan" /\ agenda' = Plan /\ UNCHANGED <<branch, fr>>
      BY <2>3 DEF StartPlan
    <3>2. branch = None /\ \A n \in Names : fr[n].at = "off"
      BY <1>2, <2>1, <3>1 DEF ActiveOK, InOrder
    <3>3. Suffix(Plan, Plan)
      <4>1. Plan \in Seq(Names)
        BY ListFacts
      <4>2. 0 \in 0..Len(Plan) /\ 0 + Len(Plan) = Len(Plan) /\ \A i \in 1..Len(Plan) : 0 + i = i
        BY <4>1
      <4> QED BY <4>2 DEF Suffix
    <3>4. LeftOf(agenda, Plan)'
      BY <2>2, <3>1, <3>2, <3>3, ListFacts DEF LeftOf, Broken
    <3>5. \A list \in Lists : Ordered(list)'
      BY <1>2, <3>1 DEF InOrder, Ordered, Stopper
    <3> QED BY <1>2, <3>1, <3>2, <3>4, <3>5 DEF InOrder, Own
  <2>4. CASE EndPlan
    <3>1. UNCHANGED <<agenda, rest, branch, fr>> /\ pc' = "stop"
      BY <2>4 DEF EndPlan, Main
    <3> QED BY <1>2, <3>1, OrderKept DEF Same, Stopper, Broken
  <2>5. CASE JoinParallel
    <3>1. PICK p \in Parallels : p = cur
      BY <2>5 DEF JoinParallel
    <3>2. /\ UNCHANGED <<agenda, rest, branch>> /\ pc' = "plan" /\ fr[p].at = "run" /\ p \in Names
          /\ fr' = [fr EXCEPT ![p] = Finished(p, AllSucceeded(p))]
      BY <2>5, <3>1, NameFacts DEF JoinParallel, Main
    <3>3. fr'[p].at = "hooks" /\ \A n \in Names \ {p} : fr'[n] = fr[n]
      BY <2>1, <3>2 DEF Finished, Frame
    <3>4. \A n \in Names : Same(n)
      BY <3>2, <3>3 DEF Same, Stopper, Broken
    <3> QED BY <1>2, <2>2, <3>2, <3>4, OrderKept
  <2>6. ASSUME NEW n \in Names, Works(n) PROVE InOrder'
    <3>1. /\ UNCHANGED <<pc, agenda, rest, branch>> /\ \A m \in Names \ {n} : fr'[m] = fr[m]
          /\ Active(n) /\ Active(n)'
      BY <2>1, <2>6, WorksStep
    <3>2. \A m \in Names : Same(m)
      BY <3>1 DEF Same, Stopper, Broken, Active
    <3>3. pc' # "claimed"
      BY <1>2, <3>1, ActivePlan
    <3> QED BY <1>2, <2>2, <3>1, <3>2, <3>3, OrderKept
  <2>7. ASSUME NEW n \in Names, NEW p \in Parallels, Abandon(p, n) \/ ReturnBranch(p, n) PROVE InOrder'
    <3>1. /\ UNCHANGED <<pc, agenda, rest, branch>> /\ (\A m \in Names \ {n} : fr'[m] = fr[m])
          /\ n \in Members[p] /\ Active(n)
      BY <2>1, <2>7 DEF Abandon, ReturnBranch, Main, Active
    <3>2. \A list \in Lists : \A i \in 1..Len(list) : Same(list[i])
      BY <2>2, <3>1, ListFacts DEF Same, Stopper, Broken
    <3>3. pc' # "claimed"
      BY <1>2, <3>1, ActivePlan
    <3> QED BY <1>2, <3>1, <3>2, <3>3, OrderKept
  <2>8. CASE Outside \/ UNCHANGED vars
    <3>1. UNCHANGED <<agenda, rest, branch, fr>> /\ (pc' = "claimed" => pc = "claimed")
      BY <2>8 DEF Outside, vars
    <3> QED BY <1>2, <3>1, OrderKept DEF Same, Stopper, Broken
  <2> QED BY <1>2, <2>3, <2>4, <2>5, <2>6, <2>7, <2>8, Moves, OrderNext, OrderEnd
<1> QED BY <1>1, <1>2

\* After a step that fails no later step of the plan, or of its branch, begins,
\* whatever blocks the plan nests.
THEOREM FailureStopsCorrect == Spec => []FailureStops
<1>1. ASSUME InOrder PROVE FailureStops
  <2>1. Plan \in Lists /\ \A q \in Ifs : Branches[q] \subseteq Lists
    BY ListFacts
  <2>2. \A list \in Lists : \A i, k \in 1..Len(list) :
          i < k /\ fr[list[i]].at = "done" /\ fr[list[i]].failed => fr[list[k]].at = "off"
    BY <1>1 DEF InOrder, Ordered, Stopper
  <2> QED BY <2>1, <2>2 DEF FailureStops
<1> QED BY <1>1, ShapeInductive, OrderInductive, PTL DEF Spec
=============================================================================
