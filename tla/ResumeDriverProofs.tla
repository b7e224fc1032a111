------------------------- MODULE ResumeDriverProofs -------------------------
(* What a run keeps for any number of hosts, crashes, answers and tasks.   *)
(* The plane's own invariants come from PlaneProofs: a host only ever      *)
(* takes steps of the plane, so they hold throughout.                      *)
EXTENDS ResumeDriver, PlaneProofs, SequenceTheorems

\* The plane's part of the argument.
PlaneInv == DurablePrefix /\ ResumeInv

-----------------------------------------------------------------------------
(* The calls a host still has to make.                                     *)

\* After a crash the host replays exactly the durable prefix.
LEMMA ReplayIsPrefix ==
  ASSUME TypeOK, DurablePrefix
  PROVE  /\ Recover(ckpts) - 1 = frontier[Root]
         /\ frontier[Root] \in 0 .. MaxTask
         /\ Root \in BranchKey
BY RecoverIsFrontier, PlaneAssumption DEF TypeOK, BranchKey

\* The branch a fork of the interrupt is given.
LEMMA ForkBranch ==
  ASSUME RunTypeOK, NEW h \in Host, NEW v \in Value, ForkResume(h, v)
  PROVE  LET b == ForkKey(Interrupt, Len(interrupts[Interrupt].recorded))
         IN  /\ ResumeDecision(Interrupt, v, "ExplicitCheckpoint")[2] = b
             /\ b \in BranchKey
             /\ Fork(Interrupt, v)
             /\ branch_value' = [branch_value EXCEPT ![b] = v]
             /\ branch_value'[b] = v
<1> USE PlaneAssumption, DriverAssumption
<1>1. ResumeDecision(Interrupt, v, "ExplicitCheckpoint") =
        << "ServeSupplied", ForkKey(Interrupt, Len(interrupts[Interrupt].recorded)) >>
  BY DEF ResumeDecision, NextOrdinal
<1>2. Fork(Interrupt, v)
  BY <1>1 DEF ForkResume, ResolveResume
<1>3. Len(interrupts[Interrupt].recorded) \in 0 .. MaxResumes - 1
  <2>1. interrupts[Interrupt] \in InterruptState
    BY DEF RunTypeOK, TypeOK
  <2>2. interrupts[Interrupt].recorded \in Seq(Value)
    BY <2>1 DEF InterruptState
  <2>3. Len(interrupts[Interrupt].recorded) \in Nat
    BY <2>2, LenProperties
  <2>4. Len(interrupts[Interrupt].recorded) < MaxResumes
    BY <1>2 DEF Fork, NextOrdinal, RecordAnswer
  <2> QED
    BY <2>3, <2>4
<1>4. ForkKey(Interrupt, Len(interrupts[Interrupt].recorded)) \in BranchKey
  BY <1>3, ForkKeyIsBranch
<1> QED
  BY <1>1, <1>2, <1>4 DEF Fork, NextOrdinal, RecordAnswer, RunTypeOK, TypeOK

\* Where a call on a host's list comes from.
LEMMA TodoStep ==
  ASSUME RunTypeOK, PlaneInv, [RunNext]_runVars,
         NEW h \in Host, NEW i \in DOMAIN todo'[h]
  PROVE  \/ \E j \in DOMAIN todo[h] : todo'[h][i] = todo[h][j]
         \/ StartTask(h) /\ todo'[h][i] \in {Effect(Root, pc[h] + 1), Commit(pc[h] + 1)}
         \/ \E v \in Value :
              LET b == ForkKey(Interrupt, Len(interrupts[Interrupt].recorded))
              IN  /\ ForkResume(h, v)
                  /\ todo'[h][i] \in {Outcome(b, v), Effect(b, InterruptTask)}
         \/ /\ Crash(h)
            /\ i \in 1 .. frontier[Root]
            /\ todo'[h][i] = Effect(Root, i)
         \/ SubmitInvalid(h) /\ todo'[h][i] = Invalid(frontier[Root] + 1)
         \/ todo'[h][i] = CompleteCall
<1> USE DEF RunTypeOK
<1> DEFINE Old == \E j \in DOMAIN todo[h] : todo'[h][i] = todo[h][j]
<1>1. CASE todo'[h] = todo[h]
  BY <1>1
<1>2. CASE todo[h] # << >> /\ todo'[h] = Tail(todo[h])
  <2>1. /\ i \in 1 .. Len(Tail(todo[h])) /\ Tail(todo[h])[i] = todo[h][i + 1]
        /\ Len(Tail(todo[h])) = Len(todo[h]) - 1 /\ Len(todo[h]) \in Nat
    <3>1. todo[h] \in Seq(PlaneCall)
      OBVIOUS
    <3>2. /\ Tail(todo[h]) \in Seq(PlaneCall)
          /\ Len(Tail(todo[h])) = Len(todo[h]) - 1
          /\ \A k \in 1 .. Len(Tail(todo[h])) : Tail(todo[h])[k] = todo[h][k + 1]
      BY <1>2, <3>1, HeadTailProperties
    <3>3. DOMAIN Tail(todo[h]) = 1 .. Len(Tail(todo[h])) /\ Len(todo[h]) \in Nat
      BY <3>1, <3>2, LenProperties
    <3> QED
      BY <1>2, <3>2, <3>3
  <2>2. i + 1 \in DOMAIN todo[h]
    BY <2>1
  <2> QED
    BY <1>2, <2>1, <2>2
<1>3. CASE StartTask(h)
  <2>1. todo'[h] = << Effect(Root, pc[h] + 1), Commit(pc[h] + 1) >>
    BY <1>3 DEF StartTask
  <2>2. i \in 1 .. 2
    BY <2>1
  <2> QED
    BY <1>3, <2>1, <2>2
<1>4. ASSUME NEW v \in Value, ForkResume(h, v)
      PROVE  LET b == ForkKey(Interrupt, Len(interrupts[Interrupt].recorded))
             IN  todo'[h][i] \in {Outcome(b, v), Effect(b, InterruptTask)}
  <2> DEFINE b == ForkKey(Interrupt, Len(interrupts[Interrupt].recorded))
  <2>1. todo'[h] = << Outcome(b, v), Effect(b, InterruptTask), Effect(b, InterruptTask) >>
    BY <1>4, ForkBranch DEF ForkResume
  <2>2. i \in 1 .. 3
    BY <2>1
  <2> QED
    BY <2>1, <2>2
<1>5. CASE Crash(h)
  <2>1. todo'[h] = [t \in 1 .. frontier[Root] |-> Effect(Root, t)]
    BY <1>5, ReplayIsPrefix DEF Crash, PlaneInv
  <2> QED
    BY <1>5, <2>1
<1>6. CASE CallCommitCheckpoint(h)
  <2>1. todo'[h] = << >> \/ todo'[h] = << CompleteCall >>
    BY <1>6 DEF CallCommitCheckpoint
  <2> QED
    BY <2>1
<1>7. CASE CallBeginEffect(h) \/ CallComplete(h) \/ CallOutcome(h) \/ CallCommitInvalid(h)
  <2>1. todo[h] # << >> /\ todo'[h] = Tail(todo[h])
    BY <1>7 DEF CallBeginEffect, CallComplete, CallOutcome, CallCommitInvalid, Calls
  <2> QED
    BY <1>2, <2>1
<1>8. ASSUME NEW g \in Host, g # h,
             Work(g) \/ Crash(g) \/ SubmitInvalid(g) \/ \E v \in Value : ForkResume(g, v)
      PROVE  todo'[h] = todo[h]
  BY <1>8 DEF Work, StartTask, Park, CallBeginEffect, Perform, CallCommitCheckpoint,
              CallComplete, CallOutcome, CallCommitInvalid, Crash, SubmitInvalid, ForkResume
<1>9. ASSUME NEW g \in Host,
             \/ Park(g) \/ Perform(g)
             \/ \E v \in Value : OrdinaryResume(g, v)
      PROVE  todo'[h] = todo[h]
  BY <1>9 DEF Park, Perform, OrdinaryResume, hostVars
<1>10. CASE UNCHANGED runVars
  BY <1>1, <1>10 DEF runVars, hostVars
<1>11. CASE SubmitInvalid(h)
  <2>1. todo'[h] = << Invalid(frontier[Root] + 1) >>
    BY <1>11 DEF SubmitInvalid
  <2> QED
    BY <1>11, <2>1
<1> QED
  BY <1>1, <1>3, <1>4, <1>5, <1>6, <1>7, <1>8, <1>9, <1>10, <1>11 DEF RunNext, Work

\* The head of a host's list, by the name of its call.
LEMMA HeadCall ==
  ASSUME RunTypeOK, NEW h \in Host, todo[h] # << >>
  PROVE  /\ Head(todo[h]) = todo[h][1]
         /\ 1 \in DOMAIN todo[h]
         /\ Head(todo[h]).call \in {"begin_effect", "commit_checkpoint"} =>
              Head(todo[h]).branch \in BranchKey /\ Head(todo[h]).task \in Task
         /\ Head(todo[h]).call = "outcome" =>
              /\ Head(todo[h]).branch \in BranchKey
              /\ Head(todo[h]).value \in Value
              /\ Head(todo[h]) = Outcome(Head(todo[h]).branch, Head(todo[h]).value)
<1>1. todo[h] \in Seq(PlaneCall)
  BY DEF RunTypeOK
<1>2. Head(todo[h]) \in PlaneCall /\ Head(todo[h]) = todo[h][1]
  BY <1>1, HeadTailProperties
<1>3. 1 \in DOMAIN todo[h]
  BY <1>1, EmptySeq, LenProperties
<1>4. PICK c \in PlaneCall : c = Head(todo[h])
  BY <1>2
<1>5. /\ c.call \in {"begin_effect", "commit_checkpoint"} =>
            c.branch \in BranchKey /\ c.task \in Task
      /\ c.call = "outcome" =>
           c.branch \in BranchKey /\ c.value \in Value /\ c = Outcome(c.branch, c.value)
  BY <1>4 DEF PlaneCall, CompleteCall, Outcome
<1> QED
  BY <1>2, <1>3, <1>4, <1>5

\* A step of the hosts is an operation of the plane, or none.
LEMMA RunStepIsPlaneStep ==
  ASSUME RunTypeOK, [RunNext]_runVars
  PROVE  [Next]_vars
<1> USE PlaneAssumption, DriverAssumption
<1>1. ASSUME NEW h \in Host, CallBeginEffect(h)
      PROVE  Next
  <2>1. \E b \in BranchKey, t \in Task : BeginEffect(b, t)
    BY <1>1, HeadCall DEF CallBeginEffect, Calls
  <2> QED
    BY <2>1 DEF Next
<1>2. ASSUME NEW h \in Host, CallCommitCheckpoint(h)
      PROVE  Next
  <2>1. Root \in BranchKey
    BY DEF BranchKey
  <2>2. \E b \in BranchKey, t \in Task, valid \in BOOLEAN : CommitCheckpoint(b, t, valid)
    BY <1>2, <2>1, HeadCall DEF CallCommitCheckpoint, Calls
  <2> QED
    BY <2>2 DEF Next
<1>3. ASSUME NEW h \in Host, CallCommitInvalid(h)
      PROVE  [Next]_vars
  <2>1. RejectState \/ UNCHANGED vars
    BY <1>3 DEF CallCommitInvalid, CommitCheckpoint, CommitVerdict
  <2>2. RejectState => \E valid \in BOOLEAN : ValidityGate(valid)
    BY DEF ValidityGate
  <2> QED
    BY <2>1, <2>2 DEF Next
<1>4. ASSUME NEW h \in Host, NEW v \in Value, OrdinaryResume(h, v) \/ ForkResume(h, v)
      PROVE  Next
  <2>1. \E kind \in AddressKind : ResolveResume(Interrupt, v, kind)
    BY <1>4 DEF OrdinaryResume, ForkResume, AddressKind
  <2> QED
    BY <2>1 DEF Next
<1>5. ASSUME NEW h \in Host, CallComplete(h)
      PROVE  Next
  BY <1>5 DEF CallComplete, Next
<1>6. ASSUME NEW h \in Host,
             \/ StartTask(h) \/ Park(h) \/ Perform(h) \/ CallOutcome(h) \/ Crash(h)
             \/ SubmitInvalid(h) \/ UNCHANGED runVars
      PROVE  UNCHANGED vars
  BY <1>6 DEF StartTask, Park, Perform, CallOutcome, Crash, SubmitInvalid, runVars
<1>7. CASE UNCHANGED runVars
  BY <1>7 DEF runVars
<1> QED
  BY <1>1, <1>2, <1>3, <1>4, <1>5, <1>6, <1>7 DEF RunNext, Work

-----------------------------------------------------------------------------
(* Types.                                                                  *)

\* Whatever calls a transition consists of, they are calls of the plane.
LEMMA TodoTyped ==
  ASSUME RunTypeOK, PlaneInv, [RunNext]_runVars, NEW h \in Host
  PROVE  todo'[h] \in Seq(PlaneCall)
<1> USE PlaneAssumption, DriverAssumption
<1>1. todo[h] \in Seq(PlaneCall)
  BY DEF RunTypeOK
<1>2. Root \in BranchKey /\ InterruptTask \in Task
  BY DEF BranchKey, Task
<1>3. CASE StartTask(h)
  <2>1. pc[h] + 1 \in Task
    BY <1>3 DEF StartTask, RunTypeOK, Task
  <2>2. Effect(Root, pc[h] + 1) \in PlaneCall /\ Commit(pc[h] + 1) \in PlaneCall
    BY <1>2, <2>1 DEF PlaneCall, Effect, Commit
  <2>3. todo'[h] = << Effect(Root, pc[h] + 1), Commit(pc[h] + 1) >>
    BY <1>3 DEF StartTask, RunTypeOK
  <2> QED
    BY <2>2, <2>3
<1>4. ASSUME NEW v \in Value, ForkResume(h, v)
      PROVE  todo'[h] \in Seq(PlaneCall)
  <2> DEFINE b == ForkKey(Interrupt, Len(interrupts[Interrupt].recorded))
  <2>1. todo'[h] = << Outcome(b, v), Effect(b, InterruptTask), Effect(b, InterruptTask) >>
    BY <1>4, ForkBranch DEF ForkResume, RunTypeOK
  <2>2. b \in BranchKey
    BY <1>4, ForkBranch
  <2> HIDE DEF b
  <2>3. Outcome(b, v) \in PlaneCall /\ Effect(b, InterruptTask) \in PlaneCall
    BY <1>2, <2>2 DEF PlaneCall, Effect, Outcome
  <2> QED
    BY <2>1, <2>3
<1>5. CASE Crash(h)
  <2>1. todo'[h] = [t \in 1 .. frontier[Root] |-> Effect(Root, t)]
    BY <1>5, ReplayIsPrefix DEF Crash, PlaneInv, RunTypeOK
  <2>2. \A t \in 1 .. frontier[Root] : Effect(Root, t) \in PlaneCall
    BY <1>2, ReplayIsPrefix DEF PlaneInv, RunTypeOK, PlaneCall, Effect, Task
  <2>3. frontier[Root] \in Nat
    BY ReplayIsPrefix DEF PlaneInv, RunTypeOK
  <2> QED
    BY <2>1, <2>2, <2>3
<1>6. CASE CallCommitCheckpoint(h)
  <2>1. todo'[h] = << >> \/ todo'[h] = << CompleteCall >>
    BY <1>6 DEF CallCommitCheckpoint, RunTypeOK
  <2>2. CompleteCall \in PlaneCall
    BY DEF PlaneCall
  <2>3. << >> \in Seq(PlaneCall) /\ << CompleteCall >> \in Seq(PlaneCall)
    BY <2>2
  <2> QED
    BY <2>1, <2>3
<1>7. CASE CallBeginEffect(h) \/ CallComplete(h) \/ CallOutcome(h) \/ CallCommitInvalid(h)
  <2>1. todo[h] # << >> /\ todo'[h] = Tail(todo[h])
    BY <1>7 DEF CallBeginEffect, CallComplete, CallOutcome, CallCommitInvalid, Calls, RunTypeOK
  <2> QED
    BY <1>1, <2>1, HeadTailProperties
<1>8. ASSUME NEW g \in Host, g # h,
             Work(g) \/ Crash(g) \/ SubmitInvalid(g) \/ \E v \in Value : ForkResume(g, v)
      PROVE  todo'[h] = todo[h]
  BY <1>8 DEF Work, StartTask, Park, CallBeginEffect, Perform, CallCommitCheckpoint,
              CallComplete, CallOutcome, CallCommitInvalid, Crash, SubmitInvalid, ForkResume,
              RunTypeOK
<1>9. ASSUME NEW g \in Host,
             \/ Park(g) \/ Perform(g) \/ UNCHANGED runVars
             \/ \E v \in Value : OrdinaryResume(g, v)
      PROVE  todo'[h] = todo[h]
  BY <1>9 DEF Park, Perform, OrdinaryResume, hostVars, runVars
<1>10. CASE SubmitInvalid(h)
  <2>1. todo'[h] = << Invalid(frontier[Root] + 1) >>
    BY <1>10 DEF SubmitInvalid, RunTypeOK
  <2>2. frontier[Root] + 1 \in 1 .. MaxTask + 1
    BY <1>2 DEF RunTypeOK, TypeOK
  <2>3. Invalid(frontier[Root] + 1) \in PlaneCall
    BY <2>2 DEF PlaneCall, Invalid
  <2> QED
    BY <2>1, <2>3
<1> QED
  BY <1>1, <1>3, <1>4, <1>5, <1>6, <1>7, <1>8, <1>9, <1>10 DEF RunNext, Work

\* The hosts' state keeps its shape.
LEMMA RunTypeStep ==
  ASSUME RunTypeOK, PlaneInv, [RunNext]_runVars
  PROVE  RunTypeOK'
<1> USE PlaneAssumption, DriverAssumption
<1>1. TypeOK'
  BY RunStepIsPlaneStep, TypeInductive DEF RunTypeOK
<1>2. todo' \in [Host -> Seq(PlaneCall)]
  <2>1. \E f : todo' = [h \in Host |-> f[h]]
    <3>1. CASE UNCHANGED todo
      BY <3>1 DEF RunTypeOK
    <3>2. ASSUME NEW g \in Host, NEW s, todo' = [todo EXCEPT ![g] = s]
          PROVE  \E f : todo' = [h \in Host |-> f[h]]
      <4>1. todo' = [h \in Host |-> [todo EXCEPT ![g] = s][h]]
        BY <3>2 DEF RunTypeOK
      <4> QED
        BY <4>1
    <3>3. UNCHANGED todo \/ \E g \in Host : \E s : todo' = [todo EXCEPT ![g] = s]
      BY DEF RunNext, runVars, hostVars, Work, StartTask, Park, CallBeginEffect, Perform,
             CallCommitCheckpoint, CallComplete, CallOutcome, CallCommitInvalid, Crash, ForkResume,
             OrdinaryResume, SubmitInvalid
    <3> QED
      BY <3>1, <3>2, <3>3
  <2> QED
    BY <2>1, TodoTyped
<1>3. pc' \in [Host -> 0 .. MaxTask]
  <2>1. ASSUME NEW h \in Host, CallCommitCheckpoint(h)
        PROVE  pc' \in [Host -> 0 .. MaxTask]
    <3>1. Head(todo[h]).task \in Task
      BY <2>1, HeadCall DEF CallCommitCheckpoint, Calls
    <3>2. \E n \in 0 .. MaxTask : pc' = [pc EXCEPT ![h] = n]
      <4>1. pc[h] \in 0 .. MaxTask /\ Head(todo[h]).task \in 0 .. MaxTask
        BY <3>1 DEF RunTypeOK, Task
      <4> QED
        BY <2>1, <4>1 DEF CallCommitCheckpoint
    <3> QED
      BY <3>2 DEF RunTypeOK
  <2>2. ASSUME NEW h \in Host, Crash(h)
        PROVE  pc' \in [Host -> 0 .. MaxTask]
    BY <2>2, ReplayIsPrefix DEF Crash, PlaneInv, RunTypeOK
  <2>3. UNCHANGED pc \/ \E h \in Host : CallCommitCheckpoint(h) \/ Crash(h)
    BY DEF RunNext, runVars, hostVars, Work, StartTask, Park, CallBeginEffect, Perform,
           CallComplete, CallOutcome, CallCommitInvalid, ForkResume, OrdinaryResume, SubmitInvalid
  <2> QED
    BY <2>1, <2>2, <2>3 DEF RunTypeOK
<1>4. performing' \in [Host -> (BranchKey \X Task) \cup {Nothing}]
  <2>1. ASSUME NEW h \in Host, CallBeginEffect(h)
        PROVE  performing' \in [Host -> (BranchKey \X Task) \cup {Nothing}]
    <3>1. << Head(todo[h]).branch, Head(todo[h]).task >> \in BranchKey \X Task
      BY <2>1, HeadCall DEF CallBeginEffect, Calls
    <3> QED
      BY <2>1, <3>1 DEF CallBeginEffect, RunTypeOK
  <2>2. \/ UNCHANGED performing
        \/ \E h \in Host : CallBeginEffect(h) \/ performing' = [performing EXCEPT ![h] = Nothing]
    BY DEF RunNext, runVars, hostVars, Work, StartTask, Park, Perform, CallCommitCheckpoint,
           CallComplete, CallOutcome, CallCommitInvalid, Crash, ForkResume, OrdinaryResume, SubmitInvalid
  <2> QED
    BY <2>1, <2>2 DEF RunTypeOK
<1>5. effects' \in [BranchKey \X Task -> Nat]
  <2>1. ASSUME NEW h \in Host, Perform(h)
        PROVE  effects' \in [BranchKey \X Task -> Nat]
    BY <2>1 DEF Perform, RunTypeOK
  <2>2. UNCHANGED effects \/ \E h \in Host : Perform(h)
    BY DEF RunNext, runVars, hostVars, Work, StartTask, Park, CallBeginEffect,
           CallCommitCheckpoint, CallComplete, CallOutcome, CallCommitInvalid, Crash, ForkResume,
           OrdinaryResume, SubmitInvalid
  <2> QED
    BY <2>1, <2>2 DEF RunTypeOK
<1>6. fork_vals' \in Seq(Value) /\ fork_outs' \in Seq(Value \cup {NoValue})
  <2>1. ASSUME NEW h \in Host, CallOutcome(h)
        PROVE  fork_vals' \in Seq(Value) /\ fork_outs' \in Seq(Value \cup {NoValue})
    <3>1. Head(todo[h]).branch \in BranchKey /\ Head(todo[h]).value \in Value
      BY <2>1, HeadCall DEF CallOutcome, Calls
    <3>2. branch_value[Head(todo[h]).branch] \in Value \cup {NoValue}
      BY <3>1 DEF RunTypeOK, TypeOK
    <3>3. fork_vals \in Seq(Value) /\ fork_outs \in Seq(Value \cup {NoValue})
      BY DEF RunTypeOK
    <3>4. /\ fork_vals' = Append(fork_vals, Head(todo[h]).value)
          /\ fork_outs' = Append(fork_outs, branch_value[Head(todo[h]).branch])
      BY <2>1 DEF CallOutcome
    <3> QED
      BY <3>1, <3>2, <3>3, <3>4, AppendProperties
  <2>2. UNCHANGED << fork_vals, fork_outs >> \/ \E h \in Host : CallOutcome(h)
    BY DEF RunNext, runVars, hostVars, Work, StartTask, Park, CallBeginEffect, Perform,
           CallCommitCheckpoint, CallCommitInvalid, CallComplete, Crash, ForkResume,
           OrdinaryResume, SubmitInvalid
  <2> QED
    BY <2>1, <2>2 DEF RunTypeOK
<1>7. interrupted' \in BOOLEAN
  <2>1. interrupted' = interrupted \/ interrupted' = TRUE
    BY DEF RunNext, runVars, hostVars, Work, StartTask, Park, CallBeginEffect,
           Perform, CallCommitCheckpoint, CallComplete, CallOutcome, CallCommitInvalid, Crash, ForkResume,
           OrdinaryResume, SubmitInvalid
  <2>2. interrupted \in BOOLEAN
    BY DEF RunTypeOK
  <2> QED
    BY <2>1, <2>2
<1>8. crashes' \in 0 .. MaxCrash
  <2>1. crashes' = crashes \/ \E h \in Host : Crash(h)
    BY DEF RunNext, runVars, hostVars, Work, StartTask, Park, CallBeginEffect,
           Perform, CallCommitCheckpoint, CallComplete, CallOutcome, CallCommitInvalid, ForkResume, OrdinaryResume, SubmitInvalid
  <2>2. ASSUME NEW h \in Host, Crash(h)
        PROVE  crashes < MaxCrash /\ crashes' = crashes + 1
    BY <2>2 DEF Crash
  <2>3. crashes \in 0 .. MaxCrash
    BY DEF RunTypeOK
  <2> QED
    BY <2>1, <2>2, <2>3
<1>9. invalids' \in 0 .. MaxInvalid
  <2>1. invalids' = invalids \/ \E h \in Host : SubmitInvalid(h)
    BY DEF RunNext, runVars, hostVars, Work, StartTask, Park, CallBeginEffect,
           Perform, CallCommitCheckpoint, CallComplete, CallOutcome, CallCommitInvalid, Crash, ForkResume, OrdinaryResume
  <2>2. ASSUME NEW h \in Host, SubmitInvalid(h)
        PROVE  invalids < MaxInvalid /\ invalids' = invalids + 1
    BY <2>2 DEF SubmitInvalid
  <2>3. invalids \in 0 .. MaxInvalid
    BY DEF RunTypeOK
  <2> QED
    BY <2>1, <2>2, <2>3
<1> QED
  BY <1>1, <1>2, <1>3, <1>4, <1>5, <1>6, <1>7, <1>8, <1>9 DEF RunTypeOK

\* What is inductive about a run as far as types and the plane go.
RunInv == RunTypeOK /\ PlaneInv

\* It holds at the start and every step keeps it.
LEMMA RunInvInductive ==
  /\ RunInit => RunInv
  /\ RunInv /\ [RunNext]_runVars => RunInv'
<1>1. RunInit => RunInv
  <2> SUFFICES ASSUME RunInit PROVE RunInv
    OBVIOUS
  <2>1. TypeOK /\ PlaneInv
    BY TypeInductive, PrefixInductive, ResumeInvInductive DEF RunInit, PlaneInv
  <2>2. << >> \in Seq(PlaneCall) /\ << >> \in Seq(Value) /\ << >> \in Seq(Value \cup {NoValue})
    OBVIOUS
  <2>3. /\ pc \in [Host -> 0 .. MaxTask]
        /\ crashes \in 0 .. MaxCrash /\ invalids \in 0 .. MaxInvalid
        /\ effects \in [BranchKey \X Task -> Nat]
    BY PlaneAssumption, DriverAssumption DEF RunInit
  <2>4. /\ todo \in [Host -> Seq(PlaneCall)]
        /\ fork_vals \in Seq(Value) /\ fork_outs \in Seq(Value \cup {NoValue})
    BY <2>2 DEF RunInit
  <2>5. performing \in [Host -> (BranchKey \X Task) \cup {Nothing}] /\ interrupted \in BOOLEAN
    BY DEF RunInit
  <2> QED
    BY <2>1, <2>3, <2>4, <2>5 DEF RunInv, RunTypeOK
<1>2. RunInv /\ [RunNext]_runVars => RunInv'
  <2> SUFFICES ASSUME RunInv, [RunNext]_runVars PROVE RunInv'
    OBVIOUS
  <2>1. [Next]_vars
    BY RunStepIsPlaneStep DEF RunInv
  <2>2. PlaneInv'
    BY <2>1, PrefixInductive, ResumeInvInductive DEF RunInv, RunTypeOK, PlaneInv
  <2> QED
    BY <2>2, RunTypeStep DEF RunInv
<1> QED
  BY <1>1, <1>2

\* Type correctness of the hosts: in particular every call they make names a
\* branch and a task the plane knows, and recovery never sends a host past the
\* last task.
THEOREM RunTypeCorrect == RunSpec => []RunTypeOK
<1>1. RunInv => RunTypeOK
  BY DEF RunInv
<1> QED
  BY <1>1, RunInvInductive, PTL DEF RunSpec

\* The hosts reach the plane through its operations only: every run of theirs
\* is a history of the plane, so what PlaneProofs shows of Plane (effects
\* admitted once, durable prefixes, the reference sequencer) holds in it.
THEOREM RunUsesPlane == RunSpec => UsesPlane
<1>1. RunInit => Init
  BY DEF RunInit
<1>2. RunInv /\ [RunNext]_runVars => [Next]_vars
  BY RunStepIsPlaneStep DEF RunInv
<1> QED
  BY <1>1, <1>2, RunInvInductive, PTL DEF RunSpec, UsesPlane, Spec

-----------------------------------------------------------------------------
(* Effects.                                                                *)

\* An effect on its way to its tool was admitted, to one host, once.
PerformInv ==
  /\ PerformedOnce
  /\ \A e \in BranchKey \X Task :
       effects[e] # 0 => e \in fired /\ \A h \in Host : performing[h] # e
  /\ \A h \in Host : performing[h] # Nothing => performing[h] \in fired
  /\ \A g, h \in Host : performing[g] = performing[h] /\ performing[g] # Nothing => g = h

\* Admissions, tools and crashes are all that moves effects.
LEMMA EffectsFrame ==
  ASSUME [RunNext]_runVars
  PROVE  \/ UNCHANGED << fired, performing, effects, crashes >>
         \/ \E h \in Host : CallBeginEffect(h) \/ Perform(h) \/ Crash(h)
<1>1. ASSUME NEW h \in Host,
             CallCommitCheckpoint(h) \/ CallComplete(h) \/ CallCommitInvalid(h)
      PROVE  UNCHANGED << fired, performing, effects, crashes >>
  BY <1>1 DEF CallCommitCheckpoint, CallComplete, CallCommitInvalid, CommitCheckpoint,
              RejectState, Complete, effectVars, vars
<1>2. ASSUME NEW h \in Host, NEW v \in Value, OrdinaryResume(h, v) \/ ForkResume(h, v)
      PROVE  UNCHANGED << fired, performing, effects, crashes >>
  BY <1>2 DEF OrdinaryResume, ForkResume, ResolveResume, Fork, NextOrdinal, RecordAnswer, effectVars,
              vars, hostVars
<1>3. ASSUME NEW h \in Host, StartTask(h) \/ Park(h) \/ CallOutcome(h) \/ SubmitInvalid(h)
      PROVE  UNCHANGED << fired, performing, effects, crashes >>
  BY <1>3 DEF StartTask, Park, CallOutcome, SubmitInvalid, vars
<1>4. CASE UNCHANGED runVars
  BY <1>4 DEF runVars, hostVars, vars
<1> QED
  BY <1>1, <1>2, <1>3, <1>4 DEF RunNext, Work

\* What an answer of begin_effect does to a host.
LEMMA AdmissionStep ==
  ASSUME RunTypeOK, NEW h \in Host, CallBeginEffect(h)
  PROVE  /\ UNCHANGED << effects, crashes >>
         /\ performing[h] = Nothing
         /\ \/ UNCHANGED << fired, performing >>
            \/ \E b \in BranchKey, t \in Task :
                 /\ Head(todo[h]).call = "begin_effect"
                 /\ Head(todo[h]).branch = b /\ Head(todo[h]).task = t
                 /\ << b, t >> \notin fired
                 /\ fired' = fired \cup {<< b, t >>}
                 /\ performing' = [performing EXCEPT ![h] = << b, t >>]
<1> DEFINE b == Head(todo[h]).branch
           t == Head(todo[h]).task
<1>1. b \in BranchKey /\ t \in Task /\ performing[h] = Nothing
  BY HeadCall DEF CallBeginEffect, Calls
<1>2. /\ BeginEffect(b, t)
      /\ performing' = [performing EXCEPT ![h] =
                          IF BeginVerdict(b, t) = "Ok" THEN << b, t >> ELSE Nothing]
      /\ UNCHANGED << effects, crashes >>
      /\ Head(todo[h]).call = "begin_effect"
  BY DEF CallBeginEffect, Calls
<1> HIDE DEF b, t
<1>3. CASE BeginVerdict(b, t) = "DuplicateEffect"
  BY <1>1, <1>2, <1>3 DEF BeginEffect, vars, RunTypeOK
<1>4. CASE BeginVerdict(b, t) = "Ok"
  <2>1. << b, t >> \notin fired /\ fired' = fired \cup {<< b, t >>}
    BY <1>2, <1>4 DEF BeginEffect, BeginVerdict
  <2> QED
    BY <1>1, <1>2, <1>4, <2>1 DEF b, t
<1> QED
  BY <1>2, <1>3, <1>4 DEF BeginEffect

\* Nobody is admitted twice, and nobody performs what another was admitted for.
LEMMA PerformInvStep ==
  ASSUME RunTypeOK, RunTypeOK', PerformInv, [RunNext]_runVars
  PROVE  PerformInv'
<1> USE DriverAssumption
<1>1. CASE UNCHANGED << fired, performing, effects, crashes >>
  BY <1>1 DEF PerformInv, PerformedOnce
<1>2. ASSUME NEW h \in Host, CallBeginEffect(h)
      PROVE  PerformInv'
  <2>1. CASE UNCHANGED << fired, performing >>
    BY <1>2, <2>1, AdmissionStep DEF PerformInv, PerformedOnce
  <2>2. ASSUME NEW e \in BranchKey \X Task, e \notin fired, fired' = fired \cup {e},
               performing' = [performing EXCEPT ![h] = e]
        PROVE  PerformInv'
    <3>1. UNCHANGED effects /\ performing[h] = Nothing /\ e # Nothing
      BY <1>2, AdmissionStep
    <3>2. \A g \in Host : performing'[g] = IF g = h THEN e ELSE performing[g]
      BY <2>2 DEF RunTypeOK
    <3>3. effects[e] = 0
      BY <2>2 DEF PerformInv
    <3> QED
      BY <2>2, <3>1, <3>2, <3>3 DEF PerformInv, PerformedOnce
  <2> QED
    BY <1>2, <2>1, <2>2, AdmissionStep
<1>3. ASSUME NEW h \in Host, Perform(h)
      PROVE  PerformInv'
  <2> DEFINE e == performing[h]
  <2>1. /\ e # Nothing /\ e \in BranchKey \X Task /\ e \in fired
        /\ effects' = [effects EXCEPT ![e] = @ + 1]
        /\ performing' = [performing EXCEPT ![h] = Nothing]
        /\ UNCHANGED fired
    BY <1>3 DEF Perform, RunTypeOK, PerformInv, vars
  <2>2. effects[e] = 0
    BY <2>1 DEF PerformInv, RunTypeOK
  <2>3. /\ \A d \in BranchKey \X Task : effects'[d] = IF d = e THEN 1 ELSE effects[d]
        /\ \A g \in Host : performing'[g] = IF g = h THEN Nothing ELSE performing[g]
    BY <2>1, <2>2 DEF RunTypeOK
  <2>4. \A g \in Host : g # h => performing[g] # e
    BY <2>1 DEF PerformInv
  <2> HIDE DEF e
  <2> QED
    BY <2>1, <2>3, <2>4 DEF PerformInv, PerformedOnce
<1>4. ASSUME NEW h \in Host, Crash(h)
      PROVE  PerformInv'
  <2>1. UNCHANGED << fired, effects >> /\ performing' = [performing EXCEPT ![h] = Nothing]
    BY <1>4 DEF Crash, vars
  <2>2. \A g \in Host : performing'[g] = IF g = h THEN Nothing ELSE performing[g]
    BY <2>1 DEF RunTypeOK
  <2> QED
    BY <2>1, <2>2 DEF PerformInv, PerformedOnce
<1> QED
  BY <1>1, <1>2, <1>3, <1>4, EffectsFrame

\* EO for the tools themselves: on every branch the tool of a task runs at
\* most once, for any number of hosts on the Core and any crashes and replays.
THEOREM PerformedOnceHolds == RunSpec => []PerformedOnce
<1>1. RunInit => PerformInv
  BY DriverAssumption DEF RunInit, Init, PerformInv, PerformedOnce
<1>2. RunInv /\ PerformInv /\ [RunNext]_runVars => PerformInv'
  BY RunInvInductive, PerformInvStep DEF RunInv
<1>3. PerformInv => PerformedOnce
  BY DEF PerformInv
<1> QED
  BY <1>1, <1>2, <1>3, RunInvInductive, PTL DEF RunSpec

\* An admission is lost only if its host crashed before the tool ran.
LEMMA LossStep ==
  ASSUME RunTypeOK, RunTypeOK', PerformInv, OnlyCrashLoses, [RunNext]_runVars
  PROVE  OnlyCrashLoses'
<1> USE DriverAssumption
<1>1. CASE UNCHANGED << fired, performing, effects, crashes >>
  BY <1>1 DEF OnlyCrashLoses
<1>2. ASSUME NEW h \in Host, CallBeginEffect(h)
      PROVE  OnlyCrashLoses'
  <2>1. CASE UNCHANGED << fired, performing >>
    BY <1>2, <2>1, AdmissionStep DEF OnlyCrashLoses
  <2>2. ASSUME NEW e \in BranchKey \X Task, e \notin fired, fired' = fired \cup {e},
               performing' = [performing EXCEPT ![h] = e]
        PROVE  OnlyCrashLoses'
    <3>1. UNCHANGED << effects, crashes >> /\ performing[h] = Nothing
      BY <1>2, AdmissionStep
    <3>2. \A g \in Host : performing'[g] = IF g = h THEN e ELSE performing[g]
      BY <2>2 DEF RunTypeOK
    <3>3. Nothing \notin fired
      BY DEF RunTypeOK, TypeOK
    <3> QED
      BY <2>2, <3>1, <3>2, <3>3 DEF OnlyCrashLoses
  <2> QED
    BY <1>2, <2>1, <2>2, AdmissionStep
<1>3. ASSUME NEW h \in Host, Perform(h)
      PROVE  OnlyCrashLoses'
  <2> DEFINE e == performing[h]
  <2>1. /\ e # Nothing /\ e \in BranchKey \X Task
        /\ effects' = [effects EXCEPT ![e] = @ + 1]
        /\ performing' = [performing EXCEPT ![h] = Nothing]
        /\ UNCHANGED << fired, crashes >>
    BY <1>3 DEF Perform, RunTypeOK, vars
  <2>2. /\ \A d \in BranchKey \X Task :
             effects'[d] = IF d = e THEN effects[d] + 1 ELSE effects[d]
        /\ \A g \in Host : performing'[g] = IF g = h THEN Nothing ELSE performing[g]
    BY <2>1 DEF RunTypeOK
  <2>3. fired \subseteq BranchKey \X Task /\ effects[e] \in Nat
    BY <2>1 DEF RunTypeOK, TypeOK
  <2>4. ASSUME NEW d \in fired, effects'[d] = 0
        PROVE  crashes > 0 \/ \E g \in Host : performing'[g] = d
    <3>1. d # e /\ effects[d] = 0
      BY <2>2, <2>3, <2>4
    <3>2. crashes > 0 \/ \E g \in Host : performing[g] = d
      BY <3>1 DEF OnlyCrashLoses
    <3> QED
      BY <2>2, <3>1, <3>2
  <2> QED
    BY <2>1, <2>4 DEF OnlyCrashLoses
<1>4. ASSUME NEW h \in Host, Crash(h)
      PROVE  OnlyCrashLoses'
  <2>1. crashes' > 0
    BY <1>4 DEF Crash, RunTypeOK
  <2> QED
    BY <2>1 DEF OnlyCrashLoses
<1> QED
  BY <1>1, <1>2, <1>3, <1>4, EffectsFrame

\* Without a crash no admitted effect is lost: it was performed or is being
\* performed, so a host that was refused as a duplicate may go on to commit.
THEOREM OnlyCrashLosesHolds == RunSpec => []OnlyCrashLoses
<1>1. RunInit => PerformInv /\ OnlyCrashLoses
  BY DriverAssumption DEF RunInit, Init, PerformInv, PerformedOnce, OnlyCrashLoses
<1>2. /\ RunInv /\ PerformInv /\ OnlyCrashLoses /\ [RunNext]_runVars
      => PerformInv' /\ OnlyCrashLoses'
  BY RunInvInductive, PerformInvStep, LossStep DEF RunInv
<1> QED
  BY <1>1, <1>2, RunInvInductive, PTL DEF RunSpec

-----------------------------------------------------------------------------
(* Answers.                                                                *)

\* Somebody has answered for the gated task on branch b.
Granted(b) == IF b = Root THEN Answered ELSE branch_value[b] # NoValue

\* The same after a step.
GrantedNext(b) == IF b = Root THEN Answered' ELSE branch_value'[b] # NoValue

\* Nothing is on its way to the gated tool or its checkpoint without an answer.
GrantedInv ==
  /\ GatedByAnswer
  /\ \A h \in Host : \A i \in DOMAIN todo[h] :
       /\ todo[h][i].call = "begin_effect" /\ todo[h][i].task = InterruptTask =>
            Granted(todo[h][i].branch)
       /\ todo[h][i].call = "commit_checkpoint" /\ todo[h][i].task = InterruptTask =>
            Answered
  /\ \A h \in Host, b \in BranchKey :
       performing[h] = << b, InterruptTask >> => Granted(b)
  /\ frontier[Root] >= InterruptTask => Answered

\* An answer is never taken back.
LEMMA GrantedStep ==
  ASSUME RunTypeOK, PlaneInv, [RunNext]_runVars
  PROVE  /\ Answered => Answered'
         /\ \A b \in BranchKey : Granted(b) => GrantedNext(b)
<1> USE DriverAssumption
<1>1. TypeOK /\ ResumeInv /\ [Next]_vars
  BY RunStepIsPlaneStep DEF RunTypeOK, PlaneInv
<1>2. Answered => Answered'
  <2>1. CASE UNCHANGED interrupts
    BY <2>1 DEF Answered
  <2>2. ASSUME NEW c \in Checkpoint, NEW v \in Value, NEW b, RecordAnswer(c, b, v), Answered
        PROVE  Answered'
    <3>1. interrupts[c].recorded \in Seq(Value)
      BY <1>1 DEF TypeOK, InterruptState
    <3>2. Append(interrupts[c].recorded, v) # << >>
      BY <3>1, AppendProperties
    <3>3. interrupts'[Interrupt].recorded =
            IF c = Interrupt THEN Append(interrupts[c].recorded, v)
                             ELSE interrupts[Interrupt].recorded
      BY <1>1, <2>2 DEF RecordAnswer, TypeOK
    <3> QED
      BY <2>2, <3>2, <3>3 DEF Answered
  <2> QED
    BY <1>1, <2>1, <2>2, AnswerStep
<1>3. ASSUME NEW b \in BranchKey, branch_value[b] # NoValue
      PROVE  branch_value'[b] # NoValue
  BY <1>1, <1>3, OutcomeStep
<1> QED
  BY <1>2, <1>3 DEF Granted, GrantedNext

\* The hosts keep GrantedInv.
LEMMA GrantedInvStep ==
  ASSUME RunTypeOK, RunTypeOK', PlaneInv, GrantedInv, [RunNext]_runVars
  PROVE  GrantedInv'
<1> USE PlaneAssumption, DriverAssumption
<1>1. /\ Answered => Answered'
      /\ \A b \in BranchKey : Granted(b) => GrantedNext(b)
  BY GrantedStep
<1>2. Root \in BranchKey /\ InterruptTask \in Task
  BY DEF BranchKey, Task
\* The calls still to be made.
<1>3. ASSUME NEW h \in Host, NEW i \in DOMAIN todo'[h]
      PROVE  /\ todo'[h][i].call = "begin_effect" /\ todo'[h][i].task = InterruptTask =>
                  GrantedNext(todo'[h][i].branch)
             /\ todo'[h][i].call = "commit_checkpoint" /\ todo'[h][i].task = InterruptTask =>
                  Answered'
  <2> DEFINE c == todo'[h][i]
  <2>1. ASSUME NEW j \in DOMAIN todo[h], c = todo[h][j]
        PROVE  /\ c.call = "begin_effect" /\ c.task = InterruptTask => GrantedNext(c.branch)
               /\ c.call = "commit_checkpoint" /\ c.task = InterruptTask => Answered'
    <3>1. todo[h] \in Seq(PlaneCall) /\ c \in PlaneCall
      BY <2>1 DEF RunTypeOK
    <3>2. c.call = "begin_effect" => c.branch \in BranchKey
      BY <3>1 DEF PlaneCall, CompleteCall
    <3>3. /\ c.call = "begin_effect" /\ c.task = InterruptTask => Granted(c.branch)
          /\ c.call = "commit_checkpoint" /\ c.task = InterruptTask => Answered
      BY <2>1 DEF GrantedInv
    <3> QED
      BY <1>1, <3>2, <3>3
  <2>2. CASE StartTask(h) /\ c \in {Effect(Root, pc[h] + 1), Commit(pc[h] + 1)}
    <3>1. pc[h] + 1 = InterruptTask => Answered'
      BY <1>1, <2>2 DEF StartTask
    <3> QED
      BY <2>2, <3>1 DEF Effect, Commit, Granted, GrantedNext
  <2>3. ASSUME NEW v \in Value, ForkResume(h, v)
        PROVE  LET b == ForkKey(Interrupt, Len(interrupts[Interrupt].recorded))
               IN  c \in {Outcome(b, v), Effect(b, InterruptTask)} =>
                     /\ c.call = "begin_effect" => GrantedNext(c.branch)
                     /\ c.call # "commit_checkpoint"
    <3> DEFINE b == ForkKey(Interrupt, Len(interrupts[Interrupt].recorded))
    <3>1. branch_value'[b] = v /\ v # NoValue
      BY <2>3, ForkBranch
    <3>2. Answered'
      BY <1>1, <2>3 DEF ForkResume
    <3> HIDE DEF b
    <3> QED
      BY <3>1, <3>2 DEF Outcome, Effect, GrantedNext, b
  <2>4. CASE i \in 1 .. frontier[Root] /\ c = Effect(Root, i)
    <3>1. i = InterruptTask => Answered'
      BY <1>1, <1>2, <2>4, ReplayIsPrefix DEF GrantedInv, PlaneInv, RunTypeOK
    <3> QED
      BY <2>4, <3>1 DEF Effect, Granted, GrantedNext
  <2>5. CASE c = CompleteCall \/ c = Invalid(frontier[Root] + 1)
    BY <2>5 DEF CompleteCall, Invalid
  <2> HIDE DEF c
  <2>6. \/ \E j \in DOMAIN todo[h] : c = todo[h][j]
        \/ StartTask(h) /\ c \in {Effect(Root, pc[h] + 1), Commit(pc[h] + 1)}
        \/ \E v \in Value :
             LET b == ForkKey(Interrupt, Len(interrupts[Interrupt].recorded))
             IN  ForkResume(h, v) /\ c \in {Outcome(b, v), Effect(b, InterruptTask)}
        \/ i \in 1 .. frontier[Root] /\ c = Effect(Root, i)
        \/ c = CompleteCall \/ c = Invalid(frontier[Root] + 1)
    BY TodoStep DEF c
  <2> QED
    BY <2>1, <2>2, <2>3, <2>4, <2>5, <2>6 DEF c
\* The tools on their way.
<1>4. ASSUME NEW h \in Host, NEW b \in BranchKey, performing'[h] = << b, InterruptTask >>
      PROVE  GrantedNext(b)
  <2>1. CASE performing[h] = << b, InterruptTask >>
    BY <1>1, <2>1 DEF GrantedInv
  <2>2. CASE performing[h] # << b, InterruptTask >>
    <3>1. << b, InterruptTask >> # Nothing
      BY <1>2
    <3>2. CallBeginEffect(h)
      <4>1. ASSUME NEW g \in Host, CallBeginEffect(g), g # h
            PROVE  FALSE
        BY <1>4, <2>2, <4>1 DEF CallBeginEffect, RunTypeOK
      <4>2. ASSUME NEW g \in Host, Perform(g) \/ Crash(g)
            PROVE  FALSE
        BY <1>4, <2>2, <3>1, <4>2 DEF Perform, Crash, RunTypeOK
      <4> QED
        BY <1>4, <2>2, <4>1, <4>2, EffectsFrame
    <3>3. /\ Head(todo[h]).call = "begin_effect"
          /\ Head(todo[h]).branch = b /\ Head(todo[h]).task = InterruptTask
      <4>1. ~(UNCHANGED << fired, performing >>)
        BY <1>4, <2>2
      <4>2. PICK d \in BranchKey, t \in Task :
              /\ Head(todo[h]).call = "begin_effect"
              /\ Head(todo[h]).branch = d /\ Head(todo[h]).task = t
              /\ performing' = [performing EXCEPT ![h] = << d, t >>]
        <5>1. \/ UNCHANGED << fired, performing >>
              \/ \E d \in BranchKey, t \in Task :
                   /\ Head(todo[h]).call = "begin_effect"
                   /\ Head(todo[h]).branch = d /\ Head(todo[h]).task = t
                   /\ << d, t >> \notin fired
                   /\ fired' = fired \cup {<< d, t >>}
                   /\ performing' = [performing EXCEPT ![h] = << d, t >>]
          BY <3>2, AdmissionStep, Zenon
        <5> QED
          BY <4>1, <5>1, Zenon
      <4>3. << d, t >> = << b, InterruptTask >>
        BY <1>4, <4>2 DEF RunTypeOK
      <4> QED
        BY <4>2, <4>3
    <3>4. Granted(b)
      BY <3>2, <3>3, HeadCall DEF GrantedInv, CallBeginEffect, Calls
    <3> QED
      BY <1>1, <3>4
  <2> QED
    BY <2>1, <2>2
\* The tools that ran.
<1>5. GatedByAnswer'
  <2> SUFFICES ASSUME NEW b \in BranchKey, effects'[<< b, InterruptTask >>] > 0
               PROVE  GrantedNext(b)
    BY DEF GatedByAnswer, Granted, GrantedNext
  <2>1. CASE effects[<< b, InterruptTask >>] > 0
    BY <1>1, <2>1 DEF GrantedInv, GatedByAnswer, Granted, GrantedNext
  <2>2. CASE ~(effects[<< b, InterruptTask >>] > 0)
    <3>1. PICK h \in Host : Perform(h)
      BY <2>2, EffectsFrame, AdmissionStep DEF Crash
    <3>2. performing[h] = << b, InterruptTask >>
      BY <1>2, <2>2, <3>1 DEF Perform, RunTypeOK
    <3> QED
      BY <1>1, <3>2 DEF GrantedInv
  <2> QED
    BY <2>1, <2>2
\* The gated checkpoint.
<1>6. ASSUME frontier'[Root] >= InterruptTask
      PROVE  Answered'
  <2>1. CASE frontier[Root] >= InterruptTask
    BY <1>1, <2>1 DEF GrantedInv
  <2>2. CASE ~(frontier[Root] >= InterruptTask)
    <3>1. PICK h \in Host : CallCommitCheckpoint(h)
      <4>1. ASSUME NEW h \in Host,
                   \/ Park(h) \/ StartTask(h) \/ Perform(h) \/ CallOutcome(h)
                   \/ Crash(h) \/ CallComplete(h) \/ CallBeginEffect(h)
            PROVE  UNCHANGED frontier
        BY <4>1 DEF Park, StartTask, Perform, CallOutcome, Crash, CallComplete, Complete,
                    CallBeginEffect, BeginEffect, vars, ckptVars
      <4>2. ASSUME NEW h \in Host, SubmitInvalid(h) \/ CallCommitInvalid(h)
            PROVE  UNCHANGED frontier
        BY <4>2 DEF SubmitInvalid, CallCommitInvalid, CommitCheckpoint, CommitVerdict, RejectState, vars, ckptVars
      <4>3. ASSUME NEW h \in Host, NEW v \in Value, OrdinaryResume(h, v) \/ ForkResume(h, v)
            PROVE  UNCHANGED frontier
        BY <4>3 DEF OrdinaryResume, ForkResume, ResolveResume, Fork, NextOrdinal, RecordAnswer,
                    vars, ckptVars
      <4>4. CASE UNCHANGED runVars
        BY <1>6, <2>2, <4>4 DEF runVars, vars
      <4> QED
        BY <1>6, <2>2, <4>1, <4>2, <4>3, <4>4 DEF RunNext, Work
    <3> DEFINE t == Head(todo[h]).task
    <3>2. CommitCheckpoint(Root, t, TRUE) /\ Head(todo[h]).call = "commit_checkpoint"
      BY <3>1 DEF CallCommitCheckpoint, Calls
    <3>3. t = frontier[Root] + 1 /\ frontier' = [frontier EXCEPT ![Root] = t]
      BY <1>6, <2>2, <3>2 DEF CommitCheckpoint, CommitVerdict, RejectState, vars, ckptVars
    <3>4. t = InterruptTask
      <4>1. frontier[Root] \in 0 .. MaxTask /\ frontier'[Root] = t
        BY <1>2, <3>3 DEF RunTypeOK, TypeOK
      <4> QED
        BY <1>6, <2>2, <3>3, <4>1
    <3>5. Answered
      BY <3>1, <3>2, <3>4, HeadCall DEF GrantedInv, CallCommitCheckpoint, Calls
    <3> QED
      BY <1>1, <3>5
  <2> QED
    BY <2>1, <2>2
<1> QED
  BY <1>3, <1>4, <1>5, <1>6 DEF GrantedInv, Granted, GrantedNext

\* CO for the tools: the gated tool runs only under an answer, on the root and
\* on every fork, however many hosts race, crash and replay.
THEOREM GatedByAnswerHolds == RunSpec => []GatedByAnswer
<1> USE PlaneAssumption, DriverAssumption
<1>1. RunInit => GrantedInv
  <2> SUFFICES ASSUME RunInit PROVE GrantedInv
    OBVIOUS
  <2>1. /\ \A h \in Host : todo[h] = << >> /\ performing[h] = Nothing
        /\ \A e \in BranchKey \X Task : effects[e] = 0
        /\ frontier[Root] = 0
    BY DEF RunInit, Init, BranchKey
  <2>2. InterruptTask \in Task /\ Root \in BranchKey
    BY DEF Task, BranchKey
  <2>3. GatedByAnswer
    BY <2>1, <2>2 DEF GatedByAnswer
  <2>4. \A h \in Host : DOMAIN todo[h] = {}
    BY <2>1
  <2>5. ~(frontier[Root] >= InterruptTask)
    BY <2>1
  <2>6. \A h \in Host, b \in BranchKey : performing[h] # << b, InterruptTask >>
    <3>1. \A b \in BranchKey : << b, InterruptTask >> \in BranchKey \X Task
      BY <2>2
    <3>2. Nothing \notin BranchKey \X Task
      OBVIOUS
    <3> QED
      BY <2>1, <3>1, <3>2, Zenon
  <2> QED
    BY <2>3, <2>4, <2>5, <2>6 DEF GrantedInv
<1>2. RunInv /\ GrantedInv /\ [RunNext]_runVars => GrantedInv'
  BY RunInvInductive, GrantedInvStep DEF RunInv
<1>3. GrantedInv => GatedByAnswer
  BY DEF GrantedInv
<1> QED
  BY <1>1, <1>2, <1>3, RunInvInductive, PTL DEF RunSpec

-----------------------------------------------------------------------------
(* Outcomes.                                                               *)

\* A host that is about to read an outcome back will read its own value.
OutcomeInv ==
  /\ ForkServedOwn
  /\ \A h \in Host : \A i \in DOMAIN todo[h] :
       todo[h][i].call = "outcome" => branch_value[todo[h][i].branch] = todo[h][i].value

\* The hosts keep OutcomeInv: the branch of a fork is fresh when it is given
\* out and never overwritten afterwards.
LEMMA OutcomeInvStep ==
  ASSUME RunTypeOK, PlaneInv, OutcomeInv, [RunNext]_runVars
  PROVE  OutcomeInv'
<1> USE PlaneAssumption, DriverAssumption
<1>1. TypeOK /\ ResumeInv /\ [Next]_vars
  BY RunStepIsPlaneStep DEF RunTypeOK, PlaneInv
<1>2. ASSUME NEW h \in Host, NEW i \in DOMAIN todo'[h], todo'[h][i].call = "outcome"
      PROVE  branch_value'[todo'[h][i].branch] = todo'[h][i].value
  <2> DEFINE c == todo'[h][i]
  <2>1. ASSUME NEW j \in DOMAIN todo[h], c = todo[h][j]
        PROVE  branch_value'[c.branch] = c.value
    <3>1. todo[h] \in Seq(PlaneCall) /\ c \in PlaneCall
      BY <2>1 DEF RunTypeOK
    <3>2. c.branch \in BranchKey /\ c.value \in Value
      BY <1>2, <3>1 DEF PlaneCall, CompleteCall
    <3>3. branch_value[c.branch] = c.value
      BY <1>2, <2>1 DEF OutcomeInv
    <3> QED
      BY <1>1, <3>2, <3>3, OutcomeStep
  <2>2. ASSUME NEW v \in Value, ForkResume(h, v)
        PROVE  LET b == ForkKey(Interrupt, Len(interrupts[Interrupt].recorded))
               IN  c \in {Outcome(b, v), Effect(b, InterruptTask)} =>
                     branch_value'[c.branch] = c.value
    <3> DEFINE b == ForkKey(Interrupt, Len(interrupts[Interrupt].recorded))
    <3>1. branch_value'[b] = v
      BY <2>2, ForkBranch
    <3>2. c.call = "outcome"
      BY <1>2
    <3> HIDE DEF b, c
    <3> QED
      BY <3>1, <3>2 DEF Outcome, Effect, b
  <2>3. c \notin {Effect(Root, pc[h] + 1), Commit(pc[h] + 1), Effect(Root, i),
                  CompleteCall, Invalid(frontier[Root] + 1)}
    BY <1>2 DEF Effect, Commit, CompleteCall, Invalid
  <2> HIDE DEF c
  <2>4. \/ \E j \in DOMAIN todo[h] : c = todo[h][j]
        \/ \E v \in Value :
             LET b == ForkKey(Interrupt, Len(interrupts[Interrupt].recorded))
             IN  ForkResume(h, v) /\ c \in {Outcome(b, v), Effect(b, InterruptTask)}
        \/ c \in {Effect(Root, pc[h] + 1), Commit(pc[h] + 1), Effect(Root, i),
                  CompleteCall, Invalid(frontier[Root] + 1)}
    BY TodoStep DEF c
  <2> QED
    BY <2>1, <2>2, <2>3, <2>4 DEF c
<1>3. ForkServedOwn'
  <2>1. ASSUME NEW h \in Host, CallOutcome(h)
        PROVE  ForkServedOwn'
    <3>1. branch_value[Head(todo[h]).branch] = Head(todo[h]).value
      BY <2>1, HeadCall DEF OutcomeInv, CallOutcome, Calls
    <3> QED
      BY <2>1, <3>1 DEF CallOutcome, OutcomeInv, ForkServedOwn
  <2>2. UNCHANGED << fork_vals, fork_outs >> \/ \E h \in Host : CallOutcome(h)
    BY DEF RunNext, runVars, hostVars, Work, StartTask, Park, CallBeginEffect, Perform,
           CallCommitCheckpoint, CallCommitInvalid, CallComplete, Crash, ForkResume, OrdinaryResume,
           SubmitInvalid
  <2> QED
    BY <2>1, <2>2 DEF OutcomeInv, ForkServedOwn
<1> QED
  BY <1>2, <1>3 DEF OutcomeInv

\* FD for the hosts: every fork reads its own value back, although forks and
\* answers of other hosts come between the resume and the read.
THEOREM ForkServedOwnHolds == RunSpec => []ForkServedOwn
<1>1. RunInit => OutcomeInv
  <2> SUFFICES ASSUME RunInit PROVE OutcomeInv
    OBVIOUS
  <2>1. \A h \in Host : todo[h] = << >>
    BY DEF RunInit
  <2>2. \A h \in Host : DOMAIN todo[h] = {}
    BY <2>1
  <2> QED
    BY <2>2 DEF RunInit, OutcomeInv, ForkServedOwn
<1>2. RunInv /\ OutcomeInv /\ [RunNext]_runVars => OutcomeInv'
  BY OutcomeInvStep DEF RunInv
<1>3. OutcomeInv => ForkServedOwn
  BY DEF OutcomeInv
<1> QED
  BY <1>1, <1>2, <1>3, RunInvInductive, PTL DEF RunSpec
=============================================================================
