---------------------------- MODULE PlaneProofs ----------------------------
(* What a plane guarantees for every set of checkpoints and answers and    *)
(* every bound, by induction on its steps.                                 *)
EXTENDS Plane, TLAPS

-----------------------------------------------------------------------------
(* Who writes what: each group of variables changes in few operations.     *)

\* An effect is admitted, and what that changes outside resumes.
Admits(b, t) ==
  /\ << b, t >> \notin fired
  /\ Journalled("EffectAdmitted", t)
  /\ fired' = fired \cup {<< b, t >>}
  /\ ledger' = Append(ledger, [branch |-> b, task |-> t, seq |-> next_seq])
  /\ UNCHANGED ckptVars

\* A checkpoint becomes durable, and what that changes outside resumes.
Commits(b, t) ==
  /\ t = frontier[b] + 1
  /\ t \notin pending_writes
  /\ Journalled("Put", t)
  /\ ckpts' = Append(ckpts, [branch |-> b, task |-> t, seq |-> next_seq])
  /\ frontier' = [frontier EXCEPT ![b] = t]
  /\ UNCHANGED effectVars

\* Only an admitted begin_effect touches the ledger and the fired set.
LEMMA EffectFrame ==
  ASSUME [Next]_vars
  PROVE  \/ UNCHANGED effectVars
         \/ \E b \in BranchKey, t \in Task : Admits(b, t)
BY DEF Next, vars, effectVars, BeginEffect, BeginVerdict, Admits,
       CommitCheckpoint, RejectState, ValidityGate, SequenceOp, DeclareWrites,
       Fork, NextOrdinal, RecordAnswer, ResolveResume, Complete

\* Only an accepted commit_checkpoint touches the log and the frontiers.
LEMMA CkptFrame ==
  ASSUME [Next]_vars
  PROVE  \/ UNCHANGED ckptVars
         \/ \E b \in BranchKey, t \in Task : Commits(b, t)
BY DEF Next, vars, ckptVars, BeginEffect, CommitCheckpoint, CommitVerdict,
       Commits, RejectState, ValidityGate, SequenceOp, DeclareWrites, Fork,
       RecordAnswer, ResolveResume, Complete

\* Only complete, a fork, and the first ordinary answer touch the interrupts
\* and the branches; an ordinary answer finds its interrupt unspent.
LEMMA ResumeFrame ==
  ASSUME [Next]_vars
  PROVE  \/ UNCHANGED resumeVars
         \/ completed' = TRUE /\ UNCHANGED << branch_value, interrupts >>
         \/ \E c \in Checkpoint, v \in Value :
              RecordAnswer(c, ForkKey(c, Len(interrupts[c].recorded)), v)
         \/ \E c \in Checkpoint, v \in Value :
              /\ ~interrupts[c].consumed
              /\ RecordAnswer(c, ForkKey(c, 0), v)
<1>1. CASE \E b \in BranchKey, t \in Task : BeginEffect(b, t)
  BY <1>1 DEF vars, resumeVars, BeginEffect
<1>2. CASE \E b \in BranchKey, t \in Task, valid \in BOOLEAN :
             CommitCheckpoint(b, t, valid)
  BY <1>2 DEF vars, resumeVars, CommitCheckpoint, RejectState
<1>3. CASE \E valid \in BOOLEAN : ValidityGate(valid)
  BY <1>3 DEF vars, resumeVars, ValidityGate, RejectState
<1>4. CASE \/ \E ref \in Task \cup {NoTask} : SequenceOp("PutWrites", ref)
           \/ SequenceOp("Put", NoTask)
           \/ \E t \in Task : DeclareWrites(t)
           \/ Complete
           \/ UNCHANGED vars
  BY <1>4 DEF vars, resumeVars, SequenceOp, DeclareWrites, Complete
<1>5. CASE \E c \in Checkpoint, v \in Value : Fork(c, v)
  BY <1>5 DEF Fork, NextOrdinal
<1>6. CASE \E c \in Checkpoint, v \in Value \cup {NoValue}, kind \in AddressKind :
             ResolveResume(c, v, kind)
  <2> PICK c \in Checkpoint, v \in Value \cup {NoValue}, kind \in AddressKind :
             ResolveResume(c, v, kind)
    BY <1>6
  <2>1. CASE UNCHANGED vars
    BY <2>1 DEF vars, resumeVars
  <2>2. CASE v # NoValue /\ Fork(c, v)
    BY <2>2 DEF Fork, NextOrdinal
  <2>3. CASE /\ kind = "Ordinary"
             /\ ResumeDecision(c, v, kind)[1] = "ServeSupplied"
             /\ RecordAnswer(c, ForkKey(c, 0), v)
    <3>1. v # NoValue /\ ~interrupts[c].consumed
      BY <2>3 DEF ResumeDecision, NextOrdinal
    <3> QED
      BY <2>3, <3>1
  <2> QED
    BY <2>1, <2>2, <2>3 DEF ResolveResume
<1> QED
  BY <1>1, <1>2, <1>3, <1>4, <1>5, <1>6 DEF Next

\* Sequence numbers and the journal move together, except in a passed
\* validity_gate, which takes a number and journals nothing.
LEMMA SeqFrame ==
  ASSUME [Next]_vars
  PROVE  \/ UNCHANGED seqVars
         \/ \E kind \in OpKind, ref \in Task \cup {NoTask} : Journalled(kind, ref)
         \/ next_seq < MaxSeq /\ next_seq' = next_seq + 1 /\ UNCHANGED journal
BY DEF Next, vars, seqVars, OpKind, BeginEffect, CommitCheckpoint, RejectState,
       ValidityGate, SequenceOp, DeclareWrites, Fork, NextOrdinal, RecordAnswer,
       ResolveResume, Complete

\* Only declare_writes adds to the pending supersteps, and only a sequenced
\* put_writes removes from them.
LEMMA PendingFrame ==
  ASSUME [Next]_vars
  PROVE  \/ UNCHANGED pending_writes
         \/ \E t \in Task : pending_writes' = pending_writes \cup {t}
         \/ \E t \in Task \cup {NoTask} : /\ pending_writes' = pending_writes \ {t}
                                          /\ Journalled("PutWrites", t)
                                          /\ UNCHANGED ckptVars
BY DEF Next, vars, BeginEffect, CommitCheckpoint, RejectState,
       ValidityGate, SequenceOp, DeclareWrites, Fork, NextOrdinal, RecordAnswer,
       ResolveResume, Complete

-----------------------------------------------------------------------------
(* Type correctness.                                                       *)

\* The key of a fork within the bound is one of the branches.
LEMMA ForkKeyIsBranch ==
  ASSUME NEW c \in Checkpoint, NEW k \in 0 .. MaxResumes - 1
  PROVE  ForkKey(c, k) \in BranchKey
BY DEF ForkKey, BranchKey

\* Every operation keeps the shape of what the plane stores.
LEMMA TypeInductive ==
  /\ Init => TypeOK
  /\ TypeOK /\ [Next]_vars => TypeOK'
<1>1. Init => TypeOK
  <2> SUFFICES ASSUME Init PROVE TypeOK
    OBVIOUS
  <2>1. interrupts \in [Checkpoint -> InterruptState]
    BY DEF Init, InterruptState
  <2>2. ledger \in Seq(EffectRecord) /\ ckpts \in Seq(CheckpointRecord)
          /\ journal \in Seq(OpRecord)
    BY DEF Init
  <2>3. /\ frontier \in [BranchKey -> 0 .. MaxTask]
        /\ branch_value \in [BranchKey -> Value \cup {NoValue}]
    BY PlaneAssumption DEF Init
  <2>4. /\ fired \in SUBSET (BranchKey \X Task)
        /\ pending_writes \in SUBSET Task
        /\ completed \in BOOLEAN
    BY Zenon DEF Init
  <2>5. next_seq \in 0 .. MaxSeq
    BY PlaneAssumption DEF Init
  <2> QED
    BY <2>1, <2>2, <2>3, <2>4, <2>5 DEF TypeOK
<1>2. TypeOK /\ [Next]_vars => TypeOK'
  <2> SUFFICES ASSUME TypeOK, [Next]_vars PROVE TypeOK'
    OBVIOUS
  <2> USE PlaneAssumption
  <2>1. (ledger \in Seq(EffectRecord) /\ fired \in SUBSET (BranchKey \X Task))'
    <3>1. CASE UNCHANGED effectVars
      BY <3>1 DEF TypeOK, effectVars
    <3>2. ASSUME NEW b \in BranchKey, NEW t \in Task, Admits(b, t)
          PROVE  (ledger \in Seq(EffectRecord) /\ fired \in SUBSET (BranchKey \X Task))'
      <4>1. [branch |-> b, task |-> t, seq |-> next_seq] \in EffectRecord
        BY DEF TypeOK, EffectRecord
      <4>2. << b, t >> \in BranchKey \X Task
        OBVIOUS
      <4>3. (fired \in SUBSET (BranchKey \X Task))'
        BY <3>2, <4>2, Zenon DEF TypeOK, Admits
      <4>4. (ledger \in Seq(EffectRecord))'
        BY <3>2, <4>1 DEF TypeOK, Admits
      <4> QED
        BY <4>3, <4>4
    <3> QED
      BY <3>1, <3>2, EffectFrame
  <2>2. (ckpts \in Seq(CheckpointRecord) /\ frontier \in [BranchKey -> 0 .. MaxTask])'
    <3>1. CASE UNCHANGED ckptVars
      BY <3>1 DEF TypeOK, ckptVars
    <3>2. ASSUME NEW b \in BranchKey, NEW t \in Task, Commits(b, t)
          PROVE  (ckpts \in Seq(CheckpointRecord)
                    /\ frontier \in [BranchKey -> 0 .. MaxTask])'
      <4>1. [branch |-> b, task |-> t, seq |-> next_seq] \in CheckpointRecord
        BY DEF TypeOK, CheckpointRecord
      <4>2. t \in 0 .. MaxTask
        BY DEF Task
      <4> QED
        BY <3>2, <4>1, <4>2 DEF TypeOK, Commits
    <3> QED
      BY <3>1, <3>2, CkptFrame
  <2>3. (/\ branch_value \in [BranchKey -> Value \cup {NoValue}]
         /\ interrupts \in [Checkpoint -> InterruptState]
         /\ completed \in BOOLEAN)'
    <3>1. CASE UNCHANGED resumeVars
      BY <3>1 DEF TypeOK, resumeVars
    <3>2. CASE completed' = TRUE /\ UNCHANGED << branch_value, interrupts >>
      BY <3>2 DEF TypeOK
    <3>3. ASSUME NEW c \in Checkpoint, NEW v \in Value, NEW k, RecordAnswer(c, k, v)
          PROVE  (/\ branch_value \in [BranchKey -> Value \cup {NoValue}]
                  /\ interrupts \in [Checkpoint -> InterruptState]
                  /\ completed \in BOOLEAN)'
      <4>1. interrupts[c] \in InterruptState
        BY DEF TypeOK
      <4>2. [recorded |-> Append(interrupts[c].recorded, v), consumed |-> TRUE]
              \in InterruptState
        BY <4>1 DEF InterruptState
      <4> QED
        BY <3>3, <4>2 DEF TypeOK, RecordAnswer
    <3> QED
      BY <3>1, <3>2, <3>3, ResumeFrame
  <2>4. (journal \in Seq(OpRecord) /\ next_seq \in 0 .. MaxSeq)'
    <3>1. CASE UNCHANGED seqVars
      BY <3>1 DEF TypeOK, seqVars
    <3>2. ASSUME NEW kind \in OpKind, NEW ref \in Task \cup {NoTask},
                 Journalled(kind, ref)
          PROVE  (journal \in Seq(OpRecord) /\ next_seq \in 0 .. MaxSeq)'
      <4>1. [seq |-> next_seq, kind |-> kind, ref |-> ref] \in OpRecord
        BY DEF TypeOK, OpRecord
      <4> QED
        BY <3>2, <4>1 DEF TypeOK, Journalled
    <3>3. CASE next_seq < MaxSeq /\ next_seq' = next_seq + 1 /\ UNCHANGED journal
      BY <3>3 DEF TypeOK
    <3> QED
      BY <3>1, <3>2, <3>3, SeqFrame
  <2>5. (pending_writes \in SUBSET Task)'
    BY PendingFrame DEF TypeOK
  <2> QED
    BY <2>1, <2>2, <2>3, <2>4, <2>5 DEF TypeOK
<1> QED
  BY <1>1, <1>2

\* What the plane stores has the shape the code declares, forever.
THEOREM TypeCorrect == Spec => []TypeOK
BY TypeInductive, PTL DEF Spec

-----------------------------------------------------------------------------
(* EO: the fired set is exactly the set of keys in the ledger, so a key     *)
(* that is in the ledger is refused.                                        *)

FiredIsLedger ==
  \A b \in BranchKey, t \in Task :
    << b, t >> \in fired <=>
      \E i \in DOMAIN ledger : ledger[i].branch = b /\ ledger[i].task = t

EffectInv == FiredIsLedger /\ EffectOnce

\* Each (branch, task) effect is admitted at most once, on every plane.
THEOREM EffectOnceHolds == Spec => []EffectOnce
<1>1. Init => EffectInv
  BY DEF Init, EffectInv, FiredIsLedger, EffectOnce
<1>2. TypeOK /\ EffectInv /\ [Next]_vars => EffectInv'
  <2> SUFFICES ASSUME TypeOK, EffectInv, [Next]_vars PROVE EffectInv'
    OBVIOUS
  <2>1. CASE UNCHANGED effectVars
    BY <2>1 DEF EffectInv, FiredIsLedger, EffectOnce, effectVars
  <2>2. ASSUME NEW b \in BranchKey, NEW t \in Task, Admits(b, t)
        PROVE  EffectInv'
    <3> DEFINE new == [branch |-> b, task |-> t, seq |-> next_seq]
    <3>1. << b, t >> \notin fired
      BY <2>2 DEF Admits
    <3>2. fired' = fired \cup {<< b, t >>} /\ ledger' = Append(ledger, new)
      BY <2>2 DEF Admits
    <3>3. ledger \in Seq(EffectRecord)
      BY DEF TypeOK
    <3>4. /\ DOMAIN ledger' = DOMAIN ledger \cup {Len(ledger) + 1}
          /\ \A i \in DOMAIN ledger : ledger'[i] = ledger[i]
          /\ ledger'[Len(ledger) + 1] = new
          /\ Len(ledger) + 1 \notin DOMAIN ledger
      BY <3>2, <3>3
    <3>5. FiredIsLedger'
      <4> SUFFICES ASSUME NEW d \in BranchKey, NEW u \in Task
                   PROVE  << d, u >> \in fired' <=>
                            \E i \in DOMAIN ledger' :
                              ledger'[i].branch = d /\ ledger'[i].task = u
        BY DEF FiredIsLedger
      <4>1. CASE d = b /\ u = t
        BY <3>2, <3>4, <4>1
      <4>2. CASE ~ (d = b /\ u = t)
        <5>1. << d, u >> \in fired' <=> << d, u >> \in fired
          BY <3>2, <4>2
        <5>2. << d, u >> \in fired <=>
                \E i \in DOMAIN ledger : ledger[i].branch = d /\ ledger[i].task = u
          BY DEF EffectInv, FiredIsLedger
        <5> QED
          BY <3>4, <4>2, <5>1, <5>2
      <4> QED
        BY <4>1, <4>2
    <3>6. \A i \in DOMAIN ledger : ~ (ledger[i].branch = b /\ ledger[i].task = t)
      BY <3>1 DEF EffectInv, FiredIsLedger
    <3>7. EffectOnce'
      BY <3>4, <3>6 DEF EffectInv, EffectOnce
    <3> QED
      BY <3>5, <3>7 DEF EffectInv
  <2> QED
    BY <2>1, <2>2, EffectFrame
<1>3. EffectInv => EffectOnce
  BY DEF EffectInv
<1> QED
  BY <1>1, <1>2, <1>3, TypeCorrect, PTL DEF Spec

-----------------------------------------------------------------------------
(* PC: the durable tasks of a branch are 1 .. frontier, in order.          *)

\* Every operation keeps the checkpoints of a branch a prefix of its tasks.
LEMMA PrefixInductive ==
  /\ Init => DurablePrefix
  /\ TypeOK /\ DurablePrefix /\ [Next]_vars => DurablePrefix'
<1>1. Init => DurablePrefix
  BY DEF Init, DurablePrefix
<1>2. TypeOK /\ DurablePrefix /\ [Next]_vars => DurablePrefix'
  <2> SUFFICES ASSUME TypeOK, DurablePrefix, [Next]_vars PROVE DurablePrefix'
    OBVIOUS
  <2>1. CASE UNCHANGED ckptVars
    BY <2>1 DEF DurablePrefix, ckptVars
  <2>2. ASSUME NEW b \in BranchKey, NEW t \in Task, Commits(b, t)
        PROVE  DurablePrefix'
    <3> DEFINE new == [branch |-> b, task |-> t, seq |-> next_seq]
    <3>1. t = frontier[b] + 1
      BY <2>2 DEF Commits
    <3>2. /\ ckpts' = Append(ckpts, new)
          /\ frontier' = [frontier EXCEPT ![b] = t]
      BY <2>2 DEF Commits
    <3>3. ckpts \in Seq(CheckpointRecord) /\ frontier \in [BranchKey -> 0 .. MaxTask]
      BY DEF TypeOK
    <3>4. /\ DOMAIN ckpts = 1 .. Len(ckpts)
          /\ Len(ckpts) \in Nat
          /\ DOMAIN ckpts' = 1 .. (Len(ckpts) + 1)
          /\ \A i \in DOMAIN ckpts : ckpts'[i] = ckpts[i]
          /\ ckpts'[Len(ckpts) + 1] = new
      BY <3>2, <3>3
    <3>5. \A i \in DOMAIN ckpts : ckpts[i].branch \in BranchKey /\ ckpts[i].task \in Nat
      <4> SUFFICES ASSUME NEW i \in DOMAIN ckpts
                   PROVE  ckpts[i].branch \in BranchKey /\ ckpts[i].task \in Nat
        OBVIOUS
      <4>1. ckpts[i] \in CheckpointRecord
        BY <3>3
      <4> QED
        BY <4>1 DEF CheckpointRecord, Task
    <3>6. /\ frontier'[b] = frontier[b] + 1
          /\ \A d \in BranchKey : d # b => frontier'[d] = frontier[d]
          /\ \A d \in BranchKey : frontier[d] \in Nat
      BY <3>1, <3>2, <3>3, PlaneAssumption
    <3>7. \A i \in DOMAIN ckpts' : ckpts'[i].task \in 1 .. frontier'[ckpts'[i].branch]
      <4> SUFFICES ASSUME NEW i \in DOMAIN ckpts'
                   PROVE  ckpts'[i].task \in 1 .. frontier'[ckpts'[i].branch]
        OBVIOUS
      <4>1. CASE i \in DOMAIN ckpts
        BY <3>4, <3>5, <3>6, <4>1 DEF DurablePrefix
      <4>2. CASE i = Len(ckpts) + 1
        BY <3>1, <3>4, <3>6, <4>2
      <4> QED
        BY <3>4, <4>1, <4>2
    <3>8. \A d \in BranchKey : \A u \in 1 .. frontier'[d] :
            \E i \in DOMAIN ckpts' : ckpts'[i].branch = d /\ ckpts'[i].task = u
      <4> SUFFICES ASSUME NEW d \in BranchKey, NEW u \in 1 .. frontier'[d]
                   PROVE  \E i \in DOMAIN ckpts' :
                            ckpts'[i].branch = d /\ ckpts'[i].task = u
        OBVIOUS
      <4>1. CASE d = b /\ u = t
        BY <3>4, <4>1
      <4>2. CASE ~ (d = b /\ u = t)
        <5>1. u \in 1 .. frontier[d]
          BY <3>1, <3>6, <4>2
        <5>2. PICK i \in DOMAIN ckpts : ckpts[i].branch = d /\ ckpts[i].task = u
          BY <5>1 DEF DurablePrefix
        <5> QED
          BY <3>4, <5>2
      <4> QED
        BY <4>1, <4>2
    <3>9. \A i, j \in DOMAIN ckpts' :
            i < j /\ ckpts'[i].branch = ckpts'[j].branch
              => ckpts'[i].task < ckpts'[j].task
      <4> SUFFICES ASSUME NEW i \in DOMAIN ckpts', NEW j \in DOMAIN ckpts',
                          i < j, ckpts'[i].branch = ckpts'[j].branch
                   PROVE  ckpts'[i].task < ckpts'[j].task
        OBVIOUS
      <4>1. i \in DOMAIN ckpts
        BY <3>4
      <4>2. CASE j \in DOMAIN ckpts
        BY <3>4, <4>1, <4>2 DEF DurablePrefix
      <4>3. CASE j = Len(ckpts) + 1
        BY <3>1, <3>4, <3>5, <3>6, <4>1, <4>3 DEF DurablePrefix
      <4> QED
        BY <3>4, <4>2, <4>3
    <3> QED
      BY <3>7, <3>8, <3>9 DEF DurablePrefix
  <2> QED
    BY <2>1, <2>2, CkptFrame
<1> QED
  BY <1>1, <1>2

\* On each branch, the durable prefix grows by one task at a time, in order.
THEOREM DurablePrefixHolds == Spec => []DurablePrefix
BY PrefixInductive, TypeCorrect, PTL DEF Spec

\* Recovery executes exactly the tasks that the root branch has not made
\* durable: a consequence of the prefix, through the maximum recover takes.
LEMMA RecoverIsFrontier ==
  ASSUME TypeOK, DurablePrefix
  PROVE  /\ RootTasks(ckpts) = 1 .. frontier[Root]
         /\ Recover(ckpts) = frontier[Root] + 1
<1>1. Root \in BranchKey /\ frontier[Root] \in Nat
  BY PlaneAssumption DEF TypeOK, BranchKey
<1>2. RootTasks(ckpts) = 1 .. frontier[Root]
  BY <1>1 DEF RootTasks, DurablePrefix
<1>3. (CHOOSE f \in RootTasks(ckpts) \cup {0} :
         \A t \in RootTasks(ckpts) \cup {0} : t <= f) = frontier[Root]
  <2> DEFINE P(f) == \A t \in RootTasks(ckpts) \cup {0} : t <= f
             S == RootTasks(ckpts) \cup {0}
  <2>1. frontier[Root] \in S /\ P(frontier[Root])
    BY <1>1, <1>2
  <2>2. \A f \in S : P(f) => f = frontier[Root]
    BY <1>1, <1>2
  <2> QED
    BY <2>1, <2>2
<1> QED
  BY <1>1, <1>2, <1>3 DEF Recover

\* resume_completed's plan skips the tasks durable on the root branch, and no
\* other, whatever forks made durable in between.
THEOREM RecoveryPlanExactHolds == Spec => []RecoveryPlanExact
<1>1. TypeOK /\ DurablePrefix => RecoveryPlanExact
  <2> SUFFICES ASSUME TypeOK, DurablePrefix, NEW total \in 0 .. MaxTask
               PROVE  PlanSkips(ckpts, total) =
                        {t \in 1 .. total : \E i \in DOMAIN ckpts :
                           ckpts[i].branch = Root /\ ckpts[i].task = t}
    BY DEF RecoveryPlanExact
  <2>1. Recover(ckpts) = frontier[Root] + 1 /\ frontier[Root] \in Nat
    BY RecoverIsFrontier, PlaneAssumption DEF TypeOK, BranchKey
  <2>2. \A t \in 1 .. total : t < Recover(ckpts) <=> t \in RootTasks(ckpts)
    BY <2>1, RecoverIsFrontier
  <2> QED
    BY <2>2 DEF PlanSkips, RootTasks
<1> QED
  BY <1>1, TypeCorrect, DurablePrefixHolds, PTL

-----------------------------------------------------------------------------
(* RD: one counter numbers every operation.                                *)

SeqBounded == \A i \in DOMAIN journal : journal[i].seq < next_seq

JournalInv == SeqBounded /\ JournalTotalOrder

\* The journal is totally ordered and accounts for every effect and every
\* checkpoint.
THEOREM JournalTotalOrderHolds == Spec => []JournalTotalOrder
<1>1. Init => JournalInv
  BY DEF Init, JournalInv, SeqBounded, JournalTotalOrder
<1>2. TypeOK /\ JournalInv /\ [Next]_vars => JournalInv'
  <2> SUFFICES ASSUME TypeOK, JournalInv, [Next]_vars PROVE JournalInv'
    OBVIOUS
  <2>0. /\ journal \in Seq(OpRecord) /\ next_seq \in Nat
        /\ \A i \in DOMAIN journal : journal[i].seq \in Nat
    <3>1. journal \in Seq(OpRecord) /\ next_seq \in Nat
      BY PlaneAssumption DEF TypeOK
    <3>2. ASSUME NEW i \in DOMAIN journal PROVE journal[i].seq \in Nat
      <4>1. journal[i] \in OpRecord
        BY <3>1
      <4> QED
        BY <4>1 DEF OpRecord
    <3> QED
      BY <3>1, <3>2
  <2>1. ASSUME NEW kind, NEW ref, Journalled(kind, ref)
        PROVE  /\ DOMAIN journal' = DOMAIN journal \cup {Len(journal) + 1}
               /\ \A i \in DOMAIN journal : journal'[i] = journal[i]
               /\ journal'[Len(journal) + 1] =
                    [seq |-> next_seq, kind |-> kind, ref |-> ref]
               /\ next_seq' = next_seq + 1
    BY <2>0, <2>1 DEF Journalled
  <2>2. /\ \A i \in DOMAIN journal : i \in DOMAIN journal' /\ journal'[i] = journal[i]
        /\ SeqBounded'
        /\ \A i, j \in DOMAIN journal' : i < j => journal'[i].seq < journal'[j].seq
    <3>1. CASE UNCHANGED seqVars
      BY <3>1 DEF seqVars, JournalInv, SeqBounded, JournalTotalOrder
    <3>2. CASE next_seq < MaxSeq /\ next_seq' = next_seq + 1 /\ UNCHANGED journal
      BY <2>0, <3>2 DEF JournalInv, SeqBounded, JournalTotalOrder
    <3>3. ASSUME NEW kind \in OpKind, NEW ref \in Task \cup {NoTask},
                 Journalled(kind, ref)
          PROVE  /\ \A i \in DOMAIN journal :
                      i \in DOMAIN journal' /\ journal'[i] = journal[i]
                 /\ SeqBounded'
                 /\ \A i, j \in DOMAIN journal' :
                      i < j => journal'[i].seq < journal'[j].seq
      <4> DEFINE n == Len(journal) + 1
      <4>1. /\ DOMAIN journal = 1 .. Len(journal)
            /\ Len(journal) \in Nat
            /\ DOMAIN journal' = 1 .. n
            /\ \A i \in DOMAIN journal : journal'[i] = journal[i]
            /\ journal'[n].seq = next_seq
            /\ next_seq' = next_seq + 1
        BY <2>0, <3>3 DEF Journalled
      <4> HIDE DEF n
      <4>2. \A i \in DOMAIN journal :
              journal[i].seq < next_seq /\ journal'[i].seq = journal[i].seq
        BY <4>1 DEF JournalInv, SeqBounded
      <4>3. \A i \in DOMAIN journal' : i \in DOMAIN journal \/ i = n
        BY <4>1 DEF n
      <4>4. SeqBounded'
        BY <2>0, <4>1, <4>2, <4>3 DEF SeqBounded
      <4>5. ASSUME NEW i \in DOMAIN journal', NEW j \in DOMAIN journal', i < j
            PROVE  journal'[i].seq < journal'[j].seq
        <5>1. i \in DOMAIN journal
          BY <4>1, <4>5 DEF n
        <5>2. CASE j \in DOMAIN journal
          BY <4>2, <4>5, <5>1, <5>2 DEF JournalInv, JournalTotalOrder
        <5>3. CASE j = n
          BY <4>1, <4>2, <5>1, <5>3
        <5> QED
          BY <4>3, <5>2, <5>3
      <4>6. \A i \in DOMAIN journal : i \in DOMAIN journal'
        BY <4>1 DEF n
      <4> QED
        BY <4>1, <4>4, <4>5, <4>6
    <3> QED
      BY <3>1, <3>2, <3>3, SeqFrame
  <2>3. \A i \in DOMAIN ledger' : \E j \in DOMAIN journal' :
          journal'[j] = [seq |-> ledger'[i].seq, kind |-> "EffectAdmitted",
                         ref |-> ledger'[i].task]
    <3>1. CASE UNCHANGED effectVars
      BY <2>2, <3>1 DEF effectVars, JournalInv, JournalTotalOrder
    <3>2. ASSUME NEW b \in BranchKey, NEW t \in Task, Admits(b, t),
                 NEW i \in DOMAIN ledger'
          PROVE  \E j \in DOMAIN journal' :
                   journal'[j] = [seq |-> ledger'[i].seq, kind |-> "EffectAdmitted",
                                  ref |-> ledger'[i].task]
      <4>1. /\ ledger \in Seq(EffectRecord)
            /\ ledger' = Append(ledger, [branch |-> b, task |-> t, seq |-> next_seq])
            /\ Journalled("EffectAdmitted", t)
        BY <3>2 DEF Admits, TypeOK
      <4>2. CASE i \in DOMAIN ledger
        <5>1. ledger'[i] = ledger[i]
          BY <4>1, <4>2
        <5> QED
          BY <2>2, <4>2, <5>1 DEF JournalInv, JournalTotalOrder
      <4>3. CASE i = Len(ledger) + 1
        <5>1. ledger'[i].seq = next_seq /\ ledger'[i].task = t
          BY <4>1, <4>3
        <5> QED
          BY <2>1, <4>1, <5>1
      <4> QED
        BY <3>2, <4>1, <4>2, <4>3
    <3> QED
      BY <3>1, <3>2, EffectFrame
  <2>4. \A i \in DOMAIN ckpts' : \E j \in DOMAIN journal' :
          journal'[j] = [seq |-> ckpts'[i].seq, kind |-> "Put", ref |-> ckpts'[i].task]
    <3>1. CASE UNCHANGED ckptVars
      BY <2>2, <3>1 DEF ckptVars, JournalInv, JournalTotalOrder
    <3>2. ASSUME NEW b \in BranchKey, NEW t \in Task, Commits(b, t),
                 NEW i \in DOMAIN ckpts'
          PROVE  \E j \in DOMAIN journal' :
                   journal'[j] = [seq |-> ckpts'[i].seq, kind |-> "Put",
                                  ref |-> ckpts'[i].task]
      <4>1. /\ ckpts \in Seq(CheckpointRecord)
            /\ ckpts' = Append(ckpts, [branch |-> b, task |-> t, seq |-> next_seq])
            /\ Journalled("Put", t)
        BY <3>2 DEF Commits, TypeOK
      <4>2. CASE i \in DOMAIN ckpts
        <5>1. ckpts'[i] = ckpts[i]
          BY <4>1, <4>2
        <5> QED
          BY <2>2, <4>2, <5>1 DEF JournalInv, JournalTotalOrder
      <4>3. CASE i = Len(ckpts) + 1
        <5>1. ckpts'[i].seq = next_seq /\ ckpts'[i].task = t
          BY <4>1, <4>3
        <5> QED
          BY <2>1, <4>1, <5>1
      <4> QED
        BY <3>2, <4>1, <4>2, <4>3
    <3> QED
      BY <3>1, <3>2, CkptFrame
  <2> QED
    BY <2>2, <2>3, <2>4 DEF JournalInv, JournalTotalOrder
<1>3. JournalInv => JournalTotalOrder
  BY DEF JournalInv
<1> QED
  BY <1>1, <1>2, <1>3, TypeCorrect, PTL DEF Spec

-----------------------------------------------------------------------------
(* FD and CO: an interrupt is spent exactly when an answer is recorded, and *)
(* the branches are the recorded answers.                                  *)

SpentIffAnswered ==
  \A c \in Checkpoint : interrupts[c].consumed <=> interrupts[c].recorded # << >>

ResumeInv == SpentIffAnswered /\ BranchPerAnswer

\* Every step that touches an interrupt records one more answer, under the
\* ordinal that is its position, and creates that branch afresh.
LEMMA AnswerStep ==
  ASSUME TypeOK, ResumeInv, [Next]_vars
  PROVE  \/ UNCHANGED << branch_value, interrupts >>
         \/ \E c \in Checkpoint, v \in Value :
              /\ Len(interrupts[c].recorded) < MaxResumes
              /\ RecordAnswer(c, ForkKey(c, Len(interrupts[c].recorded)), v)
<1>1. \A c \in Checkpoint :
        /\ interrupts[c].recorded \in Seq(Value)
        /\ ~interrupts[c].consumed => Len(interrupts[c].recorded) = 0
  BY DEF TypeOK, InterruptState, ResumeInv, SpentIffAnswered
<1> QED
  BY <1>1, ResumeFrame DEF resumeVars, RecordAnswer

\* What ties branches to answers is preserved by every step of a plane.
LEMMA ResumeInvInductive ==
  /\ Init => ResumeInv
  /\ TypeOK /\ ResumeInv /\ [Next]_vars => ResumeInv'
<1>1. Init => ResumeInv
  <2> SUFFICES ASSUME Init PROVE ResumeInv
    OBVIOUS
  <2>1. SpentIffAnswered
    BY DEF Init, SpentIffAnswered
  <2>2. BranchPerAnswer
    BY ForkKeyIsBranch, PlaneAssumption DEF Init, BranchPerAnswer
  <2> QED
    BY <2>1, <2>2 DEF ResumeInv
<1>2. TypeOK /\ ResumeInv /\ [Next]_vars => ResumeInv'
  <2> SUFFICES ASSUME TypeOK, ResumeInv, [Next]_vars PROVE ResumeInv'
    OBVIOUS
  <2>1. CASE UNCHANGED << branch_value, interrupts >>
    BY <2>1 DEF ResumeInv, SpentIffAnswered, BranchPerAnswer
  <2>2. ASSUME NEW c \in Checkpoint, NEW v \in Value,
               Len(interrupts[c].recorded) < MaxResumes,
               RecordAnswer(c, ForkKey(c, Len(interrupts[c].recorded)), v)
        PROVE  ResumeInv'
    <3> DEFINE old == interrupts[c].recorded
               b == ForkKey(c, Len(old))
    <3>1. /\ old \in Seq(Value)
          /\ Len(old) \in 0 .. MaxResumes - 1
      BY <2>2, PlaneAssumption DEF TypeOK, InterruptState
    <3>2. /\ interrupts'[c] = [recorded |-> Append(old, v), consumed |-> TRUE]
          /\ \A d \in Checkpoint : d # c => interrupts'[d] = interrupts[d]
      BY <2>2 DEF RecordAnswer, TypeOK
    <3>3. /\ b \in BranchKey
          /\ branch_value'[b] = v
          /\ \A d \in BranchKey : d # b => branch_value'[d] = branch_value[d]
      BY <2>2, <3>1, ForkKeyIsBranch DEF RecordAnswer, TypeOK
    <3>4. /\ Append(old, v) # << >>
          /\ Len(Append(old, v)) = Len(old) + 1
          /\ \A k \in 0 .. Len(old) - 1 : Append(old, v)[k + 1] = old[k + 1]
          /\ Append(old, v)[Len(old) + 1] = v
      BY <3>1
    <3>5. SpentIffAnswered'
      <4> SUFFICES ASSUME NEW d \in Checkpoint
                   PROVE  interrupts'[d].consumed <=> interrupts'[d].recorded # << >>
        BY DEF SpentIffAnswered
      <4>1. CASE d = c
        BY <3>2, <3>4, <4>1
      <4>2. CASE d # c
        BY <3>2, <4>2 DEF ResumeInv, SpentIffAnswered
      <4> QED
        BY <4>1, <4>2
    <3>6. BranchPerAnswer'
      <4> SUFFICES ASSUME NEW d \in Checkpoint, NEW k \in 0 .. MaxResumes - 1
                   PROVE  branch_value'[ForkKey(d, k)] =
                            IF k < Len(interrupts'[d].recorded)
                            THEN interrupts'[d].recorded[k + 1] ELSE NoValue
        BY DEF BranchPerAnswer
      <4>0. branch_value[ForkKey(d, k)] =
              IF k < Len(interrupts[d].recorded)
              THEN interrupts[d].recorded[k + 1] ELSE NoValue
        BY DEF ResumeInv, BranchPerAnswer
      <4>1. ForkKey(d, k) = b <=> d = c /\ k = Len(old)
        BY DEF ForkKey
      <4>2. ForkKey(d, k) \in BranchKey
        BY ForkKeyIsBranch
      <4>3. CASE d # c
        BY <3>2, <3>3, <4>0, <4>1, <4>2, <4>3
      <4>4. CASE d = c /\ k = Len(old)
        BY <3>1, <3>2, <3>3, <3>4, <4>1, <4>4
      <4>5. CASE d = c /\ k # Len(old)
        <5>1. branch_value'[ForkKey(d, k)] = branch_value[ForkKey(d, k)]
          BY <3>3, <4>1, <4>2, <4>5
        <5>2. k < Len(Append(old, v)) <=> k < Len(old)
          BY <3>1, <3>4, <4>5
        <5>3. k < Len(old) => Append(old, v)[k + 1] = old[k + 1]
          BY <3>1, <3>4
        <5> QED
          BY <3>2, <4>0, <4>5, <5>1, <5>2, <5>3
      <4> QED
        BY <4>3, <4>4, <4>5
    <3> QED
      BY <3>5, <3>6 DEF ResumeInv
  <2> QED
    BY <2>1, <2>2, AnswerStep
<1> QED
  BY <1>1, <1>2

\* It therefore holds in every reachable state.
LEMMA ResumeInvHolds == Spec => []ResumeInv
BY ResumeInvInductive, TypeCorrect, PTL DEF Spec

\* Branches are numbered without gap and hold the answer they were made with.
THEOREM BranchPerAnswerHolds == Spec => []BranchPerAnswer
<1>1. ResumeInv => BranchPerAnswer
  BY DEF ResumeInv
<1> QED
  BY <1>1, ResumeInvHolds, PTL

\* An answered interrupt is never ordinarily answered again.
THEOREM ConsumeOnceHolds == Spec => []ConsumeOnce
<1>1. ResumeInv => ConsumeOnce
  BY DEF ResumeInv, SpentIffAnswered, ConsumeOnce, ResumeDecision, NextOrdinal
<1> QED
  BY <1>1, ResumeInvHolds, PTL

\* No step of a plane changes the outcome of a branch that has one.
LEMMA OutcomeStep ==
  ASSUME TypeOK, ResumeInv, [Next]_vars, NEW b \in BranchKey,
         branch_value[b] # NoValue
  PROVE  branch_value'[b] = branch_value[b]
<1>1. CASE UNCHANGED << branch_value, interrupts >>
  BY <1>1
<1>2. ASSUME NEW c \in Checkpoint, NEW v \in Value,
             Len(interrupts[c].recorded) < MaxResumes,
             RecordAnswer(c, ForkKey(c, Len(interrupts[c].recorded)), v)
      PROVE  branch_value'[b] = branch_value[b]
  <2> DEFINE k == Len(interrupts[c].recorded)
  <2>1. k \in 0 .. MaxResumes - 1
    BY <1>2, PlaneAssumption DEF TypeOK, InterruptState
  <2>2. branch_value[ForkKey(c, k)] = NoValue
    BY <2>1 DEF ResumeInv, BranchPerAnswer
  <2>3. branch_value' = [branch_value EXCEPT ![ForkKey(c, k)] = v]
    BY <1>2 DEF RecordAnswer
  <2> QED
    BY <2>2, <2>3 DEF TypeOK
<1> QED
  BY <1>1, <1>2, AnswerStep

\* The outcome of a branch is fixed by the answer that created it.
THEOREM OutcomeStableHolds == Spec => OutcomeStable
<1>1. TypeOK /\ ResumeInv /\ [Next]_vars
        => [\A b \in BranchKey :
              branch_value[b] # NoValue => branch_value'[b] = branch_value[b]]_vars
  BY OutcomeStep
<1> QED
  BY <1>1, ResumeInvHolds, TypeCorrect, PTL DEF Spec, OutcomeStable

\* Every replay of an interrupt serves the same answer.
THEOREM ReplayStableHolds == Spec => ReplayStable
<1>1. TypeOK /\ ResumeInv /\ [Next]_vars
        => [\A c \in Checkpoint :
              ReplayDecision(c) # << "Inert" >>
                => ReplayDecision(c)' = ReplayDecision(c)]_vars
  <2> SUFFICES ASSUME TypeOK, ResumeInv, [Next]_vars, NEW d \in Checkpoint,
                      ReplayDecision(d) # << "Inert" >>
               PROVE  ReplayDecision(d)' = ReplayDecision(d)
    OBVIOUS
  <2>0. interrupts[d].recorded \in Seq(Value) /\ interrupts[d].recorded # << >>
    BY DEF TypeOK, InterruptState, ReplayDecision
  <2>1. CASE UNCHANGED << branch_value, interrupts >>
    BY <2>1 DEF ReplayDecision
  <2>2. ASSUME NEW c \in Checkpoint, NEW v \in Value,
               RecordAnswer(c, ForkKey(c, Len(interrupts[c].recorded)), v)
        PROVE  ReplayDecision(d)' = ReplayDecision(d)
    <3>1. \/ interrupts'[d] = interrupts[d]
          \/ interrupts'[d].recorded = Append(interrupts[d].recorded, v)
      BY <2>2 DEF RecordAnswer, TypeOK
    <3>2. /\ Append(interrupts[d].recorded, v) # << >>
          /\ Head(Append(interrupts[d].recorded, v)) = Head(interrupts[d].recorded)
      BY <2>0
    <3> QED
      BY <2>0, <3>1, <3>2 DEF ReplayDecision
  <2> QED
    BY <2>1, <2>2, AnswerStep
<1> QED
  BY <1>1, ResumeInvHolds, TypeCorrect, PTL DEF Spec, ReplayStable

-----------------------------------------------------------------------------
(* RD: declared writes are sequenced before the checkpoint that needs them. *)

\* Only a sequenced put_writes releases a superstep, and a checkpoint is made
\* durable only for a released one.
THEOREM WritesBeforeCheckpointHolds == Spec => WritesBeforeCheckpoint
<1> DEFINE Released ==
             \A t \in pending_writes \ pending_writes' :
               /\ Len(journal') > Len(journal)
               /\ journal'[Len(journal')].kind = "PutWrites"
               /\ journal'[Len(journal')].ref = t
           Ordered ==
             \A i \in DOMAIN ckpts' \ DOMAIN ckpts : ckpts'[i].task \notin pending_writes
<1>1. TypeOK /\ [Next]_vars => Released /\ Ordered
  <2> SUFFICES ASSUME TypeOK, [Next]_vars PROVE Released /\ Ordered
    OBVIOUS
  <2>1. Released
    <3> SUFFICES ASSUME NEW t \in pending_writes \ pending_writes'
                 PROVE  /\ Len(journal') > Len(journal)
                        /\ journal'[Len(journal')].kind = "PutWrites"
                        /\ journal'[Len(journal')].ref = t
      OBVIOUS
    <3>1. Journalled("PutWrites", t)
      BY PendingFrame
    <3>2. /\ journal' = Append(journal,
                               [seq |-> next_seq, kind |-> "PutWrites", ref |-> t])
          /\ journal \in Seq(OpRecord)
      BY <3>1 DEF Journalled, TypeOK
    <3>3. Len(journal') = Len(journal) + 1 /\ Len(journal) \in Nat
      BY <3>2
    <3>4. journal'[Len(journal) + 1] =
            [seq |-> next_seq, kind |-> "PutWrites", ref |-> t]
      BY <3>2
    <3> QED
      BY <3>3, <3>4
  <2>2. Ordered
    <3>1. CASE UNCHANGED ckptVars
      BY <3>1 DEF ckptVars
    <3>2. ASSUME NEW b \in BranchKey, NEW t \in Task, Commits(b, t)
          PROVE  Ordered
      <4>1. /\ ckpts \in Seq(CheckpointRecord)
            /\ ckpts' = Append(ckpts, [branch |-> b, task |-> t, seq |-> next_seq])
            /\ t \notin pending_writes
        BY <3>2 DEF Commits, TypeOK
      <4>2. /\ DOMAIN ckpts' = DOMAIN ckpts \cup {Len(ckpts) + 1}
            /\ ckpts'[Len(ckpts) + 1].task = t
        BY <4>1
      <4> QED
        BY <4>1, <4>2
    <3> QED
      BY <3>1, <3>2, CkptFrame
  <2> QED
    BY <2>1, <2>2
<1>2. TypeOK /\ [Next]_vars => [Released /\ Ordered]_vars
  BY <1>1
<1> QED
  BY <1>2, TypeCorrect, PTL DEF Spec, WritesBeforeCheckpoint

-----------------------------------------------------------------------------
(* The plane implements the reference sequencer.                           *)

\* Mapped through LedgerOf and NumberedLog, every step of a plane is a step of
\* crates/remit or leaves what crates/remit keeps unchanged.
THEOREM PlaneImplementsReference == Spec => ImplementsReference
<1>1. Init => Reference!Init
  BY DEF Init, Reference!Init, LedgerOf, NumberedLog
<1>2. TypeOK /\ ResumeInv /\ [Next]_vars => [Reference!Next]_(Reference!vars)
  <2> SUFFICES ASSUME TypeOK, ResumeInv, [Next]_vars
               PROVE  [Reference!Next]_(Reference!vars)
    OBVIOUS
  <2>1. CASE UNCHANGED << effectVars, ckptVars, branch_value >>
    BY <2>1 DEF effectVars, ckptVars, Reference!vars, LedgerOf, NumberedLog
  <2>2. ASSUME NEW b \in BranchKey, NEW t \in Task, Admits(b, t),
               UNCHANGED branch_value
        PROVE  Reference!Next
    <3>1. /\ ledger \in Seq(EffectRecord)
          /\ ledger' = Append(ledger, [branch |-> b, task |-> t, seq |-> next_seq])
      BY <2>2 DEF Admits, TypeOK
    <3>2. LedgerOf(ledger') = Append(LedgerOf(ledger), [branch |-> b, task |-> t])
      BY <3>1 DEF LedgerOf
    <3>3. Reference!BeginEffect(b, t)
      BY <2>2, <3>2 DEF Reference!BeginEffect, Admits, ckptVars, NumberedLog
    <3> QED
      BY <3>3 DEF Reference!Next, Reference!Task, Task
  <2>3. ASSUME NEW b \in BranchKey, NEW t \in Task, Commits(b, t),
               UNCHANGED branch_value
        PROVE  Reference!Next
    <3>1. /\ ckpts \in Seq(CheckpointRecord)
          /\ ckpts' = Append(ckpts, [branch |-> b, task |-> t, seq |-> next_seq])
      BY <2>3 DEF Commits, TypeOK
    <3>2. /\ Len(NumberedLog(ckpts)) = Len(ckpts)
          /\ NumberedLog(ckpts') =
               Append(NumberedLog(ckpts),
                      [branch |-> b, task |-> t, seq |-> Len(ckpts)])
      BY <3>1 DEF NumberedLog
    <3>3. Reference!CommitCheckpoint(b, t)
      BY <2>3, <3>2 DEF Reference!CommitCheckpoint, Commits, effectVars, LedgerOf
    <3> QED
      BY <3>3 DEF Reference!Next, Reference!Task, Task
  <2>4. ASSUME NEW c \in Checkpoint, NEW v \in Value,
               Len(interrupts[c].recorded) < MaxResumes,
               RecordAnswer(c, ForkKey(c, Len(interrupts[c].recorded)), v)
        PROVE  Reference!Next
    <3>1. ForkKey(c, Len(interrupts[c].recorded))
            \in [checkpoint_id : Checkpoint, resume_index : 0 .. MaxResumes - 1]
      BY <2>4, PlaneAssumption DEF ForkKey, TypeOK, InterruptState
    <3>2. Reference!Fork(ForkKey(c, Len(interrupts[c].recorded)), v)
      BY <2>4 DEF Reference!Fork, NextOrdinal, RecordAnswer, effectVars, ckptVars,
                  LedgerOf, NumberedLog
    <3> QED
      BY <3>1, <3>2 DEF Reference!Next
  <2>5. \/ UNCHANGED branch_value
        \/ UNCHANGED << effectVars, ckptVars >>
      BY ResumeFrame DEF resumeVars, RecordAnswer
  <2> QED
    BY <2>1, <2>2, <2>3, <2>4, <2>5, EffectFrame, CkptFrame, AnswerStep
       DEF Admits, Commits, RecordAnswer
<1> QED
  BY <1>1, <1>2, ResumeInvHolds, TypeCorrect, PTL
     DEF Spec, ImplementsReference, Reference!Spec
=============================================================================
