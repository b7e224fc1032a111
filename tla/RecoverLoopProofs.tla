------------------------- MODULE RecoverLoopProofs -------------------------
(* The loop of crates/remit computes remit-core's recover, for every width *)
(* of TaskId and every log.                                                *)
EXTENDS RecoverLoop, SequenceTheorems, TLAPS

LoopTypeOK ==
  /\ log \in Seq(Record)
  /\ phase \in {"collect", "scan", "done", "panicked"}
  /\ taken \in 0 .. Len(log)
  /\ tasks \in Seq(TaskId)
  /\ i \in 0 .. Len(tasks)
  /\ f \in TaskId

\* What was collected are the root tasks among the records passed so far.
CollectInv ==
  /\ \A t \in TaskId :
       (\E k \in 1 .. Len(tasks) : tasks[k] = t) <=>
       (\E k \in 1 .. taken : log[k].branch = RootBranch /\ log[k].task = t)
  /\ phase # "collect" => taken = Len(log)

\* f is the largest of 0 and the tasks scanned so far.
ScanInv ==
  /\ f = 0 \/ \E k \in 1 .. i : tasks[k] = f
  /\ \A k \in 1 .. i : tasks[k] <= f
  /\ phase \in {"done", "panicked"} => i = Len(tasks)
  /\ phase = "done" => next = (f + 1) % Width
  /\ phase = "panicked" => f + 1 = Width

LoopInv == LoopTypeOK /\ CollectInv /\ ScanInv

\* A log of the bound is a sequence of records.
LEMMA LogsAreSequences == \A l \in Logs : l \in Seq(Record)
BY DEF Logs

\* The loops keep LoopInv.
LEMMA LoopInvInductive ==
  /\ Init => LoopInv
  /\ LoopInv /\ [Next]_vars => LoopInv'
<1> USE LoopAssumption
<1>1. Init => LoopInv
  <2> SUFFICES ASSUME Init PROVE LoopInv
    OBVIOUS
  <2>1. log \in Seq(Record) /\ tasks = << >> /\ tasks \in Seq(TaskId) /\ 0 \in TaskId
    BY LogsAreSequences DEF Init, TaskId
  <2>2. LoopTypeOK
    BY <2>1, LenProperties DEF Init, LoopTypeOK
  <2>3. CollectInv /\ ScanInv
    BY <2>1 DEF Init, CollectInv, ScanInv
  <2> QED
    BY <2>2, <2>3 DEF LoopInv
<1>2. ASSUME LoopInv, [Next]_vars
      PROVE  LoopInv'
  <2>1. /\ log \in Seq(Record) /\ tasks \in Seq(TaskId)
        /\ taken \in 0 .. Len(log) /\ i \in 0 .. Len(tasks) /\ f \in TaskId
        /\ Len(log) \in Nat /\ Len(tasks) \in Nat
    BY <1>2, LenProperties DEF LoopInv, LoopTypeOK
  <2>2. CASE UNCHANGED vars
    BY <1>2, <2>2 DEF vars, LoopInv, LoopTypeOK, CollectInv, ScanInv
  <2>3. CASE Collect
    <3> DEFINE r == log[taken + 1]
    <3>1. r \in Record /\ taken + 1 \in 1 .. Len(log)
      BY <2>1, <2>3, ElementOfSeq DEF Collect
    <3>2. r.task \in TaskId
      BY <3>1 DEF Record
    <3>3. CASE r.branch # RootBranch
      <4>1. UNCHANGED << log, phase, tasks, i, f, next >> /\ taken' = taken + 1
        BY <2>3, <3>3 DEF Collect
      <4> QED
        BY <1>2, <2>1, <2>3, <3>1, <3>3, <4>1
           DEF LoopInv, LoopTypeOK, CollectInv, ScanInv, Collect
    <3>4. CASE r.branch = RootBranch
      <4>1. /\ UNCHANGED << log, phase, i, f, next >> /\ taken' = taken + 1
            /\ tasks' = Append(tasks, r.task) /\ phase = "collect"
        BY <2>3, <3>4 DEF Collect
      <4>2. /\ tasks' \in Seq(TaskId) /\ Len(tasks') = Len(tasks) + 1
            /\ \A k \in 1 .. Len(tasks) : tasks'[k] = tasks[k]
            /\ tasks'[Len(tasks) + 1] = r.task
        BY <2>1, <3>2, <4>1, AppendProperties
      <4>3. LoopTypeOK'
        BY <1>2, <2>1, <3>1, <4>1, <4>2 DEF LoopInv, LoopTypeOK
      <4>4. ScanInv'
        BY <1>2, <2>1, <4>1, <4>2 DEF LoopInv, ScanInv
      <4>5. CollectInv'
        <5> SUFFICES ASSUME NEW t \in TaskId
                     PROVE  (\E k \in 1 .. Len(tasks) + 1 : tasks'[k] = t) <=>
                            (\E k \in 1 .. taken + 1 : log[k].branch = RootBranch /\ log[k].task = t)
          BY <4>1, <4>2 DEF CollectInv
        <5>1. (\E k \in 1 .. Len(tasks) + 1 : tasks'[k] = t) <=>
              (\E k \in 1 .. Len(tasks) : tasks[k] = t) \/ r.task = t
          BY <2>1, <4>2
        <5>2. (\E k \in 1 .. taken + 1 : log[k].branch = RootBranch /\ log[k].task = t) <=>
              (\E k \in 1 .. taken : log[k].branch = RootBranch /\ log[k].task = t) \/ r.task = t
          BY <2>1, <3>4
        <5> QED
          BY <1>2, <5>1, <5>2 DEF LoopInv, CollectInv
      <4> QED
        BY <4>3, <4>4, <4>5 DEF LoopInv
    <3> QED
      BY <3>3, <3>4
  <2>4. CASE Collected
    BY <1>2, <2>4 DEF Collected, LoopInv, LoopTypeOK, CollectInv, ScanInv
  <2>5. CASE Scan
    <3>1. tasks[i + 1] \in TaskId /\ i + 1 \in 1 .. Len(tasks)
      BY <2>1, <2>5, ElementOfSeq DEF Scan
    <3>2. LoopTypeOK' /\ CollectInv'
      BY <1>2, <2>1, <2>5, <3>1 DEF Scan, LoopInv, LoopTypeOK, CollectInv
    <3>3. ScanInv'
      <4>1. \A k \in 1 .. Len(tasks) : tasks[k] \in Nat
        BY <2>1, ElementOfSeq DEF TaskId
      <4>2. /\ f \in Nat /\ \A k \in 1 .. i : tasks[k] <= f
            /\ f = 0 \/ \E k \in 1 .. i : tasks[k] = f
        BY <1>2, <2>1 DEF LoopInv, ScanInv, TaskId
      <4>3. /\ f' = IF tasks[i + 1] > f THEN tasks[i + 1] ELSE f
            /\ i' = i + 1 /\ phase' = "scan" /\ UNCHANGED tasks
        BY <2>5 DEF Scan
      <4>4. \A k \in 1 .. i + 1 : k \in 1 .. i \/ k = i + 1
        BY <2>1
      <4>5. \A k \in 1 .. i + 1 : tasks[k] <= f'
        BY <2>1, <3>1, <4>1, <4>2, <4>3, <4>4
      <4>6. f' = 0 \/ \E k \in 1 .. i + 1 : tasks[k] = f'
        <5>1. CASE f' = f
          BY <2>1, <4>2, <5>1
        <5>2. CASE f' = tasks[i + 1]
          BY <3>1, <2>1, <5>2
        <5> QED
          BY <4>3, <5>1, <5>2
      <4> QED
        BY <4>3, <4>5, <4>6 DEF ScanInv
    <3> QED
      BY <3>2, <3>3 DEF LoopInv
  <2>6. CASE Return
    BY <1>2, <2>6 DEF Return, LoopInv, LoopTypeOK, CollectInv, ScanInv
  <2> QED
    BY <1>2, <2>2, <2>3, <2>4, <2>5, <2>6 DEF Next
<1> QED
  BY <1>1, <1>2

\* When the loops are done, f is the frontier remit-core takes the maximum for.
LEMMA ScannedFrontier ==
  ASSUME LoopInv, phase \in {"done", "panicked"}
  PROVE  /\ f = Frontier(log)
         /\ f \in RootTasks(log) \cup {0}
         /\ \A t \in RootTasks(log) : t \in TaskId /\ t <= f
<1> USE LoopAssumption
<1>1. /\ log \in Seq(Record) /\ taken = Len(log) /\ i = Len(tasks) /\ f \in TaskId
      /\ DOMAIN log = 1 .. Len(log) /\ tasks \in Seq(TaskId)
  BY LenProperties DEF LoopInv, LoopTypeOK, CollectInv, ScanInv
<1>2. \A k \in 1 .. Len(log) : log[k].task \in TaskId
  <2>1. \A k \in 1 .. Len(log) : log[k] \in Record
    BY <1>1, ElementOfSeq
  <2> QED
    BY <2>1 DEF Record
<1>3. \A t \in TaskId : t \in RootTasks(log) <=> \E k \in 1 .. Len(tasks) : tasks[k] = t
  BY <1>1, <1>2 DEF LoopInv, CollectInv, RootTasks
<1>4. RootTasks(log) \subseteq TaskId
  BY <1>1, <1>2 DEF RootTasks
<1>5. f \in RootTasks(log) \cup {0} /\ \A t \in RootTasks(log) \cup {0} : t <= f
  BY <1>1, <1>3, <1>4 DEF LoopInv, ScanInv, TaskId
<1>6. \A t \in RootTasks(log) \cup {0} :
        (\A u \in RootTasks(log) \cup {0} : u <= t) => t = f
  BY <1>4, <1>5 DEF TaskId
<1> QED
  BY <1>4, <1>5, <1>6 DEF Frontier

\* The reference loop agrees with remit-core's recover on every log, whatever
\* the width of a task number.
THEOREM RecoverersAgreeHolds == Spec => []RecoverersAgree
<1>1. LoopInv => RecoverersAgree
  BY ScannedFrontier DEF LoopInv, ScanInv, RecoverersAgree, CoreRecover
<1> QED
  BY <1>1, LoopInvInductive, PTL DEF Spec

\* Recovery resumes past every durable root task, except at the last number a
\* TaskId holds, where it wraps around or panics.
THEOREM PastDurableWorkHolds == Spec => []PastDurableWork
<1> USE LoopAssumption
<1>1. ASSUME LoopInv
      PROVE  PastDurableWork
  <2>1. ASSUME phase = "done", Width - 1 \notin RootTasks(log) \cup {0},
               NEW t \in RootTasks(log)
        PROVE  t < next
    <3>1. f \in RootTasks(log) \cup {0} /\ t \in TaskId /\ t <= f /\ f \in TaskId
      BY <1>1, <2>1, ScannedFrontier DEF LoopInv, LoopTypeOK
    <3>2. f + 1 < Width
      BY <2>1, <3>1 DEF TaskId
    <3>3. next = f + 1
      BY <1>1, <2>1, <3>1, <3>2 DEF LoopInv, ScanInv, TaskId
    <3> QED
      BY <3>1, <3>3 DEF TaskId
  <2>2. phase = "panicked" => Width - 1 \in RootTasks(log) \cup {0}
    BY <1>1, ScannedFrontier DEF LoopInv, LoopTypeOK, ScanInv, TaskId
  <2> QED
    BY <2>1, <2>2 DEF PastDurableWork
<1> QED
  BY <1>1, LoopInvInductive, PTL DEF Spec
=============================================================================
