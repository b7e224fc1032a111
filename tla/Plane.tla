------------------------------- MODULE Plane -------------------------------
(***************************************************************************)
(* remit-core's Plane: the deterministic state machine that decides, for   *)
(* one thread id, which effects fire, which checkpoints become durable,    *)
(* and which answer a resume is served.                                    *)
(*                                                                         *)
(* RemitCore::with_plane holds one mutex around every call, so an          *)
(* operation of Plane is one step here, whatever number of OS threads call *)
(* it; planes of different thread ids share nothing, so one is modelled.   *)
(*                                                                         *)
(* What an operation returns is an operator of the state (BeginVerdict,    *)
(* CommitVerdict, ResumeDecision, ReplayDecision); the action of the same  *)
(* operation says what it does to the state for each of these answers.     *)
(*                                                                         *)
(* Left out of the data: effect ids, reasons and state bytes, which no     *)
(* decision reads.  A map entry that is absent in the code and would be    *)
(* created with Default by entry() is the default value here.              *)
(***************************************************************************)
EXTENDS Naturals, Sequences

CONSTANTS
  Checkpoint,   \* ids of checkpoints that park an interrupt
  RootId,       \* the string "root" of BranchKey::root
  Value,        \* answers a resume may supply
  NoValue,      \* Option::None, of a supplied or a looked-up value
  NoTask,       \* a ref_id that does not parse as a task number
  MaxTask,      \* bound: tasks (supersteps) are numbered 1..MaxTask
  MaxResumes,   \* bound: answers recorded for one interrupt
  MaxSeq        \* bound: sequence numbers handed out

ASSUME PlaneAssumption ==
  /\ NoValue \notin Value
  /\ NoTask \notin Nat
  /\ MaxTask \in Nat
  /\ MaxResumes \in Nat \ {0}
  /\ MaxSeq \in Nat

Task == 1 .. MaxTask

Root == [checkpoint_id |-> RootId, resume_index |-> 0]

ForkKey(c, k) == [checkpoint_id |-> c, resume_index |-> k]

BranchKey ==
  {Root} \cup [checkpoint_id : Checkpoint, resume_index : 0 .. MaxResumes - 1]

OpKind == {"PutWrites", "Put", "ValidityRejected", "EffectAdmitted"}

AddressKind == {"Ordinary", "ExplicitCheckpoint", "ForkFlag"}

EffectRecord == [branch : BranchKey, task : Task, seq : Nat]
CheckpointRecord == [branch : BranchKey, task : Task, seq : Nat]
OpRecord == [seq : Nat, kind : OpKind, ref : Task \cup {NoTask}]
InterruptState == [recorded : Seq(Value), consumed : BOOLEAN]

VARIABLES
  ledger,          \* Seq(EffectRecord): effects admitted, in order
  fired,           \* the (branch, task) pairs of the ledger, as a set
  ckpts,           \* Seq(CheckpointRecord): durable checkpoints, in order
  frontier,        \* last durable task of each branch, 0 if none
  branch_value,    \* the answer each branch was created with
  interrupts,      \* InterruptState of each checkpoint
  journal,         \* Seq(OpRecord): the sequenced operations
  pending_writes,  \* supersteps whose declared writes are not sequenced
  completed,       \* the thread ran to its end
  next_seq         \* the next sequence number

vars == << ledger, fired, ckpts, frontier, branch_value, interrupts,
           journal, pending_writes, completed, next_seq >>

effectVars == << ledger, fired >>
ckptVars == << ckpts, frontier >>
resumeVars == << branch_value, interrupts, completed >>
seqVars == << journal, next_seq >>

TypeOK ==
  /\ ledger \in Seq(EffectRecord)
  /\ fired \in SUBSET (BranchKey \X Task)
  /\ ckpts \in Seq(CheckpointRecord)
  /\ frontier \in [BranchKey -> 0 .. MaxTask]
  /\ branch_value \in [BranchKey -> Value \cup {NoValue}]
  /\ interrupts \in [Checkpoint -> InterruptState]
  /\ journal \in Seq(OpRecord)
  /\ pending_writes \in SUBSET Task
  /\ completed \in BOOLEAN
  /\ next_seq \in 0 .. MaxSeq

Init ==
  /\ ledger = << >>
  /\ fired = {}
  /\ ckpts = << >>
  /\ frontier = [b \in BranchKey |-> 0]
  /\ branch_value = [b \in BranchKey |-> NoValue]
  /\ interrupts = [c \in Checkpoint |-> [recorded |-> << >>, consumed |-> FALSE]]
  /\ journal = << >>
  /\ pending_writes = {}
  /\ completed = FALSE
  /\ next_seq = 0

-----------------------------------------------------------------------------
(* Recovery: pure functions of a checkpoint log.                           *)

\* Mutant: the root filter of recover is forgotten.
AllTasks(log) == {log[i].task : i \in DOMAIN log}

RootTasks(log) ==
  {log[i].task : i \in {j \in DOMAIN log : log[j].branch = Root}}

\* The first task recovery executes: one past the largest root task.
Recover(log) ==
  1 + (CHOOSE f \in RootTasks(log) \cup {0} :
         \A t \in RootTasks(log) \cup {0} : t <= f)

\* The tasks of 1..total that the plan marks Skip; it executes the others.
PlanSkips(log, total) == {t \in 1 .. total : t < Recover(log)}

-----------------------------------------------------------------------------
(* What each operation answers.                                            *)

\* Mutant: the fired set is not consulted.
BeginVerdictUnguarded(b, t) == "Ok"

BeginVerdict(b, t) == IF << b, t >> \in fired THEN "DuplicateEffect" ELSE "Ok"

\* Mutant: a commit may skip ahead of the frontier.
CommitVerdictSkips(b, t, valid) ==
  IF t < frontier[b] + 1 THEN "PrefixViolation"
  ELSE IF ~valid THEN "InvalidCheckpoint"
  ELSE IF t \in pending_writes THEN "OrderViolation"
  ELSE "Ok"

\* Mutant: the declared writes are not consulted.
CommitVerdictUnordered(b, t, valid) ==
  IF t # frontier[b] + 1 THEN "PrefixViolation"
  ELSE IF ~valid THEN "InvalidCheckpoint"
  ELSE "Ok"

CommitVerdict(b, t, valid) ==
  IF t # frontier[b] + 1 THEN "PrefixViolation"
  ELSE IF ~valid THEN "InvalidCheckpoint"
  ELSE IF t \in pending_writes THEN "OrderViolation"
  ELSE "Ok"

\* Mutant: recovery replays the newest answer instead of the first.
ReplayNewest(c) ==
  IF interrupts[c].recorded = << >> THEN << "Inert" >>
  ELSE << "ServeRecorded", interrupts[c].recorded[Len(interrupts[c].recorded)] >>

ReplayDecision(c) ==
  IF interrupts[c].recorded = << >> THEN << "Inert" >>
  ELSE << "ServeRecorded", Head(interrupts[c].recorded) >>

\* Mutant: a fork takes ordinal 0, as the ordinary resume does.
OrdinalZero(c) == 0

\* The ordinal a fork takes: the answers recorded before it.
NextOrdinal(c) == Len(interrupts[c].recorded)

ResumeDecision(c, supplied, kind) ==
  IF kind # "Ordinary"
  THEN IF supplied = NoValue THEN ReplayDecision(c)
       ELSE << "ServeSupplied", ForkKey(c, NextOrdinal(c)) >>
  ELSE IF completed \/ interrupts[c].consumed \/ supplied = NoValue
       THEN << "Inert" >>
       ELSE << "ServeSupplied", ForkKey(c, 0) >>

-----------------------------------------------------------------------------
(* The operations.                                                         *)

\* Mutant: the number is read and not taken.
JournalledNoBump(kind, ref) ==
  /\ next_seq < MaxSeq
  /\ next_seq' = IF kind = "ValidityRejected" THEN next_seq ELSE next_seq + 1
  /\ journal' = Append(journal, [seq |-> next_seq, kind |-> kind, ref |-> ref])

\* bump(), and the journal entry that carries the number it returned.
Journalled(kind, ref) ==
  /\ next_seq < MaxSeq
  /\ next_seq' = next_seq + 1
  /\ journal' = Append(journal, [seq |-> next_seq, kind |-> kind, ref |-> ref])

BeginEffect(b, t) ==
  \/ /\ BeginVerdict(b, t) = "DuplicateEffect"
     /\ UNCHANGED vars
  \/ /\ BeginVerdict(b, t) = "Ok"
     /\ Journalled("EffectAdmitted", t)
     /\ fired' = fired \cup {<< b, t >>}
     /\ ledger' = Append(ledger, [branch |-> b, task |-> t, seq |-> next_seq])
     /\ UNCHANGED << ckptVars, resumeVars, pending_writes >>

\* A rejected state is journalled, whether or not its writes are pending.
RejectState ==
  /\ Journalled("ValidityRejected", NoTask)
  /\ UNCHANGED << effectVars, ckptVars, resumeVars, pending_writes >>

CommitCheckpoint(b, t, valid) ==
  \/ /\ CommitVerdict(b, t, valid) \in {"PrefixViolation", "OrderViolation"}
     /\ UNCHANGED vars
  \/ /\ CommitVerdict(b, t, valid) = "InvalidCheckpoint"
     /\ RejectState
  \/ /\ CommitVerdict(b, t, valid) = "Ok"
     /\ Journalled("Put", t)
     /\ ckpts' = Append(ckpts, [branch |-> b, task |-> t, seq |-> next_seq])
     /\ frontier' = [frontier EXCEPT ![b] = t]
     /\ UNCHANGED << effectVars, resumeVars, pending_writes >>

\* A valid state takes a number and leaves no journal entry.
ValidityGate(valid) ==
  \/ /\ ~valid
     /\ RejectState
  \/ /\ valid
     /\ next_seq < MaxSeq
     /\ next_seq' = next_seq + 1
     /\ UNCHANGED << effectVars, ckptVars, resumeVars, pending_writes, journal >>

\* The binding admits the kinds put_writes and put; only put_writes reads its
\* ref_id as a task number.
SequenceOp(kind, ref) ==
  /\ Journalled(kind, ref)
  /\ pending_writes' = IF kind = "PutWrites" THEN pending_writes \ {ref}
                                             ELSE pending_writes
  /\ UNCHANGED << effectVars, ckptVars, resumeVars >>

\* Mutant: the writes are declared for the next superstep.
DeclareWritesNext(t) ==
  /\ pending_writes' = pending_writes \cup {t + 1}
  /\ UNCHANGED << effectVars, ckptVars, resumeVars, seqVars >>

DeclareWrites(t) ==
  /\ pending_writes' = pending_writes \cup {t}
  /\ UNCHANGED << effectVars, ckptVars, resumeVars, seqVars >>

\* Mutant: a fork records its answer and leaves the interrupt unspent.
RecordAnswerUnspent(c, b, v) ==
  /\ Len(interrupts[c].recorded) < MaxResumes
  /\ interrupts' = [interrupts EXCEPT ![c].recorded = Append(@, v)]
  /\ branch_value' = [branch_value EXCEPT ![b] = v]
  /\ UNCHANGED << effectVars, ckptVars, seqVars, pending_writes, completed >>

\* Mutant: the answer is not recorded.
RecordAnswerForgets(c, b, v) ==
  /\ interrupts' = [interrupts EXCEPT ![c].consumed = TRUE]
  /\ branch_value' = [branch_value EXCEPT ![b] = v]
  /\ UNCHANGED << effectVars, ckptVars, seqVars, pending_writes, completed >>

\* The answer v is recorded, the interrupt is spent, and b is created with v.
RecordAnswer(c, b, v) ==
  /\ Len(interrupts[c].recorded) < MaxResumes
  /\ interrupts' = [interrupts EXCEPT
       ![c] = [recorded |-> Append(@.recorded, v), consumed |-> TRUE]]
  /\ branch_value' = [branch_value EXCEPT ![b] = v]
  /\ UNCHANGED << effectVars, ckptVars, seqVars, pending_writes, completed >>

Fork(c, v) == RecordAnswer(c, ForkKey(c, NextOrdinal(c)), v)

ResolveResume(c, supplied, kind) ==
  \/ /\ ResumeDecision(c, supplied, kind)[1] \in {"Inert", "ServeRecorded"}
     /\ UNCHANGED vars
  \/ /\ kind # "Ordinary"
     /\ supplied # NoValue
     /\ Fork(c, supplied)
  \/ /\ kind = "Ordinary"
     /\ ResumeDecision(c, supplied, kind)[1] = "ServeSupplied"
     /\ RecordAnswer(c, ForkKey(c, 0), supplied)

Complete ==
  /\ completed' = TRUE
  /\ UNCHANGED << effectVars, ckptVars, branch_value, interrupts, seqVars,
                  pending_writes >>

Next ==
  \/ \E b \in BranchKey, t \in Task : BeginEffect(b, t)
  \/ \E b \in BranchKey, t \in Task, valid \in BOOLEAN :
       CommitCheckpoint(b, t, valid)
  \/ \E valid \in BOOLEAN : ValidityGate(valid)
  \/ \E ref \in Task \cup {NoTask} : SequenceOp("PutWrites", ref)
  \/ SequenceOp("Put", NoTask)
  \/ \E t \in Task : DeclareWrites(t)
  \/ \E c \in Checkpoint, v \in Value : Fork(c, v)
  \/ \E c \in Checkpoint, v \in Value \cup {NoValue}, kind \in AddressKind :
       ResolveResume(c, v, kind)
  \/ Complete

Spec == Init /\ [][Next]_vars
-----------------------------------------------------------------------------
(* Properties.                                                             *)

\* EO: on a branch a task's effect is admitted at most once, whatever mix of
\* begin_effect calls reaches the plane (begin_effect, fired and ledger).
EffectOnce ==
  \A i, j \in DOMAIN ledger :
    /\ ledger[i].branch = ledger[j].branch
    /\ ledger[i].task = ledger[j].task
    => i = j

\* PC: the durable checkpoints of a branch are, in log order, the tasks
\* 1, 2, ..., frontier: none is skipped, repeated or reordered
\* (commit_checkpoint keeps frontier and ckpts in step).
DurablePrefix ==
  /\ \A i \in DOMAIN ckpts : ckpts[i].task \in 1 .. frontier[ckpts[i].branch]
  /\ \A b \in BranchKey : \A t \in 1 .. frontier[b] :
       \E i \in DOMAIN ckpts : ckpts[i].branch = b /\ ckpts[i].task = t
  /\ \A i, j \in DOMAIN ckpts :
       i < j /\ ckpts[i].branch = ckpts[j].branch => ckpts[i].task < ckpts[j].task

\* Recovery skips exactly the tasks that are durable on the root branch: it
\* neither re-executes one nor skips one that only a fork made durable
\* (recover, recovery_plan and resume_completed, against commit_checkpoint).
RecoveryPlanExact ==
  \A total \in 0 .. MaxTask :
    PlanSkips(ckpts, total) =
      {t \in 1 .. total :
         \E i \in DOMAIN ckpts : ckpts[i].branch = Root /\ ckpts[i].task = t}

\* RD: the journal is totally ordered by sequence number, and every effect
\* and every checkpoint is found in it under its own number (bump is shared
\* by all operations, so no two of them may take the same number).
JournalTotalOrder ==
  /\ \A i, j \in DOMAIN journal : i < j => journal[i].seq < journal[j].seq
  /\ \A i \in DOMAIN ledger : \E j \in DOMAIN journal :
       journal[j] = [seq |-> ledger[i].seq, kind |-> "EffectAdmitted",
                     ref |-> ledger[i].task]
  /\ \A i \in DOMAIN ckpts : \E j \in DOMAIN journal :
       journal[j] = [seq |-> ckpts[i].seq, kind |-> "Put", ref |-> ckpts[i].task]

\* FD: the branches of an interrupt are numbered without gap in the order
\* their answers arrived, and each holds its own answer, whether it was made
\* by fork or by the ordinary resume, which always takes ordinal 0.
BranchPerAnswer ==
  \A c \in Checkpoint, k \in 0 .. MaxResumes - 1 :
    branch_value[ForkKey(c, k)] =
      IF k < Len(interrupts[c].recorded) THEN interrupts[c].recorded[k + 1]
                                         ELSE NoValue

\* CO: an interrupt that was answered, by an ordinary resume or by a fork,
\* is never ordinarily answered again (resolve_resume reads consumed, which
\* fork sets too).
ConsumeOnce ==
  \A c \in Checkpoint, v \in Value :
    interrupts[c].recorded # << >> =>
      ResumeDecision(c, v, "Ordinary") = << "Inert" >>

\* FD: the outcome of a branch never changes once it has one (fork and
\* resolve_resume overwrite branch_value without looking).
OutcomeStable ==
  [][\A b \in BranchKey :
       branch_value[b] # NoValue => branch_value'[b] = branch_value[b]]_vars

\* A replay after a crash serves the same answer as every replay before it,
\* forks taken in between or not (replay_or_inert serves the first answer).
ReplayStable ==
  [][\A c \in Checkpoint :
       ReplayDecision(c) # << "Inert" >> => ReplayDecision(c)' = ReplayDecision(c)]_vars

\* RD: a declared superstep is released only by sequencing its put_writes,
\* and no checkpoint for it becomes durable before (declare_writes,
\* sequence_op and commit_checkpoint share pending_writes).
WritesBeforeCheckpoint ==
  [][/\ \A t \in pending_writes \ pending_writes' :
          /\ Len(journal') > Len(journal)
          /\ journal'[Len(journal')].kind = "PutWrites"
          /\ journal'[Len(journal')].ref = t
     /\ \A i \in DOMAIN ckpts' \ DOMAIN ckpts :
          ckpts'[i].task \notin pending_writes]_vars

-----------------------------------------------------------------------------
(* The plane implements the reference sequencer: effects lose their number, *)
(* and a checkpoint's number becomes its position in the log.               *)

LedgerOf(l) == [i \in 1 .. Len(l) |-> [branch |-> l[i].branch, task |-> l[i].task]]

NumberedLog(log) ==
  [i \in 1 .. Len(log) |->
     [branch |-> log[i].branch, task |-> log[i].task, seq |-> i - 1]]

Reference == INSTANCE Remit WITH
  ledger <- LedgerOf(ledger),
  ckpts <- NumberedLog(ckpts),
  ForkKeys <- [checkpoint_id : Checkpoint, resume_index : 0 .. MaxResumes - 1]

\* Every history of a plane is one of the reference sequencer, so the results
\* about crates/remit hold of the core that is shipped.
ImplementsReference == Reference!Spec
=============================================================================
