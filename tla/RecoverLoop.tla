----------------------------- MODULE RecoverLoop -----------------------------
(***************************************************************************)
(* The two recover functions of the repository.  remit-core takes the      *)
(* maximum of the root tasks of a log; crates/remit collects the root      *)
(* tasks and scans them with the loop its Verus proof is about.  Both add  *)
(* one to an unsigned machine word.                                        *)
(*                                                                         *)
(* The log is any log (recover_from_log hands over whatever the caller     *)
(* has), not only one that a Plane wrote.                                  *)
(***************************************************************************)
EXTENDS Naturals, Sequences

CONSTANTS
  Branch,   \* branches that occur in a log
  RootBranch,     \* BranchKey::root()
  Width,    \* number of values of TaskId (2^32 for u32)
  MaxLog    \* bound: records in a log

ASSUME LoopAssumption ==
  /\ RootBranch \in Branch
  /\ Width \in Nat \ {0}
  /\ MaxLog \in Nat

TaskId == 0 .. Width - 1

Record == [branch : Branch, task : TaskId]

Logs == UNION {[1 .. n -> Record] : n \in 0 .. MaxLog}

VARIABLES
  log,      \* the argument
  phase,    \* "collect", "scan", "done" or "panicked"
  taken,    \* records of the log the iterator has passed
  tasks,    \* the collected root tasks
  i, f,     \* locals of recover_core
  next      \* the SkipTo the function returns

vars == << log, phase, taken, tasks, i, f, next >>

Init ==
  /\ log \in Logs
  /\ phase = "collect"
  /\ taken = 0
  /\ tasks = << >>
  /\ i = 0
  /\ f = 0
  /\ next = 0

\* Mutant: tasks of forks are collected too.
CollectAll ==
  /\ phase = "collect" /\ taken < Len(log)
  /\ taken' = taken + 1
  /\ tasks' = Append(tasks, log[taken + 1].task)
  /\ UNCHANGED << log, phase, i, f, next >>

\* filter and map, one record at a time.
Collect ==
  /\ phase = "collect" /\ taken < Len(log)
  /\ taken' = taken + 1
  /\ tasks' = IF log[taken + 1].branch = RootBranch THEN Append(tasks, log[taken + 1].task)
                                              ELSE tasks
  /\ UNCHANGED << log, phase, i, f, next >>

Collected ==
  /\ phase = "collect" /\ taken = Len(log)
  /\ phase' = "scan"
  /\ UNCHANGED << log, taken, tasks, i, f, next >>

\* The body of the while loop.
Scan ==
  /\ phase = "scan" /\ i < Len(tasks)
  /\ f' = IF tasks[i + 1] > f THEN tasks[i + 1] ELSE f
  /\ i' = i + 1
  /\ UNCHANGED << log, phase, taken, tasks, next >>

\* Mutant: the frontier itself is returned.
ReturnFrontier ==
  /\ phase = "scan" /\ i = Len(tasks)
  /\ \/ phase' = "done" /\ next' = f
     \/ f + 1 = Width /\ phase' = "panicked" /\ UNCHANGED next
  /\ UNCHANGED << log, taken, tasks, i, f >>

\* f + 1: a build with overflow checks panics, one without wraps around.
Return ==
  /\ phase = "scan" /\ i = Len(tasks)
  /\ \/ phase' = "done" /\ next' = (f + 1) % Width
     \/ f + 1 = Width /\ phase' = "panicked" /\ UNCHANGED next
  /\ UNCHANGED << log, taken, tasks, i, f >>

Next == Collect \/ Collected \/ Scan \/ Return

Spec == Init /\ [][Next]_vars

-----------------------------------------------------------------------------
(* remit-core's recover, as a function of the log.                         *)

RootTasks(l) == {l[k].task : k \in {m \in DOMAIN l : l[m].branch = RootBranch}}

Frontier(l) ==
  CHOOSE t \in RootTasks(l) \cup {0} : \A u \in RootTasks(l) \cup {0} : u <= t

CoreRecover(l) == (Frontier(l) + 1) % Width

-----------------------------------------------------------------------------
(* Properties.                                                             *)

\* The two crates resume a log at the same task, in whatever order its records
\* come and whatever its branches, the largest task number included.
RecoverersAgree == phase = "done" => next = CoreRecover(log)

\* A resume point is past every durable root task, and the function gives up,
\* in a build with overflow checks, only where there is no such task.
PastDurableWork ==
  /\ phase = "done" =>
       \A t \in RootTasks(log) : t < next \/ Width - 1 \in RootTasks(log) \cup {0}
  /\ phase = "panicked" => Width - 1 \in RootTasks(log) \cup {0}
=============================================================================
