----------------------------- MODULE SessionCells -----------------------------
(***************************************************************************)
(* More experiments for ProbeRig: the probes that drive an engine from one *)
(* process, call by call, and the probe of a durable queue engine (147).   *)
(*                                                                         *)
(* A call of the engine is a child of its own for which the script waits   *)
(* ("inline": it cannot be late or break, and nobody kills it).  What a    *)
(* probe counts in memory are rows of the ledger.                          *)
(*                                                                         *)
(* Left out: the parts of these probes about schema-invalid state, and the *)
(* benchmarks of 147.                                                      *)
(***************************************************************************)
EXTENDS ProbeCells, SequencesExt

(* More steps of a child, *)
Crash == << "crash" >>          \* raises, the first time
Decide == << "decide" >>        \* an effect named after the recorded answer
Recv == << "recv" >>            \* waits for a message in the store

(* and of a parent. *)
SeeRow(task) == << "see_row", task >>         \* polls the ledger
Send(t) == << "send", t >>                    \* a message into the store
AwaitDone(t, n) == << "done", << t, n >> >>   \* until step n of t is recorded
CopyTo(t) == << "copy", t >>                  \* from the store of thread 1

\* One call after the other; the counters are read after each.
Calls(ps) == FlattenSeq([i \in DOMAIN ps |-> Run(ps[i]) \o << Count >>])

Inline(name, arm, engine, nodes, hows, script) ==
  Cell(name, arm, engine, "inline", [p \in DOMAIN hows |-> nodes],
       [p \in DOMAIN hows |-> << Invoke(hows[p]) >>], script)

-----------------------------------------------------------------------------
(* 113, 126, 130: one thread of a stock saver, in memory, SQLite, Postgres. *)

ask_then_b == << << Effect("a") >>, << Interrupt, Effect("b") >> >>

fork_graph == << << Interrupt, Decide >> >>

t1_resume_from_checkpoint_id ==
  Inline("113", "t1", "graph", ask_then_b, << "input", "fork:True" >>, Calls(<< 1, 2 >>))

t1b_resume_thread_only ==
  Inline("113", "t1b", "graph", ask_then_b, << "input", "True" >>, Calls(<< 1, 2 >>))

\* Two answers from the checkpoint of the interrupt, named by its id.
t2_fork_on_different_resume_values ==
  Inline("113", "t2", "graph", fork_graph, << "input", "fork:True", "fork:False" >>,
         Calls(<< 1, 2, 3 >>))

t3_functional_api_sync ==
  Inline("113", "t3", "functional",
         << << Effect("a") >>, << Interrupt >>, << Effect("b") >> >>,
         << "input", "True" >>, Calls(<< 1, 2 >>))

t4_interrupt_consume_once ==
  Inline("113", "t4", "graph", ask_then_b, << "input", "True", "False" >>,
         Calls(<< 1, 2, 3 >>))

t1_fork_sqlite == [t2_fork_on_different_resume_values EXCEPT !.name = "126"]

t3_co_sqlite ==
  Inline("126", "t3", "graph", << << Interrupt, Effect("b") >> >>,
         << "input", "True", "False" >>, Calls(<< 1, 2, 3 >>))

crash_in_s2 == << << Effect("s1") >>, << Crash, Effect("s2") >> >>

t4_eo_crash_sqlite ==
  Inline("126", "t4", "functional", crash_in_s2, << "input", "input" >>, Calls(<< 1, 2 >>))

t1_fork130 == [t2_fork_on_different_resume_values EXCEPT !.name = "130"]

t3_co130 == [t3_co_sqlite EXCEPT !.name = "130"]

t4_eo_crash130 == [t4_eo_crash_sqlite EXCEPT !.name = "130"]

a_execs_once(rd) == ledger_counts(Last(rd), 1, "a") = 1 /\ ledger_counts(Last(rd), 1, "b") = 1

\* Both forks are served the answer that was recorded first.
second_resume_ignored(rd) ==
  ledger_counts(rd[3], 1, "gate:True") = 2 /\ ledger_counts(rd[3], 1, "gate:False") = 0

stray_inert(rd) == ledger_counts(rd[3], 1, "b") = 1 /\ rd[3] = rd[2]

reexecuted_on_crash_resume(rd) ==
  /\ ledger_counts(rd[1], 1, "s1") = 1
  /\ ledger_counts(rd[2], 1, "s1") = 2 /\ ledger_counts(rd[2], 1, "s2") = 1

-----------------------------------------------------------------------------
(* 118, 128, 136: which operations of the crashed run became durable.      *)

\* W drops every put but the first, C drops every put_writes.
_arm_drops(order) ==
  CASE order = "W" -> << "drop_puts" >> [] order = "C" -> << "drop_writes" >>
    [] OTHER -> << "none" >>

scenario118(order) ==
  [Inline("118", order, "functional", crash_in_s2, << "input", "input" >>, Calls(<< 1, 2 >>))
   EXCEPT !.hook = _arm_drops(order)]

\* Two recoveries, each on a copy of the store the crash left behind.
scenario_same_log118(order) ==
  [Inline("118", "same_log", "functional", crash_in_s2, << "input", "input", "input" >>,
          Calls(<< 1 >>) \o << CopyTo(2), CopyTo(3) >> \o Calls(<< 2, 3 >>))
   EXCEPT !.hook = _arm_drops(order), !.thread = << 1, 2, 3 >>]

scenario128(order) == [scenario118(order) EXCEPT !.name = "128"]

scenario_same_log128(order) == [scenario_same_log118(order) EXCEPT !.name = "128"]

\* put_writes is held back until the next put.
run_cell136(adversarial) ==
  [Inline("136", "", "functional", crash_in_s2, << "input", "input" >>, Calls(<< 1, 2 >>))
   EXCEPT !.hook = IF adversarial THEN << "defer" >> ELSE << "none" >>]

identical_decisions(rd) ==
  \A task \in {"s1", "s2"} : ledger_counts(rd[3], 2, task) = ledger_counts(rd[3], 3, task)

-----------------------------------------------------------------------------
(* 147: the worker is killed while its workflow waits for a message; a new *)
(* worker recovers it; a fork from the wait runs under an id of its own,   *)
(* with what the original recorded before it.                              *)

gate_wf(decision) == << << Effect("s1") >>, << Recv >>, << Effect(gate_task(decision)) >> >>

\* READY is printed last, but start_workflow runs the workflow on a thread of its
\* own: its steps may come before the line or after it.  The parent does nothing
\* before it has read it, so a program that says READY first has all schedules.
worker_main147 == << Ready, Invoke("start"), Sleep >>

cell_eo_crash_and_fd_and_co ==
  [Cell("147", "", "queue", "wait", << gate_wf("True"), gate_wf("True"), gate_wf("False") >>,
        << worker_main147, worker_main147, << Invoke("start") >> >>,
        << Spawn({1}), Await({1}), SeeRow("s1"), Kill(1), Count,
           Spawn({2}), Await({2}), Send(1), AwaitDone(1, 3), Count,
           CopyTo(2), Spawn({3}), Send(2), Reap({3}), Count, Send(1), Count, Kill(2) >>)
   EXCEPT !.thread = << 1, 1, 2 >>]

\* The fork decides for itself and runs nothing before its start again, the
\* original is not disturbed, and a second message does nothing.
stable147(rd) ==
  /\ ledger_counts(rd[2], 1, "gate:True") = 1 /\ ledger_counts(rd[2], 1, "gate:False") = 0
  /\ ledger_counts(rd[3], 2, "gate:False") = 1 /\ ledger_counts(rd[3], 2, "s1") = 0
  /\ rd[4] = rd[3]

-----------------------------------------------------------------------------
main113 ==
  << t1_resume_from_checkpoint_id, t1b_resume_thread_only,
     t2_fork_on_different_resume_values, t3_functional_api_sync, t4_interrupt_consume_once >>

main126 == << t1_fork_sqlite, t3_co_sqlite, t4_eo_crash_sqlite >>

main130 == << t1_fork130, t3_co130, t4_eo_crash130 >>

Orders == << "N", "W", "C" >>

main128 ==
  [i \in 1 .. 3 |-> scenario128(Orders[i])]
    \o [i \in 1 .. 3 |-> scenario_same_log128(Orders[i])]

main118 ==
  [i \in 1 .. 3 |-> scenario118(Orders[i])]
    \o [i \in 1 .. 3 |-> scenario_same_log118(Orders[i])]

main136 == << run_cell136(FALSE), run_cell136(TRUE) >>

AllCells ==
  Cells \o main113 \o main126 \o main130 \o main118 \o main128 \o main136
    \o << cell_eo_crash_and_fd_and_co >>

\* What the probes of this module report of a run that nothing disturbed.
SessionVerdict(c, rd) ==
  CASE c.name = "147" -> stable147(rd)
    [] c.name \in {"118", "128", "136"} ->
         IF c.arm = "same_log" THEN identical_decisions(rd) ELSE reexecuted_on_crash_resume(rd)
    [] c.arm \in {"t1", "t1b"} -> a_execs_once(rd)
    [] c.arm = "t2" -> second_resume_ignored(rd)
    [] c.arm = "t4" /\ c.engine = "functional" -> reexecuted_on_crash_resume(rd)
    [] c.arm = "t3" /\ c.engine = "functional" -> a_execs_once(rd)
    [] OTHER -> stray_inert(rd)
=============================================================================
