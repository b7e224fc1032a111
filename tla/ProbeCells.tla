----------------------------- MODULE ProbeCells -----------------------------
(***************************************************************************)
(* The experiments of the multi-process probes as data: for each cell the  *)
(* programs of its children, the nodes of the workflow they run, the       *)
(* script of the parent, and the verdict the parent computes from what it  *)
(* read.  ProbeRig executes them.                                          *)
(*                                                                         *)
(* A life is the sequence of the steps of one child; an invoke is one step *)
(* that ProbeRig expands into the nodes its engine would run.  A script is *)
(* the sequence of the steps of the parent.  Children are numbered in the  *)
(* order in which the parent starts them.                                  *)
(*                                                                         *)
(* Left out: versions, hosts, dates and JSON; repetitions, which have      *)
(* files of their own; the CREATE TABLE of a ledger; jitter and durations, *)
(* of which nothing is assumed.                                            *)
(***************************************************************************)
EXTENDS Naturals, Sequences, FiniteSets

(* Steps of a child. *)
Invoke(how) == << "invoke", how >>    \* "input", "none", or an answer
Effect(t) == << "effect", t >>        \* one committed row of the ledger
Ready == << "ready" >>                \* writes the flag the parent polls
Sleep == << "sleep" >>                \* longer than any deadline
Park == << "park" >>                  \* Ready and Sleep, unless marked crashed
AwaitStart == << "await_start" >>     \* spins until the start file exists
Die == << "die" >>                    \* SIGKILL of its own process
Interrupt == << "interrupt" >>        \* the node asks, and ends if unanswered
SaveId == << "op", << "id" >> >>      \* the flow's id in a file

(* Steps of a parent. *)
Spawn(ps) == << "spawn", ps >>
Await(ps) == << "await", ps >>        \* polls the flags of ps
Peek(p) == << "peek", p >>            \* parses the content of a flag
Count == << "count" >>                \* reads the ledger
Kill(p) == << "kill", p >>
Mark == << "mark" >>                  \* creates the crashed file
Start == << "start" >>                \* creates the start file
Reap(ps) == << "reap", ps >>          \* waits for ps with a timeout

Run(p) == << Spawn({p}), Reap({p}) >>

\* An effect is a row << thread, task, child >>.  No child takes one effect
\* twice, so a set of rows loses nothing.
ledger_write(ledger, thread, task, child) == ledger \cup {<< thread, task, child >>}

ledger_counts(reading, thread, task) ==
  Cardinality({r \in reading : r[1] = thread /\ r[2] = task})

Fires(reading, thread) ==
  ledger_counts(reading, thread, "gate:True") + ledger_counts(reading, thread, "gate:False")

\* late: what the parent does about a child that misses a timeout.  "record"
\* kills it and goes on, "raise" kills it and ends, "abandon" only ends.
Cell(name, arm, engine, late, nodes, lives, script) ==
  [name |-> name, arm |-> arm, k |-> 0, engine |-> engine, late |-> late,
   nodes |-> nodes, lives |-> lives, script |-> script,
   hook |-> << "none" >>, gated |-> FALSE,
   thread |-> [p \in DOMAIN lives |-> 1]]

-----------------------------------------------------------------------------
(* 133, 137, 142: a parked victim of a two-task workflow is killed, and a  *)
(* fresh process runs the workflow again.                                  *)

build_wf133 == << << Effect("s1") >>, << Park, Effect("s2") >> >>

KillAndRerun ==
  << Spawn({1}), Await({1}), Count, Kill(1), Mark >> \o Run(2) \o << Count >>

parent133 == KillAndRerun

Cell133 ==
  Cell("133", "", "functional", "raise", << build_wf133, build_wf133 >>,
       << << Invoke("input") >>, << Invoke("input") >> >>, parent133)

reexecuted133(rd) == ledger_counts(rd[2], 1, "s1") > ledger_counts(rd[1], 1, "s1")

\* Kill points: A before s2's effect, B inside the saver, C after s1's effect.
build137(point) ==
  << IF point = "C" THEN << Effect("s1"), Park >> ELSE << Effect("s1") >>,
     IF point = "A" THEN << Park, Effect("s2") >> ELSE << Effect("s2") >> >>

one_rep137 == KillAndRerun

Cell137(point) ==
  [Cell("137", point, "functional", "raise", << build137(point), build137("") >>,
        << << Invoke("input") >>, << Invoke("input") >> >>, one_rep137)
   EXCEPT !.hook = IF point = "B" THEN << "seam" >> ELSE << "none" >>]

reexecutes_at_A(rd) == ledger_counts(rd[2], 1, "s1") = 2

\* The ledger of 142 belongs to an oracle process behind HTTP.
build_wf142 == << << Effect("s1") >>, << Park, Effect("s2") >> >>

parent142 == KillAndRerun

Cell142 ==
  Cell("142", "", "functional", "raise", << build_wf142, build_wf142 >>,
       << << Invoke("input") >>, << Invoke("input") >> >>, parent142)

confirmed142(rd) == ledger_counts(rd[2], 1, "s1") = 2 /\ Cardinality(rd[1]) = 1

-----------------------------------------------------------------------------
(* 158, 158b, 158c: a run parks on its own, its process is killed, and     *)
(* other processes resume it.                                              *)

gate_task(answer) == IF answer = "True" THEN "gate:True" ELSE "gate:False"

\* Mutant: the node takes its effect before it asks.
build158Eager(answer) ==
  << << Effect("pre") >>, << Effect(gate_task(answer)), Interrupt >> >>

build158(answer) ==
  << << Effect("pre") >>, << Interrupt, Effect(gate_task(answer)) >> >>

park158 == << Invoke("input"), Ready, Sleep >>

resume158 == << Invoke("True") >>

stray158 == << Invoke("False") >>

parent158 ==
  << Spawn({1}), Await({1}), Peek(1), Count, Kill(1) >>
    \o Run(2) \o << Count >> \o Run(3) \o << Count >>

Cell158 ==
  Cell("158", "", "graph", "raise",
       << build158("True"), build158("True"), build158("False") >>,
       << park158, resume158, stray158 >>, parent158)

stable158(rd, result) ==
  /\ ledger_counts(rd[1], 1, "pre") = 1 /\ ledger_counts(rd[3], 1, "pre") = 1
  /\ ledger_counts(rd[2], 1, "gate:True") = 1
  /\ ledger_counts(rd[2], 1, "gate:False") = 0
  /\ rd[3] = rd[2] /\ result[3] = "done"

make_wf158b(answer) ==
  << << Effect("pre") >>, << Effect(IF answer = "YES" THEN "post:YES" ELSE "post:NO") >> >>

\* The park life writes the snapshot, the flag, and sleeps.
park158b == << Invoke("input"), Ready, Sleep >>

resume158b(answer) == << Invoke(answer) >>

parent158b ==
  << Spawn({1}), Await({1}), Count, Kill(1) >>
    \o Run(2) \o << Count >> \o Run(3) \o << Count >>

Cell158b ==
  Cell("158b", "", "context", "raise",
       << make_wf158b("YES"), make_wf158b("YES"), make_wf158b("NO") >>,
       << park158b, resume158b("YES"), resume158b("NO") >>, parent158b)

stable158b(rd) ==
  /\ ledger_counts(rd[1], 1, "pre") = 1 /\ ledger_counts(rd[3], 1, "pre") = 1
  /\ ledger_counts(rd[3], 1, "post:YES") = 1
  /\ ledger_counts(rd[3], 1, "post:NO") = 1

nodes158c == << << Effect("a") >>, << Effect("b") >> >>

\* The park life takes one node and parks before the second.
park158c == << Invoke("input"), Ready, Sleep >>

resume158c == << Invoke("none") >>

parent158c ==
  << Spawn({1}), Await({1}), Peek(1), Count, Kill(1) >> \o Run(2) \o << Count >>

Cell158c ==
  Cell("158c", "", "snapshots", "raise", << << nodes158c[1] >>, nodes158c >>,
       << park158c, resume158c >>, parent158c)

stable158c(rd, result) ==
  /\ ledger_counts(rd[1], 1, "a") = 1 /\ ledger_counts(rd[2], 1, "a") = 1
  /\ ledger_counts(rd[2], 1, "b") = 1 /\ result[2] = "done"

-----------------------------------------------------------------------------
(* 160: a kill after each persistence operation of the run in turn.        *)

build_wf160 == << << Effect("s1") >>, << Effect("s2") >> >>

one_point160 ==
  << Spawn({1}), Await({1}), Count, Kill(1) >> \o Run(2) \o << Count >>

\* The dry run counts the operations; each is a kill point.
Total160 == 5

Cell160(k) ==
  [Cell("160", "", "functional", "raise", << build_wf160, build_wf160 >>,
        << << Invoke("input") >>, << Invoke("input") >> >>, one_point160)
   EXCEPT !.hook = << "count" >>, !.k = k]

any_duplicate160(rd) ==
  ledger_counts(rd[2], 1, "s1") > 1 \/ ledger_counts(rd[2], 1, "s2") > 1

-----------------------------------------------------------------------------
(* 163, 164: the victim kills itself around an effect and its record.      *)

build163(kill) ==
  << << Effect("s1") >>,
     CASE kill = "pre_insert"  -> << Die, Effect("s2") >>
       [] kill = "post_insert" -> << Effect("s2"), Die >>
       [] OTHER                -> << Effect("s2") >> >>

run_arm163(kill) ==
  Run(1) \o << Count >> \o (IF kill = "none" THEN << >> ELSE Run(2)) \o << Count >>

Cell163(kill) ==
  [Cell("163", kill, "graph", "record", << build163(kill), build163("none") >>,
        << << Invoke("input") >>, << Invoke("none") >> >>, run_arm163(kill))
   EXCEPT !.hook = IF kill = "post_persist" THEN << "s2_written" >> ELSE << "none" >>]

\* Rows of s2 after the crash and at the end, and how the victim ended.
expected163 ==
  [pre_insert |-> << {0}, 1, "killed" >>, post_insert |-> << {1}, 2, "killed" >>,
   post_persist |-> << {1}, 1, "killed" >>, none |-> << {0, 1}, 1, "exited" >>]

as_expected163(kill, rd, st) ==
  /\ ledger_counts(rd[1], 1, "s2") \in expected163[kill][1]
  /\ ledger_counts(rd[2], 1, "s2") = expected163[kill][2]
  /\ ledger_counts(rd[2], 1, "s1") = 1
  /\ st[1] = expected163[kill][3]

crewai_flow(kill_in_s2) ==
  << << Effect("s1"), SaveId >>,
     IF kill_in_s2 THEN << Die, Effect("s2") >> ELSE << Effect("s2") >> >>

crewai_rep == Run(1) \o << Count >> \o Run(2) \o << Count >>

CellCrewai ==
  Cell("164cw", "", "flow", "record", << crewai_flow(TRUE), crewai_flow(FALSE) >>,
       << << Invoke("input") >>, << Invoke("restore") >> >>, crewai_rep)

as_expectedCrewai(rd, st, result) ==
  /\ st[1] = "killed"
  /\ ledger_counts(rd[1], 1, "s1") = 1 /\ ledger_counts(rd[1], 1, "s2") = 0
  /\ ledger_counts(rd[2], 1, "s1") = 2 /\ ledger_counts(rd[2], 1, "s2") = 1
  /\ result[2] = "done"

pg_graph(kill_in_b) ==
  << << Effect("a") >>, IF kill_in_b THEN << Effect("b"), Die >> ELSE << Effect("b") >> >>

pg_rep == Run(1) \o << Count >> \o Run(2) \o << Count >>

CellPg ==
  Cell("164pg", "", "snapshots", "record", << pg_graph(TRUE), pg_graph(FALSE) >>,
       << << Invoke("input") >>, << Invoke("none") >> >>, pg_rep)

as_expectedPg(rd, st, result) ==
  /\ st[1] = "killed" /\ ledger_counts(rd[1], 1, "b") = 1
  /\ result[2] = "error" /\ ledger_counts(rd[2], 1, "b") = 1

-----------------------------------------------------------------------------
(* 159, 165, 168: several processes resume one parked interrupt.           *)

build_gate(answer) ==
  << << Effect("pre") >>, << Interrupt, Effect(gate_task(answer)) >> >>

park_main == << Invoke("input") >>

racer_main(answer) == << Ready, AwaitStart, Invoke(answer) >>

single_main(answer) == << Invoke(answer) >>

\* Child 1 parks the thread; the racers arm, start together, and are reaped.
run_race(racers) ==
  Run(1) \o << Spawn(racers), Await(racers), Start, Reap(racers), Count >>

RaceCell(name, arm, late, gated, answers) ==
  [Cell(name, arm, "graph", late,
        << build_gate("True") >> \o [i \in DOMAIN answers |-> build_gate(answers[i])],
        << park_main >> \o [i \in DOMAIN answers |-> racer_main(answers[i])],
        run_race(2 .. Len(answers) + 1))
   EXCEPT !.gated = gated]

\* A resume, or two, without any race.
run_single_then(stray_after) ==
  Run(1) \o Run(2) \o (IF stray_after THEN Run(3) ELSE << >>) \o << Count >>

SingleCell(arm, answers) ==
  [Cell("165", arm, "graph", "record",
        << build_gate("True") >> \o [i \in DOMAIN answers |-> build_gate(answers[i])],
        << park_main >> \o [i \in DOMAIN answers |-> single_main(answers[i])],
        run_single_then(Len(answers) = 2))
   EXCEPT !.gated = TRUE]

fires_once(rd) == Fires(rd[1], 1) = 1

\* 159, contention: each worker parks a thread of its own, the first is killed
\* while parked, the rest go on, and a new process recovers the victim.
worker_main(victim) ==
  << Invoke("input"), Ready >>
    \o (IF victim THEN << Sleep >> ELSE << AwaitStart, Invoke("True") >>)

recover_main == << Invoke("True") >>

run_contention(k) ==
  << Spawn(1 .. k), Await(1 .. k), Kill(1), Start, Reap(2 .. k) >>
    \o Run(k + 1) \o << Count >>

ContentionCell(k) ==
  [Cell("159c", "", "graph", "record", [p \in 1 .. k + 1 |-> build_gate("True")],
        [p \in 1 .. k + 1 |-> IF p > k THEN recover_main ELSE worker_main(p = 1)],
        run_contention(k))
   EXCEPT !.k = k, !.thread = [p \in 1 .. k + 1 |-> IF p > k THEN 1 ELSE p]]

per_thread_exactly_once(k, rd, result) ==
  /\ \A t \in 1 .. k :
       /\ ledger_counts(rd[1], t, "pre") = 1
       /\ ledger_counts(rd[1], t, "gate:True") = 1
       /\ Fires(rd[1], t) = 1
  /\ result[k + 1] = "done"

\* 168: k racers with one answer, from programs of its own.  A parent that does
\* not see them all in time raises, and leaves them.
build_graph == build_gate("True")

child_park == << Invoke("input") >>

child_racer == << Ready, AwaitStart, Invoke("True") >>

run_cell(k) ==
  Cell("168", "", "graph", "abandon", [p \in 1 .. k + 1 |-> build_graph],
       [p \in 1 .. k + 1 |-> IF p = 1 THEN child_park ELSE child_racer],
       run_race(2 .. k + 1))

-----------------------------------------------------------------------------
\* The arm of 159 with the shim and without its gate races as the stock one.
parent_main159 ==
  << RaceCell("159", "same_stock", "record", FALSE, << "True", "True" >>),
     RaceCell("159", "diff_stock", "record", FALSE, << "True", "False" >>),
     ContentionCell(2),
     RaceCell("159", "same_gate", "record", TRUE, << "True", "True" >>),
     RaceCell("159", "diff_gate", "record", TRUE, << "True", "False" >>) >>

parent_main165 ==
  << SingleCell("seq_control", << "True" >>),
     RaceCell("165", "same_gate", "record", TRUE, << "True", "True" >>),
     RaceCell("165", "diff_gate", "record", TRUE, << "True", "False" >>),
     RaceCell("165", "same_stock", "record", FALSE, << "True", "True" >>),
     SingleCell("stray_after", << "True", "False" >>) >>

\* The sweep over the numbers of racers.
main168 == << run_cell(2), run_cell(3) >>

main137 == << Cell137("A"), Cell137("B"), Cell137("C") >>

parent_main160 == [k \in 1 .. Total160 |-> Cell160(k)]

parent_main163 ==
  << Cell163("pre_insert"), Cell163("post_insert"), Cell163("post_persist"),
     Cell163("none") >>

parent_main164 == << CellCrewai, CellPg >>

Cells ==
  << Cell133, Cell142, Cell158, Cell158b, Cell158c >>
    \o main137 \o parent_main160 \o parent_main163 \o parent_main164
    \o parent_main159 \o parent_main165 \o main168
=============================================================================
