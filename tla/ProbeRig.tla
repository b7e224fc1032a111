------------------------------ MODULE ProbeRig ------------------------------
(***************************************************************************)
(* A parent process, the children it starts, and what they share: the      *)
(* ledger of effects, the durable state of the engine under test, and the  *)
(* flag files by which they wait for each other.  Init picks an experiment *)
(* (AllCells has those of the probes); its script and its lives drive the  *)
(* run.                                                                    *)
(*                                                                         *)
(* External, from how the probes use them: the six engines (what an        *)
(* invoke runs and which operations it makes durable) and the databases.   *)
(* The functional engine hands its operations to a thread of its own and   *)
(* joins it when the invoke returns; the others write as they go.          *)
(***************************************************************************)
EXTENDS SessionCells

CONSTANTS
  Experiments, \* the cells that may be run
  MaxBroken,   \* bound: children that fail before they do anything
  MaxBusy      \* bound: calls of the store that find the database locked

ASSUME RigAssumption == {MaxBroken, MaxBusy} \subseteq Nat

VARIABLES
  cell,      \* the cell this run executes
  script,    \* what the parent still has to do
  outcome,   \* "running", "receipt", "refused" or "crashed"
  readings,  \* the ledgers the parent has read
  st,        \* [child -> "none", "running", "exited", "failed" or "killed"]
  todo,      \* [child -> the steps it still has to take]
  queue,     \* [child -> operations its engine has not made durable]
  mine,      \* [child -> operations its engine has executed]
  stuck,     \* [child -> its engine thread sleeps in a hook, holding the lock]
  result,    \* [child -> how its last invoke ended]
  durable,   \* [thread -> the operations in the store]
  ledger,    \* the effects that happened
  claims,    \* [thread -> the child that claimed the parked tuple, or 0]
  flag,      \* [child -> its flag file: "absent", "empty" or "full"]
  go,        \* the start file exists
  crashed,   \* the crashed file exists, or the crash armed in memory happened
  late,      \* a timeout has expired
  torn,      \* the parent parsed an empty flag
  busy       \* calls that found the database locked

parent == << script, outcome, readings, late, torn >>
files == << flag, go, crashed >>
child == << st, todo, result >>
engine == << queue, mine, stuck, durable, claims >>
rigVars == << cell, parent, child, engine, ledger, files, busy >>

Child == DOMAIN cell.lives
Thread(p) == cell.thread[p]

RigInit ==
  /\ cell \in Experiments
  /\ script = cell.script
  /\ outcome = "running"
  /\ readings = << >>
  /\ st = [p \in Child |-> "none"]
  /\ todo = [p \in Child |-> << >>]
  /\ queue = [p \in Child |-> << >>]
  /\ mine = [p \in Child |-> << >>]
  /\ stuck = [p \in Child |-> FALSE]
  /\ result = [p \in Child |-> "none"]
  /\ durable = [t \in Child |-> << >>]
  /\ ledger = {}
  /\ claims = [t \in Child |-> 0]
  /\ flag = [p \in Child |-> "absent"]
  /\ go = FALSE /\ crashed = FALSE /\ late = FALSE /\ torn = FALSE
  /\ busy = 0

-----------------------------------------------------------------------------
(* The engines: the steps of an invoke, from the durable operations d.     *)

Op(o) == << "op", o >>          \* made durable before the run goes on
Submit(o) == << "submit", o >>  \* handed to the thread of the engine
Sync == << "sync" >>            \* joins that thread
Claim == << "claim" >>          \* get_tuple of a gated saver
Raise == << "raise" >>
Resumed == << "resumed" >>      \* interrupt() has its answer, and returns it
Returned == << "returned" >>

Has(d, o) == o \in Range(d)

\* The steps of nodes i.., each followed by what the engine makes durable.
Walk(nodes, i, after(_)) ==
  FlattenSeq([n \in 1 .. Len(nodes) - i + 1 |-> nodes[n + i - 1] \o after(n + i - 1)])

NextNode(nodes, d) ==
  Cardinality({n \in 1 .. Len(nodes) : Has(d, << "write", n >>)}) + 1

Parked(nodes, d) ==
  Has(d, << "interrupt" >>) /\ ~Has(d, << "write", NextNode(nodes, d) >>)
    /\ NextNode(nodes, d) <= Len(nodes)

\* What runs when there is an answer.
Resuming(steps) == [i \in DOMAIN steps |-> IF steps[i] = Interrupt THEN Resumed ELSE steps[i]]

Tasks(nodes, i) == Walk(nodes, i, LAMBDA n : << Submit(<< "write", n >>) >>)

\* Fresh input runs every task, an answer those from the interrupt on.
functional(nodes, how, d) ==
  (IF how = "input" THEN << Submit(<< "put", 0 >>) >> \o Tasks(nodes, 1)
   ELSE Resuming(Tasks(nodes, NextNode(nodes, d))))
    \o << Submit(<< "write", 0 >>), Submit(<< "put", Len(nodes) >>), Sync, Returned >>

\* The answer of the interrupt is the one recorded first.
Answered(d, v) ==
  IF Has(d, << "resume", "True" >>) \/ Has(d, << "resume", "False" >>)
  THEN SelectSeq(d, LAMBDA o : o[1] = "resume")[1][2]
  ELSE v

\* A resume by checkpoint id runs the last node, which asked, again.
Forked(nodes, d, v) ==
  << Op(<< "resume", v >>) >>
    \o [i \in 1 .. Len(nodes[Len(nodes)]) - 1 |->
          IF nodes[Len(nodes)][i + 1] = Decide THEN Effect(gate_task(Answered(d, v)))
                                               ELSE nodes[Len(nodes)][i + 1]]
    \o << Op(<< "write", Len(nodes) >>), Op(<< "put", Len(nodes) >>), Returned >>

GraphNodes(nodes, i) ==
  Walk(nodes, i, LAMBDA n : << Op(<< "write", n >>), Op(<< "put", n >>) >>)

graph(nodes, how, d, gated) ==
  CASE how = "input" ->
         << Op(<< "put", 0 >>) >> \o GraphNodes(nodes, 1) \o << Returned >>
    [] how = "none" -> GraphNodes(nodes, NextNode(nodes, d)) \o << Returned >>
    [] how = "fork:True" -> Forked(nodes, d, "True")
    [] how = "fork:False" -> Forked(nodes, d, "False")
    [] OTHER ->
         IF ~Parked(nodes, d) THEN << Returned >>
         ELSE (IF gated THEN << Claim, Submit(<< "resume" >>) >> ELSE << >>)
                \o Resuming(GraphNodes(nodes, NextNode(nodes, d)))
                \o (IF gated THEN << Sync, Returned >> ELSE << Returned >>)

\* CrewAI: a restored flow runs all its methods again.
flow(nodes, how, d) ==
  IF how = "restore" /\ ~Has(d, << "id" >>) THEN << Raise, Returned >>
  ELSE Walk(nodes, 1, LAMBDA n : << Op(<< "save", n >>) >>) \o << Returned >>

\* pydantic-graph: a node that was running when the process died is an error.
Snapshots(nodes, i) ==
  FlattenSeq([n \in 1 .. Len(nodes) - i + 1 |->
    << Op(<< "running", n + i - 1 >>) >> \o nodes[n + i - 1]
      \o << Op(<< "write", n + i - 1 >>) >>])

snapshots(nodes, how, d) ==
  LET next == NextNode(nodes, d) IN
  CASE how = "input" -> Snapshots(nodes, 1) \o << Returned >>
    [] how # "input" /\ Has(d, << "running", next >>) -> << Raise, Returned >>
    [] OTHER -> Snapshots(nodes, next) \o << Returned >>

\* LlamaIndex: the snapshot is taken when the workflow asks, and never changed.
context(nodes, how, d) ==
  IF how = "input" THEN nodes[1] \o << Op(<< "snap" >>), Returned >>
  ELSE IF Has(d, << "snap" >>) THEN nodes[2] \o << Returned >>
  ELSE << Raise, Returned >>

\* DBOS: a workflow goes on after the last step it has recorded.
queued(nodes, d) ==
  Walk(nodes, NextNode(nodes, d), LAMBDA n : << Op(<< "write", n >>) >>) \o << Returned >>

Plan(p, how) ==
  LET nodes == cell.nodes[p]
      d == durable[Thread(p)]
  IN  CASE cell.engine = "functional" -> functional(nodes, how, d)
        [] cell.engine = "graph"      -> graph(nodes, how, d, cell.gated)
        [] cell.engine = "flow"       -> flow(nodes, how, d)
        [] cell.engine = "snapshots"  -> snapshots(nodes, how, d)
        [] cell.engine = "queue"      -> queued(nodes, d)
        [] OTHER                      -> context(nodes, how, d)

-----------------------------------------------------------------------------
(* The children.                                                           *)

Running(p) == st[p] = "running"

\* What children do whose parent has ended is not followed: nobody reads it.
Followed(p) == Running(p) /\ outcome = "running"

\* The main thread of p is at a step of that kind, and not writing its flag.
At(p, kind) ==
  /\ Followed(p) /\ flag[p] # "empty"
  /\ todo[p] # << >> /\ Head(todo[p])[1] = kind

Arg(p) == Head(todo[p])[2]

Then(p, steps) == todo' = [todo EXCEPT ![p] = steps \o Tail(@)]

InvokeEnd(steps) == SelectInSeq(steps, LAMBDA s : s = Returned)

\* The invoke ends here: what is left of it is dropped.
EndInvoke(p, how) ==
  /\ result' = [result EXCEPT ![p] = how]
  /\ todo' = [todo EXCEPT ![p] = SubSeq(@, InvokeEnd(@) + 1, Len(@))]

_invoke(p) ==
  /\ At(p, "invoke")
  /\ Then(p, Plan(p, Arg(p)))
  /\ UNCHANGED << cell, parent, st, result, engine, ledger, files, busy >>

TakeEffect(p) ==
  /\ At(p, "effect")
  /\ ledger' = ledger_write(ledger, Thread(p), Arg(p), p)
  /\ Then(p, << >>)
  /\ UNCHANGED << cell, parent, st, result, engine, files, busy >>

\* The flag is opened, which truncates it, and its content written after.
OpenFlag(p) ==
  /\ At(p, "ready")
  /\ flag' = [flag EXCEPT ![p] = "empty"]
  /\ Then(p, << >>)
  /\ UNCHANGED << cell, parent, st, result, engine, ledger, go, crashed, busy >>

FillFlag(p) ==
  /\ Followed(p) /\ flag[p] = "empty"
  /\ flag' = [flag EXCEPT ![p] = "full"]
  /\ UNCHANGED << cell, parent, child, engine, ledger, go, crashed, busy >>

\* Mutant: the flag is written, and the task goes on.
ParkHereNot(p) ==
  /\ At(p, "park")
  /\ Then(p, IF crashed THEN << >> ELSE << Ready >>)
  /\ UNCHANGED << cell, parent, st, result, engine, ledger, files, busy >>

ParkHere(p) ==
  /\ At(p, "park")
  /\ Then(p, IF crashed THEN << >> ELSE << Ready, Sleep >>)
  /\ UNCHANGED << cell, parent, st, result, engine, ledger, files, busy >>

SeeStart(p) ==
  /\ At(p, "await_start") /\ go
  /\ Then(p, << >>)
  /\ UNCHANGED << cell, parent, st, result, engine, ledger, files, busy >>

\* Mutant: the operations of a dead process are still executed.
GoneKeeps(p, how) ==
  /\ st' = [st EXCEPT ![p] = how]
  /\ todo' = [todo EXCEPT ![p] = << >>]
  /\ UNCHANGED queue

\* A process that is gone takes what it did not make durable with it.
Gone(p, how) ==
  /\ st' = [st EXCEPT ![p] = how]
  /\ todo' = [todo EXCEPT ![p] = << >>]
  /\ queue' = [queue EXCEPT ![p] = << >>]

_die(p) ==
  /\ At(p, "die")
  /\ Gone(p, "killed")
  /\ UNCHANGED << cell, parent, result, mine, stuck, durable, claims, ledger, files, busy >>

\* interrupt() without an answer: the invoke joins its thread, saves that and
\* returns.
Ask(p) ==
  /\ At(p, "interrupt") /\ queue[p] = << >>
  /\ durable' = [durable EXCEPT ![Thread(p)] = Append(@, << "interrupt" >>)]
  /\ EndInvoke(p, "done")
  /\ UNCHANGED << cell, parent, st, queue, mine, stuck, claims, ledger, files, busy >>

Continue(p) ==
  /\ At(p, "resumed")
  /\ Then(p, << >>)
  /\ UNCHANGED << cell, parent, st, result, engine, ledger, files, busy >>

\* 163: the saver kills its process when the put after s2's write is durable.
DiesAfter(p, o) ==
  /\ cell.hook[1] = "s2_written" /\ p = 1
  /\ o[1] = "put" /\ Has(durable[Thread(p)], << "write", 2 >>)

Write(p) ==
  /\ At(p, "op")
  /\ durable' = [durable EXCEPT ![Thread(p)] = Append(@, Arg(p))]
  /\ IF DiesAfter(p, Arg(p))
     THEN Gone(p, "killed")
     ELSE Then(p, << >>) /\ UNCHANGED << st, queue >>
  /\ UNCHANGED << cell, parent, result, mine, stuck, claims, ledger, files, busy >>

\* "database is locked": another process is in the store.
Busy(p) ==
  /\ At(p, "op") /\ busy < MaxBusy
  /\ \E q \in Child \ {p} : Running(q) /\ Thread(q) = Thread(p)
  /\ busy' = busy + 1
  /\ EndInvoke(p, "error")
  /\ UNCHANGED << cell, parent, st, engine, ledger, files >>

\* The task raises: two errors are written, and the invoke raises.
CrashHere(p) ==
  /\ At(p, "crash")
  /\ crashed' = TRUE
  /\ Then(p, IF crashed THEN << >>
             ELSE << Submit(<< "error", 1 >>), Submit(<< "error", 2 >>), Raise >>)
  /\ UNCHANGED << cell, parent, st, result, engine, ledger, flag, go, busy >>

Receive(p) ==
  /\ At(p, "recv") /\ Has(durable[Thread(p)], << "message" >>)
  /\ Then(p, << >>)
  /\ UNCHANGED << cell, parent, st, result, engine, ledger, files, busy >>

Enqueue(p) ==
  /\ At(p, "submit")
  /\ queue' = [queue EXCEPT ![p] = Append(@, Arg(p))]
  /\ Then(p, << >>)
  /\ UNCHANGED << cell, parent, st, result, mine, stuck, durable, claims, ledger, files, busy >>

Join(p) ==
  /\ At(p, "sync") /\ queue[p] = << >>
  /\ Then(p, << >>)
  /\ UNCHANGED << cell, parent, st, result, engine, ledger, files, busy >>

\* 137: the saver parks at the first put after a put_writes, without a lock.
ParksBefore(p) ==
  /\ cell.hook[1] = "seam" /\ p = 1
  /\ Head(queue[p])[1] = "put" /\ \E i \in DOMAIN mine[p] : mine[p][i][1] = "write"

\* Mutant: the operation is counted when it starts.
StopsAfterEarly(p, n) == cell.hook[1] = "count" /\ p = 1 /\ n + 1 = cell.k

\* 160: the saver parks after its k-th operation, holding the lock of its class.
StopsAfter(p, n) == cell.hook[1] = "count" /\ p = 1 /\ n = cell.k

IsWrite(o) == o[1] \in {"write", "error"}

\* 118, 128: the saver of thread 1 drops every put but the first, or every write.
Drops(p, o) ==
  /\ Thread(p) = 1
  /\ \/ cell.hook[1] = "drop_writes" /\ IsWrite(o)
     \/ /\ cell.hook[1] = "drop_puts" /\ o[1] = "put"
        /\ \E q \in Child : \E i \in DOMAIN mine[q] : mine[q][i][1] = "put"

\* What one operation adds to the store.  136: a put adds itself and then the
\* writes held back since the put before it.
Lands(p, o) ==
  CASE cell.hook[1] = "defer" /\ IsWrite(o) -> << >>
    [] cell.hook[1] = "defer" /\ ~IsWrite(o) ->
         << o >> \o SelectSeq(FlattenSeq(mine),
                            LAMBDA w : IsWrite(w) /\ ~Has(durable[Thread(p)], w))
    [] OTHER -> IF Drops(p, o) THEN << >> ELSE << o >>

\* The thread of the engine executes the oldest operation.
Flush(p) ==
  /\ Followed(p) /\ queue[p] # << >> /\ ~stuck[p] /\ ~ParksBefore(p)
  /\ durable' = [durable EXCEPT ![Thread(p)] = @ \o Lands(p, Head(queue[p]))]
  /\ mine' = [mine EXCEPT ![p] = Append(@, Head(queue[p]))]
  /\ queue' = [queue EXCEPT ![p] = Tail(@)]
  /\ IF StopsAfter(p, Len(mine[p]) + 1)
     THEN stuck' = [stuck EXCEPT ![p] = TRUE] /\ flag' = [flag EXCEPT ![p] = "empty"]
     ELSE UNCHANGED << stuck, flag >>
  /\ UNCHANGED << cell, parent, child, claims, ledger, go, crashed, busy >>

ParkInSaver(p) ==
  /\ Followed(p) /\ queue[p] # << >> /\ ~stuck[p] /\ ParksBefore(p)
  /\ stuck' = [stuck EXCEPT ![p] = TRUE]
  /\ flag' = [flag EXCEPT ![p] = "empty"]
  /\ UNCHANGED << cell, parent, child, queue, mine, durable, claims, ledger, go, crashed, busy >>

\* Mutant: the row of another process does not reject.
claimBlind(p) ==
  /\ At(p, "claim")
  /\ claims' = [claims EXCEPT ![Thread(p)] = p]
  /\ Then(p, << >>)
  /\ UNCHANGED << cell, parent, st, result, queue, mine, stuck, durable, ledger, files, busy >>

\* ConsumptionGate.claim: one INSERT decides; the loser's invoke raises.
claim(p) ==
  /\ At(p, "claim")
  /\ IF claims[Thread(p)] = 0
     THEN /\ claims' = [claims EXCEPT ![Thread(p)] = p]
          /\ Then(p, << >>)
          /\ UNCHANGED result
     ELSE EndInvoke(p, "rejected") /\ UNCHANGED claims
  /\ UNCHANGED << cell, parent, st, queue, mine, stuck, durable, ledger, files, busy >>

\* The child catches what its invoke raises and reports it.
Fail(p) ==
  /\ At(p, "raise") /\ queue[p] = << >>
  /\ EndInvoke(p, "error")
  /\ UNCHANGED << cell, parent, st, engine, ledger, files, busy >>

InvokeReturns(p) ==
  /\ At(p, "returned")
  /\ EndInvoke(p, "done")
  /\ UNCHANGED << cell, parent, st, engine, ledger, files, busy >>

Exit(p) ==
  /\ Followed(p) /\ todo[p] = << >>
  /\ Gone(p, "exited")
  /\ UNCHANGED << cell, parent, result, mine, stuck, durable, claims, ledger, files, busy >>

\* A child that cannot open its store, or finds a wrong version, exits at once.
Broken(p) ==
  /\ Followed(p) /\ todo[p] = cell.lives[p] /\ cell.late # "inline"
  /\ Cardinality({q \in Child : st[q] = "failed"}) < MaxBroken
  /\ Gone(p, "failed")
  /\ UNCHANGED << cell, parent, result, mine, stuck, durable, claims, ledger, files, busy >>

ChildStep(p) ==
  \/ _invoke(p) \/ TakeEffect(p) \/ OpenFlag(p) \/ FillFlag(p) \/ ParkHere(p)
  \/ SeeStart(p) \/ _die(p) \/ CrashHere(p) \/ Receive(p) \/ Ask(p) \/ Continue(p)
  \/ Write(p) \/ Enqueue(p) \/ Join(p) \/ Flush(p) \/ ParkInSaver(p) \/ claim(p)
  \/ Fail(p) \/ InvokeReturns(p) \/ Exit(p)

-----------------------------------------------------------------------------
(* The parent.                                                             *)

Does(kind) ==
  /\ outcome = "running" /\ script # << >> /\ Head(script)[1] = kind

Whom == Head(script)[2]

_spawn ==
  /\ Does("spawn")
  /\ st' = [p \in Child |-> IF p \in Whom THEN "running" ELSE st[p]]
  /\ todo' = [p \in Child |-> IF p \in Whom THEN cell.lives[p] ELSE todo[p]]
  /\ script' = Tail(script)
  /\ UNCHANGED << cell, outcome, readings, late, torn, result, engine, ledger, files, busy >>

Armed == \A p \in Whom : flag[p] # "absent"

SeeFlags ==
  /\ Does("await") /\ Armed
  /\ script' = Tail(script)
  /\ UNCHANGED << cell, outcome, readings, late, torn, child, engine, ledger, files, busy >>

\* The parent stops before the end of its script; ps are killed first.
GiveUp(how, ps) ==
  /\ outcome' = how
  /\ script' = << >>
  /\ st' = [p \in Child |-> IF p \in ps /\ Running(p) THEN "killed" ELSE st[p]]
  /\ todo' = [p \in Child |-> IF p \in ps THEN << >> ELSE todo[p]]
  /\ queue' = [p \in Child |-> IF p \in ps THEN << >> ELSE queue[p]]

\* The deadline for the flags.  137 makes a row of it, and goes on.  147 comes to
\* it only when its worker has just printed some other line.
Deadline ==
  /\ Does("await") /\ ~Armed
  /\ CASE cell.late \in {"abandon", "wait"} -> GiveUp("crashed", {})
       [] cell.name = "137" -> GiveUp("receipt", Whom)
       [] OTHER -> GiveUp("refused", Whom)
  /\ late' = TRUE
  /\ UNCHANGED << cell, readings, torn, result, mine, stuck, durable, claims, ledger, files, busy >>

\* Only the parents of a single victim look whether it still lives.  137 and 160
\* make a row of its end; for 160 the run "completed without kill".
EarlyExit ==
  /\ Does("await") /\ ~Armed
  /\ \E p \in Whom : Whom = {p} /\ ~Running(p)
  /\ GiveUp(CASE cell.name \in {"137", "160"} -> "receipt"
              [] cell.late = "wait" -> "crashed"
              [] OTHER -> "refused", {})
  /\ UNCHANGED << cell, readings, late, torn, result, mine, stuck, durable, claims, ledger, files, busy >>

\* json.loads of a flag that is open and not written yet raises.
ReadFlag ==
  /\ Does("peek")
  /\ IF flag[Whom] = "full"
     THEN script' = Tail(script) /\ UNCHANGED << outcome, torn, st, todo, queue >>
     ELSE GiveUp("crashed", {}) /\ torn' = TRUE
  /\ UNCHANGED << cell, readings, late, result, mine, stuck, durable, claims, ledger, files, busy >>

ReadLedger ==
  /\ Does("count")
  /\ readings' = Append(readings, ledger)
  /\ script' = Tail(script)
  /\ UNCHANGED << cell, outcome, late, torn, child, engine, ledger, files, busy >>

\* 147 polls the ledger, and raises when that takes too long.
SeeRowStep ==
  /\ Does("see_row")
  /\ IF \E r \in ledger : r[2] = Whom
     THEN script' = Tail(script) /\ UNCHANGED << outcome, late, st, todo, queue >>
     ELSE GiveUp("crashed", {}) /\ late' = TRUE
  /\ UNCHANGED << cell, readings, torn, result, mine, stuck, durable, claims, ledger, files, busy >>

SendMessage ==
  /\ Does("send")
  /\ durable' = [durable EXCEPT ![Whom] = Append(@, << "message" >>)]
  /\ script' = Tail(script)
  /\ UNCHANGED << cell, outcome, readings, late, torn, child, queue, mine, stuck, claims,
                  ledger, files, busy >>

\* get_result() waits as long as it takes.
SeeDone ==
  /\ Does("done") /\ Has(durable[Whom[1]], << "write", Whom[2] >>)
  /\ script' = Tail(script)
  /\ UNCHANGED << cell, outcome, readings, late, torn, child, engine, ledger, files, busy >>

\* 118, 128: the whole store.  147: a fork has the steps recorded before the
\* wait it starts from.
CopyStore ==
  /\ Does("copy")
  /\ durable' = [durable EXCEPT ![Whom] =
                   SelectSeq(durable[1], LAMBDA o : cell.engine = "queue" => o = << "write", 1 >>)]
  /\ script' = Tail(script)
  /\ UNCHANGED << cell, outcome, readings, late, torn, child, queue, mine, stuck, claims,
                  ledger, files, busy >>

KillVictim ==
  /\ Does("kill")
  /\ script' = Tail(script)
  /\ IF Running(Whom) THEN Gone(Whom, "killed") ELSE UNCHANGED << st, todo, queue >>
  /\ UNCHANGED << cell, outcome, readings, late, torn, result, mine, stuck, durable,
                  claims, ledger, files, busy >>

MarkCrashed ==
  /\ Does("mark")
  /\ crashed' = TRUE
  /\ script' = Tail(script)
  /\ UNCHANGED << cell, outcome, readings, late, torn, child, engine, ledger, flag, go, busy >>

StartRacers ==
  /\ Does("start")
  /\ go' = TRUE
  /\ script' = Tail(script)
  /\ UNCHANGED << cell, outcome, readings, late, torn, child, engine, ledger, flag, crashed, busy >>

\* Mutant: the parent waits for the child to exit by itself.
CollectedAlive ==
  /\ Does("reap") /\ \A p \in Whom : st[p] = "exited"
  /\ script' = Tail(script)
  /\ UNCHANGED << cell, outcome, readings, late, torn, child, engine, ledger, files, busy >>

\* 168 raises when the child that parks fails; nobody else looks.
Collected ==
  /\ Does("reap") /\ \A p \in Whom : ~Running(p)
  /\ IF cell.late = "abandon" /\ st[1] = "failed"
     THEN outcome' = "crashed" /\ script' = << >>
     ELSE script' = Tail(script) /\ UNCHANGED outcome
  /\ UNCHANGED << cell, readings, late, torn, child, engine, ledger, files, busy >>

\* Mutant: the late child is recorded and lives on.
TimeoutLeaves ==
  /\ Does("reap") /\ \E p \in Whom : Running(p)
  /\ late' = TRUE
  /\ script' = Tail(script)
  /\ UNCHANGED << cell, outcome, readings, torn, child, engine, ledger, files, busy >>

\* A child misses the timeout of communicate(), run() or wait().
Timeout ==
  /\ Does("reap")
  /\ late' = TRUE
  /\ \/ \E p \in Whom :
          /\ cell.late = "record" /\ Running(p)
          /\ Gone(p, "killed")
          /\ UNCHANGED << script, outcome >>
     \/ /\ cell.late = "raise" /\ \E p \in Whom : Running(p)
        /\ GiveUp("crashed", Whom)
     \/ /\ cell.late = "abandon" /\ \E p \in Whom \ {1} : Running(p)
        /\ GiveUp("crashed", {})
  /\ UNCHANGED << cell, readings, torn, result, mine, stuck, durable, claims, ledger, files, busy >>

WriteReceipt ==
  /\ outcome = "running" /\ script = << >>
  /\ outcome' = "receipt"
  /\ UNCHANGED << cell, script, readings, late, torn, child, engine, ledger, files, busy >>

ParentStep ==
  \/ _spawn \/ SeeFlags \/ Deadline \/ EarlyExit \/ ReadFlag \/ ReadLedger
  \/ SeeRowStep \/ SendMessage \/ SeeDone \/ CopyStore \/ KillVictim
  \/ MarkCrashed \/ StartRacers \/ Collected \/ Timeout \/ WriteReceipt

RigNext ==
  \/ ParentStep
  \/ \E p \in Child : ChildStep(p) \/ Busy(p) \/ Broken(p)

RigSpec == RigInit /\ [][RigNext]_rigVars

\* 147 reads its worker's output line by line, and readline() outlasts the
\* deadline for as long as a worker that lives prints nothing.
ReadBlocks == cell.late = "wait" /\ Does("await") /\ ~Armed /\ \E p \in Whom : Running(p)

\* Processes that can run do, and a parent polls or waits until a deadline of
\* its own.  In two places it has none and depends on the child: 147 at the line
\* it reads, and 168 for its park child, which it waits for without a timeout.
FairRigSpec ==
  /\ RigSpec
  /\ WF_rigVars(ParentStep /\ ~ReadBlocks)
  /\ WF_rigVars(\E p \in Child : ChildStep(p))
-----------------------------------------------------------------------------
(* What the theorems assume of the experiments.  TLC checks it of AllCells. *)

Sequence(s) == s \in Seq(Range(s))

Programs(c) ==
  /\ DOMAIN c.lives \subseteq Nat \ {0}
  /\ \A p \in DOMAIN c.lives : c.thread[p] \in DOMAIN c.lives
  /\ Sequence(c.script)
  /\ \A p \in DOMAIN c.lives :
       /\ Sequence(c.lives[p]) /\ Sequence(c.nodes[p])
       /\ \A n \in DOMAIN c.nodes[p] : Sequence(c.nodes[p][n])

Closes(step, p) ==
  \/ step[1] = "kill" /\ step[2] = p
  \/ step[1] = "reap" /\ p \in step[2]

\* A child is started once and killed or waited for later, and the parent polls
\* flags only while the children they are of are the only ones it has not.
Tidy(s) ==
  \A i \in DOMAIN s : s[i][1] = "spawn" => \A p \in s[i][2] :
    /\ \A j \in DOMAIN s : s[j][1] = "spawn" /\ p \in s[j][2] => i = j
    /\ \E j \in DOMAIN s : i < j /\ Closes(s[j], p)
    /\ \A j \in DOMAIN s :
         i < j /\ s[j][1] = "await" /\ p \notin s[j][2] =>
           \E m \in DOMAIN s : i < m /\ m < j /\ Closes(s[m], p)

AnswerTask == {"gate:True", "gate:False"}

\* With the gate a child answers once, and a node takes the effect of the answer
\* after it has asked.
OneAnswer(c) ==
  /\ c.engine = "graph"
  /\ \A p \in DOMAIN c.lives :
       /\ \A i \in DOMAIN c.lives[p] :
            c.lives[p][i][1] \in {"invoke", "ready", "sleep", "await_start"}
       /\ \A i, j \in DOMAIN c.lives[p] :
            c.lives[p][i][1] = "invoke" =>
              /\ c.lives[p][i][2] \notin {"fork:True", "fork:False"}
              /\ c.lives[p][j][1] = "invoke" => i = j
       /\ \A n \in DOMAIN c.nodes[p] : \A j \in DOMAIN c.nodes[p][n] :
            /\ c.nodes[p][n][j][1] \in {"effect", "interrupt"}
            /\ c.nodes[p][n][j][1] = "effect" /\ c.nodes[p][n][j][2] \in AnswerTask =>
                 \E i \in DOMAIN c.nodes[p][n] : i < j /\ c.nodes[p][n][i] = Interrupt

\* 160 stops at an operation of a plain run, and leaves the store alone.
PlainRun(c) ==
  /\ c.engine = "functional" /\ c.hook = << "count" >> /\ c.thread[1] = 1
  /\ DOMAIN c.lives = {1, 2}
  /\ \A i \in DOMAIN c.lives[1] : c.lives[1][i] = Invoke("input")
  /\ \A n \in DOMAIN c.nodes[1] :
       \A i \in DOMAIN c.nodes[1][n] : c.nodes[1][n][i][1] = "effect"
  /\ \A i \in DOMAIN c.script : c.script[i][1] \notin {"copy", "send"}

VictimParks == {"133", "137", "142", "158", "158b", "158c"}

\* There the victim makes one invoke, and sleeps when its flag is up; the ledger
\* is read when it is, and nobody but the victim runs before child 2.
Victim(c) ==
  LET life == c.lives[1] IN
  /\ {1, 2} \subseteq DOMAIN c.lives
  /\ c.engine \in {"functional", "graph", "context", "snapshots"}
  /\ c.hook[1] \in {"none", "seam"} /\ (c.hook[1] = "seam" => c.engine = "functional")
  /\ \A i \in DOMAIN life :
       \/ life[i] = Invoke("input") /\ i = 1
       \/ life[i] = Sleep
       \/ life[i] = Ready /\ i + 1 \in DOMAIN life /\ life[i + 1] = Sleep
  /\ c.nodes[1] # << >>
  /\ \A n \in DOMAIN c.nodes[1] : \A i \in DOMAIN c.nodes[1][n] :
       c.nodes[1][n][i][1] \in {"effect", "park", "interrupt"}
  /\ \A i \in DOMAIN c.script :
       /\ c.script[i][1] = "count" =>
            \E m \in DOMAIN c.script :
              m < i /\ c.script[m][1] = "await" /\ 1 \in c.script[m][2]
       /\ c.script[i][1] = "spawn" /\ ~(c.script[i][2] \subseteq {1}) =>
            \E m \in DOMAIN c.script :
              m <= i /\ c.script[m][1] = "spawn" /\ 2 \in c.script[m][2]

RaceNames == {"159", "165", "168"}

\* There child 1 parks a thread that everybody shares and the others answer it.
\* Those start when child 1 has been waited for, the parent waits for whom it
\* has started, and it reads the ledger once, when it has waited for them all.
Race(c) ==
  /\ c.engine = "graph" /\ c.hook = << "none" >> /\ c.gated \in BOOLEAN
  /\ c.late \notin {"inline", "wait"}
  /\ Sequence(c.lives) /\ 1 \in DOMAIN c.lives /\ DOMAIN c.lives # {1}
  /\ c.lives[1] = park_main
  /\ \A p \in DOMAIN c.lives :
       /\ c.thread[p] = 1
       /\ \E a \in {"True", "False"} : c.nodes[p] = build_gate(a)
       /\ p # 1 => \E a \in {"True", "False"} : c.lives[p] \in {racer_main(a), single_main(a)}
  /\ \A i \in DOMAIN c.script :
       /\ c.script[i][1] \in {"spawn", "await", "start", "reap", "count"}
       /\ c.script[i][1] = "spawn" /\ ~(c.script[i][2] \subseteq {1}) =>
            \E m \in DOMAIN c.script :
              m < i /\ c.script[m][1] = "reap" /\ 1 \in c.script[m][2]
       /\ c.script[i][1] = "reap" => \A p \in c.script[i][2] :
            \E m \in DOMAIN c.script :
              m < i /\ c.script[m][1] = "spawn" /\ p \in c.script[m][2]
       /\ c.script[i][1] = "count" => \A p \in DOMAIN c.lives :
            \E m \in DOMAIN c.script :
              m < i /\ c.script[m][1] = "reap" /\ p \in c.script[m][2]
  /\ \E i \in DOMAIN c.script : c.script[i][1] = "count"
  /\ \A i, j \in DOMAIN c.script :
       c.script[i][1] = "count" /\ c.script[j][1] = "count" => i = j

ASSUME ExperimentAssumption ==
  \A c \in Experiments :
    /\ Programs(c)
    /\ Tidy(c.script)
    /\ c.gated => OneAnswer(c)
    /\ c.name = "160" => PlainRun(c)
    /\ c.name \in VictimParks => Victim(c)
    /\ c.name \in RaceNames => Race(c)

-----------------------------------------------------------------------------
(* Properties.                                                             *)

RigTypeOK ==
  /\ outcome \in {"running", "receipt", "refused", "crashed"}
  /\ st \in [Child -> {"none", "running", "exited", "failed", "killed"}]
  /\ result \in [Child -> {"none", "done", "rejected", "error"}]
  /\ flag \in [Child -> {"absent", "empty", "full"}]
  /\ claims \in [Child -> {0} \cup Child]
  /\ \A p \in Child : st[p] # "running" => todo[p] = << >> /\ queue[p] = << >>
  /\ {go, crashed, late, torn} \subseteq BOOLEAN
  /\ busy \in 0 .. MaxBusy

Undisturbed ==
  /\ outcome = "receipt" /\ ~late /\ busy = 0
  /\ \A p \in Child : st[p] # "failed"

\* What the receipts of the probes say is so on every schedule, unless a
\* child failed, was late or found the database locked: the re-executions and
\* duplicates of 133, 137, 142, 160, 163 and 164, the inert strays and single
\* effects of 158, 158b, 158c, 159 and 165; the forks, the stray answers and the
\* crash resumes of 113, 126, 130 and 147; and that of 118, 128 and 136, where
\* two recoveries agree whatever part of the log the crash left (RD).
VerdictsHold ==
  Undisturbed =>
    CASE cell.name = "133"   -> reexecuted133(readings)
      [] cell.name = "137"   -> cell.arm = "A" => reexecutes_at_A(readings)
      [] cell.name = "142"   -> confirmed142(readings)
      [] cell.name = "158"   -> stable158(readings, result)
      [] cell.name = "158b"  -> stable158b(readings)
      [] cell.name = "158c"  -> stable158c(readings, result)
      [] cell.name = "160"   ->
           any_duplicate160(readings) <=> \E r \in readings[2] : r[3] = 1
      [] cell.name = "163"   -> as_expected163(cell.arm, readings, st)
      [] cell.name = "164cw" -> as_expectedCrewai(readings, st, result)
      [] cell.name = "164pg" -> as_expectedPg(readings, st, result)
      [] cell.name = "159c"  -> per_thread_exactly_once(cell.k, readings, result)
      [] cell.gated          -> fires_once(readings)
      [] cell.late \in {"inline", "wait"} -> SessionVerdict(cell, readings)
      [] OTHER               -> Fires(readings[1], 1) \in 1 .. Len(cell.lives) - 1

\* 160: from the moment the flag exists until the resume starts, the store
\* holds the first k operations the saver was handed, all of them and in their
\* order, although the run goes on submitting.
FreezeExact ==
  cell.name = "160" /\ flag[1] # "absent" /\ st[2] = "none" =>
    durable[1] = mine[1] /\ Len(mine[1]) = cell.k

\* "ledger at kill": what the parent reads before the kill is what the victim
\* leaves, where the victim's run waits for what sleeps (133, 137, 142, 158*).
\* In 160 only the saver sleeps, and the run goes on meanwhile.
LedgerAtKillExact ==
  /\ cell.name \in VictimParks
  /\ Len(readings) = 1 /\ st[2] = "none"
  => ledger = readings[1]

\* CO: with the gate at most one process fires a parked interrupt, the one
\* that holds the claim, and a rejected one fires nothing and leaves no answer
\* in the store, even when racers are late, killed or meet a locked database.
GateExclusive ==
  cell.gated =>
    /\ \A r \in ledger : r[2] \in {"gate:True", "gate:False"} =>
         r[3] = claims[r[1]] /\ result[r[3]] # "rejected"
    /\ \A p \in Child :
         Has(mine[p] \o queue[p], << "resume" >>) => claims[Thread(p)] = p

\* A parent that writes a receipt, or refuses, leaves no process behind that
\* could still write to the ledger or the store.
NobodyLeft ==
  outcome \in {"receipt", "refused"} => \A p \in Child : ~Running(p)

\* Every parent ends: its deadlines see to that where a child never comes to what
\* it waits for; where 147 and 168 have none, the child's own progress does.
RigEnds == <>(outcome # "running")

\* 158: "barrier-synchronized, no timing window".
NoTimingWindow == cell.name = "158" => ~torn

\* 168: the receipt says how many racers failed, by their exit codes, and from
\* it reproduce.sh concludes that there were "no racer errors".
RacerErrorsCounted ==
  cell.name = "168" /\ outcome = "receipt" =>
    Cardinality({p \in Child : result[p] = "error"})
      = Cardinality({p \in Child \ {1} : st[p] = "failed"})
=============================================================================
