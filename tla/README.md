# Resume contract: a verification development

This directory models the resume contract of the repository: `remit-core` (the
sequencer a Python host calls through `remit-py`), `crates/remit` (the verified
reference it claims to follow), and the LangGraph shim that extends the
contract over several processes; and what surrounds them, the savers of the
harness, the conformance runner, and the probes that kill, park and race
processes to measure frameworks. The models are translated from the source; line
references are in `PROJECT.json` under `map`.

## 1. Inventory

| component | state it keeps | operations | correct when |
|---|---|---|---|
| **remit-core** `remit-contract/crates/remit-core/src/lib.rs` | per thread id a `Plane`: ledger, fired set, checkpoint log, frontier per branch, interrupts with recorded answers, branch values, journal, pending writes, completed flag, one sequence counter | `begin_effect`, `commit_checkpoint`, `validity_gate`, `declare_writes`, `sequence_op`, `resolve_resume`, `fork`, `complete`; `recover`, `outcome` and the snapshot read only | an effect is admitted once per branch and task (EO); the durable log is a gapless prefix per branch (PC); a fork gets a branch of its own and keeps its outcome (FD); an answered interrupt is never ordinarily answered again (CO); every sequenced operation has its own number and writes precede their checkpoint (RD) |
| **crates/remit** `crates/remit/src/lib.rs` | ledger, fired set, log, frontier, branch values | `begin_effect`, `commit_checkpoint`, `fork`, `recover` | it is what `remit-core` implements; its scanning loop computes the resume point |
| **hosts** `…/tests/exhaustive_conformance.rs` | last durable task known, effects performed, whether the run is parked | task, interrupt, ordinary and fork resume, invalid state, crash and replay, each a few calls of the core | no tool runs twice or without its answer; a run becomes durable to its end |
| **LangGraph shim: gate** `…/python/remit/langgraph_shim.py` | per saver: latch of held claims, last claim, lock, connection; shared: the `remit_claims` table | gated `get_tuple`, `_remit_take_claim`, secondary latch in `put_writes` | over all processes one parked interrupt is served to one holder, and only the holder journals the resume |
| **LangGraph shim: saver** same file | the wrapped store, the core | `put`, `put_writes`, fork view of `get_tuple` | what is stored was admitted and sequenced; a fork does not see the answers of its siblings |
| **remit-py** `…/remit-py/src/lib.rs` | none of its own (one `RemitCore`) | conversion of arguments, errors and kinds; `recover_from_log` | it admits the kinds `put_writes` and `put` only |
| **harness savers** `harness/remit_shim.py` | ordinals per checkpoint, in memory | `ForkKeyedSaver`, `ValidatingSaver` | what is stored is valid; the newest answer of a checkpoint is the one that is served |
| **conformance runner** `harness/conformance/runner.py` | baselines and manifest on disk | run, compare, `--update` | a clean audit means that every probe that ran agreed with a baseline; baselines of an update come from one run, or stay as they were |
| **local probes** `probes/113` to `168` | per cell a parent, its children, flag files, the ledger of effects, the store of an engine | spawn, park, kill, release, race, resume, count, write a receipt | a receipt says what happened on every schedule; the parent ends and leaves nobody behind |
| **cross-host race** `probes/174` | four tables on a database, the parked threads, the claims | `init`, `serve`, `race`, `reset` | in a gated round one host fires; the count is final; a fresh serve ends |
| **other probes** | none that outlives a call | one call after the other of a framework | measurements |
| Verus proofs, earlier TLA+ models, receipts, environments, shell drivers | | | not program code |

How they interact. The Python host calls `remit-py`, which calls `RemitCore`.
`RemitCore::with_plane` takes one mutex per call, so one call of the core is
atomic and a host's transition, which makes several, is not. The shim runs in
every process with its own core and its own connection; the processes share only
the database. `remit-core` repeats the operations of `crates/remit` with gates
and a journal added, and both compute `recover`, each in its own way.

The harness savers, the runner and the probes are programs of their own. A probe
is a parent that starts children (another mode of the same script), waits for
flag files, kills or releases them, and reads a ledger in SQLite; its children
run an engine (LangGraph, CrewAI, LlamaIndex, pydantic-graph, DBOS) over a
durable store. The runner starts probes and compares what they print. Probe 174 runs on
several machines that share only a database.

What is hard here: hosts that interleave between calls; a crash between
the admission of an effect and the tool; recovery in the presence of forks;
ordinary and fork answers in any mix; the order between declared writes and
checkpoints; the gap between reading a parked interrupt, inserting a row,
committing it, and setting the in-memory latch; errors of the database in each
of these gaps; a restart that forgets the latch but not the row; a flag file that
exists before it is written; a run that goes on while its saver sleeps; a kill between any two
durable operations; a racer that is late, or died, or reports to a table that was
dropped and created again. The full list, with lines, is under `hazards` in `PROJECT.json`.

## 2. Modules

| module | models | extends / refines |
|---|---|---|
| `Remit` | the reference sequencer, as an abstract specification | |
| `Plane` | one plane of `remit-core`, one action per operation | implements `Remit` |
| `ResumeDriver` | hosts that drive a run through one plane, call by call, with crashes | EXTENDS `Plane` |
| `RecoverLoop` | `recover_core` of `crates/remit` step by step, against `recover` of `remit-core`, with machine words | |
| `ConsumeOnce` | the promise of the gate: one owner per key, for good | |
| `ConsumeGate` | the shim's gate over SQLite or Postgres, step by step | implements `ConsumeOnce` |
| `SaverViews` | the savers between engine and store: the shim's `put`, `put_writes` and fork view, `ForkKeyedSaver`, `ValidatingSaver`, the address filter of probes 134 to 155 | the shim's core implements `Plane` |
| `Runner` | the conformance runner over a plan of probes | |
| `ProbeCells` | the cells of the kill, park and race probes as data: what a child runs, what its parent does, and the verdict of the receipt | |
| `SessionCells` | the same for the probes of forks, stray answers, crash resumes and orders of recovery | EXTENDS `ProbeCells` |
| `ProbeRig` | the parent, the children, the engines and what they share: every cell above is an initial state of it | EXTENDS `SessionCells` |
| `CrossHost` | the coordinator and the racers of probe 174 | |
| `PlaneProofs`, `ResumeDriverProofs`, `RecoverLoopProofs`, `ConsumeGateProofs`, `CrossHostProofs`, `SaverViewsProofs`, `RunnerProofs`, `ProbeRigProofs` | theorems | EXTEND the module they are about |
| `MC*` | small instances for TLC | EXTEND the module they instantiate |

**Plane.** A variable per field of `struct Plane` that a decision reads. What an
operation answers is an operator of the state (`BeginVerdict`, `CommitVerdict`,
`ResumeDecision`, `ReplayDecision`); the action of the operation has a disjunct
for each answer. Effect ids, reasons and state bytes are left out: no decision
reads them. A map entry the code would create with `Default` is the default
value. `recovery_plan` is `PlanSkips`; `Recover` takes the maximum, as the code
does. `fork_view` and `snapshot_json` change nothing and are left out.

**Remit.** `outcome` and `resume_completed` read only. A refused call changes
nothing, so it stutters.

**ResumeDriver.** A host's transition puts the calls it makes into `todo`, and
each call is a step; the submission of an invalid state reads the frontier and commits
in two calls, with other hosts in between. `Perform` is the tool, outside every lock. `Crash` loses
the host's locals, reads the log of the surviving core, and replays the effects
of the durable prefix, as the test does; its `recovery_replay` of the interrupt
changes no state and is left out. The core survives the crash, as it does in
the repository's tests: a core that is lost with its process is a different
system (the core has no way to be restored) and is listed as a hazard.

**RecoverLoop.** The argument is any log, since `recover_from_log` hands over
whatever the caller has. `Width` stands for 2^32. `f + 1` on the largest task
number panics in a build with overflow checks and wraps in one without, and the
model allows both.

**ConsumeGate.** A worker is an OS thread; several may share a saver. Steps:
the read and its decision, the look at the latch, taking the lock, the INSERT,
the commit, setting the latch, serving, the resume's `put_writes`, the write
into the store, the next checkpoint. The store and the database are external:
a unique key, one writer at a time on SQLite, a transaction the INSERT opens and
which stays open when `commit()` fails, autocommit on Postgres. `served` and
`journaled` are history variables. The `CREATE TABLE` is taken as done (its race
is absorbed by SQLSTATE before any INSERT).

**SaverViews.** One thread that asks for one answer after the other, and callers that resume
it at its newest checkpoint or at one they name. A resume is the steps the engine
makes through the saver: load, `put_writes` of the caller's value, `put_writes` of the
answer, `put` of the next checkpoint, and in the shim each of these is a
`sequence_op` and a write of the store, with other callers in between. The store may
fail and the process restart; a restart loses the core's journal and its numbers and keeps the
store. A resume sets the fork flag or not and names
a checkpoint or not; it is meant as a fork when it sets the flag, or names a checkpoint under
`fork_on_explicit_checkpoint`. The gate is off here. `Sequence` and `Accept` are what the core does: `sequence_op`
takes a number and writes an entry, `validity_gate` of a valid state takes a number and writes none.
`Core` is `Plane` seen from here: the shim resolves no resume and admits no effect, and
names checkpoints and engine tasks where `Plane` has task numbers, so ledger, branches and pending
writes stay as they began and every `ref` is `NoTask`.

**Runner.** One entry of the plan is a few steps: skip, run, write the raw
result, write or compare the stable part. A kill may come between any two
writes, or in one: then the raw file, the stable file or the manifest is torn. A baseline is named by its directory and its id
(`Base`), as its two files are. `is_stable_key` is a set of keys (`StableKey`), a result a record.

**ProbeCells, SessionCells, ProbeRig.** A probe is the same machine with
another script: a cell is a record with the script of its parent
(`Spawn`, `Await`, `Peek`, `Count`, `Kill`, `Start`, `Reap`, ...) and one life per child (what
its process does: `Invoke`, `Effect`, `Ready`, `Sleep`, `Park`, `Die`, ...), and `ProbeRig`
executes it. `Experiments` is the set of cells that may be run: the runs give it
the cells of the probes, and the theorems hold for any that are put together as
`ExperimentAssumption` says. A task that has its answer goes on by `Continue`, the return of
`interrupt()`. The engines are external: from how the probes use them, an invoke of LangGraph's functional
API hands its operations to a thread and joins it at the end, the graph API makes each
durable before it goes on, CrewAI saves an id before its node, DBOS resumes from its log. The
verdicts (`reexecuted133`, `any_duplicate160`, `as_expected163`, ...) are the
receipts' formulas over the ledgers the parent has read. 137 and 160 make a row
of a child that ended before it was expected, the others raise.

**CrossHost.** `serve` and `race` statement by statement; what a lost connection
leaves undone, or done with its answer lost, is `ArmFails`, `InvokeFails` and
`ReportLost`. Rounds go on counting from the clock, so a reset never
reuses one. Fresh tables are what `FreshServeEnds` needs: no timeout, no reset.

## 3. Runs

| run | instance | what it shows |
|---|---|---|
| `plane` | 1 interrupt, 2 tasks, 2 answers, `MaxResumes` 2, `MaxSeq` 3 | EO, PC, FD, CO, RD, and that every history of the plane is one of the reference |
| `driver_race` | 2 hosts, 2 tasks, 3 answers, 1 crash, 1 invalid state | two hosts race for every task, answer and fork: no tool runs twice or without its answer, only a crash loses an effect, the run becomes durable |
| `driver_lost` | 1 host, 2 tasks, 1 crash | **violation**: a durable task whose effect never happened |
| `gate` | SQLite, Postgres, or Postgres with no checkpoint named; 2 processes, 3 workers, two interrupts in turn, a crash each, 1 failing commit or lost answer | one owner per interrupt; the latch is backed by a row; only the owner of a named checkpoint journals; implements `ConsumeOnce` |
| `gate_live` | the same three, no crash, no fault, two interrupts | every parked interrupt is served and journaled |
| `gate_crash` | 2 workers, a crash each | **violation** of the same property |
| `gate_latch` | the default `remit_fork_on_explicit_checkpoint` | **violation**: a resume journaled without a claim |
| `gate_refusal` | 2 workers of one saver | **violation**: a refusal although the instance holds the claim |
| `harness` | part 1: every log of at most 3 records, 2 branches, 2-bit tasks; part 2: each of 5 savers, 2 callers, 3 resumes, 2 answers, 1 failing store, 1 restart; part 3: 3 plans, 3 runs, kills anywhere | both `recover` functions agree; a resume is served by its intent and the journal accounts for the store; a clean audit and an update mean what they say |
| `probes` | half 1: every cell, 1 child that fails at start, 1 locked database; half 2: 2 hosts, 2 serves of a stock and a gated round, 1 fault | the verdicts of the receipts on every schedule; every parent ends, with nobody left; in a gated round one host fires and the count is final; a fresh serve ends |
| `rig_flag` | cell 158 among all | **violation**: the parent parses a flag that is not written yet |
| `rig_errors` | cell 168 among all, 1 locked database | **violation**: a racer failed and the receipt counts none |

`gate`, `harness` and `probes` each hold systems that share nothing (the stores, the
three parts, the two halves): a variable fixed in the initial state says which of
them a behaviour is of, and the others stay where they start, so the states add
up and do not multiply.

Every property of a passing run has a mutant of the code it is about (a dropped
guard, a forgotten reset, a changed order) that the run catches; the mutants
stand next to what they change and are marked `Mutant:`.

### Bounds, and why they are enough

* `plane`: two answers are the least with which an ordinary resume and a fork,
  or two forks, compete for an ordinal; two tasks are the least with which one
  can be skipped or reordered; three numbers let an effect, its checkpoint and
  a rejection or a declared write come in every order. Answers are symmetric:
  nothing compares them except for equality. Only safety is checked under the
  symmetry. The theorems have no such bounds.
* `driver_race`: two tasks, the second gated; a root and two forks, each with an
  effect, and seven numbers for four effects, two checkpoints and a rejection, so the counter
  never stops a run before its end.
  The invalid state adds a rejection in any gap. What a third task and a second crash could
  add is in the theorems, which bound neither.
* gate runs: two workers of one process and one of another give both kinds of
  race (over the latch, over the row); one crash of each process and one
  database error can fall into any gap; a second interrupt gives a stale
  `last_claim` somewhere to point to.
  In one behaviour of `gate` either a process restarts or the thread advances
  (`CrashOrAdvance`), and where no checkpoint is named it is the thread; the theorems have both.
* `harness`: three records on two branches with tasks 0 to 3: repeated,
  decreasing and largest task numbers all occur. Three resumes are the least with
  which a fork, an ordinary resume and a late one meet at one
  checkpoint, and two answers (one that the validator rejects) tell them apart. They take twelve
  numbers of the core at most (two writes, a verdict and a put each). Callers are
  symmetric, and only safety is checked. Three runs of the
  runner are an update, a killed or failing one, and an audit.
* `probes`: the cells are the probes' own (two or three racers; every kill point
  of 160). Two hosts and two serves let a racer be a round, or a
  serve, behind.

`MaxTask`, `MaxResumes`, `MaxSeq`, `MaxCrash`, `MaxInvalid`, `MaxCkpt`,
`MaxFault`, `MaxLog`, `MaxCalls`, `MaxFail`, `MaxDeath`, `MaxRuns`, `MaxBroken`, `MaxBusy`,
`MaxServes`, `MaxFaults` and `CrashOrAdvance` are the only bounds, and each is a guard or a range a
module names. Deadlock is checked in `plane` and the gate runs; in the others a
finished run, function or script has nothing more to do.

### Fairness

* `FairRunSpec`: weak fairness of `Work(h)` for each host (an OS thread that has
  a call to make makes it) and of an answer to the parked interrupt. Without
  an answer the run stays parked for good, as it should. Nothing is assumed
  about forks, invalid states or crashes; crashes are bounded.
* `ConsumeGate!Fairness`: weak fairness per worker of its call in progress, and of a
  client who is not served resuming again. No fairness for the lock: a
  thread that waits may be overtaken. No fairness for forks, inspections, read-less
  resumes, faults or crashes.
* `MCGate!FairMCSpec` is the same on the store the behaviour has.
* `MCProbes!FairMCSpec`: weak fairness of the parent (its loops poll until a
  deadline of their own, so it has a step), of the children together
  (processes that can run do; none of them waits for one that cannot), and of
  the serve loop and each race loop of 174, which poll. Nothing is owed to
  the operator who starts and resets, and no fault has to happen. In two places the parent
  has no deadline and it is the child's fairness that ends the wait: 168 waits for its
  park child without a timeout, and 147's `readline()` outlasts the 60 seconds for as long
  as a worker that lives prints nothing. There the parent is owed no step (`ReadBlocks`); that its
  deadline passes remains possible, since the worker prints other lines too.

## 4. Findings

Each is a sentence of the repository that the code does not keep; the rows in
`PROJECT.json` quote it.

1. **Exactly once** (`driver_lost`). `begin_effect` marks the task as fired
   before its tool runs. A host that crashes in between is told "duplicate" when
   it replays and commits the task without its effect. What the code keeps is at most once
   (`PerformedOnce`), with loss only by a crash (`OnlyCrashLoses`).
2. **Exactly one is served** (`gate_crash`). The claim is committed before the
   run is served and nothing releases it. When the winner dies, everybody is
   refused, the restarted winner too.
3. **A late stop for read-less paths** (`gate_latch`). With the default flags a
   `put_writes` whose config names its checkpoint counts as a fork and passes
   the secondary latch without a claim. With
   `remit_fork_on_explicit_checkpoint` off the latch does what is said
 (`NamedJournaledByHolder` in `gate`, and the theorem `JournaledByHolderHolds`)
4. **Whether this instance holds the claim** (`gate_refusal`). The latch is read
   before the lock is taken and set after it is released, so a second thread of
   the winner can be refused.
5. **No timing window** (`rig_flag`). 158 waits until its flag file exists and
   then parses it, but `Path.write_text` creates the file before it fills it. The
   parent raises and leaves the parked victim alive.
6. **No racer errors** (`rig_errors`). `reproduce.sh` concludes this from the
   exit codes of 168's racers, and a racer whose invoke raised exits with 0.

## 5. Proofs

Each theorem is for every value of the constants that satisfies the module's assumption
(`PlaneAssumption`, `DriverAssumption`, `LoopAssumption`, `GateAssumption`,
`CrossHostAssumption`, `SaverAssumption`, `RunnerAssumption`, `RigAssumption`,
`ExperimentAssumption`), so for any number of hosts, processes, tasks, answers,
rounds, resets, crashes and faults.

* **PlaneProofs**: the type invariant and every property of run `plane`,
  `ImplementsReference` included. `DurablePrefix` is its own
  strengthening, since the frontier of a branch is the largest task of
  its records. `EffectOnce` needs that `fired` is the set of the ledger's pairs. `RecoveryPlanExact` follows from
  `DurablePrefix`: on a gapless prefix, "below the maximum" and "in the log"
  are the same. `JournalTotalOrder` needs that every number handed out is below `next_seq`. `ConsumeOnce`, `OutcomeStable` and
  `ReplayStable` come from `ResumeInv`: an interrupt is spent exactly when it has an
  answer (`SpentIffAnswered`), and the ordinals below the number of answers are exactly those
  that exist (`BranchPerAnswer`). A type invariant alone
  would let `fork` overwrite a branch.
* **ResumeDriverProofs**: `RunUsesPlane` shows that a run makes only steps of
  the plane, so everything proved of `Plane` holds in it. `PerformInv` ties each
  admission a host still holds to an effect that has not happened, and to no
  other host: from it `PerformedOnce` follows. `GrantedInv` says of each call
  still to be made that it was allowed when it was scheduled and still is
  (`GatedByAnswer`); `OutcomeInv` that a fork's branch still has the value it was
  made with when its outcome is read (`ForkServedOwn`).
* **RecoverLoopProofs**: `LoopInv`, that `f` is the largest of the tasks scanned
  and `tasks` the root tasks of the records passed; from it `RecoverersAgree`
  and `PastDurableWork`, for every `Width`.
* **ConsumeGateProofs**: `GateInv` ties the state of a worker to the lock, the
  open transaction and the rows: a key in a transaction has no committed row, and only one
  connection has a transaction (`TxnInv`); a worker past the commit owns
  the row (`CallInv`); the latch is backed by rows (`LatchBackedByRow`). From it
  `AtMostOneServed` and `ImplementsConsumeOnce`. `JournaledByHolder` needs
  `WriteInv` in addition and assumes what the property needs:
  `NamesCkpt /\ ~ForkOnExplicit`.

* **CrossHostProofs**: `Basics` says that nothing refers to a round that was not
  announced, and that existing tables have the row of the round that is served. `GateInv`: whoever
  fired or is about to in a gated round holds its only claim
  (`GatedFiresOnce`); the property alone is not inductive, since a
  racer fires long after it claimed. `ResultInv` and `CountedIsOver`: a host whose
  result is in does not race that round again, though a reset may have
  dropped its ready row, because the round's row is gone with it (`CountIsFinal`). `Blocked`: while no
  racer fails, whoever is ready in an open round waits there and nobody is
  beyond it, so no later round can be released (`AbandonedBlocks`).
  `CrossTypeOK` (`CrossTypeCorrect`) rests on `Budget`: what a serve has still to announce fits
  under its schedule's share of the round numbers, so no round is announced beyond them. It
  is proved and not among the invariants of a run.
* **SaverViewsProofs**: the three properties of `SaverViews`, for any number of callers,
  answers, resumes, failures and restarts. `JournalAccounts` is not
  inductive: a put is validated two steps before it is stored, so
  `Validated` must carry the verdict over what other callers do meanwhile, and that needs
  that nobody stores under an identifier another resume holds or has stored (`Fresh`), which
  in turn rests on counting the resumes that have yet to mint one (`Counted`, with
  cardinalities). `Ledger` is the account itself, with what is sequenced and not stored yet.
  `ServedByIntent` needs `SeenByIntent`, what a resume saw when it loaded, and that an
  intent and the checkpoint it names agree under either setting of the flag (`Named`).
  `SaverUsesPlane` is a refinement between restarts: each `Sequence` maps to the
  `SequenceOp` or the rejecting `ValidityGate` of `Plane`, each `Accept` to the accepting one, every
  other step to a stutter, and a restart to a new plane (`PlaneJournalAppend`, `SequenceIsPlane`, `AcceptIsPlane`,
  `CoreInit`). `CoreAssumption` shows that the instance meets `PlaneAssumption`, so the
  theorems of `PlaneProofs` hold of the core between restarts.
* **RunnerProofs**: both properties of `Runner`, for any plans (a plan may name a
  baseline twice), any output of the probes, and any number of runs cut short
  anywhere. `RunnerAssumption` asks that plans are sequences and that a torn file and the
  view of an object can be told from a file that is not there. `AuditInv` (`Between`, `Audited`, `Clean`)
  follows an audit from probe to probe: between its two files a
  probe's raw file is its result, and an audit is there only because there was no
  baseline, so the baselines it found are untouched. `CleanAuditAgreed`
  says nothing of a run that is under way and is not inductive without it.
  `FilesInv` relates the dates of the files: what a run has noted as run has a baseline, of this
  run if it is an update (`Noticed`); what an update wrote it has noted or listed
  (`Updated`); a listed baseline exists, so an audit does not write it again (`Kept`). The last is
  what keeps `BaselinesTogether` when audits that fill in missing baselines come between updates.
  What a cut run leaves behind is newer than every manifest (`Dated`), and each manifest lists
  only baselines of its own run (`Manifested`), so no manifest ever comes to list a leftover.
* **ProbeRigProofs**: every safety property of `ProbeRig`, the verdicts for the races only, for
  any experiments that satisfy `ExperimentAssumption`, any number of children and any bounds. TLC
  checks the assumption of the probes' own cells on every run that has them. Its parts: a cell is
  made of sequences and its threads are those of its children (`Programs`); a script starts a
  child once, kills or waits for it later, and polls flags only while nobody else is left to close
  (`Tidy`); with the gate a child answers once, and a node asks before it takes the effect of an
  answer (`OneAnswer`); 160 runs from fresh input on the functional engine (`PlainRun`); the
  victims of 133, 137, 142 and 158* make one invoke and sleep when their flag is up (`Victim`); in
  159, 165 and 168 child 1 parks a thread that all the others answer, they start when it has been
  waited for, and the ledger is read when all have been (`Race`). The proofs start from frames
  (`ChildFrame`, `ParentFrame`): what a step of one child, or of the parent, leaves alone of every
  other child.
  - `RigTypeCorrect`. A child that does not run has nothing to do and nothing to write (`Idle`),
    which the other invariants use at every kill.
  - `NobodyLeftHolds`, by `Orderly`: whoever runs has its kill or its reap still in the
    script, before any await that could give up without it. The property itself speaks of the end of the
    parent only, where it is too late to know why.
  - `GateExclusiveHolds`, by `GateInv`. Every effect of an answer in what a child has still to do lies
    behind a claim or an interrupt (`Sealed`), a child claims in one place only (`OneTurn`), and the
    effects that happened are of the holder (`RowsClaimed`). A loser that is refused drops the rest of
    its invoke, so it has no turn left and nothing unsealed.
  - `FreezeExactHolds`, by `FreezeInv`: until the resume the store is what the saver
    executed, and the flag is up only after the k-th operation, with the engine's thread
    asleep in the hook. What the parent still has to do must not touch the store (`LeavesStore`).
  - `LedgerAtKillExactHolds`, by `KillInv`: a victim whose flag is up takes no effect any more (`Quiet`);
    in 137, where the saver parks and not the task, this needs that before an effect a run hands over
    one put only, and that before any write it could park behind (`PutFirst`); and the parent
    reads the ledger after it saw the flag, before child 2 starts (`CountsLate`).
  - `RaceVerdictHolds`, for any number of racers: in the receipt of a race in which nobody failed,
    was late or found the database locked, a parked interrupt fired exactly once with the gate,
    and without it at least once and at most once per racer. "At least" is the part
    `GateExclusive` does not have, and it needs to know what everybody has still to do. `RaceInv`
    says that child 1 is not over before its write and its interrupt are durable (`ParkChild`);
    that a racer is at a step of its own plan (`Racer`), which fires once and returns or is
    refused; that the claim is held by a racer that has fired or comes to it (`Winner`); that the
    second node's write is durable only after some racer fired, so that one which finds nothing to
    answer proves another did; that every row is of an answer, one for a child, of the holder
    where there is a gate (`Rows`); and that the one reading comes when all are over
    (`RaceScript`).

  The steps of an invoke are flattened from those of its nodes by a recursive fold of the
  community modules. What the proofs need of it (whose step each step is, and in which order) is
  shown by the least position where it fails (`Least`, `FlattenIn`), without
  induction over an operator. One attempt failed for a reason: two arms of the `CASE` in
  `snapshots` overlapped, and a `CASE` may take either; its arms are now disjoint.

Only model-checked: `RunBecomesDurable`, `ParkedIsServed`, `ParentEnds`, `FreshServeEnds`
(liveness under fairness is outside the prover's reach, as is `ENABLED`), `VerdictsHold` of the
cells other than the races, and the violations. There the receipt is compared with the numbers
a probe expects of one fixed scenario, so a proof would go through the steps of
each cell, which is what TLC does. No module declares a RECURSIVE operator: maxima
are stated with CHOOSE, sequences with quantifiers over their domains or the
folds of the community modules.

## 6. Not modelled

* `fork_view`, `snapshot_json`, `outcome` of the core: they read only. (`fork_view`'s rule is
  `get_tuple` in `SaverViews`.)
* The probes that call a framework in one process and record its answer (114,
  115, 119, 123, 125, 127, 129, 140, 150, 151): no state of the repository's own. Live models, the
  mutation harness, latencies (121, 122, 131, 135, 139, 141, 148, 152, 156, 157, 169 to 172):
  measurements. Of 113, 118, 126, 128, 130, 136 and 147 the cells that only inspect
  an API or print versions.
* Repetitions: a cell is run several times by its probe over fresh directories;
  the model has one, since repetitions share nothing but the summary.
* The receipts of earlier runs that 164 merges (one writer, one file), host names, version pins,
  wording.
* `CREATE TABLE` of the claims as a race (absorbed by SQLSTATE before any INSERT), a
  validator that panics while the lock is held (the Python binding's cannot), the
  2^32-th answer of one interrupt.
* Verus proofs and the repository's own TLA+ models (other verification
  artefacts), recorded results, lock files, shell drivers, the engines
  the probes measure (third-party), the conversion of values between Python and Rust.

What could come next: `ConsumeGate` and `SaverViews` as one saver, so that a claim and the
fork filter are decided in the same read.
