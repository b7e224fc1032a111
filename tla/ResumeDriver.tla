---------------------------- MODULE ResumeDriver ----------------------------
(***************************************************************************)
(* A host that drives one run through remit-core, as the exhaustive        *)
(* conformance test drives it: begin_effect, the tool, commit_checkpoint,  *)
(* task after task; an interrupt before InterruptTask; ordinary and fork   *)
(* resumes; a crash after which the host recovers and replays.             *)
(*                                                                         *)
(* The test takes each of these as one transition of one host.  Here the   *)
(* calls of a transition are separate steps, because RemitCore locks the   *)
(* plane per call: another host (an OS thread on the same Core) or a crash *)
(* of this one can come between any two calls, and between the admission   *)
(* of an effect and the tool.  The plane itself is Plane.                  *)
(***************************************************************************)
EXTENDS Plane

CONSTANTS
  Host,           \* OS threads that drive the run through one Core
  Interrupt,      \* the checkpoint that parks the run
  InterruptTask,  \* the task the interrupt gates
  Nothing,        \* no effect is being performed
  MaxCrash,       \* bound: crashes, over all hosts
  MaxInvalid      \* bound: schema-invalid states submitted

ASSUME DriverAssumption ==
  /\ Interrupt \in Checkpoint
  /\ InterruptTask \in 2 .. MaxTask
  /\ Nothing \notin BranchKey \X Task
  /\ MaxCrash \in Nat /\ MaxInvalid \in Nat

VARIABLES
  pc,          \* [Host -> last task it knows durable]
  todo,        \* [Host -> the calls its current transition still makes]
  performing,  \* [Host -> the (branch, task) it was admitted for, or Nothing]
  effects,     \* [(branch, task) -> times its tool ran]
  interrupted, \* the run is parked at Interrupt
  fork_vals,   \* answers given to forks
  fork_outs,   \* the outcome read back for each fork, in the same order
  crashes, invalids

hostVars == << pc, todo, performing, effects, interrupted, fork_vals,
               fork_outs, crashes, invalids >>
runVars == << vars, hostVars >>

\* The calls of a transition.
Effect(b, t) == [call |-> "begin_effect", branch |-> b, task |-> t]
Commit(t) == [call |-> "commit_checkpoint", branch |-> Root, task |-> t]
Outcome(b, v) == [call |-> "outcome", branch |-> b, value |-> v]
Invalid(t) == [call |-> "commit_invalid", task |-> t]
CompleteCall == [call |-> "complete"]

PlaneCall ==
  [call : {"begin_effect", "commit_checkpoint"}, branch : BranchKey, task : Task]
    \cup [call : {"outcome"}, branch : BranchKey, value : Value]
    \cup [call : {"commit_invalid"}, task : 1 .. MaxTask + 1]
    \cup {CompleteCall}

RunInit ==
  /\ Init
  /\ pc = [h \in Host |-> 0]
  /\ todo = [h \in Host |-> << >>]
  /\ performing = [h \in Host |-> Nothing]
  /\ effects = [e \in BranchKey \X Task |-> 0]
  /\ interrupted = FALSE
  /\ fork_vals = << >>
  /\ fork_outs = << >>
  /\ crashes = 0
  /\ invalids = 0

Idle(h) == todo[h] = << >> /\ performing[h] = Nothing

Answered == interrupts[Interrupt].recorded # << >>

-----------------------------------------------------------------------------
(* The transitions.                                                        *)

\* Mutant: the interrupt does not hold the gated task back.
StartTaskUngated(h) ==
  /\ Idle(h) /\ pc[h] < MaxTask
  /\ todo' = [todo EXCEPT ![h] =
                << Effect(Root, pc[h] + 1), Commit(pc[h] + 1) >>]
  /\ UNCHANGED << vars, pc, performing, effects, interrupted, fork_vals,
                  fork_outs, crashes, invalids >>

\* The next task; the gated one waits for an answer.
StartTask(h) ==
  /\ Idle(h) /\ pc[h] < MaxTask
  /\ pc[h] + 1 = InterruptTask => Answered
  /\ todo' = [todo EXCEPT ![h] =
                << Effect(Root, pc[h] + 1), Commit(pc[h] + 1) >>]
  /\ UNCHANGED << vars, pc, performing, effects, interrupted, fork_vals,
                  fork_outs, crashes, invalids >>

Park(h) ==
  /\ Idle(h) /\ pc[h] = InterruptTask - 1 /\ ~interrupted
  /\ interrupted' = TRUE
  /\ UNCHANGED << vars, pc, todo, performing, effects, fork_vals,
                  fork_outs, crashes, invalids >>

\* An ordinary answer: the first is served, a stray one is inert.
OrdinaryResume(h, v) ==
  /\ Idle(h) /\ interrupted
  /\ ResolveResume(Interrupt, v, "Ordinary")
  /\ UNCHANGED hostVars

\* A fork after the interrupt was answered: read its outcome back, and try the
\* gated effect on its branch twice.
ForkResume(h, v) ==
  /\ Idle(h) /\ Answered
  /\ LET branch == ResumeDecision(Interrupt, v, "ExplicitCheckpoint")[2]
     IN  todo' = [todo EXCEPT ![h] =
                    << Outcome(branch, v), Effect(branch, InterruptTask),
                       Effect(branch, InterruptTask) >>]
  /\ ResolveResume(Interrupt, v, "ExplicitCheckpoint")
  /\ UNCHANGED << pc, performing, effects, interrupted, fork_vals, fork_outs,
                  crashes, invalids >>

\* Read the frontier, and submit an invalid state for the task after it.
SubmitInvalid(h) ==
  /\ Idle(h) /\ invalids < MaxInvalid
  /\ invalids' = invalids + 1
  /\ todo' = [todo EXCEPT ![h] = << Invalid(frontier[Root] + 1) >>]
  /\ UNCHANGED << vars, pc, performing, effects, interrupted, fork_vals,
                  fork_outs, crashes >>

\* Mutant: recovery resumes at the last durable task instead of after it.
CrashAtFrontier(h) ==
  /\ crashes < MaxCrash
  /\ crashes' = crashes + 1
  /\ pc' = [pc EXCEPT ![h] = IF Recover(ckpts) > 1 THEN Recover(ckpts) - 2 ELSE 0]
  /\ todo' = [todo EXCEPT ![h] =
                [t \in 1 .. Recover(ckpts) - 1 |-> Effect(Root, t)]]
  /\ performing' = [performing EXCEPT ![h] = Nothing]
  /\ UNCHANGED << vars, effects, interrupted, fork_vals, fork_outs, invalids >>

\* The host loses what it was doing, recovers from the log of the surviving
\* Core, and replays the effects of the durable prefix.
Crash(h) ==
  /\ crashes < MaxCrash
  /\ crashes' = crashes + 1
  /\ pc' = [pc EXCEPT ![h] = Recover(ckpts) - 1]
  /\ todo' = [todo EXCEPT ![h] =
                [t \in 1 .. Recover(ckpts) - 1 |-> Effect(Root, t)]]
  /\ performing' = [performing EXCEPT ![h] = Nothing]
  /\ UNCHANGED << vars, effects, interrupted, fork_vals, fork_outs, invalids >>

-----------------------------------------------------------------------------
(* The calls, each under the lock of the plane.                            *)

\* The next call of h has that name; the tool of an earlier one has run.
Calls(h, name) ==
  /\ performing[h] = Nothing
  /\ todo[h] # << >>
  /\ Head(todo[h]).call = name

\* Mutant: an admission on a fork is not acted upon.
CallBeginEffectRootOnly(h) ==
  /\ Calls(h, "begin_effect")
  /\ LET e == << Head(todo[h]).branch, Head(todo[h]).task >>
     IN  /\ BeginEffect(e[1], e[2])
         /\ performing' = [performing EXCEPT ![h] =
              IF BeginVerdict(e[1], e[2]) = "Ok" /\ e[1] = Root THEN e ELSE Nothing]
  /\ todo' = [todo EXCEPT ![h] = Tail(@)]
  /\ UNCHANGED << pc, effects, interrupted, fork_vals, fork_outs, crashes, invalids >>

CallBeginEffect(h) ==
  /\ Calls(h, "begin_effect")
  /\ LET e == << Head(todo[h]).branch, Head(todo[h]).task >>
     IN  /\ BeginEffect(e[1], e[2])
         /\ performing' = [performing EXCEPT ![h] =
              IF BeginVerdict(e[1], e[2]) = "Ok" THEN e ELSE Nothing]
  /\ todo' = [todo EXCEPT ![h] = Tail(@)]
  /\ UNCHANGED << pc, effects, interrupted, fork_vals, fork_outs, crashes, invalids >>

\* The tool runs, outside every lock.
Perform(h) ==
  /\ performing[h] # Nothing
  /\ effects' = [effects EXCEPT ![performing[h]] = @ + 1]
  /\ performing' = [performing EXCEPT ![h] = Nothing]
  /\ UNCHANGED << vars, pc, todo, interrupted, fork_vals, fork_outs,
                  crashes, invalids >>

CallCommitCheckpoint(h) ==
  /\ Calls(h, "commit_checkpoint")
  /\ LET t == Head(todo[h]).task
         ok == CommitVerdict(Root, t, TRUE) = "Ok"
     IN  /\ CommitCheckpoint(Root, t, TRUE)
         /\ pc' = [pc EXCEPT ![h] = IF ok THEN t ELSE @]
         /\ todo' = [todo EXCEPT ![h] =
              IF ok /\ t = MaxTask THEN << CompleteCall >> ELSE << >>]
  /\ UNCHANGED << performing, effects, interrupted, fork_vals, fork_outs,
                  crashes, invalids >>

CallCommitInvalid(h) ==
  /\ Calls(h, "commit_invalid")
  /\ CommitCheckpoint(Root, Head(todo[h]).task, FALSE)
  /\ todo' = [todo EXCEPT ![h] = Tail(@)]
  /\ UNCHANGED << pc, performing, effects, interrupted, fork_vals, fork_outs,
                  crashes, invalids >>

CallComplete(h) ==
  /\ Calls(h, "complete")
  /\ Complete
  /\ todo' = [todo EXCEPT ![h] = Tail(@)]
  /\ UNCHANGED << pc, performing, effects, interrupted, fork_vals, fork_outs,
                  crashes, invalids >>

CallOutcome(h) ==
  /\ Calls(h, "outcome")
  /\ fork_vals' = Append(fork_vals, Head(todo[h]).value)
  /\ fork_outs' = Append(fork_outs, branch_value[Head(todo[h]).branch])
  /\ todo' = [todo EXCEPT ![h] = Tail(@)]
  /\ UNCHANGED << vars, pc, performing, effects, interrupted, crashes, invalids >>

Work(h) ==
  \/ StartTask(h) \/ Park(h)
  \/ CallBeginEffect(h) \/ Perform(h) \/ CallCommitCheckpoint(h) \/ CallComplete(h)
  \/ CallOutcome(h) \/ CallCommitInvalid(h)

RunNext ==
  \E h \in Host :
    \/ Work(h)
    \/ \E v \in Value : OrdinaryResume(h, v) \/ ForkResume(h, v)
    \/ SubmitInvalid(h)
    \/ Crash(h)

RunSpec == RunInit /\ [][RunNext]_runVars

\* A host that has something to do does it, and somebody answers an interrupt.
FairRunSpec ==
  /\ RunSpec
  /\ \A h \in Host : WF_runVars(Work(h))
  /\ WF_runVars(\E h \in Host, v \in Value : ~Answered /\ OrdinaryResume(h, v))

RunTypeOK ==
  /\ TypeOK
  /\ pc \in [Host -> 0 .. MaxTask]
  /\ todo \in [Host -> Seq(PlaneCall)]
  /\ performing \in [Host -> (BranchKey \X Task) \cup {Nothing}]
  /\ effects \in [BranchKey \X Task -> Nat]
  /\ interrupted \in BOOLEAN
  /\ fork_vals \in Seq(Value)
  /\ fork_outs \in Seq(Value \cup {NoValue})
  /\ crashes \in 0 .. MaxCrash
  /\ invalids \in 0 .. MaxInvalid
-----------------------------------------------------------------------------
(* Properties.                                                             *)

\* EO: no tool runs twice for a task of a branch, whatever hosts race for it
\* and wherever one of them crashes and replays (begin_effect's admission).
PerformedOnce ==
  \A e \in BranchKey \X Task : effects[e] <= 1

\* CO: the gated tool runs on a branch only for an answer: on the root after
\* the interrupt was answered, on a fork under the answer that created it.
GatedByAnswer ==
  \A b \in BranchKey :
    effects[<< b, InterruptTask >>] > 0 =>
      IF b = Root THEN Answered ELSE branch_value[b] # NoValue

\* The ledger gives up an effect only in a crash: without one, whatever was
\* admitted has been performed or is being performed by the host that got the
\* admission, and a host refused as a duplicate may go on to commit.
OnlyCrashLoses ==
  \A e \in fired :
    effects[e] = 0 => crashes > 0 \/ \E h \in Host : performing[h] = e

\* FD: a fork reads back its own value, although the resume that made its
\* branch and the read of its outcome are two calls and other forks and
\* answers come in between (resolve_resume, outcome).
ForkServedOwn == fork_outs = fork_vals

\* EO, "exactly once": the effect of a task on the durable prefix has happened.
DurableMeansPerformed ==
  \A t \in 1 .. frontier[Root] : effects[<< Root, t >>] = 1

\* PC: a run becomes durable to its end however its hosts crash and race:
\* recovery puts a host where commit_checkpoint accepts it, never behind or
\* ahead.  (The completed flag is another matter: a crash between the last
\* commit_checkpoint and complete loses it.)
RunBecomesDurable == <>(frontier[Root] = MaxTask)

\* The host reaches the plane through its operations only, so what holds of
\* every plane holds in every run of these hosts.
UsesPlane == Spec
=============================================================================
