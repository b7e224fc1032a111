------------------------------- MODULE Remit -------------------------------
(***************************************************************************)
(* The reference sequencer (crates/remit): what a plane promises, without  *)
(* the journal, the validity and ordering gates' bookkeeping, or the       *)
(* interrupts.  The caller chooses the ordinal of a fork.                  *)
(*                                                                         *)
(* Plane is shown to implement this specification.  A refused call changes *)
(* nothing here, so it is a stuttering step.                               *)
(***************************************************************************)
EXTENDS Naturals, Sequences

CONSTANTS
  BranchKey,    \* branches an effect or a checkpoint may name
  ForkKeys,     \* the branches a fork may create: any checkpoint, any ordinal
  Value,        \* answers a fork is created with
  NoValue,      \* no answer
  MaxTask       \* bound: tasks are numbered 1..MaxTask

Task == 1 .. MaxTask

VARIABLES
  ledger,       \* effects admitted, in order
  fired,        \* the (branch, task) pairs already admitted
  ckpts,        \* durable checkpoints, numbered in order
  frontier,     \* last durable task of each branch, 0 if none
  branch_value  \* the answer each branch was created with

vars == << ledger, fired, ckpts, frontier, branch_value >>

Init ==
  /\ ledger = << >>
  /\ fired = {}
  /\ ckpts = << >>
  /\ frontier = [b \in BranchKey |-> 0]
  /\ branch_value = [b \in BranchKey |-> NoValue]

BeginEffect(b, t) ==
  /\ << b, t >> \notin fired
  /\ fired' = fired \cup {<< b, t >>}
  /\ ledger' = Append(ledger, [branch |-> b, task |-> t])
  /\ UNCHANGED << ckpts, frontier, branch_value >>

\* next_seq is the number of checkpoints: nothing else takes a number.
CommitCheckpoint(b, t) ==
  /\ t = frontier[b] + 1
  /\ ckpts' = Append(ckpts, [branch |-> b, task |-> t, seq |-> Len(ckpts)])
  /\ frontier' = [frontier EXCEPT ![b] = t]
  /\ UNCHANGED << ledger, fired, branch_value >>

Fork(b, v) ==
  /\ branch_value' = [branch_value EXCEPT ![b] = v]
  /\ UNCHANGED << ledger, fired, ckpts, frontier >>

Next ==
  \/ \E b \in BranchKey, t \in Task : BeginEffect(b, t)
  \/ \E b \in BranchKey, t \in Task : CommitCheckpoint(b, t)
  \/ \E b \in ForkKeys, v \in Value : Fork(b, v)

Spec == Init /\ [][Next]_vars
=============================================================================
