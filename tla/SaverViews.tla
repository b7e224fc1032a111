----------------------------- MODULE SaverViews -----------------------------
(***************************************************************************)
(* The savers of the repository between an engine and its store.           *)
(*                                                                         *)
(* A thread asks for one answer after the other.  Callers resume it, at    *)
(* its newest checkpoint or at one they name, and every resume goes        *)
(* through the saver: get_tuple decides which recorded answers the engine  *)
(* sees, put_writes records the caller's value and the answer, put stores  *)
(* the next checkpoint.  Five savers: the stock one, ValidatingSaver and   *)
(* ForkKeyedSaver of the harness, the address filter of probes 134, 138,   *)
(* 143 and 155, and RemitSaverMixin with its cross-process gate off (the   *)
(* gate is ConsumeGate's subject).                                         *)
(*                                                                         *)
(* External: the engine serves the first recorded answer it sees, else the *)
(* caller's value (the rule probe 143 checks), and the store replaces the  *)
(* recorded answer of a task.                                              *)
(***************************************************************************)
EXTENDS Naturals, Sequences, SequencesExt

CONSTANTS
  Worker,    \* callers, threads of one process
  Gates,     \* answers the thread asks for
  Value,     \* answers
  Bad,       \* answers that make the state invalid
  NoCkpt,    \* no checkpoint: the newest one is meant
  MaxCalls,  \* bound: resumes
  MaxSeq,    \* bound: sequence numbers the core hands out
  MaxFail,   \* bound: failures of the store
  MaxDeath   \* bound: restarts of the process

ASSUME SaverAssumption ==
  /\ IsFiniteSet(Worker)
  /\ Value # {}
  /\ NoCkpt \notin Value \cup Nat
  /\ MaxCalls \in Nat
  /\ MaxSeq \in Nat

\* Identifiers in the order the engine mints them.
CkptId == 1 .. MaxCalls + 1

VARIABLES
  kind,         \* which saver is used
  on_explicit,  \* remit_fork_on_explicit_checkpoint
  gate,         \* [CkptId -> the answer the checkpoint waits for; 0: not stored]
  values,       \* [CkptId -> the answers in its state]
  writes,       \* [CkptId -> its recorded resumes, in the order of their keys]
  ordinal,      \* [CkptId -> _resume_ordinal of ForkKeyedSaver]
  minted,       \* the newest identifier
  journal,      \* the operations the core has sequenced
  next_seq,     \* the next number of the core
  step,         \* [Worker -> where its resume is]
  call,         \* [Worker -> the resume: fork intent and flag, checkpoint, value]
  view,         \* [Worker -> the checkpoint it loaded and the answer it sees there, if any]
  answer,       \* [Worker -> the answer it was served]
  holds,        \* [Worker -> the ordinal or checkpoint it is about to write]
  calls, fails, deaths,
  recorded,     \* history: [Worker -> answers recorded there when it loaded]
  lost          \* history: checkpoints whose store failed, or that died

disk == << gate, values, writes >>
local == << call, view, answer, holds, recorded >>
counts == << calls, fails, deaths >>
core == << journal, next_seq >>
saverVars == << kind, on_explicit, disk, ordinal, minted, core, step, local, counts,
                lost >>

Kinds == {"stock", "validating", "fork_keyed", "address", "remit"}

NoCall ==
  [fork |-> FALSE, flag |-> FALSE, ckpt |-> NoCkpt, val |-> CHOOSE v \in Value : TRUE]
NoView == [ckpt |-> 1, seen |-> {}]

SaverInit ==
  /\ kind \in Kinds
  /\ on_explicit \in BOOLEAN
  /\ kind # "remit" => on_explicit
  /\ gate = [c \in CkptId |-> IF c = 1 THEN 1 ELSE 0]
  /\ values = [c \in CkptId |-> << >>]
  /\ writes = [c \in CkptId |-> << >>]
  /\ ordinal = [c \in CkptId |-> 0]
  /\ minted = 1
  /\ journal = << >> /\ next_seq = 0
  /\ step = [w \in Worker |-> "idle"]
  /\ call = [w \in Worker |-> NoCall]
  /\ view = [w \in Worker |-> NoView]
  /\ answer = [w \in Worker |-> NoCall.val]
  /\ holds = [w \in Worker |-> 0]
  /\ calls = 0 /\ fails = 0 /\ deaths = 0
  /\ recorded = [w \in Worker |-> {}]
  /\ lost = {}

-----------------------------------------------------------------------------
Stored == {c \in CkptId : gate[c] # 0}

Newest == CHOOSE c \in Stored : \A d \in Stored : d <= c

Goto(w, s) == step' = [step EXCEPT ![w] = s]

\* The resume returns or raises.
Leave(w) ==
  /\ Goto(w, "idle")
  /\ call' = [call EXCEPT ![w] = NoCall]
  /\ view' = [view EXCEPT ![w] = NoView]
  /\ answer' = [answer EXCEPT ![w] = NoCall.val]
  /\ holds' = [holds EXCEPT ![w] = 0]
  /\ recorded' = [recorded EXCEPT ![w] = {}]

\* A caller means a fork when it sets the fork flag, which only RemitSaverMixin
\* reads, or names a checkpoint under fork_on_explicit_checkpoint; under False the
\* plumbing of a subgraph names checkpoints without that intent.
Resume(w, flag, c, v) ==
  /\ step[w] = "idle" /\ calls < MaxCalls
  /\ c \in Stored \cup {NoCkpt}
  /\ flag => kind = "remit"
  /\ call' = [call EXCEPT ![w] =
                [fork |-> flag \/ (on_explicit /\ c # NoCkpt), flag |-> flag,
                 ckpt |-> c, val |-> v]]
  /\ calls' = calls + 1
  /\ Goto(w, "load")
  /\ UNCHANGED << kind, on_explicit, disk, ordinal, minted, core, view, answer,
                  holds, fails, deaths, recorded, lost >>

\* What the config says: a checkpoint is named as a fork, the fork flag is set.
_remit_address(k) == [explicit |-> k.ckpt # NoCkpt /\ on_explicit, flag |-> k.flag]

\* The answers among recorded resumes, and the first of them.
Answers(ws) == {ws[k].val : k \in {i \in DOMAIN ws : ws[i].task}}

First(ws) ==
  LET tasks == {i \in DOMAIN ws : ws[i].task}
  IN {ws[k].val : k \in {i \in tasks : \A j \in tasks : i <= j}}

\* Mutant: the flag is not looked at.
get_tupleNoFlag(k, ws) ==
  CASE kind = "address" /\ k.ckpt # NoCkpt -> << >>
    [] kind = "remit" /\ _remit_address(k).explicit -> << >>
    [] kind = "fork_keyed" /\ Len(ws) > 1 -> << Last(ws) >>
    [] OTHER -> ws

\* The recorded resumes in the tuple that get_tuple returns.
get_tuple(k, ws) ==
  CASE kind = "address" /\ k.ckpt # NoCkpt -> << >>
    [] kind = "remit" /\ (_remit_address(k).explicit \/ _remit_address(k).flag) -> << >>
    [] kind = "fork_keyed" /\ Len(ws) > 1 -> << Last(ws) >>
    [] OTHER -> ws

\* A resume of a thread that waits for no answer is inert.
Load(w) ==
  LET c == IF call[w].ckpt = NoCkpt THEN Newest ELSE call[w].ckpt
  IN /\ step[w] = "load"
     /\ \/ /\ gate[c] <= Gates
           /\ view' = [view EXCEPT
                ![w] = [ckpt |-> c, seen |-> First(get_tuple(call[w], writes[c]))]]
           /\ recorded' = [recorded EXCEPT ![w] = Answers(writes[c])]
           /\ Goto(w, "null")
           /\ UNCHANGED << call, answer, holds >>
        \/ gate[c] > Gates /\ Leave(w)
  /\ UNCHANGED << kind, on_explicit, disk, ordinal, minted, core, counts, lost >>

-----------------------------------------------------------------------------
\* put_writes of a resume: of the caller's value before the task runs, of the
\* answer once it is served.
Writing(w) == step[w] \in {"null", "task"}

\* Mutant: the number is read before the lock and given out twice.
SequenceStale(op, c) ==
  IF kind = "remit"
  THEN /\ next_seq < MaxSeq
       /\ next_seq' \in {next_seq, next_seq + 1}
       /\ journal' = Append(journal, [seq |-> next_seq, kind |-> op, ckpt |-> c])
  ELSE UNCHANGED core

\* The only saver that has a core sequences every operation on it, before the
\* store, under the next number.
Sequence(op, c) ==
  IF kind = "remit"
  THEN /\ next_seq < MaxSeq
       /\ next_seq' = next_seq + 1
       /\ journal' = Append(journal, [seq |-> next_seq, kind |-> op, ckpt |-> c])
  ELSE UNCHANGED core

\* validity_gate of a state the validator accepts: a number, and no entry.
Accept ==
  IF kind = "remit"
  THEN /\ next_seq < MaxSeq
       /\ next_seq' = next_seq + 1
       /\ UNCHANGED journal
  ELSE UNCHANGED core

SequenceWrites(w) ==
  /\ Writing(w)
  /\ Sequence("PutWrites", view[w].ckpt)
  /\ holds' = [holds EXCEPT ![w] = ordinal[view[w].ckpt]]
  /\ Goto(w, IF step[w] = "null" THEN "store_null" ELSE "store_task")
  /\ UNCHANGED << kind, on_explicit, disk, ordinal, minted, call, view, answer, counts,
                  recorded, lost >>

\* The resume kept under a key: a later one replaces it, where it was.
Keyed(ws, x) ==
  IF \E k \in DOMAIN ws : ws[k].key = x.key
  THEN [k \in DOMAIN ws |-> IF ws[k].key = x.key THEN x ELSE ws[k]]
  ELSE Append(ws, x)

\* What is recorded: the caller's value, or the answer the engine serves the task.
Served(w, task) ==
  IF task /\ view[w].seen # {} THEN CHOOSE v \in view[w].seen : TRUE ELSE call[w].val

\* The stock store has one resume for the caller and one for the task.
\* ForkKeyedSaver makes a key of the ordinal it read before.
StoreWrites(w) ==
  LET task == step[w] = "store_task"
      c == view[w].ckpt
      key == IF kind = "fork_keyed" THEN << task, holds[w] >> ELSE << task, 0 >>
  IN /\ step[w] \in {"store_null", "store_task"}
     /\ writes' = [writes EXCEPT ![c] =
                     Keyed(@, [task |-> task, val |-> Served(w, task), key |-> key])]
     /\ ordinal' = [ordinal EXCEPT ![c] = IF kind = "fork_keyed" THEN holds[w] + 1 ELSE @]
     /\ answer' = [answer EXCEPT ![w] = Served(w, TRUE)]
     /\ Goto(w, IF task THEN "put" ELSE "task")
     /\ UNCHANGED << kind, on_explicit, gate, values, minted, core, call, view, holds,
                     counts, recorded, lost >>

-----------------------------------------------------------------------------
State(w) == Append(values[view[w].ckpt], answer[w])

Valid(s) == Range(s) \cap Bad = {}

\* Mutant: the validator is asked after the put is sequenced, and not heeded.
PutUnchecked(w) ==
  /\ step[w] = "put"
  /\ minted' = minted + 1
  /\ holds' = [holds EXCEPT ![w] = minted + 1]
  /\ Goto(w, "sequence")
  /\ Accept
  /\ UNCHANGED << kind, on_explicit, disk, ordinal, call, view, answer, counts, recorded,
                  lost >>

\* put mints the next checkpoint and asks the validator, whose verdict the core
\* journals: a rejection raises.
Put(w) ==
  /\ step[w] = "put"
  /\ minted' = minted + 1
  /\ IF kind \in {"remit", "validating"} /\ ~Valid(State(w))
     THEN /\ Sequence("ValidityRejected", minted + 1)
          /\ Leave(w)
     ELSE /\ Accept
          /\ holds' = [holds EXCEPT ![w] = minted + 1]
          /\ Goto(w, "sequence")
          /\ UNCHANGED << call, view, answer, recorded >>
  /\ UNCHANGED << kind, on_explicit, disk, ordinal, counts, lost >>

SequencePut(w) ==
  /\ step[w] = "sequence"
  /\ Sequence("Put", holds[w])
  /\ Goto(w, "store")
  /\ UNCHANGED << kind, on_explicit, disk, ordinal, minted, local, counts, lost >>

StorePut(w) ==
  /\ step[w] = "store"
  /\ gate' = [gate EXCEPT ![holds[w]] = gate[view[w].ckpt] + 1]
  /\ values' = [values EXCEPT ![holds[w]] = State(w)]
  /\ Leave(w)
  /\ UNCHANGED << kind, on_explicit, writes, ordinal, minted, core, counts, lost >>

\* The inner saver raises, after the operation was sequenced.
StoreFails(w) ==
  /\ step[w] \in {"store_null", "store_task", "store"} /\ fails < MaxFail
  /\ fails' = fails + 1
  /\ lost' = IF step[w] = "store" THEN lost \cup {holds[w]} ELSE lost
  /\ Leave(w)
  /\ UNCHANGED << kind, on_explicit, disk, ordinal, minted, core, calls, deaths >>

\* The process restarts: the core and its journal are gone, a durable store is not.
Die ==
  /\ kind \in {"remit", "address"} /\ deaths < MaxDeath
  /\ deaths' = deaths + 1
  /\ journal' = << >> /\ next_seq' = 0
  /\ lost' = CkptId \cap (1 .. minted)
  /\ step' = [w \in Worker |-> "idle"]
  /\ call' = [w \in Worker |-> NoCall]
  /\ view' = [w \in Worker |-> NoView]
  /\ answer' = [w \in Worker |-> NoCall.val]
  /\ holds' = [w \in Worker |-> 0]
  /\ recorded' = [w \in Worker |-> {}]
  /\ UNCHANGED << kind, on_explicit, disk, ordinal, minted, calls, fails >>

SaverNext ==
  \/ \E w \in Worker :
       \/ \E flag \in BOOLEAN, c \in CkptId \cup {NoCkpt}, v \in Value : Resume(w, flag, c, v)
       \/ Load(w) \/ SequenceWrites(w) \/ StoreWrites(w)
       \/ Put(w) \/ SequencePut(w) \/ StorePut(w) \/ StoreFails(w)
  \/ Die

SaverSpec == SaverInit /\ [][SaverNext]_saverVars

-----------------------------------------------------------------------------
(* Properties.                                                             *)

\* RemitSaverMixin gives every resume what it asked for, whatever other callers
\* record meanwhile and whoever names checkpoints: a fork its own value, and any
\* other resume an answer recorded at the checkpoint it loaded, if there was one.
ServedByIntent ==
  kind = "remit" =>
    \A w \in Worker :
      step[w] \in {"task", "store_task", "put", "sequence", "store"} =>
        answer[w] \in IF call[w].fork \/ recorded[w] = {} THEN {call[w].val} ELSE recorded[w]

\* What the store holds was validated and, by the process that is alive, sequenced
\* first; and what that process sequenced as a put is stored, unless the store
\* failed or is still at it.
JournalAccounts ==
  /\ kind \in {"remit", "validating"} => \A c \in Stored : Valid(values[c])
  /\ kind = "remit" =>
       LET puts == {m.ckpt : m \in {n \in Range(journal) : n.kind = "Put"}}
       IN /\ Stored \ lost \subseteq puts \cup {1}
          /\ puts \subseteq Stored \cup lost \cup {holds[w] : w \in {u \in Worker : step[u] = "store"}}

-----------------------------------------------------------------------------
(* The core behind RemitSaverMixin is a Plane that is asked for the order of *)
(* its operations and the verdict of the validator, and nothing else: the    *)
(* savers resolve no resume and admit no effect, and the name of a           *)
(* checkpoint or of a task is not a task number (NoCkpt stands for every     *)
(* value these calls never pass).                                            *)

PlaneJournal ==
  [i \in 1 .. Len(journal) |->
     [seq |-> journal[i].seq, kind |-> journal[i].kind, ref |-> NoCkpt]]

Core == INSTANCE Plane WITH
  Checkpoint <- {}, RootId <- NoCkpt, NoValue <- NoCkpt, NoTask <- NoCkpt,
  MaxTask <- 0, MaxResumes <- 1,
  ledger <- << >>, fired <- {}, ckpts <- << >>,
  frontier <- [b \in {[checkpoint_id |-> NoCkpt, resume_index |-> 0]} |-> 0],
  branch_value <- [b \in {[checkpoint_id |-> NoCkpt, resume_index |-> 0]} |-> NoCkpt],
  interrupts <- << >>,
  journal <- PlaneJournal,
  pending_writes <- {},
  completed <- FALSE

\* Between two restarts of the process the core takes only steps of a plane, from
\* a plane's initial state, however the callers, the failures of the store and
\* the rejections interleave: so what holds of Plane holds of it, the total order
\* of the journal first (put_writes, put and validity_gate each take a number,
\* and only a restart takes one back).
SaverUsesPlane ==
  /\ Core!Init
  /\ [][Core!Next \/ (deaths' # deaths /\ (Core!Init)')]_(Core!vars)
=============================================================================
