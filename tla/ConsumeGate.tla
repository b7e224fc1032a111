---------------------------- MODULE ConsumeGate ----------------------------
(***************************************************************************)
(* The cross-process consume-once gate of langgraph_shim.RemitSaverMixin.  *)
(*                                                                         *)
(* Several OS processes, each with one saver instance on its own database  *)
(* connection, resume one thread id.  The workers of a saver are the OS    *)
(* threads that call it.  A gated get_tuple reads the newest checkpoint    *)
(* and, when an interrupt is parked there, claims it with one INSERT into  *)
(* remit_claims; put_writes of a resume claims the same key again (the     *)
(* secondary latch).  The steps between which another worker, another      *)
(* process, a crash or a database error can come are steps of their own.   *)
(*                                                                         *)
(* External, from how the shim uses it: the checkpoint store (the newest   *)
(* checkpoint of the thread, and a resumed run putting the next one) and   *)
(* the database (unique key, one writer, a transaction opened by INSERT).  *)
(* The CREATE TABLE of the claims table is idempotent, absorbed when it    *)
(* races, and precedes every INSERT: it is taken as done.                  *)
(***************************************************************************)
EXTENDS Naturals, FiniteSets

CONSTANTS
  Saver,           \* saver instances, one per process
  Worker,          \* OS threads that call them
  SaverOf,         \* [Worker -> Saver]
  NoOne,           \* neither a worker nor a holder
  Latest,          \* the key "__latest__", used when no checkpoint id is known
  Postgres,        \* BOOLEAN: autocommit Postgres, else SQLite
  ForkOnExplicit,  \* BOOLEAN: remit_fork_on_explicit_checkpoint
  NamesCkpt,       \* BOOLEAN: put_writes configs carry a checkpoint_id
  MaxCkpt,         \* bound: the thread parks at checkpoints 1..MaxCkpt
  MaxCrash,        \* bound: restarts of each process
  MaxFault         \* bound: database errors

ASSUME GateAssumption ==
  /\ SaverOf \in [Worker -> Saver]
  /\ MaxCkpt \in Nat \ {0} /\ MaxCrash \in Nat /\ MaxFault \in Nat
  /\ Latest \notin Nat
  /\ NoOne \notin Worker
  /\ NoOne \notin Saver \X (0 .. MaxCrash)
  /\ {Postgres, ForkOnExplicit, NamesCkpt} \subseteq BOOLEAN

\* Checkpoints that park an interrupt; MaxCkpt + 1 is the completed run.
Parked == 1 .. MaxCkpt

Key == Parked \cup {Latest}

\* A saver instance lives as long as its process does.
Holder == Saver \X (0 .. MaxCrash)

VARIABLES
  latest,      \* newest checkpoint of the thread in the shared store
  claims,      \* remit_claims: the holder that committed each row, or NoOne
  txn,         \* [Saver -> keys inserted and not committed on its connection]
  mutex,       \* [Saver -> worker holding self.lock, or NoOne]
  held,        \* [Saver -> _remit_claims_held]
  last_claim,  \* [Saver -> _remit_last_claim of the thread, or NoOne]
  epoch,       \* [Saver -> restarts so far]
  pc,          \* [Worker -> where its call is]
  site,        \* [Worker -> which call claims: "read" or "write"]
  key,         \* [Worker -> the key it claims]
  view,        \* [Worker -> the checkpoint it loaded]
  served,      \* history: the (holder, key) pairs a gated read was served
  journaled,   \* history: the (holder, checkpoint) pairs whose resume is stored
  faults       \* database errors so far

store == << latest, claims, journaled >>
instance == << held, last_claim, epoch >>
local == << site, key, view >>
vars == << store, txn, mutex, instance, pc, local, served, faults >>

Me(w) == << SaverOf[w], epoch[SaverOf[w]] >>

Phase == {"idle", "check", "lock", "insert", "commit", "won", "granted",
          "serving", "journal", "advance", "refused"}

TypeOK ==
  /\ latest \in 1 .. MaxCkpt + 1
  /\ claims \in [Key -> Holder \cup {NoOne}]
  /\ txn \in [Saver -> SUBSET Key]
  /\ mutex \in [Saver -> Worker \cup {NoOne}]
  /\ held \in [Saver -> SUBSET Key]
  /\ last_claim \in [Saver -> Key \cup {NoOne}]
  /\ epoch \in [Saver -> 0 .. MaxCrash]
  /\ pc \in [Worker -> Phase]
  /\ site \in [Worker -> {"read", "write"}]
  /\ key \in [Worker -> Key]
  /\ view \in [Worker -> Parked]
  /\ served \in SUBSET (Holder \X Key)
  /\ journaled \in SUBSET (Holder \X Parked)
  /\ faults \in 0 .. MaxFault

Init ==
  /\ latest = 1
  /\ claims = [k \in Key |-> NoOne]
  /\ txn = [s \in Saver |-> {}]
  /\ mutex = [s \in Saver |-> NoOne]
  /\ held = [s \in Saver |-> {}]
  /\ last_claim = [s \in Saver |-> NoOne]
  /\ epoch = [s \in Saver |-> 0]
  /\ pc = [w \in Worker |-> "idle"]
  /\ site = [w \in Worker |-> "read"]
  /\ key = [w \in Worker |-> Latest]
  /\ view = [w \in Worker |-> 1]
  /\ served = {}
  /\ journaled = {}
  /\ faults = 0

-----------------------------------------------------------------------------
Goto(w, phase) == pc' = [pc EXCEPT ![w] = phase]

\* The call returns or raises, and its locals are gone.
EndCall(w) ==
  /\ Goto(w, "idle")
  /\ site' = [site EXCEPT ![w] = "read"]
  /\ key' = [key EXCEPT ![w] = Latest]
  /\ view' = [view EXCEPT ![w] = 1]

\* The core's rule: which reads and writes must claim.
ConsumeView(pending, fork_intent, inspect_intent) ==
  pending /\ ~fork_intent /\ ~inspect_intent

\* get_tuple: load the newest checkpoint and decide.  A call that passes (a
\* fork, an inspection, nothing parked) claims nothing and is not followed.
Read(w, fork_intent, inspect_intent) ==
  /\ pc[w] = "idle"
  /\ \/ /\ ConsumeView(latest \in Parked, fork_intent, inspect_intent)
        /\ view' = [view EXCEPT ![w] = latest]
        /\ key' = [key EXCEPT ![w] = latest]
        /\ site' = [site EXCEPT ![w] = "read"]
        /\ Goto(w, "check")
     \/ /\ ~ConsumeView(latest \in Parked, fork_intent, inspect_intent)
        /\ UNCHANGED << pc, local >>
  /\ UNCHANGED << store, txn, mutex, instance, served, faults >>

\* A resume that reaches put_writes without a gated read before it.
ReadlessResume(w) ==
  /\ pc[w] = "idle"
  /\ latest \in Parked
  /\ view' = [view EXCEPT ![w] = latest]
  /\ Goto(w, "serving")
  /\ UNCHANGED << store, txn, mutex, instance, site, key, served, faults >>

-----------------------------------------------------------------------------
(* _remit_take_claim.                                                      *)

\* The claims this instance already holds need no row.
CheckHeld(w) ==
  /\ pc[w] = "check"
  /\ Goto(w, IF key[w] \in held[SaverOf[w]] THEN "granted" ELSE "lock")
  /\ UNCHANGED << store, txn, mutex, instance, local, served, faults >>

Lock(w) ==
  /\ pc[w] = "lock"
  /\ mutex[SaverOf[w]] = NoOne
  /\ mutex' = [mutex EXCEPT ![SaverOf[w]] = w]
  /\ Goto(w, "insert")
  /\ UNCHANGED << store, txn, instance, local, served, faults >>

\* Mutant: an early return leaves self.lock held.
UnlockForgotten(w) == UNCHANGED mutex

\* Leaving the with-block of self.lock, on any path.
Unlock(w) == mutex' = [mutex EXCEPT ![SaverOf[w]] = NoOne]

WriterElsewhere(w) == \E s \in Saver \ {SaverOf[w]} : txn[s] # {}

RowExists(w) == claims[key[w]] # NoOne \/ key[w] \in txn[SaverOf[w]]

\* The uniqueness constraint admits the row; it is not committed yet.
InsertRow(w) ==
  /\ pc[w] = "insert" /\ ~Postgres
  /\ ~WriterElsewhere(w)
  /\ ~RowExists(w)
  /\ txn' = [txn EXCEPT ![SaverOf[w]] = @ \cup {key[w]}]
  /\ Goto(w, "commit")
  /\ UNCHANGED << store, mutex, instance, local, served, faults >>

\* Mutant: a duplicate row counts as a win.
InsertDuplicateWins(w) ==
  /\ pc[w] = "insert" /\ ~Postgres
  /\ ~WriterElsewhere(w)
  /\ RowExists(w)
  /\ txn' = [txn EXCEPT ![SaverOf[w]] = {}]
  /\ Unlock(w)
  /\ Goto(w, "won")
  /\ UNCHANGED << store, instance, local, served, faults >>

\* IntegrityError: roll back everything open on the connection, and lose.
InsertDuplicate(w) ==
  /\ pc[w] = "insert" /\ ~Postgres
  /\ ~WriterElsewhere(w)
  /\ RowExists(w)
  /\ txn' = [txn EXCEPT ![SaverOf[w]] = {}]
  /\ Unlock(w)
  /\ Goto(w, "refused")
  /\ UNCHANGED << store, instance, local, served, faults >>

\* Another connection is in its write transaction for longer than the busy
\* timeout: an OperationalError the shim does not catch.
InsertBusy(w) ==
  /\ pc[w] = "insert" /\ ~Postgres
  /\ WriterElsewhere(w)
  /\ Unlock(w)
  /\ EndCall(w)
  /\ UNCHANGED << store, txn, instance, served, faults >>

\* Whatever is open on the connection of w becomes durable.
CommitTxn(w) ==
  /\ claims' = [k \in Key |-> IF k \in txn[SaverOf[w]] THEN Me(w) ELSE claims[k]]
  /\ txn' = [txn EXCEPT ![SaverOf[w]] = {}]

Commit(w) ==
  /\ pc[w] = "commit"
  /\ CommitTxn(w)
  /\ Unlock(w)
  /\ Goto(w, "won")
  /\ UNCHANGED << latest, journaled, instance, local, served, faults >>

\* Mutant: an error of commit() counts as a win.
CommitFailsWins(w) ==
  /\ pc[w] = "commit"
  /\ faults < MaxFault
  /\ faults' = faults + 1
  /\ txn' = [txn EXCEPT ![SaverOf[w]] = {}]
  /\ Unlock(w)
  /\ Goto(w, "won")
  /\ UNCHANGED << store, instance, local, served >>

\* commit() raises something else than IntegrityError; the transaction stays
\* open on the connection, or the database rolled it back.
CommitFails(w) ==
  /\ pc[w] = "commit"
  /\ faults < MaxFault
  /\ faults' = faults + 1
  /\ \/ UNCHANGED txn
     \/ txn' = [txn EXCEPT ![SaverOf[w]] = {}]
  /\ Unlock(w)
  /\ EndCall(w)
  /\ UNCHANGED << store, instance, served >>

\* Mutant: the conflict is resolved by an update.
InsertOnConflictUpdate(w) ==
  /\ pc[w] = "insert" /\ Postgres
  /\ claims' = [claims EXCEPT ![key[w]] = Me(w)]
  /\ Goto(w, "won")
  /\ Unlock(w)
  /\ UNCHANGED << latest, journaled, txn, instance, local, served, faults >>

\* ON CONFLICT DO NOTHING under autocommit: one step decides and commits.
InsertOnConflict(w) ==
  /\ pc[w] = "insert" /\ Postgres
  /\ IF RowExists(w)
     THEN Goto(w, "refused") /\ UNCHANGED claims
     ELSE Goto(w, "won") /\ claims' = [claims EXCEPT ![key[w]] = Me(w)]
  /\ Unlock(w)
  /\ UNCHANGED << latest, journaled, txn, instance, local, served, faults >>

\* The server inserted the row, and its answer never arrived.
AnswerLost(w) ==
  /\ pc[w] = "insert" /\ Postgres
  /\ faults < MaxFault
  /\ faults' = faults + 1
  /\ claims' = [claims EXCEPT ![key[w]] = IF RowExists(w) THEN @ ELSE Me(w)]
  /\ Unlock(w)
  /\ EndCall(w)
  /\ UNCHANGED << latest, journaled, txn, instance, served >>

\* The latch is set outside self.lock, after the row is committed.
Hold(w) ==
  /\ pc[w] = "won"
  /\ held' = [held EXCEPT ![SaverOf[w]] = @ \cup {key[w]}]
  /\ Goto(w, "granted")
  /\ UNCHANGED << store, txn, mutex, last_claim, epoch, local, served, faults >>

-----------------------------------------------------------------------------
(* After the claim.                                                        *)

\* consume_claim_check serves the read: get_tuple returns the tuple.
Serve(w) ==
  /\ pc[w] = "granted" /\ site[w] = "read"
  /\ last_claim' = [last_claim EXCEPT ![SaverOf[w]] = key[w]]
  /\ served' = served \cup {<< Me(w), key[w] >>}
  /\ Goto(w, "serving")
  /\ UNCHANGED << store, txn, mutex, held, epoch, local, faults >>

\* Mutant: put_writes has no latch.
ResumeWriteUnlatched(w) ==
  /\ pc[w] = "serving"
  /\ Goto(w, "journal")
  /\ UNCHANGED << store, txn, mutex, instance, local, served, faults >>

\* The resumed node ran; put_writes of its __resume__ write meets the latch.
ResumeWrite(w) ==
  /\ pc[w] = "serving"
  /\ \/ /\ ConsumeView(TRUE, NamesCkpt /\ ForkOnExplicit, FALSE)
        /\ key' = [key EXCEPT ![w] =
             IF NamesCkpt THEN view[w]
             ELSE IF last_claim[SaverOf[w]] # NoOne THEN last_claim[SaverOf[w]]
             ELSE Latest]
        /\ site' = [site EXCEPT ![w] = "write"]
        /\ Goto(w, "check")
     \/ /\ ~ConsumeView(TRUE, NamesCkpt /\ ForkOnExplicit, FALSE)
        /\ Goto(w, "journal")
        /\ UNCHANGED << site, key >>
  /\ UNCHANGED << store, txn, mutex, instance, view, served, faults >>

LatchPasses(w) ==
  /\ pc[w] = "granted" /\ site[w] = "write"
  /\ Goto(w, "journal")
  /\ UNCHANGED << store, txn, mutex, instance, local, served, faults >>

\* The store's own writes take self.lock, and wait for another connection's
\* transaction; they commit the connection they share with the claims.
StoreWrite(w) ==
  /\ mutex[SaverOf[w]] = NoOne
  /\ ~WriterElsewhere(w)
  /\ CommitTxn(w)

\* super().put_writes
Journal(w) ==
  /\ pc[w] = "journal"
  /\ StoreWrite(w)
  /\ journaled' = journaled \cup {<< Me(w), view[w] >>}
  /\ Goto(w, "advance")
  /\ UNCHANGED << latest, mutex, instance, local, served, faults >>

\* Mutant: a late run advances the thread past a newer checkpoint.
AdvanceBlindly(w) ==
  /\ pc[w] = "advance"
  /\ StoreWrite(w)
  /\ latest' = latest + 1
  /\ EndCall(w)
  /\ UNCHANGED << journaled, mutex, instance, served, faults >>

\* The resumed run puts its next checkpoint.
Advance(w) ==
  /\ pc[w] = "advance"
  /\ StoreWrite(w)
  /\ latest' = IF latest > view[w] THEN latest ELSE view[w] + 1
  /\ EndCall(w)
  /\ UNCHANGED << journaled, mutex, instance, served, faults >>

\* "database is locked": the call of the store, and with it the run, fails.
StoreBusy(w) ==
  /\ pc[w] \in {"journal", "advance"}
  /\ WriterElsewhere(w)
  /\ EndCall(w)
  /\ UNCHANGED << store, txn, mutex, instance, served, faults >>

\* RemitConsumeConflict reached the caller, who may resume again.
Return(w) ==
  /\ pc[w] = "refused"
  /\ EndCall(w)
  /\ UNCHANGED << store, txn, mutex, instance, served, faults >>

\* The process dies and restarts: its open transaction is rolled back, and a
\* new saver instance starts with an empty latch.
Crash(s) ==
  /\ epoch[s] < MaxCrash
  /\ epoch' = [epoch EXCEPT ![s] = @ + 1]
  /\ held' = [held EXCEPT ![s] = {}]
  /\ last_claim' = [last_claim EXCEPT ![s] = NoOne]
  /\ txn' = [txn EXCEPT ![s] = {}]
  /\ mutex' = [mutex EXCEPT ![s] = NoOne]
  /\ pc' = [w \in Worker |-> IF SaverOf[w] = s THEN "idle" ELSE pc[w]]
  /\ site' = [w \in Worker |-> IF SaverOf[w] = s THEN "read" ELSE site[w]]
  /\ key' = [w \in Worker |-> IF SaverOf[w] = s THEN Latest ELSE key[w]]
  /\ view' = [w \in Worker |-> IF SaverOf[w] = s THEN 1 ELSE view[w]]
  /\ UNCHANGED << store, served, faults >>

TakeClaim(w) ==
  \/ CheckHeld(w) \/ Lock(w) \/ InsertRow(w) \/ InsertDuplicate(w)
  \/ InsertBusy(w) \/ Commit(w) \/ InsertOnConflict(w) \/ Hold(w)

Resume(w) ==
  \/ Serve(w) \/ ResumeWrite(w) \/ LatchPasses(w) \/ Journal(w)
  \/ Advance(w) \/ StoreBusy(w) \/ Return(w)

Fault(w) == CommitFails(w) \/ AnswerLost(w)

Next ==
  \/ \E w \in Worker :
       \/ \E fork, inspect \in BOOLEAN : Read(w, fork, inspect)
       \/ ReadlessResume(w)
       \/ TakeClaim(w)
       \/ Resume(w)
       \/ Fault(w)
  \/ \E s \in Saver : Crash(s)

Spec == Init /\ [][Next]_vars

\* A thread that is in a call is scheduled until the call ends, and a client
\* whose resume was not served resumes again.
Fairness ==
  \A w \in Worker : WF_vars(Read(w, FALSE, FALSE) \/ TakeClaim(w) \/ Resume(w))

FairSpec == Spec /\ Fairness
-----------------------------------------------------------------------------
(* Properties.                                                             *)

\* CO across processes: no two holders are ever served the same parked
\* interrupt, whatever crashes and database errors come in between
\* (get_tuple, _remit_take_claim, the uniqueness constraint).
AtMostOneServed ==
  \A p, q \in served : p[2] = q[2] => p = q

\* The in-process latch is never ahead of the store: what an instance holds,
\* and what it was ever served, is a committed row of that same incarnation
\* (held.add comes after the commit; a restart empties the latch).
LatchBackedByRow ==
  /\ \A s \in Saver : \A k \in held[s] : claims[k] = << s, epoch[s] >>
  /\ \A p \in served : claims[p[2]] = p[1]

\* The secondary latch: a resume is journaled for a parked checkpoint only by
\* the holder of its claim, gated read before it or not (put_writes).
JournaledByHolder ==
  \A p \in journaled : claims[p[2]] = p[1]

\* _remit_take_claim "returns whether this instance holds the claim": it
\* never refuses a worker of the instance whose row it is.
RefusalIsTrue ==
  [][\A w \in Worker :
       pc[w] = "insert" /\ pc'[w] = "refused" => claims[key[w]] # Me(w)]_vars

\* Somebody is served every parked interrupt and journals its answer.
ParkedIsServed ==
  \A c \in Parked : latest = c ~> \E h \in Holder : << h, c >> \in journaled

\* The gate implements one owner per interrupt, taken by the row's commit.
Once == INSTANCE ConsumeOnce WITH NoHolder <- NoOne, owner <- claims

ImplementsConsumeOnce == Once!Spec
=============================================================================
