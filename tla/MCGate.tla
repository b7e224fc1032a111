------------------------------ MODULE MCGate ------------------------------
(***************************************************************************)
(* The gate on either of its two stores, and on Postgres also under an     *)
(* engine whose put_writes name no checkpoint: which of the three is fixed *)
(* when a behaviour starts.  Two processes; two threads of the first share *)
(* its saver instance.                                                     *)
(***************************************************************************)
EXTENDS MCConsumeGate

VARIABLE backend   \* the store of every saver: "sqlite", "postgres" or "unnamed"

\* The module itself is the gate on SQLite.
PG == INSTANCE ConsumeGate WITH Postgres <- TRUE
Unnamed == INSTANCE ConsumeGate WITH Postgres <- TRUE, NamesCkpt <- FALSE

mcVars == << backend, vars >>

MCInit == Init /\ backend \in {"sqlite", "postgres", "unnamed"}

\* Bound: a process restarts or the thread advances, not both in a behaviour, and
\* where no checkpoint is named it is the thread that does: what is stale then is
\* the last claim, and that is of one interrupt only when there are two.
CrashOrAdvance ==
  \/ \A s \in Saver : epoch[s] = 0
  \/ latest = 1 /\ backend # "unnamed"

MCNext ==
  /\ \/ backend = "sqlite" /\ Next
     \/ backend = "postgres" /\ PG!Next
     \/ backend = "unnamed" /\ Unnamed!Next
  /\ UNCHANGED backend
  /\ CrashOrAdvance'

MCSpec == MCInit /\ [][MCNext]_mcVars

\* What a scheduled thread does next, and a client whose resume was not served.
Turn(w) ==
  /\ \/ backend = "sqlite" /\ (Read(w, FALSE, FALSE) \/ TakeClaim(w) \/ Resume(w))
     \/ backend = "postgres" /\ (PG!Read(w, FALSE, FALSE) \/ PG!TakeClaim(w) \/ PG!Resume(w))
     \/ /\ backend = "unnamed"
        /\ Unnamed!Read(w, FALSE, FALSE) \/ Unnamed!TakeClaim(w) \/ Unnamed!Resume(w)
  /\ UNCHANGED backend

\* The fairness of FairSpec.
FairMCSpec == MCSpec /\ \A w \in Worker : WF_mcVars(Turn(w))

\* JournaledByHolder where put_writes names the checkpoint it writes to: what it
\* claims otherwise, the last claim or __latest__, need not be that checkpoint.
NamedJournaledByHolder == backend # "unnamed" => JournaledByHolder
=============================================================================
