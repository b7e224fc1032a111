------------------------------ MODULE CrossHost ------------------------------
(***************************************************************************)
(* Probe 174: racers on several hosts resume one parked thread, round by   *)
(* round.  A coordinator (role_serve) and the racers (role_race) meet only *)
(* in four tables of a database; role_reset drops the tables, and a serve  *)
(* creates them again.  The checkpoints of the parked threads, and the     *)
(* claims of the gated saver, are in tables of their own that a reset       *)
(* leaves alone.                                                           *)
(*                                                                         *)
(* Left out: gate_ms, offsets and host names, the log of a racer, racers   *)
(* that die for good, and role_init, which creates the tables as the next  *)
(* serve would.  Two machines with one host tag are one host.              *)
(***************************************************************************)
EXTENDS Naturals, Sequences

CONSTANTS
  Host,          \* the host tags of the racers
  Schedule,      \* the arms of the rounds of one serve
  MaxServes,     \* bound: serves of the campaign
  MaxFaults      \* bound: statements and invokes that lose their connection,
                 \* and waits of the coordinator that expire

ASSUME CrossHostAssumption ==
  /\ Schedule \in Seq({"stock", "gate"})
  /\ {MaxServes, MaxFaults} \subseteq Nat

VARIABLES
  tables,    \* the four tables exist
  rounds,    \* [round -> "none", "open", "released" or "done"]
  ready,     \* rows << round, host >>
  effects,   \* rows << round, host >> of the gate task
  results,   \* rows << round, host >>
  arm,       \* [round -> its arm], of the rounds inserted so far
  parked,    \* the rounds whose thread waits at its interrupt
  claimed,    \* rows << round, host >>: the host holds the claim of the thread
  serve,     \* "idle", or what the serve waits for, or how it ended
  rnd,       \* the number of the last round
  rep,       \* the rounds of this serve so far
  counted,   \* the rounds whose fires the coordinator has read
  fired_by,  \* rows << round, host >> it read
  pc,        \* [host -> where its racer is]
  at,        \* [host -> the round its racer is at]
  fresh,     \* the tables are those of this serve, and nothing went wrong
  faults, timeouts, serves

store == << tables, rounds, ready, effects, results >>
threads == << arm, parked, claimed >>
tally == << counted, fired_by >>
coordinator == << serve, rnd, rep, tally >>
racers == << pc, at >>
bounds == << fresh, faults, timeouts, serves >>
crossVars == << store, threads, coordinator, racers, bounds >>

Round == 1 .. MaxServes * Len(Schedule)

CrossInit ==
  /\ tables = FALSE
  /\ rounds = [r \in Round |-> "none"]
  /\ ready = {} /\ effects = {} /\ results = {}
  /\ arm = [r \in Round |-> "stock"]
  /\ parked = {}
  /\ claimed = {}
  /\ serve = "idle" /\ rnd = 0 /\ rep = 0
  /\ counted = {} /\ fired_by = {}
  /\ pc = [h \in Host |-> "pick"]
  /\ at = [h \in Host |-> 0]
  /\ fresh = FALSE
  /\ faults = 0 /\ timeouts = 0 /\ serves = 0

-----------------------------------------------------------------------------
(* The coordinator.                                                        *)

Serving == serve \in {"park", "arrivals", "results", "done"}

\* A statement on a table that was dropped ends the serve.
Dropped ==
  /\ Serving /\ serve # "park" /\ ~tables
  /\ serve' = "failed"
  /\ UNCHANGED << store, threads, rnd, rep, tally, racers, bounds >>

\* CREATE TABLE IF NOT EXISTS, and the numbers go on from the clock.
StartServe ==
  /\ ~Serving /\ serves < MaxServes
  /\ tables' = TRUE
  /\ serve' = "park"
  /\ rep' = 0
  /\ serves' = serves + 1
  /\ fresh' = \A r \in Round : rounds[r] = "none"
  /\ UNCHANGED << rounds, ready, effects, results, threads, rnd, tally, racers,
                  faults, timeouts >>

\* The thread runs to its interrupt, and then the round is announced.
OpenRound ==
  /\ serve = "park" /\ rep < Len(Schedule)
  /\ parked' = parked \cup {rnd + 1}
  /\ rnd' = rnd + 1
  /\ rep' = rep + 1
  /\ IF tables
     THEN /\ rounds' = [rounds EXCEPT ![rnd + 1] = "open"]
          /\ arm' = [arm EXCEPT ![rnd + 1] = Schedule[rep + 1]]
          /\ serve' = "arrivals"
     ELSE serve' = "failed" /\ UNCHANGED << rounds, arm >>
  /\ UNCHANGED << tables, ready, effects, results, claimed, tally, racers, bounds >>

Two(rows) == \E g, h \in Host : g # h /\ {<< rnd, g >>, << rnd, h >>} \subseteq rows

Release ==
  /\ serve = "arrivals" /\ tables /\ Two(ready)
  /\ rounds' = [rounds EXCEPT ![rnd] = "released"]
  /\ serve' = "results"
  /\ UNCHANGED << tables, ready, effects, results, threads, rnd, rep, tally, racers, bounds >>

\* Mutant: the first result is enough.
CountEarly ==
  /\ serve = "results" /\ tables /\ \E h \in Host : << rnd, h >> \in results
  /\ counted' = counted \cup {rnd}
  /\ fired_by' = fired_by \cup {e \in effects : e[1] = rnd}
  /\ serve' = "done"
  /\ UNCHANGED << store, threads, rnd, rep, racers, bounds >>

CountFires ==
  /\ serve = "results" /\ tables /\ Two(results)
  /\ counted' = counted \cup {rnd}
  /\ fired_by' = fired_by \cup {e \in effects : e[1] = rnd}
  /\ serve' = "done"
  /\ UNCHANGED << store, threads, rnd, rep, racers, bounds >>

CloseRound ==
  /\ serve = "done" /\ tables
  /\ rounds' = [rounds EXCEPT ![rnd] = "done"]
  /\ serve' = "park"
  /\ UNCHANGED << tables, ready, effects, results, threads, rnd, rep, tally, racers, bounds >>

\* _fail leaves the round as it is.
TimedOut ==
  /\ tables /\ faults + timeouts < MaxFaults
  /\ \/ serve = "arrivals" /\ ~Two(ready)
     \/ serve = "results" /\ ~Two(results)
  /\ serve' = "failed"
  /\ timeouts' = timeouts + 1
  /\ fresh' = FALSE
  /\ UNCHANGED << store, threads, rnd, rep, tally, racers, faults, serves >>

WriteMatrix ==
  /\ serve = "park" /\ rep = Len(Schedule)
  /\ serve' = "receipt"
  /\ UNCHANGED << store, threads, rnd, rep, tally, racers, bounds >>

role_reset ==
  /\ tables
  /\ tables' = FALSE
  /\ rounds' = [r \in Round |-> "none"]
  /\ ready' = {} /\ effects' = {} /\ results' = {}
  /\ fresh' = FALSE
  /\ UNCHANGED << threads, coordinator, racers, faults, timeouts, serves >>

-----------------------------------------------------------------------------
(* The racers.                                                             *)

Goto(h, place) == pc' = [pc EXCEPT ![h] = place]

Undone(h, r) == rounds[r] \in {"open", "released"} /\ << r, h >> \notin ready

\* Mutant: any undone round will do.
PickAny(h) ==
  /\ pc[h] = "pick" /\ tables
  /\ \E r \in Round :
       Undone(h, r) /\ at' = [at EXCEPT ![h] = r]
  /\ Goto(h, "arm")
  /\ UNCHANGED << store, threads, coordinator, bounds >>

\* The oldest round that is not done and on which h is not ready.
Pick(h) ==
  /\ pc[h] = "pick" /\ tables
  /\ \E r \in Round :
       /\ Undone(h, r) /\ \A q \in 1 .. r - 1 : ~Undone(h, q)
       /\ at' = [at EXCEPT ![h] = r]
  /\ Goto(h, "arm")
  /\ UNCHANGED << store, threads, coordinator, bounds >>

\* The saver and the graph are built, and the racer says it is ready.
Arm(h) ==
  /\ pc[h] = "arm"
  /\ IF tables
     THEN ready' = ready \cup {<< at[h], h >>} /\ Goto(h, "wait")
     ELSE UNCHANGED ready /\ Goto(h, "pick")
  /\ UNCHANGED << tables, rounds, effects, results, threads, coordinator, at, bounds >>

\* Building fails, or the row is lost, or it is written and the answer lost.
ArmFails(h) ==
  /\ pc[h] = "arm" /\ faults + timeouts < MaxFaults
  /\ faults' = faults + 1
  /\ fresh' = FALSE
  /\ \/ UNCHANGED ready
     \/ tables /\ ready' = ready \cup {<< at[h], h >>}
  /\ Goto(h, "pick")
  /\ UNCHANGED << tables, rounds, effects, results, threads, coordinator, at, timeouts, serves >>

Pass(h) ==
  /\ pc[h] = "wait" /\ tables /\ rounds[at[h]] \in {"released", "done"}
  /\ Goto(h, "invoke")
  /\ UNCHANGED << store, threads, coordinator, at, bounds >>

\* Mutant: only a missing table is noticed.
AbortTable(h) ==
  /\ pc[h] = "wait" /\ ~tables
  /\ Goto(h, "pick")
  /\ UNCHANGED << store, threads, coordinator, at, bounds >>

\* The table, or the row, is gone.
Abort(h) ==
  /\ pc[h] = "wait" /\ (~tables \/ rounds[at[h]] = "none")
  /\ Goto(h, "pick")
  /\ UNCHANGED << store, threads, coordinator, at, bounds >>

\* Mutant: the claim does not look for the row of another host.
LoadUnclaimed(h) ==
  /\ pc[h] = "invoke"
  /\ claimed' = IF arm[at[h]] = "gate" THEN claimed \cup {<< at[h], h >>} ELSE claimed
  /\ Goto(h, IF at[h] \in parked THEN "fire" ELSE "report")
  /\ UNCHANGED << store, arm, parked, coordinator, at, bounds >>

\* The saver reads the checkpoint.  A gated one claims the interrupt it serves,
\* and refuses to serve what another host has claimed.
Load(h) ==
  LET r == at[h]
      taken == \E g \in Host : << r, g >> \in claimed
  IN  /\ pc[h] = "invoke"
      /\ \/ r \notin parked /\ Goto(h, "report") /\ UNCHANGED claimed
         \/ r \in parked /\ arm[r] = "stock" /\ Goto(h, "fire") /\ UNCHANGED claimed
         \/ r \in parked /\ arm[r] = "gate" /\ taken /\ Goto(h, "report") /\ UNCHANGED claimed
         \/ /\ r \in parked /\ arm[r] = "gate" /\ ~taken
            /\ claimed' = claimed \cup {<< r, h >>}
            /\ Goto(h, "fire")
      /\ UNCHANGED << store, arm, parked, coordinator, at, bounds >>

\* The gate node writes its row, unless the table is gone.
Fire(h) ==
  /\ pc[h] = "fire"
  /\ IF tables
     THEN effects' = effects \cup {<< at[h], h >>} /\ Goto(h, "persist")
     ELSE UNCHANGED effects /\ Goto(h, "report")
  /\ UNCHANGED << tables, rounds, ready, results, threads, coordinator, at, bounds >>

\* The step is persisted, and the thread waits no more.
Persist(h) ==
  /\ pc[h] = "persist"
  /\ parked' = parked \ {at[h]}
  /\ Goto(h, "report")
  /\ UNCHANGED << store, arm, claimed, coordinator, at, bounds >>

\* The invoke raises: what it did so far stays.
InvokeFails(h) ==
  /\ pc[h] \in {"invoke", "fire", "persist"} /\ faults + timeouts < MaxFaults
  /\ faults' = faults + 1
  /\ fresh' = FALSE
  /\ Goto(h, "report")
  /\ UNCHANGED << store, threads, coordinator, at, timeouts, serves >>

Report(h) ==
  /\ pc[h] = "report"
  /\ results' = IF tables THEN results \cup {<< at[h], h >>} ELSE results
  /\ Goto(h, "pick")
  /\ UNCHANGED << tables, rounds, ready, effects, threads, coordinator, at, bounds >>

\* The row is dropped without a retry.
ReportLost(h) ==
  /\ pc[h] = "report" /\ faults + timeouts < MaxFaults
  /\ faults' = faults + 1
  /\ fresh' = FALSE
  /\ Goto(h, "pick")
  /\ UNCHANGED << store, threads, coordinator, at, timeouts, serves >>

role_serve ==
  \/ Dropped \/ OpenRound \/ Release \/ CountFires \/ CloseRound \/ WriteMatrix

role_race(h) ==
  \/ Pick(h) \/ Arm(h) \/ Pass(h) \/ Abort(h) \/ Load(h) \/ Fire(h)
  \/ Persist(h) \/ Report(h)

CrossNext ==
  \/ StartServe \/ role_serve \/ TimedOut \/ role_reset
  \/ \E h \in Host :
       role_race(h) \/ ArmFails(h) \/ InvokeFails(h) \/ ReportLost(h)

CrossSpec == CrossInit /\ [][CrossNext]_crossVars

\* Both loops poll; what the operator does is not owed to anybody.
FairCrossSpec ==
  CrossSpec /\ WF_crossVars(role_serve) /\ \A h \in Host : WF_crossVars(role_race(h))
-----------------------------------------------------------------------------
CrossTypeOK ==
  /\ tables \in BOOLEAN
  /\ rounds \in [Round -> {"none", "open", "released", "done"}]
  /\ ready \subseteq Round \X Host
  /\ effects \subseteq Round \X Host
  /\ results \subseteq Round \X Host
  /\ arm \in [Round -> {"stock", "gate"}]
  /\ parked \subseteq Round
  /\ claimed \subseteq Round \X Host
  /\ serve \in {"idle", "park", "arrivals", "results", "done", "receipt", "failed"}
  /\ rnd \in 0 .. MaxServes * Len(Schedule) /\ rep \in 0 .. Len(Schedule)
  /\ counted \subseteq Round /\ fired_by \subseteq Round \X Host
  /\ pc \in [Host -> {"pick", "arm", "wait", "invoke", "fire", "persist", "report"}]
  /\ at \in [Host -> {0} \cup Round]
  /\ fresh \in BOOLEAN
  /\ {faults, timeouts, faults + timeouts} \subseteq 0 .. MaxFaults
  /\ serves \in 0 .. MaxServes

\* In a gated round at most one host fires, whatever connections are lost and
\* however often the tables are reset.
GatedFiresOnce ==
  \A r \in Round, g, h \in Host :
    arm[r] = "gate" /\ {<< r, g >>, << r, h >>} \subseteq effects => g = h

\* With two racers the fires the coordinator counts are all there will be.
\* (A third racer may still fire when two results are in.)
CountIsFinal ==
  (\A g, h, k \in Host : g = h \/ h = k \/ g = k) =>
    \A e \in effects : e[1] \in counted => e \in fired_by

\* A round whose serve gave up before its release holds every racer: until a
\* reset, and unless a racer loses its connection, no later round is raced.
AbandonedBlocks ==
  faults = 0 =>
    \A q \in Round : rounds[q] = "open" /\ (q < rnd \/ ~Serving) =>
      \A r \in q + 1 .. MaxServes * Len(Schedule) : rounds[r] \in {"none", "open"}

\* A serve on fresh tables needs no timeout: unless something goes wrong it
\* ends with its receipt, also when racers still wait in a dropped round.
FreshServeEnds == (Serving /\ fresh) ~> (~Serving \/ ~fresh)
=============================================================================
