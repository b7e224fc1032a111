--------------------------- MODULE CrossHostProofs ---------------------------
(***************************************************************************)
(* What holds of the race over several hosts (probe 174) for any number of *)
(* hosts, any schedule of arms, any number of serves, resets at any time   *)
(* and any number of lost statements and expired waits.                    *)
(***************************************************************************)
EXTENDS CrossHost, TLAPS

Place == {"pick", "arm", "wait", "invoke", "fire", "persist", "report"}

\* Types, as far as the proofs need them; a racer that is busy has a round.
Shape ==
  /\ rounds \in [Round -> {"none", "open", "released", "done"}]
  /\ arm \in [Round -> {"stock", "gate"}]
  /\ ready \in SUBSET (Round \X Host)
  /\ effects \in SUBSET (Round \X Host)
  /\ results \in SUBSET (Round \X Host)
  /\ claimed \in SUBSET (Round \X Host)
  /\ rnd \in Nat /\ rep \in Nat /\ faults \in Nat
  /\ pc \in [Host -> Place]
  /\ at \in [Host -> {0} \cup Round]
  /\ \A h \in Host : pc[h] # "pick" => at[h] \in Round

\* Nothing refers to a round that was not announced yet.
Numbered ==
  /\ \A r \in Round : rounds[r] # "none" => r <= rnd
  /\ \A h \in Host : at[h] <= rnd
  /\ \A r \in Round, h \in Host : << r, h >> \in ready \cup effects \cup results => r <= rnd
  /\ \A r \in Round : r \in counted => r <= rnd

\* Dropped tables have no rows, and others have the row of the round that is served.
Rows ==
  /\ ~tables => \A r \in Round : rounds[r] = "none"
  /\ tables /\ rnd \in Round =>
       /\ serve = "arrivals" => rounds[rnd] = "open"
       /\ serve \in {"results", "done"} => rounds[rnd] = "released"

Basics == Shape /\ Numbered /\ Rows

-----------------------------------------------------------------------------
\* Rounds are numbered from 1.
LEMMA RoundNat == \A r \in Round : r \in Nat /\ r >= 1
  BY CrossHostAssumption DEF Round

\* Every step keeps the types, and a busy racer at a round.
LEMMA ShapeStep == ASSUME Basics, CrossNext PROVE Shape'
<1> USE RoundNat DEF Basics, Shape
<1> USE DEF store, threads, tally, coordinator, racers, bounds
<1>0. CASE StartServe
  BY <1>0 DEF StartServe
<1>1. CASE Dropped \/ TimedOut \/ WriteMatrix \/ CountFires
  BY <1>1 DEF Dropped, TimedOut, WriteMatrix, CountFires
<1>2. CASE OpenRound
  <2>1. Schedule[rep + 1] \in {"stock", "gate"}
    BY <1>2, CrossHostAssumption DEF OpenRound
  <2>2. rounds' \in [Round -> {"none", "open", "released", "done"}]
    BY <1>2 DEF OpenRound
  <2>3. arm' \in [Round -> {"stock", "gate"}]
    BY <1>2, <2>1 DEF OpenRound
  <2>4. rnd' \in Nat /\ rep' \in Nat /\ UNCHANGED << ready, effects, results, claimed, faults, pc, at >>
    BY <1>2 DEF OpenRound
  <2> QED BY <2>2, <2>3, <2>4
<1>3. CASE Release \/ CloseRound
  BY <1>3 DEF Release, CloseRound
<1>4. CASE role_reset
  BY <1>4 DEF role_reset
<1>5. ASSUME NEW h \in Host, Pick(h) PROVE Shape'
  BY <1>5 DEF Pick, Goto, Place
<1>6. ASSUME NEW h \in Host, Arm(h) \/ ArmFails(h) PROVE Shape'
  BY <1>6 DEF Arm, ArmFails, Goto, Place
<1>7. ASSUME NEW h \in Host, Pass(h) \/ Abort(h) PROVE Shape'
  BY <1>7 DEF Pass, Abort, Goto, Place
<1>8. ASSUME NEW h \in Host, Load(h) PROVE Shape'
  BY <1>8 DEF Load, Goto, Place
<1>9. ASSUME NEW h \in Host, Fire(h) \/ Persist(h) \/ InvokeFails(h) PROVE Shape'
  BY <1>9 DEF Fire, Persist, InvokeFails, Goto, Place
<1>10. ASSUME NEW h \in Host, Report(h) \/ ReportLost(h) PROVE Shape'
  BY <1>10 DEF Report, ReportLost, Goto, Place
<1> QED BY <1>0, <1>1, <1>2, <1>3, <1>4, <1>5, <1>6, <1>7, <1>8, <1>9, <1>10
         DEF CrossNext, role_serve, role_race

\* A racer is at a number.
LEMMA AtNat == ASSUME Shape, NEW h \in Host PROVE at[h] \in Nat
<1>1. at[h] \in {0} \cup Round
  BY DEF Shape
<1> QED BY <1>1, RoundNat

\* No step refers to a round before it is announced.
LEMMA NumberedStep == ASSUME Basics, CrossNext PROVE Numbered'
<1> USE RoundNat DEF Basics, Shape, Numbered
<1> USE DEF store, threads, tally, coordinator, racers, bounds
<1>0. CASE StartServe
  BY <1>0 DEF StartServe
<1>1. CASE Dropped \/ TimedOut \/ WriteMatrix
  BY <1>1 DEF Dropped, TimedOut, WriteMatrix
<1>2. CASE OpenRound
  <2>1. rnd' = rnd + 1 /\ UNCHANGED << at, ready, effects, results, counted >>
    BY <1>2 DEF OpenRound
  <2>2. \A r \in Round : rounds'[r] = rounds[r] \/ r = rnd + 1
    BY <1>2 DEF OpenRound
  <2>3. \A r \in Round : r <= rnd => r <= rnd + 1
    OBVIOUS
  <2>4. (\A h \in Host : at[h] <= rnd)'
    <3>1. ASSUME NEW h \in Host PROVE at[h] \in Nat /\ at[h] <= rnd
      BY AtNat
    <3> QED BY <2>1, <3>1
  <2>5. (\A r \in Round : rounds[r] # "none" => r <= rnd)'
    <3>1. ASSUME NEW r \in Round, rounds'[r] # "none" PROVE r <= rnd'
      BY <2>1, <2>2, <3>1
    <3> QED BY <3>1
  <2> QED BY <2>1, <2>3, <2>4, <2>5
<1>3. CASE Release \/ CloseRound
  BY <1>3 DEF Release, CloseRound, Rows
<1>4. CASE CountFires
  BY <1>4 DEF CountFires
<1>5. CASE role_reset
  BY <1>5 DEF role_reset
<1>6. ASSUME NEW h \in Host, Pick(h) PROVE Numbered'
  BY <1>6 DEF Pick, Undone, Goto
<1>7. ASSUME NEW h \in Host, Arm(h) \/ ArmFails(h) PROVE Numbered'
  BY <1>7 DEF Arm, ArmFails, Goto
<1>8. ASSUME NEW h \in Host, Pass(h) \/ Abort(h) \/ Load(h) \/ Persist(h) PROVE Numbered'
  BY <1>8 DEF Pass, Abort, Load, Persist, Goto
<1>9. ASSUME NEW h \in Host, Fire(h) \/ InvokeFails(h) PROVE Numbered'
  BY <1>9 DEF Fire, InvokeFails, Goto
<1>10. ASSUME NEW h \in Host, Report(h) \/ ReportLost(h) PROVE Numbered'
  BY <1>10 DEF Report, ReportLost, Goto
<1> QED BY <1>0, <1>1, <1>2, <1>3, <1>4, <1>5, <1>6, <1>7, <1>8, <1>9, <1>10
         DEF CrossNext, role_serve, role_race

\* Dropping, creating and serving keep the rows of the tables in step.
LEMMA RowsStep == ASSUME Basics, CrossNext PROVE Rows'
<1> USE RoundNat DEF Basics, Shape, Rows
<1> USE DEF store, threads, tally, coordinator, racers, bounds
<1>0. CASE StartServe
  BY <1>0 DEF StartServe
<1>1. CASE Dropped \/ TimedOut \/ WriteMatrix
  BY <1>1 DEF Dropped, TimedOut, WriteMatrix
<1>2. CASE OpenRound
  BY <1>2 DEF OpenRound
<1>3. CASE Release \/ CountFires \/ CloseRound
  BY <1>3 DEF Release, CountFires, CloseRound
<1>4. CASE role_reset
  BY <1>4 DEF role_reset
<1>5. ASSUME NEW h \in Host, role_race(h) \/ ArmFails(h) \/ InvokeFails(h) \/ ReportLost(h)
      PROVE  UNCHANGED << tables, rounds, rnd, serve >>
  BY <1>5 DEF role_race, Pick, Arm, Pass, Abort, Load, Fire, Persist, Report, ArmFails,
              InvokeFails, ReportLost
<1>6. ASSUME UNCHANGED << tables, rounds, rnd, serve >> PROVE Rows'
  BY <1>6
<1> QED BY <1>0, <1>1, <1>2, <1>3, <1>4, <1>5, <1>6 DEF CrossNext, role_serve

\* The facts every later proof rests on hold throughout.
THEOREM BasicsHold == CrossSpec => []Basics
<1>1. CrossInit => Basics
  BY RoundNat DEF CrossInit, Basics, Shape, Numbered, Rows, Place
<1>2. Basics /\ [CrossNext]_crossVars => Basics'
  <2>1. ASSUME Basics, UNCHANGED crossVars PROVE Basics'
    BY <2>1 DEF Basics, Shape, Numbered, Rows, crossVars, store, threads, tally, coordinator,
                racers, bounds
  <2> QED BY <2>1, ShapeStep, NumberedStep, RowsStep DEF Basics
<1> QED BY <1>1, <1>2, PTL DEF CrossSpec

-----------------------------------------------------------------------------
(* The gate: whoever fired, or is about to, in a gated round holds its claim. *)

ClaimedOnce ==
  \A r \in Round, g, h \in Host : {<< r, g >>, << r, h >>} \subseteq claimed => g = h

Busy(h, r) == at[h] = r /\ pc[h] \in {"fire", "persist"}

FiredIsClaimed ==
  \A r \in Round, h \in Host :
    arm[r] = "gate" /\ (<< r, h >> \in effects \/ Busy(h, r)) => << r, h >> \in claimed

GateInv == ClaimedOnce /\ FiredIsClaimed

\* No step gives a claim to two hosts, or lets one fire without.
LEMMA GateStep == ASSUME Basics, GateInv, CrossNext PROVE GateInv'
<1> USE RoundNat DEF Basics, Shape, Numbered, GateInv, ClaimedOnce, FiredIsClaimed, Busy
<1> USE DEF store, threads, tally, coordinator, racers, bounds
<1>0. CASE StartServe
  BY <1>0 DEF StartServe
<1>1. CASE Dropped \/ TimedOut \/ WriteMatrix \/ Release \/ CountFires \/ CloseRound
  BY <1>1 DEF Dropped, TimedOut, WriteMatrix, Release, CountFires, CloseRound
<1>2. CASE OpenRound
  BY <1>2 DEF OpenRound
<1>3. CASE role_reset
  BY <1>3 DEF role_reset
<1>4. ASSUME NEW h \in Host, Pick(h) \/ Arm(h) \/ ArmFails(h) PROVE GateInv'
  BY <1>4 DEF Pick, Arm, ArmFails, Goto
<1>5. ASSUME NEW h \in Host, Pass(h) \/ Abort(h) PROVE GateInv'
  BY <1>5 DEF Pass, Abort, Goto
<1>6. ASSUME NEW h \in Host, Load(h) PROVE GateInv'
  <2> DEFINE r == at[h]
  <2>1. r \in Round /\ arm[r] \in {"stock", "gate"}
    BY <1>6 DEF Load
  <2>2. CASE UNCHANGED claimed
    BY <1>6, <2>1, <2>2 DEF Load, Goto
  <2>3. CASE claimed' = claimed \cup {<< r, h >>} /\ \A g \in Host : << r, g >> \notin claimed
    BY <1>6, <2>1, <2>3 DEF Load, Goto
  <2> QED BY <1>6, <2>2, <2>3 DEF Load
<1>7. ASSUME NEW h \in Host, Fire(h) \/ Persist(h) \/ InvokeFails(h) PROVE GateInv'
  BY <1>7 DEF Fire, Persist, InvokeFails, Goto
<1>8. ASSUME NEW h \in Host, Report(h) \/ ReportLost(h) PROVE GateInv'
  BY <1>8 DEF Report, ReportLost, Goto
<1> QED BY <1>0, <1>1, <1>2, <1>3, <1>4, <1>5, <1>6, <1>7, <1>8
         DEF CrossNext, role_serve, role_race

\* In a gated round at most one host fires.
THEOREM GatedFiresOnceHolds == CrossSpec => []GatedFiresOnce
<1>1. CrossInit => GateInv
  BY DEF CrossInit, GateInv, ClaimedOnce, FiredIsClaimed, Busy
<1>2. Basics /\ GateInv /\ [CrossNext]_crossVars => GateInv'
  <2>1. ASSUME GateInv, UNCHANGED crossVars PROVE GateInv'
    BY <2>1 DEF GateInv, ClaimedOnce, FiredIsClaimed, Busy, crossVars, store, threads, racers
  <2> QED BY <2>1, GateStep
<1>3. GateInv => GatedFiresOnce
  BY DEF GateInv, ClaimedOnce, FiredIsClaimed, GatedFiresOnce
<1> QED BY <1>1, <1>2, <1>3, BasicsHold, PTL DEF CrossSpec

-----------------------------------------------------------------------------
(* The count: a host whose result is in does not race its round again.     *)

\* h will not take up round r, or not again.
Seen(h, r) == << r, h >> \in ready \/ rounds[r] = "none"

RacedIsSeen ==
  \A r \in Round, h \in Host :
    at[h] = r /\ pc[h] \notin {"pick", "arm"} => Seen(h, r)

ResultIsLast ==
  \A r \in Round, h \in Host :
    << r, h >> \in results => Seen(h, r) /\ (at[h] = r => pc[h] = "pick")

ResultInv == RacedIsSeen /\ ResultIsLast

\* Nobody is at a counted round, and what was fired there was counted.
CountedIsOver ==
  \A r \in Round : r \in counted =>
    /\ \A h \in Host : Seen(h, r) /\ (at[h] = r => pc[h] = "pick")
    /\ \A h \in Host : << r, h >> \in effects => << r, h >> \in fired_by

AtMostTwo == \A g, h, k \in Host : g = h \/ h = k \/ g = k

\* A host whose result is in does not take up its round again.
LEMMA ResultStep == ASSUME Basics, ResultInv, CrossNext PROVE ResultInv'
<1> USE RoundNat DEF Basics, Shape, Numbered, Rows, ResultInv, RacedIsSeen, ResultIsLast, Seen
<1> USE DEF store, threads, tally, coordinator, racers, bounds
<1>0. CASE StartServe
  BY <1>0 DEF StartServe
<1>1. CASE Dropped \/ TimedOut \/ WriteMatrix \/ CountFires
  BY <1>1 DEF Dropped, TimedOut, WriteMatrix, CountFires
<1>2. CASE OpenRound
  <2>1. UNCHANGED << at, pc, ready, results >> /\ \A r \in Round : r <= rnd => rounds'[r] = rounds[r]
    BY <1>2 DEF OpenRound
  <2> QED BY <2>1, AtNat
<1>3. CASE Release \/ CloseRound
  <2>1. UNCHANGED << at, pc, ready, results >>
    BY <1>3 DEF Release, CloseRound
  <2>2. \A r \in Round : rounds[r] = "none" => rounds'[r] = "none"
    BY <1>3 DEF Release, CloseRound
  <2>3. \A r \in Round : rounds[r] # "none" => rounds'[r] # "none"
    BY <1>3 DEF Release, CloseRound
  <2> QED BY <2>1, <2>2
<1>4. CASE role_reset
  BY <1>4 DEF role_reset
<1>5. ASSUME NEW h \in Host, Pick(h) PROVE ResultInv'
  BY <1>5 DEF Pick, Undone, Goto
<1>6. ASSUME NEW h \in Host, Arm(h) PROVE ResultInv'
  BY <1>6 DEF Arm, Goto
<1>7. ASSUME NEW h \in Host, ArmFails(h) PROVE ResultInv'
  BY <1>7 DEF ArmFails, Goto
<1>8. ASSUME NEW h \in Host, Pass(h) \/ Abort(h) \/ Load(h) PROVE ResultInv'
  <2>1. UNCHANGED << rounds, ready, results, at >>
    BY <1>8 DEF Pass, Abort, Load
  <2>2. \A g \in Host : g # h => pc'[g] = pc[g]
    BY <1>8 DEF Pass, Abort, Load, Goto
  <2>3. pc[h] \notin {"pick", "arm"}
        \/ UNCHANGED pc
    BY <1>8 DEF Pass, Abort, Load
  <2> QED BY <2>1, <2>2, <2>3
<1>9. ASSUME NEW h \in Host, Fire(h) \/ Persist(h) \/ InvokeFails(h) PROVE ResultInv'
  BY <1>9 DEF Fire, Persist, InvokeFails, Goto
<1>10. ASSUME NEW h \in Host, Report(h) \/ ReportLost(h) PROVE ResultInv'
  BY <1>10 DEF Report, ReportLost, Goto
<1> QED BY <1>0, <1>1, <1>2, <1>3, <1>4, <1>5, <1>6, <1>7, <1>8, <1>9, <1>10
         DEF CrossNext, role_serve, role_race

\* With two racers nobody is left at a round that is counted.
LEMMA CountStep ==
  ASSUME AtMostTwo, Basics, ResultInv, CountedIsOver, CrossNext PROVE CountedIsOver'
<1> USE RoundNat DEF Basics, Shape, Numbered, Rows, CountedIsOver, Seen
<1> USE DEF store, threads, tally, coordinator, racers, bounds
<1>0. CASE StartServe
  BY <1>0 DEF StartServe
<1>1. CASE Dropped \/ TimedOut \/ WriteMatrix
  BY <1>1 DEF Dropped, TimedOut, WriteMatrix
<1>2. CASE OpenRound
  <2>1. UNCHANGED << at, pc, ready, effects, tally >>
        /\ \A r \in Round : r <= rnd => rounds'[r] = rounds[r]
    BY <1>2 DEF OpenRound
  <2> QED BY <2>1
<1>3. CASE Release \/ CloseRound
  <2>1. UNCHANGED << at, pc, ready, effects, tally >>
    BY <1>3 DEF Release, CloseRound
  <2>2. \A r \in Round : rounds[r] = "none" => rounds'[r] = "none"
    BY <1>3 DEF Release, CloseRound
  <2> QED BY <2>1, <2>2
<1>4. CASE CountFires
  <2>1. UNCHANGED << at, pc, ready, effects, rounds >> /\ counted' = counted \cup {rnd}
    BY <1>4 DEF CountFires
  <2>2. \A r \in Round, h \in Host :
          << r, h >> \in effects /\ (<< r, h >> \in fired_by \/ r = rnd) => << r, h >> \in fired_by'
    BY <1>4 DEF CountFires
  <2>3. \A h \in Host : << rnd, h >> \in results
    BY <1>4 DEF CountFires, Two, AtMostTwo
  <2>4. rnd \in Round => \A h \in Host : Seen(h, rnd) /\ (at[h] = rnd => pc[h] = "pick")
    BY <2>3 DEF ResultInv, ResultIsLast
  <2> QED BY <2>1, <2>2, <2>4
<1>5. CASE role_reset
  BY <1>5 DEF role_reset
<1>6. ASSUME NEW h \in Host, Pick(h) PROVE CountedIsOver'
  BY <1>6 DEF Pick, Undone, Goto
<1>7. ASSUME NEW h \in Host, Arm(h) \/ ArmFails(h) PROVE CountedIsOver'
  BY <1>7 DEF Arm, ArmFails, Goto
<1>8. ASSUME NEW h \in Host, Pass(h) \/ Abort(h) \/ Load(h) PROVE CountedIsOver'
  BY <1>8 DEF Pass, Abort, Load, Goto
<1>9. ASSUME NEW h \in Host, Fire(h) PROVE CountedIsOver'
  BY <1>9 DEF Fire, Goto
<1>10. ASSUME NEW h \in Host, Persist(h) \/ InvokeFails(h) \/ Report(h) \/ ReportLost(h)
       PROVE  CountedIsOver'
  BY <1>10 DEF Persist, InvokeFails, Report, ReportLost, Goto
<1> QED BY <1>0, <1>1, <1>2, <1>3, <1>4, <1>5, <1>6, <1>7, <1>8, <1>9, <1>10
         DEF CrossNext, role_serve, role_race

\* With two racers, the fires the coordinator has counted are all there will be.
THEOREM CountIsFinalHolds == CrossSpec => []CountIsFinal
<1> DEFINE Final == AtMostTwo => CountedIsOver
<1>1. CrossInit => ResultInv /\ Final
  BY RoundNat DEF CrossInit, ResultInv, RacedIsSeen, ResultIsLast, CountedIsOver, Seen
<1>2. Basics /\ ResultInv /\ Final /\ [CrossNext]_crossVars => ResultInv' /\ Final'
  <2>1. ASSUME ResultInv, UNCHANGED crossVars PROVE ResultInv'
    BY <2>1 DEF ResultInv, RacedIsSeen, ResultIsLast, Seen, crossVars, store, racers
  <2>2. ASSUME CountedIsOver, UNCHANGED crossVars PROVE CountedIsOver'
    BY <2>2 DEF CountedIsOver, Seen, crossVars, store, racers, coordinator, tally
  <2> QED BY <2>1, <2>2, ResultStep, CountStep DEF AtMostTwo
<1>3. Basics /\ Final => CountIsFinal
  <2>1. ASSUME Basics, CountedIsOver, NEW e \in effects, e[1] \in counted PROVE e \in fired_by
    <3>1. PICK r \in Round, h \in Host : e = << r, h >>
      BY <2>1 DEF Basics, Shape
    <3> QED BY <2>1, <3>1 DEF CountedIsOver
  <2> QED BY <2>1 DEF CountIsFinal, AtMostTwo
<1> QED BY <1>1, <1>2, <1>3, BasicsHold, PTL DEF CrossSpec

-----------------------------------------------------------------------------
(* The abandoned round: while no racer fails, whoever is ready in an open  *)
(* round waits there, and nobody is beyond an open round.                  *)

HeldThere ==
  \A q \in Round, h \in Host :
    rounds[q] = "open" /\ << q, h >> \in ready => at[h] = q /\ pc[h] = "wait"

NobodyBeyond ==
  \A q, r \in Round, h \in Host :
    rounds[q] = "open" /\ q < r => << r, h >> \notin ready /\ ~(at[h] = r /\ pc[h] # "pick")

NoneReleasedBeyond ==
  \A q, r \in Round : rounds[q] = "open" /\ q < r => rounds[r] \in {"none", "open"}

Blocked == faults = 0 => HeldThere /\ NobodyBeyond /\ NoneReleasedBeyond

\* Without a failing racer no step leads past an open round.
LEMMA BlockedStep == ASSUME Basics, Blocked, CrossNext, faults' = 0 PROVE Blocked'
<1> USE RoundNat DEF Shape, Rows, Basics, Blocked, HeldThere, NobodyBeyond, NoneReleasedBeyond
<1> USE DEF store, threads, tally, coordinator, racers, bounds
<1>0. CASE StartServe
  BY <1>0 DEF StartServe
<1>1. CASE Dropped \/ TimedOut \/ WriteMatrix \/ CountFires
  BY <1>1 DEF Dropped, TimedOut, WriteMatrix, CountFires
<1>2. CASE OpenRound
  <2>1. UNCHANGED << at, pc, ready, faults >>
    BY <1>2 DEF OpenRound
  <2>2. \A r \in Round : rounds'[r] = rounds[r] \/ (r = rnd + 1 /\ rounds'[r] = "open")
    BY <1>2 DEF OpenRound
  <2>3. \A h \in Host : at[h] <= rnd /\ at[h] \in Nat
    BY AtNat DEF Numbered
  <2>4. \A r \in Round, h \in Host : << r, h >> \in ready => r <= rnd
    BY DEF Numbered
  <2>5. \A r \in Round : rounds[r] # "none" => r <= rnd
    BY DEF Numbered
  <2>6. ASSUME NEW r \in Round PROVE r <= rnd => r # rnd + 1
    BY <2>6
  <2>7. HeldThere'
    BY <2>1, <2>2, <2>4, <2>6
  <2>8. NobodyBeyond'
    BY <2>1, <2>2, <2>3, <2>4
  <2>9. NoneReleasedBeyond'
    BY <2>1, <2>2, <2>5
  <2> QED BY <2>7, <2>8, <2>9
<1>3. CASE Release
  <2>1. UNCHANGED << at, pc, ready, faults >>
    BY <1>3 DEF Release
  <2>2. \A r \in Round : rounds'[r] = IF r = rnd THEN "released" ELSE rounds[r]
    BY <1>3 DEF Release
  <2>3. PICK h \in Host : << rnd, h >> \in ready
    BY <1>3 DEF Release, Two
  <2>4. \A q \in Round : rounds[q] = "open" => ~(q < rnd)
    BY <2>1, <2>3
  <2> QED BY <2>1, <2>2, <2>4
<1>4. CASE CloseRound
  <2>1. UNCHANGED << at, pc, ready, faults >>
    BY <1>4 DEF CloseRound
  <2>2. \A r \in Round : rounds'[r] = IF r = rnd THEN "done" ELSE rounds[r]
    BY <1>4 DEF CloseRound
  <2>3. rnd \in Round => rounds[rnd] = "released"
    BY <1>4 DEF CloseRound
  <2> QED BY <2>1, <2>2, <2>3
<1>5. CASE role_reset
  BY <1>5 DEF role_reset
<1>6. ASSUME NEW h \in Host, Pick(h) PROVE Blocked'
  <2>1. PICK r \in Round : /\ Undone(h, r) /\ \A q \in 1 .. r - 1 : ~Undone(h, q)
                           /\ at' = [at EXCEPT ![h] = r]
    BY <1>6 DEF Pick
  <2>2. UNCHANGED << rounds, ready, faults >> /\ pc[h] = "pick" /\ pc' = [pc EXCEPT ![h] = "arm"]
    BY <1>6 DEF Pick, Goto
  <2>3. ASSUME NEW q \in Round, rounds[q] = "open" PROVE << q, h >> \notin ready
    BY <2>2, <2>3
  <2>4. ASSUME NEW q \in Round, rounds[q] = "open" PROVE ~(q < r)
    <3>1. Undone(h, q)
      BY <2>3, <2>4 DEF Undone
    <3>2. q \in Nat /\ r \in Nat /\ q >= 1
      OBVIOUS
    <3>3. q \notin 1 .. r - 1
      BY <2>1, <3>1
    <3> QED BY <3>2, <3>3
  <2> QED BY <2>1, <2>2, <2>3, <2>4
<1>7. ASSUME NEW h \in Host, Arm(h) PROVE Blocked'
  BY <1>7 DEF Arm, Goto
<1>8. ASSUME NEW h \in Host, Pass(h) \/ Abort(h) PROVE Blocked'
  <2>1. UNCHANGED << rounds, ready, at, faults >> /\ pc[h] = "wait"
    BY <1>8 DEF Pass, Abort
  <2>2. at[h] \in Round /\ rounds[at[h]] # "open"
    BY <1>8, <2>1 DEF Pass, Abort
  <2>3. pc' \in [Host -> Place] /\ \A g \in Host : g # h => pc'[g] = pc[g]
    BY <1>8 DEF Pass, Abort, Goto, Place
  <2> QED BY <2>1, <2>2, <2>3
<1>9. ASSUME NEW h \in Host, Load(h) \/ Fire(h) \/ Persist(h) \/ Report(h) PROVE Blocked'
  <2>1. UNCHANGED << rounds, ready, at, faults >> /\ pc[h] \notin {"pick", "wait"}
    BY <1>9 DEF Load, Fire, Persist, Report
  <2>2. \A g \in Host : g # h => pc'[g] = pc[g]
    BY <1>9 DEF Load, Fire, Persist, Report, Goto
  <2> QED BY <2>1, <2>2
<1>10. ASSUME NEW h \in Host PROVE ~ArmFails(h) /\ ~InvokeFails(h) /\ ~ReportLost(h)
  BY DEF ArmFails, InvokeFails, ReportLost
<1> QED BY <1>0, <1>1, <1>2, <1>3, <1>4, <1>5, <1>6, <1>7, <1>8, <1>9, <1>10
         DEF CrossNext, role_serve, role_race

\* Until a racer fails, a round that was abandoned open holds every racer.
THEOREM AbandonedBlocksHolds == CrossSpec => []AbandonedBlocks
<1>1. CrossInit => Blocked
  BY DEF CrossInit, Blocked, HeldThere, NobodyBeyond, NoneReleasedBeyond
<1>2. Basics /\ Blocked /\ [CrossNext]_crossVars => Blocked'
  <2>1. ASSUME Blocked, UNCHANGED crossVars PROVE Blocked'
    BY <2>1 DEF Blocked, HeldThere, NobodyBeyond, NoneReleasedBeyond, crossVars, store,
                racers, bounds
  <2>2. CASE faults' # 0
    BY <2>2 DEF Blocked
  <2> QED BY <2>1, <2>2, BlockedStep
<1>3. Basics /\ Blocked => AbandonedBlocks
  BY RoundNat DEF AbandonedBlocks, Blocked, NoneReleasedBeyond, Round
<1> QED BY <1>1, <1>2, <1>3, BasicsHold, PTL DEF CrossSpec
-----------------------------------------------------------------------------
(* The types of everything, the numbers of the rounds among them.  A serve  *)
(* announces at most one round for each arm of its schedule, so the rounds  *)
(* of s serves are numbered up to s * Len(Schedule).                        *)

\* What this serve has still to announce fits under the bound of its serves.
Budget ==
  /\ rep \in 0 .. Len(Schedule) /\ serves \in 0 .. MaxServes /\ rnd \in Nat
  /\ serves = 0 => rnd = 0 /\ ~Serving
  /\ serves # 0 => rnd + (Len(Schedule) - rep) <= serves * Len(Schedule)

\* The types that are not in Shape.
Rest ==
  /\ tables \in BOOLEAN
  /\ parked \in SUBSET Round
  /\ serve \in {"idle", "park", "arrivals", "results", "done", "receipt", "failed"}
  /\ counted \in SUBSET Round /\ fired_by \in SUBSET (Round \X Host)
  /\ fresh \in BOOLEAN
  /\ faults \in Nat /\ timeouts \in Nat /\ faults + timeouts <= MaxFaults

\* Fewer serves announce fewer rounds.
LEMMA FewerRounds ==
  ASSUME NEW s \in Nat, s <= MaxServes
  PROVE  /\ Len(Schedule) \in Nat /\ MaxServes * Len(Schedule) \in Nat
         /\ s * Len(Schedule) \in Nat
         /\ s * Len(Schedule) <= MaxServes * Len(Schedule)
         /\ (s + 1) * Len(Schedule) = s * Len(Schedule) + Len(Schedule)
<1>1. Len(Schedule) \in Nat /\ MaxServes \in Nat
  BY CrossHostAssumption
<1>2. \A l \in Nat, m \in Nat : s <= m => s * l <= m * l /\ (s + 1) * l = s * l + l
  OBVIOUS
<1>3. \A l \in Nat, m \in Nat : m * l \in Nat /\ s * l \in Nat
  OBVIOUS
<1> HIDE CrossHostAssumption
<1> QED BY <1>1, <1>2, <1>3

\* No serve announces more rounds than its schedule has arms.
LEMMA BudgetStep == ASSUME Budget, CrossNext PROVE Budget'
<1> DEFINE L == Len(Schedule)
           Bound == serves * Len(Schedule)
<1>0. L \in Nat /\ Bound \in Nat /\ (serves + 1) * L = Bound + L
  BY FewerRounds DEF Budget
<1>1. CASE StartServe
  <2>1. rep' = 0 /\ rnd' = rnd /\ serves' = serves + 1 /\ serves' \in 0 .. MaxServes
    BY <1>1, CrossHostAssumption DEF StartServe, Budget, coordinator
  <2>2. rnd <= Bound
    BY <1>0 DEF Budget
  <2>3. rnd + L <= (serves + 1) * L
    <3> HIDE DEF L, Bound
    <3> QED BY <1>0, <2>2 DEF Budget
  <2> QED BY <1>0, <2>1, <2>3 DEF Budget
<1>2. CASE OpenRound
  <2>1. serve = "park" /\ rep < L /\ rnd' = rnd + 1 /\ rep' = rep + 1 /\ serves' = serves
    BY <1>2 DEF OpenRound, bounds
  <2>2. serves # 0
    BY <2>1 DEF Budget, Serving
  <2>3. rnd + 1 + (L - (rep + 1)) <= Bound
    <3>1. rnd + (L - rep) <= Bound
      BY <2>2 DEF Budget
    <3> HIDE DEF L, Bound
    <3> QED BY <1>0, <3>1 DEF Budget
  <2>4. rep + 1 \in 0 .. L /\ rnd + 1 \in Nat
    BY <1>0, <2>1 DEF Budget
  <2> QED BY <2>1, <2>2, <2>3, <2>4 DEF Budget
<1>3. CASE Dropped \/ Release \/ CountFires \/ CloseRound \/ WriteMatrix \/ TimedOut
  <2>1. UNCHANGED << rnd, rep, serves >> /\ Serving
    BY <1>3 DEF Dropped, Release, CountFires, CloseRound, WriteMatrix, TimedOut, bounds, Serving
  <2> QED BY <2>1 DEF Budget
<1>4. ASSUME UNCHANGED << coordinator, serves >> PROVE Budget'
  BY <1>4 DEF Budget, Serving, coordinator
<1>5. CASE role_reset
  BY <1>4, <1>5 DEF role_reset
<1>6. ASSUME NEW h \in Host, role_race(h) \/ ArmFails(h) \/ InvokeFails(h) \/ ReportLost(h)
      PROVE  Budget'
  BY <1>4, <1>6 DEF role_race, Pick, Arm, Pass, Abort, Load, Fire, Persist, Report, ArmFails,
                    InvokeFails, ReportLost, bounds
<1> QED BY <1>1, <1>2, <1>3, <1>5, <1>6 DEF CrossNext, role_serve

\* The round to be announced is one of the campaign.
LEMMA NextRound == ASSUME Budget, serve = "park", rep < Len(Schedule) PROVE rnd + 1 \in Round
<1>1. serves # 0 /\ rep \in Nat /\ rnd \in Nat /\ serves \in Nat /\ serves <= MaxServes
  BY DEF Budget, Serving
<1>2. rnd + (Len(Schedule) - rep) <= serves * Len(Schedule)
  BY <1>1 DEF Budget
<1>3. /\ Len(Schedule) \in Nat /\ MaxServes * Len(Schedule) \in Nat
      /\ serves * Len(Schedule) \in Nat
      /\ serves * Len(Schedule) <= MaxServes * Len(Schedule)
  BY <1>1, FewerRounds
<1> DEFINE L == Len(Schedule)
           Bound == serves * Len(Schedule)
           All == MaxServes * Len(Schedule)
<1>4. rep < L /\ rnd + (L - rep) <= Bound /\ L \in Nat /\ Bound \in Nat /\ All \in Nat /\ Bound <= All
  BY <1>2, <1>3
<1>5. rnd + 1 <= All
  <2> HIDE DEF L, Bound, All
  <2> QED BY <1>1, <1>4
<1> QED BY <1>1, <1>3, <1>5 DEF Round

\* The remaining types.
LEMMA RestStep == ASSUME Basics, Budget, Rest, CrossNext PROVE Rest'
<1> USE DEF store, threads, tally, coordinator, racers, bounds, Rest
<1>0. CASE StartServe
  BY <1>0 DEF StartServe
<1>1. CASE Dropped \/ Release \/ CloseRound \/ WriteMatrix
  BY <1>1 DEF Dropped, Release, CloseRound, WriteMatrix
<1>m. MaxFaults \in Nat
  BY CrossHostAssumption
<1>2. CASE TimedOut
  <2>1. UNCHANGED << tables, parked, counted, fired_by, faults >> /\ fresh' = FALSE /\ serve' = "failed"
    BY <1>2 DEF TimedOut
  <2>2. timeouts' = timeouts + 1 /\ faults + timeouts < MaxFaults
    BY <1>2 DEF TimedOut
  <2>3. timeouts' \in Nat /\ faults + timeouts' <= MaxFaults
    BY <2>2, <1>m
  <2> QED BY <2>1, <2>3
<1>3. CASE OpenRound
  <2>1. rnd + 1 \in Round
    BY <1>3, NextRound DEF OpenRound
  <2> QED BY <1>3, <2>1 DEF OpenRound
<1>4. CASE CountFires
  <2>1. rnd \in Round
    <3>1. PICK h \in Host : << rnd, h >> \in results
      BY <1>4 DEF CountFires, Two
    <3> QED BY <3>1 DEF Basics, Shape
  <2>2. {e \in effects : e[1] = rnd} \subseteq Round \X Host
    BY DEF Basics, Shape
  <2> QED BY <1>4, <2>1, <2>2 DEF CountFires
<1>5. CASE role_reset
  BY <1>5 DEF role_reset
<1>6. ASSUME NEW h \in Host, role_race(h) PROVE Rest'
  <2>1. UNCHANGED << tables, serve, counted, fired_by, fresh, faults, timeouts >> /\ parked' \subseteq parked
    BY <1>6 DEF role_race, Pick, Arm, Pass, Abort, Load, Fire, Persist, Report
  <2> QED BY <2>1
<1>7. ASSUME NEW h \in Host, ArmFails(h) \/ InvokeFails(h) \/ ReportLost(h) PROVE Rest'
  <2>1. UNCHANGED << tables, parked, serve, counted, fired_by, timeouts >> /\ fresh' = FALSE
    BY <1>7 DEF ArmFails, InvokeFails, ReportLost
  <2>2. faults' = faults + 1 /\ faults + timeouts < MaxFaults
    BY <1>7 DEF ArmFails, InvokeFails, ReportLost
  <2>3. faults' \in Nat /\ faults' + timeouts <= MaxFaults
    BY <2>2, <1>m
  <2> QED BY <2>1, <2>3
<1> QED BY <1>0, <1>1, <1>2, <1>3, <1>4, <1>5, <1>6, <1>7 DEF CrossNext, role_serve

\* The four tables, the coordinator and the racers keep their shape; in
\* particular no serve announces a round beyond those of its schedule
\* (probe 174, role_serve), and every row is of a round and a host.
THEOREM CrossTypeCorrect == CrossSpec => []CrossTypeOK
<1>1. CrossInit => Budget /\ Rest
  <2>1. Len(Schedule) \in Nat /\ MaxServes \in Nat /\ MaxFaults \in Nat
    BY CrossHostAssumption
  <2>2. CrossInit => Budget
    BY <2>1 DEF CrossInit, Budget, Serving
  <2>3. CrossInit => Rest
    <3> SUFFICES ASSUME CrossInit PROVE Rest
      OBVIOUS
    <3>1. faults \in Nat /\ timeouts \in Nat /\ faults + timeouts <= MaxFaults
      BY <2>1 DEF CrossInit
    <3>2. tables \in BOOLEAN /\ fresh \in BOOLEAN
      BY Zenon DEF CrossInit
    <3>3. parked = {} /\ counted = {} /\ fired_by = {} /\ serve = "idle"
      BY DEF CrossInit
    <3> QED BY <3>1, <3>2, <3>3 DEF Rest
  <2> QED BY <2>2, <2>3
<1>2. Basics /\ Budget /\ Rest /\ [CrossNext]_crossVars => Budget' /\ Rest'
  <2>1. ASSUME Budget, Rest, UNCHANGED crossVars PROVE Budget' /\ Rest'
    BY <2>1 DEF Budget, Rest, Serving, crossVars, store, threads, tally, coordinator, racers, bounds
  <2> QED BY <2>1, BudgetStep, RestStep
<1>3. Basics /\ Budget /\ Rest => CrossTypeOK
  <2> SUFFICES ASSUME Basics, Budget, Rest PROVE CrossTypeOK
    OBVIOUS
  <2>1. rnd \in 0 .. MaxServes * Len(Schedule)
    <3>1. /\ Len(Schedule) \in Nat /\ MaxServes * Len(Schedule) \in Nat
          /\ serves * Len(Schedule) \in Nat
          /\ serves * Len(Schedule) <= MaxServes * Len(Schedule)
      BY FewerRounds DEF Budget
    <3> DEFINE L == Len(Schedule)
               Bound == serves * Len(Schedule)
               All == MaxServes * Len(Schedule)
    <3>2. rnd \in Nat /\ (rnd = 0 \/ rnd + (L - rep) <= Bound) /\ rep \in 0 .. L
      BY DEF Budget
    <3>3. L \in Nat /\ Bound \in Nat /\ All \in Nat /\ Bound <= All
      BY <3>1
    <3>4. rnd <= All
      <4> HIDE DEF L, Bound, All
      <4> QED BY <3>2, <3>3
    <3> QED BY <3>1, <3>2, <3>4
  <2>2. {faults, timeouts, faults + timeouts} \subseteq 0 .. MaxFaults
    BY CrossHostAssumption DEF Rest
  <2> QED BY <2>1, <2>2 DEF CrossTypeOK, Basics, Shape, Budget, Rest, Place
<1> QED BY <1>1, <1>2, <1>3, BasicsHold, PTL DEF CrossSpec
=============================================================================
