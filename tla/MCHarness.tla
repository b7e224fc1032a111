----------------------------- MODULE MCHarness -----------------------------
(***************************************************************************)
(* Model checking of the small systems around the core: the two recover    *)
(* functions, the savers and the conformance runner.  They share nothing;  *)
(* a behaviour is one of one of them, and the others stay where they       *)
(* start.                                                                  *)
(***************************************************************************)
EXTENDS RecoverLoop, SaverViews, Runner

VARIABLE part   \* the system this behaviour is of

CONSTANTS root, fork

MCBranch == {root, fork}

\* Two probes share a directory, one of which needs a variable to be set; the
\* other plans are refused.
MCEntry(d, needs) ==
  [id |-> d, dir |-> "pilot", requires |-> needs, gaps |-> FALSE, selfwrites |-> FALSE]

MCPlans ==
  { << MCEntry("121", TRUE), MCEntry("113", FALSE) >>,
    << MCEntry("113", FALSE), [MCEntry("147", FALSE) EXCEPT !.selfwrites = TRUE] >>,
    << [MCEntry("113", FALSE) EXCEPT !.gaps = TRUE] >> }

\* A volatile field, an empty object or one of another program before the
\* result, a result the probe refuses, and no object at all.
MCResult(violation, elapsed) == [violation |-> violation, elapsed |-> elapsed]

MCOutput ==
  { << MCResult(FALSE, 1) >>,
    << [x \in {} |-> 0], MCResult(FALSE, 2) >>,
    << [level |-> 0], MCResult(TRUE, 1) >>,
    << [skipped |-> TRUE] >>,
    << >> }

\* The callers of a saver are alike.
MCSymmetry == Permutations(Worker)

recoverVars == vars

mcVars == << part, recoverVars, saverVars, runnerVars >>

MCInit ==
  /\ part \in {"recover", "savers", "runner"}
  /\ Init /\ SaverInit /\ RunnerInit
  /\ part # "recover" => log = << >>
  /\ part # "savers" => kind = "stock"

InRecover(A) == part = "recover" /\ A /\ UNCHANGED << part, saverVars, runnerVars >>
InSavers(A) == part = "savers" /\ A /\ UNCHANGED << part, recoverVars, runnerVars >>
InRunner(A) == part = "runner" /\ A /\ UNCHANGED << part, recoverVars, saverVars >>

MCNext == InRecover(Next) \/ InSavers(SaverNext) \/ InRunner(RunnerNext)

MCSpec == MCInit /\ [][MCNext]_mcVars
=============================================================================
