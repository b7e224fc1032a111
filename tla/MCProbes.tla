------------------------------ MODULE MCProbes ------------------------------
(***************************************************************************)
(* Model checking of the rig of the local probes and of the campaign over  *)
(* several hosts.  They share nothing; a behaviour is one of one of them,  *)
(* and the other stays where it starts.                                    *)
(***************************************************************************)
EXTENDS ProbeRig, CrossHost

VARIABLE half   \* the system this behaviour is of

mcVars == << half, rigVars, crossVars >>

MCExperiments == Range(AllCells)

MCSchedule == << "stock", "gate" >>

MCInit ==
  /\ RigInit /\ CrossInit
  /\ half \in {"rig", "cross"}
  /\ half = "cross" => cell = Cell133

InRig(A) == half = "rig" /\ A /\ UNCHANGED << half, crossVars >>

InCross(A) == half = "cross" /\ A /\ UNCHANGED << half, rigVars >>

MCNext == InRig(RigNext) \/ InCross(CrossNext)

MCSpec == MCInit /\ [][MCNext]_mcVars

\* The fairness of FairRigSpec and FairCrossSpec.
FairMCSpec ==
  /\ MCSpec
  /\ WF_mcVars(InRig(ParentStep /\ ~ReadBlocks))
  /\ WF_mcVars(InRig(\E p \in Child : ChildStep(p)))
  /\ WF_mcVars(InCross(role_serve))
  /\ \A h \in Host : WF_mcVars(InCross(role_race(h)))

\* RigEnds, of the behaviours of the rig.
ParentEnds == half = "rig" => RigEnds
=============================================================================
