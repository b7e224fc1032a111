------------------------------- MODULE MCRig -------------------------------
(* The rig of the local probes alone. *)
EXTENDS ProbeRig

MCExperiments == Range(AllCells)
=============================================================================
