--------------------------- MODULE MCResumeDriver ---------------------------
(* Two hosts on one Core drive a run of two tasks; the second is gated.    *)
EXTENDS ResumeDriver

CONSTANTS c1, va, vb, h1, h2

MCCheckpoint == {c1}
MCValue == {va, vb}
MCHosts == {h1, h2}
MCOneHost == {h1}
=============================================================================
