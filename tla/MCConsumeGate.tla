--------------------------- MODULE MCConsumeGate ---------------------------
(* Two processes; two threads of the first share its saver instance.       *)
EXTENDS ConsumeGate

CONSTANTS s1, s2, w1, w2, w3

MCSaver == {s1, s2}
MCWorker == {w1, w2, w3}
MCSaverOf == [w \in MCWorker |-> IF w = w3 THEN s2 ELSE s1]

MCPair == {w1, w3}
MCPairSaverOf == [w \in MCPair |-> IF w = w3 THEN s2 ELSE s1]
=============================================================================
