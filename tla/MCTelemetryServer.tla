-------------------------- MODULE MCTelemetryServer --------------------------
(* Instances of TelemetryServer for TLC. *)
EXTENDS TelemetryServer, TLC

CONSTANTS w1, w2, c1, c2, c3, d1

OneWorker == {w1}
TwoWorkers == {w1, w2}
TwoConns == {c1, c2}
ThreeConns == {c1, c2, c3}
OneDevice == {d1}

(* All connections carry readings of one device, so that they compete.       *)
SameDevice == [c \in Conns |-> d1]

(* The workers of the pool and the connections are interchangeable.          *)
Symmetry == Permutations(Workers) \cup Permutations(Conns)
=============================================================================
