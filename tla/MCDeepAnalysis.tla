--------------------------- MODULE MCDeepAnalysis ---------------------------
(***************************************************************************)
(* Instances of DeepAnalysis for TLC: one worker per queue, as the compose *)
(* file runs them, and up to three scans in the order spawnScans queues    *)
(* them.                                                                   *)
(***************************************************************************)
EXTENDS DeepAnalysis

CONSTANTS light, heavy

MCServes == [w \in {light, heavy} |-> IF w = light THEN "light" ELSE "heavy"]

\* An AI score and a URL sandbox run, on different workers.
TwoKinds == <<"ai", "sandbox">>
\* An AI score, an image and a URL: two scans share the light worker.
ThreeKinds == <<"ai", "qr", "sandbox">>
=============================================================================
