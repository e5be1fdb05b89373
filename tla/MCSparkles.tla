----------------------------- MODULE MCSparkles -----------------------------
(***************************************************************************)
(* The capture pipeline with two application threads: a worker, which only *)
(* records, flushes and exits, and a thread that may also finalize.        *)
(***************************************************************************)
EXTENDS SparklesProps

CONSTANTS main, worker

OneAndTwo  == [t \in App |-> IF t = main THEN 1 ELSE 2]
OneEach    == [t \in App |-> 1]
NoneAndTwo == [t \in App |-> IF t = main THEN 0 ELSE 2]
=============================================================================
