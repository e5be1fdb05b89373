------------------------------ MODULE MCReader ------------------------------
(* Two threads that flush twice, of which one may change its name; two      *)
(* thread ids for them, of which one is an ord id too.                      *)
EXTENDS Reader

CONSTANTS main, worker

MCPages   == [t \in Thread |-> 2]
MCRenames == [t \in Thread |-> IF t = main THEN 1 ELSE 0]
=============================================================================
