------------------------------ MODULE MCToolRun ------------------------------
(* ToolRun on a plan of one or two services of different max_concurrency.  *)
EXTENDS ToolRun

CONSTANTS s1, s2

Concurrency == [s \in Services |-> IF s = s1 THEN 3 ELSE 1]

=============================================================================
