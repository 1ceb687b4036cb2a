--------------------------- MODULE MCUpstreamCall ---------------------------
(* UpstreamCall on a service, another owner's service of the same slug, and *)
(* one of another slug.                                                     *)
EXTENDS UpstreamCall

CONSTANTS mine, theirs, other, x, y

MCSlugOf == [s \in Services |-> IF s = other THEN y ELSE x]

MCOperations ==
  {[service |-> mine, cursor |-> TRUE, write |-> TRUE, body |-> TRUE],
   [service |-> theirs, cursor |-> FALSE, write |-> FALSE, body |-> TRUE],
   [service |-> other, cursor |-> FALSE, write |-> TRUE, body |-> FALSE]}

=============================================================================
