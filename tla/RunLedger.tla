------------------------------ MODULE RunLedger ------------------------------
(***************************************************************************)
(* What a tool run promises about its account, whatever the calls do: the  *)
(* three counters only grow and never pass the tool's ceilings, the audit  *)
(* trail is only ever extended, and once the run has ended its account is  *)
(* closed for good.  ToolRun implements it.                                *)
(***************************************************************************)
EXTENDS Integers, Sequences

CONSTANTS MaxCalls, MaxBytes, MaxPages, NoLimit

VARIABLES calls, bytes, pages, audit, closed

account == <<calls, bytes, pages, audit>>

Affordable(limit, amount) == limit # NoLimit => amount <= limit

Init ==
  /\ calls = 0 /\ bytes = 0 /\ pages = 0
  /\ audit = <<>>
  /\ closed = FALSE

\* The trail grows at its end: what was delivered is never rewritten.
Extends(longer, shorter) ==
  /\ Len(shorter) <= Len(longer)
  /\ \A k \in 1..Len(shorter) : longer[k] = shorter[k]

Spend ==
  /\ ~closed
  /\ calls' >= calls /\ Affordable(MaxCalls, calls')
  /\ bytes' >= bytes /\ Affordable(MaxBytes, bytes')
  /\ pages' >= pages /\ Affordable(MaxPages, pages')
  /\ Extends(audit', audit)
  /\ UNCHANGED closed

Close ==
  /\ ~closed
  /\ closed' = TRUE
  /\ UNCHANGED account

Next == Spend \/ Close

Spec == Init /\ [][Next]_<<account, closed>>

=============================================================================
