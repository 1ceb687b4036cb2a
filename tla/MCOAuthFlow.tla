----------------------------- MODULE MCOAuthFlow -----------------------------
(***************************************************************************)
(* Model checking of OAuthFlow.  Handlers and scopes are interchangeable:  *)
(* no definition singles one out.                                          *)
(***************************************************************************)
EXTENDS OAuthFlow, TLC

CONSTANTS h1, h2, u1, mcp, other, nobody

MCHandlers == {h1, h2}
MCUsers == {u1}
MCScopes == {mcp, other}
Symmetric == Permutations(MCHandlers) \cup Permutations(MCScopes)
=============================================================================
