----------------------------- MODULE GrantLedger -----------------------------
(***************************************************************************)
(* What the authorization server promises about the grants of a client,    *)
(* whatever calls are under way: a code is minted only for a pair that a   *)
(* user approved, a family of tokens begins only on a code that is spent,  *)
(* a pair follows only one that a client held and that is revoked, a pair  *)
(* is handed out only within the lifetime of its family, and a token is    *)
(* revoked only when a client traded it or its family was already broken.  *)
(* Nothing else happens to a row, and none disappears.  OAuthFlow          *)
(* implements it.                                                          *)
(***************************************************************************)
EXTENDS Integers, Sequences

CONSTANTS Users, Scopes, CodeTTL, AccessTTL, RefreshTTL, FamilyTTL

VARIABLES now, consents, codes, tokens

grants == <<now, consents, codes, tokens>>

Init ==
  /\ now = 0
  /\ consents = {}
  /\ codes = <<>>
  /\ tokens = <<>>

Elapse ==
  /\ now' = now + 1
  /\ UNCHANGED <<consents, codes, tokens>>

\* A user approves the client once.
Approve(user, scope) ==
  /\ \A approved \in consents : approved[1] # user
  /\ consents' = consents \cup {<<user, scope>>}
  /\ UNCHANGED <<now, codes, tokens>>

Mint(approved) ==
  /\ codes' = Append(codes, [user |-> approved[1], scope |-> approved[2],
                             until |-> now + CodeTTL, used |-> FALSE])
  /\ UNCHANGED <<now, consents, tokens>>

Spend(c) ==
  /\ codes' = [codes EXCEPT ![c].used = TRUE]
  /\ UNCHANGED <<now, consents, tokens>>

\* A pair for the user and the scope of `grant`, a code or the pair before.
Pair(grant, family, accessFor, refreshFor, code, parent, handed) ==
  [family |-> family, user |-> grant.user, scope |-> grant.scope, created |-> now,
   accessUntil |-> now + accessFor, refreshUntil |-> now + refreshFor,
   revoked |-> FALSE, code |-> code, parent |-> parent, handed |-> handed]

\* A spent code starts a family, in the client's hands at once.
Begin(c) ==
  /\ codes[c].used
  /\ tokens' = Append(tokens, Pair(codes[c], Len(tokens) + 1, AccessTTL, RefreshTTL,
                                   c, 0, TRUE))
  /\ UNCHANGED <<now, consents, codes>>

\* A pair the client had, and cannot use again, is followed by another.
Replace(t) ==
  /\ tokens[t].handed
  /\ tokens[t].revoked
  /\ tokens' = Append(tokens, Pair(tokens[t], tokens[t].family,
                                   tokens[t].accessUntil - tokens[t].created,
                                   tokens[t].refreshUntil - tokens[t].created,
                                   tokens[t].code, t, FALSE))
  /\ UNCHANGED <<now, consents, codes>>

Siblings(t) == {i \in 1..Len(tokens) : tokens[i].family = tokens[t].family}

Hand(t) ==
  /\ \A i \in Siblings(t) : now <= tokens[i].created + FamilyTTL
  /\ tokens' = [tokens EXCEPT ![t].handed = TRUE]
  /\ UNCHANGED <<now, consents, codes>>

Revoke(t) ==
  /\ tokens[t].handed \/ \E i \in Siblings(t) : tokens[i].revoked
  /\ tokens' = [tokens EXCEPT ![t].revoked = TRUE]
  /\ UNCHANGED <<now, consents, codes>>

Next ==
  \/ Elapse
  \/ \E user \in Users, scope \in Scopes : Approve(user, scope)
  \/ \E approved \in consents : Mint(approved)
  \/ \E c \in 1..Len(codes) : Spend(c) \/ Begin(c)
  \/ \E t \in 1..Len(tokens) : Replace(t) \/ Hand(t) \/ Revoke(t)

Spec == Init /\ [][Next]_grants

=============================================================================
