------------------------------ MODULE OAuthFlow ------------------------------
(***************************************************************************)
(* The OAuth authorization server: consent, codes and token families.      *)
(*                                                                         *)
(* Each HTTP call (server/oauth: authorize, post_consent, exchange_code,   *)
(* refresh::grant) is a handler that runs one database statement after     *)
(* another, outside any transaction (store/oauth.rs, oauth_tokens.rs).     *)
(* Handlers interleave between statements, and a handler may be dropped    *)
(* between two of them: the client goes away or the process stops.         *)
(*                                                                         *)
(* One client is modelled.  Ids are positions; hashes, secrets, redirects  *)
(* and PKCE are left out, but for the chance that verification fails.  A   *)
(* call refused before it changes anything is no step.                     *)
(***************************************************************************)
EXTENDS Integers, Sequences, FiniteSets

CONSTANTS
  Handlers,    \* calls that can be under way at once
  Users, Scopes,
  Nobody,      \* the user and scope of a handler that has none
  CodeTTL, ConsentTTL, AccessTTL, RefreshTTL,
  FamilyTTL,   \* ABSOLUTE_FAMILY_TTL_DAYS
  MaxCalls,    \* bound: calls made
  Horizon      \* bound: ticks of the clock

ASSUME FlowAssumption ==
  /\ CodeTTL \in Nat /\ ConsentTTL \in Nat /\ AccessTTL \in Nat
  /\ RefreshTTL \in Nat /\ FamilyTTL \in Nat
  /\ MaxCalls \in Nat /\ Horizon \in Nat

VARIABLES
  now,
  requests,  \* oauth_consent_requests
  consents,  \* oauth_consents
  codes,     \* oauth_codes
  tokens,    \* oauth_tokens
  handler,   \* the calls under way
  made       \* calls made so far

vars == <<now, requests, consents, codes, tokens, handler, made>>

ConsentRequest == [scope : Scopes, until : Nat, open : BOOLEAN]
Code == [user : Users, scope : Scopes, until : Nat, used : BOOLEAN]

\* A token row.  `family` is its first row; `code`, `parent` and `handed` (the
\* pair reached the client) are history: the rows do not hold them.
Token == [family : Nat, user : Users, scope : Scopes, created : Nat,
          accessUntil : Nat, refreshUntil : Nat, revoked : BOOLEAN,
          code : Nat, parent : Nat, handed : BOOLEAN]

Resting == {"idle", "conflict", "swept"}
Busy == {"mint", "park", "delete", "consent", "grant", "burn", "verify",
         "rotate", "issue", "lifetime", "family", "sweep"}

\* `row` is the consent request, code or token the handler works on.
Handler == [pc : Resting \cup Busy, user : Users \cup {Nobody},
            scope : Scopes \cup {Nobody}, row : Nat, approve : BOOLEAN,
            seen : Nat, todo : SUBSET Nat]

Idle == [pc |-> "idle", user |-> Nobody, scope |-> Nobody, row |-> 0,
         approve |-> FALSE, seen |-> 0, todo |-> {}]

Init ==
  /\ now = 0
  /\ requests = <<>>
  /\ consents = {}
  /\ codes = <<>>
  /\ tokens = <<>>
  /\ handler = [h \in Handlers |-> Idle]
  /\ made = 0

\* A call arrives: its handler is at `pc` after its first statement.
Call(h, pc, user, scope, row, approve) ==
  /\ handler[h].pc \in Resting
  /\ made < MaxCalls
  /\ made' = made + 1
  /\ handler' = [handler EXCEPT ![h] = [pc |-> pc, user |-> user, scope |-> scope,
                   row |-> row, approve |-> approve, seen |-> 0, todo |-> {}]]

At(h, pc) == handler[h].pc = pc /\ made' = made
Goto(h, pc) == handler' = [handler EXCEPT ![h].pc = pc]
Finish(h) == handler' = [handler EXCEPT ![h] = Idle]

----------------------------------------------------------------------------
(* Consent and codes.                                                      *)

\* has_consent
ConsentedMutant(user, scope) == \E s \in Scopes : <<user, s>> \in consents
Consented(user, scope) == <<user, scope>> \in consents

\* authorize: a remembered consent goes straight to a code.
Authorize(h, user, scope) ==
  /\ Call(h, IF Consented(user, scope) THEN "mint" ELSE "park", user, scope, 0, FALSE)
  /\ UNCHANGED <<now, requests, consents, codes, tokens>>

\* create_consent_request
Park(h) ==
  /\ At(h, "park")
  /\ requests' = Append(requests, [scope |-> handler[h].scope,
                                   until |-> now + ConsentTTL, open |-> TRUE])
  /\ Finish(h)
  /\ UNCHANGED <<now, consents, codes, tokens>>

\* load_live_request in get_consent or post_consent, of an expired row: it is
\* deleted, by whichever of the two comes.
ExpireRequest(r) ==
  /\ requests[r].open
  /\ requests[r].until <= now
  /\ requests' = [requests EXCEPT ![r].open = FALSE]
  /\ UNCHANGED <<now, consents, codes, tokens, handler, made>>

\* post_consent by the user logged in: load_live_request, of a live row.
Decide(h, user, r, approve) ==
  /\ requests[r].open
  /\ requests[r].until > now
  /\ Call(h, "delete", user, requests[r].scope, r, approve)
  /\ UNCHANGED <<now, requests, consents, codes, tokens>>

\* delete_consent_request, which does not ask whether there was a row left.
DeleteRequest(h) ==
  /\ At(h, "delete")
  /\ requests' = [requests EXCEPT ![handler[h].row].open = FALSE]
  /\ IF handler[h].approve THEN Goto(h, "consent") ELSE Finish(h)
  /\ UNCHANGED <<now, consents, codes, tokens>>

\* grant_consent: has_consent first,
ReadConsent(h) ==
  /\ At(h, "consent")
  /\ Goto(h, IF Consented(handler[h].user, handler[h].scope) THEN "mint" ELSE "grant")
  /\ UNCHANGED <<now, requests, consents, codes, tokens>>

\* then the insert, which ux_oauth_consents_user_client refuses when the user
\* has any consent for the client.
Taken(user) == \E s \in Scopes : <<user, s>> \in consents

GrantConsent(h) ==
  /\ At(h, "grant")
  /\ ~Taken(handler[h].user)
  /\ consents' = consents \cup {<<handler[h].user, handler[h].scope>>}
  /\ Goto(h, "mint")
  /\ UNCHANGED <<now, requests, codes, tokens>>

GrantConflicts(h) ==
  /\ At(h, "grant")
  /\ Taken(handler[h].user)
  /\ Goto(h, "conflict")
  /\ UNCHANGED <<now, requests, consents, codes, tokens>>

\* issue_code_and_redirect
MintCode(h) ==
  /\ At(h, "mint")
  /\ codes' = Append(codes, [user |-> handler[h].user, scope |-> handler[h].scope,
                             until |-> now + CodeTTL, used |-> FALSE])
  /\ Finish(h)
  /\ UNCHANGED <<now, requests, consents, tokens>>

----------------------------------------------------------------------------
(* Codes for tokens, and rotation.                                         *)

\* exchange_code: consume_code reads the row,
ReadCode(h, c) ==
  /\ ~codes[c].used
  /\ codes[c].until > now
  /\ Call(h, "burn", codes[c].user, codes[c].scope, c, FALSE)
  /\ UNCHANGED <<now, requests, consents, codes, tokens>>

\* then marks it used.
BurnedMutant(c) == codes[c]
Burned(c) == [codes[c] EXCEPT !.used = TRUE]

BurnCode(h) ==
  /\ At(h, "burn")
  /\ codes' = [codes EXCEPT ![handler[h].row] = Burned(handler[h].row)]
  /\ Goto(h, "verify")
  /\ UNCHANGED <<now, requests, consents, tokens>>

\* The verifier, the redirect or the client does not match: the code is spent.
VerifyFails(h) ==
  /\ At(h, "verify")
  /\ Finish(h)
  /\ UNCHANGED <<now, requests, consents, codes, tokens>>

\* issue_in_family
NewToken(grant, family, accessFor, refreshFor, code, parent, handed) ==
  [family |-> family, user |-> grant.user, scope |-> grant.scope, created |-> now,
   accessUntil |-> now + accessFor, refreshUntil |-> now + refreshFor,
   revoked |-> FALSE, code |-> code, parent |-> parent, handed |-> handed]

\* issue_token: a new family, answered at once.
IssueFamily(h) ==
  /\ At(h, "verify")
  /\ tokens' = Append(tokens, NewToken(codes[handler[h].row], Len(tokens) + 1,
                        AccessTTL, RefreshTTL, handler[h].row, 0, TRUE))
  /\ Finish(h)
  /\ UNCHANGED <<now, requests, consents, codes>>

\* rotate_refresh_token reads the row of a token that was handed out: a revoked
\* one was rotated away before, and its family goes.
Present(h, t) ==
  /\ tokens[t].handed
  /\ tokens[t].revoked \/ tokens[t].refreshUntil > now
  /\ Call(h, IF tokens[t].revoked THEN "family" ELSE "rotate",
          tokens[t].user, tokens[t].scope, t, FALSE)
  /\ UNCHANGED <<now, requests, consents, codes, tokens>>

RotatedOutMutant(t) == [tokens[t] EXCEPT !.handed = FALSE]
RotatedOut(t) == [tokens[t] EXCEPT !.revoked = TRUE]

RotateOut(h) ==
  /\ At(h, "rotate")
  /\ tokens' = [tokens EXCEPT ![handler[h].row] = RotatedOut(handler[h].row)]
  /\ Goto(h, "issue")
  /\ UNCHANGED <<now, requests, consents, codes>>

\* The next pair keeps the durations of the one it replaces.
DurationMutant(until, row) == row.created - until
Duration(until, row) == until - row.created

IssueNext(h) ==
  /\ At(h, "issue")
  /\ LET t   == handler[h].row
         row == tokens[t]
     IN tokens' = Append(tokens,
                    NewToken(row, row.family, Duration(row.accessUntil, row),
                             Duration(row.refreshUntil, row), row.code, t, FALSE))
  /\ handler' = [handler EXCEPT ![h].pc = "lifetime", ![h].row = Len(tokens) + 1]
  /\ UNCHANGED <<now, requests, consents, codes>>

Members(family) == {i \in 1..Len(tokens) : tokens[i].family = family}

\* The oldest row of the family (family_started_at) is over age: some row is.
TooOldMutant(t) == now - tokens[t].created > FamilyTTL
TooOld(t) == \E i \in Members(tokens[t].family) : now - tokens[i].created > FamilyTTL

\* Past the absolute lifetime the pair just issued goes with its family,
OutliveFamily(h) ==
  /\ At(h, "lifetime")
  /\ TooOld(handler[h].row)
  /\ Goto(h, "family")
  /\ UNCHANGED <<now, requests, consents, codes, tokens>>

\* else it is the answer.
HandOut(h) ==
  /\ At(h, "lifetime")
  /\ ~TooOld(handler[h].row)
  /\ tokens' = [tokens EXCEPT ![handler[h].row].handed = TRUE]
  /\ Finish(h)
  /\ UNCHANGED <<now, requests, consents, codes>>

\* revoke_family: one read of the rows,
LiveMutant(family) == {i \in Members(family) : ~tokens[i].revoked /\ tokens[i].handed}
LiveRows(family) == {i \in Members(family) : ~tokens[i].revoked}

ReadFamily(h) ==
  /\ At(h, "family")
  /\ handler' = [handler EXCEPT ![h].pc = "sweep", ![h].seen = Len(tokens),
                   ![h].todo = LiveRows(tokens[handler[h].row].family)]
  /\ UNCHANGED <<now, requests, consents, codes, tokens>>

\* then one update after another.
RevokeOne(h, i) ==
  /\ At(h, "sweep")
  /\ i \in handler[h].todo
  /\ tokens' = [tokens EXCEPT ![i].revoked = TRUE]
  /\ handler' = [handler EXCEPT ![h].todo = @ \ {i}]
  /\ UNCHANGED <<now, requests, consents, codes>>

\* invalid_grant
SweepDone(h) ==
  /\ At(h, "sweep")
  /\ handler[h].todo = {}
  /\ Goto(h, "swept")
  /\ UNCHANGED <<now, requests, consents, codes, tokens>>

----------------------------------------------------------------------------

\* The call's future is dropped, or a statement fails: what it wrote stays.
Drop(h) ==
  /\ handler[h].pc \in Busy
  /\ Finish(h)
  /\ UNCHANGED <<now, requests, consents, codes, tokens, made>>

Tick ==
  /\ now < Horizon
  /\ now' = now + 1
  /\ UNCHANGED <<requests, consents, codes, tokens, handler, made>>

Rest ==
  /\ made = MaxCalls /\ now = Horizon
  /\ \A h \in Handlers : handler[h].pc \in Resting
  /\ UNCHANGED vars

Step(h) ==
  \/ Park(h) \/ DeleteRequest(h) \/ ReadConsent(h) \/ GrantConsent(h)
  \/ GrantConflicts(h) \/ MintCode(h)
  \/ BurnCode(h) \/ VerifyFails(h) \/ IssueFamily(h)
  \/ RotateOut(h) \/ IssueNext(h) \/ OutliveFamily(h) \/ HandOut(h)
  \/ ReadFamily(h) \/ SweepDone(h)
  \/ \E i \in 1..Len(tokens) : RevokeOne(h, i)

Arrive(h) ==
  \/ \E u \in Users, s \in Scopes : Authorize(h, u, s)
  \/ \E u \in Users, r \in 1..Len(requests), a \in BOOLEAN : Decide(h, u, r, a)
  \/ \E c \in 1..Len(codes) : ReadCode(h, c)
  \/ \E t \in 1..Len(tokens) : Present(h, t)

Next ==
  \/ \E h \in Handlers : Arrive(h) \/ Step(h) \/ Drop(h)
  \/ \E r \in 1..Len(requests) : ExpireRequest(r)
  \/ Tick
  \/ Rest

Spec == Init /\ [][Next]_vars

----------------------------------------------------------------------------
(* Properties.                                                             *)

(* Every variable stays in its type. *)
TypeOK ==
  /\ now \in Nat
  /\ requests \in Seq(ConsentRequest)
  /\ consents \subseteq Users \X Scopes
  /\ codes \in Seq(Code)
  /\ tokens \in Seq(Token)
  /\ handler \in [Handlers -> Handler]
  /\ made \in Nat

(* No code exists without a standing consent of its user for exactly its   *)
(* scope, whichever way it was minted (authorize, post_consent).           *)
CodesAreConsented ==
  \A c \in 1..Len(codes) : <<codes[c].user, codes[c].scope>> \in consents

(* Every token descends from a code that is spent, and carries that code's *)
(* user and scope through all rotations (exchange_code, issue_in_family).  *)
FamiliesSpendTheirCode ==
  \A t \in 1..Len(tokens) :
    LET c == tokens[t].code IN
    /\ c \in 1..Len(codes)
    /\ codes[c].used
    /\ tokens[t].user = codes[c].user /\ tokens[t].scope = codes[c].scope

\* The rows themselves, their history with them: what the handlers are doing,
\* the consent requests and the bound on calls are hidden.
Ledger == INSTANCE GrantLedger WITH now <- now, consents <- consents,
                                    codes <- codes, tokens <- tokens

(* Every statement of every call keeps what GrantLedger promises of the    *)
(* rows (store/oauth.rs, oauth_tokens.rs).                                 *)
KeepsGrants == Ledger!Spec

(* A refresh token that was traded for another is revoked, so presenting   *)
(* it again is seen as reuse, whatever was dropped or raced in between     *)
(* (rotate_refresh_token).                                                 *)
RotatedIsRevoked ==
  \A t \in 1..Len(tokens) : tokens[t].parent # 0 => tokens[tokens[t].parent].revoked

(* No pair reaches a client past its family's absolute lifetime, however   *)
(* often the family was rotated and whatever raced (refresh::grant).       *)
NoPairPastLifetime ==
  \A s, t \in 1..Len(tokens) :
    tokens[t].handed /\ tokens[s].family = tokens[t].family
      => tokens[t].created <= tokens[s].created + FamilyTTL

(* When the revocation of a family has been answered, every row it had when *)
(* it was read is revoked - the pair minted by an over-age rotation too -   *)
(* although rotations and other revocations go on meanwhile (revoke_family, *)
(* refresh::grant).                                                         *)
SweepIsComplete ==
  \A h \in Handlers :
    handler[h].pc = "swept" =>
      \A i \in 1..handler[h].seen :
        tokens[i].family = tokens[handler[h].row].family => tokens[i].revoked

----------------------------------------------------------------------------
(* What the documentation says and the code does not do.                   *)

(* "`consume_code` marks the code used in the same atomic step as reading  *)
(* it" (server/oauth/token.rs): one code starts one family.                *)
OneFamilyPerCode ==
  \A s, t \in 1..Len(tokens) : tokens[s].code = tokens[t].code
                                 => tokens[s].family = tokens[t].family

(* "A prior approval of this exact (user, client, scope) triple skips the  *)
(* consent screen" (server/oauth/authorize.rs): an approval that was not   *)
(* recorded because the insert was refused had been recorded already.      *)
ApprovalIsRemembered ==
  \A h \in Handlers : handler[h].pc = "conflict"
                         => Consented(handler[h].user, handler[h].scope)

=============================================================================
