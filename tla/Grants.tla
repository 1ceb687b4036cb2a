------------------------------- MODULE Grants -------------------------------
(***************************************************************************)
(* Service tokens, what an MCP request may reach, and the retention sweep, *)
(* over the users and sessions of Accounts.                                *)
(*                                                                         *)
(* A request (server/mcp) resolves its credential statement by statement   *)
(* (store/service_token.rs), is gated on its grants, resolves its endpoint *)
(* and records its run.  What it runs meanwhile is ToolRun; how the plan   *)
(* is found is PlanCache, here the endpoint row of the caller's slug.      *)
(***************************************************************************)
EXTENDS Accounts

\* An endpoint's slug is never changed by an update (store/endpoint.rs): the row
\* is found by it.  So a slug comes to name another row only by deletion.
Endpoint == [owner : Nat \ {0}, slug : Slugs, live : BOOLEAN]

\* `used` is whether last_used_at is set, `grants` are the service_token_endpoints
\* rows; `asked` is history: the rows the token was minted with.
Token == [owner : Nat \ {0}, restricted : BOOLEAN, control : BOOLEAN,
          until : Nat \cup {NoExpiry}, used : BOOLEAN, revoked : BOOLEAN, live : BOOLEAN,
          grants : SUBSET Nat, asked : SUBSET Nat]

Run == [owner : Nat \ {0}, slug : Slugs, created : Nat, live : BOOLEAN]

\* `chosen` is what the statement under way is to delete.
Sweep == [pc : {"idle", "runs", "delete", "sessions"}, cutoff : Int, chosen : SUBSET Nat]

Resting == [pc |-> "idle", cutoff |-> 0, chosen |-> {}]

\* Done with the runs, one way or the other, and the sessions next.
Purged == [Resting EXCEPT !.pc = "sessions"]

\* The row of a token that was asked for with `c`.
Minted(u, c, ids, at) ==
  [owner |-> u, restricted |-> c.slugs # {}, control |-> c.control,
   until |-> IF c.days = NoExpiry THEN NoExpiry ELSE at + c.days,
   used |-> FALSE, revoked |-> FALSE, live |-> TRUE, grants |-> ids, asked |-> ids]

Account(e) == [email |-> e, password |-> TRUE, subject |-> None, live |-> TRUE]

\* m0007 has just seeded the first user, or that user already has endpoints and
\* a token for some of them, or there are two users with a run each.
Init ==
  /\ now = 0
  /\ task = [t \in Tasks |-> Idle]
  /\ sessions = <<>>
  /\ sweep = Resting
  /\ \/ /\ users = <<Account(SeedEmail)>>
        /\ endpoints = <<>> /\ tokens = <<>> /\ runs = <<>>
     \/ /\ users = <<Account(SeedEmail)>>
        /\ endpoints = [e \in DOMAIN StartSlugs |-> [owner |-> 1, slug |-> StartSlugs[e], live |-> TRUE]]
        /\ \E c \in {m \in MintChoices : m.slugs # {}} :
             tokens = <<Minted(1, c, {e \in DOMAIN StartSlugs : StartSlugs[e] \in c.slugs}, 0)>>
        /\ runs = <<>>
     \/ /\ \E e \in Emails \ {SeedEmail} : users = <<Account(SeedEmail), Account(e)>>
        /\ endpoints = <<>> /\ tokens = <<>>
        /\ \E s \in Slugs : runs = [u \in 1..2 |-> [owner |-> u, slug |-> s, created |-> 0, live |-> TRUE]]
  /\ calls = Len(runs)

----------------------------------------------------------------------------
(* Endpoints, as their owner creates and deletes them.                     *)

Named(u, s) == {e \in DOMAIN endpoints :
                  endpoints[e].live /\ endpoints[e].owner = u /\ endpoints[e].slug = s}

\* EndpointStore::create: the slug is free among the owner's.
CreateEndpoint(u, s) ==
  /\ LiveUser(u) /\ Named(u, s) = {}
  /\ Len(endpoints) < MaxEndpoints
  /\ endpoints' = Append(endpoints, [owner |-> u, slug |-> s, live |-> TRUE])
  /\ UNCHANGED <<users, sessions, tokens, runs>>

\* EndpointStore::delete, and the grants that go with the row.
DeleteEndpoint(e) ==
  /\ endpoints[e].live
  /\ endpoints' = [endpoints EXCEPT ![e].live = FALSE]
  /\ tokens' = [k \in DOMAIN tokens |-> [tokens[k] EXCEPT !.grants = @ \ {e}]]
  /\ UNCHANGED <<users, sessions, runs>>

WriteEndpoint ==
  /\ Arrives
  /\ \/ \E u \in DOMAIN users, s \in Slugs : CreateEndpoint(u, s)
     \/ \E e \in DOMAIN endpoints : DeleteEndpoint(e)
  /\ UNCHANGED <<now, task, sweep>>

----------------------------------------------------------------------------
(* Minting and revoking.                                                   *)

\* The Caller extractor, of an admin call to mint: the session's row, then its
\* user.
ApiMint(t, s, c) ==
  /\ LiveSession(s)
  /\ c.days # 0
  /\ Begin(t, [Idle EXCEPT !.pc = "caller", !.then = "grants", !.user = sessions[s].user,
                           !.want = c.slugs, !.flag = c.control, !.days = c.days])
  /\ UNCHANGED <<now, sweep, tables>>

\* ... or to revoke token `k`.
ApiRevoke(t, s, k) ==
  /\ LiveSession(s)
  /\ Begin(t, [Idle EXCEPT !.pc = "caller", !.then = "findtoken", !.user = sessions[s].user,
                           !.row = k])
  /\ UNCHANGED <<now, sweep, tables>>

FindCaller(t) ==
  /\ At(t, "caller")
  /\ IF LiveUser(task[t].user)
     THEN task' = [task EXCEPT ![t].pc = task[t].then, ![t].then = "idle"]
     ELSE Finish(t)
  /\ UNCHANGED tables

\* `token mint`: resolve_owner, by email or as the sole user there is.
CliMint(t, u, c) ==
  /\ LiveUser(u)
  /\ Begin(t, [Idle EXCEPT !.pc = "grants", !.user = u, !.want = c.slugs,
                           !.flag = c.control, !.days = c.days])
  /\ UNCHANGED <<now, sweep, tables>>

\* resolve_endpoint_ids, before the transaction: an unknown slug is a conflict.
ResolveGrants(t) ==
  /\ At(t, "grants")
  /\ IF \A s \in task[t].want : Named(task[t].user, s) # {}
     THEN task' = [task EXCEPT ![t].pc = "mint",
                     ![t].ids = UNION {Named(task[t].user, s) : s \in task[t].want}]
     ELSE Finish(t)
  /\ UNCHANGED tables

\* The transaction of ServiceTokenStore::mint: the foreign keys refuse an owner
\* or an endpoint deleted meanwhile, and the token with it.
Mint(t) ==
  /\ At(t, "mint")
  /\ tokens' = IF LiveUser(task[t].user) /\ \A e \in task[t].ids : endpoints[e].live
               THEN Append(tokens,
                      Minted(task[t].user, [slugs |-> task[t].want, control |-> task[t].flag,
                                            days |-> task[t].days], task[t].ids, now))
               ELSE tokens
  /\ Finish(t)
  /\ UNCHANGED <<users, sessions, endpoints, runs>>

\* tokens::revoke: get_by_id, of the caller's own.
FindToken(t) ==
  /\ At(t, "findtoken")
  /\ IF tokens[task[t].row].live /\ tokens[task[t].row].owner = task[t].user
     THEN Goto(t, "revoke") ELSE Finish(t)
  /\ UNCHANGED tables

\* `token revoke`: any token.
CliRevoke(t, k) ==
  /\ Begin(t, [Idle EXCEPT !.pc = "revoke", !.row = k])
  /\ UNCHANGED <<now, sweep, tables>>

Revoke(t) ==
  /\ At(t, "revoke")
  /\ tokens' = IF tokens[task[t].row].live THEN [tokens EXCEPT ![task[t].row].revoked = TRUE] ELSE tokens
  /\ Finish(t)
  /\ UNCHANGED <<users, sessions, endpoints, runs>>

----------------------------------------------------------------------------
(* An MCP request: authenticate_mcp, then the gate, then the tool.         *)

Usable(k) == tokens[k].live /\ ~tokens[k].revoked
             /\ (tokens[k].until = NoExpiry \/ tokens[k].until > now)

\* The token's row is read.  A request to bare /mcp has no slug.
PresentToken(t, k, s) ==
  /\ Usable(k)
  /\ Begin(t, [Idle EXCEPT !.pc = "touch", !.row = k, !.user = tokens[k].owner, !.slug = s,
                           !.restricted = tokens[k].restricted, !.control = tokens[k].control,
                           !.saw = Len(endpoints)])
  /\ UNCHANGED <<now, sweep, tables>>

\* What ServiceTokenStore::resolve writes over the row: the one column it set.
TouchedMutant(k) == [tokens[k] EXCEPT !.used = TRUE, !.revoked = FALSE]
Touched(k) == [tokens[k] EXCEPT !.used = TRUE]

\* A row gone meanwhile is an error, and the request is refused.
Touch(t) ==
  /\ At(t, "touch")
  /\ IF tokens[task[t].row].live
     THEN tokens' = [tokens EXCEPT ![task[t].row] = Touched(task[t].row)] /\ Goto(t, "load")
     ELSE Finish(t) /\ UNCHANGED tokens
  /\ UNCHANGED <<users, sessions, endpoints, runs>>

\* load_endpoint_grants: the rows, then the slug of each; one that is gone fails
\* the request.
LoadGrants(t) ==
  /\ At(t, "load")
  /\ task' = [task EXCEPT ![t].pc = "slugs", ![t].ids = tokens[task[t].row].grants]
  /\ UNCHANGED tables

LoadSlugs(t) ==
  /\ At(t, "slugs")
  /\ IF \A e \in task[t].ids : endpoints[e].live
     THEN task' = [task EXCEPT ![t].pc = "resolve",
                               ![t].slugs = {endpoints[e].slug : e \in task[t].ids}]
     ELSE Finish(t)
  /\ UNCHANGED tables

\* oauth_caller: a live access token of user `u` (OAuthFlow), then its user.
PresentOauth(t, u, s) ==
  /\ LiveUser(u)
  /\ Begin(t, [Idle EXCEPT !.pc = "oauth", !.user = u, !.slug = s, !.control = TRUE])
  /\ UNCHANGED <<now, sweep, tables>>

FindGranter(t) ==
  /\ At(t, "oauth")
  /\ IF LiveUser(task[t].user) THEN Goto(t, "resolve") ELSE Finish(t)
  /\ UNCHANGED tables

\* EndpointGrants: All, or Only those of a restricted token.
AllowsMutant(k) == k.slugs = {} \/ k.slug \in k.slugs
Allows(k) == ~k.restricted \/ k.slug \in k.slugs

\* resolve_plan: the grants, then the owner's endpoint of that slug.
ResolvePlan(t, e) ==
  /\ At(t, "resolve")
  /\ task[t].slug # None
  /\ Allows(task[t])
  /\ e \in Named(task[t].user, task[t].slug)
  /\ task' = [task EXCEPT ![t].pc = "run", ![t].ids = {e}]
  /\ UNCHANGED tables

\* resolve_control_plane
EnterControlPlane(t) ==
  /\ At(t, "resolve")
  /\ task[t].slug = None
  /\ task[t].control
  /\ task' = [task EXCEPT ![t] = [Idle EXCEPT !.pc = "author", !.user = task[t].user]]
  /\ UNCHANGED tables

\* "endpoint does not exist", for want of a grant, an endpoint or the capability.
Refuse(t) ==
  /\ At(t, "resolve")
  /\ IF task[t].slug = None THEN ~task[t].control
     ELSE ~Allows(task[t]) \/ Named(task[t].user, task[t].slug) = {}
  /\ Finish(t)
  /\ UNCHANGED tables

\* A console test of a tool (server/api/test_run.rs): the user's own endpoint, no
\* grants; `flag` says that the recorded run is read back.
TestRun(t, s, slug) ==
  /\ LiveSession(s)
  /\ Begin(t, [Idle EXCEPT !.pc = "caller", !.then = "resolve", !.user = sessions[s].user,
                           !.slug = slug, !.flag = TRUE])
  /\ UNCHANGED <<now, sweep, tables>>

\* `call` and `script run`: setup has resolved the user; no credential is asked for.
CliRun(t, u, slug) ==
  /\ LiveUser(u)
  /\ Begin(t, [Idle EXCEPT !.pc = "resolve", !.user = u, !.slug = slug])
  /\ UNCHANGED <<now, sweep, tables>>

\* The task goes on to show run `r`.
Shows(t, r) ==
  task' = [task EXCEPT ![t] = [Idle EXCEPT !.pc = "history", !.user = task[t].user, !.row = r]]

\* The tool has run: RunStore::create, which the foreign key refuses for an owner
\* deleted meanwhile.
RecordRun(t) ==
  /\ At(t, "run")
  /\ IF LiveUser(task[t].user)
     THEN /\ runs' = Append(runs, [owner |-> task[t].user, slug |-> task[t].slug,
                                   created |-> now, live |-> TRUE])
          /\ IF task[t].flag THEN Shows(t, Len(runs) + 1) ELSE Finish(t)
     ELSE Finish(t) /\ UNCHANGED runs
  /\ UNCHANGED <<users, sessions, endpoints, tokens>>

\* initialize, tools/list and list_tools run nothing, nor does a call of a tool
\* that is not on the plan.
AnswerOnly(t) ==
  /\ At(t, "run")
  /\ Finish(t)
  /\ UNCHANGED tables

\* A control-plane call writes a definition of its caller.
Author(t) ==
  /\ At(t, "author")
  /\ \/ \E s \in Slugs : CreateEndpoint(task[t].user, s)
     \/ \E e \in DOMAIN endpoints : endpoints[e].owner = task[t].user /\ DeleteEndpoint(e)
  /\ Finish(t)

\* GET /api/runs/{id}, and run.get of the control plane.
ReadRun(t, s, r) ==
  /\ LiveSession(s)
  /\ Begin(t, [Idle EXCEPT !.pc = "caller", !.then = "history", !.user = sessions[s].user,
                           !.row = r])
  /\ UNCHANGED <<now, sweep, tables>>

\* api_call.test and script.test of the control plane ask for no grant: they are the
\* owner's, whatever the token was minted for.
ControlTest(t, slug) ==
  /\ At(t, "author")
  /\ task' = [task EXCEPT ![t] = [Idle EXCEPT !.pc = "resolve", !.user = task[t].user,
                                             !.slug = slug, !.flag = TRUE]]
  /\ UNCHANGED tables

ControlReadRun(t, r) ==
  /\ At(t, "author")
  /\ Shows(t, r)
  /\ UNCHANGED tables

\* RunStore::get: the caller's run, then its calls; not found if it was swept.
FindRun(t) ==
  /\ At(t, "history")
  /\ IF runs[task[t].row].live /\ runs[task[t].row].owner = task[t].user
     THEN Goto(t, "rows") ELSE Finish(t)
  /\ UNCHANGED tables

ShowRun(t) ==
  /\ At(t, "rows")
  /\ Finish(t)
  /\ UNCHANGED tables

\* The client goes away, a statement fails or the process stops.
Drop(t) ==
  /\ task[t].pc # "idle"
  /\ Finish(t)
  /\ UNCHANGED <<now, calls, sweep, tables>>

----------------------------------------------------------------------------
(* Retention, and the clock.                                               *)

\* sweep_once; cutoff_for: zero days keep for ever.
SweepStarts ==
  /\ sweep.pc = "idle"
  /\ sweep' = IF RetentionDays = 0 THEN Purged
              ELSE [Resting EXCEPT !.pc = "runs", !.cutoff = now - RetentionDays]
  /\ UNCHANGED <<now, calls, task, tables>>

Expired(cutoff) == {r \in DOMAIN runs : runs[r].live /\ runs[r].created < cutoff}

\* One DELETE of RunStore::purge_expired.  Its subselect picks up to a batch,
\* whichever they are,
SweepPicks ==
  /\ sweep.pc = "runs"
  /\ \E batch \in SUBSET Expired(sweep.cutoff) :
       /\ \/ Cardinality(batch) = BatchSize
          \/ Cardinality(batch) < BatchSize /\ batch = Expired(sweep.cutoff)
       /\ sweep' = [sweep EXCEPT !.pc = "delete", !.chosen = batch]
  /\ UNCHANGED <<now, calls, task, tables>>

\* The loop's end, by what a batch deleted.
LastBatchMutant(n) == n <= BatchSize
LastBatch(n) == n < BatchSize

\* ... and what a user's deletion has taken meanwhile is not there to be counted.
SweepBatch ==
  /\ sweep.pc = "delete"
  /\ LET n == Cardinality({r \in sweep.chosen : runs[r].live})
     IN sweep' = IF LastBatch(n)
                 THEN Purged
                 ELSE [sweep EXCEPT !.pc = "runs", !.chosen = {}]
  /\ runs' = [r \in DOMAIN runs |->
                IF r \in sweep.chosen THEN [runs[r] EXCEPT !.live = FALSE] ELSE runs[r]]
  /\ UNCHANGED <<now, calls, task, users, sessions, endpoints, tokens>>

\* A statement fails: logged, and on with the sessions.
SweepBatchFails ==
  /\ sweep.pc = "delete"
  /\ sweep' = Purged
  /\ UNCHANGED <<now, calls, task, tables>>

\* SessionStore::purge_expired, which may fail too.
SweepSessions ==
  /\ sweep.pc = "sessions"
  /\ \/ sessions' = [s \in DOMAIN sessions |->
                       IF sessions[s].until < now THEN [sessions[s] EXCEPT !.live = FALSE] ELSE sessions[s]]
     \/ UNCHANGED sessions
  /\ sweep' = Resting
  /\ UNCHANGED <<now, calls, task, users, endpoints, tokens, runs>>

Tick ==
  /\ now < Horizon
  /\ now' = now + 1
  /\ UNCHANGED <<calls, task, tables, sweep>>

----------------------------------------------------------------------------
GrantSteps(t) ==
  \/ \E s \in DOMAIN sessions, c \in MintChoices : ApiMint(t, s, c)
  \/ \E s \in DOMAIN sessions, k \in DOMAIN tokens : ApiRevoke(t, s, k)
  \/ \E u \in DOMAIN users, c \in MintChoices : CliMint(t, u, c)
  \/ \E k \in DOMAIN tokens : CliRevoke(t, k)
  \/ \E k \in DOMAIN tokens, s \in Slugs \cup {None} : PresentToken(t, k, s)
  \/ \E u \in DOMAIN users, s \in Slugs \cup {None} : PresentOauth(t, u, s)
  \/ FindCaller(t) \/ ResolveGrants(t) \/ Mint(t) \/ FindToken(t) \/ Revoke(t)
  \/ Touch(t) \/ LoadGrants(t) \/ LoadSlugs(t) \/ FindGranter(t)
  \/ \E e \in DOMAIN endpoints : ResolvePlan(t, e)
  \/ \E s \in DOMAIN sessions, slug \in Slugs : TestRun(t, s, slug)
  \/ \E u \in DOMAIN users, slug \in Slugs : CliRun(t, u, slug)
  \/ \E s \in DOMAIN sessions, r \in DOMAIN runs : ReadRun(t, s, r)
  \/ \E slug \in Slugs : ControlTest(t, slug)
  \/ \E r \in DOMAIN runs : ControlReadRun(t, r)
  \/ FindRun(t) \/ ShowRun(t)
  \/ EnterControlPlane(t) \/ Refuse(t) \/ RecordRun(t) \/ AnswerOnly(t) \/ Author(t) \/ Drop(t)

Next ==
  \/ \E t \in Tasks : AccountSteps(t) \/ GrantSteps(t)
  \/ \E e \in Emails : SetPassword(e)
  \/ \E s \in DOMAIN sessions : Logout(s)
  \/ WriteEndpoint
  \/ SweepStarts \/ SweepPicks \/ SweepBatch \/ SweepBatchFails \/ SweepSessions
  \/ Tick

Spec == Init /\ [][Next]_vars

----------------------------------------------------------------------------
(* Properties.                                                             *)

TypeOK ==
  /\ now \in Nat /\ calls \in Nat
  /\ task \in [Tasks -> Task]
  /\ users \in Seq(User) /\ sessions \in Seq(Session)
  /\ endpoints \in Seq(Endpoint) /\ tokens \in Seq(Token) /\ runs \in Seq(Run)
  /\ sweep \in Sweep

\* A request to an endpoint by a token minted for some endpoints reaches one of them:
\* of that slug, and that very row, or one created under its slug while the request
\* was under way.  Deleting what a token was granted never widens it, whatever is
\* created under the same name (ServiceTokenRecord, EndpointGrants).
RestrictionNeverWidens ==
  \A t \in Tasks : task[t].pc = "run" /\ task[t].row # 0 /\ tokens[task[t].row].restricted =>
    /\ \E e \in tokens[task[t].row].asked : endpoints[e].slug = task[t].slug
    /\ \A e \in task[t].ids : e \in tokens[task[t].row].asked \/ e > task[t].saw

\* What is revoked stays revoked, and a token gains nothing after it was minted,
\* although every request writes its row (ServiceTokenStore::resolve).
RevocationIsFinal ==
  [][\A k \in DOMAIN tokens :
       /\ tokens[k].revoked => tokens'[k].revoked
       /\ tokens'[k].restricted = tokens[k].restricted
       /\ tokens'[k].control = tokens[k].control
       /\ tokens'[k].until = tokens[k].until
       /\ tokens'[k].grants \subseteq tokens[k].grants]_vars

\* A linked account stays with its identity: no later or concurrent sign-in,
\* whatever its email, moves it (find_or_create_by_oidc).
LinksAreForever ==
  [][\A u \in DOMAIN users :
       users[u].subject # None => users'[u].subject = users[u].subject]_vars

\* An account that was there before is linked only by a sign-in whose provider
\* vouches for exactly its email (find_or_create_by_oidc, outcome 2).
ClaimsAreProven ==
  [][\A u \in DOMAIN users :
       users[u].subject = None /\ users'[u].subject # None =>
         \E t \in Tasks : /\ task[t].subject = users'[u].subject
                          /\ task[t].email = users[u].email
                          /\ task[t].flag]_vars

\* The session a person gets by signing in is one of the account linked to that
\* person, however many sign-ins race to claim or create it.
SignInsReachTheirOwn ==
  \A s \in DOMAIN sessions : sessions[s].live /\ sessions[s].by # None =>
    users[sessions[s].user].subject = sessions[s].by

\* With a user everything goes that could act for it or that it owned, also what
\* calls under way insert after the deletion (the foreign keys of m0001-m0006).
NothingOutlivesItsOwner ==
  /\ \A s \in DOMAIN sessions : sessions[s].live => LiveUser(sessions[s].user)
  /\ \A k \in DOMAIN tokens : tokens[k].live =>
       LiveUser(tokens[k].owner) /\ \A e \in tokens[k].grants : endpoints[e].live
  /\ \A e \in DOMAIN endpoints : endpoints[e].live => LiveUser(endpoints[e].owner)
  /\ \A r \in DOMAIN runs : runs[r].live => LiveUser(runs[r].owner)

\* A sweep that ends the purge of the runs with a statement that deleted all it had
\* picked has left no run older than its cutoff, however many batches it took,
\* whatever was recorded and whoever was deleted between them: it ends early only if
\* a statement fails, or rows it had picked went with their owner (purge_expired,
\* sweep_once).
SweepIsComplete ==
  [][sweep.pc = "delete" /\ sweep'.pc = "sessions"
     /\ (\A r \in sweep.chosen : runs[r].live /\ ~runs'[r].live)
     => \A r \in DOMAIN runs' : runs'[r].live => runs'[r].created >= sweep.cutoff]_vars
=============================================================================
