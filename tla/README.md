# A verification development of api2mcp

api2mcp turns curated HTTP API calls into MCP tools.  This directory holds TLA+
models of the parts of it that are hard to test, the TLC configurations that
check them on small instances, and proofs, checked by TLAPS, of their most
important properties for every value of the constants.  All paths below are
paths of the repository; the Rust sources are under `src/src/`.

## 1. The system

A human defines services, auth providers, api_calls, scripts and endpoints as
rows in Postgres.  A tool call then passes through these parts:

    rows --build_plan--> EndpointPlan --(PlanCache)--> Executor::run_tool
         --run_batch--> dispatch --paginate--> send --> upstream
         --recorder--> runs + run_calls rows

| Component | State it keeps | Operations | What is hard |
|---|---|---|---|
| Executor, one tool run (`runtime/`) | meter counters, deadline, semaphores, slots of the batch, audit entries | `run_tool`, `run_batch`, `fan_out`, `commit_*_in_order`, `record` | concurrency inside a batch, in-order accounting, timeouts, several batches of one script, a client that goes away |
| Dispatch (`runtime/dispatch/`) | none | `resolve`, `dispatch` | which failures are budget trips, what a failure says of the exchange |
| Script bridge (`script/`) | the channel, the audit sink, the Rhai engine's limits | `service`, `api`, `api_many`, `api_try`, `run_script` | a script that catches every error must still stop |
| Upstream client (`http/`) | one client per service slug, for all owners | `send`, `paginate`, `client_for`, `check_url`, auth `apply` | redirects, pages, deadlines, body caps, a cache that is never invalidated |
| Plan cache (`resolve/cache.rs`, `store/meta.rs`) | generation, one entry per (owner, slug) | `get_or_build`, `bump_generation_in` | builds that overlap writes and each other |
| Plan build (`resolve/`) | none | `build_plan` and its checks I1, I2, I3, I5, I6 | reads of five tables outside a transaction |
| Definition stores (`store/`) | the definition rows | `create`, `update`, `delete` per aggregate | one transaction each, READ COMMITTED |
| OAuth server (`server/oauth/`, `store/oauth*.rs`) | clients, consent requests, consents, codes, token families | register, authorize, consent, code exchange, refresh | single use and rotation by read-then-write, reuse detection, absolute lifetime |
| Identity (`server/auth.rs`, `login*.rs`, `store/user.rs`, `session.rs`, `service_token.rs`) | users, sessions, login states, service tokens and grants | login, logout, OIDC claim, mint, revoke, resolve | racing first sign-ins, grants whose endpoint is deleted |
| Runs and retention (`store/run.rs`, `server/retention.rs`) | runs, run_calls | create, purge | batches of deletes against writers |
| MCP data plane (`server/mcp/`) | none | `handle`, `tools_call`, `invoke` | composition of the two parts above |
| Control plane and admin API (`server/mcp/control/`, `server/api/`) | none of their own | CRUD through `validate_write` | validate against a snapshot, then write |
| Packs (`pack/`) | none | `validate`, `import`, `export` | an import is many separate transactions |
| Schema, projection (`schema/`, `project/`) | none | `bind_args`, `input_schema`, `apply` | pure functions |
| Secrets, redaction (`secret/`, `http/redact.rs`) | none | | guarantees of types, string formatting |
| Startup (`db.rs`, `config.rs`, `migration/`) | migration table, advisory lock | `run_migrations_locked` | a session lock over a pool |
| CLI and web app | none | entry points over the above | |

What makes each of them correct:

* **Run.** The counters never pass the tool's budgets (I6); results are
  attributed in input order (I7); permits are conserved; what is handed back was
  paid for; rows of a run are numbered apart; a batch outlasts its deadline by no
  more than its requests' timeouts add up to; a run ends.
* **Plan cache.** A definition is never served older than what was committed
  when the request came; the generation moves with every committed write.
* **OAuth.** No code without a consent, no pair whose code is still good, one
  code yields one token family (it does not: section 5), a traded refresh token
  is revoked and presenting it revokes its family, no pair is handed out past
  the family's absolute lifetime.
* **Identity.** One account per external identity, a session or token resolves
  only while live, a restricted token never widens.
* **Upstream.** Every request, at every hop, is inside the allowlist; the
  credential travels only to its bound origin.
* **Definitions.** What validates alone still builds; an import that stops leaves
  nothing an endpoint misreads.

The hazards behind these are listed, each at its line, in `PROJECT.json`.

## 2. Modules

| Module | Models | Kind |
|---|---|---|
| `ToolRun` | one `Executor::run_tool`, from the first look-up to the recorded row | state machine |
| `RunLedger` | what a run promises about its account | abstract specification, implemented by `ToolRun` |
| `MCToolRun` | constants for TLC | instance |
| `ToolRun_proofs` | theorems about `ToolRun` | proofs |
| `Sums`, `Sums_proofs` | the sum of a function's values over a finite set, and its laws | operators, proofs |
| `PlanCache` | definition writers, the generation, the cache and its requests | state machine |
| `PlanCache_proofs` | theorems about `PlanCache` | proofs |
| `OAuthFlow` | consent requests, consents, codes and token families | state machine |
| `GrantLedger` | what the server promises about consents, codes and tokens | abstract specification, implemented by `OAuthFlow` |
| `MCOAuthFlow` | constants and symmetry for TLC | instance |
| `OAuthFlow_proofs` | theorems about `OAuthFlow` | proofs |
| `UpstreamCall` | the client pool, and the pages and hops of dispatched calls | state machine |
| `MCUpstreamCall` | operations for TLC | instance |
| `UpstreamCall_proofs` | theorems about `UpstreamCall` | proofs |
| `Accounts` | users, sign-in, sessions, the user commands | actions, extended by `Grants` |
| `Grants` | service tokens, what a request may reach, run history, the sweep | state machine |
| `MCGrants` | people, token requests and symmetry for TLC | instance |
| `Grants_proofs` | theorems about `Grants` and `Accounts` | proofs |
| `TagText` | tag expressions: parsing, evaluation, printing | operators |
| `Catalog` | the definition rows: the stores' writes, packs, the plan of an endpoint | operators |
| `Definitions` | the requests that write, import and plan definitions | state machine |
| `Catalog_proofs` | lemmas about `TagText` and `Catalog`: what printing, a write and an export keep | proofs |
| `Definitions_proofs` | theorems about `Definitions` | proofs |
| `MCDefinitions` | rows, changes, packs and texts for TLC | instance |

### ToolRun

`pc` is where the run is: `caller` (a script, or the api_call arm of `run_tool`,
about to issue a batch), `grant` (reserved, the remaining time not yet read),
`fanout` (calls waiting, in flight or ended), `bytes` and `pages` (the two
in-order commits), `settle` (verdicts), `record`, and the four ways to stop.

| State | In the code |
|---|---|
| `calls`, `bytes`, `pages` | `BudgetMeter::{calls,bytes,pages}_used` |
| `permits` | the `ConcurrencyLimits` semaphores |
| `item` | the futures and slots of `fan_out` |
| `grant` | the `CallBudget` of the batch |
| `cursor`, `trip` | the loops of `commit_bytes_in_order` and `commit_pages_in_order` |
| `audit` | the bridge's audit sink, or the one batch's entries |
| `doomed` | the script got `BridgeReply::Terminated` |
| `run` | the `runs` row and its `run_calls` rows |

Bodies, names and URLs are left out; an item is its service, pages, bytes, the
time its request started and why it failed.  A batch of one script call names
one api_call, hence one service.  A response over the cap, a transport error and
a timeout are the nondeterministic `CallFails`.  `Abandon` drops the run's future
at an await point, as axum does when the client goes away.

### PlanCache

A writer's transaction is `WriteRow`, `ReadGeneration`, `CheckExists`, `Bump`,
`Commit`, or `Rollback` anywhere: the statements of a store's write and of
`bump_generation_in` at READ COMMITTED, where a row written by an open
transaction blocks other writers of it.  A request is `Ask` (reads the
generation), `Hit` or `Miss` (under the cache's lock), five `Read`s, `Store`.
One cache key is modelled: keys are independent but for the generation, which
is common.  Each of the five kinds of definition is one row with a version.
The several statements with which a kind is read count as one read: a write
commits all of a kind at once and always bumps, so a read torn within a kind is
covered by one torn between kinds.

### OAuthFlow

The handlers of `server/oauth` run one database statement after another, outside
any transaction, so each statement is an action and `handler[h].pc` names the
next one.  Handlers interleave, and `Drop` ends one between any two statements:
the client went away, a statement failed or the process stopped.

| Call | Statements |
|---|---|
| `authorize` | `Authorize` (`has_consent`), then `MintCode` or `Park` |
| `post_consent` | `Decide` (loads the request), `DeleteRequest`, `ReadConsent`, `GrantConsent` or `GrantConflicts`, `MintCode` |
| `exchange_code` | `ReadCode`, `BurnCode`, then `VerifyFails` or `IssueFamily` |
| `refresh::grant` | `Present`, `RotateOut`, `IssueNext`, then `HandOut` or `OutliveFamily`; a revoked token and an over-age family go on to `ReadFamily`, `RevokeOne` ..., `SweepDone` |

The tables are sequences, an id is a position, and a deleted consent request is
one that is not `open`.  Left out: hashes, secrets, redirects and PKCE (but for
the chance that verification fails, which still spends the code), the resource
indicator, client registration, and the `resolve_access_token` of the data
plane, which changes nothing.  There is one client; codes, consents and tokens
of different clients share no row.  `code`, `parent` and `handed` of a token are
history: the properties speak of them, and only `handed` (a client can present
only a token it was given) guards an action.  A call refused before it changes
anything is not a step.

`GrantLedger` has the rows and the clock and nothing of the calls: `Approve`,
`Mint`, `Spend`, `Begin`, `Replace`, `Hand`, `Revoke` and `Elapse`.  It says what
may happen to a row at all, and when: a code is minted only on a consent, a family
begins only on a spent code, a pair follows only one that its client held and that
is revoked, a pair is handed out only within its family's lifetime, and a token is
revoked only when its client traded it or its family was broken already.  That a
code is spent once is not among its promises: the code does not keep it.

### UpstreamCall

What `ToolRun` takes as one item, from `dispatch` to its end.  `call[c].pc` is
`read` and `write` (the two locks of `client_for`), `page` (the loop of
`paginate`), `hop` (the top of `send`'s loop, before the checks), `wait` (a
request is on the wire), and `done` or `failed`.

| Action | In the code |
|---|---|
| `LookUp`, `TakeBuilt`, `Build`, `BuildFails` | `client_for`; no await lies between the write lock and the insertion, so that is one step |
| `NextPage`, `PageCap` | the head of `paginate`'s loop, with `send`'s clock and hops anew |
| `Refused`, `Unsendable`, `SendHop` | `check_url`, the remaining time, the headers, `auth::apply`, the request |
| `Redirected` | a 3xx with a usable `Location` and a hop left, and `downgrade` |
| `AnsweredMore`, `AnsweredLast` | an answer `next_request` finds a cursor in, or not; then `dispatch` on all pages |
| `Breaks`, `TimesOut` | every other end of a hop |

The pool is one for all owners and knows a client by its service's slug alone,
while slugs are unique per owner only: `Services` are those of all owners,
`SlugOf` their slugs, and `built` the service each client took its default
headers, timeouts and connections from.

A request is its origin, whether it is other than a GET and whether it has a
body.  The allowlist, the denied literals and the bound origin are those of one
service: a call looks at no others, and calls meet only in the pool.  A host
*name* that resolves to denied addresses fails in the resolver, as a transport
error (`Breaks`).  `sent`, `auth`, `count` and `more` are history that no
guard reads.  A call refused before it asks for its client is not a step.

### Accounts and Grants

Every HTTP call and every command is a task that runs one statement after
another, outside a transaction; `task[t].pc` names the next statement and the
other fields are what the task carries.  `Drop` ends a task between any two.
Tables are sequences, an id is a position, a deleted row is one not `live`.

| Call | Statements |
|---|---|
| OIDC callback (`find_or_create_by_oidc`) | `SignIn`, `FindLinked` or `NotLinked`, `RefreshEmail`, `FindCandidate`, `Claim`, `CheckTaken`, `InsertLinked`, `Reload`, `OpenSession`; a lost claim looks the identity up again |
| password login, logout | `Login`, `OpenSession`; `Logout` |
| `user add`, `user passwd`, `user delete` | `AddUser`, `InsertUser`; `SetPassword`; `DeleteUser`, `CountUsers`, `RemoveUser` with the cascade of the foreign keys |
| minting and revoking, by API or command | `ApiMint`, `CliMint`, `FindCaller`, `ResolveGrants`, `Mint`; `ApiRevoke`, `CliRevoke`, `FindToken`, `Revoke` |
| an MCP request | `PresentToken`, `Touch`, `LoadGrants`, `LoadSlugs` (`ServiceTokenStore::resolve`), or `PresentOauth` and `FindGranter`; then `ResolvePlan`, or `EnterControlPlane` and `Author`, `ControlTest` or `ControlReadRun`; then `RecordRun` or `AnswerOnly` |
| a test run of the console, `call` and `script run` | `TestRun` or `CliRun`, then as above |
| a run shown | `ReadRun`, `FindRun`, `ShowRun` |
| the retention sweep | `SweepStarts`, then `SweepPicks` and `SweepBatch` in turn until a batch falls short, or `SweepBatchFails`; `SweepSessions` |

One `DELETE` of the sweep is two steps, because at READ COMMITTED its subselect
picks rows that the deletion of a user may take before it does, which then do not
count.  An error ends the purge of the runs, is logged, and the sweep goes on to
the sessions.

`saw`, `asked` and `by` are history: the endpoint rows there were when the call
came, the rows a token was minted with, the subject that signed in.  An endpoint
comes from `WriteEndpoint` or `Author` and is here its owner and its slug.  A
sign-in starts where the provider has named the person: login states, nonces and
PKCE, like hashes and cookies, are left out; so is the list of runs, one read.  Deleting a user also deletes OAuth rows, which are
`OAuthFlow`'s.

A test of the control plane (`api_call.test`, `script.test`) asks for no grant:
a control token that was minted for some endpoints runs any of its owner's items
there, as the code intends.  `RestrictionNeverWidens` is about requests to an
endpoint.

### TagText, Catalog and Definitions

`TagText` parses sequences of tokens with the four levels of the grammar of
`resolve/tag_expr.rs`, as one recursive function of level and place, and keeps of
an expression the tag sets it accepts and the text it prints as.  Splitting a
text into tokens is left out.

`Catalog` is one owner's rows: a table is a function from slugs to rows, child
tables are fields of their parents, and `shape` stands for everything of an item
that only decides which layer refuses it (`pack::validate`, the conversion, the
tables, or none).

| Operator | In the code |
|---|---|
| `Accepts`, `After`, `Kept` | the stores' `create`, `update`, `delete` with the unique indexes, foreign keys and cascades of m0003 to m0005, and what a column makes of a value |
| `Valid`, `Pending` | `pack::validate`, `validate_change` |
| `Export` | `pack::export` |
| `Resolve`, `Digest` | `build_plan` from one moment's rows, and the plan's digest |

`Definitions` interleaves the requests, each statement a step:

| Request | Statements |
|---|---|
| a change of a service, api_call, script or endpoint, by the admin API or the control plane | `AskChange`, `LookUp` where the handler looks its row up, four `ReadTable`s (`build_full_pack`), `Write` or `Refuse` |
| a change of an auth provider (admin API only) | `AskProvider`, `FindProvider`, `ReadService`, `WriteProvider` |
| an import | `AskImport`, then for each row `ReadRow` and `WriteRow`, `FinishImport` |
| a plan | `AskPlan`, `ReadEndpoint`, `ReadCalls`, `ReadScripts`, a `CompileCall` for each call, `CheckOrigins`, a `BindService` for each service, `FinishPlan` |

A store's write is one step: its transaction decides under the locks of the rows
it names (that its generation bump does not is `PlanCache`'s subject).  `fresh` (nobody else has written
since the task began) and `overtaken` (something was written by a task that was
not fresh) are history.  `Disconnect` stops a request between two statements.
Left out: the compilation of templates, schemas and JSON paths, budgets but for
the two numbers whose columns change them, an item's `enabled` (neither
validation nor `build_plan` looks at it), lists and gets, and an export's several
reads, which are one here.

## 3. Runs

| Run | Shows | Bounds |
|---|---|---|
| `ToolRunTimed` | permits, payment, row numbers, how far a batch outlasts the deadline, termination | two services (ceilings 2 and 1), 2 batches of up to 2 calls, 2 pages each, a deadline of one tick, 5 ticks |
| `ToolRunBudgets` | the budgets, in-order verdicts, `RunLedger` | one service, 2 batches of up to 3 calls, 2 page sizes, all three caps within reach |
| `ToolRunDeadline` | *violation*: a request starts after the deadline | as `ToolRunTimed`, one page size, 2 ticks |
| `ToolRunRows` | *violation*: an answered request without a row | as `ToolRunBudgets`, smaller |
| `PlanCacheOneWriter` | freshness, the current entry, the generation | 1 writer with 2 transactions, 2 requests asking 3 times, 1 restart |
| `PlanCacheTwoWriters` | *violation*: a stale plan is served as current | 2 writers with 1 transaction each, 1 request asking twice |
| `OAuthFlow` | codes, rotation, lifetime, revocation, `GrantLedger` | 2 calls at a time, 6 in all, 1 user, 2 scopes, 3 ticks |
| `OAuthCode` | *violation*: one code starts two families | the same |
| `OAuthConsent` | *violation*: an approval is refused and forgotten | the same |
| `UpstreamCall` | every hop, the caps, complete successes, one client per slug, no upgrade, termination | 2 calls of 3 operations on 3 services of 2 slugs, 4 origins, 2 pages, 1 redirect a page, a deadline of less than a tick |
| `Identity` | accounts and links, restricted tokens, revocation, deletion of owners, the sweep | 2 calls at a time, 3 in all, 2 addresses, 2 people, 2 slugs, 2 endpoint rows, 2 kinds of token, 2 ticks, batches of 1 |
| `Definitions` | rows, validation, imports, plans, exports, credentials kept | 2 requests at a time, 3 in all, 22 changes, 3 packs, 4 texts, 2 services, 2 providers, 2 slugs, 1 endpoint, 2^31 taken as 2 |

Why the bounds are enough to be of interest: two batches reach every carry-over
of the meter, the semaphores and the numbering; three items are the least for
two axes to trip at different places after one that counts; `MaxItems` over
`MaxBatch` reaches the refused batch; a deadline of one tick can pass before,
between and during the steps of a batch, and the five ticks are the four that two
calls of one slot with two pages each can take after a grant at the start, and one
for them to be too many.  Two requests over two writes is the
least in which an older build finishes after a newer one.  Six calls take a
family from its authorization (three calls) through a rotation, a reuse and
another rotation beside it; with lifetimes of 1 (codes, requests, access) and
2 ticks (refresh, family) each of them ends within the three ticks, and the
family's can end between a rotation and its check.  Refresh and family lifetime
are equal, as in the code.  Handlers and scopes are symmetric.  In
`UpstreamCall` two pages with a redirect each mix both ways (the redirect before
and after a page), the origins are the bound one, an allowed other, a denied
literal and a foreign one, two of the three operations are on two owners' services
of one slug and the third on one of another slug, and one tick ends the time of a
page.  In `Identity` two calls at a time are the least in
which sign-ins race and a deletion meets an insertion; the first user begins
with an endpoint, so that one call can mint, or a token is already there
(`Init`), and the others delete, create again and present it, or there are two
users with a run each, so that a sweep has several batches and a deletion to
meet on the way; sessions, tokens and runs expire within two ticks, and with
batches of one the sweep goes round
while a run is recorded.  Tasks and people are symmetric.  In `Definitions` three
requests are the least in which two changes overtake each other and a third
reads what they left; the changes are those that validate alone and not
together, move an origin, take away what another row refers to, swap an alias,
or are refused by each layer in turn; the packs one that lands on what is there,
one the store refuses half way and one the conversion does; one text is accepted
only by the precedence of `and`, one is malformed.  The bounded counters
(`MaxBatches`, `PageBound`, `Horizon`, `MaxWrites`, `MaxAsks`, `MaxRestarts`,
`MaxCalls`, `MaxEndpoints`, `MaxRequests`) are
guards of the actions, and the theorems hold for every value of them.

**Fairness** (`ToolRun!FairSpec`, for `RunEnds` only): weak fairness of the
run's own steps.  The code justifies it so: the executor is a task on a running
runtime, every request carries a timeout (`send` gives each one a deadline, so
an item in flight always ends), a script is cut off by its operation limit and
by the deadline hook, so its caller step is eventually taken.  There is no
fairness on the clock, on a disconnect, or on which outcome is chosen.  That
pages are finite is the bound `PageBound`: without `max_pages` an upstream that
always names a next page is followed without end.

`UpstreamCall!FairSpec`, for `CallsEnd` only: weak fairness of what the task does
by itself and of its clock.  A task on a running runtime is polled, locks are
handed on in turn, and `reqwest` is given what is left of the deadline as its
timeout.  Nothing is assumed of the upstream: it may answer, redirect or stay
silent for ever.  That the call ends nonetheless needs the timeout and
both caps.

`Grants` and `Definitions` assume no fairness: their properties are of safety,
and a request may be dropped at any statement.

## 4. What is proved

`ToolRun_proofs`, from `RunAssumption` alone (types of the constants, no bound):

* `RunTypes`, `BudgetsHold`, `PermitsHold`, `ConcurrencyIsBounded`.  The
  inductive invariant `IInv` is `TypeOK`, `WithinBudget`, `PermitsConserved` and
  `BatchShape`: the last says that calls are in flight only while the batch fans
  out, without which a new batch could overwrite a call that holds a permit, and
  that the cut indices are those of the batch.
* `OverrunHolds`: the remaining time is read once for a batch, and every request of
  it gets the whole of it again, so a batch outlasts its deadline; by how much is
  bounded all the same.  Time passes only while no permit is free for the taking
  and no request is past its time, so the calls that hold permits account for it
  (`Pace`), each request they have made for as much as the grant (`PaidUntil`), and
  no call makes more requests than it has pages (`Asked`).  Together: as if the
  calls were made one after another, which is what a ceiling of 1 comes to.
* `RowsNumbered`: every entry's number is its place in the trail (`Numbering`),
  kept because each delivery numbers its entries from the trail's length.
* `AccountIsKept`: `ToolRun` implements `RunLedger`.  Every step of the run is a
  `Spend`, a `Close` or a stutter of the ledger; the trail is only extended.
* `VerdictsHold`: what the batch delivers is what the grant covers, in input
  order, whatever order the calls ended in.  The invariant is about a commit half
  done (`CommitInv`): the grant is what was left when the batch was reserved, so
  it is what is left now plus what the batch has been charged since
  (`GrantFollowsMeter`), and a commit has tripped at the first call whose prefix
  the grant does not cover, or nowhere yet (`CommitShape`).
* `ResultsPaidFor`: no run gives out more than it paid for.  The invariant
  (`Account`) says at every step that the meter covers the trail, the reservation
  and the charges of the batch in hand; that a batch's charges become its entries
  is `AccountCarries`, from `DeliveredIsCovered` and `VerdictsAreCharged`.
* `FanOutNeverStalls`: while a slot of the batch is open, some call is in flight
  or finds both its permits free.  It is the safety half of `RunEnds`, and follows
  from the conservation of permits and ceilings of at least 1.

`Sums_proofs` is what `VerdictsHold` and `ResultsPaidFor` add up with.  A sum is a
fold of the community modules, a recursive function, hence a CHOOSE: that some
function satisfies the recursion is shown one size of set at a time
(`FoldExists`), and each law by taking a smallest subset that breaks it
(`LeastNat`, from `WFMin`).  This is induction in a form that needs no operator
as a parameter.

`PlanCache_proofs`, from `CacheAssumption`:

* `CacheTypes`, with any number of writers.
* `PlansAreFresh`, `CurrentEntryHolds`, `GenerationCounts`, under `OneWriter`
  (at most one definition writer), for any number of requests.  The inductive
  invariant says what the generation a request holds is worth: while it is the
  current one, what the request saw when it came, and every row it has read
  since, is what is stored (`RequestsKnow`); requests that hold the same
  generation saw the same definitions (`GenerationsAgree`); and an entry is no
  older than what whoever could hit it saw (`EntryIsSound`).  The hypothesis is
  needed: `PlanCacheTwoWriters` is the counterexample without it.

`OAuthFlow_proofs`, from `FlowAssumption`: `FlowTypes`, `CodesConsented`,
`FamiliesSpend`, `RotationRevokes`, `LifetimeHolds`, `SweepCompletes` and
`GrantsKept`, for any number of handlers, users and scopes and any lifetimes.
The argument is one of stability: the rows only move one way (`Kept`: a code is spent, a token revoked,
a consent given, never back), so what a handler has read or written
(`HandlerKnows`) is not undone by the statements of others (`StillKnows`), nor
is what holds of a stored token (`StillHolds`).  What is not stable - that a code
read as unused is still unused when it is marked - is what `OAuthCode` violates.
`RotationRevokes` needs that a handler about to issue has revoked its row;
`LifetimeHolds` that a new row is younger than every row of its family.
`GrantsKept` shows that `OAuthFlow` implements `GrantLedger`: each statement that
writes a row is one of the ledger's steps, and the others are stutters.  What the
ledger asks of a step is what the handler knows: that the token it rotates was in
its client's hands, that the row it is about to check or sweep belongs to a family
with a revoked row (`Broken`, stable like the rest), and that all it has to sweep
is of that family.

`UpstreamCall_proofs`, from `CallAssumption`: `CallTypes`, `HopsAreChecked`,
`RequestsBounded`, `SuccessIsComplete`, `OneClient` and `NothingUpgrades`, for any
number of calls and services and any caps.  But for the pool an action changes
one call from that call alone, so the invariant is `Sound`, a predicate on one
call's record, with one lemma per action on it, and `Pooled`.  `RequestsBounded`
needs the account of `Counted`: the pages so far are paid in full and the one
under way hop by hop.  `NothingUpgrades` needs that the request about to go out
is no upgrade of the last one that did.  `OneClient` needs that a call holds the
client of its service's slug and that no slug has had two built (`Pooled`); that
the services of one slug may be of several owners is why it speaks of slugs.

`Grants_proofs`, from `IdentityAssumption`: `TypesHold`, `RestrictionHolds`,
`SignInsHold`, `OwnershipHolds`, `SweepHoldsThroughout`, `RevocationHolds`,
`LinksHold` and `ClaimsHold`, for any number of calls, users, endpoints, tokens
and runs.  The argument is again one of stability.  The tables only move one way
(`Kept`: an account keeps the identity it is linked to, an endpoint its owner
and slug, a token what it was minted with, and what is deleted does not come
back), so what a call has read (`Knows`) is good until its next statement
(`StillKnows`); `TablesHold` is what is true of the rows by themselves.  Each
action has a lemma that it moves the tables within `Kept` and leaves its own
call with what `Knows` asks at its new place.  `RestrictionHolds` needs that an
owner's live endpoints differ in slug, and that a slug read with a token's
grants can only name the granted row or one created since the call came.
`SweepHoldsThroughout` speaks of the step that ends the purge of the runs
(`PurgeEnds`); it needs that what a batch picked short of its size was all there
was, and that a run that expires for this cutoff was there when it did: no
run is recorded with a time in the past.  `SignInsHold` needs that the row a
sign-in is about to reload is linked to its
person, which a claim that lost the race gets only by looking again.

`Definitions_proofs`, from `CatalogAssumption`, `NoneIsNoRow`,
`DefinitionsAssumption`, `StartIsSound` and `TextsAssumption` (a written text is a
sequence of tokens, and `Texts` holds what its members print as): `RowsHold`,
`ValidityHolds`, `LandingHolds`, `PlansHold`,
`ExportsHold` and `BindingsHold`, for any number of requests, slugs, texts and
packs.  The invariant (`Inv`) has two halves.  What a request has read is what is
stored for as long as it is fresh (`WorkHolds`: the tables a change has read so
far, the rows an import has written, the rows a plan is built from), and a commit
of another leaves nothing to show (`Behind`).  What the tables owe is kept one
write at a time by the lemmas of `Catalog_proofs`: `AfterSound` and `AfterKept`
for any accepted change, with one lemma per table and per cascade; `AfterValid`
for a change that was validated against the tables it is written to, which is
what a fresh `Write` has; and `FittingRow` for an import, whose rows were
validated as a whole and are written one by one: since services go first, then
calls, scripts and endpoints, what a row refers to is stored already
(`EarlierIsThere`).  `PlansHold` follows the reads of `build_plan` up to
`Selection`, the plan by the slugs it selects; a failed check is a witness that
the endpoint resolves to nothing (`Resolves`).  `ExportsHold` shows more than the
run asks: not the digests but the plans themselves are equal (`ExportResolves`),
because rows are stored so that storing them again changes nothing (`AsKept`).
`BindingsHold` goes through every write: one that is not of the endpoint leaves its
scope but for the providers it takes (`ScopesElsewhere`, `ProviderScopes`), one that
is gives it the scope that was asked for or read (`ScopeHolds`, `ScopeIsWritten`),
and a provider only changes by its own request or goes with its service
(`WriteProviderByHand`, `ProvidersStay`).

That storing a tag expression keeps what it accepts is `PrintedTextsParseBack` of
`Catalog_proofs`: every text that parses prints as a text that parses to the same
expression, as `tag_expr.rs` claims of its parentheses.  The expressions that are
read back wherever they stand with no operator after them (`RoundTrips`) are
closed under `has`, `not`, `and` and `or` (`StableClosed`), so whatever a text
parses to is one of them (`ParseStable`).  `ParseFrom` and `Joined` are recursive
functions, again a CHOOSE: a reading of the text is built rank by rank
(`ParseExists`), a rank being the level and how far the end is, which is where it
matters that every level reads at least one token.

Only model-checked: `RunEnds` and `CallsEnd` (liveness under fairness, out of the
prover's reach).

## 5. Disagreements with the documentation

`PROJECT.json` quotes them under `findings`: requests of pages and of queued
calls start after the deadline; a run is recorded without rows of requests that
were made; two concurrent definition writers lose an invalidation; two
exchanges of one authorization code both get a pair; the approval of a second
scope of a client is refused by an index and forgotten.

Met while modelling and not the subject of a run of their own:

* `pack/import.rs:35-39` says validation catches every structural problem a pack
  can name before a row is written.  A pack can validate and be refused half way
  all the same: by the conversion (shape `unconvertible`) or by a table
  (`unstorable`, ambiguous aliases, a call that is there under another service).
  `Definitions` has all of these, and `ValidUnlessOvertaken` what still holds.
* `pack/import.rs:72-73` calls a second import of the same pack unchanged.  What
  `Kept` changes (a rate limit of zero or of 2^31 and more, a fixed value of a
  script's parameter, a script's budget of 2^31 and more) is reported as updated
  for ever.
* A script's budget of 2^31 and more becomes negative in its column and is loaded
  as zero (`store/script.rs:203-208`, `227-233`).
* The provider scope of an endpoint becomes empty when its only provider is
  deleted (the cascade of `m0005_endpoints.rs:220-236`), and empty means every
  provider (`resolve/auth_bind.rs:16-18`).  Importing an exported pack empties it
  too.
* An export drops an alias whose target does not exist from the items it takes
  along but not from the endpoint (`pack/export.rs:118-122` goes on silently); so the
  pack does not validate.  `ExportsReproduceThePlan` excludes it by `overtaken`:
  only racing writes leave such an alias.
* `assert_bound` looks at one call of each service, while compilation read the
  service once per call: two calls may hold different origins.  Each send checks
  its own origin against the provider again (`http/auth.rs:28-39`).
* Two updates of one provider at once can bring an old credential back: the one
  that leaves it out writes what it read.  The control plane's update of an
  endpoint brings an old scope back in the same way.  `BindingsAreSetByHand` says
  that what is written is what was read, not that it is still in place.
* `http/client.rs:24-26` keeps one client per slug so that one slow service does
  not starve the others, and `client_for` (line 41) "returns the cached client for
  `service`".  The pool is one for all owners and slugs are unique per owner only
  (`ux_services_owner_slug`, `m0003_definitions.rs`): two owners' services of one
  slug share a client, with the default headers, timeouts and connections of the
  one that was called first.
  `ClientsAreShared` says what holds.
* `purge_expired` takes a batch of fewer rows than asked for as its last
  (`store/run.rs:202`).  When the deletion of a user takes rows its subselect had
  picked, a batch falls short with expired runs left; they stay, as after a failed
  statement (`server/retention.rs:53`), until the next hour's sweep.
* `server/oauth/consent.rs:70-71` says an answered consent request can never be
  replayed to mint a second code.  It is loaded and then deleted: two posts of one
  form at once both load it, and two approvals mint two codes.
* `store/tag.rs:158-173` means to look a tag up again after its insertion
  collided; inside a transaction of Postgres that statement fails as well.
* `server/api/test_run.rs:50-55` says the caller of a test is always a session;
  the control plane passes a service token.  `cli/call.rs` speaks of two kinds of
  caller of a run; there are four.
* `last_user_guard` (`cli/user.rs:118`) counts, then deletes: two commands at once
  can delete the last two users.
* A pair a rotation issues after its family's revocation has read the rows
  (`store/oauth_tokens.rs:124`) is not revoked.
* A run is shown from two statements: a sweep between them shows it without
  its calls.
* Each process of the command line has its own client pool; what `UpstreamCall`
  says of one pool holds for each.

## 6. Plan

Written, in this order: `ToolRun`, `PlanCache`, `OAuthFlow`, `UpstreamCall`,
`Accounts` and `Grants`, `Catalog` and `Definitions`, each with its proofs.
What is left:

1. `Budgets::fold` against a reference definition (it only narrows).
2. `DataPlane`: the composition of `PlanCache` and `ToolRun`: a run is bound to
   the plan it started with.

**Not modelled.** The Rhai language; JSON formatting, schema rendering, argument
binding and projection (pure functions over JSON, each with its unit tests);
redaction and the secret type (guarantees of types); entity code (generated) and
the runner of migrations, whose advisory lock and connections belong to the pool
of a library; parsing of configuration, of the command line and of YAML; the
protocol of the identity provider; the web application, which keeps no state the
server relies on.
