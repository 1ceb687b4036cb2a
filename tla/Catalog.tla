------------------------------ MODULE Catalog ------------------------------
(***************************************************************************)
(* One owner's definitions, and what the code computes from them without   *)
(* side effects: the stores' writes (store/), the rules of a pack          *)
(* (pack/validate.rs), its export (pack/export.rs) and the plan of an      *)
(* endpoint (resolve/).  Every lookup is scoped to an owner, so one owner  *)
(* is enough.                                                              *)
(*                                                                         *)
(* A table is a function from slugs to rows, None where there is no row.   *)
(* `shape` stands for an item's template, method, JSON paths and           *)
(* parameters: "invalid" is what pack::validate refuses, "unconvertible"   *)
(* what it lets pass and the conversion refuses (an unknown type, a bad    *)
(* body pointer), "unstorable" what only the tables refuse (a local        *)
(* parameter of a call, a name used twice).                                *)
(* Child tables (params, tags, script_api_calls, endpoint_aliases,         *)
(* endpoint_auth_providers) are fields of their parent, which is how the   *)
(* stores read and replace them.                                           *)
(***************************************************************************)
EXTENDS TagText

CONSTANTS
  Services, Providers, Endpoints,  \* slugs
  Slugs,                           \* slugs of api_calls and of scripts
  Names,                           \* tool names
  Origins, Secrets,
  None, Env, Unset,                \* no row; a secret in the environment; none stored
  Half                             \* 2^31, for a column of 32 bits

ASSUME CatalogAssumption ==
  /\ Slugs \subseteq Names
  /\ Env # Unset /\ {Env, Unset} \cap Secrets = {}
  /\ Half \in Nat \ {0} /\ None \notin Nat

Access == {"read", "write"}
Kinds == {"api_calls", "scripts"}

Shapes == {"good", "unconvertible", "unstorable", "invalid"}

\* An optional count of 32 bits without sign.
Count == 0 .. 2 * Half - 1
Limit == Count \cup {None}

\* `limit` is rate_limit_per_min and `calls` max_calls; `fixed`: a parameter has a
\* fixed value.
Service == [origin : Origins, allowlist : SUBSET Origins, limit : Limit]
Provider == [service : Services, bound : Origins, secret : Secrets \cup {Env, Unset}]
ApiCall == [service : Services, access : Access, tags : TagSets, shape : Shapes]
Script == [callable : SUBSET Slugs, tags : TagSets, calls : Limit, fixed : BOOLEAN,
           shape : Shapes]
Alias == [name : Names, kind : Kinds, slug : Slugs]
Endpoint == [expr : Texts, ceiling : Access, aliases : SUBSET Alias,
             scope : SUBSET Providers, shape : Shapes]

ASSUME NoneIsNoRow ==
  None \notin Service \cup Provider \cup ApiCall \cup Script \cup Endpoint

Database == [services : [Services -> Service \cup {None}],
             providers : [Providers -> Provider \cup {None}],
             api_calls : [Slugs -> ApiCall \cup {None}],
             scripts : [Slugs -> Script \cup {None}],
             endpoints : [Endpoints -> Endpoint \cup {None}]]

Empty == [services |-> [s \in Services |-> None], providers |-> [p \in Providers |-> None],
          api_calls |-> [c \in Slugs |-> None], scripts |-> [s \in Slugs |-> None],
          endpoints |-> [e \in Endpoints |-> None]]

Present(table) == {k \in DOMAIN table : table[k] # None}
-----------------------------------------------------------------------------
(* What a store is asked to write.                                         *)
Verbs == {"create", "update", "delete"}

Change(table, slugs, defs) ==
  [table : {table}, verb : {"create", "update"}, slug : slugs, def : defs]
    \cup [table : {table}, verb : {"delete"}, slug : slugs, def : {None}]

ServiceChange == Change("services", Services, Service)
ProviderChange == Change("providers", Providers, Provider)
CallChange == Change("api_calls", Slugs, ApiCall)
ScriptChange == Change("scripts", Slugs, Script)
EndpointChange == Change("endpoints", Endpoints, Endpoint)

\* Two aliases of one endpoint differ in name and in target (m0005_endpoints).
Unambiguous(aliases) ==
  \A a, b \in aliases : a.name = b.name \/ (a.kind = b.kind /\ a.slug = b.slug) => a = b

\* What the conversion takes, and what the table of parameters takes.
Converts(table, x) ==
  /\ table \in {"api_calls", "scripts", "endpoints"} => x.shape # "unconvertible"
  /\ table = "endpoints" => x.expr \in Wellformed

Storable(x) == x.shape # "unstorable"

\* A create wants no row of the slug, an update and a delete want one.
Expected(d, c) == d[c.table][c.slug] = None <=> c.verb = "create"

\* Calls and providers are found by service and slug; an update never moves one.
SameParent(c, row) == row.service = c.def.service

\* What a write needs beside its own row: NotFound, Conflict or a foreign key
\* refuses it otherwise, and its transaction is rolled back.
HasParent(d, c) ==
  /\ d.services[c.def.service] # None
  /\ c.verb = "update" => SameParent(c, d[c.table][c.slug])

AcceptsProvider(d, c) ==
  /\ HasParent(d, c)
  /\ \A q \in Present(d.providers) \ {c.slug} : d.providers[q].service # c.def.service

AcceptsCall(d, c) == Storable(c.def) /\ HasParent(d, c)

AcceptsScript(d, c) == Storable(c.def) /\ c.def.callable \subseteq Present(d.api_calls)

AcceptsEndpoint(d, c) ==
  /\ Storable(c.def)
  /\ c.def.scope \subseteq Present(d.providers)
  /\ Unambiguous(c.def.aliases)

\* Whether the store commits the change.
Accepts(d, c) ==
  /\ Expected(d, c)
  /\ c.verb # "delete" =>
       CASE c.table = "services" -> TRUE
         [] c.table = "providers" -> AcceptsProvider(d, c)
         [] c.table = "api_calls" -> AcceptsCall(d, c)
         [] c.table = "scripts" -> AcceptsScript(d, c)
         [] OTHER -> AcceptsEndpoint(d, c)

\* A count in a signed column of 32 bits.
Signed(n) == IF n < Half THEN n ELSE n - 2 * Half

\* The limit of a service is read back as none unless it is positive; the budget of
\* a script as zero when it is negative, and script_params has no fixed values.
KeptService(x) ==
  [x EXCEPT !.limit = IF @ # None /\ Signed(@) > 0 THEN @ ELSE None]

KeptScript(x) ==
  [x EXCEPT !.calls = IF @ # None /\ Signed(@) < 0 THEN 0 ELSE @, !.fixed = FALSE]

KeptEndpoint(x) == [x EXCEPT !.expr = Printed[@]]

\* The row as its table keeps it.
Kept(table, x) ==
  CASE table = "services" -> KeptService(x)
    [] table = "scripts" -> KeptScript(x)
    [] table = "endpoints" -> KeptEndpoint(x)
    [] OTHER -> x

\* The row and all its child rows, tags included, replaced.
Replaced(d, c) == [d EXCEPT ![c.table][c.slug] = Kept(c.table, c.def)]

\* The rows that go with a deleted row, over the foreign keys ON DELETE CASCADE.
Without(table, gone) == [k \in DOMAIN table |-> IF k \in gone THEN None ELSE table[k]]

DropCalls(d, gone) ==
  [d EXCEPT !.api_calls = Without(@, gone),
            !.scripts = [s \in Slugs |-> IF d.scripts[s] = None THEN None
                                         ELSE [d.scripts[s] EXCEPT !.callable = @ \ gone]]]

DropProviders(d, gone) ==
  [d EXCEPT !.providers = Without(@, gone),
            !.endpoints = [e \in Endpoints |-> IF d.endpoints[e] = None THEN None
                                               ELSE [d.endpoints[e] EXCEPT !.scope = @ \ gone]]]

OfService(table, s) == {k \in Present(table) : table[k].service = s}

\* A delete written without the cascades of its table.
DropServiceMutant(d, s) == [d EXCEPT !.services[s] = None]

DropService(d, s) ==
  DropProviders(DropCalls([d EXCEPT !.services[s] = None], OfService(d.api_calls, s)),
                OfService(d.providers, s))

\* An update that adds the aliases it is given to those there are.
AfterMutant(d, c) ==
  IF c.verb = "update" /\ c.table = "endpoints"
  THEN Replaced(d, [c EXCEPT !.def.aliases = @ \cup d.endpoints[c.slug].aliases])
  ELSE IF c.verb = "delete" THEN [d EXCEPT ![c.table][c.slug] = None] ELSE Replaced(d, c)

\* The tables once a row is deleted, and all that goes with it.
Removed(d, c) ==
  CASE c.table = "services" -> DropService(d, c.slug)
    [] c.table = "providers" -> DropProviders(d, {c.slug})
    [] c.table = "api_calls" -> DropCalls(d, {c.slug})
    [] OTHER -> [d EXCEPT ![c.table][c.slug] = None]

\* The tables after an accepted change.
After(d, c) == IF c.verb = "delete" THEN Removed(d, c) ELSE Replaced(d, c)

\* What the columns, foreign keys and unique indexes make of the tables.
SoundRows(d) ==
  /\ d \in Database
  /\ \A p \in Present(d.providers) : d.services[d.providers[p].service] # None
  /\ \A p, q \in Present(d.providers) :
       d.providers[p].service = d.providers[q].service => p = q
  /\ \A c \in Present(d.api_calls) :
       Storable(d.api_calls[c]) /\ d.services[d.api_calls[c].service] # None
  /\ \A s \in Present(d.scripts) :
       Storable(d.scripts[s]) /\ d.scripts[s].callable \subseteq Present(d.api_calls)
  /\ \A e \in Present(d.endpoints) :
       d.endpoints[e].expr \in Wellformed /\ d.endpoints[e].scope \subseteq Present(d.providers)

\* What is read back of a row is what was kept of it, so that keeping it again changes
\* nothing.
AsKept(d) ==
  /\ \A s \in Present(d.services) : d.services[s].limit = None \/ Signed(d.services[s].limit) > 0
  /\ \A s \in Present(d.scripts) :
       ~d.scripts[s].fixed /\ (d.scripts[s].calls = None \/ Signed(d.scripts[s].calls) >= 0)
  /\ \A e \in Present(d.endpoints) : Printed[d.endpoints[e].expr] = d.endpoints[e].expr
-----------------------------------------------------------------------------
(* Packs: the four tables without providers.                               *)
PackTables == {"services", "api_calls", "scripts", "endpoints"}

Snapshot(d) == [t \in PackTables |-> d[t]]

\* The pack as it was read, without the change.
PendingMutant(p, c) == p

\* A pack with one change applied to it, whether or not the row was there.
Pending(p, c) == [p EXCEPT ![c.table][c.slug] = c.def]

ValidService(x) == x.origin \in x.allowlist
ValidCall(p, x) == x.shape # "invalid" /\ p.services[x.service] # None
ValidScript(p, x) == x.shape # "invalid" /\ x.callable \subseteq Present(p.api_calls)
ValidEndpoint(p, x) ==
  /\ x.shape # "invalid" /\ x.expr \in Wellformed
  /\ \A a \in x.aliases : p[a.kind][a.slug] # None

Valid(p) ==
  /\ \A s \in Present(p.services) : ValidService(p.services[s])
  /\ \A c \in Present(p.api_calls) : ValidCall(p, p.api_calls[c])
  /\ \A s \in Present(p.scripts) : ValidScript(p, p.scripts[s])
  /\ \A e \in Present(p.endpoints) : ValidEndpoint(p, p.endpoints[e])

\* The tag sets of a table's rows the endpoint selects.
Selected(table, expr) == {k \in Present(table) : table[k].tags \in Accepting[expr]}

Targets(x, kind) == {a.slug : a \in {b \in x.aliases : b.kind = kind}}

\* An export of what the tag expression selects, and no more.
NeededMutant(d, scripts) == {}

\* What a selected script calls, whether or not the endpoint selects it.
Needed(d, scripts) == UNION {d.scripts[s].callable : s \in scripts}

Only(table, keys) == [k \in DOMAIN table |-> IF k \in keys THEN table[k] ELSE None]

\* The pack of one endpoint.  A script that calls what does not exist is refused;
\* an alias of something that does not exist is dropped from the items only.
Export(d, e) ==
  LET x == d.endpoints[e]
      scripts == (Selected(d.scripts, x.expr) \cup Targets(x, "scripts")) \cap Present(d.scripts)
      calls == Selected(d.api_calls, x.expr) \cup Targets(x, "api_calls") \cup Needed(d, scripts)
  IN [services |-> Only(d.services, {d.api_calls[c].service : c \in calls \cap Present(d.api_calls)}),
      api_calls |-> Only(d.api_calls, calls),
      scripts |-> Only(d.scripts, scripts),
      endpoints |-> [f \in Endpoints |-> IF f = e THEN [x EXCEPT !.scope = {}] ELSE None]]
-----------------------------------------------------------------------------
(* The plan of an endpoint, from rows read at one moment.                  *)
AtMost(access, ceiling) == access = "read" \/ ceiling = "write"

\* The name of a tool: its alias, or its slug.
ToolName(x, kind, k) ==
  LET named == {a \in x.aliases : a.kind = kind /\ a.slug = k}
  IN IF named = {} THEN k ELSE (CHOOSE a \in named : TRUE).name

Tool == [name : Names, kind : Kinds, slug : Slugs]

ToolsOf(x, calls, scripts) ==
  {[name |-> ToolName(x, "api_calls", c), kind |-> "api_calls", slug |-> c] : c \in calls}
    \cup {[name |-> ToolName(x, "scripts", s), kind |-> "scripts", slug |-> s] : s \in scripts}

DistinctNames(tools) == \A t, u \in tools : t.name = u.name => t = u

\* The plan: the endpoint as read, the calls with their service as read, the
\* scripts, and for each script the calls it may reach.
PlanOf(x, calls, services, scripts) ==
  LET on == DOMAIN calls
      sc == DOMAIN scripts
  IN [endpoint |-> [x EXCEPT !.scope = {}],
      calls |-> calls,
      services |-> services,
      scripts |-> scripts,
      callable_by |-> [s \in sc |-> scripts[s].callable \cap on],
      tools |-> ToolsOf(x, on, sc)]

\* assert_bound, for a service with this provider.
Bound(provider, origin) == provider.bound = origin
InScope(x, p) == x.scope = {} \/ p \in x.scope

\* What an endpoint must resolve to when nothing is written meanwhile, or None.
Resolve(d, e) ==
  LET x == d.endpoints[e]
      on == Selected(d.api_calls, x.expr)
      sc == Selected(d.scripts, x.expr)
      parent(c) == d.services[d.api_calls[c].service]
      usable(c) == /\ d.api_calls[c].shape = "good"
                   /\ parent(c).origin \in parent(c).allowlist
                   /\ AtMost(d.api_calls[c].access, x.ceiling)
                   /\ \A p \in OfService(d.providers, d.api_calls[c].service) :
                        Bound(d.providers[p], parent(c).origin) /\ InScope(x, p)
  IN IF x = None THEN None
     ELSE IF (\E c \in on : ~usable(c)) \/ ~DistinctNames(ToolsOf(x, on, sc)) THEN None
     ELSE PlanOf(x, [c \in on |-> d.api_calls[c]], [c \in on |-> parent(c)],
                 [s \in sc |-> d.scripts[s]])

\* What the digest of a plan is computed over: neither tags nor services.
Untagged(rows) == [k \in DOMAIN rows |-> [rows[k] EXCEPT !.tags = {}]]
Digest(plan) ==
  IF plan = None THEN None
  ELSE [ceiling |-> plan.endpoint.ceiling, calls |-> Untagged(plan.calls),
        scripts |-> Untagged(plan.scripts), tools |-> plan.tools]
=============================================================================
