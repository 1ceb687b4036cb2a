---------------------------- MODULE Definitions ----------------------------
(***************************************************************************)
(* The requests that write and read one owner's definitions.               *)
(*                                                                         *)
(* The admin API (server/api) and the control plane (server/mcp/control)   *)
(* validate a change against a snapshot and write it afterwards; an import *)
(* (pack/import.rs) writes row by row; a plan (resolve/) is built from one *)
(* read after another.  None holds a transaction across its statements, so *)
(* each statement is a step here, and tasks interleave between them.  A    *)
(* task whose client goes away stops where it is.                          *)
(*                                                                         *)
(* `fresh` is history: nobody else has written since the task began.       *)
(* `overtaken` is history: something was written by a task not fresh.      *)
(***************************************************************************)
EXTENDS Catalog

CONSTANTS
  Tasks,
  Start,       \* the definitions to begin with
  Changes,     \* what is asked for: a change, and who asks
  Packs,       \* what is imported
  MaxRequests  \* bound: requests that arrive

\* `by` is "api" or "control".  A provider's secret is Env, or for a stored one what
\* is submitted: a secret, Unset to clear it, or None to leave it as it is.
ProviderRequest == [service : Services, bound : Origins, secret : Secrets \cup {Env, Unset, None}]

Asked == [by : {"api", "control"},
          change : ServiceChange \cup CallChange \cup ScriptChange \cup EndpointChange]
           \cup [by : {"api"}, change : Change("providers", Providers, ProviderRequest)]

Pack == [services : [Services -> Service \cup {None}],
         api_calls : [Slugs -> ApiCall \cup {None}],
         scripts : [Slugs -> Script \cup {None}],
         endpoints : [Endpoints -> Endpoint \cup {None}]]

ASSUME DefinitionsAssumption ==
  /\ Start \in Database
  /\ Changes \subseteq Asked
  /\ Packs \subseteq Pack
  /\ MaxRequests \in Nat

\* To begin with there are the definitions earlier requests can have left.
ASSUME StartIsSound == SoundRows(Start) /\ AsKept(Start) /\ Valid(Snapshot(Start))

VARIABLES db, task, requests, overtaken

vars == <<db, task, requests, overtaken>>

Idle == [kind |-> "idle", fresh |-> TRUE]

Init ==
  /\ db = Start
  /\ task = [t \in Tasks |-> Idle]
  /\ requests = 0
  /\ overtaken = FALSE

Goes(t, new) ==
  /\ task' = [task EXCEPT ![t] = new]
  /\ UNCHANGED requests

\* A step that only reads.
Reads(t, new) == Goes(t, new) /\ UNCHANGED <<db, overtaken>>

\* A request arrives for an idle task, or for one whose last answer was sent.
Arrives(t, new) ==
  /\ task[t].kind \in {"idle", "imported", "planned"}
  /\ requests < MaxRequests
  /\ requests' = requests + 1
  /\ task' = [task EXCEPT ![t] = new]
  /\ UNCHANGED <<db, overtaken>>

\* A store commits change `c` for task `t`; every other task is behind now.
Commits(t, c, new) ==
  /\ Accepts(db, c)
  /\ db' = After(db, c)
  /\ task' = [u \in Tasks |-> IF u = t THEN new
                              ELSE IF task[u] = Idle THEN Idle
                              ELSE [task[u] EXCEPT !.fresh = FALSE]]
  /\ UNCHANGED requests

\* The future of a request is dropped.
Disconnect(t) ==
  /\ task[t].kind \in {"change", "provider", "import", "plan"}
  /\ Reads(t, Idle)
-----------------------------------------------------------------------------
(* Services, api_calls, scripts and endpoints: validate, then write.       *)

\* build_full_pack reads in this order.
Order == <<"services", "api_calls", "scripts", "endpoints">>

\* An update or a delete of a call, and the control plane's update of an endpoint,
\* look up the row first.
LooksUp(a) ==
  \/ a.change.table = "api_calls" /\ a.change.verb # "create"
  \/ a.change.table = "endpoints" /\ a.change.verb = "update" /\ a.by = "control"

\* The control plane may not name providers: none on create.
Scoped(a) ==
  IF a.by = "control" /\ a.change.table = "endpoints" /\ a.change.verb = "create"
  THEN [a.change EXCEPT !.def.scope = {}]
  ELSE a.change

AskChange(t) ==
  \E a \in Changes :
    /\ a.change.table # "providers"
    /\ Arrives(t, [kind |-> "change", asked |-> a, change |-> Scoped(a),
                   next |-> IF LooksUp(a) THEN 0 ELSE 1, found |-> None,
                   seen |-> Snapshot(Empty), fresh |-> TRUE])

\* An update by the control plane drops the scope it was sent; the scope read stands.
KeepScope(c, row) ==
  IF c.table = "endpoints" THEN [c EXCEPT !.def.scope = row.scope] ELSE c

\* find(), or the control plane's get_by_owner().
LookUp(t) ==
  /\ task[t].kind = "change" /\ task[t].next = 0
  /\ LET c == task[t].change
         row == db[c.table][c.slug]
         moved == c.table = "api_calls" /\ c.verb = "update" /\ ~SameParent(c, row)
     IN IF row = None \/ moved THEN Reads(t, Idle)
        ELSE Reads(t, [task[t] EXCEPT !.next = 1, !.found = row,
                                      !.change = IF c.verb = "update" THEN KeepScope(c, row)
                                                 ELSE c])

ReadTable(t) ==
  /\ task[t].kind = "change" /\ task[t].next \in DOMAIN Order
  /\ LET name == Order[task[t].next]
     IN Reads(t, [task[t] EXCEPT !.seen[name] = db[name], !.next = @ + 1])

\* validate_change.
Validated(t) == Valid(Pending(task[t].seen, task[t].change))

AllRead(t) == task[t].kind = "change" /\ task[t].next = Len(Order) + 1

\* A delete names the parent of the row that was looked up.
Found(t, c) ==
  c.verb = "delete" /\ task[t].found # None => db[c.table][c.slug].service = task[t].found.service

\* The body converts, once it has been validated, and the store accepts it.
Stores(t, c) ==
  /\ c.verb # "delete" => Converts(c.table, c.def)
  /\ Accepts(db, c) /\ Found(t, c)

Write(t) ==
  /\ AllRead(t)
  /\ Validated(t) /\ Stores(t, task[t].change)
  /\ Commits(t, task[t].change, Idle)
  /\ overtaken' = (overtaken \/ ~task[t].fresh)

Refuse(t) ==
  /\ AllRead(t)
  /\ ~Validated(t) \/ ~Stores(t, task[t].change)
  /\ Reads(t, Idle)
-----------------------------------------------------------------------------
(* Auth providers: the admin API only, checked against the service's row.  *)
AskProvider(t) ==
  \E a \in Changes :
    /\ a.change.table = "providers"
    /\ Arrives(t, [kind |-> "provider", change |-> a.change,
                   next |-> IF a.change.verb = "create" THEN "service" ELSE "find",
                   found |-> None, fresh |-> TRUE])

\* A delete needs no more than the row; an update may not move the provider.
FindProvider(t) ==
  /\ task[t].kind = "provider" /\ task[t].next = "find"
  /\ LET c == task[t].change
         row == db.providers[c.slug]
     IN IF row = None \/ (c.verb = "update" /\ row.service # c.def.service) THEN Reads(t, Idle)
        ELSE Reads(t, [task[t] EXCEPT !.found = row,
                                      !.next = IF c.verb = "delete" THEN "write" ELSE "service"])

\* The service exists and its allowlist has the origin the provider is bound to.
ReadService(t) ==
  /\ task[t].kind = "provider" /\ task[t].next = "service"
  /\ LET s == db.services[task[t].change.def.service]
     IN IF s # None /\ task[t].change.def.bound \in s.allowlist
        THEN Reads(t, [task[t] EXCEPT !.next = "write"])
        ELSE Reads(t, Idle)

\* apply_credential_value, without the value carried over.
SecretMutant(submitted, found) == IF submitted = None THEN Unset ELSE submitted

Secret(submitted, found) ==
  IF submitted # None THEN submitted
  ELSE IF found = None \/ found.secret = Env THEN Unset
  ELSE found.secret

ProviderWrite(t) ==
  LET c == task[t].change
  IN IF c.verb = "delete" THEN c
     ELSE [c EXCEPT !.def.secret = Secret(@, task[t].found)]

WriteProvider(t) ==
  /\ task[t].kind = "provider" /\ task[t].next = "write"
  /\ IF Stores(t, ProviderWrite(t))
     THEN Commits(t, ProviderWrite(t), Idle)
     ELSE Goes(t, Idle) /\ UNCHANGED db
  /\ UNCHANGED overtaken
-----------------------------------------------------------------------------
(* Import: every row of a pack that validates is read, then written.       *)
Rows(p) == UNION {{<<name, k>> : k \in Present(p[name])} : name \in PackTables}

AskImport(t) ==
  \E p \in Packs :
    /\ Valid(p)
    /\ Arrives(t, [kind |-> "import", pack |-> p, todo |-> Rows(p), row |-> None,
                   verb |-> None, fresh |-> TRUE])

Rank(name) == CHOOSE i \in DOMAIN Order : Order[i] = name

\* Services first, then calls, scripts and endpoints; the order of slugs is left out.
First(todo) == {r \in todo : \A o \in todo : Rank(r[1]) <= Rank(o[1])}

\* The row is converted, and a call looked up under the service the pack gives it.
ReadRow(t) ==
  /\ task[t].kind = "import" /\ task[t].row = None /\ task[t].todo # {}
  /\ \E r \in First(task[t].todo) :
       LET row == db[r[1]][r[2]]
           new == task[t].pack[r[1]][r[2]]
           there == row # None /\ (r[1] = "api_calls" => row.service = new.service)
       IN IF Converts(r[1], new)
          THEN Reads(t, [task[t] EXCEPT !.row = r, !.verb = IF there THEN "update" ELSE "create"])
          ELSE Reads(t, Idle)

RowChange(t) ==
  LET r == task[t].row
  IN [table |-> r[1], verb |-> task[t].verb, slug |-> r[2], def |-> task[t].pack[r[1]][r[2]]]

\* The first row the store refuses ends the import; the rows before it stay.
WriteRow(t) ==
  /\ task[t].kind = "import" /\ task[t].row # None
  /\ IF Accepts(db, RowChange(t))
     THEN /\ Commits(t, RowChange(t), [task[t] EXCEPT !.todo = @ \ {task[t].row}, !.row = None,
                                                      !.verb = None])
          /\ overtaken' = (overtaken \/ ~task[t].fresh)
     ELSE Reads(t, Idle)

FinishImport(t) ==
  /\ task[t].kind = "import" /\ task[t].todo = {}
  /\ Reads(t, [kind |-> "imported", pack |-> task[t].pack, fresh |-> task[t].fresh])
-----------------------------------------------------------------------------
(* build_plan: the endpoint, all calls, all scripts, then for each call its *)
(* service and for each service its provider.                              *)
Planned(t, plan) ==
  [kind |-> "planned", endpoint |-> task[t].endpoint, plan |-> plan, fresh |-> task[t].fresh]

AskPlan(t) ==
  \E e \in Endpoints :
    Arrives(t, [kind |-> "plan", endpoint |-> e, next |-> "endpoint", x |-> None, calls |-> <<>>,
                scripts |-> <<>>, services |-> <<>>, bound |-> {}, fresh |-> TRUE])

Step(t, next) == task[t].kind = "plan" /\ task[t].next = next

\* No row: the plan fails.
ReadEndpoint(t) ==
  /\ Step(t, "endpoint")
  /\ LET x == db.endpoints[task[t].endpoint]
     IN IF x = None THEN Reads(t, Planned(t, None))
        ELSE Reads(t, [task[t] EXCEPT !.x = x, !.next = "api_calls"])

ReadCalls(t) ==
  /\ Step(t, "api_calls")
  /\ LET on == Selected(db.api_calls, task[t].x.expr)
     IN Reads(t, [task[t] EXCEPT !.calls = [c \in on |-> db.api_calls[c]], !.next = "scripts"])

ReadScripts(t) ==
  /\ Step(t, "scripts")
  /\ LET on == Selected(db.scripts, task[t].x.expr)
     IN Reads(t, [task[t] EXCEPT !.scripts = [s \in on |-> db.scripts[s]], !.next = "compile"])

\* compile_api_call: the call's service, read once for each call.
CompileCall(t) ==
  /\ Step(t, "compile")
  /\ \E c \in DOMAIN task[t].calls \ DOMAIN task[t].services :
       LET s == db.services[task[t].calls[c].service]
       IN IF s = None \/ task[t].calls[c].shape # "good" THEN Reads(t, Planned(t, None))
          ELSE Reads(t, [task[t] EXCEPT
                           !.services = [k \in DOMAIN @ \cup {c} |-> IF k = c THEN s ELSE @[k]]])

\* reachable_origins.
CheckOrigins(t) ==
  /\ Step(t, "compile") /\ DOMAIN task[t].calls = DOMAIN task[t].services
  /\ IF \A c \in DOMAIN task[t].services : task[t].services[c].origin \in task[t].services[c].allowlist
     THEN Reads(t, [task[t] EXCEPT !.next = "bind"])
     ELSE Reads(t, Planned(t, None))

\* assert_bound: one call stands for its service, the others are not looked at.
BindService(t) ==
  /\ Step(t, "bind")
  /\ \E c \in DOMAIN task[t].calls :
       LET s == task[t].calls[c].service
           ps == OfService(db.providers, s)
           fits == \A p \in ps : Bound(db.providers[p], task[t].services[c].origin)
                                   /\ InScope(task[t].x, p)
       IN /\ s \notin task[t].bound
          /\ IF fits THEN Reads(t, [task[t] EXCEPT !.bound = @ \cup {s}])
             ELSE Reads(t, Planned(t, None))

\* assert_write_ceiling without its error.
WithinCeilingMutant(calls, ceiling) == TRUE

WithinCeiling(calls, ceiling) == \A c \in DOMAIN calls : AtMost(calls[c].access, ceiling)

\* assert_write_ceiling, build_tools and the plan itself.
FinishPlan(t) ==
  /\ Step(t, "bind")
  /\ \A c \in DOMAIN task[t].calls : task[t].calls[c].service \in task[t].bound
  /\ LET b == task[t]
         plan == PlanOf(b.x, b.calls, b.services, b.scripts)
     IN IF WithinCeiling(b.calls, b.x.ceiling) /\ DistinctNames(plan.tools)
        THEN Reads(t, Planned(t, plan))
        ELSE Reads(t, Planned(t, None))
-----------------------------------------------------------------------------
ChangeSteps(t) == AskChange(t) \/ LookUp(t) \/ ReadTable(t) \/ Write(t) \/ Refuse(t)

ProviderSteps(t) == AskProvider(t) \/ FindProvider(t) \/ ReadService(t) \/ WriteProvider(t)

ImportSteps(t) == AskImport(t) \/ ReadRow(t) \/ WriteRow(t) \/ FinishImport(t)

PlanSteps(t) ==
  \/ AskPlan(t) \/ ReadEndpoint(t) \/ ReadCalls(t) \/ ReadScripts(t)
  \/ CompileCall(t) \/ CheckOrigins(t) \/ BindService(t) \/ FinishPlan(t)

Next ==
  \E t \in Tasks :
    ChangeSteps(t) \/ ProviderSteps(t) \/ ImportSteps(t) \/ PlanSteps(t) \/ Disconnect(t)

Spec == Init /\ [][Next]_vars
-----------------------------------------------------------------------------
(* Properties.                                                             *)

\* Whatever is written at once, by whom and in whatever order, rows keep their types,
\* every reference held by a foreign key names a row, no service has two providers, and
\* a row is stored so that storing what is read of it changes nothing
\* (store/, the foreign keys and unique indexes of m0003 to m0005).
RowsAreSound == SoundRows(db) /\ AsKept(db)

\* The definitions pass their own validation after every write, those of an import
\* that stopped half way included, unless a write overtook another
\* (server/api/validate_write.rs, pack/import.rs).
ValidUnlessOvertaken == overtaken \/ Valid(Snapshot(db))

\* A finished import nobody wrote past stored every row of its pack as its table keeps
\* it, whatever stood there before (pack/import.rs, the stores' create and update).
ImportsLand ==
  \A t \in Tasks :
    task[t].kind = "imported" /\ task[t].fresh =>
      \A r \in Rows(task[t].pack) : db[r[1]][r[2]] = Kept(r[1], task[t].pack[r[1]][r[2]])

\* What a served plan promises whatever was written while it was built: distinct tool
\* names, nothing above the ceiling, every origin on its service's allowlist, and
\* scripts that reach nothing but the plan's own calls.
Sound(plan) ==
  /\ DistinctNames(plan.tools)
  /\ \A u \in plan.tools : u.slug \in DOMAIN plan[IF u.kind = "scripts" THEN "scripts" ELSE "calls"]
  /\ \A c \in DOMAIN plan.calls :
       /\ plan.calls[c].shape = "good"
       /\ AtMost(plan.calls[c].access, plan.endpoint.ceiling)
       /\ plan.services[c].origin \in plan.services[c].allowlist
  /\ \A s \in DOMAIN plan.scripts : plan.callable_by[s] \subseteq DOMAIN plan.calls

\* A plan is sound even when rows changed between the reads it was built from; when
\* none did, it is the plan its endpoint resolves to (resolve/mod.rs).
PlansAreFaithful ==
  \A t \in Tasks :
    task[t].kind = "planned" =>
      /\ task[t].plan # None => Sound(task[t].plan)
      /\ task[t].fresh => task[t].plan = Resolve(db, task[t].endpoint)

\* The database an owner with no definitions has after importing a pack.
Imported(p) ==
  LET stored(name) == [k \in DOMAIN p[name] |-> IF p[name][k] = None THEN None
                                               ELSE Kept(name, p[name][k])]
  IN [Empty EXCEPT !.services = stored("services"), !.api_calls = stored("api_calls"),
                   !.scripts = stored("scripts"), !.endpoints = stored("endpoints")]

\* While no write overtook another, the exported pack of an endpoint validates, and
\* imported elsewhere it resolves to a plan of the same digest (pack/export.rs).
ExportsReproduceThePlan ==
  ~overtaken =>
    \A e \in Present(db.endpoints) :
      LET p == Export(db, e)
      IN /\ Valid(p)
         /\ Resolve(db, e) # None =>
              Digest(Resolve(Imported(p), e)) = Digest(Resolve(db, e))

\* A step changes provider `p` as a request of the admin API for it asks.  The secret a
\* request does not submit is the one it read; that is the one in place unless another
\* write came between.
ByHand(p) ==
  \E t \in Tasks :
    LET c == task[t].change
        row == db'.providers[p]
        read == task[t].found
    IN /\ task[t].kind = "provider" /\ c.slug = p /\ task'[t] = Idle
       /\ c.verb = "delete" <=> row = None
       /\ row # None =>
            /\ row.service = c.def.service /\ row.bound = c.def.bound
            /\ c.def.secret # None => row.secret = c.def.secret
            /\ c.verb = "update" /\ c.def.secret = None /\ read.secret # Env =>
                 row.secret = (IF task[t].fresh THEN db.providers[p] ELSE read).secret

\* Task `t` may write endpoint `e` in this step.
MayWrite(t, e) ==
  LET w == task[t]
  IN \/ w.kind = "change" /\ task'[t] = Idle
          /\ w.change.table = "endpoints" /\ w.change.slug = e /\ w.change.verb # "delete"
     \/ w.kind = "import" /\ w.row = <<"endpoints", e>> /\ task'[t] # w /\ task'[t].kind = "import"

\* The scope it writes: what the admin API or the pack asks for, none when the control
\* plane creates the endpoint, and the one it read when it updates it; that is the one
\* in place unless another write came between.
ScopeAsked(t, e) ==
  LET w == task[t]
  IN CASE w.kind = "import" -> w.pack.endpoints[e].scope
       [] w.kind = "change" /\ w.asked.by = "api" -> w.asked.change.def.scope
       [] w.kind = "change" /\ w.asked.by = "control" /\ w.change.verb = "create" -> {}
       [] OTHER -> (IF w.fresh THEN db.endpoints[e] ELSE w.found).scope

\* Every other endpoint keeps its scope but for the providers that went.
ScopeLeft(e) ==
  /\ db.endpoints[e] # None
  /\ db'.endpoints[e].scope = db.endpoints[e].scope \cap Present(db'.providers)

\* A provider changes by hand, or goes with its service; the scope of an endpoint is
\* written as it was asked for, or loses the providers that went and no others.
SetByHand ==
  /\ \A p \in Providers :
       db'.providers[p] # db.providers[p] =>
         \/ ByHand(p)
         \/ /\ db.providers[p] # None /\ db'.providers[p] = None
            /\ db'.services[db.providers[p].service] = None
  /\ \A e \in Present(db'.endpoints) :
       \/ ScopeLeft(e)
       \/ \E t \in Tasks : MayWrite(t, e) /\ db'.endpoints[e].scope = ScopeAsked(t, e)

\* No step changes a provider, or the scope of an endpoint, but as it was asked for by
\* hand or by a pack: whatever else is written, deleted with all that goes with it or
\* imported meanwhile, and whatever was read before another write
\* (server/api/auth_providers.rs, server/mcp/control/endpoints.rs, m0005_endpoints.rs).
BindingsAreSetByHand == [][SetByHand]_vars
=============================================================================
