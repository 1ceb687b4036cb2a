------------------------- MODULE Definitions_proofs -------------------------
(***************************************************************************)
(* The properties of Definitions, for any number of requests, rows, texts  *)
(* and packs.                                                              *)
(*                                                                         *)
(* What a request has read (WorkHolds) is what is stored for as long as it *)
(* is fresh, and nothing is asked of a request that is not: a commit of    *)
(* another makes it stale.  What the tables owe (SoundRows, Valid) is kept *)
(* one write at a time, by the lemmas of Catalog_proofs.                   *)
(***************************************************************************)
EXTENDS Definitions, Catalog_proofs

DefChange == ServiceChange \cup CallChange \cup ScriptChange \cup EndpointChange

\* The tables a change has read before its step `k`; the others are as none.
Have(k, d) ==
  [n \in PackTables |-> IF \E i \in 1 .. 4 : i < k /\ Order[i] = n THEN d[n] ELSE Empty[n]]

\* The scope a change gives an endpoint is the one that was asked for, none for a create of
\* the control plane, and for its update the one of the row that was looked up.
ScopeHolds(w) ==
  w.change.table = "endpoints" /\ w.change.verb # "delete" =>
    /\ w.asked.by \in {"api", "control"}
    /\ w.next = 0 => w.asked.by = "control" /\ w.change.verb = "update"
    /\ w.asked.by = "api" => w.change.def.scope = w.asked.change.def.scope
    /\ w.asked.by = "control" /\ w.change.verb = "create" => w.change.def.scope = {}
    /\ w.asked.by = "control" /\ w.change.verb = "update" /\ w.next > 0 =>
         w.change.def.scope = w.found.scope

\* A change, with what it knows of `d` while it is fresh.
ChangeHolds(w, d) ==
  /\ w.kind = "change"
  /\ DOMAIN w = {"kind", "asked", "change", "next", "found", "seen", "fresh"}
  /\ w.change \in DefChange /\ w.next \in 0 .. 5
  /\ w.fresh => w.seen = Have(w.next, d)
  /\ w.asked.by = "control" /\ w.change.table = "endpoints" /\ w.change.verb = "update"
       /\ w.next > 0 /\ w.fresh =>
       w.change.def.scope = d.endpoints[w.change.slug].scope
  /\ ScopeHolds(w)

\* A change of a provider.
ProviderHolds(w, d) ==
  /\ w.kind = "provider"
  /\ DOMAIN w = {"kind", "change", "next", "found", "fresh"}
  /\ w.change \in Change("providers", Providers, ProviderRequest)
  /\ w.next \in {"find", "service", "write"}
  /\ w.found \in Provider \cup {None}
  /\ w.next \in {"service", "write"} /\ w.change.verb # "create" => w.found # None
  /\ w.fresh /\ w.found # None => w.found = d.providers[w.change.slug]

\* The rows of a pack that are no longer to do are stored.
Landed(p, todo, d) ==
  \A r \in Rows(p) \ todo : d[r[1]][r[2]] = Kept(r[1], p[r[1]][r[2]])

ImportHolds(w, d) ==
  /\ w.kind = "import"
  /\ DOMAIN w = {"kind", "pack", "todo", "row", "verb", "fresh"}
  /\ w.pack \in Pack /\ Valid(w.pack) /\ w.todo \subseteq Rows(w.pack)
  /\ w.row # None =>
       /\ w.row \in First(w.todo) /\ w.verb \in {"create", "update"}
       /\ Converts(w.row[1], w.pack[w.row[1]][w.row[2]])
  /\ w.fresh => Landed(w.pack, w.todo, d)

ImportedHolds(w, d) ==
  /\ w.kind = "imported" /\ DOMAIN w = {"kind", "pack", "fresh"}
  /\ w.fresh => Landed(w.pack, {}, d)

\* What compilation has checked of the services it has read.
Compiled(w) ==
  /\ w.services = [c \in DOMAIN w.services |-> w.services[c]]
  /\ DOMAIN w.services \subseteq DOMAIN w.calls
  /\ \A c \in DOMAIN w.services : w.calls[c].shape = "good"

OriginsChecked(w) ==
  /\ DOMAIN w.services = DOMAIN w.calls
  /\ \A c \in DOMAIN w.calls : w.services[c].origin \in w.services[c].allowlist

\* The providers of a service fit an endpoint and the service's origin in `d`.
Fits(d, x, s) ==
  \A p \in OfService(d.providers, s) :
    Bound(d.providers[p], d.services[s].origin) /\ InScope(x, p)

Taken(table, expr) == [k \in Selected(table, expr) |-> table[k]]

\* What the reads so far gave, while nobody else has written.
Current(w, d) ==
  /\ w.next # "endpoint" => w.x = d.endpoints[w.endpoint]
  /\ w.next \in {"scripts", "compile", "bind"} => w.calls = Taken(d.api_calls, w.x.expr)
  /\ w.next \in {"compile", "bind"} =>
       /\ w.scripts = Taken(d.scripts, w.x.expr)
       /\ \A c \in DOMAIN w.services : w.services[c] = d.services[w.calls[c].service]
  /\ w.next = "bind" => \A s \in w.bound : Fits(d, w.x, s)

PlanHolds(w, d) ==
  /\ w.kind = "plan"
  /\ DOMAIN w = {"kind", "endpoint", "next", "x", "calls", "scripts", "services", "bound", "fresh"}
  /\ w.endpoint \in Endpoints
  /\ w.next \in {"endpoint", "api_calls", "scripts", "compile", "bind"}
  /\ w.next # "endpoint" => w.x \in Endpoint
  /\ w.next \in {"endpoint", "api_calls", "scripts"} => w.services = <<>>
  /\ w.next # "bind" => w.bound = {}
  /\ w.next \in {"compile", "bind"} => Compiled(w)
  /\ w.next = "bind" => OriginsChecked(w)
  /\ w.fresh => Current(w, d)

PlannedHolds(w, d) ==
  /\ w.kind = "planned" /\ DOMAIN w = {"kind", "endpoint", "plan", "fresh"}
  /\ w.plan # None => Sound(w.plan)
  /\ w.fresh => w.plan = Resolve(d, w.endpoint)

WorkHolds(w, d) ==
  \/ w = Idle
  \/ ChangeHolds(w, d) \/ ProviderHolds(w, d)
  \/ ImportHolds(w, d) \/ ImportedHolds(w, d)
  \/ PlanHolds(w, d) \/ PlannedHolds(w, d)

Inv ==
  /\ SoundRows(db) /\ AsKept(db)
  /\ ValidUnlessOvertaken
  /\ DOMAIN task = Tasks
  /\ \A t \in Tasks : WorkHolds(task[t], db)

\* What a request is told by its kind.
LEMMA ByKind ==
  ASSUME NEW w, NEW d, WorkHolds(w, d)
  PROVE  /\ w.kind = "change" => ChangeHolds(w, d)
         /\ w.kind = "provider" => ProviderHolds(w, d)
         /\ w.kind = "import" => ImportHolds(w, d)
         /\ w.kind = "imported" => ImportedHolds(w, d)
         /\ w.kind = "plan" => PlanHolds(w, d)
         /\ w.kind = "planned" => PlannedHolds(w, d)
         /\ w.kind = "idle" => w = Idle
<1>1. Idle.kind = "idle" BY DEF Idle
<1> QED BY <1>1 DEF WorkHolds, ChangeHolds, ProviderHolds, ImportHolds, ImportedHolds, PlanHolds,
               PlannedHolds

\* A request that is behind owes nothing to what is stored.
LEMMA Behind ==
  ASSUME NEW w, NEW d, NEW e, WorkHolds(w, d), w # Idle
  PROVE  WorkHolds([w EXCEPT !.fresh = FALSE], e)
<1> DEFINE u == [w EXCEPT !.fresh = FALSE]
<1>1. CASE ChangeHolds(w, d)
  <2>1. ChangeHolds(u, e) BY <1>1 DEF ChangeHolds, ScopeHolds
  <2> QED BY <2>1 DEF WorkHolds
<1>2. CASE ProviderHolds(w, d)
  <2>1. ProviderHolds(u, e) BY <1>2 DEF ProviderHolds
  <2> QED BY <2>1 DEF WorkHolds
<1>3. CASE ImportHolds(w, d)
  <2>1. ImportHolds(u, e) BY <1>3 DEF ImportHolds
  <2> QED BY <2>1 DEF WorkHolds
<1>4. CASE ImportedHolds(w, d)
  <2>1. ImportedHolds(u, e) BY <1>4 DEF ImportedHolds
  <2> QED BY <2>1 DEF WorkHolds
<1>5. CASE PlanHolds(w, d)
  <2>1. PlanHolds(u, e) BY <1>5 DEF PlanHolds, Compiled, OriginsChecked
  <2> QED BY <2>1 DEF WorkHolds
<1>6. CASE PlannedHolds(w, d)
  <2>1. PlannedHolds(u, e) BY <1>6 DEF PlannedHolds
  <2> QED BY <2>1 DEF WorkHolds
<1> QED BY <1>1, <1>2, <1>3, <1>4, <1>5, <1>6 DEF WorkHolds

\* A step that writes nothing keeps the invariant if its request holds.
LEMMA Quiet ==
  ASSUME Inv, NEW t \in Tasks, NEW new, WorkHolds(new, db),
         task' = [task EXCEPT ![t] = new], db' = db, overtaken' = overtaken
  PROVE  Inv'
<1>1. \A u \in Tasks : task'[u] = IF u = t THEN new ELSE task[u]
  BY DEF Inv
<1>2. DOMAIN task' = Tasks BY DEF Inv
<1>3. \A u \in Tasks : WorkHolds(task'[u], db')
  BY <1>1 DEF Inv
<1>4. ValidUnlessOvertaken' BY DEF Inv, ValidUnlessOvertaken
<1> QED BY <1>2, <1>3, <1>4 DEF Inv

\* A commit keeps it if it keeps what the tables owe: the others are behind.
LEMMA Committed ==
  ASSUME Inv, NEW t \in Tasks, NEW new, NEW c, Commits(t, c, new), WorkHolds(new, db'),
         SoundRows(db'), AsKept(db'), overtaken' \/ Valid(Snapshot(db'))
  PROVE  Inv'
<1>1. task' = [u \in Tasks |-> IF u = t THEN new
                               ELSE IF task[u] = Idle THEN Idle
                               ELSE [task[u] EXCEPT !.fresh = FALSE]]
  BY DEF Commits
<1>2. ASSUME NEW u \in Tasks PROVE WorkHolds(task'[u], db')
  <2>1. CASE u = t BY <1>1, <2>1
  <2>2. CASE u # t /\ task[u] = Idle
    BY <1>1, <2>2 DEF WorkHolds
  <2>3. CASE u # t /\ task[u] # Idle
    <3>1. task'[u] = [task[u] EXCEPT !.fresh = FALSE] BY <1>1, <2>3
    <3>2. WorkHolds(task[u], db) BY DEF Inv
    <3> QED BY <3>1, <3>2, <2>3, Behind
  <2> QED BY <2>1, <2>2, <2>3
<1>3. DOMAIN task' = Tasks BY <1>1
<1> QED BY <1>2, <1>3 DEF Inv, ValidUnlessOvertaken
-----------------------------------------------------------------------------
\* Before the first read nothing is had, after the last the whole pack.
LEMMA HaveEnds ==
  ASSUME NEW d
  PROVE  /\ Have(0, d) = Snapshot(Empty) /\ Have(1, d) = Snapshot(Empty)
         /\ Have(5, d) = Snapshot(d)
<1>1. \A n \in PackTables : \E i \in 1 .. 4 : i < 5 /\ Order[i] = n
  <2>1. /\ 1 \in 1 .. 4 /\ 1 < 5 /\ Order[1] = "services"
        /\ 2 \in 1 .. 4 /\ 2 < 5 /\ Order[2] = "api_calls"
        /\ 3 \in 1 .. 4 /\ 3 < 5 /\ Order[3] = "scripts"
        /\ 4 \in 1 .. 4 /\ 4 < 5 /\ Order[4] = "endpoints"
    BY DEF Order
  <2> QED BY <2>1 DEF PackTables
<1>2. \A i \in 1 .. 4 : ~(i < 0) /\ ~(i < 1)
  OBVIOUS
<1>3. Have(5, d) = Snapshot(d) BY <1>1 DEF Have, Snapshot
<1>4. Have(0, d) = Snapshot(Empty) BY <1>2 DEF Have, Snapshot
<1>5. Have(1, d) = Snapshot(Empty) BY <1>2 DEF Have, Snapshot
<1> QED BY <1>3, <1>4, <1>5

\* One read more.
LEMMA HaveMore ==
  ASSUME NEW d, NEW k \in 1 .. 4
  PROVE  [Have(k, d) EXCEPT ![Order[k]] = d[Order[k]]] = Have(k + 1, d)
<1>1. Order[k] \in PackTables
  BY DEF Order, PackTables
<1>2. \A i, j \in 1 .. 4 : Order[i] = Order[j] => i = j
  BY DEF Order
<1> DEFINE had(n, m) == \E i \in 1 .. 4 : i < m /\ Order[i] = n
<1>3. \A n : had(n, k + 1) <=> had(n, k) \/ n = Order[k]
  <2>1. \A i \in 1 .. 4 : i < k + 1 <=> i < k \/ i = k
    OBVIOUS
  <2> QED BY <2>1
<1>4. ~had(Order[k], k)
  BY <1>2
<1>5. Have(k, d) = [n \in PackTables |-> IF had(n, k) THEN d[n] ELSE Empty[n]]
  BY DEF Have
<1>6. Have(k + 1, d) = [n \in PackTables |-> IF had(n, k + 1) THEN d[n] ELSE Empty[n]]
  BY DEF Have
<1> HIDE DEF had
<1>7. ASSUME NEW n \in PackTables
      PROVE  [Have(k, d) EXCEPT ![Order[k]] = d[Order[k]]][n] = Have(k + 1, d)[n]
  BY <1>1, <1>3, <1>5, <1>6
<1>8. DOMAIN [Have(k, d) EXCEPT ![Order[k]] = d[Order[k]]] = PackTables
      /\ DOMAIN Have(k + 1, d) = PackTables
  BY <1>5, <1>6
<1> QED BY <1>5, <1>6, <1>7, <1>8

\* A change the control plane rewrites is still a change of the same row.
LEMMA ScopedType ==
  ASSUME NEW a \in Changes, a.change.table # "providers"
  PROVE  /\ Scoped(a) \in DefChange
         /\ Scoped(a).table = a.change.table /\ Scoped(a).verb = a.change.verb
<1>1. a.change \in DefChange
  <2>1. a \in Asked BY DefinitionsAssumption
  <2>2. CASE a.change \in DefChange BY <2>2
  <2>3. CASE a.change \in Change("providers", Providers, ProviderRequest)
    BY <2>3 DEF Change
  <2> QED BY <2>1, <2>2, <2>3 DEF Asked, DefChange
<1>2. CASE Scoped(a) = a.change BY <1>1, <1>2
<1>3. CASE Scoped(a) # a.change
  <2> DEFINE c == a.change
             s == [c EXCEPT !.def.scope = {}]
  <2>1. c.table = "endpoints" /\ c.verb = "create" /\ Scoped(a) = s
    BY <1>3 DEF Scoped
  <2>2. c \in [table : {"endpoints"}, verb : {"create", "update"}, slug : Endpoints, def : Endpoint]
    BY <1>1, <2>1 DEF DefChange, ServiceChange, CallChange, ScriptChange, EndpointChange, Change
  <2>3. [c.def EXCEPT !.scope = {}] \in Endpoint
    BY <2>2 DEF Endpoint
  <2>4. s = [c EXCEPT !.def = [c.def EXCEPT !.scope = {}]]
    BY <2>2
  <2>5. s \in [table : {"endpoints"}, verb : {"create", "update"}, slug : Endpoints, def : Endpoint]
        /\ s.table = c.table /\ s.verb = c.verb
    BY <2>2, <2>3, <2>4
  <2> QED BY <2>1, <2>5 DEF DefChange, EndpointChange, Change
<1> QED BY <1>2, <1>3

\* So is one that keeps the scope of the row.
LEMMA KeepScopeType ==
  ASSUME NEW d \in Database, NEW c \in DefChange, c.verb = "update", d[c.table][c.slug] # None
  PROVE  LET k == KeepScope(c, d[c.table][c.slug])
         IN /\ k \in DefChange
            /\ k.table = c.table /\ k.slug = c.slug /\ k.verb = c.verb
            /\ c.table = "endpoints" => k.def.scope = d.endpoints[c.slug].scope
<1>1. CASE c.table # "endpoints" BY <1>1 DEF KeepScope
<1>2. CASE c.table = "endpoints"
  <2> DEFINE row == d.endpoints[c.slug]
             k == [c EXCEPT !.def.scope = row.scope]
             u == [c.def EXCEPT !.scope = row.scope]
  <2>1. c \in [table : {"endpoints"}, verb : {"create", "update"}, slug : Endpoints, def : Endpoint]
    BY <1>2 DEF DefChange, ServiceChange, CallChange, ScriptChange, EndpointChange, Change
  <2>2. row \in Endpoint BY <1>2, <2>1, RowTypes DEF Present, Database
  <2>3. u \in Endpoint /\ u.scope = row.scope
    BY <2>1, <2>2 DEF Endpoint
  <2>4. k = [c EXCEPT !.def = u]
    BY <2>1
  <2>5. KeepScope(c, d[c.table][c.slug]) = k BY <1>2, <2>1 DEF KeepScope, Database
  <2> HIDE DEF u
  <2>6. /\ k \in [table : {"endpoints"}, verb : {"create", "update"}, slug : Endpoints, def : Endpoint]
        /\ k.table = c.table /\ k.slug = c.slug /\ k.verb = c.verb /\ k.def = u
    BY <2>1, <2>3, <2>4
  <2> HIDE DEF k
  <2> QED BY <2>3, <2>5, <2>6 DEF DefChange, EndpointChange, Change
<1> QED BY <1>1, <1>2
-----------------------------------------------------------------------------
(* Changes, from the first lookup to the write.                            *)

\* What a step that only reads leaves.
LEMMA ReadsKeeps ==
  ASSUME Inv, NEW t \in Tasks, NEW new, Reads(t, new), WorkHolds(new, db)
  PROVE  Inv'
  BY Quiet DEF Reads, Goes

\* A request that arrives.
LEMMA ArrivesKeeps ==
  ASSUME Inv, NEW t \in Tasks, NEW new, Arrives(t, new), WorkHolds(new, db)
  PROVE  Inv'
  BY Quiet DEF Arrives

\* A task that stops owes nothing.
LEMMA IdleHolds ==
  ASSUME NEW d
  PROVE  WorkHolds(Idle, d)
  BY DEF WorkHolds

\* A change that arrives is one of a table, and has read nothing.
LEMMA AskChangeKeeps ==
  ASSUME Inv, NEW t \in Tasks, AskChange(t)
  PROVE  Inv'
<1>1. PICK a \in Changes :
        /\ a.change.table # "providers"
        /\ Arrives(t, [kind |-> "change", asked |-> a, change |-> Scoped(a),
                       next |-> IF LooksUp(a) THEN 0 ELSE 1, found |-> None,
                       seen |-> Snapshot(Empty), fresh |-> TRUE])
  BY DEF AskChange
<1> DEFINE c == Scoped(a)
           n == IF LooksUp(a) THEN 0 ELSE 1
           w == [kind |-> "change", asked |-> a, change |-> c, next |-> n, found |-> None,
                 seen |-> Snapshot(Empty), fresh |-> TRUE]
<1>2. c \in DefChange /\ c.table = a.change.table /\ c.verb = a.change.verb
  BY <1>1, ScopedType
<1>3. n \in 0 .. 5 /\ Snapshot(Empty) = Have(n, db)
  BY HaveEnds
<1>4. a.by = "control" /\ a.change.table = "endpoints" /\ a.change.verb = "update" => n = 0
  BY DEF LooksUp
<1>5. n > 0 => n # 0 OBVIOUS
<1>7. ASSUME c.table = "endpoints", c.verb # "delete"
      PROVE  /\ n = 0 => a.by = "control" /\ c.verb = "update"
             /\ a.by = "api" => c.def.scope = a.change.def.scope
             /\ a.by = "control" /\ c.verb = "create" => c.def.scope = {}
             /\ a.by \in {"api", "control"}
  <2>1. a.change.table = "endpoints" /\ a.change.verb = c.verb BY <1>2, <1>7
  <2>2. a \in [by : {"api", "control"},
               change : ServiceChange \cup CallChange \cup ScriptChange \cup EndpointChange]
    <3>1. a \in Asked BY DefinitionsAssumption
    <3>2. ASSUME NEW x \in Change("providers", Providers, ProviderRequest)
          PROVE  x.table = "providers"
      BY DEF Change
    <3> QED BY <1>1, <3>1, <3>2 DEF Asked
  <2>3. a.by \in {"api", "control"} BY <2>2
  <2>4. n = 0 => a.by = "control" /\ c.verb = "update" BY <2>1 DEF LooksUp
  <2>5. a.by = "api" => c = a.change BY DEF Scoped
  <2>6. ASSUME a.by = "control", c.verb = "create" PROVE c.def.scope = {}
    <3>1. a.change \in [table : {"endpoints"}, verb : {"create", "update"}, slug : Endpoints,
                        def : Endpoint]
      BY <1>7, <2>1, <2>2 DEF ServiceChange, CallChange, ScriptChange, EndpointChange, Change
    <3>2. c = [a.change EXCEPT !.def.scope = {}] BY <2>1, <2>6 DEF Scoped
    <3> QED BY <3>1, <3>2 DEF Endpoint
  <2> QED BY <2>3, <2>4, <2>5, <2>6
<1> HIDE DEF c, n
<1>8. ScopeHolds(w) BY <1>4, <1>5, <1>7, <1>2 DEF ScopeHolds
<1>6. ChangeHolds(w, db)
  BY <1>2, <1>3, <1>4, <1>5, <1>8 DEF ChangeHolds
<1> QED BY <1>1, <1>6, ArrivesKeeps DEF WorkHolds, w, c, n

\* The row that is looked up gives the scope that is kept.
LEMMA LookUpKeeps ==
  ASSUME Inv, NEW t \in Tasks, LookUp(t)
  PROVE  Inv'
<1> DEFINE c == task[t].change
           row == db[c.table][c.slug]
           k == IF c.verb = "update" THEN KeepScope(c, row) ELSE c
           w == [task[t] EXCEPT !.next = 1, !.found = row, !.change = k]
<1>1. WorkHolds(task[t], db) /\ task[t].kind = "change" /\ task[t].next = 0
  BY DEF Inv, LookUp
<1>2. ChangeHolds(task[t], db) BY <1>1, ByKind
<1>3. CASE Reads(t, Idle) BY <1>3, IdleHolds, ReadsKeeps
<1>4. CASE row # None /\ Reads(t, w)
  <2>1. c \in DefChange BY <1>2 DEF ChangeHolds
  <2>2. /\ k \in DefChange /\ k.table = c.table /\ k.slug = c.slug /\ k.verb = c.verb
        /\ c.verb = "update" /\ c.table = "endpoints" => k.def.scope = db.endpoints[c.slug].scope
    BY <1>4, <2>1, KeepScopeType DEF Inv, SoundRows
  <2>3. Have(0, db) = Have(1, db) BY HaveEnds
  <2>4. 1 \in 0 .. 5 /\ 1 > 0 OBVIOUS
  <2> HIDE DEF k, row
  <2>5. /\ w.kind = "change"
        /\ DOMAIN w = {"kind", "asked", "change", "next", "found", "seen", "fresh"}
        /\ w.change = k /\ w.next = 1 /\ w.fresh = task[t].fresh /\ w.seen = task[t].seen
        /\ w.asked = task[t].asked
    BY <1>2 DEF ChangeHolds
  <2> HIDE DEF w
  <2>6. w.fresh => w.seen = Have(1, db)
    BY <1>1, <1>2, <2>3, <2>5 DEF ChangeHolds
  <2>8. c.table = "endpoints" /\ c.verb # "delete" =>
          task[t].asked.by = "control" /\ c.verb = "update"
    BY <1>1, <1>2 DEF ChangeHolds, ScopeHolds
  <2>9. ScopeHolds(w)
    <3>1. SUFFICES ASSUME w.change.table = "endpoints", w.change.verb # "delete"
                   PROVE  /\ w.asked.by = "control" /\ w.change.verb = "update"
                          /\ w.next = 1 /\ w.change.def.scope = w.found.scope
      BY DEF ScopeHolds
    <3>2. w.found = row BY <1>2 DEF w, ChangeHolds
    <3>3. c.table = "endpoints" /\ c.verb # "delete" BY <2>2, <2>5, <3>1
    <3>4. row = db.endpoints[c.slug] BY <3>3 DEF row
    <3> QED BY <2>2, <2>5, <2>8, <3>2, <3>3, <3>4
  <2>7. ChangeHolds(w, db)
    BY <2>2, <2>4, <2>5, <2>6, <2>9 DEF ChangeHolds
  <2> QED BY <1>4, <2>7, ReadsKeeps DEF WorkHolds
<1> QED BY <1>3, <1>4 DEF LookUp

\* A table read is a table had.
LEMMA ReadTableKeeps ==
  ASSUME Inv, NEW t \in Tasks, ReadTable(t)
  PROVE  Inv'
<1> DEFINE n == task[t].next
           name == Order[n]
           w == [task[t] EXCEPT !.seen[name] = db[name], !.next = @ + 1]
           seen == [task[t].seen EXCEPT ![name] = db[name]]
<1>1. WorkHolds(task[t], db) /\ task[t].kind = "change" /\ n \in DOMAIN Order /\ Reads(t, w)
  BY DEF Inv, ReadTable
<1>2. ChangeHolds(task[t], db) BY <1>1, ByKind
<1>3. n \in 1 .. 4 BY <1>1 DEF Order
<1>4. task[t].fresh => seen = Have(n + 1, db)
  BY <1>2, <1>3, HaveMore DEF ChangeHolds
<1>5. n + 1 \in 0 .. 5 /\ n > 0 BY <1>3
<1> HIDE DEF name
<1>6. /\ w.kind = "change"
      /\ DOMAIN w = {"kind", "asked", "change", "next", "found", "seen", "fresh"}
      /\ w.change = task[t].change /\ w.next = n + 1 /\ w.fresh = task[t].fresh
      /\ w.seen = seen /\ w.asked = task[t].asked /\ w.found = task[t].found
  BY <1>2 DEF ChangeHolds
<1> HIDE DEF w, seen
<1>8. ScopeHolds(w)
  BY <1>2, <1>5, <1>6 DEF ChangeHolds, ScopeHolds
<1>7. ChangeHolds(w, db)
  BY <1>2, <1>4, <1>5, <1>6, <1>8 DEF ChangeHolds
<1> QED BY <1>1, <1>7, ReadsKeeps DEF WorkHolds

\* A change nobody wrote past was validated against the tables it is written to.
LEMMA WriteKeeps ==
  ASSUME Inv, NEW t \in Tasks, Write(t)
  PROVE  Inv'
<1> DEFINE c == task[t].change
<1>1. /\ WorkHolds(task[t], db) /\ task[t].kind = "change" /\ task[t].next = 5
      /\ Valid(Pending(task[t].seen, c)) /\ Commits(t, c, Idle)
      /\ c.verb # "delete" => Converts(c.table, c.def)
      /\ Accepts(db, c) /\ overtaken' = (overtaken \/ ~task[t].fresh)
  BY DEF Inv, Write, AllRead, Validated, Stores, Order
<1>2. ChangeHolds(task[t], db) BY <1>1, ByKind
<1>3. c \in DefChange /\ SoundRows(db) /\ db' = After(db, c)
  BY <1>1, <1>2 DEF ChangeHolds, Commits, Inv
<1>4. SoundRows(db') /\ AsKept(db')
  BY <1>1, <1>3, AfterSound, AfterKept DEF DefChange, Inv, SoundRows
<1>5. task[t].fresh => task[t].seen = Snapshot(db)
  BY <1>1, <1>2, HaveEnds DEF ChangeHolds
<1>6. task[t].fresh => Valid(Snapshot(db'))
  BY <1>1, <1>3, <1>5, AfterValid DEF DefChange
<1> QED BY <1>1, <1>4, <1>6, IdleHolds, Committed

\* A change that is refused.
LEMMA RefuseKeeps ==
  ASSUME Inv, NEW t \in Tasks, Refuse(t)
  PROVE  Inv'
  BY IdleHolds, ReadsKeeps DEF Refuse
-----------------------------------------------------------------------------
(* Providers.                                                              *)

\* What is written has a secret, whatever was submitted.
LEMMA SecretType ==
  ASSUME NEW s \in Secrets \cup {Env, Unset, None}, NEW f \in Provider \cup {None}
  PROVE  Secret(s, f) \in Secrets \cup {Env, Unset}
  BY DEF Secret, Provider

\* A request for a provider that arrives.
LEMMA AskProviderKeeps ==
  ASSUME Inv, NEW t \in Tasks, AskProvider(t)
  PROVE  Inv'
<1>1. PICK a \in Changes :
        /\ a.change.table = "providers"
        /\ Arrives(t, [kind |-> "provider", change |-> a.change,
                       next |-> IF a.change.verb = "create" THEN "service" ELSE "find",
                       found |-> None, fresh |-> TRUE])
  BY DEF AskProvider
<1> DEFINE c == a.change
           n == IF c.verb = "create" THEN "service" ELSE "find"
           w == [kind |-> "provider", change |-> c, next |-> n, found |-> None, fresh |-> TRUE]
<1>2. a \in Asked BY DefinitionsAssumption
<1>3. c \in Change("providers", Providers, ProviderRequest)
  BY <1>1, <1>2 DEF Asked, ServiceChange, CallChange, ScriptChange, EndpointChange, Change
<1>4. n \in {"find", "service", "write"} /\ (n \in {"service", "write"} => c.verb = "create")
  OBVIOUS
<1> HIDE DEF c, n
<1>5. ProviderHolds(w, db) BY <1>3, <1>4 DEF ProviderHolds
<1> QED BY <1>1, <1>5, ArrivesKeeps DEF WorkHolds, w, c, n

\* The provider is found as it is stored.
LEMMA FindProviderKeeps ==
  ASSUME Inv, NEW t \in Tasks, FindProvider(t)
  PROVE  Inv'
<1> DEFINE c == task[t].change
           row == db.providers[c.slug]
           n == IF c.verb = "delete" THEN "write" ELSE "service"
           w == [task[t] EXCEPT !.found = row, !.next = n]
<1>1. WorkHolds(task[t], db) /\ task[t].kind = "provider"
  BY DEF Inv, FindProvider
<1>2. ProviderHolds(task[t], db) BY <1>1, ByKind
<1>3. CASE Reads(t, Idle) BY <1>3, IdleHolds, ReadsKeeps
<1>4. CASE row # None /\ Reads(t, w)
  <2>1. c.slug \in Providers BY <1>2 DEF ProviderHolds, Change
  <2>2. row \in Provider BY <1>4, <2>1, Tables DEF Inv, SoundRows
  <2>3. n \in {"find", "service", "write"} OBVIOUS
  <2> HIDE DEF n, row
  <2>4. /\ w.kind = "provider" /\ DOMAIN w = {"kind", "change", "next", "found", "fresh"}
        /\ w.change = c /\ w.next = n /\ w.found = row /\ w.fresh = task[t].fresh
    BY <1>2 DEF ProviderHolds
  <2> HIDE DEF w
  <2>5. ProviderHolds(w, db)
    BY <1>2, <1>4, <2>2, <2>3, <2>4 DEF ProviderHolds, row
  <2> QED BY <1>4, <2>5, ReadsKeeps DEF WorkHolds
<1> QED BY <1>3, <1>4 DEF FindProvider

\* Its service allows the origin it is bound to.
LEMMA ReadServiceKeeps ==
  ASSUME Inv, NEW t \in Tasks, ReadService(t)
  PROVE  Inv'
<1> DEFINE w == [task[t] EXCEPT !.next = "write"]
<1>1. WorkHolds(task[t], db) /\ task[t].kind = "provider" /\ task[t].next = "service"
  BY DEF Inv, ReadService
<1>2. ProviderHolds(task[t], db) BY <1>1, ByKind
<1>3. CASE Reads(t, Idle) BY <1>3, IdleHolds, ReadsKeeps
<1>4. CASE Reads(t, w)
  <2>1. ProviderHolds(w, db) BY <1>1, <1>2 DEF ProviderHolds
  <2> QED BY <1>4, <2>1, ReadsKeeps DEF WorkHolds
<1> QED BY <1>3, <1>4 DEF ReadService

\* What is written is a provider, as it was asked for but for the secret, and no rule of a
\* pack is about it.
LEMMA ProviderWriteType ==
  ASSUME NEW t, ProviderHolds(task[t], db)
  PROVE  LET c == task[t].change
             write == ProviderWrite(t)
         IN /\ write \in ProviderChange /\ write.slug = c.slug /\ write.verb = c.verb
            /\ c.verb # "delete" =>
                 /\ write.def.secret = Secret(c.def.secret, task[t].found)
                 /\ write.def.service = c.def.service /\ write.def.bound = c.def.bound
<1> DEFINE c == task[t].change
           s == Secret(c.def.secret, task[t].found)
           x == [c.def EXCEPT !.secret = s]
<1>1. c \in Change("providers", Providers, ProviderRequest) /\ task[t].found \in Provider \cup {None}
  BY DEF ProviderHolds
<1>2. CASE c.verb = "delete"
  BY <1>1, <1>2 DEF ProviderWrite, ProviderChange, Change
<1>3. CASE c.verb # "delete"
  <2>1. c \in [table : {"providers"}, verb : {"create", "update"}, slug : Providers,
               def : ProviderRequest]
    BY <1>1, <1>3 DEF Change
  <2>2. c.def \in ProviderRequest BY <2>1
  <2>3. s \in Secrets \cup {Env, Unset}
    BY <1>1, <2>2, SecretType DEF ProviderRequest
  <2> HIDE DEF s
  <2>4. /\ x \in Provider /\ x.secret = s
        /\ x.service = c.def.service /\ x.bound = c.def.bound
    BY <2>2, <2>3 DEF ProviderRequest, Provider
  <2>5. ProviderWrite(t) = [c EXCEPT !.def = x]
    BY <1>3, <2>1 DEF ProviderWrite, s
  <2> HIDE DEF x
  <2>6. /\ ProviderWrite(t) \in [table : {"providers"}, verb : {"create", "update"},
                                 slug : Providers, def : Provider]
        /\ ProviderWrite(t).slug = c.slug /\ ProviderWrite(t).verb = c.verb
        /\ ProviderWrite(t).def = x
    BY <2>1, <2>4, <2>5
  <2> QED BY <2>4, <2>6 DEF ProviderChange, Change, s
<1> QED BY <1>2, <1>3

\* A provider is written.
LEMMA WriteProviderKeeps ==
  ASSUME Inv, NEW t \in Tasks, WriteProvider(t)
  PROVE  Inv'
<1> DEFINE c == ProviderWrite(t)
<1>1. WorkHolds(task[t], db) /\ task[t].kind = "provider" /\ overtaken' = overtaken
  BY DEF Inv, WriteProvider
<1>2. ProviderHolds(task[t], db) BY <1>1, ByKind
<1>3. CASE Stores(t, c) /\ Commits(t, c, Idle)
  <2>1. c \in ProviderChange BY <1>2, ProviderWriteType
  <2>2. /\ SoundRows(db) /\ Accepts(db, c) /\ db' = After(db, c)
        /\ c.verb # "delete" => Converts(c.table, c.def)
    BY <1>3 DEF Stores, Commits, Inv
  <2>3. SoundRows(db') /\ AsKept(db')
    BY <2>1, <2>2, AfterSound, AfterKept DEF Inv, SoundRows
  <2>4. Valid(Snapshot(db)) => Valid(Snapshot(db'))
    BY <2>1, <2>2, <2>3, ValidSnapshot, ProviderValid DEF SoundRows
  <2> QED BY <1>1, <1>3, <2>3, <2>4, IdleHolds, Committed DEF Inv, ValidUnlessOvertaken
<1>4. CASE Goes(t, Idle) /\ UNCHANGED db
  BY <1>1, <1>4, IdleHolds, Quiet DEF Goes
<1> QED BY <1>3, <1>4 DEF WriteProvider
-----------------------------------------------------------------------------
(* Imports.                                                                *)

\* The tables in the order an import writes them.
LEMMA Ranks ==
  /\ Rank("services") = 1 /\ Rank("api_calls") = 2
  /\ Rank("scripts") = 3 /\ Rank("endpoints") = 4
<1>1. \A i, j \in DOMAIN Order : Order[i] = Order[j] => i = j
  BY DEF Order
<1>2. /\ 1 \in DOMAIN Order /\ 2 \in DOMAIN Order /\ 3 \in DOMAIN Order /\ 4 \in DOMAIN Order
      /\ Order[1] = "services" /\ Order[2] = "api_calls" /\ Order[3] = "scripts"
      /\ Order[4] = "endpoints"
  BY DEF Order
<1> QED BY <1>1, <1>2 DEF Rank

\* A row of a pack is a row of a table, of its type.
LEMMA PackRows ==
  ASSUME NEW p \in Pack, NEW r \in Rows(p)
  PROVE  /\ r = <<r[1], r[2]>> /\ r[1] \in PackTables /\ r[2] \in Present(p[r[1]])
         /\ r[1] = "services" => r[2] \in Services /\ p[r[1]][r[2]] \in Service
         /\ r[1] = "api_calls" => r[2] \in Slugs /\ p[r[1]][r[2]] \in ApiCall
         /\ r[1] = "scripts" => r[2] \in Slugs /\ p[r[1]][r[2]] \in Script
         /\ r[1] = "endpoints" => r[2] \in Endpoints /\ p[r[1]][r[2]] \in Endpoint
<1>1. PICK name \in PackTables : r \in {<<name, k>> : k \in Present(p[name])}
  BY DEF Rows
<1>2. PICK k \in Present(p[name]) : r = <<name, k>>
  BY <1>1
<1>3. r[1] = name /\ r[2] = k BY <1>2
<1>4. /\ p.services \in [Services -> Service \cup {None}]
      /\ p.api_calls \in [Slugs -> ApiCall \cup {None}]
      /\ p.scripts \in [Slugs -> Script \cup {None}]
      /\ p.endpoints \in [Endpoints -> Endpoint \cup {None}]
  BY DEF Pack
<1>5. k \in DOMAIN p[name] /\ p[name][k] # None BY DEF Present
<1> QED BY <1>1, <1>2, <1>3, <1>4, <1>5

\* And a row of a pack's table is one of its rows.
LEMMA RowOfPack ==
  ASSUME NEW p, NEW name \in PackTables, NEW k \in Present(p[name])
  PROVE  <<name, k>> \in Rows(p)
  BY DEF Rows

\* The row that is being imported is written as a change of its table.
LEMMA RowChangeType ==
  ASSUME NEW t, ImportHolds(task[t], db), task[t].row # None
  PROVE  LET c == RowChange(t)
             r == task[t].row
         IN /\ c \in DefChange /\ c.verb # "delete" /\ Converts(c.table, c.def)
            /\ c.table = r[1] /\ c.slug = r[2] /\ c.def = task[t].pack[r[1]][r[2]]
            /\ c.table \in PackTables /\ r \in task[t].todo /\ r \in Rows(task[t].pack)
            /\ r = <<c.table, c.slug>>
<1> DEFINE r == task[t].row
           p == task[t].pack
           c == RowChange(t)
<1>1. r \in First(task[t].todo) /\ task[t].verb \in {"create", "update"} /\ Converts(r[1], p[r[1]][r[2]])
      /\ p \in Pack /\ task[t].todo \subseteq Rows(p)
  BY DEF ImportHolds
<1>2. r \in task[t].todo /\ r \in Rows(p) BY <1>1 DEF First
<1>3. c = [table |-> r[1], verb |-> task[t].verb, slug |-> r[2], def |-> p[r[1]][r[2]]]
  BY DEF RowChange
<1>4. /\ c.table = r[1] /\ c.slug = r[2] /\ c.def = p[r[1]][r[2]] /\ c.verb = task[t].verb
  BY <1>3
<1>5. /\ r = <<r[1], r[2]>> /\ r[1] \in PackTables
      /\ r[1] = "services" => r[2] \in Services /\ p[r[1]][r[2]] \in Service
      /\ r[1] = "api_calls" => r[2] \in Slugs /\ p[r[1]][r[2]] \in ApiCall
      /\ r[1] = "scripts" => r[2] \in Slugs /\ p[r[1]][r[2]] \in Script
      /\ r[1] = "endpoints" => r[2] \in Endpoints /\ p[r[1]][r[2]] \in Endpoint
  BY <1>1, <1>2, PackRows
<1>6. c \in DefChange
  <2>1. CASE r[1] = "services"
    BY <1>1, <1>3, <1>5, <2>1 DEF DefChange, ServiceChange, Change
  <2>2. CASE r[1] = "api_calls"
    BY <1>1, <1>3, <1>5, <2>2 DEF DefChange, CallChange, Change
  <2>3. CASE r[1] = "scripts"
    BY <1>1, <1>3, <1>5, <2>3 DEF DefChange, ScriptChange, Change
  <2>4. CASE r[1] = "endpoints"
    BY <1>1, <1>3, <1>5, <2>4 DEF DefChange, EndpointChange, Change
  <2> QED BY <1>5, <2>1, <2>2, <2>3, <2>4 DEF PackTables
<1> QED BY <1>1, <1>2, <1>4, <1>5, <1>6

\* A row is never kept as no row.
LEMMA KeptIsSome ==
  ASSUME NEW p \in Pack, NEW r \in Rows(p), r[1] # "endpoints"
  PROVE  Kept(r[1], p[r[1]][r[2]]) # None
<1>1. CASE r[1] = "services"
  BY <1>1, PackRows, KeptServiceType, NoneIsNoRow DEF Kept
<1>2. CASE r[1] = "api_calls"
  BY <1>2, PackRows, NoneIsNoRow DEF Kept
<1>3. CASE r[1] = "scripts"
  BY <1>3, PackRows, KeptScriptType, NoneIsNoRow DEF Kept
<1> QED BY <1>1, <1>2, <1>3, PackRows DEF PackTables

\* What a row refers to is of an earlier table, so it is there.
LEMMA EarlierIsThere ==
  ASSUME NEW p \in Pack, NEW todo, NEW r \in First(todo), NEW name \in PackTables,
         NEW k \in Present(p[name]), name # "endpoints",
         Rank(name) < Rank(r[1]), Rank(name) \in 1 .. 4, Rank(r[1]) \in 1 .. 4,
         Landed(p, todo, db)
  PROVE  db[name][k] # None
<1>1. <<name, k>> \in Rows(p) BY RowOfPack
<1>2. <<name, k>> \notin todo
  <2>1. SUFFICES ASSUME <<name, k>> \in todo PROVE FALSE OBVIOUS
  <2>2. Rank(r[1]) <= Rank(<<name, k>>[1]) BY <2>1 DEF First
  <2> QED BY <2>2
<1>3. db[name][k] = Kept(name, p[name][k])
  BY <1>1, <1>2 DEF Landed
<1>4. Kept(name, p[name][k]) # None
  BY <1>1, KeptIsSome
<1> QED BY <1>3, <1>4

\* So a row of a pack that validates fits the tables the rows before it are in.
LEMMA RowFits ==
  ASSUME NEW t, SoundRows(db), ImportHolds(task[t], db), task[t].row # None, task[t].fresh
  PROVE  FitsIn(Snapshot(db), RowChange(t).table, RowChange(t).def)
<1> DEFINE r == task[t].row
           p == task[t].pack
           c == RowChange(t)
           x == p[r[1]][r[2]]
           s == Snapshot(db)
<1>1. /\ r \in First(task[t].todo) /\ p \in Pack /\ Valid(p) /\ Landed(p, task[t].todo, db)
  BY DEF ImportHolds
<1>2. /\ c.table = r[1] /\ c.slug = r[2] /\ c.def = x /\ r \in Rows(p)
      /\ c.table \in PackTables
  BY RowChangeType
<1>3. r[2] \in Present(p[r[1]]) BY <1>1, <1>2, PackRows
<1>4. /\ s.services = db.services /\ s.api_calls = db.api_calls /\ s.scripts = db.scripts
      /\ s.endpoints = db.endpoints
  BY DEF Snapshot, PackTables
<1>5. /\ p.services = p["services"] /\ DOMAIN p.services = Services
      /\ DOMAIN p.api_calls = Slugs /\ DOMAIN p.scripts = Slugs
  BY <1>1 DEF Pack
<1>6. CASE r[1] = "services"
  <2>1. ValidService(x) BY <1>1, <1>3, <1>6 DEF Valid
  <2> QED BY <1>2, <1>6, <2>1 DEF FitsIn
<1>7. CASE r[1] = "api_calls"
  <2>1. x \in ApiCall BY <1>1, <1>2, <1>7, PackRows
  <2>2. x.shape # "invalid" /\ p.services[x.service] # None
    BY <1>1, <1>3, <1>7 DEF Valid, ValidCall
  <2>3. x.service \in Present(p["services"])
    BY <1>5, <2>1, <2>2 DEF ApiCall, Present
  <2>4. db["services"][x.service] # None
    <3>1. "services" \in PackTables /\ "services" # "endpoints" BY DEF PackTables
    <3>2. Rank("services") < Rank(r[1]) /\ Rank("services") \in 1 .. 4 /\ Rank(r[1]) \in 1 .. 4
      BY <1>7, Ranks
    <3> HIDE DEF r, p, x
    <3> QED BY <1>1, <2>3, <3>1, <3>2, EarlierIsThere
  <2>5. ValidCall(s, x) BY <1>4, <2>2, <2>4 DEF ValidCall
  <2> QED BY <1>2, <1>7, <2>5 DEF FitsIn
<1>8. CASE r[1] = "scripts"
  <2>1. x \in Script BY <1>1, <1>2, <1>8, PackRows
  <2>2. x.shape # "invalid" /\ x.callable \subseteq Present(p.api_calls)
    BY <1>1, <1>3, <1>8 DEF Valid, ValidScript
  <2>3. ASSUME NEW k \in x.callable PROVE db["api_calls"][k] # None
    <3>1. "api_calls" \in PackTables /\ "api_calls" # "endpoints" BY DEF PackTables
    <3>2. Rank("api_calls") < Rank(r[1]) /\ Rank("api_calls") \in 1 .. 4 /\ Rank(r[1]) \in 1 .. 4
      BY <1>8, Ranks
    <3>3. k \in Present(p["api_calls"]) BY <2>2
    <3> HIDE DEF r, p, x
    <3> QED BY <1>1, <3>1, <3>2, <3>3, EarlierIsThere
  <2>4. x.callable \subseteq Slugs BY <2>1 DEF Script
  <2>5. DOMAIN db.api_calls = Slugs BY Tables DEF SoundRows
  <2> QED BY <1>2, <1>4, <1>8, <2>2, <2>3, <2>4, <2>5 DEF FitsIn, ValidScript, Present
<1>9. CASE r[1] = "endpoints"
  <2>1. x \in Endpoint BY <1>1, <1>2, <1>9, PackRows
  <2>2. /\ x.shape # "invalid" /\ x.expr \in Wellformed
        /\ \A a \in x.aliases : p[a.kind][a.slug] # None
    BY <1>1, <1>3, <1>9 DEF Valid, ValidEndpoint
  <2>3. ASSUME NEW a \in x.aliases PROVE s[a.kind][a.slug] # None
    <3>1. a.kind \in {"api_calls", "scripts"} /\ a.slug \in Slugs
      BY <2>1 DEF Endpoint, Alias, Kinds
    <3>2. a.kind \in PackTables /\ a.kind # "endpoints" BY <3>1 DEF PackTables
    <3>3. Rank(a.kind) < Rank(r[1]) /\ Rank(a.kind) \in 1 .. 4 /\ Rank(r[1]) \in 1 .. 4
      BY <1>9, <3>1, Ranks
    <3>4. a.slug \in Present(p[a.kind]) BY <1>5, <2>2, <3>1 DEF Present
    <3>5. s[a.kind] = db[a.kind] BY <1>4, <3>1
    <3> HIDE DEF r, p, x, s
    <3> QED BY <1>1, <3>2, <3>3, <3>4, <3>5, EarlierIsThere
  <2>4. ValidEndpoint(s, x) BY <2>2, <2>3 DEF ValidEndpoint
  <2> QED BY <1>2, <1>9, <2>4 DEF FitsIn
<1> QED BY <1>2, <1>6, <1>7, <1>8, <1>9 DEF PackTables

\* One row written leaves every other row of a pack's tables.
LEMMA PutRows ==
  ASSUME NEW d \in Database, NEW table \in PackTables, NEW k \in DOMAIN d[table], NEW x,
         NEW other \in PackTables, NEW j
  PROVE  /\ Put(d, table, k, x)[table][k] = x
         /\ <<other, j>> # <<table, k>> => Put(d, table, k, x)[other][j] = d[other][j]
<1> DEFINE e == Put(d, table, k, x)
<1>1. table \in DOMAIN d /\ other \in DOMAIN d BY DEF Database, PackTables
<1>2. e = [d EXCEPT ![table] = [d[table] EXCEPT ![k] = x]] BY DEF Put
<1>3. d[table] = [i \in DOMAIN d[table] |-> d[table][i]]
  BY Tables DEF PackTables
<1>4. e[table] = [d[table] EXCEPT ![k] = x] /\ (other # table => e[other] = d[other])
  BY <1>1, <1>2 DEF Database
<1> HIDE DEF e
<1>5. e[table][k] = x BY <1>3, <1>4
<1>6. CASE other # table BY <1>4, <1>5, <1>6 DEF e
<1>7. CASE other = table /\ j # k
  <2>1. e[table][j] = d[table][j] BY <1>3, <1>4, <1>7
  <2> QED BY <1>5, <1>7, <2>1 DEF e
<1>8. CASE other = table /\ j = k BY <1>5, <1>8 DEF e
<1> QED BY <1>6, <1>7, <1>8

\* The commit of a row is its row as kept, put into its table.
LEMMA RowCommitted ==
  ASSUME NEW d \in Database, NEW c \in DefChange, c.verb # "delete"
  PROVE  /\ c.table \in PackTables /\ c.slug \in DOMAIN d[c.table]
         /\ After(d, c) = Put(d, c.table, c.slug, Kept(c.table, c.def))
<1>1. CASE c \in ServiceChange
  BY <1>1, ServiceChanged, Tables DEF PackTables, Kept
<1>2. CASE c \in CallChange
  BY <1>2, CallChanged, Tables DEF PackTables, Kept
<1>3. CASE c \in ScriptChange
  BY <1>3, ScriptChanged, Tables DEF PackTables, Kept
<1>4. CASE c \in EndpointChange
  BY <1>4, EndpointChanged, Tables DEF PackTables, Kept
<1> QED BY <1>1, <1>2, <1>3, <1>4 DEF DefChange

\* A pack that validates arrives, with all of it to do.
LEMMA AskImportKeeps ==
  ASSUME Inv, NEW t \in Tasks, AskImport(t)
  PROVE  Inv'
<1>1. PICK p \in Packs :
        /\ Valid(p)
        /\ Arrives(t, [kind |-> "import", pack |-> p, todo |-> Rows(p), row |-> None,
                       verb |-> None, fresh |-> TRUE])
  BY DEF AskImport
<1> DEFINE w == [kind |-> "import", pack |-> p, todo |-> Rows(p), row |-> None,
                 verb |-> None, fresh |-> TRUE]
<1>2. p \in Pack BY DefinitionsAssumption
<1>3. Landed(p, Rows(p), db) BY DEF Landed
<1>4. ImportHolds(w, db) BY <1>1, <1>2, <1>3 DEF ImportHolds
<1> QED BY <1>1, <1>4, ArrivesKeeps DEF WorkHolds

\* A row is read for an update or for a create.
LEMMA ReadRowKeeps ==
  ASSUME Inv, NEW t \in Tasks, ReadRow(t)
  PROVE  Inv'
<1>1. WorkHolds(task[t], db) /\ task[t].kind = "import"
  BY DEF Inv, ReadRow
<1>2. ImportHolds(task[t], db) BY <1>1, ByKind
<1>3. CASE Reads(t, Idle) BY <1>3, IdleHolds, ReadsKeeps
<1>4. ASSUME NEW r \in First(task[t].todo), NEW v \in {"create", "update"},
             Converts(r[1], task[t].pack[r[1]][r[2]]),
             Reads(t, [task[t] EXCEPT !.row = r, !.verb = v])
      PROVE  Inv'
  <2> DEFINE w == [task[t] EXCEPT !.row = r, !.verb = v]
  <2>1. ImportHolds(w, db) BY <1>2, <1>4 DEF ImportHolds
  <2> QED BY <1>4, <2>1, ReadsKeeps DEF WorkHolds
<1> QED BY <1>3, <1>4 DEF ReadRow

\* The row that is written is valid where it is written, and the rows before it stay.
LEMMA WriteRowKeeps ==
  ASSUME Inv, NEW t \in Tasks, WriteRow(t)
  PROVE  Inv'
<1> DEFINE c == RowChange(t)
           r == task[t].row
           todo == task[t].todo \ {r}
           w == [task[t] EXCEPT !.todo = @ \ {task[t].row}, !.row = None, !.verb = None]
<1>1. WorkHolds(task[t], db) /\ task[t].kind = "import" /\ task[t].row # None
  BY DEF Inv, WriteRow
<1>2. ImportHolds(task[t], db) BY <1>1, ByKind
<1>3. CASE Reads(t, Idle) BY <1>3, IdleHolds, ReadsKeeps
<1>4. CASE Accepts(db, c) /\ Commits(t, c, w) /\ overtaken' = (overtaken \/ ~task[t].fresh)
  <2>1. /\ c \in DefChange /\ c.verb # "delete" /\ Converts(c.table, c.def)
        /\ c.table = r[1] /\ c.slug = r[2] /\ c.def = task[t].pack[r[1]][r[2]]
        /\ r = <<c.table, c.slug>>
    BY <1>1, <1>2, RowChangeType
  <2>2. SoundRows(db) /\ db \in Database /\ db' = After(db, c)
    BY <1>4 DEF Inv, Commits, SoundRows
  <2>3. SoundRows(db') /\ AsKept(db')
    BY <1>4, <2>1, <2>2, AfterSound, AfterKept DEF DefChange, Inv
  <2>4. ASSUME ~overtaken' PROVE Valid(Snapshot(db'))
    <3>1. task[t].fresh /\ Valid(Snapshot(db))
      BY <1>4, <2>4 DEF Inv, ValidUnlessOvertaken
    <3>2. FitsIn(Snapshot(db), c.table, c.def)
      BY <1>1, <1>2, <2>2, <3>1, RowFits
    <3>3. Valid(Pending(Snapshot(db), c))
      BY <2>1, <2>2, <3>1, <3>2, FittingRow DEF DefChange
    <3> QED BY <1>4, <2>1, <2>2, <3>3, AfterValid DEF DefChange
  <2>5. /\ c.table \in PackTables /\ c.slug \in DOMAIN db[c.table]
        /\ db' = Put(db, c.table, c.slug, Kept(c.table, c.def))
    BY <2>1, <2>2, RowCommitted
  <2>6. ASSUME task[t].fresh, NEW o \in Rows(task[t].pack) \ todo
        PROVE  db'[o[1]][o[2]] = Kept(o[1], task[t].pack[o[1]][o[2]])
    <3>1. o = <<o[1], o[2]>> /\ o[1] \in PackTables
      BY <1>2, <2>6, PackRows DEF ImportHolds
    <3>2. CASE o = r
      <4> DEFINE x == Kept(c.table, c.def)
      <4> HIDE DEF x, c
      <4>1. db' = Put(db, c.table, c.slug, x) BY <2>5 DEF x
      <4>2. db'[c.table][c.slug] = x BY <2>2, <2>5, <4>1, PutRows
      <4> QED BY <2>1, <3>2, <4>2 DEF x
    <3>3. CASE o # r
      <4>1. o \in Rows(task[t].pack) \ task[t].todo BY <2>6, <3>3
      <4>2. db[o[1]][o[2]] = Kept(o[1], task[t].pack[o[1]][o[2]])
        BY <1>2, <2>6, <4>1 DEF ImportHolds, Landed
      <4>3. <<o[1], o[2]>> # <<c.table, c.slug>> BY <2>1, <3>1, <3>3
      <4>4. db'[o[1]][o[2]] = db[o[1]][o[2]]
        <5> DEFINE n == o[1]
                   k == o[2]
                   x == Kept(c.table, c.def)
        <5> HIDE DEF n, k, x, c
        <5>1. <<n, k>> # <<c.table, c.slug>> /\ n \in PackTables BY <3>1, <4>3 DEF n, k
        <5>2. db' = Put(db, c.table, c.slug, x) BY <2>5 DEF x
        <5>3. db'[n][k] = db[n][k]
          BY <2>2, <2>5, <5>1, <5>2, PutRows
        <5> QED BY <5>3 DEF n, k
      <4> QED BY <4>2, <4>4
    <3> QED BY <3>2, <3>3
  <2>7. task[t].fresh => Landed(task[t].pack, todo, db')
    BY <2>6 DEF Landed
  <2>8. /\ w.kind = "import" /\ DOMAIN w = {"kind", "pack", "todo", "row", "verb", "fresh"}
        /\ w.pack = task[t].pack /\ w.todo = todo /\ w.row = None /\ w.fresh = task[t].fresh
    BY <1>2 DEF ImportHolds
  <2>9. ImportHolds(w, db')
    <3> HIDE DEF w, r
    <3> QED BY <1>2, <2>7, <2>8 DEF ImportHolds
  <2> HIDE DEF w, c
  <2> QED BY <1>4, <2>3, <2>4, <2>9, Committed DEF WorkHolds
<1> QED BY <1>3, <1>4 DEF WriteRow

\* Nothing is left to do: every row is stored.
LEMMA FinishImportKeeps ==
  ASSUME Inv, NEW t \in Tasks, FinishImport(t)
  PROVE  Inv'
<1> DEFINE w == [kind |-> "imported", pack |-> task[t].pack, fresh |-> task[t].fresh]
<1>1. /\ WorkHolds(task[t], db) /\ task[t].kind = "import" /\ task[t].todo = {} /\ Reads(t, w)
  BY DEF Inv, FinishImport
<1>2. ImportHolds(task[t], db) BY <1>1, ByKind
<1>3. ImportedHolds(w, db) BY <1>1, <1>2 DEF ImportHolds, ImportedHolds
<1> QED BY <1>1, <1>3, ReadsKeeps DEF WorkHolds
-----------------------------------------------------------------------------
(* Plans.                                                                  *)

\* A call an endpoint may serve.
Usable(d, x, c) ==
  LET s == d.api_calls[c].service
  IN /\ d.api_calls[c].shape = "good"
     /\ d.services[s].origin \in d.services[s].allowlist
     /\ AtMost(d.api_calls[c].access, x.ceiling)
     /\ Fits(d, x, s)

\* The plan of an endpoint, by the slugs it selects.
Selection(d, x, on, sc) ==
  PlanOf(x, [c \in on |-> d.api_calls[c]], [c \in on |-> d.services[d.api_calls[c].service]],
         [s \in sc |-> d.scripts[s]])

\* The ways an endpoint resolves, or does not.
LEMMA Resolves ==
  ASSUME NEW d, NEW e, NEW x, x = d.endpoints[e], NEW on, on = Selected(d.api_calls, x.expr),
         NEW sc, sc = Selected(d.scripts, x.expr)
  PROVE  /\ x = None => Resolve(d, e) = None
         /\ (\E c \in on : ~Usable(d, x, c)) => Resolve(d, e) = None
         /\ ~DistinctNames(ToolsOf(x, on, sc)) => Resolve(d, e) = None
         /\ x # None /\ (\A c \in on : Usable(d, x, c)) /\ DistinctNames(ToolsOf(x, on, sc)) =>
              Resolve(d, e) = Selection(d, x, on, sc)
BY DEF Resolve, Selection, Usable, Fits

\* A plan that has passed the checks of its building is sound.
LEMMA PlanIsSound ==
  ASSUME NEW w, w.x \in Endpoint, Compiled(w), OriginsChecked(w),
         WithinCeiling(w.calls, w.x.ceiling),
         NEW plan, plan = PlanOf(w.x, w.calls, w.services, w.scripts), DistinctNames(plan.tools)
  PROVE  Sound(plan)
<1>1. /\ plan.calls = w.calls /\ plan["calls"] = w.calls /\ plan.services = w.services
      /\ plan.scripts = w.scripts /\ plan["scripts"] = w.scripts
      /\ plan.endpoint = [w.x EXCEPT !.scope = {}]
      /\ plan.callable_by = [s \in DOMAIN w.scripts |-> w.scripts[s].callable \cap DOMAIN w.calls]
      /\ plan.tools = ToolsOf(w.x, DOMAIN w.calls, DOMAIN w.scripts)
  BY DEF PlanOf
<1>2. plan.endpoint.ceiling = w.x.ceiling
  BY <1>1 DEF Endpoint
<1>3. \A u \in plan.tools : u.slug \in DOMAIN plan[IF u.kind = "scripts" THEN "scripts" ELSE "calls"]
  <2>1. ASSUME NEW u \in plan.tools
        PROVE  u.slug \in DOMAIN plan[IF u.kind = "scripts" THEN "scripts" ELSE "calls"]
    <3>1. \/ u \in {[name |-> ToolName(w.x, "api_calls", c), kind |-> "api_calls", slug |-> c] :
                      c \in DOMAIN w.calls}
          \/ u \in {[name |-> ToolName(w.x, "scripts", s), kind |-> "scripts", slug |-> s] :
                      s \in DOMAIN w.scripts}
      BY <1>1, <2>1 DEF ToolsOf
    <3>2. \/ u.kind = "api_calls" /\ u.slug \in DOMAIN w.calls
          \/ u.kind = "scripts" /\ u.slug \in DOMAIN w.scripts
      BY <3>1
    <3> QED BY <1>1, <3>2
  <2> QED BY <2>1
<1>4. \A c \in DOMAIN plan.calls :
        /\ plan.calls[c].shape = "good"
        /\ AtMost(plan.calls[c].access, plan.endpoint.ceiling)
        /\ plan.services[c].origin \in plan.services[c].allowlist
  BY <1>1, <1>2 DEF Compiled, OriginsChecked, WithinCeiling
<1>5. \A s \in DOMAIN plan.scripts : plan.callable_by[s] \subseteq DOMAIN plan.calls
  BY <1>1
<1> QED BY <1>3, <1>4, <1>5 DEF Sound

\* An answer holds if it is what the endpoint resolves to, while that is asked.
LEMMA PlannedKeeps ==
  ASSUME Inv, NEW t \in Tasks, NEW plan, Reads(t, Planned(t, plan)),
         plan # None => Sound(plan), task[t].fresh => plan = Resolve(db, task[t].endpoint)
  PROVE  Inv'
<1>1. PlannedHolds(Planned(t, plan), db) BY DEF PlannedHolds, Planned
<1> QED BY <1>1, ReadsKeeps DEF WorkHolds

\* A plan holds while it is being built.
LEMMA PlanKeeps ==
  ASSUME Inv, NEW t \in Tasks, NEW w, Reads(t, w), PlanHolds(w, db)
  PROVE  Inv'
BY ReadsKeeps DEF WorkHolds

\* A request for a plan arrives.
LEMMA AskPlanKeeps ==
  ASSUME Inv, NEW t \in Tasks, AskPlan(t)
  PROVE  Inv'
<1>1. PICK e \in Endpoints :
        Arrives(t, [kind |-> "plan", endpoint |-> e, next |-> "endpoint", x |-> None,
                    calls |-> <<>>, scripts |-> <<>>, services |-> <<>>, bound |-> {},
                    fresh |-> TRUE])
  BY DEF AskPlan
<1> DEFINE w == [kind |-> "plan", endpoint |-> e, next |-> "endpoint", x |-> None,
                 calls |-> <<>>, scripts |-> <<>>, services |-> <<>>, bound |-> {}, fresh |-> TRUE]
<1>2. PlanHolds(w, db) BY DEF PlanHolds, Current
<1> QED BY <1>1, <1>2, ArrivesKeeps DEF WorkHolds

\* The endpoint is read.
LEMMA ReadEndpointKeeps ==
  ASSUME Inv, NEW t \in Tasks, ReadEndpoint(t)
  PROVE  Inv'
<1> DEFINE x == db.endpoints[task[t].endpoint]
           w == [task[t] EXCEPT !.x = x, !.next = "api_calls"]
<1>1. WorkHolds(task[t], db) /\ task[t].kind = "plan" /\ task[t].next = "endpoint"
  BY DEF Inv, ReadEndpoint, Step
<1>2. PlanHolds(task[t], db) BY <1>1, ByKind
<1>3. CASE x = None /\ Reads(t, Planned(t, None))
  <2>1. Resolve(db, task[t].endpoint) = None BY <1>3, Resolves
  <2> QED BY <1>3, <2>1, PlannedKeeps
<1>4. CASE x # None /\ Reads(t, w)
  <2>1. x \in Endpoint BY <1>2, <1>4, Tables DEF PlanHolds, Inv, SoundRows
  <2>2. PlanHolds(w, db) BY <1>1, <1>2, <2>1 DEF PlanHolds, Current
  <2> QED BY <1>4, <2>2, PlanKeeps
<1> QED BY <1>3, <1>4 DEF ReadEndpoint

\* Then the calls it selects.
LEMMA ReadCallsKeeps ==
  ASSUME Inv, NEW t \in Tasks, ReadCalls(t)
  PROVE  Inv'
<1> DEFINE calls == [c \in Selected(db.api_calls, task[t].x.expr) |-> db.api_calls[c]]
           w == [task[t] EXCEPT !.calls = calls, !.next = "scripts"]
<1>1. WorkHolds(task[t], db) /\ task[t].kind = "plan" /\ task[t].next = "api_calls" /\ Reads(t, w)
  BY DEF Inv, ReadCalls, Step
<1>2. PlanHolds(task[t], db) BY <1>1, ByKind
<1>3. calls = Taken(db.api_calls, task[t].x.expr) BY DEF Taken
<1> HIDE DEF calls
<1>4. PlanHolds(w, db) BY <1>1, <1>2, <1>3 DEF PlanHolds, Current
<1> QED BY <1>1, <1>4, PlanKeeps

\* No service is read before the calls and the scripts are.
LEMMA NothingCompiled ==
  ASSUME NEW w, w.services = <<>>
  PROVE  Compiled(w) /\ DOMAIN w.services = {}
BY DEF Compiled

\* Then the scripts it selects.
LEMMA ReadScriptsKeeps ==
  ASSUME Inv, NEW t \in Tasks, ReadScripts(t)
  PROVE  Inv'
<1> DEFINE scripts == [s \in Selected(db.scripts, task[t].x.expr) |-> db.scripts[s]]
           w == [task[t] EXCEPT !.scripts = scripts, !.next = "compile"]
<1>1. WorkHolds(task[t], db) /\ task[t].kind = "plan" /\ task[t].next = "scripts" /\ Reads(t, w)
  BY DEF Inv, ReadScripts, Step
<1>2. PlanHolds(task[t], db) BY <1>1, ByKind
<1>3. scripts = Taken(db.scripts, task[t].x.expr) BY DEF Taken
<1> HIDE DEF scripts
<1>4. w.services = <<>> BY <1>1, <1>2 DEF PlanHolds
<1>5. Compiled(w) /\ DOMAIN w.services = {} BY <1>4, NothingCompiled
<1>6. PlanHolds(w, db) BY <1>1, <1>2, <1>3, <1>5 DEF PlanHolds, Current
<1> QED BY <1>1, <1>6, PlanKeeps

\* What a fresh plan has read is what its endpoint is resolved from.
LEMMA ReadSoFar ==
  ASSUME NEW w, NEW d, PlanHolds(w, d), w.fresh, w.next \in {"compile", "bind"}
  PROVE  /\ w.x = d.endpoints[w.endpoint] /\ w.x # None
         /\ DOMAIN w.calls = Selected(d.api_calls, w.x.expr)
         /\ DOMAIN w.scripts = Selected(d.scripts, w.x.expr)
         /\ \A c \in DOMAIN w.calls : w.calls[c] = d.api_calls[c]
         /\ \A c \in DOMAIN w.services : w.services[c] = d.services[d.api_calls[c].service]
         /\ (\E c \in DOMAIN w.calls : ~Usable(d, w.x, c)) => Resolve(d, w.endpoint) = None
         /\ ~DistinctNames(ToolsOf(w.x, DOMAIN w.calls, DOMAIN w.scripts)) =>
              Resolve(d, w.endpoint) = None
         /\ (\A c \in DOMAIN w.calls : Usable(d, w.x, c))
              /\ DistinctNames(ToolsOf(w.x, DOMAIN w.calls, DOMAIN w.scripts)) =>
              Resolve(d, w.endpoint) = Selection(d, w.x, DOMAIN w.calls, DOMAIN w.scripts)
<1>1. /\ w.x \in Endpoint /\ w.x = d.endpoints[w.endpoint]
      /\ w.calls = Taken(d.api_calls, w.x.expr) /\ w.scripts = Taken(d.scripts, w.x.expr)
      /\ DOMAIN w.services \subseteq DOMAIN w.calls
      /\ \A c \in DOMAIN w.services : w.services[c] = d.services[w.calls[c].service]
  BY DEF PlanHolds, Current, Compiled
<1>2. w.x # None BY <1>1, NoneIsNoRow
<1>3. /\ DOMAIN w.calls = Selected(d.api_calls, w.x.expr)
      /\ DOMAIN w.scripts = Selected(d.scripts, w.x.expr)
  BY <1>1 DEF Taken
<1>4. \A c \in DOMAIN w.calls : w.calls[c] = d.api_calls[c] BY <1>1 DEF Taken
<1>5. \A c \in DOMAIN w.services : w.services[c] = d.services[d.api_calls[c].service]
  BY <1>1, <1>4
<1> DEFINE x == w.x
           e == w.endpoint
           on == DOMAIN w.calls
           sc == DOMAIN w.scripts
<1>6. x = d.endpoints[e] /\ x # None /\ on = Selected(d.api_calls, x.expr)
      /\ sc = Selected(d.scripts, x.expr)
  BY <1>1, <1>2, <1>3
<1> HIDE DEF x, e, on, sc
<1>7. /\ (\E c \in on : ~Usable(d, x, c)) => Resolve(d, e) = None
      /\ ~DistinctNames(ToolsOf(x, on, sc)) => Resolve(d, e) = None
      /\ (\A c \in on : Usable(d, x, c)) /\ DistinctNames(ToolsOf(x, on, sc)) =>
              Resolve(d, e) = Selection(d, x, on, sc)
  BY <1>6, Resolves
<1> QED BY <1>1, <1>2, <1>3, <1>4, <1>5, <1>7 DEF x, e, on, sc

\* The service of a call is read, and is there while the plan is fresh.
LEMMA CompileCallKeeps ==
  ASSUME Inv, NEW t \in Tasks, CompileCall(t)
  PROVE  Inv'
<1> DEFINE b == task[t]
<1>1. WorkHolds(b, db) /\ b.kind = "plan" /\ b.next = "compile"
  BY DEF Inv, CompileCall, Step
<1>2. PlanHolds(b, db) BY <1>1, ByKind
<1>3. PICK c \in DOMAIN b.calls \ DOMAIN b.services :
        LET s == db.services[b.calls[c].service]
        IN IF s = None \/ b.calls[c].shape # "good" THEN Reads(t, Planned(t, None))
           ELSE Reads(t, [b EXCEPT
                            !.services = [k \in DOMAIN @ \cup {c} |-> IF k = c THEN s ELSE @[k]]])
  BY DEF CompileCall
<1> DEFINE s == db.services[b.calls[c].service]
           services == [k \in DOMAIN b.services \cup {c} |-> IF k = c THEN s ELSE b.services[k]]
           w == [b EXCEPT !.services = services]
<1>4. CASE (s = None \/ b.calls[c].shape # "good") /\ Reads(t, Planned(t, None))
  <2>1. ASSUME b.fresh PROVE Resolve(db, b.endpoint) = None
    <3>1. /\ b.calls[c] = db.api_calls[c] /\ DOMAIN b.calls = Selected(db.api_calls, b.x.expr)
          /\ (\E k \in DOMAIN b.calls : ~Usable(db, b.x, k)) => Resolve(db, b.endpoint) = None
      BY <1>1, <1>2, <2>1, ReadSoFar
    <3>2. c \in Present(db.api_calls) BY <3>1 DEF Selected
    <3>3. s # None BY <3>1, <3>2 DEF Inv, SoundRows
    <3>4. ~Usable(db, b.x, c) BY <1>4, <3>1, <3>3 DEF Usable
    <3> QED BY <3>1, <3>4
  <2> QED BY <1>4, <2>1, PlannedKeeps
<1>5. CASE b.calls[c].shape = "good" /\ Reads(t, w)
  <2>1. /\ DOMAIN services = DOMAIN b.services \cup {c} /\ services[c] = s
        /\ \A k \in DOMAIN services \ {c} : services[k] = b.services[k]
        /\ services = [k \in DOMAIN services |-> services[k]]
    OBVIOUS
  <2> HIDE DEF services, s
  <2>2. /\ w.kind = "plan"
        /\ DOMAIN w = {"kind", "endpoint", "next", "x", "calls", "scripts", "services", "bound", "fresh"}
        /\ w.endpoint = b.endpoint /\ w.next = b.next /\ w.x = b.x /\ w.calls = b.calls
        /\ w.scripts = b.scripts /\ w.services = services /\ w.bound = b.bound /\ w.fresh = b.fresh
    BY <1>2 DEF PlanHolds
  <2> HIDE DEF w
  <2>3. Compiled(w)
    <3>1. Compiled(b) BY <1>1, <1>2 DEF PlanHolds
    <3> QED BY <1>3, <1>5, <2>1, <2>2, <3>1 DEF Compiled
  <2>4. w.fresh => Current(w, db)
    <3>1. b.fresh => Current(b, db) BY <1>2 DEF PlanHolds
    <3> QED BY <1>1, <2>1, <2>2, <3>1 DEF Current, s
  <2>5. PlanHolds(w, db)
    <3> HIDE DEF b
    <3> QED BY <1>1, <1>2, <2>2, <2>3, <2>4 DEF PlanHolds
  <2> QED BY <1>5, <2>5, PlanKeeps
<1> QED BY <1>3, <1>4, <1>5

\* Every origin is on the allowlist of its service, or the endpoint has no plan.
LEMMA CheckOriginsKeeps ==
  ASSUME Inv, NEW t \in Tasks, CheckOrigins(t)
  PROVE  Inv'
<1> DEFINE b == task[t]
           listed == \A c \in DOMAIN b.services : b.services[c].origin \in b.services[c].allowlist
           w == [b EXCEPT !.next = "bind"]
<1>1. /\ WorkHolds(b, db) /\ b.kind = "plan" /\ b.next = "compile"
      /\ DOMAIN b.calls = DOMAIN b.services
  BY DEF Inv, CheckOrigins, Step
<1>2. PlanHolds(b, db) BY <1>1, ByKind
<1>3. CASE listed /\ Reads(t, w)
  <2>1. /\ w.kind = "plan"
        /\ DOMAIN w = {"kind", "endpoint", "next", "x", "calls", "scripts", "services", "bound", "fresh"}
        /\ w.endpoint = b.endpoint /\ w.next = "bind" /\ w.x = b.x /\ w.calls = b.calls
        /\ w.scripts = b.scripts /\ w.services = b.services /\ w.bound = b.bound /\ w.fresh = b.fresh
    BY <1>2 DEF PlanHolds
  <2> HIDE DEF w
  <2>2. Compiled(w) BY <1>1, <1>2, <2>1 DEF PlanHolds, Compiled
  <2>3. OriginsChecked(w) BY <1>1, <1>3, <2>1 DEF OriginsChecked
  <2>4. w.bound = {} BY <1>1, <1>2, <2>1 DEF PlanHolds
  <2>5. w.fresh => Current(w, db)
    BY <1>1, <1>2, <2>1, <2>4 DEF PlanHolds, Current
  <2>6. PlanHolds(w, db)
    BY <1>1, <1>2, <2>1, <2>2, <2>3, <2>4, <2>5 DEF PlanHolds
  <2> QED BY <1>3, <2>6, PlanKeeps
<1>4. CASE ~listed /\ Reads(t, Planned(t, None))
  <2>1. ASSUME b.fresh PROVE Resolve(db, b.endpoint) = None
    <3>1. /\ \A c \in DOMAIN b.services : b.services[c] = db.services[db.api_calls[c].service]
          /\ (\E k \in DOMAIN b.calls : ~Usable(db, b.x, k)) => Resolve(db, b.endpoint) = None
      BY <1>1, <1>2, <2>1, ReadSoFar
    <3>2. PICK c \in DOMAIN b.services : b.services[c].origin \notin b.services[c].allowlist
      BY <1>4
    <3>3. ~Usable(db, b.x, c) BY <3>1, <3>2 DEF Usable
    <3> QED BY <1>1, <3>1, <3>3
  <2> QED BY <1>4, <2>1, PlannedKeeps
<1> QED BY <1>3, <1>4 DEF CheckOrigins

\* The providers of one more service fit, or the endpoint has no plan.
LEMMA BindServiceKeeps ==
  ASSUME Inv, NEW t \in Tasks, BindService(t)
  PROVE  Inv'
<1> DEFINE b == task[t]
<1>1. WorkHolds(b, db) /\ b.kind = "plan" /\ b.next = "bind"
  BY DEF Inv, BindService, Step
<1>2. PlanHolds(b, db) BY <1>1, ByKind
<1>3. PICK c \in DOMAIN b.calls :
        LET s == b.calls[c].service
            ps == OfService(db.providers, s)
            fits == \A p \in ps : Bound(db.providers[p], b.services[c].origin) /\ InScope(b.x, p)
        IN /\ s \notin b.bound
           /\ IF fits THEN Reads(t, [b EXCEPT !.bound = @ \cup {s}])
              ELSE Reads(t, Planned(t, None))
  BY DEF BindService
<1> DEFINE s == b.calls[c].service
           fits == \A p \in OfService(db.providers, s) :
                     Bound(db.providers[p], b.services[c].origin) /\ InScope(b.x, p)
           w == [b EXCEPT !.bound = @ \cup {s}]
<1>4. OriginsChecked(b) /\ Compiled(b) BY <1>1, <1>2 DEF PlanHolds
<1>5. b.fresh => /\ b.calls[c] = db.api_calls[c]
                 /\ b.services[c] = db.services[s]
                 /\ fits <=> Fits(db, b.x, s)
  <2>1. SUFFICES ASSUME b.fresh
                 PROVE  /\ b.calls[c] = db.api_calls[c]
                        /\ b.services[c] = db.services[s]
                        /\ fits <=> Fits(db, b.x, s)
    OBVIOUS
  <2>2. b.calls[c] = db.api_calls[c] /\ c \in DOMAIN b.services
        /\ b.services[c] = db.services[s]
    BY <1>1, <1>2, <1>4, <2>1, ReadSoFar DEF OriginsChecked
  <2> QED BY <2>2 DEF Fits
<1>6. CASE fits /\ Reads(t, w)
  <2> HIDE DEF s, fits
  <2>1. /\ w.kind = "plan"
        /\ DOMAIN w = {"kind", "endpoint", "next", "x", "calls", "scripts", "services", "bound", "fresh"}
        /\ w.endpoint = b.endpoint /\ w.next = "bind" /\ w.x = b.x /\ w.calls = b.calls
        /\ w.scripts = b.scripts /\ w.services = b.services /\ w.bound = b.bound \cup {s}
        /\ w.fresh = b.fresh
    BY <1>1, <1>2 DEF PlanHolds
  <2> HIDE DEF w
  <2>2. Compiled(w) BY <1>4, <2>1 DEF Compiled
  <2>3. OriginsChecked(w) BY <1>4, <2>1 DEF OriginsChecked
  <2>4. w.fresh => Current(w, db)
    <3>1. b.fresh => Current(b, db) BY <1>2 DEF PlanHolds
    <3>2. b.fresh => Fits(db, b.x, s) BY <1>5, <1>6
    <3> HIDE DEF b
    <3> QED BY <1>1, <2>1, <3>1, <3>2 DEF Current
  <2>5. PlanHolds(w, db)
    BY <1>1, <1>2, <2>1, <2>2, <2>3, <2>4 DEF PlanHolds
  <2> QED BY <1>6, <2>5, PlanKeeps
<1>7. CASE ~fits /\ Reads(t, Planned(t, None))
  <2>1. ASSUME b.fresh PROVE Resolve(db, b.endpoint) = None
    <3>1. (\E k \in DOMAIN b.calls : ~Usable(db, b.x, k)) => Resolve(db, b.endpoint) = None
      BY <1>1, <1>2, <2>1, ReadSoFar
    <3>2. ~Fits(db, b.x, db.api_calls[c].service) BY <1>5, <1>7, <2>1
    <3>3. ~Usable(db, b.x, c) BY <3>2 DEF Usable
    <3> QED BY <3>1, <3>3
  <2> QED BY <1>7, <2>1, PlannedKeeps
<1> QED BY <1>3, <1>6, <1>7

\* The plan is sound; and while it is fresh, it is what the endpoint resolves to.
LEMMA FinishPlanKeeps ==
  ASSUME Inv, NEW t \in Tasks, FinishPlan(t)
  PROVE  Inv'
<1> DEFINE b == task[t]
           plan == PlanOf(b.x, b.calls, b.services, b.scripts)
           tools == ToolsOf(b.x, DOMAIN b.calls, DOMAIN b.scripts)
           passes == WithinCeiling(b.calls, b.x.ceiling) /\ DistinctNames(plan.tools)
<1>1. /\ WorkHolds(b, db) /\ b.kind = "plan" /\ b.next = "bind"
      /\ \A c \in DOMAIN b.calls : b.calls[c].service \in b.bound
  BY DEF Inv, FinishPlan, Step
<1>2. PlanHolds(b, db) BY <1>1, ByKind
<1>3. OriginsChecked(b) /\ Compiled(b) /\ b.x \in Endpoint BY <1>1, <1>2 DEF PlanHolds
<1>4. plan.tools = tools BY DEF PlanOf
<1>5. CASE passes /\ Reads(t, Planned(t, plan))
  <2>1. Sound(plan) BY <1>3, <1>5, PlanIsSound
  <2>2. ASSUME b.fresh PROVE plan = Resolve(db, b.endpoint)
    <3>1. /\ \A c \in DOMAIN b.calls : b.calls[c] = db.api_calls[c]
          /\ \A c \in DOMAIN b.services : b.services[c] = db.services[db.api_calls[c].service]
          /\ (\A c \in DOMAIN b.calls : Usable(db, b.x, c)) /\ DistinctNames(tools) =>
               Resolve(db, b.endpoint) = Selection(db, b.x, DOMAIN b.calls, DOMAIN b.scripts)
      BY <1>1, <1>2, <2>2, ReadSoFar
    <3>2. \A s \in b.bound : Fits(db, b.x, s) BY <1>1, <1>2, <2>2 DEF PlanHolds, Current
    <3>3. ASSUME NEW c \in DOMAIN b.calls PROVE Usable(db, b.x, c)
      BY <1>1, <1>3, <1>5, <3>1, <3>2 DEF Usable, OriginsChecked, Compiled, WithinCeiling
    <3>4. b.services = [c \in DOMAIN b.calls |-> db.services[db.api_calls[c].service]]
      BY <1>3, <3>1 DEF Compiled, OriginsChecked
    <3>5. /\ b.calls = [c \in DOMAIN b.calls |-> db.api_calls[c]]
          /\ b.scripts = [s \in DOMAIN b.scripts |-> db.scripts[s]]
      BY <1>1, <1>2, <2>2 DEF PlanHolds, Current, Taken
    <3>6. plan = Selection(db, b.x, DOMAIN b.calls, DOMAIN b.scripts)
      BY <3>4, <3>5 DEF Selection
    <3> HIDE DEF plan, tools, b
    <3> QED BY <1>4, <1>5, <3>1, <3>3, <3>6
  <2> HIDE DEF plan
  <2> QED BY <1>5, <2>1, <2>2, PlannedKeeps
<1>6. CASE ~passes /\ Reads(t, Planned(t, None))
  <2>1. ASSUME b.fresh PROVE Resolve(db, b.endpoint) = None
    <3>1. /\ \A c \in DOMAIN b.calls : b.calls[c] = db.api_calls[c]
          /\ (\E c \in DOMAIN b.calls : ~Usable(db, b.x, c)) => Resolve(db, b.endpoint) = None
          /\ ~DistinctNames(tools) => Resolve(db, b.endpoint) = None
      BY <1>1, <1>2, <2>1, ReadSoFar
    <3>2. CASE ~WithinCeiling(b.calls, b.x.ceiling)
      BY <3>1, <3>2 DEF WithinCeiling, Usable
    <3>3. CASE ~DistinctNames(plan.tools) BY <1>4, <3>1, <3>3
    <3> QED BY <1>6, <3>2, <3>3
  <2> QED BY <1>6, <2>1, PlannedKeeps
<1> QED BY <1>5, <1>6 DEF FinishPlan
-----------------------------------------------------------------------------
\* The invariant is one of the definitions there are to begin with.
LEMMA InitHolds ==
  ASSUME Init
  PROVE  Inv
<1>1. SoundRows(db) /\ AsKept(db) /\ ValidUnlessOvertaken
  BY StartIsSound DEF Init, ValidUnlessOvertaken
<1>2. DOMAIN task = Tasks /\ \A t \in Tasks : WorkHolds(task[t], db)
  BY IdleHolds DEF Init
<1> QED BY <1>1, <1>2 DEF Inv

\* Every step keeps it.
LEMMA NextHolds ==
  ASSUME Inv, [Next]_vars
  PROVE  Inv'
<1>1. CASE UNCHANGED vars BY <1>1 DEF vars, Inv, ValidUnlessOvertaken
<1>2. CASE Next
  <2>1. PICK t \in Tasks :
          ChangeSteps(t) \/ ProviderSteps(t) \/ ImportSteps(t) \/ PlanSteps(t) \/ Disconnect(t)
    BY <1>2 DEF Next
  <2>2. CASE ChangeSteps(t)
    BY <2>2, AskChangeKeeps, LookUpKeeps, ReadTableKeeps, WriteKeeps, RefuseKeeps DEF ChangeSteps
  <2>3. CASE ProviderSteps(t)
    BY <2>3, AskProviderKeeps, FindProviderKeeps, ReadServiceKeeps, WriteProviderKeeps
    DEF ProviderSteps
  <2>4. CASE ImportSteps(t)
    BY <2>4, AskImportKeeps, ReadRowKeeps, WriteRowKeeps, FinishImportKeeps DEF ImportSteps
  <2>5. CASE PlanSteps(t)
    BY <2>5, AskPlanKeeps, ReadEndpointKeeps, ReadCallsKeeps, ReadScriptsKeeps, CompileCallKeeps,
       CheckOriginsKeeps, BindServiceKeeps, FinishPlanKeeps DEF PlanSteps
  <2>6. CASE Disconnect(t)
    BY <2>6, IdleHolds, ReadsKeeps DEF Disconnect
  <2> QED BY <2>1, <2>2, <2>3, <2>4, <2>5, <2>6
<1> QED BY <1>1, <1>2

\* What every request has read and every table holds, at any time: the inductive
\* invariant of the requests (server/api, server/mcp/control, pack/import.rs, resolve/).
THEOREM Invariant == Spec => []Inv
<1>1. Init => Inv BY InitHolds
<1>2. Inv /\ [Next]_vars => Inv' BY NextHolds
<1> QED BY <1>1, <1>2, PTL DEF Spec

\* Rows keep their types, what a foreign key holds names a row, a service has one
\* provider, and rows are stored so that storing them again changes nothing, whoever
\* writes and in whatever order (store/, m0003 to m0005).
THEOREM RowsHold == Spec => []RowsAreSound
<1>1. Inv => RowsAreSound BY DEF Inv, RowsAreSound
<1> QED BY <1>1, Invariant, PTL

\* The definitions validate after every write and after every half import, as long as
\* no write overtook another (server/api/validate_write.rs, pack/import.rs).
THEOREM ValidityHolds == Spec => []ValidUnlessOvertaken
<1>1. Inv => ValidUnlessOvertaken BY DEF Inv
<1> QED BY <1>1, Invariant, PTL

\* A finished import nobody wrote past stored every row of its pack (pack/import.rs).
THEOREM LandingHolds == Spec => []ImportsLand
<1>1. Inv => ImportsLand
  <2>1. SUFFICES ASSUME Inv, NEW t \in Tasks, task[t].kind = "imported", task[t].fresh,
                        NEW r \in Rows(task[t].pack)
                 PROVE  db[r[1]][r[2]] = Kept(r[1], task[t].pack[r[1]][r[2]])
    BY DEF ImportsLand
  <2>2. ImportedHolds(task[t], db) BY <2>1, ByKind DEF Inv
  <2> QED BY <2>1, <2>2 DEF ImportedHolds, Landed
<1> QED BY <1>1, Invariant, PTL

\* A plan is sound whatever was written between the reads it was built from, and is
\* what its endpoint resolves to when nothing was (resolve/mod.rs).
THEOREM PlansHold == Spec => []PlansAreFaithful
<1>1. Inv => PlansAreFaithful
  <2>1. SUFFICES ASSUME Inv, NEW t \in Tasks, task[t].kind = "planned"
                 PROVE  /\ task[t].plan # None => Sound(task[t].plan)
                        /\ task[t].fresh => task[t].plan = Resolve(db, task[t].endpoint)
    BY DEF PlansAreFaithful
  <2>2. PlannedHolds(task[t], db) BY <2>1, ByKind DEF Inv
  <2> QED BY <2>2 DEF PlannedHolds
<1> QED BY <1>1, Invariant, PTL
-----------------------------------------------------------------------------
(* Exports.                                                                *)

\* An imported pack, table by table, when its rows are as they are kept.
LEMMA ImportedFields ==
  ASSUME NEW p, NEW i, i = Imported(p)
  PROVE  /\ i.providers = [q \in Providers |-> None]
         /\ DOMAIN i.services = DOMAIN p.services
         /\ \A s \in DOMAIN p.services :
              i.services[s] = IF p.services[s] = None THEN None ELSE KeptService(p.services[s])
         /\ DOMAIN i.api_calls = DOMAIN p.api_calls
         /\ \A c \in DOMAIN p.api_calls : i.api_calls[c] = p.api_calls[c]
         /\ DOMAIN i.scripts = DOMAIN p.scripts
         /\ \A s \in DOMAIN p.scripts :
              i.scripts[s] = IF p.scripts[s] = None THEN None ELSE KeptScript(p.scripts[s])
         /\ DOMAIN i.endpoints = DOMAIN p.endpoints
         /\ \A f \in DOMAIN p.endpoints :
              i.endpoints[f] = IF p.endpoints[f] = None THEN None ELSE KeptEndpoint(p.endpoints[f])
<1> DEFINE stored(name) == [k \in DOMAIN p[name] |-> IF p[name][k] = None THEN None
                                                     ELSE Kept(name, p[name][k])]
<1>1. i = [Empty EXCEPT !.services = stored("services"), !.api_calls = stored("api_calls"),
                        !.scripts = stored("scripts"), !.endpoints = stored("endpoints")]
  BY DEF Imported
<1> DEFINE sv == stored("services")
           ac == stored("api_calls")
           sc == stored("scripts")
           es == stored("endpoints")
<1>2. /\ sv = [k \in DOMAIN p.services |-> IF p.services[k] = None THEN None
                                           ELSE KeptService(p.services[k])]
      /\ ac = [k \in DOMAIN p.api_calls |-> IF p.api_calls[k] = None THEN None ELSE p.api_calls[k]]
      /\ sc = [k \in DOMAIN p.scripts |-> IF p.scripts[k] = None THEN None
                                          ELSE KeptScript(p.scripts[k])]
      /\ es = [k \in DOMAIN p.endpoints |-> IF p.endpoints[k] = None THEN None
                                            ELSE KeptEndpoint(p.endpoints[k])]
  BY DEF Kept
<1> HIDE DEF sv, ac, sc, es
<1>3. i = [Empty EXCEPT !.services = sv, !.api_calls = ac, !.scripts = sc, !.endpoints = es]
  BY <1>1 DEF sv, ac, sc, es
<1>4. /\ i.providers = [q \in Providers |-> None] /\ i.services = sv /\ i.api_calls = ac
      /\ i.scripts = sc /\ i.endpoints = es
  BY <1>3 DEF Empty
<1> QED BY <1>2, <1>4

\* An export that is imported has the rows its endpoint selects, and its services, but
\* none of the providers.
LEMMA ExportedAgain ==
  ASSUME NEW d, SoundRows(d), AsKept(d), NEW e \in Present(d.endpoints),
         NEW i, i = Imported(Export(d, e)), NEW x, x = d.endpoints[e],
         NEW on, on = Selected(d.api_calls, x.expr), NEW sc, sc = Selected(d.scripts, x.expr)
  PROVE  /\ i.endpoints[e] \in Endpoint
         /\ i.endpoints[e].expr = x.expr /\ i.endpoints[e].aliases = x.aliases
         /\ i.endpoints[e].shape = x.shape /\ i.endpoints[e].ceiling = x.ceiling
         /\ i.endpoints[e].scope = {}
         /\ \A s : OfService(i.providers, s) = {}
         /\ Selected(i.api_calls, x.expr) = on /\ Selected(i.scripts, x.expr) = sc
         /\ \A c \in on : i.api_calls[c] = d.api_calls[c]
         /\ \A s \in sc : i.scripts[s] = d.scripts[s]
         /\ \A c \in on : i.services[d.api_calls[c].service] = d.services[d.api_calls[c].service]
<1>1. d \in Database BY DEF SoundRows
<1> DEFINE p == Export(d, e)
<1>2. /\ p.services = Only(d.services, ExportedServices(d, x))
      /\ p.api_calls = Only(d.api_calls, ExportedCalls(d, x))
      /\ p.scripts = Only(d.scripts, ExportedScripts(d, x))
      /\ DOMAIN p.endpoints = Endpoints /\ p.endpoints[e] \in Endpoint
      /\ p.endpoints[e].expr = x.expr /\ p.endpoints[e].aliases = x.aliases
      /\ p.endpoints[e].shape = x.shape /\ p.endpoints[e].ceiling = x.ceiling
      /\ p.endpoints[e].scope = {}
  BY <1>1, ExportFields
<1>3. i = Imported(p) OBVIOUS
<1> HIDE DEF p
<1>4. /\ DOMAIN p.services = DOMAIN d.services
      /\ \A s \in Present(d.services) \cap ExportedServices(d, x) : p.services[s] = d.services[s]
      /\ DOMAIN p.api_calls = DOMAIN d.api_calls
      /\ Present(p.api_calls) = Present(d.api_calls) \cap ExportedCalls(d, x)
      /\ \A c \in Present(d.api_calls) \cap ExportedCalls(d, x) : p.api_calls[c] = d.api_calls[c]
      /\ DOMAIN p.scripts = DOMAIN d.scripts
      /\ Present(p.scripts) = Present(d.scripts) \cap ExportedScripts(d, x)
      /\ \A s \in Present(d.scripts) \cap ExportedScripts(d, x) : p.scripts[s] = d.scripts[s]
  BY <1>2, OnlyRows
<1>5. /\ i.providers = [q \in Providers |-> None]
      /\ \A s \in DOMAIN p.services :
           i.services[s] = IF p.services[s] = None THEN None ELSE KeptService(p.services[s])
      /\ DOMAIN i.api_calls = DOMAIN p.api_calls
      /\ \A c \in DOMAIN p.api_calls : i.api_calls[c] = p.api_calls[c]
      /\ DOMAIN i.scripts = DOMAIN p.scripts
      /\ \A s \in DOMAIN p.scripts :
           i.scripts[s] = IF p.scripts[s] = None THEN None ELSE KeptScript(p.scripts[s])
      /\ \A f \in DOMAIN p.endpoints :
           i.endpoints[f] = IF p.endpoints[f] = None THEN None ELSE KeptEndpoint(p.endpoints[f])
  BY <1>3, ImportedFields
<1>6. i.endpoints[e] = p.endpoints[e]
  <2>1. e \in Endpoints BY <1>1, RowTypes
  <2>2. p.endpoints[e] # None BY <1>2, NoneIsNoRow
  <2>3. KeptRow("endpoints", p.endpoints[e]) BY <1>2, AsKeptRows DEF KeptRow
  <2> QED BY <1>2, <1>5, <2>1, <2>2, <2>3, KeptAgain
<1>7. ASSUME NEW s \in Present(d.services) \cap ExportedServices(d, x)
      PROVE  i.services[s] = d.services[s]
  <2>1. p.services[s] = d.services[s] /\ s \in DOMAIN p.services /\ d.services[s] # None
    BY <1>4 DEF Present
  <2>2. d.services[s] \in Service /\ KeptRow("services", d.services[s])
    BY <1>1, <1>7, RowTypes, AsKeptRows
  <2> QED BY <1>5, <2>1, <2>2, KeptAgain
<1>8. /\ Present(i.api_calls) = Present(p.api_calls)
      /\ \A c \in Present(p.api_calls) : i.api_calls[c] = d.api_calls[c]
  BY <1>4, <1>5 DEF Present
<1>9. ASSUME NEW s \in Present(p.scripts) PROVE i.scripts[s] = d.scripts[s] /\ d.scripts[s] # None
  <2>1. /\ s \in Present(d.scripts) /\ p.scripts[s] = d.scripts[s] /\ s \in DOMAIN p.scripts
        /\ d.scripts[s] # None
    BY <1>4 DEF Present
  <2>2. d.scripts[s] \in Script /\ KeptRow("scripts", d.scripts[s])
    BY <1>1, <2>1, RowTypes, AsKeptRows
  <2> QED BY <1>5, <2>1, <2>2, KeptAgain
<1>10. Present(i.scripts) = Present(p.scripts)
  BY <1>5, <1>9 DEF Present
<1>11. /\ on \subseteq Present(d.api_calls) /\ on \subseteq ExportedCalls(d, x)
       /\ sc \subseteq Present(d.scripts) /\ sc \subseteq ExportedScripts(d, x)
  BY DEF Selected, ExportedCalls, ExportedScripts
<1>12. Selected(i.api_calls, x.expr) = on
  BY <1>4, <1>8, <1>11 DEF Selected
<1>13. Selected(i.scripts, x.expr) = sc
  BY <1>4, <1>9, <1>10, <1>11 DEF Selected
<1>14. \A c \in on : i.api_calls[c] = d.api_calls[c]
  BY <1>4, <1>8, <1>11
<1>15. \A s \in sc : i.scripts[s] = d.scripts[s]
  BY <1>4, <1>9, <1>11
<1>16. ASSUME NEW c \in on
       PROVE  i.services[d.api_calls[c].service] = d.services[d.api_calls[c].service]
  <2>1. d.api_calls[c].service \in ExportedServices(d, x) BY <1>11 DEF ExportedServices
  <2>2. d.api_calls[c].service \in Services BY <1>1, <1>11, RowTypes DEF ApiCall
  <2>3. d.services[d.api_calls[c].service] # None BY <1>11 DEF SoundRows
  <2>4. d.api_calls[c].service \in Present(d.services) BY <1>1, <2>2, <2>3, Tables DEF Present
  <2> QED BY <1>7, <2>1, <2>4
<1>17. \A s : OfService(i.providers, s) = {}
  BY <1>5 DEF OfService, Present
<1> QED BY <1>2, <1>6, <1>12, <1>13, <1>14, <1>15, <1>16, <1>17

\* Tools are named by aliases alone.
LEMMA SameTools ==
  ASSUME NEW x, NEW y, x.aliases = y.aliases, NEW on, NEW sc
  PROVE  ToolsOf(x, on, sc) = ToolsOf(y, on, sc)
BY DEF ToolsOf, ToolName

\* What an endpoint resolves to, its export resolves to where it is imported.
LEMMA ExportResolves ==
  ASSUME NEW d, SoundRows(d), AsKept(d), NEW e \in Present(d.endpoints), Resolve(d, e) # None
  PROVE  Resolve(Imported(Export(d, e)), e) = Resolve(d, e)
<1> DEFINE i == Imported(Export(d, e))
           x == d.endpoints[e]
           y == i.endpoints[e]
           on == Selected(d.api_calls, x.expr)
           sc == Selected(d.scripts, x.expr)
<1>1. /\ y \in Endpoint
      /\ y.expr = x.expr /\ y.aliases = x.aliases /\ y.shape = x.shape /\ y.ceiling = x.ceiling
      /\ \A s : OfService(i.providers, s) = {}
      /\ Selected(i.api_calls, x.expr) = on /\ Selected(i.scripts, x.expr) = sc
      /\ \A c \in on : i.api_calls[c] = d.api_calls[c]
      /\ \A s \in sc : i.scripts[s] = d.scripts[s]
      /\ \A c \in on : i.services[d.api_calls[c].service] = d.services[d.api_calls[c].service]
  BY ExportedAgain
<1>2. x \in Endpoint BY RowTypes DEF SoundRows
<1>3. x # None /\ y # None BY <1>1, <1>2, NoneIsNoRow
<1> HIDE DEF i
<1>4. /\ \A c \in on : Usable(d, x, c)
      /\ DistinctNames(ToolsOf(x, on, sc))
      /\ Resolve(d, e) = Selection(d, x, on, sc)
  BY <1>3, Resolves
<1>5. ASSUME NEW c \in on PROVE Usable(i, y, c)
  BY <1>1, <1>4 DEF Usable, Fits
<1>6. ToolsOf(y, on, sc) = ToolsOf(x, on, sc) BY <1>1, SameTools
<1>7. on = Selected(i.api_calls, y.expr) /\ sc = Selected(i.scripts, y.expr)
  BY <1>1
<1>8. Resolve(i, e) = Selection(i, y, on, sc)
  <2> HIDE DEF on, sc, y
  <2>1. DistinctNames(ToolsOf(y, on, sc)) BY <1>4, <1>6
  <2>2. y = i.endpoints[e] BY DEF y
  <2> QED BY <1>3, <1>5, <1>7, <2>1, <2>2, Resolves
<1> DEFINE calls == [c \in on |-> d.api_calls[c]]
           services == [c \in on |-> d.services[d.api_calls[c].service]]
           scripts == [s \in sc |-> d.scripts[s]]
<1>9. /\ [c \in on |-> i.api_calls[c]] = calls
      /\ [s \in sc |-> i.scripts[s]] = scripts
      /\ [c \in on |-> i.services[i.api_calls[c].service]] = services
  BY <1>1
<1>10. [x EXCEPT !.scope = {}] = [y EXCEPT !.scope = {}]
  BY <1>1, <1>2 DEF Endpoint
<1>11. /\ DOMAIN calls = on /\ DOMAIN scripts = sc
       /\ Selection(d, x, on, sc) = PlanOf(x, calls, services, scripts)
       /\ Selection(i, y, on, sc) = PlanOf(y, calls, services, scripts)
  BY <1>9 DEF Selection
<1> HIDE DEF calls, services, scripts
<1>12. PlanOf(y, calls, services, scripts) = PlanOf(x, calls, services, scripts)
  BY <1>6, <1>10, <1>11 DEF PlanOf
<1> QED BY <1>4, <1>8, <1>11, <1>12 DEF i

\* While no write overtook another, an endpoint's export validates, and where it is
\* imported it resolves to the same plan (pack/export.rs).
THEOREM ExportsHold == Spec => []ExportsReproduceThePlan
<1>1. Inv => ExportsReproduceThePlan
  <2>1. SUFFICES ASSUME Inv, ~overtaken, NEW e \in Present(db.endpoints)
                 PROVE  /\ Valid(Export(db, e))
                        /\ Resolve(db, e) # None =>
                             Digest(Resolve(Imported(Export(db, e)), e)) = Digest(Resolve(db, e))
    BY DEF ExportsReproduceThePlan
  <2>2. SoundRows(db) /\ AsKept(db) /\ Valid(Snapshot(db))
    BY <2>1 DEF Inv, ValidUnlessOvertaken
  <2> QED BY <2>2, ExportIsValid, ExportResolves
<1> QED BY <1>1, Invariant, PTL
-----------------------------------------------------------------------------
(* Steps.                                                                  *)

\* A change of the other tables takes a provider only with its service.
LEMMA ProvidersStay ==
  ASSUME NEW d \in Database, NEW c \in DefChange, NEW p \in Present(d.providers),
         After(d, c).providers[p] # d.providers[p]
  PROVE  After(d, c).providers[p] = None /\ After(d, c).services[d.providers[p].service] = None
<1> DEFINE e == After(d, c)
<1>1. \A table \in PackTables : \A k, x : Put(d, table, k, x).providers = d.providers
  <2>1. SUFFICES ASSUME NEW table \in PackTables, NEW k, NEW x
                 PROVE  Put(d, table, k, x).providers = d.providers
    OBVIOUS
  <2>2. table # "providers" BY DEF PackTables
  <2> QED BY <2>2 DEF Put, Database
<1>2. CASE c.verb # "delete"
  <2> DEFINE x == Kept(c.table, c.def)
  <2> HIDE DEF x
  <2>0. c.table \in PackTables /\ e = Put(d, c.table, c.slug, x)
    BY <1>2, RowCommitted DEF x
  <2>1. e.providers = d.providers BY <1>1, <2>0
  <2> QED BY <2>1
<1>3. CASE c.verb = "delete" /\ c \in ServiceChange
  <2>1. e = DropService(d, c.slug) /\ c.slug \in Services BY <1>3, ServiceChanged
  <2>2. /\ e.services[c.slug] = None
        /\ e.providers = Without(d.providers, OfService(d.providers, c.slug))
    BY <2>1, DropServiceFields
  <2>3. p \in OfService(d.providers, c.slug) BY <2>2, WithoutRows
  <2>4. d.providers[p].service = c.slug BY <2>3 DEF OfService
  <2>5. e.providers[p] = None BY <2>2, <2>3 DEF Without, Present
  <2> QED BY <2>2, <2>4, <2>5
<1>4. CASE c.verb = "delete" /\ c \in CallChange
  <2>0. e = DropCalls(d, {c.slug}) BY <1>4, CallChanged
  <2>1. e.providers = d.providers BY <2>0, DropCallsFields
  <2> QED BY <2>1
<1>5. CASE c.verb = "delete" /\ c \in ScriptChange
  <2>1. e.providers = d.providers BY <1>1, <1>5, ScriptChanged DEF PackTables
  <2> QED BY <2>1
<1>6. CASE c.verb = "delete" /\ c \in EndpointChange
  <2>1. e.providers = d.providers BY <1>1, <1>6, EndpointChanged DEF PackTables
  <2> QED BY <2>1
<1> QED BY <1>2, <1>3, <1>4, <1>5, <1>6 DEF DefChange

\* A row that is written leaves the other tables as they are.
LEMMA OtherTables ==
  ASSUME NEW d \in Database, NEW table \in PackTables, NEW k, NEW x
  PROVE  /\ Put(d, table, k, x).providers = d.providers
         /\ table # "endpoints" => Put(d, table, k, x).endpoints = d.endpoints
  BY DEF Put, Database, PackTables

\* An endpoint whose row a step leaves keeps its scope.
LEMMA ScopeStays ==
  ASSUME SoundRows(db), NEW e \in Present(db.endpoints),
         db'.endpoints[e].scope = db.endpoints[e].scope, db'.providers = db.providers
  PROVE  ScopeLeft(e)
<1>1. db.endpoints[e].scope \subseteq Present(db.providers) /\ db.endpoints[e] # None
  BY DEF SoundRows, Present
<1> QED BY <1>1 DEF ScopeLeft

\* Providers that go leave every scope they were in, and no more.
LEMMA ScopeShrinks ==
  ASSUME SoundRows(db), NEW e \in Present(db.endpoints), NEW gone,
         db'.providers = Without(db.providers, gone),
         db'.endpoints[e].scope = db.endpoints[e].scope \ gone
  PROVE  ScopeLeft(e)
<1>1. db.endpoints[e].scope \subseteq Present(db.providers) /\ db.endpoints[e] # None
  BY DEF SoundRows, Present
<1>2. Present(db'.providers) = Present(db.providers) \ gone BY WithoutRows
<1> QED BY <1>1, <1>2 DEF ScopeLeft

\* Nothing is written: nothing is changed.
LEMMA NothingWritten ==
  ASSUME SoundRows(db), db' = db
  PROVE  SetByHand
<1>1. \A e \in Present(db'.endpoints) : ScopeLeft(e) BY ScopeStays
<1> QED BY <1>1 DEF SetByHand

\* A change of a table of packs leaves the scope of every endpoint it is not about.
LEMMA ScopesElsewhere ==
  ASSUME SoundRows(db), NEW c \in DefChange, db' = After(db, c),
         NEW e \in Present(db'.endpoints),
         c.table = "endpoints" /\ c.verb # "delete" => c.slug # e
  PROVE  ScopeLeft(e)
<1>0. db \in Database BY DEF SoundRows
<1>1. CASE c.verb # "delete"
  <2> DEFINE x == Kept(c.table, c.def)
  <2> HIDE DEF x
  <2>1. c.table \in PackTables /\ db' = Put(db, c.table, c.slug, x)
    BY <1>0, <1>1, RowCommitted DEF x
  <2>2. db'.providers = db.providers BY <1>0, <2>1, OtherTables
  <2>3. db'.endpoints[e] = db.endpoints[e]
    <3>1. CASE c.table # "endpoints" BY <1>0, <2>1, <3>1, OtherTables
    <3>2. CASE c.table = "endpoints"
      BY <1>0, <1>1, <2>1, <3>2, Tables DEF Put, Database
    <3> QED BY <3>1, <3>2
  <2>4. e \in Present(db.endpoints)
    <3>1. e \in DOMAIN db'.endpoints /\ db'.endpoints[e] # None BY DEF Present
    <3>2. DOMAIN db'.endpoints = DOMAIN db.endpoints
      <4>1. CASE c.table # "endpoints" BY <1>0, <2>1, <4>1, OtherTables
      <4>2. CASE c.table = "endpoints" BY <1>0, <2>1, <4>2, Tables DEF Put, Database
      <4> QED BY <4>1, <4>2
    <3> QED BY <2>3, <3>1, <3>2 DEF Present
  <2> QED BY <2>2, <2>3, <2>4, ScopeStays
<1>2. CASE c.verb = "delete" /\ c \in ServiceChange
  <2>1. db' = DropService(db, c.slug) /\ c.slug \in Services BY <1>0, <1>2, ServiceChanged
  <2>2. /\ db'.providers = Without(db.providers, OfService(db.providers, c.slug))
        /\ Present(db'.endpoints) = Present(db.endpoints)
        /\ \A f \in Present(db.endpoints) :
             db'.endpoints[f].scope = db.endpoints[f].scope \ OfService(db.providers, c.slug)
    BY <1>0, <2>1, DropServiceFields
  <2> QED BY <2>2, ScopeShrinks
<1>3. CASE c.verb = "delete" /\ c \in CallChange
  <2>1. db' = DropCalls(db, {c.slug}) BY <1>0, <1>3, CallChanged
  <2>2. db'.providers = db.providers /\ db'.endpoints = db.endpoints
    BY <1>0, <2>1, DropCallsFields
  <2> QED BY <2>2, ScopeStays
<1>4. CASE c.verb = "delete" /\ c \in ScriptChange
  <2>1. db' = Put(db, "scripts", c.slug, None) BY <1>0, <1>4, ScriptChanged
  <2>2. db'.providers = db.providers /\ db'.endpoints = db.endpoints
    BY <1>0, <2>1, OtherTables DEF PackTables
  <2> QED BY <2>2, ScopeStays
<1>5. CASE c.verb = "delete" /\ c \in EndpointChange
  <2>1. db' = Put(db, "endpoints", c.slug, None) /\ c.slug \in Endpoints
    BY <1>0, <1>5, EndpointChanged
  <2>2. db'.providers = db.providers BY <1>0, <2>1, OtherTables DEF PackTables
  <2>3. /\ DOMAIN db'.endpoints = DOMAIN db.endpoints
        /\ db'.endpoints[c.slug] = None
        /\ \A f \in Endpoints \ {c.slug} : db'.endpoints[f] = db.endpoints[f]
    BY <1>0, <2>1, Tables DEF Put, Database
  <2>4. e \in Endpoints \ {c.slug} /\ e \in Present(db.endpoints)
    BY <1>0, <2>3, Tables DEF Present
  <2> QED BY <2>2, <2>3, <2>4, ScopeStays
<1> QED BY <1>1, <1>2, <1>3, <1>4, <1>5 DEF DefChange

\* And none appears by such a change.
LEMMA AbsentProvidersStay ==
  ASSUME NEW d \in Database, NEW c \in DefChange, NEW p \in Providers,
         After(d, c).providers[p] # d.providers[p]
  PROVE  p \in Present(d.providers)
<1> SUFFICES ASSUME d.providers[p] = None PROVE FALSE BY Tables DEF Present
<1>1. ASSUME NEW gone, After(d, c).providers = Without(d.providers, gone) PROVE FALSE
  <2>1. Without(d.providers, gone)[p] = None BY Tables DEF Without
  <2> QED BY <1>1, <2>1
<1>2. CASE c.verb # "delete"
  <2> DEFINE x == Kept(c.table, c.def)
  <2> HIDE DEF x
  <2>1. c.table \in PackTables /\ After(d, c) = Put(d, c.table, c.slug, x)
    BY <1>2, RowCommitted DEF x
  <2> QED BY <2>1, OtherTables
<1>3. CASE c.verb = "delete" /\ c \in ServiceChange
  <2>1. After(d, c) = DropService(d, c.slug) /\ c.slug \in Services BY <1>3, ServiceChanged
  <2> QED BY <1>1, <2>1, DropServiceFields
<1>4. CASE c.verb = "delete" /\ c \in CallChange
  <2>1. After(d, c) = DropCalls(d, {c.slug}) BY <1>4, CallChanged
  <2> QED BY <2>1, DropCallsFields
<1>5. CASE c.verb = "delete" /\ c \in ScriptChange
  BY <1>5, ScriptChanged, OtherTables DEF PackTables
<1>6. CASE c.verb = "delete" /\ c \in EndpointChange
  BY <1>6, EndpointChanged, OtherTables DEF PackTables
<1> QED BY <1>2, <1>3, <1>4, <1>5, <1>6 DEF DefChange

\* An endpoint is written with the scope its change has.
LEMMA ScopeIsWritten ==
  ASSUME NEW d \in Database, NEW c \in DefChange, c.table = "endpoints", c.verb # "delete",
         Converts(c.table, c.def)
  PROVE  After(d, c).endpoints[c.slug].scope = c.def.scope
<1>1. c \in EndpointChange
  BY DEF DefChange, ServiceChange, CallChange, ScriptChange, EndpointChange, Change
<1>2. /\ After(d, c) = Put(d, "endpoints", c.slug, KeptEndpoint(c.def))
      /\ c.def \in Endpoint /\ c.slug \in Endpoints
  BY <1>1, EndpointChanged
<1>3. KeptEndpoint(c.def).scope = c.def.scope
  BY <1>2, KeptEndpointType DEF Converts
<1> DEFINE x == KeptEndpoint(c.def)
<1> HIDE DEF x
<1>4. Put(d, "endpoints", c.slug, x).endpoints[c.slug] = x
  BY <1>2, Tables DEF Put, Database
<1> QED BY <1>2, <1>3, <1>4 DEF x

\* The write of a change.
LEMMA WriteByHand ==
  ASSUME Inv, NEW t \in Tasks, Write(t)
  PROVE  SetByHand
<1> DEFINE c == task[t].change
           w == task[t]
<1>1. /\ w.kind = "change" /\ w.next = 5 /\ Commits(t, c, Idle)
      /\ c.verb # "delete" => Converts(c.table, c.def)
  BY DEF Inv, Write, AllRead, Stores, Order
<1>2. ChangeHolds(w, db) BY <1>1, ByKind DEF Inv
<1>3. /\ c \in DefChange /\ db \in Database /\ SoundRows(db) /\ db' = After(db, c)
      /\ task'[t] = Idle
  BY <1>1, <1>2 DEF ChangeHolds, Commits, Inv, SoundRows
<1>4. ASSUME NEW p \in Providers, db'.providers[p] # db.providers[p]
      PROVE  /\ db.providers[p] # None /\ db'.providers[p] = None
             /\ db'.services[db.providers[p].service] = None
  <2>1. p \in Present(db.providers) BY <1>3, <1>4, AbsentProvidersStay
  <2> QED BY <1>3, <1>4, <2>1, ProvidersStay DEF Present
<1>5. ASSUME NEW e \in Present(db'.endpoints)
      PROVE  ScopeLeft(e) \/ (MayWrite(t, e) /\ db'.endpoints[e].scope = ScopeAsked(t, e))
  <2>1. CASE c.table = "endpoints" /\ c.verb # "delete" => c.slug # e
    BY <1>3, <2>1, ScopesElsewhere
  <2>2. CASE c.table = "endpoints" /\ c.verb # "delete" /\ c.slug = e
    <3>1. db'.endpoints[e].scope = c.def.scope
      BY <1>1, <1>3, <2>2, ScopeIsWritten
    <3>2. MayWrite(t, e) BY <1>1, <1>3, <2>2 DEF MayWrite
    <3>3. ScopeHolds(w) BY <1>2 DEF ChangeHolds
    <3>4. w.asked.by \in {"api", "control"} /\ c.verb \in {"create", "update"}
      BY <1>3, <2>2, <3>3
      DEF ScopeHolds, DefChange, ServiceChange, CallChange, ScriptChange, EndpointChange, Change
    <3>5. CASE w.asked.by = "api"
      BY <1>1, <2>2, <3>1, <3>2, <3>3, <3>5 DEF ScopeHolds, ScopeAsked
    <3>6. CASE w.asked.by = "control" /\ c.verb = "create"
      BY <1>1, <2>2, <3>1, <3>2, <3>3, <3>6 DEF ScopeHolds, ScopeAsked
    <3>7. CASE w.asked.by = "control" /\ c.verb = "update"
      <4>1. ScopeAsked(t, e) = (IF w.fresh THEN db.endpoints[e] ELSE w.found).scope
        BY <1>1, <3>7 DEF ScopeAsked
      <4>2. CASE w.fresh
        BY <1>1, <1>2, <2>2, <3>1, <3>2, <3>7, <4>1, <4>2 DEF ChangeHolds
      <4>3. CASE ~w.fresh
        BY <1>1, <2>2, <3>1, <3>2, <3>3, <3>7, <4>1, <4>3 DEF ScopeHolds
      <4> QED BY <4>2, <4>3
    <3> QED BY <3>4, <3>5, <3>6, <3>7
  <2> QED BY <2>1, <2>2
<1> QED BY <1>4, <1>5 DEF SetByHand

\* A write of a provider takes it out of no scope unless it deletes it.
LEMMA ProviderScopes ==
  ASSUME SoundRows(db), NEW c \in ProviderChange, db' = After(db, c),
         NEW e \in Present(db'.endpoints)
  PROVE  ScopeLeft(e)
<1>0. db \in Database BY DEF SoundRows
<1>1. CASE c.verb = "delete"
  <2>1. db' = DropProviders(db, {c.slug}) BY <1>0, <1>1, ProviderChanged
  <2>2. /\ db'.providers = Without(db.providers, {c.slug})
        /\ Present(db'.endpoints) = Present(db.endpoints)
        /\ \A f \in Present(db.endpoints) :
             db'.endpoints[f].scope = db.endpoints[f].scope \ {c.slug}
    BY <1>0, <2>1, DropProvidersFields
  <2> QED BY <2>2, ScopeShrinks
<1>2. CASE c.verb # "delete"
  <2>1. db' = Put(db, "providers", c.slug, c.def) /\ c.slug \in Providers /\ c.def \in Provider
    BY <1>0, <1>2, ProviderChanged
  <2>2. c.def # None BY <2>1, NoneIsNoRow
  <2>3. /\ db'.endpoints = db.endpoints
        /\ db'.providers = [db.providers EXCEPT ![c.slug] = c.def]
    BY <1>0, <2>1 DEF Put, Database
  <2>4. Present(db.providers) \subseteq Present(db'.providers)
    BY <1>0, <2>1, <2>2, <2>3, Tables DEF Present
  <2>5. e \in Present(db.endpoints) BY <2>3
  <2>6. db.endpoints[e].scope \subseteq Present(db.providers) /\ db.endpoints[e] # None
    BY <2>5 DEF SoundRows, Present
  <2> QED BY <2>3, <2>4, <2>6 DEF ScopeLeft
<1> QED BY <1>1, <1>2

\* The write of a provider: it becomes what was asked for, with the secret that was found
\* if none was submitted.
LEMMA WriteProviderByHand ==
  ASSUME Inv, NEW t \in Tasks, WriteProvider(t)
  PROVE  SetByHand
<1> DEFINE write == ProviderWrite(t)
           w == task[t]
           c == w.change
<1>0. SoundRows(db) /\ db \in Database BY DEF Inv, SoundRows
<1>1. w.kind = "provider" /\ w.next = "write" BY DEF WriteProvider
<1>2. ProviderHolds(w, db) BY <1>1, ByKind DEF Inv
<1>3. CASE db' = db BY <1>0, <1>3, NothingWritten
<1>4. CASE Commits(t, write, Idle)
  <2>1. /\ write \in ProviderChange /\ write.slug = c.slug /\ write.verb = c.verb
        /\ c.verb # "delete" =>
             /\ write.def.secret = Secret(c.def.secret, w.found)
             /\ write.def.service = c.def.service /\ write.def.bound = c.def.bound
    BY <1>2, ProviderWriteType
  <2> HIDE DEF write
  <2>2. db' = After(db, write) /\ task'[t] = Idle
    BY <1>4 DEF Commits
  <2>3. CASE c.verb = "delete"
    <3>1. db' = DropProviders(db, {c.slug}) BY <1>0, <2>1, <2>2, <2>3, ProviderChanged
    <3>2. db'.providers = Without(db.providers, {c.slug})
      BY <1>0, <3>1, DropProvidersFields
    <3>3. ASSUME NEW p \in Providers, db'.providers[p] # db.providers[p]
          PROVE  ByHand(p)
      <4>1. p = c.slug /\ db'.providers[p] = None
        BY <1>0, <3>2, <3>3, Tables DEF Without
      <4> QED BY <1>1, <2>2, <2>3, <4>1 DEF ByHand
    <3> QED BY <1>0, <2>1, <2>2, <3>3, ProviderScopes DEF SetByHand
  <2>4. CASE c.verb # "delete"
    <3> DEFINE x == write.def
    <3> HIDE DEF x
    <3>1. /\ db' = Put(db, "providers", c.slug, x)
          /\ c.slug \in Providers /\ x \in Provider
      BY <1>0, <2>1, <2>2, <2>4, ProviderChanged DEF x
    <3>2. db'.providers = [db.providers EXCEPT ![c.slug] = x]
      BY <1>0, <3>1 DEF Put, Database
    <3>3. ASSUME NEW p \in Providers, db'.providers[p] # db.providers[p]
          PROVE  ByHand(p)
      <4>1. p = c.slug /\ db'.providers[p] = x
        BY <1>0, <3>1, <3>2, <3>3, Tables
      <4>2. db'.providers[p] # None BY <3>1, <4>1, NoneIsNoRow
      <4>3. x.service = c.def.service /\ x.bound = c.def.bound
        BY <2>1, <2>4 DEF x
      <4>4. c.def.secret # None => x.secret = c.def.secret
        BY <2>1, <2>4 DEF x, Secret
      <4>5. ASSUME c.verb = "update", c.def.secret = None, w.found.secret # Env
            PROVE  x.secret = (IF w.fresh THEN db.providers[p] ELSE w.found).secret
        <5>1. w.found # None /\ (w.fresh => w.found = db.providers[p])
          BY <1>1, <1>2, <4>1, <4>5 DEF ProviderHolds
        <5>2. x.secret = w.found.secret
          BY <2>1, <2>4, <4>5, <5>1 DEF x, Secret
        <5>3. CASE w.fresh BY <5>1, <5>2, <5>3
        <5>4. CASE ~w.fresh BY <5>2, <5>4
        <5> QED BY <5>3, <5>4
      <4> QED BY <1>1, <2>2, <2>4, <4>1, <4>2, <4>3, <4>4, <4>5 DEF ByHand
    <3> QED BY <1>0, <2>1, <2>2, <3>3, ProviderScopes DEF SetByHand
  <2> QED BY <2>3, <2>4
<1> QED BY <1>3, <1>4 DEF WriteProvider

\* The write of a row: no provider is in a pack, and its endpoints have the scopes it says.
LEMMA WriteRowByHand ==
  ASSUME Inv, NEW t \in Tasks, WriteRow(t)
  PROVE  SetByHand
<1> DEFINE c == RowChange(t)
           v == task[t]
           w == [v EXCEPT !.todo = @ \ {v.row}, !.row = None, !.verb = None]
<1>0. SoundRows(db) /\ db \in Database BY DEF Inv, SoundRows
<1>1. v.kind = "import" /\ v.row # None BY DEF WriteRow
<1>2. ImportHolds(v, db) BY <1>1, ByKind DEF Inv
<1>3. CASE db' = db BY <1>0, <1>3, NothingWritten
<1>4. CASE Commits(t, c, w)
  <2>1. /\ c \in DefChange /\ c.verb # "delete" /\ Converts(c.table, c.def)
        /\ v.row = <<c.table, c.slug>> /\ c.def = v.pack[c.table][c.slug]
    BY <1>1, <1>2, RowChangeType
  <2>2. w.kind = "import" /\ w.row = None
    BY <1>2 DEF ImportHolds
  <2> HIDE DEF c, w
  <2>3. db' = After(db, c) /\ task'[t] = w BY <1>4 DEF Commits
  <2>4. ASSUME NEW p \in Providers, db'.providers[p] # db.providers[p]
        PROVE  /\ db.providers[p] # None /\ db'.providers[p] = None
               /\ db'.services[db.providers[p].service] = None
    <3>1. p \in Present(db.providers) BY <1>0, <2>1, <2>3, <2>4, AbsentProvidersStay
    <3> QED BY <1>0, <2>1, <2>3, <2>4, <3>1, ProvidersStay DEF Present
  <2>5. ASSUME NEW e \in Present(db'.endpoints)
        PROVE  ScopeLeft(e) \/ (MayWrite(t, e) /\ db'.endpoints[e].scope = ScopeAsked(t, e))
    <3>1. CASE ~(c.table = "endpoints" /\ c.slug = e)
      BY <1>0, <2>1, <2>3, <3>1, ScopesElsewhere
    <3>2. CASE c.table = "endpoints" /\ c.slug = e
      <4>1. db'.endpoints[e].scope = c.def.scope
        BY <1>0, <2>1, <2>3, <3>2, ScopeIsWritten
      <4>2. MayWrite(t, e) BY <1>1, <2>1, <2>2, <2>3, <3>2 DEF MayWrite
      <4>3. ScopeAsked(t, e) = v.pack.endpoints[e].scope
        BY <1>1 DEF ScopeAsked
      <4>4. v.pack["endpoints"] = v.pack.endpoints OBVIOUS
      <4> QED BY <2>1, <3>2, <4>1, <4>2, <4>3, <4>4
    <3> QED BY <3>1, <3>2
  <2> QED BY <2>4, <2>5 DEF SetByHand
<1> QED BY <1>3, <1>4 DEF WriteRow, Reads

\* No step changes a provider, or the scope of an endpoint, but as it was asked for by
\* hand or by a pack: whatever else is written, deleted with all that goes with it or
\* imported meanwhile, and whatever was read before another write
\* (server/api/auth_providers.rs, server/mcp/control/endpoints.rs, m0005_endpoints.rs).
THEOREM BindingsHold == Spec => BindingsAreSetByHand
<1>1. ASSUME Inv, [Next]_vars PROVE [SetByHand]_vars
  <2>0. SoundRows(db) BY <1>1 DEF Inv
  <2>1. CASE UNCHANGED vars BY <2>1
  <2>2. CASE Next
    <3>1. PICK t \in Tasks :
            ChangeSteps(t) \/ ProviderSteps(t) \/ ImportSteps(t) \/ PlanSteps(t) \/ Disconnect(t)
      BY <2>2 DEF Next
    <3>2. CASE ChangeSteps(t)
      <4>1. CASE Write(t) BY <1>1, <4>1, WriteByHand
      <4>2. CASE ~Write(t)
        <5>1. db' = db
          BY <3>2, <4>2 DEF ChangeSteps, AskChange, LookUp, ReadTable, Refuse, Arrives, Reads
        <5> QED BY <2>0, <5>1, NothingWritten
      <4> QED BY <4>1, <4>2
    <3>3. CASE ProviderSteps(t)
      <4>1. CASE WriteProvider(t) BY <1>1, <4>1, WriteProviderByHand
      <4>2. CASE ~WriteProvider(t)
        <5>1. db' = db
          BY <3>3, <4>2 DEF ProviderSteps, AskProvider, FindProvider, ReadService, Arrives, Reads
        <5> QED BY <2>0, <5>1, NothingWritten
      <4> QED BY <4>1, <4>2
    <3>4. CASE ImportSteps(t)
      <4>1. CASE WriteRow(t) BY <1>1, <4>1, WriteRowByHand
      <4>2. CASE ~WriteRow(t)
        <5>1. db' = db
          BY <3>4, <4>2 DEF ImportSteps, AskImport, ReadRow, FinishImport, Arrives, Reads
        <5> QED BY <2>0, <5>1, NothingWritten
      <4> QED BY <4>1, <4>2
    <3>5. CASE PlanSteps(t)
      <4>1. db' = db
        BY <3>5 DEF PlanSteps, AskPlan, ReadEndpoint, ReadCalls, ReadScripts, CompileCall,
                    CheckOrigins, BindService, FinishPlan, Arrives, Reads
      <4> QED BY <2>0, <4>1, NothingWritten
    <3>6. CASE Disconnect(t)
      <4>1. db' = db BY <3>6 DEF Disconnect, Reads
      <4> QED BY <2>0, <4>1, NothingWritten
    <3> QED BY <3>1, <3>2, <3>3, <3>4, <3>5, <3>6
  <2> QED BY <1>1, <2>1, <2>2
<1> QED BY <1>1, Invariant, PTL DEF Spec, BindingsAreSetByHand
=============================================================================
