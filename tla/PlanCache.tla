------------------------------ MODULE PlanCache ------------------------------
(***************************************************************************)
(* Definitions, their generation counter and the cache of compiled plans.  *)
(*                                                                         *)
(* A definition write (store/service.rs, store/endpoint.rs and siblings)   *)
(* is one transaction: the row, then meta's definitions_generation read,   *)
(* looked up again and written back (store/meta.rs), then the commit.      *)
(* A request (resolve/cache.rs, get_or_build) reads the generation, asks   *)
(* the cache, and otherwise builds a plan by one read after another,       *)
(* outside any transaction and outside the cache's lock.                   *)
(*                                                                         *)
(* The database runs at READ COMMITTED: a statement sees what is committed *)
(* when it runs, and a row written by an open transaction is locked.       *)
(* One cache key (owner, endpoint slug) is modelled; keys are independent. *)
(* A definition is its version and whether a plan can be built from it.    *)
(***************************************************************************)
EXTENDS Integers, Sequences, FiniteSets

CONSTANTS
  Writers,     \* concurrent callers of the stores' create, update, delete
  Requests,    \* concurrent callers of get_or_build
  MaxWrites,   \* bound: transactions begun
  MaxAsks,     \* bound: requests started
  MaxRestarts  \* bound: restarts of the process

ASSUME CacheAssumption == MaxWrites \in Nat /\ MaxAsks \in Nat /\ MaxRestarts \in Nat

VARIABLES
  generation,  \* meta.definitions_generation as committed; 0: no row yet
  defs,        \* the committed definitions
  writer,      \* each writer's transaction
  request,     \* each request's progress
  entry,       \* the cache's entry for the key
  asked, begun, restarts  \* counters of the bounds

vars == <<generation, defs, writer, request, entry, asked, begun, restarts>>
bounds == <<asked, begun, restarts>>

\* The order build_plan reads the tables in.
ReadOrder == <<"endpoint", "api_call", "script", "service", "auth_provider">>
Kinds == {"endpoint", "api_call", "script", "service", "auth_provider"}

Definition == [version : Nat, valid : BOOLEAN]
Plan == [Kinds -> Nat]
NoPlan == [k \in Kinds |-> 0]
Stored == [k \in Kinds |-> defs[k].version]

Writer == [pc : {"idle", "written", "read", "checked", "bumped"},
           kind : Kinds, valid : BOOLEAN, next : Nat, exists : BOOLEAN]
Request == [pc : {"idle", "lookup", "build", "served", "failed"},
            generation : Nat, reads : 0..Len(ReadOrder), plan : Plan, asOf : Plan]
Entry == [present : BOOLEAN, generation : Nat, plan : Plan]

Idle == [pc |-> "idle", kind |-> "endpoint", valid |-> TRUE, next |-> 0,
         exists |-> FALSE]
Quiet == [pc |-> "idle", generation |-> 0, reads |-> 0, plan |-> NoPlan,
          asOf |-> NoPlan]
Empty == [present |-> FALSE, generation |-> 0, plan |-> NoPlan]

Init ==
  /\ generation = 0
  /\ defs = [k \in Kinds |-> [version |-> 1, valid |-> TRUE]]
  /\ writer = [w \in Writers |-> Idle]
  /\ request = [r \in Requests |-> Quiet]
  /\ entry = Empty
  /\ asked = 0 /\ begun = 0 /\ restarts = 0

----------------------------------------------------------------------------
(* Writers: one transaction each.                                          *)

WriterFrame == UNCHANGED <<generation, defs, request, entry, asked, restarts>>

\* begin, then the row itself: another open transaction's row is locked.
WriteRow(w, k, valid) ==
  /\ writer[w].pc = "idle"
  /\ begun < MaxWrites
  /\ \A v \in Writers : writer[v].pc = "idle" \/ writer[v].kind # k
  /\ writer' = [writer EXCEPT ![w] = [Idle EXCEPT !.pc = "written", !.kind = k,
                                                  !.valid = valid]]
  /\ begun' = begun + 1
  /\ WriterFrame

\* read_generation
ReadGeneration(w) ==
  /\ writer[w].pc = "written"
  /\ writer' = [writer EXCEPT ![w].pc = "read", ![w].next = generation + 1]
  /\ UNCHANGED begun
  /\ WriterFrame

\* The second look at the row, which chooses between update and insert.
CheckExists(w) ==
  /\ writer[w].pc = "read"
  /\ writer' = [writer EXCEPT ![w].pc = "checked", ![w].exists = generation # 0]
  /\ UNCHANGED begun
  /\ WriterFrame

\* The write waits for any transaction that already wrote the row.
Bump(w) ==
  /\ writer[w].pc = "checked"
  /\ \A v \in Writers : writer[v].pc # "bumped"
  /\ writer[w].exists \/ generation = 0
  /\ writer' = [writer EXCEPT ![w].pc = "bumped"]
  /\ UNCHANGED begun
  /\ WriterFrame

\* A committed transaction: its row and its generation, at once.
CommittedGenerationMutant(w) == generation
CommittedGeneration(w) == writer[w].next

Commit(w) ==
  /\ writer[w].pc = "bumped"
  /\ generation' = CommittedGeneration(w)
  /\ defs' = [defs EXCEPT ![writer[w].kind] =
                [version |-> @.version + 1, valid |-> writer[w].valid]]
  /\ writer' = [writer EXCEPT ![w] = Idle]
  /\ UNCHANGED <<request, entry, bounds>>

\* An error (the insert of a row that exists by now, a lost connection) or a
\* dropped future: nothing of the transaction is kept.
Rollback(w) ==
  /\ writer[w].pc # "idle"
  /\ writer' = [writer EXCEPT ![w] = Idle]
  /\ UNCHANGED begun
  /\ WriterFrame

----------------------------------------------------------------------------
(* Requests: get_or_build.                                                 *)

RequestFrame == UNCHANGED <<generation, defs, writer, begun, restarts>>

\* The generation is read first.
Ask(r) ==
  /\ request[r].pc \in {"idle", "served", "failed"}
  /\ asked < MaxAsks
  /\ asked' = asked + 1
  /\ request' = [request EXCEPT ![r] = [Quiet EXCEPT !.pc = "lookup",
                                          !.generation = generation,
                                          !.asOf = Stored]]
  /\ UNCHANGED entry
  /\ RequestFrame

\* cached_at: a hit is an entry of exactly the generation that was read.
IsHitMutant(r) == entry.present /\ entry.generation >= request[r].generation - 1
IsHit(r) == entry.present /\ entry.generation = request[r].generation

Hit(r) ==
  /\ request[r].pc = "lookup"
  /\ IsHit(r)
  /\ request' = [request EXCEPT ![r].pc = "served", ![r].plan = entry.plan]
  /\ UNCHANGED <<entry, asked>>
  /\ RequestFrame

Miss(r) ==
  /\ request[r].pc = "lookup"
  /\ ~IsHit(r)
  /\ request' = [request EXCEPT ![r].pc = "build"]
  /\ UNCHANGED <<entry, asked>>
  /\ RequestFrame

\* One read of build_plan.
NextKind(r) == ReadOrder[request[r].reads + 1]
WithRead(r) == [request[r].plan EXCEPT ![NextKind(r)] = defs[NextKind(r)].version]

Read(r) ==
  /\ request[r].pc = "build"
  /\ request[r].reads < Len(ReadOrder)
  /\ defs[NextKind(r)].valid
  /\ request' = [request EXCEPT ![r].reads = request[r].reads + 1,
                                ![r].plan = WithRead(r)]
  /\ UNCHANGED <<entry, asked>>
  /\ RequestFrame

\* A definition that fails its check fails the whole plan: nothing is cached.
\* A store error does the same, at any read.
BuildFails(r) ==
  /\ request[r].pc = "build"
  /\ request' = [request EXCEPT ![r].pc = "failed", ![r].plan = NoPlan]
  /\ UNCHANGED <<entry, asked>>
  /\ RequestFrame

\* The generation a plan is kept under is the one read before it was built.
KeptUnderNewest(r) == generation
KeptUnderPrevious(r) == request[r].generation - 1
KeptUnder(r) == request[r].generation

Store(r) ==
  /\ request[r].pc = "build"
  /\ request[r].reads = Len(ReadOrder)
  /\ entry' = [present |-> TRUE, generation |-> KeptUnder(r), plan |-> request[r].plan]
  /\ request' = [request EXCEPT ![r].pc = "served"]
  /\ UNCHANGED asked
  /\ RequestFrame

\* The process restarts: the cache, the requests and the open transactions go.
Restart ==
  /\ restarts < MaxRestarts
  /\ restarts' = restarts + 1
  /\ entry' = Empty
  /\ request' = [r \in Requests |-> Quiet]
  /\ writer' = [w \in Writers |-> Idle]
  /\ UNCHANGED <<generation, defs, asked, begun>>

\* The bounds are used up and nothing is under way.
Rest ==
  /\ asked = MaxAsks /\ begun = MaxWrites
  /\ \A w \in Writers : writer[w].pc = "idle"
  /\ \A r \in Requests : request[r].pc \notin {"lookup", "build"}
  /\ UNCHANGED vars

Next ==
  \/ \E w \in Writers, k \in Kinds, valid \in BOOLEAN : WriteRow(w, k, valid)
  \/ \E w \in Writers : \/ ReadGeneration(w)
                        \/ CheckExists(w)
                        \/ Bump(w)
                        \/ Commit(w)
                        \/ Rollback(w)
  \/ \E r \in Requests : \/ Ask(r)
                         \/ Hit(r)
                         \/ Miss(r)
                         \/ Read(r)
                         \/ BuildFails(r)
                         \/ Store(r)
  \/ Restart
  \/ Rest

Spec == Init /\ [][Next]_vars

----------------------------------------------------------------------------
(* Properties.                                                             *)

(* Every variable stays in its type. *)
TypeOK ==
  /\ generation \in Nat
  /\ defs \in [Kinds -> Definition]
  /\ writer \in [Writers -> Writer]
  /\ request \in [Requests -> Request]
  /\ entry \in Entry
  /\ asked \in Nat /\ begun \in Nat /\ restarts \in Nat

NoOlder(plan, than) == \A k \in Kinds : plan[k] >= than[k]

(* An entry the next request would hit is exactly what is stored, although *)
(* plans are read piecemeal and two builds may finish in either order      *)
(* (resolve/cache.rs, get_or_build).                                       *)
CurrentEntryIsStored ==
  entry.present /\ entry.generation = generation => entry.plan = Stored

(* A plan never serves a definition older than what was committed when the *)
(* request came: a cached plan invalidates the moment anything it was      *)
(* built from changes (store/meta.rs, module documentation).               *)
ServedPlanIsFresh ==
  \A r \in Requests :
    request[r].pc = "served" => NoOlder(request[r].plan, request[r].asOf)

(* A committed definition always moves the generation forward, and nothing *)
(* else does (store/meta.rs: the bump commits with its write).             *)
GenerationCountsWrites ==
  [][(defs' # defs <=> generation' # generation) /\ generation' >= generation]_vars

=============================================================================
