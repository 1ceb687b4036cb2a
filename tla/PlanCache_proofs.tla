-------------------------- MODULE PlanCache_proofs --------------------------
(***************************************************************************)
(* With one definition writer at a time, a plan is never served stale: for *)
(* any number of concurrent requests, builds that overlap writes and each  *)
(* other, failed transactions and restarts.  With two writers it is false. *)
(*                                                                         *)
(* The inductive invariant says what the generation a request read is      *)
(* worth: while it is still the current one, what the request saw is what  *)
(* is stored, and any entry kept under it is no older.                     *)
(***************************************************************************)
EXTENDS PlanCache, TLAPS

OneWriter == \A v, w \in Writers : v = w

Active(r) == request[r].pc \in {"lookup", "build"}
ReadSoFar(r) == {ReadOrder[i] : i \in 1..request[r].reads}

\* A transaction that has read the generation will write the next one.
WritersCount ==
  \A w \in Writers :
    writer[w].pc \in {"read", "checked", "bumped"} => writer[w].next = generation + 1

\* What a request under way knows.
RequestsKnow ==
  \A r \in Requests :
    Active(r) =>
      /\ request[r].generation <= generation
      /\ NoOlder(Stored, request[r].asOf)
      /\ request[r].generation = generation => request[r].asOf = Stored
      /\ request[r].pc = "lookup" => request[r].reads = 0
      /\ \A k \in ReadSoFar(r) :
           /\ request[r].plan[k] >= request[r].asOf[k]
           /\ request[r].generation = generation => request[r].plan[k] = Stored[k]

\* Requests that read one generation started from the same definitions.
GenerationsAgree ==
  \A q, r \in Requests :
    Active(q) /\ Active(r) /\ request[q].generation = request[r].generation
      => request[q].asOf = request[r].asOf

\* The entry is not from the future, and is good for whoever would hit it.
EntryIsSound ==
  entry.present =>
    /\ entry.generation <= generation
    /\ \A r \in Requests :
         Active(r) /\ entry.generation = request[r].generation
           => NoOlder(entry.plan, request[r].asOf)

Inv ==
  /\ TypeOK
  /\ WritersCount
  /\ RequestsKnow
  /\ GenerationsAgree
  /\ EntryIsSound
  /\ CurrentEntryIsStored
  /\ ServedPlanIsFresh

----------------------------------------------------------------------------
(* The order of the reads.                                                 *)

LEMMA ReadOrderCovers ==
  /\ Len(ReadOrder) = 5
  /\ \A i \in 1..5 : ReadOrder[i] \in Kinds
  /\ \A k \in Kinds : \E i \in 1..5 : ReadOrder[i] = k
BY DEF ReadOrder, Kinds

(* A request that has made every read has read every kind. *)
LEMMA AllRead ==
  ASSUME NEW r \in Requests, request[r].reads = Len(ReadOrder)
  PROVE  ReadSoFar(r) = Kinds
BY ReadOrderCovers DEF ReadSoFar

LEMMA NextKindIsAKind ==
  ASSUME TypeOK, NEW r \in Requests, request[r].reads < Len(ReadOrder)
  PROVE  /\ NextKind(r) \in Kinds
         /\ request[r].reads + 1 \in 0..Len(ReadOrder)
<1>1. request[r].reads \in 0..Len(ReadOrder)
  BY DEF TypeOK, Request
<1>2. request[r].reads + 1 \in 1..5
  BY <1>1, ReadOrderCovers
<1> QED
  BY <1>2, ReadOrderCovers DEF NextKind

LEMMA StoredIsAPlan == TypeOK => Stored \in Plan
BY DEF TypeOK, Stored, Plan, Definition

----------------------------------------------------------------------------
(* Types.                                                                  *)

LEMMA InitTypes == Init => TypeOK
BY ReadOrderCovers
DEF Init, TypeOK, Definition, Idle, Writer, Quiet, Request, NoPlan, Plan, Empty, Entry, Kinds

LEMMA WriterTypes ==
  ASSUME TypeOK, NEW w \in Writers,
         \/ \E k \in Kinds, valid \in BOOLEAN : WriteRow(w, k, valid)
         \/ ReadGeneration(w) \/ CheckExists(w) \/ Bump(w) \/ Commit(w) \/ Rollback(w)
  PROVE  TypeOK'
<1>1. writer[w] \in Writer /\ Idle \in Writer
  BY DEF TypeOK, Idle, Writer, Kinds
<1>2. ASSUME NEW k \in Kinds, NEW valid \in BOOLEAN, WriteRow(w, k, valid) PROVE TypeOK'
  <2>1. [Idle EXCEPT !.pc = "written", !.kind = k, !.valid = valid] \in Writer
    BY DEF Idle, Writer
  <2>2. writer' = [writer EXCEPT ![w] = [Idle EXCEPT !.pc = "written", !.kind = k, !.valid = valid]]
    BY <1>2 DEF WriteRow
  <2>3. writer' \in [Writers -> Writer]
    BY <2>1, <2>2, Zenon DEF TypeOK
  <2>4. begun' = begun + 1
    BY <1>2, Zenon DEF WriteRow
  <2>5. begun' \in Nat
    BY <2>4 DEF TypeOK
  <2> QED
    BY <1>2, <2>3, <2>5 DEF WriteRow, WriterFrame, TypeOK
<1>3. CASE ReadGeneration(w)
  <2>0. generation + 1 \in Nat
    BY DEF TypeOK
  <2>1. [writer[w] EXCEPT !.pc = "read", !.next = generation + 1] \in Writer
    BY <1>1, <2>0 DEF Writer
  <2>2. writer' = [writer EXCEPT ![w] = [writer[w] EXCEPT !.pc = "read", !.next = generation + 1]]
    BY <1>3 DEF ReadGeneration, TypeOK
  <2> QED
    BY <1>3, <2>1, <2>2 DEF ReadGeneration, WriterFrame, TypeOK
<1>4. CASE CheckExists(w)
  <2>1. [writer[w] EXCEPT !.pc = "checked", !.exists = (generation # 0)] \in Writer
    BY <1>1 DEF Writer
  <2>2. writer' = [writer EXCEPT ![w] = [writer[w] EXCEPT !.pc = "checked", !.exists = (generation # 0)]]
    BY <1>4 DEF CheckExists, TypeOK
  <2> QED
    BY <1>4, <2>1, <2>2 DEF CheckExists, WriterFrame, TypeOK
<1>5. CASE Bump(w)
  BY <1>1, <1>5 DEF Bump, WriterFrame, TypeOK, Writer
<1>6. CASE Commit(w)
  <2>1. writer[w].kind \in Kinds /\ writer[w].valid \in BOOLEAN /\ writer[w].next \in Nat
    BY <1>1 DEF Writer
  <2>2. defs' \in [Kinds -> Definition]
    BY <1>6, <2>1 DEF Commit, TypeOK, Definition
  <2>3. generation' \in Nat /\ writer' \in [Writers -> Writer]
    BY <1>1, <1>6, <2>1 DEF Commit, CommittedGeneration, TypeOK
  <2> QED
    BY <1>6, <2>2, <2>3 DEF Commit, TypeOK, bounds
<1>7. CASE Rollback(w)
  BY <1>1, <1>7 DEF Rollback, WriterFrame, TypeOK
<1> QED
  BY <1>2, <1>3, <1>4, <1>5, <1>6, <1>7

LEMMA RequestTypes ==
  ASSUME TypeOK, NEW r \in Requests,
         Ask(r) \/ Hit(r) \/ Miss(r) \/ Read(r) \/ BuildFails(r) \/ Store(r)
  PROVE  TypeOK'
<1>1. request[r] \in Request /\ Quiet \in Request /\ NoPlan \in Plan
  BY ReadOrderCovers DEF TypeOK, Quiet, Request, NoPlan, Plan
<1> SUFFICES request' \in [Requests -> Request] /\ entry' \in Entry /\ asked' \in Nat
             /\ RequestFrame
  BY DEF RequestFrame, TypeOK
<1>2. CASE Ask(r)
  <2>1. [Quiet EXCEPT !.pc = "lookup", !.generation = generation, !.asOf = Stored] \in Request
    BY <1>1, StoredIsAPlan DEF Request, TypeOK
  <2> QED
    BY <1>2, <2>1 DEF Ask, TypeOK
<1>3. CASE Hit(r)
  <2>1. [request[r] EXCEPT !.pc = "served", !.plan = entry.plan] \in Request
    BY <1>1 DEF Request, TypeOK, Entry
  <2>2. request' = [request EXCEPT ![r] = [request[r] EXCEPT !.pc = "served", !.plan = entry.plan]]
    BY <1>3 DEF Hit, TypeOK
  <2> QED
    BY <1>3, <2>1, <2>2 DEF Hit, TypeOK
<1>4. CASE Miss(r)
  BY <1>1, <1>4 DEF Miss, TypeOK, Request
<1>5. CASE Read(r)
  <2>1. NextKind(r) \in Kinds /\ request[r].reads + 1 \in 0..Len(ReadOrder)
    BY <1>5, NextKindIsAKind DEF Read
  <2>2. WithRead(r) \in Plan
    BY <1>1, <2>1 DEF WithRead, Plan, Request, TypeOK, Definition
  <2>3. [request[r] EXCEPT !.reads = request[r].reads + 1, !.plan = WithRead(r)] \in Request
    BY <1>1, <2>1, <2>2 DEF Request
  <2>4. request' = [request EXCEPT ![r] =
                      [request[r] EXCEPT !.reads = request[r].reads + 1, !.plan = WithRead(r)]]
    BY <1>5 DEF Read, TypeOK
  <2> QED
    BY <1>5, <2>3, <2>4 DEF Read, TypeOK
<1>6. CASE BuildFails(r)
  <2>1. [request[r] EXCEPT !.pc = "failed", !.plan = NoPlan] \in Request
    BY <1>1 DEF Request
  <2>2. request' = [request EXCEPT ![r] = [request[r] EXCEPT !.pc = "failed", !.plan = NoPlan]]
    BY <1>6 DEF BuildFails, TypeOK
  <2> QED
    BY <1>6, <2>1, <2>2 DEF BuildFails, TypeOK
<1>7. CASE Store(r)
  BY <1>1, <1>7 DEF Store, KeptUnder, TypeOK, Request, Entry
<1> QED
  BY <1>2, <1>3, <1>4, <1>5, <1>6, <1>7 DEF RequestFrame, Ask, Hit, Miss, Read, BuildFails, Store

LEMMA StepTypes == TypeOK /\ [Next]_vars => TypeOK'
<1> SUFFICES ASSUME TypeOK, [Next]_vars PROVE TypeOK'
  OBVIOUS
<1>1. CASE Restart
  <2>1. Idle \in Writer /\ Quiet \in Request /\ Empty \in Entry
    BY ReadOrderCovers DEF Idle, Writer, Kinds, Quiet, Request, NoPlan, Plan, Empty, Entry
  <2> QED
    BY <1>1, <2>1 DEF Restart, TypeOK
<1>2. CASE UNCHANGED vars
  BY <1>2 DEF vars, TypeOK
<1> QED
  BY <1>1, <1>2, WriterTypes, RequestTypes DEF Next, Rest

(* Every variable stays in its type, with any number of writers. *)
THEOREM CacheTypes == Spec => []TypeOK
BY InitTypes, StepTypes, PTL DEF Spec

----------------------------------------------------------------------------
(* Freshness with one writer.                                              *)

Frame == UNCHANGED <<generation, defs, entry, request>>

LEMMA InitInv == Init => Inv
BY InitTypes DEF Init, Inv, WritersCount, RequestsKnow, GenerationsAgree, EntryIsSound,
   CurrentEntryIsStored, ServedPlanIsFresh, Active, Idle, Quiet, Empty

\* A step of a writer that commits nothing only has its own count to keep.
LEMMA QuietWriterStep ==
  ASSUME Inv, TypeOK', Frame, WritersCount'
  PROVE  Inv'
<1>1. Stored' = Stored /\ \A r \in Requests : ReadSoFar(r)' = ReadSoFar(r)
  BY DEF Frame, Stored, ReadSoFar
<1> QED
  BY <1>1 DEF Inv, Frame, RequestsKnow, GenerationsAgree, EntryIsSound,
              CurrentEntryIsStored, ServedPlanIsFresh, Active, NoOlder

LEMMA WriterStepInv ==
  ASSUME Inv, TypeOK', OneWriter, NEW w \in Writers,
         \/ \E k \in Kinds, valid \in BOOLEAN : WriteRow(w, k, valid)
         \/ ReadGeneration(w) \/ CheckExists(w) \/ Bump(w) \/ Rollback(w)
  PROVE  Inv'
<1>1. Frame
  BY DEF Frame, WriteRow, ReadGeneration, CheckExists, Bump, Rollback, WriterFrame
<1>2. \A v \in Writers : v = w
  BY DEF OneWriter
<1>3. writer \in [Writers -> Writer]
  BY DEF Inv, TypeOK
<1>4. writer'[w].pc \in {"read", "checked", "bumped"} => writer'[w].next = generation + 1
  <2>1. ASSUME NEW k \in Kinds, NEW valid \in BOOLEAN, WriteRow(w, k, valid)
        PROVE  writer'[w].pc = "written"
    BY <1>3, <2>1 DEF WriteRow, Idle
  <2>2. CASE ReadGeneration(w)
    BY <1>3, <2>2 DEF ReadGeneration, Writer
  <2>3. CASE CheckExists(w)
    <3>1. writer'[w].next = writer[w].next /\ writer[w].pc = "read"
      BY <1>3, <2>3 DEF CheckExists, Writer
    <3> QED
      BY <3>1 DEF Inv, WritersCount
  <2>4. CASE Bump(w)
    <3>1. writer'[w].next = writer[w].next /\ writer[w].pc = "checked"
      BY <1>3, <2>4 DEF Bump, Writer
    <3> QED
      BY <3>1 DEF Inv, WritersCount
  <2>5. CASE Rollback(w)
    BY <1>3, <2>5 DEF Rollback, Idle
  <2> QED
    BY <2>1, <2>2, <2>3, <2>4, <2>5
<1>5. WritersCount'
  BY <1>1, <1>2, <1>4 DEF WritersCount, Frame
<1> QED
  BY <1>1, <1>5, QuietWriterStep

\* A commit moves the generation past all that requests and the entry know.
LEMMA CommitInv ==
  ASSUME Inv, TypeOK', OneWriter, NEW w \in Writers, Commit(w)
  PROVE  Inv'
<1>1. generation' = generation + 1 /\ generation \in Nat
  BY DEF Commit, CommittedGeneration, Inv, WritersCount, TypeOK
<1>2. WritersCount'
  <2>1. \A v \in Writers : writer'[v].pc = "idle"
    BY DEF Commit, Inv, TypeOK, OneWriter, Idle
  <2> QED
    BY <2>1 DEF WritersCount
<1>3. UNCHANGED <<request, entry>>
  BY DEF Commit
<1>4. \A k \in Kinds : Stored[k] \in Nat /\ Stored'[k] >= Stored[k]
  <2>1. ASSUME NEW k \in Kinds PROVE defs'[k].version >= defs[k].version /\ defs[k].version \in Nat
    <3>1. defs[k].version \in Nat
      BY DEF Inv, TypeOK, Definition
    <3>2. CASE k = writer[w].kind
      BY <3>1, <3>2 DEF Commit, Inv, TypeOK
    <3>3. CASE k # writer[w].kind
      BY <3>1, <3>3 DEF Commit, Inv, TypeOK
    <3> QED
      BY <3>2, <3>3
  <2> QED
    BY <2>1 DEF Stored
<1>5. \A r \in Requests : request[r].generation \in Nat /\ request[r].asOf \in Plan
  BY DEF Inv, TypeOK, Request
<1>6. RequestsKnow'
  <2> SUFFICES ASSUME NEW r \in Requests, Active(r)'
               PROVE  /\ request[r].generation <= generation'
                      /\ request[r].generation # generation'
                      /\ NoOlder(Stored', request[r].asOf)
                      /\ request[r].pc = "lookup" => request[r].reads = 0
                      /\ \A k \in ReadSoFar(r)' : request[r].plan[k] >= request[r].asOf[k]
    BY <1>3 DEF RequestsKnow
  <2>1. Active(r) /\ ReadSoFar(r)' = ReadSoFar(r)
    BY <1>3 DEF Active, ReadSoFar
  <2>2. request[r].generation <= generation /\ NoOlder(Stored, request[r].asOf)
    BY <2>1 DEF Inv, RequestsKnow
  <2>3. NoOlder(Stored', request[r].asOf)
    <3>1. ASSUME NEW k \in Kinds PROVE Stored'[k] >= request[r].asOf[k]
      <4>1. request[r].asOf[k] \in Nat /\ Stored'[k] \in Nat
        BY <1>5 DEF Plan, Stored, TypeOK, Definition
      <4> QED
        BY <4>1, <1>4, <2>2 DEF NoOlder
    <3> QED
      BY <3>1 DEF NoOlder
  <2> QED
    BY <1>1, <1>5, <2>1, <2>2, <2>3 DEF Inv, RequestsKnow
<1>7. entry.present => entry.generation <= generation /\ entry.generation \in Nat
  BY DEF Inv, EntryIsSound, TypeOK, Entry
<1>8. EntryIsSound' /\ CurrentEntryIsStored'
  BY <1>1, <1>3, <1>7 DEF Inv, EntryIsSound, CurrentEntryIsStored, Active
<1> QED
  BY <1>2, <1>3, <1>6, <1>8 DEF Inv, GenerationsAgree, ServedPlanIsFresh, Active

LEMMA RequestStepInv ==
  ASSUME Inv, TypeOK', NEW r \in Requests,
         Ask(r) \/ Hit(r) \/ Miss(r) \/ Read(r) \/ BuildFails(r) \/ Store(r)
  PROVE  Inv'
<1>1. /\ UNCHANGED <<generation, defs, writer>>
      /\ Stored' = Stored
  BY DEF Ask, Hit, Miss, Read, BuildFails, Store, RequestFrame, Stored
<1>2. WritersCount'
  BY <1>1 DEF Inv, WritersCount
<1>3. /\ request \in [Requests -> Request]
      /\ generation \in Nat
      /\ Stored \in Plan
      /\ \A q \in Requests : request[q].plan \in Plan /\ request[q].asOf \in Plan
  BY StoredIsAPlan DEF Inv, TypeOK, Request
<1>4. \A q \in Requests \ {r} :
        /\ request'[q] = request[q]
        /\ ReadSoFar(q)' = ReadSoFar(q)
        /\ Active(q)' = Active(q)
  <2>1. \A q \in Requests \ {r} : request'[q] = request[q]
    BY <1>3 DEF Ask, Hit, Miss, Read, BuildFails, Store
  <2> QED
    BY <2>1 DEF ReadSoFar, Active
<1>5. CASE Ask(r)
  <2>1. /\ request'[r].pc = "lookup" /\ request'[r].generation = generation
        /\ request'[r].asOf = Stored /\ request'[r].reads = 0
        /\ entry' = entry
    BY <1>3, <1>5 DEF Ask, Quiet
  <2>2. ReadSoFar(r)' = {}
    BY <2>1 DEF ReadSoFar
  <2>3. NoOlder(Stored, Stored)
    BY <1>3 DEF NoOlder, Plan
  <2>4. RequestsKnow'
    BY <1>1, <1>3, <1>4, <2>1, <2>2, <2>3 DEF Inv, RequestsKnow
  <2>5. GenerationsAgree'
    BY <1>4, <2>1 DEF Inv, RequestsKnow, GenerationsAgree
  <2>6. EntryIsSound'
    BY <1>1, <1>4, <2>1, <2>3 DEF Inv, EntryIsSound, CurrentEntryIsStored
  <2> QED
    BY <1>1, <1>2, <1>4, <2>1, <2>4, <2>5, <2>6
    DEF Inv, CurrentEntryIsStored, ServedPlanIsFresh
<1>6. CASE Hit(r)
  <2>1. /\ request'[r].pc = "served" /\ request'[r].plan = entry.plan
        /\ request'[r].asOf = request[r].asOf /\ entry' = entry
        /\ ~Active(r)'
    BY <1>3, <1>6 DEF Hit, Active, Request
  <2>2. NoOlder(entry.plan, request[r].asOf)
    BY <1>6 DEF Hit, IsHit, Inv, EntryIsSound, Active
  <2> QED
    BY <1>1, <1>2, <1>4, <2>1, <2>2
    DEF Inv, RequestsKnow, GenerationsAgree, EntryIsSound, CurrentEntryIsStored, ServedPlanIsFresh
<1>7. CASE Miss(r)
  <2>1. /\ request'[r].pc = "build" /\ request'[r].plan = request[r].plan
        /\ request'[r].asOf = request[r].asOf /\ request'[r].reads = request[r].reads
        /\ request'[r].generation = request[r].generation /\ entry' = entry
        /\ Active(r)' /\ Active(r) /\ ReadSoFar(r)' = ReadSoFar(r)
    BY <1>3, <1>7 DEF Miss, Active, Request, ReadSoFar
  <2> QED
    BY <1>1, <1>2, <1>4, <2>1
    DEF Inv, RequestsKnow, GenerationsAgree, EntryIsSound, CurrentEntryIsStored, ServedPlanIsFresh
<1>8. CASE Read(r)
  <2> DEFINE k == NextKind(r)
  <2>0. k \in Kinds /\ request[r].reads \in 0..Len(ReadOrder)
    BY <1>8, NextKindIsAKind DEF Read, Inv, TypeOK, Request
  <2>1. /\ request'[r].pc = "build" /\ request'[r].plan = WithRead(r)
        /\ request'[r].asOf = request[r].asOf /\ request'[r].reads = request[r].reads + 1
        /\ request'[r].generation = request[r].generation /\ entry' = entry
        /\ Active(r)' /\ Active(r)
    BY <1>3, <1>8 DEF Read, Active, Request
  <2>2. ReadSoFar(r)' \subseteq ReadSoFar(r) \cup {k}
    BY <2>0, <2>1, ReadOrderCovers DEF ReadSoFar, NextKind
  <2>3. /\ NoOlder(Stored, request[r].asOf)
        /\ request[r].generation = generation => request[r].asOf = Stored
        /\ request[r].generation <= generation
    BY <2>1 DEF Inv, RequestsKnow
  <2>4. \A j \in Kinds : WithRead(r)[j] = IF j = k THEN Stored[k] ELSE request[r].plan[j]
    BY <1>3, <2>0 DEF WithRead, Plan, Stored
  <2>5. ReadSoFar(r) \subseteq Kinds
    BY <2>0, ReadOrderCovers DEF ReadSoFar
  <2>6. ASSUME NEW j \in ReadSoFar(r)'
        PROVE  /\ WithRead(r)[j] >= request[r].asOf[j]
               /\ request[r].generation = generation => WithRead(r)[j] = Stored[j]
    <3>1. CASE j = k
      BY <2>0, <2>3, <2>4, <3>1 DEF NoOlder
    <3>2. CASE j # k
      BY <2>1, <2>2, <2>4, <2>5, <3>2 DEF Inv, RequestsKnow
    <3> QED
      BY <3>1, <3>2
  <2> HIDE DEF k
  <2>7. RequestsKnow'
    BY <1>1, <1>4, <2>1, <2>3, <2>6 DEF Inv, RequestsKnow
  <2> QED
    BY <1>1, <1>2, <1>4, <2>1, <2>7
    DEF Inv, GenerationsAgree, EntryIsSound, CurrentEntryIsStored, ServedPlanIsFresh
<1>9. CASE BuildFails(r)
  <2>1. request'[r].pc = "failed" /\ entry' = entry /\ ~Active(r)'
    BY <1>3, <1>9 DEF BuildFails, Active
  <2> QED
    BY <1>1, <1>2, <1>4, <2>1
    DEF Inv, RequestsKnow, GenerationsAgree, EntryIsSound, CurrentEntryIsStored, ServedPlanIsFresh
<1>10. CASE Store(r)
  <2>1. /\ request'[r].pc = "served" /\ request'[r].plan = request[r].plan
        /\ request'[r].asOf = request[r].asOf
        /\ entry'.present /\ entry'.plan = request[r].plan
        /\ entry'.generation = request[r].generation
        /\ Active(r) /\ ~Active(r)'
    BY <1>3, <1>10 DEF Store, KeptUnder, Active, Request
  <2>2. /\ NoOlder(request[r].plan, request[r].asOf)
        /\ request[r].generation = generation => request[r].plan = Stored
    <3>1. /\ \A k \in Kinds : request[r].plan[k] >= request[r].asOf[k]
          /\ request[r].generation = generation => \A k \in Kinds : request[r].plan[k] = Stored[k]
      BY <1>10, <2>1, AllRead DEF Store, Inv, RequestsKnow
    <3>2. request[r].plan \in Plan
      BY <1>3
    <3> QED
      BY <1>3, <3>1, <3>2 DEF NoOlder, Plan
  <2>3. request[r].generation <= generation
    BY <2>1 DEF Inv, RequestsKnow
  <2>4. EntryIsSound'
    BY <1>1, <1>4, <2>1, <2>2, <2>3 DEF Inv, EntryIsSound, GenerationsAgree
  <2> QED
    BY <1>1, <1>2, <1>4, <2>1, <2>2, <2>4
    DEF Inv, RequestsKnow, GenerationsAgree, CurrentEntryIsStored, ServedPlanIsFresh
<1> QED
  BY <1>5, <1>6, <1>7, <1>8, <1>9, <1>10

LEMMA RestartInv ==
  ASSUME Inv, TypeOK', Restart
  PROVE  Inv'
<1>1. /\ \A w \in Writers : writer'[w].pc = "idle"
      /\ \A r \in Requests : request'[r].pc = "idle"
      /\ ~entry'.present
  BY DEF Restart, Idle, Quiet, Empty
<1> QED
  BY <1>1 DEF Inv, WritersCount, RequestsKnow, GenerationsAgree, EntryIsSound,
              CurrentEntryIsStored, ServedPlanIsFresh, Active

LEMMA Inductive == OneWriter => (Spec => []Inv)
<1> SUFFICES ASSUME OneWriter PROVE Spec => []Inv
  OBVIOUS
<1>1. Inv /\ [Next]_vars => Inv'
  <2> SUFFICES ASSUME Inv, [Next]_vars PROVE Inv'
    OBVIOUS
  <2>1. TypeOK'
    BY StepTypes DEF Inv
  <2>2. CASE UNCHANGED vars
    <3>1. Frame /\ WritersCount'
      BY <2>2 DEF vars, Frame, Inv, WritersCount
    <3> QED
      BY <2>1, <3>1, QuietWriterStep
  <2> QED
    BY <2>1, <2>2, WriterStepInv, CommitInv, RequestStepInv, RestartInv DEF Next, Rest
<1> QED
  BY <1>1, InitInv, PTL DEF Spec

(* With one definition writer, a served plan is never older than what was   *)
(* committed when its request came: for any number of requests and any      *)
(* interleaving of their builds with writes, failures and restarts.         *)
THEOREM PlansAreFresh == OneWriter => (Spec => []ServedPlanIsFresh)
<1>1. Inv => ServedPlanIsFresh
  BY DEF Inv
<1> QED
  BY <1>1, Inductive, PTL

(* With one definition writer, the entry the next request would hit is what *)
(* is stored.                                                               *)
THEOREM CurrentEntryHolds == OneWriter => (Spec => []CurrentEntryIsStored)
<1>1. Inv => CurrentEntryIsStored
  BY DEF Inv
<1> QED
  BY <1>1, Inductive, PTL

(* With one definition writer, the generation moves forward with each       *)
(* committed definition and with nothing else.                              *)
THEOREM GenerationCounts == OneWriter => (Spec => GenerationCountsWrites)
<1> DEFINE Counted == (defs' # defs <=> generation' # generation) /\ generation' >= generation
<1>1. Inv /\ [Next]_vars => [Counted]_vars
  <2> SUFFICES ASSUME Inv, Next PROVE Counted
    BY DEF vars
  <2>1. ASSUME NEW w \in Writers, Commit(w) PROVE Counted
    <3>1. generation' = generation + 1 /\ generation \in Nat
      BY <2>1 DEF Commit, CommittedGeneration, Inv, WritersCount, TypeOK
    <3>2. defs'[writer[w].kind].version = defs[writer[w].kind].version + 1
          /\ defs[writer[w].kind].version \in Nat
      BY <2>1 DEF Commit, Inv, TypeOK, Writer, Definition
    <3> QED
      BY <3>1, <3>2
  <2>2. CASE UNCHANGED <<generation, defs>>
    BY <2>2 DEF Inv, TypeOK
  <2> QED
    BY <2>1, <2>2
    DEF Next, WriteRow, ReadGeneration, CheckExists, Bump, Rollback, WriterFrame,
        Ask, Hit, Miss, Read, BuildFails, Store, RequestFrame, Restart, Rest, vars
<1> QED
  BY <1>1, Inductive, PTL DEF Spec, GenerationCountsWrites

=============================================================================
