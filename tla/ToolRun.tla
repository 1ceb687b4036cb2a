------------------------------- MODULE ToolRun -------------------------------
(***************************************************************************)
(* One execution of one MCP tool: Executor::run_tool (src/runtime/mod.rs). *)
(*                                                                         *)
(* The caller is either a single api_call or a script.  It hands batches   *)
(* of upstream calls to run_batch (runtime/partial.rs), one batch at a     *)
(* time: a script blocks on the bridge until its batch has been serviced.  *)
(* A batch is reserved as a whole against the run's BudgetMeter, fanned    *)
(* out concurrently under per-service semaphores (runtime/fanout.rs), each *)
(* call fetching pages one after another (http/paginate.rs), and then      *)
(* charged to the meter in input order.  The recorder writes one runs row. *)
(*                                                                         *)
(* Time is a discrete clock.  Bodies, URLs, names and values are left out: *)
(* an item is what the budget, the semaphores, the script and the recorder *)
(* can tell apart.                                                         *)
(***************************************************************************)
EXTENDS Integers, Sequences, FiniteSets, Sums

CONSTANTS
  Services,            \* service slugs of the plan
  ServiceConcurrency,  \* [Services -> Nat]: services.max_concurrency
  BudgetConcurrency,   \* Budgets::max_concurrency of the tool, or NoLimit
  MaxCalls,            \* Budgets::max_calls, or NoLimit
  MaxBytes,            \* Budgets::max_bytes, or NoLimit
  MaxPages,            \* Budgets::max_pages, or NoLimit
  WallClock,           \* Budgets::wall_clock in ticks, or NoLimit
  NoLimit,             \* Option::None of an axis: no opinion
  StaticCap,           \* the api_call's / service's own max_response_bytes
  Fallback,            \* NO_WALL_CLOCK_BUDGET_FALLBACK, in ticks
  MaxBatch,            \* script::bridge::MAX_BATCH
  MaxItems,            \* bound: the largest batch a script asks for
  PageSizes,           \* bound: body sizes an upstream answers with
  PageBound,           \* bound: pages an upstream offers on one call
  MaxBatches,          \* bound: batches a script issues
  Horizon              \* bound: ticks of the clock

Limit == Nat \cup {NoLimit}

ASSUME RunAssumption ==
  /\ NoLimit \notin Nat
  /\ ServiceConcurrency \in [Services -> Nat]
  /\ BudgetConcurrency \in Limit
  /\ MaxCalls \in Limit /\ MaxBytes \in Limit
  /\ MaxPages \in Limit /\ WallClock \in Limit
  /\ StaticCap \in Nat /\ Fallback \in Nat \ {0}
  /\ MaxItems \in Nat \ {0} /\ MaxBatch \in Nat
  /\ PageSizes \subseteq Nat
  /\ PageBound \in Nat \ {0} /\ MaxBatches \in Nat /\ Horizon \in Nat

VARIABLES
  target,    \* tool.target: an api_call or a script
  pc,        \* where the run is
  now,       \* the clock, in ticks since BudgetMeter::new
  calls,     \* BudgetMeter::calls_used
  bytes,     \* BudgetMeter::bytes_used
  pages,     \* BudgetMeter::pages_used
  permits,   \* free permits of each service's semaphore
  size,      \* items in the current batch
  item,      \* the current batch's items, by input index
  grant,     \* the CallBudget computed once for the batch
  cursor,    \* index the in-order commit loop has reached
  trip,      \* first index each commit refused, 0 for none
  audit,     \* the entries collected for the recorder
  doomed,    \* the script was answered with BridgeReply::Terminated
  batches,   \* batches issued so far
  run        \* the runs row and its run_calls rows

vars == <<target, pc, now, calls, bytes, pages, permits, size, item, grant,
          cursor, trip, audit, doomed, batches, run>>
meter == <<calls, bytes, pages>>
batch == <<size, item, grant, cursor, trip>>

Items == 1..MaxItems
Axes == {"calls", "bytes", "wall_clock", "pages"}
Reasons == {"none", "args", "send", "timeout", "page_cap", "upstream"}
ItemState == {"absent", "queued", "sending", "ok", "failed"}
Item == [state : ItemState, svc : Services, pages : Nat, bytes : Nat,
         sentAt : Nat, why : Reasons]
Grant == [bytes : Limit, pages : Limit, left : Limit, time : Nat]
Entry == [seq : Nat, kind : {"ok", "failed", "not_attempted", "cut"},
          axis : Axes \cup {"none"}, row : BOOLEAN,
          pages : Nat, bytes : Nat]
RunStatus == {"ok", "partial", "error", "budget_exceeded", "timeout"}
Active == {"caller", "grant", "fanout", "bytes", "pages", "settle", "record"}
Terminal == {"refused", "done", "unrecorded", "abandoned"}

----------------------------------------------------------------------------
(* The meter: BudgetMeter's questions.                                     *)

Within(limit, amount) == limit # NoLimit => amount <= limit
Left(limit, used) == IF limit = NoLimit THEN NoLimit ELSE limit - used
LowerOf(a, limit) == IF Within(limit, a) THEN a ELSE limit

DeadlinePassed == WallClock # NoLimit /\ now >= WallClock

\* reserve_calls: the whole batch fits, or none of it is admitted.
AdmittedMutant(n) == Within(MaxCalls, calls + 1)
Admitted(n) == Within(MaxCalls, calls + n)

\* One semaphore per service: the lower of the service's and the run's own
\* ceiling, and never less than one permit.
Ceiling(s) ==
  LET c == LowerOf(ServiceConcurrency[s], BudgetConcurrency)
  IN  IF c < 1 THEN 1 ELSE c

\* The CallBudget of a batch.  `left` keeps the page allowance before the
\* max(1) that lets a batch start with none left.
CallBudget ==
  LET left == Left(MaxPages, pages) IN
  [bytes |-> Left(MaxBytes, bytes),
   left  |-> left,
   pages |-> IF left = 0 THEN 1 ELSE left,
   time  |-> IF WallClock = NoLimit THEN Fallback ELSE WallClock - now]

\* The byte cap of one response of the batch.
ResponseCap == LowerOf(StaticCap, grant.bytes)

NoGrant == [bytes |-> NoLimit, left |-> NoLimit, pages |-> NoLimit, time |-> 0]
NoTrip == [bytes |-> 0, pages |-> 0]
Fresh(state, s) == [state |-> state, svc |-> s, pages |-> 0, bytes |-> 0,
                    sentAt |-> 0, why |-> "none"]

----------------------------------------------------------------------------
(* Verdicts: ItemOutcome, BatchStatus and what a script is told.           *)

\* DispatchError::budget_trip: a failure that is a budget trip in disguise.
FailureAxis(why) ==
  CASE why = "page_cap" -> "pages"
    [] why = "timeout"  -> "wall_clock"
    [] OTHER            -> "none"

\* Whichever commit tripped at the lower index cuts the batch; a tie is bytes.
CutAxisMutant == IF trip.bytes = 0 THEN "pages" ELSE "bytes"
CutAxis ==
  IF trip.bytes = 0 \/ (trip.pages # 0 /\ trip.pages < trip.bytes)
  THEN "pages" ELSE "bytes"
CutAt == IF CutAxis = "pages" THEN trip.pages ELSE trip.bytes
IsCutMutant(i) == CutAt # 0 /\ i > CutAt
IsCut(i) == CutAt # 0 /\ i >= CutAt

\* The BatchEntry of item i.  `row`: the entry carries an upstream exchange,
\* so the recorder writes a run_calls row for it.
Verdict(i, seq) ==
  LET kind == CASE item[i].state = "failed" -> "failed"
                [] item[i].state # "failed" /\ IsCut(i) -> "cut"
                [] OTHER -> "ok"
  IN [seq   |-> seq,
      kind  |-> kind,
      axis  |-> CASE kind = "failed" -> FailureAxis(item[i].why)
                  [] kind = "cut" -> CutAxis
                  [] OTHER -> "none",
      row   |-> kind \in {"ok", "cut"} \/ item[i].why = "upstream",
      pages |-> item[i].pages,
      bytes |-> item[i].bytes]

NotAttempted(axis, seq) ==
  [seq |-> seq, kind |-> "not_attempted", axis |-> axis, row |-> FALSE,
   pages |-> 0, bytes |-> 0]

\* derive_status, with the axis of an all-on-budget failure as its value.
BatchStatus(entries) ==
  LET ok == {k \in DOMAIN entries : entries[k].kind = "ok"} IN
  CASE ok = DOMAIN entries -> "ok"
    [] ok # {} /\ ok # DOMAIN entries -> "partial"
    [] OTHER ->
         IF \A k \in DOMAIN entries : entries[k].axis = entries[1].axis
         THEN IF entries[1].axis = "none" THEN "all_failed" ELSE entries[1].axis
         ELSE "all_failed"

\* to_run_status
ToRunStatus(status) ==
  CASE status \in {"ok", "partial"} -> status
    [] status = "all_failed" -> "error"
    [] status = "wall_clock" -> "timeout"
    [] OTHER -> "budget_exceeded"

NoRun == [written |-> FALSE, status |-> "ok", entries |-> <<>>]

\* The audit trail has one running index over the batches of the run.
NextSeqMutant(k) == k - 1
NextSeq(k) == Len(audit) + k - 1
TrailMutant(entries) == entries
Trail(entries) == audit \o entries

\* What follows run_batch: a script's service_one appends the entries to the
\* trail, and a batch that failed on the wall clock alone terminates the
\* script; run_tool's api_call arm takes the status.
Deliver(entries) ==
  LET status == BatchStatus(entries) IN
  /\ audit' = Trail(entries)
  /\ IF target = "script"
     THEN /\ pc' = "caller"
          /\ doomed' = (status = "wall_clock")
          /\ run' = run
     ELSE /\ pc' = "record"
          /\ doomed' = doomed
          /\ run' = [run EXCEPT !.status = ToRunStatus(status)]

\* partial::not_attempted
DeliverNotAttempted(n, axis) ==
  Deliver([k \in 1..n |-> NotAttempted(axis, NextSeq(k))])

----------------------------------------------------------------------------
(* The run starts and its caller issues batches.                           *)

Init ==
  /\ target \in {"api_call", "script"}
  /\ pc = "start"
  /\ now = 0
  /\ calls = 0 /\ bytes = 0 /\ pages = 0
  /\ permits = [s \in Services |-> Ceiling(s)]
  /\ size = 0
  /\ item \in {[i \in Items |-> Fresh("absent", s)] : s \in Services}
  /\ grant = NoGrant
  /\ cursor = 1
  /\ trip = NoTrip
  /\ audit = <<>>
  /\ doomed = FALSE
  /\ batches = 0
  /\ run = NoRun

\* The tool and its auth providers are found, and the meter starts counting.
Begin ==
  /\ pc = "start"
  /\ pc' = "caller"
  /\ UNCHANGED <<target, now, meter, permits, batch, audit, doomed, batches, run>>

\* ToolNotFound, ScriptNotOnPlan or Auth: run_tool returns before any call.
RefuseRun ==
  /\ pc = "start"
  /\ pc' = "refused"
  /\ UNCHANGED <<target, now, meter, permits, batch, audit, doomed, batches, run>>

MayIssue(n) ==
  /\ pc = "caller"
  /\ ~doomed
  /\ IF target = "script" THEN batches < MaxBatches ELSE n = 1 /\ batches = 0

\* A script's batch of a name it may not call, whatever its size, or over
\* MAX_BATCH is a catchable error: it never reaches run_batch.
RefuseBatch(n) ==
  /\ MayIssue(n)
  /\ target = "script"
  /\ batches' = batches + 1
  /\ UNCHANGED <<target, pc, now, meter, permits, batch, audit, doomed, run>>

IssueBatch(n) ==
  /\ MayIssue(n)
  /\ n <= MaxBatch
  /\ batches' = batches + 1
  /\ size' = n
  /\ grant' = NoGrant
  /\ cursor' = 1
  /\ trip' = NoTrip
  /\ UNCHANGED <<target, now, bytes, pages, permits>>

\* reserve_calls fails: on the deadline first, then on the whole batch.
ReservationFails(n) ==
  /\ IssueBatch(n)
  /\ DeadlinePassed \/ ~Admitted(n)
  /\ DeliverNotAttempted(n, IF DeadlinePassed THEN "wall_clock" ELSE "calls")
  /\ item' = [i \in Items |-> Fresh("absent", item[i].svc)]
  /\ calls' = calls

\* reserve_calls admits all n calls: each is one future waiting for a permit.
\* The items of one batch are all of one name, hence of one service.
Reserve(n, s) ==
  /\ IssueBatch(n)
  /\ ~DeadlinePassed
  /\ Admitted(n)
  /\ calls' = calls + n
  /\ item' = [i \in Items |-> Fresh(IF i <= n THEN "queued" ELSE "absent", s)]
  /\ pc' = "grant"
  /\ UNCHANGED <<audit, doomed, run>>

\* remaining_time, read after the reservation: the deadline may have passed in
\* between, and the reserved calls stay charged.
GrantFails ==
  /\ pc = "grant"
  /\ DeadlinePassed
  /\ DeliverNotAttempted(size, "wall_clock")
  /\ item' = [i \in Items |-> Fresh("absent", item[i].svc)]
  /\ UNCHANGED <<target, now, meter, permits, size, grant, cursor, trip, batches>>

GrantBatch ==
  /\ pc = "grant"
  /\ ~DeadlinePassed
  /\ grant' = CallBudget
  /\ pc' = "fanout"
  /\ UNCHANGED <<target, now, meter, permits, size, item, cursor, trip, audit,
                 doomed, batches, run>>

----------------------------------------------------------------------------
(* Fan-out: the items of the batch, each under its service's semaphore.    *)

FanOutFrame == UNCHANGED <<target, pc, now, meter, size, grant, cursor, trip,
                           audit, doomed, batches, run>>

\* Item i ends: its permit is dropped with the future.
ReleasedMutant(i) == permits
Released(i) == [permits EXCEPT ![item[i].svc] = @ + 1]

\* The permit is acquired and the first page requested.
SendFirst(i) ==
  /\ pc = "fanout"
  /\ item[i].state = "queued"
  /\ permits[item[i].svc] > 0
  /\ permits' = [permits EXCEPT ![item[i].svc] = @ - 1]
  /\ item' = [item EXCEPT ![i].state = "sending", ![i].sentAt = now]
  /\ FanOutFrame

\* bind_args, bind or the client fails: nothing is sent, and the permit is
\* acquired and dropped without a wait in between.
FailUnsent(i) ==
  /\ pc = "fanout"
  /\ item[i].state = "queued"
  /\ permits[item[i].svc] > 0
  /\ item' = [item EXCEPT ![i].state = "failed", ![i].why = "args"]
  /\ UNCHANGED permits
  /\ FanOutFrame

\* A page of b bytes arrives before the deadline `send` was given.
Arrives(i, b) ==
  /\ pc = "fanout"
  /\ item[i].state = "sending"
  /\ now - item[i].sentAt <= grant.time
  /\ b <= ResponseCap

AnsweredMutant(i, b) == [item[i] EXCEPT !.bytes = @ + b]
Answered(i, b) == [item[i] EXCEPT !.pages = @ + 1, !.bytes = @ + b]

\* The last page: the call succeeds, or fails on the completed exchange
\* (a non-2xx status, a body that is not JSON, a projection).
LastPage(i, b, state, why) ==
  /\ Arrives(i, b)
  /\ item' = [item EXCEPT ![i] = [Answered(i, b) EXCEPT !.state = state,
                                                        !.why = why]]
  /\ permits' = Released(i)
  /\ FanOutFrame

\* A page with a next cursor, and allowance for one more: the next request
\* starts at once, with the same deadline again.
NextPage(i, b) ==
  /\ Arrives(i, b)
  /\ item[i].pages + 1 < PageBound
  /\ Within(grant.pages, item[i].pages + 2)
  /\ item' = [item EXCEPT ![i] = [Answered(i, b) EXCEPT !.sentAt = now]]
  /\ UNCHANGED permits
  /\ FanOutFrame

\* A page with a next cursor, and none left: PageCapExceeded.
PageCap(i, b) ==
  /\ Arrives(i, b)
  /\ ~Within(grant.pages, item[i].pages + 2)
  /\ item' = [item EXCEPT ![i] = [Answered(i, b) EXCEPT !.state = "failed",
                                                        !.why = "page_cap"]]
  /\ permits' = Released(i)
  /\ FanOutFrame

\* The request in flight fails: its own or the batch's timeout, a transport
\* error, a body over the cap.
CallFails(i, why) ==
  /\ pc = "fanout"
  /\ item[i].state = "sending"
  /\ why \in {"timeout", "send"}
  /\ item' = [item EXCEPT ![i].state = "failed", ![i].why = why]
  /\ permits' = Released(i)
  /\ FanOutFrame

\* Every slot is filled: fan_out returns the results in input order.
AllFilledMutant == \A i \in Items : item[i].state \in {"ok", "failed"}
AllFilled == \A i \in 1..size : item[i].state \in {"ok", "failed"}

Collect ==
  /\ pc = "fanout"
  /\ AllFilled
  /\ pc' = "bytes"
  /\ UNCHANGED <<target, now, meter, permits, batch, audit, doomed, batches, run>>

----------------------------------------------------------------------------
(* The in-order commits, an iteration at a time, and the verdicts.         *)

CommitFrame == UNCHANGED <<target, now, calls, permits, size, item, grant, audit,
                           doomed, batches, run>>
Charged(i) == item[i].state = "ok"

OverBytesMutant == Charged(cursor) /\ ~Within(MaxBytes, bytes)
OverBytes == Charged(cursor) /\ ~Within(MaxBytes, bytes + item[cursor].bytes)
OverPages == Charged(cursor) /\ ~Within(MaxPages, pages + item[cursor].pages)

\* commit_bytes_in_order: the loop leaves at the first index that overflows.
CommitBytes ==
  /\ pc = "bytes"
  /\ cursor <= size
  /\ LET over == OverBytes
     IN /\ bytes' = IF Charged(cursor) /\ ~over THEN bytes + item[cursor].bytes
                                                ELSE bytes
        /\ trip' = IF over THEN [trip EXCEPT !.bytes = cursor] ELSE trip
        /\ pc' = IF over THEN "pages" ELSE "bytes"
        /\ cursor' = IF over THEN 1 ELSE cursor + 1
  /\ UNCHANGED pages
  /\ CommitFrame

BytesCommitted ==
  /\ pc = "bytes"
  /\ cursor > size
  /\ pc' = "pages"
  /\ cursor' = 1
  /\ UNCHANGED <<bytes, pages, trip>>
  /\ CommitFrame

\* commit_pages_in_order
CommitPages ==
  /\ pc = "pages"
  /\ cursor <= size
  /\ LET over == OverPages
     IN /\ pages' = IF Charged(cursor) /\ ~over THEN pages + item[cursor].pages
                                                ELSE pages
        /\ trip' = IF over THEN [trip EXCEPT !.pages = cursor] ELSE trip
        /\ pc' = IF over THEN "settle" ELSE "pages"
        /\ cursor' = IF over THEN 1 ELSE cursor + 1
  /\ UNCHANGED bytes
  /\ CommitFrame

PagesCommitted ==
  /\ pc = "pages"
  /\ cursor > size
  /\ pc' = "settle"
  /\ cursor' = 1
  /\ UNCHANGED <<bytes, pages, trip>>
  /\ CommitFrame

Settle ==
  /\ pc = "settle"
  /\ Deliver([i \in 1..size |-> Verdict(i, NextSeq(i))])
  /\ UNCHANGED <<target, now, meter, permits, batch, batches>>

----------------------------------------------------------------------------
(* The script returns, the run is recorded, the clock moves.               *)

EndScript(status, entries) ==
  /\ pc = "caller"
  /\ target = "script"
  /\ pc' = "record"
  /\ run' = [run EXCEPT !.status = status, !.entries = entries]
  /\ UNCHANGED <<target, now, meter, permits, batch, audit, doomed, batches>>

\* The script returned a value: the trail goes to the recorder.
ScriptReturns == ~doomed /\ EndScript("ok", audit)

\* It threw, was terminated (by the deadline, by an operation limit or by the
\* bridge) or its arguments did not bind: the recorder gets no entries.
ScriptFails == EndScript("error", <<>>)

\* recorder::record: the runs row and its run_calls rows, in one transaction.
Record ==
  /\ pc = "record"
  /\ pc' = "done"
  /\ run' = [run EXCEPT !.written = TRUE,
                        !.entries = IF target = "script" THEN @ ELSE audit]
  /\ UNCHANGED <<target, now, meter, permits, batch, audit, doomed, batches>>

\* ExecutorError::Record
RecordFails ==
  /\ pc = "record"
  /\ pc' = "unrecorded"
  /\ UNCHANGED <<target, now, meter, permits, batch, audit, doomed, batches, run>>

\* The client goes away: the run's future is dropped at an await point.
Abandon ==
  /\ pc \in {"caller", "fanout", "record"}
  /\ pc' = "abandoned"
  /\ UNCHANGED <<target, now, meter, permits, batch, audit, doomed, batches, run>>

\* A request never outlives the deadline `send` gave it, and a call whose
\* permit is free is sent before the clock moves: ticks are coarse.
MayWait(i) ==
  CASE item[i].state = "sending" -> now - item[i].sentAt < grant.time
    [] item[i].state = "queued"  -> permits[item[i].svc] = 0
    [] OTHER                     -> TRUE

Tick ==
  /\ pc \in Active
  /\ now < Horizon
  /\ pc = "fanout" => \A i \in Items : MayWait(i)
  /\ now' = now + 1
  /\ UNCHANGED <<target, pc, meter, permits, batch, audit, doomed, batches, run>>

Finished == pc \in Terminal /\ UNCHANGED vars

CallerStep ==
  \/ \E n \in Items : RefuseBatch(n) \/ ReservationFails(n)
  \/ \E n \in Items, s \in Services : Reserve(n, s)
  \/ ScriptReturns
  \/ ScriptFails

ItemStep(i) ==
  \/ SendFirst(i)
  \/ FailUnsent(i)
  \/ \E b \in PageSizes : \/ LastPage(i, b, "ok", "none")
                          \/ LastPage(i, b, "failed", "upstream")
                          \/ NextPage(i, b)
                          \/ PageCap(i, b)
  \/ \E why \in Reasons : CallFails(i, why)

SettleStep ==
  \/ GrantFails
  \/ GrantBatch
  \/ Collect
  \/ CommitBytes
  \/ BytesCommitted
  \/ CommitPages
  \/ PagesCommitted
  \/ Settle

RecordStep == Record \/ RecordFails

Next ==
  \/ Begin
  \/ RefuseRun
  \/ CallerStep
  \/ \E i \in Items : ItemStep(i)
  \/ SettleStep
  \/ RecordStep
  \/ Abandon
  \/ Tick
  \/ Finished

Spec == Init /\ [][Next]_vars

\* The executor is an async task on a running runtime, every request in flight
\* answers or times out, and a script is cut off after MAX_OPERATIONS.
Fairness ==
  /\ WF_vars(Begin)
  /\ WF_vars(CallerStep)
  /\ WF_vars(\E i \in Items : ItemStep(i))
  /\ WF_vars(SettleStep)
  /\ WF_vars(RecordStep)

FairSpec == Spec /\ Fairness

----------------------------------------------------------------------------
(* Properties.                                                             *)

(* Every variable stays in its type. *)
TypeOK ==
  /\ target \in {"api_call", "script"}
  /\ pc \in Active \cup Terminal \cup {"start"}
  /\ now \in Nat
  /\ calls \in Nat /\ bytes \in Nat /\ pages \in Nat
  /\ permits \in [Services -> Nat]
  /\ size \in 0..MaxItems
  /\ item \in [Items -> Item]
  /\ grant \in Grant
  /\ cursor \in 1..(MaxItems + 1)
  /\ trip \in [bytes : 0..MaxItems, pages : 0..MaxItems]
  /\ audit \in Seq(Entry)
  /\ doomed \in BOOLEAN
  /\ batches \in Nat
  /\ run \in [written : BOOLEAN, status : RunStatus, entries : Seq(Entry)]

(* The counters never pass the tool's budgets, whatever batches a script   *)
(* issues (invariant I6; BudgetMeter::reserve_calls, commit_*_in_order).   *)
WithinBudget ==
  /\ Within(MaxCalls, calls)
  /\ Within(MaxBytes, bytes)
  /\ Within(MaxPages, pages)

InFlight(s) == {i \in Items : item[i].state = "sending" /\ item[i].svc = s}

(* No permit is lost or minted over the run's batches: the calls in flight *)
(* to a service and its free permits always add up to its ceiling, so      *)
(* never more than the ceiling are in flight (ConcurrencyLimits, fan_out). *)
PermitsConserved ==
  \A s \in Services : permits[s] + Cardinality(InFlight(s)) = Ceiling(s)

OkUpTo(k) == {i \in 1..k : item[i].state = "ok"}
BytesUpTo(k) == SumOver([i \in OkUpTo(k) |-> item[i].bytes], OkUpTo(k))
PagesUpTo(k) == SumOver([i \in OkUpTo(k) |-> item[i].pages], OkUpTo(k))

BatchSettled == pc \in {"caller", "record"} /\ grant # NoGrant
LastEntry(i) == audit[Len(audit) - size + i]

(* Invariant I7: which items of a batch count, and on which axis the rest  *)
(* are cut, is a function of the items in input order and of what was left *)
(* when the batch started - never of the order in which they completed.    *)
VerdictsFollowInputOrder ==
  BatchSettled =>
    \A i \in 1..size :
      LET fitsBytes(k) == Within(grant.bytes, BytesUpTo(k))
          fitsPages(k) == Within(grant.left, PagesUpTo(k))
          entry == LastEntry(i)
      IN item[i].state = "ok" =>
           /\ entry.kind = (IF fitsBytes(i) /\ fitsPages(i) THEN "ok" ELSE "cut")
           /\ entry.kind = "cut" =>
                (entry.axis = "bytes" <=>
                   \A k \in 1..i : ~fitsPages(k) => \E j \in 1..k : ~fitsBytes(j))

(* Nothing a run hands back or records was free: what the meter has charged *)
(* covers every call that was attempted and every byte and page of every    *)
(* result that counted.                                                     *)
ResultsArePaidFor ==
  pc \in {"caller", "record", "done"} =>
    LET of(kinds) == {k \in DOMAIN audit : audit[k].kind \in kinds} IN
    /\ Cardinality(of({"ok", "failed", "cut"})) <= calls
    /\ SumOver([k \in of({"ok"}) |-> audit[k].bytes], of({"ok"})) <= bytes
    /\ SumOver([k \in of({"ok"}) |-> audit[k].pages], of({"ok"})) <= pages

RecordedRows == {k \in DOMAIN run.entries : run.entries[k].row}

(* The run_calls rows of a run, which UNIQUE(run_id, seq) keys, are numbered *)
(* apart over all the batches of a script, in the order of the trail.        *)
RowsAreNumberedApart ==
  \A j, k \in RecordedRows : j < k => run.entries[j].seq < run.entries[k].seq

Open(i) == item[i].state \in {"queued", "sending"}
PagesEach == LowerOf(PageBound, grant.pages)

(* How far a batch may run past the deadline it was granted under: while a *)
(* call of it is open, no more time has gone since the grant than if its   *)
(* calls were made one after another, each with all its pages and the time *)
(* that was left for every one of them.  A permit that is free is taken, a *)
(* request ends with its timeout, a call stops at its pages (fan_out,      *)
(* paginate, send).                                                        *)
OverrunIsBounded ==
  WallClock # NoLimit /\ pc = "fanout" /\ (\E i \in 1..size : Open(i)) =>
    now <= (WallClock - grant.time) + size * PagesEach * grant.time

(* A run ends: every permit comes back, every slot is filled, a terminated  *)
(* script stops (fan_out, bridge::service, run_script).                     *)
RunEnds == <>(pc \in Terminal)

Ledger == INSTANCE RunLedger WITH closed <- pc \in Terminal

(* The run's account keeps what RunLedger promises. *)
KeepsLedger == Ledger!Spec

----------------------------------------------------------------------------
(* What the documentation says and the code does not do.                    *)

(* "Checked before every reservation so a timed-out run can't admit one more *)
(* call or page" (runtime/budget.rs).                                        *)
NoRequestPastDeadline ==
  \A i \in Items :
    pc = "fanout" /\ item[i].state = "sending" =>
      WallClock = NoLimit \/ item[i].sentAt < WallClock

(* "recording exactly one `runs` row (plus one `run_calls` row per attempted *)
(* upstream request)" (runtime/mod.rs): every item whose upstream answered   *)
(* has its row.                                                              *)
EveryAttemptHasItsRow ==
  run.written =>
    \A k \in DOMAIN audit : audit[k].pages > 0 => k \in RecordedRows

=============================================================================
