--------------------------- MODULE ToolRun_proofs ---------------------------
(***************************************************************************)
(* The safety of ToolRun for every plan, budget, batch size and clock.     *)
(*                                                                         *)
(* The inductive invariant adds two facts to the properties themselves:    *)
(* slots past the batch's size are empty, and nothing is in flight outside *)
(* the fan-out (an abandoned run keeps its last picture).                  *)
(*                                                                         *)
(* The verdicts and the account need what the commits keep while they run: *)
(* the grant is what was left before the batch, that is what is left now   *)
(* and what the batch has been charged (GrantFollowsMeter); a commit trips *)
(* at the first index whose prefix the grant does not cover (CommitShape); *)
(* and the meter covers the trail and the batch in hand (Account).         *)
(*                                                                         *)
(* The overrun needs the time of the batch's requests as one sum: every    *)
(* request a call makes pays for one more timeout, and the clock stays     *)
(* within what has been paid for (Pace).                                   *)
(***************************************************************************)
EXTENDS ToolRun, Sums_proofs, FiniteSetTheorems, SequenceTheorems, TLAPS

BatchShape ==
  /\ \A i \in Items : i > size => item[i].state = "absent"
  /\ pc \notin {"fanout", "abandoned"} =>
       \A i \in Items : item[i].state # "sending"

(* What every step keeps; each theorem below is one of its parts. *)
IInv == TypeOK /\ WithinBudget /\ PermitsConserved /\ BatchShape

----------------------------------------------------------------------------
(* Operators.                                                              *)

(* A record over 1..n is a sequence of n entries (the batch's entries). *)
LEMMA EntriesAreASequence ==
  ASSUME NEW n \in Nat, NEW f \in [1..n -> Entry]
  PROVE  f \in Seq(Entry) /\ Len(f) = n
OBVIOUS

(* A semaphore always starts with at least one permit (max(1) in build). *)
LEMMA CeilingIsPositive ==
  ASSUME NEW s \in Services
  PROVE  Ceiling(s) \in Nat /\ Ceiling(s) >= 1
BY RunAssumption DEF Ceiling, LowerOf, Within, Limit

(* The verdict of an item is an entry, whatever the item is. *)
LEMMA VerdictIsAnEntry ==
  ASSUME NEW i \in Items, NEW seq \in Nat, item \in [Items -> Item]
  PROVE  Verdict(i, seq) \in Entry
<1>1. item[i] \in Item
  OBVIOUS
<1>2. FailureAxis(item[i].why) \in Axes \cup {"none"}
  BY DEF FailureAxis, Axes
<1>3. CutAxis \in Axes
  BY DEF CutAxis, Axes
<1> QED
  BY <1>1, <1>2, <1>3 DEF Verdict, Entry, Item

(* So is the entry of a call that was refused unsent. *)
LEMMA NotAttemptedIsAnEntry ==
  ASSUME NEW axis \in Axes, NEW seq \in Nat
  PROVE  NotAttempted(axis, seq) \in Entry
BY DEF NotAttempted, Entry

(* Every status a batch can have maps to a run status. *)
LEMMA RunStatusOfABatch ==
  ASSUME NEW status
  PROVE  ToRunStatus(status) \in RunStatus
BY DEF ToRunStatus, RunStatus

(* Delivering well-formed entries keeps the trail, the script's fate and   *)
(* the run row in their types.                                             *)
LEMMA DeliverTypes ==
  ASSUME TypeOK, NEW n \in Nat, NEW entries \in [1..n -> Entry], Deliver(entries)
  PROVE  /\ audit' \in Seq(Entry)
         /\ pc' \in {"caller", "record"}
         /\ doomed' \in BOOLEAN
         /\ run' \in [written : BOOLEAN, status : RunStatus, entries : Seq(Entry)]
<1>1. entries \in Seq(Entry)
  BY EntriesAreASequence
<1>2. audit \o entries \in Seq(Entry)
  BY <1>1, ConcatProperties DEF TypeOK
<1>3. ToRunStatus(BatchStatus(entries)) \in RunStatus
  BY RunStatusOfABatch
<1> QED
  BY <1>2, <1>3 DEF Deliver, Trail, TypeOK

(* The entries of a refused batch and of a settled one. *)
LEMMA DeliverNotAttemptedTypes ==
  ASSUME TypeOK, NEW n \in Nat, NEW axis \in Axes, DeliverNotAttempted(n, axis)
  PROVE  /\ audit' \in Seq(Entry)
         /\ pc' \in {"caller", "record"}
         /\ doomed' \in BOOLEAN
         /\ run' \in [written : BOOLEAN, status : RunStatus, entries : Seq(Entry)]
<1> DEFINE entries == [k \in 1..n |-> NotAttempted(axis, NextSeq(k))]
<1>1. Len(audit) \in Nat
  BY LenProperties DEF TypeOK
<1>2. \A k \in 1..n : NextSeq(k) \in Nat
  BY <1>1 DEF NextSeq
<1>3. entries \in [1..n -> Entry]
  BY <1>2, NotAttemptedIsAnEntry
<1>4. Deliver(entries)
  BY DEF DeliverNotAttempted
<1> HIDE DEF entries
<1> QED
  BY <1>3, <1>4, DeliverTypes

(* What is left of an axis is a limit again while the meter is within it. *)
LEMMA LeftIsALimit ==
  ASSUME NEW limit \in Limit, NEW used \in Nat, Within(limit, used)
  PROVE  Left(limit, used) \in Limit
BY RunAssumption DEF Left, Within, Limit

(* The grant of a batch that started in time is well formed. *)
LEMMA CallBudgetIsAGrant ==
  ASSUME TypeOK, WithinBudget, ~DeadlinePassed
  PROVE  CallBudget \in Grant
<1>1. Left(MaxBytes, bytes) \in Limit /\ Left(MaxPages, pages) \in Limit
  BY LeftIsALimit, RunAssumption DEF TypeOK, WithinBudget
<1>2. (IF Left(MaxPages, pages) = 0 THEN 1 ELSE Left(MaxPages, pages)) \in Limit
  BY <1>1 DEF Limit
<1>3. (IF WallClock = NoLimit THEN Fallback ELSE WallClock - now) \in Nat
  BY RunAssumption DEF DeadlinePassed, TypeOK, Limit
<1> QED
  BY <1>1, <1>2, <1>3 DEF CallBudget, Grant

(* A slot as a new batch writes it is an item. *)
LEMMA FreshIsAnItem ==
  ASSUME NEW state \in ItemState, NEW s \in Services
  PROVE  Fresh(state, s) \in Item
BY DEF Fresh, Item, Reasons

----------------------------------------------------------------------------
(* Types.                                                                  *)

LEMMA InitTypes == Init => TypeOK
<1> SUFFICES ASSUME Init PROVE TypeOK
  OBVIOUS
<1>1. item \in [Items -> Item]
  BY FreshIsAnItem DEF Init, ItemState
<1>2. permits \in [Services -> Nat]
  BY CeilingIsPositive DEF Init
<1>3. grant \in Grant
  BY DEF Init, NoGrant, Grant, Limit
<1>4. audit \in Seq(Entry) /\ run \in [written : BOOLEAN, status : RunStatus, entries : Seq(Entry)]
  BY DEF Init, NoRun, RunStatus
<1>5. /\ target \in {"api_call", "script"} /\ pc \in Active \cup Terminal \cup {"start"}
      /\ now \in Nat /\ calls \in Nat /\ bytes \in Nat /\ pages \in Nat
      /\ doomed \in BOOLEAN /\ batches \in Nat
  BY DEF Init
<1>6. /\ size \in 0..MaxItems /\ cursor \in 1..(MaxItems + 1)
      /\ trip \in [bytes : 0..MaxItems, pages : 0..MaxItems]
  BY RunAssumption DEF Init, NoTrip
<1> QED
  BY <1>1, <1>2, <1>3, <1>4, <1>5, <1>6 DEF TypeOK

(* The caller's steps: refusing, reserving, and the end of a script. *)
LEMMA CallerStepTypes ==
  ASSUME TypeOK, WithinBudget, CallerStep
  PROVE  TypeOK'
<1>1. ASSUME NEW n \in Items, RefuseBatch(n) PROVE TypeOK'
  BY <1>1 DEF RefuseBatch, MayIssue, TypeOK, meter, batch
<1>2. ASSUME NEW n \in Items, IssueBatch(n)
      PROVE  /\ target' \in {"api_call", "script"} /\ now' \in Nat
             /\ bytes' \in Nat /\ pages' \in Nat
             /\ permits' \in [Services -> Nat]
             /\ size' \in 0..MaxItems /\ grant' \in Grant
             /\ cursor' \in 1..(MaxItems + 1)
             /\ trip' \in [bytes : 0..MaxItems, pages : 0..MaxItems]
             /\ batches' \in Nat
  BY <1>2, RunAssumption
  DEF IssueBatch, TypeOK, NoGrant, NoTrip, Grant, Limit, Items
<1>3. ASSUME NEW n \in Items, ReservationFails(n) PROVE TypeOK'
  <2>1. DeliverNotAttempted(n, IF DeadlinePassed THEN "wall_clock" ELSE "calls")
    BY <1>3 DEF ReservationFails
  <2>2. (IF DeadlinePassed THEN "wall_clock" ELSE "calls") \in Axes /\ n \in Nat
    BY RunAssumption DEF Axes, Items
  <2>3. /\ audit' \in Seq(Entry) /\ pc' \in {"caller", "record"}
        /\ doomed' \in BOOLEAN
        /\ run' \in [written : BOOLEAN, status : RunStatus, entries : Seq(Entry)]
    BY <2>1, <2>2, DeliverNotAttemptedTypes
  <2>4. item' \in [Items -> Item]
    BY <1>3, FreshIsAnItem DEF ReservationFails, TypeOK, ItemState, Item
  <2>5. IssueBatch(n) /\ calls' = calls
    BY <1>3 DEF ReservationFails
  <2> QED
    BY <2>3, <2>4, <2>5, <1>2 DEF TypeOK, Active, Terminal
<1>4. ASSUME NEW n \in Items, NEW s \in Services, Reserve(n, s) PROVE TypeOK'
  <2>1. item' \in [Items -> Item]
    BY <1>4, FreshIsAnItem DEF Reserve, ItemState
  <2>2. calls' \in Nat
    BY <1>4, RunAssumption DEF Reserve, TypeOK, Items
  <2>3. IssueBatch(n) /\ pc' = "grant" /\ UNCHANGED <<audit, doomed, run>>
    BY <1>4 DEF Reserve
  <2> QED
    BY <2>1, <2>2, <2>3, <1>2 DEF TypeOK, Active, Terminal
<1>5. ASSUME NEW status \in RunStatus, NEW entries \in Seq(Entry),
             EndScript(status, entries)
      PROVE  TypeOK'
  <2>1. run' \in [written : BOOLEAN, status : RunStatus, entries : Seq(Entry)]
    BY <1>5 DEF EndScript, TypeOK
  <2>2. UNCHANGED <<target, now, calls, bytes, pages, permits, size, item, grant,
                    cursor, trip, audit, doomed, batches>> /\ pc' = "record"
    BY <1>5 DEF EndScript, meter, batch
  <2> QED
    BY <2>1, <2>2 DEF TypeOK, Active
<1>6. ASSUME ScriptReturns \/ ScriptFails PROVE TypeOK'
  <2>1. audit \in Seq(Entry) /\ <<>> \in Seq(Entry)
        /\ "ok" \in RunStatus /\ "error" \in RunStatus
    BY DEF TypeOK, RunStatus
  <2> QED
    BY <1>5, <1>6, <2>1 DEF ScriptReturns, ScriptFails
<1> QED
  BY <1>1, <1>3, <1>4, <1>6 DEF CallerStep

(* Replacing one item by another keeps the batch's type. *)
LEMMA UpdatedItem ==
  ASSUME TypeOK, NEW i \in Items, NEW x \in Item
  PROVE  [item EXCEPT ![i] = x] \in [Items -> Item]
BY DEF TypeOK

(* A step of one item of the fan-out. *)
LEMMA ItemStepTypes ==
  ASSUME TypeOK, NEW i \in Items, ItemStep(i)
  PROVE  TypeOK'
<1> DEFINE Ends == item' \in [Items -> Item] /\ permits' \in [Services -> Nat] /\ FanOutFrame
<1>1. item[i] \in Item /\ item[i].svc \in Services /\ permits[item[i].svc] \in Nat
  BY DEF TypeOK, Item
<1>2. Released(i) \in [Services -> Nat]
  BY <1>1 DEF Released, TypeOK
<1>3. ASSUME NEW b \in PageSizes PROVE Answered(i, b) \in Item
  <2>1. b \in Nat /\ item[i].pages + 1 \in Nat /\ item[i].bytes + b \in Nat
    BY <1>1, RunAssumption DEF Item
  <2> QED
    BY <1>1, <2>1 DEF Answered, Item
<1>4. ASSUME NEW x \in Item, NEW state \in {"ok", "failed"}, NEW why \in Reasons
      PROVE  [x EXCEPT !.state = state, !.why = why] \in Item
  BY DEF Item, ItemState
<1>5. ASSUME SendFirst(i) PROVE Ends
  <2>1. [item[i] EXCEPT !.state = "sending", !.sentAt = now] \in Item
    BY <1>1 DEF TypeOK, Item, ItemState
  <2>2. item' = [item EXCEPT ![i] = [item[i] EXCEPT !.state = "sending", !.sentAt = now]]
    BY <1>5 DEF SendFirst, TypeOK
  <2>3. permits' \in [Services -> Nat]
    BY <1>1, <1>5 DEF SendFirst, TypeOK
  <2> QED
    BY <1>5, <2>1, <2>2, <2>3, UpdatedItem DEF SendFirst
<1>6. ASSUME NEW why \in Reasons,
             item' = [item EXCEPT ![i].state = "failed", ![i].why = why]
      PROVE  item' \in [Items -> Item]
  <2>1. item' = [item EXCEPT ![i] = [item[i] EXCEPT !.state = "failed", !.why = why]]
    BY <1>6 DEF TypeOK
  <2> QED
    BY <1>1, <1>4, <2>1, UpdatedItem
<1>7. ASSUME FailUnsent(i) PROVE Ends
  BY <1>6, <1>7 DEF FailUnsent, Reasons, TypeOK
<1>8. ASSUME NEW b \in PageSizes,
             LastPage(i, b, "ok", "none") \/ LastPage(i, b, "failed", "upstream")
      PROVE  Ends
  <2>1. "none" \in Reasons /\ "upstream" \in Reasons
    BY DEF Reasons
  <2>2. [Answered(i, b) EXCEPT !.state = "ok", !.why = "none"] \in Item
        /\ [Answered(i, b) EXCEPT !.state = "failed", !.why = "upstream"] \in Item
    BY <1>3, <1>4, <2>1
  <2> QED
    BY <1>2, <1>8, <2>2, UpdatedItem DEF LastPage
<1>9. ASSUME NEW b \in PageSizes, NextPage(i, b) PROVE Ends
  <2>1. [Answered(i, b) EXCEPT !.sentAt = now] \in Item
    BY <1>3 DEF Item, TypeOK
  <2> QED
    BY <1>9, <2>1, UpdatedItem DEF NextPage, TypeOK
<1>10. ASSUME NEW b \in PageSizes, PageCap(i, b) PROVE Ends
  <2>1. [Answered(i, b) EXCEPT !.state = "failed", !.why = "page_cap"] \in Item
    BY <1>3, <1>4 DEF Reasons
  <2> QED
    BY <1>2, <1>10, <2>1, UpdatedItem DEF PageCap
<1>11. ASSUME NEW why \in Reasons, CallFails(i, why) PROVE Ends
  BY <1>2, <1>6, <1>11 DEF CallFails
<1>12. Ends
  BY <1>5, <1>7, <1>8, <1>9, <1>10, <1>11 DEF ItemStep
<1> QED
  BY <1>12 DEF FanOutFrame, TypeOK, meter

(* Granting, collecting, committing and settling the batch. *)
LEMMA SettleStepTypes ==
  ASSUME TypeOK, WithinBudget, SettleStep
  PROVE  TypeOK'
<1>1. ASSUME GrantFails PROVE TypeOK'
  <2>1. DeliverNotAttempted(size, "wall_clock") /\ "wall_clock" \in Axes
    BY <1>1 DEF GrantFails, Axes
  <2>2. size \in Nat
    BY RunAssumption DEF TypeOK
  <2>3. /\ audit' \in Seq(Entry) /\ pc' \in {"caller", "record"}
        /\ doomed' \in BOOLEAN
        /\ run' \in [written : BOOLEAN, status : RunStatus, entries : Seq(Entry)]
    BY <2>1, <2>2, DeliverNotAttemptedTypes
  <2>4. item' \in [Items -> Item]
    BY <1>1, FreshIsAnItem DEF GrantFails, TypeOK, ItemState, Item
  <2>5. UNCHANGED <<target, now, calls, bytes, pages, permits, size, grant,
                    cursor, trip, batches>>
    BY <1>1 DEF GrantFails, meter
  <2> QED
    BY <2>3, <2>4, <2>5 DEF TypeOK, Active, Terminal
<1>2. ASSUME GrantBatch PROVE TypeOK'
  BY <1>2, CallBudgetIsAGrant DEF GrantBatch, TypeOK, Active, meter
<1>3. ASSUME Collect PROVE TypeOK'
  BY <1>3 DEF Collect, TypeOK, Active, meter, batch
<1>4. ASSUME cursor \in Items
      PROVE  /\ bytes \in Nat /\ bytes + item[cursor].bytes \in Nat
             /\ pages \in Nat /\ pages + item[cursor].pages \in Nat
             /\ cursor \in 0..MaxItems
             /\ 1 \in 1..(MaxItems + 1) /\ cursor + 1 \in 1..(MaxItems + 1)
  <2>1. item[cursor].bytes \in Nat /\ item[cursor].pages \in Nat
    BY <1>4 DEF TypeOK, Item
  <2>2. bytes \in Nat /\ pages \in Nat
    BY DEF TypeOK
  <2> QED
    BY <1>4, <2>1, <2>2, RunAssumption DEF Items
<1>5. cursor <= size => cursor \in Items
  BY RunAssumption DEF TypeOK, Items
<1>6. ASSUME CommitBytes PROVE TypeOK'
  <2>1. /\ bytes' \in {bytes, bytes + item[cursor].bytes} /\ cursor' \in {1, cursor + 1}
        /\ trip' \in {trip, [trip EXCEPT !.bytes = cursor]}
        /\ pc' \in {"bytes", "pages"} /\ cursor <= size
    BY <1>6, Zenon DEF CommitBytes
  <2>3. trip' \in [bytes : 0..MaxItems, pages : 0..MaxItems]
    BY <1>4, <1>5, <2>1 DEF TypeOK
  <2>4. bytes' \in Nat /\ cursor' \in 1..(MaxItems + 1)
    BY <1>4, <1>5, <2>1
  <2>2. UNCHANGED <<target, now, calls, pages, permits, size, item, grant, audit,
                    doomed, batches, run>>
    BY <1>6 DEF CommitBytes, CommitFrame
  <2> QED
    BY <2>1, <2>2, <2>3, <2>4 DEF TypeOK, Active
<1>7. ASSUME CommitPages PROVE TypeOK'
  <2>1. /\ pages' \in {pages, pages + item[cursor].pages} /\ cursor' \in {1, cursor + 1}
        /\ trip' \in {trip, [trip EXCEPT !.pages = cursor]}
        /\ pc' \in {"pages", "settle"} /\ cursor <= size
    BY <1>7, Zenon DEF CommitPages
  <2>3. trip' \in [bytes : 0..MaxItems, pages : 0..MaxItems]
    BY <1>4, <1>5, <2>1 DEF TypeOK
  <2>4. pages' \in Nat /\ cursor' \in 1..(MaxItems + 1)
    BY <1>4, <1>5, <2>1
  <2>2. UNCHANGED <<target, now, calls, bytes, permits, size, item, grant, audit,
                    doomed, batches, run>>
    BY <1>7 DEF CommitPages, CommitFrame
  <2> QED
    BY <2>1, <2>2, <2>3, <2>4 DEF TypeOK, Active
<1>8. ASSUME BytesCommitted \/ PagesCommitted PROVE TypeOK'
  BY <1>8, RunAssumption DEF BytesCommitted, PagesCommitted, CommitFrame, TypeOK, Active
<1>9. ASSUME Settle PROVE TypeOK'
  <2> DEFINE entries == [i \in 1..size |-> Verdict(i, NextSeq(i))]
  <2>1. size \in Nat /\ 1..size \subseteq Items /\ Len(audit) \in Nat
    BY RunAssumption, LenProperties DEF TypeOK, Items
  <2>2. \A i \in 1..size : NextSeq(i) \in Nat
    BY <2>1 DEF NextSeq
  <2>3. entries \in [1..size -> Entry]
    BY <2>1, <2>2, VerdictIsAnEntry DEF TypeOK
  <2>4. Deliver(entries)
    BY <1>9 DEF Settle
  <2> HIDE DEF entries
  <2>5. /\ audit' \in Seq(Entry) /\ pc' \in {"caller", "record"}
        /\ doomed' \in BOOLEAN
        /\ run' \in [written : BOOLEAN, status : RunStatus, entries : Seq(Entry)]
    BY <2>1, <2>3, <2>4, DeliverTypes
  <2>6. UNCHANGED <<target, now, calls, bytes, pages, permits, size, item, grant,
                    cursor, trip, batches>>
    BY <1>9 DEF Settle, meter, batch
  <2> QED
    BY <2>5, <2>6 DEF TypeOK, Active, Terminal
<1> QED
  BY <1>1, <1>2, <1>3, <1>6, <1>7, <1>8, <1>9 DEF SettleStep

(* Every step keeps the types; the budgets are what makes a grant a grant. *)
LEMMA StepTypes ==
  ASSUME TypeOK, WithinBudget, [Next]_vars
  PROVE  TypeOK'
<1>1. ASSUME Begin \/ RefuseRun \/ Abandon PROVE TypeOK'
  BY <1>1 DEF Begin, RefuseRun, Abandon, TypeOK, Active, Terminal, meter, batch
<1>2. ASSUME Tick PROVE TypeOK'
  BY <1>2 DEF Tick, TypeOK, meter, batch
<1>3. ASSUME Record PROVE TypeOK'
  <2>1. run' \in [written : BOOLEAN, status : RunStatus, entries : Seq(Entry)]
    BY <1>3 DEF Record, TypeOK
  <2>2. pc' = "done" /\ UNCHANGED <<target, now, calls, bytes, pages, permits, size,
                           item, grant, cursor, trip, audit, doomed, batches>>
    BY <1>3 DEF Record, meter, batch
  <2> QED
    BY <2>1, <2>2 DEF TypeOK, Terminal
<1>4. ASSUME RecordFails PROVE TypeOK'
  BY <1>4 DEF RecordFails, TypeOK, Terminal, meter, batch
<1>5. ASSUME UNCHANGED vars PROVE TypeOK'
  BY <1>5 DEF TypeOK, vars
<1> QED
  BY <1>1, <1>2, <1>3, <1>4, <1>5, CallerStepTypes, ItemStepTypes, SettleStepTypes
  DEF Next, RecordStep, Finished

----------------------------------------------------------------------------
(* Budgets.                                                                *)

(* The three counters move in one place each, behind their own check. *)
LEMMA StepBudget ==
  ASSUME TypeOK, WithinBudget, [Next]_vars
  PROVE  WithinBudget'
<1>1. ASSUME UNCHANGED meter PROVE WithinBudget'
  BY <1>1 DEF WithinBudget, Within, meter
<1>2. ASSUME CallerStep PROVE WithinBudget'
  <2>1. ASSUME NEW n \in Items, NEW s \in Services, Reserve(n, s) PROVE WithinBudget'
    BY <2>1 DEF Reserve, IssueBatch, Admitted, WithinBudget, Within
  <2>2. ASSUME NEW n \in Items, RefuseBatch(n) \/ ReservationFails(n)
        PROVE  UNCHANGED meter
    BY <2>2 DEF RefuseBatch, ReservationFails, IssueBatch, meter
  <2>3. ASSUME ScriptReturns \/ ScriptFails PROVE UNCHANGED meter
    BY <2>3 DEF ScriptReturns, ScriptFails, EndScript
  <2> QED
    BY <1>1, <1>2, <2>1, <2>2, <2>3 DEF CallerStep
<1>3. ASSUME NEW i \in Items, ItemStep(i) PROVE UNCHANGED meter
  BY <1>3 DEF ItemStep, SendFirst, FailUnsent, LastPage, NextPage, PageCap,
              CallFails, FanOutFrame
<1>4. ASSUME CommitBytes PROVE WithinBudget'
  <2>1. bytes' = bytes \/ Within(MaxBytes, bytes')
    BY <1>4 DEF CommitBytes, OverBytes
  <2> QED
    BY <1>4, <2>1 DEF CommitBytes, CommitFrame, WithinBudget, Within
<1>5. ASSUME CommitPages PROVE WithinBudget'
  <2>1. pages' = pages \/ Within(MaxPages, pages')
    BY <1>5 DEF CommitPages, OverPages
  <2> QED
    BY <1>5, <2>1 DEF CommitPages, CommitFrame, WithinBudget, Within
<1>6. ASSUME GrantFails \/ GrantBatch \/ Collect \/ BytesCommitted \/ PagesCommitted \/ Settle
      PROVE  UNCHANGED meter
  BY <1>6 DEF GrantFails, GrantBatch, Collect, BytesCommitted, PagesCommitted,
              CommitFrame, Settle, meter
<1>7. ASSUME Begin \/ RefuseRun \/ RecordStep \/ Abandon \/ Tick \/ UNCHANGED vars
      PROVE  UNCHANGED meter
  BY <1>7 DEF Begin, RefuseRun, RecordStep, Record, RecordFails, Abandon, Tick,
              meter, vars
<1> QED
  BY <1>1, <1>2, <1>3, <1>4, <1>5, <1>6, <1>7 DEF Next, SettleStep, Finished

----------------------------------------------------------------------------
(* Slots.                                                                  *)

(* Only the slots of the batch are used, and only the fan-out sends. *)
LEMMA InitShape == Init => BatchShape
BY DEF Init, BatchShape, Fresh

(* An item of the fan-out moves only its own slot. *)
LEMMA ItemStepShape ==
  ASSUME TypeOK, BatchShape, NEW i \in Items, ItemStep(i)
  PROVE  BatchShape'
<1>1. pc = "fanout" /\ pc' = "fanout" /\ size' = size /\ item[i].state # "absent"
  BY DEF ItemStep, SendFirst, FailUnsent, LastPage, NextPage, PageCap, CallFails,
         Arrives, FanOutFrame
<1>2. \E x : item' = [item EXCEPT ![i] = x]
  BY DEF ItemStep, SendFirst, FailUnsent, LastPage, NextPage, PageCap, CallFails
<1>3. PICK x : item' = [item EXCEPT ![i] = x]
  BY <1>2
<1>4. \A j \in Items : j # i => item'[j] = item[j]
  BY <1>3 DEF TypeOK
<1> QED
  BY <1>1, <1>4 DEF BatchShape

(* Every step keeps the unused slots empty and sends only in the fan-out. *)
LEMMA StepShape ==
  ASSUME TypeOK, BatchShape, [Next]_vars
  PROVE  BatchShape'
<1>1. ASSUME UNCHANGED <<size, item>>, pc # "fanout", pc' # "fanout", pc # "abandoned"
      PROVE  BatchShape'
  BY <1>1 DEF BatchShape
<1>2. ASSUME CallerStep PROVE BatchShape'
  <2>1. ASSUME NEW n \in Items, RefuseBatch(n) PROVE BatchShape'
    BY <1>1, <2>1 DEF RefuseBatch, MayIssue, batch
  <2>2. ASSUME NEW n \in Items, ReservationFails(n) PROVE BatchShape'
    BY <2>2 DEF ReservationFails, Fresh, BatchShape
  <2>3. ASSUME NEW n \in Items, NEW s \in Services, Reserve(n, s) PROVE BatchShape'
    BY <2>3, RunAssumption DEF Reserve, IssueBatch, Fresh, BatchShape, Items
  <2>4. ASSUME ScriptReturns \/ ScriptFails PROVE BatchShape'
    BY <1>1, <2>4 DEF ScriptReturns, ScriptFails, EndScript, batch
  <2> QED
    BY <1>2, <2>1, <2>2, <2>3, <2>4 DEF CallerStep
<1>3. ASSUME GrantFails PROVE BatchShape'
  BY <1>3 DEF GrantFails, Fresh, BatchShape
<1>4. ASSUME GrantBatch PROVE BatchShape'
  BY <1>4 DEF GrantBatch, BatchShape
<1>5. ASSUME Collect PROVE BatchShape'
  <2>1. \A i \in Items : i \in 1..size \/ i > size
    BY RunAssumption DEF TypeOK, Items
  <2>2. \A i \in Items : item[i].state # "sending"
    BY <1>5, <2>1 DEF Collect, AllFilled, BatchShape
  <2> QED
    BY <1>5, <2>2 DEF Collect, BatchShape, batch
<1>6. ASSUME CommitBytes \/ BytesCommitted \/ CommitPages \/ PagesCommitted PROVE BatchShape'
  BY <1>1, <1>6 DEF CommitBytes, BytesCommitted, CommitPages, PagesCommitted, CommitFrame
<1>7. ASSUME Settle PROVE BatchShape'
  BY <1>1, <1>7 DEF Settle, Deliver, batch
<1>8. ASSUME Begin \/ RefuseRun \/ RecordStep PROVE BatchShape'
  BY <1>1, <1>8 DEF Begin, RefuseRun, RecordStep, Record, RecordFails, batch
<1>9. ASSUME Abandon PROVE BatchShape'
  BY <1>9 DEF Abandon, BatchShape, batch
<1>10. ASSUME Tick \/ UNCHANGED vars PROVE BatchShape'
  BY <1>10 DEF Tick, BatchShape, batch, vars
<1> QED
  BY <1>2, <1>3, <1>4, <1>5, <1>6, <1>7, <1>8, <1>9, <1>10, ItemStepShape
  DEF Next, SettleStep, Finished

----------------------------------------------------------------------------
(* Permits.                                                                *)

LEMMA InFlightIsFinite ==
  ASSUME NEW s \in Services
  PROVE  IsFiniteSet(InFlight(s)) /\ Cardinality(InFlight(s)) \in Nat
<1>1. IsFiniteSet(Items)
  BY FS_Interval, RunAssumption DEF Items
<1>2. InFlight(s) \subseteq Items
  BY DEF InFlight
<1> QED
  BY <1>1, <1>2, FS_Subset, FS_CardinalityType

(* A permit taken is an item in flight. *)
LEMMA StartingKeepsPermits ==
  ASSUME TypeOK, PermitsConserved, NEW i \in Items, SendFirst(i)
  PROVE  PermitsConserved'
<1> SUFFICES ASSUME NEW s \in Services
             PROVE  permits'[s] + Cardinality(InFlight(s)') = Ceiling(s)
  BY DEF PermitsConserved
<1>1. /\ permits[s] \in Nat /\ Cardinality(InFlight(s)) \in Nat
      /\ permits[s] + Cardinality(InFlight(s)) = Ceiling(s)
  BY InFlightIsFinite DEF TypeOK, PermitsConserved
<1>2. \A j \in Items : /\ item'[j].svc = item[j].svc
                       /\ item'[j].state = IF j = i THEN "sending" ELSE item[j].state
  BY DEF SendFirst, TypeOK, Item
<1>3. i \notin InFlight(s)
  BY DEF SendFirst, InFlight
<1>4. CASE item[i].svc = s
  <2>1. InFlight(s)' = InFlight(s) \cup {i}
    BY <1>2, <1>4 DEF InFlight
  <2>2. Cardinality(InFlight(s)') = Cardinality(InFlight(s)) + 1
    BY <1>3, <2>1, InFlightIsFinite, FS_AddElement
  <2>3. permits'[s] = permits[s] - 1
    BY <1>4 DEF SendFirst, TypeOK
  <2> QED
    BY <1>1, <2>2, <2>3
<1>5. CASE item[i].svc # s
  <2>1. InFlight(s)' = InFlight(s)
    BY <1>2, <1>5 DEF InFlight
  <2>2. permits'[s] = permits[s]
    BY <1>5 DEF SendFirst, TypeOK
  <2> QED
    BY <1>1, <2>1, <2>2
<1> QED
  BY <1>4, <1>5

(* An item that ends gives its permit back. *)
LEMMA EndingKeepsPermits ==
  ASSUME TypeOK, PermitsConserved, NEW i \in Items, item[i].state = "sending",
         NEW x, x.state # "sending", item' = [item EXCEPT ![i] = x],
         permits' = Released(i)
  PROVE  PermitsConserved'
<1> SUFFICES ASSUME NEW s \in Services
             PROVE  permits'[s] + Cardinality(InFlight(s)') = Ceiling(s)
  BY DEF PermitsConserved
<1>1. /\ permits[s] \in Nat /\ Cardinality(InFlight(s)) \in Nat
      /\ permits[s] + Cardinality(InFlight(s)) = Ceiling(s)
  BY InFlightIsFinite DEF TypeOK, PermitsConserved
<1>2. InFlight(s)' = InFlight(s) \ {i}
  BY DEF InFlight, TypeOK
<1>3. CASE item[i].svc = s
  <2>1. i \in InFlight(s)
    BY <1>3 DEF InFlight
  <2>2. Cardinality(InFlight(s)') = Cardinality(InFlight(s)) - 1
    BY <1>2, <2>1, InFlightIsFinite, FS_RemoveElement
  <2>3. permits'[s] = permits[s] + 1
    BY <1>3 DEF Released, TypeOK
  <2> QED
    BY <1>1, <2>2, <2>3
<1>4. CASE item[i].svc # s
  <2>1. InFlight(s)' = InFlight(s)
    BY <1>2, <1>4 DEF InFlight
  <2>2. permits'[s] = permits[s]
    BY <1>4 DEF Released, TypeOK
  <2> QED
    BY <1>1, <2>1, <2>2
<1> QED
  BY <1>3, <1>4

(* Nothing is in flight before or after: the free permits do not move. *)
LEMMA IdleKeepsPermits ==
  ASSUME PermitsConserved, permits' = permits,
         \A i \in Items : item[i].state # "sending",
         \A i \in Items : item'[i].state # "sending"
  PROVE  PermitsConserved'
<1>1. ASSUME NEW s \in Services PROVE InFlight(s)' = InFlight(s)
  BY DEF InFlight
<1> QED
  BY <1>1 DEF PermitsConserved

(* A step of an item moves its permit along. *)
LEMMA ItemStepPermits ==
  ASSUME TypeOK, PermitsConserved, NEW i \in Items, ItemStep(i)
  PROVE  PermitsConserved'
<1>1. ASSUME NEW b \in PageSizes PROVE Answered(i, b).state = item[i].state
                                    /\ Answered(i, b).svc = item[i].svc
  BY DEF Answered, TypeOK, Item
<1>2. ASSUME FailUnsent(i) \/ \E b \in PageSizes : NextPage(i, b)
      PROVE  PermitsConserved'
  <2>1. permits' = permits
    BY <1>2 DEF FailUnsent, NextPage
  <2>2. ASSUME NEW s \in Services PROVE InFlight(s)' = InFlight(s)
    <3>1. CASE FailUnsent(i)
      BY <3>1 DEF FailUnsent, InFlight, TypeOK, Item
    <3>2. ASSUME NEW b \in PageSizes, NextPage(i, b)
          PROVE  InFlight(s)' = InFlight(s)
      <4>1. item' = [item EXCEPT ![i] = [Answered(i, b) EXCEPT !.sentAt = now]]
        BY <3>2 DEF NextPage
      <4>2. [Answered(i, b) EXCEPT !.sentAt = now].state = item[i].state
            /\ [Answered(i, b) EXCEPT !.sentAt = now].svc = item[i].svc
        BY DEF Answered, TypeOK, Item
      <4> QED
        BY <4>1, <4>2 DEF InFlight, TypeOK
    <3> QED
      BY <1>2, <3>1, <3>2
  <2> QED
    BY <2>1, <2>2 DEF PermitsConserved
<1>3. ASSUME NEW b \in PageSizes,
             LastPage(i, b, "ok", "none") \/ LastPage(i, b, "failed", "upstream")
      PROVE  PermitsConserved'
  <2>1. item[i].state = "sending" /\ permits' = Released(i)
    BY <1>3 DEF LastPage, Arrives
  <2>2. PICK state \in {"ok", "failed"}, why \in {"none", "upstream"} :
          item' = [item EXCEPT ![i] = [Answered(i, b) EXCEPT !.state = state, !.why = why]]
    BY <1>3 DEF LastPage
  <2>3. [Answered(i, b) EXCEPT !.state = state, !.why = why].state # "sending"
    BY DEF Answered, TypeOK, Item
  <2> QED
    BY <2>1, <2>2, <2>3, EndingKeepsPermits
<1>4. ASSUME NEW b \in PageSizes, PageCap(i, b) PROVE PermitsConserved'
  <2>1. item[i].state = "sending" /\ permits' = Released(i)
        /\ item' = [item EXCEPT ![i] = [Answered(i, b) EXCEPT !.state = "failed",
                                                              !.why = "page_cap"]]
    BY <1>4 DEF PageCap, Arrives
  <2>2. [Answered(i, b) EXCEPT !.state = "failed", !.why = "page_cap"].state # "sending"
    BY DEF Answered, TypeOK, Item
  <2> QED
    BY <2>1, <2>2, EndingKeepsPermits
<1>5. ASSUME NEW why \in Reasons, CallFails(i, why) PROVE PermitsConserved'
  <2>1. item[i].state = "sending" /\ permits' = Released(i)
        /\ item' = [item EXCEPT ![i] = [item[i] EXCEPT !.state = "failed", !.why = why]]
    BY <1>5 DEF CallFails, TypeOK
  <2>2. [item[i] EXCEPT !.state = "failed", !.why = why].state # "sending"
    BY DEF TypeOK, Item
  <2> QED
    BY <2>1, <2>2, EndingKeepsPermits
<1> QED
  BY <1>2, <1>3, <1>4, <1>5, StartingKeepsPermits DEF ItemStep

(* No step loses or mints a permit. *)
LEMMA StepPermits ==
  ASSUME TypeOK, BatchShape, PermitsConserved, [Next]_vars
  PROVE  PermitsConserved'
<1>1. ASSUME UNCHANGED <<permits, item>> PROVE PermitsConserved'
  BY <1>1 DEF PermitsConserved, InFlight
<1>2. ASSUME CallerStep PROVE PermitsConserved'
  <2>1. \A i \in Items : item[i].state # "sending"
    BY <1>2 DEF CallerStep, RefuseBatch, ReservationFails, Reserve, IssueBatch,
                MayIssue, ScriptReturns, ScriptFails, EndScript, BatchShape
  <2>2. permits' = permits
    BY <1>2 DEF CallerStep, RefuseBatch, ReservationFails, Reserve, IssueBatch,
                ScriptReturns, ScriptFails, EndScript
  <2>3. \A i \in Items : item'[i].state # "sending"
    BY <1>2, <2>1 DEF CallerStep, RefuseBatch, ReservationFails, Reserve,
                      ScriptReturns, ScriptFails, EndScript, Fresh, batch
  <2> QED
    BY <2>1, <2>2, <2>3, IdleKeepsPermits
<1>3. ASSUME GrantFails PROVE PermitsConserved'
  BY <1>3, IdleKeepsPermits DEF GrantFails, Fresh, BatchShape
<1>4. ASSUME GrantBatch \/ Collect \/ CommitBytes \/ BytesCommitted \/ CommitPages
             \/ PagesCommitted \/ Settle
      PROVE  UNCHANGED <<permits, item>>
  BY <1>4 DEF GrantBatch, Collect, CommitBytes, BytesCommitted, CommitPages,
              PagesCommitted, CommitFrame, Settle, batch
<1>5. ASSUME Begin \/ RefuseRun \/ RecordStep \/ Abandon \/ Tick \/ UNCHANGED vars
      PROVE  UNCHANGED <<permits, item>>
  BY <1>5 DEF Begin, RefuseRun, RecordStep, Record, RecordFails, Abandon, Tick,
              batch, vars
<1> QED
  BY <1>1, <1>2, <1>3, <1>4, <1>5, ItemStepPermits DEF Next, SettleStep, Finished

(* Every permit is free at the start. *)
LEMMA InitPermits == Init => PermitsConserved
<1> SUFFICES ASSUME Init, NEW s \in Services
             PROVE  permits[s] + Cardinality(InFlight(s)) = Ceiling(s)
  BY DEF PermitsConserved
<1>1. InFlight(s) = {}
  BY DEF Init, InFlight, Fresh
<1>2. Cardinality(InFlight(s)) = 0
  BY <1>1, FS_EmptySet
<1>3. permits[s] = Ceiling(s)
  BY DEF Init
<1> QED
  BY <1>2, <1>3, CeilingIsPositive

----------------------------------------------------------------------------
(* The theorems.                                                           *)

LEMMA InductiveInvariant == Spec => []IInv
<1>1. Init => IInv
  <2>1. Init => WithinBudget
    BY RunAssumption DEF Init, WithinBudget, Within, Limit
  <2> QED
    BY <2>1, InitTypes, InitShape, InitPermits DEF IInv
<1>2. IInv /\ [Next]_vars => IInv'
  BY StepTypes, StepBudget, StepShape, StepPermits DEF IInv
<1> QED
  BY <1>1, <1>2, PTL DEF Spec

(* Every variable stays in its type, for every plan and every budget. *)
THEOREM RunTypes == Spec => []TypeOK
BY InductiveInvariant, PTL DEF IInv

(* Invariant I6: no sequence of batches takes a counter past its budget. *)
THEOREM BudgetsHold == Spec => []WithinBudget
BY InductiveInvariant, PTL DEF IInv

(* Free permits and calls in flight always add up to a service's ceiling. *)
THEOREM PermitsHold == Spec => []PermitsConserved
BY InductiveInvariant, PTL DEF IInv

(* At most max(1, min(service, budget)) calls to a service are in flight. *)
THEOREM ConcurrencyIsBounded ==
  Spec => [](\A s \in Services : Cardinality(InFlight(s)) <= Ceiling(s))
<1>1. IInv => \A s \in Services : Cardinality(InFlight(s)) <= Ceiling(s)
  <2> SUFFICES ASSUME IInv, NEW s \in Services
               PROVE  Cardinality(InFlight(s)) <= Ceiling(s)
    OBVIOUS
  <2>1. permits[s] \in Nat /\ Cardinality(InFlight(s)) \in Nat
        /\ permits[s] + Cardinality(InFlight(s)) = Ceiling(s)
    BY InFlightIsFinite DEF IInv, TypeOK, PermitsConserved
  <2> QED
    BY <2>1
<1> QED
  BY <1>1, InductiveInvariant, PTL

----------------------------------------------------------------------------
(* The trail.                                                              *)

(* Entry k of a batch carries the run-wide index k - 1 past the trail. *)
Batch(n, entries) ==
  /\ entries \in [1..n -> Entry]
  /\ \A k \in 1..n : entries[k].seq = NextSeq(k)

(* The trail only moves by delivering a batch, numbered from where it ends. *)
LEMMA TrailMovesByBatches ==
  ASSUME TypeOK, [Next]_vars
  PROVE  \/ UNCHANGED audit
         \/ \E n \in Nat : \E entries : Batch(n, entries) /\ Deliver(entries)
<1>1. Len(audit) \in Nat
  BY LenProperties DEF TypeOK
<1>2. ASSUME NEW n \in Nat, NEW axis \in Axes, DeliverNotAttempted(n, axis)
      PROVE  \E entries : Batch(n, entries) /\ Deliver(entries)
  <2> DEFINE e == [k \in 1..n |-> NotAttempted(axis, NextSeq(k))]
  <2>1. \A k \in 1..n : NextSeq(k) \in Nat
    BY <1>1 DEF NextSeq
  <2>2. e \in [1..n -> Entry]
    BY <2>1, NotAttemptedIsAnEntry
  <2>3. \A k \in 1..n : e[k].seq = NextSeq(k)
    BY DEF NotAttempted
  <2>4. Deliver(e)
    BY <1>2 DEF DeliverNotAttempted
  <2> QED
    BY <2>2, <2>3, <2>4 DEF Batch
<1>3. ASSUME NEW n \in Items, ReservationFails(n)
      PROVE  \E m \in Nat : \E entries : Batch(m, entries) /\ Deliver(entries)
  <2>1. n \in Nat
    BY RunAssumption DEF Items
  <2>2. (IF DeadlinePassed THEN "wall_clock" ELSE "calls") \in Axes
    BY DEF Axes
  <2> QED
    BY <1>2, <1>3, <2>1, <2>2 DEF ReservationFails
<1>4. ASSUME GrantFails
      PROVE  \E m \in Nat : \E entries : Batch(m, entries) /\ Deliver(entries)
  <2>1. size \in Nat /\ "wall_clock" \in Axes
    BY RunAssumption DEF TypeOK, Axes
  <2> QED
    BY <1>2, <1>4, <2>1 DEF GrantFails
<1>5. ASSUME Settle
      PROVE  \E m \in Nat : \E entries : Batch(m, entries) /\ Deliver(entries)
  <2> DEFINE e == [i \in 1..size |-> Verdict(i, NextSeq(i))]
  <2>1. size \in Nat /\ 1..size \subseteq Items
    BY RunAssumption DEF TypeOK, Items
  <2>2. \A i \in 1..size : NextSeq(i) \in Nat
    BY <1>1, <2>1 DEF NextSeq
  <2>3. e \in [1..size -> Entry]
    BY <2>1, <2>2, VerdictIsAnEntry DEF TypeOK
  <2>4. \A i \in 1..size : e[i].seq = NextSeq(i)
    BY DEF Verdict
  <2>5. Deliver(e)
    BY <1>5 DEF Settle
  <2> QED
    BY <2>1, <2>3, <2>4, <2>5 DEF Batch
<1>6. ASSUME Begin \/ RefuseRun \/ RecordStep \/ Abandon \/ Tick \/ UNCHANGED vars
      PROVE  UNCHANGED audit
  BY <1>6 DEF Begin, RefuseRun, RecordStep, Record, RecordFails, Abandon, Tick, vars
<1>7. ASSUME NEW i \in Items, ItemStep(i) PROVE UNCHANGED audit
  BY <1>7 DEF ItemStep, SendFirst, FailUnsent, LastPage, NextPage, PageCap,
              CallFails, FanOutFrame
<1>8. ASSUME GrantBatch \/ Collect \/ CommitBytes \/ BytesCommitted \/ CommitPages
             \/ PagesCommitted
      PROVE  UNCHANGED audit
  BY <1>8 DEF GrantBatch, Collect, CommitBytes, BytesCommitted, CommitPages,
              PagesCommitted, CommitFrame
<1>9. ASSUME CallerStep
      PROVE  \/ UNCHANGED audit
             \/ \E n \in Items : ReservationFails(n)
  BY <1>9 DEF CallerStep, RefuseBatch, Reserve, ScriptReturns, ScriptFails, EndScript
<1> QED
  BY <1>3, <1>4, <1>5, <1>6, <1>7, <1>8, <1>9 DEF Next, SettleStep, Finished

(* Delivering a batch extends the trail at its end. *)
LEMMA DeliverExtends ==
  ASSUME TypeOK, NEW n \in Nat, NEW entries, Batch(n, entries), Deliver(entries)
  PROVE  /\ Len(audit') = Len(audit) + n
         /\ \A k \in 1..Len(audit) : audit'[k] = audit[k]
         /\ \A k \in 1..n : audit'[Len(audit) + k] = entries[k]
<1>1. entries \in Seq(Entry) /\ Len(entries) = n
  BY EntriesAreASequence DEF Batch
<1>2. audit' = audit \o entries
  BY DEF Deliver, Trail
<1>3. audit \in Seq(Entry) /\ Len(audit) \in Nat
  BY LenProperties DEF TypeOK
<1>4. /\ Len(audit \o entries) = Len(audit) + n
      /\ \A k \in 1..(Len(audit) + n) :
           (audit \o entries)[k] = IF k <= Len(audit) THEN audit[k]
                                                      ELSE entries[k - Len(audit)]
  BY <1>1, <1>3, ConcatProperties
<1>5. \A k \in 1..Len(audit) : (audit \o entries)[k] = audit[k]
  BY <1>3, <1>4
<1>6. ASSUME NEW k \in 1..n PROVE (audit \o entries)[Len(audit) + k] = entries[k]
  <2>1. Len(audit) + k \in 1..(Len(audit) + n) /\ ~(Len(audit) + k <= Len(audit))
        /\ (Len(audit) + k) - Len(audit) = k
    BY <1>3
  <2> QED
    BY <1>4, <2>1
<1> QED
  BY <1>2, <1>4, <1>5, <1>6

(* Entry k of a trail has index k - 1: true of the audit trail and of what *)
(* the recorder was given.                                                 *)
Numbered(trail) == \A k \in DOMAIN trail : trail[k].seq = k - 1
Numbering == Numbered(audit) /\ Numbered(run.entries)

(* A delivered batch is numbered on from where the trail ends. *)
LEMMA StepNumbering ==
  ASSUME TypeOK, Numbering, [Next]_vars
  PROVE  Numbering'
<1>1. ASSUME NEW n \in Nat, NEW entries, Batch(n, entries), Deliver(entries)
      PROVE  Numbered(audit')
  <2>1. audit' \in Seq(Entry) /\ Len(audit) \in Nat /\ audit \in Seq(Entry)
    BY <1>1, DeliverTypes DEF Batch, TypeOK
  <2>2. DOMAIN audit' = 1..(Len(audit) + n) /\ DOMAIN audit = 1..Len(audit)
    BY <1>1, <2>1, DeliverExtends
  <2> SUFFICES ASSUME NEW k \in 1..(Len(audit) + n) PROVE audit'[k].seq = k - 1
    BY <2>2 DEF Numbered
  <2>3. CASE k <= Len(audit)
    <3>1. k \in 1..Len(audit)
      BY <2>1, <2>3
    <3>2. audit'[k] = audit[k] /\ audit[k].seq = k - 1
      BY <1>1, <2>2, <3>1, DeliverExtends DEF Numbering, Numbered
    <3> QED
      BY <3>2
  <2>4. CASE k > Len(audit)
    <3>1. k - Len(audit) \in 1..n /\ k = Len(audit) + (k - Len(audit))
      BY <2>1, <2>4
    <3>2. audit'[k] = entries[k - Len(audit)]
      BY <1>1, <3>1, DeliverExtends
    <3>3. entries[k - Len(audit)].seq = Len(audit) + (k - Len(audit)) - 1
      BY <1>1, <3>1 DEF Batch, NextSeq
    <3> QED
      BY <2>1, <3>2, <3>3
  <2> QED
    BY <2>1, <2>3, <2>4
<1>2. Numbered(audit')
  BY <1>1, TrailMovesByBatches DEF Numbering
<1>3. run'.entries \in {run.entries, audit, <<>>}
  <2>1. ASSUME NEW status, NEW entries, EndScript(status, entries)
        PROVE  run'.entries = entries
    BY <2>1 DEF EndScript, TypeOK
  <2>2. ASSUME NEW entries, Deliver(entries) PROVE run'.entries = run.entries
    BY <2>2 DEF Deliver, TypeOK
  <2>3. ASSUME CallerStep PROVE run'.entries \in {run.entries, audit, <<>>}
    BY <2>1, <2>2, <2>3 DEF CallerStep, RefuseBatch, ReservationFails, Reserve,
       DeliverNotAttempted, ScriptReturns, ScriptFails
  <2>4. ASSUME SettleStep PROVE run'.entries = run.entries
    BY <2>2, <2>4 DEF SettleStep, GrantFails, GrantBatch, Collect, CommitBytes,
       BytesCommitted, CommitPages, PagesCommitted, CommitFrame, Settle,
       DeliverNotAttempted
  <2>5. ASSUME NEW i \in Items, ItemStep(i) PROVE UNCHANGED run
    BY <2>5 DEF ItemStep, SendFirst, FailUnsent, LastPage, NextPage, PageCap,
                CallFails, FanOutFrame
  <2>6. ASSUME Record PROVE run'.entries \in {run.entries, audit}
    BY <2>6 DEF Record, TypeOK
  <2>7. ASSUME Begin \/ RefuseRun \/ RecordFails \/ Abandon \/ Tick \/ UNCHANGED vars
        PROVE  UNCHANGED run
    BY <2>7 DEF Begin, RefuseRun, RecordFails, Abandon, Tick, vars
  <2> QED
    BY <2>3, <2>4, <2>5, <2>6, <2>7 DEF Next, RecordStep, Finished
<1>4. Numbered(run'.entries)
  BY <1>3 DEF Numbering, Numbered
<1> QED
  BY <1>2, <1>4 DEF Numbering, Numbered

(* Rows of one run are numbered apart, over all the batches of a script. *)
THEOREM RowsNumbered == Spec => []RowsAreNumberedApart
<1>1. Init => Numbering
  BY DEF Init, NoRun, Numbering, Numbered
<1>2. TypeOK /\ Numbering /\ [Next]_vars => Numbering'
  BY StepNumbering
<1>3. TypeOK /\ Numbering => RowsAreNumberedApart
  <2> SUFFICES ASSUME TypeOK, Numbering,
                      NEW j \in RecordedRows, NEW k \in RecordedRows, j < k
               PROVE  run.entries[j].seq < run.entries[k].seq
    BY DEF RowsAreNumberedApart
  <2>1. run.entries \in Seq(Entry) /\ j \in DOMAIN run.entries /\ k \in DOMAIN run.entries
    BY DEF RecordedRows, TypeOK
  <2>2. j \in Nat /\ k \in Nat
    BY <2>1, LenProperties
  <2>3. run.entries[j].seq = j - 1 /\ run.entries[k].seq = k - 1
    BY <2>1 DEF Numbering, Numbered
  <2> QED
    BY <2>2, <2>3
<1> QED
  BY <1>1, <1>2, <1>3, RunTypes, PTL DEF Spec

----------------------------------------------------------------------------
(* The account.                                                            *)

(* No step takes anything back from the meter. *)
LEMMA MeterGrows ==
  ASSUME TypeOK, [Next]_vars
  PROVE  calls' >= calls /\ bytes' >= bytes /\ pages' >= pages
<1>1. calls \in Nat /\ bytes \in Nat /\ pages \in Nat
  BY DEF TypeOK
<1>2. ASSUME UNCHANGED meter PROVE calls' >= calls /\ bytes' >= bytes /\ pages' >= pages
  BY <1>1, <1>2 DEF meter
<1>3. ASSUME NEW n \in Items, NEW s \in Services, Reserve(n, s)
      PROVE  calls' >= calls /\ bytes' >= bytes /\ pages' >= pages
  <2>1. n \in Nat
    BY RunAssumption DEF Items
  <2> QED
    BY <1>1, <1>3, <2>1 DEF Reserve, IssueBatch
<1>4. cursor <= size => item[cursor].bytes \in Nat /\ item[cursor].pages \in Nat
  <2>1. cursor <= size => cursor \in Items
    BY RunAssumption DEF TypeOK, Items
  <2> QED
    BY <2>1 DEF TypeOK, Item
<1>5. ASSUME CommitBytes PROVE calls' >= calls /\ bytes' >= bytes /\ pages' >= pages
  <2>1. cursor <= size /\ bytes' \in {bytes, bytes + item[cursor].bytes}
        /\ calls' = calls /\ pages' = pages
    BY <1>5, Zenon DEF CommitBytes, CommitFrame
  <2> QED
    BY <1>1, <1>4, <2>1
<1>6. ASSUME CommitPages PROVE calls' >= calls /\ bytes' >= bytes /\ pages' >= pages
  <2>1. cursor <= size /\ pages' \in {pages, pages + item[cursor].pages}
        /\ calls' = calls /\ bytes' = bytes
    BY <1>6, Zenon DEF CommitPages, CommitFrame
  <2> QED
    BY <1>1, <1>4, <2>1
<1>7. ASSUME CallerStep
      PROVE  UNCHANGED meter \/ \E n \in Items, s \in Services : Reserve(n, s)
  BY <1>7 DEF CallerStep, RefuseBatch, ReservationFails, IssueBatch, ScriptReturns,
              ScriptFails, EndScript, meter
<1>8. ASSUME NEW i \in Items, ItemStep(i) PROVE UNCHANGED meter
  BY <1>8 DEF ItemStep, SendFirst, FailUnsent, LastPage, NextPage, PageCap,
              CallFails, FanOutFrame
<1>9. ASSUME SettleStep PROVE UNCHANGED meter \/ CommitBytes \/ CommitPages
  BY <1>9 DEF SettleStep, GrantFails, GrantBatch, Collect, BytesCommitted,
              PagesCommitted, CommitFrame, Settle, meter
<1>10. ASSUME Begin \/ RefuseRun \/ RecordStep \/ Abandon \/ Tick \/ UNCHANGED vars
       PROVE  UNCHANGED meter
  BY <1>10 DEF Begin, RefuseRun, RecordStep, Record, RecordFails, Abandon, Tick,
               meter, vars
<1> QED
  BY <1>2, <1>3, <1>5, <1>6, <1>7, <1>8, <1>9, <1>10 DEF Next, Finished

(* A run that has ended does nothing any more. *)
LEMMA EndedRunStutters ==
  ASSUME TypeOK, [Next]_vars, pc \in Terminal
  PROVE  UNCHANGED vars
<1>1. ASSUME NEW i \in Items PROVE ~ItemStep(i)
  BY DEF ItemStep, SendFirst, FailUnsent, LastPage, NextPage, PageCap, CallFails,
         Arrives, Terminal
<1>2. ~CallerStep
  BY DEF CallerStep, RefuseBatch, ReservationFails, Reserve, IssueBatch, MayIssue,
         ScriptReturns, ScriptFails, EndScript, Terminal
<1>3. ~SettleStep
  BY DEF SettleStep, GrantFails, GrantBatch, Collect, CommitBytes, BytesCommitted,
         CommitPages, PagesCommitted, Settle, Terminal
<1>4. ~Begin /\ ~RefuseRun /\ ~RecordStep /\ ~Abandon /\ ~Tick
  BY DEF Begin, RefuseRun, RecordStep, Record, RecordFails, Abandon, Tick, Active, Terminal
<1> QED
  BY <1>1, <1>2, <1>3, <1>4 DEF Next, Finished

(* A step into an end state spends nothing. *)
LEMMA EndingSpendsNothing ==
  ASSUME TypeOK, [Next]_vars, pc \notin Terminal, pc' \in Terminal
  PROVE  UNCHANGED <<calls, bytes, pages, audit>>
<1>1. ASSUME NEW i \in Items, ItemStep(i) PROVE FALSE
  BY <1>1 DEF ItemStep, SendFirst, FailUnsent, LastPage, NextPage, PageCap,
              CallFails, FanOutFrame
<1>2. ASSUME NEW entries, Deliver(entries) PROVE FALSE
  BY <1>2 DEF Deliver, Terminal
<1>3. ~CallerStep
  BY <1>2 DEF CallerStep, RefuseBatch, ReservationFails, Reserve,
     ScriptReturns, ScriptFails, EndScript, DeliverNotAttempted, Terminal
<1>4. ~SettleStep
  BY <1>2 DEF SettleStep, GrantFails, GrantBatch, Collect, CommitBytes, BytesCommitted,
         CommitPages, PagesCommitted, Settle, DeliverNotAttempted, Terminal
<1>5. ~Begin /\ ~Tick /\ ~UNCHANGED vars
  BY DEF Begin, Tick, vars, Terminal
<1> QED
  BY <1>1, <1>3, <1>4, <1>5 DEF Next, RefuseRun, RecordStep, Record, RecordFails,
                                Abandon, Finished, meter

(* ToolRun implements RunLedger: its counters and its trail are an account *)
(* that only grows, stays within the ceilings and is closed for good.      *)
THEOREM AccountIsKept == Spec => KeepsLedger
<1>1. Init => Ledger!Init
  BY DEF Init, Ledger!Init, Terminal
<1>2. IInv /\ IInv' /\ [Next]_vars => [Ledger!Next]_<<Ledger!account, pc \in Terminal>>
  <2> SUFFICES ASSUME IInv, IInv', [Next]_vars
               PROVE  [Ledger!Next]_<<Ledger!account, pc \in Terminal>>
    OBVIOUS
  <2>1. CASE pc \in Terminal
    BY <2>1, EndedRunStutters DEF IInv, vars, Ledger!account
  <2>2. CASE pc \notin Terminal /\ pc' \in Terminal
    BY <2>2, EndingSpendsNothing DEF IInv, Ledger!Next, Ledger!Close, Ledger!account
  <2>3. CASE pc \notin Terminal /\ pc' \notin Terminal
    <3>1. calls' >= calls /\ bytes' >= bytes /\ pages' >= pages
      BY MeterGrows DEF IInv
    <3>2. /\ Ledger!Affordable(MaxCalls, calls')
          /\ Ledger!Affordable(MaxBytes, bytes')
          /\ Ledger!Affordable(MaxPages, pages')
      BY DEF IInv, WithinBudget, Within, Ledger!Affordable
    <3>3. Ledger!Extends(audit', audit)
      <4>1. Len(audit) \in Nat
        BY LenProperties DEF IInv, TypeOK
      <4>2. CASE UNCHANGED audit
        BY <4>1, <4>2 DEF Ledger!Extends
      <4>3. ASSUME NEW n \in Nat, NEW entries, Batch(n, entries), Deliver(entries)
            PROVE  Ledger!Extends(audit', audit)
        BY <4>1, <4>3, DeliverExtends DEF IInv, Ledger!Extends
      <4> QED
        BY <4>2, <4>3, TrailMovesByBatches DEF IInv
    <3> QED
      BY <2>3, <3>1, <3>2, <3>3 DEF Ledger!Next, Ledger!Spend
  <2> QED
    BY <2>1, <2>2, <2>3
<1> QED
  BY <1>1, <1>2, InductiveInvariant, PTL DEF Spec, KeepsLedger, Ledger!Spec

----------------------------------------------------------------------------
(* What the batch has cost: sums over its items in input order.            *)

(* The sums over the prefixes of a batch grow item by item. *)
LEMMA PrefixSums ==
  ASSUME TypeOK, NEW v \in [Items -> Nat]
  PROVE  /\ SumOver(v, OkUpTo(0)) = 0
         /\ \A k \in 0..MaxItems : SumOver(v, OkUpTo(k)) \in Nat
         /\ \A k \in 1..MaxItems :
              SumOver(v, OkUpTo(k)) = SumOver(v, OkUpTo(k - 1))
                                      + (IF item[k].state = "ok" THEN v[k] ELSE 0)
         /\ \A j, k \in 0..MaxItems :
              j <= k => SumOver(v, OkUpTo(j)) <= SumOver(v, OkUpTo(k))
<1>0. MaxItems \in Nat /\ Items = 1..MaxItems
  BY RunAssumption DEF Items
<1>1. ASSUME NEW k \in 0..MaxItems
      PROVE  IsFiniteSet(OkUpTo(k)) /\ OkUpTo(k) \subseteq Items
  <2>1. IsFiniteSet(1..k) /\ OkUpTo(k) \subseteq 1..k /\ 1..k \subseteq Items
    BY <1>0, FS_Interval DEF OkUpTo
  <2> QED
    BY <2>1, FS_Subset
<1>2. SumOver(v, OkUpTo(0)) = 0
  <2>1. OkUpTo(0) = {}
    BY DEF OkUpTo
  <2> QED
    BY <2>1, SumOfNothing
<1>3. ASSUME NEW k \in 0..MaxItems PROVE SumOver(v, OkUpTo(k)) \in Nat
  BY <1>1, SumIsNat
<1>4. ASSUME NEW k \in 1..MaxItems
      PROVE  SumOver(v, OkUpTo(k)) = SumOver(v, OkUpTo(k - 1))
                                     + (IF item[k].state = "ok" THEN v[k] ELSE 0)
  <2> DEFINE low == OkUpTo(k - 1)
  <2>1. k - 1 \in 0..MaxItems /\ k \in Items /\ v[k] \in Nat
    BY <1>0
  <2>2. k \notin low /\ IsFiniteSet(low) /\ low \subseteq Items
    BY <1>0, <1>1, <2>1 DEF OkUpTo
  <2>3. SumOver(v, low) \in Nat
    BY <1>3, <2>1
  <2>4. CASE item[k].state = "ok"
    <3>1. OkUpTo(k) = low \cup {k}
      BY <1>0, <2>4 DEF OkUpTo
    <3>2. \A x \in low : v[x] \in Nat
      BY <2>2
    <3> HIDE DEF low
    <3>3. ASSUME NEW e, e \notin low, v[e] \in Nat
          PROVE  SumOver(v, low \cup {e}) = SumOver(v, low) + v[e]
      BY <2>2, <3>2, <3>3, SumAdds
    <3> QED
      BY <2>1, <2>2, <2>4, <3>1, <3>3 DEF low
  <2>5. CASE item[k].state # "ok"
    <3>1. OkUpTo(k) = low
      BY <1>0, <2>5 DEF OkUpTo
    <3> HIDE DEF low
    <3>2. SumOver(v, OkUpTo(k)) = SumOver(v, low) + 0
      BY <3>1, <2>3
    <3> QED
      BY <3>2, <2>5 DEF low
  <2> QED
    BY <2>4, <2>5
<1>5. ASSUME NEW j \in 0..MaxItems, NEW k \in 0..MaxItems, j <= k
      PROVE  SumOver(v, OkUpTo(j)) <= SumOver(v, OkUpTo(k))
  <2>1. OkUpTo(j) \subseteq OkUpTo(k)
    BY <1>5 DEF OkUpTo
  <2>2. \A i \in OkUpTo(k) : v[i] \in Nat
    BY <1>1
  <2> QED
    BY <1>1, <2>1, <2>2, SumsGrow
<1> QED
  BY <1>2, <1>3, <1>4, <1>5

(* The same of the bytes of the items. *)
LEMMA PrefixBytes ==
  ASSUME TypeOK
  PROVE  /\ BytesUpTo(0) = 0
         /\ \A k \in 0..MaxItems : BytesUpTo(k) \in Nat
         /\ \A k \in 1..MaxItems :
              BytesUpTo(k) = BytesUpTo(k - 1)
                             + (IF item[k].state = "ok" THEN item[k].bytes ELSE 0)
         /\ \A j, k \in 0..MaxItems : j <= k => BytesUpTo(j) <= BytesUpTo(k)
<1> DEFINE v == [i \in Items |-> item[i].bytes]
<1>0. MaxItems \in Nat /\ Items = 1..MaxItems
  BY RunAssumption DEF Items
<1>1. v \in [Items -> Nat]
  BY DEF TypeOK, Item
<1>2. ASSUME NEW k \in 0..MaxItems PROVE BytesUpTo(k) = SumOver(v, OkUpTo(k))
  <2>1. IsFiniteSet(1..k) /\ OkUpTo(k) \subseteq 1..k /\ OkUpTo(k) \subseteq Items
    BY <1>0, FS_Interval DEF OkUpTo
  <2>2. IsFiniteSet(OkUpTo(k))
    BY <2>1, FS_Subset
  <2>3. \A i \in OkUpTo(k) : [j \in OkUpTo(k) |-> item[j].bytes][i] = v[i]
    BY <2>1
  <2> HIDE DEF v
  <2> QED
    BY <2>2, <2>3, SumsAgree DEF BytesUpTo
<1>3. \A k \in 1..MaxItems : v[k] = item[k].bytes
  BY <1>0
<1>4. 0 \in 0..MaxItems /\ \A k \in 1..MaxItems : k \in 0..MaxItems /\ k - 1 \in 0..MaxItems
  BY <1>0
<1> HIDE DEF v
<1>5. BytesUpTo(0) = 0 /\ \A k \in 0..MaxItems : BytesUpTo(k) \in Nat
  BY <1>1, <1>2, <1>4, PrefixSums
<1>6. ASSUME NEW k \in 1..MaxItems
      PROVE  BytesUpTo(k) = BytesUpTo(k - 1)
                            + (IF item[k].state = "ok" THEN item[k].bytes ELSE 0)
  <2>1. SumOver(v, OkUpTo(k)) = SumOver(v, OkUpTo(k - 1))
                                + (IF item[k].state = "ok" THEN v[k] ELSE 0)
    BY <1>1, PrefixSums
  <2> QED
    BY <1>2, <1>3, <1>4, <2>1
<1>7. ASSUME NEW j \in 0..MaxItems, NEW k \in 0..MaxItems, j <= k
      PROVE  BytesUpTo(j) <= BytesUpTo(k)
  BY <1>1, <1>2, <1>7, PrefixSums
<1> QED
  BY <1>5, <1>6, <1>7

(* The same of the pages. *)
LEMMA PrefixPages ==
  ASSUME TypeOK
  PROVE  /\ PagesUpTo(0) = 0
         /\ \A k \in 0..MaxItems : PagesUpTo(k) \in Nat
         /\ \A k \in 1..MaxItems :
              PagesUpTo(k) = PagesUpTo(k - 1)
                             + (IF item[k].state = "ok" THEN item[k].pages ELSE 0)
         /\ \A j, k \in 0..MaxItems : j <= k => PagesUpTo(j) <= PagesUpTo(k)
<1> DEFINE v == [i \in Items |-> item[i].pages]
<1>0. MaxItems \in Nat /\ Items = 1..MaxItems
  BY RunAssumption DEF Items
<1>1. v \in [Items -> Nat]
  BY DEF TypeOK, Item
<1>2. ASSUME NEW k \in 0..MaxItems PROVE PagesUpTo(k) = SumOver(v, OkUpTo(k))
  <2>1. IsFiniteSet(1..k) /\ OkUpTo(k) \subseteq 1..k /\ OkUpTo(k) \subseteq Items
    BY <1>0, FS_Interval DEF OkUpTo
  <2>2. IsFiniteSet(OkUpTo(k))
    BY <2>1, FS_Subset
  <2>3. \A i \in OkUpTo(k) : [j \in OkUpTo(k) |-> item[j].pages][i] = v[i]
    BY <2>1
  <2> HIDE DEF v
  <2> QED
    BY <2>2, <2>3, SumsAgree DEF PagesUpTo
<1>3. \A k \in 1..MaxItems : v[k] = item[k].pages
  BY <1>0
<1>4. 0 \in 0..MaxItems /\ \A k \in 1..MaxItems : k \in 0..MaxItems /\ k - 1 \in 0..MaxItems
  BY <1>0
<1> HIDE DEF v
<1>5. PagesUpTo(0) = 0 /\ \A k \in 0..MaxItems : PagesUpTo(k) \in Nat
  BY <1>1, <1>2, <1>4, PrefixSums
<1>6. ASSUME NEW k \in 1..MaxItems
      PROVE  PagesUpTo(k) = PagesUpTo(k - 1)
                            + (IF item[k].state = "ok" THEN item[k].pages ELSE 0)
  <2>1. SumOver(v, OkUpTo(k)) = SumOver(v, OkUpTo(k - 1))
                                + (IF item[k].state = "ok" THEN v[k] ELSE 0)
    BY <1>1, PrefixSums
  <2> QED
    BY <1>2, <1>3, <1>4, <2>1
<1>7. ASSUME NEW j \in 0..MaxItems, NEW k \in 0..MaxItems, j <= k
      PROVE  PagesUpTo(j) <= PagesUpTo(k)
  BY <1>1, <1>2, <1>7, PrefixSums
<1> QED
  BY <1>5, <1>6, <1>7

(* The phases in which the meter holds a batch's reservation. *)
InBatch == {"grant", "fanout", "bytes", "pages", "settle"}

(* What the in-order commits of the current batch have charged so far. *)
ChargedBytes ==
  CASE pc = "bytes" -> BytesUpTo(cursor - 1)
    [] pc \in {"pages", "settle"} ->
         IF trip.bytes = 0 THEN BytesUpTo(size) ELSE BytesUpTo(trip.bytes - 1)
    [] OTHER -> 0
ChargedPages ==
  CASE pc = "pages" -> PagesUpTo(cursor - 1)
    [] pc = "settle" ->
         IF trip.pages = 0 THEN PagesUpTo(size) ELSE PagesUpTo(trip.pages - 1)
    [] OTHER -> 0

(* The grant is what was left before the batch: what is left now, and what *)
(* the batch has been charged.                                             *)
GrantFollowsMeter ==
  pc \in InBatch \ {"grant"} =>
    /\ grant # NoGrant
    /\ grant.bytes = Left(MaxBytes, bytes - ChargedBytes)
    /\ grant.left = Left(MaxPages, pages - ChargedPages)

(* A commit trips at the first index whose prefix the grant does not cover. *)
BytesTripIsFirst ==
  IF trip.bytes = 0 THEN Within(grant.bytes, BytesUpTo(size))
  ELSE /\ trip.bytes <= size
       /\ Within(grant.bytes, BytesUpTo(trip.bytes - 1))
       /\ ~Within(grant.bytes, BytesUpTo(trip.bytes))
PagesTripIsFirst ==
  IF trip.pages = 0 THEN Within(grant.left, PagesUpTo(size))
  ELSE /\ trip.pages <= size
       /\ Within(grant.left, PagesUpTo(trip.pages - 1))
       /\ ~Within(grant.left, PagesUpTo(trip.pages))

CommitShape ==
  /\ pc \in {"start", "grant"} => grant = NoGrant
  /\ pc \in {"grant", "fanout"} => cursor = 1
  /\ pc \in {"bytes", "pages"} => cursor <= size + 1
  /\ pc \in {"grant", "fanout", "bytes"} => trip.bytes = 0
  /\ pc \in {"grant", "fanout", "bytes", "pages"} => trip.pages = 0
  /\ pc \in {"bytes", "pages", "settle"} => AllFilled
  /\ pc \in {"pages", "settle"} => BytesTripIsFirst
  /\ pc = "settle" => PagesTripIsFirst

CommitInv == GrantFollowsMeter /\ CommitShape

(* What a batch has been charged is a number. *)
LEMMA ChargesAreNat ==
  ASSUME TypeOK
  PROVE  ChargedBytes \in Nat /\ ChargedPages \in Nat
<1>1. /\ size \in 0..MaxItems /\ cursor - 1 \in 0..MaxItems
      /\ trip.bytes \in 0..MaxItems /\ trip.pages \in 0..MaxItems
      /\ trip.bytes # 0 => trip.bytes - 1 \in 0..MaxItems
      /\ trip.pages # 0 => trip.pages - 1 \in 0..MaxItems
  BY RunAssumption DEF TypeOK
<1> QED
  BY <1>1, PrefixBytes, PrefixPages DEF ChargedBytes, ChargedPages

(* Nothing is charged before the first batch. *)
LEMMA InitCommit == Init => CommitInv
BY DEF Init, CommitInv, GrantFollowsMeter, CommitShape, InBatch

(* A step that leaves the batch, the meter and the phase alone. *)
LEMMA QuietCommit ==
  ASSUME CommitInv, UNCHANGED <<meter, batch>>,
         pc' = pc \/ pc' \in {"caller", "refused", "record", "done", "unrecorded", "abandoned"}
  PROVE  CommitInv'
<1>1. CASE pc' = pc
  <2>1. ChargedBytes' = ChargedBytes /\ ChargedPages' = ChargedPages
    BY <1>1 DEF meter, batch, ChargedBytes, ChargedPages, BytesUpTo, PagesUpTo, OkUpTo
  <2>2. (BytesTripIsFirst <=> BytesTripIsFirst') /\ (PagesTripIsFirst <=> PagesTripIsFirst')
    BY <1>1 DEF batch, BytesTripIsFirst, PagesTripIsFirst, BytesUpTo, PagesUpTo, OkUpTo
  <2>3. GrantFollowsMeter'
    BY <1>1, <2>1 DEF CommitInv, GrantFollowsMeter, meter, batch
  <2>4. CommitShape'
    BY <1>1, <2>2 DEF CommitInv, CommitShape, AllFilled, batch
  <2> QED
    BY <2>3, <2>4 DEF CommitInv
<1>2. CASE pc' \in {"caller", "refused", "record", "done", "unrecorded", "abandoned"}
  BY <1>2 DEF CommitInv, GrantFollowsMeter, CommitShape, InBatch
<1> QED
  BY <1>1, <1>2

(* The batch is reserved, granted and fanned out. *)
LEMMA OpeningCommit ==
  ASSUME TypeOK, WithinBudget, CommitInv,
         \/ \E n \in Items, s \in Services : Reserve(n, s)
         \/ GrantBatch
         \/ \E i \in Items : ItemStep(i)
         \/ Collect
  PROVE  CommitInv'
<1>1. ASSUME NEW n \in Items, NEW s \in Services, Reserve(n, s) PROVE CommitInv'
  BY <1>1 DEF Reserve, IssueBatch, CommitInv, GrantFollowsMeter, CommitShape,
              InBatch, NoTrip
<1>2. ASSUME GrantBatch PROVE CommitInv'
  <2>1. pc' = "fanout" /\ cursor' = 1 /\ UNCHANGED <<meter, trip>> /\ grant' = CallBudget
    BY <1>2 DEF GrantBatch, CommitInv, CommitShape
  <2>2. CallBudget # NoGrant
    <3>1. CallBudget.time # 0
      BY <1>2, RunAssumption DEF GrantBatch, CallBudget, DeadlinePassed, TypeOK, Limit
    <3> QED
      BY <3>1 DEF NoGrant
  <2>3. ChargedBytes' = 0 /\ ChargedPages' = 0
    BY <2>1 DEF ChargedBytes, ChargedPages
  <2>4. CallBudget.bytes = Left(MaxBytes, bytes) /\ CallBudget.left = Left(MaxPages, pages)
    BY DEF CallBudget
  <2>5. bytes' - ChargedBytes' = bytes /\ pages' - ChargedPages' = pages
    BY <2>1, <2>3 DEF meter, TypeOK
  <2>6. GrantFollowsMeter'
    BY <2>1, <2>2, <2>4, <2>5 DEF GrantFollowsMeter
  <2>7. CommitShape'
    BY <1>2, <2>1 DEF GrantBatch, CommitInv, CommitShape
  <2> QED
    BY <2>6, <2>7 DEF CommitInv
<1>3. ASSUME NEW i \in Items, ItemStep(i) PROVE CommitInv'
  <2>1. pc = "fanout" /\ pc' = pc /\ UNCHANGED <<meter, size, grant, cursor, trip>>
    BY <1>3 DEF ItemStep, SendFirst, FailUnsent, LastPage, NextPage, PageCap,
                Arrives, CallFails, FanOutFrame
  <2>2. ChargedBytes' = ChargedBytes /\ ChargedPages' = ChargedPages
    BY <2>1 DEF ChargedBytes, ChargedPages
  <2> QED
    BY <2>1, <2>2 DEF CommitInv, GrantFollowsMeter, CommitShape, meter
<1>4. ASSUME Collect PROVE CommitInv'
  <2>1. /\ pc = "fanout" /\ pc' = "bytes" /\ AllFilled /\ UNCHANGED <<meter, batch>>
        /\ cursor = 1 /\ trip.bytes = 0 /\ trip.pages = 0
    BY <1>4 DEF Collect, CommitInv, CommitShape
  <2>2. ChargedBytes = 0 /\ ChargedPages = 0
    BY <2>1 DEF ChargedBytes, ChargedPages
  <2>3. ChargedBytes' = BytesUpTo(0) /\ ChargedPages' = 0
    BY <2>1 DEF ChargedBytes, ChargedPages, BytesUpTo, OkUpTo, batch
  <2>4. ChargedBytes' = 0
    BY <2>3, PrefixBytes
  <2>5. GrantFollowsMeter'
    BY <2>1, <2>2, <2>3, <2>4 DEF CommitInv, GrantFollowsMeter, InBatch, meter, batch
  <2>6. CommitShape'
    BY <2>1 DEF CommitShape, batch, AllFilled, TypeOK
  <2> QED
    BY <2>5, <2>6 DEF CommitInv
<1> QED
  BY <1>1, <1>2, <1>3, <1>4

(* An overflow is what the sum of the prefix says: with `limit` of the axis, *)
(* `used` on the meter, `sum` charged to the batch and `more` to come.       *)
LEMMA GrantAndMeterAgree ==
  ASSUME NEW limit \in Limit, NEW used \in Nat, Within(limit, used),
         NEW sum \in Nat, NEW more \in Nat
  PROVE  Within(Left(limit, used - sum), sum + more) <=> Within(limit, used + more)
<1>1. CASE limit = NoLimit
  BY <1>1 DEF Left, Within
<1>2. CASE limit # NoLimit
  <2>1. limit \in Nat /\ used <= limit
    BY <1>2 DEF Limit, Within
  <2>2. limit - (used - sum) \in Nat
    BY <2>1
  <2>3. limit - (used - sum) # NoLimit
    BY <2>2, RunAssumption
  <2>4. sum + more <= limit - (used - sum) <=> used + more <= limit
    BY <2>1
  <2> QED
    BY <1>2, <2>3, <2>4 DEF Left, Within
<1> QED
  BY <1>1, <1>2

(* Charging the meter and the batch alike leaves their difference alone. *)
LEMMA LeftMovesAlong ==
  ASSUME NEW limit, NEW used \in Nat, NEW sum \in Nat, NEW more \in Nat
  PROVE  Left(limit, (used + more) - (sum + more)) = Left(limit, used - sum)
<1>1. (used + more) - (sum + more) = used - sum
  OBVIOUS
<1> QED
  BY <1>1

(* One iteration of commit_bytes_in_order: it charges the item, or trips on it. *)
LEMMA CommitBytesKeeps ==
  ASSUME TypeOK, WithinBudget, CommitInv, CommitBytes
  PROVE  CommitInv'
<1> DEFINE more == IF item[cursor].state = "ok" THEN item[cursor].bytes ELSE 0
           sum == BytesUpTo(cursor - 1)
<1>1. /\ cursor \in Items /\ cursor \in 1..MaxItems /\ cursor - 1 \in 0..MaxItems
      /\ cursor \in 0..MaxItems /\ size \in Nat /\ cursor <= size /\ cursor \in Nat
      /\ bytes \in Nat /\ pages \in Nat /\ MaxBytes \in Limit /\ Within(MaxBytes, bytes)
  <2>1. /\ cursor \in 1..(MaxItems + 1) /\ size \in 0..MaxItems /\ cursor <= size
        /\ MaxItems \in Nat
    BY RunAssumption DEF CommitBytes, TypeOK
  <2>2. bytes \in Nat /\ pages \in Nat /\ MaxBytes \in Limit /\ Within(MaxBytes, bytes)
    BY RunAssumption DEF TypeOK, WithinBudget
  <2> QED
    BY <2>1, <2>2 DEF Items
<1>2. more \in Nat /\ sum \in Nat /\ BytesUpTo(cursor) = sum + more
  <2>1. item[cursor].bytes \in Nat
    BY <1>1 DEF TypeOK, Item
  <2> QED
    BY <1>1, <2>1, PrefixBytes
<1>3. /\ pc = "bytes" /\ trip.bytes = 0 /\ trip.pages = 0 /\ grant # NoGrant
      /\ grant.bytes = Left(MaxBytes, bytes - sum)
      /\ grant.left = Left(MaxPages, pages - 0) /\ AllFilled
  BY DEF CommitBytes, CommitInv, CommitShape, GrantFollowsMeter, InBatch,
         ChargedBytes, ChargedPages
<1>4. /\ UNCHANGED <<size, item, grant, pages>>
  BY DEF CommitBytes, CommitFrame
<1>5. Within(grant.bytes, sum) /\ (Within(grant.bytes, sum + more) <=> Within(MaxBytes, bytes + more))
  <2>1. /\ MaxBytes \in Limit /\ Within(MaxBytes, bytes) /\ bytes \in Nat
        /\ sum \in Nat /\ more \in Nat /\ 0 \in Nat
    BY <1>1, <1>2
  <2>2. grant.bytes = Left(MaxBytes, bytes - sum)
    BY <1>3
  <2> HIDE DEF sum, more
  <2>3. Within(Left(MaxBytes, bytes - sum), sum + more) <=> Within(MaxBytes, bytes + more)
    BY <2>1, GrantAndMeterAgree
  <2>4. Within(Left(MaxBytes, bytes - sum), sum + 0) <=> Within(MaxBytes, bytes + 0)
    BY <2>1, GrantAndMeterAgree
  <2>5. sum + 0 = sum /\ bytes + 0 = bytes
    BY <2>1
  <2> QED
    BY <2>1, <2>2, <2>3, <2>4, <2>5
<1>6. OverBytes <=> ~Within(grant.bytes, BytesUpTo(cursor))
  <2>1. Within(grant.bytes, sum + more) <=> Within(MaxBytes, bytes + more)
    BY <1>5
  <2>2. CASE item[cursor].state = "ok"
    <3>1. more = item[cursor].bytes
      BY <2>2
    <3> QED
      BY <2>1, <2>2, <3>1, <1>2 DEF OverBytes, Charged
  <2>3. CASE item[cursor].state # "ok"
    <3>1. ~OverBytes /\ sum + more = sum
      BY <2>3, <1>2 DEF OverBytes, Charged
    <3> QED
      BY <1>2, <1>5, <3>1
  <2> QED
    BY <2>2, <2>3
<1>7. CASE OverBytes
  <2>1. /\ pc' = "pages" /\ cursor' = 1 /\ bytes' = bytes
        /\ trip'.bytes = cursor /\ trip'.pages = 0
    BY <1>7, <1>3 DEF CommitBytes, TypeOK
  <2>2. ChargedBytes' = sum
    BY <1>1, <1>4, <2>1 DEF ChargedBytes, BytesUpTo, OkUpTo
  <2>3. ChargedPages' = 0
    <3>1. ChargedPages' = PagesUpTo(0)
      BY <1>4, <2>1 DEF ChargedPages, PagesUpTo, OkUpTo
    <3> QED
      BY <3>1, PrefixPages
  <2>4. GrantFollowsMeter'
    BY <1>3, <1>4, <2>1, <2>2, <2>3 DEF GrantFollowsMeter
  <2>5. BytesTripIsFirst'
    <3>1. (BytesUpTo(trip.bytes))' = BytesUpTo(cursor)
      BY <1>4, <2>1 DEF BytesUpTo, OkUpTo
    <3>2. (BytesUpTo(trip.bytes - 1))' = BytesUpTo(cursor - 1)
      BY <1>4, <2>1 DEF BytesUpTo, OkUpTo
    <3>3. trip'.bytes # 0 /\ trip'.bytes <= size' /\ grant' = grant
      BY <1>1, <1>4, <2>1
    <3> QED
      BY <1>5, <1>6, <1>7, <3>1, <3>2, <3>3 DEF BytesTripIsFirst
  <2>6. AllFilled'
    BY <1>3, <1>4 DEF AllFilled
  <2> QED
    BY <1>1, <1>4, <2>1, <2>4, <2>5, <2>6 DEF CommitInv, CommitShape
<1>8. CASE ~OverBytes
  <2>1. /\ pc' = "bytes" /\ cursor' = cursor + 1 /\ bytes' = bytes + more /\ trip' = trip
    BY <1>1, <1>8, <1>3 DEF CommitBytes, Charged
  <2>2. ChargedBytes' = BytesUpTo(cursor) /\ ChargedPages' = 0
    <3>1. cursor' - 1 = cursor
      BY <1>1, <2>1
    <3> QED
      BY <1>4, <2>1, <3>1 DEF ChargedBytes, ChargedPages, BytesUpTo, OkUpTo
  <2>3. Left(MaxBytes, (bytes + more) - (sum + more)) = Left(MaxBytes, bytes - sum)
    BY <1>1, <1>2, LeftMovesAlong
  <2> HIDE DEF more, sum
  <2>4. GrantFollowsMeter'
    BY <1>2, <1>3, <1>4, <2>1, <2>2, <2>3 DEF GrantFollowsMeter
  <2>5. AllFilled'
    BY <1>3, <1>4 DEF AllFilled
  <2> QED
    BY <1>1, <1>3, <1>4, <2>1, <2>4, <2>5 DEF CommitInv, CommitShape
<1> QED
  BY <1>7, <1>8

(* commit_bytes_in_order reaches the end of the batch without a trip. *)
LEMMA BytesCommittedKeeps ==
  ASSUME TypeOK, WithinBudget, CommitInv, BytesCommitted
  PROVE  CommitInv'
<1>1. /\ size \in Nat /\ size \in 0..MaxItems /\ cursor = size + 1 /\ cursor - 1 = size
      /\ bytes \in Nat /\ MaxBytes \in Limit /\ Within(MaxBytes, bytes)
  <2>1. /\ cursor \in 1..(MaxItems + 1) /\ size \in 0..MaxItems /\ MaxItems \in Nat
        /\ cursor > size /\ cursor <= size + 1
    BY RunAssumption DEF BytesCommitted, TypeOK, CommitInv, CommitShape
  <2>2. bytes \in Nat /\ MaxBytes \in Limit /\ Within(MaxBytes, bytes)
    BY RunAssumption DEF TypeOK, WithinBudget
  <2> QED
    BY <2>1, <2>2
<1>2. /\ pc = "bytes" /\ trip.bytes = 0 /\ trip.pages = 0 /\ grant # NoGrant
      /\ grant.bytes = Left(MaxBytes, bytes - BytesUpTo(size))
      /\ grant.left = Left(MaxPages, pages - 0) /\ AllFilled
  BY <1>1 DEF BytesCommitted, CommitInv, CommitShape, GrantFollowsMeter, InBatch,
         ChargedBytes, ChargedPages
<1>3. /\ pc' = "pages" /\ cursor' = 1 /\ UNCHANGED <<bytes, pages, trip, size, item, grant>>
  BY DEF BytesCommitted, CommitFrame
<1>4. ChargedBytes' = BytesUpTo(size)
  BY <1>2, <1>3 DEF ChargedBytes, BytesUpTo, OkUpTo
<1>5. ChargedPages' = 0
  <2>1. ChargedPages' = PagesUpTo(0)
    BY <1>3 DEF ChargedPages, PagesUpTo, OkUpTo
  <2> QED
    BY <2>1, PrefixPages
<1>6. GrantFollowsMeter'
  BY <1>2, <1>3, <1>4, <1>5 DEF GrantFollowsMeter
<1>7. Within(grant.bytes, BytesUpTo(size))
  <2>1. BytesUpTo(size) \in Nat
    BY <1>1, PrefixBytes
  <2>2. MaxBytes \in Limit /\ bytes \in Nat /\ Within(MaxBytes, bytes) /\ 0 \in Nat
    BY <1>1
  <2>3. Within(Left(MaxBytes, bytes - BytesUpTo(size)), BytesUpTo(size) + 0)
          <=> Within(MaxBytes, bytes + 0)
    BY ONLY <2>1, <2>2, GrantAndMeterAgree
  <2>4. BytesUpTo(size) + 0 = BytesUpTo(size) /\ bytes + 0 = bytes
    BY ONLY <2>1, <2>2
  <2>5. grant.bytes = Left(MaxBytes, bytes - BytesUpTo(size))
    BY <1>2
  <2> QED
    BY ONLY <2>2, <2>3, <2>4, <2>5
<1>8. BytesTripIsFirst'
  <2>1. trip'.bytes = 0
    BY <1>2, <1>3
  <2>2. (Within(grant.bytes, BytesUpTo(size)))'
    BY <1>3, <1>7 DEF BytesUpTo, OkUpTo
  <2> QED
    BY <2>1, <2>2 DEF BytesTripIsFirst
<1>9. AllFilled'
  BY <1>2, <1>3 DEF AllFilled
<1> QED
  BY <1>1, <1>2, <1>3, <1>6, <1>8, <1>9 DEF CommitInv, CommitShape

(* One iteration of commit_pages_in_order. *)
LEMMA CommitPagesKeeps ==
  ASSUME TypeOK, WithinBudget, CommitInv, CommitPages
  PROVE  CommitInv'
<1> DEFINE more == IF item[cursor].state = "ok" THEN item[cursor].pages ELSE 0
           sum == PagesUpTo(cursor - 1)
<1>1. /\ cursor \in Items /\ cursor \in 1..MaxItems /\ cursor - 1 \in 0..MaxItems
      /\ cursor \in 0..MaxItems /\ size \in Nat /\ cursor <= size /\ cursor \in Nat
      /\ pages \in Nat /\ bytes \in Nat /\ MaxPages \in Limit /\ Within(MaxPages, pages)
  <2>1. /\ cursor \in 1..(MaxItems + 1) /\ size \in 0..MaxItems /\ cursor <= size
        /\ MaxItems \in Nat
    BY RunAssumption DEF CommitPages, TypeOK
  <2>2. bytes \in Nat /\ pages \in Nat /\ MaxPages \in Limit /\ Within(MaxPages, pages)
    BY RunAssumption DEF TypeOK, WithinBudget
  <2> QED
    BY <2>1, <2>2 DEF Items
<1>2. more \in Nat /\ sum \in Nat /\ PagesUpTo(cursor) = sum + more
  <2>1. item[cursor].pages \in Nat
    BY <1>1 DEF TypeOK, Item
  <2> QED
    BY <1>1, <2>1, PrefixPages
<1>3. /\ pc = "pages" /\ trip.pages = 0 /\ grant # NoGrant
      /\ grant.bytes = Left(MaxBytes, bytes - ChargedBytes)
      /\ grant.left = Left(MaxPages, pages - sum) /\ AllFilled /\ BytesTripIsFirst
  BY DEF CommitPages, CommitInv, CommitShape, GrantFollowsMeter, InBatch,
         ChargedPages
<1>4. /\ UNCHANGED <<size, item, grant, bytes>>
  BY DEF CommitPages, CommitFrame
<1>5. Within(grant.left, sum) /\ (Within(grant.left, sum + more) <=> Within(MaxPages, pages + more))
  <2>1. /\ MaxPages \in Limit /\ Within(MaxPages, pages) /\ pages \in Nat
        /\ sum \in Nat /\ more \in Nat /\ 0 \in Nat
    BY <1>1, <1>2
  <2>2. grant.left = Left(MaxPages, pages - sum)
    BY <1>3
  <2> HIDE DEF sum, more
  <2>3. Within(Left(MaxPages, pages - sum), sum + more) <=> Within(MaxPages, pages + more)
    BY <2>1, GrantAndMeterAgree
  <2>4. Within(Left(MaxPages, pages - sum), sum + 0) <=> Within(MaxPages, pages + 0)
    BY <2>1, GrantAndMeterAgree
  <2>5. sum + 0 = sum /\ pages + 0 = pages
    BY <2>1
  <2> QED
    BY <2>1, <2>2, <2>3, <2>4, <2>5
<1>6. OverPages <=> ~Within(grant.left, PagesUpTo(cursor))
  <2>1. Within(grant.left, sum + more) <=> Within(MaxPages, pages + more)
    BY <1>5
  <2>2. CASE item[cursor].state = "ok"
    <3>1. more = item[cursor].pages
      BY <2>2
    <3> QED
      BY <2>1, <2>2, <3>1, <1>2 DEF OverPages, Charged
  <2>3. CASE item[cursor].state # "ok"
    <3>1. ~OverPages /\ sum + more = sum
      BY <2>3, <1>2 DEF OverPages, Charged
    <3> QED
      BY <1>2, <1>5, <3>1
  <2> QED
    BY <2>2, <2>3
<1>7. /\ pc' \in {"pages", "settle"} /\ trip'.bytes = trip.bytes
      /\ AllFilled' /\ BytesTripIsFirst' /\ ChargedBytes' = ChargedBytes
  <2>1. pc' \in {"pages", "settle"} /\ trip'.bytes = trip.bytes
    BY DEF CommitPages, TypeOK
  <2>2. BytesTripIsFirst' <=> BytesTripIsFirst
    BY <1>4, <2>1 DEF BytesTripIsFirst, BytesUpTo, OkUpTo
  <2>3. ChargedBytes' = ChargedBytes
    BY <1>3, <1>4, <2>1 DEF ChargedBytes, BytesUpTo, OkUpTo
  <2> QED
    BY <1>3, <1>4, <2>1, <2>2, <2>3 DEF AllFilled
<1>8. CASE OverPages
  <2>1. pc' = "settle" /\ cursor' = 1 /\ pages' = pages /\ trip'.pages = cursor
    BY <1>8, <1>3 DEF CommitPages, TypeOK
  <2>2. ChargedPages' = sum
    BY <1>1, <1>4, <2>1 DEF ChargedPages, PagesUpTo, OkUpTo
  <2>3. GrantFollowsMeter'
    BY <1>3, <1>4, <1>7, <2>1, <2>2 DEF GrantFollowsMeter
  <2>4. PagesTripIsFirst'
    <3>1. (PagesUpTo(trip.pages))' = PagesUpTo(cursor)
      BY <1>4, <2>1 DEF PagesUpTo, OkUpTo
    <3>2. (PagesUpTo(trip.pages - 1))' = PagesUpTo(cursor - 1)
      BY <1>4, <2>1 DEF PagesUpTo, OkUpTo
    <3>3. trip'.pages # 0 /\ trip'.pages <= size' /\ grant' = grant
      BY <1>1, <1>4, <2>1
    <3> QED
      BY <1>5, <1>6, <1>8, <3>1, <3>2, <3>3 DEF PagesTripIsFirst
  <2> QED
    BY <1>4, <1>7, <2>1, <2>3, <2>4 DEF CommitInv, CommitShape
<1>9. CASE ~OverPages
  <2>1. /\ pc' = "pages" /\ cursor' = cursor + 1 /\ pages' = pages + more /\ trip' = trip
    BY <1>1, <1>9, <1>3 DEF CommitPages, Charged
  <2>2. ChargedPages' = PagesUpTo(cursor)
    <3>1. cursor' - 1 = cursor
      BY <1>1, <2>1
    <3> QED
      BY <1>4, <2>1, <3>1 DEF ChargedPages, PagesUpTo, OkUpTo
  <2>3. Left(MaxPages, (pages + more) - (sum + more)) = Left(MaxPages, pages - sum)
    BY <1>1, <1>2, LeftMovesAlong
  <2> HIDE DEF more, sum
  <2>4. GrantFollowsMeter'
    BY <1>2, <1>3, <1>4, <1>7, <2>1, <2>2, <2>3 DEF GrantFollowsMeter
  <2> QED
    BY <1>1, <1>3, <1>4, <1>7, <2>1, <2>4 DEF CommitInv, CommitShape
<1> QED
  BY <1>8, <1>9

(* commit_pages_in_order reaches the end of the batch without a trip. *)
LEMMA PagesCommittedKeeps ==
  ASSUME TypeOK, WithinBudget, CommitInv, PagesCommitted
  PROVE  CommitInv'
<1>1. /\ size \in Nat /\ size \in 0..MaxItems /\ cursor = size + 1 /\ cursor - 1 = size
      /\ pages \in Nat /\ MaxPages \in Limit /\ Within(MaxPages, pages)
  <2>1. /\ cursor \in 1..(MaxItems + 1) /\ size \in 0..MaxItems /\ MaxItems \in Nat
        /\ cursor > size /\ cursor <= size + 1
    BY RunAssumption DEF PagesCommitted, TypeOK, CommitInv, CommitShape
  <2>2. pages \in Nat /\ MaxPages \in Limit /\ Within(MaxPages, pages)
    BY RunAssumption DEF TypeOK, WithinBudget
  <2> QED
    BY <2>1, <2>2
<1>2. /\ pc = "pages" /\ trip.pages = 0 /\ grant # NoGrant
      /\ grant.bytes = Left(MaxBytes, bytes - ChargedBytes)
      /\ grant.left = Left(MaxPages, pages - PagesUpTo(size)) /\ AllFilled /\ BytesTripIsFirst
  BY <1>1 DEF PagesCommitted, CommitInv, CommitShape, GrantFollowsMeter, InBatch,
         ChargedPages
<1>3. pc' = "settle" /\ UNCHANGED <<bytes, pages, trip, size, item, grant>>
  BY DEF PagesCommitted, CommitFrame
<1>4. ChargedPages' = PagesUpTo(size)
  BY <1>2, <1>3 DEF ChargedPages, PagesUpTo, OkUpTo
<1>5. ChargedBytes' = ChargedBytes
  BY <1>2, <1>3 DEF ChargedBytes, BytesUpTo, OkUpTo
<1>6. GrantFollowsMeter'
  BY <1>2, <1>3, <1>4, <1>5 DEF GrantFollowsMeter
<1>7. Within(grant.left, PagesUpTo(size))
  <2>1. PagesUpTo(size) \in Nat
    BY <1>1, PrefixPages
  <2>2. MaxPages \in Limit /\ pages \in Nat /\ Within(MaxPages, pages) /\ 0 \in Nat
    BY <1>1
  <2>3. Within(Left(MaxPages, pages - PagesUpTo(size)), PagesUpTo(size) + 0)
          <=> Within(MaxPages, pages + 0)
    BY ONLY <2>1, <2>2, GrantAndMeterAgree
  <2>4. PagesUpTo(size) + 0 = PagesUpTo(size) /\ pages + 0 = pages
    BY ONLY <2>1, <2>2
  <2>5. grant.left = Left(MaxPages, pages - PagesUpTo(size))
    BY <1>2
  <2> QED
    BY ONLY <2>2, <2>3, <2>4, <2>5
<1>8. PagesTripIsFirst'
  <2>1. trip'.pages = 0
    BY <1>2, <1>3
  <2>2. (Within(grant.left, PagesUpTo(size)))'
    BY <1>3, <1>7 DEF PagesUpTo, OkUpTo
  <2> QED
    BY <2>1, <2>2 DEF PagesTripIsFirst
<1>9. BytesTripIsFirst'
  BY <1>2, <1>3 DEF BytesTripIsFirst, BytesUpTo, OkUpTo
<1>10. AllFilled'
  BY <1>2, <1>3 DEF AllFilled
<1> QED
  BY <1>3, <1>6, <1>8, <1>9, <1>10 DEF CommitInv, CommitShape

(* Delivering a batch leaves the in-batch phases. *)
LEMMA StepCommit ==
  ASSUME TypeOK, WithinBudget, CommitInv, [Next]_vars
  PROVE  CommitInv'
<1> DEFINE Out == {"caller", "refused", "record", "done", "unrecorded", "abandoned"}
<1>1. ASSUME Begin \/ RefuseRun \/ RecordStep \/ Abandon \/ Tick \/ UNCHANGED vars
      PROVE  CommitInv'
  <2>1. UNCHANGED <<meter, batch>> /\ (pc' = pc \/ pc' \in Out)
    BY <1>1 DEF Begin, RefuseRun, RecordStep, Record, RecordFails, Abandon, Tick,
                vars, meter, batch
  <2> QED
    BY <2>1, QuietCommit
<1>2. ASSUME pc' \in {"caller", "record"} PROVE CommitInv'
  BY <1>2 DEF CommitInv, GrantFollowsMeter, CommitShape, InBatch
<1>3. ASSUME GrantFails \/ Settle PROVE CommitInv'
  <2>1. pc' \in {"caller", "record"}
    BY <1>3 DEF GrantFails, Settle, DeliverNotAttempted, Deliver
  <2> QED
    BY <2>1, <1>2
<1>4. ASSUME CallerStep PROVE CommitInv'
  <2>1. ASSUME NEW n \in Items, ReservationFails(n) PROVE pc' \in {"caller", "record"}
    BY <2>1 DEF ReservationFails, DeliverNotAttempted, Deliver
  <2>2. ASSUME NEW n \in Items, RefuseBatch(n) PROVE pc' = "caller"
    BY <2>2 DEF RefuseBatch, MayIssue
  <2>3. ASSUME ScriptReturns \/ ScriptFails PROVE pc' = "record"
    BY <2>3 DEF ScriptReturns, ScriptFails, EndScript
  <2> QED
    BY <1>2, <1>4, <2>1, <2>2, <2>3, OpeningCommit DEF CallerStep
<1>5. ASSUME NEW i \in Items, ItemStep(i) PROVE CommitInv'
  BY <1>5, OpeningCommit
<1>6. ASSUME SettleStep PROVE CommitInv'
  BY <1>3, <1>6, OpeningCommit, CommitBytesKeeps, BytesCommittedKeeps,
     CommitPagesKeeps, PagesCommittedKeeps DEF SettleStep
<1> QED
  BY <1>1, <1>4, <1>5, <1>6 DEF Next, Finished

----------------------------------------------------------------------------
(* Verdicts.                                                               *)

FitsBytes(k) == Within(grant.bytes, BytesUpTo(k))
FitsPages(k) == Within(grant.left, PagesUpTo(k))

(* The prefixes the grant covers are those that end before the trip. *)
LEMMA TripsSeparate ==
  ASSUME TypeOK, CommitInv, pc = "settle", NEW k \in 1..size
  PROVE  /\ FitsBytes(k) <=> trip.bytes = 0 \/ k < trip.bytes
         /\ FitsPages(k) <=> trip.pages = 0 \/ k < trip.pages
<1>1. /\ size \in 0..MaxItems /\ MaxItems \in Nat
      /\ trip.bytes \in 0..MaxItems /\ trip.pages \in 0..MaxItems
      /\ grant.bytes \in Limit /\ grant.left \in Limit
  BY RunAssumption DEF TypeOK, Grant
<1>2. BytesTripIsFirst /\ PagesTripIsFirst
  BY DEF CommitInv, CommitShape
<1>3. ASSUME NEW limit \in Limit, NEW a \in Nat, NEW b \in Nat, a <= b, Within(limit, b)
      PROVE  Within(limit, a)
  BY <1>3 DEF Limit, Within
<1>4. k \in 0..MaxItems /\ size \in 0..MaxItems /\ k <= size
  BY <1>1
<1>5. FitsBytes(k) <=> trip.bytes = 0 \/ k < trip.bytes
  <2>1. \A m \in 0..MaxItems : BytesUpTo(m) \in Nat
    BY PrefixBytes
  <2>2. \A j, m \in 0..MaxItems : j <= m => BytesUpTo(j) <= BytesUpTo(m)
    BY PrefixBytes
  <2>3. CASE trip.bytes = 0
    BY <1>1, <1>2, <1>3, <1>4, <2>1, <2>2, <2>3 DEF FitsBytes, BytesTripIsFirst
  <2>4. CASE trip.bytes # 0 /\ k < trip.bytes
    <3>1. trip.bytes - 1 \in 0..MaxItems /\ k <= trip.bytes - 1
      BY <1>1, <1>4, <2>4
    <3>2. Within(grant.bytes, BytesUpTo(trip.bytes - 1))
      BY <1>2, <2>4 DEF BytesTripIsFirst
    <3>3. BytesUpTo(k) <= BytesUpTo(trip.bytes - 1)
      BY <1>4, <2>2, <3>1
    <3> QED
      BY <1>1, <1>3, <1>4, <2>1, <2>4, <3>1, <3>2, <3>3 DEF FitsBytes
  <2>5. CASE trip.bytes # 0 /\ ~(k < trip.bytes)
    <3>1. trip.bytes <= k
      BY <1>1, <1>4, <2>5
    <3>2. ~Within(grant.bytes, BytesUpTo(trip.bytes))
      BY <1>2, <2>5 DEF BytesTripIsFirst
    <3>3. BytesUpTo(trip.bytes) <= BytesUpTo(k)
      BY <1>1, <1>4, <2>2, <3>1
    <3> QED
      BY <1>1, <1>3, <1>4, <2>1, <2>5, <3>2, <3>3 DEF FitsBytes
  <2> QED
    BY <2>3, <2>4, <2>5
<1>6. FitsPages(k) <=> trip.pages = 0 \/ k < trip.pages
  <2>1. \A m \in 0..MaxItems : PagesUpTo(m) \in Nat
    BY PrefixPages
  <2>2. \A j, m \in 0..MaxItems : j <= m => PagesUpTo(j) <= PagesUpTo(m)
    BY PrefixPages
  <2>3. CASE trip.pages = 0
    BY <1>1, <1>2, <1>3, <1>4, <2>1, <2>2, <2>3 DEF FitsPages, PagesTripIsFirst
  <2>4. CASE trip.pages # 0 /\ k < trip.pages
    <3>1. trip.pages - 1 \in 0..MaxItems /\ k <= trip.pages - 1
      BY <1>1, <1>4, <2>4
    <3>2. Within(grant.left, PagesUpTo(trip.pages - 1))
      BY <1>2, <2>4 DEF PagesTripIsFirst
    <3>3. PagesUpTo(k) <= PagesUpTo(trip.pages - 1)
      BY <1>4, <2>2, <3>1
    <3> QED
      BY <1>1, <1>3, <1>4, <2>1, <2>4, <3>1, <3>2, <3>3 DEF FitsPages
  <2>5. CASE trip.pages # 0 /\ ~(k < trip.pages)
    <3>1. trip.pages <= k
      BY <1>1, <1>4, <2>5
    <3>2. ~Within(grant.left, PagesUpTo(trip.pages))
      BY <1>2, <2>5 DEF PagesTripIsFirst
    <3>3. PagesUpTo(trip.pages) <= PagesUpTo(k)
      BY <1>1, <1>4, <2>2, <3>1
    <3> QED
      BY <1>1, <1>3, <1>4, <2>1, <2>5, <3>2, <3>3 DEF FitsPages
  <2> QED
    BY <2>3, <2>4, <2>5
<1> QED
  BY <1>5, <1>6

(* So an item is cut exactly when the grant does not cover its prefix, on  *)
(* the axis whose allowance the batch outgrew first.                       *)
LEMMA CutsAreTrips ==
  ASSUME TypeOK, CommitInv, pc = "settle", NEW i \in 1..size
  PROVE  /\ IsCut(i) <=> ~(FitsBytes(i) /\ FitsPages(i))
         /\ IsCut(i) =>
              (CutAxis = "bytes" <=>
                 \A k \in 1..i : ~FitsPages(k) => \E j \in 1..k : ~FitsBytes(j))
<1>1. /\ size \in Nat /\ trip.bytes \in Nat /\ trip.pages \in Nat /\ i \in Nat /\ i >= 1
  BY RunAssumption DEF TypeOK
<1>2. \A k \in 1..i : /\ FitsBytes(k) <=> trip.bytes = 0 \/ k < trip.bytes
                      /\ FitsPages(k) <=> trip.pages = 0 \/ k < trip.pages
  <2>1. \A k \in 1..i : k \in 1..size
    BY <1>1
  <2> QED
    BY <2>1, TripsSeparate
<1>3. IsCut(i) <=> ~(FitsBytes(i) /\ FitsPages(i))
  BY <1>1, <1>2 DEF IsCut, CutAt, CutAxis
<1>4. ASSUME IsCut(i), CutAxis = "bytes", NEW k \in 1..i, ~FitsPages(k)
      PROVE  \E j \in 1..k : ~FitsBytes(j)
  <2>1. trip.bytes # 0 /\ (trip.pages = 0 \/ trip.bytes <= trip.pages)
    BY <1>1, <1>4 DEF CutAxis
  <2>2. trip.pages # 0 /\ trip.pages <= k
    BY <1>1, <1>2, <1>4
  <2>3. trip.bytes \in 1..k /\ trip.bytes \in 1..i
    BY <1>1, <2>1, <2>2
  <2>4. ~FitsBytes(trip.bytes)
    BY <1>1, <1>2, <2>1, <2>3
  <2> QED
    BY <2>3, <2>4
<1>5. ASSUME IsCut(i), CutAxis # "bytes"
      PROVE  \E k \in 1..i : ~FitsPages(k) /\ \A j \in 1..k : FitsBytes(j)
  <2>1. /\ CutAt = trip.pages /\ trip.pages # 0 /\ trip.pages <= i
        /\ trip.bytes = 0 \/ trip.pages < trip.bytes
    BY <1>1, <1>5 DEF CutAxis, CutAt, IsCut
  <2>2. trip.pages \in 1..i
    BY <1>1, <2>1
  <2>3. ~FitsPages(trip.pages)
    BY <1>1, <1>2, <2>1, <2>2
  <2>4. ASSUME NEW j \in 1..trip.pages PROVE FitsBytes(j)
    <3>1. j \in 1..i /\ (trip.bytes = 0 \/ j < trip.bytes)
      BY <1>1, <2>1
    <3> QED
      BY <1>2, <3>1
  <2> QED
    BY <2>2, <2>3, <2>4
<1> QED
  BY <1>3, <1>4, <1>5

(* What Settle writes of an item that succeeded. *)
LEMMA VerdictOfAnItem ==
  ASSUME TypeOK, CommitInv, pc = "settle", NEW i \in 1..size, NEW seq
  PROVE  /\ Verdict(i, seq).kind = (IF item[i].state = "failed" THEN "failed"
                                    ELSE IF FitsBytes(i) /\ FitsPages(i) THEN "ok" ELSE "cut")
         /\ Verdict(i, seq).kind = "cut" => Verdict(i, seq).axis = CutAxis /\ IsCut(i)
         /\ Verdict(i, seq).bytes = item[i].bytes
         /\ Verdict(i, seq).pages = item[i].pages
<1>1. IsCut(i) <=> ~(FitsBytes(i) /\ FitsPages(i))
  BY CutsAreTrips
<1>2. CASE item[i].state = "failed"
  BY <1>2 DEF Verdict
<1>3. CASE item[i].state # "failed" /\ IsCut(i)
  BY <1>1, <1>3 DEF Verdict
<1>4. CASE item[i].state # "failed" /\ ~IsCut(i)
  BY <1>1, <1>4 DEF Verdict
<1> QED
  BY <1>2, <1>3, <1>4

(* The verdicts stay as Settle wrote them until the next batch starts. *)
LEMMA StepVerdicts ==
  ASSUME TypeOK, CommitInv, VerdictsFollowInputOrder, [Next]_vars
  PROVE  VerdictsFollowInputOrder'
<1> SUFFICES ASSUME BatchSettled' PROVE VerdictsFollowInputOrder'
  BY DEF VerdictsFollowInputOrder
<1>1. pc' \in {"caller", "record"} /\ grant' # NoGrant
  BY DEF BatchSettled
<1>2. CASE BatchSettled /\ UNCHANGED <<item, grant, audit, size>>
  <2>1. \A k : BytesUpTo(k)' = BytesUpTo(k) /\ PagesUpTo(k)' = PagesUpTo(k)
    BY <1>2 DEF BytesUpTo, PagesUpTo, OkUpTo
  <2>2. \A i : LastEntry(i)' = LastEntry(i)
    BY <1>2 DEF LastEntry
  <2> QED
    BY <1>2, <2>1, <2>2 DEF VerdictsFollowInputOrder
<1>3. CASE Settle
  <2> DEFINE entries == [i \in 1..size |-> Verdict(i, NextSeq(i))]
  <2>1. pc = "settle" /\ Deliver(entries) /\ UNCHANGED <<item, grant, size>>
    BY <1>3 DEF Settle, batch
  <2>2. size \in Nat /\ 1..size \subseteq Items /\ Len(audit) \in Nat
    BY RunAssumption, LenProperties DEF TypeOK, Items
  <2>3. Batch(size, entries)
    <3>1. \A i \in 1..size : NextSeq(i) \in Nat
      BY <2>2 DEF NextSeq
    <3>2. entries \in [1..size -> Entry]
      BY <2>2, <3>1, VerdictIsAnEntry DEF TypeOK
    <3>3. \A i \in 1..size : entries[i].seq = NextSeq(i)
      BY DEF Verdict
    <3> QED
      BY <3>2, <3>3 DEF Batch
  <2>4. /\ Len(audit') = Len(audit) + size
        /\ \A k \in 1..size : audit'[Len(audit) + k] = Verdict(k, NextSeq(k))
    <3> HIDE DEF entries
    <3>1. /\ Len(audit') = Len(audit) + size
          /\ \A k \in 1..size : audit'[Len(audit) + k] = entries[k]
      BY <2>1, <2>2, <2>3, DeliverExtends
    <3> QED
      BY <3>1 DEF entries
  <2>5. ASSUME NEW i \in 1..size, item[i].state = "ok"
        PROVE  LET e == audit'[Len(audit') - size + i] IN
               /\ e.kind = (IF FitsBytes(i) /\ FitsPages(i) THEN "ok" ELSE "cut")
               /\ e.kind = "cut" =>
                    (e.axis = "bytes" <=>
                       \A k \in 1..i : ~FitsPages(k) => \E j \in 1..k : ~FitsBytes(j))
    <3>1. Len(audit') - size + i = Len(audit) + i
      BY <2>2, <2>4
    <3> DEFINE v == Verdict(i, NextSeq(i))
    <3>2. audit'[Len(audit') - size + i] = v
      BY <2>4, <3>1
    <3>3. /\ v.kind = (IF FitsBytes(i) /\ FitsPages(i) THEN "ok" ELSE "cut")
          /\ v.kind = "cut" => v.axis = CutAxis /\ IsCut(i)
      BY <2>1, <2>5, VerdictOfAnItem
    <3>4. IsCut(i) =>
              (CutAxis = "bytes" <=>
                 \A k \in 1..i : ~FitsPages(k) => \E j \in 1..k : ~FitsBytes(j))
      BY <2>1, CutsAreTrips
    <3> HIDE DEF v
    <3> QED
      BY <3>2, <3>3, <3>4
  <2> HIDE DEF entries
  <2>6. \A k : BytesUpTo(k)' = BytesUpTo(k) /\ PagesUpTo(k)' = PagesUpTo(k)
    BY <2>1 DEF BytesUpTo, PagesUpTo, OkUpTo
  <2>7. \A k : /\ FitsBytes(k) <=> Within(grant'.bytes, BytesUpTo(k)')
               /\ FitsPages(k) <=> Within(grant'.left, PagesUpTo(k)')
    BY <2>1, <2>6 DEF FitsBytes, FitsPages
  <2> QED
    BY <2>1, <2>5, <2>7 DEF VerdictsFollowInputOrder, LastEntry
<1>4. ASSUME GrantFails PROVE FALSE
  BY <1>1, <1>4 DEF GrantFails, CommitInv, CommitShape
<1>5. ASSUME GrantBatch \/ Collect \/ CommitBytes \/ BytesCommitted \/ CommitPages
             \/ PagesCommitted
      PROVE  FALSE
  BY <1>1, <1>5 DEF GrantBatch, Collect, CommitBytes, BytesCommitted, CommitPages,
                    PagesCommitted
<1>6. ASSUME NEW n \in Items, ReservationFails(n) PROVE FALSE
  BY <1>1, <1>6 DEF ReservationFails, IssueBatch
<1>7. ASSUME NEW n \in Items, NEW s \in Services, Reserve(n, s) PROVE FALSE
  BY <1>1, <1>7 DEF Reserve
<1>8. ASSUME NEW i \in Items, ItemStep(i) PROVE FALSE
  BY <1>1, <1>8 DEF ItemStep, SendFirst, FailUnsent, LastPage, NextPage, PageCap,
                    Arrives, CallFails, FanOutFrame
<1>9. ASSUME Begin \/ RefuseRun \/ RecordStep \/ Abandon \/ Tick \/ UNCHANGED vars
      PROVE  BatchSettled /\ UNCHANGED <<item, grant, audit, size>>
  BY <1>1, <1>9 DEF Begin, RefuseRun, RecordStep, Record, RecordFails, Abandon, Tick,
                    vars, batch, BatchSettled, CommitInv, CommitShape
<1>10. ASSUME CallerStep, \A n \in Items : ~ReservationFails(n),
              \A n \in Items : \A s \in Services : ~Reserve(n, s)
       PROVE  BatchSettled /\ UNCHANGED <<item, grant, audit, size>>
  BY <1>1, <1>10 DEF CallerStep, RefuseBatch, MayIssue, ScriptReturns, ScriptFails,
                     EndScript, batch, BatchSettled
<1> QED
  BY <1>2, <1>3, <1>4, <1>5, <1>6, <1>7, <1>8, <1>9, <1>10 DEF Next, SettleStep,
     CallerStep, Finished

----------------------------------------------------------------------------
(* The trail and the meter.                                                *)

OkOf(s) == {k \in DOMAIN s : s[k].kind = "ok"}
AttemptedOf(s) == {k \in DOMAIN s : s[k].kind \in {"ok", "failed", "cut"}}
BytesOf(s) == SumOver([k \in OkOf(s) |-> s[k].bytes], OkOf(s))
PagesOf(s) == SumOver([k \in OkOf(s) |-> s[k].pages], OkOf(s))

(* The calls the batch in hand has reserved. *)
Reserved == IF pc \in InBatch THEN size ELSE 0

(* The trail so far and the batch in hand are both covered by the meter. *)
Account ==
  /\ Cardinality(AttemptedOf(audit)) + Reserved <= calls
  /\ BytesOf(audit) + ChargedBytes <= bytes
  /\ PagesOf(audit) + ChargedPages <= pages

(* A delivered batch adds its own bytes, pages and attempts to the trail's. *)
LEMMA DeliveredSums ==
  ASSUME TypeOK, NEW n \in Nat, NEW entries, Batch(n, entries), Deliver(entries)
  PROVE  /\ BytesOf(audit') = BytesOf(audit) + BytesOf(entries)
         /\ PagesOf(audit') = PagesOf(audit) + PagesOf(entries)
         /\ Cardinality(AttemptedOf(audit')) <=
              Cardinality(AttemptedOf(audit)) + Cardinality(AttemptedOf(entries))
         /\ BytesOf(audit) \in Nat /\ PagesOf(audit) \in Nat
         /\ BytesOf(entries) \in Nat /\ PagesOf(entries) \in Nat
         /\ Cardinality(AttemptedOf(audit')) \in Nat
         /\ Cardinality(AttemptedOf(audit)) \in Nat
         /\ Cardinality(AttemptedOf(entries)) \in Nat
         /\ Cardinality(AttemptedOf(entries)) <= n
<1> DEFINE m == Len(audit)
           A == OkOf(audit)
           B == OkOf(entries)
           C == OkOf(audit')
<1>1. /\ m \in Nat /\ DOMAIN audit = 1..m /\ \A k \in 1..m : audit[k] \in Entry
  BY LenProperties, ElementOfSeq DEF TypeOK
<1>2. DOMAIN entries = 1..n /\ \A k \in 1..n : entries[k] \in Entry
  BY DEF Batch
<1>3. /\ DOMAIN audit' = 1..(m + n)
      /\ \A k \in 1..m : audit'[k] = audit[k]
      /\ \A k \in 1..n : audit'[m + k] = entries[k]
  <2>1. audit' \in Seq(Entry)
    BY DeliverTypes DEF Batch
  <2>2. DOMAIN audit' = 1..Len(audit')
    BY <2>1, LenProperties
  <2> QED
    BY <2>2, DeliverExtends
<1>4. ASSUME NEW k \in 1..(m + n) PROVE k \in 1..m \/ \E j \in 1..n : k = m + j
  <2>1. CASE k <= m
    BY <1>1, <2>1
  <2>2. CASE ~(k <= m)
    <3>1. k - m \in 1..n /\ k = m + (k - m)
      BY <1>1, <2>2
    <3> QED
      BY <3>1
  <2> QED
    BY <2>1, <2>2
<1>5. A \subseteq 1..m /\ B \subseteq 1..n
  BY <1>1, <1>2 DEF OkOf
<1> HIDE DEF m
<1>6. \A k \in 1..m : k \in 1..(m + n)
  BY <1>1
<1>7. \A k \in 1..n : m + k \in 1..(m + n)
  BY <1>1
<1>8. C = A \cup Past(m, B)
  <2>1. ASSUME NEW k \in C PROVE k \in A \cup Past(m, B)
    <3>1. k \in 1..(m + n) /\ audit'[k].kind = "ok"
      BY <1>3 DEF OkOf
    <3>2. CASE k \in 1..m
      BY <1>1, <1>3, <3>1, <3>2 DEF OkOf
    <3>3. ASSUME NEW j \in 1..n, k = m + j PROVE k \in Past(m, B)
      <4>1. entries[j].kind = "ok"
        BY <1>3, <3>1, <3>3
      <4>2. j \in B
        BY <1>2, <4>1 DEF OkOf
      <4> QED
        BY <3>3, <4>2 DEF Past
    <3> QED
      BY <1>4, <3>1, <3>2, <3>3
  <2>2. A \subseteq C
    BY <1>1, <1>3, <1>6 DEF OkOf
  <2>3. ASSUME NEW j \in B PROVE m + j \in C
    <3>1. j \in 1..n /\ entries[j].kind = "ok"
      BY <1>2 DEF OkOf
    <3> QED
      BY <1>3, <1>7, <3>1 DEF OkOf
  <2> QED
    BY <2>1, <2>2, <2>3 DEF Past
<1>9. /\ \A k \in A : audit[k].bytes \in Nat /\ audit[k].pages \in Nat
      /\ \A k \in B : entries[k].bytes \in Nat /\ entries[k].pages \in Nat
  BY <1>1, <1>2, <1>5 DEF Entry
<1>10. /\ \A k \in A : k \in C /\ audit'[k] = audit[k]
       /\ \A k \in B : m + k \in C /\ audit'[m + k] = entries[k]
  BY <1>3, <1>5, <1>8 DEF Past
<1>11. IsFiniteSet(A) /\ IsFiniteSet(B)
  BY <1>1, <1>5, FS_Interval, FS_Subset
<1>15. /\ m \in Nat /\ B \subseteq Nat
       /\ IsFiniteSet(Past(m, B)) /\ A \cap Past(m, B) = {}
  <2>1. [k \in B |-> m + k] \in Surjection(B, Past(m, B))
    BY DEF Surjection, Past
  <2>2. IsFiniteSet(Past(m, B))
    BY <1>11, <2>1, FS_Surjection
  <2>3. A \cap Past(m, B) = {}
    BY <1>1, <1>5 DEF Past
  <2> QED
    BY <1>1, <1>5, <2>2, <2>3
<1> HIDE DEF A, B, C
<1>12. /\ BytesOf(audit') = BytesOf(audit) + BytesOf(entries)
       /\ BytesOf(audit) \in Nat /\ BytesOf(entries) \in Nat
  <2> DEFINE f == [k \in A |-> audit[k].bytes]
             g == [k \in B |-> entries[k].bytes]
             h == [k \in C |-> audit'[k].bytes]
  <2>1. BytesOf(audit) = SumOver(f, A) /\ BytesOf(entries) = SumOver(g, B)
     /\ BytesOf(audit') = SumOver(h, C)
    BY DEF BytesOf, A, B, C
  <2>2. \A k \in A : h[k] = f[k] /\ f[k] \in Nat
    BY <1>9, <1>10
  <2>3. \A k \in B : h[m + k] = g[k] /\ g[k] \in Nat
    BY <1>9, <1>10
  <2> HIDE DEF f, g, h
  <2>4. SumOver(h, A \cup Past(m, B)) = SumOver(f, A) + SumOver(g, B)
    <3>1. SumOver(h, Past(m, B)) = SumOver(g, B)
      BY ONLY <1>11, <1>15, <2>3, SumShifted
    <3>2. SumOver(h, A) = SumOver(f, A)
      BY ONLY <1>11, <2>2, SumsAgree
    <3>3. \A x \in A \cup Past(m, B) : h[x] \in Nat
      BY <2>2, <2>3 DEF Past
    <3>4. SumOver(h, A \cup Past(m, B)) = SumOver(h, A) + SumOver(h, Past(m, B))
      BY ONLY <1>11, <1>15, <3>3, SumOfTwo
    <3> QED
      BY <3>1, <3>2, <3>4
  <2>5. SumOver(f, A) \in Nat /\ SumOver(g, B) \in Nat
    BY <1>11, <2>2, <2>3, SumIsNat
  <2> QED
    BY <1>8, <2>1, <2>4, <2>5
<1>13. /\ PagesOf(audit') = PagesOf(audit) + PagesOf(entries)
       /\ PagesOf(audit) \in Nat /\ PagesOf(entries) \in Nat
  <2> DEFINE f == [k \in A |-> audit[k].pages]
             g == [k \in B |-> entries[k].pages]
             h == [k \in C |-> audit'[k].pages]
  <2>1. PagesOf(audit) = SumOver(f, A) /\ PagesOf(entries) = SumOver(g, B)
        /\ PagesOf(audit') = SumOver(h, C)
    BY DEF PagesOf, A, B, C
  <2>2. \A k \in A : h[k] = f[k] /\ f[k] \in Nat
    BY <1>9, <1>10
  <2>3. \A k \in B : h[m + k] = g[k] /\ g[k] \in Nat
    BY <1>9, <1>10
  <2> HIDE DEF f, g, h
  <2>4. SumOver(h, A \cup Past(m, B)) = SumOver(f, A) + SumOver(g, B)
    <3>1. SumOver(h, Past(m, B)) = SumOver(g, B)
      BY ONLY <1>11, <1>15, <2>3, SumShifted
    <3>2. SumOver(h, A) = SumOver(f, A)
      BY ONLY <1>11, <2>2, SumsAgree
    <3>3. \A x \in A \cup Past(m, B) : h[x] \in Nat
      BY <2>2, <2>3 DEF Past
    <3>4. SumOver(h, A \cup Past(m, B)) = SumOver(h, A) + SumOver(h, Past(m, B))
      BY ONLY <1>11, <1>15, <3>3, SumOfTwo
    <3> QED
      BY <3>1, <3>2, <3>4
  <2>5. SumOver(f, A) \in Nat /\ SumOver(g, B) \in Nat
    BY <1>11, <2>2, <2>3, SumIsNat
  <2> QED
    BY <1>8, <2>1, <2>4, <2>5
<1>14. /\ Cardinality(AttemptedOf(audit')) <=
              Cardinality(AttemptedOf(audit)) + Cardinality(AttemptedOf(entries))
       /\ Cardinality(AttemptedOf(audit')) \in Nat
       /\ Cardinality(AttemptedOf(audit)) \in Nat
       /\ Cardinality(AttemptedOf(entries)) \in Nat
       /\ Cardinality(AttemptedOf(entries)) <= n
  <2> DEFINE P == AttemptedOf(audit)
             Q == AttemptedOf(entries)
             R == Past(m, Q)
  <2>1. P \subseteq 1..m /\ Q \subseteq 1..n
    BY <1>1, <1>2 DEF AttemptedOf
  <2>2. AttemptedOf(audit') = P \cup R
    <3>1. ASSUME NEW k \in AttemptedOf(audit') PROVE k \in P \cup R
      <4>1. k \in 1..(m + n) /\ audit'[k].kind \in {"ok", "failed", "cut"}
        BY <1>3 DEF AttemptedOf
      <4>2. CASE k \in 1..m
        BY <1>1, <1>3, <4>1, <4>2 DEF AttemptedOf
      <4>3. ASSUME NEW j \in 1..n, k = m + j PROVE k \in R
        <5>1. entries[j].kind \in {"ok", "failed", "cut"}
          BY <1>3, <4>1, <4>3
        <5>2. j \in Q
          BY <1>2, <5>1 DEF AttemptedOf
        <5> QED
          BY <4>3, <5>2 DEF Past
      <4> QED
        BY <1>4, <4>1, <4>2, <4>3
    <3>2. P \subseteq AttemptedOf(audit')
      BY <1>1, <1>3, <1>6 DEF AttemptedOf
    <3>3. ASSUME NEW j \in Q PROVE m + j \in AttemptedOf(audit')
      <4>1. j \in 1..n /\ entries[j].kind \in {"ok", "failed", "cut"}
        BY <1>2 DEF AttemptedOf
      <4> QED
        BY <1>3, <1>7, <4>1 DEF AttemptedOf
    <3> QED
      BY <3>1, <3>2, <3>3 DEF Past
  <2>3. /\ IsFiniteSet(1..n) /\ Cardinality(1..n) = n /\ IsFiniteSet(1..m)
    BY <1>1, FS_Interval
  <2> HIDE DEF P, Q
  <2>4. /\ IsFiniteSet(P) /\ IsFiniteSet(Q) /\ Cardinality(Q) <= n
        /\ Cardinality(P) \in Nat /\ Cardinality(Q) \in Nat
    BY <2>1, <2>3, FS_Subset, FS_CardinalityType
  <2>5. [k \in Q |-> m + k] \in Surjection(Q, R)
    BY DEF Surjection, Past
  <2> HIDE DEF R
  <2>6. IsFiniteSet(R) /\ Cardinality(R) <= Cardinality(Q) /\ Cardinality(R) \in Nat
    BY <2>4, <2>5, FS_Surjection, FS_CardinalityType
  <2>7. /\ IsFiniteSet(P \cup R) /\ Cardinality(P \cup R) \in Nat
        /\ Cardinality(P \cup R) = Cardinality(P) + Cardinality(R) - Cardinality(P \cap R)
        /\ Cardinality(P \cap R) \in Nat
    BY <2>4, <2>6, FS_Union, FS_Intersection, FS_CardinalityType
  <2>8. Cardinality(P \cup R) <= Cardinality(P) + Cardinality(Q)
    BY <2>4, <2>6, <2>7
  <2> QED
    BY <2>2, <2>4, <2>7, <2>8 DEF P, Q
<1> QED
  BY <1>12, <1>13, <1>14

(* What a trail adds up to is a number. *)
LEMMA TrailIsCounted ==
  ASSUME NEW s \in Seq(Entry)
  PROVE  /\ BytesOf(s) \in Nat /\ PagesOf(s) \in Nat
         /\ Cardinality(AttemptedOf(s)) \in Nat
<1> DEFINE K == OkOf(s)
           f == [k \in K |-> s[k].bytes]
           g == [k \in K |-> s[k].pages]
<1>1. DOMAIN s = 1..Len(s) /\ Len(s) \in Nat /\ \A k \in 1..Len(s) : s[k] \in Entry
  BY LenProperties, ElementOfSeq
<1>2. K \subseteq 1..Len(s) /\ AttemptedOf(s) \subseteq 1..Len(s)
  BY <1>1 DEF OkOf, AttemptedOf
<1> HIDE DEF K
<1>3. IsFiniteSet(K) /\ IsFiniteSet(AttemptedOf(s))
  <2>1. IsFiniteSet(1..Len(s))
    BY <1>1, FS_Interval
  <2> QED
    BY <1>2, <2>1, FS_Subset
<1>4. \A k \in K : s[k].bytes \in Nat /\ s[k].pages \in Nat
  BY <1>1, <1>2 DEF Entry
<1>5. \A k \in K : f[k] \in Nat /\ g[k] \in Nat
  BY <1>4
<1>6. BytesOf(s) = SumOver(f, K) /\ PagesOf(s) = SumOver(g, K)
  BY DEF BytesOf, PagesOf, K
<1> HIDE DEF f, g
<1> QED
  BY <1>3, <1>5, <1>6, SumIsNat, FS_CardinalityType

(* A trail of t and a batch of c, under a meter of m, stay under it when the *)
(* batch and the meter move together.                                        *)
LEMMA Covers ==
  ASSUME NEW t \in Nat, NEW c \in Nat, NEW m \in Nat, NEW c1 \in Nat, NEW m1 \in Nat,
         t + c <= m, c1 + m <= c + m1
  PROVE  t + c1 <= m1
OBVIOUS

(* A batch that is charged no more than the meter. *)
LEMMA NoMore ==
  ASSUME NEW c \in Nat, NEW m \in Nat, NEW c1 \in Nat, NEW m1 \in Nat,
         (c1 <= c /\ m1 = m) \/ c1 + m = c + m1
  PROVE  c1 + m <= c + m1
OBVIOUS

(* While nothing is delivered, the account holds as long as what the batch *)
(* reserves or is charged is what the meter is charged.                    *)
LEMMA AccountCarries ==
  ASSUME TypeOK, Account, UNCHANGED audit,
         Reserved' \in Nat, ChargedBytes' \in Nat, ChargedPages' \in Nat,
         calls' \in Nat, bytes' \in Nat, pages' \in Nat,
         Reserved' + calls <= Reserved + calls',
         ChargedBytes' + bytes <= ChargedBytes + bytes',
         ChargedPages' + pages <= ChargedPages + pages'
  PROVE  Account'
<1>1. /\ BytesOf(audit) \in Nat /\ PagesOf(audit) \in Nat
      /\ Cardinality(AttemptedOf(audit)) \in Nat
  BY TrailIsCounted DEF TypeOK
<1>2. /\ calls \in Nat /\ bytes \in Nat /\ pages \in Nat /\ Reserved \in Nat
      /\ ChargedBytes \in Nat /\ ChargedPages \in Nat
  BY RunAssumption, ChargesAreNat DEF TypeOK, Reserved
<1>3. /\ Cardinality(AttemptedOf(audit)) + Reserved <= calls
      /\ BytesOf(audit) + ChargedBytes <= bytes
      /\ PagesOf(audit) + ChargedPages <= pages
  BY DEF Account
<1>4. /\ Cardinality(AttemptedOf(audit)) + Reserved' <= calls'
      /\ BytesOf(audit) + ChargedBytes' <= bytes'
      /\ PagesOf(audit) + ChargedPages' <= pages'
  <2>1. Cardinality(AttemptedOf(audit)) + Reserved' <= calls'
    <3>1. Cardinality(AttemptedOf(audit)) \in Nat /\ Reserved \in Nat /\ calls \in Nat /\ Reserved' \in Nat /\ calls' \in Nat
      BY <1>1, <1>2
    <3>2. Cardinality(AttemptedOf(audit)) + Reserved <= calls /\ Reserved' + calls <= Reserved + calls'
      BY <1>3
    <3> QED
      BY ONLY <3>1, <3>2, Covers
  <2>2. BytesOf(audit) + ChargedBytes' <= bytes'
    <3>1. BytesOf(audit) \in Nat /\ ChargedBytes \in Nat /\ bytes \in Nat /\ ChargedBytes' \in Nat /\ bytes' \in Nat
      BY <1>1, <1>2
    <3>2. BytesOf(audit) + ChargedBytes <= bytes /\ ChargedBytes' + bytes <= ChargedBytes + bytes'
      BY <1>3
    <3> QED
      BY ONLY <3>1, <3>2, Covers
  <2>3. PagesOf(audit) + ChargedPages' <= pages'
    <3>1. PagesOf(audit) \in Nat /\ ChargedPages \in Nat /\ pages \in Nat /\ ChargedPages' \in Nat /\ pages' \in Nat
      BY <1>1, <1>2
    <3>2. PagesOf(audit) + ChargedPages <= pages /\ ChargedPages' + pages <= ChargedPages + pages'
      BY <1>3
    <3> QED
      BY ONLY <3>1, <3>2, Covers
  <2> QED
    BY <2>1, <2>2, <2>3
<1>5. audit' = audit
  OBVIOUS
<1> QED
  BY <1>4, <1>5 DEF Account

(* A commit charges the meter and the batch alike. *)
LEMMA CommitBytesCharges ==
  ASSUME TypeOK, CommitInv, CommitBytes \/ BytesCommitted
  PROVE  /\ ChargedBytes' + bytes = ChargedBytes + bytes'
         /\ ChargedPages' = ChargedPages /\ UNCHANGED <<calls, pages, audit, size>>
         /\ pc \in InBatch /\ pc' \in InBatch
<1>1. /\ pc = "bytes" /\ trip.bytes = 0 /\ pc' \in {"bytes", "pages"}
      /\ UNCHANGED <<calls, pages, audit, size, item, grant>>
  BY DEF CommitBytes, BytesCommitted, CommitFrame, CommitInv, CommitShape
<1>2. ChargedPages' = 0 /\ ChargedPages = 0
  <2>1. CASE pc' = "bytes"
    BY <1>1, <2>1 DEF ChargedPages
  <2>2. CASE pc' = "pages"
    <3>1. cursor' = 1
      BY <1>1, <2>2 DEF CommitBytes, BytesCommitted
    <3>2. ChargedPages' = PagesUpTo(0)
      BY <1>1, <2>2, <3>1 DEF ChargedPages, PagesUpTo, OkUpTo
    <3> QED
      BY <1>1, <3>2, PrefixPages DEF ChargedPages
  <2> QED
    BY <1>1, <2>1, <2>2
<1>3. /\ size \in 0..MaxItems /\ cursor \in 1..(MaxItems + 1) /\ cursor - 1 \in 0..MaxItems
      /\ bytes \in Nat /\ ChargedBytes = BytesUpTo(cursor - 1) /\ BytesUpTo(cursor - 1) \in Nat
  <2>1. /\ size \in 0..MaxItems /\ cursor \in 1..(MaxItems + 1) /\ cursor - 1 \in 0..MaxItems
        /\ bytes \in Nat
    BY RunAssumption DEF TypeOK
  <2> QED
    BY <1>1, <2>1, PrefixBytes DEF ChargedBytes
<1>5. CASE BytesCommitted
  <2>1. /\ cursor = size + 1 /\ cursor - 1 = size /\ bytes' = bytes /\ trip' = trip
        /\ pc' = "pages"
    BY <1>3, <1>5, RunAssumption DEF BytesCommitted, CommitInv, CommitShape
  <2>2. ChargedBytes' = BytesUpTo(size)
    BY <1>1, <2>1 DEF ChargedBytes, BytesUpTo, OkUpTo
  <2> QED
    BY <1>1, <1>2, <1>3, <2>1, <2>2 DEF InBatch
<1>6. CASE CommitBytes
  <2>1. cursor <= size /\ cursor \in Items /\ cursor \in 1..MaxItems
    BY <1>3, <1>6, RunAssumption DEF CommitBytes, Items
  <2>2. item[cursor].bytes \in Nat
    BY <2>1 DEF TypeOK, Item
  <2>3. BytesUpTo(cursor) = BytesUpTo(cursor - 1)
                            + (IF item[cursor].state = "ok" THEN item[cursor].bytes ELSE 0)
    BY <2>1, PrefixBytes
  <2>4. CASE OverBytes
    <3>1. pc' = "pages" /\ bytes' = bytes /\ trip'.bytes = cursor /\ cursor # 0
      BY <1>3, <1>6, <2>4 DEF CommitBytes, TypeOK
    <3>2. ChargedBytes' = BytesUpTo(cursor - 1)
      BY <1>1, <3>1 DEF ChargedBytes, BytesUpTo, OkUpTo
    <3> QED
      BY <1>1, <1>2, <1>3, <3>1, <3>2 DEF InBatch
  <2>5. CASE ~OverBytes
    <3>1. /\ pc' = "bytes" /\ cursor' = cursor + 1
          /\ bytes' = bytes + (IF item[cursor].state = "ok" THEN item[cursor].bytes ELSE 0)
      BY <1>1, <1>3, <1>6, <2>5 DEF CommitBytes, Charged
    <3>2. cursor' - 1 = cursor
      BY <1>3, <3>1
    <3>3. ChargedBytes' = BytesUpTo(cursor)
      BY <1>1, <3>1, <3>2 DEF ChargedBytes, BytesUpTo, OkUpTo
    <3> QED
      BY <1>1, <1>2, <1>3, <2>2, <2>3, <3>1, <3>3 DEF InBatch
  <2> QED
    BY <2>4, <2>5
<1> QED
  BY <1>5, <1>6

(* The same of the pages. *)
LEMMA CommitPagesCharges ==
  ASSUME TypeOK, CommitInv, CommitPages \/ PagesCommitted
  PROVE  /\ ChargedPages' + pages = ChargedPages + pages'
         /\ ChargedBytes' = ChargedBytes /\ UNCHANGED <<calls, bytes, audit, size>>
         /\ pc \in InBatch /\ pc' \in InBatch
<1>1. /\ pc = "pages" /\ trip.pages = 0 /\ pc' \in {"pages", "settle"}
      /\ trip'.bytes = trip.bytes
      /\ UNCHANGED <<calls, bytes, audit, size, item, grant>>
  BY DEF CommitPages, PagesCommitted, CommitFrame, CommitInv, CommitShape, TypeOK
<1>2. ChargedBytes' = ChargedBytes
  BY <1>1 DEF ChargedBytes, BytesUpTo, OkUpTo
<1>3. /\ size \in 0..MaxItems /\ cursor \in 1..(MaxItems + 1) /\ cursor - 1 \in 0..MaxItems
      /\ pages \in Nat /\ ChargedPages = PagesUpTo(cursor - 1) /\ PagesUpTo(cursor - 1) \in Nat
  <2>1. /\ size \in 0..MaxItems /\ cursor \in 1..(MaxItems + 1) /\ cursor - 1 \in 0..MaxItems
        /\ pages \in Nat
    BY RunAssumption DEF TypeOK
  <2> QED
    BY <1>1, <2>1, PrefixPages DEF ChargedPages
<1>5. CASE PagesCommitted
  <2>1. /\ cursor = size + 1 /\ cursor - 1 = size /\ pages' = pages /\ trip' = trip
        /\ pc' = "settle"
    BY <1>3, <1>5, RunAssumption DEF PagesCommitted, CommitInv, CommitShape
  <2>2. ChargedPages' = PagesUpTo(size)
    BY <1>1, <2>1 DEF ChargedPages, PagesUpTo, OkUpTo
  <2> QED
    BY <1>1, <1>2, <1>3, <2>1, <2>2 DEF InBatch
<1>6. CASE CommitPages
  <2>1. cursor <= size /\ cursor \in Items /\ cursor \in 1..MaxItems
    BY <1>3, <1>6, RunAssumption DEF CommitPages, Items
  <2>2. item[cursor].pages \in Nat
    BY <2>1 DEF TypeOK, Item
  <2>3. PagesUpTo(cursor) = PagesUpTo(cursor - 1)
                            + (IF item[cursor].state = "ok" THEN item[cursor].pages ELSE 0)
    BY <2>1, PrefixPages
  <2>4. CASE OverPages
    <3>1. pc' = "settle" /\ pages' = pages /\ trip'.pages = cursor /\ cursor # 0
      BY <1>3, <1>6, <2>4 DEF CommitPages, TypeOK
    <3>2. ChargedPages' = PagesUpTo(cursor - 1)
      BY <1>1, <3>1 DEF ChargedPages, PagesUpTo, OkUpTo
    <3> QED
      BY <1>1, <1>2, <1>3, <3>1, <3>2 DEF InBatch
  <2>5. CASE ~OverPages
    <3>1. /\ pc' = "pages" /\ cursor' = cursor + 1
          /\ pages' = pages + (IF item[cursor].state = "ok" THEN item[cursor].pages ELSE 0)
      BY <1>1, <1>3, <1>6, <2>5 DEF CommitPages, Charged
    <3>2. cursor' - 1 = cursor
      BY <1>3, <3>1
    <3>3. ChargedPages' = PagesUpTo(cursor)
      BY <1>1, <3>1, <3>2 DEF ChargedPages, PagesUpTo, OkUpTo
    <3> QED
      BY <1>1, <1>2, <1>3, <2>2, <2>3, <3>1, <3>3 DEF InBatch
  <2> QED
    BY <2>4, <2>5
<1> QED
  BY <1>5, <1>6

(* A batch that was not attempted costs nothing. *)
LEMMA NotAttemptedIsFree ==
  ASSUME NEW n \in Nat, NEW axis,
         NEW entries, entries = [k \in 1..n |-> NotAttempted(axis, NextSeq(k))]
  PROVE  /\ BytesOf(entries) = 0 /\ PagesOf(entries) = 0
         /\ Cardinality(AttemptedOf(entries)) = 0
<1>1. OkOf(entries) = {} /\ AttemptedOf(entries) = {}
  BY DEF OkOf, AttemptedOf, NotAttempted
<1> QED
  BY <1>1, SumOfNothing, FS_EmptySet DEF BytesOf, PagesOf

(* What the results of a settled batch add up to was charged by its commits. *)
LEMMA VerdictsAreCharged ==
  ASSUME TypeOK, CommitInv, pc = "settle",
         NEW entries, entries = [i \in 1..size |-> Verdict(i, NextSeq(i))]
  PROVE  BytesOf(entries) <= ChargedBytes /\ PagesOf(entries) <= ChargedPages
<1> DEFINE K == OkOf(entries)
<1>1. /\ size \in 0..MaxItems /\ size \in Nat /\ MaxItems \in Nat /\ 1..size \subseteq Items
      /\ trip.bytes \in 0..MaxItems /\ trip.pages \in 0..MaxItems
      /\ trip.bytes \in Nat /\ trip.pages \in Nat
  BY RunAssumption DEF TypeOK, Items
<1>7. \A i \in Items : item[i].bytes \in Nat /\ item[i].pages \in Nat
  BY DEF TypeOK, Item
<1>2. K \subseteq 1..size
  BY DEF OkOf
<1>3. ASSUME NEW k \in K
      PROVE  /\ item[k].state = "ok" /\ FitsBytes(k) /\ FitsPages(k)
             /\ entries[k].bytes = item[k].bytes /\ entries[k].pages = item[k].pages
  <2>1. k \in 1..size /\ entries[k].kind = "ok" /\ entries[k] = Verdict(k, NextSeq(k))
    BY DEF OkOf
  <2>2. AllFilled
    BY DEF CommitInv, CommitShape
  <2>3. item[k].state \in {"ok", "failed"}
    BY <2>1, <2>2 DEF AllFilled
  <2>4. /\ Verdict(k, NextSeq(k)).kind =
              (IF item[k].state = "failed" THEN "failed"
               ELSE IF FitsBytes(k) /\ FitsPages(k) THEN "ok" ELSE "cut")
        /\ Verdict(k, NextSeq(k)).bytes = item[k].bytes
        /\ Verdict(k, NextSeq(k)).pages = item[k].pages
    BY <2>1, VerdictOfAnItem
  <2> QED
    BY <2>1, <2>3, <2>4
<1> HIDE DEF K
<1>4. ASSUME NEW c \in 0..MaxItems
      PROVE  IsFiniteSet(OkUpTo(c)) /\ OkUpTo(c) \subseteq Items
  <2>2. c \in Nat /\ 1..c \subseteq Items /\ OkUpTo(c) \subseteq 1..c
    BY <1>1 DEF OkUpTo, Items
  <2>1. IsFiniteSet(1..c) /\ OkUpTo(c) \subseteq 1..c /\ OkUpTo(c) \subseteq Items
    BY <2>2, FS_Interval
  <2> QED
    BY <2>1, FS_Subset
<1>5. BytesOf(entries) <= ChargedBytes
  <2> DEFINE c == IF trip.bytes = 0 THEN size ELSE trip.bytes - 1
             f == [k \in K |-> entries[k].bytes]
             v == [i \in OkUpTo(c) |-> item[i].bytes]
  <2>1. c \in 0..MaxItems
    BY <1>1
  <2>2. ASSUME NEW k \in K PROVE k \in OkUpTo(c)
    <3>1. FitsBytes(k) <=> trip.bytes = 0 \/ k < trip.bytes
      BY <1>2, TripsSeparate
    <3>5. size \in Nat /\ trip.bytes \in Nat /\ (trip.bytes = 0 \/ k < trip.bytes)
      BY <1>1, <1>3, <3>1
    <3>6. k \in 1..size
      BY <1>2
    <3>3. k \in Nat /\ 1 <= k /\ k <= size
      BY ONLY <3>5, <3>6
    <3>4. c \in Nat /\ k <= c
      BY ONLY <3>3, <3>5
    <3> HIDE DEF c
    <3>2. k \in 1..c
      BY <3>3, <3>4
    <3> QED
      BY <1>3, <3>2 DEF OkUpTo
  <2>3. BytesOf(entries) = SumOver(f, K) /\ ChargedBytes = SumOver(v, OkUpTo(c))
    BY DEF BytesOf, ChargedBytes, BytesUpTo, K
  <2> HIDE DEF c
  <2>4. /\ \A i \in OkUpTo(c) : v[i] \in Nat
        /\ \A k \in K : f[k] = v[k]
    BY <1>3, <1>4, <1>7, <2>1, <2>2
  <2>5. K \subseteq OkUpTo(c) /\ IsFiniteSet(OkUpTo(c))
    BY <1>4, <2>1, <2>2
  <2> HIDE DEF f, v
  <2> QED
    BY <2>3, <2>4, <2>5, SumsGrow
<1>6. PagesOf(entries) <= ChargedPages
  <2> DEFINE c == IF trip.pages = 0 THEN size ELSE trip.pages - 1
             f == [k \in K |-> entries[k].pages]
             v == [i \in OkUpTo(c) |-> item[i].pages]
  <2>1. c \in 0..MaxItems
    BY <1>1
  <2>2. ASSUME NEW k \in K PROVE k \in OkUpTo(c)
    <3>1. FitsPages(k) <=> trip.pages = 0 \/ k < trip.pages
      BY <1>2, TripsSeparate
    <3>5. size \in Nat /\ trip.pages \in Nat /\ (trip.pages = 0 \/ k < trip.pages)
      BY <1>1, <1>3, <3>1
    <3>6. k \in 1..size
      BY <1>2
    <3>3. k \in Nat /\ 1 <= k /\ k <= size
      BY ONLY <3>5, <3>6
    <3>4. c \in Nat /\ k <= c
      BY ONLY <3>3, <3>5
    <3> HIDE DEF c
    <3>2. k \in 1..c
      BY <3>3, <3>4
    <3> QED
      BY <1>3, <3>2 DEF OkUpTo
  <2>3. PagesOf(entries) = SumOver(f, K) /\ ChargedPages = SumOver(v, OkUpTo(c))
    BY DEF PagesOf, ChargedPages, PagesUpTo, K
  <2> HIDE DEF c
  <2>4. /\ \A i \in OkUpTo(c) : v[i] \in Nat
        /\ \A k \in K : f[k] = v[k]
    BY <1>3, <1>4, <1>7, <2>1, <2>2
  <2>5. K \subseteq OkUpTo(c) /\ IsFiniteSet(OkUpTo(c))
    BY <1>4, <2>1, <2>2
  <2> HIDE DEF f, v
  <2> QED
    BY <2>3, <2>4, <2>5, SumsGrow
<1> QED
  BY <1>5, <1>6

(* A delivered batch enters the trail with what it was charged. *)
LEMMA DeliveredIsCovered ==
  ASSUME TypeOK, Account, UNCHANGED meter,
         NEW n \in Nat, NEW entries, Batch(n, entries), Deliver(entries),
         Cardinality(AttemptedOf(entries)) <= Reserved,
         BytesOf(entries) <= ChargedBytes, PagesOf(entries) <= ChargedPages
  PROVE  Account'
<1>1. /\ BytesOf(audit') = BytesOf(audit) + BytesOf(entries)
      /\ PagesOf(audit') = PagesOf(audit) + PagesOf(entries)
      /\ Cardinality(AttemptedOf(audit')) <=
           Cardinality(AttemptedOf(audit)) + Cardinality(AttemptedOf(entries))
      /\ BytesOf(audit) \in Nat /\ PagesOf(audit) \in Nat
      /\ BytesOf(entries) \in Nat /\ PagesOf(entries) \in Nat
      /\ Cardinality(AttemptedOf(audit')) \in Nat
      /\ Cardinality(AttemptedOf(audit)) \in Nat
      /\ Cardinality(AttemptedOf(entries)) \in Nat
  BY DeliveredSums
<1>2. Reserved' = 0 /\ ChargedBytes' = 0 /\ ChargedPages' = 0
  BY DEF Deliver, Reserved, ChargedBytes, ChargedPages, InBatch
<1>3. /\ calls \in Nat /\ bytes \in Nat /\ pages \in Nat /\ Reserved \in Nat
      /\ ChargedBytes \in Nat /\ ChargedPages \in Nat
  BY RunAssumption, ChargesAreNat DEF TypeOK, Reserved
<1>4. /\ Cardinality(AttemptedOf(audit)) + Reserved <= calls
      /\ BytesOf(audit) + ChargedBytes <= bytes
      /\ PagesOf(audit) + ChargedPages <= pages
  BY DEF Account
<1>5. calls' = calls /\ bytes' = bytes /\ pages' = pages
  BY DEF meter
<1>6. /\ Cardinality(AttemptedOf(audit')) + 0 <= calls
      /\ BytesOf(audit') + 0 <= bytes
      /\ PagesOf(audit') + 0 <= pages
  <2>1. Cardinality(AttemptedOf(audit')) <= calls
    BY <1>1, <1>3, <1>4
  <2>2. BytesOf(audit) + BytesOf(entries) <= bytes
    BY <1>1, <1>3, <1>4
  <2>3. PagesOf(audit) + PagesOf(entries) <= pages
    BY <1>1, <1>3, <1>4
  <2> QED
    BY <1>1, <2>1, <2>2, <2>3
<1> QED
  BY <1>2, <1>5, <1>6 DEF Account

(* Every step keeps the account. *)
LEMMA StepAccount ==
  ASSUME TypeOK, TypeOK', CommitInv, Account, [Next]_vars
  PROVE  Account'
<1>1. /\ calls \in Nat /\ bytes \in Nat /\ pages \in Nat /\ size \in Nat
      /\ calls' \in Nat /\ bytes' \in Nat /\ pages' \in Nat /\ size' \in Nat
      /\ ChargedBytes \in Nat /\ ChargedPages \in Nat
      /\ Reserved \in Nat /\ Reserved' \in Nat
  <2>1. /\ calls \in Nat /\ bytes \in Nat /\ pages \in Nat /\ size \in Nat
        /\ calls' \in Nat /\ bytes' \in Nat /\ pages' \in Nat /\ size' \in Nat
    BY RunAssumption DEF TypeOK
  <2> QED
    BY <2>1, ChargesAreNat DEF Reserved
<1>2. ASSUME UNCHANGED <<meter, audit>>, Reserved' \in {0, Reserved},
             ChargedBytes' \in {0, ChargedBytes}, ChargedPages' \in {0, ChargedPages}
      PROVE  Account'
  <2>1. /\ Reserved' \in Nat /\ ChargedBytes' \in Nat /\ ChargedPages' \in Nat
        /\ Reserved' <= Reserved /\ ChargedBytes' <= ChargedBytes
        /\ ChargedPages' <= ChargedPages
    BY <1>1, <1>2
  <2>2. calls' = calls /\ bytes' = bytes /\ pages' = pages /\ audit' = audit
    BY <1>2 DEF meter
  <2>3. /\ Reserved' + calls <= Reserved + calls'
        /\ ChargedBytes' + bytes <= ChargedBytes + bytes'
        /\ ChargedPages' + pages <= ChargedPages + pages'
    BY ONLY <1>1, <2>1, <2>2, NoMore
  <2> QED
    BY <1>1, <2>1, <2>2, <2>3, AccountCarries
<1>3. ASSUME UNCHANGED <<meter, audit, batch>>,
             pc' = pc \/ pc' \in {"caller", "refused", "record", "done", "unrecorded", "abandoned"}
      PROVE  Account'
  <2>1. CASE pc' = pc
    <3>1. ChargedBytes' = ChargedBytes /\ ChargedPages' = ChargedPages /\ Reserved' = Reserved
      BY <1>3, <2>1 DEF batch, ChargedBytes, ChargedPages, BytesUpTo, PagesUpTo, OkUpTo,
                        Reserved
    <3> QED
      BY <1>2, <1>3, <3>1
  <2>2. CASE pc' \in {"caller", "refused", "record", "done", "unrecorded", "abandoned"}
    <3>1. ChargedBytes' = 0 /\ ChargedPages' = 0 /\ Reserved' = 0
      BY <2>2 DEF ChargedBytes, ChargedPages, Reserved, InBatch
    <3> QED
      BY <1>2, <1>3, <3>1
  <2> QED
    BY <1>3, <2>1, <2>2
<1>4. ASSUME Begin \/ RefuseRun \/ RecordStep \/ Abandon \/ Tick \/ UNCHANGED vars
      PROVE  Account'
  <2>1. /\ UNCHANGED <<meter, audit, batch>>
        /\ pc' = pc \/ pc' \in {"caller", "refused", "record", "done", "unrecorded", "abandoned"}
    BY <1>4 DEF Begin, RefuseRun, RecordStep, Record, RecordFails, Abandon, Tick,
                vars, meter, batch
  <2> QED
    BY <1>3, <2>1
<1>5. ASSUME NEW n \in Items, RefuseBatch(n) \/ ScriptReturns \/ ScriptFails PROVE Account'
  <2>1. UNCHANGED <<meter, audit, batch>> /\ pc' \in {"caller", "record"}
    BY <1>5 DEF RefuseBatch, MayIssue, ScriptReturns, ScriptFails, EndScript, meter, batch
  <2> QED
    BY <1>3, <2>1
<1>6. ASSUME NEW n \in Nat, NEW axis \in Axes, DeliverNotAttempted(n, axis), UNCHANGED meter
      PROVE  Account'
  <2>1. PICK entries : entries = [k \in 1..n |-> NotAttempted(axis, NextSeq(k))]
    OBVIOUS
  <2>2. Len(audit) \in Nat
    BY LenProperties DEF TypeOK
  <2>3. \A k \in 1..n : NextSeq(k) \in Nat
    BY <2>2 DEF NextSeq
  <2>4. Batch(n, entries)
    BY <2>1, <2>3, NotAttemptedIsAnEntry DEF Batch, NotAttempted
  <2>5. Deliver(entries)
    BY <1>6, <2>1 DEF DeliverNotAttempted
  <2>6. /\ BytesOf(entries) = 0 /\ PagesOf(entries) = 0
        /\ Cardinality(AttemptedOf(entries)) = 0
    BY <2>1, NotAttemptedIsFree
  <2>7. /\ BytesOf(entries) <= ChargedBytes /\ PagesOf(entries) <= ChargedPages
        /\ Cardinality(AttemptedOf(entries)) <= Reserved
    BY <1>1, <2>6
  <2> QED
    BY <1>6, <2>4, <2>5, <2>7, DeliveredIsCovered
<1>7. ASSUME NEW n \in Items, ReservationFails(n) PROVE Account'
  <2>1. n \in Nat /\ (IF DeadlinePassed THEN "wall_clock" ELSE "calls") \in Axes
    BY RunAssumption DEF Axes, Items
  <2>2. DeliverNotAttempted(n, IF DeadlinePassed THEN "wall_clock" ELSE "calls")
    BY <1>7 DEF ReservationFails
  <2>3. UNCHANGED meter
    BY <1>7 DEF ReservationFails, IssueBatch, meter
  <2> QED
    BY <1>6, <2>1, <2>2, <2>3
<1>8. ASSUME GrantFails PROVE Account'
  <2>1. DeliverNotAttempted(size, "wall_clock") /\ "wall_clock" \in Axes /\ UNCHANGED meter
    BY <1>8 DEF GrantFails, Axes
  <2> QED
    BY <1>1, <1>6, <2>1
<1>9. ASSUME NEW n \in Items, NEW s \in Services, Reserve(n, s) PROVE Account'
  <2>1. /\ pc = "caller" /\ pc' = "grant" /\ size' = n /\ calls' = calls + n
        /\ bytes' = bytes /\ pages' = pages /\ audit' = audit /\ n \in Nat
    BY <1>9, RunAssumption DEF Reserve, IssueBatch, MayIssue, Items
  <2>2. /\ Reserved = 0 /\ ChargedBytes = 0 /\ ChargedPages = 0
        /\ Reserved' = n /\ ChargedBytes' = 0 /\ ChargedPages' = 0
    BY <2>1 DEF Reserved, ChargedBytes, ChargedPages, InBatch
  <2>3. /\ Reserved' + calls <= Reserved + calls'
        /\ ChargedBytes' + bytes <= ChargedBytes + bytes'
        /\ ChargedPages' + pages <= ChargedPages + pages'
    BY <1>1, <2>1, <2>2
  <2> QED
    BY <1>1, <2>1, <2>2, <2>3, AccountCarries
<1>10. ASSUME GrantBatch \/ Collect \/ \E i \in Items : ItemStep(i) PROVE Account'
  <2>1. /\ UNCHANGED <<meter, audit, size>> /\ pc \in {"grant", "fanout"}
        /\ \/ pc' = "fanout"
           \/ pc' = "bytes" /\ cursor' = 1
    BY <1>10 DEF GrantBatch, Collect, ItemStep, SendFirst, FailUnsent, LastPage, NextPage,
                 PageCap, Arrives, CallFails, FanOutFrame, batch, CommitInv, CommitShape
  <2>2. Reserved' = Reserved /\ ChargedPages' = 0
    BY <2>1 DEF Reserved, InBatch, ChargedPages
  <2>3. ChargedBytes' = 0
    <3>1. CASE pc' = "fanout"
      BY <3>1 DEF ChargedBytes
    <3>2. CASE pc' = "bytes" /\ cursor' = 1
      <4>1. ChargedBytes' = BytesUpTo(0)'
        BY <3>2 DEF ChargedBytes, BytesUpTo, OkUpTo
      <4>2. OkUpTo(0)' = {}
        BY DEF OkUpTo
      <4> QED
        BY <4>1, <4>2, SumOfNothing DEF BytesUpTo
    <3> QED
      BY <2>1, <3>1, <3>2
  <2> QED
    BY <1>2, <2>1, <2>2, <2>3
<1>11. ASSUME CommitBytes \/ BytesCommitted \/ CommitPages \/ PagesCommitted PROVE Account'
  <2>1. /\ ChargedBytes' + bytes = ChargedBytes + bytes'
        /\ ChargedPages' + pages = ChargedPages + pages'
        /\ UNCHANGED <<calls, audit, size>> /\ pc \in InBatch /\ pc' \in InBatch
    BY <1>1, <1>11, CommitBytesCharges, CommitPagesCharges
  <2>2. ChargedBytes' \in Nat /\ ChargedPages' \in Nat
    <3>1. /\ (\A k \in 0..MaxItems : BytesUpTo(k) \in Nat)'
          /\ (\A k \in 0..MaxItems : PagesUpTo(k) \in Nat)'
      <4>1. item' = item
        BY <1>11 DEF CommitBytes, BytesCommitted, CommitPages, PagesCommitted, CommitFrame
      <4>2. \A k : (BytesUpTo(k))' = BytesUpTo(k) /\ (PagesUpTo(k))' = PagesUpTo(k)
        BY <4>1 DEF BytesUpTo, PagesUpTo, OkUpTo
      <4> QED
        BY <4>2, PrefixBytes, PrefixPages
    <3>2. /\ size' \in 0..MaxItems /\ cursor' - 1 \in 0..MaxItems
          /\ trip'.bytes \in 0..MaxItems /\ trip'.pages \in 0..MaxItems
          /\ trip'.bytes # 0 => trip'.bytes - 1 \in 0..MaxItems
          /\ trip'.pages # 0 => trip'.pages - 1 \in 0..MaxItems
      <4>1. /\ size' \in 0..MaxItems /\ cursor' \in 1..(MaxItems + 1)
            /\ trip' \in [bytes : 0..MaxItems, pages : 0..MaxItems]
        BY ONLY TypeOK' DEF TypeOK
      <4>2. trip'.bytes \in 0..MaxItems /\ trip'.pages \in 0..MaxItems
        BY <4>1
      <4>3. /\ \A t \in 0..MaxItems : t # 0 => t - 1 \in 0..MaxItems
            /\ \A c \in 1..(MaxItems + 1) : c - 1 \in 0..MaxItems
        BY RunAssumption
      <4> QED
        BY ONLY <4>1, <4>2, <4>3, Zenon
    <3> QED
      BY <3>1, <3>2 DEF ChargedBytes, ChargedPages
  <2>3. Reserved' = Reserved
    BY <2>1 DEF Reserved
  <2>4. /\ Reserved' + calls <= Reserved + calls'
        /\ ChargedBytes' + bytes <= ChargedBytes + bytes'
        /\ ChargedPages' + pages <= ChargedPages + pages'
    BY ONLY <1>1, <2>1, <2>2, <2>3, NoMore
  <2> QED
    BY <1>1, <2>1, <2>2, <2>4, AccountCarries
<1>12. ASSUME Settle PROVE Account'
  <2>1. PICK entries : entries = [i \in 1..size |-> Verdict(i, NextSeq(i))]
    OBVIOUS
  <2>2. pc = "settle" /\ Deliver(entries) /\ UNCHANGED meter
    BY <1>12, <2>1 DEF Settle
  <2>3. Batch(size, entries)
    <3>1. 1..size \subseteq Items /\ Len(audit) \in Nat
      BY RunAssumption, LenProperties DEF TypeOK, Items
    <3>2. \A i \in 1..size : NextSeq(i) \in Nat
      BY <3>1 DEF NextSeq
    <3>3. \A i \in 1..size : entries[i] \in Entry /\ entries[i].seq = NextSeq(i)
      <4> SUFFICES ASSUME NEW i \in 1..size
                   PROVE  entries[i] \in Entry /\ entries[i].seq = NextSeq(i)
        OBVIOUS
      <4>1. Verdict(i, NextSeq(i)) \in Entry /\ entries[i] = Verdict(i, NextSeq(i))
        BY <2>1, <3>1, <3>2, VerdictIsAnEntry DEF TypeOK
      <4>2. Verdict(i, NextSeq(i)).seq = NextSeq(i)
        BY DEF Verdict
      <4> QED
        BY <4>1, <4>2
    <3> QED
      BY <2>1, <3>3 DEF Batch
  <2>4. BytesOf(entries) <= ChargedBytes /\ PagesOf(entries) <= ChargedPages
    BY <2>1, <2>2, VerdictsAreCharged
  <2>5. Cardinality(AttemptedOf(entries)) <= Reserved
    <3>1. Cardinality(AttemptedOf(entries)) <= size
      BY <1>1, <2>2, <2>3, DeliveredSums
    <3> QED
      BY <2>2, <3>1 DEF Reserved, InBatch
  <2> QED
    BY <1>1, <2>2, <2>3, <2>4, <2>5, DeliveredIsCovered
<1>13. ASSUME CallerStep PROVE Account'
  <2>1. Items # {}
    BY RunAssumption DEF Items
  <2> QED
    BY <1>5, <1>7, <1>9, <1>13, <2>1 DEF CallerStep
<1> QED
  BY <1>4, <1>8, <1>10, <1>11, <1>12, <1>13 DEF Next, SettleStep, Finished

(* Between the batches nothing is reserved or charged but what the trail has. *)
LEMMA AccountPays ==
  ASSUME TypeOK, Account
  PROVE  ResultsArePaidFor
<1>1. ASSUME pc \in {"caller", "record", "done"}
      PROVE  /\ Cardinality(AttemptedOf(audit)) <= calls
             /\ BytesOf(audit) <= bytes
             /\ PagesOf(audit) <= pages
  <2>1. Reserved = 0 /\ ChargedBytes = 0 /\ ChargedPages = 0
    BY <1>1 DEF Reserved, ChargedBytes, ChargedPages, InBatch
  <2>2. /\ BytesOf(audit) \in Nat /\ PagesOf(audit) \in Nat
        /\ Cardinality(AttemptedOf(audit)) \in Nat
    BY TrailIsCounted DEF TypeOK
  <2> QED
    BY <2>1, <2>2 DEF Account
<1>2. {k \in DOMAIN audit : audit[k].kind \in {"ok"}} = OkOf(audit)
  BY DEF OkOf
<1>3. {k \in DOMAIN audit : audit[k].kind \in {"ok", "failed", "cut"}} = AttemptedOf(audit)
  BY DEF AttemptedOf
<1> QED
  BY <1>1, <1>2, <1>3 DEF ResultsArePaidFor, BytesOf, PagesOf

(* What Settle leaves behind, before and between the batches. *)
LEMMA SettledInvariant ==
  Spec => [](CommitInv /\ Account /\ VerdictsFollowInputOrder /\ TypeOK)
<1>1. Init => CommitInv /\ Account /\ VerdictsFollowInputOrder
  <2> SUFFICES ASSUME Init PROVE Account /\ VerdictsFollowInputOrder
    BY InitCommit
  <2>1. VerdictsFollowInputOrder
    BY DEF Init, VerdictsFollowInputOrder, BatchSettled
  <2>2. OkOf(audit) = {} /\ AttemptedOf(audit) = {}
    BY DEF Init, OkOf, AttemptedOf
  <2>3. /\ BytesOf(audit) = 0 /\ PagesOf(audit) = 0
        /\ Cardinality(AttemptedOf(audit)) = 0
    BY <2>2, SumOfNothing, FS_EmptySet DEF BytesOf, PagesOf
  <2>4. /\ Reserved = 0 /\ ChargedBytes = 0 /\ ChargedPages = 0
        /\ calls = 0 /\ bytes = 0 /\ pages = 0
    BY DEF Init, Reserved, ChargedBytes, ChargedPages, InBatch
  <2>5. Account
    BY <2>3, <2>4 DEF Account
  <2> QED
    BY <2>1, <2>5
<1>2. /\ CommitInv /\ Account /\ VerdictsFollowInputOrder
      /\ IInv /\ IInv' /\ [Next]_vars
      => (CommitInv /\ Account /\ VerdictsFollowInputOrder)'
  <2> SUFFICES ASSUME CommitInv, Account, VerdictsFollowInputOrder, IInv, IInv', [Next]_vars
               PROVE  CommitInv' /\ Account' /\ VerdictsFollowInputOrder'
    OBVIOUS
  <2>1. TypeOK /\ TypeOK' /\ WithinBudget
    BY DEF IInv
  <2> QED
    BY <2>1, StepCommit, StepAccount, StepVerdicts
<1>3. IInv => TypeOK
  BY DEF IInv
<1> QED
  BY <1>1, <1>2, <1>3, InductiveInvariant, PTL DEF Spec

(* Invariant I7: which items of a batch count is a function of the items in *)
(* input order and of what was left when the batch started.                 *)
THEOREM VerdictsHold == Spec => []VerdictsFollowInputOrder
BY SettledInvariant, PTL

(* The meter covers every attempted call and every result that counted. *)
THEOREM ResultsPaidFor == Spec => []ResultsArePaidFor
<1>1. TypeOK /\ Account => ResultsArePaidFor
  BY AccountPays
<1> QED
  BY <1>1, SettledInvariant, PTL

----------------------------------------------------------------------------
(* Progress: the part of RunEnds that is safety.                           *)

(* Every slot of a reserved batch holds a call until the batch is settled. *)
SlotsHoldCalls ==
  pc \in {"grant", "fanout"} => \A i \in 1..size : item[i].state # "absent"

(* No step of the fan-out empties a slot. *)
LEMMA StepSlots ==
  ASSUME TypeOK, SlotsHoldCalls, [Next]_vars
  PROVE  SlotsHoldCalls'
<1> SUFFICES ASSUME pc' \in {"grant", "fanout"} PROVE SlotsHoldCalls'
  BY DEF SlotsHoldCalls
<1>1. ASSUME NEW n \in Items, NEW s \in Services, Reserve(n, s) PROVE SlotsHoldCalls'
  <2>1. size' = n /\ 1..n \subseteq Items
    BY <1>1, RunAssumption DEF Reserve, IssueBatch, Items
  <2> QED
    BY <1>1, <2>1 DEF Reserve, Fresh, SlotsHoldCalls
<1>2. ASSUME UNCHANGED <<item, size>>, pc \in {"grant", "fanout"} PROVE SlotsHoldCalls'
  BY <1>2 DEF SlotsHoldCalls
<1>3. ASSUME NEW i \in Items, ItemStep(i) PROVE SlotsHoldCalls'
  <2>1. pc = "fanout" /\ size' = size
    BY <1>3 DEF ItemStep, SendFirst, FailUnsent, LastPage, NextPage, PageCap, CallFails,
                Arrives, FanOutFrame
  <2>2. \A j \in Items : item'[j].state = item[j].state \/ item'[j].state # "absent"
    <3>1. item[i] \in Item
      BY DEF TypeOK
    <3>3. SendFirst(i) \/ FailUnsent(i) \/ (\E why \in Reasons : CallFails(i, why))
            => item'[i].state # "absent"
      BY <3>1 DEF SendFirst, FailUnsent, CallFails, TypeOK, Item
    <3>4. ASSUME NEW b \in PageSizes, LastPage(i, b, "ok", "none") \/ LastPage(i, b, "failed", "upstream")
                                      \/ NextPage(i, b) \/ PageCap(i, b)
          PROVE  item'[i].state = item[i].state \/ item'[i].state # "absent"
      <4>1. /\ [Answered(i, b) EXCEPT !.state = "ok", !.why = "none"].state = "ok"
            /\ [Answered(i, b) EXCEPT !.state = "failed", !.why = "upstream"].state = "failed"
            /\ [Answered(i, b) EXCEPT !.state = "failed", !.why = "page_cap"].state = "failed"
            /\ [Answered(i, b) EXCEPT !.sentAt = now].state = item[i].state
        BY <3>1 DEF Answered, Item
      <4>2. item'[i] \in {[Answered(i, b) EXCEPT !.state = "ok", !.why = "none"],
                          [Answered(i, b) EXCEPT !.state = "failed", !.why = "upstream"],
                          [Answered(i, b) EXCEPT !.state = "failed", !.why = "page_cap"],
                          [Answered(i, b) EXCEPT !.sentAt = now]}
        BY <3>4 DEF LastPage, NextPage, PageCap, TypeOK
      <4> QED
        BY <4>1, <4>2
    <3>5. \A j \in Items : j # i => item'[j] = item[j]
      <4>1. \E x : item' = [item EXCEPT ![i] = x]
        BY <1>3 DEF ItemStep, SendFirst, FailUnsent, LastPage, NextPage, PageCap, CallFails
      <4>2. PICK x : item' = [item EXCEPT ![i] = x]
        BY <4>1
      <4> QED
        BY <4>2 DEF TypeOK
    <3> QED
      BY <1>3, <3>3, <3>4, <3>5 DEF ItemStep
  <2>3. 1..size \subseteq Items
    BY RunAssumption DEF TypeOK, Items
  <2> QED
    BY <2>1, <2>2, <2>3 DEF SlotsHoldCalls
<1>4. ASSUME CallerStep PROVE \E n \in Items, s \in Services : Reserve(n, s)
  BY <1>4 DEF CallerStep, RefuseBatch, MayIssue, ReservationFails, DeliverNotAttempted,
              Deliver, ScriptReturns, ScriptFails, EndScript
<1>5. ASSUME SettleStep PROVE GrantBatch
  BY <1>5 DEF SettleStep, GrantFails, DeliverNotAttempted, Deliver, Collect, CommitBytes,
              BytesCommitted, CommitPages, PagesCommitted, Settle
<1>6. ASSUME GrantBatch \/ Tick \/ UNCHANGED vars
      PROVE  UNCHANGED <<item, size>> /\ pc \in {"grant", "fanout"}
  BY <1>6 DEF GrantBatch, Tick, batch, vars
<1>7. ~Begin /\ ~RefuseRun /\ ~RecordStep /\ ~Abandon
  BY DEF Begin, RefuseRun, RecordStep, Record, RecordFails, Abandon
<1> QED
  BY <1>1, <1>2, <1>3, <1>4, <1>5, <1>6, <1>7 DEF Next, Finished

(* A batch whose slots are not all filled has a call in flight, or one that *)
(* has its permit for the taking: nobody waits for a semaphore that nobody  *)
(* holds, and a ceiling of zero still lets one call through (fan_out,       *)
(* ConcurrencyLimits::build).                                               *)
FanOutMoves ==
  pc = "fanout" /\ ~AllFilled =>
    \E i \in 1..size : \/ item[i].state = "sending"
                       \/ item[i].state = "queued" /\ permits[item[i].svc] > 0

(* The fan-out never stalls, for any number of calls, services and permits. *)
THEOREM FanOutNeverStalls == Spec => []FanOutMoves
<1>1. Init => SlotsHoldCalls
  BY DEF Init, SlotsHoldCalls
<1>2. IInv /\ SlotsHoldCalls /\ [Next]_vars => SlotsHoldCalls'
  BY StepSlots DEF IInv
<1>3. IInv /\ SlotsHoldCalls => FanOutMoves
  <2> SUFFICES ASSUME IInv, SlotsHoldCalls, pc = "fanout", NEW i \in 1..size,
                      item[i].state \notin {"ok", "failed"}
               PROVE  \E k \in 1..size : \/ item[k].state = "sending"
                                         \/ item[k].state = "queued"
                                              /\ permits[item[k].svc] > 0
    BY DEF FanOutMoves, AllFilled
  <2>1. i \in Items /\ item[i] \in Item /\ item[i].state # "absent"
    BY RunAssumption DEF IInv, TypeOK, Items, SlotsHoldCalls
  <2>2. item[i].state \in {"queued", "sending"} /\ item[i].svc \in Services
    BY <2>1 DEF Item, ItemState
  <2>3. CASE permits[item[i].svc] = 0
    <3> DEFINE s == item[i].svc
    <3>1. /\ permits[s] + Cardinality(InFlight(s)) = Ceiling(s)
          /\ Ceiling(s) \in Nat /\ Ceiling(s) >= 1 /\ Cardinality(InFlight(s)) \in Nat
      BY <2>2, CeilingIsPositive, InFlightIsFinite DEF IInv, PermitsConserved
    <3>2. Cardinality(InFlight(s)) # 0
      BY <2>3, <3>1
    <3>3. PICK k \in InFlight(s) : TRUE
      <4>1. InFlight(s) # {}
        BY <3>2, FS_EmptySet
      <4> QED
        BY <4>1
    <3>4. k \in Items /\ item[k].state = "sending"
      BY <3>3 DEF InFlight
    <3>5. k \in 1..size
      <4>1. ~(k > size)
        BY <3>4 DEF IInv, BatchShape
      <4> QED
        BY <3>4, <4>1, RunAssumption DEF IInv, TypeOK, Items
    <3> QED
      BY <3>4, <3>5
  <2>4. CASE permits[item[i].svc] # 0
    <3>1. permits[item[i].svc] \in Nat
      BY <2>2 DEF IInv, TypeOK
    <3> QED
      BY <2>2, <2>4, <3>1
  <2> QED
    BY <2>3, <2>4
<1> QED
  BY <1>1, <1>2, <1>3, InductiveInvariant, PTL DEF Spec

----------------------------------------------------------------------------
(* The overrun.                                                            *)

(* The requests item i has cost so far, the one in flight and the one that *)
(* failed included.                                                        *)
Requests(i) ==
  item[i].pages + (IF item[i].state = "sending" \/ item[i].why \in {"timeout", "send"}
                   THEN 1 ELSE 0)

(* The batch's requests: the k-th one of item i is <<i, k>>. *)
Asked == {r \in (1..size) \X (1..PagesEach) : r[2] <= Requests(r[1])}

(* The moment until which they would have kept a caller who made them one  *)
(* after another.                                                          *)
PaidUntil == (WallClock - grant.time) + Cardinality(Asked) * grant.time

QueueShape ==
  /\ \A i \in Items : item[i].state = "queued" => Requests(i) = 0
  /\ pc = "grant" => \A i \in 1..size : item[i].state = "queued"
  /\ pc = "fanout" => PagesEach >= 1

(* While a call is open the clock is within what the requests account for, *)
(* and the timeout of each request in flight is too.                       *)
Pace ==
  pc = "fanout" /\ WallClock # NoLimit =>
    /\ \A i \in 1..size : Requests(i) <= PagesEach
    /\ (\E i \in 1..size : Open(i)) => now <= PaidUntil
    /\ \A i \in 1..size :
         item[i].state = "sending" => item[i].sentAt + grant.time <= PaidUntil

(* What the arithmetic needs of a product. *)
LEMMA OneMore ==
  ASSUME NEW n \in Nat, NEW t \in Nat
  PROVE  n * t \in Nat /\ (n + 1) * t = n * t + t
OBVIOUS

(* A product grows with its factor. *)
LEMMA MoreCosts ==
  ASSUME NEW n \in Nat, NEW m \in Nat, n <= m, NEW t \in Nat
  PROVE  n * t <= m * t
<1>1. PICK d \in Nat : m = n + d
  <2>1. m - n \in Nat /\ m = n + (m - n)
    OBVIOUS
  <2> QED
    BY <2>1
<1>2. d * t \in Nat /\ n * t \in Nat
  OBVIOUS
<1>3. (n + d) * t = n * t + d * t
  OBVIOUS
<1> QED
  BY <1>1, <1>2, <1>3

(* The pairs of a grid are as many as its sides make. *)
LEMMA PairsAreCounted ==
  ASSUME NEW a \in Nat, NEW b \in Nat
  PROVE  /\ IsFiniteSet((1..a) \X (1..b))
         /\ Cardinality((1..a) \X (1..b)) = a * b
<1> DEFINE S == 1..a
           T == 1..b
<1>1. IsFiniteSet(S) /\ Cardinality(S) = a /\ IsFiniteSet(T) /\ Cardinality(T) = b
  BY FS_Interval
<1> HIDE DEF S, T
<1>2. IsFiniteSet(S \X T) /\ Cardinality(S \X T) = Cardinality(S) * Cardinality(T)
  BY <1>1, FS_Product
<1> QED
  BY <1>1, <1>2 DEF S, T

(* The pages of a call are a number, whatever the grant. *)
LEMMA PagesEachIsNat ==
  ASSUME TypeOK
  PROVE  PagesEach \in Nat
BY RunAssumption DEF PagesEach, LowerOf, Within, TypeOK, Grant, Limit

(* A batch's requests are no more than its calls with all their pages. *)
LEMMA AskedIsBounded ==
  ASSUME TypeOK
  PROVE  /\ IsFiniteSet(Asked) /\ Cardinality(Asked) \in Nat
         /\ size \in Nat /\ size * PagesEach \in Nat
         /\ Cardinality(Asked) <= size * PagesEach
<1>1. size \in Nat /\ PagesEach \in Nat /\ size * PagesEach \in Nat
  <2>1. size \in Nat
    BY RunAssumption DEF TypeOK
  <2> QED
    BY <2>1, PagesEachIsNat
<1>3. /\ IsFiniteSet((1..size) \X (1..PagesEach))
      /\ Cardinality((1..size) \X (1..PagesEach)) = size * PagesEach
  BY <1>1, PairsAreCounted
<1>4. Asked \subseteq (1..size) \X (1..PagesEach)
  BY DEF Asked
<1>5. IsFiniteSet(Asked) /\ Cardinality(Asked) <= Cardinality((1..size) \X (1..PagesEach))
  BY <1>3, <1>4, FS_Subset
<1> QED
  BY <1>1, <1>3, <1>5, FS_CardinalityType

(* A step of an item is a request more of an open item, sent now, or asks *)
(* for nothing and leaves the item in no flight.                          *)
Sends(i) ==
  /\ Open(i)
  /\ item'[i].state = "sending" /\ item'[i].sentAt = now
  /\ Requests(i)' = Requests(i) + 1
  /\ Requests(i) + 1 <= PagesEach
Ends(i) ==
  /\ Open(i)
  /\ item'[i].state \in {"ok", "failed"}
  /\ Requests(i)' = Requests(i)

(* The items of the fan-out send or end one at a time. *)
LEMMA ItemStepPace ==
  ASSUME TypeOK, BatchShape, QueueShape, NEW i \in Items, ItemStep(i)
  PROVE  /\ i \in 1..size
         /\ Sends(i) \/ Ends(i)
         /\ \A j \in Items : j # i => item'[j] = item[j]
<1>1. item[i] \in Item /\ item \in [Items -> Item] /\ now \in Nat
  BY DEF TypeOK
<1>2. item[i].pages \in Nat
  BY <1>1 DEF Item
<1>3. ASSUME NEW b \in PageSizes
      PROVE  Answered(i, b) = [item[i] EXCEPT !.pages = @ + 1, !.bytes = @ + b]
  BY DEF Answered
<1>4. ASSUME SendFirst(i) PROVE Sends(i)
  <2>1. /\ item[i].state = "queued"
        /\ item' = [item EXCEPT ![i].state = "sending", ![i].sentAt = now]
    BY <1>4 DEF SendFirst
  <2>2. Requests(i) = 0
    BY <2>1 DEF QueueShape
  <2>3. /\ item'[i].state = "sending" /\ item'[i].sentAt = now
        /\ item'[i].pages = item[i].pages
    BY <1>1, <2>1 DEF Item
  <2>4. item[i].pages = 0
    BY <1>2, <2>1, <2>2 DEF Requests
  <2>5. Requests(i)' = 1
    BY <2>3, <2>4 DEF Requests
  <2>6. Open(i)
    BY <2>1 DEF Open
  <2>7. PagesEach >= 1
    BY <1>4 DEF QueueShape, SendFirst
  <2> QED
    BY <2>2, <2>3, <2>5, <2>6, <2>7 DEF Sends
<1>5. ASSUME FailUnsent(i) PROVE Ends(i)
  <2>1. /\ item[i].state = "queued"
        /\ item' = [item EXCEPT ![i].state = "failed", ![i].why = "args"]
    BY <1>5 DEF FailUnsent
  <2>2. Requests(i) = 0
    BY <2>1 DEF QueueShape
  <2>3. /\ item'[i].state = "failed" /\ item'[i].why = "args"
        /\ item'[i].pages = item[i].pages
    BY <1>1, <2>1 DEF Item
  <2>4. item[i].pages = 0
    BY <1>2, <2>1, <2>2 DEF Requests
  <2>5. Requests(i)' = 0
    BY <2>3, <2>4 DEF Requests
  <2>6. Open(i)
    BY <2>1 DEF Open
  <2> QED
    BY <2>2, <2>3, <2>5, <2>6 DEF Ends
<1>6. ASSUME NEW b \in PageSizes, NEW state \in {"ok", "failed"},
             NEW why \in {"none", "upstream", "page_cap"},
             item[i].state = "sending",
             item' = [item EXCEPT ![i] = [Answered(i, b) EXCEPT !.state = state, !.why = why]]
      PROVE  Ends(i)
  <2>1. /\ item'[i].state = state /\ item'[i].why = why
        /\ item'[i].pages = item[i].pages + 1
    BY <1>1, <1>3, <1>6 DEF Item
  <2>2. Requests(i)' = item[i].pages + 1 /\ Requests(i) = item[i].pages + 1
    BY <1>2, <1>6, <2>1 DEF Requests
  <2>3. Open(i)
    BY <1>6 DEF Open
  <2> QED
    BY <2>1, <2>2, <2>3 DEF Ends
<1>7. ASSUME NEW b \in PageSizes,
             LastPage(i, b, "ok", "none") \/ LastPage(i, b, "failed", "upstream")
               \/ PageCap(i, b)
      PROVE  Ends(i)
  <2>1. PICK state \in {"ok", "failed"}, why \in {"none", "upstream", "page_cap"} :
          item' = [item EXCEPT ![i] = [Answered(i, b) EXCEPT !.state = state, !.why = why]]
    BY <1>7 DEF LastPage, PageCap
  <2>2. item[i].state = "sending"
    BY <1>7 DEF LastPage, PageCap, Arrives
  <2> QED
    BY <1>6, <2>1, <2>2
<1>8. ASSUME NEW b \in PageSizes, NextPage(i, b) PROVE Sends(i)
  <2>1. /\ item[i].state = "sending"
        /\ item' = [item EXCEPT ![i] = [Answered(i, b) EXCEPT !.sentAt = now]]
        /\ item[i].pages + 1 < PageBound
        /\ Within(grant.pages, item[i].pages + 2)
    BY <1>8 DEF NextPage, Arrives
  <2>2. /\ item'[i].state = "sending" /\ item'[i].sentAt = now
        /\ item'[i].pages = item[i].pages + 1
    BY <1>1, <1>3, <2>1 DEF Item
  <2>3. Requests(i) = item[i].pages + 1 /\ Requests(i)' = item[i].pages + 2
    BY <1>2, <2>1, <2>2 DEF Requests
  <2>4. item[i].pages + 2 <= PagesEach
    BY <1>2, <2>1, RunAssumption DEF PagesEach, LowerOf, Within
  <2>5. Open(i)
    BY <2>1 DEF Open
  <2> QED
    BY <1>2, <2>2, <2>3, <2>4, <2>5 DEF Sends
<1>9. ASSUME NEW why \in Reasons, CallFails(i, why) PROVE Ends(i)
  <2>1. /\ item[i].state = "sending" /\ why \in {"timeout", "send"}
        /\ item' = [item EXCEPT ![i].state = "failed", ![i].why = why]
    BY <1>9 DEF CallFails
  <2>2. /\ item'[i].state = "failed" /\ item'[i].why = why
        /\ item'[i].pages = item[i].pages
    BY <1>1, <2>1 DEF Item
  <2>3. Requests(i)' = item[i].pages + 1 /\ Requests(i) = item[i].pages + 1
    BY <1>2, <2>1, <2>2 DEF Requests
  <2>4. Open(i)
    BY <2>1 DEF Open
  <2> QED
    BY <2>2, <2>3, <2>4 DEF Ends
<1>10. Sends(i) \/ Ends(i)
  BY <1>4, <1>5, <1>7, <1>8, <1>9 DEF ItemStep
<1>11. \A j \in Items : j # i => item'[j] = item[j]
  <2>1. \E x : item' = [item EXCEPT ![i] = x]
    BY DEF ItemStep, SendFirst, FailUnsent, LastPage, NextPage, PageCap, CallFails
  <2> QED
    BY <1>1, <2>1
<1>12. i \in 1..size
  <2>1. item[i].state # "absent"
    BY <1>10 DEF Sends, Ends, Open
  <2>2. ~(i > size)
    BY <2>1 DEF BatchShape
  <2> QED
    BY <2>2, RunAssumption DEF TypeOK, Items
<1> QED
  BY <1>10, <1>11, <1>12

(* A request more is one more to pay for, and pays for the time it may take. *)
LEMMA SendingIsPaid ==
  ASSUME TypeOK, BatchShape, QueueShape, Pace, WallClock # NoLimit, pc = "fanout",
         NEW i \in 1..size, Sends(i),
         \A j \in Items : j # i => item'[j] = item[j],
         size' = size, grant' = grant
  PROVE  PaidUntil' = PaidUntil + grant.time
<1>1. i \in Items /\ 1..size \subseteq Items
  BY RunAssumption DEF TypeOK, Items
<1>2. Requests(i) \in Nat /\ PagesEach \in Nat /\ PagesEach' = PagesEach
  <2>1. item[i].pages \in Nat
    BY <1>1 DEF TypeOK, Item
  <2> QED
    BY <2>1, PagesEachIsNat DEF Requests, PagesEach
<1> DEFINE r == <<i, Requests(i) + 1>>
<1>3. r \in (1..size) \X (1..PagesEach) /\ r \notin Asked
  BY <1>2 DEF Sends, Asked
<1>4. \A j \in 1..size : j # i => Requests(j)' = Requests(j)
  BY <1>1 DEF Requests
<1>5. Asked' = Asked \cup {r}
  <2>1. Asked' = {q \in (1..size) \X (1..PagesEach) : q[2] <= Requests(q[1])'}
    BY <1>2 DEF Asked
  <2>2. ASSUME NEW q \in (1..size) \X (1..PagesEach)
        PROVE  q[2] <= Requests(q[1])' <=> q[2] <= Requests(q[1]) \/ q = r
    <3>1. CASE q[1] = i
      <4>1. Requests(q[1])' = Requests(i) + 1
        BY <3>1 DEF Sends
      <4>2. q[2] \in Nat /\ q = <<i, q[2]>>
        BY <1>2, <3>1
      <4> QED
        BY <1>2, <3>1, <4>1, <4>2
    <3>2. CASE q[1] # i
      BY <1>4, <3>2
    <3> QED
      BY <3>1, <3>2
  <2> QED
    BY <1>3, <2>1, <2>2 DEF Asked
<1>6. IsFiniteSet(Asked) /\ Cardinality(Asked) \in Nat
  BY AskedIsBounded
<1>7. Cardinality(Asked') = Cardinality(Asked) + 1
  BY <1>3, <1>5, <1>6, FS_AddElement
<1>8. grant.time \in Nat /\ WallClock \in Nat
  BY RunAssumption DEF TypeOK, Grant, Limit
<1>9. /\ Cardinality(Asked) * grant.time \in Nat
      /\ (Cardinality(Asked) + 1) * grant.time = Cardinality(Asked) * grant.time + grant.time
  BY <1>6, <1>8, OneMore
<1>10. PaidUntil' = (WallClock - grant.time) + (Cardinality(Asked) + 1) * grant.time
  BY <1>7 DEF PaidUntil
<1> QED
  BY <1>8, <1>9, <1>10 DEF PaidUntil

(* What has been paid for is a moment of the clock. *)
LEMMA PaidUntilIsInt ==
  ASSUME TypeOK, WallClock # NoLimit
  PROVE  PaidUntil \in Int /\ grant.time \in Nat
<1>1. grant.time \in Nat /\ WallClock \in Nat
  BY RunAssumption DEF TypeOK, Grant, Limit
<1>2. Cardinality(Asked) * grant.time \in Nat
  BY <1>1, AskedIsBounded, OneMore
<1> QED
  BY <1>1, <1>2 DEF PaidUntil

(* A step of an item keeps the queue and the pace. *)
LEMMA ItemStepKeepsPace ==
  ASSUME TypeOK, BatchShape, QueueShape, Pace, NEW i \in Items, ItemStep(i)
  PROVE  QueueShape' /\ Pace'
<1>1. /\ pc = "fanout" /\ pc' = "fanout" /\ size' = size /\ grant' = grant /\ now' = now
  BY DEF ItemStep, SendFirst, FailUnsent, LastPage, NextPage, PageCap, CallFails,
         Arrives, FanOutFrame
<1>2. /\ i \in 1..size
      /\ Sends(i) \/ Ends(i)
      /\ \A j \in Items : j # i => item'[j] = item[j]
  BY ItemStepPace
<1>3. 1..size \subseteq Items
  BY RunAssumption DEF TypeOK, Items
<1>4. PagesEach' = PagesEach
  BY <1>1 DEF PagesEach
<1>5. \A j \in Items : j # i => Requests(j)' = Requests(j) /\ Open(j)' = Open(j)
  BY <1>2 DEF Requests, Open
<1>6. item'[i].state # "queued"
  BY <1>2 DEF Sends, Ends
<1>7. QueueShape'
  BY <1>1, <1>2, <1>4, <1>5, <1>6 DEF QueueShape
<1>8. ASSUME WallClock # NoLimit
      PROVE  /\ \A j \in 1..size : Requests(j)' <= PagesEach
             /\ now <= PaidUntil'
             /\ \A j \in 1..size :
                  item'[j].state = "sending" => item'[j].sentAt + grant.time <= PaidUntil'
  <2>1. /\ \A j \in 1..size : Requests(j) <= PagesEach
        /\ now <= PaidUntil
        /\ \A j \in 1..size :
             item[j].state = "sending" => item[j].sentAt + grant.time <= PaidUntil
    BY <1>1, <1>2, <1>8 DEF Pace, Sends, Ends
  <2>2. /\ PaidUntil \in Int /\ grant.time \in Nat /\ now \in Nat
        /\ \A j \in 1..size : item[j].sentAt \in Nat
    BY <1>3, <1>8, PaidUntilIsInt DEF TypeOK, Item
  <2>3. CASE Sends(i)
    <3>1. PaidUntil' = PaidUntil + grant.time
      BY <1>1, <1>2, <1>8, <2>3, SendingIsPaid
    <3>2. \A j \in 1..size : Requests(j)' <= PagesEach
      BY <1>3, <1>5, <2>1, <2>3 DEF Sends
    <3>3. ASSUME NEW j \in 1..size, item'[j].state = "sending"
          PROVE  item'[j].sentAt + grant.time <= PaidUntil + grant.time
      <4>1. CASE j = i
        BY <2>1, <2>2, <2>3, <4>1 DEF Sends
      <4>2. CASE j # i
        <5>1. item'[j] = item[j]
          BY <1>2, <1>3, <4>2
        <5>2. item[j].sentAt + grant.time <= PaidUntil
          BY <2>1, <3>3, <5>1
        <5> QED
          BY <2>2, <5>1, <5>2
      <4> QED
        BY <4>1, <4>2
    <3> QED
      BY <2>1, <2>2, <3>1, <3>2, <3>3
  <2>4. CASE Ends(i)
    <3>1. \A j \in 1..size : Requests(j)' = Requests(j)
      BY <1>3, <1>5, <2>4 DEF Ends
    <3>2. Asked' = Asked
      BY <1>1, <1>4, <3>1 DEF Asked
    <3>3. PaidUntil' = PaidUntil
      BY <1>1, <3>2 DEF PaidUntil
    <3>4. ASSUME NEW j \in 1..size, item'[j].state = "sending"
          PROVE  item'[j].sentAt + grant.time <= PaidUntil
      <4>1. j # i
        BY <2>4, <3>4 DEF Ends
      <4>2. item'[j] = item[j]
        BY <1>2, <1>3, <4>1
      <4> QED
        BY <2>1, <3>4, <4>2
    <3> QED
      BY <2>1, <3>1, <3>3, <3>4
  <2> QED
    BY <1>2, <2>3, <2>4
<1>9. Pace'
  BY <1>1, <1>4, <1>8 DEF Pace
<1> QED
  BY <1>7, <1>9

(* While a call is open and the clock may move, one is in flight. *)
LEMMA SomeoneIsSending ==
  ASSUME IInv, pc = "fanout", \A k \in Items : MayWait(k),
         NEW i \in 1..size, Open(i)
  PROVE  \E k \in 1..size : item[k].state = "sending"
<1>1. i \in Items /\ item[i].svc \in Services
  BY RunAssumption DEF IInv, TypeOK, Items, Item
<1>2. CASE item[i].state = "sending"
  BY <1>2
<1>3. CASE item[i].state = "queued"
  <2> DEFINE s == item[i].svc
  <2>1. permits[s] = 0
    BY <1>1, <1>3 DEF MayWait
  <2>2. /\ permits[s] + Cardinality(InFlight(s)) = Ceiling(s)
        /\ Ceiling(s) \in Nat /\ Ceiling(s) >= 1 /\ Cardinality(InFlight(s)) \in Nat
    BY <1>1, CeilingIsPositive, InFlightIsFinite DEF IInv, PermitsConserved
  <2>3. InFlight(s) # {}
    BY <2>1, <2>2, FS_EmptySet
  <2>4. PICK k \in InFlight(s) : TRUE
    BY <2>3
  <2>5. k \in Items /\ item[k].state = "sending"
    BY <2>4 DEF InFlight
  <2>6. ~(k > size)
    BY <2>5 DEF IInv, BatchShape
  <2>7. k \in 1..size
    BY <2>5, <2>6, RunAssumption DEF IInv, TypeOK, Items
  <2> QED
    BY <2>5, <2>7
<1> QED
  BY <1>2, <1>3 DEF Open

(* A tick while a call is open falls before the timeout of one in flight. *)
LEMMA TickKeepsPace ==
  ASSUME IInv, QueueShape, Pace, Tick
  PROVE  QueueShape' /\ Pace'
<1>1. UNCHANGED <<pc, size, item, grant>> /\ now' = now + 1
  BY DEF Tick, batch
<1>2. QueueShape'
  BY <1>1 DEF QueueShape, Requests, PagesEach
<1>3. /\ \A i \in Items : Requests(i)' = Requests(i) /\ Open(i)' = Open(i)
      /\ PagesEach' = PagesEach /\ PaidUntil' = PaidUntil
  BY <1>1 DEF Requests, Open, PagesEach, PaidUntil, Asked
<1>4. 1..size \subseteq Items
  BY RunAssumption DEF IInv, TypeOK, Items
<1>5. ASSUME pc = "fanout", WallClock # NoLimit, NEW i \in 1..size, Open(i)
      PROVE  now + 1 <= PaidUntil
  <2>1. \A k \in Items : MayWait(k)
    BY <1>5 DEF Tick
  <2>2. PICK k \in 1..size : item[k].state = "sending"
    BY <1>5, <2>1, SomeoneIsSending
  <2>3. now - item[k].sentAt < grant.time
    BY <1>4, <2>1, <2>2 DEF MayWait
  <2>4. item[k].sentAt + grant.time <= PaidUntil
    BY <1>5, <2>2 DEF Pace
  <2>5. /\ now \in Nat /\ item[k].sentAt \in Nat
        /\ PaidUntil \in Int /\ grant.time \in Nat
    BY <1>4, <1>5, PaidUntilIsInt DEF IInv, TypeOK, Item
  <2> QED
    BY <2>3, <2>4, <2>5
<1>6. Pace'
  BY <1>1, <1>3, <1>4, <1>5 DEF Pace
<1> QED
  BY <1>2, <1>6

(* A batch starts with nothing asked for and the clock at the grant. *)
LEMMA GrantKeepsPace ==
  ASSUME TypeOK, WithinBudget, QueueShape, GrantBatch
  PROVE  QueueShape' /\ Pace'
<1>1. /\ pc = "grant" /\ pc' = "fanout" /\ grant' = CallBudget /\ ~DeadlinePassed
      /\ UNCHANGED <<now, size, item>>
  BY DEF GrantBatch
<1>2. 1..size \subseteq Items
  BY RunAssumption DEF TypeOK, Items
<1>3. \A i \in 1..size : item'[i].state = "queued" /\ Requests(i)' = 0
  BY <1>1, <1>2 DEF QueueShape, Requests
<1>4. PagesEach' >= 1 /\ PagesEach' \in Nat
  <2>1. Left(MaxPages, pages) \in Limit
    BY LeftIsALimit, RunAssumption DEF TypeOK, WithinBudget
  <2>2. grant'.pages = IF Left(MaxPages, pages) = 0 THEN 1 ELSE Left(MaxPages, pages)
    BY <1>1 DEF CallBudget
  <2>3. grant'.pages = NoLimit \/ (grant'.pages \in Nat /\ grant'.pages >= 1)
    BY <2>1, <2>2 DEF Limit
  <2> QED
    BY <2>3, RunAssumption DEF PagesEach, LowerOf, Within
<1>5. QueueShape'
  BY <1>1, <1>4 DEF QueueShape, Requests
<1>6. ASSUME WallClock # NoLimit PROVE now <= PaidUntil'
  <2>1. grant'.time = WallClock - now /\ now \in Nat /\ WallClock \in Nat /\ now < WallClock
    BY <1>1, <1>6, RunAssumption DEF CallBudget, DeadlinePassed, TypeOK, Limit
  <2>2. Asked' = {}
    BY <1>1, <1>3 DEF Asked
  <2>3. Cardinality(Asked') = 0
    BY <2>2, FS_EmptySet
  <2>4. PaidUntil' = (WallClock - (WallClock - now)) + 0 * (WallClock - now)
    BY <2>1, <2>3 DEF PaidUntil
  <2> QED
    BY <2>1, <2>4
<1>7. Pace'
  BY <1>1, <1>3, <1>4, <1>6 DEF Pace
<1> QED
  BY <1>5, <1>7

(* Every step keeps the queue and the pace. *)
LEMMA StepPace ==
  ASSUME IInv, QueueShape, Pace, [Next]_vars
  PROVE  QueueShape' /\ Pace'
<1>1. ASSUME UNCHANGED item, pc' \notin {"grant", "fanout"} PROVE QueueShape' /\ Pace'
  BY <1>1 DEF QueueShape, Pace, Requests
<1>2. ASSUME NEW i \in Items, Fresh("absent", item[i].svc) = item'[i]
      PROVE  item'[i].state = "absent"
  BY <1>2 DEF Fresh
<1>3. ASSUME CallerStep PROVE QueueShape' /\ Pace'
  <2>1. ASSUME NEW n \in Items, RefuseBatch(n) PROVE QueueShape' /\ Pace'
    BY <1>1, <2>1 DEF RefuseBatch, MayIssue, batch
  <2>2. ASSUME NEW n \in Items, ReservationFails(n) PROVE QueueShape' /\ Pace'
    <3>1. pc' \in {"caller", "record"} /\ \A i \in Items : item'[i].state = "absent"
      BY <2>2 DEF ReservationFails, DeliverNotAttempted, Deliver, Fresh
    <3> QED
      BY <3>1 DEF QueueShape, Pace
  <2>3. ASSUME NEW n \in Items, NEW s \in Services, Reserve(n, s) PROVE QueueShape' /\ Pace'
    <3>1. /\ pc' = "grant" /\ size' = n
          /\ item' = [i \in Items |-> Fresh(IF i <= n THEN "queued" ELSE "absent", s)]
      BY <2>3 DEF Reserve, IssueBatch
    <3>2. n \in Nat /\ 1..n \subseteq Items
      BY RunAssumption DEF Items
    <3>3. \A i \in 1..n : item'[i].state = "queued"
      BY <3>1, <3>2 DEF Fresh
    <3>4. \A i \in Items : Requests(i)' = 0
      BY <3>1 DEF Requests, Fresh
    <3> QED
      BY <3>1, <3>3, <3>4 DEF QueueShape, Pace
  <2>4. ASSUME ScriptReturns \/ ScriptFails PROVE QueueShape' /\ Pace'
    BY <1>1, <2>4 DEF ScriptReturns, ScriptFails, EndScript, batch
  <2> QED
    BY <1>3, <2>1, <2>2, <2>3, <2>4 DEF CallerStep
<1>4. ASSUME GrantFails PROVE QueueShape' /\ Pace'
  <2>1. pc' \in {"caller", "record"} /\ \A i \in Items : item'[i].state = "absent"
    BY <1>4 DEF GrantFails, DeliverNotAttempted, Deliver, Fresh
  <2> QED
    BY <2>1 DEF QueueShape, Pace
<1>5. ASSUME Collect \/ CommitBytes \/ BytesCommitted \/ CommitPages \/ PagesCommitted
             \/ Settle
      PROVE  QueueShape' /\ Pace'
  BY <1>1, <1>5 DEF Collect, CommitBytes, BytesCommitted, CommitPages, PagesCommitted,
                    CommitFrame, Settle, Deliver, batch
<1>6. ASSUME Begin \/ RefuseRun \/ RecordStep \/ Abandon PROVE QueueShape' /\ Pace'
  BY <1>1, <1>6 DEF Begin, RefuseRun, RecordStep, Record, RecordFails, Abandon, batch
<1>7. ASSUME UNCHANGED vars PROVE QueueShape' /\ Pace'
  BY <1>7 DEF QueueShape, Pace, Requests, Open, PagesEach, PaidUntil, Asked, vars
<1> QED
  BY <1>3, <1>4, <1>5, <1>6, <1>7, ItemStepKeepsPace, TickKeepsPace, GrantKeepsPace
  DEF IInv, Next, SettleStep, Finished

(* However many calls and pages a batch has, and however they wait for one *)
(* another, it does not run past its deadline for longer than its calls,   *)
(* made one after another, could take.                                     *)
THEOREM OverrunHolds == Spec => []OverrunIsBounded
<1>1. Init => QueueShape /\ Pace
  BY DEF Init, QueueShape, Pace, Fresh
<1>2. IInv /\ QueueShape /\ Pace /\ [Next]_vars => QueueShape' /\ Pace'
  BY StepPace
<1>3. IInv /\ Pace => OverrunIsBounded
  <2> SUFFICES ASSUME IInv, Pace, WallClock # NoLimit, pc = "fanout",
                      NEW i \in 1..size, Open(i)
               PROVE  now <= (WallClock - grant.time) + size * PagesEach * grant.time
    BY DEF OverrunIsBounded
  <2>1. now <= (WallClock - grant.time) + Cardinality(Asked) * grant.time
    BY DEF Pace, PaidUntil
  <2>2. /\ Cardinality(Asked) \in Nat /\ size * PagesEach \in Nat
        /\ Cardinality(Asked) <= size * PagesEach
    BY AskedIsBounded DEF IInv
  <2>3. grant.time \in Nat /\ WallClock \in Nat /\ now \in Nat
    BY RunAssumption DEF IInv, TypeOK, Grant, Limit
  <2>4. Cardinality(Asked) * grant.time <= (size * PagesEach) * grant.time
    BY <2>2, <2>3, MoreCosts
  <2> DEFINE x == Cardinality(Asked) * grant.time
             y == size * PagesEach * grant.time
  <2>5. x \in Nat /\ y \in Nat
    BY <2>2, <2>3, OneMore
  <2> HIDE DEF x, y
  <2>6. now <= (WallClock - grant.time) + x /\ x <= y
    BY <2>1, <2>4 DEF x, y
  <2>7. now <= (WallClock - grant.time) + y
    BY <2>3, <2>5, <2>6
  <2> QED
    BY <2>7 DEF y
<1> QED
  BY <1>1, <1>2, <1>3, InductiveInvariant, PTL DEF Spec

=============================================================================
