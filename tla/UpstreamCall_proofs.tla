------------------------- MODULE UpstreamCall_proofs --------------------------
(***************************************************************************)
(* For any number of calls, services, pages and redirects: every hop is    *)
(* checked, requests are bounded, a success is complete, a method is not   *)
(* upgraded again, and a slug has one client.                              *)
(*                                                                         *)
(* But for the pool an action changes one call, from that call alone: the  *)
(* invariant of one call is a predicate on its record, and each action is  *)
(* a lemma on that record.                                                 *)
(***************************************************************************)
EXTENDS UpstreamCall, TLAPS

\* What a page may send.
PerPage == MaxRedirects + 1

\* A page is asked for within the cap.
Paged(k) == k.pc \in {"hop", "wait"} => k.pages < MaxPages

\* The last request on the wire was an allowed one.
Checked(k) ==
  k.count > 0 => /\ k.sent.origin \in Allowlist \ DeniedIPs
                 /\ k.auth <=> k.sent.origin = Bound

\* The pages so far are paid in full, the one under way hop by hop.
Counted(k) ==
  /\ k.pc \in {"idle", "read", "write", "page"} => k.count <= k.pages * PerPage
  /\ k.pc = "hop" => k.count <= k.pages * PerPage + k.hop
  /\ k.pc = "wait" => k.count <= k.pages * PerPage + k.hop + 1
  /\ k.count <= MaxPages * PerPage

Complete(k) ==
  k.pc = "done" => k.pages \in 1..MaxPages /\ ~k.bad /\ ~k.more

\* What `b` is to be sent after `a`.
NoUpgrade(a, b) ==
  /\ b.write => a.write
  /\ b.body => a.body
  /\ a.write /\ b.body => b.write

Sound(k) ==
  /\ k \in Call
  /\ Paged(k)
  /\ Checked(k)
  /\ Counted(k)
  /\ Complete(k)
  /\ NoUpgrade(k.sent, k.request)

\* The pool has every client ever built, each under the slug it was built
\* for, and a call holds the one of its slug.
Pooled ==
  /\ pool \in [Slugs -> Nat] /\ built \in Seq(Services)
  /\ \A n \in DOMAIN built : pool[SlugOf[built[n]]] = n
  /\ \A s \in Slugs : pool[s] # 0 => pool[s] \in DOMAIN built /\ SlugOf[built[pool[s]]] = s
  /\ \A c \in Calls : call[c].client # 0 => call[c].client = pool[SlugOf[call[c].service]]

Inv ==
  /\ call \in [Calls -> Call]
  /\ \A c \in Calls : Sound(call[c])
  /\ Pooled

\* A step of one call, as the action property sees it.
Resent(k, l) == l.count # k.count /\ k.count > 0 => NoUpgrade(k.sent, l.sent)

----------------------------------------------------------------------------
(* One call.                                                               *)

\* One page more is still within the cap.
LEMMA PagesFit ==
  ASSUME NEW p \in Nat, NEW M \in Nat, NEW q \in Nat, p < M
  PROVE  /\ (p + 1) * q = p * q + q
         /\ (p + 1) * q <= M * q
         /\ p * q \in Nat /\ M * q \in Nat
<1>1. (p + 1) * q = p * q + q /\ p * q \in Nat /\ M * q \in Nat
  OBVIOUS
<1>2. PICK r \in Nat : M = (p + 1) + r
  <2>1. M - (p + 1) \in Nat /\ M = (p + 1) + (M - (p + 1))
    OBVIOUS
  <2> QED BY <2>1
<1>3. M * q = (p + 1) * q + r * q /\ r * q \in Nat
  BY <1>2
<1> QED BY <1>1, <1>3

\* One hop more is still within its page, and within the cap.
LEMMA HopFits ==
  ASSUME NEW n \in Nat, NEW p \in Nat, NEW h \in Nat,
         p < MaxPages, h <= MaxRedirects, n <= p * PerPage + h + 1
  PROVE  n <= (p + 1) * PerPage /\ n <= MaxPages * PerPage
<1> DEFINE paid == p * PerPage
           next == (p + 1) * PerPage
           most == MaxPages * PerPage
<1>1. /\ PerPage \in Nat /\ PerPage = MaxRedirects + 1
      /\ MaxPages \in Nat /\ MaxRedirects \in Nat
  BY CallAssumption DEF PerPage
<1>2. /\ next = paid + PerPage /\ next <= most
      /\ paid \in Nat /\ most \in Nat
  BY <1>1, PagesFit
<1>3. n <= paid + h + 1
  OBVIOUS
<1> HIDE DEF paid, next, most
<1>4. n <= next /\ n <= most
  BY <1>1, <1>2, <1>3
<1> QED BY <1>4 DEF next, most

\* A call that fails keeps what is said of a call.
LEMMA FailedIsSound ==
  ASSUME NEW k, Sound(k)
  PROVE  Sound([k EXCEPT !.pc = "failed"])
<1> DEFINE l == [k EXCEPT !.pc = "failed"]
<1>1. l \in Call
  BY DEF Sound, Call, Ends
<1>2. k \in Call
  BY DEF Sound
<1>3. /\ l.pc = "failed" /\ l.count = k.count /\ l.sent = k.sent /\ l.auth = k.auth
      /\ l.request = k.request
  BY <1>2 DEF Call
<1> QED BY <1>1, <1>3 DEF Sound, Paged, Checked, Counted, Complete, NoUpgrade

\* A hop on the wire is an allowed one, within the cap, and no upgrade.
LEMMA SentIsSound ==
  ASSUME NEW c \in Calls, call \in [Calls -> Call], Sound(call[c]),
         SendHop(c)
  PROVE  Sound(call'[c]) /\ Resent(call[c], call'[c])
<1> DEFINE k == call[c]
           l == [k EXCEPT !.pc = "wait", !.sent = k.request, !.auth = Carries(c),
                          !.count = k.count + 1]
<1>1. k \in Call /\ k.pc = "hop" /\ Allowed(c)
  BY DEF SendHop, At, Sound
<1>2. call'[c] = l
  BY DEF SendHop, Becomes
<1>3. Carries(c) \in BOOLEAN /\ (Carries(c) <=> k.request.origin = Bound)
  BY DEF Carries
<1>4. l \in Call
  <2>1. k.request \in Request /\ k.count + 1 \in Nat
    BY <1>1 DEF Call
  <2> HIDE DEF k
  <2> QED BY <1>1, <1>3, <2>1, Zenon DEF Call, Underway
<1>5. /\ l.pc = "wait" /\ l.sent = k.request /\ l.auth = Carries(c)
      /\ l.count = k.count + 1 /\ l.pages = k.pages /\ l.hop = k.hop
      /\ l.request = k.request
  BY <1>1 DEF Call
<1>6. Paged(l) /\ Complete(l)
  BY <1>1, <1>5 DEF Paged, Complete, Sound
<1>7. Checked(l)
  BY <1>1, <1>3, <1>5 DEF Checked, Allowed
<1>8. Counted(l)
  <2>1. k.pages \in Nat /\ k.hop \in Nat /\ k.hop <= MaxRedirects /\ k.count \in Nat
        /\ k.pages < MaxPages
    BY <1>1 DEF Call, Sound, Paged
  <2>2. k.count <= k.pages * PerPage + k.hop /\ k.pages * PerPage \in Nat
    BY <1>1, <2>1, CallAssumption DEF Sound, Counted, PerPage
  <2> HIDE DEF k, l
  <2>3. l.count \in Nat /\ l.count <= k.pages * PerPage + k.hop + 1
    BY <1>5, <2>1, <2>2
  <2>4. l.count <= MaxPages * PerPage
    BY <2>1, <2>3, HopFits
  <2> QED BY <1>5, <2>3, <2>4 DEF Counted
<1>9. NoUpgrade(l.sent, l.request) /\ NoUpgrade(k.sent, l.sent)
  BY <1>1, <1>5 DEF NoUpgrade, Sound, Call, Request
<1> QED BY <1>2, <1>4, <1>6, <1>7, <1>8, <1>9 DEF Sound, Resent

\* A call on its way to its client, with one or without.
LEMMA PlacedIsSound ==
  ASSUME NEW k, Sound(k), k.pc \in {"idle", "read", "write"},
         NEW place \in {"read", "write", "page"}, NEW client \in Nat
  PROVE  /\ Sound([k EXCEPT !.pc = place])
         /\ Sound([k EXCEPT !.pc = place, !.client = client])
<1> DEFINE l == [k EXCEPT !.pc = place]
           m == [k EXCEPT !.pc = place, !.client = client]
<1>1. k \in Call
  BY DEF Sound
<1>2. l \in Call /\ m \in Call
  BY <1>1, Zenon DEF Call, Underway
<1>3. /\ l.pc = place /\ l.count = k.count /\ l.sent = k.sent /\ l.auth = k.auth
      /\ l.request = k.request /\ l.pages = k.pages
  BY <1>1 DEF Call
<1>4. /\ m.pc = place /\ m.count = k.count /\ m.sent = k.sent /\ m.auth = k.auth
      /\ m.request = k.request /\ m.pages = k.pages
  BY <1>1 DEF Call
<1> HIDE DEF l, m
<1>5. Sound(l)
  BY <1>2, <1>3 DEF Sound, Paged, Checked, Counted, Complete, NoUpgrade
<1>6. Sound(m)
  BY <1>2, <1>4 DEF Sound, Paged, Checked, Counted, Complete, NoUpgrade
<1> QED BY <1>5, <1>6 DEF l, m

\* A page begins with its first hop.
LEMMA PageIsSound ==
  ASSUME NEW k, Sound(k), k.pc = "page", k.pages < MaxPages
  PROVE  Sound([k EXCEPT !.pc = "hop", !.hop = 0, !.spent = 0])
<1> DEFINE l == [k EXCEPT !.pc = "hop", !.hop = 0, !.spent = 0]
<1>1. k \in Call
  BY DEF Sound
<1>2. 0 \in 0..MaxRedirects /\ 0 \in 0..(Deadline + 1)
  BY CallAssumption
<1>3. l \in Call
  BY <1>1, <1>2, Zenon DEF Call, Underway
<1>4. /\ l.pc = "hop" /\ l.count = k.count /\ l.sent = k.sent /\ l.auth = k.auth
      /\ l.request = k.request /\ l.pages = k.pages /\ l.hop = 0
  BY <1>1 DEF Call
<1>5. /\ k.count <= k.pages * PerPage
      /\ k.pages * PerPage \in Nat /\ k.count \in Nat
  BY <1>1, CallAssumption DEF Sound, Counted, PerPage, Call
<1> HIDE DEF l
<1>6. Sound(l)
  BY <1>3, <1>4, <1>5 DEF Sound, Paged, Checked, Counted, Complete, NoUpgrade
<1> QED BY <1>6 DEF l

\* A redirect downgrades or keeps, and has a hop left.
LEMMA RedirectIsSound ==
  ASSUME NEW k, Sound(k), k.pc = "wait", k.hop < MaxRedirects,
         NEW origin \in Origins, NEW keeps \in BOOLEAN
  PROVE  Sound([k EXCEPT !.pc = "hop", !.hop = k.hop + 1,
                         !.request = Downgraded(k.request, origin, keeps)])
<1> DEFINE next == Downgraded(k.request, origin, keeps)
           l == [k EXCEPT !.pc = "hop", !.hop = k.hop + 1, !.request = next]
<1>1. k \in Call
  BY DEF Sound
<1>2. k.hop + 1 \in 0..MaxRedirects
  BY <1>1, CallAssumption DEF Call
<1>3. next \in Request
  BY <1>1 DEF Downgraded, Call, Request
<1>4. NoUpgrade(k.sent, next)
  BY <1>1 DEF NoUpgrade, Sound, Downgraded, Call, Request
<1> HIDE DEF next
<1>5. l \in Call
  BY <1>1, <1>2, <1>3, Zenon DEF Call, Underway
<1>6. /\ l.pc = "hop" /\ l.count = k.count /\ l.sent = k.sent /\ l.auth = k.auth
      /\ l.request = next /\ l.pages = k.pages /\ l.hop = k.hop + 1
  BY <1>1 DEF Call
<1>7. Counted(l)
  <2>1. k.pages * PerPage \in Nat /\ k.hop \in Nat /\ k.count \in Nat
    BY <1>1, CallAssumption DEF Call, PerPage
  <2> HIDE DEF l
  <2> QED BY <1>6, <2>1 DEF Counted, Sound
<1> HIDE DEF l
<1>8. Sound(l)
  BY <1>4, <1>5, <1>6, <1>7 DEF Sound, Paged, Checked, Complete
<1> QED BY <1>8 DEF l, next

\* A page answered is a page paid for.
LEMMA AnswerFits ==
  ASSUME NEW k, Sound(k), k.pc = "wait"
  PROVE  /\ k \in Call /\ k.pages + 1 \in 1..MaxPages /\ k.pages + 1 \in 0..MaxPages
         /\ k.count <= (k.pages + 1) * PerPage
         /\ k.count <= MaxPages * PerPage
<1>1. k \in Call /\ k.pages < MaxPages
  BY DEF Sound, Paged
<1>2. k.pages \in Nat /\ k.hop \in Nat /\ k.hop <= MaxRedirects /\ k.count \in Nat
  BY <1>1, CallAssumption DEF Call
<1>3. k.count <= k.pages * PerPage + k.hop + 1
  BY DEF Sound, Counted
<1>4. k.count <= (k.pages + 1) * PerPage /\ k.count <= MaxPages * PerPage
  BY <1>1, <1>2, <1>3, HopFits
<1> QED BY <1>1, <1>2, <1>4, CallAssumption

\* A next page is asked for with a GET.
LEMMA MoreIsSound ==
  ASSUME NEW k, Sound(k), k.pc = "wait", NEW ok \in BOOLEAN
  PROVE  Sound([k EXCEPT !.pc = "page", !.pages = k.pages + 1,
                         !.bad = k.bad \/ ~ok, !.more = TRUE,
                         !.request = [origin |-> k.request.origin,
                                      write |-> FALSE, body |-> FALSE]])
<1> DEFINE next == [origin |-> k.request.origin, write |-> FALSE, body |-> FALSE]
           bad == k.bad \/ ~ok
           l == [k EXCEPT !.pc = "page", !.pages = k.pages + 1, !.bad = bad,
                          !.more = TRUE, !.request = next]
<1>1. /\ k \in Call /\ k.pages + 1 \in 0..MaxPages
      /\ k.count <= (k.pages + 1) * PerPage /\ k.count <= MaxPages * PerPage
  BY AnswerFits
<1>2. next \in Request /\ bad \in BOOLEAN
  BY <1>1 DEF Call, Request
<1>3. NoUpgrade(k.sent, next)
  BY DEF NoUpgrade
<1> HIDE DEF next, bad
<1>4. l \in Call
  BY <1>1, <1>2, Zenon DEF Call, Underway
<1>5. /\ l.pc = "page" /\ l.count = k.count /\ l.sent = k.sent /\ l.auth = k.auth
      /\ l.request = next /\ l.pages = k.pages + 1
  BY <1>1 DEF Call
<1> HIDE DEF l
<1>6. Sound(l)
  BY <1>1, <1>3, <1>4, <1>5 DEF Sound, Paged, Checked, Counted, Complete
<1> QED BY <1>6 DEF l, next, bad

\* The last page ends the call, as a success only if no page was bad.
LEMMA LastIsSound ==
  ASSUME NEW c \in Calls, NEW k, k = call[c], Sound(k), k.pc = "wait",
         NEW ok \in BOOLEAN
  PROVE  Sound([k EXCEPT !.pc = IF Spoiled(c, ok) THEN "failed" ELSE "done",
                         !.pages = k.pages + 1, !.bad = k.bad \/ ~ok,
                         !.more = FALSE])
<1> DEFINE bad == k.bad \/ ~ok
           end == IF bad THEN "failed" ELSE "done"
           l == [k EXCEPT !.pc = end, !.pages = k.pages + 1, !.bad = bad,
                          !.more = FALSE]
<1>1. /\ k \in Call /\ k.pages + 1 \in 0..MaxPages /\ k.pages + 1 \in 1..MaxPages
      /\ k.count <= MaxPages * PerPage
  BY AnswerFits
<1>2. bad \in BOOLEAN /\ end \in Ends /\ end = (IF bad THEN "failed" ELSE "done")
  BY <1>1 DEF Call, Ends
<1>3. Spoiled(c, ok) = bad
  BY DEF Spoiled
<1> HIDE DEF bad, end
<1>4. l \in Call
  BY <1>1, <1>2, Zenon DEF Call, Ends
<1>5. /\ l.pc = end /\ l.count = k.count /\ l.sent = k.sent /\ l.auth = k.auth
      /\ l.request = k.request /\ l.pages = k.pages + 1 /\ l.bad = bad /\ l.more = FALSE
  BY <1>1 DEF Call
<1> HIDE DEF l
<1>6. Sound(l)
  BY <1>1, <1>2, <1>4, <1>5 DEF Sound, Paged, Checked, Counted, Complete, NoUpgrade, Ends
<1> QED BY <1>3, <1>6 DEF l, end, bad

\* The clock stops one past the deadline.
LEMMA PassIsSound ==
  ASSUME NEW k, Sound(k), k.spent <= Deadline
  PROVE  Sound([k EXCEPT !.spent = k.spent + 1])
<1> DEFINE l == [k EXCEPT !.spent = k.spent + 1]
<1>1. k \in Call
  BY DEF Sound
<1>2. k.spent + 1 \in 0..(Deadline + 1)
  BY <1>1, CallAssumption DEF Call
<1>3. l \in Call
  BY <1>1, <1>2, Zenon DEF Call
<1>4. /\ l.pc = k.pc /\ l.count = k.count /\ l.sent = k.sent /\ l.auth = k.auth
      /\ l.request = k.request /\ l.pages = k.pages /\ l.bad = k.bad
      /\ l.more = k.more /\ l.hop = k.hop
  BY <1>1 DEF Call
<1> HIDE DEF l
<1>5. Sound(l)
  BY <1>3, <1>4 DEF Sound, Paged, Checked, Counted, Complete, NoUpgrade
<1> QED BY <1>5 DEF l

----------------------------------------------------------------------------
(* All calls and the pool.                                                 *)

LEMMA FreshIsSound ==
  ASSUME NEW op \in Operations, NEW o \in Allowlist
  PROVE  Sound(Fresh(op, o)) /\ Fresh(op, o).client = 0
<1> DEFINE k == Fresh(op, o)
           request == [origin |-> o, write |-> op.write, body |-> op.body]
<1>1. op \in [service : Services, cursor : BOOLEAN, write : BOOLEAN, body : BOOLEAN]
  BY CallAssumption
<1>2. request \in Request
  BY <1>1, CallAssumption DEF Request
<1>3. /\ op.service \in Services /\ op.cursor \in BOOLEAN
      /\ 0 \in 0..MaxPages /\ 0 \in 0..MaxRedirects /\ 0 \in 0..(Deadline + 1)
  BY <1>1, CallAssumption
<1>4. k = [pc |-> "idle", service |-> op.service, cursor |-> op.cursor, client |-> 0,
           request |-> request, pages |-> 0, bad |-> FALSE, hop |-> 0, spent |-> 0,
           sent |-> request, auth |-> FALSE, count |-> 0, more |-> FALSE]
  BY DEF Fresh
<1> HIDE DEF request, k
<1>5. k \in Call
  BY <1>2, <1>3, <1>4 DEF Call
<1>6. /\ k.pc = "idle" /\ k.count = 0 /\ k.sent = k.request /\ k.pages = 0
      /\ k.client = 0
  BY <1>4
<1>7. 0 <= 0 * PerPage /\ 0 <= MaxPages * PerPage
  BY CallAssumption DEF PerPage
<1>8. Sound(k)
  BY <1>5, <1>6, <1>7 DEF Sound, Paged, Checked, Counted, Complete, NoUpgrade
<1> QED BY <1>6, <1>8 DEF k

LEMMA InitInv == Init => Inv
<1> SUFFICES ASSUME Init
             PROVE  Inv
  OBVIOUS
<1>1. \A c \in Calls : Sound(call[c]) /\ call[c].client = 0
  <2> TAKE c \in Calls
  <2>1. PICK op \in Operations, o \in Allowlist : call[c] = Fresh(op, o)
    BY DEF Init
  <2> QED BY <2>1, FreshIsSound
<1>2. call \in [Calls -> Call]
  BY <1>1 DEF Init, Sound
<1>3. Pooled
  BY <1>1 DEF Init, Pooled
<1> QED BY <1>1, <1>2, <1>3 DEF Inv

\* What a step keeps: the invariant, and that nothing is upgraded.
Kept == Inv' /\ \A c \in Calls : Resent(call[c], call'[c])

\* A step of one call that leaves the pool alone.
LEMMA OneCall ==
  ASSUME Inv, NEW c \in Calls, NEW k, Becomes(c, k), Sound(k), Resent(call[c], k),
         k.service = call[c].service,
         k.client # 0 => k.client = pool[SlugOf[k.service]],
         UNCHANGED <<pool, built>>
  PROVE  Kept
<1>1. /\ call' \in [Calls -> Call] /\ call'[c] = k
      /\ \A d \in Calls : d # c => call'[d] = call[d]
  BY DEF Becomes, Inv, Sound
<1>2. \A d \in Calls : Sound(call'[d])
  BY <1>1 DEF Inv
<1>3. Pooled'
  BY <1>1 DEF Pooled, Inv
<1>4. \A d \in Calls : Resent(call[d], call'[d])
  BY <1>1 DEF Resent
<1> QED BY <1>1, <1>2, <1>3, <1>4 DEF Inv, Kept

LEMMA FailKeeps ==
  ASSUME Inv, NEW c \in Calls, Fail(c), UNCHANGED <<pool, built>>
  PROVE  Kept
<1> DEFINE k == [call[c] EXCEPT !.pc = "failed"]
<1>1. Sound(call[c]) /\ call[c] \in Call
  BY DEF Inv, Sound
<1>2. Sound(k)
  BY <1>1, FailedIsSound
<1>3. /\ k.service = call[c].service /\ k.client = call[c].client
      /\ k.count = call[c].count
  BY <1>1 DEF Call
<1>4. k.client # 0 => k.client = pool[SlugOf[k.service]]
  BY <1>3 DEF Inv, Pooled
<1>5. Becomes(c, k) /\ Resent(call[c], k)
  BY <1>3 DEF Fail, Resent
<1> HIDE DEF k
<1> QED BY <1>2, <1>3, <1>4, <1>5, OneCall

\* A step that only moves one call on, sending nothing and taking no client.
LEMMA MoveKeeps ==
  ASSUME Inv, NEW c \in Calls, NEW k, Becomes(c, k), Sound(k),
         k.service = call[c].service, k.client = call[c].client,
         k.count = call[c].count, UNCHANGED <<pool, built>>
  PROVE  Kept
<1>1. k.client # 0 => k.client = pool[SlugOf[k.service]]
  BY DEF Inv, Pooled
<1>2. Resent(call[c], k)
  BY DEF Resent
<1> QED BY <1>1, <1>2, OneCall

LEMMA DispatchKeeps == ASSUME Inv, NEW c \in Calls, Dispatch(c) PROVE Kept
<1> DEFINE k == [call[c] EXCEPT !.pc = "read"]
<1>1. Sound(call[c]) /\ call[c] \in Call /\ call[c].pc = "idle"
  BY DEF Inv, Sound, Dispatch, At
<1>2. Sound(k)
  BY <1>1, PlacedIsSound
<1>3. /\ k.service = call[c].service /\ k.client = call[c].client
      /\ k.count = call[c].count
  BY <1>1 DEF Call
<1>4. Becomes(c, k) /\ UNCHANGED <<pool, built>>
  BY DEF Dispatch
<1> HIDE DEF k
<1> QED BY <1>2, <1>3, <1>4, MoveKeeps

\* The pool gives a call the client of its service.
LEMMA TakeKeeps ==
  ASSUME Inv, NEW c \in Calls, call[c].pc \in {"read", "write"},
         Becomes(c, [call[c] EXCEPT !.pc = "page", !.client = Held(c)]),
         UNCHANGED <<pool, built>>
  PROVE  Kept
<1> DEFINE held == Held(c)
           k == [call[c] EXCEPT !.pc = "page", !.client = held]
<1>1. Sound(call[c]) /\ call[c] \in Call
  BY DEF Inv, Sound
<1>2. held \in Nat
  BY <1>1, CallAssumption DEF Inv, Pooled, Call, Held
<1>3. Becomes(c, k)
  OBVIOUS
<1>4. held = pool[SlugOf[call[c].service]]
  BY DEF Held
<1> HIDE DEF held
<1>5. Sound(k)
  BY <1>1, <1>2, PlacedIsSound
<1>6. /\ k.service = call[c].service /\ k.client = held /\ k.count = call[c].count
  BY <1>1 DEF Call
<1>7. Resent(call[c], k) /\ (k.client # 0 => k.client = pool[SlugOf[k.service]])
  BY <1>4, <1>6 DEF Resent
<1> HIDE DEF k
<1> QED BY <1>3, <1>5, <1>6, <1>7, OneCall

LEMMA LookUpKeeps == ASSUME Inv, NEW c \in Calls, LookUp(c) PROVE Kept
<1>1. Sound(call[c]) /\ call[c] \in Call /\ call[c].pc = "read"
      /\ UNCHANGED <<pool, built>>
  BY DEF Inv, Sound, LookUp, At
<1>2. CASE Held(c) = 0
  <2> DEFINE k == [call[c] EXCEPT !.pc = "write"]
  <2>1. Sound(k)
    BY <1>1, PlacedIsSound
  <2>2. /\ k.service = call[c].service /\ k.client = call[c].client
        /\ k.count = call[c].count
    BY <1>1 DEF Call
  <2>3. Becomes(c, k)
    BY <1>2 DEF LookUp
  <2> HIDE DEF k
  <2> QED BY <1>1, <2>1, <2>2, <2>3, MoveKeeps
<1>3. CASE Held(c) # 0
  <2>1. Becomes(c, [call[c] EXCEPT !.pc = "page", !.client = Held(c)])
    BY <1>3 DEF LookUp
  <2> QED BY <1>1, <2>1, TakeKeeps
<1> QED BY <1>2, <1>3

\* A client just built goes to a slug that had none, so nobody holds one of it.
LEMMA BuildKeeps == ASSUME Inv, NEW c \in Calls, Build(c) PROVE Kept
<1> DEFINE s == SlugOf[call[c].service]
           new == Len(built) + 1
           k == [call[c] EXCEPT !.pc = "page", !.client = new]
<1>1. /\ Sound(call[c]) /\ call[c] \in Call /\ call[c].pc = "write"
      /\ call[c].service \in Services /\ s \in Slugs /\ pool[s] = 0
  BY CallAssumption DEF Inv, Sound, Build, At, MustBuild, Held, Call
<1>2. built \in Seq(Services) /\ Len(built) \in Nat /\ new \in Nat /\ new # 0
  BY DEF Inv, Pooled
<1>3. /\ built' = Append(built, call[c].service) /\ Len(built') = new
      /\ pool' = [pool EXCEPT ![s] = new] /\ Becomes(c, k)
  BY <1>1, <1>2 DEF Build
<1>4. /\ built' \in Seq(Services) /\ DOMAIN built' = DOMAIN built \cup {new}
      /\ SlugOf[built'[new]] = s /\ new \notin DOMAIN built
      /\ \A n \in DOMAIN built : built'[n] = built[n]
  BY <1>1, <1>2, <1>3
<1>5. Sound(k)
  BY <1>1, <1>2, PlacedIsSound
<1>6. k.service = call[c].service /\ k.client = new /\ k.count = call[c].count
  BY <1>1 DEF Call
<1> HIDE DEF new, k
<1>7. /\ call' \in [Calls -> Call] /\ call'[c] = k
      /\ \A d \in Calls : d # c => call'[d] = call[d]
  BY <1>3, <1>5 DEF Becomes, Inv, Sound
<1>8. \A d \in Calls : Sound(call'[d]) /\ Resent(call[d], call'[d])
  BY <1>5, <1>6, <1>7 DEF Inv, Resent
<1>9. Pooled'
  <2>1. /\ pool \in [Slugs -> Nat]
        /\ \A n \in DOMAIN built : pool[SlugOf[built[n]]] = n
        /\ \A t \in Slugs : pool[t] # 0 => pool[t] \in DOMAIN built /\ SlugOf[built[pool[t]]] = t
        /\ \A d \in Calls : call[d].client # 0 => call[d].client = pool[SlugOf[call[d].service]]
    BY DEF Inv, Pooled
  <2>2. /\ pool' \in [Slugs -> Nat] /\ pool'[s] = new
        /\ \A t \in Slugs : t # s => pool'[t] = pool[t]
    BY <1>1, <1>2, <1>3, <2>1
  <2> HIDE DEF s
  <2>3. \A n \in DOMAIN built : SlugOf[built[n]] # s /\ SlugOf[built[n]] \in Slugs
    <3> TAKE n \in DOMAIN built
    <3>1. built[n] \in Services /\ n \in Nat /\ n # 0
      BY <1>2
    <3>2. SlugOf[built[n]] \in Slugs
      BY <3>1, CallAssumption
    <3> QED BY <3>1, <3>2, <2>1, <1>1
  <2>4. \A n \in DOMAIN built' : pool'[SlugOf[built'[n]]] = n
    BY <1>4, <2>1, <2>2, <2>3
  <2>5. \A t \in Slugs : pool'[t] # 0 => pool'[t] \in DOMAIN built' /\ SlugOf[built'[pool'[t]]] = t
    BY <1>4, <2>1, <2>2
  <2>6. ASSUME NEW d \in Calls, call'[d].client # 0
        PROVE  call'[d].client = pool'[SlugOf[call'[d].service]]
    <3>1. CASE d = c
      BY <3>1, <1>6, <1>7, <2>2 DEF s
    <3>2. CASE d # c
      <4>1. call'[d] = call[d] /\ SlugOf[call[d].service] \in Slugs
        BY <3>2, <1>7, CallAssumption DEF Inv, Call
      <4>2. SlugOf[call[d].service] # s
        BY <4>1, <2>6, <2>1, <1>1
      <4> QED BY <4>1, <4>2, <2>6, <2>1, <2>2
    <3> QED BY <3>1, <3>2
  <2> QED BY <1>4, <2>2, <2>4, <2>5, <2>6 DEF Pooled
<1> QED BY <1>7, <1>8, <1>9 DEF Inv, Kept

LEMMA NextPageKeeps ==
  ASSUME Inv, NEW c \in Calls, NextPage(c)
  PROVE  Kept
<1> DEFINE k == [call[c] EXCEPT !.pc = "hop", !.hop = 0, !.spent = 0]
<1>1. /\ Sound(call[c]) /\ call[c] \in Call
      /\ call[c].pc = "page" /\ call[c].pages < MaxPages
  BY CallAssumption DEF Inv, Sound, NextPage, At, AtCap, Call
<1>2. Sound(k)
  BY <1>1, PageIsSound
<1>3. /\ k.service = call[c].service /\ k.client = call[c].client
      /\ k.count = call[c].count
  BY <1>1 DEF Call
<1>4. Becomes(c, k) /\ UNCHANGED <<pool, built>>
  BY DEF NextPage
<1> HIDE DEF k
<1> QED BY <1>2, <1>3, <1>4, MoveKeeps

LEMMA SendKeeps == ASSUME Inv, NEW c \in Calls, SendHop(c) PROVE Kept
<1> DEFINE k == [call[c] EXCEPT !.pc = "wait", !.sent = call[c].request,
                                !.auth = Carries(c), !.count = call[c].count + 1]
<1>1. call \in [Calls -> Call] /\ Sound(call[c]) /\ call[c] \in Call
  BY DEF Inv, Sound
<1>2. Becomes(c, k) /\ UNCHANGED <<pool, built>>
  BY DEF SendHop
<1>3. call'[c] = k
  BY <1>1, <1>2 DEF Becomes
<1>4. Sound(k) /\ Resent(call[c], k)
  BY <1>1, <1>3, SentIsSound
<1>5. k.service = call[c].service /\ k.client = call[c].client
  BY <1>1 DEF Call
<1>6. k.client # 0 => k.client = pool[SlugOf[k.service]]
  BY <1>5 DEF Inv, Pooled
<1> HIDE DEF k
<1> QED BY <1>2, <1>4, <1>5, <1>6, OneCall

LEMMA RedirectKeeps ==
  ASSUME Inv, NEW c \in Calls, NEW o \in Origins, NEW keeps \in BOOLEAN, Redirected(c, o, keeps)
  PROVE  Kept
<1> DEFINE k == [call[c] EXCEPT !.pc = "hop", !.hop = call[c].hop + 1,
                                !.request = Downgraded(call[c].request, o, keeps)]
<1>1. /\ Sound(call[c]) /\ call[c] \in Call
      /\ call[c].pc = "wait" /\ call[c].hop < MaxRedirects
  BY DEF Inv, Sound, Redirected, At, HopsLeft
<1>2. Sound(k)
  BY <1>1, RedirectIsSound
<1>3. /\ k.service = call[c].service /\ k.client = call[c].client
      /\ k.count = call[c].count
  BY <1>1 DEF Call
<1>4. Becomes(c, k) /\ UNCHANGED <<pool, built>>
  BY DEF Redirected
<1> HIDE DEF k
<1> QED BY <1>2, <1>3, <1>4, MoveKeeps

LEMMA MoreKeeps ==
  ASSUME Inv, NEW c \in Calls, NEW ok \in BOOLEAN, AnsweredMore(c, ok)
  PROVE  Kept
<1> DEFINE k == [call[c] EXCEPT !.pc = "page", !.pages = call[c].pages + 1,
                       !.bad = call[c].bad \/ ~ok, !.more = TRUE,
                       !.request = [origin |-> call[c].request.origin,
                                    write |-> FALSE, body |-> FALSE]]
<1>1. /\ Sound(call[c]) /\ call[c] \in Call
      /\ call[c].pc = "wait"
  BY DEF Inv, Sound, AnsweredMore, At
<1>2. Sound(k)
  BY <1>1, MoreIsSound
<1>3. /\ k.service = call[c].service /\ k.client = call[c].client
      /\ k.count = call[c].count
  BY <1>1 DEF Call
<1>4. Becomes(c, k) /\ UNCHANGED <<pool, built>>
  BY DEF AnsweredMore
<1> HIDE DEF k
<1> QED BY <1>2, <1>3, <1>4, MoveKeeps

LEMMA LastKeeps ==
  ASSUME Inv, NEW c \in Calls, NEW ok \in BOOLEAN, AnsweredLast(c, ok)
  PROVE  Kept
<1> DEFINE k == [call[c] EXCEPT !.pc = IF Spoiled(c, ok) THEN "failed" ELSE "done",
                       !.pages = call[c].pages + 1, !.bad = call[c].bad \/ ~ok,
                       !.more = FALSE]
<1>1. /\ Sound(call[c]) /\ call[c] \in Call
      /\ call[c].pc = "wait"
  BY DEF Inv, Sound, AnsweredLast, At
<1>2. Sound(k)
  BY <1>1, LastIsSound
<1>3. /\ k.service = call[c].service /\ k.client = call[c].client
      /\ k.count = call[c].count
  BY <1>1 DEF Call
<1>4. Becomes(c, k) /\ UNCHANGED <<pool, built>>
  BY DEF AnsweredLast
<1> HIDE DEF k
<1> QED BY <1>2, <1>3, <1>4, MoveKeeps

LEMMA PassKeeps ==
  ASSUME Inv, NEW c \in Calls, Pass(c)
  PROVE  Kept
<1> DEFINE k == [call[c] EXCEPT !.spent = call[c].spent + 1]
<1>1. /\ Sound(call[c]) /\ call[c] \in Call
      /\ call[c].spent <= Deadline
  BY DEF Inv, Sound, Pass, InTime
<1>2. Sound(k)
  BY <1>1, PassIsSound
<1>3. /\ k.service = call[c].service /\ k.client = call[c].client
      /\ k.count = call[c].count
  BY <1>1 DEF Call
<1>4. Becomes(c, k) /\ UNCHANGED <<pool, built>>
  BY DEF Pass
<1> HIDE DEF k
<1> QED BY <1>2, <1>3, <1>4, MoveKeeps

LEMMA NextInv == Inv /\ [Next]_vars => Kept
<1> SUFFICES ASSUME Inv, [Next]_vars
             PROVE  Kept
  OBVIOUS
<1>1. ASSUME UNCHANGED vars
      PROVE  Kept
  BY <1>1 DEF vars, Inv, Pooled, Kept, Resent
<1>2. ASSUME NEW c \in Calls, Own(c)
      PROVE  Kept
  <2>1. CASE LookUp(c)
    BY <2>1, LookUpKeeps
  <2>2. CASE TakeBuilt(c)
    BY <2>2, TakeKeeps DEF TakeBuilt, At
  <2>3. CASE Build(c)
    BY <2>3, BuildKeeps
  <2>4. CASE BuildFails(c)
    BY <2>4, FailKeeps DEF BuildFails
  <2>5. CASE NextPage(c)
    BY <2>5, NextPageKeeps
  <2>6. CASE PageCap(c)
    BY <2>6, FailKeeps DEF PageCap
  <2>7. CASE Refused(c)
    BY <2>7, FailKeeps DEF Refused
  <2>8. CASE Unsendable(c)
    BY <2>8, FailKeeps DEF Unsendable
  <2>9. CASE SendHop(c)
    BY <2>9, SendKeeps
  <2>10. CASE TimesOut(c)
    BY <2>10, FailKeeps DEF TimesOut
  <2> QED BY <1>2, <2>1, <2>2, <2>3, <2>4, <2>5, <2>6, <2>7, <2>8, <2>9, <2>10 DEF Own
<1>3. ASSUME NEW c \in Calls, Upstream(c)
      PROVE  Kept
  <2>1. ASSUME NEW o \in Origins, NEW keeps \in BOOLEAN, Redirected(c, o, keeps)
        PROVE  Kept
    BY <2>1, RedirectKeeps
  <2>2. CASE Breaks(c)
    BY <2>2, FailKeeps DEF Breaks
  <2>3. ASSUME NEW ok \in BOOLEAN, AnsweredMore(c, ok) \/ AnsweredLast(c, ok)
        PROVE  Kept
    BY <2>3, MoreKeeps, LastKeeps
  <2> QED BY <1>3, <2>1, <2>2, <2>3 DEF Upstream
<1> QED BY <1>1, <1>2, <1>3, DispatchKeeps, PassKeeps DEF Next, Rest

----------------------------------------------------------------------------
(* The theorems.                                                           *)

(* The inductive invariant holds in every reachable state. *)
THEOREM Invariance == Spec => []Inv
<1>1. Inv /\ [Next]_vars => Inv'
  BY NextInv DEF Kept
<1> QED BY InitInv, <1>1, PTL DEF Spec

(* Every variable stays in its type, with any number of calls, pages and   *)
(* hops: the counters of send and paginate stop at their caps.             *)
THEOREM CallTypes == Spec => []TypeOK
<1>1. Inv => TypeOK
  BY DEF Inv, Pooled, TypeOK
<1> QED BY Invariance, <1>1, PTL

(* No hop of any page leaves the allowlist, or carries the credential to   *)
(* another origin than its own (check_url and auth::apply at every hop).   *)
THEOREM HopsAreChecked == Spec => []EachHopIsChecked
<1>1. Inv => EachHopIsChecked
  BY DEF Inv, Sound, Checked, EachHopIsChecked
<1> QED BY Invariance, <1>1, PTL

(* However an upstream mixes pages and redirects, a call sends at most     *)
(* MaxPages * (MaxRedirects + 1) requests.                                 *)
THEOREM RequestsBounded == Spec => []RequestsAreBounded
<1>1. Inv => RequestsAreBounded
  BY DEF Inv, Sound, Counted, PerPage, RequestsAreBounded
<1> QED BY Invariance, <1>1, PTL

(* A call succeeds only with all of its pages, none of an error status.    *)
THEOREM SuccessIsComplete == Spec => []DoneIsComplete
<1>1. Inv => DoneIsComplete
  BY DEF Inv, Sound, Complete, DoneIsComplete
<1> QED BY Invariance, <1>1, PTL

(* A slug has one client for good, whoever races to build it and whoever's *)
(* service it is built from, and every call to a service of that slug      *)
(* holds it (client_for).                                                  *)
THEOREM OneClient == Spec => []ClientsAreShared
<1>1. Inv => ClientsAreShared
  <2> SUFFICES ASSUME Inv, NEW c \in Calls, call[c].client # 0,
                      NEW n \in DOMAIN built
               PROVE  SlugOf[built[n]] = SlugOf[call[c].service] <=> n = call[c].client
    BY DEF ClientsAreShared
  <2>1. SlugOf[call[c].service] \in Slugs
    BY CallAssumption DEF Inv, Call
  <2> QED BY <2>1 DEF Inv, Pooled
<1> QED BY Invariance, <1>1, PTL

(* A method that became GET, and a body that was dropped, never come back. *)
THEOREM NothingUpgrades == Spec => DowngradeIsFinal
<1>1. Inv /\ [Next]_vars =>
        [\A c \in Calls :
           call'[c].count # call[c].count /\ call[c].count > 0 =>
             /\ call'[c].sent.write => call[c].sent.write
             /\ call'[c].sent.body => call[c].sent.body
             /\ call[c].sent.write /\ call'[c].sent.body => call'[c].sent.write]_vars
  BY NextInv DEF Kept, Resent, NoUpgrade
<1> QED BY Invariance, <1>1, PTL DEF Spec, DowngradeIsFinal

=============================================================================
