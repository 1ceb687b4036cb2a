----------------------------- MODULE UpstreamCall -----------------------------
(***************************************************************************)
(* One dispatched call on its way to the upstream: the client pool, pages, *)
(* redirect hops, and the checks and the credential at each hop            *)
(* (runtime/dispatch, http/client, paginate, send, ssrf, auth).            *)
(*                                                                         *)
(* A request is its origin, whether its method is other than GET, and      *)
(* whether it has a body; paths, query, headers and contents are left out. *)
(* `spent` is send's clock: time since the first hop of this page.         *)
(***************************************************************************)
EXTENDS Naturals, Sequences

CONSTANTS
  Calls,         \* dispatches under way
  Services,      \* of all owners: a slug names one service of each owner
  Slugs,
  SlugOf,
  Operations,    \* what is dispatched: [service, cursor: has it a next page?, write, body]
  Origins,
  Allowlist,     \* the service's origin_allowlist
  DeniedIPs,     \* origins whose host is a literal of a denied range
  Bound,         \* the auth provider's bound_origin; no origin if there is no provider
  MaxPages, MaxRedirects,
  Deadline

ASSUME CallAssumption ==
  /\ SlugOf \in [Services -> Slugs]
  /\ Operations \subseteq [service : Services, cursor : BOOLEAN,
                           write : BOOLEAN, body : BOOLEAN]
  /\ Allowlist \subseteq Origins /\ DeniedIPs \subseteq Origins
  /\ MaxPages \in Nat /\ MaxRedirects \in Nat /\ Deadline \in Nat

VARIABLES
  pool,   \* the client of each slug, 0 while it has none: its place in `built`
  built,  \* the service each client took its headers and timeouts from
  call

vars == <<pool, built, call>>

Request == [origin : Origins, write : BOOLEAN, body : BOOLEAN]

Ends == {"done", "failed"}
Underway == {"read", "write", "page", "hop", "wait"}

\* `sent` (the last request on the wire), `auth` (it carried the credential),
\* `count` and `more` (the last answer named a next page) are history.
Call == [pc : {"idle"} \cup Ends \cup Underway, service : Services,
         cursor : BOOLEAN, client : Nat, request : Request, pages : 0..MaxPages,
         bad : BOOLEAN, hop : 0..MaxRedirects, spent : 0..(Deadline + 1),
         sent : Request, auth : BOOLEAN, count : Nat, more : BOOLEAN]

\* A bound operation goes to its service's base, an allowed origin.
Fresh(op, origin) ==
  LET request == [origin |-> origin, write |-> op.write, body |-> op.body]
  IN [pc |-> "idle", service |-> op.service, cursor |-> op.cursor, client |-> 0,
      request |-> request, pages |-> 0, bad |-> FALSE, hop |-> 0, spent |-> 0,
      sent |-> request, auth |-> FALSE, count |-> 0, more |-> FALSE]

Init ==
  /\ pool = [s \in Slugs |-> 0]
  /\ built = << >>
  /\ call \in [Calls -> {Fresh(op, o) : op \in Operations, o \in Allowlist}]

At(c, pc) == call[c].pc = pc
Becomes(c, k) == call' = [call EXCEPT ![c] = k]
Fail(c) == Becomes(c, [call[c] EXCEPT !.pc = "failed"])

----------------------------------------------------------------------------
(* The client pool: one for all owners, kept by slug alone.                *)

Held(c) == pool[SlugOf[call[c].service]]

\* dispatch: resolved and bound; what is refused before is no step.
Dispatch(c) ==
  /\ At(c, "idle")
  /\ Becomes(c, [call[c] EXCEPT !.pc = "read"])
  /\ UNCHANGED <<pool, built>>

\* client_for under the read lock,
LookUp(c) ==
  /\ At(c, "read")
  /\ Becomes(c, IF Held(c) = 0 THEN [call[c] EXCEPT !.pc = "write"]
                ELSE [call[c] EXCEPT !.pc = "page", !.client = Held(c)])
  /\ UNCHANGED <<pool, built>>

\* then under the write lock, where another task may have been first.
MustBuildMutant(c) == TRUE
MustBuild(c) == Held(c) = 0

TakeBuilt(c) ==
  /\ At(c, "write")
  /\ ~MustBuild(c)
  /\ Becomes(c, [call[c] EXCEPT !.pc = "page", !.client = Held(c)])
  /\ UNCHANGED <<pool, built>>

Build(c) ==
  /\ At(c, "write")
  /\ MustBuild(c)
  /\ built' = Append(built, call[c].service)
  /\ pool' = [pool EXCEPT ![SlugOf[call[c].service]] = Len(built')]
  /\ Becomes(c, [call[c] EXCEPT !.pc = "page", !.client = Len(built')])

BuildFails(c) ==
  /\ At(c, "write")
  /\ MustBuild(c)
  /\ Fail(c)
  /\ UNCHANGED <<pool, built>>

----------------------------------------------------------------------------
(* Pages and hops.                                                         *)

\* paginate: another page is wanted, within the cap.
AtCapMutant(c) == call[c].pages > MaxPages
AtCap(c) == call[c].pages >= MaxPages

NextPage(c) ==
  /\ At(c, "page")
  /\ ~AtCap(c)
  /\ Becomes(c, [call[c] EXCEPT !.pc = "hop", !.hop = 0, !.spent = 0])
  /\ UNCHANGED <<pool, built>>

\* PageCapExceeded: an error, with the pages so far thrown away.
PageCap(c) ==
  /\ At(c, "page")
  /\ AtCap(c)
  /\ Fail(c)
  /\ UNCHANGED <<pool, built>>

\* check_url
Allowed(c) == call[c].request.origin \in Allowlist \ DeniedIPs

InTime(c) == call[c].spent <= Deadline

\* http::auth::apply on this hop's URL.
CarriesMutant(c) == call[c].auth \/ call[c].request.origin = Bound
Carries(c) == call[c].request.origin = Bound

Refused(c) ==
  /\ At(c, "hop")
  /\ ~Allowed(c) \/ ~InTime(c)
  /\ Fail(c)
  /\ UNCHANGED <<pool, built>>

\* A header that is none, or no secret for an origin that is to have it.
Unsendable(c) ==
  /\ At(c, "hop")
  /\ Allowed(c) /\ InTime(c)
  /\ Fail(c)
  /\ UNCHANGED <<pool, built>>

SendHop(c) ==
  /\ At(c, "hop")
  /\ Allowed(c) /\ InTime(c)
  /\ Becomes(c, [call[c] EXCEPT !.pc = "wait", !.sent = call[c].request,
                   !.auth = Carries(c), !.count = call[c].count + 1])
  /\ UNCHANGED <<pool, built>>

\* A 301, 302 or 303 turns anything but a GET into a GET without a body.
DowngradedMutant(request, origin, keeps) ==
  [origin |-> origin, write |-> request.write /\ keeps, body |-> request.body]
Downgraded(request, origin, keeps) ==
  [origin |-> origin, write |-> request.write /\ keeps,
   body |-> request.body /\ (keeps \/ ~request.write)]

HopsLeftMutant(c) == call[c].hop <= MaxRedirects
HopsLeft(c) == call[c].hop < MaxRedirects

Redirected(c, origin, keeps) ==
  /\ At(c, "wait") /\ InTime(c)
  /\ HopsLeft(c)
  /\ Becomes(c, [call[c] EXCEPT !.pc = "hop", !.hop = call[c].hop + 1,
                   !.request = Downgraded(call[c].request, origin, keeps)])
  /\ UNCHANGED <<pool, built>>

\* One redirect too many, no usable Location, a transport error, a body over
\* its cap, a cursor that is no string, or pages the projection cannot read.
Breaks(c) ==
  /\ At(c, "wait")
  /\ Fail(c)
  /\ UNCHANGED <<pool, built>>

\* A page with a next one: a GET at the URL that answered.
AnsweredMore(c, ok) ==
  /\ At(c, "wait") /\ InTime(c)
  /\ call[c].cursor
  /\ Becomes(c, [call[c] EXCEPT !.pc = "page", !.pages = call[c].pages + 1,
                   !.bad = call[c].bad \/ ~ok, !.more = TRUE,
                   !.request = [origin |-> call[c].request.origin,
                                write |-> FALSE, body |-> FALSE]])
  /\ UNCHANGED <<pool, built>>

\* The last page; one page of an error status fails the whole call.
SpoiledMutant(c, ok) == ~ok
Spoiled(c, ok) == call[c].bad \/ ~ok

AnsweredLast(c, ok) ==
  /\ At(c, "wait") /\ InTime(c)
  /\ Becomes(c, [call[c] EXCEPT !.pc = IF Spoiled(c, ok) THEN "failed" ELSE "done",
                   !.pages = call[c].pages + 1, !.bad = call[c].bad \/ ~ok,
                   !.more = FALSE])
  /\ UNCHANGED <<pool, built>>

\* reqwest's timeout is what the deadline leaves.
ExpiredMutant(c) == FALSE
Expired(c) == ~InTime(c)

TimesOut(c) ==
  /\ At(c, "wait")
  /\ Expired(c)
  /\ Fail(c)
  /\ UNCHANGED <<pool, built>>

\* Time passes, at most until the deadline is over.
Pass(c) ==
  /\ call[c].pc \in {"hop", "wait"}
  /\ InTime(c)
  /\ Becomes(c, [call[c] EXCEPT !.spent = call[c].spent + 1])
  /\ UNCHANGED <<pool, built>>

----------------------------------------------------------------------------

\* What our side does by itself.
Own(c) ==
  \/ LookUp(c) \/ TakeBuilt(c) \/ Build(c) \/ BuildFails(c)
  \/ NextPage(c) \/ PageCap(c)
  \/ Refused(c) \/ Unsendable(c) \/ SendHop(c) \/ TimesOut(c)

\* What the upstream may do, or not.
Upstream(c) ==
  \/ \E o \in Origins, keeps \in BOOLEAN : Redirected(c, o, keeps)
  \/ Breaks(c)
  \/ \E ok \in BOOLEAN : AnsweredMore(c, ok) \/ AnsweredLast(c, ok)

Rest ==
  /\ \A c \in Calls : call[c].pc \in Ends
  /\ UNCHANGED vars

Next ==
  \/ \E c \in Calls : Dispatch(c) \/ Own(c) \/ Upstream(c) \/ Pass(c)
  \/ Rest

Spec == Init /\ [][Next]_vars

\* A task on a running runtime, and a clock that runs: the upstream owes nothing.
FairSpec == Spec /\ \A c \in Calls : WF_vars(Own(c)) /\ WF_vars(Pass(c))

----------------------------------------------------------------------------
(* Properties.                                                             *)

(* Every variable stays in its type. *)
TypeOK ==
  /\ pool \in [Slugs -> Nat]
  /\ built \in Seq(Services)
  /\ call \in [Calls -> Call]

(* Whatever redirects and pages came before, a request on the wire goes to *)
(* an allowed origin, and the credential goes to its bound origin and is   *)
(* there whenever that origin is asked (send: I2 and I5 at each hop).      *)
EachHopIsChecked ==
  \A c \in Calls :
    call[c].count > 0 =>
      /\ call[c].sent.origin \in Allowlist \ DeniedIPs
      /\ call[c].auth <=> call[c].sent.origin = Bound

(* A call sends no more than its pages and their redirects allow, however  *)
(* the upstream mixes the two (paginate, send).                            *)
RequestsAreBounded ==
  \A c \in Calls : call[c].count <= MaxPages * (MaxRedirects + 1)

(* A call that succeeds has every page there was, all within the cap and   *)
(* none of an error status (paginate: "an error, never a silent stop";     *)
(* dispatch: a failure, not a value).                                      *)
DoneIsComplete ==
  \A c \in Calls :
    call[c].pc = "done" =>
      call[c].pages \in 1..MaxPages /\ ~call[c].bad /\ ~call[c].more

(* The client a call holds is the only one ever built for its service's    *)
(* slug, whoever raced to build it: calls share a client exactly if their  *)
(* services have one slug.  It has the headers and timeouts of the service *)
(* it was built from, which may be another owner's of that slug            *)
(* (client_for: the pool knows only slugs).                                *)
ClientsAreShared ==
  \A c \in Calls :
    LET slug == SlugOf[call[c].service]
    IN call[c].client # 0 =>
         \A n \in DOMAIN built :
           SlugOf[built[n]] = slug <=> n = call[c].client

(* Once a call has become a GET it stays one, and the body it dropped does *)
(* not come back, through all later hops and pages (downgrade,             *)
(* next_request).                                                          *)
DowngradeIsFinal ==
  [][\A c \in Calls :
       call'[c].count # call[c].count /\ call[c].count > 0 =>
         /\ call'[c].sent.write => call[c].sent.write
         /\ call'[c].sent.body => call[c].sent.body
         /\ call[c].sent.write /\ call'[c].sent.body => call'[c].sent.write]_vars

(* Every dispatched call ends, whatever the upstream does or never does.   *)
CallsEnd == \A c \in Calls : call[c].pc \in Underway ~> call[c].pc \in Ends

=============================================================================
