------------------------------ MODULE Accounts ------------------------------
(***************************************************************************)
(* Users, sign-in and sessions.                                            *)
(*                                                                         *)
(* Every HTTP call and command is a task that runs one database statement  *)
(* after another (store/user.rs, store/session.rs), outside a transaction; *)
(* tasks interleave between statements and may be dropped between two.     *)
(* `task[t].pc` names the next statement.  Grants extends this module with *)
(* service tokens, MCP requests and the retention sweep; the variables of  *)
(* both are declared here.                                                 *)
(*                                                                         *)
(* A table is a sequence, an id is a position, a deleted row is one not    *)
(* `live`.  Names, hashes and cookies are left out.  There is one issuer   *)
(* (config.rs), so a subject stands for the pair (issuer, subject).        *)
(***************************************************************************)
EXTENDS Integers, Sequences, FiniteSets

CONSTANTS
  Tasks,       \* calls that can be under way at once
  Emails, Subjects, Slugs,
  SeedEmail,   \* A2M_SEED_EMAIL
  StartSlugs,  \* endpoints the first user may have to begin with
  None,        \* no subject, email or slug
  People,      \* whom the provider may name
  MintChoices, \* what tokens are asked for: [slugs, control, days]
  SessionTTL, RetentionDays, BatchSize,
  MaxCalls, MaxEndpoints, Horizon   \* bounds: calls, endpoint rows, ticks

NoExpiry == -1

\* Whom the provider's userinfo names, and whether it vouches for the address.
Identity == [subject : Subjects, email : Emails, verified : BOOLEAN]

ASSUME IdentityAssumption ==
  /\ SeedEmail \in Emails
  /\ StartSlugs \in Seq(Slugs)
  /\ \A i, j \in DOMAIN StartSlugs : StartSlugs[i] = StartSlugs[j] => i = j
  /\ People \subseteq Identity
  /\ None \notin Subjects \cup Emails \cup Slugs
  /\ MintChoices \subseteq [slugs : SUBSET Slugs, control : BOOLEAN, days : Nat \cup {NoExpiry}]
  /\ SessionTTL \in Nat /\ RetentionDays \in Nat /\ BatchSize \in Nat \ {0}
  /\ MaxCalls \in Nat /\ MaxEndpoints \in Nat /\ Horizon \in Nat

VARIABLES now, calls, task, users, sessions, endpoints, tokens, runs, sweep

tables == <<users, sessions, endpoints, tokens, runs>>
vars == <<now, calls, task, tables, sweep>>

\* m0001_init, and UserRecord.  An unlinked row without a password is an invite.
User == [email : Emails, password : BOOLEAN, subject : Subjects \cup {None}, live : BOOLEAN]

\* `by` is history: the subject that signed in, None for a password.
Session == [user : Nat \ {0}, until : Nat, by : Subjects \cup {None}, live : BOOLEAN]

SignInPcs == {"lookup", "email", "candidate", "claim", "relookup", "taken",
              "insert", "reload", "session"}
CommandPcs == {"adduser", "count", "delete"}
TokenPcs == {"caller", "grants", "mint", "findtoken", "revoke"}
RequestPcs == {"touch", "load", "slugs", "oauth", "resolve", "run", "author", "history", "rows"}

\* What a task carries between its statements.  `user`, `row` are ids, 0 for none;
\* `row` is the token presented or the run shown; `then` is what follows the Caller
\* extractor; `want` is what a mint asks for;
\* `saw` is history: the endpoint rows there were when the call came.
Task == [pc : {"idle"} \cup SignInPcs \cup CommandPcs \cup TokenPcs \cup RequestPcs,
         then : {"idle", "grants", "findtoken", "resolve", "history"},
         user : Nat, subject : Subjects \cup {None}, email : Emails \cup {None},
         flag : BOOLEAN, row : Nat, want : SUBSET Slugs, days : Nat \cup {NoExpiry},
         slug : Slugs \cup {None}, ids : SUBSET Nat, slugs : SUBSET Slugs,
         restricted : BOOLEAN, control : BOOLEAN, saw : Nat]

Idle == [pc |-> "idle", then |-> "idle", user |-> 0, subject |-> None, email |-> None, flag |-> FALSE,
         row |-> 0, want |-> {}, days |-> NoExpiry, slug |-> None, ids |-> {},
         slugs |-> {}, restricted |-> FALSE, control |-> FALSE, saw |-> 0]

Arrives == calls < MaxCalls /\ calls' = calls + 1

\* A call arrives; its task is `new` after what it did first.
Begin(t, new) ==
  /\ Arrives
  /\ task[t].pc = "idle"
  /\ task' = [task EXCEPT ![t] = new]

At(t, pc) == task[t].pc = pc /\ UNCHANGED <<now, calls, sweep>>
Goto(t, pc) == task' = [task EXCEPT ![t].pc = pc]
\* The task goes on to `pc` about user `u`.
GotoUser(t, pc, u) == task' = [task EXCEPT ![t].pc = pc, ![t].user = u]
Finish(t) == task' = [task EXCEPT ![t] = Idle]

----------------------------------------------------------------------------
(* Looking users up.                                                       *)

LiveUser(u) == u \in DOMAIN users /\ users[u].live
WithEmail(e) == {u \in DOMAIN users : users[u].live /\ users[u].email = e}
WithSubject(s) == {u \in DOMAIN users : users[u].live /\ users[u].subject = s}
UnlinkedWithEmail(e) == {u \in WithEmail(e) : users[u].subject = None}

\* ux_users_email and ux_users_oidc_identity let the row in.
Admits(e, s) == WithEmail(e) = {} /\ (s = None \/ WithSubject(s) = {})

InsertMutant(e, password, s) ==
  users' = Append(users, [email |-> e, password |-> s, subject |-> password, live |-> TRUE])
Insert(e, password, s) ==
  users' = Append(users, [email |-> e, password |-> password, subject |-> s, live |-> TRUE])

----------------------------------------------------------------------------
(* Signing in through the provider: get_oidc_callback and                  *)
(* find_or_create_by_oidc.                                                 *)

\* The callback's state matches its cookie and the provider has named the
\* person; every failure before that changes nothing.
SignIn(t, id) ==
  /\ Begin(t, [Idle EXCEPT !.pc = "lookup", !.subject = id.subject, !.email = id.email,
                           !.flag = id.verified])
  /\ UNCHANGED <<now, sweep, tables>>

\* refresh_linked: get_by_oidc_identity, at first and after a claim was lost.
FindLinked(t, u) ==
  /\ task[t].pc \in {"lookup", "relookup"}
  /\ u \in WithSubject(task[t].subject)
  /\ GotoUser(t, IF users[u].email = task[t].email THEN "reload" ELSE "email", u)
  /\ UNCHANGED <<now, calls, sweep, tables>>

NotLinkedMutant(t) ==
  /\ task[t].pc \in {"lookup", "relookup"}
  /\ WithSubject(task[t].subject) = {}
  /\ Goto(t, IF task[t].pc = "lookup" THEN "candidate" ELSE "taken")
  /\ UNCHANGED <<now, calls, sweep, tables>>
NotLinked(t) ==
  /\ task[t].pc \in {"lookup", "relookup"}
  /\ WithSubject(task[t].subject) = {}
  /\ Goto(t, IF task[t].pc = "lookup" /\ task[t].flag THEN "candidate" ELSE "taken")
  /\ UNCHANGED <<now, calls, sweep, tables>>

\* refresh_linked: the stored email follows the provider's, unless it is taken.
RefreshEmail(t) ==
  /\ At(t, "email")
  /\ IF LiveUser(task[t].user) /\ WithEmail(task[t].email) \ {task[t].user} # {}
     THEN Finish(t) /\ UNCHANGED users
     ELSE /\ users' = IF LiveUser(task[t].user)
                      THEN [users EXCEPT ![task[t].user].email = task[t].email] ELSE users
          /\ Goto(t, "reload")
  /\ UNCHANGED <<sessions, endpoints, tokens, runs>>

\* get_unlinked_by_email
FindCandidate(t) ==
  /\ At(t, "candidate")
  /\ IF UnlinkedWithEmail(task[t].email) = {}
     THEN Goto(t, "taken")
     ELSE \E u \in UnlinkedWithEmail(task[t].email) : GotoUser(t, "claim", u)
  /\ UNCHANGED tables

\* claim_unlinked's WHERE
ClaimableMutant(u) == LiveUser(u)
Claimable(u) == LiveUser(u) /\ users[u].subject = None

\* Where a claim that matched no row goes on.
AfterLostClaimMutant == "reload"
AfterLostClaim == "relookup"

\* claim_unlinked
Claim(t) ==
  /\ At(t, "claim")
  /\ IF ~Claimable(task[t].user)
     THEN Goto(t, AfterLostClaim) /\ UNCHANGED users
     ELSE IF WithSubject(task[t].subject) \ {task[t].user} # {}
          THEN Finish(t) /\ UNCHANGED users
          ELSE /\ users' = [users EXCEPT ![task[t].user].subject = task[t].subject,
                                         ![task[t].user].email = task[t].email]
               /\ Goto(t, "reload")
  /\ UNCHANGED <<sessions, endpoints, tokens, runs>>

\* get_by_email before the insertion: an address in use is a conflict.
CheckTaken(t) ==
  /\ At(t, "taken")
  /\ IF WithEmail(task[t].email) = {} THEN Goto(t, "insert") ELSE Finish(t)
  /\ UNCHANGED tables

InsertLinked(t) ==
  /\ At(t, "insert")
  /\ IF Admits(task[t].email, task[t].subject)
     THEN /\ Insert(task[t].email, FALSE, task[t].subject)
          /\ GotoUser(t, "reload", Len(users) + 1)
     ELSE Finish(t) /\ UNCHANGED users
  /\ UNCHANGED <<sessions, endpoints, tokens, runs>>

\* get_by_id of the row that was found, claimed or inserted.
Reload(t) ==
  /\ At(t, "reload")
  /\ IF LiveUser(task[t].user)
     THEN task' = [task EXCEPT ![t] = [Idle EXCEPT !.pc = "session", !.user = task[t].user,
                                                   !.subject = task[t].subject]]
     ELSE Finish(t)
  /\ UNCHANGED tables

----------------------------------------------------------------------------
(* Passwords, sessions and the user commands.                              *)

\* post_login: verify_password finds the row and its hash matches.
Login(t, u) ==
  /\ LiveUser(u) /\ users[u].password
  /\ Begin(t, [Idle EXCEPT !.pc = "session", !.user = u])
  /\ UNCHANGED <<now, sweep, tables>>

\* create_session; the foreign key refuses a user deleted meanwhile.
OpenSession(t) ==
  /\ At(t, "session")
  /\ sessions' = IF LiveUser(task[t].user)
                 THEN Append(sessions, [user |-> task[t].user, until |-> now + SessionTTL,
                                        by |-> task[t].subject, live |-> TRUE])
                 ELSE sessions
  /\ Finish(t)
  /\ UNCHANGED <<users, endpoints, tokens, runs>>

\* get_logout
Logout(s) ==
  /\ Arrives
  /\ sessions[s].live
  /\ sessions' = [sessions EXCEPT ![s].live = FALSE]
  /\ UNCHANGED <<now, task, users, endpoints, tokens, runs, sweep>>

LiveSession(s) == s \in DOMAIN sessions /\ sessions[s].live /\ sessions[s].until > now

\* `user add`, with a password or --oidc-only: get_by_email finds nobody.
AddUser(t, e, password) ==
  /\ WithEmail(e) = {}
  /\ Begin(t, [Idle EXCEPT !.pc = "adduser", !.email = e, !.flag = password])
  /\ UNCHANGED <<now, sweep, tables>>

\* UserStore::create and create_pending_oidc
InsertUser(t) ==
  /\ At(t, "adduser")
  /\ IF Admits(task[t].email, None) THEN Insert(task[t].email, task[t].flag, None) ELSE UNCHANGED users
  /\ Finish(t)
  /\ UNCHANGED <<sessions, endpoints, tokens, runs>>

\* `user passwd`: the hash is replaced, or set where there was none.
SetPassword(e) ==
  /\ Arrives
  /\ WithEmail(e) # {}
  /\ users' = [u \in DOMAIN users |->
                 IF u \in WithEmail(e) THEN [users[u] EXCEPT !.password = TRUE] ELSE users[u]]
  /\ UNCHANGED <<now, task, sessions, endpoints, tokens, runs, sweep>>

\* `user delete`: get_by_email
DeleteUser(t, u, force) ==
  /\ LiveUser(u)
  /\ Begin(t, [Idle EXCEPT !.pc = "count", !.user = u, !.flag = force])
  /\ UNCHANGED <<now, sweep, tables>>

\* list, and last_user_guard on what it counted
CountUsers(t) ==
  /\ At(t, "count")
  /\ IF Cardinality({u \in DOMAIN users : users[u].live}) > 1 \/ task[t].flag
     THEN Goto(t, "delete") ELSE Finish(t)
  /\ UNCHANGED tables

CascadeMutant(u) ==
  /\ users' = [users EXCEPT ![u].live = FALSE]
  /\ sessions' = [s \in DOMAIN sessions |->
                    IF sessions[s].user = u THEN [sessions[s] EXCEPT !.live = FALSE] ELSE sessions[s]]
  /\ UNCHANGED <<endpoints, tokens, runs>>

\* UserStore::delete, and what the foreign keys take with the row: all that the
\* user owns, and the grants of the endpoints among it.
Cascade(u) ==
  /\ users' = [users EXCEPT ![u].live = FALSE]
  /\ sessions' = [s \in DOMAIN sessions |->
                    IF sessions[s].user = u THEN [sessions[s] EXCEPT !.live = FALSE] ELSE sessions[s]]
  /\ endpoints' = [e \in DOMAIN endpoints |->
                    IF endpoints[e].owner = u THEN [endpoints[e] EXCEPT !.live = FALSE] ELSE endpoints[e]]
  /\ tokens' = [k \in DOMAIN tokens |->
                    IF tokens[k].owner = u THEN [tokens[k] EXCEPT !.live = FALSE, !.grants = {}] ELSE tokens[k]]
  /\ runs' = [r \in DOMAIN runs |->
                    IF runs[r].owner = u THEN [runs[r] EXCEPT !.live = FALSE] ELSE runs[r]]

RemoveUser(t) ==
  /\ At(t, "delete")
  /\ IF LiveUser(task[t].user) THEN Cascade(task[t].user) ELSE UNCHANGED tables
  /\ Finish(t)

----------------------------------------------------------------------------
AccountSteps(t) ==
  \/ \E id \in People : SignIn(t, id)
  \/ \E u \in DOMAIN users : FindLinked(t, u) \/ Login(t, u)
  \/ \E u \in DOMAIN users, force \in BOOLEAN : DeleteUser(t, u, force)
  \/ \E e \in Emails, password \in BOOLEAN : AddUser(t, e, password)
  \/ NotLinked(t) \/ RefreshEmail(t) \/ FindCandidate(t) \/ Claim(t)
  \/ CheckTaken(t) \/ InsertLinked(t) \/ Reload(t) \/ OpenSession(t)
  \/ InsertUser(t) \/ CountUsers(t) \/ RemoveUser(t)
=============================================================================
