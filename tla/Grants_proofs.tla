---------------------------- MODULE Grants_proofs ----------------------------
(***************************************************************************)
(* The safety properties of Grants, for any number of users, tokens,       *)
(* endpoints and calls under way, dropped anywhere.                        *)
(*                                                                         *)
(* What a call has read (Knows) stays good until its next statement,       *)
(* because the tables only move one way (Kept): an account keeps the       *)
(* identity it is linked to, an endpoint its owner and slug, a token what  *)
(* it was minted with, and what is deleted does not come back.             *)
(***************************************************************************)
EXTENDS Grants, SequenceTheorems, FiniteSetTheorems, TLAPS

Pcs == {"idle"} \cup SignInPcs \cup CommandPcs \cup TokenPcs \cup RequestPcs
OnToken == {"touch", "load", "slugs", "resolve", "run"}

\* What a call that carries `w` relies on between two of its statements, of the
\* rows `us` of users, `es` of endpoints and `ks` of tokens.
Knows(w, us, es, ks) ==
  /\ w.pc \in SignInPcs \ {"session"} => w.subject \in Subjects /\ w.email \in Emails
  /\ w.pc \in {"candidate", "claim"} => w.flag
  /\ w.pc \in {"email", "reload"} \/ (w.pc = "session" /\ w.subject # None) =>
       w.user \in DOMAIN us /\ us[w.user].subject = w.subject
  /\ w.pc = "claim" =>
       w.user \in DOMAIN us /\ (us[w.user].subject # None \/ us[w.user].email = w.email)
  /\ w.pc = "adduser" => w.email \in Emails
  /\ w.pc = "mint" => \A e \in w.ids : e \in DOMAIN es /\ es[e].owner = w.user
  /\ w.pc \in {"findtoken", "revoke", "touch", "load", "slugs"}
       \/ (w.pc = "caller" /\ w.then = "findtoken") => w.row \in DOMAIN ks
  /\ w.pc = "oauth" \/ (w.pc = "caller" /\ w.then = "resolve") => w.row = 0
  /\ w.pc \in OnToken /\ w.row # 0 =>
       /\ w.row \in DOMAIN ks
       /\ w.restricted = ks[w.row].restricted
       /\ w.user = ks[w.row].owner
       /\ w.saw <= Len(es)
  /\ w.pc = "slugs" => w.ids \subseteq ks[w.row].asked
  /\ w.pc = "resolve" /\ w.row # 0 => \A s \in w.slugs : \E e \in ks[w.row].asked :
       /\ e \in DOMAIN es /\ es[e].slug = s
       /\ \A f \in DOMAIN es :
            f <= w.saw /\ es[f].live /\ es[f].owner = w.user /\ es[f].slug = s => f = e
  /\ w.pc = "run" => w.slug \in Slugs
  /\ w.pc = "run" /\ w.row # 0 /\ w.restricted =>
       /\ \E e \in ks[w.row].asked : e \in DOMAIN es /\ es[e].slug = w.slug
       /\ \A e \in w.ids : e \in ks[w.row].asked \/ e > w.saw

TasksKnow == \A t \in Tasks : Knows(task[t], users, endpoints, tokens)

SessionsHold ==
  \A s \in DOMAIN sessions :
    /\ sessions[s].user \in DOMAIN users
    /\ sessions[s].by # None => users[sessions[s].user].subject = sessions[s].by
    /\ sessions[s].live => users[sessions[s].user].live

\* An owner's live endpoints have different slugs.
EndpointsHold ==
  /\ \A e \in DOMAIN endpoints : endpoints[e].live => LiveUser(endpoints[e].owner)
  /\ \A e, f \in DOMAIN endpoints :
       /\ endpoints[e].live /\ endpoints[f].live
       /\ endpoints[e].owner = endpoints[f].owner /\ endpoints[e].slug = endpoints[f].slug
       => e = f

TokensHold ==
  \A k \in DOMAIN tokens :
    /\ \A e \in tokens[k].asked : e \in DOMAIN endpoints /\ endpoints[e].owner = tokens[k].owner
    /\ tokens[k].grants \subseteq tokens[k].asked
    /\ tokens[k].live => LiveUser(tokens[k].owner) /\ \A e \in tokens[k].grants : endpoints[e].live

RunsHold == \A r \in DOMAIN runs : runs[r].live => LiveUser(runs[r].owner)

\* Runs are recorded at or after the cutoff of a sweep under way, so what a statement
\* short of a full batch has picked stays all there is to delete.
SweepHolds ==
  /\ sweep.cutoff <= now
  /\ sweep.pc = "delete" =>
       \/ Cardinality(sweep.chosen) = BatchSize
       \/ \A r \in DOMAIN runs : runs[r].live => runs[r].created >= sweep.cutoff \/ r \in sweep.chosen

TablesHold == SessionsHold /\ EndpointsHold /\ TokensHold /\ RunsHold /\ SweepHolds

TablesOK ==
  /\ now \in Nat /\ calls \in Nat
  /\ users \in Seq(User) /\ sessions \in Seq(Session)
  /\ endpoints \in Seq(Endpoint) /\ tokens \in Seq(Token) /\ runs \in Seq(Run)
  /\ sweep \in Sweep

Inv == TypeOK /\ TasksKnow /\ TablesHold

\* What no step takes back of users, endpoints and tokens.
UsersKept ==
  /\ DOMAIN users \subseteq DOMAIN users'
  /\ \A u \in DOMAIN users :
       /\ users[u].subject # None => users'[u].subject = users[u].subject
       /\ users'[u].subject = None => users'[u].email = users[u].email
EndpointsKept ==
  /\ Len(endpoints) \in Nat /\ Len(endpoints') \in Nat /\ Len(endpoints) <= Len(endpoints')
  /\ DOMAIN endpoints \subseteq DOMAIN endpoints'
  /\ \A e \in DOMAIN endpoints' : e \in DOMAIN endpoints \/ e > Len(endpoints)
  /\ \A e \in DOMAIN endpoints :
       /\ endpoints'[e].owner = endpoints[e].owner
       /\ endpoints'[e].slug = endpoints[e].slug
       /\ endpoints'[e].live => endpoints[e].live
TokensKept ==
  /\ DOMAIN tokens \subseteq DOMAIN tokens'
  /\ \A k \in DOMAIN tokens :
       /\ tokens'[k].owner = tokens[k].owner
       /\ tokens'[k].restricted = tokens[k].restricted
       /\ tokens'[k].control = tokens[k].control
       /\ tokens'[k].until = tokens[k].until
       /\ tokens'[k].asked = tokens[k].asked
       /\ tokens'[k].grants \subseteq tokens[k].grants
       /\ tokens[k].revoked => tokens'[k].revoked
Kept == UsersKept /\ EndpointsKept /\ TokensKept

\* A link that a step makes is proven.
Proven ==
  \A u \in DOMAIN users :
    users[u].subject = None /\ users'[u].subject # None =>
      \E t \in Tasks : /\ task[t].subject = users'[u].subject
                       /\ task[t].email = users[u].email
                       /\ task[t].flag

StepHolds == Inv' /\ Kept /\ Proven

----------------------------------------------------------------------------
(* Rows appended and rows updated.                                         *)

\* A row of a table is of its type.
LEMMA RowType ==
  ASSUME NEW S, NEW table \in Seq(S), NEW i \in DOMAIN table
  PROVE  table[i] \in S
  BY LenProperties

\* What an appended table holds.
LEMMA Appended ==
  ASSUME NEW S, NEW table \in Seq(S), NEW row \in S
  PROVE  /\ Append(table, row) \in Seq(S)
         /\ Len(table) \in Nat
         /\ DOMAIN table = 1..Len(table)
         /\ Len(Append(table, row)) = Len(table) + 1
         /\ DOMAIN Append(table, row) = DOMAIN table \cup {Len(table) + 1}
         /\ Len(table) + 1 \notin DOMAIN table
         /\ Append(table, row)[Len(table) + 1] = row
         /\ \A i \in DOMAIN table : Append(table, row)[i] = table[i]
<1>1. Len(table) \in Nat /\ DOMAIN table = 1..Len(table)
  BY LenProperties
<1>2. /\ Append(table, row) \in Seq(S)
      /\ Len(Append(table, row)) = Len(table) + 1
      /\ DOMAIN Append(table, row) = 1..(Len(table) + 1)
      /\ Append(table, row)[Len(table) + 1] = row
      /\ \A i \in 1..Len(table) : Append(table, row)[i] = table[i]
  BY AppendProperties, LenProperties
<1> QED BY <1>1, <1>2

\* A table rewritten row by row.
LEMMA Mapped ==
  ASSUME NEW S, NEW table \in Seq(S), NEW new \in [DOMAIN table -> S]
  PROVE  /\ new \in Seq(S)
         /\ Len(new) = Len(table)
         /\ Len(table) \in Nat
         /\ DOMAIN new = DOMAIN table
<1>1. Len(table) \in Nat /\ DOMAIN table = 1..Len(table)
  BY LenProperties
<1>2. new \in [1..Len(table) -> S]
  BY <1>1
<1>3. new \in Seq(S)
  BY <1>1, <1>2, IsASeq
<1>4. DOMAIN new = 1..Len(table)
  BY <1>2
<1>5. Len(new) \in Nat /\ DOMAIN new = 1..Len(new)
  BY <1>3, LenProperties
<1>6. Len(new) = Len(table)
  BY <1>1, <1>4, <1>5
<1> QED BY <1>1, <1>3, <1>4, <1>6

----------------------------------------------------------------------------
(* What survives a step that keeps the rows.                               *)

\* What was known before is known after.
LEMMA StillKnows ==
  ASSUME Kept, NEW w \in Task, Knows(w, users, endpoints, tokens)
  PROVE  Knows(w, users', endpoints', tokens')
<1>1. /\ w.pc \in SignInPcs \ {"session"} => w.subject \in Subjects /\ w.email \in Emails
      /\ w.pc \in {"candidate", "claim"} => w.flag
      /\ w.pc = "adduser" => w.email \in Emails
      /\ w.pc = "oauth" \/ (w.pc = "caller" /\ w.then = "resolve") => w.row = 0
      /\ w.pc = "run" => w.slug \in Slugs
  BY DEF Knows
<1>2. w.pc \in {"email", "reload"} \/ (w.pc = "session" /\ w.subject # None) =>
        w.user \in DOMAIN users' /\ users'[w.user].subject = w.subject
  <2> SUFFICES ASSUME w.pc \in {"email", "reload"} \/ (w.pc = "session" /\ w.subject # None)
               PROVE  w.user \in DOMAIN users' /\ users'[w.user].subject = w.subject
    OBVIOUS
  <2>1. w.user \in DOMAIN users /\ users[w.user].subject = w.subject
    BY DEF Knows
  <2>2. w.subject # None
    BY <1>1, IdentityAssumption DEF SignInPcs
  <2> QED BY <2>1, <2>2 DEF Kept, UsersKept
<1>3. w.pc = "claim" =>
        w.user \in DOMAIN users' /\ (users'[w.user].subject # None \/ users'[w.user].email = w.email)
  BY DEF Knows, Kept, UsersKept
<1>4. w.pc = "mint" => \A e \in w.ids : e \in DOMAIN endpoints' /\ endpoints'[e].owner = w.user
  BY DEF Knows, Kept, EndpointsKept
<1>5. w.pc \in {"findtoken", "revoke", "touch", "load", "slugs"}
        \/ (w.pc = "caller" /\ w.then = "findtoken") => w.row \in DOMAIN tokens'
  BY DEF Knows, Kept, TokensKept
<1>6. w.pc \in OnToken /\ w.row # 0 =>
        /\ w.row \in DOMAIN tokens /\ w.row \in DOMAIN tokens'
        /\ tokens'[w.row].asked = tokens[w.row].asked
        /\ w.restricted = tokens'[w.row].restricted
        /\ w.user = tokens'[w.row].owner
        /\ w.saw \in Nat
        /\ w.saw <= Len(endpoints)
        /\ w.saw <= Len(endpoints')
  BY DEF Knows, Kept, TokensKept, EndpointsKept, Task
<1>7. w.pc = "slugs" => w.ids \subseteq tokens'[w.row].asked
  BY DEF Knows, Kept, TokensKept
<1>8. w.pc = "resolve" /\ w.row # 0 => \A s \in w.slugs : \E e \in tokens'[w.row].asked :
        /\ e \in DOMAIN endpoints' /\ endpoints'[e].slug = s
        /\ \A f \in DOMAIN endpoints' :
             f <= w.saw /\ endpoints'[f].live /\ endpoints'[f].owner = w.user
               /\ endpoints'[f].slug = s => f = e
  <2> SUFFICES ASSUME w.pc = "resolve", w.row # 0, NEW s \in w.slugs
               PROVE  \E e \in tokens'[w.row].asked :
                        /\ e \in DOMAIN endpoints' /\ endpoints'[e].slug = s
                        /\ \A f \in DOMAIN endpoints' :
                             f <= w.saw /\ endpoints'[f].live /\ endpoints'[f].owner = w.user
                               /\ endpoints'[f].slug = s => f = e
    OBVIOUS
  <2>1. PICK e \in tokens[w.row].asked :
          /\ e \in DOMAIN endpoints /\ endpoints[e].slug = s
          /\ \A f \in DOMAIN endpoints :
               f <= w.saw /\ endpoints[f].live /\ endpoints[f].owner = w.user
                 /\ endpoints[f].slug = s => f = e
    BY DEF Knows
  <2>2. w.saw \in Nat /\ w.saw <= Len(endpoints) /\ tokens'[w.row].asked = tokens[w.row].asked
    BY <1>6 DEF OnToken
  <2>3. /\ e \in DOMAIN endpoints' /\ endpoints'[e].slug = s
    BY <2>1 DEF Kept, EndpointsKept
  <2>4. ASSUME NEW f \in DOMAIN endpoints', f <= w.saw, endpoints'[f].live,
               endpoints'[f].owner = w.user, endpoints'[f].slug = s
        PROVE  f = e
    <3>1. f \in DOMAIN endpoints
      BY <2>2, <2>4 DEF Kept, EndpointsKept
    <3> QED BY <2>1, <2>4, <3>1 DEF Kept, EndpointsKept
  <2> QED BY <2>1, <2>2, <2>3, <2>4
<1>9. w.pc = "run" /\ w.row # 0 /\ w.restricted =>
        /\ \E e \in tokens'[w.row].asked : e \in DOMAIN endpoints' /\ endpoints'[e].slug = w.slug
        /\ \A e \in w.ids : e \in tokens'[w.row].asked \/ e > w.saw
  BY <1>6 DEF Knows, Kept, EndpointsKept, OnToken
<1> QED BY <1>1, <1>2, <1>3, <1>4, <1>5, <1>6, <1>7, <1>8, <1>9 DEF Knows

\* A step that moves one call, or none, keeps what every call knows.
LEMMA Moves ==
  ASSUME Inv, NEW t \in Tasks, NEW new \in Task, task' = [task EXCEPT ![t] = new],
         TablesOK', TablesHold', Kept, Knows(new, users', endpoints', tokens')
  PROVE  Inv'
<1>1. task \in [Tasks -> Task]
  BY DEF Inv, TypeOK
<1>2. task' \in [Tasks -> Task]
  BY <1>1
<1>3. TypeOK'
  BY <1>2 DEF TypeOK, TablesOK
<1>4. ASSUME NEW s \in Tasks PROVE Knows(task'[s], users', endpoints', tokens')
  <2>1. CASE s = t
    BY <1>1, <2>1
  <2>2. CASE s # t
    <3>1. task'[s] = task[s] /\ task[s] \in Task
      BY <1>1, <2>2
    <3>2. Knows(task[s], users, endpoints, tokens)
      BY DEF Inv, TasksKnow
    <3>3. Knows(task[s], users', endpoints', tokens')
      BY <3>1, <3>2, StillKnows
    <3> QED BY <3>1, <3>3
  <2> QED BY <2>1, <2>2
<1>5. TasksKnow'
  BY <1>4 DEF TasksKnow
<1> QED BY <1>3, <1>5 DEF Inv

\* A step that moves no call keeps what every call knows.
LEMMA Stays ==
  ASSUME Inv, task' = task, TablesOK', TablesHold', Kept
  PROVE  Inv'
<1>1. TypeOK'
  BY DEF Inv, TypeOK, TablesOK
<1>2. ASSUME NEW s \in Tasks PROVE Knows(task[s], users', endpoints', tokens')
  <2>1. task[s] \in Task /\ Knows(task[s], users, endpoints, tokens)
    BY DEF Inv, TypeOK, TasksKnow
  <2> QED BY <2>1, StillKnows
<1>3. TasksKnow'
  BY <1>2 DEF TasksKnow
<1> QED BY <1>1, <1>3 DEF Inv

\* Nothing is taken back by a step that leaves the tables alone.
LEMMA SameTables ==
  ASSUME Inv, UNCHANGED tables
  PROVE  Kept /\ Proven /\ (UNCHANGED <<now, sweep>> => TablesHold')
<1>1. Len(endpoints) \in Nat /\ DOMAIN endpoints = 1..Len(endpoints)
  BY LenProperties DEF Inv, TypeOK
<1>2. Kept
  BY <1>1 DEF Kept, UsersKept, EndpointsKept, TokensKept, tables
<1>3. Proven
  BY DEF Proven, tables
<1>4. ASSUME UNCHANGED <<now, sweep>> PROVE TablesHold'
  BY <1>4 DEF Inv, TablesHold, SessionsHold, EndpointsHold, TokensHold, RunsHold, SweepHolds,
              LiveUser, tables
<1> QED BY <1>2, <1>3, <1>4

\* A step of one call that leaves the tables alone.
LEMMA QuietStep ==
  ASSUME Inv, NEW t \in Tasks, NEW new \in Task, task' = [task EXCEPT ![t] = new],
         UNCHANGED <<now, sweep, tables>>, calls' \in Nat,
         Knows(new, users, endpoints, tokens)
  PROVE  StepHolds
<1>1. Kept /\ Proven /\ TablesHold'
  BY SameTables
<1>2. TablesOK'
  BY DEF Inv, TypeOK, TablesOK, tables
<1>3. Knows(new, users', endpoints', tokens')
  BY DEF tables
<1>4. Inv'
  BY <1>1, <1>2, <1>3, Moves
<1> QED BY <1>1, <1>4 DEF StepHolds

----------------------------------------------------------------------------
(* What the helpers do to the calls.                                       *)

\* An idle task knows nothing.
LEMMA IdleTask ==
  ASSUME NEW us, NEW es, NEW ks
  PROVE  Idle \in Task /\ Knows(Idle, us, es, ks)
<1>1. Idle \in Task
  BY DEF Idle, Task, NoExpiry
<1>2. Knows(Idle, us, es, ks)
  BY DEF Idle, Knows, SignInPcs, OnToken
<1> QED BY <1>1, <1>2

\* A call at another statement is otherwise the same.
LEMMA AtPc ==
  ASSUME NEW w \in Task, NEW pc \in Pcs, NEW n, n = [w EXCEPT !.pc = pc]
  PROVE  /\ n \in Task
         /\ n.pc = pc
         /\ n.then = w.then /\ n.user = w.user /\ n.subject = w.subject /\ n.email = w.email
         /\ n.flag = w.flag /\ n.row = w.row /\ n.want = w.want /\ n.days = w.days
         /\ n.slug = w.slug /\ n.ids = w.ids /\ n.slugs = w.slugs
         /\ n.restricted = w.restricted /\ n.control = w.control /\ n.saw = w.saw
<1>1. n \in Task
  BY DEF Task, Pcs
<1> QED BY <1>1 DEF Task

\* The row a call carries, and what it knows.
LEMMA OwnTask ==
  ASSUME Inv, NEW t \in Tasks
  PROVE  task[t] \in Task /\ Knows(task[t], users, endpoints, tokens)
  BY DEF Inv, TypeOK, TasksKnow

\* A call that arrives, with what it knows.
LEMMA Begins ==
  ASSUME Inv, NEW t \in Tasks, NEW new \in Task, Begin(t, new), UNCHANGED <<now, sweep, tables>>,
         Knows(new, users, endpoints, tokens)
  PROVE  StepHolds
<1>1. calls' \in Nat
  BY DEF Begin, Arrives, Inv, TypeOK
<1>2. task' = [task EXCEPT ![t] = new]
  BY DEF Begin
<1> QED BY <1>1, <1>2, QuietStep

\* A call that ends and writes nothing.
LEMMA Finishes ==
  ASSUME Inv, NEW t \in Tasks, Finish(t), UNCHANGED <<now, calls, sweep, tables>>
  PROVE  StepHolds
<1>1. calls' \in Nat
  BY DEF Inv, TypeOK
<1>2. task' = [task EXCEPT ![t] = Idle]
  BY DEF Finish
<1> QED BY <1>1, <1>2, IdleTask, QuietStep

\* A call goes on and is otherwise the same.
LEMMA GoesOn ==
  ASSUME Inv, NEW t \in Tasks, NEW pc \in Pcs, Goto(t, pc), UNCHANGED <<now, calls, sweep, tables>>,
         \A n \in Task : n = [task[t] EXCEPT !.pc = pc] => Knows(n, users, endpoints, tokens)
  PROVE  StepHolds
<1>1. calls' \in Nat
  BY DEF Inv, TypeOK
<1> DEFINE new == [task[t] EXCEPT !.pc = pc]
<1>2. task' = [task EXCEPT ![t] = new]
  BY DEF Goto
<1>3. new \in Task
  BY OwnTask, AtPc
<1>4. Knows(new, users, endpoints, tokens)
  BY <1>3
<1> HIDE DEF new
<1> QED BY <1>1, <1>2, <1>3, <1>4, QuietStep

----------------------------------------------------------------------------
(* Calls that arrive.                                                      *)

\* get_oidc_callback: whom the provider names.
LEMMA SignInHolds ==
  ASSUME Inv, NEW t \in Tasks, NEW id \in People, SignIn(t, id)
  PROVE  StepHolds
<1> DEFINE new == [Idle EXCEPT !.pc = "lookup", !.subject = id.subject, !.email = id.email,
                              !.flag = id.verified]
<1>1. id.subject \in Subjects /\ id.email \in Emails /\ id.verified \in BOOLEAN
  BY IdentityAssumption DEF Identity
<1>2. new \in Task
  BY <1>1 DEF Idle, Task, NoExpiry, SignInPcs
<1>3. Knows(new, users, endpoints, tokens)
  BY <1>1 DEF Idle, Knows, SignInPcs, OnToken
<1>4. Begin(t, new) /\ UNCHANGED <<now, sweep, tables>>
  BY DEF SignIn
<1> HIDE DEF new
<1> QED BY <1>2, <1>3, <1>4, Begins

\* post_login.
LEMMA LoginHolds ==
  ASSUME Inv, NEW t \in Tasks, NEW u \in DOMAIN users, Login(t, u)
  PROVE  StepHolds
<1> DEFINE new == [Idle EXCEPT !.pc = "session", !.user = u]
<1>1. u \in Nat
  BY LenProperties DEF Inv, TypeOK
<1>2. new \in Task
  BY <1>1 DEF Idle, Task, NoExpiry, SignInPcs
<1>3. Knows(new, users, endpoints, tokens)
  BY <1>1 DEF Idle, Knows, SignInPcs, OnToken
<1>4. Begin(t, new) /\ UNCHANGED <<now, sweep, tables>>
  BY DEF Login
<1> HIDE DEF new
<1> QED BY <1>2, <1>3, <1>4, Begins

\* The commands: user add, user delete, call, token mint, token revoke.
LEMMA CommandsHold ==
  ASSUME Inv, NEW t \in Tasks
  PROVE  /\ \A e \in Emails, p \in BOOLEAN : AddUser(t, e, p) => StepHolds
         /\ \A u \in DOMAIN users, f \in BOOLEAN : DeleteUser(t, u, f) => StepHolds
         /\ \A u \in DOMAIN users, s \in Slugs : CliRun(t, u, s) => StepHolds
         /\ \A u \in DOMAIN users, c \in MintChoices : CliMint(t, u, c) => StepHolds
         /\ \A k \in DOMAIN tokens : CliRevoke(t, k) => StepHolds
<1>0. \A u \in DOMAIN users : u \in Nat
  BY LenProperties DEF Inv, TypeOK
<1>1. ASSUME NEW e \in Emails, NEW p \in BOOLEAN, AddUser(t, e, p) PROVE StepHolds
  <2> DEFINE new == [Idle EXCEPT !.pc = "adduser", !.email = e, !.flag = p]
  <2>1. new \in Task
    BY DEF Idle, Task, NoExpiry, CommandPcs
  <2>2. Knows(new, users, endpoints, tokens)
    BY DEF Idle, Knows, SignInPcs, OnToken
  <2>3. Begin(t, new) /\ UNCHANGED <<now, sweep, tables>>
    BY <1>1 DEF AddUser
  <2> HIDE DEF new
  <2> QED BY <2>1, <2>2, <2>3, Begins
<1>2. ASSUME NEW u \in DOMAIN users, NEW f \in BOOLEAN, DeleteUser(t, u, f) PROVE StepHolds
  <2> DEFINE new == [Idle EXCEPT !.pc = "count", !.user = u, !.flag = f]
  <2>1. new \in Task
    BY <1>0 DEF Idle, Task, NoExpiry, CommandPcs
  <2>2. Knows(new, users, endpoints, tokens)
    BY DEF Idle, Knows, SignInPcs, OnToken
  <2>3. Begin(t, new) /\ UNCHANGED <<now, sweep, tables>>
    BY <1>2 DEF DeleteUser
  <2> HIDE DEF new
  <2> QED BY <2>1, <2>2, <2>3, Begins
<1>3. ASSUME NEW u \in DOMAIN users, NEW s \in Slugs, CliRun(t, u, s) PROVE StepHolds
  <2> DEFINE new == [Idle EXCEPT !.pc = "resolve", !.user = u, !.slug = s]
  <2>1. new \in Task
    BY <1>0 DEF Idle, Task, NoExpiry, RequestPcs
  <2>2. Knows(new, users, endpoints, tokens)
    BY DEF Idle, Knows, SignInPcs, OnToken
  <2>3. Begin(t, new) /\ UNCHANGED <<now, sweep, tables>>
    BY <1>3 DEF CliRun
  <2> HIDE DEF new
  <2> QED BY <2>1, <2>2, <2>3, Begins
<1>4. ASSUME NEW u \in DOMAIN users, NEW c \in MintChoices, CliMint(t, u, c) PROVE StepHolds
  <2> DEFINE new == [Idle EXCEPT !.pc = "grants", !.user = u, !.want = c.slugs,
                                !.flag = c.control, !.days = c.days]
  <2>0. c.slugs \in SUBSET Slugs /\ c.control \in BOOLEAN /\ c.days \in Nat \cup {NoExpiry}
    BY IdentityAssumption
  <2>1. new \in Task
    BY <1>0, <2>0 DEF Idle, Task, TokenPcs
  <2>2. Knows(new, users, endpoints, tokens)
    BY DEF Idle, Knows, SignInPcs, OnToken
  <2>3. Begin(t, new) /\ UNCHANGED <<now, sweep, tables>>
    BY <1>4 DEF CliMint
  <2> HIDE DEF new
  <2> QED BY <2>1, <2>2, <2>3, Begins
<1>5. ASSUME NEW k \in DOMAIN tokens, CliRevoke(t, k) PROVE StepHolds
  <2> DEFINE new == [Idle EXCEPT !.pc = "revoke", !.row = k]
  <2>0. k \in Nat
    BY LenProperties DEF Inv, TypeOK
  <2>1. new \in Task
    BY <2>0 DEF Idle, Task, NoExpiry, TokenPcs
  <2>2. Knows(new, users, endpoints, tokens)
    BY DEF Idle, Knows, SignInPcs, OnToken
  <2>3. Begin(t, new) /\ UNCHANGED <<now, sweep, tables>>
    BY <1>5 DEF CliRevoke
  <2> HIDE DEF new
  <2> QED BY <2>1, <2>2, <2>3, Begins
<1> QED BY <1>1, <1>2, <1>3, <1>4, <1>5

\* Calls by a session: what follows the Caller extractor.
LEMMA SessionCallsHold ==
  ASSUME Inv, NEW t \in Tasks, NEW s \in DOMAIN sessions
  PROVE  /\ \A c \in MintChoices : ApiMint(t, s, c) => StepHolds
         /\ \A k \in DOMAIN tokens : ApiRevoke(t, s, k) => StepHolds
         /\ \A g \in Slugs : TestRun(t, s, g) => StepHolds
         /\ \A r \in DOMAIN runs : ReadRun(t, s, r) => StepHolds
<1>0. sessions[s].user \in Nat
  <2>1. sessions[s] \in Session
    BY RowType DEF Inv, TypeOK
  <2> QED BY <2>1 DEF Session
<1>1. ASSUME NEW c \in MintChoices, ApiMint(t, s, c) PROVE StepHolds
  <2> DEFINE new == [Idle EXCEPT !.pc = "caller", !.then = "grants", !.user = sessions[s].user,
                                !.want = c.slugs, !.flag = c.control, !.days = c.days]
  <2>0. c.slugs \in SUBSET Slugs /\ c.control \in BOOLEAN /\ c.days \in Nat \cup {NoExpiry}
    BY IdentityAssumption
  <2>1. new \in Task
    BY <1>0, <2>0 DEF Idle, Task, TokenPcs
  <2>2. Knows(new, users, endpoints, tokens)
    BY DEF Idle, Knows, SignInPcs, OnToken
  <2>3. Begin(t, new) /\ UNCHANGED <<now, sweep, tables>>
    BY <1>1 DEF ApiMint
  <2> HIDE DEF new
  <2> QED BY <2>1, <2>2, <2>3, Begins
<1>2. ASSUME NEW k \in DOMAIN tokens, ApiRevoke(t, s, k) PROVE StepHolds
  <2> DEFINE new == [Idle EXCEPT !.pc = "caller", !.then = "findtoken",
                                !.user = sessions[s].user, !.row = k]
  <2>0. k \in Nat
    BY LenProperties DEF Inv, TypeOK
  <2>1. new \in Task
    BY <1>0, <2>0 DEF Idle, Task, NoExpiry, TokenPcs
  <2>2. Knows(new, users, endpoints, tokens)
    BY DEF Idle, Knows, SignInPcs, OnToken
  <2>3. Begin(t, new) /\ UNCHANGED <<now, sweep, tables>>
    BY <1>2 DEF ApiRevoke
  <2> HIDE DEF new
  <2> QED BY <2>1, <2>2, <2>3, Begins
<1>3. ASSUME NEW g \in Slugs, TestRun(t, s, g) PROVE StepHolds
  <2> DEFINE new == [Idle EXCEPT !.pc = "caller", !.then = "resolve",
                                !.user = sessions[s].user, !.slug = g, !.flag = TRUE]
  <2>1. new \in Task
    BY <1>0 DEF Idle, Task, NoExpiry, TokenPcs
  <2>2. Knows(new, users, endpoints, tokens)
    BY DEF Idle, Knows, SignInPcs, OnToken
  <2>3. Begin(t, new) /\ UNCHANGED <<now, sweep, tables>>
    BY <1>3 DEF TestRun
  <2> HIDE DEF new
  <2> QED BY <2>1, <2>2, <2>3, Begins
<1>4. ASSUME NEW r \in DOMAIN runs, ReadRun(t, s, r) PROVE StepHolds
  <2> DEFINE new == [Idle EXCEPT !.pc = "caller", !.then = "history",
                                !.user = sessions[s].user, !.row = r]
  <2>0. r \in Nat
    BY LenProperties DEF Inv, TypeOK
  <2>1. new \in Task
    BY <1>0, <2>0 DEF Idle, Task, NoExpiry, TokenPcs
  <2>2. Knows(new, users, endpoints, tokens)
    BY DEF Idle, Knows, SignInPcs, OnToken
  <2>3. Begin(t, new) /\ UNCHANGED <<now, sweep, tables>>
    BY <1>4 DEF ReadRun
  <2> HIDE DEF new
  <2> QED BY <2>1, <2>2, <2>3, Begins
<1> QED BY <1>1, <1>2, <1>3, <1>4

\* MCP requests, by a service token or an access token.
LEMMA RequestsHold ==
  ASSUME Inv, NEW t \in Tasks, NEW g \in Slugs \cup {None}
  PROVE  /\ \A k \in DOMAIN tokens : PresentToken(t, k, g) => StepHolds
         /\ \A u \in DOMAIN users : PresentOauth(t, u, g) => StepHolds
<1>1. ASSUME NEW k \in DOMAIN tokens, PresentToken(t, k, g) PROVE StepHolds
  <2> DEFINE new == [Idle EXCEPT !.pc = "touch", !.row = k, !.user = tokens[k].owner, !.slug = g,
                           !.restricted = tokens[k].restricted, !.control = tokens[k].control,
                           !.saw = Len(endpoints)]
  <2>0. k \in Nat /\ Len(endpoints) \in Nat /\ tokens[k] \in Token
    BY LenProperties, RowType DEF Inv, TypeOK
  <2>1. tokens[k].owner \in Nat /\ tokens[k].restricted \in BOOLEAN /\ tokens[k].control \in BOOLEAN
    BY <2>0 DEF Token
  <2>2. new \in Task
    BY <2>0, <2>1 DEF Idle, Task, NoExpiry, RequestPcs
  <2>3. Knows(new, users, endpoints, tokens)
    <3>1. /\ new.pc = "touch" /\ new.row = k /\ new.user = tokens[k].owner
          /\ new.restricted = tokens[k].restricted /\ new.saw = Len(endpoints)
      BY DEF Idle
    <3> HIDE DEF new
    <3>2. Len(endpoints) <= Len(endpoints)
      BY <2>0
    <3> QED BY <3>1, <3>2 DEF Knows, SignInPcs, OnToken
  <2>4. Begin(t, new) /\ UNCHANGED <<now, sweep, tables>>
    BY <1>1 DEF PresentToken
  <2> HIDE DEF new
  <2> QED BY <2>2, <2>3, <2>4, Begins
<1>2. ASSUME NEW u \in DOMAIN users, PresentOauth(t, u, g) PROVE StepHolds
  <2> DEFINE new == [Idle EXCEPT !.pc = "oauth", !.user = u, !.slug = g, !.control = TRUE]
  <2>0. u \in Nat
    BY LenProperties DEF Inv, TypeOK
  <2>1. new \in Task
    BY <2>0 DEF Idle, Task, NoExpiry, RequestPcs
  <2>2. Knows(new, users, endpoints, tokens)
    BY DEF Idle, Knows, SignInPcs, OnToken
  <2>3. Begin(t, new) /\ UNCHANGED <<now, sweep, tables>>
    BY <1>2 DEF PresentOauth
  <2> HIDE DEF new
  <2> QED BY <2>1, <2>2, <2>3, Begins
<1> QED BY <1>1, <1>2

----------------------------------------------------------------------------
(* Statements that only read.                                              *)

\* The account linked to the person is the one the sign-in goes on about.
LEMMA FindLinkedHolds ==
  ASSUME Inv, NEW t \in Tasks, NEW u \in DOMAIN users, FindLinked(t, u)
  PROVE  StepHolds
<1> DEFINE pc == IF users[u].email = task[t].email THEN "reload" ELSE "email"
           at == [task[t] EXCEPT !.pc = pc]
           new == [at EXCEPT !.user = u]
<1>1. task[t] \in Task /\ Knows(task[t], users, endpoints, tokens)
  BY OwnTask
<1>2. pc \in {"reload", "email"} /\ pc \in Pcs
  BY DEF Pcs, SignInPcs
<1>3. u \in Nat
  BY LenProperties DEF Inv, TypeOK
<1>4. users[u].subject = task[t].subject
  BY DEF FindLinked, WithSubject
<1>5. task[t].subject \in Subjects /\ task[t].email \in Emails
  BY <1>1 DEF Knows, SignInPcs, FindLinked
<1>6. GotoUser(t, pc, u) /\ UNCHANGED <<now, calls, sweep, tables>>
  BY DEF FindLinked
<1> HIDE DEF pc
<1>7. task' = [task EXCEPT ![t] = new]
  BY <1>6 DEF GotoUser
<1>8. at \in Task /\ at.pc = pc /\ at.subject = task[t].subject /\ at.email = task[t].email
  BY <1>1, <1>2, AtPc
<1> HIDE DEF at
<1>9. /\ new \in Task /\ new.pc = pc /\ new.user = u
      /\ new.subject = at.subject /\ new.email = at.email
  BY <1>3, <1>8 DEF Task
<1> HIDE DEF new
<1>10. Knows(new, users, endpoints, tokens)
  BY <1>2, <1>4, <1>5, <1>8, <1>9 DEF Knows, SignInPcs, OnToken
<1>11. calls' \in Nat
  BY <1>6 DEF Inv, TypeOK
<1> QED BY <1>6, <1>7, <1>9, <1>10, <1>11, QuietStep

\* The account a claim goes on about has the email that is vouched for.
LEMMA FindCandidateHolds ==
  ASSUME Inv, NEW t \in Tasks, FindCandidate(t)
  PROVE  StepHolds
<1>1. task[t] \in Task /\ Knows(task[t], users, endpoints, tokens)
  BY OwnTask
<1>2. task[t].pc = "candidate" /\ UNCHANGED <<now, calls, sweep, tables>>
  BY DEF FindCandidate, At
<1>3. task[t].subject \in Subjects /\ task[t].email \in Emails /\ task[t].flag
  BY <1>1, <1>2 DEF Knows, SignInPcs
<1>4. CASE UnlinkedWithEmail(task[t].email) = {}
  <2>1. Goto(t, "taken")
    BY <1>4 DEF FindCandidate
  <2>2. "taken" \in Pcs
    BY DEF Pcs, SignInPcs
  <2>3. ASSUME NEW n \in Task, n = [task[t] EXCEPT !.pc = "taken"]
        PROVE  Knows(n, users, endpoints, tokens)
    <3>1. n.pc = "taken" /\ n.subject = task[t].subject /\ n.email = task[t].email
      BY <1>1, <2>2, <2>3, AtPc
    <3> QED BY <1>3, <3>1 DEF Knows, SignInPcs, OnToken
  <2> QED BY <1>2, <2>1, <2>2, <2>3, GoesOn
<1>5. CASE UnlinkedWithEmail(task[t].email) # {}
  <2>1. PICK u \in UnlinkedWithEmail(task[t].email) : GotoUser(t, "claim", u)
    BY <1>5 DEF FindCandidate
  <2> DEFINE at == [task[t] EXCEPT !.pc = "claim"]
             new == [at EXCEPT !.user = u]
  <2>2. u \in DOMAIN users /\ users[u].email = task[t].email
    BY DEF UnlinkedWithEmail, WithEmail
  <2>3. u \in Nat
    BY <2>2, LenProperties DEF Inv, TypeOK
  <2>4. task' = [task EXCEPT ![t] = new]
    BY <2>1 DEF GotoUser
  <2>5. "claim" \in Pcs
    BY DEF Pcs, SignInPcs
  <2>6. /\ at \in Task /\ at.pc = "claim" /\ at.flag = task[t].flag
        /\ at.subject = task[t].subject /\ at.email = task[t].email
    BY <1>1, <2>5, AtPc
  <2> HIDE DEF at
  <2>7. /\ new \in Task /\ new.pc = "claim" /\ new.user = u /\ new.flag = at.flag
        /\ new.subject = at.subject /\ new.email = at.email
    BY <2>3, <2>6 DEF Task
  <2> HIDE DEF new
  <2>8. Knows(new, users, endpoints, tokens)
    BY <1>3, <2>2, <2>6, <2>7 DEF Knows, SignInPcs, OnToken
  <2>9. calls' \in Nat
    BY <1>2 DEF Inv, TypeOK
  <2> QED BY <1>2, <2>4, <2>7, <2>8, <2>9, QuietStep
<1> QED BY <1>4, <1>5

\* The other statements of a sign-in and of `user delete`.
LEMMA SignInReadsHold ==
  ASSUME Inv, NEW t \in Tasks
  PROVE  /\ NotLinked(t) => StepHolds
         /\ CheckTaken(t) => StepHolds
         /\ CountUsers(t) => StepHolds
<1>0. task[t] \in Task /\ Knows(task[t], users, endpoints, tokens)
  BY OwnTask
<1>1. ASSUME NotLinked(t) PROVE StepHolds
  <2>1. task[t].subject \in Subjects /\ task[t].email \in Emails
    BY <1>0, <1>1 DEF Knows, SignInPcs, NotLinked
  <2>2. PICK pc \in {"candidate", "taken"} : Goto(t, pc) /\ (pc = "candidate" => task[t].flag)
    BY <1>1 DEF NotLinked
  <2>3. pc \in Pcs
    BY DEF Pcs, SignInPcs
  <2>4. ASSUME NEW n \in Task, n = [task[t] EXCEPT !.pc = pc]
        PROVE  Knows(n, users, endpoints, tokens)
    <3>1. n.pc = pc /\ n.subject = task[t].subject /\ n.email = task[t].email /\ n.flag = task[t].flag
      BY <1>0, <2>3, <2>4, AtPc
    <3> QED BY <2>1, <2>2, <3>1 DEF Knows, SignInPcs, OnToken
  <2>5. UNCHANGED <<now, calls, sweep, tables>>
    BY <1>1 DEF NotLinked
  <2> QED BY <2>2, <2>3, <2>4, <2>5, GoesOn
<1>2. ASSUME CheckTaken(t) PROVE StepHolds
  <2>1. UNCHANGED <<now, calls, sweep, tables>> /\ task[t].pc = "taken"
    BY <1>2 DEF CheckTaken, At
  <2>2. task[t].subject \in Subjects /\ task[t].email \in Emails
    BY <1>0, <2>1 DEF Knows, SignInPcs
  <2>3. "insert" \in Pcs
    BY DEF Pcs, SignInPcs
  <2>4. ASSUME NEW n \in Task, n = [task[t] EXCEPT !.pc = "insert"]
        PROVE  Knows(n, users, endpoints, tokens)
    <3>1. n.pc = "insert" /\ n.subject = task[t].subject /\ n.email = task[t].email
      BY <1>0, <2>3, <2>4, AtPc
    <3> QED BY <2>2, <3>1 DEF Knows, SignInPcs, OnToken
  <2>5. CASE Goto(t, "insert")
    BY <2>1, <2>3, <2>4, <2>5, GoesOn
  <2>6. CASE Finish(t)
    BY <2>1, <2>6, Finishes
  <2> QED BY <1>2, <2>5, <2>6 DEF CheckTaken
<1>3. ASSUME CountUsers(t) PROVE StepHolds
  <2>1. UNCHANGED <<now, calls, sweep, tables>>
    BY <1>3 DEF CountUsers, At
  <2>2. "delete" \in Pcs
    BY DEF Pcs, CommandPcs
  <2>3. ASSUME NEW n \in Task, n = [task[t] EXCEPT !.pc = "delete"]
        PROVE  Knows(n, users, endpoints, tokens)
    <3>1. n.pc = "delete"
      BY <1>0, <2>2, <2>3, AtPc
    <3> QED BY <3>1 DEF Knows, SignInPcs, OnToken
  <2>4. CASE Goto(t, "delete")
    BY <2>1, <2>2, <2>3, <2>4, GoesOn
  <2>5. CASE Finish(t)
    BY <2>1, <2>5, Finishes
  <2> QED BY <1>3, <2>4, <2>5 DEF CountUsers
<1> QED BY <1>1, <1>2, <1>3

\* The account that was found, claimed or inserted is opened a session for.
LEMMA ReloadHolds ==
  ASSUME Inv, NEW t \in Tasks, Reload(t)
  PROVE  StepHolds
<1>1. task[t] \in Task /\ Knows(task[t], users, endpoints, tokens)
  BY OwnTask
<1>2. UNCHANGED <<now, calls, sweep, tables>> /\ task[t].pc = "reload"
  BY DEF Reload, At
<1>3. task[t].user \in DOMAIN users /\ users[task[t].user].subject = task[t].subject
  BY <1>1, <1>2 DEF Knows
<1>4. task[t].user \in Nat /\ task[t].subject \in Subjects \cup {None}
  BY <1>1 DEF Task
<1> DEFINE new == [Idle EXCEPT !.pc = "session", !.user = task[t].user, !.subject = task[t].subject]
<1>5. CASE task' = [task EXCEPT ![t] = new]
  <2>1. new \in Task
    BY <1>4 DEF Idle, Task, NoExpiry, SignInPcs
  <2>2. new.pc = "session" /\ new.user = task[t].user /\ new.subject = task[t].subject
    BY DEF Idle
  <2> HIDE DEF new
  <2>3. Knows(new, users, endpoints, tokens)
    BY <1>3, <2>2 DEF Knows, SignInPcs, OnToken
  <2>4. calls' \in Nat
    BY <1>2 DEF Inv, TypeOK
  <2> QED BY <1>2, <1>5, <2>1, <2>3, <2>4, QuietStep
<1>6. CASE Finish(t)
  BY <1>2, <1>6, Finishes
<1> QED BY <1>5, <1>6 DEF Reload

\* The Caller extractor lets a call go on to what it came for.
LEMMA FindCallerHolds ==
  ASSUME Inv, NEW t \in Tasks, FindCaller(t)
  PROVE  StepHolds
<1>1. task[t] \in Task /\ Knows(task[t], users, endpoints, tokens)
  BY OwnTask
<1>2. UNCHANGED <<now, calls, sweep, tables>> /\ task[t].pc = "caller"
  BY DEF FindCaller, At
<1> DEFINE new == [task[t] EXCEPT !.pc = task[t].then, !.then = "idle"]
<1>3. CASE task' = [task EXCEPT ![t].pc = task[t].then, ![t].then = "idle"]
  <2>1. task[t].then \in {"idle", "grants", "findtoken", "resolve", "history"}
    BY <1>1 DEF Task
  <2>2. task' = [task EXCEPT ![t] = new]
    BY <1>3
  <2>3. new \in Task
    BY <1>1, <2>1 DEF Task, TokenPcs, RequestPcs
  <2>4. new.pc = task[t].then /\ new.row = task[t].row /\ new.then = "idle"
    BY <1>1 DEF Task
  <2> HIDE DEF new
  <2>5. Knows(new, users, endpoints, tokens)
    BY <1>1, <1>2, <2>1, <2>4 DEF Knows, SignInPcs, OnToken
  <2>6. calls' \in Nat
    BY <1>2 DEF Inv, TypeOK
  <2> QED BY <1>2, <2>2, <2>3, <2>5, <2>6, QuietStep
<1>4. CASE Finish(t)
  BY <1>2, <1>4, Finishes
<1> QED BY <1>3, <1>4 DEF FindCaller

\* The endpoints a token is asked for are its owner's.
LEMMA ResolveGrantsHolds ==
  ASSUME Inv, NEW t \in Tasks, ResolveGrants(t)
  PROVE  StepHolds
<1>1. task[t] \in Task /\ Knows(task[t], users, endpoints, tokens)
  BY OwnTask
<1>2. UNCHANGED <<now, calls, sweep, tables>> /\ task[t].pc = "grants"
  BY DEF ResolveGrants, At
<1> DEFINE ids == UNION {Named(task[t].user, s) : s \in task[t].want}
           at == [task[t] EXCEPT !.pc = "mint"]
           new == [at EXCEPT !.ids = ids]
<1>3. CASE task' = [task EXCEPT ![t].pc = "mint", ![t].ids = ids]
  <2>1. ids \subseteq DOMAIN endpoints /\ \A e \in ids : endpoints[e].owner = task[t].user
    BY DEF Named
  <2> HIDE DEF ids
  <2>2. ids \in SUBSET Nat
    <3>1. DOMAIN endpoints \subseteq Nat
      BY LenProperties DEF Inv, TypeOK
    <3> QED BY <2>1, <3>1
  <2>3. task' = [task EXCEPT ![t] = new]
    BY <1>3
  <2>4. "mint" \in Pcs
    BY DEF Pcs, TokenPcs
  <2>5. at \in Task /\ at.pc = "mint" /\ at.user = task[t].user
    BY <1>1, <2>4, AtPc
  <2> HIDE DEF at
  <2>6. new \in Task /\ new.pc = "mint" /\ new.user = at.user /\ new.ids = ids
    BY <2>2, <2>5 DEF Task
  <2> HIDE DEF new
  <2>7. Knows(new, users, endpoints, tokens)
    BY <2>1, <2>5, <2>6 DEF Knows, SignInPcs, OnToken
  <2>8. calls' \in Nat
    BY <1>2 DEF Inv, TypeOK
  <2> QED BY <1>2, <2>3, <2>6, <2>7, <2>8, QuietStep
<1>4. CASE Finish(t)
  BY <1>2, <1>4, Finishes
<1> QED BY <1>3, <1>4 DEF ResolveGrants

\* A call that finds the row it is about, or ends.
LEMMA FindsHold ==
  ASSUME Inv, NEW t \in Tasks
  PROVE  /\ FindToken(t) => StepHolds
         /\ FindGranter(t) => StepHolds
         /\ FindRun(t) => StepHolds
<1>0. task[t] \in Task /\ Knows(task[t], users, endpoints, tokens)
  BY OwnTask
<1>1. ASSUME FindToken(t) PROVE StepHolds
  <2>1. UNCHANGED <<now, calls, sweep, tables>> /\ task[t].pc = "findtoken"
    BY <1>1 DEF FindToken, At
  <2>2. "revoke" \in Pcs
    BY DEF Pcs, TokenPcs
  <2>3. ASSUME NEW n \in Task, n = [task[t] EXCEPT !.pc = "revoke"]
        PROVE  Knows(n, users, endpoints, tokens)
    <3>1. n.pc = "revoke" /\ n.row = task[t].row
      BY <1>0, <2>2, <2>3, AtPc
    <3> QED BY <1>0, <2>1, <3>1 DEF Knows, SignInPcs, OnToken
  <2>4. CASE Goto(t, "revoke")
    BY <2>1, <2>2, <2>3, <2>4, GoesOn
  <2>5. CASE Finish(t)
    BY <2>1, <2>5, Finishes
  <2> QED BY <1>1, <2>4, <2>5 DEF FindToken
<1>2. ASSUME FindGranter(t) PROVE StepHolds
  <2>1. UNCHANGED <<now, calls, sweep, tables>> /\ task[t].pc = "oauth"
    BY <1>2 DEF FindGranter, At
  <2>2. "resolve" \in Pcs
    BY DEF Pcs, RequestPcs
  <2>3. ASSUME NEW n \in Task, n = [task[t] EXCEPT !.pc = "resolve"]
        PROVE  Knows(n, users, endpoints, tokens)
    <3>1. n.pc = "resolve" /\ n.row = task[t].row
      BY <1>0, <2>2, <2>3, AtPc
    <3>2. n.row = 0
      BY <1>0, <2>1, <3>1 DEF Knows
    <3> QED BY <3>1, <3>2 DEF Knows, SignInPcs, OnToken
  <2>4. CASE Goto(t, "resolve")
    BY <2>1, <2>2, <2>3, <2>4, GoesOn
  <2>5. CASE Finish(t)
    BY <2>1, <2>5, Finishes
  <2> QED BY <1>2, <2>4, <2>5 DEF FindGranter
<1>3. ASSUME FindRun(t) PROVE StepHolds
  <2>1. UNCHANGED <<now, calls, sweep, tables>>
    BY <1>3 DEF FindRun, At
  <2>2. "rows" \in Pcs
    BY DEF Pcs, RequestPcs
  <2>3. ASSUME NEW n \in Task, n = [task[t] EXCEPT !.pc = "rows"]
        PROVE  Knows(n, users, endpoints, tokens)
    <3>1. n.pc = "rows"
      BY <1>0, <2>2, <2>3, AtPc
    <3> QED BY <3>1 DEF Knows, SignInPcs, OnToken
  <2>4. CASE Goto(t, "rows")
    BY <2>1, <2>2, <2>3, <2>4, GoesOn
  <2>5. CASE Finish(t)
    BY <2>1, <2>5, Finishes
  <2> QED BY <1>3, <2>4, <2>5 DEF FindRun
<1> QED BY <1>1, <1>2, <1>3

\* The grants a request loads are among what its token was minted with.
LEMMA LoadGrantsHolds ==
  ASSUME Inv, NEW t \in Tasks, LoadGrants(t)
  PROVE  StepHolds
<1>1. task[t] \in Task /\ Knows(task[t], users, endpoints, tokens)
  BY OwnTask
<1>2. UNCHANGED <<now, calls, sweep, tables>> /\ task[t].pc = "load"
  BY DEF LoadGrants, At
<1> DEFINE ids == tokens[task[t].row].grants
           at == [task[t] EXCEPT !.pc = "slugs"]
           new == [at EXCEPT !.ids = ids]
<1>3. task[t].row \in DOMAIN tokens
  BY <1>1, <1>2 DEF Knows
<1>4. tokens[task[t].row] \in Token
  BY <1>3, RowType DEF Inv, TypeOK
<1>5. ids \in SUBSET Nat /\ ids \subseteq tokens[task[t].row].asked
  BY <1>3, <1>4 DEF Token, Inv, TablesHold, TokensHold
<1>6. task' = [task EXCEPT ![t] = new]
  BY DEF LoadGrants
<1> HIDE DEF ids
<1>7. "slugs" \in Pcs
  BY DEF Pcs, RequestPcs
<1>8. /\ at \in Task /\ at.pc = "slugs" /\ at.user = task[t].user /\ at.row = task[t].row
      /\ at.restricted = task[t].restricted /\ at.saw = task[t].saw
  BY <1>1, <1>7, AtPc
<1> HIDE DEF at
<1>9. /\ new \in Task /\ new.pc = "slugs" /\ new.user = at.user /\ new.ids = ids
      /\ new.row = at.row /\ new.restricted = at.restricted /\ new.saw = at.saw
  BY <1>5, <1>8 DEF Task
<1> HIDE DEF new
<1>10. Knows(new, users, endpoints, tokens)
  BY <1>1, <1>2, <1>5, <1>8, <1>9 DEF Knows, SignInPcs, OnToken
<1>11. calls' \in Nat
  BY <1>2 DEF Inv, TypeOK
<1> QED BY <1>2, <1>6, <1>9, <1>10, <1>11, QuietStep

\* The slugs that a restricted request may reach are those of endpoints that its
\* token was minted with, and no other endpoint of its owner had one of them.
LEMMA LoadSlugsHolds ==
  ASSUME Inv, NEW t \in Tasks, LoadSlugs(t)
  PROVE  StepHolds
<1>1. task[t] \in Task /\ Knows(task[t], users, endpoints, tokens)
  BY OwnTask
<1>2. UNCHANGED <<now, calls, sweep, tables>> /\ task[t].pc = "slugs"
  BY DEF LoadSlugs, At
<1> DEFINE slugs == {endpoints[e].slug : e \in task[t].ids}
           at == [task[t] EXCEPT !.pc = "resolve"]
           new == [at EXCEPT !.slugs = slugs]
<1>3. CASE Finish(t)
  BY <1>2, <1>3, Finishes
<1>4. CASE (\A e \in task[t].ids : endpoints[e].live)
           /\ task' = [task EXCEPT ![t].pc = "resolve", ![t].slugs = slugs]
  <2>1. /\ task[t].row \in DOMAIN tokens /\ task[t].ids \subseteq tokens[task[t].row].asked
        /\ task[t].row \in Nat
    BY <1>1, <1>2 DEF Knows, Task
  <2>2. task[t].row # 0
    BY <2>1, LenProperties DEF Inv, TypeOK
  <2>3. /\ task[t].restricted = tokens[task[t].row].restricted
        /\ task[t].user = tokens[task[t].row].owner
        /\ task[t].saw <= Len(endpoints)
    BY <1>1, <1>2, <2>2 DEF Knows, OnToken
  <2>4. \A e \in task[t].ids : /\ e \in DOMAIN endpoints /\ endpoints[e].owner = task[t].user
                               /\ endpoints[e].live /\ endpoints[e] \in Endpoint
    BY <1>4, <2>1, <2>3, RowType DEF Inv, TypeOK, TablesHold, TokensHold
  <2>5. slugs \in SUBSET Slugs
    BY <2>4 DEF Endpoint
  <2>6. ASSUME NEW s \in slugs
        PROVE  \E e \in tokens[task[t].row].asked :
                 /\ e \in DOMAIN endpoints /\ endpoints[e].slug = s
                 /\ \A f \in DOMAIN endpoints :
                      f <= task[t].saw /\ endpoints[f].live /\ endpoints[f].owner = task[t].user
                        /\ endpoints[f].slug = s => f = e
    <3>1. PICK e \in task[t].ids : endpoints[e].slug = s
      OBVIOUS
    <3>2. \A f \in DOMAIN endpoints :
            endpoints[f].live /\ endpoints[f].owner = task[t].user /\ endpoints[f].slug = s => f = e
      BY <2>4, <3>1 DEF Inv, TablesHold, EndpointsHold
    <3> QED BY <2>1, <2>4, <3>1, <3>2
  <2> HIDE DEF slugs
  <2>7. task' = [task EXCEPT ![t] = new]
    BY <1>4
  <2>8. "resolve" \in Pcs
    BY DEF Pcs, RequestPcs
  <2>9. /\ at \in Task /\ at.pc = "resolve" /\ at.user = task[t].user /\ at.row = task[t].row
        /\ at.restricted = task[t].restricted /\ at.saw = task[t].saw
    BY <1>1, <2>8, AtPc
  <2> HIDE DEF at
  <2>10. /\ new \in Task /\ new.pc = "resolve" /\ new.user = at.user /\ new.slugs = slugs
         /\ new.row = at.row /\ new.restricted = at.restricted /\ new.saw = at.saw
    BY <2>5, <2>9 DEF Task
  <2> HIDE DEF new
  <2>11. Knows(new, users, endpoints, tokens)
    BY <2>1, <2>3, <2>6, <2>9, <2>10 DEF Knows, SignInPcs, OnToken
  <2>12. calls' \in Nat
    BY <1>2 DEF Inv, TypeOK
  <2> QED BY <1>2, <2>7, <2>10, <2>11, <2>12, QuietStep
<1> QED BY <1>3, <1>4 DEF LoadSlugs

\* The endpoint a restricted request resolves to is one its token was minted with,
\* or was created after the request came.
LEMMA ResolvePlanHolds ==
  ASSUME Inv, NEW t \in Tasks, NEW e \in DOMAIN endpoints, ResolvePlan(t, e)
  PROVE  StepHolds
<1>1. task[t] \in Task /\ Knows(task[t], users, endpoints, tokens)
  BY OwnTask
<1>2. UNCHANGED <<now, calls, sweep, tables>> /\ task[t].pc = "resolve"
  BY DEF ResolvePlan, At
<1> DEFINE at == [task[t] EXCEPT !.pc = "run"]
           new == [at EXCEPT !.ids = {e}]
<1>3. task' = [task EXCEPT ![t] = new]
  BY DEF ResolvePlan
<1>4. /\ task[t].slug \in Slugs
      /\ endpoints[e].live /\ endpoints[e].owner = task[t].user /\ endpoints[e].slug = task[t].slug
      /\ task[t].restricted => task[t].slug \in task[t].slugs
  BY <1>1 DEF ResolvePlan, Named, Allows, Task
<1>5. e \in Nat /\ task[t].saw \in Nat
  BY <1>1, LenProperties DEF Inv, TypeOK, Task
<1>6. ASSUME task[t].row # 0, task[t].restricted
      PROVE  /\ \E f \in tokens[task[t].row].asked :
                  f \in DOMAIN endpoints /\ endpoints[f].slug = task[t].slug
             /\ e \in tokens[task[t].row].asked \/ e > task[t].saw
  <2>1. PICK f \in tokens[task[t].row].asked :
          /\ f \in DOMAIN endpoints /\ endpoints[f].slug = task[t].slug
          /\ \A g \in DOMAIN endpoints :
               g <= task[t].saw /\ endpoints[g].live /\ endpoints[g].owner = task[t].user
                 /\ endpoints[g].slug = task[t].slug => g = f
    BY <1>1, <1>2, <1>4, <1>6 DEF Knows
  <2>2. e <= task[t].saw => e = f
    BY <1>4, <2>1
  <2>3. e <= task[t].saw \/ e > task[t].saw
    BY <1>5
  <2> QED BY <2>1, <2>2, <2>3
<1>7. "run" \in Pcs
  BY DEF Pcs, RequestPcs
<1>8. /\ at \in Task /\ at.pc = "run" /\ at.user = task[t].user /\ at.row = task[t].row
      /\ at.restricted = task[t].restricted /\ at.saw = task[t].saw /\ at.slug = task[t].slug
  BY <1>1, <1>7, AtPc
<1> HIDE DEF at
<1>9. /\ new \in Task /\ new.pc = "run" /\ new.user = at.user /\ new.ids = {e}
      /\ new.row = at.row /\ new.restricted = at.restricted /\ new.saw = at.saw
      /\ new.slug = at.slug
  BY <1>5, <1>8 DEF Task
<1> HIDE DEF new
<1>10. Knows(new, users, endpoints, tokens)
  <2>1. new.row # 0 => /\ new.row \in DOMAIN tokens
                       /\ new.restricted = tokens[new.row].restricted
                       /\ new.user = tokens[new.row].owner
                       /\ new.saw <= Len(endpoints)
    BY <1>1, <1>2, <1>8, <1>9 DEF Knows, OnToken
  <2>2. new.row # 0 /\ new.restricted =>
          /\ \E f \in tokens[new.row].asked : f \in DOMAIN endpoints /\ endpoints[f].slug = new.slug
          /\ \A f \in new.ids : f \in tokens[new.row].asked \/ f > new.saw
    BY <1>6, <1>8, <1>9
  <2> QED BY <1>4, <1>8, <1>9, <2>1, <2>2 DEF Knows, SignInPcs, OnToken
<1>11. calls' \in Nat
  BY <1>2 DEF Inv, TypeOK
<1> QED BY <1>2, <1>3, <1>9, <1>10, <1>11, QuietStep

\* The control plane: what a call there goes on to carries no token.
LEMMA ControlHolds ==
  ASSUME Inv, NEW t \in Tasks
  PROVE  /\ EnterControlPlane(t) => StepHolds
         /\ \A g \in Slugs : ControlTest(t, g) => StepHolds
         /\ \A r \in DOMAIN runs : ControlReadRun(t, r) => StepHolds
<1>0. task[t] \in Task /\ task[t].user \in Nat
  BY OwnTask DEF Task
<1>1. ASSUME EnterControlPlane(t) PROVE StepHolds
  <2> DEFINE new == [Idle EXCEPT !.pc = "author", !.user = task[t].user]
  <2>1. task' = [task EXCEPT ![t] = new] /\ UNCHANGED <<now, calls, sweep, tables>>
    BY <1>1 DEF EnterControlPlane, At
  <2>2. new \in Task
    BY <1>0 DEF Idle, Task, NoExpiry, RequestPcs
  <2>3. Knows(new, users, endpoints, tokens)
    BY DEF Idle, Knows, SignInPcs, OnToken
  <2>4. calls' \in Nat
    BY <2>1 DEF Inv, TypeOK
  <2> HIDE DEF new
  <2> QED BY <2>1, <2>2, <2>3, <2>4, QuietStep
<1>2. ASSUME NEW g \in Slugs, ControlTest(t, g) PROVE StepHolds
  <2> DEFINE new == [Idle EXCEPT !.pc = "resolve", !.user = task[t].user, !.slug = g, !.flag = TRUE]
  <2>1. task' = [task EXCEPT ![t] = new] /\ UNCHANGED <<now, calls, sweep, tables>>
    BY <1>2 DEF ControlTest, At
  <2>2. new \in Task
    BY <1>0 DEF Idle, Task, NoExpiry, RequestPcs
  <2>3. Knows(new, users, endpoints, tokens)
    BY DEF Idle, Knows, SignInPcs, OnToken
  <2>4. calls' \in Nat
    BY <2>1 DEF Inv, TypeOK
  <2> HIDE DEF new
  <2> QED BY <2>1, <2>2, <2>3, <2>4, QuietStep
<1>3. ASSUME NEW r \in DOMAIN runs, ControlReadRun(t, r) PROVE StepHolds
  <2> DEFINE new == [Idle EXCEPT !.pc = "history", !.user = task[t].user, !.row = r]
  <2>0. r \in Nat
    BY LenProperties DEF Inv, TypeOK
  <2>1. task' = [task EXCEPT ![t] = new] /\ UNCHANGED <<now, calls, sweep, tables>>
    BY <1>3 DEF ControlReadRun, Shows, At
  <2>2. new \in Task
    BY <1>0, <2>0 DEF Idle, Task, NoExpiry, RequestPcs
  <2>3. Knows(new, users, endpoints, tokens)
    BY DEF Idle, Knows, SignInPcs, OnToken
  <2>4. calls' \in Nat
    BY <2>1 DEF Inv, TypeOK
  <2> HIDE DEF new
  <2> QED BY <2>1, <2>2, <2>3, <2>4, QuietStep
<1> QED BY <1>1, <1>2, <1>3

\* Calls that end without a write.
LEMMA EndingsHold ==
  ASSUME Inv, NEW t \in Tasks, Refuse(t) \/ AnswerOnly(t) \/ ShowRun(t) \/ Drop(t)
  PROVE  StepHolds
<1>1. Finish(t) /\ UNCHANGED <<now, calls, sweep, tables>>
  BY DEF Refuse, AnswerOnly, ShowRun, Drop, At
<1> QED BY <1>1, Finishes

----------------------------------------------------------------------------
(* Statements that write users.                                            *)

\* Users change, and none is deleted or loses its link.
LEMMA UsersChange ==
  ASSUME Inv, users' \in Seq(User), DOMAIN users \subseteq DOMAIN users',
         \A u \in DOMAIN users :
           /\ users[u].subject # None => users'[u].subject = users[u].subject
           /\ users'[u].subject = None => users'[u].email = users[u].email
           /\ users[u].live => users'[u].live,
         UNCHANGED <<now, sweep, sessions, endpoints, tokens, runs>>, calls' \in Nat
  PROVE  TablesOK' /\ TablesHold' /\ Kept
<1>1. TablesOK'
  BY DEF Inv, TypeOK, TablesOK
<1>2. Len(endpoints) \in Nat /\ DOMAIN endpoints = 1..Len(endpoints)
  BY LenProperties DEF Inv, TypeOK
<1>3. Kept
  BY <1>2 DEF Kept, UsersKept, EndpointsKept, TokensKept
<1>4. \A u : LiveUser(u) => LiveUser(u)'
  BY DEF LiveUser
<1>5. SessionsHold'
  BY DEF Inv, TablesHold, SessionsHold
<1>6. EndpointsHold' /\ TokensHold' /\ RunsHold'
  BY <1>4 DEF Inv, TablesHold, EndpointsHold, TokensHold, RunsHold
<1>7. SweepHolds'
  BY DEF Inv, TablesHold, SweepHolds
<1> QED BY <1>1, <1>3, <1>5, <1>6, <1>7 DEF TablesHold

\* One user row is written.
LEMMA UserUpdated ==
  ASSUME Inv, NEW u \in DOMAIN users, NEW row \in User, users' = [users EXCEPT ![u] = row],
         users[u].subject # None => row.subject = users[u].subject,
         row.subject = None => row.email = users[u].email,
         users[u].live => row.live,
         UNCHANGED <<now, sweep, sessions, endpoints, tokens, runs>>, calls' \in Nat
  PROVE  /\ TablesOK' /\ TablesHold' /\ Kept
         /\ u \in DOMAIN users' /\ users'[u] = row
         /\ \A v \in DOMAIN users : v # u => users'[v] = users[v]
<1>1. users \in Seq(User)
  BY DEF Inv, TypeOK
<1>2. users' \in [DOMAIN users -> User]
  BY <1>1, RowType
<1>3. users' \in Seq(User) /\ DOMAIN users' = DOMAIN users
  BY <1>1, <1>2, Mapped
<1>4. users'[u] = row /\ \A v \in DOMAIN users : v # u => users'[v] = users[v]
  BY <1>1
<1>5. \A v \in DOMAIN users :
           /\ users[v].subject # None => users'[v].subject = users[v].subject
           /\ users'[v].subject = None => users'[v].email = users[v].email
           /\ users[v].live => users'[v].live
  BY <1>4
<1>6. TablesOK' /\ TablesHold' /\ Kept
  BY <1>3, <1>5, UsersChange
<1> QED BY <1>3, <1>4, <1>6

\* A user row is inserted.
LEMMA UserInserted ==
  ASSUME Inv, NEW row \in User, users' = Append(users, row),
         UNCHANGED <<now, sweep, sessions, endpoints, tokens, runs>>, calls' \in Nat
  PROVE  /\ TablesOK' /\ TablesHold' /\ Kept /\ Proven
         /\ Len(users) + 1 \in Nat /\ Len(users) + 1 \in DOMAIN users'
         /\ users'[Len(users) + 1] = row
<1>1. users \in Seq(User)
  BY DEF Inv, TypeOK
<1>2. /\ users' \in Seq(User)
      /\ Len(users) + 1 \in Nat
      /\ DOMAIN users \subseteq DOMAIN users' /\ Len(users) + 1 \in DOMAIN users'
      /\ users'[Len(users) + 1] = row
      /\ \A u \in DOMAIN users : users'[u] = users[u]
  BY <1>1, Appended
<1>3. TablesOK' /\ TablesHold' /\ Kept
  BY <1>2, UsersChange
<1>4. Proven
  BY <1>2 DEF Proven
<1> QED BY <1>2, <1>3, <1>4

\* A linked account keeps its link when its email is refreshed.
LEMMA RefreshEmailHolds ==
  ASSUME Inv, NEW t \in Tasks, RefreshEmail(t)
  PROVE  StepHolds
<1>1. task[t] \in Task /\ Knows(task[t], users, endpoints, tokens)
  BY OwnTask
<1>2. task[t].pc = "email" /\ UNCHANGED <<now, calls, sweep, sessions, endpoints, tokens, runs>>
  BY DEF RefreshEmail, At
<1>3. /\ task[t].subject \in Subjects /\ task[t].email \in Emails
      /\ task[t].user \in DOMAIN users /\ users[task[t].user].subject = task[t].subject
  BY <1>1, <1>2 DEF Knows, SignInPcs
<1>4. task[t].subject # None
  BY <1>3, IdentityAssumption
<1>5. "reload" \in Pcs /\ calls' \in Nat
  BY <1>2 DEF Pcs, SignInPcs, Inv, TypeOK
<1> DEFINE u == task[t].user
           new == [task[t] EXCEPT !.pc = "reload"]
<1>6. /\ new \in Task /\ new.pc = "reload" /\ new.user = u
      /\ new.subject = task[t].subject /\ new.email = task[t].email
  BY <1>1, <1>5, AtPc
<1>7. CASE Finish(t) /\ UNCHANGED users
  BY <1>2, <1>7, Finishes DEF tables
<1>8. CASE Goto(t, "reload") /\ UNCHANGED users
  <2>1. ASSUME NEW n \in Task, n = [task[t] EXCEPT !.pc = "reload"]
        PROVE  Knows(n, users, endpoints, tokens)
    <3>1. n.pc = "reload" /\ n.user = u /\ n.subject = task[t].subject /\ n.email = task[t].email
      BY <1>6, <2>1
    <3> QED BY <1>3, <3>1 DEF Knows, SignInPcs, OnToken
  <2> QED BY <1>2, <1>5, <1>8, <2>1, GoesOn DEF tables
<1>9. CASE Goto(t, "reload") /\ users' = [users EXCEPT ![u].email = task[t].email]
  <2> DEFINE row == [users[u] EXCEPT !.email = task[t].email]
  <2>1. users[u] \in User
    BY <1>3, RowType DEF Inv, TypeOK
  <2>2. row \in User /\ row.subject = users[u].subject /\ row.live = users[u].live
    BY <1>3, <2>1 DEF User
  <2>3. users' = [users EXCEPT ![u] = row]
    BY <1>9
  <2> HIDE DEF row
  <2>4. /\ TablesOK' /\ TablesHold' /\ Kept
        /\ u \in DOMAIN users' /\ users'[u] = row
        /\ \A v \in DOMAIN users : v # u => users'[v] = users[v]
    BY <1>2, <1>3, <1>4, <1>5, <2>2, <2>3, UserUpdated
  <2>5. task' = [task EXCEPT ![t] = new]
    BY <1>9 DEF Goto
  <2> HIDE DEF new
  <2>6. Knows(new, users', endpoints', tokens')
    BY <1>3, <1>6, <2>2, <2>4 DEF Knows, SignInPcs, OnToken
  <2>7. Inv'
    BY <1>6, <2>4, <2>5, <2>6, Moves
  <2>8. Proven
    BY <1>3, <1>4, <2>4 DEF Proven, Kept, UsersKept
  <2> QED BY <2>4, <2>7, <2>8 DEF StepHolds
<1> QED BY <1>7, <1>8, <1>9 DEF RefreshEmail

\* A claim links an account without a link, to the person whose email it is.
LEMMA ClaimHolds ==
  ASSUME Inv, NEW t \in Tasks, Claim(t)
  PROVE  StepHolds
<1>1. task[t] \in Task /\ Knows(task[t], users, endpoints, tokens)
  BY OwnTask
<1>2. task[t].pc = "claim" /\ UNCHANGED <<now, calls, sweep, sessions, endpoints, tokens, runs>>
  BY DEF Claim, At
<1>3. /\ task[t].subject \in Subjects /\ task[t].email \in Emails /\ task[t].flag
      /\ task[t].user \in DOMAIN users
      /\ users[task[t].user].subject # None \/ users[task[t].user].email = task[t].email
  BY <1>1, <1>2 DEF Knows, SignInPcs
<1>4. task[t].subject # None
  BY <1>3, IdentityAssumption
<1>5. "reload" \in Pcs /\ "relookup" \in Pcs /\ calls' \in Nat
  BY <1>2 DEF Pcs, SignInPcs, Inv, TypeOK
<1> DEFINE u == task[t].user
           new == [task[t] EXCEPT !.pc = "reload"]
<1>6. CASE Finish(t) /\ UNCHANGED users
  BY <1>2, <1>6, Finishes DEF tables
<1>7. CASE Goto(t, "relookup") /\ UNCHANGED users
  <2>1. ASSUME NEW n \in Task, n = [task[t] EXCEPT !.pc = "relookup"]
        PROVE  Knows(n, users, endpoints, tokens)
    <3>1. n.pc = "relookup" /\ n.subject = task[t].subject /\ n.email = task[t].email
      BY <1>1, <1>5, <2>1, AtPc
    <3> QED BY <1>3, <3>1 DEF Knows, SignInPcs, OnToken
  <2> QED BY <1>2, <1>5, <1>7, <2>1, GoesOn DEF tables
<1>8. CASE /\ Claimable(u) /\ Goto(t, "reload")
           /\ users' = [users EXCEPT ![u].subject = task[t].subject, ![u].email = task[t].email]
  <2> DEFINE row == [users[u] EXCEPT !.subject = task[t].subject, !.email = task[t].email]
  <2>1. users[u] \in User /\ users[u].subject = None
    BY <1>3, <1>8, RowType DEF Inv, TypeOK, Claimable
  <2>2. row \in User /\ row.subject = task[t].subject /\ row.live = users[u].live
    BY <1>3, <2>1 DEF User
  <2>3. users' = [users EXCEPT ![u] = row]
    BY <1>8
  <2> HIDE DEF row
  <2>4. /\ TablesOK' /\ TablesHold' /\ Kept
        /\ u \in DOMAIN users' /\ users'[u] = row
        /\ \A v \in DOMAIN users : v # u => users'[v] = users[v]
    BY <1>2, <1>3, <1>4, <1>5, <2>1, <2>2, <2>3, UserUpdated
  <2>5. /\ new \in Task /\ new.pc = "reload" /\ new.user = u
        /\ new.subject = task[t].subject /\ new.email = task[t].email
    BY <1>1, <1>5, AtPc
  <2>6. task' = [task EXCEPT ![t] = new]
    BY <1>8 DEF Goto
  <2> HIDE DEF new
  <2>7. Knows(new, users', endpoints', tokens')
    BY <1>3, <2>2, <2>4, <2>5 DEF Knows, SignInPcs, OnToken
  <2>8. Inv'
    BY <2>4, <2>5, <2>6, <2>7, Moves
  <2>9. users[u].email = task[t].email
    BY <1>3, <2>1
  <2>10. Proven
    BY <1>3, <2>2, <2>4, <2>9 DEF Proven
  <2> QED BY <2>4, <2>8, <2>10 DEF StepHolds
<1> QED BY <1>6, <1>7, <1>8 DEF Claim, AfterLostClaim

\* The account inserted is linked to the person signing in.
LEMMA InsertLinkedHolds ==
  ASSUME Inv, NEW t \in Tasks, InsertLinked(t)
  PROVE  StepHolds
<1>1. task[t] \in Task /\ Knows(task[t], users, endpoints, tokens)
  BY OwnTask
<1>2. task[t].pc = "insert" /\ UNCHANGED <<now, calls, sweep, sessions, endpoints, tokens, runs>>
  BY DEF InsertLinked, At
<1>3. task[t].subject \in Subjects /\ task[t].email \in Emails
  BY <1>1, <1>2 DEF Knows, SignInPcs
<1>4. "reload" \in Pcs /\ calls' \in Nat
  BY <1>2 DEF Pcs, SignInPcs, Inv, TypeOK
<1>5. CASE Finish(t) /\ UNCHANGED users
  BY <1>2, <1>5, Finishes DEF tables
<1>6. CASE Insert(task[t].email, FALSE, task[t].subject) /\ GotoUser(t, "reload", Len(users) + 1)
  <2> DEFINE row == [email |-> task[t].email, password |-> FALSE,
                     subject |-> task[t].subject, live |-> TRUE]
             at == [task[t] EXCEPT !.pc = "reload"]
             new == [at EXCEPT !.user = Len(users) + 1]
  <2>1. row \in User /\ row.subject = task[t].subject
    BY <1>3 DEF User
  <2>2. users' = Append(users, row)
    BY <1>6 DEF Insert
  <2> HIDE DEF row
  <2>3. /\ TablesOK' /\ TablesHold' /\ Kept /\ Proven
        /\ Len(users) + 1 \in Nat /\ Len(users) + 1 \in DOMAIN users'
        /\ users'[Len(users) + 1] = row
    BY <1>2, <1>4, <2>1, <2>2, UserInserted
  <2>4. task' = [task EXCEPT ![t] = new]
    BY <1>6 DEF GotoUser
  <2>5. /\ at \in Task /\ at.pc = "reload" /\ at.subject = task[t].subject
        /\ at.email = task[t].email
    BY <1>1, <1>4, AtPc
  <2> HIDE DEF at
  <2>6. /\ new \in Task /\ new.pc = "reload" /\ new.user = Len(users) + 1
        /\ new.subject = at.subject /\ new.email = at.email
    BY <2>3, <2>5 DEF Task
  <2> HIDE DEF new
  <2>7. Knows(new, users', endpoints', tokens')
    BY <1>3, <2>1, <2>3, <2>5, <2>6 DEF Knows, SignInPcs, OnToken
  <2>8. Inv'
    BY <2>3, <2>4, <2>6, <2>7, Moves
  <2> QED BY <2>3, <2>8 DEF StepHolds
<1> QED BY <1>5, <1>6 DEF InsertLinked

\* `user add` inserts its row, or finds it there.
LEMMA InsertUserHolds ==
  ASSUME Inv, NEW t \in Tasks, InsertUser(t)
  PROVE  StepHolds
<1>1. task[t] \in Task /\ Knows(task[t], users, endpoints, tokens)
  BY OwnTask
<1>2. /\ task[t].pc = "adduser" /\ Finish(t)
      /\ UNCHANGED <<now, calls, sweep, sessions, endpoints, tokens, runs>>
  BY DEF InsertUser, At
<1>3. task[t].email \in Emails /\ task[t].flag \in BOOLEAN /\ calls' \in Nat
  BY <1>1, <1>2 DEF Knows, Task, Inv, TypeOK
<1>4. CASE UNCHANGED users
  BY <1>2, <1>4, Finishes DEF tables
<1>5. CASE Insert(task[t].email, task[t].flag, None)
  <2> DEFINE row == [email |-> task[t].email, password |-> task[t].flag,
                     subject |-> None, live |-> TRUE]
  <2>1. row \in User
    BY <1>3 DEF User
  <2>2. users' = Append(users, row)
    BY <1>5 DEF Insert
  <2> HIDE DEF row
  <2>3. TablesOK' /\ TablesHold' /\ Kept /\ Proven
    BY <1>2, <1>3, <2>1, <2>2, UserInserted
  <2>4. task' = [task EXCEPT ![t] = Idle]
    BY <1>2 DEF Finish
  <2>5. Idle \in Task /\ Knows(Idle, users', endpoints', tokens')
    BY IdleTask
  <2>6. Inv'
    BY <2>3, <2>4, <2>5, Moves
  <2> QED BY <2>3, <2>6 DEF StepHolds
<1> QED BY <1>4, <1>5 DEF InsertUser

\* `user passwd` touches passwords only.
LEMMA SetPasswordHolds ==
  ASSUME Inv, NEW e \in Emails, SetPassword(e)
  PROVE  StepHolds
<1>1. users \in Seq(User) /\ calls' \in Nat
  BY DEF Inv, TypeOK, SetPassword, Arrives
<1>2. ASSUME NEW u \in DOMAIN users
      PROVE  users'[u] \in User /\ users'[u].subject = users[u].subject
             /\ users'[u].email = users[u].email /\ users'[u].live = users[u].live
  <2>1. users[u] \in User
    BY <1>1, RowType
  <2>2. users'[u] = IF u \in WithEmail(e) THEN [users[u] EXCEPT !.password = TRUE] ELSE users[u]
    BY DEF SetPassword
  <2> QED BY <2>1, <2>2 DEF User
<1>3. users' \in [DOMAIN users -> User]
  BY <1>2 DEF SetPassword
<1>4. users' \in Seq(User) /\ DOMAIN users' = DOMAIN users
  BY <1>1, <1>3, Mapped
<1>5. UNCHANGED <<now, task, sweep, sessions, endpoints, tokens, runs>>
  BY DEF SetPassword
<1>6. TablesOK' /\ TablesHold' /\ Kept
  BY <1>1, <1>2, <1>4, <1>5, UsersChange
<1>7. Inv'
  BY <1>5, <1>6, Stays
<1>8. Proven
  BY <1>2 DEF Proven
<1> QED BY <1>6, <1>7, <1>8 DEF StepHolds

----------------------------------------------------------------------------
(* Statements that write sessions.                                         *)

\* Sessions change, and nothing else that other tables refer to.
LEMMA SessionsChange ==
  ASSUME Inv, sessions' \in Seq(Session), SessionsHold',
         UNCHANGED <<now, users, endpoints, tokens, runs>>, sweep' \in Sweep, SweepHolds',
         calls' \in Nat
  PROVE  TablesOK' /\ TablesHold' /\ Kept /\ Proven
<1>1. TablesOK'
  BY DEF Inv, TypeOK, TablesOK
<1>2. Len(endpoints) \in Nat /\ DOMAIN endpoints = 1..Len(endpoints)
  BY LenProperties DEF Inv, TypeOK
<1>3. Kept /\ Proven
  BY <1>2 DEF Kept, UsersKept, EndpointsKept, TokensKept, Proven
<1>4. EndpointsHold' /\ TokensHold' /\ RunsHold'
  BY DEF Inv, TablesHold, EndpointsHold, TokensHold, RunsHold, LiveUser
<1> QED BY <1>1, <1>3, <1>4 DEF TablesHold

\* Who signs in as a person gets a session of the account linked to that person.
LEMMA OpenSessionHolds ==
  ASSUME Inv, NEW t \in Tasks, OpenSession(t)
  PROVE  StepHolds
<1>1. task[t] \in Task /\ Knows(task[t], users, endpoints, tokens)
  BY OwnTask
<1>2. /\ task[t].pc = "session" /\ Finish(t)
      /\ UNCHANGED <<now, calls, sweep, users, endpoints, tokens, runs>>
  BY DEF OpenSession, At
<1>3. calls' \in Nat
  BY <1>2 DEF Inv, TypeOK
<1>4. CASE UNCHANGED sessions
  BY <1>2, <1>4, Finishes DEF tables
<1> DEFINE row == [user |-> task[t].user, until |-> now + SessionTTL,
                   by |-> task[t].subject, live |-> TRUE]
<1>5. CASE LiveUser(task[t].user) /\ sessions' = Append(sessions, row)
  <2>1. task[t].user \in DOMAIN users /\ users[task[t].user].live
    BY <1>5 DEF LiveUser
  <2>2. task[t].user \in Nat \ {0}
    BY <2>1, LenProperties DEF Inv, TypeOK
  <2>3. row \in Session
    BY <1>1, <2>2, IdentityAssumption DEF Session, Task, Inv, TypeOK
  <2>4. row.by # None => users[row.user].subject = row.by
    BY <1>1, <1>2 DEF Knows
  <2>5. row.user \in DOMAIN users /\ users[row.user].live
    BY <2>1
  <2> HIDE DEF row
  <2>6. /\ sessions' \in Seq(Session)
        /\ DOMAIN sessions' = DOMAIN sessions \cup {Len(sessions) + 1}
        /\ sessions'[Len(sessions) + 1] = row
        /\ \A s \in DOMAIN sessions : sessions'[s] = sessions[s]
    BY <1>5, <2>3, Appended DEF Inv, TypeOK
  <2>7. SessionsHold'
    BY <1>2, <2>4, <2>5, <2>6 DEF Inv, TablesHold, SessionsHold
  <2>8. SweepHolds' /\ sweep' \in Sweep
    BY <1>2 DEF Inv, TypeOK, TablesHold, SweepHolds
  <2>9. TablesOK' /\ TablesHold' /\ Kept /\ Proven
    BY <1>2, <1>3, <2>6, <2>7, <2>8, SessionsChange
  <2>10. task' = [task EXCEPT ![t] = Idle]
    BY <1>2 DEF Finish
  <2>11. Idle \in Task /\ Knows(Idle, users', endpoints', tokens')
    BY IdleTask
  <2>12. Inv'
    BY <2>9, <2>10, <2>11, Moves
  <2> QED BY <2>9, <2>12 DEF StepHolds
<1> QED BY <1>4, <1>5 DEF OpenSession

\* Sessions that end.
LEMMA SessionsEnd ==
  ASSUME Inv, sessions' \in [DOMAIN sessions -> Session],
         \A s \in DOMAIN sessions : /\ sessions'[s].user = sessions[s].user
                                    /\ sessions'[s].by = sessions[s].by
                                    /\ sessions'[s].live => sessions[s].live,
         UNCHANGED <<now, task, users, endpoints, tokens, runs>>, sweep' \in Sweep, SweepHolds',
         calls' \in Nat
  PROVE  StepHolds
<1>1. sessions' \in Seq(Session) /\ DOMAIN sessions' = DOMAIN sessions
  BY Mapped DEF Inv, TypeOK
<1>2. SessionsHold'
  BY <1>1 DEF Inv, TablesHold, SessionsHold
<1>3. TablesOK' /\ TablesHold' /\ Kept /\ Proven
  BY <1>1, <1>2, SessionsChange
<1>4. Inv'
  BY <1>3, Stays
<1> QED BY <1>3, <1>4 DEF StepHolds

\* get_logout ends one session.
LEMMA LogoutHolds ==
  ASSUME Inv, NEW s \in DOMAIN sessions, Logout(s)
  PROVE  StepHolds
<1>1. \A i \in DOMAIN sessions : sessions[i] \in Session
  BY RowType DEF Inv, TypeOK
<1>2. sessions' = [sessions EXCEPT ![s] = [sessions[s] EXCEPT !.live = FALSE]]
  BY DEF Logout
<1>3. [sessions[s] EXCEPT !.live = FALSE] \in Session
  BY <1>1 DEF Session
<1>4. sessions' \in [DOMAIN sessions -> Session]
  <2>1. sessions \in [DOMAIN sessions -> Session]
    BY <1>1, LenProperties DEF Inv, TypeOK
  <2> QED BY <1>2, <1>3, <2>1
<1>5. \A i \in DOMAIN sessions : /\ sessions'[i].user = sessions[i].user
                                 /\ sessions'[i].by = sessions[i].by
                                 /\ sessions'[i].live => sessions[i].live
  BY <1>1, <1>2 DEF Session
<1>6. UNCHANGED <<now, task, users, endpoints, tokens, runs, sweep>> /\ calls' \in Nat
  BY DEF Logout, Arrives, Inv, TypeOK
<1>7. sweep' \in Sweep /\ SweepHolds'
  BY <1>6 DEF Inv, TypeOK, TablesHold, SweepHolds
<1> QED BY <1>4, <1>5, <1>6, <1>7, SessionsEnd

\* The sweep ends expired sessions.
LEMMA SweepSessionsHolds ==
  ASSUME Inv, SweepSessions
  PROVE  StepHolds
<1>1. \A i \in DOMAIN sessions : sessions[i] \in Session
  BY RowType DEF Inv, TypeOK
<1>2. /\ DOMAIN sessions' = DOMAIN sessions
      /\ \A i \in DOMAIN sessions :
           sessions'[i] = [sessions[i] EXCEPT !.live = FALSE] \/ sessions'[i] = sessions[i]
  BY DEF SweepSessions
<1>3. \A i \in DOMAIN sessions : /\ sessions'[i] \in Session
                                 /\ sessions'[i].user = sessions[i].user
                                 /\ sessions'[i].by = sessions[i].by
                                 /\ sessions'[i].live => sessions[i].live
  <2> SUFFICES ASSUME NEW i \in DOMAIN sessions
               PROVE  /\ sessions'[i] \in Session
                      /\ sessions'[i].user = sessions[i].user
                      /\ sessions'[i].by = sessions[i].by
                      /\ sessions'[i].live => sessions[i].live
    OBVIOUS
  <2>1. sessions'[i] = [sessions[i] EXCEPT !.live = FALSE] \/ sessions'[i] = sessions[i]
    BY <1>2
  <2> QED BY <1>1, <2>1 DEF Session
<1>4. sessions' \in [DOMAIN sessions -> Session]
  <2>1. sessions' = [i \in DOMAIN sessions |-> sessions'[i]]
    <3>1. CASE sessions' = sessions
      BY <3>1, LenProperties DEF Inv, TypeOK
    <3>2. CASE sessions' = [s \in DOMAIN sessions |->
                   IF sessions[s].until < now THEN [sessions[s] EXCEPT !.live = FALSE] ELSE sessions[s]]
      BY <3>2
    <3> QED BY <3>1, <3>2 DEF SweepSessions
  <2> QED BY <1>3, <2>1
<1>5. UNCHANGED <<now, task, users, endpoints, tokens, runs>> /\ calls' \in Nat
  BY DEF SweepSessions, Inv, TypeOK
<1>6. sweep' \in Sweep /\ SweepHolds'
  <2>1. now \in Nat /\ now' = now /\ sweep' = Resting
    BY DEF SweepSessions, Inv, TypeOK
  <2> QED BY <2>1 DEF Sweep, SweepHolds, Resting
<1> QED BY <1>3, <1>4, <1>5, <1>6, SessionsEnd

----------------------------------------------------------------------------
(* Statements that write tokens.                                           *)

\* Tokens change, and keep what they were minted with.
LEMMA TokensChange ==
  ASSUME Inv, tokens' \in Seq(Token), TokensHold', TokensKept,
         UNCHANGED <<now, sweep, users, sessions, endpoints, runs>>, calls' \in Nat
  PROVE  TablesOK' /\ TablesHold' /\ Kept /\ Proven
<1>1. TablesOK'
  BY DEF Inv, TypeOK, TablesOK
<1>2. Len(endpoints) \in Nat /\ DOMAIN endpoints = 1..Len(endpoints)
  BY LenProperties DEF Inv, TypeOK
<1>3. Kept /\ Proven
  BY <1>2 DEF Kept, UsersKept, EndpointsKept, Proven
<1>4. SessionsHold' /\ EndpointsHold' /\ RunsHold' /\ SweepHolds'
  BY DEF Inv, TablesHold, SessionsHold, EndpointsHold, RunsHold, SweepHolds, LiveUser
<1> QED BY <1>1, <1>3, <1>4 DEF TablesHold

\* A mark is set on a token.
LEMMA TokenMarked ==
  ASSUME Inv, NEW k \in DOMAIN tokens, NEW row \in Token, tokens' = [tokens EXCEPT ![k] = row],
         row.owner = tokens[k].owner, row.restricted = tokens[k].restricted,
         row.control = tokens[k].control, row.until = tokens[k].until,
         row.asked = tokens[k].asked, row.grants = tokens[k].grants, row.live = tokens[k].live,
         tokens[k].revoked => row.revoked,
         UNCHANGED <<now, sweep, users, sessions, endpoints, runs>>, calls' \in Nat
  PROVE  TablesOK' /\ TablesHold' /\ Kept /\ Proven
<1>1. tokens \in Seq(Token)
  BY DEF Inv, TypeOK
<1>2. tokens \in [DOMAIN tokens -> Token]
  BY <1>1, LenProperties
<1>3. tokens' \in [DOMAIN tokens -> Token]
  BY <1>2
<1>4. tokens' \in Seq(Token) /\ DOMAIN tokens' = DOMAIN tokens
  BY <1>1, <1>3, Mapped
<1>5. tokens'[k] = row /\ \A j \in DOMAIN tokens : j # k => tokens'[j] = tokens[j]
  BY <1>2
<1>6. TokensKept
  BY <1>4, <1>5 DEF TokensKept
<1>7. \A j \in DOMAIN tokens : /\ tokens'[j].owner = tokens[j].owner
                               /\ tokens'[j].asked = tokens[j].asked
                               /\ tokens'[j].grants = tokens[j].grants
                               /\ tokens'[j].live = tokens[j].live
  BY <1>5
<1>8. TokensHold'
  BY <1>4, <1>7 DEF Inv, TablesHold, TokensHold, LiveUser
<1> QED BY <1>4, <1>6, <1>8, TokensChange

\* A revocation sets its mark.
LEMMA RevokeHolds ==
  ASSUME Inv, NEW t \in Tasks, Revoke(t)
  PROVE  StepHolds
<1>1. task[t] \in Task /\ Knows(task[t], users, endpoints, tokens)
  BY OwnTask
<1>2. /\ task[t].pc = "revoke" /\ Finish(t)
      /\ UNCHANGED <<now, calls, sweep, users, sessions, endpoints, runs>>
  BY DEF Revoke, At
<1>3. calls' \in Nat
  BY <1>2 DEF Inv, TypeOK
<1> DEFINE k == task[t].row
           row == [tokens[k] EXCEPT !.revoked = TRUE]
<1>4. CASE UNCHANGED tokens
  BY <1>2, <1>4, Finishes DEF tables
<1>5. CASE tokens' = [tokens EXCEPT ![k].revoked = TRUE]
  <2>1. k \in DOMAIN tokens
    BY <1>1, <1>2 DEF Knows
  <2>2. tokens[k] \in Token
    BY <2>1, RowType DEF Inv, TypeOK
  <2>3. /\ row \in Token /\ row.owner = tokens[k].owner /\ row.restricted = tokens[k].restricted
        /\ row.control = tokens[k].control /\ row.until = tokens[k].until
        /\ row.asked = tokens[k].asked /\ row.grants = tokens[k].grants
        /\ row.live = tokens[k].live /\ row.revoked
    BY <2>2 DEF Token
  <2>4. tokens' = [tokens EXCEPT ![k] = row]
    BY <1>5
  <2> HIDE DEF row, k
  <2>5. TablesOK' /\ TablesHold' /\ Kept /\ Proven
    BY <1>2, <1>3, <2>1, <2>3, <2>4, TokenMarked
  <2>6. task' = [task EXCEPT ![t] = Idle]
    BY <1>2 DEF Finish
  <2>7. Idle \in Task /\ Knows(Idle, users', endpoints', tokens')
    BY IdleTask
  <2>8. Inv'
    BY <2>5, <2>6, <2>7, Moves
  <2> QED BY <2>5, <2>8 DEF StepHolds
<1> QED BY <1>4, <1>5 DEF Revoke

\* A request marks its token used, and nothing else of it.
LEMMA TouchHolds ==
  ASSUME Inv, NEW t \in Tasks, Touch(t)
  PROVE  StepHolds
<1>1. task[t] \in Task /\ Knows(task[t], users, endpoints, tokens)
  BY OwnTask
<1>2. /\ task[t].pc = "touch"
      /\ UNCHANGED <<now, calls, sweep, users, sessions, endpoints, runs>>
  BY DEF Touch, At
<1>3. calls' \in Nat /\ "load" \in Pcs
  BY <1>2 DEF Inv, TypeOK, Pcs, RequestPcs
<1> DEFINE k == task[t].row
           row == [tokens[k] EXCEPT !.used = TRUE]
           new == [task[t] EXCEPT !.pc = "load"]
<1>4. CASE Finish(t) /\ UNCHANGED tokens
  BY <1>2, <1>4, Finishes DEF tables
<1>5. CASE tokens' = [tokens EXCEPT ![k] = Touched(k)] /\ Goto(t, "load")
  <2>1. k \in DOMAIN tokens
    BY <1>1, <1>2 DEF Knows
  <2>2. tokens[k] \in Token
    BY <2>1, RowType DEF Inv, TypeOK
  <2>3. /\ row \in Token /\ row.owner = tokens[k].owner /\ row.restricted = tokens[k].restricted
        /\ row.control = tokens[k].control /\ row.until = tokens[k].until
        /\ row.asked = tokens[k].asked /\ row.grants = tokens[k].grants
        /\ row.live = tokens[k].live /\ row.revoked = tokens[k].revoked
    BY <2>2 DEF Token
  <2>4. tokens' = [tokens EXCEPT ![k] = row]
    BY <1>5 DEF Touched
  <2>5. task' = [task EXCEPT ![t] = new]
    BY <1>5 DEF Goto
  <2>6. /\ new \in Task /\ new.pc = "load" /\ new.row = task[t].row /\ new.user = task[t].user
        /\ new.restricted = task[t].restricted /\ new.saw = task[t].saw
    BY <1>1, <1>3, AtPc
  <2> HIDE DEF row, k, new
  <2>7. TablesOK' /\ TablesHold' /\ Kept /\ Proven
    BY <1>2, <1>3, <2>1, <2>3, <2>4, TokenMarked
  <2>8. Knows(new, users, endpoints, tokens)
    BY <1>1, <1>2, <2>6 DEF Knows, SignInPcs, OnToken
  <2>9. Knows(new, users', endpoints', tokens')
    BY <2>6, <2>7, <2>8, StillKnows
  <2>10. Inv'
    BY <2>5, <2>6, <2>7, <2>9, Moves
  <2> QED BY <2>7, <2>10 DEF StepHolds
<1> QED BY <1>4, <1>5 DEF Touch

\* A token is minted with grants of its owner's live endpoints, or not at all.
LEMMA MintHolds ==
  ASSUME Inv, NEW t \in Tasks, Mint(t)
  PROVE  StepHolds
<1>1. task[t] \in Task /\ Knows(task[t], users, endpoints, tokens)
  BY OwnTask
<1>2. /\ task[t].pc = "mint" /\ Finish(t)
      /\ UNCHANGED <<now, calls, sweep, users, sessions, endpoints, runs>>
  BY DEF Mint, At
<1>3. calls' \in Nat
  BY <1>2 DEF Inv, TypeOK
<1> DEFINE c == [slugs |-> task[t].want, control |-> task[t].flag, days |-> task[t].days]
           row == Minted(task[t].user, c, task[t].ids, now)
<1>4. CASE UNCHANGED tokens
  BY <1>2, <1>4, Finishes DEF tables
<1>5. CASE /\ LiveUser(task[t].user) /\ \A e \in task[t].ids : endpoints[e].live
           /\ tokens' = Append(tokens, row)
  <2>1. task[t].user \in DOMAIN users
    BY <1>5 DEF LiveUser
  <2>2. task[t].user \in Nat \ {0} /\ now \in Nat
    BY <2>1, LenProperties DEF Inv, TypeOK
  <2>3. /\ c.control \in BOOLEAN /\ c.days \in Nat \cup {NoExpiry} /\ (c.slugs # {}) \in BOOLEAN
        /\ task[t].ids \in SUBSET Nat
    BY <1>1 DEF Task
  <2>4. (IF c.days = NoExpiry THEN NoExpiry ELSE now + c.days) \in Nat \cup {NoExpiry}
    BY <2>2, <2>3
  <2> HIDE DEF c
  <2>5. row \in Token /\ row.owner = task[t].user /\ row.grants = task[t].ids /\ row.asked = task[t].ids
    BY <2>2, <2>3, <2>4 DEF Minted, Token
  <2>6. \A e \in task[t].ids : e \in DOMAIN endpoints /\ endpoints[e].owner = task[t].user
    BY <1>1, <1>2 DEF Knows
  <2> HIDE DEF row
  <2>7. /\ tokens' \in Seq(Token)
        /\ DOMAIN tokens' = DOMAIN tokens \cup {Len(tokens) + 1}
        /\ tokens'[Len(tokens) + 1] = row
        /\ \A k \in DOMAIN tokens : tokens'[k] = tokens[k]
    BY <1>5, <2>5, Appended DEF Inv, TypeOK
  <2>8. TokensKept
    BY <2>7 DEF TokensKept
  <2>9. TokensHold'
    <3>1. ASSUME NEW k \in DOMAIN tokens
          PROVE  /\ \A e \in tokens'[k].asked :
                      e \in DOMAIN endpoints' /\ endpoints'[e].owner = tokens'[k].owner
                 /\ tokens'[k].grants \subseteq tokens'[k].asked
                 /\ tokens'[k].live =>
                      LiveUser(tokens'[k].owner) /\ \A e \in tokens'[k].grants : endpoints'[e].live
      BY <1>2, <2>7 DEF Inv, TablesHold, TokensHold
    <3>2. \A k \in DOMAIN tokens' : k \in DOMAIN tokens \/ k = Len(tokens) + 1
      BY <2>7
    <3>3. \A u : LiveUser(u) <=> LiveUser(u)'
      BY <1>2 DEF LiveUser
    <3> QED BY <1>2, <1>5, <2>5, <2>6, <2>7, <3>1, <3>2, <3>3 DEF TokensHold
  <2>10. TablesOK' /\ TablesHold' /\ Kept /\ Proven
    BY <1>2, <1>3, <2>7, <2>8, <2>9, TokensChange
  <2>11. task' = [task EXCEPT ![t] = Idle]
    BY <1>2 DEF Finish
  <2>12. Idle \in Task /\ Knows(Idle, users', endpoints', tokens')
    BY IdleTask
  <2>13. Inv'
    BY <2>10, <2>11, <2>12, Moves
  <2> QED BY <2>10, <2>13 DEF StepHolds
<1> QED BY <1>4, <1>5 DEF Mint

----------------------------------------------------------------------------
(* Statements that write endpoints.                                        *)

\* An endpoint is created under a slug its owner has free.
LEMMA EndpointCreated ==
  ASSUME Inv, NEW u, NEW s \in Slugs, CreateEndpoint(u, s), UNCHANGED <<now, sweep>>, calls' \in Nat
  PROVE  TablesOK' /\ TablesHold' /\ Kept /\ Proven
<1> DEFINE row == [owner |-> u, slug |-> s, live |-> TRUE]
<1>1. LiveUser(u) /\ u \in DOMAIN users /\ Named(u, s) = {}
  BY DEF CreateEndpoint, LiveUser
<1>2. u \in Nat \ {0}
  BY <1>1, LenProperties DEF Inv, TypeOK
<1>3. UNCHANGED <<users, sessions, tokens, runs>> /\ endpoints' = Append(endpoints, row)
  BY DEF CreateEndpoint
<1>4. row \in Endpoint /\ row.owner = u /\ row.slug = s
  BY <1>2 DEF Endpoint
<1> HIDE DEF row
<1>5. /\ endpoints' \in Seq(Endpoint)
      /\ Len(endpoints) \in Nat
      /\ DOMAIN endpoints = 1..Len(endpoints)
      /\ Len(endpoints') = Len(endpoints) + 1
      /\ DOMAIN endpoints' = DOMAIN endpoints \cup {Len(endpoints) + 1}
      /\ endpoints'[Len(endpoints) + 1] = row
      /\ \A e \in DOMAIN endpoints : endpoints'[e] = endpoints[e]
  BY <1>3, <1>4, Appended DEF Inv, TypeOK
<1>6. TablesOK'
  BY <1>3, <1>5 DEF Inv, TypeOK, TablesOK
<1>7. UsersKept /\ TokensKept /\ Proven
  BY <1>3 DEF UsersKept, TokensKept, Proven
<1>8. EndpointsKept
  BY <1>5 DEF EndpointsKept
<1>9. \A v : LiveUser(v) <=> LiveUser(v)'
  BY <1>3 DEF LiveUser
<1>10. SessionsHold' /\ RunsHold' /\ SweepHolds'
  BY <1>3, <1>9 DEF Inv, TablesHold, SessionsHold, RunsHold, SweepHolds
<1>11. TokensHold'
  <2>1. \A k \in DOMAIN tokens : \A e \in tokens[k].grants : e \in DOMAIN endpoints
    BY DEF Inv, TablesHold, TokensHold
  <2> QED BY <1>3, <1>5, <1>9, <2>1 DEF Inv, TablesHold, TokensHold
<1>12. EndpointsHold'
  <2>1. \A e \in DOMAIN endpoints' : endpoints'[e].live => LiveUser(endpoints'[e].owner)
    BY <1>1, <1>4, <1>5 DEF Inv, TablesHold, EndpointsHold
  <2>2. \A e \in DOMAIN endpoints :
          ~(endpoints'[e].live /\ endpoints'[e].owner = u /\ endpoints'[e].slug = s)
    BY <1>1, <1>5 DEF Named
  <2>3. ASSUME NEW e \in DOMAIN endpoints', NEW f \in DOMAIN endpoints',
               endpoints'[e].live, endpoints'[f].live,
               endpoints'[e].owner = endpoints'[f].owner, endpoints'[e].slug = endpoints'[f].slug
        PROVE  e = f
    <3>1. CASE e \in DOMAIN endpoints /\ f \in DOMAIN endpoints
      BY <1>5, <2>3, <3>1 DEF Inv, TablesHold, EndpointsHold
    <3>2. CASE e = Len(endpoints) + 1
      BY <1>4, <1>5, <2>2, <2>3, <3>2
    <3>3. CASE f = Len(endpoints) + 1
      BY <1>4, <1>5, <2>2, <2>3, <3>3
    <3> QED BY <1>5, <3>1, <3>2, <3>3
  <2> QED BY <1>3, <2>1, <2>3 DEF EndpointsHold, LiveUser
<1> QED BY <1>6, <1>7, <1>8, <1>10, <1>11, <1>12 DEF Kept, TablesHold

\* An endpoint is deleted, and every grant of it.
LEMMA EndpointDeleted ==
  ASSUME Inv, NEW e \in DOMAIN endpoints, DeleteEndpoint(e), UNCHANGED <<now, sweep>>, calls' \in Nat
  PROVE  TablesOK' /\ TablesHold' /\ Kept /\ Proven
<1>1. /\ UNCHANGED <<users, sessions, runs>>
      /\ endpoints' = [endpoints EXCEPT ![e] = [endpoints[e] EXCEPT !.live = FALSE]]
      /\ tokens' = [k \in DOMAIN tokens |-> [tokens[k] EXCEPT !.grants = tokens[k].grants \ {e}]]
  BY DEF DeleteEndpoint
<1>2. endpoints \in Seq(Endpoint) /\ tokens \in Seq(Token)
  BY DEF Inv, TypeOK
<1>3. endpoints \in [DOMAIN endpoints -> Endpoint]
  BY <1>2, LenProperties
<1>4. endpoints' \in [DOMAIN endpoints -> Endpoint]
  <2>1. [endpoints[e] EXCEPT !.live = FALSE] \in Endpoint
    BY <1>3 DEF Endpoint
  <2> QED BY <1>1, <1>3, <2>1
<1>5. /\ endpoints' \in Seq(Endpoint) /\ DOMAIN endpoints' = DOMAIN endpoints
      /\ Len(endpoints') = Len(endpoints) /\ Len(endpoints) \in Nat
  BY <1>2, <1>4, Mapped
<1>6. \A f \in DOMAIN endpoints : /\ endpoints'[f].owner = endpoints[f].owner
                                  /\ endpoints'[f].slug = endpoints[f].slug
                                  /\ endpoints'[f].live => endpoints[f].live
                                  /\ f # e => endpoints'[f].live = endpoints[f].live
  BY <1>1, <1>3 DEF Endpoint
<1>7. \A k \in DOMAIN tokens :
        /\ tokens'[k] \in Token
        /\ tokens'[k].owner = tokens[k].owner /\ tokens'[k].restricted = tokens[k].restricted
        /\ tokens'[k].control = tokens[k].control /\ tokens'[k].until = tokens[k].until
        /\ tokens'[k].asked = tokens[k].asked /\ tokens'[k].revoked = tokens[k].revoked
        /\ tokens'[k].live = tokens[k].live
        /\ tokens'[k].grants = tokens[k].grants \ {e}
  <2> SUFFICES ASSUME NEW k \in DOMAIN tokens
               PROVE  /\ tokens'[k] \in Token
                      /\ tokens'[k].owner = tokens[k].owner
                      /\ tokens'[k].restricted = tokens[k].restricted
                      /\ tokens'[k].control = tokens[k].control
                      /\ tokens'[k].until = tokens[k].until
                      /\ tokens'[k].asked = tokens[k].asked
                      /\ tokens'[k].revoked = tokens[k].revoked
                      /\ tokens'[k].live = tokens[k].live
                      /\ tokens'[k].grants = tokens[k].grants \ {e}
    OBVIOUS
  <2>1. tokens[k] \in Token
    BY <1>2, RowType
  <2>2. tokens'[k] = [tokens[k] EXCEPT !.grants = tokens[k].grants \ {e}]
    BY <1>1
  <2> QED BY <2>1, <2>2 DEF Token
<1>8. tokens' \in [DOMAIN tokens -> Token]
  BY <1>1, <1>7
<1>9. tokens' \in Seq(Token) /\ DOMAIN tokens' = DOMAIN tokens
  BY <1>2, <1>8, Mapped
<1>10. TablesOK'
  BY <1>1, <1>5, <1>9 DEF Inv, TypeOK, TablesOK
<1>11. UsersKept /\ Proven
  BY <1>1 DEF UsersKept, Proven
<1>12. EndpointsKept
  BY <1>5, <1>6 DEF EndpointsKept
<1>13. TokensKept
  BY <1>7, <1>9 DEF TokensKept
<1>14. \A v : LiveUser(v) <=> LiveUser(v)'
  BY <1>1 DEF LiveUser
<1>15. SessionsHold' /\ RunsHold' /\ SweepHolds'
  BY <1>1, <1>14 DEF Inv, TablesHold, SessionsHold, RunsHold, SweepHolds
<1>16. EndpointsHold'
  <2>1. \A f \in DOMAIN endpoints' : endpoints'[f].live => LiveUser(endpoints'[f].owner)
    BY <1>5, <1>6 DEF Inv, TablesHold, EndpointsHold
  <2>2. \A f, g \in DOMAIN endpoints' :
          /\ endpoints'[f].live /\ endpoints'[g].live
          /\ endpoints'[f].owner = endpoints'[g].owner /\ endpoints'[f].slug = endpoints'[g].slug
          => f = g
    BY <1>5, <1>6 DEF Inv, TablesHold, EndpointsHold
  <2> QED BY <1>1, <2>1, <2>2 DEF EndpointsHold, LiveUser
<1>17. TokensHold'
  <2> SUFFICES ASSUME NEW k \in DOMAIN tokens
               PROVE  /\ \A f \in tokens'[k].asked :
                           f \in DOMAIN endpoints' /\ endpoints'[f].owner = tokens'[k].owner
                      /\ tokens'[k].grants \subseteq tokens'[k].asked
                      /\ tokens'[k].live => /\ LiveUser(tokens'[k].owner)
                                            /\ \A f \in tokens'[k].grants : endpoints'[f].live
    BY <1>1, <1>9 DEF TokensHold, LiveUser
  <2>1. /\ \A f \in tokens[k].asked : f \in DOMAIN endpoints /\ endpoints[f].owner = tokens[k].owner
        /\ tokens[k].grants \subseteq tokens[k].asked
        /\ tokens[k].live => LiveUser(tokens[k].owner) /\ \A f \in tokens[k].grants : endpoints[f].live
    BY DEF Inv, TablesHold, TokensHold
  <2>2. /\ tokens'[k].owner = tokens[k].owner /\ tokens'[k].asked = tokens[k].asked
        /\ tokens'[k].live = tokens[k].live /\ tokens'[k].grants = tokens[k].grants \ {e}
    BY <1>7
  <2>3. \A f \in tokens[k].grants \ {e} : f \in DOMAIN endpoints /\ endpoints'[f].live = endpoints[f].live
    BY <1>6, <2>1
  <2> QED BY <1>5, <1>6, <2>1, <2>2, <2>3
<1> QED BY <1>10, <1>11, <1>12, <1>13, <1>15, <1>16, <1>17 DEF Kept, TablesHold

\* The admin API and the commands write endpoints.
LEMMA WriteEndpointHolds ==
  ASSUME Inv, WriteEndpoint
  PROVE  StepHolds
<1>1. UNCHANGED <<now, task, sweep>> /\ calls' \in Nat
  BY DEF WriteEndpoint, Arrives, Inv, TypeOK
<1>2. TablesOK' /\ TablesHold' /\ Kept /\ Proven
  BY <1>1, EndpointCreated, EndpointDeleted DEF WriteEndpoint
<1>3. Inv'
  BY <1>1, <1>2, Stays
<1> QED BY <1>2, <1>3 DEF StepHolds

\* The control plane writes endpoints.
LEMMA AuthorHolds ==
  ASSUME Inv, NEW t \in Tasks, Author(t)
  PROVE  StepHolds
<1>1. UNCHANGED <<now, calls, sweep>> /\ task' = [task EXCEPT ![t] = Idle]
  BY DEF Author, At, Finish
<1>2. calls' \in Nat
  BY <1>1 DEF Inv, TypeOK
<1>3. TablesOK' /\ TablesHold' /\ Kept /\ Proven
  BY <1>1, <1>2, EndpointCreated, EndpointDeleted DEF Author
<1>4. Idle \in Task /\ Knows(Idle, users', endpoints', tokens')
  BY IdleTask
<1>5. Inv'
  BY <1>1, <1>3, <1>4, Moves
<1> QED BY <1>3, <1>5 DEF StepHolds

----------------------------------------------------------------------------
(* Statements that write runs, and the sweep.                              *)

\* Runs and the sweep change, or time passes.
LEMMA RunsChange ==
  ASSUME Inv, runs' \in Seq(Run), RunsHold', sweep' \in Sweep, SweepHolds',
         now' \in Nat, calls' \in Nat, UNCHANGED <<users, sessions, endpoints, tokens>>
  PROVE  TablesOK' /\ TablesHold' /\ Kept /\ Proven
<1>1. TablesOK'
  BY DEF Inv, TypeOK, TablesOK
<1>2. Len(endpoints) \in Nat /\ DOMAIN endpoints = 1..Len(endpoints)
  BY LenProperties DEF Inv, TypeOK
<1>3. Kept /\ Proven
  BY <1>2 DEF Kept, UsersKept, EndpointsKept, TokensKept, Proven
<1>4. SessionsHold' /\ EndpointsHold' /\ TokensHold'
  BY DEF Inv, TablesHold, SessionsHold, EndpointsHold, TokensHold, LiveUser
<1> QED BY <1>1, <1>3, <1>4 DEF TablesHold

\* A run is recorded now, so at or after the cutoff of a sweep under way.
LEMMA RecordRunHolds ==
  ASSUME Inv, NEW t \in Tasks, RecordRun(t)
  PROVE  StepHolds
<1>1. task[t] \in Task /\ Knows(task[t], users, endpoints, tokens)
  BY OwnTask
<1>2. /\ task[t].pc = "run"
      /\ UNCHANGED <<now, calls, sweep, users, sessions, endpoints, tokens>>
  BY DEF RecordRun, At
<1>3. calls' \in Nat /\ now' \in Nat
  BY <1>2 DEF Inv, TypeOK
<1>4. CASE Finish(t) /\ UNCHANGED runs
  BY <1>2, <1>4, Finishes DEF tables
<1> DEFINE row == [owner |-> task[t].user, slug |-> task[t].slug, created |-> now, live |-> TRUE]
           shown == [Idle EXCEPT !.pc = "history", !.user = task[t].user, !.row = Len(runs) + 1]
<1>5. CASE /\ LiveUser(task[t].user)
           /\ runs' = Append(runs, row)
           /\ Finish(t) \/ Shows(t, Len(runs) + 1)
  <2>1. task[t].user \in Nat \ {0}
    BY <1>5, LenProperties DEF LiveUser, Inv, TypeOK
  <2>2. task[t].slug \in Slugs
    BY <1>1, <1>2 DEF Knows
  <2>3. row \in Run /\ row.owner = task[t].user /\ row.created = now
    BY <1>2, <1>3, <2>1, <2>2 DEF Run
  <2> HIDE DEF row
  <2>4. /\ runs' \in Seq(Run) /\ Len(runs) \in Nat
        /\ DOMAIN runs' = DOMAIN runs \cup {Len(runs) + 1}
        /\ runs'[Len(runs) + 1] = row
        /\ \A r \in DOMAIN runs : runs'[r] = runs[r]
    BY <1>5, <2>3, Appended DEF Inv, TypeOK
  <2>5. RunsHold'
    <3>1. \A v : LiveUser(v) <=> LiveUser(v)'
      BY <1>2 DEF LiveUser
    <3>2. LiveUser(task[t].user)
      BY <1>5
    <3> QED BY <2>3, <2>4, <3>1, <3>2 DEF Inv, TablesHold, RunsHold
  <2>6. SweepHolds'
    <3>1. now \in Nat /\ sweep.cutoff \in Int
      BY DEF Inv, TypeOK, Sweep
    <3>2. SweepHolds
      BY DEF Inv, TablesHold
    <3> QED BY <1>2, <2>3, <2>4, <3>1, <3>2 DEF SweepHolds
  <2>7. sweep' \in Sweep
    BY <1>2 DEF Inv, TypeOK
  <2>8. TablesOK' /\ TablesHold' /\ Kept /\ Proven
    BY <1>2, <1>3, <2>4, <2>5, <2>6, <2>7, RunsChange
  <2>9. CASE Finish(t)
    <3>1. task' = [task EXCEPT ![t] = Idle]
      BY <2>9 DEF Finish
    <3>2. Idle \in Task /\ Knows(Idle, users', endpoints', tokens')
      BY IdleTask
    <3>3. Inv'
      BY <2>8, <3>1, <3>2, Moves
    <3> QED BY <2>8, <3>3 DEF StepHolds
  <2>10. CASE Shows(t, Len(runs) + 1)
    <3>1. task' = [task EXCEPT ![t] = shown]
      BY <2>10 DEF Shows
    <3>0. Len(runs) + 1 \in Nat
      BY <2>4
    <3>2. shown \in Task
      BY <2>1, <3>0 DEF Idle, Task, NoExpiry, RequestPcs
    <3>3. Knows(shown, users', endpoints', tokens')
      BY DEF Idle, Knows, SignInPcs, OnToken
    <3> HIDE DEF shown
    <3>4. Inv'
      BY <2>8, <3>1, <3>2, <3>3, Moves
    <3> QED BY <2>8, <3>4 DEF StepHolds
  <2> QED BY <1>5, <2>9, <2>10
<1> QED BY <1>4, <1>5 DEF RecordRun

\* The cutoff of a sweep lies in the past.
LEMMA SweepStartsHolds ==
  ASSUME Inv, SweepStarts
  PROVE  StepHolds
<1>1. UNCHANGED <<now, calls, task, users, sessions, endpoints, tokens, runs>>
  BY DEF SweepStarts, tables
<1>2. now \in Nat /\ now' \in Nat /\ calls' \in Nat /\ RetentionDays \in Nat
  BY <1>1, IdentityAssumption DEF Inv, TypeOK
<1>3. sweep' \in Sweep
  <2>1. Resting \in Sweep /\ Purged \in Sweep /\ now - RetentionDays \in Int
    BY <1>2 DEF Resting, Purged, Sweep
  <2>2. CASE RetentionDays = 0
    BY <2>1, <2>2 DEF SweepStarts, Sweep
  <2>3. CASE RetentionDays # 0
    <3>1. sweep' = [Resting EXCEPT !.pc = "runs", !.cutoff = now - RetentionDays]
      BY <2>3 DEF SweepStarts
    <3> QED BY <2>1, <3>1 DEF Sweep
  <2> QED BY <2>2, <2>3
<1>4. SweepHolds'
  <2>1. CASE RetentionDays = 0
    <3>1. sweep' = Purged
      BY <2>1 DEF SweepStarts
    <3> QED BY <1>1, <1>2, <3>1 DEF SweepHolds, Purged, Resting
  <2>2. CASE RetentionDays # 0
    <3>1. sweep' = [Resting EXCEPT !.pc = "runs", !.cutoff = now - RetentionDays]
      BY <2>2 DEF SweepStarts
    <3> QED BY <1>1, <1>2, <3>1 DEF SweepHolds, Resting
  <2> QED BY <2>1, <2>2
<1>5. runs' \in Seq(Run) /\ RunsHold'
  BY <1>1 DEF Inv, TypeOK, TablesHold, RunsHold, LiveUser
<1>6. TablesOK' /\ TablesHold' /\ Kept /\ Proven
  BY <1>1, <1>2, <1>3, <1>4, <1>5, RunsChange
<1>7. Inv'
  BY <1>1, <1>6, Stays
<1> QED BY <1>6, <1>7 DEF StepHolds

\* What the subselect picks is a full batch or all there is.
LEMMA SweepPicksHolds ==
  ASSUME Inv, SweepPicks
  PROVE  StepHolds
<1>1. UNCHANGED <<now, calls, task, users, sessions, endpoints, tokens, runs>> /\ sweep.pc = "runs"
  BY DEF SweepPicks, tables
<1>2. PICK batch \in SUBSET Expired(sweep.cutoff) :
        /\ \/ Cardinality(batch) = BatchSize
           \/ Cardinality(batch) < BatchSize /\ batch = Expired(sweep.cutoff)
        /\ sweep' = [sweep EXCEPT !.pc = "delete", !.chosen = batch]
  BY DEF SweepPicks
<1>3. /\ runs \in Seq(Run) /\ sweep \in Sweep /\ now' \in Nat /\ calls' \in Nat
  BY <1>1 DEF Inv, TypeOK
<1>4. batch \in SUBSET Nat
  <2>1. DOMAIN runs \subseteq Nat
    BY <1>3, LenProperties
  <2> QED BY <1>2, <2>1 DEF Expired
<1>5. /\ sweep' \in Sweep /\ sweep'.pc = "delete" /\ sweep'.cutoff = sweep.cutoff
      /\ sweep'.chosen = batch
  BY <1>2, <1>3, <1>4 DEF Sweep
<1>6. \A r \in DOMAIN runs : runs[r].live => runs[r].created >= sweep.cutoff \/ r \in Expired(sweep.cutoff)
  <2> SUFFICES ASSUME NEW r \in DOMAIN runs, runs[r].live, r \notin Expired(sweep.cutoff)
               PROVE  runs[r].created >= sweep.cutoff
    OBVIOUS
  <2>1. ~(runs[r].created < sweep.cutoff)
    BY DEF Expired
  <2>2. runs[r] \in Run
    BY <1>3, RowType
  <2> QED BY <1>3, <2>1, <2>2 DEF Run, Sweep
<1>7. SweepHolds'
  <2>1. sweep.cutoff <= now
    BY DEF Inv, TablesHold, SweepHolds
  <2> QED BY <1>1, <1>2, <1>5, <1>6, <2>1 DEF SweepHolds
<1>8. runs' \in Seq(Run) /\ RunsHold'
  BY <1>1 DEF Inv, TypeOK, TablesHold, RunsHold, LiveUser
<1>9. TablesOK' /\ TablesHold' /\ Kept /\ Proven
  BY <1>1, <1>3, <1>5, <1>7, <1>8, RunsChange
<1>10. Inv'
  BY <1>1, <1>9, Stays
<1> QED BY <1>9, <1>10 DEF StepHolds

\* What a statement deletes goes, and the next one picks anew.
LEMMA SweepBatchHolds ==
  ASSUME Inv, SweepBatch
  PROVE  StepHolds
<1> DEFINE n == Cardinality({r \in sweep.chosen : runs[r].live})
<1>1. /\ UNCHANGED <<now, calls, task, users, sessions, endpoints, tokens>>
      /\ sweep.pc = "delete"
  BY DEF SweepBatch
<1>2. /\ runs' = [r \in DOMAIN runs |->
                    IF r \in sweep.chosen THEN [runs[r] EXCEPT !.live = FALSE] ELSE runs[r]]
      /\ sweep' = IF LastBatch(n)
                  THEN Purged
                  ELSE [sweep EXCEPT !.pc = "runs", !.chosen = {}]
  BY DEF SweepBatch
<1> HIDE DEF n
<1>3. /\ runs \in Seq(Run) /\ sweep \in Sweep /\ now' \in Nat /\ calls' \in Nat
  BY <1>1 DEF Inv, TypeOK
<1>4. ASSUME NEW r \in DOMAIN runs
      PROVE  /\ runs'[r] \in Run
             /\ runs'[r].owner = runs[r].owner
             /\ runs'[r].created = runs[r].created
             /\ runs'[r].live => runs[r].live /\ r \notin sweep.chosen
  <2>1. runs[r] \in Run
    BY <1>3, RowType
  <2>2. CASE r \in sweep.chosen
    <3>1. runs'[r] = [runs[r] EXCEPT !.live = FALSE]
      BY <1>2, <2>2
    <3> QED BY <2>1, <3>1 DEF Run
  <2>3. CASE r \notin sweep.chosen
    <3>1. runs'[r] = runs[r]
      BY <1>2, <2>3
    <3> QED BY <2>1, <2>3, <3>1
  <2> QED BY <2>2, <2>3
<1>5. runs' \in [DOMAIN runs -> Run]
  BY <1>2, <1>4
<1>6. runs' \in Seq(Run) /\ DOMAIN runs' = DOMAIN runs
  BY <1>3, <1>5, Mapped
<1>7. RunsHold'
  BY <1>1, <1>4, <1>6 DEF Inv, TablesHold, RunsHold, LiveUser
<1>8. /\ sweep' \in Sweep /\ sweep'.pc # "delete"
      /\ sweep'.cutoff = 0 \/ sweep'.cutoff = sweep.cutoff
  <2>1. CASE LastBatch(n)
    BY <1>2, <2>1 DEF Sweep, Purged, Resting
  <2>2. CASE ~LastBatch(n)
    <3>1. sweep' = [sweep EXCEPT !.pc = "runs", !.chosen = {}]
      BY <1>2, <2>2
    <3> QED BY <1>3, <3>1 DEF Sweep
  <2> QED BY <2>1, <2>2
<1>9. SweepHolds'
  <2>1. sweep.cutoff <= now /\ now \in Nat
    BY <1>1, <1>3 DEF Inv, TablesHold, SweepHolds
  <2> QED BY <1>1, <1>8, <2>1 DEF SweepHolds
<1>10. TablesOK' /\ TablesHold' /\ Kept /\ Proven
  BY <1>1, <1>3, <1>6, <1>7, <1>8, <1>9, RunsChange
<1>11. Inv'
  BY <1>1, <1>10, Stays
<1> QED BY <1>10, <1>11 DEF StepHolds

\* A statement that failed leaves the runs as they were.
LEMMA SweepBatchFailsHolds ==
  ASSUME Inv, SweepBatchFails
  PROVE  StepHolds
<1>1. /\ UNCHANGED <<now, calls, task, users, sessions, endpoints, tokens, runs>>
      /\ sweep.pc = "delete"
      /\ sweep' = Purged
  BY DEF SweepBatchFails, tables
<1>2. now' \in Nat /\ calls' \in Nat
  BY <1>1 DEF Inv, TypeOK
<1>3. sweep' \in Sweep /\ sweep'.pc = "sessions" /\ sweep'.cutoff = 0
  BY <1>1 DEF Sweep, Purged, Resting
<1>4. SweepHolds'
  BY <1>2, <1>3 DEF SweepHolds
<1>5. runs' \in Seq(Run) /\ RunsHold'
  BY <1>1 DEF Inv, TypeOK, TablesHold, RunsHold, LiveUser
<1>6. TablesOK' /\ TablesHold' /\ Kept /\ Proven
  BY <1>1, <1>2, <1>3, <1>4, <1>5, RunsChange
<1>7. Inv'
  BY <1>1, <1>6, Stays
<1> QED BY <1>6, <1>7 DEF StepHolds

\* Time passes the cutoff further.
LEMMA TickHolds ==
  ASSUME Inv, Tick
  PROVE  StepHolds
<1>1. UNCHANGED <<calls, task, sweep, users, sessions, endpoints, tokens, runs>> /\ now' = now + 1
  BY DEF Tick, tables
<1>2. now \in Nat /\ sweep \in Sweep /\ calls' \in Nat
  BY <1>1 DEF Inv, TypeOK
<1>3. SweepHolds'
  <2>1. SweepHolds /\ sweep.cutoff \in Int
    BY <1>2 DEF Inv, TablesHold, Sweep
  <2> QED BY <1>1, <1>2, <2>1 DEF SweepHolds
<1>4. runs' \in Seq(Run) /\ RunsHold'
  BY <1>1 DEF Inv, TypeOK, TablesHold, RunsHold, LiveUser
<1>5. now' \in Nat /\ sweep' \in Sweep
  BY <1>1, <1>2
<1>6. TablesOK' /\ TablesHold' /\ Kept /\ Proven
  BY <1>1, <1>2, <1>3, <1>4, <1>5, RunsChange
<1>7. Inv'
  BY <1>1, <1>6, Stays
<1> QED BY <1>6, <1>7 DEF StepHolds

----------------------------------------------------------------------------
(* A user deleted, with all that is the user's.                            *)

\* What the foreign keys take with a user, and what they leave.
LEMMA CascadeHolds ==
  ASSUME Inv, NEW u \in DOMAIN users, Cascade(u), UNCHANGED <<now, sweep>>, calls' \in Nat
  PROVE  TablesOK' /\ TablesHold' /\ Kept /\ Proven
<1>1. /\ users \in Seq(User) /\ sessions \in Seq(Session) /\ endpoints \in Seq(Endpoint)
      /\ tokens \in Seq(Token) /\ runs \in Seq(Run)
  BY DEF Inv, TypeOK
<1>2. /\ users' \in Seq(User) /\ DOMAIN users' = DOMAIN users
      /\ \A v \in DOMAIN users : /\ users'[v].subject = users[v].subject
                                 /\ users'[v].email = users[v].email
                                 /\ v # u => users'[v].live = users[v].live
  <2>1. users' = [users EXCEPT ![u] = [users[u] EXCEPT !.live = FALSE]]
    BY DEF Cascade
  <2>2. users \in [DOMAIN users -> User]
    BY <1>1, LenProperties
  <2>3. [users[u] EXCEPT !.live = FALSE] \in User
    BY <2>2 DEF User
  <2>4. users' \in [DOMAIN users -> User]
    BY <2>1, <2>2, <2>3
  <2>5. \A v \in DOMAIN users : /\ users'[v].subject = users[v].subject
                                /\ users'[v].email = users[v].email
                                /\ v # u => users'[v].live = users[v].live
    BY <2>1, <2>2 DEF User
  <2> QED BY <1>1, <2>4, <2>5, Mapped
<1>3. /\ sessions' \in Seq(Session) /\ DOMAIN sessions' = DOMAIN sessions
      /\ \A s \in DOMAIN sessions : /\ sessions'[s].user = sessions[s].user
                                    /\ sessions'[s].by = sessions[s].by
                                    /\ sessions'[s].live => sessions[s].live /\ sessions[s].user # u
  <2>1. ASSUME NEW s \in DOMAIN sessions
        PROVE  /\ sessions'[s] \in Session
               /\ sessions'[s].user = sessions[s].user
               /\ sessions'[s].by = sessions[s].by
               /\ sessions'[s].live => sessions[s].live /\ sessions[s].user # u
    <3>1. sessions[s] \in Session
      BY <1>1, RowType
    <3>2. CASE sessions[s].user = u
      <4>1. sessions'[s] = [sessions[s] EXCEPT !.live = FALSE]
        BY <3>2 DEF Cascade
      <4> QED BY <3>1, <4>1 DEF Session
    <3>3. CASE sessions[s].user # u
      <4>1. sessions'[s] = sessions[s]
        BY <3>3 DEF Cascade
      <4> QED BY <3>1, <3>3, <4>1
    <3> QED BY <3>2, <3>3
  <2>2. sessions' \in [DOMAIN sessions -> Session]
    BY <2>1 DEF Cascade
  <2> QED BY <1>1, <2>1, <2>2, Mapped
<1>4. /\ endpoints' \in Seq(Endpoint) /\ DOMAIN endpoints' = DOMAIN endpoints
      /\ Len(endpoints') = Len(endpoints) /\ Len(endpoints) \in Nat
      /\ \A e \in DOMAIN endpoints :
           /\ endpoints'[e].owner = endpoints[e].owner
           /\ endpoints'[e].slug = endpoints[e].slug
           /\ endpoints'[e].live <=> endpoints[e].live /\ endpoints[e].owner # u
  <2>1. ASSUME NEW e \in DOMAIN endpoints
        PROVE  /\ endpoints'[e] \in Endpoint
               /\ endpoints'[e].owner = endpoints[e].owner
               /\ endpoints'[e].slug = endpoints[e].slug
               /\ endpoints'[e].live <=> endpoints[e].live /\ endpoints[e].owner # u
    <3>1. endpoints[e] \in Endpoint
      BY <1>1, RowType
    <3>2. CASE endpoints[e].owner = u
      <4>1. endpoints'[e] = [endpoints[e] EXCEPT !.live = FALSE]
        BY <3>2 DEF Cascade
      <4> QED BY <3>1, <3>2, <4>1 DEF Endpoint
    <3>3. CASE endpoints[e].owner # u
      <4>1. endpoints'[e] = endpoints[e]
        BY <3>3 DEF Cascade
      <4> QED BY <3>1, <3>3, <4>1
    <3> QED BY <3>2, <3>3
  <2>2. endpoints' \in [DOMAIN endpoints -> Endpoint]
    BY <2>1 DEF Cascade
  <2> QED BY <1>1, <2>1, <2>2, Mapped
<1>5. /\ tokens' \in Seq(Token) /\ DOMAIN tokens' = DOMAIN tokens
      /\ \A k \in DOMAIN tokens :
           /\ tokens'[k].owner = tokens[k].owner /\ tokens'[k].restricted = tokens[k].restricted
           /\ tokens'[k].control = tokens[k].control /\ tokens'[k].until = tokens[k].until
           /\ tokens'[k].asked = tokens[k].asked /\ tokens'[k].revoked = tokens[k].revoked
           /\ tokens'[k].grants \subseteq tokens[k].grants
           /\ tokens'[k].live => tokens[k].live /\ tokens[k].owner # u
  <2>1. ASSUME NEW k \in DOMAIN tokens
        PROVE  /\ tokens'[k] \in Token
               /\ tokens'[k].owner = tokens[k].owner /\ tokens'[k].restricted = tokens[k].restricted
               /\ tokens'[k].control = tokens[k].control /\ tokens'[k].until = tokens[k].until
               /\ tokens'[k].asked = tokens[k].asked /\ tokens'[k].revoked = tokens[k].revoked
               /\ tokens'[k].grants \subseteq tokens[k].grants
               /\ tokens'[k].live => tokens[k].live /\ tokens[k].owner # u
    <3>1. tokens[k] \in Token
      BY <1>1, RowType
    <3>2. CASE tokens[k].owner = u
      <4> DEFINE row == [tokens[k] EXCEPT !.live = FALSE]
      <4>1. tokens'[k] = [row EXCEPT !.grants = {}]
        BY <3>2 DEF Cascade
      <4>2. /\ row \in Token /\ row.live = FALSE
            /\ row.owner = tokens[k].owner /\ row.restricted = tokens[k].restricted
            /\ row.control = tokens[k].control /\ row.until = tokens[k].until
            /\ row.asked = tokens[k].asked /\ row.revoked = tokens[k].revoked
        BY <3>1 DEF Token
      <4> HIDE DEF row
      <4> QED BY <4>1, <4>2 DEF Token
    <3>3. CASE tokens[k].owner # u
      <4>1. tokens'[k] = tokens[k]
        BY <3>3 DEF Cascade
      <4> QED BY <3>1, <3>3, <4>1
    <3> QED BY <3>2, <3>3
  <2>2. tokens' \in [DOMAIN tokens -> Token]
    BY <2>1 DEF Cascade
  <2> QED BY <1>1, <2>1, <2>2, Mapped
<1>6. /\ runs' \in Seq(Run) /\ DOMAIN runs' = DOMAIN runs
      /\ \A r \in DOMAIN runs : /\ runs'[r].owner = runs[r].owner
                                /\ runs'[r].created = runs[r].created
                                /\ runs'[r].live => runs[r].live /\ runs[r].owner # u
  <2>1. ASSUME NEW r \in DOMAIN runs
        PROVE  /\ runs'[r] \in Run
               /\ runs'[r].owner = runs[r].owner
               /\ runs'[r].created = runs[r].created
               /\ runs'[r].live => runs[r].live /\ runs[r].owner # u
    <3>1. runs[r] \in Run
      BY <1>1, RowType
    <3>2. CASE runs[r].owner = u
      <4>1. runs'[r] = [runs[r] EXCEPT !.live = FALSE]
        BY <3>2 DEF Cascade
      <4> QED BY <3>1, <4>1 DEF Run
    <3>3. CASE runs[r].owner # u
      <4>1. runs'[r] = runs[r]
        BY <3>3 DEF Cascade
      <4> QED BY <3>1, <3>3, <4>1
    <3> QED BY <3>2, <3>3
  <2>2. runs' \in [DOMAIN runs -> Run]
    BY <2>1 DEF Cascade
  <2> QED BY <1>1, <2>1, <2>2, Mapped
<1>7. TablesOK'
  BY <1>2, <1>3, <1>4, <1>5, <1>6 DEF Inv, TypeOK, TablesOK
<1>8. UsersKept /\ Proven
  BY <1>2 DEF UsersKept, Proven
<1>9. EndpointsKept
  BY <1>4 DEF EndpointsKept
<1>10. TokensKept
  BY <1>5 DEF TokensKept
<1>11. \A v : LiveUser(v) /\ v # u => v \in DOMAIN users' /\ users'[v].live
  BY <1>2 DEF LiveUser
<1>12. SessionsHold'
  BY <1>2, <1>3 DEF Inv, TablesHold, SessionsHold
<1>13. EndpointsHold'
  <2>1. \A e \in DOMAIN endpoints' :
          endpoints'[e].live => endpoints'[e].owner \in DOMAIN users' /\ users'[endpoints'[e].owner].live
    BY <1>4, <1>11 DEF Inv, TablesHold, EndpointsHold
  <2>2. \A e, f \in DOMAIN endpoints' :
          /\ endpoints'[e].live /\ endpoints'[f].live
          /\ endpoints'[e].owner = endpoints'[f].owner /\ endpoints'[e].slug = endpoints'[f].slug
          => e = f
    BY <1>4 DEF Inv, TablesHold, EndpointsHold
  <2> QED BY <2>1, <2>2 DEF EndpointsHold, LiveUser
<1>14. TokensHold'
  <2>1. ASSUME NEW k \in DOMAIN tokens
        PROVE  /\ \A e \in tokens'[k].asked :
                    e \in DOMAIN endpoints' /\ endpoints'[e].owner = tokens'[k].owner
               /\ tokens'[k].grants \subseteq tokens'[k].asked
               /\ tokens'[k].live =>
                    /\ tokens'[k].owner \in DOMAIN users' /\ users'[tokens'[k].owner].live
                    /\ \A e \in tokens'[k].grants : endpoints'[e].live
    <3>1. /\ \A e \in tokens[k].asked : e \in DOMAIN endpoints /\ endpoints[e].owner = tokens[k].owner
          /\ tokens[k].grants \subseteq tokens[k].asked
          /\ tokens[k].live => LiveUser(tokens[k].owner) /\ \A e \in tokens[k].grants : endpoints[e].live
      BY DEF Inv, TablesHold, TokensHold
    <3> QED BY <1>4, <1>5, <1>11, <3>1
  <2> QED BY <1>5, <2>1 DEF TokensHold, LiveUser
<1>15. RunsHold'
  <2>1. \A r \in DOMAIN runs' :
          runs'[r].live => runs'[r].owner \in DOMAIN users' /\ users'[runs'[r].owner].live
    BY <1>6, <1>11 DEF Inv, TablesHold, RunsHold
  <2> QED BY <2>1 DEF RunsHold, LiveUser
<1>16. SweepHolds'
  BY <1>6 DEF Inv, TablesHold, SweepHolds
<1> QED BY <1>7, <1>8, <1>9, <1>10, <1>12, <1>13, <1>14, <1>15, <1>16 DEF Kept, TablesHold

\* UserStore::delete, of a user who is still there.
LEMMA RemoveUserHolds ==
  ASSUME Inv, NEW t \in Tasks, RemoveUser(t)
  PROVE  StepHolds
<1>1. UNCHANGED <<now, calls, sweep>> /\ Finish(t)
  BY DEF RemoveUser, At
<1>2. CASE UNCHANGED tables
  BY <1>1, <1>2, Finishes
<1>3. CASE LiveUser(task[t].user) /\ Cascade(task[t].user)
  <2>1. task[t].user \in DOMAIN users /\ calls' \in Nat
    BY <1>1, <1>3 DEF LiveUser, Inv, TypeOK
  <2>2. TablesOK' /\ TablesHold' /\ Kept /\ Proven
    BY <1>1, <1>3, <2>1, CascadeHolds
  <2>3. task' = [task EXCEPT ![t] = Idle]
    BY <1>1 DEF Finish
  <2>4. Idle \in Task /\ Knows(Idle, users', endpoints', tokens')
    BY IdleTask
  <2>5. Inv'
    BY <2>2, <2>3, <2>4, Moves
  <2> QED BY <2>2, <2>5 DEF StepHolds
<1> QED BY <1>2, <1>3 DEF RemoveUser

----------------------------------------------------------------------------
(* The invariant, and the theorems.                                        *)

\* The first user, with or without endpoints and a token, or two users and runs.
LEMMA InitHolds ==
  ASSUME Init
  PROVE  Inv
<1>1. /\ users \in Seq(User) /\ 1 \in DOMAIN users
      /\ \A u \in DOMAIN users : users[u].live
  <2>1. \A e \in Emails : Account(e) \in User /\ Account(e).live
    BY DEF Account, User
  <2>2. CASE users = <<Account(SeedEmail)>>
    BY <2>1, <2>2, IdentityAssumption
  <2>3. ASSUME NEW e \in Emails, users = <<Account(SeedEmail), Account(e)>>
        PROVE  /\ users \in Seq(User) /\ 1 \in DOMAIN users
               /\ \A u \in DOMAIN users : users[u].live
    BY <2>1, <2>3, IdentityAssumption
  <2> QED BY <2>2, <2>3 DEF Init
<1>2. runs \in Seq(Run) /\ RunsHold
  <2>1. CASE runs = <<>>
    BY <2>1 DEF RunsHold
  <2>2. ASSUME NEW e \in Emails, NEW s \in Slugs, users = <<Account(SeedEmail), Account(e)>>,
               runs = [u \in 1..2 |-> [owner |-> u, slug |-> s, created |-> 0, live |-> TRUE]]
        PROVE  runs \in Seq(Run) /\ RunsHold
    <3>1. \A u \in 1..2 : runs[u] \in Run /\ runs[u].owner = u
      BY <2>2 DEF Run
    <3>2. runs \in [1..2 -> Run] /\ DOMAIN runs = 1..2
      BY <2>2, <3>1
    <3>3. DOMAIN users = 1..2
      BY <2>2
    <3>4. runs \in Seq(Run)
      BY <3>2, SeqDef
    <3> QED BY <1>1, <3>1, <3>2, <3>3, <3>4 DEF RunsHold, LiveUser
  <2> QED BY <2>1, <2>2 DEF Init
<1>3. sessions = <<>> /\ sweep \in Sweep /\ now = 0 /\ calls \in Nat
  BY <1>2, LenProperties DEF Init, Sweep, Resting
<1>4. task = [t \in Tasks |-> Idle] /\ Idle \in Task
  BY IdleTask DEF Init
<1>5. TasksKnow
  BY <1>4, IdleTask DEF TasksKnow
<1>6. StartSlugs \in Seq(Slugs) /\ DOMAIN StartSlugs = 1..Len(StartSlugs) /\ Len(StartSlugs) \in Nat
  BY IdentityAssumption, LenProperties
<1>7. /\ endpoints \in Seq(Endpoint)
      /\ \A e \in DOMAIN endpoints : endpoints[e].owner = 1 /\ endpoints[e].live
      /\ \A e, f \in DOMAIN endpoints : endpoints[e].slug = endpoints[f].slug => e = f
  <2>1. CASE endpoints = <<>>
    BY <2>1
  <2>2. CASE endpoints = [e \in DOMAIN StartSlugs |-> [owner |-> 1, slug |-> StartSlugs[e], live |-> TRUE]]
    <3>1. \A e \in DOMAIN StartSlugs : StartSlugs[e] \in Slugs
      BY <1>6, RowType
    <3>2. endpoints \in [DOMAIN StartSlugs -> Endpoint]
      BY <2>2, <3>1 DEF Endpoint
    <3>3. endpoints \in Seq(Endpoint) /\ DOMAIN endpoints = DOMAIN StartSlugs
      BY <1>6, <3>2, Mapped
    <3>4. \A e \in DOMAIN endpoints : /\ endpoints[e].owner = 1 /\ endpoints[e].live
                                      /\ endpoints[e].slug = StartSlugs[e]
      BY <2>2, <3>3
    <3> QED BY <3>3, <3>4, IdentityAssumption
  <2> QED BY <2>1, <2>2 DEF Init
<1>8. tokens \in Seq(Token) /\ TokensHold
  <2>1. CASE tokens = <<>>
    BY <2>1 DEF TokensHold
  <2>2. ASSUME NEW c \in MintChoices,
               endpoints = [e \in DOMAIN StartSlugs |-> [owner |-> 1, slug |-> StartSlugs[e], live |-> TRUE]],
               tokens = <<Minted(1, c, {e \in DOMAIN StartSlugs : StartSlugs[e] \in c.slugs}, 0)>>
        PROVE  tokens \in Seq(Token) /\ TokensHold
    <3> DEFINE ids == {e \in DOMAIN StartSlugs : StartSlugs[e] \in c.slugs}
               row == Minted(1, c, ids, 0)
    <3>1. ids \in SUBSET Nat /\ ids \subseteq DOMAIN endpoints
      BY <1>6, <2>2
    <3>2. c.control \in BOOLEAN /\ c.days \in Nat \cup {NoExpiry} /\ (c.slugs # {}) \in BOOLEAN
      BY IdentityAssumption
    <3>3. (IF c.days = NoExpiry THEN NoExpiry ELSE 0 + c.days) \in Nat \cup {NoExpiry}
      BY <3>2
    <3> HIDE DEF ids
    <3>4. row \in Token /\ row.owner = 1 /\ row.grants = ids /\ row.asked = ids
      BY <3>1, <3>2, <3>3 DEF Minted, Token
    <3>5. tokens = <<row>>
      BY <2>2 DEF ids
    <3> HIDE DEF row
    <3>6. tokens \in Seq(Token) /\ DOMAIN tokens = {1} /\ tokens[1] = row
      BY <3>4, <3>5
    <3> QED BY <1>1, <1>7, <3>1, <3>4, <3>6 DEF TokensHold, LiveUser
  <2> QED BY <2>1, <2>2 DEF Init
<1>9. TypeOK
  BY <1>1, <1>2, <1>3, <1>4, <1>7, <1>8 DEF TypeOK
<1>10. SessionsHold /\ SweepHolds
  BY <1>3 DEF SessionsHold, SweepHolds, Init, Resting
<1>11. EndpointsHold
  BY <1>1, <1>7 DEF EndpointsHold, LiveUser
<1> QED BY <1>2, <1>5, <1>8, <1>9, <1>10, <1>11 DEF Inv, TablesHold

\* Every statement of a sign-in or of a user command, and every call of them.
LEMMA AccountStepsHold ==
  ASSUME Inv, NEW t \in Tasks, AccountSteps(t)
  PROVE  StepHolds
<1>1. ASSUME NEW id \in People, SignIn(t, id) PROVE StepHolds
  BY <1>1, SignInHolds
<1>2. ASSUME NEW u \in DOMAIN users, FindLinked(t, u) \/ Login(t, u) PROVE StepHolds
  BY <1>2, FindLinkedHolds, LoginHolds
<1>3. ASSUME NEW u \in DOMAIN users, NEW force \in BOOLEAN, DeleteUser(t, u, force) PROVE StepHolds
  BY <1>3, CommandsHold
<1>4. ASSUME NEW e \in Emails, NEW password \in BOOLEAN, AddUser(t, e, password) PROVE StepHolds
  BY <1>4, CommandsHold
<1>5. ASSUME NotLinked(t) \/ CheckTaken(t) \/ CountUsers(t) PROVE StepHolds
  BY <1>5, SignInReadsHold
<1>6. ASSUME FindCandidate(t) \/ Reload(t) PROVE StepHolds
  BY <1>6, FindCandidateHolds, ReloadHolds
<1>7. ASSUME RefreshEmail(t) \/ Claim(t) \/ InsertLinked(t) PROVE StepHolds
  BY <1>7, RefreshEmailHolds, ClaimHolds, InsertLinkedHolds
<1>8. ASSUME OpenSession(t) \/ InsertUser(t) \/ RemoveUser(t) PROVE StepHolds
  BY <1>8, OpenSessionHolds, InsertUserHolds, RemoveUserHolds
<1> QED BY <1>1, <1>2, <1>3, <1>4, <1>5, <1>6, <1>7, <1>8 DEF AccountSteps

\* Every statement about a token or of a request, and every call of them.
LEMMA GrantStepsHold ==
  ASSUME Inv, NEW t \in Tasks, GrantSteps(t)
  PROVE  StepHolds
<1>1. ASSUME NEW s \in DOMAIN sessions, NEW c \in MintChoices, ApiMint(t, s, c) PROVE StepHolds
  BY <1>1, SessionCallsHold
<1>2. ASSUME NEW s \in DOMAIN sessions, NEW k \in DOMAIN tokens, ApiRevoke(t, s, k) PROVE StepHolds
  BY <1>2, SessionCallsHold
<1>3. ASSUME NEW u \in DOMAIN users, NEW c \in MintChoices, CliMint(t, u, c) PROVE StepHolds
  BY <1>3, CommandsHold
<1>4. ASSUME NEW k \in DOMAIN tokens, CliRevoke(t, k) PROVE StepHolds
  BY <1>4, CommandsHold
<1>5. ASSUME NEW k \in DOMAIN tokens, NEW s \in Slugs \cup {None}, PresentToken(t, k, s) PROVE StepHolds
  BY <1>5, RequestsHold
<1>6. ASSUME NEW u \in DOMAIN users, NEW s \in Slugs \cup {None}, PresentOauth(t, u, s) PROVE StepHolds
  BY <1>6, RequestsHold
<1>7. ASSUME FindCaller(t) \/ ResolveGrants(t) \/ LoadGrants(t) \/ LoadSlugs(t) PROVE StepHolds
  BY <1>7, FindCallerHolds, ResolveGrantsHolds, LoadGrantsHolds, LoadSlugsHolds
<1>8. ASSUME FindToken(t) \/ FindGranter(t) \/ FindRun(t) PROVE StepHolds
  BY <1>8, FindsHold
<1>9. ASSUME Mint(t) \/ Revoke(t) \/ Touch(t) PROVE StepHolds
  BY <1>9, MintHolds, RevokeHolds, TouchHolds
<1>10. ASSUME NEW e \in DOMAIN endpoints, ResolvePlan(t, e) PROVE StepHolds
  BY <1>10, ResolvePlanHolds
<1>11. ASSUME NEW s \in DOMAIN sessions, NEW slug \in Slugs, TestRun(t, s, slug) PROVE StepHolds
  BY <1>11, SessionCallsHold
<1>12. ASSUME NEW u \in DOMAIN users, NEW slug \in Slugs, CliRun(t, u, slug) PROVE StepHolds
  BY <1>12, CommandsHold
<1>13. ASSUME NEW s \in DOMAIN sessions, NEW r \in DOMAIN runs, ReadRun(t, s, r) PROVE StepHolds
  BY <1>13, SessionCallsHold
<1>14. ASSUME NEW slug \in Slugs, ControlTest(t, slug) PROVE StepHolds
  BY <1>14, ControlHolds
<1>15. ASSUME NEW r \in DOMAIN runs, ControlReadRun(t, r) PROVE StepHolds
  BY <1>15, ControlHolds
<1>16. ASSUME EnterControlPlane(t) PROVE StepHolds
  BY <1>16, ControlHolds
<1>17. ASSUME Refuse(t) \/ AnswerOnly(t) \/ ShowRun(t) \/ Drop(t) PROVE StepHolds
  BY <1>17, EndingsHold
<1>18. ASSUME RecordRun(t) \/ Author(t) PROVE StepHolds
  BY <1>18, RecordRunHolds, AuthorHolds
<1> QED BY <1>1, <1>2, <1>3, <1>4, <1>5, <1>6, <1>7, <1>8, <1>9, <1>10, <1>11, <1>12, <1>13,
           <1>14, <1>15, <1>16, <1>17, <1>18 DEF GrantSteps

\* Every step keeps the invariant, takes nothing back and proves its links.
LEMMA NextHolds ==
  ASSUME Inv, [Next]_vars
  PROVE  StepHolds
<1>1. ASSUME NEW t \in Tasks, AccountSteps(t) \/ GrantSteps(t) PROVE StepHolds
  BY <1>1, AccountStepsHold, GrantStepsHold
<1>2. ASSUME NEW e \in Emails, SetPassword(e) PROVE StepHolds
  BY <1>2, SetPasswordHolds
<1>3. ASSUME NEW s \in DOMAIN sessions, Logout(s) PROVE StepHolds
  BY <1>3, LogoutHolds
<1>4. CASE WriteEndpoint
  BY <1>4, WriteEndpointHolds
<1>5. CASE SweepStarts
  BY <1>5, SweepStartsHolds
<1>6. CASE SweepBatch
  BY <1>6, SweepBatchHolds
<1>7. CASE SweepSessions
  BY <1>7, SweepSessionsHolds
<1>10. CASE SweepPicks
  BY <1>10, SweepPicksHolds
<1>11. CASE SweepBatchFails
  BY <1>11, SweepBatchFailsHolds
<1>8. CASE Tick
  BY <1>8, TickHolds
<1>9. CASE UNCHANGED vars
  <2>1. UNCHANGED tables /\ task' = task /\ UNCHANGED <<now, sweep>> /\ calls' = calls
    BY <1>9 DEF vars
  <2>2. TablesOK'
    BY <2>1 DEF Inv, TypeOK, TablesOK, tables
  <2>3. Kept /\ Proven /\ TablesHold'
    BY <2>1, SameTables
  <2>4. Inv'
    BY <2>1, <2>2, <2>3, Stays
  <2> QED BY <2>3, <2>4 DEF StepHolds
<1> QED BY <1>1, <1>2, <1>3, <1>4, <1>5, <1>6, <1>7, <1>8, <1>9, <1>10, <1>11 DEF Next

\* The invariant holds throughout, whatever Grants does.
THEOREM Invariant == Spec => []Inv
<1>1. Init => Inv
  BY InitHolds
<1>2. Inv /\ [Next]_vars => Inv'
  BY NextHolds DEF StepHolds
<1> QED BY <1>1, <1>2, PTL DEF Spec

\* Every table holds what its columns may, and a call what its statements carry.
THEOREM TypesHold == Spec => []TypeOK
<1>1. Inv => TypeOK
  BY DEF Inv
<1> QED BY <1>1, Invariant, PTL

\* RestrictionNeverWidens, for any interleaving of deletions, creations and requests.
THEOREM RestrictionHolds == Spec => []RestrictionNeverWidens
<1>1. Inv => RestrictionNeverWidens
  BY DEF Inv, TasksKnow, Knows, OnToken, RestrictionNeverWidens
<1> QED BY <1>1, Invariant, PTL

\* SignInsReachTheirOwn, for any number of sign-ins racing for any accounts.
THEOREM SignInsHold == Spec => []SignInsReachTheirOwn
<1>1. Inv => SignInsReachTheirOwn
  BY DEF Inv, TablesHold, SessionsHold, SignInsReachTheirOwn
<1> QED BY <1>1, Invariant, PTL

\* NothingOutlivesItsOwner, whatever is under way when a user is deleted.
THEOREM OwnershipHolds == Spec => []NothingOutlivesItsOwner
<1>1. Inv => NothingOutlivesItsOwner
  BY DEF Inv, TablesHold, SessionsHold, EndpointsHold, TokensHold, RunsHold, LiveUser,
         NothingOutlivesItsOwner
<1> QED BY <1>1, Invariant, PTL

\* A purge of the runs ends with its last batch, or with a statement that fails.
LEMMA PurgeEnds ==
  ASSUME [Next]_vars, sweep.pc = "delete", sweep'.pc = "sessions"
  PROVE  SweepBatch \/ SweepBatchFails
<1> USE DEF At
<1>1. ASSUME sweep' = sweep PROVE FALSE
  BY <1>1
<1>2. ASSUME NEW t \in Tasks, AccountSteps(t) PROVE sweep' = sweep
  <2>1. ASSUME NEW id \in People, SignIn(t, id) PROVE sweep' = sweep
    BY <2>1 DEF SignIn
  <2>2. ASSUME NEW u \in DOMAIN users, FindLinked(t, u) \/ Login(t, u) PROVE sweep' = sweep
    BY <2>2 DEF FindLinked, Login
  <2>3. ASSUME NEW u \in DOMAIN users, NEW force \in BOOLEAN, DeleteUser(t, u, force)
        PROVE  sweep' = sweep
    BY <2>3 DEF DeleteUser
  <2>4. ASSUME NEW e \in Emails, NEW password \in BOOLEAN, AddUser(t, e, password)
        PROVE  sweep' = sweep
    BY <2>4 DEF AddUser
  <2>5. ASSUME NotLinked(t) \/ RefreshEmail(t) \/ FindCandidate(t) \/ Claim(t) PROVE sweep' = sweep
    BY <2>5 DEF NotLinked, RefreshEmail, FindCandidate, Claim
  <2>6. ASSUME CheckTaken(t) \/ InsertLinked(t) \/ Reload(t) \/ OpenSession(t) PROVE sweep' = sweep
    BY <2>6 DEF CheckTaken, InsertLinked, Reload, OpenSession
  <2>7. ASSUME InsertUser(t) \/ CountUsers(t) \/ RemoveUser(t) PROVE sweep' = sweep
    BY <2>7 DEF InsertUser, CountUsers, RemoveUser
  <2> QED BY <1>2, <2>1, <2>2, <2>3, <2>4, <2>5, <2>6, <2>7 DEF AccountSteps
<1>3. ASSUME NEW t \in Tasks, GrantSteps(t) PROVE sweep' = sweep
  <2>1. ASSUME NEW s \in DOMAIN sessions, NEW c \in MintChoices, ApiMint(t, s, c)
        PROVE  sweep' = sweep
    BY <2>1 DEF ApiMint
  <2>2. ASSUME NEW s \in DOMAIN sessions, NEW k \in DOMAIN tokens, ApiRevoke(t, s, k)
        PROVE  sweep' = sweep
    BY <2>2 DEF ApiRevoke
  <2>3. ASSUME NEW u \in DOMAIN users, NEW c \in MintChoices, CliMint(t, u, c) PROVE sweep' = sweep
    BY <2>3 DEF CliMint
  <2>4. ASSUME NEW k \in DOMAIN tokens, CliRevoke(t, k) PROVE sweep' = sweep
    BY <2>4 DEF CliRevoke
  <2>5. ASSUME NEW k \in DOMAIN tokens, NEW s \in Slugs \cup {None}, PresentToken(t, k, s)
        PROVE  sweep' = sweep
    BY <2>5 DEF PresentToken
  <2>6. ASSUME NEW u \in DOMAIN users, NEW s \in Slugs \cup {None}, PresentOauth(t, u, s)
        PROVE  sweep' = sweep
    BY <2>6 DEF PresentOauth
  <2>7. ASSUME FindCaller(t) \/ ResolveGrants(t) \/ Mint(t) \/ FindToken(t) \/ Revoke(t)
        PROVE  sweep' = sweep
    BY <2>7 DEF FindCaller, ResolveGrants, Mint, FindToken, Revoke
  <2>8. ASSUME Touch(t) \/ LoadGrants(t) \/ LoadSlugs(t) \/ FindGranter(t) PROVE sweep' = sweep
    BY <2>8 DEF Touch, LoadGrants, LoadSlugs, FindGranter
  <2>9. ASSUME NEW e \in DOMAIN endpoints, ResolvePlan(t, e) PROVE sweep' = sweep
    BY <2>9 DEF ResolvePlan
  <2>10. ASSUME NEW s \in DOMAIN sessions, NEW slug \in Slugs, TestRun(t, s, slug)
         PROVE  sweep' = sweep
    BY <2>10 DEF TestRun
  <2>11. ASSUME NEW u \in DOMAIN users, NEW slug \in Slugs, CliRun(t, u, slug) PROVE sweep' = sweep
    BY <2>11 DEF CliRun
  <2>12. ASSUME NEW s \in DOMAIN sessions, NEW r \in DOMAIN runs, ReadRun(t, s, r)
         PROVE  sweep' = sweep
    BY <2>12 DEF ReadRun
  <2>13. ASSUME NEW slug \in Slugs, ControlTest(t, slug) PROVE sweep' = sweep
    BY <2>13 DEF ControlTest
  <2>14. ASSUME NEW r \in DOMAIN runs, ControlReadRun(t, r) PROVE sweep' = sweep
    BY <2>14 DEF ControlReadRun
  <2>15. ASSUME FindRun(t) \/ ShowRun(t) \/ EnterControlPlane(t) \/ Refuse(t) PROVE sweep' = sweep
    BY <2>15 DEF FindRun, ShowRun, EnterControlPlane, Refuse
  <2>16. ASSUME RecordRun(t) \/ AnswerOnly(t) \/ Author(t) \/ Drop(t) PROVE sweep' = sweep
    BY <2>16 DEF RecordRun, AnswerOnly, Author, Drop
  <2> QED BY <1>3, <2>1, <2>2, <2>3, <2>4, <2>5, <2>6, <2>7, <2>8, <2>9, <2>10, <2>11, <2>12,
             <2>13, <2>14, <2>15, <2>16 DEF GrantSteps
<1>4. ASSUME NEW e \in Emails, SetPassword(e) PROVE sweep' = sweep
  BY <1>4 DEF SetPassword
<1>5. ASSUME NEW s \in DOMAIN sessions, Logout(s) PROVE sweep' = sweep
  BY <1>5 DEF Logout
<1>6. ASSUME WriteEndpoint \/ Tick \/ UNCHANGED vars PROVE sweep' = sweep
  BY <1>6 DEF WriteEndpoint, Tick, vars
<1>7. ~SweepStarts /\ ~SweepPicks /\ ~SweepSessions
  BY DEF SweepStarts, SweepPicks, SweepSessions
<1> QED BY <1>1, <1>2, <1>3, <1>4, <1>5, <1>6, <1>7 DEF Next

\* A batch that was the last, and deleted all it had picked, had all there was.
LEMMA LastBatchHadAll ==
  ASSUME Inv, SweepBatch, sweep'.pc = "sessions", \A r \in sweep.chosen : runs[r].live
  PROVE  \A r \in DOMAIN runs : runs[r].live => runs[r].created >= sweep.cutoff \/ r \in sweep.chosen
<1> DEFINE n == Cardinality({r \in sweep.chosen : runs[r].live})
<1>1. {r \in sweep.chosen : runs[r].live} = sweep.chosen
  OBVIOUS
<1>2. n = Cardinality(sweep.chosen)
  BY <1>1
<1>3. /\ sweep.pc = "delete" /\ sweep \in Sweep
      /\ sweep' = IF LastBatch(n) THEN Purged ELSE [sweep EXCEPT !.pc = "runs", !.chosen = {}]
  BY DEF SweepBatch, Inv, TypeOK
<1> HIDE DEF n
<1>4. LastBatch(n)
  <2> SUFFICES ASSUME ~LastBatch(n) PROVE FALSE
    OBVIOUS
  <2>1. sweep' = [sweep EXCEPT !.pc = "runs", !.chosen = {}]
    BY <1>3
  <2>2. sweep'.pc = "runs"
    BY <1>3, <2>1 DEF Sweep
  <2> QED BY <2>2
<1>5. Cardinality(sweep.chosen) # BatchSize
  BY <1>2, <1>4, IdentityAssumption DEF LastBatch
<1> QED BY <1>3, <1>5 DEF Inv, TablesHold, SweepHolds

\* A statement that fails having picked nothing had nothing to pick.
LEMMA NothingPicked ==
  ASSUME Inv, sweep.pc = "delete", sweep.chosen = {}
  PROVE  \A r \in DOMAIN runs : runs[r].live => runs[r].created >= sweep.cutoff
<1>1. Cardinality(sweep.chosen) # BatchSize
  BY FS_EmptySet, IdentityAssumption
<1> QED BY <1>1 DEF Inv, TablesHold, SweepHolds

\* SweepIsComplete, for any batch size, any number of runs and any deletions of
\* users between the subselect of a batch and its rows.
THEOREM SweepHoldsThroughout == Spec => SweepIsComplete
<1>1. ASSUME Inv, [Next]_vars, sweep.pc = "delete", sweep'.pc = "sessions",
             \A r \in sweep.chosen : runs[r].live /\ ~runs'[r].live,
             NEW r \in DOMAIN runs', runs'[r].live
      PROVE  runs'[r].created >= sweep.cutoff
  <2>1. r \notin sweep.chosen
    BY <1>1
  <2>2. CASE SweepBatch
    <3>1. r \in DOMAIN runs /\ runs'[r] = runs[r]
      BY <2>1, <2>2 DEF SweepBatch
    <3> QED BY <1>1, <2>1, <2>2, <3>1, LastBatchHadAll
  <2>3. CASE SweepBatchFails
    <3>1. runs' = runs
      BY <2>3 DEF SweepBatchFails, tables
    <3>2. sweep.chosen = {}
      BY <1>1, <3>1
    <3> QED BY <1>1, <3>1, <3>2, NothingPicked
  <2> QED BY <1>1, <2>2, <2>3, PurgeEnds
<1>2. Inv /\ [Next]_vars =>
        [sweep.pc = "delete" /\ sweep'.pc = "sessions"
         /\ (\A r \in sweep.chosen : runs[r].live /\ ~runs'[r].live)
         => \A r \in DOMAIN runs' : runs'[r].live => runs'[r].created >= sweep.cutoff]_vars
  BY <1>1
<1> QED BY <1>2, Invariant, PTL DEF Spec, SweepIsComplete

\* RevocationIsFinal: no request, mint or deletion gives a token anything back.
THEOREM RevocationHolds == Spec => RevocationIsFinal
<1>1. Inv /\ [Next]_vars =>
        [\A k \in DOMAIN tokens :
           /\ tokens[k].revoked => tokens'[k].revoked
           /\ tokens'[k].restricted = tokens[k].restricted
           /\ tokens'[k].control = tokens[k].control
           /\ tokens'[k].until = tokens[k].until
           /\ tokens'[k].grants \subseteq tokens[k].grants]_vars
  BY NextHolds DEF StepHolds, Kept, TokensKept
<1> QED BY <1>1, Invariant, PTL DEF Spec, RevocationIsFinal

\* LinksAreForever: no sign-in moves a linked account.
THEOREM LinksHold == Spec => LinksAreForever
<1>1. Inv /\ [Next]_vars =>
        [\A u \in DOMAIN users :
           users[u].subject # None => users'[u].subject = users[u].subject]_vars
  BY NextHolds DEF StepHolds, Kept, UsersKept
<1> QED BY <1>1, Invariant, PTL DEF Spec, LinksAreForever

\* ClaimsAreProven: only a sign-in vouched for as its email links an account.
THEOREM ClaimsHold == Spec => ClaimsAreProven
<1>1. Inv /\ [Next]_vars =>
        [\A u \in DOMAIN users :
           users[u].subject = None /\ users'[u].subject # None =>
             \E t \in Tasks : /\ task[t].subject = users'[u].subject
                              /\ task[t].email = users[u].email
                              /\ task[t].flag]_vars
  BY NextHolds DEF StepHolds, Proven
<1> QED BY <1>1, Invariant, PTL DEF Spec, ClaimsAreProven
=============================================================================
