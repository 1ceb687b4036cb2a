-------------------------- MODULE OAuthFlow_proofs --------------------------
(***************************************************************************)
(* The safety properties of OAuthFlow, for any number of calls under way,  *)
(* dropped anywhere, and any lifetimes.                                    *)
(*                                                                         *)
(* The rows only move one way (Kept): a code is spent, a token is revoked, *)
(* never back, and nobody else's statement undoes what a handler has seen  *)
(* or written.  So a handler's own knowledge (HandlerKnows) is good until  *)
(* its next statement.                                                     *)
(***************************************************************************)
EXTENDS OAuthFlow, SequenceTheorems, TLAPS

Deciding == {"delete", "consent", "grant", "mint"}
OnCode == {"burn", "verify"}
OnToken == {"rotate", "issue", "lifetime", "family", "sweep", "swept"}

\* Something is wrong with the family of a row: one of it was revoked.
Broken(t) == \E i \in 1..Len(tokens) : tokens[i].family = tokens[t].family /\ tokens[i].revoked

\* What the handler at h relies on between two of its statements.
HandlerKnows(h) ==
  LET w == handler[h] IN
  /\ w.pc \in Deciding => w.user \in Users
  /\ w.pc \in Deciding \cup {"park"} => w.scope \in Scopes
  /\ w.pc = "delete" => w.row \in 1..Len(requests)
  /\ w.pc = "mint" => <<w.user, w.scope>> \in consents
  /\ w.pc \in OnCode => w.row \in 1..Len(codes)
  /\ w.pc = "verify" => codes[w.row].used
  /\ w.pc \in OnToken => w.row \in 1..Len(tokens)
  /\ w.pc \in {"rotate", "issue"} => tokens[w.row].handed
  /\ w.pc = "issue" => tokens[w.row].revoked
  /\ w.pc \in {"lifetime", "family", "sweep"} => Broken(w.row)
  /\ w.pc \in {"sweep", "swept"} =>
       /\ w.seen <= Len(tokens)
       /\ \A i \in w.todo : tokens[i].family = tokens[w.row].family
       /\ w.todo \subseteq 1..Len(tokens)
       /\ \A i \in 1..w.seen :
            tokens[i].family = tokens[w.row].family => tokens[i].revoked \/ i \in w.todo
  /\ w.pc = "swept" => w.todo = {}

\* What is true of every token row.
TokenHolds(t) ==
  LET w == tokens[t] IN
  /\ w.family \in 1..Len(tokens)
  /\ w.created <= now
  /\ w.created <= w.accessUntil
  /\ w.created <= w.refreshUntil
  /\ w.code \in 1..Len(codes)
  /\ codes[w.code].used
  /\ w.user = codes[w.code].user /\ w.scope = codes[w.code].scope
  /\ w.parent \in 0..Len(tokens)
  /\ w.parent # 0 => tokens[w.parent].revoked

HandlersKnow == \A h \in Handlers : HandlerKnows(h)
TokensHold == \A t \in 1..Len(tokens) : TokenHolds(t)

Inv ==
  /\ TypeOK
  /\ HandlersKnow
  /\ TokensHold
  /\ CodesAreConsented
  /\ NoPairPastLifetime

\* What no step takes back.
Kept ==
  /\ now <= now'
  /\ consents \subseteq consents'
  /\ Len(requests) <= Len(requests')
  /\ Len(codes) <= Len(codes')
  /\ \A c \in 1..Len(codes) :
       /\ codes'[c].user = codes[c].user
       /\ codes'[c].scope = codes[c].scope
       /\ codes[c].used => codes'[c].used
  /\ Len(tokens) <= Len(tokens')
  /\ \A t \in 1..Len(tokens) :
       /\ tokens'[t].family = tokens[t].family
       /\ tokens'[t].user = tokens[t].user
       /\ tokens'[t].scope = tokens[t].scope
       /\ tokens'[t].created = tokens[t].created
       /\ tokens'[t].accessUntil = tokens[t].accessUntil
       /\ tokens'[t].refreshUntil = tokens[t].refreshUntil
       /\ tokens'[t].code = tokens[t].code
       /\ tokens'[t].parent = tokens[t].parent
       /\ tokens[t].revoked => tokens'[t].revoked
       /\ tokens[t].handed => tokens'[t].handed

----------------------------------------------------------------------------
(* Rows appended and rows updated.                                         *)

\* What an appended table holds.
LEMMA Appended ==
  ASSUME NEW S, NEW table \in Seq(S), NEW row \in S
  PROVE  /\ Append(table, row) \in Seq(S)
         /\ Len(Append(table, row)) = Len(table) + 1
         /\ Len(table) \in Nat
         /\ Append(table, row)[Len(table) + 1] = row
         /\ \A i \in 1..Len(table) : Append(table, row)[i] = table[i]
<1>1. Len(table) \in Nat
  BY LenProperties
<1>2. /\ Append(table, row) \in Seq(S)
      /\ Len(Append(table, row)) = Len(table) + 1
      /\ Append(table, row)[Len(table) + 1] = row
      /\ \A i \in 1..Len(table) : Append(table, row)[i] = table[i]
  BY AppendProperties
<1> QED BY <1>1, <1>2

\* What an updated table holds.
LEMMA Updated ==
  ASSUME NEW S, NEW table \in Seq(S), NEW i \in 1..Len(table), NEW row \in S
  PROVE  /\ [table EXCEPT ![i] = row] \in Seq(S)
         /\ Len([table EXCEPT ![i] = row]) = Len(table)
         /\ [table EXCEPT ![i] = row][i] = row
         /\ \A j \in 1..Len(table) : j # i => [table EXCEPT ![i] = row][j] = table[j]
<1> DEFINE new == [table EXCEPT ![i] = row]
<1>1. /\ new \in Seq(S)
      /\ Len(new) = Len(table)
      /\ \A j \in 1..Len(table) : new[j] = IF j = i THEN row ELSE table[j]
  BY ExceptSeq
<1> QED BY <1>1

\* A row of a table is of its type.
LEMMA RowType ==
  ASSUME NEW S, NEW table \in Seq(S), NEW i \in 1..Len(table)
  PROVE  table[i] \in S
  BY LenProperties

----------------------------------------------------------------------------
(* What the helpers do to the handlers.                                    *)

\* Goto moves one handler and nothing else.
LEMMA GotoMoves ==
  ASSUME handler \in [Handlers -> Handler], NEW h \in Handlers,
         NEW pc \in Resting \cup Busy, Goto(h, pc)
  PROVE  /\ handler' \in [Handlers -> Handler]
         /\ handler'[h] = [handler[h] EXCEPT !.pc = pc]
         /\ \A g \in Handlers : g # h => handler'[g] = handler[g]
<1>1. handler' = [handler EXCEPT ![h] = [handler[h] EXCEPT !.pc = pc]]
  BY DEF Goto
<1>2. [handler[h] EXCEPT !.pc = pc] \in Handler
  BY DEF Handler
<1> QED BY <1>1, <1>2

\* Finish leaves one handler idle.
LEMMA FinishMoves ==
  ASSUME handler \in [Handlers -> Handler], NEW h \in Handlers, Finish(h)
  PROVE  /\ handler' \in [Handlers -> Handler]
         /\ handler'[h] = Idle
         /\ \A g \in Handlers : g # h => handler'[g] = handler[g]
<1>1. Idle \in Handler
  BY DEF Idle, Handler, Resting, Busy
<1> QED BY <1>1 DEF Finish

\* Call starts one handler on its row.
LEMMA CallMoves ==
  ASSUME handler \in [Handlers -> Handler], made \in Nat, NEW h \in Handlers,
         NEW pc \in Busy, NEW user \in Users \cup {Nobody},
         NEW scope \in Scopes \cup {Nobody}, NEW row \in Nat, NEW approve \in BOOLEAN,
         Call(h, pc, user, scope, row, approve)
  PROVE  /\ handler' \in [Handlers -> Handler]
         /\ handler'[h].pc = pc /\ handler'[h].user = user
         /\ handler'[h].scope = scope /\ handler'[h].row = row
         /\ \A g \in Handlers : g # h => handler'[g] = handler[g]
         /\ made' \in Nat
<1> DEFINE new == [pc |-> pc, user |-> user, scope |-> scope, row |-> row,
                   approve |-> approve, seen |-> 0, todo |-> {}]
<1>1. new \in Handler
  BY DEF Handler
<1>2. handler' = [handler EXCEPT ![h] = new]
  BY DEF Call
<1>3. made' \in Nat
  BY DEF Call
<1> QED BY <1>1, <1>2, <1>3

----------------------------------------------------------------------------
(* What survives a step that keeps the rows.                               *)

\* A broken family stays broken.
LEMMA StillBroken ==
  ASSUME Kept, tokens \in Seq(Token), tokens' \in Seq(Token),
         NEW t \in 1..Len(tokens), Broken(t)
  PROVE  Broken(t)'
<1>1. PICK i \in 1..Len(tokens) :
        tokens[i].family = tokens[t].family /\ tokens[i].revoked
  BY DEF Broken
<1>2. i \in 1..Len(tokens')
  BY LenProperties DEF Kept
<1>3. tokens'[i].family = tokens'[t].family /\ tokens'[i].revoked
  BY <1>1 DEF Kept
<1> QED BY <1>2, <1>3 DEF Broken

\* A handler that does not move still knows what it knew.
LEMMA StillKnows ==
  ASSUME TypeOK, TypeOK', Kept, NEW g \in Handlers,
         HandlerKnows(g), handler'[g] = handler[g]
  PROVE  HandlerKnows(g)'
<1> DEFINE w == handler[g]
<1>1. /\ Len(requests) \in Nat /\ Len(requests') \in Nat
      /\ Len(codes) \in Nat /\ Len(codes') \in Nat
      /\ Len(tokens) \in Nat /\ Len(tokens') \in Nat
  BY LenProperties DEF TypeOK
<1>2. w \in Handler
  BY DEF TypeOK
<1>3. w.row \in Nat /\ w.seen \in Nat
  BY <1>2 DEF Handler
<1>4. /\ w.pc \in Deciding => w.user \in Users
      /\ w.pc \in Deciding \cup {"park"} => w.scope \in Scopes
      /\ w.pc = "mint" => <<w.user, w.scope>> \in consents'
      /\ w.pc = "swept" => w.todo = {}
  BY DEF HandlerKnows, Kept
<1>5. w.pc = "delete" => w.row \in 1..Len(requests')
  BY <1>1, <1>3 DEF HandlerKnows, Kept
<1>6. /\ w.pc \in OnCode => w.row \in 1..Len(codes')
      /\ w.pc = "verify" => codes'[w.row].used
  BY <1>1, <1>3 DEF HandlerKnows, Kept, OnCode
<1>7. /\ w.pc \in OnToken => w.row \in 1..Len(tokens')
      /\ w.pc \in {"rotate", "issue"} => tokens'[w.row].handed
      /\ w.pc = "issue" => tokens'[w.row].revoked
  BY <1>1, <1>3 DEF HandlerKnows, Kept, OnToken
<1>8. ASSUME w.pc \in {"sweep", "swept"}
      PROVE  /\ w.seen <= Len(tokens')
             /\ w.todo \subseteq 1..Len(tokens')
             /\ \A i \in w.todo : tokens'[i].family = tokens'[w.row].family
             /\ \A i \in 1..w.seen :
                  tokens'[i].family = tokens'[w.row].family
                    => tokens'[i].revoked \/ i \in w.todo
  <2>1. /\ w.seen <= Len(tokens) /\ w.todo \subseteq 1..Len(tokens)
        /\ w.row \in 1..Len(tokens)
        /\ \A i \in w.todo : tokens[i].family = tokens[w.row].family
        /\ \A i \in 1..w.seen :
             tokens[i].family = tokens[w.row].family => tokens[i].revoked \/ i \in w.todo
    BY <1>8 DEF HandlerKnows, OnToken
  <2>2. \A i \in 1..w.seen : i \in 1..Len(tokens)
    BY <2>1, <1>1, <1>3
  <2>3. 1..Len(tokens) \subseteq 1..Len(tokens')
    BY <1>1 DEF Kept
  <2>4. \A i \in w.todo : tokens'[i].family = tokens'[w.row].family
    BY <2>1 DEF Kept
  <2>5. w.seen <= Len(tokens') /\ w.todo \subseteq 1..Len(tokens')
    BY <2>1, <2>3, <1>1, <1>3 DEF Kept
  <2>6. \A i \in 1..w.seen :
          tokens'[i].family = tokens'[w.row].family => tokens'[i].revoked \/ i \in w.todo
    BY <2>1, <2>2 DEF Kept
  <2> QED BY <2>4, <2>5, <2>6
<1>9. ASSUME w.pc \in {"lifetime", "family", "sweep"}
      PROVE  Broken(w.row)'
  <2>1. PICK t \in 1..Len(tokens) : t = handler[g].row /\ Broken(t)
    BY <1>9 DEF HandlerKnows, OnToken
  <2>2. Broken(t)'
    BY <2>1, StillBroken DEF TypeOK
  <2>3. t = handler'[g].row
    BY <2>1
  <2> QED BY <2>2, <2>3
<1> QED BY <1>4, <1>5, <1>6, <1>7, <1>8, <1>9 DEF HandlerKnows

\* A token row that was there still holds.
LEMMA StillHolds ==
  ASSUME TypeOK, TypeOK', Kept, NEW t \in 1..Len(tokens), TokenHolds(t)
  PROVE  TokenHolds(t)'
<1> DEFINE w == tokens[t]
<1>1. /\ Len(codes) \in Nat /\ Len(codes') \in Nat
      /\ Len(tokens) \in Nat /\ Len(tokens') \in Nat
      /\ now \in Nat /\ now' \in Nat
  BY LenProperties DEF TypeOK
<1>2. w \in Token /\ tokens'[t] \in Token
  BY <1>1, RowType DEF TypeOK, Kept
<1>3. /\ w.family \in Nat /\ w.created \in Nat /\ w.code \in Nat /\ w.parent \in Nat
  BY <1>2 DEF Token
<1>4. /\ tokens'[t].family = w.family /\ tokens'[t].created = w.created
      /\ tokens'[t].accessUntil = w.accessUntil
      /\ tokens'[t].refreshUntil = w.refreshUntil
      /\ tokens'[t].code = w.code /\ tokens'[t].parent = w.parent
      /\ tokens'[t].user = w.user /\ tokens'[t].scope = w.scope
  BY DEF Kept
<1>5. w.family \in 1..Len(tokens') /\ w.created <= now'
  BY <1>1, <1>3 DEF TokenHolds, Kept
<1>6. /\ w.code \in 1..Len(codes') /\ codes'[w.code].used
      /\ w.user = codes'[w.code].user /\ w.scope = codes'[w.code].scope
  BY <1>1, <1>3 DEF TokenHolds, Kept
<1>7. w.parent \in 0..Len(tokens') /\ (w.parent # 0 => tokens'[w.parent].revoked)
  BY <1>1, <1>3 DEF TokenHolds, Kept
<1>8. w.created <= w.accessUntil /\ w.created <= w.refreshUntil
  BY DEF TokenHolds
<1> QED BY <1>4, <1>5, <1>6, <1>7, <1>8 DEF TokenHolds

\* A step of one handler that adds no token and no code keeps the invariant,
\* when that handler knows what its new place asks for.
LEMMA StepKeeps ==
  ASSUME Inv, TypeOK', Kept, NEW h \in Handlers, HandlerKnows(h)',
         \A g \in Handlers : g # h => handler'[g] = handler[g],
         Len(codes') = Len(codes), Len(tokens') = Len(tokens), NoPairPastLifetime'
  PROVE  Inv'
<1>1. HandlersKnow'
  BY StillKnows DEF Inv, HandlersKnow
<1>2. TokensHold'
  BY StillHolds DEF Inv, TokensHold
<1>3. CodesAreConsented'
  BY DEF Inv, CodesAreConsented, Kept
<1> QED BY <1>1, <1>2, <1>3 DEF Inv

\* The same of a step that leaves the rows alone.
LEMMA QuietStep ==
  ASSUME Inv, NEW h \in Handlers, UNCHANGED <<now, requests, consents, codes, tokens>>,
         handler' \in [Handlers -> Handler], made' \in Nat, HandlerKnows(h)',
         \A g \in Handlers : g # h => handler'[g] = handler[g]
  PROVE  Inv'
<1>1. TypeOK'
  BY DEF Inv, TypeOK
<1>2. Kept
  BY LenProperties DEF Kept, Inv, TypeOK
<1>3. NoPairPastLifetime'
  BY DEF Inv, NoPairPastLifetime
<1> QED BY <1>1, <1>2, <1>3, StepKeeps

----------------------------------------------------------------------------
(* One lemma per kind of step.                                             *)

\* Marks are set on a token row.
LEMMA MarkToken ==
  ASSUME Inv, NEW i \in 1..Len(tokens), NEW revoked \in BOOLEAN, NEW handed \in BOOLEAN,
         tokens[i].revoked => revoked, tokens[i].handed => handed,
         tokens' = [tokens EXCEPT ![i] = [tokens[i] EXCEPT !.revoked = revoked,
                                                          !.handed = handed]],
         UNCHANGED <<now, requests, consents, codes>>
  PROVE  /\ tokens' \in Seq(Token)
         /\ Len(tokens') = Len(tokens)
         /\ tokens'[i].revoked = revoked
         /\ tokens'[i].handed = handed
         /\ \A t \in 1..Len(tokens) : t # i => tokens'[t] = tokens[t]
         /\ Kept
<1> DEFINE row == [tokens[i] EXCEPT !.revoked = revoked, !.handed = handed]
<1>1. tokens \in Seq(Token)
  BY DEF Inv, TypeOK
<1>2. tokens[i] \in Token
  BY <1>1, RowType
<1>3. row \in Token
  BY <1>2 DEF Token
<1>4. /\ row.family = tokens[i].family /\ row.user = tokens[i].user
      /\ row.scope = tokens[i].scope /\ row.created = tokens[i].created
      /\ row.accessUntil = tokens[i].accessUntil
      /\ row.refreshUntil = tokens[i].refreshUntil
      /\ row.code = tokens[i].code /\ row.parent = tokens[i].parent
      /\ row.revoked = revoked /\ row.handed = handed
  BY <1>2 DEF Token
<1>5. /\ tokens' \in Seq(Token)
      /\ Len(tokens') = Len(tokens)
      /\ tokens'[i] = row
      /\ \A t \in 1..Len(tokens) : t # i => tokens'[t] = tokens[t]
  <2>1. tokens' = [tokens EXCEPT ![i] = row]
    OBVIOUS
  <2> HIDE DEF row
  <2> DEFINE new == [tokens EXCEPT ![i] = row]
  <2>2. /\ new \in Seq(Token)
        /\ Len(new) = Len(tokens)
        /\ new[i] = row
        /\ \A t \in 1..Len(tokens) : t # i => new[t] = tokens[t]
    BY <1>1, <1>3, Updated
  <2> HIDE DEF new
  <2>3. tokens' = new
    BY <2>1 DEF new
  <2> QED BY <2>2, <2>3
<1>6. Kept
  <2>1. Len(requests) \in Nat /\ Len(codes) \in Nat /\ Len(tokens) \in Nat /\ now \in Nat
    BY LenProperties DEF Inv, TypeOK
  <2> HIDE DEF row
  <2> QED BY <1>4, <1>5, <2>1 DEF Kept
<1> HIDE DEF row
<1> QED BY <1>4, <1>5, <1>6

\* A revoked row: no pair is handed out by it.
LEMMA RevokeToken ==
  ASSUME Inv, NEW i \in 1..Len(tokens),
         tokens' = [tokens EXCEPT ![i] = [tokens[i] EXCEPT !.revoked = TRUE]],
         UNCHANGED <<now, requests, consents, codes>>
  PROVE  /\ tokens' \in Seq(Token)
         /\ Len(tokens') = Len(tokens)
         /\ tokens'[i].revoked
         /\ \A t \in 1..Len(tokens) : t # i => tokens'[t] = tokens[t]
         /\ Kept
         /\ NoPairPastLifetime'
<1>1. tokens[i] \in Token
  BY RowType DEF Inv, TypeOK
<1>2. tokens[i].handed \in BOOLEAN
  BY <1>1 DEF Token
<1>3. [tokens[i] EXCEPT !.revoked = TRUE]
        = [tokens[i] EXCEPT !.revoked = TRUE, !.handed = tokens[i].handed]
  BY <1>1 DEF Token
<1>4. tokens' = [tokens EXCEPT ![i] = [tokens[i] EXCEPT !.revoked = TRUE,
                                                       !.handed = tokens[i].handed]]
  BY <1>3
<1>5. /\ tokens' \in Seq(Token)
      /\ Len(tokens') = Len(tokens)
      /\ tokens'[i].revoked = TRUE
      /\ tokens'[i].handed = tokens[i].handed
      /\ \A t \in 1..Len(tokens) : t # i => tokens'[t] = tokens[t]
      /\ Kept
  BY <1>2, <1>4, MarkToken
<1>6. \A t \in 1..Len(tokens) : /\ tokens'[t].handed = tokens[t].handed
                                /\ tokens'[t].family = tokens[t].family
                                /\ tokens'[t].created = tokens[t].created
  BY <1>5 DEF Kept
<1>7. NoPairPastLifetime'
  BY <1>5, <1>6 DEF Inv, NoPairPastLifetime
<1> QED BY <1>5, <1>7

\* A pair is issued: its row holds, and handed out at once only as a first one.
LEMMA IssueToken ==
  ASSUME Inv, NEW h \in Handlers, NEW row \in Token,
         tokens' = Append(tokens, row),
         UNCHANGED <<now, requests, consents, codes>>,
         row.created = now, row.created <= row.accessUntil, row.created <= row.refreshUntil,
         row.family \in 1..(Len(tokens) + 1),
         row.code \in 1..Len(codes), codes[row.code].used,
         row.user = codes[row.code].user, row.scope = codes[row.code].scope,
         row.parent \in 0..Len(tokens),
         row.parent # 0 => tokens[row.parent].revoked,
         row.handed => row.family = Len(tokens) + 1,
         handler' \in [Handlers -> Handler], made' = made,
         \A g \in Handlers : g # h => handler'[g] = handler[g],
         HandlerKnows(h)'
  PROVE  Inv'
<1>1. /\ tokens' \in Seq(Token)
      /\ Len(tokens') = Len(tokens) + 1
      /\ Len(tokens) \in Nat
      /\ tokens'[Len(tokens) + 1] = row
      /\ \A t \in 1..Len(tokens) : tokens'[t] = tokens[t]
  BY Appended DEF Inv, TypeOK
<1>2. Len(requests) \in Nat /\ Len(codes) \in Nat /\ now \in Nat
  BY LenProperties DEF Inv, TypeOK
<1>3. TypeOK'
  BY <1>1 DEF Inv, TypeOK
<1>4. Kept
  BY <1>1, <1>2 DEF Kept
<1>5. \A t \in 1..Len(tokens') : t \in 1..Len(tokens) \/ t = Len(tokens) + 1
  BY <1>1
<1>6. TokensHold'
  <2>1. ASSUME NEW t, t = Len(tokens) + 1 PROVE TokenHolds(t)'
    <3>1. row.parent \in Nat
      BY DEF Token
    <3>2. row.parent # 0 => tokens'[row.parent].revoked
      BY <1>1, <3>1
    <3>3. row.parent \in 0..Len(tokens')
      BY <1>1, <3>1
    <3>4. row.family \in 1..Len(tokens') /\ row.created <= now'
      BY <1>1, <1>2
    <3> QED BY <1>1, <1>2, <2>1, <3>2, <3>3, <3>4 DEF TokenHolds
  <2>2. \A t \in 1..Len(tokens) : TokenHolds(t)'
    BY <1>3, <1>4, StillHolds DEF Inv, TokensHold
  <2>3. ASSUME NEW t \in 1..Len(tokens') PROVE TokenHolds(t)'
    <3>1. CASE t \in 1..Len(tokens)
      BY <3>1, <2>2
    <3>2. CASE t = Len(tokens) + 1
      BY <3>2, <2>1
    <3> QED BY <3>1, <3>2, <1>5
  <2> QED BY <2>3 DEF TokensHold
<1>7. HandlersKnow'
  BY <1>3, <1>4, StillKnows DEF Inv, HandlersKnow
<1>8. CodesAreConsented'
  BY DEF Inv, CodesAreConsented
<1>9. NoPairPastLifetime'
  <2> SUFFICES ASSUME NEW s \in 1..Len(tokens'), NEW t \in 1..Len(tokens'),
                      tokens'[t].handed, tokens'[s].family = tokens'[t].family
               PROVE  tokens'[t].created <= tokens'[s].created + FamilyTTL
    BY DEF NoPairPastLifetime
  <2>1. \A i \in 1..Len(tokens) :
          /\ tokens[i].family \in 1..Len(tokens)
          /\ tokens[i].created \in Nat /\ tokens[i].created <= now
    <3>1. ASSUME NEW i \in 1..Len(tokens) PROVE tokens[i] \in Token
      BY RowType DEF Inv, TypeOK
    <3>2. \A i \in 1..Len(tokens) : TokenHolds(i)
      BY DEF Inv, TokensHold
    <3> QED BY <3>1, <3>2 DEF TokenHolds, Token
  <2>2. CASE s \in 1..Len(tokens) /\ t \in 1..Len(tokens)
    BY <2>2, <1>1 DEF Inv, NoPairPastLifetime
  <2>3. CASE s = Len(tokens) + 1 /\ t \in 1..Len(tokens)
    BY <2>3, <2>1, <1>1, <1>2, FlowAssumption DEF FlowAssumption
  <2>4. CASE t = Len(tokens) + 1 /\ s \in 1..Len(tokens)
    BY <2>4, <2>1, <1>1
  <2>5. CASE s = Len(tokens) + 1 /\ t = Len(tokens) + 1
    BY <2>5, <1>1, <1>2, FlowAssumption DEF FlowAssumption
  <2> QED BY <2>2, <2>3, <2>4, <2>5, <1>5
<1> QED BY <1>3, <1>6, <1>7, <1>8, <1>9 DEF Inv

----------------------------------------------------------------------------
(* The calls arrive.                                                       *)

LEMMA AuthorizeKeeps ==
  ASSUME Inv, NEW h \in Handlers, NEW user \in Users, NEW scope \in Scopes,
         Authorize(h, user, scope)
  PROVE  Inv'
<1> DEFINE pc == IF Consented(user, scope) THEN "mint" ELSE "park"
<1>1. handler \in [Handlers -> Handler] /\ made \in Nat
  BY DEF Inv, TypeOK
<1>2. pc \in Busy
  BY DEF Busy
<1>3. Call(h, pc, user, scope, 0, FALSE)
  BY DEF Authorize
<1>4. /\ handler' \in [Handlers -> Handler]
      /\ handler'[h].pc = pc /\ handler'[h].user = user
      /\ handler'[h].scope = scope
      /\ \A g \in Handlers : g # h => handler'[g] = handler[g]
      /\ made' \in Nat
  <2> HIDE DEF pc
  <2> QED BY <1>1, <1>2, <1>3, CallMoves
<1>5. UNCHANGED <<now, requests, consents, codes, tokens>>
  BY DEF Authorize
<1>6. HandlerKnows(h)'
  BY <1>4, <1>5 DEF HandlerKnows, Consented, Deciding, OnCode, OnToken
<1> QED BY <1>4, <1>5, <1>6, QuietStep

LEMMA DecideKeeps ==
  ASSUME Inv, NEW h \in Handlers, NEW user \in Users, NEW r \in 1..Len(requests),
         NEW approve \in BOOLEAN, Decide(h, user, r, approve)
  PROVE  Inv'
<1>1. handler \in [Handlers -> Handler] /\ made \in Nat
  BY DEF Inv, TypeOK
<1>2. requests[r] \in ConsentRequest
  BY RowType DEF Inv, TypeOK
<1>3. requests[r].scope \in Scopes /\ r \in Nat
  BY <1>2 DEF ConsentRequest
<1>4. /\ handler' \in [Handlers -> Handler]
      /\ handler'[h].pc = "delete" /\ handler'[h].user = user
      /\ handler'[h].scope = requests[r].scope /\ handler'[h].row = r
      /\ \A g \in Handlers : g # h => handler'[g] = handler[g]
      /\ made' \in Nat
  <2>1. "delete" \in Busy
    BY DEF Busy
  <2>2. Call(h, "delete", user, requests[r].scope, r, approve)
    BY DEF Decide
  <2> QED BY <1>1, <1>3, <2>1, <2>2, CallMoves
<1>5. UNCHANGED <<now, requests, consents, codes, tokens>>
  BY DEF Decide
<1>6. HandlerKnows(h)'
  BY <1>3, <1>4, <1>5 DEF HandlerKnows, Deciding, OnCode, OnToken
<1> QED BY <1>4, <1>5, <1>6, QuietStep

LEMMA ReadCodeKeeps ==
  ASSUME Inv, NEW h \in Handlers, NEW c \in 1..Len(codes), ReadCode(h, c)
  PROVE  Inv'
<1>1. handler \in [Handlers -> Handler] /\ made \in Nat
  BY DEF Inv, TypeOK
<1>2. codes[c] \in Code
  BY RowType DEF Inv, TypeOK
<1>3. codes[c].user \in Users /\ codes[c].scope \in Scopes /\ c \in Nat
  BY <1>2 DEF Code
<1>4. /\ handler' \in [Handlers -> Handler]
      /\ handler'[h].pc = "burn" /\ handler'[h].row = c
      /\ \A g \in Handlers : g # h => handler'[g] = handler[g]
      /\ made' \in Nat
  <2>1. "burn" \in Busy
    BY DEF Busy
  <2>2. Call(h, "burn", codes[c].user, codes[c].scope, c, FALSE)
    BY DEF ReadCode
  <2> QED BY <1>1, <1>3, <2>1, <2>2, CallMoves
<1>5. UNCHANGED <<now, requests, consents, codes, tokens>>
  BY DEF ReadCode
<1>6. HandlerKnows(h)'
  BY <1>3, <1>4, <1>5 DEF HandlerKnows, Deciding, OnCode, OnToken
<1> QED BY <1>4, <1>5, <1>6, QuietStep

LEMMA PresentKeeps ==
  ASSUME Inv, NEW h \in Handlers, NEW t \in 1..Len(tokens), Present(h, t)
  PROVE  Inv'
<1> DEFINE pc == IF tokens[t].revoked THEN "family" ELSE "rotate"
<1>1. handler \in [Handlers -> Handler] /\ made \in Nat
  BY DEF Inv, TypeOK
<1>2. tokens[t] \in Token
  BY RowType DEF Inv, TypeOK
<1>3. tokens[t].user \in Users /\ tokens[t].scope \in Scopes /\ t \in Nat
  BY <1>2 DEF Token
<1>4. pc \in Busy /\ pc \in {"family", "rotate"}
  BY DEF Busy
<1>5. /\ handler' \in [Handlers -> Handler]
      /\ handler'[h].pc = pc /\ handler'[h].row = t
      /\ \A g \in Handlers : g # h => handler'[g] = handler[g]
      /\ made' \in Nat
  <2>1. Call(h, pc, tokens[t].user, tokens[t].scope, t, FALSE)
    BY DEF Present
  <2> HIDE DEF pc
  <2> QED BY <1>1, <1>3, <1>4, <2>1, CallMoves
<1>6. UNCHANGED <<now, requests, consents, codes, tokens>>
  BY DEF Present
<1>7. tokens[t].handed /\ (pc = "family" => Broken(t)')
  BY <1>6 DEF Present, Broken
<1>8. HandlerKnows(h)'
  <2> HIDE DEF pc
  <2> QED BY <1>3, <1>4, <1>5, <1>6, <1>7 DEF HandlerKnows, Deciding, OnCode, OnToken
<1> QED BY <1>5, <1>6, <1>8, QuietStep

LEMMA ArriveKeeps ==
  ASSUME Inv, NEW h \in Handlers, Arrive(h)
  PROVE  Inv'
<1>1. ASSUME NEW u \in Users, NEW s \in Scopes, Authorize(h, u, s) PROVE Inv'
  BY <1>1, AuthorizeKeeps
<1>2. ASSUME NEW u \in Users, NEW r \in 1..Len(requests), NEW a \in BOOLEAN,
             Decide(h, u, r, a)
      PROVE  Inv'
  BY <1>2, DecideKeeps
<1>3. ASSUME NEW c \in 1..Len(codes), ReadCode(h, c) PROVE Inv'
  BY <1>3, ReadCodeKeeps
<1>4. ASSUME NEW t \in 1..Len(tokens), Present(h, t) PROVE Inv'
  BY <1>4, PresentKeeps
<1> QED BY <1>1, <1>2, <1>3, <1>4 DEF Arrive

----------------------------------------------------------------------------
(* Consent and codes.                                                      *)

\* A handler that only moves on, to a place whose demands it meets.
LEMMA MoveOn ==
  ASSUME Inv, NEW h \in Handlers, NEW pc \in Resting \cup Busy,
         Goto(h, pc), made' = made,
         UNCHANGED <<now, requests, consents, codes, tokens>>,
         pc \in Deciding \cup {"park"} => handler[h].pc \in Deciding,
         pc = "mint" => <<handler[h].user, handler[h].scope>> \in consents,
         pc \in OnToken => pc \in {"family", "swept"},
         pc = "family" => handler[h].pc = "lifetime",
         pc = "swept" => handler[h].pc = "sweep" /\ handler[h].todo = {},
         pc \notin OnCode \cup {"delete", "issue", "sweep"}
  PROVE  Inv'
<1>1. handler \in [Handlers -> Handler] /\ made \in Nat
  BY DEF Inv, TypeOK
<1>2. /\ handler' \in [Handlers -> Handler]
      /\ handler'[h] = [handler[h] EXCEPT !.pc = pc]
      /\ \A g \in Handlers : g # h => handler'[g] = handler[g]
  BY <1>1, GotoMoves
<1>3. handler[h] \in Handler /\ HandlerKnows(h)
  BY <1>1 DEF Inv, HandlersKnow
<1>4. /\ handler'[h].pc = pc /\ handler'[h].user = handler[h].user
      /\ handler'[h].scope = handler[h].scope /\ handler'[h].row = handler[h].row
      /\ handler'[h].seen = handler[h].seen /\ handler'[h].todo = handler[h].todo
  BY <1>2, <1>3 DEF Handler
<1>5. pc = "family" => Broken(handler[h].row)'
  BY <1>3, <1>4 DEF HandlerKnows, Broken
<1>6. HandlerKnows(h)'
  BY <1>3, <1>4, <1>5 DEF HandlerKnows, Deciding, OnCode, OnToken
<1> QED BY <1>1, <1>2, <1>6, QuietStep

\* A handler that ends knows nothing and needs nothing.
LEMMA IdleKnows ==
  ASSUME NEW h \in Handlers, handler'[h] = Idle
  PROVE  HandlerKnows(h)'
  BY DEF HandlerKnows, Idle, Deciding, OnCode, OnToken

LEMMA EndKeeps ==
  ASSUME Inv, NEW h \in Handlers, Finish(h), made' = made,
         UNCHANGED <<now, requests, consents, codes, tokens>>
  PROVE  Inv'
<1>1. handler \in [Handlers -> Handler] /\ made \in Nat
  BY DEF Inv, TypeOK
<1> QED BY <1>1, FinishMoves, IdleKnows, QuietStep

\* A step that only changes the consent requests.
LEMMA RequestStep ==
  ASSUME Inv, NEW h \in Handlers, requests' \in Seq(ConsentRequest),
         Len(requests') \in Nat, Len(requests) <= Len(requests'),
         UNCHANGED <<now, consents, codes, tokens, made>>,
         handler' \in [Handlers -> Handler], HandlerKnows(h)',
         \A g \in Handlers : g # h => handler'[g] = handler[g]
  PROVE  Inv'
<1>1. TypeOK'
  BY DEF Inv, TypeOK
<1>2. Kept
  BY LenProperties DEF Kept, Inv, TypeOK
<1>3. NoPairPastLifetime'
  BY DEF Inv, NoPairPastLifetime
<1> QED BY <1>1, <1>2, <1>3, StepKeeps

LEMMA ParkKeeps ==
  ASSUME Inv, NEW h \in Handlers, Park(h)
  PROVE  Inv'
<1> DEFINE row == [scope |-> handler[h].scope, until |-> now + ConsentTTL, open |-> TRUE]
<1>1. /\ handler \in [Handlers -> Handler] /\ now \in Nat
      /\ requests \in Seq(ConsentRequest) /\ HandlerKnows(h)
  BY DEF Inv, TypeOK, HandlersKnow
<1>2. now + ConsentTTL \in Nat
  BY <1>1, FlowAssumption DEF FlowAssumption
<1>3. handler[h].scope \in Scopes
  BY <1>1 DEF Park, At, HandlerKnows
<1>4. row \in ConsentRequest
  BY <1>2, <1>3 DEF ConsentRequest
<1>5. requests' = Append(requests, row)
  BY DEF Park
<1>6. /\ requests' \in Seq(ConsentRequest)
      /\ Len(requests') = Len(requests) + 1 /\ Len(requests) \in Nat
  <2> HIDE DEF row
  <2> QED BY <1>1, <1>4, <1>5, Appended
<1>7. Finish(h) /\ UNCHANGED <<now, consents, codes, tokens, made>>
  BY DEF Park, At
<1> HIDE DEF row
<1> QED BY <1>1, <1>6, <1>7, FinishMoves, IdleKnows, RequestStep

\* A consent request is deleted.
LEMMA RequestDeleted ==
  ASSUME requests \in Seq(ConsentRequest), NEW r \in 1..Len(requests),
         requests' = [requests EXCEPT ![r].open = FALSE]
  PROVE  /\ requests' \in Seq(ConsentRequest)
         /\ Len(requests') = Len(requests)
         /\ Len(requests) \in Nat
<1> DEFINE row == [requests[r] EXCEPT !.open = FALSE]
<1>1. requests[r] \in ConsentRequest
  BY RowType
<1>2. row \in ConsentRequest
  BY <1>1 DEF ConsentRequest
<1>3. requests' = [requests EXCEPT ![r] = row]
  OBVIOUS
<1>4. Len(requests) \in Nat
  BY LenProperties
<1> DEFINE new == [requests EXCEPT ![r] = row]
<1> HIDE DEF row
<1>5. new \in Seq(ConsentRequest) /\ Len(new) = Len(requests)
  BY <1>2, Updated
<1> QED BY <1>3, <1>4, <1>5

LEMMA DeleteRequestKeeps ==
  ASSUME Inv, NEW h \in Handlers, DeleteRequest(h)
  PROVE  Inv'
<1>1. /\ handler \in [Handlers -> Handler]
      /\ requests \in Seq(ConsentRequest) /\ HandlerKnows(h) /\ handler[h] \in Handler
  BY DEF Inv, TypeOK, HandlersKnow
<1>2. /\ handler[h].pc = "delete"
      /\ UNCHANGED <<now, consents, codes, tokens, made>>
  BY DEF DeleteRequest, At
<1>3. handler[h].row \in 1..Len(requests)
  BY <1>1, <1>2 DEF HandlerKnows
<1>4. /\ requests' \in Seq(ConsentRequest)
      /\ Len(requests') = Len(requests)
      /\ Len(requests) \in Nat
  BY <1>1, <1>3, RequestDeleted DEF DeleteRequest
<1>5. CASE handler[h].approve
  <2>1. Goto(h, "consent")
    BY <1>5 DEF DeleteRequest
  <2>2. "consent" \in Resting \cup Busy
    BY DEF Busy
  <2>3. /\ handler' \in [Handlers -> Handler]
        /\ handler'[h] = [handler[h] EXCEPT !.pc = "consent"]
        /\ \A g \in Handlers : g # h => handler'[g] = handler[g]
    BY <1>1, <2>1, <2>2, GotoMoves
  <2>4. HandlerKnows(h)'
    <3>1. /\ handler'[h].pc = "consent" /\ handler'[h].user = handler[h].user
          /\ handler'[h].scope = handler[h].scope
      BY <1>1, <2>3 DEF Handler
    <3> QED BY <1>1, <1>2, <3>1 DEF HandlerKnows, Deciding, OnCode, OnToken
  <2> QED BY <1>2, <1>4, <2>3, <2>4, RequestStep
<1>6. CASE ~handler[h].approve
  <2>1. Finish(h)
    BY <1>6 DEF DeleteRequest
  <2> QED BY <1>1, <1>2, <1>4, <2>1, FinishMoves, IdleKnows, RequestStep
<1> QED BY <1>5, <1>6

LEMMA ReadConsentKeeps ==
  ASSUME Inv, NEW h \in Handlers, ReadConsent(h)
  PROVE  Inv'
<1> DEFINE pc == IF Consented(handler[h].user, handler[h].scope) THEN "mint" ELSE "grant"
<1>1. pc \in {"mint", "grant"} /\ pc \in Resting \cup Busy
  BY DEF Busy
<1>2. pc = "mint" => <<handler[h].user, handler[h].scope>> \in consents
  BY DEF Consented
<1>3. /\ Goto(h, pc) /\ made' = made /\ handler[h].pc = "consent"
      /\ UNCHANGED <<now, requests, consents, codes, tokens>>
  BY DEF ReadConsent, At
<1> HIDE DEF pc
<1> QED BY <1>1, <1>2, <1>3, MoveOn DEF Deciding, OnCode, OnToken

LEMMA GrantConflictsKeeps ==
  ASSUME Inv, NEW h \in Handlers, GrantConflicts(h)
  PROVE  Inv'
  BY MoveOn DEF GrantConflicts, At, Deciding, OnCode, OnToken, Resting

LEMMA GrantConsentKeeps ==
  ASSUME Inv, NEW h \in Handlers, GrantConsent(h)
  PROVE  Inv'
<1>1. /\ handler \in [Handlers -> Handler] /\ HandlerKnows(h) /\ handler[h] \in Handler
      /\ consents \subseteq Users \X Scopes
  BY DEF Inv, TypeOK, HandlersKnow
<1>2. /\ handler[h].pc = "grant" /\ Goto(h, "mint")
      /\ consents' = consents \cup {<<handler[h].user, handler[h].scope>>}
      /\ UNCHANGED <<now, requests, codes, tokens, made>>
  BY DEF GrantConsent, At
<1>3. handler[h].user \in Users /\ handler[h].scope \in Scopes
  BY <1>1, <1>2 DEF HandlerKnows, Deciding
<1>4. /\ handler' \in [Handlers -> Handler]
      /\ handler'[h] = [handler[h] EXCEPT !.pc = "mint"]
      /\ \A g \in Handlers : g # h => handler'[g] = handler[g]
  BY <1>1, <1>2, GotoMoves DEF Busy
<1>5. TypeOK'
  BY <1>1, <1>2, <1>3, <1>4 DEF Inv, TypeOK
<1>6. Kept
  BY <1>2, LenProperties DEF Kept, Inv, TypeOK
<1>7. HandlerKnows(h)'
  <2>1. /\ handler'[h].pc = "mint" /\ handler'[h].user = handler[h].user
        /\ handler'[h].scope = handler[h].scope
    BY <1>1, <1>4 DEF Handler
  <2> QED BY <1>2, <1>3, <2>1 DEF HandlerKnows, Deciding, OnCode, OnToken
<1>8. NoPairPastLifetime'
  BY <1>2 DEF Inv, NoPairPastLifetime
<1> QED BY <1>2, <1>4, <1>5, <1>6, <1>7, <1>8, StepKeeps

LEMMA MintCodeKeeps ==
  ASSUME Inv, NEW h \in Handlers, MintCode(h)
  PROVE  Inv'
<1> DEFINE row == [user |-> handler[h].user, scope |-> handler[h].scope,
                   until |-> now + CodeTTL, used |-> FALSE]
<1>1. /\ handler \in [Handlers -> Handler] /\ HandlerKnows(h) /\ now \in Nat
      /\ codes \in Seq(Code)
  BY DEF Inv, TypeOK, HandlersKnow
<1>2. /\ handler[h].pc = "mint" /\ Finish(h) /\ codes' = Append(codes, row)
      /\ UNCHANGED <<now, requests, consents, tokens, made>>
  BY DEF MintCode, At
<1>3. now + CodeTTL \in Nat
  BY <1>1, FlowAssumption DEF FlowAssumption
<1>4. /\ handler[h].user \in Users /\ handler[h].scope \in Scopes
      /\ <<handler[h].user, handler[h].scope>> \in consents
  BY <1>1, <1>2 DEF HandlerKnows, Deciding
<1>5. row \in Code /\ <<row.user, row.scope>> \in consents
  BY <1>3, <1>4 DEF Code
<1> HIDE DEF row
<1>6. /\ codes' \in Seq(Code)
      /\ Len(codes') = Len(codes) + 1 /\ Len(codes) \in Nat
      /\ codes'[Len(codes) + 1] = row
      /\ \A c \in 1..Len(codes) : codes'[c] = codes[c]
  BY <1>1, <1>2, <1>5, Appended
<1>7. /\ handler' \in [Handlers -> Handler] /\ handler'[h] = Idle
      /\ \A g \in Handlers : g # h => handler'[g] = handler[g]
  BY <1>1, <1>2, FinishMoves
<1>8. TypeOK'
  BY <1>2, <1>6, <1>7 DEF Inv, TypeOK
<1>9. Kept
  BY <1>2, <1>6, LenProperties DEF Kept, Inv, TypeOK
<1>10. HandlerKnows(h)'
  BY <1>7, IdleKnows
<1>11. HandlersKnow'
  BY <1>7, <1>8, <1>9, <1>10, StillKnows DEF Inv, HandlersKnow
<1>12. TokensHold'
  BY <1>2, <1>8, <1>9, StillHolds DEF Inv, TokensHold
<1>13. CodesAreConsented'
  <2>1. \A c \in 1..Len(codes') : c \in 1..Len(codes) \/ c = Len(codes) + 1
    BY <1>6
  <2> QED BY <1>2, <1>5, <1>6, <2>1 DEF Inv, CodesAreConsented
<1>14. NoPairPastLifetime'
  BY <1>2 DEF Inv, NoPairPastLifetime
<1> QED BY <1>8, <1>11, <1>12, <1>13, <1>14 DEF Inv

----------------------------------------------------------------------------
(* Codes for tokens, and rotation.                                         *)

LEMMA BurnCodeKeeps ==
  ASSUME Inv, NEW h \in Handlers, BurnCode(h)
  PROVE  Inv'
<1> DEFINE c == handler[h].row
<1>1. /\ handler \in [Handlers -> Handler] /\ HandlerKnows(h) /\ handler[h] \in Handler
      /\ codes \in Seq(Code)
  BY DEF Inv, TypeOK, HandlersKnow
<1>2. /\ handler[h].pc = "burn" /\ Goto(h, "verify")
      /\ codes' = [codes EXCEPT ![c] = Burned(c)]
      /\ UNCHANGED <<now, requests, consents, tokens, made>>
  BY DEF BurnCode, At
<1>3. c \in 1..Len(codes)
  BY <1>1, <1>2 DEF HandlerKnows, OnCode
<1>4. codes[c] \in Code
  BY <1>1, <1>3, RowType
<1>5. /\ Burned(c) \in Code /\ Burned(c).used = TRUE
      /\ Burned(c).user = codes[c].user /\ Burned(c).scope = codes[c].scope
  BY <1>4 DEF Code, Burned
<1> DEFINE new == [codes EXCEPT ![c] = Burned(c)]
<1>6. /\ new \in Seq(Code) /\ Len(new) = Len(codes) /\ new[c] = Burned(c)
      /\ \A d \in 1..Len(codes) : d # c => new[d] = codes[d]
  BY <1>1, <1>3, <1>5, Updated
<1>7. /\ codes' \in Seq(Code) /\ Len(codes') = Len(codes) /\ codes'[c] = Burned(c)
      /\ \A d \in 1..Len(codes) : d # c => codes'[d] = codes[d]
  <2>1. codes' = new
    BY <1>2
  <2> HIDE DEF new
  <2> QED BY <1>6, <2>1
<1> HIDE DEF new
<1>8. /\ handler' \in [Handlers -> Handler]
      /\ handler'[h] = [handler[h] EXCEPT !.pc = "verify"]
      /\ \A g \in Handlers : g # h => handler'[g] = handler[g]
  BY <1>1, <1>2, GotoMoves DEF Busy
<1>9. TypeOK'
  BY <1>2, <1>7, <1>8 DEF Inv, TypeOK
<1>10. Kept
  BY <1>2, <1>5, <1>7, LenProperties DEF Kept, Inv, TypeOK
<1>11. HandlerKnows(h)'
  <2>1. handler'[h].pc = "verify" /\ handler'[h].row = c
    BY <1>1, <1>8 DEF Handler
  <2> QED BY <1>3, <1>5, <1>7, <2>1 DEF HandlerKnows, Deciding, OnCode, OnToken
<1>12. NoPairPastLifetime'
  BY <1>2 DEF Inv, NoPairPastLifetime
<1> QED BY <1>2, <1>7, <1>8, <1>9, <1>10, <1>11, <1>12, StepKeeps

LEMMA VerifyFailsKeeps ==
  ASSUME Inv, NEW h \in Handlers, VerifyFails(h)
  PROVE  Inv'
  BY EndKeeps DEF VerifyFails, At

LEMMA IssueFamilyKeeps ==
  ASSUME Inv, NEW h \in Handlers, IssueFamily(h)
  PROVE  Inv'
<1> DEFINE c == handler[h].row
           row == NewToken(codes[c], Len(tokens) + 1, AccessTTL, RefreshTTL, c, 0, TRUE)
<1>1. /\ handler \in [Handlers -> Handler] /\ HandlerKnows(h) /\ now \in Nat
      /\ codes \in Seq(Code) /\ tokens \in Seq(Token)
  BY DEF Inv, TypeOK, HandlersKnow
<1>2. /\ handler[h].pc = "verify" /\ Finish(h) /\ tokens' = Append(tokens, row)
      /\ UNCHANGED <<now, requests, consents, codes, made>>
  BY DEF IssueFamily, At
<1>3. c \in 1..Len(codes) /\ codes[c].used
  BY <1>1, <1>2 DEF HandlerKnows, OnCode
<1>4. codes[c] \in Code
  BY <1>1, <1>3, RowType
<1>5. Len(tokens) \in Nat /\ Len(codes) \in Nat
  BY <1>1, LenProperties
<1>6. codes[c].user \in Users /\ codes[c].scope \in Scopes
  BY <1>4 DEF Code
<1>7. row \in Token
  <2>1. /\ now + AccessTTL \in Nat /\ now + RefreshTTL \in Nat
        /\ Len(tokens) + 1 \in Nat /\ c \in Nat
    BY <1>1, <1>3, <1>5, FlowAssumption DEF FlowAssumption
  <2> QED BY <1>1, <1>6, <2>1 DEF NewToken, Token
<1>8. /\ row.created = now /\ row.family = Len(tokens) + 1
      /\ row.accessUntil = now + AccessTTL /\ row.refreshUntil = now + RefreshTTL
      /\ row.code = c /\ row.parent = 0
      /\ row.user = codes[c].user /\ row.scope = codes[c].scope
  BY DEF NewToken
<1> HIDE DEF row
<1>9. row.created <= row.accessUntil /\ row.created <= row.refreshUntil
  BY <1>1, <1>8, FlowAssumption DEF FlowAssumption
<1>10. /\ row.family \in 1..(Len(tokens) + 1) /\ row.parent \in 0..Len(tokens)
  BY <1>5, <1>8
<1>11. /\ handler' \in [Handlers -> Handler] /\ handler'[h] = Idle
       /\ \A g \in Handlers : g # h => handler'[g] = handler[g]
  BY <1>1, <1>2, FinishMoves
<1>12. HandlerKnows(h)'
  BY <1>11, IdleKnows
<1> QED BY <1>2, <1>3, <1>7, <1>8, <1>9, <1>10, <1>11, <1>12, IssueToken

LEMMA RotateOutKeeps ==
  ASSUME Inv, NEW h \in Handlers, RotateOut(h)
  PROVE  Inv'
<1> DEFINE t == handler[h].row
<1>1. /\ handler \in [Handlers -> Handler] /\ HandlerKnows(h) /\ handler[h] \in Handler
  BY DEF Inv, TypeOK, HandlersKnow
<1>2. /\ handler[h].pc = "rotate" /\ Goto(h, "issue")
      /\ tokens' = [tokens EXCEPT ![t] = [tokens[t] EXCEPT !.revoked = TRUE]]
      /\ UNCHANGED <<now, requests, consents, codes, made>>
  BY DEF RotateOut, RotatedOut, At
<1>3. t \in 1..Len(tokens)
  BY <1>1, <1>2 DEF HandlerKnows, OnToken
<1>4. /\ tokens' \in Seq(Token) /\ Len(tokens') = Len(tokens)
      /\ tokens'[t].revoked /\ Kept /\ NoPairPastLifetime'
  BY <1>2, <1>3, RevokeToken
<1>5. /\ handler' \in [Handlers -> Handler]
      /\ handler'[h] = [handler[h] EXCEPT !.pc = "issue"]
      /\ \A g \in Handlers : g # h => handler'[g] = handler[g]
  BY <1>1, <1>2, GotoMoves DEF Busy
<1>6. TypeOK'
  BY <1>2, <1>4, <1>5 DEF Inv, TypeOK
<1>7. HandlerKnows(h)'
  <2>1. handler'[h].pc = "issue" /\ handler'[h].row = t
    BY <1>1, <1>5 DEF Handler
  <2>2. tokens'[t].handed
    BY <1>1, <1>2, <1>3, <1>4 DEF HandlerKnows, Kept
  <2> QED BY <1>3, <1>4, <2>1, <2>2 DEF HandlerKnows, Deciding, OnCode, OnToken
<1> QED BY <1>2, <1>4, <1>5, <1>6, <1>7, StepKeeps

LEMMA IssueNextKeeps ==
  ASSUME Inv, NEW h \in Handlers, IssueNext(h)
  PROVE  Inv'
<1> DEFINE t == handler[h].row
           old == tokens[t]
           row == NewToken(old, old.family, Duration(old.accessUntil, old),
                           Duration(old.refreshUntil, old), old.code, t, FALSE)
<1>1. /\ handler \in [Handlers -> Handler] /\ HandlerKnows(h) /\ handler[h] \in Handler
      /\ codes \in Seq(Code) /\ tokens \in Seq(Token) /\ now \in Nat
  BY DEF Inv, TypeOK, HandlersKnow
<1>2. /\ handler[h].pc = "issue" /\ tokens' = Append(tokens, row)
      /\ handler' = [handler EXCEPT ![h].pc = "lifetime", ![h].row = Len(tokens) + 1]
      /\ UNCHANGED <<now, requests, consents, codes, made>>
  BY DEF IssueNext, At
<1>3. t \in 1..Len(tokens) /\ old.revoked
  BY <1>1, <1>2 DEF HandlerKnows, OnToken
<1>4. old \in Token /\ TokenHolds(t)
  BY <1>1, <1>3, RowType DEF Inv, TokensHold
<1>5. Len(tokens) \in Nat /\ Len(codes) \in Nat
  BY <1>1, LenProperties
<1>6. /\ old.user \in Users /\ old.scope \in Scopes /\ old.family \in Nat
      /\ old.code \in Nat /\ old.created \in Nat /\ old.accessUntil \in Nat
      /\ old.refreshUntil \in Nat
  BY <1>4 DEF Token
<1>7. /\ old.created <= old.accessUntil /\ old.created <= old.refreshUntil
      /\ old.family \in 1..Len(tokens) /\ old.code \in 1..Len(codes)
      /\ codes[old.code].used
      /\ old.user = codes[old.code].user /\ old.scope = codes[old.code].scope
  BY <1>4 DEF TokenHolds
<1>8. /\ row.created = now /\ row.family = old.family
      /\ row.accessUntil = now + (old.accessUntil - old.created)
      /\ row.refreshUntil = now + (old.refreshUntil - old.created)
      /\ row.code = old.code /\ row.parent = t /\ row.handed = FALSE
      /\ row.user = old.user /\ row.scope = old.scope /\ row.revoked = FALSE
  BY DEF NewToken, Duration
<1>9. row \in Token
  <2>1. /\ now + (old.accessUntil - old.created) \in Nat
        /\ now + (old.refreshUntil - old.created) \in Nat /\ t \in Nat
    <3> HIDE DEF old, t
    <3> QED BY <1>1, <1>3, <1>6, <1>7
  <2> QED BY <1>1, <1>6, <2>1 DEF NewToken, Duration, Token
<1>10. row.created <= row.accessUntil /\ row.created <= row.refreshUntil
  <2> HIDE DEF row, old
  <2> QED BY <1>1, <1>6, <1>7, <1>8
<1>11. /\ row.family \in 1..(Len(tokens) + 1) /\ row.parent \in 0..Len(tokens)
  <2> HIDE DEF row, old, t
  <2> QED BY <1>3, <1>5, <1>7, <1>8
<1>12. /\ handler' \in [Handlers -> Handler]
       /\ handler'[h].pc = "lifetime" /\ handler'[h].row = Len(tokens) + 1
       /\ \A g \in Handlers : g # h => handler'[g] = handler[g]
  <2> DEFINE moved == [handler[h] EXCEPT !.pc = "lifetime", !.row = Len(tokens) + 1]
  <2>1. Len(tokens) + 1 \in Nat
    BY <1>5
  <2>2. moved \in Handler /\ moved.pc = "lifetime" /\ moved.row = Len(tokens) + 1
    BY <1>1, <2>1 DEF Handler, Busy
  <2>3. handler' = [handler EXCEPT ![h] = moved]
    BY <1>1, <1>2, Zenon
  <2> HIDE DEF moved
  <2> QED BY <1>1, <2>2, <2>3
<1> HIDE DEF row, old, t
<1>13. /\ Len(tokens') = Len(tokens) + 1
       /\ tokens'[Len(tokens) + 1] = row /\ tokens'[t] = old
  BY <1>1, <1>2, <1>3, <1>9, Appended DEF old
<1>14. HandlerKnows(h)'
  <2> DEFINE next == Len(tokens) + 1
  <2>1. /\ next \in 1..Len(tokens') /\ t \in 1..Len(tokens')
        /\ tokens'[t].family = tokens'[next].family /\ tokens'[t].revoked
    BY <1>3, <1>5, <1>8, <1>13
  <2>2. handler'[h].pc = "lifetime" /\ handler'[h].row = next
    BY <1>12
  <2> HIDE DEF next
  <2>3. Broken(handler[h].row)'
    BY <2>1, <2>2 DEF Broken
  <2> QED BY <2>1, <2>2, <2>3 DEF HandlerKnows, Deciding, OnCode, OnToken
<1>15. row.parent # 0 => tokens[row.parent].revoked
  BY <1>3, <1>8 DEF old
<1> QED BY <1>2, <1>7, <1>8, <1>9, <1>10, <1>11, <1>12, <1>14, <1>15, IssueToken

LEMMA OutliveFamilyKeeps ==
  ASSUME Inv, NEW h \in Handlers, OutliveFamily(h)
  PROVE  Inv'
  BY MoveOn DEF OutliveFamily, At, Deciding, OnCode, OnToken, Busy

LEMMA HandOutKeeps ==
  ASSUME Inv, NEW h \in Handlers, HandOut(h)
  PROVE  Inv'
<1> DEFINE t == handler[h].row
<1>1. /\ handler \in [Handlers -> Handler] /\ HandlerKnows(h) /\ handler[h] \in Handler
      /\ tokens \in Seq(Token) /\ now \in Nat
  BY DEF Inv, TypeOK, HandlersKnow
<1>2. /\ handler[h].pc = "lifetime" /\ Finish(h) /\ ~TooOld(t)
      /\ tokens' = [tokens EXCEPT ![t] = [tokens[t] EXCEPT !.handed = TRUE]]
      /\ UNCHANGED <<now, requests, consents, codes, made>>
  BY DEF HandOut, At
<1>3. t \in 1..Len(tokens)
  BY <1>1, <1>2 DEF HandlerKnows, OnToken
<1>4. \A i \in 1..Len(tokens) : tokens[i] \in Token /\ TokenHolds(i)
  BY <1>1, RowType DEF Inv, TokensHold
<1>5. tokens[t].revoked \in BOOLEAN
  BY <1>3, <1>4 DEF Token
<1>6. [tokens[t] EXCEPT !.handed = TRUE]
        = [tokens[t] EXCEPT !.revoked = tokens[t].revoked, !.handed = TRUE]
  BY <1>3, <1>4 DEF Token
<1>7. /\ tokens' \in Seq(Token) /\ Len(tokens') = Len(tokens)
      /\ \A i \in 1..Len(tokens) : i # t => tokens'[i] = tokens[i]
      /\ Kept
  <2>1. tokens' = [tokens EXCEPT ![t] = [tokens[t] EXCEPT !.revoked = tokens[t].revoked,
                                                         !.handed = TRUE]]
    BY <1>2, <1>6
  <2> QED BY <1>2, <1>3, <1>5, <2>1, MarkToken
<1>8. /\ handler' \in [Handlers -> Handler] /\ handler'[h] = Idle
      /\ \A g \in Handlers : g # h => handler'[g] = handler[g]
  BY <1>1, <1>2, FinishMoves
<1>9. TypeOK'
  BY <1>2, <1>7, <1>8 DEF Inv, TypeOK
<1>10. HandlerKnows(h)'
  BY <1>8, IdleKnows
<1>11. NoPairPastLifetime'
  <2> SUFFICES ASSUME NEW s \in 1..Len(tokens), NEW u \in 1..Len(tokens),
                      tokens'[u].handed, tokens'[s].family = tokens'[u].family
               PROVE  tokens'[u].created <= tokens'[s].created + FamilyTTL
    BY <1>7 DEF NoPairPastLifetime
  <2>1. /\ tokens'[s].family = tokens[s].family /\ tokens'[s].created = tokens[s].created
        /\ tokens'[u].family = tokens[u].family /\ tokens'[u].created = tokens[u].created
    BY <1>7 DEF Kept
  <2>2. CASE u = t
    <3>1. s \in Members(tokens[t].family)
      BY <2>1, <2>2 DEF Members
    <3>2. ~(now - tokens[s].created > FamilyTTL)
      BY <1>2, <3>1 DEF TooOld
    <3>3. /\ tokens[s].created \in Nat /\ tokens[u].created \in Nat
          /\ tokens[u].created <= now
      BY <1>4 DEF Token, TokenHolds
    <3> QED BY <1>1, <2>1, <3>2, <3>3, FlowAssumption DEF FlowAssumption
  <2>3. CASE u # t
    BY <1>7, <2>1, <2>3 DEF Inv, NoPairPastLifetime
  <2> QED BY <2>2, <2>3
<1> QED BY <1>2, <1>7, <1>8, <1>9, <1>10, <1>11, StepKeeps

----------------------------------------------------------------------------
(* Revocation of a family.                                                 *)

LEMMA ReadFamilyKeeps ==
  ASSUME Inv, NEW h \in Handlers, ReadFamily(h)
  PROVE  Inv'
<1> DEFINE t == handler[h].row
           live == LiveRows(tokens[t].family)
           moved == [handler[h] EXCEPT !.pc = "sweep", !.seen = Len(tokens), !.todo = live]
<1>1. /\ handler \in [Handlers -> Handler] /\ HandlerKnows(h) /\ handler[h] \in Handler
      /\ made \in Nat
  BY DEF Inv, TypeOK, HandlersKnow
<1>2. /\ handler[h].pc = "family" /\ made' = made
      /\ UNCHANGED <<now, requests, consents, codes, tokens>>
      /\ handler' = [handler EXCEPT ![h].pc = "sweep", ![h].seen = Len(tokens),
                                    ![h].todo = live]
  BY DEF ReadFamily, At
<1>3. t \in 1..Len(tokens)
  BY <1>1, <1>2 DEF HandlerKnows, OnToken
<1>4. Len(tokens) \in Nat
  BY LenProperties DEF Inv, TypeOK
<1>5. live \subseteq 1..Len(tokens) /\ live \in SUBSET Nat
  BY <1>4 DEF LiveRows, Members
<1>6. /\ \A i \in 1..Len(tokens) :
           tokens[i].family = tokens[t].family => tokens[i].revoked \/ i \in live
      /\ \A i \in live : tokens[i].family = tokens[t].family
      /\ Broken(t)
  BY <1>1, <1>2 DEF LiveRows, Members, HandlerKnows
<1>7. /\ moved \in Handler /\ moved.pc = "sweep" /\ moved.row = t
      /\ moved.seen = Len(tokens) /\ moved.todo = live
  <2> HIDE DEF live
  <2> QED BY <1>1, <1>4, <1>5 DEF Handler, Busy
<1>8. handler' = [handler EXCEPT ![h] = moved]
  BY <1>1, <1>2, Zenon
<1> HIDE DEF moved
<1>9. /\ handler' \in [Handlers -> Handler] /\ handler'[h] = moved
      /\ \A g \in Handlers : g # h => handler'[g] = handler[g]
  BY <1>1, <1>7, <1>8
<1> HIDE DEF live, t
<1>10. HandlerKnows(h)'
  <2>1. /\ handler'[h].pc = "sweep" /\ handler'[h].row = t
        /\ handler'[h].seen = Len(tokens) /\ handler'[h].todo = live
    BY <1>7, <1>9
  <2>2. tokens' = tokens
    BY <1>2
  <2>3. Broken(handler[h].row)'
    BY <1>6, <2>1, <2>2 DEF Broken
  <2>4. /\ t \in 1..Len(tokens') /\ Len(tokens') \in Nat /\ live \subseteq 1..Len(tokens')
        /\ \A i \in 1..Len(tokens') :
             tokens'[i].family = tokens'[t].family => tokens'[i].revoked \/ i \in live
        /\ \A i \in live : tokens'[i].family = tokens'[t].family
    BY <1>3, <1>4, <1>5, <1>6, <2>2
  <2>5. Len(tokens') <= Len(tokens') /\ Len(tokens') = Len(tokens)
    BY <2>2, <2>4
  <2> QED BY <2>1, <2>3, <2>4, <2>5 DEF HandlerKnows, Deciding, OnCode, OnToken
<1> QED BY <1>1, <1>2, <1>9, <1>10, QuietStep

LEMMA RevokeOneKeeps ==
  ASSUME Inv, NEW h \in Handlers, NEW i \in 1..Len(tokens), RevokeOne(h, i)
  PROVE  Inv'
<1> DEFINE w == handler[h]
           left == w.todo \ {i}
           moved == [w EXCEPT !.todo = left]
<1>1. /\ handler \in [Handlers -> Handler] /\ HandlerKnows(h) /\ w \in Handler
  BY DEF Inv, TypeOK, HandlersKnow
<1>2. /\ w.pc = "sweep" /\ made' = made
      /\ UNCHANGED <<now, requests, consents, codes>>
      /\ tokens' = [tokens EXCEPT ![i] = [tokens[i] EXCEPT !.revoked = TRUE]]
      /\ handler' = [handler EXCEPT ![h] = moved]
  BY DEF RevokeOne, At
<1>3. /\ w.row \in 1..Len(tokens) /\ w.seen <= Len(tokens)
      /\ w.todo \subseteq 1..Len(tokens)
      /\ \A j \in w.todo : tokens[j].family = tokens[w.row].family
      /\ \A j \in 1..w.seen :
           tokens[j].family = tokens[w.row].family => tokens[j].revoked \/ j \in w.todo
      /\ Broken(w.row)
  BY <1>1, <1>2 DEF HandlerKnows, OnToken
<1>4. Len(tokens) \in Nat /\ w.seen \in Nat /\ w.todo \in SUBSET Nat
  BY <1>1, LenProperties DEF Inv, TypeOK, Handler
<1>5. /\ moved \in Handler /\ moved.pc = "sweep" /\ moved.row = w.row
      /\ moved.seen = w.seen /\ moved.todo = left
  <2>1. left \in SUBSET Nat
    BY <1>4
  <2> HIDE DEF left
  <2> QED BY <1>1, <1>2, <2>1 DEF Handler
<1>6. /\ handler' \in [Handlers -> Handler] /\ handler'[h] = moved
      /\ \A g \in Handlers : g # h => handler'[g] = handler[g]
  <2> HIDE DEF moved
  <2> QED BY <1>1, <1>2, <1>5
<1>7. /\ tokens' \in Seq(Token) /\ Len(tokens') = Len(tokens)
      /\ tokens'[i].revoked /\ Kept /\ NoPairPastLifetime'
  BY <1>2, RevokeToken
<1>8. TypeOK'
  BY <1>2, <1>6, <1>7 DEF Inv, TypeOK
<1>9. \A j \in 1..w.seen :
        tokens'[j].family = tokens'[w.row].family => tokens'[j].revoked \/ j \in left
  <2>1. ASSUME NEW j \in 1..w.seen, tokens'[j].family = tokens'[w.row].family,
               j # i
        PROVE  tokens'[j].revoked \/ j \in left
    <3>1. j \in 1..Len(tokens)
      BY <1>3, <1>4
    <3> QED BY <1>3, <1>7, <2>1, <3>1 DEF Kept
  <2> QED BY <1>7, <2>1
<1>10. HandlerKnows(h)'
  <2>1. /\ left \subseteq 1..Len(tokens)
        /\ \A j \in left : tokens'[j].family = tokens'[w.row].family
    BY <1>3, <1>7 DEF Kept
  <2>2. PICK t \in 1..Len(tokens) : t = w.row /\ Broken(t)
    BY <1>3
  <2>3. Broken(t)'
    BY <1>7, <1>8, <2>2, StillBroken DEF Inv, TypeOK
  <2> HIDE DEF moved, left
  <2>4. Broken(handler[h].row)'
    BY <1>5, <1>6, <2>2, <2>3
  <2> QED BY <1>3, <1>5, <1>6, <1>7, <1>9, <2>1, <2>4
          DEF HandlerKnows, Deciding, OnCode, OnToken
<1> QED BY <1>2, <1>6, <1>7, <1>8, <1>10, StepKeeps

LEMMA SweepDoneKeeps ==
  ASSUME Inv, NEW h \in Handlers, SweepDone(h)
  PROVE  Inv'
  BY MoveOn DEF SweepDone, At, Deciding, OnCode, OnToken, Resting

----------------------------------------------------------------------------
(* The specification.                                                      *)

LEMMA ExpireRequestKeeps ==
  ASSUME Inv, NEW r \in 1..Len(requests), ExpireRequest(r)
  PROVE  Inv'
<1>1. /\ requests' \in Seq(ConsentRequest)
      /\ Len(requests') = Len(requests)
      /\ Len(requests) \in Nat
  BY RequestDeleted DEF ExpireRequest, Inv, TypeOK
<1>2. UNCHANGED <<now, consents, codes, tokens, handler, made>>
  BY DEF ExpireRequest
<1>3. TypeOK'
  BY <1>1, <1>2 DEF Inv, TypeOK
<1>4. Kept
  BY <1>1, <1>2, LenProperties DEF Kept, Inv, TypeOK
<1>5. HandlersKnow' /\ TokensHold'
  BY <1>2, <1>3, <1>4, StillKnows, StillHolds DEF Inv, HandlersKnow, TokensHold
<1> QED BY <1>2, <1>3, <1>5 DEF Inv, CodesAreConsented, NoPairPastLifetime

LEMMA TickKeeps ==
  ASSUME Inv, Tick
  PROVE  Inv'
<1>1. now \in Nat /\ now' = now + 1
  BY DEF Inv, TypeOK, Tick
<1>2. UNCHANGED <<requests, consents, codes, tokens, handler, made>>
  BY DEF Tick
<1>3. TypeOK'
  BY <1>1, <1>2 DEF Inv, TypeOK
<1>4. Kept
  BY <1>1, <1>2, LenProperties DEF Kept, Inv, TypeOK
<1>5. HandlersKnow' /\ TokensHold'
  BY <1>2, <1>3, <1>4, StillKnows, StillHolds DEF Inv, HandlersKnow, TokensHold
<1> QED BY <1>2, <1>3, <1>5 DEF Inv, CodesAreConsented, NoPairPastLifetime

LEMMA StepOfHandler ==
  ASSUME Inv, NEW h \in Handlers, Step(h)
  PROVE  Inv'
<1>1. ASSUME NEW i \in 1..Len(tokens), RevokeOne(h, i) PROVE Inv'
  BY <1>1, RevokeOneKeeps
<1> QED
  BY <1>1, ParkKeeps, DeleteRequestKeeps, ReadConsentKeeps, GrantConsentKeeps,
     GrantConflictsKeeps, MintCodeKeeps, BurnCodeKeeps, VerifyFailsKeeps,
     IssueFamilyKeeps, RotateOutKeeps, IssueNextKeeps, OutliveFamilyKeeps,
     HandOutKeeps, ReadFamilyKeeps, SweepDoneKeeps DEF Step

\* The invariant holds at first.
LEMMA InitHolds == Init => Inv
<1> SUFFICES ASSUME Init PROVE Inv
  OBVIOUS
<1>1. /\ Len(requests) = 0 /\ Len(codes) = 0 /\ Len(tokens) = 0
      /\ \A h \in Handlers : handler[h] = Idle
  BY DEF Init
<1>2. TypeOK
  BY DEF Init, TypeOK, Idle, Handler, Resting, Busy
<1>3. HandlersKnow
  BY <1>1 DEF HandlersKnow, HandlerKnows, Idle, Deciding, OnCode, OnToken
<1>4. TokensHold /\ CodesAreConsented /\ NoPairPastLifetime
  BY <1>1 DEF TokensHold, CodesAreConsented, NoPairPastLifetime
<1> QED BY <1>2, <1>3, <1>4 DEF Inv

\* Every step keeps it.
LEMMA NextKeeps == Inv /\ [Next]_vars => Inv'
<1> SUFFICES ASSUME Inv, [Next]_vars PROVE Inv'
  OBVIOUS
<1>1. ASSUME NEW h \in Handlers, Arrive(h) PROVE Inv'
  BY <1>1, ArriveKeeps
<1>2. ASSUME NEW h \in Handlers, Step(h) PROVE Inv'
  BY <1>2, StepOfHandler
<1>3. ASSUME NEW h \in Handlers, Drop(h) PROVE Inv'
  BY <1>3, EndKeeps DEF Drop
<1>4. ASSUME NEW r \in 1..Len(requests), ExpireRequest(r) PROVE Inv'
  BY <1>4, ExpireRequestKeeps
<1>5. CASE Tick
  BY <1>5, TickKeeps
<1>6. CASE UNCHANGED vars
  BY <1>6 DEF vars, Inv, TypeOK, HandlersKnow, HandlerKnows, Broken, TokensHold,
              TokenHolds, CodesAreConsented, NoPairPastLifetime
<1>7. CASE Rest
  BY <1>6, <1>7 DEF Rest
<1> QED BY <1>1, <1>2, <1>3, <1>4, <1>5, <1>6, <1>7 DEF Next

LEMMA InvHolds == Spec => []Inv
  BY InitHolds, NextKeeps, PTL DEF Spec

\* What the invariant says of families, rotation and sweeps.
LEMMA InvSays ==
  ASSUME Inv
  PROVE  FamiliesSpendTheirCode /\ RotatedIsRevoked /\ SweepIsComplete
<1>1. FamiliesSpendTheirCode
  BY DEF Inv, TokensHold, TokenHolds, FamiliesSpendTheirCode
<1>2. RotatedIsRevoked
  BY DEF Inv, TokensHold, TokenHolds, RotatedIsRevoked
<1>3. SweepIsComplete
  BY DEF Inv, HandlersKnow, HandlerKnows, OnToken, SweepIsComplete
<1> QED BY <1>1, <1>2, <1>3

(* The rows and the handlers' knowledge of them stay in their types: no    *)
(* handler follows a row that is not there (store/oauth*.rs).              *)
THEOREM FlowTypes == Spec => []TypeOK
<1>1. Inv => TypeOK
  BY DEF Inv
<1> QED BY <1>1, InvHolds, PTL

(* Every code stands on a consent of its user for its scope, whoever else  *)
(* is deciding (authorize, post_consent, grant_consent).                   *)
THEOREM CodesConsented == Spec => []CodesAreConsented
<1>1. Inv => CodesAreConsented
  BY DEF Inv
<1> QED BY <1>1, InvHolds, PTL

(* A token's whole line goes back to one spent code, with that code's user *)
(* and scope (exchange_code, issue_in_family).                             *)
THEOREM FamiliesSpend == Spec => []FamiliesSpendTheirCode
  BY InvSays, InvHolds, PTL

(* A refresh token that was traded is revoked, for any number of           *)
(* rotations, reuses and dropped calls (rotate_refresh_token).             *)
THEOREM RotationRevokes == Spec => []RotatedIsRevoked
  BY InvSays, InvHolds, PTL

(* No pair is handed out past the family's absolute lifetime, for any      *)
(* lifetimes of code, pair and family (refresh::grant).                    *)
THEOREM LifetimeHolds == Spec => []NoPairPastLifetime
<1>1. Inv => NoPairPastLifetime
  BY DEF Inv
<1> QED BY <1>1, InvHolds, PTL

(* An answered revocation left none of the rows it read alive, whatever    *)
(* ran beside it (revoke_family).                                          *)
THEOREM SweepCompletes == Spec => []SweepIsComplete
  BY InvSays, InvHolds, PTL

----------------------------------------------------------------------------
(* The grants: every statement is a step of GrantLedger, or none.          *)

\* What a step may do to the rows.
Granted == [Ledger!Next]_(Ledger!grants)

\* A step that leaves the rows alone is none of the ledger's.
LEMMA QuietGrants ==
  ASSUME UNCHANGED <<now, consents, codes, tokens>>
  PROVE  Granted
  BY DEF Granted, Ledger!grants

\* A consent is recorded: the user had none, of any scope.
LEMMA ApproveGrants ==
  ASSUME Inv, NEW h \in Handlers, GrantConsent(h)
  PROVE  Granted
<1> DEFINE u == handler[h].user
           s == handler[h].scope
<1>1. HandlerKnows(h) /\ handler[h].pc = "grant" /\ consents \subseteq Users \X Scopes
  BY DEF Inv, TypeOK, HandlersKnow, GrantConsent, At
<1>2. u \in Users /\ s \in Scopes
  BY <1>1 DEF HandlerKnows, Deciding
<1>3. \A approved \in consents : approved[1] # u
  <2> SUFFICES ASSUME NEW approved \in consents, approved[1] = u PROVE FALSE
    OBVIOUS
  <2>1. PICK v \in Users, w \in Scopes : approved = <<v, w>>
    BY <1>1
  <2>2. <<u, w>> \in consents
    BY <2>1
  <2> QED BY <2>1, <2>2 DEF GrantConsent, Taken
<1>4. Ledger!Approve(u, s)
  BY <1>3 DEF GrantConsent, Ledger!Approve
<1> HIDE DEF u, s
<1> QED BY <1>2, <1>4 DEF Granted, Ledger!Next

\* A code is minted for an approved pair.
LEMMA MintGrants ==
  ASSUME Inv, NEW h \in Handlers, MintCode(h)
  PROVE  Granted
<1> DEFINE approved == <<handler[h].user, handler[h].scope>>
<1>1. HandlerKnows(h) /\ handler[h].pc = "mint"
  BY DEF Inv, HandlersKnow, MintCode, At
<1>2. approved \in consents
  BY <1>1 DEF HandlerKnows
<1>3. Ledger!Mint(approved)
  BY DEF MintCode, Ledger!Mint
<1> HIDE DEF approved
<1> QED BY <1>2, <1>3 DEF Granted, Ledger!Next

\* A code is spent.
LEMMA SpendGrants ==
  ASSUME Inv, NEW h \in Handlers, BurnCode(h)
  PROVE  Granted
<1> DEFINE c == handler[h].row
<1>1. HandlerKnows(h) /\ handler[h].pc = "burn"
  BY DEF Inv, HandlersKnow, BurnCode, At
<1>2. c \in 1..Len(codes)
  BY <1>1 DEF HandlerKnows, OnCode
<1>3. Ledger!Spend(c)
  BY DEF BurnCode, Burned, Ledger!Spend
<1> HIDE DEF c
<1> QED BY <1>2, <1>3 DEF Granted, Ledger!Next

\* A family begins on a code that its handler spent.
LEMMA BeginGrants ==
  ASSUME Inv, NEW h \in Handlers, IssueFamily(h)
  PROVE  Granted
<1> DEFINE c == handler[h].row
<1>1. HandlerKnows(h) /\ handler[h].pc = "verify"
  BY DEF Inv, HandlersKnow, IssueFamily, At
<1>2. c \in 1..Len(codes) /\ codes[c].used
  BY <1>1 DEF HandlerKnows, OnCode
<1>3. Ledger!Begin(c)
  BY <1>2 DEF IssueFamily, NewToken, Ledger!Begin, Ledger!Pair
<1> HIDE DEF c
<1> QED BY <1>2, <1>3 DEF Granted, Ledger!Next

\* The presented token goes: its client held it.
LEMMA RotateGrants ==
  ASSUME Inv, NEW h \in Handlers, RotateOut(h)
  PROVE  Granted
<1> DEFINE t == handler[h].row
<1>1. HandlerKnows(h) /\ handler[h].pc = "rotate"
  BY DEF Inv, HandlersKnow, RotateOut, At
<1>2. t \in 1..Len(tokens) /\ tokens[t].handed
  BY <1>1 DEF HandlerKnows, OnToken
<1>3. Ledger!Revoke(t)
  BY <1>2 DEF RotateOut, RotatedOut, Ledger!Revoke
<1> HIDE DEF t
<1> QED BY <1>2, <1>3 DEF Granted, Ledger!Next

\* The next pair follows the one its handler revoked.
LEMMA ReplaceGrants ==
  ASSUME Inv, NEW h \in Handlers, IssueNext(h)
  PROVE  Granted
<1> DEFINE t == handler[h].row
<1>1. HandlerKnows(h) /\ handler[h].pc = "issue"
  BY DEF Inv, HandlersKnow, IssueNext, At
<1>2. t \in 1..Len(tokens) /\ tokens[t].handed /\ tokens[t].revoked
  BY <1>1 DEF HandlerKnows, OnToken
<1>3. Ledger!Replace(t)
  BY <1>2 DEF IssueNext, NewToken, Duration, Ledger!Replace, Ledger!Pair
<1> HIDE DEF t
<1> QED BY <1>2, <1>3 DEF Granted, Ledger!Next

\* A pair is handed out within its family's lifetime.
LEMMA HandGrants ==
  ASSUME Inv, NEW h \in Handlers, HandOut(h)
  PROVE  Granted
<1> DEFINE t == handler[h].row
<1>1. HandlerKnows(h) /\ handler[h].pc = "lifetime"
  BY DEF Inv, HandlersKnow, HandOut, At
<1>2. t \in 1..Len(tokens)
  BY <1>1 DEF HandlerKnows, OnToken
<1>3. \A i \in Ledger!Siblings(t) : now <= tokens[i].created + FamilyTTL
  <2> SUFFICES ASSUME NEW i \in 1..Len(tokens), tokens[i].family = tokens[t].family
               PROVE  now <= tokens[i].created + FamilyTTL
    BY DEF Ledger!Siblings
  <2>1. ~(now - tokens[i].created > FamilyTTL)
    BY DEF HandOut, TooOld, Members
  <2>2. tokens[i] \in Token /\ now \in Nat
    BY RowType DEF Inv, TypeOK
  <2>3. tokens[i].created \in Nat
    BY <2>2 DEF Token
  <2> QED BY <2>1, <2>2, <2>3, FlowAssumption DEF FlowAssumption
<1>4. Ledger!Hand(t)
  BY <1>3 DEF HandOut, Ledger!Hand
<1> HIDE DEF t
<1> QED BY <1>2, <1>4 DEF Granted, Ledger!Next

\* A sweep revokes the rows of a family that is broken already.
LEMMA SweepGrants ==
  ASSUME Inv, NEW h \in Handlers, NEW i \in 1..Len(tokens), RevokeOne(h, i)
  PROVE  Granted
<1>1. HandlerKnows(h) /\ handler[h].pc = "sweep" /\ i \in handler[h].todo
  BY DEF Inv, HandlersKnow, RevokeOne, At
<1>2. /\ Broken(handler[h].row)
      /\ tokens[i].family = tokens[handler[h].row].family
  BY <1>1 DEF HandlerKnows
<1>3. \E j \in Ledger!Siblings(i) : tokens[j].revoked
  BY <1>2 DEF Broken, Ledger!Siblings
<1>4. Ledger!Revoke(i)
  BY <1>3 DEF RevokeOne, Ledger!Revoke
<1> QED BY <1>4 DEF Granted, Ledger!Next

\* The first state is the ledger's.
LEMMA InitGrants == Init => Ledger!Init
  BY DEF Init, Ledger!Init

\* Every step keeps the ledger.
LEMMA NextGrants == Inv /\ [Next]_vars => Granted
<1> SUFFICES ASSUME Inv, [Next]_vars PROVE Granted
  OBVIOUS
<1>1. ASSUME NEW h \in Handlers, Arrive(h) PROVE Granted
  BY <1>1, QuietGrants DEF Arrive, Authorize, Decide, ReadCode, Present
<1>2. ASSUME NEW h \in Handlers, Step(h) PROVE Granted
  <2>1. ASSUME NEW i \in 1..Len(tokens), RevokeOne(h, i) PROVE Granted
    BY <2>1, SweepGrants
  <2>2. CASE Park(h) \/ DeleteRequest(h) \/ ReadConsent(h) \/ GrantConflicts(h)
    BY <2>2, QuietGrants DEF Park, DeleteRequest, ReadConsent, GrantConflicts
  <2>3. CASE VerifyFails(h) \/ OutliveFamily(h) \/ ReadFamily(h) \/ SweepDone(h)
    BY <2>3, QuietGrants DEF VerifyFails, OutliveFamily, ReadFamily, SweepDone
  <2> QED
    BY <1>2, <2>1, <2>2, <2>3, ApproveGrants, MintGrants, SpendGrants, BeginGrants,
       RotateGrants, ReplaceGrants, HandGrants DEF Step
<1>3. ASSUME NEW h \in Handlers, Drop(h) PROVE Granted
  BY <1>3, QuietGrants DEF Drop
<1>4. ASSUME NEW r \in 1..Len(requests), ExpireRequest(r) PROVE Granted
  BY <1>4, QuietGrants DEF ExpireRequest
<1>5. CASE Tick
  BY <1>5 DEF Tick, Granted, Ledger!Next, Ledger!Elapse
<1>6. CASE Rest \/ UNCHANGED vars
  BY <1>6, QuietGrants DEF Rest, vars
<1> QED BY <1>1, <1>2, <1>3, <1>4, <1>5, <1>6 DEF Next

(* The server keeps what GrantLedger promises of its rows, for any number  *)
(* of calls, interleaved and dropped anywhere: a revocation hits only a    *)
(* token that was traded or a family that was broken, and no pair comes    *)
(* from anything but a spent code or a revoked pair (store/oauth*.rs).     *)
THEOREM GrantsKept == Spec => KeepsGrants
<1>1. Inv /\ [Next]_vars => [Ledger!Next]_(Ledger!grants)
  BY NextGrants DEF Granted
<1> QED BY <1>1, InitGrants, InvHolds, PTL DEF Spec, KeepsGrants, Ledger!Spec

=============================================================================
