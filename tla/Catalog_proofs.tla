--------------------------- MODULE Catalog_proofs ---------------------------
(***************************************************************************)
(* What the writes of the stores keep: every table its types and           *)
(* references, and a pack that validates its validity.  Definitions_proofs *)
(* takes both from here, one write at a time.  And, first, what parsing    *)
(* and printing a tag expression keep: PrintedTextsParseBack.              *)
(***************************************************************************)
EXTENDS Catalog, Sums_proofs, SequenceTheorems, TLAPS

-----------------------------------------------------------------------------
\* Tag expressions.  Joined and ParseFrom are recursive functions, each a CHOOSE: some
\* function must be shown to satisfy the recursion, which is built place by place
\* (JoinExists) and rank by rank (ParseExists).

\* The operands joined so far, by the set of the places they come from.
IsJoin(g, op, es) ==
  g = [s \in SUBSET DOMAIN Tail(es) |->
         IF s = {} THEN Head(es) ELSE Join(op, g[s \ {Max(s)}], Tail(es)[Max(s)])]

\* Joined is the value of such a function at all places.
LEMMA JoinedUnfolds ==
  ASSUME NEW op, NEW es
  PROVE  Joined(op, es) = (CHOOSE g : IsJoin(g, op, es))[DOMAIN Tail(es)]
BY DEF Joined, FoldLeft, MapThenFoldSet, IsJoin

\* A set of places, not empty, has a last one.
LEMMA LastPlace ==
  ASSUME NEW n \in Nat, NEW s \in SUBSET (1 .. n), s # {}
  PROVE  /\ Max(s) \in s
         /\ \A x \in s : x <= Max(s)
<1> DEFINE T == {m \in Nat : n - m \in s}
<1>1. T # {}
  <2>1. PICK x \in s : TRUE
    OBVIOUS
  <2>2. n - x \in Nat /\ n - (n - x) = x
    BY <2>1
  <2> QED
    BY <2>1, <2>2
<1>2. PICK m \in T : \A k \in T : m <= k
  BY <1>1, LeastNat
<1>3. ASSUME NEW x \in s PROVE n - m >= x
  <2>1. n - x \in Nat /\ n - (n - x) = x
    OBVIOUS
  <2>2. m <= n - x
    BY <1>2, <2>1
  <2> QED
    BY <1>2, <2>2
<1>4. \E x \in s : \A y \in s : x >= y
  BY <1>2, <1>3
<1>5. /\ Max(s) \in s
      /\ \A y \in s : Max(s) >= y
  BY <1>4 DEF Max
<1> QED
  BY <1>5

\* The operands of the first n places joined.
JoinStep(g, op, es, n) ==
  [s \in SUBSET DOMAIN Tail(es) |->
     IF s = {} \/ ~(s \subseteq 1 .. n) THEN Head(es)
     ELSE Join(op, g[s \ {Max(s)}], Tail(es)[Max(s)])]

\* One place more.
LEMMA JoinExtends ==
  ASSUME NEW op, NEW es, DOMAIN Tail(es) \subseteq Nat \ {0}, NEW n \in Nat,
         NEW g, g = JoinStep(g, op, es, n)
  PROVE  \E h : h = JoinStep(h, op, es, n + 1)
<1> DEFINE h == JoinStep(g, op, es, n + 1)
<1>1. ASSUME NEW s \in SUBSET DOMAIN Tail(es), s \subseteq 1 .. n PROVE h[s] = g[s]
  <2>1. s \subseteq 1 .. n + 1
    BY <1>1
  <2> QED
    BY <1>1, <2>1 DEF JoinStep
<1>2. ASSUME NEW s \in SUBSET DOMAIN Tail(es), s # {}, s \subseteq 1 .. n + 1
      PROVE  h[s \ {Max(s)}] = g[s \ {Max(s)}]
  <2> HIDE DEF h
  <2>1. n + 1 \in Nat /\ s \in SUBSET (1 .. n + 1)
    BY <1>2
  <2>2. Max(s) \in s /\ \A x \in s : x <= Max(s)
    BY <1>2, <2>1, LastPlace
  <2>3. ASSUME NEW x \in s \ {Max(s)} PROVE x \in 1 .. n
    <3>1. x \in 1 .. n + 1 /\ Max(s) \in 1 .. n + 1 /\ x <= Max(s) /\ x # Max(s)
      BY <2>1, <2>2
    <3> QED
      BY <3>1
  <2> QED
    BY <2>3, <1>1
<1>3. h = JoinStep(h, op, es, n + 1)
  <2> HIDE DEF h
  <2>1. ASSUME NEW s \in SUBSET DOMAIN Tail(es)
        PROVE  (IF s = {} \/ ~(s \subseteq 1 .. n + 1) THEN Head(es)
                ELSE Join(op, g[s \ {Max(s)}], Tail(es)[Max(s)]))
               = IF s = {} \/ ~(s \subseteq 1 .. n + 1) THEN Head(es)
                 ELSE Join(op, h[s \ {Max(s)}], Tail(es)[Max(s)])
    BY <1>2
  <2>2. JoinStep(g, op, es, n + 1) = JoinStep(h, op, es, n + 1)
    BY <2>1 DEF JoinStep
  <2> QED
    BY <2>2 DEF h
<1> QED
  BY <1>3

\* So the recursion has a solution.
LEMMA JoinExists ==
  ASSUME NEW op, NEW es, Len(Tail(es)) \in Nat, DOMAIN Tail(es) = 1 .. Len(Tail(es))
  PROVE  \E g : IsJoin(g, op, es)
<1> DEFINE T == {n \in Nat : ~\E g : g = JoinStep(g, op, es, n)}
<1>1. T = {}
  <2> SUFFICES ASSUME T # {} PROVE FALSE
    OBVIOUS
  <2>1. PICK m \in T : \A k \in T : m <= k
    BY LeastNat
  <2>2. m # 0
    <3> DEFINE g == [s \in SUBSET DOMAIN Tail(es) |-> Head(es)]
    <3>1. ASSUME NEW s \in SUBSET DOMAIN Tail(es) PROVE s = {} \/ ~(s \subseteq 1 .. 0)
      OBVIOUS
    <3>2. JoinStep(g, op, es, 0) = g
      BY <3>1 DEF JoinStep
    <3> QED
      BY <3>2
  <2>3. m - 1 \in Nat /\ m - 1 \notin T
    BY <2>1, <2>2
  <2>4. PICK g : g = JoinStep(g, op, es, m - 1)
    BY <2>3
  <2>5. \E h : h = JoinStep(h, op, es, (m - 1) + 1)
    BY <2>3, <2>4, JoinExtends
  <2> QED
    BY <2>5
<1>2. PICK g : g = JoinStep(g, op, es, Len(Tail(es)))
  BY <1>1
<1>3. JoinStep(g, op, es, Len(Tail(es))) =
        [s \in SUBSET DOMAIN Tail(es) |->
           IF s = {} THEN Head(es) ELSE Join(op, g[s \ {Max(s)}], Tail(es)[Max(s)])]
  BY DEF JoinStep
<1> QED
  BY <1>2, <1>3 DEF IsJoin

\* How the operands are joined: the head first, then one after another.
LEMMA JoinedStepwise ==
  ASSUME NEW op, NEW es, Len(Tail(es)) \in Nat, DOMAIN Tail(es) = 1 .. Len(Tail(es))
  PROVE  \E g : /\ Joined(op, es) = g[1 .. Len(Tail(es))]
               /\ g[1 .. 0] = Head(es)
               /\ \A k \in 1 .. Len(Tail(es)) :
                    g[1 .. k] = Join(op, g[1 .. k - 1], Tail(es)[k])
<1> DEFINE g == CHOOSE g : IsJoin(g, op, es)
<1>1. Joined(op, es) = g[1 .. Len(Tail(es))]
  BY JoinedUnfolds
<1>2. IsJoin(g, op, es)
  BY JoinExists
<1> HIDE DEF g
<1>3. ASSUME NEW s \in SUBSET DOMAIN Tail(es)
      PROVE  g[s] = IF s = {} THEN Head(es) ELSE Join(op, g[s \ {Max(s)}], Tail(es)[Max(s)])
  BY <1>2 DEF IsJoin
<1>4. g[1 .. 0] = Head(es)
  <2>1. 1 .. 0 = {}
    OBVIOUS
  <2> QED
    BY <1>3, <2>1
<1>5. ASSUME NEW k \in 1 .. Len(Tail(es))
      PROVE  g[1 .. k] = Join(op, g[1 .. k - 1], Tail(es)[k])
  <2>1. 1 .. k \in SUBSET DOMAIN Tail(es) /\ k \in 1 .. k /\ k \in Nat
    OBVIOUS
  <2>2. Max(1 .. k) \in 1 .. k /\ \A x \in 1 .. k : x <= Max(1 .. k)
    BY <2>1, LastPlace
  <2>3. Max(1 .. k) = k
    BY <2>1, <2>2
  <2>4. (1 .. k) \ {k} = 1 .. k - 1
    OBVIOUS
  <2> QED
    BY <1>3, <2>1, <2>3, <2>4
<1> QED
  BY <1>1, <1>4, <1>5

\* One operand is itself.
LEMMA JoinedOne ==
  ASSUME NEW op, NEW e
  PROVE  Joined(op, <<e>>) = e
<1>1. /\ Head(<<e>>) = e /\ Len(Tail(<<e>>)) = 0
      /\ DOMAIN Tail(<<e>>) = 1 .. Len(Tail(<<e>>))
  OBVIOUS
<1>2. PICK g : Joined(op, <<e>>) = g[1 .. 0] /\ g[1 .. 0] = e
  BY <1>1, JoinedStepwise
<1> QED
  BY <1>2

\* Two operands are joined once.
LEMMA JoinedTwo ==
  ASSUME NEW op, NEW e, NEW f
  PROVE  Joined(op, <<e, f>>) = Join(op, e, f)
<1> DEFINE es == <<e, f>>
<1>1. /\ Head(es) = e /\ Tail(es)[1] = f /\ Len(Tail(es)) = 1
      /\ Len(Tail(es)) \in Nat /\ DOMAIN Tail(es) = 1 .. Len(Tail(es))
  OBVIOUS
<1> HIDE DEF es
<1>2. PICK g : /\ Joined(op, es) = g[1 .. Len(Tail(es))]
               /\ g[1 .. 0] = Head(es)
               /\ \A k \in 1 .. Len(Tail(es)) :
                    g[1 .. k] = Join(op, g[1 .. k - 1], Tail(es)[k])
  BY <1>1, JoinedStepwise
<1>3. 1 \in 1 .. 1 /\ 1 - 1 = 0
  OBVIOUS
<1>4. g[1 .. 1] = Join(op, g[1 .. 0], Tail(es)[1])
  BY <1>1, <1>2, <1>3
<1> QED
  BY <1>1, <1>2, <1>4 DEF es

\* What can be built from a set of expressions stays in it.
Closed(S) ==
  /\ \A t \in Tags : Has(t) \in S
  /\ \A e \in S : Not(e) \in S
  /\ \A e, f \in S : And(e, f) \in S /\ Or(e, f) \in S

\* What operands of a closed set are joined to is in the set.
LEMMA JoinedIn ==
  ASSUME NEW S, Closed(S), NEW op, NEW es \in Seq(S), es # <<>>
  PROVE  Joined(op, es) \in S
<1>1. /\ Head(es) \in S /\ Tail(es) \in Seq(S)
      /\ Len(Tail(es)) \in Nat /\ DOMAIN Tail(es) = 1 .. Len(Tail(es))
  OBVIOUS
<1>3. PICK g : /\ Joined(op, es) = g[1 .. Len(Tail(es))]
               /\ g[1 .. 0] = Head(es)
               /\ \A k \in 1 .. Len(Tail(es)) :
                    g[1 .. k] = Join(op, g[1 .. k - 1], Tail(es)[k])
  BY <1>1, JoinedStepwise
<1> DEFINE T == {k \in Nat : k <= Len(Tail(es)) /\ g[1 .. k] \notin S}
<1>4. T = {}
  <2> SUFFICES ASSUME T # {} PROVE FALSE
    OBVIOUS
  <2>1. PICK m \in T : \A k \in T : m <= k
    BY LeastNat
  <2>2. m # 0
    BY <1>1, <1>3, <2>1
  <2>3. m - 1 \in Nat /\ m - 1 \notin T /\ m - 1 <= Len(Tail(es)) /\ m \in 1 .. Len(Tail(es))
    BY <1>1, <2>1, <2>2
  <2>4. g[1 .. m - 1] \in S /\ Tail(es)[m] \in S
    BY <1>1, <2>3
  <2>5. Join(op, g[1 .. m - 1], Tail(es)[m]) \in S
    BY <2>4 DEF Closed, Join
  <2> QED
    BY <1>3, <2>1, <2>3, <2>5
<1>5. g[1 .. Len(Tail(es))] \in S
  BY <1>1, <1>4
<1> QED
  BY <1>3, <1>5

Tokens == Tags \cup Keywords
Places(text) == Levels \X (1 .. Len(text) + 1)

\* p reads the text as the definition says, wherever it reads anything.
IsParse(p, text) ==
  p = [place \in Places(text) |-> ReadAt(text, p, place[1], place[2])]

\* ParseFrom is what such a function reads from the beginning.
LEMMA ParseUnfolds ==
  ASSUME NEW text
  PROVE  ParseFrom(text) = (CHOOSE p : IsParse(p, text))[<<"or", 1>>]
BY DEF ParseFrom, IsParse, Places

\* What may be read from a place: nothing, or operands from S up to a later place.
Good(S, text, i, r) ==
  \/ r = Malformed
  \/ /\ r \in [found : Seq(S), next : Nat] /\ r.found # <<>>
     /\ i < r.next /\ r.next <= Len(text) + 1

\* A token other than the end is at a place of the text.
LEMMA TokenPlace ==
  ASSUME NEW text \in Seq(Tokens), NEW i \in Nat, Token(text, i) # "end"
  PROVE  i \in 1 .. Len(text) /\ text[i] = Token(text, i)
BY DEF Token

\* One operand read is good.
LEMMA OneGood ==
  ASSUME NEW S, NEW text, NEW i, NEW e \in S, NEW n \in Nat, i < n, n <= Len(text) + 1
  PROVE  Good(S, text, i, One(e, n))
BY DEF Good, One

\* Each level reads what its calls have read, and what it makes of it is good.
LEMMA OperandsLocal ==
  ASSUME NEW S, Closed(S), NEW text \in Seq(Tokens), NEW i \in 1 .. Len(text) + 1,
         NEW level \in {"or", "and"}, NEW inner, NEW p, NEW h,
         Good(S, text, i, p[<<inner, i>>]), h[<<inner, i>>] = p[<<inner, i>>],
         \A j \in 1 .. Len(text) + 1 : j > i =>
            Good(S, text, j, p[<<level, j>>]) /\ h[<<level, j>>] = p[<<level, j>>]
  PROVE  /\ ReadOperands(text, h, level, inner, i) = ReadOperands(text, p, level, inner, i)
         /\ Good(S, text, i, ReadOperands(text, p, level, inner, i))
<1> DEFINE first == p[<<inner, i>>]
           rest == p[<<level, first.next + 1>>]
           operand == Joined(inner, first.found)
<1>1. CASE first.found = <<>>
  BY <1>1 DEF ReadOperands, Good
<1>2. CASE first.found # <<>>
  <2>1. /\ first.found \in Seq(S) /\ first.next \in Nat
        /\ i < first.next /\ first.next <= Len(text) + 1
    BY <1>2 DEF Good, Malformed
  <2>2. operand \in S
    BY <1>2, <2>1, JoinedIn
  <2>3. CASE Token(text, first.next) # level
    <3>1. /\ ReadOperands(text, h, level, inner, i) = One(operand, first.next)
          /\ ReadOperands(text, p, level, inner, i) = One(operand, first.next)
      BY <1>2, <2>3 DEF ReadOperands
    <3> QED
      BY <2>1, <2>2, <3>1, OneGood
  <2>4. CASE Token(text, first.next) = level
    <3>1. first.next \in 1 .. Len(text)
      BY <2>1, <2>4, TokenPlace
    <3>2. first.next + 1 \in 1 .. Len(text) + 1 /\ first.next + 1 > i
      BY <2>1, <3>1
    <3>3. /\ Good(S, text, first.next + 1, rest)
          /\ h[<<level, first.next + 1>>] = rest
      BY <3>2
    <3>4. CASE rest.found = <<>>
      BY <1>2, <2>4, <3>3, <3>4 DEF ReadOperands, Good
    <3>5. CASE rest.found # <<>>
      <4>1. /\ rest.found \in Seq(S) /\ rest.next \in Nat
            /\ first.next + 1 < rest.next /\ rest.next <= Len(text) + 1
        BY <3>3, <3>5 DEF Good, Malformed
      <4> DEFINE r == [found |-> <<operand>> \o rest.found, next |-> rest.next]
      <4>2. /\ ReadOperands(text, h, level, inner, i) = r
            /\ ReadOperands(text, p, level, inner, i) = r
        BY <1>2, <2>4, <3>3, <3>5 DEF ReadOperands
      <4> HIDE DEF first, rest, operand
      <4>3. <<operand>> \o rest.found \in Seq(S) /\ <<operand>> \o rest.found # <<>>
        BY <2>2, <4>1
      <4>4. i < rest.next
        BY <2>1, <4>1
      <4>5. Good(S, text, i, r)
        BY <4>1, <4>3, <4>4 DEF Good
      <4> QED
        BY <4>2, <4>5
    <3> QED
      BY <3>4, <3>5
  <2> QED
    BY <2>3, <2>4
<1> QED
  BY <1>1, <1>2

\* parse_unary, likewise.
LEMMA UnaryLocal ==
  ASSUME NEW S, Closed(S), NEW text \in Seq(Tokens), NEW i \in 1 .. Len(text) + 1,
         NEW p, NEW h,
         Good(S, text, i, p[<<"atom", i>>]), h[<<"atom", i>>] = p[<<"atom", i>>],
         \A j \in 1 .. Len(text) + 1 : j > i =>
            Good(S, text, j, p[<<"unary", j>>]) /\ h[<<"unary", j>>] = p[<<"unary", j>>]
  PROVE  /\ ReadUnary(text, h, i) = ReadUnary(text, p, i)
         /\ Good(S, text, i, ReadUnary(text, p, i))
<1> DEFINE e == p[<<"unary", i + 1>>]
<1>1. CASE Token(text, i) # "not"
  BY <1>1 DEF ReadUnary
<1>2. CASE Token(text, i) = "not"
  <2>1. i + 1 \in 1 .. Len(text) + 1 /\ i + 1 > i
    BY <1>2, TokenPlace
  <2>2. Good(S, text, i + 1, e) /\ h[<<"unary", i + 1>>] = e
    BY <2>1
  <2>3. CASE e.found = <<>>
    BY <1>2, <2>2, <2>3 DEF ReadUnary, Good
  <2>4. CASE e.found # <<>>
    <3>1. /\ e.found \in Seq(S) /\ e.next \in Nat /\ i < e.next /\ e.next <= Len(text) + 1
      BY <2>2, <2>4 DEF Good, Malformed
    <3>2. Not(Head(e.found)) \in S
      BY <2>4, <3>1 DEF Closed
    <3>3. /\ ReadUnary(text, h, i) = One(Not(Head(e.found)), e.next)
          /\ ReadUnary(text, p, i) = One(Not(Head(e.found)), e.next)
      BY <1>2, <2>2, <2>4 DEF ReadUnary
    <3> QED
      BY <3>1, <3>2, <3>3, OneGood
  <2> QED
    BY <2>3, <2>4
<1> QED
  BY <1>1, <1>2

\* parse_atom, likewise.
LEMMA AtomLocal ==
  ASSUME NEW S, Closed(S), NEW text \in Seq(Tokens), NEW i \in 1 .. Len(text) + 1,
         NEW p, NEW h,
         \A j \in 1 .. Len(text) + 1 : j > i =>
            Good(S, text, j, p[<<"or", j>>]) /\ h[<<"or", j>>] = p[<<"or", j>>]
  PROVE  /\ ReadAtom(text, h, i) = ReadAtom(text, p, i)
         /\ Good(S, text, i, ReadAtom(text, p, i))
<1> DEFINE e == p[<<"or", i + 1>>]
<1>0. Good(S, text, i, Malformed)
  BY DEF Good
<1>1. CASE Token(text, i) = "has"
  <2> DEFINE full == /\ Token(text, i + 1) = "(" /\ Token(text, i + 2) \in Tags
                     /\ Token(text, i + 3) = ")"
  <2>1. CASE ~full
    BY <1>0, <1>1, <2>1 DEF ReadAtom
  <2>2. CASE full
    <3>1. i + 3 \in 1 .. Len(text)
      BY <2>2, TokenPlace
    <3>2. text[i + 2] \in Tags
      BY <2>2, <3>1 DEF Token
    <3>3. /\ ReadAtom(text, h, i) = One(Has(text[i + 2]), i + 4)
          /\ ReadAtom(text, p, i) = One(Has(text[i + 2]), i + 4)
      BY <1>1, <2>2 DEF ReadAtom
    <3>4. Has(text[i + 2]) \in S
      BY <3>2 DEF Closed
    <3>5. i + 4 \in Nat /\ i < i + 4 /\ i + 4 <= Len(text) + 1
      BY <3>1
    <3> QED
      BY <3>3, <3>4, <3>5, OneGood
  <2> QED
    BY <2>1, <2>2
<1>2. CASE Token(text, i) = "("
  <2>1. i + 1 \in 1 .. Len(text) + 1 /\ i + 1 > i
    BY <1>2, TokenPlace
  <2>2. Good(S, text, i + 1, e) /\ h[<<"or", i + 1>>] = e
    BY <2>1
  <2>3. CASE ~(e.found # <<>> /\ Token(text, e.next) = ")")
    <3>1. ReadAtom(text, h, i) = Malformed /\ ReadAtom(text, p, i) = Malformed
      BY <1>2, <2>2, <2>3 DEF ReadAtom
    <3> QED
      BY <1>0, <3>1
  <2>4. CASE e.found # <<>> /\ Token(text, e.next) = ")"
    <3>1. /\ e.found \in Seq(S) /\ e.next \in Nat /\ i + 1 < e.next
      BY <2>2, <2>4 DEF Good, Malformed
    <3>2. e.next \in 1 .. Len(text)
      BY <2>4, <3>1, TokenPlace
    <3>3. Joined("or", e.found) \in S
      BY <2>4, <3>1, JoinedIn
    <3>4. /\ ReadAtom(text, h, i) = One(Joined("or", e.found), e.next + 1)
          /\ ReadAtom(text, p, i) = One(Joined("or", e.found), e.next + 1)
      BY <1>2, <2>2, <2>4 DEF ReadAtom
    <3>5. e.next + 1 \in Nat /\ i < e.next + 1 /\ e.next + 1 <= Len(text) + 1
      BY <3>1, <3>2
    <3> QED
      BY <3>3, <3>4, <3>5, OneGood
  <2> QED
    BY <2>3, <2>4
<1>3. CASE Token(text, i) # "has" /\ Token(text, i) # "("
  <2>1. ReadAtom(text, h, i) = Malformed /\ ReadAtom(text, p, i) = Malformed
    BY <1>3 DEF ReadAtom
  <2> QED
    BY <1>0, <2>1
<1> QED
  BY <1>1, <1>2, <1>3

\* The order in which places are read: a level reads those below it at its own place,
\* and what comes later.
Height(level) == CASE level = "or" -> 3 [] level = "and" -> 2 [] level = "unary" -> 1 [] OTHER -> 0
ReadRank(text, level, i) == 4 * (Len(text) + 1 - i) + Height(level)

\* A rank is a natural number, below four times the number of places.
LEMMA RankType ==
  ASSUME NEW text \in Seq(Tokens), NEW level \in Levels, NEW i \in 1 .. Len(text) + 1
  PROVE  /\ ReadRank(text, level, i) \in Nat
         /\ ReadRank(text, level, i) < 4 * (Len(text) + 1)
<1>1. Height(level) \in 0 .. 3
  BY DEF Height
<1>2. Len(text) + 1 - i \in Nat /\ Len(text) + 1 - i <= Len(text) /\ Len(text) \in Nat
  OBVIOUS
<1> QED
  BY <1>1, <1>2 DEF ReadRank

\* What comes later has a lower rank, at whatever level.
LEMMA RankLater ==
  ASSUME NEW text \in Seq(Tokens), NEW level \in Levels, NEW i \in 1 .. Len(text) + 1,
         NEW other \in Levels, NEW j \in 1 .. Len(text) + 1, j > i
  PROVE  ReadRank(text, other, j) < ReadRank(text, level, i)
<1>1. Height(level) \in 0 .. 3 /\ Height(other) \in 0 .. 3
  BY DEF Height
<1>2. Len(text) + 1 - j \in Nat /\ Len(text) + 1 - i \in Nat
      /\ Len(text) + 1 - j <= Len(text) + 1 - i - 1
  OBVIOUS
<1> QED
  BY <1>1, <1>2 DEF ReadRank

\* A level has a higher rank than the ones it reads at its own place.
LEMMA RankLower ==
  ASSUME NEW text \in Seq(Tokens), NEW i \in 1 .. Len(text) + 1
  PROVE  /\ ReadRank(text, "and", i) < ReadRank(text, "or", i)
         /\ ReadRank(text, "unary", i) < ReadRank(text, "and", i)
         /\ ReadRank(text, "atom", i) < ReadRank(text, "unary", i)
<1>1. Len(text) + 1 - i \in Nat
  OBVIOUS
<1> QED
  BY <1>1 DEF ReadRank, Height

\* What is read at a place depends on what is read before it only, and is good when
\* that is.
LEMMA ReadLocal ==
  ASSUME NEW S, Closed(S), NEW text \in Seq(Tokens), NEW p, NEW h,
         NEW level \in Levels, NEW i \in 1 .. Len(text) + 1,
         \A l \in Levels, j \in 1 .. Len(text) + 1 :
            ReadRank(text, l, j) < ReadRank(text, level, i) =>
              Good(S, text, j, p[<<l, j>>]) /\ h[<<l, j>>] = p[<<l, j>>]
  PROVE  /\ ReadAt(text, h, level, i) = ReadAt(text, p, level, i)
         /\ Good(S, text, i, ReadAt(text, p, level, i))
<1>1. \A l \in Levels : \A j \in 1 .. Len(text) + 1 : j > i =>
         Good(S, text, j, p[<<l, j>>]) /\ h[<<l, j>>] = p[<<l, j>>]
  BY RankLater
<1>2. {"or", "and", "unary", "atom"} = Levels
  BY DEF Levels
<1>3. CASE level = "or"
  <2>1. Good(S, text, i, p[<<"and", i>>]) /\ h[<<"and", i>>] = p[<<"and", i>>]
    BY <1>2, <1>3, RankLower
  <2>2. /\ ReadOperands(text, h, "or", "and", i) = ReadOperands(text, p, "or", "and", i)
        /\ Good(S, text, i, ReadOperands(text, p, "or", "and", i))
    <3>1. \A j \in 1 .. Len(text) + 1 : j > i =>
             Good(S, text, j, p[<<"or", j>>]) /\ h[<<"or", j>>] = p[<<"or", j>>]
      BY <1>1, <1>2
    <3> QED
      BY <2>1, <3>1, OperandsLocal
  <2> QED
    BY <1>3, <2>2 DEF ReadAt
<1>4. CASE level = "and"
  <2>1. Good(S, text, i, p[<<"unary", i>>]) /\ h[<<"unary", i>>] = p[<<"unary", i>>]
    BY <1>2, <1>4, RankLower
  <2>2. /\ ReadOperands(text, h, "and", "unary", i) = ReadOperands(text, p, "and", "unary", i)
        /\ Good(S, text, i, ReadOperands(text, p, "and", "unary", i))
    <3>1. \A j \in 1 .. Len(text) + 1 : j > i =>
             Good(S, text, j, p[<<"and", j>>]) /\ h[<<"and", j>>] = p[<<"and", j>>]
      BY <1>1, <1>2
    <3> QED
      BY <2>1, <3>1, OperandsLocal
  <2> QED
    BY <1>4, <2>2 DEF ReadAt
<1>5. CASE level = "unary"
  <2>1. Good(S, text, i, p[<<"atom", i>>]) /\ h[<<"atom", i>>] = p[<<"atom", i>>]
    BY <1>2, <1>5, RankLower
  <2>2. /\ ReadUnary(text, h, i) = ReadUnary(text, p, i)
        /\ Good(S, text, i, ReadUnary(text, p, i))
    <3>1. \A j \in 1 .. Len(text) + 1 : j > i =>
             Good(S, text, j, p[<<"unary", j>>]) /\ h[<<"unary", j>>] = p[<<"unary", j>>]
      BY <1>1, <1>2
    <3> QED
      BY <2>1, <3>1, UnaryLocal
  <2> QED
    BY <1>5, <2>2 DEF ReadAt
<1>6. CASE level = "atom"
  <2>1. /\ ReadAtom(text, h, i) = ReadAtom(text, p, i)
        /\ Good(S, text, i, ReadAtom(text, p, i))
    <3>1. \A j \in 1 .. Len(text) + 1 : j > i =>
             Good(S, text, j, p[<<"or", j>>]) /\ h[<<"or", j>>] = p[<<"or", j>>]
      BY <1>1, <1>2
    <3> QED
      BY <3>1, AtomLocal
  <2> QED
    BY <1>6, <2>1 DEF ReadAt
<1> QED
  BY <1>2, <1>3, <1>4, <1>5, <1>6

\* Whatever reads nothing or as the definition says reads what is good.
LEMMA AllGood ==
  ASSUME NEW S, Closed(S), NEW text \in Seq(Tokens), NEW p,
         \A l \in Levels, j \in 1 .. Len(text) + 1 :
            p[<<l, j>>] = Malformed \/ p[<<l, j>>] = ReadAt(text, p, l, j)
  PROVE  \A l \in Levels, j \in 1 .. Len(text) + 1 : Good(S, text, j, p[<<l, j>>])
<1> DEFINE T == {n \in Nat : \E l \in Levels, j \in 1 .. Len(text) + 1 :
                    ReadRank(text, l, j) = n /\ ~Good(S, text, j, p[<<l, j>>])}
<1>1. T = {}
  <2> SUFFICES ASSUME T # {} PROVE FALSE
    OBVIOUS
  <2>1. PICK n \in T : \A m \in T : n <= m
    BY LeastNat
  <2>2. PICK l \in Levels, j \in 1 .. Len(text) + 1 :
          ReadRank(text, l, j) = n /\ ~Good(S, text, j, p[<<l, j>>])
    BY <2>1
  <2>3. ASSUME NEW k \in Levels, NEW i \in 1 .. Len(text) + 1,
               ReadRank(text, k, i) < ReadRank(text, l, j)
        PROVE  Good(S, text, i, p[<<k, i>>])
    <3>1. ReadRank(text, k, i) \in Nat /\ n \in Nat
      BY RankType
    <3>2. ReadRank(text, k, i) \notin T
      BY <2>1, <2>2, <2>3, <3>1
    <3> QED
      BY <3>1, <3>2
  <2>4. Good(S, text, j, ReadAt(text, p, l, j))
    BY <2>3, ReadLocal
  <2>5. Good(S, text, j, Malformed)
    BY DEF Good
  <2> QED
    BY <2>2, <2>4, <2>5
<1> QED
  BY <1>1, RankType

\* The places of the first n ranks read.
ParseStep(p, text, n) ==
  [place \in Places(text) |->
     IF ReadRank(text, place[1], place[2]) >= n THEN Malformed
     ELSE ReadAt(text, p, place[1], place[2])]

\* What such a step reads at a place.
LEMMA ParseStepAt ==
  ASSUME NEW p, NEW text, NEW n, NEW l \in Levels, NEW j \in 1 .. Len(text) + 1
  PROVE  ParseStep(p, text, n)[<<l, j>>] =
           IF ReadRank(text, l, j) >= n THEN Malformed ELSE ReadAt(text, p, l, j)
BY DEF ParseStep, Places

\* A reading of n ranks gives one of n + 1.
LEMMA ParseExtends ==
  ASSUME NEW S, Closed(S), NEW text \in Seq(Tokens), NEW n \in Nat,
         NEW p, p = ParseStep(p, text, n)
  PROVE  \E h : h = ParseStep(h, text, n + 1)
<1> DEFINE h == ParseStep(p, text, n + 1)
<1>1. ASSUME NEW l \in Levels, NEW j \in 1 .. Len(text) + 1
      PROVE  /\ h[<<l, j>>] = IF ReadRank(text, l, j) >= n + 1 THEN Malformed
                              ELSE ReadAt(text, p, l, j)
             /\ p[<<l, j>>] = IF ReadRank(text, l, j) >= n THEN Malformed
                              ELSE ReadAt(text, p, l, j)
  BY ParseStepAt
<1>2. \A l \in Levels, j \in 1 .. Len(text) + 1 : Good(S, text, j, p[<<l, j>>])
  <2>1. \A l \in Levels, j \in 1 .. Len(text) + 1 :
            p[<<l, j>>] = Malformed \/ p[<<l, j>>] = ReadAt(text, p, l, j)
    BY <1>1
  <2> QED
    BY <2>1, AllGood
<1> HIDE DEF h
<1>3. ASSUME NEW l \in Levels, NEW j \in 1 .. Len(text) + 1, ~(ReadRank(text, l, j) >= n + 1)
      PROVE  ReadAt(text, h, l, j) = ReadAt(text, p, l, j)
  <2>1. ASSUME NEW k \in Levels, NEW i \in 1 .. Len(text) + 1,
               ReadRank(text, k, i) < ReadRank(text, l, j)
        PROVE  h[<<k, i>>] = p[<<k, i>>]
    <3>1. ReadRank(text, k, i) \in Nat /\ ReadRank(text, l, j) \in Nat
      BY RankType
    <3>2. ~(ReadRank(text, k, i) >= n) /\ ~(ReadRank(text, k, i) >= n + 1)
      BY <1>3, <2>1, <3>1
    <3> QED
      BY <1>1, <3>2
  <2>2. \A k \in Levels, i \in 1 .. Len(text) + 1 :
           ReadRank(text, k, i) < ReadRank(text, l, j) =>
             Good(S, text, i, p[<<k, i>>]) /\ h[<<k, i>>] = p[<<k, i>>]
    BY <1>2, <2>1
  <2>3. Closed(S) /\ text \in Seq(Tokens) /\ l \in Levels /\ j \in 1 .. Len(text) + 1
    OBVIOUS
  <2> QED
    BY ONLY <2>2, <2>3, ReadLocal
<1>4. h = ParseStep(h, text, n + 1)
  <2>1. ASSUME NEW place \in Places(text)
        PROVE  (IF ReadRank(text, place[1], place[2]) >= n + 1 THEN Malformed
                ELSE ReadAt(text, p, place[1], place[2]))
               = IF ReadRank(text, place[1], place[2]) >= n + 1 THEN Malformed
                 ELSE ReadAt(text, h, place[1], place[2])
    <3>1. place[1] \in Levels /\ place[2] \in 1 .. Len(text) + 1
      BY DEF Places
    <3> QED
      BY <1>3, <3>1
  <2>2. ParseStep(p, text, n + 1) = ParseStep(h, text, n + 1)
    BY <2>1 DEF ParseStep
  <2> QED
    BY <2>2 DEF h
<1> QED
  BY <1>4

\* So the recursion has a solution, which is what ParseFrom takes.
LEMMA ParseExists ==
  ASSUME NEW S, Closed(S), NEW text \in Seq(Tokens)
  PROVE  \E p : IsParse(p, text)
<1> DEFINE T == {n \in Nat : ~\E p : p = ParseStep(p, text, n)}
<1>1. T = {}
  <2> SUFFICES ASSUME T # {} PROVE FALSE
    OBVIOUS
  <2>1. PICK m \in T : \A k \in T : m <= k
    BY LeastNat
  <2>2. m # 0
    <3> DEFINE p == [place \in Places(text) |-> Malformed]
    <3>1. ASSUME NEW place \in Places(text) PROVE ReadRank(text, place[1], place[2]) >= 0
      <4>1. place[1] \in Levels /\ place[2] \in 1 .. Len(text) + 1
        BY DEF Places
      <4> QED
        BY <4>1, RankType
    <3>2. ParseStep(p, text, 0) = p
      BY <3>1 DEF ParseStep
    <3> QED
      BY <3>2
  <2>3. m - 1 \in Nat /\ m - 1 \notin T
    BY <2>1, <2>2
  <2>4. PICK p : p = ParseStep(p, text, m - 1)
    BY <2>3
  <2>5. \E h : h = ParseStep(h, text, (m - 1) + 1)
    BY <2>3, <2>4, ParseExtends
  <2> QED
    BY <2>5
<1>2. 4 * (Len(text) + 1) \in Nat
  OBVIOUS
<1>3. PICK p : p = ParseStep(p, text, 4 * (Len(text) + 1))
  BY <1>1, <1>2
<1>4. ASSUME NEW place \in Places(text)
      PROVE  ~(ReadRank(text, place[1], place[2]) >= 4 * (Len(text) + 1))
  <2>1. place[1] \in Levels /\ place[2] \in 1 .. Len(text) + 1
    BY DEF Places
  <2>2. /\ ReadRank(text, place[1], place[2]) \in Nat
        /\ ReadRank(text, place[1], place[2]) < 4 * (Len(text) + 1)
    BY <2>1, RankType
  <2> QED
    BY <1>2, <2>2
<1>5. ParseStep(p, text, 4 * (Len(text) + 1)) =
        [place \in Places(text) |-> ReadAt(text, p, place[1], place[2])]
  BY <1>4 DEF ParseStep
<1> QED
  BY <1>3, <1>5 DEF IsParse

\* What such a function reads at a place.
LEMMA ReadsAt ==
  ASSUME NEW p, NEW text, IsParse(p, text), NEW l \in Levels, NEW j \in 1 .. Len(text) + 1
  PROVE  p[<<l, j>>] = ReadAt(text, p, l, j)
BY DEF IsParse, Places

\* ParseFrom is what such a function reads from the beginning, and is good.
LEMMA ParseReads ==
  ASSUME NEW S, Closed(S), NEW text \in Seq(Tokens)
  PROVE  /\ \E p : IsParse(p, text) /\ ParseFrom(text) = p[<<"or", 1>>]
         /\ Good(S, text, 1, ParseFrom(text))
<1> DEFINE p == CHOOSE p : IsParse(p, text)
<1>1. IsParse(p, text)
  BY ParseExists
<1>2. ParseFrom(text) = p[<<"or", 1>>]
  BY ParseUnfolds
<1> HIDE DEF p
<1>3. \A l \in Levels, j \in 1 .. Len(text) + 1 : Good(S, text, j, p[<<l, j>>])
  BY <1>1, ReadsAt, AllGood
<1>4. "or" \in Levels /\ 1 \in 1 .. Len(text) + 1
  BY DEF Levels
<1> QED
  BY <1>1, <1>2, <1>3, <1>4

\* s is in the text from place i on.
Stands(s, text, i) ==
  /\ i \in Nat \ {0} /\ i - 1 + Len(s) <= Len(text)
  /\ \A k \in 1 .. Len(s) : text[i - 1 + k] = s[k]

\* What is joined of two parts stands as the one part and then the other.
LEMMA StandsCat ==
  ASSUME NEW a \in Seq(Tokens), NEW b \in Seq(Tokens), NEW text \in Seq(Tokens), NEW i,
         Stands(a \o b, text, i)
  PROVE  /\ a \o b \in Seq(Tokens) /\ Len(a \o b) = Len(a) + Len(b)
         /\ Stands(a, text, i) /\ Stands(b, text, i + Len(a))
<1>1. /\ a \o b \in Seq(Tokens) /\ Len(a \o b) = Len(a) + Len(b)
      /\ Len(a) \in Nat /\ Len(b) \in Nat /\ Len(text) \in Nat
      /\ \A k \in 1 .. Len(a) : (a \o b)[k] = a[k]
      /\ \A k \in 1 .. Len(b) : (a \o b)[Len(a) + k] = b[k]
  OBVIOUS
<1>2. /\ i \in Nat \ {0} /\ i - 1 + (Len(a) + Len(b)) <= Len(text)
      /\ \A k \in 1 .. Len(a) + Len(b) : text[i - 1 + k] = (a \o b)[k]
  BY <1>1 DEF Stands
<1>3. Stands(a, text, i)
  <2>1. \A k \in 1 .. Len(a) : k \in 1 .. Len(a) + Len(b)
    BY <1>1
  <2>2. i - 1 + Len(a) <= Len(text)
    BY <1>1, <1>2
  <2> QED
    BY <1>1, <1>2, <2>1, <2>2 DEF Stands
<1>4. Stands(b, text, i + Len(a))
  <2>1. ASSUME NEW k \in 1 .. Len(b)
        PROVE  text[i + Len(a) - 1 + k] = b[k]
    <3>1. Len(a) + k \in 1 .. Len(a) + Len(b) /\ i - 1 + (Len(a) + k) = i + Len(a) - 1 + k
      BY <1>1, <1>2
    <3>2. text[i - 1 + (Len(a) + k)] = (a \o b)[Len(a) + k]
      BY <1>2, <3>1
    <3> QED
      BY <1>1, <3>1, <3>2
  <2>2. i + Len(a) \in Nat \ {0} /\ i + Len(a) - 1 + Len(b) <= Len(text)
    BY <1>1, <1>2
  <2> QED
    BY <2>1, <2>2 DEF Stands
<1> QED
  BY <1>1, <1>3, <1>4

\* A single token that stands somewhere is the token there.
LEMMA StandsOne ==
  ASSUME NEW t \in Tokens, NEW text \in Seq(Tokens), NEW i, Stands(<<t>>, text, i)
  PROVE  /\ <<t>> \in Seq(Tokens) /\ Len(<<t>>) = 1
         /\ i \in 1 .. Len(text) /\ Token(text, i) = t
<1>1. i \in Nat \ {0} /\ i - 1 + 1 <= Len(text) /\ text[i - 1 + 1] = t
  BY DEF Stands
<1>2. i - 1 + 1 = i
  BY <1>1
<1> QED
  BY <1>1, <1>2 DEF Token

\* What stands in parentheses stands one place further, between them.
LEMMA StandsIn ==
  ASSUME NEW s \in Seq(Tokens), NEW text \in Seq(Tokens), NEW i, Stands(In(s), text, i)
  PROVE  /\ In(s) \in Seq(Tokens) /\ Len(In(s)) = Len(s) + 2
         /\ Token(text, i) = "(" /\ i \in 1 .. Len(text) /\ Stands(s, text, i + 1)
         /\ Token(text, i + 1 + Len(s)) = ")" /\ i + 1 + Len(s) \in 1 .. Len(text)
<1>1. /\ "(" \in Tokens /\ ")" \in Tokens
      /\ <<"(">> \in Seq(Tokens) /\ <<")">> \in Seq(Tokens) /\ <<"(">> \o s \in Seq(Tokens)
      /\ Len(<<"(">>) = 1 /\ Len(<<")">>) = 1 /\ Len(s) \in Nat
      /\ Len(<<"(">> \o s) = 1 + Len(s)
  BY DEF Tokens, Keywords
<1>2. Stands((<<"(">> \o s) \o <<")">>, text, i)
  BY DEF In
<1>3. /\ (<<"(">> \o s) \o <<")">> \in Seq(Tokens)
      /\ Len((<<"(">> \o s) \o <<")">>) = Len(<<"(">> \o s) + Len(<<")">>)
      /\ Stands(<<"(">> \o s, text, i) /\ Stands(<<")">>, text, i + Len(<<"(">> \o s))
  BY <1>1, <1>2, StandsCat
<1>4. Stands(<<"(">>, text, i) /\ Stands(s, text, i + Len(<<"(">>))
  BY <1>1, <1>3, StandsCat
<1>5. Token(text, i) = "(" /\ i \in 1 .. Len(text)
  BY <1>1, <1>4, StandsOne
<1>6. i + Len(<<"(">> \o s) = i + 1 + Len(s)
  BY <1>1, <1>5
<1>7. Stands(<<")">>, text, i + 1 + Len(s))
  BY <1>3, <1>6
<1>8. Token(text, i + 1 + Len(s)) = ")" /\ i + 1 + Len(s) \in 1 .. Len(text)
  BY <1>1, <1>7, StandsOne
<1>9. In(s) \in Seq(Tokens) /\ Len(In(s)) = Len(s) + 2
  BY <1>1, <1>3 DEF In
<1>10. Stands(s, text, i + 1)
  BY <1>1, <1>4
<1> QED
  BY <1>5, <1>8, <1>9, <1>10

\* The expressions are closed.
LEMMA ExpressionsClosed == Closed(Expression)
<1>1. ASSUME NEW s \in Seq(Tokens) PROVE In(s) \in Seq(Tokens)
  BY DEF In, Tokens, Keywords
<1>2. \A e \in Expression : e.accepts \subseteq TagSets /\ e.prints \in Seq(Tokens)
  BY DEF Expression, Tokens
<1>3. ASSUME NEW t \in Tags PROVE Has(t) \in Expression
  <2>1. {ts \in TagSets : t \in ts} \subseteq TagSets
    OBVIOUS
  <2>2. <<"has", "(", t, ")">> \in Seq(Tags \cup Keywords)
    BY DEF Keywords
  <2> QED
    BY <2>1, <2>2 DEF Has, Expression
<1>4. ASSUME NEW e \in Expression PROVE Not(e) \in Expression
  <2>1. <<"not">> \o In(e.prints) \in Seq(Tags \cup Keywords)
    BY <1>1, <1>2 DEF Tokens, Keywords
  <2> QED
    BY <2>1 DEF Not, Expression
<1>5. ASSUME NEW e \in Expression, NEW f \in Expression
      PROVE  And(e, f) \in Expression /\ Or(e, f) \in Expression
  <2>1. /\ In(e.prints) \in Seq(Tokens) /\ In(f.prints) \in Seq(Tokens)
        /\ <<"and">> \in Seq(Tokens) /\ <<"or">> \in Seq(Tokens)
    BY <1>1, <1>2 DEF Tokens, Keywords
  <2>2. /\ In(e.prints) \o <<"and">> \o In(f.prints) \in Seq(Tags \cup Keywords)
        /\ In(e.prints) \o <<"or">> \o In(f.prints) \in Seq(Tags \cup Keywords)
    BY <2>1 DEF Tokens
  <2>3. /\ e.accepts \cap f.accepts \subseteq TagSets
        /\ e.accepts \cup f.accepts \subseteq TagSets
    BY <1>2
  <2> QED
    BY <2>2, <2>3 DEF And, Or, Expression
<1> QED
  BY <1>3, <1>4, <1>5 DEF Closed

\* Where a text has e printed, and no operator after it, the printed expression is
\* read: e itself, up to the end of what was printed.
RoundTrips(e) ==
  \A text \in Seq(Tokens), i \in Nat : \A p :
    /\ IsParse(p, text) /\ Stands(e.prints, text, i)
    /\ Token(text, i + Len(e.prints)) \notin {"and", "or"}
    => /\ i \in 1 .. Len(text) + 1
       /\ p[<<"or", i>>].found # <<>> /\ Joined("or", p[<<"or", i>>].found) = e
       /\ p[<<"or", i>>].next = i + Len(e.prints)

\* What the levels read, as the definition says.
LEMMA LevelReads ==
  ASSUME NEW p, NEW text, IsParse(p, text), NEW i \in 1 .. Len(text) + 1
  PROVE  /\ p[<<"or", i>>] = ReadOperands(text, p, "or", "and", i)
         /\ p[<<"and", i>>] = ReadOperands(text, p, "and", "unary", i)
         /\ p[<<"unary", i>>] = ReadUnary(text, p, i)
         /\ p[<<"atom", i>>] = ReadAtom(text, p, i)
<1>1. {"or", "and", "unary", "atom"} = Levels
  BY DEF Levels
<1>2. \A l \in Levels : p[<<l, i>>] = ReadAt(text, p, l, i)
  BY ReadsAt
<1> QED
  BY <1>1, <1>2 DEF ReadAt

\* One operand, and what follows it not the level's operator, is the level's operand.
LEMMA OneOperand ==
  ASSUME NEW text, NEW p, NEW level, NEW inner, NEW i, NEW e, NEW n,
         p[<<inner, i>>] = One(e, n), Token(text, n) # level
  PROVE  ReadOperands(text, p, level, inner, i) = One(e, n)
<1>1. p[<<inner, i>>].found = <<e>> /\ p[<<inner, i>>].next = n /\ <<e>> # <<>>
  BY DEF One
<1>2. Joined(inner, <<e>>) = e
  BY JoinedOne
<1> QED
  BY <1>1, <1>2 DEF ReadOperands

\* Two operands with the level's operator between them.
LEMMA TwoOperands ==
  ASSUME NEW text, NEW p, NEW level, NEW inner, NEW i, NEW e, NEW n, NEW f, NEW m,
         p[<<inner, i>>] = One(e, n), Token(text, n) = level,
         p[<<level, n + 1>>] = One(f, m)
  PROVE  ReadOperands(text, p, level, inner, i) = [found |-> <<e, f>>, next |-> m]
<1>1. /\ p[<<inner, i>>].found = <<e>> /\ p[<<inner, i>>].next = n /\ <<e>> # <<>>
      /\ p[<<level, n + 1>>].found = <<f>> /\ p[<<level, n + 1>>].next = m /\ <<f>> # <<>>
  BY DEF One
<1>2. Joined(inner, <<e>>) = e
  BY JoinedOne
<1>3. <<e>> \o <<f>> = <<e, f>>
  <2> DEFINE a == <<e>>
             b == <<f>>
             c == <<e, f>>
  <2>1. /\ a \in Seq({e, f}) /\ Len(a) = 1 /\ a[1] = e
        /\ b \in Seq({e, f}) /\ Len(b) = 1 /\ b[1] = f
        /\ c \in Seq({e, f}) /\ Len(c) = 2 /\ c[1] = e /\ c[2] = f
    OBVIOUS
  <2> HIDE DEF a, b, c
  <2>2. /\ a \o b \in Seq({e, f}) /\ Len(a \o b) = 2
        /\ (a \o b)[1] = e /\ (a \o b)[2] = f
    <3>1. /\ a \o b \in Seq({e, f}) /\ Len(a \o b) = Len(a) + Len(b)
          /\ \A k \in 1 .. Len(a) + Len(b) :
               (a \o b)[k] = IF k <= Len(a) THEN a[k] ELSE b[k - Len(a)]
      BY <2>1, ConcatProperties
    <3>2. 1 + 1 = 2 /\ 1 \in 1 .. 2 /\ 2 \in 1 .. 2 /\ 1 <= 1 /\ ~(2 <= 1) /\ 2 - 1 = 1
      OBVIOUS
    <3> QED
      BY <2>1, <3>1, <3>2
  <2>3. \A k \in 1 .. Len(a \o b) : (a \o b)[k] = c[k]
    <3>1. 1 .. 2 = {1, 2}
      OBVIOUS
    <3> QED
      BY <2>1, <2>2, <3>1
  <2>4. a \o b = c
    BY <2>1, <2>2, <2>3, SeqEqual
  <2> QED
    BY <2>4 DEF a, b, c
<1> QED
  BY <1>1, <1>2, <1>3 DEF ReadOperands

\* An expression in parentheses is read as one operand, at every level below "or".
LEMMA ParensRead ==
  ASSUME NEW e \in Expression, RoundTrips(e), NEW text \in Seq(Tokens), NEW p,
         IsParse(p, text), NEW i \in Nat, Stands(In(e.prints), text, i)
  PROVE  /\ i \in 1 .. Len(text) /\ Token(text, i) = "("
         /\ Len(In(e.prints)) = Len(e.prints) + 2
         /\ i + Len(In(e.prints)) \in 1 .. Len(text) + 1
         /\ p[<<"atom", i>>] = One(e, i + Len(In(e.prints)))
         /\ p[<<"unary", i>>] = One(e, i + Len(In(e.prints)))
<1> DEFINE s == e.prints
           n == Len(s)
<1>1. s \in Seq(Tokens) /\ n \in Nat /\ Stands(In(s), text, i)
  BY DEF Expression, Tokens
<1>2. \A j \in Nat : IsParse(p, text) /\ Stands(s, text, j)
                     /\ Token(text, j + n) \notin {"and", "or"}
        => /\ p[<<"or", j>>].found # <<>> /\ Joined("or", p[<<"or", j>>].found) = e
           /\ p[<<"or", j>>].next = j + n
  BY DEF RoundTrips
<1> HIDE DEF s
<1>3. /\ Len(In(s)) = n + 2
      /\ Token(text, i) = "(" /\ i \in 1 .. Len(text) /\ Stands(s, text, i + 1)
      /\ Token(text, i + 1 + n) = ")" /\ i + 1 + n \in 1 .. Len(text)
  BY <1>1, StandsIn
<1>4. /\ p[<<"or", i + 1>>].found # <<>> /\ Joined("or", p[<<"or", i + 1>>].found) = e
      /\ p[<<"or", i + 1>>].next = i + 1 + n
  <2>1. i + 1 \in Nat /\ ")" \notin {"and", "or"}
    OBVIOUS
  <2> QED
    BY <1>2, <1>3, <2>1
<1>5. ReadAtom(text, p, i) = One(e, i + 1 + n + 1)
  BY <1>3, <1>4 DEF ReadAtom
<1>6. i + 1 + n + 1 = i + Len(In(s)) /\ i \in 1 .. Len(text) + 1
      /\ i + Len(In(s)) \in 1 .. Len(text) + 1
  BY <1>1, <1>3
<1>7. p[<<"atom", i>>] = One(e, i + Len(In(s)))
  BY <1>5, <1>6, LevelReads
<1>8. p[<<"unary", i>>] = p[<<"atom", i>>]
  BY <1>3, <1>6, LevelReads DEF ReadUnary
<1> QED
  BY <1>3, <1>6, <1>7, <1>8 DEF s

\* A unary expression with no operator after it is one operand of "or".
LEMMA UnaryRead ==
  ASSUME NEW text, NEW p, IsParse(p, text), NEW i \in 1 .. Len(text) + 1, NEW e, NEW n,
         p[<<"unary", i>>] = One(e, n), Token(text, n) \notin {"and", "or"}
  PROVE  p[<<"or", i>>] = One(e, n)
<1>1. Token(text, n) # "and" /\ Token(text, n) # "or"
  OBVIOUS
<1>2. ReadOperands(text, p, "and", "unary", i) = One(e, n)
  BY <1>1, OneOperand
<1>3. p[<<"and", i>>] = One(e, n)
  BY <1>2, LevelReads
<1>4. ReadOperands(text, p, "or", "and", i) = One(e, n)
  BY <1>1, <1>3, OneOperand
<1> QED
  BY <1>4, LevelReads

\* One operand read is an expression read.
LEMMA OneIsRead ==
  ASSUME NEW e, NEW n, NEW r, r = One(e, n)
  PROVE  r.found # <<>> /\ Joined("or", r.found) = e /\ r.next = n
BY JoinedOne DEF One

\* A tag is read back.
LEMMA HasTrips ==
  ASSUME NEW t \in Tags
  PROVE  RoundTrips(Has(t))
<1> SUFFICES ASSUME NEW text \in Seq(Tokens), NEW p, NEW i \in Nat,
                    IsParse(p, text), Stands(<<"has", "(", t, ")">>, text, i),
                    Token(text, i + 4) \notin {"and", "or"}
             PROVE  /\ i \in 1 .. Len(text) + 1 /\ p[<<"or", i>>].found # <<>>
                    /\ Joined("or", p[<<"or", i>>].found) = Has(t)
                    /\ p[<<"or", i>>].next = i + 4
  <2>1. Has(t).prints = <<"has", "(", t, ")">> /\ Len(Has(t).prints) = 4
    BY DEF Has
  <2> QED
    BY <2>1 DEF RoundTrips
<1>1. /\ i \in Nat \ {0} /\ i + 3 <= Len(text)
      /\ text[i] = "has" /\ text[i + 1] = "(" /\ text[i + 2] = t /\ text[i + 3] = ")"
  <2> DEFINE s == <<"has", "(", t, ")">>
  <2>1. Len(s) = 4 /\ s[1] = "has" /\ s[2] = "(" /\ s[3] = t /\ s[4] = ")"
    OBVIOUS
  <2> HIDE DEF s
  <2>2. /\ i \in Nat \ {0} /\ i - 1 + 4 <= Len(text)
        /\ \A k \in 1 .. 4 : text[i - 1 + k] = s[k]
    BY <2>1 DEF Stands, s
  <2>3. /\ text[i - 1 + 1] = "has" /\ text[i - 1 + 2] = "("
        /\ text[i - 1 + 3] = t /\ text[i - 1 + 4] = ")"
    BY <2>1, <2>2
  <2> QED
    BY <2>2, <2>3
<1>2. /\ i \in 1 .. Len(text) /\ i + 1 \in 1 .. Len(text)
      /\ i + 2 \in 1 .. Len(text) /\ i + 3 \in 1 .. Len(text)
  BY <1>1
<1>3. /\ Token(text, i) = "has" /\ Token(text, i + 1) = "("
      /\ Token(text, i + 2) = t /\ Token(text, i + 3) = ")"
  BY <1>1, <1>2 DEF Token
<1>4. i \in 1 .. Len(text) + 1
  BY <1>2
<1>5. ReadAtom(text, p, i) = One(Has(t), i + 4)
  BY <1>1, <1>3 DEF ReadAtom
<1>6. p[<<"unary", i>>] = One(Has(t), i + 4)
  BY <1>3, <1>4, <1>5, LevelReads DEF ReadUnary
<1>7. p[<<"or", i>>] = One(Has(t), i + 4)
  BY <1>4, <1>6, UnaryRead
<1> QED
  BY <1>4, <1>7, OneIsRead

\* A negation is read back.
LEMMA NotTrips ==
  ASSUME NEW e \in Expression, RoundTrips(e)
  PROVE  RoundTrips(Not(e))
<1> DEFINE s == In(e.prints)
           n == Len(s)
<1>1. Not(e).prints = <<"not">> \o s
  BY DEF Not
<1>2. s \in Seq(Tokens) /\ n \in Nat
  BY DEF In, Expression, Tokens, Keywords
<1>3. /\ "not" \in Tokens /\ <<"not">> \in Seq(Tokens) /\ Len(<<"not">>) = 1
  BY DEF Tokens, Keywords
<1> SUFFICES ASSUME NEW text \in Seq(Tokens), NEW p, NEW i \in Nat,
                    IsParse(p, text), Stands(<<"not">> \o s, text, i),
                    Token(text, i + Len(<<"not">> \o s)) \notin {"and", "or"}
             PROVE  /\ i \in 1 .. Len(text) + 1 /\ p[<<"or", i>>].found # <<>>
                    /\ Joined("or", p[<<"or", i>>].found) = Not(e)
                    /\ p[<<"or", i>>].next = i + Len(<<"not">> \o s)
  BY <1>1 DEF RoundTrips
<1> HIDE DEF s
<1>4. /\ Len(<<"not">> \o s) = 1 + n
      /\ Stands(<<"not">>, text, i) /\ Stands(s, text, i + 1)
  BY <1>2, <1>3, StandsCat
<1>5. Token(text, i) = "not" /\ i \in 1 .. Len(text)
  BY <1>3, <1>4, StandsOne
<1>6. p[<<"unary", i + 1>>] = One(e, i + 1 + n)
  <2>1. i + 1 \in Nat
    OBVIOUS
  <2> QED
    BY <1>4, <2>1, ParensRead DEF s
<1>7. p[<<"unary", i + 1>>].found = <<e>> /\ p[<<"unary", i + 1>>].next = i + 1 + n
      /\ <<e>> # <<>> /\ Head(<<e>>) = e
  BY <1>6 DEF One
<1>8. i \in 1 .. Len(text) + 1 /\ i + 1 + n = i + Len(<<"not">> \o s)
  BY <1>2, <1>4, <1>5
<1>9. p[<<"unary", i>>] = One(Not(e), i + 1 + n)
  BY <1>5, <1>7, <1>8, LevelReads DEF ReadUnary
<1>10. p[<<"or", i>>] = One(Not(e), i + 1 + n)
  BY <1>8, <1>9, UnaryRead
<1> QED
  BY <1>8, <1>10, OneIsRead

\* Two operands in parentheses with an operator between them.
Both(a, op, b) == In(a.prints) \o <<op>> \o In(b.prints)

\* The operands read from place i on, with the operator between them at place n.
Operands(p, text, i, a, op, b, n) ==
  /\ n \in 1 .. Len(text) /\ i \in 1 .. Len(text) + 1 /\ n + 1 \in 1 .. Len(text) + 1
  /\ p[<<"unary", i>>] = One(a, n) /\ Token(text, n) = op
  /\ p[<<"unary", n + 1>>] = One(b, i + Len(Both(a, op, b)))

\* Where that stands, each operand is read on its own.
LEMMA BothStand ==
  ASSUME NEW a \in Expression, RoundTrips(a), NEW b \in Expression, RoundTrips(b),
         NEW op \in Tokens, NEW text \in Seq(Tokens), NEW i \in Nat, NEW p,
         IsParse(p, text), Stands(Both(a, op, b), text, i)
  PROVE  Operands(p, text, i, a, op, b, i + Len(In(a.prints)))
<1> DEFINE s == In(a.prints)
           t == In(b.prints)
           n == i + Len(s)
<1>1. s \in Seq(Tokens) /\ t \in Seq(Tokens)
  BY DEF In, Expression, Tokens, Keywords
<1>2. <<op>> \in Seq(Tokens) /\ Len(<<op>>) = 1
  OBVIOUS
<1>3. \A j \in Nat : Stands(s, text, j) => /\ j \in 1 .. Len(text)
                                           /\ p[<<"unary", j>>] = One(a, j + Len(s))
  BY ParensRead
<1>4. \A j \in Nat : Stands(t, text, j) => p[<<"unary", j>>] = One(b, j + Len(t))
  BY ParensRead
<1>5. Stands((s \o <<op>>) \o t, text, i)
  BY DEF Both
<1> HIDE DEF s, t
<1>6. /\ s \o <<op>> \in Seq(Tokens) /\ Len(s \o <<op>>) = Len(s) + 1
      /\ Len(s) \in Nat /\ Len(t) \in Nat
  BY <1>1, <1>2
<1>7. /\ Len((s \o <<op>>) \o t) = Len(s \o <<op>>) + Len(t)
      /\ Stands(s \o <<op>>, text, i) /\ Stands(t, text, i + Len(s \o <<op>>))
  BY <1>1, <1>5, <1>6, StandsCat
<1>8. Stands(s, text, i) /\ Stands(<<op>>, text, n)
  BY <1>1, <1>2, <1>7, StandsCat
<1>9. n \in 1 .. Len(text) /\ Token(text, n) = op
  BY <1>2, <1>8, StandsOne
<1>10. i \in 1 .. Len(text) + 1 /\ n + 1 \in 1 .. Len(text) + 1 /\ p[<<"unary", i>>] = One(a, n)
  BY <1>3, <1>8, <1>9
<1>11. i + Len(s \o <<op>>) = n + 1 /\ n + 1 \in Nat
       /\ n + 1 + Len(t) = i + Len((s \o <<op>>) \o t)
  BY <1>6, <1>7
<1>12. p[<<"unary", n + 1>>] = One(b, i + Len((s \o <<op>>) \o t))
  BY <1>4, <1>7, <1>11
<1> QED
  BY <1>9, <1>10, <1>12 DEF s, t, Both, Operands

\* A conjunction is read back.
LEMMA AndTrips ==
  ASSUME NEW a \in Expression, RoundTrips(a), NEW b \in Expression, RoundTrips(b)
  PROVE  RoundTrips(And(a, b))
<1> DEFINE s == Both(a, "and", b)
<1>1. And(a, b).prints = s
  BY DEF And, Both
<1> SUFFICES ASSUME NEW text \in Seq(Tokens), NEW i \in Nat, NEW p,
                    IsParse(p, text), Stands(s, text, i),
                    Token(text, i + Len(s)) \notin {"and", "or"}
             PROVE  /\ i \in 1 .. Len(text) + 1 /\ p[<<"or", i>>].found # <<>>
                    /\ Joined("or", p[<<"or", i>>].found) = And(a, b)
                    /\ p[<<"or", i>>].next = i + Len(s)
  BY <1>1 DEF RoundTrips
<1> DEFINE m == i + Len(s)
<1>2. PICK n \in 1 .. Len(text) :
         /\ i \in 1 .. Len(text) + 1 /\ n + 1 \in 1 .. Len(text) + 1
         /\ p[<<"unary", i>>] = One(a, n) /\ Token(text, n) = "and"
         /\ p[<<"unary", n + 1>>] = One(b, m)
  <2>1. "and" \in Tokens /\ Stands(Both(a, "and", b), text, i)
    BY DEF Tokens, Keywords
  <2>2. Operands(p, text, i, a, "and", b, i + Len(In(a.prints)))
    BY <2>1, BothStand
  <2> QED
    BY <2>2 DEF Operands
<1>3. Token(text, m) # "and" /\ Token(text, m) # "or"
  OBVIOUS
<1> HIDE DEF s, m
<1>4. p[<<"and", n + 1>>] = One(b, m)
  <2>1. ReadOperands(text, p, "and", "unary", n + 1) = One(b, m)
    BY <1>2, <1>3, OneOperand
  <2> QED
    BY <1>2, <2>1, LevelReads
<1>5. p[<<"and", i>>] = [found |-> <<a, b>>, next |-> m]
  <2>1. ReadOperands(text, p, "and", "unary", i) = [found |-> <<a, b>>, next |-> m]
    BY <1>2, <1>4, TwoOperands
  <2> QED
    BY <1>2, <2>1, LevelReads
<1>6. p[<<"or", i>>] = One(And(a, b), m)
  <2>1. Joined("and", <<a, b>>) = And(a, b)
    BY JoinedTwo DEF Join
  <2>2. /\ p[<<"and", i>>].found = <<a, b>> /\ p[<<"and", i>>].next = m /\ <<a, b>> # <<>>
    BY <1>5
  <2>3. ReadOperands(text, p, "or", "and", i) = One(And(a, b), m)
    BY <1>3, <2>1, <2>2 DEF ReadOperands
  <2> QED
    BY <1>2, <2>3, LevelReads
<1> QED
  BY <1>2, <1>6, OneIsRead DEF m

\* A disjunction is read back.
LEMMA OrTrips ==
  ASSUME NEW a \in Expression, RoundTrips(a), NEW b \in Expression, RoundTrips(b)
  PROVE  RoundTrips(Or(a, b))
<1> DEFINE s == Both(a, "or", b)
<1>1. Or(a, b).prints = s
  BY DEF Or, Both
<1> SUFFICES ASSUME NEW text \in Seq(Tokens), NEW i \in Nat, NEW p,
                    IsParse(p, text), Stands(s, text, i),
                    Token(text, i + Len(s)) \notin {"and", "or"}
             PROVE  /\ i \in 1 .. Len(text) + 1 /\ p[<<"or", i>>].found # <<>>
                    /\ Joined("or", p[<<"or", i>>].found) = Or(a, b)
                    /\ p[<<"or", i>>].next = i + Len(s)
  BY <1>1 DEF RoundTrips
<1> DEFINE m == i + Len(s)
<1>2. PICK n \in 1 .. Len(text) :
         /\ i \in 1 .. Len(text) + 1 /\ n + 1 \in 1 .. Len(text) + 1
         /\ p[<<"unary", i>>] = One(a, n) /\ Token(text, n) = "or"
         /\ p[<<"unary", n + 1>>] = One(b, m)
  <2>1. "or" \in Tokens /\ Stands(Both(a, "or", b), text, i)
    BY DEF Tokens, Keywords
  <2>2. Operands(p, text, i, a, "or", b, i + Len(In(a.prints)))
    BY <2>1, BothStand
  <2> QED
    BY <2>2 DEF Operands
<1>3. Token(text, m) \notin {"and", "or"} /\ Token(text, n) # "and"
  BY <1>2
<1> HIDE DEF s, m
<1>4. p[<<"or", n + 1>>] = One(b, m)
  BY <1>2, <1>3, UnaryRead
<1>5. p[<<"and", i>>] = One(a, n)
  <2>1. ReadOperands(text, p, "and", "unary", i) = One(a, n)
    BY <1>2, <1>3, OneOperand
  <2> QED
    BY <1>2, <2>1, LevelReads
<1>6. p[<<"or", i>>] = [found |-> <<a, b>>, next |-> m]
  <2>1. ReadOperands(text, p, "or", "and", i) = [found |-> <<a, b>>, next |-> m]
    BY <1>2, <1>4, <1>5, TwoOperands
  <2> QED
    BY <1>2, <2>1, LevelReads
<1>7. /\ p[<<"or", i>>].found = <<a, b>> /\ p[<<"or", i>>].next = m /\ <<a, b>> # <<>>
  BY <1>6
<1>8. Joined("or", <<a, b>>) = Or(a, b)
  BY JoinedTwo DEF Join
<1> QED
  BY <1>2, <1>7, <1>8 DEF m

\* The expressions that are read back as they were printed, which are all a text can
\* parse to.
Stable == {e \in Expression : RoundTrips(e)}

\* Whatever is built from stable expressions is stable.
LEMMA StableClosed == Closed(Stable)
<1>1. \A t \in Tags : Has(t) \in Stable
  BY ExpressionsClosed, HasTrips DEF Closed, Stable
<1>2. \A e \in Stable : Not(e) \in Stable
  BY ExpressionsClosed, NotTrips DEF Closed, Stable
<1>3. \A e, f \in Stable : And(e, f) \in Stable /\ Or(e, f) \in Stable
  BY ExpressionsClosed, AndTrips, OrTrips DEF Closed, Stable
<1> QED
  BY <1>1, <1>2, <1>3 DEF Closed

\* What a text that parses stands for is stable.
LEMMA ParseStable ==
  ASSUME NEW text \in Seq(Tokens), Parses(text)
  PROVE  Parse(text) \in Stable
<1>1. Good(Stable, text, 1, ParseFrom(text)) /\ ParseFrom(text).found # <<>>
  BY StableClosed, ParseReads DEF Parses
<1>2. ParseFrom(text).found \in Seq(Stable)
  BY <1>1 DEF Good, Malformed
<1> QED
  BY <1>1, <1>2, StableClosed, JoinedIn DEF Parse

\* The text a stable expression prints as parses to it.
LEMMA PrintsParse ==
  ASSUME NEW e \in Stable
  PROVE  e.prints \in Seq(Tokens) /\ Parses(e.prints) /\ Parse(e.prints) = e
<1> DEFINE s == e.prints
<1>1. s \in Seq(Tokens)
  BY DEF Stable, Expression, Tokens
<1>2. \A i \in Nat : \A p :
        /\ IsParse(p, s) /\ Stands(s, s, i) /\ Token(s, i + Len(s)) \notin {"and", "or"}
        => /\ p[<<"or", i>>].found # <<>> /\ Joined("or", p[<<"or", i>>].found) = e
           /\ p[<<"or", i>>].next = i + Len(s)
  BY <1>1 DEF Stable, RoundTrips
<1> HIDE DEF s
<1>3. Stands(s, s, 1)
  BY <1>1 DEF Stands
<1>4. Token(s, 1 + Len(s)) = "end"
  BY <1>1 DEF Token
<1>5. PICK p : IsParse(p, s) /\ ParseFrom(s) = p[<<"or", 1>>]
  BY <1>1, StableClosed, ParseReads
<1>6. /\ ParseFrom(s).found # <<>> /\ Joined("or", ParseFrom(s).found) = e
      /\ ParseFrom(s).next = 1 + Len(s)
  BY <1>2, <1>3, <1>4, <1>5
<1>7. 1 + Len(s) = Len(s) + 1
  BY <1>1
<1> QED
  BY <1>1, <1>6, <1>7 DEF Parses, Parse, s

\* resolve/tag_expr.rs claims that its printing needs no precedence to be read back:
\* every text that parses prints as a text that parses to the same expression.
THEOREM PrintedTextsParseBack == PrintingIsStable
<1> SUFFICES ASSUME NEW x \in Wellformed
             PROVE  /\ Printed[x] \in Wellformed
                    /\ Accepting[Printed[x]] = Accepting[x]
                    /\ Printed[Printed[x]] = Printed[x]
  BY DEF PrintingIsStable
<1> DEFINE e == Parse(x)
<1>1. x \in Seq(Tokens) /\ Parses(x)
  BY TextsAssumption DEF Wellformed, Tokens
<1>2. e \in Stable
  BY <1>1, ParseStable
<1>3. Printed[x] = e.prints /\ Accepting[x] = e.accepts
  BY DEF Printed, Accepting
<1> HIDE DEF e
<1>4. Parses(e.prints) /\ Parse(e.prints) = e
  BY <1>2, PrintsParse
<1>5. e.prints \in Wellformed
  <2>1. e.prints \in Texts
    BY <1>3, TextsAssumption
  <2> QED
    BY <1>4, <2>1 DEF Wellformed
<1>6. Accepting[e.prints] = e.accepts /\ Printed[e.prints] = e.prints
  BY <1>4, <1>5 DEF Accepting, Printed
<1> QED
  BY <1>3, <1>5, <1>6

-----------------------------------------------------------------------------
\* The rows.

\* One row of one table written.
Put(d, table, k, x) == [d EXCEPT ![table][k] = x]

\* The tables of a database, as functions.
LEMMA Tables ==
  ASSUME NEW d \in Database
  PROVE  /\ d.services \in [Services -> Service \cup {None}]
         /\ d.providers \in [Providers -> Provider \cup {None}]
         /\ d.api_calls \in [Slugs -> ApiCall \cup {None}]
         /\ d.scripts \in [Slugs -> Script \cup {None}]
         /\ d.endpoints \in [Endpoints -> Endpoint \cup {None}]
  BY DEF Database

\* A row of a table has the table's type, and is not None.
LEMMA RowTypes ==
  ASSUME NEW d \in Database
  PROVE  /\ \A s \in Present(d.services) : s \in Services /\ d.services[s] \in Service
         /\ \A p \in Present(d.providers) : p \in Providers /\ d.providers[p] \in Provider
         /\ \A c \in Present(d.api_calls) : c \in Slugs /\ d.api_calls[c] \in ApiCall
         /\ \A s \in Present(d.scripts) : s \in Slugs /\ d.scripts[s] \in Script
         /\ \A e \in Present(d.endpoints) : e \in Endpoints /\ d.endpoints[e] \in Endpoint
  BY Tables DEF Present

\* What a service's columns keep is a service, with its origin and its allowlist.
LEMMA KeptServiceType ==
  ASSUME NEW x \in Service
  PROVE  /\ KeptService(x) \in Service
         /\ KeptService(x).origin = x.origin /\ KeptService(x).allowlist = x.allowlist
  BY DEF KeptService, Service, Limit

\* What a script's columns keep is a script that reaches the same calls.
LEMMA KeptScriptType ==
  ASSUME NEW x \in Script
  PROVE  /\ KeptScript(x) \in Script
         /\ KeptScript(x).callable = x.callable /\ KeptScript(x).shape = x.shape
<1>1. 0 \in Limit
  BY CatalogAssumption DEF Limit, Count
<1>2. KeptScript(x).calls \in Limit
  BY <1>1 DEF KeptScript, Script
<1> QED BY <1>1 DEF KeptScript, Script

\* A well-formed text is kept as a well-formed text that accepts the same.
LEMMA PrintedType ==
  ASSUME NEW x \in Wellformed
  PROVE  /\ Printed[x] \in Wellformed /\ Printed[x] \in Texts
         /\ Accepting[Printed[x]] = Accepting[x]
  BY PrintedTextsParseBack DEF PrintingIsStable, Wellformed

\* What an endpoint's columns keep is an endpoint but for the text's printing.
LEMMA KeptEndpointType ==
  ASSUME NEW x \in Endpoint, x.expr \in Wellformed
  PROVE  /\ KeptEndpoint(x) \in Endpoint
         /\ KeptEndpoint(x).expr = Printed[x.expr] /\ KeptEndpoint(x).expr \in Wellformed
         /\ KeptEndpoint(x).scope = x.scope /\ KeptEndpoint(x).aliases = x.aliases
         /\ KeptEndpoint(x).shape = x.shape /\ KeptEndpoint(x).ceiling = x.ceiling
  BY PrintedType DEF KeptEndpoint, Endpoint

\* A row written into the services.
LEMMA PutService ==
  ASSUME NEW d, SoundRows(d), NEW s \in Services, NEW x \in Service
  PROVE  SoundRows(Put(d, "services", s, x))
<1> DEFINE e == Put(d, "services", s, x)
<1>1. d \in Database BY DEF SoundRows
<1>2. /\ e.services = [d.services EXCEPT ![s] = x]
      /\ e.providers = d.providers /\ e.api_calls = d.api_calls
      /\ e.scripts = d.scripts /\ e.endpoints = d.endpoints
  BY <1>1 DEF Database, Put
<1>3. e \in Database
  BY <1>1, Tables DEF Database, Put
<1>4. ASSUME NEW r \in Services, d.services[r] # None PROVE e.services[r] # None
  BY <1>1, <1>2, <1>4, Tables, NoneIsNoRow
<1> HIDE DEF e
<1>5. \A p \in Present(d.providers) : d.providers[p].service \in Services
  BY <1>1, RowTypes DEF Provider
<1>6. \A c \in Present(d.api_calls) : d.api_calls[c].service \in Services
  BY <1>1, RowTypes DEF ApiCall
<1>7. SoundRows(e)
  BY <1>2, <1>3, <1>4, <1>5, <1>6 DEF SoundRows
<1> QED BY <1>7 DEF e

\* A row written into the providers.
LEMMA PutProvider ==
  ASSUME NEW d, SoundRows(d), NEW p \in Providers, NEW x \in Provider,
         d.services[x.service] # None,
         \A q \in Present(d.providers) \ {p} : d.providers[q].service # x.service
  PROVE  SoundRows(Put(d, "providers", p, x))
<1> DEFINE e == Put(d, "providers", p, x)
<1>1. d \in Database BY DEF SoundRows
<1>2. /\ e.providers = [d.providers EXCEPT ![p] = x]
      /\ e.services = d.services /\ e.api_calls = d.api_calls
      /\ e.scripts = d.scripts /\ e.endpoints = d.endpoints
  BY <1>1 DEF Database, Put
<1>3. e \in Database
  BY <1>1, Tables DEF Database, Put
<1>4. /\ Present(e.providers) = Present(d.providers) \cup {p}
      /\ e.providers[p] = x
      /\ \A q \in Providers \ {p} : e.providers[q] = d.providers[q]
  BY <1>1, <1>2, Tables, NoneIsNoRow DEF Present
<1> HIDE DEF e
<1>5. Present(d.providers) \subseteq Providers
  BY <1>1, RowTypes
<1>6. \A q \in Present(e.providers) : e.services[e.providers[q].service] # None
  BY <1>2, <1>4, <1>5 DEF SoundRows
<1>7. \A q, r \in Present(e.providers) : e.providers[q].service = e.providers[r].service => q = r
  BY <1>4, <1>5 DEF SoundRows
<1>8. SoundRows(e)
  BY <1>2, <1>3, <1>4, <1>6, <1>7 DEF SoundRows
<1> QED BY <1>8 DEF e

\* A row written into the api_calls.
LEMMA PutCall ==
  ASSUME NEW d, SoundRows(d), NEW c \in Slugs, NEW x \in ApiCall,
         Storable(x), d.services[x.service] # None
  PROVE  SoundRows(Put(d, "api_calls", c, x))
<1> DEFINE e == Put(d, "api_calls", c, x)
<1>1. d \in Database BY DEF SoundRows
<1>2. /\ e.api_calls = [d.api_calls EXCEPT ![c] = x]
      /\ e.services = d.services /\ e.providers = d.providers
      /\ e.scripts = d.scripts /\ e.endpoints = d.endpoints
  BY <1>1 DEF Database, Put
<1>3. e \in Database
  BY <1>1, Tables DEF Database, Put
<1>4. /\ Present(e.api_calls) = Present(d.api_calls) \cup {c}
      /\ e.api_calls[c] = x
      /\ \A k \in Slugs \ {c} : e.api_calls[k] = d.api_calls[k]
  BY <1>1, <1>2, Tables, NoneIsNoRow DEF Present
<1> HIDE DEF e
<1>5. Present(d.api_calls) \subseteq Slugs
  BY <1>1, RowTypes
<1>6. \A k \in Present(e.api_calls) :
        Storable(e.api_calls[k]) /\ e.services[e.api_calls[k].service] # None
  BY <1>2, <1>4, <1>5 DEF SoundRows
<1>7. SoundRows(e)
  BY <1>2, <1>3, <1>4, <1>6 DEF SoundRows
<1> QED BY <1>7 DEF e

\* A row written into the scripts.
LEMMA PutScript ==
  ASSUME NEW d, SoundRows(d), NEW s \in Slugs, NEW x \in Script,
         Storable(x), x.callable \subseteq Present(d.api_calls)
  PROVE  SoundRows(Put(d, "scripts", s, x))
<1> DEFINE e == Put(d, "scripts", s, x)
<1>1. d \in Database BY DEF SoundRows
<1>2. /\ e.scripts = [d.scripts EXCEPT ![s] = x]
      /\ e.services = d.services /\ e.providers = d.providers
      /\ e.api_calls = d.api_calls /\ e.endpoints = d.endpoints
  BY <1>1 DEF Database, Put
<1>3. e \in Database
  BY <1>1, Tables DEF Database, Put
<1>4. /\ Present(e.scripts) = Present(d.scripts) \cup {s}
      /\ e.scripts[s] = x
      /\ \A k \in Slugs \ {s} : e.scripts[k] = d.scripts[k]
  BY <1>1, <1>2, Tables, NoneIsNoRow DEF Present
<1> HIDE DEF e
<1>5. Present(d.scripts) \subseteq Slugs
  BY <1>1, RowTypes
<1>6. \A k \in Present(e.scripts) :
        Storable(e.scripts[k]) /\ e.scripts[k].callable \subseteq Present(e.api_calls)
  BY <1>2, <1>4, <1>5 DEF SoundRows
<1>7. SoundRows(e)
  BY <1>2, <1>3, <1>6 DEF SoundRows
<1> QED BY <1>7 DEF e

\* A row written into the endpoints.
LEMMA PutEndpoint ==
  ASSUME NEW d, SoundRows(d), NEW f \in Endpoints, NEW x \in Endpoint,
         x.expr \in Wellformed, x.scope \subseteq Present(d.providers)
  PROVE  SoundRows(Put(d, "endpoints", f, x))
<1> DEFINE e == Put(d, "endpoints", f, x)
<1>1. d \in Database BY DEF SoundRows
<1>2. /\ e.endpoints = [d.endpoints EXCEPT ![f] = x]
      /\ e.services = d.services /\ e.providers = d.providers
      /\ e.api_calls = d.api_calls /\ e.scripts = d.scripts
  BY <1>1 DEF Database, Put
<1>3. e \in Database
  BY <1>1, Tables DEF Database, Put
<1>4. /\ Present(e.endpoints) = Present(d.endpoints) \cup {f}
      /\ e.endpoints[f] = x
      /\ \A k \in Endpoints \ {f} : e.endpoints[k] = d.endpoints[k]
  BY <1>1, <1>2, Tables, NoneIsNoRow DEF Present
<1> HIDE DEF e
<1>5. Present(d.endpoints) \subseteq Endpoints
  BY <1>1, RowTypes
<1>6. \A k \in Present(e.endpoints) :
        e.endpoints[k].expr \in Wellformed /\ e.endpoints[k].scope \subseteq Present(e.providers)
  BY <1>2, <1>4, <1>5 DEF SoundRows
<1>7. SoundRows(e)
  BY <1>2, <1>3, <1>6 DEF SoundRows
<1> QED BY <1>7 DEF e
-----------------------------------------------------------------------------
\* The table that is left when rows go.
LEMMA WithoutRows ==
  ASSUME NEW table, NEW gone
  PROVE  /\ Present(Without(table, gone)) = Present(table) \ gone
         /\ \A k \in Present(table) \ gone : Without(table, gone)[k] = table[k]
  BY DEF Without, Present

\* Scripts lose the calls that go, and nothing else.
LEMMA DropCallsFields ==
  ASSUME NEW d \in Database, NEW gone
  PROVE  LET e == DropCalls(d, gone)
         IN /\ e \in Database
            /\ e.services = d.services /\ e.providers = d.providers
            /\ e.endpoints = d.endpoints /\ e.api_calls = Without(d.api_calls, gone)
            /\ Present(e.scripts) = Present(d.scripts)
            /\ \A s \in Present(d.scripts) :
                 /\ e.scripts[s].callable = d.scripts[s].callable \ gone
                 /\ e.scripts[s].shape = d.scripts[s].shape
                 /\ e.scripts[s].calls = d.scripts[s].calls
                 /\ e.scripts[s].fixed = d.scripts[s].fixed
<1> DEFINE e == DropCalls(d, gone)
           left(s) == [d.scripts[s] EXCEPT !.callable = @ \ gone]
           sc == [s \in Slugs |-> IF d.scripts[s] = None THEN None ELSE left(s)]
<1>1. /\ e.services = d.services /\ e.providers = d.providers
      /\ e.endpoints = d.endpoints /\ e.api_calls = Without(d.api_calls, gone)
      /\ e.scripts = sc
  BY DEF DropCalls, Database
<1>2. \A s \in Present(d.scripts) :
        left(s) \in Script /\ left(s).callable = d.scripts[s].callable \ gone
          /\ left(s).shape = d.scripts[s].shape /\ left(s).calls = d.scripts[s].calls
          /\ left(s).fixed = d.scripts[s].fixed
  BY RowTypes DEF Script
<1>3. Present(d.scripts) = {s \in Slugs : d.scripts[s] # None}
  BY Tables DEF Present
<1> HIDE DEF left
<1>4. /\ sc \in [Slugs -> Script \cup {None}]
      /\ Present(sc) = Present(d.scripts)
      /\ \A s \in Present(d.scripts) : sc[s] = left(s)
  BY <1>2, <1>3, NoneIsNoRow DEF Present
<1>5. Without(d.api_calls, gone) \in [Slugs -> ApiCall \cup {None}]
  BY Tables DEF Without
<1> HIDE DEF sc
<1>6. e \in Database
  BY <1>1, <1>4, <1>5, Tables DEF Database, DropCalls
<1> HIDE DEF e
<1>7. \A s \in Present(d.scripts) :
        /\ e.scripts[s].callable = d.scripts[s].callable \ gone
        /\ e.scripts[s].shape = d.scripts[s].shape
        /\ e.scripts[s].calls = d.scripts[s].calls
        /\ e.scripts[s].fixed = d.scripts[s].fixed
  BY <1>1, <1>2, <1>4
<1> QED BY <1>1, <1>4, <1>6, <1>7 DEF e

\* Endpoints lose the providers that go, and nothing else.
LEMMA DropProvidersFields ==
  ASSUME NEW d \in Database, NEW gone
  PROVE  LET e == DropProviders(d, gone)
         IN /\ e \in Database
            /\ e.services = d.services /\ e.api_calls = d.api_calls
            /\ e.scripts = d.scripts /\ e.providers = Without(d.providers, gone)
            /\ Present(e.endpoints) = Present(d.endpoints)
            /\ \A f \in Present(d.endpoints) :
                 /\ e.endpoints[f].scope = d.endpoints[f].scope \ gone
                 /\ e.endpoints[f].expr = d.endpoints[f].expr
                 /\ e.endpoints[f].shape = d.endpoints[f].shape
                 /\ e.endpoints[f].aliases = d.endpoints[f].aliases
<1> DEFINE e == DropProviders(d, gone)
           left(f) == [d.endpoints[f] EXCEPT !.scope = @ \ gone]
           es == [f \in Endpoints |-> IF d.endpoints[f] = None THEN None ELSE left(f)]
<1>1. /\ e.services = d.services /\ e.api_calls = d.api_calls
      /\ e.scripts = d.scripts /\ e.providers = Without(d.providers, gone)
      /\ e.endpoints = es
  BY DEF DropProviders, Database
<1>2. \A f \in Present(d.endpoints) :
        /\ left(f) \in Endpoint /\ left(f).scope = d.endpoints[f].scope \ gone
        /\ left(f).expr = d.endpoints[f].expr /\ left(f).shape = d.endpoints[f].shape
        /\ left(f).aliases = d.endpoints[f].aliases
  BY RowTypes DEF Endpoint
<1>3. Present(d.endpoints) = {f \in Endpoints : d.endpoints[f] # None}
  BY Tables DEF Present
<1> HIDE DEF left
<1>4. /\ es \in [Endpoints -> Endpoint \cup {None}]
      /\ Present(es) = Present(d.endpoints)
      /\ \A f \in Present(d.endpoints) : es[f] = left(f)
  BY <1>2, <1>3, NoneIsNoRow DEF Present
<1>5. Without(d.providers, gone) \in [Providers -> Provider \cup {None}]
  BY Tables DEF Without
<1> HIDE DEF es
<1>6. e \in Database
  BY <1>1, <1>4, <1>5, Tables DEF Database, DropProviders
<1> HIDE DEF e
<1>7. \A f \in Present(d.endpoints) :
        /\ e.endpoints[f].scope = d.endpoints[f].scope \ gone
        /\ e.endpoints[f].expr = d.endpoints[f].expr
        /\ e.endpoints[f].shape = d.endpoints[f].shape
        /\ e.endpoints[f].aliases = d.endpoints[f].aliases
  BY <1>1, <1>2, <1>4
<1> QED BY <1>1, <1>4, <1>6, <1>7 DEF e

\* Calls go, and leave the scripts that called them.
LEMMA DropCallsSound ==
  ASSUME NEW d, SoundRows(d), NEW gone
  PROVE  SoundRows(DropCalls(d, gone))
<1> DEFINE e == DropCalls(d, gone)
<1>1. d \in Database BY DEF SoundRows
<1>2. /\ e \in Database
      /\ e.services = d.services /\ e.providers = d.providers
      /\ e.endpoints = d.endpoints
      /\ Present(e.scripts) = Present(d.scripts)
      /\ \A s \in Present(d.scripts) :
           /\ e.scripts[s].callable = d.scripts[s].callable \ gone
           /\ e.scripts[s].shape = d.scripts[s].shape
  BY <1>1, DropCallsFields
<1>3. /\ Present(e.api_calls) = Present(d.api_calls) \ gone
      /\ \A c \in Present(d.api_calls) \ gone : e.api_calls[c] = d.api_calls[c]
  BY <1>1, DropCallsFields, WithoutRows
<1> HIDE DEF e
<1>4. \A s \in Present(e.scripts) :
        Storable(e.scripts[s]) /\ e.scripts[s].callable \subseteq Present(e.api_calls)
  BY <1>2, <1>3 DEF SoundRows, Storable
<1>5. \A c \in Present(e.api_calls) :
        Storable(e.api_calls[c]) /\ e.services[e.api_calls[c].service] # None
  BY <1>2, <1>3 DEF SoundRows
<1>6. SoundRows(e)
  BY <1>2, <1>4, <1>5 DEF SoundRows
<1> QED BY <1>6 DEF e

\* Providers go, and leave the scopes of endpoints.
LEMMA DropProvidersSound ==
  ASSUME NEW d, SoundRows(d), NEW gone
  PROVE  SoundRows(DropProviders(d, gone))
<1> DEFINE e == DropProviders(d, gone)
<1>1. d \in Database BY DEF SoundRows
<1>2. /\ e \in Database
      /\ e.services = d.services /\ e.api_calls = d.api_calls
      /\ e.scripts = d.scripts
      /\ Present(e.endpoints) = Present(d.endpoints)
      /\ \A f \in Present(d.endpoints) :
           /\ e.endpoints[f].scope = d.endpoints[f].scope \ gone
           /\ e.endpoints[f].expr = d.endpoints[f].expr
  BY <1>1, DropProvidersFields
<1>3. /\ Present(e.providers) = Present(d.providers) \ gone
      /\ \A p \in Present(d.providers) \ gone : e.providers[p] = d.providers[p]
  BY <1>1, DropProvidersFields, WithoutRows
<1> HIDE DEF e
<1>4. \A f \in Present(e.endpoints) :
        e.endpoints[f].expr \in Wellformed /\ e.endpoints[f].scope \subseteq Present(e.providers)
  BY <1>2, <1>3 DEF SoundRows
<1>5. \A p \in Present(e.providers) : e.services[e.providers[p].service] # None
  BY <1>2, <1>3 DEF SoundRows
<1>6. \A p, q \in Present(e.providers) : e.providers[p].service = e.providers[q].service => p = q
  BY <1>3 DEF SoundRows
<1>7. SoundRows(e)
  BY <1>2, <1>4, <1>5, <1>6 DEF SoundRows
<1> QED BY <1>7 DEF e

\* The tables after a service is deleted: its calls and providers are gone.
LEMMA DropServiceFields ==
  ASSUME NEW d \in Database, NEW s \in Services
  PROVE  LET e == DropService(d, s)
             calls == OfService(d.api_calls, s)
             providers == OfService(d.providers, s)
         IN /\ e \in Database
            /\ e.services[s] = None /\ \A r \in Services \ {s} : e.services[r] = d.services[r]
            /\ e.api_calls = Without(d.api_calls, calls)
            /\ e.providers = Without(d.providers, providers)
            /\ Present(e.scripts) = Present(d.scripts)
            /\ \A k \in Present(d.scripts) :
                 /\ e.scripts[k].callable = d.scripts[k].callable \ calls
                 /\ e.scripts[k].shape = d.scripts[k].shape
                 /\ e.scripts[k].calls = d.scripts[k].calls
                 /\ e.scripts[k].fixed = d.scripts[k].fixed
            /\ Present(e.endpoints) = Present(d.endpoints)
            /\ \A f \in Present(d.endpoints) :
                 /\ e.endpoints[f].scope = d.endpoints[f].scope \ providers
                 /\ e.endpoints[f].expr = d.endpoints[f].expr
                 /\ e.endpoints[f].shape = d.endpoints[f].shape
                 /\ e.endpoints[f].aliases = d.endpoints[f].aliases
<1> DEFINE b == [d EXCEPT !.services[s] = None]
           c == DropCalls(b, OfService(d.api_calls, s))
           e == DropProviders(c, OfService(d.providers, s))
<1>1. /\ b \in Database
      /\ b.services = [d.services EXCEPT ![s] = None]
      /\ b.providers = d.providers /\ b.api_calls = d.api_calls
      /\ b.scripts = d.scripts /\ b.endpoints = d.endpoints
  BY Tables DEF Database
<1>5. b.services[s] = None /\ \A r \in Services \ {s} : b.services[r] = d.services[r]
  BY <1>1, Tables
<1> HIDE DEF b
<1>2. /\ c \in Database
      /\ c.services = b.services /\ c.providers = d.providers
      /\ c.endpoints = d.endpoints /\ c.api_calls = Without(d.api_calls, OfService(d.api_calls, s))
      /\ Present(c.scripts) = Present(d.scripts)
      /\ \A k \in Present(d.scripts) :
           /\ c.scripts[k].callable = d.scripts[k].callable \ OfService(d.api_calls, s)
           /\ c.scripts[k].shape = d.scripts[k].shape
           /\ c.scripts[k].calls = d.scripts[k].calls
           /\ c.scripts[k].fixed = d.scripts[k].fixed
  BY <1>1, DropCallsFields
<1> HIDE DEF c
<1>3. /\ e \in Database
      /\ e.services = c.services /\ e.api_calls = c.api_calls
      /\ e.scripts = c.scripts /\ e.providers = Without(d.providers, OfService(d.providers, s))
      /\ Present(e.endpoints) = Present(d.endpoints)
      /\ \A f \in Present(d.endpoints) :
           /\ e.endpoints[f].scope = d.endpoints[f].scope \ OfService(d.providers, s)
           /\ e.endpoints[f].expr = d.endpoints[f].expr
           /\ e.endpoints[f].shape = d.endpoints[f].shape
           /\ e.endpoints[f].aliases = d.endpoints[f].aliases
  BY <1>2, DropProvidersFields
<1>4. e = DropService(d, s)
  BY DEF DropService, b, c
<1> HIDE DEF e
<1> QED BY <1>2, <1>3, <1>4, <1>5

\* A service goes with its calls and providers.
LEMMA DropServiceSound ==
  ASSUME NEW d, SoundRows(d), NEW s \in Services
  PROVE  SoundRows(DropService(d, s))
<1> DEFINE e == DropService(d, s)
           calls == OfService(d.api_calls, s)
           providers == OfService(d.providers, s)
<1>1. d \in Database BY DEF SoundRows
<1>2. /\ e \in Database
      /\ e.services[s] = None /\ \A r \in Services \ {s} : e.services[r] = d.services[r]
      /\ e.api_calls = Without(d.api_calls, calls)
      /\ e.providers = Without(d.providers, providers)
      /\ Present(e.scripts) = Present(d.scripts)
      /\ \A k \in Present(d.scripts) :
           /\ e.scripts[k].callable = d.scripts[k].callable \ calls
           /\ e.scripts[k].shape = d.scripts[k].shape
      /\ Present(e.endpoints) = Present(d.endpoints)
      /\ \A f \in Present(d.endpoints) :
           /\ e.endpoints[f].scope = d.endpoints[f].scope \ providers
           /\ e.endpoints[f].expr = d.endpoints[f].expr
  BY <1>1, DropServiceFields
<1>3. /\ Present(e.api_calls) = Present(d.api_calls) \ calls
      /\ \A c \in Present(d.api_calls) \ calls : e.api_calls[c] = d.api_calls[c]
  BY <1>2, WithoutRows
<1>4. /\ Present(e.providers) = Present(d.providers) \ providers
      /\ \A p \in Present(d.providers) \ providers : e.providers[p] = d.providers[p]
  BY <1>2, WithoutRows
<1>5. \A r \in Services \ {s} : e.services[r] = d.services[r]
  BY <1>2
<1>6. \A c \in Present(d.api_calls) : d.api_calls[c].service \in Services
  BY <1>1, RowTypes DEF ApiCall
<1>7. \A p \in Present(d.providers) : d.providers[p].service \in Services
  BY <1>1, RowTypes DEF Provider
<1> HIDE DEF e
<1>8. \A c \in Present(e.api_calls) :
        Storable(e.api_calls[c]) /\ e.services[e.api_calls[c].service] # None
  BY <1>3, <1>5, <1>6 DEF SoundRows, OfService
<1>9. \A p \in Present(e.providers) : e.services[e.providers[p].service] # None
  BY <1>4, <1>5, <1>7 DEF SoundRows, OfService
<1>10. \A p, q \in Present(e.providers) : e.providers[p].service = e.providers[q].service => p = q
  BY <1>4 DEF SoundRows
<1> HIDE DEF calls, providers
<1>11. \A k \in Present(e.scripts) :
         Storable(e.scripts[k]) /\ e.scripts[k].callable \subseteq Present(e.api_calls)
  BY <1>2, <1>3 DEF SoundRows, Storable
<1>12. \A f \in Present(e.endpoints) :
         e.endpoints[f].expr \in Wellformed /\ e.endpoints[f].scope \subseteq Present(e.providers)
  BY <1>2, <1>4 DEF SoundRows
<1>13. SoundRows(e)
  BY <1>2, <1>8, <1>9, <1>10, <1>11, <1>12 DEF SoundRows
<1> QED BY <1>13 DEF e
-----------------------------------------------------------------------------
(* What an accepted change leaves, and that the tables stay sound.         *)

\* A change of services: its columns' row, or all that goes with the service.
LEMMA ServiceChanged ==
  ASSUME NEW d \in Database, NEW c \in ServiceChange
  PROVE  /\ c.table = "services" /\ c.slug \in Services /\ c.verb \in Verbs
         /\ c.verb # "delete" =>
              /\ c.def \in Service
              /\ After(d, c) = Put(d, "services", c.slug, KeptService(c.def))
         /\ c.verb = "delete" => c.def = None /\ After(d, c) = DropService(d, c.slug)
<1>1. /\ c.table = "services" /\ c.slug \in Services /\ c.verb \in Verbs
      /\ c.verb # "delete" => c.def \in Service
      /\ c.verb = "delete" => c.def = None
  BY DEF ServiceChange, Change, Verbs
<1>2. c.verb # "delete" => After(d, c) = Put(d, "services", c.slug, KeptService(c.def))
  <2>1. Kept(c.table, c.def) = KeptService(c.def)
    BY <1>1 DEF Kept
  <2>2. c.verb # "delete" => After(d, c) = Replaced(d, c)
    BY DEF After
  <2>3. Replaced(d, c) = Put(d, c.table, c.slug, Kept(c.table, c.def))
    BY DEF Replaced, Put
  <2> QED BY <1>1, <2>1, <2>2, <2>3
<1>3. c.verb = "delete" => After(d, c) = DropService(d, c.slug)
  BY <1>1 DEF After, Removed, Put
<1> QED BY <1>1, <1>2, <1>3

\* A change of providers.
LEMMA ProviderChanged ==
  ASSUME NEW d \in Database, NEW c \in ProviderChange
  PROVE  /\ c.table = "providers" /\ c.slug \in Providers /\ c.verb \in Verbs
         /\ c.verb # "delete" =>
              /\ c.def \in Provider
              /\ After(d, c) = Put(d, "providers", c.slug, c.def)
         /\ c.verb = "delete" => c.def = None /\ After(d, c) = DropProviders(d, {c.slug})
<1>1. /\ c.table = "providers" /\ c.slug \in Providers /\ c.verb \in Verbs
      /\ c.verb # "delete" => c.def \in Provider
      /\ c.verb = "delete" => c.def = None
  BY DEF ProviderChange, Change, Verbs
<1>2. c.verb # "delete" => After(d, c) = Put(d, "providers", c.slug, c.def)
  <2>1. Kept(c.table, c.def) = c.def
    BY <1>1 DEF Kept
  <2>2. c.verb # "delete" => After(d, c) = Replaced(d, c)
    BY DEF After
  <2>3. Replaced(d, c) = Put(d, c.table, c.slug, Kept(c.table, c.def))
    BY DEF Replaced, Put
  <2> QED BY <1>1, <2>1, <2>2, <2>3
<1>3. c.verb = "delete" => After(d, c) = DropProviders(d, {c.slug})
  BY <1>1 DEF After, Removed, Put
<1> QED BY <1>1, <1>2, <1>3

\* A change of api_calls.
LEMMA CallChanged ==
  ASSUME NEW d \in Database, NEW c \in CallChange
  PROVE  /\ c.table = "api_calls" /\ c.slug \in Slugs /\ c.verb \in Verbs
         /\ c.verb # "delete" =>
              /\ c.def \in ApiCall
              /\ After(d, c) = Put(d, "api_calls", c.slug, c.def)
         /\ c.verb = "delete" => c.def = None /\ After(d, c) = DropCalls(d, {c.slug})
<1>1. /\ c.table = "api_calls" /\ c.slug \in Slugs /\ c.verb \in Verbs
      /\ c.verb # "delete" => c.def \in ApiCall
      /\ c.verb = "delete" => c.def = None
  BY DEF CallChange, Change, Verbs
<1>2. c.verb # "delete" => After(d, c) = Put(d, "api_calls", c.slug, c.def)
  <2>1. Kept(c.table, c.def) = c.def
    BY <1>1 DEF Kept
  <2>2. c.verb # "delete" => After(d, c) = Replaced(d, c)
    BY DEF After
  <2>3. Replaced(d, c) = Put(d, c.table, c.slug, Kept(c.table, c.def))
    BY DEF Replaced, Put
  <2> QED BY <1>1, <2>1, <2>2, <2>3
<1>3. c.verb = "delete" => After(d, c) = DropCalls(d, {c.slug})
  BY <1>1 DEF After, Removed, Put
<1> QED BY <1>1, <1>2, <1>3

\* A change of scripts.
LEMMA ScriptChanged ==
  ASSUME NEW d \in Database, NEW c \in ScriptChange
  PROVE  /\ c.table = "scripts" /\ c.slug \in Slugs /\ c.verb \in Verbs
         /\ c.verb # "delete" =>
              /\ c.def \in Script
              /\ After(d, c) = Put(d, "scripts", c.slug, KeptScript(c.def))
         /\ c.verb = "delete" => c.def = None /\ After(d, c) = Put(d, "scripts", c.slug, None)
<1>1. /\ c.table = "scripts" /\ c.slug \in Slugs /\ c.verb \in Verbs
      /\ c.verb # "delete" => c.def \in Script
      /\ c.verb = "delete" => c.def = None
  BY DEF ScriptChange, Change, Verbs
<1>2. c.verb # "delete" => After(d, c) = Put(d, "scripts", c.slug, KeptScript(c.def))
  <2>1. Kept(c.table, c.def) = KeptScript(c.def)
    BY <1>1 DEF Kept
  <2>2. c.verb # "delete" => After(d, c) = Replaced(d, c)
    BY DEF After
  <2>3. Replaced(d, c) = Put(d, c.table, c.slug, Kept(c.table, c.def))
    BY DEF Replaced, Put
  <2> QED BY <1>1, <2>1, <2>2, <2>3
<1>3. c.verb = "delete" => After(d, c) = Put(d, "scripts", c.slug, None)
  BY <1>1 DEF After, Removed, Put
<1> QED BY <1>1, <1>2, <1>3

\* A change of endpoints.
LEMMA EndpointChanged ==
  ASSUME NEW d \in Database, NEW c \in EndpointChange
  PROVE  /\ c.table = "endpoints" /\ c.slug \in Endpoints /\ c.verb \in Verbs
         /\ c.verb # "delete" =>
              /\ c.def \in Endpoint
              /\ After(d, c) = Put(d, "endpoints", c.slug, KeptEndpoint(c.def))
         /\ c.verb = "delete" => c.def = None /\ After(d, c) = Put(d, "endpoints", c.slug, None)
<1>1. /\ c.table = "endpoints" /\ c.slug \in Endpoints /\ c.verb \in Verbs
      /\ c.verb # "delete" => c.def \in Endpoint
      /\ c.verb = "delete" => c.def = None
  BY DEF EndpointChange, Change, Verbs
<1>2. c.verb # "delete" => After(d, c) = Put(d, "endpoints", c.slug, KeptEndpoint(c.def))
  <2>1. Kept(c.table, c.def) = KeptEndpoint(c.def)
    BY <1>1 DEF Kept
  <2>2. c.verb # "delete" => After(d, c) = Replaced(d, c)
    BY DEF After
  <2>3. Replaced(d, c) = Put(d, c.table, c.slug, Kept(c.table, c.def))
    BY DEF Replaced, Put
  <2> QED BY <1>1, <2>1, <2>2, <2>3
<1>3. c.verb = "delete" => After(d, c) = Put(d, "endpoints", c.slug, None)
  BY <1>1 DEF After, Removed, Put
<1> QED BY <1>1, <1>2, <1>3

\* A script goes; nothing refers to it but aliases.
LEMMA DropScriptSound ==
  ASSUME NEW d, SoundRows(d), NEW s \in Slugs
  PROVE  SoundRows(Put(d, "scripts", s, None))
<1> DEFINE e == Put(d, "scripts", s, None)
<1>1. d \in Database BY DEF SoundRows
<1>2. /\ e.scripts = [d.scripts EXCEPT ![s] = None]
      /\ e.services = d.services /\ e.providers = d.providers
      /\ e.api_calls = d.api_calls /\ e.endpoints = d.endpoints
  BY <1>1 DEF Database, Put
<1>3. e \in Database
  BY <1>1, Tables DEF Database, Put
<1> HIDE DEF e
<1>4. \A k \in Present(e.scripts) : k \in Present(d.scripts) /\ e.scripts[k] = d.scripts[k]
  BY <1>1, <1>2, Tables DEF Present
<1>5. SoundRows(e)
  BY <1>2, <1>3, <1>4 DEF SoundRows
<1> QED BY <1>5 DEF e

\* An endpoint goes; nothing refers to it.
LEMMA DropEndpointSound ==
  ASSUME NEW d, SoundRows(d), NEW f \in Endpoints
  PROVE  SoundRows(Put(d, "endpoints", f, None))
<1> DEFINE e == Put(d, "endpoints", f, None)
<1>1. d \in Database BY DEF SoundRows
<1>2. /\ e.endpoints = [d.endpoints EXCEPT ![f] = None]
      /\ e.services = d.services /\ e.providers = d.providers
      /\ e.api_calls = d.api_calls /\ e.scripts = d.scripts
  BY <1>1 DEF Database, Put
<1>3. e \in Database
  BY <1>1, Tables DEF Database, Put
<1> HIDE DEF e
<1>4. \A k \in Present(e.endpoints) : k \in Present(d.endpoints) /\ e.endpoints[k] = d.endpoints[k]
  BY <1>1, <1>2, Tables DEF Present
<1>5. SoundRows(e)
  BY <1>2, <1>3, <1>4 DEF SoundRows
<1> QED BY <1>5 DEF e

\* Whatever a store accepts of what converts leaves the tables sound.
LEMMA AfterSound ==
  ASSUME NEW d, SoundRows(d),
         NEW c \in ServiceChange \cup ProviderChange \cup CallChange \cup ScriptChange
                     \cup EndpointChange,
         Accepts(d, c), c.verb # "delete" => Converts(c.table, c.def)
  PROVE  SoundRows(After(d, c))
<1>1. d \in Database BY DEF SoundRows
<1>2. CASE c \in ServiceChange
  <2>1. CASE c.verb = "delete" BY <1>1, <1>2, <2>1, ServiceChanged, DropServiceSound
  <2>2. CASE c.verb # "delete"
    BY <1>1, <1>2, <2>2, ServiceChanged, KeptServiceType, PutService
  <2> QED BY <2>1, <2>2
<1>3. CASE c \in ProviderChange
  <2>1. CASE c.verb = "delete" BY <1>1, <1>3, <2>1, ProviderChanged, DropProvidersSound
  <2>2. CASE c.verb # "delete"
    <3>1. c.table = "providers" /\ c.slug \in Providers /\ c.def \in Provider
      BY <1>1, <1>3, <2>2, ProviderChanged
    <3>2. /\ d.services[c.def.service] # None
          /\ \A q \in Present(d.providers) \ {c.slug} : d.providers[q].service # c.def.service
      BY <3>1, <2>2 DEF Accepts, AcceptsProvider, HasParent
    <3> QED BY <1>1, <1>3, <2>2, <3>1, <3>2, ProviderChanged, PutProvider
  <2> QED BY <2>1, <2>2
<1>4. CASE c \in CallChange
  <2>1. CASE c.verb = "delete" BY <1>1, <1>4, <2>1, CallChanged, DropCallsSound
  <2>2. CASE c.verb # "delete"
    <3>1. c.table = "api_calls" /\ c.slug \in Slugs /\ c.def \in ApiCall
      BY <1>1, <1>4, <2>2, CallChanged
    <3>2. Storable(c.def) /\ d.services[c.def.service] # None
      BY <3>1, <2>2 DEF Accepts, AcceptsCall, HasParent
    <3> QED BY <1>1, <1>4, <2>2, <3>1, <3>2, CallChanged, PutCall
  <2> QED BY <2>1, <2>2
<1>5. CASE c \in ScriptChange
  <2>1. CASE c.verb = "delete" BY <1>1, <1>5, <2>1, ScriptChanged, DropScriptSound
  <2>2. CASE c.verb # "delete"
    <3>1. c.table = "scripts" /\ c.slug \in Slugs /\ c.def \in Script
      BY <1>1, <1>5, <2>2, ScriptChanged
    <3>2. Storable(c.def) /\ c.def.callable \subseteq Present(d.api_calls)
      BY <3>1, <2>2 DEF Accepts, AcceptsScript
    <3>3. /\ KeptScript(c.def) \in Script /\ Storable(KeptScript(c.def))
          /\ KeptScript(c.def).callable \subseteq Present(d.api_calls)
      BY <3>1, <3>2, KeptScriptType DEF Storable
    <3> QED BY <1>1, <1>5, <2>2, <3>1, <3>3, ScriptChanged, PutScript
  <2> QED BY <2>1, <2>2
<1>6. CASE c \in EndpointChange
  <2>1. CASE c.verb = "delete" BY <1>1, <1>6, <2>1, EndpointChanged, DropEndpointSound
  <2>2. CASE c.verb # "delete"
    <3>1. c.table = "endpoints" /\ c.slug \in Endpoints /\ c.def \in Endpoint
      BY <1>1, <1>6, <2>2, EndpointChanged
    <3>2. c.def.scope \subseteq Present(d.providers) /\ c.def.expr \in Wellformed
      BY <3>1, <2>2 DEF Accepts, AcceptsEndpoint, Converts
    <3>3. /\ KeptEndpoint(c.def) \in Endpoint /\ KeptEndpoint(c.def).expr \in Wellformed
          /\ KeptEndpoint(c.def).scope \subseteq Present(d.providers)
      BY <3>1, <3>2, KeptEndpointType
    <3> QED BY <1>1, <1>6, <2>2, <3>1, <3>3, EndpointChanged, PutEndpoint
  <2> QED BY <2>1, <2>2
<1> QED BY <1>2, <1>3, <1>4, <1>5, <1>6
-----------------------------------------------------------------------------
(* Validity: what a change that validates alone leaves.                    *)

\* The rules of a pack, spelt out over the tables of a database.
ValidRows(e) ==
  /\ \A s \in Present(e.services) : e.services[s].origin \in e.services[s].allowlist
  /\ \A c \in Present(e.api_calls) :
       e.api_calls[c].shape # "invalid" /\ e.services[e.api_calls[c].service] # None
  /\ \A s \in Present(e.scripts) :
       e.scripts[s].shape # "invalid" /\ e.scripts[s].callable \subseteq Present(e.api_calls)
  /\ \A f \in Present(e.endpoints) :
       /\ e.endpoints[f].shape # "invalid" /\ e.endpoints[f].expr \in Wellformed
       /\ \A a \in e.endpoints[f].aliases :
            /\ a.kind = "api_calls" => e.api_calls[a.slug] # None
            /\ a.kind = "scripts" => e.scripts[a.slug] # None

\* They are the rules of the pack that is read from them.
LEMMA ValidSnapshot ==
  ASSUME NEW e \in Database
  PROVE  Valid(Snapshot(e)) <=> ValidRows(e)
<1> DEFINE p == Snapshot(e)
<1>1. /\ p.services = e.services /\ p.api_calls = e.api_calls
      /\ p.scripts = e.scripts /\ p.endpoints = e.endpoints
      /\ p["api_calls"] = e.api_calls /\ p["scripts"] = e.scripts
  BY DEF Snapshot, PackTables, Database
<1> HIDE DEF p
<1>2. \A f \in Present(e.endpoints) : \A a \in e.endpoints[f].aliases :
        a.kind \in {"api_calls", "scripts"}
  BY RowTypes DEF Endpoint, Alias, Kinds
<1>3. \A f \in Present(e.endpoints) : \A a \in e.endpoints[f].aliases :
        p[a.kind][a.slug] # None <=>
          /\ a.kind = "api_calls" => e.api_calls[a.slug] # None
          /\ a.kind = "scripts" => e.scripts[a.slug] # None
  BY <1>1, <1>2
<1>4. (\A s \in Present(p.services) : ValidService(p.services[s]))
        <=> \A s \in Present(e.services) : e.services[s].origin \in e.services[s].allowlist
  BY <1>1 DEF ValidService
<1>5. (\A c \in Present(p.api_calls) : ValidCall(p, p.api_calls[c]))
        <=> \A c \in Present(e.api_calls) :
              e.api_calls[c].shape # "invalid" /\ e.services[e.api_calls[c].service] # None
  BY <1>1 DEF ValidCall
<1>6. (\A s \in Present(p.scripts) : ValidScript(p, p.scripts[s]))
        <=> \A s \in Present(e.scripts) :
              e.scripts[s].shape # "invalid" /\ e.scripts[s].callable \subseteq Present(e.api_calls)
  BY <1>1 DEF ValidScript
<1>7. (\A f \in Present(p.endpoints) : ValidEndpoint(p, p.endpoints[f]))
        <=> \A f \in Present(e.endpoints) :
              /\ e.endpoints[f].shape # "invalid" /\ e.endpoints[f].expr \in Wellformed
              /\ \A a \in e.endpoints[f].aliases :
                   /\ a.kind = "api_calls" => e.api_calls[a.slug] # None
                   /\ a.kind = "scripts" => e.scripts[a.slug] # None
  BY <1>1, <1>3 DEF ValidEndpoint
<1> QED BY <1>4, <1>5, <1>6, <1>7 DEF Valid, ValidRows, p

\* Writing a row of a pack's table and reading the pack commute.
LEMMA PutSnapshot ==
  ASSUME NEW d \in Database, NEW table \in PackTables, NEW k, NEW x
  PROVE  Put(Snapshot(d), table, k, x) = Snapshot(Put(d, table, k, x))
  BY DEF Put, Snapshot, PackTables, Database

\* Aliases name slugs of the two kinds.
LEMMA AliasTypes ==
  ASSUME NEW d \in Database, NEW f \in Present(d.endpoints), NEW a \in d.endpoints[f].aliases
  PROVE  a.kind \in Kinds /\ a.slug \in Slugs
  BY RowTypes DEF Endpoint, Alias

\* A service that may be written leaves the rules kept: what its columns change no
\* rule reads, and one that may go has no calls left.
LEMMA ServiceValid ==
  ASSUME NEW d \in Database, NEW c \in ServiceChange,
         ValidRows(Put(d, "services", c.slug, c.def))
  PROVE  ValidRows(After(d, c))
<1> DEFINE e == Put(d, "services", c.slug, c.def)
           g == After(d, c)
<1>1. c.slug \in Services BY ServiceChanged
<1>2. /\ e.services = [d.services EXCEPT ![c.slug] = c.def]
      /\ e.api_calls = d.api_calls /\ e.scripts = d.scripts /\ e.endpoints = d.endpoints
  BY DEF Put, Database
<1>3. \A k \in Present(d.api_calls) : d.api_calls[k].service \in Services
  BY RowTypes DEF ApiCall
<1>4. d.services \in [Services -> Service \cup {None}] BY Tables
<1>5. CASE c.verb # "delete"
  <2> DEFINE x == KeptService(c.def)
  <2>1. c.def \in Service /\ g = Put(d, "services", c.slug, x)
    BY <1>5, ServiceChanged
  <2>2. x \in Service /\ x.origin = c.def.origin /\ x.allowlist = c.def.allowlist
    BY <2>1, KeptServiceType
  <2>3. /\ g.services = [d.services EXCEPT ![c.slug] = x]
        /\ g.api_calls = d.api_calls /\ g.scripts = d.scripts /\ g.endpoints = d.endpoints
    BY <2>1 DEF Put, Database
  <2>4. x # None /\ c.def # None BY <2>1, <2>2, NoneIsNoRow
  <2> HIDE DEF e, g, x
  <2>5. \A s \in Services :
          /\ g.services[s] # None <=> e.services[s] # None
          /\ s # c.slug => g.services[s] = e.services[s]
    BY <1>2, <2>3, <2>4, <1>1, <1>4
  <2>6. DOMAIN g.services = Services /\ DOMAIN e.services = Services
    BY <1>2, <2>3, <1>4
  <2>7. e.services[c.slug] = c.def /\ g.services[c.slug] = x
    BY <1>1, <1>2, <2>3, <1>4
  <2>8. \A s \in Present(g.services) : g.services[s].origin \in g.services[s].allowlist
    BY <2>2, <2>5, <2>6, <2>7 DEF ValidRows, Present, e
  <2>9. \A k \in Present(g.api_calls) :
          g.api_calls[k].shape # "invalid" /\ g.services[g.api_calls[k].service] # None
    BY <1>2, <1>3, <2>3, <2>5 DEF ValidRows, e
  <2> QED BY <1>2, <2>3, <2>8, <2>9 DEF ValidRows, e, g
<1>6. CASE c.verb = "delete"
  <2>1. c.def = None /\ g = DropService(d, c.slug) BY <1>6, ServiceChanged
  <2>2. \A k \in Present(d.api_calls) : e.services[d.api_calls[k].service] # None
    BY <1>2 DEF ValidRows
  <2>3. OfService(d.api_calls, c.slug) = {}
    BY <1>1, <1>2, <1>3, <1>4, <2>1, <2>2 DEF OfService
  <2>4. /\ g.services[c.slug] = None
        /\ \A r \in Services \ {c.slug} : g.services[r] = d.services[r]
        /\ g.api_calls = Without(d.api_calls, OfService(d.api_calls, c.slug))
        /\ Present(g.scripts) = Present(d.scripts)
        /\ \A k \in Present(d.scripts) :
             /\ g.scripts[k].callable = d.scripts[k].callable \ OfService(d.api_calls, c.slug)
             /\ g.scripts[k].shape = d.scripts[k].shape
        /\ Present(g.endpoints) = Present(d.endpoints)
        /\ \A f \in Present(d.endpoints) :
             /\ g.endpoints[f].expr = d.endpoints[f].expr
             /\ g.endpoints[f].shape = d.endpoints[f].shape
             /\ g.endpoints[f].aliases = d.endpoints[f].aliases
    BY <1>1, <2>1, DropServiceFields
  <2>5. g \in Database BY <1>1, <2>1, DropServiceFields
  <2>6. g.services = e.services BY <1>1, <1>2, <1>4, <2>1, <2>4, <2>5, Tables
  <2>7. g.api_calls = d.api_calls BY <2>3, <2>4, Tables DEF Without
  <2>8. \A s \in Slugs : g.scripts[s] # None <=> d.scripts[s] # None
    BY <2>4, <2>5, Tables DEF Present
  <2>9. \A f \in Present(d.endpoints) : \A a \in d.endpoints[f].aliases : a.slug \in Slugs
    BY AliasTypes
  <2> HIDE DEF e, g
  <2>10. \A s \in Present(g.scripts) :
           g.scripts[s].shape # "invalid" /\ g.scripts[s].callable \subseteq Present(g.api_calls)
    BY <1>2, <2>3, <2>4, <2>7 DEF ValidRows, e
  <2>11. \A f \in Present(g.endpoints) :
           /\ g.endpoints[f].shape # "invalid" /\ g.endpoints[f].expr \in Wellformed
           /\ \A a \in g.endpoints[f].aliases :
                /\ a.kind = "api_calls" => g.api_calls[a.slug] # None
                /\ a.kind = "scripts" => g.scripts[a.slug] # None
    BY <1>2, <2>4, <2>7, <2>8, <2>9 DEF ValidRows, e
  <2> QED BY <1>2, <2>6, <2>7, <2>10, <2>11 DEF ValidRows, e, g
<1> QED BY <1>5, <1>6, ServiceChanged

\* A call that may be written leaves the rules kept; one that may go is called by none.
LEMMA CallValid ==
  ASSUME NEW d \in Database, NEW c \in CallChange,
         ValidRows(Put(d, "api_calls", c.slug, c.def))
  PROVE  ValidRows(After(d, c))
<1> DEFINE e == Put(d, "api_calls", c.slug, c.def)
           g == After(d, c)
<1>1. c.slug \in Slugs BY CallChanged
<1>2. /\ e.api_calls = [d.api_calls EXCEPT ![c.slug] = c.def]
      /\ e.services = d.services /\ e.scripts = d.scripts /\ e.endpoints = d.endpoints
  BY DEF Put, Database
<1>3. CASE c.verb # "delete" BY <1>3, CallChanged
<1>4. CASE c.verb = "delete"
  <2>1. c.def = None /\ g = DropCalls(d, {c.slug}) BY <1>4, CallChanged
  <2>2. /\ g.services = d.services /\ g.endpoints = d.endpoints
        /\ g.api_calls = Without(d.api_calls, {c.slug})
        /\ Present(g.scripts) = Present(d.scripts)
        /\ \A s \in Present(d.scripts) :
             /\ g.scripts[s].callable = d.scripts[s].callable \ {c.slug}
             /\ g.scripts[s].shape = d.scripts[s].shape
    BY <2>1, DropCallsFields
  <2>3. g \in Database BY <2>1, DropCallsFields
  <2>4. g.api_calls = e.api_calls
    BY <1>1, <1>2, <2>1, <2>2, Tables DEF Without
  <2>5. \A s \in Slugs : g.scripts[s] # None <=> d.scripts[s] # None
    BY <2>2, <2>3, Tables DEF Present
  <2>6. \A f \in Present(d.endpoints) : \A a \in d.endpoints[f].aliases : a.slug \in Slugs
    BY AliasTypes
  <2> HIDE DEF e, g
  <2>7. \A s \in Present(g.scripts) :
          g.scripts[s].shape # "invalid" /\ g.scripts[s].callable \subseteq Present(g.api_calls)
    BY <1>2, <2>2, <2>4 DEF ValidRows, e
  <2>8. \A f \in Present(d.endpoints) :
          /\ d.endpoints[f].shape # "invalid" /\ d.endpoints[f].expr \in Wellformed
          /\ \A a \in d.endpoints[f].aliases :
               /\ a.kind = "api_calls" => g.api_calls[a.slug] # None
               /\ a.kind = "scripts" => d.scripts[a.slug] # None
    BY <1>2, <2>4 DEF ValidRows, e
  <2>9. \A f \in Present(d.endpoints) : \A a \in d.endpoints[f].aliases :
          a.kind = "scripts" => g.scripts[a.slug] # None
    BY <2>5, <2>6, <2>8
  <2>10. \A f \in Present(g.endpoints) :
           /\ g.endpoints[f].shape # "invalid" /\ g.endpoints[f].expr \in Wellformed
           /\ \A a \in g.endpoints[f].aliases :
                /\ a.kind = "api_calls" => g.api_calls[a.slug] # None
                /\ a.kind = "scripts" => g.scripts[a.slug] # None
    BY <2>2, <2>8, <2>9
  <2>11. /\ \A r \in Present(g.services) : g.services[r].origin \in g.services[r].allowlist
         /\ \A k \in Present(g.api_calls) :
              g.api_calls[k].shape # "invalid" /\ g.services[g.api_calls[k].service] # None
    BY <1>2, <2>2, <2>4 DEF ValidRows, e
  <2> QED BY <2>7, <2>10, <2>11 DEF ValidRows, g
<1> QED BY <1>3, <1>4

\* A script that may be written leaves the rules kept.
LEMMA ScriptValid ==
  ASSUME NEW d \in Database, NEW c \in ScriptChange,
         ValidRows(Put(d, "scripts", c.slug, c.def))
  PROVE  ValidRows(After(d, c))
<1> DEFINE e == Put(d, "scripts", c.slug, c.def)
           g == After(d, c)
<1>1. c.slug \in Slugs BY ScriptChanged
<1>2. /\ e.scripts = [d.scripts EXCEPT ![c.slug] = c.def]
      /\ e.services = d.services /\ e.api_calls = d.api_calls /\ e.endpoints = d.endpoints
  BY DEF Put, Database
<1>3. CASE c.verb # "delete"
  <2> DEFINE x == KeptScript(c.def)
  <2>1. c.def \in Script /\ g = Put(d, "scripts", c.slug, x)
    BY <1>3, ScriptChanged
  <2>2. x \in Script /\ x.callable = c.def.callable /\ x.shape = c.def.shape
    BY <2>1, KeptScriptType
  <2>3. /\ g.scripts = [d.scripts EXCEPT ![c.slug] = x]
        /\ g.services = d.services /\ g.api_calls = d.api_calls /\ g.endpoints = d.endpoints
    BY <2>1 DEF Put, Database
  <2>4. x # None /\ c.def # None BY <2>1, <2>2, NoneIsNoRow
  <2>5. d.scripts \in [Slugs -> Script \cup {None}] BY Tables
  <2> HIDE DEF e, g, x
  <2>6. /\ DOMAIN g.scripts = Slugs /\ DOMAIN e.scripts = Slugs
        /\ e.scripts[c.slug] = c.def /\ g.scripts[c.slug] = x
        /\ \A s \in Slugs \ {c.slug} : g.scripts[s] = e.scripts[s]
    BY <1>1, <1>2, <2>3, <2>5
  <2>7. \A s \in Slugs : g.scripts[s] # None <=> e.scripts[s] # None
    BY <2>4, <2>6
  <2>8. \A s \in Present(g.scripts) :
          g.scripts[s].shape # "invalid" /\ g.scripts[s].callable \subseteq Present(g.api_calls)
    BY <1>2, <2>2, <2>3, <2>6, <2>7 DEF ValidRows, Present, e
  <2>9. \A f \in Present(d.endpoints) : \A a \in d.endpoints[f].aliases : a.slug \in Slugs
    BY AliasTypes
  <2>10. \A f \in Present(g.endpoints) :
           /\ g.endpoints[f].shape # "invalid" /\ g.endpoints[f].expr \in Wellformed
           /\ \A a \in g.endpoints[f].aliases :
                /\ a.kind = "api_calls" => g.api_calls[a.slug] # None
                /\ a.kind = "scripts" => g.scripts[a.slug] # None
    BY <1>2, <2>3, <2>7, <2>9 DEF ValidRows, e
  <2> QED BY <1>2, <2>3, <2>8, <2>10 DEF ValidRows, e, g
<1>4. CASE c.verb = "delete" BY <1>4, ScriptChanged
<1> QED BY <1>3, <1>4

\* An endpoint that may be written leaves the rules kept: it is printed, but accepts
\* the same and names the same.
LEMMA EndpointValid ==
  ASSUME NEW d \in Database, NEW c \in EndpointChange,
         ValidRows(Put(d, "endpoints", c.slug, c.def))
  PROVE  ValidRows(After(d, c))
<1> DEFINE e == Put(d, "endpoints", c.slug, c.def)
           g == After(d, c)
<1>1. c.slug \in Endpoints BY EndpointChanged
<1>2. /\ e.endpoints = [d.endpoints EXCEPT ![c.slug] = c.def]
      /\ e.services = d.services /\ e.api_calls = d.api_calls /\ e.scripts = d.scripts
  BY DEF Put, Database
<1>3. CASE c.verb # "delete"
  <2> DEFINE x == KeptEndpoint(c.def)
  <2>1. c.def \in Endpoint /\ g = Put(d, "endpoints", c.slug, x)
    BY <1>3, EndpointChanged
  <2>2. d.endpoints \in [Endpoints -> Endpoint \cup {None}] BY Tables
  <2>3. c.def # None BY <2>1, NoneIsNoRow
  <2>4. c.slug \in Present(e.endpoints) /\ e.endpoints[c.slug] = c.def
    BY <1>1, <1>2, <2>2, <2>3 DEF Present
  <2>5. c.def.expr \in Wellformed /\ c.def.shape # "invalid"
    BY <2>4 DEF ValidRows
  <2>6. /\ x \in Endpoint /\ x.expr \in Wellformed
        /\ x.aliases = c.def.aliases /\ x.shape = c.def.shape
    BY <2>1, <2>5, KeptEndpointType
  <2>7. /\ g.endpoints = [d.endpoints EXCEPT ![c.slug] = x]
        /\ g.services = d.services /\ g.api_calls = d.api_calls /\ g.scripts = d.scripts
    BY <2>1 DEF Put, Database
  <2> HIDE DEF e, g, x
  <2>8. /\ DOMAIN g.endpoints = Endpoints /\ DOMAIN e.endpoints = Endpoints
        /\ g.endpoints[c.slug] = x
        /\ \A f \in Endpoints \ {c.slug} : g.endpoints[f] = e.endpoints[f]
    BY <1>1, <1>2, <2>7, <2>2
  <2>9. \A f \in Present(g.endpoints) :
          /\ f \in Present(e.endpoints)
          /\ g.endpoints[f].shape # "invalid" /\ g.endpoints[f].expr \in Wellformed
          /\ g.endpoints[f].aliases = e.endpoints[f].aliases
    <3> SUFFICES ASSUME NEW f \in Present(g.endpoints)
                 PROVE  /\ f \in Present(e.endpoints)
                        /\ g.endpoints[f].shape # "invalid" /\ g.endpoints[f].expr \in Wellformed
                        /\ g.endpoints[f].aliases = e.endpoints[f].aliases
      OBVIOUS
    <3>1. CASE f = c.slug BY <3>1, <2>4, <2>5, <2>6, <2>8
    <3>2. CASE f # c.slug BY <3>2, <2>8 DEF ValidRows, Present, e
    <3> QED BY <3>1, <3>2
  <2>10. \A f \in Present(g.endpoints) : \A a \in g.endpoints[f].aliases :
           /\ a.kind = "api_calls" => g.api_calls[a.slug] # None
           /\ a.kind = "scripts" => g.scripts[a.slug] # None
    BY <1>2, <2>7, <2>9 DEF ValidRows, e
  <2> QED BY <1>2, <2>7, <2>9, <2>10 DEF ValidRows, e, g
<1>4. CASE c.verb = "delete" BY <1>4, EndpointChanged
<1> QED BY <1>3, <1>4

\* No rule of a pack is about providers.
LEMMA ProviderValid ==
  ASSUME NEW d \in Database, NEW c \in ProviderChange, ValidRows(d)
  PROVE  ValidRows(After(d, c))
<1> DEFINE g == After(d, c)
<1>1. CASE c.verb # "delete"
  <2>0. g = Put(d, "providers", c.slug, c.def)
    BY <1>1, ProviderChanged
  <2>1. /\ g.services = d.services /\ g.api_calls = d.api_calls
        /\ g.scripts = d.scripts /\ g.endpoints = d.endpoints
    BY <2>0 DEF Put, Database
  <2> QED BY <2>1 DEF ValidRows
<1>2. CASE c.verb = "delete"
  <2>1. g = DropProviders(d, {c.slug}) BY <1>2, ProviderChanged
  <2>2. /\ g.services = d.services /\ g.api_calls = d.api_calls
        /\ g.scripts = d.scripts
        /\ Present(g.endpoints) = Present(d.endpoints)
        /\ \A f \in Present(d.endpoints) :
             /\ g.endpoints[f].expr = d.endpoints[f].expr
             /\ g.endpoints[f].shape = d.endpoints[f].shape
             /\ g.endpoints[f].aliases = d.endpoints[f].aliases
    BY <2>1, DropProvidersFields
  <2> HIDE DEF g
  <2> QED BY <2>2 DEF ValidRows, g
<1> QED BY <1>1, <1>2

\* A pack with a change applied is the pack read from the tables with its row written.
LEMMA PendingSnapshot ==
  ASSUME NEW d \in Database,
         NEW c \in ServiceChange \cup CallChange \cup ScriptChange \cup EndpointChange
  PROVE  /\ Put(d, c.table, c.slug, c.def) \in Database
         /\ Valid(Pending(Snapshot(d), c)) <=> ValidRows(Put(d, c.table, c.slug, c.def))
<1>1. c.table \in PackTables
  BY ServiceChanged, CallChanged, ScriptChanged, EndpointChanged DEF PackTables
<1>2. Put(d, c.table, c.slug, c.def) \in Database
  <2>1. CASE c \in ServiceChange
    <3>1. c.table = "services" /\ c.slug \in Services /\ c.def \in Service \cup {None}
      BY <2>1, ServiceChanged
    <3>2. Put(d, "services", c.slug, c.def) \in Database
      BY <3>1, Tables DEF Put, Database
    <3> QED BY <3>1, <3>2
  <2>2. CASE c \in CallChange
    <3>1. c.table = "api_calls" /\ c.slug \in Slugs /\ c.def \in ApiCall \cup {None}
      BY <2>2, CallChanged
    <3>2. Put(d, "api_calls", c.slug, c.def) \in Database
      BY <3>1, Tables DEF Put, Database
    <3> QED BY <3>1, <3>2
  <2>3. CASE c \in ScriptChange
    <3>1. c.table = "scripts" /\ c.slug \in Slugs /\ c.def \in Script \cup {None}
      BY <2>3, ScriptChanged
    <3>2. Put(d, "scripts", c.slug, c.def) \in Database
      BY <3>1, Tables DEF Put, Database
    <3> QED BY <3>1, <3>2
  <2>4. CASE c \in EndpointChange
    <3>1. c.table = "endpoints" /\ c.slug \in Endpoints /\ c.def \in Endpoint \cup {None}
      BY <2>4, EndpointChanged
    <3>2. Put(d, "endpoints", c.slug, c.def) \in Database
      BY <3>1, Tables DEF Put, Database
    <3> QED BY <3>1, <3>2
  <2> QED BY <2>1, <2>2, <2>3, <2>4
<1>3. Pending(Snapshot(d), c) = Put(Snapshot(d), c.table, c.slug, c.def)
  BY DEF Pending, Put
<1> QED BY <1>1, <1>2, <1>3, PutSnapshot, ValidSnapshot

\* What validates alone is valid once it is written.
LEMMA AfterValid ==
  ASSUME NEW d, SoundRows(d),
         NEW c \in ServiceChange \cup CallChange \cup ScriptChange \cup EndpointChange,
         Accepts(d, c), c.verb # "delete" => Converts(c.table, c.def),
         Valid(Pending(Snapshot(d), c))
  PROVE  Valid(Snapshot(After(d, c)))
<1>1. d \in Database BY DEF SoundRows
<1>2. After(d, c) \in Database BY AfterSound DEF SoundRows
<1>3. ValidRows(Put(d, c.table, c.slug, c.def)) BY <1>1, PendingSnapshot
<1>4. ValidRows(After(d, c))
  <2>1. CASE c \in ServiceChange BY <1>1, <1>3, <2>1, ServiceChanged, ServiceValid
  <2>2. CASE c \in CallChange BY <1>1, <1>3, <2>2, CallChanged, CallValid
  <2>3. CASE c \in ScriptChange BY <1>1, <1>3, <2>3, ScriptChanged, ScriptValid
  <2>4. CASE c \in EndpointChange BY <1>1, <1>3, <2>4, EndpointChanged, EndpointValid
  <2> QED BY <2>1, <2>2, <2>3, <2>4
<1> QED BY <1>2, <1>4, ValidSnapshot

\* Whether a row keeps the rules beside the rows of a pack.
FitsIn(p, table, x) ==
  /\ table = "services" => ValidService(x)
  /\ table = "api_calls" => ValidCall(p, x)
  /\ table = "scripts" => ValidScript(p, x)
  /\ table = "endpoints" => ValidEndpoint(p, x)

\* A row more never breaks a pack, if it keeps the rules itself.
LEMMA FittingRow ==
  ASSUME NEW d \in Database, Valid(Snapshot(d)),
         NEW c \in ServiceChange \cup CallChange \cup ScriptChange \cup EndpointChange,
         c.verb # "delete", FitsIn(Snapshot(d), c.table, c.def)
  PROVE  Valid(Pending(Snapshot(d), c))
<1> DEFINE e == Put(d, c.table, c.slug, c.def)
           p == Snapshot(d)
<1>1. ValidRows(d) BY ValidSnapshot
<1>2. /\ p.services = d.services /\ p.api_calls = d.api_calls
      /\ p.scripts = d.scripts /\ p.endpoints = d.endpoints
      /\ p["api_calls"] = d.api_calls /\ p["scripts"] = d.scripts
  BY DEF Snapshot, PackTables, Database
<1>3. e \in Database BY PendingSnapshot
<1>4. \A f \in Present(d.endpoints) : \A a \in d.endpoints[f].aliases :
        a.kind \in Kinds /\ a.slug \in Slugs
  BY AliasTypes
<1>5. ValidRows(e)
  <2>1. CASE c \in ServiceChange
    <3>1. c.table = "services" /\ c.slug \in Services /\ c.def \in Service /\ c.def # None
      BY <2>1, ServiceChanged, NoneIsNoRow
    <3>2. /\ e.services = [d.services EXCEPT ![c.slug] = c.def]
          /\ e.api_calls = d.api_calls /\ e.scripts = d.scripts /\ e.endpoints = d.endpoints
      BY <3>1 DEF Put, Database
    <3>3. c.def.origin \in c.def.allowlist BY <3>1 DEF FitsIn, ValidService
    <3>4. /\ e.services[c.slug] = c.def
          /\ \A s \in Services \ {c.slug} : e.services[s] = d.services[s]
          /\ DOMAIN e.services = Services
      BY <3>1, <3>2, Tables
    <3>5. \A k \in Present(d.api_calls) : d.api_calls[k].service \in Services
      BY RowTypes DEF ApiCall
    <3> HIDE DEF e, p
    <3>6. \A s \in Present(e.services) : e.services[s].origin \in e.services[s].allowlist
      BY <1>1, <3>3, <3>4, Tables DEF ValidRows, Present
    <3>7. \A k \in Present(d.api_calls) : e.services[d.api_calls[k].service] # None
      BY <1>1, <3>1, <3>4, <3>5 DEF ValidRows
    <3> QED BY <1>1, <3>2, <3>6, <3>7 DEF ValidRows
  <2>2. CASE c \in CallChange
    <3>1. c.table = "api_calls" /\ c.slug \in Slugs /\ c.def \in ApiCall /\ c.def # None
      BY <2>2, CallChanged, NoneIsNoRow
    <3>2. /\ e.api_calls = [d.api_calls EXCEPT ![c.slug] = c.def]
          /\ e.services = d.services /\ e.scripts = d.scripts /\ e.endpoints = d.endpoints
      BY <3>1 DEF Put, Database
    <3>3. c.def.shape # "invalid" /\ d.services[c.def.service] # None
      BY <1>2, <3>1 DEF FitsIn, ValidCall
    <3>4. /\ e.api_calls[c.slug] = c.def
          /\ \A k \in Slugs \ {c.slug} : e.api_calls[k] = d.api_calls[k]
          /\ DOMAIN e.api_calls = Slugs /\ DOMAIN d.api_calls = Slugs
      BY <3>1, <3>2, Tables
    <3> HIDE DEF e, p
    <3>5. \A k \in Present(e.api_calls) :
            e.api_calls[k].shape # "invalid" /\ e.services[e.api_calls[k].service] # None
      BY <1>1, <3>2, <3>3, <3>4 DEF ValidRows, Present
    <3>6. Present(d.api_calls) \subseteq Present(e.api_calls)
      BY <3>1, <3>4 DEF Present
    <3>7. \A f \in Present(d.endpoints) : \A a \in d.endpoints[f].aliases :
            /\ a.kind = "api_calls" => e.api_calls[a.slug] # None
            /\ a.kind = "scripts" => d.scripts[a.slug] # None
      BY <1>1, <1>4, <3>1, <3>4 DEF ValidRows
    <3> QED BY <1>1, <3>2, <3>5, <3>6, <3>7 DEF ValidRows
  <2>3. CASE c \in ScriptChange
    <3>1. c.table = "scripts" /\ c.slug \in Slugs /\ c.def \in Script /\ c.def # None
      BY <2>3, ScriptChanged, NoneIsNoRow
    <3>2. /\ e.scripts = [d.scripts EXCEPT ![c.slug] = c.def]
          /\ e.services = d.services /\ e.api_calls = d.api_calls /\ e.endpoints = d.endpoints
      BY <3>1 DEF Put, Database
    <3>3. c.def.shape # "invalid" /\ c.def.callable \subseteq Present(d.api_calls)
      BY <1>2, <3>1 DEF FitsIn, ValidScript
    <3>4. /\ e.scripts[c.slug] = c.def
          /\ \A k \in Slugs \ {c.slug} : e.scripts[k] = d.scripts[k]
          /\ DOMAIN e.scripts = Slugs /\ DOMAIN d.scripts = Slugs
      BY <3>1, <3>2, Tables
    <3> HIDE DEF e, p
    <3>5. \A k \in Present(e.scripts) :
            e.scripts[k].shape # "invalid" /\ e.scripts[k].callable \subseteq Present(d.api_calls)
      BY <1>1, <3>2, <3>3, <3>4 DEF ValidRows, Present
    <3>6. \A f \in Present(d.endpoints) : \A a \in d.endpoints[f].aliases :
            /\ a.kind = "api_calls" => d.api_calls[a.slug] # None
            /\ a.kind = "scripts" => e.scripts[a.slug] # None
      BY <1>1, <1>4, <3>1, <3>4 DEF ValidRows
    <3> QED BY <1>1, <3>2, <3>5, <3>6 DEF ValidRows
  <2>4. CASE c \in EndpointChange
    <3>1. /\ c.table = "endpoints" /\ c.slug \in Endpoints
          /\ c.def \in Endpoint /\ c.def # None
      BY <2>4, EndpointChanged, NoneIsNoRow
    <3>2. /\ e.endpoints = [d.endpoints EXCEPT ![c.slug] = c.def]
          /\ e.services = d.services /\ e.api_calls = d.api_calls /\ e.scripts = d.scripts
      BY <3>1 DEF Put, Database
    <3>3. /\ c.def.shape # "invalid" /\ c.def.expr \in Wellformed
          /\ \A a \in c.def.aliases : p[a.kind][a.slug] # None
      BY <3>1 DEF FitsIn, ValidEndpoint
    <3>4. \A a \in c.def.aliases : /\ a.kind = "api_calls" => d.api_calls[a.slug] # None
                                   /\ a.kind = "scripts" => d.scripts[a.slug] # None
      BY <1>2, <3>3
    <3>5. /\ e.endpoints[c.slug] = c.def
          /\ \A f \in Endpoints \ {c.slug} : e.endpoints[f] = d.endpoints[f]
          /\ DOMAIN e.endpoints = Endpoints /\ DOMAIN d.endpoints = Endpoints
      BY <3>1, <3>2, Tables
    <3> HIDE DEF e, p
    <3>6. \A f \in Present(e.endpoints) :
            /\ e.endpoints[f].shape # "invalid" /\ e.endpoints[f].expr \in Wellformed
            /\ \A a \in e.endpoints[f].aliases :
                 /\ a.kind = "api_calls" => d.api_calls[a.slug] # None
                 /\ a.kind = "scripts" => d.scripts[a.slug] # None
      <4> SUFFICES ASSUME NEW f \in Present(e.endpoints)
                   PROVE  /\ e.endpoints[f].shape # "invalid"
                          /\ e.endpoints[f].expr \in Wellformed
                          /\ \A a \in e.endpoints[f].aliases :
                               /\ a.kind = "api_calls" => d.api_calls[a.slug] # None
                               /\ a.kind = "scripts" => d.scripts[a.slug] # None
        OBVIOUS
      <4>1. CASE f = c.slug BY <3>3, <3>4, <3>5, <4>1
      <4>2. CASE f # c.slug
        <5>1. f \in Present(d.endpoints) /\ e.endpoints[f] = d.endpoints[f]
          BY <3>5, <4>2 DEF Present
        <5> QED BY <1>1, <5>1 DEF ValidRows
      <4> QED BY <4>1, <4>2
    <3> QED BY <1>1, <3>2, <3>6 DEF ValidRows
  <2> QED BY <2>1, <2>2, <2>3, <2>4
<1> QED BY <1>5, PendingSnapshot
-----------------------------------------------------------------------------
(* Rows as their tables keep them.                                         *)

\* The conditions of AsKept, one row at a time.
KeptRow(table, x) ==
  /\ table = "services" => x.limit = None \/ Signed(x.limit) > 0
  /\ table = "scripts" => ~x.fixed /\ (x.calls = None \/ Signed(x.calls) >= 0)
  /\ table = "endpoints" => Printed[x.expr] = x.expr

\* What is kept meets them, and is kept as it is when it is kept again.
LEMMA KeptIsKept ==
  /\ \A x \in Service : KeptRow("services", KeptService(x))
  /\ \A x \in Script : KeptRow("scripts", KeptScript(x))
  /\ \A x \in Endpoint : x.expr \in Wellformed => KeptRow("endpoints", KeptEndpoint(x))
<1>1. ASSUME NEW x \in Service PROVE KeptRow("services", KeptService(x))
  <2>1. KeptService(x).limit = IF x.limit # None /\ Signed(x.limit) > 0 THEN x.limit ELSE None
    BY DEF KeptService, Service
  <2> QED BY <2>1 DEF KeptRow
<1>2. ASSUME NEW x \in Script PROVE KeptRow("scripts", KeptScript(x))
  <2>1. /\ KeptScript(x).calls = IF x.calls # None /\ Signed(x.calls) < 0 THEN 0 ELSE x.calls
        /\ KeptScript(x).fixed = FALSE
    BY DEF KeptScript, Script
  <2>2. x.calls \in Limit BY DEF Script
  <2>3. x.calls # None => Signed(x.calls) \in Int
    BY <2>2, CatalogAssumption DEF Limit, Count, Signed
  <2>4. Signed(0) = 0 BY CatalogAssumption DEF Signed
  <2>5. KeptScript(x).calls = None \/ Signed(KeptScript(x).calls) >= 0
    BY <2>1, <2>3, <2>4
  <2> QED BY <2>1, <2>5 DEF KeptRow
<1>3. ASSUME NEW x \in Endpoint, x.expr \in Wellformed
      PROVE  KeptRow("endpoints", KeptEndpoint(x))
  <2>1. KeptEndpoint(x).expr = Printed[x.expr] BY <1>3, KeptEndpointType
  <2>2. Printed[Printed[x.expr]] = Printed[x.expr]
    BY <1>3, PrintedTextsParseBack DEF PrintingIsStable
  <2> QED BY <2>1, <2>2 DEF KeptRow
<1> QED BY <1>1, <1>2, <1>3

\* A row that meets them is kept as it is.
LEMMA KeptAgain ==
  /\ \A x \in Service : KeptRow("services", x) => KeptService(x) = x
  /\ \A x \in Script : KeptRow("scripts", x) => KeptScript(x) = x
  /\ \A x \in Endpoint : KeptRow("endpoints", x) => KeptEndpoint(x) = x
<1>1. ASSUME NEW x \in Service, KeptRow("services", x) PROVE KeptService(x) = x
  <2>1. (IF x.limit # None /\ Signed(x.limit) > 0 THEN x.limit ELSE None) = x.limit
    BY <1>1 DEF KeptRow
  <2>2. KeptService(x) = [x EXCEPT !.limit = x.limit] BY <2>1 DEF KeptService
  <2> QED BY <2>2 DEF Service
<1>2. ASSUME NEW x \in Script, KeptRow("scripts", x) PROVE KeptScript(x) = x
  <2>1. x.calls \in Limit BY DEF Script
  <2>2. x.calls # None => Signed(x.calls) \in Int
    BY <2>1, CatalogAssumption DEF Limit, Count, Signed
  <2>3. (IF x.calls # None /\ Signed(x.calls) < 0 THEN 0 ELSE x.calls) = x.calls
    BY <1>2, <2>2 DEF KeptRow
  <2>4. x.fixed = FALSE BY <1>2 DEF KeptRow, Script
  <2>5. KeptScript(x) = [x EXCEPT !.calls = x.calls, !.fixed = x.fixed]
    BY <2>3, <2>4 DEF KeptScript
  <2> QED BY <2>5 DEF Script
<1>3. ASSUME NEW x \in Endpoint, KeptRow("endpoints", x) PROVE KeptEndpoint(x) = x
  BY <1>3 DEF KeptRow, KeptEndpoint, Endpoint
<1> QED BY <1>1, <1>2, <1>3

\* All rows of the tables meet them.
LEMMA AsKeptRows ==
  ASSUME NEW d
  PROVE  AsKept(d) <=> /\ \A s \in Present(d.services) : KeptRow("services", d.services[s])
                       /\ \A s \in Present(d.scripts) : KeptRow("scripts", d.scripts[s])
                       /\ \A e \in Present(d.endpoints) : KeptRow("endpoints", d.endpoints[e])
BY DEF AsKept, KeptRow

\* A change leaves every row as its table keeps it.
LEMMA AfterKept ==
  ASSUME NEW d \in Database, AsKept(d),
         NEW c \in ServiceChange \cup ProviderChange \cup CallChange \cup ScriptChange
                     \cup EndpointChange,
         c.verb # "delete" => Converts(c.table, c.def)
  PROVE  AsKept(After(d, c))
<1> DEFINE e == After(d, c)
<1>1. CASE c \in ServiceChange /\ c.verb # "delete"
  <2> DEFINE x == KeptService(c.def)
  <2>1. e = Put(d, "services", c.slug, x) /\ c.def \in Service /\ c.slug \in Services
    BY <1>1, ServiceChanged
  <2>2. KeptRow("services", x) BY <2>1, KeptIsKept
  <2> HIDE DEF x, e
  <2>3. e.scripts = d.scripts /\ e.endpoints = d.endpoints
        /\ e.services = [d.services EXCEPT ![c.slug] = x]
    BY <2>1 DEF Put, Database
  <2>4. \A s \in Present(e.services) : KeptRow("services", e.services[s])
    BY <2>1, <2>2, <2>3, Tables, AsKeptRows DEF Present
  <2>5. AsKept(e) BY <2>3, <2>4, AsKeptRows
  <2> QED BY <2>5 DEF e
<1>2. CASE c \in ServiceChange /\ c.verb = "delete"
  <2>1. e = DropService(d, c.slug) /\ c.slug \in Services BY <1>2, ServiceChanged
  <2> HIDE DEF e
  <2>2. /\ e \in Database
        /\ e.services[c.slug] = None /\ \A r \in Services \ {c.slug} : e.services[r] = d.services[r]
        /\ Present(e.scripts) = Present(d.scripts)
        /\ \A k \in Present(d.scripts) : /\ e.scripts[k].calls = d.scripts[k].calls
                                         /\ e.scripts[k].fixed = d.scripts[k].fixed
        /\ Present(e.endpoints) = Present(d.endpoints)
        /\ \A f \in Present(d.endpoints) : e.endpoints[f].expr = d.endpoints[f].expr
    BY <2>1, DropServiceFields
  <2>3. \A s \in Present(e.services) : s \in Present(d.services) /\ e.services[s] = d.services[s]
    BY <2>2, Tables DEF Present
  <2>4. AsKept(e) BY <2>2, <2>3 DEF AsKept
  <2> QED BY <2>4 DEF e
<1>3. CASE c \in ProviderChange
  <2>1. CASE c.verb # "delete"
    <3>1. e = Put(d, "providers", c.slug, c.def) BY <1>3, <2>1, ProviderChanged
    <3> HIDE DEF e
    <3>2. e.services = d.services /\ e.scripts = d.scripts /\ e.endpoints = d.endpoints
      BY <3>1 DEF Put, Database
    <3>3. AsKept(e) BY <3>2 DEF AsKept
    <3> QED BY <3>3 DEF e
  <2>2. CASE c.verb = "delete"
    <3>1. e = DropProviders(d, {c.slug}) BY <1>3, <2>2, ProviderChanged
    <3> HIDE DEF e
    <3>2. /\ e.services = d.services /\ e.scripts = d.scripts
          /\ Present(e.endpoints) = Present(d.endpoints)
          /\ \A f \in Present(d.endpoints) : e.endpoints[f].expr = d.endpoints[f].expr
      BY <3>1, DropProvidersFields
    <3>3. AsKept(e) BY <3>2 DEF AsKept
    <3> QED BY <3>3 DEF e
  <2> QED BY <2>1, <2>2
<1>4. CASE c \in CallChange
  <2>1. CASE c.verb # "delete"
    <3>1. e = Put(d, "api_calls", c.slug, c.def) BY <1>4, <2>1, CallChanged
    <3> HIDE DEF e
    <3>2. e.services = d.services /\ e.scripts = d.scripts /\ e.endpoints = d.endpoints
      BY <3>1 DEF Put, Database
    <3>3. AsKept(e) BY <3>2 DEF AsKept
    <3> QED BY <3>3 DEF e
  <2>2. CASE c.verb = "delete"
    <3>1. e = DropCalls(d, {c.slug}) BY <1>4, <2>2, CallChanged
    <3> HIDE DEF e
    <3>2. /\ e.services = d.services /\ e.endpoints = d.endpoints
          /\ Present(e.scripts) = Present(d.scripts)
          /\ \A s \in Present(d.scripts) : /\ e.scripts[s].calls = d.scripts[s].calls
                                           /\ e.scripts[s].fixed = d.scripts[s].fixed
      BY <3>1, DropCallsFields
    <3>3. AsKept(e) BY <3>2 DEF AsKept
    <3> QED BY <3>3 DEF e
  <2> QED BY <2>1, <2>2
<1>5. CASE c \in ScriptChange
  <2>1. PICK x : /\ e = Put(d, "scripts", c.slug, x) /\ c.slug \in Slugs
                 /\ x # None => KeptRow("scripts", x)
    BY <1>5, ScriptChanged, KeptIsKept
  <2> HIDE DEF e
  <2>2. e.services = d.services /\ e.endpoints = d.endpoints
        /\ e.scripts = [d.scripts EXCEPT ![c.slug] = x]
    BY <2>1 DEF Put, Database
  <2>3. \A s \in Present(e.scripts) : KeptRow("scripts", e.scripts[s])
    BY <2>1, <2>2, Tables, AsKeptRows DEF Present
  <2>4. AsKept(e) BY <2>2, <2>3, AsKeptRows
  <2> QED BY <2>4 DEF e
<1>6. CASE c \in EndpointChange
  <2>1. PICK x : /\ e = Put(d, "endpoints", c.slug, x) /\ c.slug \in Endpoints
                 /\ x # None => KeptRow("endpoints", x)
    BY <1>6, EndpointChanged, KeptIsKept DEF Converts
  <2> HIDE DEF e
  <2>2. e.services = d.services /\ e.scripts = d.scripts
        /\ e.endpoints = [d.endpoints EXCEPT ![c.slug] = x]
    BY <2>1 DEF Put, Database
  <2>3. \A f \in Present(e.endpoints) : KeptRow("endpoints", e.endpoints[f])
    BY <2>1, <2>2, Tables, AsKeptRows DEF Present
  <2>4. AsKept(e) BY <2>2, <2>3, AsKeptRows
  <2> QED BY <2>4 DEF e
<1> QED BY <1>1, <1>2, <1>3, <1>4, <1>5, <1>6
-----------------------------------------------------------------------------
(* Exports.                                                                *)

\* The rows an export takes.
LEMMA OnlyRows ==
  ASSUME NEW table, NEW keys
  PROVE  /\ Present(Only(table, keys)) = Present(table) \cap keys
         /\ \A k \in Present(table) \cap keys : Only(table, keys)[k] = table[k]
         /\ DOMAIN Only(table, keys) = DOMAIN table
BY DEF Only, Present

\* The scripts of an export, and its calls.
ExportedScripts(d, x) ==
  (Selected(d.scripts, x.expr) \cup Targets(x, "scripts")) \cap Present(d.scripts)

ExportedCalls(d, x) ==
  Selected(d.api_calls, x.expr) \cup Targets(x, "api_calls") \cup Needed(d, ExportedScripts(d, x))

ExportedServices(d, x) ==
  {d.api_calls[c].service : c \in ExportedCalls(d, x) \cap Present(d.api_calls)}

\* An export, table by table.
LEMMA ExportFields ==
  ASSUME NEW d \in Database, NEW e \in Present(d.endpoints), NEW p, p = Export(d, e),
         NEW x, x = d.endpoints[e]
  PROVE  /\ p.services = Only(d.services, ExportedServices(d, x))
         /\ p.api_calls = Only(d.api_calls, ExportedCalls(d, x))
         /\ p.scripts = Only(d.scripts, ExportedScripts(d, x))
         /\ Present(p.endpoints) = {e} /\ DOMAIN p.endpoints = Endpoints
         /\ p.endpoints[e] \in Endpoint
         /\ p.endpoints[e].expr = x.expr /\ p.endpoints[e].aliases = x.aliases
         /\ p.endpoints[e].shape = x.shape /\ p.endpoints[e].ceiling = x.ceiling
         /\ p.endpoints[e].scope = {}
<1>1. x \in Endpoint /\ e \in Endpoints BY RowTypes
<1> DEFINE y == [x EXCEPT !.scope = {}]
           es == [f \in Endpoints |-> IF f = e THEN y ELSE None]
<1>2. /\ y \in Endpoint /\ y.expr = x.expr /\ y.aliases = x.aliases
      /\ y.shape = x.shape /\ y.ceiling = x.ceiling /\ y.scope = {}
  BY <1>1 DEF Endpoint
<1> HIDE DEF y
<1>3. Present(es) = {e} /\ DOMAIN es = Endpoints /\ es[e] = y
  BY <1>1, <1>2, NoneIsNoRow DEF Present
<1>4. p = [services |-> Only(d.services, ExportedServices(d, x)),
           api_calls |-> Only(d.api_calls, ExportedCalls(d, x)),
           scripts |-> Only(d.scripts, ExportedScripts(d, x)),
           endpoints |-> es]
  BY DEF Export, ExportedServices, ExportedCalls, ExportedScripts, y
<1> HIDE DEF es
<1>5. /\ p.services = Only(d.services, ExportedServices(d, x))
      /\ p.api_calls = Only(d.api_calls, ExportedCalls(d, x))
      /\ p.scripts = Only(d.scripts, ExportedScripts(d, x))
      /\ p.endpoints = es
  BY <1>4
<1> QED BY <1>2, <1>3, <1>5

\* An export of tables that validate validates: what its rows refer to is in it.
LEMMA ExportIsValid ==
  ASSUME NEW d, SoundRows(d), Valid(Snapshot(d)), NEW e \in Present(d.endpoints)
  PROVE  Valid(Export(d, e))
<1> DEFINE p == Export(d, e)
           x == d.endpoints[e]
<1>1. d \in Database BY DEF SoundRows
<1>2. ValidRows(d) BY <1>1, ValidSnapshot
<1>3. /\ p.services = Only(d.services, ExportedServices(d, x))
      /\ p.api_calls = Only(d.api_calls, ExportedCalls(d, x))
      /\ p.scripts = Only(d.scripts, ExportedScripts(d, x))
      /\ Present(p.endpoints) = {e}
      /\ p.endpoints[e].expr = x.expr /\ p.endpoints[e].aliases = x.aliases
      /\ p.endpoints[e].shape = x.shape
  BY <1>1, ExportFields
<1>4. p["api_calls"] = p.api_calls /\ p["scripts"] = p.scripts OBVIOUS
<1> HIDE DEF p
<1>5. /\ Present(p.services) = Present(d.services) \cap ExportedServices(d, x)
      /\ \A s \in Present(p.services) : p.services[s] = d.services[s]
      /\ Present(p.api_calls) = Present(d.api_calls) \cap ExportedCalls(d, x)
      /\ \A c \in Present(p.api_calls) : p.api_calls[c] = d.api_calls[c]
      /\ Present(p.scripts) = Present(d.scripts) \cap ExportedScripts(d, x)
      /\ \A s \in Present(p.scripts) : p.scripts[s] = d.scripts[s]
  BY <1>3, OnlyRows
<1>6. \A s \in Present(p.services) : ValidService(p.services[s])
  BY <1>2, <1>5 DEF ValidRows, ValidService
<1>7. ASSUME NEW c \in Present(p.api_calls) PROVE ValidCall(p, p.api_calls[c])
  <2>1. c \in Present(d.api_calls) /\ c \in ExportedCalls(d, x) /\ p.api_calls[c] = d.api_calls[c]
    BY <1>5
  <2>2. d.api_calls[c].shape # "invalid" /\ d.services[d.api_calls[c].service] # None
    BY <1>2, <2>1 DEF ValidRows
  <2>3. d.api_calls[c].service \in Present(d.services)
    BY <1>1, <2>1, <2>2, RowTypes, Tables DEF ApiCall, Present
  <2>4. d.api_calls[c].service \in ExportedServices(d, x) BY <2>1 DEF ExportedServices
  <2>5. d.api_calls[c].service \in Present(p.services) BY <1>5, <2>3, <2>4
  <2> QED BY <2>1, <2>2, <2>5 DEF ValidCall, Present
<1>8. ASSUME NEW s \in Present(p.scripts) PROVE ValidScript(p, p.scripts[s])
  <2>1. s \in Present(d.scripts) /\ s \in ExportedScripts(d, x) /\ p.scripts[s] = d.scripts[s]
    BY <1>5
  <2>2. d.scripts[s].shape # "invalid" /\ d.scripts[s].callable \subseteq Present(d.api_calls)
    BY <1>2, <2>1 DEF ValidRows
  <2>3. d.scripts[s].callable \subseteq ExportedCalls(d, x)
    BY <2>1 DEF ExportedCalls, Needed
  <2> QED BY <1>5, <2>1, <2>2, <2>3 DEF ValidScript
<1>9. ASSUME NEW f \in Present(p.endpoints) PROVE ValidEndpoint(p, p.endpoints[f])
  <2>1. f = e BY <1>3
  <2>2. /\ x.shape # "invalid" /\ x.expr \in Wellformed
        /\ \A a \in x.aliases : /\ a.kind = "api_calls" => d.api_calls[a.slug] # None
                                /\ a.kind = "scripts" => d.scripts[a.slug] # None
    BY <1>2 DEF ValidRows
  <2>3. ASSUME NEW a \in x.aliases PROVE p[a.kind][a.slug] # None
    <3>1. a.kind \in {"api_calls", "scripts"} /\ a.slug \in Slugs
      BY <1>1, AliasTypes DEF Kinds
    <3>2. CASE a.kind = "api_calls"
      <4>1. a.slug \in Present(d.api_calls) BY <1>1, <2>2, <3>1, <3>2, Tables DEF Present
      <4>2. a.slug \in ExportedCalls(d, x) BY <3>2 DEF ExportedCalls, Targets
      <4> QED BY <1>4, <1>5, <3>2, <4>1, <4>2 DEF Present
    <3>3. CASE a.kind = "scripts"
      <4>1. a.slug \in Present(d.scripts) BY <1>1, <2>2, <3>1, <3>3, Tables DEF Present
      <4>2. a.slug \in ExportedScripts(d, x) BY <3>3, <4>1 DEF ExportedScripts, Targets
      <4> QED BY <1>4, <1>5, <3>3, <4>1, <4>2 DEF Present
    <3> QED BY <3>1, <3>2, <3>3
  <2> QED BY <1>3, <2>1, <2>2, <2>3 DEF ValidEndpoint
<1>10. Valid(p) BY <1>6, <1>7, <1>8, <1>9 DEF Valid
<1> QED BY <1>10 DEF p
=============================================================================
