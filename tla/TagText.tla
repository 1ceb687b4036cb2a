------------------------------ MODULE TagText ------------------------------
(***************************************************************************)
(* The text of a tag expression (resolve/tag_expr.rs): how it is parsed,   *)
(* what it accepts (model/tag.rs) and how it is printed again.  A text is  *)
(* a sequence of tokens; a tag is its own token.  An expression is kept as *)
(* the two things the code does with it, instead of as a tree: the tag     *)
(* sets it accepts and the text it prints as.                              *)
(***************************************************************************)
EXTENDS SequencesExt

CONSTANTS
  Tags,
  Texts  \* the texts that are written, closed under printing

Keywords == {"has", "and", "or", "not", "(", ")"}

ASSUME TagsAreNoKeywords == Tags \cap Keywords = {}

TagSets == SUBSET Tags

\* What a text may parse to.
Expression == [accepts : SUBSET TagSets, prints : Seq(Tags \cup Keywords)]

In(text) == <<"(">> \o text \o <<")">>

Has(tag) == [accepts |-> {ts \in TagSets : tag \in ts}, prints |-> <<"has", "(", tag, ")">>]

Not(e) == [accepts |-> TagSets \ e.accepts, prints |-> <<"not">> \o In(e.prints)]

And(a, b) == [accepts |-> a.accepts \cap b.accepts,
              prints |-> In(a.prints) \o <<"and">> \o In(b.prints)]

Or(a, b) == [accepts |-> a.accepts \cup b.accepts,
             prints |-> In(a.prints) \o <<"or">> \o In(b.prints)]

Join(op, e, f) == IF op = "and" THEN And(e, f) ELSE Or(e, f)

\* Operands as the loops of parse_or and parse_and join them: the first two first.
Joined(op, es) == FoldLeft(LAMBDA e, f : Join(op, e, f), Head(es), Tail(es))

\* The token at a place, if there is one.
Token(text, i) == IF i \in DOMAIN text THEN text[i] ELSE "end"

\* What a level of the grammar reads from a place on: the operands it found and the
\* place after them.  No operands: the text is malformed there.
Malformed == [found |-> <<>>, next |-> 0]
One(e, next) == [found |-> <<e>>, next |-> next]

Levels == {"or", "and", "unary", "atom"}

\* parse_or and parse_and, of which `inner` is the level they call.
ReadOperands(text, parse, level, inner, i) ==
  LET first == parse[<<inner, i>>]
      rest == parse[<<level, first.next + 1>>]
      operand == Joined(inner, first.found)
  IN IF first.found = <<>> THEN Malformed
     ELSE IF Token(text, first.next) # level THEN One(operand, first.next)
     ELSE IF rest.found = <<>> THEN Malformed
     ELSE [found |-> <<operand>> \o rest.found, next |-> rest.next]

\* parse_unary
ReadUnary(text, parse, i) ==
  LET e == parse[<<"unary", i + 1>>]
  IN IF Token(text, i) # "not" THEN parse[<<"atom", i>>]
     ELSE IF e.found = <<>> THEN Malformed ELSE One(Not(Head(e.found)), e.next)

\* parse_atom
ReadAtom(text, parse, i) ==
  LET e == parse[<<"or", i + 1>>]
  IN CASE Token(text, i) = "has" ->
            IF /\ Token(text, i + 1) = "(" /\ Token(text, i + 2) \in Tags
               /\ Token(text, i + 3) = ")"
            THEN One(Has(text[i + 2]), i + 4)
            ELSE Malformed
       [] Token(text, i) = "(" ->
            IF e.found # <<>> /\ Token(text, e.next) = ")"
            THEN One(Joined("or", e.found), e.next + 1)
            ELSE Malformed
       [] OTHER -> Malformed

ReadAt(text, parse, level, i) ==
  CASE level = "or" -> ReadOperands(text, parse, "or", "and", i)
    [] level = "and" -> ReadOperands(text, parse, "and", "unary", i)
    [] level = "unary" -> ReadUnary(text, parse, i)
    [] level = "atom" -> ReadAtom(text, parse, i)

ParseFrom(text) ==
  LET parse[place \in Levels \X (1 .. Len(text) + 1)] == ReadAt(text, parse, place[1], place[2])
  IN parse[<<"or", 1>>]

\* parse: one expression and nothing after it.
Parses(text) == ParseFrom(text).found # <<>> /\ ParseFrom(text).next = Len(text) + 1
Parse(text) == Joined("or", ParseFrom(text).found)

\* The texts that parse, with what they accept and print as.
Wellformed == {x \in Texts : Parses(x)}
Accepting == [x \in Wellformed |-> Parse(x).accepts]
Printed == [x \in Wellformed |-> Parse(x).prints]

ASSUME TextsAssumption ==
  /\ Texts \subseteq Seq(Tags \cup Keywords)
  /\ \A x \in Wellformed : Printed[x] \in Texts

\* Printing needs no precedence: a printed text parses to the same expression.
PrintingIsStable ==
  \A x \in Wellformed : /\ Printed[x] \in Wellformed
                        /\ Accepting[Printed[x]] = Accepting[x]
                        /\ Printed[Printed[x]] = Printed[x]
=============================================================================
