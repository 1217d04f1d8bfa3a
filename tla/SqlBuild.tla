------------------------------ MODULE SqlBuild ------------------------------
(* How pack turns a predicate into SQL (pack/internal/sqlbuild), and how a    *)
(* database reads the text again.  Text is a sequence of words; a test of a   *)
(* column is one word with its placeholders.  The comparisons (Eq, Ne, Gt,    *)
(* Gte, Lt, Lte, Like, NotLike) differ in nothing but the operator printed    *)
(* and are one kind, "cmp".                                                   *)
EXTENDS Integers, Sequences, SequencesExt, FiniteSets, FiniteSetsExt, Functions

-----------------------------------------------------------------------------
(* Dialects                                                                   *)

Postgres == [positional |-> FALSE, rowLocking |-> TRUE, iLike |-> TRUE]
SQLite == [positional |-> FALSE, rowLocking |-> FALSE, iLike |-> FALSE]
MySQL == [positional |-> TRUE, rowLocking |-> TRUE, iLike |-> FALSE]

\* "$n" or "?n"; 0 stands for MySQL's "?", which carries no number.
Placeholder(d, n) == IF d.positional THEN 0 ELSE n

-----------------------------------------------------------------------------
(* Predicates                                                                 *)

Predicate(kind, col, args, children, fragment) ==
  [kind |-> kind, col |-> col, args |-> args, children |-> children, fragment |-> fragment]

NoPredicate == Predicate("none", "", <<>>, <<>>, <<>>)
Cmp(c, v) == Predicate("cmp", c, <<v>>, <<>>, <<>>)
ILike(c, v) == Predicate("ilike", c, <<v>>, <<>>, <<>>)
In(c, vs) == Predicate("in", c, vs, <<>>, <<>>)
NotIn(c, vs) == Predicate("notin", c, vs, <<>>, <<>>)
Between(c, lo, hi) == Predicate("between", c, <<lo, hi>>, <<>>, <<>>)
And(ps) == Predicate("and", "", <<>>, ps, <<>>)
Or(ps) == Predicate("or", "", <<>>, ps, <<>>)
Not(p) == Predicate("not", "", <<>>, <<p>>, <<>>)
Raw(fragment, args) == Predicate("raw", "", args, <<>>, fragment)

IsZero(p) == p.kind = "none"
Tests == {"cmp", "ilike", "in", "notin", "between"}

andJoin(a, b) == IF IsZero(a) THEN b ELSE And(<<a, b>>)
orJoin(a, b) == IF IsZero(a) THEN b ELSE Or(<<a, b>>)

-----------------------------------------------------------------------------
(* The renderer: a predicate, with n arguments bound before it, gives text    *)
(* and the arguments it binds, or an error.                                   *)

Word(w) == [is |-> w, col |-> "", holes |-> <<>>]
TestWord(kind, c, holes) == [is |-> kind, col |-> c, holes |-> holes]

Rendered(text, args) == [ok |-> TRUE, text |-> text, args |-> args]
RenderError == [ok |-> FALSE, text |-> <<>>, args |-> <<>>]

bindList(vs, n, d) == [i \in DOMAIN vs |-> Placeholder(d, n + i)]

\* A fragment's own "$k" becomes the dialect's placeholder, shifted by what is
\* bound already.
renderRawFragment(fragment, rawArgs, n, d) ==
  IF \E i \in DOMAIN fragment : \E h \in Range(fragment[i].holes) : h \notin DOMAIN rawArgs
  THEN RenderError
  ELSE Rendered([i \in DOMAIN fragment |->
                   [fragment[i] EXCEPT !.holes = [j \in DOMAIN @ |-> Placeholder(d, n + @[j])]]], rawArgs)

RECURSIVE renderPredicate(_, _, _)

\* Compound children are put in parentheses; a raw fragment is not.
renderChild(p, n, d) ==
  LET r == renderPredicate(p, n, d)
  IN IF p.kind \in {"and", "or", "not"} /\ r.ok
     THEN Rendered(<<Word("(")>> \o r.text \o <<Word(")")>>, r.args)
     ELSE r

Joined(ps, glue, n, d) ==
  FoldLeft(LAMBDA acc, p :
             LET r == renderChild(p, n + Len(acc.args), d)
             IN IF acc.ok /\ r.ok
                THEN Rendered((IF acc.text = <<>> THEN <<>> ELSE Append(acc.text, Word(glue))) \o r.text,
                              acc.args \o r.args)
                ELSE RenderError,
           Rendered(<<>>, <<>>), ps)

renderPredicate(p, n, d) ==
  CASE \/ p.kind = "none"
       \/ p.kind = "notin" /\ p.args = <<>>
       \/ p.kind = "and" /\ p.children = <<>>  -> Rendered(<<Word("TRUE")>>, <<>>)
    [] \/ p.kind = "in" /\ p.args = <<>>
       \/ p.kind = "or" /\ p.children = <<>>   -> Rendered(<<Word("FALSE")>>, <<>>)
    [] p.kind = "ilike" /\ ~d.iLike            -> RenderError
    [] p.kind \in {"and", "or"}                -> Joined(p.children, p.kind, n, d)
    [] p.kind = "not" ->
         LET r == renderChild(p.children[1], n, d)
         IN IF r.ok THEN Rendered(<<Word("not")>> \o r.text, r.args) ELSE r
    [] p.kind = "raw" -> renderRawFragment(p.fragment, p.args, n, d)
    [] OTHER -> Rendered(<<TestWord(p.kind, p.col, bindList(p.args, n, d))>>, p.args)

\* The clauses of a statement, in the order they are printed and bound.
Render(clauses, d) ==
  FoldLeft(LAMBDA acc, p :
             LET r == renderPredicate(p, Len(acc.args), d)
             IN IF acc.ok /\ r.ok
                THEN [ok |-> TRUE, clauses |-> Append(acc.clauses, r.text), args |-> acc.args \o r.args]
                ELSE [ok |-> FALSE, clauses |-> <<>>, args |-> <<>>],
           [ok |-> TRUE, clauses |-> <<>>, args |-> <<>>], clauses)

-----------------------------------------------------------------------------
(* The database: it binds the arguments, by number or in the order of the     *)
(* text, and reads a condition with OR weakest and NOT strongest.             *)

Holes(text) == FoldLeft(LAMBDA acc, w : acc + Len(w.holes), 0, text)

\* The words of a clause with values for placeholders, `before` of which come
\* earlier in the statement; 0 for one that is not bound.
Bound(text, before, args, d) ==
  [i \in DOMAIN text |->
     [text[i] EXCEPT !.holes =
        [j \in DOMAIN @ |->
           LET k == IF d.positional THEN before + Holes(SubSeq(text, 1, i - 1)) + j ELSE @[j]
           IN IF k \in DOMAIN args THEN args[k] ELSE 0]]]

Satisfies(kind, v, args) ==
  CASE kind = "in" -> v \in Range(args)
    [] kind = "notin" -> v \notin Range(args)
    [] kind = "between" -> v \in args[1]..args[2]
    [] OTHER -> v = args[1]

Nesting(text, i) ==
  Quantify(1..i, LAMBDA j : text[j].is = "(") - Quantify(1..i, LAMBDA j : text[j].is = ")")

\* Where a connective stands outside all parentheses.
TopLevel(text, w) == {i \in DOMAIN text : text[i].is = w /\ Nesting(text, i) = 0}

RECURSIVE Reads(_, _)
Reads(text, row) ==
  LET Split(i) == <<SubSeq(text, 1, i - 1), SubSeq(text, i + 1, Len(text))>>
      or == TopLevel(text, "or")
      and == TopLevel(text, "and")
  IN CASE or # {} -> LET s == Split(Min(or)) IN Reads(s[1], row) \/ Reads(s[2], row)
       [] or = {} /\ and # {} -> LET s == Split(Min(and)) IN Reads(s[1], row) /\ Reads(s[2], row)
       [] or = {} /\ and = {} ->
            CASE text[1].is = "not" -> ~Reads(Tail(text), row)
              [] text[1].is = "(" -> Reads(SubSeq(text, 2, Len(text) - 1), row)
              [] text[1].is \in {"TRUE", "FALSE"} -> text[1].is = "TRUE"
              [] OTHER -> Satisfies(text[1].is, row[text[1].col], text[1].holes)

-----------------------------------------------------------------------------
(* What a predicate is meant to say.                                          *)

RECURSIVE Means(_, _)
Means(p, row) ==
  CASE p.kind = "none" -> TRUE
    [] p.kind = "and" -> \A i \in DOMAIN p.children : Means(p.children[i], row)
    [] p.kind = "or" -> \E i \in DOMAIN p.children : Means(p.children[i], row)
    [] p.kind = "not" -> ~Means(p.children[1], row)
    [] p.kind = "raw" -> Reads(Bound(p.fragment, 0, p.args, Postgres), row)
    [] OTHER -> Satisfies(p.kind, row[p.col], p.args)

\* A raw fragment that falls apart where it stands: OR beside AND, or AND or OR
\* after NOT.
RECURSIVE FallsApart(_)
FallsApart(p) ==
  \E i \in DOMAIN p.children :
    LET c == p.children[i]
    IN \/ FallsApart(c)
       \/ /\ c.kind = "raw"
          /\ \/ p.kind = "and" /\ Len(p.children) > 1 /\ TopLevel(c.fragment, "or") # {}
             \/ p.kind = "not" /\ TopLevel(c.fragment, "or") \cup TopLevel(c.fragment, "and") # {}

\* A raw fragment that does not use "$1", "$2", ... once each and in order.
RECURSIVE Reorders(_)
Reorders(p) ==
  \/ \E i \in DOMAIN p.children : Reorders(p.children[i])
  \/ /\ p.kind = "raw"
     /\ FlattenSeq([i \in DOMAIN p.fragment |-> p.fragment[i].holes]) # [i \in DOMAIN p.args |-> i]
=============================================================================
