-------------------------------- MODULE Queries --------------------------------
(***************************************************************************)
(* The query language of luck-core (rust/crates/luck-core/src/query.rs):   *)
(* tokenize, the recursive descent of Parser, and the evaluation of what   *)
(* it returns.                                                             *)
(*                                                                         *)
(* A text is a sequence of lexemes: a keyword, a sign, a word, a quoted    *)
(* word, which is what is between its quotes but never a keyword, or       *)
(* Unterminated, a quote that nothing closes.  A vector of alternatives or *)
(* conjuncts is nested to the right.                                       *)
(***************************************************************************)
EXTENDS CookieModel

CONSTANTS
  Word,    \* words that are no field and no boolean, quoted or not
  Host,    \* the host name that a word spells
  Names    \* the names that contain a word, whatever the case

Unterminated == "'"

Flags == {"secure", "httponly", "session", "expired"}

Field == Flags \cup {"name", "domain", "path", "samesite"}

Bool == {"true", "false"}

Token == {"and", "or", "not", ":", "(", ")"}

\* What the parser sees where there are no more tokens.
End == "end"

ASSUME QueryAssumption ==
  /\ Word \cap (Token \cup {Unterminated, End}) = {}
  /\ Host \in [Word -> Seq(Character)]
  /\ Names \in [Word -> SUBSET Id]

IsWord(token) == token \in Word \cup Field \cup Bool \cup SameSite

(***************************************************************************)
(* Parser.  What has been parsed so far ends before `at`, 0 after an       *)
(* error.  An operand, a box in the code, is named by where it was read:   *)
(* by which of the functions, and from which token on.                     *)
(***************************************************************************)
Error == [at |-> 0, expr |-> <<>>]

Parsed(at, expr) == [at |-> at, expr |-> expr]

At(tokens, i) == IF i <= Len(tokens) THEN tokens[i] ELSE End

\* parse_term; a word alone is looked for in the name and the domain.
Term(tokens, i) ==
  LET field == At(tokens, i)
      value == At(tokens, i + 2)
  IN IF ~IsWord(field) THEN Error
     ELSE IF At(tokens, i + 1) # ":"
     THEN Parsed(i + 1, [op |-> "word", value |-> field])
     ELSE IF \/ ~IsWord(value) \/ field \notin Field
             \/ field \in Flags /\ value \notin Bool
     THEN Error
     ELSE Parsed(i + 3, [op |-> field, value |-> value])

\* The three functions call each other: `read` is what each returns.
ParseUnary(read, tokens, i) ==
  LET operand == read[<<"unary", i + 1>>]
      inner   == read[<<"or", i + 1>>]
  IN CASE At(tokens, i) = "not" ->
            IF operand = Error THEN Error
            ELSE Parsed(operand.at, [op |-> "not", left |-> <<"unary", i + 1>>])
       [] At(tokens, i) = "(" ->
            IF inner = Error \/ At(tokens, inner.at) # ")" THEN Error
            ELSE Parsed(inner.at + 1, inner.expr)
       [] OTHER -> Term(tokens, i)

\* Two operands, of which the second one is the rest of the vector.
Joined(read, left, op, right) ==
  IF read[right] = Error THEN Error
  ELSE Parsed(read[right].at, [op |-> op, left |-> left, right |-> right])

\* A faulty ParseAnd, which reads alternatives where a conjunct belongs.
ParseAndLoosely(read, tokens, i) ==
  LET first == read[<<"unary", i>>]
  IN IF first = Error \/ At(tokens, first.at) # "and" THEN first
     ELSE Joined(read, <<"unary", i>>, "and", <<"or", first.at + 1>>)

ParseAnd(read, tokens, i) ==
  LET first == read[<<"unary", i>>]
  IN IF first = Error \/ At(tokens, first.at) # "and" THEN first
     ELSE Joined(read, <<"unary", i>>, "and", <<"and", first.at + 1>>)

ParseOr(read, tokens, i) ==
  LET first == read[<<"and", i>>]
  IN IF first = Error \/ At(tokens, first.at) # "or" THEN first
     ELSE Joined(read, <<"and", i>>, "or", <<"or", first.at + 1>>)

Operand(tokens) == {"or", "and", "unary"} \X (1..(Len(tokens) + 1))

Call(read, tokens, operand) ==
  LET i == operand[2]
  IN CASE operand[1] = "or"    -> ParseOr(read, tokens, i)
       [] operand[1] = "and"   -> ParseAnd(read, tokens, i)
       [] operand[1] = "unary" -> ParseUnary(read, tokens, i)

Read(tokens) ==
  LET read[operand \in Operand(tokens)] == Call(read, tokens, operand) IN read

\* CookieQuery::parse.  A text without tokens selects everything.
parse(text) ==
  LET whole == Read(text)[<<"or", 1>>]
  IN IF Unterminated \in ToSet(text) THEN Error
     ELSE IF text = <<>> THEN Parsed(1, [op |-> "true"])
     ELSE IF whole.at = Len(text) + 1 THEN whole ELSE Error

(***************************************************************************)
(* QueryExpr::matches.                                                     *)
(***************************************************************************)
\* A leaf of an expression about a cookie; `expired` reads the clock.  Words
\* are the only values of name, domain and path that select anything here.
Leaf(c, e, now) ==
  LET wanted == e.value = "true"
  IN CASE e.op = "true"     -> TRUE
       [] e.op = "secure"   -> c.secure = wanted
       [] e.op = "httponly" -> c.http_only = wanted
       [] e.op = "session"  -> effective_session(c) = wanted
       [] e.op = "expired"  -> is_expired_at(c, now) = wanted
       [] e.op = "samesite" ->
            c.same_site = IF e.value \in SameSite THEN e.value ELSE "unspecified"
       [] OTHER             ->
            /\ e.value \in Word
            /\ \/ e.op \in {"name", "word"} /\ c.id \in Names[e.value]
               \/ e.op \in {"domain", "word"} /\ domain_matches(c, Host[e.value])

\* An expression about a cookie, given which of its operands hold.
Node(holds, e, c, now) ==
  CASE e.op = "and" -> holds[e.left] /\ holds[e.right]
    [] e.op = "or"  -> holds[e.left] \/ holds[e.right]
    [] e.op = "not" -> ~holds[e.left]
    [] OTHER        -> Leaf(c, e, now)

\* Whether a cookie matches what was parsed from a text.
matches(text, c, now) ==
  LET read   == Read(text)
      parsed == {operand \in Operand(text) : read[operand] # Error}
      holds[operand \in parsed] == Node(holds, read[operand].expr, c, now)
  IN Node(holds, parse(text).expr, c, now)

(***************************************************************************)
(* The language without a parser: what a span of the text says of a cookie *)
(* is decided at its first `or` outside of parentheses, then at its first  *)
(* `and`.  Spans that are no expression say "nothing".                     *)
(***************************************************************************)
Depth(text, i, k) ==
  Cardinality({j \in i..(k - 1) : text[j] = "("})
    - Cardinality({j \in i..(k - 1) : text[j] = ")"})

Splits(text, i, k, op) == {j \in i..k : text[j] = op /\ Depth(text, i, j) = 0}

Both(op, left, right) ==
  LET decisive == IF op = "or" THEN "yes" ELSE "no"
      other    == IF op = "or" THEN "no" ELSE "yes"
  IN IF "nothing" \in {left, right} THEN "nothing"
     ELSE IF decisive \in {left, right} THEN decisive ELSE other

Span(text) == (1..(Len(text) + 1)) \X (0..Len(text))

\* What is said from i to k, given what shorter spans say.
Saying(says, text, i, k, c, now) ==
  LET ors  == Splits(text, i, k, "or")
      ands == Splits(text, i, k, "and")
      Split(op, j) == Both(op, says[<<i, j - 1>>], says[<<j + 1, k>>])
      term == Term(SubSeq(text, i, k), 1)
      rest == says[<<i + 1, k>>]
  IN IF i > k THEN "nothing"
     ELSE IF ors # {} THEN Split("or", Min(ors))
     ELSE IF ands # {} THEN Split("and", Min(ands))
     ELSE CASE text[i] = "not" ->
                 CASE rest = "yes" -> "no" [] rest = "no" -> "yes" [] OTHER -> "nothing"
            [] text[i] = "("   ->
                 IF text[k] = ")" THEN says[<<i + 1, k - 1>>] ELSE "nothing"
            [] OTHER           ->
                 IF term.at # k - i + 2 THEN "nothing"
                 ELSE IF Leaf(c, term.expr, now) THEN "yes" ELSE "no"

Says(text, c, now) ==
  LET says[span \in Span(text)] == Saying(says, text, span[1], span[2], c, now)
  IN says[<<1, Len(text)>>]
=============================================================================
