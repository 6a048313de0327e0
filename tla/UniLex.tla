------------------------------- MODULE UniLex -------------------------------
(***************************************************************************)
(* The scanners of SQL text: rewriteParamPlaceholder, which exchanges $N   *)
(* for the placeholders of the dialect, getSqlQuery, which puts the        *)
(* arguments of a MySQL query in the order of its placeholders, and        *)
(* maskSQLLiterals and stripSQLComments, on which the parser of hook       *)
(* statements rests.                                                       *)
(*                                                                         *)
(* A text is a sequence of lexemes.  A character the scanners look at is a *)
(* lexeme of its own; a word, or $ with its number, is one lexeme.  The    *)
(* scanners do not know backslash escapes, which the source states as      *)
(* their limit.                                                            *)
(***************************************************************************)
EXTENDS Naturals, Sequences, FiniteSets, FiniteSetsExt

CONSTANTS
  Numbered,  \* the placeholders $1, $2, ...
  NumberOf   \* their numbers

Quote == {"'", "dq", "bq"}  \* dq and bq: the double and the back quote
Space == " "
Blank == {Space, "\n"}

\* A placeholder is none of the characters the scanners look at.
LexAssumption ==
  /\ NumberOf \in [Numbered -> Nat]
  /\ Numbered \cap (Quote \cup Blank \cup {"-", "/", "*", "?"}) = {}

\* isBlank of the lexeme at i, or the end of the text.
BlankOrEnd(text, i) == i > Len(text) \/ text[i] \in Blank

\* The n-th smallest of a set of positions, and the lexemes at a set of them.
Nth(positions, n) ==
  CHOOSE i \in positions : Cardinality({j \in positions : j < i}) = n - 1

TextAt(text, positions) ==
  [n \in 1 .. Cardinality(positions) |-> text[Nth(positions, n)]]

-----------------------------------------------------------------------------
(* Where a lexeme of several characters ends: the position after it. *)

\* Where the quote at i ends for a loop that stands at n.  Only the single
\* quote is escaped, by doubling it; an open one takes the rest of the text.
QuoteEnds(text, i) ==
  LET end[n \in 1 .. Len(text) + 1] ==
        IF n > Len(text) THEN Len(text) + 1
        ELSE IF text[n] # text[i] THEN end[n + 1]
        ELSE IF text[i] = "'" /\ n < Len(text) /\ text[n + 1] = "'" THEN end[n + 2]
        ELSE n + 1
  IN end

scanQuoted(text, i) == QuoteEnds(text, i)[i + 1]

\* The rule of MySQL: two dashes and a blank, or the end.
isLineComment(text, i) ==
  /\ i < Len(text) /\ text[i] = "-" /\ text[i + 1] = "-"
  /\ BlankOrEnd(text, i + 2)

LineEnd(text, i) == Min({n \in i .. Len(text) : text[n] = "\n"} \cup {Len(text) + 1})

isBlockComment(text, i) == i < Len(text) /\ text[i] = "/" /\ text[i + 1] = "*"

\* The marks do not nest and do not share the star.
BlockEnd(text, i) ==
  LET closes == {n \in i + 2 .. Len(text) - 1 : text[n] = "*" /\ text[n + 1] = "/"}
  IN IF closes = {} THEN Len(text) + 1 ELSE Min(closes) + 2

Comment(text, i) == isLineComment(text, i) \/ isBlockComment(text, i)

NextStop(text, i) ==
  IF text[i] \in Quote THEN scanQuoted(text, i)
  ELSE IF isLineComment(text, i) THEN LineEnd(text, i)
  ELSE IF isBlockComment(text, i) THEN BlockEnd(text, i)
  ELSE i + 1

\* The positions at which the loop of a scanner stands, from each one on.
StopsFrom(text) ==
  LET from[i \in 1 .. Len(text) + 1] ==
        IF i > Len(text) THEN {} ELSE {i} \cup from[NextStop(text, i)]
  IN from

Stops(text) == StopsFrom(text)[1]

-----------------------------------------------------------------------------
(* Placeholders. *)

\* The positions of the $N that rewriteParamPlaceholder replaces, and the
\* numbers in the order in which they appear.
Replaced(text) == {i \in Stops(text) : text[i] \in Numbered}

Order(text) ==
  LET marks == TextAt(text, Replaced(text))
  IN [n \in DOMAIN marks |-> NumberOf[marks[n]]]

Rewritten(text) == [i \in DOMAIN text |-> IF i \in Replaced(text) THEN "?" ELSE text[i]]

\* Faulty variant: the arguments stay in the order of their numbers.
ArgsKept(order, args) == args

ArgsInOrder(order, args) == [i \in DOMAIN order |-> args[order[i]]]

Refused == [text |-> <<>>, args |-> <<>>, ok |-> FALSE]

\* The MySQL family.
getSqlQuery(text, args) ==
  LET order == Order(text)
      numbers == {order[i] : i \in DOMAIN order}
  IN IF args = <<>> \/ order = <<>> THEN [text |-> text, args |-> args, ok |-> TRUE]
     ELSE IF 0 \in numbers \/ Max(numbers) # Len(args) THEN Refused
     ELSE [text |-> Rewritten(text), args |-> ArgsInOrder(order, args), ok |-> TRUE]

-----------------------------------------------------------------------------
(* What the parser of hook statements works on. *)

\* The positions of the lexeme at i that maskSQLLiterals blanks: all of a
\* comment, what is between quotes, and all that follows an open quote.
MaskedAt(text, i) ==
  LET next == NextStop(text, i)
      closed == next - 1 > i /\ text[next - 1] = text[i]
  IN IF text[i] \in Quote THEN (i + 1) .. (IF closed THEN next - 2 ELSE next - 1)
     ELSE IF Comment(text, i) THEN i .. next - 1
     ELSE {}

maskSQLLiterals(text) ==
  LET masked == UNION {MaskedAt(text, i) : i \in Stops(text)}
  IN [i \in DOMAIN text |-> IF i \in masked THEN Space ELSE text[i]]

\* What is left of a text without its comments.
stripSQLComments(text) ==
  LET comments == {i \in Stops(text) : Comment(text, i)}
  IN TextAt(text, DOMAIN text \ UNION {i .. NextStop(text, i) - 1 : i \in comments})

-----------------------------------------------------------------------------
(* The database (external): it reads a text one character at a time, in    *)
(* one of five states.  Two forms of MySQL that the scanners do not know   *)
(* either are left out: comments that start with a number sign, and the    *)
(* comments with an exclamation mark, which MySQL executes.                *)

\* The state after the character at n; inside a comment or a literal a
\* character may be the second of two that belong together.
After(text, n, was) ==
  LET c == text[n]
      Next(d) == n + 1 \in DOMAIN text /\ text[n + 1] = d
  IN CASE was = "code" /\ c \in Quote -> c
       [] was = "code" /\ c = "-" /\ Next("-") /\ BlankOrEnd(text, n + 2) -> "line"
       [] was = "code" /\ c = "/" /\ Next("*") -> "opening"
       [] was = "opening" -> "block"
       [] was \in Quote /\ c = was -> "code"
       [] was = "line" /\ c = "\n" -> "code"
       [] was = "block" /\ c = "*" /\ Next("/") -> "closing"
       [] was = "closing" -> "code"
       [] OTHER -> was

\* The state before each character, and at the end.
Lexer(text) ==
  LET at[n \in 1 .. Len(text) + 1] == IF n = 1 THEN "code" ELSE After(text, n - 1, at[n - 1])
  IN at

\* The placeholders it sees, and how many come before one.
Seen(text, Marks) == {i \in DOMAIN text : text[i] \in Marks /\ Lexer(text)[i] = "code"}
Before(text, Marks, i) == {j \in Seen(text, Marks) : j < i}

\* The arguments that stand, in the statement sent, where the text of the
\* application has $n; none when the query is refused, by the engine or,
\* when the numbers do not match, by the driver.
BoundTo(text, args, n) ==
  LET sent == getSqlQuery(text, args)
  IN IF ~sent.ok \/ Cardinality(Seen(sent.text, {"?"})) # Len(sent.args) THEN {}
     ELSE {sent.args[Cardinality(Before(sent.text, {"?"}, i)) + 1] :
             i \in {j \in Seen(text, Numbered) : NumberOf[text[j]] = n}}
=============================================================================
