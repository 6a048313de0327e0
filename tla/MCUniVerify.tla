---------------------------- MODULE MCUniVerify ----------------------------
(***************************************************************************)
(* Instances of UniVerify for TLC.  The write hooks and the queries are    *)
(* concrete texts; UniHookSql and UniLex say what the engine and the       *)
(* database make of them, and texts that come to the same are one element. *)
(***************************************************************************)
EXTENDS UniVerify, TLC

CONSTANTS lenient, strict, nocheck, noseal, nokeys, k1, v1, s1, s2, m1

Number == [m \in {"$1", "$2", "$3", "$4", "$5", "$6"} |->
  CASE m = "$1" -> 1 [] m = "$2" -> 2 [] m = "$3" -> 3 [] m = "$4" -> 4
    [] m = "$5" -> 5 [] m = "$6" -> 6]

Sql == INSTANCE UniHookSql WITH Numbered <- DOMAIN Number, NumberOf <- Number

Lex == INSTANCE UniLexProofs WITH Numbered <- DOMAIN Number, NumberOf <- Number

ASSUME NumbersAssumption == Sql!LexAssumption /\ DOMAIN Number \cap Lex!Sign = {}

-----------------------------------------------------------------------------
(* Engines: a lenient one writes; a strict one reads, as do one that does  *)
(* not verify, one that does not seal, and one whose keys are missing.     *)

On(isStrict) == [SecretOn |-> TRUE, SecretBy |-> s1, VerifyOn |-> TRUE, VerifyBy |-> m1,
                 Strict |-> isStrict]

Configurations == [e \in {lenient, strict, nocheck, noseal, nokeys} |->
  CASE e = lenient -> On(FALSE)
    [] e = strict -> On(TRUE)
    [] e = nocheck -> [On(FALSE) EXCEPT !.VerifyOn = FALSE]
    [] e = noseal -> [On(FALSE) EXCEPT !.SecretOn = FALSE]
    [] e = nokeys -> [On(TRUE) EXCEPT !.SecretBy = NoName, !.VerifyBy = NoName]]

\* Other programs leave a value unsealed or seal it with a key of their own.
MCForeign == {Plain(v1), [val |-> v1, by |-> <<s2>>]}

-----------------------------------------------------------------------------
(* Queries: "... key = $1 ... $2 ..." with all that may stand around them. *)

Lexemes == {"'", "dq", "-", "/", "*", " ", "\n", "?", "$1", "$2"}
Texts == UNION {[1 .. n -> Lexemes] : n \in 1 .. 4}

KeyQueries ==
  {[asked |-> n, bound |-> Sql!BoundTo(text, <<1, 2>>, n)] : n \in 1 .. 2, text \in Texts}

-----------------------------------------------------------------------------
(* Statements of write hooks.  <<c, text>> gives the text to column c. *)

Fixed(text) == [col |-> "", row |-> 1, text |-> text]
Part(row, item) == [col |-> item[1], row |-> row, text |-> item[2]]

\* The same parts with commas between them.
Listed(parts) ==
  [n \in 1 .. 2 * Len(parts) - 1 |->
     IF n % 2 = 1 THEN parts[(n + 1) \div 2] ELSE Fixed(<<",", " ">>)]

\* A placeholder for each column: by position, numbered up or numbered down.
Marks == <<"$1", "$2", "$3", "$4", "$5", "$6">>
Styles == {"?", "up", "down"}
Bound(cols, style) ==
  [n \in DOMAIN cols |->
     <<cols[n], <<CASE style = "?" -> "?" [] style = "up" -> Marks[n]
                    [] style = "down" -> Marks[Len(cols) + 1 - n]>> >>]

\* Ways to write a column's name.
Names == {<<>>, <<"dq">>, <<"bq">>}
Comments == {<<>>, <<"/", "*", "?", ",", "values", "*", "/">>, <<"-", "-", " ", "'", "\n">>}

\* INSERT of one or more rows of the same columns.
InsertOf(quote, comment, groups, tail) ==
  LET Group(g) == <<Fixed(<<"(">>)>> \o Listed([n \in DOMAIN groups[g] |-> Part(g, groups[g][n])])
                    \o <<Fixed(<<")">>)>>
      names == [n \in DOMAIN groups[1] |-> Fixed(comment \o quote \o <<groups[1][n][1]>> \o quote)]
  IN <<Fixed(<<"insert", " ", "into", " ", "t", " ", "(">>)>> \o Listed(names)
       \o <<Fixed(<<")", " ", "values", " ">>)>> \o Group(1)
       \o (IF Len(groups) = 1 THEN <<>> ELSE <<Fixed(<<",">>)>> \o Group(2)) \o tail

\* The assignments of an UPDATE, or of MySQL's INSERT SET.
SetOf(quote, comment, items) ==
  LET Pair(item) == <<Fixed(comment \o quote \o <<item[1]>> \o quote \o <<"=">>), Part(1, item)>>
  IN Sql!Joined([n \in DOMAIN items |->
       IF n = 1 THEN Pair(items[n]) ELSE <<Fixed(<<",">>)>> \o Pair(items[n])])

UpdateOf(quote, comment, items, key) ==
  <<Fixed(<<"update", " ", "t", " ", "set", " ">>)>> \o SetOf(quote, comment, items)
    \o <<Fixed(<<" ", "where", " ", "key", "=">>), Part(1, <<"key", key>>)>>

InsertSetOf(items, tail) ==
  <<Fixed(<<"insert", " ", "into", " ", "t", " ", "set", " ">>)>> \o SetOf(<<>>, <<>>, items) \o tail

OnDuplicate ==
  <<Fixed(<<" ", "on", " ", "duplicate", " ", "key", " ", "update", " ", "val", "=">>),
    Part(0, <<"val", <<"?">> >>)>>

Orders == {<<"key", "val", "mac">>, <<"mac", "val", "key">>, <<"val", "note", "key", "mac">>,
           <<"key", "val">>, <<"key", "mac">>}

\* What stands in the place of a placeholder: a literal with a keyword or a
\* placeholder in it, an expression.
Odd == {<<"'", "values", "'">>, <<"'", "where", "'">>, <<"'", "?", "'">>, <<"f", "(", "?", ")">>}

KeyValMac == Bound(<<"key", "val", "mac">>, "?")
ValMac == Bound(<<"val", "mac">>, "?")
NoteValMac == Bound(<<"note", "val", "mac">>, "?")
MacNoteVal == Bound(<<"mac", "note", "val">>, "?")

InsertTexts ==
  {InsertOf(q, c, <<Bound(o, s)>>, <<>>) : q \in Names, c \in Comments, o \in Orders, s \in Styles}
  \cup {InsertOf(<<>>, <<>>, <<[KeyValMac EXCEPT ![n][2] = odd]>>, <<>>) : n \in 1 .. 3, odd \in Odd}
  \cup {InsertOf(<<>>, <<>>, <<KeyValMac, KeyValMac>>, <<>>),
        InsertOf(<<>>, <<>>, <<KeyValMac>>, OnDuplicate),
        InsertSetOf(KeyValMac, <<>>),
        InsertSetOf(Bound(<<"key", "mac", "val">>, "?"), OnDuplicate)}
  \* Two rows with arguments of their own, and with one value for both.
  \cup {InsertOf(<<>>, <<>>,
          <<Bound(<<"key", "val", "mac">>, "up"),
            <<<<"key", <<"$4">> >>, <<"val", <<m[1]>> >>, <<"mac", <<m[2]>> >> >> >>, <<>>) :
          m \in {<<"$5", "$6">>, <<"$2", "$5">>}}

UpdateTexts ==
  {UpdateOf(q, c, Bound(o, s), IF s = "?" THEN <<"?">> ELSE <<"$4">>) :
     q \in Names, c \in Comments, s \in Styles,
     o \in {<<"val", "mac">>, <<"mac", "note", "val">>, <<"mac">>, <<"val">>}}
  \cup {UpdateOf(<<>>, <<>>, [items EXCEPT ![n][2] = odd], <<"?">>) :
           items \in {NoteValMac, MacNoteVal}, n \in 1 .. 3, odd \in Odd}

\* The summary with its sequences evaluated: TLC keeps a function unevaluated,
\* the result of SubSeq not.
Once(list) == SubSeq(list, 1, Len(list))
Evaluated(h) ==
  [h EXCEPT !.roles = Once(h.roles), !.rows = Once(h.rows),
            !.mac.idx = Once(h.mac.idx), !.secret.idx = Once(h.secret.idx)]
SummaryOf(op, parts) == Evaluated(Sql!Summary(op, parts, {"val"}))

HookStatements ==
  {SummaryOf(s[1], s[2]) : s \in ({"insert"} \X InsertTexts) \cup ({"update"} \X UpdateTexts)}

\* The hypothesis of the theorems holds for these texts; and those without a
\* tail clause are among the statements it is proved for.
ASSUME StatementsUnderstood == Understood(HookStatements)
ASSUME StatementsMeant ==
  \A parts \in InsertTexts \cup UpdateTexts :
    \/ \E n \in DOMAIN parts : parts[n].row = 0
    \/ parts \in Seq(Lex!Part(STRING)) /\ Lex!Meant(parts)

\* A tail clause behind a column that is not secret, and a WHERE in a
\* sub-query before the secret column.
TailStatements ==
  {SummaryOf("insert", InsertSetOf(Bound(<<"key", "val", "mac", "note">>, "?"), OnDuplicate)),
   SummaryOf("update", UpdateOf(<<>>, <<>>,
     [NoteValMac EXCEPT ![1][2] = <<"(", "select", " ", "n", " ", "from", " ", "s", " ", "where",
                                    " ", "k", "=", "?", ")">>], <<"?">>))}

-----------------------------------------------------------------------------
(* Hooks of COPY: lists of columns with rows that are in order, exchanged,  *)
(* doubled, missing or too short.                                          *)

CopyColumns ==
  {<<"mac", "note", "val", "key">>, <<"key", "val">>, <<"key", "mac">>,
   <<"key", "val", "mac", "">>, <<"key", "val", "mac", "val">>, <<>>}

FullRow(i) == [from |-> i, mac |-> i, full |-> TRUE]
ShortRow(i) == [FullRow(i) EXCEPT !.full = FALSE]
MacOf(row, j) == [row EXCEPT !.mac = j]
CopiedRows ==
  {<<FullRow(1)>>, <<ShortRow(1)>>, <<FullRow(1), FullRow(2)>>, <<FullRow(2), FullRow(1)>>,
   <<MacOf(FullRow(1), 2), MacOf(FullRow(2), 1)>>, <<FullRow(2), FullRow(2)>>,
   <<FullRow(1), ShortRow(2)>>, <<>>}

CopyHooks ==
  {[cols |-> c, rows |-> <<FullRow(1)>>] : c \in CopyColumns}
  \cup {[cols |-> <<"key", "val", "mac">>, rows |-> s] : s \in CopiedRows}

-----------------------------------------------------------------------------
(* TLC evaluates a definition without parameters once, but the name that   *)
(* the .cfg gives to a constant at each use: hence two names.              *)

MCConf == Configurations
MCQuery == KeyQueries
MCHook == HookStatements
MCCopyHook == CopyHooks
MCHookTail == TailStatements
=============================================================================
