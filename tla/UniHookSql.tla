----------------------------- MODULE UniHookSql -----------------------------
(***************************************************************************)
(* What a write hook's statement does, and what the engine believes it     *)
(* does.  The engine did not write the statement; to encrypt the arguments *)
(* of the secreton columns and to find the MAC it parses the text and maps *)
(* columns to arguments, or refuses.  The parser is translated from the    *)
(* source.  What the database does is read off the statement's parts, of   *)
(* which the text is only the rendering.                                   *)
(*                                                                         *)
(* Texts are sequences of lexemes, see UniLex.  Arguments are numbered     *)
(* from 1.  $N stands for :N too; case, and names put together from        *)
(* several lexemes, are left out.                                          *)
(***************************************************************************)
EXTENDS UniLex

Mark == {"?"} \cup Numbered
Sign == Quote \cup Blank \cup {"(", ")", ",", "=", "-", "/", "*"}
Ident(lexeme) == lexeme \notin Mark \cup Sign

\* TrimSpace.
Trimmed(text) ==
  LET ink == {i \in DOMAIN text : text[i] \notin Blank}
  IN IF ink = {} THEN <<>> ELSE SubSeq(text, Min(ink), Max(ink))

-----------------------------------------------------------------------------
(* Placeholders, keywords, parentheses and segments of a masked text. *)

Places(text, first, last) == {i \in first .. last : text[i] \in Mark}

ArgOf(text, i) ==
  IF text[i] = "?" THEN Cardinality({j \in 1 .. i : text[j] = "?"}) ELSE NumberOf[text[i]]

placeholderArgCount(text) ==
  LET numbers == {NumberOf[text[i]] : i \in {j \in DOMAIN text : text[j] \in Numbered}}
  IN IF numbers = {} THEN Cardinality(Places(text, 1, Len(text))) ELSE Max(numbers)

\* The first occurrence of a word; 0 when there is none.
findKeyword(text, word, from) ==
  LET at == {i \in from .. Len(text) : text[i] = word}
  IN IF at = {} THEN 0 ELSE Min(at)

Depth(text, first, last) ==
  Cardinality({i \in first .. last : text[i] = "("})
    - Cardinality({i \in first .. last : text[i] = ")"})

matchParen(text, open) ==
  LET closes == {i \in open .. Len(text) : text[i] = ")" /\ Depth(text, open, i) = 0}
  IN IF closes = {} THEN 0 ELSE Min(closes)

\* The first and last position of each segment between commas.
splitTopLevel(text, first, last) ==
  LET commas == {i \in first .. last : text[i] = "," /\ Depth(text, first, i) = 0}
      ends == commas \cup {last + 1}
  IN [n \in 1 .. Cardinality(ends) |->
        <<IF n = 1 THEN first ELSE Nth(ends, n - 1) + 1, Nth(ends, n) - 1>>]

\* A name without the quotes around it.
Unquoted(name) ==
  IF Len(name) = 3 /\ name[1] = name[3] /\ name[1] \in {"dq", "bq"} THEN <<name[2]>> ELSE name

\* The column that is all of a text, "" when it is not just a name.
NameIn(bare) == IF Len(bare) = 1 /\ Ident(bare[1]) THEN bare[1] ELSE ""

hookColKey(piece) == NameIn(Unquoted(Trimmed(stripSQLComments(piece))))

-----------------------------------------------------------------------------
(* The plan: the arguments of some columns, and how many the text takes. *)

NoPlan == [ok |-> FALSE, idx |-> <<>>, count |-> 0]

\* Where the groups after VALUES open; 0 is among them when something else
\* follows.
Groups(text, from) ==
  LET at[i \in 0 .. Len(text) + 1] ==
        IF i > Len(text) THEN {}
        ELSE IF i = 0 THEN {0}
        ELSE IF text[i] \in Blank \cup {","} THEN at[i + 1]
        ELSE IF text[i] # "(" THEN {0}
        ELSE LET close == matchParen(text, i)
             IN IF close = 0 THEN {0} ELSE {i} \cup at[close + 1]
  IN at[from]

resolveInsertColumnArgs(text, masked, values, cols) ==
  LET opens == {i \in 1 .. values - 1 : masked[i] = "("}
      close == matchParen(masked, Max(opens))
      list == splitTopLevel(masked, Max(opens) + 1, close - 1)
      key == [n \in DOMAIN list |-> hookColKey(SubSeq(text, list[n][1], list[n][2]))]
      wanted == {n \in DOMAIN key : key[n] \in cols}
      groups == Groups(masked, values + 1)
      PlacesIn(g) == Places(masked, g, matchParen(masked, g))
      size == Cardinality(groups)
      shaped ==
        /\ \A i \in Places(masked, 1, Len(masked)) : i > values /\ ArgOf(masked, i) > 0
        /\ opens # {} /\ close \in 1 .. values
        /\ "" \notin {key[n] : n \in DOMAIN key}
        /\ groups # {} /\ 0 \notin groups
        /\ \A g \in groups :
             /\ Cardinality(PlacesIn(g)) = Len(key)
             /\ \A i \in g + 1 .. matchParen(masked, g) - 1 :
                  masked[i] \in Mark \cup Blank \cup {","}
  IN IF ~shaped THEN NoPlan
     ELSE [ok |-> TRUE, count |-> placeholderArgCount(masked),
           idx |-> [n \in 1 .. Cardinality(wanted) * size |->
             LET col == Nth(wanted, ((n - 1) \div size) + 1)
                 group == Nth(groups, ((n - 1) % size) + 1)
             IN ArgOf(masked, Nth(PlacesIn(group), col))]]

resolveUpdateColumnArgs(text, masked, set, cols) ==
  LET where == findKeyword(masked, "where", set + 1)
      last == IF where = 0 THEN Len(masked) ELSE where - 1
      list == splitTopLevel(masked, set + 1, last)
      eq == [n \in DOMAIN list |->
               LET at == findKeyword(masked, "=", list[n][1])
               IN IF at > list[n][2] THEN 0 ELSE at]
      key == [n \in DOMAIN list |-> hookColKey(SubSeq(text, list[n][1], eq[n] - 1))]
      right == [n \in DOMAIN list |-> Trimmed(SubSeq(masked, eq[n] + 1, list[n][2]))]
      wanted == {n \in DOMAIN list : key[n] \in cols}
      Place(n) == Min(Places(masked, eq[n] + 1, list[n][2]))
      shaped ==
        /\ \A n \in DOMAIN list : eq[n] # 0 /\ key[n] # ""
        /\ \A n \in wanted : /\ Len(right[n]) = 1 /\ right[n][1] \in Mark
                             /\ ArgOf(masked, Place(n)) > 0
  IN IF ~shaped THEN NoPlan
     ELSE [ok |-> TRUE, count |-> placeholderArgCount(masked),
           idx |-> [n \in 1 .. Cardinality(wanted) |-> ArgOf(masked, Place(Nth(wanted, n)))]]

dedupeInts(list) ==
  TextAt(list, {n \in DOMAIN list : \A m \in 1 .. n - 1 : list[m] # list[n]})

resolveHookColumnArgs(text, cols) ==
  LET masked == maskSQLLiterals(text)
      values == findKeyword(masked, "values", 1)
      set == findKeyword(masked, "set", 1)
      plan == IF values # 0 THEN resolveInsertColumnArgs(text, masked, values, cols)
              ELSE IF set # 0 THEN resolveUpdateColumnArgs(text, masked, set, cols)
              ELSE NoPlan
  IN [plan EXCEPT !.idx = dedupeInts(plan.idx)]

-----------------------------------------------------------------------------
(* Statements.  A part is [col, row, text]: its text is what the statement *)
(* gives to the column, of its row-th row, or in a tail clause when row is *)
(* 0; col is "" for all that is between.                                   *)

Joined(texts) ==
  LET upto[n \in 0 .. Len(texts)] == IF n = 0 THEN <<>> ELSE upto[n - 1] \o texts[n]
  IN upto[Len(texts)]

TextOf(parts) == Joined([n \in DOMAIN parts |-> parts[n].text])

\* The argument the database takes for a part, 0 for a literal or an
\* expression (external).
Source(parts, n) ==
  LET part == parts[n].text
      before == TextOf(SubSeq(parts, 1, n - 1))
  IN IF Len(part) # 1 \/ part[1] \notin Mark THEN 0
     ELSE IF part[1] \in Numbered THEN NumberOf[part[1]]
     ELSE Cardinality(Seen(before, {"?"})) + 1

\* The argument that a column of a row gets, -1 when the statement leaves the
\* column alone.
SourceOf(parts, row, col) ==
  LET here == {n \in DOMAIN parts : parts[n].row = row /\ parts[n].col = col}
  IN IF here = {} THEN -1 ELSE Source(parts, Max(here))

\* The number of arguments the driver asks for (external).
NumInput(parts) ==
  LET seen == Seen(TextOf(parts), Mark)
      text == TextOf(parts)
      numbers == {NumberOf[text[i]] : i \in {j \in seen : text[j] \in Numbered}}
  IN IF numbers = {} THEN Cardinality(seen) ELSE Max(numbers)

Column == {"key", "val", "mac"}

\* All that matters of a statement: what the database does with its
\* arguments, what its author means by each, and what the engine's parser
\* says of them.
Summary(op, parts, secrets) ==
  LET last == Max({parts[n].row : n \in DOMAIN parts})
      text == TextOf(parts)
      role == [i \in 1 .. NumInput(parts) |->
                 LET users == {n \in DOMAIN parts : parts[n].col \in Column /\ Source(parts, n) = i}
                 IN IF users = {} THEN [col |-> "", row |-> 1]
                    ELSE [col |-> parts[Min(users)].col,
                          row |-> Max({1, parts[Min(users)].row})]]
  IN [op |-> op, roles |-> role,
      rows |-> [r \in 1 .. last |-> [key |-> SourceOf(parts, r, "key"), val |-> SourceOf(parts, r, "val"),
                                 mac |-> SourceOf(parts, r, "mac")]],
      tail |-> SourceOf(parts, 0, "val"),
      mac |-> resolveHookColumnArgs(text, {"mac"}),
      secret |-> resolveHookColumnArgs(text, secrets)]
=============================================================================
