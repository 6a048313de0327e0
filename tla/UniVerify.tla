----------------------------- MODULE UniVerify -----------------------------
(***************************************************************************)
(* One table whose rows carry a MAC over their key and value, and whose    *)
(* value column is encrypted: the writes that sign and seal, the write     *)
(* hooks whose own statement must not get round either, the reads that     *)
(* open and verify, and other programs that write to the table.            *)
(*                                                                         *)
(* A write signs the caller's struct, then seals, then sends one statement *)
(* that is atomic, fails on a duplicate key, and may have been executed    *)
(* even if the driver reports an error.  A read opens each row, lets a     *)
(* read hook fill the struct, and verifies it.                             *)
(*                                                                         *)
(* A MAC is not forged and a sealed text not opened without the key; other *)
(* programs copy both, and write texts of their own.  The engines have the *)
(* built-in sealing of UniSecret; configuration does not change.           *)
(***************************************************************************)
EXTENDS Integers, Sequences, FiniteSets

CONSTANTS
  Engine,      \* the engines that write
  Reader,      \* engines that only list
  Conf,        \* the configuration of each
  SecretName,  \* the non-empty values of SecretBy
  VerifyName,  \* the non-empty values of VerifyBy
  NoName,      \* the empty one
  Key, Val,    \* what the application writes
  KeyMarked,   \* the key column is marked secreton (RegisterPkeys allows it)
  Hook,        \* the statements of write hooks, see UniHookSql!Summary
  CopyHook,    \* the column lists and rows of COPY hooks
  Query,       \* the queries by key, see Lookup
  Foreign,     \* the texts that other programs write of their own
  Empty,       \* the zero value of an attribute
  NoMac,       \* the empty MAC
  Broken,      \* one without the tag, or no base64
  Failed,      \* an error
  MaxSigned,   \* a bound on the history of signatures
  Nobody       \* not written by an engine, or not with the struct's values

\* A text, with the secrets it is sealed under, innermost first.
Text == [val : Key \cup Val \cup {Empty}, by : Seq(SecretName)]
Plain(v) == [val |-> v, by |-> <<>>]

Column == {"key", "val", "mac"}
Sum == [by : VerifyName, key : Text, val : Text]
MacValue == Sum \cup {NoMac, Broken}
Struct == [key : Text, val : Text, mac : MacValue]

\* of (history): the engine that wrote the row, and the value its caller gave.
Writer == [by : Engine, val : Text]
Row == [key : Text, val : Text, mac : MacValue, of : Writer \cup {Nobody}]

Plan == [ok : BOOLEAN, idx : Seq(Nat), count : Nat]
HookSummary ==
  [op : {"insert", "update"}, roles : Seq([col : Column \cup {""}, row : Nat]),
   rows : Seq([Column -> Nat \cup {-1}]), tail : Nat \cup {-1}, mac : Plan, secret : Plan]

\* An argument is for one column, of a row that is written.
ArgumentsFit(h) ==
  LET Fits(source, col) ==
        source > 0 => source \in DOMAIN h.roles /\ h.roles[source].col = col
  IN /\ \A i \in DOMAIN h.roles : h.roles[i].row \in DOMAIN h.rows
     /\ \A n \in DOMAIN h.rows, col \in Column : Fits(h.rows[n][col], col)
     /\ Fits(h.tail, "val")

\* What a COPY hook gives: names, where "note" is another field and "" is no
\* field of the class, and rows, each made from a struct, with the MAC of the
\* same or another one; some lack a value.
CopySummary ==
  [cols : Seq(Column \cup {"note", ""}), rows : Seq([from : Nat, mac : Nat, full : BOOLEAN])]

ASSUME VerifyAssumption ==
  /\ Conf \in [Engine \cup Reader -> [SecretOn : BOOLEAN, SecretBy : SecretName \cup {NoName},
                                      VerifyOn : BOOLEAN, VerifyBy : VerifyName \cup {NoName},
                                      Strict : BOOLEAN]]
  /\ NoName \notin SecretName \cup VerifyName
  /\ KeyMarked \in BOOLEAN
  /\ Hook \subseteq HookSummary /\ \A h \in Hook : ArgumentsFit(h)
  /\ CopyHook \subseteq CopySummary
  /\ Foreign \subseteq Text
  /\ NoMac \notin Sum /\ Broken \notin Sum /\ Failed \notin Text /\ Nobody \notin Writer

VARIABLES
  rows,   \* the table
  held,   \* the struct the application works with
  signed  \* history: what has been signed

vars == <<rows, held, signed>>

TypeOK == rows \subseteq Row /\ held \in Struct /\ signed \subseteq Sum

-----------------------------------------------------------------------------
(* Signing and sealing. *)

verifyActive(e) == Conf[e].VerifyOn

\* Faulty variant: the payload leaves out the key of the row.
SumOfValue(e, s) == [by |-> Conf[e].VerifyBy, key |-> Plain(Empty), val |-> s.val]

\* verifyPayload and the HMAC over it.
SumOf(e, s) == [by |-> Conf[e].VerifyBy, key |-> s.key, val |-> s.val]

CanSign(e) == verifyActive(e) => Conf[e].VerifyBy # NoName
CanSeal(e) == Conf[e].SecretOn => Conf[e].SecretBy # NoName

SignRow(e, s) == IF verifyActive(e) THEN [s EXCEPT !.mac = SumOf(e, s)] ELSE s

\* The signatures over the structs of a sequence.
SumsOf(e, list) == IF verifyActive(e) THEN {SumOf(e, list[i]) : i \in DOMAIN list} ELSE {}

Marked(col) == col = "val" \/ (col = "key" /\ KeyMarked)

\* Keys are never sealed, so that WHERE can find them.
secretColumn(col) == Marked(col) /\ col # "key"

Sealed(e, text, times) ==
  [text EXCEPT !.by = @ \o [n \in 1 .. times |-> Conf[e].SecretBy]]

\* What a generated statement puts into a column.
ColumnValue(e, s, col) ==
  IF secretColumn(col) /\ Conf[e].SecretOn THEN Sealed(e, s[col], 1) ELSE s[col]

RowOf(e, s) ==
  [key |-> ColumnValue(e, s, "key"), val |-> ColumnValue(e, s, "val"), mac |-> s.mac,
   of |-> [by |-> e, val |-> s.val]]

\* Secret, of a text read.  One without seal is passed through.
Decrypted(e, text) ==
  IF ~Conf[e].SecretOn THEN text
  ELSE IF Conf[e].SecretBy = NoName THEN Failed
  ELSE IF text.by = <<>> THEN text
  ELSE IF text.by[Len(text.by)] # Conf[e].SecretBy THEN Failed
  ELSE [text EXCEPT !.by = SubSeq(@, 1, Len(@) - 1)]

-----------------------------------------------------------------------------
(* Writes. *)

Keys == {r.key : r \in rows}

\* The structs are signed before anything is sent; the application's is the
\* first of them.
Sign(e, list) ==
  /\ CanSign(e)
  /\ held' = SignRow(e, held)
  /\ signed' = signed \cup SumsOf(e, list)
  /\ Cardinality(signed') <= MaxSigned

\* VerifySignRow; and a write that fails after the signing: for want of a key
\* to seal with, at hookWriteGuard or at the database.
SignOnly(e, list) == Sign(e, list) /\ UNCHANGED rows

\* All rows of a statement are inserted, or none.
Inserted(new) ==
  /\ \A r \in new : r.key \notin Keys
  /\ \A r, q \in new : r.key = q.key => r = q
  /\ rows' = rows \cup new

\* InsertCtx and, with a second struct, InsertLCtx.
Insert(e, list) ==
  /\ Sign(e, list)
  /\ CanSeal(e)
  /\ \A i, j \in DOMAIN list : list[i].key = list[j].key => i = j
  /\ Inserted({RowOf(e, SignRow(e, list[i])) : i \in DOMAIN list})

\* UpdateCtx: all columns but the key, where the key is the struct's.
Update(e) ==
  LET new == [RowOf(e, SignRow(e, held)) EXCEPT !.key = held.key]
  IN /\ Sign(e, <<held>>)
     /\ CanSeal(e)
     /\ rows' = {IF r.key = held.key THEN new ELSE r : r \in rows}

\* saveUpsert, for SaveIt: the key is passed as it is.
Upsert(e) ==
  LET new == [RowOf(e, SignRow(e, held)) EXCEPT !.key = held.key]
  IN /\ Sign(e, <<held>>)
     /\ CanSeal(e)
     /\ rows' = {r \in rows : r.key # held.key} \cup {new}

Delete(e) ==
  /\ rows' = {r \in rows : r.key # held.key}
  /\ UNCHANGED <<held, signed>>

-----------------------------------------------------------------------------
(* Writes by the statement of a hook. *)

\* The values the hook gives, each meant for the column of its role; old: it
\* uses the MACs that the structs had before they were signed.
Given(h, list, signedList, old) ==
  [i \in DOMAIN h.roles |->
     LET col == h.roles[i].col
         row == h.roles[i].row
     IN IF col = "" THEN Plain(Empty)
        ELSE IF old THEN list[row][col] ELSE signedList[row][col]]

InRange(plan, args) == \A n \in DOMAIN plan.idx : plan.idx[n] \in DOMAIN args

\* Faulty variant: the MAC column is there, whatever it gets.
MacPresent(h, args, macs) ==
  h.mac.ok /\ Len(h.mac.idx) = Len(macs) /\ h.mac.count = Len(args)

\* The first half of hookWriteGuard.
MacCarried(h, args, macs) ==
  /\ h.mac.ok /\ Len(h.mac.idx) = Len(macs) /\ h.mac.count = Len(args)
  /\ InRange(h.mac, args)
  /\ \A n \in DOMAIN macs : args[h.mac.idx[n]] = macs[n]

\* Faulty variant: a statement that the parser does not understand passes.
SecretsIfMapped(h, args) ==
  h.secret.ok => h.secret.count = Len(args) /\ InRange(h.secret, args)

\* The second half: which statements it lets through, and with which arguments.
SecretsMapped(h, args) ==
  h.secret.ok /\ h.secret.count = Len(args) /\ InRange(h.secret, args)

SealedArgs(e, h, args) ==
  [i \in DOMAIN args |->
     LET times == Cardinality({n \in DOMAIN h.secret.idx : h.secret.idx[n] = i})
     IN IF times = 0 THEN args[i] ELSE Sealed(e, args[i], times)]

hookWriteGuard(e, h, args, macs) ==
  /\ verifyActive(e) => MacCarried(h, args, macs)
  /\ Conf[e].SecretOn => SecretsMapped(h, args) /\ (h.secret.idx # <<>> => CanSeal(e))

\* What the database puts into a column: an argument, a literal, or what it
\* held before (external).
Put(source, args, literal, before) ==
  IF source = -1 THEN before ELSE IF source = 0 THEN literal ELSE args[source]

\* A row the hook's statement writes over the row r.  Its writer counts only
\* if the statement passes on the struct's key and value.
HookRow(e, s, source, given, args, r) ==
  [key |-> Put(source["key"], args, Plain(Empty), r.key),
   val |-> Put(source["val"], args, Plain(Empty), r.val),
   mac |-> Put(source["mac"], args, Broken, r.mac),
   of |-> IF /\ Put(source["key"], given, Plain(Empty), r.key) = s.key
             /\ source["val"] > 0 /\ given[source["val"]] = s.val
          THEN [by |-> e, val |-> s.val] ELSE Nobody]

NoRow == [key |-> Plain(Empty), val |-> Plain(Empty), mac |-> NoMac, of |-> Nobody]

\* Where the statement has a tail clause, it changes the value of a row that
\* is there already.
Tailed(e, h, list, given, args, new) ==
  /\ h.tail > 0 /\ Len(list) = 1
  /\ rows' = {IF r.key \notin {q.key : q \in new} THEN r
              ELSE [r EXCEPT !.val = args[h.tail],
                             !.of = IF given[h.tail] = list[1].val
                                    THEN [by |-> e, val |-> list[1].val] ELSE Nobody] :
              r \in rows}

HookStatement(e, h, list, given, args) ==
  LET new == {HookRow(e, list[i], h.rows[i], given, args, NoRow) : i \in DOMAIN list}
  IN \/ h.op = "insert" /\ Cardinality(new) = Len(list) /\ Inserted(new)
     \/ h.op = "insert" /\ Tailed(e, h, list, given, args, new)
     \/ /\ h.op = "update"
        /\ rows' = {IF r.key # args[h.rows[1]["key"]] THEN r
                    ELSE HookRow(e, list[1], h.rows[1], given, args, r) : r \in rows}

\* Insert, InsertL or Update of a class with hooks.
HookWrite(e, h, list, old) ==
  LET signedList == [i \in DOMAIN list |-> SignRow(e, list[i])]
      given == Given(h, list, signedList, old)
      args == IF Conf[e].SecretOn THEN SealedArgs(e, h, given) ELSE given
      macs == [i \in DOMAIN list |-> signedList[i].mac]
  IN /\ Sign(e, list)
     /\ hookWriteGuard(e, h, given, macs)
     /\ HookStatement(e, h, list, given, args)

\* Of each of the statements the engine's parser finds what the database will
\* do: the arguments to seal are those that get into the secret column, each
\* once, and the MACs are those of the rows, in their order; or it refuses it.
Understood(statements) ==
  \A e \in Engine, h \in statements :
    /\ h.secret.ok => \A i \in DOMAIN h.roles :
         Cardinality({n \in DOMAIN h.secret.idx : h.secret.idx[n] = i})
           = IF h.roles[i].col = "val" THEN 1 ELSE 0
    /\ h.mac.ok /\ Len(h.mac.idx) = Len(h.rows) =>
         \A n \in DOMAIN h.rows : h.mac.idx[n] = h.rows[n]["mac"]
    /\ h.tail > 0 => Conf[e].SecretOn /\ ~h.secret.ok

ParsedRight == Understood(Hook)

-----------------------------------------------------------------------------
(* Writes by COPY with the columns and rows of a hook. *)

\* The positions of a column in a list, of which the first counts.
Positions(cols, col) == {i \in DOMAIN cols : cols[i] = col}
First(cols, col) == CHOOSE i \in Positions(cols, col) : \A j \in Positions(cols, col) : i <= j

\* The rows a hook makes of the structs.
CopyRows(h, list, signedList, old) ==
  [n \in DOMAIN h.rows |->
     LET structs == IF old THEN list ELSE signedList
         Value(col) == IF col = "mac" THEN structs[h.rows[n].mac].mac
                       ELSE IF col \in Column THEN structs[h.rows[n].from][col]
                       ELSE Plain(Empty)
     IN [i \in 1 .. (Len(h.cols) - IF h.rows[n].full THEN 0 ELSE 1) |-> Value(h.cols[i])]]

\* Faulty variant: a row may have the MAC of another row.
MacsAmong(h, given, macs) ==
  /\ Positions(h.cols, "mac") # {} /\ Len(given) = Len(macs)
  /\ \A n \in DOMAIN given :
       /\ First(h.cols, "mac") \in DOMAIN given[n]
       /\ \E m \in DOMAIN macs : given[n][First(h.cols, "mac")] = macs[m]

\* The first half of guardCopyInHook.
MacsInRows(h, given, macs) ==
  /\ Positions(h.cols, "mac") # {} /\ Len(given) = Len(macs)
  /\ \A n \in DOMAIN given :
       /\ First(h.cols, "mac") \in DOMAIN given[n]
       /\ given[n][First(h.cols, "mac")] = macs[n]

\* The second half: every column is a field, every row has all columns.
ColumnsMapped(h, given) ==
  /\ h.cols # <<>> /\ given # <<>>
  /\ \A i \in DOMAIN h.cols : h.cols[i] # ""
  /\ \A n \in DOMAIN given : DOMAIN given[n] = DOMAIN h.cols

\* Faulty variant: what a hook gives is copied as it is.
UnsealedRows(e, h, given) == given

SealedRows(e, h, given) ==
  [n \in DOMAIN given |->
     [i \in DOMAIN given[n] |->
        IF secretColumn(h.cols[i]) THEN Sealed(e, given[n][i], 1) ELSE given[n][i]]]

guardCopyInHook(e, h, given, macs) ==
  /\ verifyActive(e) => MacsInRows(h, given, macs)
  /\ Conf[e].SecretOn =>
       /\ ColumnsMapped(h, given)
       /\ (\E i \in DOMAIN h.cols : secretColumn(h.cols[i])) => CanSeal(e)

\* The database takes columns that it has, each once, and a value for each.
Copyable(h, given) ==
  /\ h.cols # <<>> /\ \A i \in DOMAIN h.cols : h.cols[i] # ""
  /\ \A i, j \in DOMAIN h.cols : h.cols[i] = h.cols[j] => i = j
  /\ \A n \in DOMAIN given : DOMAIN given[n] = DOMAIN h.cols

\* The value that each column of a copied row gets.
CopySource(h) ==
  [col \in Column |-> IF Positions(h.cols, col) = {} THEN -1 ELSE First(h.cols, col)]

\* CopyInLCtx of a class with hooks: at most a row for each struct.
CopyHookWrite(e, h, list, old) ==
  LET signedList == [i \in DOMAIN list |-> SignRow(e, list[i])]
      given == CopyRows(h, list, signedList, old)
      args == IF Conf[e].SecretOn THEN SealedRows(e, h, given) ELSE given
      macs == [i \in DOMAIN list |-> signedList[i].mac]
      new == {HookRow(e, list[n], CopySource(h), given[n], args[n], NoRow) : n \in DOMAIN given}
  IN /\ Sign(e, list)
     /\ guardCopyInHook(e, h, given, macs)
     /\ Copyable(h, given)
     /\ Cardinality(new) = Len(given)
     /\ Inserted(new)

\* What a COPY hook can make of the structs of a list.
Copies(h, list) ==
  /\ Len(h.rows) <= Len(list)
  /\ \A n \in DOMAIN h.rows : {h.rows[n].from, h.rows[n].mac} \subseteq DOMAIN list

-----------------------------------------------------------------------------
(* Reads. *)

\* A read hook fills the struct itself; one that forgets the MAC leaves the
\* zero value.
ReadHook == {"none", "fills", "forgets the MAC"}

\* The column of a row as it is handed to the struct or to the hook.
Opened(e, r, col) == IF Marked(col) THEN Decrypted(e, r[col]) ELSE r[col]

\* The struct that a row makes, over the columns of the projection.
Filled(e, r, proj, hook) ==
  [key |-> IF "key" \in proj THEN Opened(e, r, "key") ELSE Plain(Empty),
   val |-> IF "val" \in proj THEN Opened(e, r, "val") ELSE Plain(Empty),
   mac |-> IF "mac" \in proj /\ hook # "forgets the MAC" THEN r.mac ELSE NoMac]

\* verifyCtxOf: a read that lacks a column cannot be verified.
Covered(proj) == proj = Column

\* Faulty variant: what the hook left out is not looked for.
HookTrusted(r, s) == TRUE

\* verifyHookAssign.
HookAssigned(r, s) == r.mac # NoMac => s.mac # NoMac

\* verifyRowVerdict: "accepted" is a failure that is reported and let pass.
Verdict(e, s) ==
  IF s.mac = NoMac THEN IF Conf[e].Strict THEN "refused" ELSE "silent"
  ELSE IF s.mac = Broken \/ ~CanSign(e) THEN "refused"
  ELSE IF s.mac = SumOf(e, s) THEN "silent"
  ELSE IF Conf[e].Strict THEN "refused" ELSE "accepted"

\* selectRowsCtx, of one row.  "refused" is an error and an event, "error" an
\* error only, "accepted" an event only.
Outcome(e, r, proj, hook) ==
  LET s == Filled(e, r, proj, hook)
  IN IF verifyActive(e) /\ ~Covered(proj) /\ Conf[e].Strict THEN "refused"
     ELSE IF Failed \in {s.key, s.val} THEN "error"
     ELSE IF ~verifyActive(e) \/ ~Covered(proj) THEN "silent"
     ELSE IF hook # "none" /\ ~HookAssigned(r, s) THEN "refused"
     ELSE Verdict(e, s)

HandedOver == {"silent", "accepted"}

\* A query that has $n where it names the key: the keys it gets.
Lookup(q, args) == {r \in rows : q.bound # {} /\ \A i \in q.bound : r.key = args[i]}

\* The rows that some query finds.
Found ==
  {r \in rows : \E q \in Query, args \in Key \X Key :
                  r \in Lookup(q, <<Plain(args[1]), Plain(args[2])>>)}

\* Faulty variant: the struct is filled before the errors are looked at.
SelectAnyway(e, r) ==
  /\ \E proj \in SUBSET Column \ {{}}, hook \in ReadHook :
       held' = Filled(e, r, proj, hook)
  /\ UNCHANGED <<rows, signed>>

\* SelectCtx of the row r into the application's struct.  A hook's struct takes
\* the place of it, otherwise the columns read are merged into it.
Select(e, r) ==
  /\ \E proj \in SUBSET Column \ {{}}, hook \in ReadHook :
       /\ Outcome(e, r, proj, hook) \in HandedOver
       /\ LET s == Filled(e, r, proj, hook)
              taken == IF hook = "none" THEN proj ELSE Column
          IN held' = [key |-> IF "key" \in taken THEN s.key ELSE held.key,
                      val |-> IF "val" \in taken THEN s.val ELSE held.val,
                      mac |-> IF "mac" \in taken THEN s.mac ELSE held.mac]
  /\ UNCHANGED <<rows, signed>>

-----------------------------------------------------------------------------
(* The application and the other programs. *)

\* The application makes a struct, or changes the value of the one it has.
Assign(v) == held' = [held EXCEPT !.val = Plain(v)] /\ UNCHANGED <<rows, signed>>

New(k, v) ==
  /\ held' = [key |-> Plain(k), val |-> Plain(v), mac |-> NoMac]
  /\ UNCHANGED <<rows, signed>>

\* Another program writes a row: a value of its own or one that is in the
\* table, and a MAC that is empty, broken, or was made for some row.
OtherWrites(k, text, mac) ==
  /\ text \in Foreign \cup {r.val : r \in rows}
  /\ mac \in {NoMac, Broken} \cup signed
  /\ rows' = {r \in rows : r.key # Plain(k)}
               \cup {[key |-> Plain(k), val |-> text, mac |-> mac, of |-> Nobody]}
  /\ UNCHANGED <<held, signed>>

Init ==
  /\ rows = {}
  /\ held \in {[key |-> Plain(k), val |-> Plain(v), mac |-> NoMac] : k \in Key, v \in Val}
  /\ signed = {}

\* What is written: the struct held, alone or with another one.
Lists == {<<held>>} \cup
  {<<held, [key |-> Plain(k), val |-> Plain(v), mac |-> NoMac]>> : k \in Key, v \in Val}

Next ==
  \/ \E e \in Engine : Update(e) \/ Upsert(e) \/ Delete(e)
  \/ \E e \in Engine, list \in Lists :
       \/ SignOnly(e, list) \/ Insert(e, list)
       \/ \E h \in Hook, old \in BOOLEAN :
            Len(h.rows) = Len(list) /\ HookWrite(e, h, list, old)
       \/ \E h \in CopyHook, old \in BOOLEAN :
            Copies(h, list) /\ CopyHookWrite(e, h, list, old)
  \/ \E e \in Engine, r \in Found : Select(e, r)
  \/ \E v \in Val : Assign(v)
  \/ \E k \in Key, v \in Val : New(k, v)
  \/ \E k \in Key, text \in Foreign \cup {r.val : r \in rows},
       mac \in {NoMac, Broken} \cup signed : OtherWrites(k, text, mac)

Spec == Init /\ [][Next]_vars

-----------------------------------------------------------------------------
(* Properties. *)

\* e has the keys to read what w writes.
Reads(e, w) ==
  /\ Conf[e].SecretOn = Conf[w].SecretOn /\ Conf[e].SecretBy = Conf[w].SecretBy
  /\ verifyActive(e) => verifyActive(w) /\ Conf[e].VerifyBy = Conf[w].VerifyBy

\* A row that an engine wrote, by its own statement or a hook's, comes back
\* to every engine with the same keys as the caller gave it, and passes.
WrittenVerifies ==
  \A r \in rows : r.of # Nobody =>
    \A e \in Engine \cup Reader, hook \in {"none", "fills"} : Reads(e, r.of.by) =>
      /\ Outcome(e, r, Column, hook) = "silent"
      /\ Filled(e, r, Column, hook) = [key |-> r.key, val |-> r.of.val, mac |-> r.mac]

\* Such a row has its value under exactly one seal more than the caller's,
\* by hook statements too, and its key under none.
SecretSealed ==
  \A r \in rows : r.of # Nobody /\ Conf[r.of.by].SecretOn =>
    r.val = Sealed(r.of.by, r.of.val, 1) /\ r.key.by = <<>>

\* What a strict engine hands over was signed as a whole: no tampering, no
\* exchange between rows, no projection and no hook gets past it.
StrictAuthentic ==
  \A r \in rows, e \in Engine \cup Reader, proj \in SUBSET Column, hook \in ReadHook :
    verifyActive(e) /\ Conf[e].Strict /\ Outcome(e, r, proj, hook) \in HandedOver =>
      LET s == Filled(e, r, proj, hook)
      IN [by |-> Conf[e].VerifyBy, key |-> s.key, val |-> s.val] \in signed

\* A read that can verify hands over what was not signed only with an event,
\* or if the row has no MAC and the mode is lenient.
NothingSilent ==
  \A r \in rows, e \in Engine \cup Reader, hook \in ReadHook :
    LET s == Filled(e, r, Column, hook)
    IN verifyActive(e) /\ Outcome(e, r, Column, hook) = "silent" =>
         \/ [by |-> Conf[e].VerifyBy, key |-> s.key, val |-> s.val] \in signed
         \/ r.mac = NoMac /\ ~Conf[e].Strict

\* A query finds only rows with the key that the caller's numbering means,
\* whatever literals, comments and repeated or swapped numbers surround it.
ReadsAsked ==
  \A q \in Query, args \in [1 .. 2 -> {Plain(k) : k \in Key}] :
    \A r \in Lookup(q, args) : r.key = args[q.asked]
=============================================================================
