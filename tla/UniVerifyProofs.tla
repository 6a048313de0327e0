--------------------------- MODULE UniVerifyProofs ---------------------------
(***************************************************************************)
(* Theorems about UniVerify, for any engines, configurations, values and   *)
(* statements of hooks whose text the engine's parser understands          *)
(* (ParsedRight): at the end, those of any number of rows and columns that *)
(* are written as they are meant.                                          *)
(*                                                                         *)
(* The invariant speaks of one row, or one struct, at a time; an action is *)
(* shown to write good rows only, and to keep the ones it does not write.  *)
(***************************************************************************)
EXTENDS UniVerify, FiniteSetTheorems, SequenceTheorems, TLAPS

CONSTANTS Lexeme, Numbered, NumberOf  \* the texts of the queries, see UniLex

Lex == INSTANCE UniLexProofs

-----------------------------------------------------------------------------
(* The invariant. *)

\* A MAC that was made by an engine, or that no engine accepts.
Known(mac, sums) == mac \in sums \cup {NoMac, Broken}

GoodStruct(s, sums) == s \in Struct /\ Known(s.mac, sums) /\ s.key.by = <<>>

\* What the engine w leaves of a struct with the key k and the value v.
WrittenBy(r, w, v) ==
  /\ w \in Engine /\ v \in Text /\ CanSign(w) /\ CanSeal(w)
  /\ r.val = IF Conf[w].SecretOn THEN Sealed(w, v, 1) ELSE v
  /\ verifyActive(w) => r.mac = [by |-> Conf[w].VerifyBy, key |-> r.key, val |-> v]

GoodRow(r, sums) ==
  /\ r \in Row /\ Known(r.mac, sums) /\ r.key.by = <<>>
  /\ r.of # Nobody => WrittenBy(r, r.of.by, r.of.val)

GoodRows(table, sums) == \A r \in table : GoodRow(r, sums)

IInv == signed \subseteq Sum /\ GoodStruct(held, signed) /\ GoodRows(rows, signed)

LEMMA ConfType ==
  ASSUME NEW e \in Engine \cup Reader
  PROVE  /\ Conf[e].SecretOn \in BOOLEAN /\ Conf[e].VerifyOn \in BOOLEAN
         /\ Conf[e].Strict \in BOOLEAN
         /\ CanSeal(e) /\ Conf[e].SecretOn => Conf[e].SecretBy \in SecretName
         /\ CanSign(e) /\ verifyActive(e) => Conf[e].VerifyBy \in VerifyName
  BY VerifyAssumption DEF CanSeal, CanSign, verifyActive

LEMMA PlainType ==
  ASSUME NEW v \in Key \cup Val \cup {Empty}
  PROVE  Plain(v) \in Text /\ Plain(v).by = <<>>
<1>1. <<>> \in Seq(SecretName)
  OBVIOUS
<1>2. QED BY <1>1 DEF Plain, Text

LEMMA GrowingSums ==
  ASSUME NEW sums, NEW more, sums \subseteq more
  PROVE  /\ \A s : GoodStruct(s, sums) => GoodStruct(s, more)
         /\ \A r : GoodRow(r, sums) => GoodRow(r, more)
         /\ \A table : GoodRows(table, sums) => GoodRows(table, more)
  BY DEF GoodStruct, GoodRow, GoodRows, Known

-----------------------------------------------------------------------------
(* Sealing. *)

\* Sealing adds one name, which is the last.
LEMMA SealType ==
  ASSUME NEW e \in Engine \cup Reader, Conf[e].SecretBy \in SecretName, NEW text \in Text
  PROVE  LET seal == Sealed(e, text, 1)
         IN /\ seal \in Text /\ seal.val = text.val
            /\ seal.by # <<>> /\ seal.by[Len(seal.by)] = Conf[e].SecretBy
            /\ SubSeq(seal.by, 1, Len(seal.by) - 1) = text.by
<1> DEFINE b == Conf[e].SecretBy
           one == [n \in 1 .. 1 |-> b]
           s == text.by
           t == s \o one
<1>1. s \in Seq(SecretName) /\ one \in Seq(SecretName) /\ Len(one) = 1
  BY DEF Text
<1>2. Len(s) \in Nat
  BY <1>1, LenProperties
<1>3. /\ t \in Seq(SecretName) /\ Len(t) = Len(s) + 1
      /\ \A i \in 1 .. Len(t) : t[i] = IF i <= Len(s) THEN s[i] ELSE one[i - Len(s)]
  BY <1>1, <1>2, ConcatProperties
<1>4. t[Len(t)] = b
  BY <1>2, <1>3
<1>5. t # <<>>
  BY <1>2, <1>3, EmptySeq
<1>6. SubSeq(t, 1, Len(t) - 1) = s
  <2> DEFINE u == SubSeq(t, 1, Len(t) - 1)
  <2>1. /\ u \in Seq(SecretName) /\ Len(u) = Len(s)
        /\ \A i \in 1 .. Len(s) : u[i] = t[i]
    BY <1>2, <1>3, SubSeqProperties
  <2>2. \A i \in 1 .. Len(s) : u[i] = s[i]
    BY <1>2, <1>3, <2>1
  <2> HIDE DEF u
  <2>3. u = s
    BY <1>1, <2>1, <2>2, SeqEqual
  <2>4. QED BY <2>3 DEF u
<1>7. Sealed(e, text, 1) = [text EXCEPT !.by = t]
  BY DEF Sealed
<1> HIDE DEF t
<1>8. Sealed(e, text, 1).by = t /\ Sealed(e, text, 1).val = text.val
      /\ Sealed(e, text, 1) \in Text
  BY <1>3, <1>7 DEF Text
<1>9. QED BY <1>4, <1>5, <1>6, <1>8

\* What an engine has sealed, an engine with the same key opens.
LEMMA OpensSealed ==
  ASSUME NEW w \in Engine, NEW e \in Engine \cup Reader, NEW v \in Text,
         CanSeal(w), Conf[e].SecretOn = Conf[w].SecretOn,
         Conf[e].SecretBy = Conf[w].SecretBy
  PROVE  Decrypted(e, IF Conf[w].SecretOn THEN Sealed(w, v, 1) ELSE v) = v
<1>1. CASE ~Conf[w].SecretOn
  BY <1>1 DEF Decrypted
<1>2. CASE Conf[w].SecretOn
  <2> DEFINE seal == Sealed(w, v, 1)
  <2>1. Conf[w].SecretBy \in SecretName
    BY <1>2, ConfType
  <2>2. /\ seal \in Text /\ seal.val = v.val
        /\ seal.by # <<>> /\ seal.by[Len(seal.by)] = Conf[w].SecretBy
        /\ SubSeq(seal.by, 1, Len(seal.by) - 1) = v.by
    BY <2>1, SealType
  <2>3. Conf[w].SecretBy # NoName
    BY <1>2 DEF CanSeal
  <2> HIDE DEF seal
  <2>4. Decrypted(e, seal) = [seal EXCEPT !.by = SubSeq(@, 1, Len(@) - 1)]
    BY <1>2, <2>2, <2>3 DEF Decrypted
  <2>5. [seal EXCEPT !.by = SubSeq(@, 1, Len(@) - 1)] = v
    BY <2>2 DEF Text
  <2>6. QED BY <1>2, <2>4, <2>5 DEF seal
<1>3. QED BY <1>1, <1>2, ConfType

LEMMA PlainPasses ==
  ASSUME NEW e \in Engine \cup Reader, NEW text \in Text, text.by = <<>>,
         CanSeal(e)
  PROVE  Decrypted(e, text) = text
  BY DEF Decrypted, CanSeal

\* A text that comes through is a text.
LEMMA DecryptedType ==
  ASSUME NEW e \in Engine \cup Reader, NEW text \in Text
  PROVE  Decrypted(e, text) \in Text \cup {Failed}
<1>1. CASE text.by = <<>>
  BY <1>1 DEF Decrypted
<1>2. CASE text.by # <<>>
  <2> DEFINE s == SubSeq(text.by, 1, Len(text.by) - 1)
  <2>1. text.by \in Seq(SecretName)
    BY DEF Text
  <2>2. s \in Seq(SecretName)
    <3>1. Len(text.by) \in Nat
      BY <2>1, LenProperties
    <3>2. QED BY <2>1, <3>1, SubSeqProperties
  <2> HIDE DEF s
  <2>3. [text EXCEPT !.by = s] \in Text
    BY <2>2 DEF Text
  <2>4. QED BY <2>3 DEF Decrypted, s
<1>3. QED BY <1>1, <1>2

-----------------------------------------------------------------------------
(* Reads of a good row. *)

\* The MAC a struct is verified by is that of the row, or none.
LEMMA FilledMac ==
  ASSUME NEW e, NEW r, NEW proj, NEW hook
  PROVE  LET s == Filled(e, r, proj, hook) IN s.mac = r.mac \/ s.mac = NoMac
  BY DEF Filled

\* What passes the comparison was signed.
LEMMA MacAuthentic ==
  ASSUME IInv, NEW e \in Engine \cup Reader, verifyActive(e), CanSign(e),
         NEW r \in rows, NEW s \in [key : Text, val : Text, mac : MacValue],
         s.mac = r.mac \/ s.mac = NoMac, s.mac = SumOf(e, s)
  PROVE  SumOf(e, s) \in signed
<1>1. Conf[e].VerifyBy \in VerifyName
  BY ConfType
<1>2. SumOf(e, s) \in Sum
  BY <1>1 DEF SumOf, Sum
<1>3. s.mac # NoMac /\ s.mac # Broken
  BY <1>2, VerifyAssumption
<1>4. r.mac \in signed \cup {NoMac, Broken}
  BY DEF IInv, GoodRows, GoodRow, Known
<1>5. QED BY <1>3, <1>4

LEMMA FilledType ==
  ASSUME IInv, NEW e \in Engine \cup Reader, NEW r \in rows, NEW proj, NEW hook,
         LET s == Filled(e, r, proj, hook) IN Failed \notin {s.key, s.val}
  PROVE  Filled(e, r, proj, hook) \in [key : Text, val : Text, mac : MacValue]
<1> DEFINE s == Filled(e, r, proj, hook)
<1>1. r.key \in Text /\ r.val \in Text /\ r.mac \in MacValue
  BY DEF IInv, GoodRows, GoodRow, Row
<1>2. Opened(e, r, "key") \in Text \cup {Failed} /\ Opened(e, r, "val") \in Text \cup {Failed}
  BY <1>1, DecryptedType DEF Opened
<1>3. Plain(Empty) \in Text
  BY PlainType
<1>4. NoMac \in MacValue
  BY DEF MacValue
<1>5. s = [key |-> s.key, val |-> s.val, mac |-> s.mac]
  BY DEF Filled
<1>6. s.key \in Text \cup {Failed} /\ s.val \in Text \cup {Failed} /\ s.mac \in MacValue
  BY <1>1, <1>2, <1>3, <1>4 DEF Filled
<1> HIDE DEF s
<1>7. QED BY <1>5, <1>6 DEF s

LEMMA GoodAuthentic == IInv => StrictAuthentic
<1> SUFFICES ASSUME IInv, NEW r \in rows, NEW e \in Engine \cup Reader,
                    NEW proj \in SUBSET Column, NEW hook \in ReadHook,
                    verifyActive(e), Conf[e].Strict,
                    Outcome(e, r, proj, hook) \in HandedOver
             PROVE  LET s == Filled(e, r, proj, hook)
                    IN [by |-> Conf[e].VerifyBy, key |-> s.key, val |-> s.val] \in signed
  BY DEF StrictAuthentic
<1> DEFINE s == Filled(e, r, proj, hook)
<1>1. Failed \notin {s.key, s.val} /\ Verdict(e, s) \in HandedOver
  BY DEF Outcome, HandedOver
<1>2. CanSign(e) /\ s.mac = SumOf(e, s)
  <2> HIDE DEF s
  <2> QED BY <1>1 DEF Verdict, HandedOver
<1>3. s \in [key : Text, val : Text, mac : MacValue]
  BY <1>1, FilledType
<1>4. s.mac = r.mac \/ s.mac = NoMac
  BY FilledMac
<1> HIDE DEF s
<1>5. SumOf(e, s) \in signed
  BY <1>2, <1>3, <1>4, MacAuthentic
<1>6. QED BY <1>5 DEF SumOf, s

LEMMA GoodNothingSilent == IInv => NothingSilent
<1> SUFFICES ASSUME IInv, NEW r \in rows, NEW e \in Engine \cup Reader, NEW hook \in ReadHook,
                    verifyActive(e), Outcome(e, r, Column, hook) = "silent"
             PROVE  LET s == Filled(e, r, Column, hook)
                    IN \/ [by |-> Conf[e].VerifyBy, key |-> s.key, val |-> s.val] \in signed
                       \/ r.mac = NoMac /\ ~Conf[e].Strict
  BY DEF NothingSilent
<1> DEFINE s == Filled(e, r, Column, hook)
<1>1. /\ Failed \notin {s.key, s.val} /\ Verdict(e, s) = "silent"
      /\ hook = "none" \/ HookAssigned(r, s)
  BY DEF Outcome, Covered
<1>2. hook = "none" => s.mac = r.mac
  BY DEF Filled, Column
<1>3. s \in [key : Text, val : Text, mac : MacValue]
  BY <1>1, FilledType
<1>4. s.mac = r.mac \/ s.mac = NoMac
  BY FilledMac
<1> HIDE DEF s
<1>5. CASE s.mac = NoMac
  <2>1. r.mac = NoMac
    BY <1>1, <1>2, <1>5 DEF HookAssigned
  <2>2. ~Conf[e].Strict
    BY <1>1, <1>5 DEF Verdict
  <2>3. QED BY <2>1, <2>2
<1>6. CASE s.mac # NoMac
  <2>1. CanSign(e) /\ s.mac = SumOf(e, s)
    BY <1>1, <1>6 DEF Verdict
  <2>2. SumOf(e, s) \in signed
    BY <1>3, <1>4, <2>1, MacAuthentic
  <2>3. QED BY <2>2 DEF SumOf, s
<1>7. QED BY <1>5, <1>6

LEMMA GoodSealed == IInv => SecretSealed
  BY DEF IInv, GoodRows, GoodRow, WrittenBy, SecretSealed

LEMMA GoodVerifies == IInv => WrittenVerifies
<1> SUFFICES ASSUME IInv, NEW r \in rows, r.of # Nobody,
                    NEW e \in Engine \cup Reader, NEW hook \in {"none", "fills"},
                    Reads(e, r.of.by)
             PROVE  /\ Outcome(e, r, Column, hook) = "silent"
                    /\ Filled(e, r, Column, hook) = [key |-> r.key, val |-> r.of.val, mac |-> r.mac]
  BY DEF WrittenVerifies
<1> DEFINE w == r.of.by
           v == r.of.val
           s == [key |-> r.key, val |-> v, mac |-> r.mac]
<1>1. r \in Row /\ WrittenBy(r, w, v) /\ r.key.by = <<>>
  BY DEF IInv, GoodRows, GoodRow
<1>2. r.key \in Text /\ w \in Engine /\ v \in Text /\ CanSeal(w) /\ CanSign(w)
      /\ r.val = IF Conf[w].SecretOn THEN Sealed(w, v, 1) ELSE v
  BY <1>1 DEF Row, WrittenBy
<1> HIDE DEF w, v
<1>3. CanSeal(e) /\ Conf[e].SecretOn = Conf[w].SecretOn /\ Conf[e].SecretBy = Conf[w].SecretBy
  BY <1>2 DEF Reads, CanSeal, w
<1>4. Decrypted(e, r.val) = v /\ Decrypted(e, r.key) = r.key
  BY <1>1, <1>2, <1>3, OpensSealed, PlainPasses
<1>5. Filled(e, r, Column, hook) = s
  BY <1>4 DEF Filled, Opened, Marked, Column
<1>6. Failed \notin {s.key, s.val}
  BY <1>2, VerifyAssumption
<1>7. verifyActive(e) => Verdict(e, s) = "silent"
  <2> SUFFICES ASSUME verifyActive(e) PROVE Verdict(e, s) = "silent"
    OBVIOUS
  <2>1. verifyActive(w) /\ Conf[e].VerifyBy = Conf[w].VerifyBy
    BY DEF Reads, w
  <2>2. s.mac = SumOf(e, s) /\ CanSign(e)
    BY <1>1, <1>2, <2>1 DEF SumOf, WrittenBy, CanSign
  <2>3. SumOf(e, s) \in Sum
    BY <1>2, <2>2, ConfType DEF SumOf, Sum
  <2>4. s.mac # NoMac /\ s.mac # Broken
    BY <2>2, <2>3, VerifyAssumption
  <2> HIDE DEF s
  <2>5. QED BY <2>2, <2>4 DEF Verdict
<1>8. Covered(Column) /\ HookAssigned(r, s)
  BY DEF Covered, HookAssigned
<1>9. Outcome(e, r, Column, hook) = "silent"
  <2> HIDE DEF s
  <2> QED BY <1>5, <1>6, <1>7, <1>8 DEF Outcome
<1>10. QED BY <1>5, <1>9 DEF v

-----------------------------------------------------------------------------
(* Signing. *)

LEMMA NewStruct ==
  ASSUME NEW k \in Key, NEW v \in Val, NEW sums
  PROVE  GoodStruct([key |-> Plain(k), val |-> Plain(v), mac |-> NoMac], sums)
  BY PlainType DEF GoodStruct, Struct, MacValue, Known

LEMMA ListType ==
  ASSUME IInv, NEW list \in Lists
  PROVE  /\ DOMAIN list = 1 .. Len(list) /\ Len(list) \in {1, 2}
         /\ list[1] = held
         /\ \A i \in DOMAIN list : GoodStruct(list[i], signed)
<1>1. CASE list = <<held>>
  BY <1>1 DEF IInv
<1>2. ASSUME NEW k \in Key, NEW v \in Val,
             list = <<held, [key |-> Plain(k), val |-> Plain(v), mac |-> NoMac]>>
      PROVE  /\ DOMAIN list = 1 .. Len(list) /\ Len(list) \in {1, 2}
             /\ list[1] = held
             /\ \A i \in DOMAIN list : GoodStruct(list[i], signed)
  <2> DEFINE n == [key |-> Plain(k), val |-> Plain(v), mac |-> NoMac]
  <2>1. GoodStruct(n, signed)
    BY NewStruct
  <2> HIDE DEF n
  <2>2. list = <<held, n>>
    BY <1>2 DEF n
  <2>3. GoodStruct(held, signed)
    BY DEF IInv
  <2>4. DOMAIN list = 1 .. 2 /\ Len(list) = 2 /\ list[1] = held /\ list[2] = n
    BY <2>2
  <2>5. QED BY <2>1, <2>3, <2>4
<1>3. QED BY <1>1, <1>2 DEF Lists

\* A struct that was signed, or need not be.
LEMMA SignedStruct ==
  ASSUME IInv, NEW e \in Engine, NEW list \in Lists, Sign(e, list), NEW i \in DOMAIN list
  PROVE  LET s == SignRow(e, list[i])
         IN /\ GoodStruct(s, signed') /\ s.key = list[i].key /\ s.val = list[i].val
            /\ verifyActive(e) => s.mac = SumOf(e, list[i])
<1> DEFINE t == list[i]
<1>1. GoodStruct(t, signed)
  BY ListType
<1> HIDE DEF t
<1>2. signed' = signed \cup SumsOf(e, list) /\ CanSign(e)
  BY DEF Sign
<1>3. CASE ~verifyActive(e)
  <2>1. SignRow(e, t) = t
    BY <1>3 DEF SignRow
  <2>2. GoodStruct(t, signed')
    BY <1>1, <1>2, GrowingSums
  <2>3. QED BY <1>3, <2>1, <2>2 DEF t
<1>4. CASE verifyActive(e)
  <2>1. SignRow(e, t) = [t EXCEPT !.mac = SumOf(e, t)]
    BY <1>4 DEF SignRow
  <2>2. SumOf(e, t) \in Sum
    BY <1>1, <1>2, <1>4, ConfType DEF SumOf, Sum, GoodStruct, Struct
  <2>3. SumOf(e, t) \in signed'
    BY <1>2, <1>4 DEF SumsOf, t
  <2>4. t \in Struct /\ t.key.by = <<>>
    BY <1>1 DEF GoodStruct
  <2> DEFINE m == SumOf(e, t)
             s == [t EXCEPT !.mac = m]
  <2> HIDE DEF m
  <2>5. s \in Struct /\ s.mac = m /\ s.key = t.key /\ s.val = t.val
    BY <2>2, <2>4 DEF Struct, MacValue, m
  <2> HIDE DEF s
  <2>6. GoodStruct(s, signed')
    BY <2>3, <2>4, <2>5 DEF GoodStruct, Known, m
  <2>7. QED BY <2>1, <2>5, <2>6 DEF s, m, t
<1>5. QED BY <1>3, <1>4

\* What signing does to the state.
LEMMA SignStep ==
  ASSUME IInv, NEW e \in Engine, NEW list \in Lists, Sign(e, list)
  PROVE  /\ signed \subseteq signed' /\ signed' \subseteq Sum
         /\ GoodStruct(held', signed')
         /\ GoodRows(rows, signed')
<1>1. signed' = signed \cup SumsOf(e, list) /\ held' = SignRow(e, held) /\ CanSign(e)
  BY DEF Sign
<1>2. SumsOf(e, list) \subseteq Sum
  <2> SUFFICES ASSUME verifyActive(e), NEW i \in DOMAIN list PROVE SumOf(e, list[i]) \in Sum
    BY DEF SumsOf
  <2>1. GoodStruct(list[i], signed)
    BY ListType
  <2>2. QED BY <1>1, <2>1, ConfType DEF SumOf, Sum, GoodStruct, Struct
<1>3. GoodStruct(held', signed')
  <2>1. list[1] = held /\ 1 \in DOMAIN list
    BY ListType
  <2>2. QED BY <1>1, <2>1, SignedStruct
<1>4. signed \subseteq signed' /\ signed' \subseteq Sum
  BY <1>1, <1>2 DEF IInv
<1>5. QED BY <1>3, <1>4, GrowingSums DEF IInv

LEMMA HeldListed == <<held>> \in Lists
  BY DEF Lists

\* The row a generated statement makes of a struct.
LEMMA OwnRow ==
  ASSUME IInv, NEW e \in Engine, NEW list \in Lists, Sign(e, list), CanSeal(e),
         NEW i \in DOMAIN list
  PROVE  LET r == RowOf(e, SignRow(e, list[i]))
         IN GoodRow(r, signed') /\ r.key = list[i].key
<1> DEFINE t == list[i]
           s == SignRow(e, t)
           r == RowOf(e, s)
<1>1. /\ GoodStruct(s, signed') /\ s.key = t.key /\ s.val = t.val
      /\ verifyActive(e) => s.mac = SumOf(e, t)
  BY SignedStruct
<1>2. CanSign(e)
  BY DEF Sign
<1> HIDE DEF t, s
<1>3. s.key \in Text /\ s.val \in Text /\ s.mac \in MacValue
  BY <1>1 DEF GoodStruct, Struct
<1>4. /\ r.key = s.key /\ r.mac = s.mac /\ r.of = [by |-> e, val |-> s.val]
      /\ r.val = IF Conf[e].SecretOn THEN Sealed(e, s.val, 1) ELSE s.val
      /\ r = [key |-> r.key, val |-> r.val, mac |-> r.mac, of |-> r.of]
  BY DEF RowOf, ColumnValue, secretColumn, Marked
<1> HIDE DEF r
<1>5. r.val \in Text
  BY <1>3, <1>4, ConfType, SealType
<1>6. r \in Row
  BY <1>3, <1>4, <1>5 DEF Row, Writer
<1>7. WrittenBy(r, e, s.val)
  BY <1>1, <1>2, <1>3, <1>4 DEF WrittenBy, SumOf
<1>8. GoodRow(r, signed')
  BY <1>1, <1>4, <1>6, <1>7 DEF GoodRow, GoodStruct
<1>9. QED BY <1>1, <1>4, <1>8 DEF r, s, t

-----------------------------------------------------------------------------
(* Statements of hooks. *)

LEMMA HookType ==
  ASSUME NEW h \in Hook
  PROVE  /\ h.op \in {"insert", "update"}
         /\ DOMAIN h.roles = 1 .. Len(h.roles) /\ DOMAIN h.rows = 1 .. Len(h.rows)
         /\ \A i \in DOMAIN h.roles : /\ h.roles[i].col \in Column \cup {""}
                                     /\ h.roles[i].row \in DOMAIN h.rows
         /\ \A n \in DOMAIN h.rows, col \in Column :
              /\ h.rows[n][col] \in Nat \cup {-1}
              /\ h.rows[n][col] > 0 => /\ h.rows[n][col] \in DOMAIN h.roles
                                       /\ h.roles[h.rows[n][col]].col = col
         /\ h.tail \in Nat \cup {-1}
         /\ h.tail > 0 => h.tail \in DOMAIN h.roles /\ h.roles[h.tail].col = "val"
<1>1. h \in HookSummary /\ ArgumentsFit(h)
  BY VerifyAssumption
<1>2. /\ h.op \in {"insert", "update"} /\ h.tail \in Nat \cup {-1}
      /\ h.roles \in Seq([col : Column \cup {""}, row : Nat])
      /\ h.rows \in Seq([Column -> Nat \cup {-1}])
  BY <1>1 DEF HookSummary
<1>3. /\ DOMAIN h.roles = 1 .. Len(h.roles) /\ DOMAIN h.rows = 1 .. Len(h.rows)
      /\ h.roles \in [1 .. Len(h.roles) -> [col : Column \cup {""}, row : Nat]]
      /\ h.rows \in [1 .. Len(h.rows) -> [Column -> Nat \cup {-1}]]
  BY <1>2, LenProperties
<1>4. \A i \in DOMAIN h.roles : h.roles[i].col \in Column \cup {""}
  BY <1>3
<1>5. \A n \in DOMAIN h.rows, col \in Column : h.rows[n][col] \in Nat \cup {-1}
  BY <1>3
<1>6. QED BY <1>1, <1>2, <1>3, <1>4, <1>5 DEF ArgumentsFit

\* What the hook gives for a column is of the column's kind.
LEMMA GivenType ==
  ASSUME IInv, NEW e \in Engine, NEW list \in Lists, Sign(e, list),
         NEW h \in Hook, Len(h.rows) = Len(list), NEW old \in BOOLEAN,
         NEW i \in DOMAIN h.roles
  PROVE  LET g == Given(h, list, [n \in DOMAIN list |-> SignRow(e, list[n])], old)[i]
             col == h.roles[i].col
         IN /\ col \in {"key", "val"} => g \in Text
            /\ col = "key" => g.by = <<>>
            /\ col = "mac" => Known(g, signed') /\ g \in MacValue
<1> DEFINE sl == [n \in DOMAIN list |-> SignRow(e, list[n])]
           row == h.roles[i].row
           col == h.roles[i].col
           g == Given(h, list, sl, old)[i]
<1>1. row \in DOMAIN list
  BY HookType, ListType
<1>2. GoodStruct(list[row], signed') /\ GoodStruct(sl[row], signed')
  <2>1. GoodStruct(list[row], signed)
    BY <1>1, ListType
  <2>2. signed \subseteq signed'
    BY SignStep
  <2>3. GoodStruct(SignRow(e, list[row]), signed')
    BY <1>1, SignedStruct
  <2>4. QED BY <1>1, <2>1, <2>2, <2>3, GrowingSums
<1> HIDE DEF sl
<1>3. col # "" => g = list[row][col] \/ g = sl[row][col]
  BY DEF Given
<1> HIDE DEF g, row, col
<1>4. \A t : GoodStruct(t, signed') =>
        /\ t["key"] \in Text /\ t["key"].by = <<>> /\ t["val"] \in Text
        /\ Known(t["mac"], signed') /\ t["mac"] \in MacValue
  BY DEF GoodStruct, Struct
<1>5. CASE col = "key"
  BY <1>2, <1>3, <1>4, <1>5 DEF g, col, sl
<1>6. CASE col = "val"
  BY <1>2, <1>3, <1>4, <1>6 DEF g, col, sl
<1>7. CASE col = "mac"
  BY <1>2, <1>3, <1>4, <1>7 DEF g, col, sl
<1>8. QED BY <1>5, <1>6, <1>7 DEF g, col, sl

\* The guard seals the value once and leaves the other arguments alone.
LEMMA ArgsSealed ==
  ASSUME ParsedRight, NEW e \in Engine, NEW h \in Hook, NEW given, NEW macs,
         DOMAIN given = DOMAIN h.roles, hookWriteGuard(e, h, given, macs),
         NEW i \in DOMAIN h.roles
  PROVE  LET args == IF Conf[e].SecretOn THEN SealedArgs(e, h, given) ELSE given
         IN args[i] = IF h.roles[i].col = "val" /\ Conf[e].SecretOn
                      THEN Sealed(e, given[i], 1) ELSE given[i]
<1>1. CASE ~Conf[e].SecretOn
  BY <1>1
<1>2. CASE Conf[e].SecretOn
  <2> DEFINE times == Cardinality({n \in DOMAIN h.secret.idx : h.secret.idx[n] = i})
  <2>1. h.secret.ok
    BY <1>2 DEF hookWriteGuard, SecretsMapped
  <2>2. times = IF h.roles[i].col = "val" THEN 1 ELSE 0
    BY <2>1 DEF ParsedRight, Understood
  <2>3. SealedArgs(e, h, given)[i] = IF times = 0 THEN given[i] ELSE Sealed(e, given[i], times)
    BY DEF SealedArgs
  <2> HIDE DEF times
  <2>4. QED BY <1>2, <2>2, <2>3
<1>3. QED BY <1>1, <1>2, ConfType

\* A write by a hook's statement that got past the guard.
HookWrites(e, h, list, old, given, args) ==
  LET signedList == [n \in DOMAIN list |-> SignRow(e, list[n])]
  IN /\ e \in Engine /\ list \in Lists /\ Sign(e, list)
     /\ h \in Hook /\ Len(h.rows) = Len(list) /\ old \in BOOLEAN
     /\ given = Given(h, list, signedList, old)
     /\ args = IF Conf[e].SecretOn THEN SealedArgs(e, h, given) ELSE given
     /\ hookWriteGuard(e, h, given, [n \in DOMAIN list |-> signedList[n].mac])

LEMMA HookArgs ==
  ASSUME IInv, ParsedRight, NEW e, NEW h, NEW list, NEW old, NEW given, NEW args,
         HookWrites(e, h, list, old, given, args), NEW i \in DOMAIN h.roles
  PROVE  LET col == h.roles[i].col
         IN /\ col = "key" => args[i] = given[i] /\ given[i] \in Text /\ given[i].by = <<>>
            /\ col = "mac" => /\ args[i] = given[i] /\ given[i] \in MacValue
                              /\ Known(given[i], signed')
            /\ col = "val" => /\ given[i] \in Text /\ args[i] \in Text
                              /\ args[i] = IF Conf[e].SecretOn
                                           THEN Sealed(e, given[i], 1) ELSE given[i]
                              /\ CanSeal(e)
<1> DEFINE macs == [n \in DOMAIN list |-> SignRow(e, list[n]).mac]
<1>1. /\ e \in Engine /\ list \in Lists /\ Sign(e, list) /\ h \in Hook
      /\ Len(h.rows) = Len(list) /\ old \in BOOLEAN
      /\ given = Given(h, list, [n \in DOMAIN list |-> SignRow(e, list[n])], old)
      /\ args = IF Conf[e].SecretOn THEN SealedArgs(e, h, given) ELSE given
      /\ hookWriteGuard(e, h, given, macs)
  BY DEF HookWrites
<1>2. DOMAIN given = DOMAIN h.roles
  BY <1>1 DEF Given
<1>3. args[i] = IF h.roles[i].col = "val" /\ Conf[e].SecretOn
                THEN Sealed(e, given[i], 1) ELSE given[i]
  <2> HIDE DEF macs
  <2> QED BY <1>1, <1>2, ArgsSealed
<1>4. /\ h.roles[i].col \in {"key", "val"} => given[i] \in Text
      /\ h.roles[i].col = "key" => given[i].by = <<>>
      /\ h.roles[i].col = "mac" => Known(given[i], signed') /\ given[i] \in MacValue
  BY <1>1, GivenType
<1>5. h.roles[i].col = "val" => CanSeal(e)
  <2> SUFFICES ASSUME h.roles[i].col = "val", Conf[e].SecretOn PROVE CanSeal(e)
    BY DEF CanSeal
  <2>1. h.secret.ok /\ (h.secret.idx # <<>> => CanSeal(e))
    BY <1>1 DEF hookWriteGuard, SecretsMapped
  <2>2. Cardinality({n \in DOMAIN h.secret.idx : h.secret.idx[n] = i}) = 1
    BY <1>1, <2>1 DEF ParsedRight, Understood
  <2>3. {n \in DOMAIN h.secret.idx : h.secret.idx[n] = i} # {}
    BY <2>2, FS_EmptySet
  <2>4. h.secret.idx # <<>>
    BY <2>3
  <2>5. QED BY <2>1, <2>4
<1>6. h.roles[i].col = "val" => args[i] \in Text
  BY <1>1, <1>3, <1>4, <1>5, ConfType, SealType
<1>7. QED BY <1>3, <1>4, <1>5, <1>6

\* The MAC of each row of the statement is that of its struct.
LEMMA HookMacs ==
  ASSUME IInv, ParsedRight, NEW e, NEW h, NEW list, NEW old, NEW given, NEW args,
         HookWrites(e, h, list, old, given, args), NEW n \in DOMAIN list,
         verifyActive(e)
  PROVE  /\ h.rows[n]["mac"] > 0
         /\ given[h.rows[n]["mac"]] = SumOf(e, list[n])
<1> DEFINE macs == [m \in DOMAIN list |-> SignRow(e, list[m]).mac]
<1>1. /\ e \in Engine /\ list \in Lists /\ Sign(e, list) /\ h \in Hook
      /\ Len(h.rows) = Len(list)
      /\ DOMAIN given = DOMAIN h.roles
      /\ MacCarried(h, given, macs)
  BY DEF HookWrites, hookWriteGuard, Given
<1>2. DOMAIN list = 1 .. Len(list) /\ DOMAIN h.rows = 1 .. Len(h.rows)
      /\ DOMAIN h.roles = 1 .. Len(h.roles) /\ Len(list) \in {1, 2}
  BY <1>1, ListType, HookType
<1>3. DOMAIN macs = 1 .. Len(list) /\ Len(macs) = Len(list)
      /\ macs[n] = SumOf(e, list[n])
  <2>1. SignRow(e, list[n]).mac = SumOf(e, list[n])
    BY <1>1, SignedStruct
  <2>2. QED BY <1>2, <2>1
<1>4. h.mac.idx \in Seq(Nat)
  BY <1>1, VerifyAssumption DEF HookSummary, Plan
<1> HIDE DEF macs
<1>5. h.mac.ok /\ Len(h.mac.idx) = Len(h.rows) /\ InRange(h.mac, given)
      /\ \A m \in DOMAIN macs : given[h.mac.idx[m]] = macs[m]
  BY <1>1, <1>3 DEF MacCarried
<1>6. h.mac.idx[n] = h.rows[n]["mac"] /\ n \in DOMAIN h.mac.idx
  BY <1>1, <1>2, <1>4, <1>5, LenProperties DEF ParsedRight, Understood
<1>7. h.mac.idx[n] \in DOMAIN h.roles
  BY <1>1, <1>5, <1>6 DEF InRange
<1>8. QED BY <1>2, <1>3, <1>5, <1>6, <1>7

\* A row that is put together from arguments that are sealed, and a MAC that
\* was made for the struct.
LEMMA PutRowGood ==
  ASSUME IInv, NEW e \in Engine, NEW list \in Lists, Sign(e, list),
         NEW n \in DOMAIN list, NEW source, NEW given, NEW args,
         \A col \in Column : source[col] \in Nat \cup {-1},
         source["key"] > 0 => /\ args[source["key"]] = given[source["key"]]
                              /\ given[source["key"]] \in Text /\ given[source["key"]].by = <<>>,
         source["val"] > 0 =>
           /\ given[source["val"]] \in Text /\ args[source["val"]] \in Text
           /\ args[source["val"]] = IF Conf[e].SecretOn THEN Sealed(e, given[source["val"]], 1)
                                    ELSE given[source["val"]]
           /\ CanSeal(e),
         source["mac"] > 0 => /\ args[source["mac"]] = given[source["mac"]]
                              /\ given[source["mac"]] \in MacValue
                              /\ Known(given[source["mac"]], signed'),
         verifyActive(e) => source["mac"] > 0 /\ given[source["mac"]] = SumOf(e, list[n]),
         NEW r, GoodRow(r, signed)
  PROVE  GoodRow(HookRow(e, list[n], source, given, args, r), signed')
<1> DEFINE s == list[n]
           q == HookRow(e, s, source, given, args, r)
<1>1. e \in Engine /\ list \in Lists /\ Sign(e, list)
  OBVIOUS
<1>2. CanSign(e)
  BY DEF Sign
<1>3. \A col \in Column : source[col] \in Nat \cup {-1}
  OBVIOUS
<1>4. source["key"] > 0 => /\ args[source["key"]] = given[source["key"]]
                          /\ given[source["key"]] \in Text /\ given[source["key"]].by = <<>>
  OBVIOUS
<1>5. source["val"] > 0 =>
        /\ given[source["val"]] \in Text /\ args[source["val"]] \in Text
        /\ args[source["val"]] = IF Conf[e].SecretOn THEN Sealed(e, given[source["val"]], 1)
                                 ELSE given[source["val"]]
        /\ CanSeal(e)
  OBVIOUS
<1>6. source["mac"] > 0 => /\ args[source["mac"]] = given[source["mac"]]
                          /\ given[source["mac"]] \in MacValue
                          /\ Known(given[source["mac"]], signed')
  OBVIOUS
<1>7. verifyActive(e) => source["mac"] > 0 /\ given[source["mac"]] = SumOf(e, s)
  OBVIOUS
<1>8. r \in Row /\ r.key.by = <<>> /\ Known(r.mac, signed')
  BY SignStep, <1>1 DEF GoodRow, Known
<1>9. s.key \in Text /\ s.val \in Text
  BY <1>1, ListType DEF GoodStruct, Struct
<1>10. \A col \in Column : source[col] > 0 \/ source[col] = 0 \/ source[col] = -1
  BY <1>3
<1>11. HookRow(e, s, source, given, args, r) =
         [key |-> q.key, val |-> q.val, mac |-> q.mac, of |-> q.of]
  BY DEF HookRow
<1> HIDE DEF s
<1>12. /\ q.key = Put(source["key"], args, Plain(Empty), r.key)
       /\ q.val = Put(source["val"], args, Plain(Empty), r.val)
       /\ q.mac = Put(source["mac"], args, Broken, r.mac)
       /\ q.of = IF /\ Put(source["key"], given, Plain(Empty), r.key) = s.key
                   /\ source["val"] > 0 /\ given[source["val"]] = s.val
                THEN [by |-> e, val |-> s.val] ELSE Nobody
  BY DEF HookRow
<1> HIDE DEF q
<1>13. /\ q.key \in Text /\ q.key.by = <<>>
       /\ q.key = Put(source["key"], given, Plain(Empty), r.key)
  <2>1. "key" \in Column
    BY DEF Column
  <2>2. CASE source["key"] > 0
    BY <1>3, <1>4, <1>12, <2>1, <2>2 DEF Put
  <2>3. CASE source["key"] = 0
    BY <1>12, <2>3, PlainType DEF Put
  <2>4. CASE source["key"] = -1
    BY <1>8, <1>12, <2>4 DEF Put, Row
  <2>5. QED BY <1>10, <2>1, <2>2, <2>3, <2>4
<1>14. q.val \in Text
  <2>1. "val" \in Column
    BY DEF Column
  <2>2. CASE source["val"] > 0
    BY <1>3, <1>5, <1>12, <2>1, <2>2 DEF Put
  <2>3. CASE source["val"] = 0
    BY <1>12, <2>3, PlainType DEF Put
  <2>4. CASE source["val"] = -1
    BY <1>8, <1>12, <2>4 DEF Put, Row
  <2>5. QED BY <1>10, <2>1, <2>2, <2>3, <2>4
<1>15. q.mac \in MacValue /\ Known(q.mac, signed')
  <2>1. "mac" \in Column
    BY DEF Column
  <2>2. CASE source["mac"] > 0
    BY <1>3, <1>6, <1>12, <2>1, <2>2 DEF Put
  <2>3. CASE source["mac"] = 0
    BY <1>12, <2>3 DEF Put, Known, MacValue
  <2>4. CASE source["mac"] = -1
    BY <1>8, <1>12, <2>4 DEF Put, Row
  <2>5. QED BY <1>10, <2>1, <2>2, <2>3, <2>4
<1>16. q.of \in Writer \cup {Nobody}
  BY <1>1, <1>9, <1>12 DEF Writer
<1>17. q \in Row
  BY <1>11, <1>13, <1>14, <1>15, <1>16 DEF Row, q
<1>18. ASSUME q.of # Nobody PROVE WrittenBy(q, q.of.by, q.of.val)
  <2>1. /\ q.of = [by |-> e, val |-> s.val] /\ q.key = s.key
        /\ source["val"] > 0 /\ given[source["val"]] = s.val
    BY <1>12, <1>13, <1>18
  <2>2. q.val = IF Conf[e].SecretOn THEN Sealed(e, s.val, 1) ELSE s.val
    BY <1>5, <1>12, <2>1 DEF Put
  <2>3. verifyActive(e) => q.mac = [by |-> Conf[e].VerifyBy, key |-> s.key, val |-> s.val]
    BY <1>6, <1>7, <1>12 DEF Put, SumOf
  <2>4. QED BY <1>1, <1>2, <1>5, <1>9, <2>1, <2>2, <2>3 DEF WrittenBy
<1>19. GoodRow(q, signed')
  BY <1>13, <1>15, <1>17, <1>18 DEF GoodRow
<1>20. QED BY <1>19 DEF q, s

LEMMA HookRowGood ==
  ASSUME IInv, ParsedRight, NEW e, NEW h, NEW list, NEW old, NEW given, NEW args,
         HookWrites(e, h, list, old, given, args), NEW n \in DOMAIN list,
         NEW r, GoodRow(r, signed)
  PROVE  GoodRow(HookRow(e, list[n], h.rows[n], given, args, r), signed')
<1> DEFINE source == h.rows[n]
<1>1. /\ e \in Engine /\ list \in Lists /\ Sign(e, list) /\ h \in Hook
      /\ n \in DOMAIN h.rows
  BY ListType, HookType DEF HookWrites
<1>2. \A col \in Column :
        /\ source[col] \in Nat \cup {-1}
        /\ source[col] > 0 => source[col] \in DOMAIN h.roles /\ h.roles[source[col]].col = col
  BY <1>1, HookType
<1>3. source["key"] > 0 => /\ args[source["key"]] = given[source["key"]]
                          /\ given[source["key"]] \in Text /\ given[source["key"]].by = <<>>
  BY <1>2, HookArgs DEF Column
<1>4. source["val"] > 0 =>
        /\ given[source["val"]] \in Text /\ args[source["val"]] \in Text
        /\ args[source["val"]] = IF Conf[e].SecretOn THEN Sealed(e, given[source["val"]], 1)
                                 ELSE given[source["val"]]
        /\ CanSeal(e)
  BY <1>2, HookArgs DEF Column
<1>5. source["mac"] > 0 => /\ args[source["mac"]] = given[source["mac"]]
                          /\ given[source["mac"]] \in MacValue
                          /\ Known(given[source["mac"]], signed')
  BY <1>2, HookArgs DEF Column
<1>6. verifyActive(e) => source["mac"] > 0 /\ given[source["mac"]] = SumOf(e, list[n])
  BY HookMacs
<1> HIDE DEF source
<1>7. GoodRow(HookRow(e, list[n], source, given, args, r), signed')
  BY <1>1, <1>2, <1>3, <1>4, <1>5, <1>6, PutRowGood
<1>8. QED BY <1>7 DEF source

LEMMA HookStep ==
  ASSUME IInv, ParsedRight, NEW e \in Engine, NEW h \in Hook, NEW list \in Lists,
         NEW old \in BOOLEAN, Len(h.rows) = Len(list), HookWrite(e, h, list, old)
  PROVE  IInv'
<1> DEFINE sl == [i \in DOMAIN list |-> SignRow(e, list[i])]
           given == Given(h, list, sl, old)
           args == IF Conf[e].SecretOn THEN SealedArgs(e, h, given) ELSE given
           macs == [i \in DOMAIN list |-> sl[i].mac]
<1>1. /\ Sign(e, list) /\ hookWriteGuard(e, h, given, macs)
      /\ HookStatement(e, h, list, given, args)
  BY DEF HookWrite
<1>2. HookWrites(e, h, list, old, given, args)
  BY <1>1 DEF HookWrites
<1>3. ~Tailed(e, h, list, given, args, {HookRow(e, list[i], h.rows[i], given, args, NoRow) : i \in DOMAIN list})
  BY <1>1 DEF Tailed, ParsedRight, Understood, hookWriteGuard, SecretsMapped
<1> HIDE DEF sl, given, args, macs
<1>4. \A n \in DOMAIN list : \A r : GoodRow(r, signed) =>
        GoodRow(HookRow(e, list[n], h.rows[n], given, args, r), signed')
  BY <1>2, HookRowGood
<1>5. GoodRow(NoRow, signed)
  BY PlainType DEF GoodRow, NoRow, Row, Known, MacValue
<1>6. GoodRows(rows, signed) /\ GoodRows(rows, signed') /\ 1 \in DOMAIN list
  BY <1>1, SignStep, ListType DEF IInv
<1>7. GoodRows(rows', signed')
  <2> DEFINE new == {HookRow(e, list[i], h.rows[i], given, args, NoRow) : i \in DOMAIN list}
  <2>1. CASE Inserted(new)
    <3>1. GoodRows(new, signed')
      BY <1>4, <1>5 DEF GoodRows
    <3> HIDE DEF new
    <3>2. QED BY <1>6, <2>1, <3>1 DEF Inserted, GoodRows
  <2>2. CASE rows' = {IF r.key # args[h.rows[1]["key"]] THEN r
                      ELSE HookRow(e, list[1], h.rows[1], given, args, r) : r \in rows}
    BY <1>4, <1>6, <2>2 DEF GoodRows
  <2>3. QED BY <1>1, <1>3, <2>1, <2>2 DEF HookStatement
<1>8. QED BY <1>1, <1>7, SignStep DEF IInv

-----------------------------------------------------------------------------
(* The rows of a COPY hook. *)

\* A COPY of a hook's rows that got past the guard and that the database takes.
CopyWrites(e, h, list, old, given, args) ==
  LET signedList == [n \in DOMAIN list |-> SignRow(e, list[n])]
  IN /\ e \in Engine /\ list \in Lists /\ Sign(e, list)
     /\ h \in CopyHook /\ Copies(h, list) /\ old \in BOOLEAN
     /\ given = CopyRows(h, list, signedList, old)
     /\ args = IF Conf[e].SecretOn THEN SealedRows(e, h, given) ELSE given
     /\ guardCopyInHook(e, h, given, [n \in DOMAIN list |-> signedList[n].mac])
     /\ Copyable(h, given)

LEMMA CopyType ==
  ASSUME NEW h \in CopyHook
  PROVE  /\ DOMAIN h.cols = 1 .. Len(h.cols) /\ Len(h.cols) \in Nat
         /\ DOMAIN h.rows = 1 .. Len(h.rows) /\ Len(h.rows) \in Nat
<1>1. h \in CopySummary
  BY VerifyAssumption
<1>2. /\ h.cols \in Seq(Column \cup {"note", ""})
      /\ h.rows \in Seq([from : Nat, mac : Nat, full : BOOLEAN])
  BY <1>1 DEF CopySummary
<1>3. QED BY <1>2, LenProperties

\* Where no column is named twice, the first of a name is the only one.
LEMMA FirstIs ==
  ASSUME NEW h \in CopyHook, NEW given, Copyable(h, given),
         NEW col \in Column, Positions(h.cols, col) # {}
  PROVE  LET i == First(h.cols, col) IN i \in DOMAIN h.cols /\ i \in Nat \ {0} /\ h.cols[i] = col
<1>1. PICK i \in DOMAIN h.cols : h.cols[i] = col
  BY DEF Positions
<1>2. DOMAIN h.cols = 1 .. Len(h.cols) /\ Len(h.cols) \in Nat
  BY CopyType
<1>3. Positions(h.cols, col) = {i}
  BY <1>1 DEF Positions, Copyable
<1>4. First(h.cols, col) = i
  BY <1>2, <1>3 DEF First
<1>5. QED BY <1>1, <1>2, <1>4

\* A struct as the hook finds it, before the signing or after it.
LEMMA CopiedStruct ==
  ASSUME IInv, NEW e \in Engine, NEW list \in Lists, Sign(e, list),
         NEW old \in BOOLEAN, NEW m \in DOMAIN list
  PROVE  LET s == IF old THEN list[m] ELSE SignRow(e, list[m])
         IN s \in Struct /\ Known(s.mac, signed') /\ s.key.by = <<>>
<1>1. GoodStruct(list[m], signed) /\ signed \subseteq signed'
  BY ListType, SignStep
<1>2. GoodStruct(SignRow(e, list[m]), signed')
  BY SignedStruct
<1>3. GoodStruct(list[m], signed')
  BY <1>1, GrowingSums
<1>4. QED BY <1>2, <1>3 DEF GoodStruct

\* What a column of a copied row is given, and what is put into it.
LEMMA CopyArgs ==
  ASSUME IInv, NEW e, NEW h, NEW list, NEW old, NEW given, NEW args,
         CopyWrites(e, h, list, old, given, args), NEW n \in DOMAIN given,
         NEW col \in Column, Positions(h.cols, col) # {}
  PROVE  LET i == First(h.cols, col)
         IN /\ col = "key" => /\ args[n][i] = given[n][i]
                              /\ given[n][i] \in Text /\ given[n][i].by = <<>>
            /\ col = "mac" => /\ args[n][i] = given[n][i] /\ given[n][i] \in MacValue
                              /\ Known(given[n][i], signed')
            /\ col = "val" => /\ given[n][i] \in Text /\ args[n][i] \in Text
                              /\ args[n][i] = IF Conf[e].SecretOn
                                              THEN Sealed(e, given[n][i], 1) ELSE given[n][i]
                              /\ CanSeal(e)
<1> DEFINE i == First(h.cols, col)
           sl == [m \in DOMAIN list |-> SignRow(e, list[m])]
           structs == IF old THEN list ELSE sl
           macs == [m \in DOMAIN list |-> sl[m].mac]
           source == IF col = "mac" THEN h.rows[n].mac ELSE h.rows[n].from
<1>1. /\ e \in Engine /\ list \in Lists /\ Sign(e, list) /\ h \in CopyHook
      /\ Copies(h, list) /\ old \in BOOLEAN
      /\ given = CopyRows(h, list, sl, old)
      /\ args = IF Conf[e].SecretOn THEN SealedRows(e, h, given) ELSE given
      /\ guardCopyInHook(e, h, given, macs) /\ Copyable(h, given)
  BY DEF CopyWrites
<1> HIDE DEF sl, macs
<1>2. i \in DOMAIN h.cols /\ h.cols[i] = col
  BY <1>1, FirstIs
<1>3. DOMAIN given = DOMAIN h.rows /\ DOMAIN given[n] = DOMAIN h.cols
  BY <1>1 DEF CopyRows, Copyable
<1>4. source \in DOMAIN list
  BY <1>1, <1>3 DEF Copies
<1> HIDE DEF i
<1>5. given[n][i] = structs[source][col]
  <2>1. given[n] = [j \in 1 .. (Len(h.cols) - IF h.rows[n].full THEN 0 ELSE 1) |->
                      IF h.cols[j] = "mac" THEN structs[h.rows[n].mac].mac
                      ELSE IF h.cols[j] \in Column THEN structs[h.rows[n].from][h.cols[j]]
                      ELSE Plain(Empty)]
    BY <1>1, <1>3 DEF CopyRows
  <2> HIDE DEF structs
  <2>2. i \in 1 .. (Len(h.cols) - IF h.rows[n].full THEN 0 ELSE 1)
    BY <1>2, <1>3, <2>1
  <2>3. given[n][i] = IF h.cols[i] = "mac" THEN structs[h.rows[n].mac].mac
                      ELSE IF h.cols[i] \in Column THEN structs[h.rows[n].from][h.cols[i]]
                      ELSE Plain(Empty)
    BY <2>1, <2>2
  <2>4. QED BY <1>2, <2>3
<1> DEFINE s == IF old THEN list[source] ELSE SignRow(e, list[source])
<1>6. structs[source] = s
  BY <1>4 DEF sl
<1>7. s \in Struct /\ Known(s.mac, signed') /\ s.key.by = <<>>
  BY <1>1, <1>4, CopiedStruct
<1> HIDE DEF s, source, structs
<1>8. /\ col = "key" => given[n][i] \in Text /\ given[n][i].by = <<>>
      /\ col = "mac" => given[n][i] \in MacValue /\ Known(given[n][i], signed')
      /\ col = "val" => given[n][i] \in Text
  BY <1>5, <1>6, <1>7 DEF Struct
<1>9. secretColumn(col) <=> col = "val"
  BY DEF secretColumn, Marked, Column
<1>10. args[n][i] = IF col = "val" /\ Conf[e].SecretOn THEN Sealed(e, given[n][i], 1)
                    ELSE given[n][i]
  <2>1. CASE ~Conf[e].SecretOn
    BY <1>1, <2>1
  <2>2. CASE Conf[e].SecretOn
    <3>1. SealedRows(e, h, given)[n] =
            [j \in DOMAIN given[n] |->
               IF secretColumn(h.cols[j]) THEN Sealed(e, given[n][j], 1) ELSE given[n][j]]
      BY DEF SealedRows
    <3>2. i \in DOMAIN given[n]
      BY <1>2, <1>3
    <3>3. QED BY <1>1, <1>2, <1>9, <2>2, <3>1, <3>2
  <2>3. QED BY <1>1, <2>1, <2>2, ConfType
<1>11. col = "val" => CanSeal(e)
  BY <1>1, <1>2, <1>9 DEF guardCopyInHook, CanSeal
<1>12. col = "val" => args[n][i] \in Text
  BY <1>1, <1>8, <1>10, <1>11, ConfType, SealType
<1>13. QED BY <1>8, <1>10, <1>11, <1>12 DEF i

\* The MAC of each row is that of the struct at its place.
LEMMA CopyMacs ==
  ASSUME IInv, NEW e, NEW h, NEW list, NEW old, NEW given, NEW args,
         CopyWrites(e, h, list, old, given, args), NEW n \in DOMAIN given, n \in DOMAIN list,
         verifyActive(e)
  PROVE  /\ Positions(h.cols, "mac") # {}
         /\ given[n][First(h.cols, "mac")] = SumOf(e, list[n])
<1> DEFINE macs == [m \in DOMAIN list |-> [k \in DOMAIN list |-> SignRow(e, list[k])][m].mac]
<1>1. /\ e \in Engine /\ list \in Lists /\ Sign(e, list) /\ MacsInRows(h, given, macs)
  BY DEF CopyWrites, guardCopyInHook
<1>2. macs[n] = SumOf(e, list[n])
  BY <1>1, SignedStruct
<1> HIDE DEF macs
<1>3. QED BY <1>1, <1>2 DEF MacsInRows

LEMMA CopyRowGood ==
  ASSUME IInv, NEW e, NEW h, NEW list, NEW old, NEW given, NEW args,
         CopyWrites(e, h, list, old, given, args), NEW n \in DOMAIN given,
         NEW r, GoodRow(r, signed)
  PROVE  GoodRow(HookRow(e, list[n], CopySource(h), given[n], args[n], r), signed')
<1> DEFINE source == CopySource(h)
<1>1. /\ e \in Engine /\ list \in Lists /\ Sign(e, list) /\ h \in CopyHook
      /\ Copies(h, list) /\ Copyable(h, given) /\ DOMAIN given = DOMAIN h.rows
  BY DEF CopyWrites, CopyRows
<1>2. n \in DOMAIN list
  <2>1. DOMAIN h.rows = 1 .. Len(h.rows) /\ Len(h.rows) \in Nat
    BY <1>1, CopyType
  <2>2. DOMAIN list = 1 .. Len(list) /\ Len(list) \in Nat
    BY <1>1, ListType
  <2>3. QED BY <1>1, <2>1, <2>2 DEF Copies
<1>3. \A col \in Column :
        /\ source[col] \in Nat \cup {-1}
        /\ source[col] > 0 => Positions(h.cols, col) # {} /\ source[col] = First(h.cols, col)
        /\ Positions(h.cols, col) # {} => source[col] > 0
  <2> SUFFICES ASSUME NEW col \in Column
               PROVE  /\ source[col] \in Nat \cup {-1}
                      /\ source[col] > 0 => /\ Positions(h.cols, col) # {}
                                            /\ source[col] = First(h.cols, col)
                      /\ Positions(h.cols, col) # {} => source[col] > 0
    OBVIOUS
  <2>1. source[col] = IF Positions(h.cols, col) = {} THEN -1 ELSE First(h.cols, col)
    BY DEF CopySource
  <2>2. Positions(h.cols, col) # {} => First(h.cols, col) \in Nat \ {0}
    BY <1>1, FirstIs
  <2> HIDE DEF source
  <2>3. QED BY <2>1, <2>2
<1> HIDE DEF source
<1>4. source["key"] > 0 => /\ args[n][source["key"]] = given[n][source["key"]]
                          /\ given[n][source["key"]] \in Text /\ given[n][source["key"]].by = <<>>
  <2>1. source["key"] > 0 => Positions(h.cols, "key") # {} /\ source["key"] = First(h.cols, "key")
    BY <1>3 DEF Column
  <2>2. "key" \in Column
    BY DEF Column
  <2>3. Positions(h.cols, "key") # {} =>
          LET i == First(h.cols, "key")
          IN args[n][i] = given[n][i] /\ given[n][i] \in Text /\ given[n][i].by = <<>>
    BY <2>2, CopyArgs
  <2>4. QED BY <2>1, <2>3
<1>5. source["val"] > 0 =>
        /\ given[n][source["val"]] \in Text /\ args[n][source["val"]] \in Text
        /\ args[n][source["val"]] = IF Conf[e].SecretOn THEN Sealed(e, given[n][source["val"]], 1)
                                    ELSE given[n][source["val"]]
        /\ CanSeal(e)
  <2>1. source["val"] > 0 => Positions(h.cols, "val") # {} /\ source["val"] = First(h.cols, "val")
    BY <1>3 DEF Column
  <2>2. "val" \in Column
    BY DEF Column
  <2>3. QED BY <2>1, <2>2, CopyArgs
<1>6. source["mac"] > 0 => /\ args[n][source["mac"]] = given[n][source["mac"]]
                          /\ given[n][source["mac"]] \in MacValue
                          /\ Known(given[n][source["mac"]], signed')
  <2>1. source["mac"] > 0 => Positions(h.cols, "mac") # {} /\ source["mac"] = First(h.cols, "mac")
    BY <1>3 DEF Column
  <2>2. "mac" \in Column
    BY DEF Column
  <2>3. QED BY <2>1, <2>2, CopyArgs
<1>7. verifyActive(e) => source["mac"] > 0 /\ given[n][source["mac"]] = SumOf(e, list[n])
  BY <1>2, <1>3, CopyMacs DEF Column
<1>8. GoodRow(HookRow(e, list[n], source, given[n], args[n], r), signed')
  BY <1>1, <1>2, <1>3, <1>4, <1>5, <1>6, <1>7, PutRowGood
<1>9. QED BY <1>8 DEF source

LEMMA CopyStep ==
  ASSUME IInv, NEW e \in Engine, NEW h \in CopyHook, NEW list \in Lists,
         NEW old \in BOOLEAN, Copies(h, list), CopyHookWrite(e, h, list, old)
  PROVE  IInv'
<1> DEFINE sl == [i \in DOMAIN list |-> SignRow(e, list[i])]
           given == CopyRows(h, list, sl, old)
           args == IF Conf[e].SecretOn THEN SealedRows(e, h, given) ELSE given
           new == {HookRow(e, list[n], CopySource(h), given[n], args[n], NoRow) : n \in DOMAIN given}
<1>1. Sign(e, list) /\ CopyWrites(e, h, list, old, given, args) /\ Inserted(new)
  BY DEF CopyHookWrite, CopyWrites
<1> HIDE DEF sl, given, args
<1>2. GoodRow(NoRow, signed)
  BY PlainType DEF GoodRow, NoRow, Row, Known, MacValue
<1>3. GoodRows(new, signed')
  BY <1>1, <1>2, CopyRowGood DEF GoodRows
<1>4. QED BY <1>1, <1>3, SignStep DEF IInv, GoodRows, Inserted

-----------------------------------------------------------------------------
(* The other actions. *)

LEMMA InsertStep ==
  ASSUME IInv, NEW e \in Engine, NEW list \in Lists, Insert(e, list) PROVE IInv'
<1> DEFINE new == {RowOf(e, SignRow(e, list[i])) : i \in DOMAIN list}
<1>1. Sign(e, list) /\ CanSeal(e) /\ rows' = rows \cup new
  BY DEF Insert, Inserted
<1>2. GoodRows(new, signed')
  BY <1>1, OwnRow DEF GoodRows
<1>3. QED BY <1>1, <1>2, SignStep DEF IInv, GoodRows

\* The row that Update and Upsert make of the struct held.
LEMMA HeldRow ==
  ASSUME IInv, NEW e \in Engine, Sign(e, <<held>>), CanSeal(e)
  PROVE  GoodRow([RowOf(e, SignRow(e, held)) EXCEPT !.key = held.key], signed')
<1> DEFINE r == RowOf(e, SignRow(e, held))
<1>1. <<held>> \in Lists /\ 1 \in DOMAIN <<held>> /\ <<held>>[1] = held
  BY HeldListed
<1>2. GoodRow(r, signed') /\ r.key = held.key
  BY <1>1, OwnRow
<1> HIDE DEF r
<1>3. [r EXCEPT !.key = held.key] = r
  BY <1>2 DEF GoodRow, Row
<1>4. QED BY <1>2, <1>3 DEF r

LEMMA UpdateStep ==
  ASSUME IInv, NEW e \in Engine, Update(e) \/ Upsert(e) PROVE IInv'
<1> DEFINE new == [RowOf(e, SignRow(e, held)) EXCEPT !.key = held.key]
<1>1. Sign(e, <<held>>) /\ CanSeal(e)
  BY DEF Update, Upsert
<1>2. GoodRow(new, signed')
  BY <1>1, HeldRow
<1>3. \/ rows' = {IF r.key = held.key THEN new ELSE r : r \in rows}
      \/ rows' = {r \in rows : r.key # held.key} \cup {new}
  BY DEF Update, Upsert
<1> HIDE DEF new
<1>4. GoodRows(rows, signed')
  BY <1>1, HeldListed, SignStep
<1>5. GoodRows(rows', signed')
  BY <1>2, <1>3, <1>4 DEF GoodRows
<1>6. QED BY <1>1, <1>5, HeldListed, SignStep DEF IInv

LEMMA SelectStep ==
  ASSUME IInv, NEW e \in Engine, NEW r \in rows, Select(e, r) PROVE IInv'
<1>1. PICK proj \in SUBSET Column \ {{}}, hook \in ReadHook :
        /\ Outcome(e, r, proj, hook) \in HandedOver
        /\ LET s == Filled(e, r, proj, hook)
               taken == IF hook = "none" THEN proj ELSE Column
           IN held' = [key |-> IF "key" \in taken THEN s.key ELSE held.key,
                       val |-> IF "val" \in taken THEN s.val ELSE held.val,
                       mac |-> IF "mac" \in taken THEN s.mac ELSE held.mac]
  BY DEF Select
<1> DEFINE s == Filled(e, r, proj, hook)
<1>2. Failed \notin {s.key, s.val}
  BY <1>1 DEF Outcome, HandedOver
<1>3. s \in [key : Text, val : Text, mac : MacValue] /\ (s.mac = r.mac \/ s.mac = NoMac)
  BY <1>2, FilledType, FilledMac
<1>4. r.key \in Text /\ r.key.by = <<>> /\ Known(r.mac, signed)
  BY DEF IInv, GoodRows, GoodRow, Row
<1>5. s.key.by = <<>>
  <2>1. Opened(e, r, "key") = r.key \/ Opened(e, r, "key") = Failed
    BY <1>4 DEF Opened, Decrypted
  <2>2. s.key = Opened(e, r, "key") \/ s.key = Plain(Empty)
    BY DEF Filled
  <2> HIDE DEF s
  <2>3. QED BY <1>2, <1>4, <2>1, <2>2, PlainType
<1>6. GoodStruct(s, signed)
  <2> HIDE DEF s
  <2> QED BY <1>3, <1>4, <1>5 DEF GoodStruct, Struct, Known
<1>7. \E taken \in SUBSET Column :
        held' = [key |-> IF "key" \in taken THEN s.key ELSE held.key,
                 val |-> IF "val" \in taken THEN s.val ELSE held.val,
                 mac |-> IF "mac" \in taken THEN s.mac ELSE held.mac]
  BY <1>1
<1> HIDE DEF s
<1>8. GoodStruct(held', signed)
  BY <1>6, <1>7 DEF IInv, GoodStruct, Struct
<1>9. rows' = rows /\ signed' = signed
  BY DEF Select
<1>10. QED BY <1>8, <1>9 DEF IInv

LEMMA OtherStep ==
  ASSUME IInv, NEW k \in Key, NEW text \in Foreign \cup {r.val : r \in rows},
         NEW mac \in {NoMac, Broken} \cup signed, OtherWrites(k, text, mac)
  PROVE  IInv'
<1> DEFINE new == [key |-> Plain(k), val |-> text, mac |-> mac, of |-> Nobody]
<1>1. text \in Text
  BY VerifyAssumption DEF IInv, GoodRows, GoodRow, Row
<1>2. mac \in MacValue
  BY DEF IInv, MacValue
<1>3. GoodRow(new, signed)
  BY <1>1, <1>2, PlainType DEF GoodRow, Row, Known
<1>4. rows' = {r \in rows : r.key # Plain(k)} \cup {new} /\ held' = held /\ signed' = signed
  BY DEF OtherWrites
<1> HIDE DEF new
<1>5. QED BY <1>3, <1>4 DEF IInv, GoodRows

LEMMA AssignStep ==
  ASSUME IInv, NEW v \in Val, Assign(v) PROVE IInv'
<1>1. Plain(v) \in Text
  BY PlainType
<1>2. held' = [held EXCEPT !.val = Plain(v)] /\ rows' = rows /\ signed' = signed
  BY DEF Assign
<1> DEFINE t == Plain(v)
<1> HIDE DEF t
<1>3. held' = [held EXCEPT !.val = t] /\ t \in Text
  BY <1>1, <1>2 DEF t
<1>4. GoodStruct(held', signed)
  BY <1>3 DEF IInv, GoodStruct, Struct
<1>5. QED BY <1>2, <1>4 DEF IInv

-----------------------------------------------------------------------------
(* The theorems. *)

LEMMA InitInv == Init => IInv
  BY NewStruct DEF Init, IInv, GoodRows

LEMMA NextInv == IInv /\ ParsedRight /\ [Next]_vars => IInv'
<1> SUFFICES ASSUME IInv, ParsedRight, [Next]_vars PROVE IInv'
  OBVIOUS
<1>1. CASE UNCHANGED vars
  BY <1>1 DEF vars, IInv
<1>2. ASSUME NEW e \in Engine, Update(e) \/ Upsert(e) PROVE IInv'
  BY <1>2, UpdateStep
<1>3. ASSUME NEW e \in Engine, Delete(e) PROVE IInv'
  BY <1>3 DEF Delete, IInv, GoodRows
<1>4. ASSUME NEW e \in Engine, NEW list \in Lists, SignOnly(e, list) PROVE IInv'
  BY <1>4, SignStep DEF SignOnly, IInv, GoodRows
<1>5. ASSUME NEW e \in Engine, NEW list \in Lists, Insert(e, list) PROVE IInv'
  BY <1>5, InsertStep
<1>6. ASSUME NEW e \in Engine, NEW list \in Lists, NEW h \in Hook, NEW old \in BOOLEAN,
             Len(h.rows) = Len(list), HookWrite(e, h, list, old)
      PROVE  IInv'
  BY <1>6, HookStep
<1>7. ASSUME NEW e \in Engine, NEW r \in Found, Select(e, r) PROVE IInv'
  <2>1. r \in rows
    BY <1>7 DEF Found
  <2>2. QED BY <1>7, <2>1, SelectStep
<1>8. ASSUME NEW v \in Val, Assign(v) PROVE IInv'
  BY <1>8, AssignStep
<1>9. ASSUME NEW k \in Key, NEW v \in Val, New(k, v) PROVE IInv'
  BY <1>9, NewStruct DEF New, IInv
<1>10. ASSUME NEW k \in Key, NEW text \in Foreign \cup {r.val : r \in rows},
              NEW mac \in {NoMac, Broken} \cup signed, OtherWrites(k, text, mac)
       PROVE  IInv'
  BY <1>10, OtherStep
<1>11. ASSUME NEW e \in Engine, NEW list \in Lists, NEW h \in CopyHook, NEW old \in BOOLEAN,
              Copies(h, list), CopyHookWrite(e, h, list, old)
       PROVE  IInv'
  BY <1>11, CopyStep
<1>12. QED
  BY <1>1, <1>2, <1>3, <1>4, <1>5, <1>6, <1>7, <1>8, <1>9, <1>10, <1>11 DEF Next

LEMMA Invariance == ASSUME ParsedRight PROVE Spec => []IInv
<1>1. IInv /\ [Next]_vars => IInv'
  BY NextInv
<1>2. QED BY <1>1, InitInv, PTL DEF Spec

\* Types: no statement of a hook that the guard lets through puts a MAC where
\* a text belongs, or seals one.
THEOREM TypeCorrect == ASSUME ParsedRight PROVE Spec => []TypeOK
<1>1. IInv => TypeOK
  BY DEF IInv, GoodStruct, GoodRows, GoodRow, TypeOK
<1>2. QED BY <1>1, Invariance, PTL

\* What an engine wrote is verified and read back by every engine with its
\* keys, whatever hooks wrote it and whatever other programs do.
THEOREM Verified == ASSUME ParsedRight PROVE Spec => []WrittenVerifies
  BY GoodVerifies, Invariance, PTL

\* Every value an engine writes is sealed exactly once, and no key is.
THEOREM SealedOnce == ASSUME ParsedRight PROVE Spec => []SecretSealed
  BY GoodSealed, Invariance, PTL

\* A strict engine hands over only what some engine has signed.
THEOREM Authentic == ASSUME ParsedRight PROVE Spec => []StrictAuthentic
  BY GoodAuthentic, Invariance, PTL

\* A lenient engine hands nothing over silently but what was signed or has no
\* MAC.
THEOREM Reported == ASSUME ParsedRight PROVE Spec => []NothingSilent
  BY GoodNothingSilent, Invariance, PTL

-----------------------------------------------------------------------------
(* Queries. *)

\* What a query of the application gets for its key is what the scanner of the
\* engine and the lexer of the database make of some text.
Scanned(q) ==
  /\ q.asked \in 1 .. 2
  /\ \E text \in Seq(Lexeme) : q.bound = Lex!BoundTo(text, <<1, 2>>, q.asked)

\* A query finds only rows with the key that its caller means, whatever its
\* text.
THEOREM Asked ==
  ASSUME Lex!LexAssumption, \A q \in Query : Scanned(q)
  PROVE  Spec => []ReadsAsked
<1>1. ASSUME NEW q \in Query PROVE q.asked \in 1 .. 2 /\ q.bound \subseteq {q.asked}
  <2>1. PICK text \in Seq(Lexeme) : q.bound = Lex!BoundTo(text, <<1, 2>>, q.asked)
    BY DEF Scanned
  <2>2. <<1, 2>> \in Seq(Nat) /\ <<1, 2>> # <<>>
    OBVIOUS
  <2>3. \A a \in Lex!BoundTo(text, <<1, 2>>, q.asked) : a = <<1, 2>>[q.asked]
    BY <2>2, Lex!BoundAsNumbered, ZenonT(60)
  <2>4. QED
    BY <2>1, <2>3 DEF Scanned
<1>2. ReadsAsked
  BY <1>1 DEF ReadsAsked, Lookup
<1>3. QED
  BY <1>2, PTL

-----------------------------------------------------------------------------
(* Statements of hooks. *)

\* What matters of some statement whose text means what its parts mean.
Stated(h) ==
  \E op \in {"insert", "update"}, parts \in Seq(Lex!Part(Lexeme)) :
    Lex!Meant(parts) /\ h = Lex!Summary(op, parts, {"val"})

\* The engine's parser understands such statements, whatever their number of
\* rows and columns, the order of the columns, and the way arguments are
\* numbered: ParsedRight is a matter of what the texts mean, not of their length.
THEOREM MeantIsUnderstood ==
  ASSUME Lex!LexAssumption, Numbered \cap Lex!Sign = {}, NEW statements,
         \A h \in statements : Stated(h)
  PROVE  Understood(statements)
<1> SUFFICES ASSUME NEW e \in Engine, NEW h \in statements
             PROVE  /\ h.secret.ok => \A i \in DOMAIN h.roles :
                         Cardinality({n \in DOMAIN h.secret.idx : h.secret.idx[n] = i})
                           = IF h.roles[i].col = "val" THEN 1 ELSE 0
                    /\ h.mac.ok /\ Len(h.mac.idx) = Len(h.rows) =>
                         \A n \in DOMAIN h.rows : h.mac.idx[n] = h.rows[n].mac
                    /\ h.tail > 0 => Conf[e].SecretOn /\ ~h.secret.ok
  BY Zenon DEF Understood
<1>1. PICK op \in {"insert", "update"}, parts \in Seq(Lex!Part(Lexeme)) :
        Lex!Meant(parts) /\ h = Lex!Summary(op, parts, {"val"})
  BY DEF Stated
<1>2. Lex!AsMeant(h)
  BY <1>1, Lex!SummaryAsMeant
<1>3. h.secret.ok => \A i \in DOMAIN h.roles :
        Cardinality({n \in DOMAIN h.secret.idx : h.secret.idx[n] = i})
          = IF h.roles[i].col = "val" THEN 1 ELSE 0
  BY <1>2, Zenon DEF Lex!AsMeant, Cardinality, Lex!Cardinality
<1>4. h.mac.ok /\ Len(h.mac.idx) = Len(h.rows) =>
        \A n \in DOMAIN h.rows : h.mac.idx[n] = h.rows[n].mac
  BY <1>2, Zenon DEF Lex!AsMeant
<1>5. ~(h.tail > 0)
  BY <1>2 DEF Lex!AsMeant
<1>6. QED
  BY <1>3, <1>4, <1>5

\* With hooks of such statements, engines keep what they promise: what one wrote
\* is verified and read back, sealed once, and a strict one hands over only what
\* was signed.
THEOREM HooksAsMeant ==
  ASSUME Lex!LexAssumption, Numbered \cap Lex!Sign = {}, \A h \in Hook : Stated(h)
  PROVE  Spec => [](TypeOK /\ WrittenVerifies /\ SecretSealed /\ StrictAuthentic /\ NothingSilent)
<1>1. ParsedRight
  BY MeantIsUnderstood DEF ParsedRight
<1>2. QED
  BY <1>1, TypeCorrect, Verified, SealedOnce, Authentic, Reported, PTL
=============================================================================
