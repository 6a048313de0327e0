--------------------------- MODULE UniSaveProofs ---------------------------
(***************************************************************************)
(* Theorems about UniSave, for any number of goroutines, keys and values,  *)
(* and whichever keys take a native UPSERT or have no other column.        *)
(***************************************************************************)
EXTENDS UniSave, TLAPS

\* What a count said still holds, or someone else's statement undid it.
CountTrue ==
  \A p \in Proc : call[p].at = "write" =>
    IF call[p].found
    THEN row[call[p].key] = Absent => "deleted" \in call[p].met
    ELSE row[call[p].key] # Absent => "inserted" \in call[p].met

\* The four properties say this of every goroutine's call.
Good(c) ==
  c.at = "idle" /\ c.out # "none" =>
    /\ c.op = "SaveIt" /\ c.out = "nil" =>
         \/ c.new = c.val
         \/ c.key \in KeyOnly /\ c.new # Absent
         \/ c.key \notin Native /\ "deleted" \in c.met
    /\ c.op = "SaveItWhenNotExist" =>
         /\ c.old # Absent => c.new = c.old
         /\ c.out = "nil" => c.new # Absent
    /\ c.out = "duplicate" => c.key \notin Native /\ "inserted" \in c.met
    /\ c.met = {} /\ c.key \notin KeyOnly =>
         \/ c.out = "nil" /\ c.new = Upserted(c.op, c.key, c.old, c.val)
         \/ c.out = "driver error" /\ c.new \in {c.old, Upserted(c.op, c.key, c.old, c.val)}

AllGood == \A p \in Proc : Good(call[p])

IInv == TypeOK /\ CountTrue /\ AllGood

Ended(p, c, new, out) ==
  [c EXCEPT !.at = "idle", !.old = row[c.key], !.new = new, !.out = out]

-----------------------------------------------------------------------------
(* Statements.                                                             *)

\* A statement whose goroutine is left with a good call keeps the invariant:
\* what it does to the row is added to what the waiting saves have met.
LEMMA Executed ==
  ASSUME IInv, NEW p \in Proc, NEW k \in Key, NEW new \in RowOrAbsent,
         NEW c \in Call, c.at = "idle", Good(c), Execute(p, k, new, c)
  PROVE  IInv'
<1>1. row' \in [Key -> RowOrAbsent]
  BY DEF IInv, TypeOK, Execute
<1>2. EventOf(row[k], new) \subseteq Event
  BY DEF EventOf
<1>3. ASSUME NEW q \in Proc
      PROVE  /\ call'[q] \in Call
             /\ Good(call'[q])
             /\ call'[q].at = "write" =>
                  /\ call'[q].key \notin Native
                  /\ call'[q].found => call'[q].op = "SaveIt"
                  /\ IF call'[q].found
                     THEN row'[call'[q].key] = Absent => "deleted" \in call'[q].met
                     ELSE row'[call'[q].key] # Absent => "inserted" \in call'[q].met
  <2> DEFINE d == call[q]
  <2>0. d \in Call /\ Good(d)
    BY DEF IInv, TypeOK, AllGood
  <2>1. CASE q = p
    BY <2>1, <1>1 DEF Execute
  <2>2. CASE q # p /\ d.at = "write" /\ d.key = k
    <3> DEFINE e == [d EXCEPT !.met = @ \cup EventOf(row[k], new)]
    <3>1. call'[q] = e
      BY <2>2 DEF Execute
    <3>2. /\ e \in Call /\ e.at = "write" /\ e.key = k /\ e.found = d.found /\ e.op = d.op
          /\ e.met = d.met \cup EventOf(row[k], new)
      BY <2>0, <2>2, <1>2 DEF Call
    <3>3. Good(e)
      BY <3>2 DEF Good
    <3>4. row'[k] = new
      BY DEF Execute, IInv, TypeOK
    <3>5. /\ d.key \notin Native
          /\ d.found => d.op = "SaveIt"
          /\ IF d.found THEN row[k] = Absent => "deleted" \in d.met
             ELSE row[k] # Absent => "inserted" \in d.met
      BY <2>2 DEF IInv, TypeOK, CountTrue
    <3>6. /\ row[k] # Absent /\ new = Absent => "deleted" \in EventOf(row[k], new)
          /\ row[k] = Absent /\ new # Absent => "inserted" \in EventOf(row[k], new)
      BY DEF EventOf, Event
    <3>7. IF e.found THEN row'[e.key] = Absent => "deleted" \in e.met
          ELSE row'[e.key] # Absent => "inserted" \in e.met
      BY <3>2, <3>4, <3>5, <3>6
    <3>8. QED BY <3>1, <3>2, <3>3, <3>5, <3>7
  <2>3. CASE q # p /\ ~(d.at = "write" /\ d.key = k)
    <3>1. call'[q] = d
      BY <2>3 DEF Execute
    <3>2. d.at = "write" => row'[d.key] = row[d.key]
      BY <2>0, <2>3 DEF Execute, IInv, TypeOK, Call
    <3>3. QED BY <3>1, <3>2, <2>0 DEF IInv, TypeOK, CountTrue
  <2>4. QED BY <2>1, <2>2, <2>3
<1>4. call' \in [Proc -> Call]
  <2>1. call' = [q \in Proc |-> call'[q]]
    BY DEF Execute
  <2>2. QED BY <1>3, <2>1
<1>5. TypeOK'
  BY <1>1, <1>3, <1>4 DEF TypeOK
<1>6. CountTrue' /\ AllGood'
  BY <1>3 DEF CountTrue, AllGood
<1>7. QED BY <1>5, <1>6 DEF IInv

\* The fields of a call that ends.
LEMMA EndedFields ==
  ASSUME TypeOK, NEW p \in Proc, NEW c \in Call, NEW new \in RowOrAbsent, NEW out \in Result
  PROVE  LET e == Ended(p, c, new, out)
         IN  /\ e \in Call /\ e.at = "idle" /\ e.op = c.op /\ e.key = c.key /\ e.val = c.val
             /\ e.old = row[c.key] /\ e.new = new /\ e.met = c.met /\ e.out = out
  BY DEF Ended, Call, TypeOK

\* What the four properties ask of an ending of the save c.
GoodEnd(c, new, out) ==
  /\ c.op = "SaveIt" /\ out = "nil" =>
       \/ new = c.val
       \/ c.key \in KeyOnly /\ new # Absent
       \/ c.key \notin Native /\ "deleted" \in c.met
  /\ c.op = "SaveItWhenNotExist" =>
       /\ row[c.key] # Absent => new = row[c.key]
       /\ out = "nil" => new # Absent
  /\ out = "duplicate" => c.key \notin Native /\ "inserted" \in c.met
  /\ c.met = {} /\ c.key \notin KeyOnly =>
       \/ out = "nil" /\ new = Upserted(c.op, c.key, row[c.key], c.val)
       \/ /\ out = "driver error"
          /\ new \in {row[c.key], Upserted(c.op, c.key, row[c.key], c.val)}

\* A save that ends well keeps the invariant.
LEMMA Returns ==
  ASSUME IInv, NEW p \in Proc, NEW c \in Call, NEW new \in RowOrAbsent, NEW out \in Result,
         GoodEnd(c, new, out), Return(p, c, new, out)
  PROVE  IInv'
<1> DEFINE e == Ended(p, c, new, out)
<1>1. /\ e \in Call /\ e.at = "idle" /\ e.op = c.op /\ e.key = c.key /\ e.val = c.val
      /\ e.old = row[c.key] /\ e.new = new /\ e.met = c.met /\ e.out = out
  BY EndedFields DEF IInv
<1>2. Execute(p, c.key, new, e) /\ c.key \in Key
  BY DEF Return, Ended, Call
<1> HIDE DEF e
<1>3. Good(e)
  BY <1>1 DEF Good, GoodEnd
<1>4. QED BY <1>1, <1>2, <1>3, Executed

\* A statement that may fail keeps it if its success is what UPSERT makes of
\* the row.
LEMMA UpsertingStatement ==
  ASSUME IInv, NEW p \in Proc, NEW c \in Call,
         Statement(p, c, Upserted(c.op, c.key, row[c.key], c.val))
  PROVE  IInv'
<1> DEFINE new == Upserted(c.op, c.key, row[c.key], c.val)
<1>1. c.key \in Key /\ c.val \in Val /\ c.op \in Save /\ row[c.key] \in RowOrAbsent
  BY DEF IInv, TypeOK, Call
<1>2. new \in RowOrAbsent /\ "nil" \in Result /\ "driver error" \in Result
  BY <1>1 DEF Upserted, RowOrAbsent, Result
<1>3. c.val # Absent
  BY <1>1, SaveAssumption
<1>4. GoodEnd(c, new, "nil")
  BY <1>1, <1>3 DEF GoodEnd, Upserted
<1>5. ASSUME NEW r \in {new, row[c.key]} PROVE GoodEnd(c, r, "driver error")
  BY <1>1, <1>5 DEF GoodEnd, Upserted
<1>6. QED BY <1>1, <1>2, <1>4, <1>5, Returns DEF Statement

\* An insert is an UPSERT where there is no row; a row that is there was
\* inserted since the count.
LEMMA InsertingStatement ==
  ASSUME IInv, NEW p \in Proc, NEW c \in Call, InsertStmt(p, c),
         c.key \notin Native, row[c.key] # Absent => "inserted" \in c.met
  PROVE  IInv'
<1>1. CASE row[c.key] = Absent /\ Statement(p, c, c.val)
  BY <1>1, UpsertingStatement DEF Upserted
<1>2. ASSUME row[c.key] # Absent, NEW out \in {"duplicate", "driver error"},
             Return(p, c, row[c.key], out)
      PROVE  IInv'
  <2>1. row[c.key] \in RowOrAbsent /\ out \in Result
    BY DEF IInv, TypeOK, Call, Result
  <2>2. GoodEnd(c, row[c.key], out)
    BY <1>2 DEF GoodEnd
  <2>3. QED BY <1>2, <2>1, <2>2, Returns
<1>3. QED BY <1>1, <1>2 DEF InsertStmt

\* An update is an UPSERT where there is a row; one that has gone was deleted
\* since the count.
LEMMA UpdatingStatement ==
  ASSUME IInv, NEW p \in Proc, NEW c \in Call, UpdateStmt(p, c), c.op = "SaveIt",
         c.key \notin Native, row[c.key] = Absent => "deleted" \in c.met
  PROVE  IInv'
<1>0. row[c.key] \in RowOrAbsent /\ c.val \in Val
  BY DEF IInv, TypeOK, Call
<1>1. CASE c.key \in KeyOnly
  <2>1. Return(p, c, row[c.key], "no column") /\ "no column" \in Result
    BY <1>1 DEF UpdateStmt, Result
  <2>2. GoodEnd(c, row[c.key], "no column")
    BY <1>1 DEF GoodEnd
  <2>3. QED BY <1>0, <2>1, <2>2, Returns
<1>2. CASE c.key \notin KeyOnly /\ row[c.key] # Absent
  BY <1>2, UpsertingStatement DEF UpdateStmt, Updated, Upserted
<1>3. CASE c.key \notin KeyOnly /\ row[c.key] = Absent
  <2>1. Statement(p, c, Absent) /\ Absent \in RowOrAbsent
    BY <1>3 DEF UpdateStmt, Updated, RowOrAbsent
  <2>2. \E out \in {"nil", "driver error"} : Return(p, c, Absent, out)
    BY <1>3, <2>1 DEF Statement
  <2>3. ASSUME NEW out \in {"nil", "driver error"} PROVE GoodEnd(c, Absent, out)
    BY <1>3 DEF GoodEnd
  <2>4. QED BY <2>1, <2>2, <2>3, Returns DEF Result
<1>4. QED BY <1>1, <1>2, <1>3

-----------------------------------------------------------------------------
(* The actions.                                                            *)

LEMMA CalledCall ==
  ASSUME NEW op \in Save, NEW k \in Key, NEW v \in Val
  PROVE  LET c == Called(op, k, v)
         IN  /\ c \in Call /\ Good(c) /\ c.at = "idle" /\ c.op = op /\ c.key = k
             /\ c.val = v /\ c.met = {} /\ c.found = FALSE
  BY DEF Called, Call, RowOrAbsent, Result, Event, Good

LEMMA InitInv == Init => IInv
<1>1. SUFFICES ASSUME Init PROVE IInv
  OBVIOUS
<1>2. PICK k \in Key, v \in Val : call = [p \in Proc |-> Called("SaveIt", k, v)]
  BY <1>1 DEF Init
<1>3. "SaveIt" \in Save
  BY DEF Save
<1>4. QED BY <1>1, <1>2, <1>3, CalledCall DEF Init, IInv, TypeOK, CountTrue, AllGood

LEMMA PlainStep ==
  ASSUME IInv, NEW p \in Proc, NEW k \in Key, NEW v \in Val,
         Insert(p, k, v) \/ Update(p, k, v) \/ Delete(p, k)
  PROVE  IInv'
<1>1. call[p] \in Call /\ Good(call[p]) /\ row[k] \in RowOrAbsent
  BY DEF IInv, TypeOK, AllGood
<1>2. PICK new \in RowOrAbsent : call[p].at = "idle" /\ Execute(p, k, new, call[p])
  BY <1>1 DEF Insert, Update, Delete, Updated, RowOrAbsent
<1>3. QED BY <1>1, <1>2, Executed

LEMMA CountStep ==
  ASSUME IInv, NEW p \in Proc, NEW op \in Save, NEW k \in Key, NEW v \in Val, Count(p, op, k, v)
  PROVE  IInv'
<1> DEFINE c == Called(op, k, v)
<1>1. /\ c \in Call /\ c.op = op /\ c.key = k /\ c.met = {} /\ c.found = FALSE
      /\ row[k] \in RowOrAbsent /\ k \notin Native
  <2>1. /\ c \in Call /\ c.op = op /\ c.key = k /\ c.met = {} /\ c.found = FALSE
    BY DEF Called, Call, RowOrAbsent, Result, Event
  <2>2. row[k] \in RowOrAbsent /\ k \notin Native
    BY DEF IInv, TypeOK, Count
  <2>3. QED BY <2>1, <2>2
<1>2. ASSUME op = "SaveItWhenNotExist", row[k] # Absent,
             Return(p, [c EXCEPT !.found = TRUE], row[k], "nil")
      PROVE  IInv'
  <2> DEFINE d == [c EXCEPT !.found = TRUE]
  <2>1. d \in Call /\ d.op = op /\ d.key = k /\ d.met = {} /\ "nil" \in Result
    BY <1>1 DEF Call, Result
  <2>2. GoodEnd(d, row[k], "nil")
    BY <1>1, <1>2, <2>1 DEF GoodEnd, Upserted
  <2>3. QED BY <1>1, <1>2, <2>1, <2>2, Returns
<1>3. ASSUME op = "SaveIt" \/ row[k] = Absent, Dispatch(p, c), UNCHANGED row
      PROVE  IInv'
  <2> DEFINE d == [c EXCEPT !.at = "write", !.found = (row[c.key] # Absent)]
  <2>1. /\ d \in Call /\ d.at = "write" /\ d.op = op /\ d.key = k
        /\ d.found = (row[k] # Absent)
    BY <1>1 DEF Call
  <2>2. Good(d)
    BY <2>1 DEF Good
  <2>3. call' = [call EXCEPT ![p] = d] /\ row' = row
    BY <1>3 DEF Dispatch
  <2>4. ASSUME NEW q \in Proc PROVE call'[q] = IF q = p THEN d ELSE call[q]
    BY <2>3 DEF IInv, TypeOK
  <2> HIDE DEF d
  <2>5. TypeOK'
    BY <1>1, <1>3, <2>1, <2>3, <2>4 DEF IInv, TypeOK
  <2>6. CountTrue'
    BY <2>1, <2>3, <2>4 DEF IInv, CountTrue
  <2>7. AllGood'
    BY <2>2, <2>4 DEF IInv, AllGood
  <2>8. QED BY <2>5, <2>6, <2>7 DEF IInv
<1>4. ASSUME Return(p, c, row[k], "driver error") PROVE IInv'
  <2>1. "driver error" \in Result
    BY DEF Result
  <2>2. GoodEnd(c, row[k], "driver error")
    BY <1>1 DEF GoodEnd
  <2>3. QED BY <1>1, <1>4, <2>1, <2>2, Returns
<1>5. QED BY <1>2, <1>3, <1>4 DEF Count

LEMMA WriteStep ==
  ASSUME IInv, NEW p \in Proc, Write(p)
  PROVE  IInv'
<1>1. call[p] \in Call /\ call[p].at = "write" /\ call[p].key \notin Native
  BY DEF IInv, TypeOK, Write
<1>2. CASE call[p].found
  BY <1>1, <1>2, UpdatingStatement DEF IInv, TypeOK, CountTrue, Write
<1>3. CASE ~call[p].found
  BY <1>1, <1>3, InsertingStatement DEF IInv, CountTrue, Write
<1>4. QED BY <1>2, <1>3

LEMMA NextInv == IInv /\ [Next]_vars => IInv'
<1>1. SUFFICES ASSUME IInv, [Next]_vars PROVE IInv'
  OBVIOUS
<1>2. CASE UNCHANGED vars
  BY <1>1, <1>2 DEF vars, IInv, TypeOK, CountTrue, AllGood
<1>3. ASSUME NEW p \in Proc, Step(p) PROVE IInv'
  <2>1. ASSUME NEW k \in Key, Delete(p, k) PROVE IInv'
    <3>1. call[p].at = "idle" /\ Execute(p, k, Absent, call[p])
      BY <2>1 DEF Delete
    <3>2. call[p] \in Call /\ Good(call[p]) /\ Absent \in RowOrAbsent
      BY <1>1 DEF IInv, TypeOK, AllGood, RowOrAbsent
    <3>3. QED BY <1>1, <3>1, <3>2, Executed
  <2>2. ASSUME NEW k \in Key, NEW v \in Val, Insert(p, k, v) \/ Update(p, k, v) PROVE IInv'
    BY <1>1, <2>2, PlainStep
  <2>3. ASSUME NEW op \in Save, NEW k \in Key, NEW v \in Val, NativeSave(p, op, k, v)
        PROVE  IInv'
    BY <1>1, <2>3, CalledCall, UpsertingStatement DEF NativeSave, UpsertStmt
  <2>4. ASSUME NEW op \in Save, NEW k \in Key, NEW v \in Val, Count(p, op, k, v) PROVE IInv'
    BY <1>1, <2>4, CountStep
  <2>5. CASE Write(p)
    BY <1>1, <2>5, WriteStep
  <2>6. QED BY <1>3, <2>1, <2>2, <2>3, <2>4, <2>5 DEF Step
<1>4. QED BY <1>1, <1>2, <1>3 DEF Next

-----------------------------------------------------------------------------
(* The theorems.                                                           *)

\* The inductive invariant holds in every state.
THEOREM Invariance == Spec => []IInv
  BY InitInv, NextInv, PTL DEF Spec

\* Only counting saves wait for a second statement, and all is well typed.
THEOREM TypeCorrect == Spec => []TypeOK
<1>1. IInv => TypeOK
  BY DEF IInv
<1>2. QED BY Invariance, <1>1, PTL

\* A SaveIt that returns nil has saved, unless a Delete came in between.
THEOREM Effective == Spec => []SaveEffective
<1>1. IInv => SaveEffective
  BY DEF IInv, AllGood, Good, SaveEffective, Returned
<1>2. QED BY Invariance, <1>1, PTL

\* SaveItWhenNotExist leaves an existing row alone.
THEOREM Overwrites == Spec => []NeverOverwrites
<1>1. IInv => NeverOverwrites
  BY DEF IInv, AllGood, Good, NeverOverwrites, Returned
<1>2. QED BY Invariance, <1>1, PTL

\* A save meets the unique key only if it counted and lost a race.
THEOREM Duplicates == Spec => []DuplicateOnlyByRace
<1>1. IInv => DuplicateOnlyByRace
  BY DEF IInv, AllGood, Good, DuplicateOnlyByRace, Returned
<1>2. QED BY Invariance, <1>1, PTL

\* Undisturbed, the fallback does what UPSERT does.
THEOREM Fallback == Spec => []FallbackIsUpsert
<1>1. IInv => FallbackIsUpsert
  BY DEF IInv, AllGood, Good, FallbackIsUpsert, Returned
<1>2. QED BY Invariance, <1>1, PTL
=============================================================================
