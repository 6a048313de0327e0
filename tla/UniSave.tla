------------------------------ MODULE UniSave ------------------------------
(***************************************************************************)
(* SaveIt and SaveItWhenNotExist, with Insert, Update and Delete beside    *)
(* them.  Where the dialect has an UPSERT and the class no SQL hooks, a    *)
(* save is one statement; elsewhere (MySQL, hook classes) the rows are     *)
(* counted first, and Update or Insert is a second statement.              *)
(*                                                                         *)
(* There is one table for every key.  Statements are atomic and committed  *)
(* at once, the registered primary keys are a unique key of the database,  *)
(* and a statement that reports a driver error may have been executed.     *)
(* Signing and encryption of the row, which do not depend on the database, *)
(* are part of the value.                                                  *)
(***************************************************************************)
CONSTANTS
  Proc,      \* goroutines
  Key, Val,
  Native,    \* the keys whose table and class take a native UPSERT
  KeyOnly,   \* the keys whose class has no column besides the primary key
  Absent     \* no row

ASSUME SaveAssumption ==
  Native \subseteq Key /\ KeyOnly \subseteq Key /\ Absent \notin Val

VARIABLES
  row,  \* the row of each key
  call  \* the save each goroutine is in, or its last one

vars == <<row, call>>

RowOrAbsent == Val \cup {Absent}
Save == {"SaveIt", "SaveItWhenNotExist"}
Result == {"none", "nil", "duplicate", "no column", "driver error"}
Event == {"inserted", "deleted"}

\* found: what the count said; old and new: the row around the last
\* statement; met (history): what others
\* did to the row since the count, besides changing it.
Call == [at : {"idle", "write"}, op : Save, key : Key, val : Val, found : BOOLEAN,
         old : RowOrAbsent, new : RowOrAbsent, met : SUBSET Event, out : Result]

\* Only a save that counts has a second statement to come, and it updates
\* only for SaveIt.
TypeOK ==
  /\ row \in [Key -> RowOrAbsent]
  /\ call \in [Proc -> Call]
  /\ \A p \in Proc : call[p].at = "write" =>
       /\ call[p].key \notin Native
       /\ call[p].found => call[p].op = "SaveIt"

-----------------------------------------------------------------------------
(* Statements. *)

EventOf(old, new) ==
  {e \in Event : \/ e = "inserted" /\ old = Absent /\ new # Absent
                 \/ e = "deleted" /\ old # Absent /\ new = Absent}

\* A statement of p makes the row of k new; p's save becomes c.
Execute(p, k, new, c) ==
  /\ row' = [row EXCEPT ![k] = new]
  /\ call' = [q \in Proc |->
       IF q = p THEN c
       ELSE IF call[q].at = "write" /\ call[q].key = k
       THEN [call[q] EXCEPT !.met = @ \cup EventOf(row[k], new)]
       ELSE call[q]]

\* The save c of p ends with a statement that makes its row new.
Return(p, c, new, out) ==
  Execute(p, c.key, new,
    [c EXCEPT !.at = "idle", !.old = row[c.key], !.new = new, !.out = out])

\* It is executed, or the driver reports an error, or both.
Statement(p, c, new) ==
  \/ Return(p, c, new, "nil")
  \/ \E r \in {new, row[c.key]} : Return(p, c, r, "driver error")

\* InsertCtx.
InsertStmt(p, c) ==
  \/ row[c.key] = Absent /\ Statement(p, c, c.val)
  \/ /\ row[c.key] # Absent
     /\ \E out \in {"duplicate", "driver error"} : Return(p, c, row[c.key], out)

\* What an UPDATE leaves: one that meets no row is no error.
Updated(old, v) == IF old = Absent THEN Absent ELSE v

\* UpdateCtx.
UpdateStmt(p, c) ==
  IF c.key \in KeyOnly THEN Return(p, c, row[c.key], "no column")
  ELSE Statement(p, c, Updated(row[c.key], c.val))

\* What on conflict, or merge, makes of a row: nothing is set when the class
\* has no column to set.
Upserted(op, k, old, v) ==
  IF old = Absent \/ (op = "SaveIt" /\ k \notin KeyOnly) THEN v ELSE old

\* Faulty variant: both saves use the statement that updates.
UpsertStmtUpdates(p, c) == Statement(p, c, Upserted("SaveIt", c.key, row[c.key], c.val))

\* saveUpsert.
UpsertStmt(p, c) == Statement(p, c, Upserted(c.op, c.key, row[c.key], c.val))

-----------------------------------------------------------------------------
(* Calls. *)

\* Plain writes, by goroutines that are in no save.  Those that fail, or meet
\* no row, change nothing.
Insert(p, k, v) ==
  call[p].at = "idle" /\ row[k] = Absent /\ Execute(p, k, v, call[p])

Update(p, k, v) ==
  call[p].at = "idle" /\ k \notin KeyOnly /\ Execute(p, k, Updated(row[k], v), call[p])

Delete(p, k) == call[p].at = "idle" /\ Execute(p, k, Absent, call[p])

Called(op, k, v) ==
  [at |-> "idle", op |-> op, key |-> k, val |-> v, found |-> FALSE,
   old |-> Absent, new |-> Absent, met |-> {}, out |-> "none"]

NativeSave(p, op, k, v) ==
  call[p].at = "idle" /\ k \in Native /\ UpsertStmt(p, Called(op, k, v))

\* The count of p's save is answered, and a second statement is to follow.
Dispatch(p, c) ==
  call' = [call EXCEPT ![p] = [c EXCEPT !.at = "write", !.found = (row[c.key] # Absent)]]

\* Faulty variant: an existing row is dispatched whatever was asked.
CountDispatches(p, op, k, v) ==
  /\ call[p].at = "idle" /\ k \notin Native
  /\ Dispatch(p, Called(op, k, v))
  /\ UNCHANGED row

\* saveByCount, up to the answer of countByPkeys.
Count(p, op, k, v) ==
  /\ call[p].at = "idle" /\ k \notin Native
  /\ \/ /\ op = "SaveItWhenNotExist" /\ row[k] # Absent
        /\ Return(p, [Called(op, k, v) EXCEPT !.found = TRUE], row[k], "nil")
     \/ /\ op = "SaveIt" \/ row[k] = Absent
        /\ Dispatch(p, Called(op, k, v))
        /\ UNCHANGED row
     \/ Return(p, Called(op, k, v), row[k], "driver error")

\* Faulty variant: a row that was found is inserted again.
WriteInserts(p) == call[p].at = "write" /\ InsertStmt(p, call[p])

\* Faulty variant: the count is not looked at.
WriteUpdates(p) == call[p].at = "write" /\ UpdateStmt(p, call[p])

\* The rest of saveByCount: what was found decides.
Write(p) ==
  /\ call[p].at = "write"
  /\ IF call[p].found THEN UpdateStmt(p, call[p]) ELSE InsertStmt(p, call[p])

Init ==
  /\ row \in [Key -> RowOrAbsent]
  /\ \E k \in Key, v \in Val : call = [p \in Proc |-> Called("SaveIt", k, v)]

Step(p) ==
  \/ \E k \in Key : Delete(p, k)
  \/ \E k \in Key, v \in Val : Insert(p, k, v) \/ Update(p, k, v)
  \/ \E op \in Save, k \in Key, v \in Val : NativeSave(p, op, k, v) \/ Count(p, op, k, v)
  \/ Write(p)

Next == \E p \in Proc : Step(p)

Spec == Init /\ [][Next]_vars

-----------------------------------------------------------------------------
(* Properties of the saves that have come back. *)

Returned(p, ops) == call[p].at = "idle" /\ call[p].out # "none" /\ call[p].op \in ops

\* A SaveIt that returns nil has left its value in the row, or the row of a
\* class that has nothing but its key.  Only a save that counts first can
\* lose its value, and only to a Delete between its two statements.
SaveEffective ==
  \A p \in Proc : Returned(p, {"SaveIt"}) /\ call[p].out = "nil" =>
    LET c == call[p]
    IN  \/ c.new = c.val
        \/ c.key \in KeyOnly /\ c.new # Absent
        \/ c.key \notin Native /\ "deleted" \in c.met

\* SaveItWhenNotExist never changes a row that exists, however late its
\* insert comes after its count, and nil means that the row does exist.
NeverOverwrites ==
  \A p \in Proc : Returned(p, {"SaveItWhenNotExist"}) =>
    /\ call[p].old # Absent => call[p].new = call[p].old
    /\ call[p].out = "nil" => call[p].new # Absent

\* A native save never meets the unique key; a save that counts does so only
\* if another insert of the key came between its statements.
DuplicateOnlyByRace ==
  \A p \in Proc : Returned(p, Save) /\ call[p].out = "duplicate" =>
    call[p].key \notin Native /\ "inserted" \in call[p].met

\* When nobody disturbs it, counting and dispatching is the same as UPSERT:
\* the fallback is a substitute for it.
FallbackIsUpsert ==
  \A p \in Proc : Returned(p, Save) /\ call[p].met = {} /\ call[p].key \notin KeyOnly =>
    LET c == call[p]
    IN  \/ c.out = "nil" /\ c.new = Upserted(c.op, c.key, c.old, c.val)
        \/ c.out = "driver error" /\ c.new \in {c.old, Upserted(c.op, c.key, c.old, c.val)}
=============================================================================
