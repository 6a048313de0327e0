----------------------------- MODULE UniCatalog -----------------------------
(***************************************************************************)
(* What the table registry promises, without snapshots and addresses: a    *)
(* catalog in which a table is found by its name and by the name of the    *)
(* type it was registered from.  The two change together, in one step, and *)
(* a step changes the entries of one table and type.                       *)
(***************************************************************************)
CONSTANTS
  Table, Class,
  ClassKey,  \* the name of a type
  Entry,     \* the metadata of a table
  NoClass    \* the class of a table registered by hand

VARIABLE entry  \* what is known, by name

vars == <<entry>>

Name == Table \cup {ClassKey[c] : c \in Class}

Known(k) == k \in DOMAIN entry

TypeOK == DOMAIN entry \subseteq Name /\ \A k \in DOMAIN entry : entry[k] \in Entry

Init == entry = [k \in {} |-> {}]

\* The names under which a table is found: its own, and that of its type.
Names(t) ==
  {t} \cup {ClassKey[c] : c \in {d \in Class : Known(t) /\ entry[t].class = d}}

\* The names get the entry e; the others keep theirs.
Put(names, e) ==
  entry' = [k \in DOMAIN entry \cup names |-> IF k \in names THEN e ELSE entry[k]]

\* A table keeps its type and attributes, and its columns.  Once it is verified
\* it stays so, and its key is fixed.  Only its holder opts out for it.
Grown(old, e) ==
  /\ e.class = old.class /\ e.attrs = old.attrs /\ e.unkeyed = old.unkeyed
  /\ old.fields \subseteq e.fields
  /\ old.verifyOn => e.verifyOn /\ e.pkeys = old.pkeys

\* A call on a table, known or not: the entry is changed under all its names.
Change(t) ==
  /\ t \in DOMAIN entry'
  /\ LET e == entry'[t]
     IN /\ e \in Entry /\ e.table = t
        /\ IF Known(t) THEN Grown(entry[t], e) ELSE e.class = NoClass /\ ~e.verifyOn
        /\ Put(Names(t), e)

\* A type is registered for a table: the entry starts afresh.  A type that is
\* known stays with its table.
Bind(c, t) ==
  /\ Known(ClassKey[c]) => entry[ClassKey[c]].class = c /\ entry[ClassKey[c]].table = t
  /\ t \in DOMAIN entry'
  /\ LET e == entry'[t]
     IN /\ e \in Entry /\ e.table = t /\ e.class = c /\ e.pkeys = {} /\ ~e.verifyOn
        /\ Put({t, ClassKey[c]}, e)

\* The caller gives up the protection of the key, for a table or for a type
\* whose table has another type by now.
OptOut(names) ==
  \E k \in names :
    /\ names \subseteq DOMAIN entry
    /\ Put(names, [entry[k] EXCEPT !.unkeyed = TRUE])

Outdated(k) == Known(k) /\ k \notin Table /\ k \notin Names(entry[k].table)

Next ==
  \/ \E t \in Table : Change(t) \/ OptOut(Names(t))
  \/ \E c \in Class, t \in Table : Bind(c, t)
  \/ \E k \in Name : Outdated(k) /\ OptOut({k})

Spec == Init /\ [][Next]_vars
=============================================================================
