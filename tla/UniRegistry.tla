----------------------------- MODULE UniRegistry -----------------------------
(***************************************************************************)
(* The table registry of an engine: HashTabl, the map under which every    *)
(* registered table is found, both by its lower-cased table name and by    *)
(* the name of the Go type it was registered from.                         *)
(*                                                                         *)
(* A published *TUniTable is never written again: each operation clones    *)
(* the snapshot it starts from, changes the clone, and publishes it under  *)
(* every key that pointed at the old one.  Snapshots are therefore kept    *)
(* here on a heap, snap, and HashTabl maps keys to addresses, so that a    *)
(* pointer a caller still holds and a pointer the map holds can be told    *)
(* apart.  Every operation runs under the write lock of the engine and is  *)
(* one action; AutoKeys asks the database between reading its receiver     *)
(* and taking the lock, and is two.                                        *)
(***************************************************************************)
EXTENDS Naturals, FiniteSets

CONSTANTS
  Class,      \* struct types given to RegisterClass
  Table,      \* lower-cased table names
  Column,     \* lower-cased column names
  Marker,     \* the columns that are only a readonly marker, db:"-" or db:"_"
  Dash,       \* those of them that are no valid column name, db:"-"
  ClassKey,   \* ClassKey[c] is reflect.Type.String() of c
  Decl,       \* Decl[c]: what the db tags and the attributes of c declare
  Malformed,  \* the types with a duplicated or an illegal column name
  Lists,      \* the column lists the variadic calls are made with
  Worker,     \* goroutines that may be inside AutoKeys
  NoClass,    \* ClassType == nil
  NoColumn,   \* VerifyAt == ""
  NoTable,    \* no AutoKeys call is under way
  MaxSnap     \* bound on the snapshots ever published

(***************************************************************************)
(* cols: tagged columns, readonly: the ones that are readonly or a marker, *)
(* secret: tagged secreton, text: mapped to a string attribute, scalar:    *)
(* mapped to an attribute of a kind verifyFormat accepts.                  *)
(***************************************************************************)
ClassDecl == [cols : SUBSET Column, readonly : SUBSET Column,
              secret : SUBSET Column, text : SUBSET Column,
              scalar : SUBSET Column]

ASSUME RegistryAssumption ==
  /\ MaxSnap \in Nat
  /\ Table # {}
  /\ Dash \subseteq Marker /\ Marker \subseteq Column
  /\ Malformed \subseteq Class
  /\ Lists \subseteq SUBSET Column
  /\ NoClass \notin Class
  /\ NoColumn \notin Column
  /\ NoTable \notin Table
  /\ DOMAIN ClassKey = Class
  /\ Decl \in [Class -> ClassDecl]
  /\ \A c \in Class : /\ Decl[c].readonly \subseteq Decl[c].cols
                      /\ Decl[c].secret \subseteq Decl[c].cols
  \* The name of an exported type has an upper-case letter and so is no
  \* lower-cased table name.
  /\ \A c \in Class : ClassKey[c] \notin Table

Absent == 0
SnapId == 1 .. MaxSnap
Key == Table \cup {ClassKey[c] : c \in Class}

Snapshot ==
  [table : Table, class : Class \cup {NoClass},
   fields : SUBSET Column, attrs : SUBSET Column,
   list : SUBSET Column,
   secret : SUBSET Column, listSecret : SUBSET Column,
   colSecret : SUBSET Column, secretOn : BOOLEAN,
   pkeys : SUBSET Column, pkeyAttrs : SUBSET Column,
   listPkeys : SUBSET Column,
   verifyOn : BOOLEAN, verifyAt : Column \cup {NoColumn},
   colVerify : SUBSET Column, unkeyed : BOOLEAN]

QueryType == {"EtSelect", "EtInsert", "EtUpdate", "EtDelete"}

VARIABLES
  snap,   \* the heap of snapshots; addresses above top are unused
  top,    \* the last address allocated
  tabl,   \* HashTabl: key -> address, or Absent
  auto    \* the key columns an AutoKeys call has read, before it takes the
          \* lock, and the receiver's table

vars == <<snap, top, tabl, auto>>

Idle == [table |-> NoTable, cols |-> {}]

TypeOK ==
  /\ snap \in [SnapId -> Snapshot]
  /\ top \in 0 .. MaxSnap
  /\ tabl \in [Key -> 0 .. top]
  /\ auto \in [Worker -> [table : Table \cup {NoTable}, cols : SUBSET Column]]

-----------------------------------------------------------------------------
(* Snapshots. *)

\* A table made by RegisterTable or RegisterField: no class, no column yet.
ManualTable(t) ==
  [table |-> t, class |-> NoClass,
   fields |-> {}, attrs |-> {}, list |-> {},
   secret |-> {}, listSecret |-> {}, colSecret |-> {}, secretOn |-> FALSE,
   pkeys |-> {}, pkeyAttrs |-> {}, listPkeys |-> {},
   verifyOn |-> FALSE, verifyAt |-> NoColumn, colVerify |-> {},
   unkeyed |-> FALSE]

\* The table RegisterClass builds from the tags of c.  It starts afresh:
\* keys, secrets and verification set up by hand have to be set up again.
ClassTable(c, t) ==
  [ManualTable(t) EXCEPT
     !.class = c,
     !.fields = Decl[c].cols, !.attrs = Decl[c].cols, !.list = Decl[c].cols,
     !.secret = Decl[c].secret, !.listSecret = Decl[c].secret,
     !.colSecret = Decl[c].secret, !.secretOn = Decl[c].secret # {}]

ReadOnlyOf(s) == IF s.class = NoClass THEN {} ELSE Decl[s.class].readonly

Registered(k) == tabl[k] # Absent
At(k) == snap[tabl[k]]

\* Faulty variants: the old address is written in place, the class key of
\* the old snapshot is left behind, the address is not consumed.
PublishInPlace(old, next) ==
  /\ top < MaxSnap
  /\ top' = top + 1
  /\ snap' = [snap EXCEPT ![IF old = Absent THEN top + 1 ELSE old] = next]
  /\ tabl' = [tabl EXCEPT ![next.table] = IF old = Absent THEN top + 1 ELSE old]

PublishTableKeyOnly(old, next) ==
  /\ top < MaxSnap
  /\ top' = top + 1
  /\ snap' = [snap EXCEPT ![top + 1] = next]
  /\ tabl' = [tabl EXCEPT ![next.table] = top + 1]

PublishTwice(old, next) ==
  /\ top < MaxSnap
  /\ UNCHANGED top
  /\ snap' = [snap EXCEPT ![top + 1] = next]
  /\ tabl' = [k \in Key |->
                IF k = next.table \/ (old # Absent /\ tabl[k] = old)
                THEN top + 1 ELSE tabl[k]]

\* publishTableMetadata: next takes the place of old under all of its keys,
\* and is always found under its table name.
Publish(old, next) ==
  /\ top < MaxSnap
  /\ top' = top + 1
  /\ snap' = [snap EXCEPT ![top + 1] = next]
  /\ tabl' = [k \in Key |->
                IF k = next.table \/ (old # Absent /\ tabl[k] = old)
                THEN top + 1 ELSE tabl[k]]

\* A call that meets an error returns it and publishes nothing: what its
\* clone already took is dropped.
Refuse == UNCHANGED <<snap, top, tabl>>

\* The call publishes next in place of old if it is allowed.
Finish(allowed, old, next) ==
  \/ allowed /\ Publish(old, next)
  \/ ~allowed /\ Refuse

-----------------------------------------------------------------------------
(* Registration by class. *)

\* Another class's key, or another table's, still points at the snapshot.
ExtraAlias(c, t) ==
  \E k \in Key \ {t, ClassKey[c]} :
    /\ tabl[k] = tabl[t]
    /\ At(t).class # NoClass => k # ClassKey[At(t).class]

OwnerLost(t) ==
  At(t).class # NoClass /\ tabl[ClassKey[At(t).class]] # tabl[t]

\* Faulty variant: a class may move to another table.
CheckClassUnbound(c, t, force) ==
  IF Registered(t) /\ At(t).class = NoClass /\ ~force THEN "ErrTableConflict"
  ELSE IF c \in Malformed THEN "error" ELSE "ok"

\* The first test of checkClassRegistration that fails, in the code's order.
CheckClass(c, t, force) ==
  LET k == ClassKey[c] IN
  IF Registered(k) /\ At(k).class # c THEN "ErrRegistryInconsistent"
  ELSE IF Registered(k) /\ At(k).table # t THEN "ErrClassConflict"
  ELSE IF Registered(k) /\ ~Registered(t) THEN "ErrRegistryInconsistent"
  ELSE IF Registered(t) /\ OwnerLost(t) THEN "ErrRegistryInconsistent"
  ELSE IF Registered(t) /\ At(t).class = NoClass /\ ~force
       THEN "ErrTableConflict"
  ELSE IF Registered(t) /\ ExtraAlias(c, t) THEN "ErrRegistryInconsistent"
  ELSE IF Registered(k) /\ tabl[k] # tabl[t] /\ At(t).class = c
       THEN "ErrRegistryInconsistent"
  ELSE IF c \in Malformed THEN "error"
  ELSE "ok"

\* registerClass; force tells RegisterClassForce from RegisterClass.
RegisterClass(c, t, force) ==
  LET err == CheckClass(c, t, force) IN
  /\ \/ /\ err = "ok"
        /\ top < MaxSnap
        /\ top' = top + 1
        /\ snap' = [snap EXCEPT ![top + 1] = ClassTable(c, t)]
        /\ tabl' = [tabl EXCEPT ![t] = top + 1, ![ClassKey[c]] = top + 1]
     \/ err # "ok" /\ Refuse
  /\ UNCHANGED auto

-----------------------------------------------------------------------------
(* Registration by hand. *)

\* The snapshot under the table name, or a new manual table.
BaseOf(t) == IF Registered(t) THEN At(t) ELSE ManualTable(t)

\* Only IPriority changes, which nothing here depends on.
RegisterTable(t) ==
  /\ Finish(TRUE, tabl[t], BaseOf(t))
  /\ UNCHANGED auto

\* An entry with an attribute is kept as it is; an entry registered by hand
\* is replaced by a bare one, without its secret mark.
RegisterField(t, f) ==
  /\ f \notin Dash
  /\ LET s == BaseOf(t) IN
     Finish(TRUE, tabl[t],
            [s EXCEPT !.fields = @ \cup {f},
                      !.secret = IF f \in s.attrs THEN @ ELSE @ \ {f}])
  /\ UNCHANGED auto

\* Faulty variants: keys may be added under verification; the entry loses
\* the attribute the class declares.
RegisterPkeysUnfrozen(t, f) ==
  /\ Registered(t)
  /\ Publish(tabl[t], [At(t) EXCEPT !.pkeys = @ \cup {f},
                                    !.pkeyAttrs = @ \cup ({f} \cap At(t).attrs)])
  /\ UNCHANGED auto

RegisterPkeysBare(t, f) ==
  /\ Registered(t) /\ ~At(t).verifyOn
  /\ Publish(tabl[t], [At(t) EXCEPT !.pkeys = @ \cup {f},
                                    !.pkeyAttrs = @ \ {f}])
  /\ UNCHANGED auto

\* Writes HashPkeys alone: neither ListPkeys nor a check that f is a
\* registered column, or that it is not secret.
RegisterPkeys(t, f) ==
  /\ f \notin Dash
  /\ \/ ~Registered(t) /\ Refuse
     \/ /\ Registered(t)
        /\ LET s == At(t) IN
           Finish(~s.verifyOn, tabl[t],
                  [s EXCEPT !.pkeys = @ \cup {f},
                            !.pkeyAttrs = IF f \in s.attrs THEN @ \cup {f}
                                          ELSE @ \ {f}])
  /\ UNCHANGED auto

-----------------------------------------------------------------------------
(* Chained registration, called on a handle: any snapshot a caller was     *)
(* given, published or superseded.  updateSnapshot uses nothing of the     *)
(* handle but its table name, and starts from the snapshot that name finds *)
(* now (it would fall back on the handle if the name were gone, which      *)
(* HandlesRegistered excludes): so the calls are on the name of a handle's *)
(* table.                                                                  *)

Handle == 1 .. top

MayAddKeys(s, F) ==
  ~s.verifyOn /\ F \subseteq s.fields \ (s.secret \cup Marker)

\* Adds the columns that are not keys yet, each with its own field entry.
WithKeys(s, F) ==
  LET new == F \ s.pkeys IN
  [s EXCEPT !.pkeys = @ \cup new, !.listPkeys = @ \cup new,
            !.pkeyAttrs = @ \cup (new \cap s.attrs)]

SetKeys(t, F) ==
  /\ Registered(t)
  /\ Finish(MayAddKeys(At(t), F), tabl[t], WithKeys(At(t), F))
  /\ UNCHANGED auto

MaySetSecret(s, F) == F \subseteq s.fields \ s.pkeys

\* Faulty variant: the copies in ListField are not marked.
WithSecretsUnlisted(s, F) ==
  [s EXCEPT !.secret = @ \cup F, !.colSecret = @ \cup F,
            !.secretOn = @ \/ F # {}]

WithSecrets(s, F) ==
  [s EXCEPT !.secret = @ \cup F, !.colSecret = @ \cup F,
            !.listSecret = @ \cup (F \cap s.list),
            !.secretOn = @ \/ F # {}]

SetSecret(t, F) ==
  /\ Registered(t)
  /\ Finish(MaySetSecret(At(t), F), tabl[t], WithSecrets(At(t), F))
  /\ UNCHANGED auto

\* Faulty variant: the clone is made of the handle and not of what its table
\* name finds now.
SetModuleOfHandle(t) ==
  /\ \E h \in Handle : snap[h].table = t /\ Finish(TRUE, tabl[t], snap[h])
  /\ UNCHANGED auto

\* ModuleBy is data the engine never reads.
SetModule(t) ==
  /\ Registered(t)
  /\ Finish(TRUE, tabl[t], At(t))
  /\ UNCHANGED auto

\* Faulty variant: the MAC column may be a key.
MacColumnMayBeKey(s, m) ==
  /\ m \in s.attrs \ ReadOnlyOf(s)
  /\ s.class # NoClass => m \in Decl[s.class].text

\* A class-less table has no attribute, so the kind tests concern classes.
MacColumnOK(s, m) ==
  /\ m \in s.attrs \ (ReadOnlyOf(s) \cup s.pkeys)
  /\ s.class # NoClass => m \in Decl[s.class].text

ProtectedOK(s, m, F) ==
  /\ F # {}
  /\ F \subseteq s.attrs \ {m}
  /\ s.class # NoClass => F \subseteq Decl[s.class].scalar

\* Unless VerifyUnkeyed, the MAC has to cover the whole primary key.
RowBound(s, F) == s.unkeyed \/ (s.pkeys # {} /\ s.pkeys \subseteq F)

MayVerify(s, m, F) ==
  MacColumnOK(s, m) /\ ProtectedOK(s, m, F) /\ RowBound(s, F)

SetVerify(t, m, F) ==
  /\ Registered(t)
  /\ Finish(MayVerify(At(t), m, F), tabl[t],
            [At(t) EXCEPT !.verifyOn = TRUE, !.verifyAt = m, !.colVerify = F])
  /\ UNCHANGED auto

\* The caller sets the exported field on the snapshot it holds, in place.
SetVerifyUnkeyed(h) ==
  /\ snap' = [snap EXCEPT ![h].unkeyed = TRUE]
  /\ UNCHANGED <<top, tabl, auto>>

-----------------------------------------------------------------------------
(* AutoKeys. *)

\* Before the lock: the receiver is tested, the database answers with the
\* key columns D, and they are tested against the receiver.
MayFetchKeys(s, D) ==
  ~s.verifyOn /\ D # {} /\ D \subseteq s.fields \ s.secret

AutoKeysQuery(w, h, D) ==
  /\ auto[w] = Idle
  /\ \/ /\ MayFetchKeys(snap[h], D)
        /\ auto' = [auto EXCEPT ![w] = [table |-> snap[h].table, cols |-> D]]
     \/ ~MayFetchKeys(snap[h], D) /\ UNCHANGED auto
  /\ UNCHANGED <<snap, top, tabl>>

\* Faulty variant: what was tested before the lock is trusted under it.
MayPublishKeysUnchecked(s, D) == D \subseteq s.fields

\* Under the lock: tested again, but not for secret columns, and published.
MayPublishKeys(s, D) == ~s.verifyOn /\ D \subseteq s.fields

AutoKeysPublish(w) ==
  /\ auto[w] # Idle
  /\ LET s == At(auto[w].table)
         D == auto[w].cols IN
     Finish(MayPublishKeys(s, D), tabl[auto[w].table], WithKeys(s, D))
  /\ auto' = [auto EXCEPT ![w] = Idle]

-----------------------------------------------------------------------------
(* Preparation of SQL. *)

\* Rebuilds both lists without readonly columns; a column that was listed
\* keeps its list entry, the others are copied from HashField.
PrepareTables(t) ==
  LET s == At(t)
      cols == s.fields \ ReadOnlyOf(s) IN
  /\ Registered(t)
  /\ Finish(TRUE, tabl[t],
            [s EXCEPT !.list = cols,
                      !.listSecret = cols \cap (@ \cup (s.secret \ s.list)),
                      !.listPkeys = s.pkeys \ (s.pkeyAttrs \cap ReadOnlyOf(s))])
  /\ UNCHANGED auto

\* Only the text kept in SqlSelect .. SqlDelete changes; an update without
\* a settable column and a delete without a key are refused.
PrepareRunSQL(t, q) ==
  LET s == At(t) IN
  /\ Registered(t)
  /\ Finish(/\ q = "EtUpdate" => ~(s.fields \subseteq ReadOnlyOf(s) \cup s.pkeys)
            /\ q = "EtDelete" => s.pkeys # {},
            tabl[t], s)
  /\ UNCHANGED auto

-----------------------------------------------------------------------------
Init ==
  /\ snap = [i \in SnapId |-> ManualTable(CHOOSE t \in Table : TRUE)]
  /\ top = 0
  /\ tabl = [k \in Key |-> Absent]
  /\ auto = [w \in Worker |-> Idle]

RegisterNext ==
  \E t \in Table :
    \/ \E c \in Class, force \in BOOLEAN : RegisterClass(c, t, force)
    \/ RegisterTable(t)
    \/ \E f \in Column : RegisterField(t, f) \/ RegisterPkeys(t, f)
    \/ PrepareTables(t)
    \/ \E q \in QueryType : PrepareRunSQL(t, q)

ChainNext ==
  \/ \E t \in Table :
       \/ \E F \in Lists : SetKeys(t, F) \/ SetSecret(t, F)
       \/ SetModule(t)
       \/ \E m \in Column, F \in Lists : SetVerify(t, m, F)
  \/ \E h \in Handle : SetVerifyUnkeyed(h)

AutoNext ==
  \E w \in Worker :
    \/ \E h \in Handle, D \in Lists : AutoKeysQuery(w, h, D)
    \/ AutoKeysPublish(w)

Next == RegisterNext \/ ChainNext \/ AutoNext

Spec == Init /\ [][Next]_vars
-----------------------------------------------------------------------------
(* What makes the registry correct. *)

\* A table key finds a snapshot of that table, a class key a snapshot of a
\* class of that name whose table is registered too (the pair of keys
\* RegisterClass writes and publishTableMetadata has to keep together).
KeysPointHome ==
  \A k \in Key : Registered(k) =>
    IF k \in Table THEN At(k).table = k
    ELSE /\ At(k).class # NoClass /\ ClassKey[At(k).class] = k
         /\ Registered(At(k).table)

\* A class snapshot found by its table name is the very one found by its
\* class name: a chain started from either key is seen through both.
OwnerAgrees ==
  \A t \in Table : Registered(t) /\ At(t).class # NoClass =>
    tabl[ClassKey[At(t).class]] = tabl[t]

\* The table of a handle, and the one AutoKeys is about to write, are never
\* unregistered.
HandlesRegistered ==
  /\ \A i \in 1 .. top : Registered(snap[i].table)
  /\ \A w \in Worker : auto[w] # Idle =>
       auto[w].table \in Table /\ Registered(auto[w].table)

\* The registry as a whole: every key finds what it names, both keys of a
\* class find one snapshot, and no handle outlives its table's registration.
RegistryConsistent == KeysPointHome /\ OwnerAgrees /\ HandlesRegistered

\* Every type has a name of its own.
NamesDistinct == \A c, d \in Class : ClassKey[c] = ClassKey[d] => c = d

\* When no two types share a name, no sequence of calls brings the registry
\* into a state RegisterClass reports as ErrRegistryInconsistent.
NeverInconsistent ==
  NamesDistinct =>
    \A c \in Class, t \in Table, force \in BOOLEAN :
      CheckClass(c, t, force) # "ErrRegistryInconsistent"

Covered(s) ==
  s.verifyOn /\ ~s.unkeyed => s.pkeys # {} /\ s.pkeys \subseteq s.colVerify

\* Whatever the order of registration, a MAC covers the whole primary key
\* unless the caller opted out, on every snapshot any reader may hold.
PkeysCovered == \A i \in 1 .. top : Covered(snap[i])

MacSound(s) ==
  s.verifyOn =>
    /\ s.class # NoClass => s.verifyAt \in Decl[s.class].text
    /\ s.verifyAt \in s.attrs \ (s.pkeys \cup s.colVerify \cup ReadOnlyOf(s))

\* The MAC column is never a key, never covered by itself, and a writable
\* string attribute of the class, whatever was registered after SetVerify.
MacColumnSound == \A i \in 1 .. top : MacSound(snap[i])

MarksAgree(s) ==
  /\ s.secret \cap s.attrs = s.colSecret \cap s.attrs
  /\ s.listSecret \cap s.attrs = s.secret \cap s.attrs \cap s.list
  /\ s.secret # {} => s.secretOn

\* The three places where a column of the class is marked secret agree on
\* every snapshot: HashField, its copy in ListField, and ColSecret.
SecretMarksAgree == \A i \in 1 .. top : MarksAgree(snap[i])

Locatable(s) == s.pkeyAttrs = s.pkeys \cap s.attrs

\* A key column that is mapped to an attribute is mapped in HashPkeys too,
\* whichever call registered it: Update and Delete drop unmapped keys from
\* their WHERE, and would then hit more rows than the key names.
PkeysLocatable == \A i \in 1 .. top : Locatable(snap[i])

\* A snapshot, once published, is never written again by the engine (the
\* opt-out is the caller's own write): readers hold it without a lock.
SnapshotsImmutable ==
  [][\A i \in 1 .. top :
       snap'[i] = [snap[i] EXCEPT !.unkeyed = snap'[i].unkeyed]]_vars

\* While a key stays under verification its primary key does not change.
PkeysFrozen ==
  [][\A k \in Key :
       Registered(k) /\ At(k).verifyOn /\ At(k)'.verifyOn
         => At(k)'.pkeys = At(k).pkeys]_vars

\* No call rebinds a class to another table or takes its key away.
ClassBound ==
  [][\A k \in Key \ Table :
       Registered(k) => /\ Registered(k)' /\ At(k)'.table = At(k).table
                        /\ At(k)'.class = At(k).class]_vars

\* What is found under each name.
Entries == [k \in {j \in Key : Registered(j)} |-> At(k)]

Catalog == INSTANCE UniCatalog WITH Entry <- Snapshot, entry <- Entries

\* Seen through its names, and whatever handles are about, the registry is a
\* catalog whose steps each change one table under all of its names.
ImplementsCatalog == Catalog!Spec

-----------------------------------------------------------------------------
(* What the comments and the change log say, and the code does not do. *)

\* CHANGELOG: AutoKeys refuses a column marked secreton.
AutoKeysKeepsSecretsApart ==
  [][\A w \in Worker :
       AutoKeysPublish(w) /\ top' # top =>
         auto[w].cols \cap snap'[top'].secret = {}]_vars
=============================================================================
