-------------------------- MODULE UniRegistryProofs --------------------------
(***************************************************************************)
(* Theorems about UniRegistry, for any set of classes, tables and columns. *)
(*                                                                         *)
(* Every operation either leaves the registry alone, replaces a snapshot   *)
(* under all of its keys, or registers a class under its two keys.  The    *)
(* first part of the module says so (StepShape); the invariants are then   *)
(* proved for those three shapes of step and not once per operation.       *)
(***************************************************************************)
EXTENDS UniRegistry, TLAPS

\* What each snapshot of the heap satisfies.
Sound(s) == Covered(s) /\ MacSound(s) /\ MarksAgree(s) /\ Locatable(s)

\* n is a table that some operation may make of s.
Edit(s, n) ==
  /\ n \in Snapshot
  /\ n.table = s.table /\ n.class = s.class
  /\ Sound(s) => Sound(n)
  /\ n.attrs = s.attrs /\ n.unkeyed = s.unkeyed
  /\ s.fields \subseteq n.fields
  /\ s.verifyOn => n.verifyOn /\ n.pkeys = s.pkeys
  /\ n.verifyOn => s.verifyOn \/ s.attrs # {}

\* The step publishes an edit of what table t is found under.
Republishes(t) ==
  \E n \in Snapshot : Edit(BaseOf(t), n) /\ Publish(tabl[t], n)

\* The step writes a fresh snapshot of class c under its two keys.
Rebinds(c, t) ==
  /\ CheckClass(c, t, TRUE) = "ok"
  /\ top < MaxSnap
  /\ top' = top + 1
  /\ snap' = [snap EXCEPT ![top + 1] = ClassTable(c, t)]
  /\ tabl' = [tabl EXCEPT ![t] = top + 1, ![ClassKey[c]] = top + 1]

LEMMA KeyFacts ==
  /\ Table \subseteq Key
  /\ \A c \in Class : ClassKey[c] \in Key /\ ClassKey[c] \notin Table
  /\ \A k \in Key \ Table : \E c \in Class : k = ClassKey[c]
  BY RegistryAssumption DEF Key

LEMMA ManualTableType == ASSUME NEW t \in Table PROVE ManualTable(t) \in Snapshot
  BY DEF ManualTable, Snapshot

LEMMA ClassTableType ==
  ASSUME NEW c \in Class, NEW t \in Table PROVE ClassTable(c, t) \in Snapshot
  BY RegistryAssumption DEF ClassTable, ManualTable, Snapshot, ClassDecl

\* The address of a registered key is allocated.
LEMMA RegisteredType ==
  ASSUME TypeOK, NEW k \in Key, Registered(k)
  PROVE  tabl[k] \in 1 .. top /\ tabl[k] \in SnapId /\ At(k) \in Snapshot
  BY RegistryAssumption DEF TypeOK, Registered, Absent, SnapId, At

LEMMA PublishType ==
  ASSUME TypeOK, NEW old, NEW next \in Snapshot, Publish(old, next)
  PROVE  /\ snap' \in [SnapId -> Snapshot]
         /\ top' \in 0 .. MaxSnap
         /\ tabl' \in [Key -> 0 .. top']
  <1>1. top + 1 \in SnapId /\ top' = top + 1 /\ top \in Nat
    BY RegistryAssumption DEF TypeOK, Publish, SnapId
  <1>2. snap' \in [SnapId -> Snapshot]
    BY <1>1 DEF TypeOK, Publish
  <1>3. \A k \in Key : tabl[k] \in 0 .. top'
    BY <1>1 DEF TypeOK
  <1>4. tabl' \in [Key -> 0 .. top']
    BY <1>1, <1>3 DEF Publish
  <1>5. QED BY <1>1, <1>2, <1>4, RegistryAssumption DEF SnapId

-----------------------------------------------------------------------------
(* The operations on one snapshot. *)

\* RegisterTable, SetModule and PrepareRunSQL change nothing modelled.
LEMMA EditNothing == ASSUME NEW s \in Snapshot PROVE Edit(s, s)
  BY DEF Edit

LEMMA EditField ==
  ASSUME NEW s \in Snapshot, NEW f \in Column
  PROVE  Edit(s, [s EXCEPT !.fields = @ \cup {f},
                           !.secret = IF f \in s.attrs THEN @ ELSE @ \ {f}])
  <1> DEFINE n == [s EXCEPT !.fields = @ \cup {f},
                            !.secret = IF f \in s.attrs THEN @ ELSE @ \ {f}]
  <1>1. n \in Snapshot
    BY DEF Snapshot
  <1>2. Sound(s) => Sound(n)
    BY DEF Snapshot, Sound, Covered, MacSound, MarksAgree, Locatable, ReadOnlyOf
  <1>3. QED BY <1>1, <1>2 DEF Edit, Snapshot

LEMMA EditPkeys ==
  ASSUME NEW s \in Snapshot, NEW f \in Column, ~s.verifyOn
  PROVE  Edit(s, [s EXCEPT !.pkeys = @ \cup {f},
                           !.pkeyAttrs = IF f \in s.attrs THEN @ \cup {f}
                                         ELSE @ \ {f}])
  <1> DEFINE n == [s EXCEPT !.pkeys = @ \cup {f},
                            !.pkeyAttrs = IF f \in s.attrs THEN @ \cup {f}
                                          ELSE @ \ {f}]
  <1>1. n \in Snapshot
    BY DEF Snapshot
  <1>2. Sound(s) => Sound(n)
    BY DEF Snapshot, Sound, Covered, MacSound, MarksAgree, Locatable, ReadOnlyOf
  <1>3. QED BY <1>1, <1>2 DEF Edit, Snapshot

LEMMA EditKeys ==
  ASSUME NEW s \in Snapshot, NEW F \in SUBSET Column, ~s.verifyOn
  PROVE  Edit(s, WithKeys(s, F))
  <1>1. WithKeys(s, F) \in Snapshot
    BY DEF Snapshot, WithKeys
  <1>2. Sound(s) => Sound(WithKeys(s, F))
    BY DEF Snapshot, Sound, Covered, MacSound, MarksAgree, Locatable,
           ReadOnlyOf, WithKeys
  <1>3. QED BY <1>1, <1>2 DEF Edit, Snapshot, WithKeys

LEMMA EditSecrets ==
  ASSUME NEW s \in Snapshot, NEW F \in SUBSET Column
  PROVE  Edit(s, WithSecrets(s, F))
  <1>1. WithSecrets(s, F) \in Snapshot
    BY DEF Snapshot, WithSecrets
  <1>2. Sound(s) => Sound(WithSecrets(s, F))
    BY DEF Snapshot, Sound, Covered, MacSound, MarksAgree, Locatable,
           ReadOnlyOf, WithSecrets
  <1>3. QED BY <1>1, <1>2 DEF Edit, Snapshot, WithSecrets

LEMMA EditVerify ==
  ASSUME NEW s \in Snapshot, NEW m \in Column, NEW F \in SUBSET Column,
         MayVerify(s, m, F)
  PROVE  Edit(s, [s EXCEPT !.verifyOn = TRUE, !.verifyAt = m, !.colVerify = F])
  <1> DEFINE n == [s EXCEPT !.verifyOn = TRUE, !.verifyAt = m, !.colVerify = F]
  <1>1. n \in Snapshot
    BY DEF Snapshot
  <1>2. Sound(s) => Sound(n)
    BY DEF Snapshot, Sound, Covered, MacSound, MarksAgree, Locatable, ReadOnlyOf,
           MayVerify, MacColumnOK, ProtectedOK, RowBound
  <1>3. s.attrs # {}
    BY DEF MayVerify, MacColumnOK
  <1>4. QED BY <1>1, <1>2, <1>3 DEF Edit, Snapshot

LEMMA EditLists ==
  ASSUME NEW s \in Snapshot, NEW cols \in SUBSET Column,
         NEW listed \in SUBSET Column
  PROVE  Edit(s, [s EXCEPT !.list = cols,
                           !.listSecret = cols \cap (@ \cup (s.secret \ s.list)),
                           !.listPkeys = listed])
  <1> DEFINE n == [s EXCEPT !.list = cols,
                            !.listSecret = cols \cap (@ \cup (s.secret \ s.list)),
                            !.listPkeys = listed]
  <1>1. n \in Snapshot
    BY DEF Snapshot
  <1>2. Sound(s) => Sound(n)
    BY DEF Snapshot, Sound, Covered, MacSound, MarksAgree, Locatable, ReadOnlyOf
  <1>3. QED BY <1>1, <1>2 DEF Edit, Snapshot

-----------------------------------------------------------------------------
(* The shapes of a step. *)

\* The opt-out flag of a handle is set by its holder.
OptsOut(h) ==
  snap' = [snap EXCEPT ![h].unkeyed = TRUE] /\ UNCHANGED <<top, tabl>>

Shape ==
  \/ UNCHANGED <<snap, top, tabl>>
  \/ \E t \in Table : Republishes(t)
  \/ \E c \in Class, t \in Table : Rebinds(c, t)
  \/ \E h \in Handle : OptsOut(h)

LEMMA BaseType ==
  ASSUME TypeOK, NEW t \in Table PROVE BaseOf(t) \in Snapshot
  BY ManualTableType, RegisteredType, KeyFacts DEF BaseOf

LEMMA RegisterShape ==
  ASSUME TypeOK, RegisterNext PROVE Shape
<1> USE DEF Republishes, Shape, Refuse, Finish
<1>1. PICK t \in Table :
        \/ \E c \in Class, force \in BOOLEAN : RegisterClass(c, t, force)
        \/ RegisterTable(t)
        \/ \E f \in Column : RegisterField(t, f) \/ RegisterPkeys(t, f)
        \/ PrepareTables(t)
        \/ \E q \in QueryType : PrepareRunSQL(t, q)
  BY DEF RegisterNext
<1> DEFINE s == BaseOf(t)
<1>2. s \in Snapshot
  BY BaseType
<1>3. Registered(t) => At(t) = s
  BY DEF BaseOf
<1>4. ASSUME NEW c \in Class, NEW force \in BOOLEAN, RegisterClass(c, t, force)
      PROVE  Shape
  <2>1. CheckClass(c, t, force) = "ok" => CheckClass(c, t, TRUE) = "ok"
    BY DEF CheckClass
  <2>2. QED BY <1>4, <2>1 DEF RegisterClass, Rebinds
<1>5. CASE RegisterTable(t)
  BY <1>2, <1>5, EditNothing DEF RegisterTable
<1>6. ASSUME NEW f \in Column, RegisterField(t, f) PROVE Shape
  <2> DEFINE n == [s EXCEPT !.fields = @ \cup {f},
                            !.secret = IF f \in s.attrs THEN @ ELSE @ \ {f}]
  <2>1. Edit(s, n)
    BY <1>2, EditField
  <2>2. Publish(tabl[t], n)
    BY <1>6 DEF RegisterField
  <2>3. n \in Snapshot BY <2>1 DEF Edit
  <2>4. QED BY <2>1, <2>2, <2>3
<1>7. ASSUME NEW f \in Column, RegisterPkeys(t, f) PROVE Shape
  <2> DEFINE n == [s EXCEPT !.pkeys = @ \cup {f},
                            !.pkeyAttrs = IF f \in s.attrs THEN @ \cup {f}
                                          ELSE @ \ {f}]
  <2>1. \/ UNCHANGED <<snap, top, tabl>>
        \/ ~s.verifyOn /\ Publish(tabl[t], n)
    BY <1>3, <1>7 DEF RegisterPkeys
  <2>2. ~s.verifyOn => Edit(s, n) /\ n \in Snapshot
    BY <1>2, EditPkeys DEF Edit
  <2>3. QED BY <2>1, <2>2
<1>8. CASE PrepareTables(t)
  <2> DEFINE cols == s.fields \ ReadOnlyOf(s)
             listed == s.pkeys \ (s.pkeyAttrs \cap ReadOnlyOf(s))
             n == [s EXCEPT !.list = cols,
                            !.listSecret = cols \cap (@ \cup (s.secret \ s.list)),
                            !.listPkeys = listed]
  <2>1. Publish(tabl[t], n)
    BY <1>3, <1>8 DEF PrepareTables
  <2>2. cols \in SUBSET Column /\ listed \in SUBSET Column
    BY <1>2 DEF Snapshot
  <2>3. Edit(s, n)
    <3> HIDE DEF cols, listed
    <3> QED BY <1>2, <2>2, EditLists
  <2>4. n \in Snapshot BY <2>3 DEF Edit
  <2>5. QED BY <2>1, <2>3, <2>4
<1>9. ASSUME NEW q \in QueryType, PrepareRunSQL(t, q) PROVE Shape
  BY <1>2, <1>3, <1>9, EditNothing DEF PrepareRunSQL
<1>10. QED BY <1>1, <1>4, <1>5, <1>6, <1>7, <1>8, <1>9

LEMMA ChainShape ==
  ASSUME TypeOK, ChainNext PROVE Shape
<1> USE DEF Republishes, Shape, Refuse, Finish
<1>1. CASE \E h \in Handle : SetVerifyUnkeyed(h)
  BY <1>1 DEF SetVerifyUnkeyed, OptsOut
<1>2. ASSUME NEW t \in Table,
             \/ \E F \in Lists : SetKeys(t, F) \/ SetSecret(t, F)
             \/ SetModule(t)
             \/ \E m \in Column, F \in Lists : SetVerify(t, m, F)
      PROVE  Shape
  <2> DEFINE s == BaseOf(t)
  <2>1. s \in Snapshot /\ (Registered(t) => At(t) = s)
    BY BaseType DEF BaseOf
  <2>2. ASSUME NEW F \in Lists, SetKeys(t, F) PROVE Shape
    <3>1. \/ UNCHANGED <<snap, top, tabl>>
          \/ ~s.verifyOn /\ Publish(tabl[t], WithKeys(s, F))
      BY <2>1, <2>2 DEF SetKeys, MayAddKeys
    <3>2. ~s.verifyOn => Edit(s, WithKeys(s, F)) /\ WithKeys(s, F) \in Snapshot
      BY <2>1, EditKeys, RegistryAssumption DEF Edit
    <3>3. QED BY <3>1, <3>2
  <2>3. ASSUME NEW F \in Lists, SetSecret(t, F) PROVE Shape
    <3>1. \/ UNCHANGED <<snap, top, tabl>>
          \/ Publish(tabl[t], WithSecrets(s, F))
      BY <2>1, <2>3 DEF SetSecret
    <3>2. Edit(s, WithSecrets(s, F)) /\ WithSecrets(s, F) \in Snapshot
      BY <2>1, EditSecrets, RegistryAssumption DEF Edit
    <3>3. QED BY <3>1, <3>2
  <2>4. CASE SetModule(t)
    BY <2>1, <2>4, EditNothing DEF SetModule
  <2>5. ASSUME NEW m \in Column, NEW F \in Lists, SetVerify(t, m, F)
        PROVE  Shape
    <3> DEFINE n == [s EXCEPT !.verifyOn = TRUE, !.verifyAt = m, !.colVerify = F]
    <3>1. \/ UNCHANGED <<snap, top, tabl>>
          \/ MayVerify(s, m, F) /\ Publish(tabl[t], n)
      BY <2>1, <2>5 DEF SetVerify
    <3>2. F \in SUBSET Column
      BY RegistryAssumption
    <3>3. MayVerify(s, m, F) => Edit(s, n)
      <4> HIDE DEF s
      <4> QED BY <2>1, <3>2, EditVerify
    <3>4. Edit(s, n) => n \in Snapshot
      BY DEF Edit
    <3>5. QED BY <3>1, <3>3, <3>4
  <2>6. QED BY <1>2, <2>2, <2>3, <2>4, <2>5
<1>3. QED BY <1>1, <1>2 DEF ChainNext

LEMMA AutoShape ==
  ASSUME TypeOK, HandlesRegistered, AutoNext PROVE Shape
<1> USE DEF Republishes, Shape, Refuse, Finish
<1>1. ASSUME NEW w \in Worker, AutoKeysPublish(w) PROVE Shape
  <2> DEFINE t == auto[w].table
             D == auto[w].cols
             s == BaseOf(t)
  <2>1. t \in Table /\ Registered(t) /\ D \in SUBSET Column
    BY <1>1 DEF AutoKeysPublish, HandlesRegistered, TypeOK
  <2>2. s \in Snapshot /\ At(t) = s
    BY <2>1, BaseType DEF BaseOf
  <2>3. \/ UNCHANGED <<snap, top, tabl>>
        \/ ~s.verifyOn /\ Publish(tabl[t], WithKeys(s, D))
    BY <1>1, <2>2 DEF AutoKeysPublish, MayPublishKeys
  <2>4. ~s.verifyOn => Edit(s, WithKeys(s, D)) /\ WithKeys(s, D) \in Snapshot
    BY <2>1, <2>2, EditKeys DEF Edit
  <2>5. QED BY <2>1, <2>3, <2>4
<1>2. ASSUME NEW w \in Worker, NEW h \in Handle, NEW D \in Lists,
             AutoKeysQuery(w, h, D)
      PROVE  Shape
  BY <1>2 DEF AutoKeysQuery
<1>3. QED BY <1>1, <1>2 DEF AutoNext

\* Every step has one of the four shapes.
LEMMA StepShape ==
  ASSUME TypeOK, HandlesRegistered, [Next]_vars PROVE Shape
<1>1. CASE UNCHANGED vars
  BY <1>1 DEF vars, Shape
<1>2. QED BY <1>1, RegisterShape, ChainShape, AutoShape DEF Next
-----------------------------------------------------------------------------
(* The inductive invariant. *)

HeapSound == \A i \in 1 .. top : Sound(snap[i])

IInv == TypeOK /\ RegistryConsistent /\ HeapSound

\* Where the keys point after each shape of step, as the proofs use it.
LEMMA RepublishFacts ==
  ASSUME TypeOK, NEW t \in Table, NEW n \in Snapshot,
         Edit(BaseOf(t), n), Publish(tabl[t], n), KeysPointHome
  PROVE  /\ n.table = t
         /\ top' = top + 1 /\ top + 1 \in SnapId
         /\ snap'[top + 1] = n
         /\ \A i \in 1 .. top : snap'[i] = snap[i]
         /\ \A k \in Key : \/ /\ tabl'[k] = top + 1
                              /\ k = t \/ (Registered(t) /\ tabl[k] = tabl[t])
                           \/ /\ tabl'[k] = tabl[k]
                              /\ k # t
                              /\ Registered(t) => tabl[k] # tabl[t]
<1>1. t \in Key
  BY KeyFacts
<1>2. n.table = t
  BY <1>1 DEF Edit, BaseOf, ManualTable, KeysPointHome
<1>3. top' = top + 1 /\ top + 1 \in SnapId
  BY RegistryAssumption DEF TypeOK, Publish, SnapId
<1>4. /\ snap'[top + 1] = n
      /\ \A i \in 1 .. top : snap'[i] = snap[i]
  BY <1>3, RegistryAssumption DEF TypeOK, Publish, SnapId
<1>5. QED BY <1>2, <1>3, <1>4 DEF Publish, Registered

LEMMA RebindFacts ==
  ASSUME TypeOK, NEW c \in Class, NEW t \in Table, Rebinds(c, t)
  PROVE  /\ top' = top + 1 /\ top + 1 \in SnapId
         /\ snap'[top + 1] = ClassTable(c, t)
         /\ \A i \in 1 .. top : snap'[i] = snap[i]
         /\ tabl'[t] = top + 1 /\ tabl'[ClassKey[c]] = top + 1
         /\ \A k \in Key \ {t, ClassKey[c]} : tabl'[k] = tabl[k]
<1>1. t \in Key /\ ClassKey[c] \in Key /\ ClassKey[c] # t
  BY KeyFacts
<1>2. top' = top + 1 /\ top + 1 \in SnapId
  BY RegistryAssumption DEF TypeOK, Rebinds, SnapId
<1>3. /\ snap'[top + 1] = ClassTable(c, t)
      /\ \A i \in 1 .. top : snap'[i] = snap[i]
  BY <1>2, RegistryAssumption DEF TypeOK, Rebinds, SnapId
<1>4. QED BY <1>1, <1>2, <1>3 DEF TypeOK, Rebinds

\* What CheckClass has established when it returns nil.
LEMMA CheckFacts ==
  ASSUME NEW c \in Class, NEW t \in Table, CheckClass(c, t, TRUE) = "ok"
  PROVE  Registered(ClassKey[c]) =>
           /\ At(ClassKey[c]).class = c /\ At(ClassKey[c]).table = t
           /\ Registered(t)
  BY DEF CheckClass

LEMMA OptFacts ==
  ASSUME TypeOK, NEW h \in Handle, OptsOut(h)
  PROVE  /\ tabl' = tabl /\ top' = top
         /\ snap' \in [SnapId -> Snapshot]
         /\ \A i \in 1 .. top :
              /\ snap'[i] = [snap[i] EXCEPT !.unkeyed = snap'[i].unkeyed]
              /\ Sound(snap[i]) => Sound(snap'[i])
<1>1. tabl' = tabl /\ top' = top
  BY DEF OptsOut
<1>2. h \in SnapId /\ snap[h] \in Snapshot
  BY RegistryAssumption DEF TypeOK, Handle, SnapId
<1>3. ASSUME NEW i \in 1 .. top
      PROVE  /\ snap'[i] = [snap[i] EXCEPT !.unkeyed = snap'[i].unkeyed]
             /\ Sound(snap[i]) => Sound(snap'[i])
  <2>1. i \in SnapId /\ snap[i] \in Snapshot
    BY RegistryAssumption DEF TypeOK, SnapId
  <2>2. CASE i = h
    <3>1. snap'[i] = [snap[i] EXCEPT !.unkeyed = TRUE]
      BY <2>1, <2>2 DEF OptsOut, TypeOK
    <3>2. Sound(snap[i]) => Sound([snap[i] EXCEPT !.unkeyed = TRUE])
      BY <2>1 DEF Snapshot, Sound, Covered, MacSound, MarksAgree, Locatable,
                  ReadOnlyOf
    <3>3. QED BY <2>1, <3>1, <3>2 DEF Snapshot
  <2>3. CASE i # h
    BY <2>1, <2>3 DEF OptsOut, TypeOK, Snapshot
  <2>4. QED BY <2>2, <2>3
<1>4. snap' \in [SnapId -> Snapshot]
  <2>1. [snap[h] EXCEPT !.unkeyed = TRUE] \in Snapshot
    BY <1>2 DEF Snapshot
  <2>2. QED BY <2>1 DEF OptsOut, TypeOK
<1>5. QED BY <1>1, <1>3, <1>4

-----------------------------------------------------------------------------
(* Types. *)

LEMMA HeapType ==
  ASSUME TypeOK, Shape
  PROVE  /\ snap' \in [SnapId -> Snapshot]
         /\ top' \in 0 .. MaxSnap
         /\ tabl' \in [Key -> 0 .. top']
<1>1. CASE UNCHANGED <<snap, top, tabl>>
  BY <1>1 DEF TypeOK
<1>2. ASSUME NEW t \in Table, Republishes(t)
      PROVE  /\ snap' \in [SnapId -> Snapshot]
             /\ top' \in 0 .. MaxSnap
             /\ tabl' \in [Key -> 0 .. top']
  BY <1>2, PublishType DEF Republishes
<1>3. ASSUME NEW c \in Class, NEW t \in Table, Rebinds(c, t)
      PROVE  /\ snap' \in [SnapId -> Snapshot]
             /\ top' \in 0 .. MaxSnap
             /\ tabl' \in [Key -> 0 .. top']
  <2>1. top' = top + 1 /\ top + 1 \in SnapId
    BY <1>3, RebindFacts
  <2>2. snap' \in [SnapId -> Snapshot]
    BY <1>3, ClassTableType DEF TypeOK, Rebinds
  <2>3. \A k \in Key : tabl[k] \in 0 .. top'
    BY <2>1 DEF TypeOK
  <2>4. tabl' \in [Key -> 0 .. top']
    <3>1. tabl' = [tabl EXCEPT ![t] = top', ![ClassKey[c]] = top']
      BY <1>3 DEF Rebinds
    <3>2. top' \in 0 .. top' /\ tabl \in [Key -> 0 .. top']
      BY <2>1, <2>3 DEF TypeOK, SnapId
    <3>3. QED BY <3>1, <3>2
  <2>5. QED BY <2>1, <2>2, <2>4, RegistryAssumption DEF SnapId
<1>4. ASSUME NEW h \in Handle, OptsOut(h)
      PROVE  /\ snap' \in [SnapId -> Snapshot]
             /\ top' \in 0 .. MaxSnap
             /\ tabl' \in [Key -> 0 .. top']
  BY <1>4, OptFacts DEF TypeOK
<1>5. QED BY <1>1, <1>2, <1>3, <1>4 DEF Shape

\* What AutoKeys has read is a table of a handle and a list of columns.
LEMMA AutoType ==
  ASSUME TypeOK, HandlesRegistered, [Next]_vars
  PROVE  /\ auto' \in [Worker -> [table : Table \cup {NoTable},
                                  cols : SUBSET Column]]
         /\ \A w \in Worker : auto'[w] # Idle =>
              auto'[w].table \in Table /\ Registered(auto'[w].table)
<1>1. CASE UNCHANGED auto
  BY <1>1 DEF TypeOK, HandlesRegistered
<1>2. ASSUME NEW w \in Worker, NEW h \in Handle, NEW D \in Lists,
             auto' = [auto EXCEPT ![w] = [table |-> snap[h].table, cols |-> D]]
      PROVE  /\ auto' \in [Worker -> [table : Table \cup {NoTable},
                                      cols : SUBSET Column]]
             /\ \A v \in Worker : auto'[v] # Idle =>
                  auto'[v].table \in Table /\ Registered(auto'[v].table)
  <2>1. snap[h].table \in Table /\ Registered(snap[h].table)
    BY RegistryAssumption DEF TypeOK, HandlesRegistered, Handle, SnapId, Snapshot
  <2>2. D \in SUBSET Column
    BY RegistryAssumption
  <2>3. QED BY <1>2, <2>1, <2>2 DEF TypeOK, HandlesRegistered
<1>3. ASSUME NEW w \in Worker, auto' = [auto EXCEPT ![w] = Idle]
      PROVE  /\ auto' \in [Worker -> [table : Table \cup {NoTable},
                                      cols : SUBSET Column]]
             /\ \A v \in Worker : auto'[v] # Idle =>
                  auto'[v].table \in Table /\ Registered(auto'[v].table)
  BY <1>3 DEF TypeOK, HandlesRegistered, Idle
<1>4. CASE UNCHANGED vars
  BY <1>1, <1>4 DEF vars
<1>5. CASE RegisterNext
  BY <1>1, <1>5 DEF RegisterNext, RegisterClass, RegisterTable, RegisterField,
     RegisterPkeys, PrepareTables, PrepareRunSQL
<1>6. CASE ChainNext
  BY <1>1, <1>6 DEF ChainNext, SetKeys, SetSecret, SetModule, SetVerify,
     SetVerifyUnkeyed
<1>7. CASE AutoNext
  BY <1>1, <1>2, <1>3, <1>7 DEF AutoNext, AutoKeysQuery, AutoKeysPublish
<1>8. QED BY <1>4, <1>5, <1>6, <1>7 DEF Next

LEMMA TypeStep ==
  ASSUME TypeOK, HandlesRegistered, [Next]_vars PROVE TypeOK'
  BY StepShape, HeapType, AutoType DEF TypeOK

-----------------------------------------------------------------------------
(* Consistency of the keys. *)

\* Keys stay registered.
LEMMA KeysStay ==
  ASSUME TypeOK, KeysPointHome, Shape, NEW k \in Key, Registered(k)
  PROVE  Registered(k)'
<1>1. tabl[k] \in 1 .. top
  BY RegisteredType
<1>2. ASSUME NEW t \in Table, Republishes(t) PROVE Registered(k)'
  <2>1. PICK n \in Snapshot : Edit(BaseOf(t), n) /\ Publish(tabl[t], n)
    BY <1>2 DEF Republishes
  <2>2. top + 1 \in SnapId /\ (tabl'[k] = top + 1 \/ tabl'[k] = tabl[k])
    BY <2>1, RepublishFacts
  <2>3. QED BY <1>1, <2>2 DEF Registered, Absent, SnapId
<1>3. ASSUME NEW c \in Class, NEW t \in Table, Rebinds(c, t)
      PROVE  Registered(k)'
  <2>1. top + 1 \in SnapId /\ (tabl'[k] = top + 1 \/ tabl'[k] = tabl[k])
    BY <1>3, RebindFacts
  <2>2. QED BY <1>1, <2>1 DEF Registered, Absent, SnapId
<1>4. ASSUME NEW h \in Handle, OptsOut(h) PROVE Registered(k)'
  BY <1>4 DEF OptsOut, Registered
<1>5. QED BY <1>2, <1>3, <1>4 DEF Shape, Registered

\* Republishing a table keeps the keys consistent: only the keys of its old
\* snapshot move, and they move together.
LEMMA RepublishKeys ==
  ASSUME TypeOK, KeysPointHome, OwnerAgrees,
         NEW t \in Table, NEW n \in Snapshot,
         Edit(BaseOf(t), n), Publish(tabl[t], n)
  PROVE  KeysPointHome' /\ OwnerAgrees'
<1>1. /\ n.table = t
      /\ top' = top + 1 /\ top + 1 \in SnapId
      /\ snap'[top + 1] = n
      /\ \A i \in 1 .. top : snap'[i] = snap[i]
      /\ \A k \in Key : \/ /\ tabl'[k] = top + 1
                           /\ k = t \/ (Registered(t) /\ tabl[k] = tabl[t])
                        \/ /\ tabl'[k] = tabl[k]
                           /\ k # t
                           /\ Registered(t) => tabl[k] # tabl[t]
  BY RepublishFacts
<1>2. Shape
  BY DEF Shape, Republishes
<1>3. t \in Key /\ Registered(t)'
  BY <1>1, KeyFacts DEF Registered, Absent, SnapId
<1>4. n.class = BaseOf(t).class
  BY DEF Edit
<1>5. ASSUME NEW k \in Key, Registered(k)',
             tabl'[k] = top + 1
      PROVE  /\ At(k)' = n
             /\ k # t => Registered(t) /\ tabl[k] = tabl[t] /\ At(k) = BaseOf(t)
  <2>1. At(k)' = n
    BY <1>1, <1>5 DEF At
  <2>2. k = t \/ (Registered(t) /\ tabl[k] = tabl[t])
    <3>1. tabl[k] \in 0 .. top /\ top \in Nat
      BY RegistryAssumption DEF TypeOK
    <3>2. tabl[k] # top + 1
      BY <3>1
    <3>3. QED BY <1>1, <1>5, <3>2
  <2>3. Registered(t) /\ tabl[k] = tabl[t] => At(k) = BaseOf(t)
    BY DEF At, BaseOf
  <2>4. QED BY <2>1, <2>2, <2>3
<1>6. ASSUME NEW k \in Key, Registered(k)', tabl'[k] # top + 1
      PROVE  /\ Registered(k) /\ At(k)' = At(k) /\ tabl'[k] = tabl[k]
             /\ k # t /\ (Registered(t) => tabl[k] # tabl[t])
  <2>1. tabl'[k] = tabl[k] /\ k # t /\ (Registered(t) => tabl[k] # tabl[t])
    BY <1>1, <1>6
  <2>2. Registered(k)
    BY <1>6, <2>1 DEF Registered
  <2>3. At(k)' = At(k)
    BY <1>1, <2>1, <2>2, RegisteredType DEF At
  <2>4. QED BY <2>1, <2>2, <2>3
<1>7. KeysPointHome'
  <2>1. ASSUME NEW k \in Key, Registered(k)', k \in Table
        PROVE  At(k)'.table = k
    <3>1. CASE tabl'[k] = top + 1
      BY <1>1, <1>3, <1>5, <2>1, <3>1 DEF KeysPointHome, BaseOf, At, Registered
    <3>2. CASE tabl'[k] # top + 1
      BY <1>6, <2>1, <3>2 DEF KeysPointHome
    <3>3. QED BY <3>1, <3>2
  <2>2. ASSUME NEW k \in Key, Registered(k)', k \notin Table
        PROVE  /\ At(k)'.class # NoClass /\ ClassKey[At(k)'.class] = k
               /\ Registered(At(k).table)'
    <3>1. CASE tabl'[k] = top + 1
      <4>1. At(k)' = n /\ Registered(k) /\ At(k) = BaseOf(t)
        BY <1>5, <2>2, <3>1 DEF Registered
      <4>2. At(k).class # NoClass /\ ClassKey[At(k).class] = k
        BY <2>2, <4>1 DEF KeysPointHome
      <4>3. QED BY <1>1, <1>3, <1>4, <4>1, <4>2
    <3>2. CASE tabl'[k] # top + 1
      <4>1. Registered(k) /\ At(k)' = At(k)
        BY <1>6, <2>2, <3>2
      <4>2. At(k).class # NoClass /\ ClassKey[At(k).class] = k
            /\ Registered(At(k).table)
        BY <2>2, <4>1 DEF KeysPointHome
      <4>3. At(k).table \in Key
        BY <4>1, RegisteredType, KeyFacts DEF Snapshot
      <4>4. tabl'[At(k).table] # Absent
        BY <1>2, <4>1, <4>2, <4>3, KeysStay DEF Registered
      <4>5. QED BY <4>1, <4>2, <4>4 DEF Registered
    <3>3. QED BY <3>1, <3>2
  <2>3. QED BY <2>1, <2>2 DEF KeysPointHome
<1>8. OwnerAgrees'
  <2>1. ASSUME NEW u \in Table, Registered(u)', At(u)'.class # NoClass
        PROVE  tabl'[ClassKey[At(u)'.class]] = tabl'[u]
    <3>1. CASE tabl'[u] = top + 1
      <4>1. At(u)' = n /\ u = t
        BY <1>5, <2>1, <3>1, KeyFacts DEF KeysPointHome, BaseOf, ManualTable,
           Registered
      <4>2. Registered(t) /\ At(t).class = n.class /\ n.class \in Class
        BY <1>4, <2>1, <4>1 DEF BaseOf, ManualTable, Snapshot
      <4>3. tabl[ClassKey[n.class]] = tabl[t] /\ ClassKey[n.class] \in Key
        BY <2>1, <4>1, <4>2, KeyFacts DEF OwnerAgrees
      <4>4. QED BY <1>1, <3>1, <4>1, <4>2, <4>3
    <3>2. CASE tabl'[u] # top + 1
      <4>1. /\ Registered(u) /\ At(u)' = At(u) /\ tabl'[u] = tabl[u]
            /\ Registered(t) => tabl[u] # tabl[t]
        BY <1>6, <2>1, <3>2, KeyFacts
      <4> DEFINE k == ClassKey[At(u).class]
      <4>2. At(u).class \in Class
        BY <2>1, <4>1, RegisteredType, KeyFacts DEF Snapshot
      <4>3. tabl[k] = tabl[u] /\ k \in Key /\ k # t
        BY <2>1, <4>1, <4>2, KeyFacts DEF OwnerAgrees
      <4>4. tabl'[k] = tabl[k]
        BY <1>1, <4>1, <4>3
      <4>5. QED BY <4>1, <4>3, <4>4
    <3>3. QED BY <3>1, <3>2
  <2>2. QED BY <2>1 DEF OwnerAgrees
<1>9. QED BY <1>7, <1>8

\* Registering a class keeps them consistent: the checks have excluded that
\* its key, or another snapshot's, is left pointing elsewhere.
LEMMA RebindKeys ==
  ASSUME TypeOK, KeysPointHome, OwnerAgrees,
         NEW c \in Class, NEW t \in Table, Rebinds(c, t)
  PROVE  KeysPointHome' /\ OwnerAgrees'
<1> DEFINE ck == ClassKey[c]
<1>1. /\ top' = top + 1 /\ top + 1 \in SnapId
      /\ snap'[top + 1] = ClassTable(c, t)
      /\ \A i \in 1 .. top : snap'[i] = snap[i]
      /\ tabl'[t] = top + 1 /\ tabl'[ck] = top + 1
      /\ \A k \in Key \ {t, ck} : tabl'[k] = tabl[k]
  BY RebindFacts
<1>2. Shape
  BY DEF Shape
<1>3. /\ t \in Key /\ ck \in Key /\ ck \notin Table
      /\ Registered(t)'
      /\ At(t)' = ClassTable(c, t) /\ At(ck)' = ClassTable(c, t)
  BY <1>1, KeyFacts DEF Registered, Absent, SnapId, At
<1>4. ClassTable(c, t).table = t /\ ClassTable(c, t).class = c /\ c # NoClass
  BY RegistryAssumption DEF ClassTable, ManualTable
<1>5. ASSUME NEW k \in Key \ {t, ck}, Registered(k)'
      PROVE  Registered(k) /\ At(k)' = At(k) /\ tabl'[k] = tabl[k]
  <2>1. tabl'[k] = tabl[k]
    BY <1>1
  <2>2. Registered(k)
    BY <1>5, <2>1 DEF Registered
  <2>3. QED BY <1>1, <2>1, <2>2, RegisteredType DEF At
<1>6. Registered(ck) => At(ck).table = t
  BY CheckFacts DEF Rebinds
<1>7. KeysPointHome'
  <2>1. ASSUME NEW k \in Key, Registered(k)', k \in Table
        PROVE  At(k)'.table = k
    BY <1>3, <1>4, <1>5, <2>1 DEF KeysPointHome
  <2>2. ASSUME NEW k \in Key, Registered(k)', k \notin Table
        PROVE  /\ At(k)'.class # NoClass /\ ClassKey[At(k)'.class] = k
               /\ Registered(At(k).table)'
    <3>1. CASE k = ck
      BY <1>3, <1>4, <3>1
    <3>2. CASE k # ck
      <4>1. Registered(k) /\ At(k)' = At(k)
        BY <1>5, <2>2, <3>2
      <4>2. At(k).class # NoClass /\ ClassKey[At(k).class] = k
            /\ Registered(At(k).table)
        BY <2>2, <4>1 DEF KeysPointHome
      <4>3. At(k).table \in Key
        BY <4>1, RegisteredType, KeyFacts DEF Snapshot
      <4>4. tabl'[At(k).table] # Absent
        BY <1>2, <4>1, <4>2, <4>3, KeysStay DEF Registered
      <4>5. QED BY <4>1, <4>2, <4>4 DEF Registered
    <3>3. QED BY <3>1, <3>2
  <2>3. QED BY <2>1, <2>2 DEF KeysPointHome
<1>8. OwnerAgrees'
  <2>1. ASSUME NEW u \in Table, Registered(u)', At(u)'.class # NoClass
        PROVE  tabl'[ClassKey[At(u)'.class]] = tabl'[u]
    <3>1. CASE u = t
      BY <1>1, <1>3, <1>4, <3>1
    <3>2. CASE u # t
      <4>1. u \in Key \ {t, ck}
        BY <1>3, <3>2, KeyFacts
      <4>2. Registered(u) /\ At(u)' = At(u) /\ tabl'[u] = tabl[u]
        BY <1>5, <2>1, <4>1
      <4> DEFINE k == ClassKey[At(u).class]
      <4>3. At(u).class \in Class
        BY <2>1, <4>1, <4>2, RegisteredType DEF Snapshot
      <4>4. tabl[k] = tabl[u] /\ k \in Key /\ k # t
        BY <2>1, <4>2, <4>3, KeyFacts DEF OwnerAgrees
      <4>5. At(u).table = u /\ Registered(k) /\ At(k) = At(u)
        BY <4>1, <4>2, <4>4 DEF KeysPointHome, Registered, At
      <4>6. k # ck
        BY <1>6, <3>2, <4>5
      <4>7. QED BY <1>1, <4>2, <4>4, <4>6
    <3>3. QED BY <3>1, <3>2
  <2>2. QED BY <2>1 DEF OwnerAgrees
<1>9. QED BY <1>7, <1>8

LEMMA RegistryStep ==
  ASSUME TypeOK, RegistryConsistent, [Next]_vars PROVE RegistryConsistent'
<1> USE DEF RegistryConsistent
<1>1. Shape
  BY StepShape
<1>2. KeysPointHome' /\ OwnerAgrees'
  <2>1. CASE UNCHANGED <<snap, top, tabl>>
    BY <2>1 DEF KeysPointHome, OwnerAgrees, Registered, At
  <2>2. ASSUME NEW t \in Table, Republishes(t)
        PROVE  KeysPointHome' /\ OwnerAgrees'
    BY <2>2, RepublishKeys DEF Republishes
  <2>3. ASSUME NEW c \in Class, NEW t \in Table, Rebinds(c, t)
        PROVE  KeysPointHome' /\ OwnerAgrees'
    BY <2>3, RebindKeys
  <2>4. ASSUME NEW h \in Handle, OptsOut(h)
        PROVE  KeysPointHome' /\ OwnerAgrees'
    <3>1. tabl' = tabl /\ \A i \in 1 .. top :
            snap'[i] = [snap[i] EXCEPT !.unkeyed = snap'[i].unkeyed]
      BY <2>4, OptFacts
    <3>2. ASSUME NEW k \in Key, Registered(k)
          PROVE  At(k)'.table = At(k).table /\ At(k)'.class = At(k).class
      BY <3>1, <3>2, RegisteredType DEF At, Snapshot
    <3>3. \A k \in Key : Registered(k)' <=> Registered(k)
      BY <3>1 DEF Registered
    <3>4. KeysPointHome'
      <4>1. ASSUME NEW k \in Key, Registered(k)
            PROVE  Registered(At(k).table) <=> tabl'[At(k).table] # Absent
        BY <3>1 DEF Registered
      <4>2. QED BY <3>2, <3>3, <4>1 DEF KeysPointHome, Registered
    <3>5. OwnerAgrees'
      BY <3>1, <3>2, <3>3, KeyFacts DEF OwnerAgrees
    <3>6. QED BY <3>4, <3>5
  <2>5. QED BY <1>1, <2>1, <2>2, <2>3, <2>4 DEF Shape
<1>3. ASSUME NEW i \in 1 .. top' PROVE Registered(snap[i].table)'
  <2>1. ASSUME i \in 1 .. top, snap'[i].table = snap[i].table
        PROVE  Registered(snap[i].table)'
    <3>1. snap[i].table \in Key /\ Registered(snap[i].table)
      BY <2>1, RegistryAssumption, KeyFacts
         DEF HandlesRegistered, TypeOK, SnapId, Snapshot
    <3>2. tabl'[snap[i].table] # Absent
      BY <1>1, <3>1, KeysStay DEF Registered
    <3>3. QED BY <2>1, <3>2 DEF Registered
  <2>2. CASE UNCHANGED <<snap, top, tabl>>
    BY <2>1, <2>2
  <2>3. ASSUME NEW t \in Table, NEW s \in Snapshot, s.table = t,
               top' = top + 1, top + 1 \in SnapId, snap'[top + 1] = s,
               \A j \in 1 .. top : snap'[j] = snap[j],
               tabl'[t] = top + 1
        PROVE  Registered(snap[i].table)'
    <3>1. CASE i = top + 1
      BY <2>3, <3>1 DEF Registered, Absent, SnapId
    <3>2. CASE i # top + 1
      BY <2>1, <2>3, <3>2 DEF TypeOK
    <3>3. QED BY <3>1, <3>2
  <2>4. ASSUME NEW t \in Table, Republishes(t)
        PROVE  Registered(snap[i].table)'
    <3>1. PICK n \in Snapshot : Edit(BaseOf(t), n) /\ Publish(tabl[t], n)
      BY <2>4 DEF Republishes
    <3>2. QED BY <2>3, <3>1, RepublishFacts, KeyFacts
  <2>5. ASSUME NEW c \in Class, NEW t \in Table, Rebinds(c, t)
        PROVE  Registered(snap[i].table)'
    <3>1. ClassTable(c, t) \in Snapshot /\ ClassTable(c, t).table = t
      BY ClassTableType DEF ClassTable, ManualTable
    <3>2. QED BY <2>3, <2>5, <3>1, RebindFacts
  <2>6. ASSUME NEW h \in Handle, OptsOut(h)
        PROVE  Registered(snap[i].table)'
    <3>1. i \in 1 .. top /\ snap[i] \in Snapshot
          /\ snap'[i] = [snap[i] EXCEPT !.unkeyed = snap'[i].unkeyed]
      BY <2>6, OptFacts, RegistryAssumption DEF TypeOK, SnapId
    <3>2. QED BY <2>1, <3>1 DEF Snapshot
  <2>7. QED BY <1>1, <2>2, <2>4, <2>5, <2>6 DEF Shape
<1>4. ASSUME NEW w \in Worker, auto'[w] # Idle
      PROVE  auto'[w].table \in Table /\ tabl'[auto'[w].table] # Absent
  <2>1. auto'[w].table \in Table /\ Registered(auto'[w].table)
    BY <1>4, AutoType
  <2>2. auto'[w].table \in Key
    BY <2>1, KeyFacts
  <2>3. QED BY <1>1, <2>1, <2>2, KeysStay DEF Registered
<1>5. HandlesRegistered'
  BY <1>3, <1>4 DEF HandlesRegistered, Registered
<1>6. QED BY <1>2, <1>5

-----------------------------------------------------------------------------
(* The snapshots. *)

\* A table made from tags alone has no key and no verification.
LEMMA ClassTableSound ==
  ASSUME NEW c \in Class, NEW t \in Table PROVE Sound(ClassTable(c, t))
<1>1. Decl[c].secret \subseteq Decl[c].cols
  BY RegistryAssumption
<1>2. QED BY <1>1 DEF ClassTable, ManualTable, Sound, Covered, MacSound,
             MarksAgree, Locatable

LEMMA ManualTableSound ==
  ASSUME NEW t \in Table PROVE Sound(ManualTable(t))
  BY DEF ManualTable, Sound, Covered, MacSound, MarksAgree, Locatable

LEMMA HeapStep ==
  ASSUME TypeOK, RegistryConsistent, HeapSound, [Next]_vars PROVE HeapSound'
<1>1. Shape
  BY StepShape DEF RegistryConsistent
<1>2. CASE UNCHANGED <<snap, top, tabl>>
  BY <1>2 DEF HeapSound
<1>3. ASSUME NEW s, Sound(s), top' = top + 1, snap'[top + 1] = s,
             \A i \in 1 .. top : snap'[i] = snap[i]
      PROVE  HeapSound'
  <2>1. ASSUME NEW i \in 1 .. top' PROVE Sound(snap'[i])
    BY <1>3, RegistryAssumption DEF HeapSound, TypeOK
  <2>2. QED BY <2>1 DEF HeapSound
<1>4. ASSUME NEW t \in Table, Republishes(t) PROVE HeapSound'
  <2>1. PICK n \in Snapshot : Edit(BaseOf(t), n) /\ Publish(tabl[t], n)
    BY <1>4 DEF Republishes
  <2>2. Registered(t) => tabl[t] \in 1 .. top
    BY RegisteredType, KeyFacts
  <2>3. Sound(BaseOf(t))
    BY <2>2, ManualTableSound DEF HeapSound, BaseOf, At
  <2>4. Sound(n)
    BY <2>1, <2>3 DEF Edit
  <2>5. QED BY <1>3, <2>1, <2>4, RepublishFacts DEF RegistryConsistent
<1>5. ASSUME NEW c \in Class, NEW t \in Table, Rebinds(c, t)
      PROVE  HeapSound'
  BY <1>3, <1>5, ClassTableSound, RebindFacts
<1>6. ASSUME NEW h \in Handle, OptsOut(h) PROVE HeapSound'
  <2>1. ASSUME NEW i \in 1 .. top' PROVE Sound(snap'[i])
    BY <1>6, OptFacts DEF HeapSound
  <2>2. QED BY <2>1 DEF HeapSound
<1>7. QED BY <1>1, <1>2, <1>4, <1>5, <1>6 DEF Shape

-----------------------------------------------------------------------------
(* The theorems. *)

LEMMA InitInv == Init => IInv
<1> SUFFICES ASSUME Init PROVE IInv
  OBVIOUS
<1>1. ManualTable(CHOOSE t \in Table : TRUE) \in Snapshot
  BY ManualTableType, RegistryAssumption
<1>2. TypeOK
  BY <1>1, RegistryAssumption DEF Init, TypeOK, Absent, Idle
<1>3. RegistryConsistent
  BY KeyFacts DEF Init, RegistryConsistent, KeysPointHome, OwnerAgrees,
                  HandlesRegistered, Registered
<1>4. HeapSound
  BY DEF Init, HeapSound
<1>5. QED BY <1>2, <1>3, <1>4 DEF IInv

LEMMA NextInv == IInv /\ [Next]_vars => IInv'
  BY TypeStep, RegistryStep, HeapStep DEF IInv, RegistryConsistent

\* What the engine keeps under its lock is inductive: the types, the keys
\* and every snapshot ever published.
THEOREM Invariance == Spec => []IInv
  BY InitInv, NextInv, PTL DEF Spec

\* Types: an operation never stores an address that is not allocated.
THEOREM TypeCorrect == Spec => []TypeOK
<1>1. IInv => TypeOK
  BY DEF IInv
<1>2. QED BY <1>1, Invariance, PTL

\* publishTableMetadata and registerClass keep the two keys of a class and
\* the table they point at together.
THEOREM Consistent == Spec => []RegistryConsistent
<1>1. IInv => RegistryConsistent
  BY DEF IInv
<1>2. QED BY <1>1, Invariance, PTL

\* SetKeys, RegisterPkeys, AutoKeys and SetVerify, in any order, leave no
\* verified table with a key column outside its MAC.
THEOREM KeysCovered == Spec => []PkeysCovered
<1>1. IInv => PkeysCovered
  BY DEF IInv, HeapSound, Sound, PkeysCovered
<1>2. QED BY <1>1, Invariance, PTL

\* The MAC column stays a writable column that is neither a key nor covered.
THEOREM MacColumn == Spec => []MacColumnSound
<1>1. IInv => MacColumnSound
  BY DEF IInv, HeapSound, Sound, MacColumnSound
<1>2. QED BY <1>1, Invariance, PTL

\* HashField, ListField and ColSecret never disagree on a class column.
THEOREM MarksCorrect == Spec => []SecretMarksAgree
<1>1. IInv => SecretMarksAgree
  BY DEF IInv, HeapSound, Sound, SecretMarksAgree
<1>2. QED BY <1>1, Invariance, PTL

\* A key column with an attribute is never lost from HashPkeys.
THEOREM KeysLocatable == Spec => []PkeysLocatable
<1>1. IInv => PkeysLocatable
  BY DEF IInv, HeapSound, Sound, PkeysLocatable
<1>2. QED BY <1>1, Invariance, PTL

\* RegisterClass reports ErrRegistryInconsistent only when two types of the
\* same name meet.
THEOREM InconsistencyUnreachable == Spec => []NeverInconsistent
<1>1. ASSUME IInv, NamesDistinct, NEW c \in Class, NEW t \in Table,
             NEW force \in BOOLEAN
      PROVE  CheckClass(c, t, force) # "ErrRegistryInconsistent"
  <2> DEFINE k == ClassKey[c]
  <2>1. t \in Key /\ k \in Key \ Table
    BY KeyFacts
  <2>2. Registered(k) => /\ At(k).class = c
                         /\ Registered(At(k).table)
    <3>1. ASSUME Registered(k) PROVE At(k) \in Snapshot
      BY <1>1, <2>1, <3>1, RegisteredType DEF IInv
    <3>2. QED BY <1>1, <2>1, <3>1
              DEF IInv, RegistryConsistent, KeysPointHome, NamesDistinct,
                  Snapshot
  <2>3. Registered(t) => ~OwnerLost(t)
    BY <1>1 DEF IInv, RegistryConsistent, OwnerAgrees, OwnerLost
  <2>4. Registered(t) => ~ExtraAlias(c, t)
    <3>1. ASSUME Registered(t), NEW j \in Key \ {t, k}, tabl[j] = tabl[t]
          PROVE  At(t).class # NoClass /\ j = ClassKey[At(t).class]
      <4>1. Registered(j) /\ At(j) = At(t)
        BY <3>1 DEF Registered, At
      <4>2. At(t).table = t
        BY <1>1, <2>1, <3>1 DEF IInv, RegistryConsistent, KeysPointHome
      <4>3. QED BY <1>1, <3>1, <4>1, <4>2
                DEF IInv, RegistryConsistent, KeysPointHome
    <3>2. QED BY <3>1 DEF ExtraAlias
  <2>5. Registered(t) /\ At(t).class = c => tabl[k] = tabl[t]
    BY <1>1, RegistryAssumption DEF IInv, RegistryConsistent, OwnerAgrees
  <2>6. QED BY <2>2, <2>3, <2>4, <2>5 DEF CheckClass
<1>2. IInv => NeverInconsistent
  BY <1>1 DEF NeverInconsistent
<1>3. QED BY <1>2, Invariance, PTL

\* Readers need no lock: no operation writes a published snapshot.
THEOREM Immutable == Spec => SnapshotsImmutable
<1>1. ASSUME IInv, [Next]_vars, NEW i \in 1 .. top
      PROVE  snap'[i] = [snap[i] EXCEPT !.unkeyed = snap'[i].unkeyed]
  <2>1. Shape
    BY <1>1, StepShape DEF IInv, RegistryConsistent
  <2>2. snap[i] \in Snapshot
    BY <1>1, RegistryAssumption DEF IInv, TypeOK, SnapId
  <2>3. ASSUME snap'[i] = snap[i]
        PROVE  snap'[i] = [snap[i] EXCEPT !.unkeyed = snap'[i].unkeyed]
    BY <2>2, <2>3 DEF Snapshot
  <2>4. ASSUME NEW t \in Table, Republishes(t) PROVE snap'[i] = snap[i]
    BY <1>1, <2>4, RepublishFacts DEF IInv, RegistryConsistent, Republishes
  <2>5. ASSUME NEW c \in Class, NEW t \in Table, Rebinds(c, t)
        PROVE  snap'[i] = snap[i]
    BY <1>1, <2>5, RebindFacts DEF IInv
  <2>6. ASSUME NEW h \in Handle, OptsOut(h)
        PROVE  snap'[i] = [snap[i] EXCEPT !.unkeyed = snap'[i].unkeyed]
    BY <1>1, <2>6, OptFacts DEF IInv
  <2>7. QED BY <2>1, <2>3, <2>4, <2>5, <2>6 DEF Shape
<1>2. IInv /\ [Next]_vars =>
        [\A i \in 1 .. top :
           snap'[i] = [snap[i] EXCEPT !.unkeyed = snap'[i].unkeyed]]_vars
  BY <1>1
<1>3. QED BY <1>2, Invariance, PTL DEF Spec, SnapshotsImmutable

\* No call takes a class key away or moves it to another table.
THEOREM Bound == Spec => ClassBound
<1>1. ASSUME IInv, [Next]_vars, NEW k \in Key \ Table, Registered(k)
      PROVE  /\ Registered(k)' /\ At(k)'.table = At(k).table
             /\ At(k)'.class = At(k).class
  <2>1. Shape /\ TypeOK /\ KeysPointHome
    BY <1>1, StepShape DEF IInv, RegistryConsistent
  <2>2. Registered(k)'
    BY <1>1, <2>1, KeysStay
  <2>3. tabl[k] \in 1 .. top /\ At(k) \in Snapshot
    BY <1>1, <2>1, RegisteredType
  <2>4. CASE UNCHANGED <<snap, top, tabl>>
    BY <2>2, <2>4 DEF At
  <2>5. ASSUME NEW t \in Table, Republishes(t)
        PROVE  At(k)'.table = At(k).table /\ At(k)'.class = At(k).class
    <3>1. PICK n \in Snapshot : Edit(BaseOf(t), n) /\ Publish(tabl[t], n)
      BY <2>5 DEF Republishes
    <3>2. CASE tabl'[k] = top + 1
      <4>1. At(k)' = n
        BY <2>1, <3>1, <3>2, RepublishFacts DEF At
      <4>2. tabl[k] # top + 1
        BY <2>1, <2>3, RegistryAssumption DEF TypeOK
      <4>3. Registered(t) /\ tabl[k] = tabl[t]
        BY <1>1, <2>1, <3>1, <3>2, <4>2, RepublishFacts
      <4>4. At(k) = BaseOf(t)
        BY <4>3 DEF At, BaseOf
      <4>5. QED BY <3>1, <4>1, <4>4 DEF Edit
    <3>3. CASE tabl'[k] = tabl[k]
      BY <2>1, <2>3, <3>1, <3>3, RepublishFacts DEF At
    <3>4. QED BY <2>1, <3>1, <3>2, <3>3, RepublishFacts
  <2>6. ASSUME NEW c \in Class, NEW t \in Table, Rebinds(c, t)
        PROVE  At(k)'.table = At(k).table /\ At(k)'.class = At(k).class
    <3>1. CASE k = ClassKey[c]
      <4>1. At(k).class = c /\ At(k).table = t
        BY <1>1, <2>6, <3>1, CheckFacts DEF Rebinds
      <4>2. At(k)' = ClassTable(c, t)
        BY <2>1, <2>6, <3>1, RebindFacts DEF At
      <4>3. QED BY <4>1, <4>2 DEF ClassTable, ManualTable
    <3>2. CASE k # ClassKey[c]
      <4>1. tabl'[k] = tabl[k]
        BY <2>1, <2>6, <3>2, RebindFacts
      <4>2. At(k)' = At(k)
        BY <2>1, <2>3, <2>6, <4>1, RebindFacts DEF At
      <4>3. QED BY <4>2
    <3>3. QED BY <3>1, <3>2
  <2>7. ASSUME NEW h \in Handle, OptsOut(h)
        PROVE  At(k)'.table = At(k).table /\ At(k)'.class = At(k).class
    <3>1. tabl' = tabl /\ \A i \in 1 .. top :
            snap'[i] = [snap[i] EXCEPT !.unkeyed = snap'[i].unkeyed]
      BY <2>1, <2>7, OptFacts
    <3>2. QED BY <2>3, <3>1 DEF At, Snapshot
  <2>8. QED BY <2>1, <2>2, <2>4, <2>5, <2>6, <2>7 DEF Shape
<1>2. IInv /\ [Next]_vars =>
        [\A k \in Key \ Table :
           Registered(k) => /\ Registered(k)' /\ At(k)'.table = At(k).table
                            /\ At(k)'.class = At(k).class]_vars
  BY <1>1
<1>3. QED BY <1>2, Invariance, PTL DEF Spec, ClassBound

\* While a key stays under verification, its primary key is frozen.
THEOREM Frozen == Spec => PkeysFrozen
<1>1. ASSUME IInv, [Next]_vars, NEW k \in Key, Registered(k),
             At(k).verifyOn, At(k)'.verifyOn
      PROVE  At(k)'.pkeys = At(k).pkeys
  <2>1. Shape /\ TypeOK /\ KeysPointHome
    BY <1>1, StepShape DEF IInv, RegistryConsistent
  <2>2. tabl[k] \in 1 .. top /\ At(k) \in Snapshot
    BY <1>1, <2>1, RegisteredType
  <2>3. CASE UNCHANGED <<snap, top, tabl>>
    BY <2>3 DEF At
  <2>4. ASSUME NEW t \in Table, Republishes(t)
        PROVE  At(k)'.pkeys = At(k).pkeys
    <3>1. PICK n \in Snapshot : Edit(BaseOf(t), n) /\ Publish(tabl[t], n)
      BY <2>4 DEF Republishes
    <3>2. CASE tabl'[k] = top + 1
      <4>1. At(k)' = n
        BY <2>1, <3>1, <3>2, RepublishFacts DEF At
      <4>2. tabl[k] # top + 1
        BY <2>1, <2>2, RegistryAssumption DEF TypeOK
      <4>3. At(k) = BaseOf(t)
        BY <1>1, <2>1, <3>1, <3>2, <4>2, RepublishFacts
           DEF At, BaseOf, Registered
      <4>4. QED BY <1>1, <3>1, <4>1, <4>3 DEF Edit
    <3>3. CASE tabl'[k] = tabl[k]
      BY <2>1, <2>2, <3>1, <3>3, RepublishFacts DEF At
    <3>4. QED BY <2>1, <3>1, <3>2, <3>3, RepublishFacts
  <2>5. ASSUME NEW c \in Class, NEW t \in Table, Rebinds(c, t)
        PROVE  At(k)'.pkeys = At(k).pkeys
    <3>1. CASE k \in {t, ClassKey[c]}
      <4>1. At(k)' = ClassTable(c, t)
        BY <2>1, <2>5, <3>1, RebindFacts DEF At
      <4>2. QED BY <1>1, <4>1 DEF ClassTable, ManualTable
    <3>2. CASE k \notin {t, ClassKey[c]}
      <4>1. tabl'[k] = tabl[k]
        BY <2>1, <2>5, <3>2, RebindFacts
      <4>2. QED BY <2>1, <2>2, <2>5, <4>1, RebindFacts DEF At
    <3>3. QED BY <3>1, <3>2
  <2>6. ASSUME NEW h \in Handle, OptsOut(h)
        PROVE  At(k)'.pkeys = At(k).pkeys
    BY <2>1, <2>2, <2>6, OptFacts DEF At, Snapshot
  <2>7. QED BY <2>1, <2>3, <2>4, <2>5, <2>6 DEF Shape
<1>2. IInv /\ [Next]_vars =>
        [\A k \in Key :
           Registered(k) /\ At(k).verifyOn /\ At(k)'.verifyOn
             => At(k)'.pkeys = At(k).pkeys]_vars
  BY <1>1
<1>3. QED BY <1>2, Invariance, PTL DEF Spec, PkeysFrozen

-----------------------------------------------------------------------------
(* The registry is a catalog.  What matters is which names point at one    *)
(* snapshot: those that the catalog changes together.                      *)

\* What is found under the names of the registry, before and after a step.
LEMMA EntriesAre ==
  /\ DOMAIN Entries = {k \in Key : Registered(k)}
  /\ \A k \in Key : Registered(k) => Entries[k] = At(k)
  /\ Entries' = [k \in {j \in Key : Registered(j)'} |-> At(k)']
  BY DEF Entries

\* The names of a table point at one snapshot, and no other names do.
LEMMA NamesAre ==
  ASSUME TypeOK, KeysPointHome, OwnerAgrees, NEW t \in Table
  PROVE  Catalog!Names(t) = {k \in Key : k = t \/ (Registered(t) /\ tabl[k] = tabl[t])}
<1> DEFINE owned == {ClassKey[c] : c \in {d \in Class : Registered(t) /\ At(t).class = d}}
<1>1. t \in Key
  BY KeyFacts
<1>2. Catalog!Names(t) = {t} \cup owned
  BY <1>1, EntriesAre DEF Catalog!Names, Catalog!Known
<1>3. ASSUME NEW k \in owned PROVE k \in Key /\ Registered(t) /\ tabl[k] = tabl[t]
  <2>1. PICK c \in Class : k = ClassKey[c] /\ Registered(t) /\ At(t).class = c
    OBVIOUS
  <2>2. QED
    BY <2>1, KeyFacts, RegistryAssumption DEF OwnerAgrees
<1>4. ASSUME NEW k \in Key, k # t, Registered(t), tabl[k] = tabl[t] PROVE k \in owned
  <2>1. Registered(k) /\ At(k) = At(t) /\ At(t).table = t
    BY <1>1, <1>4 DEF Registered, At, KeysPointHome
  <2>2. k \notin Table
    BY <1>4, <2>1 DEF KeysPointHome
  <2>3. At(t).class # NoClass /\ ClassKey[At(t).class] = k
    BY <2>1, <2>2 DEF KeysPointHome
  <2>4. At(t).class \in Class
    BY <1>1, <1>4, <2>3, RegisteredType DEF Snapshot
  <2>5. QED
    BY <1>4, <2>3, <2>4
<1> HIDE DEF owned
<1>5. QED
  BY <1>1, <1>2, <1>3, <1>4

\* An entry is put under some names if they find it afterwards and the others
\* find what they found.
LEMMA PutIs ==
  ASSUME NEW names, names \subseteq Key, NEW e,
         \A k \in names : Registered(k)' /\ At(k)' = e,
         \A k \in Key \ names : /\ Registered(k)' <=> Registered(k)
                                /\ Registered(k) => At(k)' = At(k)
  PROVE  Catalog!Put(names, e)
<1> DEFINE known == {k \in Key : Registered(k)}
           next == [k \in known \cup names |-> IF k \in names THEN e ELSE Entries[k]]
<1>1. {j \in Key : Registered(j)'} = known \cup names
  OBVIOUS
<1>2. \A k \in known \cup names : At(k)' = IF k \in names THEN e ELSE Entries[k]
  BY EntriesAre
<1>3. Entries' = next
  BY <1>1, <1>2, EntriesAre
<1>4. QED
  BY <1>3, EntriesAre DEF Catalog!Put

\* A snapshot that replaces another changes its table.
LEMMA RepublishChanges ==
  ASSUME TypeOK, KeysPointHome, OwnerAgrees, NEW t \in Table, Republishes(t)
  PROVE  Catalog!Change(t)
<1>1. PICK n \in Snapshot : Edit(BaseOf(t), n) /\ Publish(tabl[t], n)
  BY DEF Republishes
<1>2. /\ n.table = t
      /\ top' = top + 1 /\ top + 1 \in SnapId
      /\ snap'[top + 1] = n
      /\ \A i \in 1 .. top : snap'[i] = snap[i]
      /\ \A k \in Key : \/ /\ tabl'[k] = top + 1
                           /\ k = t \/ (Registered(t) /\ tabl[k] = tabl[t])
                        \/ /\ tabl'[k] = tabl[k]
                           /\ k # t
                           /\ Registered(t) => tabl[k] # tabl[t]
  BY <1>1, RepublishFacts
<1> DEFINE names == Catalog!Names(t)
<1>3. names = {k \in Key : k = t \/ (Registered(t) /\ tabl[k] = tabl[t])}
  BY NamesAre
<1>4. t \in Key /\ t \in names
  BY <1>3, KeyFacts
<1> HIDE DEF names
<1>5. ASSUME NEW k \in names PROVE Registered(k)' /\ At(k)' = n
  <2>1. tabl'[k] = top + 1
    BY <1>2, <1>3
  <2>2. QED
    BY <1>2, <2>1 DEF Registered, At, Absent, SnapId
<1>6. ASSUME NEW k \in Key \ names
      PROVE  (Registered(k)' <=> Registered(k)) /\ (Registered(k) => At(k)' = At(k))
  <2>1. tabl'[k] = tabl[k]
    BY <1>2, <1>3
  <2>2. Registered(k) => tabl[k] \in 1 .. top
    BY RegisteredType
  <2>3. QED
    BY <1>2, <2>1, <2>2 DEF Registered, At
<1>7. Catalog!Put(names, n)
  BY <1>3, <1>5, <1>6, PutIs
<1>8. t \in DOMAIN Entries' /\ Entries'[t] = n
  BY <1>4, <1>5, EntriesAre
<1>9. ASSUME Registered(t) PROVE Catalog!Grown(At(t), n)
  BY <1>1, <1>9 DEF Edit, BaseOf, Catalog!Grown
<1>10. ASSUME ~Registered(t) PROVE n.class = NoClass /\ ~n.verifyOn
  BY <1>1, <1>10 DEF Edit, BaseOf, ManualTable
<1>11. (Catalog!Known(t) <=> Registered(t)) /\ (Registered(t) => Entries[t] = At(t))
  BY <1>4, EntriesAre DEF Catalog!Known
<1>12. QED
  BY <1>1, <1>2, <1>7, <1>8, <1>9, <1>10, <1>11 DEF Catalog!Change, names

\* A class that is registered replaces what its table was found under.
LEMMA RebindBinds ==
  ASSUME TypeOK, KeysPointHome, OwnerAgrees,
         NEW c \in Class, NEW t \in Table, Rebinds(c, t)
  PROVE  Catalog!Bind(c, t)
<1> DEFINE k == ClassKey[c]
           n == ClassTable(c, t)
<1>1. t \in Key /\ k \in Key /\ n \in Snapshot
  BY KeyFacts, ClassTableType
<1>2. /\ top' = top + 1 /\ top + 1 \in SnapId
      /\ snap'[top + 1] = n
      /\ \A i \in 1 .. top : snap'[i] = snap[i]
      /\ tabl'[t] = top + 1 /\ tabl'[k] = top + 1
      /\ \A j \in Key \ {t, k} : tabl'[j] = tabl[j]
  BY RebindFacts
<1>3. n.table = t /\ n.class = c /\ n.pkeys = {} /\ ~n.verifyOn
  BY DEF ClassTable, ManualTable
<1>4. Registered(k) => At(k).class = c /\ At(k).table = t
  BY CheckFacts DEF Rebinds
<1>5. Catalog!Known(k) <=> Registered(k)
  BY <1>1, EntriesAre DEF Catalog!Known
<1>6. Registered(k) => Entries[k] = At(k)
  BY <1>1, EntriesAre
<1> HIDE DEF k, n
<1>7. ASSUME NEW j \in {t, k} PROVE Registered(j)' /\ At(j)' = n
  BY <1>2, <1>7 DEF Registered, At, Absent, SnapId
<1>8. ASSUME NEW j \in Key \ {t, k}
      PROVE  (Registered(j)' <=> Registered(j)) /\ (Registered(j) => At(j)' = At(j))
  <2>1. tabl'[j] = tabl[j]
    BY <1>2, <1>8
  <2>2. Registered(j) => tabl[j] \in 1 .. top
    BY RegisteredType
  <2>3. QED
    BY <1>2, <2>1, <2>2 DEF Registered, At
<1>9. Catalog!Put({t, k}, n)
  BY <1>1, <1>7, <1>8, PutIs
<1>10. t \in DOMAIN Entries' /\ Entries'[t] = n
  BY <1>1, <1>7, EntriesAre
<1>11. Catalog!Known(k) => Entries[k].class = c /\ Entries[k].table = t
  BY <1>4, <1>5, <1>6
<1>12. QED
  BY <1>1, <1>3, <1>9, <1>10, <1>11 DEF Catalog!Bind, k

\* A holder that opts out changes what finds its handle: a table under its
\* names, the former type of a table, or nothing.
LEMMA OptOutOpts ==
  ASSUME TypeOK, KeysPointHome, OwnerAgrees, NEW h \in Handle, OptsOut(h)
  PROVE  \/ UNCHANGED Entries
         \/ \E t \in Table : Catalog!OptOut(Catalog!Names(t))
         \/ \E k \in Key : Catalog!Outdated(k) /\ Catalog!OptOut({k})
<1> DEFINE held == {k \in Key : tabl[k] = h}
           n == [snap[h] EXCEPT !.unkeyed = TRUE]
<1>1. h \in 1 .. top /\ h \in SnapId /\ h # Absent
  BY RegistryAssumption DEF Handle, TypeOK, SnapId, Absent
<1>2. tabl' = tabl /\ snap'[h] = n /\ \A i \in SnapId \ {h} : snap'[i] = snap[i]
  BY <1>1 DEF OptsOut, TypeOK
<1>3. \A k \in Key : Registered(k) => tabl[k] \in SnapId
  BY RegisteredType, RegistryAssumption DEF TypeOK, SnapId
<1>4. \A k \in Key : Registered(k)' <=> Registered(k)
  BY <1>2 DEF Registered
<1>5. ASSUME NEW k \in held PROVE Registered(k) /\ At(k) = snap[h] /\ At(k)' = n
  BY <1>1, <1>2 DEF Registered, At
<1>6. ASSUME NEW k \in Key \ held PROVE Registered(k) => At(k)' = At(k)
  BY <1>2, <1>3 DEF At
<1> HIDE DEF n
<1>7. ASSUME NEW k \in held PROVE Catalog!OptOut(held)
  <2>1. Catalog!Put(held, n)
    BY <1>4, <1>5, <1>6, PutIs
  <2>2. held \subseteq DOMAIN Entries /\ Entries[k] = snap[h]
    BY <1>5, EntriesAre
  <2>3. n = [Entries[k] EXCEPT !.unkeyed = TRUE]
    BY <2>2 DEF n
  <2>4. QED
    BY <2>1, <2>2, <2>3 DEF Catalog!OptOut
<1>8. CASE held = {}
  <2>1. {k \in Key : Registered(k)'} = {k \in Key : Registered(k)}
    BY <1>4
  <2>2. \A k \in {j \in Key : Registered(j)} : At(k)' = At(k)
    BY <1>6, <1>8
  <2>3. QED
    BY <2>1, <2>2 DEF Entries
<1>9. ASSUME NEW t \in Table, t \in held PROVE held = Catalog!Names(t)
  <2>1. Registered(t) /\ tabl[t] = h /\ t \in Key
    BY <1>5, <1>9
  <2>2. QED
    BY <2>1, NamesAre
<1>10. ASSUME NEW k \in held, held \cap Table = {}
       PROVE  held = {k} /\ Catalog!Outdated(k)
  <2>1. \A j \in held : j \notin Table /\ Registered(j) /\ At(j) = snap[h]
    BY <1>5, <1>10
  <2>2. \A j \in held : j = ClassKey[snap[h].class] /\ At(j).table \in Table
    BY <2>1, RegisteredType DEF KeysPointHome, Snapshot
  <2>3. held = {k}
    BY <1>10, <2>2
  <2>4. Catalog!Known(k) /\ Entries[k] = At(k)
    BY <2>1, <1>10, EntriesAre DEF Catalog!Known
  <2>5. tabl[At(k).table] # tabl[k]
    BY <1>10, <2>1, <2>2, KeyFacts
  <2>6. k \notin Catalog!Names(At(k).table)
    BY <1>10, <2>1, <2>2, <2>5, NamesAre
  <2>7. QED
    BY <1>10, <2>1, <2>3, <2>4, <2>6 DEF Catalog!Outdated
<1> HIDE DEF held
<1>11. CASE held # {}
  <2>1. PICK k \in held : TRUE
    BY <1>11
  <2>2. Catalog!OptOut(held) /\ k \in Key
    BY <1>7 DEF held
  <2>3. CASE held \cap Table = {}
    BY <2>1, <2>2, <2>3, <1>10
  <2>4. CASE held \cap Table # {}
    <3>1. PICK t \in Table : t \in held
      BY <2>4
    <3>2. QED
      BY <2>2, <3>1, <1>9
  <2>5. QED
    BY <2>3, <2>4
<1>12. QED
  BY <1>8, <1>11

LEMMA CatalogNext ==
  ASSUME TypeOK, KeysPointHome, OwnerAgrees, HandlesRegistered, [Next]_vars
  PROVE  Catalog!Next \/ UNCHANGED Entries
<1>1. Shape
  BY StepShape
<1>2. CASE UNCHANGED <<snap, top, tabl>>
  <2>1. \A k \in Key : (Registered(k)' <=> Registered(k)) /\ At(k)' = At(k)
    BY <1>2 DEF Registered, At
  <2>2. {k \in Key : Registered(k)'} = {k \in Key : Registered(k)}
    BY <2>1
  <2>3. QED
    BY <2>1, <2>2 DEF Entries
<1>3. ASSUME NEW t \in Table, Republishes(t) PROVE Catalog!Next
  BY <1>3, RepublishChanges DEF Catalog!Next
<1>4. ASSUME NEW c \in Class, NEW t \in Table, Rebinds(c, t) PROVE Catalog!Next
  BY <1>4, RebindBinds DEF Catalog!Next
<1>5. ASSUME NEW h \in Handle, OptsOut(h) PROVE Catalog!Next \/ UNCHANGED Entries
  <2>1. Key = Catalog!Name
    BY DEF Key, Catalog!Name
  <2>2. QED
    BY <1>5, <2>1, OptOutOpts DEF Catalog!Next
<1>6. QED
  BY <1>1, <1>2, <1>3, <1>4, <1>5 DEF Shape

LEMMA CatalogInit == ASSUME Init PROVE Catalog!Init
<1>1. {j \in Key : Registered(j)} = {}
  BY DEF Init, Registered
<1>2. Entries = [k \in {} |-> {}]
  BY <1>1 DEF Entries
<1>3. QED
  BY <1>2 DEF Catalog!Init

\* RegisterClass, the chained setters, AutoKeys and SetVerifyUnkeyed, seen
\* through HashTabl: each changes one table, under all of its names at once.
THEOREM CatalogKept == Spec => ImplementsCatalog
<1>1. Init => Catalog!Init
  BY CatalogInit
<1>2. IInv /\ [Next]_vars => [Catalog!Next]_Catalog!vars
  BY CatalogNext DEF IInv, RegistryConsistent, Catalog!vars
<1>3. QED
  BY <1>1, <1>2, Invariance, PTL DEF Spec, ImplementsCatalog, Catalog!Spec
=============================================================================
