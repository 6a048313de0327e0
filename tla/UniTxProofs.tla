----------------------------- MODULE UniTxProofs -----------------------------
(***************************************************************************)
(* Theorems about UniTx, for any goroutines, engines and transactions: the *)
(* transaction state is never corrupted or orphaned however the goroutines *)
(* share the engines, and the engines implement UniTxSession.              *)
(*                                                                         *)
(* What an action does to the engines is one of a few shapes, and what it  *)
(* does to the goroutine that takes it is a move; both are read off the    *)
(* actions once, and the invariants are proved for the shapes.             *)
(***************************************************************************)
EXTENDS UniTx, SequenceTheorems, FiniteSetTheorems, TLAPS

\* A frame put on top of a stack, or in place of its top.
LEMMA PushType ==
  ASSUME NEW s \in Seq(Frame), NEW f \in Frame
  PROVE  /\ <<f>> \o s \in Seq(Frame) /\ <<f>> \o s # <<>>
<1>1. <<f>> \in Seq(Frame) /\ Len(<<f>>) = 1
  OBVIOUS
<1>2. <<f>> \o s \in Seq(Frame) /\ Len(<<f>> \o s) = 1 + Len(s)
  BY <1>1, ConcatProperties
<1>3. Len(s) \in Nat
  BY LenProperties
<1>4. QED BY <1>2, <1>3, EmptySeq

LEMMA PopType ==
  ASSUME NEW s \in Seq(Frame), s # <<>>
  PROVE  Head(s) \in Frame /\ Tail(s) \in Seq(Frame)
  BY HeadTailProperties

LEMMA LongTail ==
  ASSUME NEW s \in Seq(Frame), Len(s) > 1 PROVE Tail(s) # <<>>
<1>1. Len(<<>>) = 0
  BY EmptySeq, Zenon
<1>2. s # <<>>
  <2>1. Len(s) # 0
    OBVIOUS
  <2>2. QED BY <1>1, <2>1, Zenon
<1>3. Len(Tail(s)) = Len(s) - 1 /\ Len(s) \in Nat
  BY <1>2, HeadTailProperties, LenProperties
<1>4. \A n \in Nat : n > 1 => n - 1 # 0
  OBVIOUS
<1>5. Len(Tail(s)) # 0
  BY <1>3, <1>4, Zenon
<1>6. QED BY <1>1, <1>5, Zenon

LEMMA UserType == User \in Call
  BY DEF User, Call, Place, Op, TxOrNone

\* Goroutine p goes to c; the stacks of the others are left alone.
Moves(p, c) ==
  /\ c \in Call /\ call' = [call EXCEPT ![p] = c]
  /\ frames' \in [Proc -> Seq(Frame)] /\ last' \in [Proc -> Outcome]
  /\ \A q \in Proc \ {p} : frames'[q] = frames[q] /\ last'[q] = last[q]
  /\ c.at = "active" \/ (c.own /\ c.op \in {"Commit", "Cancel"})
       => frames'[p] # <<>>

\* A place in which txGate is not held.
Outside(c) ==
  /\ c.at \notin {"driver", "install"}
  /\ c.at = "gate" => /\ c.op \in {"Begin", "BeginCtx", "Commit", "Cancel"}
                      /\ c.tx = NoTx

LEMMA ReturnBeginMoves ==
  ASSUME TypeOK, NEW p \in Proc, NEW x \in TxOrNone, NEW err \in Error,
         ReturnBegin(p, x, err)
  PROVE  Moves(p, User) /\ Outside(User)
<1>1. [tx |-> x, out |-> "nil"] \in Frame
  BY DEF Frame, Error
<1>2. frames' \in [Proc -> Seq(Frame)] /\ \A q \in Proc \ {p} : frames'[q] = frames[q]
  <2>1. frames[p] \in Seq(Frame)
    BY DEF TypeOK
  <2>2. <<[tx |-> x, out |-> "nil"]>> \o frames[p] \in Seq(Frame)
    BY <1>1, <2>1, PushType
  <2>3. QED BY <2>2 DEF TypeOK, ReturnBegin
<1>3. QED BY <1>2, UserType DEF ReturnBegin, Moves, Outside, User, TypeOK

\* The call WithTx makes when it enters its deferred function.
Deferred == [at |-> "gate", op |-> "Cancel", own |-> TRUE, tx |-> NoTx]

LEMMA DeferredType == Deferred \in Call /\ Outside(Deferred)
  BY DEF Deferred, Call, Place, Op, TxOrNone, Outside

LEMMA LeaveMoves ==
  ASSUME TypeOK, NEW p \in Proc, NEW x \in TxOrNone, NEW err \in Error,
         frames[p] # <<>>, Leave(p, x, err)
  PROVE  \E c \in {User, Deferred} : Moves(p, c) /\ Outside(c)
<1> DEFINE s == frames[p]
<1>1. s \in Seq(Frame) /\ Head(s) \in Frame /\ Tail(s) \in Seq(Frame)
  BY PopType DEF TypeOK
<1>2. last' \in [Proc -> Outcome] /\ \A q \in Proc \ {p} : last'[q] = last[q]
  BY <1>1 DEF Leave, TypeOK, Outcome, Frame
<1>3. CASE err = "panic" /\ Len(s) > 1
  <2> DEFINE f == [Head(Tail(s)) EXCEPT !.out = "panic"]
             n == <<f>> \o Tail(Tail(s))
  <2>1. Tail(s) # <<>>
    BY <1>1, <1>3, LongTail
  <2>2. f \in Frame /\ Tail(Tail(s)) \in Seq(Frame)
    BY <1>1, <2>1, PopType DEF Frame, Error
  <2>3. n \in Seq(Frame) /\ n # <<>>
    BY <2>2, PushType
  <2>4. frames' = [frames EXCEPT ![p] = n] /\ call' = [call EXCEPT ![p] = Deferred]
    BY <1>3 DEF Leave, Enter, Deferred
  <2> HIDE DEF n
  <2>5. Moves(p, Deferred)
    BY <1>2, <2>3, <2>4, DeferredType DEF Moves, TypeOK
  <2>6. QED BY <2>5, DeferredType
<1>4. CASE ~(err = "panic" /\ Len(s) > 1)
  <2>1. frames' = [frames EXCEPT ![p] = Tail(s)] /\ call' = [call EXCEPT ![p] = User]
    BY <1>4 DEF Leave
  <2>2. Moves(p, User) /\ Outside(User)
    BY <1>1, <1>2, <2>1, UserType DEF Moves, TypeOK, Outside, User
  <2>3. QED BY <2>2
<1>5. QED BY <1>3, <1>4

LEMMA MarkType ==
  ASSUME TypeOK, NEW p \in Proc, frames[p] # <<>>, NEW out \in Error,
         frames' = [frames EXCEPT ![p] = <<[Head(@) EXCEPT !.out = out]>> \o Tail(@)]
  PROVE  /\ frames' \in [Proc -> Seq(Frame)] /\ frames'[p] # <<>>
         /\ \A q \in Proc \ {p} : frames'[q] = frames[q]
<1> DEFINE s == frames[p]
           n == <<[Head(s) EXCEPT !.out = out]>> \o Tail(s)
<1>1. s \in Seq(Frame) /\ Head(s) \in Frame /\ Tail(s) \in Seq(Frame)
  BY PopType DEF TypeOK
<1>2. [Head(s) EXCEPT !.out = out] \in Frame
  BY <1>1 DEF Frame
<1>3. n \in Seq(Frame) /\ n # <<>>
  BY <1>1, <1>2, PushType
<1>4. frames' = [frames EXCEPT ![p] = n]
  OBVIOUS
<1> HIDE DEF n
<1>5. QED BY <1>3, <1>4 DEF TypeOK

LEMMA ReturnEndMoves ==
  ASSUME TypeOK, NEW p \in Proc, Ends(p), NEW x \in TxOrNone,
         NEW err \in Error, ReturnEnd(p, x, err)
  PROVE  \E c \in {User, Deferred} : Moves(p, c) /\ Outside(c)
<1>1. call[p].own => frames[p] # <<>>
  BY DEF TypeOK, CallOK
<1>2. CASE ~call[p].own /\ call' = [call EXCEPT ![p] = User] /\ UNCHANGED <<frames, last>>
  BY <1>2, UserType DEF Moves, Outside, User, TypeOK
<1>3. CASE /\ call[p].own
           /\ frames' = [frames EXCEPT ![p] = <<[Head(@) EXCEPT !.out = err]>> \o Tail(@)]
           /\ Enter(p, "Cancel", TRUE)
           /\ UNCHANGED last
  <2>1. Moves(p, Deferred)
    BY <1>1, <1>3, MarkType, DeferredType DEF Moves, Enter, Deferred, TypeOK
  <2>2. QED BY <2>1, DeferredType
<1>4. CASE call[p].own /\ Leave(p, x, "nil")
  BY <1>1, <1>4, LeaveMoves DEF Error
<1>5. CASE call[p].own /\ Leave(p, x, Head(frames[p]).out)
  <2>1. Head(frames[p]).out \in Error
    BY <1>1, <1>5, PopType DEF TypeOK, Frame
  <2>2. QED BY <1>1, <1>5, <2>1, LeaveMoves
<1>6. QED BY <1>2, <1>3, <1>4, <1>5 DEF ReturnEnd

-----------------------------------------------------------------------------
(* The shapes of a step. *)

\* A step of a goroutine that neither has nor takes txGate.
Elsewhere(p) ==
  /\ gate # p
  /\ \E c \in Call : Moves(p, c) /\ Outside(c)
  /\ UNCHANGED <<tx, inTx, gate, db>>

Takes(p) ==
  /\ gate = NoProc /\ gate' = p
  /\ Begins(p) /\ ~inTx[EngineOf[p]] /\ tx[EngineOf[p]] = NoTx
  /\ Moves(p, [call[p] EXCEPT !.at = "driver"])
  /\ call[p].tx = NoTx
  /\ UNCHANGED <<tx, inTx, db>>

Opens(p, x, s) ==
  /\ gate = p /\ Begins(p) /\ At(p, "driver")
  /\ db[x] = "unused" /\ s \in Live /\ db' = [db EXCEPT ![x] = s]
  /\ Moves(p, [call[p] EXCEPT !.at = "install", !.tx = x])
  /\ UNCHANGED <<tx, inTx, gate>>

OpenFails(p) ==
  /\ gate = p /\ gate' = NoProc /\ Begins(p) /\ At(p, "driver")
  /\ Moves(p, User)
  /\ UNCHANGED <<tx, inTx, db>>

Installs(p) ==
  /\ gate = p /\ gate' = NoProc /\ At(p, "install")
  /\ tx' = [tx EXCEPT ![EngineOf[p]] = call[p].tx]
  /\ inTx' = [inTx EXCEPT ![EngineOf[p]] = TRUE]
  /\ Moves(p, User)
  /\ UNCHANGED db

Detaches(p) ==
  /\ gate = NoProc /\ gate' = p /\ Ends(p) /\ tx[EngineOf[p]] # NoTx
  /\ tx' = [tx EXCEPT ![EngineOf[p]] = NoTx]
  /\ inTx' = [inTx EXCEPT ![EngineOf[p]] = FALSE]
  /\ Moves(p, [call[p] EXCEPT !.at = "driver", !.tx = tx[EngineOf[p]]])
  /\ UNCHANGED db

Closes(p) ==
  /\ gate = p /\ gate' = NoProc /\ Ends(p) /\ At(p, "driver")
  /\ \/ db[call[p].tx] \notin Live /\ UNCHANGED db
     \/ /\ db[call[p].tx] \in Live
        /\ \E s \in Final : db' = [db EXCEPT ![call[p].tx] = s]
  /\ \E c \in {User, Deferred} : Moves(p, c)
  /\ UNCHANGED <<tx, inTx>>

ShapeOf(p) ==
  \/ Elsewhere(p) \/ Takes(p) \/ OpenFails(p) \/ Installs(p)
  \/ Detaches(p) \/ Closes(p)
  \/ \E x \in Tx, s \in Live : Opens(p, x, s)

Shape ==
  \/ UNCHANGED vars
  \/ \E p \in Proc : ShapeOf(p)
  \/ \E x \in Tx : ContextDone(x)

LEMMA PrepareType ==
  ASSUME TypeOK, NEW p \in Proc, NEW op \in Op
  PROVE  LET c == [at |-> "prepare", op |-> op, own |-> FALSE,
                   tx |-> currentTx(EngineOf[p])]
         IN c \in Call /\ Outside(c)
<1>1. currentTx(EngineOf[p]) \in TxOrNone
  BY TxAssumption DEF TypeOK, TxOrNone, currentTx
<1>2. QED BY <1>1 DEF Call, Place, Outside

LEMMA UserShape ==
  ASSUME TypeOK, NEW p \in Proc, UserStep(p) PROVE Elsewhere(p)
<1>1. At(p, "user")
  BY DEF UserStep, CallTx, WithTx, FnReturns, Statement, CopyIn
<1>2. gate # p
  BY <1>1 DEF TypeOK, CallOK, At
<1>3. ASSUME NEW op \in {"Begin", "BeginCtx", "Commit", "Cancel"}, CallTx(p, op)
      PROVE  Elsewhere(p)
  <2> DEFINE c == [at |-> "gate", op |-> op, own |-> FALSE, tx |-> NoTx]
  <2>1. c \in Call /\ Outside(c)
    BY DEF Call, Place, Op, TxOrNone, Outside
  <2>2. Moves(p, c)
    BY <1>3, <2>1 DEF CallTx, Enter, Moves, TypeOK
  <2>3. QED BY <1>2, <1>3, <2>1, <2>2 DEF CallTx, Elsewhere
<1>4. CASE WithTx(p)
  <2> DEFINE c == [at |-> "gate", op |-> "Begin", own |-> TRUE, tx |-> NoTx]
  <2>1. c \in Call /\ Outside(c)
    BY DEF Call, Place, Op, TxOrNone, Outside
  <2>2. Moves(p, c)
    BY <1>4, <2>1 DEF WithTx, Enter, Moves, TypeOK
  <2>3. QED BY <1>2, <1>4, <2>1, <2>2 DEF WithTx, Elsewhere
<1>5. ASSUME NEW out \in {"nil", "error", "panic"}, FnReturns(p, out)
      PROVE  Elsewhere(p)
  <2>1. /\ frames' \in [Proc -> Seq(Frame)] /\ frames'[p] # <<>>
        /\ \A q \in Proc \ {p} : frames'[q] = frames[q]
    <3>1. out \in Error
      BY DEF Error
    <3>2. QED BY <1>5, <3>1, MarkType DEF FnReturns
  <2>2. CASE out = "nil"
    <3> DEFINE c == [call[p] EXCEPT !.at = "active"]
    <3>1. c \in Call /\ Outside(c) /\ call' = [call EXCEPT ![p] = c]
      BY <1>5, <2>2 DEF FnReturns, TypeOK, Call, Place, Outside
    <3>2. Moves(p, c)
      <4> HIDE DEF c
      <4> QED BY <1>5, <2>1, <3>1 DEF FnReturns, Moves, TypeOK
    <3>3. QED BY <1>2, <1>5, <3>1, <3>2 DEF FnReturns, Elsewhere
  <2>3. CASE out # "nil"
    <3>1. Moves(p, Deferred)
      BY <1>5, <2>1, <2>3, DeferredType
         DEF FnReturns, Enter, Deferred, Moves, TypeOK
    <3>2. QED BY <1>2, <1>5, <3>1, DeferredType DEF FnReturns, Elsewhere
  <2>4. QED BY <2>2, <2>3
<1>6. CASE Statement(p)
  <2> DEFINE c == [at |-> "prepare", op |-> "Statement", own |-> FALSE,
                   tx |-> currentTx(EngineOf[p])]
  <2>1. c \in Call /\ Outside(c)
    BY PrepareType DEF Op
  <2>2. Moves(p, c)
    BY <1>6, <2>1 DEF Statement, Prepares, Moves, TypeOK
  <2>3. QED BY <1>2, <1>6, <2>1, <2>2 DEF Statement, Elsewhere
<1>7. CASE CopyIn(p)
  <2> DEFINE c == [at |-> "hook", op |-> "CopyIn", own |-> FALSE, tx |-> NoTx]
  <2>1. c \in Call /\ Outside(c)
    BY DEF Call, Place, Op, TxOrNone, Outside
  <2>2. Moves(p, c)
    BY <1>7, <2>1 DEF CopyIn, Moves, TypeOK
  <2>3. QED BY <1>2, <1>7, <2>1, <2>2 DEF CopyIn, Elsewhere
<1>8. QED BY <1>3, <1>4, <1>5, <1>6, <1>7 DEF UserStep

LEMMA GateShape ==
  ASSUME TypeOK, NoOrphan, NEW p \in Proc, GateStep(p) PROVE ShapeOf(p)
<1>1. At(p, "gate") /\ gate = NoProc /\ gate # p /\ EngineOf[p] \in Engine
  BY TxAssumption DEF GateStep, BeginChecks, EndDetaches
<1>2. call[p] \in Call /\ call[p].tx = NoTx
  BY <1>1 DEF TypeOK, CallOK
<1>3. NoTx \in TxOrNone /\ {"ErrAlreadyInTransaction", "ErrNoTransaction"} \subseteq Error
  BY DEF TxOrNone, Error
<1>4. CASE BeginChecks(p)
  <2>1. CASE ReturnBegin(p, NoTx, "ErrAlreadyInTransaction") /\ UNCHANGED gate
    <3>1. Moves(p, User) /\ Outside(User)
      BY <1>3, <2>1, ReturnBeginMoves
    <3>2. Elsewhere(p)
      BY <1>1, <1>4, <2>1, <3>1, UserType DEF BeginChecks, Elsewhere
    <3>3. QED BY <3>2 DEF ShapeOf
  <2>2. CASE /\ ~inTx[EngineOf[p]] /\ tx[EngineOf[p]] = NoTx
             /\ gate' = p
             /\ call' = [call EXCEPT ![p].at = "driver"]
             /\ UNCHANGED <<frames, last>>
    <3> DEFINE c == [call[p] EXCEPT !.at = "driver"]
    <3>1. c \in Call /\ c.at = "driver" /\ c.op = call[p].op
          /\ call' = [call EXCEPT ![p] = c]
      BY <1>2, <2>2 DEF TypeOK, Call, Place
    <3>2. Begins(p)
      BY <1>4 DEF BeginChecks
    <3>3. Moves(p, c)
      <4> HIDE DEF c
      <4> QED BY <2>2, <3>1, <3>2 DEF Moves, TypeOK, Begins
    <3>4. QED BY <1>1, <1>2, <1>4, <2>2, <3>2, <3>3 DEF BeginChecks, Takes, ShapeOf
  <2>3. QED BY <1>4, <2>1, <2>2 DEF BeginChecks
<1>5. CASE EndDetaches(p)
  <2>1. CASE ReturnEnd(p, NoTx, "ErrNoTransaction") /\ UNCHANGED <<tx, inTx, gate>>
    <3>1. PICK c \in {User, Deferred} : Moves(p, c) /\ Outside(c)
      BY <1>3, <1>5, <2>1, ReturnEndMoves DEF EndDetaches
    <3>2. Elsewhere(p)
      BY <1>1, <1>5, <2>1, <3>1, UserType, DeferredType DEF EndDetaches, Elsewhere
    <3>3. QED BY <3>2 DEF ShapeOf
  <2>2. CASE /\ Active(EngineOf[p])
             /\ call' = [call EXCEPT ![p].at = "driver", ![p].tx = tx[EngineOf[p]]]
             /\ tx' = [tx EXCEPT ![EngineOf[p]] = NoTx]
             /\ inTx' = [inTx EXCEPT ![EngineOf[p]] = FALSE]
             /\ gate' = p
             /\ UNCHANGED <<frames, last>>
    <3> DEFINE c == [call[p] EXCEPT !.at = "driver", !.tx = tx[EngineOf[p]]]
    <3>1. tx[EngineOf[p]] \in TxOrNone
      BY <1>1 DEF TypeOK
    <3>2. c \in Call /\ c.at = "driver" /\ c.op = call[p].op /\ c.own = call[p].own
          /\ call' = [call EXCEPT ![p] = c]
      BY <1>2, <2>2, <3>1 DEF TypeOK, Call, Place
    <3>3. Ends(p)
      BY <1>5 DEF EndDetaches
    <3>4. call[p].own => frames[p] # <<>>
      BY <3>3 DEF TypeOK, CallOK
    <3>5. Moves(p, c)
      <4> HIDE DEF c
      <4> QED BY <2>2, <3>2, <3>4 DEF Moves, TypeOK
    <3>6. Detaches(p)
      BY <1>1, <1>5, <2>2, <3>3, <3>5 DEF EndDetaches, Detaches, Active
    <3>7. QED BY <3>6 DEF ShapeOf
  <2>3. QED BY <1>5, <2>1, <2>2 DEF EndDetaches
<1>6. QED BY <1>4, <1>5 DEF GateStep

LEMMA CallShape ==
  ASSUME TypeOK, NEW p \in Proc, CallStep(p) \/ GiveUpStep(p) PROVE ShapeOf(p)
<1>1. call[p] \in Call /\ CallOK(p) /\ EngineOf[p] \in Engine
  BY TxAssumption DEF TypeOK
<1>2. NoTx \in TxOrNone /\ {"nil", "ErrTxDone", "driver error"} \subseteq Error
  BY DEF TxOrNone, Error
<1>3. CASE BeginInDriver(p)
  <2>1. gate = p /\ Begins(p) /\ At(p, "driver") /\ UNCHANGED <<tx, inTx>>
    BY <1>1, <1>3 DEF BeginInDriver, CallOK
  <2>2. ASSUME NEW x \in Tx, db[x] = "unused",
               db' = [db EXCEPT ![x] = IF call[p].op = "Begin" THEN "open" ELSE "watched"],
               call' = [call EXCEPT ![p].at = "install", ![p].tx = x],
               UNCHANGED <<gate, frames, last>>
        PROVE  ShapeOf(p)
    <3> DEFINE c == [call[p] EXCEPT !.at = "install", !.tx = x]
               s == IF call[p].op = "Begin" THEN "open" ELSE "watched"
    <3>1. c \in Call /\ c.at = "install" /\ c.op = call[p].op
          /\ call' = [call EXCEPT ![p] = c]
      BY <1>1, <2>2 DEF TypeOK, Call, Place, TxOrNone
    <3>2. Moves(p, c)
      <4> HIDE DEF c
      <4> QED BY <2>1, <2>2, <3>1 DEF Moves, TypeOK, Begins
    <3>3. s \in Live /\ db' = [db EXCEPT ![x] = s]
      BY <2>2 DEF Live
    <3>4. Opens(p, x, s)
      <4> HIDE DEF s
      <4> QED BY <2>1, <2>2, <3>2, <3>3 DEF Opens
    <3>5. QED
      <4> HIDE DEF s, c
      <4> QED BY <3>3, <3>4 DEF ShapeOf
  <2>3. CASE /\ ReturnBegin(p, NoTx, "driver error") /\ gate' = NoProc /\ UNCHANGED db
    <3>1. Moves(p, User)
      BY <1>2, <2>3, ReturnBeginMoves
    <3>2. OpenFails(p)
      BY <2>1, <2>3, <3>1 DEF OpenFails
    <3>3. QED BY <3>2 DEF ShapeOf
  <2>4. QED BY <1>3, <2>2, <2>3 DEF BeginInDriver
<1>4. CASE BeginInstalls(p)
  <2>1. gate = p /\ call[p].tx \in TxOrNone
    BY <1>1, <1>4 DEF BeginInstalls, CallOK, Call
  <2>2. Moves(p, User)
    BY <1>2, <1>4, <2>1, ReturnBeginMoves DEF BeginInstalls
  <2>3. Installs(p)
    BY <1>4, <2>1, <2>2 DEF BeginInstalls, Installs
  <2>4. QED BY <2>3 DEF ShapeOf
<1>5. CASE EndInDriver(p)
  <2> DEFINE x == call[p].tx
  <2>1. gate = p /\ Ends(p) /\ At(p, "driver") /\ gate' = NoProc
        /\ UNCHANGED <<tx, inTx>> /\ x \in TxOrNone
    BY <1>1, <1>5 DEF EndInDriver, CallOK, Call
  <2>2. ASSUME NEW err \in {"nil", "ErrTxDone", "driver error"}, ReturnEnd(p, x, err)
        PROVE  \E c \in {User, Deferred} : Moves(p, c)
    BY <1>2, <2>1, <2>2, ReturnEndMoves
  <2>3. CASE db[x] \notin Live /\ UNCHANGED db /\ ReturnEnd(p, x, "ErrTxDone")
    BY <2>1, <2>2, <2>3 DEF Closes, ShapeOf
  <2>4. CASE /\ db[x] \in Live
             /\ db' = [db EXCEPT ![x] = IF call[p].op = "Commit" THEN "committed"
                                        ELSE "rolledback"]
             /\ ReturnEnd(p, x, "nil")
    <3>1. \E s \in Final : db' = [db EXCEPT ![x] = s]
      BY <2>4 DEF Final
    <3>2. QED BY <2>1, <2>2, <2>4, <3>1 DEF Closes, ShapeOf
  <2>5. CASE /\ db[x] \in Live /\ db' = [db EXCEPT ![x] = "indoubt"]
             /\ ReturnEnd(p, x, "driver error")
    <3>1. \E s \in Final : db' = [db EXCEPT ![x] = s]
      BY <2>5 DEF Final
    <3>2. QED BY <2>1, <2>2, <2>5, <3>1 DEF Closes, ShapeOf
  <2>6. QED BY <1>5, <2>3, <2>4, <2>5 DEF EndInDriver
<1>6. CASE ActiveChecked(p)
  <2>1. gate # p /\ frames[p] # <<>>
    BY <1>1, <1>6 DEF ActiveChecked, CallOK, At
  <2>2. CASE Enter(p, "Commit", TRUE) /\ UNCHANGED frames
    <3> DEFINE c == [at |-> "gate", op |-> "Commit", own |-> TRUE, tx |-> NoTx]
    <3>1. c \in Call /\ Outside(c)
      BY DEF Call, Place, Op, TxOrNone, Outside
    <3>2. Moves(p, c)
      BY <1>6, <2>1, <2>2, <3>1 DEF ActiveChecked, Enter, Moves, TypeOK
    <3>3. QED BY <1>6, <2>1, <3>1, <3>2 DEF ActiveChecked, Elsewhere, ShapeOf
  <2>3. CASE /\ Enter(p, "Cancel", TRUE)
             /\ frames' = [frames EXCEPT ![p] =
                             <<[Head(@) EXCEPT !.out = "ErrNoTransaction"]>> \o Tail(@)]
    <3>1. /\ frames' \in [Proc -> Seq(Frame)] /\ frames'[p] # <<>>
          /\ \A q \in Proc \ {p} : frames'[q] = frames[q]
      <4>1. "ErrNoTransaction" \in Error
        BY DEF Error
      <4>2. QED BY <2>1, <2>3, <4>1, MarkType
    <3>2. Moves(p, Deferred)
      BY <1>6, <2>3, <3>1, DeferredType DEF ActiveChecked, Enter, Deferred, Moves, TypeOK
    <3>3. QED BY <1>6, <2>1, <3>2, DeferredType DEF ActiveChecked, Elsewhere, ShapeOf
  <2>4. QED BY <1>6, <2>2, <2>3 DEF ActiveChecked
<1>7. CASE StatementReturns(p)
  <2>1. gate # p
    BY <1>1, <1>7 DEF StatementReturns, CallOK, At
  <2>2. Moves(p, User) /\ Outside(User)
    BY <1>7, UserType DEF StatementReturns, Moves, Outside, User, TypeOK
  <2>3. QED BY <1>7, <2>1, <2>2, UserType DEF StatementReturns, Elsewhere, ShapeOf
<1>8. CASE HookReturns(p)
  <2> DEFINE c == [at |-> "prepare", op |-> "CopyIn", own |-> FALSE,
                   tx |-> currentTx(EngineOf[p])]
  <2>1. gate # p
    BY <1>1, <1>8 DEF HookReturns, CallOK, At
  <2>2. c \in Call /\ Outside(c) /\ User \in Call /\ Outside(User)
    BY PrepareType, UserType DEF Op, Outside, User
  <2>3. Moves(p, c) \/ Moves(p, User)
    BY <1>8, <2>2 DEF HookReturns, Prepares, Moves, User, TypeOK
  <2>4. QED BY <1>8, <2>1, <2>2, <2>3 DEF HookReturns, Elsewhere, ShapeOf
<1>9. CASE BeginGivesUp(p)
  <2>1. gate = p /\ Begins(p) /\ At(p, "driver") /\ UNCHANGED <<tx, inTx, db>>
    BY <1>1, <1>9 DEF BeginGivesUp, CallOK, Begins
  <2>2. Moves(p, User)
    BY <1>2, <1>9, ReturnBeginMoves DEF BeginGivesUp
  <2>3. OpenFails(p)
    BY <1>9, <2>1, <2>2 DEF BeginGivesUp, OpenFails
  <2>4. QED BY <2>3 DEF ShapeOf
<1>10. CASE PoolGivesUp(p)
  <2>1. gate # p
    BY <1>1, <1>10 DEF PoolGivesUp, CallOK, At
  <2>2. Moves(p, User) /\ Outside(User)
    BY <1>10, UserType DEF PoolGivesUp, Moves, Outside, User, TypeOK
  <2>3. QED BY <1>10, <2>1, <2>2, UserType DEF PoolGivesUp, Elsewhere, ShapeOf
<1>11. QED BY <1>3, <1>4, <1>5, <1>6, <1>7, <1>8, <1>9, <1>10 DEF CallStep, GiveUpStep

LEMMA StepShape ==
  ASSUME TypeOK, NoOrphan, [Next]_vars PROVE Shape
<1>1. ASSUME NEW p \in Proc, UserStep(p) PROVE Shape
  BY <1>1, UserShape DEF Shape, ShapeOf
<1>2. QED BY <1>1, GateShape, CallShape DEF Next, Shape

-----------------------------------------------------------------------------
(* Types. *)

\* What a move gives the goroutine that makes it.
LEMMA MoveFacts ==
  ASSUME TypeOK, NEW p \in Proc, NEW c, Moves(p, c)
  PROVE  /\ call' \in [Proc -> Call] /\ call'[p] = c
         /\ \A q \in Proc \ {p} : /\ call'[q] = call[q] /\ frames'[q] = frames[q]
                                 /\ last'[q] = last[q]
  BY DEF Moves, TypeOK

\* The goroutines that do not step keep their obligations if txGate was not
\* theirs and does not become theirs.
LEMMA CallStays ==
  ASSUME TypeOK, NEW p \in Proc, NEW c, Moves(p, c),
         {gate, gate'} \subseteq {p, NoProc} \/ gate' = gate
  PROVE  \A q \in Proc \ {p} : CallOK(q)'
<1> SUFFICES ASSUME NEW q \in Proc \ {p} PROVE CallOK(q)'
  OBVIOUS
<1>1. call'[q] = call[q] /\ frames'[q] = frames[q]
  BY MoveFacts
<1>2. gate' = q <=> gate = q
  BY TxAssumption
<1>3. CallOK(q)
  BY DEF TypeOK
<1>4. QED BY <1>1, <1>2, <1>3 DEF CallOK, At, Begins, Ends

LEMMA TypeStep ==
  ASSUME TypeOK, NoOrphan, [Next]_vars PROVE TypeOK'
<1> DEFINE Others(p) == \A q \in Proc \ {p} : CallOK(q)'
<1>1. Shape
  BY StepShape
<1>2. CASE UNCHANGED vars
  BY <1>2 DEF vars, TypeOK, CallOK, At, Begins, Ends
<1>3. ASSUME NEW p \in Proc, NEW c, Moves(p, c),
             {gate, gate'} \subseteq {p, NoProc} \/ gate' = gate,
             CallOK(p)', db' \in [Tx -> Status],
             tx' \in [Engine -> TxOrNone], inTx' \in [Engine -> BOOLEAN]
      PROVE  TypeOK'
  <2>1. call' \in [Proc -> Call]
    BY <1>3, MoveFacts
  <2>2. \A q \in Proc : CallOK(q)'
    BY <1>3, CallStays
  <2>3. gate' \in Proc \cup {NoProc}
    BY <1>3 DEF TypeOK
  <2>4. QED BY <1>3, <2>1, <2>2, <2>3 DEF TypeOK, Moves
<1>4. ASSUME NEW p \in Proc, Elsewhere(p) PROVE TypeOK'
  <2>1. PICK c \in Call : Moves(p, c) /\ Outside(c)
    BY <1>4 DEF Elsewhere
  <2>2. CallOK(p)'
    BY <1>4, <2>1, MoveFacts DEF Elsewhere, Moves, Outside, CallOK, At, Begins, Ends
  <2>3. QED BY <1>3, <1>4, <2>1, <2>2 DEF Elsewhere, TypeOK
<1>5. ASSUME NEW p \in Proc, Takes(p) PROVE TypeOK'
  <2> DEFINE c == [call[p] EXCEPT !.at = "driver"]
  <2>1. call'[p] = c /\ call[p] \in Call
    BY <1>5, MoveFacts DEF Takes, TypeOK
  <2>2. c.at = "driver" /\ c.op = call[p].op /\ c.tx = NoTx
    BY <1>5, <2>1 DEF Takes, Call
  <2>3. CallOK(p)'
    BY <1>5, <2>1, <2>2 DEF Takes, CallOK, At, Begins, Ends
  <2>4. QED BY <1>3, <1>5, <2>3 DEF Takes, TypeOK
<1>6. ASSUME NEW p \in Proc, NEW x \in Tx, NEW s \in Live, Opens(p, x, s)
      PROVE  TypeOK'
  <2> DEFINE c == [call[p] EXCEPT !.at = "install", !.tx = x]
  <2>1. call'[p] = c /\ call[p] \in Call
    BY <1>6, MoveFacts DEF Opens, TypeOK
  <2>2. c.at = "install" /\ c.op = call[p].op /\ c.tx = x /\ x # NoTx
    BY <2>1, TxAssumption DEF Call
  <2>3. CallOK(p)'
    BY <1>6, <2>1, <2>2 DEF Opens, CallOK, At, Begins, Ends
  <2>4. db' \in [Tx -> Status]
    BY <1>6 DEF Opens, TypeOK, Status
  <2>5. QED BY <1>3, <1>6, <2>3, <2>4 DEF Opens, TypeOK
<1>7. ASSUME NEW p \in Proc, OpenFails(p) PROVE TypeOK'
  <2>1. CallOK(p)'
    BY <1>7, MoveFacts, TxAssumption DEF OpenFails, CallOK, At, User, Begins, Ends
  <2>2. QED BY <1>3, <1>7, <2>1 DEF OpenFails, TypeOK
<1>8. ASSUME NEW p \in Proc, Installs(p) PROVE TypeOK'
  <2>1. CallOK(p)'
    BY <1>8, MoveFacts, TxAssumption DEF Installs, CallOK, At, User, Begins, Ends
  <2>2. tx' \in [Engine -> TxOrNone] /\ inTx' \in [Engine -> BOOLEAN]
    BY <1>8, TxAssumption DEF Installs, TypeOK, Call
  <2>3. QED BY <1>3, <1>8, <2>1, <2>2 DEF Installs, TypeOK
<1>9. ASSUME NEW p \in Proc, Detaches(p) PROVE TypeOK'
  <2> DEFINE c == [call[p] EXCEPT !.at = "driver", !.tx = tx[EngineOf[p]]]
  <2>1. call'[p] = c /\ call[p] \in Call /\ Ends(p) /\ tx[EngineOf[p]] # NoTx
    BY <1>9, MoveFacts DEF Detaches, TypeOK
  <2>2. c.at = "driver" /\ c.op = call[p].op /\ c.own = call[p].own /\ c.tx # NoTx
    BY <2>1 DEF Call
  <2>3. frames'[p] # <<>> \/ ~call[p].own
    <3>1. c.own /\ c.op \in {"Commit", "Cancel"} => frames'[p] # <<>>
      BY <1>9 DEF Detaches, Moves
    <3>2. QED BY <2>1, <2>2, <3>1 DEF Ends
  <2>4. CallOK(p)'
    <3> HIDE DEF c
    <3> QED BY <1>9, <2>1, <2>2, <2>3 DEF Detaches, CallOK, At, Begins, Ends
  <2>5. tx' \in [Engine -> TxOrNone] /\ inTx' \in [Engine -> BOOLEAN]
    BY <1>9, TxAssumption DEF Detaches, TypeOK, TxOrNone
  <2>6. QED BY <1>3, <1>9, <2>4, <2>5 DEF Detaches, TypeOK
<1>10. ASSUME NEW p \in Proc, Closes(p) PROVE TypeOK'
  <2>1. PICK c \in {User, Deferred} : Moves(p, c)
    BY <1>10 DEF Closes
  <2>2. call'[p] = c /\ gate' # p
    BY <1>10, <2>1, MoveFacts, TxAssumption DEF Closes
  <2>3. c = User => CallOK(p)'
    BY <2>2 DEF CallOK, At, User, Begins, Ends
  <2>4. c = Deferred => CallOK(p)'
    <3>1. c = Deferred => frames'[p] # <<>>
      BY <2>1 DEF Moves, Deferred
    <3>2. QED BY <2>2, <3>1 DEF CallOK, At, Deferred, Begins, Ends
  <2>5. CallOK(p)'
    BY <2>3, <2>4
  <2>6. db' \in [Tx -> Status]
    BY <1>10 DEF Closes, TypeOK, Status
  <2>7. QED BY <1>3, <1>10, <2>1, <2>5, <2>6 DEF Closes, TypeOK
<1>11. ASSUME NEW x \in Tx, ContextDone(x) PROVE TypeOK'
  BY <1>11 DEF ContextDone, TypeOK, Status, Final, CallOK, At, Begins, Ends
<1>12. QED BY <1>1, <1>2, <1>4, <1>5, <1>6, <1>7, <1>8, <1>9, <1>10, <1>11 DEF Shape, ShapeOf

-----------------------------------------------------------------------------
(* Sessions.  Each shape is a step of UniTxSession or leaves its variables *)
(* alone, and keeps the transactions of the engines owned.                 *)

LEMMA EngineType == \A p \in Proc : EngineOf[p] \in Engine
  BY TxAssumption

LEMMA SessionType ==
  ASSUME TypeOK, NEW e \in Engine PROVE SessionTx(e) \in TxOrNone
  BY TxAssumption DEF TypeOK, SessionTx, Holds, Call

\* A step that changes neither what the engines refer to nor what the
\* holder of txGate is at leaves every session alone.
SameSessions == \A e \in Engine : SessionTx(e)' = SessionTx(e)

\* A transaction of a session is being opened for engine e.
OpensFor(e, x, s) ==
  /\ x \in Tx /\ s \in Live /\ db[x] = "unused" /\ db' = [db EXCEPT ![x] = s]
  /\ SessionTx(e) = NoTx /\ SessionTx(e)' = x
  /\ \A d \in Engine \ {e} : SessionTx(d)' = SessionTx(d)

\* The transaction of the session of engine e is being ended.
EndsFor(e) ==
  /\ SessionTx(e) # NoTx /\ SessionTx(e)' = NoTx
  /\ \A d \in Engine \ {e} : SessionTx(d)' = SessionTx(d)
  /\ \/ db[SessionTx(e)] \notin Live /\ UNCHANGED db
     \/ /\ db[SessionTx(e)] \in Live
        /\ \E s \in Final : db' = [db EXCEPT ![SessionTx(e)] = s]

SessionShape ==
  \/ SameSessions /\ UNCHANGED db
  \/ \E e \in Engine, x \in Tx, s \in Live : OpensFor(e, x, s)
  \/ \E e \in Engine : EndsFor(e)
  \/ /\ SameSessions
     /\ \E x \in Tx : db[x] = "watched" /\ db' = [db EXCEPT ![x] = "rolledback"]

\* The two fields of each engine agree, and both are clear while txGate is
\* held for it.
FieldsAgree ==
  /\ \A e \in Engine : inTx[e] <=> tx[e] # NoTx
  /\ gate # NoProc => tx[EngineOf[gate]] = NoTx

LEMMA ShapeStep ==
  ASSUME TypeOK, FieldsAgree, Shape PROVE FieldsAgree' /\ SessionShape
<1> USE DEF FieldsAgree
<1>1. CASE UNCHANGED vars
  BY <1>1 DEF vars, SessionShape, SameSessions, SessionTx, Holds
<1>2. ASSUME NEW p \in Proc, Elsewhere(p) PROVE FieldsAgree' /\ SessionShape
  <2>1. PICK c \in Call : Moves(p, c)
    BY <1>2 DEF Elsewhere
  <2>2. gate # NoProc => call'[gate] = call[gate]
    BY <1>2, <2>1, MoveFacts DEF Elsewhere, TypeOK
  <2>3. SameSessions
    BY <1>2, <2>2 DEF Elsewhere, SameSessions, SessionTx, Holds
  <2>4. QED BY <1>2, <2>3 DEF Elsewhere, SessionShape
<1>3. ASSUME NEW p \in Proc, Takes(p) PROVE FieldsAgree' /\ SessionShape
  <2>1. call'[p].tx = NoTx
    BY <1>3, MoveFacts DEF Takes, TypeOK, Call
  <2>2. SameSessions
    BY <1>3, <2>1 DEF Takes, SameSessions, SessionTx, Holds
  <2>3. QED BY <1>3, <2>2 DEF Takes, SessionShape
<1>4. ASSUME NEW p \in Proc, NEW x \in Tx, NEW s \in Live, Opens(p, x, s)
      PROVE  FieldsAgree' /\ SessionShape
  <2>1. gate = p /\ gate' = p /\ p # NoProc /\ x # NoTx /\ EngineOf[p] \in Engine
    BY <1>4, TxAssumption DEF Opens
  <2>2. call'[p].tx = x
    <3>1. call'[p] = [call[p] EXCEPT !.at = "install", !.tx = x]
      BY <1>4, MoveFacts DEF Opens
    <3>2. call[p] \in Call
      BY DEF TypeOK
    <3>3. QED BY <3>1, <3>2 DEF Call
  <2>3. call[p].tx = NoTx
    BY <1>4 DEF Opens, TypeOK, CallOK
  <2>4. OpensFor(EngineOf[p], x, s)
    BY <1>4, <2>1, <2>2, <2>3 DEF Opens, OpensFor, SessionTx, Holds
  <2>5. QED BY <1>4, <2>1, <2>4 DEF Opens, SessionShape
<1>5. ASSUME NEW p \in Proc, OpenFails(p) PROVE FieldsAgree' /\ SessionShape
  <2>1. gate = p /\ call[p].tx = NoTx
    BY <1>5 DEF OpenFails, TypeOK, CallOK
  <2>2. SameSessions
    BY <1>5, <2>1 DEF OpenFails, SameSessions, SessionTx, Holds
  <2>3. QED BY <1>5, <2>2 DEF OpenFails, SessionShape
<1>6. ASSUME NEW p \in Proc, Installs(p) PROVE FieldsAgree' /\ SessionShape
  <2>1. gate = p /\ p # NoProc /\ call[p].tx # NoTx /\ EngineOf[p] \in Engine
    BY <1>6, TxAssumption DEF Installs, TypeOK, CallOK
  <2>2. SameSessions
    BY <1>6, <2>1 DEF Installs, SameSessions, SessionTx, Holds, TypeOK
  <2>3. FieldsAgree'
    BY <1>6, <2>1 DEF Installs, TypeOK
  <2>4. QED BY <1>6, <2>2, <2>3 DEF Installs, SessionShape
<1>7. ASSUME NEW p \in Proc, Detaches(p) PROVE FieldsAgree' /\ SessionShape
  <2>1. /\ gate = NoProc /\ gate' = p /\ p # NoProc /\ EngineOf[p] \in Engine
        /\ tx[EngineOf[p]] # NoTx
    BY <1>7, TxAssumption DEF Detaches
  <2>2. call'[p].tx = tx[EngineOf[p]]
    <3>1. call'[p] = [call[p] EXCEPT !.at = "driver", !.tx = tx[EngineOf[p]]]
      BY <1>7, MoveFacts DEF Detaches
    <3>2. call[p] \in Call
      BY DEF TypeOK
    <3>3. QED BY <3>1, <3>2 DEF Call
  <2>3. SameSessions
    BY <1>7, <2>1, <2>2 DEF Detaches, SameSessions, SessionTx, Holds, TypeOK
  <2>4. FieldsAgree'
    BY <1>7, <2>1 DEF Detaches, TypeOK
  <2>5. QED BY <1>7, <2>3, <2>4 DEF Detaches, SessionShape
<1>8. ASSUME NEW p \in Proc, Closes(p) PROVE FieldsAgree' /\ SessionShape
  <2>1. /\ gate = p /\ gate' = NoProc /\ p # NoProc /\ EngineOf[p] \in Engine
        /\ tx[EngineOf[p]] = NoTx
    BY <1>8, TxAssumption DEF Closes
  <2>2. call[p].tx # NoTx
    BY <1>8 DEF Closes, TypeOK, CallOK, Begins, Ends
  <2>3. EndsFor(EngineOf[p])
    BY <1>8, <2>1, <2>2 DEF Closes, EndsFor, SessionTx, Holds
  <2>4. QED BY <1>8, <2>1, <2>3 DEF Closes, SessionShape
<1>9. ASSUME NEW x \in Tx, ContextDone(x) PROVE FieldsAgree' /\ SessionShape
  <2>1. SameSessions
    BY <1>9 DEF ContextDone, SameSessions, SessionTx, Holds
  <2>2. QED BY <1>9, <2>1 DEF ContextDone, SessionShape
<1>10. QED BY <1>1, <1>2, <1>3, <1>4, <1>5, <1>6, <1>7, <1>8, <1>9 DEF Shape, ShapeOf

\* No transaction is orphaned by a step of a session.
LEMMA OwnerStep ==
  ASSUME TypeOK, TypeOK', NoOrphan, FieldsAgree', SessionShape PROVE NoOrphan'
<1> DEFINE cur(e) == SessionTx(e)
           nxt(e) == SessionTx(e)'
<1>1. /\ \A x \in Tx : db[x] \in Live => \E e \in Engine : cur(e) = x
      /\ \A d, e \in Engine : cur(d) = cur(e) /\ cur(e) # NoTx => d = e
      /\ \A e \in Engine : cur(e) # NoTx => db[cur(e)] # "unused"
  BY DEF NoOrphan
<1>2. \A e \in Engine : cur(e) \in Tx \cup {NoTx}
  BY SessionType DEF TxOrNone
<1>3. db \in [Tx -> Status] /\ NoTx \notin Tx
  BY TxAssumption DEF TypeOK
<1>4. SUFFICES /\ \A x \in Tx : db'[x] \in Live => \E e \in Engine : nxt(e) = x
               /\ \A d, e \in Engine : nxt(d) = nxt(e) /\ nxt(e) # NoTx => d = e
               /\ \A e \in Engine : nxt(e) # NoTx => db'[nxt(e)] # "unused"
  BY DEF NoOrphan, FieldsAgree, Live
<1>5. CASE SameSessions /\ UNCHANGED db
  BY <1>1, <1>5 DEF SameSessions
<1>6. ASSUME NEW e \in Engine, NEW x \in Tx, NEW s \in Live, OpensFor(e, x, s)
      PROVE  /\ \A y \in Tx : db'[y] \in Live => \E d \in Engine : nxt(d) = y
             /\ \A c, d \in Engine : nxt(c) = nxt(d) /\ nxt(d) # NoTx => c = d
             /\ \A d \in Engine : nxt(d) # NoTx => db'[nxt(d)] # "unused"
  <2>1. /\ nxt(e) = x /\ cur(e) = NoTx /\ \A d \in Engine \ {e} : nxt(d) = cur(d)
        /\ db[x] = "unused" /\ db'[x] \in Live /\ \A y \in Tx \ {x} : db'[y] = db[y]
    BY <1>3, <1>6 DEF OpensFor
  <2>2. \A d \in Engine : cur(d) # x
    BY <1>1, <1>3, <2>1
  <2> HIDE DEF cur, nxt
  <2>3. \A y \in Tx : db'[y] \in Live => \E d \in Engine : nxt(d) = y
    BY <1>1, <1>3, <2>1
  <2>4. \A c, d \in Engine : nxt(c) = nxt(d) /\ nxt(d) # NoTx => c = d
    BY <1>1, <2>1, <2>2
  <2>5. \A d \in Engine : nxt(d) # NoTx => db'[nxt(d)] # "unused"
    BY <1>1, <1>2, <2>1, <2>2 DEF Live
  <2>6. QED BY <2>3, <2>4, <2>5
<1>7. ASSUME NEW e \in Engine, EndsFor(e)
      PROVE  /\ \A y \in Tx : db'[y] \in Live => \E d \in Engine : nxt(d) = y
             /\ \A c, d \in Engine : nxt(c) = nxt(d) /\ nxt(d) # NoTx => c = d
             /\ \A d \in Engine : nxt(d) # NoTx => db'[nxt(d)] # "unused"
  <2>1. /\ nxt(e) = NoTx /\ cur(e) \in Tx /\ \A d \in Engine \ {e} : nxt(d) = cur(d)
        /\ db'[cur(e)] \notin Live /\ \A y \in Tx \ {cur(e)} : db'[y] = db[y]
    BY <1>2, <1>3, <1>7 DEF EndsFor, Live, Final
  <2> HIDE DEF cur, nxt
  <2>2. \A y \in Tx : db'[y] \in Live => \E d \in Engine : nxt(d) = y
    BY <1>1, <2>1
  <2>3. \A c, d \in Engine : nxt(c) = nxt(d) /\ nxt(d) # NoTx => c = d
    BY <1>1, <2>1
  <2>4. \A d \in Engine : nxt(d) # NoTx => db'[nxt(d)] # "unused"
    BY <1>1, <1>2, <2>1
  <2>5. QED BY <2>2, <2>3, <2>4
<1>8. ASSUME SameSessions, NEW x \in Tx, db[x] = "watched",
             db' = [db EXCEPT ![x] = "rolledback"]
      PROVE  /\ \A y \in Tx : db'[y] \in Live => \E d \in Engine : nxt(d) = y
             /\ \A c, d \in Engine : nxt(c) = nxt(d) /\ nxt(d) # NoTx => c = d
             /\ \A d \in Engine : nxt(d) # NoTx => db'[nxt(d)] # "unused"
  <2>1. \A d \in Engine : nxt(d) = cur(d)
    BY <1>8 DEF SameSessions
  <2>2. db'[x] = "rolledback" /\ \A y \in Tx \ {x} : db'[y] = db[y]
    BY <1>3, <1>8
  <2> HIDE DEF cur, nxt
  <2>3. QED BY <1>1, <1>2, <2>1, <2>2 DEF Live
<1>9. QED BY <1>5, <1>6, <1>7, <1>8 DEF SessionShape

-----------------------------------------------------------------------------
(* The theorems. *)

IInv == TypeOK /\ NoOrphan

LEMMA InitInv == Init => IInv
<1> SUFFICES ASSUME Init PROVE IInv
  OBVIOUS
<1>1. TypeOK
  BY UserType, EmptySeq, TxAssumption
     DEF Init, TypeOK, CallOK, At, User, Begins, Ends, TxOrNone, Status,
         Outcome, Error
<1>2. \A e \in Engine : SessionTx(e) = NoTx
  BY DEF Init, SessionTx, Holds
<1>3. NoOrphan
  BY <1>2 DEF Init, NoOrphan, Live
<1>4. QED BY <1>1, <1>3 DEF IInv

LEMMA StepSession == IInv /\ [Next]_vars => IInv' /\ SessionShape
<1> SUFFICES ASSUME IInv, [Next]_vars PROVE IInv' /\ SessionShape
  OBVIOUS
<1>1. TypeOK /\ NoOrphan /\ FieldsAgree
  BY DEF IInv, NoOrphan, FieldsAgree
<1>2. TypeOK'
  BY <1>1, TypeStep
<1>3. FieldsAgree' /\ SessionShape
  BY <1>1, StepShape, ShapeStep
<1>4. NoOrphan'
  BY <1>1, <1>2, <1>3, OwnerStep
<1>5. QED BY <1>2, <1>3, <1>4 DEF IInv

\* BeginCtx, Commit, Cancel and WithTx keep the types and the owners.
THEOREM Invariance == Spec => []IInv
  BY InitInv, StepSession, PTL DEF Spec

\* Types, and the exclusion of txGate: whoever is in the driver for a
\* transaction, or installs one, is the only one.
THEOREM TypeCorrect == Spec => []TypeOK
<1>1. IInv => TypeOK
  BY DEF IInv
<1>2. QED BY <1>1, Invariance, PTL

\* BeginCtx, Commit and Cancel never lose a transaction of the database,
\* though all three release mu around the driver's call.
THEOREM Owned == Spec => []NoOrphan
<1>1. IInv => NoOrphan
  BY DEF IInv
<1>2. QED BY <1>1, Invariance, PTL

\* The engines implement sessions: for any number of goroutines on them, a
\* transaction is opened for an engine that has none, and ended once.
THEOREM Refinement == Spec => ImplementsSession
<1>1. ASSUME Init PROVE Session!Init
  BY <1>1 DEF Init, Session!Init, SessionTx, Holds
<1>2. ASSUME IInv, SessionShape PROVE [Session!Next]_Session!vars
  <2>1. TypeOK /\ \A e \in Engine : SessionTx(e) \in Tx \cup {NoTx}
    BY <1>2, SessionType DEF IInv, TxOrNone
  <2>2. CASE SameSessions /\ UNCHANGED db
    BY <2>2 DEF SameSessions, Session!vars
  <2>3. ASSUME NEW e \in Engine, NEW x \in Tx, NEW s \in Live, OpensFor(e, x, s)
        PROVE  Session!Next
    <3>1. s \in Session!Live
      BY DEF Live, Session!Live
    <3>2. Session!Open(e)
      BY <2>3, <3>1 DEF OpensFor, Session!Open
    <3>3. QED BY <3>2 DEF Session!Next
  <2>4. ASSUME NEW e \in Engine, EndsFor(e) PROVE Session!Next
    <3>1. db[SessionTx(e)] # "unused" /\ db[SessionTx(e)] \in Status
      BY <1>2, <2>1, <2>4 DEF IInv, NoOrphan, EndsFor, TypeOK
    <3>2. Session!Live = Live /\ Session!Final = Final
      BY DEF Session!Live, Session!Final, Live, Final
    <3>3. db[SessionTx(e)] \in Live \/ db[SessionTx(e)] \in Final
      BY <3>1 DEF Status
    <3>4. [d \in Engine |-> SessionTx(d)]'
            = [[d \in Engine |-> SessionTx(d)] EXCEPT ![e] = NoTx]
      <4>1. \A d \in Engine :
              SessionTx(d)' = IF d = e THEN NoTx ELSE SessionTx(d)
        BY <2>4 DEF EndsFor
      <4>2. [d \in Engine |-> SessionTx(d)]'
              = [d \in Engine |-> IF d = e THEN NoTx ELSE SessionTx(d)]
        BY <4>1, Zenon
      <4>3. QED BY <4>2
    <3>5. [d \in Engine |-> SessionTx(d)][e] = SessionTx(e)
      OBVIOUS
    <3>6. \/ db[SessionTx(e)] \in Final /\ UNCHANGED db
          \/ /\ db[SessionTx(e)] \in Live
             /\ \E s \in Final : db' = [db EXCEPT ![SessionTx(e)] = s]
      BY <2>4, <3>3 DEF EndsFor
    <3>7. SessionTx(e) # NoTx
      BY <2>4 DEF EndsFor
    <3>8. Session!End(e)
      BY <3>2, <3>4, <3>5, <3>6, <3>7, Zenon DEF Session!End
    <3>9. QED BY <3>8 DEF Session!Next
  <2>5. ASSUME SameSessions, NEW x \in Tx, db[x] = "watched",
               db' = [db EXCEPT ![x] = "rolledback"]
        PROVE  Session!Next
    <3>1. Session!Expire(x)
      BY <2>5 DEF SameSessions, Session!Expire
    <3>2. QED BY <3>1 DEF Session!Next
  <2>6. QED BY <1>2, <2>2, <2>3, <2>4, <2>5 DEF SessionShape
<1>3. IInv /\ [Next]_vars => [Session!Next]_Session!vars
  BY <1>2, StepSession
<1>4. QED BY <1>1, <1>3, Invariance, PTL
          DEF Spec, ImplementsSession, Session!Spec

\* Db.BeginTx, which is called with txGate held, finds a connection if the
\* pool has one for every engine: each transaction that holds one belongs to
\* another engine than the one that begins (BeginCtx, UniEngine.go).  Without
\* it CallsReturn would be wrong; README.md:173 leaves the size to the caller.
THEOREM BeginFindsConnection == Spec => []BeginServed
<1>1. ASSUME IInv PROVE BeginServed
  <2> SUFFICES ASSUME IsFiniteSet(Engine), MaxConns >= Cardinality(Engine), NEW p \in Proc,
                      At(p, "driver"), Begins(p)
               PROVE  ConnFree
    BY DEF BeginServed
  <2> DEFINE e == EngineOf[p]
             others == Engine \ {e}
             held == {x \in Tx : db[x] \in Live}
             owner == [x \in held |-> CHOOSE d \in Engine : SessionTx(d) = x]
  <2>1. TypeOK /\ NoOrphan /\ e \in Engine /\ NoTx \notin Tx
    BY <1>1, TxAssumption DEF IInv
  <2>2. SessionTx(e) = NoTx
    <3>1. gate = p /\ call[p].tx = NoTx /\ p # NoProc
      BY <2>1, TxAssumption DEF TypeOK, CallOK
    <3>2. QED BY <2>1, <3>1 DEF SessionTx, Holds, NoOrphan
  <2>3. \A x \in held : owner[x] \in Engine /\ SessionTx(owner[x]) = x
    BY <2>1 DEF NoOrphan
  <2>4. \A x \in held : owner[x] \in others
    BY <2>1, <2>2, <2>3
  <2>5. owner \in Injection(held, others)
    <3>1. owner \in [held -> others]
      BY <2>4
    <3>2. \A x, y \in held : owner[x] = owner[y] => x = y
      BY <2>3
    <3>3. QED BY <3>1, <3>2 DEF Injection, IsInjective
  <2>6. /\ IsFiniteSet(others) /\ Cardinality(Engine) \in Nat
        /\ Cardinality(others) = Cardinality(Engine) - 1
    BY <2>1, FS_RemoveElement, FS_CardinalityType
  <2>7. IsFiniteSet(held) /\ Cardinality(held) <= Cardinality(others)
    <3> HIDE DEF owner, held, others
    <3>1. QED BY <2>5, <2>6, FS_Injection
  <2>8. Cardinality(held) \in Nat
    BY <2>7, FS_CardinalityType
  <2>9. Cardinality(held) < MaxConns
    <3> HIDE DEF held, others
    <3>1. QED BY <2>6, <2>7, <2>8, TxAssumption
  <2>10. QED BY <2>9 DEF ConnFree
<1>2. QED BY <1>1, Invariance, PTL
=============================================================================
