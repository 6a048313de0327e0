-------------------------- MODULE UniTxAtomicProofs --------------------------
(***************************************************************************)
(* WithTx is all or nothing, and what its callback does is inside of the   *)
(* transaction, for goroutines with an engine each.                        *)
(*                                                                         *)
(* The invariant says of one goroutine what its place in the code, its     *)
(* frame, its engine and the database have to do with each other.  The     *)
(* other goroutines do not touch any of it, because the transactions of    *)
(* two engines differ (NoOrphan).                                          *)
(***************************************************************************)
EXTENDS UniTxProofs

\* The end of a transaction that agrees with what the callback returned.
Ending(op, out) ==
  \/ op = "Commit" /\ out = "nil"
  \/ op = "Cancel" /\ out \in {"error", "panic"}

\* The callback has not returned, or its success is not acted upon yet.
Running(p, x) ==
  /\ \/ call[p].at \in {"user", "prepare", "active"}
     \/ call[p].at = "gate" /\ call[p].own /\ call[p].op = "Begin"
  /\ Head(frames[p]).out = "nil"
  /\ tx[EngineOf[p]] = x /\ db[x] = "open"
  /\ call[p].at = "prepare" => call[p].tx = x

EndsNext(p, x) ==
  /\ call[p].at = "gate" /\ call[p].own /\ Ending(call[p].op, Head(frames[p]).out)
  /\ tx[EngineOf[p]] = x /\ db[x] = "open"

EndsNow(p, x) ==
  /\ call[p].at = "driver" /\ call[p].own /\ Ending(call[p].op, Head(frames[p]).out)
  /\ call[p].tx = x /\ tx[EngineOf[p]] = NoTx /\ db[x] = "open"

\* The driver has failed to commit, and the deferred Cancel has nothing to do.
Lost(p, x) ==
  /\ call[p].at = "gate" /\ call[p].own /\ call[p].op = "Cancel"
  /\ Head(frames[p]).out = "driver error"
  /\ tx[EngineOf[p]] = NoTx /\ db[x] = "indoubt"

Framed(p) ==
  LET x == Head(frames[p]).tx
  IN /\ Tail(frames[p]) = <<>> /\ x \in Tx
     /\ Running(p, x) \/ EndsNext(p, x) \/ EndsNow(p, x) \/ Lost(p, x)

\* How the last WithTx came back agrees with what became of its transaction.
LastRight(p) ==
  LET l == last[p]
  IN l.began # NoTx =>
       /\ l.began \in Tx /\ db[l.began] \in Final
       /\ l.err = "nil" => db[l.began] = "committed"
       /\ l.err \in {"error", "panic"} => db[l.began] # "committed"

Right(p) ==
  /\ call[p].own => call[p].op \in {"Begin", "Commit", "Cancel"}
  /\ At(p, "install") /\ call[p].op = "Begin" => db[call[p].tx] = "open"
  /\ At(p, "hook") => frames[p] = <<>>
  /\ frames[p] # <<>> => Framed(p)
  /\ LastRight(p)

-----------------------------------------------------------------------------
(* The steps of the others. *)

\* What a transaction has come to does not change.
LEMMA FinalStays ==
  ASSUME IInv, [Next]_vars, NEW x \in Tx, db[x] \in Final PROVE db'[x] = db[x]
<1>1. SessionShape /\ db \in [Tx -> Status]
  BY StepSession DEF IInv, TypeOK
<1>2. \A e \in Engine : SessionTx(e) \in TxOrNone
  BY SessionType DEF IInv
<1>3. db[x] \notin Live /\ db[x] # "unused" /\ db[x] # "watched"
  BY DEF Final, Live
<1>4. CASE UNCHANGED db
  BY <1>4
<1>5. ASSUME NEW e \in Engine, NEW y \in Tx, NEW s \in Live, OpensFor(e, y, s)
      PROVE  db'[x] = db[x]
  BY <1>1, <1>3, <1>5 DEF OpensFor
<1>6. ASSUME NEW e \in Engine, EndsFor(e) PROVE db'[x] = db[x]
  BY <1>1, <1>3, <1>6 DEF EndsFor
<1>7. ASSUME NEW y \in Tx, db[y] = "watched", db' = [db EXCEPT ![y] = "rolledback"]
      PROVE  db'[x] = db[x]
  BY <1>1, <1>3, <1>7
<1>8. QED BY <1>1, <1>4, <1>5, <1>6, <1>7 DEF SessionShape

\* A step does not change what concerns goroutine p.
Apart(p) ==
  /\ tx'[EngineOf[p]] = tx[EngineOf[p]] /\ call'[p] = call[p]
  /\ frames'[p] = frames[p] /\ last'[p] = last[p]
  /\ \A x \in Tx : /\ db[x] \in Final => db'[x] = db[x]
                   /\ db[x] = "open" /\ (tx[EngineOf[p]] = x \/ gate = p) => db'[x] = "open"

\* The step of a goroutine leaves another with an engine of its own alone.
LEMMA OthersApart ==
  ASSUME IInv, Exclusive, NEW p \in Proc, NEW q \in Proc, q # p,
         [Next]_vars, ShapeOf(q)
  PROVE  Apart(p)
<1>1. TypeOK /\ EngineOf[p] \in Engine /\ EngineOf[q] \in Engine /\ EngineOf[p] # EngineOf[q]
      /\ p # NoProc /\ q # NoProc
  BY TxAssumption DEF IInv, Exclusive
<1>2. \A x \in Tx : db[x] \in Final => db'[x] = db[x]
  BY FinalStays
<1>3. \E c : Moves(q, c)
  BY DEF ShapeOf, Elsewhere, Takes, Opens, OpenFails, Installs, Detaches, Closes
<1>4. call'[p] = call[p] /\ frames'[p] = frames[p] /\ last'[p] = last[p]
  BY <1>1, <1>3, MoveFacts
<1>5. tx'[EngineOf[p]] = tx[EngineOf[p]]
  BY <1>1 DEF ShapeOf, Elsewhere, Takes, Opens, OpenFails, Installs, Detaches, Closes, TypeOK
<1>6. ASSUME NEW x \in Tx, db[x] = "open", tx[EngineOf[p]] = x \/ gate = p
      PROVE  db'[x] = "open"
  <2>1. CASE UNCHANGED db
    BY <1>6, <2>1
  <2>2. ASSUME NEW y \in Tx, NEW s \in Live, Opens(q, y, s) PROVE db'[x] = "open"
    BY <1>1, <1>6, <2>2 DEF Opens, TypeOK
  <2>3. CASE Closes(q)
    <3>1. gate = q /\ call[q].tx # NoTx
      BY <1>1, <2>3 DEF Closes, TypeOK, CallOK, Begins, Ends
    <3>2. SessionTx(EngineOf[q]) = call[q].tx /\ SessionTx(EngineOf[p]) = tx[EngineOf[p]]
      BY <1>1, <3>1 DEF SessionTx, Holds
    <3>3. tx[EngineOf[p]] = x /\ x # NoTx
      BY <1>1, <1>6, <3>1, TxAssumption
    <3>4. call[q].tx # x
      BY <1>1, <3>2, <3>3 DEF IInv, NoOrphan
    <3>5. QED BY <1>1, <1>6, <2>3, <3>4 DEF Closes, TypeOK
  <2>4. QED
    BY <2>1, <2>2, <2>3 DEF ShapeOf, Elsewhere, Takes, OpenFails, Installs, Detaches
<1>7. QED BY <1>2, <1>4, <1>5, <1>6 DEF Apart

\* So does the end of a context: a transaction WithTx opened is not watched.
LEMMA ContextApart ==
  ASSUME IInv, NEW p \in Proc, NEW x \in Tx, ContextDone(x) PROVE Apart(p)
  BY DEF ContextDone, Apart, IInv, TypeOK, Final

\* What is not touched stays right.
LEMMA ApartRight ==
  ASSUME IInv, NEW p \in Proc, Right(p), Apart(p) PROVE Right(p)'
<1>1. TypeOK /\ EngineOf[p] \in Engine /\ call[p] \in Call
  BY TxAssumption DEF IInv, TypeOK
<1>2. LastRight(p)'
  BY DEF Right, LastRight, Apart
<1>3. ASSUME At(p, "install"), call[p].op = "Begin" PROVE db'[call[p].tx] = "open"
  <2>1. db[call[p].tx] = "open" /\ gate = p /\ call[p].tx \in Tx
    BY <1>1, <1>3 DEF Right, TypeOK, CallOK, Call, TxOrNone
  <2>2. QED BY <2>1 DEF Apart
<1>4. ASSUME frames[p] # <<>> PROVE Framed(p)'
  <2> DEFINE x == Head(frames[p]).tx
  <2>1. /\ Tail(frames[p]) = <<>> /\ x \in Tx
        /\ Running(p, x) \/ EndsNext(p, x) \/ EndsNow(p, x) \/ Lost(p, x)
    BY <1>4 DEF Right, Framed
  <2>2. EndsNow(p, x) => gate = p
    BY <1>1 DEF EndsNow, TypeOK, CallOK, At
  <2>3. Running(p, x) => Running(p, x)'
    BY <2>1 DEF Running, Apart
  <2>4. EndsNext(p, x) => EndsNext(p, x)'
    BY <2>1 DEF EndsNext, Apart
  <2>5. EndsNow(p, x) => EndsNow(p, x)'
    BY <2>1, <2>2 DEF EndsNow, Apart
  <2>6. Lost(p, x) => Lost(p, x)'
    BY <2>1 DEF Lost, Apart, Final
  <2>7. Head(frames'[p]).tx = x /\ Tail(frames'[p]) = <<>>
    BY <2>1 DEF Apart
  <2>8. QED BY <2>1, <2>3, <2>4, <2>5, <2>6, <2>7 DEF Framed
<1>5. QED BY <1>2, <1>3, <1>4 DEF Right, At, Apart

-----------------------------------------------------------------------------
(* The steps of the goroutine itself. *)

\* A stack of one frame, marked, pushed.
LEMMA OneFrame ==
  ASSUME NEW f PROVE <<f>> # <<>> /\ Head(<<f>>) = f /\ Tail(<<f>>) = <<>>
  OBVIOUS

\* A mark on the only frame leaves it the only one.
LEMMA MarkOne ==
  ASSUME NEW s \in Seq(Frame), s # <<>>, Tail(s) = <<>>, NEW out \in Error,
         NEW t, t = <<[Head(s) EXCEPT !.out = out]>> \o Tail(s)
  PROVE  t # <<>> /\ Tail(t) = <<>> /\ Head(t).tx = Head(s).tx /\ Head(t).out = out
<1> DEFINE f == [Head(s) EXCEPT !.out = out]
<1>1. f \in Frame /\ f.tx = Head(s).tx /\ f.out = out
  BY PopType DEF Frame
<1> HIDE DEF f
<1>2. <<f>> \in Seq(Frame)
  BY <1>1
<1>3. <<f>> \o <<>> = <<f>>
  BY <1>2, ConcatEmptySeq
<1>4. t = <<f>>
  BY <1>3 DEF f
<1>5. QED BY <1>1, <1>4, OneFrame

\* A frame put on an empty stack is the only one.
LEMMA PushOne ==
  ASSUME NEW f \in Frame, NEW t, t = <<f>> \o <<>>
  PROVE  t # <<>> /\ Tail(t) = <<>> /\ Head(t) = f
<1>1. <<f>> \in Seq(Frame)
  OBVIOUS
<1>2. t = <<f>>
  BY <1>1, ConcatEmptySeq
<1>3. QED BY <1>2, OneFrame

\* What the place of a goroutine says of its frame.
LEMMA FrameFacts ==
  ASSUME IInv, NEW p \in Proc, Right(p), frames[p] # <<>>
  PROVE  LET x == Head(frames[p]).tx
         IN /\ x \in Tx /\ x # NoTx /\ Tail(frames[p]) = <<>> /\ frames[p] \in Seq(Frame)
            /\ ~At(p, "hook") /\ ~At(p, "install")
            /\ At(p, "user") \/ At(p, "prepare") \/ At(p, "active") => Running(p, x)
            /\ At(p, "gate") /\ Begins(p) => Running(p, x)
            /\ At(p, "gate") /\ Ends(p) => EndsNext(p, x) \/ Lost(p, x)
            /\ At(p, "driver") => EndsNow(p, x) /\ Ends(p)
<1>1. frames[p] \in Seq(Frame)
  BY DEF IInv, TypeOK
<1>2. QED
  BY <1>1, TxAssumption
     DEF Right, Framed, Running, EndsNext, EndsNow, Lost, Ending, At, Begins, Ends

\* The last WithTx stays right unless the step says otherwise.
LEMMA LastStays ==
  ASSUME IInv, [Next]_vars, NEW p \in Proc, Right(p), last'[p] = last[p]
  PROVE  LastRight(p)'
<1>1. last[p].began \in Tx /\ db[last[p].began] \in Final
        => db'[last[p].began] = db[last[p].began]
  BY FinalStays
<1>2. QED BY <1>1 DEF Right, LastRight

\* A step to the gate, without or with a frame.
LEMMA UserRight ==
  ASSUME IInv, ~Mixing, NEW p \in Proc, Right(p), UserStep(p), [Next]_vars
  PROVE  Right(p)'
<1> DEFINE x == Head(frames[p]).tx
           e == EngineOf[p]
<1>1. /\ At(p, "user") /\ UNCHANGED <<tx, inTx, gate, db, last>>
      /\ frames \in [Proc -> Seq(Frame)] /\ call \in [Proc -> Call]
      /\ e \in Engine
  BY TxAssumption
     DEF UserStep, CallTx, WithTx, FnReturns, Statement, CopyIn, IInv, TypeOK
<1>2. LastRight(p)'
  BY <1>1, LastStays
<1>3. frames[p] # <<>> =>
        /\ x \in Tx /\ x # NoTx /\ Tail(frames[p]) = <<>>
        /\ Head(frames[p]).out = "nil" /\ tx[e] = x /\ db[x] = "open" /\ inTx[e]
  <2> SUFFICES ASSUME frames[p] # <<>>
               PROVE  /\ x \in Tx /\ x # NoTx /\ Tail(frames[p]) = <<>>
                      /\ Head(frames[p]).out = "nil" /\ tx[e] = x /\ db[x] = "open" /\ inTx[e]
    OBVIOUS
  <2>1. x \in Tx /\ x # NoTx /\ Tail(frames[p]) = <<>> /\ Running(p, x)
    BY <1>1, FrameFacts
  <2>2. inTx[e] <=> tx[e] # NoTx
    BY <1>1 DEF IInv, NoOrphan
  <2>3. QED BY <2>1, <2>2 DEF Running
<1>4. ASSUME NEW op \in {"Begin", "BeginCtx", "Commit", "Cancel"}, CallTx(p, op)
      PROVE  Right(p)'
  <2>1. /\ frames'[p] = <<>>
        /\ call'[p] = [at |-> "gate", op |-> op, own |-> FALSE, tx |-> NoTx]
    BY <1>1, <1>4 DEF CallTx, Enter
  <2>2. QED BY <1>2, <2>1 DEF Right, At
<1>5. CASE WithTx(p)
  <2>1. /\ frames'[p] = frames[p]
        /\ call'[p] = [at |-> "gate", op |-> "Begin", own |-> TRUE, tx |-> NoTx]
    BY <1>1, <1>5 DEF WithTx, Enter
  <2>2. frames[p] # <<>> => Framed(p)'
    BY <1>1, <1>3, <2>1 DEF Framed, Running
  <2>3. QED BY <1>2, <2>1, <2>2 DEF Right, At
<1>6. ASSUME NEW out \in {"nil", "error", "panic"}, FnReturns(p, out) PROVE Right(p)'
  <2>1. /\ frames[p] # <<>> /\ frames[p] \in Seq(Frame) /\ out \in Error
        /\ frames'[p] = <<[Head(frames[p]) EXCEPT !.out = out]>> \o Tail(frames[p])
    BY <1>1, <1>6 DEF FnReturns, Error
  <2>2. /\ frames'[p] # <<>> /\ Tail(frames'[p]) = <<>>
        /\ Head(frames'[p]).tx = x /\ Head(frames'[p]).out = out
    <3> DEFINE t == frames'[p]
    <3> HIDE DEF t
    <3>1. t # <<>> /\ Tail(t) = <<>> /\ Head(t).tx = x /\ Head(t).out = out
      BY <1>3, <2>1, MarkOne, ZenonT(60) DEF t
    <3>2. QED BY <3>1 DEF t
  <2>3. CASE out = "nil"
    <3>1. call'[p] = [call[p] EXCEPT !.at = "active"] /\ call[p] \in Call
      BY <1>1, <1>6, <2>3 DEF FnReturns
    <3>2. call'[p].at = "active" /\ call'[p].own = call[p].own /\ call'[p].op = call[p].op
      BY <3>1 DEF Call
    <3>3. Framed(p)'
      BY <1>1, <1>3, <2>1, <2>2, <2>3, <3>2 DEF Framed, Running
    <3>4. QED BY <1>2, <3>2, <3>3 DEF Right, At
  <2>4. CASE out # "nil"
    <3>1. call'[p] = [at |-> "gate", op |-> "Cancel", own |-> TRUE, tx |-> NoTx]
      BY <1>1, <1>6, <2>4 DEF FnReturns, Enter
    <3>2. Framed(p)'
      BY <1>1, <1>3, <2>1, <2>2, <2>4, <3>1 DEF Framed, EndsNext, Ending
    <3>3. QED BY <1>2, <3>1, <3>2 DEF Right, At
  <2>5. QED BY <2>3, <2>4
<1>7. CASE Statement(p)
  <2>1. /\ frames'[p] = frames[p]
        /\ call'[p] = [at |-> "prepare", op |-> "Statement", own |-> FALSE,
                       tx |-> currentTx(e)]
    BY <1>1, <1>7 DEF Statement, Prepares
  <2>2. frames[p] # <<>> => Framed(p)'
    BY <1>1, <1>3, <2>1 DEF Framed, Running, currentTx
  <2>3. QED BY <1>2, <2>1, <2>2 DEF Right, At
<1>8. CASE CopyIn(p)
  <2>1. /\ frames'[p] = frames[p] /\ currentTx(e) = NoTx
        /\ call'[p] = [at |-> "hook", op |-> "CopyIn", own |-> FALSE, tx |-> NoTx]
    BY <1>1, <1>8 DEF CopyIn
  <2>2. frames[p] = <<>>
    BY <1>3, <2>1 DEF currentTx
  <2>3. QED BY <1>2, <2>1, <2>2 DEF Right, At
<1>9. QED BY <1>4, <1>5, <1>6, <1>7, <1>8 DEF UserStep

\* The errors of the code are among the errors of the model.
LEMMA ErrorType ==
  {"nil", "error", "panic", "ErrAlreadyInTransaction", "ErrNoTransaction",
   "ErrTxDone", "driver error"} \subseteq Error
  BY DEF Error

\* A goroutine that has left its only frame.
LEMMA DoneRight ==
  ASSUME NEW p \in Proc, NEW x \in Tx, NEW y, NEW err,
         call'[p] = User, frames'[p] = <<>>,
         last'[p] = [began |-> x, ended |-> y, err |-> err],
         db'[x] \in Final,
         err = "nil" => db'[x] = "committed",
         err \in {"error", "panic"} => db'[x] # "committed"
  PROVE  Right(p)'
<1> DEFINE l == last'[p]
<1>1. l.began = x /\ l.err = err
  OBVIOUS
<1>2. LastRight(p)'
  BY <1>1 DEF LastRight
<1>3. call'[p].at = "user" /\ ~call'[p].own
  BY DEF User
<1>4. QED BY <1>2, <1>3 DEF Right, At

LEMMA GateRight ==
  ASSUME IInv, NEW p \in Proc, Right(p), GateStep(p), [Next]_vars
  PROVE  Right(p)'
<1> DEFINE x == Head(frames[p]).tx
           e == EngineOf[p]
<1>1. /\ At(p, "gate") /\ db' = db
      /\ frames \in [Proc -> Seq(Frame)] /\ call \in [Proc -> Call]
      /\ tx \in [Engine -> TxOrNone] /\ last \in [Proc -> Outcome]
      /\ e \in Engine /\ CallOK(p)
  BY TxAssumption DEF GateStep, BeginChecks, EndDetaches, IInv, TypeOK
<1>2. inTx[e] <=> tx[e] # NoTx
  BY <1>1 DEF IInv, NoOrphan
<1>3. frames[p] # <<>> =>
        /\ x \in Tx /\ x # NoTx /\ Tail(frames[p]) = <<>> /\ frames[p] \in Seq(Frame)
        /\ Begins(p) => Running(p, x)
        /\ Ends(p) => EndsNext(p, x) \/ Lost(p, x)
  BY <1>1, FrameFacts
<1>4. call[p].own /\ Ends(p) => frames[p] # <<>>
  BY <1>1 DEF CallOK
<1>5. CASE BeginChecks(p)
  <2>1. last' = last /\ frames' = frames /\ tx' = tx /\ Begins(p)
    BY <1>5 DEF BeginChecks, ReturnBegin
  <2>2. LastRight(p)'
    BY <2>1, LastStays
  <2>3. CASE call' = [call EXCEPT ![p] = User]
    <3>1. call'[p] = User /\ frames'[p] = frames[p]
      BY <1>1, <2>1, <2>3
    <3>2. frames[p] # <<>> => Framed(p)'
      BY <1>1, <1>3, <2>1, <3>1 DEF Framed, Running, User
    <3>3. QED BY <2>2, <3>1, <3>2 DEF Right, At, User
  <2>4. CASE tx[e] = NoTx /\ call' = [call EXCEPT ![p].at = "driver"]
    <3>1. frames[p] = <<>>
      BY <1>3, <2>1, <2>4 DEF Running
    <3>2. call'[p] = [call[p] EXCEPT !.at = "driver"] /\ call[p] \in Call
      BY <1>1, <2>4
    <3>3. call'[p].at = "driver" /\ call'[p].own = call[p].own /\ call'[p].op = call[p].op
      BY <3>2 DEF Call
    <3>4. QED BY <2>1, <2>2, <3>1, <3>3 DEF Right, At
  <2>5. QED BY <1>5, <2>3, <2>4 DEF BeginChecks, ReturnBegin
<1>6. CASE EndDetaches(p)
  <2>1. Ends(p)
    BY <1>6 DEF EndDetaches
  <2>2. CASE ~Active(e) /\ ReturnEnd(p, NoTx, "ErrNoTransaction") /\ tx' = tx
    <3>1. tx[e] = NoTx
      BY <1>2, <2>2 DEF Active
    <3>2. CASE ~call[p].own
      <4>1. call'[p] = User /\ frames'[p] = frames[p] /\ last' = last
        BY <1>1, <2>2, <3>2 DEF ReturnEnd
      <4>2. frames[p] = <<>>
        BY <1>3, <2>1, <3>2 DEF EndsNext, Lost
      <4>3. LastRight(p)'
        BY <4>1, LastStays
      <4>4. QED BY <4>1, <4>2, <4>3 DEF Right, At, User
    <3>3. CASE call[p].own
      <4>1. frames[p] # <<>> /\ Lost(p, x)
        BY <1>3, <1>4, <2>1, <3>1, <3>3 DEF EndsNext
      <4>2. Leave(p, NoTx, "driver error")
        BY <2>2, <3>3, <4>1 DEF ReturnEnd, Lost
      <4>3. /\ call'[p] = User /\ frames'[p] = <<>>
            /\ last'[p] = [began |-> x, ended |-> NoTx, err |-> "driver error"]
        BY <1>1, <1>3, <4>1, <4>2 DEF Leave
      <4>4. db'[x] \in Final /\ x \in Tx
        BY <1>1, <1>3, <4>1 DEF Lost, Final
      <4> HIDE DEF x
      <4>5. "driver error" # "nil" /\ "driver error" \notin {"error", "panic"}
        OBVIOUS
      <4>6. QED BY <4>3, <4>4, <4>5, DoneRight, Zenon
    <3>4. QED BY <1>1, <3>2, <3>3 DEF Call
  <2>3. CASE /\ Active(e)
             /\ call' = [call EXCEPT ![p].at = "driver", ![p].tx = tx[e]]
             /\ tx' = [tx EXCEPT ![e] = NoTx]
             /\ UNCHANGED <<frames, last>>
    <3>1. call'[p] = [call[p] EXCEPT !.at = "driver", !.tx = tx[e]] /\ call[p] \in Call
          /\ tx'[e] = NoTx /\ frames'[p] = frames[p]
      BY <1>1, <2>3
    <3>2. /\ call'[p].at = "driver" /\ call'[p].own = call[p].own
          /\ call'[p].op = call[p].op /\ call'[p].tx = tx[e]
      BY <3>1 DEF Call
    <3>3. LastRight(p)'
      BY <2>3, LastStays
    <3>4. frames[p] # <<>> => EndsNext(p, x)
      BY <1>3, <2>1, <2>3 DEF Lost, Active
    <3>5. frames[p] # <<>> => Framed(p)'
      BY <1>1, <1>3, <3>1, <3>2, <3>4 DEF Framed, EndsNext, EndsNow
    <3>6. QED BY <3>1, <3>2, <3>3, <3>5 DEF Right, At
  <2>4. QED BY <1>6, <2>2, <2>3 DEF EndDetaches
<1>7. QED BY <1>5, <1>6 DEF GateStep

\* The driver's answer to the opening of a transaction, and its installation.
LEMMA BeginRight ==
  ASSUME IInv, NEW p \in Proc, Right(p), [Next]_vars,
         BeginInDriver(p) \/ BeginInstalls(p) \/ BeginGivesUp(p)
  PROVE  Right(p)'
<1> DEFINE e == EngineOf[p]
<1>1. /\ frames \in [Proc -> Seq(Frame)] /\ call \in [Proc -> Call]
      /\ tx \in [Engine -> TxOrNone] /\ db \in [Tx -> Status]
      /\ call[p] \in Call /\ e \in Engine /\ CallOK(p)
  BY TxAssumption DEF IInv, TypeOK
<1>2. Begins(p) /\ last' = last
  BY <1>1 DEF BeginInDriver, BeginInstalls, BeginGivesUp, ReturnBegin, CallOK, Begins
<1>3. frames[p] = <<>>
  BY <1>2, FrameFacts DEF BeginInDriver, BeginInstalls, BeginGivesUp, Begins, Ends
<1>4. LastRight(p)'
  BY <1>2, LastStays
<1>5. ASSUME ReturnBegin(p, NoTx, "driver error") PROVE Right(p)'
  <2>1. call'[p] = User /\ frames'[p] = <<>>
    BY <1>1, <1>3, <1>5 DEF ReturnBegin
  <2>2. QED BY <1>4, <2>1 DEF Right, At, User
<1>6. CASE BeginInDriver(p)
  <2>1. ASSUME NEW x \in Tx,
               db' = [db EXCEPT ![x] = IF call[p].op = "Begin" THEN "open" ELSE "watched"],
               call' = [call EXCEPT ![p].at = "install", ![p].tx = x], frames' = frames
        PROVE  Right(p)'
    <3>1. call'[p] = [call[p] EXCEPT !.at = "install", !.tx = x]
      BY <1>1, <2>1
    <3>2. /\ call'[p].at = "install" /\ call'[p].own = call[p].own
          /\ call'[p].op = call[p].op /\ call'[p].tx = x
      BY <1>1, <3>1 DEF Call
    <3>3. call[p].op = "Begin" => db'[x] = "open"
      BY <1>1, <2>1
    <3>4. QED BY <1>3, <1>4, <2>1, <3>2, <3>3 DEF Right, At
  <2>2. QED BY <1>6, <1>5, <2>1 DEF BeginInDriver
<1>7. CASE BeginInstalls(p)
  <2>1. At(p, "install") /\ call[p].tx \in Tx /\ call'[p] = User /\ db' = db
        /\ tx'[e] = call[p].tx
    BY <1>1, <1>7 DEF BeginInstalls, ReturnBegin, CallOK, Call, TxOrNone
  <2>2. CASE ~call[p].own
    <3>1. frames'[p] = <<>>
      BY <1>3, <1>7, <2>2 DEF BeginInstalls, ReturnBegin
    <3>2. QED BY <1>4, <2>1, <3>1 DEF Right, At, User
  <2>3. CASE call[p].own
    <3> DEFINE f == [tx |-> call[p].tx, out |-> "nil"]
    <3>1. db[call[p].tx] = "open"
      BY <1>2, <2>1, <2>3 DEF Right, Begins
    <3>2. f \in Frame /\ f.tx = call[p].tx /\ f.out = "nil"
      BY <2>1 DEF Frame, TxOrNone, Error
    <3>3. frames'[p] = <<f>> \o <<>>
      BY <1>1, <1>3, <1>7, <2>3 DEF BeginInstalls, ReturnBegin
    <3> HIDE DEF f
    <3>4. frames'[p] # <<>> /\ Tail(frames'[p]) = <<>> /\ Head(frames'[p]) = f
      <4> DEFINE t == frames'[p]
      <4> HIDE DEF t
      <4>1. t # <<>> /\ Tail(t) = <<>> /\ Head(t) = f
        BY <3>2, <3>3, PushOne DEF t
      <4>2. QED BY <4>1 DEF t
    <3>5. Framed(p)'
      BY <2>1, <3>1, <3>2, <3>4 DEF Framed, Running, User
    <3>6. QED BY <1>4, <2>1, <3>5 DEF Right, At, User
  <2>4. QED BY <1>1, <2>2, <2>3 DEF Call
<1>8. CASE BeginGivesUp(p)
  BY <1>8, <1>5 DEF BeginGivesUp
<1>9. QED BY <1>6, <1>7, <1>8

\* The driver's answer to Commit or Cancel.
LEMMA EndRight ==
  ASSUME IInv, NEW p \in Proc, Right(p), [Next]_vars, EndInDriver(p)
  PROVE  Right(p)'
<1> DEFINE x == Head(frames[p]).tx
           y == call[p].tx
           e == EngineOf[p]
           out == Head(frames[p]).out
<1>1. /\ frames \in [Proc -> Seq(Frame)] /\ call \in [Proc -> Call]
      /\ last \in [Proc -> Outcome] /\ db \in [Tx -> Status]
      /\ call[p] \in Call /\ e \in Engine /\ CallOK(p)
      /\ At(p, "driver") /\ Ends(p) /\ tx' = tx
  BY TxAssumption DEF IInv, TypeOK, EndInDriver
<1>2. PICK err :
        /\ err \in {"nil", "ErrTxDone", "driver error"}
        /\ ReturnEnd(p, y, err)
        /\ err = "ErrTxDone" => db[y] \notin Live
        /\ err = "nil" => db' = [db EXCEPT ![y] = IF call[p].op = "Commit" THEN "committed"
                                                   ELSE "rolledback"]
        /\ err = "driver error" => db' = [db EXCEPT ![y] = "indoubt"]
  BY DEF EndInDriver
<1>3. CASE ~call[p].own
  <2>1. call'[p] = User /\ frames'[p] = frames[p] /\ last'[p] = last[p]
    BY <1>1, <1>2, <1>3 DEF ReturnEnd
  <2>2. frames[p] = <<>>
    BY <1>1, <1>3, FrameFacts DEF EndsNow
  <2>3. LastRight(p)'
    BY <2>1, LastStays
  <2>4. QED BY <2>1, <2>2, <2>3 DEF Right, At, User
<1>4. CASE call[p].own
  <2>1. frames[p] # <<>>
    BY <1>1, <1>4 DEF CallOK
  <2>2. /\ x \in Tx /\ Tail(frames[p]) = <<>> /\ frames[p] \in Seq(Frame)
        /\ y = x /\ tx[e] = NoTx /\ db[x] = "open" /\ Ending(call[p].op, out)
    BY <1>1, <2>1, FrameFacts DEF EndsNow
  <2>3. err # "ErrTxDone"
    BY <1>2, <2>2 DEF Live
  <2>4. CASE call[p].op = "Commit" /\ err = "nil"
    <3>1. Leave(p, x, "nil")
      BY <1>2, <1>4, <2>2, <2>4 DEF ReturnEnd
    <3>2. /\ call'[p] = User /\ frames'[p] = <<>>
          /\ last'[p] = [began |-> x, ended |-> x, err |-> "nil"]
      BY <1>1, <2>2, <3>1 DEF Leave
    <3>3. db'[x] = "committed" /\ x \in Tx
      BY <1>1, <1>2, <2>2, <2>4
    <3> HIDE DEF x
    <3>4. "nil" \notin {"error", "panic"} /\ db'[x] \in Final
      BY <3>3 DEF Final
    <3>5. QED BY <3>2, <3>3, <3>4, DoneRight, Zenon
  <2>5. CASE call[p].op = "Commit" /\ err = "driver error"
    <3>0. frames'[p] = <<[Head(frames[p]) EXCEPT !.out = err]>> \o Tail(frames[p])
      BY <1>1, <1>2, <1>4, <2>5 DEF ReturnEnd
    <3>1. /\ call'[p] = [at |-> "gate", op |-> "Cancel", own |-> TRUE, tx |-> NoTx]
          /\ last'[p] = last[p]
      BY <1>1, <1>2, <1>4, <2>5 DEF ReturnEnd, Enter
    <3>2. db'[x] = "indoubt" /\ tx'[e] = NoTx
      BY <1>1, <1>2, <2>2, <2>5
    <3>3. LastRight(p)'
      BY <3>1, LastStays
    <3>4. /\ frames'[p] # <<>> /\ Tail(frames'[p]) = <<>>
          /\ Head(frames'[p]).tx = x /\ Head(frames'[p]).out = "driver error"
      <4> DEFINE t == frames'[p]
      <4> HIDE DEF t
      <4>1. err \in Error
        BY <2>5, ErrorType
      <4>2. t # <<>> /\ Tail(t) = <<>> /\ Head(t).tx = x /\ Head(t).out = err
        <5> DEFINE f == [Head(frames[p]) EXCEPT !.out = err]
        <5>1. f \in Frame /\ f.tx = x /\ f.out = err
          BY <2>1, <2>2, <4>1, PopType DEF Frame
        <5> HIDE DEF f
        <5>2. t = <<f>> \o <<>>
          BY <2>2, <3>0 DEF t, f
        <5>3. QED BY <5>1, <5>2, PushOne
      <4>3. QED BY <2>5, <4>2 DEF t
    <3>5. Framed(p)'
      <4>1. call'[p].at = "gate" /\ call'[p].own /\ call'[p].op = "Cancel"
        BY <3>1
      <4>2. Lost(p, x)'
        BY <3>2, <3>4, <4>1 DEF Lost
      <4>3. QED BY <2>2, <3>4, <4>2 DEF Framed
    <3>6. QED BY <3>1, <3>3, <3>5 DEF Right, At
  <2>6. CASE call[p].op = "Cancel"
    <3>1. Leave(p, x, out) /\ out \in {"error", "panic"}
      BY <1>2, <1>4, <2>2, <2>6 DEF ReturnEnd, Ending
    <3>2. Len(frames[p]) = 1
      <4>1. Len(Tail(frames[p])) = Len(frames[p]) - 1 /\ Len(frames[p]) \in Nat
        BY <2>1, <2>2, HeadTailProperties, LenProperties
      <4>2. Len(Tail(frames[p])) = 0
        BY <2>2, EmptySeq
      <4>3. \A n \in Nat : n - 1 = 0 => n = 1
        OBVIOUS
      <4>4. QED BY <4>1, <4>2, <4>3, Zenon
    <3>3. /\ call'[p] = User /\ frames'[p] = <<>>
          /\ last'[p] = [began |-> x, ended |-> x, err |-> out]
      <4>1. ~(out = "panic" /\ Len(frames[p]) > 1)
        BY <3>2
      <4>2. /\ frames' = [frames EXCEPT ![p] = Tail(@)] /\ call' = [call EXCEPT ![p] = User]
            /\ last' = [last EXCEPT ![p] = [began |-> x, ended |-> x, err |-> out]]
        BY <3>1, <4>1, Zenon DEF Leave
      <4> HIDE DEF x, out
      <4>3. QED BY <1>1, <2>2, <4>2
    <3>4. db'[x] \in {"rolledback", "indoubt"} /\ x \in Tx
      BY <1>1, <1>2, <2>2, <2>3, <2>6
    <3> HIDE DEF x, out
    <3>5. out # "nil" /\ db'[x] \in Final /\ db'[x] # "committed"
      BY <3>1, <3>4 DEF Final
    <3>6. QED BY <3>3, <3>4, <3>5, DoneRight, Zenon
  <2>7. QED BY <1>1, <1>2, <2>3, <2>4, <2>5, <2>6 DEF Ends
<1>5. QED BY <1>1, <1>3, <1>4 DEF Call

\* The steps inside of a call.
LEMMA CallRight ==
  ASSUME IInv, NEW p \in Proc, Right(p), [Next]_vars,
         CallStep(p) \/ GiveUpStep(p)
  PROVE  Right(p)'
<1> DEFINE x == Head(frames[p]).tx
           e == EngineOf[p]
<1>1. /\ frames \in [Proc -> Seq(Frame)] /\ call \in [Proc -> Call]
      /\ e \in Engine /\ CallOK(p) /\ call[p] \in Call
  BY TxAssumption DEF IInv, TypeOK
<1>2. CASE ActiveChecked(p)
  <2>1. /\ At(p, "active") /\ UNCHANGED <<tx, inTx, db, last>> /\ frames[p] # <<>>
    BY <1>1, <1>2 DEF ActiveChecked, CallOK
  <2>2. x \in Tx /\ x # NoTx /\ Tail(frames[p]) = <<>> /\ Running(p, x)
    BY <2>1, FrameFacts
  <2>3. Active(e)
    <3>1. inTx[e] <=> tx[e] # NoTx
      BY <1>1 DEF IInv, NoOrphan
    <3>2. QED BY <2>2, <3>1 DEF Active, Running
  <2>4. /\ frames'[p] = frames[p]
        /\ call'[p] = [at |-> "gate", op |-> "Commit", own |-> TRUE, tx |-> NoTx]
    BY <1>1, <1>2, <2>3 DEF ActiveChecked, Enter
  <2>5. Framed(p)'
    <3>1. Head(frames'[p]).out = "nil" /\ tx'[e] = x /\ db'[x] = "open"
      BY <2>1, <2>2, <2>4 DEF Running
    <3>2. Head(frames'[p]).tx = x /\ Tail(frames'[p]) = <<>>
      BY <2>2, <2>4
    <3>3. QED BY <2>2, <2>4, <3>1, <3>2 DEF Framed, EndsNext, Ending
  <2>6. LastRight(p)'
    BY <2>1, LastStays
  <2>7. QED BY <2>4, <2>5, <2>6 DEF Right, At
<1>3. CASE StatementReturns(p) \/ HookReturns(p) \/ PoolGivesUp(p)
  <2>1. /\ UNCHANGED <<tx, inTx, db, last, frames>>
        /\ At(p, "prepare") \/ At(p, "hook")
    BY <1>3 DEF StatementReturns, HookReturns, PoolGivesUp
  <2>2. LastRight(p)'
    BY <2>1, LastStays
  <2>3. CASE At(p, "prepare")
    <3>1. call'[p] = User
      BY <1>1, <1>3, <2>3 DEF StatementReturns, HookReturns, PoolGivesUp, At
    <3>2. frames[p] # <<>> => /\ x \in Tx /\ Tail(frames[p]) = <<>> /\ Running(p, x)
      BY <2>3, FrameFacts
    <3>3. frames[p] # <<>> => Framed(p)'
      BY <2>1, <3>1, <3>2 DEF Framed, Running, User
    <3>4. QED BY <2>1, <2>2, <3>1, <3>3 DEF Right, At, User
  <2>4. CASE At(p, "hook")
    <3>1. frames[p] = <<>> /\ frames' = frames
      BY <2>1, <2>4 DEF Right
    <3>2. ~call'[p].own /\ call'[p].at \in {"user", "prepare"}
      BY <1>1, <1>3, <2>4 DEF StatementReturns, HookReturns, PoolGivesUp, Prepares, User, At
    <3>3. QED BY <2>2, <3>1, <3>2 DEF Right, At
  <2>5. QED BY <2>1, <2>3, <2>4
<1>4. QED BY <1>2, <1>3, BeginRight, EndRight DEF CallStep, GiveUpStep

-----------------------------------------------------------------------------
(* A CopyInHook, and the invariant of all goroutines. *)

Free(p) == At(p, "hook") => tx[EngineOf[p]] = NoTx

\* A goroutine enters a CopyInHook only without a transaction.
LEMMA FreeStep ==
  ASSUME IInv, NEW p \in Proc,
         UserStep(p) \/ GateStep(p) \/ CallStep(p) \/ GiveUpStep(p)
  PROVE  Free(p)'
<1>1. /\ frames \in [Proc -> Seq(Frame)] /\ call \in [Proc -> Call]
      /\ call[p] \in Call /\ EngineOf[p] \in Engine
  BY TxAssumption DEF IInv, TypeOK
<1>2. ASSUME NEW y, NEW err, ReturnBegin(p, y, err) PROVE call'[p].at # "hook"
  BY <1>1, <1>2 DEF ReturnBegin, User
<1>3. ASSUME NEW y, NEW err, Leave(p, y, err) PROVE call'[p].at # "hook"
  BY <1>1, <1>3 DEF Leave, Enter, User
<1>4. ASSUME NEW y, NEW err, ReturnEnd(p, y, err) PROVE call'[p].at # "hook"
  BY <1>1, <1>3, <1>4 DEF ReturnEnd, Enter, User
<1>5. CASE UserStep(p)
  <2>1. CASE CopyIn(p)
    <3>1. inTx[EngineOf[p]] <=> tx[EngineOf[p]] # NoTx
      BY <1>1 DEF IInv, NoOrphan
    <3>2. QED BY <2>1, <3>1 DEF CopyIn, currentTx, Free
  <2>2. CASE ~CopyIn(p)
    <3>1. call'[p].at # "hook"
      BY <1>1, <1>5, <2>2
         DEF UserStep, CallTx, WithTx, FnReturns, Statement, Enter, Prepares, At, Call
    <3>2. QED BY <3>1 DEF Free, At
  <2>3. QED BY <2>1, <2>2
<1>6. CASE GateStep(p)
  <2>1. CASE BeginChecks(p)
    <3>1. call'[p].at # "hook"
      BY <1>1, <1>2, <2>1 DEF BeginChecks, Call
    <3>2. QED BY <3>1 DEF Free, At
  <2>2. CASE EndDetaches(p)
    <3>1. \/ ReturnEnd(p, NoTx, "ErrNoTransaction")
          \/ call' = [call EXCEPT ![p].at = "driver", ![p].tx = tx[EngineOf[p]]]
      BY <2>2 DEF EndDetaches
    <3>2. CASE ReturnEnd(p, NoTx, "ErrNoTransaction")
      <4>1. call'[p].at # "hook"
        BY <1>4, <3>2
      <4>2. QED BY <4>1 DEF Free, At
    <3>3. CASE call' = [call EXCEPT ![p].at = "driver", ![p].tx = tx[EngineOf[p]]]
      <4>1. call'[p] = [call[p] EXCEPT !.at = "driver", !.tx = tx[EngineOf[p]]]
        BY <1>1, <3>3
      <4>2. call'[p].at = "driver"
        BY <1>1, <4>1 DEF Call
      <4>3. QED BY <4>2 DEF Free, At
    <3>4. QED BY <3>1, <3>2, <3>3
  <2>3. QED BY <1>6, <2>1, <2>2 DEF GateStep
<1>7. CASE CallStep(p)
  <2>1. CASE BeginInDriver(p)
    <3>1. \/ ReturnBegin(p, NoTx, "driver error")
          \/ \E x \in Tx : call' = [call EXCEPT ![p].at = "install", ![p].tx = x]
      BY <2>1 DEF BeginInDriver
    <3>2. CASE ReturnBegin(p, NoTx, "driver error")
      <4>1. call'[p].at # "hook"
        BY <1>2, <3>2
      <4>2. QED BY <4>1 DEF Free, At
    <3>3. ASSUME NEW x \in Tx,
                 call' = [call EXCEPT ![p].at = "install", ![p].tx = x]
          PROVE  Free(p)'
      <4>1. call'[p] = [call[p] EXCEPT !.at = "install", !.tx = x]
        BY <1>1, <3>3
      <4>2. call'[p].at = "install"
        BY <1>1, <4>1 DEF Call
      <4>3. QED BY <4>2 DEF Free, At
    <3>4. QED BY <3>1, <3>2, <3>3
  <2>2. CASE BeginInstalls(p)
    <3>1. call'[p].at # "hook"
      BY <1>1, <1>2, <2>2 DEF BeginInstalls
    <3>2. QED BY <3>1 DEF Free, At
  <2>3. CASE EndInDriver(p)
    <3>1. call'[p].at # "hook"
      BY <1>1, <1>4, <2>3 DEF EndInDriver
    <3>2. QED BY <3>1 DEF Free, At
  <2>4. CASE ActiveChecked(p)
    <3>1. call'[p].at # "hook"
      BY <1>1, <2>4 DEF ActiveChecked, Enter
    <3>2. QED BY <3>1 DEF Free, At
  <2>5. CASE StatementReturns(p) \/ HookReturns(p)
    <3>1. call'[p].at # "hook"
      BY <1>1, <2>5 DEF StatementReturns, HookReturns, Prepares, User
    <3>2. QED BY <3>1 DEF Free, At
  <2>6. QED BY <1>7, <2>1, <2>2, <2>3, <2>4, <2>5 DEF CallStep
<1>8. CASE GiveUpStep(p)
  <2>1. BeginGivesUp(p) => call'[p].at # "hook"
    BY <1>2 DEF BeginGivesUp
  <2>2. PoolGivesUp(p) => call'[p].at # "hook"
    BY <1>1 DEF PoolGivesUp, User
  <2>3. QED BY <1>8, <2>1, <2>2 DEF GiveUpStep, Free, At
<1>9. QED BY <1>5, <1>6, <1>7, <1>8

OwnInv ==
  /\ IInv
  /\ Exclusive => \A p \in Proc : Free(p)
  /\ Exclusive /\ ~Mixing => \A p \in Proc : Right(p)

\* The invariant holds at the start, and every step keeps it.
LEMMA OwnInit == Init => OwnInv
<1> SUFFICES ASSUME Init PROVE OwnInv
  OBVIOUS
<1>1. IInv
  BY InitInv
<1>2. ASSUME NEW p \in Proc PROVE Free(p) /\ Right(p)
  <2>1. call[p] = User /\ frames[p] = <<>>
        /\ last[p] = [began |-> NoTx, ended |-> NoTx, err |-> "nil"]
    BY DEF Init
  <2>2. QED BY <2>1 DEF Free, Right, LastRight, At, User
<1>3. QED BY <1>1, <1>2 DEF OwnInv

\* A step is its goroutine's own, and leaves all the others apart.
LEMMA OwnStep == OwnInv /\ [Next]_vars => OwnInv'
<1> SUFFICES ASSUME OwnInv, [Next]_vars PROVE OwnInv'
  OBVIOUS
<1>1. IInv /\ IInv' /\ TypeOK /\ NoOrphan
  BY StepSession DEF OwnInv, IInv
<1>2. Exclusive' <=> Exclusive
  BY DEF Exclusive
<1>3. ASSUME NEW p \in Proc, Apart(p)
      PROVE  (Free(p) => Free(p)') /\ (Right(p) => Right(p)')
  BY <1>1, <1>3, ApartRight DEF Free, Apart, At
<1>4. CASE UNCHANGED vars
  <2>1. ASSUME NEW p \in Proc PROVE Apart(p)
    BY <1>4 DEF vars, Apart
  <2>2. QED BY <1>1, <1>2, <1>3, <2>1 DEF OwnInv
<1>5. ASSUME NEW x \in Tx, ContextDone(x) PROVE OwnInv'
  <2>1. ASSUME NEW p \in Proc PROVE Apart(p)
    BY <1>1, <1>5, ContextApart
  <2>2. QED BY <1>1, <1>2, <1>3, <2>1 DEF OwnInv
<1>6. ASSUME NEW q \in Proc,
             UserStep(q) \/ GateStep(q) \/ CallStep(q) \/ GiveUpStep(q)
      PROVE  OwnInv'
  <2>1. ShapeOf(q)
    BY <1>1, <1>6, UserShape, GateShape, CallShape DEF ShapeOf
  <2>2. ASSUME Exclusive, NEW p \in Proc PROVE Free(p)'
    <3>1. CASE p = q
      BY <1>1, <1>6, <3>1, FreeStep
    <3>2. CASE p # q
      <4>1. Apart(p)
        BY <1>1, <2>1, <2>2, <3>2, OthersApart
      <4>2. QED BY <1>3, <2>2, <4>1 DEF OwnInv
    <3>3. QED BY <3>1, <3>2
  <2>3. ASSUME Exclusive, ~Mixing, NEW p \in Proc PROVE Right(p)'
    <3>1. Right(p)
      BY <2>3 DEF OwnInv
    <3>2. CASE p = q
      BY <1>1, <1>6, <2>3, <3>1, <3>2, UserRight, GateRight, CallRight
    <3>3. CASE p # q
      <4>1. Apart(p)
        BY <1>1, <2>1, <2>3, <3>3, OthersApart
      <4>2. QED BY <1>3, <3>1, <4>1
    <3>4. QED BY <3>2, <3>3
  <2>4. QED BY <1>1, <1>2, <2>2, <2>3 DEF OwnInv
<1>7. QED BY <1>4, <1>5, <1>6 DEF Next

\* The invariant of all goroutines holds of every reachable state.
THEOREM OwnInvariance == Spec => []OwnInv
  BY OwnInit, OwnStep, PTL DEF Spec

-----------------------------------------------------------------------------
(* What the goroutines can rely on. *)

\* WithTx is all or nothing (WithTx, UniEngine.go): nil means that its
\* transaction is committed, an error or a panic of the callback that it is
\* not, and in no case is it left open.
THEOREM Atomic == Spec => []WithTxAtomic
<1>1. OwnInv => WithTxAtomic
  <2> SUFFICES ASSUME OwnInv, Exclusive, ~Mixing, NEW p \in Proc, last[p].began # NoTx
               PROVE  /\ last[p].err = "nil" => db[last[p].began] = "committed"
                      /\ last[p].err \in {"error", "panic"} =>
                           db[last[p].began] \in {"rolledback", "indoubt"}
                      /\ db[last[p].began] \notin Live
    BY DEF WithTxAtomic
  <2>1. LastRight(p)
    BY DEF OwnInv, Right
  <2>2. QED BY <2>1 DEF LastRight, Final, Live
<1>2. QED BY <1>1, OwnInvariance, PTL

\* A statement of a callback is prepared on the transaction WithTx opened,
\* which is open (prepareCtx and currentTx).
THEOREM Inside == Spec => []StatementsInside
<1>1. OwnInv => StatementsInside
  <2> SUFFICES ASSUME OwnInv, Exclusive, ~Mixing, NEW p \in Proc,
                      At(p, "prepare"), frames[p] # <<>>
               PROVE  call[p].tx = Head(frames[p]).tx /\ db[call[p].tx] = "open"
    BY DEF StatementsInside
  <2>1. Running(p, Head(frames[p]).tx)
    BY FrameFacts DEF OwnInv
  <2>2. QED BY <2>1 DEF Running, At
<1>2. QED BY <1>1, OwnInvariance, PTL

\* While a CopyInHook runs (CopyInLCtx, UniCopyIn.go) the engine that called
\* it has no transaction, and no callback of WithTx is under way.
THEOREM Outsider == Spec => []HookOutside
<1>1. OwnInv => HookOutside
  <2> SUFFICES ASSUME OwnInv, Exclusive, NEW p \in Proc, At(p, "hook")
               PROVE  SessionTx(EngineOf[p]) = NoTx /\ (~Mixing => frames[p] = <<>>)
    BY DEF HookOutside
  <2>1. TypeOK /\ tx[EngineOf[p]] = NoTx
    BY DEF OwnInv, IInv, Free
  <2>2. gate # p
    BY <2>1 DEF TypeOK, CallOK, At
  <2>3. ~Holds(EngineOf[p])
    BY <2>1, <2>2 DEF Holds, Exclusive, TypeOK
  <2>4. ~Mixing => frames[p] = <<>>
    BY DEF OwnInv, Right
  <2>5. QED BY <2>1, <2>3, <2>4 DEF SessionTx
<1>2. QED BY <1>1, OwnInvariance, PTL
=============================================================================
