------------------------------- MODULE UniTx -------------------------------
(***************************************************************************)
(* Transactions: Begin, BeginCtx, Commit, Cancel, WithTx, prepareCtx,      *)
(* which routes a statement to the engine's transaction or to the pool,    *)
(* and a CopyInHook, which can only write through the pool.                *)
(*                                                                         *)
(* The engines are copies of one engine made while it had no transaction   *)
(* (the per-request copies of the documentation), so each has its own tx   *)
(* and inTx and they share the mutexes mu and txGate.  An action is what a *)
(* goroutine does under mu, or one call of the driver, which is made with  *)
(* txGate held and mu released.                                            *)
(*                                                                         *)
(* The engines also share the pool, whose size the application limits with *)
(* SetMaxOpenConns.  A transaction keeps its connection until it ends; a   *)
(* statement outside of a transaction and a CopyInHook give theirs back    *)
(* when they return, and are modelled as taking and returning it at once.  *)
(*                                                                         *)
(* A goroutine is running its own code ("user"), which is the callback of  *)
(* a WithTx when frames is not empty, or it is inside a call: waiting for  *)
(* txGate, in the driver, about to install the transaction the driver has  *)
(* opened, about to test that the callback left a transaction, about to    *)
(* prepare a statement, or in a CopyInHook.                                *)
(***************************************************************************)
EXTENDS Naturals, Sequences, FiniteSets

CONSTANTS
  Proc,      \* goroutines
  Engine,    \* engines that share one txGate
  EngineOf,  \* EngineOf[p]: the engine p makes its calls on
  Mixing,    \* whether callbacks of WithTx call Begin, Commit and Cancel
  Tx,        \* the transactions the database may open: a bound
  MaxConns,  \* SetMaxOpenConns: the connections of the pool
  MaxDepth,  \* bound on the nesting of WithTx
  NoTx, NoProc

ASSUME TxAssumption ==
  /\ EngineOf \in [Proc -> Engine]
  /\ Mixing \in BOOLEAN
  /\ MaxConns \in Nat \ {0}
  /\ MaxDepth \in Nat
  /\ NoTx \notin Tx
  /\ NoProc \notin Proc

VARIABLES
  tx,      \* this.tx
  inTx,    \* this.inTx
  gate,    \* the goroutine that holds txGate
  db,      \* what the database knows of each transaction
  call,    \* where each goroutine is
  frames,  \* the WithTx calls a goroutine is in, the innermost first: the
           \* transaction Begin opened, and what WithTx will return
  last     \* how the last WithTx of a goroutine came back

vars == <<tx, inTx, gate, db, call, frames, last>>

Live == {"open", "watched"}
Final == {"committed", "rolledback", "indoubt"}
Status == {"unused"} \cup Live \cup Final

Op == {"none", "Begin", "BeginCtx", "Commit", "Cancel", "Statement", "CopyIn"}
Place == {"user", "gate", "driver", "install", "active", "prepare", "hook"}
Error == {"nil", "error", "panic", "ErrAlreadyInTransaction",
          "ErrNoTransaction", "ErrTxDone", "driver error"}
TxOrNone == Tx \cup {NoTx}

\* own: the call is made by WithTx itself and not by the goroutine's code.
Call == [at : Place, op : Op, own : BOOLEAN, tx : TxOrNone]
Frame == [tx : TxOrNone, out : Error]
Outcome == [began : TxOrNone, ended : TxOrNone, err : Error]

At(p, place) == call[p].at = place
Begins(p) == call[p].op \in {"Begin", "BeginCtx"}
Ends(p) == call[p].op \in {"Commit", "Cancel"}

\* The goroutine that has txGate is in the driver or installs what it
\* opened; WithTx ends a transaction only from within a frame.
CallOK(p) ==
  /\ gate = p <=> At(p, "driver") \/ At(p, "install")
  /\ At(p, "gate") \/ At(p, "driver") => Begins(p) \/ Ends(p)
  /\ At(p, "gate") => call[p].tx = NoTx
  /\ At(p, "install") => Begins(p) /\ call[p].tx # NoTx
  /\ At(p, "driver") => (call[p].tx = NoTx <=> Begins(p))
  /\ At(p, "active") \/ (call[p].own /\ Ends(p)) => frames[p] # <<>>

TypeOK ==
  /\ tx \in [Engine -> TxOrNone]
  /\ inTx \in [Engine -> BOOLEAN]
  /\ gate \in Proc \cup {NoProc}
  /\ db \in [Tx -> Status]
  /\ call \in [Proc -> Call]
  /\ frames \in [Proc -> Seq(Frame)]
  /\ last \in [Proc -> Outcome]
  /\ \A p \in Proc : CallOK(p)

User == [at |-> "user", op |-> "none", own |-> FALSE, tx |-> NoTx]
Active(e) == inTx[e] /\ tx[e] # NoTx

\* A connection of the pool is not taken by a transaction.
ConnFree == Cardinality({x \in Tx : db[x] \in Live}) < MaxConns

Enter(p, op, own) ==
  call' = [call EXCEPT ![p] = [at |-> "gate", op |-> op, own |-> own, tx |-> NoTx]]

-----------------------------------------------------------------------------
(* What a call of Begin, Commit or Cancel returns to.                      *)

\* A frame of WithTx is left: its deferred function has run, or the Commit
\* succeeded.  A panic goes on to the deferred function of the next frame.
Leave(p, ended, err) ==
  /\ last' = [last EXCEPT ![p] = [began |-> Head(frames[p]).tx,
                                  ended |-> ended, err |-> err]]
  /\ IF err = "panic" /\ Len(frames[p]) > 1
     THEN /\ frames' = [frames EXCEPT ![p] =
                          <<[Head(Tail(@)) EXCEPT !.out = "panic"]>> \o Tail(Tail(@))]
          /\ Enter(p, "Cancel", TRUE)
     ELSE /\ frames' = [frames EXCEPT ![p] = Tail(@)]
          /\ call' = [call EXCEPT ![p] = User]

\* Faulty variant: the deferred Cancel also runs when Begin has failed.
ReturnBeginDeferred(p, x, err) ==
  /\ \/ ~call[p].own /\ call' = [call EXCEPT ![p] = User] /\ UNCHANGED frames
     \/ /\ call[p].own
        /\ frames' = [frames EXCEPT ![p] = <<[tx |-> x, out |-> err]>> \o @]
        /\ IF err = "nil" THEN call' = [call EXCEPT ![p] = User]
           ELSE Enter(p, "Cancel", TRUE)
  /\ UNCHANGED last

\* WithTx calls fn if Begin succeeded, else it returns the error.
ReturnBegin(p, x, err) ==
  /\ call' = [call EXCEPT ![p] = User]
  /\ IF call[p].own /\ err = "nil"
     THEN frames' = [frames EXCEPT ![p] = <<[tx |-> x, out |-> "nil"]>> \o @]
     ELSE UNCHANGED frames
  /\ UNCHANGED last

\* The Commit of WithTx sets finalized if it succeeds, else the deferred
\* Cancel follows; the deferred Cancel leaves the frame whatever it returns.
ReturnEnd(p, x, err) ==
  \/ /\ ~call[p].own
     /\ call' = [call EXCEPT ![p] = User]
     /\ UNCHANGED <<frames, last>>
  \/ /\ call[p].own /\ call[p].op = "Commit" /\ err # "nil"
     /\ frames' = [frames EXCEPT ![p] =
                     <<[Head(@) EXCEPT !.out = err]>> \o Tail(@)]
     /\ Enter(p, "Cancel", TRUE)
     /\ UNCHANGED last
  \/ call[p].own /\ call[p].op = "Commit" /\ err = "nil" /\ Leave(p, x, "nil")
  \/ call[p].own /\ call[p].op = "Cancel" /\ Leave(p, x, Head(frames[p]).out)

-----------------------------------------------------------------------------
(* The code of the goroutines. *)

\* Begin, BeginCtx, Commit, Cancel: at top level, or mixed with WithTx.
CallTx(p, op) ==
  /\ At(p, "user")
  /\ frames[p] = <<>> \/ Mixing
  /\ Enter(p, op, FALSE)
  /\ UNCHANGED <<tx, inTx, gate, db, frames, last>>

WithTx(p) ==
  /\ At(p, "user")
  /\ Len(frames[p]) < MaxDepth
  /\ Enter(p, "Begin", TRUE)
  /\ UNCHANGED <<tx, inTx, gate, db, frames, last>>

\* Faulty variant: Cancel is not deferred, so a panic passes it by.
FnReturnsUndeferred(p, out) ==
  /\ At(p, "user") /\ frames[p] # <<>>
  /\ \/ /\ out = "panic"
        /\ last' = [last EXCEPT ![p] = [began |-> Head(frames[p]).tx,
                                       ended |-> NoTx, err |-> "panic"]]
        /\ frames' = [frames EXCEPT ![p] = Tail(@)]
        /\ UNCHANGED call
     \/ /\ out # "panic"
        /\ IF out = "nil" THEN call' = [call EXCEPT ![p].at = "active"]
           ELSE Enter(p, "Cancel", TRUE)
        /\ frames' = [frames EXCEPT ![p] =
                        <<[Head(@) EXCEPT !.out = out]>> \o Tail(@)]
        /\ UNCHANGED last
  /\ UNCHANGED <<tx, inTx, gate, db>>

\* fn comes back with nil, with an error of its own, or with a panic.
FnReturns(p, out) ==
  /\ At(p, "user") /\ frames[p] # <<>>
  /\ IF out = "nil" THEN call' = [call EXCEPT ![p].at = "active"]
     ELSE Enter(p, "Cancel", TRUE)
  /\ frames' = [frames EXCEPT ![p] = <<[Head(@) EXCEPT !.out = out]>> \o Tail(@)]
  /\ UNCHANGED <<tx, inTx, gate, db, last>>

\* What currentTx reads under the read lock.
currentTx(e) == IF inTx[e] THEN tx[e] ELSE NoTx

Prepares(p, op) ==
  call' = [call EXCEPT ![p] = [at |-> "prepare", op |-> op, own |-> FALSE,
                               tx |-> currentTx(EngineOf[p])]]

\* prepareCtx: the statement is prepared and run on what was read.
Statement(p) ==
  /\ At(p, "user")
  /\ Prepares(p, "Statement")
  /\ UNCHANGED <<tx, inTx, gate, db, frames, last>>

\* Faulty variant: the hook is not refused in a transaction.
CopyInUnguarded(p) ==
  /\ At(p, "user")
  /\ call' = [call EXCEPT ![p] =
                [at |-> "hook", op |-> "CopyIn", own |-> FALSE, tx |-> NoTx]]
  /\ UNCHANGED <<tx, inTx, gate, db, frames, last>>

\* CopyInLCtx with a CopyInHook, which gets the pool and no transaction.
CopyIn(p) ==
  /\ At(p, "user")
  /\ currentTx(EngineOf[p]) = NoTx
  /\ call' = [call EXCEPT ![p] =
                [at |-> "hook", op |-> "CopyIn", own |-> FALSE, tx |-> NoTx]]
  /\ UNCHANGED <<tx, inTx, gate, db, frames, last>>

\* The hook has written the rows or failed, or it has declined, and the
\* engine goes on with a statement of its own.
HookReturns(p) ==
  /\ At(p, "hook")
  /\ \/ ConnFree /\ call' = [call EXCEPT ![p] = User]
     \/ Prepares(p, "CopyIn")
  /\ UNCHANGED <<tx, inTx, gate, db, frames, last>>

\* The statement runs in the transaction it was prepared on, or on a
\* connection of the pool.
StatementReturns(p) ==
  /\ At(p, "prepare")
  /\ call[p].tx # NoTx \/ ConnFree
  /\ call' = [call EXCEPT ![p] = User]
  /\ UNCHANGED <<tx, inTx, gate, db, frames, last>>

-----------------------------------------------------------------------------
(* Inside the calls. *)

\* Faulty variants: a second transaction replaces the first; the early
\* return does not release txGate.
BeginChecksUnguarded(p) ==
  /\ At(p, "gate") /\ Begins(p) /\ gate = NoProc
  /\ gate' = p
  /\ call' = [call EXCEPT ![p].at = "driver"]
  /\ UNCHANGED <<tx, inTx, db, frames, last>>

BeginChecksKeepsGate(p) ==
  /\ At(p, "gate") /\ Begins(p) /\ gate = NoProc
  /\ gate' = p
  /\ \/ /\ inTx[EngineOf[p]] \/ tx[EngineOf[p]] # NoTx
        /\ ReturnBegin(p, NoTx, "ErrAlreadyInTransaction")
     \/ /\ ~inTx[EngineOf[p]] /\ tx[EngineOf[p]] = NoTx
        /\ call' = [call EXCEPT ![p].at = "driver"]
        /\ UNCHANGED <<frames, last>>
  /\ UNCHANGED <<tx, inTx, db>>

\* BeginCtx takes txGate and, under mu, refuses a second transaction.
BeginChecks(p) ==
  /\ At(p, "gate") /\ Begins(p) /\ gate = NoProc
  /\ \/ /\ inTx[EngineOf[p]] \/ tx[EngineOf[p]] # NoTx
        /\ ReturnBegin(p, NoTx, "ErrAlreadyInTransaction")
        /\ UNCHANGED gate
     \/ /\ ~inTx[EngineOf[p]] /\ tx[EngineOf[p]] = NoTx
        /\ gate' = p
        /\ call' = [call EXCEPT ![p].at = "driver"]
        /\ UNCHANGED <<frames, last>>
  /\ UNCHANGED <<tx, inTx, db>>

\* Db.BeginTx, without mu: it waits for a connection, then asks the driver.
BeginInDriver(p) ==
  /\ At(p, "driver") /\ Begins(p)
  /\ ConnFree
  /\ \/ \E x \in Tx :
          /\ db[x] = "unused"
          /\ db' = [db EXCEPT ![x] = IF call[p].op = "Begin" THEN "open" ELSE "watched"]
          /\ call' = [call EXCEPT ![p].at = "install", ![p].tx = x]
          /\ UNCHANGED <<gate, frames, last>>
     \/ /\ ReturnBegin(p, NoTx, "driver error")
        /\ gate' = NoProc
        /\ UNCHANGED db
  /\ UNCHANGED <<tx, inTx>>

BeginInstalls(p) ==
  /\ At(p, "install")
  /\ tx' = [tx EXCEPT ![EngineOf[p]] = call[p].tx]
  /\ inTx' = [inTx EXCEPT ![EngineOf[p]] = TRUE]
  /\ gate' = NoProc
  /\ ReturnBegin(p, call[p].tx, "nil")
  /\ UNCHANGED db

\* Faulty variant: only the flag is reset.
EndDetachesFlagOnly(p) ==
  /\ At(p, "gate") /\ Ends(p) /\ gate = NoProc
  /\ \/ /\ ~Active(EngineOf[p])
        /\ ReturnEnd(p, NoTx, "ErrNoTransaction")
        /\ UNCHANGED <<tx, inTx, gate>>
     \/ /\ Active(EngineOf[p])
        /\ call' = [call EXCEPT ![p].at = "driver", ![p].tx = tx[EngineOf[p]]]
        /\ inTx' = [inTx EXCEPT ![EngineOf[p]] = FALSE]
        /\ gate' = p
        /\ UNCHANGED <<tx, frames, last>>
  /\ UNCHANGED db

\* The context given to BeginCtx ends while Db.BeginTx waits.
BeginGivesUp(p) ==
  /\ At(p, "driver") /\ call[p].op = "BeginCtx"
  /\ ReturnBegin(p, NoTx, "driver error")
  /\ gate' = NoProc
  /\ UNCHANGED <<tx, inTx, db>>

\* The context of a statement or of a hook ends while it waits.
PoolGivesUp(p) ==
  /\ At(p, "hook") \/ (At(p, "prepare") /\ call[p].tx = NoTx)
  /\ call' = [call EXCEPT ![p] = User]
  /\ UNCHANGED <<tx, inTx, gate, db, frames, last>>

\* Commit and Cancel take the transaction away from the engine before the
\* driver is called, so that it is free again whatever the driver answers.
EndDetaches(p) ==
  /\ At(p, "gate") /\ Ends(p) /\ gate = NoProc
  /\ \/ /\ ~Active(EngineOf[p])
        /\ ReturnEnd(p, NoTx, "ErrNoTransaction")
        /\ UNCHANGED <<tx, inTx, gate>>
     \/ /\ Active(EngineOf[p])
        /\ call' = [call EXCEPT ![p].at = "driver", ![p].tx = tx[EngineOf[p]]]
        /\ tx' = [tx EXCEPT ![EngineOf[p]] = NoTx]
        /\ inTx' = [inTx EXCEPT ![EngineOf[p]] = FALSE]
        /\ gate' = p
        /\ UNCHANGED <<frames, last>>
  /\ UNCHANGED db

\* tx.Commit or tx.Rollback: ErrTxDone if the context has ended it already.
EndInDriver(p) ==
  LET x == call[p].tx IN
  /\ At(p, "driver") /\ Ends(p)
  /\ \/ db[x] \notin Live /\ UNCHANGED db /\ ReturnEnd(p, x, "ErrTxDone")
     \/ /\ db[x] \in Live
        /\ db' = [db EXCEPT ![x] = IF call[p].op = "Commit" THEN "committed"
                                   ELSE "rolledback"]
        /\ ReturnEnd(p, x, "nil")
     \/ /\ db[x] \in Live
        /\ db' = [db EXCEPT ![x] = "indoubt"]
        /\ ReturnEnd(p, x, "driver error")
  /\ gate' = NoProc
  /\ UNCHANGED <<tx, inTx>>

\* WithTx, after fn returned nil: is there still a transaction?
ActiveChecked(p) ==
  /\ At(p, "active")
  /\ \/ Active(EngineOf[p]) /\ Enter(p, "Commit", TRUE) /\ UNCHANGED frames
     \/ /\ ~Active(EngineOf[p])
        /\ Enter(p, "Cancel", TRUE)
        /\ frames' = [frames EXCEPT ![p] =
                        <<[Head(@) EXCEPT !.out = "ErrNoTransaction"]>> \o Tail(@)]
  /\ UNCHANGED <<tx, inTx, gate, db, last>>

\* The context given to BeginCtx ends, and database/sql rolls back.
ContextDone(x) ==
  /\ db[x] = "watched"
  /\ db' = [db EXCEPT ![x] = "rolledback"]
  /\ UNCHANGED <<tx, inTx, gate, call, frames, last>>

-----------------------------------------------------------------------------
Init ==
  /\ tx = [e \in Engine |-> NoTx]
  /\ inTx = [e \in Engine |-> FALSE]
  /\ gate = NoProc
  /\ db = [x \in Tx |-> "unused"]
  /\ call = [p \in Proc |-> User]
  /\ frames = [p \in Proc |-> <<>>]
  /\ last = [p \in Proc |-> [began |-> NoTx, ended |-> NoTx, err |-> "nil"]]

UserStep(p) ==
  \/ \E op \in {"Begin", "BeginCtx", "Commit", "Cancel"} : CallTx(p, op)
  \/ WithTx(p)
  \/ \E out \in {"nil", "error", "panic"} : FnReturns(p, out)
  \/ Statement(p) \/ CopyIn(p)

GateStep(p) == BeginChecks(p) \/ EndDetaches(p)

CallStep(p) ==
  \/ BeginInDriver(p) \/ BeginInstalls(p) \/ EndInDriver(p)
  \/ ActiveChecked(p) \/ StatementReturns(p) \/ HookReturns(p)

\* What a context may do, and need not.
GiveUpStep(p) == BeginGivesUp(p) \/ PoolGivesUp(p)

Next ==
  \/ \E p \in Proc : UserStep(p) \/ GateStep(p) \/ CallStep(p) \/ GiveUpStep(p)
  \/ \E x \in Tx : ContextDone(x)

Spec == Init /\ [][Next]_vars

\* A waiter gets txGate in the end (a sync.Mutex does not starve one), the
\* pool gives a call the connection that is free for it, and the driver and
\* a CopyInHook answer.  Nothing is assumed of the code of the goroutines,
\* which may keep a transaction open for ever, nor that a context ends.
Fairness == \A p \in Proc : SF_vars(GateStep(p)) /\ WF_vars(CallStep(p))
FairSpec == Spec /\ Fairness
-----------------------------------------------------------------------------
(* What makes the transaction state correct. *)

\* The transaction of an engine: the one it refers to, or the one the call
\* that has txGate has opened or is ending for it.
Holds(e) == gate # NoProc /\ EngineOf[gate] = e /\ call[gate].tx # NoTx
SessionTx(e) == IF Holds(e) THEN call[gate].tx ELSE tx[e]

\* Every transaction open at the database belongs to one engine, so that it
\* can still be ended: none is orphaned by a race or by a second Begin.  The
\* two fields of an engine agree, and both are clear while the driver opens
\* or ends its transaction.
NoOrphan ==
  /\ \A x \in Tx : db[x] \in Live => \E e \in Engine : SessionTx(e) = x
  /\ \A d, e \in Engine : SessionTx(d) = SessionTx(e) /\ SessionTx(e) # NoTx => d = e
  /\ \A e \in Engine : /\ inTx[e] <=> tx[e] # NoTx
                       /\ SessionTx(e) # NoTx => db[SessionTx(e)] # "unused"
  /\ gate # NoProc => tx[EngineOf[gate]] = NoTx

\* The engines implement sessions, whatever goroutines share them.
Session == INSTANCE UniTxSession WITH cur <- [e \in Engine |-> SessionTx(e)]
ImplementsSession == Session!Spec

Exclusive == \A p, q \in Proc : EngineOf[p] = EngineOf[q] => p = q

\* WithTx is all or nothing for a goroutine with an engine of its own whose
\* callbacks do not call Begin, Commit or Cancel: nil means committed, and
\* an error or a panic of the callback means that nothing was.
WithTxAtomic ==
  Exclusive /\ ~Mixing =>
    \A p \in Proc : last[p].began # NoTx =>
      /\ last[p].err = "nil" => db[last[p].began] = "committed"
      /\ last[p].err \in {"error", "panic"} =>
           db[last[p].began] \in {"rolledback", "indoubt"}
      /\ db[last[p].began] \notin Live

\* Under the same conditions a statement of the callback runs in the
\* transaction WithTx opened, nested calls of WithTx notwithstanding.
StatementsInside ==
  Exclusive /\ ~Mixing =>
    \A p \in Proc : At(p, "prepare") /\ frames[p] # <<>> =>
      /\ call[p].tx = Head(frames[p]).tx
      /\ db[call[p].tx] = "open"

\* A CopyInHook, which writes outside of any transaction, does not run while
\* the engine of its goroutine has one, nor in a callback of WithTx.
HookOutside ==
  Exclusive =>
    \A p \in Proc : At(p, "hook") =>
      /\ SessionTx(EngineOf[p]) = NoTx
      /\ ~Mixing => frames[p] = <<>>

\* Db.BeginTx does not wait for another transaction, with txGate held, if the
\* pool has a connection for every engine.
BeginServed ==
  IsFiniteSet(Engine) /\ MaxConns >= Cardinality(Engine) =>
    \A p \in Proc : At(p, "driver") /\ Begins(p) => ConnFree

\* With a connection for the transaction of every engine, every call comes
\* back: no call holds txGate while it waits for the callback, for mu or for
\* a connection that only another call can give back (BeginCtx, Commit and
\* Cancel, UniEngine.go).
CallsReturn ==
  Exclusive /\ MaxConns >= Cardinality(Engine) =>
    \A p \in Proc : ~At(p, "user") ~> At(p, "user")

-----------------------------------------------------------------------------
(* What the documentation and the comments say, and the code does not do.  *)

\* README: concurrent transactions each use an engine copy of their own.  So
\* the copies do not keep each other from ending their transactions, however
\* small the pool: a Commit or Cancel comes back.
EndsReturn ==
  \A p \in Proc : At(p, "gate") /\ Ends(p) ~> At(p, "user")

\* The comment of WithTx: a callback that commits or cancels by itself makes
\* WithTx return ErrNoTransaction.
MixingReported ==
  \A p \in Proc : last[p].err = "nil" => last[p].ended = last[p].began
=============================================================================
