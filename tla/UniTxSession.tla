---------------------------- MODULE UniTxSession ----------------------------
(***************************************************************************)
(* What the transaction state of the engines promises: an engine is a      *)
(* session with at most one transaction, every transaction that is open at *)
(* the database is the transaction of exactly one engine, and it is ended  *)
(* through that engine (or by its context) and only once.                  *)
(***************************************************************************)
CONSTANTS Engine, Tx, NoTx

VARIABLES
  cur,  \* the transaction of each engine, NoTx if it has none
  db    \* what the database knows of each transaction

vars == <<cur, db>>

\* open: with a context that is never cancelled; watched: database/sql rolls
\* it back when its context is done; indoubt: the driver returned an error.
Live == {"open", "watched"}
Final == {"committed", "rolledback", "indoubt"}
Status == {"unused"} \cup Live \cup Final

TypeOK == cur \in [Engine -> Tx \cup {NoTx}] /\ db \in [Tx -> Status]

Init == cur = [e \in Engine |-> NoTx] /\ db = [x \in Tx |-> "unused"]

Open(e) ==
  /\ cur[e] = NoTx
  /\ \E x \in Tx, s \in Live :
       /\ db[x] = "unused"
       /\ db' = [db EXCEPT ![x] = s]
       /\ cur' = [cur EXCEPT ![e] = x]

End(e) ==
  /\ cur[e] # NoTx
  /\ cur' = [cur EXCEPT ![e] = NoTx]
  /\ \/ db[cur[e]] \in Live /\ \E s \in Final : db' = [db EXCEPT ![cur[e]] = s]
     \/ db[cur[e]] \in Final /\ UNCHANGED db

Expire(x) ==
  /\ db[x] = "watched"
  /\ db' = [db EXCEPT ![x] = "rolledback"]
  /\ UNCHANGED cur

Next ==
  \/ \E e \in Engine : Open(e) \/ End(e)
  \/ \E x \in Tx : Expire(x)

Spec == Init /\ [][Next]_vars
=============================================================================
