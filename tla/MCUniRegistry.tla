---------------------------- MODULE MCUniRegistry ----------------------------
(***************************************************************************)
(* Instances of UniRegistry for TLC.  c1 and c2 are well-formed and may    *)
(* share a table; c2 is a projection without the MAC column and with a     *)
(* readonly key.  bad has a duplicated column.                             *)
(***************************************************************************)
EXTENDS UniRegistry

CONSTANTS c1, c2, bad, id, pwd, mac

MCClass == {c1, c2, bad}
MCColumn == {id, pwd, mac}
MCLists == {{id}, {pwd}, {id, pwd}}

\* reflect.Type.String() of the classes.
MCClassKey == [c \in MCClass |->
                 IF c = c1 THEN "core.C1" ELSE IF c = c2 THEN "core.C2"
                 ELSE "core.Bad"]

MCDecl ==
  [c \in MCClass |->
     IF c = c1
     THEN [cols |-> {id, pwd, mac}, readonly |-> {}, secret |-> {},
           text |-> {pwd, mac}, scalar |-> {id, pwd, mac}]
     ELSE [cols |-> {id, pwd}, readonly |-> {id}, secret |-> {pwd},
           text |-> {pwd}, scalar |-> {id, pwd}]]
=============================================================================
