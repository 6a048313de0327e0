----------------------------- MODULE MCUniBatch -----------------------------
(* An instance of UniBatch for TLC: the limits keep the order they have in *)
(* the code (Oracle's rows below the general ones, SQL Server's budget the *)
(* smallest), and slices span several pages of each size.                  *)
EXTENDS UniBatch

MCProvider == {"DtPOSTGR", "DtORACLE", "DtSQLSRV"}
MCBindParams == [p \in MCProvider |-> IF p = "DtSQLSRV" THEN 3 ELSE 7]
MCRequests == {-1, 0, 1, 2, 3, 4, 9}
=============================================================================
