------------------------------ MODULE UniBatch ------------------------------
(***************************************************************************)
(* Batch writing: InsertP and CopyInP cut a slice into pages, and each     *)
(* page is one InsertL or CopyInL, with no transaction around them.        *)
(*                                                                         *)
(* The engine writes rows 1, 2, ... n of one table.  InsertP reads the     *)
(* table's columns once to choose the size of the pages and every page     *)
(* reads them again, while other goroutines may register columns.  Which   *)
(* limits apply depends on Provider, where a page goes on Supplier.        *)
(* A page is one statement: one whose driver call fails wrote nothing.     *)
(*                                                                         *)
(* The limits of the code (999 rows; 100 for Oracle and Dameng; 60000 or,  *)
(* on SQL Server, 2000 parameters) are constants, so that they can be      *)
(* small enough for TLC and arbitrary in the proofs.                       *)
(***************************************************************************)
EXTENDS Integers, Sequences

CONSTANTS
  Provider,           \* the providers in use
  maxBatchRows,       \* also defaultBatchRows
  oracleMaxBatchRows,
  maxBatchBindParams, \* maxBatchBindParams[provider]
  Requests,           \* the page sizes callers ask for: a bound
  MaxRows,            \* bound on the rows of a slice
  MaxColumns          \* bound on the columns of the table

Family == [oracle |-> {"DtORACLE", "DtDAMENG"},
           postgres |-> {"DtPOSTGR", "DtKINGES", "DtOPENGS", "DtPOLODB"}]

ASSUME BatchAssumption ==
  /\ maxBatchRows \in Nat \ {0}
  /\ oracleMaxBatchRows \in Nat \ {0}
  /\ maxBatchBindParams \in [Provider -> Nat]
  /\ Requests \subseteq Int
  /\ MaxRows \in Nat /\ MaxColumns \in Nat

VARIABLES
  columns, \* how many columns of the table the registry can write
  call,    \* the call in progress or the last one
  pages    \* the pages it has written, in order

vars == <<columns, call, pages>>

Method == {"InsertP", "CopyInP"}
Result == {"called", "running", "nil", "error", "ErrBatchTooLarge"}

\* size: the rows of a page, until the call starts the size asked for;
\* read: how many rows were taken from the slice; columns: the columns of
\* the table when the size was chosen.
Call == [method : Method, provider : Provider, polo : BOOLEAN, size : Int,
         n : 0..MaxRows, read : 0..MaxRows, columns : 0..MaxColumns, out : Result]
Page == [from : 1..MaxRows, to : 1..MaxRows, columns : 0..MaxColumns]

TypeOK ==
  /\ columns \in 0..MaxColumns
  /\ call \in Call
  /\ pages \in Seq(Page)

-----------------------------------------------------------------------------
(* The size of a page. *)

Least(a, b) == IF a <= b THEN a ELSE b
Most(a, b) == IF a >= b THEN a ELSE b

\* Faulty variant: the row limit is only a default.
PageSizeUnlimited(provider, requested, cols) ==
  IF requested <= 0 THEN maxBatchRows ELSE requested

\* Faulty variant: the budget is divided by the columns and rounded up.
PageSizeRoundedUp(provider, requested, cols) ==
  LET rows == IF requested <= 0 THEN maxBatchRows ELSE Least(requested, maxBatchRows)
      budget == (maxBatchBindParams[provider] + cols - 1) \div cols
  IN  IF cols > 0 THEN Least(rows, Most(1, budget)) ELSE rows

normalizeBatchPageSize(provider, requested, cols) ==
  LET asked == IF requested <= 0 THEN maxBatchRows ELSE Least(requested, maxBatchRows)
      rows == IF provider \in Family.oracle THEN Least(asked, oracleMaxBatchRows) ELSE asked
      budget == Most(1, maxBatchBindParams[provider] \div cols)
  IN  IF cols > 0 THEN Most(1, Least(rows, budget)) ELSE Most(1, rows)

-----------------------------------------------------------------------------
(* The calls. *)

\* InsertPCtx, CopyInPCtx, up to the loop: asked is what the caller passes.
Start ==
  /\ call.out = "called"
  /\ LET cols == IF call.method = "InsertP" THEN columns ELSE 0
     IN  call' = [call EXCEPT !.size = normalizeBatchPageSize(call.provider, call.size, cols),
                              !.columns = columns, !.out = "running"]
  /\ UNCHANGED <<columns, pages>>

\* Faulty variant: the last page is taken to be full as well.
PageEndUnclipped == call.read + call.size

\* The rows of the next page end here: a full page or what is left.
PageEnd == IF call.size >= 1 /\ call.n - call.read >= call.size
           THEN call.read + call.size ELSE call.n

Copies == call.method = "CopyInP" \/ call.polo

\* What InsertLCtx or CopyInLCtx refuses a page of that many rows for.
Refused(rows) ==
  \/ columns = 0
  \/ ~Copies /\ rows > maxBatchRows
  \/ Copies /\ call.provider \notin Family.postgres

Refusal(rows) == IF ~Copies /\ rows > maxBatchRows THEN "ErrBatchTooLarge" ELSE "error"

\* One page: insertPage, or CopyInLCtx directly.  The driver may fail too.
WritePage ==
  /\ call.out = "running" /\ call.read < call.n
  /\ LET rows == PageEnd - call.read
     IN  \/ /\ ~Refused(rows)
            /\ pages' = Append(pages, [from |-> call.read + 1, to |-> PageEnd,
                                       columns |-> columns])
            /\ call' = [call EXCEPT !.read = PageEnd]
         \/ /\ Refused(rows)
            /\ call' = [call EXCEPT !.out = Refusal(rows)]
            /\ UNCHANGED pages
         \/ /\ call' = [call EXCEPT !.out = "error"]
            /\ UNCHANGED pages
  /\ UNCHANGED columns

\* Faulty variant: the loop ends with the last full page.
FinishLosesTail ==
  /\ call.out = "running" /\ call.n - call.read < call.size
  /\ call' = [call EXCEPT !.out = "nil"]
  /\ UNCHANGED <<columns, pages>>

\* The page after the loop is empty when the rows fill their pages; InsertL
\* and CopyInL return at once.
Finish ==
  /\ call.out = "running" /\ call.read = call.n
  /\ call' = [call EXCEPT !.out = "nil"]
  /\ UNCHANGED <<columns, pages>>

\* RegisterField, by another goroutine.
RegisterField ==
  /\ columns < MaxColumns
  /\ columns' = columns + 1
  /\ UNCHANGED <<call, pages>>

Init ==
  /\ columns \in 0..MaxColumns
  /\ \E method \in Method, provider \in Provider, polo \in BOOLEAN,
        requested \in Requests, n \in 0..MaxRows :
       call = [method |-> method, provider |-> provider, polo |-> polo,
               size |-> requested, n |-> n, read |-> 0, columns |-> 0, out |-> "called"]
  /\ pages = <<>>

Next == Start \/ WritePage \/ Finish \/ RegisterField

Spec == Init /\ [][Next]_vars
-----------------------------------------------------------------------------
(* Properties. *)

Written == IF pages = <<>> THEN 0 ELSE pages[Len(pages)].to

\* What is in the database is always rows 1 to k of the slice, each once and
\* in order, k being a whole number of pages: all rows when the call returns
\* nil, fewer when it returns an error (InsertPCtx and CopyInPCtx have no
\* transaction; the caller can go on from row k + 1).
Prefix ==
  /\ Written = call.read
  /\ \A i \in 1..Len(pages) :
       pages[i].from = (IF i = 1 THEN 1 ELSE pages[i - 1].to + 1)
  /\ \A i \in 1..Len(pages) :
       \/ pages[i].to - pages[i].from + 1 = call.size
       \/ pages[i].to = call.n /\ pages[i].to - pages[i].from + 1 \in 1..call.size
  /\ call.out = "nil" => Written = call.n
  /\ call.out \in {"error", "ErrBatchTooLarge"} => Written < call.n

\* The pages InsertP makes for itself are never refused by InsertL as too
\* large (ErrBatchTooLarge; README "InsertP cuts pages and is not limited").
NeverTooLarge == call.out # "ErrBatchTooLarge"

\* A page of InsertP stays within the provider's parameter budget, or has one
\* row, as long as the table has no more columns than when the size was
\* chosen (normalizeBatchPageSize).
WithinBudget ==
  call.method = "InsertP" /\ call.columns > 0 =>
    \A i \in 1..Len(pages) :
      LET rows == pages[i].to - pages[i].from + 1
      IN  \/ rows = 1
          \/ pages[i].columns > call.columns
          \/ rows * pages[i].columns <= maxBatchBindParams[call.provider]
=============================================================================
