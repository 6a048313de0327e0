--------------------------- MODULE UniBatchProofs ---------------------------
(***************************************************************************)
(* Theorems about UniBatch, for slices of any length, tables of any width, *)
(* any requested page size and any limits: those of the code among them.   *)
(***************************************************************************)
EXTENDS UniBatch, SequenceTheorems, TLAPS

\* A page size is good for a budget and a number of columns, 0 if unknown.
Fits(size, budget, cols) ==
  /\ size \in 1..maxBatchRows
  /\ cols > 0 => size = 1 \/ size * cols <= budget

SizeOK ==
  /\ call.out = "called" => pages = <<>> /\ call.read = 0
  /\ call.out # "called" =>
       Fits(call.size, maxBatchBindParams[call.provider],
            IF call.method = "InsertP" THEN call.columns ELSE 0)

IInv == TypeOK /\ Prefix /\ NeverTooLarge /\ WithinBudget /\ SizeOK

-----------------------------------------------------------------------------
(* The size of a page.                                                     *)

LEMMA Quotient ==
  ASSUME NEW b \in Nat, NEW c \in Nat \ {0}
  PROVE  b \div c \in Nat /\ (b \div c) * c <= b
  OBVIOUS

LEMMA Product ==
  ASSUME NEW a \in Nat, NEW b \in Nat, NEW c \in Nat, NEW d \in Nat, a <= b, c <= d
  PROVE  a * c <= b * d
<1>1. a * c <= b * c
  OBVIOUS
<1>2. b * c <= b * d
  OBVIOUS
<1>3. a * c \in Nat /\ b * c \in Nat /\ b * d \in Nat
  OBVIOUS
<1>4. QED BY <1>1, <1>2, <1>3

\* Whatever is asked for, a page has at least one row and no more than the
\* limit, and more than one only within the budget.
LEMMA PageSize ==
  ASSUME NEW provider \in Provider, NEW requested \in Int, NEW cols \in Nat
  PROVE  Fits(normalizeBatchPageSize(provider, requested, cols),
              maxBatchBindParams[provider], cols)
<1> DEFINE asked == IF requested <= 0 THEN maxBatchRows ELSE Least(requested, maxBatchRows)
           rows == IF provider \in Family.oracle THEN Least(asked, oracleMaxBatchRows)
                   ELSE asked
           budget == maxBatchBindParams[provider]
           size == normalizeBatchPageSize(provider, requested, cols)
<1>1. budget \in Nat /\ rows \in 1..maxBatchRows
  BY BatchAssumption DEF Least
<1>2. CASE cols = 0
  BY <1>1, <1>2 DEF normalizeBatchPageSize, Most, Fits
<1>3. CASE cols > 0
  <2>1. budget \div cols \in Nat /\ (budget \div cols) * cols <= budget
    BY <1>1, <1>3, Quotient
  <2> DEFINE q == budget \div cols
  <2>2. size = Most(1, Least(rows, Most(1, q)))
    BY <1>3 DEF normalizeBatchPageSize
  <2> HIDE DEF q, rows, budget, size
  <2>3. size \in 1..maxBatchRows /\ (size = 1 \/ size <= q)
    BY <1>1, <2>1, <2>2, BatchAssumption DEF Most, Least, q
  <2>4. size <= q => size * cols <= q * cols
    BY <2>1, <2>3, Product DEF q
  <2>5. size <= q => size * cols <= budget
    <3>1. size * cols \in Nat /\ q * cols \in Nat
      BY <2>1, <2>3 DEF q
    <3>2. QED BY <1>1, <2>1, <2>4, <3>1 DEF q
  <2>6. QED BY <1>3, <2>3, <2>5 DEF Fits, size, budget
<1>4. QED BY <1>2, <1>3

-----------------------------------------------------------------------------
(* The steps.                                                              *)

LEMMA InitInv == ASSUME Init PROVE IInv
<1>1. pages = <<>> /\ pages \in Seq(Page) /\ Len(pages) = 0
  BY EmptySeq DEF Init
<1>2. call.out = "called" /\ call.read = 0 /\ call \in Call
  BY BatchAssumption DEF Init, Call, Result
<1>3. TypeOK
  BY <1>1, <1>2 DEF TypeOK, Init
<1>4. Prefix
  BY <1>1, <1>2 DEF Prefix, Written
<1>5. QED BY <1>1, <1>2, <1>3, <1>4 DEF IInv, NeverTooLarge, WithinBudget, SizeOK

LEMMA StartStep == ASSUME IInv, Start PROVE IInv'
<1> DEFINE cols == IF call.method = "InsertP" THEN columns ELSE 0
           size == normalizeBatchPageSize(call.provider, call.size, cols)
<1>1. call \in Call /\ columns \in Nat /\ cols \in Nat
  BY DEF IInv, TypeOK
<1>2. Fits(size, maxBatchBindParams[call.provider], cols)
  BY <1>1, PageSize DEF Call
<1>3. size \in Int
  BY <1>2, BatchAssumption DEF Fits
<1>4. /\ call' = [call EXCEPT !.size = size, !.columns = columns, !.out = "running"]
      /\ UNCHANGED <<columns, pages>>
  BY DEF Start
<1> HIDE DEF size
<1>5. /\ call' \in Call /\ call'.size = size /\ call'.columns = columns
      /\ call'.out = "running" /\ call'.read = call.read
      /\ call'.method = call.method /\ call'.provider = call.provider
  BY <1>1, <1>3, <1>4 DEF Call, Result, IInv, TypeOK
<1>6. pages = <<>> /\ Len(pages) = 0 /\ call.read = 0
  BY EmptySeq DEF IInv, SizeOK, Start
<1>7. TypeOK'
  BY <1>4, <1>5 DEF IInv, TypeOK
<1>8. Prefix'
  BY <1>4, <1>5, <1>6 DEF Prefix, Written
<1>9. SizeOK' /\ NeverTooLarge' /\ WithinBudget'
  BY <1>2, <1>4, <1>5, <1>6 DEF SizeOK, NeverTooLarge, WithinBudget
<1>10. QED BY <1>7, <1>8, <1>9 DEF IInv

\* A page holds at least one row, at most a page, and fewer only at the end.
LEMMA NextPage ==
  ASSUME IInv, call.out = "running", call.read < call.n
  PROVE  LET rows == PageEnd - call.read
         IN  /\ PageEnd \in 1..MaxRows /\ PageEnd <= call.n
             /\ rows \in 1..call.size /\ call.size \in 1..maxBatchRows
             /\ rows = call.size \/ PageEnd = call.n
<1>1. call.n \in 0..MaxRows /\ call.read \in 0..MaxRows /\ MaxRows \in Nat
  BY BatchAssumption DEF IInv, TypeOK, Call
<1>2. call.size \in 1..maxBatchRows /\ maxBatchRows \in Nat
  BY BatchAssumption DEF IInv, SizeOK, Fits
<1>3. QED BY <1>1, <1>2 DEF PageEnd

LEMMA WrittenStep ==
  ASSUME IInv, call.out = "running", call.read < call.n, columns > 0,
         pages' = Append(pages, [from |-> call.read + 1, to |-> PageEnd,
                                 columns |-> columns]),
         call' = [call EXCEPT !.read = PageEnd], UNCHANGED columns
  PROVE  IInv'
<1> DEFINE page == [from |-> call.read + 1, to |-> PageEnd, columns |-> columns]
           rows == PageEnd - call.read
<1>1. /\ PageEnd \in 1..MaxRows /\ PageEnd <= call.n
      /\ rows \in 1..call.size /\ call.size \in 1..maxBatchRows
      /\ rows = call.size \/ PageEnd = call.n
  BY NextPage
<1>2. /\ call \in Call /\ pages \in Seq(Page) /\ columns \in 0..MaxColumns
      /\ call.read \in Nat /\ call.n \in Nat
      /\ MaxRows \in Nat /\ maxBatchRows \in Nat /\ MaxColumns \in Nat
  BY BatchAssumption DEF IInv, TypeOK, Call
<1>3. page \in Page
  <2>1. call.read + 1 \in 1..MaxRows /\ PageEnd \in 1..MaxRows /\ columns \in 0..MaxColumns
    BY <1>1, <1>2
  <2>2. QED BY <2>1 DEF Page
<1>4. /\ page.from = call.read + 1 /\ page.to = PageEnd /\ page.columns = columns
      /\ page.to - page.from + 1 = rows
  BY <1>1, <1>2
<1>5. pages' = Append(pages, page)
  OBVIOUS
<1> HIDE DEF page
<1>6. /\ pages' \in Seq(Page) /\ Len(pages') = Len(pages) + 1 /\ Len(pages) \in Nat
      /\ \A i \in 1..Len(pages) : pages'[i] = pages[i]
      /\ pages'[Len(pages) + 1] = page
  BY <1>2, <1>3, <1>5, AppendProperties, LenProperties
<1>7. /\ call' \in Call /\ call'.read = PageEnd /\ call'.n = call.n
      /\ call'.size = call.size /\ call'.out = "running"
      /\ call'.method = call.method /\ call'.provider = call.provider
      /\ call'.columns = call.columns
  <2>1. PageEnd \in 0..MaxRows
    BY <1>1, <1>2
  <2> DEFINE end == PageEnd
  <2>2. call' = [call EXCEPT !.read = end]
    OBVIOUS
  <2> HIDE DEF end
  <2>3. end \in 0..MaxRows
    BY <2>1 DEF end
  <2>4. QED BY <1>2, <2>2, <2>3 DEF Call, end
<1>8. TypeOK'
  BY <1>6, <1>7 DEF IInv, TypeOK
<1>9. Prefix'
  <2>1. pages' # <<>> /\ Written' = PageEnd
    <3>1. pages' # <<>>
      BY <1>6, EmptySeq
    <3>2. QED BY <1>4, <1>6, <3>1 DEF Written
  <2>2. ASSUME NEW i \in 1..Len(pages')
        PROVE  pages'[i].from = (IF i = 1 THEN 1 ELSE pages'[i - 1].to + 1)
    <3>1. CASE i \in 1..Len(pages)
      <4>1. i # 1 => i - 1 \in 1..Len(pages)
        BY <1>6, <3>1
      <4>2. QED BY <1>6, <3>1, <4>1 DEF IInv, Prefix
    <3>2. CASE i = Len(pages) + 1
      <4>1. CASE pages = <<>>
        <5>1. call.read = 0 /\ Len(pages) = 0
          BY <4>1, EmptySeq DEF IInv, Prefix, Written
        <5>2. QED BY <1>4, <1>6, <3>2, <5>1
      <4>2. CASE pages # <<>>
        <5>1. Len(pages) # 0 /\ pages[Len(pages)].to = call.read
          BY <1>2, <4>2, EmptySeq DEF IInv, Prefix, Written
        <5>2. i # 1 /\ i - 1 = Len(pages) /\ Len(pages) \in 1..Len(pages)
          BY <1>6, <3>2, <5>1
        <5>3. QED BY <1>4, <1>6, <3>2, <5>1, <5>2
      <4>3. QED BY <4>1, <4>2
    <3>3. QED BY <1>6, <3>1, <3>2
  <2>3. ASSUME NEW i \in 1..Len(pages')
        PROVE  \/ pages'[i].to - pages'[i].from + 1 = call'.size
               \/ /\ pages'[i].to = call'.n
                  /\ pages'[i].to - pages'[i].from + 1 \in 1..call'.size
    <3>1. CASE i \in 1..Len(pages)
      BY <1>6, <1>7, <3>1 DEF IInv, Prefix
    <3>2. CASE i = Len(pages) + 1
      BY <1>1, <1>4, <1>6, <1>7, <3>2
    <3>3. QED BY <1>6, <3>1, <3>2
  <2>4. QED BY <1>7, <2>1, <2>2, <2>3 DEF Prefix
<1>10. SizeOK'
  BY <1>7 DEF IInv, SizeOK
<1>11. WithinBudget'
  <2>1. SUFFICES ASSUME call'.method = "InsertP", call'.columns > 0,
                        NEW i \in 1..Len(pages')
        PROVE  LET n == pages'[i].to - pages'[i].from + 1
               IN  \/ n = 1
                   \/ pages'[i].columns > call'.columns
                   \/ n * pages'[i].columns <= maxBatchBindParams[call'.provider]
    BY DEF WithinBudget
  <2>2. CASE i \in 1..Len(pages)
    BY <1>6, <1>7, <2>1, <2>2 DEF IInv, WithinBudget
  <2>3. CASE i = Len(pages) + 1 /\ columns <= call.columns
    <3> DEFINE budget == maxBatchBindParams[call.provider]
    <3>1. call.size = 1 \/ call.size * call.columns <= budget
      BY <1>7, <2>1 DEF IInv, SizeOK, Fits
    <3>2. call.columns \in Nat /\ budget \in Nat /\ rows \in Nat /\ call.size \in Nat
      <4>1. call.columns \in Nat /\ call.provider \in Provider
        BY <1>2 DEF Call
      <4>2. budget \in Nat
        BY <4>1, BatchAssumption
      <4>3. rows \in Nat /\ call.size \in Nat
        BY <1>1, <1>2
      <4>4. QED BY <4>1, <4>2, <4>3
    <3>3. columns \in Nat /\ rows <= call.size
      BY <1>1, <1>2
    <3>4. rows = 1 \/ rows * columns <= budget
      <4>1. call.size = 1 => rows = 1
        BY <1>1
      <4> HIDE DEF rows, budget
      <4>2. rows * columns \in Nat /\ call.size * call.columns \in Nat
        BY <3>2, <3>3
      <4>3. rows * columns <= call.size * call.columns
        BY <2>3, <3>2, <3>3, Product
      <4>4. QED BY <3>1, <3>2, <4>1, <4>2, <4>3
    <3>5. QED BY <1>4, <1>6, <1>7, <2>3, <3>4
  <2>4. CASE i = Len(pages) + 1 /\ columns > call.columns
    BY <1>4, <1>6, <1>7, <2>4
  <2>5. call.columns \in Int /\ columns \in Int
    BY <1>2 DEF Call
  <2>6. QED BY <1>6, <2>2, <2>3, <2>4, <2>5
<1>12. QED BY <1>7, <1>8, <1>9, <1>10, <1>11 DEF IInv, NeverTooLarge

\* A call that returns, or goes on in a wider table, has written what it has.
LEMMA ReturnStep ==
  ASSUME IInv, NEW out \in {"nil", "error"}, call.out = "running",
         call' = [call EXCEPT !.out = out], UNCHANGED <<columns, pages>>,
         out = "nil" => call.read = call.n, out = "error" => call.read < call.n
  PROVE  IInv'
<1>1. /\ call' \in Call /\ call'.read = call.read /\ call'.n = call.n
      /\ call'.size = call.size /\ call'.out = out
      /\ call'.method = call.method /\ call'.provider = call.provider
      /\ call'.columns = call.columns
  BY DEF IInv, TypeOK, Call, Result
<1>2. TypeOK'
  BY <1>1 DEF IInv, TypeOK
<1>3. Prefix'
  BY <1>1 DEF IInv, Prefix, Written
<1>4. NeverTooLarge' /\ WithinBudget' /\ SizeOK'
  BY <1>1 DEF IInv, NeverTooLarge, WithinBudget, SizeOK
<1>5. QED BY <1>2, <1>3, <1>4 DEF IInv

LEMMA WritePageStep == ASSUME IInv, WritePage PROVE IInv'
<1>1. PageEnd - call.read <= maxBatchRows
  BY NextPage, BatchAssumption DEF WritePage, IInv, TypeOK, Call
<1>2. Refused(PageEnd - call.read) => Refusal(PageEnd - call.read) = "error"
  BY <1>1, BatchAssumption, NextPage DEF Refusal, WritePage
<1>3. ~Refused(PageEnd - call.read) => columns > 0
  BY DEF Refused, IInv, TypeOK
<1>4. QED BY <1>2, <1>3, WrittenStep, ReturnStep DEF WritePage

LEMMA StepInv == ASSUME IInv, [Next]_vars PROVE IInv'
<1>1. CASE RegisterField
  BY <1>1, BatchAssumption DEF RegisterField, IInv, TypeOK, Prefix, Written, NeverTooLarge,
     WithinBudget, SizeOK
<1>2. CASE Finish
  BY <1>2, ReturnStep DEF Finish
<1>3. CASE UNCHANGED vars
  BY <1>3 DEF vars, IInv, TypeOK, Prefix, Written, NeverTooLarge, WithinBudget, SizeOK
<1>4. QED BY <1>1, <1>2, <1>3, StartStep, WritePageStep DEF Next

-----------------------------------------------------------------------------
(* The theorems.                                                           *)

\* The inductive invariant: the properties of the run and the size that the
\* loop works with.
THEOREM Invariance == Spec => []IInv
  BY InitInv, StepInv, PTL DEF Spec

\* Types.
THEOREM TypeCorrect == Spec => []TypeOK
<1>1. IInv => TypeOK
  BY DEF IInv
<1>2. QED BY <1>1, Invariance, PTL

\* A call always leaves a prefix of the slice, of whole pages.
THEOREM WritesPrefix == Spec => []Prefix
<1>1. IInv => Prefix
  BY DEF IInv
<1>2. QED BY <1>1, Invariance, PTL

\* InsertL never refuses a page of InsertP for its size.
THEOREM PagesAccepted == Spec => []NeverTooLarge
<1>1. IInv => NeverTooLarge
  BY DEF IInv
<1>2. QED BY <1>1, Invariance, PTL

\* The parameter budget is kept for every width of table and page size asked.
THEOREM BudgetKept == Spec => []WithinBudget
<1>1. IInv => WithinBudget
  BY DEF IInv
<1>2. QED BY <1>1, Invariance, PTL
=============================================================================
