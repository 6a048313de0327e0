---------------------------- MODULE UniLexProofs ----------------------------
(***************************************************************************)
(* Theorems about UniLex and UniHookSql, for texts of any length over any  *)
(* lexemes: the scanners of the engine and the reader of the database, who *)
(* know nothing of each other, come to the same, and the engine's parser   *)
(* maps columns to the arguments that the text gives them.                 *)
(*                                                                         *)
(* The operators are recursive functions on positions.  Induction is over  *)
(* sets of positions, from the fact that the order of the numbers is       *)
(* well-founded.  That a recursive function exists, and so satisfies its   *)
(* equation, is shown once for those that go backwards through a text and  *)
(* once for those that go forwards.                                        *)
(***************************************************************************)
EXTENDS UniHookSql, Integers, FiniteSetTheorems, WellFoundedInduction, TLAPS

-----------------------------------------------------------------------------
(* Induction. *)

Less == {p \in Nat \X Nat : p[1] < p[2]}

\* The order of the numbers is well-founded.
LEMMA LessWF == IsWellFoundedOn(Less, Nat)
<1>1. Less = OpToRel(<, Nat)
  BY DEF Less, OpToRel
<1>2. QED
  BY <1>1, NatLessThanWellFounded

\* A set of numbers that is not empty has a smallest one.
LEMMA Least ==
  ASSUME NEW T, T \subseteq Nat, T # {}
  PROVE  \E m \in T : \A n \in T : m <= n
<1>1. PICK m \in T : \A n \in T : <<n, m>> \notin Less
  BY LessWF, WFMin
<1>2. ASSUME NEW n \in T PROVE m <= n
  <2>1. m \in Nat /\ n \in Nat /\ <<n, m>> \in Nat \X Nat
    OBVIOUS
  <2>2. ~ (n < m)
    BY <1>1, <2>1 DEF Less
  <2>3. QED
    BY <2>1, <2>2
<1>3. QED
  BY <1>2

\* A set with 0 and with the successor of each of its numbers has them all.
LEMMA SetInduction ==
  ASSUME NEW S, 0 \in S, \A n \in Nat : n \in S => n + 1 \in S
  PROVE  Nat \subseteq S
<1>1. SUFFICES ASSUME Nat \ S # {} PROVE FALSE
  OBVIOUS
<1>2. PICK m \in Nat \ S : \A n \in Nat \ S : m <= n
  BY <1>1, Least
<1>3. m - 1 \in Nat /\ m - 1 \in S
  BY <1>2
<1>4. QED
  BY <1>2, <1>3

\* Backwards: a set with the end, and with a position when it has all behind it.
LEMMA Downward ==
  ASSUME NEW N \in Nat, NEW S, N + 1 \in S,
         \A i \in 1 .. N : (i + 1) .. (N + 1) \subseteq S => i \in S
  PROVE  1 .. N + 1 \subseteq S
<1> DEFINE K == {k \in Nat : \A i \in 1 .. N + 1 : i >= N + 1 - k => i \in S}
<1>1. 0 \in K
  OBVIOUS
<1>2. ASSUME NEW k \in Nat, k \in K PROVE k + 1 \in K
  <2>1. ASSUME NEW i \in 1 .. N + 1, i >= N + 1 - (k + 1) PROVE i \in S
    <3>1. CASE i >= N + 1 - k
      BY <3>1, <1>2
    <3>2. CASE i = N + 1 - (k + 1)
      <4>1. (i + 1) .. (N + 1) \subseteq S
        BY <3>2, <1>2
      <4>2. i \in 1 .. N
        BY <3>2
      <4>3. QED
        BY <4>1, <4>2
    <3>3. QED
      BY <2>1, <3>1, <3>2
  <2>2. QED
    BY <2>1
<1>3. Nat \subseteq K
  <2> HIDE DEF K
  <2>1. QED
    BY <1>1, <1>2, SetInduction
<1>4. N + 1 \in K
  BY <1>3
<1>5. QED
  BY <1>4

\* Forwards.
LEMMA Upward ==
  ASSUME NEW N \in Nat, NEW S, 1 \in S,
         \A i \in 1 .. N : i \in S => i + 1 \in S
  PROVE  1 .. N + 1 \subseteq S
<1> DEFINE K == {k \in Nat : k + 1 \in 1 .. N + 1 => k + 1 \in S}
<1>1. 0 \in K
  OBVIOUS
<1>2. ASSUME NEW k \in Nat, k \in K PROVE k + 1 \in K
  BY <1>2
<1>3. Nat \subseteq K
  <2> HIDE DEF K
  <2>1. QED
    BY <1>1, <1>2, SetInduction
<1>4. ASSUME NEW i \in 1 .. N + 1 PROVE i \in S
  <2>1. i - 1 \in K
    BY <1>3
  <2>2. QED
    BY <2>1
<1>5. QED
  BY <1>4

-----------------------------------------------------------------------------
(* Recursive functions exist. *)

\* f goes back from the end, over the positions that next gives.
GoesBackwards(f, N, base, next, comb) ==
  f[N + 1] = base /\ \A i \in 1 .. N : f[i] = comb[<<i, f[next[i]]>>]

\* f goes from each position to the next.
GoesForwards(f, N, base, comb) ==
  f[1] = base /\ \A i \in 1 .. N : f[i + 1] = comb[<<i, f[i]>>]

\* Such functions exist.
LEMMA BackwardRecursion ==
  ASSUME NEW N \in Nat, NEW V, NEW base \in V,
         NEW next \in [1 .. N -> Nat], \A i \in 1 .. N : next[i] \in (i + 1) .. (N + 1),
         NEW comb \in [(1 .. N) \X V -> V]
  PROVE  \E f \in [1 .. N + 1 -> V] : GoesBackwards(f, N, base, next, comb)
<1> DEFINE From(k) == {f \in [k .. N + 1 -> V] :
              f[N + 1] = base /\ \A i \in k .. N : f[i] = comb[<<i, f[next[i]]>>]}
           S == {k \in 1 .. N + 1 : From(k) # {}}
<1> HIDE DEF From, S
<1>1. N + 1 \in S
  <2>1. [i \in N + 1 .. N + 1 |-> base] \in From(N + 1)
    BY DEF From
  <2>2. QED
    BY <2>1 DEF S
<1>2. ASSUME NEW k \in 1 .. N, (k + 1) .. (N + 1) \subseteq S PROVE k \in S
  <2>1. k + 1 \in S
    BY <1>2
  <2>2. PICK f : f \in From(k + 1)
    BY <2>1 DEF S
  <2> DEFINE g == [i \in k .. N + 1 |-> IF i = k THEN comb[<<k, f[next[k]]>>] ELSE f[i]]
  <2>3. next[k] \in k + 1 .. N + 1 /\ f[next[k]] \in V
    BY <2>2 DEF From
  <2>4. comb[<<k, f[next[k]]>>] \in V
    BY <2>3
  <2>5. g \in [k .. N + 1 -> V]
    BY <2>2, <2>4 DEF From
  <2>6. g[N + 1] = base
    BY <2>2 DEF From
  <2>7. ASSUME NEW i \in k .. N PROVE g[i] = comb[<<i, g[next[i]]>>]
    <3>1. next[i] \in k + 1 .. N + 1
      OBVIOUS
    <3>2. g[next[i]] = f[next[i]]
      BY <3>1
    <3>3. CASE i = k
      <4>1. g[k] = comb[<<k, f[next[k]]>>]
        OBVIOUS
      <4>2. QED
        BY <3>2, <3>3, <4>1
    <3>4. CASE i # k
      <4>1. f[i] = comb[<<i, f[next[i]]>>] /\ g[i] = f[i]
        BY <2>2, <3>4 DEF From
      <4>2. QED
        BY <3>2, <4>1
    <3>5. QED
      BY <3>3, <3>4
  <2>8. g \in From(k)
    BY <2>5, <2>6, <2>7 DEF From
  <2>9. QED
    BY <2>8 DEF S
<1>3. 1 .. N + 1 \subseteq S
  BY <1>1, <1>2, Downward
<1>4. PICK f : f \in From(1)
  BY <1>3 DEF S
<1>5. QED
  BY <1>4 DEF From, GoesBackwards

\* And such ones.
LEMMA ForwardRecursion ==
  ASSUME NEW N \in Nat, NEW V, NEW base \in V, NEW comb \in [(1 .. N) \X V -> V]
  PROVE  \E f \in [1 .. N + 1 -> V] : GoesForwards(f, N, base, comb)
<1> DEFINE Upto(k) == {f \in [1 .. k -> V] :
              f[1] = base /\ \A i \in 1 .. k - 1 : f[i + 1] = comb[<<i, f[i]>>]}
           S == {k \in 1 .. N + 1 : Upto(k) # {}}
<1> HIDE DEF Upto, S
<1>1. 1 \in S
  <2>1. [i \in 1 .. 1 |-> base] \in Upto(1)
    BY DEF Upto
  <2>2. QED
    BY <2>1 DEF S
<1>2. ASSUME NEW k \in 1 .. N, k \in S PROVE k + 1 \in S
  <2>1. PICK f : f \in Upto(k)
    BY <1>2 DEF S
  <2> DEFINE g == [i \in 1 .. k + 1 |-> IF i = k + 1 THEN comb[<<k, f[k]>>] ELSE f[i]]
  <2>2. f[k] \in V /\ comb[<<k, f[k]>>] \in V
    BY <2>1 DEF Upto
  <2>3. g \in [1 .. k + 1 -> V]
    BY <2>1, <2>2 DEF Upto
  <2>4. g[1] = base
    BY <2>1 DEF Upto
  <2>5. ASSUME NEW i \in 1 .. (k + 1) - 1 PROVE g[i + 1] = comb[<<i, g[i]>>]
    <3>1. CASE i = k
      <4>1. g[k + 1] = comb[<<k, f[k]>>] /\ g[k] = f[k]
        OBVIOUS
      <4>2. QED
        BY <3>1, <4>1
    <3>2. CASE i < k
      <4>1. f[i + 1] = comb[<<i, f[i]>>]
        BY <2>1, <3>2 DEF Upto
      <4>2. g[i + 1] = f[i + 1] /\ g[i] = f[i]
        BY <3>2
      <4>3. QED
        BY <4>1, <4>2
    <3>3. QED
      BY <3>1, <3>2
  <2>6. g \in Upto(k + 1)
    BY <2>3, <2>4, <2>5 DEF Upto
  <2>7. QED
    BY <2>6 DEF S
<1>3. 1 .. N + 1 \subseteq S
  BY <1>1, <1>2, Upward
<1>4. PICK f : f \in Upto(N + 1)
  BY <1>3 DEF S
<1>5. QED
  BY <1>4 DEF Upto, GoesForwards

-----------------------------------------------------------------------------
(* The recursive functions of UniLex conform to the equations that define  *)
(* them.                                                                   *)

State == {"code", "line", "opening", "block", "closing"} \cup Quote

\* After is a state.
LEMMA AfterType ==
  ASSUME NEW text, NEW n, NEW was \in State
  PROVE  After(text, n, was) \in State
BY DEF After, State, Quote

\* The states of the database's lexer, from one position to the next.
LEMMA LexerIs ==
  ASSUME NEW S, NEW text \in Seq(S)
  PROVE  /\ Lexer(text) \in [1 .. Len(text) + 1 -> State]
         /\ Lexer(text)[1] = "code"
         /\ \A n \in 1 .. Len(text) : Lexer(text)[n + 1] = After(text, n, Lexer(text)[n])
<1> DEFINE N == Len(text)
           IsLexer(f) == f = [n \in 1 .. N + 1 |->
                                IF n = 1 THEN "code" ELSE After(text, n - 1, f[n - 1])]
           comb == [p \in (1 .. N) \X State |-> After(text, p[1], p[2])]
<1>1. N \in Nat
  OBVIOUS
<1>2. comb \in [(1 .. N) \X State -> State]
  BY AfterType
<1>3. \A n \in 1 .. N, was \in State : comb[<<n, was>>] = After(text, n, was)
  OBVIOUS
<1> HIDE DEF comb
<1>4. PICK f \in [1 .. N + 1 -> State] : GoesForwards(f, N, "code", comb)
  <2>1. "code" \in State
    BY DEF State
  <2> HIDE DEF N, IsLexer
  <2>2. QED
    BY <1>1, <1>2, <2>1, ForwardRecursion
<1>5. IsLexer(f)
  <2>1. ASSUME NEW n \in 1 .. N + 1, n # 1 PROVE f[n] = After(text, n - 1, f[n - 1])
    <3>1. n - 1 \in 1 .. N /\ (n - 1) + 1 = n
      BY <2>1
    <3>2. f[n] = comb[<<n - 1, f[n - 1]>>] /\ f[n - 1] \in State
      BY <1>4, <3>1 DEF GoesForwards
    <3>3. QED
      BY <1>3, <3>1, <3>2
  <2>2. QED
    BY <1>4, <2>1 DEF GoesForwards
<1>6. Lexer(text) = CHOOSE g : IsLexer(g)
  BY DEF Lexer
<1>7. IsLexer(Lexer(text))
  <2> HIDE DEF IsLexer
  <2>1. QED
    BY <1>5, <1>6
<1> DEFINE L == Lexer(text)
<1>8. L = [n \in 1 .. N + 1 |-> IF n = 1 THEN "code" ELSE After(text, n - 1, L[n - 1])]
  BY <1>7
<1> HIDE DEF L
<1>9. L[1] = "code" /\ \A n \in 1 .. N : L[n + 1] = After(text, n, L[n])
  <2>1. ASSUME NEW n \in 1 .. N PROVE L[n + 1] = After(text, n, L[n])
    <3>1. n + 1 \in 1 .. N + 1 /\ n + 1 # 1 /\ (n + 1) - 1 = n
      BY <1>1
    <3>2. L[n + 1] = After(text, (n + 1) - 1, L[(n + 1) - 1])
      BY <1>8, <3>1
    <3>3. QED
      BY <3>1, <3>2
  <2>2. 1 \in 1 .. N + 1
    BY <1>1
  <2>3. L[1] = "code"
    BY <1>8, <2>2
  <2>4. QED
    BY <2>1, <2>3
<1>10. \A n \in 1 .. N + 1 : L[n] \in State
  <2> DEFINE T == {n \in 1 .. N + 1 : L[n] \in State}
  <2>1. 1 \in T
    BY <1>1, <1>9 DEF State
  <2>2. ASSUME NEW n \in 1 .. N, n \in T PROVE n + 1 \in T
    BY <1>1, <1>9, <2>2, AfterType
  <2>3. 1 .. N + 1 \subseteq T
    <3> HIDE DEF T
    <3>1. QED
      BY <1>1, <2>1, <2>2, Upward
  <2>4. QED
    BY <2>3
<1>11. L \in [1 .. N + 1 -> State]
  BY <1>8, <1>10
<1>12. QED
  BY <1>9, <1>11 DEF L

\* Where a quote ends, for a loop that stands at each position.
LEMMA QuoteEndsIs ==
  ASSUME NEW S, NEW text \in Seq(S), NEW i \in 1 .. Len(text)
  PROVE  /\ QuoteEnds(text, i) \in [1 .. Len(text) + 1 -> Nat]
         /\ QuoteEnds(text, i)[Len(text) + 1] = Len(text) + 1
         /\ \A n \in 1 .. Len(text) : QuoteEnds(text, i)[n] =
              IF text[n] # text[i] THEN QuoteEnds(text, i)[n + 1]
              ELSE IF text[i] = "'" /\ n < Len(text) /\ text[n + 1] = "'"
                   THEN QuoteEnds(text, i)[n + 2] ELSE n + 1
<1> DEFINE N == Len(text)
           Doubled(n) == text[i] = "'" /\ n < N /\ text[n + 1] = "'"
           Steps(f, n) == IF text[n] # text[i] THEN f[n + 1]
                          ELSE IF Doubled(n) THEN f[n + 2] ELSE n + 1
           IsEnds(f) == f = [n \in 1 .. N + 1 |-> IF n > N THEN N + 1 ELSE Steps(f, n)]
           next == [n \in 1 .. N |-> IF text[n] = text[i] /\ Doubled(n) THEN n + 2 ELSE n + 1]
           comb == [p \in (1 .. N) \X Nat |->
                      IF text[p[1]] = text[i] /\ ~Doubled(p[1]) THEN p[1] + 1 ELSE p[2]]
<1>1. N \in Nat
  OBVIOUS
<1>2. next \in [1 .. N -> Nat] /\ \A n \in 1 .. N : next[n] \in n + 1 .. N + 1
  OBVIOUS
<1>3. comb \in [(1 .. N) \X Nat -> Nat]
  OBVIOUS
<1>4. \A n \in 1 .. N : next[n] = IF text[n] = text[i] /\ Doubled(n) THEN n + 2 ELSE n + 1
  OBVIOUS
<1>5. \A n \in 1 .. N, m \in Nat :
        comb[<<n, m>>] = IF text[n] = text[i] /\ ~Doubled(n) THEN n + 1 ELSE m
  OBVIOUS
<1> HIDE DEF N, Doubled, next, comb
<1>6. PICK f \in [1 .. N + 1 -> Nat] : GoesBackwards(f, N, N + 1, next, comb)
  <2>1. N + 1 \in Nat
    BY <1>1
  <2> HIDE DEF IsEnds
  <2>2. QED
    BY <1>1, <1>2, <1>3, <2>1, BackwardRecursion
<1>7. ASSUME NEW n \in 1 .. N PROVE f[n] = Steps(f, n)
  <2>1. f[n] = comb[<<n, f[next[n]]>>] /\ f[next[n]] \in Nat
    BY <1>1, <1>2, <1>6 DEF GoesBackwards
  <2>2. QED
    BY <1>4, <1>5, <2>1
<1>8. IsEnds(f)
  <2>1. f[N + 1] = N + 1
    BY <1>6 DEF GoesBackwards
  <2> HIDE DEF Steps
  <2>2. QED
    BY <1>1, <1>6, <1>7, <2>1
<1>9. QuoteEnds(text, i) = CHOOSE g : IsEnds(g)
  BY DEF QuoteEnds, N, Doubled
<1> DEFINE Q == QuoteEnds(text, i)
<1>10. IsEnds(Q)
  <2> HIDE DEF IsEnds
  <2>1. QED
    BY <1>8, <1>9
<1> HIDE DEF Q
<1>11. Q[N + 1] = N + 1 /\ \A n \in 1 .. N : Q[n] = Steps(Q, n)
  <2>1. N + 1 \in 1 .. N + 1 /\ \A n \in 1 .. N : n \in 1 .. N + 1 /\ ~(n > N)
    BY <1>1
  <2> HIDE DEF Steps
  <2>2. \A n \in 1 .. N + 1 : Q[n] = IF n > N THEN N + 1 ELSE Steps(Q, n)
    BY <1>10
  <2>3. QED
    BY <1>1, <2>1, <2>2
<1>12. \A n \in 1 .. N + 1 : Q[n] \in Nat
  <2> DEFINE T == {n \in 1 .. N + 1 : Q[n] \in Nat}
  <2>1. N + 1 \in T
    BY <1>1, <1>11
  <2>2. ASSUME NEW n \in 1 .. N, (n + 1) .. (N + 1) \subseteq T PROVE n \in T
    <3>1. n + 1 \in T
      BY <1>1, <2>2
    <3>2. Doubled(n) => n + 2 \in T
      BY <1>1, <2>2 DEF Doubled
    <3>3. Q[n] = Steps(Q, n) /\ n \in Nat /\ n \in 1 .. N + 1
      BY <1>1, <1>11
    <3>4. Q[n] \in Nat
      <4>1. Q[n + 1] \in Nat /\ (Doubled(n) => Q[n + 2] \in Nat) /\ n + 1 \in Nat
        BY <3>1, <3>2, <3>3
      <4>2. QED
        BY <3>3, <4>1
    <3>5. QED
      BY <3>3, <3>4
  <2> HIDE DEF T
  <2>3. 1 .. N + 1 \subseteq T
    BY <1>1, <2>1, <2>2, Downward
  <2>4. QED
    BY <2>3 DEF T
<1>13. Q \in [1 .. N + 1 -> Nat]
  BY <1>10, <1>12
<1>14. QED
  BY <1>11, <1>13 DEF Q, N, Doubled

\* It ends behind that position.
LEMMA QuoteEndsBehind ==
  ASSUME NEW S, NEW text \in Seq(S), NEW i \in 1 .. Len(text), NEW n \in 1 .. Len(text)
  PROVE  QuoteEnds(text, i)[n] \in n + 1 .. Len(text) + 1
<1> DEFINE N == Len(text)
           Q == QuoteEnds(text, i)
           T == {m \in 1 .. N + 1 : IF m = N + 1 THEN Q[m] = N + 1 ELSE Q[m] \in m + 1 .. N + 1}
<1>1. N \in Nat /\ N + 1 \in T
  BY QuoteEndsIs
<1>2. ASSUME NEW m \in 1 .. N, (m + 1) .. (N + 1) \subseteq T PROVE m \in T
  <2>1. m + 1 \in T
    BY <1>1, <1>2
  <2>2. m < N => m + 2 \in T
    BY <1>1, <1>2
  <2>3. QED
    BY <1>1, <2>1, <2>2, QuoteEndsIs
<1> HIDE DEF T
<1>3. 1 .. N + 1 \subseteq T
  BY <1>1, <1>2, Downward
<1>4. QED
  BY <1>1, <1>3 DEF T

-----------------------------------------------------------------------------
(* The loop of a scanner. *)

\* Min is the smallest.
LEMMA MinIs ==
  ASSUME NEW T, T \subseteq Nat, T # {}
  PROVE  Min(T) \in T /\ \A n \in T : Min(T) <= n
<1>1. \E m \in T : \A n \in T : m <= n
  BY Least
<1>2. QED
  BY <1>1 DEF Min

\* A line comment ends at its newline, or at the end.
LEMMA LineEndIs ==
  ASSUME NEW S, NEW text \in Seq(S), NEW i \in 1 .. Len(text), isLineComment(text, i)
  PROVE  /\ LineEnd(text, i) \in i + 1 .. Len(text) + 1
         /\ LineEnd(text, i) <= Len(text) => text[LineEnd(text, i)] = "\n"
         /\ \A n \in i .. LineEnd(text, i) - 1 : text[n] # "\n"
<1> DEFINE T == {n \in i .. Len(text) : text[n] = "\n"} \cup {Len(text) + 1}
<1>1. T \subseteq Nat /\ T # {} /\ Len(text) \in Nat /\ Len(text) + 1 \in T
  OBVIOUS
<1>2. LineEnd(text, i) = Min(T)
  BY DEF LineEnd
<1>3. LineEnd(text, i) \in T /\ \A n \in T : LineEnd(text, i) <= n
  <2> HIDE DEF T
  <2>1. QED
    BY <1>1, <1>2, MinIs
<1>4. text[i] = "-"
  BY DEF isLineComment
<1>5. QED
  BY <1>1, <1>3, <1>4

\* A block comment ends behind the first marks that close it, or at the end.
LEMMA BlockEndIs ==
  ASSUME NEW S, NEW text \in Seq(S), NEW i \in 1 .. Len(text), isBlockComment(text, i)
  PROVE  \E m \in i + 2 .. Len(text) + 1 :
           /\ \A n \in i + 2 .. m - 1 : n < Len(text) => ~(text[n] = "*" /\ text[n + 1] = "/")
           /\ \/ BlockEnd(text, i) = m /\ m = Len(text) + 1
              \/ /\ BlockEnd(text, i) = m + 2 /\ m < Len(text)
                 /\ text[m] = "*" /\ text[m + 1] = "/"
<1> DEFINE T == {n \in i + 2 .. Len(text) - 1 : text[n] = "*" /\ text[n + 1] = "/"}
<1>1. T \subseteq Nat /\ Len(text) \in Nat /\ i < Len(text)
  BY DEF isBlockComment
<1>2. BlockEnd(text, i) = IF T = {} THEN Len(text) + 1 ELSE Min(T) + 2
  BY DEF BlockEnd
<1>3. CASE T = {}
  <2>1. \A n \in i + 2 .. Len(text) - 1 : ~(text[n] = "*" /\ text[n + 1] = "/")
    BY <1>3
  <2>2. BlockEnd(text, i) = Len(text) + 1
    BY <1>2, <1>3
  <2>3. Len(text) + 1 \in i + 2 .. Len(text) + 1
    BY <1>1
  <2> HIDE DEF T
  <2>4. QED
    BY <1>1, <2>1, <2>2, <2>3
<1>4. CASE T # {}
  <2>1. Min(T) \in T /\ \A n \in T : Min(T) <= n
    <3> HIDE DEF T
    <3>1. QED
      BY <1>1, <1>4, MinIs
  <2> DEFINE m == Min(T)
  <2>2. BlockEnd(text, i) = m + 2
    BY <1>2, <1>4
  <2>3. m \in i + 2 .. Len(text) - 1 /\ text[m] = "*" /\ text[m + 1] = "/"
    BY <2>1
  <2>4. \A n \in i + 2 .. Len(text) - 1 : text[n] = "*" /\ text[n + 1] = "/" => m <= n
    BY <2>1
  <2> HIDE DEF m, T
  <2>5. m \in i + 2 .. Len(text) + 1
    BY <1>1, <2>3
  <2>6. QED
    BY <1>1, <2>2, <2>3, <2>4, <2>5
<1>5. QED
  BY <1>3, <1>4

\* The loop goes on behind where it stands.
LEMMA NextStopBehind ==
  ASSUME NEW S, NEW text \in Seq(S), NEW i \in 1 .. Len(text)
  PROVE  NextStop(text, i) \in i + 1 .. Len(text) + 1
<1>1. CASE text[i] \in Quote
  <2>1. NextStop(text, i) = QuoteEnds(text, i)[i + 1]
    BY <1>1 DEF NextStop, scanQuoted
  <2>2. CASE i = Len(text)
    BY <2>1, <2>2, QuoteEndsIs
  <2>3. CASE i < Len(text)
    <3>1. i + 1 \in 1 .. Len(text)
      BY <2>3
    <3>2. QuoteEnds(text, i)[i + 1] \in (i + 1) + 1 .. Len(text) + 1
      BY <3>1, QuoteEndsBehind
    <3>3. QED
      BY <2>1, <3>2
  <2>4. QED
    BY <2>2, <2>3
<1>2. CASE text[i] \notin Quote /\ isLineComment(text, i)
  BY <1>2, LineEndIs DEF NextStop
<1>3. CASE text[i] \notin Quote /\ ~isLineComment(text, i) /\ isBlockComment(text, i)
  BY <1>3, BlockEndIs DEF NextStop
<1>4. CASE text[i] \notin Quote /\ ~isLineComment(text, i) /\ ~isBlockComment(text, i)
  BY <1>4 DEF NextStop
<1>5. QED
  BY <1>1, <1>2, <1>3, <1>4

\* The positions at which it stands from each one on.
LEMMA StopsFromIs ==
  ASSUME NEW S, NEW text \in Seq(S)
  PROVE  /\ StopsFrom(text)[Len(text) + 1] = {}
         /\ \A i \in 1 .. Len(text) :
              StopsFrom(text)[i] = {i} \cup StopsFrom(text)[NextStop(text, i)]
<1> DEFINE N == Len(text)
           IsFrom(f) == f = [i \in 1 .. N + 1 |-> IF i > N THEN {} ELSE {i} \cup f[NextStop(text, i)]]
           next == [i \in 1 .. N |-> NextStop(text, i)]
           V == SUBSET Nat
           comb == [p \in (1 .. N) \X V |-> {p[1]} \cup p[2]]
<1>1. N \in Nat /\ {} \in V
  OBVIOUS
<1>2. next \in [1 .. N -> Nat] /\ \A i \in 1 .. N : next[i] \in i + 1 .. N + 1
  BY <1>1, NextStopBehind
<1>3. comb \in [(1 .. N) \X V -> V]
  BY <1>1
<1>4. \A i \in 1 .. N : next[i] = NextStop(text, i)
  OBVIOUS
<1>5. \A i \in 1 .. N, v \in V : comb[<<i, v>>] = {i} \cup v
  OBVIOUS
<1> HIDE DEF N, next, comb, V
<1>6. PICK f \in [1 .. N + 1 -> V] : GoesBackwards(f, N, {}, next, comb)
  <2> HIDE DEF IsFrom
  <2>1. QED
    BY <1>1, <1>2, <1>3, BackwardRecursion
<1>7. ASSUME NEW i \in 1 .. N PROVE f[i] = {i} \cup f[NextStop(text, i)]
  <2>1. f[i] = comb[<<i, f[next[i]]>>] /\ f[next[i]] \in V
    BY <1>1, <1>2, <1>6 DEF GoesBackwards
  <2>2. QED
    BY <1>4, <1>5, <2>1
<1>8. IsFrom(f)
  <2>1. f[N + 1] = {}
    BY <1>6 DEF GoesBackwards
  <2>2. QED
    BY <1>1, <1>6, <1>7, <2>1
<1>9. StopsFrom(text) = CHOOSE g : IsFrom(g)
  BY DEF StopsFrom, N
<1> DEFINE F == StopsFrom(text)
<1>10. IsFrom(F)
  <2> HIDE DEF IsFrom
  <2>1. QED
    BY <1>8, <1>9
<1> HIDE DEF F
<1>11. \A i \in 1 .. N + 1 : F[i] = IF i > N THEN {} ELSE {i} \cup F[NextStop(text, i)]
  BY <1>10
<1>12. F[N + 1] = {} /\ \A i \in 1 .. N : F[i] = {i} \cup F[NextStop(text, i)]
  <2>1. N + 1 \in 1 .. N + 1 /\ N + 1 > N /\ \A i \in 1 .. N : i \in 1 .. N + 1 /\ ~(i > N)
    BY <1>1
  <2>2. QED
    BY <1>11, <2>1
<1>13. QED
  BY <1>12 DEF F, N

\* From each position on: the loop stands at that position, and then only
\* behind it; it goes from stop to stop, over all positions; and what is true
\* of the first stop, and of the next of each, is true of all.
LEMMA StopsChain ==
  ASSUME NEW S, NEW text \in Seq(S), NEW i \in 1 .. Len(text) + 1
  PROVE  LET F == StopsFrom(text)[i]  N == Len(text)
         IN /\ F \subseteq i .. N
            /\ i <= N => i \in F
            /\ \A s \in F : NextStop(text, s) \in F \cup {N + 1}
            /\ \A s, t \in F : s < t => NextStop(text, s) <= t
            /\ \A j \in i .. N : \E s \in F : s <= j /\ j < NextStop(text, s)
<1> DEFINE N == Len(text)
           F(k) == StopsFrom(text)[k]
           next(s) == NextStop(text, s)
           Chain(k) ==
             /\ F(k) \subseteq k .. N
             /\ k <= N => k \in F(k)
             /\ \A s \in F(k) : next(s) \in F(k) \cup {N + 1}
             /\ \A s, t \in F(k) : s < t => next(s) <= t
             /\ \A j \in k .. N : \E s \in F(k) : s <= j /\ j < next(s)
           T == {k \in 1 .. N + 1 : Chain(k)}
<1>1. N \in Nat /\ N + 1 \in Nat
  OBVIOUS
<1>2. F(N + 1) = {} /\ \A k \in 1 .. N : F(k) = {k} \cup F(next(k))
  BY StopsFromIs
<1>3. \A k \in 1 .. N : next(k) \in k + 1 .. N + 1
  BY NextStopBehind
<1> HIDE DEF N, F, next
<1>4. N + 1 \in T
  BY <1>1, <1>2
<1>5. ASSUME NEW k \in 1 .. N, (k + 1) .. (N + 1) \subseteq T PROVE k \in T
  <2> DEFINE m == next(k)
  <2>1. m \in k + 1 .. N + 1 /\ m \in Nat /\ k < m
    BY <1>1, <1>3
  <2>2. m \in T
    BY <1>5, <2>1
  <2>3. Chain(m)
    BY <2>2
  <2>4. F(k) = {k} \cup F(m)
    BY <1>2
  <2> HIDE DEF m
  <2>5. F(k) \subseteq k .. N /\ k \in F(k)
    BY <1>1, <2>1, <2>3, <2>4
  <2>6. \A s \in F(k) : next(s) \in F(k) \cup {N + 1}
    <3>1. m \in F(k) \cup {N + 1}
      BY <1>1, <2>1, <2>3, <2>4
    <3>2. QED
      BY <2>3, <2>4, <3>1 DEF m
  <2>7. ASSUME NEW s \in F(k), NEW t \in F(k), s < t PROVE next(s) <= t
    <3>1. CASE s = k
      <4>1. t \in F(m)
        BY <2>1, <2>4, <2>7, <3>1
      <4>2. t \in m .. N
        BY <2>3, <4>1
      <4>3. QED
        BY <2>1, <3>1, <4>2 DEF m
    <3>2. CASE s # k
      <4>1. s \in F(m) /\ s \in m .. N
        BY <2>3, <2>4, <3>2
      <4>2. t \in F(m)
        BY <2>1, <2>4, <2>7, <4>1
      <4>3. QED
        BY <2>3, <2>7, <4>1, <4>2
    <3>3. QED
      BY <3>1, <3>2
  <2>8. ASSUME NEW j \in k .. N PROVE \E s \in F(k) : s <= j /\ j < next(s)
    <3>1. CASE j < m
      BY <1>1, <2>1, <2>5, <3>1 DEF m
    <3>2. CASE m <= j
      <4>1. j \in m .. N
        BY <1>1, <2>1, <3>2
      <4>2. QED
        BY <2>3, <2>4, <4>1
    <3>3. QED
      BY <1>1, <2>1, <3>1, <3>2
  <2>9. Chain(k)
    BY <2>5, <2>6, <2>7, <2>8
  <2>10. QED
    BY <2>9, <1>1
<1> HIDE DEF T
<1>6. 1 .. N + 1 \subseteq T
  BY <1>1, <1>4, <1>5, Downward
<1>7. i \in T
  BY <1>6 DEF N
<1>8. QED
  BY <1>7 DEF T, N, F, next

\* The same of all its stops, and induction over them.
LEMMA StopsAre ==
  ASSUME NEW S, NEW text \in Seq(S)
  PROVE  /\ Stops(text) \subseteq 1 .. Len(text)
         /\ \A s \in Stops(text) : NextStop(text, s) \in s + 1 .. Len(text) + 1
         /\ \A s, t \in Stops(text) : s < t => NextStop(text, s) <= t
         /\ \A j \in 1 .. Len(text) :
              \E s \in Stops(text) : s <= j /\ j < NextStop(text, s)
<1>1. 1 \in 1 .. Len(text) + 1
  OBVIOUS
<1>2. QED
  BY <1>1, StopsChain, NextStopBehind DEF Stops

\* What holds of the first position and from stop to stop holds of all stops.
LEMMA StopsInduction ==
  ASSUME NEW S, NEW text \in Seq(S), NEW T,
         1 \in T, \A i \in 1 .. Len(text) : i \in T => NextStop(text, i) \in T
  PROVE  Stops(text) \subseteq T
<1> DEFINE N == Len(text)
           F(k) == StopsFrom(text)[k]
           K == {k \in 1 .. N + 1 : k \in T => F(k) \subseteq T}
<1>1. N \in Nat
  OBVIOUS
<1>2. F(N + 1) = {} /\ \A k \in 1 .. N : F(k) = {k} \cup F(NextStop(text, k))
  BY StopsFromIs
<1>3. \A k \in 1 .. N : NextStop(text, k) \in k + 1 .. N + 1
  BY NextStopBehind
<1>4. \A k \in 1 .. N : k \in T => NextStop(text, k) \in T
  OBVIOUS
<1> HIDE DEF N, F
<1>5. N + 1 \in K
  BY <1>1, <1>2
<1>6. ASSUME NEW k \in 1 .. N, (k + 1) .. (N + 1) \subseteq K PROVE k \in K
  <2>1. NextStop(text, k) \in K
    BY <1>3, <1>6
  <2>2. QED
    BY <1>1, <1>2, <1>4, <2>1
<1> HIDE DEF K
<1>7. 1 .. N + 1 \subseteq K
  BY <1>1, <1>5, <1>6, Downward
<1>8. 1 \in K
  BY <1>1, <1>7
<1>9. QED
  BY <1>8 DEF K, F, Stops

-----------------------------------------------------------------------------
(* The scanners are in step with the database. *)

\* Forwards, from one position to another.
LEMMA Through ==
  ASSUME NEW a \in Nat, NEW b \in Nat, NEW S, a \in S,
         \A n \in a .. b - 1 : n \in S => n + 1 \in S
  PROVE  a .. b \subseteq S
<1> DEFINE K == {k \in Nat : a + k <= b => a + k \in S}
<1>1. 0 \in K
  OBVIOUS
<1>2. ASSUME NEW k \in Nat, k \in K PROVE k + 1 \in K
  BY <1>2
<1> HIDE DEF K
<1>3. Nat \subseteq K
  BY <1>1, <1>2, SetInduction
<1>4. ASSUME NEW i \in a .. b PROVE i \in S
  <2>1. i - a \in K
    BY <1>3
  <2>2. QED
    BY <2>1 DEF K
<1>5. QED
  BY <1>4

\* Inside a literal the database sees no code, but at a doubled quote.
LEMMA InsideQuote ==
  ASSUME NEW S, NEW text \in Seq(S), NEW i \in 1 .. Len(text),
         text[i] \in Quote, Lexer(text)[i] = "code"
  PROVE  /\ NextStop(text, i) <= Len(text) => Lexer(text)[NextStop(text, i)] = "code"
         /\ \A j \in i + 1 .. NextStop(text, i) - 1 :
              Lexer(text)[j] # "code" \/ text[j] = text[i]
<1> DEFINE N == Len(text)
           q == text[i]
           L == Lexer(text)
           Q == QuoteEnds(text, i)
           Doubled(n) == q = "'" /\ n < N /\ text[n + 1] = "'"
           Inside(n) ==
             L[n] = q => /\ Q[n] <= N => L[Q[n]] = "code"
                         /\ \A j \in n .. Q[n] - 1 : L[j] # "code" \/ text[j] = q
           T == {n \in 1 .. N + 1 : Inside(n)}
<1>1. N \in Nat /\ q \in Quote /\ q # "code"
  BY DEF Quote
<1>2. \A n \in 1 .. N : L[n] = q => L[n + 1] = IF text[n] = q THEN "code" ELSE q
  <2>1. ASSUME NEW n \in 1 .. N PROVE After(text, n, q) = IF text[n] = q THEN "code" ELSE q
    BY <1>1 DEF After, Quote
  <2>2. \A n \in 1 .. N : L[n + 1] = After(text, n, L[n])
    BY LexerIs
  <2>3. QED
    BY <2>1, <2>2
<1>3. \A n \in 1 .. N : L[n] = "code" /\ text[n] = q => L[n + 1] = q
  <2>1. ASSUME NEW n \in 1 .. N, text[n] = q PROVE After(text, n, "code") = q
    BY <1>1, <2>1 DEF After, Quote
  <2>2. \A n \in 1 .. N : L[n + 1] = After(text, n, L[n])
    BY LexerIs
  <2>3. QED
    BY <2>1, <2>2
<1>4. \A n \in 1 .. N : Q[n] = IF text[n] # q THEN Q[n + 1]
                               ELSE IF Doubled(n) THEN Q[n + 2] ELSE n + 1
  BY QuoteEndsIs
<1>5. Q[N + 1] = N + 1 /\ \A n \in 1 .. N : Q[n] \in n + 1 .. N + 1
  BY QuoteEndsIs, QuoteEndsBehind
<1>6. NextStop(text, i) = Q[i + 1] /\ L[i + 1] = q
  BY <1>3 DEF NextStop, scanQuoted
<1>7. i \in 1 .. N /\ (i + 1) \in 1 .. N + 1
  OBVIOUS
<1> HIDE DEF N, q, L, Q
<1>8. N + 1 \in T
  BY <1>1, <1>5
<1>9. ASSUME NEW n \in 1 .. N, (n + 1) .. (N + 1) \subseteq T PROVE n \in T
  <2>1. SUFFICES ASSUME L[n] = q PROVE Inside(n)
    BY <1>1
  <2>2. CASE text[n] # q
    <3>1. Q[n] = Q[n + 1] /\ L[n + 1] = q
      BY <1>2, <1>4, <2>1, <2>2
    <3>2. Inside(n + 1)
      BY <1>1, <1>9
    <3>3. QED
      BY <1>1, <1>5, <2>1, <3>1, <3>2
  <2>3. CASE text[n] = q /\ Doubled(n)
    <3>1. Q[n] = Q[n + 2] /\ n + 1 \in 1 .. N /\ text[n + 1] = q
      BY <1>1, <1>4, <2>3
    <3>2. L[n + 2] = q
      <4>1. L[n + 1] = "code"
        BY <1>2, <2>1, <2>3
      <4>2. L[(n + 1) + 1] = q
        BY <1>3, <3>1, <4>1
      <4>3. QED
        BY <4>2
    <3>3. Inside(n + 2)
      BY <1>1, <1>9, <3>1
    <3>4. Q[n] \in Nat /\ \A j \in n .. Q[n] - 1 : j = n \/ j = n + 1 \/ j \in n + 2 .. Q[n + 2] - 1
      BY <1>1, <1>5, <3>1
    <3>5. \A j \in n + 2 .. Q[n + 2] - 1 : L[j] # "code" \/ text[j] = q
      BY <3>2, <3>3
    <3>6. \A j \in n .. Q[n] - 1 : L[j] # "code" \/ text[j] = q
      BY <1>1, <2>1, <3>1, <3>4, <3>5
    <3>7. Q[n] <= N => L[Q[n]] = "code"
      BY <3>1, <3>2, <3>3
    <3>8. QED
      BY <3>6, <3>7
  <2>4. CASE text[n] = q /\ ~Doubled(n)
    <3>1. Q[n] = n + 1 /\ L[n + 1] = "code"
      BY <1>2, <1>4, <2>1, <2>4
    <3>2. QED
      BY <1>1, <2>1, <3>1
  <2>5. QED
    BY <2>2, <2>3, <2>4
<1> HIDE DEF T
<1>10. 1 .. N + 1 \subseteq T
  BY <1>1, <1>8, <1>9, Downward
<1>11. Inside(i + 1)
  BY <1>7, <1>10 DEF T
<1>12. QED
  BY <1>6, <1>11 DEF N, L, q

\* Inside a line comment it sees none, and the newline is the last of it.
LEMMA InsideLine ==
  ASSUME NEW S, NEW text \in Seq(S), NEW i \in 1 .. Len(text),
         isLineComment(text, i), Lexer(text)[i] = "code"
  PROVE  \A j \in i + 1 .. LineEnd(text, i) : Lexer(text)[j] = "line"
<1> DEFINE N == Len(text)
           L == Lexer(text)
           e == LineEnd(text, i)
           T == {n \in Nat : L[n] = "line"}
<1>1. N \in Nat /\ i + 1 \in Nat /\ e \in i + 1 .. N + 1
  BY LineEndIs
<1>2. L[i + 1] = "line"
  BY LexerIs DEF isLineComment, After, Quote
<1>3. ASSUME NEW n \in i + 1 .. e - 1, L[n] = "line" PROVE L[n + 1] = "line"
  <2>1. n \in 1 .. N /\ text[n] # "\n"
    BY <1>1, LineEndIs
  <2>2. QED
    BY <1>3, <2>1, LexerIs DEF After, Quote
<1> HIDE DEF N, L, e
<1>4. i + 1 .. e \subseteq T
  <2>1. i + 1 \in T /\ \A n \in i + 1 .. e - 1 : n \in T => n + 1 \in T
    BY <1>1, <1>2, <1>3
  <2>2. e \in Nat
    BY <1>1
  <2> HIDE DEF T
  <2>3. QED
    BY <1>1, <2>1, <2>2, Through
<1>5. QED
  BY <1>4 DEF L, e

\* Nor inside a block comment.
LEMMA InsideBlock ==
  ASSUME NEW S, NEW text \in Seq(S), NEW i \in 1 .. Len(text),
         isBlockComment(text, i), Lexer(text)[i] = "code"
  PROVE  /\ BlockEnd(text, i) <= Len(text) => Lexer(text)[BlockEnd(text, i)] = "code"
         /\ \A j \in i + 1 .. BlockEnd(text, i) - 1 : Lexer(text)[j] # "code"
<1> DEFINE N == Len(text)
           L == Lexer(text)
           e == BlockEnd(text, i)
           T == {n \in Nat : L[n] = "block"}
<1>1. PICK m \in i + 2 .. N + 1 :
        /\ \A n \in i + 2 .. m - 1 : n < N => ~(text[n] = "*" /\ text[n + 1] = "/")
        /\ \/ e = m /\ m = N + 1
           \/ e = m + 2 /\ m < N /\ text[m] = "*" /\ text[m + 1] = "/"
  BY BlockEndIs
<1>2. N \in Nat /\ i + 2 \in Nat /\ m \in Nat /\ i \in 1 .. N - 1
  BY <1>1 DEF isBlockComment
<1>3. L[i + 1] = "opening"
  BY LexerIs DEF isBlockComment, After, Quote
<1>4. L[i + 2] = "block"
  <2>1. L[(i + 1) + 1] = After(text, i + 1, "opening")
    BY <1>2, <1>3, LexerIs
  <2>2. After(text, i + 1, "opening") = "block"
    BY DEF After, Quote
  <2>3. QED
    BY <1>2, <2>1, <2>2
<1>5. ASSUME NEW n \in i + 2 .. m - 1, L[n] = "block" PROVE L[n + 1] = "block"
  <2>1. n \in 1 .. N /\ ~(text[n] = "*" /\ n + 1 \in DOMAIN text /\ text[n + 1] = "/")
    BY <1>1, <1>2
  <2>2. L[n + 1] = After(text, n, L[n])
    BY <2>1, LexerIs
  <2>3. After(text, n, "block") = "block"
    BY <2>1 DEF After, Quote
  <2>4. QED
    BY <1>5, <2>2, <2>3
<1>6. i + 2 .. m \subseteq T
  <2>1. i + 2 \in T /\ \A n \in i + 2 .. m - 1 : n \in T => n + 1 \in T
    BY <1>2, <1>4, <1>5
  <2> HIDE DEF T
  <2>2. QED
    BY <1>2, <2>1, Through
<1>7. CASE e = m /\ m = N + 1
  BY <1>2, <1>3, <1>6, <1>7
<1>8. CASE e = m + 2 /\ m < N /\ text[m] = "*" /\ text[m + 1] = "/"
  <2>1. m \in 1 .. N /\ m + 1 \in 1 .. N /\ L[m] = "block"
    BY <1>1, <1>2, <1>6, <1>8
  <2>2. L[m + 1] = "closing"
    <3>1. L[m + 1] = After(text, m, "block")
      BY <2>1, LexerIs
    <3>2. After(text, m, "block") = "closing"
      BY <1>8, <2>1 DEF After, Quote
    <3>3. QED
      BY <3>1, <3>2
  <2>3. L[(m + 1) + 1] = "code"
    <3>1. L[(m + 1) + 1] = After(text, m + 1, "closing")
      BY <2>1, <2>2, LexerIs
    <3>2. After(text, m + 1, "closing") = "code"
      BY DEF After, Quote
    <3>3. QED
      BY <3>1, <3>2
  <2> HIDE DEF N, L, e
  <2>4. QED
    BY <1>2, <1>3, <1>6, <1>8, <2>2, <2>3 DEF T, N, L, e
<1>9. QED
  BY <1>1, <1>7, <1>8

\* At a stop the database is in code, or the stop is the newline that ends a
\* line comment; between stops it sees only quotes as code.
InStep(text, s) ==
  /\ Lexer(text)[s] = "code" \/ (Lexer(text)[s] = "line" /\ text[s] = "\n")
  /\ \A j \in s + 1 .. NextStop(text, s) - 1 : Lexer(text)[j] # "code" \/ text[j] \in Quote

\* At every stop of the scanners the database reads code, or the newline that
\* ends a comment, and what it reads up to the next stop is as the scanners say.
LEMMA StopsInStep ==
  ASSUME NEW S, NEW text \in Seq(S)
  PROVE  \A s \in Stops(text) : InStep(text, s)
<1> DEFINE N == Len(text)
           L == Lexer(text)
           AtStop(s) == L[s] = "code" \/ (L[s] = "line" /\ text[s] = "\n")
           T == {s \in 1 .. N + 1 : s <= N => AtStop(s)}
<1>1. N \in Nat /\ \A s \in 1 .. N : NextStop(text, s) \in s + 1 .. N + 1
  BY NextStopBehind
<1>2. ASSUME NEW s \in 1 .. N, AtStop(s)
      PROVE  /\ NextStop(text, s) <= N => AtStop(NextStop(text, s))
             /\ \A j \in s + 1 .. NextStop(text, s) - 1 : L[j] # "code" \/ text[j] \in Quote
  <2>1. CASE L[s] = "line" /\ text[s] = "\n"
    <3>1. NextStop(text, s) = s + 1
      BY <2>1 DEF NextStop, Quote, isLineComment, isBlockComment
    <3>2. L[s + 1] = "code"
      BY <2>1, LexerIs DEF After, Quote
    <3>3. QED
      BY <1>1, <3>1, <3>2
  <2>2. CASE L[s] = "code" /\ text[s] \in Quote
    BY <2>2, InsideQuote
  <2>3. CASE L[s] = "code" /\ text[s] \notin Quote /\ isLineComment(text, s)
    <3>1. NextStop(text, s) = LineEnd(text, s)
      BY <2>3 DEF NextStop
    <3>2. \A j \in s + 1 .. LineEnd(text, s) : L[j] = "line"
      BY <2>3, InsideLine
    <3>3. LineEnd(text, s) <= N => text[LineEnd(text, s)] = "\n"
      BY <2>3, LineEndIs
    <3>4. QED
      BY <1>1, <3>1, <3>2, <3>3
  <2>4. CASE /\ L[s] = "code" /\ text[s] \notin Quote /\ ~isLineComment(text, s)
             /\ isBlockComment(text, s)
    <3>1. NextStop(text, s) = BlockEnd(text, s)
      BY <2>4 DEF NextStop
    <3>2. QED
      BY <2>4, <3>1, InsideBlock
  <2>5. CASE /\ L[s] = "code" /\ text[s] \notin Quote /\ ~isLineComment(text, s)
             /\ ~isBlockComment(text, s)
    <3>1. NextStop(text, s) = s + 1
      BY <2>5 DEF NextStop
    <3>2. L[s + 1] = "code"
      <4>1. L[s + 1] = After(text, s, "code")
        BY <2>5, LexerIs
      <4>2. After(text, s, "code") = "code"
        BY <2>5 DEF After, Quote, isLineComment, isBlockComment
      <4>3. QED
        BY <4>1, <4>2
    <3>3. QED
      BY <1>1, <3>1, <3>2
  <2>6. QED
    BY <1>2, <2>1, <2>2, <2>3, <2>4, <2>5
<1>3. 1 \in T
  BY <1>1, LexerIs
<1>4. ASSUME NEW s \in 1 .. N, s \in T PROVE NextStop(text, s) \in T
  BY <1>1, <1>2, <1>4
<1>5. Stops(text) \subseteq T
  <2> HIDE DEF T
  <2>1. QED
    BY <1>3, <1>4, StopsInduction
<1>6. Stops(text) \subseteq 1 .. N
  BY StopsAre
<1>7. ASSUME NEW s \in Stops(text) PROVE InStep(text, s)
  <2>1. s \in 1 .. N /\ AtStop(s)
    BY <1>5, <1>6
  <2>2. QED
    BY <1>2, <2>1 DEF InStep
<1>8. QED
  BY <1>7

\* A lexeme that is neither a quote nor a newline is scanned as code exactly
\* if the database takes it for code.
THEOREM ScannedAsCode ==
  ASSUME NEW S, NEW text \in Seq(S), NEW j \in 1 .. Len(text),
         text[j] \notin Quote, text[j] # "\n"
  PROVE  j \in Stops(text) <=> Lexer(text)[j] = "code"
<1>1. PICK s \in Stops(text) : s <= j /\ j < NextStop(text, s)
  BY StopsAre
<1>2. s \in 1 .. Len(text) /\ NextStop(text, s) \in s + 1 .. Len(text) + 1 /\ InStep(text, s)
  BY StopsAre, StopsInStep
<1>3. CASE s = j
  BY <1>2, <1>3 DEF InStep
<1>4. CASE s < j
  <2>1. Lexer(text)[j] # "code"
    BY <1>1, <1>2, <1>4 DEF InStep
  <2>2. j \notin Stops(text)
    <3>1. j \in Stops(text) => NextStop(text, s) <= j
      BY <1>4, StopsAre
    <3>2. QED
      BY <1>1, <1>2, <3>1
  <2>3. QED
    BY <2>1, <2>2
<1>5. QED
  BY <1>1, <1>2, <1>3, <1>4

-----------------------------------------------------------------------------
(* Positions in order. *)

Below(P, i) == {j \in P : j < i}

\* A finite set has a number of elements.
LEMMA CardinalityNat ==
  ASSUME NEW P, IsFiniteSet(P)
  PROVE  Cardinality(P) \in Nat
BY FS_CardinalityType

\* The number of positions below each one tells them apart.
LEMMA RankType ==
  ASSUME NEW P, P \subseteq Nat, IsFiniteSet(P), NEW i \in P
  PROVE  Cardinality(Below(P, i)) \in 0 .. Cardinality(P) - 1
<1>1. Below(P, i) \in SUBSET P /\ Below(P, i) # P
  BY DEF Below
<1>2. /\ Cardinality(Below(P, i)) \in Nat /\ Cardinality(P) \in Nat
      /\ Cardinality(Below(P, i)) <= Cardinality(P)
      /\ Cardinality(Below(P, i)) # Cardinality(P)
  BY <1>1, FS_Subset, CardinalityNat
<1>3. QED
  BY <1>2

\* Two positions with as many below them are one.
LEMMA RankInjective ==
  ASSUME NEW P, P \subseteq Nat, IsFiniteSet(P), NEW i \in P, NEW k \in P,
         Cardinality(Below(P, i)) = Cardinality(Below(P, k))
  PROVE  i = k
<1>1. ASSUME NEW a \in P, NEW b \in P, a < b
      PROVE  Cardinality(Below(P, a)) # Cardinality(Below(P, b))
  <2>1. a \in Nat /\ b \in Nat /\ a \in Below(P, b) /\ a \notin Below(P, a)
    BY <1>1 DEF Below
  <2>2. ASSUME NEW j \in Below(P, a) PROVE j \in Below(P, b)
    <3>1. j \in P /\ j \in Nat /\ j < a
      BY DEF Below
    <3>2. QED
      BY <1>1, <2>1, <3>1 DEF Below
  <2>3. Below(P, a) \in SUBSET Below(P, b) /\ Below(P, a) # Below(P, b)
    BY <2>1, <2>2
  <2>4. IsFiniteSet(Below(P, b))
    BY FS_Subset DEF Below
  <2>5. QED
    BY <2>3, <2>4, FS_Subset
<1>2. i \in Nat /\ k \in Nat
  OBVIOUS
<1>3. QED
  BY <1>1, <1>2

\* Nth is the inverse of that number.
LEMMA NthOfRank ==
  ASSUME NEW P, P \subseteq Nat, IsFiniteSet(P), NEW i \in P
  PROVE  Nth(P, Cardinality(Below(P, i)) + 1) = i
<1>1. Cardinality(Below(P, i)) \in Nat
  <2>1. IsFiniteSet(Below(P, i))
    BY FS_Subset DEF Below
  <2>2. QED
    BY <2>1, CardinalityNat
<1>2. (Cardinality(Below(P, i)) + 1) - 1 = Cardinality(Below(P, i))
  BY <1>1
<1>3. Nth(P, Cardinality(Below(P, i)) + 1)
        = CHOOSE k \in P : Cardinality(Below(P, k)) = Cardinality(Below(P, i))
  BY <1>2 DEF Nth, Below
<1>4. QED
  BY <1>3, RankInjective

\* Counting finds a position for each number up to the size of the set.
LEMMA NthIn ==
  ASSUME NEW P, P \subseteq Nat, IsFiniteSet(P), NEW n \in 1 .. Cardinality(P)
  PROVE  Nth(P, n) \in P /\ Cardinality(Below(P, Nth(P, n))) = n - 1
<1> DEFINE c == Cardinality(P)
           rank == [i \in P |-> Cardinality(Below(P, i))]
<1>1. c \in Nat
  BY CardinalityNat
<1>2. rank \in [P -> 0 .. c - 1]
  BY RankType
<1>3. rank \in Injection(P, 0 .. c - 1)
  <2>1. \A i, k \in P : rank[i] = rank[k] => i = k
    BY RankInjective
  <2> HIDE DEF rank
  <2>2. QED
    BY <1>2, <2>1 DEF Injection, IsInjective
<1>4. IsFiniteSet(0 .. c - 1) /\ Cardinality(0 .. c - 1) = c
  <2> HIDE DEF c
  <2>1. 0 \in Int /\ c - 1 \in Int
    BY <1>1
  <2>2. /\ IsFiniteSet(0 .. c - 1)
        /\ Cardinality(0 .. c - 1) = IF 0 > c - 1 THEN 0 ELSE (c - 1) - 0 + 1
    BY <2>1, FS_Interval
  <2>3. QED
    BY <1>1, <2>2
<1>5. rank \in Surjection(P, 0 .. c - 1)
  BY <1>3, <1>4, FS_Injection
<1>6. PICK i \in P : rank[i] = n - 1
  <2>1. n - 1 \in 0 .. c - 1
    BY <1>1
  <2>2. QED
    BY <1>5, <2>1 DEF Surjection
<1>7. QED
  BY <1>6 DEF Nth, Below

\* Max is the largest.
LEMMA MaxIs ==
  ASSUME NEW T, T \subseteq Nat, IsFiniteSet(T), T # {}
  PROVE  Max(T) \in T /\ \A n \in T : n <= Max(T)
<1> DEFINE m == Nth(T, Cardinality(T))
<1>1. Cardinality(T) \in Nat /\ Cardinality(T) \in 1 .. Cardinality(T)
  <2>1. Cardinality(T) \in Nat /\ Cardinality(T) # 0
    BY CardinalityNat, FS_EmptySet
  <2>2. QED
    BY <2>1
<1>2. m \in T /\ Cardinality(Below(T, m)) = Cardinality(T) - 1
  BY <1>1, NthIn
<1> HIDE DEF m
<1>3. Below(T, m) \cup {m} = T
  <2>1. IsFiniteSet(Below(T, m)) /\ m \notin Below(T, m) /\ Below(T, m) \cup {m} \in SUBSET T
    BY <1>2, FS_Subset DEF Below
  <2>2. Cardinality(Below(T, m) \cup {m}) = Cardinality(T)
    <3>1. Cardinality(Below(T, m) \cup {m}) = Cardinality(Below(T, m)) + 1
      BY <2>1, FS_AddElement
    <3>2. QED
      BY <1>1, <1>2, <3>1
  <2>3. QED
    BY <2>1, <2>2, FS_Subset
<1>4. \A n \in T : n <= m
  BY <1>2, <1>3 DEF Below
<1>5. QED
  BY <1>2, <1>4 DEF Max

-----------------------------------------------------------------------------
(* The placeholders of a query. *)

\* The question mark opens and closes nothing.
LEMMA QuestionMark == "?" \notin Quote \cup Blank \cup {"-", "/", "*"}
BY DEF Quote, Blank, Space

\* The engine replaces the placeholders that the database sees.
THEOREM ReplacedAreSeen ==
  ASSUME LexAssumption, NEW S, NEW text \in Seq(S)
  PROVE  Replaced(text) = Seen(text, Numbered)
<1>1. Stops(text) \subseteq 1 .. Len(text) /\ DOMAIN text = 1 .. Len(text)
  BY StopsAre
<1>2. ASSUME NEW i \in 1 .. Len(text), text[i] \in Numbered
      PROVE  i \in Stops(text) <=> Lexer(text)[i] = "code"
  <2>1. text[i] \notin Quote /\ text[i] # "\n"
    BY <1>2 DEF LexAssumption, Blank
  <2>2. QED
    BY <2>1, ScannedAsCode
<1>3. QED
  BY <1>1, <1>2 DEF Replaced, Seen

\* A text has finitely many placeholders.
LEMMA SeenFinite ==
  ASSUME NEW S, NEW text \in Seq(S), NEW Marks
  PROVE  Seen(text, Marks) \subseteq Nat /\ IsFiniteSet(Seen(text, Marks))
<1>1. Seen(text, Marks) \in SUBSET (1 .. Len(text)) /\ Len(text) \in Nat
  BY DEF Seen
<1>2. IsFiniteSet(1 .. Len(text))
  BY <1>1, FS_Interval
<1>3. QED
  BY <1>1, <1>2, FS_Subset

\* The order has a number for each of them, at the place of its rank.
LEMMA OrderIs ==
  ASSUME LexAssumption, NEW S, NEW text \in Seq(S)
  PROVE  LET P == Seen(text, Numbered)
         IN /\ Order(text) \in Seq(Nat)
            /\ Len(Order(text)) = Cardinality(P)
            /\ \A i \in P : /\ Cardinality(Below(P, i)) + 1 \in DOMAIN Order(text)
                            /\ Order(text)[Cardinality(Below(P, i)) + 1] = NumberOf[text[i]]
            /\ \A k \in DOMAIN Order(text) : \E i \in P : Order(text)[k] = NumberOf[text[i]]
<1> DEFINE P == Seen(text, Numbered)
           c == Cardinality(P)
<1>1. P \subseteq Nat /\ IsFiniteSet(P) /\ c \in Nat
  BY SeenFinite, CardinalityNat
<1>2. \A i \in P : NumberOf[text[i]] \in Nat
  BY DEF Seen, LexAssumption
<1>3. Order(text) = [k \in 1 .. c |-> NumberOf[text[Nth(P, k)]]]
  BY ReplacedAreSeen DEF Order, TextAt
<1>4. \A k \in 1 .. c : Nth(P, k) \in P
  BY <1>1, NthIn
<1> DEFINE order == Order(text)
<1> HIDE DEF P, order
<1>5. \A k \in 1 .. c : order[k] \in Nat
  BY <1>2, <1>3, <1>4 DEF order
<1>6. DOMAIN order = 1 .. c /\ order \in [1 .. c -> Nat]
  BY <1>3, <1>5 DEF order
<1> HIDE DEF c
<1>7. order \in Seq(Nat) /\ Len(order) = c
  BY <1>1, <1>6
<1>8. ASSUME NEW i \in P
      PROVE  /\ Cardinality(Below(P, i)) + 1 \in DOMAIN order
             /\ order[Cardinality(Below(P, i)) + 1] = NumberOf[text[i]]
  <2> DEFINE k == Cardinality(Below(P, i)) + 1
  <2>1. k \in 1 .. c
    <3>1. Cardinality(Below(P, i)) \in 0 .. c - 1
      BY <1>1, RankType DEF c
    <3>2. QED
      BY <1>1, <3>1
  <2>2. Nth(P, k) = i
    BY <1>1, NthOfRank
  <2>3. QED
    BY <1>3, <1>6, <2>1, <2>2 DEF order
<1>9. \A k \in DOMAIN order : \E i \in P : order[k] = NumberOf[text[i]]
  BY <1>3, <1>4, <1>6 DEF order
<1>10. QED
  BY <1>7, <1>8, <1>9 DEF P, c, order

\* To exchange placeholders leaves the states of the database's lexer as they are.
LEMMA RewrittenSame ==
  ASSUME LexAssumption, NEW S, NEW text \in Seq(S)
  PROVE  /\ Rewritten(text) \in Seq(S \cup {"?"})
         /\ Len(Rewritten(text)) = Len(text)
         /\ Lexer(Rewritten(text)) = Lexer(text)
<1> DEFINE N == Len(text)
           sent == Rewritten(text)
           Plain == Quote \cup Blank \cup {"-", "/", "*"}
<1>1. N \in Nat /\ DOMAIN text = 1 .. N /\ sent \in [1 .. N -> S \cup {"?"}]
  BY DEF Rewritten
<1>2. sent \in Seq(S \cup {"?"}) /\ Len(sent) = N /\ DOMAIN sent = 1 .. N
  BY <1>1
<1>3. ASSUME NEW i \in 1 .. N
      PROVE  sent[i] = text[i] \/ (sent[i] \notin Plain /\ text[i] \notin Plain)
  <2>1. sent[i] = IF i \in Replaced(text) THEN "?" ELSE text[i]
    BY <1>1 DEF Rewritten
  <2>2. i \in Replaced(text) => text[i] \notin Plain
    BY DEF Replaced, LexAssumption
  <2>3. "?" \notin Plain
    BY QuestionMark
  <2>4. QED
    BY <2>1, <2>2, <2>3
<1> HIDE DEF N, sent
<1>4. ASSUME NEW n \in 1 .. N, NEW was \in State
      PROVE  After(sent, n, was) = After(text, n, was)
  <2>1. BlankOrEnd(sent, n + 2) = BlankOrEnd(text, n + 2)
    <3>1. CASE n + 2 \in 1 .. N
      BY <1>1, <1>2, <1>3, <3>1 DEF BlankOrEnd, N
    <3>2. CASE n + 2 > N
      BY <1>1, <1>2, <3>2 DEF BlankOrEnd, N
    <3>3. QED
      BY <1>1, <3>1, <3>2
  <2>2. \A d \in {"-", "*", "/"} :
          (n + 1 \in DOMAIN sent /\ sent[n + 1] = d) = (n + 1 \in DOMAIN text /\ text[n + 1] = d)
    BY <1>1, <1>2, <1>3
  <2>3. sent[n] = text[n] \/ (sent[n] \notin Plain /\ text[n] \notin Plain)
    BY <1>3
  <2>4. CASE sent[n] = text[n]
    BY <2>1, <2>2, <2>4 DEF After
  <2>5. CASE sent[n] \notin Plain /\ text[n] \notin Plain
    <3>1. /\ sent[n] \notin Quote /\ sent[n] \notin {"-", "/", "*", "\n"}
          /\ text[n] \notin Quote /\ text[n] \notin {"-", "/", "*", "\n"}
      BY <2>5 DEF Blank
    <3>2. After(sent, n, was) = IF was = "opening" THEN "block"
                                ELSE IF was = "closing" THEN "code" ELSE was
      BY <3>1 DEF After, State, Quote
    <3>3. After(text, n, was) = IF was = "opening" THEN "block"
                                ELSE IF was = "closing" THEN "code" ELSE was
      BY <3>1 DEF After, State, Quote
    <3>4. QED
      BY <3>2, <3>3
  <2>6. QED
    BY <2>3, <2>4, <2>5
<1> DEFINE L == Lexer(text)
           M == Lexer(sent)
           T == {n \in 1 .. N + 1 : M[n] = L[n]}
<1>5. L \in [1 .. N + 1 -> State] /\ L[1] = "code" /\ \A n \in 1 .. N : L[n + 1] = After(text, n, L[n])
  BY LexerIs DEF N
<1>6. M \in [1 .. N + 1 -> State] /\ M[1] = "code" /\ \A n \in 1 .. N : M[n + 1] = After(sent, n, M[n])
  BY <1>2, LexerIs
<1> HIDE DEF L, M
<1>7. 1 \in T
  BY <1>1, <1>5, <1>6
<1>8. ASSUME NEW n \in 1 .. N, n \in T PROVE n + 1 \in T
  BY <1>1, <1>4, <1>5, <1>6, <1>8
<1>9. 1 .. N + 1 \subseteq T
  <2> HIDE DEF T
  <2>1. QED
    BY <1>1, <1>7, <1>8, Upward
<1>10. M = L
  <2>1. \A n \in 1 .. N + 1 : M[n] = L[n]
    BY <1>9
  <2>2. M = [n \in 1 .. N + 1 |-> M[n]] /\ L = [n \in 1 .. N + 1 |-> L[n]]
    BY <1>5, <1>6
  <2>3. [n \in 1 .. N + 1 |-> M[n]] = [n \in 1 .. N + 1 |-> L[n]]
    BY <2>1
  <2>4. QED
    BY <2>2, <2>3, Zenon
<1>11. QED
  BY <1>2, <1>10 DEF N, sent, L, M

\* As many arguments are sent as there are placeholders.
LEMMA ArgsInOrderLen ==
  ASSUME NEW order \in Seq(Nat), NEW args
  PROVE  Len(ArgsInOrder(order, args)) = Len(order)
<1>1. ArgsInOrder(order, args) \in Seq({args[order[m]] : m \in DOMAIN order})
  BY DEF ArgsInOrder
<1>2. DOMAIN ArgsInOrder(order, args) = 1 .. Len(order)
  BY DEF ArgsInOrder
<1>3. QED
  BY <1>1, <1>2

\* A MySQL query that is sent with arguments at all has, where the text of the
\* application has $n, exactly its n-th argument: whatever quotes and comments
\* surround the placeholders, and however they are numbered.
THEOREM BoundAsNumbered ==
  ASSUME LexAssumption, NEW S, NEW text \in Seq(S),
         NEW A, NEW args \in Seq(A), args # <<>>, NEW n
  PROVE  \A a \in BoundTo(text, args, n) : n \in DOMAIN args /\ a = args[n]
<1> DEFINE P == Seen(text, Numbered)
           order == Order(text)
           sent == getSqlQuery(text, args)
           Q == Seen(sent.text, {"?"})
           Mine == {j \in P : NumberOf[text[j]] = n}
<1>1. P \subseteq Nat /\ IsFiniteSet(P) /\ DOMAIN text = 1 .. Len(text)
  BY SeenFinite
<1>2. SUFFICES ASSUME sent.ok, Cardinality(Q) = Len(sent.args), NEW i \in Mine
               PROVE  /\ n \in DOMAIN args
                      /\ sent.args[Cardinality(Before(sent.text, {"?"}, i)) + 1] = args[n]
  BY DEF BoundTo
<1> DEFINE k == Cardinality(Below(P, i)) + 1
           numbers == {order[m] : m \in DOMAIN order}
<1>3. /\ order \in Seq(Nat) /\ Len(order) = Cardinality(P)
      /\ k \in DOMAIN order /\ order[k] = n /\ i \in P
  BY OrderIs
<1> HIDE DEF P, order
<1>4. order # <<>>
  BY <1>3
<1>5. /\ 0 \notin numbers /\ Max(numbers) = Len(args)
      /\ sent.text = Rewritten(text) /\ sent.args = ArgsInOrder(order, args)
  BY <1>2, <1>4 DEF getSqlQuery, Refused, order
<1>6. n \in DOMAIN args
  <2>1. numbers \subseteq Nat /\ IsFiniteSet(numbers) /\ n \in numbers
    <3>1. numbers \subseteq Nat /\ n \in numbers
      BY <1>3
    <3>2. IsFiniteSet(DOMAIN order)
      BY <1>3, FS_Interval
    <3>3. IsFiniteSet(numbers)
      <4>1. order \in [DOMAIN order -> numbers] /\ \A m \in numbers : \E d \in DOMAIN order : order[d] = m
        BY <1>3
      <4>2. order \in Surjection(DOMAIN order, numbers)
        BY <4>1 DEF Surjection
      <4>3. QED
        BY <3>2, <4>2, FS_Surjection
    <3>4. QED
      BY <3>1, <3>3
  <2>2. n <= Max(numbers) /\ n # 0
    <3> HIDE DEF numbers
    <3>1. QED
      BY <1>5, <2>1, MaxIs
  <2>3. QED
    BY <1>5, <2>1, <2>2
<1>7. Q = P
  <2>1. /\ Rewritten(text) \in Seq(S \cup {"?"}) /\ Len(Rewritten(text)) = Len(text)
        /\ Lexer(Rewritten(text)) = Lexer(text)
    BY RewrittenSame
  <2>2. IsFiniteSet(Q)
    BY <1>5, <2>1, SeenFinite
  <2>3. P \in SUBSET Q
    <3>1. ASSUME NEW j \in P PROVE j \in Q
      <4>1. j \in Replaced(text) /\ j \in DOMAIN text /\ Lexer(text)[j] = "code"
        BY ReplacedAreSeen DEF P, Seen
      <4>2. Rewritten(text)[j] = "?" /\ j \in DOMAIN Rewritten(text)
        BY <4>1 DEF Rewritten
      <4>3. QED
        BY <1>5, <2>1, <4>1, <4>2 DEF Seen
    <3>2. QED
      BY <3>1
  <2>4. Len(ArgsInOrder(order, args)) = Len(order)
    BY <1>3, ArgsInOrderLen
  <2>5. Cardinality(P) = Cardinality(Q)
    BY <1>2, <1>3, <1>5, <2>4
  <2> HIDE DEF Q
  <2>6. QED
    BY <2>2, <2>3, <2>5, FS_Subset
<1>8. Before(sent.text, {"?"}, i) = Below(P, i)
  BY <1>7 DEF Before, Below
<1>9. sent.args[k] = args[n]
  BY <1>3, <1>5 DEF ArgsInOrder
<1>10. QED
  BY <1>6, <1>8, <1>9

\* And it is sent, and its placeholders get their arguments, if it has no other
\* placeholder and its largest number is the number of arguments.
THEOREM BoundWhenComplete ==
  ASSUME LexAssumption, NEW S, NEW text \in Seq(S),
         NEW A, NEW args \in Seq(A), Seen(text, {"?"}) = {},
         \A j \in Seen(text, Numbered) : NumberOf[text[j]] \in DOMAIN args,
         \E j \in Seen(text, Numbered) : NumberOf[text[j]] = Len(args),
         NEW i \in Seen(text, Numbered)
  PROVE  args[NumberOf[text[i]]] \in BoundTo(text, args, NumberOf[text[i]])
<1> DEFINE P == Seen(text, Numbered)
           n == NumberOf[text[i]]
           order == Order(text)
           numbers == {order[m] : m \in DOMAIN order}
           sent == getSqlQuery(text, args)
           Q == Seen(sent.text, {"?"})
<1>1. P \subseteq Nat /\ IsFiniteSet(P) /\ DOMAIN text = 1 .. Len(text) /\ i \in P
  BY SeenFinite
<1>2. args # <<>> /\ n \in DOMAIN args
  OBVIOUS
<1>3. /\ order \in Seq(Nat) /\ Len(order) = Cardinality(P)
      /\ \A j \in P : /\ Cardinality(Below(P, j)) + 1 \in DOMAIN order
                      /\ order[Cardinality(Below(P, j)) + 1] = NumberOf[text[j]]
      /\ \A k \in DOMAIN order : \E j \in P : order[k] = NumberOf[text[j]]
  BY OrderIs
<1>4. \A j \in P : NumberOf[text[j]] \in DOMAIN args
  OBVIOUS
<1>5. PICK last \in P : NumberOf[text[last]] = Len(args)
  OBVIOUS
<1> HIDE DEF P, order
<1>6. order # <<>>
  BY <1>1, <1>3
<1>7. \A m \in numbers : m \in 1 .. Len(args)
  <2>1. ASSUME NEW k \in DOMAIN order PROVE order[k] \in 1 .. Len(args)
    <3>1. PICK j \in P : order[k] = NumberOf[text[j]]
      BY <1>3
    <3>2. QED
      BY <1>4, <3>1
  <2>2. QED
    BY <2>1
<1>8. Len(args) \in numbers
  <2>1. PICK k \in DOMAIN order : order[k] = NumberOf[text[last]]
    BY <1>3
  <2>2. QED
    BY <1>5, <2>1
<1>9. 0 \notin numbers /\ Max(numbers) = Len(args)
  <2> HIDE DEF numbers
  <2>1. \A m \in numbers : m \in Nat /\ m <= Len(args) /\ m # 0
    BY <1>7
  <2>2. \E m \in numbers : \A l \in numbers : m >= l
    BY <1>8, <2>1
  <2>3. Max(numbers) \in numbers /\ \A l \in numbers : Max(numbers) >= l
    BY <2>2 DEF Max
  <2>4. QED
    BY <1>8, <2>1, <2>3
<1>10. sent = [text |-> Rewritten(text), args |-> ArgsInOrder(order, args), ok |-> TRUE]
  BY <1>2, <1>6, <1>9 DEF getSqlQuery, order
<1>11. Q = P
  <2>1. /\ Rewritten(text) \in Seq(S \cup {"?"}) /\ Len(Rewritten(text)) = Len(text)
        /\ Lexer(Rewritten(text)) = Lexer(text)
    BY RewrittenSame
  <2>2. DOMAIN Rewritten(text) = 1 .. Len(text)
    BY DEF Rewritten
  <2>3. ASSUME NEW j \in 1 .. Len(text) PROVE j \in Q <=> j \in P
    <3>1. Rewritten(text)[j] = IF j \in P THEN "?" ELSE text[j]
      BY ReplacedAreSeen DEF Rewritten, P
    <3>2. j \in P => Lexer(text)[j] = "code"
      BY DEF P, Seen
    <3>3. ~(text[j] = "?" /\ Lexer(text)[j] = "code")
      BY DEF Seen
    <3>4. j \in Q <=> Rewritten(text)[j] = "?" /\ Lexer(text)[j] = "code"
      BY <1>10, <2>1, <2>2 DEF Seen
    <3>5. QED
      BY <3>1, <3>2, <3>3, <3>4
  <2>4. P \subseteq 1 .. Len(text) /\ Q \subseteq 1 .. Len(text)
    BY <1>10, <2>2 DEF P, Seen
  <2>5. QED
    BY <2>3, <2>4
<1>12. Len(sent.args) = Cardinality(Q)
  <2>1. Len(ArgsInOrder(order, args)) = Len(order)
    BY <1>3, ArgsInOrderLen
  <2>2. sent.args = ArgsInOrder(order, args)
    BY <1>10
  <2> HIDE DEF sent
  <2>3. QED
    BY <1>3, <1>11, <2>1, <2>2 DEF P
<1>13. Before(sent.text, {"?"}, i) = Below(P, i)
  BY <1>11 DEF Before, Below
<1>14. sent.args[Cardinality(Before(sent.text, {"?"}, i)) + 1] = args[n]
  <2> DEFINE k == Cardinality(Below(P, i)) + 1
  <2>1. k \in DOMAIN order /\ order[k] = n
    BY <1>1, <1>3
  <2>2. sent.args = ArgsInOrder(order, args)
    BY <1>10
  <2> HIDE DEF sent, n, k
  <2>3. sent.args[k] = args[n]
    BY <2>1, <2>2 DEF ArgsInOrder
  <2>4. QED
    BY <1>13, <2>3 DEF k
<1>15. i \in {j \in P : NumberOf[text[j]] = n}
  BY <1>1
<1>16. sent.ok
  BY <1>10
<1> HIDE DEF sent, n
<1>17. QED
  BY <1>12, <1>14, <1>15, <1>16 DEF BoundTo, sent, P

-----------------------------------------------------------------------------
(* The text that the parser of hook statements works on. *)

\* The mask blanks what some stop masks.
LEMMA MaskedIs ==
  ASSUME NEW S, NEW text \in Seq(S)
  PROVE  /\ maskSQLLiterals(text) \in Seq(S \cup {Space})
         /\ Len(maskSQLLiterals(text)) = Len(text)
         /\ \A j \in 1 .. Len(text) :
              maskSQLLiterals(text)[j] =
                IF \E s \in Stops(text) : j \in MaskedAt(text, s) THEN Space ELSE text[j]
<1> DEFINE hidden == UNION {MaskedAt(text, i) : i \in Stops(text)}
           masked == maskSQLLiterals(text)
<1>1. masked = [i \in DOMAIN text |-> IF i \in hidden THEN Space ELSE text[i]]
  BY DEF maskSQLLiterals
<1> HIDE DEF hidden, masked
<1>2. masked \in [1 .. Len(text) -> S \cup {Space}]
  BY <1>1
<1>3. masked \in Seq(S \cup {Space}) /\ Len(masked) = Len(text)
  BY <1>2
<1>4. \A j \in 1 .. Len(text) : masked[j] = IF j \in hidden THEN Space ELSE text[j]
  BY <1>1
<1>5. \A j : j \in hidden <=> \E s \in Stops(text) : j \in MaskedAt(text, s)
  BY DEF hidden
<1>6. QED
  BY <1>3, <1>4, <1>5 DEF masked

\* What a stop masks is up to the next one.
LEMMA MaskedAtWithin ==
  ASSUME NEW S, NEW text \in Seq(S), NEW s \in Stops(text)
  PROVE  MaskedAt(text, s) \subseteq s .. NextStop(text, s) - 1
<1>1. s \in 1 .. Len(text) /\ NextStop(text, s) \in s + 1 .. Len(text) + 1
  BY StopsAre
<1>2. QED
  BY <1>1 DEF MaskedAt

\* Of all lexemes but quotes, dashes, slashes and newlines, the mask leaves
\* exactly those that the database takes for code: keywords, names, commas,
\* parentheses and placeholders that the parser finds are real ones, and it
\* finds all of them.
THEOREM MaskedAsSeen ==
  ASSUME NEW S, NEW text \in Seq(S), NEW j \in 1 .. Len(text),
         text[j] \notin Quote \cup {"\n", "-", "/"}
  PROVE  maskSQLLiterals(text)[j] = IF Lexer(text)[j] = "code" THEN text[j] ELSE Space
<1>1. PICK s \in Stops(text) : s <= j /\ j < NextStop(text, s)
  BY StopsAre
<1> DEFINE e == NextStop(text, s)
<1>2. s \in 1 .. Len(text) /\ e \in s + 1 .. Len(text) + 1 /\ InStep(text, s)
  BY StopsAre, StopsInStep
<1>3. \A t \in Stops(text) : j \in MaskedAt(text, t) => t = s
  <2>1. ASSUME NEW t \in Stops(text), j \in MaskedAt(text, t) PROVE t = s
    <3>1. t \in 1 .. Len(text) /\ NextStop(text, t) \in t + 1 .. Len(text) + 1
      BY StopsAre
    <3>2. j \in t .. NextStop(text, t) - 1
      BY <2>1, MaskedAtWithin
    <3>3. (s < t => e <= t) /\ (t < s => NextStop(text, t) <= s)
      BY StopsAre
    <3>4. QED
      BY <1>1, <1>2, <3>1, <3>2, <3>3
  <2>2. QED
    BY <2>1
<1>4. maskSQLLiterals(text)[j] = IF j \in MaskedAt(text, s) THEN Space ELSE text[j]
  BY <1>3, MaskedIs
<1>5. j \in MaskedAt(text, s) <=> Lexer(text)[j] # "code"
  <2>1. CASE text[s] \in Quote
    <3>1. s < j /\ j \in s + 1 .. e - 1
      BY <1>1, <1>2, <2>1
    <3>2. Lexer(text)[j] # "code"
      BY <1>2, <3>1 DEF InStep
    <3>3. ~(j = e - 1 /\ text[e - 1] = text[s])
      BY <2>1
    <3>4. j \in MaskedAt(text, s)
      BY <1>2, <2>1, <3>1, <3>3 DEF MaskedAt
    <3>5. QED
      BY <3>2, <3>4
  <2>2. CASE text[s] \notin Quote /\ Comment(text, s)
    <3>1. text[s] \in {"-", "/"}
      BY <2>2 DEF Comment, isLineComment, isBlockComment
    <3>2. j \in s + 1 .. e - 1
      BY <1>1, <1>2, <3>1
    <3>3. Lexer(text)[j] # "code"
      BY <1>2, <3>2 DEF InStep
    <3>4. j \in MaskedAt(text, s)
      BY <1>2, <2>2, <3>2 DEF MaskedAt
    <3>5. QED
      BY <3>3, <3>4
  <2>3. CASE text[s] \notin Quote /\ ~Comment(text, s)
    <3>1. e = s + 1
      BY <2>3 DEF NextStop, Comment
    <3>2. j = s
      BY <1>1, <1>2, <3>1
    <3>3. Lexer(text)[j] = "code"
      BY <1>2, <3>2 DEF InStep
    <3>4. j \notin MaskedAt(text, s)
      BY <2>3 DEF MaskedAt
    <3>5. QED
      BY <3>3, <3>4
  <2>4. QED
    BY <2>1, <2>2, <2>3
<1>6. QED
  BY <1>4, <1>5

\* The placeholders of the masked text are those the database sees.
LEMMA MarksMasked ==
  ASSUME LexAssumption, NEW S, NEW text \in Seq(S), NEW Marks, Marks \subseteq Mark
  PROVE  /\ {j \in DOMAIN maskSQLLiterals(text) : maskSQLLiterals(text)[j] \in Marks}
              = Seen(text, Marks)
         /\ \A j \in Seen(text, Marks) : maskSQLLiterals(text)[j] = text[j]
<1> DEFINE masked == maskSQLLiterals(text)
<1>1. DOMAIN masked = 1 .. Len(text) /\ DOMAIN text = 1 .. Len(text)
  <2>1. masked \in Seq(S \cup {Space}) /\ Len(masked) = Len(text)
    BY MaskedIs
  <2> HIDE DEF masked
  <2>2. QED
    BY <2>1
<1>2. Mark \cap (Quote \cup Blank \cup {"-", "/", "*"}) = {}
  BY QuestionMark DEF Mark, LexAssumption
<1>3. ASSUME NEW j \in 1 .. Len(text)
      PROVE  /\ masked[j] \in Marks <=> text[j] \in Marks /\ Lexer(text)[j] = "code"
             /\ text[j] \in Marks /\ Lexer(text)[j] = "code" => masked[j] = text[j]
  <2>1. CASE text[j] \in Mark
    <3>1. masked[j] = IF Lexer(text)[j] = "code" THEN text[j] ELSE Space
      BY <1>2, <2>1, MaskedAsSeen DEF Blank
    <3>2. Space \notin Marks
      BY <1>2 DEF Blank
    <3>3. QED
      BY <3>1, <3>2
  <2>2. CASE text[j] \notin Mark
    <3>1. masked[j] \in {Space, text[j]}
      BY MaskedIs
    <3>2. Space \notin Mark
      BY <1>2 DEF Blank
    <3>3. QED
      BY <2>2, <3>1, <3>2
  <2>3. QED
    BY <2>1, <2>2
<1>4. QED
  BY <1>1, <1>3 DEF Seen

-----------------------------------------------------------------------------
(* Statements put together from parts. *)

Front(texts, k) == Joined(SubSeq(texts, 1, k))

\* IsUpto conforms to the equation of Joined.
IsUpto(f, texts) ==
  f = [n \in 0 .. Len(texts) |-> IF n = 0 THEN <<>> ELSE f[n - 1] \o texts[n]]

\* Joining texts goes part by part.
LEMMA JoinedIs ==
  ASSUME NEW S, NEW texts \in Seq(Seq(S))
  PROVE  \E f \in [0 .. Len(texts) -> Seq(S)] :
           /\ f[0] = <<>> /\ \A n \in 1 .. Len(texts) : f[n] = f[n - 1] \o texts[n]
           /\ Joined(texts) = f[Len(texts)]
<1> DEFINE N == Len(texts)
           V == Seq(S)
           comb == [p \in (1 .. N) \X V |-> p[2] \o texts[p[1]]]
<1>1. N \in Nat /\ <<>> \in V /\ \A n \in 1 .. N : texts[n] \in V
  OBVIOUS
<1>2. comb \in [(1 .. N) \X V -> V]
  BY <1>1
<1>3. \A n \in 1 .. N, v \in V : comb[<<n, v>>] = v \o texts[n]
  OBVIOUS
<1> HIDE DEF N, V, comb
<1>4. PICK g \in [1 .. N + 1 -> V] : GoesForwards(g, N, <<>>, comb)
  BY <1>1, <1>2, ForwardRecursion
<1> DEFINE f == [n \in 0 .. N |-> g[n + 1]]
<1>5. f \in [0 .. N -> V]
  BY <1>1, <1>4
<1>6. f[0] = <<>> /\ \A n \in 1 .. N : f[n] = f[n - 1] \o texts[n]
  <2>1. f[0] = g[1] /\ g[1] = <<>>
    BY <1>1, <1>4 DEF GoesForwards
  <2>2. ASSUME NEW n \in 1 .. N PROVE f[n] = f[n - 1] \o texts[n]
    <3>1. f[n] = g[n + 1] /\ f[n - 1] = g[n] /\ g[n] \in V
      BY <1>1, <1>4
    <3>2. g[n + 1] = comb[<<n, g[n]>>]
      BY <1>4 DEF GoesForwards
    <3>3. QED
      BY <1>3, <3>1, <3>2
  <2>3. QED
    BY <2>1, <2>2
<1> HIDE DEF f
<1>7. IsUpto(f, texts)
  <2>1. f = [n \in 0 .. N |-> f[n]]
    BY <1>5
  <2>2. ASSUME NEW n \in 0 .. N PROVE f[n] = IF n = 0 THEN <<>> ELSE f[n - 1] \o texts[n]
    <3>1. CASE n = 0
      BY <1>6, <3>1
    <3>2. CASE n # 0
      <4>1. n \in 1 .. N
        BY <1>1, <3>2
      <4>2. QED
        BY <1>6, <3>2, <4>1
    <3>3. QED
      BY <3>1, <3>2
  <2>3. [n \in 0 .. N |-> f[n]] = [n \in 0 .. N |-> IF n = 0 THEN <<>> ELSE f[n - 1] \o texts[n]]
    BY <2>2
  <2>4. QED
    BY <2>1, <2>3 DEF IsUpto, N
<1> DEFINE J == CHOOSE h : IsUpto(h, texts)
<1>8. Joined(texts) = J[N]
  BY DEF Joined, IsUpto, N
<1>9. IsUpto(J, texts)
  BY <1>7
<1> HIDE DEF J
<1>10. \A n \in 0 .. N : J[n] = IF n = 0 THEN <<>> ELSE J[n - 1] \o texts[n]
  BY <1>9 DEF IsUpto, N
<1>11. J[N] = f[N]
  <2> DEFINE T == {n \in Nat : n <= N => J[n] = f[n]}
  <2>1. 0 \in T
    BY <1>1, <1>6, <1>10
  <2>2. ASSUME NEW n \in Nat, n \in T PROVE n + 1 \in T
    <3>1. SUFFICES ASSUME n + 1 <= N PROVE J[n + 1] = f[n + 1]
      OBVIOUS
    <3>2. n + 1 \in 0 .. N /\ n + 1 \in 1 .. N /\ n + 1 # 0 /\ (n + 1) - 1 = n /\ n <= N
      BY <1>1, <3>1
    <3>3. J[n + 1] = J[n] \o texts[n + 1]
      BY <1>10, <3>2
    <3>4. f[n + 1] = f[n] \o texts[n + 1]
      BY <1>6, <3>2
    <3>5. QED
      BY <2>2, <3>2, <3>3, <3>4
  <2>3. Nat \subseteq T
    <3> HIDE DEF T
    <3>1. QED
      BY <2>1, <2>2, SetInduction
  <2>4. QED
    BY <1>1, <2>3
<1>12. QED
  BY <1>5, <1>6, <1>8, <1>11 DEF N, V

\* The text up to each part is the one before it and that part.
LEMMA FrontIs ==
  ASSUME NEW S, NEW texts \in Seq(Seq(S))
  PROVE  /\ Front(texts, 0) = <<>>
         /\ \A k \in 0 .. Len(texts) : Front(texts, k) \in Seq(S)
         /\ \A k \in 1 .. Len(texts) : Front(texts, k) = Front(texts, k - 1) \o texts[k]
         /\ Front(texts, Len(texts)) = Joined(texts)
<1> DEFINE N == Len(texts)
<1>1. N \in Nat
  OBVIOUS
<1>2. PICK f \in [0 .. N -> Seq(S)] :
        /\ f[0] = <<>> /\ \A n \in 1 .. N : f[n] = f[n - 1] \o texts[n]
        /\ Joined(texts) = f[N]
  BY JoinedIs
<1>3. ASSUME NEW k \in 0 .. N PROVE Front(texts, k) = f[k]
  <2> DEFINE sub == SubSeq(texts, 1, k)
  <2>1. sub \in Seq(Seq(S)) /\ Len(sub) = k /\ \A n \in 1 .. k : sub[n] = texts[n]
    BY <1>1
  <2> HIDE DEF sub
  <2>2. PICK g \in [0 .. Len(sub) -> Seq(S)] :
        /\ g[0] = <<>> /\ \A n \in 1 .. Len(sub) : g[n] = g[n - 1] \o sub[n]
        /\ Joined(sub) = g[Len(sub)]
    BY <2>1, JoinedIs
  <2> DEFINE T == {n \in Nat : n <= k => g[n] = f[n]}
  <2>3. 0 \in T
    BY <1>2, <2>2
  <2>4. ASSUME NEW n \in Nat, n \in T PROVE n + 1 \in T
    <3>1. SUFFICES ASSUME n + 1 <= k PROVE g[n + 1] = f[n + 1]
      OBVIOUS
    <3>2. n + 1 \in 1 .. k /\ n + 1 \in 1 .. N /\ (n + 1) - 1 = n /\ n <= k
      BY <1>1, <3>1
    <3>3. g[n + 1] = g[n] \o texts[n + 1]
      BY <2>1, <2>2, <3>2
    <3>4. f[n + 1] = f[n] \o texts[n + 1]
      BY <1>2, <3>2
    <3>5. QED
      BY <2>4, <3>2, <3>3, <3>4
  <2>5. Nat \subseteq T
    <3> HIDE DEF T
    <3>1. QED
      BY <2>3, <2>4, SetInduction
  <2>6. g[k] = f[k]
    BY <1>1, <2>5
  <2>7. QED
    BY <2>1, <2>2, <2>6 DEF Front, sub
<1> HIDE DEF N
<1>4. 0 \in 0 .. N /\ N \in 0 .. N /\ \A k \in 1 .. N : k \in 0 .. N /\ k - 1 \in 0 .. N
  BY <1>1
<1>5. Front(texts, 0) = <<>>
  BY <1>2, <1>3, <1>4
<1>6. \A k \in 0 .. N : Front(texts, k) \in Seq(S)
  BY <1>2, <1>3
<1>7. ASSUME NEW k \in 1 .. N PROVE Front(texts, k) = Front(texts, k - 1) \o texts[k]
  <2>1. Front(texts, k) = f[k] /\ Front(texts, k - 1) = f[k - 1]
    BY <1>3, <1>4
  <2>2. f[k] = f[k - 1] \o texts[k]
    BY <1>2
  <2>3. QED
    BY <2>1, <2>2
<1>8. Front(texts, N) = Joined(texts)
  BY <1>2, <1>3, <1>4
<1>9. QED
  BY <1>5, <1>6, <1>7, <1>8 DEF N

\* One text begins with another.
Begins(text, begin) ==
  Len(begin) <= Len(text) /\ \A i \in 1 .. Len(begin) : text[i] = begin[i]

\* A text begins with its first parts.
LEMMA FrontBegins ==
  ASSUME NEW S, NEW texts \in Seq(Seq(S)), NEW k \in 0 .. Len(texts)
  PROVE  Begins(Joined(texts), Front(texts, k))
<1> DEFINE N == Len(texts)
           T == {m \in Nat : m \in 0 .. N /\ Begins(Front(texts, m), Front(texts, k))}
<1>1. N \in Nat /\ k \in Nat /\ k \in T
  BY FrontIs DEF Begins
<1>2. ASSUME NEW m \in k .. N - 1, m \in T PROVE m + 1 \in T
  <2>1. m + 1 \in 1 .. N /\ m \in 0 .. N /\ m + 1 \in Nat /\ (m + 1) - 1 = m
    BY <1>1
  <2>2. Front(texts, m + 1) = Front(texts, m) \o texts[m + 1]
    BY <2>1, FrontIs
  <2>3. Front(texts, m) \in Seq(S) /\ Front(texts, k) \in Seq(S) /\ texts[m + 1] \in Seq(S)
    <3>1. k \in 0 .. Len(texts) /\ m \in 0 .. Len(texts) /\ m + 1 \in 1 .. Len(texts)
      BY <2>1
    <3>2. texts[m + 1] \in Seq(S)
      BY <3>1
    <3>3. Front(texts, m) \in Seq(S) /\ Front(texts, k) \in Seq(S)
      BY <3>1, FrontIs
    <3>4. QED
      BY <3>2, <3>3
  <2>4. Begins(Front(texts, m), Front(texts, k))
    BY <1>2
  <2>5. Begins(Front(texts, m + 1), Front(texts, k))
    BY <2>2, <2>3, <2>4 DEF Begins
  <2>6. QED
    BY <1>1, <2>1, <2>5
<1> HIDE DEF T
<1>3. k .. N \subseteq T
  BY <1>1, <1>2, Through
<1>4. N \in T
  BY <1>1, <1>3
<1>5. QED
  BY <1>4, FrontIs DEF T

\* A placeholder opens and closes nothing.
LEMMA MarkIsPlain ==
  ASSUME LexAssumption
  PROVE  Mark \cap (Quote \cup Blank \cup {"-", "/", "*"}) = {}
BY QuestionMark DEF LexAssumption, Mark

\* What the lexer does with a character depends on two more at most.
LEMMA AfterSame ==
  ASSUME NEW S, NEW text \in Seq(S), NEW begin \in Seq(S), Begins(text, begin),
         NEW n \in 1 .. Len(begin) - 1, NEW was \in State,
         n + 2 <= Len(begin) \/ begin[n + 1] \notin {"-", "*", "/"}
  PROVE  After(begin, n, was) = After(text, n, was)
<1>1. /\ n \in DOMAIN begin /\ n + 1 \in DOMAIN begin
      /\ n \in DOMAIN text /\ n + 1 \in DOMAIN text
      /\ begin[n] = text[n] /\ begin[n + 1] = text[n + 1]
  BY DEF Begins
<1>2. text[n + 1] = "-" => (BlankOrEnd(begin, n + 2) <=> BlankOrEnd(text, n + 2))
  <2>1. CASE n + 2 <= Len(begin)
    BY <2>1 DEF Begins, BlankOrEnd
  <2>2. CASE ~(n + 2 <= Len(begin))
    BY <1>1, <2>2
  <2>3. QED
    BY <2>1, <2>2
<1>3. QED
  BY <1>1, <1>2 DEF After

\* A placeholder is seen or not whatever follows it.
LEMMA LexerBegins ==
  ASSUME LexAssumption, NEW S, NEW text \in Seq(S), NEW begin \in Seq(S), Begins(text, begin),
         NEW j \in 1 .. Len(begin), begin[j] \in Mark
  PROVE  Lexer(begin)[j] = Lexer(text)[j]
<1> DEFINE L == Lexer(begin)
           M == Lexer(text)
           N == Len(begin)
           T == {n \in Nat : n >= N \/ L[n] = M[n]}
<1>1. N \in Nat /\ Len(text) \in Nat /\ N <= Len(text)
  BY DEF Begins
<1>2. /\ \A n \in 1 .. N : L[n] \in State /\ L[n + 1] = After(begin, n, L[n])
      /\ L[1] = "code" /\ M[1] = "code"
      /\ \A n \in 1 .. N : M[n + 1] = After(text, n, M[n])
  <2>1. \A n \in 1 .. N : n \in 1 .. Len(begin) + 1 /\ n \in 1 .. Len(text)
    BY <1>1
  <2>2. QED
    BY <2>1, LexerIs
<1>3. begin[j] \notin {"-", "*", "/"}
  BY MarkIsPlain
<1> HIDE DEF L, M
<1>4. 1 \in T
  BY <1>2
<1>5. ASSUME NEW n \in 1 .. N - 1, n \in T PROVE n + 1 \in T
  <2>1. SUFFICES ASSUME n + 1 < N PROVE L[n + 1] = M[n + 1]
    BY <1>1
  <2>2. L[n] = M[n] /\ n \in 1 .. N /\ n + 2 <= N
    BY <1>1, <1>5, <2>1
  <2>3. After(begin, n, L[n]) = After(text, n, L[n])
    BY <1>2, <2>2, AfterSame
  <2>4. QED
    BY <1>2, <2>2, <2>3
<1>6. CASE j = 1
  BY <1>2, <1>6 DEF L, M
<1>7. CASE j > 1
  <2>1. 1 .. N \subseteq T
    <3>1. 1 \in Nat /\ \A n \in 1 .. N - 1 : n \in T => n + 1 \in T
      BY <1>5
    <3> HIDE DEF T
    <3>2. QED
      BY <1>1, <1>4, <3>1, Through
  <2>2. j - 1 \in 1 .. N /\ j - 1 \in 1 .. Len(begin) - 1 /\ (j - 1) + 1 = j /\ j - 1 < N
    BY <1>1, <1>7
  <2>3. L[j - 1] = M[j - 1]
    BY <1>1, <2>1, <2>2
  <2>4. After(begin, j - 1, L[j - 1]) = After(text, j - 1, L[j - 1])
    BY <1>2, <1>3, <2>2, AfterSame
  <2>5. L[j] = M[j]
    BY <1>2, <2>2, <2>3, <2>4
  <2>6. QED
    BY <2>5 DEF L, M
<1>8. QED
  BY <1>6, <1>7

\* A statement and its texts.
Part(S) == [col : STRING, row : Nat, text : Seq(S)]
Texts(parts) == [n \in DOMAIN parts |-> parts[n].text]

\* The text of a statement is that of its parts.
LEMMA TextOfIs ==
  ASSUME NEW S, NEW parts \in Seq(Part(S))
  PROVE  /\ Texts(parts) \in Seq(Seq(S)) /\ Len(Texts(parts)) = Len(parts)
         /\ \A k \in 0 .. Len(parts) : TextOf(SubSeq(parts, 1, k)) = Front(Texts(parts), k)
         /\ TextOf(parts) = Joined(Texts(parts)) /\ TextOf(parts) \in Seq(S)
<1>1. Texts(parts) \in Seq(Seq(S)) /\ Len(Texts(parts)) = Len(parts)
  <2>1. ASSUME NEW n \in 1 .. Len(parts) PROVE parts[n].text \in Seq(S)
    <3>1. parts[n] \in Part(S)
      OBVIOUS
    <3> DEFINE T == Seq(S)
    <3>2. parts[n] \in [col : STRING, row : Nat, text : T]
      BY <3>1 DEF Part
    <3> HIDE DEF T
    <3>3. parts[n].text \in T
      BY <3>2
    <3>4. QED
      BY <3>3 DEF T
  <2>2. QED
    BY <2>1 DEF Texts
<1>2. ASSUME NEW k \in 0 .. Len(parts) PROVE TextOf(SubSeq(parts, 1, k)) = Front(Texts(parts), k)
  <2>1. DOMAIN SubSeq(parts, 1, k) = 1 .. k /\ \A n \in 1 .. k : SubSeq(parts, 1, k)[n] = parts[n]
    OBVIOUS
  <2>2. DOMAIN SubSeq(Texts(parts), 1, k) = 1 .. k
    BY <1>1
  <2>3. \A n \in 1 .. k : SubSeq(Texts(parts), 1, k)[n] = parts[n].text
    BY <1>1 DEF Texts
  <2>4. SubSeq(Texts(parts), 1, k) = [n \in 1 .. k |-> SubSeq(Texts(parts), 1, k)[n]]
    BY <1>1
  <2>5. Texts(SubSeq(parts, 1, k)) = [n \in 1 .. k |-> parts[n].text]
    BY <2>1 DEF Texts
  <2>6. [n \in 1 .. k |-> SubSeq(Texts(parts), 1, k)[n]] = [n \in 1 .. k |-> parts[n].text]
    BY <2>3
  <2>7. QED
    BY <2>4, <2>5, <2>6 DEF TextOf, Front, Texts
<1>3. TextOf(parts) = Joined(Texts(parts))
  BY DEF TextOf, Texts
<1>4. TextOf(parts) \in Seq(S)
  <2>1. Len(Texts(parts)) \in 0 .. Len(Texts(parts))
    BY <1>1
  <2>2. QED
    BY <1>1, <1>3, <2>1, FrontIs
<1>5. QED
  BY <1>1, <1>2, <1>3, <1>4

\* The engine's count of the arguments of a hook's statement is the driver's.
THEOREM CountIsNumInput ==
  ASSUME LexAssumption, NEW S, NEW parts \in Seq(Part(S))
  PROVE  placeholderArgCount(maskSQLLiterals(TextOf(parts))) = NumInput(parts)
<1> DEFINE text == TextOf(parts)
           masked == maskSQLLiterals(text)
           P == {j \in DOMAIN masked : masked[j] \in Numbered}
           Q == {j \in Seen(text, Mark) : text[j] \in Numbered}
<1>1. text \in Seq(S)
  BY TextOfIs
<1> HIDE DEF text
<1>2. Mark \subseteq Mark /\ Numbered \subseteq Mark
  BY DEF Mark
<1>3. Places(masked, 1, Len(masked)) = Seen(text, Mark)
  <2>1. {j \in DOMAIN masked : masked[j] \in Mark} = Seen(text, Mark)
    BY <1>1, <1>2, MarksMasked
  <2>2. DOMAIN masked = 1 .. Len(masked)
    BY <1>1, MaskedIs
  <2>3. QED
    BY <2>1, <2>2 DEF Places
<1>4. P = Seen(text, Numbered) /\ \A j \in Seen(text, Numbered) : masked[j] = text[j]
  BY <1>1, <1>2, MarksMasked
<1>5. Q = Seen(text, Numbered)
  BY <1>2 DEF Seen
<1> HIDE DEF masked, P, Q
<1>6. {NumberOf[masked[j]] : j \in P} = {NumberOf[text[j]] : j \in Q}
  BY <1>4, <1>5
<1>7. placeholderArgCount(masked) =
        IF {NumberOf[masked[j]] : j \in P} = {} THEN Cardinality(Places(masked, 1, Len(masked)))
        ELSE Max({NumberOf[masked[j]] : j \in P})
  BY DEF placeholderArgCount, P
<1>8. NumInput(parts) =
        IF {NumberOf[text[j]] : j \in Q} = {} THEN Cardinality(Seen(text, Mark))
        ELSE Max({NumberOf[text[j]] : j \in Q})
  BY DEF NumInput, text, Q
<1>9. QED
  BY <1>3, <1>6, <1>7, <1>8 DEF text, masked

\* Where a part begins.
Start(parts, n) == Len(TextOf(SubSeq(parts, 1, n - 1))) + 1

\* The argument that the engine finds at a placeholder is the one the database
\* takes for that part of the statement.
THEOREM ArgOfIsSource ==
  ASSUME LexAssumption, NEW S, NEW parts \in Seq(Part(S)), NEW n \in 1 .. Len(parts),
         NEW mark \in Mark, parts[n].text = <<mark>>,
         Lexer(TextOf(parts))[Start(parts, n)] = "code"
  PROVE  ArgOf(maskSQLLiterals(TextOf(parts)), Start(parts, n)) = Source(parts, n)
<1> DEFINE texts == Texts(parts)
           text == TextOf(parts)
           masked == maskSQLLiterals(text)
           begin == TextOf(SubSeq(parts, 1, n - 1))
           p == Start(parts, n)
<1>1. /\ texts \in Seq(Seq(S)) /\ Len(texts) = Len(parts)
      /\ text = Joined(texts) /\ text \in Seq(S)
  BY TextOfIs
<1>2. n - 1 \in 0 .. Len(texts) /\ n \in 0 .. Len(texts) /\ n \in 1 .. Len(texts)
  BY <1>1
<1>3. begin = Front(texts, n - 1) /\ texts[n] = <<mark>>
  <2>1. n - 1 \in 0 .. Len(parts)
    OBVIOUS
  <2>2. begin = Front(texts, n - 1)
    BY <2>1, TextOfIs
  <2>3. texts[n] = <<mark>>
    BY DEF Texts
  <2>4. QED
    BY <2>2, <2>3
<1> HIDE DEF texts, text, begin
<1>4. begin \in Seq(S) /\ Begins(text, begin)
  BY <1>1, <1>2, <1>3, FrontIs, FrontBegins
<1>5. p \in Nat /\ p = Len(begin) + 1 /\ p \in 1 .. Len(text) /\ text[p] = mark
  <2>1. Front(texts, n) = begin \o <<mark>> /\ Begins(text, Front(texts, n))
    BY <1>1, <1>2, <1>3, FrontIs, FrontBegins
  <2>2. mark \in S
    <3> DEFINE T == Seq(S)
    <3>1. texts \in Seq(T) /\ n \in 1 .. Len(texts)
      BY <1>1, <1>2
    <3> HIDE DEF T
    <3>2. texts[n] \in T
      BY <3>1
    <3>3. <<mark>> \in Seq(S)
      BY <1>3, <3>2 DEF T
    <3>4. <<mark>>[1] \in S
      BY <3>3
    <3>5. QED
      BY <3>4
  <2>3. Len(begin \o <<mark>>) = Len(begin) + 1 /\ (begin \o <<mark>>)[Len(begin) + 1] = mark
    BY <1>4, <2>2
  <2>4. p = Len(begin) + 1 /\ Len(begin) \in Nat /\ Len(text) \in Nat
    BY <1>1, <1>4 DEF Start, begin
  <2>5. QED
    BY <2>1, <2>3, <2>4 DEF Begins
<1> DEFINE A == {j \in 1 .. p : masked[j] = "?"}
           B == Seen(begin, {"?"})
<1>6. {"?"} \subseteq Mark /\ "?" \in Mark /\ "?" \notin Numbered
  BY DEF Mark, LexAssumption
<1>7. /\ {j \in DOMAIN masked : masked[j] \in {"?"}} = Seen(text, {"?"})
      /\ \A j \in Seen(text, {mark}) : masked[j] = text[j]
      /\ DOMAIN masked = 1 .. Len(text)
  <2>1. {mark} \subseteq Mark
    OBVIOUS
  <2>2. {j \in DOMAIN masked : masked[j] \in {"?"}} = Seen(text, {"?"})
    BY <1>1, <1>6, MarksMasked
  <2>3. \A j \in Seen(text, {mark}) : masked[j] = text[j]
    BY <1>1, <2>1, MarksMasked
  <2>4. DOMAIN masked = 1 .. Len(text)
    <3>1. masked \in Seq(S \cup {Space}) /\ Len(masked) = Len(text)
      BY <1>1, MaskedIs
    <3> HIDE DEF masked
    <3>2. QED
      BY <3>1
  <2>5. QED
    BY <2>2, <2>3, <2>4
<1>8. masked[p] = mark
  <2>1. Lexer(text)[p] = "code"
    BY DEF text
  <2>2. p \in Seen(text, {mark})
    BY <1>1, <1>5, <2>1 DEF Seen
  <2>3. QED
    BY <1>5, <1>7, <2>2
<1> HIDE DEF masked, p
<1>9. CASE mark \in Numbered
  BY <1>5, <1>6, <1>8, <1>9 DEF ArgOf, Source, text, masked, p
<1>10. CASE mark \notin Numbered
  <2>1. mark = "?"
    BY <1>10 DEF Mark
  <2>2. A \ {p} = B
    <3>1. ASSUME NEW j \in 1 .. p - 1 PROVE j \in A <=> j \in B
      <4>1. j \in 1 .. Len(begin) /\ j \in 1 .. Len(text) /\ j \in 1 .. p /\ text[j] = begin[j]
        BY <1>4, <1>5 DEF Begins
      <4>2. j \in A <=> text[j] = "?" /\ Lexer(text)[j] = "code"
        BY <1>1, <1>7, <4>1 DEF Seen
      <4>3. text[j] = "?" => Lexer(begin)[j] = Lexer(text)[j]
        BY <1>1, <1>4, <1>6, <4>1, LexerBegins, ZenonT(60)
      <4>4. j \in B <=> begin[j] = "?" /\ Lexer(begin)[j] = "code"
        BY <1>4, <4>1 DEF Seen
      <4>5. QED
        BY <4>1, <4>2, <4>3, <4>4
    <3>2. A \ {p} \subseteq 1 .. p - 1
      BY <1>5
    <3>3. B \subseteq 1 .. p - 1
      BY <1>4, <1>5 DEF Seen
    <3>4. p \notin 1 .. p - 1
      BY <1>5
    <3> DEFINE I == 1 .. p - 1
    <3> HIDE DEF A, B, I
    <3>5. QED
      BY <3>1, <3>2, <3>3, <3>4 DEF I
  <2>3. p \in A /\ IsFiniteSet(B)
    BY <1>4, <1>5, <1>8, <2>1, SeenFinite
  <2> HIDE DEF A, B
  <2>4. A = B \cup {p} /\ p \notin B
    BY <2>2, <2>3
  <2>5. Cardinality(A) = Cardinality(B) + 1
    BY <2>3, <2>4, FS_AddElement
  <2>6. ArgOf(masked, p) = Cardinality(A)
    BY <1>8, <2>1 DEF ArgOf, A
  <2>7. Source(parts, n) = Cardinality(B) + 1
    BY <1>10, <2>1 DEF Source, B, begin
  <2>8. QED
    BY <2>5, <2>6, <2>7 DEF masked, text, p
<1>11. QED
  BY <1>9, <1>10

-----------------------------------------------------------------------------
(* The plan of a hook's statement.  The parser numbers the segments         *)
(* between commas, counts the placeholders of a row and gives the n-th      *)
(* placeholder to the n-th column.  This is right because each segment has  *)
(* exactly one placeholder and nothing else: as many placeholders as        *)
(* columns, no segment blank, and nothing but placeholders, blanks and      *)
(* commas between the parentheses leave no other way.                       *)

\* Positions are counted in their order.
LEMMA NthMonotone ==
  ASSUME NEW P, P \subseteq Nat, IsFiniteSet(P),
         NEW m \in 1 .. Cardinality(P), NEW n \in 1 .. Cardinality(P), m < n
  PROVE  Nth(P, m) < Nth(P, n)
<1> DEFINE x == Nth(P, m)
           y == Nth(P, n)
<1>1. Cardinality(P) \in Nat
  BY CardinalityNat
<1>2. /\ x \in P /\ Cardinality(Below(P, x)) = m - 1
      /\ y \in P /\ Cardinality(Below(P, y)) = n - 1
  BY NthIn
<1> HIDE DEF x, y
<1>3. x \in Nat /\ y \in Nat
  BY <1>2
<1>4. ASSUME y <= x PROVE FALSE
  <2>1. Below(P, y) \subseteq Below(P, x)
    <3>1. ASSUME NEW k \in P, k < y PROVE k < x
      <4>1. k \in Nat
        OBVIOUS
      <4>2. QED
        BY <1>3, <1>4, <3>1, <4>1
    <3>2. QED
      BY <3>1 DEF Below
  <2>2. Below(P, x) \subseteq P
    BY DEF Below
  <2>3. IsFiniteSet(Below(P, x))
    BY <2>2, FS_Subset
  <2>4. Cardinality(Below(P, y)) <= Cardinality(Below(P, x))
    BY <2>1, <2>3, FS_Subset
  <2>5. QED
    BY <1>1, <1>2, <2>4
<1>5. x < y
  BY <1>3, <1>4
<1>6. QED
  BY <1>5 DEF x, y

\* A list without its repetitions has the same elements, each once.
LEMMA DedupedIs ==
  ASSUME NEW K \in Nat, NEW list, DOMAIN list = 1 .. K
  PROVE  LET d == dedupeInts(list)
         IN /\ \A n \in DOMAIN d : \E m \in 1 .. K : d[n] = list[m]
            /\ \A m \in 1 .. K : \E n \in DOMAIN d : d[n] = list[m]
            /\ \A m, n \in DOMAIN d : d[m] = d[n] => m = n
<1> DEFINE P == {n \in DOMAIN list : \A m \in 1 .. n - 1 : list[m] # list[n]}
           c == Cardinality(P)
           d == dedupeInts(list)
<1>1. P \subseteq Nat /\ IsFiniteSet(P) /\ c \in Nat
  <2>1. P \subseteq 1 .. K
    OBVIOUS
  <2>2. IsFiniteSet(1 .. K)
    BY FS_Interval
  <2> HIDE DEF P
  <2>3. P \subseteq Nat
    BY <2>1
  <2>4. IsFiniteSet(P)
    BY <2>1, <2>2, FS_Subset
  <2>5. QED
    BY <2>3, <2>4, CardinalityNat
<1>2. d = [n \in 1 .. c |-> list[Nth(P, n)]]
  BY DEF dedupeInts, TextAt
<1>3. \A n \in P : n \in 1 .. K /\ \A m \in 1 .. n - 1 : list[m] # list[n]
  OBVIOUS
<1>4. \A m \in 1 .. K : \E n \in P : list[n] = list[m]
  <2>1. TAKE m \in 1 .. K
  <2> DEFINE T == {n \in 1 .. K : list[n] = list[m]}
  <2>2. T \subseteq Nat /\ T # {}
    OBVIOUS
  <2>3. PICK n \in T : \A k \in T : n <= k
    <3> HIDE DEF T
    <3>1. QED
      BY <2>2, Least
  <2>4. \A k \in 1 .. n - 1 : list[k] # list[n]
    BY <2>3
  <2>5. QED
    BY <2>3, <2>4
<1> HIDE DEF P, c, d
<1>5. \A n \in 1 .. c : Nth(P, n) \in P
  BY <1>1, NthIn DEF c
<1>6. DOMAIN d = 1 .. c /\ \A n \in 1 .. c : d[n] = list[Nth(P, n)]
  BY <1>2
<1>7. \A n \in DOMAIN d : \E m \in 1 .. K : d[n] = list[m]
  BY <1>3, <1>5, <1>6
<1>8. \A m \in 1 .. K : \E n \in DOMAIN d : d[n] = list[m]
  <2>1. TAKE m \in 1 .. K
  <2>2. PICK k \in P : list[k] = list[m]
    BY <1>4
  <2>3. Cardinality(Below(P, k)) + 1 \in 1 .. c /\ Nth(P, Cardinality(Below(P, k)) + 1) = k
    <3>1. Cardinality(Below(P, k)) \in 0 .. c - 1
      BY <1>1, RankType DEF c
    <3>2. Nth(P, Cardinality(Below(P, k)) + 1) = k
      BY <1>1, NthOfRank
    <3>3. QED
      BY <1>1, <3>1, <3>2
  <2>4. QED
    BY <1>6, <2>2, <2>3
<1>9. ASSUME NEW m \in 1 .. c, NEW n \in 1 .. c, m < n PROVE d[m] # d[n]
  <2>1. Nth(P, m) < Nth(P, n) /\ Nth(P, m) \in P /\ Nth(P, n) \in P
    BY <1>1, <1>5, <1>9, NthMonotone DEF c
  <2>2. Nth(P, m) \in 1 .. Nth(P, n) - 1
    BY <1>3, <2>1
  <2>3. QED
    BY <1>3, <1>6, <2>1, <2>2
<1>10. \A m, n \in DOMAIN d : d[m] = d[n] => m = n
  <2>1. TAKE m, n \in DOMAIN d
  <2>2. m \in 1 .. c /\ n \in 1 .. c
    BY <1>6
  <2>3. m < n \/ n < m \/ m = n
    BY <1>1, <2>2
  <2>4. QED
    BY <1>9, <2>2, <2>3
<1>11. QED
  BY <1>7, <1>8, <1>10 DEF d

\* The positions of the placeholders between two positions.
LEMMA PlacesAre ==
  ASSUME NEW text, NEW first \in Nat, NEW last \in Int
  PROVE  Places(text, first, last) \subseteq Nat /\ IsFiniteSet(Places(text, first, last))
<1>1. Places(text, first, last) \subseteq first .. last /\ IsFiniteSet(first .. last)
  BY FS_Interval DEF Places
<1>2. QED
  BY <1>1, FS_Subset

\* The ends of the segments of a text.
Ends(text, first, last) ==
  {i \in first .. last : text[i] = "," /\ Depth(text, first, i) = 0} \cup {last + 1}

\* A list of segments goes from end to end.
AreSegments(list, E, first, last) ==
  /\ E \subseteq first .. last + 1 /\ E \subseteq Nat /\ IsFiniteSet(E)
  /\ Cardinality(E) \in Nat \ {0}
  /\ DOMAIN list = 1 .. Cardinality(E)
  /\ \A n \in 1 .. Cardinality(E) :
       /\ list[n][1] = IF n = 1 THEN first ELSE Nth(E, n - 1) + 1
       /\ list[n][2] = Nth(E, n) - 1
       /\ list[n][1] >= first /\ list[n][1] \in Nat
       /\ list[n][2] <= last /\ list[n][2] \in Int

\* Segments go from comma to comma.
LEMMA SegmentsAre ==
  ASSUME NEW text, NEW first \in Nat, NEW last \in Nat, first <= last + 1
  PROVE  AreSegments(splitTopLevel(text, first, last), Ends(text, first, last), first, last)
<1> DEFINE E == Ends(text, first, last)
           c == Cardinality(E)
           list == splitTopLevel(text, first, last)
<1>1. E \subseteq first .. last + 1 /\ E \subseteq Nat /\ IsFiniteSet(E) /\ last + 1 \in E
  <2>1. E \subseteq first .. last + 1 /\ last + 1 \in E
    <3>1. last + 1 \in first .. last + 1 /\ first .. last \subseteq first .. last + 1
      OBVIOUS
    <3> DEFINE I == first .. last
               J == first .. last + 1
    <3>2. E \subseteq I \cup {last + 1} /\ last + 1 \in E
      BY DEF Ends
    <3> HIDE DEF E
    <3>3. QED
      BY <3>1, <3>2
  <2>2. IsFiniteSet(first .. last + 1) /\ first .. last + 1 \subseteq Nat
    BY FS_Interval
  <2> HIDE DEF E
  <2>3. QED
    BY <2>1, <2>2, FS_Subset
<1>2. c \in Nat /\ c # 0
  <2> HIDE DEF E
  <2>1. QED
    BY <1>1, CardinalityNat, FS_EmptySet
<1>3. list = [n \in 1 .. c |-> <<IF n = 1 THEN first ELSE Nth(E, n - 1) + 1, Nth(E, n) - 1>>]
  BY DEF splitTopLevel, Ends
<1> HIDE DEF E, c, list
<1>4. \A n \in 1 .. c : Nth(E, n) \in E
  BY <1>1, NthIn DEF c
<1>5. DOMAIN list = 1 .. c
  BY <1>3
<1>6. ASSUME NEW n \in 1 .. c
      PROVE  /\ list[n][1] = IF n = 1 THEN first ELSE Nth(E, n - 1) + 1
             /\ list[n][2] = Nth(E, n) - 1
             /\ list[n][1] >= first /\ list[n][1] \in Nat
             /\ list[n][2] <= last /\ list[n][2] \in Int
  <2>1. /\ list[n][1] = IF n = 1 THEN first ELSE Nth(E, n - 1) + 1
        /\ list[n][2] = Nth(E, n) - 1
    BY <1>3
  <2>2. n # 1 => n - 1 \in 1 .. c
    BY <1>2
  <2>3. Nth(E, n) \in first .. last + 1 /\ (n # 1 => Nth(E, n - 1) \in first .. last + 1)
    BY <1>1, <1>4, <2>2
  <2>4. QED
    BY <2>1, <2>3
<1>7. QED
  BY <1>1, <1>2, <1>5, <1>6 DEF E, c, list, AreSegments

\* Quotient and remainder of a product's elements.
LEMMA Split ==
  ASSUME NEW a \in Nat, NEW b \in Nat, NEW n \in 1 .. a * b
  PROVE  /\ b # 0
         /\ ((n - 1) \div b) + 1 \in 1 .. a
         /\ ((n - 1) % b) + 1 \in 1 .. b
<1>1. b # 0
  OBVIOUS
<1> DEFINE q == (n - 1) \div b
<1>2. n - 1 \in Nat /\ b \in Nat \ {0}
  BY <1>1
<1>3. q \in Nat /\ q * b <= n - 1
  BY <1>2
<1>4. (n - 1) % b \in 0 .. b - 1
  BY <1>2
<1> HIDE DEF q
<1>5. ASSUME a <= q PROVE FALSE
  <2>1. a * b <= q * b
    BY <1>2, <1>3, <1>5
  <2>2. a * b \in Nat /\ q * b \in Nat
    BY <1>3
  <2>3. n <= a * b
    OBVIOUS
  <2>4. QED
    BY <1>2, <1>3, <2>1, <2>2, <2>3
<1>6. q + 1 \in 1 .. a
  BY <1>3, <1>5
<1>7. QED
  BY <1>1, <1>4, <1>6 DEF q

\* Where a parenthesis closes.
LEMMA MatchIs ==
  ASSUME NEW S, NEW text \in Seq(S), NEW open \in 1 .. Len(text), text[open] # ")"
  PROVE  LET m == matchParen(text, open)
         IN m = 0 \/ (m \in open + 1 .. Len(text) /\ text[m] = ")")
<1> DEFINE closes == {i \in open .. Len(text) : text[i] = ")" /\ Depth(text, open, i) = 0}
<1>1. CASE closes = {}
  BY <1>1 DEF matchParen
<1>2. CASE closes # {}
  <2>1. closes \subseteq Nat
    OBVIOUS
  <2>2. matchParen(text, open) = Min(closes)
    BY <1>2 DEF matchParen
  <2>3. \A i \in closes : i \in open + 1 .. Len(text) /\ text[i] = ")"
    OBVIOUS
  <2> HIDE DEF closes
  <2>4. Min(closes) \in closes
    BY <1>2, <2>1, MinIs
  <2>5. QED
    BY <2>2, <2>3, <2>4
<1>3. QED
  BY <1>1, <1>2

\* IsGroups conforms to the equation of Groups.
IsGroups(f, text) ==
  f = [i \in 0 .. Len(text) + 1 |->
         IF i > Len(text) THEN {}
         ELSE IF i = 0 THEN {0}
         ELSE IF text[i] \in Blank \cup {","} THEN f[i + 1]
         ELSE IF text[i] # "(" THEN {0}
         ELSE LET close == matchParen(text, i)
              IN IF close = 0 THEN {0} ELSE {i} \cup f[close + 1]]

GroupsAt(text) == CHOOSE f : IsGroups(f, text)
Closed(text, i) == text[i] = "(" /\ matchParen(text, i) # 0

\* Groups are found from the back.
LEMMA GroupsIs ==
  ASSUME NEW S, NEW text \in Seq(S)
  PROVE  LET G == GroupsAt(text)  N == Len(text)
         IN /\ \A i \in 1 .. N + 1 : Groups(text, i) = G[i]
            /\ G[N + 1] = {}
            /\ \A i \in 1 .. N :
                 G[i] = IF text[i] \in Blank \cup {","} THEN G[i + 1]
                        ELSE IF Closed(text, i) THEN {i} \cup G[matchParen(text, i) + 1]
                        ELSE {0}
<1> DEFINE N == Len(text)
           V == SUBSET Nat
           gap(i) == text[i] \in Blank \cup {","}
           next == [i \in 1 .. N |->
                      IF ~gap(i) /\ Closed(text, i) THEN matchParen(text, i) + 1 ELSE i + 1]
           comb == [p \in (1 .. N) \X V |->
                      IF gap(p[1]) THEN p[2]
                      ELSE IF Closed(text, p[1]) THEN {p[1]} \cup p[2] ELSE {0}]
           value(i, v) ==
             IF gap(i) THEN v ELSE IF Closed(text, i) THEN {i} \cup v ELSE {0}
<1>1. N \in Nat /\ {} \in V
  OBVIOUS
<1>2. \A i \in 1 .. N :
        next[i] = IF ~gap(i) /\ Closed(text, i) THEN matchParen(text, i) + 1 ELSE i + 1
  OBVIOUS
<1>3. next = [i \in 1 .. N |-> next[i]]
  OBVIOUS
<1> HIDE DEF next, gap
<1>4. ASSUME NEW i \in 1 .. N PROVE next[i] \in i + 1 .. N + 1
  <2>1. CASE ~gap(i) /\ Closed(text, i)
    <3>1. matchParen(text, i) \in i + 1 .. N
      BY <2>1, MatchIs DEF Closed
    <3>2. next[i] = matchParen(text, i) + 1
      BY <1>2, <2>1
    <3> HIDE DEF N
    <3>3. QED
      BY <1>1, <3>1, <3>2
  <2>2. CASE ~(~gap(i) /\ Closed(text, i))
    <3>1. next[i] = i + 1
      BY <1>2, <2>2
    <3> HIDE DEF N
    <3>2. QED
      BY <1>1, <3>1
  <2>3. QED
    BY <2>1, <2>2
<1>5. next \in [1 .. N -> Nat]
  <2> HIDE DEF N
  <2>1. \A i \in 1 .. N : next[i] \in Nat
    BY <1>1, <1>4
  <2>2. QED
    BY <1>3, <2>1
<1>6. comb \in [(1 .. N) \X V -> V] /\ \A i \in 1 .. N, v \in V : comb[<<i, v>>] = value(i, v)
  <2> HIDE DEF N
  <2>1. ASSUME NEW i \in 1 .. N, NEW v \in V PROVE value(i, v) \in V
    <3>1. i \in Nat
      BY <1>1
    <3>2. v \in V /\ {i} \cup v \in V /\ {0} \in V
      BY <3>1
    <3> HIDE DEF V
    <3>3. QED
      BY <3>2
  <2>2. comb = [p \in (1 .. N) \X V |-> value(p[1], p[2])]
    OBVIOUS
  <2> HIDE DEF V, value, comb
  <2>3. \A p \in (1 .. N) \X V : value(p[1], p[2]) \in V
    BY <2>1
  <2>4. comb \in [(1 .. N) \X V -> V]
    BY <2>2, <2>3
  <2>5. \A i \in 1 .. N, v \in V : comb[<<i, v>>] = value(i, v)
    BY <2>2
  <2>6. QED
    BY <2>4, <2>5
<1> HIDE DEF N, V, comb, value
<1>7. PICK f \in [1 .. N + 1 -> V] : GoesBackwards(f, N, {}, next, comb)
  BY <1>1, <1>4, <1>5, <1>6, BackwardRecursion
<1> DEFINE h == [i \in 0 .. N + 1 |-> IF i = 0 THEN {0} ELSE f[i]]
<1>8. h[N + 1] = {} /\ h[0] = {0} /\ h = [i \in 0 .. N + 1 |-> h[i]]
  BY <1>1, <1>7 DEF GoesBackwards
<1>9. ASSUME NEW i \in 1 .. N PROVE h[i] = value(i, h[next[i]])
  <2>1. next[i] \in i + 1 .. N + 1
    BY <1>4
  <2>2. f[i] = comb[<<i, f[next[i]]>>] /\ f[next[i]] \in V
    BY <1>1, <1>7, <2>1 DEF GoesBackwards
  <2>3. h[i] = f[i] /\ h[next[i]] = f[next[i]]
    BY <1>1, <2>1
  <2>4. QED
    BY <1>6, <2>2, <2>3
<1> HIDE DEF h
<1> DEFINE Equation(g, i) ==
             IF i > N THEN {}
             ELSE IF i = 0 THEN {0}
             ELSE IF gap(i) THEN g[i + 1]
             ELSE IF text[i] # "(" THEN {0}
             ELSE IF matchParen(text, i) = 0 THEN {0} ELSE {i} \cup g[matchParen(text, i) + 1]
<1>10. ASSUME NEW g, NEW i \in 1 .. N
       PROVE  Equation(g, i) = value(i, g[next[i]])
  <2>1. ~(i > N) /\ i # 0
    BY <1>1
  <2>2. QED
    BY <1>2, <2>1 DEF value, Closed
<1>11. \A i \in 0 .. N + 1 : h[i] = Equation(h, i)
  <2>1. TAKE i \in 0 .. N + 1
  <2>2. i \in 1 .. N \/ (i = 0 /\ ~(i > N)) \/ (i = N + 1 /\ i > N)
    BY <1>1
  <2>3. CASE i \in 1 .. N
    <3> HIDE DEF Equation
    <3>1. QED
      BY <1>9, <1>10, <2>3
  <2>4. CASE i \notin 1 .. N
    BY <1>8, <2>2, <2>4
  <2>5. QED
    BY <2>3, <2>4
<1>12. IsGroups(h, text)
  <2>1. [i \in 0 .. N + 1 |-> h[i]] = [i \in 0 .. N + 1 |-> Equation(h, i)]
    <3> HIDE DEF Equation
    <3>1. QED
      BY <1>11
  <2>2. QED
    BY <1>8, <2>1 DEF IsGroups, N, gap
<1> DEFINE G == GroupsAt(text)
<1>13. IsGroups(G, text)
  BY <1>12 DEF GroupsAt
<1> HIDE DEF G
<1>14. \A i \in 0 .. N + 1 : G[i] = Equation(G, i)
  BY <1>13 DEF IsGroups, N, gap
<1>15. G[N + 1] = {}
  <2>1. N + 1 \in 0 .. N + 1 /\ N + 1 > N
    BY <1>1
  <2>2. QED
    BY <1>14, <2>1
<1>16. \A i \in 1 .. N : G[i] = value(i, G[next[i]])
  <2>1. \A i \in 1 .. N : i \in 0 .. N + 1
    BY <1>1
  <2> HIDE DEF Equation
  <2>2. QED
    BY <1>10, <1>14, <2>1
<1>17. \A i \in 1 .. N :
         G[i] = IF text[i] \in Blank \cup {","} THEN G[i + 1]
                ELSE IF Closed(text, i) THEN {i} \cup G[matchParen(text, i) + 1]
                ELSE {0}
  BY <1>2, <1>16 DEF value, gap
<1>18. \A i \in 1 .. N + 1 : Groups(text, i) = G[i]
  BY DEF Groups, G, GroupsAt, IsGroups
<1>19. QED
  BY <1>15, <1>17, <1>18 DEF G, N

\* From a position on: groups lie there and are closed, and if nothing but
\* groups, blanks and commas follows, each other lexeme is in a group.
LEMMA GroupsCover ==
  ASSUME NEW S, NEW text \in Seq(S), NEW from \in 1 .. Len(text) + 1
  PROVE  LET groups == Groups(text, from)  N == Len(text)
         IN /\ groups \subseteq {0} \cup from .. N /\ groups \subseteq Nat /\ IsFiniteSet(groups)
            /\ \A g \in groups : g # 0 => Closed(text, g)
            /\ 0 \notin groups =>
                 \A j \in from .. N :
                   \/ text[j] \in Blank \cup {","}
                   \/ \E g \in groups : g <= j /\ j <= matchParen(text, g)
<1> DEFINE N == Len(text)
           G == GroupsAt(text)
           gap(i) == text[i] \in Blank \cup {","}
           inside(j, g) == g <= j /\ j <= matchParen(text, g)
           P(i) ==
             /\ G[i] \subseteq {0} \cup i .. N
             /\ \A g \in G[i] : g # 0 => Closed(text, g)
             /\ 0 \notin G[i] =>
                  \A j \in i .. N : gap(j) \/ \E g \in G[i] : inside(j, g)
           T == {i \in 1 .. N + 1 : P(i)}
<1>1. N \in Nat /\ N + 1 \in 1 .. N + 1
  OBVIOUS
<1>2. /\ \A i \in 1 .. N + 1 : Groups(text, i) = G[i]
      /\ G[N + 1] = {}
      /\ \A i \in 1 .. N :
           G[i] = IF gap(i) THEN G[i + 1]
                  ELSE IF Closed(text, i) THEN {i} \cup G[matchParen(text, i) + 1]
                  ELSE {0}
  BY GroupsIs
<1>3. \A i \in 1 .. N : Closed(text, i) => matchParen(text, i) \in i + 1 .. N
  BY MatchIs DEF Closed
<1> HIDE DEF N, G, gap
<1>4. N + 1 \in T
  BY <1>1, <1>2
<1>5. ASSUME NEW i \in 1 .. N, (i + 1) .. (N + 1) \subseteq T PROVE i \in T
  <2>1. i \in 1 .. N + 1 /\ i + 1 \in T /\ i \in Nat
    BY <1>1, <1>5
  <2>2. CASE gap(i)
    <3>1. G[i] = G[i + 1] /\ P(i + 1)
      BY <1>2, <2>1, <2>2
    <3>2. i + 1 .. N \subseteq i .. N /\ \A j \in i .. N : j = i \/ j \in i + 1 .. N
      BY <1>1
    <3> HIDE DEF inside
    <3>3. P(i)
      BY <2>2, <3>1, <3>2
    <3>4. QED
      BY <2>1, <3>3
  <2>3. CASE ~gap(i) /\ Closed(text, i)
    <3> DEFINE c == matchParen(text, i)
    <3>1. c \in i + 1 .. N /\ c + 1 \in (i + 1) .. (N + 1)
      BY <1>1, <1>3, <2>3
    <3>2. G[i] = {i} \cup G[c + 1] /\ P(c + 1)
      BY <1>2, <1>5, <2>3, <3>1
    <3>3. /\ c + 1 .. N \subseteq i .. N /\ i # 0 /\ i \in i .. N
          /\ \A j \in i .. N : inside(j, i) \/ j \in c + 1 .. N
      BY <1>1, <3>1
    <3> HIDE DEF inside, c
    <3>4. P(i)
      BY <2>3, <3>2, <3>3
    <3>5. QED
      BY <2>1, <3>4
  <2>4. CASE ~gap(i) /\ ~Closed(text, i)
    <3>1. G[i] = {0}
      BY <1>2, <2>4
    <3>2. P(i)
      BY <3>1
    <3>3. QED
      BY <2>1, <3>2
  <2>5. QED
    BY <2>2, <2>3, <2>4
<1>6. 1 .. N + 1 \subseteq T
  <2> HIDE DEF T
  <2>1. QED
    BY <1>1, <1>4, <1>5, Downward
<1>7. from \in 1 .. N + 1 /\ Groups(text, from) = G[from]
  BY <1>2 DEF N
<1>8. P(from)
  BY <1>6, <1>7
<1>9. G[from] \subseteq Nat /\ IsFiniteSet(G[from])
  <2>1. {0} \cup from .. N \subseteq 0 .. N
    BY <1>1, <1>7
  <2>2. IsFiniteSet(0 .. N) /\ 0 .. N \subseteq Nat
    BY <1>1, FS_Interval
  <2>3. G[from] \subseteq 0 .. N
    BY <1>8, <2>1
  <2>4. IsFiniteSet(G[from])
    BY <2>2, <2>3, FS_Subset
  <2>5. QED
    BY <2>2, <2>3, <2>4
<1>10. QED
  BY <1>7, <1>8, <1>9 DEF N, gap

\* A group ends before the next one opens.
LEMMA GroupsApart ==
  ASSUME NEW S, NEW text \in Seq(S), NEW from \in 1 .. Len(text) + 1, 0 \notin Groups(text, from),
         NEW g \in Groups(text, from), NEW h \in Groups(text, from), g < h
  PROVE  matchParen(text, g) < h
<1> DEFINE N == Len(text)
           G == GroupsAt(text)
           gap(i) == text[i] \in Blank \cup {","}
           apart(A) == \A x, y \in A : x < y => matchParen(text, x) < y
           P(i) == 0 \notin G[i] => apart(G[i])
           T == {i \in 1 .. N + 1 : P(i)}
<1>1. N \in Nat /\ N + 1 \in 1 .. N + 1
  OBVIOUS
<1>2. /\ \A i \in 1 .. N + 1 : Groups(text, i) = G[i]
      /\ G[N + 1] = {}
      /\ \A i \in 1 .. N :
           G[i] = IF gap(i) THEN G[i + 1]
                  ELSE IF Closed(text, i) THEN {i} \cup G[matchParen(text, i) + 1]
                  ELSE {0}
  BY GroupsIs
<1>3. \A i \in 1 .. N : Closed(text, i) => matchParen(text, i) \in i + 1 .. N
  BY MatchIs DEF Closed
<1>4. \A i \in 1 .. N + 1 : G[i] \subseteq {0} \cup i .. N
  <2>1. TAKE i \in 1 .. N + 1
  <2>2. Groups(text, i) \subseteq {0} \cup i .. Len(text)
    BY GroupsCover
  <2>3. QED
    BY <1>2, <2>2
<1> HIDE DEF N, G, gap
<1>5. N + 1 \in T
  BY <1>1, <1>2
<1>6. ASSUME NEW i \in 1 .. N, (i + 1) .. (N + 1) \subseteq T PROVE i \in T
  <2>1. i \in 1 .. N + 1 /\ i + 1 \in T /\ i \in Nat
    BY <1>1, <1>6
  <2>2. CASE gap(i)
    <3>1. G[i] = G[i + 1] /\ P(i + 1)
      BY <1>2, <2>1, <2>2
    <3> HIDE DEF apart
    <3>2. QED
      BY <2>1, <3>1
  <2>3. CASE ~gap(i) /\ Closed(text, i)
    <3> DEFINE c == matchParen(text, i)
               A == G[c + 1]
    <3>1. c \in i + 1 .. N /\ c + 1 \in (i + 1) .. (N + 1) /\ c + 1 \in 1 .. N + 1
      BY <1>1, <1>3, <2>3
    <3>2. G[i] = {i} \cup A /\ P(c + 1) /\ A \subseteq {0} \cup c + 1 .. N
      BY <1>2, <1>4, <1>6, <2>3, <3>1
    <3>3. c \in Nat /\ i < c
      BY <1>1, <3>1
    <3> HIDE DEF c, A
    <3>4. ASSUME 0 \notin {i} \cup A PROVE apart({i} \cup A)
      <4>1. apart(A) /\ \A y \in A : y \in Nat /\ c < y /\ i < y
        BY <1>1, <2>1, <3>2, <3>3, <3>4 DEF A
      <4>2. QED
        BY <2>1, <4>1 DEF c
    <3>5. P(i)
      BY <3>2, <3>4
    <3>6. QED
      BY <2>1, <3>5
  <2>4. CASE ~gap(i) /\ ~Closed(text, i)
    <3>1. G[i] = {0}
      BY <1>2, <2>4
    <3>2. QED
      BY <2>1, <3>1
  <2>5. QED
    BY <2>2, <2>3, <2>4
<1>7. 1 .. N + 1 \subseteq T
  <2> HIDE DEF T
  <2>1. QED
    BY <1>1, <1>5, <1>6, Downward
<1>8. from \in 1 .. N + 1 /\ Groups(text, from) = G[from]
  BY <1>2 DEF N
<1>9. apart(G[from])
  BY <1>7, <1>8
<1>10. QED
  BY <1>8, <1>9

\* A growing sequence of as many numbers counts them.
LEMMA GrowingIs ==
  ASSUME NEW c \in Nat, NEW k \in [1 .. c -> 1 .. c],
         \A m, n \in 1 .. c : m < n => k[m] < k[n]
  PROVE  \A n \in 1 .. c : k[n] = n
<1> SUFFICES ASSUME c # 0 PROVE \A n \in 1 .. c : k[n] = n
  OBVIOUS
<1> DEFINE N == c - 1
           T == {n \in 1 .. c : n <= k[n]}
           U == {n \in 1 .. c : k[n] <= n}
<1>1. N \in Nat /\ N + 1 = c /\ \A n \in 1 .. c : k[n] \in 1 .. c
  OBVIOUS
<1>2. 1 \in T /\ N + 1 \in U
  BY <1>1
<1>3. ASSUME NEW n \in 1 .. N PROVE k[n] + 1 <= k[n + 1]
  BY <1>1
<1>4. \A n \in 1 .. N : n \in T => n + 1 \in T
  BY <1>1, <1>3
<1>5. \A n \in 1 .. N : (n + 1) .. (N + 1) \subseteq U => n \in U
  <2>1. TAKE n \in 1 .. N
  <2>2. HAVE (n + 1) .. (N + 1) \subseteq U
  <2>3. n + 1 \in (n + 1) .. (N + 1)
    BY <1>1
  <2>4. k[n + 1] <= n + 1
    BY <2>2, <2>3
  <2>5. QED
    BY <1>1, <1>3, <2>4
<1>6. 1 .. N + 1 \subseteq T /\ 1 .. N + 1 \subseteq U
  <2> HIDE DEF T, U, N
  <2>1. QED
    BY <1>1, <1>2, <1>4, <1>5, Upward, Downward
<1>7. QED
  BY <1>1, <1>6

\* There is nothing between two neighbours.
LEMMA Neighbours ==
  ASSUME NEW P, P \subseteq Nat, IsFiniteSet(P), NEW n \in 1 .. Cardinality(P), NEW i \in P,
         i < Nth(P, n), n = 1 \/ Nth(P, n - 1) < i
  PROVE  FALSE
<1> DEFINE c == Cardinality(P)
           k == Cardinality(Below(P, i)) + 1
           x == Nth(P, n)
           y == Nth(P, n - 1)
           z == Nth(P, k)
<1>1. c \in Nat /\ n \in 1 .. c /\ i \in Nat
  BY CardinalityNat
<1>2. k \in 1 .. c /\ z = i
  <2>1. Cardinality(Below(P, i)) \in 0 .. c - 1
    BY RankType
  <2>2. z = i
    BY NthOfRank
  <2> HIDE DEF c, z
  <2>3. QED
    BY <1>1, <2>1, <2>2
<1>3. n < k => x < z
  BY <1>2, NthMonotone
<1>4. n = k => x = z
  OBVIOUS
<1>5. k < n - 1 => z < y
  <2>1. ASSUME k < n - 1 PROVE n - 1 \in 1 .. c
    BY <1>1, <1>2, <2>1
  <2>2. QED
    BY <1>2, <2>1, NthMonotone
<1>6. n - 1 = k => y = z
  OBVIOUS
<1>7. x \in Nat /\ (n # 1 => y \in Nat)
  <2>1. n # 1 => n - 1 \in 1 .. c
    BY <1>1
  <2>2. QED
    BY <1>1, <2>1, NthIn
<1> HIDE DEF c, k, x, y, z
<1>8. i < x /\ (n = 1 \/ y < i)
  BY DEF x, y
<1>9. n < k \/ n = k \/ (n # 1 /\ (k < n - 1 \/ n - 1 = k))
  BY <1>1, <1>2
<1>10. QED
  BY <1>1, <1>2, <1>3, <1>4, <1>5, <1>6, <1>7, <1>8, <1>9

\* One position from each of as many segments as there are positions is all of
\* them, in order.
LEMMA OneOfEach ==
  ASSUME NEW P, P \subseteq Nat, IsFiniteSet(P), NEW c \in Nat, c = Cardinality(P),
         NEW h \in [1 .. c -> P], \A m, n \in 1 .. c : m < n => h[m] < h[n]
  PROVE  \A n \in 1 .. c : h[n] = Nth(P, n)
<1> DEFINE rank(i) == Cardinality(Below(P, i)) + 1
           k == [n \in 1 .. c |-> rank(h[n])]
<1>1. ASSUME NEW i \in P PROVE rank(i) \in 1 .. c /\ Nth(P, rank(i)) = i
  <2>1. Cardinality(Below(P, i)) \in 0 .. c - 1
    BY RankType
  <2>2. Nth(P, rank(i)) = i
    BY NthOfRank
  <2>3. QED
    BY <2>1, <2>2
<1> HIDE DEF rank
<1>2. \A n \in 1 .. c : k[n] \in 1 .. c /\ Nth(P, k[n]) = h[n] /\ h[n] \in Nat
  BY <1>1
<1>3. k \in [1 .. c -> 1 .. c]
  BY <1>1
<1> HIDE DEF k
<1>4. ASSUME NEW m \in 1 .. c, NEW n \in 1 .. c, m < n PROVE k[m] < k[n]
  <2>1. k[m] \in 1 .. c /\ k[n] \in 1 .. c /\ h[m] \in Nat /\ h[n] \in Nat /\ h[m] < h[n]
    BY <1>2, <1>4
  <2>2. k[n] < k[m] => h[n] < h[m]
    <3>1. k[n] < k[m] => Nth(P, k[n]) < Nth(P, k[m])
      BY <2>1, NthMonotone
    <3>2. QED
      BY <1>2, <3>1
  <2>3. k[n] = k[m] => h[n] = h[m]
    BY <1>2
  <2> DEFINE a == k[m]
             b == k[n]
             d == h[m]
             e == h[n]
  <2>4. a \in 1 .. c /\ b \in 1 .. c /\ d \in Nat /\ e \in Nat /\ d < e
    BY <2>1
  <2>5. (b < a => e < d) /\ (b = a => e = d)
    BY <2>2, <2>3
  <2> HIDE DEF a, b, d, e
  <2>6. a < b
    BY <2>4, <2>5
  <2>7. QED
    BY <2>6 DEF a, b
<1>5. \A n \in 1 .. c : k[n] = n
  BY <1>3, <1>4, GrowingIs
<1>6. QED
  BY <1>2, <1>5

\* Segments follow each other, and no end is inside of one.
LEMMA SegmentsFollow ==
  ASSUME NEW text, NEW first \in Nat, NEW last \in Nat, first <= last + 1
  PROVE  LET E == Ends(text, first, last)
             list == splitTopLevel(text, first, last)
         IN /\ \A m, n \in DOMAIN list : m < n => list[m][2] < list[n][1]
            /\ \A n \in DOMAIN list : \A i \in list[n][1] .. list[n][2] : i \in first .. last /\ i \notin E
<1> DEFINE E == Ends(text, first, last)
           c == Cardinality(E)
           list == splitTopLevel(text, first, last)
<1>1. /\ E \subseteq Nat /\ IsFiniteSet(E) /\ c \in Nat /\ DOMAIN list = 1 .. c
      /\ \A n \in 1 .. c :
           /\ list[n][1] = IF n = 1 THEN first ELSE Nth(E, n - 1) + 1
           /\ list[n][2] = Nth(E, n) - 1
           /\ list[n][1] >= first /\ list[n][1] \in Nat
           /\ list[n][2] <= last /\ list[n][2] \in Int
  <2>1. AreSegments(list, E, first, last)
    BY SegmentsAre
  <2> HIDE DEF E, list
  <2>2. QED
    BY <2>1 DEF AreSegments
<1> HIDE DEF E, c, list
<1>2. \A n \in 1 .. c : Nth(E, n) \in Nat
  BY <1>1, NthIn DEF c
<1>3. ASSUME NEW m \in 1 .. c, NEW n \in 1 .. c, m < n PROVE list[m][2] < list[n][1]
  <2> DEFINE x == Nth(E, m)
             y == Nth(E, n - 1)
  <2>1. n # 1 /\ n - 1 \in 1 .. c /\ (m = n - 1 \/ m < n - 1)
    BY <1>1, <1>3
  <2>2. x \in Nat /\ y \in Nat /\ (m < n - 1 => x < y) /\ (m = n - 1 => x = y)
    BY <1>1, <1>2, <2>1, NthMonotone DEF c
  <2>3. list[m][2] = x - 1 /\ list[n][1] = y + 1
    BY <1>1, <2>1
  <2> HIDE DEF x, y
  <2>4. x - 1 < y + 1
    BY <2>1, <2>2
  <2>5. QED
    BY <2>3, <2>4
<1>4. ASSUME NEW n \in 1 .. c, NEW i \in list[n][1] .. list[n][2]
      PROVE  i \in first .. last /\ i \notin E
  <2> DEFINE x == Nth(E, n)
             y == Nth(E, n - 1)
             lo == list[n][1]
             hi == list[n][2]
  <2>1. x \in Nat /\ (n # 1 => y \in Nat)
    <3>1. n # 1 => n - 1 \in 1 .. c
      BY <1>1
    <3>2. QED
      BY <1>2, <3>1
  <2>2. hi = x - 1 /\ (n # 1 => lo = y + 1) /\ lo \in Nat /\ hi \in Int /\ lo >= first /\ hi <= last
    BY <1>1
  <2>3. i \in lo .. hi
    OBVIOUS
  <2> HIDE DEF x, y, lo, hi
  <2>4. i \in first .. last /\ i < x /\ (n = 1 \/ y < i)
    BY <2>1, <2>2, <2>3
  <2>5. i \notin E
    BY <1>1, <2>4, Neighbours DEF x, y, c
  <2>6. QED
    BY <2>4, <2>5
<1>5. QED
  BY <1>1, <1>3, <1>4 DEF E, list

\* Nothing but placeholders, blanks and commas.
OnlyMarks(text, first, last) ==
  \A i \in first .. last : text[i] \in Mark \cup Blank \cup {","}

\* The positions of a segment, and of what is in it.
Segment(list, n) == list[n][1] .. list[n][2]
Ink(text, list, n) == {i \in Segment(list, n) : text[i] \notin Blank}

\* As many values as placeholders, none of them blank; each is a placeholder.
Valued(text, list, c) == DOMAIN list = 1 .. c /\ \A n \in 1 .. c : Ink(text, list, n) # {}
Matched(text, list, P, c) == \A n \in 1 .. c : Ink(text, list, n) = {Nth(P, n)}

\* Where there are as many placeholders as values of which none is blank, the
\* n-th placeholder is all of the n-th value.
LEMMA OneEach ==
  ASSUME Numbered \cap Sign = {},
         NEW text, NEW first \in Nat, NEW last \in Nat, first <= last + 1,
         OnlyMarks(text, first, last),
         NEW c \in Nat, c = Cardinality(Places(text, first, last)),
         Valued(text, splitTopLevel(text, first, last), c)
  PROVE  Matched(text, splitTopLevel(text, first, last), Places(text, first, last), c)
<1> DEFINE E == Ends(text, first, last)
           P == Places(text, first, last)
           list == splitTopLevel(text, first, last)
           ink(n) == Ink(text, list, n)
<1>1. P \subseteq Nat /\ IsFiniteSet(P) /\ c = Cardinality(P) /\ DOMAIN list = 1 .. c
  <2>1. last \in Int
    OBVIOUS
  <2>2. P \subseteq Nat /\ IsFiniteSet(P)
    BY <2>1, PlacesAre
  <2>3. DOMAIN list = 1 .. c
    BY DEF Valued
  <2>4. QED
    BY <2>2, <2>3
<1>2. /\ \A m, n \in 1 .. c : m < n => list[m][2] < list[n][1]
      /\ \A n \in 1 .. c : \A i \in Segment(list, n) : i \in first .. last /\ i \notin E
  BY <1>1, SegmentsFollow DEF Segment
<1>3. \A n \in 1 .. c : list[n][1] \in Int /\ list[n][2] \in Int
  <2>1. AreSegments(list, E, first, last)
    BY SegmentsAre
  <2> HIDE DEF E, list
  <2>2. \A n \in 1 .. c : list[n][1] \in Nat /\ list[n][2] \in Int
    BY <1>1, <2>1 DEF AreSegments
  <2>3. QED
    BY <2>2
<1> HIDE DEF list
<1>4. ASSUME NEW i \in first .. last, text[i] = "," PROVE i \in E
  <2>1. \A j \in first .. i : text[j] # "(" /\ text[j] # ")"
    <3>1. TAKE j \in first .. i
    <3>2. j \in first .. last
      OBVIOUS
    <3>3. text[j] \in Mark \cup Blank \cup {","}
      BY <3>2 DEF OnlyMarks
    <3>4. "(" \notin Mark \cup Blank \cup {","} /\ ")" \notin Mark \cup Blank \cup {","}
      BY DEF Mark, Sign, Blank, Space
    <3>5. QED
      BY <3>3, <3>4
  <2>2. {j \in first .. i : text[j] = "("} = {} /\ {j \in first .. i : text[j] = ")"} = {}
    BY <2>1
  <2>3. Depth(text, first, i) = 0
    <3>1. Cardinality({}) = 0
      BY FS_EmptySet
    <3>2. Depth(text, first, i) = Cardinality({}) - Cardinality({})
      BY <2>2 DEF Depth
    <3>3. QED
      BY <3>1, <3>2
  <2>4. QED
    BY <1>4, <2>3 DEF Ends
<1>5. ASSUME NEW n \in 1 .. c, NEW i \in ink(n) PROVE i \in P /\ i \in Segment(list, n)
  <2>1. i \in Segment(list, n) /\ text[i] \notin Blank
    BY DEF Ink
  <2>2. i \in first .. last /\ text[i] # ","
    BY <1>2, <1>4, <2>1
  <2>3. text[i] \in Mark
    BY <2>1, <2>2 DEF OnlyMarks
  <2>4. QED
    BY <2>1, <2>2, <2>3 DEF Places
<1> HIDE DEF P, ink
\* A choice of one from each value is the sequence of all.
<1>6. ASSUME NEW h, h = [n \in 1 .. c |-> h[n]], \A n \in 1 .. c : h[n] \in ink(n)
      PROVE  \A n \in 1 .. c : h[n] = Nth(P, n)
  <2>1. \A n \in 1 .. c : h[n] \in P /\ h[n] \in Segment(list, n)
    BY <1>5, <1>6
  <2>2. h \in [1 .. c -> P]
    BY <1>6, <2>1
  <2>3. ASSUME NEW m \in 1 .. c, NEW n \in 1 .. c, m < n PROVE h[m] < h[n]
    <3> DEFINE a == h[m]
               b == h[n]
               hi == list[m][2]
               lo == list[n][1]
    <3>1. a <= hi /\ lo <= b
      BY <2>1 DEF Segment
    <3>2. a \in Nat /\ b \in Nat /\ hi \in Int /\ lo \in Int /\ hi < lo
      BY <1>1, <1>2, <1>3, <2>1, <2>3
    <3> HIDE DEF a, b, hi, lo
    <3>3. a < b
      BY <3>1, <3>2
    <3>4. QED
      BY <3>3 DEF a, b
  <2>4. QED
    BY <1>1, <2>2, <2>3, OneOfEach
<1> DEFINE h == [n \in 1 .. c |-> CHOOSE i : i \in ink(n)]
<1>7. h = [n \in 1 .. c |-> h[n]] /\ \A n \in 1 .. c : h[n] = CHOOSE i : i \in ink(n)
  OBVIOUS
<1>8. \A n \in 1 .. c : ink(n) # {}
  BY DEF ink, list, Valued
<1> HIDE DEF h
<1>9. \A n \in 1 .. c : h[n] \in ink(n)
  BY <1>7, <1>8
<1>10. \A n \in 1 .. c : h[n] = Nth(P, n)
  BY <1>6, <1>7, <1>9
<1>11. ASSUME NEW n \in 1 .. c, NEW i \in ink(n) PROVE i = Nth(P, n)
  <2> DEFINE other == [m \in 1 .. c |-> IF m = n THEN i ELSE h[m]]
  <2>1. other = [m \in 1 .. c |-> other[m]] /\ other[n] = i
        /\ \A m \in 1 .. c : m # n => other[m] = h[m]
    OBVIOUS
  <2> HIDE DEF other
  <2>2. \A m \in 1 .. c : other[m] \in ink(m)
    BY <1>9, <1>11, <2>1
  <2>3. QED
    BY <1>6, <2>1, <2>2
<1>12. \A n \in 1 .. c : ink(n) = {Nth(P, n)}
  BY <1>9, <1>10, <1>11
<1>13. QED
  BY <1>12 DEF ink, list, P, Matched

\* INSERT: the list of columns in front of VALUES, the names in it, and the
\* values of the row that opens at a position.
ListOpens(masked, values) == {i \in 1 .. values - 1 : masked[i] = "("}
ColumnList(masked, values) ==
  LET open == Max(ListOpens(masked, values))
  IN splitTopLevel(masked, open + 1, matchParen(masked, open) - 1)
Keys(text, masked, values) ==
  LET list == ColumnList(masked, values)
  IN [n \in DOMAIN list |-> hookColKey(SubSeq(text, list[n][1], list[n][2]))]
Rows(masked, values) == Groups(masked, values + 1)
ValueList(masked, g) == splitTopLevel(masked, g + 1, matchParen(masked, g) - 1)
RowPlaces(masked, g) == Places(masked, g, matchParen(masked, g))

\* What the parser requires of an INSERT.
Shaped(text, masked, values) ==
  /\ \A i \in Places(masked, 1, Len(masked)) : i > values /\ ArgOf(masked, i) > 0
  /\ ListOpens(masked, values) # {}
  /\ matchParen(masked, Max(ListOpens(masked, values))) \in 1 .. values
  /\ "" \notin {Keys(text, masked, values)[n] : n \in DOMAIN Keys(text, masked, values)}
  /\ Rows(masked, values) # {} /\ 0 \notin Rows(masked, values)
  /\ \A g \in Rows(masked, values) :
       /\ Cardinality(RowPlaces(masked, g)) = Len(Keys(text, masked, values))
       /\ OnlyMarks(masked, g + 1, matchParen(masked, g) - 1)

Wanted(text, masked, values, cols) ==
  {n \in DOMAIN Keys(text, masked, values) : Keys(text, masked, values)[n] \in cols}

\* The plan of an INSERT, in these terms.
LEMMA InsertPlan ==
  ASSUME NEW text, NEW masked, NEW values, NEW cols
  PROVE  LET wanted == Wanted(text, masked, values, cols)
             rows == Rows(masked, values)
             size == Cardinality(rows)
         IN resolveInsertColumnArgs(text, masked, values, cols)
              = IF ~Shaped(text, masked, values) THEN NoPlan
                ELSE [ok |-> TRUE, count |-> placeholderArgCount(masked),
                      idx |-> [n \in 1 .. Cardinality(wanted) * size |->
                        ArgOf(masked, Nth(RowPlaces(masked, Nth(rows, ((n - 1) % size) + 1)),
                                          Nth(wanted, ((n - 1) \div size) + 1)))]]
BY Zenon DEF resolveInsertColumnArgs, Shaped, Wanted, Rows, RowPlaces, Keys, ColumnList, ListOpens, OnlyMarks

\* An INSERT of this shape has a list of columns, and rows behind VALUES with a
\* placeholder for each column, which are all the placeholders of the statement.
LEMMA InsertShape ==
  ASSUME Numbered \cap Sign = {}, NEW S, NEW masked \in Seq(S), NEW values \in 1 .. Len(masked),
         NEW text, Shaped(text, masked, values)
  PROVE  \E c \in Nat :
           LET rows == Rows(masked, values)
           IN /\ DOMAIN Keys(text, masked, values) = 1 .. c
              /\ DOMAIN ColumnList(masked, values) = 1 .. c
              /\ rows \subseteq Nat /\ IsFiniteSet(rows) /\ rows # {}
              /\ \A g \in rows :
                   /\ g \in values + 1 .. Len(masked)
                   /\ matchParen(masked, g) \in g + 1 .. Len(masked)
                   /\ Cardinality(RowPlaces(masked, g)) = c
                   /\ RowPlaces(masked, g) = Places(masked, g + 1, matchParen(masked, g) - 1)
                   /\ OnlyMarks(masked, g + 1, matchParen(masked, g) - 1)
              /\ \A i \in Places(masked, 1, Len(masked)) :
                   ArgOf(masked, i) > 0 /\ \E g \in rows : i \in RowPlaces(masked, g)
<1> DEFINE N == Len(masked)
           opens == ListOpens(masked, values)
           open == Max(opens)
           close == matchParen(masked, open)
           rows == Rows(masked, values)
           list == ColumnList(masked, values)
           key == Keys(text, masked, values)
<1>1. N \in Nat /\ values \in 1 .. N /\ DOMAIN masked = 1 .. N
  OBVIOUS
<1>2. open \in 1 .. values - 1 /\ masked[open] = "("
  <2>1. opens \subseteq 1 .. values - 1 /\ opens # {} /\ \A i \in opens : masked[i] = "("
    BY DEF ListOpens, Shaped
  <2>2. IsFiniteSet(1 .. values - 1) /\ 1 .. values - 1 \subseteq Nat
    <3>1. 1 \in Int /\ values - 1 \in Int
      BY <1>1
    <3>2. IsFiniteSet(1 .. values - 1)
      BY <3>1, FS_Interval
    <3>3. QED
      BY <3>2
  <2> HIDE DEF opens
  <2>3. IsFiniteSet(opens)
    BY <2>1, <2>2, FS_Subset
  <2>4. opens \subseteq Nat
    BY <2>1, <2>2
  <2>5. open \in opens
    BY <2>1, <2>3, <2>4, MaxIs
  <2>6. QED
    BY <2>1, <2>5
<1> HIDE DEF opens, open
<1>3. close \in open + 1 .. N
  <2>1. open \in 1 .. Len(masked) /\ masked[open] # ")"
    BY <1>1, <1>2
  <2>2. close = 0 \/ close \in open + 1 .. N
    BY <2>1, MatchIs
  <2>3. close # 0
    <3>1. close \in 1 .. values
      BY Zenon DEF Shaped, open, opens
    <3> HIDE DEF close
    <3>2. QED
      BY <3>1
  <2>4. QED
    BY <2>2, <2>3
<1> HIDE DEF N, close
<1>4. PICK c \in Nat : DOMAIN list = 1 .. c
  <2>1. open + 1 \in Nat /\ close - 1 \in Nat /\ open + 1 <= (close - 1) + 1
    BY <1>1, <1>2, <1>3
  <2>2. list = splitTopLevel(masked, open + 1, close - 1)
    BY DEF ColumnList, open, opens, close
  <2> DEFINE E == Ends(masked, open + 1, close - 1)
  <2> HIDE DEF list
  <2>3. AreSegments(list, E, open + 1, close - 1)
    BY <2>1, <2>2, SegmentsAre
  <2> HIDE DEF E
  <2>4. QED
    BY <2>3 DEF AreSegments
<1>5. DOMAIN key = 1 .. c /\ Len(key) = c
  <2>1. key = [n \in 1 .. c |-> hookColKey(SubSeq(text, list[n][1], list[n][2]))]
    BY <1>4 DEF Keys
  <2> HIDE DEF key, list
  <2>2. QED
    BY <2>1
<1>6. /\ rows \subseteq {0} \cup values + 1 .. N /\ rows \subseteq Nat /\ IsFiniteSet(rows)
      /\ \A g \in rows : g # 0 => Closed(masked, g)
      /\ 0 \notin rows =>
           \A j \in values + 1 .. N :
             \/ masked[j] \in Blank \cup {","}
             \/ \E g \in rows : g <= j /\ j <= matchParen(masked, g)
  <2>1. values + 1 \in 1 .. Len(masked) + 1
    BY <1>1 DEF N
  <2>2. QED
    BY <2>1, GroupsCover DEF Rows, N
<1>7. rows # {} /\ 0 \notin rows
  BY DEF Shaped
<1> HIDE DEF rows, list, key
<1>8. ASSUME NEW g \in rows
      PROVE  /\ g \in values + 1 .. N
             /\ matchParen(masked, g) \in g + 1 .. N
             /\ Cardinality(RowPlaces(masked, g)) = c
             /\ RowPlaces(masked, g) = Places(masked, g + 1, matchParen(masked, g) - 1)
             /\ OnlyMarks(masked, g + 1, matchParen(masked, g) - 1)
  <2> DEFINE m == matchParen(masked, g)
  <2>1. g \in values + 1 .. N /\ Closed(masked, g)
    BY <1>6, <1>7
  <2>2. g \in 1 .. Len(masked) /\ masked[g] = "(" /\ m # 0
    BY <1>1, <2>1 DEF Closed, N
  <2>3. m \in g + 1 .. N /\ masked[m] = ")"
    BY <2>2, MatchIs DEF N
  <2>4. Cardinality(RowPlaces(masked, g)) = c /\ OnlyMarks(masked, g + 1, m - 1)
    BY <1>5 DEF Shaped, rows, key
  <2> HIDE DEF m
  <2>5. masked[g] \notin Mark /\ masked[m] \notin Mark
    BY <2>2, <2>3 DEF Mark, Sign
  <2>6. Places(masked, g, m) = Places(masked, g + 1, m - 1)
    <3>1. ASSUME NEW i, masked[i] \in Mark PROVE i \in g .. m <=> i \in g + 1 .. m - 1
      <4>1. i # g /\ i # m
        BY <2>5, <3>1
      <4>2. QED
        BY <1>1, <2>2, <2>3, <4>1
    <3>2. QED
      BY <3>1 DEF Places
  <2>7. QED
    BY <2>1, <2>3, <2>4, <2>6 DEF m, RowPlaces
<1>9. ASSUME NEW i \in Places(masked, 1, N)
      PROVE  ArgOf(masked, i) > 0 /\ \E g \in rows : i \in RowPlaces(masked, g)
  <2>1. i > values /\ ArgOf(masked, i) > 0
    BY DEF Shaped, N
  <2>2. i \in 1 .. N /\ masked[i] \in Mark
    BY DEF Places
  <2>3. i \in values + 1 .. N
    BY <1>1, <2>1, <2>2
  <2>4. masked[i] \notin Blank \cup {","}
    BY <2>2 DEF Mark, Sign, Blank, Space
  <2>5. PICK g \in rows : g <= i /\ i <= matchParen(masked, g)
    BY <1>6, <1>7, <2>3, <2>4
  <2>6. g \in values + 1 .. N /\ matchParen(masked, g) \in g + 1 .. N
    BY <1>8
  <2>7. i \in g .. matchParen(masked, g)
    BY <1>1, <2>2, <2>5, <2>6
  <2>8. QED
    BY <2>1, <2>2, <2>7 DEF RowPlaces, Places
<1>10. QED
  BY <1>4, <1>5, <1>6, <1>7, <1>8, <1>9 DEF rows, list, key, N

\* The database's requirement: each row has a value for each column.
Rectangular(masked, values) ==
  \A g \in Rows(masked, values) :
    /\ DOMAIN ValueList(masked, g) = DOMAIN ColumnList(masked, values)
    /\ \A n \in DOMAIN ValueList(masked, g) : Ink(masked, ValueList(masked, g), n) # {}

\* The number of an element of a product.
LEMMA Joint ==
  ASSUME NEW a \in Nat, NEW b \in Nat, NEW q \in 0 .. a - 1, NEW r \in 0 .. b - 1
  PROVE  /\ q * b + r + 1 \in 1 .. a * b
         /\ ((q * b + r + 1) - 1) \div b = q
         /\ ((q * b + r + 1) - 1) % b = r
<1>1. q * b \in Nat /\ a * b \in Nat /\ b \in Nat \ {0}
  OBVIOUS
<1>2. (q + 1) * b <= a * b
  <2>1. q + 1 <= a
    OBVIOUS
  <2>2. QED
    BY <1>1, <2>1
<1>3. (q + 1) * b = q * b + b
  OBVIOUS
<1>4. q * b + r + 1 <= a * b
  BY <1>1, <1>2, <1>3
<1>5. (q * b + r) \div b = q /\ (q * b + r) % b = r
  BY <1>1
<1>6. (q * b + r + 1) - 1 = q * b + r
  BY <1>1
<1>7. QED
  BY <1>1, <1>4, <1>5, <1>6

\* A sequence of positions that goes through the text.
Growing(f) == \A j, k \in DOMAIN f : j < k => f[j] < f[k]

\* f are the placeholders that are values of the wanted columns, and idx their
\* arguments; those of a single column are in the order of the rows.
ArgsOfRows(text, masked, values, cols, idx, f) ==
  LET rows == Rows(masked, values)
      wanted == Wanted(text, masked, values, cols)
      IsValue(i, g, n) == Ink(masked, ValueList(masked, g), n) = {i}
  IN /\ \A k \in DOMAIN idx :
          /\ idx[k] = ArgOf(masked, f[k]) /\ idx[k] > 0
          /\ \E g \in rows, n \in wanted : IsValue(f[k], g, n)
     /\ \A g \in rows, n \in wanted : \E k \in DOMAIN idx : IsValue(f[k], g, n)
     /\ Cardinality(wanted) <= 1 => Growing(f)

\* An INSERT the parser accepts: its plan has the arguments of the wanted columns
\* in all rows, no others, and no argument of the statement is outside the rows.
THEOREM InsertArgsAreValues ==
  ASSUME LexAssumption, Numbered \cap Sign = {}, NEW S, NEW text \in Seq(S), NEW cols,
         NEW values \in 1 .. Len(text), Rectangular(maskSQLLiterals(text), values),
         resolveInsertColumnArgs(text, maskSQLLiterals(text), values, cols).ok
  PROVE  LET masked == maskSQLLiterals(text)
             idx == resolveInsertColumnArgs(text, masked, values, cols).idx
         IN /\ \E K \in Nat : DOMAIN idx = 1 .. K
            /\ \E f \in [DOMAIN idx -> Seen(text, Mark)] :
                 ArgsOfRows(text, masked, values, cols, idx, f)
            /\ \A i \in Seen(text, Mark) :
                 \E g \in Rows(masked, values), n \in DOMAIN ColumnList(masked, values) :
                   Ink(masked, ValueList(masked, g), n) = {i}
<1> DEFINE masked == maskSQLLiterals(text)
           rows == Rows(masked, values)
           wanted == Wanted(text, masked, values, cols)
           plan == resolveInsertColumnArgs(text, masked, values, cols)
           idx == plan.idx
           size == Cardinality(rows)
           width == Cardinality(wanted)
           place(g, n) == Nth(RowPlaces(masked, g), n)
           ink(g, n) == Ink(masked, ValueList(masked, g), n)
<1>1. masked \in Seq(S \cup {Space}) /\ values \in 1 .. Len(masked)
  BY MaskedIs
<1>2. Places(masked, 1, Len(masked)) = Seen(text, Mark)
  <2>1. {j \in DOMAIN masked : masked[j] \in Mark} = Seen(text, Mark)
    BY MarksMasked
  <2> HIDE DEF masked
  <2>2. DOMAIN masked = 1 .. Len(masked)
    BY <1>1
  <2>3. QED
    BY <2>1, <2>2 DEF Places
<1>3. Rectangular(masked, values) /\ plan.ok
  OBVIOUS
<1> HIDE DEF masked
<1>4. Shaped(text, masked, values)
  <2>1. ~Shaped(text, masked, values) => plan = NoPlan
    BY InsertPlan
  <2>2. ~NoPlan.ok
    BY DEF NoPlan
  <2> HIDE DEF plan
  <2>3. QED
    BY <1>3, <2>1, <2>2
<1>5. idx = [k \in 1 .. width * size |->
               ArgOf(masked, place(Nth(rows, ((k - 1) % size) + 1), Nth(wanted, ((k - 1) \div size) + 1)))]
  <2> HIDE DEF wanted, rows
  <2>1. plan = [ok |-> TRUE, count |-> placeholderArgCount(masked), idx |->
               [k \in 1 .. width * size |->
                  ArgOf(masked, place(Nth(rows, ((k - 1) % size) + 1), Nth(wanted, ((k - 1) \div size) + 1)))]]
    BY <1>4, InsertPlan DEF wanted, rows
  <2> HIDE DEF place, plan, size, width
  <2>2. QED
    BY <2>1
<1>6. PICK c \in Nat :
        /\ DOMAIN Keys(text, masked, values) = 1 .. c
        /\ DOMAIN ColumnList(masked, values) = 1 .. c
        /\ rows \subseteq Nat /\ IsFiniteSet(rows) /\ rows # {}
        /\ \A g \in rows :
             /\ g \in values + 1 .. Len(masked)
             /\ matchParen(masked, g) \in g + 1 .. Len(masked)
             /\ Cardinality(RowPlaces(masked, g)) = c
             /\ RowPlaces(masked, g) = Places(masked, g + 1, matchParen(masked, g) - 1)
             /\ OnlyMarks(masked, g + 1, matchParen(masked, g) - 1)
        /\ \A i \in Places(masked, 1, Len(masked)) :
             ArgOf(masked, i) > 0 /\ \E g \in rows : i \in RowPlaces(masked, g)
  BY <1>1, <1>4, InsertShape
<1>7. wanted \subseteq 1 .. c /\ wanted \subseteq Nat /\ IsFiniteSet(wanted)
  <2>1. wanted \subseteq 1 .. c
    BY <1>6 DEF Wanted
  <2>2. IsFiniteSet(1 .. c) /\ 1 .. c \subseteq Nat
    BY FS_Interval
  <2> HIDE DEF wanted
  <2>3. QED
    BY <2>1, <2>2, FS_Subset
<1> HIDE DEF rows, wanted
<1>8. ASSUME NEW g \in rows
      PROVE  /\ RowPlaces(masked, g) \subseteq Nat /\ IsFiniteSet(RowPlaces(masked, g))
             /\ RowPlaces(masked, g) \subseteq Seen(text, Mark)
             /\ Cardinality(RowPlaces(masked, g)) = c
             /\ \A n \in 1 .. c : ink(g, n) = {place(g, n)} /\ place(g, n) \in RowPlaces(masked, g)
             /\ \A i \in RowPlaces(masked, g) : g <= i /\ i <= matchParen(masked, g)
  <2> DEFINE m == matchParen(masked, g)
             P == RowPlaces(masked, g)
  <2>1. /\ g + 1 \in Nat /\ m - 1 \in Nat /\ m - 1 \in Int /\ g + 1 <= (m - 1) + 1
        /\ g + 1 .. m - 1 \subseteq 1 .. Len(masked)
    <3>1. g \in values + 1 .. Len(masked) /\ m \in g + 1 .. Len(masked) /\ values \in Nat
      BY <1>1, <1>6
    <3>2. Len(masked) \in Nat
      BY <1>1
    <3> HIDE DEF m
    <3>3. QED
      BY <3>1, <3>2
  <2>2. P = Places(masked, g + 1, m - 1) /\ Cardinality(P) = c /\ OnlyMarks(masked, g + 1, m - 1)
    BY <1>6
  <2>3. DOMAIN ValueList(masked, g) = 1 .. c /\ \A n \in 1 .. c : ink(g, n) # {}
    BY <1>3, <1>6 DEF Rectangular, rows
  <2>4. DOMAIN splitTopLevel(masked, g + 1, m - 1) = 1 .. c
    BY <2>3 DEF ValueList
  <2>5. \A n \in 1 .. c : Ink(masked, splitTopLevel(masked, g + 1, m - 1), n) # {}
    BY <2>3 DEF ValueList
  <2> HIDE DEF m, P
  <2>6. \A n \in 1 .. c : Ink(masked, splitTopLevel(masked, g + 1, m - 1), n)
                             = {Nth(Places(masked, g + 1, m - 1), n)}
    <3> DEFINE a == g + 1
               b == m - 1
    <3>1. a \in Nat /\ b \in Nat /\ a <= b + 1
      BY <2>1
    <3>2. OnlyMarks(masked, a, b) /\ c = Cardinality(Places(masked, a, b))
      BY <2>2
    <3>3. Valued(masked, splitTopLevel(masked, a, b), c)
      BY <2>4, <2>5 DEF Valued
    <3> HIDE DEF a, b
    <3>4. Matched(masked, splitTopLevel(masked, a, b), Places(masked, a, b), c)
      BY <3>1, <3>2, <3>3, OneEach
    <3>5. QED
      BY <3>4 DEF a, b, Matched
  <2>7. P \subseteq Nat /\ IsFiniteSet(P)
    BY <2>1, <2>2, PlacesAre
  <2>8. P \subseteq Seen(text, Mark)
    <3>1. P \subseteq Places(masked, 1, Len(masked))
      BY <2>1, <2>2 DEF Places
    <3>2. QED
      BY <1>2, <3>1
  <2>9. \A n \in 1 .. c : Nth(P, n) \in P
    BY <2>2, <2>7, NthIn
  <2>10. \A n \in 1 .. c : ink(g, n) = {Nth(P, n)}
    BY <2>2, <2>6 DEF ValueList, m
  <2>11. \A i \in P : g <= i /\ i <= m
    BY DEF P, RowPlaces, Places, m
  <2>12. QED
    BY <2>2, <2>7, <2>8, <2>9, <2>10, <2>11 DEF P, m
<1> DEFINE f == [k \in 1 .. width * size |->
                   place(Nth(rows, ((k - 1) % size) + 1), Nth(wanted, ((k - 1) \div size) + 1))]
<1> HIDE DEF ink, place, idx
<1>9. size \in Nat /\ width \in Nat
  BY <1>6, <1>7, CardinalityNat
<1>10. DOMAIN idx = 1 .. width * size
  BY <1>5
<1>11. ASSUME NEW g \in rows, NEW n \in wanted
       PROVE  \E i \in Seen(text, Mark) :
                /\ ink(g, n) = {i} /\ i = place(g, n) /\ ArgOf(masked, i) > 0
  <2>1. place(g, n) \in RowPlaces(masked, g) /\ ink(g, n) = {place(g, n)}
    BY <1>7, <1>8
  <2>2. place(g, n) \in Seen(text, Mark)
    BY <1>8, <2>1
  <2>3. ArgOf(masked, place(g, n)) > 0
    BY <1>2, <1>6, <2>2
  <2>4. QED
    BY <2>1, <2>2, <2>3
<1>12. ASSUME NEW k \in DOMAIN idx
       PROVE  /\ f[k] \in Seen(text, Mark)
              /\ idx[k] = ArgOf(masked, f[k]) /\ idx[k] > 0
              /\ \E g \in rows, n \in wanted : ink(g, n) = {f[k]}
  <2> DEFINE a == ((k - 1) % size) + 1
             b == ((k - 1) \div size) + 1
  <2>1. k \in 1 .. width * size
    BY <1>10
  <2>2. a \in 1 .. size /\ b \in 1 .. width
    BY <1>9, <2>1, Split
  <2>3. idx[k] = ArgOf(masked, place(Nth(rows, a), Nth(wanted, b)))
    BY <1>5, <2>1
  <2>4. f[k] = place(Nth(rows, a), Nth(wanted, b))
    BY <2>1
  <2> HIDE DEF a, b, f
  <2>5. Nth(rows, a) \in rows /\ Nth(wanted, b) \in wanted
    BY <1>6, <1>7, <2>2, NthIn
  <2>6. QED
    BY <1>11, <2>3, <2>4, <2>5
<1>13. ASSUME NEW g \in rows, NEW n \in wanted
       PROVE  \E k \in DOMAIN idx : ink(g, n) = {f[k]}
  <2> DEFINE r == Cardinality(Below(rows, g))
             q == Cardinality(Below(wanted, n))
             k == q * size + r + 1
  <2>1. r \in 0 .. size - 1 /\ q \in 0 .. width - 1
    BY <1>6, <1>7, RankType
  <2>2. Nth(rows, r + 1) = g /\ Nth(wanted, q + 1) = n
    BY <1>6, <1>7, NthOfRank
  <2> HIDE DEF r, q, size, width
  <2>3. k \in 1 .. width * size /\ (k - 1) \div size = q /\ (k - 1) % size = r
    BY <1>9, <2>1, Joint
  <2> HIDE DEF k
  <2>4. f[k] = place(g, n)
    BY <2>2, <2>3
  <2> HIDE DEF f
  <2>5. QED
    BY <1>10, <1>11, <2>3, <2>4
<1>14. ASSUME NEW i \in Seen(text, Mark)
       PROVE  \E g \in rows, n \in DOMAIN ColumnList(masked, values) : ink(g, n) = {i}
  <2>1. PICK g \in rows : i \in RowPlaces(masked, g)
    BY <1>2, <1>6
  <2> DEFINE P == RowPlaces(masked, g)
             n == Cardinality(Below(P, i)) + 1
  <2>2. P \subseteq Nat /\ IsFiniteSet(P) /\ Cardinality(P) = c
    BY <1>8
  <2>3. Cardinality(Below(P, i)) \in 0 .. c - 1
    BY <2>1, <2>2, RankType
  <2>4. n \in 1 .. c /\ Nth(P, n) = i
    BY <2>1, <2>2, <2>3, NthOfRank
  <2> HIDE DEF n
  <2>5. ink(g, n) = {place(g, n)} /\ place(g, n) = i
    BY <1>8, <2>4 DEF place
  <2>6. QED
    BY <1>6, <2>4, <2>5
<1>15. ASSUME width <= 1, NEW j \in DOMAIN f, NEW k \in DOMAIN f, j < k PROVE f[j] < f[k]
  <2>1. j \in 1 .. width * size /\ k \in 1 .. width * size
    OBVIOUS
  <2> HIDE DEF width, size
  <2>2. width = 1
    BY <1>9, <1>15, <2>1
  <2>3. j \in 1 .. size /\ k \in 1 .. size
    BY <1>9, <2>1, <2>2
  <2>4. \A i \in 1 .. size : ((i - 1) % size) + 1 = i /\ ((i - 1) \div size) + 1 = 1
    <3>1. TAKE i \in 1 .. size
    <3>2. i - 1 \in 0 .. size - 1 /\ 0 \in 0 .. 1 - 1 /\ 1 \in Nat
      BY <1>9
    <3>3. ((0 * size + (i - 1) + 1) - 1) \div size = 0 /\ ((0 * size + (i - 1) + 1) - 1) % size = i - 1
      BY <1>9, <3>2, Joint
    <3>4. (0 * size + (i - 1) + 1) - 1 = i - 1
      BY <1>9
    <3>5. QED
      BY <1>9, <3>3, <3>4
  <2> DEFINE g == Nth(rows, j)
             h == Nth(rows, k)
             n == Nth(wanted, 1)
  <2>5. f[j] = place(g, n) /\ f[k] = place(h, n)
    BY <2>1, <2>3, <2>4
  <2>6. g \in rows /\ h \in rows /\ g < h
    BY <1>6, <1>9, <1>15, <2>3, NthIn, NthMonotone DEF size
  <2>7. n \in wanted /\ n \in 1 .. c
    <3>1. 1 \in 1 .. Cardinality(wanted)
      BY <2>2 DEF width
    <3>2. QED
      BY <1>7, <3>1, NthIn
  <2> HIDE DEF f, g, h, n
  <2>8. /\ place(g, n) \in Nat /\ place(g, n) <= matchParen(masked, g)
        /\ place(h, n) \in Nat /\ h <= place(h, n)
    BY <1>8, <2>6, <2>7
  <2>9. matchParen(masked, g) < h
    <3>1. values + 1 \in 1 .. Len(masked) + 1
      BY <1>1
    <3>2. 0 \notin Groups(masked, values + 1)
      BY <1>4 DEF Shaped, Rows
    <3>3. QED
      BY <1>1, <2>6, <3>1, <3>2, GroupsApart DEF rows, Rows
  <2>10. matchParen(masked, g) \in Nat /\ h \in Nat
    <3>1. g \in Nat /\ h \in Nat /\ Len(masked) \in Nat
      BY <1>1, <1>6, <2>6
    <3>2. matchParen(masked, g) \in g + 1 .. Len(masked)
      BY <1>6, <2>6
    <3>3. QED
      BY <3>1, <3>2
  <2>11. QED
    BY <2>5, <2>8, <2>9, <2>10
<1>16. DOMAIN f = DOMAIN idx
  BY <1>10
<1>17. f \in [DOMAIN idx -> Seen(text, Mark)]
  BY <1>10, <1>12
<1> HIDE DEF f
<1>18. width * size \in Nat
  BY <1>9
<1>19. width <= 1 => Growing(f)
  BY <1>15 DEF Growing
<1>20. QED
  <2>1. ArgsOfRows(text, masked, values, cols, idx, f)
    BY <1>12, <1>13, <1>19 DEF ArgsOfRows, ink, rows, wanted, width
  <2>2. QED
    BY <1>10, <1>14, <1>17, <1>18, <2>1 DEF idx, ink, rows, masked

\* Where a word is.
LEMMA FoundIs ==
  ASSUME NEW S, NEW text \in Seq(S), NEW word, NEW from \in Nat \ {0}
  PROVE  LET f == findKeyword(text, word, from)
         IN f = 0 \/ (f \in from .. Len(text) /\ text[f] = word)
<1> DEFINE at == {i \in from .. Len(text) : text[i] = word}
<1>1. CASE at = {}
  BY <1>1 DEF findKeyword
<1>2. CASE at # {}
  <2>1. findKeyword(text, word, from) = Min(at)
    BY <1>2 DEF findKeyword
  <2>2. at \subseteq Nat /\ \A i \in at : i \in from .. Len(text) /\ text[i] = word
    OBVIOUS
  <2> HIDE DEF at
  <2>3. Min(at) \in at
    BY <1>2, <2>2, MinIs
  <2>4. QED
    BY <2>1, <2>2, <2>3
<1>3. QED
  BY <1>1, <1>2

\* What is one lexeme once it is trimmed has one lexeme that is not blank.
LEMMA TrimmedIs ==
  ASSUME NEW S, NEW text \in Seq(S), NEW a \in Nat \ {0}, NEW b \in Int, b <= Len(text),
         Len(Trimmed(SubSeq(text, a, b))) = 1
  PROVE  \E i \in a .. b :
           /\ {j \in a .. b : text[j] \notin Blank} = {i}
           /\ Trimmed(SubSeq(text, a, b))[1] = text[i]
<1> DEFINE sub == SubSeq(text, a, b)
           ink == {i \in DOMAIN sub : sub[i] \notin Blank}
           m == Min(ink)
           n == Max(ink)
<1>1. DOMAIN sub = 1 .. b - a + 1 /\ \A i \in 1 .. b - a + 1 : sub[i] = text[i + a - 1]
  OBVIOUS
<1>2. sub \in Seq(S)
  OBVIOUS
<1> HIDE DEF sub
<1>3. Trimmed(sub) = IF ink = {} THEN <<>> ELSE SubSeq(sub, m, n)
  BY DEF Trimmed
<1>4. ink # {}
  <2>1. Len(<<>>) # 1
    OBVIOUS
  <2>2. QED
    BY <1>3, <2>1 DEF sub
<1>5. ink \subseteq 1 .. b - a + 1 /\ ink \subseteq Nat /\ IsFiniteSet(ink)
  <2>1. ink \subseteq 1 .. b - a + 1
    BY <1>1
  <2>2. IsFiniteSet(1 .. b - a + 1) /\ 1 .. b - a + 1 \subseteq Nat
    <3>1. 1 \in Int /\ b - a + 1 \in Int
      OBVIOUS
    <3>2. IsFiniteSet(1 .. b - a + 1)
      BY <3>1, FS_Interval
    <3>3. QED
      BY <3>2
  <2> HIDE DEF ink
  <2>3. IsFiniteSet(ink)
    BY <2>1, <2>2, FS_Subset
  <2>4. QED
    BY <2>1, <2>2, <2>3
<1>6. \A i \in 1 .. b - a + 1 : i \in ink <=> text[i + a - 1] \notin Blank
  BY <1>1
<1> HIDE DEF ink
<1>7. m \in ink /\ n \in ink /\ \A i \in ink : m <= i /\ i <= n
  BY <1>4, <1>5, MinIs, MaxIs
<1> HIDE DEF m, n
<1>8. m \in 1 .. b - a + 1 /\ n \in 1 .. b - a + 1 /\ m <= n
  BY <1>5, <1>7
<1>9. Trimmed(sub) = SubSeq(sub, m, n) /\ Len(Trimmed(sub)) = 1
  BY <1>3, <1>4 DEF sub
<1>10. n = m /\ Trimmed(sub)[1] = sub[m]
  <2>1. Len(SubSeq(sub, m, n)) = n - m + 1 /\ SubSeq(sub, m, n)[1] = sub[m]
    <3>1. Len(sub) = b - a + 1
      BY <1>1, <1>2, <1>8
    <3>2. QED
      BY <1>2, <1>8, <3>1
  <2>2. n - m + 1 = 1
    BY <1>9, <2>1
  <2>3. QED
    BY <1>8, <1>9, <2>1, <2>2
<1> DEFINE i == m + a - 1
<1>11. i \in a .. b /\ text[i] \notin Blank /\ sub[m] = text[i]
  BY <1>1, <1>6, <1>7, <1>8
<1>12. ASSUME NEW j \in a .. b, text[j] \notin Blank PROVE j = i
  <2> DEFINE k == j - a + 1
  <2>1. k \in 1 .. b - a + 1 /\ k + a - 1 = j
    OBVIOUS
  <2> HIDE DEF k
  <2>2. k \in ink
    BY <1>6, <1>12, <2>1
  <2>3. k = m
    <3>1. m <= k /\ k <= n
      BY <1>7, <2>2
    <3>2. QED
      BY <1>8, <1>10, <2>1, <3>1
  <2>4. QED
    BY <2>1, <2>3
<1> HIDE DEF i
<1>13. {j \in a .. b : text[j] \notin Blank} = {i}
  BY <1>11, <1>12
<1>14. QED
  BY <1>10, <1>11, <1>13 DEF sub

\* UPDATE: the assignments between SET and WHERE, the position of the equals
\* sign in each, and the column on its left.
SetEnd(masked, set) ==
  LET where == findKeyword(masked, "where", set + 1)
  IN IF where = 0 THEN Len(masked) ELSE where - 1
SetList(masked, set) == splitTopLevel(masked, set + 1, SetEnd(masked, set))
EqualsAt(masked, set) ==
  LET list == SetList(masked, set)
  IN [n \in DOMAIN list |->
        LET at == findKeyword(masked, "=", list[n][1]) IN IF at > list[n][2] THEN 0 ELSE at]
SetKeys(text, masked, set) ==
  LET list == SetList(masked, set)
  IN [n \in DOMAIN list |-> hookColKey(SubSeq(text, list[n][1], EqualsAt(masked, set)[n] - 1))]
Assigned(masked, set) ==
  LET list == SetList(masked, set)
  IN [n \in DOMAIN list |-> Trimmed(SubSeq(masked, EqualsAt(masked, set)[n] + 1, list[n][2]))]
Assigning(text, masked, set, cols) ==
  {n \in DOMAIN SetList(masked, set) : SetKeys(text, masked, set)[n] \in cols}
AssignedPlaces(masked, set, n) ==
  Places(masked, EqualsAt(masked, set)[n] + 1, SetList(masked, set)[n][2])

SetShaped(text, masked, set, cols) ==
  /\ \A n \in DOMAIN SetList(masked, set) :
       EqualsAt(masked, set)[n] # 0 /\ SetKeys(text, masked, set)[n] # ""
  /\ \A n \in Assigning(text, masked, set, cols) :
       /\ Len(Assigned(masked, set)[n]) = 1 /\ Assigned(masked, set)[n][1] \in Mark
       /\ ArgOf(masked, Min(AssignedPlaces(masked, set, n))) > 0

\* The plan of an UPDATE, in these terms.
LEMMA UpdatePlan ==
  ASSUME NEW text, NEW masked, NEW set, NEW cols
  PROVE  LET wanted == Assigning(text, masked, set, cols)
         IN resolveUpdateColumnArgs(text, masked, set, cols)
              = IF ~SetShaped(text, masked, set, cols) THEN NoPlan
                ELSE [ok |-> TRUE, count |-> placeholderArgCount(masked),
                      idx |-> [n \in 1 .. Cardinality(wanted) |->
                                 ArgOf(masked, Min(AssignedPlaces(masked, set, Nth(wanted, n))))]]
BY Zenon DEF resolveUpdateColumnArgs, SetShaped, Assigning, AssignedPlaces, Assigned, SetKeys, EqualsAt,
     SetList, SetEnd

\* An UPDATE the parser accepts: its plan has the arguments that are all of what
\* is assigned to the wanted columns, and no others, in their order.
THEOREM UpdateArgsAreValues ==
  ASSUME LexAssumption, NEW S, NEW text \in Seq(S), NEW cols, NEW set \in 1 .. Len(text),
         resolveUpdateColumnArgs(text, maskSQLLiterals(text), set, cols).ok
  PROVE  LET masked == maskSQLLiterals(text)
             wanted == Assigning(text, masked, set, cols)
             idx == resolveUpdateColumnArgs(text, masked, set, cols).idx
             IsValue(i, n) ==
               {j \in EqualsAt(masked, set)[n] + 1 .. SetList(masked, set)[n][2] : masked[j] \notin Blank}
                 = {i}
         IN /\ \E K \in Nat : DOMAIN idx = 1 .. K
            /\ \E f \in [DOMAIN idx -> Seen(text, Mark)] :
                 /\ \A k \in DOMAIN idx :
                      /\ idx[k] = ArgOf(masked, f[k]) /\ idx[k] > 0
                      /\ \E n \in wanted : IsValue(f[k], n)
                 /\ \A n \in wanted : \E k \in DOMAIN idx : IsValue(f[k], n)
                 /\ Growing(f)
<1> DEFINE masked == maskSQLLiterals(text)
           wanted == Assigning(text, masked, set, cols)
           plan == resolveUpdateColumnArgs(text, masked, set, cols)
           idx == plan.idx
           width == Cardinality(wanted)
           list == SetList(masked, set)
           eq == EqualsAt(masked, set)
           place(n) == Min(AssignedPlaces(masked, set, n))
           ink(n) == {j \in eq[n] + 1 .. list[n][2] : masked[j] \notin Blank}
           last == SetEnd(masked, set)
           E == Ends(masked, set + 1, last)
           c == Cardinality(E)
<1>1. masked \in Seq(S \cup {Space}) /\ Len(masked) = Len(text) /\ DOMAIN masked = 1 .. Len(masked)
  <2>1. masked \in Seq(S \cup {Space}) /\ Len(masked) = Len(text)
    BY MaskedIs
  <2> HIDE DEF masked
  <2>2. QED
    BY <2>1
<1>2. Places(masked, 1, Len(masked)) = Seen(text, Mark)
  <2>1. {j \in DOMAIN masked : masked[j] \in Mark} = Seen(text, Mark)
    BY MarksMasked
  <2> HIDE DEF masked
  <2>2. QED
    BY <1>1, <2>1 DEF Places
<1>3. plan.ok
  OBVIOUS
<1> HIDE DEF masked
<1>4. SetShaped(text, masked, set, cols)
  <2>1. ~SetShaped(text, masked, set, cols) => plan = NoPlan
    BY UpdatePlan
  <2>2. ~NoPlan.ok
    BY DEF NoPlan
  <2> HIDE DEF plan
  <2>3. QED
    BY <1>3, <2>1, <2>2
<1>5. idx = [k \in 1 .. width |-> ArgOf(masked, place(Nth(wanted, k)))]
  <2> HIDE DEF wanted
  <2>1. plan = [ok |-> TRUE, count |-> placeholderArgCount(masked),
                idx |-> [k \in 1 .. width |-> ArgOf(masked, place(Nth(wanted, k)))]]
    BY <1>4, UpdatePlan DEF wanted
  <2> HIDE DEF place, plan, width
  <2>2. QED
    BY <2>1
<1>6. last \in set .. Len(masked) /\ last \in Nat
  <2> DEFINE where == findKeyword(masked, "where", set + 1)
  <2>1. set + 1 \in Nat \ {0}
    OBVIOUS
  <2>2. where = 0 \/ where \in set + 1 .. Len(masked)
    BY <1>1, <2>1, FoundIs
  <2>3. last = IF where = 0 THEN Len(masked) ELSE where - 1
    BY DEF SetEnd
  <2> HIDE DEF where, last
  <2>4. QED
    BY <1>1, <2>2, <2>3
<1> HIDE DEF last
<1>7. AreSegments(list, E, set + 1, last)
  <2>1. set + 1 \in Nat /\ last \in Nat /\ set + 1 <= last + 1
    BY <1>6
  <2>2. list = splitTopLevel(masked, set + 1, last)
    BY DEF SetList, last
  <2> HIDE DEF list, E
  <2>3. AreSegments(splitTopLevel(masked, set + 1, last), E, set + 1, last)
    BY <2>1, SegmentsAre DEF E
  <2>4. QED
    BY <2>2, <2>3
<1> HIDE DEF list, E, c
<1>8. /\ DOMAIN list = 1 .. c /\ c \in Nat
      /\ \A n \in 1 .. c : /\ list[n][1] \in Nat /\ list[n][1] >= set + 1
                           /\ list[n][2] \in Int /\ list[n][2] <= last
  BY <1>7 DEF AreSegments, c
<1>9. \A n \in 1 .. c : eq[n] = 0 \/ (eq[n] \in list[n][1] .. list[n][2])
  <2> TAKE n \in 1 .. c
  <2> DEFINE at == findKeyword(masked, "=", list[n][1])
  <2>1. eq[n] = IF at > list[n][2] THEN 0 ELSE at
    BY <1>8 DEF EqualsAt, list
  <2>2. list[n][1] \in Nat \ {0}
    BY <1>8
  <2>3. at = 0 \/ at \in list[n][1] .. Len(masked)
    BY <1>1, <2>2, FoundIs
  <2> HIDE DEF at, eq
  <2>4. list[n][2] \in Int /\ list[n][1] \in Nat /\ Len(masked) \in Nat
    BY <1>1, <1>8
  <2>5. QED
    BY <2>1, <2>3, <2>4
<1>10. wanted \subseteq 1 .. c /\ wanted \subseteq Nat /\ IsFiniteSet(wanted)
  <2>1. wanted \subseteq 1 .. c
    BY <1>8 DEF Assigning, list
  <2>2. IsFiniteSet(1 .. c) /\ 1 .. c \subseteq Nat
    BY <1>8, FS_Interval
  <2> HIDE DEF wanted
  <2>3. QED
    BY <2>1, <2>2, FS_Subset
<1> HIDE DEF eq, wanted
<1>11. \A n \in wanted : /\ eq[n] # 0 /\ Len(Assigned(masked, set)[n]) = 1
                         /\ Assigned(masked, set)[n][1] \in Mark
                         /\ Assigned(masked, set)[n] = Trimmed(SubSeq(masked, eq[n] + 1, list[n][2]))
                         /\ ArgOf(masked, place(n)) > 0
  BY <1>4, <1>8, <1>10 DEF SetShaped, Assigned, wanted, eq, list
<1>12. ASSUME NEW n \in wanted
       PROVE  /\ place(n) \in Seen(text, Mark) /\ ink(n) = {place(n)}
              /\ ArgOf(masked, place(n)) > 0
              /\ list[n][1] \in Nat /\ list[n][2] \in Nat
              /\ place(n) \in list[n][1] .. list[n][2]
  <2> DEFINE a == eq[n] + 1
             b == list[n][2]
             P == AssignedPlaces(masked, set, n)
  <2>1. /\ a \in Nat \ {0} /\ b \in Int /\ b <= Len(masked) /\ a .. b \subseteq 1 .. Len(masked)
        /\ list[n][1] \in Nat /\ list[n][2] \in Nat /\ a .. b \subseteq list[n][1] .. list[n][2]
    <3>1. n \in 1 .. c /\ eq[n] \in list[n][1] .. list[n][2] /\ list[n][1] \in Nat
      BY <1>8, <1>9, <1>10, <1>11
    <3>2. list[n][2] \in Int /\ list[n][2] <= last /\ last <= Len(masked) /\ last \in Nat
      BY <1>6, <1>8, <3>1
    <3>3. Len(masked) \in Nat
      BY <1>1
    <3> DEFINE e == eq[n]
               l == list[n][1]
               h == list[n][2]
    <3>4. /\ e \in l .. h /\ l \in Nat /\ h \in Int
          /\ h <= last /\ last <= Len(masked) /\ last \in Nat
      BY <3>1, <3>2
    <3> HIDE DEF e, l, h
    <3>5. /\ e + 1 \in Nat \ {0} /\ h \in Nat /\ h <= Len(masked)
          /\ e + 1 .. h \subseteq 1 .. Len(masked) /\ e + 1 .. h \subseteq l .. h
      BY <3>3, <3>4
    <3>6. QED
      BY <3>4, <3>5 DEF e, l, h
  <2>2. P = Places(masked, a, b)
    BY DEF AssignedPlaces, eq, list
  <2> HIDE DEF a, b, P
  <2>3. Len(Trimmed(SubSeq(masked, a, b))) = 1 /\ Trimmed(SubSeq(masked, a, b))[1] \in Mark
    BY <1>11 DEF a, b
  <2>4. PICK i \in a .. b : /\ {j \in a .. b : masked[j] \notin Blank} = {i}
                            /\ Trimmed(SubSeq(masked, a, b))[1] = masked[i]
    BY <1>1, <2>1, <2>3, TrimmedIs
  <2>5. masked[i] \in Mark /\ i \in Seen(text, Mark)
    BY <1>2, <2>1, <2>3, <2>4 DEF Places
  <2>6. P = {i}
    <3>1. \A j \in a .. b : masked[j] \in Mark => masked[j] \notin Blank
      BY MarkIsPlain
    <3>2. QED
      BY <2>2, <2>4, <2>5, <3>1 DEF Places
  <2>7. Min(P) = i
    <3>1. P \subseteq Nat /\ P # {}
      BY <2>1, <2>4, <2>6
    <3>2. Min(P) \in P
      BY <3>1, MinIs
    <3>3. QED
      BY <2>6, <3>2
  <2>8. ArgOf(masked, i) > 0
    BY <1>11, <2>7 DEF P
  <2>9. QED
    BY <2>1, <2>4, <2>5, <2>7, <2>8 DEF a, b, P
<1> DEFINE f == [k \in 1 .. width |-> place(Nth(wanted, k))]
<1> HIDE DEF ink, place, idx
<1>13. width \in Nat /\ DOMAIN idx = 1 .. width
  BY <1>5, <1>10, CardinalityNat
<1>14. ASSUME NEW k \in DOMAIN idx
       PROVE  /\ f[k] \in Seen(text, Mark)
              /\ idx[k] = ArgOf(masked, f[k]) /\ idx[k] > 0
              /\ \E n \in wanted : ink(n) = {f[k]}
  <2>1. k \in 1 .. width /\ idx[k] = ArgOf(masked, place(Nth(wanted, k)))
    BY <1>5, <1>13
  <2>2. Nth(wanted, k) \in wanted
    BY <1>10, <2>1, NthIn
  <2>3. f[k] = place(Nth(wanted, k))
    BY <2>1
  <2> HIDE DEF f
  <2>4. QED
    BY <1>12, <2>1, <2>2, <2>3
<1>15. ASSUME NEW n \in wanted
       PROVE  \E k \in DOMAIN idx : ink(n) = {f[k]}
  <2> DEFINE r == Cardinality(Below(wanted, n))
             k == r + 1
  <2>1. r \in 0 .. width - 1
    BY <1>10, RankType
  <2>2. Nth(wanted, k) = n
    BY <1>10, NthOfRank
  <2> HIDE DEF r
  <2>3. k \in 1 .. width
    BY <1>13, <2>1
  <2> HIDE DEF k
  <2>4. f[k] = place(n)
    BY <2>2, <2>3
  <2> HIDE DEF f
  <2>5. QED
    BY <1>12, <1>13, <2>3, <2>4
<1>16. ASSUME NEW j \in DOMAIN f, NEW k \in DOMAIN f, j < k PROVE f[j] < f[k]
  <2> DEFINE m == Nth(wanted, j)
             n == Nth(wanted, k)
  <2>1. j \in 1 .. width /\ k \in 1 .. width /\ f[j] = place(m) /\ f[k] = place(n)
    OBVIOUS
  <2>2. m \in wanted /\ n \in wanted /\ m < n
    BY <1>10, <1>16, <2>1, NthIn, NthMonotone DEF width
  <2> HIDE DEF f, m, n
  <2>3. list[m][2] < list[n][1]
    <3>1. set + 1 \in Nat /\ last \in Nat /\ set + 1 <= last + 1
      BY <1>6
    <3>2. list = splitTopLevel(masked, set + 1, last)
      BY DEF SetList, last, list
    <3>3. m \in DOMAIN list /\ n \in DOMAIN list
      BY <1>8, <1>10, <2>2
    <3>4. \A x, y \in DOMAIN list : x < y => list[x][2] < list[y][1]
      BY <3>1, <3>2, SegmentsFollow
    <3>5. QED
      BY <2>2, <3>3, <3>4
  <2>4. /\ place(m) \in list[m][1] .. list[m][2] /\ place(n) \in list[n][1] .. list[n][2]
        /\ list[m][1] \in Nat /\ list[m][2] \in Nat /\ list[n][1] \in Nat /\ list[n][2] \in Nat
    BY <1>12, <2>2
  <2>5. QED
    BY <2>1, <2>3, <2>4
<1>17. DOMAIN f = DOMAIN idx
  BY <1>13
<1>18. f \in [DOMAIN idx -> Seen(text, Mark)]
  BY <1>13, <1>14
<1> HIDE DEF f
<1>19. Growing(f)
  BY <1>16 DEF Growing
<1>20. QED
  BY <1>13, <1>14, <1>15, <1>18, <1>19 DEF idx, ink, wanted, eq, list, masked

\* The placeholders that are all of a value given to some columns: the values of
\* an INSERT's rows, or what an UPDATE assigns.
Given(text, cols) ==
  LET masked == maskSQLLiterals(text)
      values == findKeyword(masked, "values", 1)
      set == findKeyword(masked, "set", 1)
  IN {i \in Seen(text, Mark) :
        IF values # 0
        THEN \E g \in Rows(masked, values), n \in Wanted(text, masked, values, cols) :
               Ink(masked, ValueList(masked, g), n) = {i}
        ELSE \E n \in Assigning(text, masked, set, cols) :
               {j \in EqualsAt(masked, set)[n] + 1 .. SetList(masked, set)[n][2] : masked[j] \notin Blank}
                 = {i}}

\* What an INSERT needs besides: the parser counts, the database compares.
RowsFit(text) ==
  LET masked == maskSQLLiterals(text)
      values == findKeyword(masked, "values", 1)
  IN values # 0 => Rectangular(masked, values)

\* At most one of the names in an INSERT's list is of these columns.
NamedOnce(text, cols) ==
  LET masked == maskSQLLiterals(text)
      values == findKeyword(masked, "values", 1)
  IN values # 0 => Cardinality(Wanted(text, masked, values, cols)) <= 1

\* A plan lists the arguments of the placeholders f, which are those given to
\* the columns, without repetitions.
Lists(text, cols, K, list, f) ==
  LET masked == maskSQLLiterals(text)
      plan == resolveHookColumnArgs(text, cols)
  IN /\ DOMAIN list = 1 .. K
     /\ \A k \in 1 .. K : list[k] = ArgOf(masked, f[k]) /\ list[k] > 0
     /\ \A i \in Given(text, cols) : \E k \in 1 .. K : f[k] = i
     /\ plan.idx = dedupeInts(list)
     /\ plan.count = placeholderArgCount(masked)

\* A plan is made of all the placeholders given to the columns.  They are in
\* the order of the text if an INSERT names but one column.
LEMMA PlanOfGiven ==
  ASSUME LexAssumption, Numbered \cap Sign = {}, NEW S, NEW text \in Seq(S), NEW cols,
         RowsFit(text), resolveHookColumnArgs(text, cols).ok
  PROVE  \E K \in Nat : \E list : \E f \in [1 .. K -> Given(text, cols)] :
           Lists(text, cols, K, list, f) /\ (NamedOnce(text, cols) => Growing(f))
<1> DEFINE masked == maskSQLLiterals(text)
           values == findKeyword(masked, "values", 1)
           set == findKeyword(masked, "set", 1)
           insert == resolveInsertColumnArgs(text, masked, values, cols)
           update == resolveUpdateColumnArgs(text, masked, set, cols)
           found == IF values # 0 THEN insert ELSE IF set # 0 THEN update ELSE NoPlan
           plan == resolveHookColumnArgs(text, cols)
           given == Given(text, cols)
<1>1. masked \in Seq(S \cup {Space}) /\ Len(masked) = Len(text)
  BY MaskedIs
<1>2. plan = [found EXCEPT !.idx = dedupeInts(found.idx)]
  BY Zenon DEF resolveHookColumnArgs
<1>3. plan.ok
  OBVIOUS
<1>4. /\ values # 0 => Rectangular(masked, values)
      /\ NamedOnce(text, cols) /\ values # 0 => Cardinality(Wanted(text, masked, values, cols)) <= 1
  BY DEF RowsFit, NamedOnce
<1> HIDE DEF masked, insert, update, plan
<1>5. /\ values = 0 \/ values \in 1 .. Len(text)
      /\ set = 0 \/ set \in 1 .. Len(text)
  <2>1. 1 \in Nat \ {0}
    OBVIOUS
  <2>2. QED
    BY <1>1, <2>1, FoundIs
<1> HIDE DEF values, set
<1>6. insert.ok =>
        insert = [ok |-> TRUE, count |-> placeholderArgCount(masked), idx |-> insert.idx]
  <2> DEFINE wanted == Wanted(text, masked, values, cols)
             rows == Rows(masked, values)
             size == Cardinality(rows)
             args == [n \in 1 .. Cardinality(wanted) * size |->
                        ArgOf(masked, Nth(RowPlaces(masked, Nth(rows, ((n - 1) % size) + 1)),
                                          Nth(wanted, ((n - 1) \div size) + 1)))]
  <2>1. insert = IF ~Shaped(text, masked, values) THEN NoPlan
                 ELSE [ok |-> TRUE, count |-> placeholderArgCount(masked), idx |-> args]
    BY InsertPlan DEF insert
  <2> HIDE DEF args
  <2>2. ~NoPlan.ok
    BY DEF NoPlan
  <2>3. QED
    BY <2>1, <2>2
<1>7. update.ok =>
        update = [ok |-> TRUE, count |-> placeholderArgCount(masked), idx |-> update.idx]
  <2> DEFINE wanted == Assigning(text, masked, set, cols)
             args == [n \in 1 .. Cardinality(wanted) |->
                        ArgOf(masked, Min(AssignedPlaces(masked, set, Nth(wanted, n))))]
  <2>1. update = IF ~SetShaped(text, masked, set, cols) THEN NoPlan
                 ELSE [ok |-> TRUE, count |-> placeholderArgCount(masked), idx |-> args]
    BY UpdatePlan DEF update
  <2> HIDE DEF args
  <2>2. ~NoPlan.ok
    BY DEF NoPlan
  <2>3. QED
    BY <2>1, <2>2
<1>8. /\ found.ok
      /\ found = [ok |-> TRUE, count |-> placeholderArgCount(masked), idx |-> found.idx]
      /\ \/ values # 0 /\ found = insert
         \/ values = 0 /\ set # 0 /\ found = update
  <2>1. NoPlan = [ok |-> FALSE, idx |-> <<>>, count |-> 0]
    BY DEF NoPlan
  <2>2. CASE values # 0
    <3>1. found = insert
      BY <2>2
    <3>2. insert.ok
      <4>1. CASE insert.ok
        BY <4>1
      <4>2. CASE ~insert.ok
        <5>1. insert = NoPlan
          BY <4>2, InsertPlan DEF insert
        <5>2. ~plan.ok
          BY <1>2, <2>1, <3>1, <5>1
        <5>3. QED
          BY <1>3, <5>2
      <4>3. QED
        BY <4>1, <4>2
    <3>3. QED
      BY <1>6, <2>2, <3>1, <3>2
  <2>3. CASE values = 0 /\ set # 0
    <3>1. found = update
      BY <2>3
    <3>2. update.ok
      <4>1. CASE update.ok
        BY <4>1
      <4>2. CASE ~update.ok
        <5>1. update = NoPlan
          BY <4>2, UpdatePlan DEF update
        <5>2. ~plan.ok
          BY <1>2, <2>1, <3>1, <5>1
        <5>3. QED
          BY <1>3, <5>2
      <4>3. QED
        BY <4>1, <4>2
    <3>3. QED
      BY <1>7, <2>3, <3>1, <3>2
  <2>4. CASE values = 0 /\ set = 0
    <3>1. found = NoPlan
      BY <2>4
    <3>2. ~plan.ok
      BY <1>2, <2>1, <3>1
    <3>3. QED
      BY <1>3, <3>2
  <2>5. QED
    BY <2>2, <2>3, <2>4
<1> HIDE DEF found, given
<1>9. plan.idx = dedupeInts(found.idx) /\ plan.count = placeholderArgCount(masked)
  BY <1>2, <1>8
<1>10. \E K \in Nat : \E f \in [1 .. K -> given] :
         /\ DOMAIN found.idx = 1 .. K
         /\ \A k \in 1 .. K : found.idx[k] = ArgOf(masked, f[k]) /\ found.idx[k] > 0
         /\ \A i \in given : \E k \in 1 .. K : f[k] = i
         /\ NamedOnce(text, cols) => Growing(f)
  <2>1. CASE values # 0 /\ found = insert
    <3> DEFINE rows == Rows(masked, values)
               wanted == Wanted(text, masked, values, cols)
               isvalue(i, g, n) == Ink(masked, ValueList(masked, g), n) = {i}
               once == Cardinality(wanted) <= 1
    <3>1. values \in 1 .. Len(text) /\ Rectangular(masked, values) /\ insert.ok
      BY <1>4, <1>5, <1>8, <2>1
    <3>2. given = {i \in Seen(text, Mark) : \E g \in rows, n \in wanted : isvalue(i, g, n)}
      BY <2>1 DEF given, Given, masked, values, set
    <3>3. /\ \E K \in Nat : DOMAIN insert.idx = 1 .. K
          /\ \E f \in [DOMAIN insert.idx -> Seen(text, Mark)] :
               ArgsOfRows(text, masked, values, cols, insert.idx, f)
      BY <3>1, InsertArgsAreValues DEF masked, insert
    <3>4. \A g, n, i, j : isvalue(i, g, n) /\ isvalue(j, g, n) => i = j
      OBVIOUS
    <3>5. NamedOnce(text, cols) => once
      BY <1>4, <2>1
    <3> HIDE DEF rows, wanted, isvalue, once
    <3>6. PICK K \in Nat : DOMAIN insert.idx = 1 .. K
      BY <3>3
    <3>7. PICK f \in [1 .. K -> Seen(text, Mark)] :
            /\ \A k \in 1 .. K :
                 /\ insert.idx[k] = ArgOf(masked, f[k]) /\ insert.idx[k] > 0
                 /\ \E g \in rows, n \in wanted : isvalue(f[k], g, n)
            /\ \A g \in rows, n \in wanted : \E k \in 1 .. K : isvalue(f[k], g, n)
            /\ once => Growing(f)
      <4>1. PICK f \in [1 .. K -> Seen(text, Mark)] :
              ArgsOfRows(text, masked, values, cols, insert.idx, f)
        BY <3>3, <3>6
      <4>2. QED
        BY <3>6, <4>1 DEF ArgsOfRows, rows, wanted, isvalue, once
    <3>8. \A k \in 1 .. K : f[k] \in given
      BY <3>2, <3>7
    <3>9. \A i \in given : \E k \in 1 .. K : f[k] = i
      BY <3>2, <3>4, <3>7
    <3>10. f \in [1 .. K -> given]
      BY <3>8
    <3>11. QED
      BY <2>1, <3>5, <3>6, <3>7, <3>9, <3>10
  <2>2. CASE values = 0 /\ set # 0 /\ found = update
    <3> DEFINE wanted == Assigning(text, masked, set, cols)
               isvalue(i, n) ==
                 {j \in EqualsAt(masked, set)[n] + 1 .. SetList(masked, set)[n][2] :
                    masked[j] \notin Blank} = {i}
    <3>1. set \in 1 .. Len(text) /\ update.ok
      BY <1>5, <1>8, <2>2
    <3>2. given = {i \in Seen(text, Mark) : \E n \in wanted : isvalue(i, n)}
      BY <2>2 DEF given, Given, masked, values, set
    <3>3. /\ \E K \in Nat : DOMAIN update.idx = 1 .. K
          /\ \E f \in [DOMAIN update.idx -> Seen(text, Mark)] :
               /\ \A k \in DOMAIN update.idx :
                    /\ update.idx[k] = ArgOf(masked, f[k]) /\ update.idx[k] > 0
                    /\ \E n \in wanted : isvalue(f[k], n)
               /\ \A n \in wanted : \E k \in DOMAIN update.idx : isvalue(f[k], n)
               /\ Growing(f)
      BY <3>1, UpdateArgsAreValues DEF masked, update
    <3>4. \A n, i, j : isvalue(i, n) /\ isvalue(j, n) => i = j
      OBVIOUS
    <3> HIDE DEF wanted, isvalue
    <3>5. PICK K \in Nat : DOMAIN update.idx = 1 .. K
      BY <3>3
    <3>6. PICK f \in [1 .. K -> Seen(text, Mark)] :
            /\ \A k \in 1 .. K :
                 /\ update.idx[k] = ArgOf(masked, f[k]) /\ update.idx[k] > 0
                 /\ \E n \in wanted : isvalue(f[k], n)
            /\ \A n \in wanted : \E k \in 1 .. K : isvalue(f[k], n)
            /\ Growing(f)
      BY <3>3, <3>5
    <3>7. \A k \in 1 .. K : f[k] \in given
      BY <3>2, <3>6
    <3>8. \A i \in given : \E k \in 1 .. K : f[k] = i
      BY <3>2, <3>4, <3>6
    <3>9. f \in [1 .. K -> given]
      BY <3>7
    <3>10. QED
      BY <2>2, <3>5, <3>6, <3>8, <3>9
  <2>3. QED
    BY <1>8, <2>1, <2>2
<1>11. QED
  BY <1>9, <1>10 DEF Lists, plan, masked, given

\* A plan the engine gets, for whatever text: the arguments it will encrypt, or
\* take for the MAC, are those the text gives to the columns, each once, and no
\* others; and it is a plan for as many arguments as the text has placeholders.
THEOREM PlanIsRight ==
  ASSUME LexAssumption, Numbered \cap Sign = {}, NEW S, NEW text \in Seq(S), NEW cols,
         RowsFit(text), resolveHookColumnArgs(text, cols).ok
  PROVE  LET masked == maskSQLLiterals(text)
             plan == resolveHookColumnArgs(text, cols)
         IN /\ {plan.idx[k] : k \in DOMAIN plan.idx} = {ArgOf(masked, i) : i \in Given(text, cols)}
            /\ \A j, k \in DOMAIN plan.idx : plan.idx[j] = plan.idx[k] => j = k
            /\ \A k \in DOMAIN plan.idx : plan.idx[k] > 0
            /\ plan.count = placeholderArgCount(masked)
<1> DEFINE masked == maskSQLLiterals(text)
           plan == resolveHookColumnArgs(text, cols)
           given == Given(text, cols)
<1>1. PICK K \in Nat : \E list : \E f \in [1 .. K -> Given(text, cols)] : Lists(text, cols, K, list, f)
  BY PlanOfGiven
<1>2. PICK list : \E f \in [1 .. K -> given] :
        /\ DOMAIN list = 1 .. K
        /\ \A k \in 1 .. K : list[k] = ArgOf(masked, f[k]) /\ list[k] > 0
        /\ \A i \in given : \E k \in 1 .. K : f[k] = i
        /\ plan.idx = dedupeInts(list)
        /\ plan.count = placeholderArgCount(masked)
  BY <1>1, Zenon DEF Lists
<1> DEFINE arg == [i \in given |-> ArgOf(masked, i)]
           d == dedupeInts(list)
<1>3. d = plan.idx /\ plan.count = placeholderArgCount(masked) /\ DOMAIN list = 1 .. K
  BY <1>2
<1>4. /\ \A m \in 1 .. K : \E i \in given : list[m] = arg[i] /\ list[m] > 0
      /\ \A i \in given : \E m \in 1 .. K : list[m] = arg[i]
  <2>1. PICK f \in [1 .. K -> given] :
          /\ \A k \in 1 .. K : list[k] = ArgOf(masked, f[k]) /\ list[k] > 0
          /\ \A i \in given : \E k \in 1 .. K : f[k] = i
    BY <1>2
  <2>2. QED
    BY <2>1
<1>5. /\ \A n \in DOMAIN d : \E m \in 1 .. K : d[n] = list[m]
      /\ \A m \in 1 .. K : \E n \in DOMAIN d : d[n] = list[m]
      /\ \A m, n \in DOMAIN d : d[m] = d[n] => m = n
  BY <1>3, DedupedIs
<1> HIDE DEF d, arg
<1>6. \A n \in DOMAIN d : \E i \in given : d[n] = arg[i] /\ d[n] > 0
  <2> TAKE n \in DOMAIN d
  <2>1. PICK m \in 1 .. K : d[n] = list[m]
    BY <1>5
  <2>2. QED
    BY <1>4, <2>1
<1>7. \A i \in given : \E n \in DOMAIN d : d[n] = arg[i]
  <2> TAKE i \in given
  <2>1. PICK m \in 1 .. K : list[m] = arg[i]
    BY <1>4
  <2>2. QED
    BY <1>5, <2>1
<1>8. {d[n] : n \in DOMAIN d} = {ArgOf(masked, i) : i \in given}
  <2>1. \A i \in given : arg[i] = ArgOf(masked, i)
    BY DEF arg
  <2>2. QED
    BY <1>6, <1>7, <2>1
<1>9. \A k \in DOMAIN d : d[k] > 0
  BY <1>6
<1>10. d = plan.idx =>
         /\ {plan.idx[k] : k \in DOMAIN plan.idx} = {ArgOf(masked, i) : i \in given}
         /\ \A j, k \in DOMAIN plan.idx : plan.idx[j] = plan.idx[k] => j = k
         /\ \A k \in DOMAIN plan.idx : plan.idx[k] > 0
  <2> SUFFICES ASSUME d = plan.idx
               PROVE  /\ {d[k] : k \in DOMAIN d} = {ArgOf(masked, i) : i \in given}
                      /\ \A j, k \in DOMAIN d : d[j] = d[k] => j = k
                      /\ \A k \in DOMAIN d : d[k] > 0
    BY Zenon
  <2>1. QED
    BY <1>5, <1>8, <1>9
<1>11. QED
  BY <1>3, <1>10, Zenon DEF plan, masked, given

-----------------------------------------------------------------------------
(* What the plan means for a statement made of parts. *)

\* The parts that give an argument to some columns.
ArgParts(parts, cols) == {n \in DOMAIN parts : parts[n].col \in cols /\ Source(parts, n) > 0}

\* The text means the same columns as the parts: the placeholders that the text
\* gives to the columns are the arguments among their parts.
Aligned(parts, cols) ==
  Given(TextOf(parts), cols) = {Start(parts, n) : n \in ArgParts(parts, cols)}

\* Each argument is for one column, as in ArgumentsFit of UniVerify.
OneColumn(parts) ==
  \A m, n \in ArgParts(parts, Column) :
    Source(parts, m) = Source(parts, n) => parts[m].col = parts[n].col

\* A part that is an argument is one placeholder.
LEMMA ArgIsMark ==
  ASSUME NEW S, NEW parts \in Seq(Part(S)), NEW cols, NEW n \in ArgParts(parts, cols)
  PROVE  \E mark \in Mark : parts[n].text = <<mark>>
<1> DEFINE part == parts[n].text
<1>1. n \in DOMAIN parts /\ Source(parts, n) # 0
  BY DEF ArgParts
<1>2. part \in Seq(S)
  <2>1. parts[n] \in Part(S)
    BY <1>1
  <2> DEFINE T == Seq(S)
  <2>2. parts[n] \in [col : STRING, row : Nat, text : T]
    BY <2>1 DEF Part
  <2> HIDE DEF T
  <2>3. parts[n].text \in T
    BY <2>2
  <2>4. QED
    BY <2>3 DEF T
<1>3. Len(part) = 1 /\ part[1] \in Mark
  BY <1>1 DEF Source
<1> HIDE DEF part
<1>4. part = <<part[1]>>
  BY <1>2, <1>3
<1>5. QED
  BY <1>3, <1>4 DEF part

\* The arguments of a plan are those that the parts give to the columns.
LEMMA PlanOfParts ==
  ASSUME LexAssumption, Numbered \cap Sign = {}, NEW S, NEW parts \in Seq(Part(S)), NEW cols,
         RowsFit(TextOf(parts)), Aligned(parts, cols),
         resolveHookColumnArgs(TextOf(parts), cols).ok
  PROVE  LET plan == resolveHookColumnArgs(TextOf(parts), cols)
         IN /\ {plan.idx[k] : k \in DOMAIN plan.idx} = {Source(parts, n) : n \in ArgParts(parts, cols)}
            /\ \A j, k \in DOMAIN plan.idx : plan.idx[j] = plan.idx[k] => j = k
            /\ plan.count = NumInput(parts)
<1> DEFINE text == TextOf(parts)
           masked == maskSQLLiterals(text)
           plan == resolveHookColumnArgs(text, cols)
           given == Given(text, cols)
<1>1. text \in Seq(S)
  BY TextOfIs
<1>2. RowsFit(text)
  OBVIOUS
<1>3. plan.ok
  OBVIOUS
<1>4. given = {Start(parts, n) : n \in ArgParts(parts, cols)}
  BY DEF Aligned
<1> HIDE DEF text
<1>5. /\ {plan.idx[k] : k \in DOMAIN plan.idx} = {ArgOf(masked, i) : i \in given}
      /\ \A j, k \in DOMAIN plan.idx : plan.idx[j] = plan.idx[k] => j = k
      /\ plan.count = placeholderArgCount(masked)
  BY <1>1, <1>2, <1>3, PlanIsRight
<1>6. plan.count = NumInput(parts)
  BY <1>5, CountIsNumInput DEF text
<1>7. ASSUME NEW n \in ArgParts(parts, cols)
      PROVE  ArgOf(masked, Start(parts, n)) = Source(parts, n)
  <2>1. PICK mark \in Mark : parts[n].text = <<mark>>
    BY ArgIsMark
  <2>2. Start(parts, n) \in given
    BY <1>4
  <2>3. Lexer(text)[Start(parts, n)] = "code"
    BY <2>2 DEF Given, Seen
  <2>4. n \in 1 .. Len(parts)
    BY DEF ArgParts
  <2>5. QED
    BY <2>1, <2>3, <2>4, ArgOfIsSource DEF text
<1> HIDE DEF given, masked
<1>8. {ArgOf(masked, i) : i \in given} = {Source(parts, n) : n \in ArgParts(parts, cols)}
  BY <1>4, <1>7
<1>9. {plan.idx[k] : k \in DOMAIN plan.idx} = {Source(parts, n) : n \in ArgParts(parts, cols)}
  BY <1>5, <1>8
<1> DEFINE distinct == \A j, k \in DOMAIN plan.idx : plan.idx[j] = plan.idx[k] => j = k
<1>10. distinct
  BY <1>5
<1> HIDE DEF distinct
<1>11. QED
  BY <1>6, <1>9, <1>10, Zenon DEF distinct, plan, text

\* The engine seals each argument that its author means for the secret column,
\* once, and no other, and expects as many arguments as the driver; or it
\* refuses the statement.  This is the first part of ParsedRight in UniVerify.
THEOREM SealsAsMeant ==
  ASSUME LexAssumption, Numbered \cap Sign = {}, NEW S, NEW parts \in Seq(Part(S)), NEW op,
         RowsFit(TextOf(parts)), Aligned(parts, {"val"}), OneColumn(parts),
         Summary(op, parts, {"val"}).secret.ok
  PROVE  LET h == Summary(op, parts, {"val"})
         IN /\ DOMAIN h.roles = 1 .. h.secret.count
            /\ \A i \in DOMAIN h.roles :
                 Cardinality({n \in DOMAIN h.secret.idx : h.secret.idx[n] = i})
                   = IF h.roles[i].col = "val" THEN 1 ELSE 0
<1> DEFINE h == Summary(op, parts, {"val"})
           text == TextOf(parts)
           plan == resolveHookColumnArgs(text, {"val"})
           users(i) == {n \in DOMAIN parts : parts[n].col \in Column /\ Source(parts, n) = i}
           role == [i \in 1 .. NumInput(parts) |->
                      IF users(i) = {} THEN [col |-> "", row |-> 1]
                      ELSE [col |-> parts[Min(users(i))].col,
                            row |-> Max({1, parts[Min(users(i))].row})]]
<1>1. h.secret = plan /\ h.roles = role
  <2> DEFINE last == Max({parts[n].row : n \in DOMAIN parts})
             rows == [r \in 1 .. last |-> [key |-> SourceOf(parts, r, "key"), val |-> SourceOf(parts, r, "val"),
                                           mac |-> SourceOf(parts, r, "mac")]]
  <2>1. h = [op |-> op, roles |-> role, rows |-> rows, tail |-> SourceOf(parts, 0, "val"),
             mac |-> resolveHookColumnArgs(text, {"mac"}), secret |-> plan]
    BY Zenon DEF Summary
  <2> HIDE DEF h, role, rows, plan
  <2>2. QED
    BY <2>1
<1>2. plan.ok
  <2>1. h.secret.ok
    OBVIOUS
  <2> HIDE DEF h, plan
  <2>2. QED
    BY <1>1, <2>1
<1>3. /\ {plan.idx[k] : k \in DOMAIN plan.idx} = {Source(parts, n) : n \in ArgParts(parts, {"val"})}
      /\ \A j, k \in DOMAIN plan.idx : plan.idx[j] = plan.idx[k] => j = k
      /\ plan.count = NumInput(parts)
  BY <1>2, PlanOfParts
<1> HIDE DEF h, plan, text
<1>4. DOMAIN role = 1 .. plan.count
  BY <1>3
<1>5. ASSUME NEW i \in DOMAIN role
      PROVE  role[i].col = "val" <=> \E n \in ArgParts(parts, {"val"}) : Source(parts, n) = i
  <2>1. i \in 1 .. NumInput(parts) /\ i \in Nat /\ i > 0
    OBVIOUS
  <2>2. role[i] = IF users(i) = {} THEN [col |-> "", row |-> 1]
                  ELSE [col |-> parts[Min(users(i))].col,
                        row |-> Max({1, parts[Min(users(i))].row})]
    BY <2>1
  <2> HIDE DEF role
  <2>3. users(i) \subseteq Nat /\ \A n \in users(i) : n \in ArgParts(parts, Column) /\ Source(parts, n) = i
    BY <2>1 DEF ArgParts
  <2>4. \A n \in ArgParts(parts, {"val"}) : Source(parts, n) = i => n \in users(i) /\ parts[n].col = "val"
    BY DEF ArgParts, Column
  <2>5. \A n \in users(i) : parts[n].col = "val" => n \in ArgParts(parts, {"val"})
    BY <2>1 DEF ArgParts
  <2> HIDE DEF users
  <2>6. CASE users(i) = {}
    <3>1. role[i] = [col |-> "", row |-> 1]
      BY <2>2, <2>6, Zenon
    <3>2. "" # "val"
      BY Zenon
    <3>3. role[i].col # "val"
      <4>1. \A a : [col |-> a, row |-> 1].col = a
        OBVIOUS
      <4>2. QED
        BY <3>1, <3>2, <4>1, Zenon
    <3>4. QED
      BY <2>4, <2>6, <3>3
  <2>7. CASE users(i) # {}
    <3> DEFINE m == Min(users(i))
    <3>1. m \in users(i)
      BY <2>3, <2>7, MinIs
    <3>2. role[i].col = parts[m].col
      <4>1. role[i] = [col |-> parts[m].col, row |-> Max({1, parts[m].row})]
        BY <2>2, <2>7, Zenon
      <4> HIDE DEF m
      <4>2. QED
        BY <4>1
    <3> HIDE DEF m
    <3>3. \A n \in users(i) : parts[n].col = parts[m].col
      BY <2>3, <3>1 DEF OneColumn
    <3>4. QED
      BY <2>3, <2>4, <2>5, <3>1, <3>2, <3>3
  <2>8. QED
    BY <2>6, <2>7
<1> HIDE DEF role
<1>6. ASSUME NEW i \in DOMAIN role
      PROVE  Cardinality({n \in DOMAIN plan.idx : plan.idx[n] = i}) = IF role[i].col = "val" THEN 1 ELSE 0
  <2> DEFINE found == {n \in DOMAIN plan.idx : plan.idx[n] = i}
  <2>1. CASE role[i].col = "val"
    <3>1. PICK m \in DOMAIN plan.idx : plan.idx[m] = i
      BY <1>3, <1>5, <2>1
    <3>2. found = {m}
      BY <1>3, <3>1
    <3>3. Cardinality({m}) = 1
      BY FS_Singleton
    <3>4. QED
      BY <2>1, <3>2, <3>3
  <2>2. CASE role[i].col # "val"
    <3>1. found = {}
      BY <1>3, <1>5, <2>2
    <3>2. Cardinality({}) = 0
      BY FS_EmptySet
    <3>3. QED
      BY <2>2, <3>1, <3>2
  <2>3. QED
    BY <2>1, <2>2
<1>7. h.secret = plan /\ h.roles = role
  BY <1>1
<1>8. QED
  BY <1>4, <1>6, <1>7 DEF h

\* Nothing is lost if nothing is doubled.
LEMMA DedupedSame ==
  ASSUME NEW K \in Nat, NEW list, DOMAIN list = 1 .. K, Len(dedupeInts(list)) >= K
  PROVE  /\ DOMAIN dedupeInts(list) = 1 .. K
         /\ \A k \in 1 .. K : dedupeInts(list)[k] = list[k]
<1> DEFINE P == {n \in DOMAIN list : \A m \in 1 .. n - 1 : list[m] # list[n]}
           c == Cardinality(P)
           d == dedupeInts(list)
<1>1. IsFiniteSet(1 .. K) /\ Cardinality(1 .. K) = K /\ 1 .. K \subseteq Nat
  <2>1. 1 \in Int /\ K \in Int
    OBVIOUS
  <2>2. IsFiniteSet(1 .. K) /\ Cardinality(1 .. K) = IF 1 > K THEN 0 ELSE K - 1 + 1
    BY <2>1, FS_Interval
  <2>3. QED
    BY <2>2
<1>2. P \in SUBSET (1 .. K)
  OBVIOUS
<1>3. d = [n \in 1 .. c |-> list[Nth(P, n)]]
  BY DEF dedupeInts, TextAt
<1> HIDE DEF P, d
<1>4. IsFiniteSet(P) /\ c \in Nat /\ c <= K
  <2>1. IsFiniteSet(P) /\ Cardinality(P) <= Cardinality(1 .. K)
    BY <1>1, <1>2, FS_Subset
  <2>2. QED
    BY <1>1, <2>1, CardinalityNat
<1>5. Len(d) = c
  BY <1>3, <1>4
<1>6. Len(d) >= K
  BY DEF d
<1> HIDE DEF c
<1>7. c = K
  BY <1>4, <1>5, <1>6
<1>8. P = 1 .. K
  <2> DEFINE I == 1 .. K
  <2>1. IsFiniteSet(I) /\ P \in SUBSET I /\ Cardinality(P) = Cardinality(I)
    BY <1>1, <1>2, <1>7 DEF c
  <2> HIDE DEF I
  <2>2. I \ P = {}
    <3>1. ASSUME NEW x \in I, x \notin P PROVE FALSE
      <4>1. Cardinality(I \ {x}) = Cardinality(I) - 1 /\ IsFiniteSet(I \ {x})
        BY <2>1, FS_RemoveElement
      <4>2. P \in SUBSET (I \ {x})
        BY <2>1, <3>1
      <4>3. Cardinality(P) <= Cardinality(I \ {x})
        BY <4>1, <4>2, FS_Subset
      <4>4. Cardinality(I) \in Nat
        BY <2>1, CardinalityNat
      <4>5. QED
        BY <2>1, <4>1, <4>3, <4>4
    <3>2. QED
      BY <3>1
  <2>3. P = I
    BY <2>1, <2>2
  <2>4. QED
    BY <2>3 DEF I
<1>9. \A n \in 1 .. K : n = Nth(P, n)
  <2> DEFINE h == [n \in 1 .. K |-> n]
  <2>1. h \in [1 .. K -> P] /\ \A m, n \in 1 .. K : m < n => h[m] < h[n]
    BY <1>8
  <2>2. P \subseteq Nat /\ IsFiniteSet(P) /\ K = Cardinality(P)
    BY <1>1, <1>8
  <2> HIDE DEF h
  <2>3. \A n \in 1 .. K : h[n] = Nth(P, n)
    BY <2>1, <2>2, OneOfEach
  <2>4. QED
    BY <2>3 DEF h
<1>10. DOMAIN d = 1 .. K /\ \A k \in 1 .. K : d[k] = list[k]
  BY <1>3, <1>7, <1>9
<1>11. QED
  BY <1>10 DEF d

\* A row gets a column at most once, and the rows come in their order.
OncePerRow(parts, col) ==
  /\ \A n \in DOMAIN parts : parts[n].col = col => parts[n].row > 0
  /\ \A m, n \in DOMAIN parts :
       parts[m].col = col /\ parts[n].col = col /\ m < n => parts[m].row < parts[n].row

\* Parts that are not empty begin one after the other.
LEMMA StartGrows ==
  ASSUME NEW S, NEW parts \in Seq(Part(S)), NEW m \in 1 .. Len(parts), NEW n \in 1 .. Len(parts),
         m < n, Len(parts[m].text) > 0
  PROVE  Start(parts, m) < Start(parts, n) /\ Start(parts, m) \in Nat /\ Start(parts, n) \in Nat
<1> DEFINE texts == Texts(parts)
           N == Len(parts)
           F(k) == Front(texts, k)
<1>1. /\ texts \in Seq(Seq(S)) /\ Len(texts) = N /\ N \in Nat
      /\ \A k \in 0 .. N : TextOf(SubSeq(parts, 1, k)) = F(k)
  BY TextOfIs
<1>2. texts[m] = parts[m].text /\ m \in 1 .. N /\ n \in 1 .. N
  BY DEF Texts
<1> HIDE DEF texts, N
<1>3. m - 1 \in 0 .. N /\ n - 1 \in 0 .. N /\ m \in 0 .. N /\ m \in Nat /\ n - 1 \in m .. N
  BY <1>1, <1>2
<1>4. \A k \in 0 .. N : F(k) \in Seq(S) /\ Len(F(k)) \in Nat
  <2>1. \A k \in 0 .. N : F(k) \in Seq(S)
    BY <1>1, FrontIs
  <2> HIDE DEF F
  <2>2. QED
    BY <2>1
<1>5. F(m) = F(m - 1) \o texts[m] /\ texts[m] \in Seq(S)
  <2>1. F(m) = F(m - 1) \o texts[m]
    BY <1>1, <1>2, FrontIs
  <2> DEFINE T == Seq(S)
  <2>2. texts \in Seq(T) /\ m \in 1 .. Len(texts)
    BY <1>1, <1>2
  <2> HIDE DEF T
  <2>3. texts[m] \in T
    BY <2>2
  <2>4. QED
    BY <2>1, <2>3 DEF T
<1>6. Len(F(m)) > Len(F(m - 1))
  <2>1. Len(texts[m]) > 0 /\ Len(texts[m]) \in Nat
    BY <1>2, <1>5
  <2>2. F(m - 1) \in Seq(S) /\ Len(F(m - 1)) \in Nat
    BY <1>3, <1>4
  <2> HIDE DEF F
  <2>3. Len(F(m)) = Len(F(m - 1)) + Len(texts[m])
    BY <1>5, <2>2
  <2> DEFINE x == Len(F(m))
             y == Len(F(m - 1))
             z == Len(texts[m])
  <2>4. x = y + z /\ z > 0 /\ z \in Nat /\ y \in Nat
    BY <2>1, <2>2, <2>3
  <2> HIDE DEF x, y, z
  <2>5. x > y
    BY <2>4
  <2>6. QED
    BY <2>5 DEF x, y
<1>7. \A k \in m .. N : Len(F(k)) >= Len(F(m))
  <2> DEFINE T == {k \in Nat : k \in m .. N => Len(F(k)) >= Len(F(m))}
  <2>1. 0 \in T
    BY <1>3, <1>4
  <2>2. ASSUME NEW k \in Nat, k \in T PROVE k + 1 \in T
    <3>1. SUFFICES ASSUME k + 1 \in m .. N, k + 1 # m PROVE Len(F(k + 1)) >= Len(F(m))
      BY <1>3, <1>4
    <3>2. k \in m .. N /\ k \in 0 .. N /\ k + 1 \in 1 .. N /\ (k + 1) - 1 = k
      BY <1>1, <1>3, <3>1
    <3>3. Len(F(k)) >= Len(F(m))
      BY <2>2, <3>2
    <3>4. F(k + 1) = F(k) \o texts[k + 1] /\ F(k) \in Seq(S) /\ F(k + 1) \in Seq(S)
      <4>1. F(k + 1) = F((k + 1) - 1) \o texts[k + 1]
        BY <1>1, <3>2, FrontIs
      <4>2. F(k + 1) = F(k) \o texts[k + 1]
        BY <3>2, <4>1
      <4>3. k \in 0 .. N /\ k + 1 \in 0 .. N
        BY <1>1, <3>2
      <4> HIDE DEF F
      <4>4. F(k) \in Seq(S) /\ F(k + 1) \in Seq(S)
        BY <1>4, <4>3
      <4>5. QED
        BY <4>2, <4>4
    <3>5. texts[k + 1] \in Seq(S)
      <4> DEFINE U == Seq(S)
      <4>1. texts \in Seq(U) /\ k + 1 \in 1 .. Len(texts)
        BY <1>1, <3>2
      <4> HIDE DEF U
      <4>2. texts[k + 1] \in U
        BY <4>1
      <4>3. QED
        BY <4>2 DEF U
    <3> HIDE DEF F
    <3>6. Len(F(k + 1)) = Len(F(k)) + Len(texts[k + 1]) /\ Len(texts[k + 1]) \in Nat
      BY <3>4, <3>5
    <3>7. Len(F(k)) \in Nat /\ Len(F(m)) \in Nat
      BY <1>3, <1>4, <3>2 DEF F
    <3>8. QED
      BY <3>3, <3>6, <3>7
  <2>3. Nat \subseteq T
    <3> HIDE DEF T
    <3>1. QED
      BY <2>1, <2>2, SetInduction
  <2>4. QED
    BY <1>1, <1>3, <2>3
<1>8. /\ Start(parts, m) = Len(F(m - 1)) + 1 /\ Start(parts, n) = Len(F(n - 1)) + 1
  BY <1>1, <1>3 DEF Start
<1>9. Len(F(n - 1)) >= Len(F(m))
  BY <1>3, <1>7
<1>10. Len(F(m)) \in Nat /\ Len(F(m - 1)) \in Nat /\ Len(F(n - 1)) \in Nat
  BY <1>3, <1>4
<1> HIDE DEF F
<1>11. QED
  BY <1>6, <1>8, <1>9, <1>10

\* A growing sequence of all of some positions counts them.
LEMMA GrowingOnto ==
  ASSUME NEW P, P \subseteq Nat, NEW K \in Nat, NEW f \in [1 .. K -> P], Growing(f),
         \A i \in P : \E k \in 1 .. K : f[k] = i
  PROVE  IsFiniteSet(P) /\ Cardinality(P) = K /\ \A k \in 1 .. K : f[k] = Nth(P, k)
<1>1. \A j, k \in 1 .. K : j < k => f[j] < f[k]
  BY DEF Growing
<1>2. \A j, k \in 1 .. K : f[j] = f[k] => j = k
  <2>1. TAKE j, k \in 1 .. K
  <2>2. j < k \/ k < j \/ j = k
    OBVIOUS
  <2>3. f[j] \in Nat /\ f[k] \in Nat
    OBVIOUS
  <2>4. QED
    BY <1>1, <2>2, <2>3
<1>3. IsFiniteSet(1 .. K) /\ Cardinality(1 .. K) = K
  <2>1. 1 \in Int /\ K \in Int
    OBVIOUS
  <2>2. IsFiniteSet(1 .. K) /\ Cardinality(1 .. K) = IF 1 > K THEN 0 ELSE K - 1 + 1
    BY <2>1, FS_Interval
  <2>3. QED
    BY <2>2
<1>4. f \in Bijection(1 .. K, P)
  <2>1. f \in Injection(1 .. K, P)
    BY <1>2 DEF Injection, IsInjective
  <2>2. f \in Surjection(1 .. K, P)
    BY DEF Surjection
  <2>3. QED
    BY <2>1, <2>2 DEF Bijection
<1>5. IsFiniteSet(P) /\ Cardinality(P) = K
  <2>1. ExistsBijection(1 .. K, P)
    BY <1>4 DEF ExistsBijection
  <2>2. QED
    BY <1>3, <2>1, FS_Bijection
<1>6. \A k \in 1 .. K : f[k] = Nth(P, k)
  BY <1>1, <1>5, OneOfEach
<1>7. QED
  BY <1>5, <1>6

\* The rows of a statement are counted up to the last.
LEMMA RowsAre ==
  ASSUME NEW S, NEW parts \in Seq(Part(S)), Len(parts) > 0
  PROVE  LET last == Max({parts[n].row : n \in DOMAIN parts})
         IN last \in Nat /\ \A n \in DOMAIN parts : parts[n].row \in Nat /\ parts[n].row <= last
<1> DEFINE N == Len(parts)
           R == {parts[n].row : n \in DOMAIN parts}
           f == [n \in 1 .. N |-> parts[n].row]
<1>1. N \in Nat /\ N > 0 /\ DOMAIN parts = 1 .. N
  OBVIOUS
<1>2. \A n \in 1 .. N : parts[n].row \in Nat
  <2>1. TAKE n \in 1 .. N
  <2>2. parts[n] \in Part(S)
    OBVIOUS
  <2> DEFINE T == Seq(S)
  <2>3. parts[n] \in [col : STRING, row : Nat, text : T]
    BY <2>2 DEF Part
  <2> HIDE DEF T
  <2>4. QED
    BY <2>3
<1>3. R \subseteq Nat /\ 1 \in 1 .. N
  BY <1>1, <1>2
<1>4. R # {} /\ \A n \in 1 .. N : parts[n].row \in R
  BY <1>1, <1>3
<1>5. f \in Surjection(1 .. N, R)
  <2>1. f \in [1 .. N -> R] /\ \A r \in R : \E n \in 1 .. N : f[n] = r
    BY <1>1
  <2> HIDE DEF f, R
  <2>2. QED
    BY <2>1 DEF Surjection
<1>6. IsFiniteSet(1 .. N)
  BY <1>1, FS_Interval
<1> HIDE DEF f, N, R
<1>7. IsFiniteSet(R)
  BY <1>5, <1>6, FS_Surjection
<1>8. Max(R) \in R /\ \A r \in R : r <= Max(R)
  BY <1>3, <1>4, <1>7, MaxIs
<1>9. Max(R) \in Nat /\ \A n \in 1 .. N : parts[n].row \in Nat /\ parts[n].row <= Max(R)
  BY <1>2, <1>3, <1>4, <1>8
<1>10. QED
  BY <1>1, <1>9 DEF R

\* The arguments of the rows.
RowsOf(parts) ==
  [r \in 1 .. Max({parts[n].row : n \in DOMAIN parts}) |->
     [key |-> SourceOf(parts, r, "key"), val |-> SourceOf(parts, r, "val"), mac |-> SourceOf(parts, r, "mac")]]

\* The fields of a summary.
LEMMA SummaryIs ==
  ASSUME NEW op, NEW parts, NEW secrets
  PROVE  /\ Summary(op, parts, secrets).mac = resolveHookColumnArgs(TextOf(parts), {"mac"})
         /\ Summary(op, parts, secrets).secret = resolveHookColumnArgs(TextOf(parts), secrets)
         /\ Summary(op, parts, secrets).tail = SourceOf(parts, 0, "val")
         /\ Summary(op, parts, secrets).rows = RowsOf(parts)
<1> DEFINE users(i) == {n \in DOMAIN parts : parts[n].col \in Column /\ Source(parts, n) = i}
           role == [i \in 1 .. NumInput(parts) |->
                      IF users(i) = {} THEN [col |-> "", row |-> 1]
                      ELSE [col |-> parts[Min(users(i))].col,
                            row |-> Max({1, parts[Min(users(i))].row})]]
           rows == RowsOf(parts)
           tail == SourceOf(parts, 0, "val")
           mac == resolveHookColumnArgs(TextOf(parts), {"mac"})
           secret == resolveHookColumnArgs(TextOf(parts), secrets)
<1>1. Summary(op, parts, secrets)
        = [op |-> op, roles |-> role, rows |-> rows, tail |-> tail, mac |-> mac, secret |-> secret]
  BY Zenon DEF Summary, RowsOf
<1> HIDE DEF role, rows, tail, mac, secret
<1>2. /\ Summary(op, parts, secrets).mac = mac /\ Summary(op, parts, secrets).secret = secret
      /\ Summary(op, parts, secrets).tail = tail /\ Summary(op, parts, secrets).rows = rows
  BY <1>1
<1>3. QED
  BY <1>2, Zenon DEF mac, secret, tail, rows

\* The MACs that the engine finds in a statement, if there are as many as rows,
\* are those of the rows, in their order, whatever the number of rows and the
\* way arguments are numbered.  This is the second part of ParsedRight.
THEOREM MacsAsMeant ==
  ASSUME LexAssumption, Numbered \cap Sign = {}, NEW S, NEW parts \in Seq(Part(S)), Len(parts) > 0,
         NEW op, NEW secrets,
         RowsFit(TextOf(parts)), NamedOnce(TextOf(parts), {"mac"}),
         Aligned(parts, {"mac"}), OncePerRow(parts, "mac"),
         Summary(op, parts, secrets).mac.ok,
         Len(Summary(op, parts, secrets).mac.idx) = Len(Summary(op, parts, secrets).rows)
  PROVE  LET h == Summary(op, parts, secrets)
         IN \A n \in DOMAIN h.rows : h.mac.idx[n] = h.rows[n].mac
<1> DEFINE h == Summary(op, parts, secrets)
           text == TextOf(parts)
           masked == maskSQLLiterals(text)
           given == Given(text, {"mac"})
           plan == resolveHookColumnArgs(text, {"mac"})
           last == Max({parts[n].row : n \in DOMAIN parts})
           A == ArgParts(parts, {"mac"})
           c == Cardinality(A)
           part(k) == Nth(A, k)
<1>1. /\ h.mac = plan /\ DOMAIN h.rows = 1 .. last /\ h.rows = [r \in 1 .. last |-> h.rows[r]]
      /\ \A r \in 1 .. last : h.rows[r].mac = SourceOf(parts, r, "mac")
  <2> DEFINE rows == RowsOf(parts)
  <2>1. h.mac = plan /\ h.rows = rows
    BY SummaryIs
  <2>2. DOMAIN rows = 1 .. last /\ \A r \in 1 .. last : rows[r].mac = SourceOf(parts, r, "mac")
    BY DEF RowsOf
  <2>3. rows = [r \in 1 .. last |-> rows[r]]
    BY DEF RowsOf
  <2> HIDE DEF rows, h, last, plan
  <2>4. QED
    BY <2>1, <2>2, <2>3
<1>2. last \in Nat /\ \A n \in DOMAIN parts : parts[n].row \in Nat /\ parts[n].row <= last
  BY RowsAre
<1>3. plan.ok /\ Len(plan.idx) = last
  <2>1. h.mac.ok /\ Len(h.mac.idx) = Len(h.rows)
    OBVIOUS
  <2> HIDE DEF h, plan, last
  <2>2. Len(h.rows) = last
    BY <1>1, <1>2
  <2>3. QED
    BY <1>1, <2>1, <2>2
<1>4. text \in Seq(S) /\ RowsFit(text) /\ NamedOnce(text, {"mac"})
  BY TextOfIs
<1> HIDE DEF h, text, last
<1>5. PICK K \in Nat : \E list : \E f \in [1 .. K -> given] :
        Lists(text, {"mac"}, K, list, f) /\ Growing(f)
  BY <1>3, <1>4, PlanOfGiven
<1>6. PICK list : \E f \in [1 .. K -> given] :
        Lists(text, {"mac"}, K, list, f) /\ Growing(f)
  BY <1>5
<1>7. PICK f \in [1 .. K -> given] : Lists(text, {"mac"}, K, list, f) /\ Growing(f)
  BY <1>6
<1>8. /\ DOMAIN list = 1 .. K
      /\ \A k \in 1 .. K : list[k] = ArgOf(masked, f[k])
      /\ \A i \in given : \E k \in 1 .. K : f[k] = i
      /\ plan.idx = dedupeInts(list)
  BY <1>7 DEF Lists
<1>9. given = {Start(parts, n) : n \in A}
  BY DEF Aligned, text
<1>10. given \subseteq Nat
  <2>1. given \subseteq DOMAIN text
    BY DEF Given, Seen
  <2> HIDE DEF given
  <2>2. QED
    BY <1>4, <2>1
<1>11. /\ A \subseteq 1 .. Len(parts) /\ A \subseteq Nat /\ IsFiniteSet(A) /\ c \in Nat
       /\ \A n \in A : parts[n].col = "mac"
  <2>1. A \subseteq 1 .. Len(parts) /\ \A n \in A : parts[n].col = "mac"
    BY DEF ArgParts
  <2>2. IsFiniteSet(1 .. Len(parts)) /\ 1 .. Len(parts) \subseteq Nat
    <3>1. 1 \in Int /\ Len(parts) \in Int
      OBVIOUS
    <3>2. IsFiniteSet(1 .. Len(parts))
      BY <3>1, FS_Interval
    <3>3. QED
      BY <3>2
  <2> HIDE DEF A
  <2>3. IsFiniteSet(A)
    BY <2>1, <2>2, FS_Subset
  <2>4. QED
    BY <2>1, <2>2, <2>3, CardinalityNat
<1>12. ASSUME NEW n \in A
       PROVE  ArgOf(masked, Start(parts, n)) = Source(parts, n) /\ Len(parts[n].text) > 0
  <2>1. PICK mark \in Mark : parts[n].text = <<mark>>
    BY ArgIsMark
  <2>2. Start(parts, n) \in given
    BY <1>9
  <2>3. Lexer(text)[Start(parts, n)] = "code"
    BY <2>2 DEF Given, Seen
  <2>4. n \in 1 .. Len(parts)
    BY <1>11
  <2>5. ArgOf(masked, Start(parts, n)) = Source(parts, n)
    BY <2>1, <2>3, <2>4, ArgOfIsSource DEF text
  <2>6. QED
    BY <2>1, <2>5
<1> HIDE DEF given, masked, plan, A, c
<1>13. \A n \in A : n \in DOMAIN parts /\ n \in Nat /\ parts[n].row > 0
  <2>1. TAKE n \in A
  <2>2. n \in 1 .. Len(parts) /\ n \in Nat /\ parts[n].col = "mac"
    BY <1>11
  <2>3. n \in DOMAIN parts
    BY <2>2
  <2>4. QED
    BY <2>2, <2>3 DEF OncePerRow
<1>14. \A m, n \in A : m < n => parts[m].row < parts[n].row
  <2>1. \A n \in A : parts[n].col = "mac"
    BY <1>11
  <2>2. QED
    BY <1>13, <2>1 DEF OncePerRow
<1>15. ASSUME NEW j \in 1 .. c, NEW k \in 1 .. c, j < k
       PROVE  Start(parts, part(j)) < Start(parts, part(k)) /\ parts[part(j)].row < parts[part(k)].row
  <2>1. part(j) \in A /\ part(k) \in A /\ part(j) < part(k)
    BY <1>11, <1>15, NthIn, NthMonotone DEF c
  <2> HIDE DEF part
  <2>2. Start(parts, part(j)) < Start(parts, part(k))
    BY <1>11, <1>12, <2>1, StartGrows
  <2>3. QED
    BY <1>14, <2>1, <2>2
<1>16. \A k \in 1 .. c : part(k) \in A
  BY <1>11, NthIn DEF c
<1> DEFINE g == [k \in 1 .. c |-> Start(parts, part(k))]
<1>17. g \in [1 .. c -> given] /\ Growing(g) /\ \A i \in given : \E k \in 1 .. c : g[k] = i
  <2>1. g \in [1 .. c -> given]
    BY <1>9, <1>16
  <2>2. Growing(g)
    <3> HIDE DEF part
    <3>1. QED
      BY <1>15 DEF Growing
  <2>3. ASSUME NEW n \in A PROVE \E k \in 1 .. c : part(k) = n
    <3> DEFINE r == Cardinality(Below(A, n))
    <3>1. r \in 0 .. c - 1 /\ part(r + 1) = n
      BY <1>11, RankType, NthOfRank DEF c
    <3> HIDE DEF r, part
    <3>2. r + 1 \in 1 .. c
      BY <1>11, <3>1
    <3>3. QED
      BY <3>1, <3>2
  <2>4. \A i \in given : \E k \in 1 .. c : g[k] = i
    <3>1. TAKE i \in given
    <3>2. PICK n \in A : i = Start(parts, n)
      BY <1>9
    <3>3. PICK k \in 1 .. c : part(k) = n
      BY <2>3
    <3> HIDE DEF part
    <3>4. QED
      BY <3>2, <3>3
  <2>5. QED
    BY <2>1, <2>2, <2>4
<1> HIDE DEF g
<1>18. K = c /\ \A k \in 1 .. K : f[k] = g[k]
  <2>1. Cardinality(given) = K /\ \A k \in 1 .. K : f[k] = Nth(given, k)
    BY <1>7, <1>8, <1>10, GrowingOnto
  <2>2. Cardinality(given) = c /\ \A k \in 1 .. c : g[k] = Nth(given, k)
    <3>1. c \in Nat
      BY <1>11
    <3>2. g \in [1 .. c -> given] /\ Growing(g)
      BY <1>17
    <3>3. \A i \in given : \E k \in 1 .. c : g[k] = i
      BY <1>17
    <3>4. QED
      BY <1>10, <3>1, <3>2, <3>3, GrowingOnto, ZenonT(60)
  <2>3. QED
    BY <2>1, <2>2
<1>19. \A k \in 1 .. K : list[k] = Source(parts, part(k))
  <2>1. TAKE k \in 1 .. K
  <2>2. f[k] = Start(parts, part(k)) /\ part(k) \in A
    BY <1>16, <1>18 DEF g
  <2>3. QED
    BY <1>8, <1>12, <2>2
<1> DEFINE r == [k \in 1 .. K |-> parts[part(k)].row]
<1>20. r \in [1 .. K -> 1 .. last] /\ \A j, k \in 1 .. K : j < k => r[j] < r[k]
  <2>1. \A k \in 1 .. K : parts[part(k)].row \in 1 .. last
    <3>1. TAKE k \in 1 .. K
    <3>2. part(k) \in A
      BY <1>16, <1>18
    <3> HIDE DEF part
    <3>3. parts[part(k)].row > 0 /\ parts[part(k)].row \in Nat /\ parts[part(k)].row <= last
      BY <1>2, <1>13, <3>2
    <3>4. QED
      BY <1>2, <3>3
  <2>2. \A j, k \in 1 .. K : j < k => parts[part(j)].row < parts[part(k)].row
    BY <1>15, <1>18
  <2> HIDE DEF part
  <2>3. QED
    BY <2>1, <2>2
<1> HIDE DEF r
<1>21. K <= last
  <2>1. r \in Injection(1 .. K, 1 .. last)
    <3>1. ASSUME NEW j \in 1 .. K, NEW k \in 1 .. K, r[j] = r[k] PROVE j = k
      <4>1. j < k \/ k < j \/ j = k
        OBVIOUS
      <4>2. r[j] \in Nat /\ r[k] \in Nat
        BY <1>2, <1>20
      <4>3. QED
        BY <1>20, <3>1, <4>1, <4>2
    <3>2. QED
      BY <1>20, <3>1 DEF Injection, IsInjective
  <2>2. /\ IsFiniteSet(1 .. last) /\ Cardinality(1 .. last) = last
        /\ Cardinality(1 .. K) = K
    <3>1. 1 \in Int /\ K \in Int /\ last \in Int
      BY <1>2
    <3>2. /\ IsFiniteSet(1 .. last) /\ Cardinality(1 .. last) = IF 1 > last THEN 0 ELSE last - 1 + 1
          /\ Cardinality(1 .. K) = IF 1 > K THEN 0 ELSE K - 1 + 1
      BY <3>1, FS_Interval
    <3>3. QED
      BY <1>2, <3>2
  <2>3. Cardinality(1 .. K) <= Cardinality(1 .. last)
    BY <2>1, <2>2, FS_Injection
  <2>4. QED
    BY <2>2, <2>3
<1>22. K = last /\ \A k \in 1 .. K : plan.idx[k] = list[k]
  <2>1. Len(dedupeInts(list)) >= K
    BY <1>2, <1>3, <1>8, <1>21
  <2>2. DOMAIN plan.idx = 1 .. K /\ \A k \in 1 .. K : plan.idx[k] = list[k]
    BY <1>8, <2>1, DedupedSame
  <2>3. Len(plan.idx) = K
    <3> DEFINE idx == plan.idx
    <3>1. idx = dedupeInts(list) /\ DOMAIN idx = 1 .. K
      BY <1>8, <2>2
    <3>2. QED
      BY <2>2 
  <2>4. QED
    BY <1>3, <2>2, <2>3
<1>23. \A k \in 1 .. last : r[k] = k
  <2>1. r \in [1 .. last -> 1 .. last] /\ \A j, k \in 1 .. last : j < k => r[j] < r[k]
    BY <1>20, <1>22
  <2>2. QED
    BY <1>2, <2>1, GrowingIs
<1>24. ASSUME NEW k \in 1 .. last PROVE plan.idx[k] = SourceOf(parts, k, "mac")
  <2> DEFINE here == {n \in DOMAIN parts : parts[n].row = k /\ parts[n].col = "mac"}
  <2>1. k \in 1 .. K /\ part(k) \in A
    BY <1>16, <1>18, <1>22
  <2>2. parts[part(k)].row = k
    BY <1>23, <2>1 DEF r
  <2> HIDE DEF part
  <2>3. part(k) \in DOMAIN parts /\ parts[part(k)].col = "mac" /\ part(k) \in Nat
    BY <1>11, <1>13, <2>1
  <2>4. here = {part(k)}
    <3>1. ASSUME NEW n \in here PROVE n = part(k)
      <4>1. n \in DOMAIN parts /\ parts[n].row = k /\ parts[n].col = "mac" /\ n \in Nat
        OBVIOUS
      <4>2. n < part(k) => parts[n].row < parts[part(k)].row
        BY <2>3, <4>1 DEF OncePerRow
      <4>3. part(k) < n => parts[part(k)].row < parts[n].row
        BY <2>3, <4>1 DEF OncePerRow
      <4>4. k \in Nat
        OBVIOUS
      <4>5. QED
        BY <2>2, <2>3, <4>1, <4>2, <4>3, <4>4
    <3>2. part(k) \in here
      BY <2>2, <2>3
    <3> HIDE DEF here
    <3>3. QED
      BY <3>1, <3>2
  <2>5. Max({part(k)}) = part(k)
    <3>1. IsFiniteSet({part(k)}) /\ {part(k)} \subseteq Nat /\ {part(k)} # {}
      BY <2>3, FS_Singleton
    <3>2. Max({part(k)}) \in {part(k)}
      BY <3>1, MaxIs
    <3>3. QED
      BY <3>2
  <2>6. SourceOf(parts, k, "mac") = Source(parts, part(k))
    <3>1. SourceOf(parts, k, "mac") = IF here = {} THEN -1 ELSE Source(parts, Max(here))
      BY DEF SourceOf
    <3> HIDE DEF here
    <3>2. QED
      BY <2>4, <2>5, <3>1
  <2>7. QED
    BY <1>19, <1>22, <2>1, <2>6
<1>25. QED
  BY <1>1, <1>24 DEF h

\* A statement without a tail clause, whose text means what its parts mean, in
\* so far as the engine has a plan for it.
Meant(parts) ==
  LET text == TextOf(parts)
  IN /\ Len(parts) > 0
     /\ \A n \in DOMAIN parts : parts[n].row = 0 => parts[n].col # "val"
     /\ resolveHookColumnArgs(text, {"val"}).ok =>
          RowsFit(text) /\ Aligned(parts, {"val"}) /\ OneColumn(parts)
     /\ resolveHookColumnArgs(text, {"mac"}).ok =>
          /\ RowsFit(text) /\ NamedOnce(text, {"mac"})
          /\ Aligned(parts, {"mac"}) /\ OncePerRow(parts, "mac")

\* A statement without a tail clause has no argument there.
LEMMA NoTail ==
  ASSUME NEW op, NEW parts, NEW secrets,
         \A n \in DOMAIN parts : parts[n].row = 0 => parts[n].col # "val"
  PROVE  Summary(op, parts, secrets).tail = -1
<1> DEFINE here == {n \in DOMAIN parts : parts[n].row = 0 /\ parts[n].col = "val"}
<1>1. Summary(op, parts, secrets).tail = SourceOf(parts, 0, "val")
  BY SummaryIs
<1>2. here = {}
  OBVIOUS
<1>3. SourceOf(parts, 0, "val") = IF here = {} THEN -1 ELSE Source(parts, Max(here))
  BY DEF SourceOf
<1> HIDE DEF here
<1>4. QED
  BY <1>1, <1>2, <1>3

\* The parser says what the database will do, in a statement without a tail.
AsMeant(h) ==
  /\ h.secret.ok => \A i \in DOMAIN h.roles :
       Cardinality({n \in DOMAIN h.secret.idx : h.secret.idx[n] = i})
         = IF h.roles[i].col = "val" THEN 1 ELSE 0
  /\ h.mac.ok /\ Len(h.mac.idx) = Len(h.rows) =>
       \A n \in DOMAIN h.rows : h.mac.idx[n] = h.rows[n].mac
  /\ h.tail = -1

\* What the engine's parser says of a statement, if it means something, is what
\* the database makes of it.
THEOREM SummaryAsMeant ==
  ASSUME LexAssumption, Numbered \cap Sign = {}, NEW S, NEW parts \in Seq(Part(S)), NEW op,
         Meant(parts)
  PROVE  AsMeant(Summary(op, parts, {"val"}))
<1> DEFINE h == Summary(op, parts, {"val"})
           text == TextOf(parts)
           sealed == \A i \in DOMAIN h.roles :
                       Cardinality({n \in DOMAIN h.secret.idx : h.secret.idx[n] = i})
                         = IF h.roles[i].col = "val" THEN 1 ELSE 0
           signed == \A n \in DOMAIN h.rows : h.mac.idx[n] = h.rows[n].mac
<1>1. /\ h.mac = resolveHookColumnArgs(text, {"mac"})
      /\ h.secret = resolveHookColumnArgs(text, {"val"})
  BY SummaryIs
<1>2. h.secret.ok => sealed
  <2>1. SUFFICES ASSUME h.secret.ok PROVE sealed
    OBVIOUS
  <2>2. RowsFit(text) /\ Aligned(parts, {"val"}) /\ OneColumn(parts)
    BY <1>1, <2>1 DEF Meant
  <2>3. QED
    BY <2>1, <2>2, SealsAsMeant
<1>3. h.mac.ok /\ Len(h.mac.idx) = Len(h.rows) => signed
  <2>1. SUFFICES ASSUME h.mac.ok, Len(h.mac.idx) = Len(h.rows) PROVE signed
    OBVIOUS
  <2>2. RowsFit(text) /\ NamedOnce(text, {"mac"}) /\ Aligned(parts, {"mac"}) /\ OncePerRow(parts, "mac")
    BY <1>1, <2>1 DEF Meant
  <2>3. Len(parts) > 0
    BY DEF Meant
  <2>4. QED
    BY <2>1, <2>2, <2>3, MacsAsMeant
<1>4. h.tail = -1
  <2>1. \A n \in DOMAIN parts : parts[n].row = 0 => parts[n].col # "val"
    BY DEF Meant
  <2>2. QED
    BY <2>1, NoTail
<1>5. QED
  BY <1>2, <1>3, <1>4, Zenon DEF AsMeant, h, sealed, signed
=============================================================================
