-------------------------- MODULE UniSecretProofs --------------------------
(***************************************************************************)
(* Theorems about UniSecret, for any goroutines, engines, secrets and      *)
(* sizes of the cache.                                                     *)
(***************************************************************************)
EXTENDS UniSecret, SequenceTheorems, TLAPS

\* What every call has established by the time it is where it is.
CallOK(p) ==
  LET c == call[p]
      e == call[p].eng
  IN  /\ c.at = "idle" => e = NoEngine
      /\ c.at # "idle" => e \in Engine /\ conf[e].on /\ conf[e].by \in SecretName
      /\ c.at \in {"salt", "derive"} => c.text \in Text
      /\ c.at = "derive" => /\ c.salt = SaltOf(e) /\ c.salt \in Salts
                            /\ secretIterOf(e) \in Iters
      /\ c.at = "open" =>
           /\ c.value \in store /\ c.value.kind = "sealed"
           /\ c.value.iter \in Iters
           /\ c.key = [salt |-> c.value.salt, iter |-> c.value.iter, by |-> conf[e].by]

\* Whatever seals a value of the column, it carries a salt; what no engine
\* wrote no key opens.
StoreOK ==
  \A v \in store :
    /\ v.kind = "sealed" => v.salt \in Salts
    /\ v.by = NoSecret => v.key = NoKey

IInv ==
  /\ TypeOK /\ CacheOrdered /\ CacheTrue
  /\ Readable /\ StoreOK /\ OnlyVerifiedCached
  /\ \A p \in Proc : CallOK(p)

-----------------------------------------------------------------------------
(* The cache of one secretState.                                           *)

NoRepeat(s) == \A i, j \in 1..Len(s) : s[i] = s[j] => i = j

Listed(s) == {s[i] : i \in 1..Len(s)}

\* What CacheOrdered and CacheTrue say of one state.
CacheOK(S) ==
  /\ IsState(S)
  /\ Len(S.order) <= CacheMax /\ NoRepeat(S.order)
  /\ DOMAIN S.keys = Listed(S.order)
  /\ \A k \in DOMAIN S.keys : S.keys[k] = k

\* Dropping the first of a list without duplicates drops it for good.
LEMMA DropFirst ==
  ASSUME NEW s \in Seq(Key), s # <<>>, NoRepeat(s)
  PROVE  /\ Tail(s) \in Seq(Key) /\ Len(Tail(s)) = Len(s) - 1
         /\ NoRepeat(Tail(s)) /\ Listed(s) \ {Head(s)} = Listed(Tail(s))
<1>1. /\ Len(s) \in Nat \ {0} /\ Head(s) = s[1]
      /\ Tail(s) \in Seq(Key) /\ Len(Tail(s)) = Len(s) - 1
      /\ \A i \in 1..Len(Tail(s)) : Tail(s)[i] = s[i + 1]
  BY HeadTailProperties, LenProperties, EmptySeq
<1>2. \A i, j \in 1..Len(s) : s[i] = s[j] => i = j
  BY DEF NoRepeat
<1>3. ASSUME NEW i \in 1..Len(Tail(s)), NEW j \in 1..Len(Tail(s)), Tail(s)[i] = Tail(s)[j]
      PROVE  i = j
  <2>1. i + 1 \in 1..Len(s) /\ j + 1 \in 1..Len(s)
    BY <1>1
  <2>2. QED BY <1>1, <1>2, <1>3, <2>1
<1>4. ASSUME NEW n \in 1..Len(s), s[n] # Head(s)
      PROVE  \E i \in 1..Len(Tail(s)) : Tail(s)[i] = s[n]
  <2>1. n # 1
    BY <1>1, <1>4
  <2>2. n - 1 \in 1..Len(Tail(s))
    BY <1>1, <2>1
  <2>3. Tail(s)[n - 1] = s[n]
    BY <1>1, <2>2
  <2>4. QED BY <2>2, <2>3
<1>5. ASSUME NEW i \in 1..Len(Tail(s))
      PROVE  (\E n \in 1..Len(s) : s[n] = Tail(s)[i]) /\ Tail(s)[i] # Head(s)
  <2>1. i + 1 \in 1..Len(s) /\ 1 \in 1..Len(s) /\ i + 1 # 1
    BY <1>1
  <2>2. QED BY <1>1, <1>2, <2>1
<1>6. Listed(s) \ {Head(s)} = Listed(Tail(s))
  <2>1. \A k \in Listed(s) \ {Head(s)} : k \in Listed(Tail(s))
    BY <1>4 DEF Listed
  <2>2. \A k \in Listed(Tail(s)) : k \in Listed(s) \ {Head(s)}
    BY <1>5 DEF Listed
  <2>3. QED BY <2>1, <2>2
<1>7. QED BY <1>1, <1>3, <1>6 DEF NoRepeat

\* Listing a new key keeps the list free of duplicates.
LEMMA AddLast ==
  ASSUME NEW s \in Seq(Key), NEW ck \in Key, NoRepeat(s), ck \notin Listed(s)
  PROVE  /\ Append(s, ck) \in Seq(Key) /\ Len(Append(s, ck)) = Len(s) + 1
         /\ NoRepeat(Append(s, ck)) /\ Listed(Append(s, ck)) = Listed(s) \cup {ck}
<1> DEFINE t == Append(s, ck)
<1>1. /\ Len(s) \in Nat /\ t \in Seq(Key) /\ Len(t) = Len(s) + 1
      /\ \A i \in 1..Len(s) : t[i] = s[i]
      /\ t[Len(s) + 1] = ck
  BY AppendProperties, LenProperties
<1> HIDE DEF t
<1>2. \A i \in 1..Len(t) : i \in 1..Len(s) \/ i = Len(s) + 1
  BY <1>1
<1>3. \A i \in 1..Len(s) : i \in 1..Len(t)
  BY <1>1
<1>4. Len(s) + 1 \in 1..Len(t)
  BY <1>1
<1>5. NoRepeat(t)
  BY <1>1, <1>2 DEF NoRepeat, Listed
<1>6. Listed(t) = Listed(s) \cup {ck}
  BY <1>1, <1>2, <1>3, <1>4 DEF Listed
<1>7. QED BY <1>1, <1>5, <1>6 DEF t

\* What eviction leaves has room for one key more.
LEMMA EvictOK ==
  ASSUME NEW S, CacheOK(S)
  PROVE  /\ CacheOK(Evict(S)) /\ Evict(S).salt = S.salt
         /\ Len(Evict(S).order) < CacheMax
         /\ DOMAIN Evict(S).keys \subseteq DOMAIN S.keys
<1>1. CacheMax \in Nat \ {0} /\ Len(S.order) \in Nat /\ S.order \in Seq(Key)
  BY SecretAssumption, LenProperties DEF CacheOK, IsState
<1>2. CASE Len(S.order) >= CacheMax
  <2> DEFINE T == Evict(S)
             kept == DOMAIN S.keys \ {Head(S.order)}
  <2>1. DOMAIN S = {"salt", "keys", "order"}
    BY DEF CacheOK, IsState
  <2>2. /\ DOMAIN T = DOMAIN S /\ T.salt = S.salt /\ T.order = Tail(S.order)
        /\ T.keys = [k \in kept |-> S.keys[k]]
    BY <1>2, <2>1 DEF Evict
  <2> HIDE DEF T
  <2>3. S.order # <<>> /\ Len(S.order) <= CacheMax /\ NoRepeat(S.order)
    BY <1>1, <1>2, EmptySeq DEF CacheOK
  <2>4. /\ T.order \in Seq(Key) /\ Len(T.order) = Len(S.order) - 1
        /\ NoRepeat(T.order) /\ Listed(S.order) \ {Head(S.order)} = Listed(T.order)
    BY <1>1, <2>2, <2>3, DropFirst
  <2>5. Len(T.order) < CacheMax
    BY <1>1, <2>3, <2>4
  <2>6. DOMAIN T.keys = Listed(T.order) /\ DOMAIN T.keys \subseteq DOMAIN S.keys
    BY <2>2, <2>4 DEF CacheOK
  <2>7. \A k \in DOMAIN T.keys : T.keys[k] = k
    BY <2>2 DEF CacheOK
  <2>8. IsState(T)
    BY <2>1, <2>2, <2>4, <2>6, <2>7 DEF CacheOK, IsState
  <2>9. CacheOK(T)
    BY <1>1, <2>3, <2>4, <2>5, <2>6, <2>7, <2>8 DEF CacheOK
  <2>10. QED BY <2>2, <2>5, <2>6, <2>9 DEF T
<1>3. CASE ~(Len(S.order) >= CacheMax)
  <2>1. Evict(S) = S
    BY <1>3 DEF Evict
  <2>2. Len(S.order) < CacheMax
    BY <1>1, <1>3
  <2>3. QED BY <2>1, <2>2
<1>4. QED BY <1>2, <1>3

\* cacheKeyLocked keeps the cache in order, however full it is.
LEMMA CacheStep ==
  ASSUME NEW S, CacheOK(S), NEW ck \in Key
  PROVE  /\ CacheOK(cacheKeyLocked(S, ck, ck))
         /\ cacheKeyLocked(S, ck, ck).salt = S.salt
         /\ DOMAIN cacheKeyLocked(S, ck, ck).keys \subseteq DOMAIN S.keys \cup {ck}
<1>1. CASE ck \in DOMAIN S.keys
  BY <1>1 DEF cacheKeyLocked
<1>2. CASE ck \notin DOMAIN S.keys
  <2> DEFINE R == Evict(S)
             T == Insert(R, ck, ck)
  <2>1. /\ CacheOK(R) /\ R.salt = S.salt /\ Len(R.order) < CacheMax
        /\ DOMAIN R.keys \subseteq DOMAIN S.keys
    BY EvictOK
  <2>2. cacheKeyLocked(S, ck, ck) = T
    BY <1>2 DEF cacheKeyLocked
  <2> HIDE DEF R
  <2>3. DOMAIN R = {"salt", "keys", "order"} /\ R.order \in Seq(Key)
    BY <2>1 DEF CacheOK, IsState
  <2>4. /\ DOMAIN T = DOMAIN R /\ T.salt = R.salt /\ T.order = Append(R.order, ck)
        /\ T.keys = [k \in DOMAIN R.keys \cup {ck} |-> IF k = ck THEN ck ELSE R.keys[k]]
    BY <2>3 DEF Insert
  <2> HIDE DEF T
  <2>5. ck \notin Listed(R.order) /\ NoRepeat(R.order)
    BY <1>2, <2>1 DEF CacheOK
  <2>6. /\ T.order \in Seq(Key) /\ Len(T.order) = Len(R.order) + 1
        /\ NoRepeat(T.order) /\ Listed(T.order) = Listed(R.order) \cup {ck}
    BY <2>3, <2>4, <2>5, AddLast
  <2>7. Len(T.order) <= CacheMax
    <3>1. Len(R.order) \in Nat /\ CacheMax \in Nat
      BY <2>3, LenProperties, SecretAssumption
    <3>2. QED BY <2>1, <2>6, <3>1
  <2>8. DOMAIN T.keys = Listed(T.order)
    BY <2>1, <2>4, <2>6 DEF CacheOK
  <2>9. \A k \in DOMAIN T.keys : T.keys[k] = k
    BY <2>1, <2>4 DEF CacheOK
  <2>10. DOMAIN T.keys \subseteq Key /\ T.salt \in Salts \cup {NoSalt}
    BY <2>1, <2>4 DEF CacheOK, IsState
  <2>11. IsState(T)
    BY <2>3, <2>4, <2>6, <2>9, <2>10 DEF IsState
  <2>12. CacheOK(T)
    BY <2>6, <2>7, <2>8, <2>9, <2>11 DEF CacheOK
  <2>13. DOMAIN T.keys \subseteq DOMAIN S.keys \cup {ck}
    BY <2>1, <2>4
  <2>14. QED BY <2>1, <2>2, <2>4, <2>12, <2>13
<1>3. QED BY <1>1, <1>2

LEMMA StatesOK == ASSUME IInv, NEW st \in State PROVE CacheOK(state[st])
  BY DEF IInv, TypeOK, CacheOrdered, CacheTrue, CacheOK, NoRepeat, Listed, IsState

\* A new state is empty.
LEMMA BlankOK ==
  IsState(Blank) /\ CacheOK(Blank) /\ DOMAIN Blank.keys = {} /\ Blank.salt = NoSalt
<1>1. /\ DOMAIN Blank = {"salt", "keys", "order"} /\ Blank.salt = NoSalt
      /\ Blank.keys = <<>> /\ Blank.order = <<>>
  BY DEF Blank
<1>2. DOMAIN Blank.keys = {} /\ Blank.order \in Seq(Key) /\ Len(Blank.order) = 0
  BY <1>1, EmptySeq
<1>3. IsState(Blank)
  BY <1>1, <1>2 DEF IsState
<1>4. CacheOK(Blank)
  BY <1>2, <1>3, SecretAssumption DEF CacheOK, NoRepeat, Listed
<1>5. QED BY <1>1, <1>2, <1>3, <1>4

\* A lookup, or the derivation that replaces it, gives the same key.
LEMMA DerivedKey ==
  ASSUME NEW S, CacheOK(S), NEW e, NEW s, NEW n
  PROVE  /\ secretCacheKey(e, s, n) = [salt |-> s, iter |-> n, by |-> conf[e].by]
         /\ Derived(S, e, s, n) = [salt |-> s, iter |-> n, by |-> conf[e].by]
  BY DEF CacheOK, Derived, Derive, secretCacheKey

-----------------------------------------------------------------------------
(* The steps.                                                              *)

\* Goroutine p goes to c, the column only grows, and the configuration stays.
Moves(p, c) ==
  /\ c \in Call /\ call' = [call EXCEPT ![p] = c]
  /\ UNCHANGED conf
  /\ store \subseteq store' /\ store' \subseteq Value

\* No engine loses its salt.
SaltsKept == \A e \in Engine : SaltOf(e) # NoSalt => SaltOf(e)' = SaltOf(e)

LEMMA OthersOK ==
  ASSUME IInv, NEW p \in Proc, NEW c, Moves(p, c), SaltsKept, CallOK(p)'
  PROVE  \A q \in Proc : CallOK(q)'
<1>1. ASSUME NEW q \in Proc, q # p PROVE CallOK(q)'
  <2>1. call'[q] = call[q] /\ conf' = conf /\ store \subseteq store'
    BY <1>1 DEF Moves, IInv, TypeOK
  <2>2. CallOK(q) /\ NoSalt \notin Salts
    BY SecretAssumption DEF IInv
  <2>3. \A e \in Engine : SaltOf(e) \in Salts => SaltOf(e)' = SaltOf(e)
    BY <2>2 DEF SaltsKept
  <2>4. \A e \in Engine : secretIterOf(e)' = secretIterOf(e)
    BY <2>1 DEF secretIterOf
  <2>5. QED
    <3>1. CASE call[q].at = "idle"
      BY <2>1, <2>2, <3>1 DEF CallOK
    <3>2. CASE call[q].at # "idle"
      <4>1. PICK d \in Engine : d = call[q].eng
        BY <2>2, <3>2 DEF CallOK
      <4>2. /\ conf[d].on /\ conf[d].by \in SecretName
            /\ call[q].at \in {"salt", "derive"} => call[q].text \in Text
            /\ call[q].at = "derive" => /\ call[q].salt = SaltOf(d)' /\ call[q].salt \in Salts
                                       /\ secretIterOf(d)' \in Iters
        BY <2>2, <2>3, <2>4, <3>2, <4>1 DEF CallOK
      <4>3. call[q].at = "open" =>
              LET v == call[q].value
              IN  /\ v \in store' /\ v.kind = "sealed" /\ v.iter \in Iters
                  /\ call[q].key = [salt |-> v.salt, iter |-> v.iter, by |-> conf[d].by]
        BY <2>1, <2>2, <4>1 DEF CallOK
      <4>4. call'[q].eng = d
        BY <2>1, <4>1
      <4>5. QED BY <2>1, <3>2, <4>2, <4>3, <4>4 DEF CallOK, SaltOf, secretIterOf
    <3>3. QED BY <3>1, <3>2
<1>2. QED BY <1>1

\* The state that a section of engine e touches, before and after.
LEMMA SectionFacts ==
  ASSUME IInv, NEW e \in Engine, NEW st \in secretStateOf(e), NEW S, Section(e, st, S)
  PROVE  /\ st \in State /\ state[st].salt = SaltOf(e)
         /\ secret' \in [Engine -> State \cup {NoState}] /\ secret'[e] = st
         /\ DOMAIN state' = State /\ state'[st] = S
         /\ \A f \in State \ {st} : state'[f] = state[f]
         /\ \A d \in Engine \ {e} : secret'[d] = secret[d]
         /\ \A d \in Engine : secret[d] # NoState => secret'[d] = secret[d]
         /\ \A f \in State \ Referred' : f # st /\ f \notin Referred
<1>1. /\ secret \in [Engine -> State \cup {NoState}] /\ DOMAIN state = State
      /\ \A f \in State \ Referred : state[f] = Blank
      /\ NoState \notin State /\ Blank.salt = NoSalt
  BY SecretAssumption, BlankOK DEF IInv, TypeOK
<1>2. secret' = [secret EXCEPT ![e] = st] /\ state' = [state EXCEPT ![st] = S]
  BY DEF Section
<1>3. /\ secret[e] = NoState => st \in State \ Referred
      /\ secret[e] # NoState => st = secret[e]
  BY DEF secretStateOf
<1>4. st \in State /\ state[st].salt = SaltOf(e)
  BY <1>1, <1>3 DEF SaltOf
<1>5. /\ secret' \in [Engine -> State \cup {NoState}] /\ secret'[e] = st
      /\ \A d \in Engine \ {e} : secret'[d] = secret[d]
  BY <1>1, <1>2, <1>4
<1>6. /\ DOMAIN state' = State /\ state'[st] = S
      /\ \A f \in State \ {st} : state'[f] = state[f]
  BY <1>1, <1>2, <1>4
<1>7. \A d \in Engine : secret[d] # NoState => secret'[d] = secret[d]
  BY <1>3, <1>5
<1>8. ASSUME NEW f \in State, f \notin Referred' PROVE f # st /\ f \notin Referred
  <2>1. \A d \in Engine : secret'[d] # f
    BY <1>8 DEF Referred
  <2>2. f # st
    BY <1>5, <2>1
  <2>3. \A d \in Engine : secret[d] # f
    BY <1>1, <1>7, <2>1
  <2>4. QED BY <2>2, <2>3 DEF Referred
<1>9. QED BY <1>4, <1>5, <1>6, <1>7, <1>8

\* A section that keeps the salt there is keeps the salt of every engine.
LEMMA SectionSalts ==
  ASSUME IInv, NEW e \in Engine, NEW st \in secretStateOf(e), NEW S, Section(e, st, S),
         state[st].salt # NoSalt => S.salt = state[st].salt
  PROVE  SaltsKept /\ SaltOf(e)' = S.salt
<1>1. /\ secret'[e] = st /\ state'[st] = S /\ st \in State
      /\ \A f \in State \ {st} : state'[f] = state[f]
      /\ \A d \in Engine : secret[d] # NoState => secret'[d] = secret[d]
  BY SectionFacts
<1>2. secret \in [Engine -> State \cup {NoState}] /\ NoState \notin State
  BY SecretAssumption DEF IInv, TypeOK
<1>3. ASSUME NEW d \in Engine, SaltOf(d) # NoSalt PROVE SaltOf(d)' = SaltOf(d)
  <2>1. secret[d] # NoState /\ SaltOf(d) = state[secret[d]].salt
    BY <1>3 DEF SaltOf
  <2>2. secret'[d] = secret[d] /\ secret[d] \in State
    BY <1>1, <1>2, <2>1
  <2>3. SaltOf(d)' = state'[secret[d]].salt
    BY <2>1, <2>2 DEF SaltOf
  <2>4. CASE secret[d] = st
    BY <1>1, <1>3, <2>1, <2>3, <2>4
  <2>5. CASE secret[d] # st
    BY <1>1, <2>1, <2>2, <2>3, <2>5
  <2>6. QED BY <2>4, <2>5
<1>4. SaltOf(e)' = S.salt
  BY <1>1, <1>2 DEF SaltOf
<1>5. QED BY <1>3, <1>4 DEF SaltsKept

\* A section that leaves its state in order, and in the cache only keys that
\* were there, have the salt or open a value of the column.
LEMMA SectionStep ==
  ASSUME IInv, NEW p \in Proc, NEW c, Moves(p, c), CallOK(p)', Readable', StoreOK',
         NEW e \in Engine, NEW st \in secretStateOf(e), NEW S, Section(e, st, S),
         CacheOK(S), state[st].salt # NoSalt => S.salt = state[st].salt,
         \A k \in DOMAIN S.keys :
           \/ k \in DOMAIN state[st].keys \/ k.salt = S.salt
           \/ \E v \in store' : v.kind = "sealed" /\ v.key = k
  PROVE  IInv'
<1>1. /\ st \in State /\ state'[st] = S /\ DOMAIN state' = State
      /\ secret' \in [Engine -> State \cup {NoState}]
      /\ \A f \in State \ {st} : state'[f] = state[f]
      /\ \A f \in State \ Referred' : f # st /\ f \notin Referred
  BY SectionFacts
<1>2. \A f \in State : CacheOK(state'[f])
  BY <1>1, StatesOK
<1>3. TypeOK'
  <2>1. \A f \in State : IsState(state'[f])
    BY <1>2 DEF CacheOK
  <2>2. \A f \in State \ Referred' : state'[f] = Blank
    BY <1>1 DEF IInv, TypeOK
  <2>3. /\ conf' \in [Engine -> Configs] /\ store' \subseteq Value
        /\ call' \in [Proc -> Call]
    BY DEF IInv, TypeOK, Moves
  <2>4. \A f \in State \ Referred' : state'[f] = Blank'
    BY <2>2 DEF Blank
  <2>5. \A f \in State : IsState(state[f])'
    BY <2>1 DEF IsState
  <2>6. QED BY <1>1, <2>3, <2>4, <2>5 DEF TypeOK
<1>4. CacheOrdered' /\ CacheTrue'
  BY <1>2 DEF CacheOrdered, CacheTrue, CacheOK, NoRepeat, Listed
<1>5. ASSUME NEW f \in State, NEW k \in DOMAIN state'[f].keys
      PROVE  \/ k.salt = state'[f].salt
             \/ \E v \in store' : v.kind = "sealed" /\ v.key = state'[f].keys[k]
  <2>1. state'[f].keys[k] = k /\ k \in Key
    BY <1>2 DEF CacheOK, IsState
  <2>2. ASSUME k \in DOMAIN state[f].keys
        PROVE  \/ k.salt = state[f].salt /\ k.salt # NoSalt
               \/ \E v \in store' : v.kind = "sealed" /\ v.key = k
    <3>1. state[f].keys[k] = k
      BY <2>2, StatesOK DEF CacheOK
    <3>2. k.salt # NoSalt
      BY <2>1, SecretAssumption DEF Key
    <3>3. \/ k.salt = state[f].salt
          \/ \E v \in store : v.kind = "sealed" /\ v.key = state[f].keys[k]
      BY <2>2 DEF IInv, OnlyVerifiedCached
    <3>4. QED BY <3>1, <3>2, <3>3 DEF Moves
  <2>3. CASE f # st
    BY <1>1, <1>5, <2>1, <2>2, <2>3
  <2>4. CASE f = st
    BY <1>1, <1>5, <2>1, <2>2, <2>4
  <2>5. QED BY <2>3, <2>4
<1>6. OnlyVerifiedCached'
  BY <1>5 DEF OnlyVerifiedCached
<1>7. \A q \in Proc : CallOK(q)'
  BY SectionSalts, OthersOK
<1>8. QED BY <1>3, <1>4, <1>6, <1>7 DEF IInv

\* A step that touches no state.
LEMMA QuietStep ==
  ASSUME IInv, NEW p \in Proc, NEW c, Moves(p, c), CallOK(p)',
         UNCHANGED <<secret, state>>, Readable', StoreOK'
  PROVE  IInv'
<1>1. TypeOK'
  BY DEF IInv, TypeOK, Moves, IsState, Referred, Blank
<1>2. CacheOrdered' /\ CacheTrue'
  BY DEF IInv, CacheOrdered, CacheTrue
<1>3. OnlyVerifiedCached'
  BY DEF IInv, OnlyVerifiedCached, Moves
<1>4. SaltsKept
  BY DEF SaltsKept, SaltOf
<1>5. QED BY <1>1, <1>2, <1>3, <1>4, OthersOK DEF IInv

\* A call that comes back has nothing left to keep.
LEMMA IdleCall ==
  ASSUME NEW out \in Text \cup {NoText, Failed}
  PROVE  /\ [Idle EXCEPT !.out = out] \in Call
         /\ [Idle EXCEPT !.out = out].at = "idle"
         /\ [Idle EXCEPT !.out = out].eng = NoEngine
  BY DEF Idle, Call

\* Returning is a move.
LEMMA Returning ==
  ASSUME IInv, NEW p \in Proc, NEW out \in Text \cup {NoText, Failed},
         Return(p, out), UNCHANGED conf,
         store \subseteq store', store' \subseteq Value
  PROVE  Moves(p, [Idle EXCEPT !.out = out]) /\ CallOK(p)'
<1> DEFINE c == [Idle EXCEPT !.out = out]
<1>1. /\ c \in Call /\ c.at = "idle" /\ c.eng = NoEngine
      /\ call' = [call EXCEPT ![p] = c]
  BY IdleCall DEF Return
<1> HIDE DEF c
<1>2. call'[p] = c
  BY <1>1 DEF IInv, TypeOK
<1>3. Moves(p, c)
  BY <1>1 DEF Moves
<1>4. CallOK(p)'
  BY <1>1, <1>2 DEF CallOK
<1>5. QED BY <1>3, <1>4 DEF c

LEMMA StoreKept ==
  ASSUME IInv, UNCHANGED store
  PROVE  /\ store \subseteq store' /\ store' \subseteq Value
         /\ Readable' /\ StoreOK'
  BY DEF IInv, TypeOK, Readable, StoreOK

\* An engine has a configuration of the right type.
LEMMA ConfType ==
  ASSUME IInv, NEW e \in Engine
  PROVE  conf[e] \in Config
  BY SecretAssumption DEF IInv, TypeOK

LEMMA InitInv == ASSUME Init PROVE IInv
<1>1. Idle \in Call /\ Idle.at = "idle" /\ Idle.eng = NoEngine
  BY DEF Idle, Call
<1>2. /\ secret = [e \in Engine |-> NoState] /\ state = [st \in State |-> Blank]
      /\ conf \in [Engine -> Configs] /\ store = Existing /\ call = [p \in Proc |-> Idle]
  BY DEF Init
<1>3. \A st \in State : state[st] = Blank /\ CacheOK(state[st]) /\ IsState(state[st])
  BY <1>2, BlankOK
<1>4. TypeOK
  BY <1>1, <1>2, <1>3, SecretAssumption DEF TypeOK
<1>5. CacheOrdered /\ CacheTrue
  BY <1>3 DEF CacheOrdered, CacheTrue, CacheOK, NoRepeat, Listed
<1>6. OnlyVerifiedCached
  BY <1>3, BlankOK DEF OnlyVerifiedCached
<1>7. Readable /\ StoreOK
  BY <1>2, SecretAssumption DEF Readable, StoreOK
<1>8. \A p \in Proc : CallOK(p)
  BY <1>1, <1>2 DEF CallOK
<1>9. QED BY <1>4, <1>5, <1>6, <1>7, <1>8 DEF IInv

LEMMA EncryptStep ==
  ASSUME IInv, NEW p \in Proc, NEW e \in Engine, NEW t \in Text, Encrypt(p, e, t)
  PROVE  IInv'
<1>1. UNCHANGED <<conf, secret, state>>
  BY DEF Encrypt
<1>2. CASE store' = store \cup {Plain(t)} /\ Return(p, NoText)
  <2>1. Plain(t) \in Value /\ Plain(t).by = NoSecret /\ Plain(t).key = NoKey
        /\ Plain(t).kind = "plain"
    BY DEF Plain, Value
  <2>2. store \subseteq store' /\ store' \subseteq Value
    BY <1>2, <2>1 DEF IInv, TypeOK
  <2>3. Readable' /\ StoreOK'
    BY <1>2, <2>1 DEF IInv, Readable, StoreOK
  <2>4. Moves(p, [Idle EXCEPT !.out = NoText]) /\ CallOK(p)'
    BY <1>1, <1>2, <2>2, Returning
  <2>5. QED BY <1>1, <2>3, <2>4, QuietStep
<1>3. CASE Return(p, Failed) /\ UNCHANGED store
  <2>1. Moves(p, [Idle EXCEPT !.out = Failed]) /\ CallOK(p)'
    BY <1>1, <1>3, StoreKept, Returning
  <2>2. QED BY <1>1, <1>3, <2>1, StoreKept, QuietStep
<1>4. CASE /\ conf[e].on /\ conf[e].by # NoSecret /\ UNCHANGED store
           /\ call' = [call EXCEPT ![p] = [Idle EXCEPT !.at = "salt", !.eng = e, !.text = t]]
  <2> DEFINE c == [Idle EXCEPT !.at = "salt", !.eng = e, !.text = t]
  <2>1. c \in Call /\ c.at = "salt" /\ c.eng = e /\ c.text = t
    BY DEF Idle, Call
  <2> HIDE DEF c
  <2>2. call' = [call EXCEPT ![p] = c] /\ call'[p] = c
    BY <1>4 DEF c, IInv, TypeOK
  <2>3. Moves(p, c)
    BY <1>1, <1>4, <2>1, <2>2, StoreKept DEF Moves
  <2>4. conf[e].by \in SecretName
    BY <1>4, ConfType DEF Config
  <2>5. CallOK(p)'
    BY <1>1, <1>4, <2>1, <2>2, <2>4 DEF CallOK
  <2>6. QED BY <1>1, <1>4, <2>3, <2>5, StoreKept, QuietStep
<1>5. QED BY <1>2, <1>3, <1>4 DEF Encrypt

\* What a section writes back when it gives the state the salt s.
LEMMA SaltWritten ==
  ASSUME NEW S, CacheOK(S), NEW s \in Salts
  PROVE  /\ CacheOK([S EXCEPT !.salt = s]) /\ [S EXCEPT !.salt = s].salt = s
         /\ DOMAIN [S EXCEPT !.salt = s].keys = DOMAIN S.keys
<1> DEFINE T == [S EXCEPT !.salt = s]
<1>1. DOMAIN S = {"salt", "keys", "order"}
  BY DEF CacheOK, IsState
<1>2. DOMAIN T = DOMAIN S /\ T.salt = s /\ T.keys = S.keys /\ T.order = S.order
  BY <1>1
<1> HIDE DEF T
<1>3. CacheOK(T)
  BY <1>2 DEF CacheOK, IsState
<1>4. QED BY <1>2, <1>3 DEF T

LEMMA WriteSaltStep ==
  ASSUME IInv, NEW p \in Proc, WriteSalt(p) PROVE IInv'
<1> DEFINE e == call[p].eng
<1>1. /\ UNCHANGED <<conf, store>> /\ call[p].at = "salt" /\ CallOK(p)
      /\ call[p] \in Call
  BY DEF WriteSalt, IInv, TypeOK
<1>2. /\ e \in Engine /\ conf[e].on /\ conf[e].by \in SecretName
      /\ call[p].text \in Text
  BY <1>1 DEF CallOK
<1>3. PICK d \in Engine : d = call[p].eng
  BY <1>2
<1> HIDE DEF e
<1>4. PICK st \in secretStateOf(d) :
        \/ state[st].salt = NoSalt /\ Section(d, st, state[st]) /\ Return(p, Failed)
        \/ \E s \in Salts :
             /\ state[st].salt \in {NoSalt, s}
             /\ Section(d, st, [state[st] EXCEPT !.salt = s])
             /\ IF secretIterOf(d) > IterMax THEN Return(p, Failed) ELSE GoesOn(p, s)
  BY <1>3 DEF WriteSalt
<1>5. st \in State
  <2>1. \/ Section(d, st, state[st])
        \/ \E s \in Salts : Section(d, st, [state[st] EXCEPT !.salt = s])
    BY <1>4
  <2>2. QED BY <2>1, SectionFacts
<1>6. CacheOK(state[st])
  BY <1>5, StatesOK
<1>7. CASE Section(d, st, state[st]) /\ Return(p, Failed)
  <2>1. Moves(p, [Idle EXCEPT !.out = Failed]) /\ CallOK(p)'
    BY <1>1, <1>7, StoreKept, Returning
  <2>2. QED BY <1>1, <1>6, <1>7, <2>1, StoreKept, SectionStep
<1>8. ASSUME NEW s \in Salts, state[st].salt \in {NoSalt, s},
             Section(d, st, [state[st] EXCEPT !.salt = s]),
             Return(p, Failed) \/ (GoesOn(p, s) /\ secretIterOf(d) \in Iters)
      PROVE  IInv'
  <2> DEFINE S == [state[st] EXCEPT !.salt = s]
  <2>1. CacheOK(S) /\ S.salt = s /\ DOMAIN S.keys = DOMAIN state[st].keys
    BY <1>6, SaltWritten
  <2> HIDE DEF S
  <2>2. Section(d, st, S) /\ (state[st].salt # NoSalt => S.salt = state[st].salt)
    BY <1>8, <2>1 DEF S
  <2>3. CASE Return(p, Failed)
    <3>1. Moves(p, [Idle EXCEPT !.out = Failed]) /\ CallOK(p)'
      BY <1>1, <2>3, StoreKept, Returning
    <3>2. QED BY <1>1, <2>1, <2>2, <3>1, StoreKept, SectionStep
  <2>4. CASE GoesOn(p, s) /\ secretIterOf(d) \in Iters
    <3> DEFINE c == [call[p] EXCEPT !.at = "derive", !.salt = s]
    <3>1. /\ c \in Call /\ c.at = "derive" /\ c.salt = s
          /\ c.text = call[p].text /\ c.eng = call[p].eng
      BY <1>1 DEF Call
    <3>2. call' = [call EXCEPT ![p] = c]
      BY <2>4 DEF GoesOn, IInv, TypeOK
    <3> HIDE DEF c
    <3>3. call'[p] = c /\ call'[p].eng = d
      BY <1>3, <3>1, <3>2 DEF IInv, TypeOK
    <3>4. Moves(p, c)
      BY <1>1, <3>1, <3>2, StoreKept DEF Moves
    <3>5. SaltOf(d)' = s
      BY <2>1, <2>2, SectionSalts
    <3>6. conf'[d].on /\ conf'[d].by \in SecretName
      BY <1>1, <1>2, <1>3 DEF e
    <3>7. secretIterOf(d)' \in Iters
      BY <1>1, <2>4 DEF secretIterOf
    <3>8. CallOK(p)'
      BY <1>2, <3>1, <3>3, <3>5, <3>6, <3>7 DEF CallOK, SaltOf, secretIterOf
    <3>9. QED BY <1>1, <2>1, <2>2, <3>4, <3>8, StoreKept, SectionStep
  <2>5. QED BY <1>8, <2>3, <2>4
<1>9. secretIterOf(d) > IterMax \/ secretIterOf(d) \in Iters
  BY ConfType, SecretAssumption DEF secretIterOf, Config, Iters
<1>10. QED
  <2>1. CASE Section(d, st, state[st]) /\ Return(p, Failed)
    BY <1>7, <2>1
  <2>2. ASSUME NEW s \in Salts, state[st].salt \in {NoSalt, s},
               Section(d, st, [state[st] EXCEPT !.salt = s]),
               IF secretIterOf(d) > IterMax THEN Return(p, Failed) ELSE GoesOn(p, s)
        PROVE  IInv'
    <3>1. Return(p, Failed) \/ (GoesOn(p, s) /\ secretIterOf(d) \in Iters)
      BY <1>9, <2>2
    <3>2. QED BY <1>8, <2>2, <3>1
  <2>3. QED BY <1>4, <2>1, <2>2

LEMMA DeriveKeyStep ==
  ASSUME IInv, NEW p \in Proc, DeriveKey(p) PROVE IInv'
<1>1. /\ UNCHANGED conf /\ call[p].at = "derive" /\ CallOK(p)
  BY DEF DeriveKey, IInv
<1>2. PICK e \in Engine : e = call[p].eng
  BY <1>1 DEF CallOK
<1> DEFINE s == call[p].salt
           n == secretIterOf(e)
           ck == [salt |-> s, iter |-> n, by |-> conf[e].by]
           v == Sealed(p, n, ck)
<1>3. /\ s = SaltOf(e) /\ s \in Salts /\ n \in Iters
      /\ conf[e].by \in SecretName /\ call[p].text \in Text
  BY <1>1, <1>2 DEF CallOK
<1>4. ck \in Key /\ ck.salt = SaltOf(e)
  BY <1>3 DEF Key
<1>5. PICK st \in secretStateOf(e) :
        LET key == Derived(state[st], e, s, n)
        IN  /\ Section(e, st, cacheKeyLocked(state[st], secretCacheKey(e, s, n), key))
            /\ \/ store' = store \cup {Sealed(p, n, key)} /\ Return(p, NoText)
               \/ Return(p, Failed) /\ UNCHANGED store
  BY <1>2 DEF DeriveKey
<1>6. st \in State /\ state[st].salt = SaltOf(e)
  BY <1>5, SectionFacts
<1>7. CacheOK(state[st])
  BY <1>6, StatesOK
<1>8. secretCacheKey(e, s, n) = ck /\ Derived(state[st], e, s, n) = ck
  BY <1>7, DerivedKey
<1> DEFINE S == cacheKeyLocked(state[st], ck, ck)
<1>9. Section(e, st, S)
  BY <1>5, <1>8
<1>10. /\ CacheOK(S) /\ S.salt = state[st].salt
       /\ \A k \in DOMAIN S.keys : k \in DOMAIN state[st].keys \/ k = ck
  BY <1>4, <1>7, CacheStep
<1>11. \A k \in DOMAIN S.keys : k \in DOMAIN state[st].keys \/ k.salt = S.salt
  BY <1>4, <1>6, <1>10
<1> HIDE DEF S
<1>12. CASE store' = store \cup {v} /\ Return(p, NoText)
  <2>1. v \in Value
    BY <1>2, <1>3, <1>4, SecretAssumption DEF Sealed, Value, Iters
  <2>2. /\ v.kind = "sealed" /\ v.salt = s /\ v.iter = n
        /\ v.by = conf[e].by /\ v.key = ck
    BY <1>2 DEF Sealed
  <2>3. store \subseteq store' /\ store' \subseteq Value
    BY <1>12, <2>1 DEF IInv, TypeOK
  <2>4. ck = [salt |-> v.salt, iter |-> v.iter, by |-> v.by]
    BY <2>2
  <2> HIDE DEF v, ck
  <2>5. Readable'
    BY <1>3, <1>12, <2>2, <2>4 DEF IInv, Readable
  <2>6. StoreOK'
    BY <1>3, <1>12, <2>2, SecretAssumption DEF IInv, StoreOK
  <2>7. Moves(p, [Idle EXCEPT !.out = NoText]) /\ CallOK(p)'
    BY <1>1, <1>12, <2>3, Returning
  <2>8. QED BY <1>9, <1>10, <1>11, <2>5, <2>6, <2>7, SectionStep
<1>13. CASE UNCHANGED store /\ Return(p, Failed)
  <2>1. Moves(p, [Idle EXCEPT !.out = Failed]) /\ CallOK(p)'
    BY <1>1, <1>13, StoreKept, Returning
  <2> HIDE DEF ck
  <2>2. QED BY <1>9, <1>10, <1>11, <1>13, <2>1, StoreKept, SectionStep
<1>14. QED BY <1>5, <1>8, <1>12, <1>13

LEMMA DecryptStep ==
  ASSUME IInv, NEW p \in Proc, NEW e \in Engine, NEW v \in store, Decrypt(p, e, v)
  PROVE  IInv'
<1>1. UNCHANGED <<conf, store>> /\ v \in Value
  BY DEF Decrypt, IInv, TypeOK
<1>2. ASSUME NEW out \in Text \cup {NoText, Failed}, Return(p, out),
             UNCHANGED <<secret, state>>
      PROVE  IInv'
  <2>1. Moves(p, [Idle EXCEPT !.out = out]) /\ CallOK(p)'
    BY <1>1, <1>2, StoreKept, Returning
  <2>2. QED BY <1>1, <1>2, <2>1, StoreKept, QuietStep
<1>3. CASE /\ conf[e].on /\ ~Refused(e, v) /\ v.kind = "sealed"
           /\ deriveKeyForDecrypt(p, e, v)
  <2>1. PICK st \in secretStateOf(e) :
          /\ Section(e, st, state[st])
          /\ call' = [call EXCEPT ![p] =
               [Idle EXCEPT !.at = "open", !.eng = e, !.value = v,
                            !.key = Derived(state[st], e, v.salt, v.iter)]]
    BY <1>3 DEF deriveKeyForDecrypt
  <2>2. st \in State
    BY <2>1, SectionFacts
  <2>3. CacheOK(state[st])
    BY <2>2, StatesOK
  <2> DEFINE k == Derived(state[st], e, v.salt, v.iter)
             c == [Idle EXCEPT !.at = "open", !.eng = e, !.value = v, !.key = k]
  <2>4. k = [salt |-> v.salt, iter |-> v.iter, by |-> conf[e].by]
    BY <2>3, DerivedKey
  <2>5. v.salt \in Salts /\ v.iter \in Iters /\ conf[e].by \in SecretName
    BY <1>3, ConfType DEF IInv, StoreOK, Refused, Config
  <2>6. k \in Key
    BY <2>4, <2>5 DEF Key
  <2> HIDE DEF k
  <2>7. c \in Call /\ c.at = "open" /\ c.eng = e /\ c.value = v /\ c.key = k
    BY <1>1, <2>6 DEF Idle, Call
  <2>8. call' = [call EXCEPT ![p] = c]
    BY <2>1 DEF k
  <2> HIDE DEF c
  <2>9. call'[p] = c
    BY <2>8 DEF IInv, TypeOK
  <2>10. Moves(p, c)
    BY <1>1, <2>7, <2>8, StoreKept DEF Moves
  <2>11. CallOK(p)'
    <3>1. /\ call'[p].at = "open" /\ call'[p].value = v /\ call'[p].eng = e
          /\ call'[p].key = [salt |-> v.salt, iter |-> v.iter, by |-> conf[e].by]
      BY <2>4, <2>7, <2>9
    <3>2. v \in store' /\ conf'[e] = conf[e]
      BY <1>1
    <3>3. QED BY <1>3, <2>5, <3>1, <3>2 DEF CallOK
  <2>12. QED BY <1>1, <2>1, <2>3, <2>10, <2>11, StoreKept, SectionStep
<1>4. v.text \in Text
  BY <1>1 DEF Value
<1>5. QED BY <1>2, <1>3, <1>4 DEF Decrypt

LEMMA OpenStep ==
  ASSUME IInv, NEW p \in Proc, Open(p) PROVE IInv'
<1>1. UNCHANGED <<conf, store>> /\ call[p].at = "open" /\ CallOK(p)
  BY DEF Open, IInv
<1>2. PICK e \in Engine : e = call[p].eng
  BY <1>1 DEF CallOK
<1> DEFINE v == call[p].value
           ck == [salt |-> v.salt, iter |-> v.iter, by |-> conf[e].by]
<1>3. /\ v \in store /\ v.kind = "sealed" /\ v.iter \in Iters /\ call[p].key = ck
      /\ conf[e].by \in SecretName
  BY <1>1, <1>2 DEF CallOK
<1>4. v \in Value /\ v.salt \in Salts
  BY <1>3 DEF IInv, TypeOK, StoreOK
<1>5. ck \in Key /\ v.text \in Text
  BY <1>3, <1>4 DEF Key, Value
<1>6. ASSUME NEW st \in secretStateOf(e), call[p].key = v.key, Return(p, v.text),
             Section(e, st, cacheKeyLocked(state[st], ck, ck))
      PROVE  IInv'
  <2> DEFINE S == cacheKeyLocked(state[st], ck, ck)
  <2>1. CacheOK(state[st])
    BY <1>6, SectionFacts, StatesOK
  <2>2. /\ CacheOK(S) /\ S.salt = state[st].salt
        /\ \A k \in DOMAIN S.keys : k \in DOMAIN state[st].keys \/ k = ck
    BY <1>5, <2>1, CacheStep
  <2>3. \E u \in store' : u.kind = "sealed" /\ u.key = ck
    BY <1>1, <1>3, <1>6
  <2>4. Moves(p, [Idle EXCEPT !.out = v.text]) /\ CallOK(p)'
    BY <1>1, <1>5, <1>6, StoreKept, Returning
  <2>5. Section(e, st, S)
    BY <1>6
  <2> HIDE DEF S, ck, v
  <2>6. QED BY <1>1, <2>2, <2>3, <2>4, <2>5, StoreKept, SectionStep
<1>7. CASE Return(p, Failed) /\ UNCHANGED <<secret, state>>
  <2>1. Moves(p, [Idle EXCEPT !.out = Failed]) /\ CallOK(p)'
    BY <1>1, <1>7, StoreKept, Returning
  <2>2. QED BY <1>1, <1>7, <2>1, StoreKept, QuietStep
<1>8. secretCacheKey(e, v.salt, v.iter) = ck
  BY DEF secretCacheKey
<1>9. QED BY <1>2, <1>3, <1>6, <1>7, <1>8 DEF Open

\* Only engines no call is using are configured, so what the calls have
\* read of their configuration stays true.
LEMMA ConfigureStep ==
  ASSUME IInv, NEW e \in Engine, Configure(e) PROVE IInv'
<1>1. UNCHANGED <<secret, state, store, call>>
  BY DEF Configure
<1>2. conf' \in [Engine -> Configs]
  BY DEF Configure, IInv, TypeOK
<1>3. TypeOK'
  BY <1>1, <1>2 DEF IInv, TypeOK, IsState, Referred, Blank
<1>4. ASSUME NEW p \in Proc PROVE CallOK(p)'
  <2>1. CASE call[p].at = "idle"
    BY <1>1, <2>1 DEF CallOK, IInv
  <2>2. CASE call[p].at # "idle"
    <3>1. call[p].eng \in Engine /\ call[p].eng # e /\ CallOK(p)
      BY <2>2 DEF Configure, Unused, CallOK, IInv
    <3>2. conf'[call[p].eng] = conf[call[p].eng]
      BY <3>1, SecretAssumption DEF Configure, IInv, TypeOK
    <3>3. QED BY <1>1, <3>1, <3>2 DEF CallOK, SaltOf, secretIterOf
  <2>3. QED BY <2>1, <2>2
<1>5. QED BY <1>1, <1>3, <1>4
     DEF IInv, CacheOrdered, CacheTrue, Readable, StoreOK, OnlyVerifiedCached

\* A copy gives up the state it had, if no other engine has it, and no
\* call uses the copy.
LEMMA CopyStep ==
  ASSUME IInv, NEW e \in Engine, NEW d \in Engine, Copy(e, d) PROVE IInv'
<1>1. UNCHANGED <<store, call>> /\ \A p \in Proc : call[p].eng # d
  BY DEF Copy, Unused
<1>2. /\ conf' = [conf EXCEPT ![d] = conf[e]] /\ secret' = [secret EXCEPT ![d] = secret[e]]
      /\ conf \in [Engine -> Configs] /\ secret \in [Engine -> State \cup {NoState}]
  BY DEF Copy, IInv, TypeOK
<1>3. /\ conf' \in [Engine -> Configs] /\ secret' \in [Engine -> State \cup {NoState}]
      /\ \A f \in Engine \ {d} : conf'[f] = conf[f] /\ secret'[f] = secret[f]
  BY <1>2
<1>4. /\ DOMAIN state' = State
      /\ \A st \in State : state'[st] = (IF st \in Referred' THEN state[st] ELSE Blank)
  <2>1. state' = [st \in State |-> IF \E f \in Engine : secret'[f] = st
                                   THEN state[st] ELSE Blank]
    BY DEF Copy
  <2>2. \A st \in State : st \in Referred' <=> \E f \in Engine : secret'[f] = st
    BY DEF Referred
  <2>3. QED BY <2>1, <2>2
<1>5. \A st \in State : CacheOK(state'[st])
  BY <1>4, BlankOK, StatesOK
<1>6. TypeOK'
  <2>1. \A st \in State : IsState(state'[st])
    BY <1>5 DEF CacheOK
  <2>2. \A st \in State : IsState(state[st])'
    BY <2>1 DEF IsState
  <2>3. \A st \in State \ Referred' : state'[st] = Blank'
    BY <1>4 DEF Blank
  <2>4. QED BY <1>1, <1>3, <1>4, <2>2, <2>3 DEF IInv, TypeOK
<1>7. CacheOrdered' /\ CacheTrue'
  BY <1>5 DEF CacheOrdered, CacheTrue, CacheOK, NoRepeat, Listed
<1>8. OnlyVerifiedCached'
  <2>1. ASSUME NEW st \in State, NEW k \in DOMAIN state'[st].keys
        PROVE  state'[st] = state[st]
    BY <1>4, <2>1, BlankOK
  <2>2. QED BY <1>1, <2>1 DEF IInv, OnlyVerifiedCached
<1>9. ASSUME NEW p \in Proc PROVE CallOK(p)'
  <2>1. CallOK(p)
    BY DEF IInv
  <2>2. CASE call[p].at = "idle"
    BY <1>1, <2>1, <2>2 DEF CallOK
  <2>3. CASE call[p].at # "idle"
    <3>1. PICK f \in Engine : f = call[p].eng
      BY <2>1, <2>3 DEF CallOK
    <3>2. f # d /\ conf'[f] = conf[f] /\ secret'[f] = secret[f]
      BY <1>1, <1>3, <3>1
    <3>3. secret[f] # NoState => state'[secret[f]] = state[secret[f]]
      BY <1>2, <1>4, <3>2 DEF Referred
    <3>4. QED BY <1>1, <2>1, <2>3, <3>1, <3>2, <3>3 DEF CallOK, SaltOf, secretIterOf
  <2>4. QED BY <2>2, <2>3
<1>10. Readable' /\ StoreOK'
  BY <1>1, StoreKept
<1>11. QED BY <1>6, <1>7, <1>8, <1>9, <1>10 DEF IInv

LEMMA RestartStep == ASSUME IInv, Restart PROVE IInv'
<1>1. Idle \in Call /\ Idle.at = "idle" /\ Idle.eng = NoEngine
  BY DEF Idle, Call
<1>2. /\ secret' = [e \in Engine |-> NoState] /\ state' = [st \in State |-> Blank]
      /\ call' = [p \in Proc |-> Idle] /\ UNCHANGED <<conf, store>>
  BY DEF Restart
<1>3. \A st \in State : state'[st] = Blank /\ CacheOK(state'[st]) /\ IsState(state'[st])
  BY <1>2, BlankOK
<1>4. TypeOK'
  <2>1. \A st \in State : IsState(state[st])' /\ state'[st] = Blank'
    BY <1>3 DEF IsState, Blank
  <2>2. QED BY <1>1, <1>2, <2>1 DEF IInv, TypeOK
<1>5. CacheOrdered' /\ CacheTrue'
  BY <1>3 DEF CacheOrdered, CacheTrue, CacheOK, NoRepeat, Listed
<1>6. OnlyVerifiedCached'
  BY <1>3, BlankOK DEF OnlyVerifiedCached
<1>7. Readable' /\ StoreOK'
  BY <1>2, StoreKept
<1>8. \A p \in Proc : CallOK(p)'
  BY <1>1, <1>2 DEF CallOK
<1>9. QED BY <1>4, <1>5, <1>6, <1>7, <1>8 DEF IInv

LEMMA StepInv == ASSUME IInv, [Next]_vars PROVE IInv'
<1>1. ASSUME NEW p \in Proc, CallStep(p) PROVE IInv'
  BY <1>1, EncryptStep, WriteSaltStep, DeriveKeyStep, DecryptStep, OpenStep
  DEF CallStep
<1>2. CASE UNCHANGED vars
  BY <1>2 DEF vars, IInv, TypeOK, CacheOrdered, CacheTrue, Readable, StoreOK,
     OnlyVerifiedCached, CallOK, secretIterOf, SaltOf, IsState, Referred, Blank
<1>3. QED BY <1>1, <1>2, ConfigureStep, CopyStep, RestartStep DEF Next

-----------------------------------------------------------------------------
(* The theorems.                                                           *)

\* The inductive invariant: the invariants of the runs, what each call has
\* established, and what the values of the column carry.
THEOREM Invariance == Spec => []IInv
  BY InitInv, StepInv, PTL DEF Spec

\* Types.
THEOREM TypeCorrect == Spec => []TypeOK
<1>1. IInv => TypeOK
  BY DEF IInv
<1>2. QED BY <1>1, Invariance, PTL

\* Keys and Order agree and stay within secretCacheMax.
THEOREM Ordered == Spec => []CacheOrdered
<1>1. IInv => CacheOrdered
  BY DEF IInv
<1>2. QED BY <1>1, Invariance, PTL

\* The cache never gives the key of another secret, salt or iteration count.
THEOREM NeverStale == Spec => []CacheTrue
<1>1. IInv => CacheTrue
  BY DEF IInv
<1>2. QED BY <1>1, Invariance, PTL

\* What the engines have encrypted stays readable across rotations of other
\* engines, evictions and restarts.
THEOREM AllReadable == Spec => []Readable
<1>1. IInv => Readable
  BY DEF IInv
<1>2. QED BY <1>1, Invariance, PTL

\* Ciphertexts that do not authenticate cannot fill the cache.
THEOREM OnlyVerified == Spec => []OnlyVerifiedCached
<1>1. IInv => OnlyVerifiedCached
  BY DEF IInv
<1>2. QED BY <1>1, Invariance, PTL

DecryptsExactly ==
  \A p \in Proc :
    call[p].at = "open" /\ call'[p].at = "idle" /\ call'[p].out # NoText =>
      LET v == call[p].value
      IN  call'[p].out = (IF v.by = conf[call[p].eng].by THEN v.text ELSE Failed)

\* Decryption gives the plaintext exactly to engines with the writer's secret.
THEOREM Exact == Spec => DecryptExact
<1>1. ASSUME IInv, [Next]_vars PROVE DecryptsExactly \/ UNCHANGED vars
  <2>1. SUFFICES ASSUME ~UNCHANGED vars, NEW p \in Proc,
                        call[p].at = "open", call'[p].at = "idle", call'[p].out # NoText
                 PROVE  call'[p].out = (IF call[p].value.by = conf[call[p].eng].by
                                        THEN call[p].value.text ELSE Failed)
    BY DEF DecryptsExactly
  <2> DEFINE v == call[p].value
  <2>2. /\ v \in store /\ v.iter \in Iters /\ conf[call[p].eng].by \in SecretName
        /\ call[p].key = [salt |-> v.salt, iter |-> v.iter, by |-> conf[call[p].eng].by]
    BY <1>1, <2>1 DEF IInv, CallOK
  <2>3. /\ v.by # NoSecret => v.key = [salt |-> v.salt, iter |-> v.iter, by |-> v.by]
        /\ v.by = NoSecret => v.key = NoKey
    BY <1>1, <2>2 DEF IInv, Readable, StoreOK
  <2>4. NoSecret \notin SecretName /\ NoKey \notin Key /\ call[p].key \in Key
    <3>1. v.salt \in Salts
      BY <1>1, <2>1 DEF IInv, CallOK, StoreOK
    <3>2. QED BY <2>2, <3>1, SecretAssumption DEF Key
  <2>5. call[p].key = v.key <=> v.by = conf[call[p].eng].by
    BY <2>2, <2>3, <2>4
  <2>6. CASE Open(p)
    <3>1. \A out : Return(p, out) => call'[p].out = out
      BY <1>1 DEF Return, Idle, IInv, TypeOK
    <3>2. QED BY <2>5, <2>6, <3>1 DEF Open
  <2>7. ASSUME NEW q \in Proc, q # p, CallStep(q) PROVE FALSE
    <3>1. /\ \A e \in Engine, t \in Text : Encrypt(q, e, t) => call'[p] = call[p]
          /\ WriteSalt(q) => call'[p] = call[p]
          /\ DeriveKey(q) => call'[p] = call[p]
      BY <1>1, <2>7 DEF Encrypt, WriteSalt, GoesOn, DeriveKey, Return, IInv, TypeOK
    <3>2. /\ \A e \in Engine, u \in store : Decrypt(q, e, u) => call'[p] = call[p]
          /\ Open(q) => call'[p] = call[p]
      BY <1>1, <2>7 DEF Decrypt, deriveKeyForDecrypt, Open, Return, IInv, TypeOK
    <3>3. QED BY <2>1, <2>7, <3>1, <3>2 DEF CallStep
  <2>8. CASE Restart
    BY <2>1, <2>8 DEF Restart, Idle
  <2>9. ASSUME NEW e \in Engine, Configure(e) PROVE FALSE
    BY <2>1, <2>9 DEF Configure
  <2>10. ASSUME NEW e \in Engine, NEW d \in Engine, Copy(e, d) PROVE FALSE
    BY <2>1, <2>10 DEF Copy
  <2>11. CallStep(p) => Open(p)
    BY <2>1 DEF CallStep, Encrypt, WriteSalt, DeriveKey, Decrypt
  <2>12. QED BY <1>1, <2>1, <2>6, <2>7, <2>8, <2>9, <2>10, <2>11 DEF Next
<1>2. IInv /\ [Next]_vars => [DecryptsExactly]_vars
  BY <1>1
<1>3. Spec => [][DecryptsExactly]_vars
  BY <1>2, Invariance, PTL DEF Spec
<1>4. QED BY <1>3, PTL DEF DecryptExact, DecryptsExactly

KeepsSalt ==
  \A e \in Engine :
    /\ secret[e] # NoState /\ secret'[e] # secret[e] => Unused(e)'
    /\ SaltOf(e) # NoSalt /\ secret'[e] = secret[e] => SaltOf(e)' = SaltOf(e)
    /\ \A p \in Proc : call'[p].at = "derive" /\ call'[p].eng = e
                          => call'[p].salt = SaltOf(e)'

\* A section under the mutex changes neither a pointer nor a salt that is set.
LEMMA SectionKeeps ==
  ASSUME IInv, NEW e \in Engine, NEW st \in secretStateOf(e), NEW S, Section(e, st, S),
         state[st].salt # NoSalt => S.salt = state[st].salt
  PROVE  SaltsKept /\ \A d \in Engine : secret[d] # NoState => secret'[d] = secret[d]
  BY SectionFacts, SectionSalts

\* No step of a call does.
LEMMA CallKeeps ==
  ASSUME IInv, NEW p \in Proc, CallStep(p)
  PROVE  SaltsKept /\ \A d \in Engine : secret[d] # NoState => secret'[d] = secret[d]
<1>1. ASSUME UNCHANGED <<secret, state>>
      PROVE  SaltsKept /\ \A d \in Engine : secret[d] # NoState => secret'[d] = secret[d]
  BY <1>1 DEF SaltsKept, SaltOf
<1>2. ASSUME NEW e \in Engine, NEW t \in Text, Encrypt(p, e, t)
      PROVE  UNCHANGED <<secret, state>>
  BY <1>2 DEF Encrypt
<1>3. ASSUME NEW e \in Engine, NEW st \in secretStateOf(e), NEW ck \in Key,
             Section(e, st, cacheKeyLocked(state[st], ck, ck))
      PROVE  SaltsKept /\ \A d \in Engine : secret[d] # NoState => secret'[d] = secret[d]
  <2>1. CacheOK(state[st])
    BY <1>3, SectionFacts, StatesOK
  <2>2. cacheKeyLocked(state[st], ck, ck).salt = state[st].salt
    BY <2>1, CacheStep
  <2>3. QED BY <1>3, <2>2, SectionKeeps
<1>4. ASSUME NEW e \in Engine, NEW v \in store, Decrypt(p, e, v)
      PROVE  SaltsKept /\ \A d \in Engine : secret[d] # NoState => secret'[d] = secret[d]
  <2>1. \/ UNCHANGED <<secret, state>>
        \/ \E st \in secretStateOf(e) : Section(e, st, state[st])
    BY <1>4 DEF Decrypt, deriveKeyForDecrypt
  <2>2. QED BY <1>1, <2>1, SectionKeeps
<1>5. ASSUME WriteSalt(p)
      PROVE  SaltsKept /\ \A d \in Engine : secret[d] # NoState => secret'[d] = secret[d]
  <2>1. PICK e \in Engine : e = call[p].eng
    BY <1>5 DEF WriteSalt, IInv, CallOK
  <2>2. PICK st \in secretStateOf(e) :
          \/ Section(e, st, state[st])
          \/ \E s \in Salts : /\ state[st].salt \in {NoSalt, s}
                              /\ Section(e, st, [state[st] EXCEPT !.salt = s])
    BY <1>5, <2>1 DEF WriteSalt
  <2>3. CASE Section(e, st, state[st])
    BY <2>3, SectionKeeps
  <2>4. ASSUME NEW s \in Salts, state[st].salt \in {NoSalt, s},
               Section(e, st, [state[st] EXCEPT !.salt = s])
        PROVE  SaltsKept /\ \A d \in Engine : secret[d] # NoState => secret'[d] = secret[d]
    <3>1. [state[st] EXCEPT !.salt = s].salt = s
      BY <2>4, SectionFacts, StatesOK, SaltWritten
    <3>2. QED BY <2>4, <3>1, SectionKeeps
  <2>5. QED BY <2>2, <2>3, <2>4
<1>6. ASSUME DeriveKey(p)
      PROVE  SaltsKept /\ \A d \in Engine : secret[d] # NoState => secret'[d] = secret[d]
  <2>1. PICK e \in Engine : e = call[p].eng
    BY <1>6 DEF DeriveKey, IInv, CallOK
  <2> DEFINE s == call[p].salt
             n == secretIterOf(e)
             ck == [salt |-> s, iter |-> n, by |-> conf[e].by]
  <2>2. s \in Salts /\ n \in Iters /\ conf[e].by \in SecretName
    BY <1>6, <2>1 DEF DeriveKey, IInv, CallOK
  <2>3. ck \in Key
    BY <2>2 DEF Key
  <2>4. PICK st \in secretStateOf(e) :
          Section(e, st, cacheKeyLocked(state[st], secretCacheKey(e, s, n),
                                        Derived(state[st], e, s, n)))
    BY <1>6, <2>1 DEF DeriveKey
  <2>5. secretCacheKey(e, s, n) = ck /\ Derived(state[st], e, s, n) = ck
    BY <2>4, SectionFacts, StatesOK, DerivedKey
  <2>6. Section(e, st, cacheKeyLocked(state[st], ck, ck))
    BY <2>4, <2>5
  <2> HIDE DEF ck
  <2>7. QED BY <1>3, <2>3, <2>6
<1>7. ASSUME Open(p)
      PROVE  SaltsKept /\ \A d \in Engine : secret[d] # NoState => secret'[d] = secret[d]
  <2>1. CallOK(p) /\ call[p].at = "open"
    BY <1>7 DEF Open, IInv
  <2>2. PICK e \in Engine : e = call[p].eng
    BY <2>1 DEF CallOK
  <2> DEFINE v == call[p].value
             ck == [salt |-> v.salt, iter |-> v.iter, by |-> conf[e].by]
  <2>3. /\ v \in store /\ v.kind = "sealed" /\ v.iter \in Iters /\ call[p].key = ck
        /\ conf[e].by \in SecretName
    BY <2>1, <2>2 DEF CallOK
  <2>4. ck \in Key
    BY <2>3 DEF IInv, StoreOK, Key
  <2>5. \/ UNCHANGED <<secret, state>>
        \/ \E st \in secretStateOf(e) :
             Section(e, st, cacheKeyLocked(state[st], ck, ck))
    BY <1>7, <2>2, <2>3 DEF Open, secretCacheKey
  <2> HIDE DEF ck, v
  <2>6. QED BY <1>1, <1>3, <2>4, <2>5
<1>8. QED BY <1>1, <1>2, <1>4, <1>5, <1>6, <1>7 DEF CallStep

\* An engine keeps its state, and a state its salt, under every call; an
\* encryption goes on with its engine's salt.
THEOREM Salted == Spec => SaltKept
<1>1. ASSUME IInv, [Next]_vars PROVE KeepsSalt
  <2>1. /\ \A p \in Proc : CallOK(p)'
        /\ secret \in [Engine -> State \cup {NoState}]
    BY <1>1, StepInv DEF IInv, TypeOK
  <2>2. \A e \in Engine, p \in Proc :
          call'[p].at = "derive" /\ call'[p].eng = e => call'[p].salt = SaltOf(e)'
    BY <2>1 DEF CallOK, SaltOf
  <2>3. ASSUME NEW e \in Engine
        PROVE  /\ secret[e] # NoState /\ secret'[e] # secret[e] => Unused(e)'
               /\ SaltOf(e) # NoSalt /\ secret'[e] = secret[e] => SaltOf(e)' = SaltOf(e)
    <3>1. ASSUME NEW p \in Proc, CallStep(p)
          PROVE  /\ secret[e] # NoState => secret'[e] = secret[e]
                 /\ SaltOf(e) # NoSalt => SaltOf(e)' = SaltOf(e)
      BY <1>1, <3>1, CallKeeps DEF SaltsKept
    <3>2. ASSUME NEW f \in Engine, Configure(f)
          PROVE  secret'[e] = secret[e] /\ SaltOf(e)' = SaltOf(e)
      BY <3>2 DEF Configure, SaltOf
    <3>3. ASSUME NEW f \in Engine, NEW d \in Engine, Copy(f, d)
          PROVE  /\ secret'[e] # secret[e] => Unused(e)'
                 /\ SaltOf(e) # NoSalt /\ secret'[e] = secret[e] => SaltOf(e)' = SaltOf(e)
      <4>1. /\ secret' = [secret EXCEPT ![d] = secret[f]] /\ UNCHANGED call /\ Unused(d)
            /\ state' = [st \in State |-> IF \E g \in Engine : secret'[g] = st
                                          THEN state[st] ELSE Blank]
        BY <3>3 DEF Copy
      <4>2. secret'[e] # secret[e] => e = d
        BY <2>1, <4>1
      <4>3. Unused(d)'
        BY <4>1 DEF Unused
      <4>4. SaltOf(e) # NoSalt /\ secret'[e] = secret[e] => SaltOf(e)' = SaltOf(e)
        BY <2>1, <4>1 DEF SaltOf
      <4>5. QED BY <4>2, <4>3, <4>4
    <3>4. ASSUME Restart
          PROVE  /\ Unused(e)'
                 /\ SaltOf(e) # NoSalt /\ secret'[e] = secret[e] => SaltOf(e)' = SaltOf(e)
      <4>1. \A p \in Proc : call'[p].eng = NoEngine
        BY <3>4 DEF Restart, Idle
      <4>2. Unused(e)'
        BY <4>1, SecretAssumption DEF Unused
      <4>3. secret'[e] = NoState
        BY <3>4 DEF Restart
      <4>4. QED BY <4>2, <4>3 DEF SaltOf
    <3>5. CASE UNCHANGED vars
      BY <3>5 DEF vars, SaltOf
    <3>6. QED BY <1>1, <3>1, <3>2, <3>3, <3>4, <3>5 DEF Next
  <2>4. QED BY <2>2, <2>3 DEF KeepsSalt
<1>2. IInv /\ [Next]_vars => [KeepsSalt]_vars
  BY <1>1
<1>3. Spec => [][KeepsSalt]_vars
  BY <1>2, Invariance, PTL DEF Spec
<1>4. QED BY <1>3, PTL DEF SaltKept, KeepsSalt
=============================================================================
