----------------------------- MODULE UniSecret -----------------------------
(***************************************************************************)
(* The built-in encryption of secreton columns: the secretState of an      *)
(* engine, with the write salt and the bounded cache of derived keys, and  *)
(* the ciphertexts, which outlive the process and carry their salt and     *)
(* iteration count.                                                        *)
(*                                                                         *)
(* An engine refers to its secretState by a pointer, which is nil until an *)
(* encryption or a decryption of that engine creates one.  A copy of the   *)
(* engine, which legacy callers make for each request, copies SecretOn,    *)
(* SecretBy, SecretIter and the pointer: it shares the state if there is   *)
(* one already, and else gets one of its own.  Any goroutine may use any   *)
(* engine; configuration changes, and an engine is overwritten by a copy,  *)
(* only between the calls made on it, as documented.  An action is one     *)
(* section under secretState.mu together with secretStateOf before it and  *)
(* the goroutine's own computation up to the next section, so calls        *)
(* interleave at the mutex.                                                *)
(*                                                                         *)
(* PBKDF2 is injective, GCM opens a ciphertext with the key that sealed it *)
(* and no other, and the 8-byte fingerprint tells the secrets apart.  The  *)
(* application's SecretHook, which replaces all of this, is not modelled.  *)
(***************************************************************************)
EXTENDS Naturals, Integers, Sequences, FiniteSets

CONSTANTS
  Proc,         \* goroutines
  Engine,       \* an engine and its copies, or other engines
  State,        \* the addresses of the secretStates
  Configs,      \* the configurations the application gives an engine
  SecretName,   \* the non-empty values of SecretBy
  Salts, Text,
  CacheMax,     \* secretCacheMax
  IterMax,      \* secretIterMax
  IterDefault,  \* UniSecretIter
  Existing,     \* what the column holds before the first process starts
  MaxStored,    \* bound on the values in the column
  NoEngine, NoState, NoSalt, NoSecret, NoKey, NoText, NoValue,
  Failed        \* outcome of a call: an error

Iters == 1..IterMax
Key == [salt : Salts, iter : Iters, by : SecretName]
Config == [on : BOOLEAN, by : SecretName \cup {NoSecret}, iter : Int]

\* A value of the column.  "broken" stands for a tagged value that is no
\* base64 or too short, "v1" for the envelope of a SecretHook.  by is the
\* secret of the engine that wrote the value, key what sealed it; they are
\* NoSecret and NoKey in a ciphertext that was tampered with or made up.
Value == [kind : {"plain", "broken", "v1", "sealed"}, text : Text,
          salt : Salts \cup {NoSalt}, iter : Nat,
          by : SecretName \cup {NoSecret}, key : Key \cup {NoKey}]

ASSUME SecretAssumption ==
  /\ Configs \subseteq Config
  /\ CacheMax \in Nat \ {0}
  /\ IterMax \in Nat
  /\ IterDefault \in Iters
  /\ MaxStored \in Nat
  /\ Existing \subseteq Value
  /\ \A v \in Existing : v.by = NoSecret /\ v.key = NoKey
  /\ \A v \in Existing : v.kind = "sealed" => v.salt \in Salts
  /\ NoEngine \notin Engine /\ NoState \notin State
  /\ NoSalt \notin Salts /\ NoSecret \notin SecretName /\ NoKey \notin Key
  /\ {Failed, NoText} \cap Text = {}
  /\ NoValue \notin Value

VARIABLES
  conf,    \* SecretOn, SecretBy and SecretIter of each engine
  secret,  \* the pointer of each engine to its secretState
  state,   \* the secretStates; an address no engine refers to is Blank
  store,   \* the values in the column
  call     \* where each goroutine is, and what its last call gave: an error, or
           \* the text that was decrypted, or neither

vars == <<conf, secret, state, store, call>>

Blank == [salt |-> NoSalt, keys |-> <<>>, order |-> <<>>]

Call == [at : {"idle", "salt", "derive", "open"}, eng : Engine \cup {NoEngine},
         value : Value \cup {NoValue}, text : Text \cup {NoText},
         salt : Salts \cup {NoSalt}, key : Key \cup {NoKey},
         out : Text \cup {NoText, Failed}]

Idle == [at |-> "idle", eng |-> NoEngine, value |-> NoValue, text |-> NoText,
         salt |-> NoSalt, key |-> NoKey, out |-> NoText]

IsState(S) ==
  /\ DOMAIN S = {"salt", "keys", "order"}
  /\ S.salt \in Salts \cup {NoSalt}
  /\ DOMAIN S.keys \subseteq Key /\ \A k \in DOMAIN S.keys : S.keys[k] \in Key
  /\ S.order \in Seq(Key)

Referred == {secret[e] : e \in Engine}

TypeOK ==
  /\ conf \in [Engine -> Configs]
  /\ secret \in [Engine -> State \cup {NoState}]
  /\ DOMAIN state = State
  /\ \A st \in State : IsState(state[st])
  /\ \A st \in State \ Referred : state[st] = Blank
  /\ store \subseteq Value
  /\ call \in [Proc -> Call]

-----------------------------------------------------------------------------
(* The secret state and the derived keys.                                  *)

\* Faulty variant: a state is made without looking for one.
secretStateNew(e) == State \ Referred

\* The pointer of the engine or, if it is nil, that of a new state.
secretStateOf(e) == IF secret[e] = NoState THEN State \ Referred ELSE {secret[e]}

\* Engine e refers to st, whose new content is S.
Section(e, st, S) ==
  /\ secret' = [secret EXCEPT ![e] = st]
  /\ state' = [state EXCEPT ![st] = S]

secretIterOf(e) == IF conf[e].iter <= 0 THEN IterDefault ELSE conf[e].iter

Derive(e, s, n) == [salt |-> s, iter |-> n, by |-> conf[e].by]

\* Faulty variant: the fingerprint of SecretBy is not part of the cache key.
secretCacheKeySaltOnly(e, s, n) ==
  [salt |-> s, iter |-> n, by |-> CHOOSE k \in SecretName : TRUE]

\* The key of the cache: salt, iterations and the fingerprint of SecretBy.
secretCacheKey(e, s, n) == [salt |-> s, iter |-> n, by |-> conf[e].by]

\* What a lookup in S finds or, when it misses, what PBKDF2 computes.
Derived(S, e, s, n) ==
  LET ck == secretCacheKey(e, s, n)
  IN  IF ck \in DOMAIN S.keys THEN S.keys[ck] ELSE Derive(e, s, n)

\* The oldest key makes room if the cache is full.
Evict(S) ==
  IF Len(S.order) >= CacheMax
  THEN [S EXCEPT !.order = Tail(@),
                 !.keys = [k \in DOMAIN @ \ {Head(S.order)} |-> @[k]]]
  ELSE S

Insert(S, ck, key) ==
  [S EXCEPT !.order = Append(@, ck),
            !.keys = [k \in DOMAIN @ \cup {ck} |-> IF k = ck THEN key ELSE @[k]]]

\* Faulty variant: a key that is in the cache already is appended again.
cacheKeyAgain(S, ck, key) == Insert(Evict(S), ck, key)

\* Insert a key and evict the oldest one, unless the key is there.
cacheKeyLocked(S, ck, key) ==
  IF ck \in DOMAIN S.keys THEN S ELSE Insert(Evict(S), ck, key)

-----------------------------------------------------------------------------
(* Calls.                                                                  *)

Return(p, out) == call' = [call EXCEPT ![p] = [Idle EXCEPT !.out = out]]

Plain(t) == [kind |-> "plain", text |-> t, salt |-> NoSalt, iter |-> 0,
             by |-> NoSecret, key |-> NoKey]

\* Secret and SecretDefault, up to writeSalt.
Encrypt(p, e, t) ==
  /\ call[p].at = "idle"
  /\ Cardinality(store) < MaxStored
  /\ \/ /\ ~conf[e].on
        /\ store' = store \cup {Plain(t)}
        /\ Return(p, NoText)
     \/ /\ conf[e].on /\ conf[e].by = NoSecret
        /\ Return(p, Failed)
        /\ UNCHANGED store
     \/ /\ conf[e].on /\ conf[e].by # NoSecret
        /\ call' = [call EXCEPT ![p] =
                      [Idle EXCEPT !.at = "salt", !.eng = e, !.text = t]]
        /\ UNCHANGED store
  /\ UNCHANGED <<conf, secret, state>>

GoesOn(p, s) == call' = [call EXCEPT ![p].at = "derive", ![p].salt = s]

\* Faulty variant: the limit on the iterations is left to the reader.
WriteSaltAnyIter(p) ==
  LET e == call[p].eng
  IN  /\ call[p].at = "salt"
      /\ \E st \in secretStateOf(e), s \in Salts :
           /\ state[st].salt \in {NoSalt, s}
           /\ Section(e, st, [state[st] EXCEPT !.salt = s])
           /\ GoesOn(p, s)
      /\ UNCHANGED <<conf, store>>

\* writeSalt, which keeps the salt there is and otherwise draws one, or finds
\* that the random source fails; then the limit on the iterations.
WriteSalt(p) ==
  LET e == call[p].eng
  IN  /\ call[p].at = "salt"
      /\ \E st \in secretStateOf(e) :
           \/ /\ state[st].salt = NoSalt
              /\ Section(e, st, state[st])
              /\ Return(p, Failed)
           \/ \E s \in Salts :
                /\ state[st].salt \in {NoSalt, s}
                /\ Section(e, st, [state[st] EXCEPT !.salt = s])
                /\ IF secretIterOf(e) > IterMax THEN Return(p, Failed)
                   ELSE GoesOn(p, s)
      /\ UNCHANGED <<conf, store>>

Sealed(p, n, key) ==
  [kind |-> "sealed", text |-> call[p].text, salt |-> call[p].salt, iter |-> n,
   by |-> conf[call[p].eng].by, key |-> key]

\* deriveKey; then the value is sealed and written, or the nonce fails.
DeriveKey(p) ==
  LET e == call[p].eng
      s == call[p].salt
      n == secretIterOf(e)
  IN  /\ call[p].at = "derive"
      /\ \E st \in secretStateOf(e) :
           LET key == Derived(state[st], e, s, n)
           IN  /\ Section(e, st,
                          cacheKeyLocked(state[st], secretCacheKey(e, s, n), key))
               /\ \/ /\ store' = store \cup {Sealed(p, n, key)}
                     /\ Return(p, NoText)
                  \/ /\ Return(p, Failed)
                     /\ UNCHANGED store
      /\ UNCHANGED conf

\* What Secret and SecretDefault report before they look for a key.
Refused(e, v) ==
  \/ v.kind \in {"v1", "broken"}
  \/ conf[e].by = NoSecret
  \/ v.kind = "sealed" /\ v.iter \notin Iters

\* Faulty variant: the key is cached before the ciphertext is authenticated.
deriveKeyCachesFirst(p, e, v) ==
  \E st \in secretStateOf(e) :
    LET key == Derived(state[st], e, v.salt, v.iter)
    IN  /\ Section(e, st, cacheKeyLocked(state[st],
                            secretCacheKey(e, v.salt, v.iter), key))
        /\ call' = [call EXCEPT ![p] =
                      [Idle EXCEPT !.at = "open", !.eng = e, !.value = v, !.key = key]]

deriveKeyForDecrypt(p, e, v) ==
  \E st \in secretStateOf(e) :
    /\ Section(e, st, state[st])
    /\ call' = [call EXCEPT ![p] =
                  [Idle EXCEPT !.at = "open", !.eng = e, !.value = v,
                               !.key = Derived(state[st], e, v.salt, v.iter)]]

\* Secret and SecretDefault on a value that was read, up to GCMOpen.
Decrypt(p, e, v) ==
  /\ call[p].at = "idle"
  /\ \/ /\ \/ ~conf[e].on /\ Return(p, NoText)
           \/ conf[e].on /\ Refused(e, v) /\ Return(p, Failed)
           \/ conf[e].on /\ ~Refused(e, v) /\ v.kind = "plain" /\ Return(p, v.text)
        /\ UNCHANGED <<secret, state>>
     \/ /\ conf[e].on /\ ~Refused(e, v) /\ v.kind = "sealed"
        /\ deriveKeyForDecrypt(p, e, v)
  /\ UNCHANGED <<conf, store>>

\* GCMOpen, and cacheVerifiedKey when it succeeds.
Open(p) ==
  LET e == call[p].eng
      v == call[p].value
  IN  /\ call[p].at = "open"
      /\ \/ /\ call[p].key = v.key
            /\ \E st \in secretStateOf(e) :
                 Section(e, st, cacheKeyLocked(state[st],
                                  secretCacheKey(e, v.salt, v.iter), call[p].key))
            /\ Return(p, v.text)
         \/ /\ call[p].key # v.key
            /\ Return(p, Failed)
            /\ UNCHANGED <<secret, state>>
      /\ UNCHANGED <<conf, store>>

-----------------------------------------------------------------------------
(* The application and the process.                                        *)

Unused(e) == \A p \in Proc : call[p].eng # e

\* SecretOn, SecretBy or SecretIter is assigned while no call uses the engine.
Configure(e) ==
  /\ Unused(e)
  /\ conf' \in {[conf EXCEPT ![e] = c] : c \in Configs}
  /\ UNCHANGED <<secret, state, store, call>>

\* Engine d becomes a copy of e, with its configuration and its pointer; a
\* state that was d's alone is garbage.
Copy(e, d) ==
  /\ Unused(d)
  /\ conf' = [conf EXCEPT ![d] = conf[e]]
  /\ secret' = [secret EXCEPT ![d] = secret[e]]
  /\ state' = [st \in State |->
                 IF \E f \in Engine : secret'[f] = st THEN state[st] ELSE Blank]
  /\ UNCHANGED <<store, call>>

\* The process ends at any point and another one starts.
Restart ==
  /\ secret' = [e \in Engine |-> NoState]
  /\ state' = [st \in State |-> Blank]
  /\ call' = [p \in Proc |-> Idle]
  /\ UNCHANGED <<conf, store>>

Init ==
  /\ conf \in [Engine -> Configs]
  /\ secret = [e \in Engine |-> NoState]
  /\ state = [st \in State |-> Blank]
  /\ store = Existing
  /\ call = [p \in Proc |-> Idle]

CallStep(p) ==
  \/ \E e \in Engine :
       \/ \E t \in Text : Encrypt(p, e, t)
       \/ \E v \in store : Decrypt(p, e, v)
  \/ WriteSalt(p)
  \/ DeriveKey(p)
  \/ Open(p)

Next ==
  \/ \E p \in Proc : CallStep(p)
  \/ \E e \in Engine : Configure(e)
  \/ \E e, d \in Engine : Copy(e, d)
  \/ Restart

Spec == Init /\ [][Next]_vars

-----------------------------------------------------------------------------
(* Properties.                                                             *)

\* Order lists the cached keys once each, no more than secretCacheMax of
\* them, whatever calls miss on the same key at the same time (cacheKeyLocked,
\* UniSecret.go): a key listed twice would be evicted while it is in use and
\* its second entry would then evict nothing.
CacheOrdered ==
  \A st \in State :
    LET order == state[st].order
    IN  /\ Len(order) <= CacheMax
        /\ \A i, j \in 1..Len(order) : order[i] = order[j] => i = j
        /\ DOMAIN state[st].keys = {order[i] : i \in 1..Len(order)}

\* A cached key is the key PBKDF2 gives for what it is filed under, so that
\* changing SecretBy takes effect at once on every engine that shares the
\* cache (secretCacheKey; TestSecretRotateKeyTakesEffect).
CacheTrue ==
  \A st \in State : \A k \in DOMAIN state[st].keys : state[st].keys[k] = k

\* Every value an engine has encrypted, in this process or an earlier one,
\* can be decrypted from what it carries by an engine with the same
\* SecretBy: the embedded iterations are ones the reader accepts and the key
\* is the one the reader will derive (SecretDefault).
Readable ==
  \A v \in store : v.by # NoSecret =>
    /\ v.kind = "sealed" /\ v.iter \in Iters
    /\ v.key = [salt |-> v.salt, iter |-> v.iter, by |-> v.by]

\* A ciphertext that does not authenticate leaves nothing in the cache: a
\* cached key has the write salt of its state, or opens a value of the
\* column (deriveKeyForDecrypt; TestSecretCacheRejectsInvalidCiphertextsAndEvicts).
OnlyVerifiedCached ==
  \A st \in State : \A k \in DOMAIN state[st].keys :
    \/ k.salt = state[st].salt
    \/ \E v \in store : v.kind = "sealed" /\ v.key = state[st].keys[k]

\* A call that gets as far as GCMOpen gives the plaintext exactly when the
\* ciphertext was written under the SecretBy of the engine that reads it,
\* and fails otherwise: whatever the cache holds, and whatever other engines
\* do meanwhile (SecretDefault, README "4.1").
DecryptExact ==
  [][\A p \in Proc :
       call[p].at = "open" /\ call'[p].at = "idle" /\ call'[p].out # NoText =>
         LET v == call[p].value
         IN  call'[p].out =
               (IF v.by = conf[call[p].eng].by THEN v.text ELSE Failed)]_vars

SaltOf(e) == IF secret[e] = NoState THEN NoSalt ELSE state[secret[e]].salt

\* An engine keeps its state, and the state its write salt, while a call uses
\* the engine and until it is overwritten by a copy or the process ends; and
\* an encryption goes on with the salt its engine has now.  So an engine and
\* the copies made of it since its state exists encrypt with one salt,
\* whichever goroutines meet in secretStateOf and writeSalt.  A copy made
\* before has a state, a salt and a cache of its own.
SaltKept ==
  [][\A e \in Engine :
       /\ secret[e] # NoState /\ secret'[e] # secret[e] => Unused(e)'
       /\ SaltOf(e) # NoSalt /\ secret'[e] = secret[e] => SaltOf(e)' = SaltOf(e)
       /\ \A p \in Proc : call'[p].at = "derive" /\ call'[p].eng = e
                            => call'[p].salt = SaltOf(e)']_vars
=============================================================================
