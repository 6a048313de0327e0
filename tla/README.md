# UniEngine in TLA+

Specifications of [UniEngine](../src/README.md), a Go engine that maps structs to
tables on top of `database/sql`: what its concurrent and stateful parts do, what
they promise, and where the promise stops. Each module is translated from the
source; `PROJECT.json` ("map") gives, for every definition, the lines it stands for.

Paths below are relative to `src/`. Terms are the code's: a *table* is a
registered `*TUniTable`, a *snapshot* one published version of it, an *engine* a
`TUniEngine`.

## 1. The system

| Component | State | Operations | Interacts with | Hard behaviour |
|---|---|---|---|---|
| Table registry (`UniRegister.go`, `UniTable.go`, `UniField.go`) | `HashTabl`: table name and Go type name to immutable snapshots, under `mu` | `RegisterClass[Force]`, `RegisterTable`, `RegisterField`, `RegisterPkeys`, chained `SetKeys`/`SetSecret`/`SetVerify`/`SetModule`/`AutoKeys`, `PrepareTables`, `PrepareRunSQL`, `ListSecretTable` | read by every write and query | calls on old handles, two keys for one table, two classes for one table, `AutoKeys` reads the database outside the lock, order of calls |
| Transactions (`UniEngine.go`) | `tx`, `inTx` per engine; `mu`, `txGate` and the pool of connections shared with its copies | `Begin[Ctx]`, `Commit`, `Cancel`, `WithTx`, routing in `prepareCtx` | driver, contexts, the caller's callback, `CopyInHook` | races on one engine, a pool without a free connection, driver errors, context cancellation, panics, nesting, misuse inside the callback |
| Column encryption (`UniSecret.go`) | a pointer per engine to a `secretState`, nil until first used: write salt, cache of derived keys with its order, under its `mu`; ciphertexts in the database | `Secret`, `SecretDefault` in both directions, `SecretHook` | writes and reads of secret columns | copies of an engine made before or after its state exists, several secrets on one cache, rotation, eviction, restart, ciphertexts of others |
| Batch writes (`UniCopyIn.go`, `UniWrite.go`) | none of its own | `InsertP`, `CopyInP`, `InsertL`, `CopyInL` | registry (per page), transactions (none by itself), driver | page arithmetic at the limits, a page that fails, metadata that changes between pages |
| Saves and row writes (`UniSave.go`, `UniWrite.go`) | the row in the database | `SaveIt`, `SaveItWhenNotExist`, `Insert`, `Update`, `Delete` | registry, encryption, integrity, write hooks | count, then dispatch, while others write the row |
| Row integrity (`UniVerify.go`) | the MAC column of a row, the MAC field of the caller's struct | signing on writes, verdict on reads | registry, encryption, queries, status events | order of signing, sealing, opening and verifying; modes; projections; failures after signing; rows that others copied or changed |
| Hooks (`UniHookSql.go`, `UniHookDetect.go`) | none | the SQL of `GetSqlInsert` and others, its parser, `hookWriteGuard`, `guardCopyInHook`; `SetSqlResult` | writes, reads | the guard trusts a parse of SQL somebody else wrote; a read hook that forgets the MAC |
| Queries (`UniQuery.go`) | none | `Select*`, scan and map rows | registry, encryption, integrity | order of the steps for each row; columns merged into a struct in use |
| Dialects, placeholders (`DbaEngine.go`, `unilex.go`) | none | families, quoting, `$n` rewriting | all SQL | text scanning: literals, comments, repeated numbers |
| Metadata queries (`UniMeta.go`), status events (`UniStatus.go`), configuration (`Initialize`, `RunDebug`), `contrib/pgxcopy` | configuration only | one query or callback each | driver | none of their own |

What makes them correct:

* **Registry.** Both keys of a table find one snapshot; snapshots never change; a
  MAC covers the primary key whatever the order of registration; the marks of a
  secret column agree in the three places they are kept; keys stay usable in a
  `WHERE`.
* **Transactions.** No open transaction without an engine that can end it, none
  ended twice, `WithTx` all or nothing; every call comes back if the pool has a
  connection for each engine (and not otherwise: finding 2).
* **Encryption.** What was written can be read, with the right secret and no
  other, across rotation, eviction and restart; what does not authenticate does
  not enter the cache; an engine keeps its salt.
* **Batches.** The database holds a prefix of the rows, each once; no page
  exceeds a limit of the provider.
* **Saves.** A save that returns `nil` has saved; one that must not overwrite
  does not; the fallback does what UPSERT does, races apart.
* **Integrity.** What an engine wrote passes for every engine with its keys; what a
  strict engine hands over was signed as a whole; a lenient one keeps silent only about
  rows that are signed or have no MAC.
* **Hooks.** The encrypted column holds exactly one seal and the MAC is that of the
  row, whatever statement the hook brings; a statement the parser does not understand
  is refused.
* **Placeholders.** An argument is bound where the caller's numbering puts it.

## 2. Modules

| Module | Models | Its state in the code |
|---|---|---|
| `UniRegistry` | table registry | `snap`, `top`: the snapshots ever published (heap and next address); `tabl`: `HashTabl`; `auto`: what `AutoKeys` holds between its query and its lock |
| `UniCatalog` | what the registry promises (abstract) | `entry`: the metadata found under each name |
| `UniTxSession` | what the transaction state promises (abstract) | `cur`: the transaction of each engine; `db`: its status at the database |
| `UniTx` | `Begin` .. `WithTx`, routing, `CopyInHook` | `tx`, `inTx`; `gate`: who holds `txGate`; `db`; `call`: where each goroutine is; `frames`: its active `WithTx` calls; `last`: how the last one came back |
| `UniSecret` | built-in encryption, key cache, copies of engines | `conf`: `SecretOn/By/Iter` per engine; `secret`: its pointer to a `secretState`; `state`: what is at each address (`Salt`, `Keys`, `Order`); `store`: values in the column; `call` |
| `UniBatch` | page size, paging, page limits | `columns`: width of the table; `call`; `pages`: what has been written |
| `UniLex` | `rewriteParamPlaceholder`, `getSqlQuery`, `maskSQLLiterals`, `stripSQLComments`, and what the database takes for code | none: operators on texts |
| `UniHookSql` | the parser of hook statements, and what the database does with them | none: operators on texts and parts of statements |
| `UniVerify` | signing, sealing, hooks, reads and verdicts on one table | `rows`: the table; `held`: the caller's struct; `signed`: every signature made |
| `UniSave` | saves beside other writes | `row`; `call`: the saves under way and how they came back, with the changes of the row they met (`met`) |
| `MC<M>` | instance of `<M>` for TLC | |
| `<M>Proofs` | theorems about `<M>`, with proofs; `UniTxAtomicProofs` has those about goroutines with an engine each, `UniLexProofs` those about `UniLex` and `UniHookSql` | |

Conventions. An action is one critical section, or one statement or driver call,
with the computation around it that nobody else can see. An error return that
changes nothing is a disjunct that changes nothing. Definitions commented
`Faulty variant` are not used by any specification: they are the code with one
plausible mistake, kept to show that each property notices.

### UniRegistry

`updateSnapshot` looks the *current* snapshot up by the table name of the handle,
clones it and publishes the clone under every key that pointed to the old one
(`UniTable.go:197`, `UniRegister.go:22`). So a chained call is modelled as a call on
a table name, and old handles need no state: only `AutoKeys`, which tests its
receiver, and `VerifyUnkeyed`, which the caller writes in place, take a handle
(`Handle`). A snapshot keeps columns as sets: which are registered (`fields`), have
an attribute (`attrs`), are listed (`list`), are secret in each of the three places
(`secret`, `listSecret`, `colSecret`), are keys (`pkeys`, `listPkeys`; `pkeyAttrs`
are the entries of `HashPkeys` that carry an attribute). Kinds of attributes matter
only to `SetVerify` and are the sets `text` and `scalar` of a class. Column order,
SQL text, `IPriority` and `ModuleBy` are left out.

`UniCatalog` is the registry without addresses: a table is found by its name and by
that of its type, and a call changes the entry of one table under both. `Change`
is any call on a table, by hand or chained: the type stays, columns are only added, and
verification, with the key it covers, stays; only `Bind`, the registration of a type,
starts afresh. A type whose table was taken by another type is `Outdated`: it keeps the entry it
has. This is what a reader of `GetTable` and `GetTableByClass` may rely on.

### UniTx and UniTxSession

`BeginChecks` and `EndDetaches` are the sections under `mu` taken with `txGate`
held; `BeginInDriver` and `EndInDriver` the driver calls, made without `mu`;
`BeginInstalls` the last section. Goroutines share an engine, or have one each and
share only the gate and the pool. A transaction keeps one of the `MaxConns` connections
until it ends, so `Db.BeginTx`, called with `txGate` held, may have to wait (`ConnFree`); a
statement outside of a transaction and a `CopyInHook` wait as well, but take and return their connection
in one step. A waiting call whose context ends comes back with an error (`BeginGivesUp`,
`PoolGivesUp`); `Begin` has no context that ends. The driver answers or fails; a failed `Commit` or `Rollback`
leaves a transaction *in doubt*. A context may end (`ContextDone`) at any time.
`WithTx` is its frame stack: `Begin`, the callback (which may do anything the
caller may, return an error, or panic), the test that a transaction is active,
`Commit`, and the deferred `Cancel`. A `CopyInHook` gets the pool and not the
transaction, so `CopyIn` is refused while there is one; a hook that declines leaves the
engine to prepare a statement of its own, routed at that moment (`HookReturns`).

### UniSecret

An engine has no `secretState` until it first needs one (`secretStateOf`). `Copy` makes
one engine a copy of another, with its configuration and its pointer: a copy made after
the state exists shares it, one made before gets a salt and a cache of its own. Lookups,
insertions and evictions are sections under the state's `mu`; a reader caches the key it has derived in
a later section, after the ciphertext has authenticated, so two may miss on the same key. The
cryptography is assumed: different inputs give different keys, a key opens what it
sealed and nothing else, the fingerprint tells the secrets apart. Under
these assumptions a derived key *is* the record of its inputs, and a cache entry
filed wrongly shows. `Restart` loses the pointers, the states and the calls under way,
not `store`. `Existing` has legacy plaintext, broken values, envelopes of another
hook and made-up ciphertexts with iteration counts in and out of range.

### UniBatch

`InsertP` reads the table once to choose the size of a page, and each page reads
it again (`RegisterField` may come between). A page is one statement or one COPY,
written entirely or not at all: that is an assumption about the driver. The
limits are constants, so the proofs hold for those of the code.

### UniSave

A statement is atomic and commits by itself, and the database enforces the primary
key. Oracle's MERGE is taken to be atomic as well. The fallback is two
statements, and every other write may come between. `SaveIt` by count for a class that
has only key columns fails ("no updatable column"), whereas UPSERT does nothing
and returns `nil`: both are modelled as they are.

### UniLex and UniHookSql

A text is a sequence of lexemes: each character that the scanners look at is one, a
word or `$` with its number another. The Go loops become positions: `NextStop` is where
the loop stands next, `Stops` all places where it stands, and masking, stripping and
rewriting are sets of positions. The database is a separate reader, `Lexer`,
an automaton that goes one character at a time and knows none of this; `BoundTo` compares
the two on the text that is sent. It follows MySQL's rule for `--`, as the code does. MySQL's
`#` comments and its executed comments `/*! */`, which the scanners do not know either, are left out of `Lexer`: what is
said of every text is said of texts without them.

A statement of a hook is a sequence of *parts*, each a piece of text given to a
column, so what the database does with it is read off the parts, and what the engine
believes is computed by the translated parser from the text they render.
`Summary` puts both side by side, with what the author means by each argument. Case,
`:N` beside `$N`, comparison operators next to `=`, and multi-lexeme names are
left out.

### UniVerify

A text carries the secrets it is sealed under (`by`), a MAC the key it was made with
and the contents it covers. A write signs the struct (also when the write fails
later: `SignOnly`), seals, and sends one atomic statement. `HookWrite` is the same with a hook's
statement, with MACs from before or after the signing, behind `hookWriteGuard`; `CopyHookWrite` with the
columns and rows a COPY hook gives, behind `guardCopyInHook`: rows may be exchanged,
missing or short and have the MAC of another struct, columns unknown or named twice. A read is
`Outcome` and `Filled` in the order of `selectRowsCtx`: projection, opening, hook, hook guard,
verdict. `Select` merges the columns read into the caller's struct, which goes on to the next
write. `OtherWrites` leaves rows of other programs: copied MACs and copied
sealed values included. Each row remembers as history (`of`) which engine wrote it and
what its caller gave.

`KeyMarked` covers a key column marked `secreton`, which `RegisterPkeys` allows
(`UniRegister.go:359`): writes leave keys as they are (`secretColumn`), reads try to open
them.

## 3. Runs

Twelve runs, `tlc -config <name>.cfg MC<module>`. Deadlock is
checked everywhere but in `UniBatch`, which stops when the one call has come
back and no column is left to register, and in `UniTxPool`, where standing still is what the run
shows.

| Run | Bounds | What it shows |
|---|---|---|
| `UniRegistry` | 1 table, 2 classes sharing it and a malformed one, 3 columns, 4 snapshots, 1 `AutoKeys` in flight | In every order of calls: snapshots immutable; MACs cover the keys; the MAC column is no key; secret marks agree; mapped keys keep their attribute; the keys of a verified table are frozen |
| `UniRegistryShared` | the same, 2 tables, 3 snapshots | Keys stay consistent, `ErrRegistryInconsistent` is unreachable, a class stays with its table, `UniRegistry` implements `UniCatalog` |
| `UniRegistryAutoKeys` | 3 snapshots | *violation*, finding 1 |
| `UniTx` | 2 goroutines on 1 engine, 1 connection, 2 transactions, `WithTx` 2 deep, callbacks that mix in `Begin`, `Commit`, `Cancel` | No orphaned transaction; `UniTx` implements `UniTxSession` |
| `UniTxOwn` | 2 goroutines, an engine each, 2 connections, no mixing | `WithTx` is all or nothing, its statements run inside, a `CopyInHook` outside of any transaction; with a connection for each engine every call returns |
| `UniTxPool` | the same, 1 connection | *violation*, finding 2 |
| `UniTxMixing` | 1 goroutine, 2 transactions | *violation*, finding 3 |
| `UniSecret` | 2 goroutines, 2 engines that may become copies of each other at any time, 2 `secretState`s, 2 secrets, 2 salts, 2 iteration counts, caches of 2, 6 existing values and 1 new one, 5 configurations; goroutines, engines and addresses are interchangeable, hence `SYMMETRY` | Caches bounded, without duplicates and never stale; values readable; decryption exact; an engine keeps its state and salt |
| `UniBatch` | row limits 4 and 2, budgets 7 and 3, up to 9 rows, 4 columns, requests -1 .. 9 | Written rows are a prefix; no page too large; budget kept |
| `UniSave` | 2 goroutines, 3 keys (UPSERT, counted, counted with nothing but a key), 2 values | The properties of saves; goroutines and values are interchangeable, hence `SYMMETRY` |
| `UniVerify` | 1 lenient engine that writes; readers: it, a strict one, one that does not verify, one that does not seal, one without keys. 1 key and 1 value besides the zero value, statements of 1 or 2 rows, 2 signatures, all texts of up to 4 lexemes in a query, some 200 hook texts, 14 COPY hooks | Rows read back and pass; sealed exactly once; strict mode is authentic; nothing unsigned is silent; queries find the key that was asked for |
| `UniHookTail` | the same, 2 hook texts | *violation*, finding 4 |

Why the bounds are enough for what is asked. Four snapshots let a class be
registered, made secret or given keys, verified, and then disturbed once more; two classes
suffice for every conflict over one table. A race over one engine needs two
goroutines, replacing a transaction two transactions, unwinding two frames. A
cache of two is full after two keys while four or more are in use. Nine rows are
more than two full pages of four; the limits keep the order they have in the
code. A save meets at most one row. In `UniVerify` the zero value is a key and a value
like any other, because an attribute that is not read has it; two signatures give a second
row to exchange MACs with, and one row's signature from before a change. Four lexemes hold an opened
and closed literal or comment with a placeholder inside, or beside it. Hook texts are
one row and two, by position, numbered up and down, shared numbers, quoted names,
comments with keywords and placeholders in them, literals, expressions, missing columns
and tail clauses; those that come to the same `Summary` are one element of `Hook`. One connection for two engines
is the smallest pool that is too small, two the smallest that is not. Two engines with two addresses have a state each,
or share one. And the theorems below remove the bounds:
TLC shows the properties on small instances, TLAPS for all of them. (A column list of a
class that is only a marker, `db:"-"` or `db:"_"`, is in no instance: the proofs have `Marker`, and `Dash`, those that
`RegisterField` and `RegisterPkeys` refuse, arbitrary. Nor is a second type of the same name.)

Fairness, in `UniTx` only (`FairSpec`, used by `UniTxOwn` and `UniTxPool`): strong for `GateStep` (Go's `sync.Mutex` goes into
starvation mode, so a waiter gets the lock in the end although others keep taking
it), weak for `CallStep` (a call that waits for a connection gets one if it stays free, the driver and a `CopyInHook` answer; the rest is straight-line
code). That a connection *becomes* free is not assumed: it is so when the transaction that has it ends. Nothing
is assumed of contexts, nor of user code, which may keep its transaction for ever; so `CallsReturn` has the hypothesis that
the pool has a connection for each engine, under which `Db.BeginTx` finds one at once (`BeginServed`), and that goroutines do not share an engine.

## 4. Theorems

`tlapm <M>Proofs.tla` checks each. All properties of the passing runs are theorems for
all values of the constants, except those named below. From the inductive
invariants:

* **Registry**: `TypeOK`, `RegistryConsistent`, and `HeapSound`: every snapshot on the heap,
  not only those reachable now, is fit to sign, locate and encrypt by. A part of
  `RegistryConsistent` is that the tables of handles and of `AutoKeys` calls under
  way stay registered; as a whole it is needed for the properties of snapshots because publishing starts from what a name
  finds, and heap-wide soundness because an old handle may be read at any time.
  The refinement (`CatalogKept`) maps `HashTabl` to what each name finds, and forgets addresses and
  superseded snapshots. It comes down to `NamesAre`: the names whose keys hold the address of a table's
  snapshot, which `publishTableMetadata` looks for, are the table's own and that of its type, no other; so each
  shape of step is a `Change`, a `Bind` or an `OptOut` of one table, and what a superseded handle opts out of
  changes no entry at all.
* **Transactions**: `TypeOK` (who is in the driver holds the gate) and `NoOrphan`. From it
  `BeginFindsConnection`: with a connection for each engine, whoever is in `Db.BeginTx` with the gate finds
  one free, because its own engine has no transaction and each of the others at most one; this is the safety half of
  `CallsReturn`, for any number of engines.
  The refinement maps the transaction of an engine to the field `tx` or, while the
  driver opens or ends it, to the one the holder of the gate has in hand;
  so opening and ending happen at the driver, and installing and detaching stutter.
* **`WithTx`** (`UniTxAtomicProofs`): for each goroutine, what its place in the code, its
  frame, the engine's `tx` and the transaction's status have to do with each other
  (`Right`): the callback runs, the end that agrees with its result is next, is under way, or was lost
  in the driver. A goroutine's own steps are followed through these four; the steps of the others change
  nothing of it, because no two engines share a transaction (`NoOrphan`).
* **Integrity and hooks**: each row is well typed, its MAC was made or is one that nobody
  accepts, and if an engine wrote it, it is what that engine leaves of a struct
  (`WrittenBy`); the same for the struct in use. `PutRowGood` is what statements and
  COPY rows of hooks share: a row put together from arguments the guard has let through is good. These theorems have a hypothesis, `ParsedRight`:
  of each hook statement the parser finds what the database will do, or refuses it. `MeantIsUnderstood` proves it for
  statements, of any length, that are written as they are meant (`Stated`, next bullet), and `HooksAsMeant` puts
  the two together; `UniHookTail` shows texts
  for which it fails. COPY hooks need no such hypothesis: they name their columns. `ReadsAsked` is
  the theorem `Asked`: a query's key is bound as in some text (`Scanned`), whatever that text is.
* **Scanners and the hook parser** (`UniLexProofs`), for texts of any length over any lexemes. The recursive
  functions on positions exist because each goes one way through the text; induction is over sets of
  positions, by the least element. Engine and database are compared in step: wherever the
  loop of the scanner stands, `Lexer` is in code, and within a literal or comment that the loop skips it stays outside
  (`ScannedAsCode`). So exactly the placeholders that the database sees are rewritten, an argument
  is bound where its number stands (`BoundAsNumbered`), the mask keeps the code and nothing else, and the parser's count and
  argument numbers are the driver's (`CountIsNumInput`, `ArgOfIsSource`).
  On the masked text, the plan of an `INSERT` is right because a row has as many placeholders as columns,
  no value is blank, and nothing else stands in it: one placeholder for each column is the only way
  (`InsertArgsAreValues`); that of an `UPDATE` because all of an assignment is one placeholder
  (`UpdateArgsAreValues`). `PlanIsRight`: a plan lists the arguments of all placeholders that are
  the values of the wanted columns, each once and no others.
  `SealsAsMeant` and `MacsAsMeant` carry this over to statements made of parts: every argument meant for the
  encrypted column is sealed, once, and the MACs are those of the rows in their order. Their hypotheses are gathered
  in `Meant`, and hold only of statements that the parser has a plan for: the rows of an `INSERT` have as many values as the first has columns, as
  the database insists (`RowsFit`); a placeholder is the value of a wanted column, in the segments of the text, where a part gives it an
  argument, and nowhere else (`Aligned`); an argument is for one column; rows come in order, and the MAC column is named once.
  `MCUniVerify` has `Meant` as an `ASSUME` that TLC evaluates for the
  265 texts of the instance without a tail clause.
* **Encryption**: `TypeOK`, `CacheOrdered`, `CacheTrue`, `Readable`, `OnlyVerifiedCached`, of every `secretState` there is; what a sealed
  value carries (`StoreOK`), and for each call that the key in its hand is that of its
  salt and its engine's configuration (`CallOK`). `DecryptExact` and `SaltKept` follow for each step. `SaltKept` is said of one engine at a time:
  that all copies of a process encrypt with one salt is *not* so (section 5).
* **Batches**: `TypeOK`, `Prefix`, `NeverTooLarge`, `WithinBudget`, and that the page size of a
  call that has started keeps the limits (`SizeOK`).
* **Saves**: `TypeOK`, that a save which found a row finds it again unless `met` has a
  deletion, and one which found none unless `met` has an insertion (`CountTrue`),
  and the four properties together for each returned call (`AllGood`).

The assumptions are the `ASSUME`s of the modules, which state the types of the constants and
little else: `ClassKey` differs from table names (the latter are lower-cased);
forged values carry no key of ours; an argument of a hook's statement
is for one column (`ArgumentsFit`). Theorems about texts assume that placeholders are told apart from words, quotes
and blanks (`LexAssumption`), and that they are none of
the signs the parser splits at; `MCUniVerify` evaluates both. That type names differ is *not* assumed:
`NeverInconsistent` has it as a hypothesis.

Model-checked only: `CallsReturn` as a whole (liveness under fairness is beyond the prover); that particular
texts are `Meant`, and `ParsedRight` for those with a tail clause; and the four violations.

## 5. Findings

1. `AutoKeys` can make an encrypted column a key: it looks at `SecretOn` before its
   query, on its receiver, and not again under the lock (`UniTable.go:566`, `:574`;
   `CHANGELOG.md:425`). Needs `SetSecret` during the query, or an old handle.
2. `Begin` can stand still together with the `Commit` or `Cancel` of another engine copy: it
   waits for a connection with the shared `txGate` held (`UniEngine.go:527`, `:546`), and they
   take `txGate` before they give theirs back (`:561`, `:588`). Needs as many copies in a
   transaction as `SetMaxOpenConns` allows (`README.md:173`) and one more that begins; `README.md:231`
   recommends a copy for each concurrent transaction. `BeginCtx` ends with its context, `Begin` never.
3. A callback that calls `Cancel` and then `Begin` makes `WithTx` commit the second
   transaction and return `nil`; the documentation promises `ErrNoTransaction`
   (`UniEngine.go:641`, `README.md:229`).
4. A hook's statement can write plaintext into an encrypted column where the
   documentation says that a form the parser cannot handle is an error
   (`README.md:377`, and `:386` for tail clauses). The parser skips a `SET` segment whose column is not secret
   without a look at its right side (`UniHookSql.go:241`), so `... set key=?, val=?, mac=?, note=? on
   duplicate key update val=?` passes; and it takes the first `where` of the text, also
   one in a sub-query (`:216`), so `set note=(select .. where k=?), val=?, mac=? where key=?`
   loses `val`.

Disagreements met while modelling that no run states:

* A copy of an engine made before its first encryption or decryption gets a salt and a key
  cache of its own (`UniSecret.go:54-63`; `Initialize` does not make the `secretState`), so a service that copies one
  engine for each request (`README.md:46`) and encrypts only with the copies pays a derivation in every request. The
  comments at `UniSecret.go:32`, `:42` and `:74` and `CHANGELOG.md:432` speak of one salt for the
  process, shared by copies.
* `ListSecretTable` lists one snapshot per table name (`UniRegister.go:396`): when two
  classes share a table, it leaves out the encrypted columns of one of them; the comment at
  `:382` says that it returns all registered tables with encrypted columns, and that both keys find one table.
* A paged write reads the metadata again for every page (`UniCopyIn.go:286`),
  where `README.md:45` says that a call that has started keeps its snapshot; hence the
  clause on columns in `WithinBudget`.
* By the same skipped segment, `RETURNING` after a `SET` of a column that is not secret is
  accepted, against `README.md:386`.
* A `$n` used for a secret column and in the `WHERE` is sealed for both (outside `ArgumentsFit`).
* `README.md:392` says that a read hook on a verified table is always refused; the
  code, and `README.md:322`, verify what it filled in.
* `stripSQLComments` sees one segment, so it takes `--` at the end of a segment for a
  comment, and the mask, which sees the whole text, does not; the comment at `UniHookSql.go:311` says that both
  judge alike.

## 6. Not modelled, and why

* `SecretHook`: it replaces the component by the application's.
* A copy of an engine made while it is in a transaction, and configuration changed
  during calls: excluded by the documented contract (`README.md:44`, `:46`).
* `ListSecretTable`, which changes nothing.
* Maps shared by two snapshots: snapshots are values, so a clone that is too shallow cannot be
  expressed.
* Cryptographic strength, SQL text, the protocol of COPY.
* A table that loses its columns or keys during a save.
* A `VerifyHook`, which replaces the HMAC; the formatting of values in a payload.
* `SelectL`, `SelectM` and `SelectH`, which differ from `Select` in the
  container they fill; scalar queries.
* Oracle's `:n` and quoting of names: they leave the arguments alone.
* `UniMeta`, configuration and `contrib/pgxcopy`: no state, or set once before use.

`PROJECT.json` lists the hazards of the code, line by line, with the properties
that cover them, and a note where none does yet.

## 7. Plan

In order of importance; the modules of section 2 are done.

1. Compositions: registry with writes (a write uses one snapshot; batches with
   the registry's own actions in place of `RegisterField`).
2. `UniSaveSpec`: an atomic upsert, implemented by `UniSave` with native
   statements, and by the fallback when undisturbed.
3. That `UniBatch` implements an abstract "append pages" specification.
4. `Aligned` from the grammar of a family of statements instead of text by text, and
   tail clauses.
5. Several rows of a query and the containers they go into.
