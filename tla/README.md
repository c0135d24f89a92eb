# A verification of sec-cynagora

Cynagora answers one question for a whole system: may CLIENT, in SESSION, for
USER, use PERMISSION? A daemon keeps the rules, answers the programs that check
permissions, asks agents when a rule says so, and lets administrators change
the rules. This directory models the daemon in TLA+, checks the models with TLC
and proves part of what they say with TLAPS.

Paths below are those of the repository; most files are in `src/src/`.

## 1. The system

| Component | Sources | State it keeps | Operations |
|---|---|---|---|
| Matching and selection | `anydb.c`, `db.c` | none | set, drop, test, list, cleanup: traversals with a key |
| Memory database | `memdb.c` | strings, rules with a tag and a saved value, transaction flag | the `anydb_itf` operations, packing of strings |
| File database | `filedb.c`, `fbuf.c`, `fbuf-sysfile.c` | two buffers, two files, two backups, flags | the same, and open, backup, recover, sync |
| Transactions | `db.c` | `modifiable` | begin, end (commit or cancel) over both databases |
| Critical section | `cyn.c`, `queue.c` | locker, awaiters, queue of changes, change id | enter, cancel, leave, set, drop, changed |
| Queries and agents | `cyn.c`, `agent-at.c` | registered agents, pending queries | query, sub-query, reply, register, remove |
| Server | `cyn-server.c` | per client: flags entered, entering, caching; lists of checks and asks | one handler per request, disconnection, `onchange` |
| Client library | `cynagora.c`, `cache.c` | connection, cache, pending checks, agents, flag `entered` | synchronous and asynchronous requests |
| Scripts of changes | `main-cynagora-admin.c`, `lib-compat.c` | where the script is, its result | enter, writes, leave, a report |
| Codec | `prot.c`, `cyn-protocol.c` | two circular buffers | put, get, read, write of fields |
| Agent launcher | `main-cynagora-agent.c` | tables of queries and sub-queries | a program asked, its replies |
| Others | `expire.c`, `idgen.c`, `names.c`, `db-import.c`, `settings.c`, `socket.c`, `pollitem.c`, mains | little or none | conversions, input and output |

**How they interact.** The server is one thread around `epoll`. A handler runs
to its end with every callback it triggers: leaving the critical section calls
the next awaiter's `entercb`, and a commit calls the observers, whose `onchange`
sends `clear` to the clients that may cache. A handler is therefore one action
of a model. What interleaves is the order of the requests and disconnections of
many clients, the time at which agents answer, the moment at which the daemon
stops, and the system calls that fail; the writes of a commit, and the three
calls of each write, are separate actions for that reason.

Rules flow from `cyn_set` and `cyn_drop` to the queue, at `cyn_leave` from the
queue through `db.c` to one of the two databases (the file database when the
rule is for all sessions), and at the end of the transaction to the disk.
Questions flow from `check` to `db_test`, and when the value names an agent to
that agent's client, which may ask sub-questions before it replies.

**What is hard** is listed line by line in `PROJECT.json` under `hazards`. In
short: who is inside and who waits when clients vanish; half-made changes;
commits that fail in the middle; scripts whose connection breaks between two of
their requests; tags, saved values and renumbered indexes across transactions;
files and backups of different moments; answers, agents, programs and clients
that outlive one another; cached decisions that a change or the clock makes
wrong; records that fill a buffer exactly.

## 2. Modules

| Module | Models | Correspondence |
|---|---|---|
| `AnyDb` | `anydb.c` | operators on a set of rules: `StoredKey`, `KeyIs`, `SearchMatch`, `TestMatch` are the `searchkey_` functions, `Score` the sum of `searchkey_test`; `SetResults` and `DropResults` are the contents that a traversal may leave |
| `RuleBase` | data operations of `db.c` | `mem`, `file`, the clock `now`; `DbSet`, `DbDrop`, `DbTest` (purge included), `DbTestAnswer` |
| `MemDb` | `memdb.c` | arrays `strings` and `rules`, `active`, `count`; `Start`, `Commit`, `Cancel` are `transaction_itf`, `Remove` a traversal that removes, `Cleanup` is `anydb_cleanup` |
| `FileDb` | `filedb.c`, `fbuf*.c`, transactions of `db.c` | buffers with their `saved` and `size`, `backuped`, flags; `disk` and `copy` are the files and backups, `linked` says they are one inode; a file may be missing, of 0 bytes or cut; `phase` is the position in begin and end, `step` that in `write_file`; `Stop` may come between any two calls |
| `Ranks` | the packing of arrays in `filedb.c` and `memdb.c` | `Rank` and `Nth` are what `gc_dig` and `gc_add` compute with the sorted array of used indexes; `Picked` is the packed array |
| `Cyn` | `cyn.c`, and `queue.c` by records | `magic_locker`, `awaiters`, `queue`, `changeid`; `torn` says that a part of a refused record is in the queue; the operators have the names of the C functions |
| `Queue` | `queue.c` | `bytes` is the memory up to the write index, `read`, `capacity`; `Record` is `queue_set` and `queue_drop` with a `realloc` that may fail at each part, `PlayOne` one turn of the loop of `queue_play` |
| `AdminServer` | admin requests of `cyn-server.c` | `connected`, `entered`, `entering`; one action per request; extends `Cyn` |
| `AtomicUpdates` | what the critical section promises | abstract specification: a holder, a line, a draft, rules that change at once or not at all; with two exceptions, which the code makes: a draft with a refused record (`garbled`), a cancelled section (`spoiled`) |
| `AdminSession` | the scripts of `main-cynagora-admin.c` and `lib-compat.c`, the administration calls of `cynagora.c` | extends `AdminServer`: `link` and `held` are `fd` and `entered` of a handle, `call` the socket of a synchronous call, `script` where the script is; `cut` are the hangups not yet seen by the server; connections without a handle are any other program |
| `CheckServer` | check, test, sub, reply, agent, clear | `heap` holds the pending checks, `checks` and `asks` are the lists of the clients, `agents` the registrations, `caching` the flag |
| `Launcher` | `main-cynagora-agent.c`, the agents' calls of `cynagora.c` | extends `CheckServer`: `queries` and `subqs` are the tables of the launcher, with the program of each entry, `requests` the pending requests of its library, `toHost` and `fromHost` the two streams, `registering` the wait for the done of `cynagora_agent_create`, `unread` what was read with it; the agent is a launcher or any program |
| `Client` | the checks of `cynagora.c` | `link` is `fd`, `requests` is `async.requests`, `cache`, `sync` the call that holds `synclock`; `toServer` and `toClient` are the connection; `Treat` is `get_reply`, `Flushed` is `flushr`, `Opened` is `ensure_opened`; `rules`, `asked`, `caching` are the part of `CheckServer` that one connection sees |
| `Expire` | `expire.c`, the dates of `cyn-server.c` and `cynagora.c` | operators: `DurationText` is `exp2txt`, `parse_time_spec`, `exp2check` and `DateOf` (`status_check`, `txt2exp`), with the saturation of `pt_add` and `pt_mul` |
| `Cache` | `cache.c` | operators on the sequence of the items: `cache_put`, `cache_search`, `drop_lre`, `Hit`, `Unexpired` |
| `CacheUse` | what a client does to its cache | extends `Cache`: puts, searches, clears in any order, the clock, and the order in which the items were used |
| `Prot` | `prot.c` | `ring`, `start`, `count` are `outbuf`; `input`, `scanned`, `fields` are `inbuf`; `wire` is the socket |
| `RecordFifo` | what `prot.h` promises | abstract specification: records arrive whole, once, in order |
| `Answers` | answers with a date, from the rule to the cache; the list of `cynagora_get` | extends `Prot`, `Expire`, `Cache`: the server puts records, the socket cuts them, the client decodes them and fills its cache, the clock ticks between any two of these |
| `MC...` | | instances for TLC; `MCFileDb` has two of `FileDb`, `MCMemories` one of `Queue` and one of `CacheUse`, explored beside each other |
| `Lemmas` | | induction, recursion, sequences and their members, ranks: what the proofs share |
| `AdminSessionProofs` | | theorems of `AdminServer`, and that it implements `AtomicUpdates`; theorems of `AdminSession`, and that it implements `AdminServer` |
| `RuleBaseProofs`, `FileDbProofs`, `MemDbProofs` | | theorems of `RuleBase`, `FileDb` and `MemDb` |
| `CheckServerProofs` | | theorems of `CheckServer` and of `Launcher`, which is one of its agents |
| `ClientProofs` | | theorems of `Client` |
| `AnswersProofs` | | theorems of `Answers`, hence of `Prot`, `Expire` and `Cache`, and that it implements `RecordFifo` |

Compositions: `Cyn` < `AdminServer` < `AdminSession` is the way of a change from a
program to the rules; `CheckServer` < `Launcher` that of a question to an agent's
program and back; `Expire`, `Cache`, `Prot` < `Answers` that of an answer to the
cache; `Cache` < `CacheUse` what becomes of it there; `AnyDb` < `RuleBase` that of a
key to its rule.

Conventions.

- An operator `Faulty...` is not the code. It is a plausible mistake in the
  definition that follows it; `PROJECT.json` pairs it with the property that
  catches it. Nothing in a specification uses it.
- History variables say what the code does not store, and no guard reads them:
  `by` in the queue's records, `cancelled` in `Cyn`, `landed` in a script,
  `asked`, `refusals` and `done` in `Queue`, `uses` in `CacheUse`, `ended` and `atStart` in
  `MemDb`, `written`, `atStart` and `history` in `FileDb`, `owed` and `told` in
  `CheckServer`, with the field `nesting` of a pending check, `aged` and `atEnd`
  in `Answers`, and in `Client` the variable `facts`, the field `lost` of a
  request and the key of an answer (the message has the identifier only). The
  constant `Watched` of `CheckServer` says whose `told` is kept.

Choices that a reader of the code may question.

- In `AnyDb` rules are a set. The order of the arrays matters where a traversal
  stops early: `anydb_set` stops at the rule it updates, so the expired rules
  behind it are not purged. `SetResults` leaves that open.
- In `Cyn` the rules are a function of keys; which drops touch which keys is
  any subset, since filters are the matter of `AnyDb`. A replay that fails is
  cancelled, and since the databases do not always give back what they found
  (section 5), it leaves any content in `Cyn`; nothing is announced then. `MemDb`
  and `FileDb` say what a cancel gives back. A record that memory lacks for leaves
  its first texts in the queue (`torn`): what is replayed then is any content too;
  `Queue` has the bytes. The end of the daemon, by a recovery that fails or a replay
  that does not end (section 5), is not in `AdminServer`.
- In `AdminServer`, `Enter` leaves out the one failure of `cyn_enter_async`, the
  lack of memory for the awaiter, whose result is ignored (`cyn-server.c:665`): the
  client is then marked as entering and is in no list.
- The outcomes of `cyn_leave` follow its code: the change id moves when
  `queue_play` succeeded, also if the end of the transaction then fails.
- In `AdminSession` a call is synchronous, hence a socket holds one request or
  one reply. A connection may break at any time; its request may then be lost or
  not, and the server sees the hangup later, possibly after the program came back
  on another connection. A killed program is a broken connection and no report.
- In `CheckServer` three blocks that the code allocates and frees together
  (`check_t`, `cynagora_query_t`, `ask_t`) are one cell; the lists refer to
  cells. The substitution of text by the agent `@` is the map `AtKey`. `Query`
  starts with no redirection done: the lack of memory inside a redirection by `@`,
  where `agent-at.c` and then `cyn.c:523-524` both reply, is left out.
- In `Launcher` the numbers that the launcher and the library take from a 31 bits
  counter are used again only when nothing bears them. A launcher whose
  connection ends is gone, with its programs' answers.
- `write_file` removes, creates and writes: three steps, between which the daemon
  may stop and each of the last two may fail. A file is then missing, of 0 bytes
  (both are opened as a new database), or cut, between two entries or inside one.
  The backup, another name of the old inode, is not touched.
- In `FileDb` all names have one length: different contents then have one size more
  often than with any other lengths, and sizes are what `fbuf_sync` looks at.
- In `MemDb` and `FileDb` the keys are proper names, found as they are stored; the
  empty permission is the matter of `AnyDb`.
- In `MemDb` and `FileDb` the sorted array of used indexes that `gc_add` builds
  and `gc_dig` searches is the set of these indexes and the rank in it (`Ranks`).
  The rules that remain in memory keep their order where the code moves the last
  into the hole; no reader depends on it.
- In `Client` an action is what the library does between two reads that may
  wait; a synchronous call is its beginning, the messages it reads and its end.
  Identifiers are reused as soon as no message bears them: `idgen` counts far
  enough for that, and only the test against the pending requests keeps an
  identifier from one that is pending since an earlier connection. What was
  read and not treated when a connection is closed is dropped at once, where the
  code drops it at the next connection. A failed send is a lost connection.
- In `Prot` a record is put whole or cancelled, as all its callers do; `Answers`
  names the request by its key where the code puts an identifier, and checks
  nothing while it reads a list: a check made from the callback of `cynagora_get`
  reads the rest of the list and drops it (`cynagora.c:855`, in the hazards).

## 3. Runs

The runs that find a disagreement are in section 5; these pass.

| Run | Question | Bounds |
|---|---|---|
| `rules` | do scores select what the repository's README describes, whatever sets, drops, expirations and purges did before? | one name in two spellings, all keys of stars and names, ANY, the empty permission and one mixed key, 3 rules, 3 instants, dates 0, 1 and -3 |
| `admin` | is the critical section exclusive, fair, atomic, announced; are scripts of changes whole and their reports true, whatever breaks; does each script end, and each waiter? | 3 connections, one handle that runs scripts of 1 or 2 writes and may be killed, the other connections free; 1 key, 1 value and drops, 2 records per section, change ids modulo 3 |
| `memdb` | what do commits, cancels and packing keep? | 2 keys, 2 texts, 3 rules in the array |
| `filedb` | what do memory, files and backups agree on, whatever stops and fails? | 2 keys, any number of transactions and stops; 2 values and links that fail, beside 1 value and all failures |
| `checks` | one answer per check, no dangling reference, no stale cached yes or no, no endless questions | 2 agents' clients and 1 other, 2 keys that redirect to each other, 2 pending checks, depth 2 |
| `checks_end` | does an agent made of programs answer each ask once, keep answers apart, and does every check end? | the agent (launcher or any program) and 1 client, 1 key, rules `no` or the agent, 2 pending checks, a table of 3 queries, 3 sub-queries |
| `client` | does each check get its own answer, and is the cache right, across lost connections, late answers and nested calls? | 2 keys, a rule says yes or names an agent, 2 identifiers, 2 questions without an answer read |
| `answers` | do dated answers and long lists pass the codec whole, and does no decision outlive its date in the cache? | buffers of 8 bytes that records fill exactly, 3 bytes in the socket, 3 keys with a date, none and "not to be cached", a cache for 2 items, 4 instants, 1 check pending, a list asked for before or after its answer |
| `memories` | does the replay make what was accepted; is what was found kept longer than what was used before it? | the queue: 2 keys, with empty names, 1 text and the empty one, 3 times (with bytes 0, without, all 0), 3 requests in a section, any of them refused at any part, any number of sections, memory that grows by 12 bytes; the cache: 4 keys, one item of length 2 and the others of 1 in a place of 3, counters up to 3, 3 instants |

Why these bounds are enough for the properties they serve. Selection compares
two rules at a time, and three rules give a rule that is neither first nor
last; every field takes a name and a star, so every pair of scores occurs, and
the two spellings make case matter. Overtaking in the critical section needs one
holder and two that wait: three clients. The order in a replay, and a part of a
plan, need two records, which may be of one key. A program that comes back while its old connection is
still inside needs two connections, and one more to compete with it. Change ids
modulo 3 (the least allowed) wrap often. A rule dropped and set again in a
transaction, beside another rule, takes three places. Packing needs one name that
goes and one that stays. A check nested in a check needs two cells, and an agent
that asks itself or the other needs two agents. The launcher never puts a
sub-query's answer to entry 0 of its table (section 5), and entries are taken
from a counter, so 3 entries leave two to be reused while others wait. The states
of `filedb` are finite without a bound on the number of steps. Failures of
writes multiply them, and are explored with one value, beside changes of values
without them. A queue and a cache share nothing, and are explored one while the
other is as it was created. Three records of 4 or 5 texts in memory that grows by 12 bytes are cut
by a refusal at each part, and the bytes of a section remain under the next one. An
answer taken for another needs two keys and two questions at once, one of which may be
synchronous; connections, cancellations and changes of rules are not bounded in
`client`. One value beside the agents is enough: an old yes in the cache is
wrong when the rule names an agent. A ring of 8 bytes and records of up to 8
wrap at every position, and 3 bytes in the socket cut escapes in two. Two items
in the cache make the third drop one; three readings of the clock (the rule's
test, the text of the duration, its reading by the client) with a tick between
any two give every way to be late by one. The greatest hit is 1 there instead of
255, as nothing there depends on which item makes room; in `memories` it is 3, so
that counters meet 0, and `FoundOutlivesOlder` speaks of those that do not.

What the properties say, beyond the type invariants:

- `SelectionFollowsReadme`: the answer is that of the rule with fewest stars,
  and among those of the rule exact in session, user, client, permission in
  this order; expired rules do not answer (queries of the permission `#`, which
  several rules may bear, are left out). `OneRulePerKey`: no key, permissions
  compared without case, has two rules, unless its permission was given empty.
  `PersistentExactlyWide`: the file has exactly the rules for all sessions.
- `LockAgreement`: the lock of `cyn.c` and the flags of the connections say the
  same. `QueueIsLockers`: what waits to be committed was written by who is
  inside. `FirstComeFirstServed`: nobody is overtaken. `ChangesAnnounced`: new
  rules, new change id, but for what a cancel gives back. `ImplementsAtomicUpdates`:
  with the awaiters reversed as the line, the server is the abstract specification.
- `PlaysWhatWasAsked`: the bytes of the queue are replayed as the changes that were
  accepted, in order, whatever earlier sections or refused records left in the
  memory; `WholePlayEnds`: the replay ends. Both of sections in which no record was
  refused and no value is empty (section 5).
- `AllOrNothing`: what a commit makes of a script's writes is its whole plan,
  never a part, also when a connection broke in the middle and the script went on
  over another one. `ReportIsTrue`: success told by `cynara_admin_set_policies`
  means committed, failure told by the command line means nothing changed (the
  other halves are not promised: the command line ignores how leaving ended).
  `ScriptsEnd`, `WaitersEnd`: scripts end and nobody waits for ever.
- `OneVisibleRule`, `CancelRestoresKeys`, `CommitKeepsView`,
  `DecisionsSurviveGc`: tags and packing in the memory database.
- `SavedIsOnDisk`: as long as no write failed, what the three sizes make a sync skip
  is on disk. `StopLosesNothingWritten`: stopping between the two files of a sync
  keeps what was last written, because names are written first and only grow. It
  excludes the stop within the writing of one file, which can lose it, as opening
  never looks at the backups; a failed write; and the time between a packing (or a
  recovery) and the next complete sync, where a stop can leave rules that name other
  strings. `BackupsReadable`: what a cancel will read can be read, unless a file was
  empty at the opening. `FirstCancelRestores`: until the first write after a start,
  a cancel that ends gives back the rules. `DecisionsSurviveGc`: packing changes no
  decision.
- `NoDanglingCheck`, `AnsweredOnce`: lists and blocks agree, one answer per
  check. `CachedDirectIsCurrent`: who heard a yes or no that a rule gives hears a
  `clear` before it becomes wrong. `NestingIsBounded`: the decreasing depth
  bounds questions within questions.
- `OneReplyPerAsk`: an ask is in one place between the server and the program's
  answer, none is forgotten nor replied twice, whatever programs do.
  `AnswersToTheirProgram`: the answer of a sub-query never comes to the next
  program in the same entry of the table. `ChecksAreAnswered`: every check is
  answered or its client goes, sub-queries to the same launcher included; it
  excludes a program that waits in entry 0, and supposes that what the launcher read
  with the done of its registration does not stay unread for ever (section 5).
- `AsyncAnswerIsOwn`: the callbacks of a key get the answer to a question about
  that key. `SyncAnswerIsOwnUnlessCancelled`: so does a synchronous call, as
  long as no pending request was cancelled, because `get_reply` takes all other
  answers away. `PendingIsAlive`: for what is pending there is exactly one
  question or answer on the way until the connection ends. `CacheIsCurrent`:
  the order of answers and clears, the flag of the server and the emptying at a
  new connection keep the cached answers of rules right; it excludes the answers
  of agents, as `CachedDirectIsCurrent` does, and those of the disagreement of
  section 5.
- `EndsInTime`: no decision is found in the cache later than the date of its rule and
  the one tick that its text was on the way; it excludes what is answered at the very second of
  the date (section 5). `ImplementsFifo`: the codec is the abstract queue of
  records.
  `AnswersArrive`: every check and every list comes to its end.
- `FoundOutlivesOlder`: what a search found is not dropped to make room while an item
  last used before it is kept, put or found, until 255 other searches were answered.
  It says nothing of items that were only put: section 5. `MemoriesFit`: queue and
  cache stay within their memory.

**Fairness.** `AdminSession`: weak fairness of each handle's progress (its call
goes on, its request is served, its reply is read), of the server seeing each
hangup, and of each other client inside leaving. The first two are the loops of
the library and of `epoll`, that turn while there is something to do; the last is
an assumption on other programs, to which the code gives no time limit, and
nothing is assumed of the killer, of links that break, or of who wants to enter.
`Launcher`: weak fairness of the streams between server and launcher (what is sent
is read, but what was read with the done of the registration is treated only when
more comes, or when a sub-query is made, which empties the buffer), of each
program (it does not wait for what it was already told, as the help of
`cynagora-agent` asks, "terminates quickly") and of the replies of an agent that
is no launcher. `Answers`: weak fairness of the two ends and the stream taken
together: one of them goes on while any can; the clock is not fair. The other specifications are checked for
safety only and state none.

**Deadlock** is checked in every run. A file database that cannot be opened is
the one state where the daemon only fails again (`OpenAgain`).

## 4. Proofs

Every theorem is for all values of the constants that satisfy the assumptions of
the modules. Those of `AdminServer`: `NoOne` is no client, `None` no value, the
modulus is at least 3 (with 2 there is one id only), `MaxQueue` a natural number.
`AdminSession` adds that `NoLink` is no client and that plans are sequences of
writes that fit the queue; `RuleBase` that keys are keys, that ANY and the star are
two names and that dates are integers; `FileDb` that keys are finite in number and
that the marks of a missing, an empty and a cut file are three and no content; `MemDb` that
names are finite in number and that what a dangling index reads is none of them.
`CheckServer` has the names of agents apart from yes, no and `@`, at least one level
of search, and a mark of a free cell that is no check; `Launcher`, numbers for the
sub-queries and a mark of a free entry that is no entry and no program; `Client`, an
identifier of synchronous calls that no request takes, the value that names an agent
apart from the others, and marks (a clear, no call) that are no answer and no call.
`Prot` has records of one field at least whose first field is not empty (each begins
with a word of the protocol) and of no more fields than the receiver keeps; `Cache`
and `Expire`, lengths, a greatest hit and a greatest time that are not 0; `Answers`,
that what the server can send is among the records, that no record of the list is an
answer to a check, and that the word that stands for a list is no key.

| Module | Theorems |
|---|---|
| `AdminSessionProofs` | `TypeCorrect`, `LockAgreementHolds`, `QueueIsLockersHolds`, `ChangesAreAnnounced`, `FirstComeIsFirstServed`, `ServerIsAtomic` (`AdminServer` implements `AtomicUpdates`); `SessionTypeCorrect`, `SessionImplementsServer`, `ScriptsAreAtomic` (`AllOrNothing`), `ReportsAreTrue` |
| `RuleBaseProofs` | `OneRulePerKeyHolds`, `PersistentExactlyWideHolds`, `SelectionFollowsReadmeHolds` |
| `FileDbProofs` | `TypeCorrect`, `SavedIsOnDiskHolds`, `BackupsReadableHolds`, `StopLosesNothingWrittenHolds`, `FirstCancelRestoresHolds`, `DecisionsSurviveGcHolds` |
| `MemDbProofs` | `TypeCorrect`, `OneVisibleRuleHolds`, `CancelRestoresKeysHolds`, `CommitKeepsViewHolds`, `DecisionsSurviveGcHolds` |
| `CheckServerProofs` | `NoDanglingCheckHolds`, `AnsweredOnceHolds`, `CachedDirectIsCurrentHolds`, `NestingIsBoundedHolds`; `LauncherIsAnAgent`, `AnswersToTheirProgramHolds`, `OneReplyPerAskHolds` |
| `ClientProofs` | `AsyncAnswerIsOwnHolds`, `SyncAnswerIsOwnUnlessCancelledHolds`, `PendingIsAliveHolds`, `CacheIsCurrentHolds` |
| `AnswersProofs` | `StreamCorrect`, `AnswersImplementFifo` (`Answers` implements `RecordFifo`), `EndsInTimeHolds` |

**Critical section.** The inductive invariant is
`IInv == TypeOK /\ LockAgreement /\ QueueIsLockers`. None of the last two is
inductive alone. A record is written under the flag `entered`, and belongs to the
locker because flag and lock agree. When nobody is inside the queue must be empty
(`EmptyQueueWhenFree`, from `QueueIsLockers` and `NoOne` not being a client):
otherwise the next to enter would inherit records. Handing the section to the last
of the list keeps the flags right because the list has no duplicate and does not
hold the locker; removing one entry at a disconnection removes the client from the
list for the same reason. There is one lemma per action that moves the lock or the
list (`EnterKeeps`, `LeaveKeeps`, `CancelKeeps`, `RecordKeeps`), on top of the
facts on a list without its last element or without one entry, on
the type of `queue_play` and on `NextChangeId`. That nobody is overtaken follows
from where each of these puts the others in the list. For the refinement,
`ReversePrepend`, `ReverseHead` and `ReverseRemoveAt` carry the list to the line,
and each operator of `Cyn` has its abstract step: `EnterIsAskFor`, `CancelIsGiveUp`,
`RecordIsWrite`, `LeaveIsEnd`.

**Scripts.** `SInv` says, besides the types, that the connection of a handle that
is inside belongs to a script that is inside on this very connection, and that the
queue is then the part of its plan that was acknowledged, with the write being
served. It is what makes atomicity true over a reconnection: the flag `entered` of
the handle outlives the connection, but the server's does not, so a script that
goes on over another connection finds itself outside, its writes are refused as
invalid, and its first part has been thrown away with the old connection. `Beside`
and `Unconcerned` say that what others do to the lock leaves the part of a handle
alone. `SessionImplementsServer` is what allows the theorems on the server to be
used here.

**Matching.** A database is sound when its rules are well formed and no two have the
same key. `SetKeeps` shows that a traversal that sets leaves one rule of the key,
whatever expired rules it purged; that no key has rules in both databases follows
from the session deciding which. For the selection, `ScoreIsSum` and `StarsIsSum`
write the score and the stars as sums of four terms, `HigherIsPreferred` compares
them in the sixteen cases of each rule, `SameScoreSameKey` shows that rules that
match the same query with the same score have the same key, so that the rule
selected is one; the greatest of two maxima is the greatest of the union.

**File database.** `IInv` is the shape of the state, the order of a commit (`Order`)
and five facts. `SizesTell` is what the sizes know: `size` is that of the file, and a
`saved` that is not 0 counts the first bytes of the buffer that are in it (but for
the 1 that a packing puts there after a recovery). It is what makes
`SavedIsOnDisk` inductive across removals, which lower both `saved` and the size of
the buffer, additions, which lower neither, and packings. A linked backup is the
file itself (`LinkedIsCopy`), and both backups are of one moment when a cancel relies
on them (`BackupsAreOfOneMoment`), from which `BackupsReadable` follows.
`NothingLost` says that what was last written is on disk and that the names in memory
extend those on disk, at each step of a write (without that, the rules written first
would name other strings); `Pristine`, that until the first write files and backups
are as they were opened. Packing rests on ranks: `NthFacts` says that the i-th of the used
indexes exists and is the i-th, `PackFacts` that the packed arrays then say the
same.

**Memory database.** `IInv` adds to the types what `OneVisibleRule` needs after a
cancel, which brings rules back into sight: the rules that the transaction found are
the first of the array, of different keys, and their keys are those of the start
(`Found`). That no rule moves inside a transaction is what keeps it. `ViewFacts`
says that, with one rule of each key in sight, what is seen of a key is what its
rule says; `RankFacts` and `NthOfRank`, that each string used has its place in the
packed array and no two have the same, so that renumbering an index and packing the
strings undo each other (`PackFacts`). Values that an old `saved` left dangling stay
so: `DecisionsSurviveGc` speaks of the others.

**Check server.** `IInv` adds to `NoDanglingCheck` that what a client is owed is
what is listed for it (`OwedIsListed`), that the levels of search still left to a
check and its nesting are together at most the depth (`LevelsUsed`, for
`NestingIsBounded`), and that the flag `caching` is up for whoever was told a yes or
no, which is still what the rules say (`WillBeCleared`). `Resolve` follows the
redirections by `@` level by level; `ResolveIs` gives what it is at each level from
its existence as a recursive function (`Recursion` in `Lemmas`), and
`DeeperFindsTheSame` that a search with more levels that ends on a yes or no ends on
the same: it is what makes the answer to a sub-query, searched with fewer levels,
agree with the one that a client is promised. `DestroyKeeps` is the longest: the
checks of the client that goes and the asks of the agent that goes leave the lists
of others together.

**Launcher.** `LInv` says where things are. An ask of the launcher is in one place
of three: on the way there, with one program, or as a reply on the way back
(`AskPlaced`); so is a sub-query: a request on the way, a check of the server that
bears its number, or an answer on the way (`RequestPlaced`). Both streams are
without duplicates, so that a count is a membership, and no two programs have one
ask. `AnswersToTheirProgram` is a part of `LInv`: when a query is closed the
sub-queries that name its entry go with it (`clear`), and the answer to a number that
is no longer in the table comes to nobody. `ReadingStays` sets apart the two variables
of what the launcher has read. `LStepIsStep` shows each step of the launcher,
the streams and the server together to be a step of the server or none of its
business, so `IInv` is at hand in the proof of `LInv`.

**Client.** What the library computes it computes on a handle, and a synchronous call
may read many messages before it returns. `CInv` is `Sound(Now)` and what the server
side keeps; `TreatedSound` says that treating one message of a sound handle leaves a
sound one, `FlushedIs` extends it to all the messages that are waiting, by induction
on their number. A sound handle has at most one message on its way for each
identifier (`InWay`), about the key of the request that bears it, and exactly one
when that request is of this connection; as long as nothing was cancelled, no message
is on its way without a request or a call that waits for it. For the cache a yes or
no that is stored, or read next, is what the rule says unless a clear is behind it,
and the server's flag is up as soon as one is on its way. The counts are what has to
be followed through each action (`TailWay`, `ServerTreatsWay`, `AskWay`, ...).

**Codec.** The proof follows `buf_get_fields` over what `prot_put_field` wrote:
`Leads` says that some bytes take the reader from one state to another without an
end of record on the way; `UnitLeads`, `FieldLeads` and `RecordLeads` say it of a
character with its escape, of a field and of a record, whence `DecodedBody`, that
decoding undoes encoding. `EscapeParity` links the two readings of the same bytes
that the code makes, forward to decode and backward to count the escapes before a
line feed: the count is even exactly when the forward reading holds no escape. So
the first end of a record that is found is its own (`FirstEnd`), no encoding begins
another (`OneFirst`), and bytes that are the encodings of some records are so of
these only (`RecordsOfStream`, by `SizeRecursion`: the definition by what is left
has a value). `Out` is what the ring holds in order; `PutOut` and `WriteOut` say what
a put adds at the end and a write takes at the beginning, around the end of the
array or not. `StreamInv` is then inductive: ring, pipe and input are together a
list of whole records, and what was scanned before has no end of record, which is
what allows the code not to scan it again.

**Dates.** `DurationText` is a division by the units from the greatest on and
`parse_time_spec` a sum that saturates. `Written` says, after each unit, what reading
the text would give: no more than the part of the duration that is written, and not
0 if there is one. So the duration read is between 1 second and the duration
(`DurationFacts`): never 0, which would be "for ever", and never too long.
`DatesInv` says of each answer between the server and the cache that it was written
now, or one tick before and its key is in `aged`; that it is the only one of its key,
as the client asks once for a key until it is answered (`AskedOnce`), without which a
second answer could be older; and of the cache, that an item ends one tick after its
rule at the latest (`CacheEnds`).
TLC checked the parts of `DatesInv` that are said of answers, requests and cache
before they were proved. The tick that `EndsInTime` concedes is in the model: the
clock does not move while an answer is in `aged`.

**Cache.** `drop_lre` in a loop is a function of the number of turns; `RoomFacts`
says that what a turn keeps, the loop keeps, and that it never drops from an empty
cache. With it, `PutKeeps` says that nothing but the new item comes into the cache.

Out of the prover's reach and left to TLC: liveness (`ScriptsEnd`, `WaitersEnd`,
`ChecksAreAnswered`, `AnswersArrive`, `WholePlayEnds`). `Queue` and `CacheUse` are
model-checked only. The type invariants of `MemDb` and `FileDb` are proved, and in
no run. All the other properties of the passing runs are stated by a
theorem. What a recursive function computes is proved from its
existence by induction on a number (`Recursion`, `SizeRecursion` and `StrongInduction`
in `Lemmas`), written out where it is used since the library's induction theorems
cannot be instantiated here.

## 5. Disagreements with the documentation

- `memdb_cancel`. `anydb.h` and `db.h` say that cancelling a transaction cancels
  its changes. `memdb.c` keeps with each rule a saved value that is set when the
  rule is added and never again: after a committed change, a later cancel gives
  back the older value, that of its first setting, in the same transaction or
  before. `CancelRestoresKeys` is what remains true.
- `client_sync`. `cynagora.h` says that `cynagora_check` answers for the key.
  After `cynagora_async_setup` has cancelled a pending check, the answer to it
  still comes, and the next synchronous call takes it for its own without looking
  at the identifier. `SyncAnswerIsOwnUnlessCancelled` is what remains true.
- `cached_current`. `protocol.md` makes the `clear` message what keeps a client's
  cache right. An agent's answer to a rule that has changed meanwhile is sent
  after the clear, and stays in the cache. `CachedDirectIsCurrent` is what
  remains true.

Cancels happen when a replay fails inside `cyn_leave` and when an import fails.

Met while modelling, and not the subject of a run; the modules have the steps of
the first seven:

- `fbuf.c:265`: the flag `backuped` of a buffer outlives the sync that makes the
  backup old. Start on files that were written, commit a change: the next transaction
  makes no backup, and its cancel gives back the content of before the first, where
  `filedb.c:474` says the latest. `FirstCancelRestores` is what remains true.
- `filedb.c:287`: a database that did not exist is made of files of 0 bytes, and so
  is its backup. `recoverdb` does not give it the identifier that opening would give:
  the count of rules underflows, and the daemon exits. It is so of each cancelled
  transaction of the first run, as the backup is not made again.
  `BackupsReadable` is what remains true.
- `fbuf.c:131`: `fbuf_sync` skips a file when three sizes are equal. After a write
  that failed, an addition and the removal of what was added make them equal again,
  and a sync reports success while the file is missing or cut. `SavedIsOnDisk` is
  what remains true.
- `anydb.c:309`: a rule set with an empty permission is stored with the permission
  `#` (`anydb.c:154`, `563`), and searched with the text: setting it again adds a
  second rule. `OneRulePerKey` is what remains true.
- `queue.c:225`, `232`: a drop is recorded as the setting of an empty value. The
  setting of an empty value, which nothing refuses, is replayed as a drop and its time
  as texts; if the time is never and not to be cached (-1, without a byte 0) and ends
  the queue, the replay never ends. `PlaysWhatWasAsked` and `WholePlayEnds` are what
  remains true.
- `main-cynagora-agent.c:748`: `cynagora_agent_create` returns at its `done` and
  leaves in the buffer an ask that was read with it; the launcher looks at the buffer
  only when the socket has more. `ChecksAreAnswered` is what remains true.
- `cache.c:121` says that `drop_lre` drops the oldest hit. Putting an item does not
  age the others (`312`), and among equals the newest is dropped (`135`).
  `FoundOutlivesOlder` is what remains true.
- `cynagora.c:1232`, `1240`, `1267`: the flag `entered` of a handle is not cleared
  when the connection is lost nor when leaving fails; the next `cynagora_enter` is
  refused as "already entered" (`cynagora.h:358`) though the server has nobody
  inside. The programs of this repository end there.
- `main-cynagora-admin.c:508`, `524`: the result of leaving is ignored, a commit
  that fails is reported as done (`ReportIsTrue` says what remains).
- `cynagora.c:1183`: `cynagora_get` returns the status of the last reply read when
  waiting for the next one fails.
- `cyn-server.c:832`: a hangup is treated before the data that came with it; the
  last request of a client that goes is dropped. The launcher reads first
  (`main-cynagora-agent.c:748-768`): the answer of a program that ends is taken.
- `main-cynagora-agent.c`: `407`, the program in entry 0 of the table is never told
  the answer of its sub-query (`ChecksAreAnswered` excludes it); `409`, an error is
  told as "yes"; `428`, a full table of sub-queries is indexed with -1; `477`, the
  result of the sub-query is ignored, and a program whose sub-query could not be
  sent waits; `217`, a line longer than the buffer is read for ever.
- `expire.c:143`: the text of a duration of 0 is empty, and a client reads an empty
  date as "for ever". It happens when the clock reaches the date of a rule between
  its test and the writing of the answer (`EndsInTime` excludes it).
- `cache.c` keeps an item while `expire >= now`, `anydb.c` a rule while
  `expire > now`: a decision lives one second more in a client.
- `cyn-server.c:521`: the result of putting an ask is ignored; one that does not
  fit the buffer is not sent, and is never answered. An item of a list that does
  not fit is left out without a word.
- `prot.c`: a record of one empty field is skipped by the receiver, and fields
  above the twentieth are dropped; no message of the protocol has either.

## 6. What is not modelled

- The bytes of the files; a date that does not parse.
- What a stop inside the writing of a file loses: no property covers it.
- Failing allocations, but for those whose effect is that of a state already
  modelled (a check that cannot be allocated is answered no, a write is refused).
- Opening of sockets and `epoll`. In `CheckServer` and `AdminServer` a message is
  delivered when it is sent; in `Client`, `Launcher` and `AdminSession` messages are
  in flight, in order, and none is lost but with its connection; in `Prot` they are
  bytes.
- Of the client library: log and clearall, the identifier of a clear (a clear
  always empties), the callbacks of a request one by one, `cache_resize`, `cache_iterate`. A callback
  that asks inside a synchronous call is modelled (`ReceiveAndAsk`), one that
  cancels or disconnects is not. Checks, administration and agents are each modelled
  on a connection of their own.
- Of the launcher: the mode with one program for all asks, lines that are not of
  its protocol, a full table of sub-queries.
- `db-import.c`, settings, names of agents, command lines, file permissions: input
  and output around the models, without concurrency. `idgen.c` is what "used again
  only when nothing bears it" stands for.

## 7. Plan

Done: matching, critical section and server, databases, questions and agents,
checks of the client library; then scripts of changes over connections that break,
the launcher, the codec with dates and cache; proofs of the critical section, of its
refinement, of the scripts, of the selection, of both databases, of the check server,
of the launcher, of the checks of the client, of the codec and the dates; the bytes
of the queue and the uses of the cache, model-checked.

1. `Store`: `db.c` over `MemDb` and `FileDb` together, a begin that fails on one
   of them included, as an implementation of a transactional store.
2. `Client` with the agents' side and the administration calls on one connection;
   that its server part is what `CheckServer` does for one connection.
3. Proofs, with these: that `Store` implements what `Cyn` assumes of it, and that
   `Queue` replays what it was given.

## 8. Running

    tlc -workers 2 -config MCAdminSession.cfg MCAdminSession
    tlapm AdminSessionProofs.tla

The other runs are listed with their module and configuration in `PROJECT.json`.
