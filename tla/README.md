# nock-brain in TLA+

nock-brain keeps an agent's long-term memory in plain files: facts mined from transcripts,
signed, recalled into prompts, corrected, forgotten and rebuilt. It has no daemon. Every
command is a short-lived Python process that loads some files, decides, and replaces them,
while hooks, timers and the operator run other commands beside it. What is hard about it is
therefore not in any one function: it is what two such processes, a kill between two writes,
or a long sequence of legal commands leave on disk. These modules model that.

Paths below are relative to the repository (`src/` in `PROJECT.json`'s map).

## 1. The system

### Components, their state, their operations

| Component | Code | State | Operations | Correct when |
|---|---|---|---|---|
| Customer store | `bin/_consumer_store.py`, `bin/consumer-brain.py` | one directory: `facts.json`, `revocations.jsonl`, `proposals/`, a signed journal, temporaries, `.customer.lock` | open/load, propose, capture, correct, forget, apply, discard, recover | the files and the journal are one memory that only reviewed proposals change; forgotten facts never return; any interruption can be recovered from |
| Customer recall and hooks | `bin/_consumer_hooks.py`, `bin/consumer-hook.py` | none of its own; reads the directory without the lock | UserPromptSubmit recall, Stop capture | an answer comes from one committed memory, or there is none |
| Attestation | `bin/_sign.py`, `bin/sign-facts.py`, `bin/verify-facts.py` | the `attestation` of each fact, key files | attest, sign all, verify | a verdict depends on the fact, its parents and the key, and on nothing else |
| Verification cache | `bin/_verify_cache.py` | `facts.json.verified-cache.json` | load, look up, add, merge, save, unlink | it saves public-key operations and decides nothing |
| Edit history | `bin/edit-fact.py` | `fact-edits.jsonl`, `.edit-fact.lock` | edit, revert | an edit can always be undone, once |
| Rebuild pipeline | `bin/rebuild-store.py` | staging, backups, `facts.json` | extract, merge, gate, back up, promote | the operator's decisions survive re-extraction; nothing is lost without a backup |
| Supersession, revocations | `bin/supersede-fact.py`, `bin/_revoke.py`, `bin/backfill-revocations.py` | `status` in `facts.json`, `revocations.jsonl` | mark, sign event, audit, backfill | recall never shows what was revoked |
| Purge | `bin/purge-fact.py` | `facts.json`, `purged-ids.jsonl`, every mirror of a fact | take out, entomb, scrub | a purged fact does not come back |
| Curated memory | `bin/ingest-curated-memory.py` | the curated slice of `facts.json` | mirror the memory files | the slice says what the files say |
| Promotion batches | `bin/apply-promotion-batch.py` | `facts.json.applying`, `applied-batches.json` | fetch, check chain, stage, sign, verify, move, record | what is recorded is in the store and chains; reruns are harmless |
| Proposals of the owner | `bin/propose-facts.py`, `bin/approve-proposals.py` | `proposed-facts.json`, its page | propose, approve, reject | no proposal is lost, nothing is stored that nobody approved |
| Transcript ingestion | `bin/ingest-jsonl.py`, `bin/refine-sessions.py`, `bin/extract-facts.py` | maps of one transcript: denied calls, voice messages heard | read a part, emit events, deduplicate into facts | only the owner's words decide, and they are not lost |
| Deduplication, consolidation | `bin/dedup-facts.py`, `bin/consolidate-facts.py` | a reviewed manifest | cluster, review, supersede | what is executed was reviewed; no group of duplicates is hidden altogether |
| Synthesis | `bin/synthesize.py` | `insights.json` and its lock | cluster, sample, summarise, compare, publish | a slow run never replaces a newer output; an insight says what it was made of |
| Recall | `bin/budget-recall.py`, `bin/_dense_recall.py`, `bin/_graph_recall.py` | none | gate, rank, fuse, expand, reserve, pack | within budget, nothing dead, nothing twice, nothing lost to a summary that is not there |
| Embeddings, exports | `bin/_embed.py`, `bin/export-graph.py`, `bin/export-obsidian.py` | vectors, `graph.json`, the vault | rewrite from a snapshot of the store | a purged fact is in none of them |
| Store backends | `bin/_storeback.py`, `bin/migrate-store.py` | `facts.json` or `brain.db`, a staging file | resolve, load, rewrite, migrate | migration fails closed and changes no value |
| Memory explorer | `bin/explore-memory.py`, `bin/_explorer_store.py`, `bin/_explorer_preview.py` | a captured snapshot, generations on disk | capture, publish, show, preview | the capture is of one moment |
| The rest | receipts, windows, contradictions, queries, health, evaluation, hook and installer | | | reports, text processing and glue |

`PROJECT.json` lists every component with its files, modules and status.

### How they interact

* **Calls.** `consumer-hook` and `consumer-brain` open a `CustomerStore` session;
  `apply-promotion-batch` and `rebuild-store` run `sign-facts` and `verify-facts` as child
  processes; recall verifies through the cache.
* **Shared files.** Nearly everything meets in `facts.json`. Writes are atomic replacements
  (`bin/_store.py`), so a reader sees a whole version; but a writer replaces the version it
  *loaded*, which need not be the version it replaces.
* **Locks.** Only three exist: the customer store's lock, which every locked session holds
  from load to exit; `edit-fact`'s, which binds `edit-fact` alone; and the one around the
  publication of insights (the Explorer's threads share one inside their process). The live
  store has none: `docs/REPO-MAP.md` asks the operator to
  quiesce writers.
* **Sidecars of decisions.** `purged-ids.jsonl`, `fact-edits.jsonl` and `revocations.jsonl`
  exist because the nightly rebuild would otherwise mine again what the operator removed.
* **Crash boundaries.** Every operation that touches two files can stop between them. The
  customer store journals; the others order their writes and rely on a rerun.

### What is hard

Two-file updates interrupted at any step and repeated; recovery that itself dies; a lock-free
reader beside a two-file publication; a digest of an old version answering for a new one; a
check and a replace with a rewrite in between; append-only logs with torn ends; decisions that
must survive a merge with older data; reruns of what was half done. `PROJECT.json` lists each
hazard at the line where it bites, with the properties aimed at it.

## 2. The modules

```
CustomerFacts ─┬─ CustomerMemory        (abstract: one indivisible memory)
               └─ CustomerStore ─┬─ CustomerRecall ─┬─ MCCustomerRecall
                    (INSTANCE    ├─ MCCustomerStore │
                  CustomerMemory)└──────────────────┴─ CustomerStoreProofs
Attestation ─┬─ VerifyCache ─┬─ MCVerifyCache
             │               └─ VerifyCacheProofs
             └─ EditHistory ─┬─ MCEditHistory
                             └─ EditHistoryProofs
LiveStore ─┬─ MCLiveStore
           └─ LiveStoreProofs
PromotionBatch ─── MCPromotionBatch
Clustering ─┬─ StoreBackend ─── MCStoreBackend
            └─ InsightLineage
PromotionBatch, StoreBackend, ProposalQueue, Ingestion ─── MCStoreInputs ─── StoreInputsProofs
RecallPack ── RecallRank ── RecallSelect ─┬─ MCRecallSelect
                                          └─ RecallPackProofs
MCRecallSelect, InsightLineage, DerivedFiles, Explorer ─── MCStoreOutputs
                InsightLineage, DerivedFiles, Explorer ─── StoreOutputsProofs
```

`MCStoreInputs` and `MCStoreOutputs` each hold four components that share no state in the models
(they meet in `facts.json`, whose races are LiveStore's subject). A variable `focus`, chosen at the
start, says which of the four a behaviour moves; the others stay in their initial state. This is
an economy, one run for four questions, and not a composition: the states are the sum of the four
state spaces, and nothing is claimed about the four together.

An operator commented `Slip:` stands beside the definition it distorts. It is the plausible
mistake in that piece of code against which the properties are tried (a dropped guard, a
swapped order, a missing reset); no behaviour uses it, and reading past it loses nothing.

### CustomerStore, CustomerFacts, CustomerMemory

`facts` and `revs` are the two files, `journal` is `.customer-journal.json`, `temps` counts
the transaction temporaries, `proposals` is the queue, `lock` the advisory lock, `derived`
whether an output of another tool (vault, sidecar) is in the directory, which makes lifecycle
operations refuse. For each process, `pc` is its place in the command, `view` the generation
it captured at load, `want` the proposal in hand.

A command is `Open` (`__enter__`, `_load`), then one of `Propose`, `Capture`,
`ProposeCorrection`, `ProposeForget`, `Discard`, `ApplyImport`, `ApplyLifecycle`, `Recover`
or `Close`, then the steps of `Continue`, one per change of the disk: a temporary appears
(`Stage`), is renamed (`Publish`, `ReplaceFacts`, `PublishJournal`, `ReplaceRevocations`,
`RewriteFacts`), a file is unlinked (`SweepTemp`, `ClearProposal`, `RetireJournal`). Between
any two of them the process may be killed (`Crash`, its temporary stays), a system call may
fail (`Fail`, the `finally` clause unlinks the temporary), or a check in the middle may refuse
(`Refuse`). The second half of a correction or erasure *is* the recovery, as in the code.

A fact is an identifier with a status: identifiers are hashes of the content, so the content
adds nothing. A generation is the pair of contents whose digests the code compares. Signatures
and the manifest are left out: within one directory nobody else writes them.

`CustomerMemory` is what the owner is promised: a fact list and a set of revoked identifiers,
changed by `Import`, `Correct` and `Forget`, each in one step, never listing a revoked
identifier again. `CustomerStore` maps to it with the journal's rename as the commit point
(`Committed`, `Revoked`), and `ImplementsMemory` is checked as a property.

### CustomerRecall

Extends the store with one reader: it looks for temporaries and a journal, stamps the two
files, reads them one after the other, validates them against each other, and looks again at
everything. `moved` records which stamped files were replaced since; `seen` collects the
memories committed while the recall runs.

### Attestation and VerifyCache

`Attestation` gives facts cores, parents and signatures and defines the four verdicts
(`Verify`), with hashes as the values they are taken of. `VerifyCache` runs recalls that stamp
the store, load the sidecar, read and verify the store, merge what peers saved, check the
stamp and replace the sidecar, step by step, while facts are added, edited, altered, removed
and re-signed, the key is replaced, and the sidecar is removed or spoiled.

### EditHistory

`store`, `history` (the rows `load_edits` gets back), `torn` (the file ends without a line
feed) and the editors' lock. An edit logs, then writes; a revert writes, then logs; an editor
may stop between any two steps, an append may tear, another tool may write without the lock.

### LiveStore

Everything that rewrites `~/.nock-brain/facts.json`: load and mark and sign an event
(supersede, dedup, consolidate), backfill, take out and entomb (purge), log and write (edit),
approve, mirror the curated files, and the rebuild from extraction to promotion, rename or
copy; and recall, which hides what is revoked. Each step is one file. No process waits for
another, as in the code; the history variable `overlapped` tells whether any two commands ever
ran at the same time, because some promises hold only then (section 4, "Known races").

### PromotionBatch

The applier of server batches against a server that builds and rolls back, other writers of
the store, a second applier, kills between any two steps, and the candidate file a killed run
leaves behind.

### ProposalQueue and Ingestion

`ProposalQueue`: `propose-facts` (load the store, read the queue, merge, render the page),
`approve-proposals` (decide on what the queue holds, release into the store, rewrite the queue)
and `extract-facts` (append what the store lacks), a step for every file read or written, killed
between any two. `queued`, `approved`, `rejected` and `direct` record what was decided.

`Ingestion`: a transcript is a sequence of parts of the user, the assistant and tools, in any
order but a result after its call, in any session. `denied`, `pending` and `voices` are the maps
of `line_events`: calls whose result must not be read, transcription calls waiting for their
result, voice messages of the owner not yet transcribed. `Frame` says how a user part came:
typed, in a Telegram or nockcc frame, in a frame of an engine. `Refine` walks the events and
keeps the first of each text.

### StoreBackend, Clustering

`jsonFile`, `dbFile` and its write-ahead log, the staging file, and the `store-v2` marker by
which `resolve_store` selects. A row is a status, a text, the fact that supersedes it and the tool
that said so, and a `shape`: plain, or one that the schema coerces, refuses or does not model, or
that `load_facts` drops. `FileRows` is what the selected file holds, `LiveRows` what `load_facts`
returns of it (`Valid` is `filter_valid_facts`); `Rewrite` is `replace_all`, through the schema on
SQLite (`Stored`). `window` says where the present is in the validity window of each fact, and
`TimePasses` moves it. `migrate-store` loads, fills its staging file, verifies it and replaces, and
is killed anywhere; the operator cuts over and back; `dedup-facts` goes through the store contract
and looks at windows (`Live`); `consolidate-facts` takes `facts.json` as it is, writes a manifest in
a dry run and executes it later; `approve-proposals` adds to `facts.json` whatever is selected, and
drops what `load_facts` drops; `edit-fact` refuses a store with such a record, and cannot edit
`brain.db` (section 4). `Clustering` is the greedy clustering that consolidation and synthesis share
in shape.

### RecallPack, RecallRank, RecallSelect

`RecallPack` is the packing loop of `select_recall`: reserved slots are paid in advance, then
insights and facts are taken while they fit. It takes any `Question` (rows, order, costs,
reservations, coverage), which is what its proofs range over. `RecallRank` computes the question
from a store: the gates, word search, dense fusion, graph expansion, the caps, and which sources
an insight covers. `RecallSelect` is the two together.

### DerivedFiles, InsightLineage

`DerivedFiles`: `names[file]` is the set of facts each derived file names. `synthesize` notes the
identity of its output, reads the sources, works without a lock, compares under the lock and
publishes; exporters and `embed-facts` rewrite a file from a snapshot; a purge plans what it will
write, replaces the store, appends tombstones and then goes through the files in the code's order.
Two processes, killed anywhere. `InsightLineage` computes what such a run writes: clusters, the
distinct events behind one, the sample of its facts by day, the lineage, and the validation that
recomputes it. The heuristic summary quotes the text of the latest input or, of one longer than 160
characters, the beginning, which covers nothing (`Excerpts`). What the code sorts has a strict order there, so a sorted list is stated by rank
(`Sorted`), and the rounds of `representative_inputs` are an order, too: before a fact come those
with fewer facts of their date before them and, of as many, those of a later date (`Turns`). The
facts have distinct ids, or `publish_insights` refuses the store (`Readable`).

### Explorer

Threads under the server's lock capture files stamp by stamp, read by read, while tools replace
and remove them, build a generation, publish it or fail; previews run on the generation their
page shows.

## 3. The runs

| Run | Question | Bounds | Distinct states |
|---|---|---|---|
| `store_safety` | Do files, journal, queue and lock behave as one memory, whatever is interrupted? | 2 processes, 3 facts, 2 proposals, 2 leftovers, 2 faults | 220,672 (under symmetry) |
| `store_recovery` | Is an accepted operation finished in the end? | the same with 2 facts, `FairSpec` | 58,816 |
| `customer_recall` | Is a lock-free answer a committed memory? | 1 writer, 2 facts, 2 proposals, 1 leftover, 1 fault | 879,716 |
| `cache` | Do cached verdicts equal full ones, and does the sidecar stay that of its version? | 2 recalls, 2 facts, 2 contents, 2 keys, 2 versions, 1 spoil | 191,154 |
| `edit_history` | Can every edit be undone once, whoever stops where? | 2 editors, 2 facts, 3 contents, 3 rows, 1 foreign write, 1 tear | 223,843 |
| `live_store` | Do the operator's decisions survive rebuilds; does recall hide the revoked? | 2 processes, a mined and a curated fact, 4 commands | 760,830 |
| `store_inputs` | Is what is recorded in the store, released what was approved, heard what was said, migrated what was there? | see below | 1,433,526 |
| `store_outputs` | Is what recall, synthesis, exports, purge and the Explorer make of the store within its limits and of one moment? | see below | 1,256,517 |
| `store_purge_killed`, `batch_rerun`, `revoked_revision`, `consolidate_cutover` | Four statements of the repository that the code does not keep (section 4) | smaller instances | |

### Why these bounds are enough to be interesting

* `store_safety`: three facts are a corrected one, its replacement, and a third to be proposed
  meanwhile or to replace the replacement; two proposals fill the queue, so a full queue and a
  stale proposal both occur, and an erasure meets proposals saved before and after a change;
  two faults allow a recovery to die and be recovered; two processes contend for the lock.
  `MaxProposals` is the code's `MAX_PROPOSALS` and `MaxTemps` its `MAX_TRANSACTION_TEMPS`, made
  small. With `MaxFaults <= MaxTemps` the store never collects more leftovers than `_load`
  tolerates; past that it refuses to open until they are removed by hand, which is what the
  code does and no liveness can hold.
* `cache`: two versions are one rewrite, before or after any step of either recall; of two
  facts one may be the parent of the other in either version, which is what distinguishes
  `tampered` from `parent-suspect`; one spoil is a key replaced or a sidecar destroyed.
* `edit_history`: three rows are an edit, its revert and one more of another fact or editor.
* `live_store`: four commands are a decision, a rebuild, another rebuild or a purge between
  them, and the recall that looks at the result.
* `store_inputs`: three batches are a chain with a middle to roll back, and a local id `2` collides
  with a batch's fact while `0` does not; three queue commands of two tools over two proposals are
  a proposal, a decision and whatever overlaps either; five parts of a transcript are a voice
  message, its call, its result and a second call and result of the same message, in two sessions;
  three rows and four jobs are a cluster of three, or of two and a bystander, one of them out of its
  window or some malformed, and a migration, a cutover, a dedup and a consolidation (two jobs, with
  its dry run) in any order with one edit, approval or end of a window (`MaxEdits`) between.
* `store_outputs`: three facts, one of them reserved or curated, and one insight over them, under
  every combination of gates that differ, every cost and budget around the point where something
  stops fitting; clusters of three and four facts with every overlap of events and days; three
  commands of two writers over two facts when they run one at a time and two when side by side (a
  purge, its rerun and a publication or export between); three files, two changes, two requests of
  two Explorer threads.
`MaxFaults`, `MaxVersions`, `MaxSpoils`, `MaxRows`, `MaxExternal`, `MaxTorn`, `MaxStarts`,
`MaxBatch`, `MaxJobs`, `MaxEdits`, `MaxCommands`, `MaxLines`, `MaxRuns`, `MaxSideBySide`,
`MaxWrites`, `MaxChanges` and `MaxRequests` are bounds of the models; the code has no such limits. Processes, facts, keys and
contents are declared symmetric where the specification treats them alike (and not in
`store_recovery`, since symmetry is unsound for liveness). `CHECK_DEADLOCK FALSE` stands only
in the models whose processes may all have used up their starts, or whose one question has been
answered (recall, synthesis).

### What each property says

* `ImplementsMemory` — the store refines `CustomerMemory`: each commit is one of its three
  steps, and revoked identifiers stay out, across kills, recoveries and repeated recoveries.
* `AlwaysReadable` — `_load` accepts every directory the program can leave behind.
* `SessionSeesDisk` — the lock makes the generation checks redundant, as the design intends.
* `EventAppendedOnce`, `NothingSavedBeforeErasure`, `QueueWithinLimit` — replaying a journal
  appends once; an erasure leaves no saved copy of what it erased; the queue never reaches a
  length at which an erasure could not be finished.
* `OnlyReviewedChanges`, `StaleStaysStale` — every change is a saved proposal made from exactly
  the generation it changes, and a proposal that went stale does not become fresh again.
* `RecoveryCompletes` — whatever needs recovery is recovered (liveness).
* `RecallIsLinearizable` — an answer is a memory committed while the recall ran.
* `CacheDecidesNothing`, `SidecarOfItsVersion` — see above.
* `UndoKnown`, `NothingLost`, `RevertedOnce`, `EditSparesChildren` (EditHistory) — the store's
  content is what the last row made or restores; nothing unlogged is overwritten; two reverts
  never follow each other; an edit turns no other fact's verdict.
* `DecisionsKept`, `PurgedStaysAway`, `NothingLost`, `RevokedHidden` (LiveStore).
* `RecordedInStore`, `RecordedChain` (PromotionBatch) — what is recorded as applied is in the
  store, and forms one chain.
* `NoProposalLost`, `OnlyApproved` (ProposalQueue) — run one at a time and killed anywhere, a
  proposal is queued, stored or rejected; however they overlap, nothing is stored that was neither
  approved nor extracted directly, and nothing twice.
* `SpokenOnce`, `UserDecides` (Ingestion) — a voice message becomes words of the owner once, and
  only after it was heard in that session and transcript; only the owner's words become decisions,
  and none of his is dropped but for a text that made a fact already.
* `MigrationFaithful`, `OneStays`, `HiddenForShown` (StoreBackend) — `brain.db` is value for value
  what was migrated or written since; every superseded fact leads, from successor to successor, to a
  current one, although the two tools prefer opposite ones, with one exception: `consolidate-facts`
  may keep a malformed record, which the next rewrite by a tool that loads the store loses.
  "Current" is a matter of status there, for `consolidate-facts` does not look at windows;
  `HiddenForShown` is what `dedup-facts` adds, which does: what it hides gave way to a well-formed
  fact that was in effect and is still in the store.
* `BudgetKept`, `ReservedGuaranteed`, `NothingLostToSummary`, `HiddenStaysHidden` (recall) — the
  count of tokens is that of the rows injected and within the budget; reserved rows that fit are
  injected; a fact gives way only to an insight that is injected and holds it; no way into the
  results skips a gate. Rows that revoke others come with and without a gate of their own.
* `OwnLineageValid`, `SampleIsFair` (InsightLineage) — what synthesis makes passes its own
  validation, and its sample takes facts day by day.
* `NewerSynthesisKept`, `PurgeLeavesNothing` (DerivedFiles) — a publication never replaces one it
  did not see; a purge that reports success, after any killed ones, leaves nothing.
* `SnapshotCoherent` (Explorer) — there was an instant of the refresh at which every file that is
  shown was on disk as shown, and a file shown as missing was missing before that instant and
  after it; a preview runs on the generation its page shows.

`RTypeOK`, `VTypeOK`, `ETypeOK` and `LTypeOK` document the state of their modules and are not
listed in a configuration; the specific invariants above are what those runs are for.

### Fairness

Only `store_recovery` needs it. `FairSpec` assumes that a command once begun goes on (weak
fairness of `Continue(p)`: it is straight-line code), that an opened session does something or
closes, that somebody opens the store again when the lock is free (every prompt's and every
session's hook does), that foreign outputs are removed in the end, and — strong fairness of
`Recover` — that not every session that finds recovery due walks away: `status` prints
`recovery_required`, and `recover` is the only command that then changes anything. Faults are
finitely many; no fairness is assumed of them, and none keeps them from happening.

## 4. What the runs found

### Statements the code does not keep

* **`store_purge_killed`** — a purge killed between the store and the tombstone leaves none,
  and its rerun finds nothing to remove: the next rebuild mines the fact again
  (`purge-fact.py:460`).
* **`batch_rerun`** — an applier killed between the move and the record leaves a pending batch
  whose facts are in the store, and every rerun is refused as a collision
  (`apply-promotion-batch.py:15` calls reruns idempotent).
* **`revoked_revision`** — a fact whose revision a current peer revokes is dropped by the word
  search, and comes back through the vectors or the graph, which are handed all facts and know
  nothing of revisions (`tests/test_bitemporal.py:158`, `_graph_recall.py:169`).
* **`consolidate_cutover`** — with `brain.db` selected, `consolidate-facts` selects from
  `facts.json` and writes its rows over the database (`consolidate-facts.py:45`).

Three more were found in the same way and are listed here without a run of their own:

* `save()` of the verification cache compares the stamp in `before_replace` and calls `os.replace`
  in a second step. A rewrite of the store and the save of a second recall fit in between, so a
  stale writer can put an older sidecar back, which `_verify_cache.py:60` and
  `docs/REPO-MAP.md:249` exclude. The cost is a cold verification: `CacheDecidesNothing` holds.
* After a torn append to `fact-edits.jsonl` the next row continues the torn line and is not read
  back; the edited store has no revert row, contrary to `edit-fact.py:283`.
* `_raw_record_count` reads the selected file as UTF-8 text and is to return `None` for a SQLite
  backend (`edit-fact.py:127`). The bytes of a database are not UTF-8, and it catches `OSError` and
  `JSONDecodeError` only (line 132), so with `brain.db` selected `edit-fact` ends in a
  `UnicodeDecodeError` before it writes anything (`Edit` is a step of `facts.json` alone).

### Known races

The live store has no lock, and the repository asks the operator to keep writers apart. The
following happen in the models when writers overlap, or when a command is used for what it does
not consider; the properties above are stated so as not to promise otherwise, and each is a
candidate for a stronger property if the code changes.

* A tool other than `edit-fact` may write between an editor's load and its replace: a revert
  then overwrites content no row holds.
* After a kill between the row and the store, the next edit's `old` is not the previous row's
  `new`: rows of one fact need not chain (each is still undoable).
* `_revert` does not look for children, so reverting a parent can turn its children suspect.
* `--replace` reads no tombstones: a purged fact within the window returns.
* The gates of a rebuild look at the store long before it is promoted over: a fact approved
  meanwhile is in no backup but the one taken at promotion, and not in the store.
* Two commands that load the same store overwrite each other; a supersession may be undone
  although its signed event stays. Recall hides the fact all the same (`RevokedHidden`).
* `ingest-curated-memory` makes a revoked curated fact current again; recall hides it.
* Between filesystems `shutil.move` copies, and a kill leaves an unreadable `facts.json`;
  the backup of that run has everything.
* Two appliers share `facts.json.applying`: one may move what the other has staged but not yet
  signed. An applier drops facts another tool adds between its read and its move.
* A migration killed after `os.replace`, over a database whose last writer was killed, leaves that
  writer's write-ahead log beside the new `brain.db`: SQLite reports a malformed image
  (`MigrationFaithful` excepts it). Two migrations share one staging path. `migrated_from_sha256`
  is the digest of a second read of `facts.json`.
* The rerun of a killed purge finds no fact in the store, so it scrubs mirrors (from the
  tombstones) and events (from a pattern), but leaves insights, graph and notes.
* A purge writes the contents it planned: a publication of insights, or an export, in between is
  overwritten; and an exporter that loaded the store before the purge brings the fact back into
  its file. `synthesize` refuses to publish over changed sources, exporters do not look.
* Overlapped `dedup-facts` and `consolidate-facts` may supersede both of two duplicates.
* `consolidate-facts` selects from the raw records of `facts.json`: it may supersede a group in
  favour of a record that `load_facts` drops, or of one that is out of its validity window. Recall
  shows neither; and the next `dedup-facts --apply` or `approve-proposals`, which write back what
  they loaded, lose a malformed record for good (`edit-fact` refuses such a store for that reason,
  `edit-fact.py:396`, they do not). `OneStays` excepts the former and is silent on the latter.
* Overlapped `propose-facts` and `approve-proposals` may lose decisions and queue entries; a
  rejection is not remembered, so the next proposal run queues the text again; `--approve-all`
  releases what was queued after the page was read.
* The deduplication key is the first 100 characters of a text whatever its kind, so a decision
  of the owner may be dropped as a duplicate of an observation that begins alike (`UserDecides` is
  stated up to the key).
* `_capture` of the Explorer stamps a missing file as missing, and one absence is like another: a
  file that is created and removed between its two stamps goes unnoticed, so the instant at which
  the others were on disk together may be one at which it was there. `SnapshotCoherent` promises no
  more than that.
* Event ids of two text parts of one transcript line are equal. Text in a Telegram frame has actor
  `user` whoever sent it; only voice messages are matched against the allowlist.

## 5. Proofs

`tlapm` checks the following for every value of the constants allowed by the named assumptions
(the `...Assumption` of each module). They say that null values are not identifiers or versions,
that bounds are natural numbers, that facts and insights have different ids, that the Explorer
captures a list of different files that is not empty, and the like: what the code's own constants
satisfy. Counters that the models cap (`MaxStarts`, `MaxChanges`, ...) are capped by *any* natural
number. TLC evaluates each assumption on the instance of a passing run.

Every safety and action property of
the passing runs is proved except those listed at the end of this section.

### CustomerStoreProofs

`Inductive`: `Spec => []IInv`. The checked properties are far from inductive alone. `Readable`,
for instance, is preserved by `RewriteFacts` only if the journal describes a legal operation on
the generation it names, which depends on what was checked three steps earlier, which depends
on nobody else having written since. `IInv` conjoins

* `TypeOK`;
* `Exclusion` — a process in a session holds the lock and its view is the disk;
* `TempHeld` — a process about to rename accounts for a temporary (so `temps - 1` is natural);
* `NoJournalYet` — no journal exists while a proposal is being saved or applied;
* `Decided` — what was checked when the proposal was chosen still holds at the rename of the
  journal;
* `JournalLegal` — the journal's event was eligible and leads to a consistent list;
* `Position` — the files are at one of three points of the journal's operation;
* `Progress` — where the recovering session is, the files are.

`NextCases` and `StepShape` reduce the next-state relation to what matters for the rest (who
changed the disk, who has the lock); then one lemma per conjunct, with one step per action that
can disturb it. `TypeCorrect`, `SessionsSeeDisk` and `DirectoryReadable` follow from `Inductive`
for the properties `TypeOK`, `SessionSeesDisk` and `AlwaysReadable` of run `store_safety`.

`StoreImplementsMemory`: `Spec => ImplementsMemory`, from `IInv`. Initial states map to the
initial memory (`InitRefines`). Of the steps, the rename of the list is `Import` (or a stutter,
if everything in the proposal is listed by now: `ImportRefines`), the rename of the journal is
`Correct` or `Forget` (`JournalRefines`), and carrying the journal out, in the session that
wrote it or in any number of recoveries, changes neither the committed list nor the revoked
identifiers (`RecoveryRefines`): the journal already promised both.

**The review queue.** Two more layers on `IInv`, each inductive.

`RInv` adds `Chosen` (the proposal being applied is still queued and of the generation on disk),
`EventNew` (a journal's event is none of those before it: its target is listed, and for a
correction current, which `LifecycleOK` denies of every recorded event), `EventAppendedOnce`
itself, and `Queue` (a session saving a proposal left room for it). From it: `AppendedOnce`,
`QueueBounded`, and `ReviewedOnly` for the action property `OnlyReviewedChanges`.

`EInv` adds `SavedFresh`, `QueueKnows` (while a journal exists, only its own event may be unknown
to the queue), `ClearedFirst` (an erasure's journal is retired only over an empty queue) and
`Ordered` (generations are ordered by the number of events, then by the facts listed, and every
saved proposal's is at or before the one the files had before the operation under way). From it:
`ErasureLeavesNothing` and `StaleForEver`. With these every safety and action property of run
`store_safety` is proved.

**The hook.** `RecallLinearizable`: `RSpec => []RecallIsLinearizable`, for the hook that takes no lock. `RecallInv`
joins `IInv`, which the reader cannot disturb, with what is in `seen`: the memory committed now
(`SeenNow`) and, while a journal exists, the one it says was there before (`SeenBefore`). Two files
that `LifecycleOK` accepts together are one of these two: between the two renames of an operation
the pair on disk is not legal. The file read first is the one on disk until `moved` shows otherwise
(`Copied`), so at the second look at the first file either the pair was on disk together or the
second look at the other file fails (`Answered`).

### VerifyCacheProofs

`CacheSound`: `Spec => []CacheDecidesNothing`. The invariant `CInv` adds that every digest in
memory or in the sidecar is *true*: its recorded verdict is what the public-key operation says
of the signature, key and payload it binds (`DigestTrue`). Because a digest binds everything its
verdict depends on, no rewrite, key change or spoiled sidecar can falsify it; that is why the
cache may outlive the version it was filled from. `CachedIsFull` shows that verification with
true digests equals verification without, `LiveTrue` that it makes only true digests.

`SidecarOwn`: `Spec => []SidecarOfItsVersion`. What a recall saves it either hit or added while it
verified the facts of one version, and it saves only if its facts are of the version it stamped
(`OfItsVersion`); versions are only ever appended, so this stays true (`OneMoreVersion`), and a
sidecar that a stale writer puts back is still that of the version it names.

### RecallPackProofs

`SelectPacks`: every behaviour of `RecallSelect` is one of `RecallPack`, whatever the store, the
question and the gates, so it is enough to prove things of the packing. `PackInductive` is its
invariant, `PackInv`: while the walk fills the budget, what is included lies before the walk's
place (`Walking`), which makes appending the next row injective because no row is found twice; a
fact counts as covered only because an insight that is included covers it (`CoveredByIncluded`);
of the facts passed none is missing from both (`NonePassedMissing`); and a walk that stopped
stopped at a fact that does not fit. From it `RecallLosesNothing` (the whole of
`NothingLostToSummary`).

`PaidInductive` is a second invariant, `PaidInv`, on top of it: the tokens counted are those of the
rows included and of the committed rows that are not included yet (`Paid`, with `Owed`), which is
what makes it irrelevant whether a reserved row is reached by the walk or appended after it; during
the first pass the committed rows are the reserved ones passed and the count is that of a prefix of
the results (`InReserve`); and once the pass is over, no reserved row is missing if all of them fit
(`Guaranteed`), because the first that does not fit would lie in a prefix that costs less than all
(`CostsRise`). From both follow `RecallPaysOnce` (the whole of `BudgetKept`) and
`RecallKeepsReserved` (`ReservedGuaranteed`). What a sum of costs is, is a recursive function
(`Costs`): that it exists and what it gives for one row more, one less, or one no longer wanted, are
inductions (`Inductions`).

`RecallHides`: `SelectSpec => []HiddenStaysHidden`. Each stage of the selection is shown to return a
list of rows of the store that pass the gates of that stage, none twice (`SearchAre` to
`InsightResultsAre`); all lists are made by position or by rank, and in a finite set with a strict
order every rank is that of one element (`Ranking`). What is injected
was found (`FoundInv`). The same lemmas give `AskedIsQuestion`: whatever the store, what is packed is
a `Question`, so the condition on `asked` in `PackInit` excludes no input. The proof also corrected
the statement: it used to count as revokers all loaded rows of a tier, while `search` is given only
those no event revokes and, of the insights, those that were judged. That had passed its run because
no revoker there was out of the search; now the run has such revokers, and the property speaks of
the peers that are searched.

### Inductions

What the provers lack for recursive functions, stated once. A set of numbers that is not empty has
a least one (`Least`, by the library's well-foundedness of `<`), so what holds at 0 and passes from
each number to the next holds up to n (`UpTo`); hence `f[k] == IF k = 0 THEN x ELSE step[f[k - 1], k]`
defines a function (`Iterated`), which is what lets a proof use a recursive definition at all. In a
finite set with a strict order every rank is that of one element (`Ranking`, `RankIn`, by the
library's pigeonhole), so a list made by rank has each element once; a finite set of numbers has a
greatest (`Topmost`). Of the clusters, which consolidation and synthesis share: what is in
one is a fact of the list, and no fact is in two (`ClustersAre`).

### EditHistoryProofs

`EditInv` is inductive. The lock admits one editor (`Exclusive`), so nobody appends between what an
editor reads of the history and the row it writes: a pending revert still follows an edit
(`PendingRevert`), whence `RevertsOnce`. While no other tool writes and no append tears, the lock
keeps the store as it was loaded too, and the last row of a fact holds what the fact says now and
what it said (`Followed`), whence `UndoStaysKnown` and `EditsLoseNothing`. `EditsSpareChildren` is an
invariant of one step: an edited fact that is a parent was refused at the door, and the verdict on
any other fact reads neither the content nor the signature that changed (`ResignedIs`).

### LiveStoreProofs

The live store has no lock, so its promises are about commands that run alone, and the argument
starts there: as long as nothing overlapped at most one command is under way (`Alone`), and what it
read is still on disk. `LiveInv` then says, command by command (`Local`), that what it holds keeps
every decision in the file (`Kept`) and, once a rebuild has merged, has nothing with a tombstone
(`Merged`). `merge_facts` keeps the text of an edited fact because the edit log names it
(`EditsKnown`): the log is written before the store. From it `OperatorDecides`, `TombstonesHold` and
`NoFactLost`, each an action property. `RevokedStaysHidden` needs no such premise: recall reads the
revocations after the facts, and they are only ever appended to (`RecallInv`).

### StoreInputsProofs

Four components, four inductive invariants, no shared variable.

* **ProposalQueue** — `QueueInv`. Whatever overlaps, what a tool holds of the store was once the
  store and what it releases was approved (`HeldApproved`): `StoreApproved`. While commands run one
  at a time, what a tool read is still so when it writes (`HeldCurrent`), and the tool that decides
  has every proposal it found, to release, to keep or rejected (`Deciding`): `ProposalsKept`.
* **Ingestion** — `IngestInv`. A voice message waits from when it is heard until it is promoted or
  its transcript ends (`StillHeard`), and only what waits is promoted: `VoiceSpokenOnce`. The keys
  are those of the facts (`KeysSeen`) and the user's events are never results of tools
  (`OwnWords`): `OnlyTheUserDecides`.
* **PromotionBatch** — `BatchInv`. A batch's parent is older than the batch (`Linked`), so what
  `check_chain` accepts lies after what is applied and continues its chain (`ChainContinues`):
  `RecordedIsChain`, whoever overlaps. Alone, an applier has in its candidate all that is in the
  store and in its batches, and records only what it moved (`RunsAlone`): `RecordedIsStored`. That
  the highest of finitely many numbers exists is an induction, done through the least upper bound
  (`HighestIs`).
* **StoreBackend** — `BackendInv`. The gates refuse a malformed row and no tool makes one or makes a
  value the schema does not model (`NoOdder`), so once `brain.db` is there neither file has one
  (`Sound`, `Storable`) and the schema returns what it is given (`StoredIs`), whoever writes through
  it; what is staged is what was loaded, and it is compared before it replaces `brain.db`:
  `MigrationIsFaithful`.
* **The successors** — `OneAlwaysStays`: `BackendSpec => []OneStays`, and `AlwaysHiddenForShown`:
  `BackendSpec => []HiddenForShown`. The two tools disagree on what they keep, on what they look at
  and on what belongs together, so nothing about one of them is invariant but this: a fact that goes
  has a successor that stays (`Replaces`). For `dedup-facts` the least of a component is the least of
  its own component, because the walk is complete (`ComponentIs`: with every step it grew or was
  closed, and it cannot grow for ever) and symmetric (`ComponentWithin`); for `consolidate-facts` the
  greatest of a cluster is in no other, because each fact joins one cluster (`ClustersAre`, an
  induction over the facts). The inductive invariant (`Succession`) is one of rows (`Kept`) and holds
  of `facts.json`, of `brain.db` and of what a migration has loaded, since rows move between them. It
  supposes a time at which each superseded fact went: its successor, if it went too, went later
  (`Succeeds`); and what `dedup-facts` chose was loaded and in effect, so that nothing drops it
  (`ChosenLive`, `ValidKept`). Along a chain of successors the number of facts that went earlier
  grows, and there are only so many (`ChainEnds`): it ends in a fact that is current, or in one that
  is gone, which only `consolidate-facts` can have chosen.
* **Types** — `InputsTyped`: `InputsSpec => []InputsTypeOK`. What the invariants above leave out of
  the types decides nothing (histories, bounds, the page) and is kept by their shapes
  (`QueueTypes`, `IngestTypes`, `BatchTypes`, `BackendTypes`). A behaviour of the instance is one of
  each of its components (`InputsCompose`): this is how everything above holds of run
  `store_inputs` too.

### StoreOutputsProofs

`NewerKept`: `DerivedSpec => NewerSynthesisKept`. The lock is held only from the comparison to the
publication, and a purge writes `insights.json` without it, so the argument goes through the
identity of the file: every write changes it and none brings an old one back, hence an output that
still has the identity noted at the start has seen no publication since (`NotedOutput`); from the
comparison on, the lock keeps other publishers out (`Locked`), and a purge may intervene, which
publishes nothing.

`PurgeComplete`: `DerivedSpec => []PurgeLeavesNothing`. A purge plans the new content of every file
before it writes any. `PurgeInv` says for one that runs alone (`Purging`) that what it planned is
still true of the files, that what it has swept is clean, and that the mirrors that have to go are
among those it still holds. The links of the vault are where it is subtle: they are swept of links
to the mirrors the purge deletes, not of facts, and that suffices only because the vault's links
lead to mirrors that exist, an invariant of the exporter's order (mirrors first, then links).

`ShownTogether`: `ExplorerSpec => []SnapshotCoherent`. A version of a file never returns after it was
replaced (`Unreturning`), so equal stamps before and after mean the same file in between, and the
instant after the last first stamp lies between the two stamps of every file (`CapturingAt`). The
first statement of the property said the same of missing files. It had passed its run only because
the bound of two changes leaves no room to create and remove a file between two stamps, and no proof
of it could exist; with six changes TLC finds the counterexample. What is stated now is what the
code gives (see the known races).

`LineageValid`: `LineageSpec => []OwnLineageValid`, and `SampledFairly`: `LineageSpec => []SampleIsFair`,
for every store with distinct ids. The invariant itself is small: each insight is the summary of the
candidate of its place (`LineageInv`). The work is in what the operators return. Everything that is
sorted is a finite set with a strict order, so its list has each element once and in that order
(`SortedIs`, for lexicographic keys `KeysOrder`). Hence an occurrence lists all its supporters
(`OccurrenceIs`); no two identities give one event, because the first fact and the event id tell them
apart, so `recurrence` is the number of identities (`EventsAre`), which is the sum the property states
(`Counting`); no fact represents two events (`PickedAre`, an induction over the events). That the
sample is fair is `TakenFairly`: whoever takes facts in the order of `Turns` and stops anywhere has
taken, of a date with facts left, at most one less than of any other. Candidates share no fact and
hold active ones only (`CandidatesAre`, by `ClustersAre`); an id names one fact (`NamesAre`), so what
`validate_insights` recomputes from the ids is what was summarised (`SummaryValidates`).

### Only model-checked

* `RecoveryCompletes`, a liveness property under fairness, out of the prover's reach.
* The four violations, whose counterexamples TLC finds.

## 6. Not modelled, and why

* Patterns: extraction and classification of texts, import parsing, redaction, rendering of notes
  and reports. One process, one pass; inputs matter, interleavings do not. Where the models need
  their result they take any.
* Scores: BM25, cosines and graph weights are numbers given with the question; what is modelled is
  what is done with them.
* Commands that read and report (`query-facts`, `brain-check`, `brain-think`, `nockbrain-health`,
  `eval-store-parity`, the evaluation tools), that only propose (`detect-contradictions`,
  `review-promotions`), or that pass once over the store with the verdicts of `Attestation`
  (`resign-v2-authority-facts`, `backfill-source`). `_window` is imported by nothing.
* Receipts of exports: a readback after a write.
* Cryptography: signatures verify exactly when made with the key over the same payload.
* SQLite, the promotion server, the filesystem below an atomic rename, and power loss that
  reorders writes the code has synced.
* In the modelled parts: v2 claims (`edit-fact` refuses them); malformed records outside
  StoreBackend, where what they do is modelled (`load_facts` drops them, a rewrite by a tool that
  loaded so loses them, `edit-fact` refuses, `migrate-store` fails, `consolidate-facts` keeps them);
  validity windows outside StoreBackend and the gates of recall; key files and
  retired keys, hashes that guard rows against corruption, permissions and symbolic links; the
  signed events of `dedup-facts` and `consolidate-facts` (they are LiveStore's); the purge of a
  whole session; the fourth file of an Explorer capture (its public key), and paging and filters.

## 7. Plan

Next theorems: the types of the four components of `MCStoreOutputs`; that the
Explorer implements an abstract reader, which shows one instant of the files or nothing new.

Next in the model: receipts with the exports they serve; the purge of a session; the gates of a
rebuild (`nockbrain-health`) as what they look at. The set of runs is kept small, one per question;
a statement shown false is kept only while the code still contradicts it.

## 8. Running

```
tlc -config CustomerStore_safety.cfg MCCustomerStore.tla
tlapm CustomerStoreProofs.tla
tlapm VerifyCacheProofs.tla
tlapm Inductions.tla
tlapm RecallPackProofs.tla
tlapm EditHistoryProofs.tla
tlapm LiveStoreProofs.tla
tlapm StoreInputsProofs.tla
tlapm StoreOutputsProofs.tla
```

`PROJECT.json` names the module and configuration of every run, the properties it checks, and
for each property a `Slip` under which TLC finds it violated.
