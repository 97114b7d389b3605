---------------------------- MODULE StoreBackend ----------------------------
(***************************************************************************)
(* The two backends of the live store (_storeback), the migration between  *)
(* them (migrate-store), and the tools that supersede near-duplicates:      *)
(* dedup-facts through the store contract, consolidate-facts by a reviewed  *)
(* manifest.  The tools run one at a time, as the operator is told, and    *)
(* the migration is killed anywhere.                                       *)
(***************************************************************************)
EXTENDS Clustering, FiniteSets

CONSTANTS
    Entries,    \* fact identifiers, numbers in the order of the store
    Fixed,      \* those of a kind that is never consolidated
    MaxJobs,    \* bound: commands
    MaxEdits    \* bound: facts added or edited, windows that begin or end

ASSUME BackendAssumption ==
    /\ Entries \subseteq Nat \ {0} /\ IsFiniteSet(Entries) /\ Fixed \subseteq Entries
    /\ {MaxJobs, MaxEdits} \subseteq Nat

(* What storing can make of a record: floats and strings where the schema  *)
(* has columns for them; an int or a null there; NaN, which SQLite takes   *)
(* for NULL; structures; a record that load_facts drops, which lacks its   *)
(* evidence, say; a signature that fails.                                  *)
Shape == {"plain", "int", "null", "nan", "nested", "malformed", "tampered"}

Status == {"absent", "current", "superseded"}

(* "by" and "reason" are superseded_by and supersession_reason.            *)
Rows == [Entries -> [status : Status, text : Nat, by : Entries \cup {0},
                     reason : {"none", "dedup", "consolidate"},
                     shape : Shape \cup {"coerced"}]]

(* fact_currently_valid: the window of a fact is still ahead, open or past. *)
Windows == {"ahead", "open", "past"}

VARIABLES
    jsonFile,   \* facts.json
    dbFile,     \* brain.db: missing, rows, or malformed
    dbWal,      \* whether a killed writer left brain.db-wal
    staging,    \* brain.db.staging
    marker,     \* store-v2: the cutover
    hasKey,     \* whether a verifying key exists
    manifest,   \* the last dry run of consolidate-facts: who is superseded by whom
    migration,  \* where a migration is
    loaded,     \* the rows it loaded
    dbTruth,    \* history: what brain.db was last given
    window,     \* where the present is in the validity window of each fact
    jobs, edits

backendVars == <<jsonFile, dbFile, dbWal, staging, marker, hasKey, manifest,
                 migration, loaded, dbTruth, window, jobs, edits>>

NoFile == [is |-> "missing", rows |-> <<>>]

Holding(rows) == [is |-> "rows", rows |-> rows]

BackendTypeOK ==
    /\ jsonFile \in Rows /\ loaded \in Rows \cup {<<>>}
    /\ \A f \in {dbFile, staging} :
          f = NoFile \/ f.is = "malformed" \/ (f.is = "rows" /\ f.rows \in Rows)
    /\ {dbWal, marker, hasKey} \subseteq BOOLEAN
    /\ migration \in {"idle", "gated", "cleared", "filled", "refused", "verified"}
    /\ window \in [Entries -> Windows]
    /\ jobs \in 0..MaxJobs /\ edits \in 0..MaxEdits

-----------------------------------------------------------------------------
(* resolve_store, for facts.json: the marker selects brain.db where it is. *)
Selected == IF marker /\ dbFile.is # "missing" THEN "sqlite" ELSE "json"

NoRows == [e \in Entries |-> [status |-> "absent", text |-> 0, by |-> 0, reason |-> "none",
                              shape |-> "plain"]]

(* What the selected file holds; an unreadable database is an empty one.   *)
FileRows ==
    IF Selected = "json" THEN jsonFile
    ELSE IF dbFile.is = "rows" THEN dbFile.rows ELSE NoRows

(* filter_valid_facts: the malformed are skipped, and so no longer there   *)
(* when what was loaded is written back.                                   *)
Valid(rows) == [e \in Entries |-> IF rows[e].shape = "malformed" THEN NoRows[e] ELSE rows[e]]

(* load_facts. *)
LiveRows == Valid(FileRows)

JobsFree == migration = "idle" /\ jobs < MaxJobs

Present(rows, e) == rows[e].status # "absent"

-----------------------------------------------------------------------------
(* _fact_to_row and _row_to_fact. *)

(* Slip: a number goes into its column, whatever its type. *)
ConformsLoosely(shape) == shape # "null"

(* _column_conforms; structures have columns of canonical JSON. *)
Conforms(shape) == shape \notin {"int", "null"}

RoundTrip(shape) ==
    IF ~Conforms(shape) THEN shape    \* rides "extra"
    ELSE IF shape \in {"int", "nan"} THEN "coerced" ELSE shape

Stored(rows) == [e \in Entries |-> [rows[e] EXCEPT !.shape = RoundTrip(@)]]

(* replace_all, on the selected backend.  A killed writer of the database   *)
(* leaves its write-ahead log.                                             *)
Rewrite(rows) ==
    IF Selected = "json"
    THEN jsonFile' = rows /\ UNCHANGED <<dbFile, dbWal, dbTruth>>
    ELSE /\ dbFile' = Holding(Stored(rows)) /\ dbTruth' = rows
         /\ dbWal' \in {dbWal, TRUE}
         /\ UNCHANGED jsonFile

-----------------------------------------------------------------------------

Unfit(rows) ==
    \E e \in Entries : Present(rows, e) /\ \/ rows[e].shape = "malformed"
                                           \/ hasKey /\ rows[e].shape = "tampered"

(* run_migration: the gates on facts.json, the staged database, the gates   *)
(* on what is reloaded from it, the replacement.                           *)

Migrate ==
    /\ JobsFree
    /\ jobs' = jobs + 1
    /\ IF Unfit(jsonFile) THEN UNCHANGED <<migration, loaded>>
       ELSE migration' = "gated" /\ loaded' = jsonFile
    /\ UNCHANGED <<jsonFile, dbFile, dbWal, staging, marker, hasKey, manifest, dbTruth,
                   window, edits>>

ClearStaging ==
    /\ migration = "gated"
    /\ staging' = NoFile
    /\ migration' = "cleared"
    /\ UNCHANGED <<jsonFile, dbFile, dbWal, marker, hasKey, manifest, loaded, dbTruth,
                   window, jobs, edits>>

FillStaging ==
    /\ migration = "cleared"
    /\ \/ staging' = Holding(NoRows) /\ UNCHANGED migration     \* the tables
       \/ staging' = Holding(Stored(loaded)) /\ migration' = "filled"
    /\ UNCHANGED <<jsonFile, dbFile, dbWal, marker, hasKey, manifest, loaded, dbTruth,
                   window, jobs, edits>>

VerifyStaging ==
    /\ migration = "filled"
    /\ IF staging.rows = loaded
       THEN migration' = "verified" /\ UNCHANGED staging
       ELSE migration' = "refused" /\ staging' = NoFile
    /\ UNCHANGED <<jsonFile, dbFile, dbWal, marker, hasKey, manifest, loaded, dbTruth,
                   window, jobs, edits>>

(* os.replace moves the database and not its log: SQLite takes a log that a *)
(* killed writer left for the one of the new file.                         *)
ReplaceDb ==
    /\ migration = "verified"
    /\ dbFile' = IF dbWal THEN [is |-> "malformed", rows |-> <<>>] ELSE staging
    /\ dbTruth' = loaded
    /\ staging' = NoFile
    /\ migration' = "idle" /\ loaded' = <<>>
    /\ UNCHANGED <<jsonFile, dbWal, marker, hasKey, manifest, window, jobs, edits>>

MigrationStops ==
    /\ migration # "idle"
    /\ migration' = "idle" /\ loaded' = <<>>
    /\ UNCHANGED <<jsonFile, dbFile, dbWal, staging, marker, hasKey, manifest, dbTruth,
                   window, jobs, edits>>

(* The operator cuts over, or back. *)
Cutover ==
    /\ JobsFree /\ dbFile.is # "missing"
    /\ marker' = ~marker
    /\ jobs' = jobs + 1
    /\ UNCHANGED <<jsonFile, dbFile, dbWal, staging, hasKey, manifest, migration, loaded,
                   dbTruth, window, edits>>

-----------------------------------------------------------------------------
(* Other tools, and time.  approve-proposals adds to facts.json whatever is *)
(* selected; a fact it already has is not added, and the file rewritten.   *)

Approve(e) ==
    /\ edits < MaxEdits
    /\ IF Present(Valid(jsonFile), e) THEN jsonFile' = Valid(jsonFile)
       ELSE \E text \in 1..3 :
               jsonFile' = [Valid(jsonFile) EXCEPT ![e] = [NoRows[e] EXCEPT !.status = "current",
                                                                            !.text = text]]
    /\ edits' = edits + 1
    /\ UNCHANGED <<dbFile, dbWal, staging, marker, hasKey, manifest, migration, loaded, dbTruth,
                   window, jobs>>

(* edit-fact refuses a store of which load_facts drops a record.  It counts *)
(* the records of the selected file as JSON text, so that on brain.db, not *)
(* being text, it fails before it writes.                                  *)
Edit(e) ==
    /\ edits < MaxEdits /\ Selected = "json" /\ LiveRows = jsonFile /\ Present(jsonFile, e)
    /\ \E text \in 1..3 \ {jsonFile[e].text} : Rewrite([jsonFile EXCEPT ![e].text = text])
    /\ edits' = edits + 1
    /\ UNCHANGED <<staging, marker, hasKey, manifest, migration, loaded, window, jobs>>

TimePasses(e) ==
    /\ edits < MaxEdits /\ window[e] # "past"
    /\ window' = [window EXCEPT ![e] = IF @ = "ahead" THEN "open" ELSE "past"]
    /\ edits' = edits + 1
    /\ UNCHANGED <<jsonFile, dbFile, dbWal, staging, marker, hasKey, manifest, migration,
                   loaded,
                   dbTruth, jobs>>

-----------------------------------------------------------------------------
(* Near-duplicates. *)

Alike(t, u) == t - u \in {-1, 0, 1}

Date(e) == e \div 2

InOrder(S) ==
    [n \in 1..Cardinality(S) |-> CHOOSE e \in S : Cardinality({d \in S : d < e}) = n - 1]

(* The window of what is superseded is closed with it: its status says so. *)
Superseded(rows, map, tool) ==
    [e \in Entries |-> IF e \in DOMAIN map
                       THEN [rows[e] EXCEPT !.status = "superseded", !.by = map[e],
                                            !.reason = tool]
                       ELSE rows[e]]

(* dedup-facts --apply: the connected components of the live facts; of a   *)
(* component the oldest fact, then the smallest id, stays.                 *)

(* Slip: a fact counts by its status, in effect or not. *)
LiveByStatus(rows) == {e \in Entries : rows[e].status = "current"}

Live(rows) == {e \in Entries : rows[e].status = "current" /\ window[e] = "open"}

Reached(rows, S, e) ==
    LET reach[n \in 0..Cardinality(S)] ==
            IF n = 0 THEN {e}
            ELSE {d \in S : \E c \in reach[n - 1] : Alike(rows[c].text, rows[d].text)}
    IN  reach

Component(rows, S, e) == Reached(rows, S, e)[Cardinality(S)]

(* Slip: facts that were superseded still count as duplicates. *)
KinOfAny(rows, e) == {d \in Entries : Present(rows, d) /\ (d \in Fixed <=> e \in Fixed)}

Kin(rows, e) == {d \in Live(rows) : d \in Fixed <=> e \in Fixed}

DuplicatesOf(rows) ==
    LET keep == [e \in Live(rows) |->
                    CHOOSE c \in Component(rows, Kin(rows, e), e) :
                        \A d \in Component(rows, Kin(rows, e), e) : c <= d]
    IN  [e \in {d \in DOMAIN keep : keep[d] # d} |-> keep[e]]

Dedup ==
    /\ JobsFree
    /\ LET rows == LiveRows
       IN  DuplicatesOf(rows) # <<>> /\ Rewrite(Superseded(rows, DuplicatesOf(rows), "dedup"))
    /\ jobs' = jobs + 1
    /\ UNCHANGED <<staging, marker, hasKey, manifest, migration, loaded, window, edits>>

(* consolidate-facts: select.  Greedy clusters across dates; of a cluster   *)
(* the most recent fact, then the greatest id, stays.  It takes the records *)
(* as they are in facts.json, malformed or out of their window.            *)
Selection(rows) ==
    LET eligible == {e \in Entries \ Fixed : rows[e].status = "current"}
        facts == [n \in 1..Cardinality(eligible) |->
                     LET e == InOrder(eligible)[n]
                     IN  [id |-> e, alike |-> {d \in Entries : Alike(rows[d].text, rows[e].text)}]]
        clusters == {{f.id : f \in ToSet(c)} : c \in ToSet(Clustered(facts))}
        acted == {c \in clusters : Cardinality({Date(e) : e \in c}) > 1}
        Canonical(c) == CHOOSE e \in c : \A d \in c : d <= e
    IN  [e \in UNION {c \ {Canonical(c)} : c \in acted} |->
            Canonical(CHOOSE c \in acted : e \in c)]

NoManifest == [there |-> FALSE, map |-> <<>>]

DryRun ==
    /\ JobsFree
    /\ manifest' = [there |-> TRUE, map |-> Selection(jsonFile)]
    /\ jobs' = jobs + 1
    /\ UNCHANGED <<jsonFile, dbFile, dbWal, staging, marker, hasKey, migration, loaded,
                   dbTruth, window, edits>>

Reviewed(map) == manifest.there /\ map = manifest.map

(* --execute reads facts.json, whatever is selected, and writes what is.   *)
Execute ==
    /\ JobsFree
    /\ LET map == Selection(jsonFile)
       IN  /\ Reviewed(map) /\ map # <<>>
           /\ Rewrite(Superseded(jsonFile, map, "consolidate"))
    /\ jobs' = jobs + 1
    /\ UNCHANGED <<staging, marker, hasKey, manifest, migration, loaded, window, edits>>

-----------------------------------------------------------------------------
(* A store of current facts; the last is yet to come.  Either some are of  *)
(* an odd shape, or their texts are any and one is out of its window.      *)
Fresh(text, odd, shape) ==
    [e \in Entries |->
        IF \A d \in Entries : d <= e THEN NoRows[e]
        ELSE [status |-> "current", text |-> text[e], by |-> 0,
              reason |-> "none", shape |-> IF e \in odd THEN shape ELSE "plain"]]

OddRows == {Fresh([e \in Entries |-> e], odd, shape) : odd \in SUBSET Entries, shape \in Shape}

PlainRows == {Fresh(text, {}, "plain") : text \in {t \in [Entries -> 1..3] : t[1] < 3}}

OneOut == {[e \in Entries |-> IF e = d THEN w ELSE "open"] : d \in Entries, w \in Windows}

BackendInit ==
    /\ \/ hasKey \in BOOLEAN /\ jsonFile \in OddRows /\ window = [e \in Entries |-> "open"]
       \/ hasKey = TRUE /\ jsonFile \in PlainRows /\ window \in OneOut
    /\ dbFile = NoFile /\ dbWal = FALSE /\ staging = NoFile
    /\ marker = FALSE
    /\ manifest = NoManifest
    /\ migration = "idle" /\ loaded = <<>> /\ dbTruth = <<>>
    /\ jobs = 0 /\ edits = 0

BackendNext ==
    \/ Migrate \/ ClearStaging \/ FillStaging \/ VerifyStaging \/ ReplaceDb \/ MigrationStops
    \/ Cutover
    \/ \E e \in Entries : Approve(e) \/ Edit(e) \/ TimePasses(e)
    \/ Dedup \/ DryRun \/ Execute

BackendSpec == BackendInit /\ [][BackendNext]_backendVars

-----------------------------------------------------------------------------
(* The migration is "fail-closed" and its copy value-identical: whatever   *)
(* was killed, brain.db is what facts.json held when it was last rebuilt,   *)
(* or what a tool wrote since, with no record that a gate must refuse, and  *)
(* no store is refused for a value the schema does not model.  The one      *)
(* exception is a log left by a killed writer.                             *)
MigrationFaithful ==
    /\ ~dbWal => /\ dbFile.is # "malformed"
                 /\ dbFile.is = "rows" => dbFile.rows = dbTruth
    /\ dbFile.is = "rows" =>
          \A e \in Entries : dbFile.rows[e].shape \notin {"malformed", "coerced"}
    /\ migration = "refused" => \E e \in Entries : loaded[e].shape = "nan"

(* Fact e, the fact that superseded it, the one that superseded that...    *)
Heirs(rows, e) ==
    LET heir[n \in 0..Cardinality(Entries)] ==
            IF n = 0 THEN e
            ELSE IF rows[heir[n - 1]].status = "superseded" THEN rows[heir[n - 1]].by
                 ELSE heir[n - 1]
    IN  heir

(* Every superseded fact leads, from one to the next, to a current one:    *)
(* however the two tools, which prefer opposite facts, and edits between   *)
(* them alternate, in facts.json, in the database migrated from it and     *)
(* after a cutover, no group of duplicates is hidden altogether.  The one  *)
(* exception: consolidate-facts may keep a malformed record, which the next *)
(* tool that loads and rewrites the store loses.                           *)
OneStays ==
    \A e \in Entries :
        FileRows[e].status = "superseded" =>
            LET last == Heirs(FileRows, e)[Cardinality(Entries)]
            IN  \/ FileRows[last].status = "current"
                \/ /\ ~Present(FileRows, last)
                   /\ \A d \in Entries :
                         FileRows[d].status = "superseded" /\ FileRows[d].by = last
                             => FileRows[d].reason = "consolidate"

(* dedup-facts hides a fact ("recall stops surfacing them as current") only *)
(* for one that recall could show, which was in effect (and so is, or was  *)
(* until its window ended) and which no rewrite, migration or cutover has  *)
(* lost since.                                                             *)
HiddenForShown ==
    \A e \in Entries :
        FileRows[e].status = "superseded" /\ FileRows[e].reason = "dedup" =>
            LET kept == FileRows[e].by
            IN  /\ Present(FileRows, kept) /\ FileRows[kept].shape # "malformed"
                /\ window[kept] # "ahead"

(* "A prior dry-run manifest whose selection still matches the live store   *)
(* exactly": also when brain.db is the store.                              *)
LiveStoreReviewed ==
    [][Execute => FileRows' = Superseded(FileRows, manifest.map, "consolidate")]_backendVars

=============================================================================
