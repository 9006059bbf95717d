------------------------------- MODULE Ingestion -------------------------------
(***************************************************************************)
(* The ingestion of the Admin Earnings folder (Phase3AdminEarningsService) *)
(* and the publication of what it makes of it                              *)
(* (ProcessedAdminEarningsStore): a run lists the folder, reads and        *)
(* normalises the files one by one, removes duplicate orders, and then     *)
(* overwrites the artifacts of the Processed folder one by one, reads them *)
(* back, and puts the previous contents back when that fails.  Drive has   *)
(* no transaction over several files; any operator may start a run, the    *)
(* files may change while one reads them, and any call may fail.           *)
(***************************************************************************)
EXTENDS Integers, Sequences, FiniteSets, SequencesExt, FiniteSetsExt

CONSTANTS
    None, Unreadable,   \* no value, and a content no parser accepts
    Runs,          \* executions of run(), each with its own run_id
    Files,         \* the files, numbered in the order run() sorts them
    Artifacts,     \* ARTIFACT_NAMES, in its order
    Folders,       \* the contents the Admin Earnings folder can have
    Usable,        \* the sets of artifacts with exactly one writable copy
    Configured,    \* the fields admin_earnings_column_map names
    Attempts,      \* of AdminEarningsReader, 3
    MaxFaults, MaxChanges  \* bounds of the runs

ASSUME IngestionAssumption ==
    /\ 0 \notin Runs /\ Files \subseteq Nat /\ IsFiniteSet(Files)
    /\ Artifacts \in Seq(STRING) /\ Artifacts # <<>> /\ Attempts \in Nat \ {0}
    /\ MaxFaults \in Nat /\ MaxChanges \in Nat
    /\ \A contents \in Folders : \A f \in Files :
          contents[f] \in {None, Unreadable} \/ DOMAIN contents[f].rows \subseteq Nat

----------------------------------------------------------------------------
(***************************************************************************)
(* What one file becomes.  A content says how many of its columns carry a  *)
(* header of each field, and what the cells of its rows hold: None for a   *)
(* blank one, "invalid" for a text no parser accepts, "boolean" for what   *)
(* only a workbook can hold.  One financial field stands for the eight.    *)
(***************************************************************************)
Critical == {"order_id", "restaurant_id", "order_date"}
Fields == Critical \cup {"amount"}

Mapping(content) ==
    {f \in Fields : content.headers[f] = 1 \/ (f \in Configured /\ content.headers[f] > 1)}
Ambiguous(content) == {f \in Fields \ Configured : content.headers[f] > 1}

Cell(content, n, f) == IF f \in Mapping(content) THEN content.rows[n][f] ELSE None

\* The rows normalize_frame does not skip, and those of them that have an id.
FilledRows(content) ==
    {n \in DOMAIN content.rows : \E f \in Fields : content.rows[n][f] # None}
IdentifiedRows(content) == {n \in FilledRows(content) : Cell(content, n, "order_id") # None}

Parsed(cell) == IF cell = "invalid" THEN None ELSE cell

\* normalize_decimal raises TypeError for a Boolean, which no row catches.
Normalizes(content) == \A n \in IdentifiedRows(content) : Cell(content, n, "amount") # "boolean"

Records(f, content) ==
    {[id |-> Cell(content, n, "order_id"),
      material |-> [rid |-> Cell(content, n, "restaurant_id"),
                    date |-> Parsed(Cell(content, n, "order_date")),
                    amount |-> Parsed(Cell(content, n, "amount"))],
      at |-> <<f, n>>] : n \in IdentifiedRows(content)}

SchemaIssues(content) ==
    {<<"AMBIGUOUS_SCHEMA_MAPPING", a>> : a \in {Ambiguous(content)} \ {{}}}
    \cup {<<"SCHEMA_MISMATCH", m>> : m \in {Critical \ Mapping(content)} \ {{}}}

RowIssues(f, content) ==
    {<<"MISSING_ORDER_ID", <<f, n>>>> :
        n \in FilledRows(content) \ IdentifiedRows(content)}
    \cup {<<"INVALID_DATE", <<f, n>>>> :
        n \in {k \in IdentifiedRows(content) : Cell(content, k, "order_date") = "invalid"}}
    \cup {<<"INVALID_FINANCIAL_VALUE", <<f, n>>>> :
        n \in {k \in IdentifiedRows(content) : Cell(content, k, "amount") = "invalid"}}

----------------------------------------------------------------------------
(* Duplicate orders *)

Ids(records) == {r.id : r \in records}
Occurrences(records, o) == {r \in records : r.id = o}
Positions(records) == {r.at : r \in records}

\* Mutant: the amounts are not among the material fields.
AmountsIgnored(records, o) ==
    \A r, q \in Occurrences(records, o) :
        r.material.rid = q.material.rid /\ r.material.date = q.material.date

Identical(records, o) ==
    \A r, q \in Occurrences(records, o) : r.material = q.material

\* Mutant: the retained row keeps its own lineage only.
OwnLineage(records) ==
    {[id |-> o, material |-> (CHOOSE r \in Occurrences(records, o) : TRUE).material,
      lineage |-> {(CHOOSE r \in Occurrences(records, o) : TRUE).at}] :
        o \in {i \in Ids(records) : Identical(records, i)}}

CanonicalOrders(records) ==
    {[id |-> o, material |-> (CHOOSE r \in Occurrences(records, o) : TRUE).material,
      lineage |-> Positions(Occurrences(records, o))] :
        o \in {i \in Ids(records) : Identical(records, i)}}

Conflicts(records) ==
    {[id |-> o, occurrences |-> Positions(Occurrences(records, o))] :
        o \in {i \in Ids(records) : ~Identical(records, i)}}

DuplicateIssues(records) ==
    {<<"CONFLICTING_DUPLICATE", c.id>> : c \in Conflicts(records)}

Earlier(p, q) == p[1] < q[1] \/ (p[1] = q[1] /\ p[2] < q[2])

DuplicateOccurrences(records) ==
    {[id |-> r.id, at |-> r.at,
      retained |-> Identical(records, r.id)
                   /\ \A q \in Occurrences(records, r.id) : ~Earlier(q.at, r.at)] :
        r \in {s \in records : Cardinality(Occurrences(records, s.id)) > 1}}

----------------------------------------------------------------------------
VARIABLES
    folder,      \* Admin Earnings: each file's content, None when it is not there
    processed,   \* Processed: each artifact's content
    usable,      \* the artifacts publish can resolve
    run,         \* each run: where it is and what it holds
    faults, changes,
    overlapped,  \* history: the runs another one's publication met
    uncovered    \* history: the runs with a failure the restoration does not undo

vars == <<folder, processed, usable, run, faults, changes, overlapped, uncovered>>

NewRun == [step |-> "new", listed |-> {}, toRead |-> {}, attempt |-> 0, frames |-> <<>>,
           profiles |-> {}, records |-> {}, issues |-> {}, failed |-> {}, result |-> None,
           previous |-> <<>>, updated |-> 0, verified |-> 0]

Publishing(r) == run[r].step \in {"previous", "updating", "verifying", "restoring"}
Ended == {"published", "not_published", "refused", "restored", "abandoned", "crashed"}

\* The bytes of an artifact: a conflict carries detected_at, the summary the run_id.
Part(result, name) ==
    CASE name = "canonical_orders" -> result.canonical
      [] name = "duplicate_occurrences" -> result.duplicates
      [] name = "conflicting_duplicates" -> {<<result.id, c>> : c \in result.conflicts}
      [] name = "ingestion_issues" -> result.issues
      [] name = "schema_report" -> result.profiles
      [] name = "ingestion_summary" -> <<result.id, Cardinality(result.canonical)>>

Nothing == [id |-> 0, canonical |-> {}, duplicates |-> {}, conflicts |-> {},
            issues |-> {}, profiles |-> {}]

Names == ToSet(Artifacts)

Becomes(r, s) == run' = [run EXCEPT ![r] = s]

Init ==
    /\ folder \in Folders
    /\ processed = [a \in Names |-> Part(Nothing, a)]
    /\ usable \in Usable
    /\ run = [r \in Runs |-> NewRun]
    /\ faults = 0 /\ changes = 0 /\ overlapped = {} /\ uncovered = {}

----------------------------------------------------------------------------
(* Reading the sources *)

List(r) ==
    /\ run[r].step = "new"
    /\ LET listed == {f \in Files : folder[f] # None}
       IN  Becomes(r, [run[r] EXCEPT !.step = "reading", !.listed = listed,
                                     !.toRead = listed])
    /\ UNCHANGED <<folder, processed, usable, faults, changes, overlapped, uncovered>>

NextFile(r) == Min(run[r].toRead)

\* One attempt that downloads a readable table: the file is profiled and normalised.
ReadSource(r) ==
    /\ run[r].step = "reading" /\ run[r].toRead # {}
    /\ LET f == NextFile(r)
           s == run[r]
           content == folder[f]
           whole == Normalizes(content)
       IN  /\ content # None /\ content # Unreadable
           /\ Becomes(r,
                [s EXCEPT !.toRead = s.toRead \ {f}, !.attempt = 0,
                          !.frames = [k \in DOMAIN s.frames \cup {f} |->
                                        IF k = f THEN content ELSE s.frames[k]],
                          !.profiles = s.profiles \cup {[file |-> f, mapping |-> Mapping(content)]},
                          !.records = s.records \cup (IF whole THEN Records(f, content) ELSE {}),
                          !.issues = s.issues \cup SchemaIssues(content)
                                     \cup (IF whole THEN RowIssues(f, content)
                                           ELSE {<<"SOURCE_READ_FAILURE", f>>}),
                          !.failed = s.failed \cup (IF whole THEN {} ELSE {f})])
    /\ UNCHANGED <<folder, processed, usable, faults, changes, overlapped, uncovered>>

\* An attempt that fails: the file went away, is no table, or Drive failed.
AttemptFails(r) ==
    /\ run[r].step = "reading" /\ run[r].toRead # {}
    /\ LET f == NextFile(r)
           drive == IF folder[f] \in {None, Unreadable} THEN 0 ELSE 1
       IN  /\ faults + drive <= MaxFaults
           /\ faults' = faults + drive
           /\ Becomes(r,
                IF run[r].attempt + 1 < Attempts THEN [run[r] EXCEPT !.attempt = @ + 1]
                ELSE [run[r] EXCEPT !.attempt = 0, !.toRead = run[r].toRead \ {f},
                                    !.failed = run[r].failed \cup {f},
                                    !.issues = run[r].issues
                                                 \cup {<<"SOURCE_READ_FAILURE", f>>}])
    /\ UNCHANGED <<folder, processed, usable, changes, overlapped, uncovered>>

Result(r) ==
    LET records == run[r].records
    IN  [id |-> r, canonical |-> CanonicalOrders(records),
         duplicates |-> DuplicateOccurrences(records), conflicts |-> Conflicts(records),
         issues |-> run[r].issues \cup DuplicateIssues(records), profiles |-> run[r].profiles]

\* Mutant: what could be read is published.
PublishWhatWasRead(r) ==
    /\ run[r].step = "reading" /\ run[r].toRead = {}
    /\ Becomes(r, [run[r] EXCEPT !.result = Result(r), !.step = "resolving"])
    /\ UNCHANGED <<folder, processed, usable, faults, changes, overlapped, uncovered>>

Build(r) ==
    /\ run[r].step = "reading" /\ run[r].toRead = {}
    /\ Becomes(r, [run[r] EXCEPT !.result = Result(r),
                    !.step = IF run[r].failed = {} THEN "resolving" ELSE "not_published"])
    /\ UNCHANGED <<folder, processed, usable, faults, changes, overlapped, uncovered>>

----------------------------------------------------------------------------
(* Publishing *)

Meets(r) == {q \in Runs \ {r} : Publishing(q)}

Resolve(r) ==
    /\ run[r].step = "resolving"
    /\ run' = [run EXCEPT ![r].step = IF usable = Names THEN "previous" ELSE "refused"]
    /\ overlapped' = IF usable = Names /\ Meets(r) # {} THEN overlapped \cup Meets(r) \cup {r}
                     ELSE overlapped
    /\ UNCHANGED <<folder, processed, usable, faults, changes, uncovered>>

\* previous = {name: download_file(...)}, in the order of ARTIFACT_NAMES.
KeepPrevious(r) ==
    /\ run[r].step = "previous"
    /\ LET name == Artifacts[Len(run[r].previous) + 1]
           kept == Append(run[r].previous, processed[name])
       IN  Becomes(r, [run[r] EXCEPT !.previous = kept,
               !.step = IF Len(kept) = Len(Artifacts) THEN "updating" ELSE @])
    /\ UNCHANGED <<folder, processed, usable, faults, changes, overlapped, uncovered>>

Update(r) ==
    /\ run[r].step = "updating"
    /\ LET n == run[r].updated + 1
           name == Artifacts[n]
       IN  /\ processed' = [processed EXCEPT ![name] = Part(run[r].result, name)]
           /\ Becomes(r, [run[r] EXCEPT !.updated = n,
                !.step = IF n = Len(Artifacts) THEN "verifying" ELSE @])
    /\ UNCHANGED <<folder, usable, faults, changes, overlapped, uncovered>>

\* Read-back: a mismatch is a StorageArchitectureError, and so a Google error.
Verify(r) ==
    /\ run[r].step = "verifying"
    /\ LET n == run[r].verified + 1
           name == Artifacts[n]
       IN  Becomes(r,
             IF processed[name] = Part(run[r].result, name)
             THEN [run[r] EXCEPT !.verified = n,
                                 !.step = IF n = Len(Artifacts) THEN "published" ELSE @]
             ELSE [run[r] EXCEPT !.step = "restoring"])
    /\ UNCHANGED <<folder, processed, usable, faults, changes, overlapped, uncovered>>

\* Mutant: the restoration stops before the first of the updated names.
RestoreAllButFirst(r) ==
    /\ run[r].step = "restoring" /\ run[r].updated > 0
    /\ LET n == run[r].updated
       IN  /\ processed' = IF n = 1 THEN processed
                           ELSE [processed EXCEPT ![Artifacts[n]] = run[r].previous[n]]
           /\ run' = [run EXCEPT ![r].updated = n - 1]
    /\ UNCHANGED <<folder, usable, faults, changes, overlapped, uncovered>>

\* _restore, from the last updated name to the first.
Restore(r) ==
    /\ run[r].step = "restoring" /\ run[r].updated > 0
    /\ LET n == run[r].updated
       IN  /\ processed' = [processed EXCEPT ![Artifacts[n]] = run[r].previous[n]]
           /\ run' = [run EXCEPT ![r].updated = n - 1]
    /\ UNCHANGED <<folder, usable, faults, changes, overlapped, uncovered>>

Raise(r) ==
    /\ run[r].step = "restoring" /\ run[r].updated = 0
    /\ run' = [run EXCEPT ![r].step = "restored"]
    /\ UNCHANGED <<folder, processed, usable, faults, changes, overlapped, uncovered>>

(***************************************************************************)
(* A Google error in a call of the publication.  Before the first update   *)
(* it only ends the run.  An update that fails is not among the updated    *)
(* names; the error may also hide that Drive did carry it out.  An error   *)
(* of the restoration ends it where it is.                                 *)
(***************************************************************************)
CallFails(r) ==
    /\ Publishing(r) /\ faults < MaxFaults
    /\ faults' = faults + 1
    /\ \/ /\ run[r].step = "previous"
          /\ run' = [run EXCEPT ![r].step = "abandoned"]
          /\ UNCHANGED <<processed, uncovered>>
       \/ /\ run[r].step \in {"updating", "verifying"}
          /\ run' = [run EXCEPT ![r].step = "restoring"]
          /\ UNCHANGED <<processed, uncovered>>
       \/ /\ run[r].step = "updating"
          /\ LET name == Artifacts[run[r].updated + 1]
             IN  processed' = [processed EXCEPT ![name] = Part(run[r].result, name)]
          /\ run' = [run EXCEPT ![r].step = "restoring"]
          /\ uncovered' = uncovered \cup {r}
       \/ /\ run[r].step = "restoring" /\ run[r].updated > 0
          /\ run' = [run EXCEPT ![r].step = "abandoned"]
          /\ uncovered' = uncovered \cup {r}
          /\ UNCHANGED processed
    /\ UNCHANGED <<folder, usable, changes, overlapped>>

\* The session ends, or an exception no handler of the run expects.
Crash(r) ==
    /\ run[r].step \notin Ended \cup {"new"} /\ faults < MaxFaults
    /\ faults' = faults + 1
    /\ run' = [run EXCEPT ![r].step = "crashed"]
    /\ uncovered' = IF run[r].step \in {"updating", "verifying", "restoring"}
                  THEN uncovered \cup {r} ELSE uncovered
    /\ UNCHANGED <<folder, processed, usable, changes, overlapped>>

FolderChanges ==
    /\ changes < MaxChanges
    /\ changes' = changes + 1
    /\ folder' \in Folders \ {folder}
    /\ UNCHANGED <<processed, usable, run, faults, overlapped, uncovered>>

Step(r) ==
    \/ List(r) \/ ReadSource(r) \/ AttemptFails(r) \/ Build(r) \/ Resolve(r)
    \/ KeepPrevious(r) \/ Update(r) \/ Verify(r) \/ Restore(r) \/ Raise(r)

Next == FolderChanges \/ \E r \in Runs : Step(r) \/ CallFails(r) \/ Crash(r)

Spec == Init /\ [][Next]_vars

----------------------------------------------------------------------------
(* Properties *)

(***************************************************************************)
(* What a publication promises.  It read every file it listed; each row    *)
(* that is not empty is in exactly one place: the lineage of one canonical *)
(* order, the occurrences of one conflict, or an issue about its missing   *)
(* id; and a canonical order says of restaurant, date and amount what each *)
(* row of its lineage says, so that no conflicting order can be settled.   *)
(***************************************************************************)
Places(result, p) ==
    {<<"order", c.id>> : c \in {d \in result.canonical : p \in d.lineage}}
    \cup {<<"conflict", c.id>> : c \in {d \in result.conflicts : p \in d.occurrences}}
    \cup {<<"issue", i>> :
            i \in {j \in result.issues : j = <<"MISSING_ORDER_ID", p>>}}

AgreesWithRow(c, content, n) ==
    /\ c.id = Cell(content, n, "order_id")
    /\ c.material.rid = Cell(content, n, "restaurant_id")
    /\ c.material.date = Parsed(Cell(content, n, "order_date"))
    /\ c.material.amount = Parsed(Cell(content, n, "amount"))

EveryRowAccountedFor ==
    \A r \in Runs :
        run[r].step = "resolving" =>
            LET result == run[r].result
            IN  /\ DOMAIN run[r].frames = run[r].listed
                /\ \A f \in run[r].listed : \A n \in FilledRows(run[r].frames[f]) :
                        Cardinality(Places(result, <<f, n>>)) = 1
                /\ \A c \in result.canonical : \A p \in c.lineage :
                        AgreesWithRow(c, run[r].frames[p[1]], p[2])
                /\ \A d \in result.duplicates :
                        d.retained <=> \E c \in result.canonical :
                            /\ c.id = d.id
                            /\ \A p \in c.lineage : p = d.at \/ Earlier(d.at, p)

(***************************************************************************)
(* A publication takes place entirely or not at all: when the run ends it  *)
(* as published, the Processed folder holds all its artifacts, and when it *)
(* ends otherwise, all those it found.  Excepted are the runs whose        *)
(* publication met another's, since nothing keeps two runs apart, and      *)
(* those stopped in the middle, or failed by an update that took effect    *)
(* all the same, or in the restoration itself.                             *)
(***************************************************************************)
PublishesAllOrNothing ==
    [][\A r \in Runs :
        Publishing(r) /\ run'[r].step \in Ended /\ r \notin overlapped' \cup uncovered' =>
            IF run'[r].step = "published"
            THEN \A a \in Names : processed'[a] = Part(run[r].result, a)
            ELSE \A n \in DOMAIN run[r].previous :
                    processed'[Artifacts[n]] = run[r].previous[n]]_vars

=============================================================================
