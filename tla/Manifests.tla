------------------------------ MODULE Manifests ------------------------------
(***************************************************************************)
(* The discovery of the sources (Phase2SourceDiscoveryService, the legacy  *)
(* SourceDiscoveryService and the legacy import of Admin Earnings) and the *)
(* registry of manifests they share (SourceManifestRegistry).  A check     *)
(* lists a folder, compares each file with the manifest it read in one     *)
(* connection, writes the manifest in another, marks the known files it    *)
(* did not see, and answers.  Two checks may run at once, the folders      *)
(* change under them, and a session may end between any two steps.         *)
(* `desk` says whether a behaviour is about this or about the ingestion.   *)
(***************************************************************************)
EXTENDS Ingestion

\* The rows of source_manifests; times are numbers in the order Drive gives them.
Rows == [source : {"ADMIN_EARNINGS", "PAYMENT_SCOPE", "RST_LIST"}, time : Nat,
         checksum : Nat \cup {None}, rows : Nat \cup {None},
         status : {"NEW", "MODIFIED", "UNCHANGED", "MISSING", "INACCESSIBLE"}]

CONSTANTS
    Checks, Kinds,  \* the checks, and the assignments of a kind to each
    DriveFiles,     \* files of the source folders, numbered as a listing has them
    Shapes,         \* the names a file can have, and the folder it is in
    Drives,         \* the contents the folders can start with
    Accesses,         \* what each location allows: "none", "read_only" or "writable"
    MaxEdits        \* bound of the runs

ASSUME ManifestsAssumption ==
    /\ DriveFiles \subseteq Nat /\ MaxEdits \in Nat
    /\ Kinds \subseteq [Checks -> {"phase2", "legacy", "import"}]
    /\ \A d \in Drives : /\ DOMAIN d = DriveFiles
                         /\ \A f \in DriveFiles : d[f] = None \/ d[f].time \in Nat
    /\ None \notin Rows /\ None # "READY_FOR_INGESTION"

VARIABLES
    desk,       \* "ingest" or "discover"
    kind,       \* each check: "phase2", "legacy" or "import"
    drive,      \* each file: its shape and its modified time, None when it is gone
    places,     \* the access to the configured locations
    manifests,  \* source_manifests: each file's row, None when it has none
    check,      \* each check: where it is and what it holds; began, a history, are
                \* the Admin Earnings manifests there are since it began
    edits

discoveryVars == <<kind, drive, places, manifests, check, edits>>

----------------------------------------------------------------------------
(* What a listing says of a file *)

IsWeekly(v) == v.shape.weekly                   \* parse_admin_earnings_filename
IsSupportedSource(v) == v.shape.supported
Checksum(v) == IF v.shape.native THEN None ELSE v.time

\* Mutant: only the checksum says that a file changed.
SameBytes(previous, v) ==
    IF previous = None THEN "NEW"
    ELSE IF previous.checksum # None /\ Checksum(v) # None /\ previous.checksum # Checksum(v)
         THEN "MODIFIED" ELSE "UNCHANGED"

DetectChange(previous, v) ==
    IF previous = None THEN "NEW"
    ELSE IF previous.time # v.time THEN "MODIFIED" ELSE "UNCHANGED"

\* The explicit map, then the folder's name, then the file's.
ScopePeriod(v) ==
    CASE v.shape.explicit # None -> v.shape.explicit
      [] v.shape.explicit = None /\ v.shape.folderPeriod # None -> v.shape.folderPeriod
      [] OTHER -> v.shape.namePeriod

ScopeStatus(listed, f) ==
    LET v == listed[f]
        rivals == {g \in DOMAIN listed \ {f} : /\ IsSupportedSource(listed[g])
                                               /\ ScopePeriod(listed[g]) = ScopePeriod(v)}
    IN  CASE ~IsSupportedSource(v) -> "INVALID_FILE_TYPE"
          [] IsSupportedSource(v) /\ ScopePeriod(v) = None -> "MANUAL_MAPPING_REQUIRED"
          [] IsSupportedSource(v) /\ ScopePeriod(v) # None /\ rivals # {} -> "AMBIGUOUS"
          [] OTHER -> "FOUND"

----------------------------------------------------------------------------
(* The scans of a check *)

Scans(c) == CASE kind[c] = "phase2" -> <<"inventory">>
              [] kind[c] = "legacy" -> <<"supported", "scopes", "rst">>
              [] kind[c] = "import" -> <<"import">>

Source(scan) == CASE scan = "scopes" -> "PAYMENT_SCOPE" [] scan = "rst" -> "RST_LIST"
                  [] OTHER -> "ADMIN_EARNINGS"

Supported(listed) == {f \in DOMAIN listed : IsSupportedSource(listed[f])}

\* The files each scan registers, of those it listed.
Inventory(listed) == {f \in Supported(listed) : IsWeekly(listed[f])}
AdminEarningsSources(listed) == Supported(listed)
PaymentScopeCandidates(listed) == DOMAIN listed
RstList(listed) == IF Cardinality(Supported(listed)) = 1 THEN Supported(listed) ELSE {}

Accepted(scan, listed) ==
    CASE scan = "inventory" -> Inventory(listed)
      [] scan \in {"supported", "import"} -> AdminEarningsSources(listed)
      [] scan = "scopes" -> PaymentScopeCandidates(listed)
      [] scan = "rst" -> RstList(listed)

NewCheck == [step |-> "new", scan |-> 1, access |-> None, began |-> {}, listed |-> <<>>,
             seen |-> {}, toDo |-> {}, previous |-> None, missing |-> {}, missed |-> FALSE,
             scopes |-> {}, reports |-> {}, read |-> <<>>, answer |-> None]

Done == {"answered", "failed", "cut"}
Scan(c) == Scans(c)[check[c].scan]
Registered(source) == {f \in DriveFiles : manifests[f] # None /\ manifests[f].source = source}

Move(c, r) == check' = [check EXCEPT ![c] = r]
Still == UNCHANGED <<kind, drive, places, manifests, edits, faults>>

DiscoveryInit ==
    /\ kind \in Kinds /\ drive \in Drives /\ places \in Accesses
    /\ manifests = [f \in DriveFiles |-> None]
    /\ check = [c \in Checks |-> NewCheck]
    /\ edits = 0

\* check_access of one location.
Readable(location) == places[location] # "none"

\* _check_locations for phase 2; an unreadable Admin Earnings folder is not listed.
CheckLocations(c) ==
    /\ check[c].step = "new"
    /\ Move(c, [check[c] EXCEPT !.access = places, !.began = Registered("ADMIN_EARNINGS"),
                  !.step = IF kind[c] = "phase2" /\ ~Readable("admin")
                           THEN "unreadable" ELSE "listing"])
    /\ Still

ListFolder(c) ==
    /\ check[c].step = "listing" /\ Readable("admin")
    /\ LET listed == [f \in {g \in DriveFiles :
                        drive[g] # None /\ drive[g].shape.folder = Source(Scan(c))} |-> drive[f]]
           accepted == Accepted(Scan(c), listed)
       IN  Move(c, [check[c] EXCEPT
                      !.listed = listed, !.seen = accepted, !.toDo = accepted,
                      !.scopes = IF Scan(c) = "scopes"
                                 THEN {<<f, ScopeStatus(listed, f)>> : f \in accepted}
                                 ELSE check[c].scopes,
                      !.step = IF Scan(c) = "rst" /\ accepted = {} THEN "scanned"
                               ELSE "registering"])
    /\ Still

\* register: the previous manifest in a connection of its own.
ReadManifest(c) ==
    /\ check[c].step = "registering" /\ check[c].toDo # {}
    /\ Move(c, [check[c] EXCEPT !.previous = manifests[Min(check[c].toDo)], !.step = "writing"])
    /\ Still

\* register: the row is inserted or updated; what an import recorded stays.
WriteManifest(c) ==
    /\ check[c].step = "writing"
    /\ LET f == Min(check[c].toDo)
           v == check[c].listed[f]
           state == DetectChange(check[c].previous, v)
           since == [d \in Checks |-> IF Source(Scan(c)) = "ADMIN_EARNINGS"
                                     THEN check[d].began ELSE check[d].began \ {f}]
       IN  /\ manifests' = [manifests EXCEPT ![f] =
                [source |-> Source(Scan(c)), time |-> v.time, checksum |-> Checksum(v),
                 status |-> state, rows |-> IF @ = None THEN None ELSE @.rows]]
           /\ check' = [d \in Checks |->
                IF d # c THEN [check[d] EXCEPT !.began = since[d]]
                ELSE [check[d] EXCEPT !.began = since[d], !.toDo = check[d].toDo \ {f},
                         !.step = "registering",
                         !.reports = check[d].reports \cup {<<f, v.time, state>>}]]
    /\ UNCHANGED <<kind, drive, places, edits, faults>>

\* Mutant: a file that is in the folder is not missing, whatever its name.
MissingFromFolder(c) ==
    /\ check[c].step = "registering" /\ check[c].toDo = {}
    /\ Move(c, IF Scan(c) = "import" THEN [check[c] EXCEPT !.step = "reading"]
               ELSE [check[c] EXCEPT !.step = "marking",
                       !.missing = Registered(Source(Scan(c))) \ DOMAIN check[c].listed])
    /\ Still

\* mark_missing: the known rows, in the connection of list_all.
FindMissing(c) ==
    /\ check[c].step = "registering" /\ check[c].toDo = {}
    /\ Move(c, IF Scan(c) = "import" THEN [check[c] EXCEPT !.step = "reading"]
               ELSE [check[c] EXCEPT !.missing = Registered(Source(Scan(c))) \ check[c].seen,
                                     !.step = "marking"])
    /\ Still

WithStatus(files, status) ==
    [f \in DriveFiles |-> IF f \in files THEN [manifests[f] EXCEPT !.status = status]
                          ELSE manifests[f]]

MarkMissing(c) ==
    /\ check[c].step = "marking"
    /\ manifests' = WithStatus(check[c].missing, "MISSING")
    /\ Move(c, [check[c] EXCEPT !.missed = check[c].missed \/ check[c].missing # {},
                               !.step = "scanned"])
    /\ UNCHANGED <<kind, drive, places, edits, faults>>

MarkInaccessible(c) ==
    /\ check[c].step = "unreadable"
    /\ manifests' = WithStatus(Registered("ADMIN_EARNINGS"), "INACCESSIBLE")
    /\ Move(c, [check[c] EXCEPT !.step = "scanned"])
    /\ UNCHANGED <<kind, drive, places, edits, faults>>

\* _health: READY_FOR_INGESTION only when every part is healthy.
Ready(r) ==
    /\ r.access["admin"] # "none" /\ r.seen # {} /\ ~r.missed
    /\ r.access["sources"] # "none" /\ r.access["workspace"] = "writable"

Answer(c) ==
    /\ check[c].step = "scanned"
    /\ Move(c, IF check[c].scan < Len(Scans(c))
               THEN [check[c] EXCEPT !.scan = check[c].scan + 1, !.step = "listing"]
               ELSE [check[c] EXCEPT !.step = "answered",
                       !.answer = IF kind[c] = "phase2" /\ Ready(check[c])
                                  THEN "READY_FOR_INGESTION" ELSE "BLOCKING"])
    /\ Still

\* The legacy import downloads every file it listed, then records each of them.
Import(c) ==
    /\ check[c].step = "reading"
    /\ Move(c, [check[c] EXCEPT !.toDo = check[c].seen, !.step = "recording",
                  !.read = [f \in check[c].seen |-> IF drive[f] = None THEN 0 ELSE drive[f].time]])
    /\ Still

RecordIngestion(c) ==
    /\ check[c].step = "recording"
    /\ IF check[c].toDo = {}
       THEN /\ Move(c, [check[c] EXCEPT !.step = "scanned"])
            /\ UNCHANGED manifests
       ELSE LET f == Min(check[c].toDo)
            IN  /\ manifests' = [manifests EXCEPT ![f].rows = check[c].read[f]]
                /\ Move(c, [check[c] EXCEPT !.toDo = check[c].toDo \ {f}])
    /\ UNCHANGED <<kind, drive, places, edits, faults>>

\* A Google error in a listing: discover_phase2_sources answers ERROR.
ListingFails(c) ==
    /\ check[c].step = "listing"
    /\ \/ ~Readable("admin") /\ UNCHANGED faults
       \/ faults < MaxFaults /\ faults' = faults + 1
    /\ Move(c, [check[c] EXCEPT !.step = "failed"])
    /\ UNCHANGED <<kind, drive, places, manifests, edits>>

SessionEnds(c) ==
    /\ check[c].step \notin Done \cup {"new"} /\ faults < MaxFaults
    /\ faults' = faults + 1
    /\ Move(c, [check[c] EXCEPT !.step = "cut"])
    /\ UNCHANGED <<kind, drive, places, manifests, edits>>

\* A file appears, changes, is renamed or moved, or goes away; access is given or taken.
SourcesChange ==
    /\ edits < MaxEdits
    /\ edits' = edits + 1
    /\ \/ /\ \E f \in DriveFiles : \E s \in Shapes :
              drive' = [drive EXCEPT ![f] = [shape |-> s, time |-> edits + 1]]
          /\ UNCHANGED places
       \/ /\ \E f \in DriveFiles : drive[f] # None /\ drive' = [drive EXCEPT ![f] = None]
          /\ UNCHANGED places
       \/ places' \in Accesses \ {places} /\ UNCHANGED drive
    /\ UNCHANGED <<kind, manifests, check, faults>>

CheckStep(c) ==
    \/ CheckLocations(c) \/ ListFolder(c) \/ ReadManifest(c) \/ WriteManifest(c)
    \/ FindMissing(c) \/ MarkMissing(c) \/ MarkInaccessible(c) \/ Answer(c)
    \/ Import(c) \/ RecordIngestion(c) \/ ListingFails(c) \/ SessionEnds(c)

DiscoveryNext == SourcesChange \/ \E c \in Checks : CheckStep(c)

\* A behaviour of one desk leaves the other in one of its initial states.
SourcesInit ==
    /\ Init /\ DiscoveryInit
    /\ \/ /\ desk = "ingest"
          /\ <<kind, drive, places>> = CHOOSE s \in Kinds \X Drives \X Accesses : TRUE
       \/ /\ desk = "discover"
          /\ <<folder, usable>> = CHOOSE s \in Folders \X Usable : TRUE

SourcesNext ==
    \/ desk = "ingest" /\ Next /\ UNCHANGED <<desk, discoveryVars>>
    \/ /\ desk = "discover" /\ DiscoveryNext
       /\ UNCHANGED <<desk, folder, processed, usable, run, changes, overlapped, uncovered>>

SourcesSpec == SourcesInit /\ [][SourcesNext]_<<vars, desk, discoveryVars>>

----------------------------------------------------------------------------
(* Properties *)

(***************************************************************************)
(* No version of a source enters the registry silently: the version a      *)
(* manifest holds was once found NEW or MODIFIED by a check, whatever the  *)
(* interleaving of the checks and also for native sheets, which carry no   *)
(* checksum.  (That check may have been cut before its answer: the next    *)
(* one then answers UNCHANGED.)                                            *)
(***************************************************************************)
EveryVersionIsReported ==
    \A f \in DriveFiles : manifests[f] # None =>
        \E c \in Checks : \E state \in {"NEW", "MODIFIED"} :
            <<f, manifests[f].time, state>> \in check[c].reports

(***************************************************************************)
(* READY_FOR_INGESTION is never answered over a known file the ingestion   *)
(* would leave out: a manifest that was of Admin Earnings when the check   *)
(* began, and has been ever since, is of a valid weekly file the check     *)
(* listed, also when the file is in the folder under another name.         *)
(***************************************************************************)
ReadyMeansSeen ==
    \A c \in Checks : check[c].answer = "READY_FOR_INGESTION" =>
        \A f \in check[c].began :
            f \in DOMAIN check[c].listed /\ IsWeekly(check[c].listed[f])

=============================================================================
