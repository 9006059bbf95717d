------------------------------- MODULE Documents -------------------------------
(***************************************************************************)
(* From the enriched registry to a PDF on Drive: the readiness of a        *)
(* document and its production candidate (Phase8DocumentEngine), the write *)
(* probe of the destination and the publication of the sample documents    *)
(* (DocumentPublishingService over GoogleDriveService), as the validation  *)
(* scripts run them, each in a process of its own.                         *)
(*                                                                         *)
(* The digest of a document is the candidate it renders.  Drive gives      *)
(* every object an identifier of its own, and keeps namesakes apart.       *)
(***************************************************************************)
EXTENDS LegalMaster

CONSTANTS
    Kinds,           \* the document types of the sample
    Settlements,     \* restaurant -> its settlement of the period
    Unit,            \* a settlement's figures are kept in Unit-ths of a centime
    Scripts,         \* the processes that publish
    MaxRuns          \* bound of the runs

Figures == [sales : Int, commission : Int, tva : Int, invoice : Int, net : Int]

\* A settlement is one of a restaurant of the registry, and has its figures when it is
\* READY; the scripts are finitely many.
ASSUME DocumentsAssumption ==
    /\ MaxRuns \in Nat /\ IsFiniteSet(Scripts)
    /\ Unit \in Nat \ {0}
    /\ DOMAIN Settlements \subseteq DOMAIN Registry
    /\ \A id \in DOMAIN Settlements : Settlements[id].figures \in Figures \cup {None}
    /\ None # "PUBLISHED"

VARIABLES
    drive,           \* the objects of Drive, by identifier
    publications,    \* document_publications
    runs,            \* each script: how far it is
    started,
    lost, raced      \* files no row will name; documents two scripts worked on at once

driveVars == <<drive, publications, runs, started, lost, raced>>
vars == <<team, versions, replaced, clock, entry, holder, calls, faults,
          drive, publications, runs, started, lost, raced>>

----------------------------------------------------------------------------
(* Readiness and candidate *)

Readiness(restaurant, settlement, type) ==
    IF ~settlement.identity THEN "BLOCKED"
    ELSE IF settlement.review \/ settlement.commission = None THEN "FINANCIAL_REVIEW"
    ELSE IF LegalStatus(restaurant, type) = "BLOCKED" THEN "MISSING_LEGAL"
    ELSE IF settlement.orders = 0 THEN "BLOCKED" ELSE "READY"

\* The settlement's figures are checked as they are, unrounded.
Reconciles(figures) ==
    /\ figures.invoice = figures.commission + figures.tva
    /\ figures.sales = figures.net + figures.invoice

\* Presentation: to the nearest centime, ties to the even one.
Centimes(x) ==
    LET q == x \div Unit
        twice == 2 * (x % Unit)
        up == twice > Unit \/ (twice = Unit /\ q % 2 = 1)
    IN  IF up THEN q + 1 ELSE q

\* Mutant: the net payable is presented before the tax is taken off.
PresentedBeforeTax(figures) ==
    [sales |-> Centimes(figures.sales), commission |-> Centimes(figures.commission),
     tva |-> Centimes(figures.tva), invoice |-> Centimes(figures.invoice),
     net |-> Centimes(figures.sales - figures.commission)]

\* Each figure is rounded on its own.
Presented(figures) ==
    [sales |-> Centimes(figures.sales), commission |-> Centimes(figures.commission),
     tva |-> Centimes(figures.tva), invoice |-> Centimes(figures.invoice),
     net |-> Centimes(figures.net)]

Candidate(id, type, rows) ==
    LET restaurant == Enriched(rows)[id]
        settlement == Settlements[id]
        figures == settlement.figures
    IN  [id |-> id, type |-> type, partner |-> PartnerName(restaurant),
         address |-> restaurant.address,
         figures |-> IF figures = None THEN None ELSE Presented(figures),
         ready |-> /\ Readiness(restaurant, settlement, type) = "READY"
                   /\ figures # None
                   /\ Reconciles(figures)]

Filename(document) == <<document.id, document.type>>

----------------------------------------------------------------------------
(* Drive *)

Root == 0
Probe == <<"CASHCO_VALIDATION_TEST">>
Path(document) == <<"DRY_RUN", document.id>>

Object(kind, parent, name, content) ==
    [kind |-> kind, parent |-> parent, name |-> name, content |-> content]

Children(kind, parent) ==
    {n \in DOMAIN drive : drive[n].kind = kind /\ drive[n].parent = parent}

PathOf(folder) ==
    CASE folder = Root -> <<>>
      [] folder # Root /\ drive[folder].parent = Root -> <<drive[folder].name>>
      [] OTHER -> <<drive[drive[folder].parent].name, drive[folder].name>>

----------------------------------------------------------------------------
(* Publications *)

RowsWith(document) == {n \in DOMAIN publications : publications[n].document = document}

\* Mutant: the first row of a document decides.
FirstOf(document) ==
    IF RowsWith(document) = {} THEN None
    ELSE publications[CHOOSE n \in RowsWith(document) : \A m \in RowsWith(document) : n <= m].status

Latest(document) ==
    IF RowsWith(document) = {} THEN None
    ELSE publications[CHOOSE n \in RowsWith(document) : \A m \in RowsWith(document) : m <= n].status

Row(document, status, file) == [document |-> document, status |-> status, file |-> file]

Idle == [step |-> "idle", document |-> None, folder |-> Root, path |-> <<>>, file |-> 0]

Init ==
    /\ LegalInit
    /\ drive = <<>>
    /\ publications = <<>>
    /\ runs = [p \in Scripts |-> Idle]
    /\ started = 0
    /\ lost = {}
    /\ raced = {}

----------------------------------------------------------------------------
(* A script's run *)

\* Its own cache is empty: it reads the sheet, and makes the candidates from it.
Start(p) ==
    /\ p \in team /\ runs[p].step = "idle" /\ started < MaxRuns
    /\ started' = started + 1
    /\ \E id \in DOMAIN Settlements, type \in Kinds :
        runs' = [runs EXCEPT ![p] = [Idle EXCEPT !.step = "probe",
                    !.document = Candidate(id, type, Last(versions))]]
    /\ UNCHANGED <<legalVars, drive, publications, lost, raced>>

\* validate_document_storage_write lists, and creates the probe when there is none.
ListProbe(p) ==
    /\ runs[p].step = "probe"
    /\ LET found == {n \in Children("file", Root) : drive[n].name = Probe}
       IN  runs' = [runs EXCEPT ![p] =
                CASE found = {} -> [@ EXCEPT !.step = "create probe"]
                  [] Cardinality(found) = 1 -> [@ EXCEPT !.step = "latest"]
                  [] OTHER -> Idle]
    /\ UNCHANGED <<legalVars, drive, publications, started, lost, raced>>

CreateProbe(p) ==
    /\ runs[p].step = "create probe"
    /\ drive' = Append(drive, Object("file", Root, Probe, None))
    /\ runs' = [runs EXCEPT ![p].step = "latest"]
    /\ UNCHANGED <<legalVars, publications, started, lost, raced>>

\* _publish_one: nothing to do for a published document, a FAILED row for one not ready.
ReadLatest(p) ==
    /\ runs[p].step = "latest"
    /\ LET document == runs[p].document
           published == Latest(document) = "PUBLISHED"
           goesOn == ~published /\ document.ready
       IN  /\ publications' = IF published \/ goesOn THEN publications
                              ELSE Append(publications, Row(document, "FAILED", 0))
           /\ runs' = [runs EXCEPT ![p] = IF goesOn THEN [@ EXCEPT !.step = "claim"] ELSE Idle]
           /\ raced' = IF \E q \in Scripts \ {p} : /\ runs[q].document = document
                                                   /\ runs[q].step \notin {"probe", "create probe", "latest"}
                       THEN raced \cup {document} ELSE raced
    /\ UNCHANGED <<legalVars, drive, started, lost>>

Claim(p) ==
    /\ runs[p].step = "claim"
    /\ publications' = Append(publications, Row(runs[p].document, "PUBLISHING", 0))
    /\ runs' = [runs EXCEPT ![p].step = "folder", ![p].path = Path(runs[p].document)]
    /\ UNCHANGED <<legalVars, drive, started, lost, raced>>

\* ensure_folder lists the children and takes a namesake, whichever comes first.
FindFolder(p) ==
    /\ runs[p].step = "folder"
    /\ LET found == {n \in Children("folder", runs[p].folder) : drive[n].name = Head(runs[p].path)}
           rest == Tail(runs[p].path)
       IN  \/ /\ found = {}
              /\ runs' = [runs EXCEPT ![p].step = "make folder"]
           \/ \E n \in found :
                runs' = [runs EXCEPT ![p].folder = n, ![p].path = rest,
                                     ![p].step = IF rest = <<>> THEN "create" ELSE "folder"]
    /\ UNCHANGED <<legalVars, drive, publications, started, lost, raced>>

MakeFolder(p) ==
    /\ runs[p].step = "make folder"
    /\ drive' = Append(drive, Object("folder", runs[p].folder, Head(runs[p].path), None))
    /\ LET rest == Tail(runs[p].path)
       IN  runs' = [runs EXCEPT ![p].folder = Len(drive'), ![p].path = rest,
                                ![p].step = IF rest = <<>> THEN "create" ELSE "folder"]
    /\ UNCHANGED <<legalVars, publications, started, lost, raced>>

\* Mutant: the file is created in the destination itself.
CreateInRoot(p) ==
    /\ runs[p].step = "create"
    /\ drive' = Append(drive, Object("file", Root, Filename(runs[p].document), runs[p].document))
    /\ runs' = [runs EXCEPT ![p].step = "record", ![p].file = Len(drive')]
    /\ UNCHANGED <<legalVars, publications, started, lost, raced>>

CreateFile(p) ==
    /\ runs[p].step = "create"
    /\ drive' = Append(drive, Object("file", runs[p].folder, Filename(runs[p].document),
                                     runs[p].document))
    /\ runs' = [runs EXCEPT ![p].step = "record", ![p].file = Len(drive')]
    /\ UNCHANGED <<legalVars, publications, started, lost, raced>>

Record(p) ==
    /\ runs[p].step = "record"
    /\ publications' = Append(publications, Row(runs[p].document, "PUBLISHED", runs[p].file))
    /\ runs' = [runs EXCEPT ![p] = Idle]
    /\ UNCHANGED <<legalVars, drive, started, lost, raced>>

ProviderSteps == {"folder", "make folder", "create"}

\* What the call a script is at makes on Drive, if it makes anything
MadeBy(run) ==
    CASE run.step = "create probe" -> Object("file", Root, Probe, None)
      [] run.step = "make folder" -> Object("folder", run.folder, Head(run.path), None)
      [] run.step = "create" -> Object("file", run.folder, Filename(run.document), run.document)

\* A call to Drive raises, done or not: the attempt is recorded as FAILED, and the next
\* run finds the probe or the folder that was made, but never the file.
ProviderRaises(p) ==
    /\ runs[p].step \in ProviderSteps \cup {"probe", "create probe"} /\ faults < MaxFaults
    /\ faults' = faults + 1
    /\ \/ UNCHANGED <<drive, lost>>
       \/ /\ runs[p].step \in {"create probe", "make folder", "create"}
          /\ drive' = Append(drive, MadeBy(runs[p]))
          /\ lost' = IF runs[p].step = "create" THEN lost \cup {Len(drive')} ELSE lost
    /\ publications' = IF runs[p].step \in ProviderSteps
                       THEN Append(publications, Row(runs[p].document, "FAILED", 0)) ELSE publications
    /\ runs' = [runs EXCEPT ![p] = Idle]
    /\ UNCHANGED <<team, versions, replaced, clock, entry, holder, calls, started, raced>>

\* The process ends, or what is raised is not caught: a PUBLISHING row stays the last.
Crash(p) ==
    /\ runs[p].step # "idle" /\ faults < MaxFaults
    /\ faults' = faults + 1
    /\ lost' = IF runs[p].step = "record" THEN lost \cup {runs[p].file} ELSE lost
    /\ runs' = [runs EXCEPT ![p] = Idle]
    /\ UNCHANGED <<team, versions, replaced, clock, entry, holder, calls,
                   drive, publications, started, raced>>

ScriptNext(p) ==
    \/ Start(p) \/ ListProbe(p) \/ CreateProbe(p) \/ ReadLatest(p) \/ Claim(p)
    \/ FindFolder(p) \/ MakeFolder(p) \/ CreateFile(p) \/ Record(p)
    \/ ProviderRaises(p) \/ Crash(p)

Next ==
    \/ LegalNext /\ UNCHANGED driveVars
    \/ \E p \in Scripts : ScriptNext(p)

Spec == Init /\ [][Next]_vars

----------------------------------------------------------------------------
(* Properties *)

Published == {n \in DOMAIN publications : publications[n].status = "PUBLISHED"}
DocumentFiles == {n \in DOMAIN drive : drive[n].kind = "file" /\ drive[n].name # Probe}

(***************************************************************************)
(* Every row that says PUBLISHED names a file of its own, with its         *)
(* document, in a folder of its restaurant; and the document files on      *)
(* Drive are those the rows name, those about to be recorded and those a   *)
(* failure has left behind: no file is two of these, and none is missing.  *)
(***************************************************************************)
PublishedRowsHoldTheirFile ==
    LET named == {publications[n].file : n \in Published}
        unrecorded == {runs[p].file : p \in {q \in Scripts : runs[q].step = "record"}}
    IN  /\ \A n \in Published :
            LET row == publications[n] IN
            /\ row.file \in DocumentFiles
            /\ drive[row.file].content = row.document
            /\ PathOf(drive[row.file].parent) = Path(row.document)
            /\ \A m \in Published \ {n} : publications[m].file # row.file
        /\ DocumentFiles = named \cup unrecorded \cup lost
        /\ (named \cup unrecorded) \cap lost = {}
        /\ named \cap unrecorded = {}

\* Two files on Drive hold the same document.
Copies(m, n) == m # n /\ drive[m].content = drive[n].content

(***************************************************************************)
(* Running the publication again, after failures too, puts a second file   *)
(* of a document on Drive only when the reply to the first was lost, or    *)
(* when two processes worked on the document at once.                      *)
(***************************************************************************)
PublishedOnce ==
    \A m, n \in DocumentFiles \ lost : Copies(m, n) => drive[n].content \in raced

(***************************************************************************)
(* A published document names its partner as the registry does, or as one  *)
(* content of the legal sheet did without a second row for that restaurant *)
(* saying otherwise.                                                       *)
(***************************************************************************)
PublishedNamesAreUndisputed ==
    \A n \in Published :
        LET document == publications[n].document
            restaurant == Registry[document.id]
        IN  /\ document.partner # None
            /\ \/ document.partner = PartnerName(restaurant)
               \/ \E v \in DOMAIN versions :
                    /\ RowsOf(versions[v], document.id) # {}
                    /\ \A k \in RowsOf(versions[v], document.id) :
                        /\ versions[v][k].entity \in {document.partner, None}
                        /\ versions[v][k].review # "DO_NOT_USE"

(***************************************************************************)
(* The figures of a published document, rounded one by one, add up to the  *)
(* centime next to the right one at worst: commission and tax to the       *)
(* invoice, invoice and net payable to the sales.                          *)
(***************************************************************************)
PublishedFiguresAddUp ==
    \A n \in Published :
        LET figures == publications[n].document.figures
        IN  /\ figures.commission + figures.tva - figures.invoice \in -1 .. 1
            /\ figures.net + figures.invoice - figures.sales \in -1 .. 1

=============================================================================
