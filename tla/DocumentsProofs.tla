---------------------------- MODULE DocumentsProofs ----------------------------
(***************************************************************************)
(* The shared cache of the Partner Legal Master and the publication of     *)
(* documents on Drive, for any number of sessions, scripts, restaurants,   *)
(* contents of the sheet, failures and crashes.                            *)
(***************************************************************************)
EXTENDS Documents, FiniteSetTheorems, TLAPS

----------------------------------------------------------------------------
(* Lists that only grow *)

IsList(list) == \E S : list \in Seq(S)

LEMMA ListGrows ==
    ASSUME NEW list, IsList(list), NEW x
    PROVE  /\ IsList(Append(list, x))
           /\ Len(list) \in Nat /\ DOMAIN list = 1 .. Len(list)
           /\ Len(Append(list, x)) = Len(list) + 1
           /\ DOMAIN Append(list, x) = DOMAIN list \cup {Len(list) + 1}
           /\ \A n \in DOMAIN list : Append(list, x)[n] = list[n]
           /\ Append(list, x)[Len(list) + 1] = x
           /\ Len(list) + 1 \notin DOMAIN list
<1>1. PICK S : list \in Seq(S)
    BY DEF IsList
<1>2. list \in Seq(S \cup {x}) /\ x \in S \cup {x}
    BY <1>1
<1>3. Append(list, x) \in Seq(S \cup {x})
    BY <1>2
<1> QED  BY <1>2, <1>3 DEF IsList

LEMMA EmptyList == IsList(<<>>) /\ DOMAIN <<>> = {} /\ Len(<<>>) = 0
<1>1. <<>> \in Seq({})
    OBVIOUS
<1> QED  BY <1>1 DEF IsList

----------------------------------------------------------------------------
(***************************************************************************)
(* The cache.  A content was the sheet's own at a time when it was replaced *)
(* no earlier than then; what is marked CONNECTED was read by a load that  *)
(* began when it was, and expires a lifetime after it was stored.          *)
(***************************************************************************)
OwnAt(v, time) == v > Len(replaced) \/ replaced[v] >= time

Snapshot == [version : Nat, status : {"CONNECTED", "STALE_SOURCE", "FAILED"},
             expires : Nat, began : Nat, stored : Nat]

KeptOK(kept) ==
    /\ kept \in Snapshot
    /\ kept.status = "CONNECTED" =>
        /\ kept.version \in 1 .. Len(replaced) + 1 /\ kept.began <= clock
        /\ OwnAt(kept.version, kept.began)
        /\ kept.expires <= kept.stored + TTL

AnswerOK(answer) ==
    answer # None =>
        /\ KeptOK(answer.kept)
        /\ answer.kept.status = "CONNECTED" => answer.at < answer.kept.stored + TTL

CallOK(call) ==
    /\ call = [step |-> call.step, began |-> call.began, read |-> call.read, answer |-> call.answer]
    /\ call.began \in Nat /\ call.read \in Nat
    /\ call.step \in {"loading", "loaded"} => call.began <= clock
    /\ call.step = "loaded" => /\ call.read \in 1 .. Len(replaced) + 1
                               /\ OwnAt(call.read, call.began)
    /\ AnswerOK(call.answer)

Sheet ==
    /\ clock \in Nat /\ replaced \in Seq(Nat)
    /\ versions \in Seq(Sheets) /\ Len(versions) = Len(replaced) + 1

CacheInv ==
    /\ Sheet
    /\ entry # None => KeptOK(entry)
    /\ DOMAIN calls = Callers /\ calls = [c \in Callers |-> calls[c]]
    /\ \A c \in Callers : CallOK(calls[c])

LEMMA CacheInit == LegalInit => CacheInv
<1> SUFFICES ASSUME LegalInit PROVE CacheInv
    OBVIOUS
<1>1. PICK rows \in Sheets : versions = <<rows>>
    BY DEF LegalInit
<1>2. Sheet
    BY <1>1 DEF LegalInit, Sheet
<1>3. ASSUME NEW c \in Callers PROVE CallOK(calls[c])
    <2>1. calls[c] = NoCall
        BY DEF LegalInit
    <2> QED  BY <2>1 DEF NoCall, CallOK, AnswerOK
<1> QED  BY <1>2, <1>3 DEF CacheInv, LegalInit

(* A step of one caller, which leaves the sheet and the clock alone.        *)
LEMMA CallerStep ==
    ASSUME CacheInv, UNCHANGED <<versions, replaced, clock>>,
           entry' # None => KeptOK(entry'),
           NEW c \in Callers, NEW call, calls' = [calls EXCEPT ![c] = call], CallOK(call)
    PROVE  CacheInv'
<1>1. \A kept : KeptOK(kept)' <=> KeptOK(kept)
    BY DEF KeptOK, OwnAt
<1>2. \A x : CallOK(x)' <=> CallOK(x)
    BY <1>1 DEF CallOK, AnswerOK, OwnAt
<1>3. KeptOK(entry') => KeptOK(entry)'
    BY DEF KeptOK, OwnAt
<1>4. DOMAIN calls' = Callers /\ calls' = [q \in Callers |-> calls'[q]]
    BY DEF CacheInv
<1>5. ASSUME NEW q \in Callers PROVE CallOK(calls[q])'
    <2>1. CallOK(calls'[q])
        BY DEF CacheInv
    <2> QED  BY <2>1 DEF CallOK, AnswerOK, KeptOK, OwnAt
<1>6. Sheet'
    BY DEF CacheInv, Sheet
<1> QED  BY <1>3, <1>4, <1>5, <1>6 DEF CacheInv

(* What a load answers is a kept snapshot at the present time.              *)
LEMMA AnswerStep ==
    ASSUME CacheInv, UNCHANGED <<versions, replaced, clock>>,
           entry' # None => KeptOK(entry'),
           NEW c \in Callers, NEW kept, Answer(c, kept, clock), KeptOK(kept),
           kept.status = "CONNECTED" => clock < kept.stored + TTL
    PROVE  CacheInv'
<1>1. PICK call : call = [step |-> "idle", began |-> 0, read |-> 0,
                          answer |-> [kept |-> kept, at |-> clock]]
    OBVIOUS
<1>2. calls' = [calls EXCEPT ![c] = call]
    <2>1. [NoCall EXCEPT !.answer = [kept |-> kept, at |-> clock]] = call
        BY <1>1 DEF NoCall
    <2> QED  BY <2>1 DEF Answer
<1>3. CallOK(call)
    BY <1>1 DEF CallOK, AnswerOK
<1> QED  BY <1>2, <1>3, CallerStep

(* The sheet or the clock moves on: what was in order stays in order.       *)
LEMMA TimeStep ==
    ASSUME CacheInv, Sheet', clock <= clock', UNCHANGED calls,
           Len(replaced) <= Len(replaced'),
           \A v \in 1 .. Len(replaced) : replaced'[v] = replaced[v],
           \A v \in Len(replaced) + 1 .. Len(replaced') : replaced'[v] = clock,
           entry' # None => KeptOK(entry')
    PROVE  CacheInv'
<1>1. clock \in Nat /\ clock' \in Nat /\ Len(replaced) \in Nat /\ Len(replaced') \in Nat
    BY DEF CacheInv, Sheet
<1>2. ASSUME NEW v \in 1 .. Len(replaced) + 1, NEW time \in Nat, time <= clock, OwnAt(v, time)
      PROVE  OwnAt(v, time)'
    <2>1. CASE v \in 1 .. Len(replaced)
        BY <1>1, <1>2, <2>1 DEF OwnAt
    <2>2. CASE v = Len(replaced) + 1
        BY <1>1, <1>2, <2>2 DEF OwnAt
    <2> QED  BY <1>1, <2>1, <2>2
<1>3. ASSUME NEW kept, KeptOK(kept) PROVE KeptOK(kept)'
    BY <1>1, <1>2, <1>3 DEF KeptOK, Snapshot
<1>4. ASSUME NEW call, CallOK(call) PROVE CallOK(call)'
    <2>1. AnswerOK(call.answer)'
        BY <1>3, <1>4 DEF CallOK, AnswerOK
    <2>2. call.step \in {"loading", "loaded"} => call.began <= clock'
        BY <1>1, <1>4 DEF CallOK
    <2>3. call.step = "loaded" => call.read \in 1 .. Len(replaced') + 1 /\ OwnAt(call.read, call.began)'
        BY <1>1, <1>2, <1>4 DEF CallOK
    <2> QED  BY <1>4, <2>1, <2>2, <2>3 DEF CallOK
<1>5. ASSUME entry' # None PROVE KeptOK(entry)'
    <2>1. PICK kept : kept = entry'
        OBVIOUS
    <2>2. KeptOK(kept)'
        BY <1>3, <1>5, <2>1
    <2> QED  BY <2>1, <2>2 DEF KeptOK, OwnAt
<1>6. ASSUME NEW c \in Callers PROVE CallOK(calls[c])'
    <2>1. PICK call : call = calls[c]
        OBVIOUS
    <2>2. CallOK(call)'
        BY <1>4, <2>1 DEF CacheInv
    <2> QED  BY <2>1, <2>2 DEF CallOK, AnswerOK, KeptOK, OwnAt
<1> QED  BY <1>5, <1>6 DEF CacheInv

LEMMA HitKeeps == ASSUME CacheInv, NEW c \in Callers, Hit(c) PROVE CacheInv'
<1>1. PICK kept : kept = entry
    OBVIOUS
<1>2. KeptOK(kept) /\ clock < kept.expires /\ Answer(c, kept, clock)
    BY <1>1 DEF CacheInv, Hit, Fresh
<1>3. kept.status = "CONNECTED" => clock < kept.stored + TTL
    <2>1. TTL \in Nat /\ clock \in Nat /\ kept \in Snapshot
        BY <1>2, LegalMasterAssumption DEF CacheInv, Sheet, KeptOK
    <2> QED  BY <1>2, <2>1 DEF KeptOK, Snapshot
<1>4. UNCHANGED <<versions, replaced, clock>> /\ entry' = kept
    BY <1>1 DEF Hit
<1> QED  BY <1>2, <1>3, <1>4, AnswerStep

LEMMA MissKeeps == ASSUME CacheInv, NEW c \in Callers, Miss(c) PROVE CacheInv'
<1>1. PICK call : call = [step |-> "loading", began |-> clock, read |-> 0, answer |-> None]
    OBVIOUS
<1>2. calls' = [calls EXCEPT ![c] = call]
    <2>1. PICK begun : begun = [NoCall EXCEPT !.step = "loading"]
        OBVIOUS
    <2>2. begun = [step |-> "loading", began |-> 0, read |-> 0, answer |-> None]
        BY <2>1 DEF NoCall
    <2>3. [begun EXCEPT !.began = clock] = call
        BY <1>1, <2>2
    <2> QED  BY <2>1, <2>3 DEF Miss
<1>3. CallOK(call)
    BY <1>1 DEF CallOK, AnswerOK, CacheInv, Sheet
<1>4. UNCHANGED <<versions, replaced, clock>> /\ (entry' # None => KeptOK(entry'))
    BY DEF Miss, CacheInv
<1> QED  BY <1>2, <1>3, <1>4, CallerStep

LEMMA FetchKeeps == ASSUME CacheInv, NEW c \in Callers, Fetch(c) PROVE CacheInv'
<1>1. PICK old : old = calls[c]
    OBVIOUS
<1>2. CallOK(old) /\ old.step = "loading"
    BY <1>1 DEF CacheInv, Fetch
<1>3. PICK call : call = [step |-> "loaded", began |-> old.began, read |-> Len(versions),
                          answer |-> old.answer]
    OBVIOUS
<1>4. calls' = [calls EXCEPT ![c] = call]
    <2>1. old = [step |-> old.step, began |-> old.began, read |-> old.read, answer |-> old.answer]
        BY <1>2 DEF CallOK
    <2>2. PICK done : done = [old EXCEPT !.step = "loaded"]
        OBVIOUS
    <2>3. done = [step |-> "loaded", began |-> old.began, read |-> old.read, answer |-> old.answer]
        BY <2>1, <2>2
    <2>4. [done EXCEPT !.read = Len(versions)] = call
        BY <1>3, <2>3
    <2>5. calls' = [calls EXCEPT ![c] = [done EXCEPT !.read = Len(versions)]]
        BY <1>1, <2>2 DEF Fetch, CacheInv
    <2> QED  BY <2>4, <2>5
<1>5. CallOK(call)
    BY <1>2, <1>3 DEF CallOK, CacheInv, Sheet, OwnAt
<1>6. UNCHANGED <<versions, replaced, clock>> /\ (entry' # None => KeptOK(entry'))
    BY DEF Fetch, CacheInv
<1> QED  BY <1>4, <1>5, <1>6, CallerStep

LEMMA StoreKeeps == ASSUME CacheInv, NEW c \in Callers, Store(c) PROVE CacheInv'
<1>1. PICK old : old = calls[c]
    OBVIOUS
<1>2. CallOK(old) /\ old.step = "loaded"
    BY <1>1 DEF CacheInv, Store
<1>3. PICK kept : kept = [version |-> old.read, status |-> "CONNECTED", expires |-> clock + TTL,
                          began |-> old.began, stored |-> clock]
    OBVIOUS
<1>4. entry' = kept /\ Answer(c, kept, clock) /\ UNCHANGED <<versions, replaced, clock>>
    BY <1>1, <1>3 DEF Store
<1>5. TTL \in Nat \ {0} /\ clock \in Nat
    BY LegalMasterAssumption DEF CacheInv, Sheet
<1>6. KeptOK(kept) /\ clock < kept.stored + TTL
    <2>1. old.read \in 1 .. Len(replaced) + 1 /\ OwnAt(old.read, old.began) /\ old.began <= clock
        BY <1>2 DEF CallOK
    <2>2. old.began \in Nat /\ old.read \in Nat
        BY <1>2 DEF CallOK
    <2>3. kept \in Snapshot
        BY <1>3, <1>5, <2>2 DEF Snapshot
    <2>4. kept.version = old.read /\ kept.began = old.began /\ kept.expires = clock + TTL
          /\ kept.stored = clock
        BY <1>3
    <2> QED  BY <1>5, <2>1, <2>3, <2>4 DEF KeptOK
<1> QED  BY <1>4, <1>6, AnswerStep

LEMMA LoaderRaisesKeeps == ASSUME CacheInv, NEW c \in Callers, LoaderRaises(c) PROVE CacheInv'
<1>1. TTL \in Nat /\ clock \in Nat
    BY LegalMasterAssumption DEF CacheInv, Sheet
<1>2. CASE entry = None
    <2>1. PICK kept : kept = NeverRead
        OBVIOUS
    <2>2. KeptOK(kept) /\ kept.status = "FAILED"
        <3>1. kept \in Snapshot /\ kept.status = "FAILED"
            BY <2>1 DEF NeverRead, Snapshot
        <3> QED  BY <3>1 DEF KeptOK
    <2>3. entry' = None /\ Answer(c, kept, clock) /\ UNCHANGED <<versions, replaced, clock>>
        BY <1>2, <2>1 DEF LoaderRaises
    <2> QED  BY <2>2, <2>3, AnswerStep
<1>3. CASE entry # None
    <2>1. PICK kept : kept = StaleSource(entry)
        OBVIOUS
    <2>2. KeptOK(entry)
        BY <1>3 DEF CacheInv
    <2>3. KeptOK(kept) /\ kept.status = "STALE_SOURCE"
        <3>1. entry \in Snapshot
            BY <2>2 DEF KeptOK
        <3>2. PICK marked : marked = [entry EXCEPT !.status = "STALE_SOURCE"]
            OBVIOUS
        <3>3. marked \in Snapshot /\ marked.status = "STALE_SOURCE"
            BY <3>1, <3>2 DEF Snapshot
        <3>4. kept = [marked EXCEPT !.expires = clock + TTL]
            BY <2>1, <3>2 DEF StaleSource
        <3>5. kept \in Snapshot /\ kept.status = "STALE_SOURCE"
            BY <1>1, <3>3, <3>4 DEF Snapshot
        <3> QED  BY <3>5 DEF KeptOK
    <2>4. entry' = kept /\ Answer(c, kept, clock) /\ UNCHANGED <<versions, replaced, clock>>
        BY <1>3, <2>1 DEF LoaderRaises
    <2> QED  BY <2>3, <2>4, AnswerStep
<1> QED  BY <1>2, <1>3

LEMMA ExpireKeeps == ASSUME CacheInv, Expire PROVE CacheInv'
<1>1. /\ Sheet' /\ clock <= clock' /\ Len(replaced) <= Len(replaced')
      /\ \A v \in 1 .. Len(replaced) : replaced'[v] = replaced[v]
      /\ \A v \in Len(replaced) + 1 .. Len(replaced') : replaced'[v] = clock
    BY DEF Expire, CacheInv, Sheet
<1>2. KeptOK(entry')
    <2>1. TTL \in Nat /\ KeptOK(entry)
        BY LegalMasterAssumption DEF Expire, CacheInv
    <2>2. entry' = [entry EXCEPT !.expires = 0]
        BY DEF Expire
    <2> QED  BY <2>1, <2>2 DEF KeptOK, Snapshot
<1>3. UNCHANGED calls
    BY DEF Expire
<1> QED  BY <1>1, <1>2, <1>3, TimeStep

LEMMA TickKeeps == ASSUME CacheInv, Tick PROVE CacheInv'
<1>1. /\ Sheet' /\ clock <= clock' /\ Len(replaced) <= Len(replaced')
      /\ \A v \in 1 .. Len(replaced) : replaced'[v] = replaced[v]
      /\ \A v \in Len(replaced) + 1 .. Len(replaced') : replaced'[v] = clock
    BY DEF Tick, CacheInv, Sheet
<1>2. UNCHANGED calls /\ (entry' # None => KeptOK(entry'))
    BY DEF Tick, CacheInv
<1> QED  BY <1>1, <1>2, TimeStep

LEMMA SheetChangesKeeps == ASSUME CacheInv, SheetChanges PROVE CacheInv'
<1>1. PICK rows \in Sheets : versions' = Append(versions, rows)
    BY DEF SheetChanges
<1>2. /\ Sheet /\ replaced' = Append(replaced, clock) /\ UNCHANGED <<clock, calls>>
      /\ entry' # None => KeptOK(entry')
    BY DEF SheetChanges, CacheInv
<1>3. Sheet'
    BY <1>1, <1>2 DEF Sheet
<1>4. /\ Len(replaced) <= Len(replaced') /\ clock <= clock'
      /\ \A v \in 1 .. Len(replaced) : replaced'[v] = replaced[v]
      /\ \A v \in Len(replaced) + 1 .. Len(replaced') : replaced'[v] = clock
    BY <1>2 DEF Sheet
<1> QED  BY <1>2, <1>3, <1>4, TimeStep

LEMMA CacheKeeps == CacheInv /\ [Next]_vars => CacheInv'
<1> SUFFICES ASSUME CacheInv, [Next]_vars PROVE CacheInv'
    OBVIOUS
<1>1. ASSUME UNCHANGED <<versions, replaced, clock, entry, calls>> PROVE CacheInv'
    <2>1. /\ Sheet' /\ clock <= clock' /\ Len(replaced) <= Len(replaced')
          /\ \A v \in 1 .. Len(replaced) : replaced'[v] = replaced[v]
          /\ \A v \in Len(replaced) + 1 .. Len(replaced') : replaced'[v] = clock
        BY <1>1 DEF CacheInv, Sheet
    <2>2. entry' # None => KeptOK(entry')
        BY <1>1 DEF CacheInv
    <2> QED  BY <1>1, <2>1, <2>2, TimeStep
<1>2. ASSUME NEW p \in Scripts, ScriptNext(p)
      PROVE  UNCHANGED <<versions, replaced, clock, entry, calls>>
    BY <1>2 DEF ScriptNext, Start, ListProbe, CreateProbe, ReadLatest, Claim, FindFolder, MakeFolder,
                CreateFile, Record, ProviderRaises, Crash, legalVars
<1>3. ASSUME NEW c \in Callers, Hit(c) \/ Miss(c) \/ Fetch(c) \/ Store(c) \/ LoaderRaises(c)
      PROVE  CacheInv'
    BY <1>3, HitKeeps, MissKeeps, FetchKeeps, StoreKeeps, LoaderRaisesKeeps
<1>4. CASE LegalNext
    BY <1>3, <1>4, ExpireKeeps, TickKeeps, SheetChangesKeeps DEF LegalNext
<1>5. CASE UNCHANGED vars
    BY <1>1, <1>5 DEF vars
<1> QED  BY <1>1, <1>2, <1>4, <1>5 DEF Next

(* A session is told CONNECTED only of a content the sheet still had when   *)
(* the load that read it began, and within the lifetime after that load,   *)
(* whatever other sessions, failed loads and the clock do meanwhile        *)
(* (PartnerLegalMasterCache.load).                                         *)
THEOREM CacheIsHonest == Spec => []AnswersAreFreshOrFlagged
<1>1. Init => CacheInv
    BY CacheInit DEF Init
<1>2. CacheInv => AnswersAreFreshOrFlagged
    <2> SUFFICES ASSUME CacheInv, NEW c \in Callers, calls[c].answer # None,
                        calls[c].answer.kept.status = "CONNECTED"
                 PROVE  /\ calls[c].answer.at < calls[c].answer.kept.stored + TTL
                        /\ \/ calls[c].answer.kept.version > Len(replaced)
                           \/ replaced[calls[c].answer.kept.version] >= calls[c].answer.kept.began
        BY DEF AnswersAreFreshOrFlagged
    <2>1. CallOK(calls[c])
        BY DEF CacheInv
    <2> QED  BY <2>1 DEF CallOK, AnswerOK, KeptOK, OwnAt
<1> QED  BY <1>1, <1>2, CacheKeeps, PTL DEF Spec

----------------------------------------------------------------------------
(***************************************************************************)
(* The publication.  Drive and the table of publications only grow.  A run *)
(* past its look at the table works on a candidate that is ready, goes     *)
(* down the two folders of its restaurant, and holds a file of its own     *)
(* when it is about to record it.                                          *)
(***************************************************************************)
Early == {"idle", "probe", "create probe", "latest"}
Late(run) == run.step \notin Early

Made(document) ==
    \E v \in DOMAIN versions, id \in DOMAIN Settlements, type \in Kinds :
        document = Candidate(id, type, versions[v])

\* the folder DRY_RUN, and one of a restaurant below it
IsTop(folder) == folder \in DOMAIN drive /\ drive[folder].name = "DRY_RUN"

IsHome(folder, document) ==
    /\ folder \in DOMAIN drive /\ drive[folder].name = document.id
    /\ IsTop(drive[folder].parent)

IsFile(n) == drive[n].kind = "file" /\ drive[n].name # Probe

Holds(file, document) ==
    /\ file \in DOMAIN drive /\ IsFile(file)
    /\ drive[file].content = document /\ IsHome(drive[file].parent, document)

RunOK(run) ==
    /\ run = [step |-> run.step, document |-> run.document, folder |-> run.folder,
              path |-> run.path, file |-> run.file]
    /\ run.step # "idle" => Made(run.document)
    /\ Late(run) => run.document.ready
    /\ run.step \in {"probe", "create probe", "latest", "claim"} => run.folder = Root
    /\ run.step \in {"folder", "make folder"} =>
        \/ run.folder = Root /\ run.path = Path(run.document)
        \/ IsTop(run.folder) /\ run.path = <<run.document.id>>
    /\ run.step = "create" => IsHome(run.folder, run.document)
    /\ run.step = "record" => Holds(run.file, run.document)

RowOK(row) ==
    row.status = "PUBLISHED" =>
        Holds(row.file, row.document) /\ Made(row.document) /\ row.document.ready

Lists == IsList(drive) /\ IsList(publications) /\ IsList(versions)

Works ==
    /\ DOMAIN runs = Scripts /\ runs = [p \in Scripts |-> runs[p]]
    /\ \A p \in Scripts : \A run : run = runs[p] => RunOK(run)
    /\ \A n \in DOMAIN publications : \A row : row = publications[n] => RowOK(row)

\* a file is of one row, or of one run that is about to record it
OwnFiles ==
    /\ \A m, n \in Published : m # n => publications[m].file # publications[n].file
    /\ \A p \in Scripts : runs[p].step = "record" =>
        /\ \A n \in Published : publications[n].file # runs[p].file
        /\ \A q \in Scripts \ {p} : runs[q].step = "record" => runs[q].file # runs[p].file

Recording == {p \in Scripts : runs[p].step = "record"}

\* every document file is a row's, a run's, or lost, and what is lost is nobody's
Kept ==
    /\ lost \subseteq DocumentFiles
    /\ \A f \in DocumentFiles \ lost :
          \/ \E n \in Published : publications[n].file = f
          \/ \E p \in Recording : runs[p].file = f
    /\ \A n \in Published : publications[n].file \notin lost
    /\ \A p \in Recording : runs[p].file \notin lost

DriveInv == Lists /\ Works /\ OwnFiles /\ Kept

----------------------------------------------------------------------------
(***************************************************************************)
(* One publication of a document, unless two scripts worked on it at once: *)
(* once it is published, its last row says so and no run is past the look, *)
(* so the next run sees it and stops.                                      *)
(***************************************************************************)
HasLast(document) ==
    RowsWith(document) # {} =>
        \E n \in RowsWith(document) : \A m \in RowsWith(document) : m <= n

WorksOn(p, document) == Late(runs[p]) /\ runs[p].document = document

Alone(document) ==
    document \notin raced =>
        /\ \A p, q \in Scripts : WorksOn(p, document) /\ WorksOn(q, document) => p = q
        /\ \A n \in Published : publications[n].document = document =>
            /\ Latest(document) = "PUBLISHED"
            /\ \A p \in Scripts : ~ WorksOn(p, document)
            /\ \A m \in Published : publications[m].document = document => m = n

OnceInv == \A document : HasLast(document) /\ Alone(document)

----------------------------------------------------------------------------
(* What a growing drive, table and sheet keep *)

Grows ==
    /\ Lists /\ Lists'
    /\ \A n \in DOMAIN drive : n \in DOMAIN drive' /\ drive'[n] = drive[n]
    /\ \A n \in DOMAIN publications : n \in DOMAIN publications' /\ publications'[n] = publications[n]
    /\ \A v \in DOMAIN versions : v \in DOMAIN versions' /\ versions'[v] = versions[v]

\* a list stays or has one more entry at its end
Longer(old, new) == new = old \/ \E x : new = Append(old, x)

LEMMA LongerGrows ==
    ASSUME NEW old, NEW new, IsList(old), Longer(old, new)
    PROVE  IsList(new) /\ \A n \in DOMAIN old : n \in DOMAIN new /\ new[n] = old[n]
<1>1. CASE new = old
    BY <1>1
<1>2. ASSUME NEW x, new = Append(old, x)
      PROVE  IsList(new) /\ \A n \in DOMAIN old : n \in DOMAIN new /\ new[n] = old[n]
    BY <1>2, ListGrows
<1> QED  BY <1>1, <1>2 DEF Longer

LEMMA EveryStepGrows ==
    ASSUME Lists, Longer(drive, drive'), Longer(publications, publications'),
           Longer(versions, versions')
    PROVE  Grows
<1>1. IsList(drive') /\ \A n \in DOMAIN drive : n \in DOMAIN drive' /\ drive'[n] = drive[n]
    BY LongerGrows DEF Lists
<1>2. IsList(publications') /\ \A n \in DOMAIN publications :
          n \in DOMAIN publications' /\ publications'[n] = publications[n]
    BY LongerGrows DEF Lists
<1>3. IsList(versions') /\ \A v \in DOMAIN versions :
          v \in DOMAIN versions' /\ versions'[v] = versions[v]
    BY LongerGrows DEF Lists
<1> QED  BY <1>1, <1>2, <1>3 DEF Grows, Lists

LEMMA PlacesStay ==
    ASSUME Grows, NEW n, NEW document
    PROVE  /\ IsTop(n) => IsTop(n)'
           /\ IsHome(n, document) => IsHome(n, document)'
           /\ Holds(n, document) => Holds(n, document)'
           /\ Made(document) => Made(document)'
<1>1. \A m : IsTop(m) => IsTop(m)'
    BY DEF Grows, IsTop
<1>2. \A m : IsHome(m, document) => IsHome(m, document)'
    BY <1>1 DEF Grows, IsHome
<1>3. Holds(n, document) => Holds(n, document)'
    BY <1>2 DEF Grows, Holds, IsFile
<1>4. Made(document) => Made(document)'
    BY DEF Grows, Made
<1> QED  BY <1>1, <1>2, <1>3, <1>4

LEMMA WorkStays ==
    ASSUME Grows, NEW run, NEW row
    PROVE  (RunOK(run) => RunOK(run)') /\ (RowOK(row) => RowOK(row)')
<1>1. \A n, document :
          /\ IsTop(n) => IsTop(n)'
          /\ IsHome(n, document) => IsHome(n, document)'
          /\ Holds(n, document) => Holds(n, document)'
          /\ Made(document) => Made(document)'
    BY PlacesStay
<1>2. RunOK(run) => RunOK(run)'
    BY <1>1 DEF RunOK
<1>3. RowOK(row) => RowOK(row)'
    BY <1>1 DEF RowOK
<1> QED  BY <1>2, <1>3

(* One script takes a step, and at most one row is added.                   *)
LEMMA WorksStep ==
    ASSUME Works, Grows, NEW p \in Scripts, NEW run, runs' = [runs EXCEPT ![p] = run], RunOK(run)',
           publications' = publications
               \/ \E row : publications' = Append(publications, row) /\ RowOK(row)'
    PROVE  Works'
<1>1. DOMAIN runs' = Scripts /\ runs' = [q \in Scripts |-> runs'[q]]
    BY DEF Works
<1>2. ASSUME NEW q \in Scripts, NEW new, new = runs'[q] PROVE RunOK(new)'
    <2>1. CASE q = p
        <3>1. new = run
            BY <1>2, <2>1 DEF Works
        <3> QED  BY <3>1
    <2>2. CASE q # p
        <3>1. new = runs[q] /\ RunOK(new)
            BY <1>2, <2>2 DEF Works
        <3> QED  BY <3>1, WorkStays
    <2> QED  BY <2>1, <2>2
<1>3. ASSUME NEW n \in DOMAIN publications', NEW new, new = publications'[n] PROVE RowOK(new)'
    <2>1. CASE n \in DOMAIN publications
        <3>1. new = publications[n] /\ RowOK(new)
            BY <1>3, <2>1 DEF Works, Grows
        <3> QED  BY <3>1, WorkStays
    <2>2. CASE n \notin DOMAIN publications
        <3>1. PICK row : publications' = Append(publications, row) /\ RowOK(row)'
            BY <1>3, <2>2
        <3>2. new = row
            BY <1>3, <2>2, <3>1, ListGrows DEF Grows, Lists
        <3> QED  BY <3>1, <3>2
    <2> QED  BY <2>1, <2>2
<1> QED  BY <1>1, <1>2, <1>3 DEF Works

----------------------------------------------------------------------------
(* Published rows, document files, runs about to record *)

PlainRow(row) == row.status # "PUBLISHED"
PlainObject(object) == object.kind # "file" \/ object.name = Probe

LEMMA PublishedStep ==
    ASSUME IsList(publications), NEW row, publications' = Append(publications, row)
    PROVE  /\ PlainRow(row) => Published' = Published
           /\ ~ PlainRow(row) => /\ Published' = Published \cup {Len(publications) + 1}
                                 /\ Len(publications) + 1 \notin Published
           /\ \A n \in Published : publications'[n] = publications[n]
           /\ publications'[Len(publications) + 1] = row
BY ListGrows DEF Published, PlainRow

LEMMA FilesStep ==
    ASSUME IsList(drive), NEW object, drive' = Append(drive, object)
    PROVE  /\ PlainObject(object) => DocumentFiles' = DocumentFiles
           /\ ~ PlainObject(object) => /\ DocumentFiles' = DocumentFiles \cup {Len(drive) + 1}
                                       /\ Len(drive) + 1 \notin DocumentFiles
BY ListGrows DEF DocumentFiles, PlainObject

LEMMA RecordingStep ==
    ASSUME Works, NEW p \in Scripts, NEW run, runs' = [runs EXCEPT ![p] = run]
    PROVE  /\ run.step = "record" => Recording' = Recording \cup {p}
           /\ run.step # "record" => Recording' = Recording \ {p}
           /\ runs'[p] = run /\ \A q \in Scripts \ {p} : runs'[q] = runs[q]
BY DEF Works, Recording

(* A step that makes no file, publishes nothing and records nothing.        *)
LEMMA PlainStep ==
    ASSUME DriveInv, Grows, NEW p \in Scripts, NEW run, runs' = [runs EXCEPT ![p] = run],
           RunOK(run)', run.step # "record", runs[p].step # "record", lost' = lost,
           publications' = publications
               \/ \E row : publications' = Append(publications, row) /\ PlainRow(row),
           drive' = drive
               \/ \E object : drive' = Append(drive, object) /\ PlainObject(object)
    PROVE  DriveInv'
<1>1. Works'
    <2>1. \A row : PlainRow(row) => RowOK(row)'
        BY DEF PlainRow, RowOK
    <2> QED  BY <2>1, WorksStep DEF DriveInv
<1>2. Published' = Published /\ \A n \in Published : publications'[n] = publications[n]
    <2>1. CASE publications' = publications
        BY <2>1 DEF Published
    <2>2. CASE publications' # publications
        BY <2>2, PublishedStep DEF DriveInv, Lists
    <2> QED  BY <2>1, <2>2
<1>3. DocumentFiles' = DocumentFiles
    <2>1. CASE drive' = drive
        BY <2>1 DEF DocumentFiles
    <2>2. CASE drive' # drive
        BY <2>2, FilesStep DEF DriveInv, Lists
    <2> QED  BY <2>1, <2>2
<1>4. /\ Recording' = Recording
      /\ \A q \in Scripts : runs'[q].step = "record" => runs'[q] = runs[q]
    BY RecordingStep DEF DriveInv, Recording
<1>5. OwnFiles'
    BY <1>2, <1>4 DEF DriveInv, OwnFiles
<1>6. Kept'
    BY <1>2, <1>3, <1>4 DEF DriveInv, Kept, Recording
<1>7. Lists'
    BY DEF Grows
<1> QED  BY <1>1, <1>5, <1>6, <1>7 DEF DriveInv

----------------------------------------------------------------------------
(* The runs, step by step *)

\* what a change of step, or of the whole place, leaves of a run
LEMMA Turned ==
    ASSUME NEW old, NEW step, RunOK(old)
    PROVE  \A run : run = [old EXCEPT !.step = step] =>
              run = [step |-> step, document |-> old.document, folder |-> old.folder,
                     path |-> old.path, file |-> old.file]
<1>1. old = [step |-> old.step, document |-> old.document, folder |-> old.folder,
             path |-> old.path, file |-> old.file]
    BY DEF RunOK
<1> QED  BY <1>1

(* A step between the look at the table and the claim, or an end.           *)
LEMMA EarlyOK ==
    ASSUME Grows, NEW old, RunOK(old), old.step \in {"probe", "create probe", "latest"}, NEW step,
           step \in {"create probe", "latest", "claim"}, step = "claim" => old.document.ready,
           NEW run, run = [old EXCEPT !.step = step]
    PROVE  RunOK(run)' /\ run.step # "record"
<1>1. run = [step |-> step, document |-> old.document, folder |-> old.folder,
             path |-> old.path, file |-> old.file]
    BY Turned
<1>2. Made(old.document)'
    BY PlacesStay DEF RunOK
<1> QED  BY <1>1, <1>2 DEF RunOK, Late, Early

LEMMA IdleOK == RunOK(Idle)' /\ Idle.step = "idle" /\ ~ Late(Idle)
<1>1. Idle = [step |-> "idle", document |-> None, folder |-> Root, path |-> <<>>, file |-> 0]
    BY DEF Idle
<1> QED  BY <1>1 DEF RunOK, Late, Early

LEMMA StartKeeps ==
    ASSUME DriveInv, Sheet, NEW p \in Scripts, Start(p)
    PROVE  DriveInv'
<1>1. PICK id \in DOMAIN Settlements, type \in Kinds :
          runs' = [runs EXCEPT ![p] = [Idle EXCEPT !.step = "probe",
                       !.document = Candidate(id, type, Last(versions))]]
    BY DEF Start
<1>2. UNCHANGED <<versions, drive, publications, lost>> /\ runs[p].step = "idle"
    BY DEF Start, legalVars
<1>3. Grows
    BY <1>2, EveryStepGrows DEF DriveInv, Longer
<1>4. PICK document : document = Candidate(id, type, Last(versions))
    OBVIOUS
<1>5. Made(document)'
    <2>1. Len(versions) \in DOMAIN versions /\ Last(versions) = versions[Len(versions)]
        BY DEF Sheet, Last
    <2> QED  BY <1>2, <1>4, <2>1 DEF Made
<1>6. PICK run : run = [step |-> "probe", document |-> document, folder |-> Root,
                        path |-> <<>>, file |-> 0]
    OBVIOUS
<1>7. runs' = [runs EXCEPT ![p] = run]
    <2>1. PICK begun : begun = [Idle EXCEPT !.step = "probe"]
        OBVIOUS
    <2>2. begun = [step |-> "probe", document |-> None, folder |-> Root, path |-> <<>>, file |-> 0]
        BY <2>1 DEF Idle
    <2>3. [begun EXCEPT !.document = document] = run
        BY <1>6, <2>2
    <2> QED  BY <1>1, <1>4, <2>1, <2>3
<1>8. RunOK(run)' /\ run.step # "record"
    BY <1>5, <1>6 DEF RunOK, Late, Early
<1> QED  BY <1>2, <1>3, <1>7, <1>8, PlainStep

LEMMA ListProbeKeeps ==
    ASSUME DriveInv, NEW p \in Scripts, ListProbe(p)
    PROVE  DriveInv'
<1>1. PICK old : old = runs[p]
    OBVIOUS
<1>2. RunOK(old) /\ old.step = "probe"
    BY <1>1 DEF ListProbe, DriveInv, Works
<1>3. UNCHANGED <<versions, drive, publications, lost>>
    BY DEF ListProbe, legalVars
<1>4. Grows
    BY <1>3, EveryStepGrows DEF DriveInv, Longer
<1>5. \/ runs' = [runs EXCEPT ![p] = [old EXCEPT !.step = "create probe"]]
      \/ runs' = [runs EXCEPT ![p] = [old EXCEPT !.step = "latest"]]
      \/ runs' = [runs EXCEPT ![p] = Idle]
    <2>1. PICK one : one = [old EXCEPT !.step = "create probe"]
        OBVIOUS
    <2>2. PICK two : two = [old EXCEPT !.step = "latest"]
        OBVIOUS
    <2>3. \E found : runs' = [runs EXCEPT ![p] =
                CASE found = {} -> one [] Cardinality(found) = 1 -> two [] OTHER -> Idle]
        BY <1>1, <2>1, <2>2, Zenon DEF ListProbe
    <2>4. PICK new : /\ runs' = [runs EXCEPT ![p] = new]
                     /\ new = one \/ new = two \/ new = Idle
        <3>1. PICK found : runs' = [runs EXCEPT ![p] =
                CASE found = {} -> one [] Cardinality(found) = 1 -> two [] OTHER -> Idle]
            BY <2>3
        <3>2. PICK new : new = CASE found = {} -> one [] Cardinality(found) = 1 -> two [] OTHER -> Idle
            OBVIOUS
        <3>3. new = one \/ new = two \/ new = Idle
            BY <3>2
        <3> QED  BY <3>1, <3>2, <3>3
    <2> QED  BY <2>1, <2>2, <2>4
<1>6. ASSUME NEW step \in {"create probe", "latest"},
             runs' = [runs EXCEPT ![p] = [old EXCEPT !.step = step]]
      PROVE  DriveInv'
    <2>1. PICK run : run = [old EXCEPT !.step = step]
        OBVIOUS
    <2>2. RunOK(run)' /\ run.step # "record"
        BY <1>2, <1>4, <2>1, EarlyOK
    <2> QED  BY <1>1, <1>2, <1>3, <1>4, <1>6, <2>1, <2>2, PlainStep
<1>7. CASE runs' = [runs EXCEPT ![p] = Idle]
    BY <1>1, <1>2, <1>3, <1>4, <1>7, IdleOK, PlainStep
<1> QED  BY <1>5, <1>6, <1>7

LEMMA CreateProbeKeeps ==
    ASSUME DriveInv, NEW p \in Scripts, CreateProbe(p)
    PROVE  DriveInv'
<1>1. PICK old : old = runs[p]
    OBVIOUS
<1>2. RunOK(old) /\ old.step = "create probe"
    BY <1>1 DEF CreateProbe, DriveInv, Works
<1>3. PICK object : object = Object("file", Root, Probe, None)
    OBVIOUS
<1>4. /\ drive' = Append(drive, object) /\ UNCHANGED <<versions, publications, lost>>
      /\ runs' = [runs EXCEPT ![p] = [old EXCEPT !.step = "latest"]]
    BY <1>1, <1>3 DEF CreateProbe, legalVars
<1>5. PlainObject(object)
    BY <1>3 DEF PlainObject, Object
<1>6. Grows
    BY <1>4, EveryStepGrows DEF DriveInv, Longer
<1>7. PICK run : run = [old EXCEPT !.step = "latest"]
    OBVIOUS
<1>8. RunOK(run)' /\ run.step # "record"
    BY <1>2, <1>6, <1>7, EarlyOK
<1> QED  BY <1>1, <1>2, <1>4, <1>5, <1>6, <1>7, <1>8, PlainStep

LEMMA ReadLatestKeeps ==
    ASSUME DriveInv, NEW p \in Scripts, ReadLatest(p)
    PROVE  DriveInv'
<1>1. PICK old : old = runs[p]
    OBVIOUS
<1>2. RunOK(old) /\ old.step = "latest"
    BY <1>1 DEF ReadLatest, DriveInv, Works
<1>3. PICK row : row = Row(old.document, "FAILED", 0)
    OBVIOUS
<1>4. /\ publications' = publications \/ publications' = Append(publications, row)
      /\ \/ runs' = [runs EXCEPT ![p] = [old EXCEPT !.step = "claim"]] /\ old.document.ready
         \/ runs' = [runs EXCEPT ![p] = Idle]
      /\ UNCHANGED <<versions, drive, lost>>
    BY <1>1, <1>3 DEF ReadLatest, legalVars
<1>5. PlainRow(row)
    BY <1>3 DEF PlainRow, Row
<1>6. Grows
    BY <1>4, EveryStepGrows DEF DriveInv, Longer
<1>7. CASE runs' = [runs EXCEPT ![p] = [old EXCEPT !.step = "claim"]] /\ old.document.ready
    <2>1. PICK run : run = [old EXCEPT !.step = "claim"]
        OBVIOUS
    <2>2. RunOK(run)' /\ run.step # "record"
        BY <1>2, <1>6, <1>7, <2>1, EarlyOK
    <2> QED  BY <1>1, <1>2, <1>4, <1>5, <1>6, <1>7, <2>1, <2>2, PlainStep
<1>8. CASE runs' = [runs EXCEPT ![p] = Idle]
    BY <1>1, <1>2, <1>4, <1>5, <1>6, <1>8, IdleOK, PlainStep
<1> QED  BY <1>4, <1>7, <1>8

LEMMA ClaimKeeps ==
    ASSUME DriveInv, NEW p \in Scripts, Claim(p)
    PROVE  DriveInv'
<1>1. PICK old : old = runs[p]
    OBVIOUS
<1>2. RunOK(old) /\ old.step = "claim"
    BY <1>1 DEF Claim, DriveInv, Works
<1>3. PICK row : row = Row(old.document, "PUBLISHING", 0)
    OBVIOUS
<1>4. publications' = Append(publications, row) /\ UNCHANGED <<versions, drive, lost>>
    BY <1>1, <1>3 DEF Claim, legalVars
<1>5. PlainRow(row)
    BY <1>3 DEF PlainRow, Row
<1>6. Grows
    BY <1>4, EveryStepGrows DEF DriveInv, Longer
<1>7. PICK run : run = [step |-> "folder", document |-> old.document, folder |-> old.folder,
                        path |-> Path(old.document), file |-> old.file]
    OBVIOUS
<1>8. runs' = [runs EXCEPT ![p] = run]
    <2>1. PICK turned : turned = [old EXCEPT !.step = "folder"]
        OBVIOUS
    <2>2. turned = [step |-> "folder", document |-> old.document, folder |-> old.folder,
                    path |-> old.path, file |-> old.file]
        BY <1>2, <2>1, Turned
    <2>3. [turned EXCEPT !.path = Path(old.document)] = run
        BY <1>7, <2>2
    <2>4. runs' = [runs EXCEPT ![p] = [turned EXCEPT !.path = Path(old.document)]]
        BY <1>1, <2>1 DEF Claim, DriveInv, Works
    <2> QED  BY <2>3, <2>4
<1>9. RunOK(run)' /\ run.step # "record"
    <2>1. Made(old.document)' /\ old.document.ready /\ old.folder = Root
        BY <1>2, <1>6, PlacesStay DEF RunOK, Late, Early
    <2> QED  BY <1>7, <2>1 DEF RunOK, Late, Early
<1> QED  BY <1>1, <1>2, <1>4, <1>5, <1>6, <1>8, <1>9, PlainStep

(* Going down the path: one folder further, and the file at its end.        *)
LEMMA TwoParts ==
    ASSUME NEW path, NEW first, NEW second, path = <<first, second>>
    PROVE  Head(path) = first /\ Tail(path) = <<second>> /\ Tail(path) # <<>>
OBVIOUS

LEMMA OnePart ==
    ASSUME NEW path, NEW first, path = <<first>>
    PROVE  Head(path) = first /\ Tail(path) = <<>>
OBVIOUS

LEMMA DescendOK ==
    ASSUME Grows, NEW old, RunOK(old), old.step \in {"folder", "make folder"},
           NEW n, n \in DOMAIN drive', drive'[n].name = Head(old.path),
           drive'[n].parent = old.folder,
           NEW run, run = [step |-> IF Tail(old.path) = <<>> THEN "create" ELSE "folder",
                           document |-> old.document, folder |-> n,
                           path |-> Tail(old.path), file |-> old.file]
    PROVE  RunOK(run)' /\ run.step # "record"
<1>1. Made(old.document)' /\ old.document.ready
    BY PlacesStay DEF RunOK, Late, Early
<1>2. CASE old.folder = Root /\ old.path = Path(old.document)
    <2>1. PICK first, second : first = "DRY_RUN" /\ second = old.document.id
        OBVIOUS
    <2>2. /\ Head(old.path) = first /\ Tail(old.path) = <<second>>
          /\ Tail(old.path) # <<>>
        <3>1. old.path = <<first, second>>
            BY <1>2, <2>1 DEF Path
        <3> QED  BY ONLY <3>1, TwoParts
    <2>3. IsTop(n)'
        BY <2>1, <2>2 DEF IsTop
    <2> QED  BY <1>1, <2>1, <2>2, <2>3 DEF RunOK, Late, Early
<1>3. CASE IsTop(old.folder) /\ old.path = <<old.document.id>>
    <2>1. Head(old.path) = old.document.id /\ Tail(old.path) = <<>>
        BY <1>3, OnePart
    <2>2. IsTop(old.folder)'
        BY <1>3, PlacesStay
    <2>3. IsHome(n, old.document)'
        BY <2>1, <2>2 DEF IsHome, IsTop
    <2> QED  BY <1>1, <2>1, <2>3 DEF RunOK, Late, Early
<1> QED  BY <1>2, <1>3 DEF RunOK

\* the change of a run that goes one folder down
LEMMA Descended ==
    ASSUME NEW old, RunOK(old), NEW n, NEW path, NEW step,
           NEW run, run = [step |-> step, document |-> old.document, folder |-> n,
                           path |-> path, file |-> old.file]
    PROVE  [[[old EXCEPT !.folder = n] EXCEPT !.path = path] EXCEPT !.step = step] = run
<1>1. old = [step |-> old.step, document |-> old.document, folder |-> old.folder,
             path |-> old.path, file |-> old.file]
    BY DEF RunOK
<1>2. PICK one : one = [old EXCEPT !.folder = n]
    OBVIOUS
<1>3. one = [step |-> old.step, document |-> old.document, folder |-> n,
             path |-> old.path, file |-> old.file]
    BY <1>1, <1>2
<1>4. PICK two : two = [one EXCEPT !.path = path]
    OBVIOUS
<1>5. two = [step |-> old.step, document |-> old.document, folder |-> n,
             path |-> path, file |-> old.file]
    BY <1>3, <1>4
<1>6. [two EXCEPT !.step = step] = run
    BY <1>5
<1> QED  BY <1>2, <1>4, <1>6

LEMMA FindFolderKeeps ==
    ASSUME DriveInv, NEW p \in Scripts, FindFolder(p)
    PROVE  DriveInv'
<1>1. PICK old : old = runs[p]
    OBVIOUS
<1>2. RunOK(old) /\ old.step = "folder"
    BY <1>1 DEF FindFolder, DriveInv, Works
<1>3. UNCHANGED <<versions, drive, publications, lost>>
    BY DEF FindFolder, legalVars
<1>4. Grows
    BY <1>3, EveryStepGrows DEF DriveInv, Longer
<1>5. CASE runs' = [runs EXCEPT ![p].step = "make folder"]
    <2>1. PICK run : run = [old EXCEPT !.step = "make folder"]
        OBVIOUS
    <2>2. runs' = [runs EXCEPT ![p] = run]
        BY <1>1, <1>5, <2>1 DEF DriveInv, Works
    <2>3. run = [step |-> "make folder", document |-> old.document, folder |-> old.folder,
                 path |-> old.path, file |-> old.file]
        BY <1>2, <2>1, Turned
    <2>4. RunOK(run)' /\ run.step # "record"
        <3>1. RunOK(old)'
            BY <1>2, <1>4, WorkStays
        <3> QED  BY <1>2, <2>3, <3>1 DEF RunOK, Late, Early, Made, IsTop, IsHome, Holds, IsFile
    <2> QED  BY <1>1, <1>2, <1>3, <1>4, <2>2, <2>4, PlainStep
<1>6. ASSUME NEW n \in Children("folder", old.folder), drive[n].name = Head(old.path),
             runs' = [runs EXCEPT ![p].folder = n, ![p].path = Tail(old.path),
                          ![p].step = IF Tail(old.path) = <<>> THEN "create" ELSE "folder"]
      PROVE  DriveInv'
    <2>1. PICK run : run = [step |-> IF Tail(old.path) = <<>> THEN "create" ELSE "folder",
                            document |-> old.document, folder |-> n,
                            path |-> Tail(old.path), file |-> old.file]
        OBVIOUS
    <2>2. runs' = [runs EXCEPT ![p] = run]
        <3>1. PICK step : step = IF Tail(old.path) = <<>> THEN "create" ELSE "folder"
            OBVIOUS
        <3>2. PICK path : path = Tail(old.path)
            OBVIOUS
        <3>3. [[[old EXCEPT !.folder = n] EXCEPT !.path = path] EXCEPT !.step = step] = run
            BY <1>2, <2>1, <3>1, <3>2, Descended
        <3>4. runs' = [runs EXCEPT ![p].folder = n, ![p].path = path, ![p].step = step]
            BY <1>6, <3>1, <3>2
        <3>5. runs' = [runs EXCEPT ![p] =
                  [[[old EXCEPT !.folder = n] EXCEPT !.path = path] EXCEPT !.step = step]]
            BY <1>1, <3>4 DEF DriveInv, Works
        <3> QED  BY <3>3, <3>5
    <2>3. n \in DOMAIN drive' /\ drive'[n].name = Head(old.path) /\ drive'[n].parent = old.folder
        BY <1>3, <1>6 DEF Children
    <2>4. RunOK(run)' /\ run.step # "record"
        BY <1>2, <1>4, <2>1, <2>3, DescendOK
    <2> QED  BY <1>1, <1>2, <1>3, <1>4, <2>2, <2>4, PlainStep
<1>7. \/ runs' = [runs EXCEPT ![p].step = "make folder"]
      \/ \E n \in Children("folder", old.folder) :
            /\ drive[n].name = Head(old.path)
            /\ runs' = [runs EXCEPT ![p].folder = n, ![p].path = Tail(old.path),
                            ![p].step = IF Tail(old.path) = <<>> THEN "create" ELSE "folder"]
    BY <1>1, Zenon DEF FindFolder
<1> QED  BY <1>5, <1>6, <1>7

LEMMA MakeFolderKeeps ==
    ASSUME DriveInv, NEW p \in Scripts, MakeFolder(p)
    PROVE  DriveInv'
<1>1. PICK old : old = runs[p]
    OBVIOUS
<1>2. RunOK(old) /\ old.step = "make folder"
    BY <1>1 DEF MakeFolder, DriveInv, Works
<1>3. PICK object : object = Object("folder", old.folder, Head(old.path), None)
    OBVIOUS
<1>4. drive' = Append(drive, object) /\ UNCHANGED <<versions, publications, lost>>
    BY <1>1, <1>3 DEF MakeFolder, legalVars
<1>5. PlainObject(object) /\ object.name = Head(old.path) /\ object.parent = old.folder
    BY <1>3 DEF PlainObject, Object
<1>6. Grows
    BY <1>4, EveryStepGrows DEF DriveInv, Longer
<1>7. PICK n : n = Len(drive')
    OBVIOUS
<1>8. n \in DOMAIN drive' /\ drive'[n] = object
    <2>1. IsList(drive)
        BY DEF DriveInv, Lists
    <2> QED  BY <1>4, <1>7, <2>1, ListGrows
<1>9. PICK run : run = [step |-> IF Tail(old.path) = <<>> THEN "create" ELSE "folder",
                        document |-> old.document, folder |-> n,
                        path |-> Tail(old.path), file |-> old.file]
    OBVIOUS
<1>10. runs' = [runs EXCEPT ![p] = run]
    <2>1. PICK step : step = IF Tail(old.path) = <<>> THEN "create" ELSE "folder"
        OBVIOUS
    <2>2. PICK path : path = Tail(old.path)
        OBVIOUS
    <2>3. [[[old EXCEPT !.folder = n] EXCEPT !.path = path] EXCEPT !.step = step] = run
        BY <1>2, <1>9, <2>1, <2>2, Descended
    <2>4. runs' = [runs EXCEPT ![p].folder = n, ![p].path = path, ![p].step = step]
        BY <1>1, <1>7, <2>1, <2>2 DEF MakeFolder
    <2>5. runs' = [runs EXCEPT ![p] =
              [[[old EXCEPT !.folder = n] EXCEPT !.path = path] EXCEPT !.step = step]]
        BY <1>1, <2>4 DEF DriveInv, Works
    <2> QED  BY <2>3, <2>5
<1>11. RunOK(run)' /\ run.step # "record"
    BY <1>2, <1>5, <1>6, <1>8, <1>9, DescendOK
<1> QED  BY <1>1, <1>2, <1>4, <1>5, <1>6, <1>10, <1>11, PlainStep

----------------------------------------------------------------------------
(* The file, its row, and what is lost between them *)

FileOf(run) == Object("file", run.folder, Filename(run.document), run.document)

LEMMA FileIsHeld ==
    ASSUME DriveInv, Grows, NEW old, RunOK(old), old.step = "create",
           drive' = Append(drive, FileOf(old)), NEW n, n = Len(drive) + 1
    PROVE  ~ PlainObject(FileOf(old)) /\ Holds(n, old.document)' /\ Len(drive') = n
<1>1. PICK object : object = FileOf(old)
    OBVIOUS
<1>2. /\ object.kind = "file" /\ object.name = <<old.document.id, old.document.type>>
      /\ object.parent = old.folder /\ object.content = old.document
    BY <1>1 DEF FileOf, Object, Filename
<1>3. object.name # Probe
    <2>1. \A a, b, c : <<a, b>> # <<c>>
        OBVIOUS
    <2> QED  BY <1>2, <2>1, Zenon DEF Probe
<1>4. IsList(drive)
    BY DEF DriveInv, Lists
<1>5. n \in DOMAIN drive' /\ drive'[n] = object /\ Len(drive') = n
    BY <1>1, <1>4, ListGrows
<1>6. IsHome(old.folder, old.document)'
    BY PlacesStay DEF RunOK
<1>7. Holds(n, old.document)'
    BY <1>2, <1>3, <1>5, <1>6 DEF Holds, IsFile, IsHome, IsTop
<1> QED  BY <1>1, <1>2, <1>3, <1>5, <1>7 DEF PlainObject

\* a file that is made is nobody's yet
LEMMA NewFileIsFree ==
    ASSUME DriveInv
    PROVE  /\ \A m \in Published : publications[m].file # Len(drive) + 1
           /\ \A q \in Scripts : runs[q].step = "record" => runs[q].file # Len(drive) + 1
<1>1. Len(drive) + 1 \notin DOMAIN drive
    BY ListGrows DEF DriveInv, Lists
<1>2. ASSUME NEW m \in Published PROVE publications[m].file \in DOMAIN drive
    BY DEF DriveInv, Works, RowOK, Holds, Published
<1>3. ASSUME NEW q \in Scripts, runs[q].step = "record" PROVE runs[q].file \in DOMAIN drive
    BY <1>3 DEF DriveInv, Works, RunOK, Holds
<1> QED  BY <1>1, <1>2, <1>3

LEMMA CreateFileKeeps ==
    ASSUME DriveInv, NEW p \in Scripts, CreateFile(p)
    PROVE  DriveInv'
<1>1. PICK old : old = runs[p]
    OBVIOUS
<1>2. RunOK(old) /\ old.step = "create"
    BY <1>1 DEF CreateFile, DriveInv, Works
<1>3. drive' = Append(drive, FileOf(old)) /\ UNCHANGED <<versions, publications, lost>>
    BY <1>1 DEF CreateFile, legalVars, FileOf
<1>4. Grows
    BY <1>3, EveryStepGrows DEF DriveInv, Longer
<1>5. PICK n : n = Len(drive) + 1
    OBVIOUS
<1>6. ~ PlainObject(FileOf(old)) /\ Holds(n, old.document)' /\ Len(drive') = n
    BY <1>2, <1>3, <1>4, <1>5, FileIsHeld
<1>7. PICK run : run = [step |-> "record", document |-> old.document, folder |-> old.folder,
                        path |-> old.path, file |-> n]
    OBVIOUS
<1>8. runs' = [runs EXCEPT ![p] = run]
    <2>1. PICK turned : turned = [old EXCEPT !.step = "record"]
        OBVIOUS
    <2>2. turned = [step |-> "record", document |-> old.document, folder |-> old.folder,
                    path |-> old.path, file |-> old.file]
        BY <1>2, <2>1, Turned
    <2>3. [turned EXCEPT !.file = n] = run
        BY <1>7, <2>2
    <2>4. runs' = [runs EXCEPT ![p] = [turned EXCEPT !.file = n]]
        BY <1>1, <1>6, <2>1 DEF CreateFile, DriveInv, Works
    <2> QED  BY <2>3, <2>4
<1>9. RunOK(run)' /\ run.step = "record"
    <2>1. Made(old.document)' /\ old.document.ready
        BY <1>2, <1>4, PlacesStay DEF RunOK, Late, Early
    <2> QED  BY <1>6, <1>7, <2>1 DEF RunOK, Late, Early
<1>10. Works'
    BY <1>3, <1>4, <1>8, <1>9, WorksStep DEF DriveInv
<1>11. Published' = Published
    BY <1>3 DEF Published
<1>12. DocumentFiles' = DocumentFiles \cup {n} /\ n \notin DocumentFiles
    BY <1>3, <1>5, <1>6, FilesStep DEF DriveInv, Lists
<1>13. /\ Recording' = Recording \cup {p} /\ p \notin Recording
       /\ runs'[p] = run /\ \A q \in Scripts \ {p} : runs'[q] = runs[q]
    BY <1>1, <1>2, <1>8, <1>9, RecordingStep DEF DriveInv, Recording
<1>14. OwnFiles'
    <2>1. /\ \A m \in Published : publications[m].file # n
          /\ \A q \in Scripts : runs[q].step = "record" => runs[q].file # n
        BY <1>5, NewFileIsFree
    <2> QED  BY <1>3, <1>7, <1>11, <1>13, <2>1 DEF DriveInv, OwnFiles
<1>15. Kept'
    <2>1. n \notin lost
        BY <1>12 DEF DriveInv, Kept
    <2>2. \A q \in Recording : q # p /\ runs'[q] = runs[q]
        BY <1>13 DEF Recording
    <2>3. runs'[p].file = n
        BY <1>7, <1>13
    <2> QED  BY <1>3, <1>11, <1>12, <1>13, <2>1, <2>2, <2>3 DEF DriveInv, Kept
<1> QED  BY <1>4, <1>10, <1>14, <1>15 DEF DriveInv, Grows

LEMMA RecordKeeps ==
    ASSUME DriveInv, NEW p \in Scripts, Record(p)
    PROVE  DriveInv'
<1>1. PICK old : old = runs[p]
    OBVIOUS
<1>2. RunOK(old) /\ old.step = "record"
    BY <1>1 DEF Record, DriveInv, Works
<1>3. PICK row : row = Row(old.document, "PUBLISHED", old.file)
    OBVIOUS
<1>4. /\ publications' = Append(publications, row) /\ UNCHANGED <<versions, drive, lost>>
      /\ runs' = [runs EXCEPT ![p] = Idle]
    BY <1>1, <1>3 DEF Record, legalVars
<1>5. Grows
    BY <1>4, EveryStepGrows DEF DriveInv, Longer
<1>6. /\ ~ PlainRow(row) /\ row.file = old.file /\ row.document = old.document
      /\ row.status = "PUBLISHED"
    BY <1>3 DEF PlainRow, Row
<1>7. RowOK(row)'
    <2>1. Holds(old.file, old.document) /\ Made(old.document) /\ old.document.ready
        BY <1>2 DEF RunOK, Late, Early
    <2>2. RowOK(row)
        BY <1>6, <2>1 DEF RowOK
    <2> QED  BY <1>5, <2>2, WorkStays
<1>8. Works'
    BY <1>4, <1>5, <1>7, IdleOK, WorksStep DEF DriveInv
<1>9. PICK n : n = Len(publications) + 1
    OBVIOUS
<1>10. /\ Published' = Published \cup {n} /\ n \notin Published
       /\ \A m \in Published : publications'[m] = publications[m]
       /\ publications'[n] = row
    BY <1>4, <1>6, <1>9, PublishedStep DEF DriveInv, Lists
<1>11. DocumentFiles' = DocumentFiles
    BY <1>4 DEF DocumentFiles
<1>12. /\ Recording' = Recording \ {p} /\ p \in Recording
       /\ runs'[p] = Idle /\ \A q \in Scripts \ {p} : runs'[q] = runs[q]
    BY <1>1, <1>2, <1>4, IdleOK, RecordingStep DEF DriveInv, Recording
<1>13. OwnFiles'
    <2>1. /\ \A m \in Published : publications[m].file # old.file
          /\ \A q \in Scripts \ {p} : runs[q].step = "record" => runs[q].file # old.file
        BY <1>1, <1>2 DEF DriveInv, OwnFiles
    <2> QED  BY <1>6, <1>10, <1>12, <2>1, IdleOK DEF DriveInv, OwnFiles
<1>14. Kept'
    <2>1. runs[p].file = old.file /\ publications'[n].file = old.file
        BY <1>1, <1>6, <1>10
    <2>2. \A q \in Recording' : q \in Recording /\ runs'[q] = runs[q]
        BY <1>12 DEF Recording
    <2>3. lost' = lost /\ old.file \notin lost
        BY <1>1, <1>2, <1>4, <1>12 DEF DriveInv, Kept
    <2>4. ASSUME NEW f \in DocumentFiles' \ lost'
          PROVE  \/ \E m \in Published' : publications'[m].file = f
                 \/ \E q \in Recording' : runs'[q].file = f
        <3>1. f \in DocumentFiles \ lost
            BY <1>11, <2>3, <2>4
        <3>2. CASE \E m \in Published : publications[m].file = f
            BY <1>10, <3>2
        <3>3. CASE \E q \in Recording : runs[q].file = f
            <4>1. PICK q \in Recording : runs[q].file = f
                BY <3>3
            <4>2. CASE q = p
                BY <1>10, <2>1, <4>1, <4>2
            <4>3. CASE q # p
                <5>1. q \in Recording' /\ runs'[q] = runs[q]
                    BY <1>12, <4>1, <4>3 DEF Recording
                <5> QED  BY <4>1, <5>1
            <4> QED  BY <4>2, <4>3
        <3> QED  BY <3>1, <3>2, <3>3 DEF DriveInv, Kept
    <2>5. \A m \in Published' : publications'[m].file \notin lost'
        BY <1>10, <2>1, <2>3 DEF DriveInv, Kept
    <2>6. \A q \in Recording' : runs'[q].file \notin lost'
        BY <2>2, <2>3 DEF DriveInv, Kept
    <2>7. lost' \subseteq DocumentFiles'
        BY <1>11, <2>3 DEF DriveInv, Kept
    <2> QED  BY <2>4, <2>5, <2>6, <2>7 DEF Kept
<1> QED  BY <1>5, <1>8, <1>13, <1>14 DEF DriveInv, Grows

(* A call that raises may have made what it was called for: a probe and a  *)
(* folder are found again, the file is lost.                               *)
LEMMA ProviderRaisesKeeps ==
    ASSUME DriveInv, NEW p \in Scripts, ProviderRaises(p)
    PROVE  DriveInv'
<1>1. PICK old : old = runs[p]
    OBVIOUS
<1>2. RunOK(old) /\ old.step # "record"
    BY <1>1 DEF ProviderRaises, ProviderSteps, DriveInv, Works
<1>3. PICK row : row = Row(old.document, "FAILED", 0)
    OBVIOUS
<1>4. /\ publications' = publications \/ publications' = Append(publications, row)
      /\ runs' = [runs EXCEPT ![p] = Idle] /\ UNCHANGED versions
      /\ \/ UNCHANGED <<drive, lost>>
         \/ /\ old.step \in {"create probe", "make folder"} /\ lost' = lost
            /\ drive' = Append(drive, MadeBy(old))
         \/ /\ old.step = "create" /\ drive' = Append(drive, MadeBy(old))
            /\ lost' = lost \cup {Len(drive')}
    BY <1>1, <1>3 DEF ProviderRaises
<1>5. PlainRow(row)
    BY <1>3 DEF PlainRow, Row
<1>6. Grows
    BY <1>4, EveryStepGrows DEF DriveInv, Longer
<1>7. CASE UNCHANGED <<drive, lost>>
    BY <1>1, <1>2, <1>4, <1>5, <1>6, <1>7, IdleOK, PlainStep
<1>8. CASE /\ old.step \in {"create probe", "make folder"} /\ lost' = lost
           /\ drive' = Append(drive, MadeBy(old))
    <2>1. PICK object : object = MadeBy(old)
        OBVIOUS
    <2>2. PlainObject(object)
        <3>1. CASE old.step = "create probe"
            BY <2>1, <3>1 DEF MadeBy, Object, PlainObject
        <3>2. CASE old.step = "make folder"
            BY <2>1, <3>2 DEF MadeBy, Object, PlainObject
        <3> QED  BY <1>8, <3>1, <3>2
    <2> QED  BY <1>1, <1>2, <1>4, <1>5, <1>6, <1>8, <2>1, <2>2, IdleOK, PlainStep
<1>9. CASE /\ old.step = "create" /\ drive' = Append(drive, MadeBy(old))
           /\ lost' = lost \cup {Len(drive')}
    <2>1. PICK n : n = Len(drive) + 1
        OBVIOUS
    <2>2. drive' = Append(drive, FileOf(old))
        BY <1>9 DEF MadeBy, FileOf
    <2>3. ~ PlainObject(FileOf(old)) /\ Len(drive') = n
        BY <1>2, <1>6, <1>9, <2>1, <2>2, FileIsHeld
    <2>4. RowOK(row)'
        BY <1>5 DEF RowOK, PlainRow
    <2>5. Works'
        BY <1>4, <1>6, <2>4, IdleOK, WorksStep DEF DriveInv
    <2>6. Published' = Published /\ \A m \in Published : publications'[m] = publications[m]
        <3>1. CASE publications' = publications
            BY <3>1 DEF Published
        <3>2. CASE publications' # publications
            BY <1>4, <1>5, <3>2, PublishedStep DEF DriveInv, Lists
        <3> QED  BY <3>1, <3>2
    <2>7. DocumentFiles' = DocumentFiles \cup {n} /\ n \notin DocumentFiles
        BY <2>1, <2>2, <2>3, FilesStep DEF DriveInv, Lists
    <2>8. /\ Recording' = Recording
          /\ \A q \in Scripts : runs'[q].step = "record" => runs'[q] = runs[q]
        BY <1>1, <1>2, <1>4, IdleOK, RecordingStep DEF DriveInv, Recording
    <2>9. OwnFiles'
        BY <2>6, <2>8 DEF DriveInv, OwnFiles
    <2>10. Kept'
        <3>1. /\ \A m \in Published : publications[m].file # n
              /\ \A q \in Scripts : runs[q].step = "record" => runs[q].file # n
            BY <2>1, NewFileIsFree
        <3>2. lost' = lost \cup {n}
            BY <1>9, <2>3
        <3> QED  BY <2>6, <2>7, <2>8, <3>1, <3>2 DEF DriveInv, Kept, Recording
    <2> QED  BY <1>6, <2>5, <2>9, <2>10 DEF DriveInv, Grows
<1> QED  BY <1>4, <1>7, <1>8, <1>9

(* A file whose run ends before its row is written is lost too.            *)
LEMMA CrashKeeps ==
    ASSUME DriveInv, NEW p \in Scripts, Crash(p)
    PROVE  DriveInv'
<1>1. PICK old : old = runs[p]
    OBVIOUS
<1>2. /\ RunOK(old) /\ runs' = [runs EXCEPT ![p] = Idle]
      /\ UNCHANGED <<versions, drive, publications>>
      /\ lost' = IF old.step = "record" THEN lost \cup {old.file} ELSE lost
    BY <1>1 DEF Crash, DriveInv, Works
<1>3. Grows
    BY <1>2, EveryStepGrows DEF DriveInv, Longer
<1>4. CASE old.step # "record"
    BY <1>1, <1>2, <1>3, <1>4, IdleOK, PlainStep
<1>5. CASE old.step = "record"
    <2>1. Works'
        BY <1>2, <1>3, IdleOK, WorksStep DEF DriveInv
    <2>2. Published' = Published /\ DocumentFiles' = DocumentFiles
        BY <1>2 DEF Published, DocumentFiles
    <2>3. /\ Recording' = Recording \ {p} /\ p \in Recording
          /\ \A q \in Scripts : runs'[q].step = "record" => runs'[q] = runs[q]
        BY <1>1, <1>2, <1>5, IdleOK, RecordingStep DEF DriveInv, Recording
    <2>4. OwnFiles'
        BY <1>2, <2>2, <2>3 DEF DriveInv, OwnFiles
    <2>5. Kept'
        <3>1. old.file \in DocumentFiles
            BY <1>2, <1>5 DEF RunOK, Holds, IsFile, DocumentFiles
        <3>2. /\ \A n \in Published : publications[n].file # old.file
              /\ \A q \in Recording \ {p} : runs[q].file # old.file
            BY <1>1, <1>5 DEF DriveInv, OwnFiles, Recording
        <3>3. \A q \in Recording' : q \in Recording \ {p} /\ runs'[q] = runs[q]
            BY <2>3 DEF Recording
        <3>4. runs[p].file = old.file /\ lost' = lost \cup {old.file}
            BY <1>1, <1>2, <1>5
        <3> QED  BY <1>2, <2>2, <2>3, <3>1, <3>2, <3>3, <3>4 DEF DriveInv, Kept
    <2> QED  BY <1>3, <2>1, <2>4, <2>5 DEF DriveInv, Grows
<1> QED  BY <1>4, <1>5

(* The sheet and its cache go on beside the scripts.                        *)
LEMMA SheetStepKeeps ==
    ASSUME DriveInv, UNCHANGED driveVars, versions' = versions \/ SheetChanges
    PROVE  DriveInv'
<1>1. UNCHANGED <<drive, publications, runs, lost>>
    BY DEF driveVars
<1>2. Grows
    <2>1. Longer(versions, versions')
        BY DEF SheetChanges, Longer
    <2> QED  BY <1>1, <2>1, EveryStepGrows DEF DriveInv, Longer
<1>3. Works'
    <2>1. ASSUME NEW q \in Scripts, NEW new, new = runs'[q] PROVE RunOK(new)'
        <3>1. RunOK(new)
            BY <1>1, <2>1 DEF DriveInv, Works
        <3> QED  BY <1>2, <3>1, WorkStays
    <2>2. ASSUME NEW n \in DOMAIN publications', NEW new, new = publications'[n] PROVE RowOK(new)'
        <3>1. RowOK(new)
            BY <1>1, <2>2 DEF DriveInv, Works
        <3> QED  BY <1>2, <3>1, WorkStays
    <2>3. DOMAIN runs' = Scripts /\ runs' = [q \in Scripts |-> runs'[q]]
        BY <1>1 DEF DriveInv, Works
    <2> QED  BY <2>1, <2>2, <2>3 DEF Works
<1>4. OwnFiles'
    BY <1>1 DEF DriveInv, OwnFiles, Published
<1>5. Kept'
    BY <1>1 DEF DriveInv, Kept, Published, DocumentFiles, Recording
<1> QED  BY <1>2, <1>3, <1>4, <1>5 DEF DriveInv, Grows

LEMMA DriveInit == Init => DriveInv
<1> SUFFICES ASSUME Init PROVE DriveInv
    OBVIOUS
<1>1. Lists
    <2>1. PICK rows \in Sheets : versions = <<rows>>
        BY DEF Init, LegalInit
    <2>2. IsList(versions)
        BY <2>1 DEF IsList
    <2> QED  BY <2>2, EmptyList DEF Init, Lists
<1>2. DOMAIN publications = {} /\ DOMAIN drive = {}
    BY EmptyList DEF Init
<1>3. DOMAIN runs = Scripts /\ \A p \in Scripts : runs[p] = Idle
    BY DEF Init
<1>4. RunOK(Idle) /\ Idle.step = "idle"
    <2>1. Idle = [step |-> "idle", document |-> None, folder |-> Root, path |-> <<>>, file |-> 0]
        BY DEF Idle
    <2> QED  BY <2>1 DEF RunOK, Late, Early
<1>5. Works
    BY <1>2, <1>3, <1>4 DEF Works, Init
<1>6. Published = {} /\ DocumentFiles = {} /\ Recording = {}
    BY <1>2, <1>3, <1>4 DEF Published, DocumentFiles, Recording
<1>7. OwnFiles
    BY <1>3, <1>4, <1>6 DEF OwnFiles
<1>8. Kept
    BY <1>6 DEF Kept, Init
<1> QED  BY <1>1, <1>5, <1>7, <1>8 DEF DriveInv

LEMMA DriveKeeps == CacheInv /\ DriveInv /\ [Next]_vars => DriveInv'
<1> SUFFICES ASSUME CacheInv, DriveInv, [Next]_vars PROVE DriveInv'
    OBVIOUS
<1>1. CASE LegalNext /\ UNCHANGED driveVars
    <2>1. versions' = versions \/ SheetChanges
        BY <1>1 DEF LegalNext, Expire, Tick, Hit, Miss, Fetch, Store, LoaderRaises
    <2> QED  BY <1>1, <2>1, SheetStepKeeps
<1>2. ASSUME NEW p \in Scripts, ScriptNext(p) PROVE DriveInv'
    BY <1>2, StartKeeps, ListProbeKeeps, CreateProbeKeeps, ReadLatestKeeps, ClaimKeeps,
       FindFolderKeeps, MakeFolderKeeps, CreateFileKeeps, RecordKeeps, ProviderRaisesKeeps,
       CrashKeeps DEF ScriptNext, CacheInv
<1>3. CASE UNCHANGED vars
    BY <1>3, SheetStepKeeps DEF vars, driveVars
<1> QED  BY <1>1, <1>2, <1>3 DEF Next

(* Every row that says PUBLISHED names a file of its own, with its         *)
(* document, in the folder of its restaurant, and the document files on    *)
(* Drive are exactly those the rows name, those about to be recorded and   *)
(* those a failure left behind: for any scripts, crashes and failed calls  *)
(* (DocumentPublishingService).                                            *)
THEOREM PublishedFilesAreHeld == Spec => []PublishedRowsHoldTheirFile
<1>1. DriveInv => PublishedRowsHoldTheirFile
    <2> SUFFICES ASSUME DriveInv PROVE PublishedRowsHoldTheirFile
        OBVIOUS
    <2>1. ASSUME NEW n \in Published
          PROVE  LET row == publications[n] IN
                 /\ row.file \in DocumentFiles
                 /\ drive[row.file].content = row.document
                 /\ PathOf(drive[row.file].parent) = Path(row.document)
                 /\ \A m \in Published \ {n} : publications[m].file # row.file
        <3>1. PICK row : row = publications[n]
            OBVIOUS
        <3>2. Holds(row.file, row.document)
            BY <3>1 DEF Published, DriveInv, Works, RowOK
        <3>3. row.file \in DocumentFiles /\ drive[row.file].content = row.document
            BY <3>2 DEF Holds, IsFile, DocumentFiles
        <3>4. PICK home : home = drive[row.file].parent
            OBVIOUS
        <3>5. PICK top : top = drive[home].parent
            OBVIOUS
        <3>6. /\ home \in DOMAIN drive /\ drive[home].name = row.document.id
              /\ top \in DOMAIN drive /\ drive[top].name = "DRY_RUN"
            BY <3>2, <3>4, <3>5 DEF Holds, IsHome, IsTop
        <3>7. home # Root /\ top # Root
            <4>1. \A m \in DOMAIN drive : m # 0
                BY DEF DriveInv, Lists, IsList
            <4> QED  BY <3>6, <4>1 DEF Root
        <3>8. PathOf(home) = <<"DRY_RUN", row.document.id>>
            BY <3>5, <3>6, <3>7 DEF PathOf
        <3> QED  BY <3>1, <3>3, <3>4, <3>8 DEF Path, DriveInv, OwnFiles
    <2>2. PICK named : named = {publications[n].file : n \in Published}
        OBVIOUS
    <2>3. PICK unrecorded : unrecorded = {runs[p].file : p \in Recording}
        OBVIOUS
    <2>4. ASSUME NEW p \in Recording PROVE runs[p].file \in DocumentFiles
        <3>1. RunOK(runs[p]) /\ runs[p].step = "record"
            BY DEF DriveInv, Works, Recording
        <3>2. Holds(runs[p].file, runs[p].document)
            BY <3>1 DEF RunOK
        <3> QED  BY <3>2 DEF Holds, IsFile, DocumentFiles
    <2>5. named \subseteq DocumentFiles /\ unrecorded \subseteq DocumentFiles
        BY <2>1, <2>2, <2>3, <2>4
    <2>6. DocumentFiles = named \cup unrecorded \cup lost
        BY <2>2, <2>3, <2>5 DEF DriveInv, Kept
    <2>7. (named \cup unrecorded) \cap lost = {}
        BY <2>2, <2>3 DEF DriveInv, Kept
    <2>8. named \cap unrecorded = {}
        BY <2>2, <2>3 DEF DriveInv, OwnFiles, Recording
    <2> QED  BY <2>1, <2>2, <2>3, <2>6, <2>7, <2>8 DEF PublishedRowsHoldTheirFile, Recording
<1>2. CacheInv /\ DriveInv /\ [Next]_vars => (CacheInv /\ DriveInv)'
    BY CacheKeeps, DriveKeeps
<1>3. Init => CacheInv /\ DriveInv
    BY CacheInit, DriveInit DEF Init
<1> QED  BY <1>1, <1>2, <1>3, PTL DEF Spec

----------------------------------------------------------------------------
(* Whom a published document names *)

LEMMA OneRow ==
    ASSUME NEW rows \in Sheets, NEW id, Cardinality(RowsOf(rows, id)) = 1
    PROVE  \E n \in DOMAIN rows : RowsOf(rows, id) = {n}
<1>1. IsFiniteSet(DOMAIN rows)
    <2>1. rows \in Seq(Range(rows))
        BY LegalMasterAssumption
    <2>2. DOMAIN rows = 1 .. Len(rows) /\ Len(rows) \in Nat
        BY <2>1
    <2> QED  BY <2>2, FS_Interval
<1>2. IsFiniteSet(RowsOf(rows, id)) /\ RowsOf(rows, id) \subseteq DOMAIN rows
    BY <1>1, FS_Subset DEF RowsOf
<1>3. PICK n : RowsOf(rows, id) = {n}
    BY <1>2, FS_Singleton
<1> QED  BY <1>2, <1>3

LEMMA UsableRowIsUndisputed ==
    ASSUME NEW rows \in Sheets, NEW id, UsableRow(rows, id) # None
    PROVE  \E n \in DOMAIN rows : /\ RowsOf(rows, id) = {n} /\ UsableRow(rows, id) = rows[n]
                                  /\ rows[n].review # "DO_NOT_USE"
<1>1. Cardinality(RowsOf(rows, id)) = 1
    BY DEF UsableRow
<1>2. PICK n \in DOMAIN rows : RowsOf(rows, id) = {n}
    BY <1>1, OneRow
<1>3. (CHOOSE m \in RowsOf(rows, id) : TRUE) = n
    BY <1>2
<1> QED  BY <1>2, <1>3 DEF UsableRow

LEMMA AppliedName ==
    ASSUME NEW id \in DOMAIN Registry, NEW row, row # None,
           NEW applied, applied = ApplyRecord(Registry[id], row)
    PROVE  applied.entity = row.entity /\ applied.name = Registry[id].name
<1>1. PICK restaurant : restaurant = Registry[id]
    OBVIOUS
<1>2. {"name", "entity", "address", "rib", "email", "review"} \subseteq DOMAIN restaurant
    BY <1>1, LegalMasterAssumption
<1>3. applied = [restaurant EXCEPT !.entity = row.entity, !.rib = row.rib,
                            !.address = Either(row.address, @),
                            !.email = IF row.email = "invalid" THEN None ELSE row.email,
                            !.review = row.review]
    BY <1>1, Zenon DEF ApplyRecord
<1> QED  BY <1>1, <1>2, <1>3

(* The name on a candidate is the registry's, or that of the only row of   *)
(* its restaurant.                                                         *)
LEMMA CandidateName ==
    ASSUME NEW rows \in Sheets, NEW id \in DOMAIN Settlements, NEW type,
           NEW document, document = Candidate(id, type, rows), document.ready
    PROVE  /\ document.partner # None /\ document.id = id
           /\ \/ document.partner = PartnerName(Registry[id])
              \/ /\ RowsOf(rows, id) # {}
                 /\ \A k \in RowsOf(rows, id) : /\ rows[k].entity \in {document.partner, None}
                                                /\ rows[k].review # "DO_NOT_USE"
<1>1. PICK restaurant : restaurant = Enriched(rows)[id]
    OBVIOUS
<1>2. PICK settlement : settlement = Settlements[id]
    OBVIOUS
<1>3. /\ document.id = id /\ document.partner = PartnerName(restaurant)
      /\ document.ready => Readiness(restaurant, settlement, type) = "READY"
    BY <1>1, <1>2 DEF Candidate
<1>4. LegalStatus(restaurant, type) # "BLOCKED"
    BY <1>3 DEF Readiness
<1>5. document.partner # None
    BY <1>3, <1>4 DEF LegalStatus
<1>6. id \in DOMAIN Registry
    BY DocumentsAssumption
<1>7. CASE restaurant = Registry[id]
    BY <1>3, <1>5, <1>7
<1>8. CASE restaurant # Registry[id]
    <2>1. PICK row : row = UsableRow(rows, id)
        OBVIOUS
    <2>2. restaurant = ApplyRecord(Registry[id], row) /\ row # None
        BY <1>1, <1>6, <1>8, <2>1 DEF Enriched, ApplyRecord
    <2>3. PICK n \in DOMAIN rows :
              RowsOf(rows, id) = {n} /\ row = rows[n] /\ rows[n].review # "DO_NOT_USE"
        BY <2>1, <2>2, UsableRowIsUndisputed
    <2>4. restaurant.entity = row.entity
        BY <1>6, <2>2, AppliedName
    <2>5. row.entity # None => document.partner = row.entity
        BY <1>3, <2>4 DEF PartnerName, Either
    <2> QED  BY <1>3, <1>5, <2>3, <2>5
<1> QED  BY <1>7, <1>8

(* A published document names its partner as the registry does, or as the  *)
(* only row of its restaurant did in one content of the sheet: for any     *)
(* registry, sheet and scripts (PartnerLegalRegistryEnricher,              *)
(* Phase8DocumentEngine).                                                  *)
THEOREM PublishedPartnersAreUndisputed == Spec => []PublishedNamesAreUndisputed
<1>1. CacheInv /\ DriveInv => PublishedNamesAreUndisputed
    <2> SUFFICES ASSUME CacheInv, DriveInv, NEW n \in Published
                 PROVE  LET document == publications[n].document
                            restaurant == Registry[document.id]
                        IN  /\ document.partner # None
                            /\ \/ document.partner = PartnerName(restaurant)
                               \/ \E v \in DOMAIN versions :
                                    /\ RowsOf(versions[v], document.id) # {}
                                    /\ \A k \in RowsOf(versions[v], document.id) :
                                        /\ versions[v][k].entity \in {document.partner, None}
                                        /\ versions[v][k].review # "DO_NOT_USE"
        BY DEF PublishedNamesAreUndisputed
    <2>1. PICK document : document = publications[n].document
        OBVIOUS
    <2>2. Made(document) /\ document.ready
        BY <2>1 DEF Published, DriveInv, Works, RowOK
    <2>3. PICK v \in DOMAIN versions, id \in DOMAIN Settlements, type \in Kinds :
              document = Candidate(id, type, versions[v])
        BY <2>2 DEF Made
    <2>4. versions[v] \in Sheets
        BY DEF CacheInv, Sheet
    <2> QED  BY <2>1, <2>2, <2>3, <2>4, CandidateName
<1>2. CacheInv /\ DriveInv /\ [Next]_vars => (CacheInv /\ DriveInv)'
    BY CacheKeeps, DriveKeeps
<1>3. Init => CacheInv /\ DriveInv
    BY CacheInit, DriveInit DEF Init
<1> QED  BY <1>1, <1>2, <1>3, PTL DEF Spec

----------------------------------------------------------------------------
(* What the figures of a published document come to *)

\* A rounded figure is at most half a centime from the figure.
LEMMA CentimesAreNear ==
    ASSUME NEW x \in Int
    PROVE  /\ Centimes(x) \in Int
           /\ 2 * x - Unit <= 2 * (Unit * Centimes(x))
           /\ 2 * (Unit * Centimes(x)) <= 2 * x + Unit
<1>1. PICK u \in Nat \ {0} : u = Unit
    BY DocumentsAssumption
<1>2. PICK q \in Int : q = x \div u
    BY <1>1
<1>3. PICK r \in 0 .. u - 1 : r = x % u
    BY <1>1
<1>4. x = u * q + r
    BY <1>1, <1>2, <1>3
<1>5. \/ Centimes(x) = q + 1 /\ (2 * r > u \/ 2 * r = u)
      \/ Centimes(x) = q /\ ~ (2 * r > u)
    <2>1. CASE 2 * r > u
        BY <1>1, <1>2, <1>3, <2>1 DEF Centimes
    <2>2. CASE ~ (2 * r > u) /\ 2 * r = u
        BY <1>1, <1>2, <1>3, <2>2 DEF Centimes
    <2>3. CASE ~ (2 * r > u) /\ 2 * r # u
        BY <1>1, <1>2, <1>3, <2>3 DEF Centimes
    <2> QED  BY <2>1, <2>2, <2>3
<1>6. PICK uq \in Int : uq = u * q
    OBVIOUS
<1>7. CASE Centimes(x) = q + 1 /\ (2 * r > u \/ 2 * r = u)
    <2>1. u * Centimes(x) = uq + u /\ 2 * r >= u
        BY <1>6, <1>7
    <2> QED  BY <1>1, <1>4, <1>6, <1>7, <2>1
<1>8. CASE Centimes(x) = q /\ ~ (2 * r > u)
    <2>1. u * Centimes(x) = uq /\ 2 * r <= u
        BY <1>6, <1>8
    <2> QED  BY <1>1, <1>4, <1>6, <1>8, <2>1
<1> QED  BY <1>5, <1>7, <1>8

\* A sum of two figures and its rounded parts differ by a centime at most.
LEMMA SumsAreNear ==
    ASSUME NEW x \in Int, NEW y \in Int
    PROVE  Centimes(x) + Centimes(y) - Centimes(x + y) \in -1 .. 1
<1>1. PICK u \in Nat \ {0} : u = Unit
    BY DocumentsAssumption
<1>2. PICK a \in Int, b \in Int, c \in Int :
          a = Centimes(x) /\ b = Centimes(y) /\ c = Centimes(x + y)
    <2>1. x + y \in Int
        OBVIOUS
    <2>2. Centimes(x) \in Int /\ Centimes(y) \in Int /\ Centimes(x + y) \in Int
        BY <2>1, CentimesAreNear
    <2> QED  BY <2>2
<1>3. PICK ua \in Int, ub \in Int, uc \in Int : ua = u * a /\ ub = u * b /\ uc = u * c
    OBVIOUS
<1>4. /\ 2 * x - u <= 2 * ua /\ 2 * ua <= 2 * x + u
      /\ 2 * y - u <= 2 * ub /\ 2 * ub <= 2 * y + u
      /\ 2 * (x + y) - u <= 2 * uc /\ 2 * uc <= 2 * (x + y) + u
    BY <1>1, <1>2, <1>3, CentimesAreNear
<1>5. PICK d \in Int : d = a + b - c
    OBVIOUS
<1>6. u * d = ua + ub - uc
    BY <1>3, <1>5
<1>7. PICK ud \in Int : ud = u * d
    OBVIOUS
<1>8. 2 * ud <= 3 * u /\ 2 * ud >= - (3 * u)
    BY <1>4, <1>6, <1>7
<1>9. d <= 1
    <2> SUFFICES ASSUME d >= 2 PROVE FALSE
        OBVIOUS
    <2>1. ud >= 2 * u
        <3>1. u * (d - 2) >= 0
            OBVIOUS
        <3>2. u * (d - 2) = ud - 2 * u
            BY <1>7
        <3> QED  BY <3>1, <3>2
    <2> QED  BY <1>8, <2>1
<1>10. d >= -1
    <2> SUFFICES ASSUME d <= -2 PROVE FALSE
        OBVIOUS
    <2>1. ud <= - (2 * u)
        <3>1. u * (- d - 2) >= 0
            OBVIOUS
        <3>2. u * (- d - 2) = - ud - 2 * u
            BY <1>7
        <3> QED  BY <3>1, <3>2
    <2> QED  BY <1>8, <2>1
<1>11. d \in -1 .. 1
    BY <1>9, <1>10
<1> QED  BY <1>2, <1>5, <1>11

LEMMA CandidateFigures ==
    ASSUME NEW rows, NEW id \in DOMAIN Settlements, NEW type,
           NEW document, document = Candidate(id, type, rows), document.ready
    PROVE  /\ document.figures.commission + document.figures.tva - document.figures.invoice
                 \in -1 .. 1
           /\ document.figures.net + document.figures.invoice - document.figures.sales
                 \in -1 .. 1
<1>1. PICK figures : figures = Settlements[id].figures
    OBVIOUS
<1>2. /\ document.figures = IF figures = None THEN None ELSE Presented(figures)
      /\ figures # None /\ Reconciles(figures)
    BY <1>1 DEF Candidate
<1>3. figures \in Figures
    BY <1>1, <1>2, DocumentsAssumption
<1>4. /\ figures.invoice = figures.commission + figures.tva
      /\ figures.sales = figures.net + figures.invoice
      /\ figures.commission \in Int /\ figures.tva \in Int
      /\ figures.net \in Int /\ figures.invoice \in Int
    BY <1>2, <1>3 DEF Reconciles, Figures
<1>5. /\ document.figures.commission = Centimes(figures.commission)
      /\ document.figures.tva = Centimes(figures.tva)
      /\ document.figures.invoice = Centimes(figures.commission + figures.tva)
      /\ document.figures.invoice = Centimes(figures.invoice)
      /\ document.figures.net = Centimes(figures.net)
      /\ document.figures.sales = Centimes(figures.net + figures.invoice)
    BY <1>2, <1>4 DEF Presented
<1>6. /\ Centimes(figures.commission) + Centimes(figures.tva)
            - Centimes(figures.commission + figures.tva) \in -1 .. 1
      /\ Centimes(figures.net) + Centimes(figures.invoice)
            - Centimes(figures.net + figures.invoice) \in -1 .. 1
    BY <1>4, SumsAreNear
<1> QED  BY <1>5, <1>6

(* The figures of a published document, each rounded half-even on its own, *)
(* add up to within a centime: for any settlements and any fraction of a   *)
(* centime they are kept in (Phase8DocumentEngine._financial_content).     *)
THEOREM PublishedFiguresAreNear == Spec => []PublishedFiguresAddUp
<1>1. DriveInv => PublishedFiguresAddUp
    <2> SUFFICES ASSUME DriveInv, NEW n \in Published
                 PROVE  LET figures == publications[n].document.figures
                        IN  /\ figures.commission + figures.tva - figures.invoice \in -1 .. 1
                            /\ figures.net + figures.invoice - figures.sales \in -1 .. 1
        BY DEF PublishedFiguresAddUp
    <2>1. PICK document : document = publications[n].document
        OBVIOUS
    <2>2. Made(document) /\ document.ready
        BY <2>1 DEF Published, DriveInv, Works, RowOK
    <2>3. PICK v \in DOMAIN versions, id \in DOMAIN Settlements, type \in Kinds :
              document = Candidate(id, type, versions[v])
        BY <2>2 DEF Made
    <2> QED  BY <2>1, <2>2, <2>3, CandidateFigures
<1>2. CacheInv /\ DriveInv /\ [Next]_vars => (CacheInv /\ DriveInv)'
    BY CacheKeeps, DriveKeeps
<1>3. Init => CacheInv /\ DriveInv
    BY CacheInit, DriveInit DEF Init
<1> QED  BY <1>1, <1>2, <1>3, PTL DEF Spec

----------------------------------------------------------------------------
(* One publication of a document *)

LEMMA LatestStep ==
    ASSUME IsList(publications), NEW row, publications' = Append(publications, row),
           NEW document, HasLast(document)
    PROVE  /\ HasLast(document)'
           /\ row.document = document => Latest(document)' = row.status
           /\ row.document # document => Latest(document)' = Latest(document)
<1>1. PICK n : n = Len(publications) + 1
    OBVIOUS
<1>2. /\ DOMAIN publications' = DOMAIN publications \cup {n}
      /\ n \in Nat /\ publications'[n] = row
      /\ \A m \in DOMAIN publications : m \in Nat /\ m < n /\ publications'[m] = publications[m]
    BY <1>1 DEF IsList
<1>3. CASE row.document = document
    <2>1. RowsWith(document)' = RowsWith(document) \cup {n}
        BY <1>2, <1>3 DEF RowsWith
    <2>2. \A m \in RowsWith(document)' : m \in Nat /\ m <= n
        BY <1>2, <2>1 DEF RowsWith
    <2>3. HasLast(document)'
        BY <2>1, <2>2 DEF HasLast
    <2>4. PICK all : all = RowsWith(document)'
        OBVIOUS
    <2>5. (CHOOSE k \in all : \A m \in all : m <= k) = n
        <3>1. n \in all /\ \A m \in all : m \in Nat /\ m <= n
            BY <2>1, <2>2, <2>4
        <3>2. ASSUME NEW k \in all, \A m \in all : m <= k PROVE k = n
            BY <3>1, <3>2
        <3> QED  BY <3>1, <3>2
    <2>6. Latest(document)' = publications'[n].status
        BY <2>1, <2>4, <2>5 DEF Latest
    <2> QED  BY <1>2, <1>3, <2>3, <2>6
<1>4. CASE row.document # document
    <2>1. RowsWith(document)' = RowsWith(document)
        BY <1>2, <1>4 DEF RowsWith
    <2>2. HasLast(document)'
        BY <2>1 DEF HasLast
    <2>3. CASE RowsWith(document) = {}
        BY <1>4, <2>1, <2>2, <2>3 DEF Latest
    <2>4. CASE RowsWith(document) # {}
        <3>1. PICK k : k = CHOOSE i \in RowsWith(document) : \A m \in RowsWith(document) : m <= i
            OBVIOUS
        <3>2. k \in RowsWith(document)
            BY <2>4, <3>1 DEF HasLast
        <3>3. publications'[k] = publications[k]
            BY <1>2, <3>2 DEF RowsWith
        <3>4. Latest(document) = publications[k].status /\ Latest(document)' = publications'[k].status
            BY <2>1, <2>4, <3>1 DEF Latest
        <3> QED  BY <1>4, <2>2, <3>3, <3>4
    <2> QED  BY <2>3, <2>4
<1> QED  BY <1>3, <1>4

\* nobody begins to work on a document
NobodyMore == \A q \in Scripts : \A document : WorksOn(q, document)' => WorksOn(q, document)

LEMMA SameWork ==
    ASSUME Works, NEW p \in Scripts, NEW run, runs' = [runs EXCEPT ![p] = run],
           Late(run) => Late(runs[p]) /\ run.document = runs[p].document
    PROVE  NobodyMore
BY DEF Works, NobodyMore, WorksOn, Late

(* Nothing is written.                                                      *)
LEMMA QuietStep ==
    ASSUME OnceInv, NobodyMore, UNCHANGED publications, raced \subseteq raced'
    PROVE  OnceInv'
<1> SUFFICES ASSUME NEW document PROVE HasLast(document)' /\ Alone(document)'
    BY DEF OnceInv
<1>1. HasLast(document) /\ Alone(document)
    BY DEF OnceInv
<1>2. HasLast(document)' /\ Latest(document)' = Latest(document) /\ Published' = Published
    BY <1>1 DEF HasLast, Latest, RowsWith, Published
<1>3. Alone(document)'
    BY <1>1, <1>2 DEF Alone, NobodyMore
<1> QED  BY <1>2, <1>3

(* A row that is not a publication, of a document nobody has published or  *)
(* that was worked on by two.                                              *)
LEMMA PlainRowStep ==
    ASSUME OnceInv, NobodyMore, IsList(publications), raced \subseteq raced',
           NEW row, PlainRow(row), publications' = Append(publications, row),
           row.document \notin raced' =>
               \A n \in Published : publications[n].document # row.document
    PROVE  OnceInv'
<1> SUFFICES ASSUME NEW document PROVE HasLast(document)' /\ Alone(document)'
    BY DEF OnceInv
<1>1. HasLast(document) /\ Alone(document)
    BY DEF OnceInv
<1>2. Published' = Published /\ \A n \in Published : publications'[n] = publications[n]
    BY PublishedStep
<1>3. /\ HasLast(document)'
      /\ row.document # document => Latest(document)' = Latest(document)
    BY <1>1, LatestStep
<1>4. ASSUME document \notin raced'
      PROVE  /\ \A q, r \in Scripts :
                   WorksOn(q, document)' /\ WorksOn(r, document)' => q = r
             /\ \A n \in Published : publications[n].document = document =>
                   /\ row.document # document /\ Latest(document) = "PUBLISHED"
                   /\ \A q \in Scripts : ~ WorksOn(q, document)'
                   /\ \A m \in Published : publications[m].document = document => m = n
    <2>1. /\ \A q, r \in Scripts : WorksOn(q, document) /\ WorksOn(r, document) => q = r
          /\ \A n \in Published : publications[n].document = document =>
                /\ Latest(document) = "PUBLISHED"
                /\ \A q \in Scripts : ~ WorksOn(q, document)
                /\ \A m \in Published : publications[m].document = document => m = n
        BY <1>1, <1>4 DEF Alone
    <2>2. \A n \in Published : publications[n].document = document => row.document # document
        BY <1>4
    <2> QED  BY <2>1, <2>2 DEF NobodyMore
<1>5. ASSUME document \notin raced', NEW n \in Published', publications'[n].document = document
      PROVE  /\ Latest(document)' = "PUBLISHED"
             /\ \A q \in Scripts : ~ WorksOn(q, document)'
             /\ \A m \in Published' : publications'[m].document = document => m = n
    <2>1. n \in Published /\ publications[n].document = document
        BY <1>2, <1>5
    <2>2. /\ row.document # document /\ Latest(document) = "PUBLISHED"
          /\ \A q \in Scripts : ~ WorksOn(q, document)'
          /\ \A m \in Published : publications[m].document = document => m = n
        BY <1>4, <1>5, <2>1
    <2>3. \A m \in Published' : publications'[m].document = document => m = n
        BY <1>2, <2>2
    <2> QED  BY <1>3, <2>2, <2>3
<1>6. Alone(document)'
    BY <1>4, <1>5 DEF Alone
<1> QED  BY <1>3, <1>6

LEMMA RecordOnce ==
    ASSUME DriveInv, OnceInv, NEW p \in Scripts, Record(p)
    PROVE  OnceInv'
<1>1. PICK old : old = runs[p]
    OBVIOUS
<1>2. RunOK(old) /\ old.step = "record" /\ Late(old)
    BY <1>1 DEF Record, DriveInv, Works, Late, Early
<1>3. PICK row : row = Row(old.document, "PUBLISHED", old.file)
    OBVIOUS
<1>4. /\ publications' = Append(publications, row) /\ raced' = raced
      /\ runs' = [runs EXCEPT ![p] = Idle]
    BY <1>1, <1>3 DEF Record
<1>5. ~ PlainRow(row) /\ row.document = old.document /\ row.status = "PUBLISHED"
    BY <1>3 DEF PlainRow, Row
<1>6. PICK n : n = Len(publications) + 1
    OBVIOUS
<1>7. /\ Published' = Published \cup {n} /\ publications'[n] = row
      /\ \A m \in Published : publications'[m] = publications[m]
    BY <1>4, <1>5, <1>6, PublishedStep DEF DriveInv, Lists
<1>8. NobodyMore /\ \A document : ~ WorksOn(p, document)'
    <2>1. NobodyMore
        BY <1>4, IdleOK, SameWork DEF DriveInv
    <2>2. runs'[p] = Idle
        BY <1>4 DEF DriveInv, Works
    <2> QED  BY <2>1, <2>2, IdleOK DEF WorksOn, Late
<1> SUFFICES ASSUME NEW document PROVE HasLast(document)' /\ Alone(document)'
    BY DEF OnceInv
<1>9. HasLast(document) /\ Alone(document)
    BY DEF OnceInv
<1>10. /\ HasLast(document)'
       /\ row.document = document => Latest(document)' = row.status
       /\ row.document # document => Latest(document)' = Latest(document)
    BY <1>4, <1>9, LatestStep DEF DriveInv, Lists
<1>11. CASE row.document # document
    <2>1. Alone(document)'
        BY <1>4, <1>7, <1>8, <1>9, <1>10, <1>11 DEF Alone, NobodyMore
    <2> QED  BY <1>10, <2>1
<1>12. CASE row.document = document
    <2>1. WorksOn(p, document)
        BY <1>1, <1>2, <1>5, <1>12 DEF WorksOn
    <2>2. document \notin raced =>
              /\ \A m \in Published : publications[m].document # document
              /\ \A q \in Scripts : WorksOn(q, document) => q = p
        BY <1>9, <2>1 DEF Alone
    <2>3. Alone(document)'
        BY <1>4, <1>5, <1>7, <1>8, <1>10, <1>12, <2>2 DEF Alone, NobodyMore
    <2> QED  BY <1>10, <2>3
<1> QED  BY <1>11, <1>12

(* Whoever works on a document goes on with that document, and only the    *)
(* look at the table makes one begin.                                      *)
LEMMA WorkGoesOn ==
    ASSUME DriveInv, NEW p \in Scripts, ScriptNext(p), ~ ReadLatest(p)
    PROVE  NobodyMore
<1>1. PICK old : old = runs[p]
    OBVIOUS
<1>2. /\ old = [step |-> old.step, document |-> old.document, folder |-> old.folder,
                path |-> old.path, file |-> old.file]
      /\ DOMAIN runs = Scripts
    BY <1>1 DEF DriveInv, Works, RunOK
<1>3. \A q \in Scripts \ {p} : runs'[q] = runs[q]
    BY <1>2 DEF ScriptNext, Start, ListProbe, CreateProbe, Claim, FindFolder, MakeFolder,
                CreateFile, Record, ProviderRaises, Crash
<1>4. Late(runs'[p]) => Late(old) /\ runs'[p].document = old.document
    <2>1. CASE Start(p)
        <3>1. runs'[p].step = "probe"
            BY <1>2, <2>1 DEF Start, Idle
        <3> QED  BY <3>1 DEF Late, Early
    <2>2. CASE ListProbe(p)
        <3>1. PICK one : one = [old EXCEPT !.step = "create probe"]
            OBVIOUS
        <3>2. PICK two : two = [old EXCEPT !.step = "latest"]
            OBVIOUS
        <3>3. PICK found : runs' = [runs EXCEPT ![p] =
                CASE found = {} -> one [] Cardinality(found) = 1 -> two [] OTHER -> Idle]
            BY <1>1, <2>2, <3>1, <3>2, Zenon DEF ListProbe
        <3>4. runs'[p] \in {one, two, Idle}
            BY <1>2, <3>3
        <3>5. one.step = "create probe" /\ two.step = "latest"
            BY <1>2, <3>1, <3>2
        <3> QED  BY <3>4, <3>5, IdleOK DEF Late, Early
    <2>3. CASE CreateProbe(p)
        <3>1. runs'[p].step = "latest"
            BY <1>1, <1>2, <2>3 DEF CreateProbe
        <3> QED  BY <3>1 DEF Late, Early
    <2>4. CASE Claim(p) \/ FindFolder(p) \/ MakeFolder(p) \/ CreateFile(p)
        <3>1. Late(old)
            BY <1>1, <2>4 DEF Claim, FindFolder, MakeFolder, CreateFile, Late, Early
        <3>2. runs'[p].document = old.document
            <4>1. CASE Claim(p)
                BY <1>1, <1>2, <4>1 DEF Claim
            <4>2. CASE FindFolder(p)
                <5>1. CASE runs' = [runs EXCEPT ![p].step = "make folder"]
                    BY <1>1, <1>2, <5>1
                <5>2. CASE runs' # [runs EXCEPT ![p].step = "make folder"]
                    <6>1. PICK n : runs' = [runs EXCEPT ![p].folder = n, ![p].path = Tail(old.path),
                              ![p].step = IF Tail(old.path) = <<>> THEN "create" ELSE "folder"]
                        BY <1>1, <4>2, <5>2, Zenon DEF FindFolder
                    <6> QED  BY <1>1, <1>2, <6>1
                <5> QED  BY <5>1, <5>2
            <4>3. CASE MakeFolder(p)
                BY <1>1, <1>2, <4>3 DEF MakeFolder
            <4>4. CASE CreateFile(p)
                BY <1>1, <1>2, <4>4 DEF CreateFile
            <4> QED  BY <2>4, <4>1, <4>2, <4>3, <4>4
        <3> QED  BY <3>1, <3>2
    <2>5. CASE Record(p) \/ ProviderRaises(p) \/ Crash(p)
        <3>1. runs'[p] = Idle
            BY <1>2, <2>5 DEF Record, ProviderRaises, Crash
        <3> QED  BY <3>1, IdleOK
    <2> QED  BY <2>1, <2>2, <2>3, <2>4, <2>5 DEF ScriptNext
<1> QED  BY <1>1, <1>3, <1>4 DEF NobodyMore, WorksOn, Late

LEMMA WorkedOnIsNew ==
    ASSUME OnceInv, NEW p \in Scripts, NEW document, WorksOn(p, document), document \notin raced
    PROVE  \A n \in Published : publications[n].document # document
BY DEF OnceInv, Alone

LEMMA AttemptOnce ==
    ASSUME DriveInv, OnceInv, NEW p \in Scripts, Claim(p) \/ ProviderRaises(p)
    PROVE  OnceInv'
<1>1. PICK document : document = runs[p].document
    OBVIOUS
<1>2. NobodyMore
    <2>1. ~ ReadLatest(p)
        BY DEF Claim, ProviderRaises, ReadLatest, ProviderSteps
    <2> QED  BY <2>1, WorkGoesOn DEF ScriptNext
<1>3. raced' = raced
    BY DEF Claim, ProviderRaises
<1>4. CASE publications' = publications
    BY <1>2, <1>3, <1>4, QuietStep
<1>5. CASE publications' # publications
    <2>1. PICK row : publications' = Append(publications, row) /\ PlainRow(row)
                     /\ row.document = document
        <3>1. PICK row : row = Row(document, "PUBLISHING", 0)
            OBVIOUS
        <3>2. PICK failed : failed = Row(document, "FAILED", 0)
            OBVIOUS
        <3>3. \/ publications' = Append(publications, row)
              \/ publications' = Append(publications, failed)
            BY <1>1, <1>5, <3>1, <3>2 DEF Claim, ProviderRaises
        <3> QED  BY <3>1, <3>2, <3>3 DEF Row, PlainRow
    <2>2. WorksOn(p, document)
        <3>1. runs[p].step \in {"claim", "folder", "make folder", "create"}
            BY <1>5 DEF Claim, ProviderRaises, ProviderSteps
        <3> QED  BY <1>1, <3>1 DEF WorksOn, Late, Early
    <2>3. document \notin raced => \A n \in Published : publications[n].document # document
        BY <2>2, WorkedOnIsNew
    <2> QED  BY <1>2, <1>3, <2>1, <2>3, PlainRowStep DEF DriveInv, Lists
<1> QED  BY <1>4, <1>5

(* The look at the table: two that look at once are told apart from one    *)
(* that looks after the other is done.                                     *)
LEMMA LookOnce ==
    ASSUME DriveInv, OnceInv, NEW p \in Scripts, ReadLatest(p)
    PROVE  OnceInv'
<1>1. PICK old : old = runs[p]
    OBVIOUS
<1>2. RunOK(old) /\ old.step = "latest" /\ ~ Late(old)
    BY <1>1 DEF ReadLatest, DriveInv, Works, Late, Early
<1>3. PICK document : document = old.document
    OBVIOUS
<1>4. PICK row : row = Row(document, "FAILED", 0)
    OBVIOUS
<1>5. PICK on : on = [old EXCEPT !.step = "claim"]
    OBVIOUS
<1>6. on.document = document
    BY <1>2, <1>3, <1>5 DEF RunOK
<1>7. /\ raced \subseteq raced' /\ raced' \subseteq raced \cup {document}
      /\ document \notin raced' => \A q \in Scripts \ {p} : ~ WorksOn(q, document)
    <2>1. PICK busy : busy = \E q \in Scripts \ {p} :
              runs[q].document = document /\ runs[q].step \notin {"probe", "create probe", "latest"}
        OBVIOUS
    <2>2. raced' = IF busy THEN raced \cup {document} ELSE raced
        BY <1>1, <1>3, <2>1, Zenon DEF ReadLatest
    <2>3. ~ busy => \A q \in Scripts \ {p} : ~ WorksOn(q, document)
        BY <2>1 DEF WorksOn, Late, Early
    <2> QED  BY <2>2, <2>3
<1>8. \/ publications' = publications /\ runs' = [runs EXCEPT ![p] = Idle]
      \/ /\ publications' = publications /\ runs' = [runs EXCEPT ![p] = on]
         /\ Latest(document) # "PUBLISHED"
      \/ /\ publications' = Append(publications, row) /\ runs' = [runs EXCEPT ![p] = Idle]
         /\ Latest(document) # "PUBLISHED"
    BY <1>1, <1>3, <1>4, <1>5 DEF ReadLatest
<1>9. Latest(document) # "PUBLISHED" /\ document \notin raced
      => \A n \in Published : publications[n].document # document
    BY DEF OnceInv, Alone
<1>10. runs' = [runs EXCEPT ![p] = Idle] => NobodyMore
    BY IdleOK, SameWork DEF DriveInv
<1>11. CASE runs' = [runs EXCEPT ![p] = Idle] /\ publications' = publications
    BY <1>7, <1>10, <1>11, QuietStep
<1>12. CASE publications' = Append(publications, row) /\ runs' = [runs EXCEPT ![p] = Idle]
            /\ Latest(document) # "PUBLISHED"
    <2>1. PlainRow(row) /\ row.document = document
        BY <1>4 DEF Row, PlainRow
    <2>2. raced \subseteq raced'
        BY <1>7
    <2>3. row.document \notin raced' => \A n \in Published : publications[n].document # row.document
        BY <1>9, <1>12, <2>1, <2>2
    <2> QED  BY <1>10, <1>12, <2>1, <2>2, <2>3, PlainRowStep DEF DriveInv, Lists
<1>13. CASE publications' = publications /\ runs' = [runs EXCEPT ![p] = on]
            /\ Latest(document) # "PUBLISHED"
    <2>1. \A q \in Scripts : \A other :
              WorksOn(q, other)' => WorksOn(q, other) \/ (q = p /\ other = document)
        BY <1>6, <1>13 DEF DriveInv, Works, WorksOn, Late
    <2> SUFFICES ASSUME NEW other PROVE HasLast(other)' /\ Alone(other)'
        BY DEF OnceInv
    <2>2. HasLast(other) /\ Alone(other)
        BY DEF OnceInv
    <2>3. HasLast(other)' /\ Latest(other)' = Latest(other) /\ Published' = Published
        BY <1>13, <2>2 DEF HasLast, Latest, RowsWith, Published
    <2>4. CASE other # document
        <3>1. Alone(other)'
            BY <1>7, <1>13, <2>1, <2>2, <2>3, <2>4 DEF Alone
        <3> QED  BY <2>3, <3>1
    <2>5. CASE other = document
        <3>1. document \notin raced' => /\ document \notin raced
                                        /\ \A q \in Scripts \ {p} : ~ WorksOn(q, document)
            BY <1>7
        <3>2. Alone(document)'
            BY <1>9, <1>13, <2>1, <2>3, <3>1 DEF Alone
        <3> QED  BY <2>3, <2>5, <3>2
    <2> QED  BY <2>4, <2>5
<1> QED  BY <1>8, <1>11, <1>12, <1>13

LEMMA OnceKeeps == DriveInv /\ OnceInv /\ [Next]_vars => OnceInv'
<1> SUFFICES ASSUME DriveInv, OnceInv, [Next]_vars PROVE OnceInv'
    OBVIOUS
<1>1. ASSUME UNCHANGED <<publications, runs, raced>> PROVE OnceInv'
    <2>1. NobodyMore
        BY <1>1 DEF NobodyMore, WorksOn, Late
    <2> QED  BY <1>1, <2>1, QuietStep
<1>2. ASSUME NEW p \in Scripts, ScriptNext(p) PROVE OnceInv'
    <2>1. CASE ReadLatest(p)
        BY <2>1, LookOnce
    <2>2. CASE Claim(p) \/ ProviderRaises(p)
        BY <2>2, AttemptOnce
    <2>3. CASE Record(p)
        BY <2>3, RecordOnce
    <2>4. CASE Start(p) \/ ListProbe(p) \/ CreateProbe(p) \/ FindFolder(p) \/ MakeFolder(p)
               \/ CreateFile(p) \/ Crash(p)
        <3>1. UNCHANGED <<publications, raced>>
            BY <2>4 DEF Start, ListProbe, CreateProbe, FindFolder, MakeFolder, CreateFile, Crash
        <3>2. CASE ReadLatest(p)
            BY <3>2, LookOnce
        <3>3. CASE ~ ReadLatest(p)
            BY <1>2, <3>1, <3>3, WorkGoesOn, QuietStep
        <3> QED  BY <3>2, <3>3
    <2> QED  BY <1>2, <2>1, <2>2, <2>3, <2>4 DEF ScriptNext
<1> QED  BY <1>1, <1>2 DEF Next, vars, driveVars

LEMMA OnceInit == Init => OnceInv
<1> SUFFICES ASSUME Init, NEW document PROVE HasLast(document) /\ Alone(document)
    BY DEF OnceInv
<1>1. DOMAIN publications = {} /\ \A p \in Scripts : ~ Late(runs[p])
    <2>1. \A p \in Scripts : runs[p] = Idle
        BY DEF Init
    <2>2. Idle.step = "idle"
        BY DEF Idle
    <2> QED  BY <2>1, <2>2, EmptyList DEF Init, Late, Early
<1> QED  BY <1>1 DEF HasLast, Alone, RowsWith, WorksOn, Published

(* Running the publication again, after crashes and failed calls too,      *)
(* puts a second file of a document on Drive only when the reply to the    *)
(* first was lost, or two processes worked on the document at once         *)
(* (DocumentPublishingService._publish_one).                               *)
THEOREM OnePublicationEach == Spec => []PublishedOnce
<1>1. DriveInv /\ OnceInv => PublishedOnce
    <2> SUFFICES ASSUME DriveInv, OnceInv, NEW m \in DocumentFiles \ lost,
                        NEW n \in DocumentFiles \ lost, Copies(m, n),
                        drive[n].content \notin raced
                 PROVE  FALSE
        BY DEF PublishedOnce
    <2>1. PICK document : document = drive[n].content
        OBVIOUS
    <2>2. m # n /\ drive[m].content = document
        BY <2>1 DEF Copies
    <2>3. Alone(document) /\ document \notin raced
        BY <2>1 DEF OnceInv
    <2>4. ASSUME NEW f \in DocumentFiles \ lost, drive[f].content = document
          PROVE  \/ \E i \in Published :
                       publications[i].file = f /\ publications[i].document = document
                 \/ \E p \in Scripts : runs[p].file = f /\ WorksOn(p, document)
        <3>1. CASE \E i \in Published : publications[i].file = f
            <4>1. PICK i \in Published : publications[i].file = f
                BY <3>1
            <4>2. publications[i].document = document
                BY <2>4, <4>1 DEF DriveInv, Works, RowOK, Holds, Published
            <4> QED  BY <4>1, <4>2
        <3>2. CASE \E p \in Recording : runs[p].file = f
            <4>1. PICK p \in Scripts : runs[p].step = "record" /\ runs[p].file = f
                BY <3>2 DEF Recording
            <4>2. runs[p].document = document
                BY <2>4, <4>1 DEF DriveInv, Works, RunOK, Holds
            <4> QED  BY <4>1, <4>2 DEF WorksOn, Late, Early
        <3> QED  BY <3>1, <3>2 DEF DriveInv, Kept
    <2> QED  BY <2>1, <2>2, <2>3, <2>4 DEF Alone
<1>2. CacheInv /\ DriveInv /\ OnceInv /\ [Next]_vars => (CacheInv /\ DriveInv /\ OnceInv)'
    BY CacheKeeps, DriveKeeps, OnceKeeps
<1>3. Init => CacheInv /\ DriveInv /\ OnceInv
    BY CacheInit, DriveInit, OnceInit DEF Init
<1> QED  BY <1>1, <1>2, <1>3, PTL DEF Spec

=============================================================================
