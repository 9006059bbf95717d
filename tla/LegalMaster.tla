------------------------------ MODULE LegalMaster ------------------------------
(***************************************************************************)
(* The Partner Legal Master: a sheet people maintain on Drive, the rules   *)
(* by which its rows complete the restaurant registry (PartnerLegalMaster- *)
(* Source, PartnerLegalRegistryEnricher), the legal readiness of documents *)
(* (DocumentLegalPolicy), and the cache that the sessions of the process   *)
(* share (PartnerLegalMasterCache).                                        *)
(*                                                                         *)
(* A row has the fields the rules tell apart; ICE, IF, RC, city, bank and  *)
(* phone go the way of rib and address.  A value that does not have its    *)
(* format is "invalid".                                                    *)
(***************************************************************************)
EXTENDS Integers, Sequences, FiniteSets, SequencesExt

CONSTANTS
    None,
    Actors, Teams,     \* sessions and scripts; the sets of them that work together
    Callers,           \* the sessions that share the process and its cache
    Registry,          \* restaurant -> its entry before enrichment
    RSTIds,            \* the identifiers of the RST list
    Sheets,            \* the contents the sheet can have: sequences of rows
    TTL, MaxClock, MaxVersions, MaxFaults

ASSUME LegalMasterAssumption ==
    /\ Callers \subseteq Actors /\ Teams # {} /\ Sheets # {}
    /\ \A rows \in Sheets : rows \in Seq(Range(rows))
    /\ \A id \in DOMAIN Registry :
          {"name", "entity", "address", "rib", "email", "review"} \subseteq DOMAIN Registry[id]
    /\ TTL \in Nat \ {0} /\ MaxClock \in Nat /\ MaxVersions \in Nat \ {0} /\ MaxFaults \in Nat

VARIABLES
    team,        \* the actors of this behaviour
    versions,    \* every content the sheet had, the last one being its own
    replaced,    \* when each but the last was replaced
    clock,       \* time.monotonic
    entry,       \* the cache's entry: snapshot and expiry
    holder,      \* who holds the cache's lock
    calls,       \* each caller: how far its load is, and what it answered
    faults

legalVars == <<team, versions, replaced, clock, entry, holder, calls, faults>>

----------------------------------------------------------------------------
(* Source issues and enrichment *)

ConflictFields == {"entity", "address", "rib", "email"}

RowsOf(rows, id) == {n \in DOMAIN rows : rows[n].id = id}

Conflicting(rows, id) ==
    \E m, n \in RowsOf(rows, id), field \in ConflictFields : rows[m][field] # rows[n][field]

\* Two names contradict when both are there and have nothing in common.
NameMismatch(row, restaurant) ==
    row.name # None /\ restaurant.name # None /\ row.name # restaurant.name

\* Mutant: of several rows with an id the first one is taken.
FirstRow(rows, id) ==
    LET n == CHOOSE n \in RowsOf(rows, id) : \A m \in RowsOf(rows, id) : n <= m
    IN  IF RowsOf(rows, id) = {} \/ rows[n].review = "DO_NOT_USE" THEN None ELSE rows[n]

\* The row that completes a restaurant: the only one with its id, when nothing speaks against it.
UsableRow(rows, id) ==
    LET n == CHOOSE n \in RowsOf(rows, id) : TRUE
    IN  IF \/ Cardinality(RowsOf(rows, id)) # 1
           \/ Conflicting(rows, id)
           \/ id \notin RSTIds
           \/ NameMismatch(rows[n], Registry[id])
           \/ rows[n].review = "DO_NOT_USE"
        THEN None ELSE rows[n]

Either(first, second) == IF first # None THEN first ELSE second

\* _apply_record: the row decides entity, rib and email; the address may stay.
ApplyRecord(restaurant, row) ==
    IF row = None THEN restaurant
    ELSE [restaurant EXCEPT !.entity = row.entity, !.rib = row.rib,
                            !.address = Either(row.address, @),
                            !.email = IF row.email = "invalid" THEN None ELSE row.email,
                            !.review = row.review]

\* A sheet that was never read leaves the registry as it is.
Enriched(rows) ==
    [id \in DOMAIN Registry |->
        IF rows = None THEN Registry[id] ELSE ApplyRecord(Registry[id], UsableRow(rows, id))]

(* Legal readiness of the three documents *)

DocumentTypes == {"INVOICE", "NOTE_DE_DEBOURS", "PARTNER_STATEMENT"}

PartnerName(restaurant) == Either(restaurant.entity, restaurant.name)

LegalStatus(restaurant, type) ==
    CASE \/ PartnerName(restaurant) = None
         \/ type # "PARTNER_STATEMENT" /\ restaurant.address = None -> "BLOCKED"
      [] OTHER -> IF None \in {restaurant.entity, restaurant.address, restaurant.rib}
                  THEN "READY_WITH_WARNINGS" ELSE "READY"

----------------------------------------------------------------------------
(* The cache *)

NoCall == [step |-> "idle", began |-> 0, read |-> 0, answer |-> None]

LegalInit ==
    /\ team \in Teams
    /\ versions \in {<<rows>> : rows \in Sheets}
    /\ replaced = <<>>
    /\ clock = 1
    /\ entry = None
    /\ holder = None
    /\ calls = [c \in Callers |-> NoCall]
    /\ faults = 0

\* What a load answers: the entry as it is in the cache, at this time.
Answer(c, kept, now) ==
    calls' = [calls EXCEPT ![c] = [NoCall EXCEPT !.answer = [kept |-> kept, at |-> now]]]

Fresh == entry # None /\ clock < entry.expires

Hit(c) ==
    /\ c \in team /\ calls[c].step = "idle" /\ holder = None
    /\ Fresh
    /\ Answer(c, entry, clock)
    /\ UNCHANGED <<team, versions, replaced, clock, entry, holder, faults>>

\* The lock is held while the loader runs.
Miss(c) ==
    /\ c \in team /\ calls[c].step = "idle" /\ holder = None
    /\ ~Fresh
    /\ holder' = c
    /\ calls' = [calls EXCEPT ![c] = [NoCall EXCEPT !.step = "loading", !.began = clock]]
    /\ UNCHANGED <<team, versions, replaced, clock, entry, faults>>

Fetch(c) ==
    /\ calls[c].step = "loading"
    /\ calls' = [calls EXCEPT ![c].step = "loaded", ![c].read = Len(versions)]
    /\ UNCHANGED <<team, versions, replaced, clock, entry, holder, faults>>

Store(c) ==
    /\ calls[c].step = "loaded"
    /\ entry' = [version |-> calls[c].read, status |-> "CONNECTED", expires |-> clock + TTL,
                 began |-> calls[c].began, stored |-> clock]
    /\ Answer(c, entry', clock)
    /\ holder' = None
    /\ UNCHANGED <<team, versions, replaced, clock, faults>>

\* Mutant: a failed refresh prolongs the snapshot as if it had succeeded.
Stale(kept) == [kept EXCEPT !.expires = clock + TTL]

StaleSource(kept) == [kept EXCEPT !.status = "STALE_SOURCE", !.expires = clock + TTL]

NeverRead == [version |-> 0, status |-> "FAILED", expires |-> 0, began |-> 0, stored |-> 0]

\* Whatever the loader raises, the last good snapshot is kept another period, marked.
LoaderRaises(c) ==
    /\ calls[c].step \in {"loading", "loaded"} /\ faults < MaxFaults
    /\ faults' = faults + 1
    /\ entry' = IF entry = None THEN None ELSE StaleSource(entry)
    /\ Answer(c, IF entry = None THEN NeverRead ELSE entry', clock)
    /\ holder' = None
    /\ UNCHANGED <<team, versions, replaced, clock>>

\* A page asks for fresh sources.
Expire ==
    /\ holder = None /\ entry # None /\ team \cap Callers # {}
    /\ entry' = [entry EXCEPT !.expires = 0]
    /\ UNCHANGED <<team, versions, replaced, clock, holder, calls, faults>>

SheetChanges ==
    /\ Len(versions) < MaxVersions
    /\ \E rows \in Sheets \ {Last(versions)} : versions' = Append(versions, rows)
    /\ replaced' = Append(replaced, clock)
    /\ UNCHANGED <<team, clock, entry, holder, calls, faults>>

Tick ==
    /\ team \cap Callers # {} /\ clock < MaxClock
    /\ clock' = clock + 1
    /\ UNCHANGED <<team, versions, replaced, entry, holder, calls, faults>>

LegalNext ==
    \/ Expire \/ SheetChanges \/ Tick
    \/ \E c \in Callers : Hit(c) \/ Miss(c) \/ Fetch(c) \/ Store(c) \/ LoaderRaises(c)

LegalSpec == LegalInit /\ [][LegalNext]_legalVars

----------------------------------------------------------------------------
(* Properties *)

(***************************************************************************)
(* A session is told CONNECTED only of a content that the sheet still had  *)
(* when the load that read it began, and less than the lifetime after that *)
(* load ended; an older snapshot is announced as stale.                    *)
(***************************************************************************)
AnswersAreFreshOrFlagged ==
    \A c \in Callers : LET answer == calls[c].answer IN
        answer # None /\ answer.kept.status = "CONNECTED" =>
            /\ answer.at < answer.kept.stored + TTL
            /\ answer.kept.version > Len(replaced)
                \/ replaced[answer.kept.version] >= answer.kept.began

=============================================================================
