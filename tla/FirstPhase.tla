------------------------------- MODULE FirstPhase -------------------------------
(***************************************************************************)
(* The first services of documents and e-mail, for one restaurant and one  *)
(* period: DocumentService (numbered documents that supersede one another  *)
(* and go STALE), AutomationAuthorizationService (an authorization holds a *)
(* snapshot of the figures it approves) and EmailExecutionService (a       *)
(* communication is drafted or sent once, and again only with a reason).   *)
(*                                                                         *)
(* The library is what the tests call; nothing keeps two callers from      *)
(* running it at a time.  Every read and write is a transaction of its     *)
(* own.  A figure is a version: the n-th settlement of the restaurant.     *)
(***************************************************************************)
EXTENDS SandboxDrafts

CONSTANTS
    Clerks,        \* the callers of the services
    Types,         \* the document types, in the order they are generated
    DraftsEnabled, SendsEnabled,   \* flags of EmailExecutionService
    MaxFigures, MaxDocuments, MaxAuthorizations, MaxMessages, MaxRecords   \* bounds

ASSUME FirstPhaseAssumption ==
    /\ Types # <<>> /\ DraftsEnabled \in BOOLEAN /\ SendsEnabled \in BOOLEAN
    /\ {MaxFigures, MaxDocuments, MaxAuthorizations, MaxMessages, MaxRecords} \subseteq Nat

VARIABLES
    figures,       \* how many settlements the restaurant has had
    documents,     \* the documents table
    numbers,       \* document_sequences
    auths,         \* the authorizations of the period, in order of authorized_at
    records,       \* the upserts of communications; the row is the last one
    outbox,        \* what Gmail did for the partner
    clerk

firstVars == <<figures, documents, numbers, auths, records, outbox, clerk>>

----------------------------------------------------------------------------
Free == [step |-> "idle"]
Settlement == 1..figures       \* a caller may hold an older settlement

FirstInit ==
    /\ figures = 1 /\ documents = <<>> /\ numbers = [t \in Range(Types) |-> 1]
    /\ auths = <<>> /\ records = <<>> /\ outbox = <<>>
    /\ clerk = [c \in Clerks |-> Free]

Does(c, part, step) == desk = part /\ clerk[c].step = step
Then(c, new) == clerk' = [clerk EXCEPT ![c] = new]
Goes(c, step) == Then(c, [clerk[c] EXCEPT !.step = step])

Recalculate ==
    /\ desk # "sandbox" /\ figures < MaxFigures /\ figures' = figures + 1
    /\ UNCHANGED <<documents, numbers, auths, records, outbox, clerk>>

----------------------------------------------------------------------------
(***************************************************************************)
(* DocumentService.generate reads the earlier documents once, then takes   *)
(* a number and saves a document for each type; it may be cut off between  *)
(* any two.  The documents it supersedes keep their status.                *)
(***************************************************************************)
Generated(n, t) == {i \in 1..n : documents[i].type = t}
Prior(n, t) == CHOOSE i \in Generated(n, t) \cup {0} : \A j \in Generated(n, t) : j <= i

Generate(c, s) ==
    /\ Does(c, "documents", "idle") /\ s \in Settlement
    /\ Then(c, [step |-> "number", figures |-> s, previous |-> Len(documents), type |-> 1,
                number |-> 0])
    /\ UNCHANGED <<figures, documents, numbers, auths, records, outbox>>

NextNumber(c) ==
    /\ Does(c, "documents", "number") /\ numbers[Types[clerk[c].type]] <= MaxDocuments
    /\ LET t == Types[clerk[c].type] IN
        /\ numbers' = [numbers EXCEPT ![t] = @ + 1]
        /\ Then(c, [clerk[c] EXCEPT !.step = "save", !.number = numbers[t]])
    /\ UNCHANGED <<figures, documents, auths, records, outbox>>

SaveDocument(c) ==
    /\ Does(c, "documents", "save")
    /\ LET t == Types[clerk[c].type] IN
        documents' = Append(documents,
            [type |-> t, number |-> clerk[c].number, figures |-> clerk[c].figures,
             status |-> "GENERATED", supersedes |-> Prior(clerk[c].previous, t)])
    /\ IF clerk[c].type = Len(Types) THEN Then(c, Free)
       ELSE Then(c, [clerk[c] EXCEPT !.step = "number", !.type = @ + 1])
    /\ UNCHANGED <<figures, numbers, auths, records, outbox>>

(* Plausible bug: only the newest document is compared. *)
NewestChanged(docs, s) == docs # <<>> /\ Last(docs).status = "GENERATED" /\ Last(docs).figures # s

(* invalidate_if_changed lists, compares, and marks all that is GENERATED   *)
(* then, the documents of the right figures with the others.                *)
Changed(docs, s) == \E i \in DOMAIN docs : docs[i].status = "GENERATED" /\ docs[i].figures # s

CompareDocuments(c, s) ==
    /\ Does(c, "documents", "idle") /\ s \in Settlement
    /\ Then(c, [step |-> IF Changed(documents, s) THEN "mark" ELSE "compared",
                figures |-> s, listed |-> Len(documents)])
    /\ UNCHANGED <<figures, documents, numbers, auths, records, outbox>>

MarkStale(c) ==
    /\ Does(c, "documents", "mark")
    /\ documents' = [i \in DOMAIN documents |-> [documents[i] EXCEPT !.status = "STALE"]]
    /\ Goes(c, "compared")
    /\ UNCHANGED <<figures, numbers, auths, records, outbox>>

Done(c) ==
    /\ clerk[c].step \in {"compared", "answered"} /\ desk # "sandbox" /\ Then(c, Free)
    /\ UNCHANGED <<figures, documents, numbers, auths, records, outbox>>

----------------------------------------------------------------------------
(***************************************************************************)
(* Authorizations.  authorize supersedes what is ACTIVE and inserts, in    *)
(* one transaction; invalidate_restaurant reads the ACTIVE one and marks   *)
(* that very row STALE in another, whatever it has become meanwhile.       *)
(***************************************************************************)
Active(as) == {i \in DOMAIN as : as[i].status = "ACTIVE"}
ActiveOf(as) == IF Active(as) = {} THEN 0 ELSE CHOOSE i \in Active(as) : \A j \in Active(as) : j <= i

Authorize(mode) ==
    /\ desk = "mail" /\ Len(auths) < MaxAuthorizations
    /\ auths' = Append([i \in DOMAIN auths |-> IF i \in Active(auths)
                          THEN [auths[i] EXCEPT !.status = "SUPERSEDED"] ELSE auths[i]],
                       [mode |-> mode, figures |-> figures, status |-> "ACTIVE"])
    /\ UNCHANGED <<figures, documents, numbers, records, outbox, clerk>>

----------------------------------------------------------------------------
(***************************************************************************)
(* EmailExecutionService.execute, for a message prepared from one          *)
(* settlement and the one calculated when the call is made.  The mode is   *)
(* that of the authorization read first; the figures are compared with the *)
(* one read next, then with the message.                                   *)
(***************************************************************************)
Execute(c, m, reason) ==
    /\ Does(c, "mail", "idle") /\ m \in Settlement
    /\ ActiveOf(auths) # 0
    /\ Then(c, [step |-> "validate", message |-> m, held |-> figures, reason |-> reason,
                auth |-> ActiveOf(auths), mode |-> auths[ActiveOf(auths)].mode,
                known |-> 0, entry |-> 0])
    /\ UNCHANGED <<figures, documents, numbers, auths, records, outbox>>

Approves(s) == ActiveOf(auths) # 0 /\ auths[ActiveOf(auths)].figures = s

(* Plausible bug: the message is not compared with the settlement. *)
ValidateHeld(c) ==
    /\ Does(c, "mail", "validate")
    /\ Goes(c, IF Approves(clerk[c].held) THEN "status" ELSE "invalidate")
    /\ UNCHANGED <<figures, documents, numbers, auths, records, outbox>>

Validate(c) ==
    /\ Does(c, "mail", "validate")
    /\ Goes(c, IF Approves(clerk[c].held) /\ clerk[c].message = clerk[c].held
               THEN "status" ELSE "invalidate")
    /\ UNCHANGED <<figures, documents, numbers, auths, records, outbox>>

ReadActive(c) ==
    /\ Does(c, "mail", "invalidate")
    /\ IF ActiveOf(auths) = 0 THEN Then(c, Free)
       ELSE Then(c, [step |-> "stale", auth |-> ActiveOf(auths)])
    /\ UNCHANGED <<figures, documents, numbers, auths, records, outbox>>

Invalidate(c) ==
    /\ Does(c, "mail", "stale") /\ Then(c, Free)
    /\ auths' = [auths EXCEPT ![clerk[c].auth].status = "STALE"]
    /\ UNCHANGED <<figures, documents, numbers, records, outbox>>

Status == IF records = <<>> THEN None ELSE Last(records).status

Enabled(mode) == \/ mode = "CREATE_DRAFTS" /\ DraftsEnabled
                 \/ mode = "SEND_EMAILS" /\ SendsEnabled

(* Plausible bug: a reason, or none, is never asked for. *)
ReadAnyStatus(c) ==
    /\ Does(c, "mail", "status")
    /\ IF ~ Enabled(clerk[c].mode) THEN Then(c, Free)
       ELSE Then(c, [clerk[c] EXCEPT !.step = "call", !.known = Len(records)])
    /\ UNCHANGED <<figures, documents, numbers, auths, records, outbox>>

ReadStatus(c) ==
    /\ Does(c, "mail", "status")
    /\ IF (Status = "SENT" /\ ~ clerk[c].reason) \/ ~ Enabled(clerk[c].mode)
       THEN Then(c, Free)
       ELSE Then(c, [clerk[c] EXCEPT !.step = "call", !.known = Len(records)])
    /\ UNCHANGED <<figures, documents, numbers, auths, records, outbox>>

Delivery(c) == [mode |-> clerk[c].mode, figures |-> clerk[c].message, auth |-> clerk[c].auth,
                reason |-> clerk[c].reason, known |-> clerk[c].known, recorded |-> 0]

Deliver(c) ==
    /\ Does(c, "mail", "call") /\ Len(outbox) < MaxMessages
    /\ outbox' = Append(outbox, Delivery(c))
    /\ Then(c, [clerk[c] EXCEPT !.step = "record", !.entry = Len(outbox) + 1])
    /\ UNCHANGED <<figures, documents, numbers, auths, records>>

(* an exception of the provider, before or after it did its work *)
DeliveryFails(c) ==
    /\ Does(c, "mail", "call") /\ Len(outbox) < MaxMessages /\ faults < MaxFaults
    /\ outbox' \in {outbox, Append(outbox, Delivery(c))} /\ Goes(c, "failed")
    /\ UNCHANGED <<figures, documents, numbers, auths, records>>

Upsert(c, status) ==
    /\ Len(records) < MaxRecords
    /\ records' = Append(records, [status |-> status, reason |-> clerk[c].reason,
                                   known |-> clerk[c].known])

RecordDelivery(c) ==
    /\ Does(c, "mail", "record") /\ Then(c, Free)
    /\ Upsert(c, IF clerk[c].mode = "SEND_EMAILS" THEN "SENT" ELSE "AUTHORIZED")
    /\ outbox' = [outbox EXCEPT ![clerk[c].entry].recorded = Len(records) + 1]
    /\ UNCHANGED <<figures, documents, numbers, auths>>

(* the record itself fails: FAILED is written over what was delivered *)
RecordFails(c) ==
    /\ Does(c, "mail", "record") /\ faults < MaxFaults /\ Goes(c, "failed")
    /\ UNCHANGED <<figures, documents, numbers, auths, records, outbox>>

RecordFailure(c) ==
    /\ Does(c, "mail", "failed") /\ Upsert(c, "FAILED") /\ Then(c, Free)
    /\ UNCHANGED <<figures, documents, numbers, auths, outbox>>

ClerkStops(c) ==
    /\ desk # "sandbox" /\ clerk[c].step # "idle" /\ faults < MaxFaults /\ Then(c, Free)
    /\ UNCHANGED <<figures, documents, numbers, auths, records, outbox>>

----------------------------------------------------------------------------
Quiet(c) ==    \* steps that need no fault
    \/ \E s \in Settlement : Generate(c, s) \/ CompareDocuments(c, s)
    \/ NextNumber(c) \/ SaveDocument(c) \/ MarkStale(c) \/ Done(c)
    \/ \E m \in Settlement, reason \in BOOLEAN : Execute(c, m, reason)
    \/ Validate(c) \/ ReadActive(c) \/ Invalidate(c) \/ ReadStatus(c)
    \/ Deliver(c) \/ RecordDelivery(c) \/ RecordFailure(c)

Faulty(c) == DeliveryFails(c) \/ RecordFails(c) \/ ClerkStops(c)

FirstNext ==
    \/ Recalculate /\ UNCHANGED faults
    \/ \E mode \in {"CREATE_DRAFTS", "SEND_EMAILS"} : Authorize(mode) /\ UNCHANGED faults
    \/ \E c \in Clerks : Quiet(c) /\ UNCHANGED faults
    \/ \E c \in Clerks : Faulty(c) /\ faults' = faults + 1

Init == desk \in {"sandbox", "documents", "mail"} /\ SandboxInit /\ FirstInit
Next == \/ SandboxNext /\ UNCHANGED <<desk, firstVars>>
        \/ FirstNext /\ UNCHANGED <<desk, rows, audit, mailbox, script>>
Spec == Init /\ [][Next]_<<desk, sandboxVars, firstVars>>

----------------------------------------------------------------------------
(* When invalidate_if_changed has answered for some figures, no document of *)
(* other figures that was there when it looked is still GENERATED, whatever *)
(* others generate or invalidate meanwhile.                                 *)
InvalidatedDocumentsAreStale == \A c \in Clerks : clerk[c].step = "compared" =>
    \A i \in 1..clerk[c].listed :
        documents[i].figures # clerk[c].figures => documents[i].status = "STALE"

(* What a partner gets was approved: the execution began under an           *)
(* authorization of the mode it used, and the figures of the message itself *)
(* are those of that authorization or of a later one - though the two need  *)
(* not be the same, since they are read apart.                              *)
DeliveredFiguresWereApproved == \A i \in DOMAIN outbox :
    /\ auths[outbox[i].auth].mode = outbox[i].mode
    /\ \E j \in outbox[i].auth..Len(auths) : auths[j].figures = outbox[i].figures

(* A second send without a reason is explained by a race or a failure: the  *)
(* first was not recorded SENT when the second looked, or a failure written *)
(* in between, of an execution that overlapped the first or of a resend,    *)
(* had put FAILED over SENT, or the mode had gone back to drafts.           *)
ResendIsExplained == \A i, k \in DOMAIN outbox :
    LET first == outbox[i]  second == outbox[k] IN
    (i < k /\ first.mode = "SEND_EMAILS" /\ second.mode = "SEND_EMAILS" /\ ~ second.reason) =>
        \/ first.recorded = 0 \/ first.recorded > second.known
        \/ \E n \in first.recorded + 1..second.known :
              /\ records[n].status # "SENT"
              /\ records[n].reason \/ records[n].known < first.recorded
=============================================================================
