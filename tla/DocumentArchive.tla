---------------------------- MODULE DocumentArchive ----------------------------
(***************************************************************************)
(* The document archive: DocumentArchiveService publishes the PDFs of a    *)
(* period to object storage and records each step as a row of the          *)
(* append-only publication registry; the Email Center builds packages from *)
(* the current publications and PublicationAttachmentLoader fetches them.  *)
(*                                                                         *)
(* Every registry append and every storage call is a step of its own: the  *)
(* run of a publisher can end between any two of them.                     *)
(***************************************************************************)
EXTENDS Integers, FiniteSets

CONSTANTS
    Publishers,  \* processes that publish
    Packages,    \* processes that build an email package and load it
    Docs,        \* (period, restaurant, document type): one restaurant's documents
    Contents,    \* what a document can say: the data a candidate is built from
    Pdfs,        \* its pages, the version line left out
    Rendering,   \* Rendering[c]: the pages of content c
    Figures,     \* Figures[c]: the financial snapshot hash of content c
    Drafts,      \* contents that are not PRODUCTION_READY or fail validate_pdf
    MaxChanges,  \* bound on the changes of the data
    MaxVersion,  \* bound on document_version
    MaxRetries   \* max_transient_retries

None == "none"

ASSUME ArchiveAssumption ==
    /\ MaxChanges \in Nat
    /\ MaxVersion \in Nat \ {0}
    /\ MaxRetries \in Nat
    /\ Rendering \in [Contents -> Pdfs]
    /\ DOMAIN Figures = Contents
    /\ Drafts \subseteq Contents
    /\ {None, "corrupt"} \cap Pdfs = {}

Versions == 1 .. MaxVersion

\* publication_key: one document version with the hash of its rendering
Keys == Versions \X Pdfs

Failures == {"FAILED", "STORAGE_VERIFICATION_FAILED"}
Statuses == {None, "PUBLISHING", "PUBLISHED", "SUPERSEDED"} \cup Failures
Results == {None, "PUBLISHED", "ALREADY_PUBLISHED"} \cup Failures

VARIABLES
    changes,  \* how often the data changed
    source,   \* source[d]: the content today's data gives document d
    latest,   \* latest[d][k]: status and content of the last row with key k
    objects,  \* objects[d][v]: the pages stored under the object key of version v
    run,      \* run[p]: where publisher p is in its list of candidates
    mail      \* mail[m]: where package m is in its list of documents

vars == <<changes, source, latest, objects, run, mail>>

Rows == [status : Statuses, content : Contents \cup {None}]
Steps == {"idle", "next", "record", "upload", "verify", "supersede", "publish",
          "fail"}
Runs == [step : Steps, todo : SUBSET Docs, cand : [Docs -> Contents \cup {None}],
         doc : Docs \cup {None}, prior : SUBSET Keys, version : Versions,
         tries : 0 .. MaxRetries, error : Failures, result : [Docs -> Results]]
Mails == [step : {"idle", "build", "load", "fetch", "loaded"},
          left : SUBSET Docs, cand : [Docs -> Contents \cup {None}], doc : Docs \cup {None},
          bytes : [Docs -> Pdfs \cup {None, "corrupt"}]]

----------------------------------------------------------------------------
(* The registry, read by its latest row per key *)

Published(d) == {k \in Keys : latest[d][k].status = "PUBLISHED"}

\* current: the published row with the highest version, if there is one
Current(d) ==
    {k \in Published(d) : \A j \in Published(d) : j[1] <= k[1]}

Appended(d, k, status, c) ==
    [latest EXCEPT ![d][k] = [status |-> status, content |-> c]]

\* mutant: the check of what is already published looks at the PDF only
IsAlreadyByPdf(d, k, c) == k = <<1, Rendering[c]>>

\* mutant: any current publication will do
IsAlreadyAny(d, k, c) == TRUE

\* a candidate is built as version 1: its document_hash is that of <<1, pages>>
IsAlready(d, k, c) ==
    latest[d][k].content = c \/ k = <<1, Rendering[c]>>

----------------------------------------------------------------------------
(* The publisher *)

Idle == [step |-> "idle", todo |-> {}, cand |-> [d \in Docs |-> None], doc |-> None,
         prior |-> {}, version |-> 1, tries |-> 0, error |-> "FAILED",
         result |-> [d \in Docs |-> None]]

At(p, step) == run[p].step = step

CandKey(p) == <<run[p].version, Rendering[run[p].cand[run[p].doc]]>>

\* publish, publish_in_batches: the candidates are built, then taken one by one
BeginPublish(p) ==
    /\ At(p, "idle")
    /\ \E S \in SUBSET Docs :
          run' = [run EXCEPT ![p] = [Idle EXCEPT !.step = "next", !.todo = S,
                                                 !.cand = source]]
    /\ UNCHANGED <<changes, source, latest, objects, mail>>

\* the candidates retry_failed_publications selects: their hash failed last time
RetrySelects(d, c) == latest[d][<<1, Rendering[c]>>].status \in Failures

BeginRetry(p) ==
    /\ At(p, "idle")
    /\ run' = [run EXCEPT ![p] = [Idle EXCEPT !.step = "next",
                 !.cand = source, !.todo = {d \in Docs : RetrySelects(d, source[d])}]]
    /\ UNCHANGED <<changes, source, latest, objects, mail>>

\* the next candidate, with nothing kept of this one but its result
TakeNext(r) == [r EXCEPT !.step = "next", !.doc = None, !.prior = {},
                         !.version = 1, !.tries = 0, !.error = "FAILED"]

\* mutant: a failed candidate goes back on the list
SettledAgain(r, d, result) ==
    [TakeNext(r) EXCEPT !.todo = IF result \in Failures THEN @ ELSE @ \ {d},
                        !.result = [@ EXCEPT ![d] = result]]

Settled(r, d, result) ==
    [TakeNext(r) EXCEPT !.todo = @ \ {d}, !.result = [@ EXCEPT ![d] = result]]

AlreadyPublished(p, d) ==
    /\ At(p, "next") /\ d \in run[p].todo
    /\ \E k \in Current(d) : IsAlready(d, k, run[p].cand[d])
    /\ run' = [run EXCEPT ![p] = Settled(@, d, "ALREADY_PUBLISHED")]
    /\ UNCHANGED <<changes, source, latest, objects, mail>>

\* the candidate becomes the version after the current one and is rendered again
PrepareFor(p, d, prior, version) ==
    /\ version <= MaxVersion
    /\ run' = [run EXCEPT ![p] =
         [@ EXCEPT !.doc = d, !.prior = prior, !.version = version,
            !.step = IF run[p].cand[d] \in Drafts THEN "fail" ELSE "record"]]
    /\ UNCHANGED <<changes, source, latest, objects, mail>>

Prepare(p, d) ==
    /\ At(p, "next") /\ d \in run[p].todo
    /\ \/ Current(d) = {} /\ PrepareFor(p, d, {}, 1)
       \/ \E k \in Current(d) : /\ ~IsAlready(d, k, run[p].cand[d])
                                /\ PrepareFor(p, d, {k}, k[1] + 1)

AppendRow(p, status) ==
    latest' = Appended(run[p].doc, CandKey(p), status, run[p].cand[run[p].doc])

RecordPublishing(p) ==
    /\ At(p, "record")
    /\ AppendRow(p, "PUBLISHING")
    /\ run' = [run EXCEPT ![p].step = "upload"]
    /\ UNCHANGED <<changes, source, objects, mail>>

UploadAgain(r) ==
    IF r.tries < MaxRetries THEN [r EXCEPT !.tries = @ + 1]
    ELSE [r EXCEPT !.step = "fail"]

\* put_pdf returns: the PDF is stored, or something else is
Upload(p) ==
    /\ At(p, "upload")
    /\ \E bytes \in {CandKey(p)[2], "corrupt"} :
          objects' = [objects EXCEPT ![run[p].doc][run[p].version] = bytes]
    /\ run' = [run EXCEPT ![p].step = "verify"]
    /\ UNCHANGED <<changes, source, latest, mail>>

\* put_pdf raises, stored or not: transient errors are tried again, others not
UploadRaises(p) ==
    /\ At(p, "upload")
    /\ \E bytes \in {CandKey(p)[2], objects[run[p].doc][run[p].version]} :
          objects' = [objects EXCEPT ![run[p].doc][run[p].version] = bytes]
    /\ \/ run' = [run EXCEPT ![p] = UploadAgain(@)]
       \/ run' = [run EXCEPT ![p].step = "fail"]
    /\ UNCHANGED <<changes, source, latest, mail>>

\* mutant: the object is not read back
IsVerifiedUnread(p) == TRUE

\* head, download and _verify_storage: what is stored is what was rendered
IsVerified(p) == objects[run[p].doc][run[p].version] = CandKey(p)[2]

AfterVerify(r) ==
    [r EXCEPT !.step = IF r.prior = {} THEN "publish" ELSE "supersede"]

Verify(p) ==
    /\ At(p, "verify")
    /\ run' = [run EXCEPT ![p] =
          IF IsVerified(p) THEN AfterVerify(@)
          ELSE [@ EXCEPT !.step = "fail",
                         !.error = "STORAGE_VERIFICATION_FAILED"]]
    /\ UNCHANGED <<changes, source, latest, objects, mail>>

VerifyRaises(p) ==
    /\ At(p, "verify")
    /\ run' = [run EXCEPT ![p].step = "fail"]
    /\ UNCHANGED <<changes, source, latest, objects, mail>>

Supersede(p) ==
    /\ At(p, "supersede")
    /\ \E k \in run[p].prior :
          latest' = Appended(run[p].doc, k, "SUPERSEDED",
                             latest[run[p].doc][k].content)
    /\ run' = [run EXCEPT ![p].step = "publish"]
    /\ UNCHANGED <<changes, source, objects, mail>>

Publish(p) ==
    /\ At(p, "publish")
    /\ AppendRow(p, "PUBLISHED")
    /\ run' = [run EXCEPT ![p] = Settled(@, run[p].doc, "PUBLISHED")]
    /\ UNCHANGED <<changes, source, objects, mail>>

Fail(p) ==
    /\ At(p, "fail")
    /\ AppendRow(p, run[p].error)
    /\ run' = [run EXCEPT ![p] = Settled(@, run[p].doc, run[p].error)]
    /\ UNCHANGED <<changes, source, objects, mail>>

\* the batch result is returned
Finish(p) ==
    /\ At(p, "next") /\ run[p].todo = {}
    /\ run' = [run EXCEPT ![p] = Idle]
    /\ UNCHANGED <<changes, source, latest, objects, mail>>

\* the process dies, or raises what no handler catches: a botocore error, a
\* locked database
Abort(p) ==
    /\ ~At(p, "idle")
    /\ run' = [run EXCEPT ![p] = Idle]
    /\ UNCHANGED <<changes, source, latest, objects, mail>>

----------------------------------------------------------------------------
(* An email package: built from current publications, loaded before a send *)

NoMail == [step |-> "idle", left |-> {}, cand |-> [d \in Docs |-> None], doc |-> None,
           bytes |-> [d \in Docs |-> None]]

BeginPackage(m) ==
    /\ mail[m].step = "idle"
    /\ mail' = [mail EXCEPT ![m] =
                  [NoMail EXCEPT !.step = "build", !.left = Docs,
                                   !.cand = source]]
    /\ UNCHANGED <<changes, source, latest, objects, run>>

\* published_refs: the current publication has the candidate's document_hash,
\* which is the hash of version 1, and its figures
IsOffered(d, c) ==
    \E k \in Current(d) : /\ k = <<1, Rendering[c]>>
                          /\ Figures[latest[d][k].content] = Figures[c]

\* a document that is not offered leaves the package without its third
\* attachment: it is blocked
ReadRef(m, d) ==
    /\ mail[m].step = "build" /\ d \in mail[m].left
    /\ \/ /\ ~IsOffered(d, mail[m].cand[d])
          /\ mail' = [mail EXCEPT ![m] = NoMail]
       \/ /\ IsOffered(d, mail[m].cand[d]) /\ mail[m].left # {d}
          /\ mail' = [mail EXCEPT ![m].left = @ \ {d}]
       \/ /\ IsOffered(d, mail[m].cand[d]) /\ mail[m].left = {d}
          /\ mail' = [mail EXCEPT ![m].step = "load", ![m].left = Docs]
    /\ UNCHANGED <<changes, source, latest, objects, run>>

\* the reference is still the current publication
IsFresh(m, d) == <<1, Rendering[mail[m].cand[d]]>> \in Current(d)

\* PublicationAttachmentLoader.load: the registry first, the object after it
LoadRef(m, d) ==
    /\ mail[m].step = "load" /\ d \in mail[m].left
    /\ mail' = [mail EXCEPT ![m] =
          IF IsFresh(m, d) THEN [@ EXCEPT !.step = "fetch", !.doc = d] ELSE NoMail]
    /\ UNCHANGED <<changes, source, latest, objects, run>>

\* mutant: any stored bytes are attached
IsAttachmentAny(m, bytes) == bytes # None

\* the bytes have the content_hash of the reference
IsAttachment(m, bytes) == bytes = Rendering[mail[m].cand[mail[m].doc]]

Attach(a, bytes) ==
    [a EXCEPT !.step = IF a.left = {a.doc} THEN "loaded" ELSE "load",
              !.left = @ \ {a.doc}, !.doc = None,
              !.bytes = [@ EXCEPT ![a.doc] = bytes]]

FetchObject(m) ==
    /\ mail[m].step = "fetch"
    /\ LET bytes == objects[mail[m].doc][1] IN
       mail' = [mail EXCEPT ![m] =
                 IF IsAttachment(m, bytes) THEN Attach(@, bytes) ELSE NoMail]
    /\ UNCHANGED <<changes, source, latest, objects, run>>

\* the send ends, or an exception ends it
EndPackage(m) ==
    /\ mail[m].step # "idle"
    /\ mail' = [mail EXCEPT ![m] = NoMail]
    /\ UNCHANGED <<changes, source, latest, objects, run>>

----------------------------------------------------------------------------
(* Specification *)

\* orders, overrides or legal data change what the document says
ChangeSource(d) ==
    /\ changes < MaxChanges
    /\ changes' = changes + 1
    /\ \E c \in Contents \ {source[d]} : source' = [source EXCEPT ![d] = c]
    /\ UNCHANGED <<latest, objects, run, mail>>

Init ==
    /\ changes = 0
    /\ source \in [Docs -> Contents]
    /\ latest = [d \in Docs |-> [k \in Keys |->
                   [status |-> None, content |-> None]]]
    /\ objects = [d \in Docs |-> [v \in Versions |-> None]]
    /\ run = [p \in Publishers |-> Idle]
    /\ mail = [m \in Packages |-> NoMail]

\* a run under way, one candidate after the other to the batch result
Progress(p) ==
    \/ \E d \in Docs : AlreadyPublished(p, d) \/ Prepare(p, d)
    \/ RecordPublishing(p) \/ Upload(p) \/ UploadRaises(p)
    \/ Verify(p) \/ VerifyRaises(p)
    \/ Supersede(p) \/ Publish(p) \/ Fail(p) \/ Finish(p)

PublisherStep(p) ==
    BeginPublish(p) \/ BeginRetry(p) \/ Progress(p) \/ Abort(p)

PackageStep(m) ==
    \/ BeginPackage(m)
    \/ \E d \in Docs : ReadRef(m, d) \/ LoadRef(m, d)
    \/ FetchObject(m) \/ EndPackage(m)

Next ==
    \/ \E d \in Docs : ChangeSource(d)
    \/ \E p \in Publishers : PublisherStep(p)
    \/ \E m \in Packages : PackageStep(m)

Spec == Init /\ [][Next]_vars

\* a process that runs takes its next step: each storage call returns or raises
FairSpec == Spec /\ \A p \in Publishers : WF_vars(Progress(p))

----------------------------------------------------------------------------
(* Properties *)

\* Types of the archive's variables.
TypeOK ==
    /\ changes \in 0 .. MaxChanges
    /\ source \in [Docs -> Contents]
    /\ latest \in [Docs -> [Keys -> Rows]]
    /\ objects \in [Docs -> [Versions -> Pdfs \cup {None, "corrupt"}]]
    /\ run \in [Publishers -> Runs]
    /\ mail \in [Packages -> Mails]

\* A PUBLISHED row names what the store holds: uploads that failed, were retried
\* or stored something else, crashes and reused versions never come under it
\* (archive.py:337-363).  Test: storage_hash_mismatch_never_marks_published.
CurrentIsStored ==
    \A d \in Docs : \A k \in Published(d) : objects[d][k[1]] = k[2]

\* A document has at most one published version, wherever a run stopped: current
\* never has to choose (archive.py:353-363, publishing.py:466-473).
UniqueCurrent ==
    \A d \in Docs : \A j, k \in Published(d) : j = k

Busy == Steps \ {"idle", "next"}

\* the publication publisher p works on
RunInv(p) ==
    LET r == run[p] IN
    /\ r.step # "idle" => r.cand \in [Docs -> Contents]
    /\ r.step \in Busy =>
          /\ r.doc \in Docs
          /\ \/ r.prior = {} /\ r.version = 1
             \/ \E k \in Keys : r.prior = {k} /\ r.version = k[1] + 1
          /\ Published(r.doc) = IF r.step = "publish" THEN {} ELSE r.prior
          /\ r.step # "publish" =>
                \A k \in r.prior : latest[r.doc][k].content # r.cand[r.doc]
          /\ r.step \in {"supersede", "publish"} =>
                objects[r.doc][r.version] = Rendering[r.cand[r.doc]]

\* The inductive invariant: a run works on the version after the only published
\* one, which stays as the run found it until its successor is in the store.
ArchiveInv ==
    TypeOK /\ CurrentIsStored /\ UniqueCurrent /\ \A p \in Publishers : RunInv(p)

\* A published row is withdrawn only for a next version that says something else
\* and whose PDF is in the store: neither a failed upload nor a publication of
\* unchanged data withdraws it (archive.py:265-354).
WithdrawnForSuccessor ==
    [][\A d \in Docs, k \in Keys :
         k \in Published(d) /\ k \notin Published(d)' =>
           \E p \in Publishers :
              /\ run[p].doc = d
              /\ run[p].cand[d] # latest[d][k].content
              /\ run[p].version = k[1] + 1
              /\ objects[d][k[1] + 1] = Rendering[run[p].cand[d]]]_vars

\* When a batch ends, every document it reports as published or already published
\* has the pages of its candidate as the current publication: what the activation
\* script concludes from failed = 0 (archive.py:192-223).
BatchIsCurrent ==
    \A p \in Publishers, d \in Docs :
       (At(p, "next") /\ run[p].result[d] \in {"PUBLISHED", "ALREADY_PUBLISHED"})
         => \E k \in Current(d) : k[2] = Rendering[run[p].cand[d]]

\* What a loaded package attaches are the pages its references were taken for,
\* also when a publisher withdraws a document, dies and reuses its object between
\* the registry read and the download (attachments.py:94-123).
AttachmentsMatch ==
    \A m \in Packages : mail[m].step = "loaded" =>
       \A d \in Docs : mail[m].bytes[d] = Rendering[mail[m].cand[d]]

\* Every batch ends: an upload is tried a bounded number of times and a failed
\* candidate leaves its place to the next (archive.py:377-387).
BatchEnds == \A p \in Publishers : ~At(p, "idle") ~> At(p, "idle")

----------------------------------------------------------------------------
(* What the code's names and tests say and the code does not do *)

\* A document whose current publication was made from today's data is offered to
\* the Email Center (runtime.py:121-149).
PublishedIsOffered ==
    \A d \in Docs : \A k \in Current(d) :
       latest[d][k].content = source[d] => IsOffered(d, source[d])

=============================================================================
