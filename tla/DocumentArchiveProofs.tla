------------------------- MODULE DocumentArchiveProofs -------------------------
(***************************************************************************)
(* With one publisher at a time, what DocumentArchive promises of the      *)
(* registry holds for every number of documents, contents and versions.    *)
(***************************************************************************)
EXTENDS DocumentArchive, TLAPS

USE ArchiveAssumption

\* one process publishes: the activation script, run by one operator
OnePublisher == \A p, q \in Publishers : p = q

----------------------------------------------------------------------------
(* Types *)

LEMMA IdleType == Idle \in Runs /\ NoMail \in Mails
BY DEF Idle, NoMail, Runs, Mails, Steps, Failures, Results, Versions

LEMMA CandKeyType ==
    ASSUME TypeOK, NEW p \in Publishers, run[p].doc \in Docs,
           run[p].cand \in [Docs -> Contents]
    PROVE  CandKey(p) \in Keys
BY DEF CandKey, TypeOK, Runs, Keys

\* A new row keeps the registry a registry.
LEMMA AppendedType ==
    ASSUME latest \in [Docs -> [Keys -> Rows]], NEW d \in Docs, NEW k \in Keys,
           NEW st \in Statuses, NEW c \in Contents \cup {None}
    PROVE  Appended(d, k, st, c) \in [Docs -> [Keys -> Rows]]
BY DEF Appended, Rows

\* Giving up a candidate keeps a run a run.
LEMMA TakeNextType == ASSUME NEW r \in Runs PROVE TakeNext(r) \in Runs
<1>1. "next" \in Steps /\ "FAILED" \in Failures
  BY DEF Steps, Failures
<1>2. 1 \in Versions /\ 0 \in 0 .. MaxRetries
  BY DEF Versions
<1>3. {} \in SUBSET Keys /\ None \in Docs \cup {None}
  OBVIOUS
<1> QED BY <1>1, <1>2, <1>3 DEF TakeNext, Runs

LEMMA SettledType ==
    ASSUME NEW r \in Runs, NEW d \in Docs, NEW x \in Results
    PROVE  Settled(r, d, x) \in Runs
<1>1. TakeNext(r) \in Runs
  BY TakeNextType
<1>2. \A u \in Runs : [u EXCEPT !.todo = @ \ {d},
                              !.result = [@ EXCEPT ![d] = x]] \in Runs
  BY DEF Runs
<1> QED BY <1>1, <1>2 DEF Settled

LEMMA RunStepType ==
    ASSUME NEW r \in Runs, NEW st \in Steps
    PROVE  [r EXCEPT !.step = st] \in Runs
BY DEF Runs


\* a run under way has its candidates, and one of them in hand
HasWork(r) ==
    /\ r.step # "idle" => r.cand \in [Docs -> Contents]
    /\ r.step \in Busy => r.doc \in Docs

TypeInv == TypeOK /\ \A p \in Publishers : HasWork(run[p])

\* What a step makes of one run is all that changes in the runs.
LEMMA RunUpdate ==
    ASSUME TypeInv, NEW p \in Publishers, NEW r \in Runs, HasWork(r),
           run' = [run EXCEPT ![p] = r]
    PROVE  /\ run' \in [Publishers -> Runs]
           /\ \A q \in Publishers : HasWork(run'[q])
BY DEF TypeInv, TypeOK

\* Every later step of a publication keeps its candidate.
LEMMA StepUpdate ==
    ASSUME TypeInv, NEW p \in Publishers, run[p].step \in Busy,
           NEW st \in Busy, run' = [run EXCEPT ![p].step = st]
    PROVE  /\ run' \in [Publishers -> Runs]
           /\ \A q \in Publishers : HasWork(run'[q])
<1> DEFINE r == [run[p] EXCEPT !.step = st]
<1>1. run[p] \in Runs /\ HasWork(run[p])
  BY DEF TypeInv, TypeOK
<1>2. r \in Runs
  BY <1>1, RunStepType DEF Busy
<1>3. HasWork(r)
  BY <1>1 DEF HasWork, Busy, Runs
<1>4. run' = [run EXCEPT ![p] = r]
  OBVIOUS
<1> HIDE DEF r
<1> QED BY <1>2, <1>3, <1>4, RunUpdate

\* So does giving the candidate up for the next.
LEMMA SettledUpdate ==
    ASSUME TypeInv, NEW p \in Publishers, run[p].step # "idle", NEW d \in Docs,
           NEW x \in Results, run' = [run EXCEPT ![p] = Settled(run[p], d, x)]
    PROVE  /\ run' \in [Publishers -> Runs]
           /\ \A q \in Publishers : HasWork(run'[q])
<1>1. run[p] \in Runs /\ HasWork(run[p])
  BY DEF TypeInv, TypeOK
<1>2. Settled(run[p], d, x) \in Runs
  BY <1>1, SettledType
<1>3. HasWork(Settled(run[p], d, x))
  BY <1>1 DEF HasWork, Settled, TakeNext, Busy, Runs
<1> QED BY <1>2, <1>3, RunUpdate

\* And ending the run.
LEMMA IdleUpdate ==
    ASSUME TypeInv, NEW p \in Publishers, run' = [run EXCEPT ![p] = Idle]
    PROVE  /\ run' \in [Publishers -> Runs]
           /\ \A q \in Publishers : HasWork(run'[q])
<1>1. HasWork(Idle)
  BY DEF HasWork, Idle, Busy
<1> QED BY <1>1, IdleType, RunUpdate

\* And starting one.
LEMMA BeginUpdate ==
    ASSUME TypeInv, NEW p \in Publishers, NEW S \in SUBSET Docs,
           run' = [run EXCEPT ![p] = [Idle EXCEPT !.step = "next",
                                        !.cand = source, !.todo = S]]
    PROVE  /\ run' \in [Publishers -> Runs]
           /\ \A q \in Publishers : HasWork(run'[q])
<1> DEFINE r == [Idle EXCEPT !.step = "next", !.cand = source, !.todo = S]
<1>0. source \in [Docs -> Contents]
  BY DEF TypeInv, TypeOK
<1>1. r \in Runs
  BY <1>0, IdleType DEF Runs, Steps
<1>2. HasWork(r)
  BY <1>0, IdleType DEF HasWork, Busy, Runs
<1> HIDE DEF r
<1> QED BY <1>1, <1>2, RunUpdate DEF r

LEMMA PrepareUpdate ==
    ASSUME TypeInv, NEW p \in Publishers, NEW d \in Docs,
           NEW prior \in SUBSET Keys, NEW v \in Nat \ {0},
           run[p].step = "next", PrepareFor(p, d, prior, v)
    PROVE  /\ run' \in [Publishers -> Runs]
           /\ \A q \in Publishers : HasWork(run'[q])
<1> DEFINE st == IF run[p].cand[d] \in Drafts THEN "fail" ELSE "record"
           r  == [run[p] EXCEPT !.doc = d, !.prior = prior, !.version = v,
                                !.step = st]
<1>1. run[p] \in Runs /\ HasWork(run[p])
  BY DEF TypeInv, TypeOK
<1>2. st \in Steps /\ st # "idle" /\ v \in Versions
  BY DEF PrepareFor, Steps, Versions
<1>3. run' = [run EXCEPT ![p] = r]
  BY DEF PrepareFor
<1> HIDE DEF st
<1>4. r \in Runs
  BY <1>1, <1>2 DEF Runs
<1>5. HasWork(r)
  BY <1>1, <1>2 DEF HasWork, Runs
<1> HIDE DEF r
<1> QED BY <1>3, <1>4, <1>5, RunUpdate


----------------------------------------------------------------------------
(* Every step keeps the types *)

LEMMA TypeInit == Init => TypeInv
<1> SUFFICES ASSUME Init PROVE TypeInv
  OBVIOUS
<1>1. run \in [Publishers -> Runs] /\ mail \in [Packages -> Mails]
  BY IdleType DEF Init
<1>2. \A p \in Publishers : HasWork(run[p])
  BY DEF Init, HasWork, Idle, Busy
<1>3. latest \in [Docs -> [Keys -> Rows]]
  BY DEF Init, Rows, Statuses
<1>4. changes \in 0 .. MaxChanges /\ source \in [Docs -> Contents]
  BY DEF Init
<1>5. objects \in [Docs -> [Versions -> Pdfs \cup {None, "corrupt"}]]
  BY DEF Init
<1> QED BY <1>1, <1>2, <1>3, <1>4, <1>5 DEF TypeInv, TypeOK

\* What a publisher stores is a PDF or is not.
LEMMA ObjectsType ==
    ASSUME TypeInv, NEW d \in Docs, NEW v \in Versions,
           NEW b \in Pdfs \cup {None, "corrupt"},
           objects' = [objects EXCEPT ![d][v] = b]
    PROVE  objects' \in [Docs -> [Versions -> Pdfs \cup {None, "corrupt"}]]
BY DEF TypeInv, TypeOK

LEMMA PublisherType ==
    ASSUME TypeInv, NEW p \in Publishers, PublisherStep(p)
    PROVE  TypeInv'
<1> DEFINE r == run[p]
           RunOK == /\ run' \in [Publishers -> Runs]
                    /\ \A q \in Publishers : HasWork(run'[q])
<1>0. r \in Runs /\ HasWork(r)
  BY DEF TypeInv, TypeOK
<1>1. ASSUME BeginPublish(p) PROVE TypeInv'
  <2>1. PICK S \in SUBSET Docs :
          run' = [run EXCEPT ![p] = [Idle EXCEPT !.step = "next", !.todo = S,
                                                 !.cand = source]]
    BY <1>1, Zenon DEF BeginPublish
  <2>2. run' = [run EXCEPT ![p] = [Idle EXCEPT !.step = "next",
                                     !.cand = source, !.todo = S]]
    BY <2>1 DEF Idle
  <2>3. RunOK
    BY <2>2, BeginUpdate
  <2> QED BY <2>3, <1>1 DEF BeginPublish, TypeInv, TypeOK
<1>2. ASSUME BeginRetry(p) PROVE TypeInv'
  <2> DEFINE S == {d \in Docs : RetrySelects(d, source[d])}
  <2>1. run' = [run EXCEPT ![p] = [Idle EXCEPT !.step = "next",
                                     !.cand = source, !.todo = S]]
    BY <1>2 DEF BeginRetry
  <2>2. S \in SUBSET Docs
    OBVIOUS
  <2> HIDE DEF S
  <2>3. RunOK
    BY <2>1, <2>2, BeginUpdate
  <2> QED BY <2>3, <1>2 DEF BeginRetry, TypeInv, TypeOK
<1>3. ASSUME NEW d \in Docs, AlreadyPublished(p, d) PROVE TypeInv'
  <2>1. RunOK
    BY <1>3, SettledUpdate DEF AlreadyPublished, At, Results
  <2> QED BY <2>1, <1>3 DEF AlreadyPublished, TypeInv, TypeOK
<1>4. ASSUME NEW d \in Docs, Prepare(p, d) PROVE TypeInv'
  <2>1. PICK prior \in SUBSET Keys, v \in Nat \ {0} : PrepareFor(p, d, prior, v)
    <3>1. \A k \in Keys : k[1] + 1 \in Nat \ {0}
      BY DEF Keys, Versions
    <3>2. CASE PrepareFor(p, d, {}, 1)
      BY <3>2
    <3>3. CASE \E k \in Current(d) : PrepareFor(p, d, {k}, k[1] + 1)
      BY <3>1, <3>3 DEF Current, Published
    <3> QED BY <1>4, <3>2, <3>3 DEF Prepare
  <2>2. RunOK
    BY <1>4, <2>1, PrepareUpdate DEF Prepare, At
  <2> QED BY <2>1, <2>2 DEF PrepareFor, TypeInv, TypeOK
<1>5. ASSUME r.step \in Busy PROVE CandKey(p) \in Keys /\ r.cand[r.doc] \in Contents
  BY <1>0, <1>5, CandKeyType DEF HasWork, Busy, TypeInv
<1>6. ASSUME NEW st \in Statuses, AppendRow(p, st), r.step \in Busy
      PROVE  latest' \in [Docs -> [Keys -> Rows]]
  BY <1>0, <1>5, <1>6, AppendedType DEF AppendRow, HasWork, TypeInv, TypeOK
<1>7. ASSUME NEW b \in Pdfs \cup {None, "corrupt"}, r.step \in Busy,
             objects' = [objects EXCEPT ![r.doc][r.version] = b]
      PROVE  objects' \in [Docs -> [Versions -> Pdfs \cup {None, "corrupt"}]]
  BY <1>0, <1>7, ObjectsType DEF HasWork, Runs
<1>8. ASSUME RecordPublishing(p) PROVE TypeInv'
  <2>1. r.step \in Busy
    BY <1>8 DEF RecordPublishing, At, Busy, Steps
  <2>2. RunOK
    BY <2>1, <1>8, StepUpdate DEF RecordPublishing, Busy, Steps
  <2>3. latest' \in [Docs -> [Keys -> Rows]]
    BY <2>1, <1>6, <1>8 DEF RecordPublishing, Statuses
  <2> QED BY <2>2, <2>3, <1>8 DEF RecordPublishing, TypeInv, TypeOK
<1>9. ASSUME Upload(p) PROVE TypeInv'
  <2>1. r.step \in Busy
    BY <1>9 DEF Upload, At, Busy, Steps
  <2>2. RunOK
    BY <2>1, <1>9, StepUpdate DEF Upload, Busy, Steps
  <2>3. CandKey(p)[2] \in Pdfs
    BY <2>1, <1>5 DEF Keys
  <2>4. objects' \in [Docs -> [Versions -> Pdfs \cup {None, "corrupt"}]]
    BY <2>1, <2>3, <1>7, <1>9 DEF Upload
  <2> QED BY <2>2, <2>4, <1>9 DEF Upload, TypeInv, TypeOK
<1>10. ASSUME UploadRaises(p) PROVE TypeInv'
  <2>1. r.step \in Busy
    BY <1>10 DEF UploadRaises, At, Busy, Steps
  <2>2. RunOK
    <3>1. CASE run' = [run EXCEPT ![p].step = "fail"]
      BY <2>1, <3>1, StepUpdate DEF Busy, Steps
    <3>2. CASE run' = [run EXCEPT ![p] = UploadAgain(r)]
      <4>1. CASE r.tries < MaxRetries
        <5> DEFINE u == [r EXCEPT !.tries = @ + 1]
        <5>1. run' = [run EXCEPT ![p] = u]
          BY <3>2, <4>1 DEF UploadAgain
        <5>2. r.tries + 1 \in 0 .. MaxRetries
          BY <1>0, <4>1 DEF Runs
        <5>3. u \in Runs
          BY <1>0, <5>2 DEF Runs
        <5>4. HasWork(u)
          BY <1>0 DEF HasWork, Runs
        <5> HIDE DEF u
        <5> QED BY <5>1, <5>3, <5>4, RunUpdate
      <4>2. CASE ~(r.tries < MaxRetries)
        <5>1. run' = [run EXCEPT ![p].step = "fail"]
          BY <3>2, <4>2 DEF UploadAgain
        <5> QED BY <2>1, <5>1, StepUpdate DEF Busy, Steps
      <4> QED BY <4>1, <4>2
    <3> QED BY <1>10, <3>1, <3>2 DEF UploadRaises
  <2>3. CandKey(p)[2] \in Pdfs /\ objects[r.doc][r.version] \in Pdfs \cup {None, "corrupt"}
    BY <2>1, <1>0, <1>5 DEF Keys, TypeInv, TypeOK, HasWork, Runs
  <2>4. objects' \in [Docs -> [Versions -> Pdfs \cup {None, "corrupt"}]]
    BY <2>1, <2>3, <1>7, <1>10 DEF UploadRaises
  <2> QED BY <2>2, <2>4, <1>10 DEF UploadRaises, TypeInv, TypeOK
<1>11. ASSUME Verify(p) PROVE TypeInv'
  <2>1. r.step \in Busy
    BY <1>11 DEF Verify, At, Busy, Steps
  <2>2. RunOK
    <3>1. CASE IsVerified(p)
      <4>1. PICK st \in Busy : run' = [run EXCEPT ![p].step = st]
        <5>1. PICK st : st = IF r.prior = {} THEN "publish" ELSE "supersede"
          OBVIOUS
        <5>2. run' = [run EXCEPT ![p].step = st]
          BY <1>11, <3>1, <5>1 DEF Verify, AfterVerify
        <5>3. st \in Busy
          BY <5>1 DEF Busy, Steps
        <5> QED BY <5>2, <5>3
      <4> QED BY <2>1, <4>1, StepUpdate
    <3>2. CASE ~IsVerified(p)
      <4> DEFINE u == [r EXCEPT !.step = "fail",
                                !.error = "STORAGE_VERIFICATION_FAILED"]
      <4>1. run' = [run EXCEPT ![p] = u]
        BY <1>11, <3>2 DEF Verify
      <4>2. u \in Runs
        BY <1>0 DEF Runs, Steps, Failures
      <4>3. HasWork(u)
        BY <1>0, <2>1 DEF HasWork, Runs, Busy
      <4> HIDE DEF u
      <4> QED BY <4>1, <4>2, <4>3, RunUpdate
    <3> QED BY <3>1, <3>2
  <2> QED BY <2>2, <1>11 DEF Verify, TypeInv, TypeOK
<1>12. ASSUME VerifyRaises(p) PROVE TypeInv'
  <2>1. RunOK
    BY <1>12, StepUpdate DEF VerifyRaises, At, Busy, Steps
  <2> QED BY <2>1, <1>12 DEF VerifyRaises, TypeInv, TypeOK
<1>13. ASSUME Supersede(p) PROVE TypeInv'
  <2>1. r.step \in Busy
    BY <1>13 DEF Supersede, At, Busy, Steps
  <2>2. RunOK
    BY <2>1, <1>13, StepUpdate DEF Supersede, Busy, Steps
  <2>3. PICK k \in r.prior : latest' = Appended(r.doc, k, "SUPERSEDED",
                                                latest[r.doc][k].content)
    BY <1>13, Zenon DEF Supersede
  <2>4. k \in Keys /\ r.doc \in Docs
    BY <2>1, <1>0 DEF HasWork, Runs
  <2>5. latest[r.doc][k].content \in Contents \cup {None}
    BY <2>4 DEF TypeInv, TypeOK, Rows
  <2>6. latest' \in [Docs -> [Keys -> Rows]]
    BY <2>3, <2>4, <2>5, AppendedType DEF TypeInv, TypeOK, Statuses
  <2> QED BY <2>2, <2>6, <1>13 DEF Supersede, TypeInv, TypeOK
<1>14. ASSUME Publish(p) PROVE TypeInv'
  <2>1. r.step \in Busy /\ r.step # "idle" /\ r.doc \in Docs
    BY <1>0, <1>14 DEF Publish, At, Busy, Steps, HasWork
  <2>2. RunOK
    BY <2>1, <1>14, SettledUpdate DEF Publish, Results
  <2>3. latest' \in [Docs -> [Keys -> Rows]]
    BY <2>1, <1>6, <1>14 DEF Publish, Statuses
  <2> QED BY <2>2, <2>3, <1>14 DEF Publish, TypeInv, TypeOK
<1>15. ASSUME Fail(p) PROVE TypeInv'
  <2>1. r.step \in Busy /\ r.step # "idle" /\ r.doc \in Docs
    BY <1>0, <1>15 DEF Fail, At, Busy, Steps, HasWork
  <2>2. r.error \in Results /\ r.error \in Statuses
    BY <1>0 DEF Runs, Results, Statuses
  <2>3. RunOK
    BY <2>1, <2>2, <1>15, SettledUpdate DEF Fail
  <2>4. latest' \in [Docs -> [Keys -> Rows]]
    BY <2>1, <2>2, <1>6, <1>15 DEF Fail
  <2> QED BY <2>3, <2>4, <1>15 DEF Fail, TypeInv, TypeOK
<1>16. ASSUME Finish(p) \/ Abort(p) PROVE TypeInv'
  <2>1. RunOK
    BY <1>16, IdleUpdate DEF Finish, Abort
  <2> QED BY <2>1, <1>16 DEF Finish, Abort, TypeInv, TypeOK
<1> QED
  BY <1>1, <1>2, <1>3, <1>4, <1>8, <1>9, <1>10, <1>11, <1>12, <1>13, <1>14,
     <1>15, <1>16 DEF PublisherStep, Progress


\* What a package has loaded so far, and what it still has to load.
MailInv(m) ==
    LET a == mail[m] IN
    /\ a.step # "idle" => a.cand \in [Docs -> Contents]
    /\ a.step = "fetch" => a.doc \in Docs
    /\ a.step = "loaded" => a.left = {}
    /\ a.step \in {"load", "fetch", "loaded"} =>
         \A d \in Docs \ a.left : a.bytes[d] = Rendering[a.cand[d]]

MailsInv == TypeInv /\ \A m \in Packages : MailInv(m)

LEMMA MailUpdate ==
    ASSUME NEW m \in Packages, NEW a \in Mails, MailsInv,
           mail' = [mail EXCEPT ![m] = a],
           a.step # "idle" => a.cand \in [Docs -> Contents],
           a.step = "fetch" => a.doc \in Docs,
           a.step = "loaded" => a.left = {},
           a.step \in {"load", "fetch", "loaded"} =>
             \A d \in Docs \ a.left : a.bytes[d] = Rendering[a.cand[d]]
    PROVE  mail' \in [Packages -> Mails] /\ \A n \in Packages : MailInv(n)'
<1>1. mail \in [Packages -> Mails]
  BY DEF MailsInv, TypeInv, TypeOK
<1>2. ASSUME NEW n \in Packages PROVE MailInv(n)'
  <2>1. CASE n = m
    BY <1>1, <2>1 DEF MailInv
  <2>2. CASE n # m
    <3>1. mail'[n] = mail[n]
      BY <1>1, <2>2
    <3> QED BY <3>1 DEF MailsInv, MailInv
  <2> QED BY <2>1, <2>2
<1> QED BY <1>1, <1>2

\* A package given up keeps nothing.
LEMMA NoMailUpdate ==
    ASSUME NEW m \in Packages, MailsInv, mail' = [mail EXCEPT ![m] = NoMail]
    PROVE  mail' \in [Packages -> Mails] /\ \A n \in Packages : MailInv(n)'
<1>1. NoMail.step = "idle"
  BY DEF NoMail
<1> QED BY <1>1, IdleType, MailUpdate

\* An attached document leaves the list, and the package is loaded with the last.
LEMMA AttachType ==
    ASSUME NEW a \in Mails, a.doc \in Docs, NEW x \in Pdfs \cup {None, "corrupt"}
    PROVE  LET b == Attach(a, x) IN
           /\ b \in Mails /\ b.step \in {"load", "loaded"}
           /\ b.step = "loaded" => b.left = {}
           /\ b.left = a.left \ {a.doc} /\ b.cand = a.cand
           /\ b.bytes = [a.bytes EXCEPT ![a.doc] = x]
<1> DEFINE st == IF a.left = {a.doc} THEN "loaded" ELSE "load"
           l  == a.left \ {a.doc}
           y  == [a.bytes EXCEPT ![a.doc] = x]
           b  == [a EXCEPT !.step = st, !.left = l, !.doc = None, !.bytes = y]
<1>1. st \in {"load", "loaded"} /\ (st = "loaded" => l = {})
  OBVIOUS
<1>2. l \in SUBSET Docs /\ y \in [Docs -> Pdfs \cup {None, "corrupt"}]
  BY DEF Mails
<1>3. Attach(a, x) = b
  BY DEF Attach
<1> HIDE DEF st, l, y
<1>4. b \in Mails
  BY <1>1, <1>2 DEF Mails
<1>5. b.step = st /\ b.left = l /\ b.cand = a.cand /\ b.bytes = y
  BY DEF Mails
<1> HIDE DEF b
<1> QED BY <1>1, <1>3, <1>4, <1>5 DEF l, y

LEMMA PackageInv ==
    ASSUME MailsInv, NEW m \in Packages, PackageStep(m)
    PROVE  MailsInv'
<1> DEFINE a == mail[m]
           MailOK == mail' \in [Packages -> Mails] /\ \A n \in Packages : MailInv(n)'
<1>0. a \in Mails /\ MailInv(m) /\ source \in [Docs -> Contents]
  BY DEF MailsInv, TypeInv, TypeOK
<1>1. SUFFICES MailOK /\ UNCHANGED <<changes, source, latest, objects, run>>
  BY DEF MailsInv, TypeInv, TypeOK
<1>2. UNCHANGED <<changes, source, latest, objects, run>>
  BY DEF PackageStep, BeginPackage, ReadRef, LoadRef, FetchObject, EndPackage
<1>3. CASE BeginPackage(m)
  <2> DEFINE b == [NoMail EXCEPT !.step = "build", !.left = Docs, !.cand = source]
  <2>1. mail' = [mail EXCEPT ![m] = b]
    BY <1>3 DEF BeginPackage
  <2>2. b \in Mails /\ b.step = "build" /\ b.cand = source
    BY <1>0, IdleType DEF Mails
  <2> HIDE DEF b
  <2> QED BY <1>0, <1>2, <2>1, <2>2, MailUpdate
<1>4. ASSUME NEW d \in Docs, ReadRef(m, d) PROVE MailOK
  <2>1. CASE ~IsOffered(d, a.cand[d])
    BY <2>1, <1>4, NoMailUpdate DEF ReadRef
  <2>2. CASE IsOffered(d, a.cand[d]) /\ a.left = {d}
    <3> DEFINE b == [a EXCEPT !.step = "load", !.left = Docs]
    <3>1. mail' = [mail EXCEPT ![m] = b]
      BY <1>4, <2>2 DEF ReadRef
    <3>2. b \in Mails /\ b.step = "load" /\ b.left = Docs /\ b.cand = a.cand
      BY <1>0 DEF Mails
    <3>3. a.cand \in [Docs -> Contents]
      BY <1>0, <1>4 DEF ReadRef, MailInv
    <3> HIDE DEF b
    <3> QED BY <3>1, <3>2, <3>3, MailUpdate
  <2>3. CASE IsOffered(d, a.cand[d]) /\ a.left # {d}
    <3> DEFINE b == [a EXCEPT !.left = @ \ {d}]
    <3>1. mail' = [mail EXCEPT ![m] = b]
      BY <1>4, <2>3, Zenon DEF ReadRef
    <3>2. b \in Mails /\ b.step = "build" /\ b.cand = a.cand
      BY <1>0, <1>4 DEF Mails, ReadRef
    <3>3. a.cand \in [Docs -> Contents]
      BY <1>0, <1>4 DEF ReadRef, MailInv
    <3> HIDE DEF b
    <3> QED BY <3>1, <3>2, <3>3, MailUpdate
  <2> QED BY <2>1, <2>2, <2>3
<1>5. ASSUME NEW d \in Docs, LoadRef(m, d) PROVE MailOK
  <2>1. CASE ~IsFresh(m, d)
    BY <2>1, <1>5, NoMailUpdate DEF LoadRef
  <2>2. CASE IsFresh(m, d)
    <3> DEFINE b == [a EXCEPT !.step = "fetch", !.doc = d]
    <3>1. mail' = [mail EXCEPT ![m] = b]
      BY <1>5, <2>2 DEF LoadRef
    <3>2. /\ b \in Mails /\ b.step = "fetch" /\ b.doc = d /\ b.left = a.left
          /\ b.cand = a.cand /\ b.bytes = a.bytes
      BY <1>0 DEF Mails
    <3>3. a.cand \in [Docs -> Contents]
      BY <1>0, <1>5 DEF LoadRef, MailInv
    <3>4. \A e \in Docs \ a.left : a.bytes[e] = Rendering[a.cand[e]]
      BY <1>0, <1>5 DEF LoadRef, MailInv
    <3> HIDE DEF b
    <3> QED BY <3>1, <3>2, <3>3, <3>4, MailUpdate
  <2> QED BY <2>1, <2>2
<1>6. CASE FetchObject(m)
  <2> DEFINE d == a.doc
             x == objects[d][1]
             b == Attach(a, x)
  <2>1. d \in Docs /\ a.step = "fetch" /\ a.cand \in [Docs -> Contents]
    BY <1>0, <1>6 DEF FetchObject, MailInv
  <2>2. CASE ~IsAttachment(m, x)
    BY <1>2, <2>2, <1>6, NoMailUpdate DEF FetchObject
  <2>3. CASE IsAttachment(m, x)
    <3>1. mail' = [mail EXCEPT ![m] = b]
      BY <1>6, <2>3 DEF FetchObject
    <3>2. x = Rendering[a.cand[d]] /\ x \in Pdfs \cup {None, "corrupt"}
      BY <2>1, <2>3 DEF IsAttachment
    <3>3. /\ b \in Mails /\ b.step \in {"load", "loaded"}
          /\ b.step = "loaded" => b.left = {}
          /\ b.left = a.left \ {d} /\ b.cand = a.cand
          /\ b.bytes = [a.bytes EXCEPT ![d] = x]
      <4>1. a \in Mails /\ a.doc = d /\ a.doc \in Docs
        BY <1>0, <2>1
      <4> QED BY <3>2, <4>1, AttachType
    <3>4. a.bytes \in [Docs -> Pdfs \cup {None, "corrupt"}]
      BY <1>0 DEF Mails
    <3>5. \A e \in Docs \ a.left : a.bytes[e] = Rendering[a.cand[e]]
      BY <1>0, <2>1 DEF MailInv
    <3> HIDE DEF b
    <3>6. ASSUME NEW e \in Docs \ b.left PROVE b.bytes[e] = Rendering[b.cand[e]]
      <4>1. CASE e = d
        BY <2>1, <3>2, <3>3, <3>4, <4>1
      <4>2. CASE e # d
        BY <3>3, <3>4, <3>5, <4>2
      <4> QED BY <4>1, <4>2
    <3>7. b.cand \in [Docs -> Contents] /\ b.step # "fetch"
      BY <2>1, <3>3
    <3> QED BY <1>2, <3>1, <3>3, <3>6, <3>7, MailUpdate
  <2> QED BY <2>2, <2>3
<1>7. CASE EndPackage(m)
  BY <1>2, <1>7, NoMailUpdate DEF EndPackage
<1> QED BY <1>2, <1>3, <1>4, <1>5, <1>6, <1>7 DEF PackageStep

LEMMA ChangeType ==
    ASSUME TypeInv, NEW d \in Docs, ChangeSource(d)
    PROVE  TypeInv'
BY DEF ChangeSource, TypeInv, TypeOK

LEMMA MailUnchanged ==
    ASSUME MailsInv, UNCHANGED mail
    PROVE  \A m \in Packages : MailInv(m)'
BY DEF MailsInv, MailInv

LEMMA MailsStep == MailsInv /\ [Next]_vars => MailsInv'
<1> SUFFICES ASSUME MailsInv, [Next]_vars PROVE MailsInv'
  OBVIOUS
<1>1. CASE UNCHANGED vars
  BY <1>1, MailUnchanged DEF vars, MailsInv, TypeInv, TypeOK
<1>2. ASSUME NEW d \in Docs, ChangeSource(d) PROVE MailsInv'
  BY <1>2, ChangeType, MailUnchanged DEF ChangeSource, MailsInv
<1>3. ASSUME NEW p \in Publishers, PublisherStep(p) PROVE MailsInv'
  <2>1. UNCHANGED mail
    BY <1>3 DEF PublisherStep, BeginPublish, BeginRetry, Progress, AlreadyPublished,
         Prepare, PrepareFor, RecordPublishing, Upload, UploadRaises, Verify,
         VerifyRaises, Supersede, Publish, Fail, Finish, Abort
  <2> QED BY <1>3, <2>1, PublisherType, MailUnchanged DEF MailsInv
<1>4. ASSUME NEW m \in Packages, PackageStep(m) PROVE MailsInv'
  BY <1>4, PackageInv
<1> QED BY <1>1, <1>2, <1>3, <1>4 DEF Next

LEMMA MailsInit == Init => MailsInv
<1> SUFFICES ASSUME Init PROVE \A m \in Packages : MailInv(m)
  BY TypeInit DEF MailsInv
<1> QED BY DEF Init, MailInv, NoMail

\* The archive's variables have their types, whoever publishes and stops where.
THEOREM ArchiveTypes == Spec => []TypeOK
<1>1. MailsInv => TypeOK
  BY DEF MailsInv, TypeInv
<1> QED BY <1>1, MailsInit, MailsStep, PTL DEF Spec

\* A loaded package holds the pages its references were taken for, with any number
\* of publishers withdrawing and overwriting documents under it.
THEOREM Attachments == Spec => []AttachmentsMatch
<1>1. MailsInv => AttachmentsMatch
  BY DEF MailsInv, MailInv, AttachmentsMatch
<1> QED BY <1>1, MailsInit, MailsStep, PTL DEF Spec


----------------------------------------------------------------------------
(* One publisher at a time: the registry *)

\* Two sets that differ in one element at most.
LEMMA OneDifference ==
    ASSUME NEW S, NEW A \in SUBSET S, NEW B \in SUBSET S, NEW k \in S,
           \A j \in S : j # k => (j \in B <=> j \in A)
    PROVE  /\ k \in B => B = A \cup {k}
           /\ k \notin B => B = A \ {k}
OBVIOUS

\* What an appended row does to the published rows and to the other rows.
LEMMA AppendedRows ==
    ASSUME latest \in [Docs -> [Keys -> Rows]], NEW d \in Docs, NEW k \in Keys,
           NEW st \in Statuses, NEW c, latest' = Appended(d, k, st, c)
    PROVE  /\ \A e \in Docs : e # d => Published(e)' = Published(e)
           /\ st = "PUBLISHED" => Published(d)' = Published(d) \cup {k}
           /\ st # "PUBLISHED" => Published(d)' = Published(d) \ {k}
           /\ \A e \in Docs, j \in Keys :
                 e # d \/ j # k => latest'[e][j] = latest[e][j]
<1>1. latest'[d][k].status = st
  BY DEF Appended
<1>2. \A e \in Docs, j \in Keys : e # d \/ j # k => latest'[e][j] = latest[e][j]
  BY DEF Appended
<1>3. \A e \in Docs : e # d => Published(e)' = Published(e)
  BY <1>2 DEF Published
<1>6. /\ Published(d) \subseteq Keys /\ Published(d)' \subseteq Keys
      /\ (k \in Published(d)') <=> (st = "PUBLISHED")
      /\ \A j \in Keys : j # k => (j \in Published(d)' <=> j \in Published(d))
  BY <1>1, <1>2 DEF Published
<1>4. st = "PUBLISHED" => Published(d)' = Published(d) \cup {k}
  BY <1>6, OneDifference
<1>5. st # "PUBLISHED" => Published(d)' = Published(d) \ {k}
  BY <1>6, OneDifference
<1> QED BY <1>2, <1>3, <1>4, <1>5

LEMMA ArchiveTyped == ArchiveInv => TypeInv
BY DEF ArchiveInv, TypeInv, RunInv, HasWork

\* With one publisher, its run is the only one to look at.
LEMMA OneRun ==
    ASSUME OnePublisher, NEW p \in Publishers, TypeInv', CurrentIsStored',
           UniqueCurrent', RunInv(p)'
    PROVE  ArchiveInv'
BY DEF OnePublisher, ArchiveInv, TypeInv

\* A step that leaves the registry and the store alone leaves them right.
LEMMA SameRegistry ==
    ASSUME ArchiveInv, UNCHANGED <<latest, objects>>
    PROVE  CurrentIsStored' /\ UniqueCurrent' /\ \A d \in Docs : Published(d)' = Published(d)
BY DEF ArchiveInv, CurrentIsStored, UniqueCurrent, Published

\* Between two publications there is nothing to keep.
LEMMA NotBusy ==
    ASSUME ArchiveInv, OnePublisher, NEW p \in Publishers, TypeInv',
           UNCHANGED <<latest, objects>>, run'[p].step \notin Busy
    PROVE  ArchiveInv'
<1>1. RunInv(p)'
  BY DEF RunInv, TypeInv, HasWork
<1> QED BY <1>1, SameRegistry, OneRun

\* The key a publication writes is not the published one: its version is the next.
LEMMA NextVersion ==
    ASSUME ArchiveInv, NEW p \in Publishers, run[p].step \in Busy
    PROVE  /\ CandKey(p) \in Keys /\ run[p].doc \in Docs
           /\ run[p].cand[run[p].doc] \in Contents
           /\ run[p].version \in Versions
           /\ CandKey(p)[1] = run[p].version
           /\ CandKey(p)[2] = Rendering[run[p].cand[run[p].doc]]
           /\ \A k \in run[p].prior : k \in Keys /\ run[p].version = k[1] + 1
           /\ \A k \in Published(run[p].doc) : k[1] # run[p].version /\ k # CandKey(p)
<1> DEFINE r == run[p]
<1>1. r.doc \in Docs /\ r.cand \in [Docs -> Contents] /\ r.step # "idle"
  BY DEF ArchiveInv, RunInv, Busy
<1>2. CandKey(p) \in Keys
  BY <1>1, CandKeyType DEF ArchiveInv
<1>3. r.version \in Versions
  BY DEF ArchiveInv, TypeOK, Runs
<1>4. \A k \in r.prior : k \in Keys /\ r.version = k[1] + 1
  BY DEF ArchiveInv, RunInv
<1>5. Published(r.doc) \subseteq r.prior
  BY DEF ArchiveInv, RunInv
<1>6. CandKey(p)[1] = r.version /\ CandKey(p)[2] = Rendering[r.cand[r.doc]]
  BY DEF CandKey
<1>7. \A k \in Keys : k[1] \in Nat
  BY DEF Keys, Versions
<1>8. \A k \in Published(r.doc) : k[1] # r.version /\ k # CandKey(p)
  BY <1>4, <1>5, <1>6, <1>7
<1> QED BY <1>1, <1>2, <1>3, <1>4, <1>6, <1>8

\* A row that is not PUBLISHED, under the key of the next version, withdraws nothing.
LEMMA AppendNext ==
    ASSUME ArchiveInv, NEW p \in Publishers, run[p].step \in Busy,
           NEW st \in Statuses, st # "PUBLISHED", AppendRow(p, st), UNCHANGED objects
    PROVE  /\ CurrentIsStored' /\ UniqueCurrent'
           /\ \A d \in Docs : Published(d)' = Published(d)
           /\ \A k \in run[p].prior :
                 latest'[run[p].doc][k] = latest[run[p].doc][k]
<1>0. PICK d \in Docs : d = run[p].doc
  BY NextVersion
<1>1. latest' = Appended(d, CandKey(p), st, run[p].cand[d])
  BY <1>0 DEF AppendRow
<1>2. latest \in [Docs -> [Keys -> Rows]]
  BY DEF ArchiveInv, TypeOK
<1>3. /\ \A e \in Docs : e # d => Published(e)' = Published(e)
      /\ Published(d)' = Published(d) \ {CandKey(p)}
      /\ \A e \in Docs, j \in Keys :
            e # d \/ j # CandKey(p) => latest'[e][j] = latest[e][j]
  BY <1>1, <1>2, NextVersion, AppendedRows
<1>4. \A e \in Docs : Published(e)' = Published(e)
  <2>1. CandKey(p) \notin Published(d)
    BY <1>0, NextVersion
  <2> QED BY <1>3, <2>1
<1>5. \A k \in run[p].prior : k # CandKey(p)
  <2>1. \A k \in Keys : k[1] \in Nat
    BY DEF Keys, Versions
  <2> QED BY <2>1, NextVersion
<1>6. \A k \in run[p].prior : latest'[d][k] = latest[d][k]
  BY <1>0, <1>3, <1>5, NextVersion
<1>7. CurrentIsStored' /\ UniqueCurrent'
  BY <1>4 DEF ArchiveInv, CurrentIsStored, UniqueCurrent
<1> QED BY <1>0, <1>4, <1>6, <1>7

\* Nor does what is stored under the object key of the next version.
LEMMA StoreNext ==
    ASSUME ArchiveInv, NEW p \in Publishers, run[p].step \in Busy, NEW b,
           objects' = [objects EXCEPT ![run[p].doc][run[p].version] = b],
           UNCHANGED latest
    PROVE  /\ CurrentIsStored' /\ UniqueCurrent'
           /\ \A d \in Docs : Published(d)' = Published(d)
<1>1. \A d \in Docs : Published(d)' = Published(d)
  BY DEF Published
<1>2. ASSUME NEW d \in Docs, NEW k \in Published(d)
      PROVE  objects'[d][k[1]] = k[2]
  <2>1. d # run[p].doc \/ k[1] # run[p].version
    BY NextVersion
  <2>2. k[1] \in Versions /\ objects[d][k[1]] = k[2]
    BY DEF ArchiveInv, CurrentIsStored, Published, Keys
  <2>3. objects \in [Docs -> [Versions -> Pdfs \cup {None, "corrupt"}]]
    BY DEF ArchiveInv, TypeOK
  <2> QED BY <2>1, <2>2, <2>3
<1> QED BY <1>1, <1>2 DEF ArchiveInv, CurrentIsStored, UniqueCurrent


\* RunInv after a step, with the document named by a constant.
LEMMA RunInvAfter ==
    ASSUME NEW p \in Publishers, NEW d \in Docs, run'[p].doc = d,
           run'[p].cand \in [Docs -> Contents],
           \/ run'[p].prior = {} /\ run'[p].version = 1
           \/ \E k \in Keys : run'[p].prior = {k} /\ run'[p].version = k[1] + 1,
           Published(d)' = IF run'[p].step = "publish" THEN {} ELSE run'[p].prior,
           run'[p].step # "publish" =>
             \A k \in run'[p].prior : latest'[d][k].content # run'[p].cand[d],
           run'[p].step \in {"supersede", "publish"} =>
             objects'[d][run'[p].version] = Rendering[run'[p].cand[d]]
    PROVE  RunInv(p)'
BY DEF RunInv

\* A step of the publication that keeps its candidate and the published row.
LEMMA RunInvKept ==
    ASSUME ArchiveInv, NEW p \in Publishers,
           run[p].step \in Busy \ {"publish"}, NEW st \in Busy,
           run'[p].step = st, run'[p].doc = run[p].doc, run'[p].cand = run[p].cand,
           run'[p].prior = run[p].prior, run'[p].version = run[p].version,
           \A e \in Docs : Published(e)' = Published(e),
           \A k \in run[p].prior : latest'[run[p].doc][k] = latest[run[p].doc][k],
           st \in {"supersede", "publish"} =>
             objects'[run[p].doc][run[p].version]
               = Rendering[run[p].cand[run[p].doc]],
           st = "publish" => run[p].prior = {}
    PROVE  RunInv(p)'
<1>1. RunInv(p) /\ run[p].step # "idle"
  BY DEF ArchiveInv, Busy
<1>2. PICK d \in Docs : d = run[p].doc
  BY <1>1 DEF RunInv
<1>3. /\ run[p].cand \in [Docs -> Contents]
      /\ \/ run[p].prior = {} /\ run[p].version = 1
         \/ \E k \in Keys : run[p].prior = {k} /\ run[p].version = k[1] + 1
      /\ Published(d) = run[p].prior
      /\ \A k \in run[p].prior : latest[d][k].content # run[p].cand[d]
  BY <1>1, <1>2 DEF RunInv
<1>4. Published(d)' = run[p].prior
  BY <1>3
<1>5. \A k \in run[p].prior : latest'[d][k].content # run[p].cand[d]
  BY <1>2, <1>3
<1> QED BY <1>2, <1>3, <1>4, <1>5, RunInvAfter

\* What the steps of a publication do to its run.
LEMMA StepOnly ==
    ASSUME TypeInv, NEW p \in Publishers, NEW st, run' = [run EXCEPT ![p].step = st]
    PROVE  /\ run'[p].step = st /\ run'[p].doc = run[p].doc
           /\ run'[p].cand = run[p].cand /\ run'[p].prior = run[p].prior
           /\ run'[p].version = run[p].version
BY DEF TypeInv, TypeOK, Runs

\* A settled candidate leaves the run at the next one.
LEMMA SettledStep ==
    ASSUME TypeInv, NEW p \in Publishers, NEW d, NEW x,
           run' = [run EXCEPT ![p] = Settled(run[p], d, x)]
    PROVE  run'[p].step \notin Busy
BY DEF TypeInv, TypeOK, Runs, Settled, TakeNext, Busy

LEMMA PrepareInv ==
    ASSUME ArchiveInv, OnePublisher, TypeInv', NEW p \in Publishers,
           NEW d \in Docs, Prepare(p, d)
    PROVE  ArchiveInv'
<1> DEFINE r == run[p]
<1>1. r \in Runs /\ r.cand \in [Docs -> Contents]
  BY DEF Prepare, At, ArchiveInv, TypeOK, RunInv
<1>2. UNCHANGED <<latest, objects>>
  BY DEF Prepare, PrepareFor
<1>3. PICK prior \in SUBSET Keys, v \in Nat :
        /\ PrepareFor(p, d, prior, v)
        /\ \/ prior = {} /\ v = 1
           \/ \E k \in Keys : prior = {k} /\ v = k[1] + 1
        /\ Published(d) = prior
        /\ \A k \in prior : latest[d][k].content # r.cand[d]
  <2>1. CASE Current(d) = {} /\ PrepareFor(p, d, {}, 1)
    <3>1. ASSUME NEW k \in Published(d) PROVE FALSE
      <4>1. k[1] \in Nat
        BY DEF Published, Keys, Versions
      <4>2. \A j \in Published(d) : j[1] <= k[1]
        BY <4>1 DEF ArchiveInv, UniqueCurrent
      <4> QED BY <2>1, <4>2 DEF Current
    <3>2. Published(d) = {}
      BY <3>1
    <3> QED BY <2>1, <3>2
  <2>2. ASSUME NEW k \in Current(d), ~IsAlready(d, k, r.cand[d]),
               PrepareFor(p, d, {k}, k[1] + 1)
        PROVE  \E prior \in SUBSET Keys, v \in Nat :
                 /\ PrepareFor(p, d, prior, v)
                 /\ \/ prior = {} /\ v = 1
                    \/ \E j \in Keys : prior = {j} /\ v = j[1] + 1
                 /\ Published(d) = prior
                 /\ \A j \in prior : latest[d][j].content # r.cand[d]
    <3>1. k \in Published(d) /\ k \in Keys /\ k[1] + 1 \in Nat
      BY <2>2 DEF Current, Published, Keys, Versions
    <3>2. Published(d) = {k}
      BY <3>1 DEF ArchiveInv, UniqueCurrent
    <3>3. latest[d][k].content # r.cand[d]
      BY <2>2 DEF IsAlready
    <3>4. {k} \in SUBSET Keys /\ \A j \in {k} : latest[d][j].content # r.cand[d]
      BY <3>1, <3>3
    <3> QED BY <2>2, <3>1, <3>2, <3>4
  <2> QED BY <2>1, <2>2, Zenon DEF Prepare
<1>4. /\ run'[p].doc = d /\ run'[p].prior = prior /\ run'[p].version = v
      /\ run'[p].cand = r.cand
      /\ run'[p].step # "publish" /\ run'[p].step \notin {"supersede", "publish"}
  <2> DEFINE st == IF r.cand[d] \in Drafts THEN "fail" ELSE "record"
  <2>1. run' = [run EXCEPT ![p] = [r EXCEPT !.doc = d, !.prior = prior,
                                            !.version = v, !.step = st]]
    BY <1>3 DEF PrepareFor
  <2>2. st \in {"fail", "record"}
    OBVIOUS
  <2> HIDE DEF st
  <2>3. run \in [Publishers -> Runs]
    BY DEF ArchiveInv, TypeOK
  <2> QED BY <1>1, <2>1, <2>2, <2>3 DEF Runs
<1>5. Published(d)' = prior /\ \A k \in prior : latest'[d][k].content # r.cand[d]
  BY <1>2, <1>3, SameRegistry
<1>6. RunInv(p)'
  BY <1>1, <1>3, <1>4, <1>5, RunInvAfter
<1> QED BY <1>2, <1>6, SameRegistry, OneRun


LEMMA PublisherInv ==
    ASSUME ArchiveInv, OnePublisher, NEW p \in Publishers, PublisherStep(p)
    PROVE  ArchiveInv'
<1> DEFINE r == run[p]
<1>0. TypeInv /\ TypeInv' /\ run \in [Publishers -> Runs]
  BY ArchiveTyped, PublisherType DEF ArchiveInv, TypeOK
<1>1. CASE BeginPublish(p)
  <2>1. run'[p].step = "next"
    BY <1>0, <1>1 DEF BeginPublish, Idle
  <2> QED BY <1>0, <1>1, <2>1, NotBusy DEF BeginPublish, Busy
<1>2. CASE BeginRetry(p)
  <2>1. run'[p].step = "next"
    BY <1>0, <1>2 DEF BeginRetry, Idle
  <2> QED BY <1>0, <1>2, <2>1, NotBusy DEF BeginRetry, Busy
<1>3. ASSUME NEW d \in Docs, AlreadyPublished(p, d) PROVE ArchiveInv'
  BY <1>0, <1>3, SettledStep, NotBusy DEF AlreadyPublished
<1>4. ASSUME NEW d \in Docs, Prepare(p, d) PROVE ArchiveInv'
  BY <1>0, <1>4, PrepareInv
<1>5. CASE RecordPublishing(p)
  <2>1. r.step \in Busy \ {"publish"} /\ "PUBLISHING" \in Statuses /\ "upload" \in Busy
    BY <1>5 DEF RecordPublishing, At, Busy, Steps, Statuses
  <2>2. /\ CurrentIsStored' /\ UniqueCurrent'
        /\ \A d \in Docs : Published(d)' = Published(d)
        /\ \A k \in r.prior : latest'[r.doc][k] = latest[r.doc][k]
    BY <1>5, <2>1, AppendNext DEF RecordPublishing
  <2>3. /\ run'[p].step = "upload" /\ run'[p].doc = r.doc
        /\ run'[p].cand = r.cand /\ run'[p].prior = r.prior
        /\ run'[p].version = r.version
    BY <1>0, <1>5, StepOnly DEF RecordPublishing
  <2>4. RunInv(p)'
    BY <2>1, <2>2, <2>3, RunInvKept
  <2> QED BY <1>0, <2>2, <2>4, OneRun
<1>6. ASSUME Upload(p) \/ UploadRaises(p) PROVE ArchiveInv'
  <2>1. r.step = "upload" /\ r.step \in Busy \ {"publish"}
    BY <1>6 DEF Upload, UploadRaises, At, Busy, Steps
  <2>2. PICK b : objects' = [objects EXCEPT ![r.doc][r.version] = b]
    BY <1>6 DEF Upload, UploadRaises
  <2>3. UNCHANGED latest
    BY <1>6 DEF Upload, UploadRaises
  <2>4. /\ CurrentIsStored' /\ UniqueCurrent'
        /\ \A d \in Docs : Published(d)' = Published(d)
    BY <2>1, <2>2, <2>3, StoreNext
  <2>5. PICK st \in Busy :
          /\ run'[p].step = st /\ st \notin {"supersede", "publish"}
          /\ run'[p].doc = r.doc /\ run'[p].cand = r.cand
          /\ run'[p].prior = r.prior /\ run'[p].version = r.version
    <3>1. "verify" \in Busy /\ "upload" \in Busy /\ "fail" \in Busy
      BY DEF Busy, Steps
    <3>2. CASE run' = [run EXCEPT ![p].step = "verify"]
      BY <1>0, <3>1, <3>2, StepOnly
    <3>3. CASE run' = [run EXCEPT ![p].step = "fail"]
      BY <1>0, <3>1, <3>3, StepOnly
    <3>4. CASE run' = [run EXCEPT ![p] = [r EXCEPT !.tries = @ + 1]]
      BY <1>0, <2>1, <3>1, <3>4 DEF Runs
    <3>5. UploadRaises(p) =>
            \/ run' = [run EXCEPT ![p].step = "fail"]
            \/ run' = [run EXCEPT ![p] = [r EXCEPT !.tries = @ + 1]]
      BY DEF UploadRaises, UploadAgain
    <3> QED BY <1>6, <3>2, <3>3, <3>4, <3>5 DEF Upload
  <2>6. RunInv(p)'
    BY <2>1, <2>3, <2>4, <2>5, RunInvKept
  <2> QED BY <1>0, <2>4, <2>6, OneRun
<1>7. ASSUME Verify(p) \/ VerifyRaises(p) PROVE ArchiveInv'
  <2>1. r.step = "verify" /\ r.step \in Busy \ {"publish"}
    BY <1>7 DEF Verify, VerifyRaises, At, Busy, Steps
  <2>2. UNCHANGED <<latest, objects>>
    BY <1>7 DEF Verify, VerifyRaises
  <2>3. PICK st \in Busy :
          /\ run'[p].step = st
          /\ run'[p].doc = r.doc /\ run'[p].cand = r.cand
          /\ run'[p].prior = r.prior /\ run'[p].version = r.version
          /\ st \in {"supersede", "publish"} => IsVerified(p)
          /\ st = "publish" => r.prior = {}
    <3>1. "supersede" \in Busy /\ "publish" \in Busy /\ "fail" \in Busy
      BY DEF Busy, Steps
    <3>2. CASE VerifyRaises(p)
      BY <1>0, <3>1, <3>2, StepOnly DEF VerifyRaises
    <3>3. CASE Verify(p) /\ IsVerified(p)
      <4>1. PICK st \in {"supersede", "publish"} :
              /\ run' = [run EXCEPT ![p].step = st]
              /\ st = "publish" => r.prior = {}
        BY <3>3 DEF Verify, AfterVerify
      <4> QED BY <1>0, <3>1, <3>3, <4>1, StepOnly
    <3>4. CASE Verify(p) /\ ~IsVerified(p)
      <4>1. run' = [run EXCEPT ![p] =
               [r EXCEPT !.step = "fail", !.error = "STORAGE_VERIFICATION_FAILED"]]
        BY <3>4 DEF Verify
      <4>2. /\ run'[p].step = "fail"
            /\ run'[p].doc = r.doc /\ run'[p].cand = r.cand
            /\ run'[p].prior = r.prior /\ run'[p].version = r.version
        BY <1>0, <4>1 DEF Runs
      <4> QED BY <3>1, <4>2
    <3> QED BY <1>7, <3>2, <3>3, <3>4
  <2>4. st \in {"supersede", "publish"} =>
          objects'[r.doc][r.version] = Rendering[r.cand[r.doc]]
    BY <2>1, <2>2, <2>3, NextVersion DEF IsVerified
  <2>5. /\ \A d \in Docs : Published(d)' = Published(d)
        /\ \A k \in r.prior : latest'[r.doc][k] = latest[r.doc][k]
    BY <2>2, SameRegistry
  <2>6. RunInv(p)'
    BY <2>1, <2>3, <2>4, <2>5, RunInvKept
  <2> QED BY <1>0, <2>2, <2>6, SameRegistry, OneRun
<1>8. CASE Supersede(p)
  <2>1. r.step = "supersede" /\ r.step \in Busy
    BY <1>8 DEF Supersede, At, Busy, Steps
  <2>2. PICK d \in Docs : d = r.doc
    BY <2>1, NextVersion
  <2>3. PICK k \in r.prior :
          latest' = Appended(d, k, "SUPERSEDED", latest[d][k].content)
    BY <1>8, <2>2 DEF Supersede
  <2>4. k \in Keys /\ r.prior = {k} /\ Published(d) = {k} /\ r.version = k[1] + 1
        /\ r.cand \in [Docs -> Contents]
        /\ objects[d][r.version] = Rendering[r.cand[d]]
    BY <2>1, <2>2 DEF ArchiveInv, RunInv
  <2>5. /\ \A e \in Docs : e # d => Published(e)' = Published(e)
        /\ Published(d)' = Published(d) \ {k}
    <3>1. latest \in [Docs -> [Keys -> Rows]] /\ "SUPERSEDED" \in Statuses
      BY DEF ArchiveInv, TypeOK, Statuses
    <3>2. PICK c : latest' = Appended(d, k, "SUPERSEDED", c)
      BY <2>3
    <3>3. k \in Keys
      BY <2>4
    <3> QED BY <3>1, <3>2, <3>3, AppendedRows
  <2>6. Published(d)' = {}
    BY <2>4, <2>5
  <2>7. UNCHANGED objects
    BY <1>8 DEF Supersede
  <2>8. CurrentIsStored' /\ UniqueCurrent'
    BY <2>5, <2>6, <2>7 DEF ArchiveInv, CurrentIsStored, UniqueCurrent
  <2>9. /\ run'[p].step = "publish" /\ run'[p].doc = d
        /\ run'[p].cand = r.cand /\ run'[p].prior = r.prior
        /\ run'[p].version = r.version
    BY <1>0, <1>8, <2>2, StepOnly DEF Supersede
  <2>10. RunInv(p)'
    BY <2>4, <2>6, <2>7, <2>9, RunInvAfter
  <2> QED BY <1>0, <2>8, <2>10, OneRun
<1>9. CASE Publish(p)
  <2>1. r.step = "publish" /\ r.step \in Busy
    BY <1>9 DEF Publish, At, Busy, Steps
  <2>2. PICK d \in Docs : d = r.doc
    BY <2>1, NextVersion
  <2> DEFINE k == CandKey(p)
  <2>3. /\ Published(d) = {} /\ objects[d][r.version] = Rendering[r.cand[d]]
        /\ k \in Keys /\ k[1] = r.version /\ k[2] = Rendering[r.cand[d]]
    BY <2>1, <2>2, NextVersion DEF ArchiveInv, RunInv
  <2>4. PICK key \in Keys : key = k
    BY <2>3
  <2> HIDE DEF k
  <2>5. latest' = Appended(d, key, "PUBLISHED", r.cand[d])
    BY <1>9, <2>2, <2>4 DEF Publish, AppendRow, k
  <2>6. /\ \A e \in Docs : e # d => Published(e)' = Published(e)
        /\ Published(d)' = Published(d) \cup {key}
    BY <2>5, AppendedRows DEF ArchiveInv, TypeOK, Statuses
  <2>7. Published(d)' = {key} /\ objects[d][key[1]] = key[2]
    BY <2>3, <2>4, <2>6
  <2>8. UNCHANGED objects
    BY <1>9 DEF Publish
  <2>9. CurrentIsStored' /\ UniqueCurrent'
    BY <2>6, <2>7, <2>8 DEF ArchiveInv, CurrentIsStored, UniqueCurrent
  <2>10. run'[p].step \notin Busy
    BY <1>0, <1>9, SettledStep DEF Publish
  <2>11. RunInv(p)'
    BY <1>0, <2>10 DEF RunInv, TypeInv, HasWork
  <2> QED BY <1>0, <2>9, <2>11, OneRun
<1>10. CASE Fail(p)
  <2>1. r.step \in Busy
    BY <1>10 DEF Fail, At, Busy, Steps
  <2>2. r.error \in Statuses /\ r.error # "PUBLISHED"
    BY <1>0 DEF Runs, Statuses, Failures
  <2>3. CurrentIsStored' /\ UniqueCurrent'
    BY <1>10, <2>1, <2>2, AppendNext DEF Fail
  <2>4. run'[p].step \notin Busy
    BY <1>0, <1>10, SettledStep DEF Fail
  <2>5. RunInv(p)'
    BY <1>0, <2>4 DEF RunInv, TypeInv, HasWork
  <2> QED BY <1>0, <2>3, <2>5, OneRun
<1>11. ASSUME Finish(p) \/ Abort(p) PROVE ArchiveInv'
  <2>1. run'[p].step = "idle" /\ UNCHANGED <<latest, objects>>
    BY <1>0, <1>11 DEF Finish, Abort, Idle
  <2> QED BY <1>0, <2>1, NotBusy DEF Busy
<1> QED
  BY <1>1, <1>2, <1>3, <1>4, <1>5, <1>6, <1>7, <1>8, <1>9, <1>10, <1>11
     DEF PublisherStep, Progress


LEMMA RegistryInit == Init => ArchiveInv
<1> SUFFICES ASSUME Init PROVE ArchiveInv
  OBVIOUS
<1>1. ASSUME NEW d \in Docs PROVE Published(d) = {}
  <2>1. \A k \in Keys : latest[d][k].status = None
    BY DEF Init
  <2> QED BY <2>1 DEF Published, None
<1>2. \A p \in Publishers : RunInv(p)
  BY DEF Init, RunInv, Idle, Busy
<1> QED BY <1>1, <1>2, TypeInit
        DEF ArchiveInv, CurrentIsStored, UniqueCurrent, TypeInv

LEMMA RegistryStep == OnePublisher /\ ArchiveInv /\ TypeInv' /\ [Next]_vars => ArchiveInv'
<1> SUFFICES ASSUME OnePublisher, ArchiveInv, TypeInv', [Next]_vars PROVE ArchiveInv'
  OBVIOUS
<1>1. ASSUME NEW p \in Publishers, PublisherStep(p) PROVE ArchiveInv'
  BY <1>1, PublisherInv
<1>2. ASSUME UNCHANGED <<latest, objects, run>> PROVE ArchiveInv'
  <2>1. \A d \in Docs : Published(d)' = Published(d)
    BY <1>2 DEF Published
  <2>2. \A p \in Publishers : RunInv(p)'
    BY <1>2, <2>1 DEF ArchiveInv, RunInv, Published
  <2> QED BY <1>2, <2>2, SameRegistry DEF ArchiveInv, TypeInv
<1>3. CASE UNCHANGED vars
  BY <1>2, <1>3 DEF vars
<1>4. ASSUME NEW d \in Docs, ChangeSource(d) PROVE ArchiveInv'
  BY <1>2, <1>4 DEF ChangeSource
<1>5. ASSUME NEW m \in Packages, PackageStep(m) PROVE ArchiveInv'
  BY <1>2, <1>5 DEF PackageStep, BeginPackage, ReadRef, LoadRef, FetchObject, EndPackage
<1> QED BY <1>1, <1>3, <1>4, <1>5 DEF Next

\* One publisher, whatever its uploads do and wherever its runs stop, works on the
\* version after the published one and leaves that one in place until the end.
THEOREM Registry ==
    ASSUME OnePublisher PROVE Spec => []ArchiveInv
<1>1. MailsInv => TypeInv
  BY DEF MailsInv
<1>2. ArchiveInv /\ TypeInv' /\ [Next]_vars => ArchiveInv'
  BY RegistryStep
<1> QED BY <1>1, <1>2, MailsInit, MailsStep, RegistryInit, PTL DEF Spec

\* Only the step that withdraws a published row changes what is published, and by
\* then its successor says something else and is stored.
LEMMA WithdrawStep ==
    ASSUME ArchiveInv, OnePublisher, [Next]_vars, NEW d \in Docs, NEW k \in Keys,
           k \in Published(d), k \notin Published(d)'
    PROVE  \E p \in Publishers :
             /\ run[p].doc = d
             /\ run[p].cand[d] # latest[d][k].content
             /\ run[p].version = k[1] + 1
             /\ objects[d][k[1] + 1] = Rendering[run[p].cand[d]]
<1>1. ~UNCHANGED latest
  BY DEF Published
<1>2. PICK p \in Publishers : PublisherStep(p)
  BY <1>1 DEF Next, ChangeSource, PackageStep, BeginPackage, ReadRef, LoadRef,
     FetchObject, EndPackage, vars
<1>3. CASE RecordPublishing(p) \/ Fail(p)
  <2>1. run[p].step \in Busy /\ UNCHANGED objects
    BY <1>3 DEF RecordPublishing, Fail, At, Busy, Steps
  <2>2. run[p] \in Runs
    BY DEF ArchiveInv, TypeOK
  <2>3. PICK st \in Statuses : st # "PUBLISHED" /\ AppendRow(p, st)
    BY <1>3, <2>2 DEF RecordPublishing, Fail, Statuses, Failures, Runs
  <2> QED BY <2>1, <2>3, AppendNext
<1>4. CASE Publish(p)
  <2>1. run[p].step \in Busy
    BY <1>4 DEF Publish, At, Busy, Steps
  <2>2. PICK e \in Docs, j \in Keys :
           \E c : latest' = Appended(e, j, "PUBLISHED", c)
    BY <1>4, <2>1, NextVersion DEF Publish, AppendRow
  <2>3. latest \in [Docs -> [Keys -> Rows]] /\ "PUBLISHED" \in Statuses
    BY DEF ArchiveInv, TypeOK, Statuses
  <2>4. \A x \in Docs : Published(x) \subseteq Published(x)'
    BY <2>2, <2>3, AppendedRows
  <2> QED BY <2>4
<1>5. CASE Supersede(p)
  <2>1. run[p].step = "supersede" /\ run[p].step \in Busy /\ RunInv(p)
    BY <1>5 DEF Supersede, At, Busy, Steps, ArchiveInv
  <2>2. PICK e \in Docs : e = run[p].doc
    BY <2>1, NextVersion
  <2>3. PICK j \in run[p].prior :
           \E c : latest' = Appended(e, j, "SUPERSEDED", c)
    BY <1>5, <2>2 DEF Supersede
  <2>4. /\ j \in Keys /\ Published(e) = {j} /\ run[p].version = j[1] + 1
        /\ run[p].cand[e] # latest[e][j].content
        /\ objects[e][run[p].version] = Rendering[run[p].cand[e]]
    BY <2>1, <2>2, <2>3 DEF RunInv
  <2>5. latest \in [Docs -> [Keys -> Rows]] /\ "SUPERSEDED" \in Statuses
    BY DEF ArchiveInv, TypeOK, Statuses
  <2>6. d = e
    BY <2>3, <2>4, <2>5, AppendedRows
  <2>7. k = j
    BY <2>4, <2>6
  <2> QED BY <2>2, <2>4, <2>6, <2>7
<1> QED BY <1>1, <1>2, <1>3, <1>4, <1>5
        DEF PublisherStep, Progress, BeginPublish, BeginRetry, AlreadyPublished,
            Prepare, PrepareFor, Upload, UploadRaises, Verify, VerifyRaises,
            Finish, Abort

\* A published row goes only when its successor is in the store and says something
\* else.
THEOREM Withdrawal ==
    ASSUME OnePublisher PROVE Spec => WithdrawnForSuccessor
<1>1. ArchiveInv /\ [Next]_vars =>
        [\A d \in Docs, k \in Keys :
           k \in Published(d) /\ k \notin Published(d)' =>
             \E p \in Publishers :
                /\ run[p].doc = d
                /\ run[p].cand[d] # latest[d][k].content
                /\ run[p].version = k[1] + 1
                /\ objects[d][k[1] + 1] = Rendering[run[p].cand[d]]]_vars
  BY WithdrawStep
<1> QED BY <1>1, Registry, PTL DEF Spec, WithdrawnForSuccessor

\* The published row of a document is what the store holds.
THEOREM StoredDocuments ==
    ASSUME OnePublisher PROVE Spec => []CurrentIsStored
<1>1. ArchiveInv => CurrentIsStored
  BY DEF ArchiveInv
<1> QED BY <1>1, Registry, PTL

\* There is never more than one published row of a document.
THEOREM OneCurrent ==
    ASSUME OnePublisher PROVE Spec => []UniqueCurrent
<1>1. ArchiveInv => UniqueCurrent
  BY DEF ArchiveInv
<1> QED BY <1>1, Registry, PTL

----------------------------------------------------------------------------
(* What a batch reports *)

Reported == {"PUBLISHED", "ALREADY_PUBLISHED"}

\* some published row of the document has the pages of content c
Shows(d, c) == \E k \in Published(d) : k[2] = Rendering[c]

\* A published row says under its key what its content looks like.
RowsInv ==
    \A d \in Docs : \A k \in Published(d) : k[2] = Rendering[latest[d][k].content]

\* The candidate in hand is still on the list; what is reported as published has
\* left it and is published.
BatchInv(p) ==
    LET r == run[p] IN
    /\ r.step \in Busy => r.doc \in r.todo
    /\ \A d \in Docs :
          r.result[d] \in Reported => d \notin r.todo /\ Shows(d, r.cand[d])

ReportInv == ArchiveInv /\ RowsInv /\ \A p \in Publishers : BatchInv(p)

\* A batch that begins or has ended reports nothing.
LEMMA NothingReported ==
    ASSUME OnePublisher, NEW p \in Publishers, run'[p].step \notin Busy,
           \A d \in Docs : run'[p].result[d] = None
    PROVE  \A q \in Publishers : BatchInv(q)'
BY DEF OnePublisher, BatchInv, Reported, None

\* Work on a candidate touches no other document.
LEMMA StillReported ==
    ASSUME ReportInv, OnePublisher, NEW p \in Publishers, NEW d \in Docs,
           d \in run[p].todo, run'[p].doc = d, run'[p].todo = run[p].todo,
           run'[p].cand = run[p].cand, run'[p].result = run[p].result,
           \A e \in Docs : e # d => Published(e)' = Published(e)
    PROVE  \A q \in Publishers : BatchInv(q)'
<1>1. ASSUME NEW e \in Docs, run[p].result[e] \in Reported
      PROVE  e \notin run[p].todo /\ Shows(e, run[p].cand[e])'
  <2>1. e \notin run[p].todo /\ Shows(e, run[p].cand[e])
    BY <1>1 DEF ReportInv, BatchInv
  <2>2. Published(e)' = Published(e)
    BY <2>1
  <2>3. PICK k \in Published(e) : k[2] = Rendering[run[p].cand[e]]
    BY <2>1 DEF Shows
  <2>4. \E j \in Published(e)' : j[2] = Rendering[run'[p].cand[e]]
    BY <2>2, <2>3
  <2> QED BY <2>1, <2>4 DEF Shows
<1>2. BatchInv(p)'
  BY <1>1 DEF BatchInv, Shows
<1> QED BY <1>2 DEF OnePublisher

\* A candidate that is settled as published is published.
LEMMA NowReported ==
    ASSUME ReportInv, OnePublisher, NEW p \in Publishers, NEW d \in Docs,
           NEW x \in Results, run'[p].step \notin Busy,
           run'[p].todo = run[p].todo \ {d}, run'[p].cand = run[p].cand,
           run'[p].result[d] = x,
           \A e \in Docs : e # d => run'[p].result[e] = run[p].result[e],
           \A e \in Docs : e # d => Published(e)' = Published(e),
           x \in Reported => \E k \in Published(d)' : k[2] = Rendering[run[p].cand[d]]
    PROVE  \A q \in Publishers : BatchInv(q)'
<1>1. ASSUME NEW e \in Docs, run'[p].result[e] \in Reported
      PROVE  e \notin run'[p].todo
             /\ \E k \in Published(e)' : k[2] = Rendering[run'[p].cand[e]]
  <2>1. CASE e = d
    BY <1>1, <2>1
  <2>2. CASE e # d
    <3>1. e \notin run[p].todo /\ Shows(e, run[p].cand[e])
      BY <1>1, <2>2 DEF ReportInv, BatchInv
    <3>2. Published(e)' = Published(e)
      BY <2>2
    <3>3. PICK k \in Published(e) : k[2] = Rendering[run[p].cand[e]]
      BY <3>1 DEF Shows
    <3> QED BY <3>1, <3>2, <3>3
  <2> QED BY <2>1, <2>2
<1>2. BatchInv(p)'
  BY <1>1 DEF BatchInv, Shows
<1> QED BY <1>2 DEF OnePublisher

\* What settling a candidate makes of its run.
LEMMA SettledRun ==
    ASSUME TypeInv, NEW p \in Publishers, NEW d \in Docs, NEW x \in Results,
           run'[p] = Settled(run[p], d, x)
    PROVE  /\ run'[p].step \notin Busy
           /\ run'[p].todo = run[p].todo \ {d} /\ run'[p].cand = run[p].cand
           /\ run'[p].result[d] = x
           /\ \A e \in Docs : e # d => run'[p].result[e] = run[p].result[e]
<1>1. run[p] \in Runs
  BY DEF TypeInv, TypeOK
<1>2. PICK u \in Runs : /\ u = TakeNext(run[p]) /\ u.step \notin Busy
                        /\ u.todo = run[p].todo /\ u.cand = run[p].cand
                        /\ u.result = run[p].result
  <2> DEFINE v == TakeNext(run[p])
  <2>1. /\ v.step = "next" /\ v.todo = run[p].todo /\ v.cand = run[p].cand
        /\ v.result = run[p].result
    BY <1>1 DEF Runs, TakeNext
  <2>2. v \in Runs
    BY <1>1, TakeNextType
  <2> HIDE DEF v
  <2>3. v = TakeNext(run[p])
    BY Zenon DEF v
  <2> QED BY <2>1, <2>2, <2>3, Zenon DEF Busy
<1> DEFINE rest == u.todo \ {d}
           result == [u.result EXCEPT ![d] = x]
<1>3. run'[p] = [u EXCEPT !.todo = rest, !.result = result]
  BY <1>2 DEF Settled
<1>4. result[d] = x /\ \A e \in Docs : e # d => result[e] = run[p].result[e]
  BY <1>2 DEF Runs
<1> HIDE DEF rest, result
<1>5. /\ run'[p].step = u.step /\ run'[p].todo = rest /\ run'[p].cand = u.cand
      /\ run'[p].result = result
  BY <1>3 DEF Runs
<1> QED BY <1>2, <1>4, <1>5 DEF rest

\* And what a step within a publication makes of it.
LEMMA StepRun ==
    ASSUME TypeInv, NEW p \in Publishers,
           NEW st, run' = [run EXCEPT ![p].step = st]
    PROVE  /\ run'[p].doc = run[p].doc /\ run'[p].todo = run[p].todo
           /\ run'[p].cand = run[p].cand /\ run'[p].result = run[p].result
BY DEF TypeInv, TypeOK, Runs

\* Every step of a publication between preparing and settling it.
BusyStep(p) ==
    \/ RecordPublishing(p) \/ Upload(p) \/ UploadRaises(p)
    \/ Verify(p) \/ VerifyRaises(p) \/ Supersede(p)

LEMMA BusyRun ==
    ASSUME ReportInv, NEW p \in Publishers, BusyStep(p)
    PROVE  /\ run[p].step \in Busy
           /\ run'[p].doc = run[p].doc /\ run'[p].todo = run[p].todo
           /\ run'[p].cand = run[p].cand /\ run'[p].result = run[p].result
<1>0. TypeInv /\ run[p] \in Runs
  BY ArchiveTyped DEF ReportInv, ArchiveInv, TypeOK
<1>1. run[p].step \in Busy
  BY DEF BusyStep, RecordPublishing, Upload, UploadRaises, Verify, VerifyRaises,
         Supersede, At, Busy, Steps
<1>2. \/ \E st \in Steps : run' = [run EXCEPT ![p].step = st]
      \/ run' = [run EXCEPT ![p] = [run[p] EXCEPT !.tries = @ + 1]]
      \/ run' = [run EXCEPT ![p] = [run[p] EXCEPT !.step = "fail",
                                      !.error = "STORAGE_VERIFICATION_FAILED"]]
  <2>1. {"upload", "verify", "fail", "publish", "supersede"} \subseteq Steps
    BY DEF Steps
  <2>2. CASE RecordPublishing(p) \/ Upload(p) \/ VerifyRaises(p) \/ Supersede(p)
    BY <2>1, <2>2 DEF RecordPublishing, Upload, VerifyRaises, Supersede
  <2>3. CASE UploadRaises(p)
    BY <2>1, <2>3 DEF UploadRaises, UploadAgain
  <2>4. CASE Verify(p)
    BY <2>1, <2>4 DEF Verify, AfterVerify
  <2> QED BY <2>2, <2>3, <2>4 DEF BusyStep
<1>3. CASE \E st \in Steps : run' = [run EXCEPT ![p].step = st]
  BY <1>0, <1>1, <1>3, StepRun
<1>4. CASE run' = [run EXCEPT ![p] = [run[p] EXCEPT !.tries = @ + 1]]
  <2>1. run'[p] = [run[p] EXCEPT !.tries = @ + 1]
    BY <1>0, <1>4 DEF TypeInv, TypeOK
  <2> QED BY <1>0, <1>1, <2>1 DEF Runs
<1>5. CASE run' = [run EXCEPT ![p] = [run[p] EXCEPT !.step = "fail",
                                        !.error = "STORAGE_VERIFICATION_FAILED"]]
  <2>1. run'[p] = [run[p] EXCEPT !.step = "fail",
                                 !.error = "STORAGE_VERIFICATION_FAILED"]
    BY <1>0, <1>5 DEF TypeInv, TypeOK
  <2> QED BY <1>0, <1>1, <2>1 DEF Runs
<1> QED BY <1>2, <1>3, <1>4, <1>5

\* Among those steps, only Supersede changes what is published, of its document.
LEMMA BusyPublished ==
    ASSUME ReportInv, NEW p \in Publishers, BusyStep(p)
    PROVE  /\ \A e \in Docs : e # run[p].doc => Published(e)' = Published(e)
           /\ RowsInv'
<1>0. run[p].step \in Busy /\ ArchiveInv
  BY BusyRun DEF ReportInv
<1>1. PICK d \in Docs : d = run[p].doc
  BY <1>0, NextVersion
<1>2. CASE UNCHANGED latest
  BY <1>2 DEF Published, RowsInv, ReportInv
<1>3. ASSUME NEW st \in Statuses, st # "PUBLISHED", NEW k \in Keys, NEW c,
             latest' = Appended(d, k, st, c)
      PROVE  /\ \A e \in Docs : e # d => Published(e)' = Published(e)
             /\ RowsInv'
  <2>1. latest \in [Docs -> [Keys -> Rows]]
    BY <1>0 DEF ArchiveInv, TypeOK
  <2>2. /\ \A e \in Docs : e # d => Published(e)' = Published(e)
        /\ Published(d)' = Published(d) \ {k}
        /\ \A e \in Docs, j \in Keys :
              e # d \/ j # k => latest'[e][j] = latest[e][j]
    BY <1>3, <2>1, AppendedRows
  <2>3. ASSUME NEW e \in Docs, NEW j \in Published(e)'
        PROVE  j[2] = Rendering[latest'[e][j].content]
    <3>1. j \in Published(e) /\ j \in Keys /\ (e # d \/ j # k)
      BY <2>2, <2>3 DEF Published
    <3>2. j[2] = Rendering[latest[e][j].content]
      BY <3>1 DEF ReportInv, RowsInv
    <3>3. latest'[e][j] = latest[e][j]
      BY <2>2, <3>1
    <3> QED BY <3>2, <3>3
  <2> QED BY <2>2, <2>3 DEF RowsInv
<1>4. CASE RecordPublishing(p)
  BY <1>0, <1>1, <1>3, <1>4, NextVersion DEF RecordPublishing, AppendRow, Statuses
<1>5. CASE Supersede(p)
  <2>1. PICK k \in run[p].prior :
          latest' = Appended(d, k, "SUPERSEDED", latest[d][k].content)
    BY <1>1, <1>5 DEF Supersede
  <2>2. k \in Keys /\ "SUPERSEDED" \in Statuses
    BY <1>0, <2>1, NextVersion DEF Statuses
  <2> QED BY <1>1, <1>3, <2>1, <2>2
<1> QED BY <1>1, <1>2, <1>4, <1>5
        DEF BusyStep, Upload, UploadRaises, Verify, VerifyRaises

LEMMA ReportStep ==
    ASSUME ReportInv, OnePublisher, NEW p \in Publishers, PublisherStep(p)
    PROVE  RowsInv' /\ \A q \in Publishers : BatchInv(q)'
<1> DEFINE r == run[p]
           Kept == RowsInv' /\ \A q \in Publishers : BatchInv(q)'
<1>0. ArchiveInv /\ TypeInv /\ r \in Runs
  BY ArchiveTyped DEF ReportInv, ArchiveInv, TypeOK
<1>1. ASSUME UNCHANGED latest PROVE RowsInv' /\ \A e \in Docs : Published(e)' = Published(e)
  BY <1>1 DEF Published, RowsInv, ReportInv
<1>2. ASSUME BeginPublish(p) \/ BeginRetry(p) \/ Finish(p) \/ Abort(p) PROVE Kept
  <2>1. UNCHANGED latest
    BY <1>2 DEF BeginPublish, BeginRetry, Finish, Abort
  <2>2. run'[p].step \notin Busy /\ \A d \in Docs : run'[p].result[d] = None
    <3>1. CASE Finish(p) \/ Abort(p)
      <4>1. run'[p] = Idle
        BY <1>0, <3>1 DEF Finish, Abort, TypeInv, TypeOK
      <4> QED BY <4>1 DEF Idle, Busy
    <3>2. CASE BeginPublish(p) \/ BeginRetry(p)
      <4>1. \E S \in SUBSET Docs :
              run'[p] = [Idle EXCEPT !.step = "next", !.todo = S, !.cand = source]
        <5>1. CASE BeginPublish(p)
          BY <1>0, <5>1 DEF BeginPublish, TypeInv, TypeOK
        <5>2. CASE BeginRetry(p)
          <6>1. run'[p] = [Idle EXCEPT !.step = "next", !.cand = source,
                             !.todo = {d \in Docs : RetrySelects(d, source[d])}]
            BY <1>0, <5>2 DEF BeginRetry, TypeInv, TypeOK
          <6>2. PICK S \in SUBSET Docs : S = {d \in Docs : RetrySelects(d, source[d])}
            OBVIOUS
          <6>3. run'[p] = [Idle EXCEPT !.step = "next", !.cand = source, !.todo = S]
            BY <6>1, <6>2
          <6>4. [Idle EXCEPT !.step = "next", !.cand = source, !.todo = S]
                  = [Idle EXCEPT !.step = "next", !.todo = S, !.cand = source]
            BY DEF Idle
          <6> QED BY <6>2, <6>3, <6>4
        <5> QED BY <3>2, <5>1, <5>2
      <4>2. PICK S \in SUBSET Docs :
              run'[p] = [Idle EXCEPT !.step = "next", !.todo = S, !.cand = source]
        BY <4>1
      <4> QED BY <4>2 DEF Idle, Busy
    <3> QED BY <1>2, <3>1, <3>2
  <2> QED BY <1>1, <2>1, <2>2, NothingReported
<1>3. ASSUME NEW d \in Docs, AlreadyPublished(p, d) PROVE Kept
  <2>1. UNCHANGED latest /\ d \in r.todo
    BY <1>3 DEF AlreadyPublished
  <2>2. "ALREADY_PUBLISHED" \in Results
    BY DEF Results
  <2>3. PICK k \in Published(d) : IsAlready(d, k, r.cand[d])
    BY <1>3 DEF AlreadyPublished, Current
  <2>4. k[2] = Rendering[latest[d][k].content]
    BY DEF ReportInv, RowsInv
  <2>5. k[2] = Rendering[r.cand[d]]
    BY <2>3, <2>4 DEF IsAlready
  <2>6. \E j \in Published(d)' : j[2] = Rendering[r.cand[d]]
    BY <1>1, <2>1, <2>5
  <2>7. run'[p] = Settled(run[p], d, "ALREADY_PUBLISHED")
    BY <1>0, <1>3 DEF AlreadyPublished, TypeInv, TypeOK
  <2>8. /\ run'[p].step \notin Busy
        /\ run'[p].todo = r.todo \ {d} /\ run'[p].cand = r.cand
        /\ run'[p].result[d] = "ALREADY_PUBLISHED"
        /\ \A e \in Docs : e # d => run'[p].result[e] = r.result[e]
    BY <1>0, <2>2, <2>7, SettledRun
  <2> QED BY <1>1, <2>1, <2>2, <2>6, <2>8, NowReported
<1>4. ASSUME NEW d \in Docs, Prepare(p, d) PROVE Kept
  <2>1. UNCHANGED latest /\ d \in r.todo
    BY <1>4 DEF Prepare, PrepareFor
  <2>2. PICK prior, v, st :
           run' = [run EXCEPT ![p] = [r EXCEPT !.doc = d, !.prior = prior,
                                               !.version = v, !.step = st]]
    BY <1>4 DEF Prepare, PrepareFor
  <2>3. run'[p] = [r EXCEPT !.doc = d, !.prior = prior, !.version = v, !.step = st]
    BY <1>0, <2>2 DEF TypeInv, TypeOK
  <2>4. /\ run'[p].doc = d /\ run'[p].todo = r.todo
        /\ run'[p].cand = r.cand /\ run'[p].result = r.result
    BY <1>0, <2>3 DEF Runs
  <2> QED BY <1>1, <2>1, <2>4, StillReported
<1>5. ASSUME BusyStep(p) PROVE Kept
  <2>1. PICK d \in Docs : d = r.doc
    BY <1>0, <1>5, BusyRun, NextVersion
  <2>2. d \in r.todo
    BY <1>5, <2>1, BusyRun DEF ReportInv, BatchInv
  <2>3. /\ run'[p].doc = d /\ run'[p].todo = r.todo
        /\ run'[p].cand = r.cand /\ run'[p].result = r.result
    BY <1>5, <2>1, BusyRun
  <2>4. RowsInv' /\ \A e \in Docs : e # d => Published(e)' = Published(e)
    BY <1>5, <2>1, BusyPublished
  <2> QED BY <2>2, <2>3, <2>4, StillReported
<1>6. ASSUME Publish(p) \/ Fail(p) PROVE Kept
  <2>1. r.step \in Busy
    BY <1>6 DEF Publish, Fail, At, Busy, Steps
  <2>2. PICK d \in Docs, k \in Keys :
          /\ d = r.doc /\ k = CandKey(p) /\ k[2] = Rendering[r.cand[d]]
          /\ k \notin Published(d)
    BY <1>0, <2>1, NextVersion
  <2>3. PICK x \in Results \cap Statuses :
          /\ latest' = Appended(d, k, x, r.cand[d])
          /\ run'[p] = Settled(run[p], d, x)
          /\ x \in Reported => x = "PUBLISHED"
    <3>1. r.error \in Failures /\ Failures \subseteq Results \cap Statuses
          /\ "PUBLISHED" \in Results \cap Statuses /\ Failures \cap Reported = {}
      BY <1>0 DEF Runs, Failures, Results, Statuses, Reported
    <3>2. CASE Publish(p)
      BY <1>0, <2>2, <3>1, <3>2 DEF Publish, AppendRow, TypeInv, TypeOK
    <3>3. CASE Fail(p)
      BY <1>0, <2>2, <3>1, <3>3 DEF Fail, AppendRow, TypeInv, TypeOK
    <3> QED BY <1>6, <3>2, <3>3
  <2>4. latest \in [Docs -> [Keys -> Rows]]
    BY <1>0 DEF TypeInv, TypeOK
  <2>5. /\ \A e \in Docs : e # d => Published(e)' = Published(e)
        /\ x = "PUBLISHED" => Published(d)' = Published(d) \cup {k}
        /\ x # "PUBLISHED" => Published(d)' = Published(d) \ {k}
        /\ \A e \in Docs, j \in Keys :
              e # d \/ j # k => latest'[e][j] = latest[e][j]
    BY <2>3, <2>4, AppendedRows
  <2>6. latest'[d][k].content = r.cand[d]
    BY <2>3, <2>4 DEF Appended
  <2>7. ASSUME NEW e \in Docs, NEW j \in Published(e)'
        PROVE  j[2] = Rendering[latest'[e][j].content]
    <3>1. CASE e = d /\ j = k
      BY <2>2, <2>6, <3>1
    <3>2. CASE ~(e = d /\ j = k)
      <4>1. j \in Published(e) /\ j \in Keys
        BY <2>5, <2>7, <3>2 DEF Published
      <4>2. j[2] = Rendering[latest[e][j].content]
        BY <4>1 DEF ReportInv, RowsInv
      <4> QED BY <2>5, <3>2, <4>1, <4>2
    <3> QED BY <3>1, <3>2
  <2>8. x \in Reported => \E j \in Published(d)' : j[2] = Rendering[r.cand[d]]
    BY <2>2, <2>3, <2>5
  <2>9. /\ run'[p].step \notin Busy
        /\ run'[p].todo = r.todo \ {d} /\ run'[p].cand = r.cand
        /\ run'[p].result[d] = x
        /\ \A e \in Docs : e # d => run'[p].result[e] = r.result[e]
    BY <1>0, <2>3, SettledRun
  <2>10. \A q \in Publishers : BatchInv(q)'
    BY <2>3, <2>5, <2>8, <2>9, NowReported
  <2> QED BY <2>7, <2>10 DEF RowsInv
<1> QED BY <1>2, <1>3, <1>4, <1>5, <1>6 DEF PublisherStep, Progress, BusyStep

LEMMA ReportsStep == OnePublisher /\ ReportInv /\ ArchiveInv' /\ [Next]_vars => ReportInv'
<1> SUFFICES ASSUME OnePublisher, ReportInv, ArchiveInv', [Next]_vars PROVE ReportInv'
  OBVIOUS
<1>1. ASSUME NEW p \in Publishers, PublisherStep(p) PROVE ReportInv'
  BY <1>1, ReportStep DEF ReportInv
<1>2. ASSUME UNCHANGED <<latest, run>> PROVE ReportInv'
  BY <1>2 DEF ReportInv, RowsInv, BatchInv, Shows, Published
<1>3. ~(\E p \in Publishers : PublisherStep(p)) => UNCHANGED <<latest, run>>
  BY DEF Next, ChangeSource, PackageStep, BeginPackage, ReadRef, LoadRef,
         FetchObject, EndPackage, vars
<1> QED BY <1>1, <1>2, <1>3

LEMMA ReportInit == Init /\ ArchiveInv => ReportInv
<1> SUFFICES ASSUME Init, ArchiveInv PROVE RowsInv /\ \A p \in Publishers : BatchInv(p)
  BY DEF ReportInv
<1>1. \A d \in Docs : Published(d) = {}
  BY DEF Init, Published, None
<1>2. \A p \in Publishers : BatchInv(p)
  BY DEF Init, BatchInv, Idle, Busy, Reported, None
<1> QED BY <1>1, <1>2 DEF RowsInv

\* The only published row of a document is its current one.
LEMMA PublishedIsCurrent ==
    ASSUME ArchiveInv, NEW d \in Docs, NEW k \in Published(d)
    PROVE  k \in Current(d)
<1>1. k[1] \in Nat
  BY DEF Published, Keys, Versions
<1> QED BY <1>1 DEF ArchiveInv, UniqueCurrent, Current

\* What a batch reports as published or already published is the current
\* publication of its document, and shows the pages of the batch's candidate.
THEOREM ReportedIsCurrent ==
    ASSUME OnePublisher PROVE Spec => []BatchIsCurrent
<1>1. ReportInv => BatchIsCurrent
  <2> SUFFICES ASSUME ReportInv, NEW p \in Publishers, NEW d \in Docs,
                      run[p].result[d] \in Reported
               PROVE  \E k \in Current(d) : k[2] = Rendering[run[p].cand[d]]
    BY DEF BatchIsCurrent, Reported
  <2>1. PICK k \in Published(d) : k[2] = Rendering[run[p].cand[d]]
    BY DEF ReportInv, BatchInv, Shows
  <2> QED BY <2>1, PublishedIsCurrent DEF ReportInv
<1>2. ReportInv /\ ArchiveInv' /\ [Next]_vars => ReportInv'
  BY ReportsStep
<1> QED BY <1>1, <1>2, Registry, ReportInit, PTL DEF Spec

=============================================================================
