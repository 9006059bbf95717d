---------------------------- MODULE ManifestsProofs ----------------------------
(***************************************************************************)
(* What the ingestion and the discovery of the sources promise holds for   *)
(* every number of runs, files, artifacts and checks: of the publication   *)
(* of the artifacts, of the rows it accounts for, and of the registry of   *)
(* manifests.                                                              *)
(***************************************************************************)
EXTENDS Manifests, SequenceTheorems, FiniteSetTheorems, WellFoundedInduction, TLAPS

----------------------------------------------------------------------------
(* The artifacts and what a run keeps of them *)

LEMMA ArtifactNames ==
    /\ Len(Artifacts) \in Nat \ {0}
    /\ DOMAIN Artifacts = 1 .. Len(Artifacts)
    /\ Names = {Artifacts[i] : i \in 1 .. Len(Artifacts)}
<1>1. Artifacts \in Seq(STRING) /\ Artifacts # <<>>
  BY IngestionAssumption
<1>2. Len(Artifacts) \in Nat /\ DOMAIN Artifacts = 1 .. Len(Artifacts)
  BY <1>1, LenProperties
<1>3. Len(Artifacts) # 0
  BY <1>1, EmptySeq
<1>4. Names = {Artifacts[i] : i \in 1 .. Len(Artifacts)}
  BY <1>2 DEF Names, ToSet
<1> QED BY <1>2, <1>3, <1>4

\* A sequence of whatever it holds.
IsSequence(s) == s \in Seq(Range(s))

LEMMA AppendSequence ==
    ASSUME NEW s, IsSequence(s), NEW x
    PROVE  /\ IsSequence(Append(s, x)) /\ Len(s) \in Nat
           /\ Len(Append(s, x)) = Len(s) + 1
           /\ \A i \in 1 .. Len(s) : Append(s, x)[i] = s[i]
           /\ Append(s, x)[Len(s) + 1] = x
<1> DEFINE T == Range(s) \cup {x}
<1>1. s \in Seq(T)
  <2>1. Range(s) \subseteq T
    OBVIOUS
  <2>2. s \in Seq(Range(s))
    BY DEF IsSequence
  <2> HIDE DEF T
  <2> QED BY <2>1, <2>2
<1>2. x \in T
  OBVIOUS
<1> HIDE DEF T
<1>3. /\ Append(s, x) \in Seq(T) /\ Len(s) \in Nat
      /\ Len(Append(s, x)) = Len(s) + 1
      /\ \A i \in 1 .. Len(s) : Append(s, x)[i] = s[i]
      /\ Append(s, x)[Len(s) + 1] = x
  BY <1>1, <1>2, AppendProperties
<1>4. PICK z : z = Append(s, x)
  OBVIOUS
<1>5. z \in Seq(T)
  BY <1>3, <1>4
<1>6. z \in [1 .. Len(z) -> T] /\ DOMAIN z = 1 .. Len(z) /\ Len(z) \in Nat
  BY <1>5, LenProperties
<1>7. z \in [1 .. Len(z) -> Range(z)]
  BY <1>6 DEF Range
<1>8. z \in Seq(Range(z))
  BY <1>6, <1>7
<1> QED BY <1>3, <1>4, <1>8 DEF IsSequence

LEMMA EmptySequence == IsSequence(<<>>) /\ Len(<<>>) = 0
BY DEF IsSequence

----------------------------------------------------------------------------
(* The publication *)

RunFields == {"step", "listed", "toRead", "attempt", "frames", "profiles", "records",
              "issues", "failed", "result", "previous", "updated", "verified"}

\* What the run holds, of the contents before its publication and of its own.
Holds(s) ==
    /\ IsSequence(s.previous) /\ Len(s.previous) <= Len(Artifacts)
    /\ s.step = "previous" => Len(s.previous) < Len(Artifacts) /\ s.updated = 0
    /\ s.step # "previous" => Len(s.previous) = Len(Artifacts)
    /\ s.updated \in 0 .. Len(Artifacts)
    /\ s.step = "updating" => s.updated < Len(Artifacts)
    /\ s.step = "verifying" => s.updated = Len(Artifacts)
    /\ s.step \in {"previous", "updating"} => s.verified = 0
    /\ s.step = "verifying" => s.verified \in 0 .. Len(Artifacts) - 1
    /\ \A i, j \in 1 .. Len(s.previous) :
          Artifacts[i] = Artifacts[j] => s.previous[i] = s.previous[j]

\* What it did not update is what it found, and what it updated is its own.
FolderOf(s, contents) ==
    /\ \A i \in 1 .. Len(s.previous) :
          (\A j \in 1 .. s.updated : Artifacts[j] # Artifacts[i])
            => contents[Artifacts[i]] = s.previous[i]
    /\ s.step \in {"updating", "verifying"} =>
          \A j \in 1 .. s.updated : contents[Artifacts[j]] = Part(s.result, Artifacts[j])

Unpublished(s) ==
    s.step \in {"new", "reading", "resolving"} =>
        s.previous = <<>> /\ s.updated = 0 /\ s.verified = 0

PublicationSteps == {"previous", "updating", "verifying", "restoring"}

RunShape ==
    /\ DOMAIN processed = Names
    /\ run = [r \in Runs |-> run[r]]
    /\ \A r \in Runs : DOMAIN run[r] = RunFields /\ Unpublished(run[r])

\* Two runs that publish at once are both on record as overlapping; one that is
\* not finds and leaves the folder as its own steps say.
PublicationInv ==
    /\ RunShape
    /\ \A r, q \in Runs : r # q /\ Publishing(r) /\ Publishing(q) => r \in overlapped
    /\ \A r \in Runs : Publishing(r) /\ r \notin overlapped \cup uncovered =>
          Holds(run[r]) /\ FolderOf(run[r], processed)

LEMMA PublicationInit == Init => PublicationInv
<1> SUFFICES ASSUME Init PROVE PublicationInv
  OBVIOUS
<1>1. \A r \in Runs : run[r] = NewRun
  BY DEF Init
<1>2. DOMAIN NewRun = RunFields /\ Unpublished(NewRun) /\ NewRun.step = "new"
  BY DEF NewRun, RunFields, Unpublished
<1>3. \A r \in Runs : ~Publishing(r)
  BY <1>1, <1>2 DEF Publishing
<1>4. run = [r \in Runs |-> run[r]] /\ DOMAIN processed = Names
  BY DEF Init
<1> QED BY <1>1, <1>2, <1>3, <1>4 DEF PublicationInv, RunShape

\* A step of one run leaves the others as they are.
LEMMA RunMoves ==
    ASSUME RunShape, NEW r \in Runs, NEW s, run' = [run EXCEPT ![r] = s],
           DOMAIN s = RunFields, Unpublished(s), DOMAIN processed' = DOMAIN processed
    PROVE  /\ RunShape' /\ run'[r] = s
           /\ \A q \in Runs : q # r => run'[q] = run[q]
<1>1. run'[r] = s /\ \A q \in Runs : q # r => run'[q] = run[q]
  BY DEF RunShape
<1>2. run' = [q \in Runs |-> run'[q]]
  BY DEF RunShape
<1>3. \A q \in Runs : DOMAIN run'[q] = RunFields /\ Unpublished(run'[q])
  BY <1>1 DEF RunShape
<1> QED BY <1>1, <1>2, <1>3 DEF RunShape

\* A step that is not of the publication neither touches the artifacts nor begins one.
LEMMA NotPublishing ==
    ASSUME PublicationInv, NEW r \in Runs, NEW s, run' = [run EXCEPT ![r] = s],
           DOMAIN s = RunFields, Unpublished(s), s.step \notin PublicationSteps,
           UNCHANGED <<processed, overlapped>>, uncovered \subseteq uncovered'
    PROVE  PublicationInv'
<1>1. RunShape' /\ run'[r] = s /\ \A q \in Runs : q # r => run'[q] = run[q]
  BY RunMoves DEF PublicationInv
<1>2. \A q \in Runs : Publishing(q)' => q # r /\ Publishing(q)
  BY <1>1 DEF Publishing, PublicationSteps
<1> QED BY <1>1, <1>2 DEF PublicationInv

\* A publishing run's step: the folder as it says, if nobody else publishes.
LEMMA PublishingMoves ==
    ASSUME PublicationInv, NEW r \in Runs, Publishing(r), NEW s,
           run' = [run EXCEPT ![r] = s], DOMAIN s = RunFields, Unpublished(s),
           UNCHANGED overlapped, uncovered \subseteq uncovered',
           DOMAIN processed' = DOMAIN processed,
           s.step \in PublicationSteps /\ r \notin overlapped' \cup uncovered' =>
               Holds(s) /\ FolderOf(s, processed')
    PROVE  PublicationInv'
<1>1. RunShape' /\ run'[r] = s /\ \A q \in Runs : q # r => run'[q] = run[q]
  BY RunMoves DEF PublicationInv
<1>2. \A q \in Runs : Publishing(q)' => Publishing(q)
  BY <1>1 DEF Publishing, PublicationSteps
<1>3. \A p, q \in Runs : p # q /\ Publishing(p)' /\ Publishing(q)' => p \in overlapped'
  BY <1>2 DEF PublicationInv
<1>4. ASSUME NEW q \in Runs, Publishing(q)', q \notin overlapped' \cup uncovered'
      PROVE  Holds(run'[q]) /\ FolderOf(run'[q], processed')
  <2>1. q = r
    BY <1>2, <1>4 DEF PublicationInv
  <2> QED BY <1>1, <1>4, <2>1 DEF Publishing, PublicationSteps
<1> QED BY <1>1, <1>3, <1>4, Zenon DEF PublicationInv

\* A run that is resolved begins with nothing kept and nothing updated.
LEMMA ResolveStep == ASSUME PublicationInv, NEW r \in Runs, Resolve(r) PROVE PublicationInv'
<1> DEFINE s == [run[r] EXCEPT !.step = "previous"]
<1>0. /\ DOMAIN run[r] = RunFields /\ run[r].step = "resolving"
      /\ run[r].previous = <<>> /\ run[r].updated = 0 /\ run[r].verified = 0
  BY DEF PublicationInv, RunShape, Resolve, Unpublished
<1>1. CASE usable # Names
  <2> DEFINE t == [run[r] EXCEPT !.step = "refused"]
  <2>1. run' = [run EXCEPT ![r] = t]
    BY <1>1 DEF Resolve
  <2>2. DOMAIN t = RunFields /\ t.step = "refused"
    BY <1>0 DEF RunFields
  <2> HIDE DEF t
  <2>3. Unpublished(t) /\ t.step \notin PublicationSteps
    BY <2>2 DEF Unpublished, PublicationSteps
  <2>4. UNCHANGED <<processed, overlapped, uncovered>>
    BY <1>1 DEF Resolve
  <2> QED BY <2>1, <2>2, <2>3, <2>4, NotPublishing
<1>2. CASE usable = Names
  <2>1. run' = [run EXCEPT ![r] = s]
    BY <1>2 DEF Resolve
  <2>2. /\ DOMAIN s = RunFields /\ s.step = "previous" /\ s.previous = <<>>
        /\ s.updated = 0 /\ s.verified = 0
    BY <1>0 DEF RunFields
  <2> HIDE DEF s
  <2>3. Unpublished(s) /\ UNCHANGED <<processed, uncovered>>
    BY <2>2 DEF Unpublished, Resolve
  <2>4. RunShape' /\ run'[r] = s /\ \A q \in Runs : q # r => run'[q] = run[q]
    BY <2>1, <2>2, <2>3, RunMoves DEF PublicationInv
  <2>5. Holds(s) /\ FolderOf(s, processed')
    BY <2>2, EmptySequence, ArtifactNames DEF Holds, FolderOf
  <2>6. overlapped' = IF Meets(r) # {} THEN overlapped \cup Meets(r) \cup {r}
                      ELSE overlapped
    BY <1>2 DEF Resolve
  <2>7. \A q \in Runs : q # r => (Publishing(q)' <=> Publishing(q))
    BY <2>4 DEF Publishing
  <2>8. \A q \in Runs : q # r /\ Publishing(q) => q \in Meets(r)
    BY DEF Meets
  <2>9. \A p, q \in Runs : p # q /\ Publishing(p)' /\ Publishing(q)' => p \in overlapped'
    BY <2>6, <2>7, <2>8 DEF PublicationInv
  <2>10. ASSUME NEW q \in Runs, Publishing(q)', q \notin overlapped' \cup uncovered'
         PROVE  Holds(run'[q]) /\ FolderOf(run'[q], processed')
    <3>1. CASE q = r
      BY <2>4, <2>5, <3>1
    <3>2. CASE q # r
      <4>1. q \notin overlapped \cup uncovered /\ Publishing(q)
        BY <2>3, <2>6, <2>7, <2>10, <3>2
      <4> QED BY <2>3, <2>4, <3>2, <4>1 DEF PublicationInv
    <3> QED BY <3>1, <3>2
  <2> QED BY <2>4, <2>9, <2>10, Zenon DEF PublicationInv
<1> QED BY <1>1, <1>2

\* What a publishing run that nobody meets holds.
LEMMA Alone ==
    ASSUME PublicationInv, NEW r \in Runs, Publishing(r),
           r \notin overlapped' \cup uncovered', overlapped \subseteq overlapped',
           uncovered \subseteq uncovered'
    PROVE  Holds(run[r]) /\ FolderOf(run[r], processed)
BY DEF PublicationInv

LEMMA KeepPreviousStep ==
    ASSUME PublicationInv, NEW r \in Runs, KeepPrevious(r) PROVE PublicationInv'
<1> DEFINE kept == Append(run[r].previous, processed[Artifacts[Len(run[r].previous) + 1]])
           step == IF Len(kept) = Len(Artifacts) THEN "updating"
                   ELSE [run[r] EXCEPT !.previous = kept].step
           s == [run[r] EXCEPT !.previous = kept, !.step = step]
<1>0. DOMAIN run[r] = RunFields /\ run[r].step = "previous" /\ Publishing(r)
  BY DEF PublicationInv, RunShape, KeepPrevious, Publishing
<1>1. run' = [run EXCEPT ![r] = s]
  BY Zenon DEF KeepPrevious, Becomes
<1>2. step \in {"previous", "updating"} /\ (step = "updating" <=> Len(kept) = Len(Artifacts))
  BY <1>0 DEF RunFields
<1>3. PICK k : k = kept
  OBVIOUS
<1>4. PICK st : st = step
  OBVIOUS
<1>5. /\ DOMAIN s = RunFields /\ s.step = st /\ s.previous = k
      /\ s.updated = run[r].updated /\ s.verified = run[r].verified /\ s.result = run[r].result
  BY <1>0, <1>3, <1>4 DEF RunFields
<1>6. UNCHANGED <<processed, overlapped, uncovered>>
  BY DEF KeepPrevious
<1>7. Unpublished(s)
  BY <1>2, <1>4, <1>5 DEF Unpublished
<1>8. ASSUME r \notin overlapped' \cup uncovered'
      PROVE  Holds(s) /\ FolderOf(s, processed')
  <2>1. Holds(run[r]) /\ FolderOf(run[r], processed)
    BY <1>0, <1>6, <1>8, Alone
  <2>0. PICK p : p = run[r].previous
    OBVIOUS
  <2>2. PICK n \in Nat : n = Len(p) /\ p = run[r].previous /\ IsSequence(p)
    BY <2>0, <2>1, AppendSequence DEF Holds
  <2>3. /\ IsSequence(k) /\ Len(k) = n + 1 /\ \A i \in 1 .. n : k[i] = p[i]
        /\ k[n + 1] = processed[Artifacts[n + 1]]
    BY <1>3, <2>2, AppendSequence
  <2>4. n < Len(Artifacts) /\ run[r].updated = 0 /\ run[r].verified = 0
    BY <1>0, <2>1, <2>2 DEF Holds
  <2>5. \A i \in 1 .. n : processed[Artifacts[i]] = k[i]
    BY <2>1, <2>2, <2>3, <2>4 DEF FolderOf
  <2>6. \A i \in 1 .. n + 1 : processed[Artifacts[i]] = k[i]
    BY <2>3, <2>5
  <2>7. FolderOf(s, processed')
    BY <1>5, <1>6, <2>3, <2>4, <2>6 DEF FolderOf
  <2>8. (st = "updating" <=> n + 1 = Len(Artifacts)) /\ st \in {"previous", "updating"}
    BY <1>2, <1>3, <1>4, <2>3
  <2> HIDE DEF s, step, kept
  <2>9. \A i, j \in 1 .. Len(k) : Artifacts[i] = Artifacts[j] => k[i] = k[j]
    <3>1. \A i \in 1 .. Len(k) : processed[Artifacts[i]] = k[i]
      BY <2>3, <2>6
    <3> QED BY <3>1
  <2>10. Holds(s)
    <3>1. Len(Artifacts) \in Nat /\ n + 1 <= Len(Artifacts)
      BY <2>4, ArtifactNames
    <3>2. s.step \in {"previous", "updating"} /\ s.updated = 0 /\ s.verified = 0
      BY <1>5, <2>4, <2>8
    <3>3. s.previous = k /\ Len(k) = n + 1
      BY <1>5, <2>3
    <3>4. s.step = "updating" <=> n + 1 = Len(Artifacts)
      BY <1>5, <2>8
    <3> QED BY <2>3, <2>9, <3>1, <3>2, <3>3, <3>4 DEF Holds
  <2> QED BY <2>7, <2>10
<1> HIDE DEF s, step, kept
<1> QED BY <1>0, <1>1, <1>5, <1>6, <1>7, <1>8, PublishingMoves

LEMMA UpdateStep ==
    ASSUME PublicationInv, NEW r \in Runs, Update(r) PROVE PublicationInv'
<1> DEFINE n == run[r].updated + 1
           step == IF n = Len(Artifacts) THEN "verifying"
                   ELSE [run[r] EXCEPT !.updated = n].step
           s == [run[r] EXCEPT !.updated = n, !.step = step]
<1>0. DOMAIN run[r] = RunFields /\ run[r].step = "updating" /\ Publishing(r)
  BY DEF PublicationInv, RunShape, Update, Publishing
<1>1. run' = [run EXCEPT ![r] = s]
  BY Zenon DEF Update, Becomes
<1>2. step \in {"updating", "verifying"} /\ (step = "verifying" <=> n = Len(Artifacts))
  BY <1>0 DEF RunFields
<1>3. /\ DOMAIN s = RunFields /\ s.step = step /\ s.previous = run[r].previous
      /\ s.updated = n /\ s.verified = run[r].verified /\ s.result = run[r].result
  BY <1>0 DEF RunFields
<1>4. /\ UNCHANGED <<overlapped, uncovered>>
      /\ processed' = [processed EXCEPT ![Artifacts[n]] = Part(run[r].result, Artifacts[n])]
  BY DEF Update
<1>5. Unpublished(s) /\ DOMAIN processed' = DOMAIN processed
  BY <1>2, <1>3, <1>4 DEF Unpublished
<1> HIDE DEF s, step
<1>6. ASSUME r \notin overlapped' \cup uncovered'
      PROVE  Holds(s) /\ FolderOf(s, processed')
  <2>1. Holds(run[r]) /\ FolderOf(run[r], processed)
    BY <1>0, <1>4, <1>6, Alone
  <2>2. n \in 1 .. Len(Artifacts) /\ Len(run[r].previous) = Len(Artifacts)
    BY <1>0, <2>1, ArtifactNames DEF Holds
  <2>3. Holds(s)
    BY <1>0, <1>2, <1>3, <2>1, <2>2, ArtifactNames DEF Holds
  <2>4. Artifacts[n] \in DOMAIN processed /\ \A i \in 1 .. Len(Artifacts) : Artifacts[i] \in DOMAIN processed
    BY <2>2, ArtifactNames DEF PublicationInv, RunShape
  <2>5. ASSUME NEW i \in 1 .. Len(s.previous), \A j \in 1 .. s.updated : Artifacts[j] # Artifacts[i]
        PROVE  processed'[Artifacts[i]] = s.previous[i]
    <3>1. Artifacts[i] # Artifacts[n] /\ \A j \in 1 .. run[r].updated : Artifacts[j] # Artifacts[i]
      <4>1. run[r].updated \in Nat /\ s.updated = run[r].updated + 1
        BY <1>3, <2>1, ArtifactNames DEF Holds
      <4>2. n \in 1 .. s.updated /\ \A j \in 1 .. run[r].updated : j \in 1 .. s.updated
        BY <4>1
      <4> QED BY <2>5, <4>2
    <3>2. processed[Artifacts[i]] = run[r].previous[i]
      BY <1>3, <2>1, <2>5, <3>1 DEF FolderOf
    <3> QED BY <1>3, <1>4, <2>2, <2>4, <2>5, <3>1, <3>2
  <2>6. ASSUME NEW j \in 1 .. s.updated
        PROVE  processed'[Artifacts[j]] = Part(s.result, Artifacts[j])
    <3>1. CASE Artifacts[j] = Artifacts[n]
      BY <1>3, <1>4, <2>4, <3>1
    <3>2. CASE Artifacts[j] # Artifacts[n]
      <4>1. j \in 1 .. run[r].updated
        BY <1>3, <2>1, <2>6, <3>2 DEF Holds
      <4>2. processed[Artifacts[j]] = Part(run[r].result, Artifacts[j])
        BY <1>0, <2>1, <4>1 DEF FolderOf
      <4> QED BY <1>3, <1>4, <2>2, <2>4, <3>2, <4>1, <4>2
    <3> QED BY <3>1, <3>2
  <2> QED BY <2>3, <2>5, <2>6 DEF FolderOf
<1> QED BY <1>0, <1>1, <1>3, <1>4, <1>5, <1>6, PublishingMoves

LEMMA VerifyStep ==
    ASSUME PublicationInv, NEW r \in Runs, Verify(r) PROVE PublicationInv'
<1> DEFINE n == run[r].verified + 1
           step == IF n = Len(Artifacts) THEN "published"
                   ELSE [run[r] EXCEPT !.verified = n].step
           s == [run[r] EXCEPT !.verified = n, !.step = step]
           t == [run[r] EXCEPT !.step = "restoring"]
<1>0. DOMAIN run[r] = RunFields /\ run[r].step = "verifying" /\ Publishing(r)
  BY DEF PublicationInv, RunShape, Verify, Publishing
<1>1. run' = [run EXCEPT ![r] = s] \/ run' = [run EXCEPT ![r] = t]
  BY Zenon DEF Verify, Becomes
<1>2. step \in {"published", "verifying"} /\ (step = "published" <=> n = Len(Artifacts))
  BY <1>0 DEF RunFields
<1>3. /\ DOMAIN s = RunFields /\ s.step = step /\ s.previous = run[r].previous
      /\ s.updated = run[r].updated /\ s.verified = n /\ s.result = run[r].result
  BY <1>0 DEF RunFields
<1>4. /\ DOMAIN t = RunFields /\ t.step = "restoring" /\ t.previous = run[r].previous
      /\ t.updated = run[r].updated /\ t.verified = run[r].verified
  BY <1>0 DEF RunFields
<1>5. UNCHANGED <<processed, overlapped, uncovered>>
  BY DEF Verify
<1> HIDE DEF s, t, step
<1>6. Unpublished(s) /\ Unpublished(t)
  BY <1>2, <1>3, <1>4 DEF Unpublished
<1>7. ASSUME r \notin overlapped' \cup uncovered'
      PROVE  /\ s.step \in PublicationSteps => Holds(s)
             /\ Holds(t) /\ FolderOf(s, processed') /\ FolderOf(t, processed')
  <2>1. Holds(run[r]) /\ FolderOf(run[r], processed)
    BY <1>0, <1>5, <1>7, Alone
  <2>2. Holds(t)
    BY <1>0, <1>4, <2>1, ArtifactNames DEF Holds
  <2>3. s.step \in PublicationSteps => Holds(s)
    BY <1>0, <1>2, <1>3, <2>1, ArtifactNames DEF Holds, PublicationSteps
  <2>4. FolderOf(s, processed') /\ FolderOf(t, processed')
    BY <1>0, <1>2, <1>3, <1>4, <1>5, <2>1 DEF FolderOf
  <2> QED BY <2>2, <2>3, <2>4
<1>8. CASE run' = [run EXCEPT ![r] = s]
  BY <1>0, <1>3, <1>5, <1>6, <1>7, <1>8, PublishingMoves
<1>9. CASE run' = [run EXCEPT ![r] = t]
  BY <1>0, <1>4, <1>5, <1>6, <1>7, <1>9, PublishingMoves
<1> QED BY <1>1, <1>8, <1>9

LEMMA RestoreStep ==
    ASSUME PublicationInv, NEW r \in Runs, Restore(r) PROVE PublicationInv'
<1> DEFINE n == run[r].updated
           s == [run[r] EXCEPT !.updated = n - 1]
<1>0. DOMAIN run[r] = RunFields /\ run[r].step = "restoring" /\ Publishing(r)
  BY DEF PublicationInv, RunShape, Restore, Publishing
<1>1. run' = [run EXCEPT ![r] = s]
  BY DEF Restore
<1>2. /\ DOMAIN s = RunFields /\ s.step = "restoring" /\ s.previous = run[r].previous
      /\ s.updated = n - 1 /\ s.verified = run[r].verified
  BY <1>0 DEF RunFields
<1>3. /\ UNCHANGED <<overlapped, uncovered>> /\ n > 0
      /\ processed' = [processed EXCEPT ![Artifacts[n]] = run[r].previous[n]]
  BY DEF Restore
<1> HIDE DEF s
<1>4. Unpublished(s) /\ DOMAIN processed' = DOMAIN processed
  BY <1>2, <1>3 DEF Unpublished
<1>5. ASSUME r \notin overlapped' \cup uncovered'
      PROVE  Holds(s) /\ FolderOf(s, processed')
  <2>1. Holds(run[r]) /\ FolderOf(run[r], processed)
    BY <1>0, <1>3, <1>5, Alone
  <2>2. /\ n \in 1 .. Len(Artifacts) /\ Len(run[r].previous) = Len(Artifacts)
        /\ Len(Artifacts) \in Nat
    BY <1>0, <1>3, <2>1, ArtifactNames DEF Holds
  <2>3. Holds(s)
    BY <1>0, <1>2, <2>1, <2>2 DEF Holds
  <2>4. \A i \in 1 .. Len(Artifacts) : Artifacts[i] \in DOMAIN processed
    BY ArtifactNames DEF PublicationInv, RunShape
  <2>5. ASSUME NEW i \in 1 .. Len(s.previous), \A j \in 1 .. s.updated : Artifacts[j] # Artifacts[i]
        PROVE  processed'[Artifacts[i]] = s.previous[i]
    <3>1. CASE Artifacts[i] = Artifacts[n]
      <4>1. run[r].previous[i] = run[r].previous[n]
        BY <1>2, <2>1, <2>2, <2>5, <3>1 DEF Holds
      <4> QED BY <1>2, <1>3, <2>2, <2>4, <3>1, <4>1
    <3>2. CASE Artifacts[i] # Artifacts[n]
      <4>1. \A j \in 1 .. n : j = n \/ j \in 1 .. s.updated
        BY <1>2, <2>2
      <4>2. \A j \in 1 .. n : Artifacts[j] # Artifacts[i]
        BY <2>5, <3>2, <4>1
      <4>3. processed[Artifacts[i]] = run[r].previous[i]
        BY <1>2, <2>1, <2>5, <4>2 DEF FolderOf
      <4> QED BY <1>2, <1>3, <2>2, <2>4, <2>5, <3>2, <4>3
    <3> QED BY <3>1, <3>2
  <2> QED BY <1>2, <2>3, <2>5 DEF FolderOf
<1> QED BY <1>0, <1>1, <1>2, <1>3, <1>4, <1>5, PublishingMoves

\* A failure while nothing is on record that it leaves half done.
LEMMA FailureSteps ==
    ASSUME PublicationInv, NEW r \in Runs, Raise(r) \/ CallFails(r) \/ Crash(r)
    PROVE  PublicationInv'
<1>0. DOMAIN run[r] = RunFields /\ Unpublished(run[r])
  BY DEF PublicationInv, RunShape
<1>1. PICK st \in {"restored", "abandoned", "restoring", "crashed"} :
        /\ run' = [run EXCEPT ![r].step = st]
        /\ st = "restoring" => /\ run[r].step \in {"updating", "verifying"}
                               /\ r \in uncovered' \/ UNCHANGED processed
        /\ Publishing(r) \/ UNCHANGED processed
  BY DEF Raise, CallFails, Crash, Publishing
<1>2. UNCHANGED overlapped /\ uncovered \subseteq uncovered'
  BY DEF Raise, CallFails, Crash
<1>3. DOMAIN processed' = DOMAIN processed
  BY DEF Raise, CallFails, Crash
<1> DEFINE s == [run[r] EXCEPT !.step = st]
<1>4. run' = [run EXCEPT ![r] = s]
  BY <1>1
<1>5. /\ DOMAIN s = RunFields /\ s.step = st /\ s.previous = run[r].previous
      /\ s.updated = run[r].updated /\ s.verified = run[r].verified
  BY <1>0 DEF RunFields
<1> HIDE DEF s
<1>6. Unpublished(s)
  BY <1>1, <1>5 DEF Unpublished
<1>7. CASE ~Publishing(r)
  <2>1. s.step \notin PublicationSteps /\ UNCHANGED processed
    BY <1>1, <1>5, <1>7 DEF PublicationSteps, Publishing
  <2> QED BY <1>2, <1>4, <1>5, <1>6, <2>1, NotPublishing
<1>8. CASE Publishing(r)
  <2>1. ASSUME s.step \in PublicationSteps, r \notin overlapped' \cup uncovered'
        PROVE  Holds(s) /\ FolderOf(s, processed')
    <3>1. /\ run[r].step \in {"updating", "verifying"} /\ UNCHANGED processed
          /\ s.step = "restoring"
      BY <1>1, <1>5, <2>1 DEF PublicationSteps
    <3>2. Holds(run[r]) /\ FolderOf(run[r], processed)
      BY <1>2, <1>8, <2>1, Alone
    <3>3. Holds(s)
      BY <1>5, <3>1, <3>2, ArtifactNames DEF Holds
    <3>4. FolderOf(s, processed')
      BY <1>5, <3>1, <3>2 DEF FolderOf
    <3> QED BY <3>3, <3>4
  <2> QED BY <1>2, <1>3, <1>4, <1>5, <1>6, <1>8, <2>1, PublishingMoves
<1> QED BY <1>7, <1>8

\* Reading the sources publishes nothing.
LEMMA ReadingSteps ==
    ASSUME PublicationInv, NEW r \in Runs,
           List(r) \/ ReadSource(r) \/ AttemptFails(r) \/ Build(r)
    PROVE  PublicationInv'
<1>0. DOMAIN run[r] = RunFields /\ Unpublished(run[r])
  BY DEF PublicationInv, RunShape
<1> DEFINE Reads(s) ==
             /\ DOMAIN s = RunFields /\ s.previous = run[r].previous
             /\ s.updated = run[r].updated /\ s.verified = run[r].verified
             /\ s.step \in {"reading", "resolving", "not_published"}
<1>1. PICK s : run' = [run EXCEPT ![r] = s] /\ Reads(s)
  <2>1. CASE List(r)
    <3> DEFINE listed == {f \in Files : folder[f] # None}
               s == [run[r] EXCEPT !.step = "reading", !.listed = listed, !.toRead = listed]
    <3>1. run' = [run EXCEPT ![r] = s]
      BY <2>1, Zenon DEF List, Becomes
    <3> HIDE DEF listed
    <3>2. Reads(s)
      BY <1>0 DEF RunFields
    <3> QED BY <3>1, <3>2, Zenon
  <2>2. CASE ReadSource(r)
    <3>1. PICK a, b, c, d, e, g :
            run' = [run EXCEPT ![r] = [run[r] EXCEPT !.toRead = a, !.attempt = 0, !.frames = b,
                      !.profiles = c, !.records = d, !.issues = e, !.failed = g]]
      BY <2>2, Zenon DEF ReadSource, Becomes
    <3> DEFINE s == [run[r] EXCEPT !.toRead = a, !.attempt = 0, !.frames = b,
                      !.profiles = c, !.records = d, !.issues = e, !.failed = g]
    <3>2. Reads(s)
      BY <1>0, <2>2 DEF RunFields, ReadSource
    <3> QED BY <3>1, <3>2, Zenon
  <2>3. CASE AttemptFails(r)
    <3>1. \/ \E a : run' = [run EXCEPT ![r] = [run[r] EXCEPT !.attempt = a]]
          \/ \E a, b, c : run' = [run EXCEPT ![r] =
               [run[r] EXCEPT !.attempt = 0, !.toRead = a, !.failed = b, !.issues = c]]
      BY <2>3, Zenon DEF AttemptFails, Becomes
    <3>2. ASSUME NEW a, run' = [run EXCEPT ![r] = [run[r] EXCEPT !.attempt = a]]
          PROVE  \E s : run' = [run EXCEPT ![r] = s] /\ Reads(s)
      <4> DEFINE s == [run[r] EXCEPT !.attempt = a]
      <4>1. Reads(s)
        BY <1>0, <2>3 DEF RunFields, AttemptFails
      <4> QED BY <3>2, <4>1, Zenon
    <3>3. ASSUME NEW a, NEW b, NEW c, run' = [run EXCEPT ![r] =
               [run[r] EXCEPT !.attempt = 0, !.toRead = a, !.failed = b, !.issues = c]]
          PROVE  \E s : run' = [run EXCEPT ![r] = s] /\ Reads(s)
      <4> DEFINE s == [run[r] EXCEPT !.attempt = 0, !.toRead = a, !.failed = b, !.issues = c]
      <4>1. Reads(s)
        BY <1>0, <2>3 DEF RunFields, AttemptFails
      <4> QED BY <3>3, <4>1, Zenon
    <3> HIDE DEF Reads
    <3> QED BY <3>1, <3>2, <3>3, Zenon
  <2>4. CASE Build(r)
    <3> DEFINE st == IF run[r].failed = {} THEN "resolving" ELSE "not_published"
               s == [run[r] EXCEPT !.result = Result(r), !.step = st]
    <3>1. run' = [run EXCEPT ![r] = s]
      BY <2>4, Zenon DEF Build, Becomes
    <3>2. st \in {"resolving", "not_published"}
      OBVIOUS
    <3> HIDE DEF st
    <3>3. PICK x : x = Result(r)
      OBVIOUS
    <3>4. Reads(s)
      BY <1>0, <3>2, <3>3 DEF RunFields
    <3> QED BY <3>1, <3>4, Zenon
  <2> HIDE DEF Reads
  <2> QED BY <2>1, <2>2, <2>3, <2>4, Zenon
<1>2. run[r].step \in {"new", "reading"}
  BY DEF List, ReadSource, AttemptFails, Build
<1>3. Unpublished(s) /\ s.step \notin PublicationSteps
  BY <1>0, <1>1, <1>2 DEF Unpublished, PublicationSteps
<1>4. UNCHANGED <<processed, overlapped, uncovered>>
  BY DEF List, ReadSource, AttemptFails, Build
<1> QED BY <1>1, <1>3, <1>4, NotPublishing

LEMMA PublicationKept ==
    ASSUME PublicationInv, UNCHANGED <<processed, run, overlapped, uncovered>>
    PROVE  PublicationInv'
<1>1. RunShape'
  BY DEF PublicationInv, RunShape
<1>2. \A r \in Runs : Publishing(r)' <=> Publishing(r)
  BY DEF Publishing
<1> QED BY <1>1, <1>2 DEF PublicationInv

LEMMA PublicationStep == PublicationInv /\ [Next]_vars => PublicationInv'
<1> SUFFICES ASSUME PublicationInv, [Next]_vars PROVE PublicationInv'
  OBVIOUS
<1>1. CASE UNCHANGED vars \/ FolderChanges
  BY <1>1, PublicationKept DEF vars, FolderChanges
<1>2. ASSUME NEW r \in Runs, Step(r) \/ CallFails(r) \/ Crash(r) PROVE PublicationInv'
  <2>1. CASE List(r) \/ ReadSource(r) \/ AttemptFails(r) \/ Build(r)
    BY <2>1, ReadingSteps
  <2>2. CASE Raise(r) \/ CallFails(r) \/ Crash(r)
    BY <2>2, FailureSteps
  <2> QED BY <1>2, <2>1, <2>2, ResolveStep, KeepPreviousStep, UpdateStep, VerifyStep,
             RestoreStep DEF Step
<1> QED BY <1>1, <1>2 DEF Next

\* What a run that ends its publication leaves in the folder.
LEMMA EndsWhole ==
    ASSUME PublicationInv, [Next]_vars, NEW r \in Runs, Publishing(r),
           run'[r].step \in Ended, r \notin overlapped' \cup uncovered'
    PROVE  IF run'[r].step = "published"
           THEN \A a \in Names : processed'[a] = Part(run[r].result, a)
           ELSE \A n \in DOMAIN run[r].previous :
                   processed'[Artifacts[n]] = run[r].previous[n]
<1>0. /\ run[r].step \in PublicationSteps /\ run[r].step \notin Ended
      /\ DOMAIN run[r] = RunFields /\ DOMAIN run = Runs
  BY DEF Publishing, PublicationSteps, Ended, PublicationInv, RunShape
<1>1. overlapped \subseteq overlapped' /\ uncovered \subseteq uncovered'
  BY DEF Next, FolderChanges, Step, List, ReadSource, AttemptFails, Build, Resolve,
         KeepPrevious, Update, Verify, Restore, Raise, CallFails, Crash, vars
<1>2. Holds(run[r]) /\ FolderOf(run[r], processed)
  BY <1>1, Alone
<1>3. PICK p : p = run[r].previous
  OBVIOUS
<1>4. DOMAIN p = 1 .. Len(p) /\ Len(p) <= Len(Artifacts)
  <2>1. p \in Seq(Range(p))
    BY <1>2, <1>3 DEF Holds, IsSequence
  <2> QED BY <1>2, <1>3, <2>1, LenProperties DEF Holds
<1>5. \/ run' = run
      \/ \E q \in Runs : \E s : q # r /\ run' = [run EXCEPT ![q] = s]
      \/ KeepPrevious(r) \/ Update(r) \/ Verify(r) \/ Restore(r) \/ Raise(r)
      \/ CallFails(r) \/ Crash(r)
  <2>1. CASE UNCHANGED vars \/ FolderChanges
    BY <2>1 DEF vars, FolderChanges
  <2>2. ASSUME NEW q \in Runs, Step(q) \/ CallFails(q) \/ Crash(q)
        PROVE  \E s : run' = [run EXCEPT ![q] = s]
    BY <2>2, Zenon DEF Step, List, ReadSource, AttemptFails, Build, Resolve, KeepPrevious,
         Update, Verify, Restore, Raise, CallFails, Crash, Becomes
  <2>3. ASSUME Step(r) \/ CallFails(r) \/ Crash(r)
        PROVE  \/ KeepPrevious(r) \/ Update(r) \/ Verify(r) \/ Restore(r) \/ Raise(r)
               \/ CallFails(r) \/ Crash(r)
    BY <1>0, <2>3 DEF Step, List, ReadSource, AttemptFails, Build, Resolve, PublicationSteps
  <2> QED BY <2>1, <2>2, <2>3, Zenon DEF Next
<1>6. KeepPrevious(r) \/ Update(r) \/ Verify(r) \/ Restore(r) \/ Raise(r)
      \/ CallFails(r) \/ Crash(r)
  <2>1. run'[r] # run[r]
    BY <1>0
  <2> QED BY <1>0, <1>5, <2>1
<1>7. PICK m : m = run[r].updated
  OBVIOUS
<1>8. CASE Verify(r)
  <2>1. run'[r].step \in {"published", "verifying", "restoring"} /\ UNCHANGED processed
        /\ run[r].step = "verifying"
    <3> DEFINE n == run[r].verified + 1
               step == IF n = Len(Artifacts) THEN "published"
                       ELSE [run[r] EXCEPT !.verified = n].step
               s == [run[r] EXCEPT !.verified = n, !.step = step]
               t == [run[r] EXCEPT !.step = "restoring"]
    <3>1. run' = [run EXCEPT ![r] = s] \/ run' = [run EXCEPT ![r] = t]
      BY <1>8, Zenon DEF Verify, Becomes
    <3>2. run[r].step = "verifying" /\ UNCHANGED processed
      BY <1>8 DEF Verify
    <3>3. s.step \in {"published", "verifying"} /\ t.step = "restoring"
      BY <1>0, <3>2 DEF RunFields
    <3> HIDE DEF s, t
    <3> QED BY <1>0, <3>1, <3>2, <3>3
  <2>2. run'[r].step = "published" /\ m = Len(Artifacts)
    BY <1>2, <1>7, <2>1 DEF Holds, Ended
  <2>3. \A j \in 1 .. m : processed[Artifacts[j]] = Part(run[r].result, Artifacts[j])
    BY <1>2, <1>7, <2>1 DEF FolderOf
  <2>4. ASSUME NEW a \in Names PROVE processed'[a] = Part(run[r].result, a)
    <3>1. PICK j \in 1 .. m : a = Artifacts[j]
      BY <2>2, ArtifactNames
    <3> QED BY <2>1, <2>3, <3>1
  <2> QED BY <2>2, <2>4
<1>9. CASE KeepPrevious(r) \/ Update(r) \/ Restore(r)
  <2>1. CASE Restore(r)
    BY <1>0, <2>1 DEF Restore, Ended, RunFields
  <2>2. CASE KeepPrevious(r)
    <3> DEFINE k == Append(run[r].previous, processed[Artifacts[Len(run[r].previous) + 1]])
    <3>1. run' = [run EXCEPT ![r] = [run[r] EXCEPT !.previous = k,
              !.step = IF Len(k) = Len(Artifacts) THEN "updating"
                       ELSE [run[r] EXCEPT !.previous = k].step]]
      BY <2>2, Zenon DEF KeepPrevious, Becomes
    <3> HIDE DEF k
    <3>2. run'[r].step \in {"updating", "previous"}
      BY <1>0, <2>2, <3>1 DEF RunFields, KeepPrevious
    <3> QED BY <3>2 DEF Ended
  <2>3. CASE Update(r)
    <3> DEFINE k == run[r].updated + 1
    <3>1. run' = [run EXCEPT ![r] = [run[r] EXCEPT !.updated = k,
              !.step = IF k = Len(Artifacts) THEN "verifying"
                       ELSE [run[r] EXCEPT !.updated = k].step]]
      BY <2>3, Zenon DEF Update, Becomes
    <3> HIDE DEF k
    <3>2. run'[r].step \in {"verifying", "updating"}
      BY <1>0, <2>3, <3>1 DEF RunFields, Update
    <3> QED BY <3>2 DEF Ended
  <2> QED BY <1>9, <2>1, <2>2, <2>3
<1>10. CASE Raise(r) \/ CallFails(r) \/ Crash(r)
  <2>1. PICK st \in {"restored", "abandoned", "restoring", "crashed"} :
          run' = [run EXCEPT ![r].step = st]
    BY <1>10, Zenon DEF Raise, CallFails, Crash
  <2>2. run'[r].step = st /\ st # "restoring" /\ st # "published"
    BY <1>0, <2>1 DEF RunFields, Ended
  <2>3. m = 0 /\ UNCHANGED processed
    <3>1. CASE Raise(r)
      BY <1>7, <3>1 DEF Raise
    <3>2. run[r].step = "previous" => m = 0
      BY <1>2, <1>7 DEF Holds
    <3>3. CASE CallFails(r)
      <4>1. run[r].step = "previous" /\ UNCHANGED processed
        BY <1>0, <2>2, <3>3 DEF CallFails, RunFields
      <4> QED BY <3>2, <4>1
    <3>4. CASE Crash(r)
      <4>1. run[r].step = "previous" /\ UNCHANGED processed
        BY <1>0, <3>4 DEF Crash, PublicationSteps
      <4> QED BY <3>2, <4>1
    <3> QED BY <1>10, <3>1, <3>3, <3>4
  <2>4. \A i \in 1 .. Len(p) : processed[Artifacts[i]] = p[i]
    BY <1>2, <1>3, <1>7, <2>3 DEF FolderOf
  <2> QED BY <1>3, <1>4, <2>2, <2>3, <2>4
<1> QED BY <1>6, <1>8, <1>9, <1>10

\* A behaviour of the other desk is none of the ingestion.
LEMMA SourcesStep ==
    ASSUME SourcesNext
    PROVE  Next \/ UNCHANGED <<processed, run, overlapped, uncovered, folder>>
BY DEF SourcesNext

\* A run whose publication met no other one, and that no crash or lost answer
\* stopped half way, leaves all its artifacts or all those it found.
THEOREM WholePublications == SourcesSpec => PublishesAllOrNothing
<1>1. SourcesInit => PublicationInv
  BY PublicationInit DEF SourcesInit
<1>2. PublicationInv /\ [SourcesNext]_<<vars, desk, discoveryVars>> => PublicationInv'
  <2> SUFFICES ASSUME PublicationInv, [SourcesNext]_<<vars, desk, discoveryVars>>
               PROVE  PublicationInv'
    OBVIOUS
  <2>1. CASE Next
    BY <2>1, PublicationStep
  <2>2. CASE UNCHANGED <<processed, run, overlapped, uncovered>>
    BY <2>2, PublicationKept
  <2> QED BY <2>1, <2>2, SourcesStep DEF vars
<1>3. PublicationInv /\ [SourcesNext]_<<vars, desk, discoveryVars>> =>
        [\A r \in Runs :
            Publishing(r) /\ run'[r].step \in Ended /\ r \notin overlapped' \cup uncovered' =>
                IF run'[r].step = "published"
                THEN \A a \in Names : processed'[a] = Part(run[r].result, a)
                ELSE \A n \in DOMAIN run[r].previous :
                        processed'[Artifacts[n]] = run[r].previous[n]]_vars
  <2> SUFFICES ASSUME PublicationInv, [SourcesNext]_<<vars, desk, discoveryVars>>,
                      ~UNCHANGED vars, NEW r \in Runs, Publishing(r),
                      run'[r].step \in Ended, r \notin overlapped' \cup uncovered'
               PROVE  IF run'[r].step = "published"
                      THEN \A a \in Names : processed'[a] = Part(run[r].result, a)
                      ELSE \A n \in DOMAIN run[r].previous :
                              processed'[Artifacts[n]] = run[r].previous[n]
    BY Zenon
  <2>1. Next
    <3>1. run'[r].step # run[r].step
      BY DEF Publishing, Ended
    <3>2. run' # run
      BY <3>1
    <3> QED BY <3>2, SourcesStep DEF vars
  <2> QED BY <2>1, EndsWhole
<1> QED BY <1>1, <1>2, <1>3, PTL DEF SourcesSpec, PublishesAllOrNothing

----------------------------------------------------------------------------
(* The rows of what was read *)

\* The least of some numbers is one of them.
LEMMA MinIsThere ==
    ASSUME NEW S \in SUBSET Nat, S # {}
    PROVE  Min(S) \in S
<1> DEFINE R == OpToRel(<, Nat)
<1>1. IsWellFoundedOn(R, Nat)
  BY NatLessThanWellFounded
<1>2. \A m, n \in Nat : <<m, n>> \in R <=> m < n
  BY DEF OpToRel
<1> HIDE DEF R
<1>3. PICK m \in S : \A n \in S : ~(<<n, m>> \in R)
  BY <1>1, WFMin
<1>4. \A n \in S : n \in Nat
  OBVIOUS
<1>5. ASSUME NEW n \in S PROVE m <= n
  <2>1. m \in Nat /\ n \in Nat
    BY <1>4
  <2>2. ~(n < m)
    BY <1>2, <1>3, <2>1
  <2> QED BY <2>1, <2>2
<1> QED BY <1>5 DEF Min

\* The record of one row.
RowRecord(f, content, n) ==
    [id |-> Cell(content, n, "order_id"),
     material |-> [rid |-> Cell(content, n, "restaurant_id"),
                   date |-> Parsed(Cell(content, n, "order_date")),
                   amount |-> Parsed(Cell(content, n, "amount"))],
     at |-> <<f, n>>]

LEMMA RecordsOfRows ==
    \A f, content : Records(f, content)
                      = {RowRecord(f, content, n) : n \in IdentifiedRows(content)}
BY DEF Records, RowRecord

LEMMA RowRecordFields ==
    \A f, content, n :
       /\ RowRecord(f, content, n).id = Cell(content, n, "order_id")
       /\ RowRecord(f, content, n).at = <<f, n>>
       /\ RowRecord(f, content, n).material.rid = Cell(content, n, "restaurant_id")
       /\ RowRecord(f, content, n).material.date = Parsed(Cell(content, n, "order_date"))
       /\ RowRecord(f, content, n).material.amount = Parsed(Cell(content, n, "amount"))
BY DEF RowRecord

\* The records are those of the files that were read, and an issue says a row has
\* no order id just where one of these files has such a row.
Accounts(files, frames, records, issues) ==
    /\ files \subseteq Files
    /\ \A f \in files : DOMAIN frames[f].rows \subseteq Nat
    /\ \A x : x \in records <=>
          \E f \in files : \E n \in IdentifiedRows(frames[f]) : x = RowRecord(f, frames[f], n)
    /\ \A p : <<"MISSING_ORDER_ID", p>> \in issues <=>
          \E f \in files : \E n \in FilledRows(frames[f]) \ IdentifiedRows(frames[f]) :
             p = <<f, n>>

\* What Build makes of them.
Resolved(result, records, issues) ==
    /\ result.canonical = CanonicalOrders(records)
    /\ result.conflicts = Conflicts(records)
    /\ result.duplicates = DuplicateOccurrences(records)
    /\ result.issues = issues \cup DuplicateIssues(records)

\* A place in a file holds one record at most.
LEMMA RecordAt ==
    ASSUME NEW files, NEW frames, NEW records, NEW issues,
           Accounts(files, frames, records, issues), NEW x \in records
    PROVE  /\ \E f \in files : \E n \in IdentifiedRows(frames[f]) :
                x = RowRecord(f, frames[f], n) /\ x.at = <<f, n>>
           /\ \A y \in records : x.at = y.at => x = y
<1>0. PICK f \in files : \E n \in IdentifiedRows(frames[f]) : x = RowRecord(f, frames[f], n)
  BY DEF Accounts
<1>1. PICK n \in IdentifiedRows(frames[f]) : x = RowRecord(f, frames[f], n)
  BY <1>0
<1>2. x.at = <<f, n>>
  BY <1>1, RowRecordFields
<1>3. ASSUME NEW y \in records, x.at = y.at PROVE x = y
  <2>0. PICK g \in files : \E m \in IdentifiedRows(frames[g]) : y = RowRecord(g, frames[g], m)
    BY DEF Accounts
  <2>1. PICK m \in IdentifiedRows(frames[g]) : y = RowRecord(g, frames[g], m)
    BY <2>0
  <2>2. y.at = <<g, m>>
    BY <2>1, RowRecordFields
  <2>3. f = g /\ n = m
    BY <1>2, <1>3, <2>2
  <2> QED BY <1>1, <2>1, <2>3
<1> QED BY <1>1, <1>2, <1>3

\* A position is a pair of numbers, and of two of them one is earlier.
LEMMA PositionsOrdered ==
    ASSUME NEW files, NEW frames, NEW records, NEW issues,
           Accounts(files, frames, records, issues), NEW x \in records, NEW y \in records
    PROVE  ~Earlier(y.at, x.at) <=> (y.at = x.at \/ Earlier(x.at, y.at))
<1>1. \A z \in records : \E i, j \in Nat : z.at = <<i, j>>
  <2> TAKE z \in records
  <2>0. PICK f \in files : \E n \in IdentifiedRows(frames[f]) : z.at = <<f, n>>
    BY RecordAt
  <2>1. PICK n \in IdentifiedRows(frames[f]) : z.at = <<f, n>>
    BY <2>0
  <2>2. f \in Nat /\ n \in Nat
    BY IngestionAssumption DEF Accounts, IdentifiedRows, FilledRows
  <2> QED BY <2>1, <2>2
<1>2. PICK i, j \in Nat : x.at = <<i, j>>
  BY <1>1
<1>3. PICK k, l \in Nat : y.at = <<k, l>>
  BY <1>1
<1> QED BY <1>2, <1>3 DEF Earlier

LEMMA CanonicalOrder ==
    ASSUME NEW records, NEW c
    PROVE  c \in CanonicalOrders(records) <=>
             \E o \in Ids(records) :
                /\ Identical(records, o)
                /\ c = [id |-> o,
                        material |-> (CHOOSE r \in Occurrences(records, o) : TRUE).material,
                        lineage |-> Positions(Occurrences(records, o))]
BY DEF CanonicalOrders

LEMMA Conflict ==
    ASSUME NEW records, NEW c
    PROVE  c \in Conflicts(records) <=>
             \E o \in Ids(records) :
                /\ ~Identical(records, o)
                /\ c = [id |-> o, occurrences |-> Positions(Occurrences(records, o))]
BY DEF Conflicts

\* A row with an order id is in the occurrences of that order, and of no other.
LEMMA OrderOfRow ==
    ASSUME NEW files, NEW frames, NEW records, NEW issues,
           Accounts(files, frames, records, issues), NEW x \in records, NEW o
    PROVE  x.at \in Positions(Occurrences(records, o)) <=> o = x.id
<1>1. ASSUME x.at \in Positions(Occurrences(records, o)) PROVE o = x.id
  <2>1. PICK y \in records : y.id = o /\ y.at = x.at
    BY <1>1 DEF Positions, Occurrences
  <2> QED BY <2>1, RecordAt
<1>2. x \in Occurrences(records, x.id)
  BY DEF Occurrences
<1> QED BY <1>1, <1>2 DEF Positions

\* A filled row is in one place: its order, its conflict, or the issue about it.
LEMMA OnePlace ==
    ASSUME NEW files, NEW frames, NEW records, NEW issues, NEW result,
           Accounts(files, frames, records, issues), Resolved(result, records, issues),
           NEW f \in files, NEW n \in FilledRows(frames[f])
    PROVE  Cardinality(Places(result, <<f, n>>)) = 1
<1> DEFINE p == <<f, n>>
           orders == {<<"order", c.id>> : c \in {d \in result.canonical : p \in d.lineage}}
           conflicts == {<<"conflict", c.id>> : c \in {d \in result.conflicts : p \in d.occurrences}}
           missing == {<<"issue", i>> :
                         i \in {j \in result.issues : j = <<"MISSING_ORDER_ID", p>>}}
<1>1. Places(result, p) = orders \cup conflicts \cup missing
  BY DEF Places
<1>2. <<"MISSING_ORDER_ID", p>> \in result.issues
        <=> n \notin IdentifiedRows(frames[f])
  <2>1. <<"MISSING_ORDER_ID", p>> \notin DuplicateIssues(records)
    BY DEF DuplicateIssues
  <2>2. <<"MISSING_ORDER_ID", p>> \in issues <=> n \notin IdentifiedRows(frames[f])
    BY DEF Accounts
  <2> QED BY <2>1, <2>2 DEF Resolved
<1>3. ASSUME NEW c \in result.canonical
      PROVE  c.id \in Ids(records) /\ Identical(records, c.id)
             /\ c.lineage = Positions(Occurrences(records, c.id))
  BY CanonicalOrder DEF Resolved
<1>4. ASSUME NEW c \in result.conflicts
      PROVE  c.id \in Ids(records) /\ ~Identical(records, c.id)
             /\ c.occurrences = Positions(Occurrences(records, c.id))
  BY Conflict DEF Resolved
<1>5. ASSUME NEW o \in Ids(records), Identical(records, o)
      PROVE  \E c \in result.canonical :
                c.id = o /\ c.lineage = Positions(Occurrences(records, o))
  <2> DEFINE c == [id |-> o,
                   material |-> (CHOOSE r \in Occurrences(records, o) : TRUE).material,
                   lineage |-> Positions(Occurrences(records, o))]
  <2>1. c \in result.canonical
    BY <1>5 DEF Resolved, CanonicalOrders
  <2>2. c.id = o /\ c.lineage = Positions(Occurrences(records, o))
    OBVIOUS
  <2> HIDE DEF c
  <2> QED BY <2>1, <2>2
<1>6. ASSUME NEW o \in Ids(records), ~Identical(records, o)
      PROVE  \E c \in result.conflicts :
                c.id = o /\ c.occurrences = Positions(Occurrences(records, o))
  <2> DEFINE c == [id |-> o, occurrences |-> Positions(Occurrences(records, o))]
  <2>1. c \in result.conflicts
    BY <1>6 DEF Resolved, Conflicts
  <2>2. c.id = o /\ c.occurrences = Positions(Occurrences(records, o))
    OBVIOUS
  <2> HIDE DEF c
  <2> QED BY <2>1, <2>2
<1> HIDE DEF p
<1>7. \E x : orders \cup conflicts \cup missing = {x}
  <2>1. CASE n \notin IdentifiedRows(frames[f])
    <3>1. \A x \in records : x.at # p
      <4> SUFFICES ASSUME NEW x \in records, x.at = p PROVE FALSE
        OBVIOUS
      <4>1. PICK g \in files : \E m \in IdentifiedRows(frames[g]) :
               x = RowRecord(g, frames[g], m)
        BY DEF Accounts
      <4>2. PICK m \in IdentifiedRows(frames[g]) : x = RowRecord(g, frames[g], m)
        BY <4>1
      <4>3. x.at = <<g, m>>
        BY <4>2, RowRecordFields
      <4> QED BY <2>1, <4>2, <4>3 DEF p
    <3>2. \A o : p \notin Positions(Occurrences(records, o))
      BY <3>1 DEF Positions, Occurrences
    <3>3. orders = {} /\ conflicts = {}
      BY <1>3, <1>4, <3>2
    <3>4. missing = {<<"issue", <<"MISSING_ORDER_ID", p>>>>}
      BY <1>2, <2>1
    <3> QED BY <3>3, <3>4
  <2>2. CASE n \in IdentifiedRows(frames[f])
    <3>1. PICK x \in records : x = RowRecord(f, frames[f], n)
      BY <2>2 DEF Accounts
    <3>2. x.at = p
      BY <3>1, RowRecordFields DEF p
    <3>3. \A o : p \in Positions(Occurrences(records, o)) <=> o = x.id
      BY <3>2, OrderOfRow
    <3>4. x.id \in Ids(records)
      BY DEF Ids
    <3>5. missing = {}
      BY <1>2, <2>2
    <3>6. CASE Identical(records, x.id)
      <4>1. conflicts = {}
        BY <1>4, <3>3, <3>6
      <4>2. \A y \in orders : y = <<"order", x.id>>
        BY <1>3, <3>3
      <4>3. <<"order", x.id>> \in orders
        BY <1>5, <3>3, <3>4, <3>6
      <4>4. orders = {<<"order", x.id>>}
        BY <4>2, <4>3, Zenon
      <4> HIDE DEF orders, conflicts, missing
      <4> QED BY <3>5, <4>1, <4>4
    <3>7. CASE ~Identical(records, x.id)
      <4>1. orders = {}
        BY <1>3, <3>3, <3>7
      <4>2. \A y \in conflicts : y = <<"conflict", x.id>>
        BY <1>4, <3>3
      <4>3. <<"conflict", x.id>> \in conflicts
        BY <1>6, <3>3, <3>4, <3>7
      <4>4. conflicts = {<<"conflict", x.id>>}
        BY <4>2, <4>3, Zenon
      <4> HIDE DEF orders, conflicts, missing
      <4> QED BY <3>5, <4>1, <4>4
    <3> QED BY <3>6, <3>7
  <2> QED BY <2>1, <2>2
<1> QED BY <1>1, <1>7, FS_Singleton DEF p

\* An order says what each of its rows says.
LEMMA OrderAgrees ==
    ASSUME NEW files, NEW frames, NEW records, NEW issues, NEW result,
           Accounts(files, frames, records, issues), Resolved(result, records, issues),
           NEW c \in result.canonical, NEW p \in c.lineage
    PROVE  AgreesWithRow(c, frames[p[1]], p[2])
<1>1. PICK o \in Ids(records) :
        /\ Identical(records, o) /\ c.id = o
        /\ c.material = (CHOOSE r \in Occurrences(records, o) : TRUE).material
        /\ c.lineage = Positions(Occurrences(records, o))
  BY CanonicalOrder DEF Resolved
<1>2. PICK x \in records : x.id = o /\ x.at = p
  BY <1>1 DEF Positions, Occurrences
<1>3. x \in Occurrences(records, o)
  BY <1>2 DEF Occurrences
<1>4. PICK r \in Occurrences(records, o) : c.material = r.material
  BY <1>1, <1>3
<1>5. c.material = x.material
  BY <1>1, <1>3, <1>4 DEF Identical
<1>6. PICK f \in files : \E n \in IdentifiedRows(frames[f]) :
         x = RowRecord(f, frames[f], n) /\ x.at = <<f, n>>
  BY RecordAt
<1>7. PICK n \in IdentifiedRows(frames[f]) :
         x = RowRecord(f, frames[f], n) /\ x.at = <<f, n>>
  BY <1>6
<1>8. p[1] = f /\ p[2] = n
  BY <1>2, <1>7
<1> QED BY <1>1, <1>2, <1>5, <1>7, <1>8, RowRecordFields DEF AgreesWithRow

\* The occurrence that is retained is the first row of a canonical order.
LEMMA RetainedIsFirst ==
    ASSUME NEW files, NEW frames, NEW records, NEW issues, NEW result,
           Accounts(files, frames, records, issues), Resolved(result, records, issues),
           NEW d \in result.duplicates
    PROVE  d.retained <=> \E c \in result.canonical :
                /\ c.id = d.id
                /\ \A p \in c.lineage : p = d.at \/ Earlier(d.at, p)
<1>1. PICK x \in records :
        /\ d.id = x.id /\ d.at = x.at
        /\ d.retained = (Identical(records, x.id)
             /\ \A q \in Occurrences(records, x.id) : ~Earlier(q.at, x.at))
  BY DEF Resolved, DuplicateOccurrences
<1>2. \A q \in Occurrences(records, x.id) : q \in records
  BY DEF Occurrences
<1>3. (\A q \in Occurrences(records, x.id) : ~Earlier(q.at, x.at))
        <=> \A p \in Positions(Occurrences(records, x.id)) : p = x.at \/ Earlier(x.at, p)
  <2>1. \A q \in Occurrences(records, x.id) :
           ~Earlier(q.at, x.at) <=> (q.at = x.at \/ Earlier(x.at, q.at))
    BY <1>2, PositionsOrdered
  <2> QED BY <2>1 DEF Positions
<1>4. x.id \in Ids(records)
  BY DEF Ids
<1>5. Identical(records, x.id) <=> \E c \in result.canonical :
         c.id = x.id /\ c.lineage = Positions(Occurrences(records, x.id))
  <2>1. ASSUME Identical(records, x.id)
        PROVE  \E c \in result.canonical :
                  c.id = x.id /\ c.lineage = Positions(Occurrences(records, x.id))
    <3> DEFINE c == [id |-> x.id,
                     material |-> (CHOOSE r \in Occurrences(records, x.id) : TRUE).material,
                     lineage |-> Positions(Occurrences(records, x.id))]
    <3>1. c \in result.canonical
      BY <1>4, <2>1 DEF Resolved, CanonicalOrders
    <3>2. c.id = x.id /\ c.lineage = Positions(Occurrences(records, x.id))
      OBVIOUS
    <3> HIDE DEF c
    <3> QED BY <3>1, <3>2
  <2>2. ASSUME NEW c \in result.canonical, c.id = x.id PROVE Identical(records, x.id)
    BY <2>2, CanonicalOrder DEF Resolved
  <2> QED BY <2>1, <2>2
<1>6. \A c \in result.canonical : c.lineage = Positions(Occurrences(records, c.id))
  BY CanonicalOrder DEF Resolved
<1> QED BY <1>1, <1>3, <1>5, <1>6

\* A file that is read adds its rows and what is said of them.
LEMMA AccountsMore ==
    ASSUME NEW files, NEW frames, NEW records, NEW issues,
           Accounts(files, frames, records, issues),
           NEW f \in Files, f \notin files, NEW content, DOMAIN content.rows \subseteq Nat,
           NEW more, \A g \in files : more[g] = frames[g], more[f] = content
    PROVE  Accounts(files \cup {f}, more, records \cup Records(f, content),
                    issues \cup SchemaIssues(content) \cup RowIssues(f, content))
<1> DEFINE all == files \cup {f}
           newIssues == issues \cup SchemaIssues(content) \cup RowIssues(f, content)
<1>1. \A x : x \in records \cup Records(f, content) <=>
        \E g \in all : \E n \in IdentifiedRows(more[g]) : x = RowRecord(g, more[g], n)
  <2>1. \A x : x \in records <=>
          \E g \in files : \E n \in IdentifiedRows(more[g]) : x = RowRecord(g, more[g], n)
    <3>1. \A x : x \in records <=>
            \E g \in files : \E n \in IdentifiedRows(frames[g]) : x = RowRecord(g, frames[g], n)
      BY DEF Accounts
    <3> QED BY <3>1
  <2>2. \A x : x \in Records(f, content) <=>
          \E n \in IdentifiedRows(more[f]) : x = RowRecord(f, more[f], n)
    BY RecordsOfRows
  <2> QED BY <2>1, <2>2
<1>2. \A p : <<"MISSING_ORDER_ID", p>> \in newIssues <=>
        \E g \in all : \E n \in FilledRows(more[g]) \ IdentifiedRows(more[g]) : p = <<g, n>>
  <2>1. \A p : <<"MISSING_ORDER_ID", p>> \in issues <=>
          \E g \in files : \E n \in FilledRows(more[g]) \ IdentifiedRows(more[g]) : p = <<g, n>>
    <3>1. \A p : <<"MISSING_ORDER_ID", p>> \in issues <=>
            \E g \in files : \E n \in FilledRows(frames[g]) \ IdentifiedRows(frames[g]) :
               p = <<g, n>>
      BY DEF Accounts
    <3> QED BY <3>1
  <2>2. \A p : <<"MISSING_ORDER_ID", p>> \in RowIssues(f, content) <=>
          \E n \in FilledRows(more[f]) \ IdentifiedRows(more[f]) : p = <<f, n>>
    BY DEF RowIssues
  <2>3. \A p : <<"MISSING_ORDER_ID", p>> \notin SchemaIssues(content)
    BY DEF SchemaIssues
  <2>4. ASSUME NEW p
        PROVE  <<"MISSING_ORDER_ID", p>> \in newIssues <=>
                 \/ \E g \in files : \E n \in FilledRows(more[g]) \ IdentifiedRows(more[g]) :
                      p = <<g, n>>
                 \/ \E n \in FilledRows(more[f]) \ IdentifiedRows(more[f]) : p = <<f, n>>
    BY <2>1, <2>2, <2>3
  <2> HIDE DEF newIssues
  <2> QED BY <2>4, Zenon
<1>3. \A g \in all : DOMAIN more[g].rows \subseteq Nat
  BY DEF Accounts
<1>4. all \subseteq Files
  BY DEF Accounts
<1> QED BY <1>1, <1>2, <1>3, <1>4 DEF Accounts

\* A file that is not read, or not normalised, adds no row.
LEMMA AccountsStay ==
    ASSUME NEW files, NEW frames, NEW records, NEW issues,
           Accounts(files, frames, records, issues),
           NEW more, \A g \in files : more[g] = frames[g],
           NEW others, \A p : <<"MISSING_ORDER_ID", p>> \notin others
    PROVE  Accounts(files, more, records, issues \cup others)
<1>1. \A x : x \in records <=>
        \E g \in files : \E n \in IdentifiedRows(more[g]) : x = RowRecord(g, more[g], n)
  <2>1. \A x : x \in records <=>
          \E g \in files : \E n \in IdentifiedRows(frames[g]) : x = RowRecord(g, frames[g], n)
    BY DEF Accounts
  <2> QED BY <2>1
<1>2. \A p : <<"MISSING_ORDER_ID", p>> \in issues \cup others <=>
        \E g \in files : \E n \in FilledRows(more[g]) \ IdentifiedRows(more[g]) : p = <<g, n>>
  <2>1. \A p : <<"MISSING_ORDER_ID", p>> \in issues <=>
          \E g \in files : \E n \in FilledRows(frames[g]) \ IdentifiedRows(frames[g]) :
             p = <<g, n>>
    BY DEF Accounts
  <2> QED BY <2>1
<1> QED BY <1>1, <1>2 DEF Accounts

\* What a run has read, and what it has resolved.
ReadSoFar(s) ==
    /\ s.toRead \subseteq s.listed /\ s.listed \subseteq Files
    /\ s.listed = DOMAIN s.frames \cup s.toRead \cup s.failed
    /\ s.toRead \cap (DOMAIN s.frames \cup s.failed) = {}
    /\ Accounts(DOMAIN s.frames \ s.failed, s.frames, s.records, s.issues)

RowsHeld(s) ==
    /\ s.step = "new" => s.frames = <<>> /\ s.records = {} /\ s.issues = {} /\ s.failed = {}
    /\ s.step = "reading" => ReadSoFar(s)
    /\ s.step = "resolving" =>
          /\ DOMAIN s.frames = s.listed
          /\ Accounts(s.listed, s.frames, s.records, s.issues)
          /\ Resolved(s.result, s.records, s.issues)

RowsInv == folder \in Folders /\ \A r \in Runs : RowsHeld(run[r])

LEMMA RowsMove ==
    ASSUME RowsInv, RunShape, NEW r \in Runs, NEW s, run' = [run EXCEPT ![r] = s],
           RowsHeld(s), folder' = folder
    PROVE  RowsInv'
<1>1. \A q \in Runs : run'[q] = IF q = r THEN s ELSE run[q]
  BY DEF RunShape
<1>2. \A q \in Runs : RowsHeld(run'[q])
  BY <1>1 DEF RowsInv
<1> QED BY <1>2 DEF RowsInv

LEMMA ListRows == ASSUME RowsInv, RunShape, NEW r \in Runs, List(r) PROVE RowsInv'
<1> DEFINE listed == {f \in Files : folder[f] # None}
           s == [run[r] EXCEPT !.step = "reading", !.listed = listed, !.toRead = listed]
<1>1. run' = [run EXCEPT ![r] = s] /\ folder' = folder
  BY Zenon DEF List, Becomes
<1>2. /\ DOMAIN run[r] = RunFields /\ run[r].step = "new" /\ run[r].frames = <<>>
      /\ run[r].records = {} /\ run[r].issues = {} /\ run[r].failed = {}
  BY DEF RowsInv, RunShape, RowsHeld, List
<1>3. listed \subseteq Files
  OBVIOUS
<1> HIDE DEF listed
<1>4. /\ s.step = "reading" /\ s.listed = listed /\ s.toRead = listed /\ s.frames = <<>>
      /\ s.records = {} /\ s.issues = {} /\ s.failed = {}
  BY <1>2 DEF RunFields
<1> HIDE DEF s
<1>5. DOMAIN s.frames = {}
  BY <1>4, EmptySeq
<1>6. Accounts({}, s.frames, s.records, s.issues)
  BY <1>4 DEF Accounts
<1>7. RowsHeld(s)
  <2>1. ReadSoFar(s)
    BY <1>3, <1>4, <1>5, <1>6 DEF ReadSoFar
  <2> QED BY <1>4, <2>1 DEF RowsHeld
<1> QED BY <1>1, <1>7, RowsMove

LEMMA ReadSourceRows == ASSUME RowsInv, RunShape, NEW r \in Runs, ReadSource(r) PROVE RowsInv'
<1> DEFINE o == run[r]
           f == NextFile(r)
           content == folder[f]
           whole == Normalizes(content)
           toRead == o.toRead \ {f}
           frames == [k \in DOMAIN o.frames \cup {f} |-> IF k = f THEN content ELSE o.frames[k]]
           profiles == o.profiles \cup {[file |-> f, mapping |-> Mapping(content)]}
           records == o.records \cup (IF whole THEN Records(f, content) ELSE {})
           issues == o.issues \cup SchemaIssues(content)
                       \cup (IF whole THEN RowIssues(f, content)
                             ELSE {<<"SOURCE_READ_FAILURE", f>>})
           failed == o.failed \cup (IF whole THEN {} ELSE {f})
           s == [o EXCEPT !.toRead = toRead, !.attempt = 0, !.frames = frames,
                          !.profiles = profiles, !.records = records, !.issues = issues,
                          !.failed = failed]
<1>1. run' = [run EXCEPT ![r] = s] /\ folder' = folder
  BY Zenon DEF ReadSource, Becomes
<1>2. /\ DOMAIN run[r] = RunFields /\ run[r].step = "reading" /\ run[r].toRead # {}
      /\ ReadSoFar(run[r]) /\ content # None /\ content # Unreadable
  BY Zenon DEF RowsInv, RunShape, RowsHeld, ReadSource
<1>3. /\ DOMAIN frames = DOMAIN o.frames \cup {f} /\ frames[f] = content
      /\ \A g \in DOMAIN o.frames : g # f => frames[g] = o.frames[g]
  OBVIOUS
<1>4. f \in o.toRead /\ f \in Files
  <2>1. o.toRead \in SUBSET Nat
    BY <1>2, IngestionAssumption DEF ReadSoFar
  <2> QED BY <1>2, <2>1, MinIsThere DEF NextFile, ReadSoFar
<1>5. DOMAIN content.rows \subseteq Nat
  BY <1>2, <1>4, IngestionAssumption DEF RowsInv
<1> HIDE DEF f, content, frames
<1>6. Accounts(DOMAIN frames \ failed, frames, records, issues)
  <2> DEFINE files == DOMAIN o.frames \ o.failed
  <2>1. Accounts(files, o.frames, o.records, o.issues) /\ f \notin files
        /\ f \notin o.failed /\ f \notin DOMAIN o.frames
    BY <1>2, <1>4 DEF ReadSoFar
  <2>2. \A g \in files : frames[g] = o.frames[g]
    BY <1>3, <2>1
  <2>3. CASE whole
    <3>1. DOMAIN frames \ failed = files \cup {f}
      BY <1>3, <2>1, <2>3
    <3>2. records = o.records \cup Records(f, content)
          /\ issues = o.issues \cup SchemaIssues(content) \cup RowIssues(f, content)
      BY <2>3
    <3> HIDE DEF files, records, issues, o, failed, whole
    <3> QED BY <1>3, <1>4, <1>5, <2>1, <2>2, <3>1, <3>2, AccountsMore
  <2>4. CASE ~whole
    <3> DEFINE others == SchemaIssues(content) \cup {<<"SOURCE_READ_FAILURE", f>>}
    <3>1. DOMAIN frames \ failed = files
      BY <1>3, <2>1, <2>4
    <3>2. records = o.records /\ issues = o.issues \cup others
      BY <2>4
    <3>3. \A p : <<"MISSING_ORDER_ID", p>> \notin others
      BY DEF SchemaIssues
    <3> HIDE DEF files, records, issues, o, failed, whole, others
    <3> QED BY <2>1, <2>2, <3>1, <3>2, <3>3, AccountsStay
  <2> QED BY <2>3, <2>4
<1>7. toRead \subseteq o.listed /\ o.listed \subseteq Files
      /\ o.listed = DOMAIN frames \cup toRead \cup failed
      /\ toRead \cap (DOMAIN frames \cup failed) = {}
  BY <1>2, <1>3, <1>4 DEF ReadSoFar
<1> HIDE DEF toRead, profiles, records, issues, failed
<1>8. /\ s.step = "reading" /\ s.listed = o.listed /\ s.toRead = toRead /\ s.frames = frames
      /\ s.records = records /\ s.issues = issues /\ s.failed = failed
  BY <1>2 DEF RunFields
<1>9. RowsHeld(s)
  <2> HIDE DEF s, o
  <2>1. ReadSoFar(s)
    BY <1>6, <1>7, <1>8 DEF ReadSoFar
  <2> QED BY <1>8, <2>1 DEF RowsHeld
<1> HIDE DEF s
<1> QED BY <1>1, <1>9, RowsMove

LEMMA AttemptFailsRows ==
    ASSUME RowsInv, RunShape, NEW r \in Runs, AttemptFails(r) PROVE RowsInv'
<1> DEFINE o == run[r]
           f == NextFile(r)
           a == run[r].attempt + 1
           toRead == run[r].toRead \ {f}
           failed == run[r].failed \cup {f}
           others == {<<"SOURCE_READ_FAILURE", f>>}
           issues == run[r].issues \cup others
           t == [run[r] EXCEPT !.attempt = a]
           s == [run[r] EXCEPT !.attempt = 0, !.toRead = toRead, !.failed = failed,
                               !.issues = issues]
<1>0. UNCHANGED folder
  BY DEF AttemptFails
<1>1. run' = [run EXCEPT ![r] = t] \/ run' = [run EXCEPT ![r] = s]
  BY Zenon DEF AttemptFails, Becomes
<1>2. /\ DOMAIN o = RunFields /\ o.step = "reading" /\ o.toRead # {} /\ ReadSoFar(o)
  BY Zenon DEF RowsInv, RunShape, RowsHeld, AttemptFails
<1>3. CASE run' = [run EXCEPT ![r] = t]
  <2> HIDE DEF a
  <2>1. /\ t.step = o.step /\ t.listed = o.listed /\ t.toRead = o.toRead
        /\ t.frames = o.frames /\ t.records = o.records /\ t.issues = o.issues
        /\ t.failed = o.failed
    BY <1>2 DEF RunFields
  <2> HIDE DEF t, o
  <2>2. RowsHeld(t)
    BY <1>2, <2>1 DEF RowsHeld, ReadSoFar
  <2> QED BY <1>0, <1>3, <2>2, RowsMove
<1>4. CASE run' = [run EXCEPT ![r] = s]
  <2>1. f \in o.toRead /\ f \in Files
    <3>1. o.toRead \in SUBSET Nat
      BY <1>2, IngestionAssumption DEF ReadSoFar
    <3> QED BY <1>2, <3>1, MinIsThere DEF NextFile, ReadSoFar
  <2>2. Accounts(DOMAIN o.frames \ o.failed, o.frames, o.records, o.issues \cup others)
    <3>1. \A p : <<"MISSING_ORDER_ID", p>> \notin others
      OBVIOUS
    <3> HIDE DEF others, o
    <3> QED BY <1>2, <3>1, AccountsStay DEF ReadSoFar
  <2> HIDE DEF f, others
  <2>3. /\ toRead \subseteq o.listed /\ o.listed \subseteq Files
        /\ o.listed = DOMAIN o.frames \cup toRead \cup failed
        /\ toRead \cap (DOMAIN o.frames \cup failed) = {}
        /\ DOMAIN o.frames \ failed = DOMAIN o.frames \ o.failed
    BY <1>2, <2>1 DEF ReadSoFar
  <2>4. /\ s.step = "reading" /\ s.listed = o.listed /\ s.toRead = toRead
        /\ s.frames = o.frames /\ s.records = o.records /\ s.issues = o.issues \cup others
        /\ s.failed = failed
    <3> HIDE DEF toRead, failed
    <3> QED BY <1>2 DEF RunFields
  <2> HIDE DEF s, o, toRead, failed
  <2>5. ReadSoFar(s)
    BY <2>2, <2>3, <2>4 DEF ReadSoFar
  <2>6. RowsHeld(s)
    BY <2>4, <2>5 DEF RowsHeld
  <2> QED BY <1>0, <1>4, <2>6, RowsMove
<1> QED BY <1>1, <1>3, <1>4

LEMMA BuildRows == ASSUME RowsInv, RunShape, NEW r \in Runs, Build(r) PROVE RowsInv'
<1> DEFINE o == run[r]
           result == Result(r)
           step == IF run[r].failed = {} THEN "resolving" ELSE "not_published"
           s == [run[r] EXCEPT !.result = result, !.step = step]
<1>1. run' = [run EXCEPT ![r] = s] /\ folder' = folder
  BY Zenon DEF Build, Becomes
<1>2. DOMAIN o = RunFields /\ o.step = "reading" /\ o.toRead = {} /\ ReadSoFar(o)
  BY Zenon DEF RowsInv, RunShape, RowsHeld, Build
<1>3. Resolved(result, o.records, o.issues)
  BY DEF Result, Resolved
<1>4. o.failed = {} => o.listed = DOMAIN o.frames /\ DOMAIN o.frames \ o.failed = o.listed
  BY <1>2 DEF ReadSoFar
<1> HIDE DEF result
<1>5. /\ s.step = step /\ s.listed = o.listed /\ s.frames = o.frames
      /\ s.records = o.records /\ s.issues = o.issues /\ s.result = result
  BY <1>2 DEF RunFields
<1>6. step = "resolving" => o.failed = {}
  OBVIOUS
<1>7. step \in {"resolving", "not_published"}
  OBVIOUS
<1> HIDE DEF s, step, o
<1>8. RowsHeld(s)
  BY <1>2, <1>3, <1>4, <1>5, <1>6, <1>7 DEF RowsHeld, ReadSoFar
<1> QED BY <1>1, <1>8, RowsMove

\* Nothing else reads a source, and a run that leaves "resolving" does not return.
LEMMA OtherRows ==
    ASSUME RowsInv, RunShape, NEW r \in Runs,
           \/ Resolve(r) \/ KeepPrevious(r) \/ Update(r) \/ Verify(r) \/ Restore(r) \/ Raise(r)
           \/ CallFails(r) \/ Crash(r)
    PROVE  RowsInv'
<1>0. DOMAIN run[r] = RunFields /\ UNCHANGED folder
      /\ run[r].step \notin {"new"} 
  BY DEF RunShape, Resolve, KeepPrevious, Update, Verify, Restore, Raise, CallFails, Crash,
         Publishing
<1>1. PICK s : run' = [run EXCEPT ![r] = s] /\ s.step \notin {"new", "reading", "resolving"}
  <2>1. CASE Resolve(r) \/ Raise(r) \/ CallFails(r) \/ Crash(r)
    <3>1. PICK st \in {"previous", "refused", "restored", "abandoned", "restoring", "crashed"} :
            run' = [run EXCEPT ![r].step = st]
      BY <2>1, Zenon DEF Resolve, Raise, CallFails, Crash
    <3> DEFINE s == [run[r] EXCEPT !.step = st]
    <3>2. s.step \notin {"new", "reading", "resolving"}
      BY <1>0 DEF RunFields
    <3> QED BY <3>1, <3>2, Zenon
  <2>2. CASE KeepPrevious(r)
    <3> DEFINE k == Append(run[r].previous, processed[Artifacts[Len(run[r].previous) + 1]])
               st == IF Len(k) = Len(Artifacts) THEN "updating"
                     ELSE [run[r] EXCEPT !.previous = k].step
               s == [run[r] EXCEPT !.previous = k, !.step = st]
    <3>1. run' = [run EXCEPT ![r] = s]
      BY <2>2, Zenon DEF KeepPrevious, Becomes
    <3> HIDE DEF k
    <3>2. s.step \in {"updating", "previous"}
      BY <1>0, <2>2 DEF RunFields, KeepPrevious
    <3> QED BY <3>1, <3>2, Zenon
  <2>3. CASE Update(r)
    <3> DEFINE k == run[r].updated + 1
               st == IF k = Len(Artifacts) THEN "verifying"
                     ELSE [run[r] EXCEPT !.updated = k].step
               s == [run[r] EXCEPT !.updated = k, !.step = st]
    <3>1. run' = [run EXCEPT ![r] = s]
      BY <2>3, Zenon DEF Update, Becomes
    <3> HIDE DEF k
    <3>2. s.step \in {"verifying", "updating"}
      BY <1>0, <2>3 DEF RunFields, Update
    <3> QED BY <3>1, <3>2, Zenon
  <2>4. CASE Verify(r)
    <3> DEFINE n == run[r].verified + 1
               st == IF n = Len(Artifacts) THEN "published"
                     ELSE [run[r] EXCEPT !.verified = n].step
               s == [run[r] EXCEPT !.verified = n, !.step = st]
               t == [run[r] EXCEPT !.step = "restoring"]
    <3>1. run' = [run EXCEPT ![r] = s] \/ run' = [run EXCEPT ![r] = t]
      BY <2>4, Zenon DEF Verify, Becomes
    <3> HIDE DEF n
    <3>2. s.step \in {"published", "verifying"} /\ t.step = "restoring"
      BY <1>0, <2>4 DEF RunFields, Verify
    <3> QED BY <3>1, <3>2, Zenon
  <2>5. CASE Restore(r)
    <3>1. PICK n : run' = [run EXCEPT ![r].updated = n]
      BY <2>5, Zenon DEF Restore
    <3> DEFINE s == [run[r] EXCEPT !.updated = n]
    <3>2. s.step = "restoring"
      BY <1>0, <2>5 DEF RunFields, Restore
    <3> QED BY <3>1, <3>2, Zenon
  <2> QED BY <2>1, <2>2, <2>3, <2>4, <2>5
<1>2. RowsHeld(s)
  BY <1>1 DEF RowsHeld
<1> QED BY <1>0, <1>1, <1>2, RowsMove

LEMMA RowsInit == Init => RowsInv
<1> SUFFICES ASSUME Init PROVE RowsInv
  OBVIOUS
<1>1. /\ NewRun.step = "new" /\ NewRun.frames = <<>> /\ NewRun.records = {}
      /\ NewRun.issues = {} /\ NewRun.failed = {}
  BY DEF NewRun
<1>2. RowsHeld(NewRun)
  BY <1>1 DEF RowsHeld
<1> QED BY <1>2 DEF RowsInv, Init

LEMMA RowsStep == RowsInv /\ RunShape /\ [Next]_<<run, folder>> => RowsInv'
<1> SUFFICES ASSUME RowsInv, RunShape, [Next]_<<run, folder>> PROVE RowsInv'
  OBVIOUS
<1>1. CASE UNCHANGED <<run, folder>>
  BY <1>1 DEF RowsInv
<1>2. CASE FolderChanges
  BY <1>2 DEF RowsInv, FolderChanges
<1>3. ASSUME NEW r \in Runs, Step(r) \/ CallFails(r) \/ Crash(r) PROVE RowsInv'
  BY <1>3, ListRows, ReadSourceRows, AttemptFailsRows, BuildRows, OtherRows DEF Step
<1> QED BY <1>1, <1>2, <1>3 DEF Next

\* What a publication begins with accounts for every row of every file it listed.
LEMMA HeldIsAccounted == RowsInv => EveryRowAccountedFor
<1> SUFFICES ASSUME RowsInv, NEW r \in Runs, run[r].step = "resolving"
             PROVE  LET result == run[r].result
                    IN  /\ DOMAIN run[r].frames = run[r].listed
                        /\ \A f \in run[r].listed : \A n \in FilledRows(run[r].frames[f]) :
                                Cardinality(Places(result, <<f, n>>)) = 1
                        /\ \A c \in result.canonical : \A p \in c.lineage :
                                AgreesWithRow(c, run[r].frames[p[1]], p[2])
                        /\ \A d \in result.duplicates :
                                d.retained <=> \E c \in result.canonical :
                                    /\ c.id = d.id
                                    /\ \A p \in c.lineage : p = d.at \/ Earlier(d.at, p)
  BY Zenon DEF EveryRowAccountedFor
<1>1. /\ DOMAIN run[r].frames = run[r].listed
      /\ Accounts(run[r].listed, run[r].frames, run[r].records, run[r].issues)
      /\ Resolved(run[r].result, run[r].records, run[r].issues)
  BY DEF RowsInv, RowsHeld
<1>2. \A f \in run[r].listed : \A n \in FilledRows(run[r].frames[f]) :
        Cardinality(Places(run[r].result, <<f, n>>)) = 1
  <2> SUFFICES ASSUME NEW f \in run[r].listed, NEW n \in FilledRows(run[r].frames[f])
               PROVE  Cardinality(Places(run[r].result, <<f, n>>)) = 1
    OBVIOUS
  <2>1. PICK files, frames, records, issues, result :
           /\ files = run[r].listed /\ frames = run[r].frames /\ records = run[r].records
           /\ issues = run[r].issues /\ result = run[r].result
    OBVIOUS
  <2>2. /\ Accounts(files, frames, records, issues) /\ Resolved(result, records, issues)
        /\ f \in files /\ n \in FilledRows(frames[f])
    BY <1>1, <2>1
  <2>3. Cardinality(Places(result, <<f, n>>)) = 1
    BY <2>2, OnePlace
  <2> QED BY <2>1, <2>3
<1>3. \A c \in run[r].result.canonical : \A p \in c.lineage :
        AgreesWithRow(c, run[r].frames[p[1]], p[2])
  BY <1>1, OrderAgrees
<1>4. \A d \in run[r].result.duplicates :
        d.retained <=> \E c \in run[r].result.canonical :
            /\ c.id = d.id
            /\ \A p \in c.lineage : p = d.at \/ Earlier(d.at, p)
  BY <1>1, RetainedIsFirst
<1> QED BY <1>1, <1>2, <1>3, <1>4

\* A run that is ready to publish has read all it listed, and each row that is not
\* empty is in one order, one conflict or one issue, and in no two of them.
THEOREM RowsAccounted == SourcesSpec => []EveryRowAccountedFor
<1> DEFINE Inv == PublicationInv /\ RowsInv
<1>1. SourcesInit => Inv
  BY PublicationInit, RowsInit DEF SourcesInit
<1>2. Inv /\ [SourcesNext]_<<vars, desk, discoveryVars>> => Inv'
  <2> SUFFICES ASSUME Inv, [SourcesNext]_<<vars, desk, discoveryVars>> PROVE Inv'
    OBVIOUS
  <2>1. Next \/ UNCHANGED <<processed, run, overlapped, uncovered, folder>>
    BY SourcesStep DEF vars
  <2>2. CASE Next
    BY <2>2, PublicationStep, RowsStep DEF PublicationInv
  <2>3. CASE UNCHANGED <<processed, run, overlapped, uncovered, folder>>
    BY <2>3, PublicationKept, RowsStep DEF PublicationInv
  <2> QED BY <2>1, <2>2, <2>3
<1>3. Inv => EveryRowAccountedFor
  BY HeldIsAccounted
<1> QED BY <1>1, <1>2, <1>3, PTL DEF SourcesSpec

----------------------------------------------------------------------------
(* The registry of manifests *)

CheckFields == {"step", "scan", "access", "began", "listed", "seen", "toDo", "previous",
                "missing", "missed", "scopes", "reports", "read", "answer"}

Manifested == {f \in DriveFiles : manifests[f] # None}

\* The versions of a file some check found new or modified.
FoundNew == {v \in DriveFiles \X Nat :
                \E c \in Checks : \E state \in {"NEW", "MODIFIED"} :
                    <<v[1], v[2], state>> \in check[c].reports}

\* What a check of kind k holds, when `known` have a manifest, `ours` one of Admin
\* Earnings, and `found` were found new or modified.
CheckHolds(k, s, known, ours, found) ==
    /\ DOMAIN s = CheckFields /\ s.missed \in BOOLEAN
    /\ s.scan \in IF k = "legacy" THEN {1, 2, 3} ELSE {1}
    /\ DOMAIN s.listed \subseteq DriveFiles
    /\ \A f \in DOMAIN s.listed : s.listed[f].time \in Nat
    /\ s.seen \subseteq DOMAIN s.listed /\ s.toDo \subseteq s.seen
    /\ s.step \in {"registering", "writing"} => s.seen \ s.toDo \subseteq known
    /\ s.step = "writing" =>
          s.toDo # {} /\ (s.previous # None => <<Min(s.toDo), s.previous.time>> \in found)
    /\ s.step = "marking" => s.missing \subseteq known
    /\ s.step \in {"reading", "recording"} => k # "phase2" /\ s.seen \subseteq known
    /\ s.step = "recording" => \A f \in s.seen : s.read[f] \in Nat
    /\ s.began \subseteq ours
    /\ k = "phase2" =>
          /\ \A f \in s.seen : IsWeekly(s.listed[f])
          /\ s.step \in {"new", "unreadable"} => s.seen = {}
          /\ s.step = "marking" => s.began \subseteq s.seen \cup s.missing
          /\ s.step = "scanned" /\ ~s.missed /\ s.seen # {} => s.began \subseteq s.seen
    /\ s.answer = "READY_FOR_INGESTION" =>
          k = "phase2" /\ s.step = "answered" /\ s.began \subseteq s.seen

\* Every version in the registry was once found; each check holds what it should.
DeskInv ==
    /\ kind \in Kinds /\ edits \in Nat
    /\ DOMAIN drive = DriveFiles
    /\ \A f \in DriveFiles : drive[f] = None \/ drive[f].time \in Nat
    /\ manifests \in [DriveFiles -> Rows \cup {None}]
    /\ check = [c \in Checks |-> check[c]]
    /\ \A f \in Manifested : <<f, manifests[f].time>> \in FoundNew
    /\ \A c \in Checks :
          CheckHolds(kind[c], check[c], Manifested, Registered("ADMIN_EARNINGS"), FoundNew)

LEMMA KindOf == ASSUME DeskInv, NEW c \in Checks PROVE kind[c] \in {"phase2", "legacy", "import"}
BY ManifestsAssumption DEF DeskInv

\* What is registered stays so, and what was found stays found.
LEMMA HoldsGrows ==
    ASSUME NEW k, NEW s, NEW known, NEW ours, NEW found, CheckHolds(k, s, known, ours, found),
           NEW known2, NEW ours2, NEW found2,
           known \subseteq known2, ours \subseteq ours2, found \subseteq found2
    PROVE  CheckHolds(k, s, known2, ours2, found2)
BY DEF CheckHolds

\* A step that registers no file: the versions and the sources are what they were.
LEMMA CheckMoves ==
    ASSUME DeskInv, NEW c \in Checks, NEW s, check' = [check EXCEPT ![c] = s],
           s.reports = check[c].reports,
           CheckHolds(kind[c], s, Manifested, Registered("ADMIN_EARNINGS"), FoundNew),
           manifests' \in [DriveFiles -> Rows \cup {None}],
           \A f \in DriveFiles :
              /\ manifests'[f] = None <=> manifests[f] = None
              /\ manifests[f] # None => /\ manifests'[f].time = manifests[f].time
                                        /\ manifests'[f].source = manifests[f].source,
           UNCHANGED <<kind, drive, edits>>
    PROVE  DeskInv'
<1>1. \A d \in Checks : check'[d] = IF d = c THEN s ELSE check[d]
  BY DEF DeskInv
<1>2. check' = [d \in Checks |-> check'[d]]
  BY DEF DeskInv
<1>3. \A d \in Checks : check'[d].reports = check[d].reports
  BY <1>1
<1>4. FoundNew' = FoundNew
  BY <1>3 DEF FoundNew
<1>5. Manifested' = Manifested
  BY DEF Manifested
<1>6. Registered("ADMIN_EARNINGS")' = Registered("ADMIN_EARNINGS")
  BY DEF Registered
<1>7. \A f \in Manifested' : <<f, manifests'[f].time>> \in FoundNew'
  <2> SUFFICES ASSUME NEW f \in Manifested PROVE <<f, manifests'[f].time>> \in FoundNew
    BY <1>4, <1>5
  <2> QED BY DEF Manifested, DeskInv
<1>8. \A d \in Checks : CheckHolds(kind[d], check'[d], Manifested,
                                   Registered("ADMIN_EARNINGS"), FoundNew)
  <2> SUFFICES ASSUME NEW d \in Checks
               PROVE  CheckHolds(kind[d], check'[d], Manifested,
                                 Registered("ADMIN_EARNINGS"), FoundNew)
    OBVIOUS
  <2>1. CASE d = c
    BY <1>1, <2>1
  <2>2. CASE d # c
    BY <1>1, <2>2 DEF DeskInv
  <2> QED BY <2>1, <2>2
<1>9. kind' \in Kinds /\ edits' \in Nat /\ DOMAIN drive' = DriveFiles
      /\ \A f \in DriveFiles : drive'[f] = None \/ drive'[f].time \in Nat
  BY DEF DeskInv
<1>10. \A d \in Checks : CheckHolds(kind'[d], check'[d], Manifested',
                                   Registered("ADMIN_EARNINGS")', FoundNew')
  BY <1>4, <1>5, <1>6, <1>8
<1> QED BY <1>2, <1>7, <1>9, <1>10 DEF DeskInv

\* So does one that touches no manifest.
LEMMA CheckOnly ==
    ASSUME DeskInv, NEW c \in Checks, NEW s, check' = [check EXCEPT ![c] = s],
           s.reports = check[c].reports,
           CheckHolds(kind[c], s, Manifested, Registered("ADMIN_EARNINGS"), FoundNew),
           UNCHANGED <<manifests, kind, drive, edits>>
    PROVE  DeskInv'
<1>1. manifests' \in [DriveFiles -> Rows \cup {None}]
  BY DEF DeskInv
<1> QED BY <1>1, CheckMoves

\* What the check held before its step.
LEMMA HeldBefore ==
    ASSUME DeskInv, NEW c \in Checks
    PROVE  /\ CheckHolds(kind[c], check[c], Manifested, Registered("ADMIN_EARNINGS"), FoundNew)
           /\ DOMAIN check[c] = CheckFields /\ kind[c] \in {"phase2", "legacy", "import"}
BY KindOf DEF DeskInv, CheckHolds

LEMMA CheckLocationsHolds ==
    ASSUME DeskInv, NEW c \in Checks, CheckLocations(c) PROVE DeskInv'
<1> DEFINE o == check[c]
           ours == Registered("ADMIN_EARNINGS")
           step == IF kind[c] = "phase2" /\ ~Readable("admin") THEN "unreadable" ELSE "listing"
           s == [o EXCEPT !.access = places, !.began = ours, !.step = step]
<1>1. check' = [check EXCEPT ![c] = s]
  BY Zenon DEF CheckLocations, Move
<1>2. o.step = "new" /\ UNCHANGED <<manifests, kind, drive, edits>>
  BY DEF CheckLocations, Still
<1>3. CheckHolds(kind[c], o, Manifested, ours, FoundNew) /\ DOMAIN o = CheckFields
  BY HeldBefore
<1>4. step \in {"unreadable", "listing"}
  OBVIOUS
<1> HIDE DEF ours, step
<1>5. /\ s.step = step /\ s.began = ours /\ s.missed = o.missed /\ s.scan = o.scan
      /\ s.listed = o.listed /\ s.seen = o.seen /\ s.toDo = o.toDo /\ s.answer = o.answer
      /\ s.reports = o.reports /\ DOMAIN s = CheckFields
  BY <1>3 DEF CheckFields
<1> HIDE DEF s, o
<1>6. CheckHolds(kind[c], s, Manifested, ours, FoundNew)
  BY <1>2, <1>3, <1>4, <1>5 DEF CheckHolds
<1> QED BY <1>1, <1>2, <1>5, <1>6, CheckOnly DEF o, ours

\* The files a scan accepts are among those it listed.
LEMMA AcceptedListed ==
    ASSUME NEW scan \in {"inventory", "supported", "import", "scopes", "rst"}, NEW listed
    PROVE  /\ Accepted(scan, listed) \subseteq DOMAIN listed
           /\ scan = "inventory" => \A f \in Accepted(scan, listed) : IsWeekly(listed[f])
BY DEF Accepted, Inventory, AdminEarningsSources, PaymentScopeCandidates, RstList, Supported

LEMMA ScanOf ==
    ASSUME DeskInv, NEW c \in Checks
    PROVE  /\ Scan(c) \in {"inventory", "supported", "import", "scopes", "rst"}
           /\ kind[c] = "phase2" <=> Scan(c) = "inventory"
           /\ kind[c] = "import" <=> Scan(c) = "import"
           /\ Scan(c) = "inventory" => Source(Scan(c)) = "ADMIN_EARNINGS"
           /\ Source(Scan(c)) \in {"ADMIN_EARNINGS", "PAYMENT_SCOPE", "RST_LIST"}
<1>1. kind[c] \in {"phase2", "legacy", "import"}
      /\ check[c].scan \in IF kind[c] = "legacy" THEN {1, 2, 3} ELSE {1}
  BY HeldBefore DEF CheckHolds
<1>2. CASE kind[c] = "phase2"
  BY <1>1, <1>2 DEF Scan, Scans, Source
<1>3. CASE kind[c] = "import"
  BY <1>1, <1>3 DEF Scan, Scans, Source
<1>4. CASE kind[c] = "legacy"
  BY <1>1, <1>4 DEF Scan, Scans, Source
<1> QED BY <1>1, <1>2, <1>3, <1>4

LEMMA ListFolderHolds ==
    ASSUME DeskInv, NEW c \in Checks, ListFolder(c) PROVE DeskInv'
<1> DEFINE o == check[c]
           here == {g \in DriveFiles :
                      drive[g] # None /\ drive[g].shape.folder = Source(Scan(c))}
           listed == [f \in here |-> drive[f]]
           accepted == Accepted(Scan(c), listed)
           scopes == IF Scan(c) = "scopes" THEN {<<f, ScopeStatus(listed, f)>> : f \in accepted}
                     ELSE o.scopes
           step == IF Scan(c) = "rst" /\ accepted = {} THEN "scanned" ELSE "registering"
           s == [o EXCEPT !.listed = listed, !.seen = accepted, !.toDo = accepted,
                          !.scopes = scopes, !.step = step]
<1>1. check' = [check EXCEPT ![c] = s]
  BY Zenon DEF ListFolder, Move
<1>2. o.step = "listing" /\ UNCHANGED <<manifests, kind, drive, edits>>
  BY DEF ListFolder, Still
<1>3. /\ CheckHolds(kind[c], o, Manifested, Registered("ADMIN_EARNINGS"), FoundNew)
      /\ DOMAIN o = CheckFields
  BY HeldBefore
<1>4. /\ DOMAIN listed \subseteq DriveFiles
      /\ \A f \in DOMAIN listed : listed[f].time \in Nat
  BY DEF DeskInv
<1> HIDE DEF listed
<1>5. /\ accepted \subseteq DOMAIN listed
      /\ kind[c] = "phase2" => \A f \in accepted : IsWeekly(listed[f])
  BY AcceptedListed, ScanOf
<1>6. step \in {"scanned", "registering"} /\ (kind[c] = "phase2" => step = "registering")
  BY ScanOf
<1> HIDE DEF accepted, scopes, step
<1>7. /\ s.step = step /\ s.began = o.began /\ s.missed = o.missed /\ s.scan = o.scan
      /\ s.listed = listed /\ s.seen = accepted /\ s.toDo = accepted /\ s.answer = o.answer
      /\ s.reports = o.reports /\ DOMAIN s = CheckFields
  BY <1>3 DEF CheckFields
<1> HIDE DEF s, o
<1>8. CheckHolds(kind[c], s, Manifested, Registered("ADMIN_EARNINGS"), FoundNew)
  BY <1>2, <1>3, <1>4, <1>5, <1>6, <1>7 DEF CheckHolds
<1> QED BY <1>1, <1>2, <1>7, <1>8, CheckOnly DEF o

LEMMA ReadManifestHolds ==
    ASSUME DeskInv, NEW c \in Checks, ReadManifest(c) PROVE DeskInv'
<1> DEFINE o == check[c]
           f == Min(o.toDo)
           previous == manifests[f]
           s == [o EXCEPT !.previous = previous, !.step = "writing"]
<1>1. check' = [check EXCEPT ![c] = s]
  BY Zenon DEF ReadManifest, Move
<1>2. o.step = "registering" /\ o.toDo # {} /\ UNCHANGED <<manifests, kind, drive, edits>>
  BY DEF ReadManifest, Still
<1>3. /\ CheckHolds(kind[c], o, Manifested, Registered("ADMIN_EARNINGS"), FoundNew)
      /\ DOMAIN o = CheckFields
  BY HeldBefore
<1>4. f \in o.toDo /\ f \in DriveFiles
  <2>1. o.toDo \in SUBSET Nat /\ o.toDo \subseteq DriveFiles
    BY <1>3, ManifestsAssumption DEF CheckHolds
  <2> QED BY <1>2, <2>1, MinIsThere
<1>5. previous # None => <<f, previous.time>> \in FoundNew
  BY <1>4 DEF DeskInv, Manifested
<1> HIDE DEF previous
<1>6. /\ s.step = "writing" /\ s.began = o.began /\ s.missed = o.missed /\ s.scan = o.scan
      /\ s.listed = o.listed /\ s.seen = o.seen /\ s.toDo = o.toDo /\ s.answer = o.answer
      /\ s.reports = o.reports /\ s.previous = previous /\ DOMAIN s = CheckFields
  BY <1>3 DEF CheckFields
<1> HIDE DEF s, o
<1>7. CheckHolds(kind[c], s, Manifested, Registered("ADMIN_EARNINGS"), FoundNew)
  BY <1>2, <1>3, <1>5, <1>6 DEF CheckHolds
<1> QED BY <1>1, <1>2, <1>6, <1>7, CheckOnly DEF o

LEMMA FindMissingHolds ==
    ASSUME DeskInv, NEW c \in Checks, FindMissing(c) PROVE DeskInv'
<1> DEFINE o == check[c]
           ours == Registered("ADMIN_EARNINGS")
           missing == Registered(Source(Scan(c))) \ o.seen
           s == [o EXCEPT !.missing = missing, !.step = "marking"]
           t == [o EXCEPT !.step = "reading"]
<1>1. \/ Scan(c) = "import" /\ check' = [check EXCEPT ![c] = t]
      \/ Scan(c) # "import" /\ check' = [check EXCEPT ![c] = s]
  BY Zenon DEF FindMissing, Move
<1>2. o.step = "registering" /\ o.toDo = {} /\ UNCHANGED <<manifests, kind, drive, edits>>
  BY DEF FindMissing, Still
<1>3. CheckHolds(kind[c], o, Manifested, ours, FoundNew) /\ DOMAIN o = CheckFields
  BY HeldBefore
<1>4. CASE Scan(c) = "import"
  <2>1. kind[c] # "phase2" /\ check' = [check EXCEPT ![c] = t]
    BY <1>1, <1>4, ScanOf
  <2>2. /\ t.step = "reading" /\ t.began = o.began /\ t.missed = o.missed /\ t.scan = o.scan
        /\ t.listed = o.listed /\ t.seen = o.seen /\ t.toDo = o.toDo /\ t.answer = o.answer
        /\ t.reports = o.reports /\ DOMAIN t = CheckFields
    BY <1>3 DEF CheckFields
  <2> HIDE DEF t, o, ours
  <2>3. CheckHolds(kind[c], t, Manifested, ours, FoundNew)
    BY <1>2, <1>3, <2>1, <2>2 DEF CheckHolds
  <2> QED BY <1>2, <2>1, <2>2, <2>3, CheckOnly DEF o, ours
<1>5. CASE Scan(c) # "import"
  <2>1. kind[c] = "phase2" => ours \subseteq o.seen \cup missing
    BY ScanOf
  <2>2. missing \subseteq Manifested
    BY DEF Registered, Manifested
  <2> HIDE DEF missing, ours
  <2>3. /\ s.step = "marking" /\ s.began = o.began /\ s.missed = o.missed /\ s.scan = o.scan
        /\ s.listed = o.listed /\ s.seen = o.seen /\ s.toDo = o.toDo /\ s.answer = o.answer
        /\ s.reports = o.reports /\ s.missing = missing /\ DOMAIN s = CheckFields
    BY <1>3 DEF CheckFields
  <2>4. check' = [check EXCEPT ![c] = s]
    BY <1>1, <1>5
  <2> HIDE DEF s, o
  <2>5. CheckHolds(kind[c], s, Manifested, ours, FoundNew)
    BY <1>2, <1>3, <2>1, <2>2, <2>3 DEF CheckHolds
  <2> QED BY <1>2, <2>3, <2>4, <2>5, CheckOnly DEF o, ours
<1> QED BY <1>4, <1>5

\* A status is written on rows that are there, and says nothing of their version.
LEMMA StatusWritten ==
    ASSUME DeskInv, NEW files, files \subseteq Manifested,
           NEW status \in {"MISSING", "INACCESSIBLE"},
           manifests' = WithStatus(files, status)
    PROVE  /\ manifests' \in [DriveFiles -> Rows \cup {None}]
           /\ \A f \in DriveFiles :
                 /\ manifests'[f] = None <=> manifests[f] = None
                 /\ manifests[f] # None => /\ manifests'[f].time = manifests[f].time
                                           /\ manifests'[f].source = manifests[f].source
<1>1. \A m \in Rows : /\ [m EXCEPT !.status = status] \in Rows
                      /\ [m EXCEPT !.status = status].time = m.time
                      /\ [m EXCEPT !.status = status].source = m.source
  BY DEF Rows
<1>2. ASSUME NEW f \in files
      PROVE  /\ manifests[f] \in Rows /\ manifests'[f] \in Rows /\ f \in DriveFiles
             /\ manifests'[f].time = manifests[f].time
             /\ manifests'[f].source = manifests[f].source
  <2>1. f \in DriveFiles /\ manifests[f] \in Rows
    BY DEF Manifested, DeskInv
  <2>2. manifests'[f] = [manifests[f] EXCEPT !.status = status]
    BY <2>1 DEF WithStatus
  <2> QED BY <1>1, <2>1, <2>2
<1>3. \A f \in DriveFiles \ files : manifests'[f] = manifests[f]
  BY DEF WithStatus
<1>4. manifests' = [f \in DriveFiles |-> manifests'[f]]
  BY DEF WithStatus
<1>5. \A f \in DriveFiles : manifests'[f] \in Rows \cup {None}
  BY <1>2, <1>3 DEF DeskInv
<1>6. None \notin Rows
  BY ManifestsAssumption
<1> QED BY <1>2, <1>3, <1>4, <1>5, <1>6

LEMMA MarkMissingHolds ==
    ASSUME DeskInv, NEW c \in Checks, MarkMissing(c) PROVE DeskInv'
<1> DEFINE o == check[c]
           missed == o.missed \/ o.missing # {}
           s == [o EXCEPT !.missed = missed, !.step = "scanned"]
<1>1. check' = [check EXCEPT ![c] = s]
  BY Zenon DEF MarkMissing, Move
<1>2. /\ o.step = "marking" /\ manifests' = WithStatus(o.missing, "MISSING")
      /\ UNCHANGED <<kind, drive, edits>>
  BY DEF MarkMissing
<1>3. /\ CheckHolds(kind[c], o, Manifested, Registered("ADMIN_EARNINGS"), FoundNew)
      /\ DOMAIN o = CheckFields
  BY HeldBefore
<1>4. o.missing \subseteq Manifested
  BY <1>2, <1>3 DEF CheckHolds
<1>5. missed \in BOOLEAN /\ (~missed => o.missing = {})
  BY <1>3 DEF CheckHolds
<1> HIDE DEF missed
<1>6. /\ s.step = "scanned" /\ s.began = o.began /\ s.missed = missed /\ s.scan = o.scan
      /\ s.listed = o.listed /\ s.seen = o.seen /\ s.toDo = o.toDo /\ s.answer = o.answer
      /\ s.reports = o.reports /\ DOMAIN s = CheckFields
  BY <1>3 DEF CheckFields
<1> HIDE DEF s, o
<1>7. CheckHolds(kind[c], s, Manifested, Registered("ADMIN_EARNINGS"), FoundNew)
  BY <1>2, <1>3, <1>5, <1>6 DEF CheckHolds
<1>8. /\ manifests' \in [DriveFiles -> Rows \cup {None}]
      /\ \A f \in DriveFiles :
            /\ manifests'[f] = None <=> manifests[f] = None
            /\ manifests[f] # None => /\ manifests'[f].time = manifests[f].time
                                      /\ manifests'[f].source = manifests[f].source
  BY <1>2, <1>4, StatusWritten
<1> QED BY <1>1, <1>2, <1>6, <1>7, <1>8, CheckMoves DEF o

LEMMA MarkInaccessibleHolds ==
    ASSUME DeskInv, NEW c \in Checks, MarkInaccessible(c) PROVE DeskInv'
<1> DEFINE o == check[c]
           files == Registered("ADMIN_EARNINGS")
           s == [o EXCEPT !.step = "scanned"]
<1>1. check' = [check EXCEPT ![c] = s]
  BY Zenon DEF MarkInaccessible, Move
<1>2. /\ o.step = "unreadable" /\ manifests' = WithStatus(files, "INACCESSIBLE")
      /\ UNCHANGED <<kind, drive, edits>>
  BY DEF MarkInaccessible
<1>3. CheckHolds(kind[c], o, Manifested, files, FoundNew) /\ DOMAIN o = CheckFields
  BY HeldBefore
<1>4. files \subseteq Manifested
  BY DEF Registered, Manifested
<1>5. /\ s.step = "scanned" /\ s.began = o.began /\ s.missed = o.missed /\ s.scan = o.scan
      /\ s.listed = o.listed /\ s.seen = o.seen /\ s.toDo = o.toDo /\ s.answer = o.answer
      /\ s.reports = o.reports /\ DOMAIN s = CheckFields
  BY <1>3 DEF CheckFields
<1> HIDE DEF s, o, files
<1>6. CheckHolds(kind[c], s, Manifested, files, FoundNew)
  BY <1>2, <1>3, <1>5 DEF CheckHolds
<1>7. /\ manifests' \in [DriveFiles -> Rows \cup {None}]
      /\ \A f \in DriveFiles :
            /\ manifests'[f] = None <=> manifests[f] = None
            /\ manifests[f] # None => /\ manifests'[f].time = manifests[f].time
                                      /\ manifests'[f].source = manifests[f].source
  BY <1>2, <1>4, StatusWritten
<1> QED BY <1>1, <1>2, <1>5, <1>6, <1>7, CheckMoves DEF o, files

LEMMA AnswerHolds ==
    ASSUME DeskInv, NEW c \in Checks, Answer(c) PROVE DeskInv'
<1> DEFINE o == check[c]
           next == o.scan + 1
           answer == IF kind[c] = "phase2" /\ Ready(o) THEN "READY_FOR_INGESTION" ELSE "BLOCKING"
           s == [o EXCEPT !.scan = next, !.step = "listing"]
           t == [o EXCEPT !.step = "answered", !.answer = answer]
<1>1. \/ o.scan < Len(Scans(c)) /\ check' = [check EXCEPT ![c] = s]
      \/ check' = [check EXCEPT ![c] = t]
  BY Zenon DEF Answer, Move
<1>2. o.step = "scanned" /\ UNCHANGED <<manifests, kind, drive, edits>>
  BY DEF Answer, Still
<1>3. /\ CheckHolds(kind[c], o, Manifested, Registered("ADMIN_EARNINGS"), FoundNew)
      /\ DOMAIN o = CheckFields
  BY HeldBefore
<1>4. CASE o.scan < Len(Scans(c)) /\ check' = [check EXCEPT ![c] = s]
  <2>1. next \in {1, 2, 3} /\ kind[c] = "legacy"
    <3>1. kind[c] \in {"phase2", "legacy", "import"}
      BY HeldBefore
    <3>2. o.scan \in IF kind[c] = "legacy" THEN {1, 2, 3} ELSE {1}
      BY <1>3 DEF CheckHolds
    <3>3. Len(Scans(c)) = IF kind[c] = "legacy" THEN 3 ELSE 1
      BY <3>1 DEF Scans
    <3> HIDE DEF o
    <3> QED BY <1>4, <3>1, <3>2, <3>3
  <2> HIDE DEF next
  <2>2. /\ s.step = "listing" /\ s.began = o.began /\ s.missed = o.missed /\ s.scan = next
        /\ s.listed = o.listed /\ s.seen = o.seen /\ s.toDo = o.toDo /\ s.answer = o.answer
        /\ s.reports = o.reports /\ DOMAIN s = CheckFields
    BY <1>3 DEF CheckFields
  <2> HIDE DEF s, o
  <2>3. CheckHolds(kind[c], s, Manifested, Registered("ADMIN_EARNINGS"), FoundNew)
    BY <1>2, <1>3, <2>1, <2>2 DEF CheckHolds
  <2> QED BY <1>2, <1>4, <2>2, <2>3, CheckOnly DEF o
<1>5. CASE check' = [check EXCEPT ![c] = t]
  <2>1. answer = "READY_FOR_INGESTION" =>
          kind[c] = "phase2" /\ o.seen # {} /\ ~o.missed
    BY DEF Ready
  <2> HIDE DEF answer
  <2>2. /\ t.step = "answered" /\ t.began = o.began /\ t.missed = o.missed /\ t.scan = o.scan
        /\ t.listed = o.listed /\ t.seen = o.seen /\ t.toDo = o.toDo /\ t.answer = answer
        /\ t.reports = o.reports /\ DOMAIN t = CheckFields
    BY <1>3 DEF CheckFields
  <2> HIDE DEF t, o
  <2>3. CheckHolds(kind[c], t, Manifested, Registered("ADMIN_EARNINGS"), FoundNew)
    BY <1>2, <1>3, <2>1, <2>2 DEF CheckHolds
  <2> QED BY <1>2, <1>5, <2>2, <2>3, CheckOnly DEF o
<1> QED BY <1>1, <1>4, <1>5

LEMMA ImportHolds ==
    ASSUME DeskInv, NEW c \in Checks, Import(c) PROVE DeskInv'
<1> DEFINE o == check[c]
           read == [f \in o.seen |-> IF drive[f] = None THEN 0 ELSE drive[f].time]
           s == [o EXCEPT !.toDo = o.seen, !.step = "recording", !.read = read]
<1>1. check' = [check EXCEPT ![c] = s]
  BY Zenon DEF Import, Move
<1>2. o.step = "reading" /\ UNCHANGED <<manifests, kind, drive, edits>>
  BY DEF Import, Still
<1>3. /\ CheckHolds(kind[c], o, Manifested, Registered("ADMIN_EARNINGS"), FoundNew)
      /\ DOMAIN o = CheckFields
  BY HeldBefore
<1>4. \A f \in o.seen : read[f] \in Nat
  <2>1. \A f \in o.seen : f \in DriveFiles
    BY <1>3 DEF CheckHolds
  <2> QED BY <2>1 DEF DeskInv
<1> HIDE DEF read
<1>5. /\ s.step = "recording" /\ s.began = o.began /\ s.missed = o.missed /\ s.scan = o.scan
      /\ s.listed = o.listed /\ s.seen = o.seen /\ s.toDo = o.seen /\ s.answer = o.answer
      /\ s.reports = o.reports /\ s.read = read /\ DOMAIN s = CheckFields
  BY <1>3 DEF CheckFields
<1> HIDE DEF s, o
<1>6. CheckHolds(kind[c], s, Manifested, Registered("ADMIN_EARNINGS"), FoundNew)
  BY <1>2, <1>3, <1>4, <1>5 DEF CheckHolds
<1> QED BY <1>1, <1>2, <1>5, <1>6, CheckOnly DEF o

\* What an import records is beside the version.
LEMMA RecordIngestionHolds ==
    ASSUME DeskInv, NEW c \in Checks, RecordIngestion(c) PROVE DeskInv'
<1> DEFINE o == check[c]
           f == Min(o.toDo)
           left == o.toDo \ {f}
           s == [o EXCEPT !.toDo = left]
           t == [o EXCEPT !.step = "scanned"]
<1>1. \/ o.toDo = {} /\ check' = [check EXCEPT ![c] = t] /\ UNCHANGED manifests
      \/ /\ o.toDo # {} /\ check' = [check EXCEPT ![c] = s]
         /\ manifests' = [manifests EXCEPT ![f].rows = o.read[f]]
  BY Zenon DEF RecordIngestion, Move
<1>2. o.step = "recording" /\ UNCHANGED <<kind, drive, edits>>
  BY DEF RecordIngestion
<1>3. /\ CheckHolds(kind[c], o, Manifested, Registered("ADMIN_EARNINGS"), FoundNew)
      /\ DOMAIN o = CheckFields
  BY HeldBefore
<1>4. CASE check' = [check EXCEPT ![c] = t] /\ UNCHANGED manifests
  <2>1. /\ t.step = "scanned" /\ t.began = o.began /\ t.missed = o.missed /\ t.scan = o.scan
        /\ t.listed = o.listed /\ t.seen = o.seen /\ t.toDo = o.toDo /\ t.answer = o.answer
        /\ t.reports = o.reports /\ DOMAIN t = CheckFields
    BY <1>3 DEF CheckFields
  <2> HIDE DEF t, o
  <2>2. CheckHolds(kind[c], t, Manifested, Registered("ADMIN_EARNINGS"), FoundNew)
    BY <1>2, <1>3, <2>1 DEF CheckHolds
  <2> QED BY <1>2, <1>4, <2>1, <2>2, CheckOnly DEF o
<1>5. CASE /\ o.toDo # {} /\ check' = [check EXCEPT ![c] = s]
           /\ manifests' = [manifests EXCEPT ![f].rows = o.read[f]]
  <2>1. f \in o.toDo /\ f \in DriveFiles /\ f \in Manifested /\ o.read[f] \in Nat
    <3>1. o.toDo \in SUBSET Nat /\ o.toDo \subseteq DriveFiles /\ o.toDo \subseteq Manifested
          /\ \A g \in o.toDo : o.read[g] \in Nat
      BY <1>2, <1>3, ManifestsAssumption DEF CheckHolds
    <3> QED BY <1>5, <3>1, MinIsThere
  <2>2. PICK n \in Nat : n = o.read[f]
    BY <2>1
  <2> HIDE DEF left, f
  <2>3. /\ s.step = o.step /\ s.began = o.began /\ s.missed = o.missed /\ s.scan = o.scan
        /\ s.listed = o.listed /\ s.seen = o.seen /\ s.toDo = left /\ s.answer = o.answer
        /\ s.reports = o.reports /\ s.read = o.read /\ DOMAIN s = CheckFields
    BY <1>3 DEF CheckFields
  <2>4. left \subseteq o.toDo
    BY DEF left
  <2>5. check' = [check EXCEPT ![c] = s] /\ manifests' = [manifests EXCEPT ![f].rows = n]
    BY <1>5, <2>2
  <2> HIDE DEF s, o
  <2>6. CheckHolds(kind[c], s, Manifested, Registered("ADMIN_EARNINGS"), FoundNew)
    BY <1>2, <1>3, <2>3, <2>4 DEF CheckHolds
  <2>7. /\ manifests' \in [DriveFiles -> Rows \cup {None}]
        /\ \A g \in DriveFiles :
              /\ manifests'[g] = None <=> manifests[g] = None
              /\ manifests[g] # None => /\ manifests'[g].time = manifests[g].time
                                        /\ manifests'[g].source = manifests[g].source
    <3>1. \A m \in Rows : /\ [m EXCEPT !.rows = n] \in Rows
                          /\ [m EXCEPT !.rows = n].time = m.time
                          /\ [m EXCEPT !.rows = n].source = m.source
      BY DEF Rows
    <3>2. manifests[f] \in Rows
      BY <2>1 DEF Manifested, DeskInv
    <3>3. manifests'[f] = [manifests[f] EXCEPT !.rows = n]
      BY <2>1, <2>5 DEF DeskInv
    <3>4. \A g \in DriveFiles : g # f => manifests'[g] = manifests[g]
      BY <2>5 DEF DeskInv
    <3>5. manifests' = [g \in DriveFiles |-> manifests'[g]]
      BY <2>5 DEF DeskInv
    <3>6. \A g \in DriveFiles : manifests'[g] \in Rows \cup {None}
      BY <3>1, <3>2, <3>3, <3>4 DEF DeskInv
    <3>7. None \notin Rows
      BY ManifestsAssumption
    <3>8. manifests'[f] \in Rows /\ manifests'[f].time = manifests[f].time
          /\ manifests'[f].source = manifests[f].source
      BY <3>1, <3>2, <3>3
    <3>9. manifests' \in [DriveFiles -> Rows \cup {None}]
      BY <3>5, <3>6
    <3> QED BY <3>2, <3>4, <3>7, <3>8, <3>9
  <2> QED BY <1>2, <2>3, <2>5, <2>6, <2>7, CheckMoves DEF o
<1> QED BY <1>1, <1>4, <1>5

\* A check that ends early holds what it held.
LEMMA EndsHolds ==
    ASSUME DeskInv, NEW c \in Checks, ListingFails(c) \/ SessionEnds(c) PROVE DeskInv'
<1> DEFINE o == check[c]
<1>1. PICK step \in {"failed", "cut"} : check' = [check EXCEPT ![c] = [o EXCEPT !.step = step]]
  BY Zenon DEF ListingFails, SessionEnds, Move
<1> DEFINE s == [o EXCEPT !.step = step]
<1>2. o.step # "answered" /\ UNCHANGED <<manifests, kind, drive, edits>>
  BY DEF ListingFails, SessionEnds, Done
<1>3. /\ CheckHolds(kind[c], o, Manifested, Registered("ADMIN_EARNINGS"), FoundNew)
      /\ DOMAIN o = CheckFields
  BY HeldBefore
<1>4. /\ s.step = step /\ s.began = o.began /\ s.missed = o.missed /\ s.scan = o.scan
      /\ s.listed = o.listed /\ s.seen = o.seen /\ s.toDo = o.toDo /\ s.answer = o.answer
      /\ s.reports = o.reports /\ DOMAIN s = CheckFields
  BY <1>3 DEF CheckFields
<1>5. check' = [check EXCEPT ![c] = s]
  BY <1>1
<1> HIDE DEF s, o
<1>6. CheckHolds(kind[c], s, Manifested, Registered("ADMIN_EARNINGS"), FoundNew)
  BY <1>2, <1>3, <1>4 DEF CheckHolds
<1> QED BY <1>2, <1>4, <1>5, <1>6, CheckOnly DEF o

\* The row a registration writes, for the version that was listed.
LEMMA WriteManifestHolds ==
    ASSUME DeskInv, NEW c \in Checks, WriteManifest(c) PROVE DeskInv'
<1> DEFINE o == check[c]
           f == Min(o.toDo)
           v == o.listed[f]
           state == DetectChange(o.previous, v)
           source == Source(Scan(c))
           began(d) == IF source = "ADMIN_EARNINGS" THEN check[d].began
                       ELSE check[d].began \ {f}
           row == [source |-> source, time |-> v.time, checksum |-> Checksum(v),
                   status |-> state,
                   rows |-> IF manifests[f] = None THEN None ELSE manifests[f].rows]
           left == o.toDo \ {f}
           reports == o.reports \cup {<<f, v.time, state>>}
           ours == Registered("ADMIN_EARNINGS")
<1>1. /\ o.step = "writing" /\ UNCHANGED <<kind, drive, edits>>
      /\ manifests' = [manifests EXCEPT ![f] = row]
  BY DEF WriteManifest
<1>2. \A d \in Checks :
        check'[d] = IF d # c THEN [check[d] EXCEPT !.began = began(d)]
                    ELSE [check[d] EXCEPT !.began = began(d), !.toDo = check[d].toDo \ {f},
                            !.step = "registering",
                            !.reports = check[d].reports \cup {<<f, v.time, state>>}]
  BY DEF WriteManifest
<1>3. check' = [d \in Checks |-> check'[d]]
  BY DEF WriteManifest
<1>4. /\ \A d \in Checks : CheckHolds(kind[d], check[d], Manifested, ours, FoundNew)
      /\ \A d \in Checks : DOMAIN check[d] = CheckFields
  BY HeldBefore
<1>5. f \in o.toDo /\ f \in DriveFiles /\ f \in DOMAIN o.listed /\ v.time \in Nat
  <2>1. o.toDo \in SUBSET Nat /\ o.toDo \subseteq DriveFiles /\ o.toDo # {}
        /\ o.toDo \subseteq DOMAIN o.listed /\ \A g \in DOMAIN o.listed : o.listed[g].time \in Nat
    BY <1>1, <1>4, ManifestsAssumption DEF CheckHolds
  <2> QED BY <2>1, MinIsThere
<1>6. o.previous # None => <<f, o.previous.time>> \in FoundNew
  BY <1>1, <1>4 DEF CheckHolds
<1>7. row \in Rows /\ row.time = v.time /\ row.source = source
  <2>1. source \in {"ADMIN_EARNINGS", "PAYMENT_SCOPE", "RST_LIST"}
    BY ScanOf
  <2>2. state \in {"NEW", "MODIFIED", "UNCHANGED"}
    BY DEF DetectChange
  <2>3. Checksum(v) \in Nat \cup {None}
    BY <1>5 DEF Checksum
  <2>4. manifests[f] # None => manifests[f].rows \in Nat \cup {None}
    BY <1>5 DEF DeskInv, Rows
  <2> HIDE DEF source, state, v, f
  <2>5. (IF manifests[f] = None THEN None ELSE manifests[f].rows) \in Nat \cup {None}
    BY <2>4
  <2> QED BY <1>5, <2>1, <2>2, <2>3, <2>5 DEF Rows
<1> HIDE DEF row
<1>8. manifests'[f] = row /\ \A g \in DriveFiles : g # f => manifests'[g] = manifests[g]
  BY <1>1, <1>5 DEF DeskInv
<1>9. manifests' \in [DriveFiles -> Rows \cup {None}]
  <2>1. manifests' = [g \in DriveFiles |-> manifests'[g]]
    BY <1>1 DEF DeskInv
  <2>2. \A g \in DriveFiles : manifests'[g] \in Rows \cup {None}
    BY <1>7, <1>8 DEF DeskInv
  <2> QED BY <2>1, <2>2
<1>10. Manifested' = Manifested \cup {f}
  BY <1>5, <1>7, <1>8, ManifestsAssumption DEF Manifested
<1>11. ours' = IF source = "ADMIN_EARNINGS" THEN ours \cup {f} ELSE ours \ {f}
  <2> HIDE DEF f, source
  <2> QED BY <1>5, <1>7, <1>8, ManifestsAssumption DEF Registered
<1>12. /\ check'[c].step = "registering" /\ check'[c].began = began(c)
       /\ check'[c].missed = o.missed /\ check'[c].scan = o.scan
       /\ check'[c].listed = o.listed /\ check'[c].seen = o.seen
       /\ check'[c].toDo = left /\ check'[c].answer = o.answer
       /\ check'[c].reports = reports /\ DOMAIN check'[c] = CheckFields
  <2>1. PICK b : b = began(c)
    OBVIOUS
  <2>2. check'[c] = [o EXCEPT !.began = b, !.toDo = left, !.step = "registering",
                              !.reports = reports]
    BY <1>2, <2>1, Zenon
  <2> HIDE DEF left, reports, began
  <2> QED BY <1>4, <2>1, <2>2 DEF CheckFields
<1>13. ASSUME NEW d \in Checks, d # c
       PROVE  /\ check'[d].step = check[d].step /\ check'[d].began = began(d)
              /\ check'[d].missed = check[d].missed /\ check'[d].scan = check[d].scan
              /\ check'[d].listed = check[d].listed /\ check'[d].seen = check[d].seen
              /\ check'[d].toDo = check[d].toDo /\ check'[d].answer = check[d].answer
              /\ check'[d].previous = check[d].previous /\ check'[d].read = check[d].read
              /\ check'[d].missing = check[d].missing
              /\ check'[d].reports = check[d].reports /\ DOMAIN check'[d] = CheckFields
  <2>1. PICK b : b = began(d)
    OBVIOUS
  <2>2. check'[d] = [check[d] EXCEPT !.began = b]
    BY <1>2, <1>13, <2>1
  <2> HIDE DEF began
  <2> QED BY <1>4, <2>1, <2>2 DEF CheckFields
<1>14. FoundNew \subseteq FoundNew' /\ <<f, v.time>> \in FoundNew'
  <2>1. \A d \in Checks : check[d].reports \subseteq check'[d].reports
    BY <1>12, <1>13
  <2>2. FoundNew \subseteq FoundNew'
    BY <2>1 DEF FoundNew
  <2>3. CASE state \in {"NEW", "MODIFIED"}
    <3>1. <<f, v.time, state>> \in check'[c].reports
      BY <1>12
    <3> HIDE DEF f, v, state
    <3> QED BY <1>5, <2>2, <2>3, <3>1 DEF FoundNew
  <2>4. CASE state \notin {"NEW", "MODIFIED"}
    <3>1. o.previous # None /\ o.previous.time = v.time
      BY <2>4 DEF DetectChange
    <3> QED BY <1>6, <2>2, <3>1
  <2> QED BY <2>3, <2>4, <2>2
<1>15. \A g \in Manifested' : <<g, manifests'[g].time>> \in FoundNew'
  <2> SUFFICES ASSUME NEW g \in Manifested' PROVE <<g, manifests'[g].time>> \in FoundNew'
    OBVIOUS
  <2>1. CASE g = f
    BY <1>7, <1>8, <1>14, <2>1
  <2>2. CASE g # f
    <3>1. g \in DriveFiles /\ g \in Manifested /\ manifests'[g] = manifests[g]
      BY <1>8, <1>10, <2>2 DEF Manifested
    <3> QED BY <1>14, <3>1 DEF DeskInv
  <2> QED BY <2>1, <2>2
<1>16. \A d \in Checks : began(d) \subseteq check[d].began /\ began(d) \subseteq ours'
  <2> SUFFICES ASSUME NEW d \in Checks
               PROVE  began(d) \subseteq check[d].began /\ began(d) \subseteq ours'
    OBVIOUS
  <2>1. check[d].began \subseteq ours
    BY <1>4 DEF CheckHolds
  <2> HIDE DEF ours, f, source
  <2> QED BY <1>11, <2>1
<1> HIDE DEF ours, f, began, source, v, state
<1>17. ASSUME NEW d \in Checks
       PROVE  CheckHolds(kind[d], check'[d], Manifested', ours', FoundNew')
  <2>1. Manifested \subseteq Manifested'
    BY <1>10
  <2>2. CheckHolds(kind[d], check[d], Manifested, ours, FoundNew)
    BY <1>4
  <2>3. CASE d = c
    <3>1. o.seen \ left \subseteq Manifested'
      BY <1>1, <1>4, <1>10 DEF CheckHolds
    <3>2. left \subseteq o.toDo
      OBVIOUS
    <3> HIDE DEF left, reports
    <3> QED BY <1>1, <1>12, <1>16, <2>1, <2>2, <2>3, <3>1, <3>2 DEF CheckHolds
  <2>4. CASE d # c
    BY <1>13, <1>14, <1>16, <2>1, <2>2, <2>4 DEF CheckHolds
  <2> QED BY <2>3, <2>4
<1>18. kind' \in Kinds /\ edits' \in Nat /\ DOMAIN drive' = DriveFiles
       /\ \A g \in DriveFiles : drive'[g] = None \/ drive'[g].time \in Nat
  BY <1>1 DEF DeskInv
<1>19. \A d \in Checks : CheckHolds(kind'[d], check'[d], Manifested',
                                    Registered("ADMIN_EARNINGS")', FoundNew')
  BY <1>1, <1>17 DEF ours
<1> QED BY <1>3, <1>9, <1>15, <1>18, <1>19 DEF DeskInv

LEMMA DeskInit == DiscoveryInit => DeskInv
<1> SUFFICES ASSUME DiscoveryInit PROVE DeskInv
  OBVIOUS
<1>1. /\ DOMAIN NewCheck = CheckFields /\ NewCheck.step = "new" /\ NewCheck.scan = 1
      /\ NewCheck.listed = <<>> /\ NewCheck.seen = {} /\ NewCheck.toDo = {}
      /\ NewCheck.began = {} /\ NewCheck.missed = FALSE /\ NewCheck.answer = None
  BY DEF NewCheck, CheckFields
<1>2. DOMAIN NewCheck.listed = {}
  BY <1>1, EmptySeq
<1>3. None # "READY_FOR_INGESTION"
  BY ManifestsAssumption
<1>4. \A k, known, ours, found : CheckHolds(k, NewCheck, known, ours, found)
  BY <1>1, <1>2, <1>3 DEF CheckHolds
<1>5. Manifested = {} /\ manifests \in [DriveFiles -> Rows \cup {None}]
  BY DEF DiscoveryInit, Manifested
<1>6. kind \in Kinds /\ edits \in Nat /\ DOMAIN drive = DriveFiles
      /\ \A f \in DriveFiles : drive[f] = None \/ drive[f].time \in Nat
  BY ManifestsAssumption DEF DiscoveryInit
<1>7. check = [c \in Checks |-> check[c]] /\ \A c \in Checks : check[c] = NewCheck
  BY DEF DiscoveryInit
<1> QED BY <1>4, <1>5, <1>6, <1>7 DEF DeskInv

LEMMA DeskKept ==
    ASSUME DeskInv, UNCHANGED <<kind, manifests, check>>, edits' \in Nat,
           DOMAIN drive' = DriveFiles,
           \A f \in DriveFiles : drive'[f] = None \/ drive'[f].time \in Nat
    PROVE  DeskInv'
<1>1. /\ Manifested' = Manifested /\ FoundNew' = FoundNew
      /\ Registered("ADMIN_EARNINGS")' = Registered("ADMIN_EARNINGS")
  BY DEF Manifested, FoundNew, Registered
<1> QED BY <1>1 DEF DeskInv

LEMMA SourcesChangeHolds == ASSUME DeskInv, SourcesChange PROVE DeskInv'
<1>1. edits \in Nat /\ edits' = edits + 1 /\ UNCHANGED <<kind, manifests, check>>
  BY DEF DeskInv, SourcesChange
<1>2. DOMAIN drive' = DriveFiles
      /\ \A f \in DriveFiles : drive'[f] = None \/ drive'[f].time \in Nat
  <2>1. CASE UNCHANGED drive
    BY <2>1 DEF DeskInv
  <2>2. ASSUME NEW f \in DriveFiles, NEW s \in Shapes,
               drive' = [drive EXCEPT ![f] = [shape |-> s, time |-> edits + 1]]
        PROVE  DOMAIN drive' = DriveFiles
               /\ \A g \in DriveFiles : drive'[g] = None \/ drive'[g].time \in Nat
    <3>1. PICK v : v = [shape |-> s, time |-> edits + 1]
      OBVIOUS
    <3>2. v.time \in Nat
      BY <1>1, <3>1
    <3> QED BY <2>2, <3>1, <3>2 DEF DeskInv
  <2>3. ASSUME NEW f \in DriveFiles, drive' = [drive EXCEPT ![f] = None]
        PROVE  DOMAIN drive' = DriveFiles
               /\ \A g \in DriveFiles : drive'[g] = None \/ drive'[g].time \in Nat
    BY <2>3 DEF DeskInv
  <2> QED BY <2>1, <2>2, <2>3, Zenon DEF SourcesChange
<1> QED BY <1>1, <1>2, DeskKept

LEMMA DeskStep == DeskInv /\ [DiscoveryNext]_discoveryVars => DeskInv'
<1> SUFFICES ASSUME DeskInv, [DiscoveryNext]_discoveryVars PROVE DeskInv'
  OBVIOUS
<1>1. CASE UNCHANGED discoveryVars
  <2>1. UNCHANGED <<kind, manifests, check, edits, drive>>
    BY <1>1 DEF discoveryVars
  <2> QED BY <2>1, DeskKept DEF DeskInv
<1>2. ASSUME NEW c \in Checks, CheckStep(c) PROVE DeskInv'
  BY <1>2, CheckLocationsHolds, ListFolderHolds, ReadManifestHolds, WriteManifestHolds,
     FindMissingHolds, MarkMissingHolds, MarkInaccessibleHolds, AnswerHolds, ImportHolds,
     RecordIngestionHolds, EndsHolds DEF CheckStep
<1> QED BY <1>1, <1>2, SourcesChangeHolds DEF DiscoveryNext

LEMMA HeldIsReported == DeskInv => EveryVersionIsReported
<1> SUFFICES ASSUME DeskInv, NEW f \in DriveFiles, manifests[f] # None
             PROVE  \E c \in Checks : \E state \in {"NEW", "MODIFIED"} :
                       <<f, manifests[f].time, state>> \in check[c].reports
  BY DEF EveryVersionIsReported
<1>1. <<f, manifests[f].time>> \in FoundNew
  BY DEF DeskInv, Manifested
<1> QED BY <1>1 DEF FoundNew

LEMMA HeldIsSeen == DeskInv => ReadyMeansSeen
<1> SUFFICES ASSUME DeskInv, NEW c \in Checks, check[c].answer = "READY_FOR_INGESTION",
                    NEW f \in check[c].began
             PROVE  f \in DOMAIN check[c].listed /\ IsWeekly(check[c].listed[f])
  BY DEF ReadyMeansSeen
<1>1. CheckHolds(kind[c], check[c], Manifested, Registered("ADMIN_EARNINGS"), FoundNew)
  BY HeldBefore
<1> QED BY <1>1 DEF CheckHolds

\* The registry of manifests keeps its invariant in every behaviour of the sources.
THEOREM ManifestsInvariant == SourcesSpec => []DeskInv
<1>1. SourcesInit => DeskInv
  BY DeskInit DEF SourcesInit
<1>2. DeskInv /\ [SourcesNext]_<<vars, desk, discoveryVars>> => DeskInv'
  <2> SUFFICES ASSUME DeskInv, [SourcesNext]_<<vars, desk, discoveryVars>> PROVE DeskInv'
    OBVIOUS
  <2>1. DiscoveryNext \/ UNCHANGED discoveryVars
    BY DEF SourcesNext
  <2> QED BY <2>1, DeskStep
<1> QED BY <1>1, <1>2, PTL DEF SourcesSpec

\* No version enters the registry that no check found new or modified.
THEOREM VersionsAreReported == SourcesSpec => []EveryVersionIsReported
BY ManifestsInvariant, HeldIsReported, PTL

\* An answer READY_FOR_INGESTION leaves out no file the registry knew all along.
THEOREM ReadyIsComplete == SourcesSpec => []ReadyMeansSeen
BY ManifestsInvariant, HeldIsSeen, PTL

=============================================================================
