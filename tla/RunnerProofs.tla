---------------------------- MODULE RunnerProofs ----------------------------
(***************************************************************************)
(* What holds of the conformance runner for any plans, any probes, and any *)
(* number of audits and updates, however many of them are cut short.       *)
(***************************************************************************)
EXTENDS Runner, TLAPS

Note == [id : {e.id : e \in Entries}, status : {"run", "skipped"}]

RunNote(e) == [id |-> e.id, status |-> "run"]

Shape ==
  /\ raw = [b \in Bases |-> raw[b]]
  /\ stable = [b \in Bases |-> stable[b]]
  /\ got = [b \in Bases |-> got[b]]
  /\ manifest = [d \in Dir |-> manifest[d]]
  /\ manifests \in [Dir -> Seq(Note)]
  /\ wrote \in [Bases -> Nat]
  /\ listed \in [Dir -> Nat]
  /\ runs \in Nat /\ failures \in Nat /\ pos \in Nat \ {0}
  /\ cut \in SUBSET Nat
  /\ update \in BOOLEAN
  /\ at \in {"idle", "loop", "stable", "manifests"}
  /\ plan \in Plans \cup {<< >>}
  /\ at # "idle" => plan \in Plans /\ status = "none"
  /\ at = "stable" => pos <= Len(plan)
  /\ at = "manifests" => update

\* Between the two files of a probe: its result is the raw file, it is noted as run,
\* and an audit is only there because there was no baseline.
Between ==
  at = "stable" =>
    /\ raw[Base(entry)] = result /\ got[Base(entry)] = result
    /\ stable_view(result) # Absent
    /\ RunNote(entry) \in Range(manifests[entry.dir])
    /\ ~update => stable[Base(entry)] = Absent

\* An audit that is under way has left every baseline it found alone, and has counted
\* what it saw diverge; what it did not find it has filled in, or is about to.
Audited ==
  at # "idle" /\ ~update =>
    \A b \in Bases :
      /\ before[b] # Absent => stable[b] = before[b]
      /\ failures = 0 /\ got[b] # Absent =>
           \/ at = "stable" /\ Base(entry) = b
           \/ stable_view(got[b]) = stable[b]

\* CleanAuditAgreed, of every baseline.
Clean ==
  status = "0" /\ ~update =>
    \A b \in Bases :
      got[b] # Absent =>
        /\ stable_view(got[b]) = stable[b]
        /\ before[b] # Absent => stable[b] = before[b]

\* What holds in every state that is about one probe at a time.
AuditInv == Shape /\ Between /\ Audited /\ Clean

-----------------------------------------------------------------------------
IsNoted(e) == RunNote(e) \in Range(manifests[e.dir])

Listed(e) == manifest[e.dir] \notin {Absent, Torn} /\ RunNote(e) \in manifest[e.dir]

Dated ==
  /\ \A b \in Bases : wrote[b] <= runs
  /\ \A d \in Dir : listed[d] <= runs

\* What this run has noted as run has a baseline, in an update one of this run.
Noticed ==
  at # "idle" =>
    \A e \in Entries : IsNoted(e) =>
      \/ at = "stable" /\ Base(entry) = Base(e)
      \/ stable[Base(e)] # Absent /\ (update => wrote[Base(e)] = runs)

\* What an update has written is noted, and then in a manifest of this run.
Updated ==
  at # "idle" /\ update =>
    \A e \in Entries : wrote[Base(e)] = runs =>
      IsNoted(e) \/ (at = "manifests" /\ listed[e.dir] = runs)

\* What a manifest lists as run has a baseline, which an audit does not write.
Kept ==
  \A e \in Entries : Listed(e) =>
    /\ stable[Base(e)] # Absent
    /\ at # "idle" /\ ~update => wrote[Base(e)] # runs

\* The two parts of BaselinesTogether.
Manifested ==
  \A e \in Entries : Listed(e) =>
    \/ wrote[Base(e)] = listed[e.dir]
    \/ wrote[Base(e)] > listed[e.dir] /\ wrote[Base(e)] \in cut
    \/ at # "idle" /\ wrote[Base(e)] = runs

Paired ==
  \A b \in Bases : raw[b] # Absent =>
    \/ at = "stable" /\ Base(entry) = b
    \/ \E r \in cut : r >= wrote[b]
    \/ stable[b] = stable_view(raw[b])

FilesInv == Dated /\ Noticed /\ Updated /\ Kept /\ Manifested /\ Paired

-----------------------------------------------------------------------------
LEMMA RangeAppend ==
  ASSUME NEW S, NEW s \in Seq(S), NEW e \in S
  PROVE  Range(Append(s, e)) = Range(s) \cup {e}
<1> DEFINE t == Append(s, e)
<1>1. Len(s) \in Nat /\ DOMAIN s = 1 .. Len(s) /\ DOMAIN t = 1 .. Len(s) + 1
  OBVIOUS
<1>2. t[Len(s) + 1] = e /\ \A i \in 1 .. Len(s) : t[i] = s[i]
  OBVIOUS
<1> HIDE DEF t
<1>3. Range(t) \subseteq Range(s) \cup {e}
  <2>1. ASSUME NEW i \in DOMAIN t PROVE t[i] \in Range(s) \cup {e}
    <3>1. CASE i \in 1 .. Len(s)
      BY <1>1, <1>2, <3>1 DEF Range
    <3>2. CASE i = Len(s) + 1
      BY <1>2, <3>2
    <3> QED BY <1>1, <3>1, <3>2
  <2> QED BY <2>1 DEF Range
<1>4. Range(s) \subseteq Range(t) /\ e \in Range(t)
  BY <1>1, <1>2 DEF Range
<1> QED BY <1>3, <1>4 DEF t

\* A run that is at a probe is at an entry of its plan.
LEMMA EntryIn ==
  ASSUME Shape, at \in {"loop", "stable"}, pos <= Len(plan)
  PROVE  /\ entry \in Range(plan) /\ entry \in Entries
         /\ Base(entry) \in Bases /\ entry.dir \in Dir
<1>1. plan \in Plans /\ plan \in Seq(Range(plan)) /\ pos \in Nat \ {0}
  BY RunnerAssumption DEF Shape
<1>2. entry \in Range(plan)
  BY <1>1 DEF entry
<1>3. entry \in Entries
  BY <1>1, <1>2 DEF Entries
<1> QED BY <1>2, <1>3 DEF Bases, Dir

\* What has been printed is kept for one baseline.
LEMMA RanStep ==
  ASSUME Shape, NEW obj, Ran(obj)
  PROVE  /\ got' = [b \in Bases |-> got'[b]]
         /\ \A b \in Bases : b # Base(entry) => got'[b] = got[b]
         /\ DOMAIN obj # {"skipped"} => got'[Base(entry)] = obj
         /\ DOMAIN obj = {"skipped"} => got'[Base(entry)] = Absent
<1> DEFINE x == IF DOMAIN obj = {"skipped"} THEN Absent ELSE obj
<1>1. got' = [got EXCEPT ![Base(entry)] = x] /\ got = [b \in Bases |-> got[b]]
  BY DEF Ran, Shape
<1>2. Base(entry) \in Bases
  BY EntryIn DEF Ran, InLoop
<1> HIDE DEF x
<1>3. got' = [b \in Bases |-> got'[b]]
  BY <1>1
<1>4. got'[Base(entry)] = x /\ \A b \in Bases : b # Base(entry) => got'[b] = got[b]
  BY <1>1, <1>2
<1> QED BY <1>3, <1>4 DEF x

\* Noting something adds it to the notes of one directory.
LEMMA NotedStep ==
  ASSUME Shape, at = "loop", pos <= Len(plan), NEW what \in {"run", "skipped"}, Noted(what)
  PROVE  /\ manifests' \in [Dir -> Seq(Note)]
         /\ \A d \in Dir \ {entry.dir} : manifests'[d] = manifests[d]
         /\ Range(manifests'[entry.dir]) =
              Range(manifests[entry.dir]) \cup {[id |-> entry.id, status |-> what]}
<1> DEFINE n == [id |-> entry.id, status |-> what]
<1>1. entry \in Entries /\ entry.dir \in Dir
  BY EntryIn
<1>2. n \in Note
  BY <1>1 DEF Note
<1> HIDE DEF n
<1>3. manifests[entry.dir] \in Seq(Note)
  BY <1>1 DEF Shape
<1>4. manifests' = [manifests EXCEPT ![entry.dir] = Append(manifests[entry.dir], n)]
  BY DEF Noted, n
<1>5. Range(Append(manifests[entry.dir], n)) = Range(manifests[entry.dir]) \cup {n}
  BY <1>2, <1>3, RangeAppend
<1>6. manifests' \in [Dir -> Seq(Note)]
  <2>1. Append(manifests[entry.dir], n) \in Seq(Note)
    BY <1>2, <1>3
  <2> QED BY <1>4, <2>1 DEF Shape
<1>7. \A d \in Dir \ {entry.dir} : manifests'[d] = manifests[d]
  BY <1>1, <1>4 DEF Shape
<1>8. manifests'[entry.dir] = Append(manifests[entry.dir], n)
  BY <1>1, <1>4 DEF Shape
<1> QED BY <1>5, <1>6, <1>7, <1>8 DEF n

\* What one step of the runner may be; what a probe prints has a stable view.
LEMMA RunnerSteps ==
  ASSUME RunnerNext, NEW P,
         \A p \in Plans, u \in BOOLEAN : Start(p, u) => P,
         SkipUnset => P, Raise => P,
         \A out \in Output : \A i \in Objects(out) :
           stable_view(out[i]) # Absent =>
             /\ SkipByProbe(out[i]) => P
             /\ WriteRaw(out[i]) => P
             /\ Compare(out[i]) => P
             /\ CompareTorn(out[i]) => P,
         WriteStable => P, EndLoop => P, Report => P, Kill => P,
         \A d \in Dir : WriteManifest(d) => P
  PROVE  P
<1>1. \A out \in Output : \A i \in Objects(out) : stable_view(out[i]) # Absent
  BY RunnerAssumption DEF Objects
<1> QED BY <1>1 DEF RunnerNext, Probe

-----------------------------------------------------------------------------
LEMMA AuditInit == RunnerInit => AuditInv
<1> SUFFICES ASSUME RunnerInit PROVE AuditInv
  OBVIOUS
<1>1. Shape
  <2>1. manifests \in [Dir -> Seq(Note)]
    BY DEF RunnerInit
  <2>2. wrote \in [Bases -> Nat] /\ listed \in [Dir -> Nat]
    BY DEF RunnerInit
  <2>3. /\ raw = [b \in Bases |-> raw[b]] /\ stable = [b \in Bases |-> stable[b]]
        /\ got = [b \in Bases |-> got[b]] /\ manifest = [d \in Dir |-> manifest[d]]
    BY DEF RunnerInit
  <2>4. runs = 0 /\ failures = 0 /\ pos = 1 /\ cut = {} /\ ~update /\ at = "idle" /\ plan = << >>
    BY DEF RunnerInit
  <2>5. update \in BOOLEAN
    BY DEF RunnerInit
  <2> QED BY <2>1, <2>2, <2>3, <2>4, <2>5 DEF Shape
<1> QED BY <1>1 DEF RunnerInit, AuditInv, Between, Audited, Clean

LEMMA ShapeStep == ASSUME AuditInv, RunnerNext PROVE Shape'
<1> USE DEF files
<1>0. Shape
  BY DEF AuditInv
<1>1. ASSUME NEW p \in Plans, NEW u \in BOOLEAN, Start(p, u) PROVE Shape'
  BY <1>0, <1>1 DEF Start, Shape
<1>2. CASE SkipUnset
  <2>1. manifests' \in [Dir -> Seq(Note)]
    BY <1>0, <1>2, NotedStep DEF SkipUnset, InLoop
  <2> QED BY <1>0, <1>2, <2>1 DEF SkipUnset, InLoop, Shape, history
<1>3. CASE Raise
  BY <1>0, <1>3 DEF Raise, InLoop, Exit, Shape
<1>4. ASSUME NEW obj, SkipByProbe(obj) PROVE Shape'
  <2>1. manifests' \in [Dir -> Seq(Note)]
    BY <1>0, <1>4, NotedStep DEF SkipByProbe, Ran, InLoop
  <2>2. got' = [b \in Bases |-> got'[b]]
    BY <1>0, <1>4, RanStep DEF SkipByProbe
  <2> QED BY <1>0, <1>4, <2>1, <2>2 DEF SkipByProbe, Ran, InLoop, Shape
<1>5. ASSUME NEW obj, WriteRaw(obj) PROVE Shape'
  <2>1. manifests' \in [Dir -> Seq(Note)]
    BY <1>0, <1>5, NotedStep DEF WriteRaw, Ran, InLoop
  <2>2. got' = [b \in Bases |-> got'[b]]
    BY <1>0, <1>5, RanStep DEF WriteRaw
  <2> QED BY <1>0, <1>5, <2>1, <2>2 DEF WriteRaw, Ran, InLoop, Shape
<1>6. ASSUME NEW obj, Compare(obj) PROVE Shape'
  <2>1. manifests' \in [Dir -> Seq(Note)]
    BY <1>0, <1>6, NotedStep DEF Compare, Ran, InLoop
  <2>2. got' = [b \in Bases |-> got'[b]]
    BY <1>0, <1>6, RanStep DEF Compare
  <2> QED BY <1>0, <1>6, <2>1, <2>2 DEF Compare, Ran, InLoop, Shape
<1>7. ASSUME NEW obj, CompareTorn(obj) PROVE Shape'
  <2>1. manifests' \in [Dir -> Seq(Note)]
    BY <1>0, <1>7, NotedStep DEF CompareTorn, Ran, InLoop
  <2>2. got' = [b \in Bases |-> got'[b]]
    BY <1>0, <1>7, RanStep DEF CompareTorn
  <2> QED BY <1>0, <1>7, <2>1, <2>2 DEF CompareTorn, Ran, InLoop, Exit, Shape
<1>8. CASE WriteStable
  <2>1. wrote' \in [Bases -> Nat]
    BY <1>0, <1>8 DEF WriteStable, Shape
  <2>2. stable' = [b \in Bases |-> stable'[b]]
    BY <1>0, <1>8 DEF WriteStable, Shape
  <2> QED BY <1>0, <1>8, <2>1, <2>2 DEF WriteStable, Shape
<1>9. CASE EndLoop
  BY <1>0, <1>9 DEF EndLoop, Shape, history
<1>10. CASE Report
  BY <1>0, <1>10 DEF Report, Exit, Shape
<1>11. CASE Kill
  BY <1>0, <1>11 DEF Kill, TearRaw, TearStable, TearManifest, InLoop, Exit, Shape
<1>12. ASSUME NEW d \in Dir, WriteManifest(d) PROVE Shape'
  <2>1. << >> \in Seq(Note)
    OBVIOUS
  <2> QED BY <1>0, <1>12, <2>1 DEF WriteManifest, Shape
<1> QED BY <1>1, <1>2, <1>3, <1>4, <1>5, <1>6, <1>7, <1>8, <1>9, <1>10, <1>11, <1>12, RunnerSteps

LEMMA BetweenStep == ASSUME AuditInv, RunnerNext PROVE Between'
<1> USE DEF files
<1>0. Shape /\ Between
  BY DEF AuditInv
<1>1. ASSUME at' # "stable" PROVE Between'
  BY <1>1 DEF Between
<1>2. ASSUME NEW obj, stable_view(obj) # Absent, WriteRaw(obj) PROVE Between'
  <2>1. Base(entry) \in Bases /\ entry' = entry
    BY <1>0, <1>2, EntryIn DEF WriteRaw, Ran, InLoop, entry
  <2>2. RunNote(entry) \in Range(manifests'[entry.dir])
    BY <1>0, <1>2, NotedStep DEF WriteRaw, Ran, InLoop, RunNote
  <2>3. raw'[Base(entry)] = obj /\ result' = obj /\ got'[Base(entry)] = obj
    BY <1>0, <1>2, <2>1, RanStep DEF WriteRaw, Ran, Shape
  <2>4. ~update' => stable'[Base(entry)] = Absent
    BY <1>2 DEF WriteRaw, Overwrites
  <2> QED BY <1>2, <2>1, <2>2, <2>3, <2>4 DEF Between, RunNote, Base, Range
<1>3. ASSUME NEW p \in Plans, NEW u \in BOOLEAN, Start(p, u) PROVE at' # "stable"
  BY <1>3 DEF Start
<1>4. ASSUME SkipUnset \/ Raise \/ WriteStable \/ EndLoop \/ Report \/ Kill PROVE at' # "stable"
  BY <1>4 DEF SkipUnset, Raise, WriteStable, EndLoop, Report, Kill, Exit, InLoop
<1>5. ASSUME NEW obj, SkipByProbe(obj) \/ Compare(obj) \/ CompareTorn(obj) PROVE at' # "stable"
  BY <1>5 DEF SkipByProbe, Compare, CompareTorn, Exit, Ran, InLoop
<1>6. ASSUME NEW d \in Dir, WriteManifest(d) PROVE at' # "stable"
  BY <1>6 DEF WriteManifest
<1> QED BY <1>1, <1>2, <1>3, <1>4, <1>5, <1>6, RunnerSteps

LEMMA AuditedStep == ASSUME AuditInv, RunnerNext PROVE Audited'
<1> USE DEF files
<1>0. Shape /\ Between /\ Audited
  BY DEF AuditInv
<1>1. ASSUME at' = "idle" PROVE Audited'
  BY <1>1 DEF Audited
<1>2. ASSUME UNCHANGED << stable, update, before, got, failures >>, at \notin {"idle", "stable"}
      PROVE  Audited'
  BY <1>0, <1>2 DEF Audited, stable_view
<1>3. ASSUME NEW p \in Plans, NEW u \in BOOLEAN, Start(p, u) PROVE Audited'
  BY <1>0, <1>3 DEF Start, Audited
<1>4. ASSUME SkipUnset \/ EndLoop PROVE Audited'
  BY <1>2, <1>4 DEF SkipUnset, EndLoop, InLoop, history
<1>5. ASSUME Raise \/ Report \/ Kill PROVE Audited'
  BY <1>1, <1>5 DEF Raise, Report, Kill, Exit
<1>6. ASSUME NEW d \in Dir, WriteManifest(d) PROVE Audited'
  BY <1>2, <1>6 DEF WriteManifest
<1>7. ASSUME NEW obj, SkipByProbe(obj) PROVE Audited'
  <2>1. /\ at = "loop" /\ UNCHANGED << stable, update, before, failures >>
        /\ \A b \in Bases : got'[b] = got[b] \/ got'[b] = Absent
    BY <1>0, <1>7, RanStep DEF SkipByProbe, Ran, InLoop
  <2> QED BY <1>0, <2>1 DEF Audited, stable_view
<1>8. ASSUME NEW obj, WriteRaw(obj) PROVE Audited'
  <2>1. /\ at = "loop" /\ at' = "stable" /\ entry' = entry
        /\ UNCHANGED << stable, update, before, failures >>
        /\ \A b \in Bases : b # Base(entry) => got'[b] = got[b]
        /\ ~update => stable[Base(entry)] = Absent
    BY <1>0, <1>8, RanStep DEF WriteRaw, Ran, InLoop, Overwrites, entry
  <2>2. Base(entry) \in Bases /\ (~update => before[Base(entry)] = Absent)
    BY <1>0, <1>8, <2>1, EntryIn DEF WriteRaw, Ran, InLoop, Audited
  <2> QED BY <1>0, <2>1, <2>2 DEF Audited, stable_view, Base
<1>9. ASSUME NEW obj, Compare(obj) PROVE Audited'
  <2>1. /\ at = "loop" /\ UNCHANGED << stable, update, before >>
        /\ \A b \in Bases : b # Base(entry) => got'[b] = got[b]
        /\ got'[Base(entry)] = obj
        /\ failures' = IF stable_view(obj) = stable[Base(entry)] THEN failures ELSE failures + 1
        /\ failures \in Nat
    BY <1>0, <1>9, RanStep DEF Compare, Ran, InLoop, Shape
  <2>2. failures' = 0 => failures = 0 /\ stable_view(obj) = stable[Base(entry)]
    BY <2>1
  <2> QED BY <1>0, <2>1, <2>2 DEF Audited, stable_view
<1>10. ASSUME NEW obj, CompareTorn(obj) PROVE Audited'
  BY <1>1, <1>10 DEF CompareTorn, Exit
<1>11. CASE WriteStable
  <2>1. /\ at = "stable" /\ UNCHANGED << update, before, got, failures >>
        /\ \A b \in Bases : b # Base(entry) => stable'[b] = stable[b]
        /\ stable'[Base(entry)] = stable_view(got[Base(entry)])
        /\ ~update => stable[Base(entry)] = Absent
    <3>1. Base(entry) \in Bases
      BY <1>0, <1>11, EntryIn DEF WriteStable, Shape
    <3> QED BY <1>0, <1>11, <3>1 DEF WriteStable, Shape, Between
  <2>2. ~update => before[Base(entry)] = Absent
    BY <1>0, <1>11, <2>1, EntryIn DEF WriteStable, Audited, Shape
  <2> QED BY <1>0, <2>1, <2>2 DEF Audited, stable_view
<1> QED BY <1>3, <1>4, <1>5, <1>6, <1>7, <1>8, <1>9, <1>10, <1>11, RunnerSteps

LEMMA CleanStep == ASSUME AuditInv, RunnerNext PROVE Clean'
<1> USE DEF files
<1>0. Shape /\ Audited /\ Clean
  BY DEF AuditInv
<1>1. ASSUME status' # "0" PROVE Clean'
  BY <1>1 DEF Clean
<1>2. CASE Report
  <2>1. status' = "0" => failures = 0 /\ at \notin {"idle", "stable"}
    BY <1>0, <1>2 DEF Report, Exit, Shape
  <2> QED BY <1>0, <1>2, <2>1 DEF Report, Clean, Audited, stable_view
<1>3. ASSUME NEW p \in Plans, NEW u \in BOOLEAN, Start(p, u) PROVE status' # "0"
  BY <1>3 DEF Start
<1>4. ASSUME SkipUnset \/ WriteStable \/ EndLoop PROVE status' # "0"
  BY <1>0, <1>4 DEF SkipUnset, WriteStable, EndLoop, InLoop, Shape
<1>5. ASSUME Raise \/ Kill PROVE status' # "0"
  BY <1>5 DEF Raise, Kill, Exit
<1>6. ASSUME NEW d \in Dir, WriteManifest(d) PROVE status' # "0"
  BY <1>0, <1>6 DEF WriteManifest, Shape
<1>7. ASSUME NEW obj, SkipByProbe(obj) \/ WriteRaw(obj) \/ Compare(obj) \/ CompareTorn(obj)
      PROVE  status' # "0"
  BY <1>0, <1>7 DEF SkipByProbe, WriteRaw, Compare, CompareTorn, Exit, Ran, InLoop, Shape
<1> QED BY <1>1, <1>2, <1>3, <1>4, <1>5, <1>6, <1>7, RunnerSteps

LEMMA AuditInvStep == AuditInv /\ [RunnerNext]_runnerVars => AuditInv'
<1>1. ASSUME AuditInv, RunnerNext PROVE AuditInv'
  BY <1>1, ShapeStep, BetweenStep, AuditedStep, CleanStep DEF AuditInv
<1>2. ASSUME AuditInv, UNCHANGED runnerVars PROVE AuditInv'
  BY <1>2 DEF AuditInv, runnerVars, files, locals, history, Shape, Between, Audited, Clean,
              entry
<1> QED BY <1>1, <1>2

-----------------------------------------------------------------------------
\* Who is noted as run after something was noted.
LEMMA NotedRun ==
  ASSUME Shape, at = "loop", pos <= Len(plan), NEW what \in {"run", "skipped"}, Noted(what),
         NEW e \in Entries
  PROVE  IsNoted(e)' <=> IsNoted(e) \/ (what = "run" /\ Base(e) = Base(entry))
<1>1. e.dir \in Dir /\ entry.dir \in Dir
  BY EntryIn DEF Dir
<1>2. CASE e.dir # entry.dir
  BY <1>1, <1>2, NotedStep DEF IsNoted, RunNote, Range, Base
<1>3. CASE e.dir = entry.dir
  <2>1. Range(manifests'[e.dir]) = Range(manifests[e.dir]) \cup {[id |-> entry.id, status |-> what]}
    BY <1>3, NotedStep
  <2>2. RunNote(e) = [id |-> entry.id, status |-> what] <=> what = "run" /\ e.id = entry.id
    BY DEF RunNote
  <2>3. IsNoted(e)' <=> RunNote(e) \in Range(manifests'[e.dir])
    BY DEF IsNoted, RunNote, Range
  <2> QED BY <1>3, <2>1, <2>2, <2>3 DEF IsNoted, Base
<1> QED BY <1>2, <1>3

LEMMA SameBase ==
  ASSUME NEW e, NEW f, Base(e) = Base(f) PROVE e.dir = f.dir /\ e.id = f.id
  BY DEF Base

LEMMA EntryBase == ASSUME NEW e \in Entries PROVE Base(e) \in Bases /\ e.dir \in Dir
  BY DEF Bases, Dir

-----------------------------------------------------------------------------
\* AUDIT CLEAN means what it prints, for any plans, probes and history of the
\* working tree: every probe that ran printed the stable fields of its baseline,
\* and a baseline that was there when the audit started is untouched.
THEOREM CleanAuditAgreedHolds == RunnerSpec => []CleanAuditAgreed
<1>1. AuditInv => CleanAuditAgreed
  <2>1. ASSUME AuditInv, status = "0", ~update, NEW e \in Range(plan)
        PROVE  Base(e) \in Bases
    <3>1. plan \in Plans
      BY <2>1 DEF AuditInv, Shape, Range
    <3> QED BY <2>1, <3>1 DEF Entries, Bases
  <2> QED BY <2>1 DEF AuditInv, Clean, CleanAuditAgreed
<1> QED BY <1>1, AuditInit, AuditInvStep, PTL DEF RunnerSpec

-----------------------------------------------------------------------------
LEMMA FilesInit == RunnerInit => FilesInv
<1> SUFFICES ASSUME RunnerInit PROVE FilesInv
  OBVIOUS
<1>1. ASSUME NEW e \in Entries PROVE ~Listed(e)
  BY EntryBase DEF RunnerInit, Listed
<1>2. /\ at = "idle" /\ runs = 0 /\ \A b \in Bases : raw[b] = Absent /\ wrote[b] = 0
      /\ \A d \in Dir : listed[d] = 0
  BY DEF RunnerInit
<1> QED BY <1>1, <1>2 DEF FilesInv, Dated, Noticed, Updated, Kept, Manifested, Paired

\* A step that notes no probe as run, and touches no file.
LEMMA FilesQuiet ==
  ASSUME Shape, FilesInv, at = "loop", at' \in {"loop", "manifests"},
         UNCHANGED << raw, stable, manifest, update, runs, wrote, listed, cut >>,
         \A e \in Entries : IsNoted(e)' <=> IsNoted(e)
  PROVE  FilesInv'
<1>1. \A e \in Entries : Listed(e)' <=> Listed(e)
  BY DEF Listed, RunNote
<1>2. Dated' /\ Noticed' /\ Updated'
  BY DEF FilesInv, Dated, Noticed, Updated, Base
<1>3. Kept' /\ Manifested'
  BY <1>1 DEF FilesInv, Kept, Manifested, Base
<1>4. Paired'
  BY DEF FilesInv, Paired, stable_view
<1> QED BY <1>2, <1>3, <1>4 DEF FilesInv

\* A run that ends, and leaves the files as they are: either it was cut short,
\* or it has written every manifest it owed.
LEMMA FilesExit ==
  ASSUME Shape, FilesInv, at # "idle", at # "stable", at' = "idle",
         UNCHANGED << raw, stable, manifest, runs, wrote, listed >>,
         cut' = cut \cup {runs} \/
         (/\ cut' = cut
          /\ \A e \in Entries : Listed(e) /\ wrote[Base(e)] = runs => listed[e.dir] = runs)
  PROVE  FilesInv'
<1>1. \A e \in Entries : Listed(e)' <=> Listed(e)
  BY DEF Listed, RunNote
<1>2. Dated' /\ Noticed' /\ Updated'
  BY DEF FilesInv, Dated, Noticed, Updated
<1>3. Kept'
  BY <1>1 DEF FilesInv, Kept, Base
<1>4. Manifested'
  <2>1. \A e \in Entries : listed[e.dir] \in Nat /\ listed[e.dir] <= runs /\ runs \in Nat
    BY EntryBase DEF FilesInv, Dated, Shape
  <2> QED BY <1>1, <2>1 DEF FilesInv, Manifested, Base
<1>5. Paired'
  BY DEF FilesInv, Paired, stable_view
<1> QED BY <1>2, <1>3, <1>4, <1>5 DEF FilesInv

LEMMA FilesStart ==
  ASSUME Shape, FilesInv, NEW p \in Plans, NEW u \in BOOLEAN, Start(p, u) PROVE FilesInv'
<1> USE DEF files
<1>1. /\ at = "idle" /\ at' \in {"idle", "loop"} /\ runs \in Nat /\ runs' = runs + 1
      /\ UNCHANGED << raw, stable, manifest, wrote, listed, cut >>
      /\ manifests' = [d \in Dir |-> << >>]
      /\ wrote \in [Bases -> Nat] /\ listed \in [Dir -> Nat]
  BY DEF Start, Shape
<1>2. /\ \A b \in Bases : wrote[b] < runs'
      /\ \A d \in Dir : listed[d] <= runs'
  BY <1>1 DEF FilesInv, Dated
<1>3. \A e \in Entries : ~IsNoted(e)' /\ (Listed(e)' <=> Listed(e)) /\ Base(e) \in Bases
  BY <1>1, EntryBase DEF IsNoted, Range, Listed, RunNote
<1>4. Dated' /\ Noticed' /\ Updated'
  BY <1>1, <1>2, <1>3 DEF Dated, Noticed, Updated, Base
<1>5. Kept' /\ Manifested'
  BY <1>1, <1>2, <1>3 DEF FilesInv, Kept, Manifested, Base
<1>6. Paired'
  BY <1>1 DEF FilesInv, Paired, stable_view
<1> QED BY <1>4, <1>5, <1>6 DEF FilesInv

LEMMA FilesWriteRaw ==
  ASSUME Shape, FilesInv, NEW obj, WriteRaw(obj) PROVE FilesInv'
<1>1. /\ at = "loop" /\ at' = "stable" /\ pos <= Len(plan) /\ Noted("run")
      /\ UNCHANGED << stable, manifest, plan, pos, update, runs, wrote, listed, cut >>
  BY DEF WriteRaw, Ran, InLoop
<1>2. Base(entry) \in Bases /\ Base(entry)' = Base(entry)
  BY <1>1, EntryIn DEF entry, Base
<1>3. \A e \in Entries : IsNoted(e)' <=> IsNoted(e) \/ Base(e) = Base(entry)
  BY <1>1, NotedRun
<1>4. \A e \in Entries : (Listed(e)' <=> Listed(e)) /\ Base(e)' = Base(e)
  BY <1>1 DEF Listed, RunNote, Base
<1>5. Dated' /\ Noticed' /\ Updated'
  BY <1>1, <1>2, <1>3, <1>4 DEF FilesInv, Dated, Noticed, Updated
<1>6. Kept' /\ Manifested'
  BY <1>1, <1>4 DEF FilesInv, Kept, Manifested
<1>7. Paired'
  <2>1. \A b \in Bases : b # Base(entry) => raw'[b] = raw[b]
    BY <1>2 DEF WriteRaw, Shape
  <2> QED BY <1>1, <1>2, <2>1 DEF FilesInv, Paired, stable_view
<1> QED BY <1>5, <1>6, <1>7 DEF FilesInv

LEMMA FilesCompare ==
  ASSUME Shape, FilesInv, NEW obj, Compare(obj) PROVE FilesInv'
<1> USE DEF files
<1>1. /\ at = "loop" /\ at' = "loop" /\ pos <= Len(plan) /\ Noted("run")
      /\ ~update /\ stable[Base(entry)] # Absent
      /\ UNCHANGED << raw, stable, manifest, update, runs, wrote, listed, cut >>
  BY DEF Compare, Ran, InLoop, Overwrites
<1>2. \A e \in Entries : IsNoted(e)' <=> IsNoted(e) \/ Base(e) = Base(entry)
  BY <1>1, NotedRun
<1>3. \A e \in Entries : (Listed(e)' <=> Listed(e)) /\ Base(e)' = Base(e)
  BY <1>1 DEF Listed, RunNote, Base
<1>4. Dated' /\ Noticed' /\ Updated'
  BY <1>1, <1>2, <1>3 DEF FilesInv, Dated, Noticed, Updated
<1>5. Kept' /\ Manifested'
  BY <1>1, <1>3 DEF FilesInv, Kept, Manifested
<1>6. Paired'
  BY <1>1 DEF FilesInv, Paired, stable_view
<1> QED BY <1>4, <1>5, <1>6 DEF FilesInv

LEMMA FilesWriteStable ==
  ASSUME Shape, Between, FilesInv, WriteStable PROVE FilesInv'
<1> DEFINE b0 == Base(entry)
<1>1. /\ at = "stable" /\ at' = "loop" /\ pos <= Len(plan)
      /\ UNCHANGED << raw, manifest, manifests, update, runs, listed, cut >>
      /\ raw[b0] = result /\ stable_view(result) # Absent /\ (~update => stable[b0] = Absent)
      /\ RunNote(entry) \in Range(manifests[entry.dir])
  BY DEF WriteStable, Shape, Between
<1>2. b0 \in Bases
  BY <1>1, EntryIn
<1>3. /\ stable'[b0] = stable_view(result) /\ wrote'[b0] = runs
      /\ \A b \in Bases : b # b0 => stable'[b] = stable[b] /\ wrote'[b] = wrote[b]
  BY <1>2 DEF WriteStable, Shape
<1>4. \A e \in Entries : /\ IsNoted(e)' <=> IsNoted(e)
                         /\ Listed(e)' <=> Listed(e)
                         /\ Base(e)' = Base(e) /\ Base(e) \in Bases
  BY <1>1, EntryBase DEF IsNoted, Listed, RunNote, Range, Base
<1>5. \A e \in Entries : Base(e) = b0 => IsNoted(e)
  BY <1>1 DEF IsNoted, RunNote, Base
<1> HIDE DEF b0
<1>6. Dated'
  <2>1. /\ runs \in Nat /\ \A b \in Bases : wrote[b] <= runs
        /\ \A d \in Dir : listed[d] <= runs
    BY DEF FilesInv, Dated, Shape
  <2>2. \A b \in Bases : wrote'[b] <= runs
    BY <1>3, <2>1
  <2> QED BY <1>1, <2>1, <2>2 DEF Dated
<1>7. Noticed' /\ Updated'
  BY <1>1, <1>2, <1>3, <1>4, <1>5 DEF FilesInv, Noticed, Updated, b0
<1>8. Kept'
  BY <1>1, <1>2, <1>3, <1>4 DEF FilesInv, Kept
<1>9. Manifested'
  BY <1>1, <1>2, <1>3, <1>4 DEF FilesInv, Manifested
<1>10. Paired'
  BY <1>1, <1>2, <1>3 DEF FilesInv, Paired, stable_view, b0
<1> QED BY <1>6, <1>7, <1>8, <1>9, <1>10 DEF FilesInv

LEMMA FilesWriteManifest ==
  ASSUME Shape, FilesInv, NEW d \in Dir, WriteManifest(d) PROVE FilesInv'
<1>1. /\ at = "manifests" /\ at' = "manifests" /\ update /\ update'
      /\ UNCHANGED << raw, stable, runs, wrote, cut >>
      /\ \A c \in Dir : manifests'[c] = IF c = d THEN << >> ELSE manifests[c]
  BY DEF WriteManifest, Shape
<1>2. \A e \in Entries : e.dir \in Dir /\ Base(e)' = Base(e) /\ Base(e) \in Bases
  BY EntryBase DEF Base
<1>3. \A e \in Entries : IsNoted(e)' <=> IsNoted(e) /\ e.dir # d
  BY <1>1, <1>2 DEF IsNoted, RunNote, Range
<1>4. \A e \in Entries : \/ /\ UNCHANGED << listed[e.dir], manifest[e.dir] >>
                            /\ e.dir = d => ~IsNoted(e)
                         \/ /\ e.dir = d
                            /\ manifest'[d] = Range(manifests[d])
                            /\ listed'[d] = runs
  <2>1. CASE Preserves(d)
    BY <1>2, <2>1 DEF WriteManifest, Preserves, IsNoted, RunNote
  <2>2. CASE ~Preserves(d)
    BY <1>2, <2>2 DEF WriteManifest, Shape
  <2> QED BY <2>1, <2>2
<1>5. \A e \in Entries : Listed(e)' =>
        \/ Listed(e) /\ UNCHANGED listed[e.dir]
        \/ IsNoted(e) /\ listed'[e.dir] = runs
  BY <1>4 DEF Listed, IsNoted, RunNote
<1>6. \A e \in Entries : IsNoted(e) => stable[Base(e)] # Absent /\ wrote[Base(e)] = runs
  BY <1>1 DEF FilesInv, Noticed
<1>7. Dated' /\ Noticed'
  <2>1. \A c \in Dir : listed'[c] = listed[c] \/ listed'[c] = runs
    BY DEF WriteManifest, Shape
  <2>2. Dated'
    <3>1. runs \in Nat /\ \A c \in Dir : listed[c] <= runs
      BY DEF FilesInv, Dated, Shape
    <3>2. \A c \in Dir : listed'[c] <= runs
      BY <2>1, <3>1
    <3> QED BY <1>1, <3>2 DEF FilesInv, Dated
  <2> QED BY <1>1, <1>2, <1>3, <1>6, <2>2 DEF FilesInv, Noticed
<1>8. Updated'
  BY <1>1, <1>2, <1>3, <1>4 DEF FilesInv, Updated
<1>9. Kept' /\ Manifested'
  BY <1>1, <1>2, <1>5, <1>6 DEF FilesInv, Kept, Manifested
<1>10. Paired'
  BY <1>1 DEF FilesInv, Paired, stable_view
<1> QED BY <1>7, <1>8, <1>9, <1>10 DEF FilesInv

LEMMA FilesReport ==
  ASSUME Shape, FilesInv, Report PROVE FilesInv'
<1> USE DEF files
<1>1. /\ at # "idle" /\ at # "stable" /\ at' = "idle" /\ cut' = cut
      /\ UNCHANGED << raw, stable, manifest, runs, wrote, listed >>
      /\ update => \A d \in Dir : manifests[d] = << >>
  BY DEF Report, Exit
<1>2. ASSUME NEW e \in Entries, Listed(e), wrote[Base(e)] = runs PROVE listed[e.dir] = runs
  <2>1. update
    BY <1>1, <1>2 DEF FilesInv, Kept
  <2>2. ~IsNoted(e)
    BY <1>1, <2>1, EntryBase DEF IsNoted, Range
  <2> QED BY <1>1, <1>2, <2>1, <2>2 DEF FilesInv, Updated
<1> QED BY <1>1, <1>2, FilesExit

\* The run was cut in the middle of a raw file or a manifest, which nothing is
\* claimed of any more.
LEMMA FilesTear ==
  ASSUME Shape, FilesInv, at # "idle", at # "stable", at' = "idle", cut' = cut \cup {runs},
         UNCHANGED << stable, runs, wrote, listed >>,
         \A e \in Entries : Listed(e)' => Listed(e)
  PROVE  FilesInv'
<1>1. Dated' /\ Noticed' /\ Updated'
  BY DEF FilesInv, Dated, Noticed, Updated
<1>2. Kept'
  BY DEF FilesInv, Kept, Base
<1>3. Manifested'
  <2>1. \A e \in Entries : listed[e.dir] \in Nat /\ listed[e.dir] <= runs /\ runs \in Nat
    BY EntryBase DEF FilesInv, Dated, Shape
  <2> QED BY <2>1 DEF FilesInv, Manifested, Base
<1>4. Paired'
  <2>1. runs \in cut' /\ \A b \in Bases : runs >= wrote'[b]
    BY DEF FilesInv, Dated, Shape
  <2> QED BY <2>1 DEF Paired
<1> QED BY <1>1, <1>2, <1>3, <1>4 DEF FilesInv

LEMMA FilesKill ==
  ASSUME Shape, Between, FilesInv, Kill PROVE FilesInv'
<1> USE DEF files
<1>0. at # "idle" /\ at' = "idle" /\ cut' = cut \cup {runs} /\ UNCHANGED << runs, listed >>
  BY DEF Kill, Exit
<1>1. CASE at = "stable" /\ (TearStable \/ UNCHANGED << files, wrote >>)
  <2> DEFINE b0 == Base(entry)
  <2>1. UNCHANGED << raw, manifest >>
    BY <1>1 DEF TearStable
  <2>2. b0 \in Bases
    BY <1>1, EntryIn DEF Shape
  <2>3. /\ \/ UNCHANGED << stable, wrote >>
           \/ stable'[b0] = Torn /\ wrote'[b0] = runs
        /\ \A b \in Bases : b # b0 => stable'[b] = stable[b] /\ wrote'[b] = wrote[b]
    BY <1>1, <2>2 DEF TearStable, Shape
  <2>4. \A e \in Entries : (Listed(e)' <=> Listed(e)) /\ Base(e)' = Base(e) /\ Base(e) \in Bases
    BY <2>1, EntryBase DEF Listed, RunNote, Base
  <2>5. runs \in Nat /\ wrote \in [Bases -> Nat] /\ Torn # Absent
    BY RunnerAssumption DEF Shape
  <2> HIDE DEF b0
  <2>6. Dated' /\ Noticed' /\ Updated'
    BY <1>0, <2>2, <2>3, <2>5 DEF FilesInv, Dated, Noticed, Updated
  <2>7. Kept'
    BY <1>0, <2>2, <2>3, <2>4, <2>5 DEF FilesInv, Kept
  <2>8. Manifested'
    <3>1. \A e \in Entries : listed[e.dir] \in Nat /\ listed[e.dir] <= runs
      BY EntryBase DEF FilesInv, Dated, Shape
    <3> QED BY <1>0, <2>2, <2>3, <2>4, <2>5, <3>1 DEF FilesInv, Manifested
  <2>9. Paired'
    <3>1. ASSUME NEW b \in Bases, raw'[b] # Absent, b # b0
          PROVE  (\E r \in cut' : r >= wrote'[b]) \/ stable'[b] = stable_view(raw'[b])
      BY <1>0, <2>1, <2>3, <3>1 DEF FilesInv, Paired, b0
    <3>2. \E r \in cut' : r >= wrote'[b0]
      BY <1>0, <2>2, <2>5, <2>6 DEF Dated
    <3> QED BY <3>1, <3>2 DEF Paired, stable_view
  <2> QED BY <2>6, <2>7, <2>8, <2>9 DEF FilesInv
<1>2. CASE at # "stable" /\ UNCHANGED << files, wrote >>
  BY <1>0, <1>2, FilesExit
<1>3. CASE TearRaw
  <2>1. at = "loop" /\ UNCHANGED << stable, manifest, wrote >>
    BY <1>3 DEF TearRaw, InLoop
  <2>2. \A e \in Entries : Listed(e)' <=> Listed(e)
    BY <2>1 DEF Listed, RunNote
  <2> QED BY <1>0, <2>1, <2>2, FilesTear
<1>4. ASSUME NEW d \in Dir, TearManifest(d) PROVE FilesInv'
  <2>1. at = "manifests" /\ UNCHANGED << stable, wrote >>
    BY <1>4 DEF TearManifest
  <2>2. \A c \in Dir : manifest'[c] = IF c = d THEN Torn ELSE manifest[c]
    BY <1>4 DEF TearManifest, Shape
  <2>3. \A e \in Entries : Listed(e)' => Listed(e)
    BY <2>2, EntryBase DEF Listed, RunNote
  <2> QED BY <1>0, <2>1, <2>3, FilesTear
<1> QED BY <1>1, <1>2, <1>3, <1>4 DEF Kill, TearStable

LEMMA FilesStep == ASSUME AuditInv, FilesInv, RunnerNext PROVE FilesInv'
<1> USE DEF files
<1>0. Shape /\ Between
  BY DEF AuditInv
<1>1. ASSUME NEW p \in Plans, NEW u \in BOOLEAN, Start(p, u) PROVE FilesInv'
  BY <1>0, <1>1, FilesStart
<1>2. CASE SkipUnset
  <2>1. /\ at = "loop" /\ at' = "loop" /\ pos <= Len(plan) /\ Noted("skipped")
        /\ UNCHANGED << raw, stable, manifest, update, runs, wrote, listed, cut >>
    BY <1>2 DEF SkipUnset, InLoop, history
  <2>2. \A e \in Entries : IsNoted(e)' <=> IsNoted(e)
    BY <1>0, <2>1, NotedRun
  <2> QED BY <1>0, <2>1, <2>2, FilesQuiet
<1>3. CASE Raise
  <2>1. /\ at = "loop" /\ at' = "idle" /\ cut' = cut \cup {runs}
        /\ UNCHANGED << raw, stable, manifest, runs, wrote, listed >>
    BY <1>3 DEF Raise, InLoop, Exit
  <2> QED BY <1>0, <2>1, FilesExit
<1>4. ASSUME NEW obj, SkipByProbe(obj) PROVE FilesInv'
  <2>1. /\ at = "loop" /\ at' = "loop" /\ pos <= Len(plan) /\ Noted("skipped")
        /\ UNCHANGED << raw, stable, manifest, update, runs, wrote, listed, cut >>
    BY <1>4 DEF SkipByProbe, Ran, InLoop
  <2>2. \A e \in Entries : IsNoted(e)' <=> IsNoted(e)
    BY <1>0, <2>1, NotedRun
  <2> QED BY <1>0, <2>1, <2>2, FilesQuiet
<1>5. ASSUME NEW obj, CompareTorn(obj) PROVE FilesInv'
  <2>1. /\ at = "loop" /\ at' = "idle" /\ cut' = cut \cup {runs}
        /\ UNCHANGED << raw, stable, manifest, runs, wrote, listed >>
    BY <1>5 DEF CompareTorn, Ran, InLoop, Exit
  <2> QED BY <1>0, <2>1, FilesExit
<1>6. CASE EndLoop
  <2>1. /\ at = "loop" /\ at' = "manifests"
        /\ UNCHANGED << raw, stable, manifest, manifests, update, runs, wrote, listed, cut >>
    BY <1>6 DEF EndLoop, history
  <2>2. \A e \in Entries : IsNoted(e)' <=> IsNoted(e)
    BY <2>1 DEF IsNoted, RunNote, Range
  <2> QED BY <1>0, <2>1, <2>2, FilesQuiet
<1>7. ASSUME NEW d \in Dir, WriteManifest(d) PROVE FilesInv'
  BY <1>0, <1>7, FilesWriteManifest
<1>8. ASSUME NEW obj, WriteRaw(obj) \/ Compare(obj) PROVE FilesInv'
  BY <1>0, <1>8, FilesWriteRaw, FilesCompare
<1>9. ASSUME WriteStable \/ Report \/ Kill PROVE FilesInv'
  BY <1>0, <1>9, FilesWriteStable, FilesReport, FilesKill
<1> QED BY <1>1, <1>2, <1>3, <1>4, <1>5, <1>6, <1>7, <1>8, <1>9, RunnerSteps

\* A manifest lists as run the probes whose baselines are of the run that wrote
\* it, and the two files of a baseline agree, for any plans and any history of
\* audits and updates: only a run that raised or was killed leaves newer ones,
\* and the next manifest lists none of them.
THEOREM BaselinesTogetherHolds == RunnerSpec => []BaselinesTogether
<1> DEFINE I == AuditInv /\ FilesInv
<1>1. RunnerInit => I
  BY AuditInit, FilesInit
<1>2. ASSUME I, [RunnerNext]_runnerVars PROVE I'
  <2>1. CASE RunnerNext
    BY <1>2, <2>1, AuditInvStep, FilesStep
  <2>2. CASE UNCHANGED runnerVars
    BY <1>2, <2>2, AuditInvStep
       DEF runnerVars, files, locals, history, FilesInv, Dated, Noticed, Updated, Kept,
           Manifested, Paired, IsNoted, Listed, RunNote, Base, entry, Range, stable_view
  <2> QED BY <1>2, <2>1, <2>2
<1>3. I => BaselinesTogether
  BY DEF FilesInv, Manifested, Paired, Listed, RunNote, BaselinesTogether
<1> QED BY <1>1, <1>2, <1>3, PTL DEF RunnerSpec
=============================================================================
