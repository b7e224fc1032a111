------------------------------- MODULE Runner -------------------------------
(***************************************************************************)
(* The conformance runner, run again and again over one working tree.      *)
(*                                                                         *)
(* A run executes the probes of a plan in order and keeps, for every       *)
(* probe, a raw and a stable file: it writes them under --update and where *)
(* there is no baseline yet, and compares with them otherwise.  At its end *)
(* an --update writes a manifest in every baseline directory it visited.   *)
(* A run may raise out of the loop, or be killed between two writes.       *)
(*                                                                         *)
(* A nested result is the function of its leaves: the runner keeps a leaf  *)
(* by its own key, whatever the keys above it.  Probes are external: what  *)
(* one prints is any output, every time.                                   *)
(***************************************************************************)
EXTENDS Naturals, Sequences, SequencesExt

CONSTANTS
  Plans,      \* plans: sequences of entries [id, dir, requires, gaps, selfwrites]
  Output,     \* what a probe prints: sequences of JSON objects
  StableKey,  \* keys that is_stable_key keeps
  Absent,     \* a file that is not there
  Torn,       \* a file that was cut off while it was written
  MaxRuns     \* bound: runs of the runner

Entries == UNION {Range(p) : p \in Plans}
Dir == {e.dir : e \in Entries}

\* The baseline of an entry: its two files have the id in their names.
Base(e) == << e.dir, e.id >>
Bases == {Base(e) : e \in Entries}

VARIABLES
  raw, stable,  \* [Bases -> contents of its two files]
  manifest,     \* [Dir -> entries of its MANIFEST.json]
  plan, update, \* arguments of the run
  at,           \* where the run is: "idle", "loop", "stable" or "manifests"
  pos,          \* the entry of the plan it is at
  failures, manifests,
  result,       \* the object the probe printed
  status,       \* how the last run ended: an exit code, "raised" or "killed"
  runs,         \* runs started
  before,       \* history: the stable files when this run started
  got,          \* history: the objects its probes printed, or Absent
  wrote,        \* history: the run that wrote each baseline
  listed,       \* history: the run that wrote each manifest
  cut           \* history: runs that raised or were killed

files == << raw, stable, manifest >>
locals == << at, pos, failures, manifests, result, status >>
history == << before, got, wrote, listed, cut >>
runnerVars == << files, plan, update, locals, runs, history >>

RunnerInit ==
  /\ raw = [b \in Bases |-> Absent]
  /\ stable = [b \in Bases |-> Absent]
  /\ manifest = [d \in Dir |-> Absent]
  /\ plan = << >>
  /\ update = FALSE
  /\ at = "idle"
  /\ pos = 1
  /\ failures = 0
  /\ manifests = [d \in Dir |-> << >>]
  /\ result = Absent
  /\ status = "none"
  /\ runs = 0
  /\ before = stable
  /\ got = raw
  /\ wrote = [b \in Bases |-> 0]
  /\ listed = [d \in Dir |-> 0]
  /\ cut = {}

-----------------------------------------------------------------------------
is_stable_key(k) == k \in StableKey

stable_view(obj) == Restrict(obj, {k \in DOMAIN obj : is_stable_key(k)})

\* The objects on stdout that are not empty, whoever printed them.
Objects(out) == {i \in DOMAIN out : DOMAIN out[i] # {}}

ASSUME RunnerAssumption ==
  /\ \A p \in Plans : p \in Seq(Range(p))
  /\ Torn # Absent
  /\ \A out \in Output : \A i \in DOMAIN out : stable_view(out[i]) # Absent

entry == plan[pos]

\* An entry of the list that becomes the manifest of its directory.
Noted(what) ==
  manifests' = [manifests EXCEPT
                  ![entry.dir] = Append(@, [id |-> entry.id, status |-> what])]

-----------------------------------------------------------------------------
\* main: a plan with a malformed or a self-writing entry is refused whole.
Start(p, u) ==
  /\ at = "idle" /\ runs < MaxRuns
  /\ runs' = runs + 1
  /\ plan' = p
  /\ update' = u
  /\ pos' = 1
  /\ failures' = 0
  /\ manifests' = [d \in Dir |-> << >>]
  /\ result' = Absent
  /\ before' = stable
  /\ got' = [b \in Bases |-> Absent]
  /\ IF \E e \in Range(p) : e.gaps \/ e.selfwrites
     THEN at' = "idle" /\ status' = "2"
     ELSE at' = "loop" /\ status' = "none"
  /\ UNCHANGED << files, wrote, listed, cut >>

\* The run is over.
Exit(how) ==
  /\ at' = "idle"
  /\ status' = how
  /\ cut' = IF how \in {"raised", "killed"} THEN cut \cup {runs} ELSE cut

InLoop == at = "loop" /\ pos <= Len(plan)

SkipUnset ==
  /\ InLoop /\ entry.requires
  /\ Noted("skipped")
  /\ pos' = pos + 1
  /\ UNCHANGED << files, plan, update, at, failures, result, status, runs, history >>

\* run_probe raises: nothing on stdout is an object, or 900 s have passed.
Raise ==
  /\ InLoop
  /\ Exit("raised")
  /\ UNCHANGED << files, plan, update, pos, failures, manifests, result, runs,
                  before, got, wrote, listed >>

\* run_probe returns obj.
Ran(obj) ==
  /\ InLoop
  /\ result' = obj
  /\ got' = [got EXCEPT ![Base(entry)] = IF DOMAIN obj = {"skipped"} THEN Absent ELSE obj]

SkipByProbe(obj) ==
  /\ DOMAIN obj = {"skipped"}
  /\ Ran(obj)
  /\ Noted("skipped")
  /\ pos' = pos + 1
  /\ UNCHANGED << files, plan, update, at, failures, status, runs, before, wrote,
                  listed, cut >>

Overwrites == update \/ stable[Base(entry)] = Absent

\* The raw file, before the stable one.
WriteRaw(obj) ==
  /\ DOMAIN obj # {"skipped"}
  /\ Ran(obj)
  /\ Overwrites
  /\ Noted("run")
  /\ raw' = [raw EXCEPT ![Base(entry)] = obj]
  /\ at' = "stable"
  /\ UNCHANGED << stable, manifest, plan, update, pos, failures, status, runs,
                  before, wrote, listed, cut >>

WriteStable ==
  /\ at = "stable"
  /\ stable' = [stable EXCEPT ![Base(entry)] = stable_view(result)]
  /\ wrote' = [wrote EXCEPT ![Base(entry)] = runs]
  /\ at' = "loop"
  /\ pos' = pos + 1
  /\ UNCHANGED << raw, manifest, plan, update, failures, manifests, result, status,
                  runs, before, got, listed, cut >>

\* Mutant: the audit of a probe that failed rewrites its baseline.
CompareHeals(obj) ==
  /\ DOMAIN obj # {"skipped"}
  /\ Ran(obj)
  /\ ~Overwrites /\ stable[Base(entry)] # Torn
  /\ Noted("run")
  /\ stable' = [stable EXCEPT ![Base(entry)] = stable_view(obj)]
  /\ wrote' = [wrote EXCEPT ![Base(entry)] = runs]
  /\ pos' = pos + 1
  /\ UNCHANGED << raw, manifest, plan, update, at, failures, status, runs, before,
                  listed, cut >>

Compare(obj) ==
  /\ DOMAIN obj # {"skipped"}
  /\ Ran(obj)
  /\ ~Overwrites /\ stable[Base(entry)] # Torn
  /\ Noted("run")
  /\ failures' = IF stable_view(obj) = stable[Base(entry)] THEN failures ELSE failures + 1
  /\ pos' = pos + 1
  /\ UNCHANGED << files, plan, update, at, status, runs, before, wrote, listed, cut >>

\* The baseline is no JSON: the comparison raises.
CompareTorn(obj) ==
  /\ DOMAIN obj # {"skipped"}
  /\ Ran(obj)
  /\ ~Overwrites /\ stable[Base(entry)] = Torn
  /\ Noted("run")
  /\ Exit("raised")
  /\ UNCHANGED << files, plan, update, pos, failures, runs, before, wrote, listed >>

Probe ==
  \/ SkipUnset
  \/ Raise
  \/ \E out \in Output : \E i \in Objects(out) :
       /\ \A j \in Objects(out) : i <= j
       /\ \/ SkipByProbe(out[i]) \/ WriteRaw(out[i])
          \/ Compare(out[i]) \/ CompareTorn(out[i])

\* Mutant: the manifest of an audit is written too.
EndLoopAlways ==
  /\ at = "loop" /\ pos > Len(plan)
  /\ at' = "manifests"
  /\ UNCHANGED << files, plan, update, pos, failures, manifests, result, status, runs,
                  history >>

EndLoop ==
  /\ at = "loop" /\ pos > Len(plan)
  /\ update
  /\ at' = "manifests"
  /\ UNCHANGED << files, plan, update, pos, failures, manifests, result, status, runs,
                  history >>

\* A directory whose probes were all skipped keeps the manifest it has.
Preserves(d) ==
  manifest[d] # Absent /\ \A m \in Range(manifests[d]) : m.status = "skipped"

WriteManifest(d) ==
  /\ at = "manifests" /\ manifests[d] # << >>
  /\ IF Preserves(d)
     THEN UNCHANGED << manifest, listed >>
     ELSE /\ manifest' = [manifest EXCEPT ![d] = Range(manifests[d])]
          /\ listed' = [listed EXCEPT ![d] = runs]
  /\ manifests' = [manifests EXCEPT ![d] = << >>]
  /\ UNCHANGED << raw, stable, plan, update, at, pos, failures, result, status, runs,
                  before, got, wrote, cut >>

Report ==
  /\ IF update THEN at = "manifests" /\ \A d \in Dir : manifests[d] = << >>
               ELSE at = "loop" /\ pos > Len(plan)
  /\ Exit(IF failures > 0 THEN "1" ELSE "0")
  /\ UNCHANGED << files, plan, update, pos, failures, manifests, result, runs, before,
                  got, wrote, listed >>

\* The runner is killed in the middle of write_text: of a raw file, of a stable
\* one, or of a manifest.
TearRaw ==
  /\ InLoop /\ ~entry.requires /\ Overwrites
  /\ raw' = [raw EXCEPT ![Base(entry)] = Torn]
  /\ UNCHANGED << stable, manifest, wrote >>

TearStable ==
  /\ at = "stable"
  /\ stable' = [stable EXCEPT ![Base(entry)] = Torn]
  /\ wrote' = [wrote EXCEPT ![Base(entry)] = runs]
  /\ UNCHANGED << raw, manifest >>

TearManifest(d) ==
  /\ at = "manifests" /\ manifests[d] # << >> /\ ~Preserves(d)
  /\ manifest' = [manifest EXCEPT ![d] = Torn]
  /\ UNCHANGED << raw, stable, wrote >>

\* The runner is killed, there or between two writes.
Kill ==
  /\ at # "idle"
  /\ Exit("killed")
  /\ \/ UNCHANGED << files, wrote >>
     \/ TearRaw \/ TearStable
     \/ \E d \in Dir : TearManifest(d)
  /\ UNCHANGED << plan, update, pos, failures, manifests, result, runs, before, got,
                  listed >>

RunnerNext ==
  \/ \E p \in Plans, u \in BOOLEAN : Start(p, u)
  \/ Probe \/ WriteStable \/ EndLoop \/ Report \/ Kill
  \/ \E d \in Dir : WriteManifest(d)

RunnerSpec == RunnerInit /\ [][RunnerNext]_runnerVars

-----------------------------------------------------------------------------
(* Properties.                                                             *)

\* AUDIT CLEAN means what it prints: every probe of the plan that ran printed
\* the stable fields of the baseline that is there now, and a baseline that was
\* there when the audit started is as it was.  So only a probe that had none is
\* compared with nothing but itself; skipped ones the message does not vouch for.
CleanAuditAgreed ==
  status = "0" /\ ~update =>
    \A e \in Range(plan) :
      got[Base(e)] # Absent =>
        /\ stable[Base(e)] = stable_view(got[Base(e)])
        /\ before[Base(e)] # Absent => stable[Base(e)] = before[Base(e)]

\* A manifest lists as run the probes whose baselines are of the run that wrote
\* it, through any number of audits and updates, with probes skipped in some of
\* them.  Only a run that was cut short leaves other baselines beside it, newer
\* ones, and the next manifest ends that: it lists no leftover of such a run.
\* And only such a run leaves a stable file that is not the view of its raw file.
BaselinesTogether ==
  /\ \A e \in Entries :
       /\ manifest[e.dir] \notin {Absent, Torn}
       /\ [id |-> e.id, status |-> "run"] \in manifest[e.dir]
       => \/ wrote[Base(e)] = listed[e.dir]
          \/ wrote[Base(e)] > listed[e.dir] /\ wrote[Base(e)] \in cut
          \/ at # "idle" /\ wrote[Base(e)] = runs
  /\ \A b \in Bases :
       raw[b] # Absent =>
         \/ at = "stable" /\ Base(entry) = b
         \/ \E r \in cut : r >= wrote[b]
         \/ stable[b] = stable_view(raw[b])
=============================================================================
